----------------------------- MODULE MCFrameView -----------------------------
EXTENDS FrameView

MCTexts == { <<<<"a", "w", "a">>>>, <<<<"w">>, <<"a">>>> }
MCLabels == { [kind |-> "label", text |-> <<"a", "w", "a">>, w |-> 4],
              [kind |-> "space", text |-> <<"s">>, w |-> 1] }
MCSizes == { [columns |-> 2, rows |-> 2], [columns |-> 3, rows |-> 1] }
MCScrolls == {2, -2, 1, -1}
=============================================================================
