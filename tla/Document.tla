------------------------------ MODULE Document ------------------------------
(* What a text frame promises to the game that writes to it: paragraphs of
   content in the order they were written, the oldest ones forgotten beyond a
   limit, and nothing else changed by the width of the window, by the soft
   returns, by the reuse of freed indices or by the compaction of the buffer.
   Frame (view/exp/text) is shown to implement this. *)
EXTENDS Integers, Sequences

CONSTANTS
    Texts,          \* texts passed to WriteText, split at their hard returns
    Labels,         \* boxes that are never split: kind, text and width
    Colors,         \* colours of text
    Alignments,     \* alignments of a paragraph
    MaxParagraphs,  \* FrameOptions.MaxParagraphs
    Newline         \* the character that ends a paragraph

VARIABLES
    doc,    \* the paragraphs: alignment and items
    align,  \* the editor's alignment
    color,  \* the editor's colour
    lines   \* hard returns written so far

vars == <<doc, align, color, lines>>

Blank == [align |-> align, body |-> <<>>]

\* The last paragraphs that may stay.
Keep(d) ==
    IF Len(d) <= MaxParagraphs THEN d
    ELSE SubSeq(d, Len(d) - MaxParagraphs + 1, Len(d))

Item(kind, text, w) == [kind |-> kind, text |-> text, w |-> w, color |-> color]

\* A character is an item of its own: soft returns may come between any two.
Chars(s) == [i \in 1..Len(s) |-> Item("text", <<s[i]>>, 0)]

\* The paragraphs of d after the pieces of text ls, with a hard return between.
Written(d, ls) ==
    LET n == Len(d)
        m == Len(ls)
    IN  [i \in 1 .. n + m - 1 |->
            IF i < n THEN d[i]
            ELSE LET old == IF i = n THEN d[n] ELSE Blank
                     new == IF i = n + m - 1 THEN ls[m] ELSE Append(ls[i - n + 1], Newline)
                 IN  [old EXCEPT !.body = @ \o Chars(new)]]

WithItem(d, item) == [d EXCEPT ![Len(d)].body = Append(@, item)]

\* A line takes a paragraph of its own: one of which something is seen is ended.
Seen(d) ==
    LET body == d[Len(d)].body
    IN  \E i \in DOMAIN body : body[i].kind = "text" \/ body[i].w > 0
Ended(d) == IF Seen(d) THEN Append(d, Blank) ELSE d

\* The last n paragraphs go; one empty paragraph is there to write to.
Shortened(d, n) == Append(SubSeq(d, 1, Len(d) - n), Blank)

Init ==
    /\ align \in Alignments
    /\ color \in Colors
    /\ doc = <<Blank>>
    /\ lines = 0

WriteText(ls) ==
    /\ UNCHANGED <<align, color>>
    /\ lines' = lines + Len(ls) - 1
    /\ doc' = Keep(Written(doc, ls))

WriteLabel(label) ==
    /\ UNCHANGED <<align, color, lines>>
    /\ doc' = WithItem(doc, Item(label.kind, label.text, label.w))

WriteLine ==
    /\ UNCHANGED <<align, color>>
    /\ lines' = lines + (IF Seen(doc) THEN 2 ELSE 1)
    /\ doc' = Keep(Append(WithItem(Ended(doc), Item("line", <<>>, 0)), Blank))

SetAlignment(a) ==
    /\ align' = a
    /\ UNCHANGED <<color, lines>>
    /\ doc' = [doc EXCEPT ![Len(doc)].align = a]

SetColor(c) == color' = c /\ UNCHANGED <<align, lines, doc>>

DeleteLastParagraphs(n) ==
    /\ UNCHANGED <<align, color>>
    /\ n \in 1 .. Len(doc)
    /\ lines' = IF n = Len(doc) THEN lines ELSE lines + 1
    /\ doc' = Shortened(doc, n)

DeleteAll == UNCHANGED <<align, color, lines>> /\ doc' = <<Blank>>

Next ==
    \/ \E ls \in Texts : WriteText(ls)
    \/ \E label \in Labels : WriteLabel(label)
    \/ WriteLine
    \/ \E a \in Alignments : SetAlignment(a)
    \/ \E c \in Colors : SetColor(c)
    \/ \E n \in 1 .. MaxParagraphs : DeleteLastParagraphs(n)
    \/ DeleteAll

Spec == Init /\ [][Next]_vars
=============================================================================
