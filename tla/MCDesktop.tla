----------------------------- MODULE MCDesktop ------------------------------
EXTENDS Desktop

MCNames == {"default", "a", "b"}

MCLayouts == {
    FixedSplit(1, Text("default"), Text("a")),
    Flow(<<Flow(<<Text("b")>>), Image, Text("a")>>),
    Flow(<<Flow(<<Text("a")>>), Text("a")>>),
    Flow(<<Text("b"), Flow(<<Text("b")>>)>>),
    FixedSplit(0, Text("a"), Text("b")),
    Image}
=============================================================================
