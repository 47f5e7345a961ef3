------------------------------- MODULE Screen -------------------------------
(***************************************************************************)
(* The text views of the desktop window: the views a layout names, the one *)
(* that is printed to, and what the output port of a script does to them.  *)
(*                                                                         *)
(* The state is one record.  "text" maps the name of every living view to  *)
(* the lines it holds (a frame keeps its last MaxLines), "pen" to the      *)
(* colour and alignment it prints with.  "parent" tells where the node of  *)
(* a view hangs: in the tree on screen, in the one that is being built, or *)
(* nowhere one sees (a tree that a failed layout dropped is as good).      *)
(* "root" is the view that is the whole layout, if one is.  "current" is   *)
(* the view that is printed to, which lives unless every view was closed.  *)
(* "torn" remembers that the last layout failed half way.                  *)
(***************************************************************************)
EXTENDS SequencesExt, Integers, FiniteSets

CONSTANTS
    Names,      \* names of views
    Layouts,    \* the layouts the scripts of a game ask for
    MaxLines    \* lines a view keeps

ASSUME MaxLinesAssumption == MaxLines \in Nat \ {0}

NoView == "no view"

FirstView == "default"

Pens == {"plain", "marked"}

ASSUME NamesAssumption == FirstView \in Names /\ NoView \notin Names

(***************************************************************************)
(* Layouts: a view, an image, or a container of layouts.  A layout is the  *)
(* sequence of the nodes that the walk over its tree makes, each container *)
(* after its children.  The weights of a flow and the kinds of edges are   *)
(* left out.                                                               *)
(***************************************************************************)
TextNode(n) == [type |-> "text", name |-> n]
ImageNode == [type |-> "image"]
Container(k, fits) == [type |-> "container", children |-> k, fits |-> fits]

Text(n) == <<TextNode(n)>>
Image == <<ImageNode>>

\* A flow needs children; the first one of a split, a size.
Flow(cs) == FlattenSeq(cs) \o <<Container(Len(cs), cs # <<>>)>>
FixedSplit(size, first, second) == first \o second \o <<Container(2, size > 0)>>

Nodes == {TextNode(n) : n \in Names} \cup {ImageNode}
         \cup [type : {"container"}, children : Nat, fits : BOOLEAN]

\* The nodes that have no parent yet, after each step of the walk.
Tops(l) ==
    LET tops[i \in 0..Len(l)] ==
            IF i = 0 THEN 0
            ELSE tops[i - 1] + 1 - (IF l[i].type = "container" THEN l[i].children ELSE 0)
    IN tops

\* Every container finds its children before it, and the last node is the root.
IsLayout(l) ==
    /\ l \in Seq(Nodes)
    /\ \A i \in DOMAIN l : Tops(l)[i] > 0
    /\ Tops(l)[Len(l)] = 1

ASSUME LayoutsAssumption == \A l \in Layouts : IsLayout(l)

TextNames(l) == {n \in Names : \E i \in DOMAIN l : l[i] = TextNode(n)}

-----------------------------------------------------------------------------

Views(s) == DOMAIN s.text

OnScreen(s) == {v \in Views(s) : s.root = v \/ s.parent[v] = "screen"}

SetCurrentView(s, v) == [s EXCEPT !.current = v]

\* f with x at v
With(f, v, x) == [w \in DOMAIN f \cup {v} |-> IF w = v THEN x ELSE f[w]]

AppendTextView(s, v) ==
    [s EXCEPT !.text = With(@, v, <<>>),
              !.pen = With(@, v, "plain"),
              !.parent = With(@, v, "none")]

Purge(s, v) == [s EXCEPT !.parent[v] = "none"]

Without(f, vs) == [v \in DOMAIN f \ vs |-> f[v]]

RemoveViews(s, vs) ==
    [s EXCEPT !.text = Without(@, vs), !.pen = Without(@, vs),
              !.parent = Without(@, vs),
              !.root = IF @ \in vs THEN NoView ELSE @]

(***************************************************************************)
(* parseLayoutData walks over the layout and builds the nodes, changing    *)
(* the views as it goes.  What it has built and not yet inserted is in     *)
(* "nodes": the names of views, NoView for an image or a container.  A     *)
(* node that hangs somewhere already cannot be inserted: the walk panics,  *)
(* and stops where it is (what was inserted into that container before it  *)
(* is dropped with it).                                                    *)
(***************************************************************************)
Begun(s) == [screen |-> s, nodes |-> <<>>, failed |-> FALSE]

\* Mutant: a view that lives is made anew.
ParseTextAnew(w, v) ==
    [w EXCEPT !.screen = SetCurrentView(AppendTextView(@, v), v), !.nodes = Append(@, v)]

ParseText(w, v) ==
    [w EXCEPT !.screen = SetCurrentView(IF v \in Views(@) THEN Purge(@, v)
                                                          ELSE AppendTextView(@, v), v),
              !.nodes = Append(@, v)]

ParseImage(w) == [w EXCEPT !.nodes = Append(@, NoView)]

\* Whether the nodes can be inserted: none hangs somewhere, or comes again.
Insertable(s, nodes) ==
    \A i \in DOMAIN nodes : nodes[i] # NoView =>
        /\ s.parent[nodes[i]] = "none"
        /\ \A j \in DOMAIN nodes : nodes[j] = nodes[i] => j = i

InsertAll(s, nodes) ==
    [s EXCEPT !.parent = [v \in DOMAIN @ |-> IF v \in ToSet(nodes) THEN "new" ELSE @[v]]]

ParseContainer(w, k, fits) ==
    LET first == Len(w.nodes) - k
        children == SubSeq(w.nodes, first + 1, Len(w.nodes))
    IN IF fits /\ Insertable(w.screen, children)
       THEN [w EXCEPT !.screen = InsertAll(@, children),
                      !.nodes = Append(SubSeq(@, 1, first), NoView)]
       ELSE [w EXCEPT !.failed = TRUE]

ParseNode(w, c) ==
    CASE w.failed -> w
      [] ~w.failed /\ c.type = "text" -> ParseText(w, c.name)
      [] ~w.failed /\ c.type = "image" -> ParseImage(w)
      [] ~w.failed /\ c.type = "container" -> ParseContainer(w, c.children, c.fits)

Walk(l, s) ==
    LET after[i \in 0..Len(l)] ==
            IF i = 0 THEN Begun(s) ELSE ParseNode(after[i - 1], l[i])
    IN after

ParseLayoutData(l, s) == Walk(l, s)[Len(l)]

-----------------------------------------------------------------------------
RemoveNothing(s, l, old) == s \* mutant: no view is removed

RemoveIntersect(s, l, old) == RemoveViews(s, old \ TextNames(l))

\* What was built goes on screen, or is dropped with the views that hang there.
Hung(s, roots, where) == [v \in DOMAIN s.parent |->
                            IF s.parent[v] = "new" \/ v \in roots THEN where ELSE s.parent[v]]

Inserted(s, root) ==
    [s EXCEPT !.parent = Hung(s, {root}, "screen"), !.root = root, !.torn = FALSE]

Dropped(s) == [s EXCEPT !.parent = Hung(s, {}, "none"), !.torn = TRUE]

SetLayout(s, l) ==
    LET w == ParseLayoutData(l, s)
        t == RemoveIntersect(w.screen, l, Views(s))
    IN IF w.failed THEN Dropped(w.screen)
       ELSE IF Views(t) = {} THEN Dropped(t)
       ELSE Inserted(t, w.nodes[1])

-----------------------------------------------------------------------------
(***************************************************************************)
(* The output port.  Printing needs a view that lives: the editor of a     *)
(* closed one is nil and the call panics.                                  *)
(***************************************************************************)
CanPrint(s) == s.current \in Views(s)

PrintLine(s, line) ==
    [s EXCEPT !.text[s.current] =
        LET q == Append(@, line) IN IF Len(q) > MaxLines THEN Tail(q) ELSE q]

ClearLine(s) == [s EXCEPT !.text[s.current] = IF @ = <<>> THEN @ ELSE Front(@)]

ClearLineAll(s) == [s EXCEPT !.text[s.current] = <<>>]

SetPen(s, p) == [s EXCEPT !.pen[s.current] = p]

SetBackNot(s, v) == s \* mutant: the view that was named stays current

\* The view that was current is found by its name afterwards.
SetBack(s, v) == IF v \in Views(s) THEN SetCurrentView(s, v) ELSE s

-----------------------------------------------------------------------------
FirstScreen ==
    [text |-> [v \in {FirstView} |-> <<>>], pen |-> [v \in {FirstView} |-> "plain"],
     parent |-> [v \in {FirstView} |-> "screen"], root |-> FirstView,
     current |-> FirstView, torn |-> FALSE]
=============================================================================
