------------------------------ MODULE FrameView ------------------------------
(* A view of the text frame (view/exp/text/view.go): where the drawing starts,
   where it would start to show the bottom, and the number of lines and columns
   of the window. The game writes through the editor while the user resizes,
   draws and scrolls. Scrolling takes no lock: the editor may write between any
   two lines of one scroll. *)
EXTENDS Frame, SequencesExt

CONSTANTS
    Sizes,      \* sizes of the window, in columns and lines
    Scrolls,    \* lines scrolled by one gesture, up when positive
    MaxUses,    \* bound: resizes and scrolls in a behaviour
    MaxCalls    \* bound: all of these and the calls of the editor

ASSUME SizesAssumption == \A size \in Sizes : size.columns \in Int /\ size.rows \in Nat

VARIABLES
    view,   \* startP, startL, maxStartP, maxStartL and maxLines
    scroll, \* locals of ScrollLine: lines left, paragraph and line
    broken, \* an index out of range ended the program
    writes, \* calls of the editor so far
    uses    \* resizes and scrolls so far

viewVars == <<frame, align, color, lines, view, scroll, broken, writes, uses>>

NoScroll == [n |-> 0, p |-> 0, l |-> 0]

\* The zero elements of the arrays exist too.
ParaAt(f, p) == IF p = 0 THEN NoPara ELSE f.P[p]
LineAt(f, l) == IF l = 0 THEN NoLine ELSE f.L[l]
InParas(f, p) == p \in 0 .. Len(f.P)
InLines(f, l) == l \in 0 .. Len(f.L)

LineCount(f, p) == IF f.P[p].count = 0 THEN Len(Lines(f, p)) ELSE f.P[p].count - 1

\* startPAndL: the first paragraph and line of the last n lines, found by going
\* back from the last of the paragraphs ps.
LinesSince(f, ps, k) == FoldLeft(LAMBDA c, p : c + LineCount(f, p), 0, SubSeq(ps, k, Len(ps)))
Enough(f, ps, n) == {k \in DOMAIN ps : LinesSince(f, ps, k) >= n}
StartAt(ks) == IF ks = {} THEN 1 ELSE CHOOSE k \in ks : \A m \in ks : m <= k
StartLine(f, p, excess) ==
    LET ls == Lines(f, p)
        blank == LineCount(f, p) - excess
    IN  IF excess # 0 /\ blank \in DOMAIN ls THEN ls[Len(ls) + 1 - blank] ELSE f.P[p].firstL

StartFrom(f, ps, n, k) ==
    [p |-> ps[k], l |-> StartLine(f, ps[k], LinesSince(f, ps, k) - n),
     visited |-> Range(SubSeq(ps, k, Len(ps)))]
TailStart(f, n) == StartFrom(f, Paras(f), n, StartAt(Enough(f, Paras(f), n)))

\* The line counts of the visited paragraphs are cached.
Cached(f, ps) ==
    [f EXCEPT !.P = [p \in DOMAIN f.P |->
        IF p \in ps THEN [f.P[p] EXCEPT !.count = LineCount(f, p) + 1] ELSE f.P[p]]]

ViewInit ==
    /\ FrameInit
    /\ view = [p |-> 0, l |-> 0, maxP |-> 0, maxL |-> 0, rows |-> 0]
    /\ scroll = NoScroll
    /\ broken = FALSE
    /\ writes = 0 /\ uses = 0

Write ==
    /\ ~broken /\ writes < MaxWrites /\ writes + uses < MaxCalls
    /\ Edit
    /\ writes' = writes + 1
    /\ UNCHANGED <<view, scroll, broken, uses>>

Resize(size) ==
    /\ ~broken /\ scroll = NoScroll /\ uses < MaxUses /\ writes + uses < MaxCalls
    /\ LET f == SetMaxRuneWidth(frame, size.columns)
           s == TailStart(f, size.rows)
       IN  /\ frame' = Cached(f, s.visited)
           /\ view' = [p |-> s.p, l |-> s.l, maxP |-> s.p, maxL |-> s.l, rows |-> size.rows]
    /\ uses' = uses + 1
    /\ UNCHANGED <<align, color, lines, scroll, broken, writes>>

\* Mutant: a new line of the same paragraph does not move the view.
MovedPara(v, s) == v.maxP # s.p

\* The view goes to the bottom when the bottom is elsewhere than it was.
Moved(v, s) == v.maxP # s.p \/ v.maxL # s.l
AfterDraw ==
    LET s == TailStart(frame, view.rows)
    IN  IF Moved(view, s) THEN [view EXCEPT !.p = s.p, !.l = s.l, !.maxP = s.p, !.maxL = s.l]
        ELSE view

Draw ==
    /\ ~broken /\ scroll = NoScroll /\ view.rows > 0
    /\ view' = AfterDraw
    /\ frame' = Cached(frame, TailStart(frame, view.rows).visited)
    /\ broken' = ~(InParas(frame, AfterDraw.p) /\ InLines(frame, AfterDraw.l))
    /\ UNCHANGED <<align, color, lines, scroll, writes, uses>>

BeginScroll(n) ==
    /\ ~broken /\ scroll = NoScroll /\ uses < MaxUses /\ writes + uses < MaxCalls
    /\ IF n > 0 THEN view.p # frame.firstP \/ view.l # frame.P[frame.firstP].firstL
       ELSE view.p # view.maxP \/ view.l # view.maxL
    /\ scroll' = [n |-> n, p |-> view.p, l |-> view.l]
    /\ uses' = uses + 1
    /\ UNCHANGED <<frame, align, color, lines, view, broken, writes>>

\* One round of the loop upwards.
ScrollUp ==
    /\ ~broken /\ scroll.n > 0
    /\ LET l == LineAt(frame, scroll.l).prev
           p == ParaAt(frame, scroll.p).prev
       IN  CASE ~InLines(frame, scroll.l) -> broken' = TRUE /\ UNCHANGED <<view, scroll>>
             [] InLines(frame, scroll.l) /\ l # 0 ->
                    /\ view' = [view EXCEPT !.l = l]
                    /\ scroll' = IF scroll.n = 1 THEN NoScroll ELSE [scroll EXCEPT !.l = l, !.n = @ - 1]
                    /\ UNCHANGED broken
             [] InLines(frame, scroll.l) /\ l = 0 /\ p = 0 ->
                    scroll' = NoScroll /\ UNCHANGED <<view, broken>>
             [] InLines(frame, scroll.l) /\ l = 0 /\ p < 0 -> broken' = TRUE /\ UNCHANGED <<view, scroll>>
             [] OTHER ->
                    /\ view' = [view EXCEPT !.p = p, !.l = IF frame.P[p].firstL = 0 THEN 0 ELSE LastIn(Lines(frame, p))]
                    /\ scroll' = IF scroll.n = 1 THEN NoScroll ELSE [scroll EXCEPT !.p = p, !.n = @ - 1]
                    /\ UNCHANGED broken
    /\ UNCHANGED <<frame, align, color, lines, writes, uses>>

\* One round of the loop downwards.
ScrollDown ==
    /\ ~broken /\ scroll.n < 0
    /\ LET l == LineAt(frame, scroll.l).next
           p == ParaAt(frame, scroll.p).next
       IN  CASE ~InLines(frame, scroll.l) -> broken' = TRUE /\ UNCHANGED <<view, scroll>>
             [] InLines(frame, scroll.l) /\ l # 0 ->
                    /\ view' = [view EXCEPT !.l = l]
                    /\ scroll' = IF scroll.n = -1 THEN NoScroll ELSE [scroll EXCEPT !.l = l, !.n = @ + 1]
                    /\ UNCHANGED broken
             [] InLines(frame, scroll.l) /\ l = 0 /\ (p = 0 \/ scroll.p = view.maxP) ->
                    scroll' = NoScroll /\ UNCHANGED <<view, broken>>
             [] OTHER ->
                    /\ view' = [view EXCEPT !.p = p, !.l = frame.P[p].firstL]
                    /\ scroll' = IF scroll.n = -1 THEN NoScroll ELSE [scroll EXCEPT !.p = p, !.n = @ + 1]
                    /\ UNCHANGED broken
    /\ UNCHANGED <<frame, align, color, lines, writes, uses>>

ViewNext ==
    \/ Write
    \/ \E size \in Sizes : Resize(size)
    \/ Draw
    \/ \E n \in Scrolls : BeginScroll(n)
    \/ ScrollUp
    \/ ScrollDown

ViewSpec == ViewInit /\ [][ViewNext]_viewVars

-----------------------------------------------------------------------------
LiveP == Range(Paras(frame))
LiveL == UNION {Range(Lines(frame, p)) : p \in LiveP}
LiveB == UNION {Range(Boxes(frame, l)) : l \in LiveL}

ViewTypeOK ==
    /\ frame.firstP \in DOMAIN frame.P
    /\ frame.len \in Nat /\ frame.count \in Nat /\ frame.width > 1
    /\ align \in Alignments /\ color \in Colors /\ lines \in Nat
    /\ view.rows \in Nat /\ broken \in BOOLEAN

\* (frame.go:35-52) The elements in use form doubly linked lists, no element is
\* in two places (two lists that share an element share the first one, if the
\* links back are right), and none of them is free: the siblings of a line or box
\* are what the lists say in both directions.
Linked(s, prev) == \A i \in DOMAIN s : prev[s[i]] = IF i = 1 THEN 0 ELSE s[i - 1]
Prevs(elements, indices) == [i \in indices |-> elements[i].prev]
ListsLinked(f, ps, ls, bs) ==
    /\ Linked(Paras(f), Prevs(f.P, ps))
    /\ \A p \in ps : Lines(f, p) # <<>> /\ Linked(Lines(f, p), Prevs(f.L, ls))
    /\ \A l \in ls : Boxes(f, l) # <<>> /\ Linked(Boxes(f, l), Prevs(f.B, bs))
    /\ \A p, q \in ps : f.P[p].firstL = f.P[q].firstL => p = q
    /\ \A l, m \in ls : f.L[l].firstB = f.L[m].firstB => l = m
    /\ ps \cap Range(Follow(NextP(f), f.freeP)) = {}
    /\ ls \cap Range(Follow(NextL(f), f.freeL)) = {}
    /\ bs \cap Range(Follow(NextB(f), f.freeB)) = {}
WellLinked == ListsLinked(frame, LiveP, LiveL, LiveB)

\* (frame.go:71-81) The length kept is that of the live text, and compaction
\* finds exactly that much.
TextKept(f, bs) ==
    /\ f.len = Total([b \in DOMAIN f.B |-> IF b \in bs THEN BoxLen(f.B[b]) ELSE 0], Len(f.B))
    /\ \A b \in bs : f.B[b].kind # "line" => f.B[b].i >= 0 /\ f.B[b].j <= Len(f.text)
TextAccounted == TextKept(frame, LiveB)

\* (frame.go:164) No line is wider than the frame, but for a box that cannot be split.
LinesFit ==
    \A l \in LiveL :
        LineWidth(frame, l) > frame.width =>
            Len(Boxes(frame, l)) = 1 /\ frame.B[frame.L[l].firstB].kind # "text"

\* Caches of the editor, of the frame and of the paragraphs say what is so.
CachesFresh ==
    /\ frame.last # NoLast => frame.last = SetLasts(frame).last
    /\ frame.count # 0 => frame.count = Cardinality(LiveP) + 1
    /\ \A p \in LiveP : frame.P[p].count # 0 => frame.P[p].count = Len(Lines(frame, p)) + 1

Items(f, b) ==
    LET x == f.B[b]
        Item(kind, text, w) == <<[kind |-> kind, text |-> text, w |-> w, color |-> x.color]>>
    IN  IF x.kind = "text"
        THEN [i \in 1 .. x.j - x.i |-> [kind |-> "text", text |-> <<f.text[x.i + i]>>, w |-> 0, color |-> x.color]]
        ELSE IF x.kind = "line" THEN Item("line", <<>>, 0)
        ELSE Item(x.kind, Bytes(f, b), x.w)
FlattenMap(s, F(_)) == FoldLeft(LAMBDA a, x : a \o F(x), <<>>, s)
Body(f, p) ==
    FlattenMap(Lines(f, p), LAMBDA l : FlattenMap(Boxes(f, l), LAMBDA b : Items(f, b)))
Contents(f) ==
    LET ps == Paras(f) IN [i \in DOMAIN ps |-> [align |-> f.P[ps[i]].align, body |-> Body(f, ps[i])]]

\* The frame implements the document: a call of the editor does to the contents
\* what it does to the document, and nothing else changes them. (This implies
\* Doc!Spec, and leaves fewer steps to compare.)
Doc == INSTANCE Document WITH doc <- Contents(frame)
IsDocument ==
    Doc!Init /\ [][IF writes' = writes THEN UNCHANGED frameVars \/ UNCHANGED Doc!vars
                    ELSE Doc!Next]_viewVars

\* (view.go:36-38, 289-299) The view starts at a line of the paragraph it starts
\* with, and both are in use.
StartInUse == view.p \in LiveP /\ view.l \in Range(Lines(frame, view.p))

\* (view.go:291-303, 374-424) A user who has not scrolled sees the last lines
\* after a drawing, as many as fit.
AllLines == FlattenMap(Paras(frame), LAMBDA p : Lines(frame, p))
Shown == Len(AllLines) + 1 - SelectInSeq(AllLines, LAMBDA l : l = view.l)
AtBottom == view.p = view.maxP /\ view.l = view.maxL
TailShown == StartInUse /\ Shown = Lesser(view.rows, Len(AllLines))
DrawShowsTail == [][(Draw \/ \E size \in Sizes : Resize(size)) => (AtBottom => TailShown)']_viewVars

\* The pool of paragraphs, lines and boxes is well formed after every call of the
\* editor and the view: links, lengths, widths and caches.
WellFormed == ViewTypeOK /\ WellLinked /\ TextAccounted /\ LinesFit /\ CachesFresh
=============================================================================
