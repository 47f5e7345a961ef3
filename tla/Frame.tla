-------------------------------- MODULE Frame --------------------------------
(* The text frame of the desktop window and its editor (view/exp/text): three
   arrays of paragraphs, lines and boxes, each element in a doubly linked list
   with its siblings or in a free list, and a buffer of text that boxes point
   into, with holes where content was deleted. Index 0 stands for no element.
   The operators follow the functions of frame.go and editor.go and take the
   frame as a record; each action is one call of the editor under the lock. *)
EXTENDS Integers, Sequences, FiniteSets

CONSTANTS
    Characters,     \* the characters of all texts
    Texts,          \* texts passed to WriteText, split at their hard returns
    Labels,         \* boxes that are never split: kind, text and width
    Colors,         \* colours of text
    Alignments,     \* alignments of a paragraph
    MaxParagraphs,  \* FrameOptions.MaxParagraphs
    Newline,        \* the character that ends a paragraph
    Wide,           \* the characters that take two columns
    DefaultWidth,   \* DefaultMaxRuneWidth
    CompactLen,     \* length of the buffer from which it is compacted (4096)
    MaxWrites       \* bound: calls of the editor in a behaviour

ASSUME MaxParagraphsAssumption == MaxParagraphs \in Nat \ {0}
ASSUME TextsAssumption == Texts \subseteq Seq(Seq(Characters)) \ {<<>>} /\ Newline \in Characters
ASSUME LabelsAssumption ==
    \A x \in Labels :
        x.kind \notin {"text", "line"} /\ x.text \in Seq(Characters) /\ x.w \in Nat
ASSUME ChoicesAssumption == Colors # {} /\ Alignments # {}
ASSUME DefaultWidthAssumption == DefaultWidth \in Nat \ {0, 1}

VARIABLES
    frame,  \* the Frame and its editor's indices of the last elements
    align,  \* Editor.align
    color,  \* Editor.Color
    lines   \* Editor.newLineCount

frameVars == <<frame, align, color, lines>>

NoPara == [firstL |-> 0, next |-> 0, prev |-> 0, align |-> CHOOSE a \in Alignments : TRUE, count |-> 0]
NoLine == [firstB |-> 0, next |-> 0, prev |-> 0]
NoColor == CHOOSE c \in Colors : TRUE
NoBox == [kind |-> "text", i |-> 0, j |-> 0, w |-> 0, color |-> NoColor, next |-> 0, prev |-> 0]
NoLast == [p |-> 0, l |-> 0, b |-> 0]

-----------------------------------------------------------------------------
(* Reading the lists *)

\* The sum of the first n values of c.
AddNext(c, sum, k) == sum + c[k]
Adding == INSTANCE Loop WITH Round <- AddNext
Total(c, n) == Adding!Run(c, 0, n)

RuneWidth(c) == IF c = Newline THEN 0 ELSE IF c \in Wide THEN 2 ELSE 1

\* Columns taken by the first n characters of a text.
Columns(text, n) == Total([k \in DOMAIN text |-> RuneWidth(text[k])], n)
StringWidth(s) == Columns(s, Len(s))

\* A line box always ends its line, whatever index was set as its next.
NextIndex(f, b) == IF f.B[b].kind = "line" THEN 0 ELSE f.B[b].next

BoxWidth(f, b) == IF f.B[b].kind = "line" THEN f.width ELSE f.B[b].w

\* The elements of a list, from the first one to the one that has no next.
NextOf(next, i, k) == next[i]
Walking == INSTANCE Loop WITH Round <- NextOf
Follow(next, first) ==
    LET at(k) == Walking!Run(next, first, k)
        n == CHOOSE m \in DOMAIN next : at(m) = 0 /\ \A k \in 0 .. m - 1 : at(k) # 0
    IN  [k \in 1 .. n |-> at(k - 1)]

LastIn(s) == s[Len(s)]

NextP(f) == [p \in 0 .. Len(f.P) |-> IF p = 0 THEN 0 ELSE f.P[p].next]
NextL(f) == [l \in 0 .. Len(f.L) |-> IF l = 0 THEN 0 ELSE f.L[l].next]
NextB(f) == [b \in 0 .. Len(f.B) |-> IF b = 0 THEN 0 ELSE NextIndex(f, b)]

Paras(f) == Follow(NextP(f), f.firstP)
Lines(f, p) == Follow(NextL(f), f.P[p].firstL)
Boxes(f, l) == Follow(NextB(f), f.L[l].firstB)

\* Columns taken by the first k boxes.
WidthUpTo(f, bs, k) == Total([i \in DOMAIN bs |-> BoxWidth(f, bs[i])], k)
LineWidth(f, l) == WidthUpTo(f, Boxes(f, l), Len(Boxes(f, l)))

ParagraphCount(f) == IF f.count = 0 THEN Len(Paras(f)) ELSE f.count - 1
Counted(f) == [f EXCEPT !.count = ParagraphCount(f) + 1]

Bytes(f, b) == SubSeq(f.text, f.B[b].i + 1, f.B[b].j)

-----------------------------------------------------------------------------
(* The free lists: the last element freed is the first one used again. *)

Slot(free, s) == IF free # 0 THEN free ELSE Len(s) + 1
Put(s, i, x) == IF i <= Len(s) THEN [s EXCEPT ![i] = x] ELSE Append(s, x)

NewParagraph(f) ==
    LET p == Slot(f.freeP, f.P)
    IN  [f EXCEPT !.P = Put(f.P, p, [NoPara EXCEPT !.align = align]),
                  !.freeP = IF f.freeP = 0 THEN 0 ELSE f.P[p].next]

NewLine(f) ==
    LET l == Slot(f.freeL, f.L)
    IN  [f EXCEPT !.L = Put(f.L, l, NoLine),
                  !.freeL = IF f.freeL = 0 THEN 0 ELSE f.L[l].next]

AddBox(f, box) ==
    LET b == Slot(f.freeB, f.B)
    IN  [f EXCEPT !.B = Put(f.B, b, box),
                  !.freeB = IF f.freeB = 0 THEN 0 ELSE NextIndex(f, b)]

FreeParagraph(f, p) ==
    [f EXCEPT !.P[p] = [NoPara EXCEPT !.next = f.freeP, !.prev = -1], !.freeP = p]

FreeLine(f, l) ==
    [f EXCEPT !.L[l] = [NoLine EXCEPT !.next = f.freeL, !.prev = -1], !.freeL = l]

FreeBox(f, b) ==
    [f EXCEPT !.B[b].next = f.freeB, !.B[b].prev = -1, !.freeB = b]

-----------------------------------------------------------------------------
(* Layout *)

\* Mutant: boxes of different colours are joined.
JoinsAnyColor(x, y) ==
    /\ x.kind = "text" /\ y.kind = "text"
    /\ x.i = x.j \/ y.i = y.j \/ x.j = y.i

Joins(x, y) ==
    /\ x.kind = "text" /\ y.kind = "text"
    /\ x.i = x.j \/ y.i = y.j \/ (x.j = y.i /\ x.color = y.color)

Joined(x, y) ==
    IF x.i = x.j THEN [y EXCEPT !.prev = x.prev]
    ELSE IF y.i = y.j THEN [x EXCEPT !.next = y.next]
    ELSE [x EXCEPT !.j = y.j, !.w = @ + y.w, !.next = y.next]

SetPrev(f, b, prev) == IF b = 0 THEN f ELSE [f EXCEPT !.B[b].prev = prev]
LinkBoxes(f, b0, b1) == [f EXCEPT !.B[b0].next = b1, !.B[b1].prev = b0]

\* Two neighbours become one box, and the second is freed.
JoinBoxes(f, b0, b1) ==
    FreeBox(SetPrev([f EXCEPT !.B[b0] = Joined(@, f.B[b1])], f.B[b1].next, b0), b1)

\* Every line of the paragraph is put at the end of its first line l; b0 is
\* the box from which boxes are still to be joined.
Unbreak(f, l, next, b0) ==
    FreeLine([LinkBoxes(f, b0, f.L[next].firstB) EXCEPT !.L[l].next = f.L[next].next], next)

\* One round of the loop over the paragraph, from box b of its first line l on.
MergeAt(f, l, b, b1) ==
    IF b1 # 0 /\ Joins(f.B[b], f.B[b1]) THEN [f |-> JoinBoxes(f, b, b1), b |-> b]
    ELSE IF b1 # 0 THEN [f |-> f, b |-> b1]
    ELSE IF f.L[l].next # 0 THEN [f |-> Unbreak(f, l, f.L[l].next, b), b |-> b]
    ELSE [f |-> f, b |-> b]
MergeRound(l, m, k) == MergeAt(m.f, l, m.b, NextIndex(m.f, m.b))
Merging == INSTANCE Loop WITH Round <- MergeRound

\* A round takes one box or one line, so that these are enough.
MergeRounds(f) == Len(f.L) + Len(f.B)

MergeFrom(f, l) == Merging!Run(l, [f |-> f, b |-> f.L[l].firstB], MergeRounds(f)).f
MergeIntoOneLine(f, p) == MergeFrom(f, f.P[p].firstL)

\* The end of the characters of text box x that fill the columns given, or stand
\* before a wide one that would exceed them.
Full(f, x, columns, k) ==
    LET width(j) == Columns(f.text, j) - Columns(f.text, x.i)
    IN  k = x.j \/ width(k) >= columns \/ width(k + 1) > columns
Pivot(f, x, columns) ==
    CHOOSE k \in x.i .. x.j :
        Full(f, x, columns, k) /\ \A m \in x.i .. k - 1 : ~Full(f, x, columns, m)

\* The text box x, at index b, ends at the pivot; the rest is a box after it.
SplitAt(f, b, x, pivot, w) ==
    SetPrev([AddBox(f, [x EXCEPT !.i = pivot, !.w = x.w - w, !.prev = b]) EXCEPT
                !.B[b] = [x EXCEPT !.j = pivot, !.w = w, !.next = Slot(f.freeB, f.B)]],
            x.next, Slot(f.freeB, f.B))

SplitTextBox(f, b, pivot) ==
    SplitAt(f, b, f.B[b], pivot, Columns(f.text, pivot) - Columns(f.text, f.B[b].i))

\* What follows box b goes to the start of the next line, made if there is none,
\* before the boxes that line had.
NextLine(f, l) ==
    IF f.L[l].next # 0 THEN f
    ELSE [NewLine(f) EXCEPT !.L[Slot(f.freeL, f.L)].prev = l, !.L[l].next = Slot(f.freeL, f.L)]

JoinEnds(f, b0, b1) == IF Joins(f.B[b0], f.B[b1]) THEN JoinBoxes(f, b0, b1) ELSE f

AddBefore(f, l, rest, had) ==
    IF had = 0 THEN f
    ELSE LET end == LastIn(Boxes(f, l)) IN JoinEnds(LinkBoxes(f, end, had), end, had)

\* Mutant: the box that starts a line keeps the box before it on the last one.
MoveToKeepsPrev(f, b, rest, l) ==
    AddBefore([f EXCEPT !.B[b].next = 0, !.L[l].firstB = rest], l, rest, f.L[l].firstB)

MoveTo(f, b, rest, l) ==
    AddBefore([SetPrev(f, rest, 0) EXCEPT !.B[b].next = 0, !.L[l].firstB = rest],
              l, rest, f.L[l].firstB)

MoveRest(f, l, b) ==
    LET g == NextLine(f, l) IN MoveTo(g, b, NextIndex(f, b), g.L[l].next)

\* A line is broken inside a text, before a box that is not its first one, or
\* after its first one, if anything follows.
BreakLine(f, l, b, room) ==
    IF f.B[b].kind = "text" /\ room # 0
    THEN MoveRest(SplitTextBox(f, b, Pivot(f, f.B[b], room)), l, b)
    ELSE IF f.B[b].prev # 0 THEN MoveRest(f, l, f.B[b].prev)
    ELSE IF NextIndex(f, b) # 0 THEN MoveRest(f, l, b)
    ELSE f

\* The boxes, by their place in the line, that end beyond the width of the frame.
Overflows(f, bs) == {k \in DOMAIN bs : WidthUpTo(f, bs, k) > f.width}
Least(S) == CHOOSE k \in S : \A m \in S : k <= m

\* One round of the loop over the lines: the next line, if this one was broken.
Broken(g, l) == [f |-> g, l |-> g.L[l].next]
BreakFirst(f, l, bs, k) == Broken(BreakLine(f, l, bs[k], f.width - WidthUpTo(f, bs, k - 1)), l)
LayoutLine(f, l, bs) ==
    IF Overflows(f, bs) = {} THEN [f |-> f, l |-> 0]
    ELSE BreakFirst(f, l, bs, Least(Overflows(f, bs)))
LayoutRound(same, m, k) == IF m.l = 0 THEN m ELSE LayoutLine(m.f, m.l, Boxes(m.f, m.l))
LayingOut == INSTANCE Loop WITH Round <- LayoutRound

\* A round leaves at least a character or a box behind.
LayoutRounds(f) == f.len + Len(f.B)

LayoutOneLine(f, l) == LayingOut!Run(0, [f |-> f, l |-> l], LayoutRounds(f)).f

RelayoutPara(f, p) ==
    [LayoutOneLine(MergeIntoOneLine(f, p), f.P[p].firstL) EXCEPT !.P[p].count = 0]

RelayoutRound(ps, f, k) == RelayoutPara(f, ps[k])
Relaying == INSTANCE Loop WITH Round <- RelayoutRound

Relayout(f) ==
    [Relaying!Run(Paras(f), f, Len(Paras(f))) EXCEPT !.count = 0, !.last = NoLast]

SetMaxRuneWidth(f, w) ==
    LET width == IF w <= 1 THEN DefaultWidth ELSE w
    IN  IF f.width = width THEN f ELSE Relayout([f EXCEPT !.width = width])

-----------------------------------------------------------------------------
(* Appending *)

LastsAt(f, p, l) == [f EXCEPT !.last = [p |-> p, l |-> l, b |-> LastIn(Boxes(f, l))]]
LastsIn(f, p) == LastsAt(f, p, LastIn(Lines(f, p)))
SetLasts(f) == LastsIn(f, LastIn(Paras(f)))

Valid(f) == IF f.last = NoLast THEN SetLasts(f) ELSE f

LinkBox(f, end, b) ==
    IF Joins(f.B[end], f.B[b]) THEN JoinBoxes(f, end, b)
    ELSE [LinkBoxes(f, end, b) EXCEPT !.last.b = b]

AppendBox(f, box) == LinkBox(AddBox(f, box), f.last.b, Slot(f.freeB, f.B))

LinkParagraph(f, last, p, l, b) ==
    [f EXCEPT !.P[p].prev = last, !.P[last].next = p, !.P[p].firstL = l,
              !.L[l].firstB = b, !.last = [p |-> p, l |-> l, b |-> b], !.count = 0]

AppendParagraph(f) ==
    LinkParagraph(AddBox(NewLine(NewParagraph(f)), NoBox), f.last.p,
                  Slot(f.freeP, f.P), Slot(f.freeL, f.L), Slot(f.freeB, f.B))

\* The text goes to the end of the buffer, a box for it to the end of the last
\* line, and the line is broken when it has become too wide.
Fitted(f) ==
    IF LineWidth(f, f.last.l) <= f.width THEN f
    ELSE [SetLasts(LayoutOneLine(f, f.last.l)) EXCEPT !.P[f.last.p].count = 0]

AppendAt(f, kind, s, w, i) ==
    Fitted(AppendBox([f EXCEPT !.text = @ \o s, !.len = @ + Len(s)],
        [NoBox EXCEPT !.kind = kind, !.i = i, !.j = i + Len(s), !.w = w, !.color = color]))

AppendText(f, kind, s, w) == AppendAt(Valid(f), kind, s, w, Len(f.text))

EndLine(f, s) == IF LastIn(s) = Newline THEN AppendParagraph(f) ELSE f
AppendLineOfText(f, s) == EndLine(AppendText(f, "text", s, StringWidth(s)), s)

-----------------------------------------------------------------------------
(* Deleting *)

\* The live text of f in the order of the layout, and every box moved to its
\* place: g is the frame with what was moved so far.
CompactBox(f, g, b) ==
    IF f.B[b].kind = "line" THEN g
    ELSE [g EXCEPT !.text = @ \o Bytes(f, b), !.B[b].i = Len(g.text),
                   !.B[b].j = Len(g.text) + Len(Bytes(f, b))]

CompactBoxRound(same, g, k) == CompactBox(same.f, g, same.bs[k])
BoxCompaction == INSTANCE Loop WITH Round <- CompactBoxRound
CompactLine(f, g, bs) == BoxCompaction!Run([f |-> f, bs |-> bs], g, Len(bs))

CompactLineRound(same, g, k) == CompactLine(same.f, g, Boxes(same.f, same.ls[k]))
LineCompaction == INSTANCE Loop WITH Round <- CompactLineRound
CompactPara(f, g, ls) == LineCompaction!Run([f |-> f, ls |-> ls], g, Len(ls))

CompactParaRound(same, g, k) == CompactPara(same.f, g, Lines(same.f, same.ps[k]))
ParaCompaction == INSTANCE Loop WITH Round <- CompactParaRound
CompactParas(f, g, ps) == ParaCompaction!Run([f |-> f, ps |-> ps], g, Len(ps))

CompactText(f) == CompactParas(f, [f EXCEPT !.text = <<>>], Paras(f))

DeletedLen(f) == Len(f.text) - f.len

\* A frame without paragraphs gets an empty one.
Refill(f) ==
    [AddBox(NewLine(NewParagraph(f)), NoBox) EXCEPT
        !.P[Slot(f.freeP, f.P)].firstL = Slot(f.freeL, f.L),
        !.L[Slot(f.freeL, f.L)].firstB = Slot(f.freeB, f.B),
        !.firstP = Slot(f.freeP, f.P)]

SetNextPara(f, p, next) == IF p = 0 THEN f ELSE [f EXCEPT !.P[p].next = next]
SetPrevPara(f, p, prev) == IF p = 0 THEN f ELSE [f EXCEPT !.P[p].prev = prev]

Unlink(f, p, x) ==
    [SetPrevPara(SetNextPara(f, x.prev, x.next), x.next, x.prev) EXCEPT
        !.firstP = IF p = @ THEN x.next ELSE @, !.count = 0, !.last = NoLast]

BoxLen(x) == IF x.kind = "line" THEN 0 ELSE x.j - x.i

DropBox(f, b) == FreeBox([f EXCEPT !.len = @ - BoxLen(f.B[b])], b)
DropBoxRound(bs, f, k) == DropBox(f, bs[k])
BoxDropping == INSTANCE Loop WITH Round <- DropBoxRound
DropBoxes(f, bs) == BoxDropping!Run(bs, f, Len(bs))

DropLine(f, l) == FreeLine(DropBoxes(f, Boxes(f, l)), l)
DropLineRound(ls, f, k) == DropLine(f, ls[k])
LineDropping == INSTANCE Loop WITH Round <- DropLineRound
DropLines(f, ls) == LineDropping!Run(ls, f, Len(ls))

DropParagraph(f, p) == FreeParagraph(DropLines(f, Lines(f, p)), p)

Compacted(f) ==
    IF Len(f.text) > CompactLen /\ Len(f.text) \div 4 < DeletedLen(f) THEN CompactText(f) ELSE f

Refilled(f) == IF f.firstP = 0 THEN Refill(f) ELSE f

DeleteParagraph(f, p) ==
    Compacted(Refilled(DropParagraph(Unlink(f, p, f.P[p]), p)))

Lesser(m, n) == IF m < n THEN m ELSE n

DeleteFirstRound(same, f, k) == DeleteParagraph(f, f.firstP)
FirstDeletion == INSTANCE Loop WITH Round <- DeleteFirstRound
DeleteFirst(f, n) == FirstDeletion!Run(0, f, n)

DeleteFirstParagraphs(f, n) == DeleteFirst(Counted(f), Lesser(n, ParagraphCount(f)))

TruncateParagraphs(f, count) ==
    IF count > MaxParagraphs THEN DeleteFirstParagraphs(f, count - MaxParagraphs) ELSE f

-----------------------------------------------------------------------------
(* The calls of the editor *)

EmptyFrame ==
    [P |-> <<[NoPara EXCEPT !.firstL = 1]>>, L |-> <<[NoLine EXCEPT !.firstB = 1]>>,
     B |-> <<NoBox>>, freeP |-> 0, freeL |-> 0, freeB |-> 0, firstP |-> 1,
     text |-> <<>>, len |-> 0, width |-> DefaultWidth, count |-> 0, last |-> NoLast]

FrameInit ==
    /\ align = CHOOSE a \in Alignments : TRUE
    /\ color = NoColor
    /\ lines = 0
    /\ frame = EmptyFrame

Pieces(ls, last) ==
    [i \in 1 .. last - 1 |-> Append(ls[i], Newline)]
        \o (IF ls[last] = <<>> THEN <<>> ELSE <<ls[last]>>)

AppendRound(pieces, f, k) == AppendLineOfText(f, pieces[k])
Appending == INSTANCE Loop WITH Round <- AppendRound
AppendPieces(f, pieces) == Appending!Run(pieces, f, Len(pieces))

WriteText(ls) ==
    /\ frame' = TruncateParagraphs(AppendPieces(Counted(frame), Pieces(ls, Len(ls))),
                                   ParagraphCount(frame) + Len(ls) - 1)
    /\ lines' = lines + Len(ls) - 1
    /\ UNCHANGED <<align, color>>

\* WriteLabel, WriteButton, WriteImage and WriteSpace.
WriteLabel(label) ==
    /\ frame' = AppendText(frame, label.kind, label.text, label.w)
    /\ UNCHANGED <<align, color, lines>>

\* A line takes a paragraph of its own: one of which something is seen is ended.
Truncated(f) == TruncateParagraphs(Counted(f), ParagraphCount(f))
WriteLine ==
    \E f \in {Valid(frame)} :
        LET seen == LineWidth(f, f.last.l) > 0
        IN  /\ frame' = Truncated(AppendParagraph(AppendBox(
                            IF seen THEN AppendParagraph(f) ELSE f,
                            [NoBox EXCEPT !.kind = "line", !.color = color])))
            /\ lines' = lines + (IF seen THEN 2 ELSE 1)
            /\ UNCHANGED <<align, color>>

SetAlignment(a) ==
    /\ align' = a
    /\ frame' = LET f == Valid(frame) IN [f EXCEPT !.P[f.last.p].align = a]
    /\ UNCHANGED <<color, lines>>

SetColor(c) == color' = c /\ UNCHANGED <<frame, align, lines>>

DeleteLastRound(same, f, k) == DeleteParagraph(f, LastIn(Paras(f)))
LastDeletion == INSTANCE Loop WITH Round <- DeleteLastRound
DeleteLast(f, n) == LastDeletion!Run(0, Counted(f), n)

DeleteLastParagraphs(n) ==
    /\ IF n < ParagraphCount(frame)
       THEN /\ frame' = AppendParagraph(SetLasts(DeleteLast(frame, n)))
            /\ lines' = lines + 1
       ELSE /\ frame' = DeleteLast(frame, ParagraphCount(frame))
            /\ UNCHANGED lines
    /\ UNCHANGED <<align, color>>

DeleteAll ==
    /\ frame' = DeleteFirstParagraphs(frame, MaxParagraphs)
    /\ UNCHANGED <<align, color, lines>>

Edit ==
    \/ \E ls \in Texts : WriteText(ls)
    \/ \E label \in Labels : WriteLabel(label)
    \/ WriteLine
    \/ \E a \in Alignments \ {align} : SetAlignment(a)
    \/ \E c \in Colors \ {color} : SetColor(c)
    \/ \E n \in 1 .. MaxParagraphs : DeleteLastParagraphs(n)
    \/ DeleteAll
=============================================================================
