----------------------------- MODULE FrameProofs -----------------------------
(***************************************************************************)
(* Proofs about the text frame, second part, and about the images in it.   *)
(*                                                                         *)
(* The argument: a frame is good when its paragraphs, lines and boxes in   *)
(* use form lists apart from the free ones, its text is all there, every   *)
(* line fits and the caches are right. Each call of the editor leaves a    *)
(* good frame good (EditKeeps), and so do resizing, drawing and scrolling; *)
(* a good frame is well formed as the run checks it (FrameWellFormed).     *)
(***************************************************************************)
EXTENDS FrameLayoutProofs, Images

(***************************************************************************)
(* The pool of paragraphs X, lines and boxes.                              *)
(***************************************************************************)
Pool(f, X) == X # {} /\ f.width > 1 /\ ListP(f, X) /\ Lay(f, X)
CountRight(f, p) == f.P[p].count # 0 => f.P[p].count = Len(Lines(f, p)) + 1
LastRight(f) == f.last # NoLast => f.last = SetLasts(f).last
\* Everything is laid out, and the caches are right.
Sound(f, X) ==
  /\ Pool(f, X)
  /\ \A p \in X : Fit(f, p) /\ CountRight(f, p)
  /\ f.count # 0 => f.count = Cardinality(X) + 1
  /\ LastRight(f)
\* The last paragraph has no line box, so that boxes can be put after its end.
EndOpen(f, X) == \A p \in X : f.P[p].next = 0 => NoRule(f, p)
Good(f) == \E X : Sound(f, X) /\ EndOpen(f, X)

\* What a pool is, part by part.
LEMMA PoolFacts ==
  ASSUME NEW f, NEW X, Pool(f, X)
  PROVE  /\ f \in Frames /\ X \subseteq 1 .. Len(f.P) /\ X # {} /\ f.width > 1
         /\ f.text \in Seq(Characters) /\ Len(f.P) \in Nat
<1>1. PICK XL, oL, rL, XB, oB, rB : LB(f, X, XL, oL, rL, XB, oB, rB)
  BY DEF Pool, Lay
<1>2. f \in Frames /\ X \subseteq 1 .. Len(f.P)
  BY <1>1, LBFacts
<1> QED
  BY <1>2, LinksP DEF Pool, Frames

\* A frame with the same elements and text, whatever its width and caches.
SameData(f, h) ==
  /\ h \in Frames /\ SameP(f, h) /\ SameL(f, h) /\ SameB(f, h) /\ h.text = f.text /\ h.len = f.len

\* The lists stay when the elements stay, whatever the caches say.
LEMMA DataKept ==
  ASSUME NEW f \in Frames, NEW h, SameData(f, h), NEW X
  PROVE  /\ ListP(f, X) => ListP(h, X)
         /\ Lay(f, X) => Lay(h, X)
         /\ \A p : Lines(h, p) = Lines(f, p) /\ (NoRule(f, p) => NoRule(h, p))
         /\ \A l : Boxes(h, l) = Boxes(f, l)
         /\ Paras(h) = Paras(f)
<1>1. /\ h.P = f.P /\ h.freeP = f.freeP /\ h.firstP = f.firstP /\ h.L = f.L /\ h.freeL = f.freeL
      /\ h.B = f.B /\ h.freeB = f.freeB /\ h.text = f.text /\ h.len = f.len /\ h \in Frames
  BY DEF SameData, SameP, SameL, SameB
<1>2. NextP(h) = NextP(f) /\ NextL(h) = NextL(f) /\ NextB(h) = NextB(f)
  BY <1>1 DEF NextP, NextL, NextB, NextIndex
<1>3. /\ \A p : Lines(h, p) = Lines(f, p)
      /\ \A l : Boxes(h, l) = Boxes(f, l)
      /\ Paras(h) = Paras(f)
  BY <1>1, <1>2 DEF Lines, Boxes, Paras
<1>4. \A p : NoRule(f, p) => NoRule(h, p)
  BY <1>1, <1>3 DEF NoRule
<1>5. ListP(f, X) => ListP(h, X)
  BY <1>1, <1>2 DEF ListP, PLayer, FirstP, PrevP
<1>6. Lay(f, X) => Lay(h, X)
  <2> SUFFICES ASSUME NEW XL, NEW oL, NEW rL, NEW XB, NEW oB, NEW rB,
      LB(f, X, XL, oL, rL, XB, oB, rB), Sum(f, XB) = f.len
               PROVE  LB(h, X, XL, oL, rL, XB, oB, rB) /\ Sum(h, XB) = h.len
    BY DEF Lay
  <2>1. Sum(h, XB) = h.len
    BY <1>1 DEF Sum
  <2>2. LLayer(h, X, XL, oL, rL)
    <3>1. LLayer(f, X, XL, oL, rL)
      BY DEF LB
    <3> QED
      BY <1>1, <1>2, <3>1 DEF LLayer, FirstL, PrevL
  <2>3. BLayer(h, XL, XB, oB, rB)
    <3>1. BLayer(f, XL, XB, oB, rB)
      BY DEF LB
    <3> QED
      BY <1>1, <1>2, <3>1 DEF BLayer, FirstB, PrevB
  <2>4. X \subseteq 1 .. Len(h.P) /\ BoxesGood(h, XB) /\ LineBoxesLast(h, XB, oB)
    BY <1>1 DEF LB, BoxesGood, LineBoxesLast
  <2> QED
    BY <1>1, <2>1, <2>2, <2>3, <2>4 DEF LB
<1> QED
  BY <1>3, <1>4, <1>5, <1>6

\* A paragraph that was not changed has no rule if it had none.
LEMMA NoRuleElsewhere ==
  ASSUME NEW f, NEW h, NEW Q, NEW p, Elsewhere(f, h, Q, p), NEW q \in Q, q # p, NoRule(f, q)
  PROVE  NoRule(h, q)
<1> SUFFICES ASSUME NEW k \in 1 .. Len(Lines(h, q)), NEW i \in 1 .. Len(Boxes(h, Lines(h, q)[k]))
             PROVE  h.B[Boxes(h, Lines(h, q)[k])[i]].kind # "line"
  BY DEF NoRule
<1>1. Lines(h, q) = Lines(f, q) /\ \A m \in 1 .. Len(Lines(f, q)) : LineKept(f, h, Lines(f, q)[m])
  BY DEF Elsewhere
<1>2. PICK l : l = Lines(f, q)[k]
  OBVIOUS
<1>3. LineKept(f, h, l) /\ i \in 1 .. Len(Boxes(h, l))
  BY <1>1, <1>2
<1>4. Boxes(h, l) = Boxes(f, l) /\ SameText(f.B[Boxes(f, l)[i]], h.B[Boxes(f, l)[i]])
  BY <1>3 DEF LineKept
<1>5. f.B[Boxes(f, l)[i]].kind # "line"
  BY <1>1, <1>2, <1>3, <1>4 DEF NoRule
<1> QED
  BY <1>1, <1>2, <1>4, <1>5 DEF SameText

\* The loop over the paragraphs of relayout (frame.go), round by round.
LEMMA RelayingSteps ==
  \A ps, f :
    /\ Relaying!Run(ps, f, 0) = f
    /\ \A k \in Nat : Relaying!Run(ps, f, k + 1) = RelayoutRound(ps, Relaying!Run(ps, f, k), k + 1)
BY Relaying!RunStarts, Relaying!RunGoesOn

\* The first k of the paragraphs ps are laid out, and the count of their lines
\* is forgotten.
Relaid(f, g, X, ps, k) ==
  /\ Pool(g, X) /\ SameLinksP(f, g) /\ g.width = f.width /\ EndOpen(g, X)
  /\ \A j \in 1 .. k : Fit(g, ps[j]) /\ g.P[ps[j]].count = 0

\* One more paragraph is laid out.
LEMMA RelaidNext ==
  ASSUME NEW f \in Frames, NEW X, NEW ps, ParaList(ps, f, X), NEW k \in 0 .. Len(ps) - 1,
         NEW g, Relaid(f, g, X, ps, k), NEW j, j = k + 1,
         NEW h, h = RelayoutPara(g, ps[j])
  PROVE  Relaid(f, h, X, ps, j)
<1>1. Len(ps) \in Nat /\ ps \in [1 .. Len(ps) -> X] /\ \A i, m \in 1 .. Len(ps) : ps[i] = ps[m] =>
    i = m
  BY DEF ParaList
<1>2. /\ Pool(g, X) /\ SameLinksP(f, g) /\ g.width = f.width /\ EndOpen(g, X)
      /\ \A i \in 1 .. k : Fit(g, ps[i]) /\ g.P[ps[i]].count = 0
  BY DEF Relaid
<1>3. g \in Frames /\ X \subseteq 1 .. Len(g.P) /\ X # {} /\ g.width > 1
  BY <1>2, PoolFacts
<1>4. j \in 1 .. Len(ps) /\ k \in Nat /\ \A i \in 1 .. j : i # j =>
    i \in 1 .. k /\ i \in 1 .. Len(ps)
  BY <1>1
<1>5. PICK p : p = ps[j]
  OBVIOUS
<1>6. p \in X /\ \A i \in 1 .. j : i # j => ps[i] # p /\ ps[i] \in X
  BY <1>1, <1>4, <1>5
<1>7. Lay(g, X)
  BY <1>2 DEF Pool
<1>8. ParaLaid(g, h, X, p)
  BY <1>3, <1>5, <1>6, <1>7, RelayoutParaIs
<1>9. /\ Lay(h, X) /\ Elsewhere(g, h, X, p) /\ Fit(h, p) /\ (NoRule(g, p) => NoRule(h, p))
      /\ h \in Frames /\ SameT(g, h) /\ h.freeP = g.freeP /\ h.firstP = g.firstP
      /\ Len(h.P) = Len(g.P)
      /\ Recounted(g.P[p], h.P[p], 0) /\ \A q \in 1 .. Len(g.P) : q # p => h.P[q] = g.P[q]
  BY <1>8 DEF ParaLaid
<1>10. \A q \in 1 .. Len(g.P) : h.P[q].next = g.P[q].next /\ h.P[q].prev = g.P[q].prev
  BY <1>9 DEF Recounted
<1>11. SameLinksP(g, h) /\ h.width = g.width
  BY <1>9, <1>10 DEF SameLinksP, SameT
<1>12. SameLinksP(f, h) /\ h.width = f.width
  BY <1>2, <1>11 DEF SameLinksP
<1>13. Pool(h, X)
  <2>1. ListP(g, X)
    BY <1>2 DEF Pool
  <2>2. ListP(h, X)
    BY <1>3, <1>11, <2>1, ListPKept
  <2> QED
    BY <1>3, <1>9, <1>11, <2>2 DEF Pool
<1>14. EndOpen(h, X)
  <2> SUFFICES ASSUME NEW q \in X, h.P[q].next = 0 PROVE NoRule(h, q)
    BY DEF EndOpen
  <2>1. g.P[q].next = 0
    BY <1>3, <1>10
  <2>2. NoRule(g, q)
    BY <1>2, <2>1 DEF EndOpen
  <2>3. CASE q = p
    BY <1>9, <2>2, <2>3
  <2>4. CASE q # p
    BY <1>9, <2>2, <2>4, NoRuleElsewhere
  <2> QED
    BY <2>3, <2>4
<1>15. ASSUME NEW i \in 1 .. j PROVE Fit(h, ps[i]) /\ h.P[ps[i]].count = 0
  <2>1. CASE i = j
    BY <1>5, <1>9, <2>1 DEF Recounted
  <2>2. CASE i # j
    <3>1. PICK q : q = ps[i]
      OBVIOUS
    <3>2. q \in X /\ q # p /\ Fit(g, q) /\ g.P[q].count = 0
      BY <1>2, <1>4, <1>6, <2>2, <3>1
    <3>3. Fit(h, q)
      BY <1>7, <1>9, <1>11, <3>2, FitElsewhere
    <3>4. h.P[q].count = 0
      BY <1>3, <1>9, <3>2
    <3> QED
      BY <3>1, <3>3, <3>4
  <2> QED
    BY <2>1, <2>2
<1> QED
  BY <1>12, <1>13, <1>14, <1>15 DEF Relaid

\* Every paragraph of a frame is laid out anew for its width.
LEMMA RelaidAll ==
  ASSUME NEW f, NEW X, Pool(f, X), EndOpen(f, X), NEW ps, ps = Paras(f),
         NEW h, h = Relaying!Run(ps, f, Len(ps))
  PROVE  ParaList(ps, f, X) /\ Relaid(f, h, X, ps, Len(ps))
<1>1. f \in Frames /\ X # {} /\ ListP(f, X)
  BY PoolFacts DEF Pool
<1>2. ParaList(ps, f, X)
  BY <1>1, ParasAre
<1>3. PICK n \in Nat : n = Len(ps)
  BY <1>2 DEF ParaList
<1>4. PICK at : at = [k \in Nat |-> Relaying!Run(ps, f, k)]
  OBVIOUS
<1>5. at[0] = f /\ \A k \in Nat : at[k + 1] = RelayoutRound(ps, at[k], k + 1)
  BY <1>4, RelayingSteps
<1>6. PICK good : good = {k \in 0 .. n : Relaid(f, at[k], X, ps, k)}
  OBVIOUS
<1>7. 0 \in good
  <2>1. SameLinksP(f, f)
    BY <1>1 DEF SameLinksP
  <2>2. Relaid(f, f, X, ps, 0)
    BY <2>1 DEF Relaid
  <2> QED
    BY <1>3, <1>5, <1>6, <2>2
<1>8. ASSUME NEW k \in 0 .. n - 1, k \in good PROVE k + 1 \in good
  <2>1. k \in Nat /\ k + 1 \in 0 .. n /\ k \in 0 .. Len(ps) - 1
    BY <1>3
  <2>2. PICK g, c, j : g = at[k] /\ c = at[k + 1] /\ j = k + 1
    OBVIOUS
  <2>3. c = RelayoutPara(g, ps[j])
    BY <1>5, <2>1, <2>2 DEF RelayoutRound
  <2>4. Relaid(f, g, X, ps, k)
    BY <1>6, <1>8, <2>2
  <2>5. Relaid(f, c, X, ps, j)
    BY <1>1, <1>2, <2>1, <2>2, <2>3, <2>4, RelaidNext
  <2> QED
    BY <1>6, <2>1, <2>2, <2>5
<1>9. n \in good
  <2>1. \A k \in 0 .. n : k \in good
    BY <1>3, <1>7, <1>8, UpTo
  <2> QED
    BY <1>3, <2>1
<1> QED
  BY <1>2, <1>3, <1>4, <1>6, <1>9

\* The caches are set.
SetsCaches(f, h, n, x) == h = [f EXCEPT !.count = n, !.last = x]
\* Resetting the caches changes nothing else.
LEMMA SetCachesIs ==
  ASSUME NEW f \in Frames, NEW n \in Nat, NEW x \in LastSet, NEW h, SetsCaches(f, h, n, x)
  PROVE  SameData(f, h) /\ h.width = f.width /\ h.count = n /\ h.last = x
<1>1. h = [f EXCEPT !.count = n, !.last = x]
  BY DEF SetsCaches
<1>2. h \in Frames
  BY <1>1 DEF Frames
<1> QED
  BY <1>1, <1>2 DEF Frames, SameData, SameP, SameL, SameB

\* Setting the width changes nothing else.
LEMMA SetWidthIs ==
  ASSUME NEW f \in Frames, NEW n \in Nat, NEW h, h = [f EXCEPT !.width = n]
  PROVE  SameData(f, h) /\ h.width = n
<1>1. h \in Frames
  BY DEF Frames
<1> QED
  BY <1>1 DEF Frames, SameData, SameP, SameL, SameB

\* The same elements fit the same width.
LEMMA FitData ==
  ASSUME NEW f \in Frames, NEW h, SameData(f, h), h.width = f.width
  PROVE  \A p : (Fit(f, p) => Fit(h, p)) /\ (CountRight(f, p) => CountRight(h, p))
<1>1. PICK Q : Q = {}
  OBVIOUS
<1>2. SameLay(f, h, Q)
  BY <1>1 DEF SameData, SameLay, SameP, SameT
<1>3. \A l : Fits(h, l) <=> Fits(f, l)
  BY <1>2, SameLines
<1>4. \A p : Lines(h, p) = Lines(f, p)
  BY DataKept
<1>5. h.P = f.P
  BY DEF SameData, SameP
<1> QED
  BY <1>3, <1>4, <1>5 DEF Fit, CountRight

\* Laying out all of the paragraphs leaves a frame that is sound, its end open.
LEMMA RelayoutIs ==
  ASSUME NEW f, NEW X, Pool(f, X), EndOpen(f, X), NEW h, h = Relayout(f)
  PROVE  Sound(h, X) /\ EndOpen(h, X)
<1>1. PICK ps : ps = Paras(f)
  OBVIOUS
<1>2. PICK g : g = Relaying!Run(ps, f, Len(ps))
  OBVIOUS
<1>3. ParaList(ps, f, X) /\ Relaid(f, g, X, ps, Len(ps))
  BY <1>1, <1>2, RelaidAll
<1>4. Pool(g, X) /\ EndOpen(g, X) /\ \A j \in 1 .. Len(ps) : Fit(g, ps[j]) /\ g.P[ps[j]].count = 0
  BY <1>3 DEF Relaid
<1>5. g \in Frames /\ X # {} /\ g.width > 1 /\ ListP(g, X) /\ Lay(g, X)
  BY <1>4, PoolFacts DEF Pool
<1>6. PICK z \in Nat : z = 0
  OBVIOUS
<1>7. PICK x \in LastSet : x = NoLast
  BY NothingTypes
<1>8. h = [g EXCEPT !.count = z, !.last = x]
  BY <1>1, <1>2, <1>6, <1>7 DEF Relayout
<1>9. SameData(g, h) /\ h.width = g.width /\ h.count = 0 /\ h.last = NoLast
  <2>1. z \in Nat /\ x \in LastSet /\ SetsCaches(g, h, z, x)
    BY <1>6, <1>7, <1>8 DEF SetsCaches
  <2>2. SameData(g, h) /\ h.width = g.width /\ h.count = z /\ h.last = x
    BY <1>5, <2>1, SetCachesIs
  <2> QED
    BY <1>6, <1>7, <2>2
<1>10. ListP(h, X) /\ Lay(h, X) /\ \A p : NoRule(g, p) => NoRule(h, p)
  BY <1>5, <1>9, DataKept
<1>11. h.P = g.P
  BY <1>9 DEF SameData, SameP
<1>12. ASSUME NEW p \in X PROVE Fit(h, p) /\ CountRight(h, p)
  <2>1. PICK j \in 1 .. Len(ps) : ps[j] = p
    BY <1>3 DEF ParaList
  <2>2. Fit(g, p) /\ g.P[p].count = 0
    BY <1>4, <2>1
  <2>3. Fit(h, p)
    BY <1>5, <1>9, <2>2, FitData
  <2> QED
    BY <1>11, <2>2, <2>3 DEF CountRight
<1>13. EndOpen(h, X)
  BY <1>4, <1>10, <1>11 DEF EndOpen
<1> QED
  BY <1>5, <1>9, <1>10, <1>12, <1>13 DEF Sound, Pool, LastRight

\* The window has another width.
LEMMA SetMaxRuneWidthIs ==
  ASSUME NEW f, Good(f), NEW w \in Int, NEW h, h = SetMaxRuneWidth(f, w)
  PROVE  Good(h)
<1>1. PICK X : Sound(f, X) /\ EndOpen(f, X)
  BY DEF Good
<1>2. Pool(f, X)
  BY <1>1 DEF Sound
<1>3. f \in Frames
  BY <1>2, PoolFacts
<1>4. PICK width : width = IF w <= 1 THEN DefaultWidth ELSE w
  OBVIOUS
<1>5. width \in Nat /\ width > 1
  BY <1>4, DefaultWidthAssumption
<1>6. CASE f.width = width
  BY <1>1, <1>4, <1>6 DEF SetMaxRuneWidth, Good
<1>7. CASE f.width # width
  <2>1. PICK g : g = [f EXCEPT !.width = width]
    OBVIOUS
  <2>2. h = Relayout(g)
    BY <1>4, <1>7, <2>1 DEF SetMaxRuneWidth
  <2>3. SameData(f, g) /\ g.width = width
    BY <1>3, <1>5, <2>1, SetWidthIs
  <2>4. ListP(g, X) /\ Lay(g, X) /\ \A p : NoRule(f, p) => NoRule(g, p)
    BY <1>2, <1>3, <2>3, DataKept DEF Pool
  <2>5. Pool(g, X)
    BY <1>2, <1>5, <2>3, <2>4 DEF Pool
  <2>6. EndOpen(g, X)
    BY <1>1, <2>3, <2>4 DEF EndOpen, SameData, SameP
  <2>7. Sound(h, X) /\ EndOpen(h, X)
    BY <2>2, <2>5, <2>6, RelayoutIs
  <2> QED
    BY <2>7 DEF Good
<1> QED
  BY <1>6, <1>7

(***************************************************************************)
(* The last paragraph, line and box.                                       *)
(***************************************************************************)
EndOf(f, x) ==
  /\ x \in LastSet /\ x.p = LastIn(Paras(f)) /\ x.l = LastIn(Lines(f,
      x.p)) /\ x.b = LastIn(Boxes(f, x.l))
AtEnd(f, X, XL, oL, XB, oB, x) ==
  /\ x \in LastSet
  /\ x.p \in X /\ f.P[x.p].next = 0
  /\ x.l \in XL /\ oL[x.l] = x.p /\ f.L[x.l].next = 0
  /\ x.b \in XB /\ oB[x.b] = x.l /\ NextIndex(f, x.b) = 0

\* The last line of a paragraph is the one without a next.
LEMMA LastLine ==
  ASSUME NEW f, NEW Q, NEW XL, NEW oL, NEW rL, NEW XB, NEW oB, NEW rB,
         LB(f, Q, XL, oL, rL, XB, oB, rB),
         NEW p \in Q, NEW l
  PROVE  l = LastIn(Lines(f, p)) <=> l \in XL /\ oL[l] = p /\ f.L[l].next = 0
<1>1. /\ f \in Frames /\ Q \subseteq 1 .. Len(f.P) /\ LLayer(f, Q, XL, oL,
         rL) /\ XL \subseteq 1 .. Len(f.L)
  BY LBFacts
<1>2. PICK ls : ls = Lines(f, p)
  OBVIOUS
<1>3. LineList(ls, f, XL, oL, rL, p)
  BY <1>1, <1>2, LinesAre
<1>4. PICK n \in Nat \ {0} : n = Len(ls)
  BY <1>3 DEF LineList, ListOf
<1>5. /\ ls \in [1 .. n -> XL] /\ (\A k \in 1 .. n : oL[ls[k]] = p /\ rL[ls[k]] = k)
      /\ \A x \in XL : oL[x] = p => rL[x] \in 1 .. n /\ ls[rL[x]] = x
  BY <1>3, <1>4 DEF LineList, ListOf
<1>6. f.L[ls[n]].next = 0 /\ \A k \in 1 .. n - 1 : f.L[ls[k]].next = ls[k + 1]
  BY <1>3, <1>4 DEF LineList
<1>7. ls[n] \in XL /\ oL[ls[n]] = p
  BY <1>4, <1>5
<1>8. ASSUME l \in XL, oL[l] = p, f.L[l].next = 0 PROVE l = ls[n]
  <2>1. rL[l] \in 1 .. n /\ ls[rL[l]] = l
    BY <1>5, <1>8
  <2>2. ASSUME rL[l] # n PROVE FALSE
    <3>1. rL[l] \in 1 .. n - 1 /\ rL[l] + 1 \in 1 .. n
      BY <1>4, <2>1, <2>2
    <3>2. f.L[l].next = ls[rL[l] + 1] /\ ls[rL[l] + 1] \in XL
      BY <1>5, <1>6, <2>1, <3>1
    <3>3. ls[rL[l] + 1] \in 1 .. Len(f.L)
      BY <1>1, <3>2
    <3> QED
      BY <1>8, <3>2, <3>3
  <2> QED
    BY <2>1, <2>2
<1> QED
  BY <1>2, <1>4, <1>6, <1>7, <1>8 DEF LastIn

\* The last box of a line is the one without a next.
LEMMA LastBox ==
  ASSUME NEW f, NEW Q, NEW XL, NEW oL, NEW rL, NEW XB, NEW oB, NEW rB,
         LB(f, Q, XL, oL, rL, XB, oB, rB),
         NEW l \in XL, NEW b
  PROVE  b = LastIn(Boxes(f, l)) <=> b \in XB /\ oB[b] = l /\ NextIndex(f, b) = 0
<1>1. PICK bs : bs = Boxes(f, l)
  OBVIOUS
<1>2. LineBoxes(bs, f, XB, oB, rB, l)
  BY <1>1, LineBoxesAre
<1>3. PICK n \in Nat \ {0} : n = Len(bs)
  BY <1>2 DEF LineBoxes
<1>4. /\ \A k \in 1 .. n : bs[k] \in XB /\ oB[bs[k]] = l /\ rB[bs[k]] = k /\ bs[k] \in 1 .. Len(f.B)
      /\ \A x \in XB : oB[x] = l => rB[x] \in 1 .. n /\ bs[rB[x]] = x
      /\ \A k \in 1 .. n - 1 : NextIndex(f, bs[k]) = bs[k + 1] /\ bs[k + 1] # 0
      /\ NextIndex(f, bs[n]) = 0
  BY <1>2, <1>3 DEF LineBoxes
<1>5. bs[n] \in XB /\ oB[bs[n]] = l
  BY <1>3, <1>4
<1>6. ASSUME b \in XB, oB[b] = l, NextIndex(f, b) = 0 PROVE b = bs[n]
  <2>1. rB[b] \in 1 .. n /\ bs[rB[b]] = b
    BY <1>4, <1>6
  <2>2. ASSUME rB[b] # n PROVE FALSE
    <3>1. rB[b] \in 1 .. n - 1
      BY <1>3, <2>1, <2>2
    <3>2. NextIndex(f, b) # 0
      <4>1. PICK k : k = rB[b]
        OBVIOUS
      <4>2. k \in 1 .. n - 1 /\ bs[k] = b
        BY <2>1, <3>1, <4>1
      <4>3. NextIndex(f, bs[k]) = bs[k + 1] /\ bs[k + 1] # 0
        BY <1>4, <4>2
      <4> QED
        BY <4>2, <4>3
    <3> QED
      BY <1>6, <3>2
  <2> QED
    BY <2>1, <2>2
<1> QED
  BY <1>1, <1>3, <1>4, <1>5, <1>6 DEF LastIn

\* The last paragraph is the one without a next.
LEMMA LastPara ==
  ASSUME NEW f, NEW X, Pool(f, X), NEW p
  PROVE  p = LastIn(Paras(f)) <=> p \in X /\ f.P[p].next = 0
<1>1. f \in Frames /\ X # {} /\ ListP(f, X) /\ X \subseteq 1 .. Len(f.P)
  BY PoolFacts DEF Pool
<1>2. PICK ps : ps = Paras(f)
  OBVIOUS
<1>3. ParaList(ps, f, X)
  BY <1>1, <1>2, ParasAre
<1>4. PICK n \in Nat \ {0} : n = Len(ps)
  BY <1>3 DEF ParaList
<1>5. /\ ps \in [1 .. n -> X] /\ (\A x \in X : \E k \in 1 .. n : ps[k] = x) /\ f.P[ps[n]].next = 0
      /\ \A k \in 1 .. n - 1 : f.P[ps[k]].next = ps[k + 1]
  BY <1>3, <1>4 DEF ParaList
<1>6. ps[n] \in X
  BY <1>4, <1>5
<1>7. ASSUME p \in X, f.P[p].next = 0 PROVE p = ps[n]
  <2>1. PICK k \in 1 .. n : ps[k] = p
    BY <1>5, <1>7
  <2>2. ASSUME k # n PROVE FALSE
    <3>1. k \in 1 .. n - 1 /\ k + 1 \in 1 .. n
      BY <1>4, <2>1, <2>2
    <3>2. f.P[p].next = ps[k + 1] /\ ps[k + 1] \in X
      BY <1>5, <2>1, <3>1
    <3>3. ps[k + 1] \in 1 .. Len(f.P)
      BY <1>1, <3>2
    <3> QED
      BY <1>7, <3>2, <3>3
  <2> QED
    BY <2>1, <2>2
<1> QED
  BY <1>2, <1>4, <1>5, <1>6, <1>7 DEF LastIn

\* The end of a frame: the last paragraph, its last line and that one's last box.
LEMMA EndIs ==
  ASSUME NEW f, NEW X, Pool(f, X), NEW XL, NEW oL, NEW rL, NEW XB, NEW oB, NEW rB,
         LB(f, X, XL, oL, rL, XB, oB, rB), NEW x
  PROVE  EndOf(f, x) <=> AtEnd(f, X, XL, oL, XB, oB, x)
<1>1. ASSUME EndOf(f, x) PROVE AtEnd(f, X, XL, oL, XB, oB, x)
  <2>1. PICK p, l, b : p = x.p /\ l = x.l /\ b = x.b
    OBVIOUS
  <2>2. x \in LastSet /\ p = LastIn(Paras(f)) /\ l = LastIn(Lines(f, p)) /\ b = LastIn(Boxes(f, l))
    BY <1>1, <2>1 DEF EndOf
  <2>3. p \in X /\ f.P[p].next = 0
    BY <2>2, LastPara
  <2>4. l \in XL /\ oL[l] = p /\ f.L[l].next = 0
    BY <2>2, <2>3, LastLine
  <2>5. b \in XB /\ oB[b] = l /\ NextIndex(f, b) = 0
    BY <2>2, <2>4, LastBox
  <2> QED
    BY <2>1, <2>2, <2>3, <2>4, <2>5 DEF AtEnd
<1>2. ASSUME AtEnd(f, X, XL, oL, XB, oB, x) PROVE EndOf(f, x)
  <2>1. PICK p, l, b : p = x.p /\ l = x.l /\ b = x.b
    OBVIOUS
  <2>2. /\ x \in LastSet /\ p \in X /\ f.P[p].next = 0
        /\ l \in XL /\ oL[l] = p /\ f.L[l].next = 0
        /\ b \in XB /\ oB[b] = l /\ NextIndex(f, b) = 0
    BY <1>2, <2>1 DEF AtEnd
  <2>3. p = LastIn(Paras(f))
    BY <2>2, LastPara
  <2>4. l = LastIn(Lines(f, p))
    BY <2>2, LastLine
  <2>5. b = LastIn(Boxes(f, l))
    BY <2>2, LastBox
  <2> QED
    BY <2>1, <2>2, <2>3, <2>4, <2>5 DEF EndOf
<1> QED
  BY <1>1, <1>2

\* The last elements are found, and they are not 0.
LEMMA LastsFound ==
  ASSUME NEW f, NEW X, Pool(f, X), NEW x, x = SetLasts(f).last
  PROVE  EndOf(f, x) /\ x.p # 0
<1>1. PICK XL, oL, rL, XB, oB, rB : LB(f, X, XL, oL, rL, XB, oB, rB)
  BY DEF Pool, Lay
<1>2. f \in Frames /\ X \subseteq 1 .. Len(f.P) /\ XL \subseteq 1 .. Len(f.L) /\ XB \subseteq 1 .. Len(f.B)
  BY <1>1, LBFacts
<1>3. PICK p : p = LastIn(Paras(f))
  OBVIOUS
<1>4. PICK l : l = LastIn(Lines(f, p))
  OBVIOUS
<1>5. PICK b : b = LastIn(Boxes(f, l))
  OBVIOUS
<1>6. x = [p |-> p, l |-> l, b |-> b]
  BY <1>2, <1>3, <1>4, <1>5 DEF SetLasts, LastsIn, LastsAt, Frames
<1>7. p \in X
  BY <1>3, LastPara
<1>8. l \in XL
  BY <1>1, <1>4, <1>7, LastLine
<1>9. b \in XB
  BY <1>1, <1>5, <1>8, LastBox
<1>10. p \in 1 .. Len(f.P) /\ l \in 1 .. Len(f.L) /\ b \in 1 .. Len(f.B)
  BY <1>2, <1>7, <1>8, <1>9
<1>11. x \in LastSet
  BY <1>6, <1>10 DEF LastSet
<1> QED
  BY <1>3, <1>4, <1>5, <1>6, <1>10, <1>11 DEF EndOf

\* A frame has one end.
LEMMA LastsAlone ==
  ASSUME NEW f, NEW x, NEW y, EndOf(f, x), EndOf(f, y)
  PROVE  x = y
BY DEF EndOf, LastSet

\* Setting the indices of the end changes nothing else.
LEMMA SetLastIs ==
  ASSUME NEW f \in Frames, NEW x \in LastSet, NEW h, h = [f EXCEPT !.last = x]
  PROVE  SameData(f, h) /\ h.width = f.width /\ h.count = f.count /\ h.last = x
<1>1. h \in Frames
  BY DEF Frames
<1> QED
  BY <1>1 DEF Frames, SameData, SameP, SameL, SameB

\* What is kept when the caches of the frame change only.
LEMMA SoundKept ==
  ASSUME NEW f, NEW X, Pool(f, X), NEW h, SameData(f, h), h.width = f.width
  PROVE  /\ Pool(h, X)
         /\ (\A p \in X : Fit(f, p) /\ CountRight(f, p)) =>
             \A p \in X : Fit(h, p) /\ CountRight(h, p)
         /\ EndOpen(f, X) => EndOpen(h, X)
         /\ \A x : EndOf(f, x) <=> EndOf(h, x)
<1>1. f \in Frames /\ ListP(f, X) /\ Lay(f, X)
  BY PoolFacts DEF Pool
<1>2. /\ ListP(h, X) /\ Lay(h, X) /\ Paras(h) = Paras(f)
      /\ \A p : Lines(h, p) = Lines(f, p) /\ (NoRule(f, p) => NoRule(h, p))
      /\ \A l : Boxes(h, l) = Boxes(f, l)
  BY <1>1, DataKept
<1>3. \A p : (Fit(f, p) => Fit(h, p)) /\ (CountRight(f, p) => CountRight(h, p))
  BY <1>1, FitData
<1>4. Pool(h, X)
  BY <1>2 DEF Pool
<1>5. EndOpen(f, X) => EndOpen(h, X)
  BY <1>2 DEF EndOpen, SameData, SameP
<1>6. \A x : EndOf(f, x) <=> EndOf(h, x)
  BY <1>2 DEF EndOf
<1> QED
  BY <1>3, <1>4, <1>5, <1>6

\* The editor knows the last elements.
Known(f) == f.last # NoLast /\ EndOf(f, f.last)
\* Where the end is known, the indices kept are right.
LEMMA KnownRight ==
  ASSUME NEW f, NEW X, Pool(f, X), Known(f)
  PROVE  LastRight(f)
<1>1. PICK x : x = SetLasts(f).last
  OBVIOUS
<1>2. EndOf(f, x)
  BY <1>1, LastsFound
<1>3. PICK y : y = f.last
  OBVIOUS
<1>4. EndOf(f, y)
  BY <1>3 DEF Known
<1>5. x = y
  BY <1>2, <1>4, LastsAlone
<1> QED
  BY <1>1, <1>3, <1>5 DEF LastRight

\* setLasts (editor.go) finds the end of the frame.
LEMMA SetLastsIs ==
  ASSUME NEW f, NEW X, Pool(f, X), NEW h, h = SetLasts(f)
  PROVE  SameData(f, h) /\ h.width = f.width /\ h.count = f.count /\ EndOf(f, h.last) /\ Known(h)
<1>1. f \in Frames
  BY PoolFacts
<1>2. PICK x : x = SetLasts(f).last
  OBVIOUS
<1>3. EndOf(f, x) /\ x.p # 0 /\ x \in LastSet
  BY <1>2, LastsFound DEF EndOf
<1>4. h = [f EXCEPT !.last = x]
  <2>1. PICK y : y = [p |-> LastIn(Paras(f)), l |-> LastIn(Lines(f, LastIn(Paras(f)))),
                      b |-> LastIn(Boxes(f, LastIn(Lines(f, LastIn(Paras(f))))))]
    OBVIOUS
  <2>2. h = [f EXCEPT !.last = y]
    BY <2>1 DEF SetLasts, LastsIn, LastsAt
  <2>3. x = y
    BY <1>1, <1>2, <2>2 DEF Frames
  <2> QED
    BY <2>2, <2>3
<1>5. SameData(f, h) /\ h.width = f.width /\ h.count = f.count /\ h.last = x
  BY <1>1, <1>3, <1>4, SetLastIs
<1>6. EndOf(h, x)
  BY <1>3, <1>5, SoundKept
<1>7. x # NoLast
  BY <1>3 DEF NoLast
<1> QED
  BY <1>3, <1>5, <1>6, <1>7 DEF Known

\* The editor looks for the last elements when it does not know them.
LEMMA ValidIs ==
  ASSUME NEW f, NEW X, Sound(f, X), NEW h, h = Valid(f)
  PROVE  Sound(h, X) /\ SameData(f,
         h) /\ h.width = f.width /\ h.count = f.count /\ Known(h) /\ (EndOpen(f, X) =>
             EndOpen(h, X))
<1>1. Pool(f, X) /\ f \in Frames
  BY PoolFacts DEF Sound
<1>2. CASE f.last = NoLast
  <2>1. h = SetLasts(f)
    BY <1>2 DEF Valid
  <2>2. SameData(f, h) /\ h.width = f.width /\ h.count = f.count /\ Known(h)
    BY <1>1, <2>1, SetLastsIs
  <2>3. Pool(h, X) /\ (\A p \in X : Fit(h, p) /\ CountRight(h, p)) /\ (EndOpen(f, X) =>
      EndOpen(h, X))
    <3>1. \A p \in X : Fit(f, p) /\ CountRight(f, p)
      BY DEF Sound
    <3> QED
      BY <1>1, <2>2, <3>1, SoundKept
  <2>4. LastRight(h)
    BY <2>2, <2>3, KnownRight
  <2> QED
    BY <2>2, <2>3, <2>4 DEF Sound
<1>3. CASE f.last # NoLast
  <2>1. h = f
    BY <1>3 DEF Valid
  <2>2. SameData(f, f)
    BY <1>1 DEF SameData, SameP, SameL, SameB
  <2>3. PICK x : x = f.last
    OBVIOUS
  <2>4. x = SetLasts(f).last
    BY <1>3, <2>3 DEF Sound, LastRight
  <2>5. EndOf(f, x)
    BY <1>1, <2>4, LastsFound
  <2> QED
    BY <1>3, <2>1, <2>2, <2>3, <2>5 DEF Known
<1> QED
  BY <1>2, <1>3

(***************************************************************************)
(* A box at the end of a line.                                             *)
(***************************************************************************)
BoxLinked(f, h, Q, XL, oL, rL, XB, oB, rB, b, y, box, XB2, oB2, rB2) ==
  /\ LB(h, Q, XL, oL, rL, XB2, oB2, rB2) /\ OnlyB(f, h)
  /\ y \notin XB /\ XB2 = XB \cup {y} /\ oB2[y] = oB[b] /\ rB2[y] = rB[b] + 1
  /\ \A x \in XB : oB2[x] = oB[x] /\ rB2[x] = rB[x] /\ SameText(f.B[x], h.B[x])
  /\ NextIndex(h, b) = y /\ NextIndex(h, y) = 0 /\ SameText(box, h.B[y])
  /\ Sum(h, XB2) = Sum(f, XB) + BoxLen(box)

\* A box linked at the end of a line is in it.
LEMMA LinkKept ==
  ASSUME NEW f, NEW Q, NEW XL, NEW oL, NEW rL, NEW XB, NEW oB, NEW rB,
         LB(f, Q, XL, oL, rL, XB, oB, rB),
         NEW b \in XB, NextIndex(f, b) = 0, f.B[b].kind # "line",
         NEW box \in BoxSet, box.next = 0, BoxGood(f.text, box), box.kind = "line" =>
         f.L[oB[b]].next = 0,
         NEW y, y = Slot(f.freeB, f.B), NEW h, h = LinkBoxes(AddBox(f, box), b, y)
  PROVE  \E XB2, oB2, rB2 : BoxLinked(f, h, Q, XL, oL, rL, XB, oB, rB, b, y, box, XB2, oB2, rB2)
<1>1. /\ f \in Frames /\ Q \subseteq 1 .. Len(f.P) /\ XL \subseteq 1 .. Len(f.L) /\ XB \subseteq 1 .. Len(f.B)
      /\ LLayer(f, Q, XL, oL, rL) /\ BLayer(f, XL, XB, oB,
          rB) /\ oB \in [XB -> XL] /\ rB \in [XB -> Nat \ {0}]
      /\ BoxesGood(f, XB) /\ LineBoxesLast(f, XB, oB)
  BY LBFacts DEF LB
<1>2. /\ \E X2, own2, rank2 : BInserted(f, h, XL, XB, oB, rB, b, y, X2, own2, rank2)
      /\ SameText(f.B[b], h.B[b]) /\ SameText(box, h.B[y])
  BY <1>1, BAppend
<1>3. PICK XB2, oB2, rB2 : BInserted(f, h, XL, XB, oB, rB, b, y, XB2, oB2, rB2)
  BY <1>2
<1>4. /\ OnlyB(f, h) /\ BLayer(h, XL, XB2, oB2, rB2)
      /\ y \notin XB /\ y # 0 /\ Len(f.B) <= Len(h.B)
      /\ XB2 = XB \cup {y} /\ oB2[y] = oB[b] /\ (\A x \in XB : oB2[x] = oB[x]) /\ rB2[y] = rB[b] + 1
      /\ NextIndex(h, b) = y /\ NextIndex(h, y) = NextIndex(f, b)
      /\ \A x \in XB : x # b => NextIndex(h, x) = NextIndex(f, x) /\ SameText(f.B[x], h.B[x])
  BY <1>3 DEF BInserted
<1>5. \A x \in XB : rB2[x] = IF oB[x] = oB[b] /\ rB[x] > rB[b] THEN rB[x] + 1 ELSE rB[x]
  BY <1>3 DEF BInserted
<1>6. ASSUME NEW x \in XB PROVE rB2[x] = rB[x]
  <2>1. Live(XB, XL, oB, rB, FirstB(f), NextB(f), PrevB(f)) /\ NextB(f)[b] = 0
    BY <1>1, BLayerFacts
  <2>2. oB[x] = oB[b] => rB[x] <= rB[b]
    BY <2>1 DEF Live, Ended
  <2>3. rB[x] \in Nat /\ rB[b] \in Nat
    BY <1>1
  <2> QED
    BY <1>5, <2>2, <2>3
<1>7. \A x \in XB : SameText(f.B[x], h.B[x])
  BY <1>2, <1>4
<1>8. h \in Frames /\ h.P = f.P /\ h.L = f.L /\ h.freeL = f.freeL /\ h.text = f.text
  BY <1>4 DEF OnlyB, SameP, SameL, SameT
<1>9. LLayer(h, Q, XL, oL, rL)
  <2>1. FirstL(h) = FirstL(f) /\ NextL(h) = NextL(f) /\ PrevL(h) = PrevL(f)
    BY <1>8 DEF FirstL, NextL, PrevL
  <2> QED
    BY <1>1, <1>8, <2>1 DEF LLayer
<1>10. BoxesGood(h, XB2)
  <2> SUFFICES ASSUME NEW x \in XB2 PROVE BoxGood(h.text, h.B[x])
    BY DEF BoxesGood
  <2>1. CASE x = y
    BY <1>2, <1>8, <2>1 DEF BoxGood, SameText
  <2>2. CASE x # y
    <3>1. BoxGood(f.text, f.B[x]) /\ SameText(f.B[x], h.B[x])
      BY <1>1, <1>4, <1>7, <2>2 DEF BoxesGood
    <3> QED
      BY <1>8, <3>1 DEF BoxGood, SameText
  <2> QED
    BY <2>1, <2>2
<1>11. LineBoxesLast(h, XB2, oB2)
  <2> SUFFICES ASSUME NEW x \in XB2, h.B[x].kind = "line" PROVE h.L[oB2[x]].next = 0
    BY DEF LineBoxesLast
  <2>1. CASE x = y
    BY <1>2, <1>4, <1>8, <2>1 DEF SameText
  <2>2. CASE x # y
    <3>1. f.B[x].kind = "line" /\ oB2[x] = oB[x] /\ x \in XB
      BY <1>4, <1>7, <2>2 DEF SameText
    <3> QED
      BY <1>1, <1>8, <3>1 DEF LineBoxesLast
  <2> QED
    BY <2>1, <2>2
<1>12. LB(h, Q, XL, oL, rL, XB2, oB2, rB2)
  BY <1>1, <1>4, <1>8, <1>9, <1>10, <1>11 DEF LB
<1>13. XB2 \subseteq 1 .. Len(h.B)
  BY <1>12, LBFacts
<1>14. Sum(h, XB2) = Sum(f, XB) + BoxLen(box)
  <2>1. PICK z \in Nat : z = 0
    OBVIOUS
  <2>2. \A k \in 1 .. Len(h.B) : k # y /\ k # z => LenAt(h, XB2, k) = LenAt(f, XB, k)
    <3> SUFFICES ASSUME NEW k \in 1 .. Len(h.B), k # y PROVE LenAt(h, XB2, k) = LenAt(f, XB, k)
      OBVIOUS
    <3>1. k \in XB => BoxLen(h.B[k]) = BoxLen(f.B[k])
      BY <1>7 DEF SameText, BoxLen
    <3> QED
      BY <1>4, <3>1 DEF LenAt
  <2>3. y \in 0 .. Len(h.B) /\ z \in 0 .. Len(h.B)
    <3>1. y \in 1 .. Len(h.B)
      BY <1>4, <1>13
    <3>2. Len(h.B) \in Nat
      BY <1>8 DEF Frames
    <3> QED
      BY <2>1, <3>1, <3>2
  <2>4. SumsDiffer(f, h, XB, XB2, y, z)
    BY <1>1, <1>4, <1>13, <2>1, <2>2, <2>3 DEF SumsDiffer
  <2>5. Sum(h, XB2) = Sum(f, XB) + LenAt(h, XB2, y) - LenAt(f, XB, y) + LenAt(h, XB2, z) - LenAt(f,
      XB, z)
    BY <1>1, <1>8, <2>4, SumChanged
  <2>6. z \notin XB /\ z \notin XB2
    BY <1>1, <1>4, <2>1
  <2>7. /\ LenAt(h, XB2, y) = BoxLen(h.B[y]) /\ LenAt(f, XB, y) = 0
        /\ LenAt(h, XB2, z) = 0 /\ LenAt(f, XB, z) = 0
    BY <1>4, <2>6 DEF LenAt
  <2>8. BoxLen(h.B[y]) = BoxLen(box)
    BY <1>2 DEF SameText, BoxLen
  <2>9. Sum(f, XB) \in Int /\ BoxLen(box) \in Int
    BY <1>1, SumIs, LenType
  <2> QED
    BY <2>5, <2>7, <2>8, <2>9
<1>15. BoxLinked(f, h, Q, XL, oL, rL, XB, oB, rB, b, y, box, XB2, oB2, rB2)
  BY <1>2, <1>4, <1>6, <1>7, <1>12, <1>14 DEF BoxLinked
<1> QED
  BY <1>15

\* Two neighbours become one.
BoxesOne(f, h, Q, XL, oL, rL, XB, oB, rB, b, b1, XB2, oB2, rB2) ==
  /\ LB(h, Q, XL, oL, rL, XB2, oB2, rB2) /\ OnlyB(f, h)
  /\ b1 \in XB /\ oB[b1] = oB[b] /\ XB2 = XB \ {b1} /\ b \in XB2
  /\ \A x \in XB2 : oB2[x] = oB[x] /\ (oB[x] # oB[b] => rB2[x] = rB[x])
  /\ \A x \in XB2 : x # b => SameText(f.B[x], h.B[x])
  /\ NextIndex(h, b) = NextIndex(f, b1) /\ h.B[b].kind = "text"
  /\ Sum(h, XB2) = Sum(f, XB)

\* A box joined with the last one of its line is good.
LEMMA JoinKept ==
  ASSUME NEW f, NEW Q, NEW XL, NEW oL, NEW rL, NEW XB, NEW oB, NEW rB,
         LB(f, Q, XL, oL, rL, XB, oB, rB),
         NEW b \in XB, NEW b1, b1 = NextIndex(f, b), b1 # 0, Joins(f.B[b], f.B[b1]),
         NEW h, h = JoinBoxes(f, b, b1)
  PROVE  \E XB2, oB2, rB2 : BoxesOne(f, h, Q, XL, oL, rL, XB, oB, rB, b, b1, XB2, oB2, rB2)
<1>1. PICK l, p : l = oB[b] /\ p = oL[oB[b]]
  OBVIOUS
<1>2. /\ f \in Frames /\ Q \subseteq 1 .. Len(f.P) /\ XL \subseteq 1 .. Len(f.L) /\ XB \subseteq 1 .. Len(f.B)
      /\ LLayer(f, Q, XL, oL, rL) /\ BLayer(f, XL, XB, oB,
          rB) /\ oB \in [XB -> XL] /\ rB \in [XB -> Nat \ {0}]
      /\ BoxesGood(f, XB) /\ LineBoxesLast(f, XB, oB)
  BY LBFacts DEF LB
<1>3. l \in XL
  BY <1>1, <1>2
<1>4. MLayer(f, Q, XL, oL, rL, l)
  BY <1>2, <1>3, PatchedIs
<1>5. MB(f, Q, l, XL, oL, rL, XB, oB, rB)
  BY <1>2, <1>3, <1>4 DEF MB
<1>6. PICK XB2, oB2, rB2 : BTaken(f, h, XL, XB, oB, rB, b, b1, XB2, oB2, rB2)
  BY <1>2, BJoin
<1>7. /\ OnlyB(f, h) /\ BLayer(h, XL, XB2, oB2, rB2)
      /\ b1 \in XB /\ b1 # b /\ oB[b1] = oB[b] /\ XB2 = XB \ {b1}
      /\ (\A x \in XB2 : oB2[x] = oB[x])
      /\ \A x \in XB2 : rB2[x] = BRemoveRank(oB, rB, b1, x)
  BY <1>6 DEF BTaken
<1>8. /\ h.B[b] = Joined(f.B[b], f.B[b1])
      /\ (\A x \in XB2 : x # b => SameText(f.B[x], h.B[x]))
      /\ NextIndex(h, b) = NextIndex(f, b1) /\ Len(h.B) = Len(f.B)
  BY <1>6 DEF BTaken
<1>9. h \in Frames /\ h.P = f.P /\ h.L = f.L /\ h.freeL = f.freeL /\ h.text = f.text
  BY <1>7 DEF OnlyB, SameP, SameL, SameT
<1>10. LLayer(h, Q, XL, oL, rL)
  <2>1. FirstL(h) = FirstL(f) /\ NextL(h) = NextL(f) /\ PrevL(h) = PrevL(f)
    BY <1>9 DEF FirstL, NextL, PrevL
  <2> QED
    BY <1>2, <1>9, <2>1 DEF LLayer
<1>11. PICK x, y, z : x = f.B[b] /\ y = f.B[b1] /\ z = h.B[b]
  OBVIOUS
<1>12. x \in BoxSet /\ y \in BoxSet /\ BoxGood(f.text, x) /\ BoxGood(f.text,
    y) /\ f.text \in Seq(Characters)
  <2>1. f.B[b] \in BoxSet /\ f.B[b1] \in BoxSet
    BY <1>2, <1>7, BLayerFacts
  <2> QED
    BY <1>2, <1>7, <1>11, <2>1 DEF BoxesGood, Frames
<1>13. BoxGood(f.text,
    z) /\ BoxLen(z) = BoxLen(x) + BoxLen(y) /\ BoxLen(x) \in Nat /\ BoxLen(y) \in Nat
  BY <1>8, <1>11, <1>12, JoinedGood
<1>14. z.kind = "text"
  BY <1>8, <1>11, <1>12, JoinedIs
<1>15. BoxesGood(h, XB2)
  <2> SUFFICES ASSUME NEW w \in XB2 PROVE BoxGood(h.text, h.B[w])
    BY DEF BoxesGood
  <2>1. CASE w = b
    BY <1>9, <1>11, <1>13, <2>1
  <2>2. CASE w # b
    <3>1. BoxGood(f.text, f.B[w]) /\ SameText(f.B[w], h.B[w])
      BY <1>2, <1>7, <1>8, <2>2 DEF BoxesGood
    <3> QED
      BY <1>9, <3>1 DEF BoxGood, SameText
  <2> QED
    BY <2>1, <2>2
<1>16. LineBoxesLast(h, XB2, oB2)
  <2> SUFFICES ASSUME NEW w \in XB2, h.B[w].kind = "line" PROVE h.L[oB2[w]].next = 0
    BY DEF LineBoxesLast
  <2>0. "text" # "line"
    OBVIOUS
  <2>1. w # b
    BY <1>11, <1>14, <2>0
  <2>2. f.B[w].kind = "line" /\ oB2[w] = oB[w] /\ w \in XB
    BY <1>7, <1>8, <2>1 DEF SameText
  <2> QED
    BY <1>2, <1>9, <2>2 DEF LineBoxesLast
<1>17. LB(h, Q, XL, oL, rL, XB2, oB2, rB2)
  BY <1>2, <1>7, <1>9, <1>10, <1>15, <1>16 DEF LB
<1>18. Sum(h, XB2) = Sum(f, XB)
  <2>1. \A k \in 1 .. Len(h.B) : k # b /\ k # b1 => LenAt(h, XB2, k) = LenAt(f, XB, k)
    <3> SUFFICES ASSUME NEW k \in 1 .. Len(h.B), k # b,
        k # b1 PROVE LenAt(h, XB2, k) = LenAt(f, XB, k)
      OBVIOUS
    <3>1. k \in XB2 => BoxLen(h.B[k]) = BoxLen(f.B[k])
      BY <1>8 DEF SameText, BoxLen
    <3> QED
      BY <1>7, <3>1 DEF LenAt
  <2>2. XB \subseteq 1 .. Len(f.B) /\ XB2 \subseteq 1 .. Len(h.B) /\ Len(f.B) <= Len(h.B)
    <3>1. PICK n \in Nat : n = Len(f.B)
      BY <1>2 DEF Frames
    <3>2. Len(h.B) = n
      BY <1>8, <3>1
    <3>3. XB \subseteq 1 .. n /\ XB2 \subseteq 1 .. n
      BY <1>2, <1>7, <3>1
    <3> QED
      BY <3>1, <3>2, <3>3
  <2>3. b \in 0 .. Len(h.B) /\ b1 \in 0 .. Len(h.B)
    BY <1>2, <1>7, <1>8
  <2>4. SumsDiffer(f, h, XB, XB2, b, b1)
    BY <1>7, <2>1, <2>2, <2>3 DEF SumsDiffer
  <2>5. Sum(h, XB2) = Sum(f, XB) + LenAt(h, XB2, b) - LenAt(f, XB, b) + LenAt(h, XB2,
      b1) - LenAt(f, XB, b1)
    BY <1>2, <1>9, <2>4, SumChanged
  <2>6. b \in XB2 /\ b1 \notin XB2
    BY <1>7
  <2>7. /\ LenAt(h, XB2, b) = BoxLen(z) /\ LenAt(f, XB, b) = BoxLen(x)
        /\ LenAt(h, XB2, b1) = 0 /\ LenAt(f, XB, b1) = BoxLen(y)
    BY <1>7, <1>11, <2>6 DEF LenAt
  <2>8. Sum(f, XB) \in Int
    BY <1>2, SumIs
  <2> QED
    BY <1>13, <2>5, <2>7, <2>8
<1>19. \A w \in XB2 : oB[w] # oB[b] => rB2[w] = rB[w]
  BY <1>7 DEF BRemoveRank
<1>20. b \in XB2
  BY <1>7
<1>21. BoxesOne(f, h, Q, XL, oL, rL, XB, oB, rB, b, b1, XB2, oB2, rB2)
  BY <1>7, <1>8, <1>11, <1>14, <1>17, <1>18, <1>19, <1>20 DEF BoxesOne
<1> QED
  BY <1>21

\* Frames that differ in their boxes alone are the same if those are.
LEMMA SameBoxes ==
  ASSUME NEW f, NEW g, NEW h, OnlyB(f, g), OnlyB(f, h), Len(g.B) = Len(h.B), g.freeB = h.freeB,
         \A k \in 1 .. Len(g.B) : h.B[k] = g.B[k]
  PROVE  g = h
<1>1. g \in Frames /\ h \in Frames
  BY DEF OnlyB
<1>2. g.B \in Seq(BoxSet) /\ h.B \in Seq(BoxSet)
  BY <1>1 DEF Frames
<1>3. g.B = h.B
  BY <1>2
<1>4. /\ g.P = h.P /\ g.freeP = h.freeP /\ g.firstP = h.firstP /\ g.L = h.L /\ g.freeL = h.freeL
      /\ g.text = h.text /\ g.len = h.len /\ g.width = h.width /\ g.count = h.count /\ g.last = h.last
  BY DEF OnlyB, SameP, SameL, SameT, SameC
<1>5. PICK x : x = [P |-> g.P, L |-> g.L, B |-> g.B, freeP |-> g.freeP, freeL |-> g.freeL,
    freeB |-> g.freeB,
                    firstP |-> g.firstP, text |-> g.text, len |-> g.len, width |-> g.width,
                    count |-> g.count, last |-> g.last]
  OBVIOUS
<1>6. g = x
  BY <1>1, <1>5 DEF Frames
<1>7. h = x
  BY <1>1, <1>3, <1>4, <1>5 DEF Frames
<1> QED
  BY <1>6, <1>7

\* Joining does not look at the link between the two boxes.
Relinked(x, y, n, p, x2, y2) == x2 = [x EXCEPT !.next = n] /\ y2 = [y EXCEPT !.prev = p]
JoinsAlike(x, y, x2, y2) ==
  /\ Joins(x2, y2) <=> Joins(x, y)
  /\ Joined(x2, y2) = Joined(x, y)
  /\ y2.next = y.next
  /\ \A a, b : [y2 EXCEPT !.next = a, !.prev = b] = [y EXCEPT !.next = a, !.prev = b]
\* Boxes of the same text join alike.
LEMMA JoinedAlike ==
  ASSUME NEW x \in BoxSet, NEW y \in BoxSet, NEW x2, NEW y2, NEW n \in Nat, NEW p \in Int,
         Relinked(x, y, n, p, x2, y2)
  PROVE  JoinsAlike(x, y, x2, y2)
<1>0. x2 = [x EXCEPT !.next = n] /\ y2 = [y EXCEPT !.prev = p]
  BY DEF Relinked
<1>1. /\ x2 \in BoxSet /\ y2 \in BoxSet /\ x2.i = x.i /\ x2.j = x.j /\ x2.kind = x.kind /\ x2.color = x.color /\ x2.w = x.w
      /\ x2.prev = x.prev /\ y2.next = y.next
      /\ y2.i = y.i /\ y2.j = y.j /\ y2.kind = y.kind /\ y2.color = y.color /\ y2.w = y.w
  BY <1>0 DEF BoxSet
<1>2. Joins(x2, y2) <=> Joins(x, y)
  BY <1>1 DEF Joins
<1>3. [y2 EXCEPT !.prev = x2.prev] = [y EXCEPT !.prev = x.prev]
  BY <1>0, <1>1 DEF BoxSet
<1>4. [x2 EXCEPT !.next = y2.next] = [x EXCEPT !.next = y.next]
  BY <1>0, <1>1 DEF BoxSet
<1>5. [x2 EXCEPT !.j = y2.j, !.w = @ + y2.w, !.next = y2.next] = [x EXCEPT !.j = y.j,
    !.w = @ + y.w, !.next = y.next]
  BY <1>0, <1>1 DEF BoxSet
<1>6. Joined(x2, y2) = Joined(x, y)
  BY <1>1, <1>3, <1>4, <1>5 DEF Joined
<1>7. \A a, b : [y2 EXCEPT !.next = a, !.prev = b] = [y EXCEPT !.next = a, !.prev = b]
  BY <1>0, <1>1 DEF BoxSet
<1> QED
  BY <1>1, <1>2, <1>6, <1>7 DEF JoinsAlike

\* Joining a new box does not depend on whether it was linked before.
LEMMA JoinUnlinked ==
  ASSUME NEW f \in Frames, NEW b \in 1 .. Len(f.B), NEW y \in 1 .. Len(f.B), b # y, f.B[y].next = 0,
         NEW g, g = LinkBoxes(f, b, y)
  PROVE  /\ Joins(g.B[b], g.B[y]) <=> Joins(f.B[b], f.B[y])
         /\ Joins(f.B[b], f.B[y]) => JoinBoxes(f, b, y) = JoinBoxes(g, b, y)
<1>1. /\ OnlyB(f, g) /\ Len(g.B) = Len(f.B) /\ g.freeB = f.freeB
      /\ g.B[b] = [f.B[b] EXCEPT !.next = y] /\ g.B[y] = [f.B[y] EXCEPT !.prev = b]
      /\ \A k \in 1 .. Len(f.B) : k # b /\ k # y => g.B[k] = f.B[k]
  BY LinkBoxesIs
<1>2. f.B[b] \in BoxSet /\ f.B[y] \in BoxSet /\ y \in Nat /\ b \in Int /\ g \in Frames
  BY <1>1, NextIndexType DEF OnlyB
<1>3. PICK x0, y0, x2, y2 : x0 = f.B[b] /\ y0 = f.B[y] /\ x2 = g.B[b] /\ y2 = g.B[y]
  OBVIOUS
<1>4. /\ Joins(x2, y2) <=> Joins(x0, y0)
      /\ Joined(x2, y2) = Joined(x0, y0)
      /\ y2.next = y0.next
      /\ \A a, c : [y2 EXCEPT !.next = a, !.prev = c] = [y0 EXCEPT !.next = a, !.prev = c]
  <2>1. Relinked(x0, y0, y, b, x2, y2)
    BY <1>1, <1>3 DEF Relinked
  <2>2. x0 \in BoxSet /\ y0 \in BoxSet /\ y \in Nat /\ b \in Int
    BY <1>2, <1>3
  <2>3. JoinsAlike(x0, y0, x2, y2)
    BY <2>1, <2>2, JoinedAlike
  <2> QED
    BY <2>3 DEF JoinsAlike
<1>5. ASSUME Joins(f.B[b], f.B[y]) PROVE JoinBoxes(f, b, y) = JoinBoxes(g, b, y)
  <2>1. PICK h1, h2 : h1 = JoinBoxes(f, b, y) /\ h2 = JoinBoxes(g, b, y)
    OBVIOUS
  <2>2. PICK z : z = 0
    OBVIOUS
  <2>3. z \in 0 .. Len(f.B) /\ z = f.B[y].next /\ z = g.B[y].next /\ z # b /\ z # y
    <3>1. Len(f.B) \in Nat
      BY DEF Frames
    <3>2. f.B[y].next = 0 /\ g.B[y].next = 0
      BY <1>3, <1>4
    <3> QED
      BY <2>2, <3>1, <3>2
  <2>4. BoxesJoined(f, h1, b, y, z)
    BY <1>5, <2>1, <2>3, JoinBoxesIs
  <2>5. BoxesJoined(g, h2, b, y, z)
    <3>1. b \in 1 .. Len(g.B) /\ y \in 1 .. Len(g.B) /\ z \in 0 .. Len(g.B) /\ Joins(g.B[b], g.B[y])
      BY <1>1, <1>3, <1>4, <1>5, <2>3
    <3> QED
      BY <1>2, <2>1, <2>3, <3>1, JoinBoxesIs
  <2>6. OnlyB(f, h1) /\ OnlyB(f, h2) /\ Len(h1.B) = Len(h2.B) /\ h1.freeB = h2.freeB
    <3>1. OnlyB(g, h2)
      BY <2>5 DEF BoxesJoined
    <3>2. OnlyB(f, h2)
      BY <1>1, <3>1, OnlyBTwice
    <3> QED
      BY <1>1, <2>4, <2>5, <3>2 DEF BoxesJoined
  <2>7. ASSUME NEW k \in 1 .. Len(h1.B) PROVE h2.B[k] = h1.B[k]
    <3>1. k \in 1 .. Len(f.B) /\ k \in 1 .. Len(g.B)
      BY <1>1, <2>4 DEF BoxesJoined
    <3>2. CASE k = b
      BY <1>3, <1>4, <2>4, <2>5, <3>2 DEF BoxesJoined
    <3>3. CASE k = y
      <4>1. h1.B[y] = [y0 EXCEPT !.next = f.freeB, !.prev = -1]
        BY <1>3, <2>4 DEF BoxesJoined
      <4>2. h2.B[y] = [y2 EXCEPT !.next = f.freeB, !.prev = -1]
        BY <1>1, <1>3, <2>5 DEF BoxesJoined
      <4> QED
        BY <1>4, <3>3, <4>1, <4>2
    <3>4. CASE k # b /\ k # y
      <4>1. k # z
        BY <2>2
      <4>2. h1.B[k] = f.B[k]
        BY <2>4, <3>1, <3>4, <4>1 DEF BoxesJoined
      <4>3. h2.B[k] = g.B[k]
        BY <2>5, <3>1, <3>4, <4>1 DEF BoxesJoined
      <4> QED
        BY <1>1, <3>1, <3>4, <4>2, <4>3
    <3> QED
      BY <3>2, <3>3, <3>4
  <2>8. h1 = h2
    BY <2>6, <2>7, SameBoxes
  <2> QED
    BY <2>1, <2>8
<1> QED
  BY <1>3, <1>4, <1>5

\* A box was put after the last one b of a line, or taken in by it.
BoxAppended(f, h, Q, XL, oL, rL, XB, oB, rB, b, box, e, XB2, oB2, rB2) ==
  /\ LB(h, Q, XL, oL, rL, XB2, oB2, rB2)
  /\ SameP(f, h) /\ SameL(f, h) /\ SameT(f, h) /\ h.count = f.count
  /\ Sum(h, XB2) = Sum(f, XB) + BoxLen(box)
  /\ h.last \in LastSet /\ h.last.p = f.last.p /\ h.last.l = f.last.l /\ h.last.b = e
  /\ e \in XB2 /\ oB2[e] = oB[b] /\ NextIndex(h, e) = 0
  /\ \A l \in XL : l # oB[b] => LineAlike(f, h, XB, oB, rB, XB2, oB2, rB2, l)
  /\ box.kind # "line" => \A p : Unruled(f, oL, XB, oB, p) => Unruled(h, oL, XB2, oB2, p)

\* A new box at the end of the line, when it cannot be joined.
LEMMA AppendLinked ==
  ASSUME NEW f, NEW Q, NEW XL, NEW oL, NEW rL, NEW XB, NEW oB, NEW rB,
         LB(f, Q, XL, oL, rL, XB, oB, rB),
         NEW b \in XB, NEW box, NEW y, f.last \in LastSet, f.last.b = b,
         NEW g, NEW XB2, NEW oB2, NEW rB2,
         BoxLinked(f, g, Q, XL, oL, rL, XB, oB, rB, b, y, box, XB2, oB2, rB2),
         NEW h, h = [g EXCEPT !.last.b = y]
  PROVE  BoxAppended(f, h, Q, XL, oL, rL, XB, oB, rB, b, box, y, XB2, oB2, rB2)
<1>1. /\ LB(g, Q, XL, oL, rL, XB2, oB2, rB2) /\ OnlyB(f, g)
      /\ y \notin XB /\ XB2 = XB \cup {y} /\ oB2[y] = oB[b]
      /\ (\A x \in XB : oB2[x] = oB[x] /\ rB2[x] = rB[x] /\ SameText(f.B[x], g.B[x]))
      /\ NextIndex(g, y) = 0 /\ SameText(box, g.B[y])
      /\ Sum(g, XB2) = Sum(f, XB) + BoxLen(box)
  BY DEF BoxLinked
<1>2. g \in Frames /\ g.last = f.last /\ g.count = f.count /\ y \in Nat
  <2>1. XB2 \subseteq 1 .. Len(g.B)
    BY <1>1, LBFacts
  <2> QED
    BY <1>1, <2>1 DEF OnlyB, SameC
<1>3. PICK x : x = [g.last EXCEPT !.b = y]
  OBVIOUS
<1>4. x \in LastSet /\ x.p = f.last.p /\ x.l = f.last.l /\ x.b = y
  BY <1>2, <1>3 DEF LastSet
<1>5. h = [g EXCEPT !.last = x]
  BY <1>2, <1>3 DEF Frames
<1>6. SameData(g, h) /\ h.width = g.width /\ h.count = g.count /\ h.last = x
  <2>1. PICK k : k = h
    OBVIOUS
  <2>2. k = [g EXCEPT !.last = x]
    BY <1>5, <2>1
  <2>3. x \in LastSet /\ g \in Frames
    BY <1>2, <1>4
  <2>4. SameData(g, k) /\ k.width = g.width /\ k.count = g.count /\ k.last = x
    BY <2>2, <2>3, SetLastIs
  <2> QED
    BY <2>1, <2>4
<1>7. Q \subseteq 1 .. Len(g.P)
  BY <1>1, LBFacts
<1>8. SameLay(g, h, Q)
  BY <1>6, <1>7 DEF SameLay, SameData, SameT, SameP
<1>9. LB(h, Q, XL, oL, rL, XB2, oB2, rB2) /\ Sum(h, XB2) = Sum(g, XB2)
  BY <1>1, <1>8, LBKept
<1>10. h.B = g.B /\ h.L = g.L
  BY <1>6 DEF SameData, SameB, SameL
<1>11. SameP(f, h) /\ SameL(f, h) /\ SameT(f, h)
  BY <1>1, <1>6 DEF OnlyB, SameData, SameP, SameL, SameT
<1>12. NextIndex(h, y) = 0
  BY <1>1, <1>10 DEF NextIndex
<1>13. ASSUME NEW l \in XL, l # oB[b]
       PROVE  LineAlike(f, h, XB, oB, rB, XB2, oB2, rB2, l)
  <2>1. SamePlaces(XB, oB, rB, XB2, oB2, rB2, l)
    BY <1>1, <1>13 DEF SamePlaces
  <2>2. h.L[l].firstB = f.L[l].firstB
    BY <1>11 DEF SameL
  <2> QED
    BY <1>1, <1>10, <2>1, <2>2 DEF LineAlike
<1>14. ASSUME box.kind # "line", NEW p, Unruled(f, oL, XB, oB, p)
       PROVE  Unruled(h, oL, XB2, oB2, p)
  <2> SUFFICES ASSUME NEW z \in XB2, oL[oB2[z]] = p PROVE h.B[z].kind # "line"
    BY DEF Unruled
  <2>1. CASE z = y
    BY <1>1, <1>10, <1>14, <2>1 DEF SameText
  <2>2. CASE z # y
    <3>1. z \in XB /\ oB2[z] = oB[z] /\ SameText(f.B[z], g.B[z])
      BY <1>1, <2>2
    <3>2. f.B[z].kind # "line"
      BY <1>14, <3>1 DEF Unruled
    <3> QED
      BY <1>10, <3>1, <3>2 DEF SameText
  <2> QED
    BY <2>1, <2>2
<1>15. h.last \in LastSet /\ h.last.p = f.last.p /\ h.last.l = f.last.l /\ h.last.b = y /\ h.count = f.count
  BY <1>2, <1>4, <1>6
<1>16. Sum(h, XB2) = Sum(f, XB) + BoxLen(box)
  BY <1>1, <1>9
<1> QED
  BY <1>1, <1>9, <1>11, <1>12, <1>13, <1>14, <1>15, <1>16 DEF BoxAppended

\* A new box taken in by the last one of the line.
LEMMA AppendJoined ==
  ASSUME NEW f, NEW Q, NEW XL, NEW oL, NEW rL, NEW XB, NEW oB, NEW rB,
         LB(f, Q, XL, oL, rL, XB, oB, rB),
         NEW b \in XB, NEW box, NEW y, f.last \in LastSet, f.last.b = b, b # 0,
         NEW g, NEW XB1, NEW oB1, NEW rB1,
         BoxLinked(f, g, Q, XL, oL, rL, XB, oB, rB, b, y, box, XB1, oB1, rB1),
         Joins(g.B[b], g.B[y]), y # 0, NEW h, h = JoinBoxes(g, b, y)
  PROVE  \E XB2, oB2, rB2 : BoxAppended(f, h, Q, XL, oL, rL, XB, oB, rB, b, box, b, XB2, oB2, rB2)
<1>1. /\ LB(g, Q, XL, oL, rL, XB1, oB1, rB1) /\ OnlyB(f, g)
      /\ y \notin XB /\ XB1 = XB \cup {y} /\ oB1[y] = oB[b]
      /\ (\A x \in XB : oB1[x] = oB[x] /\ rB1[x] = rB[x] /\ SameText(f.B[x], g.B[x]))
      /\ NextIndex(g, b) = y /\ NextIndex(g, y) = 0
      /\ Sum(g, XB1) = Sum(f, XB) + BoxLen(box)
  BY DEF BoxLinked
<1>2. b \in XB1
  BY <1>1
<1>3. PICK XB2, oB2, rB2 : BoxesOne(g, h, Q, XL, oL, rL, XB1, oB1, rB1, b, y, XB2, oB2, rB2)
  BY <1>1, <1>2, JoinKept
<1>4. /\ LB(h, Q, XL, oL, rL, XB2, oB2, rB2) /\ OnlyB(g, h)
      /\ XB2 = XB1 \ {y} /\ b \in XB2
      /\ (\A x \in XB2 : oB2[x] = oB1[x] /\ (oB1[x] # oB1[b] => rB2[x] = rB1[x]))
      /\ (\A x \in XB2 : x # b => SameText(g.B[x], h.B[x]))
      /\ NextIndex(h, b) = 0 /\ h.B[b].kind = "text"
      /\ Sum(h, XB2) = Sum(g, XB1)
  BY <1>1, <1>3 DEF BoxesOne
<1>5. XB2 = XB
  BY <1>1, <1>4
<1>6. OnlyB(f, h)
  BY <1>1, <1>4, OnlyBTwice
<1>7. ASSUME NEW x \in XB, x # b PROVE SameText(f.B[x], h.B[x])
  <2>1. SameText(f.B[x], g.B[x]) /\ SameText(g.B[x], h.B[x])
    BY <1>1, <1>4, <1>5, <1>7
  <2> QED
    BY <2>1 DEF SameText
<1>8. ASSUME NEW l \in XL, l # oB[b]
      PROVE  LineAlike(f, h, XB, oB, rB, XB2, oB2, rB2, l)
  <2>1. SamePlaces(XB, oB, rB, XB2, oB2, rB2, l)
    BY <1>1, <1>4, <1>5, <1>8 DEF SamePlaces
  <2>2. h.L[l].firstB = f.L[l].firstB
    BY <1>6 DEF OnlyB, SameL
  <2>3. \A x \in XB : oB[x] = l => SameText(f.B[x], h.B[x])
    BY <1>7, <1>8
  <2> QED
    BY <2>1, <2>2, <2>3 DEF LineAlike
<1>9. ASSUME NEW p, Unruled(f, oL, XB, oB, p)
      PROVE  Unruled(h, oL, XB2, oB2, p)
  <2> SUFFICES ASSUME NEW z \in XB2, oL[oB2[z]] = p PROVE h.B[z].kind # "line"
    BY DEF Unruled
  <2>1. CASE z = b
    BY <1>4, <2>1
  <2>2. CASE z # b
    <3>1. z \in XB /\ oB2[z] = oB[z] /\ SameText(f.B[z], h.B[z])
      BY <1>1, <1>4, <1>5, <1>7, <2>2
    <3>2. f.B[z].kind # "line"
      BY <1>9, <3>1 DEF Unruled
    <3> QED
      BY <3>1, <3>2 DEF SameText
  <2> QED
    BY <2>1, <2>2
<1>10. /\ SameP(f, h) /\ SameL(f, h) /\ SameT(f, h) /\ h.count = f.count
       /\ h.last \in LastSet /\ h.last.p = f.last.p /\ h.last.l = f.last.l /\ h.last.b = b
  BY <1>6 DEF OnlyB, SameC
<1>11. b \in XB2 /\ oB2[b] = oB[b] /\ NextIndex(h, b) = 0
  BY <1>1, <1>4, <1>5
<1>12. Sum(h, XB2) = Sum(f, XB) + BoxLen(box)
  BY <1>1, <1>4
<1>13. BoxAppended(f, h, Q, XL, oL, rL, XB, oB, rB, b, box, b, XB2, oB2, rB2)
  BY <1>4, <1>8, <1>9, <1>10, <1>11, <1>12 DEF BoxAppended
<1> QED
  BY <1>13

\* A new box goes to the end of the line, as a box or as more of the last one.
LEMMA AppendBoxIs ==
  ASSUME NEW f, NEW Q, NEW XL, NEW oL, NEW rL, NEW XB, NEW oB, NEW rB,
         LB(f, Q, XL, oL, rL, XB, oB, rB),
         NEW b \in XB, f.last \in LastSet, f.last.b = b, NextIndex(f, b) = 0, f.B[b].kind # "line",
         NEW box \in BoxSet, box.next = 0, BoxGood(f.text, box), box.kind = "line" =>
         f.L[oB[b]].next = 0,
         NEW h, h = AppendBox(f, box)
  PROVE  \E e, XB2, oB2, rB2 : BoxAppended(f, h, Q, XL, oL, rL, XB, oB, rB, b, box, e, XB2, oB2,
         rB2)
<1>1. PICK y, a, g : y = Slot(f.freeB, f.B) /\ a = AddBox(f, box) /\ g = LinkBoxes(a, b, y)
  OBVIOUS
<1>2. g = LinkBoxes(AddBox(f, box), b, y)
  BY <1>1
<1>3. PICK XB1, oB1, rB1 : BoxLinked(f, g, Q, XL, oL, rL, XB, oB, rB, b, y, box, XB1, oB1, rB1)
  BY <1>1, <1>2, LinkKept
<1>4. f \in Frames /\ XB \subseteq 1 .. Len(f.B) /\ BLayer(f, XL, XB, oB, rB)
  BY LBFacts
<1>5. f.freeB <= Len(f.B) /\ Len(f.B) \in Nat
  BY <1>4, BLayerFacts
<1>6. /\ OnlyB(f, a) /\ y \in 1 .. Len(f.B) + 1
      /\ Len(a.B) = (IF y <= Len(f.B) THEN Len(f.B) ELSE y)
      /\ a.B[y] = box
  BY <1>1, <1>4, <1>5, AddBoxIs
<1>7. y \notin XB
  BY <1>3 DEF BoxLinked
<1>8. a \in Frames /\ b \in 1 .. Len(a.B) /\ y \in 1 .. Len(a.B) /\ b # y /\ b # 0 /\ y # 0
  BY <1>4, <1>5, <1>6, <1>7 DEF OnlyB
<1>9. /\ Joins(g.B[b], g.B[y]) <=> Joins(a.B[b], a.B[y])
      /\ Joins(a.B[b], a.B[y]) => JoinBoxes(a, b, y) = JoinBoxes(g, b, y)
  BY <1>1, <1>6, <1>8, JoinUnlinked
<1>10. h = LinkBox(a, b, y)
  BY <1>1 DEF AppendBox
<1>11. CASE Joins(a.B[b], a.B[y])
  <2>1. h = JoinBoxes(g, b, y) /\ Joins(g.B[b], g.B[y])
    BY <1>9, <1>10, <1>11 DEF LinkBox
  <2> QED
    BY <1>3, <1>8, <2>1, AppendJoined
<1>12. CASE ~Joins(a.B[b], a.B[y])
  <2>1. h = [g EXCEPT !.last.b = y]
    BY <1>1, <1>10, <1>12 DEF LinkBox
  <2>2. BoxAppended(f, h, Q, XL, oL, rL, XB, oB, rB, b, box, y, XB1, oB1, rB1)
    BY <1>3, <2>1, AppendLinked
  <2> QED
    BY <2>2
<1> QED
  BY <1>11, <1>12

(***************************************************************************)
(* More text at the end of the buffer.                                     *)
(***************************************************************************)

\* Text added at the end changes no columns before it.
LEMMA ColumnsMore ==
  ASSUME NEW s \in Seq(Characters), NEW t \in Seq(Characters), NEW u, u = s \o t
  PROVE  /\ u \in Seq(Characters) /\ Len(u) = Len(s) + Len(t)
         /\ \A n \in 0 .. Len(s) : Columns(u, n) = Columns(s, n)
         /\ Columns(u, Len(u)) - Columns(u, Len(s)) = StringWidth(t)
<1>1. u \in Seq(Characters) /\ Len(u) = Len(s) + Len(t) /\ Len(s) \in Nat /\ Len(t) \in Nat
  BY ConcatProperties
<1>2. /\ \A k \in 1 .. Len(s) : u[k] = s[k]
      /\ \A k \in 1 .. Len(t) : u[Len(s) + k] = t[k]
  BY ConcatProperties
<1>3. PICK z \in Nat : z = 0
  OBVIOUS
<1>4. Columns(u, 0) = 0 /\ Columns(s, 0) = 0 /\ Columns(t, 0) = 0
  BY <1>1, ColumnsStep
<1>5. /\ \A n \in 0 .. Len(u) : Columns(u, n) \in Int
      /\ \A n \in 0 .. Len(s) : Columns(s, n) \in Int
      /\ \A n \in 0 .. Len(t) : Columns(t, n) \in Int
  BY <1>1, ColumnsStep
<1>6. ASSUME NEW n \in 0 .. Len(s) PROVE Columns(u, n) = Columns(s, n)
  <2>1. \A k \in 1 .. n : u[z + k] = s[z + k]
    BY <1>1, <1>2, <1>3
  <2>2. SameRunes(u, s, z, z, n)
    BY <1>1, <1>3, <2>1 DEF SameRunes
  <2>3. Columns(u, z + n) - Columns(u, z) = Columns(s, z + n) - Columns(s, z)
    <3>1. u \in Seq(Characters) /\ s \in Seq(Characters)
      BY <1>1
    <3> QED
      BY ONLY <2>2, <3>1, ColumnsShift
  <2>4. z + n = n
    BY <1>3
  <2>5. Columns(u, n) - 0 = Columns(s, n) - 0
    BY <1>3, <1>4, <2>3, <2>4
  <2>6. Columns(u, n) \in Int /\ Columns(s, n) \in Int
    BY <1>1, <1>5
  <2> QED
    BY <2>5, <2>6
<1>7. Columns(u, Len(u)) - Columns(u, Len(s)) = StringWidth(t)
  <2>1. PICK a, n : a = Len(s) /\ n = Len(t)
    OBVIOUS
  <2>2. \A k \in 1 .. n : u[a + k] = t[z + k]
    BY <1>1, <1>2, <1>3, <2>1
  <2>3. SameRunes(u, t, a, z, n)
    BY <1>1, <1>3, <2>1, <2>2 DEF SameRunes
  <2>4. Columns(u, a + n) - Columns(u, a) = Columns(t, z + n) - Columns(t, z)
    <3>1. u \in Seq(Characters) /\ t \in Seq(Characters)
      BY <1>1
    <3> QED
      BY ONLY <2>3, <3>1, ColumnsShift
  <2>5. z + n = n /\ a + n = Len(u)
    BY <1>1, <1>3, <2>1
  <2>6. Columns(t, n) - 0 = Columns(t, n)
    BY <1>1, <1>5, <2>1, SMTT(30)
  <2> QED
    BY <1>3, <1>4, <2>1, <2>4, <2>5, <2>6 DEF StringWidth
<1> QED
  BY <1>1, <1>6, <1>7

\* A box is good with more text after its own.
LEMMA GoodMore ==
  ASSUME NEW s \in Seq(Characters), NEW t \in Seq(Characters), NEW u, u = s \o t,
         NEW x \in BoxSet, BoxGood(s, x)
  PROVE  BoxGood(u, x)
<1>1. /\ u \in Seq(Characters) /\ Len(u) = Len(s) + Len(t)
      /\ \A n \in 0 .. Len(s) : Columns(u, n) = Columns(s, n)
  BY ColumnsMore
<1>2. x.i \in Nat /\ x.j \in Nat /\ Len(s) \in Nat /\ Len(t) \in Nat
  BY DEF BoxSet
<1>3. CASE x.kind = "line"
  <2>1. x.kind # "text"
    <3>1. "text" # "line"
      OBVIOUS
    <3> QED
      BY <1>3, <3>1
  <2> QED
    BY <1>3, <2>1 DEF BoxGood
<1>4. CASE x.kind # "line"
  <2>1. x.i <= x.j /\ x.j <= Len(s)
    BY <1>4 DEF BoxGood
  <2>2. x.i \in 0 .. Len(s) /\ x.j \in 0 .. Len(s) /\ x.j <= Len(u)
    BY <1>1, <1>2, <2>1
  <2>3. Columns(u, x.i) = Columns(s, x.i) /\ Columns(u, x.j) = Columns(s, x.j)
    BY <1>1, <2>2
  <2> QED
    BY <2>1, <2>2, <2>3 DEF BoxGood
<1> QED
  BY <1>3, <1>4

\* Frames with the same elements and width, whatever their texts and caches.
SameElements(f, h) ==
  h \in Frames /\ SameP(f, h) /\ SameL(f, h) /\ SameB(f, h) /\ h.width = f.width
TextMore(f, h, s) == h = [f EXCEPT !.text = @ \o s, !.len = @ + Len(s)]
\* Text added to the buffer changes no element.
LEMMA TextMoreIs ==
  ASSUME NEW f \in Frames, NEW s \in Seq(Characters), NEW h, TextMore(f, h, s)
  PROVE  /\ SameElements(f, h) /\ SameC(f, h)
         /\ h.text = f.text \o s /\ h.len = f.len + Len(s)
<1>1. f.text \in Seq(Characters) /\ f.len \in Int /\ Len(s) \in Nat
  BY DEF Frames
<1>2. PICK t, n : t = f.text \o s /\ n = f.len + Len(s)
  OBVIOUS
<1>3. t \in Seq(Characters) /\ n \in Int
  BY <1>1, <1>2, ConcatProperties
<1>4. h = [f EXCEPT !.text = t, !.len = n]
  BY <1>2 DEF TextMore
<1>5. h \in Frames
  BY <1>3, <1>4 DEF Frames
<1>6. /\ h.text = t /\ h.len = n /\ h.P = f.P /\ h.L = f.L /\ h.B = f.B /\ h.freeP = f.freeP
      /\ h.freeL = f.freeL /\ h.freeB = f.freeB /\ h.firstP = f.firstP /\ h.width = f.width
      /\ h.count = f.count /\ h.last = f.last
  BY <1>4 DEF Frames
<1> QED
  BY <1>2, <1>5, <1>6 DEF SameElements, SameP, SameL, SameB, SameC

\* The lists stay when text is added to the buffer.
LEMMA ElementsKept ==
  ASSUME NEW f \in Frames, NEW h, SameElements(f, h)
  PROVE  /\ \A X : ListP(f, X) => ListP(h, X)
         /\ \A p : Lines(h, p) = Lines(f, p)
         /\ \A l : Boxes(h, l) = Boxes(f, l) /\ LineWidth(h, l) = LineWidth(f,
             l) /\ (Fits(h, l) <=> Fits(f, l))
         /\ Paras(h) = Paras(f)
         /\ \A S : Sum(h, S) = Sum(f, S)
<1>1. /\ h.P = f.P /\ h.L = f.L /\ h.B = f.B /\ h.freeP = f.freeP /\ h.firstP = f.firstP /\ h.width = f.width
      /\ h \in Frames
  BY DEF SameElements, SameP, SameL, SameB
<1>2. SameLinksP(f, h)
  BY <1>1 DEF SameLinksP
<1>3. \A X : ListP(f, X) => ListP(h, X)
  BY <1>2, ListPKept
<1>4. NextL(h) = NextL(f) /\ NextB(h) = NextB(f) /\ NextP(h) = NextP(f)
  BY <1>1 DEF NextL, NextB, NextP, NextIndex
<1>5. \A p : Lines(h, p) = Lines(f, p)
  BY <1>1, <1>4 DEF Lines
<1>6. \A l : Boxes(h, l) = Boxes(f, l)
  BY <1>1, <1>4 DEF Boxes
<1>7. Paras(h) = Paras(f)
  BY <1>1, <1>4 DEF Paras
<1>8. \A b : BoxWidth(h, b) = BoxWidth(f, b)
  BY <1>1 DEF BoxWidth
<1>9. \A s, k : WidthUpTo(h, s, k) = WidthUpTo(f, s, k)
  BY <1>8 DEF WidthUpTo
<1>10. \A l : LineWidth(h, l) = LineWidth(f, l)
  BY <1>6, <1>9 DEF LineWidth
<1>11. \A l : Fits(h, l) <=> Fits(f, l)
  BY <1>1, <1>6, <1>10 DEF Fits
<1>12. \A S : Sum(h, S) = Sum(f, S)
  BY <1>1 DEF Sum
<1> QED
  BY <1>3, <1>5, <1>6, <1>7, <1>10, <1>11, <1>12

\* Lines and boxes stay well formed when text is added to the buffer.
LEMMA MoreKept ==
  ASSUME NEW f, NEW Q, NEW XL, NEW oL, NEW rL, NEW XB, NEW oB, NEW rB,
         LB(f, Q, XL, oL, rL, XB, oB, rB),
         NEW s \in Seq(Characters), NEW h, SameElements(f, h), h.text = f.text \o s
  PROVE  LB(h, Q, XL, oL, rL, XB, oB, rB)
<1>1. /\ f \in Frames /\ Q \subseteq 1 .. Len(f.P) /\ XB \subseteq 1 .. Len(f.B)
      /\ LLayer(f, Q, XL, oL, rL) /\ BLayer(f, XL, XB, oB, rB)
      /\ BoxesGood(f, XB) /\ LineBoxesLast(f, XB, oB)
  BY LBFacts DEF LB
<1>2. /\ h.P = f.P /\ h.L = f.L /\ h.B = f.B /\ h.freeL = f.freeL /\ h.freeB = f.freeB /\ h \in Frames
  BY DEF SameElements, SameP, SameL, SameB
<1>3. LLayer(h, Q, XL, oL, rL)
  <2>1. FirstL(h) = FirstL(f) /\ NextL(h) = NextL(f) /\ PrevL(h) = PrevL(f)
    BY <1>2 DEF FirstL, NextL, PrevL
  <2> QED
    BY <1>1, <1>2, <2>1 DEF LLayer
<1>4. BLayer(h, XL, XB, oB, rB)
  <2>1. FirstB(h) = FirstB(f) /\ NextB(h) = NextB(f) /\ PrevB(h) = PrevB(f)
    BY <1>2 DEF FirstB, NextB, PrevB, NextIndex
  <2> QED
    BY <1>1, <1>2, <2>1 DEF BLayer
<1>5. BoxesGood(h, XB)
  <2> SUFFICES ASSUME NEW x \in XB PROVE BoxGood(h.text, h.B[x])
    BY DEF BoxesGood
  <2>1. PICK b, t, u : b = f.B[x] /\ t = f.text /\ u = h.text
    OBVIOUS
  <2>2. t \in Seq(Characters) /\ b \in BoxSet /\ u = t \o s
    BY <1>1, <2>1 DEF Frames
  <2>3. BoxGood(t, b)
    BY <1>1, <2>1 DEF BoxesGood
  <2>4. BoxGood(u, b)
    BY <2>2, <2>3, GoodMore
  <2> QED
    BY <1>2, <2>1, <2>4
<1>6. LineBoxesLast(h, XB, oB)
  BY <1>1, <1>2 DEF LineBoxesLast
<1> QED
  BY <1>1, <1>2, <1>3, <1>4, <1>5, <1>6 DEF LB

\* Everything is as it should be, but that the last line may be too wide.
Nearly(f, X, XL, oL, rL, XB, oB, rB) ==
  /\ Pool(f, X) /\ LB(f, X, XL, oL, rL, XB, oB, rB) /\ Sum(f, XB) = f.len
  /\ AtEnd(f, X, XL, oL, XB, oB, f.last)
  /\ \A l \in XL : l # f.last.l => Fits(f, l)
  /\ \A p \in X : CountRight(f, p)
  /\ f.count # 0 => f.count = Cardinality(X) + 1
  /\ EndOpen(f, X)
\* The editor can go on at the end of the frame.
Ready(f, X) == Sound(f, X) /\ EndOpen(f, X) /\ Known(f)

\* After a box was appended, the end is known and right.
LEMMA NearlyKnown ==
  ASSUME NEW f, NEW X, NEW XL, NEW oL, NEW rL, NEW XB, NEW oB, NEW rB,
         Pool(f, X), LB(f, X, XL, oL, rL, XB, oB, rB), AtEnd(f, X, XL, oL, XB, oB, f.last)
  PROVE  Known(f) /\ LastRight(f)
<1>1. PICK x : x = f.last
  OBVIOUS
<1>2. AtEnd(f, X, XL, oL, XB, oB, x)
  BY <1>1
<1>3. EndOf(f, x)
  BY <1>2, EndIs
<1>4. x # NoLast
  <2>1. x.p \in 1 .. Len(f.P)
    BY <1>2, LBFacts DEF AtEnd
  <2> QED
    BY <2>1 DEF NoLast
<1>5. Known(f)
  BY <1>1, <1>3, <1>4 DEF Known
<1> QED
  BY <1>5, KnownRight

\* A frame whose last line fits is ready for the next call.
LEMMA NearlyFits ==
  ASSUME NEW f, NEW X, NEW XL, NEW oL, NEW rL, NEW XB, NEW oB, NEW rB,
         Nearly(f, X, XL, oL, rL, XB, oB, rB), Fits(f, f.last.l)
  PROVE  Ready(f, X)
<1>1. /\ Pool(f, X) /\ LB(f, X, XL, oL, rL, XB, oB, rB) /\ AtEnd(f, X, XL, oL, XB, oB, f.last)
      /\ EndOpen(f, X) /\ (f.count # 0 => f.count = Cardinality(X) + 1)
      /\ (\A p \in X : CountRight(f, p))
  BY DEF Nearly
<1>2. Known(f) /\ LastRight(f)
  BY <1>1, NearlyKnown
<1>3. \A l \in XL : Fits(f, l)
  BY DEF Nearly
<1>4. \A p \in X : Fit(f, p)
  BY <1>1, <1>3, FitIs
<1> QED
  BY <1>1, <1>2, <1>4 DEF Ready, Sound

\* The caches of a frame of which paragraph p was laid out.
LEMMA LaidSound ==
  ASSUME NEW f, NEW X, Pool(f, X), NEW p \in X, NEW h, ParaLaid(f, h, X, p), EndOpen(f, X),
         \A q \in X : q # p => Fit(f, q) /\ CountRight(f, q)
  PROVE  /\ Pool(h, X) /\ EndOpen(h, X)
         /\ \A q \in X : Fit(h, q) /\ CountRight(h, q)
<1>1. f \in Frames /\ X \subseteq 1 .. Len(f.P) /\ ListP(f, X) /\ Lay(f, X) /\ f.width > 1 /\ X # {}
  BY PoolFacts DEF Pool
<1>2. /\ Lay(h, X) /\ Elsewhere(f, h, X, p) /\ Fit(h, p) /\ (NoRule(f, p) => NoRule(h, p))
      /\ h \in Frames /\ h.width = f.width /\ h.freeP = f.freeP /\ h.firstP = f.firstP
      /\ Len(h.P) = Len(f.P)
      /\ Recounted(f.P[p], h.P[p], 0) /\ \A q \in 1 .. Len(f.P) : q # p => h.P[q] = f.P[q]
  BY DEF ParaLaid, SameT
<1>3. SameLinksP(f, h)
  BY <1>1, <1>2 DEF SameLinksP, Recounted
<1>4. ListP(h, X)
  BY <1>1, <1>3, ListPKept
<1>5. Pool(h, X)
  BY <1>1, <1>2, <1>4 DEF Pool
<1>6. ASSUME NEW q \in X PROVE Fit(h, q) /\ CountRight(h, q)
  <2>1. CASE q = p
    BY <1>2, <2>1 DEF CountRight, Recounted
  <2>2. CASE q # p
    <3>1. Fit(h, q)
      BY <1>1, <1>2, <2>2, FitElsewhere
    <3>2. Lines(h, q) = Lines(f, q)
      BY <1>2, <2>2 DEF Elsewhere
    <3>3. h.P[q] = f.P[q]
      BY <1>1, <1>2, <2>2
    <3> QED
      BY <2>2, <3>1, <3>2, <3>3 DEF CountRight
  <2> QED
    BY <2>1, <2>2
<1>7. EndOpen(h, X)
  <2> SUFFICES ASSUME NEW q \in X, h.P[q].next = 0 PROVE NoRule(h, q)
    BY DEF EndOpen
  <2>1. f.P[q].next = 0
    BY <1>1, <1>3 DEF SameLinksP
  <2>2. NoRule(f, q)
    BY <2>1 DEF EndOpen
  <2>3. CASE q = p
    BY <1>2, <2>2, <2>3
  <2>4. CASE q # p
    BY <1>2, <2>2, <2>4, NoRuleElsewhere
  <2> QED
    BY <2>3, <2>4
<1> QED
  BY <1>5, <1>6, <1>7

\* The last line was laid out, and the last elements are found again.
Refit(g, h, p) == h = [SetLasts(g) EXCEPT !.P[p].count = 0]
Forgets(g, k, p) == k = [g EXCEPT !.P[p].count = 0]
\* A new layout of the last line changes neither the width nor the count.
LEMMA RefitIs ==
  ASSUME NEW g, NEW X, Pool(g, X), NEW p \in X, NEW h, Refit(g, h, p),
         NEW k, Forgets(g, k, p), k \in Frames
  PROVE  SameData(k, h) /\ h.width = k.width /\ h.count = g.count /\ Known(h)
<1>1. g \in Frames /\ X \subseteq 1 .. Len(g.P) /\ k = [g EXCEPT !.P[p].count = 0]
  BY PoolFacts DEF Forgets
<1>2. PICK m, x : m = SetLasts(g) /\ x = m.last
  OBVIOUS
<1>3. EndOf(g, x) /\ x.p # 0 /\ x \in LastSet
  BY <1>2, LastsFound DEF EndOf
<1>4. m = [g EXCEPT !.last = x]
  <2>1. PICK y : y = [p |-> LastIn(Paras(g)), l |-> LastIn(Lines(g, LastIn(Paras(g)))),
                      b |-> LastIn(Boxes(g, LastIn(Lines(g, LastIn(Paras(g))))))]
    OBVIOUS
  <2>2. m = [g EXCEPT !.last = y]
    BY <1>2, <2>1 DEF SetLasts, LastsIn, LastsAt
  <2>3. x = y
    BY <1>1, <1>2, <2>2 DEF Frames
  <2> QED
    BY <2>2, <2>3
<1>5. h = [k EXCEPT !.last = x]
  <2>1. h = [m EXCEPT !.P[p].count = 0]
    BY <1>2 DEF Refit
  <2>2. PICK s : s = [g.P EXCEPT ![p].count = 0]
    OBVIOUS
  <2>3. k = [g EXCEPT !.P = s]
    BY <1>1, <2>2 DEF Frames
  <2>4. m.P = g.P
    BY <1>1, <1>4 DEF Frames
  <2>5. h = [m EXCEPT !.P = s]
    BY <1>1, <1>4, <2>1, <2>2, <2>4 DEF Frames
  <2> QED
    BY <1>1, <1>4, <2>3, <2>5 DEF Frames
<1>6. SameData(k, h) /\ h.width = k.width /\ h.count = k.count /\ h.last = x
  <2>1. PICK j : j = h
    OBVIOUS
  <2>2. j = [k EXCEPT !.last = x]
    BY <1>5, <2>1
  <2>3. SameData(k, j) /\ j.width = k.width /\ j.count = k.count /\ j.last = x
    BY ONLY <1>3, <2>2, k \in Frames, SetLastIs
  <2> QED
    BY <2>1, <2>3
<1>7. k.count = g.count
  BY <1>1 DEF Frames
<1>8. EndOf(h, x)
  <2>1. ParaCounted(g, k, p, 0)
    <3>1. PICK z \in Nat : z = 0
      OBVIOUS
    <3>2. k = [g EXCEPT !.P[p].count = z]
      BY <1>1, <3>1
    <3>3. p \in 1 .. Len(g.P)
      BY <1>1
    <3>4. ParaCounted(g, k, p, z)
      BY ONLY <1>1, <3>1, <3>2, <3>3, SetCountIs
    <3> QED
      BY <3>1, <3>4
  <2>2. /\ SameL(g, k) /\ SameB(g, k) /\ SameT(g,
           k) /\ k.freeP = g.freeP /\ k.firstP = g.firstP /\ Len(k.P) = Len(g.P)
        /\ Recounted(g.P[p], k.P[p], 0) /\ \A q \in 1 .. Len(g.P) : q # p => k.P[q] = g.P[q]
    BY <2>1 DEF ParaCounted, OnlyP
  <2>3. SameLinksP(g, k)
    BY <1>1, <2>2 DEF SameLinksP, Recounted
  <2>4. Paras(k) = Paras(g)
    BY <1>1, <2>3, ParasKept
  <2>5. SameLay(g, k, X)
    BY <1>1, <2>2 DEF SameLay, Recounted
  <2>6. (\A q \in X : Lines(k, q) = Lines(g, q)) /\ \A l : LineKept(g, k, l)
    BY <2>5, SameLines
  <2>7. x.p \in X
    BY <1>3, LastPara DEF EndOf
  <2>8. EndOf(k, x)
    BY <1>3, <2>4, <2>6, <2>7 DEF EndOf, LineKept
  <2>9. Paras(h) = Paras(k) /\ (\A q : Lines(h, q) = Lines(k, q)) /\ \A l : Boxes(h, l) = Boxes(k,
      l)
    BY <1>6, DataKept
  <2> QED
    BY <2>8, <2>9 DEF EndOf
<1>9. x # NoLast
  BY <1>3 DEF NoLast
<1> QED
  BY <1>6, <1>7, <1>8, <1>9 DEF Known

\* The last line is broken when it has become too wide.
LEMMA FittedIs ==
  ASSUME NEW f, NEW X, NEW XL, NEW oL, NEW rL, NEW XB, NEW oB, NEW rB,
         Nearly(f, X, XL, oL, rL, XB, oB, rB), NEW h, h = Fitted(f)
  PROVE  Ready(h, X)
<1>1. /\ Pool(f, X) /\ LB(f, X, XL, oL, rL, XB, oB, rB) /\ Sum(f, XB) = f.len
      /\ AtEnd(f, X, XL, oL, XB, oB, f.last)
      /\ EndOpen(f, X) /\ (f.count # 0 => f.count = Cardinality(X) + 1)
      /\ (\A l \in XL : l # f.last.l => Fits(f, l)) /\ (\A p \in X : CountRight(f, p))
  BY DEF Nearly
<1>2. PICK p, l : p = f.last.p /\ l = f.last.l
  OBVIOUS
<1>3. p \in X /\ f.P[p].next = 0 /\ l \in XL /\ oL[l] = p /\ f.L[l].next = 0
  BY <1>1, <1>2 DEF AtEnd
<1>4. CASE LineWidth(f, l) <= f.width
  <2>1. h = f
    BY <1>2, <1>4 DEF Fitted
  <2>2. Fits(f, l)
    <3>1. f \in Frames /\ BLayer(f, XL, XB, oB, rB) /\ XL \subseteq 1 .. Len(f.L)
      BY <1>1, LBFacts
    <3>2. f.width \in Nat
      BY <3>1 DEF Frames
    <3>3. LineWidth(f, l) \in Int
      <4>1. PICK bs : bs = Boxes(f, l)
        OBVIOUS
      <4>2. LineBoxes(bs, f, XB, oB, rB, l)
        BY <1>1, <1>3, <4>1, LineBoxesAre
      <4>3. Len(bs) \in Nat /\ DOMAIN bs = 1 .. Len(bs) /\ \A k \in 1 .. Len(bs) : bs[k] \in 1 .. Len(f.B)
        BY <4>2 DEF LineBoxes
      <4>4. \A k \in 0 .. Len(bs) : WidthUpTo(f, bs, k) \in Int
        BY ONLY <3>1, <4>3, WidthsAre
      <4> QED
        BY <4>1, <4>3, <4>4 DEF LineWidth
    <3> QED
      BY <1>4, <3>2, <3>3 DEF Fits
  <2> QED
    BY <1>2, <2>1, <2>2, NearlyFits
<1>5. CASE ~(LineWidth(f, l) <= f.width)
  <2>1. PICK g, k : g = LayoutOneLine(f, l) /\ k = [g EXCEPT !.P[p].count = 0]
    OBVIOUS
  <2>2. Refit(g, h, p)
    BY <1>2, <1>5, <2>1 DEF Fitted, Refit
  <2>3. f \in Frames /\ X \subseteq 1 .. Len(f.P) /\ f.width > 1 /\ ListP(f, X) /\ X # {}
    BY <1>1, PoolFacts DEF Pool
  <2>4. OthersFit(f, XL, oL, p, l)
    BY <1>1, <1>2 DEF OthersFit
  <2>5. Laid(f, X, p, 0, g, 0)
    <3>1. p = oL[l]
      BY <1>3
    <3> QED
      BY ONLY <1>1, <1>3, <2>1, <2>3, <2>4, <3>1, LayoutOneLineIs
  <2>6. ParaLaid(f, k, X, p)
    BY ONLY <1>3, <2>1, <2>3, <2>5, LaidForgets
  <2>7. Pool(g, X)
    <3>1. PICK XL2, oL2, rL2, XB2, oB2, rB2 : Laying(f, X, p, 0, g, 0, XL2, oL2, rL2, XB2, oB2, rB2)
      BY <2>5 DEF Laid
    <3>2. LB(g, X, XL2, oL2, rL2, XB2, oB2, rB2) /\ Sum(g, XB2) = g.len /\ SameP(f, g) /\ SameT(f,
        g)
      BY <3>1 DEF Laying
    <3>3. Lay(g, X)
      BY <3>2 DEF Lay
    <3>4. g \in Frames
      BY <3>2, LBFacts
    <3>5. SameLinksP(f, g)
      BY <3>2, <3>4 DEF SameP, SameLinksP
    <3>6. ListP(g, X)
      BY <2>3, <3>5, ListPKept
    <3> QED
      BY <2>3, <3>2, <3>3, <3>6 DEF Pool, SameT
  <2>8. k \in Frames /\ SameC(f, k)
    BY <2>6 DEF ParaLaid
  <2>9. SameData(k, h) /\ h.width = k.width /\ h.count = g.count /\ Known(h)
    <3>1. Forgets(g, k, p)
      BY <2>1 DEF Forgets
    <3> QED
      BY ONLY <1>3, <2>2, <2>7, <2>8, <3>1, RefitIs
  <2>10. \A q \in X : q # p => Fit(f, q) /\ CountRight(f, q)
    <3> SUFFICES ASSUME NEW q \in X, q # p PROVE Fit(f, q)
      BY <1>1
    <3>1. \A x \in XL : oL[x] = q => Fits(f, x)
      BY <1>1, <1>2, <1>3
    <3> QED
      BY <1>1, <3>1, FitIs
  <2>11. Pool(k, X) /\ EndOpen(k, X) /\ \A q \in X : Fit(k, q) /\ CountRight(k, q)
    BY ONLY <1>1, <1>3, <2>6, <2>10, LaidSound
  <2>12. Pool(h, X) /\ EndOpen(h, X) /\ \A q \in X : Fit(h, q) /\ CountRight(h, q)
    BY ONLY <2>9, <2>11, SoundKept
  <2>13. g.count = k.count
    <3>1. g \in Frames
      BY <2>7, PoolFacts
    <3> QED
      BY <2>1, <3>1 DEF Frames
  <2>14. h.count # 0 => h.count = Cardinality(X) + 1
    BY <1>1, <2>8, <2>9, <2>13 DEF SameC
  <2>15. LastRight(h)
    BY <2>9, <2>12, KnownRight
  <2> QED
    BY <2>9, <2>12, <2>14, <2>15 DEF Ready, Sound
<1> QED
  BY <1>4, <1>5

\* The last box of a frame whose end is open is no line box.
LEMMA OpenEnd ==
  ASSUME NEW f, NEW X, EndOpen(f, X), NEW XL, NEW oL, NEW rL, NEW XB, NEW oB, NEW rB,
         LB(f, X, XL, oL, rL, XB, oB, rB), NEW x, AtEnd(f, X, XL, oL, XB, oB, x)
  PROVE  f.B[x.b].kind # "line"
<1>1. x.p \in X /\ f.P[x.p].next = 0 /\ oL[x.l] = x.p /\ x.b \in XB /\ oB[x.b] = x.l
  BY DEF AtEnd
<1>2. NoRule(f, x.p)
  BY <1>1 DEF EndOpen
<1>3. PICK p : p = x.p
  OBVIOUS
<1>4. p \in X /\ NoRule(f, p)
  BY <1>1, <1>2, <1>3
<1>5. Unruled(f, oL, XB, oB, p)
  BY <1>4, NoRuleIs
<1> QED
  BY <1>1, <1>3, <1>5 DEF Unruled

\* A frame after a box went to its end.
AppendedTo(f, h, X, XL, oL, rL, XB2, oB2, rB2) ==
  /\ Pool(h, X) /\ LB(h, X, XL, oL, rL, XB2, oB2, rB2) /\ Sum(h, XB2) = h.len
  /\ AtEnd(h, X, XL, oL, XB2, oB2, h.last)
  /\ \A l \in XL : l # f.last.l /\ Fits(f, l) => Fits(h, l)
  /\ \A p \in X : CountRight(f, p) => CountRight(h, p)
\* A box appended leaves a pool of the same paragraphs.
LEMMA AppendedPool ==
  ASSUME NEW f, NEW X, ListP(f, X), X # {}, f.width > 1, NEW XL, NEW oL, NEW rL, NEW XB, NEW oB,
         NEW rB,
         LB(f, X, XL, oL, rL, XB, oB, rB),
         AtEnd(f, X, XL, oL, XB, oB, f.last), NEW box, BoxLen(box) \in Int,
         NEW b, b = f.last.b, Sum(f, XB) + BoxLen(box) = f.len,
         NEW h, NEW e, NEW XB2, NEW oB2, NEW rB2,
         BoxAppended(f, h, X, XL, oL, rL, XB, oB, rB, b, box, e, XB2, oB2, rB2)
  PROVE  AppendedTo(f, h, X, XL, oL, rL, XB2, oB2, rB2)
<1>1. /\ LB(h, X, XL, oL, rL, XB2, oB2, rB2)
      /\ SameP(f, h) /\ SameL(f, h) /\ SameT(f, h)
      /\ Sum(h, XB2) = Sum(f, XB) + BoxLen(box)
      /\ h.last \in LastSet /\ h.last.p = f.last.p /\ h.last.l = f.last.l /\ h.last.b = e
      /\ e \in XB2 /\ oB2[e] = oB[b] /\ NextIndex(h, e) = 0
      /\ \A l \in XL : l # oB[b] => LineAlike(f, h, XB, oB, rB, XB2, oB2, rB2, l)
  BY DEF BoxAppended
<1>2. f \in Frames /\ h \in Frames /\ ListP(f,
    X) /\ X # {} /\ f.width > 1 /\ X \subseteq 1 .. Len(f.P)
  BY <1>1, LBFacts
<1>3. /\ f.last.p \in X /\ f.P[f.last.p].next = 0
      /\ f.last.l \in XL /\ oL[f.last.l] = f.last.p /\ f.L[f.last.l].next = 0
      /\ b \in XB /\ oB[b] = f.last.l
  BY DEF AtEnd
<1>4. Sum(h, XB2) = h.len
  BY <1>1 DEF SameT
<1>5. Lay(h, X)
  BY <1>1, <1>4 DEF Lay
<1>6. SameLinksP(f, h)
  BY <1>1, <1>2 DEF SameP, SameLinksP
<1>7. ListP(h, X)
  BY <1>2, <1>6, ListPKept
<1>8. Pool(h, X)
  BY <1>1, <1>2, <1>5, <1>7 DEF Pool, SameT
<1>9. AtEnd(h, X, XL, oL, XB2, oB2, h.last)
  BY <1>1, <1>3 DEF AtEnd, SameP, SameL
<1>10. ASSUME NEW l \in XL, l # f.last.l, Fits(f, l) PROVE Fits(h, l)
  <2>1. LineAlike(f, h, XB, oB, rB, XB2, oB2, rB2, l)
    BY <1>1, <1>3, <1>10
  <2>2. LineKept(f, h, l)
    BY ONLY LB(f, X, XL, oL, rL, XB, oB, rB), <1>1, <1>10, <2>1, LineAlikeKept
  <2>3. BLayer(f, XL, XB, oB, rB) /\ XL \subseteq 1 .. Len(f.L)
    BY LBFacts
  <2>4. h.width = f.width
    BY <1>1 DEF SameT
  <2> QED
    BY ONLY <1>2, <1>10, <2>2, <2>3, <2>4, FitsKept
<1>11. ASSUME NEW p \in X, CountRight(f, p) PROVE CountRight(h, p)
  <2>1. h.P = f.P /\ h.L = f.L
    BY <1>1 DEF SameP, SameL
  <2>2. NextL(h) = NextL(f)
    BY <2>1 DEF NextL
  <2>3. Lines(h, p) = Lines(f, p)
    BY <2>1, <2>2 DEF Lines
  <2> QED
    BY <1>11, <2>1, <2>3 DEF CountRight
<1> QED
  BY <1>1, <1>4, <1>8, <1>9, <1>10, <1>11 DEF AppendedTo

\* What Ready says of the elements.
LEMMA ReadyFacts ==
  ASSUME NEW f, NEW X, Ready(f, X)
  PROVE  /\ Pool(f, X) /\ EndOpen(f, X) /\ Known(f) /\ f \in Frames /\ f.last \in LastSet
         /\ (\A p \in X : Fit(f, p) /\ CountRight(f, p)) /\ (f.count # 0 =>
             f.count = Cardinality(X) + 1)
         /\ \E XL, oL, rL, XB, oB, rB :
              /\ LB(f, X, XL, oL, rL, XB, oB, rB) /\ Sum(f, XB) = f.len
              /\ AtEnd(f, X, XL, oL, XB, oB, f.last) /\ \A l \in XL : Fits(f, l)
<1>1. /\ Pool(f, X) /\ EndOpen(f, X) /\ Known(f)
      /\ (\A p \in X : Fit(f, p) /\ CountRight(f, p)) /\ (f.count # 0 =>
          f.count = Cardinality(X) + 1)
  BY DEF Ready, Sound
<1>2. f \in Frames /\ EndOf(f, f.last)
  BY <1>1, PoolFacts DEF Known
<1>3. PICK XL, oL, rL, XB, oB, rB : LB(f, X, XL, oL, rL, XB, oB, rB) /\ Sum(f, XB) = f.len
  BY <1>1 DEF Pool, Lay
<1>4. PICK x : x = f.last
  OBVIOUS
<1>5. AtEnd(f, X, XL, oL, XB, oB, x)
  BY <1>1, <1>2, <1>3, <1>4, EndIs
<1>6. ASSUME NEW l \in XL PROVE Fits(f, l)
  <2>1. PICK p : p = oL[l]
    OBVIOUS
  <2>2. p \in X
    BY <1>3, <2>1, LBFacts
  <2>3. Fit(f, p)
    BY <1>1, <2>2
  <2>4. \A z \in XL : oL[z] = p => Fits(f, z)
    BY <1>3, <2>2, <2>3, FitIs
  <2> QED
    BY <2>1, <2>4
<1>7. /\ LB(f, X, XL, oL, rL, XB, oB, rB) /\ Sum(f, XB) = f.len
      /\ AtEnd(f, X, XL, oL, XB, oB, f.last) /\ \A l \in XL : Fits(f, l)
  BY <1>3, <1>4, <1>5, <1>6
<1>8. f.last \in LastSet
  BY <1>2 DEF Frames
<1> QED
  BY <1>1, <1>2, <1>7, <1>8

\* A box of text s at i, and what it must be for its kind.
TextBox(box, kind, s, w, i) ==
  box = [NoBox EXCEPT !.kind = kind, !.i = i, !.j = i + Len(s), !.w = w, !.color = color]
TextKind(kind, s, w) ==
  kind \in Kinds /\ kind # "line" /\ w \in Int /\ (kind = "text" => w = StringWidth(s))
MoreThan(t, s, u, i) == t \in Seq(Characters) /\ u = t \o s /\ i = Len(t)
\* The box for the text at the end of the buffer.
LEMMA TextBoxIs ==
  ASSUME NEW kind, NEW s \in Seq(Characters), NEW w, TextKind(kind, s, w), color \in Colors,
         NEW t, NEW u, NEW i, MoreThan(t, s, u, i), NEW box, TextBox(box, kind, s, w, i)
  PROVE  /\ box \in BoxSet /\ box.next = 0 /\ BoxGood(u, box) /\ BoxLen(box) = Len(s)
         /\ box.kind = kind /\ kind # "line"
<1>1. /\ i \in Nat /\ Len(s) \in Nat /\ i + Len(s) \in Nat
      /\ t \in Seq(Characters) /\ u = t \o s /\ i = Len(t)
  BY DEF MoreThan
<1>2. /\ box.kind = kind /\ box.i = i /\ box.j = i + Len(s) /\ box.w = w /\ box.color = color
      /\ box.next = 0 /\ box.prev = 0
  BY DEF TextBox, NoBox
<1>3. box \in BoxSet
  <2>1. box = [kind |-> kind, i |-> i, j |-> i + Len(s), w |-> w, color |-> color, next |-> 0,
      prev |-> 0]
    BY DEF TextBox, NoBox
  <2> QED
    BY <1>1, <2>1 DEF BoxSet, TextKind
<1>4. kind # "line"
  BY DEF TextKind
<1>5. BoxLen(box) = Len(s)
  <2>1. BoxLen(box) = box.j - box.i
    BY <1>2, <1>4 DEF BoxLen
  <2>2. box.j - box.i = (i + Len(s)) - i
    BY <1>2, Zenon
  <2> QED
    BY <1>1, <2>1, <2>2
<1>6. Len(u) = i + Len(s) /\ Columns(u, Len(u)) - Columns(u, i) = StringWidth(s)
  BY <1>1, ColumnsMore
<1>7. kind = "text" => w = StringWidth(s)
  BY DEF TextKind
<1>8. BoxGood(u, box)
  <2>1. box.kind # "line" => box.i <= box.j /\ box.j <= Len(u)
    BY <1>1, <1>2, <1>6
  <2>2. box.kind = "text" => box.w = Columns(u, box.j) - Columns(u, box.i)
    BY <1>2, <1>6, <1>7
  <2> QED
    BY <2>1, <2>2 DEF BoxGood
<1> QED
  BY <1>2, <1>3, <1>4, <1>5, <1>8

\* Appending leaves a frame that is sound but for the width of its last line.
LEMMA AppendNearly ==
  ASSUME NEW f, NEW X, Ready(f, X), NEW kind, NEW s \in Seq(Characters), NEW w,
         TextKind(kind, s, w), color \in Colors,
         NEW m, TextMore(f, m, s), NEW i, i = Len(f.text), NEW box, TextBox(box, kind, s, w, i),
         NEW h, h = AppendBox(m, box)
  PROVE  \E XL, oL, rL, XB, oB, rB : Nearly(h, X, XL, oL, rL, XB, oB, rB)
<1>1. /\ Pool(f, X) /\ EndOpen(f, X) /\ f \in Frames /\ f.last \in LastSet
      /\ (\A p \in X : Fit(f, p) /\ CountRight(f, p)) /\ (f.count # 0 =>
          f.count = Cardinality(X) + 1)
  BY ReadyFacts
<1>2. PICK XL, oL, rL, XB, oB, rB :
          /\ LB(f, X, XL, oL, rL, XB, oB, rB) /\ Sum(f, XB) = f.len
          /\ AtEnd(f, X, XL, oL, XB, oB, f.last) /\ \A l \in XL : Fits(f, l)
  BY ReadyFacts
<1>3. SameElements(f, m) /\ SameC(f, m) /\ m.text = f.text \o s /\ m.len = f.len + Len(s)
  BY <1>1, TextMoreIs
<1>4. /\ m \in Frames /\ m.P = f.P /\ m.L = f.L /\ m.B = f.B /\ m.width = f.width
      /\ m.count = f.count /\ m.last = f.last
  BY <1>3 DEF SameElements, SameP, SameL, SameB, SameC
<1>5. LB(m, X, XL, oL, rL, XB, oB, rB)
  BY <1>2, <1>3, MoreKept
<1>6. /\ ListP(m, X) /\ (\A p : Lines(m, p) = Lines(f, p))
      /\ (\A l : Boxes(m, l) = Boxes(f, l) /\ (Fits(m, l) <=> Fits(f, l)))
      /\ Sum(m, XB) = Sum(f, XB)
  BY <1>1, <1>3, ElementsKept DEF Pool
<1>7. PICK b : b = m.last.b
  OBVIOUS
<1>8. AtEnd(m, X, XL, oL, XB, oB, m.last)
  BY <1>2, <1>4 DEF AtEnd, NextIndex
<1>9. b \in XB /\ NextIndex(m,
    b) = 0 /\ oB[b] = f.last.l /\ oL[f.last.l] = f.last.p /\ f.P[f.last.p].next = 0 /\ f.last.p \in X
  BY <1>4, <1>7, <1>8 DEF AtEnd
<1>10. m.B[b].kind # "line"
  <2>1. PICK x : x = f.last
    OBVIOUS
  <2>2. f.B[x.b].kind # "line"
    BY <1>1, <1>2, <2>1, OpenEnd
  <2> QED
    BY <1>4, <1>7, <2>1, <2>2
<1>11. PICK t, u : t = f.text /\ u = m.text
  OBVIOUS
<1>12. MoreThan(t, s, u, i)
  BY <1>1, <1>3, <1>11 DEF Frames, MoreThan
<1>13. /\ box \in BoxSet /\ box.next = 0 /\ BoxGood(u, box) /\ BoxLen(box) = Len(s)
       /\ box.kind = kind /\ kind # "line"
  BY ONLY <1>12, TextKind(kind, s, w), s \in Seq(Characters), color \in Colors,
      TextBox(box, kind, s, w, i), TextBoxIs
<1>14. PICK e, XB2, oB2, rB2 : BoxAppended(m, h, X, XL, oL, rL, XB, oB, rB, b, box, e, XB2, oB2,
    rB2)
  <2>1. /\ b \in XB /\ m.last \in LastSet /\ m.last.b = b /\ NextIndex(m,
           b) = 0 /\ m.B[b].kind # "line"
        /\ box \in BoxSet /\ box.next = 0 /\ BoxGood(m.text, box) /\ box.kind # "line"
    BY <1>1, <1>4, <1>7, <1>9, <1>10, <1>11, <1>13
  <2> QED
    BY ONLY <1>5, <2>1, h = AppendBox(m, box), AppendBoxIs
<1>15. Sum(m, XB) + BoxLen(box) = m.len /\ BoxLen(box) \in Int
  BY <1>2, <1>3, <1>6, <1>13
<1>17. ListP(m, X) /\ X # {} /\ m.width > 1
  BY <1>1, <1>4, <1>6 DEF Pool
<1>18. /\ Pool(h, X) /\ LB(h, X, XL, oL, rL, XB2, oB2, rB2) /\ Sum(h, XB2) = h.len
       /\ AtEnd(h, X, XL, oL, XB2, oB2, h.last)
       /\ \A l \in XL : l # m.last.l /\ Fits(m, l) => Fits(h, l)
       /\ \A p \in X : CountRight(m, p) => CountRight(h, p)
  <2>1. AppendedTo(m, h, X, XL, oL, rL, XB2, oB2, rB2)
    BY ONLY <1>5, <1>7, <1>8, <1>14, <1>15, <1>17, AppendedPool
  <2> QED
    BY <2>1 DEF AppendedTo
<1>19. h.last.l = m.last.l /\ h.count = m.count /\ SameP(m, h)
  BY <1>14 DEF BoxAppended
<1>20. \A p \in X : CountRight(h, p)
  BY <1>1, <1>4, <1>6, <1>18 DEF CountRight
<1>21. EndOpen(h, X)
  <2> SUFFICES ASSUME NEW q \in X, h.P[q].next = 0 PROVE NoRule(h, q)
    BY DEF EndOpen
  <2>1. f.P[q].next = 0
    BY <1>4, <1>19 DEF SameP
  <2>2. NoRule(f, q)
    BY <1>1, <2>1 DEF EndOpen
  <2>3. Unruled(f, oL, XB, oB, q)
    BY <1>2, <2>2, NoRuleIs
  <2>4. Unruled(m, oL, XB, oB, q)
    BY <1>4, <2>3 DEF Unruled
  <2>5. Unruled(h, oL, XB2, oB2, q)
    BY <1>13, <1>14, <2>4 DEF BoxAppended
  <2> QED
    BY <1>18, <2>5, NoRuleIs
<1>22. (\A l \in XL : l # h.last.l => Fits(h, l)) /\ (h.count # 0 => h.count = Cardinality(X) + 1)
  BY <1>1, <1>2, <1>4, <1>6, <1>18, <1>19
<1>23. Nearly(h, X, XL, oL, rL, XB2, oB2, rB2)
  BY <1>18, <1>20, <1>21, <1>22 DEF Nearly
<1> QED
  BY <1>23

\* Appending and fitting the last line leave a frame ready for the next call.
LEMMA AppendAtIs ==
  ASSUME NEW f, NEW X, Ready(f, X), NEW kind, NEW s \in Seq(Characters), NEW w,
         TextKind(kind, s, w), color \in Colors,
         NEW i, i = Len(f.text), NEW h, h = AppendAt(f, kind, s, w, i)
  PROVE  Ready(h, X)
<1>1. PICK m, box, g : /\ m = [f EXCEPT !.text = @ \o s, !.len = @ + Len(s)]
                       /\ box = [NoBox EXCEPT !.kind = kind, !.i = i, !.j = i + Len(s), !.w = w,
                           !.color = color]
                       /\ g = AppendBox(m, box)
  OBVIOUS
<1>2. h = Fitted(g)
  BY <1>1 DEF AppendAt
<1>3. TextMore(f, m, s) /\ TextBox(box, kind, s, w, i)
  BY <1>1 DEF TextMore, TextBox
<1>4. g = AppendBox(m, box)
  BY <1>1
<1>5. PICK XL, oL, rL, XB, oB, rB : Nearly(g, X, XL, oL, rL, XB, oB, rB)
  BY ONLY Ready(f, X), s \in Seq(Characters), TextKind(kind, s, w), color \in Colors,
      i = Len(f.text), <1>3, <1>4, AppendNearly
<1> QED
  BY ONLY <1>2, <1>5, FittedIs

\* A frame is sound whether or not the editor knows the last elements.
Fine(f, X) == Sound(f, X) /\ EndOpen(f, X)
\* A frame is ready once its end is known (editor.go, the start of a call).
LEMMA ValidReady ==
  ASSUME NEW f, NEW X, Fine(f, X), NEW h, h = Valid(f)
  PROVE  Ready(h, X)
BY ValidIs DEF Fine, Ready

\* appendText (editor.go) keeps the frame ready.
LEMMA AppendTextIs ==
  ASSUME NEW f, NEW X, Fine(f, X), NEW kind, NEW s \in Seq(Characters), NEW w,
         TextKind(kind, s, w), color \in Colors,
         NEW h, h = AppendText(f, kind, s, w)
  PROVE  Ready(h, X)
<1>1. PICK g, i : g = Valid(f) /\ i = Len(f.text)
  OBVIOUS
<1>2. Ready(g, X)
  BY <1>1, ValidReady
<1>3. g.text = f.text
  <2>1. SameData(f, g)
    BY <1>1, ValidIs DEF Fine
  <2> QED
    BY <2>1 DEF SameData
<1>4. h = AppendAt(g, kind, s, w, i)
  BY <1>1 DEF AppendText
<1>5. i = Len(g.text)
  BY <1>1, <1>3
<1> QED
  BY ONLY <1>2, <1>4, <1>5, s \in Seq(Characters), TextKind(kind, s, w), color \in Colors,
      AppendAtIs

\* A line y is taken for a paragraph p that had none.
LStarts(f, h, O, p, y) ==
  /\ y = Slot(f.freeL, f.L) /\ p \notin O
  /\ Len(h.L) = (IF y <= Len(f.L) THEN Len(f.L) ELSE y)
  /\ h.freeL = (IF f.freeL = 0 THEN 0 ELSE f.L[f.freeL].next)
  /\ h.L[y].next = 0 /\ h.L[y].prev = 0
  /\ \A k \in 1 .. Len(f.L) : k # y => h.L[k] = f.L[k]
  /\ p \in 1 .. Len(h.P) /\ O \subseteq 1 .. Len(h.P)
  /\ h.P[p].firstL = y /\ \A o \in O : h.P[o].firstL = f.P[o].firstL

LStarted(f, h, O, X, own, rank, p, y, O2, X2, own2, rank2) ==
  /\ LLayer(h, O2, X2, own2, rank2)
  /\ y \notin X /\ y # 0
  /\ X2 = X \cup {y} /\ O2 = O \cup {p}
  /\ own2 \in [X2 -> O2] /\ own2[y] = p /\ \A x \in X : own2[x] = own[x]
  /\ rank2 \in [X2 -> Nat \ {0}] /\ rank2[y] = 1 /\ \A x \in X : rank2[x] = rank[x]

\* A new paragraph has one new line.
LEMMA LOwner ==
  ASSUME NEW f \in Frames, NEW O, NEW X, NEW own, NEW rank, LLayer(f, O, X, own, rank),
         O \subseteq 1 .. Len(f.P), NEW h \in Frames, NEW p, NEW y, LStarts(f, h, O, p, y)
  PROVE  \E O2, X2, own2, rank2 : LStarted(f, h, O, X, own, rank, p, y, O2, X2, own2, rank2)
<1>1. /\ X \subseteq 1 .. Len(f.L) /\ Len(f.L) \in Nat /\ f.freeL \in 0 .. Len(f.L)
      /\ own \in [X -> O] /\ rank \in [X -> Nat \ {0}]
      /\ y = SlotAt(f.freeL, Len(f.L)) /\ y \notin X
  BY LLayerFacts DEF Slot, SlotAt, LStarts
<1>2. y \in 1 .. Len(f.L) + 1 /\ y # 0
  BY <1>1 DEF SlotAt
<1>3. PICK m : m = Len(h.L)
  OBVIOUS
<1>4. m \in Nat /\ Len(f.L) <= m /\ y <= m /\ y \in 1 .. m
  <2>1. m = IF y <= Len(f.L) THEN Len(f.L) ELSE y
    BY <1>3 DEF LStarts
  <2> QED
    BY <1>1, <1>2, <2>1
<1>5. PICK N, top : N = Len(f.L) /\ top = f.freeL
  OBVIOUS
<1>6. PICK next, prev, first : next = NextL(f) /\ prev = PrevL(f) /\ first = FirstL(f)
  OBVIOUS
<1>7. \A x \in 1 .. N : next[x] = f.L[x].next /\ prev[x] = f.L[x].prev
  BY <1>5, <1>6, LinksL
<1>8. \A x \in 1 .. m : NextL(h)[x] = h.L[x].next /\ PrevL(h)[x] = h.L[x].prev
  BY <1>3, LinksL
<1>9. \A x \in 1 .. N : x # y => h.L[x].next = f.L[x].next /\ h.L[x].prev = f.L[x].prev
  BY <1>5 DEF LStarts
<1>10. h.L[y].next = 0 /\ h.L[y].prev = 0
  BY DEF LStarts
<1>11. FirstL(h)[p] = y /\ \A o \in O : FirstL(h)[o] = first[o]
  <2>1. \A o \in 1 .. Len(h.P) : FirstL(h)[o] = h.P[o].firstL
    BY LinksL
  <2>2. \A o \in 1 .. Len(f.P) : first[o] = f.P[o].firstL
    BY <1>6, LinksL
  <2> QED
    BY <2>1, <2>2 DEF LStarts
<1>12. PICK X2, O2 : X2 = X \cup {y} /\ O2 = O \cup {p}
  OBVIOUS
<1>13. PICK own2 : own2 = [x \in X2 |-> IF x = y THEN p ELSE own[x]]
  OBVIOUS
<1>14. PICK rank2 : rank2 = [x \in X2 |-> IF x = y THEN 1 ELSE rank[x]]
  OBVIOUS
<1>15. own2 \in [X2 -> O2] /\ own2[y] = p /\ \A x \in X : own2[x] = own[x]
  BY <1>1, <1>12, <1>13
<1>16. rank2 \in [X2 -> Nat \ {0}] /\ rank2[y] = 1 /\ \A x \in X : rank2[x] = rank[x]
  <2>1. rank2[y] = 1 /\ \A x \in X : rank2[x] = rank[x]
    BY <1>1, <1>12, <1>14
  <2>2. \A x \in X2 : rank2[x] \in Nat \ {0}
    BY <1>1, <1>12, <2>1
  <2>3. rank2 = [x \in X2 |-> rank2[x]]
    BY <1>14
  <2> QED
    BY <2>1, <2>2, <2>3
<1>17. PICK top2 : top2 = h.freeL
  OBVIOUS
<1>18. top2 = IF top = 0 THEN 0 ELSE next[top]
  BY <1>1, <1>5, <1>7, <1>17 DEF LStarts
<1>19. LayerStarts(N, X, O, own, rank, first, next, prev, top, p, y, m, top2, FirstL(h), NextL(h),
    PrevL(h), X2, O2, own2, rank2)
  <2>1. NextL(h)[y] = 0 /\ PrevL(h)[y] = 0
    BY <1>4, <1>8, <1>10
  <2>2. \A x \in 1 .. N : x # y => NextL(h)[x] = next[x] /\ PrevL(h)[x] = prev[x]
    BY <1>4, <1>5, <1>7, <1>8, <1>9
  <2>3. p \notin O /\ y = SlotAt(top, N) /\ m \in Nat /\ N <= m /\ y <= m
    BY <1>1, <1>4, <1>5 DEF LStarts
  <2> QED
    BY <1>11, <1>12, <1>15, <1>16, <1>18, <2>1, <2>2, <2>3 DEF LayerStarts
<1>20. LLayer(h, O2, X2, own2, rank2)
  <2>1. Layer(X, O, own, rank, first, next, prev, top, N)
    BY <1>5, <1>6 DEF LLayer
  <2>2. Layer(X2, O2, own2, rank2, FirstL(h), NextL(h), PrevL(h), top2, m)
    BY <1>19, <2>1, LayerOwner
  <2> QED
    BY <1>3, <1>17, <2>2 DEF LLayer
<1>21. LStarted(f, h, O, X, own, rank, p, y, O2, X2, own2, rank2)
  BY <1>1, <1>2, <1>12, <1>15, <1>16, <1>20 DEF LStarted
<1> QED
  BY <1>21

(***************************************************************************)
(* A new paragraph with an empty line.                                     *)
(***************************************************************************)
Begins(f, h, p, l, b) ==
  /\ h \in Frames /\ l = Slot(f.freeL, f.L) /\ b = Slot(f.freeB, f.B)
  /\ Len(h.L) = (IF l <= Len(f.L) THEN Len(f.L) ELSE l)
  /\ h.freeL = (IF f.freeL = 0 THEN 0 ELSE f.L[f.freeL].next)
  /\ h.L[l].next = 0 /\ h.L[l].prev = 0 /\ h.L[l].firstB = b
  /\ \A k \in 1 .. Len(f.L) : k # l => h.L[k] = f.L[k]
  /\ Len(h.B) = (IF b <= Len(f.B) THEN Len(f.B) ELSE b)
  /\ h.freeB = (IF f.freeB = 0 THEN 0 ELSE NextIndex(f, f.freeB))
  /\ h.B[b] = NoBox
  /\ \A k \in 1 .. Len(f.B) : k # b => h.B[k] = f.B[k]
  /\ SameT(f, h)
  /\ Len(f.P) <= Len(h.P) /\ p \in 1 .. Len(h.P) /\ h.P[p].firstL = l
  /\ \A k \in 1 .. Len(f.P) : k # p => h.P[k].firstL = f.P[k].firstL

\* The elements of the new paragraph p are l and b, the others have their places.
BegunAt(f, h, Q, p, l, b, XL, oL, rL, XB, oB, rB, Q2, XL2, oL2, rL2, XB2, oB2, rB2) ==
  /\ LB(h, Q2, XL2, oL2, rL2, XB2, oB2, rB2) /\ Q2 = Q \cup {p}
  /\ l \notin XL /\ XL2 = XL \cup {l} /\ oL2[l] = p
  /\ \A x \in XL : oL2[x] = oL[x] /\ rL2[x] = rL[x]
  /\ b \notin XB /\ XB2 = XB \cup {b} /\ oB2[b] = l
  /\ \A x \in XB : oB2[x] = oB[x] /\ rB2[x] = rB[x] /\ h.B[x] = f.B[x]
  /\ \A x \in XL : h.L[x] = f.L[x]
  /\ Sum(h, XB2) = Sum(f, XB)

\* A new paragraph with a line and a box keeps lines and boxes well formed.
LEMMA BeginsLB ==
  ASSUME NEW f, NEW Q, NEW XL, NEW oL, NEW rL, NEW XB, NEW oB, NEW rB,
         LB(f, Q, XL, oL, rL, XB, oB, rB),
         NEW p, p \notin Q, NEW l, NEW b, NEW h, Begins(f, h, p, l, b)
  PROVE  \E Q2, XL2, oL2, rL2, XB2, oB2, rB2 :
            BegunAt(f, h, Q, p, l, b, XL, oL, rL, XB, oB, rB, Q2, XL2, oL2, rL2, XB2, oB2, rB2)
<1>1. /\ f \in Frames /\ Q \subseteq 1 .. Len(f.P) /\ XL \subseteq 1 .. Len(f.L) /\ XB \subseteq 1 .. Len(f.B)
      /\ LLayer(f, Q, XL, oL, rL) /\ BLayer(f, XL, XB, oB,
          rB) /\ oL \in [XL -> Q] /\ oB \in [XB -> XL]
      /\ BoxesGood(f, XB) /\ LineBoxesLast(f, XB, oB)
  BY LBFacts DEF LB
<1>2. /\ h \in Frames /\ Len(f.P) <= Len(h.P) /\ p \in 1 .. Len(h.P) /\ SameT(f, h)
      /\ Len(f.P) \in Nat /\ Len(h.P) \in Nat /\ Len(f.B) \in Nat /\ Len(f.L) \in Nat
  <2>1. h \in Frames /\ Len(f.P) <= Len(h.P) /\ p \in 1 .. Len(h.P) /\ SameT(f, h)
    BY DEF Begins
  <2>2. Len(f.P) \in Nat /\ Len(f.B) \in Nat /\ Len(f.L) \in Nat
    BY <1>1 DEF Frames
  <2>3. Len(h.P) \in Nat
    BY <2>1 DEF Frames
  <2> QED
    BY <2>1, <2>2, <2>3
<1>3. Q \subseteq 1 .. Len(h.P) /\ \A q \in Q : q # p /\ q \in 1 .. Len(f.P) /\ h.P[q].firstL = f.P[q].firstL
  BY <1>1, <1>2 DEF Begins
<1>4. LStarts(f, h, Q, p, l)
  BY <1>2, <1>3 DEF Begins, LStarts
<1>5. PICK Q2, XL2, oL2, rL2 : LStarted(f, h, Q, XL, oL, rL, p, l, Q2, XL2, oL2, rL2)
  BY <1>1, <1>2, <1>4, LOwner
<1>6. /\ LLayer(h, Q2, XL2, oL2,
         rL2) /\ l \notin XL /\ l # 0 /\ XL2 = XL \cup {l} /\ Q2 = Q \cup {p} /\ oL2[l] = p
      /\ (\A x \in XL : oL2[x] = oL[x]) /\ \A x \in XL : rL2[x] = rL[x]
  BY <1>5 DEF LStarted
<1>7. XL2 \subseteq 1 .. Len(h.L)
  BY <1>2, <1>6, LLayerFacts
<1>8. \A x \in XL : x # l /\ h.L[x] = f.L[x]
  BY <1>1, <1>6 DEF Begins
<1>9. BStarts(f, h, XL, l, b)
  <2>1. h.B[b].kind # "line" /\ h.B[b].next = 0 /\ h.B[b].prev = 0
    <3>1. "text" # "line"
      OBVIOUS
    <3>2. h.B[b] = NoBox
      BY DEF Begins
    <3> QED
      BY <3>1, <3>2 DEF NoBox
  <2>2. l \in 1 .. Len(h.L) /\ XL \subseteq 1 .. Len(h.L) /\ h.L[l].firstB = b
    BY <1>6, <1>7 DEF Begins
  <2> QED
    BY <1>6, <1>8, <2>1, <2>2 DEF Begins, BStarts
<1>10. PICK XL3, XB2, oB2, rB2 : BStarted(f, h, XL, XB, oB, rB, l, b, XL3, XB2, oB2, rB2)
  BY <1>1, <1>2, <1>9, BOwner
<1>11. /\ BLayer(h, XL2, XB2, oB2, rB2) /\ b \notin XB /\ b # 0 /\ XB2 = XB \cup {b} /\ oB2[b] = l
       /\ (\A x \in XB : oB2[x] = oB[x]) /\ \A x \in XB : rB2[x] = rB[x]
  <2>1. XL3 = XL2
    BY <1>6, <1>10 DEF BStarted
  <2> QED
    BY <1>10, <2>1 DEF BStarted
<1>12. \A x \in XB : x # b /\ h.B[x] = f.B[x]
  BY <1>1, <1>11 DEF Begins
<1>13. XB2 \subseteq 1 .. Len(h.B) /\ Len(h.B) \in Nat /\ b \in 1 .. Len(h.B)
  BY <1>2, <1>11, BLayerFacts DEF Frames
<1>14. BoxesGood(h, XB2)
  <2> SUFFICES ASSUME NEW x \in XB2 PROVE BoxGood(h.text, h.B[x])
    BY DEF BoxesGood
  <2>0. h.text = f.text /\ f.text \in Seq(Characters)
    BY <1>1, <1>2 DEF SameT, Frames
  <2>1. CASE x = b
    <3>1. h.B[x] = NoBox
      BY <2>1 DEF Begins
    <3>2. PICK t : t = f.text
      OBVIOUS
    <3>3. Len(t) \in Nat /\ Columns(t, 0) \in Int
      BY <2>0, <3>2, ColumnsStep
    <3>4. Columns(t, 0) - Columns(t, 0) = 0
      BY <3>3
    <3>5. BoxGood(t, NoBox)
      BY <3>3, <3>4 DEF BoxGood, NoBox
    <3> QED
      BY <2>0, <3>1, <3>2, <3>5
  <2>2. CASE x # b
    BY <1>1, <1>11, <1>12, <2>0, <2>2 DEF BoxesGood
  <2> QED
    BY <2>1, <2>2
<1>15. LineBoxesLast(h, XB2, oB2)
  <2> SUFFICES ASSUME NEW x \in XB2, h.B[x].kind = "line" PROVE h.L[oB2[x]].next = 0
    BY DEF LineBoxesLast
  <2>1. CASE x = b
    <3>1. h.B[x] = NoBox
      BY <2>1 DEF Begins
    <3>2. "text" # "line"
      OBVIOUS
    <3> QED
      BY <3>1, <3>2 DEF NoBox
  <2>2. CASE x # b
    <3>1. x \in XB /\ f.B[x].kind = "line" /\ oB2[x] = oB[x] /\ oB[x] \in XL
      BY <1>1, <1>11, <1>12, <2>2
    <3> QED
      BY <1>1, <1>8, <3>1 DEF LineBoxesLast
  <2> QED
    BY <2>1, <2>2
<1>16. Q2 \subseteq 1 .. Len(h.P)
  BY <1>2, <1>3, <1>6
<1>17. LB(h, Q2, XL2, oL2, rL2, XB2, oB2, rB2)
  BY <1>2, <1>6, <1>11, <1>14, <1>15, <1>16 DEF LB
<1>18. Sum(h, XB2) = Sum(f, XB)
  <2>1. PICK z \in Nat : z = 0
    OBVIOUS
  <2>2. \A k \in 1 .. Len(h.B) : k # b /\ k # z => LenAt(h, XB2, k) = LenAt(f, XB, k)
    BY <1>11, <1>12 DEF LenAt
  <2>3. Len(f.B) <= Len(h.B)
    BY <1>2, <1>11, <1>13 DEF Begins
  <2>4. SumsDiffer(f, h, XB, XB2, b, z)
    <3>1. XB \subseteq 1 .. Len(f.B) /\ XB2 \subseteq 1 .. Len(h.B) /\ b \in 0 .. Len(h.B) /\ z \in 0 .. Len(h.B)
      BY <1>1, <1>13, <2>1
    <3>2. b = z => b = 0
      BY <2>1
    <3> QED
      BY <2>2, <2>3, <3>1, <3>2 DEF SumsDiffer
  <2>5. Sum(h, XB2) = Sum(f, XB) + LenAt(h, XB2, b) - LenAt(f, XB, b) + LenAt(h, XB2, z) - LenAt(f,
      XB, z)
    BY <1>1, <1>2, <2>4, SumChanged
  <2>6. z \notin XB /\ z \notin XB2
    BY <1>1, <1>11, <2>1
  <2>7. /\ LenAt(h, XB2, b) = BoxLen(h.B[b]) /\ LenAt(f, XB, b) = 0
        /\ LenAt(h, XB2, z) = 0 /\ LenAt(f, XB, z) = 0
    BY <1>11, <2>6 DEF LenAt
  <2>8. BoxLen(h.B[b]) = 0
    <3>1. h.B[b] = NoBox
      BY DEF Begins
    <3>2. NoBox.j - NoBox.i = 0
      BY DEF NoBox
    <3> QED
      BY <3>1, <3>2 DEF BoxLen
  <2>9. Sum(f, XB) \in Int
    BY <1>1, SumIs
  <2> QED
    BY <2>5, <2>7, <2>8, <2>9
<1>19. BegunAt(f, h, Q, p, l, b, XL, oL, rL, XB, oB, rB, Q2, XL2, oL2, rL2, XB2, oB2, rB2)
  BY <1>6, <1>8, <1>11, <1>12, <1>17, <1>18 DEF BegunAt
<1> QED
  BY <1>19

\* The lines of the paragraphs D, but for p, have the same boxes at the same places.
AlikeIn(f, h, XL, oL, rL, XB, oB, rB, XL2, oL2, rL2, XB2, oB2, rB2, D, p) ==
  /\ \A q \in D : q # p => SamePlaces(XL, oL, rL, XL2, oL2, rL2, q)
  /\ \A l \in XL : oL[l] \in D /\ oL[l] # p => LineAlike(f, h, XB, oB, rB, XB2, oB2, rB2, l)

\* A change inside a new paragraph is none in the others.
LEMMA ElsewhereIn ==
  ASSUME NEW f, NEW Q, NEW XL, NEW oL, NEW rL, NEW XB, NEW oB, NEW rB,
         LB(f, Q, XL, oL, rL, XB, oB, rB),
         NEW h, NEW Q2, NEW XL2, NEW oL2, NEW rL2, NEW XB2, NEW oB2, NEW rB2,
         LB(h, Q2, XL2, oL2, rL2, XB2, oB2, rB2),
         NEW p, NEW D, D \subseteq Q, D \subseteq Q2,
         AlikeIn(f, h, XL, oL, rL, XB, oB, rB, XL2, oL2, rL2, XB2, oB2, rB2, D, p)
  PROVE  Elsewhere(f, h, D, p)
<1>1. /\ \A q \in D : q # p => SamePlaces(XL, oL, rL, XL2, oL2, rL2, q)
      /\ \A l \in XL : oL[l] \in D /\ oL[l] # p => LineAlike(f, h, XB, oB, rB, XB2, oB2, rB2, l)
  BY DEF AlikeIn
<1> QED
  BY ElsewhereIs, <1>1

\* The new paragraph is empty, and the others are as they were.
BegunPara(f, h, X, p, l, b) ==
  /\ Lay(h, X \cup {p}) /\ Elsewhere(f, h, X, p)
  /\ Fit(h, p) /\ NoRule(h, p) /\ LineWidth(h, l) = 0
  /\ l = LastIn(Lines(h, p)) /\ b = LastIn(Boxes(h, l))

\* A new paragraph with a line and a box joins the others.
LEMMA BeginsIs ==
  ASSUME NEW f, NEW X, Lay(f, X), NEW p, p \notin X, NEW l, NEW b, NEW h, Begins(f, h, p, l, b)
  PROVE  BegunPara(f, h, X, p, l, b)
<1>1. PICK XL, oL, rL, XB, oB, rB : LB(f, X, XL, oL, rL, XB, oB, rB) /\ Sum(f, XB) = f.len
  BY DEF Lay
<1>2. PICK Q, XL2, oL2, rL2, XB2, oB2, rB2 :
        BegunAt(f, h, X, p, l, b, XL, oL, rL, XB, oB, rB, Q, XL2, oL2, rL2, XB2, oB2, rB2)
  BY <1>1, BeginsLB
<1>3. /\ LB(h, Q, XL2, oL2, rL2, XB2, oB2, rB2) /\ Q = X \cup {p}
      /\ l \notin XL /\ XL2 = XL \cup {l} /\ oL2[l] = p
      /\ b \notin XB /\ XB2 = XB \cup {b} /\ oB2[b] = l
      /\ \A x \in XL : h.L[x] = f.L[x]
      /\ Sum(h, XB2) = Sum(f, XB)
  BY <1>2 DEF BegunAt
<1>4. /\ \A x \in XL : oL2[x] = oL[x] /\ rL2[x] = rL[x]
      /\ \A x \in XB : oB2[x] = oB[x] /\ rB2[x] = rB[x] /\ h.B[x] = f.B[x]
  BY <1>2 DEF BegunAt
<1>5. /\ oL \in [XL -> X] /\ oB \in [XB -> XL] /\ h \in Frames /\ h.len = f.len
      /\ h.L[l].next = 0 /\ h.B[b] = NoBox
  BY <1>1, LBFacts DEF Begins, SameT
<1>6. Lay(h, X \cup {p})
  BY <1>1, <1>3, <1>5 DEF Lay
<1>7. \A x \in XL2 : oL2[x] = p <=> x = l
  BY <1>3, <1>4, <1>5
<1>8. \A x \in XB2 : oB2[x] = l <=> x = b
  BY <1>3, <1>4, <1>5
<1>9. Elsewhere(f, h, X, p)
  <2>1. ASSUME NEW q \in X, q # p PROVE SamePlaces(XL, oL, rL, XL2, oL2, rL2, q)
    BY <1>3, <1>4, <2>1 DEF SamePlaces
  <2>2. ASSUME NEW x \in XL, oL[x] \in X, oL[x] # p
        PROVE  LineAlike(f, h, XB, oB, rB, XB2, oB2, rB2, x)
    <3>1. x # l
      BY <1>3
    <3>2. SamePlaces(XB, oB, rB, XB2, oB2, rB2, x)
      BY <1>3, <1>4, <3>1 DEF SamePlaces
    <3> QED
      BY <1>3, <1>4, <3>2 DEF LineAlike, SameText
  <2>3. X \subseteq X /\ X \subseteq Q
    BY <1>3
  <2>4. AlikeIn(f, h, XL, oL, rL, XB, oB, rB, XL2, oL2, rL2, XB2, oB2, rB2, X, p)
    BY ONLY <2>1, <2>2 DEF AlikeIn
  <2> QED
    BY ONLY <1>1, <1>3, <2>3, <2>4, ElsewhereIn
<1>10. "text" # "line"
  OBVIOUS
<1>11. NextIndex(h, b) = 0
  BY <1>5, <1>10 DEF NextIndex, NoBox
<1>12. l \in XL2 /\ b \in XB2 /\ p \in Q
  BY <1>3
<1>13. l = LastIn(Lines(h, p))
  BY <1>3, <1>5, <1>12, LastLine
<1>14. b = LastIn(Boxes(h, l))
  BY <1>3, <1>11, <1>12, LastBox
<1>15. NoRule(h, p)
  <2>1. Unruled(h, oL2, XB2, oB2, p)
    <3> SUFFICES ASSUME NEW x \in XB2, oL2[oB2[x]] = p PROVE h.B[x].kind # "line"
      BY DEF Unruled
    <3>1. oB2[x] \in XL2
      BY <1>3, LBFacts
    <3>2. x = b
      BY <1>7, <1>8, <3>1
    <3> QED
      BY <1>5, <1>10, <3>2 DEF NoBox
  <2> QED
    BY <1>3, <1>12, <2>1, NoRuleIs
<1>16. LineWidth(h, l) = 0
  <2>1. PICK bs : bs = Boxes(h, l)
    OBVIOUS
  <2>2. LineBoxes(bs, h, XB2, oB2, rB2, l)
    BY <1>3, <1>12, <2>1, LineBoxesAre
  <2>3. /\ Len(bs) \in Nat \ {0} /\ DOMAIN bs = 1 .. Len(bs)
        /\ (\A k \in 1 .. Len(bs) : bs[k] \in XB2 /\ oB2[bs[k]] = l /\ rB2[bs[k]] = k /\ bs[k] \in 1 .. Len(h.B))
    BY <2>2 DEF LineBoxes
  <2>4. Len(bs) = 1 /\ bs[1] = b
    <3>1. \A k \in 1 .. Len(bs) : k = rB2[b] /\ bs[k] = b
      BY <1>8, <2>3
    <3>2. 1 \in 1 .. Len(bs) /\ Len(bs) \in 1 .. Len(bs)
      BY <2>3
    <3> QED
      BY <3>1, <3>2
  <2>5. /\ WidthUpTo(h, bs, 0) = 0
        /\ \A k \in 1 .. Len(bs) : WidthUpTo(h, bs, k) = WidthUpTo(h, bs, k - 1) + BoxWidth(h,
            bs[k])
    <3>1. Len(bs) \in Nat /\ DOMAIN bs = 1 .. Len(bs) /\ \A k \in 1 .. Len(bs) : bs[k] \in 1 .. Len(h.B)
      BY <2>3
    <3> QED
      BY ONLY <1>5, <3>1, WidthsAre
  <2>6. WidthUpTo(h, bs, 1) = WidthUpTo(h, bs, 0) + BoxWidth(h, b)
    <3>1. 1 \in 1 .. Len(bs) /\ 1 - 1 = 0
      BY <2>4
    <3> QED
      BY <2>4, <2>5, <3>1
  <2>7. BoxWidth(h, b) = 0
    BY <1>5, <1>10 DEF BoxWidth, NoBox
  <2> QED
    BY <2>1, <2>4, <2>5, <2>6, <2>7 DEF LineWidth
<1>17. Fit(h, p)
  <2>1. h.width \in Nat
    BY <1>5 DEF Frames
  <2>2. Fits(h, l)
    BY <1>16, <2>1 DEF Fits
  <2>3. \A x \in XL2 : oL2[x] = p => Fits(h, x)
    BY <1>7, <2>2
  <2> QED
    BY <1>3, <1>12, <2>3, FitIs
<1> QED
  BY <1>6, <1>9, <1>13, <1>14, <1>15, <1>16, <1>17 DEF BegunPara

\* Paragraph p is put after the last one.
PLinked(f, h, last, p) ==
  /\ h \in Frames /\ p = Slot(f.freeP, f.P)
  /\ Len(h.P) = (IF p <= Len(f.P) THEN Len(f.P) ELSE p)
  /\ h.freeP = (IF f.freeP = 0 THEN 0 ELSE f.P[f.freeP].next)
  /\ h.firstP = f.firstP
  /\ h.P[p].next = 0 /\ h.P[p].prev = last /\ h.P[last].next = p /\ h.P[last].prev = f.P[last].prev
  /\ \A k \in 1 .. Len(f.P) : k # p /\ k # last =>
      h.P[k].next = f.P[k].next /\ h.P[k].prev = f.P[k].prev

\* A paragraph linked after the last one is in the list.
LEMMA PInsert ==
  ASSUME NEW f \in Frames, NEW X, ListP(f, X), NEW last \in X, f.P[last].next = 0, NEW p, NEW h,
         PLinked(f, h, last, p)
  PROVE  ListP(h, X \cup {p})
<1>0. X # {}
  OBVIOUS
<1>1. PICK own, rank : PLayer(f, {0}, X, own, rank)
  BY <1>0 DEF ListP, OwnerOf
<1>2. /\ X \subseteq 1 .. Len(f.P) /\ f.freeP \in 0 .. Len(f.P) /\ Len(f.P) \in Nat
      /\ own \in [X -> {0}] /\ rank \in [X -> Nat \ {0}]
      /\ p = SlotAt(f.freeP, Len(f.P)) /\ p \notin X /\ last \in 1 .. Len(f.P)
  BY <1>1, PLayerFacts DEF Slot, SlotAt, PLinked
<1>3. p \in 1 .. Len(f.P) + 1 /\ p # 0 /\ last # p /\ p \in Nat
  BY <1>2 DEF SlotAt
<1>4. PICK N, m, top, top2 : N = Len(f.P) /\ m = Len(h.P) /\ top = f.freeP /\ top2 = h.freeP
  OBVIOUS
<1>5. m \in Nat /\ N <= m /\ p <= m /\ p \in 1 .. m /\ last \in 1 .. m /\ \A x \in 1 .. N : x \in 1 .. m
  <2>1. m = IF p <= N THEN N ELSE p
    BY <1>4 DEF PLinked
  <2> QED
    BY <1>2, <1>3, <1>4, <2>1
<1>6. PICK next, prev, first : next = NextP(f) /\ prev = PrevP(f) /\ first = FirstP(f)
  OBVIOUS
<1>7. \A x \in 1 .. N : next[x] = f.P[x].next /\ prev[x] = f.P[x].prev
  BY <1>4, <1>6, LinksP
<1>8. \A x \in 1 .. m : NextP(h)[x] = h.P[x].next /\ PrevP(h)[x] = h.P[x].prev
  BY <1>4, LinksP DEF PLinked
<1>9. \A o \in {0} : FirstP(h)[o] = first[o]
  BY <1>6 DEF FirstP, PLinked
<1>10. PICK X2, own2, rank2 : /\ X2 = X \cup {p} /\ own2 = [x \in X2 |-> 0]
                              /\ rank2 = [x \in X2 |-> InsertRank(rank, own, last, p, x)]
  OBVIOUS
<1>11. own2 \in [X2 -> {0}] /\ own2[p] = own[last] /\ \A x \in X : own2[x] = own[x]
  BY <1>2, <1>10
<1>12. /\ rank2 \in [X2 -> Nat \ {0}] /\ rank2[p] = rank[last] + 1
       /\ \A x \in X : rank2[x] = IF own[x] = own[last] /\ rank[x] > rank[last] THEN rank[x] + 1 ELSE rank[x]
  <2>1. p \in X2 /\ \A x \in X : x \in X2 /\ x # p
    BY <1>2, <1>10
  <2>2. rank2[p] = rank[last] + 1
    BY <1>10, <2>1 DEF InsertRank
  <2>3. \A x \in X : rank2[x] = IF own[x] = own[last] /\ rank[x] > rank[last] THEN rank[x] + 1 ELSE rank[x]
    BY <1>10, <2>1 DEF InsertRank
  <2>4. \A x \in X2 : rank2[x] \in Nat \ {0}
    BY <1>2, <1>10, <2>2, <2>3
  <2>5. rank2 = [x \in X2 |-> rank2[x]]
    BY <1>10
  <2> QED
    BY <2>2, <2>3, <2>4, <2>5
<1>13. LayerInserts(N, X, {0}, own, rank, first, next, prev, top, last, p, m, top2,
                    FirstP(h), NextP(h), PrevP(h), X2, own2, rank2)
  <2>1. next[last] = 0 /\ NextP(h)[last] = p /\ NextP(h)[p] = 0 /\ PrevP(h)[p] = last
    BY <1>2, <1>4, <1>5, <1>7, <1>8 DEF PLinked
  <2>2. \A x \in 1 .. N : x # p => PrevP(h)[x] = prev[x] /\ (x # last => NextP(h)[x] = next[x])
    BY <1>4, <1>5, <1>7, <1>8 DEF PLinked
  <2>3. top2 = IF top = 0 THEN 0 ELSE next[top]
    BY <1>2, <1>4, <1>7 DEF PLinked
  <2>4. p = SlotAt(top, N)
    BY <1>2, <1>4
  <2> QED
    BY <1>5, <1>9, <1>10, <1>11, <1>12, <2>1, <2>2, <2>3, <2>4 DEF LayerInserts
<1>14. PICK O : O = {0}
  OBVIOUS
<1>15. PLayer(h, O, X2, own2, rank2)
  <2>1. Layer(X, O, own, rank, first, next, prev, top, N)
    BY <1>1, <1>4, <1>6, <1>14 DEF PLayer
  <2>2. LayerInserts(N, X, O, own, rank, first, next, prev, top, last, p, m, top2,
                    FirstP(h), NextP(h), PrevP(h), X2, own2, rank2)
    BY <1>13, <1>14
  <2>3. Layer(X2, O, own2, rank2, FirstP(h), NextP(h), PrevP(h), top2, m)
    BY ONLY <2>1, <2>2, LayerInsert
  <2> QED
    BY <1>4, <2>3 DEF PLayer
<1>16. OwnerOf(X2) = O
  BY <1>10, <1>14 DEF OwnerOf
<1> QED
  BY <1>10, <1>15, <1>16 DEF ListP

\* A paragraph of no lines is taken.
TakesPara(f, h, p) ==
  /\ OnlyP(f, h) /\ p \in 1 .. Len(f.P) + 1 /\ h.firstP = f.firstP
  /\ Len(h.P) = (IF p <= Len(f.P) THEN Len(f.P) ELSE p)
  /\ h.freeP = (IF f.freeP = 0 THEN 0 ELSE f.P[f.freeP].next)
  /\ h.P[p].next = 0 /\ h.P[p].prev = 0 /\ h.P[p].count = 0
  /\ \A k \in 1 .. Len(f.P) : k # p => h.P[k] = f.P[k]

\* newParagraph (frame.go) takes the index freed last, or the next one.
LEMMA NewParagraphIs ==
  ASSUME NEW f \in Frames, f.freeP <= Len(f.P), align \in Alignments,
         NEW p, p = Slot(f.freeP, f.P), NEW h, h = NewParagraph(f)
  PROVE  TakesPara(f, h, p)
<1>1. f.P \in Seq(ParaSet) /\ f.freeP \in Nat /\ Len(f.P) \in Nat
  BY DEF Frames
<1>2. p \in 1 .. Len(f.P) + 1
  BY <1>1 DEF Slot
<1>3. PICK x : x = [NoPara EXCEPT !.align = align]
  OBVIOUS
<1>4. x \in ParaSet /\ x.next = 0 /\ x.prev = 0 /\ x.count = 0
  <2>1. PICK z \in ParaSet : z = NoPara
    BY NothingTypes
  <2>2. z.next = 0 /\ z.prev = 0 /\ z.count = 0
    BY <2>1 DEF NoPara
  <2>3. x = [z EXCEPT !.align = align]
    BY <1>3, <2>1
  <2> QED
    BY <2>2, <2>3 DEF ParaSet
<1>5. PICK s : s = Put(f.P, p, x)
  OBVIOUS
<1>6. /\ s \in Seq(ParaSet) /\ Len(s) = (IF p <= Len(f.P) THEN Len(f.P) ELSE p)
      /\ s[p] = x /\ \A k \in 1 .. Len(f.P) : k # p => s[k] = f.P[k]
  <2>1. PICK q : q = f.P
    OBVIOUS
  <2>2. x \in ParaSet /\ q \in Seq(ParaSet) /\ p \in 1 .. Len(q) + 1
    BY <1>1, <1>2, <1>4, <2>1
  <2>3. /\ Put(q, p, x) \in Seq(ParaSet)
        /\ Len(Put(q, p, x)) = IF p <= Len(q) THEN Len(q) ELSE p
    BY <2>2, PutIs
  <2>4. Put(q, p, x)[p] = x /\ \A k \in 1 .. Len(q) : k # p => Put(q, p, x)[k] = q[k]
    BY <2>2, PutIs
  <2> QED
    BY <1>5, <2>1, <2>3, <2>4
<1>7. PICK t : t = IF f.freeP = 0 THEN 0 ELSE f.P[p].next
  OBVIOUS
<1>8. t \in Nat /\ t = (IF f.freeP = 0 THEN 0 ELSE f.P[f.freeP].next)
  <2>1. f.freeP # 0 => p = f.freeP /\ p \in 1 .. Len(f.P)
    BY <1>1, <1>2 DEF Slot
  <2>2. f.freeP # 0 => f.P[p] \in ParaSet
    BY <1>1, <2>1
  <2> QED
    BY <1>7, <2>1, <2>2 DEF ParaSet
<1>9. h = [f EXCEPT !.P = s, !.freeP = t]
  BY <1>3, <1>5, <1>7 DEF NewParagraph
<1>10. h \in Frames
  BY <1>6, <1>8, <1>9 DEF Frames
<1>11. /\ h.P = s /\ h.freeP = t /\ h.firstP = f.firstP
       /\ SameL(f, h) /\ SameB(f, h) /\ SameT(f, h) /\ SameC(f, h)
  BY <1>9 DEF Frames, SameL, SameB, SameT, SameC
<1> QED
  BY <1>2, <1>4, <1>6, <1>8, <1>10, <1>11 DEF OnlyP, TakesPara

\* A paragraph, a line and a box are taken, which are not linked yet.
FreshlyTaken(f, h, p, l, b) ==
  /\ h \in Frames /\ SameT(f, h) /\ SameC(f, h)
  /\ p = Slot(f.freeP, f.P) /\ h.firstP = f.firstP
  /\ p \in 1 .. Len(f.P) + 1 /\ Len(h.P) = (IF p <= Len(f.P) THEN Len(f.P) ELSE p)
  /\ h.freeP = (IF f.freeP = 0 THEN 0 ELSE f.P[f.freeP].next)
  /\ h.P[p].next = 0 /\ h.P[p].prev = 0 /\ h.P[p].count = 0
  /\ \A k \in 1 .. Len(f.P) : k # p => h.P[k] = f.P[k]
  /\ l = Slot(f.freeL,
      f.L) /\ l \in 1 .. Len(f.L) + 1 /\ Len(h.L) = (IF l <= Len(f.L) THEN Len(f.L) ELSE l)
  /\ h.freeL = (IF f.freeL = 0 THEN 0 ELSE f.L[f.freeL].next)
  /\ h.L[l] = NoLine
  /\ \A k \in 1 .. Len(f.L) : k # l => h.L[k] = f.L[k]
  /\ b = Slot(f.freeB,
      f.B) /\ b \in 1 .. Len(f.B) + 1 /\ Len(h.B) = (IF b <= Len(f.B) THEN Len(f.B) ELSE b)
  /\ h.freeB = (IF f.freeB = 0 THEN 0 ELSE NextIndex(f, f.freeB))
  /\ h.B[b] = NoBox
  /\ \A k \in 1 .. Len(f.B) : k # b => h.B[k] = f.B[k]

\* A paragraph, a line and a box are taken, and linked to nothing yet.
LEMMA FreshIs ==
  ASSUME NEW f \in Frames, f.freeP <= Len(f.P), f.freeL <= Len(f.L), f.freeB <= Len(f.B),
         align \in Alignments,
         NEW p, p = Slot(f.freeP, f.P), NEW l, l = Slot(f.freeL, f.L), NEW b,
         b = Slot(f.freeB, f.B),
         NEW h, h = AddBox(NewLine(NewParagraph(f)), NoBox)
  PROVE  FreshlyTaken(f, h, p, l, b)
<1>1. PICK g1, g2 : g1 = NewParagraph(f) /\ g2 = NewLine(g1)
  OBVIOUS
<1>2. TakesPara(f, g1, p)
  BY <1>1, NewParagraphIs
<1>3. g1 \in Frames /\ g1.freeL <= Len(g1.L) /\ l = Slot(g1.freeL, g1.L) /\ SameL(f, g1)
  BY <1>2 DEF TakesPara, OnlyP, SameL
<1>4. /\ OnlyL(g1, g2) /\ l \in 1 .. Len(g1.L) + 1
      /\ Len(g2.L) = (IF l <= Len(g1.L) THEN Len(g1.L) ELSE l)
      /\ g2.L[l] = NoLine /\ \A k \in 1 .. Len(g1.L) : k # l => g2.L[k] = g1.L[k]
      /\ g2.freeL = (IF g1.freeL = 0 THEN 0 ELSE g1.L[g1.freeL].next)
  BY <1>1, <1>3, NewLineIs
<1>5. SameB(f, g2) /\ g2 \in Frames /\ g2.freeB <= Len(g2.B) /\ b = Slot(g2.freeB, g2.B)
  BY <1>2, <1>4 DEF TakesPara, OnlyP, OnlyL, SameB
<1>6. PICK x \in BoxSet : x = NoBox
  BY NothingTypes
<1>7. h = AddBox(g2, x)
  BY <1>1, <1>6
<1>8. /\ OnlyB(g2, h) /\ b \in 1 .. Len(g2.B) + 1
      /\ Len(h.B) = (IF b <= Len(g2.B) THEN Len(g2.B) ELSE b)
      /\ h.B[b] = x /\ \A k \in 1 .. Len(g2.B) : k # b => h.B[k] = g2.B[k]
      /\ h.freeB = (IF g2.freeB = 0 THEN 0 ELSE NextIndex(g2, g2.freeB))
  BY <1>5, <1>7, AddBoxIs
<1>9. NextIndex(g2, g2.freeB) = NextIndex(f, f.freeB)
  BY <1>5 DEF SameB, NextIndex
<1>10. /\ h \in Frames /\ SameT(f, h) /\ SameC(f,
          h) /\ h.P = g1.P /\ h.freeP = g1.freeP /\ h.firstP = g1.firstP
       /\ h.L = g2.L /\ h.freeL = g2.freeL
  BY <1>2, <1>4, <1>8 DEF TakesPara, OnlyP, OnlyL, OnlyB, SameP, SameL, SameT, SameC
<1>11. g1.L = f.L /\ g1.freeL = f.freeL /\ g2.B = f.B /\ g2.freeB = f.freeB
  BY <1>3, <1>5 DEF SameL, SameB
<1>12. /\ p \in 1 .. Len(f.P) + 1 /\ Len(h.P) = (IF p <= Len(f.P) THEN Len(f.P) ELSE p)
       /\ h.freeP = (IF f.freeP = 0 THEN 0 ELSE f.P[f.freeP].next)
       /\ h.P[p].next = 0 /\ h.P[p].prev = 0 /\ h.P[p].count = 0
       /\ h.firstP = f.firstP
       /\ \A k \in 1 .. Len(f.P) : k # p => h.P[k] = f.P[k]
  BY <1>2, <1>10 DEF TakesPara
<1>13. /\ l \in 1 .. Len(f.L) + 1 /\ Len(h.L) = (IF l <= Len(f.L) THEN Len(f.L) ELSE l)
       /\ h.freeL = (IF f.freeL = 0 THEN 0 ELSE f.L[f.freeL].next)
       /\ h.L[l] = NoLine
       /\ \A k \in 1 .. Len(f.L) : k # l => h.L[k] = f.L[k]
  BY <1>4, <1>10, <1>11
<1>14. /\ b \in 1 .. Len(f.B) + 1 /\ Len(h.B) = (IF b <= Len(f.B) THEN Len(f.B) ELSE b)
       /\ h.freeB = (IF f.freeB = 0 THEN 0 ELSE NextIndex(f, f.freeB))
       /\ h.B[b] = NoBox
       /\ \A k \in 1 .. Len(f.B) : k # b => h.B[k] = f.B[k]
  BY <1>6, <1>8, <1>9, <1>11
<1> QED
  BY <1>10, <1>12, <1>13, <1>14 DEF FreshlyTaken

\* Paragraph p with other links and another first line.
ParaOf(x, y, next, prev, firstL) ==
  y.next = next /\ y.prev = prev /\ y.firstL = firstL /\ y.align = x.align /\ y.count = x.count

\* A paragraph with another next.
LEMMA ParaNext ==
  ASSUME NEW x \in ParaSet, NEW n \in Nat, NEW y, y = [x EXCEPT !.next = n]
  PROVE  y \in ParaSet /\ ParaOf(x, y, n, x.prev, x.firstL)
BY DEF ParaSet, ParaOf

\* A paragraph with another previous one.
LEMMA ParaPrev ==
  ASSUME NEW x \in ParaSet, NEW p \in Int, NEW y, y = [x EXCEPT !.prev = p]
  PROVE  y \in ParaSet /\ ParaOf(x, y, x.next, p, x.firstL)
BY DEF ParaSet, ParaOf

\* A paragraph with another first line.
LEMMA ParaFirst ==
  ASSUME NEW x \in ParaSet, NEW l \in Nat, NEW y, y = [x EXCEPT !.firstL = l]
  PROVE  y \in ParaSet /\ ParaOf(x, y, x.next, x.prev, l)
BY DEF ParaSet, ParaOf

\* One paragraph of a sequence is another.
ParaAtIs(s, t, p, x) ==
  /\ t \in Seq(ParaSet) /\ Len(t) = Len(s) /\ t[p] = x /\ \A k \in 1 .. Len(s) : k # p =>
      t[k] = s[k]

\* Setting one paragraph of the array.
LEMMA ParaSetAt ==
  ASSUME NEW s \in Seq(ParaSet), NEW p \in 1 .. Len(s), NEW x \in ParaSet, NEW t,
         t = [s EXCEPT ![p] = x]
  PROVE  ParaAtIs(s, t, p, x)
BY DEF ParaAtIs

\* A paragraph p that has no line is put after paragraph last.
LinksPara(s, t, p, last, l) == t = [s EXCEPT ![p].prev = last, ![last].next = p, ![p].firstL = l]

\* Linking two paragraphs, and the line of the second.
LEMMA ParasLinked ==
  ASSUME NEW s \in Seq(ParaSet), NEW p \in 1 .. Len(s), NEW last \in 1 .. Len(s), p # last,
         NEW l \in Nat,
         NEW t, LinksPara(s, t, p, last, l)
  PROVE  /\ t \in Seq(ParaSet) /\ Len(t) = Len(s)
         /\ ParaOf(s[p], t[p], s[p].next, last, l)
         /\ ParaOf(s[last], t[last], p, s[last].prev, s[last].firstL)
         /\ \A k \in 1 .. Len(s) : k # p /\ k # last => t[k] = s[k]
<1>1. s[p] \in ParaSet /\ s[last] \in ParaSet /\ Len(s) \in Nat
  OBVIOUS
<1>2. PICK x1 : x1 = [s[p] EXCEPT !.prev = last]
  OBVIOUS
<1>3. x1 \in ParaSet /\ ParaOf(s[p], x1, s[p].next, last, s[p].firstL)
  <2>1. PICK x \in ParaSet : x = s[p]
    BY <1>1
  <2>2. last \in Int
    OBVIOUS
  <2> QED
    BY <1>2, <2>1, <2>2, ParaPrev
<1>4. PICK x2 : x2 = [s[last] EXCEPT !.next = p]
  OBVIOUS
<1>5. x2 \in ParaSet /\ ParaOf(s[last], x2, p, s[last].prev, s[last].firstL)
  <2>1. PICK x \in ParaSet : x = s[last]
    BY <1>1
  <2>2. p \in Nat
    OBVIOUS
  <2> QED
    BY <1>4, <2>1, <2>2, ParaNext
<1>6. PICK x3 : x3 = [x1 EXCEPT !.firstL = l]
  OBVIOUS
<1>7. x3 \in ParaSet /\ ParaOf(x1, x3, x1.next, x1.prev, l)
  BY <1>3, <1>6, ParaFirst
<1>8. PICK s1 : s1 = [s EXCEPT ![p] = x1]
  OBVIOUS
<1>9. ParaAtIs(s, s1, p, x1)
  BY <1>3, <1>8, ParaSetAt
<1>10. PICK s2 : s2 = [s1 EXCEPT ![last] = x2]
  OBVIOUS
<1>11. ParaAtIs(s1, s2, last, x2)
  <2>1. s1 \in Seq(ParaSet) /\ last \in 1 .. Len(s1)
    BY <1>9 DEF ParaAtIs
  <2> QED
    BY <1>5, <1>10, <2>1, ParaSetAt
<1>12. PICK s3 : s3 = [s2 EXCEPT ![p] = x3]
  OBVIOUS
<1>13. ParaAtIs(s2, s3, p, x3)
  <2>1. s2 \in Seq(ParaSet) /\ p \in 1 .. Len(s2)
    BY <1>9, <1>11 DEF ParaAtIs
  <2> QED
    BY <1>7, <1>12, <2>1, ParaSetAt
<1>14. s1[last] = s[last] /\ s2[p] = x1 /\ s3[p] = x3 /\ s3[last] = x2
  BY <1>9, <1>11, <1>13 DEF ParaAtIs
<1>15. t = s3
  <2>1. s1 = [s EXCEPT ![p].prev = last]
    BY <1>1, <1>2, <1>8
  <2>2. s2 = [s1 EXCEPT ![last].next = p]
    BY <1>4, <1>10, <1>14
  <2>3. s3 = [s2 EXCEPT ![p].firstL = l]
    BY <1>6, <1>12, <1>14
  <2> QED
    BY <2>1, <2>2, <2>3 DEF LinksPara
<1>16. /\ Len(s3) = Len(s) /\ s3 \in Seq(ParaSet)
       /\ \A k \in 1 .. Len(s) : k # p /\ k # last => s3[k] = s[k]
  BY <1>9, <1>11, <1>13 DEF ParaAtIs
<1>17. ParaOf(s[p], x3, s[p].next, last, l)
  BY <1>3, <1>7 DEF ParaOf
<1> QED
  BY <1>5, <1>14, <1>15, <1>16, <1>17

\* Line l gets box b as its first one.
LinesFirst(s, t, l, b) ==
  /\ t \in Seq(LineSet) /\ Len(t) = Len(s)
  /\ t[l].firstB = b /\ t[l].next = s[l].next /\ t[l].prev = s[l].prev
  /\ \A k \in 1 .. Len(s) : k # l => t[k] = s[k]

\* Setting the first box of one line of the array.
LEMMA LineFirstAt ==
  ASSUME NEW s \in Seq(LineSet), NEW l \in 1 .. Len(s), NEW b \in Nat, NEW t,
         t = [s EXCEPT ![l].firstB = b]
  PROVE  LinesFirst(s, t, l, b)
<1>1. s[l] \in LineSet
  OBVIOUS
<1>2. PICK x : x = [s[l] EXCEPT !.firstB = b]
  OBVIOUS
<1>3. x \in LineSet /\ x.firstB = b /\ x.next = s[l].next /\ x.prev = s[l].prev
  BY <1>1, <1>2 DEF LineSet
<1>4. t = [s EXCEPT ![l] = x]
  BY <1>2
<1>5. t \in Seq(LineSet) /\ Len(t) = Len(s) /\ t[l] = x /\ \A k \in 1 .. Len(s) : k # l =>
    t[k] = s[k]
  BY <1>3, <1>4
<1> QED
  BY <1>3, <1>5 DEF LinesFirst

\* The paragraph taken is put after the last one, and it is the last one then.
ParaAppended(f, h, last, p, l, b) ==
  /\ Begins(f, h, p, l, b) /\ PLinked(f, h, last, p)
  /\ h.count = 0 /\ h.last = [p |-> p, l |-> l, b |-> b] /\ h.P[p].count = 0
  /\ \A k \in 1 .. Len(f.P) : k # p => h.P[k].count = f.P[k].count

\* The fields that linking a new paragraph sets.
LEMMA LinkParagraphIs ==
  ASSUME NEW f \in Frames, NEW g, NEW p, NEW l, NEW b, FreshlyTaken(f, g, p, l, b),
         NEW last \in 1 .. Len(f.P), last # p, NEW h, h = LinkParagraph(g, last, p, l, b)
  PROVE  ParaAppended(f, h, last, p, l, b)
<1>0. /\ g \in Frames /\ Len(f.P) \in Nat /\ Len(f.L) \in Nat /\ Len(f.B) \in Nat
      /\ g.P \in Seq(ParaSet) /\ g.L \in Seq(LineSet) /\ SameT(f, g)
  <2>1. g \in Frames /\ SameT(f, g)
    BY DEF FreshlyTaken
  <2>2. Len(f.P) \in Nat /\ Len(f.L) \in Nat /\ Len(f.B) \in Nat
    BY DEF Frames
  <2>3. g.P \in Seq(ParaSet) /\ g.L \in Seq(LineSet)
    BY <2>1 DEF Frames
  <2> QED
    BY <2>1, <2>2, <2>3
<1>1. p \in 1 .. Len(g.P) /\ last \in 1 .. Len(g.P) /\ Len(f.P) <= Len(g.P)
  BY <1>0 DEF FreshlyTaken
<1>2. l \in 1 .. Len(g.L) /\ b \in Nat /\ l \in Nat
  BY <1>0 DEF FreshlyTaken
<1>3. PICK s, t, x : /\ s = [g.P EXCEPT ![p].prev = last, ![last].next = p, ![p].firstL = l]
                     /\ t = [g.L EXCEPT ![l].firstB = b] /\ x = [p |-> p, l |-> l, b |-> b]
  OBVIOUS
<1>4. h = [g EXCEPT !.P = s, !.L = t, !.last = x, !.count = 0]
  <2> DEFINE x0 == [p |-> p, l |-> l, b |-> b]
  <2>1. PICK g1, g2, g3 : /\ g1 = [g EXCEPT !.P[p].prev = last]
                          /\ g2 = [g1 EXCEPT !.P[last].next = p]
                          /\ g3 = [g2 EXCEPT !.P[p].firstL = l]
    OBVIOUS
  <2>2. h = [g3 EXCEPT !.L[l].firstB = b, !.last = x0, !.count = 0]
    BY ONLY <1>0, <2>1, h = LinkParagraph(g, last, p, l, b) DEF LinkParagraph, Frames
  <2>3. PICK s1, s2, s3 : /\ s1 = [g.P EXCEPT ![p].prev = last]
                          /\ s2 = [s1 EXCEPT ![last].next = p]
                          /\ s3 = [s2 EXCEPT ![p].firstL = l]
    OBVIOUS
  <2>4. g1 = [g EXCEPT !.P = s1]
    BY ONLY <1>0, <2>1, <2>3 DEF Frames
  <2>5. g2 = [g EXCEPT !.P = s2]
    BY ONLY <1>0, <2>1, <2>3, <2>4 DEF Frames
  <2>6. g3 = [g EXCEPT !.P = s3]
    BY ONLY <1>0, <2>1, <2>3, <2>5 DEF Frames
  <2>7. h = [g EXCEPT !.P = s3, !.L = t, !.last = x0, !.count = 0]
    BY ONLY <1>0, <1>3, <2>2, <2>6 DEF Frames
  <2>8. s3 = s
    BY ONLY <1>3, <2>3
  <2> QED
    BY <1>3, <2>7, <2>8
<1>5. /\ s \in Seq(ParaSet) /\ Len(s) = Len(g.P)
      /\ ParaOf(g.P[p], s[p], g.P[p].next, last, l)
      /\ ParaOf(g.P[last], s[last], p, g.P[last].prev, g.P[last].firstL)
      /\ \A k \in 1 .. Len(g.P) : k # p /\ k # last => s[k] = g.P[k]
  <2>1. PICK q : q = g.P
    OBVIOUS
  <2>2. q \in Seq(ParaSet) /\ p \in 1 .. Len(q) /\ last \in 1 .. Len(q)
    BY <1>0, <1>1, <2>1
  <2>3. LinksPara(q, s, p, last, l)
    BY <1>3, <2>1 DEF LinksPara
  <2>4. /\ s \in Seq(ParaSet) /\ Len(s) = Len(q)
        /\ ParaOf(q[p], s[p], q[p].next, last, l)
        /\ ParaOf(q[last], s[last], p, q[last].prev, q[last].firstL)
        /\ \A k \in 1 .. Len(q) : k # p /\ k # last => s[k] = q[k]
    BY ONLY <1>2, <2>2, <2>3, p # last, ParasLinked
  <2> QED
    BY <2>1, <2>4
<1>6. LinesFirst(g.L, t, l, b)
  <2>1. PICK q : q = g.L
    OBVIOUS
  <2>2. q \in Seq(LineSet) /\ l \in 1 .. Len(q) /\ t = [q EXCEPT ![l].firstB = b]
    BY <1>0, <1>2, <1>3, <2>1
  <2>3. LinesFirst(q, t, l, b)
    BY <1>2, <2>2, LineFirstAt
  <2> QED
    BY <2>1, <2>3
<1>7. x \in LastSet
  BY <1>1, <1>2, <1>3 DEF LastSet
<1>8. t \in Seq(LineSet)
  BY <1>6 DEF LinesFirst
<1>9. /\ h \in Frames /\ h.P = s /\ h.L = t /\ h.last = x /\ h.count = 0
      /\ h.freeP = g.freeP /\ h.firstP = g.firstP /\ h.freeL = g.freeL
      /\ h.B = g.B /\ h.freeB = g.freeB /\ h.text = g.text /\ h.len = g.len /\ h.width = g.width
  <2>1. s \in Seq(ParaSet)
    BY <1>5
  <2> QED
    BY ONLY <1>0, <1>4, <1>7, <1>8, <2>1 DEF Frames
<1>10. Begins(f, h, p, l, b)
  <2>1. l = Slot(f.freeL, f.L) /\ b = Slot(f.freeB, f.B)
    BY DEF FreshlyTaken
  <2>2. /\ Len(h.L) = (IF l <= Len(f.L) THEN Len(f.L) ELSE l)
        /\ h.freeL = (IF f.freeL = 0 THEN 0 ELSE f.L[f.freeL].next)
    BY <1>6, <1>9 DEF FreshlyTaken, LinesFirst
  <2>3. h.L[l].next = 0 /\ h.L[l].prev = 0 /\ h.L[l].firstB = b
    BY <1>6, <1>9 DEF FreshlyTaken, LinesFirst, NoLine
  <2>4. \A k \in 1 .. Len(f.L) : k # l => h.L[k] = f.L[k]
    <3>1. \A k \in 1 .. Len(f.L) : k \in 1 .. Len(g.L)
      BY <1>0 DEF FreshlyTaken
    <3> QED
      BY <1>6, <1>9, <3>1 DEF FreshlyTaken, LinesFirst
  <2>5. /\ Len(h.B) = (IF b <= Len(f.B) THEN Len(f.B) ELSE b)
        /\ h.freeB = (IF f.freeB = 0 THEN 0 ELSE NextIndex(f, f.freeB))
        /\ h.B[b] = NoBox /\ \A k \in 1 .. Len(f.B) : k # b => h.B[k] = f.B[k]
    BY <1>9 DEF FreshlyTaken
  <2>6. SameT(f, h)
    BY <1>0, <1>9 DEF SameT
  <2>7. Len(f.P) <= Len(h.P) /\ p \in 1 .. Len(h.P) /\ h.P[p].firstL = l
    BY <1>1, <1>5, <1>9 DEF ParaOf
  <2>8. \A k \in 1 .. Len(f.P) : k # p => h.P[k].firstL = f.P[k].firstL
    <3>1. \A k \in 1 .. Len(f.P) : k \in 1 .. Len(g.P) /\ (k # p => g.P[k] = f.P[k])
      BY <1>0 DEF FreshlyTaken
    <3> QED
      BY <1>5, <1>9, <3>1 DEF ParaOf
  <2> QED
    BY <1>9, <2>1, <2>2, <2>3, <2>4, <2>5, <2>6, <2>7, <2>8 DEF Begins
<1>11. \A k \in 1 .. Len(f.P) : k \in 1 .. Len(g.P) /\ (k # p => g.P[k] = f.P[k])
  BY <1>0 DEF FreshlyTaken
<1>12. PLinked(f, h, last, p)
  <2>1. p = Slot(f.freeP, f.P) /\ h.firstP = f.firstP
    BY <1>9 DEF FreshlyTaken
  <2>2. /\ Len(h.P) = (IF p <= Len(f.P) THEN Len(f.P) ELSE p)
        /\ h.freeP = (IF f.freeP = 0 THEN 0 ELSE f.P[f.freeP].next)
    BY <1>5, <1>9 DEF FreshlyTaken
  <2>3. g.P[p].next = 0 /\ g.P[last] = f.P[last]
    BY <1>11 DEF FreshlyTaken
  <2>4. h.P[p].next = 0 /\ h.P[p].prev = last /\ h.P[last].next = p /\ h.P[last].prev = f.P[last].prev
    BY <1>5, <1>9, <2>3 DEF ParaOf
  <2>5. \A k \in 1 .. Len(f.P) : k # p /\ k # last =>
      h.P[k].next = f.P[k].next /\ h.P[k].prev = f.P[k].prev
    BY <1>5, <1>9, <1>11
  <2> QED
    BY <1>9, <2>1, <2>2, <2>4, <2>5 DEF PLinked
<1>13. h.P[p].count = 0
  BY <1>5, <1>9 DEF ParaOf, FreshlyTaken
<1>14. \A k \in 1 .. Len(f.P) : k # p => h.P[k].count = f.P[k].count
  BY <1>5, <1>9, <1>11 DEF ParaOf
<1> QED
  BY <1>3, <1>9, <1>10, <1>12, <1>13, <1>14 DEF ParaAppended

\* What is free in a pool is within its arrays, or nothing is.
LEMMA PoolFree ==
  ASSUME NEW f, NEW X, ListP(f, X), Lay(f, X)
  PROVE  /\ f \in Frames /\ f.freeP <= Len(f.P) /\ f.freeL <= Len(f.L) /\ f.freeB <= Len(f.B)
         /\ Slot(f.freeP, f.P) \notin X /\ X \subseteq 1 .. Len(f.P)
<1>1. PICK XL, oL, rL, XB, oB, rB : LB(f, X, XL, oL, rL, XB, oB, rB)
  BY DEF Lay
<1>2. f \in Frames /\ LLayer(f, X, XL, oL, rL) /\ BLayer(f, XL, XB, oB, rB)
  BY <1>1, LBFacts
<1>3. PICK own, rank : PLayer(f, OwnerOf(X), X, own, rank)
  BY DEF ListP
<1>4. f.freeP \in 0 .. Len(f.P) /\ SlotAt(f.freeP, Len(f.P)) \notin X /\ X \subseteq 1 .. Len(f.P)
  BY <1>2, <1>3, PLayerFacts
<1>5. f.freeL \in 0 .. Len(f.L)
  BY <1>2, LLayerFacts
<1>6. f.freeB \in 0 .. Len(f.B)
  BY <1>2, BLayerFacts
<1>7. Slot(f.freeP, f.P) = SlotAt(f.freeP, Len(f.P))
  BY DEF Slot, SlotAt
<1> QED
  BY <1>2, <1>4, <1>5, <1>6, <1>7

\* A paragraph was put at the end of the paragraphs X, and it is empty.
Opened(f, h, X, p) ==
  /\ p \notin X /\ Ready(h, X \cup {p}) /\ LineWidth(h, h.last.l) = 0
  /\ SameT(f, h)

\* appendParagraph (editor.go) opens an empty paragraph after the last one.
LEMMA OpenedIs ==
  ASSUME NEW f, NEW X, Sound(f, X), Known(f), NEW last, last = f.last.p,
         NEW p, p \notin X, NEW l, NEW b, NEW h, ParaAppended(f, h, last, p, l, b)
  PROVE  Opened(f, h, X, p)
<1>1. Pool(f, X) /\ ListP(f, X) /\ Lay(f,
    X) /\ f.width > 1 /\ f \in Frames /\ X \subseteq 1 .. Len(f.P)
  BY PoolFacts DEF Sound, Pool
<1>2. PICK XL, oL, rL, XB, oB, rB : LB(f, X, XL, oL, rL, XB, oB, rB)
  BY <1>1 DEF Lay
<1>3. last \in X /\ f.P[last].next = 0
  <2>1. PICK x : x = f.last
    OBVIOUS
  <2>2. EndOf(f, x)
    BY <2>1 DEF Known
  <2>3. AtEnd(f, X, XL, oL, XB, oB, x)
    BY <1>1, <1>2, <2>2, EndIs
  <2> QED
    BY <2>1, <2>3 DEF AtEnd
<1>4. PLinked(f, h, last, p) /\ Begins(f, h, p, l, b)
  BY DEF ParaAppended
<1>5. PICK Y : Y = X \cup {p}
  OBVIOUS
<1>6. ListP(h, Y)
  BY <1>1, <1>3, <1>4, <1>5, PInsert
<1>7. BegunPara(f, h, X, p, l, b)
  BY <1>1, <1>4, BeginsIs
<1>8. /\ Lay(h, Y) /\ Elsewhere(f, h, X, p)
      /\ Fit(h, p) /\ NoRule(h, p) /\ LineWidth(h, l) = 0
      /\ l = LastIn(Lines(h, p)) /\ b = LastIn(Boxes(h, l))
  BY <1>5, <1>7 DEF BegunPara
<1>9. h \in Frames /\ h.width = f.width /\ SameT(f, h)
  BY <1>4 DEF Begins, SameT
<1>10. Pool(h, Y)
  BY <1>1, <1>5, <1>6, <1>8, <1>9 DEF Pool
<1>11. /\ h.count = 0 /\ h.last = [p |-> p, l |-> l, b |-> b] /\ h.P[p].count = 0
       /\ \A k \in 1 .. Len(f.P) : k # p => h.P[k].count = f.P[k].count
       /\ h.P[p].next = 0
  BY DEF ParaAppended, PLinked
<1>12. ASSUME NEW q \in Y PROVE Fit(h, q) /\ CountRight(h, q)
  <2>1. CASE q = p
    BY <1>8, <1>11, <2>1 DEF CountRight
  <2>2. CASE q # p
    <3>1. q \in X
      BY <1>5, <2>2
    <3>2. Fit(f, q) /\ CountRight(f, q)
      BY <3>1 DEF Sound
    <3>3. Fit(h, q)
      BY <1>1, <1>8, <1>9, <2>2, <3>1, <3>2, FitElsewhere
    <3>4. Lines(h, q) = Lines(f, q)
      BY <1>8, <2>2, <3>1 DEF Elsewhere
    <3>5. h.P[q].count = f.P[q].count
      BY <1>1, <1>11, <2>2, <3>1
    <3> QED
      BY <3>2, <3>3, <3>4, <3>5 DEF CountRight
  <2> QED
    BY <2>1, <2>2
<1>13. p \in Y
  BY <1>5
<1>14. p = LastIn(Paras(h))
  BY <1>10, <1>11, <1>13, LastPara
<1>15. p # 0 /\ h.last \in LastSet
  <2>1. Y \subseteq 1 .. Len(h.P)
    BY <1>10, PoolFacts
  <2> QED
    BY <1>9, <1>13, <2>1 DEF Frames
<1>16. Known(h)
  <2>1. h.last.p = p /\ h.last.l = l /\ h.last.b = b
    BY <1>11
  <2>2. h.last # NoLast
    BY <1>15, <2>1 DEF NoLast
  <2> QED
    BY <1>8, <1>14, <1>15, <2>1, <2>2 DEF Known, EndOf
<1>17. LastRight(h)
  BY <1>10, <1>16, KnownRight
<1>18. EndOpen(h, Y)
  <2> SUFFICES ASSUME NEW q \in Y, h.P[q].next = 0 PROVE NoRule(h, q)
    BY DEF EndOpen
  <2>1. q = LastIn(Paras(h))
    BY <1>10, LastPara
  <2> QED
    BY <1>8, <1>14, <2>1
<1>19. Ready(h, Y)
  BY <1>10, <1>11, <1>12, <1>16, <1>17, <1>18 DEF Ready, Sound
<1>20. h.last.l = l
  BY <1>11
<1> QED
  BY <1>5, <1>8, <1>9, <1>19, <1>20 DEF Opened

\* A new paragraph after the last one.
LEMMA AppendParagraphIs ==
  ASSUME NEW f, NEW X, Sound(f, X), Known(f), align \in Alignments, NEW h, h = AppendParagraph(f)
  PROVE  \E p : Opened(f, h, X, p)
<1>1. Pool(f, X) /\ ListP(f, X) /\ Lay(f, X)
  BY DEF Sound, Pool
<1>2. PICK p, l, b, last : p = Slot(f.freeP, f.P) /\ l = Slot(f.freeL, f.L) /\ b = Slot(f.freeB,
    f.B) /\ last = f.last.p
  OBVIOUS
<1>3. /\ f \in Frames /\ f.freeP <= Len(f.P) /\ f.freeL <= Len(f.L) /\ f.freeB <= Len(f.B)
      /\ p \notin X /\ X \subseteq 1 .. Len(f.P)
  BY <1>1, <1>2, PoolFree
<1>4. PICK g : g = AddBox(NewLine(NewParagraph(f)), NoBox)
  OBVIOUS
<1>5. FreshlyTaken(f, g, p, l, b)
  BY <1>2, <1>3, <1>4, FreshIs
<1>6. last \in X
  <2>1. last = LastIn(Paras(f))
    BY <1>2 DEF Known, EndOf
  <2> QED
    BY <1>1, <2>1, LastPara
<1>7. h = LinkParagraph(g, last, p, l, b)
  BY <1>2, <1>4 DEF AppendParagraph
<1>8. last \in 1 .. Len(f.P) /\ last # p
  BY <1>3, <1>6
<1>9. ParaAppended(f, h, last, p, l, b)
  BY <1>3, <1>5, <1>7, <1>8, LinkParagraphIs
<1>10. Opened(f, h, X, p)
  BY <1>2, <1>3, <1>9, OpenedIs
<1> QED
  BY <1>10

\* A frame that is ready is fine, and knows its end.
LEMMA FineReady ==
  ASSUME NEW f, NEW X, Ready(f, X)
  PROVE  Fine(f, X) /\ Sound(f, X) /\ Known(f) /\ EndOpen(f, X)
BY DEF Ready, Fine

\* The number of paragraphs is that of their list, whether it is cached or not.
LEMMA CountedIs ==
  ASSUME NEW f, NEW X, Sound(f, X), NEW h, h = Counted(f)
  PROVE  /\ IsFiniteSet(X) /\ ParagraphCount(f) = Cardinality(X) /\ Cardinality(X) \in Nat \ {0}
         /\ Sound(h, X) /\ (EndOpen(f, X) => EndOpen(h, X)) /\ (Known(f) => Known(h))
         /\ h.last = f.last /\ h.P = f.P
<1>1. Pool(f, X) /\ ListP(f, X) /\ X # {} /\ f \in Frames
  BY PoolFacts DEF Sound, Pool
<1>2. PICK ps : ps = Paras(f)
  OBVIOUS
<1>3. ParaList(ps, f, X)
  BY <1>1, <1>2, ParasAre
<1>4. Cardinality(X) = Len(ps) /\ IsFiniteSet(X) /\ Len(ps) \in Nat \ {0}
  <2>1. Cardinality(X) = Len(ps) /\ IsFiniteSet(X)
    BY <1>3, ParasCount
  <2>2. Len(ps) \in Nat \ {0}
    BY <1>3 DEF ParaList
  <2> QED
    BY <2>1, <2>2
<1>5. ParagraphCount(f) = Cardinality(X)
  <2>1. f.count # 0 => f.count = Cardinality(X) + 1
    BY DEF Sound
  <2> QED
    BY <1>2, <1>4, <2>1 DEF ParagraphCount
<1>6. PICK n \in Nat : n = ParagraphCount(f) + 1
  BY <1>4, <1>5
<1>7. PICK x \in LastSet : x = f.last
  BY <1>1 DEF Frames
<1>8. SetsCaches(f, h, n, x)
  BY <1>1, <1>6, <1>7 DEF SetsCaches, Counted, Frames
<1>9. SameData(f, h) /\ h.width = f.width /\ h.count = n /\ h.last = x
  BY <1>1, <1>8, SetCachesIs
<1>10. /\ Pool(h, X)
       /\ (\A p \in X : Fit(f, p) /\ CountRight(f, p)) => \A p \in X : Fit(h, p) /\ CountRight(h, p)
       /\ EndOpen(f, X) => EndOpen(h, X)
       /\ \A y : EndOf(f, y) <=> EndOf(h, y)
  BY <1>1, <1>9, SoundKept
<1>11. \A p \in X : Fit(h, p) /\ CountRight(h, p)
  BY <1>10 DEF Sound
<1>12. h.last = f.last /\ h.P = f.P
  BY <1>7, <1>9 DEF SameData, SameP
<1>13. Known(f) => Known(h)
  BY <1>10, <1>12 DEF Known
<1>14. LastRight(h)
  <2>1. CASE f.last = NoLast
    BY <1>12, <2>1 DEF LastRight
  <2>2. CASE f.last # NoLast
    <3>1. PICK y : y = SetLasts(f).last
      OBVIOUS
    <3>2. EndOf(f, y)
      BY <1>1, <3>1, LastsFound
    <3>3. f.last = y
      BY <2>2, <3>1 DEF Sound, LastRight
    <3>4. Known(h)
      BY <1>13, <2>2, <3>2, <3>3 DEF Known
    <3> QED
      BY <1>10, <3>4, KnownRight
  <2> QED
    BY <2>1, <2>2
<1>15. Sound(h, X)
  BY <1>5, <1>6, <1>9, <1>10, <1>11, <1>14 DEF Sound
<1> QED
  BY <1>4, <1>5, <1>10, <1>12, <1>13, <1>15

\* A text that may end with a newline.
LEMMA AppendLineOfTextIs ==
  ASSUME NEW f, Good(f), NEW s \in Seq(Characters), color \in Colors, align \in Alignments,
         NEW h, h = AppendLineOfText(f, s)
  PROVE  Good(h)
<1>1. PICK X : Fine(f, X)
  BY DEF Good, Fine
<1>2. PICK kind, w, g : kind = "text" /\ w = StringWidth(s) /\ g = AppendText(f, kind, s, w)
  OBVIOUS
<1>3. TextKind(kind, s, w)
  <2>1. kind # "line"
    BY <1>2
  <2>2. kind \in Kinds
    BY <1>2 DEF Kinds
  <2>3. w \in Int
    <3>1. Len(s) \in 0 .. Len(s)
      OBVIOUS
    <3> QED
      BY <1>2, <3>1, ColumnsStep DEF StringWidth
  <2> QED
    BY <1>2, <2>1, <2>2, <2>3 DEF TextKind
<1>4. Ready(g, X)
  BY <1>1, <1>2, <1>3, AppendTextIs
<1>5. h = EndLine(g, s)
  BY <1>2 DEF AppendLineOfText
<1>6. CASE LastIn(s) = Newline
  <2>1. h = AppendParagraph(g)
    BY <1>5, <1>6 DEF EndLine
  <2>2. Sound(g, X) /\ Known(g)
    BY <1>4, FineReady
  <2>3. PICK p : Opened(g, h, X, p)
    BY <2>1, <2>2, AppendParagraphIs
  <2> QED
    BY <2>3 DEF Opened, Ready, Good
<1>7. CASE LastIn(s) # Newline
  BY <1>4, <1>5, <1>7 DEF EndLine, Ready, Good
<1> QED
  BY <1>6, <1>7

\* The loop over the pieces of a text (editor.go), round by round.
LEMMA AppendingSteps ==
  \A ps, f :
    /\ Appending!Run(ps, f, 0) = f
    /\ \A k \in Nat : Appending!Run(ps, f, k + 1) = AppendRound(ps, Appending!Run(ps, f, k), k + 1)
BY Appending!RunStarts, Appending!RunGoesOn

\* Appending the pieces of a text keeps a frame good.
LEMMA AppendPiecesIs ==
  ASSUME NEW f, Good(f), NEW ps \in Seq(Seq(Characters)), color \in Colors, align \in Alignments,
         NEW h, h = AppendPieces(f, ps)
  PROVE  Good(h)
<1>1. PICK at : at = [k \in Nat |-> Appending!Run(ps, f, k)]
  OBVIOUS
<1>2. PICK n \in Nat : n = Len(ps)
  OBVIOUS
<1>3. at[0] = f /\ \A k \in 0 .. n - 1 : at[k + 1] = AppendLineOfText(at[k], ps[k + 1])
  BY <1>1, AppendingSteps DEF AppendRound
<1>4. PICK S : S = {k \in 0 .. n : Good(at[k])}
  OBVIOUS
<1>5. 0 \in S
  BY <1>3, <1>4
<1>6. \A k \in 0 .. n - 1 : k \in S => k + 1 \in S
  <2> SUFFICES ASSUME NEW k \in 0 .. n - 1, k \in S PROVE k + 1 \in S
    OBVIOUS
  <2>1. PICK g, g2, s : g = at[k] /\ g2 = at[k + 1] /\ s = ps[k + 1]
    OBVIOUS
  <2>2. s \in Seq(Characters)
    BY <1>2, <2>1
  <2>3. g2 = AppendLineOfText(g, s) /\ Good(g)
    BY <1>3, <1>4, <2>1
  <2>4. Good(g2)
    BY <2>2, <2>3, AppendLineOfTextIs
  <2> QED
    BY <1>4, <2>1, <2>4
<1>7. \A k \in 0 .. n : k \in S
  BY <1>5, <1>6, UpTo
<1>8. n \in S
  BY <1>7
<1> QED
  BY <1>1, <1>2, <1>4, <1>8 DEF AppendPieces

\* What is written of a text is a sequence of lines.
LEMMA PiecesAre ==
  ASSUME NEW ls \in Texts
  PROVE  Pieces(ls, Len(ls)) \in Seq(Seq(Characters)) /\ Len(ls) \in Nat \ {0}
<1>1. ls \in Seq(Seq(Characters)) /\ ls # <<>> /\ Newline \in Characters
  BY TextsAssumption
<1>2. Len(ls) \in Nat \ {0} /\ ls[Len(ls)] \in Seq(Characters)
  BY <1>1
<1>3. PICK n : n = Len(ls) - 1
  OBVIOUS
<1>4. PICK a : a = [i \in 1 .. n |-> Append(ls[i], Newline)]
  OBVIOUS
<1>5. a \in Seq(Seq(Characters))
  <2>1. n \in Nat /\ \A i \in 1 .. n : ls[i] \in Seq(Characters)
    BY <1>1, <1>2, <1>3
  <2>2. \A i \in 1 .. n : a[i] \in Seq(Characters)
    BY <1>1, <1>4, <2>1
  <2> QED
    BY <1>4, <2>1, <2>2
<1>6. PICK t : t = IF ls[Len(ls)] = <<>> THEN <<>> ELSE <<ls[Len(ls)]>>
  OBVIOUS
<1>7. t \in Seq(Seq(Characters))
  BY <1>2, <1>6
<1> QED
  BY <1>2, <1>3, <1>4, <1>5, <1>6, <1>7 DEF Pieces

\* A line box takes the rest of its line, and no text.
RuleBox(box) == box = [NoBox EXCEPT !.kind = "line", !.color = color]

\* The box of a line that is drawn has no text.
LEMMA RuleBoxIs ==
  ASSUME NEW box, RuleBox(box), color \in Colors
  PROVE  box \in BoxSet /\ box.next = 0 /\ box.kind = "line" /\ BoxLen(box) = 0 /\ \A t : BoxGood(t, box)
<1>1. box = [kind |-> "line", i |-> 0, j |-> 0, w |-> 0, color |-> color, next |-> 0, prev |-> 0]
  BY DEF RuleBox, NoBox
<1>2. "line" \in Kinds /\ "line" # "text"
  BY DEF Kinds
<1>3. box \in BoxSet /\ box.next = 0 /\ box.kind = "line"
  BY <1>1, <1>2 DEF BoxSet
<1>4. BoxLen(box) = 0
  BY <1>3 DEF BoxLen
<1>5. \A t : BoxGood(t, box)
  BY <1>2, <1>3 DEF BoxGood
<1> QED
  BY <1>3, <1>4, <1>5

\* A line with a line box at its end is wider by the whole frame.
LEMMA LinkedWidth ==
  ASSUME NEW f, NEW Q, NEW XL, NEW oL, NEW rL, NEW XB, NEW oB, NEW rB,
         LB(f, Q, XL, oL, rL, XB, oB, rB),
         NEW b \in XB, NextIndex(f, b) = 0, NEW y, NEW box, box.kind = "line",
         NEW h, NEW XB2, NEW oB2, NEW rB2,
         BoxLinked(f, h, Q, XL, oL, rL, XB, oB, rB, b, y, box, XB2, oB2, rB2),
         NEW l, l = oB[b]
  PROVE  LineWidth(h, l) = LineWidth(f, l) + h.width
<1>1. /\ LB(h, Q, XL, oL, rL, XB2, oB2, rB2) /\ OnlyB(f, h)
      /\ y \notin XB /\ XB2 = XB \cup {y} /\ oB2[y] = oB[b] /\ rB2[y] = rB[b] + 1
      /\ (\A x \in XB : oB2[x] = oB[x] /\ rB2[x] = rB[x] /\ SameText(f.B[x], h.B[x]))
      /\ SameText(box, h.B[y])
  BY DEF BoxLinked
<1>2. f \in Frames /\ h \in Frames /\ rB \in [XB -> Nat \ {0}] /\ oB \in [XB -> XL] /\ h.width = f.width
  BY <1>1, LBFacts DEF OnlyB, SameT
<1>3. l \in XL
  BY <1>2
<1>4. PICK bs, bs2 : bs = Boxes(f, l) /\ bs2 = Boxes(h, l)
  OBVIOUS
<1>5. LineBoxes(bs, f, XB, oB, rB, l) /\ LineBoxes(bs2, h, XB2, oB2, rB2, l)
  BY <1>1, <1>3, <1>4, LineBoxesAre
<1>6. PICK n \in Nat : n = Len(bs)
  BY <1>5 DEF LineBoxes
<1>7. n \in 1 .. Len(bs)
  BY <1>5, <1>6 DEF LineBoxes
<1>8. Prefix(XB, oB, rB, XB2, oB2, rB2, l, n)
  BY <1>1 DEF Prefix
<1>9. n <= Len(bs2) /\ \A k \in 1 .. n : bs2[k] = bs[k]
  BY <1>5, <1>7, <1>8, PrefixIs
<1>10. rB[b] = n
  <2>1. bs[n] \in XB /\ oB[bs[n]] = l /\ rB[bs[n]] = n
    BY <1>5, <1>7 DEF LineBoxes
  <2>2. rB[b] \in 1 .. n /\ bs[rB[b]] = b
    BY <1>5, <1>6 DEF LineBoxes
  <2>3. ASSUME rB[b] # n PROVE FALSE
    <3>1. rB[b] \in 1 .. Len(bs) - 1
      BY <1>6, <2>2, <2>3
    <3>2. NextIndex(f, bs[rB[b]]) = bs[rB[b] + 1] /\ bs[rB[b] + 1] # 0
      BY <1>5, <3>1 DEF LineBoxes
    <3> QED
      BY <2>2, <3>2
  <2> QED
    BY <2>3
<1>11. Len(bs2) = n + 1 /\ bs2[n + 1] = y
  <2>1. rB2[y] \in 1 .. Len(bs2) /\ bs2[rB2[y]] = y
    BY <1>1, <1>5 DEF LineBoxes
  <2>2. rB2[y] = n + 1
    BY <1>1, <1>10
  <2>3. ASSUME Len(bs2) # n + 1 PROVE FALSE
    <3>1. Len(bs2) \in 1 .. Len(bs2) /\ Len(bs2) > n + 1
      BY <2>1, <2>2, <2>3
    <3>2. PICK z : z = bs2[Len(bs2)]
      OBVIOUS
    <3>3. z \in XB2 /\ oB2[z] = l /\ rB2[z] = Len(bs2)
      BY <1>5, <3>1, <3>2 DEF LineBoxes
    <3>4. z \in XB /\ oB[z] = l /\ rB[z] = Len(bs2)
      BY <1>1, <2>2, <3>1, <3>3
    <3>5. rB[z] \in 1 .. n
      BY <1>5, <1>6, <3>4 DEF LineBoxes
    <3> QED
      BY <3>1, <3>4, <3>5
  <2> QED
    BY <2>1, <2>2, <2>3
<1>12. /\ Len(bs) \in Nat /\ DOMAIN bs = 1 .. Len(bs) /\ Len(bs2) \in Nat /\ DOMAIN bs2 = 1 .. Len(bs2)
       /\ (\A k \in 1 .. Len(bs) : bs[k] \in 1 .. Len(f.B) /\ bs[k] \in XB)
       /\ \A k \in 1 .. Len(bs2) : bs2[k] \in 1 .. Len(h.B)
  BY <1>5 DEF LineBoxes
<1>13. WidthUpTo(h, bs2, n) = WidthUpTo(f, bs, n)
  <2>1. \A k \in 1 .. n : bs2[k] = bs[k] /\ SameText(f.B[bs[k]], h.B[bs2[k]])
    BY <1>1, <1>6, <1>9, <1>12
  <2>2. BoxesAlike(f, h, bs, bs2, n)
    BY <1>2, <1>6, <1>9, <1>12, <2>1 DEF BoxesAlike
  <2>3. \A k \in 0 .. n : WidthUpTo(h, bs2, k) = WidthUpTo(f, bs, k)
    BY <1>2, <2>2, WidthsSame
  <2> QED
    BY <2>3
<1>14. WidthUpTo(h, bs2, n + 1) = WidthUpTo(h, bs2, n) + BoxWidth(h, y)
  <2>1. \A k \in 1 .. Len(bs2) : WidthUpTo(h, bs2, k) = WidthUpTo(h, bs2, k - 1) + BoxWidth(h,
      bs2[k])
    BY <1>2, <1>12, WidthsAre
  <2>2. n + 1 \in 1 .. Len(bs2) /\ (n + 1) - 1 = n
    BY <1>11
  <2> QED
    BY <1>11, <2>1, <2>2
<1>15. BoxWidth(h, y) = h.width
  BY <1>1 DEF BoxWidth, SameText
<1> QED
  BY <1>4, <1>6, <1>11, <1>13, <1>14, <1>15 DEF LineWidth

\* A line box at the end of a line in which nothing is seen. The end of the frame
\* is not open then.
LEMMA RuleAppended ==
  ASSUME NEW f, NEW X, Ready(f, X), LineWidth(f, f.last.l) <= 0, LineWidth(f, f.last.l) \in Int,
         color \in Colors,
         NEW box, RuleBox(box), NEW h, h = AppendBox(f, box)
  PROVE  Sound(h, X) /\ Known(h)
<1>1. /\ Pool(f, X) /\ EndOpen(f, X) /\ f \in Frames /\ f.last \in LastSet
      /\ (\A p \in X : Fit(f, p) /\ CountRight(f, p)) /\ (f.count # 0 =>
          f.count = Cardinality(X) + 1)
  BY ReadyFacts
<1>2. PICK XL, oL, rL, XB, oB, rB :
          /\ LB(f, X, XL, oL, rL, XB, oB, rB) /\ Sum(f, XB) = f.len
          /\ AtEnd(f, X, XL, oL, XB, oB, f.last) /\ \A l \in XL : Fits(f, l)
  BY ReadyFacts
<1>3. PICK b, l : b = f.last.b /\ l = f.last.l
  OBVIOUS
<1>4. b \in XB /\ NextIndex(f, b) = 0 /\ oB[b] = l /\ l \in XL /\ f.L[l].next = 0
  BY <1>2, <1>3 DEF AtEnd
<1>5. f.B[b].kind # "line"
  <2>1. PICK x : x = f.last
    OBVIOUS
  <2>2. f.B[x.b].kind # "line"
    BY <1>1, <1>2, <2>1, OpenEnd
  <2> QED
    BY <1>3, <2>1, <2>2
<1>6. box \in BoxSet /\ box.next = 0 /\ box.kind = "line" /\ BoxLen(box) = 0 /\ BoxGood(f.text, box)
  BY RuleBoxIs
<1>7. PICK y, a, g : y = Slot(f.freeB, f.B) /\ a = AddBox(f, box) /\ g = LinkBoxes(a, b, y)
  OBVIOUS
<1>8. PICK XB2, oB2, rB2 : BoxLinked(f, g, X, XL, oL, rL, XB, oB, rB, b, y, box, XB2, oB2, rB2)
  <2>1. g = LinkBoxes(AddBox(f, box), b, y)
    BY <1>7
  <2> QED
    BY <1>2, <1>4, <1>5, <1>6, <1>7, <2>1, LinkKept
<1>9. h = [g EXCEPT !.last.b = y]
  <2>1. f.freeB <= Len(f.B)
    BY <1>2, LBFacts, BLayerFacts
  <2>2. a.B[y] = box
    BY <1>1, <1>6, <1>7, <2>1, AddBoxIs
  <2>3. "line" # "text"
    OBVIOUS
  <2>4. ~Joins(a.B[b], a.B[y])
    BY <1>6, <2>2, <2>3 DEF Joins
  <2> QED
    BY <1>3, <1>7, <2>4 DEF AppendBox, LinkBox
<1>10. BoxAppended(f, h, X, XL, oL, rL, XB, oB, rB, b, box, y, XB2, oB2, rB2)
  BY <1>1, <1>2, <1>3, <1>4, <1>8, <1>9, AppendLinked
<1>11. ListP(f, X) /\ X # {} /\ f.width > 1 /\ Sum(f,
    XB) + BoxLen(box) = f.len /\ BoxLen(box) \in Int
  <2>1. f.len \in Int
    BY <1>1 DEF Frames
  <2> QED
    BY <1>1, <1>2, <1>6, <2>1 DEF Pool
<1>12. /\ Pool(h, X) /\ LB(h, X, XL, oL, rL, XB2, oB2, rB2) /\ Sum(h, XB2) = h.len
       /\ AtEnd(h, X, XL, oL, XB2, oB2, h.last)
       /\ (\A m \in XL : m # f.last.l /\ Fits(f, m) => Fits(h, m))
       /\ \A p \in X : CountRight(f, p) => CountRight(h, p)
  <2>1. AtEnd(f, X, XL, oL, XB, oB, f.last)
    BY <1>2
  <2>2. AppendedTo(f, h, X, XL, oL, rL, XB2, oB2, rB2)
    BY <1>2, <1>3, <1>10, <1>11, <2>1, AppendedPool
  <2> QED
    BY <2>2 DEF AppendedTo
<1>13. LineWidth(g, l) = LineWidth(f, l) + g.width
  BY <1>2, <1>4, <1>6, <1>8, LinkedWidth
<1>14. g \in Frames /\ h \in Frames /\ h.B = g.B /\ h.L = g.L /\ h.P = g.P /\ h.width = g.width /\ SameElements(g, h)
  <2>1. g \in Frames
    BY <1>8 DEF BoxLinked, OnlyB
  <2>2. h \in Frames
    BY <1>12, PoolFacts
  <2> QED
    BY <1>9, <2>1, <2>2 DEF Frames, SameElements, SameP, SameL, SameB
<1>15. LineWidth(h, l) = LineWidth(g, l)
  BY <1>14, ElementsKept
<1>16. Fits(h, l)
  <2>1. g.width \in Int
    BY <1>14 DEF Frames
  <2>2. ~(LineWidth(h, l) > h.width)
    BY <1>3, <1>13, <1>14, <1>15, <2>1
  <2> QED
    BY <2>2 DEF Fits
<1>17. \A m \in XL : Fits(h, m)
  BY <1>2, <1>3, <1>12, <1>16
<1>18. \A p \in X : Fit(h, p) /\ CountRight(h, p)
  BY <1>1, <1>12, <1>17, FitIs
<1>19. Known(h) /\ LastRight(h)
  BY <1>12, NearlyKnown
<1>20. h.count # 0 => h.count = Cardinality(X) + 1
  BY <1>1, <1>10 DEF BoxAppended
<1> QED
  BY <1>12, <1>18, <1>19, <1>20 DEF Sound

\* The width of a line is a number.
LEMMA LineWidthType ==
  ASSUME NEW f, NEW X, Ready(f, X)
  PROVE  LineWidth(f, f.last.l) \in Int
<1>1. f \in Frames
  BY ReadyFacts
<1>2. PICK XL, oL, rL, XB, oB, rB :
          LB(f, X, XL, oL, rL, XB, oB, rB) /\ AtEnd(f, X, XL, oL, XB, oB, f.last)
  BY ReadyFacts
<1>3. PICK l, bs : l = f.last.l /\ bs = Boxes(f, l)
  OBVIOUS
<1>4. l \in XL
  BY <1>2, <1>3 DEF AtEnd
<1>5. LineBoxes(bs, f, XB, oB, rB, l)
  BY <1>2, <1>3, <1>4, LineBoxesAre
<1>6. Len(bs) \in Nat /\ DOMAIN bs = 1 .. Len(bs) /\ \A k \in 1 .. Len(bs) : bs[k] \in 1 .. Len(f.B)
  BY <1>5 DEF LineBoxes
<1>7. \A k \in 0 .. Len(bs) : WidthUpTo(f, bs, k) \in Int
  BY <1>1, <1>6, WidthsAre
<1> QED
  BY <1>3, <1>6, <1>7 DEF LineWidth

\* A line box in a paragraph of its own.
Ruled(f, h, box) ==
  h = AppendParagraph(AppendBox(IF LineWidth(f, f.last.l) > 0 THEN AppendParagraph(f) ELSE f, box))

\* WriteLine (editor.go) keeps a frame good.
LEMMA RuledIs ==
  ASSUME NEW f, NEW X, Ready(f, X), color \in Colors, align \in Alignments,
         NEW box, RuleBox(box), NEW h, Ruled(f, h, box)
  PROVE  Good(h)
<1>1. PICK n \in Int : n = LineWidth(f, f.last.l)
  BY LineWidthType
<1>2. PICK g : g = IF n > 0 THEN AppendParagraph(f) ELSE f
  OBVIOUS
<1>3. \E Y : Ready(g, Y) /\ LineWidth(g, g.last.l) <= 0
  <2>1. CASE n > 0
    <3>1. g = AppendParagraph(f)
      BY <1>2, <2>1
    <3>2. Sound(f, X) /\ Known(f)
      BY FineReady
    <3>3. PICK p : Opened(f, g, X, p)
      BY <3>1, <3>2, AppendParagraphIs
    <3>4. Ready(g, X \cup {p}) /\ LineWidth(g, g.last.l) = 0
      BY <3>3 DEF Opened
    <3>5. LineWidth(g, g.last.l) <= 0
      BY <3>4
    <3> QED
      BY <3>4, <3>5
  <2>2. CASE ~(n > 0)
    <3>1. g = f /\ n <= 0
      BY <1>1, <1>2, <2>2
    <3> QED
      BY <1>1, <3>1
  <2> QED
    BY <2>1, <2>2
<1>4. PICK Y : Ready(g, Y) /\ LineWidth(g, g.last.l) <= 0
  BY <1>3
<1>5. LineWidth(g, g.last.l) \in Int
  BY <1>4, LineWidthType
<1>6. PICK k : k = AppendBox(g, box)
  OBVIOUS
<1>7. Sound(k, Y) /\ Known(k)
  BY <1>4, <1>5, <1>6, RuleAppended
<1>8. h = AppendParagraph(k)
  BY <1>1, <1>2, <1>6 DEF Ruled
<1>9. PICK p : Opened(k, h, Y, p)
  BY <1>7, <1>8, AppendParagraphIs
<1>10. Ready(h, Y \cup {p})
  BY <1>9 DEF Opened
<1>11. Sound(h, Y \cup {p}) /\ EndOpen(h, Y \cup {p})
  BY <1>10, FineReady
<1> QED
  BY <1>11 DEF Good

(***************************************************************************)
(* Deleting a paragraph.                                                   *)
(***************************************************************************)
\* Element b goes, and is not free yet.
LayerUnlinks(n, X, O, own, rank, first, next, prev, b, first2, next2, prev2, X2, own2, rank2) ==
  /\ b \in X
  /\ \A o \in O : first2[o] = (IF first[o] = b THEN next[b] ELSE first[o]) /\ first2[o] # 0
  /\ \A x \in 1 .. n : next2[x] = IF x = prev[b] THEN next[b] ELSE next[x]
  /\ \A x \in 1 .. n : prev2[x] = IF x = next[b] THEN prev[b] ELSE prev[x]
  /\ X2 = X \ {b}
  /\ own2 \in [X2 -> O] /\ \A x \in X2 : own2[x] = own[x]
  /\ rank2 \in [X2 -> Nat \ {0}]
  /\ \A x \in X2 : rank2[x] = IF own[x] = own[b] /\ rank[x] > rank[b] THEN rank[x] - 1 ELSE rank[x]

\* An element is linked out of its list, and is not free yet.
LEMMA LayerUnlink ==
  ASSUME NEW n, NEW X, NEW O, NEW own, NEW rank, NEW first, NEW next, NEW prev, NEW top,
         NEW b, NEW first2, NEW next2, NEW prev2, NEW X2, NEW own2, NEW rank2,
         Layer(X, O, own, rank, first, next, prev, top, n),
         LayerUnlinks(n, X, O, own, rank, first, next, prev, b, first2, next2, prev2, X2, own2,
             rank2)
  PROVE  Layer(X2, O, own2, rank2, first2, next2, prev2, top, n)
<1>1. X \subseteq 1 .. n /\ Live(X, O, own, rank, first, next, prev) /\ Stack(top, next, prev, n)
      /\ n \in Nat
  BY DEF Layer
<1> USE DEF LayerUnlinks
<1>3. \A x \in X : prev[x] # -1
  <2> HIDE DEF LayerUnlinks
  <2> QED
    BY LayerPrev
<1>4. (next[b] = 0 \/ next[b] \in X) /\ (prev[b] = 0 \/ prev[b] \in X)
  BY <1>1 DEF Live, Forward, Backward
<1>5. Live(X2, O, own2, rank2, first2, next2, prev2)
  <2>1. Removes(X, O, own, rank, first, next, prev, b, first2, next2, prev2, X2, own2, rank2)
    BY <1>1 DEF Removes
  <2> QED
    BY <1>1, <2>1, LiveRemove
<1>6. Stack(top, next2, prev2, n)
  <2>1. \A x \in 1 .. n : prev[x] = -1 => next2[x] = next[x] /\ prev2[x] = -1
    BY <1>3, <1>4
  <2>2. Keeps(top, next, prev, n, next2, prev2, n)
    BY <1>1, <2>1 DEF Keeps
  <2> QED
    BY <1>1, <2>2, StackSame
<1>7. X2 \subseteq 1 .. n
  BY <1>1
<1> QED
  BY <1>1, <1>5, <1>6, <1>7 DEF Layer

\* Paragraph p is taken out of the list.
PUnlinked(f, h, p) ==
  /\ h \in Frames /\ h.freeP = f.freeP /\ Len(h.P) = Len(f.P)
  /\ h.firstP = (IF p = f.firstP THEN f.P[p].next ELSE f.firstP)
  /\ \A k \in 1 .. Len(f.P) : h.P[k].next = IF k = f.P[p].prev THEN f.P[p].next ELSE f.P[k].next
  /\ \A k \in 1 .. Len(f.P) : h.P[k].prev = IF k = f.P[p].next THEN f.P[p].prev ELSE f.P[k].prev

\* The neighbours of an element of the only list.
LEMMA Neighbours ==
  ASSUME NEW f \in Frames, NEW X, ListP(f, X), NEW p \in X
  PROVE  /\ f.P[p].prev # p /\ f.P[p].next # p /\ f.P[p].prev # -1
         /\ (p = f.firstP <=> f.P[p].prev = 0)
         /\ (p = f.firstP /\ f.P[p].next = 0 <=> X = {p})
         /\ f.firstP \in X /\ X \subseteq 1 .. Len(f.P)
         /\ (f.P[p].prev = 0 \/ f.P[p].prev \in X) /\ (f.P[p].next = 0 \/ f.P[p].next \in X)
<1>0. X # {}
  OBVIOUS
<1>1. PICK own, rank : PLayer(f, {0}, X, own, rank)
  BY <1>0 DEF ListP, OwnerOf
<1>2. PICK next, prev, first : next = NextP(f) /\ prev = PrevP(f) /\ first = FirstP(f)
  OBVIOUS
<1>3. /\ X \subseteq 1 .. Len(f.P) /\ Live(X, {0}, own, rank, first, next, prev)
      /\ own \in [X -> {0}] /\ rank \in [X -> Nat \ {0}]
      /\ \A x \in X : next[x] = f.P[x].next /\ prev[x] = f.P[x].prev /\ f.P[x].prev # -1
  BY <1>1, <1>2, PLayerFacts
<1>4. first[0] = f.firstP /\ first[0] # 0
  BY <1>1, <1>2, LinksP DEF PLayer, Layer
<1>5. first[0] \in X /\ prev[first[0]] = 0 /\ 0 \notin X
  BY <1>3, <1>4 DEF Live, Begun
<1>6. \A x \in X : own[x] = 0 /\ (prev[x] = 0 => first[0] = x /\ rank[x] = 1)
  BY <1>3 DEF Live, Begun
<1>7. \A x \in X : next[x] # 0 => next[x] \in X /\ rank[next[x]] = rank[x] + 1
  BY <1>3 DEF Live, Forward
<1>8. \A x \in X : prev[x] # 0 => prev[x] \in X /\ next[prev[x]] = x
  BY <1>3 DEF Live, Backward
<1>9. next[p] # p
  BY <1>3, <1>5, <1>7
<1>10. prev[p] # p
  BY <1>5, <1>8, <1>9
<1>11. p = f.firstP <=> prev[p] = 0
  BY <1>4, <1>5, <1>6
<1>12. ASSUME p = f.firstP, next[p] = 0 PROVE X = {p}
  <2> SUFFICES ASSUME NEW x \in X PROVE x = p
    OBVIOUS
  <2>1. own[x] = own[p] /\ rank[x] <= rank[p] /\ rank[p] = 1
    BY <1>3, <1>6, <1>11, <1>12 DEF Live, Ended
  <2>2. rank[x] = rank[p]
    BY <1>3, <2>1
  <2> QED
    BY <1>3, <2>1, <2>2 DEF Live, Placed
<1>13. X = {p} => p = f.firstP /\ next[p] = 0
  BY <1>4, <1>5, <1>7, <1>9
<1> QED
  BY <1>3, <1>4, <1>5, <1>7, <1>8, <1>9, <1>10, <1>11, <1>12, <1>13

\* A paragraph linked out is in the list no more.
LEMMA PRemove ==
  ASSUME NEW f \in Frames, NEW X, ListP(f, X), NEW p \in X, NEW h, PUnlinked(f, h, p)
  PROVE  /\ ListP(h, X \ {p}) /\ h.P[p].prev # -1 /\ p \in 1 .. Len(h.P)
         /\ h.firstP = 0 <=> X = {p}
<1>0. X # {}
  OBVIOUS
<1>1. /\ f.P[p].prev # p /\ f.P[p].next # p /\ f.P[p].prev # -1
      /\ (p = f.firstP <=> f.P[p].prev = 0)
      /\ (p = f.firstP /\ f.P[p].next = 0 <=> X = {p})
      /\ f.firstP \in X /\ X \subseteq 1 .. Len(f.P)
      /\ (f.P[p].prev = 0 \/ f.P[p].prev \in X) /\ (f.P[p].next = 0 \/ f.P[p].next \in X)
  BY Neighbours
<1>2. h.firstP = 0 <=> X = {p}
  BY <1>1 DEF PUnlinked
<1>3. PICK own, rank : PLayer(f, {0}, X, own, rank)
  BY <1>0 DEF ListP, OwnerOf
<1>4. PICK next, prev, first, n,
    top : next = NextP(f) /\ prev = PrevP(f) /\ first = FirstP(f) /\ n = Len(f.P) /\ top = f.freeP
  OBVIOUS
<1>5. \A x \in 1 .. n : next[x] = f.P[x].next /\ prev[x] = f.P[x].prev
  BY <1>4, LinksP
<1>6. PICK next2, prev2, first2 : next2 = NextP(h) /\ prev2 = PrevP(h) /\ first2 = FirstP(h)
  OBVIOUS
<1>7. n = Len(h.P) /\ h.freeP = top /\ (\A x \in 1 .. n : next2[x] = h.P[x].next /\ prev2[x] = h.P[x].prev)
      /\ first2[0] = h.firstP /\ first[0] = f.firstP
  BY <1>4, <1>6, LinksP DEF PUnlinked
<1>8. own \in [X -> {0}] /\ rank \in [X -> Nat \ {0}]
  BY <1>3, PLayerFacts
<1>9. Layer(X, {0}, own, rank, first, next, prev, top, n)
  BY <1>3, <1>4 DEF PLayer
<1>10. p \in 1 .. n /\ (\A x \in 1 .. n : next2[x] = IF x = prev[p] THEN next[p] ELSE next[x])
      /\ \A x \in 1 .. n : prev2[x] = IF x = next[p] THEN prev[p] ELSE prev[x]
  BY <1>1, <1>4, <1>5, <1>7 DEF PUnlinked
<1>11. PICK X2 : X2 = X \ {p}
  OBVIOUS
<1>12. CASE X = {p}
  <2>1. PICK D, O2, own2,
      rank2 : D = {0} /\ O2 = {} /\ own2 = [x \in X2 |-> own[x]] /\ rank2 = [x \in X2 |-> rank[x]]
    OBVIOUS
  <2>2. X2 = {}
    BY <1>11, <1>12
  <2>3. LayerDrops(n, X, {0}, own, rank, first, next, prev, top, D, X2, O2, own2, rank2)
    <3>1. X2 = {x \in X : own[x] \notin D}
      BY <1>8, <2>1, <2>2
    <3>2. O2 = {0} \ D /\ own2 \in [X2 -> O2] /\ rank2 \in [X2 -> Nat \ {0}]
      BY <2>1, <2>2
    <3> QED
      BY <2>2, <3>1, <3>2 DEF LayerDrops
  <2>4. Layer(X2, O2, own2, rank2, first, next, prev, top, n)
    <3>1. PICK O : O = {0}
      OBVIOUS
    <3>2. Layer(X, O, own, rank, first, next, prev, top, n) /\ LayerDrops(n, X, O, own, rank,
        first, next, prev, top, D, X2, O2, own2, rank2)
      BY <1>9, <2>3, <3>1
    <3> QED
      BY ONLY <3>2, LayerDrop
  <2>5. \A x \in 1 .. n : next2[x] = next[x] /\ prev2[x] = prev[x]
    <3>1. prev[p] = 0 /\ next[p] = 0
      BY <1>1, <1>5, <1>10, <1>12
    <3>2. \A x \in 1 .. n : x # 0
      OBVIOUS
    <3> QED
      BY <1>10, <3>1, <3>2
  <2>6. \A o \in O2 : first2[o] = first[o]
    BY <2>1
  <2>7. Layer(X2, O2, own2, rank2, first2, next2, prev2, top, n)
    BY ONLY <2>4, <2>5, <2>6, LayerSame
  <2>8. PLayer(h, O2, X2, own2, rank2)
    BY <1>6, <1>7, <2>7 DEF PLayer
  <2>9. OwnerOf(X2) = O2
    BY <2>1, <2>2 DEF OwnerOf
  <2>10. ListP(h, X2)
    BY <2>8, <2>9 DEF ListP
  <2> QED
    BY <1>1, <1>2, <1>5, <1>7, <1>10, <1>11, <2>5, <2>10
<1>13. CASE X # {p}
  <2>1. PICK own2, rank2 : own2 = [x \in X2 |-> 0] /\
           rank2 = [x \in X2 |-> IF own[x] = own[p] /\ rank[x] > rank[p] THEN rank[x] - 1 ELSE rank[x]]
    OBVIOUS
  <2>2. own2 \in [X2 -> {0}] /\ \A x \in X2 : own2[x] = own[x]
    BY <1>8, <1>11, <2>1
  <2>3. rank2 \in [X2 -> Nat \ {0}]
       /\ \A x \in X2 : rank2[x] = IF own[x] = own[p] /\ rank[x] > rank[p] THEN rank[x] - 1 ELSE rank[x]
    BY <1>8, <1>11, <2>1
  <2>4. \A o \in {0} : first2[o] = (IF first[o] = p THEN next[p] ELSE first[o]) /\ first2[o] # 0
    <3>1. first2[0] = (IF first[0] = p THEN next[p] ELSE first[0])
      BY <1>5, <1>7, <1>10 DEF PUnlinked
    <3> QED
      BY <1>2, <1>7, <1>13, <3>1
  <2>5. LayerUnlinks(n, X, {0}, own, rank, first, next, prev, p, first2, next2, prev2, X2, own2,
      rank2)
    BY <1>10, <1>11, <2>2, <2>3, <2>4 DEF LayerUnlinks
  <2>6. PICK O : O = {0}
    OBVIOUS
  <2>7. Layer(X, O, own, rank, first, next, prev, top, n)
        /\ LayerUnlinks(n, X, O, own, rank, first, next, prev, p, first2, next2, prev2, X2, own2,
            rank2)
    BY <1>9, <2>5, <2>6
  <2>8. Layer(X2, O, own2, rank2, first2, next2, prev2, top, n)
    BY ONLY <2>7, LayerUnlink
  <2>9. PLayer(h, O, X2, own2, rank2)
    BY <1>6, <1>7, <2>8 DEF PLayer
  <2>10. OwnerOf(X2) = O
    BY <1>11, <1>13, <2>6 DEF OwnerOf
  <2>11. ListP(h, X2)
    BY <2>9, <2>10 DEF ListP
  <2>12. h.P[p].prev # -1
    BY <1>1, <1>5, <1>7, <1>10
  <2> QED
    BY <1>2, <1>7, <1>10, <1>11, <2>11, <2>12
<1> QED
  BY <1>12, <1>13

\* Paragraph q is another one, or there is no such paragraph.
OtherPara(f, h, q) ==
  /\ OnlyP(f, h) /\ h.freeP = f.freeP /\ h.firstP = f.firstP /\ Len(h.P) = Len(f.P)
  /\ \A k \in 1 .. Len(f.P) : k # q => h.P[k] = f.P[k]

\* Setting the next of a paragraph, if there is one.
LEMMA SetNextParaIs ==
  ASSUME NEW f \in Frames, NEW q \in 0 .. Len(f.P), NEW n \in Nat, NEW h, h = SetNextPara(f, q, n)
  PROVE  OtherPara(f, h, q) /\ (q # 0 => ParaOf(f.P[q], h.P[q], n, f.P[q].prev, f.P[q].firstL))
<1>1. CASE q = 0
  <2>1. h = f
    BY <1>1 DEF SetNextPara
  <2> QED
    BY <1>1, <2>1 DEF OtherPara, OnlyP, SameL, SameB, SameT, SameC
<1>2. CASE q # 0
  <2>1. q \in 1 .. Len(f.P)
    BY <1>2 DEF Frames
  <2>2. PICK x : x = f.P[q]
    OBVIOUS
  <2>3. x \in ParaSet
    BY <2>1, <2>2, ParaTypes
  <2>4. PICK y : y = [x EXCEPT !.next = n]
    OBVIOUS
  <2>5. y \in ParaSet /\ ParaOf(x, y, n, x.prev, x.firstL)
    BY <2>3, <2>4, ParaNext
  <2>6. h = [f EXCEPT !.P[q] = y]
    BY <1>2, <2>1, <2>2, <2>4 DEF SetNextPara, Frames
  <2>7. OnePara(f, h, q, y)
    BY <2>1, <2>5, <2>6, SetParaIs
  <2>8. OtherPara(f, h, q) /\ h.P[q] = y
    BY <2>7 DEF OnePara, OtherPara
  <2> QED
    BY <2>2, <2>5, <2>8
<1> QED
  BY <1>1, <1>2

\* Setting the previous one of a paragraph, if there is one.
LEMMA SetPrevParaIs ==
  ASSUME NEW f \in Frames, NEW q \in 0 .. Len(f.P), NEW n \in Int, NEW h, h = SetPrevPara(f, q, n)
  PROVE  OtherPara(f, h, q) /\ (q # 0 => ParaOf(f.P[q], h.P[q], f.P[q].next, n, f.P[q].firstL))
<1>1. CASE q = 0
  <2>1. h = f
    BY <1>1 DEF SetPrevPara
  <2> QED
    BY <1>1, <2>1 DEF OtherPara, OnlyP, SameL, SameB, SameT, SameC
<1>2. CASE q # 0
  <2>1. q \in 1 .. Len(f.P)
    BY <1>2 DEF Frames
  <2>2. PICK x : x = f.P[q]
    OBVIOUS
  <2>3. x \in ParaSet
    BY <2>1, <2>2, ParaTypes
  <2>4. PICK y : y = [x EXCEPT !.prev = n]
    OBVIOUS
  <2>5. y \in ParaSet /\ ParaOf(x, y, x.next, n, x.firstL)
    BY <2>3, <2>4, ParaPrev
  <2>6. h = [f EXCEPT !.P[q] = y]
    BY <1>2, <2>1, <2>2, <2>4 DEF SetPrevPara, Frames
  <2>7. OnePara(f, h, q, y)
    BY <2>1, <2>5, <2>6, SetParaIs
  <2>8. OtherPara(f, h, q) /\ h.P[q] = y
    BY <2>7 DEF OnePara, OtherPara
  <2> QED
    BY <2>2, <2>5, <2>8
<1> QED
  BY <1>1, <1>2

\* The caches of the frame are forgotten, and it has another first paragraph.
Restarts(f, h, p) == h = [f EXCEPT !.firstP = p, !.count = 0, !.last = NoLast]

\* Setting the first paragraph and forgetting the caches.
LEMMA RestartIs ==
  ASSUME NEW f \in Frames, NEW p \in Nat, NEW h, Restarts(f, h, p)
  PROVE  /\ h \in Frames /\ h.P = f.P /\ h.freeP = f.freeP /\ SameL(f, h) /\ SameB(f,
            h) /\ SameT(f, h)
         /\ h.firstP = p /\ h.count = 0 /\ h.last = NoLast
<1>1. NoLast \in LastSet
  BY NothingTypes
<1>2. PICK x : x = NoLast
  OBVIOUS
<1>3. PICK z \in Nat : z = 0
  OBVIOUS
<1>4. h = [f EXCEPT !.firstP = p, !.count = z, !.last = x]
  BY <1>2, <1>3 DEF Restarts
<1>5. /\ h \in Frames /\ h.P = f.P /\ h.freeP = f.freeP /\ h.L = f.L /\ h.freeL = f.freeL /\ h.B = f.B
      /\ h.freeB = f.freeB /\ h.text = f.text /\ h.len = f.len /\ h.width = f.width
      /\ h.firstP = p /\ h.count = z /\ h.last = x
  BY <1>1, <1>2, <1>4 DEF Frames
<1> QED
  BY <1>2, <1>3, <1>5 DEF SameL, SameB, SameT

\* The frame without paragraph p in its list, of which the elements are not free yet.
Unlinked(f, h, p) ==
  /\ PUnlinked(f, h, p) /\ SameL(f, h) /\ SameB(f, h) /\ SameT(f, h)
  /\ h.count = 0 /\ h.last = NoLast
  /\ \A k \in 1 .. Len(f.P) : h.P[k].firstL = f.P[k].firstL /\ h.P[k].count = f.P[k].count

\* The fields that linking a paragraph out sets.
LEMMA UnlinkIs ==
  ASSUME NEW f \in Frames, NEW X, ListP(f, X), NEW p \in X, NEW h, h = Unlink(f, p, f.P[p])
  PROVE  Unlinked(f, h, p)
<1>1. /\ f.P[p].prev # p /\ f.P[p].next # p /\ X \subseteq 1 .. Len(f.P)
      /\ (f.P[p].prev = 0 \/ f.P[p].prev \in X) /\ (f.P[p].next = 0 \/ f.P[p].next \in X)
      /\ (p = f.firstP <=> f.P[p].prev = 0)
  BY Neighbours
<1>2. Len(f.P) \in Nat /\ f.P[p] \in ParaSet /\ f.firstP \in Nat
  BY <1>1, ParaTypes DEF Frames
<1>0. f.P[p].next \in 0 .. Len(f.P) /\ f.P[p].prev \in 0 .. Len(f.P)
  <2>1. \A x \in X : x \in 0 .. Len(f.P)
    BY <1>1, <1>2
  <2>2. 0 \in 0 .. Len(f.P)
    BY <1>2
  <2> QED
    BY <1>1, <2>1, <2>2, Zenon
<1>3. PICK prev \in 0 .. Len(f.P) : prev = f.P[p].prev
  BY <1>0
<1>4. PICK next \in 0 .. Len(f.P) : next = f.P[p].next
  BY <1>0
<1>5. PICK g1 : g1 = SetNextPara(f, prev, next)
  OBVIOUS
<1>6. OtherPara(f, g1, prev) /\ (prev # 0 => ParaOf(f.P[prev], g1.P[prev], next, f.P[prev].prev,
    f.P[prev].firstL))
  <2>1. next \in Nat
    BY <1>2
  <2> QED
    BY <1>5, <2>1, SetNextParaIs
<1>7. g1 \in Frames /\ Len(g1.P) = Len(f.P)
  BY <1>6 DEF OtherPara, OnlyP
<1>8. PICK g2 : g2 = SetPrevPara(g1, next, prev)
  OBVIOUS
<1>9. OtherPara(g1, g2, next) /\ (next # 0 => ParaOf(g1.P[next], g2.P[next], g1.P[next].next, prev,
    g1.P[next].firstL))
  <2>1. next \in 0 .. Len(g1.P) /\ prev \in Int
    BY <1>2, <1>7
  <2> QED
    BY <1>7, <1>8, <2>1, SetPrevParaIs
<1>10. g2 \in Frames
  BY <1>9 DEF OtherPara, OnlyP
<1>11. PICK first \in Nat : first = IF p = f.firstP THEN next ELSE f.firstP
  BY <1>2
<1>12. Restarts(g2, h, first)
  <2>1. g2.firstP = f.firstP
    BY <1>6, <1>9 DEF OtherPara
  <2>2. h = [g2 EXCEPT !.firstP = IF p = @ THEN next ELSE @, !.count = 0, !.last = NoLast]
    BY <1>3, <1>4, <1>5, <1>8 DEF Unlink
  <2> QED
    BY <1>10, <1>11, <2>1, <2>2 DEF Restarts, Frames
<1>13. /\ h \in Frames /\ h.P = g2.P /\ h.freeP = g2.freeP /\ SameL(g2, h) /\ SameB(g2,
          h) /\ SameT(g2, h)
       /\ h.firstP = first /\ h.count = 0 /\ h.last = NoLast
  BY <1>10, <1>12, RestartIs
<1>14. SameL(f, h) /\ SameB(f, h) /\ SameT(f, h) /\ h.freeP = f.freeP /\ Len(h.P) = Len(f.P)
  BY <1>6, <1>9, <1>13 DEF OtherPara, OnlyP, SameL, SameB, SameT
<1>15. ASSUME NEW k \in 1 .. Len(f.P)
       PROVE  /\ h.P[k].next = (IF k = prev THEN next ELSE f.P[k].next)
              /\ h.P[k].prev = (IF k = next THEN prev ELSE f.P[k].prev)
              /\ h.P[k].firstL = f.P[k].firstL /\ h.P[k].count = f.P[k].count
  <2>0. k # 0
    OBVIOUS
  <2>1. /\ g1.P[k].next = (IF k = prev THEN next ELSE f.P[k].next) /\ g1.P[k].prev = f.P[k].prev
        /\ g1.P[k].firstL = f.P[k].firstL /\ g1.P[k].count = f.P[k].count
    BY <1>6, <2>0 DEF OtherPara, ParaOf
  <2>2. /\ g2.P[k].prev = (IF k = next THEN prev ELSE g1.P[k].prev) /\ g2.P[k].next = g1.P[k].next
        /\ g2.P[k].firstL = g1.P[k].firstL /\ g2.P[k].count = g1.P[k].count
    BY <1>7, <1>9, <2>0 DEF OtherPara, ParaOf
  <2> QED
    BY <1>13, <2>1, <2>2
<1>16. PUnlinked(f, h, p)
  BY <1>3, <1>4, <1>11, <1>13, <1>14, <1>15 DEF PUnlinked
<1> QED
  BY <1>13, <1>14, <1>15, <1>16 DEF Unlinked

\* A box that is out of use is freed.
BFreed(f, h, b) ==
  /\ h \in Frames /\ h.L = f.L /\ Len(h.B) = Len(f.B) /\ h.freeB = b
  /\ h.B[b].next = f.freeB /\ h.B[b].prev = -1
  /\ \A k \in 1 .. Len(f.B) : k # b => h.B[k] = f.B[k]

\* A box that is in no line can be freed.
LEMMA BFree ==
  ASSUME NEW f \in Frames, NEW O, NEW X, NEW own, NEW rank, BLayer(f, O, X, own, rank),
         O \subseteq 1 .. Len(f.L),
         NEW b \in 1 .. Len(f.B), b \notin X, f.B[b].prev # -1, NEW h, BFreed(f, h, b)
  PROVE  BLayer(h, O, X, own, rank)
<1>1. PICK next, prev, first, n,
    top : next = NextB(f) /\ prev = PrevB(f) /\ first = FirstB(f) /\ n = Len(f.B) /\ top = f.freeB
  OBVIOUS
<1>2. PICK next2, prev2, first2 : next2 = NextB(h) /\ prev2 = PrevB(h) /\ first2 = FirstB(h)
  OBVIOUS
<1>3. h \in Frames /\ Len(h.B) = n /\ h.freeB = b /\ h.L = f.L
  BY <1>1 DEF BFreed
<1>4. /\ \A k \in 1 .. n : next[k] = NextIndex(f, k) /\ prev[k] = f.B[k].prev
      /\ \A k \in 1 .. n : next2[k] = NextIndex(h, k) /\ prev2[k] = h.B[k].prev
  BY <1>1, <1>2, <1>3, LinksB
<1>5. \A k \in 1 .. n : k # b => next2[k] = next[k] /\ prev2[k] = prev[k]
  BY <1>1, <1>4 DEF BFreed, NextIndex
<1>6. (next2[b] = top \/ next2[b] = 0) /\ prev2[b] = -1 /\ prev[b] # -1
  BY <1>1, <1>4 DEF BFreed, NextIndex
<1>7. \A o \in O : first2[o] = first[o]
  BY <1>1, <1>2, <1>3 DEF FirstB
<1>8. LayerFrees(n, X, O, own, rank, first, next, prev, top, b, first2, next2, prev2)
  BY <1>1, <1>5, <1>6, <1>7 DEF LayerFrees
<1>9. Layer(X, O, own, rank, first, next, prev, top, n)
  BY <1>1 DEF BLayer
<1>10. Layer(X, O, own, rank, first2, next2, prev2, b, n)
  BY ONLY <1>8, <1>9, LayerFree
<1> QED
  BY <1>2, <1>3, <1>10 DEF BLayer

\* A line that is in no paragraph can be freed.
LEMMA LFree ==
  ASSUME NEW f \in Frames, NEW O, NEW X, NEW own, NEW rank, LLayer(f, O, X, own, rank),
         O \subseteq 1 .. Len(f.P),
         NEW l \in 1 .. Len(f.L), l \notin X, f.L[l].prev # -1, NEW h, FreedLine(f, h, l)
  PROVE  LLayer(h, O, X, own, rank)
<1>1. PICK next, prev, first, n,
    top : next = NextL(f) /\ prev = PrevL(f) /\ first = FirstL(f) /\ n = Len(f.L) /\ top = f.freeL
  OBVIOUS
<1>2. PICK next2, prev2, first2 : next2 = NextL(h) /\ prev2 = PrevL(h) /\ first2 = FirstL(h)
  OBVIOUS
<1>3. h \in Frames /\ Len(h.L) = n /\ h.freeL = l /\ h.P = f.P
  BY <1>1 DEF FreedLine, OnlyL, SameP
<1>4. /\ \A k \in 1 .. n : next[k] = f.L[k].next /\ prev[k] = f.L[k].prev
      /\ \A k \in 1 .. n : next2[k] = h.L[k].next /\ prev2[k] = h.L[k].prev
  BY <1>1, <1>2, <1>3, LinksL
<1>5. \A k \in 1 .. n : k # l => next2[k] = next[k] /\ prev2[k] = prev[k]
  BY <1>1, <1>4 DEF FreedLine
<1>6. (next2[l] = top \/ next2[l] = 0) /\ prev2[l] = -1 /\ prev[l] # -1
  BY <1>1, <1>4 DEF FreedLine
<1>7. \A o \in O : first2[o] = first[o]
  BY <1>1, <1>2, <1>3 DEF FirstL
<1>8. LayerFrees(n, X, O, own, rank, first, next, prev, top, l, first2, next2, prev2)
  BY <1>1, <1>5, <1>6, <1>7 DEF LayerFrees
<1>9. Layer(X, O, own, rank, first, next, prev, top, n)
  BY <1>1 DEF LLayer
<1>10. Layer(X, O, own, rank, first2, next2, prev2, l, n)
  BY ONLY <1>8, <1>9, LayerFree
<1> QED
  BY <1>2, <1>3, <1>10 DEF LLayer

\* A paragraph that is out of use is freed.
PFreed(f, h, p) ==
  /\ h \in Frames /\ Len(h.P) = Len(f.P) /\ h.freeP = p /\ h.firstP = f.firstP
  /\ h.P[p].next = f.freeP /\ h.P[p].prev = -1
  /\ \A k \in 1 .. Len(f.P) : k # p => h.P[k] = f.P[k]

\* A paragraph that is linked out can be freed.
LEMMA PFree ==
  ASSUME NEW f \in Frames, NEW X, ListP(f, X), NEW p \in 1 .. Len(f.P), p \notin X,
         f.P[p].prev # -1,
         NEW h, PFreed(f, h, p)
  PROVE  ListP(h, X)
<1>0. PICK O, own, rank : O = OwnerOf(X) /\ PLayer(f, O, X, own, rank)
  BY DEF ListP
<1>1. PICK next, prev, first, n,
    top : next = NextP(f) /\ prev = PrevP(f) /\ first = FirstP(f) /\ n = Len(f.P) /\ top = f.freeP
  OBVIOUS
<1>2. PICK next2, prev2, first2 : next2 = NextP(h) /\ prev2 = PrevP(h) /\ first2 = FirstP(h)
  OBVIOUS
<1>3. h \in Frames /\ Len(h.P) = n /\ h.freeP = p /\ h.firstP = f.firstP
  BY <1>1 DEF PFreed
<1>4. /\ \A k \in 1 .. n : next[k] = f.P[k].next /\ prev[k] = f.P[k].prev
      /\ \A k \in 1 .. n : next2[k] = h.P[k].next /\ prev2[k] = h.P[k].prev
  BY <1>1, <1>2, <1>3, LinksP
<1>5. \A k \in 1 .. n : k # p => next2[k] = next[k] /\ prev2[k] = prev[k]
  BY <1>1, <1>4 DEF PFreed
<1>6. (next2[p] = top \/ next2[p] = 0) /\ prev2[p] = -1 /\ prev[p] # -1
  BY <1>1, <1>4 DEF PFreed
<1>7. \A o \in O : first2[o] = first[o]
  BY <1>1, <1>2, <1>3 DEF FirstP
<1>8. LayerFrees(n, X, O, own, rank, first, next, prev, top, p, first2, next2, prev2)
  BY <1>1, <1>5, <1>6, <1>7 DEF LayerFrees
<1>9. Layer(X, O, own, rank, first, next, prev, top, n)
  BY <1>0, <1>1 DEF PLayer
<1>10. Layer(X, O, own, rank, first2, next2, prev2, p, n)
  BY ONLY <1>8, <1>9, LayerFree
<1>11. PLayer(h, O, X, own, rank)
  BY <1>2, <1>3, <1>10 DEF PLayer
<1> QED
  BY <1>0, <1>11 DEF ListP

\* The elements of paragraph p are in no list, and the others keep their places.
LaidWithout(XL, oL, rL, XB, oB, rB, p, RL, RB, XL2, oL2, rL2, XB2, oB2, rB2) ==
  /\ RL = Of(XL, oL, p) /\ XL2 = XL \ RL
  /\ RB = {b \in XB : oB[b] \in RL} /\ XB2 = XB \ RB
  /\ oL2 = [l \in XL2 |-> oL[l]] /\ rL2 = [l \in XL2 |-> rL[l]]
  /\ oB2 = [b \in XB2 |-> oB[b]] /\ rB2 = [b \in XB2 |-> rB[b]]

\* The lines and boxes of a paragraph are in use no more.
LEMMA DropPara ==
  ASSUME NEW f, NEW Q, NEW XL, NEW oL, NEW rL, NEW XB, NEW oB, NEW rB,
         LB(f, Q, XL, oL, rL, XB, oB, rB),
         NEW p \in Q, NEW RL, NEW RB, NEW XL2, NEW oL2, NEW rL2, NEW XB2, NEW oB2, NEW rB2,
         LaidWithout(XL, oL, rL, XB, oB, rB, p, RL, RB, XL2, oL2, rL2, XB2, oB2, rB2),
         NEW Q2, Q2 = Q \ {p}
  PROVE  LB(f, Q2, XL2, oL2, rL2, XB2, oB2, rB2)
<1>1. /\ f \in Frames /\ Q \subseteq 1 .. Len(f.P) /\ XL \subseteq 1 .. Len(f.L) /\ XB \subseteq 1 .. Len(f.B)
      /\ LLayer(f, Q, XL, oL, rL) /\ BLayer(f, XL, XB, oB, rB)
      /\ oL \in [XL -> Q] /\ rL \in [XL -> Nat \ {0}] /\ oB \in [XB -> XL] /\ rB \in [XB -> Nat \ {0}]
  BY LBFacts
<1>2. /\ RL = {l \in XL : oL[l] = p} /\ XL2 = XL \ RL
      /\ RB = {b \in XB : oB[b] \in RL} /\ XB2 = XB \ RB
      /\ oL2 = [l \in XL2 |-> oL[l]] /\ rL2 = [l \in XL2 |-> rL[l]]
      /\ oB2 = [b \in XB2 |-> oB[b]] /\ rB2 = [b \in XB2 |-> rB[b]]
  BY DEF LaidWithout, Of
<1>3. LLayer(f, Q2, XL2, oL2, rL2)
  <2>1. PICK n, first, next, prev, top,
      D : /\ n = Len(f.L) /\ first = FirstL(f) /\ next = NextL(f) /\ prev = PrevL(f)
                                            /\ top = f.freeL /\ D = {p}
    OBVIOUS
  <2>2. LayerDrops(n, XL, Q, oL, rL, first, next, prev, top, D, XL2, Q2, oL2, rL2)
    <3>1. XL2 = {x \in XL : oL[x] \notin D}
      BY <1>2, <2>1
    <3>2. oL2 \in [XL2 -> Q2] /\ rL2 \in [XL2 -> Nat \ {0}]
      BY <1>1, <1>2
    <3> QED
      BY <1>2, <2>1, <3>1, <3>2 DEF LayerDrops
  <2>3. Layer(XL, Q, oL, rL, first, next, prev, top, n)
    BY <1>1, <2>1 DEF LLayer
  <2>4. Layer(XL2, Q2, oL2, rL2, first, next, prev, top, n)
    BY ONLY <2>2, <2>3, LayerDrop
  <2> QED
    BY <2>1, <2>4 DEF LLayer
<1>4. BLayer(f, XL2, XB2, oB2, rB2)
  <2>1. PICK n, first, next, prev,
      top : /\ n = Len(f.B) /\ first = FirstB(f) /\ next = NextB(f) /\ prev = PrevB(f)
                                         /\ top = f.freeB
    OBVIOUS
  <2>2. LayerDrops(n, XB, XL, oB, rB, first, next, prev, top, RL, XB2, XL2, oB2, rB2)
    <3>1. XB2 = {x \in XB : oB[x] \notin RL}
      BY <1>2
    <3>2. oB2 \in [XB2 -> XL2] /\ rB2 \in [XB2 -> Nat \ {0}]
      BY <1>1, <1>2
    <3> QED
      BY <1>2, <3>1, <3>2 DEF LayerDrops
  <2>3. Layer(XB, XL, oB, rB, first, next, prev, top, n)
    BY <1>1, <2>1 DEF BLayer
  <2>4. Layer(XB2, XL2, oB2, rB2, first, next, prev, top, n)
    BY ONLY <2>2, <2>3, LayerDrop
  <2> QED
    BY <2>1, <2>4 DEF BLayer
<1>5. BoxesGood(f, XB2) /\ LineBoxesLast(f, XB2, oB2)
  <2>1. BoxesGood(f, XB) /\ LineBoxesLast(f, XB, oB)
    BY DEF LB
  <2> QED
    BY <1>2, <2>1 DEF BoxesGood, LineBoxesLast
<1>6. Q2 \subseteq 1 .. Len(f.P)
  BY <1>1
<1> QED
  BY <1>1, <1>3, <1>4, <1>5, <1>6 DEF LB

\* The lines RL and boxes RB are in no list, and are not free yet: they are as they
\* were in the frame u, and so is everything that is in use.
Limbo(u, g, Q, XL, oL, rL, XB, oB, rB, RL, RB) ==
  /\ LB(g, Q, XL, oL, rL, XB, oB, rB)
  /\ SameP(u, g) /\ g.text = u.text /\ g.width = u.width /\ SameC(u, g)
  /\ Len(g.L) = Len(u.L) /\ Len(g.B) = Len(u.B)
  /\ RL \subseteq 1 .. Len(u.L) /\ RL \cap XL = {}
  /\ RB \subseteq 1 .. Len(u.B) /\ RB \cap XB = {}
  /\ \A l \in XL \cup RL : g.L[l] = u.L[l]
  /\ \A b \in XB \cup RB : g.B[b] = u.B[b]
  /\ \A l \in RL : u.L[l].prev # -1
  /\ \A b \in RB : u.B[b].prev # -1
  /\ Sum(g, XB \cup RB) = g.len

\* A line that is in no list is freed.
LEMMA LimboLine ==
  ASSUME NEW u, NEW g, NEW Q, NEW XL, NEW oL, NEW rL, NEW XB, NEW oB, NEW rB, NEW RL, NEW RB,
         Limbo(u, g, Q, XL, oL, rL, XB, oB, rB, RL, RB), NEW l \in RL, NEW RL2, RL2 = RL \ {l},
         NEW h, h = FreeLine(g, l)
  PROVE  Limbo(u, h, Q, XL, oL, rL, XB, oB, rB, RL2, RB)
<1>1. /\ LB(g, Q, XL, oL, rL, XB, oB, rB)
      /\ SameP(u, g) /\ g.text = u.text /\ g.width = u.width /\ SameC(u, g)
      /\ Len(g.L) = Len(u.L) /\ Len(g.B) = Len(u.B)
      /\ RL \subseteq 1 .. Len(u.L) /\ RL \cap XL = {}
      /\ RB \subseteq 1 .. Len(u.B) /\ RB \cap XB = {}
      /\ (\A m \in XL \cup RL : g.L[m] = u.L[m])
      /\ (\A b \in XB \cup RB : g.B[b] = u.B[b])
      /\ (\A m \in RL : u.L[m].prev # -1)
      /\ (\A b \in RB : u.B[b].prev # -1)
      /\ Sum(g, XB \cup RB) = g.len
  BY DEF Limbo
<1>2. /\ g \in Frames /\ Q \subseteq 1 .. Len(g.P) /\ XL \subseteq 1 .. Len(g.L)
      /\ LLayer(g, Q, XL, oL, rL) /\ BLayer(g, XL, XB, oB, rB)
      /\ BoxesGood(g, XB) /\ LineBoxesLast(g, XB, oB)
      /\ oB \in [XB -> XL]
  BY <1>1, LBFacts DEF LB
<1>3. l \in 1 .. Len(g.L) /\ l \notin XL /\ g.L[l].prev # -1
  BY <1>1
<1>4. FreedLine(g, h, l)
  BY <1>2, <1>3, FreeLineIs
<1>5. /\ h \in Frames /\ SameP(g, h) /\ SameB(g, h) /\ SameT(g, h) /\ SameC(g,
         h) /\ Len(h.L) = Len(g.L)
      /\ \A k \in 1 .. Len(g.L) : k # l => h.L[k] = g.L[k]
  BY <1>4 DEF FreedLine, OnlyL
<1>6. LLayer(h, Q, XL, oL, rL)
  BY <1>2, <1>3, <1>4, LFree
<1>7. \A m \in XL : h.L[m] = g.L[m]
  BY <1>2, <1>3, <1>5
<1>8. BLayer(h, XL, XB, oB, rB)
  <2>1. XL \subseteq 1 .. Len(h.L) /\ \A o \in XL : h.L[o].firstB = g.L[o].firstB
    BY <1>2, <1>5, <1>7
  <2> QED
    BY <1>2, <1>5, <2>1, BLayerKept
<1>9. BoxesGood(h, XB) /\ LineBoxesLast(h, XB, oB)
  BY <1>2, <1>5, <1>7 DEF BoxesGood, LineBoxesLast, SameB, SameT
<1>10. LB(h, Q, XL, oL, rL, XB, oB, rB)
  BY <1>2, <1>5, <1>6, <1>8, <1>9 DEF LB, SameP
<1>11. Sum(h, XB \cup RB) = h.len
  BY <1>1, <1>5 DEF SameB, SameT, Sum
<1>12. SameP(u, h) /\ h.text = u.text /\ h.width = u.width /\ SameC(u,
    h) /\ Len(h.L) = Len(u.L) /\ Len(h.B) = Len(u.B)
  BY <1>1, <1>5 DEF SameP, SameT, SameC, SameB
<1>13. \A m \in XL \cup RL2 : h.L[m] = u.L[m]
  <2> SUFFICES ASSUME NEW m \in XL \cup RL2 PROVE h.L[m] = u.L[m]
    OBVIOUS
  <2>1. m # l /\ m \in XL \cup RL /\ m \in 1 .. Len(g.L)
    BY <1>1, <1>2, <1>3
  <2> QED
    BY <1>1, <1>5, <2>1
<1>14. \A b \in XB \cup RB : h.B[b] = u.B[b]
  BY <1>1, <1>5 DEF SameB
<1>15. RL2 \subseteq 1 .. Len(u.L) /\ RL2 \cap XL = {} /\ \A m \in RL2 : u.L[m].prev # -1
  BY <1>1
<1> QED
  BY <1>1, <1>10, <1>11, <1>12, <1>13, <1>14, <1>15 DEF Limbo

\* The length of the text is set.
LEMMA SetLenIs ==
  ASSUME NEW f \in Frames, NEW n \in Int, NEW h, h = [f EXCEPT !.len = n]
  PROVE  /\ h \in Frames /\ SameP(f, h) /\ SameL(f, h) /\ SameB(f, h) /\ SameC(f, h)
         /\ h.text = f.text /\ h.width = f.width /\ h.len = n
BY DEF Frames, SameP, SameL, SameB, SameC

\* A box that is in no list is freed, and its text is not counted any more.
LEMMA DropBoxIs ==
  ASSUME NEW f \in Frames, NEW b \in 1 .. Len(f.B), NEW h, h = DropBox(f, b)
  PROVE  /\ BFreed(f, h, b) /\ SameP(f, h) /\ SameL(f, h) /\ SameC(f, h)
         /\ h.text = f.text /\ h.width = f.width /\ h.len = f.len - BoxLen(f.B[b])
<1>1. f.B[b] \in BoxSet /\ f.len \in Int
  BY NextIndexType DEF Frames
<1>2. BoxLen(f.B[b]) \in Int
  BY <1>1, LenType
<1>3. PICK n \in Int : n = f.len - BoxLen(f.B[b])
  BY <1>1, <1>2
<1>4. PICK g : g = [f EXCEPT !.len = n]
  OBVIOUS
<1>5. /\ g \in Frames /\ SameP(f, g) /\ SameL(f, g) /\ SameB(f, g) /\ SameC(f, g)
      /\ g.text = f.text /\ g.width = f.width /\ g.len = n
  BY <1>4, SetLenIs
<1>6. h = FreeBox(g, b)
  BY <1>3, <1>4 DEF DropBox, Frames
<1>7. g.B = f.B /\ g.freeB = f.freeB
  BY <1>5 DEF SameB
<1>8. OneBox(g, h, b, [g.B[b] EXCEPT !.next = g.freeB, !.prev = -1]) /\ h.freeB = b
  BY <1>5, <1>6, <1>7, FreeBoxIs
<1>9. h.B[b].next = f.freeB /\ h.B[b].prev = -1
  BY <1>1, <1>7, <1>8 DEF OneBox, BoxSet
<1>10. /\ h \in Frames /\ SameP(g, h) /\ SameL(g, h) /\ SameT(g, h) /\ SameC(g, h)
       /\ Len(h.B) = Len(g.B) /\ \A k \in 1 .. Len(g.B) : k # b => h.B[k] = g.B[k]
  BY <1>8 DEF OneBox, OnlyB
<1>11. BFreed(f, h, b)
  BY <1>5, <1>7, <1>8, <1>9, <1>10 DEF BFreed, SameL
<1> QED
  BY <1>3, <1>5, <1>10, <1>11 DEF SameP, SameL, SameC, SameT

\* A box that is in no list is freed.
LEMMA LimboBox ==
  ASSUME NEW u, NEW g, NEW Q, NEW XL, NEW oL, NEW rL, NEW XB, NEW oB, NEW rB, NEW RL, NEW RB,
         Limbo(u, g, Q, XL, oL, rL, XB, oB, rB, RL, RB), NEW b \in RB, NEW RB2, RB2 = RB \ {b},
         NEW h, h = DropBox(g, b)
  PROVE  Limbo(u, h, Q, XL, oL, rL, XB, oB, rB, RL, RB2)
<1>1. /\ LB(g, Q, XL, oL, rL, XB, oB, rB)
      /\ SameP(u, g) /\ g.text = u.text /\ g.width = u.width /\ SameC(u, g)
      /\ Len(g.L) = Len(u.L) /\ Len(g.B) = Len(u.B)
      /\ RL \subseteq 1 .. Len(u.L) /\ RL \cap XL = {}
      /\ RB \subseteq 1 .. Len(u.B) /\ RB \cap XB = {}
      /\ (\A m \in XL \cup RL : g.L[m] = u.L[m])
      /\ (\A x \in XB \cup RB : g.B[x] = u.B[x])
      /\ (\A m \in RL : u.L[m].prev # -1)
      /\ (\A x \in RB : u.B[x].prev # -1)
      /\ Sum(g, XB \cup RB) = g.len
  BY DEF Limbo
<1>2. /\ g \in Frames /\ Q \subseteq 1 .. Len(g.P) /\ XL \subseteq 1 .. Len(g.L) /\ XB \subseteq 1 .. Len(g.B)
      /\ LLayer(g, Q, XL, oL, rL) /\ BLayer(g, XL, XB, oB, rB)
      /\ BoxesGood(g, XB) /\ LineBoxesLast(g, XB, oB)
      /\ oB \in [XB -> XL]
  BY <1>1, LBFacts DEF LB
<1>3. b \in 1 .. Len(g.B) /\ b \notin XB /\ g.B[b].prev # -1
  BY <1>1
<1>4. /\ BFreed(g, h, b) /\ SameP(g, h) /\ SameL(g, h) /\ SameC(g, h)
      /\ h.text = g.text /\ h.width = g.width /\ h.len = g.len - BoxLen(g.B[b])
  BY <1>2, <1>3, DropBoxIs
<1>5. h \in Frames /\ Len(h.B) = Len(g.B) /\ \A k \in 1 .. Len(g.B) : k # b => h.B[k] = g.B[k]
  BY <1>4 DEF BFreed
<1>6. BLayer(h, XL, XB, oB, rB)
  BY <1>2, <1>3, <1>4, BFree
<1>7. \A x \in XB : h.B[x] = g.B[x]
  BY <1>2, <1>3, <1>5
<1>8. LLayer(h, Q, XL, oL, rL)
  <2>1. h.freeL = g.freeL /\ h.L = g.L /\ h.P = g.P
    BY <1>4 DEF SameL, SameP
  <2>2. /\ Len(h.L) = Len(g.L) /\ Q \subseteq 1 .. Len(h.P) /\ (\A o \in Q : h.P[o].firstL = g.P[o].firstL)
        /\ \A x \in 1 .. Len(g.L) : h.L[x].next = g.L[x].next /\ h.L[x].prev = g.L[x].prev
    BY <1>2, <2>1
  <2> QED
    BY <1>2, <1>5, <2>1, <2>2, LLayerKept
<1>9. BoxesGood(h, XB) /\ LineBoxesLast(h, XB, oB)
  BY <1>2, <1>4, <1>7 DEF BoxesGood, LineBoxesLast, SameL
<1>10. LB(h, Q, XL, oL, rL, XB, oB, rB)
  BY <1>2, <1>4, <1>5, <1>6, <1>8, <1>9 DEF LB, SameP
<1>11. Sum(h, XB \cup RB2) = h.len
  <2>1. PICK S, T : S = XB \cup RB /\ T = XB \cup RB2
    OBVIOUS
  <2>2. PICK z \in Nat : z = 0
    OBVIOUS
  <2>3. PICK n \in Nat : n = Len(g.B)
    BY <1>2 DEF Frames
  <2>4. S \subseteq 1 .. n /\ T = S \ {b} /\ b \in S /\ Len(h.B) = n /\ b # z
    BY <1>1, <1>2, <1>3, <1>5, <2>1, <2>2, <2>3
  <2>5. \A k \in 1 .. n : k # b => LenAt(h, T, k) = LenAt(g, S, k)
    BY <1>5, <2>3, <2>4 DEF LenAt
  <2>6. /\ Len(g.B) <= Len(h.B) /\ T \subseteq 1 .. n
        /\ b \in 0 .. Len(h.B) /\ z \in 0 .. Len(h.B)
    BY <1>3, <2>2, <2>3, <2>4
  <2>7. SumsDiffer(g, h, S, T, b, z)
    BY <2>2, <2>3, <2>4, <2>5, <2>6 DEF SumsDiffer
  <2>8. Sum(h, T) = Sum(g, S) + LenAt(h, T, b) - LenAt(g, S, b) + LenAt(h, T, z) - LenAt(g, S, z)
    BY <1>2, <1>5, <2>7, SumChanged
  <2>9. LenAt(h, T, b) = 0 /\ LenAt(g, S, b) = BoxLen(g.B[b]) /\ LenAt(h, T, z) = 0 /\ LenAt(g, S,
      z) = 0
    <3>1. z \notin S /\ z \notin T /\ b \notin T
      BY <2>2, <2>3, <2>4
    <3> QED
      BY <2>4, <3>1 DEF LenAt
  <2>10. g.B[b] \in BoxSet
    BY <1>2, <1>3, NextIndexType
  <2>11. BoxLen(g.B[b]) \in Int /\ g.len \in Int
    BY <1>2, <2>10, LenType DEF Frames
  <2>12. Sum(g, S) = g.len
    BY <1>1, <2>1
  <2>13. Sum(h, T) = h.len
    BY <1>4, <2>8, <2>9, <2>11, <2>12
  <2> QED
    BY <2>1, <2>13
<1>12. SameP(u, h) /\ h.text = u.text /\ h.width = u.width /\ SameC(u,
    h) /\ Len(h.L) = Len(u.L) /\ Len(h.B) = Len(u.B)
  BY <1>1, <1>4, <1>5 DEF SameP, SameC, SameL
<1>13. \A x \in XB \cup RB2 : h.B[x] = u.B[x]
  <2> SUFFICES ASSUME NEW x \in XB \cup RB2 PROVE h.B[x] = u.B[x]
    OBVIOUS
  <2>1. x # b /\ x \in XB \cup RB /\ x \in 1 .. Len(g.B)
    BY <1>1, <1>2, <1>3
  <2> QED
    BY <1>1, <1>5, <2>1
<1>14. \A m \in XL \cup RL : h.L[m] = u.L[m]
  BY <1>1, <1>4 DEF SameL
<1>15. RB2 \subseteq 1 .. Len(u.B) /\ RB2 \cap XB = {} /\ \A x \in RB2 : u.B[x].prev # -1
  BY <1>1
<1> QED
  BY <1>1, <1>10, <1>11, <1>12, <1>13, <1>14, <1>15 DEF Limbo

\* A box in use is not free.
LEMMA BPrev ==
  ASSUME NEW f \in Frames, NEW O, NEW X, NEW own, NEW rank, BLayer(f, O, X, own, rank)
  PROVE  \A x \in X : f.B[x].prev # -1
<1>1. PICK n, first, next, prev, top :
        n = Len(f.B) /\ first = FirstB(f) /\ next = NextB(f) /\ prev = PrevB(f) /\ top = f.freeB
  OBVIOUS
<1>2. Layer(X, O, own, rank, first, next, prev, top, n)
  BY <1>1 DEF BLayer
<1>3. \A x \in X : prev[x] # -1
  BY <1>2, LayerPrev
<1>4. \A x \in X : PrevB(f)[x] = f.B[x].prev
  BY BLayerFacts
<1> QED
  BY <1>1, <1>3, <1>4

\* A paragraph was taken out of the list: its lines and boxes are in no list, and
\* the lines and boxes of the others keep their places.
LEMMA LimboStarts ==
  ASSUME NEW f, NEW X, NEW XL, NEW oL, NEW rL, NEW XB, NEW oB, NEW rB,
         LB(f, X, XL, oL, rL, XB, oB, rB),
         Sum(f, XB) = f.len, NEW p \in X, NEW u, Unlinked(f, u, p),
         NEW RL, NEW RB, NEW XL2, NEW oL2, NEW rL2, NEW XB2, NEW oB2, NEW rB2,
         LaidWithout(XL, oL, rL, XB, oB, rB, p, RL, RB, XL2, oL2, rL2, XB2, oB2, rB2),
         NEW Q, Q = X \ {p}
  PROVE  LB(u, X, XL, oL, rL, XB, oB, rB) /\ Limbo(u, u, Q, XL2, oL2, rL2, XB2, oB2, rB2, RL, RB)
<1>1. /\ PUnlinked(f, u, p) /\ SameL(f, u) /\ SameB(f, u) /\ SameT(f, u)
      /\ \A k \in 1 .. Len(f.P) : u.P[k].firstL = f.P[k].firstL
  BY DEF Unlinked
<1>2. u \in Frames /\ Len(u.P) = Len(f.P)
  BY <1>1 DEF PUnlinked
<1>3. X \subseteq 1 .. Len(f.P)
  BY LBFacts
<1>4. SameLay(f, u, X)
  BY <1>1, <1>2, <1>3 DEF SameLay
<1>5. LB(u, X, XL, oL, rL, XB, oB, rB) /\ Sum(u, XB) = Sum(f, XB)
  BY <1>4, LBKept
<1>6. LB(u, Q, XL2, oL2, rL2, XB2, oB2, rB2)
  BY <1>5, DropPara
<1>7. /\ RL = Of(XL, oL, p) /\ XL2 = XL \ RL
      /\ RB = {b \in XB : oB[b] \in RL} /\ XB2 = XB \ RB
  BY DEF LaidWithout
<1>8. /\ XL \subseteq 1 .. Len(u.L) /\ XB \subseteq 1 .. Len(u.B)
      /\ LLayer(u, X, XL, oL, rL) /\ BLayer(u, XL, XB, oB, rB) /\ X \subseteq 1 .. Len(u.P)
  BY <1>5, LBFacts
<1>9. RL \subseteq XL /\ RB \subseteq XB
  BY <1>7 DEF Of
<1>10. \A l \in RL : u.L[l].prev # -1
  BY <1>2, <1>8, <1>9, LLayerFacts
<1>11. \A b \in RB : u.B[b].prev # -1
  BY <1>2, <1>8, <1>9, BPrev
<1>12. XB2 \cup RB = XB /\ RL \cap XL2 = {} /\ RB \cap XB2 = {}
  BY <1>7, <1>9
<1>13. Sum(u, XB2 \cup RB) = u.len
  BY <1>1, <1>5, <1>12 DEF SameT
<1> QED
  BY <1>5, <1>6, <1>8, <1>9, <1>10, <1>11, <1>12, <1>13 DEF Limbo, SameP, SameC

\* The loop that frees the boxes of a line (editor.go), round by round.
LEMMA BoxDroppingSteps ==
  \A bs, f :
    /\ BoxDropping!Run(bs, f, 0) = f
    /\ \A k \in Nat : BoxDropping!Run(bs, f, k + 1) = DropBoxRound(bs, BoxDropping!Run(bs, f, k),
        k + 1)
BY BoxDropping!RunStarts, BoxDropping!RunGoesOn

\* Some of the boxes that are in no list, each one once.
Distinct(s, S) ==
  /\ Len(s) \in Nat /\ \A k \in 1 .. Len(s) : s[k] \in S
  /\ \A j, k \in 1 .. Len(s) : s[j] = s[k] => j = k
After(s, k, S) == {x \in S : \A j \in 1 .. k : s[j] # x}

\* Boxes that are in no list are freed, one after the other.
LEMMA LimboBoxes ==
  ASSUME NEW u, NEW g, NEW Q, NEW XL, NEW oL, NEW rL, NEW XB, NEW oB, NEW rB, NEW RL, NEW RB,
         Limbo(u, g, Q, XL, oL, rL, XB, oB, rB, RL, RB), NEW bs, Distinct(bs, RB),
         NEW n, n = Len(bs), NEW h, h = DropBoxes(g, bs)
  PROVE  Limbo(u, h, Q, XL, oL, rL, XB, oB, rB, RL, After(bs, n, RB))
<1>1. PICK at : at = [k \in Nat |-> BoxDropping!Run(bs, g, k)]
  OBVIOUS
<1>2. n \in Nat
  BY DEF Distinct
<1>3. at[0] = g /\ \A k \in 0 .. n - 1 : at[k + 1] = DropBox(at[k], bs[k + 1])
  BY <1>1, <1>2, BoxDroppingSteps, SMTT(30) DEF DropBoxRound
<1>4. PICK S : S = {k \in 0 .. n : Limbo(u, at[k], Q, XL, oL, rL, XB, oB, rB, RL, After(bs, k, RB))}
  OBVIOUS
<1>5. 0 \in S
  <2>1. After(bs, 0, RB) = RB
    BY DEF After
  <2> QED
    BY <1>2, <1>3, <1>4, <2>1
<1>6. \A k \in 0 .. n - 1 : k \in S => k + 1 \in S
  <2> SUFFICES ASSUME NEW k \in 0 .. n - 1, k \in S PROVE k + 1 \in S
    OBVIOUS
  <2>1. PICK c, d, b, A, B, j : c = at[k] /\ d = at[k + 1] /\ b = bs[k + 1] /\ A = After(bs, k,
      RB) /\ B = A \ {b} /\ j = k + 1
    OBVIOUS
  <2>2. d = DropBox(c, b) /\ Limbo(u, c, Q, XL, oL, rL, XB, oB, rB, RL, A)
    BY <1>3, <1>4, <2>1
  <2>3. j \in 1 .. n /\ k \in Nat /\ \A i \in 1 .. k : i \in 1 .. n /\ i # j
    BY <1>2, <2>1
  <2>4. b \in A
    BY <2>1, <2>3 DEF Distinct, After
  <2>5. Limbo(u, d, Q, XL, oL, rL, XB, oB, rB, RL, B)
    BY <2>1, <2>2, <2>4, LimboBox
  <2>6. B = After(bs, j, RB)
    <3>1. \A i : i \in 1 .. j <=> i \in 1 .. k \/ i = j
      BY <2>1, <2>3
    <3> QED
      BY <2>1, <3>1 DEF After
  <2>7. j \in 0 .. n
    BY <2>3
  <2> QED
    BY <1>4, <2>1, <2>5, <2>6, <2>7
<1>7. \A k \in 0 .. n : k \in S
  BY <1>2, <1>5, <1>6, UpTo
<1>8. n \in S
  BY <1>2, <1>7
<1> QED
  BY <1>1, <1>2, <1>4, <1>8 DEF DropBoxes

\* The links lead through s.
Threaded(s, n, next, first, N) ==
  /\ DOMAIN next = 0 .. N /\ n # 0
  /\ first = s[1] /\ \A k \in 1 .. n - 1 : next[s[k]] = s[k + 1]
  /\ next[s[n]] = 0

\* Following links that run through a sequence gives it.
LEMMA FollowThread ==
  ASSUME NEW N \in Nat, NEW n \in 0 .. N, NEW next, NEW first, NEW s \in [1 .. n -> 1 .. N],
         Threaded(s, n, next, first, N)
  PROVE  Follow(next, first) = s
<1>2. DOMAIN next = 0 .. N
  BY DEF Threaded
<1>4. first = IF n = 0 THEN 0 ELSE s[1]
  BY DEF Threaded
<1>5. \A k \in 1 .. n - 1 : next[s[k]] = s[k + 1]
  BY DEF Threaded
<1>6. n # 0 => next[s[n]] = 0
  BY DEF Threaded
<1>7. N \in Nat /\ n \in 0 .. N
  OBVIOUS
<1>8. s \in [1 .. n -> 1 .. N]
  OBVIOUS
<1>9. Leads(next, first, s, n, N)
  BY ONLY <1>2, <1>4, <1>5, <1>6, <1>7, <1>8 DEF Leads
<1> QED
  BY <1>9, FollowIs

\* The boxes of the lines RL.
BoxesIn(RB, XB, oB, RL) == RB = {b \in XB : oB[b] \in RL}

\* A line that is in no list has the boxes it had.
LEMMA LimboBoxesAre ==
  ASSUME NEW u, NEW X, NEW XL, NEW oL, NEW rL, NEW XB, NEW oB, NEW rB,
         LB(u, X, XL, oL, rL, XB, oB, rB),
         NEW g, NEW Q, NEW XL2, NEW oL2, NEW rL2, NEW XB2, NEW oB2, NEW rB2, NEW RL, NEW RB,
         Limbo(u, g, Q, XL2, oL2, rL2, XB2, oB2, rB2, RL, RB),
         NEW l \in RL, l \in XL, BoxesIn(RB, XB, oB, RL), NEW bs, bs = Boxes(u, l)
  PROVE  /\ Boxes(g, l) = bs /\ Distinct(bs, RB)
         /\ \A b : b \in After(bs, Len(bs), RB) <=> b \in RB /\ oB[b] # l
<1>1. LineBoxes(bs, u, XB, oB, rB, l)
  BY LineBoxesAre
<1>2. /\ Len(bs) \in Nat \ {0} /\ DOMAIN bs = 1 .. Len(bs) /\ bs[1] = u.L[l].firstB
      /\ (\A k \in 1 .. Len(bs) : bs[k] \in XB /\ oB[bs[k]] = l /\ rB[bs[k]] = k /\ bs[k] \in 1 .. Len(u.B))
      /\ (\A x \in XB : oB[x] = l => rB[x] \in 1 .. Len(bs) /\ bs[rB[x]] = x)
      /\ (\A k \in 1 .. Len(bs) - 1 : NextIndex(u, bs[k]) = bs[k + 1] /\ bs[k + 1] # 0)
      /\ NextIndex(u, bs[Len(bs)]) = 0
  BY <1>1 DEF LineBoxes
<1>3. /\ Len(g.B) = Len(u.B) /\ RL \subseteq 1 .. Len(u.L)
      /\ (\A m \in RL : g.L[m] = u.L[m]) /\ (\A x \in RB : g.B[x] = u.B[x])
      /\ LB(g, Q, XL2, oL2, rL2, XB2, oB2, rB2)
  BY DEF Limbo
<1>4. \A k \in 1 .. Len(bs) : bs[k] \in RB
  BY <1>2 DEF BoxesIn
<1>5. Distinct(bs, RB)
  BY <1>2, <1>4 DEF Distinct
<1>6. g \in Frames
  BY <1>3, LBFacts
<1>7. PICK N \in Nat : N = Len(g.B)
  BY <1>6 DEF Frames
<1>8. PICK n \in Nat \ {0} : n = Len(bs)
  BY <1>2
<1>81. PICK next, first : next = NextB(g) /\ first = g.L[l].firstB
  OBVIOUS
<1>9. DOMAIN next = 0 .. N /\ \A b \in 1 .. N : next[b] = NextIndex(g, b)
  BY <1>6, <1>7, <1>81, LinksB
<1>10. \A k \in 1 .. n : bs[k] \in 1 .. N /\ next[bs[k]] = NextIndex(u, bs[k])
  <2> SUFFICES ASSUME NEW k \in 1 .. n PROVE bs[k] \in 1 .. N /\ next[bs[k]] = NextIndex(u, bs[k])
    OBVIOUS
  <2>1. bs[k] \in 1 .. N /\ g.B[bs[k]] = u.B[bs[k]]
    BY <1>2, <1>3, <1>4, <1>7, <1>8
  <2> QED
    BY <1>9, <2>1 DEF NextIndex
<1>11. n \in 1 .. n /\ \A k \in 1 .. n - 1 : k \in 1 .. n
  OBVIOUS
<1>12. n \in 0 .. N
  <2>1. PICK inj : inj = [k \in 1 .. n |-> bs[k]]
    OBVIOUS
  <2>2. \A j, k \in 1 .. n : bs[j] = bs[k] => j = k
    BY <1>2, <1>8
  <2>3. inj \in [1 .. n -> 1 .. N] /\ \A j, k \in 1 .. n : inj[j] = inj[k] => j = k
    BY <1>10, <2>1, <2>2
  <2>31. inj \in Injection(1 .. n, 1 .. N)
    BY <2>3 DEF Injection, IsInjective
  <2>4. IsFiniteSet(1 .. N) /\ Cardinality(1 .. N) = N /\ Cardinality(1 .. n) = n
    BY FS_Interval
  <2>5. Cardinality(1 .. n) <= Cardinality(1 .. N)
    BY <2>31, <2>4, FS_Injection DEF ExistsInjection
  <2> QED
    BY <2>4, <2>5
<1>13. bs \in [1 .. n -> 1 .. N]
  <2>1. bs \in [1 .. n -> XB]
    <3>1. u \in Frames /\ BLayer(u, XL, XB, oB, rB) /\ XL \subseteq 1 .. Len(u.L)
      BY LBFacts
    <3>2. BoxList(bs, u, XB, oB, rB, l)
      BY <3>1, BoxesAre
    <3> QED
      BY <1>8, <3>2 DEF BoxList, ListOf
  <2> QED
    BY <1>10, <2>1
<1>14. first = bs[1]
  BY <1>2, <1>3, <1>81
<1>15. \A k \in 1 .. n - 1 : next[bs[k]] = bs[k + 1]
  BY <1>2, <1>8, <1>10, <1>11
<1>16. next[bs[n]] = 0
  BY <1>2, <1>8, <1>10, <1>11
<1>17. Follow(next, first) = bs
  <2>1. Threaded(bs, n, next, first, N)
    BY <1>9, <1>12, <1>13, <1>14, <1>15, <1>16 DEF Threaded
  <2> QED
    BY <1>12, <1>13, <2>1, FollowThread
<1>18. Boxes(g, l) = bs
  BY <1>81, <1>17 DEF Boxes
<1>19. \A b : b \in After(bs, Len(bs), RB) <=> b \in RB /\ oB[b] # l
  <2>1. ASSUME NEW b \in RB, \A j \in 1 .. Len(bs) : bs[j] # b PROVE oB[b] # l
    BY <1>2, <2>1 DEF BoxesIn
  <2>2. ASSUME NEW b \in RB, oB[b] # l PROVE \A j \in 1 .. Len(bs) : bs[j] # b
    BY <1>2, <2>2
  <2> QED
    BY <2>1, <2>2 DEF After
<1> QED
  BY <1>5, <1>18, <1>19

\* A line that is in no list is freed with its boxes.
LEMMA LimboDropLine ==
  ASSUME NEW u, NEW X, NEW XL, NEW oL, NEW rL, NEW XB, NEW oB, NEW rB,
         LB(u, X, XL, oL, rL, XB, oB, rB),
         NEW g, NEW Q, NEW XL2, NEW oL2, NEW rL2, NEW XB2, NEW oB2, NEW rB2, NEW RL, NEW RB,
         Limbo(u, g, Q, XL2, oL2, rL2, XB2, oB2, rB2, RL, RB),
         NEW l \in RL, l \in XL, BoxesIn(RB, XB, oB, RL),
         NEW RL3, RL3 = RL \ {l}, NEW RB3, BoxesIn(RB3, XB, oB, RL3), NEW h, h = DropLine(g, l)
  PROVE  Limbo(u, h, Q, XL2, oL2, rL2, XB2, oB2, rB2, RL3, RB3)
<1>1. PICK bs, n, d, A : bs = Boxes(u, l) /\ n = Len(bs) /\ d = DropBoxes(g, bs) /\ A = After(bs,
    n, RB)
  OBVIOUS
<1>0. bs = Boxes(u, l)
  BY <1>1
<1>2a. /\ Boxes(g, l) = bs /\ Distinct(bs, RB)
       /\ \A b : b \in After(bs, Len(bs), RB) <=> b \in RB /\ oB[b] # l
  BY <1>0, LimboBoxesAre
<1>2. Boxes(g, l) = bs /\ Distinct(bs, RB) /\ \A b : b \in A <=> b \in RB /\ oB[b] # l
  BY <1>1, <1>2a
<1>3. Limbo(u, d, Q, XL2, oL2, rL2, XB2, oB2, rB2, RL, A)
  BY <1>1, <1>2, LimboBoxes
<1>4. A = RB3
  BY <1>2 DEF BoxesIn
<1>5. h = FreeLine(d, l)
  BY <1>1, <1>2 DEF DropLine
<1> QED
  BY <1>3, <1>4, <1>5, LimboLine

\* The loop that frees the lines of a paragraph (editor.go), round by round.
LEMMA LineDroppingSteps ==
  \A ls, f :
    /\ LineDropping!Run(ls, f, 0) = f
    /\ \A k \in Nat : LineDropping!Run(ls, f, k + 1) = DropLineRound(ls,
        LineDropping!Run(ls, f, k), k + 1)
BY LineDropping!RunStarts, LineDropping!RunGoesOn

\* The lines of paragraph p after the first k ones.
LinesFrom(XL, oL, rL, p, k) == {l \in XL : oL[l] = p /\ rL[l] > k}
BoxesOf(XB, oB, RL) == {b \in XB : oB[b] \in RL}

\* The lines of a paragraph that is out of the list are freed.
LEMMA DropLinesIs ==
  ASSUME NEW u, NEW X, NEW XL, NEW oL, NEW rL, NEW XB, NEW oB, NEW rB,
         LB(u, X, XL, oL, rL, XB, oB, rB),
         NEW Q, NEW XL2, NEW oL2, NEW rL2, NEW XB2, NEW oB2, NEW rB2, NEW RL, NEW RB,
         Limbo(u, u, Q, XL2, oL2, rL2, XB2, oB2, rB2, RL, RB),
         NEW p \in X, RL = Of(XL, oL, p), BoxesIn(RB, XB, oB, RL),
         NEW ls, ls = Lines(u, p), NEW h, h = DropLines(u, ls), NEW E, E = {}
  PROVE  Limbo(u, h, Q, XL2, oL2, rL2, XB2, oB2, rB2, E, E)
<1>1. u \in Frames /\ X \subseteq 1 .. Len(u.P) /\ LLayer(u, X, XL, oL,
    rL) /\ rL \in [XL -> Nat \ {0}] /\ oB \in [XB -> XL]
  BY LBFacts
<1>2. LineList(ls, u, XL, oL, rL, p)
  BY <1>1, LinesAre
<1>3. /\ Len(ls) \in Nat \ {0} /\ ls \in [1 .. Len(ls) -> XL]
      /\ (\A k \in 1 .. Len(ls) : oL[ls[k]] = p /\ rL[ls[k]] = k)
      /\ \A x \in XL : oL[x] = p => rL[x] \in 1 .. Len(ls) /\ ls[rL[x]] = x
  BY <1>2 DEF LineList, ListOf
<1>4. PICK n \in Nat : n = Len(ls)
  BY <1>3
<1>5. PICK at : at = [k \in Nat |-> LineDropping!Run(ls, u, k)]
  OBVIOUS
<1>6. at[0] = u /\ \A k \in 0 .. n - 1 : at[k + 1] = DropLine(at[k], ls[k + 1])
  <2>1. at[0] = u /\ \A k \in Nat : at[k + 1] = DropLineRound(ls, at[k], k + 1)
    BY <1>5, LineDroppingSteps
  <2>2. \A k \in 0 .. n - 1 : k \in Nat
    OBVIOUS
  <2> QED
    BY <2>1, <2>2 DEF DropLineRound
<1>7. PICK L : L = [k \in Nat |-> LinesFrom(XL, oL, rL, p, k)]
  OBVIOUS
<1>8. PICK B : B = [k \in Nat |-> BoxesOf(XB, oB, L[k])]
  OBVIOUS
<1>9. PICK S : S = {k \in 0 .. n : Limbo(u, at[k], Q, XL2, oL2, rL2, XB2, oB2, rB2, L[k], B[k])}
  OBVIOUS
<1>10. 0 \in S
  <2>1. L[0] = RL
    BY <1>1, <1>7 DEF LinesFrom, Of
  <2>2. B[0] = RB
    BY <1>8, <2>1 DEF BoxesIn, BoxesOf
  <2> QED
    BY <1>4, <1>6, <1>9, <2>1, <2>2
<1>11. \A k \in 0 .. n - 1 : k \in S => k + 1 \in S
  <2> SUFFICES ASSUME NEW k \in 0 .. n - 1, k \in S PROVE k + 1 \in S
    OBVIOUS
  <2>1. PICK c, d, l, j : c = at[k] /\ d = at[k + 1] /\ l = ls[k + 1] /\ j = k + 1
    OBVIOUS
  <2>11. PICK RL1, RB1, RL3, RB3 : RL1 = L[k] /\ RB1 = B[k] /\ RL3 = RL1 \ {l} /\ RB3 = BoxesOf(XB,
      oB, RL3)
    OBVIOUS
  <2>2. d = DropLine(c, l) /\ Limbo(u, c, Q, XL2, oL2, rL2, XB2, oB2, rB2, RL1, RB1)
    BY <1>6, <1>9, <2>1, <2>11
  <2>3. j \in 1 .. n /\ k \in Nat /\ j \in Nat
    BY <1>4, <2>1
  <2>4. l \in XL /\ oL[l] = p /\ rL[l] = j
    BY <1>3, <1>4, <2>1, <2>3
  <2>5. RL1 = LinesFrom(XL, oL, rL, p, k)
    BY <1>7, <2>3, <2>11
  <2>6. l \in RL1
    BY <2>1, <2>3, <2>4, <2>5 DEF LinesFrom
  <2>7. BoxesIn(RB1, XB, oB, RL1) /\ BoxesIn(RB3, XB, oB, RL3)
    BY <1>8, <2>3, <2>11 DEF BoxesIn, BoxesOf
  <2>8. Limbo(u, d, Q, XL2, oL2, rL2, XB2, oB2, rB2, RL3, RB3)
    BY <2>2, <2>4, <2>6, <2>7, <2>11, LimboDropLine
  <2>9. RL3 = LinesFrom(XL, oL, rL, p, j)
    <3> SUFFICES ASSUME NEW x \in XL, oL[x] = p PROVE rL[x] > k /\ x # l <=> rL[x] > j
      BY <2>5, <2>11 DEF LinesFrom
    <3>1. rL[x] \in 1 .. n /\ ls[rL[x]] = x
      BY <1>3, <1>4
    <3>2. x # l => rL[x] # j
      BY <2>1, <3>1
    <3>3. x = l => rL[x] = j
      BY <2>4
    <3> QED
      BY <2>1, <2>3, <3>1, <3>2, <3>3
  <2>10. RL3 = L[j] /\ RB3 = B[j]
    BY <1>7, <1>8, <2>3, <2>9, <2>11
  <2> QED
    BY <1>9, <2>1, <2>3, <2>8, <2>10
<1>12. \A k \in 0 .. n : k \in S
  BY <1>10, <1>11, UpTo
<1>13. Limbo(u, at[n], Q, XL2, oL2, rL2, XB2, oB2, rB2, L[n], B[n])
  BY <1>9, <1>12
<1>14. L[n] = E
  <2>1. \A x \in XL : oL[x] = p => ~(rL[x] > n)
    BY <1>3, <1>4
  <2> QED
    BY <1>7, <2>1 DEF LinesFrom
<1>15. B[n] = E
  BY <1>8, <1>14 DEF BoxesOf
<1> QED
  BY <1>4, <1>5, <1>13, <1>14, <1>15 DEF DropLines

\* A freed paragraph has the ones freed earlier after it and -1 before it.
LEMMA FreeParagraphIs ==
  ASSUME NEW f \in Frames, NEW p \in 1 .. Len(f.P), NEW h, h = FreeParagraph(f, p)
  PROVE  PFreed(f, h, p) /\ OnlyP(f, h)
<1>1. PICK x : x = [NoPara EXCEPT !.next = f.freeP, !.prev = -1]
  OBVIOUS
<1>2. f.freeP \in Nat /\ NoPara \in ParaSet
  BY NothingTypes DEF Frames
<1>3. x \in ParaSet /\ x.next = f.freeP /\ x.prev = -1
  <2>1. PICK m \in Int : m = -1
    OBVIOUS
  <2>2. PICK n \in Nat : n = f.freeP
    BY <1>2
  <2>3. PICK z, y : z = NoPara /\ y = [z EXCEPT !.next = n]
    OBVIOUS
  <2>4. z \in ParaSet
    BY <1>2, <2>3
  <2>5. y \in ParaSet /\ ParaOf(z, y, n, z.prev, z.firstL)
    BY <2>3, <2>4, ParaNext
  <2>6. x = [y EXCEPT !.prev = m]
    BY <1>1, <2>1, <2>2, <2>3, <2>4 DEF ParaSet
  <2>7. x \in ParaSet /\ ParaOf(y, x, y.next, m, y.firstL)
    BY <2>5, <2>6, ParaPrev
  <2> QED
    BY <2>1, <2>2, <2>5, <2>7 DEF ParaOf
<1>4. PICK g : g = [f EXCEPT !.P[p] = x]
  OBVIOUS
<1>5. OnePara(f, g, p, x)
  BY <1>3, <1>4, SetParaIs
<1>6. /\ g \in Frames /\ SameL(f, g) /\ SameB(f, g) /\ SameT(f, g) /\ SameC(f,
         g) /\ g.firstP = f.firstP
      /\ Len(g.P) = Len(f.P) /\ g.P[p] = x /\ \A q \in 1 .. Len(f.P) : q # p => g.P[q] = f.P[q]
  BY <1>5 DEF OnePara, OnlyP
<1>7. p \in Nat
  BY DEF Frames
<1>8. h = [g EXCEPT !.freeP = p]
  BY <1>1, <1>4 DEF FreeParagraph
<1>9. h \in Frames /\ h.P = g.P /\ h.firstP = g.firstP /\ h.freeP = p
  BY <1>6, <1>7, <1>8 DEF Frames
<1>10. SameL(g, h) /\ SameB(g, h) /\ SameT(g, h) /\ SameC(g, h)
  BY <1>6, <1>8 DEF Frames, SameL, SameB, SameT, SameC
<1> QED
  BY <1>3, <1>6, <1>9, <1>10 DEF PFreed, OnlyP, SameL, SameB, SameT, SameC

\* Paragraph p is freed with all that was its own.
Dropped(f, h, Q, p) ==
  /\ h \in Frames /\ ListP(h, Q) /\ Lay(h, Q) /\ Elsewhere(f, h, Q, p)
  /\ h.width = f.width /\ h.text = f.text /\ h.count = 0 /\ h.last = NoLast
  /\ h.firstP = 0 <=> Q = {}
  /\ \A k \in Q : h.P[k].count = f.P[k].count
  /\ \A k \in Q : h.P[k].next = IF k = f.P[p].prev THEN f.P[p].next ELSE f.P[k].next

\* The paragraphs but p have the same lines and boxes.
LEMMA WithoutAlike ==
  ASSUME NEW f, NEW h, NEW X, NEW XL, NEW oL, NEW rL, NEW XB, NEW oB, NEW rB,
         LB(f, X, XL, oL, rL, XB, oB, rB),
         NEW p \in X, NEW RL, NEW RB, NEW XL2, NEW oL2, NEW rL2, NEW XB2, NEW oB2, NEW rB2,
         LaidWithout(XL, oL, rL, XB, oB, rB, p, RL, RB, XL2, oL2, rL2, XB2, oB2, rB2),
         \A l \in XL2 : h.L[l] = f.L[l], \A b \in XB2 : h.B[b] = f.B[b],
         NEW Q, Q = X \ {p}
  PROVE  AlikeIn(f, h, XL, oL, rL, XB, oB, rB, XL2, oL2, rL2, XB2, oB2, rB2, Q, p)
<1>1. /\ RL = Of(XL, oL, p) /\ XL2 = XL \ RL
      /\ RB = {b \in XB : oB[b] \in RL} /\ XB2 = XB \ RB
      /\ oL2 = [l \in XL2 |-> oL[l]] /\ rL2 = [l \in XL2 |-> rL[l]]
      /\ oB2 = [b \in XB2 |-> oB[b]] /\ rB2 = [b \in XB2 |-> rB[b]]
  BY DEF LaidWithout
<1>2. \A l : l \in XL2 <=> l \in XL /\ oL[l] # p
  BY <1>1 DEF Of
<1>3. \A l \in XL2 : oL2[l] = oL[l] /\ rL2[l] = rL[l]
  BY <1>1
<1>4. \A b : b \in XB2 <=> b \in XB /\ oB[b] \notin RL
  BY <1>1
<1>5. \A b \in XB2 : oB2[b] = oB[b] /\ rB2[b] = rB[b]
  BY <1>1
<1>6. ASSUME NEW q \in Q, q # p PROVE SamePlaces(XL, oL, rL, XL2, oL2, rL2, q)
  BY <1>2, <1>3, <1>6 DEF SamePlaces
<1>7. ASSUME NEW l \in XL, oL[l] \in Q, oL[l] # p PROVE LineAlike(f, h, XB, oB, rB, XB2, oB2, rB2,
    l)
  <2>1. l \in XL2 /\ l \notin RL
    BY <1>1, <1>2, <1>7
  <2>2. \A b \in XB : oB[b] = l => b \in XB2
    BY <1>4, <2>1
  <2>3. SamePlaces(XB, oB, rB, XB2, oB2, rB2, l)
    BY <1>4, <1>5, <2>2 DEF SamePlaces
  <2>4. \A x \in XB : oB[x] = l => SameText(f.B[x], h.B[x])
    BY <2>2 DEF SameText
  <2>5. h.L[l].firstB = f.L[l].firstB
    BY <2>1
  <2> QED
    BY <2>3, <2>4, <2>5 DEF LineAlike
<1> QED
  BY <1>6, <1>7 DEF AlikeIn

\* A paragraph is freed with its lines and their boxes.
LEMMA DropParagraphIs ==
  ASSUME NEW f, NEW X, ListP(f, X), Lay(f, X), NEW p \in X, NEW Q, Q = X \ {p},
         NEW u, u = Unlink(f, p, f.P[p]), NEW h, h = DropParagraph(u, p)
  PROVE  Dropped(f, h, Q, p)
<1>1. PICK XL, oL, rL, XB, oB, rB : LB(f, X, XL, oL, rL, XB, oB, rB) /\ Sum(f, XB) = f.len
  BY DEF Lay
<1>2. f \in Frames /\ X \subseteq 1 .. Len(f.P) /\ oB \in [XB -> XL]
  BY <1>1, LBFacts
<1>3. Unlinked(f, u, p)
  BY <1>2, UnlinkIs
<1>4. /\ PUnlinked(f, u, p) /\ SameL(f, u) /\ SameB(f, u) /\ SameT(f, u)
      /\ u.count = 0 /\ u.last = NoLast
      /\ \A k \in 1 .. Len(f.P) : u.P[k].firstL = f.P[k].firstL /\ u.P[k].count = f.P[k].count
  BY <1>3 DEF Unlinked
<1>5. /\ u \in Frames /\ Len(u.P) = Len(f.P)
      /\ \A k \in 1 .. Len(f.P) : u.P[k].next = IF k = f.P[p].prev THEN f.P[p].next ELSE f.P[k].next
  BY <1>4 DEF PUnlinked
<1>6. /\ ListP(u, Q) /\ u.P[p].prev # -1 /\ p \in 1 .. Len(u.P)
      /\ u.firstP = 0 <=> X = {p}
  <2>1. f \in Frames /\ PUnlinked(f, u, p)
    BY <1>2, <1>4
  <2>2. /\ ListP(u, X \ {p}) /\ u.P[p].prev # -1 /\ p \in 1 .. Len(u.P)
        /\ u.firstP = 0 <=> X = {p}
    BY <2>1, PRemove, SMTT(20)
  <2> QED
    BY <2>2
<1>7. PICK RL : RL = Of(XL, oL, p)
  OBVIOUS
<1>8. PICK RB : RB = {b \in XB : oB[b] \in RL}
  OBVIOUS
<1>9. PICK XL2, XB2 : XL2 = XL \ RL /\ XB2 = XB \ RB
  OBVIOUS
<1>10. PICK oL2, rL2, oB2, rB2 : /\ oL2 = [l \in XL2 |-> oL[l]] /\ rL2 = [l \in XL2 |-> rL[l]]
                                 /\ oB2 = [b \in XB2 |-> oB[b]] /\ rB2 = [b \in XB2 |-> rB[b]]
  OBVIOUS
<1>11. LaidWithout(XL, oL, rL, XB, oB, rB, p, RL, RB, XL2, oL2, rL2, XB2, oB2, rB2)
  BY <1>7, <1>8, <1>9, <1>10 DEF LaidWithout
<1>12. LB(u, X, XL, oL, rL, XB, oB, rB) /\ Limbo(u, u, Q, XL2, oL2, rL2, XB2, oB2, rB2, RL, RB)
  BY <1>1, <1>3, <1>11, LimboStarts
<1>13. BoxesIn(RB, XB, oB, RL)
  BY <1>8 DEF BoxesIn
<1>14. PICK ls, d : ls = Lines(u, p) /\ d = DropLines(u, ls)
  OBVIOUS
<1>15. PICK E : E = {}
  OBVIOUS
<1>16. Limbo(u, d, Q, XL2, oL2, rL2, XB2, oB2, rB2, E, E)
  BY <1>7, <1>12, <1>13, <1>14, <1>15, DropLinesIs
<1>17. /\ LB(d, Q, XL2, oL2, rL2, XB2, oB2, rB2)
       /\ SameP(u, d) /\ d.text = u.text /\ d.width = u.width /\ SameC(u, d)
       /\ (\A l \in XL2 : d.L[l] = u.L[l]) /\ (\A b \in XB2 : d.B[b] = u.B[b])
       /\ Sum(d, XB2 \cup E) = d.len
  BY <1>16 DEF Limbo
<1>18. d \in Frames /\ Q \subseteq 1 .. Len(d.P)
  BY <1>17, LBFacts
<1>19. d.P = u.P /\ d.firstP = u.firstP /\ d.freeP = u.freeP
  BY <1>17 DEF SameP
<1>20. ListP(d, Q)
  <2>1. SameLinksP(u, d)
    BY <1>18, <1>19 DEF SameLinksP
  <2> QED
    BY <1>5, <1>6, <2>1, ListPKept
<1>21. h = FreeParagraph(d, p)
  BY <1>14 DEF DropParagraph
<1>22. p \in 1 .. Len(d.P) /\ p \notin Q /\ d.P[p].prev # -1
  BY <1>6, <1>19
<1>23. PFreed(d, h, p) /\ OnlyP(d, h)
  BY <1>18, <1>21, <1>22, FreeParagraphIs
<1>24. ListP(h, Q)
  BY <1>18, <1>20, <1>22, <1>23, PFree
<1>25. h \in Frames /\ Len(h.P) = Len(d.P) /\ h.firstP = d.firstP /\ \A k \in 1 .. Len(d.P) : k # p => h.P[k] = d.P[k]
  BY <1>23 DEF PFreed
<1>26. SameL(d, h) /\ SameB(d, h) /\ SameT(d, h) /\ SameC(d, h)
  BY <1>23 DEF OnlyP
<1>27. \A k \in Q : h.P[k] = u.P[k]
  BY <1>18, <1>19, <1>22, <1>25
<1>28. SameLay(d, h, Q)
  BY <1>18, <1>19, <1>25, <1>26, <1>27 DEF SameLay
<1>29. LB(h, Q, XL2, oL2, rL2, XB2, oB2, rB2) /\ Sum(h, XB2) = Sum(d, XB2)
  BY <1>17, <1>28, LBKept
<1>30. Lay(h, Q)
  <2>1. XB2 \cup E = XB2
    BY <1>15
  <2>2. Sum(h, XB2) = h.len
    BY <1>17, <1>26, <1>29, <2>1 DEF SameT
  <2> QED
    BY <1>29, <2>2 DEF Lay
<1>31. Elsewhere(f, h, Q, p)
  <2>1. \A l \in XL2 : h.L[l] = f.L[l]
    BY <1>4, <1>17, <1>26 DEF SameL
  <2>2. \A b \in XB2 : h.B[b] = f.B[b]
    BY <1>4, <1>17, <1>26 DEF SameB
  <2>3. AlikeIn(f, h, XL, oL, rL, XB, oB, rB, XL2, oL2, rL2, XB2, oB2, rB2, Q, p)
    BY <1>1, <1>11, <2>1, <2>2, WithoutAlike
  <2>4. Q \subseteq X /\ Q \subseteq Q
    OBVIOUS
  <2> QED
    BY <1>1, <1>29, <2>3, <2>4, ElsewhereIn
<1>32. h.width = f.width /\ h.text = f.text /\ h.count = 0 /\ h.last = NoLast
  BY <1>4, <1>17, <1>26 DEF SameT, SameC
<1>33. h.firstP = 0 <=> Q = {}
  BY <1>6, <1>19, <1>25
<1>34. \A k \in Q : k \in 1 .. Len(f.P)
  BY <1>2
<1> QED
  BY <1>4, <1>5, <1>24, <1>25, <1>27, <1>30, <1>31, <1>32, <1>33, <1>34 DEF Dropped

(***************************************************************************)
(* A frame without paragraphs gets an empty one.                           *)
(***************************************************************************)

\* Paragraph p is the only one.
PFirst(f, h, p) ==
  /\ h \in Frames /\ p = Slot(f.freeP, f.P)
  /\ Len(h.P) = (IF p <= Len(f.P) THEN Len(f.P) ELSE p)
  /\ h.freeP = (IF f.freeP = 0 THEN 0 ELSE f.P[f.freeP].next)
  /\ h.firstP = p /\ h.P[p].next = 0 /\ h.P[p].prev = 0
  /\ \A k \in 1 .. Len(f.P) : k # p => h.P[k].next = f.P[k].next /\ h.P[k].prev = f.P[k].prev

\* A paragraph alone is a list.
LEMMA PStarts ==
  ASSUME NEW f \in Frames, NEW X, X = {}, ListP(f, X), NEW p, NEW h, PFirst(f, h, p), NEW Y, Y = {p}
  PROVE  ListP(h, Y) /\ p \in 1 .. Len(h.P)
<1>1. PICK O : O = {}
  OBVIOUS
<1>2. PICK own, rank : PLayer(f, O, X, own, rank)
  BY <1>1 DEF ListP, OwnerOf
<1>3. /\ f.freeP \in 0 .. Len(f.P) /\ Len(f.P) \in Nat /\ p = SlotAt(f.freeP, Len(f.P))
      /\ own \in [X -> O] /\ rank \in [X -> Nat \ {0}]
  BY <1>2, PLayerFacts DEF Slot, SlotAt, PFirst
<1>4. p \in 1 .. Len(f.P) + 1 /\ p # 0 /\ p \in Nat
  BY <1>3 DEF SlotAt
<1>5. PICK N, m, top, top2 : N = Len(f.P) /\ m = Len(h.P) /\ top = f.freeP /\ top2 = h.freeP
  OBVIOUS
<1>6. m \in Nat /\ N <= m /\ p <= m /\ p \in 1 .. m /\ \A x \in 1 .. N : x \in 1 .. m
  <2>1. m = IF p <= N THEN N ELSE p
    BY <1>5 DEF PFirst
  <2> QED
    BY <1>3, <1>4, <1>5, <2>1
<1>7. PICK next, prev, first : next = NextP(f) /\ prev = PrevP(f) /\ first = FirstP(f)
  OBVIOUS
<1>8. PICK next2, prev2, first2 : next2 = NextP(h) /\ prev2 = PrevP(h) /\ first2 = FirstP(h)
  OBVIOUS
<1>9. \A x \in 1 .. N : next[x] = f.P[x].next /\ prev[x] = f.P[x].prev
  BY <1>5, <1>7, LinksP
<1>10. (\A x \in 1 .. m : next2[x] = h.P[x].next /\ prev2[x] = h.P[x].prev) /\ first2[0] = h.firstP
  BY <1>5, <1>8, LinksP DEF PFirst
<1>11. PICK o : o = 0
  OBVIOUS
<1>12. PICK O2, own2, rank2 : O2 = {o} /\ own2 = [x \in Y |-> o] /\ rank2 = [x \in Y |-> 1]
  OBVIOUS
<1>13. LayerStarts(N, X, O, own, rank, first, next, prev, top, o, p, m, top2, first2, next2, prev2,
    Y, O2, own2, rank2)
  <2>1. o \notin O /\ p = SlotAt(top, N) /\ m \in Nat /\ N <= m /\ p <= m
    BY <1>1, <1>3, <1>5, <1>6
  <2>2. top2 = IF top = 0 THEN 0 ELSE next[top]
    BY <1>3, <1>5, <1>9 DEF PFirst
  <2>3. first2[o] = p /\ \A q \in O : first2[q] = first[q]
    BY <1>1, <1>10, <1>11 DEF PFirst
  <2>4. next2[p] = 0 /\ prev2[p] = 0
    BY <1>6, <1>10 DEF PFirst
  <2>5. \A x \in 1 .. N : x # p => next2[x] = next[x] /\ prev2[x] = prev[x]
    BY <1>5, <1>6, <1>9, <1>10 DEF PFirst
  <2>6. Y = X \cup {p} /\ O2 = O \cup {o}
    BY <1>1, <1>12
  <2>7. own2 \in [Y -> O2] /\ own2[p] = o /\ rank2 \in [Y -> Nat \ {0}] /\ rank2[p] = 1
    BY <1>12
  <2> QED
    BY <2>1, <2>2, <2>3, <2>4, <2>5, <2>6, <2>7 DEF LayerStarts
<1>14. Layer(X, O, own, rank, first, next, prev, top, N)
  BY <1>2, <1>5, <1>7 DEF PLayer
<1>15. Layer(Y, O2, own2, rank2, first2, next2, prev2, top2, m)
  BY ONLY <1>13, <1>14, LayerOwner
<1>16. PLayer(h, O2, Y, own2, rank2)
  BY <1>5, <1>8, <1>15 DEF PLayer
<1>17. OwnerOf(Y) = O2
  BY <1>11, <1>12 DEF OwnerOf
<1> QED
  BY <1>5, <1>6, <1>16, <1>17 DEF ListP

\* The elements taken are linked, and the paragraph is the first one.
Firsts(g, h, p, l, b) == h = [g EXCEPT !.P[p].firstL = l, !.L[l].firstB = b, !.firstP = p]
\* The fields that are set when an empty frame gets a paragraph.
LEMMA RefillLinks ==
  ASSUME NEW f \in Frames, NEW g, NEW p, NEW l, NEW b, FreshlyTaken(f, g, p, l, b), NEW h,
         Firsts(g, h, p, l, b)
  PROVE  Begins(f, h, p, l, b) /\ PFirst(f, h, p) /\ SameC(f, h) /\ h.P[p].count = 0
<1>0. /\ g \in Frames /\ Len(f.P) \in Nat /\ Len(f.L) \in Nat /\ Len(f.B) \in Nat
      /\ g.P \in Seq(ParaSet) /\ g.L \in Seq(LineSet) /\ SameT(f, g) /\ SameC(f, g)
  <2>1. g \in Frames /\ SameT(f, g) /\ SameC(f, g)
    BY DEF FreshlyTaken
  <2>2. Len(f.P) \in Nat /\ Len(f.L) \in Nat /\ Len(f.B) \in Nat
    BY DEF Frames
  <2>3. g.P \in Seq(ParaSet) /\ g.L \in Seq(LineSet)
    BY <2>1 DEF Frames
  <2> QED
    BY <2>1, <2>2, <2>3
<1>1. p \in 1 .. Len(g.P) /\ Len(f.P) <= Len(g.P) /\ p \in Nat
  BY <1>0 DEF FreshlyTaken
<1>2. l \in 1 .. Len(g.L) /\ b \in Nat /\ l \in Nat
  BY <1>0 DEF FreshlyTaken
<1>3. PICK s, t, x : /\ x = [g.P[p] EXCEPT !.firstL = l] /\ s = [g.P EXCEPT ![p] = x]
                     /\ t = [g.L EXCEPT ![l].firstB = b]
  OBVIOUS
<1>4. h = [g EXCEPT !.P = s, !.L = t, !.firstP = p]
  <2>1. h = [g EXCEPT !.P[p].firstL = l, !.L[l].firstB = b, !.firstP = p]
    BY DEF Firsts
  <2>2. PICK g1 : g1 = [g EXCEPT !.P[p].firstL = l]
    OBVIOUS
  <2>3. h = [g1 EXCEPT !.L[l].firstB = b, !.firstP = p]
    BY ONLY <1>0, <2>1, <2>2 DEF Frames
  <2>4. g1 = [g EXCEPT !.P = s]
    BY ONLY <1>0, <1>1, <1>3, <2>2 DEF Frames
  <2> QED
    BY ONLY <1>0, <1>3, <2>3, <2>4 DEF Frames
<1>5. x \in ParaSet /\ ParaOf(g.P[p], x, g.P[p].next, g.P[p].prev, l)
  <2>1. PICK y : y = g.P[p]
    OBVIOUS
  <2>2. y \in ParaSet
    BY <1>0, <1>1, <2>1, ParaTypes
  <2>3. x = [y EXCEPT !.firstL = l]
    BY <1>3, <2>1
  <2>4. x \in ParaSet /\ ParaOf(y, x, y.next, y.prev, l)
    BY <1>2, <2>2, <2>3, ParaFirst
  <2> QED
    BY <2>1, <2>4
<1>6. ParaAtIs(g.P, s, p, x)
  <2>1. PICK q : q = g.P
    OBVIOUS
  <2>2. q \in Seq(ParaSet) /\ p \in 1 .. Len(q) /\ s = [q EXCEPT ![p] = x]
    BY <1>0, <1>1, <1>3, <2>1
  <2>3. ParaAtIs(q, s, p, x)
    BY <1>5, <2>2, ParaSetAt
  <2> QED
    BY <2>1, <2>3
<1>7. LinesFirst(g.L, t, l, b)
  <2>1. PICK q : q = g.L
    OBVIOUS
  <2>2. q \in Seq(LineSet) /\ l \in 1 .. Len(q) /\ t = [q EXCEPT ![l].firstB = b]
    BY <1>0, <1>2, <1>3, <2>1
  <2>3. LinesFirst(q, t, l, b)
    BY <1>2, <2>2, LineFirstAt
  <2> QED
    BY <2>1, <2>3
<1>8. s \in Seq(ParaSet) /\ Len(s) = Len(g.P) /\ s[p] = x /\ \A k \in 1 .. Len(g.P) : k # p =>
    s[k] = g.P[k]
  BY <1>6 DEF ParaAtIs
<1>9. t \in Seq(LineSet)
  BY <1>7 DEF LinesFirst
<1>10. /\ h \in Frames /\ h.P = s /\ h.L = t /\ h.last = g.last /\ h.count = g.count
      /\ h.freeP = g.freeP /\ h.firstP = p /\ h.freeL = g.freeL
      /\ h.B = g.B /\ h.freeB = g.freeB /\ h.text = g.text /\ h.len = g.len /\ h.width = g.width
  <2>1. s \in Seq(ParaSet)
    BY <1>8
  <2> QED
    BY ONLY <1>0, <1>1, <1>4, <1>9, <2>1 DEF Frames
<1>11. Begins(f, h, p, l, b)
  <2>1. l = Slot(f.freeL, f.L) /\ b = Slot(f.freeB, f.B)
    BY DEF FreshlyTaken
  <2>2. /\ Len(h.L) = (IF l <= Len(f.L) THEN Len(f.L) ELSE l)
        /\ h.freeL = (IF f.freeL = 0 THEN 0 ELSE f.L[f.freeL].next)
    BY <1>7, <1>10 DEF FreshlyTaken, LinesFirst
  <2>3. h.L[l].next = 0 /\ h.L[l].prev = 0 /\ h.L[l].firstB = b
    BY <1>7, <1>10 DEF FreshlyTaken, LinesFirst, NoLine
  <2>4. \A k \in 1 .. Len(f.L) : k # l => h.L[k] = f.L[k]
    <3>1. \A k \in 1 .. Len(f.L) : k \in 1 .. Len(g.L)
      BY <1>0 DEF FreshlyTaken
    <3> QED
      BY <1>7, <1>10, <3>1 DEF FreshlyTaken, LinesFirst
  <2>5. /\ Len(h.B) = (IF b <= Len(f.B) THEN Len(f.B) ELSE b)
        /\ h.freeB = (IF f.freeB = 0 THEN 0 ELSE NextIndex(f, f.freeB))
        /\ h.B[b] = NoBox /\ \A k \in 1 .. Len(f.B) : k # b => h.B[k] = f.B[k]
    BY <1>10 DEF FreshlyTaken
  <2>6. SameT(f, h)
    BY <1>0, <1>10 DEF SameT
  <2>7. Len(f.P) <= Len(h.P) /\ p \in 1 .. Len(h.P) /\ h.P[p].firstL = l
    BY <1>1, <1>5, <1>8, <1>10 DEF ParaOf
  <2>8. \A k \in 1 .. Len(f.P) : k # p => h.P[k].firstL = f.P[k].firstL
    <3>1. \A k \in 1 .. Len(f.P) : k \in 1 .. Len(g.P) /\ (k # p => g.P[k] = f.P[k])
      BY <1>0 DEF FreshlyTaken
    <3> QED
      BY <1>8, <1>10, <3>1
  <2> QED
    BY <1>10, <2>1, <2>2, <2>3, <2>4, <2>5, <2>6, <2>7, <2>8 DEF Begins
<1>12. PFirst(f, h, p)
  <2>1. p = Slot(f.freeP, f.P)
    BY DEF FreshlyTaken
  <2>2. /\ Len(h.P) = (IF p <= Len(f.P) THEN Len(f.P) ELSE p)
        /\ h.freeP = (IF f.freeP = 0 THEN 0 ELSE f.P[f.freeP].next)
    BY <1>8, <1>10 DEF FreshlyTaken
  <2>3. h.P[p].next = 0 /\ h.P[p].prev = 0
    BY <1>5, <1>8, <1>10 DEF ParaOf, FreshlyTaken
  <2>4. \A k \in 1 .. Len(f.P) : k # p => h.P[k].next = f.P[k].next /\ h.P[k].prev = f.P[k].prev
    <3>1. \A k \in 1 .. Len(f.P) : k \in 1 .. Len(g.P) /\ (k # p => g.P[k] = f.P[k])
      BY <1>0 DEF FreshlyTaken
    <3> QED
      BY <1>8, <1>10, <3>1
  <2> QED
    BY <1>10, <2>1, <2>2, <2>3, <2>4 DEF PFirst
<1>13. h.P[p].count = 0
  BY <1>5, <1>8, <1>10 DEF ParaOf, FreshlyTaken
<1>14. SameC(f, h)
  BY <1>0, <1>10 DEF SameC
<1> QED
  BY <1>11, <1>12, <1>13, <1>14

\* The frame has one paragraph then, which is empty.
LEMMA FirstParaFine ==
  ASSUME NEW f, NEW X, X = {}, ListP(f, X), Lay(f, X), f.width > 1, f.count = 0, f.last = NoLast,
         f \in Frames,
         NEW p, NEW l, NEW b, NEW h, Begins(f, h, p, l, b), PFirst(f, h, p), SameC(f, h),
         h.P[p].count = 0
  PROVE  /\ \E Y, q : Y = {q} /\ Fine(h, Y)
         /\ h.count = 0 /\ h.last = NoLast
<1>1. PICK Y : Y = {p}
  OBVIOUS
<1>2. ListP(h, Y)
  BY <1>1, PStarts
<1>3. BegunPara(f, h, X, p, l, b)
  BY BeginsIs
<1>4. Lay(h, Y) /\ Fit(h, p) /\ NoRule(h, p)
  <2>1. X \cup {p} = Y
    BY <1>1
  <2> QED
    BY <1>3, <2>1 DEF BegunPara
<1>5. h.width > 1 /\ h.count = 0 /\ h.last = NoLast
  BY DEF Begins, SameT, SameC
<1>6. Pool(h, Y)
  BY <1>1, <1>2, <1>4, <1>5 DEF Pool
<1>7. \A q \in Y : Fit(h, q) /\ CountRight(h, q)
  BY <1>1, <1>4 DEF CountRight
<1>8. LastRight(h)
  BY <1>5 DEF LastRight
<1>9. EndOpen(h, Y)
  BY <1>1, <1>4 DEF EndOpen
<1> QED
  BY <1>1, <1>5, <1>6, <1>7, <1>8, <1>9 DEF Fine, Sound

\* A frame without paragraphs gets an empty one.
LEMMA RefillIs ==
  ASSUME NEW f, NEW X, X = {}, ListP(f, X), Lay(f, X), f.width > 1, f.count = 0, f.last = NoLast,
         align \in Alignments, NEW h, h = Refill(f)
  PROVE  /\ \E Y, p : Y = {p} /\ Fine(h, Y)
         /\ h.count = 0 /\ h.last = NoLast
<1>1. PICK p, l, b, g : /\ p = Slot(f.freeP, f.P) /\ l = Slot(f.freeL, f.L) /\ b = Slot(f.freeB,
                           f.B)
                        /\ g = AddBox(NewLine(NewParagraph(f)), NoBox)
  OBVIOUS
<1>2. f \in Frames /\ f.freeP <= Len(f.P) /\ f.freeL <= Len(f.L) /\ f.freeB <= Len(f.B)
  BY PoolFree
<1>3. FreshlyTaken(f, g, p, l, b)
  BY <1>1, <1>2, FreshIs
<1>4. Firsts(g, h, p, l, b)
  BY <1>1 DEF Firsts, Refill
<1>5. Begins(f, h, p, l, b) /\ PFirst(f, h, p) /\ SameC(f, h) /\ h.P[p].count = 0
  BY <1>2, <1>3, <1>4, RefillLinks
<1> QED
  BY <1>2, <1>5, FirstParaFine

(***************************************************************************)
(* The buffer is compacted: the live text is copied, box by box.           *)
(***************************************************************************)

\* Box x after it was moved to another place of the buffer, if it has a text.
BoxMoved(x, y) ==
  /\ y.kind = x.kind /\ y.w = x.w /\ y.color = x.color /\ y.next = x.next /\ y.prev = x.prev
  /\ BoxLen(y) = BoxLen(x)

\* The frame g is f but for the buffer and the places of the boxes in it, and the
\* boxes V have their text in the new buffer.
Packed(f, g, V) ==
  /\ g \in Frames /\ SameP(f, g) /\ SameL(f, g) /\ SameC(f, g) /\ g.width = f.width /\ g.len = f.len
  /\ g.freeB = f.freeB /\ Len(g.B) = Len(f.B)
  /\ \A b \in 1 .. Len(f.B) : BoxMoved(f.B[b], g.B[b])
  /\ \A b \in V : BoxGood(g.text, g.B[b])

\* Box x at the place from i up to j.
Placed2(x, i, j, y) == y = [x EXCEPT !.i = i, !.j = j]
\* A box moved to another place of the buffer.
LEMMA PlacedField ==
  ASSUME NEW x \in BoxSet, NEW i \in Nat, NEW j \in Nat, NEW y, Placed2(x, i, j, y)
  PROVE  /\ y \in BoxSet /\ y.i = i /\ y.j = j /\ y.kind = x.kind /\ y.w = x.w /\ y.color = x.color
         /\ y.next = x.next /\ y.prev = x.prev
BY DEF Placed2, BoxSet

\* The text of a box, which takes as many columns as the box.
LEMMA BytesAre ==
  ASSUME NEW f \in Frames, NEW b \in 1 .. Len(f.B), BoxGood(f.text, f.B[b]), f.B[b].kind # "line",
         NEW s, s = Bytes(f, b)
  PROVE  /\ s \in Seq(Characters) /\ Len(s) = BoxLen(f.B[b])
         /\ f.B[b].kind = "text" => f.B[b].w = StringWidth(s)
<1>1. PICK x, t : x = f.B[b] /\ t = f.text
  OBVIOUS
<1>2. x \in BoxSet /\ t \in Seq(Characters) /\ Len(t) \in Nat
  BY <1>1 DEF Frames
<1>3. x.i \in Nat /\ x.j \in Nat
  BY <1>2 DEF BoxSet
<1>4. x.i <= x.j /\ x.j <= Len(t) /\ (x.kind = "text" => x.w = Columns(t, x.j) - Columns(t, x.i))
  BY <1>1 DEF BoxGood
<1>5. PICK a, c, n : a = x.i /\ c = x.j /\ n = c - a
  OBVIOUS
<1>6. a \in Nat /\ c \in Nat /\ n \in Nat /\ a + n = c /\ c <= Len(t)
  BY <1>3, <1>4, <1>5
<1>7. s = SubSeq(t, a + 1, c)
  BY <1>1, <1>5 DEF Bytes
<1>8. s \in Seq(Characters) /\ Len(s) = n /\ \A k \in 1 .. n : s[k] = t[a + k]
  <2>1. \A k \in a + 1 .. c : k \in 1 .. Len(t) /\ t[k] \in Characters
    BY <1>2, <1>6
  <2>2. s = [k \in 1 .. n |-> t[a + k]]
    BY <1>6, <1>7, SMTT(30)
  <2>3. \A k \in 1 .. n : a + k \in a + 1 .. c
    BY <1>6
  <2>4. \A k \in 1 .. n : t[a + k] \in Characters
    BY <2>1, <2>3
  <2>5. s \in [1 .. n -> Characters]
    BY <2>2, <2>4
  <2>6. s \in Seq(Characters)
    BY <1>6, <2>5
  <2>7. Len(s) = n
    BY <1>6, <2>2
  <2> QED
    BY <2>2, <2>6, <2>7
<1>9. Len(s) = BoxLen(x)
  BY <1>1, <1>5, <1>8 DEF BoxLen
<1>10. Columns(t, c) - Columns(t, a) = StringWidth(s)
  <2>1. PICK z \in Nat : z = 0
    OBVIOUS
  <2>2. SameRunes(t, s, a, z, n)
    BY <1>6, <1>8, <2>1 DEF SameRunes
  <2>3. Columns(t, a + n) - Columns(t, a) = Columns(s, z + n) - Columns(s, z)
    BY <1>2, <1>8, <2>2, ColumnsShift
  <2>4. Columns(s, z) = 0
    BY <1>8, <2>1, ColumnsStep
  <2>5. z + n = n /\ n \in 0 .. Len(s)
    BY <1>6, <1>8, <2>1
  <2>6. Columns(s, n) \in Int
    BY <1>8, <2>5, ColumnsStep
  <2> QED
    BY <1>6, <1>8, <2>3, <2>4, <2>5, <2>6 DEF StringWidth
<1> QED
  BY <1>1, <1>4, <1>5, <1>8, <1>9, <1>10

\* More text in the buffer.
MoreBytes(g, h, s) == h = [g EXCEPT !.text = @ \o s]
BytesPut(f, g, h, V, s) == Packed(f, h, V) /\ h.text = g.text \o s /\ h.B = g.B
\* The text of a box is moved to the end of the new buffer.
LEMMA PackedMore ==
  ASSUME NEW f \in Frames, NEW g, NEW V, Packed(f, g, V), V \subseteq 1 .. Len(f.B),
         NEW s \in Seq(Characters), NEW h, MoreBytes(g, h, s)
  PROVE  BytesPut(f, g, h, V, s)
<1>1. g \in Frames
  BY DEF Packed
<1>2. g.text \in Seq(Characters)
  BY <1>1 DEF Frames
<1>3. PICK t : t = g.text \o s
  OBVIOUS
<1>4. t \in Seq(Characters)
  BY <1>2, <1>3
<1>5. h = [g EXCEPT !.text = t]
  BY <1>3 DEF MoreBytes
<1>6. /\ h \in Frames /\ h.text = t /\ h.P = g.P /\ h.L = g.L /\ h.B = g.B
      /\ h.freeP = g.freeP /\ h.freeL = g.freeL /\ h.freeB = g.freeB /\ h.firstP = g.firstP
      /\ h.len = g.len /\ h.width = g.width /\ h.count = g.count /\ h.last = g.last
  BY ONLY <1>1, <1>4, <1>5 DEF Frames
<1>7. ASSUME NEW b \in V PROVE BoxGood(h.text, h.B[b])
  <2>1. PICK x, r : x = g.B[b] /\ r = g.text
    OBVIOUS
  <2>2. b \in 1 .. Len(g.B)
    BY DEF Packed
  <2>3. x \in BoxSet
    <3>1. g.B \in Seq(BoxSet)
      BY <1>1 DEF Frames
    <3> QED
      BY <2>1, <2>2, <3>1
  <2>4. BoxGood(r, x)
    BY <2>1 DEF Packed
  <2>5. BoxGood(t, x)
    BY <1>2, <1>3, <2>1, <2>3, <2>4, GoodMore
  <2> QED
    BY <1>6, <2>1, <2>5
<1> QED
  BY <1>3, <1>6, <1>7 DEF Packed, SameP, SameL, SameC, BytesPut

\* A box gets its text in the new buffer.
LEMMA CompactBoxIs ==
  ASSUME NEW f \in Frames, NEW g, NEW V, Packed(f, g, V), V \subseteq 1 .. Len(f.B),
         NEW b \in 1 .. Len(f.B), BoxGood(f.text, f.B[b]),
         NEW W, W = V \cup {b}, NEW h, h = CompactBox(f, g, b)
  PROVE  Packed(f, h, W)
<1>1. /\ g \in Frames /\ Len(g.B) = Len(f.B) /\ b \in 1 .. Len(g.B)
      /\ BoxMoved(f.B[b], g.B[b])
  BY DEF Packed
<1>2. CASE f.B[b].kind = "line"
  <2>1. h = g
    BY <1>2 DEF CompactBox
  <2>2. g.B[b].kind = "line"
    BY <1>1, <1>2 DEF BoxMoved
  <2>3. "text" # "line"
    OBVIOUS
  <2>4. BoxGood(g.text, g.B[b])
    BY <2>2, <2>3 DEF BoxGood
  <2> QED
    BY <2>1, <2>4 DEF Packed
<1>3. CASE f.B[b].kind # "line"
  <2>1. PICK s, n, m : s = Bytes(f, b) /\ n = Len(g.text) /\ m = n + Len(s)
    OBVIOUS
  <2>2. /\ s \in Seq(Characters) /\ Len(s) = BoxLen(f.B[b])
        /\ f.B[b].kind = "text" => f.B[b].w = StringWidth(s)
    BY <1>3, <2>1, BytesAre
  <2>3. g.text \in Seq(Characters) /\ n \in Nat /\ Len(s) \in Nat /\ m \in Nat /\ g.B[b] \in BoxSet
    <3>1. g.B \in Seq(BoxSet) /\ g.text \in Seq(Characters)
      BY <1>1 DEF Frames
    <3>2. g.B[b] \in BoxSet
      BY <1>1, <3>1
    <3>3. n \in Nat /\ Len(s) \in Nat
      BY <2>1, <2>2, <3>1
    <3> QED
      BY <2>1, <3>1, <3>2, <3>3
  <2>4. PICK d : d = [g EXCEPT !.text = @ \o s]
    OBVIOUS
  <2>5. Packed(f, d, V) /\ d.text = g.text \o s /\ d.B = g.B
    <3>1. MoreBytes(g, d, s)
      BY <2>4 DEF MoreBytes
    <3>2. f \in Frames /\ Packed(f, g, V) /\ V \subseteq 1 .. Len(f.B) /\ s \in Seq(Characters)
      BY <2>2
    <3>3. BytesPut(f, g, d, V, s)
      BY ONLY <3>1, <3>2, PackedMore
    <3> QED
      BY <3>3 DEF BytesPut
  <2>6. d \in Frames
    BY <2>5 DEF Packed
  <2>7. PICK x, y : x = g.B[b] /\ y = [x EXCEPT !.i = n, !.j = m]
    OBVIOUS
  <2>8. /\ y \in BoxSet /\ y.i = n /\ y.j = m /\ y.kind = x.kind /\ y.w = x.w /\ y.color = x.color
        /\ y.next = x.next /\ y.prev = x.prev
    <3>1. Placed2(x, n, m, y)
      BY <2>7 DEF Placed2
    <3>2. x \in BoxSet
      BY <2>3, <2>7
    <3> QED
      BY <2>3, <3>1, <3>2, PlacedField
  <2>9. h = [d EXCEPT !.B[b] = y]
    <3>1. h = [g EXCEPT !.text = @ \o s, !.B[b].i = n, !.B[b].j = m]
      BY <1>3, <2>1 DEF CompactBox
    <3>2. h = [d EXCEPT !.B[b].i = n, !.B[b].j = m]
      BY ONLY <1>1, <2>4, <3>1 DEF Frames
    <3>3. b \in DOMAIN d.B
      BY <1>1, <2>5, SMTT(30) DEF Frames
    <3> QED
      BY ONLY <2>5, <2>6, <2>7, <3>2, <3>3 DEF Frames
  <2>10. b \in 1 .. Len(d.B)
    BY <1>1, <2>5
  <2>11. OneBox(d, h, b, y) /\ h.freeB = d.freeB
    BY <2>6, <2>8, <2>9, <2>10, SetBoxIs
  <2>12. /\ OnlyB(d, h) /\ Len(h.B) = Len(d.B)
         /\ h.B[b] = y /\ \A k \in 1 .. Len(d.B) : k # b => h.B[k] = d.B[k]
    BY <2>11 DEF OneBox
  <2>13. BoxMoved(f.B[b], y)
    <3>1. BoxLen(y) = Len(s)
      <4>1. y.kind # "line"
        BY <1>1, <1>3, <2>7, <2>8 DEF BoxMoved
      <4> QED
        BY <2>1, <2>3, <2>8, <4>1 DEF BoxLen
    <3> QED
      BY <1>1, <2>2, <2>7, <2>8, <3>1 DEF BoxMoved
  <2>14. BoxGood(d.text, y)
    <3>1. PICK t, u : t = g.text /\ u = d.text
      OBVIOUS
    <3>2. /\ Len(u) = Len(t) + Len(s)
          /\ Columns(u, Len(u)) - Columns(u, Len(t)) = StringWidth(s)
      BY <2>2, <2>3, <2>5, <3>1, ColumnsMore
    <3>3. Len(t) = n /\ Len(u) = m
      BY <2>1, <3>1, <3>2
    <3>4. y.kind = "text" => y.w = Columns(u, m) - Columns(u, n)
      BY <1>1, <2>2, <2>7, <2>8, <3>2, <3>3 DEF BoxMoved
    <3>5. n <= m /\ m <= Len(u)
      BY <2>1, <2>3, <3>3
    <3> QED
      BY <2>8, <3>1, <3>4, <3>5 DEF BoxGood
  <2>15. h.text = d.text /\ h \in Frames
    BY <2>12 DEF OnlyB, SameT
  <2>16. \A k \in W : BoxGood(h.text, h.B[k])
    <3>1. \A k \in V : k \in 1 .. Len(d.B) /\ BoxGood(d.text, d.B[k])
      BY <1>1, <2>5 DEF Packed
    <3> QED
      BY <2>12, <2>14, <2>15, <3>1
  <2>17. \A k \in 1 .. Len(f.B) : BoxMoved(f.B[k], h.B[k])
    <3>1. \A k \in 1 .. Len(f.B) : k \in 1 .. Len(d.B) /\ BoxMoved(f.B[k], d.B[k])
      BY <1>1, <2>5 DEF Packed
    <3> QED
      BY <2>12, <2>13, <3>1
  <2> QED
    BY <2>5, <2>11, <2>12, <2>15, <2>16, <2>17 DEF Packed, OnlyB, SameP, SameL, SameC, SameT
<1> QED
  BY <1>2, <1>3

\* The loop over the boxes of a compaction (frame.go), round by round.
LEMMA BoxCompactionSteps ==
  \A c, g :
    /\ BoxCompaction!Run(c, g, 0) = g
    /\ \A k \in Nat : BoxCompaction!Run(c, g, k + 1) = CompactBoxRound(c,
        BoxCompaction!Run(c, g, k), k + 1)
BY BoxCompaction!RunStarts, BoxCompaction!RunGoesOn

\* The loop over the lines of a compaction (frame.go), round by round.
LEMMA LineCompactionSteps ==
  \A c, g :
    /\ LineCompaction!Run(c, g, 0) = g
    /\ \A k \in Nat : LineCompaction!Run(c, g, k + 1) = CompactLineRound(c,
        LineCompaction!Run(c, g, k), k + 1)
BY LineCompaction!RunStarts, LineCompaction!RunGoesOn

\* The loop over the paragraphs of a compaction (frame.go), round by round.
LEMMA ParaCompactionSteps ==
  \A c, g :
    /\ ParaCompaction!Run(c, g, 0) = g
    /\ \A k \in Nat : ParaCompaction!Run(c, g, k + 1) = CompactParaRound(c,
        ParaCompaction!Run(c, g, k), k + 1)
BY ParaCompaction!RunStarts, ParaCompaction!RunGoesOn

\* The first k of the boxes bs, the boxes of the first k of the lines ls, and those
\* of the first k of the paragraphs ps.
MetBoxes(XB, bs, k) == {b \in XB : \E j \in 1 .. k : bs[j] = b}
MetLines(XB, oB, ls, k) == {b \in XB : \E j \in 1 .. k : ls[j] = oB[b]}
MetParas(XB, oL, oB, ps, k) == {b \in XB : \E j \in 1 .. k : ps[j] = oL[oB[b]]}

\* One more of them.
LEMMA MoreOnes ==
  ASSUME NEW k \in Nat
  PROVE  \A i : i \in 1 .. k + 1 <=> i \in 1 .. k \/ i = k + 1
OBVIOUS

\* The boxes of a line are moved.
LEMMA CompactLineIs ==
  ASSUME NEW f, NEW X, NEW XL, NEW oL, NEW rL, NEW XB, NEW oB, NEW rB,
         LB(f, X, XL, oL, rL, XB, oB, rB),
         NEW g, NEW V, V \subseteq XB, Packed(f, g, V), NEW l \in XL, NEW bs, bs = Boxes(f, l),
         NEW W, W = V \cup {b \in XB : oB[b] = l}, NEW h, h = CompactLine(f, g, bs)
  PROVE  Packed(f, h, W) /\ W \subseteq XB
<1>1. /\ f \in Frames /\ XL \subseteq 1 .. Len(f.L) /\ XB \subseteq 1 .. Len(f.B)
      /\ BLayer(f, XL, XB, oB, rB)
  BY LBFacts
<1>2. BoxList(bs, f, XB, oB, rB, l)
  BY <1>1, BoxesAre
<1>3. PICK n : n = Len(bs)
  OBVIOUS
<1>4. /\ n \in Nat /\ \A k \in 1 .. n : bs[k] \in XB /\ oB[bs[k]] = l
      /\ \A b \in XB : oB[b] = l => \E j \in 1 .. n : bs[j] = b
  BY <1>2, <1>3 DEF BoxList, ListOf
<1>5. PICK c : c = [f |-> f, bs |-> bs]
  OBVIOUS
<1>6. c.f = f /\ c.bs = bs
  BY <1>5
<1>7. PICK at : at = [k \in Nat |-> BoxCompaction!Run(c, g, k)]
  OBVIOUS
<1>8. at[0] = g /\ \A k \in 0 .. n - 1 : at[k + 1] = CompactBox(f, at[k], bs[k + 1])
  BY <1>4, <1>6, <1>7, BoxCompactionSteps DEF CompactBoxRound
<1>9. PICK S : S = {k \in 0 .. n : Packed(f, at[k], V \cup MetBoxes(XB, bs, k))}
  OBVIOUS
<1>10. 0 \in S
  <2>1. V \cup MetBoxes(XB, bs, 0) = V
    BY DEF MetBoxes
  <2> QED
    BY <1>4, <1>8, <1>9, <2>1
<1>11. \A k \in 0 .. n - 1 : k \in S => k + 1 \in S
  <2> SUFFICES ASSUME NEW k \in 0 .. n - 1, k \in S PROVE k + 1 \in S
    OBVIOUS
  <2>1. PICK a, d, b, A, B,
      j : /\ a = at[k] /\ d = at[k + 1] /\ b = bs[k + 1] /\ A = V \cup MetBoxes(XB, bs, k)
                                /\ B = A \cup {b} /\ j = k + 1
    OBVIOUS
  <2>2. d = CompactBox(f, a, b) /\ Packed(f, a, A)
    BY <1>8, <1>9, <2>1
  <2>3. j \in 1 .. n /\ k \in Nat /\ b \in XB /\ b \in 1 .. Len(f.B)
    <3>1. j \in 1 .. n /\ k \in Nat /\ b = bs[j]
      BY <1>4, <2>1
    <3>2. b \in XB
      BY <1>4, <3>1
    <3> QED
      BY <1>1, <3>1, <3>2
  <2>4. A \subseteq 1 .. Len(f.B)
    BY <1>1, <2>1 DEF MetBoxes
  <2>5. BoxGood(f.text, f.B[b])
    BY <2>3 DEF LB, BoxesGood
  <2>6. Packed(f, d, B)
    BY <1>1, <2>1, <2>2, <2>3, <2>4, <2>5, CompactBoxIs
  <2>7. B = V \cup MetBoxes(XB, bs, j)
    <3>1. \A i : i \in 1 .. j <=> i \in 1 .. k \/ i = j
      BY <2>1, <2>3, MoreOnes
    <3> QED
      BY <2>1, <2>3, <3>1 DEF MetBoxes
  <2>8. j \in 0 .. n
    BY <2>3
  <2> QED
    BY <1>9, <2>1, <2>6, <2>7, <2>8
<1>12. \A k \in 0 .. n : k \in S
  BY <1>4, <1>10, <1>11, UpTo
<1>13. n \in S
  BY <1>4, <1>12
<1>14. h = at[n]
  BY <1>3, <1>4, <1>5, <1>7 DEF CompactLine
<1>15. W = V \cup MetBoxes(XB, bs, n)
  BY <1>4 DEF MetBoxes
<1> QED
  BY <1>9, <1>13, <1>14, <1>15

\* The boxes of a paragraph are moved.
LEMMA CompactParaIs ==
  ASSUME NEW f, NEW X, NEW XL, NEW oL, NEW rL, NEW XB, NEW oB, NEW rB,
         LB(f, X, XL, oL, rL, XB, oB, rB),
         NEW g, NEW V, V \subseteq XB, Packed(f, g, V), NEW p \in X, NEW ls, ls = Lines(f, p),
         NEW W, W = V \cup {b \in XB : oL[oB[b]] = p}, NEW h, h = CompactPara(f, g, ls)
  PROVE  Packed(f, h, W) /\ W \subseteq XB
<1>1. /\ f \in Frames /\ X \subseteq 1 .. Len(f.P) /\ oB \in [XB -> XL]
      /\ LLayer(f, X, XL, oL, rL)
  BY LBFacts
<1>2. LineList(ls, f, XL, oL, rL, p)
  BY <1>1, LinesAre
<1>3. PICK n : n = Len(ls)
  OBVIOUS
<1>4. /\ n \in Nat /\ \A k \in 1 .. n : ls[k] \in XL /\ oL[ls[k]] = p
      /\ \A l \in XL : oL[l] = p => \E j \in 1 .. n : ls[j] = l
  BY <1>2, <1>3 DEF LineList, ListOf
<1>5. PICK c : c = [f |-> f, ls |-> ls]
  OBVIOUS
<1>6. c.f = f /\ c.ls = ls
  BY <1>5
<1>7. PICK at : at = [k \in Nat |-> LineCompaction!Run(c, g, k)]
  OBVIOUS
<1>8. at[0] = g /\ \A k \in 0 .. n - 1 : at[k + 1] = CompactLine(f, at[k], Boxes(f, ls[k + 1]))
  BY <1>4, <1>6, <1>7, LineCompactionSteps DEF CompactLineRound
<1>9. PICK S : S = {k \in 0 .. n : Packed(f, at[k], V \cup MetLines(XB, oB, ls, k))}
  OBVIOUS
<1>10. 0 \in S
  <2>1. V \cup MetLines(XB, oB, ls, 0) = V
    BY DEF MetLines
  <2> QED
    BY <1>4, <1>8, <1>9, <2>1
<1>11. \A k \in 0 .. n - 1 : k \in S => k + 1 \in S
  <2> SUFFICES ASSUME NEW k \in 0 .. n - 1, k \in S PROVE k + 1 \in S
    OBVIOUS
  <2>1. PICK a, d, l, bs, A, B, j : /\ a = at[k] /\ d = at[k + 1] /\ l = ls[k + 1] /\ bs = Boxes(f,
                                       l)
                                    /\ A = V \cup MetLines(XB, oB, ls, k)
                                    /\ B = A \cup {b \in XB : oB[b] = l} /\ j = k + 1
    OBVIOUS
  <2>2. d = CompactLine(f, a, bs) /\ Packed(f, a, A)
    BY <1>8, <1>9, <2>1
  <2>3. j \in 1 .. n /\ k \in Nat /\ l \in XL
    BY <1>4, <2>1
  <2>4. A \subseteq XB
    BY <2>1 DEF MetLines
  <2>5. LB(f, X, XL, oL, rL, XB, oB, rB) /\ bs = Boxes(f, l) /\ B = A \cup {b \in XB : oB[b] = l}
    BY <2>1
  <2>6. Packed(f, d, B)
    BY ONLY <2>2, <2>3, <2>4, <2>5, CompactLineIs
  <2>7. B = V \cup MetLines(XB, oB, ls, j)
    <3>1. \A i : i \in 1 .. j <=> i \in 1 .. k \/ i = j
      BY <2>1, <2>3, MoreOnes
    <3>2. ls[j] = l
      BY <2>1
    <3> QED
      BY <2>1, <2>3, <3>1, <3>2 DEF MetLines
  <2>8. j \in 0 .. n
    BY <2>3
  <2> QED
    BY <1>9, <2>1, <2>6, <2>7, <2>8
<1>12. \A k \in 0 .. n : k \in S
  BY <1>4, <1>10, <1>11, UpTo
<1>13. n \in S
  BY <1>4, <1>12
<1>14. h = at[n]
  BY <1>3, <1>4, <1>5, <1>7 DEF CompactPara
<1>15. W = V \cup MetLines(XB, oB, ls, n)
  BY <1>1, <1>4 DEF MetLines
<1> QED
  BY <1>9, <1>13, <1>14, <1>15

\* All boxes in use are moved.
LEMMA CompactParasIs ==
  ASSUME NEW f, NEW X, X # {}, ListP(f, X), NEW XL, NEW oL, NEW rL, NEW XB, NEW oB, NEW rB,
         LB(f, X, XL, oL, rL, XB, oB, rB),
         NEW g, NEW V, V = {}, Packed(f, g, V), NEW ps, ps = Paras(f), NEW h,
         h = CompactParas(f, g, ps)
  PROVE  Packed(f, h, XB)
<1>1. /\ f \in Frames /\ oB \in [XB -> XL] /\ oL \in [XL -> X]
  BY LBFacts
<1>2. ParaList(ps, f, X)
  BY <1>1, ParasAre
<1>3. PICK n : n = Len(ps)
  OBVIOUS
<1>4. /\ n \in Nat /\ \A k \in 1 .. n : ps[k] \in X
      /\ \A p \in X : \E j \in 1 .. n : ps[j] = p
  BY <1>2, <1>3 DEF ParaList
<1>5. PICK c : c = [f |-> f, ps |-> ps]
  OBVIOUS
<1>6. c.f = f /\ c.ps = ps
  BY <1>5
<1>7. PICK at : at = [k \in Nat |-> ParaCompaction!Run(c, g, k)]
  OBVIOUS
<1>8. at[0] = g /\ \A k \in 0 .. n - 1 : at[k + 1] = CompactPara(f, at[k], Lines(f, ps[k + 1]))
  BY <1>4, <1>6, <1>7, ParaCompactionSteps DEF CompactParaRound
<1>9. PICK S : S = {k \in 0 .. n : Packed(f, at[k], MetParas(XB, oL, oB, ps, k))}
  OBVIOUS
<1>10. 0 \in S
  <2>1. MetParas(XB, oL, oB, ps, 0) = V
    BY DEF MetParas
  <2> QED
    BY <1>4, <1>8, <1>9, <2>1
<1>11. \A k \in 0 .. n - 1 : k \in S => k + 1 \in S
  <2> SUFFICES ASSUME NEW k \in 0 .. n - 1, k \in S PROVE k + 1 \in S
    OBVIOUS
  <2>1. PICK a, d, p, ls, A, B, j : /\ a = at[k] /\ d = at[k + 1] /\ p = ps[k + 1] /\ ls = Lines(f,
                                       p)
                                    /\ A = MetParas(XB, oL, oB, ps, k)
                                    /\ B = A \cup {b \in XB : oL[oB[b]] = p} /\ j = k + 1
    OBVIOUS
  <2>2. d = CompactPara(f, a, ls) /\ Packed(f, a, A)
    BY <1>8, <1>9, <2>1
  <2>3. j \in 1 .. n /\ k \in Nat /\ p \in X
    BY <1>4, <2>1
  <2>4. A \subseteq XB
    BY <2>1 DEF MetParas
  <2>5. LB(f, X, XL, oL, rL, XB, oB, rB) /\ ls = Lines(f,
      p) /\ B = A \cup {b \in XB : oL[oB[b]] = p}
    BY <2>1
  <2>6. Packed(f, d, B)
    BY ONLY <2>2, <2>3, <2>4, <2>5, CompactParaIs
  <2>7. B = MetParas(XB, oL, oB, ps, j)
    <3>1. \A i : i \in 1 .. j <=> i \in 1 .. k \/ i = j
      BY <2>1, <2>3, MoreOnes
    <3>2. ps[j] = p
      BY <2>1
    <3> QED
      BY <2>1, <2>3, <3>1, <3>2 DEF MetParas
  <2>8. j \in 0 .. n
    BY <2>3
  <2> QED
    BY <1>9, <2>1, <2>6, <2>7, <2>8
<1>12. \A k \in 0 .. n : k \in S
  BY <1>4, <1>10, <1>11, UpTo
<1>13. n \in S
  BY <1>4, <1>12
<1>14. h = at[n]
  BY <1>3, <1>4, <1>5, <1>7 DEF CompactParas
<1>15. XB = MetParas(XB, oL, oB, ps, n)
  BY <1>1, <1>4 DEF MetParas
<1> QED
  BY <1>9, <1>13, <1>14, <1>15

\* A frame of which all boxes in use were moved has the same lists.
LEMMA PackedLists ==
  ASSUME NEW f \in Frames, NEW h, NEW V, Packed(f, h, V)
  PROVE  /\ NextP(h) = NextP(f) /\ NextL(h) = NextL(f) /\ NextB(h) = NextB(f)
         /\ \A p : Lines(h, p) = Lines(f, p)
         /\ \A l : Boxes(h, l) = Boxes(f, l)
         /\ Paras(h) = Paras(f)
         /\ \A b \in 1 .. Len(f.B) : NextIndex(h, b) = NextIndex(f, b) /\ BoxWidth(h,
             b) = BoxWidth(f, b)
<1>1. /\ h \in Frames /\ h.P = f.P /\ h.L = f.L /\ h.firstP = f.firstP /\ h.width = f.width /\ Len(h.B) = Len(f.B)
      /\ \A b \in 1 .. Len(f.B) : BoxMoved(f.B[b], h.B[b])
  BY DEF Packed, SameP, SameL
<1>2. NextP(h) = NextP(f) /\ NextL(h) = NextL(f)
  BY <1>1 DEF NextP, NextL
<1>3. \A b \in 1 .. Len(f.B) : NextIndex(h, b) = NextIndex(f, b) /\ BoxWidth(h, b) = BoxWidth(f, b)
  BY <1>1 DEF BoxMoved, NextIndex, BoxWidth
<1>4. NextB(h) = NextB(f)
  <2>1. \A b \in 0 .. Len(f.B) : b # 0 => b \in 1 .. Len(f.B)
    BY DEF Frames
  <2> QED
    BY <1>1, <1>3, <2>1 DEF NextB
<1> QED
  BY <1>1, <1>2, <1>3, <1>4 DEF Lines, Boxes, Paras

\* Moving the text keeps lines and boxes well formed, and their lengths.
LEMMA PackedLB ==
  ASSUME NEW f, NEW X, NEW XL, NEW oL, NEW rL, NEW XB, NEW oB, NEW rB,
         LB(f, X, XL, oL, rL, XB, oB, rB),
         NEW h, Packed(f, h, XB)
  PROVE  LB(h, X, XL, oL, rL, XB, oB, rB) /\ Sum(h, XB) = Sum(f, XB)
<1>1. /\ f \in Frames /\ X \subseteq 1 .. Len(f.P) /\ XL \subseteq 1 .. Len(f.L) /\ XB \subseteq 1 .. Len(f.B)
      /\ LLayer(f, X, XL, oL, rL) /\ BLayer(f, XL, XB, oB, rB)
  BY LBFacts
<1>2. /\ h \in Frames /\ h.P = f.P /\ h.L = f.L /\ h.freeL = f.freeL /\ h.freeB = f.freeB /\ Len(h.B) = Len(f.B)
      /\ \A b \in 1 .. Len(f.B) : BoxMoved(f.B[b], h.B[b])
      /\ \A b \in XB : BoxGood(h.text, h.B[b])
  BY DEF Packed, SameP, SameL
<1>3. /\ NextL(h) = NextL(f) /\ NextB(h) = NextB(f)
  BY <1>1, PackedLists
<1>4. LLayer(h, X, XL, oL, rL)
  BY <1>1, <1>2, <1>3 DEF LLayer, FirstL, PrevL
<1>5. BLayer(h, XL, XB, oB, rB)
  <2>1. PICK first, next, prev, top,
      n : first = FirstB(f) /\ next = NextB(f) /\ prev = PrevB(f) /\ top = f.freeB /\ n = Len(f.B)
    OBVIOUS
  <2>2. PICK first2, next2, prev2 : first2 = FirstB(h) /\ next2 = NextB(h) /\ prev2 = PrevB(h)
    OBVIOUS
  <2>3. Layer(XB, XL, oB, rB, first, next, prev, top, n)
    BY <1>1, <2>1 DEF BLayer
  <2>4. \A o \in XL : first2[o] = first[o]
    BY <1>2, <2>1, <2>2 DEF FirstB
  <2>5. \A x \in 1 .. n : next2[x] = next[x] /\ prev2[x] = prev[x]
    <3>1. \A x \in 1 .. n : prev[x] = f.B[x].prev
      BY <1>1, <2>1, LinksB
    <3>2. \A x \in 1 .. n : prev2[x] = h.B[x].prev
      BY <1>2, <2>1, <2>2, LinksB
    <3> QED
      BY <1>2, <1>3, <2>1, <2>2, <3>1, <3>2 DEF BoxMoved
  <2>6. Layer(XB, XL, oB, rB, first2, next2, prev2, top, n)
    BY ONLY <2>3, <2>4, <2>5, LayerSame
  <2> QED
    BY <1>2, <2>1, <2>2, <2>6 DEF BLayer
<1>6. BoxesGood(h, XB)
  BY <1>2 DEF BoxesGood
<1>7. LineBoxesLast(h, XB, oB)
  <2>1. LineBoxesLast(f, XB, oB)
    BY DEF LB
  <2> QED
    BY <1>1, <1>2, <2>1 DEF LineBoxesLast, BoxMoved
<1>8. LB(h, X, XL, oL, rL, XB, oB, rB)
  BY <1>1, <1>2, <1>4, <1>5, <1>6, <1>7 DEF LB
<1>9. Sum(h, XB) = Sum(f, XB)
  <2>1. \A k \in 1 .. Len(f.B) : LenAt(h, XB, k) = LenAt(f, XB, k)
    BY <1>2 DEF LenAt, BoxMoved
  <2>2. DOMAIN h.B = 1 .. Len(f.B) /\ DOMAIN f.B = 1 .. Len(f.B)
    BY <1>1, <1>2 DEF Frames
  <2>3. [b \in DOMAIN h.B |-> IF b \in XB THEN BoxLen(h.B[b]) ELSE 0] = [b \in DOMAIN f.B |-> IF b \in XB THEN BoxLen(f.B[b]) ELSE 0]
    BY <2>1, <2>2 DEF LenAt
  <2> QED
    BY <1>2, <2>3 DEF Sum
<1> QED
  BY <1>8, <1>9

\* A line is as wide as it was.
LEMMA PackedFits ==
  ASSUME NEW f, NEW X, NEW XL, NEW oL, NEW rL, NEW XB, NEW oB, NEW rB,
         LB(f, X, XL, oL, rL, XB, oB, rB),
         NEW h, Packed(f, h, XB), NEW l \in XL, Fits(f, l)
  PROVE  Fits(h, l)
<1>1. /\ f \in Frames /\ XL \subseteq 1 .. Len(f.L) /\ XB \subseteq 1 .. Len(f.B)
      /\ BLayer(f, XL, XB, oB, rB) /\ oB \in [XB -> XL]
  BY LBFacts
<1>2. PICK bs : bs = Boxes(f, l)
  OBVIOUS
<1>3. Boxes(h, l) = bs /\ \A b \in 1 .. Len(f.B) : BoxWidth(h, b) = BoxWidth(f, b)
  BY <1>1, <1>2, PackedLists
<1>4. BoxList(bs, f, XB, oB, rB, l)
  BY <1>1, <1>2, BoxesAre
<1>5. DOMAIN bs = 1 .. Len(bs) /\ Len(bs) # 0 /\ \A k \in 1 .. Len(bs) : bs[k] \in 1 .. Len(f.B)
  <2>1. Len(bs) \in Nat \ {0} /\ bs \in [1 .. Len(bs) -> XB]
    BY <1>4 DEF BoxList, ListOf
  <2> QED
    BY <1>1, <2>1
<1>6. [i \in DOMAIN bs |-> BoxWidth(h, bs[i])] = [i \in DOMAIN bs |-> BoxWidth(f, bs[i])]
  BY <1>3, <1>5
<1>7. LineWidth(h, l) = LineWidth(f, l)
  BY <1>2, <1>3, <1>6 DEF LineWidth, WidthUpTo
<1>8. h.width = f.width /\ h.L = f.L /\ h.B[f.L[l].firstB].kind = f.B[f.L[l].firstB].kind
  <2>1. bs[1] = f.L[l].firstB
    BY <1>4 DEF BoxList
  <2>2. f.L[l].firstB \in 1 .. Len(f.B)
    <3>1. 1 \in 1 .. Len(bs)
      BY <1>4 DEF BoxList, ListOf
    <3> QED
      BY <1>5, <2>1, <3>1
  <2> QED
    BY <2>2 DEF Packed, SameL, BoxMoved
<1> QED
  BY <1>2, <1>3, <1>7, <1>8 DEF Fits

\* No paragraph gets a line box.
LEMMA PackedRule ==
  ASSUME NEW f, NEW X, NEW XL, NEW oL, NEW rL, NEW XB, NEW oB, NEW rB,
         LB(f, X, XL, oL, rL, XB, oB, rB),
         NEW h, Packed(f, h, XB), NEW p \in X, NoRule(f, p)
  PROVE  NoRule(h, p)
<1>1. LB(h, X, XL, oL, rL, XB, oB, rB)
  BY PackedLB
<1>2. Unruled(f, oL, XB, oB, p)
  BY NoRuleIs
<1>3. Unruled(h, oL, XB, oB, p)
  <2>1. \A b \in XB : h.B[b].kind = f.B[b].kind
    BY LBFacts DEF Packed, BoxMoved
  <2> QED
    BY <1>2, <2>1 DEF Unruled
<1> QED
  BY <1>1, <1>3, NoRuleIs

\* The buffer of a frame is emptied.
Emptied(f, g) == g = [f EXCEPT !.text = <<>>]

\* A compaction starts from an empty buffer, with nothing moved.
LEMMA EmptiedIs ==
  ASSUME NEW f \in Frames, NEW g, Emptied(f, g), NEW V, V = {}
  PROVE  Packed(f, g, V)
<1>1. PICK t : t = <<>>
  OBVIOUS
<1>2. t \in Seq(Characters)
  BY <1>1
<1>3. g = [f EXCEPT !.text = t]
  BY <1>1 DEF Emptied
<1>4. /\ g \in Frames /\ SameP(f, g) /\ SameL(f, g) /\ SameC(f,
         g) /\ g.width = f.width /\ g.len = f.len
      /\ g.freeB = f.freeB /\ g.B = f.B
  BY ONLY <1>2, <1>3, f \in Frames DEF Frames, SameP, SameL, SameC
<1>5. \A b \in 1 .. Len(f.B) : BoxMoved(f.B[b], g.B[b])
  BY <1>4 DEF BoxMoved
<1> QED
  BY <1>4, <1>5 DEF Packed

\* The buffer of a sound frame is compacted, and everything is laid out as before.
LEMMA CompactTextIs ==
  ASSUME NEW f, NEW X, Sound(f, X), f.last = NoLast, NEW h, h = CompactText(f)
  PROVE  Sound(h, X) /\ (EndOpen(f, X) => EndOpen(h,
         X)) /\ h.P = f.P /\ h.count = f.count /\ h.last = NoLast
<1>1. /\ X # {} /\ f.width > 1 /\ ListP(f, X) /\ Lay(f, X)
      /\ (\A p \in X : Fit(f, p) /\ CountRight(f, p)) /\ (f.count # 0 =>
          f.count = Cardinality(X) + 1)
  BY DEF Sound, Pool
<1>2. PICK XL, oL, rL, XB, oB, rB : LB(f, X, XL, oL, rL, XB, oB, rB) /\ Sum(f, XB) = f.len
  BY <1>1 DEF Lay
<1>3. f \in Frames /\ X \subseteq 1 .. Len(f.P) /\ oL \in [XL -> X] /\ oB \in [XB -> XL]
  BY <1>2, LBFacts
<1>4. PICK g, V, ps : Emptied(f, g) /\ V = {} /\ ps = Paras(f)
  BY DEF Emptied
<1>5. Packed(f, g, V)
  BY <1>3, <1>4, EmptiedIs
<1>6. h = CompactParas(f, g, ps)
  BY <1>4 DEF CompactText, Emptied
<1>7. Packed(f, h, XB)
  BY <1>1, <1>2, <1>4, <1>5, <1>6, CompactParasIs
<1>8. h \in Frames /\ SameP(f, h) /\ SameL(f, h) /\ SameC(f,
    h) /\ h.width = f.width /\ h.len = f.len
  BY <1>7 DEF Packed
<1>9. LB(h, X, XL, oL, rL, XB, oB, rB) /\ Sum(h, XB) = Sum(f, XB)
  BY <1>2, <1>7, PackedLB
<1>10. Lay(h, X)
  BY <1>2, <1>8, <1>9 DEF Lay
<1>11. ListP(h, X)
  <2>1. SameLinksP(f, h)
    BY <1>8 DEF SameLinksP, SameP
  <2> QED
    BY <1>1, <1>3, <2>1, ListPKept
<1>12. Pool(h, X)
  BY <1>1, <1>8, <1>10, <1>11 DEF Pool
<1>13. \A p \in X : Fit(h, p)
  <2> TAKE p \in X
  <2>1. \A x \in XL : oL[x] = p => Fits(f, x)
    BY <1>1, <1>2, FitIs
  <2>2. \A x \in XL : oL[x] = p => Fits(h, x)
    BY <1>2, <1>7, <2>1, PackedFits
  <2> QED
    BY <1>9, <2>2, FitIs
<1>14. \A p \in X : CountRight(h, p)
  <2>1. \A p : Lines(h, p) = Lines(f, p)
    BY <1>3, <1>7, PackedLists
  <2> QED
    BY <1>1, <1>8, <2>1 DEF CountRight, SameP
<1>15. h.P = f.P /\ h.count = f.count /\ h.last = NoLast
  BY <1>8 DEF SameP, SameC
<1>16. LastRight(h)
  BY <1>15 DEF LastRight
<1>17. Sound(h, X)
  BY <1>1, <1>12, <1>13, <1>14, <1>15, <1>16 DEF Sound
<1>18. EndOpen(f, X) => EndOpen(h, X)
  <2>1. \A p \in X : NoRule(f, p) => NoRule(h, p)
    BY <1>2, <1>7, PackedRule
  <2> QED
    BY <1>15, <2>1 DEF EndOpen
<1> QED
  BY <1>15, <1>17, <1>18

\* A compaction keeps the frame sound.
LEMMA CompactedIs ==
  ASSUME NEW f, NEW X, Sound(f, X), f.last = NoLast, NEW h, h = Compacted(f)
  PROVE  Sound(h, X) /\ (EndOpen(f, X) => EndOpen(h,
         X)) /\ h.P = f.P /\ h.count = f.count /\ h.last = NoLast
<1>1. CASE h = CompactText(f)
  BY <1>1, CompactTextIs
<1>2. CASE h = f
  BY <1>2
<1> QED
  BY <1>1, <1>2 DEF Compacted

\* What deleting paragraph p of the paragraphs X leaves: the others, or, when there
\* are none, a new one that is empty.
Deleted(f, h, X, p) ==
  /\ h.count = 0 /\ h.last = NoLast
  /\ X # {p} => Sound(h, X \ {p}) /\ (EndOpen(f, X) /\ f.P[p].next # 0 => EndOpen(h, X \ {p}))
  /\ X = {p} => \E Y, q : Y = {q} /\ Fine(h, Y)

\* The frame without paragraph p is as sound as the frame was.
LEMMA DroppedSound ==
  ASSUME NEW f, NEW X, Sound(f, X), NEW p \in X, NEW Q, Q = X \ {p}, Q # {}, NEW h,
         Dropped(f, h, Q, p)
  PROVE  Sound(h, Q) /\ (EndOpen(f, X) /\ f.P[p].next # 0 => EndOpen(h, Q))
<1>1. /\ X # {} /\ f.width > 1 /\ ListP(f, X) /\ Lay(f, X)
      /\ (\A q \in X : Fit(f, q) /\ CountRight(f, q))
  BY DEF Sound, Pool
<1>2. /\ h \in Frames /\ ListP(h, Q) /\ Lay(h, Q) /\ Elsewhere(f, h, Q, p)
      /\ h.width = f.width /\ h.text = f.text /\ h.count = 0 /\ h.last = NoLast
      /\ \A k \in Q : h.P[k].count = f.P[k].count
      /\ \A k \in Q : h.P[k].next = IF k = f.P[p].prev THEN f.P[p].next ELSE f.P[k].next
  BY DEF Dropped
<1>3. Pool(h, Q)
  BY <1>1, <1>2 DEF Pool
<1>4. \A q \in Q : q \in X /\ q # p
  OBVIOUS
<1>5. PICK XL, oL, rL, XB, oB, rB : LB(f, X, XL, oL, rL, XB, oB, rB)
  BY <1>1 DEF Lay
<1>6. \A q \in Q : Fit(h, q)
  <2> TAKE q \in Q
  <2>1. Fit(f, q) /\ q # p
    BY <1>1, <1>4
  <2>2. Elsewhere(f, h, X, p)
    BY <1>2 DEF Elsewhere
  <2> QED
    BY <1>1, <1>2, <1>4, <2>1, <2>2, FitElsewhere
<1>7. \A q \in Q : CountRight(h, q)
  <2>1. \A q \in Q : Lines(h, q) = Lines(f, q)
    BY <1>2, <1>4 DEF Elsewhere
  <2> QED
    BY <1>1, <1>2, <1>4, <2>1 DEF CountRight
<1>8. LastRight(h)
  BY <1>2 DEF LastRight
<1>9. Sound(h, Q)
  BY <1>2, <1>3, <1>6, <1>7, <1>8 DEF Sound
<1>10. ASSUME EndOpen(f, X), f.P[p].next # 0
       PROVE  EndOpen(h, Q)
  <2>1. \A q \in Q : h.P[q].next = 0 => f.P[q].next = 0
    BY <1>2, <1>10
  <2>2. \A q \in Q : h.P[q].next = 0 => NoRule(f, q)
    BY <1>4, <1>10, <2>1 DEF EndOpen
  <2>3. \A q \in Q : NoRule(f, q) => NoRule(h, q)
    BY <1>2, <1>4, NoRuleElsewhere
  <2> QED
    BY <2>2, <2>3 DEF EndOpen
<1> QED
  BY <1>9, <1>10

\* deleteParagraph (editor.go) leaves the other paragraphs, or an empty one.
LEMMA DeleteParagraphIs ==
  ASSUME NEW f, NEW X, Sound(f, X), NEW p \in X, align \in Alignments, NEW h,
         h = DeleteParagraph(f, p)
  PROVE  Deleted(f, h, X, p)
<1>1. PICK Q : Q = X \ {p}
  OBVIOUS
<1>2. PICK u : u = Unlink(f, p, f.P[p])
  OBVIOUS
<1>3. PICK d : d = DropParagraph(u, p)
  OBVIOUS
<1>4. PICK r : r = Refilled(d)
  OBVIOUS
<1>5. h = Compacted(r)
  BY <1>2, <1>3, <1>4 DEF DeleteParagraph
<1>6. ListP(f, X) /\ Lay(f, X) /\ f.width > 1
  BY DEF Sound, Pool
<1>7. Dropped(f, d, Q, p)
  BY <1>1, <1>2, <1>3, <1>6, DropParagraphIs
<1>8. d.width = f.width /\ d.count = 0 /\ d.last = NoLast /\ ListP(d, Q) /\ Lay(d,
    Q) /\ (d.firstP = 0 <=> Q = {})
  BY <1>7 DEF Dropped
<1>9. CASE Q = {}
  <2>1. r = Refill(d)
    BY <1>4, <1>8, <1>9 DEF Refilled
  <2>2. (\E Y, q : Y = {q} /\ Fine(r, Y)) /\ r.count = 0 /\ r.last = NoLast
    BY <1>6, <1>8, <1>9, <2>1, RefillIs
  <2>3. PICK Y, q : Y = {q} /\ Fine(r, Y)
    BY <2>2
  <2>4. Sound(r, Y) /\ EndOpen(r, Y)
    BY <2>3 DEF Fine
  <2>5. Sound(h, Y) /\ EndOpen(h, Y) /\ h.count = 0 /\ h.last = NoLast
    BY <1>5, <2>2, <2>4, CompactedIs
  <2>6. Fine(h, Y)
    BY <2>5 DEF Fine
  <2>7. X = {p}
    BY <1>1, <1>9
  <2> QED
    BY <2>3, <2>5, <2>6, <2>7 DEF Deleted
<1>10. CASE Q # {}
  <2>1. r = d
    BY <1>4, <1>8, <1>10 DEF Refilled
  <2>2. Sound(d, Q) /\ (EndOpen(f, X) /\ f.P[p].next # 0 => EndOpen(d, Q))
    BY <1>1, <1>7, <1>10, DroppedSound
  <2>3. Sound(h, Q) /\ (EndOpen(d, Q) => EndOpen(h, Q)) /\ h.count = 0 /\ h.last = NoLast
    BY <1>5, <1>8, <2>1, <2>2, CompactedIs
  <2>4. X # {p}
    BY <1>1, <1>10
  <2> QED
    BY <1>1, <2>2, <2>3, <2>4 DEF Deleted
<1> QED
  BY <1>9, <1>10

\* The paragraphs have another alignment or another count of lines, which is right.
Relabeled(f, h, X) ==
  /\ SameLinksP(f, h) /\ SameLay(f, h, X) /\ SameC(f, h)
  /\ \A p \in X : CountRight(h, p)

\* The alignments play no part in a frame being sound.
LEMMA RelabeledIs ==
  ASSUME NEW f, NEW X, Sound(f, X), NEW h, Relabeled(f, h, X)
  PROVE  Sound(h, X) /\ (EndOpen(f, X) => EndOpen(h, X))
<1>1. /\ Pool(f, X) /\ (\A p \in X : Fit(f, p)) /\ (f.count # 0 =>
         f.count = Cardinality(X) + 1) /\ LastRight(f)
  BY DEF Sound
<1>2. /\ f \in Frames /\ X \subseteq 1 .. Len(f.P) /\ X # {} /\ f.width > 1
  BY <1>1, PoolFacts
<1>3. ListP(f, X) /\ Lay(f, X)
  BY <1>1 DEF Pool
<1>4. SameLinksP(f, h) /\ SameLay(f, h, X) /\ (\A p \in X : CountRight(h,
    p)) /\ h.count = f.count /\ h.last = f.last
  BY DEF Relabeled, SameC
<1>5. ListP(h, X) /\ Paras(h) = Paras(f)
  BY <1>2, <1>3, <1>4, ListPKept, ParasKept
<1>6. h \in Frames /\ h.len = f.len /\ h.width = f.width
  BY <1>4 DEF SameLay, SameT
<1>7. Lay(h, X)
  <2>1. PICK XL, oL, rL, XB, oB, rB : LB(f, X, XL, oL, rL, XB, oB, rB) /\ Sum(f, XB) = f.len
    BY <1>3 DEF Lay
  <2>2. LB(h, X, XL, oL, rL, XB, oB, rB) /\ Sum(h, XB) = Sum(f, XB)
    BY <1>4, <2>1, LBKept
  <2> QED
    BY <1>6, <2>1, <2>2 DEF Lay
<1>8. Pool(h, X)
  BY <1>2, <1>5, <1>6, <1>7 DEF Pool
<1>9. (\A p \in X : Lines(h, p) = Lines(f, p)) /\ \A l : LineKept(f, h, l) /\ (Fits(h, l) <=>
    Fits(f, l))
  BY <1>4, SameLines
<1>10. \A p \in X : Fit(h, p)
  BY <1>1, <1>9 DEF Fit
<1>11. LastRight(h)
  <2> SUFFICES ASSUME f.last # NoLast PROVE LastRight(h)
    BY <1>4 DEF LastRight
  <2>1. PICK x : x = f.last
    OBVIOUS
  <2>2. x = SetLasts(f).last
    BY <1>1, <2>1 DEF LastRight
  <2>3. EndOf(f, x)
    BY <1>1, <2>2, LastsFound
  <2>4. x.p \in X
    BY <1>1, <2>3, LastPara DEF EndOf
  <2>5. EndOf(h, x)
    BY <1>5, <1>9, <2>3, <2>4 DEF EndOf, LineKept
  <2>6. Known(h)
    BY <1>4, <2>1, <2>5 DEF Known
  <2> QED
    BY <1>8, <2>6, KnownRight
<1>12. Sound(h, X)
  BY <1>1, <1>4, <1>8, <1>10, <1>11 DEF Sound
<1>13. EndOpen(f, X) => EndOpen(h, X)
  <2>1. \A p \in X : h.P[p].next = f.P[p].next
    BY <1>2, <1>4 DEF SameLinksP
  <2>2. \A b : h.B[b] = f.B[b]
    BY <1>4 DEF SameLay, SameB
  <2>3. \A p \in X : NoRule(f, p) => NoRule(h, p)
    BY <1>9, <2>2 DEF NoRule, LineKept
  <2> QED
    BY <2>1, <2>3 DEF EndOpen
<1> QED
  BY <1>12, <1>13

\* The alignment of a paragraph.
Aligned(f, h, p, a) == h = [f EXCEPT !.P[p].align = a]
Realigned(x,
    y) == y \in ParaSet /\ y.firstL = x.firstL /\ y.next = x.next /\ y.prev = x.prev /\ y.count = x.count
\* A paragraph with another alignment.
LEMMA RealignedIs ==
  ASSUME NEW x \in ParaSet, NEW a \in Alignments, NEW y, y = [x EXCEPT !.align = a]
  PROVE  Realigned(x, y)
BY DEF Realigned, ParaSet

\* Setting the alignment of a paragraph changes nothing else.
LEMMA AlignedIs ==
  ASSUME NEW f, NEW X, Sound(f, X), NEW p \in X, NEW a \in Alignments, NEW h, Aligned(f, h, p, a)
  PROVE  Relabeled(f, h, X)
<1>1. /\ f \in Frames /\ X \subseteq 1 .. Len(f.P) /\ p \in 1 .. Len(f.P)
  BY PoolFacts DEF Sound
<1>2. PICK x, y : x = f.P[p] /\ y = [x EXCEPT !.align = a]
  OBVIOUS
<1>3. x \in ParaSet
  BY <1>1, <1>2, ParaTypes
<1>4. Realigned(x, y)
  BY <1>2, <1>3, RealignedIs
<1>5. h = [f EXCEPT !.P[p] = y]
  BY <1>2 DEF Aligned
<1>6. OnePara(f, h, p, y)
  BY <1>1, <1>4, <1>5, SetParaIs DEF Realigned
<1>7. /\ h \in Frames /\ SameL(f, h) /\ SameB(f, h) /\ SameT(f, h) /\ SameC(f, h)
      /\ h.freeP = f.freeP /\ h.firstP = f.firstP /\ Len(h.P) = Len(f.P)
      /\ h.P[p] = y /\ \A q \in 1 .. Len(f.P) : q # p => h.P[q] = f.P[q]
  BY <1>6 DEF OnePara, OnlyP
<1>8. \A q \in 1 .. Len(f.P) : /\ h.P[q].firstL = f.P[q].firstL /\ h.P[q].next = f.P[q].next
                               /\ h.P[q].prev = f.P[q].prev /\ h.P[q].count = f.P[q].count
  BY <1>2, <1>4, <1>7 DEF Realigned
<1>9. SameLinksP(f, h) /\ SameLay(f, h, X)
  BY <1>1, <1>7, <1>8 DEF SameLinksP, SameLay
<1>10. \A q \in X : Lines(h, q) = Lines(f, q)
  BY <1>9, SameLines
<1>11. \A q \in X : CountRight(h, q)
  BY <1>1, <1>8, <1>10 DEF CountRight, Sound
<1> QED
  BY <1>7, <1>9, <1>11 DEF Relabeled

\* Setting the alignment of the last paragraph keeps a frame good.
LEMMA AlignLastIs ==
  ASSUME NEW f, Good(f), NEW a \in Alignments, NEW g, g = Valid(f), NEW h,
         Aligned(g, h, g.last.p, a)
  PROVE  Good(h)
<1>1. PICK X : Sound(f, X) /\ EndOpen(f, X)
  BY DEF Good
<1>2. Sound(g, X) /\ Known(g) /\ EndOpen(g, X)
  BY <1>1, ValidIs
<1>3. PICK p : p = g.last.p
  OBVIOUS
<1>4. p \in X
  BY <1>2, <1>3, LastPara DEF Known, EndOf, Sound
<1>5. Relabeled(g, h, X)
  BY <1>2, <1>3, <1>4, AlignedIs
<1> QED
  BY <1>2, <1>5, RelabeledIs DEF Good

\* One of the first paragraphs is deleted.
LEMMA DeleteFirstOne ==
  ASSUME NEW f, Good(f), align \in Alignments, NEW h, h = DeleteParagraph(f, f.firstP)
  PROVE  Good(h)
<1>1. PICK X : Sound(f, X) /\ EndOpen(f, X)
  BY DEF Good
<1>2. f \in Frames /\ ListP(f, X) /\ X # {}
  BY <1>1, PoolFacts DEF Sound, Pool
<1>3. PICK p : p = f.firstP
  OBVIOUS
<1>4. p \in X /\ (f.P[p].next = 0 <=> X = {p})
  <2>1. PICK q : q \in X
    BY <1>2
  <2>2. p \in X
    BY <1>2, <1>3, <2>1, Neighbours
  <2> QED
    BY <1>2, <1>3, <2>2, Neighbours
<1>5. Deleted(f, h, X, p)
  BY <1>1, <1>3, <1>4, DeleteParagraphIs
<1>6. CASE X = {p}
  BY <1>5, <1>6 DEF Deleted, Fine, Good
<1>7. CASE X # {p}
  BY <1>1, <1>4, <1>5, <1>7 DEF Deleted, Good
<1> QED
  BY <1>6, <1>7

\* The loop of deleteFirstParagraphs (editor.go), round by round.
LEMMA FirstDeletionSteps ==
  \A c, f :
    /\ FirstDeletion!Run(c, f, 0) = f
    /\ \A k \in Nat : FirstDeletion!Run(c, f, k + 1) = DeleteFirstRound(c,
        FirstDeletion!Run(c, f, k), k + 1)
BY FirstDeletion!RunStarts, FirstDeletion!RunGoesOn

\* Deleting first paragraphs keeps a frame good.
LEMMA DeleteFirstIs ==
  ASSUME NEW f, Good(f), NEW n \in Nat, align \in Alignments, NEW h, h = DeleteFirst(f, n)
  PROVE  Good(h)
<1>1. PICK c : c = 0
  OBVIOUS
<1>2. PICK at : at = [k \in Nat |-> FirstDeletion!Run(c, f, k)]
  OBVIOUS
<1>3. at[0] = f /\ \A k \in 0 .. n - 1 : at[k + 1] = DeleteParagraph(at[k], at[k].firstP)
  BY <1>2, FirstDeletionSteps DEF DeleteFirstRound
<1>4. PICK S : S = {k \in 0 .. n : Good(at[k])}
  OBVIOUS
<1>5. 0 \in S
  BY <1>3, <1>4
<1>6. \A k \in 0 .. n - 1 : k \in S => k + 1 \in S
  <2> SUFFICES ASSUME NEW k \in 0 .. n - 1, k \in S PROVE k + 1 \in S
    OBVIOUS
  <2>1. PICK g, g2 : g = at[k] /\ g2 = at[k + 1]
    OBVIOUS
  <2>2. g2 = DeleteParagraph(g, g.firstP) /\ Good(g)
    BY <1>3, <1>4, <2>1
  <2>3. Good(g2)
    BY <2>2, DeleteFirstOne
  <2> QED
    BY <1>4, <2>1, <2>3
<1>7. \A k \in 0 .. n : k \in S
  BY <1>5, <1>6, UpTo
<1>8. n \in S
  BY <1>7
<1> QED
  BY <1>1, <1>2, <1>4, <1>8 DEF DeleteFirst

\* Counting the paragraphs keeps a frame good, and there is one at least.
LEMMA CountedGood ==
  ASSUME NEW f, Good(f), NEW h, h = Counted(f)
  PROVE  Good(h) /\ ParagraphCount(f) \in Nat \ {0}
<1>1. PICK X : Sound(f, X) /\ EndOpen(f, X)
  BY DEF Good
<1>2. ParagraphCount(f) = Cardinality(X) /\ Cardinality(X) \in Nat \ {0} /\ Sound(h,
    X) /\ EndOpen(h, X)
  BY <1>1, CountedIs
<1> QED
  BY <1>2 DEF Good

\* deleteFirstParagraphs (editor.go) keeps a frame good.
LEMMA DeleteFirstParagraphsIs ==
  ASSUME NEW f, Good(f), NEW n \in Nat, align \in Alignments, NEW h, h = DeleteFirstParagraphs(f, n)
  PROVE  Good(h)
<1>1. PICK g : g = Counted(f)
  OBVIOUS
<1>2. Good(g) /\ ParagraphCount(f) \in Nat
  BY <1>1, CountedGood
<1>3. PICK m \in Nat : m = Lesser(n, ParagraphCount(f))
  BY <1>2 DEF Lesser
<1>4. h = DeleteFirst(g, m)
  BY <1>1, <1>3 DEF DeleteFirstParagraphs
<1> QED
  BY <1>2, <1>4, DeleteFirstIs

\* As many paragraphs are deleted as there were too many.
LEMMA TruncateParagraphsIs ==
  ASSUME NEW f, Good(f), NEW count \in Int, align \in Alignments, NEW h,
         h = TruncateParagraphs(f, count)
  PROVE  Good(h)
<1>1. CASE count > MaxParagraphs
  <2>1. PICK n \in Nat : n = count - MaxParagraphs
    BY <1>1, MaxParagraphsAssumption
  <2>2. h = DeleteFirstParagraphs(f, n)
    BY <1>1, <2>1 DEF TruncateParagraphs
  <2> QED
    BY <2>2, DeleteFirstParagraphsIs
<1>2. CASE ~(count > MaxParagraphs)
  BY <1>2 DEF TruncateParagraphs
<1> QED
  BY <1>1, <1>2

\* The loop of DeleteLastParagraphs (editor.go), round by round.
LEMMA LastDeletionSteps ==
  \A c, f :
    /\ LastDeletion!Run(c, f, 0) = f
    /\ \A k \in Nat : LastDeletion!Run(c, f, k + 1) = DeleteLastRound(c, LastDeletion!Run(c, f, k),
        k + 1)
BY LastDeletion!RunStarts, LastDeletion!RunGoesOn

\* There are m paragraphs.
Many(f, m) == \E X : Sound(f, X) /\ IsFiniteSet(X) /\ Cardinality(X) = m

\* One last paragraph is deleted, and as many as there were but one are left.
LEMMA DeleteLastOne ==
  ASSUME NEW f, NEW m \in Nat \ {0}, Many(f, m), align \in Alignments, NEW h,
         h = DeleteParagraph(f, LastIn(Paras(f)))
  PROVE  (m > 1 => Many(h, m - 1)) /\ (m = 1 => Good(h))
<1>1. PICK X : Sound(f, X) /\ IsFiniteSet(X) /\ Cardinality(X) = m
  BY DEF Many
<1>2. PICK p : p = LastIn(Paras(f))
  OBVIOUS
<1>3. p \in X
  BY <1>1, <1>2, LastPara DEF Sound
<1>4. Deleted(f, h, X, p)
  BY <1>1, <1>2, <1>3, DeleteParagraphIs
<1>5. IsFiniteSet(X \ {p}) /\ Cardinality(X \ {p}) = m - 1
  BY <1>1, <1>3, FS_RemoveElement
<1>6. m = 1 <=> X = {p}
  <2>1. m = 1 => X \ {p} = {}
    BY <1>5, FS_EmptySet
  <2>2. X = {p} => m = 1
    BY <1>1, FS_Singleton
  <2> QED
    BY <1>3, <2>1, <2>2
<1>7. CASE m = 1
  BY <1>4, <1>6, <1>7 DEF Deleted, Fine, Good
<1>8. CASE m # 1
  BY <1>4, <1>5, <1>6, <1>8 DEF Deleted, Many
<1> QED
  BY <1>7, <1>8

\* The frame after k paragraphs of m are gone.
Remaining(f, m, k) == (k < m => Many(f, m - k)) /\ (k = m => Good(f))

\* Deleting n last paragraphs leaves the others, or an empty one.
LEMMA DeleteLastIs ==
  ASSUME NEW f, Good(f), align \in Alignments, NEW m, m = ParagraphCount(f), NEW n \in 1 .. m,
         NEW h, h = DeleteLast(f, n)
  PROVE  Remaining(h, m, n)
<1>1. PICK g : g = Counted(f)
  OBVIOUS
<1>2. Many(g, m) /\ m \in Nat \ {0}
  <2>1. PICK X : Sound(f, X) /\ EndOpen(f, X)
    BY DEF Good
  <2>2. IsFiniteSet(X) /\ ParagraphCount(f) = Cardinality(X) /\ Cardinality(X) \in Nat \ {0} /\ Sound(g, X)
    BY <1>1, <2>1, CountedIs
  <2> QED
    BY <2>2 DEF Many
<1>3. PICK c : c = 0
  OBVIOUS
<1>4. PICK at : at = [k \in Nat |-> LastDeletion!Run(c, g, k)]
  OBVIOUS
<1>5. n \in Nat /\ n <= m
  BY <1>2
<1>6. at[0] = g /\ \A k \in 0 .. n - 1 : at[k + 1] = DeleteParagraph(at[k], LastIn(Paras(at[k])))
  BY <1>4, <1>5, LastDeletionSteps DEF DeleteLastRound
<1>7. PICK S : S = {k \in 0 .. n : Remaining(at[k], m, k)}
  OBVIOUS
<1>8. 0 \in S
  BY <1>2, <1>5, <1>6, <1>7 DEF Remaining
<1>9. \A k \in 0 .. n - 1 : k \in S => k + 1 \in S
  <2> SUFFICES ASSUME NEW k \in 0 .. n - 1, k \in S PROVE k + 1 \in S
    OBVIOUS
  <2>1. PICK e, e2 : e = at[k] /\ e2 = at[k + 1]
    OBVIOUS
  <2>2. e2 = DeleteParagraph(e, LastIn(Paras(e))) /\ Remaining(e, m,
      k) /\ k \in Nat /\ k < m /\ k + 1 \in 0 .. n
    BY <1>2, <1>5, <1>6, <1>7, <2>1
  <2>3. PICK j \in Nat \ {0} : j = m - k
    BY <1>2, <2>2
  <2>4. Many(e, j)
    BY <2>2, <2>3 DEF Remaining
  <2>5. (j > 1 => Many(e2, j - 1)) /\ (j = 1 => Good(e2))
    BY <2>2, <2>4, DeleteLastOne
  <2>6. m - (k + 1) = j - 1 /\ (k + 1 < m <=> j > 1) /\ (k + 1 = m <=> j = 1)
    BY <1>2, <2>2, <2>3
  <2>7. Remaining(e2, m, k + 1)
    BY <2>5, <2>6 DEF Remaining
  <2> QED
    BY <1>7, <2>1, <2>2, <2>7
<1>10. \A k \in 0 .. n : k \in S
  BY <1>5, <1>8, <1>9, UpTo
<1>11. n \in S
  BY <1>5, <1>10
<1>12. h = at[n]
  BY <1>1, <1>3, <1>4, <1>5 DEF DeleteLast
<1> QED
  BY <1>7, <1>11, <1>12

\* A paragraph after the last one that is left.
LEMMA OpenAgain ==
  ASSUME NEW f, NEW m, Many(f, m), align \in Alignments, NEW h, h = AppendParagraph(SetLasts(f))
  PROVE  Good(h)
<1>1. PICK X : Sound(f, X)
  BY DEF Many
<1>2. PICK g : g = SetLasts(f)
  OBVIOUS
<1>3. Pool(f, X) /\ (\A p \in X : Fit(f, p) /\ CountRight(f, p)) /\ (f.count # 0 =>
    f.count = Cardinality(X) + 1)
  BY <1>1 DEF Sound
<1>4. SameData(f, g) /\ g.width = f.width /\ g.count = f.count /\ Known(g)
  BY <1>2, <1>3, SetLastsIs
<1>5. Pool(g, X) /\ (\A p \in X : Fit(g, p) /\ CountRight(g, p))
  BY <1>3, <1>4, SoundKept
<1>6. Sound(g, X)
  BY <1>3, <1>4, <1>5, KnownRight DEF Sound
<1>7. PICK p : Opened(g, h, X, p)
  BY <1>2, <1>4, <1>6, AppendParagraphIs
<1>8. Ready(h, X \cup {p})
  BY <1>7 DEF Opened
<1> QED
  BY <1>8, FineReady DEF Fine, Good

(***************************************************************************)
(* The calls of the editor.                                                *)
(***************************************************************************)

EditorOK == Good(frame) /\ align \in Alignments /\ color \in Colors /\ lines \in Nat

\* WriteText keeps the frame good.
LEMMA WriteTextKeeps ==
  ASSUME EditorOK, NEW ls \in Texts, WriteText(ls)
  PROVE  EditorOK'
<1>1. Good(frame) /\ align \in Alignments /\ color \in Colors /\ lines \in Nat
  BY DEF EditorOK
<1>2. PICK f, ps, n : f = Counted(frame) /\ ps = Pieces(ls, Len(ls)) /\ n = Len(ls)
  OBVIOUS
<1>3. Good(f) /\ ParagraphCount(frame) \in Nat
  BY <1>1, <1>2, CountedGood
<1>4. ps \in Seq(Seq(Characters)) /\ n \in Nat \ {0}
  BY <1>2, PiecesAre
<1>5. PICK g : g = AppendPieces(f, ps)
  OBVIOUS
<1>6. Good(g)
  BY <1>1, <1>3, <1>4, <1>5, AppendPiecesIs
<1>7. PICK c \in Int : c = ParagraphCount(frame) + n - 1
  BY <1>3, <1>4
<1>8. frame' = TruncateParagraphs(g, c) /\ lines' = lines + n - 1 /\ UNCHANGED <<align, color>>
  <2>1. ParagraphCount(frame) + Len(ls) - 1 = c
    BY <1>2, <1>7
  <2> QED
    BY <1>2, <1>5, <2>1 DEF WriteText
<1>9. PICK h : h = frame'
  OBVIOUS
<1>10. Good(h)
  BY <1>1, <1>6, <1>8, <1>9, TruncateParagraphsIs
<1> QED
  BY <1>1, <1>4, <1>8, <1>9, <1>10 DEF EditorOK

\* WriteLabel, WriteButton, WriteImage and WriteSpace keep the frame good.
LEMMA WriteLabelKeeps ==
  ASSUME EditorOK, NEW x \in Labels, WriteLabel(x)
  PROVE  EditorOK'
<1>1. Good(frame) /\ align \in Alignments /\ color \in Colors /\ lines \in Nat
  BY DEF EditorOK
<1>2. PICK X : Fine(frame, X)
  BY <1>1 DEF Good, Fine
<1>3. PICK kind, s, w : kind = x.kind /\ s = x.text /\ w = x.w
  OBVIOUS
<1>4. s \in Seq(Characters) /\ TextKind(kind, s, w)
  BY <1>3, LabelsAssumption DEF TextKind, Kinds
<1>5. PICK f : f = frame
  OBVIOUS
<1>6. PICK h : h = AppendText(f, kind, s, w)
  OBVIOUS
<1>7. Ready(h, X)
  BY <1>1, <1>2, <1>4, <1>5, <1>6, AppendTextIs
<1>8. Good(h)
  BY <1>7, FineReady DEF Good
<1>9. frame' = h /\ UNCHANGED <<align, color, lines>>
  BY <1>3, <1>5, <1>6 DEF WriteLabel
<1> QED
  BY <1>1, <1>8, <1>9 DEF EditorOK

\* WriteLine keeps the frame good.
LEMMA WriteLineKeeps ==
  ASSUME EditorOK, WriteLine
  PROVE  EditorOK'
<1>1. Good(frame) /\ align \in Alignments /\ color \in Colors /\ lines \in Nat
  BY DEF EditorOK
<1>2. PICK X : Fine(frame, X)
  BY <1>1 DEF Good, Fine
<1>3. PICK f : f = Valid(frame)
  OBVIOUS
<1>4. Ready(f, X)
  BY <1>2, <1>3, ValidReady
<1>5. PICK box : RuleBox(box)
  BY DEF RuleBox
<1>6. PICK k : Ruled(f, k, box)
  BY DEF Ruled
<1>7. Good(k)
  BY <1>1, <1>4, <1>5, <1>6, RuledIs
<1>8. /\ frame' = Truncated(k)
      /\ (lines' = lines + 1 \/ lines' = lines + 2) /\ UNCHANGED <<align, color>>
  <2>1. k = AppendParagraph(AppendBox(IF LineWidth(f, f.last.l) > 0 THEN AppendParagraph(f) ELSE f,
                                      [NoBox EXCEPT !.kind = "line", !.color = color]))
    BY <1>5, <1>6 DEF Ruled, RuleBox
  <2> QED
    BY <1>3, <2>1 DEF WriteLine
<1>9. PICK g : g = Counted(k)
  OBVIOUS
<1>10. Good(g) /\ ParagraphCount(k) \in Nat
  BY <1>7, <1>9, CountedGood
<1>11. PICK c \in Int : c = ParagraphCount(k)
  BY <1>10
<1>12. PICK h : h = TruncateParagraphs(g, c)
  OBVIOUS
<1>13. Good(h)
  BY <1>1, <1>10, <1>12, TruncateParagraphsIs
<1>14. frame' = h
  BY <1>8, <1>9, <1>11, <1>12 DEF Truncated
<1> QED
  BY <1>1, <1>8, <1>13, <1>14 DEF EditorOK

\* Setting the alignment keeps the frame good.
LEMMA SetAlignmentKeeps ==
  ASSUME EditorOK, NEW a \in Alignments, SetAlignment(a)
  PROVE  EditorOK'
<1>1. Good(frame) /\ align \in Alignments /\ color \in Colors /\ lines \in Nat
  BY DEF EditorOK
<1>2. PICK f, g : f = frame /\ g = Valid(frame)
  OBVIOUS
<1>3. PICK h : Aligned(g, h, g.last.p, a)
  BY DEF Aligned
<1>4. Good(h)
  BY <1>1, <1>2, <1>3, AlignLastIs
<1>5. frame' = h /\ align' = a /\ UNCHANGED <<color, lines>>
  BY <1>2, <1>3 DEF SetAlignment, Aligned
<1> QED
  BY <1>1, <1>4, <1>5 DEF EditorOK

\* DeleteLastParagraphs keeps the frame good, and opens a paragraph to write to.
LEMMA DeleteLastKeeps ==
  ASSUME EditorOK, NEW n \in 1 .. MaxParagraphs, DeleteLastParagraphs(n)
  PROVE  EditorOK'
<1>1. Good(frame) /\ align \in Alignments /\ color \in Colors /\ lines \in Nat
  BY DEF EditorOK
<1>2. PICK f, m : f = frame /\ m = ParagraphCount(frame)
  OBVIOUS
<1>3. m \in Nat \ {0}
  <2>1. PICK g : g = Counted(f)
    OBVIOUS
  <2> QED
    BY <1>1, <1>2, <2>1, CountedGood
<1>4. UNCHANGED <<align, color>> /\ lines' \in Nat
  BY <1>1 DEF DeleteLastParagraphs
<1>5. CASE n < m
  <2>1. PICK d : d = DeleteLast(f, n)
    OBVIOUS
  <2>2. n \in 1 .. m
    BY <1>3, <1>5, MaxParagraphsAssumption
  <2>3. Remaining(d, m, n)
    BY <1>1, <1>2, <2>1, <2>2, DeleteLastIs
  <2>4. PICK j : j = m - n
    OBVIOUS
  <2>5. Many(d, j)
    BY <1>5, <2>3, <2>4 DEF Remaining
  <2>6. PICK h : h = AppendParagraph(SetLasts(d))
    OBVIOUS
  <2>7. Good(h)
    BY <1>1, <2>5, <2>6, OpenAgain
  <2>8. frame' = h
    BY <1>2, <1>5, <2>1, <2>6 DEF DeleteLastParagraphs
  <2> QED
    BY <1>1, <1>4, <2>7, <2>8 DEF EditorOK
<1>6. CASE ~(n < m)
  <2>1. PICK d : d = DeleteLast(f, m)
    OBVIOUS
  <2>2. m \in 1 .. m
    BY <1>3
  <2>3. Remaining(d, m, m)
    BY <1>1, <1>2, <2>1, <2>2, DeleteLastIs
  <2>4. Good(d)
    BY <2>3 DEF Remaining
  <2>5. frame' = d
    BY <1>2, <1>6, <2>1 DEF DeleteLastParagraphs
  <2> QED
    BY <1>1, <1>4, <2>4, <2>5 DEF EditorOK
<1> QED
  BY <1>5, <1>6

\* DeleteAll keeps the frame good.
LEMMA DeleteAllKeeps ==
  ASSUME EditorOK, DeleteAll
  PROVE  EditorOK'
<1>1. Good(frame) /\ align \in Alignments /\ color \in Colors /\ lines \in Nat
  BY DEF EditorOK
<1>2. PICK f : f = frame
  OBVIOUS
<1>3. PICK n \in Nat : n = MaxParagraphs
  BY MaxParagraphsAssumption
<1>4. PICK h : h = DeleteFirstParagraphs(f, n)
  OBVIOUS
<1>5. Good(h)
  BY <1>1, <1>2, <1>4, DeleteFirstParagraphsIs
<1>6. frame' = h /\ UNCHANGED <<align, color, lines>>
  BY <1>2, <1>3, <1>4 DEF DeleteAll
<1> QED
  BY <1>1, <1>5, <1>6 DEF EditorOK

\* Every call of the editor leaves a good frame.
THEOREM EditKeeps == EditorOK /\ Edit => EditorOK'
<1> SUFFICES ASSUME EditorOK, Edit PROVE EditorOK'
  OBVIOUS
<1>1. ASSUME NEW ls \in Texts, WriteText(ls) PROVE EditorOK'
  BY <1>1, WriteTextKeeps
<1>2. ASSUME NEW x \in Labels, WriteLabel(x) PROVE EditorOK'
  BY <1>2, WriteLabelKeeps
<1>3. ASSUME WriteLine PROVE EditorOK'
  BY <1>3, WriteLineKeeps
<1>4. ASSUME NEW a \in Alignments, SetAlignment(a) PROVE EditorOK'
  BY <1>4, SetAlignmentKeeps
<1>5. ASSUME NEW c \in Colors, SetColor(c) PROVE EditorOK'
  BY <1>5 DEF EditorOK, SetColor
<1>6. ASSUME NEW n \in 1 .. MaxParagraphs, DeleteLastParagraphs(n) PROVE EditorOK'
  BY <1>6, DeleteLastKeeps
<1>7. ASSUME DeleteAll PROVE EditorOK'
  BY <1>7, DeleteAllKeeps
<1> QED
  BY <1>1, <1>2, <1>3, <1>4, <1>5, <1>6, <1>7 DEF Edit

\* A frame without elements.
Blank(f) ==
  f = [P |-> <<>>, L |-> <<>>, B |-> <<>>, freeP |-> 0, freeL |-> 0, freeB |-> 0, firstP |-> 0,
       text |-> <<>>, len |-> 0, width |-> DefaultWidth, count |-> 0, last |-> NoLast]

\* A frame without elements, field by field.
LEMMA BlankFields ==
  ASSUME NEW f, Blank(f)
  PROVE  /\ f \in Frames /\ Len(f.P) = 0 /\ Len(f.L) = 0 /\ Len(f.B) = 0
         /\ f.freeP = 0 /\ f.freeL = 0 /\ f.freeB = 0
         /\ f.text = <<>> /\ f.len = 0 /\ f.width = DefaultWidth /\ f.count = 0 /\ f.last = NoLast
<1>1. NoLast \in LastSet /\ DefaultWidth \in Nat
  BY NothingTypes, DefaultWidthAssumption
<1>2. <<>> \in Seq(ParaSet) /\ <<>> \in Seq(LineSet) /\ <<>> \in Seq(BoxSet) /\ <<>> \in Seq(Characters)
  OBVIOUS
<1>3. PICK e : e = <<>>
  OBVIOUS
<1>4. f = [P |-> e, L |-> e, B |-> e, freeP |-> 0, freeL |-> 0, freeB |-> 0, firstP |-> 0,
           text |-> e, len |-> 0, width |-> DefaultWidth, count |-> 0, last |-> NoLast]
  BY <1>3 DEF Blank
<1>5. e \in Seq(ParaSet) /\ e \in Seq(LineSet) /\ e \in Seq(BoxSet) /\ e \in Seq(Characters) /\ Len(e) = 0
  BY <1>2, <1>3
<1>6. f \in Frames
  BY ONLY <1>1, <1>4, <1>5 DEF Frames
<1> QED
  BY <1>3, <1>4, <1>5, <1>6

\* There is nothing in an array without elements.
LEMMA NoLayer ==
  ASSUME NEW X, X = {}, NEW O, O = {}, NEW own, own \in [X -> O], NEW rank,
         rank \in [X -> Nat \ {0}],
         NEW first, NEW next, NEW prev, NEW top, top = 0, NEW n, n = 0
  PROVE  Layer(X, O, own, rank, first, next, prev, top, n)
<1>1. Live(X, O, own, rank, first, next, prev)
  BY DEF Live, Placed, Begun, Forward, Backward, Ended
<1>2. Stack(top, next, prev, n)
  <2>1. PICK time : time = [x \in X |-> 0]
    OBVIOUS
  <2>2. Free(X, time, top, next)
    BY <2>1 DEF Free
  <2> QED
    BY <2>2 DEF Stack
<1> QED
  BY <1>1, <1>2 DEF Layer

\* A frame without elements is well formed.
LEMMA BlankIs ==
  ASSUME NEW f, Blank(f), NEW X, X = {}
  PROVE  ListP(f, X) /\ Lay(f, X)
<1>1. /\ f \in Frames /\ Len(f.P) = 0 /\ Len(f.L) = 0 /\ Len(f.B) = 0
      /\ f.freeP = 0 /\ f.freeL = 0 /\ f.freeB = 0 /\ f.len = 0
  BY BlankFields
<1>2. PICK own, rank : own = [x \in X |-> 0] /\ rank = [x \in X |-> 1]
  OBVIOUS
<1>3. own \in [X -> X] /\ rank \in [X -> Nat \ {0}]
  BY <1>2
<1>4. OwnerOf(X) = X
  BY DEF OwnerOf
<1>5. PICK n, top : n = 0 /\ top = 0
  OBVIOUS
<1>6. PLayer(f, X, X, own, rank)
  <2>1. PICK first, next, prev : first = FirstP(f) /\ next = NextP(f) /\ prev = PrevP(f)
    OBVIOUS
  <2>2. Layer(X, X, own, rank, first, next, prev, top, n)
    BY <1>3, <1>5, NoLayer
  <2> QED
    BY <1>1, <1>5, <2>1, <2>2 DEF PLayer
<1>7. LLayer(f, X, X, own, rank)
  <2>1. PICK first, next, prev : first = FirstL(f) /\ next = NextL(f) /\ prev = PrevL(f)
    OBVIOUS
  <2>2. Layer(X, X, own, rank, first, next, prev, top, n)
    BY <1>3, <1>5, NoLayer
  <2> QED
    BY <1>1, <1>5, <2>1, <2>2 DEF LLayer
<1>8. BLayer(f, X, X, own, rank)
  <2>1. PICK first, next, prev : first = FirstB(f) /\ next = NextB(f) /\ prev = PrevB(f)
    OBVIOUS
  <2>2. Layer(X, X, own, rank, first, next, prev, top, n)
    BY <1>3, <1>5, NoLayer
  <2> QED
    BY <1>1, <1>5, <2>1, <2>2 DEF BLayer
<1>9. BoxesGood(f, X) /\ LineBoxesLast(f, X, own) /\ X \subseteq 1 .. Len(f.P)
  BY DEF BoxesGood, LineBoxesLast
<1>10. LB(f, X, X, own, rank, X, own, rank)
  BY <1>1, <1>7, <1>8, <1>9 DEF LB
<1>11. Sum(f, X) = f.len
  <2>1. PICK c : Sum(f, X) = Total(c, n)
    <3>1. n = Len(f.B)
      BY <1>1, <1>5
    <3>2. \E c : Sum(f, X) = Total(c, n) /\ DOMAIN c = 1 .. n /\ \A b \in 1 .. n : c[b] = LenAt(f,
        X, b)
      <4>1. f \in Frames
        BY <1>1
      <4> QED
        BY ONLY <3>1, <4>1, SumIs
    <3> QED
      BY <3>2
  <2>2. Total(c, n) = 0
    BY <1>5, TotalSteps
  <2> QED
    BY <1>1, <2>1, <2>2
<1> QED
  BY <1>4, <1>6, <1>10, <1>11 DEF ListP, Lay

\* The frame at the start: one paragraph, one line and one box.
Single(h, x, y, z) ==
  /\ h = [P |-> <<x>>, L |-> <<y>>, B |-> <<z>>, freeP |-> 0, freeL |-> 0, freeB |-> 0,
      firstP |-> 1,
          text |-> <<>>, len |-> 0, width |-> DefaultWidth, count |-> 0, last |-> NoLast]
  /\ x = [NoPara EXCEPT !.firstL = 1] /\ y = [NoLine EXCEPT !.firstB = 1] /\ z = NoBox

\* A frame of one empty paragraph, field by field.
LEMMA SingleFields ==
  ASSUME NEW h, NEW x, NEW y, NEW z, Single(h, x, y, z)
  PROVE  /\ h \in Frames /\ Len(h.P) = 1 /\ Len(h.L) = 1 /\ Len(h.B) = 1
         /\ h.freeP = 0 /\ h.freeL = 0 /\ h.freeB = 0 /\ h.firstP = 1
         /\ h.text = <<>> /\ h.len = 0 /\ h.width = DefaultWidth /\ h.count = 0 /\ h.last = NoLast
         /\ h.P[1].firstL = 1 /\ h.P[1].next = 0 /\ h.P[1].prev = 0 /\ h.P[1].count = 0
         /\ h.L[1].firstB = 1 /\ h.L[1].next = 0 /\ h.L[1].prev = 0
         /\ h.B[1] = NoBox
<1>1. NoLast \in LastSet /\ NoPara \in ParaSet /\ NoLine \in LineSet /\ NoBox \in BoxSet /\ DefaultWidth \in Nat
  BY NothingTypes, DefaultWidthAssumption
<1>2. x \in ParaSet /\ x.firstL = 1 /\ x.next = 0 /\ x.prev = 0 /\ x.count = 0
  BY <1>1 DEF Single, ParaSet, NoPara
<1>3. y \in LineSet /\ y.firstB = 1 /\ y.next = 0 /\ y.prev = 0
  BY <1>1 DEF Single, LineSet, NoLine
<1>4. z \in BoxSet /\ z = NoBox
  BY <1>1 DEF Single
<1>5. PICK s, t, u, e : s = <<x>> /\ t = <<y>> /\ u = <<z>> /\ e = <<>>
  OBVIOUS
<1>6. /\ s \in Seq(ParaSet) /\ Len(s) = 1 /\ s[1] = x /\ t \in Seq(LineSet) /\ Len(t) = 1 /\ t[1] = y
      /\ u \in Seq(BoxSet) /\ Len(u) = 1 /\ u[1] = z /\ e \in Seq(Characters)
  BY <1>2, <1>3, <1>4, <1>5
<1>7. h = [P |-> s, L |-> t, B |-> u, freeP |-> 0, freeL |-> 0, freeB |-> 0, firstP |-> 1,
           text |-> e, len |-> 0, width |-> DefaultWidth, count |-> 0, last |-> NoLast]
  BY <1>5 DEF Single
<1>8. h \in Frames
  BY ONLY <1>1, <1>6, <1>7 DEF Frames
<1> QED
  BY <1>2, <1>3, <1>4, <1>5, <1>6, <1>7, <1>8

\* A frame of one empty paragraph is good.
LEMMA SingleGood ==
  ASSUME NEW h, NEW x, NEW y, NEW z, Single(h, x, y, z)
  PROVE  Good(h)
<1>1. PICK f : Blank(f)
  BY DEF Blank
<1>2. PICK X : X = {}
  OBVIOUS
<1>3. /\ f \in Frames /\ Len(f.P) = 0 /\ Len(f.L) = 0 /\ Len(f.B) = 0
      /\ f.freeP = 0 /\ f.freeL = 0 /\ f.freeB = 0
      /\ f.text = <<>> /\ f.len = 0 /\ f.width = DefaultWidth /\ f.count = 0 /\ f.last = NoLast
  BY <1>1, BlankFields
<1>4. ListP(f, X) /\ Lay(f, X)
  BY <1>1, <1>2, BlankIs
<1>5. /\ h \in Frames /\ Len(h.P) = 1 /\ Len(h.L) = 1 /\ Len(h.B) = 1
      /\ h.freeP = 0 /\ h.freeL = 0 /\ h.freeB = 0 /\ h.firstP = 1
      /\ h.text = <<>> /\ h.len = 0 /\ h.width = DefaultWidth /\ h.count = 0 /\ h.last = NoLast
      /\ h.P[1].firstL = 1 /\ h.P[1].next = 0 /\ h.P[1].prev = 0 /\ h.P[1].count = 0
      /\ h.L[1].firstB = 1 /\ h.L[1].next = 0 /\ h.L[1].prev = 0
      /\ h.B[1] = NoBox
  BY SingleFields
<1>6. PICK p : p = 1
  OBVIOUS
<1>7. Slot(f.freeP, f.P) = p /\ Slot(f.freeL, f.L) = p /\ Slot(f.freeB, f.B) = p
  BY <1>3, <1>6 DEF Slot
<1>8. SameT(f, h) /\ SameC(f, h)
  BY <1>3, <1>5 DEF SameT, SameC
<1>9. Begins(f, h, p, p, p)
  BY <1>3, <1>5, <1>6, <1>7, <1>8 DEF Begins
<1>10. PFirst(f, h, p)
  BY <1>3, <1>5, <1>6, <1>7 DEF PFirst
<1>11. f.width > 1
  BY <1>3, DefaultWidthAssumption
<1>12. \E Y, q : Y = {q} /\ Fine(h, Y)
  BY <1>2, <1>3, <1>4, <1>5, <1>6, <1>8, <1>9, <1>10, <1>11, FirstParaFine
<1> QED
  BY <1>12 DEF Fine, Good

\* The frame of the start is good.
LEMMA EditorStarts == FrameInit => EditorOK
<1> SUFFICES ASSUME FrameInit PROVE EditorOK
  OBVIOUS
<1>1. align \in Alignments /\ color \in Colors /\ lines \in Nat
  BY ChoicesAssumption DEF FrameInit, NoColor
<1>2. PICK x, y,
    z : x = [NoPara EXCEPT !.firstL = 1] /\ y = [NoLine EXCEPT !.firstB = 1] /\ z = NoBox
  OBVIOUS
<1>3. PICK h : h = frame
  OBVIOUS
<1>4. Single(h, x, y, z)
  BY <1>2, <1>3 DEF Single, FrameInit, EmptyFrame
<1>5. Good(h)
  BY <1>4, SingleGood
<1> QED
  BY <1>1, <1>3, <1>5 DEF EditorOK

(***************************************************************************)
(* What a good frame says of the elements in use.                          *)
(***************************************************************************)

\* The elements of a list are linked backwards too.
Prior(s, X, prev) == \A i \in 1 .. Len(s) : prev[s[i]] = IF i = 1 THEN 0 ELSE s[i - 1]

\* The elements of a list have the links back that the list says.
LEMMA LiveLinked ==
  ASSUME NEW X, NEW O, NEW own, NEW rank, NEW first, NEW next, NEW prev,
         Live(X, O, own, rank, first, next, prev), NEW o \in O,
         NEW s, Len(s) \in Nat \ {0}, s \in [1 .. Len(s) -> X], s[1] = first[o],
         \A k \in 1 .. Len(s) - 1 : next[s[k]] = s[k + 1]
  PROVE  Prior(s, X, prev)
<1>1. PICK n \in Nat \ {0} : n = Len(s)
  OBVIOUS
<1>2. (\A k \in 1 .. n : s[k] \in X) /\ \A x \in X : x # 0
  <2>1. \A x \in X : x # 0
    BY DEF Live, Begun
  <2> QED
    BY <1>1, <2>1
<1>3. prev[s[1]] = 0
  <2>1. s[1] # 0 /\ first[o] # 0
    BY <1>1, <1>2
  <2> QED
    BY <2>1 DEF Live, Begun
<1>4. ASSUME NEW i \in 1 .. n, i # 1 PROVE prev[s[i]] = s[i - 1]
  <2>1. PICK k : k = i - 1
    OBVIOUS
  <2>2. k \in 1 .. n - 1 /\ k \in 1 .. n /\ k + 1 = i
    BY <1>1, <1>4, <2>1
  <2>3. s[k] \in X /\ next[s[k]] = s[i] /\ s[i] # 0
    BY <1>1, <1>2, <1>4, <2>2
  <2>4. prev[next[s[k]]] = s[k]
    BY <2>3 DEF Live, Forward
  <2> QED
    BY <2>1, <2>3, <2>4
<1> QED
  BY <1>1, <1>3, <1>4 DEF Prior

\* Every owner has its own first element.
LEMMA LayerFirsts ==
  ASSUME NEW n, NEW X, NEW O, NEW own, NEW rank, NEW first, NEW next, NEW prev, NEW top,
         Layer(X, O, own, rank, first, next, prev, top, n), NEW o \in O, NEW p \in O,
             first[o] = first[p]
  PROVE  o = p
BY DEF Layer, Live, Begun

\* No element in use is met from the top of the stack.
LEMMA LayerApart ==
  ASSUME NEW n, NEW X, NEW O, NEW own, NEW rank, NEW first, NEW next, NEW prev, NEW top,
         Layer(X, O, own, rank, first, next, prev, top, n), DOMAIN next = 0 .. n, next[0] = 0
  PROVE  X \cap Range(Follow(next, top)) = {}
<1>1. n \in Nat /\ Stack(top, next, prev, n)
  BY DEF Layer
<1>2. PICK Q, time : Free(Q, time, top, next) /\ Q \subseteq 1 .. n /\ \A x \in Q : prev[x] = -1
  BY <1>1 DEF Stack
<1>3. PICK s : s = Follow(next, top)
  OBVIOUS
<1>4. \A k \in DOMAIN s : s[k] \in Q
  BY <1>1, <1>2, <1>3, FreeWalk
<1>5. \A x \in X : prev[x] # -1
  BY LayerPrev
<1>6. X \cap Range(s) = {}
  BY <1>2, <1>4, <1>5 DEF Range
<1> QED
  BY <1>3, <1>6

\* What a sound frame has in use.
InUse(f, X, XL, XB) ==
  /\ Range(Paras(f)) = X
  /\ UNION {Range(Lines(f, p)) : p \in X} = XL
  /\ UNION {Range(Boxes(f, l)) : l \in XL} = XB

\* What is reached from the first paragraph is what is in use.
LEMMA InUseIs ==
  ASSUME NEW f, NEW X, Pool(f, X), NEW XL, NEW oL, NEW rL, NEW XB, NEW oB, NEW rB,
         LB(f, X, XL, oL, rL, XB, oB, rB)
  PROVE  InUse(f, X, XL, XB)
<1>1. /\ f \in Frames /\ X \subseteq 1 .. Len(f.P) /\ XL \subseteq 1 .. Len(f.L)
      /\ LLayer(f, X, XL, oL, rL) /\ BLayer(f, XL, XB, oB, rB)
      /\ oL \in [XL -> X] /\ oB \in [XB -> XL]
  BY LBFacts
<1>2. Range(Paras(f)) = X
  <2>1. PICK ps : ps = Paras(f)
    OBVIOUS
  <2>2. ParaList(ps, f, X)
    BY <2>1, PoolFacts, ParasAre DEF Pool
  <2>3. ps \in [1 .. Len(ps) -> X] /\ \A x \in X : \E k \in 1 .. Len(ps) : ps[k] = x
    BY <2>2 DEF ParaList
  <2>4. Range(ps) = X
    BY <2>3 DEF Range
  <2> QED
    BY <2>1, <2>4
<1>3. \A p \in X : \A l : l \in Range(Lines(f, p)) <=> l \in XL /\ oL[l] = p
  <2> SUFFICES ASSUME NEW p \in X PROVE \A l : l \in Range(Lines(f, p)) <=> l \in XL /\ oL[l] = p
    OBVIOUS
  <2>1. PICK ls : ls = Lines(f, p)
    OBVIOUS
  <2>2. ListOf(ls, XL, oL, rL, p)
    BY <1>1, <2>1, LinesAre DEF LineList
  <2>3. /\ ls \in [1 .. Len(ls) -> XL] /\ (\A k \in 1 .. Len(ls) : oL[ls[k]] = p)
        /\ \A x \in XL : oL[x] = p => \E k \in 1 .. Len(ls) : ls[k] = x
    BY <2>2 DEF ListOf
  <2>4. \A l : l \in Range(ls) <=> l \in XL /\ oL[l] = p
    BY <2>3 DEF Range
  <2> QED
    BY <2>1, <2>4
<1>4. \A l \in XL : \A b : b \in Range(Boxes(f, l)) <=> b \in XB /\ oB[b] = l
  <2> SUFFICES ASSUME NEW l \in XL PROVE \A b : b \in Range(Boxes(f, l)) <=> b \in XB /\ oB[b] = l
    OBVIOUS
  <2>1. PICK bs : bs = Boxes(f, l)
    OBVIOUS
  <2>2. ListOf(bs, XB, oB, rB, l)
    BY <1>1, <2>1, BoxesAre DEF BoxList
  <2>3. /\ bs \in [1 .. Len(bs) -> XB] /\ (\A k \in 1 .. Len(bs) : oB[bs[k]] = l)
        /\ \A x \in XB : oB[x] = l => \E k \in 1 .. Len(bs) : bs[k] = x
    BY <2>2 DEF ListOf
  <2>4. \A b : b \in Range(bs) <=> b \in XB /\ oB[b] = l
    BY <2>3 DEF Range
  <2> QED
    BY <2>1, <2>4
<1>5. UNION {Range(Lines(f, p)) : p \in X} = XL
  <2>1. \A l \in XL : oL[l] \in X
    BY <1>1
  <2> QED
    BY <1>3, <2>1
<1>6. UNION {Range(Boxes(f, l)) : l \in XL} = XB
  <2>1. \A b \in XB : oB[b] \in XL
    BY <1>1
  <2> QED
    BY <1>4, <2>1
<1> QED
  BY <1>2, <1>5, <1>6 DEF InUse

\* Links.
LEMMA SoundLinked ==
  ASSUME NEW f, NEW X, Pool(f, X), NEW XL, NEW oL, NEW rL, NEW XB, NEW oB, NEW rB,
         LB(f, X, XL, oL, rL, XB, oB, rB)
  PROVE  ListsLinked(f, X, XL, XB)
<1>1. /\ f \in Frames /\ X \subseteq 1 .. Len(f.P) /\ XL \subseteq 1 .. Len(f.L) /\ XB \subseteq 1 .. Len(f.B)
      /\ LLayer(f, X, XL, oL, rL) /\ BLayer(f, XL, XB, oB, rB)
  BY LBFacts
<1>2. PICK O : O = {0}
  OBVIOUS
<1>3. PICK own, rank : PLayer(f, O, X, own, rank)
  BY <1>2 DEF Pool, ListP, OwnerOf
<1>4. Linked(Paras(f), Prevs(f.P, X))
  <2>1. PICK ps : ps = Paras(f)
    OBVIOUS
  <2>2. ParaList(ps, f, X)
    BY <2>1, PoolFacts, ParasAre DEF Pool
  <2>3. /\ Len(ps) \in Nat \ {0} /\ ps \in [1 .. Len(ps) -> X] /\ ps[1] = f.firstP
        /\ \A k \in 1 .. Len(ps) - 1 : f.P[ps[k]].next = ps[k + 1]
    BY <2>2 DEF ParaList
  <2>4. PICK first, next, prev : first = FirstP(f) /\ next = NextP(f) /\ prev = PrevP(f)
    OBVIOUS
  <2>5. Live(X, O, own, rank, first, next,
      prev) /\ \A x \in X : next[x] = f.P[x].next /\ prev[x] = f.P[x].prev
    BY <1>1, <1>3, <2>4, PLayerFacts
  <2>6. PICK o : o = 0
    OBVIOUS
  <2>7. o \in O /\ first[o] = f.firstP
    BY <1>2, <2>4, <2>6 DEF FirstP
  <2>8. \A k \in 1 .. Len(ps) - 1 : next[ps[k]] = ps[k + 1]
    <3>1. \A k \in 1 .. Len(ps) - 1 : k \in 1 .. Len(ps)
      BY <2>3
    <3>2. \A k \in 1 .. Len(ps) - 1 : ps[k] \in X
      BY <2>3, <3>1
    <3> QED
      BY <2>3, <2>5, <3>2
  <2>9. Prior(ps, X, prev)
    BY <2>3, <2>5, <2>7, <2>8, LiveLinked
  <2>10. Linked(ps, Prevs(f.P, X))
    BY <2>3, <2>5, <2>9 DEF Prior, Linked, Prevs
  <2> QED
    BY <2>1, <2>10
<1>5. ASSUME NEW p \in X PROVE Lines(f, p) # <<>> /\ Linked(Lines(f, p), Prevs(f.L, XL))
  <2>1. PICK ls : ls = Lines(f, p)
    OBVIOUS
  <2>2. LineList(ls, f, XL, oL, rL, p)
    BY <1>1, <2>1, LinesAre
  <2>3. /\ Len(ls) \in Nat \ {0} /\ ls \in [1 .. Len(ls) -> XL] /\ ls[1] = f.P[p].firstL
        /\ \A k \in 1 .. Len(ls) - 1 : f.L[ls[k]].next = ls[k + 1]
    BY <2>2 DEF LineList, ListOf
  <2>4. PICK first, next, prev : first = FirstL(f) /\ next = NextL(f) /\ prev = PrevL(f)
    OBVIOUS
  <2>5. Live(XL, X, oL, rL, first, next,
      prev) /\ \A x \in XL : next[x] = f.L[x].next /\ prev[x] = f.L[x].prev
    BY <1>1, <2>4, LLayerFacts
  <2>6. first[p] = f.P[p].firstL
    BY <1>1, <2>4, LinksL
  <2>7. \A k \in 1 .. Len(ls) - 1 : next[ls[k]] = ls[k + 1]
    <3>1. \A k \in 1 .. Len(ls) - 1 : k \in 1 .. Len(ls)
      BY <2>3
    <3>2. \A k \in 1 .. Len(ls) - 1 : ls[k] \in XL
      BY <2>3, <3>1
    <3> QED
      BY <2>3, <2>5, <3>2
  <2>8. Prior(ls, XL, prev)
    BY <2>3, <2>5, <2>6, <2>7, LiveLinked
  <2>9. Linked(ls, Prevs(f.L, XL)) /\ ls # <<>>
    BY <2>3, <2>5, <2>8 DEF Prior, Linked, Prevs
  <2> QED
    BY <2>1, <2>9
<1>6. ASSUME NEW l \in XL PROVE Boxes(f, l) # <<>> /\ Linked(Boxes(f, l), Prevs(f.B, XB))
  <2>1. PICK bs : bs = Boxes(f, l)
    OBVIOUS
  <2>2. BoxList(bs, f, XB, oB, rB, l)
    BY <1>1, <2>1, BoxesAre
  <2>3. /\ Len(bs) \in Nat \ {0} /\ bs \in [1 .. Len(bs) -> XB] /\ bs[1] = f.L[l].firstB
        /\ \A k \in 1 .. Len(bs) - 1 : NextIndex(f, bs[k]) = bs[k + 1]
    BY <2>2 DEF BoxList, ListOf
  <2>4. PICK first, next, prev : first = FirstB(f) /\ next = NextB(f) /\ prev = PrevB(f)
    OBVIOUS
  <2>5. Live(XB, XL, oB, rB, first, next, prev) /\ \A x \in XB : next[x] = NextIndex(f,
      x) /\ prev[x] = f.B[x].prev
    BY <1>1, <2>4, BLayerFacts
  <2>6. first[l] = f.L[l].firstB
    BY <1>1, <2>4, LinksB
  <2>7. \A k \in 1 .. Len(bs) - 1 : next[bs[k]] = bs[k + 1]
    <3>1. \A k \in 1 .. Len(bs) - 1 : k \in 1 .. Len(bs)
      BY <2>3
    <3>2. \A k \in 1 .. Len(bs) - 1 : bs[k] \in XB
      BY <2>3, <3>1
    <3> QED
      BY <2>3, <2>5, <3>2
  <2>8. Prior(bs, XB, prev)
    BY <2>3, <2>5, <2>6, <2>7, LiveLinked
  <2>9. Linked(bs, Prevs(f.B, XB)) /\ bs # <<>>
    BY <2>3, <2>5, <2>8 DEF Prior, Linked, Prevs
  <2> QED
    BY <2>1, <2>9
<1>7. (\A p, q \in X : f.P[p].firstL = f.P[q].firstL =>
    p = q) /\ XL \cap Range(Follow(NextL(f), f.freeL)) = {}
  <2>1. PICK first, next, prev, top,
      n : first = FirstL(f) /\ next = NextL(f) /\ prev = PrevL(f) /\ top = f.freeL /\ n = Len(f.L)
    OBVIOUS
  <2>2. Layer(XL, X, oL, rL, first, next, prev, top, n)
    BY <1>1, <2>1 DEF LLayer
  <2>3. \A p \in X : first[p] = f.P[p].firstL
    BY <1>1, <2>1, LinksL
  <2>4. DOMAIN next = 0 .. n /\ next[0] = 0
    BY <1>1, <2>1, LinksL
  <2>5. XL \cap Range(Follow(next, top)) = {}
    BY <2>2, <2>4, LayerApart
  <2>6. \A p, q \in X : first[p] = first[q] => p = q
    BY <2>2, LayerFirsts
  <2> QED
    BY <2>1, <2>3, <2>5, <2>6
<1>8. (\A l, m \in XL : f.L[l].firstB = f.L[m].firstB =>
    l = m) /\ XB \cap Range(Follow(NextB(f), f.freeB)) = {}
  <2>1. PICK first, next, prev, top,
      n : first = FirstB(f) /\ next = NextB(f) /\ prev = PrevB(f) /\ top = f.freeB /\ n = Len(f.B)
    OBVIOUS
  <2>2. Layer(XB, XL, oB, rB, first, next, prev, top, n)
    BY <1>1, <2>1 DEF BLayer
  <2>3. \A l \in XL : first[l] = f.L[l].firstB
    BY <1>1, <2>1, LinksB
  <2>4. DOMAIN next = 0 .. n /\ next[0] = 0
    BY <1>1, <2>1, LinksB
  <2>5. XB \cap Range(Follow(next, top)) = {}
    BY <2>2, <2>4, LayerApart
  <2>6. \A l, m \in XL : first[l] = first[m] => l = m
    BY <2>2, LayerFirsts
  <2> QED
    BY <2>1, <2>3, <2>5, <2>6
<1>9. X \cap Range(Follow(NextP(f), f.freeP)) = {}
  <2>1. PICK first, next, prev, top,
      n : first = FirstP(f) /\ next = NextP(f) /\ prev = PrevP(f) /\ top = f.freeP /\ n = Len(f.P)
    OBVIOUS
  <2>2. Layer(X, O, own, rank, first, next, prev, top, n)
    BY <1>3, <2>1 DEF PLayer
  <2>3. DOMAIN next = 0 .. n /\ next[0] = 0
    BY <1>1, <2>1, LinksP
  <2>4. X \cap Range(Follow(next, top)) = {}
    BY <2>2, <2>3, LayerApart
  <2> QED
    BY <2>1, <2>4
<1> QED
  BY <1>4, <1>5, <1>6, <1>7, <1>8, <1>9 DEF ListsLinked

\* The length of the text.
LEMMA SoundText ==
  ASSUME NEW f, NEW X, NEW XL, NEW oL, NEW rL, NEW XB, NEW oB, NEW rB,
         LB(f, X, XL, oL, rL, XB, oB, rB), Sum(f, XB) = f.len
  PROVE  TextKept(f, XB) /\ f.len \in Nat
<1>1. f \in Frames /\ XB \subseteq 1 .. Len(f.B)
  BY LBFacts
<1>2. \A b \in XB : b \in 1 .. Len(f.B) /\ BoxGood(f.text, f.B[b]) /\ f.B[b] \in BoxSet
  <2>1. BoxesGood(f, XB)
    BY DEF LB
  <2>2. \A b \in 1 .. Len(f.B) : f.B[b] \in BoxSet
    BY <1>1, NextIndexType
  <2> QED
    BY <1>1, <2>1, <2>2 DEF BoxesGood
<1>3. \A b \in XB : f.B[b].kind # "line" => f.B[b].i >= 0 /\ f.B[b].j <= Len(f.text)
  <2> SUFFICES ASSUME NEW b \in XB,
      f.B[b].kind # "line" PROVE f.B[b].i >= 0 /\ f.B[b].j <= Len(f.text)
    OBVIOUS
  <2>1. f.B[b].i \in Nat
    BY <1>2 DEF BoxSet
  <2>2. f.B[b].j <= Len(f.text)
    BY <1>2 DEF BoxGood
  <2> QED
    BY <2>1, <2>2
<1>4. f.len \in Nat
  <2>1. \A b \in XB : BoxLen(f.B[b]) \in Nat
    BY <1>1, <1>2, GoodLen
  <2>2. XB \subseteq XB
    OBVIOUS
  <2>3. Sum(f, XB) \in Nat
    BY <1>1, <2>1, <2>2, SumAtMost
  <2> QED
    BY <2>3
<1> QED
  BY <1>3, <1>4 DEF TextKept, Sum

(***************************************************************************)
(* The view of a frame: it counts the lines of paragraphs.                 *)
(***************************************************************************)

\* The greatest of some numbers.
LEMMA GreatestOf ==
  ASSUME NEW n \in Nat, NEW S, S \subseteq 1 .. n, S # {}
  PROVE  \E x \in S : \A y \in S : y <= x
<1>1. PICK T : T = {n - x : x \in S}
  OBVIOUS
<1>2. T \subseteq Nat /\ T # {}
  <2>1. \A x \in S : n - x \in Nat
    <3> SUFFICES ASSUME NEW x \in S PROVE n - x \in Nat
      OBVIOUS
    <3>1. x \in 1 .. n
      OBVIOUS
    <3> QED
      BY <3>1
  <2>2. \A t \in T : t \in Nat
    BY <1>1, <2>1
  <2>3. PICK x \in S : TRUE
    OBVIOUS
  <2>4. n - x \in T
    BY <1>1
  <2> QED
    BY <2>2, <2>4
<1>3. PICK t \in T : \A y \in T : t <= y
  BY <1>2, LeastOf
<1>4. PICK x \in S : t = n - x
  BY <1>1
<1>5. \A y \in S : n - x <= n - y
  BY <1>1, <1>3, <1>4
<1> QED
  BY <1>5

\* Only paragraphs in use are visited.
LEMMA VisitedIs ==
  ASSUME NEW f, NEW X, Pool(f, X), NEW n, NEW V, V = TailStart(f, n).visited
  PROVE  V \subseteq X
<1>1. PICK ps, N : ps = Paras(f) /\ N = Len(ps)
  OBVIOUS
<1>2. ParaList(ps, f, X)
  BY <1>1, PoolFacts, ParasAre DEF Pool
<1>3. N \in Nat \ {0} /\ ps \in [1 .. N -> X]
  BY <1>1, <1>2 DEF ParaList
<1>4. PICK ks, k : ks = Enough(f, ps, n) /\ k = StartAt(ks)
  OBVIOUS
<1>5. ks \subseteq 1 .. N
  BY <1>3, <1>4 DEF Enough
<1>6. k \in 1 .. N
  <2>1. CASE ks = {}
    BY <1>3, <1>4, <2>1 DEF StartAt
  <2>2. CASE ks # {}
    <3>1. \E x \in ks : \A y \in ks : y <= x
      BY <1>3, <1>5, <2>2, GreatestOf
    <3>2. k \in ks
      BY <1>4, <2>2, <3>1 DEF StartAt
    <3> QED
      BY <1>5, <3>2
  <2> QED
    BY <2>1, <2>2
<1>7. V = Range(SubSeq(ps, k, N))
  BY <1>1, <1>4 DEF TailStart, StartFrom
<1>8. PICK s : s = SubSeq(ps, k, N)
  OBVIOUS
<1>9. s = [i \in 1 .. N - k + 1 |-> ps[k + i - 1]]
  BY <1>3, <1>6, <1>8, SMTT(30)
<1>10. \A i \in 1 .. N - k + 1 : k + i - 1 \in 1 .. N
  BY <1>3, <1>6
<1>11. \A i \in DOMAIN s : s[i] \in X
  BY <1>3, <1>9, <1>10
<1> QED
  BY <1>7, <1>8, <1>11 DEF Range

\* The number of lines of a paragraph, cached or not.
LEMMA LineCountIs ==
  ASSUME NEW f, NEW X, Sound(f, X), NEW p \in X
  PROVE  LineCount(f, p) = Len(Lines(f, p)) /\ Len(Lines(f, p)) \in Nat
<1>1. Pool(f, X) /\ CountRight(f, p)
  BY DEF Sound
<1>2. f \in Frames /\ X \subseteq 1 .. Len(f.P)
  BY <1>1, PoolFacts
<1>3. PICK XL, oL, rL, XB, oB, rB : LB(f, X, XL, oL, rL, XB, oB, rB)
  BY <1>1 DEF Pool, Lay
<1>4. PICK ls : ls = Lines(f, p)
  OBVIOUS
<1>5. LineList(ls, f, XL, oL, rL, p)
  BY <1>2, <1>3, <1>4, LBFacts, LinesAre
<1>6. Len(ls) \in Nat
  BY <1>5 DEF LineList, ListOf
<1> QED
  BY <1>1, <1>4, <1>6 DEF LineCount, CountRight

\* The lines of the paragraphs V are counted.
LEMMA CachedIs ==
  ASSUME NEW f, NEW X, Sound(f, X), NEW V, V \subseteq X, NEW h, h = Cached(f, V)
  PROVE  Relabeled(f, h, X)
<1>1. f \in Frames /\ X \subseteq 1 .. Len(f.P) /\ \A p \in X : CountRight(f, p)
  BY PoolFacts DEF Sound
<1>2. PICK s : s = [p \in DOMAIN f.P |-> IF p \in V THEN [f.P[p] EXCEPT !.count = LineCount(f,
    p) + 1] ELSE f.P[p]]
  OBVIOUS
<1>3. h = [f EXCEPT !.P = s]
  BY <1>2 DEF Cached
<1>4. PICK n : n = Len(f.P)
  OBVIOUS
<1>5. n \in Nat /\ DOMAIN f.P = 1 .. n /\ \A p \in 1 .. n : f.P[p] \in ParaSet
  BY <1>1, <1>4 DEF Frames
<1>6. DOMAIN s = 1 .. n
  BY <1>2, <1>5
<1>7. ASSUME NEW p \in 1 .. n
      PROVE  /\ s[p] \in ParaSet /\ s[p].firstL = f.P[p].firstL /\ s[p].next = f.P[p].next /\ s[p].prev = f.P[p].prev
             /\ (s[p].count = f.P[p].count \/ (p \in X /\ s[p].count = Len(Lines(f, p)) + 1))
  <2>1. CASE p \notin V
    BY <1>2, <1>5, <2>1
  <2>2. CASE p \in V
    <3>1. PICK x, c : x = f.P[p] /\ c = Len(Lines(f, p)) + 1
      OBVIOUS
    <3>2. p \in X /\ LineCount(f, p) + 1 = c /\ c \in Nat
      BY <2>2, <3>1, LineCountIs
    <3>3. s[p] = [x EXCEPT !.count = c]
      BY <1>2, <1>5, <2>2, <3>1, <3>2
    <3>4. x \in ParaSet
      BY <1>5, <3>1
    <3> QED
      BY <3>1, <3>2, <3>3, <3>4 DEF ParaSet
  <2> QED
    BY <2>1, <2>2
<1>8. s \in Seq(ParaSet) /\ Len(s) = n
  <2>1. s = [p \in 1 .. n |-> s[p]]
    BY <1>2, <1>5
  <2>2. \A p \in 1 .. n : s[p] \in ParaSet
    BY <1>7
  <2>3. s \in [1 .. n -> ParaSet]
    BY <2>1, <2>2
  <2> QED
    BY <1>5, <2>3
<1>9. /\ h \in Frames /\ h.P = s /\ SameL(f, h) /\ SameB(f, h) /\ SameT(f, h) /\ SameC(f, h)
      /\ h.freeP = f.freeP /\ h.firstP = f.firstP
  BY ONLY <1>1, <1>3, <1>8 DEF Frames, SameL, SameB, SameT, SameC
<1>10. SameLinksP(f, h)
  BY <1>4, <1>7, <1>8, <1>9 DEF SameLinksP
<1>11. SameLay(f, h, X)
  BY <1>1, <1>4, <1>7, <1>8, <1>9 DEF SameLay
<1>12. \A p \in X : CountRight(h, p)
  <2>1. \A p \in X : Lines(h, p) = Lines(f, p)
    BY <1>11, SameLines
  <2>2. \A p \in X : p \in 1 .. n
    BY <1>1, <1>4
  <2> QED
    BY <1>1, <1>7, <1>9, <2>1, <2>2 DEF CountRight
<1> QED
  BY <1>9, <1>10, <1>11, <1>12 DEF Relabeled

\* Line counts that are right may be cached.
LEMMA CachedGood ==
  ASSUME NEW f, Good(f), NEW n, NEW h, h = Cached(f, TailStart(f, n).visited)
  PROVE  Good(h)
<1>1. PICK X : Sound(f, X) /\ EndOpen(f, X)
  BY DEF Good
<1>2. PICK V : V = TailStart(f, n).visited
  OBVIOUS
<1>3. V \subseteq X
  BY <1>1, <1>2, VisitedIs DEF Sound
<1>4. Relabeled(f, h, X)
  BY <1>1, <1>2, <1>3, CachedIs
<1> QED
  BY <1>1, <1>4, RelabeledIs DEF Good

(***************************************************************************)
(* The inductive invariant of the view, and what follows from it.          *)
(***************************************************************************)
ViewInv ==
  /\ EditorOK
  /\ DOMAIN view = {"p", "l", "maxP", "maxL", "rows"} /\ view.rows \in Nat
  /\ broken \in BOOLEAN

\* A good frame is well formed, as the run checks it.
LEMMA GoodIsWellFormed == ViewInv => WellFormed
<1> SUFFICES ASSUME ViewInv PROVE WellFormed
  OBVIOUS
<1>1. Good(frame) /\ align \in Alignments /\ color \in Colors /\ lines \in Nat /\ view.rows \in Nat /\ broken \in BOOLEAN
  BY DEF ViewInv, EditorOK
<1>2. PICK f : f = frame
  OBVIOUS
<1>3. PICK X : Sound(f, X)
  BY <1>1, <1>2 DEF Good
<1>4. /\ Pool(f, X) /\ (\A p \in X : Fit(f, p) /\ CountRight(f, p))
      /\ (f.count # 0 => f.count = Cardinality(X) + 1) /\ LastRight(f)
  BY <1>3 DEF Sound
<1>5. f \in Frames /\ X \subseteq 1 .. Len(f.P) /\ X # {} /\ f.width > 1 /\ ListP(f, X)
  BY <1>4, PoolFacts DEF Pool
<1>6. PICK XL, oL, rL, XB, oB, rB : LB(f, X, XL, oL, rL, XB, oB, rB) /\ Sum(f, XB) = f.len
  BY <1>4 DEF Pool, Lay
<1>7. InUse(f, X, XL, XB)
  BY <1>4, <1>6, InUseIs
<1>8. LiveP = X /\ LiveL = XL /\ LiveB = XB
  <2>1. LiveP = X
    BY <1>2, <1>7 DEF LiveP, InUse
  <2>2. LiveL = XL
    BY <1>2, <1>7, <2>1 DEF LiveL, InUse
  <2> QED
    BY <1>2, <1>7, <2>1, <2>2 DEF LiveB, InUse
<1>9. WellLinked
  <2>1. ListsLinked(f, X, XL, XB)
    BY <1>4, <1>6, SoundLinked
  <2> QED
    BY <1>2, <1>8, <2>1 DEF WellLinked
<1>10. TextAccounted /\ f.len \in Nat
  <2>1. TextKept(f, XB) /\ f.len \in Nat
    BY <1>6, SoundText
  <2> QED
    BY <1>2, <1>8, <2>1 DEF TextAccounted
<1>11. LinesFit
  <2>1. oL \in [XL -> X]
    BY <1>6, LBFacts
  <2>2. \A l \in XL : oL[l] \in X
    BY <2>1
  <2>3. \A l \in XL : Fits(f, l)
    BY <1>4, <1>6, <2>2, FitIs
  <2> QED
    BY <1>2, <1>8, <2>3 DEF LinesFit, Fits
<1>12. CachesFresh
  BY <1>2, <1>4, <1>8 DEF CachesFresh, LastRight, CountRight
<1>13. ViewTypeOK
  <2>1. f.firstP \in X
    <3>1. PICK q : q \in X
      BY <1>5
    <3> QED
      BY <1>5, <3>1, Neighbours
  <2>2. DOMAIN f.P = 1 .. Len(f.P) /\ f.count \in Nat
    BY <1>5 DEF Frames
  <2>3. f.firstP \in DOMAIN f.P
    BY <1>5, <2>1, <2>2
  <2> QED
    BY <1>1, <1>2, <1>5, <1>10, <2>2, <2>3 DEF ViewTypeOK
<1> QED
  BY <1>9, <1>10, <1>11, <1>12, <1>13 DEF WellFormed

\* The view starts with a frame of one empty paragraph.
LEMMA ViewStarts == ViewInit => ViewInv
<1> SUFFICES ASSUME ViewInit PROVE ViewInv
  OBVIOUS
<1>1. EditorOK
  BY EditorStarts DEF ViewInit
<1>2. view = [p |-> 0, l |-> 0, maxP |-> 0, maxL |-> 0, rows |-> 0] /\ broken = FALSE
  BY DEF ViewInit
<1>3. DOMAIN view = {"p", "l", "maxP", "maxL", "rows"} /\ view.rows = 0
  BY <1>2
<1> QED
  BY <1>1, <1>2, <1>3 DEF ViewInv

\* What a step of the view leaves of the invariant when it keeps the frame.
LEMMA EditorKept ==
  ASSUME EditorOK, UNCHANGED <<frame, align, color, lines>>
  PROVE  EditorOK'
BY DEF EditorOK

RowsKept == DOMAIN view' = DOMAIN view /\ view'.rows = view.rows

\* Resizing lays out a frame again, and it stays good.
LEMMA ResizeKeeps ==
  ASSUME ViewInv, NEW size \in Sizes, Resize(size)
  PROVE  ViewInv'
<1>1. EditorOK /\ broken \in BOOLEAN
  BY DEF ViewInv
<1>2. size.columns \in Int /\ size.rows \in Nat
  BY SizesAssumption
<1>3. PICK g, f, w,
    n : g = frame /\ w = size.columns /\ n = size.rows /\ f = SetMaxRuneWidth(frame, size.columns)
  OBVIOUS
<1>4. Good(f)
  BY <1>1, <1>2, <1>3, SetMaxRuneWidthIs DEF EditorOK
<1>5. PICK h : h = Cached(f, TailStart(f, n).visited)
  OBVIOUS
<1>6. Good(h)
  BY <1>4, <1>5, CachedGood
<1>7. frame' = h /\ UNCHANGED <<align, color, lines, broken>>
  BY <1>3, <1>5 DEF Resize
<1>8. PICK s : view' = [p |-> s.p, l |-> s.l, maxP |-> s.p, maxL |-> s.l, rows |-> size.rows]
  BY DEF Resize
<1>9. DOMAIN view' = {"p", "l", "maxP", "maxL", "rows"} /\ view'.rows = size.rows
  BY <1>8
<1>10. EditorOK'
  BY <1>1, <1>6, <1>7 DEF EditorOK
<1> QED
  BY <1>1, <1>2, <1>7, <1>9, <1>10 DEF ViewInv

\* Drawing caches line counts that are right.
LEMMA DrawKeeps ==
  ASSUME ViewInv, Draw
  PROVE  ViewInv'
<1>1. EditorOK /\ DOMAIN view = {"p", "l", "maxP", "maxL", "rows"} /\ view.rows \in Nat
  BY DEF ViewInv
<1>2. PICK f, n : f = frame /\ n = view.rows
  OBVIOUS
<1>3. PICK h : h = Cached(f, TailStart(f, n).visited)
  OBVIOUS
<1>4. Good(h)
  BY <1>1, <1>2, <1>3, CachedGood DEF EditorOK
<1>5. frame' = h /\ UNCHANGED <<align, color, lines>> /\ broken' \in BOOLEAN /\ view' = AfterDraw
  BY <1>2, <1>3 DEF Draw
<1>6. RowsKept
  <2>1. PICK s : s = TailStart(frame, view.rows)
    OBVIOUS
  <2>2. view' = view \/ view' = [view EXCEPT !.p = s.p, !.l = s.l, !.maxP = s.p, !.maxL = s.l]
    BY <1>5, <2>1 DEF AfterDraw
  <2> QED
    BY <1>1, <2>2 DEF RowsKept
<1>7. EditorOK'
  BY <1>1, <1>4, <1>5 DEF EditorOK
<1> QED
  BY <1>1, <1>5, <1>6, <1>7 DEF ViewInv, RowsKept

\* Scrolling changes the view alone.
LEMMA ScrollKeeps ==
  ASSUME ViewInv, ScrollUp \/ ScrollDown
  PROVE  ViewInv'
<1>1. EditorOK /\ DOMAIN view = {"p", "l", "maxP", "maxL",
    "rows"} /\ view.rows \in Nat /\ broken \in BOOLEAN
  BY DEF ViewInv
<1>2. EditorOK'
  BY <1>1, EditorKept DEF ScrollUp, ScrollDown
<1>3. broken' \in BOOLEAN
  BY <1>1 DEF ScrollUp, ScrollDown
<1>4. \/ view' = view
      \/ \E l : view' = [view EXCEPT !.l = l]
      \/ \E p, l : view' = [view EXCEPT !.p = p, !.l = l]
  <2>1. CASE ScrollUp
    BY <2>1 DEF ScrollUp
  <2>2. CASE ScrollDown
    BY <2>2 DEF ScrollDown
  <2> QED
    BY <2>1, <2>2
<1>5. RowsKept
  <2>1. ASSUME NEW l, view' = [view EXCEPT !.l = l] PROVE RowsKept
    BY <1>1, <2>1 DEF RowsKept
  <2>2. ASSUME NEW p, NEW l, view' = [view EXCEPT !.p = p, !.l = l] PROVE RowsKept
    BY <1>1, <2>2 DEF RowsKept
  <2>3. ASSUME view' = view PROVE RowsKept
    BY <2>3 DEF RowsKept
  <2> QED
    BY <1>4, <2>1, <2>2, <2>3
<1> QED
  BY <1>1, <1>2, <1>3, <1>5 DEF ViewInv, RowsKept

\* Every step keeps the frame good.
LEMMA ViewGoesOn == ViewInv /\ [ViewNext]_viewVars => ViewInv'
<1> SUFFICES ASSUME ViewInv, [ViewNext]_viewVars PROVE ViewInv'
  OBVIOUS
<1>1. ASSUME Write PROVE ViewInv'
  <2>1. EditorOK'
    BY <1>1, EditKeeps DEF Write, ViewInv
  <2>2. UNCHANGED <<view, broken>>
    BY <1>1 DEF Write
  <2> QED
    BY <2>1, <2>2 DEF ViewInv
<1>2. ASSUME NEW size \in Sizes, Resize(size) PROVE ViewInv'
  BY <1>2, ResizeKeeps
<1>3. ASSUME Draw PROVE ViewInv'
  BY <1>3, DrawKeeps
<1>4. ASSUME NEW n \in Scrolls, BeginScroll(n) PROVE ViewInv'
  <2>1. UNCHANGED <<frame, align, color, lines, view, broken>>
    BY <1>4 DEF BeginScroll
  <2> QED
    BY <2>1, EditorKept DEF ViewInv
<1>5. ASSUME ScrollUp \/ ScrollDown PROVE ViewInv'
  BY <1>5, ScrollKeeps
<1>6. ASSUME UNCHANGED viewVars PROVE ViewInv'
  <2>1. UNCHANGED <<frame, align, color, lines, view, broken>>
    BY <1>6 DEF viewVars
  <2> QED
    BY <2>1, EditorKept DEF ViewInv
<1> QED
  BY <1>1, <1>2, <1>3, <1>4, <1>5, <1>6 DEF ViewNext

\* The pool of paragraphs, lines and boxes is well formed in every state.
THEOREM FrameWellFormed == ViewSpec => []WellFormed
<1>1. ViewInv => WellFormed
  BY GoodIsWellFormed
<1> QED
  BY <1>1, ViewStarts, ViewGoesOn, PTL DEF ViewSpec

------------------------------------------------------------------------------
(***************************************************************************)
(* Proofs about Images, for all files, pictures, units, sizes and bounds.  *)
(*                                                                         *)
(* The argument: whatever the caches answer is what loading some picture   *)
(* gives, in the unit of now, and of a file that was not touched it is the *)
(* picture in it.  Entries come, move and go, but an answer is never seen  *)
(* under another unit, as the unit is not set while images are published.  *)
(* The rest is arithmetic of rounding up, done once for any picture.       *)
(***************************************************************************)
\* how large something is in pixels or cells, and what a script may ask for
\* when its image is written rather than measured
Extents == [w : Nat, h : Nat]
WideSizes == [w : Nat \ {0}, h : Nat]

DecodedImages == [w : Nat, h : Nat, rgba : BOOLEAN]
Results == [ts : Extents, px : Extents, img : DecodedImages, bytes : {"none", "rgba", "png"}]
Keys == [file : Files, ask : Extents]
Entries == [key : Keys, result : Results]
Decodings == [file : Files, px : Extents, img : DecodedImages]
Asked == [file : Files, ask : WideSizes]
ImageBoxes == [file : Files, ask : WideSizes, result : Results]

Pictured == Pictures \cup {Absent}

\* what loading a picture gives
LoadedAs(picture, ask) ==
  IF picture = Absent THEN Fallback
  ELSE ResultOf(Resized(picture, CalcImageSize(ask)), CalcTextScaleSize(Resized(picture,
      CalcImageSize(ask))))

-----------------------------------------------------------------------------
(***************************************************************************)
(* Rounding.                                                               *)
(***************************************************************************)
LEMMA Quotient ==
  ASSUME NEW a \in Nat, NEW b \in Nat \ {0}
  PROVE  /\ a \div b \in Nat
         /\ b * (a \div b) <= a
         /\ a < b * (a \div b) + b
  BY SMT

LEMMA RoundedUp ==
  ASSUME NEW x \in Nat
  PROVE  /\ Ceil64(x) \in Nat
         /\ 64 * Ceil64(x) >= x
         /\ 64 * Ceil64(x) < x + 64
  BY SMT DEF Ceil64

LEMMA Product ==
  ASSUME NEW a \in Nat, NEW b \in Nat
  PROVE  /\ a * b \in Nat
         /\ (a > 0 /\ b > 0) => a * b > 0
  BY SMT

\* the cells of u, in 1/64 pixels, that w pixels need
CellsFor(w, u) == Ceil64((4096 * w) \div u)

LEMMA CellsCover ==
  ASSUME NEW w \in Nat, NEW u \in Nat \ {0}
  PROVE  /\ 64 * w > u * (CellsFor(w, u) - 1)
         /\ u <= 4096 => w <= Ceil64(u * CellsFor(w, u))
<1> DEFINE q == (4096 * w) \div u
<1> DEFINE c == Ceil64(q)
<1>a. 4096 * w \in Nat
  BY SMT
<1>b. q \in Nat /\ u * q <= 4096 * w /\ 4096 * w < u * q + u
  BY <1>a, Quotient
<1> HIDE DEF q
<1>c. c \in Nat /\ 64 * c >= q /\ 64 * c < q + 64
  BY <1>b, RoundedUp
<1> HIDE DEF c
<1>1. u * (64 * c) >= u * q
  BY <1>b, <1>c, SMT
<1>2. u * (64 * c - 64) < u * q
  BY <1>b, <1>c, SMT
<1>3. u * (64 * c) = 64 * (u * c) /\ u * c \in Nat
  BY <1>c, SMT
<1>4. u * (64 * c - 64) = 64 * (u * (c - 1)) /\ u * (c - 1) \in Int
  BY <1>c, SMT
<1>5. 64 * (u * c) > 4096 * w - u
  BY <1>b, <1>1, <1>3, SMT
<1>6. u <= 4096 => 64 * (u * c) > 4096 * w - 4096
  BY <1>5, <1>3, SMT
<1>7. u <= 4096 => u * c > 64 * w - 64
  BY <1>6, <1>3, SMT
<1>8. 64 * w > u * (c - 1)
  <2> DEFINE v == u * (c - 1)
  <2>1. v \in Int /\ 64 * v < 4096 * w
    <3>1. 64 * (u * (c - 1)) < u * q
      BY <1>2, <1>4
    <3>2. u * q \in Nat
      BY <1>b, SMT
    <3> QED
      BY <1>4, <1>b, <3>1, <3>2, SMT
  <2> HIDE DEF v
  <2>2. 64 * w > v
    BY <2>1, SMT
  <2> QED
    BY <2>2 DEF v
<1>9. u <= 4096 => w <= Ceil64(u * c)
  <2> DEFINE v == u * c
  <2>1. v \in Nat /\ (u <= 4096 => v > 64 * w - 64)
    BY <1>3, <1>7
  <2> HIDE DEF v
  <2>2. u <= 4096 => w <= Ceil64(v)
    BY <2>1, RoundedUp, SMT
  <2> QED
    BY <2>2 DEF v
<1>10. CellsFor(w, u) = c
  BY DEF CellsFor, c, q
<1> QED
  BY <1>8, <1>9, <1>10

-----------------------------------------------------------------------------
(***************************************************************************)
(* What loading a picture gives.                                           *)
(***************************************************************************)
UnitOK == /\ fetchType \in {"none", "rgba", "png"}
          /\ unit \in [w : Nat \ {0}, h : Nat \ {0}]

LEMMA SizesTyped ==
  ASSUME UnitOK, NEW s, s.w \in Nat, s.h \in Nat
  PROVE  /\ CalcImageSize(s) \in Extents
         /\ s.w > 0 => CalcImageSize(s).w > 0
         /\ CalcTextScaleSize(s) \in Extents
<1>1. unit.w \in Nat \ {0} /\ unit.h \in Nat \ {0}
  BY DEF UnitOK
<1>2. /\ unit.w * s.w \in Nat /\ unit.h * s.h \in Nat
      /\ s.w > 0 => unit.w * s.w > 0
  BY <1>1, Product
<1>3. CalcImageSize(s) = [w |-> Ceil64(unit.w * s.w), h |-> Ceil64(unit.h * s.h)]
  BY DEF CalcImageSize, Size
<1>4. /\ Ceil64(unit.w * s.w) \in Nat /\ Ceil64(unit.h * s.h) \in Nat
      /\ 64 * Ceil64(unit.w * s.w) >= unit.w * s.w
  BY <1>2, RoundedUp
<1>5. s.w > 0 => Ceil64(unit.w * s.w) > 0
  <2> DEFINE v == unit.w * s.w
  <2>1. v \in Nat /\ (s.w > 0 => v > 0)
    BY <1>2
  <2> HIDE DEF v
  <2>2. s.w > 0 => Ceil64(v) > 0
    BY <2>1, RoundedUp, SMT
  <2> QED
    BY <2>2 DEF v
<1>6. (4096 * s.w) \div unit.w \in Nat /\ (4096 * s.h) \div unit.h \in Nat
  BY <1>1, Quotient, SMT
<1>7. CalcTextScaleSize(s) = [w |-> Ceil64((4096 * s.w) \div unit.w),
    h |-> Ceil64((4096 * s.h) \div unit.h)]
  BY DEF CalcTextScaleSize, Size
<1>8. Ceil64((4096 * s.w) \div unit.w) \in Nat /\ Ceil64((4096 * s.h) \div unit.h) \in Nat
  BY <1>6, RoundedUp
<1> QED
  BY <1>3, <1>4, <1>5, <1>7, <1>8 DEF Extents

LEMMA ResizedTyped ==
  ASSUME NEW p \in Pictures, NEW px \in Extents
  PROVE  /\ Resized(p, px) \in DecodedImages
         /\ px # Zero => Resized(p, px).rgba = TRUE
<1>1. p \in [w : Nat \ {0}, h : Nat \ {0}, rgba : BOOLEAN]
  BY ImagesAssumption
<1>2. p.w \in Nat \ {0} /\ p.h \in Nat \ {0} /\ p.rgba \in BOOLEAN /\ p = [w |-> p.w, h |-> p.h,
    rgba |-> p.rgba]
  BY <1>1
<1>3. px.w \in Nat /\ px.h \in Nat
  BY DEF Extents
<1>4. px.h * p.w \in Nat /\ px.w * p.h \in Nat
  BY <1>2, <1>3, Product
<1>5. (px.h * p.w) \div p.h \in Nat /\ (px.w * p.h) \div p.w \in Nat
  BY <1>2, <1>4, Quotient
<1> DEFINE s == FixedAspectRateSize(p, px)
<1>6. s.w \in Nat /\ s.h \in Nat
  BY <1>3, <1>5 DEF FixedAspectRateSize, Size
<1> HIDE DEF s
<1>7. Resized(p, px) = IF px = Zero THEN p ELSE [w |-> s.w, h |-> s.h, rgba |-> TRUE]
  BY DEF Resized, s
<1>8. CASE px = Zero
  BY <1>1, <1>2, <1>7, <1>8 DEF DecodedImages
<1>9. CASE px # Zero
  BY <1>6, <1>7, <1>9 DEF DecodedImages
<1> QED
  BY <1>8, <1>9

LEMMA ResultTyped ==
  ASSUME UnitOK, NEW img \in DecodedImages, NEW cells \in Extents
  PROVE  /\ ResultOf(img, cells) \in Results
         /\ (img.w > 0 /\ img.h > 0 /\ img.rgba) => ResultOf(img, cells).bytes = fetchType
<1>1. CalcImageSize(cells) \in Extents
  BY SizesTyped DEF Extents
<1>2. SentAs(img) \in {"none", "rgba", "png"}
  BY DEF SentAs
<1>3. (img.w > 0 /\ img.h > 0 /\ img.rgba) => SentAs(img) = fetchType
  BY DEF SentAs, UnitOK
<1> QED
  BY <1>1, <1>2, <1>3 DEF ResultOf, Results

\* the black cells are ten by ten
LEMMA FallbackTyped ==
  ASSUME UnitOK
  PROVE  /\ CalcImageSize(Size(10, 10)) \in Extents
         /\ [w |-> CalcImageSize(Size(10, 10)).w, h |-> CalcImageSize(Size(10, 10)).h,
             rgba |-> TRUE] \in DecodedImages
         /\ Fallback = ResultOf([w |-> CalcImageSize(Size(10, 10)).w,
             h |-> CalcImageSize(Size(10, 10)).h, rgba |-> TRUE],
                                Size(10, 10))
         /\ Size(10, 10) \in Extents
         /\ Fallback \in Results
<1>1. Size(10, 10) \in Extents /\ Size(10, 10).w \in Nat /\ Size(10, 10).h \in Nat
  BY DEF Size, Extents
<1>2. CalcImageSize(Size(10, 10)) \in Extents
  BY <1>1, SizesTyped
<1> DEFINE px == CalcImageSize(Size(10, 10))
<1> HIDE DEF px
<1>3. [w |-> px.w, h |-> px.h, rgba |-> TRUE] \in DecodedImages
  BY <1>2 DEF px, Extents, DecodedImages
<1>4. Fallback = ResultOf([w |-> px.w, h |-> px.h, rgba |-> TRUE], Size(10, 10))
  BY DEF Fallback, px
<1>5. Fallback \in Results
  BY <1>1, <1>3, <1>4, ResultTyped
<1> QED
  BY <1>1, <1>2, <1>3, <1>4, <1>5 DEF px

LEMMA LoadedTyped ==
  ASSUME UnitOK, NEW p \in Pictured, NEW ask \in Extents
  PROVE  LoadedAs(p, ask) \in Results
<1>1. CASE p = Absent
  BY <1>1, FallbackTyped DEF LoadedAs
<1>2. CASE p # Absent
  <2> DEFINE img == Resized(p, CalcImageSize(ask))
  <2>1. p \in Pictures
    BY <1>2 DEF Pictured
  <2>2. CalcImageSize(ask) \in Extents
    BY SizesTyped DEF Extents
  <2>3. img \in DecodedImages
    BY <2>1, <2>2, ResizedTyped
  <2> HIDE DEF img
  <2>4. img.w \in Nat /\ img.h \in Nat
    BY <2>3 DEF DecodedImages
  <2>5. CalcTextScaleSize(img) \in Extents
    BY <2>4, SizesTyped
  <2>6. LoadedAs(p, ask) = ResultOf(img, CalcTextScaleSize(img))
    BY <1>2 DEF LoadedAs, img
  <2> QED
    BY <2>3, <2>5, <2>6, ResultTyped
<1> QED
  BY <1>1, <1>2

\* its cells hold its pixels, and no row or column of them is empty
Covered(r) ==
  /\ unit.w <= 4096 => r.img.w <= r.px.w
  /\ unit.h <= 4096 => r.img.h <= r.px.h
  /\ r.ts.w > 0 => 64 * r.img.w > unit.w * (r.ts.w - 1)
  /\ r.ts.h > 0 => 64 * r.img.h > unit.h * (r.ts.h - 1)

Whole(r) == Covered(r) /\ ((r.img.w > 0 /\ r.img.h > 0) => r.bytes = fetchType)

LEMMA LoadedIsWhole ==
  ASSUME UnitOK, NEW p \in Pictured, NEW ask \in WideSizes
  PROVE  Whole(LoadedAs(p, ask))
<1>0. unit.w \in Nat \ {0} /\ unit.h \in Nat \ {0}
  BY DEF UnitOK
<1>1. CASE p = Absent
  <2> DEFINE px == CalcImageSize(Size(10, 10))
             img == [w |-> px.w, h |-> px.h, rgba |-> TRUE]
             r == ResultOf(img, Size(10, 10))
  <2>1. LoadedAs(p, ask) = r /\ img \in DecodedImages /\ Size(10, 10) \in Extents
    BY <1>1, FallbackTyped DEF LoadedAs
  <2>2. (img.w > 0 /\ img.h > 0) => r.bytes = fetchType
    BY <2>1, ResultTyped
  <2>3. r.img = img /\ r.px = px /\ r.ts.w = 10 /\ r.ts.h = 10
    BY DEF ResultOf, Size
  <2>4. px.w = Ceil64(unit.w * 10) /\ px.h = Ceil64(unit.h * 10)
    BY DEF CalcImageSize, Size
  <2>5. ASSUME NEW u \in Nat \ {0}
        PROVE  Ceil64(u * 10) \in Nat /\ 64 * Ceil64(u * 10) > u * (10 - 1)
    BY SMT DEF Ceil64
  <2> HIDE DEF r, px
  <2>6. Covered(r)
    BY <1>0, <2>3, <2>4, <2>5 DEF Covered
  <2> QED
    BY <2>1, <2>2, <2>3, <2>6 DEF Whole
<1>2. CASE p # Absent
  <2> DEFINE at == CalcImageSize(ask)
             img == Resized(p, at)
             ts == CalcTextScaleSize(img)
             r == ResultOf(img, ts)
  <2>1. p \in Pictures /\ LoadedAs(p, ask) = r
    BY <1>2 DEF Pictured, LoadedAs
  <2>2. at \in Extents /\ at.w > 0
    BY SizesTyped DEF WideSizes
  <2>3. at # Zero
    BY <2>2 DEF Zero, Size
  <2> HIDE DEF at
  <2>4. img \in DecodedImages /\ img.rgba = TRUE
    BY <2>1, <2>2, <2>3, ResizedTyped
  <2> HIDE DEF img
  <2>5. img.w \in Nat /\ img.h \in Nat
    BY <2>4 DEF DecodedImages
  <2>6. ts \in Extents
    BY <2>5, SizesTyped
  <2>7. ts.w = CellsFor(img.w, unit.w) /\ ts.h = CellsFor(img.h, unit.h)
    BY DEF CalcTextScaleSize, Size, CellsFor
  <2> HIDE DEF ts
  <2>8. r.img = img /\ r.ts = ts /\ r.px = CalcImageSize(ts)
    BY DEF ResultOf
  <2>9. r.px.w = Ceil64(unit.w * ts.w) /\ r.px.h = Ceil64(unit.h * ts.h)
    BY <2>8 DEF CalcImageSize, Size
  <2>10. (r.img.w > 0 /\ r.img.h > 0) => r.bytes = fetchType
    BY <2>4, <2>6, <2>8, ResultTyped
  <2> HIDE DEF r
  <2>11. /\ unit.w <= 4096 => img.w <= r.px.w
         /\ 64 * img.w > unit.w * (ts.w - 1)
    BY <1>0, <2>5, <2>7, <2>9, CellsCover
  <2>12. /\ unit.h <= 4096 => img.h <= r.px.h
         /\ 64 * img.h > unit.h * (ts.h - 1)
    BY <1>0, <2>5, <2>7, <2>9, CellsCover
  <2>13. Covered(r)
    BY <2>8, <2>11, <2>12 DEF Covered
  <2> QED
    BY <2>1, <2>10, <2>13 DEF Whole
<1> QED
  BY <1>1, <1>2

-----------------------------------------------------------------------------
(***************************************************************************)
(* The invariant.                                                          *)
(***************************************************************************)
CachesTyped ==
  /\ cache \in Seq(Entries) /\ Len(cache) <= CacheSize
  /\ \A i, j \in DOMAIN cache : cache[i].key = cache[j].key => i = j
  /\ decoded \in Seq(Decodings) /\ Len(decoded) <= 1

\* the files, the paragraph and the bounds
RestTyped ==
  /\ disk \in [Files -> Pictured]
  /\ unit \in Units \cup {TemporaryUnit}
  /\ open \in Seq(Asked) /\ Len(open) <= MaxBoxes
  /\ boxes \in Seq(ImageBoxes) /\ Len(boxes) <= MaxBoxes
  /\ looper \in {"idle", "publishing", "closed"}
  /\ looper = "publishing" => Len(boxes) <= Len(open)
  /\ looper # "publishing" => boxes = <<>>
  /\ measured \subseteq [file : Files, ask : Extents, ts : Extents]
  /\ touched \subseteq Files /\ changes \in 0 .. MaxChanges /\ sets \in 0 .. MaxSets

\* r is what loading a picture gave, and the file f holds it if it was not touched
FromPicture(r, f, ask) ==
  \E p \in Pictured : r = LoadedAs(p, ask) /\ (f \notin touched => p = disk[f])

EntryTrue(e) == FromPicture(e.result, e.key.file, e.key.ask)

DecodingTrue(d) ==
  \E p \in Pictures : d.img = Resized(p, d.px) /\ (d.file \notin touched => p = disk[d.file])

CachesTrue == /\ \A i \in DOMAIN cache : EntryTrue(cache[i])
              /\ \A i \in DOMAIN decoded : DecodingTrue(decoded[i])

BoxesTrue == \A i \in DOMAIN boxes : FromPicture(boxes[i].result, boxes[i].file, boxes[i].ask)

MeasuredTrue == \A m \in measured : m.file \notin touched => m.ts = LoadedAs(disk[m.file], m.ask).ts

IInv == UnitOK /\ CachesTyped /\ RestTyped /\ CachesTrue /\ BoxesTrue /\ MeasuredTrue

-----------------------------------------------------------------------------
(***************************************************************************)
(* LoadBytes.                                                              *)
(***************************************************************************)
\* the entries for other keys are entries, and no key is there twice
LEMMA OthersAreEntries ==
  ASSUME CachesTyped, NEW f \in Files, NEW ask \in Extents
  PROVE  /\ Others(f, ask) \in Seq(Entries)
         /\ \A i \in DOMAIN Others(f, ask) : \E k \in DOMAIN cache : Others(f, ask)[i] = cache[k]
         /\ \A i \in DOMAIN Others(f, ask) : Others(f, ask)[i].key # Key(f, ask)
         /\ \A i, j \in DOMAIN Others(f, ask) : Others(f, ask)[i].key = Others(f, ask)[j].key =>
             i = j
<1>1. cache \in Seq(Entries) /\ \A i, j \in DOMAIN cache : cache[i].key = cache[j].key => i = j
  BY DEF CachesTyped
<1>2. CASE Hits(f, ask) = {}
  <2>1. Others(f, ask) = cache
    BY <1>2 DEF Others
  <2> QED
    BY <1>1, <1>2, <2>1 DEF Hits
<1>3. CASE Hits(f, ask) # {}
  <2> DEFINE h == CHOOSE i \in Hits(f, ask) : TRUE
             left == SubSeq(cache, 1, h - 1)
             right == SubSeq(cache, h + 1, Len(cache))
  <2>1. h \in DOMAIN cache /\ cache[h].key = Key(f, ask)
    BY <1>3 DEF Hits
  <2>2. Others(f, ask) = left \o right
    BY <1>3 DEF Others
  <2> HIDE DEF h
  <2>3. Len(cache) \in Nat /\ DOMAIN cache = 1 .. Len(cache) /\ h \in 1 .. Len(cache)
    BY <1>1, <2>1, LenProperties
  <2>4. \A i \in 1 .. Len(cache) : cache[i] \in Entries
    BY <1>1, ElementOfSeq
  <2>5. left \in Seq(Entries) /\ Len(left) = h - 1 /\ \A i \in 1 .. h - 1 : left[i] = cache[i]
    <3>1. h - 1 \in Int /\ \A i \in 1 .. h - 1 : cache[i] \in Entries
      BY <2>3, <2>4
    <3>2. /\ left \in Seq(Entries) /\ Len(left) = (IF 1 <= h - 1 THEN (h - 1) - 1 + 1 ELSE 0)
          /\ \A i \in 1 .. (h - 1) - 1 + 1 : left[i] = cache[1 + i - 1]
      BY <3>1, SubSeqProperties
    <3> QED
      BY <2>3, <3>2
  <2>6. /\ right \in Seq(Entries) /\ Len(right) = Len(cache) - h
        /\ \A i \in 1 .. Len(cache) - h : right[i] = cache[h + i]
    <3>1. h + 1 \in Int /\ \A i \in h + 1 .. Len(cache) : cache[i] \in Entries
      BY <2>3, <2>4
    <3>2. /\ right \in Seq(Entries)
          /\ Len(right) = (IF h + 1 <= Len(cache) THEN Len(cache) - (h + 1) + 1 ELSE 0)
          /\ \A i \in 1 .. Len(cache) - (h + 1) + 1 : right[i] = cache[(h + 1) + i - 1]
      BY <2>3, <3>1, SubSeqProperties
    <3>3. \A i \in 1 .. Len(cache) - h : i \in 1 .. Len(cache) - (h + 1) + 1 /\ (h + 1) + i - 1 = h + i
      BY <2>3
    <3>4. \A i \in 1 .. Len(cache) - h : right[i] = cache[h + i]
      BY <3>2, <3>3
    <3>5. Len(right) = Len(cache) - h
      <4>1. Len(cache) \in Int /\ h \in Int /\ h <= Len(cache)
        BY <2>3
      <4>2. CASE h + 1 <= Len(cache)
        BY <3>2, <4>1, <4>2
      <4>3. CASE ~ (h + 1 <= Len(cache))
        BY <3>2, <4>1, <4>3
      <4> QED
        BY <4>2, <4>3
    <3> QED
      BY <3>2, <3>4, <3>5
  <2> HIDE DEF left, right
  <2> DEFINE all == left \o right
             from(i) == IF i < h THEN i ELSE i + 1
  <2>7. /\ all \in Seq(Entries) /\ Len(all) = Len(left) + Len(right)
        /\ \A i \in 1 .. Len(left) + Len(right) : all[i] = IF i <= Len(left) THEN left[i] ELSE right[i - Len(left)]
    BY <2>5, <2>6, ConcatProperties
  <2> HIDE DEF all
  <2>8. Len(all) = Len(cache) - 1 /\ DOMAIN all = 1 .. Len(cache) - 1
    BY <2>3, <2>5, <2>6, <2>7, LenProperties
  <2>9. ASSUME NEW i \in 1 .. Len(cache) - 1
        PROVE  all[i] = cache[from(i)] /\ from(i) \in 1 .. Len(cache) /\ from(i) # h
    <3>1. CASE i < h
      <4>1. i \in 1 .. h - 1 /\ i <= Len(left) /\ i \in 1 .. Len(left) + Len(right)
        BY <2>3, <2>5, <2>6, <3>1
      <4>2. all[i] = left[i] /\ left[i] = cache[i]
        BY <2>5, <2>7, <4>1
      <4> QED
        BY <2>3, <3>1, <4>2
    <3>2. CASE ~ (i < h)
      <4>1. /\ i - (h - 1) \in 1 .. Len(cache) - h /\ ~ (i <= Len(left)) /\ i \in 1 .. Len(left) + Len(right)
            /\ h + (i - (h - 1)) = i + 1 /\ i - Len(left) = i - (h - 1)
        BY <2>3, <2>5, <2>6, <3>2
      <4>2. all[i] = right[i - (h - 1)] /\ right[i - (h - 1)] = cache[h + (i - (h - 1))]
        BY <2>6, <2>7, <4>1
      <4>3. all[i] = cache[i + 1]
        BY <4>1, <4>2
      <4> QED
        BY <2>3, <3>2, <4>3
    <3> QED
      BY <3>1, <3>2
  <2>10. \A i, j \in 1 .. Len(cache) - 1 : from(i) = from(j) => i = j
    BY <2>3
  <2> HIDE DEF from
  <2>11. \A i \in DOMAIN all : \E k \in DOMAIN cache : all[i] = cache[k]
    BY <2>3, <2>8, <2>9
  <2>12. \A i \in DOMAIN all : all[i].key # Key(f, ask)
    BY <1>1, <2>1, <2>3, <2>8, <2>9
  <2>13. \A i, j \in DOMAIN all : all[i].key = all[j].key => i = j
    BY <1>1, <2>3, <2>8, <2>9, <2>10
  <2> QED
    BY <2>2, <2>7, <2>11, <2>12, <2>13 DEF all
<1> QED
  BY <1>2, <1>3

\* what LoadBytes answers is what loading some picture gives
LEMMA AnswerIsTrue ==
  ASSUME IInv, NEW f \in Files, NEW ask \in Extents
  PROVE  FromPicture(Answer(f, ask), f, ask)
<1>1. CASE Hits(f, ask) # {}
  <2> DEFINE h == CHOOSE i \in Hits(f, ask) : TRUE
  <2>1. h \in DOMAIN cache /\ cache[h].key = Key(f, ask)
    BY <1>1 DEF Hits
  <2>2. Answer(f, ask) = cache[h].result
    BY <1>1 DEF Answer
  <2> HIDE DEF h
  <2>3. EntryTrue(cache[h])
    BY <2>1 DEF IInv, CachesTrue
  <2> QED
    BY <2>1, <2>2, <2>3 DEF EntryTrue, Key
<1>2. CASE Hits(f, ask) = {}
  <2> DEFINE px == CalcImageSize(ask)
             d == Decodes(f, px)
  <2>1. Answer(f, ask) = Loads(d)
    BY <1>2 DEF Answer
  <2>2. CASE decoded # <<>> /\ decoded[1].file = f /\ decoded[1].px = px
    <3>1. d = decoded /\ 1 \in DOMAIN decoded
      <4>1. Len(decoded) \in Nat \ {0} /\ DOMAIN decoded = 1 .. Len(decoded)
        BY <2>2, EmptySeq, LenProperties DEF IInv, CachesTyped
      <4> QED
        BY <2>2, <4>1 DEF Decodes
    <3>2. PICK p \in Pictures : decoded[1].img = Resized(p, px) /\ (f \notin touched => p = disk[f])
      BY <2>2, <3>1 DEF IInv, CachesTrue, DecodingTrue
    <3>3. p # Absent /\ p \in Pictured
      <4>1. p.w \in Nat \ {0}
        BY ImagesAssumption
      <4> QED
        BY <4>1 DEF Absent, Pictured
    <3>4. Loads(d) = ResultOf(decoded[1].img, CalcTextScaleSize(decoded[1].img))
      BY <2>2, <3>1 DEF Loads
    <3>5. Loads(d) = LoadedAs(p, ask)
      BY <3>2, <3>3, <3>4 DEF LoadedAs
    <3> QED
      BY <2>1, <3>2, <3>3, <3>5 DEF FromPicture
  <2>3. CASE ~ (decoded # <<>> /\ decoded[1].file = f /\ decoded[1].px = px)
    <3>1. disk[f] \in Pictured
      BY DEF IInv, RestTyped
    <3>2. Loads(d) = LoadedAs(disk[f], ask)
      <4>1. CASE disk[f] = Absent
        <5>1. d = <<>>
          BY <2>3, <4>1 DEF Decodes
        <5> QED
          BY <4>1, <5>1 DEF Loads, LoadedAs
      <4>2. CASE disk[f] # Absent
        <5>1. d = <<[file |-> f, px |-> px, img |-> Resized(disk[f], px)]>>
          BY <2>3, <4>2 DEF Decodes
        <5>2. d # <<>> /\ d[1].img = Resized(disk[f], px)
          BY <5>1
        <5> QED
          BY <4>2, <5>2 DEF Loads, LoadedAs
      <4> QED
        BY <4>1, <4>2
    <3> QED
      BY <2>1, <3>1, <3>2 DEF FromPicture
  <2> QED
    BY <2>2, <2>3
<1> QED
  BY <1>1, <1>2

\* an untouched file is answered as it is now
LEMMA UntouchedAnswer ==
  ASSUME NEW r, NEW f, NEW ask, FromPicture(r, f, ask), f \notin touched
  PROVE  r = LoadedAs(disk[f], ask)
  BY DEF FromPicture

LEMMA AnswerTyped ==
  ASSUME IInv, NEW f \in Files, NEW ask \in Extents
  PROVE  Answer(f, ask) \in Results
<1>1. PICK p \in Pictured : Answer(f, ask) = LoadedAs(p, ask)
  BY AnswerIsTrue DEF FromPicture
<1> QED
  BY <1>1, LoadedTyped DEF IInv

\* the entries that LoadBytes makes
NewEntry(f, ask) == [key |-> Key(f, ask), result |-> Answer(f, ask)]
AllEntries(f, ask) == <<NewEntry(f, ask)>> \o Others(f, ask)

LEMMA EntriesKept ==
  ASSUME IInv, NEW f \in Files, NEW ask \in Extents
  PROVE  /\ AllEntries(f, ask) \in Seq(Entries)
         /\ \A i \in DOMAIN AllEntries(f, ask) : EntryTrue(AllEntries(f, ask)[i])
         /\ \A i, j \in DOMAIN AllEntries(f, ask) : AllEntries(f, ask)[i].key = AllEntries(f,
             ask)[j].key => i = j
<1> DEFINE e == NewEntry(f, ask)
           o == Others(f, ask)
           all == <<e>> \o o
<1>1. e \in Entries /\ e.key = Key(f, ask) /\ EntryTrue(e)
  <2>1. Answer(f, ask) \in Results /\ FromPicture(Answer(f, ask), f, ask)
    BY AnswerTyped, AnswerIsTrue
  <2>2. Key(f, ask) \in Keys /\ Key(f, ask).file = f /\ Key(f, ask).ask = ask
    BY DEF Key, Keys
  <2> QED
    BY <2>1, <2>2 DEF NewEntry, Entries, EntryTrue
<1>2. /\ o \in Seq(Entries)
      /\ \A i \in DOMAIN o : \E k \in DOMAIN cache : o[i] = cache[k]
      /\ \A i \in DOMAIN o : o[i].key # Key(f, ask)
      /\ \A i, j \in DOMAIN o : o[i].key = o[j].key => i = j
  BY OthersAreEntries DEF IInv
<1> HIDE DEF e, o
<1>3. <<e>> \in Seq(Entries) /\ Len(<<e>>) = 1 /\ <<e>>[1] = e
  BY <1>1
<1>4. /\ all \in Seq(Entries) /\ Len(all) = Len(<<e>>) + Len(o)
      /\ \A i \in 1 .. Len(<<e>>) + Len(o) : all[i] = IF i <= Len(<<e>>) THEN <<e>>[i] ELSE o[i - Len(<<e>>)]
  BY <1>2, <1>3, ConcatProperties
<1> HIDE DEF all
<1>5. Len(o) \in Nat /\ DOMAIN o = 1 .. Len(o) /\ DOMAIN all = 1 .. Len(all) /\ Len(all) = 1 + Len(o)
  BY <1>2, <1>3, <1>4, LenProperties
<1>6. all[1] = e /\ \A i \in 2 .. Len(all) : all[i] = o[i - 1] /\ i - 1 \in DOMAIN o
  BY <1>3, <1>4, <1>5
<1>7. \A i \in DOMAIN all : EntryTrue(all[i])
  <2>1. \A i \in DOMAIN o : EntryTrue(o[i])
    BY <1>2 DEF IInv, CachesTrue
  <2>2. \A i \in 1 .. Len(all) : i = 1 \/ i \in 2 .. Len(all)
    BY <1>5
  <2> QED
    BY <1>1, <1>5, <1>6, <2>1, <2>2
<1>8. \A i, j \in DOMAIN all : all[i].key = all[j].key => i = j
  <2> SUFFICES ASSUME NEW i \in DOMAIN all, NEW j \in DOMAIN all, all[i].key = all[j].key
               PROVE  i = j
    OBVIOUS
  <2>1. CASE i = 1 /\ j # 1
    <3>1. all[j] = o[j - 1] /\ j - 1 \in DOMAIN o
      BY <1>5, <1>6, <2>1
    <3> QED
      BY <1>1, <1>2, <1>6, <2>1, <3>1
  <2>2. CASE i # 1 /\ j = 1
    <3>1. all[i] = o[i - 1] /\ i - 1 \in DOMAIN o
      BY <1>5, <1>6, <2>2
    <3> QED
      BY <1>1, <1>2, <1>6, <2>2, <3>1
  <2>3. CASE i # 1 /\ j # 1
    <3>1. all[i] = o[i - 1] /\ i - 1 \in DOMAIN o /\ all[j] = o[j - 1] /\ j - 1 \in DOMAIN o
      BY <1>5, <1>6, <2>3
    <3>2. i - 1 = j - 1
      BY <1>2, <3>1
    <3> QED
      BY <1>5, <3>2
  <2> QED
    BY <2>1, <2>2, <2>3
<1> QED
  BY <1>4, <1>7, <1>8 DEF AllEntries, all, e, o

\* in the same unit a picture is loaded as before
LEMMA SameUnit ==
  ASSUME UNCHANGED <<fetchType, unit>>, NEW p, NEW ask
  PROVE  LoadedAs(p, ask)' = LoadedAs(p, ask)
  BY DEF LoadedAs, Fallback, ResultOf, SentAs, CalcImageSize, CalcTextScaleSize

\* what came from a picture still does if its file is the same or is touched now
LEMMA StillFromPicture ==
  ASSUME UNCHANGED <<fetchType, unit>>, NEW r, NEW f, NEW ask,
         f \notin touched' => f \notin touched /\ disk'[f] = disk[f],
         FromPicture(r, f, ask)
  PROVE  FromPicture(r, f, ask)'
  BY SameUnit DEF FromPicture

LEMMA LoadBytesKeeps ==
  ASSUME IInv, UNCHANGED <<fetchType, disk, unit, touched>>,
         NEW f \in Files, NEW ask \in Extents, LoadBytes(f, ask)
  PROVE  CachesTyped' /\ CachesTrue'
<1> DEFINE all == AllEntries(f, ask)
           n == IF Len(all) > CacheSize THEN CacheSize ELSE Len(all)
<1>1. /\ all \in Seq(Entries)
      /\ \A i \in DOMAIN all : EntryTrue(all[i])
      /\ \A i, j \in DOMAIN all : all[i].key = all[j].key => i = j
  BY EntriesKept
<1>2. cache' = SubSeq(all, 1, n)
  BY DEF LoadBytes, AllEntries, NewEntry
<1> HIDE DEF all
<1>3. CacheSize \in Nat /\ Len(all) \in Nat /\ DOMAIN all = 1 .. Len(all)
  BY <1>1, LenProperties, ImagesAssumption
<1>4. n \in Nat /\ n <= Len(all) /\ n <= CacheSize
  BY <1>3
<1> HIDE DEF n
<1>5. cache' \in Seq(Entries) /\ Len(cache') = n /\ \A i \in 1 .. n : cache'[i] = all[i]
  <2>1. \A i \in 1 .. n : i \in 1 .. Len(all) /\ all[i] \in Entries
    BY <1>1, <1>3, <1>4, ElementOfSeq
  <2>2. /\ SubSeq(all, 1, n) \in Seq(Entries)
        /\ Len(SubSeq(all, 1, n)) = (IF 1 <= n THEN n - 1 + 1 ELSE 0)
        /\ \A i \in 1 .. n - 1 + 1 : SubSeq(all, 1, n)[i] = all[1 + i - 1]
    BY <1>4, <2>1, SubSeqProperties
  <2>3. Len(SubSeq(all, 1, n)) = n
    BY <1>4, <2>2
  <2>4. \A i \in 1 .. n : SubSeq(all, 1, n)[i] = all[i]
    BY <1>4, <2>2
  <2> QED
    BY <1>2, <2>2, <2>3, <2>4
<1>6. DOMAIN cache' = 1 .. n /\ \A i \in DOMAIN cache' : i \in DOMAIN all /\ cache'[i] = all[i]
  BY <1>3, <1>4, <1>5, LenProperties
<1>7. \A i \in DOMAIN cache' : EntryTrue(cache[i])'
  <2> SUFFICES ASSUME NEW i \in DOMAIN cache'
               PROVE  EntryTrue(cache[i])'
    OBVIOUS
  <2>1. PICK e : e = all[i]
    OBVIOUS
  <2>2. cache'[i] = e /\ FromPicture(e.result, e.key.file, e.key.ask)
    BY <1>1, <1>6, <2>1 DEF EntryTrue
  <2>3. FromPicture(e.result, e.key.file, e.key.ask)'
    BY <2>2, StillFromPicture
  <2> QED
    BY <2>2, <2>3 DEF EntryTrue
<1>8. decoded' \in Seq(Decodings) /\ Len(decoded') <= 1 /\ \A i \in DOMAIN decoded' : DecodingTrue(decoded[i])'
  <2>1. decoded \in Seq(Decodings) /\ Len(decoded) <= 1 /\ \A i \in DOMAIN decoded : DecodingTrue(decoded[i])
    BY DEF IInv, CachesTyped, CachesTrue
  <2>2. CASE decoded' = decoded
    BY <2>1, <2>2 DEF DecodingTrue
  <2>3. CASE decoded' # decoded
    <3> DEFINE px == CalcImageSize(ask)
               d == [file |-> f, px |-> px, img |-> Resized(disk[f], px)]
    <3>1. disk[f] # Absent /\ decoded' = <<d>>
      BY <2>3 DEF LoadBytes, Decodes
    <3>2. disk[f] \in Pictures
      BY <3>1 DEF IInv, RestTyped, Pictured
    <3>3. px \in Extents
      BY SizesTyped DEF IInv, Extents
    <3> HIDE DEF px
    <3>4. d \in Decodings
      BY <3>2, <3>3, ResizedTyped DEF Decodings
    <3>5. DOMAIN decoded' = {1} /\ decoded'[1] = d /\ Len(decoded') = 1 /\ decoded' \in Seq(Decodings)
      BY <3>1, <3>4
    <3>6. DecodingTrue(d)
      BY <3>2 DEF DecodingTrue
    <3> HIDE DEF d
    <3> QED
      BY <3>5, <3>6 DEF DecodingTrue
  <2> QED
    BY <2>2, <2>3
<1>9. \A i, j \in DOMAIN cache' : cache'[i].key = cache'[j].key => i = j
  BY <1>1, <1>6
<1> QED
  BY <1>4, <1>5, <1>7, <1>8, <1>9 DEF CachesTyped, CachesTrue

-----------------------------------------------------------------------------
(***************************************************************************)
(* The steps.                                                              *)
(***************************************************************************)
\* what a step leaves alone stays true, as long as the unit is the same and a
\* file that changes is touched
LEMMA Kept ==
  ASSUME IInv, UNCHANGED <<fetchType, unit>>,
         \A f \in Files : f \notin touched' => f \notin touched /\ disk'[f] = disk[f]
  PROVE  /\ UNCHANGED caches => CachesTyped' /\ CachesTrue'
         /\ UNCHANGED boxes => BoxesTrue'
         /\ UNCHANGED measured => MeasuredTrue'
<1>1. ASSUME UNCHANGED caches
      PROVE  CachesTyped' /\ CachesTrue'
  <2>1. cache' = cache /\ decoded' = decoded
    BY <1>1 DEF caches
  <2>2. CachesTyped'
    BY <2>1 DEF IInv, CachesTyped
  <2>3. \A i \in DOMAIN cache' : EntryTrue(cache[i])'
    <3> SUFFICES ASSUME NEW i \in DOMAIN cache'
                 PROVE  EntryTrue(cache[i])'
      OBVIOUS
    <3>1. PICK e : e = cache[i]
      OBVIOUS
    <3>2. cache'[i] = e /\ FromPicture(e.result, e.key.file, e.key.ask)
      BY <2>1, <3>1 DEF IInv, CachesTrue, EntryTrue
    <3>3. e.key.file \in Files
      <4>1. e \in Entries
        BY <2>1, <3>1, ElementOfSeq, LenProperties DEF IInv, CachesTyped
      <4> QED
        BY <4>1 DEF Entries, Keys
    <3>4. FromPicture(e.result, e.key.file, e.key.ask)'
      BY <3>2, <3>3, StillFromPicture
    <3> QED
      BY <3>2, <3>4 DEF EntryTrue
  <2>4. \A i \in DOMAIN decoded' : DecodingTrue(decoded[i])'
    <3> SUFFICES ASSUME NEW i \in DOMAIN decoded'
                 PROVE  DecodingTrue(decoded[i])'
      OBVIOUS
    <3>1. PICK d : d = decoded[i]
      OBVIOUS
    <3>2. decoded'[i] = d /\ DecodingTrue(d)
      BY <2>1, <3>1 DEF IInv, CachesTrue
    <3>3. d.file \in Files
      <4>1. d \in Decodings
        BY <2>1, <3>1, ElementOfSeq, LenProperties DEF IInv, CachesTyped
      <4> QED
        BY <4>1 DEF Decodings
    <3> QED
      BY <3>2, <3>3 DEF DecodingTrue
  <2> QED
    BY <2>2, <2>3, <2>4 DEF CachesTrue
<1>2. ASSUME UNCHANGED boxes
      PROVE  BoxesTrue'
  <2> SUFFICES ASSUME NEW i \in DOMAIN boxes'
               PROVE  FromPicture(boxes[i].result, boxes[i].file, boxes[i].ask)'
    BY DEF BoxesTrue
  <2>1. PICK b : b = boxes[i]
    OBVIOUS
  <2>2. boxes'[i] = b /\ FromPicture(b.result, b.file, b.ask)
    BY <1>2, <2>1 DEF IInv, BoxesTrue
  <2>3. b.file \in Files
    <3>1. b \in ImageBoxes
      BY <1>2, <2>1, ElementOfSeq, LenProperties DEF IInv, RestTyped
    <3> QED
      BY <3>1 DEF ImageBoxes
  <2>4. FromPicture(b.result, b.file, b.ask)'
    BY <2>2, <2>3, StillFromPicture
  <2> QED
    BY <2>2, <2>4
<1>3. ASSUME UNCHANGED measured
      PROVE  MeasuredTrue'
  <2> SUFFICES ASSUME NEW m \in measured', m.file \notin touched'
               PROVE  m.ts = LoadedAs(disk[m.file], m.ask)'.ts
    BY DEF MeasuredTrue
  <2>1. m \in measured /\ m.file \in Files
    BY <1>3 DEF IInv, RestTyped
  <2>2. m.file \notin touched /\ disk'[m.file] = disk[m.file]
    BY <2>1
  <2>3. m.ts = LoadedAs(disk[m.file], m.ask).ts
    BY <2>1, <2>2 DEF IInv, MeasuredTrue
  <2>4. PICK p : p = disk[m.file]
    OBVIOUS
  <2>5. LoadedAs(p, m.ask)' = LoadedAs(p, m.ask) /\ disk'[m.file] = p
    BY <2>2, <2>4, SameUnit
  <2>6. LoadedAs(disk[m.file], m.ask)' = LoadedAs(p, m.ask)'
    BY <2>5
  <2> QED
    BY <2>3, <2>4, <2>5, <2>6
<1> QED
  BY <1>1, <1>2, <1>3

LEMMA ClampedTyped ==
  ASSUME NEW ask \in Asks
  PROVE  Clamped(ask) \in Extents /\ (Clamped(ask).w > 0 => Clamped(ask) \in WideSizes)
<1>1. ask.w \in Int /\ ask.h \in Int
  BY ImagesAssumption
<1> QED
  BY <1>1 DEF Clamped, Size, Extents, WideSizes

LEMMA InitHolds == Init => IInv
<1> SUFFICES ASSUME Init PROVE IInv
  OBVIOUS
<1>1. UnitOK
  BY ImagesAssumption DEF Init, UnitOK, TemporaryUnit, Size
<1>2. CachesTyped /\ CachesTrue
  BY ImagesAssumption DEF Init, CachesTyped, CachesTrue
<1>3. RestTyped /\ BoxesTrue /\ MeasuredTrue
  BY ImagesAssumption DEF Init, RestTyped, BoxesTrue, MeasuredTrue, Pictured
<1> QED
  BY <1>1, <1>2, <1>3 DEF IInv

LEMMA PrintImageStep ==
  ASSUME IInv, PrintImage
  PROVE  IInv'
<1>1. PICK f \in Files, a \in Asks : looper = "idle" /\ WriteImage(f, Clamped(a))
  BY DEF PrintImage
<1>2. UNCHANGED <<fetchType, disk, unit, caches, boxes, changes, sets>>
  BY DEF PrintImage
<1>3. UnitOK'
  BY <1>2 DEF IInv, UnitOK
<1>4. boxes = <<>>
  BY <1>1 DEF IInv, RestTyped
<1>5. CASE Clamped(a).w > 0
  <2> DEFINE e == [file |-> f, ask |-> Clamped(a)]
  <2>1. /\ Len(open) < MaxBoxes /\ open' = Append(open, e) /\ UNCHANGED <<looper, measured,
           touched>>
    BY <1>1, <1>5, ClampedTyped DEF WriteImage, Extents
  <2>2. e \in Asked
    BY <1>5, ClampedTyped DEF Asked
  <2> HIDE DEF e
  <2>3. open' \in Seq(Asked) /\ Len(open') = Len(open) + 1 /\ Len(open) \in Nat
    BY <2>1, <2>2, AppendProperties, LenProperties DEF IInv, RestTyped
  <2>4. Len(open') <= MaxBoxes
    BY <2>1, <2>3, ImagesAssumption
  <2>5. RestTyped'
    BY <1>1, <1>2, <2>1, <2>3, <2>4 DEF IInv, RestTyped
  <2>6. CachesTyped' /\ CachesTrue' /\ BoxesTrue' /\ MeasuredTrue'
    BY <1>2, <2>1, Kept
  <2> QED
    BY <1>3, <2>5, <2>6 DEF IInv
<1>6. CASE ~ (Clamped(a).w > 0)
  <2>1. looper' = "closed" /\ open' = <<>> /\ measured' = {} /\ touched' = Files
    BY <1>1, <1>6 DEF WriteImage
  <2>2. RestTyped'
    BY <1>2, <1>4, <2>1, ImagesAssumption DEF IInv, RestTyped
  <2>3. CachesTyped' /\ CachesTrue' /\ BoxesTrue'
    BY <1>2, <2>1, Kept
  <2>4. MeasuredTrue'
    BY <2>1 DEF MeasuredTrue
  <2> QED
    BY <1>3, <2>2, <2>3, <2>4 DEF IInv
<1> QED
  BY <1>5, <1>6

LEMMA MeasureStep ==
  ASSUME IInv, MeasureImageSize
  PROVE  IInv'
<1>1. PICK f \in Files, a \in Asks :
        /\ looper = "idle" /\ LoadBytes(f, Clamped(a))
        /\ measured' = {[file |-> f, ask |-> Clamped(a), ts |-> Answer(f, Clamped(a)).ts]}
  BY DEF MeasureImageSize
<1>2. UNCHANGED <<fetchType, disk, unit, open, looper, boxes, touched, changes, sets>>
  BY DEF MeasureImageSize
<1>3. UnitOK'
  BY <1>2 DEF IInv, UnitOK
<1>4. PICK ask \in Extents : ask = Clamped(a)
  BY ClampedTyped
<1>5. CachesTyped' /\ CachesTrue'
  BY <1>1, <1>2, <1>4, LoadBytesKeeps
<1>6. BoxesTrue'
  BY <1>2, Kept
<1>7. PICK r \in Results : r = Answer(f, ask) /\ FromPicture(r, f, ask)
  BY AnswerTyped, AnswerIsTrue
<1>8. measured' = {[file |-> f, ask |-> ask, ts |-> r.ts]}
  BY <1>1, <1>4, <1>7
<1>9. measured' \subseteq [file : Files, ask : Extents, ts : Extents]
  BY <1>8 DEF Results
<1>10. RestTyped'
  BY <1>2, <1>9 DEF IInv, RestTyped
<1>11. MeasuredTrue'
  <2>1. f \notin touched => r = LoadedAs(disk[f], ask)
    BY <1>7, UntouchedAnswer
  <2>2. PICK p : p = disk[f]
    OBVIOUS
  <2>3. LoadedAs(p, ask)' = LoadedAs(p, ask) /\ disk'[f] = p
    BY <1>2, <2>2, SameUnit
  <2>4. f \notin touched' => r = LoadedAs(p, ask)'
    BY <1>2, <2>1, <2>2, <2>3
  <2>5. f \notin touched' => r = LoadedAs(disk[f], ask)'
    BY <2>3, <2>4
  <2> QED
    BY <1>8, <2>5 DEF MeasuredTrue
<1> QED
  BY <1>3, <1>5, <1>6, <1>10, <1>11 DEF IInv

LEMMA CreateImageBoxStep ==
  ASSUME IInv, CreateImageBox
  PROVE  IInv'
<1> DEFINE k == Len(boxes) + 1
<1>1. PICK b : b = open[k]
  OBVIOUS
<1>2. /\ looper = "publishing" /\ Len(boxes) < Len(open)
      /\ boxes' = Append(boxes, [file |-> b.file, ask |-> b.ask, result |-> Answer(b.file, b.ask)])
      /\ LoadBytes(b.file, b.ask)
  BY <1>1 DEF CreateImageBox
<1>3. UNCHANGED <<fetchType, disk, unit, open, looper, measured, touched, changes, sets>>
  BY DEF CreateImageBox
<1>4. Len(boxes) \in Nat /\ Len(open) \in Nat /\ DOMAIN boxes = 1 .. Len(boxes)
  BY LenProperties DEF IInv, RestTyped
<1>5. b \in Asked /\ b.file \in Files /\ b.ask \in WideSizes /\ b.ask \in Extents
  <2>1. k \in 1 .. Len(open)
    BY <1>2, <1>4
  <2>2. b \in Asked
    BY <1>1, <2>1, ElementOfSeq DEF IInv, RestTyped
  <2> QED
    BY <2>2 DEF Asked, WideSizes, Extents
<1>6. PICK r \in Results : r = Answer(b.file, b.ask) /\ FromPicture(r, b.file, b.ask)
  BY <1>5, AnswerTyped, AnswerIsTrue
<1> DEFINE e == [file |-> b.file, ask |-> b.ask, result |-> r]
<1>7. e \in ImageBoxes
  BY <1>5 DEF ImageBoxes
<1>8. boxes' = Append(boxes, e)
  BY <1>2, <1>6
<1>9. UnitOK'
  BY <1>3 DEF IInv, UnitOK
<1>10. CachesTyped' /\ CachesTrue'
  BY <1>2, <1>3, <1>5, LoadBytesKeeps
<1>11. MeasuredTrue'
  BY <1>3, Kept
<1>12. /\ boxes' \in Seq(ImageBoxes) /\ Len(boxes') = k /\ DOMAIN boxes' = 1 .. k
       /\ boxes'[k] = e /\ \A i \in 1 .. Len(boxes) : boxes'[i] = boxes[i]
  BY <1>7, <1>8, AppendProperties, LenProperties DEF IInv, RestTyped
<1>13. RestTyped'
  <2>1. Len(boxes') <= Len(open) /\ Len(boxes') <= MaxBoxes
    BY <1>2, <1>4, <1>12, ImagesAssumption DEF IInv, RestTyped
  <2> QED
    BY <1>2, <1>3, <1>12, <2>1 DEF IInv, RestTyped
<1>14. BoxesTrue'
  <2> SUFFICES ASSUME NEW i \in DOMAIN boxes'
               PROVE  FromPicture(boxes[i].result, boxes[i].file, boxes[i].ask)'
    BY DEF BoxesTrue
  <2>1. PICK c : c = boxes'[i]
    OBVIOUS
  <2>2. FromPicture(c.result, c.file, c.ask)
    <3>1. CASE i = k
      BY <1>6, <1>12, <2>1, <3>1
    <3>2. CASE i # k
      <4>1. i \in DOMAIN boxes /\ c = boxes[i]
        BY <1>4, <1>12, <2>1, <3>2
      <4> QED
        BY <4>1 DEF IInv, BoxesTrue
    <3> QED
      BY <3>1, <3>2
  <2>3. FromPicture(c.result, c.file, c.ask)'
    BY <1>3, <2>2, StillFromPicture
  <2> QED
    BY <2>1, <2>3
<1> QED
  BY <1>9, <1>10, <1>11, <1>13, <1>14 DEF IInv

LEMMA ParagraphStep ==
  ASSUME IInv, StartParagraph \/ Publish
  PROVE  IInv'
<1>1. UNCHANGED <<fetchType, disk, unit, caches, measured, touched, changes, sets>>
  BY DEF StartParagraph, Publish
<1>2. UnitOK' /\ CachesTyped' /\ CachesTrue' /\ MeasuredTrue'
  BY <1>1, Kept DEF IInv, UnitOK
<1>3. CASE StartParagraph
  <2>1. boxes = <<>> /\ boxes' = boxes /\ open' = open /\ looper' = "publishing"
    BY <1>3 DEF StartParagraph, IInv, RestTyped
  <2>2. Len(boxes') <= Len(open')
    BY <2>1, LenProperties DEF IInv, RestTyped
  <2>3. RestTyped'
    BY <1>1, <2>1, <2>2 DEF IInv, RestTyped
  <2>4. BoxesTrue'
    BY <2>1 DEF BoxesTrue
  <2> QED
    BY <1>2, <2>3, <2>4 DEF IInv
<1>4. CASE Publish
  <2>1. boxes' = <<>> /\ looper' = "idle" /\ open' \in {open, <<>>}
    BY <1>4 DEF Publish
  <2>2. MaxBoxes \in Nat /\ <<>> \in Seq(Asked) /\ <<>> \in Seq(ImageBoxes) /\ Len(<<>>) = 0
    BY ImagesAssumption
  <2>3. open' \in Seq(Asked) /\ Len(open') <= MaxBoxes
    <3>1. CASE open' = open
      BY <3>1 DEF IInv, RestTyped
    <3>2. CASE open' = <<>>
      BY <2>2, <3>2
    <3> QED
      BY <2>1, <3>1, <3>2
  <2>4. boxes' \in Seq(ImageBoxes) /\ Len(boxes') <= MaxBoxes
    BY <2>1, <2>2
  <2>5. RestTyped'
    BY <1>1, <2>1, <2>3, <2>4 DEF IInv, RestTyped
  <2>6. BoxesTrue'
    BY <2>1 DEF BoxesTrue
  <2> QED
    BY <1>2, <2>5, <2>6 DEF IInv
<1> QED
  BY <1>3, <1>4

LEMMA SetTextUnitStep ==
  ASSUME IInv, SetTextUnitPx
  PROVE  IInv'
<1>1. PICK u \in Units : looper = "idle" /\ sets < MaxSets /\ unit' = u /\ sets' = sets + 1
  BY DEF SetTextUnitPx
<1>2. /\ cache' = <<>> /\ decoded' = <<>> /\ measured' = {} /\ touched' = {}
      /\ UNCHANGED <<fetchType, disk, open, looper, boxes, changes>> /\ boxes = <<>>
  BY <1>1 DEF SetTextUnitPx, IInv, RestTyped
<1>3. UnitOK'
  BY <1>1, <1>2, ImagesAssumption DEF IInv, UnitOK
<1>4. CachesTyped' /\ CachesTrue' /\ BoxesTrue' /\ MeasuredTrue'
  BY <1>2, ImagesAssumption DEF CachesTyped, CachesTrue, BoxesTrue, MeasuredTrue
<1>5. sets' \in 0 .. MaxSets
  BY <1>1, ImagesAssumption DEF IInv, RestTyped
<1>6. RestTyped'
  BY <1>1, <1>2, <1>5 DEF IInv, RestTyped
<1> QED
  BY <1>3, <1>4, <1>6 DEF IInv

LEMMA FileChangesStep ==
  ASSUME IInv, FileChanges
  PROVE  IInv'
<1>1. PICK f \in Files, p \in Pictured :
        /\ changes < MaxChanges /\ changes' = changes + 1
        /\ disk' = [disk EXCEPT ![f] = p] /\ touched' = touched \cup {f}
  BY DEF FileChanges, Pictured
<1>2. UNCHANGED <<fetchType, unit, caches, open, looper, boxes, measured, sets>>
  BY DEF FileChanges
<1>3. \A g \in Files : g \notin touched' => g \notin touched /\ disk'[g] = disk[g]
  BY <1>1 DEF IInv, RestTyped
<1>4. UnitOK' /\ CachesTyped' /\ CachesTrue' /\ BoxesTrue' /\ MeasuredTrue'
  BY <1>2, <1>3, Kept DEF IInv, UnitOK
<1>5. changes' \in 0 .. MaxChanges
  BY <1>1, ImagesAssumption DEF IInv, RestTyped
<1>6. RestTyped'
  BY <1>1, <1>2, <1>5 DEF IInv, RestTyped
<1> QED
  BY <1>4, <1>6 DEF IInv

LEMMA StutterStep ==
  ASSUME IInv, UNCHANGED vars
  PROVE  IInv'
<1>1. UNCHANGED <<fetchType, disk, unit, cache, decoded, open, looper, boxes, measured, touched,
    changes, sets>>
  BY DEF vars
<1>2. UnitOK' /\ CachesTyped' /\ CachesTrue' /\ BoxesTrue' /\ MeasuredTrue'
  BY <1>1, Kept DEF IInv, UnitOK, caches
<1>3. RestTyped'
  BY <1>1 DEF IInv, RestTyped
<1> QED
  BY <1>2, <1>3 DEF IInv

LEMMA Invariance == Spec => []IInv
<1>1. Init => IInv
  BY InitHolds
<1>2. IInv /\ [Next]_vars => IInv'
  BY PrintImageStep, MeasureStep, CreateImageBoxStep, ParagraphStep, SetTextUnitStep,
      FileChangesStep, StutterStep
     DEF Next
<1> QED
  BY <1>1, <1>2, PTL DEF Spec

-----------------------------------------------------------------------------
(***************************************************************************)
(* What follows from it.                                                   *)
(***************************************************************************)
\* loading now is loading the picture that is in the file
LEMMA FreshIsLoaded ==
  ASSUME NEW f, NEW ask
  PROVE  Fresh(f, ask) = LoadedAs(disk[f], ask)
  BY DEF Fresh, LoadedAs

\* The caches keep to their bounds and hold no key twice, and of a file that did
\* not change since the unit was set every cached answer is what loading it now
\* would give. (LoadBytes, GetWithOptions, SetTextUnitPx)
THEOREM CachesAreNotSeen == Spec => []CachesHold
<1>1. IInv => CachesHold
  <2> SUFFICES ASSUME IInv PROVE CachesHold
    OBVIOUS
  <2>1. TypeOK
    BY DEF IInv, CachesTyped, RestTyped, TypeOK, Pictured
  <2>2. ASSUME NEW i \in DOMAIN cache, cache[i].key.file \notin touched
        PROVE  cache[i].result = Fresh(cache[i].key.file, cache[i].key.ask)
    BY <2>2, FreshIsLoaded, UntouchedAnswer DEF IInv, CachesTrue, EntryTrue
  <2>3. ASSUME NEW i \in DOMAIN decoded, decoded[i].file \notin touched
        PROVE  /\ disk[decoded[i].file] # Absent
               /\ decoded[i].img = Resized(disk[decoded[i].file], decoded[i].px)
    <3>1. PICK p \in Pictures : decoded[i].img = Resized(p,
        decoded[i].px) /\ p = disk[decoded[i].file]
      BY <2>3 DEF IInv, CachesTrue, DecodingTrue
    <3>2. p.w \in Nat \ {0}
      BY ImagesAssumption
    <3> QED
      BY <3>1, <3>2 DEF Absent
  <2> QED
    BY <2>1, <2>2, <2>3 DEF CachesHold, CachesAreTransparent
<1> QED
  BY <1>1, Invariance, PTL

\* What was measured is what is drawn, unless the file changed.
\* (MeasureImageSize, createImageBox)
THEOREM MeasuredIsShown == Spec => []ShownAsMeasured
<1>1. IInv => ShownAsMeasured
  <2> SUFFICES ASSUME IInv, NEW i \in DOMAIN boxes, NEW m \in measured,
                      m.file = boxes[i].file, m.ask = boxes[i].ask, m.file \notin touched
               PROVE  boxes[i].result.ts = m.ts
    BY DEF ShownAsMeasured
  <2>1. boxes[i].result = LoadedAs(disk[m.file], m.ask)
    BY UntouchedAnswer DEF IInv, BoxesTrue
  <2>2. m.ts = LoadedAs(disk[m.file], m.ask).ts
    BY DEF IInv, MeasuredTrue
  <2> QED
    BY <2>1, <2>2
<1> QED
  BY <1>1, Invariance, PTL

\* The cells of a published image hold all of its pixels with less than one to
\* spare, and the pixels come. (calcTextScaleSize, createImageBytes)
THEOREM PublishedIsWhole == Spec => []ImageIsWhole
<1>1. IInv => ImageIsWhole
  <2> SUFFICES ASSUME IInv, NEW i \in DOMAIN boxes
               PROVE  Whole(boxes[i].result)
    BY DEF ImageIsWhole, CellsCoverImage, PixelsCome, Whole, Covered
  <2>1. boxes[i].ask \in WideSizes
    <3>1. boxes[i] \in ImageBoxes
      BY ElementOfSeq, LenProperties DEF IInv, RestTyped
    <3> QED
      BY <3>1 DEF ImageBoxes
  <2>2. PICK p \in Pictured : boxes[i].result = LoadedAs(p, boxes[i].ask)
    BY DEF IInv, BoxesTrue, FromPicture
  <2> QED
    BY <2>1, <2>2, LoadedIsWhole DEF IInv
<1> QED
  BY <1>1, Invariance, PTL

==============================================================================
