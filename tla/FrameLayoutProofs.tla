-------------------------- MODULE FrameLayoutProofs --------------------------
(***************************************************************************)
(* Proofs about the text frame, first part: lists threaded through arrays  *)
(* of elements with a stack of free ones, and on them what the loops of    *)
(* the frame do to the lines and boxes of one paragraph: merge the lines   *)
(* into one, join boxes, and break the line again where it is too wide.    *)
(* Every loop is an instance of module Loop, so a lemma says what the      *)
(* whole loop leaves, for any text, width and number of elements.          *)
(***************************************************************************)
EXTENDS FrameView, SequenceTheorems, FiniteSetTheorems,
        WellFoundedInduction, TLAPS

(***************************************************************************)
(* Numbers, loops and sums.                                                *)
(***************************************************************************)

\* Every set of numbers has a least one.
LEMMA LeastOf ==
  ASSUME NEW T, T \subseteq Nat, T # {}
  PROVE  \E x \in T : \A y \in T : x <= y
<1>1. PICK x \in T : \A y \in T : <<y, x>> \notin OpToRel(<, Nat)
  BY NatLessThanWellFounded, WFMin, Zenon
<1>2. \A y \in T : ~(y < x)
  BY <1>1 DEF OpToRel
<1> QED
  BY <1>2

\* What holds of 0, and of every number after one it holds of, holds up to n.
LEMMA UpTo ==
  ASSUME NEW n \in Nat, NEW S, 0 \in S, \A k \in 0 .. n - 1 : k \in S => k + 1 \in S
  PROVE  \A k \in 0 .. n : k \in S
<1> DEFINE Missed == {k \in 0 .. n : k \notin S}
<1>1. SUFFICES ASSUME Missed # {} PROVE FALSE
  OBVIOUS
<1>2. PICK k \in Missed : \A j \in Missed : k <= j
  <2>1. Missed \subseteq Nat
    OBVIOUS
  <2> HIDE DEF Missed
  <2> QED
    BY <1>1, <2>1, LeastOf
<1>3. k \in 1 .. n /\ k \notin S
  BY <1>2
<1>4. k - 1 \in 0 .. n - 1 /\ ~(k <= k - 1)
  BY <1>3
<1>5. k - 1 \notin Missed
  <2> HIDE DEF Missed
  <2> QED
    BY <1>2, <1>4
<1>6. k - 1 \in S
  BY <1>4, <1>5
<1> QED
  BY <1>3, <1>4, <1>6

\* A sum of no values is 0, and each value is added once.
LEMMA TotalSteps ==
  ASSUME NEW c
  PROVE  Total(c, 0) = 0 /\ \A n \in Nat : Total(c, n + 1) = Total(c, n) + c[n + 1]
BY Adding!RunStarts, Adding!RunGoesOn DEF Total, AddNext

\* A sum of integers is an integer.
LEMMA TotalType ==
  ASSUME NEW n \in Nat, NEW c, \A k \in 1 .. n : c[k] \in Int
  PROVE  \A k \in 0 .. n : Total(c, k) \in Int
<1> DEFINE S == {k \in 0 .. n : Total(c, k) \in Int}
<1>1. 0 \in S
  BY TotalSteps
<1>2. ASSUME NEW k \in 0 .. n - 1, k \in S PROVE k + 1 \in S
  <2>1. k + 1 \in 1 .. n /\ k \in Nat
    OBVIOUS
  <2> QED
    BY <1>2, <2>1, TotalSteps
<1>3. \A k \in 0 .. n : k \in S
  <2> HIDE DEF S
  <2> QED
    BY <1>1, <1>2, UpTo
<1> QED
  BY <1>3

\* A sum tells apart only what it adds up, and grows with it.
LEMMA TotalAtMost ==
  ASSUME NEW n \in Nat, NEW c, NEW d, \A k \in 1 .. n : c[k] \in Int /\ d[k] \in Int /\ c[k] <= d[k]
  PROVE  \A k \in 0 .. n : Total(c, k) <= Total(d, k)
<1> DEFINE S == {k \in 0 .. n : Total(c, k) <= Total(d, k)}
<1>0. \A k \in 0 .. n : Total(c, k) \in Int /\ Total(d, k) \in Int
  BY TotalType
<1>1. 0 \in S
  BY TotalSteps
<1>2. ASSUME NEW k \in 0 .. n - 1, k \in S PROVE k + 1 \in S
  <2>1. k + 1 \in 1 .. n /\ k \in Nat /\ k \in 0 .. n
    OBVIOUS
  <2>2. Total(c, k + 1) = Total(c, k) + c[k + 1] /\ Total(d, k + 1) = Total(d, k) + d[k + 1]
    BY <2>1, TotalSteps
  <2> QED
    BY <1>0, <1>2, <2>1, <2>2
<1>3. \A k \in 0 .. n : k \in S
  <2> HIDE DEF S
  <2> QED
    BY <1>1, <1>2, UpTo
<1> QED
  BY <1>3

\* The same values have the same sum.
LEMMA TotalSame ==
  ASSUME NEW n \in Nat, NEW c, NEW d, \A k \in 1 .. n : c[k] \in Int /\ d[k] = c[k]
  PROVE  \A k \in 0 .. n : Total(d, k) = Total(c, k)
<1>1. \A k \in 0 .. n : Total(c, k) \in Int /\ Total(d, k) \in Int
  BY TotalType
<1>2. \A k \in 0 .. n : Total(c, k) <= Total(d, k)
  BY TotalAtMost
<1>3. \A k \in 0 .. n : Total(d, k) <= Total(c, k)
  BY TotalAtMost
<1> QED
  BY <1>1, <1>2, <1>3

\* A sum of zeros is 0.
LEMMA TotalOfZeros ==
  ASSUME NEW n \in Nat, NEW c, \A k \in 1 .. n : c[k] = 0
  PROVE  \A k \in 0 .. n : Total(c, k) = 0
<1> DEFINE S == {k \in 0 .. n : Total(c, k) = 0}
<1>1. 0 \in S
  BY TotalSteps
<1>2. ASSUME NEW k \in 0 .. n - 1, k \in S PROVE k + 1 \in S
  <2>1. k + 1 \in 1 .. n /\ k \in Nat
    OBVIOUS
  <2> QED
    BY <1>2, <2>1, TotalSteps
<1>3. \A k \in 0 .. n : k \in S
  <2> HIDE DEF S
  <2> QED
    BY <1>1, <1>2, UpTo
<1> QED
  BY <1>3

\* One value changed, and the sum changes by as much.
LEMMA TotalChanged ==
  ASSUME NEW n \in Nat, NEW c, NEW d, NEW i \in 1 .. n,
         \A k \in 1 .. n : c[k] \in Int /\ d[k] \in Int,
         \A k \in 1 .. n : k # i => d[k] = c[k]
  PROVE  Total(d, n) = Total(c, n) + d[i] - c[i]
<1> DEFINE Change(k) == IF i <= k THEN d[i] - c[i] ELSE 0
           S == {k \in 0 .. n : Total(d, k) = Total(c, k) + Change(k)}
<1>0. \A k \in 0 .. n : Total(c, k) \in Int /\ Total(d, k) \in Int
  BY TotalType
<1>1. 0 \in S
  BY TotalSteps
<1>2. ASSUME NEW k \in 0 .. n - 1, k \in S PROVE k + 1 \in S
  <2>1. k + 1 \in 1 .. n /\ k \in Nat /\ k \in 0 .. n
    OBVIOUS
  <2>2. Total(c, k + 1) = Total(c, k) + c[k + 1] /\ Total(d, k + 1) = Total(d, k) + d[k + 1]
    BY <2>1, TotalSteps
  <2>3. CASE i = k + 1
    BY <1>0, <1>2, <2>1, <2>2, <2>3
  <2>4. CASE i # k + 1
    <3>1. d[k + 1] = c[k + 1] /\ Change(k + 1) = Change(k)
      BY <2>1, <2>4
    <3> QED
      BY <1>0, <1>2, <2>1, <2>2, <3>1
  <2> QED
    BY <2>3, <2>4
<1>3. \A k \in 0 .. n : k \in S
  <2> HIDE DEF S
  <2> QED
    BY <1>1, <1>2, UpTo
<1>4. n \in S
  BY <1>3
<1> QED
  BY <1>4

(***************************************************************************)
(* Doubly linked lists over the indices X, one list for each of the owners *)
(* O: an element has an owner and a place in its list, its rank.           *)
(***************************************************************************)
Placed(X, O, own, rank) ==
  /\ own \in [X -> O]
  /\ rank \in [X -> Nat \ {0}]
  /\ \A x, y \in X : own[x] = own[y] /\ rank[x] = rank[y] => x = y

Begun(X, O, own, rank, first, prev) ==
  /\ \A o \in O : first[o] # 0 => first[o] \in X /\ own[first[o]] = o /\ prev[first[o]] = 0
  /\ \A x \in X : x # 0 /\ first[own[x]] # 0
  /\ \A x \in X : prev[x] = 0 => first[own[x]] = x /\ rank[x] = 1

Forward(X, own, rank, next, prev) ==
  \A x \in X : next[x] # 0 =>
    next[x] \in X /\ own[next[x]] = own[x] /\ rank[next[x]] = rank[x] + 1 /\ prev[next[x]] = x

Backward(X, next, prev) ==
  \A x \in X : prev[x] # 0 => prev[x] \in X /\ next[prev[x]] = x

Ended(X, own, rank, next) ==
  \A x, y \in X : own[x] = own[y] /\ next[x] = 0 => rank[y] <= rank[x]

Live(X, O, own, rank, first, next, prev) ==
  /\ Placed(X, O, own, rank)
  /\ Begun(X, O, own, rank, first, prev)
  /\ Forward(X, own, rank, next, prev)
  /\ Backward(X, next, prev)
  /\ Ended(X, own, rank, next)

Agree(S, g, h) == \A x \in S : h[x] = g[x]

\* Lists depend on nothing but their firsts, nexts and prevs.
LEMMA LiveSame ==
  ASSUME NEW X, NEW O, NEW own, NEW rank, NEW first, NEW next, NEW prev,
         NEW first2, NEW next2, NEW prev2, Live(X, O, own, rank, first, next, prev),
         Agree(O, first, first2), Agree(X, next, next2), Agree(X, prev, prev2)
  PROVE  Live(X, O, own, rank, first2, next2, prev2)
BY DEF Agree, Live, Placed, Begun, Forward, Backward, Ended

\* A new element y after b.
Inserts(X, O, own, rank, first, next, prev, b, y, first2, next2, prev2, X2, own2, rank2) ==
  /\ b \in X
  /\ y \notin X
  /\ y # 0
  /\ \A o \in O : first2[o] = first[o]
  /\ next2[b] = y
  /\ next2[y] = next[b]
  /\ \A x \in X : x # b => next2[x] = next[x]
  /\ prev2[y] = b
  /\ \A x \in X : prev2[x] = IF x = next[b] THEN y ELSE prev[x]
  /\ X2 = X \cup {y}
  /\ own2 \in [X2 -> O]
  /\ own2[y] = own[b]
  /\ \A x \in X : own2[x] = own[x]
  /\ rank2 \in [X2 -> Nat \ {0}]
  /\ rank2[y] = rank[b] + 1
  /\ \A x \in X : rank2[x] = IF own[x] = own[b] /\ rank[x] > rank[b] THEN rank[x] + 1 ELSE rank[x]

\* An element put after another one keeps the lists lists.
LEMMA LiveInsert ==
  ASSUME NEW X, NEW O, NEW own, NEW rank, NEW first, NEW next, NEW prev, NEW b, NEW y, NEW
         first2, NEW next2, NEW prev2, NEW X2, NEW own2, NEW rank2,
         Live(X, O, own, rank, first, next, prev),
         Inserts(X, O, own, rank, first, next, prev, b, y, first2, next2, prev2, X2, own2, rank2)
  PROVE  Live(X2, O, own2, rank2, first2, next2, prev2)
<1> USE DEF Inserts
<1>1. \A x \in X : own[x] \in O /\ rank[x] \in Nat \ {0}
  BY DEF Live, Placed
<1>3. Placed(X2, O, own2, rank2)
  BY <1>1 DEF Live, Placed
<1>4. Begun(X2, O, own2, rank2, first2, prev2)
  BY <1>1 DEF Live, Placed, Begun, Forward
<1>5. Forward(X2, own2, rank2, next2, prev2)
  BY <1>1 DEF Live, Placed, Begun, Forward
<1>6. Backward(X2, next2, prev2)
  BY <1>1 DEF Live, Placed, Begun, Forward, Backward
<1>7. Ended(X2, own2, rank2, next2)
  BY <1>1 DEF Live, Placed, Begun, Forward, Ended
<1> QED
  BY <1>3, <1>4, <1>5, <1>6, <1>7 DEF Live

\* Element b goes.
Removes(X, O, own, rank, first, next, prev, b, first2, next2, prev2, X2, own2, rank2) ==
  /\ b \in X
  /\ \A o \in O : first2[o] = IF first[o] = b THEN next[b] ELSE first[o]
  /\ \A x \in X : x # b => next2[x] = IF x = prev[b] THEN next[b] ELSE next[x]
  /\ \A x \in X : x # b => prev2[x] = IF x = next[b] THEN prev[b] ELSE prev[x]
  /\ X2 = X \ {b}
  /\ own2 \in [X2 -> O]
  /\ \A x \in X \ {b} : own2[x] = own[x]
  /\ rank2 \in [X2 -> Nat \ {0}]
  /\ \A x \in X \ {b} : rank2[x] = IF own[x] = own[b] /\ rank[x] > rank[b] THEN rank[x] - 1 ELSE rank[x]

\* An element taken out of its list keeps the lists lists.
LEMMA LiveRemove ==
  ASSUME NEW X, NEW O, NEW own, NEW rank, NEW first, NEW next, NEW prev, NEW b, NEW first2, NEW
         next2, NEW prev2, NEW X2, NEW own2, NEW rank2,
         Live(X, O, own, rank, first, next, prev),
         Removes(X, O, own, rank, first, next, prev, b, first2, next2, prev2, X2, own2, rank2)
  PROVE  Live(X2, O, own2, rank2, first2, next2, prev2)
<1> USE DEF Removes
<1>1. \A x \in X : own[x] \in O /\ rank[x] \in Nat \ {0}
  BY DEF Live, Placed
<1>3. Placed(X2, O, own2, rank2)
  BY <1>1 DEF Live, Placed
<1>4. Begun(X2, O, own2, rank2, first2, prev2)
  BY <1>1 DEF Live, Placed, Begun, Forward, Ended
<1>5. Forward(X2, own2, rank2, next2, prev2)
  BY <1>1 DEF Live, Placed, Begun, Forward, Backward, Ended
<1>6. Backward(X2, next2, prev2)
  BY <1>1 DEF Live, Placed, Begun, Forward, Backward
<1>7. Ended(X2, own2, rank2, next2)
  BY <1>1 DEF Live, Placed, Begun, Forward, Backward, Ended
<1> QED
  BY <1>3, <1>4, <1>5, <1>6, <1>7 DEF Live

\* A new owner o of a new element y.
Starts(X, O, own, rank, first, next, prev, o, y, first2, next2, prev2, X2, O2, own2, rank2) ==
  /\ o \notin O
  /\ y \notin X
  /\ y # 0
  /\ first2[o] = y
  /\ \A p \in O : first2[p] = first[p]
  /\ next2[y] = 0
  /\ \A x \in X : next2[x] = next[x]
  /\ prev2[y] = 0
  /\ \A x \in X : prev2[x] = prev[x]
  /\ X2 = X \cup {y}
  /\ O2 = O \cup {o}
  /\ own2 \in [X2 -> O2]
  /\ own2[y] = o
  /\ \A x \in X : own2[x] = own[x]
  /\ rank2 \in [X2 -> Nat \ {0}]
  /\ rank2[y] = 1
  /\ \A x \in X : rank2[x] = rank[x]

\* A list of one new element goes to a new owner.
LEMMA LiveOwner ==
  ASSUME NEW X, NEW O, NEW own, NEW rank, NEW first, NEW next, NEW prev, NEW o, NEW y, NEW
         first2, NEW next2, NEW prev2, NEW X2, NEW O2, NEW own2, NEW rank2,
         Live(X, O, own, rank, first, next, prev),
         Starts(X, O, own, rank, first, next, prev, o, y, first2, next2, prev2, X2, O2, own2, rank2)
  PROVE  Live(X2, O2, own2, rank2, first2, next2, prev2)
<1> USE DEF Starts
<1>1. \A x \in X : own[x] \in O /\ rank[x] \in Nat \ {0}
  BY DEF Live, Placed
<1>3. Placed(X2, O2, own2, rank2)
  BY <1>1 DEF Live, Placed
<1>4. Begun(X2, O2, own2, rank2, first2, prev2)
  BY <1>1 DEF Live, Placed, Begun, Forward
<1>5. Forward(X2, own2, rank2, next2, prev2)
  BY <1>1 DEF Live, Placed, Begun, Forward
<1>6. Backward(X2, next2, prev2)
  BY <1>1 DEF Live, Placed, Begun, Forward, Backward
<1>7. Ended(X2, own2, rank2, next2)
  BY <1>1 DEF Live, Placed, Begun, Forward, Ended
<1> QED
  BY <1>3, <1>4, <1>5, <1>6, <1>7 DEF Live

\* The list of owner s goes to the end b of another list.
Concats(X, O, own, rank, first, next, prev, b, s, first2, next2, prev2, O2, own2, rank2) ==
  /\ b \in X
  /\ next[b] = 0
  /\ s \in O
  /\ own[b] # s
  /\ first[s] # 0
  /\ \A o \in O : o # s => first2[o] = first[o]
  /\ \A x \in X : next2[x] = IF x = b THEN first[s] ELSE next[x]
  /\ \A x \in X : prev2[x] = IF x = first[s] THEN b ELSE prev[x]
  /\ O2 = O \ {s}
  /\ own2 \in [X -> O2]
  /\ \A x \in X : own2[x] = IF own[x] = s THEN own[b] ELSE own[x]
  /\ rank2 \in [X -> Nat \ {0}]
  /\ \A x \in X : rank2[x] = IF own[x] = s THEN rank[x] + rank[b] ELSE rank[x]

\* Two lists become one, the second after the first.
LEMMA LiveConcat ==
  ASSUME NEW X, NEW O, NEW own, NEW rank, NEW first, NEW next, NEW prev, NEW b, NEW s, NEW
         first2, NEW next2, NEW prev2, NEW O2, NEW own2, NEW rank2,
         Live(X, O, own, rank, first, next, prev),
         Concats(X, O, own, rank, first, next, prev, b, s, first2, next2, prev2, O2, own2, rank2)
  PROVE  Live(X, O2, own2, rank2, first2, next2, prev2)
<1> USE DEF Concats
<1>1. \A x \in X : own[x] \in O /\ rank[x] \in Nat \ {0}
  BY DEF Live, Placed
<1>3. Placed(X, O2, own2, rank2)
  BY <1>1 DEF Live, Placed, Ended
<1>4. Begun(X, O2, own2, rank2, first2, prev2)
  BY <1>1 DEF Live, Placed, Begun, Forward
<1>5. Forward(X, own2, rank2, next2, prev2)
  BY <1>1 DEF Live, Placed, Begun, Forward
<1>6. Backward(X, next2, prev2)
  BY <1>1 DEF Live, Placed, Begun, Forward, Backward
<1>7. Ended(X, own2, rank2, next2)
  BY <1>1 DEF Live, Placed, Begun, Forward, Ended
<1> QED
  BY <1>3, <1>4, <1>5, <1>6, <1>7 DEF Live

\* What follows b goes to a new owner o.
Cuts(X, O, own, rank, first, next, prev, b, o, first2, next2, prev2, O2, own2, rank2) ==
  /\ b \in X
  /\ next[b] # 0
  /\ o \notin O
  /\ first2[o] = next[b]
  /\ \A p \in O : first2[p] = first[p]
  /\ \A x \in X : next2[x] = IF x = b THEN 0 ELSE next[x]
  /\ \A x \in X : prev2[x] = IF x = next[b] THEN 0 ELSE prev[x]
  /\ O2 = O \cup {o}
  /\ own2 \in [X -> O2]
  /\ \A x \in X : own2[x] = IF own[x] = own[b] /\ rank[x] > rank[b] THEN o ELSE own[x]
  /\ rank2 \in [X -> Nat \ {0}]
  /\ \A x \in X : rank2[x] = IF own[x] = own[b] /\ rank[x] > rank[b] THEN rank[x] - rank[b] ELSE rank[x]

\* One list becomes two, what follows an element being the second.
LEMMA LiveCut ==
  ASSUME NEW X, NEW O, NEW own, NEW rank, NEW first, NEW next, NEW prev, NEW b, NEW o, NEW
         first2, NEW next2, NEW prev2, NEW O2, NEW own2, NEW rank2,
         Live(X, O, own, rank, first, next, prev),
         Cuts(X, O, own, rank, first, next, prev, b, o, first2, next2, prev2, O2, own2, rank2)
  PROVE  Live(X, O2, own2, rank2, first2, next2, prev2)
<1> USE DEF Cuts
<1>1. \A x \in X : own[x] \in O /\ own[x] # o /\ rank[x] \in Nat \ {0}
  BY DEF Live, Placed
<1>3. Placed(X, O2, own2, rank2)
  <2>1. ASSUME NEW x \in X, NEW y \in X, own2[x] = own2[y], rank2[x] = rank2[y] PROVE x = y
    <3>1. own[x] = own[y] /\ ((own[x] = own[b] /\ rank[x] > rank[b]) <=>
        (own[y] = own[b] /\ rank[y] > rank[b]))
      BY <1>1, <2>1
    <3>2. rank[x] = rank[y]
      BY <1>1, <2>1, <3>1 DEF Live, Placed
    <3> QED
      BY <3>1, <3>2 DEF Live, Placed
  <2> QED
    BY <2>1 DEF Placed
<1>4. Begun(X, O2, own2, rank2, first2, prev2)
  <2>1. next[b] \in X /\ own[next[b]] = own[b] /\ rank[next[b]] = rank[b] + 1 /\ prev[next[b]] = b
    BY DEF Live, Forward
  <2>2. own2[next[b]] = o /\ rank2[next[b]] = 1 /\ prev2[next[b]] = 0
    BY <1>1, <2>1
  <2>3. ASSUME NEW p \in O, first[p] # 0
        PROVE  first[p] \in X /\ own2[first[p]] = p /\ prev2[first[p]] = 0 /\ rank[first[p]] = 1
    <3>1. first[p] \in X /\ own[first[p]] = p /\ prev[first[p]] = 0 /\ rank[first[p]] = 1
      BY <2>3 DEF Live, Begun
    <3> QED
      BY <1>1, <3>1
  <2>4. ASSUME NEW x \in X, prev2[x] = 0 PROVE first2[own2[x]] = x /\ rank2[x] = 1
    <3>1. CASE x = next[b]
      BY <2>2, <3>1
    <3>2. CASE x # next[b]
      <4>1. prev[x] = 0
        BY <2>4, <3>2
      <4>2. first[own[x]] = x /\ rank[x] = 1
        BY <4>1 DEF Live, Begun
      <4> QED
        BY <1>1, <4>2
    <3> QED
      BY <3>1, <3>2
  <2>5. ASSUME NEW x \in X PROVE x # 0 /\ first2[own2[x]] # 0
    <3>1. x # 0 /\ first[own[x]] # 0
      BY DEF Live, Begun
    <3> QED
      BY <1>1, <3>1
  <2> QED
    BY <2>2, <2>3, <2>4, <2>5, <2>1 DEF Begun
<1>5. Forward(X, own2, rank2, next2, prev2)
  BY <1>1, SMTT(30) DEF Live, Placed, Begun, Forward
<1>6. Backward(X, next2, prev2)
  BY <1>1 DEF Live, Placed, Begun, Forward, Backward
<1>7. Ended(X, own2, rank2, next2)
  BY <1>1 DEF Live, Placed, Begun, Forward, Ended
<1> QED
  BY <1>3, <1>4, <1>5, <1>6, <1>7 DEF Live

\* The owners P and all that is theirs go.
Drops(X, O, own, rank, first, next, prev, P, Y, first2, next2, prev2, O2, own2, rank2) ==
  /\ Y = {x \in X : own[x] \notin P}
  /\ \A o \in O : o \notin P => first2[o] = first[o]
  /\ \A x \in Y : next2[x] = next[x]
  /\ \A x \in Y : prev2[x] = prev[x]
  /\ O2 = O \ P
  /\ own2 \in [Y -> O2]
  /\ \A x \in Y : own2[x] = own[x]
  /\ rank2 \in [Y -> Nat \ {0}]
  /\ \A x \in Y : rank2[x] = rank[x]

\* Owners go with all of their lists, and the other lists stay.
LEMMA LiveDrop ==
  ASSUME NEW X, NEW O, NEW own, NEW rank, NEW first, NEW next, NEW prev, NEW P, NEW Y, NEW
         first2, NEW next2, NEW prev2, NEW O2, NEW own2, NEW rank2,
         Live(X, O, own, rank, first, next, prev),
         Drops(X, O, own, rank, first, next, prev, P, Y, first2, next2, prev2, O2, own2, rank2)
  PROVE  Live(Y, O2, own2, rank2, first2, next2, prev2)
<1> USE DEF Drops
<1>1. \A x \in X : own[x] \in O /\ rank[x] \in Nat \ {0}
  BY DEF Live, Placed
<1>3. Placed(Y, O2, own2, rank2)
  BY <1>1 DEF Live, Placed
<1>4. Begun(Y, O2, own2, rank2, first2, prev2)
  BY <1>1 DEF Live, Placed, Begun, Forward
<1>5. Forward(Y, own2, rank2, next2, prev2)
  BY <1>1 DEF Live, Placed, Begun, Forward
<1>6. Backward(Y, next2, prev2)
  <2>1. \A x \in X : prev[x] # 0 => own[prev[x]] = own[x]
    BY DEF Live, Placed, Begun, Forward, Backward
  <2> QED
    BY <1>1, <2>1 DEF Live, Backward
<1>7. Ended(Y, own2, rank2, next2)
  BY <1>1 DEF Live, Placed, Begun, Forward, Ended
<1> QED
  BY <1>3, <1>4, <1>5, <1>6, <1>7 DEF Live

(***************************************************************************)
(* A stack of freed indices, threaded through next: each was freed at a    *)
(* time, and the last one freed is the first one used again.               *)
(***************************************************************************)
Free(Q, time, top, next) ==
  /\ time \in [Q -> Nat]
  /\ \A x \in Q : x # 0
  /\ \A x, y \in Q : time[x] = time[y] => x = y
  /\ \A x \in Q : next[x] = 0 \/ (next[x] \in Q /\ time[next[x]] < time[x])
  /\ IF top = 0 THEN Q = {} ELSE top \in Q /\ \A x \in Q : time[x] <= time[top]

\* A stack of freed elements depends on nothing but their nexts.
LEMMA FreeSame ==
  ASSUME NEW Q, NEW time, NEW top, NEW next, Free(Q, time, top, next),
         NEW next2, Agree(Q, next, next2)
  PROVE  Free(Q, time, top, next2)
BY DEF Free, Agree

\* Without its top, a stack is the stack from the next element on.
LEMMA FreePop ==
  ASSUME NEW Q, NEW time, NEW top, NEW next, NEW next2,
         Free(Q, time, top, next), top # 0, Agree(Q \ {top}, next, next2)
  PROVE  \E Z, time2 : Z \subseteq Q \ {top} /\ Free(Z, time2, next[top], next2)
<1> DEFINE Z == {x \in Q : next[top] # 0 /\ time[x] <= time[next[top]]}
<1>1. Z \subseteq Q \ {top}
  BY DEF Free
<1>2. Free(Z, [x \in Z |-> time[x]], next[top], next2)
  <2>1. [x \in Z |-> time[x]] \in [Z -> Nat]
    BY DEF Free
  <2>2. CASE next[top] = 0
    BY <2>1, <2>2 DEF Free
  <2>3. CASE next[top] # 0
    BY <2>1, <2>3 DEF Free, Agree
  <2> QED
    BY <2>2, <2>3
<1> QED
  BY <1>1, <1>2

\* An element is freed: it is put before the others, or alone if it has no next.
LEMMA FreePush ==
  ASSUME NEW Q, NEW time, NEW top, NEW next, Free(Q, time, top, next),
         NEW y, y \notin Q, y # 0,
         NEW next2, next2[y] = top, Agree(Q, next, next2)
  PROVE  \E time2 : Free(Q \cup {y}, time2, y, next2)
<1> DEFINE time2 == [x \in Q \cup {y} |-> IF x # y THEN time[x]
                                         ELSE IF top = 0 THEN 0 ELSE time[top] + 1]
<1>1. /\ time2 \in [Q \cup {y} -> Nat] /\ time2[y] = IF top = 0 THEN 0 ELSE time[top] + 1
      /\ \A x \in Q : time2[x] = time[x] /\ time[x] \in Nat
  BY DEF Free
<1> HIDE DEF time2
<1>2. Free(Q \cup {y}, time2, y, next2)
  BY <1>1 DEF Free, Agree
<1> QED
  BY <1>2

\* A freed element without a next is a stack of its own.
LEMMA FreeAlone ==
  ASSUME NEW y, y # 0, NEW next, next[y] = 0
  PROVE  Free({y}, [x \in {y} |-> 0], y, next)
BY DEF Free

(***************************************************************************)
(* Walks along a list.                                                     *)
(***************************************************************************)

\* A walk starts at the first element and goes to the next one.
LEMMA Steps ==
  \A next, first :
    /\ Walking!Run(next, first, 0) = first
    /\ \A k \in Nat : Walking!Run(next, first, k + 1) = next[Walking!Run(next, first, k)]
BY Walking!RunStarts, Walking!RunGoesOn DEF NextOf

\* The links lead from first through the n elements of s, and no further.
Leads(next, first, s, n, N) ==
  /\ N \in Nat /\ n \in 0 .. N /\ DOMAIN next = 0 .. N /\ s \in [1 .. n -> 1 .. N]
  /\ first = IF n = 0 THEN 0 ELSE s[1]
  /\ \A k \in 1 .. n - 1 : next[s[k]] = s[k + 1]
  /\ n # 0 => next[s[n]] = 0

\* A sequence that the links lead through is what a walk follows.
LEMMA FollowIs ==
  ASSUME NEW next, NEW first, NEW s, NEW n, NEW N, Leads(next, first, s, n, N)
  PROVE  Follow(next, first) = s
<1> SUFFICES ASSUME N \in Nat, n \in 0 .. N, DOMAIN next = 0 .. N, s \in [1 .. n -> 1 .. N],
                    first = IF n = 0 THEN 0 ELSE s[1],
                    \A k \in 1 .. n - 1 : next[s[k]] = s[k + 1],
                    n # 0 => next[s[n]] = 0
             PROVE  Follow(next, first) = s
  BY DEF Leads
<1> DEFINE at(k) == Walking!Run(next, first, k)
           Ends(m) == at(m) = 0 /\ \A k \in 0 .. m - 1 : at(k) # 0
           S == {k \in 0 .. n - 1 : at(k) = s[k + 1]}
<1>1. at(0) = first /\ \A k \in Nat : at(k + 1) = next[at(k)]
  BY Steps
<1> HIDE DEF at
<1>2. \A k \in 0 .. n - 1 : at(k) = s[k + 1]
  <2>1. CASE n = 0
    BY <2>1
  <2>2. CASE n # 0
    <3>1. PICK m \in Nat : m = n - 1
      BY <2>2
    <3>2. 0 \in S
      BY <1>1, <2>2
    <3>3. ASSUME NEW k \in 0 .. m - 1, k \in S PROVE k + 1 \in S
      <4>1. k + 1 \in 1 .. n - 1 /\ k + 1 \in 0 .. n - 1 /\ k \in Nat
        BY <3>1
      <4>2. at(k + 1) = next[s[k + 1]]
        BY <1>1, <3>3, <4>1
      <4>3. next[s[k + 1]] = s[(k + 1) + 1]
        BY <4>1
      <4> QED
        BY <4>1, <4>2, <4>3
    <3>4. \A k \in 0 .. m : k \in S
      <4> HIDE DEF S
      <4> QED
        BY <3>2, <3>3, UpTo
    <3> QED
      BY <3>1, <3>4
  <2> QED
    BY <2>1, <2>2
<1>3. at(n) = 0
  <2>1. CASE n = 0
    BY <1>1, <2>1
  <2>2. CASE n # 0
    <3>1. n - 1 \in Nat /\ (n - 1) + 1 = n /\ n - 1 \in 0 .. n - 1
      BY <2>2
    <3>2. at(n) = next[at(n - 1)]
      BY <1>1, <3>1
    <3> QED
      BY <1>2, <2>2, <3>1, <3>2
  <2> QED
    BY <2>1, <2>2
<1>4. \A k \in 0 .. n - 1 : at(k) # 0
  <2> TAKE k \in 0 .. n - 1
  <2>1. k + 1 \in 1 .. n
    OBVIOUS
  <2> QED
    BY <1>2, <2>1
<1>5. Ends(n) /\ \A m \in 0 .. N : Ends(m) => m = n
  BY <1>3, <1>4
<1>6. (CHOOSE m \in DOMAIN next : Ends(m)) = n
  <2> HIDE DEF Ends
  <2> QED
    BY <1>5
<1>7. Follow(next, first) = [k \in 1 .. n |-> at(k - 1)]
  BY <1>6, Zenon DEF Follow, at, Ends
<1>8. \A k \in 1 .. n : at(k - 1) = s[k]
  <2> TAKE k \in 1 .. n
  <2>1. k - 1 \in 0 .. n - 1 /\ (k - 1) + 1 = k
    OBVIOUS
  <2> QED
    BY <1>2, <2>1
<1> QED
  BY <1>7, <1>8

\* A walk that never comes twice to an element comes to 0.
LEMMA WalkEnds ==
  ASSUME NEW N \in Nat, NEW a, \A k \in 0 .. N : a[k] \in 0 .. N,
         \A j, k \in 0 .. N : j < k /\ (\A i \in 0 .. k : a[i] # 0) => a[j] # a[k]
  PROVE  \E m \in 0 .. N : a[m] = 0 /\ \A k \in 0 .. m - 1 : a[k] # 0
<1> DEFINE Zeros == {m \in 0 .. N : a[m] = 0}
<1>1. Zeros # {}
  <2> SUFFICES ASSUME Zeros = {} PROVE FALSE
    OBVIOUS
  <2>1. \A k \in 0 .. N : a[k] # 0
    OBVIOUS
  <2> DEFINE h == [k \in 0 .. N |-> a[k]]
  <2>2. h \in [0 .. N -> 1 .. N]
    BY <2>1
  <2>3. IsFiniteSet(0 .. N) /\ Cardinality(0 .. N) = N + 1
    BY FS_Interval
  <2>4. IsFiniteSet(1 .. N) /\ Cardinality(1 .. N) = N
    BY FS_Interval
  <2>5. \E x, y \in 0 .. N : x # y /\ h[x] = h[y]
    <3>1. Cardinality(1 .. N) < Cardinality(0 .. N)
      BY <2>3, <2>4
    <3>2. PICK S, T : S = 0 .. N /\ T = 1 .. N
      OBVIOUS
    <3> HIDE DEF h
    <3>3. h \in [S -> T] /\ IsFiniteSet(S) /\ IsFiniteSet(T) /\ Cardinality(T) < Cardinality(S)
      BY <2>2, <2>3, <2>4, <3>1, <3>2
    <3>4. \E x, y \in S : x # y /\ h[x] = h[y]
      BY <3>3, FS_PigeonHole
    <3> QED
      BY <3>2, <3>4
  <2>6. PICK x \in 0 .. N, y \in 0 .. N : x # y /\ a[x] = a[y]
    BY <2>5
  <2>7. \A k \in 0 .. N : \A i \in 0 .. k : a[i] # 0
    BY <2>1
  <2>8. x < y \/ y < x
    BY <2>6
  <2> QED
    BY <2>6, <2>7, <2>8
<1>2. PICK m \in Zeros : \A k \in Zeros : m <= k
  <2>1. Zeros \subseteq Nat
    OBVIOUS
  <2> HIDE DEF Zeros
  <2> QED
    BY <1>1, <2>1, LeastOf
<1>3. m \in 0 .. N /\ a[m] = 0 /\ \A k \in 0 .. m - 1 : a[k] # 0
  BY <1>2
<1> QED
  BY <1>3

\* The walk from the first element of owner o gives its elements by rank.
WalkOf(s, n, X, o, own, rank, first, next) ==
  /\ s = Follow(next, first[o])
  /\ s \in [1 .. n -> X]
  /\ n = 0 <=> first[o] = 0
  /\ \A k \in 1 .. n : own[s[k]] = o /\ rank[s[k]] = k
  /\ \A k \in 1 .. n - 1 : next[s[k]] = s[k + 1]
  /\ n # 0 => s[1] = first[o] /\ next[s[n]] = 0
  /\ \A x \in X : own[x] = o => rank[x] \in 1 .. n /\ s[rank[x]] = x

\* Following the links from the first element gives the elements in order.
LEMMA LiveWalk ==
  ASSUME NEW N \in Nat, NEW X, X \subseteq 1 .. N, NEW O, NEW own, NEW rank, NEW first, NEW next,
         NEW prev,
         Live(X, O, own, rank, first, next, prev), DOMAIN next = 0 .. N, next[0] = 0,
         NEW o \in O
  PROVE  \E n \in 0 .. N : WalkOf(Follow(next, first[o]), n, X, o, own, rank, first, next)
<1> DEFINE a == [k \in 0 .. N |-> Walking!Run(next, first[o], k)]
           S == {k \in 0 .. N : a[k] = 0 \/ (a[k] \in X /\ own[a[k]] = o /\ rank[a[k]] = k + 1)}
<1>1. a[0] = first[o] /\ \A k \in 0 .. N - 1 : a[k + 1] = next[a[k]]
  <2>1. a[0] = first[o]
    BY Steps
  <2>2. ASSUME NEW k \in 0 .. N - 1 PROVE a[k + 1] = next[a[k]]
    <3>1. k \in Nat /\ k \in 0 .. N /\ k + 1 \in 0 .. N
      OBVIOUS
    <3>2. Walking!Run(next, first[o], k + 1) = next[Walking!Run(next, first[o], k)]
      BY Steps, <3>1
    <3> QED
      BY <3>1, <3>2
  <2> QED
    BY <2>1, <2>2
<1> HIDE DEF a
<1>2. \A k \in 0 .. N : k \in S
  <2>1. 0 \in S
    <3>1. first[o] # 0 => rank[first[o]] = 1
      BY DEF Live, Begun
    <3> QED
      BY <1>1, <3>1 DEF Live, Begun
  <2>2. ASSUME NEW k \in 0 .. N - 1, k \in S PROVE k + 1 \in S
    <3>1. a[k + 1] = next[a[k]]
      BY <1>1
    <3>2. k + 1 \in 0 .. N
      OBVIOUS
    <3>3. CASE a[k] = 0
      BY <3>1, <3>2, <3>3
    <3>4. CASE a[k] # 0
      <4>1. a[k] \in X /\ own[a[k]] = o /\ rank[a[k]] = k + 1
        BY <2>2, <3>4
      <4>2. next[a[k]] # 0 =>
          next[a[k]] \in X /\ own[next[a[k]]] = o /\ rank[next[a[k]]] = k + 1 + 1
        BY <4>1 DEF Live, Forward
      <4> QED
        BY <3>1, <3>2, <4>2
    <3> QED
      BY <3>3, <3>4
  <2> HIDE DEF S
  <2> QED
    BY <2>1, <2>2, UpTo
<1>3. \A k \in 0 .. N : a[k] = 0 \/ (a[k] \in X /\ own[a[k]] = o /\ rank[a[k]] = k + 1)
  BY <1>2
<1>4. \E m \in 0 .. N : a[m] = 0 /\ \A k \in 0 .. m - 1 : a[k] # 0
  <2>1. \A k \in 0 .. N : a[k] \in 0 .. N
    <3> TAKE k \in 0 .. N
    <3>1. a[k] = 0 \/ a[k] \in 1 .. N
      BY <1>3
    <3> QED
      BY <3>1
  <2>2. \A j, k \in 0 .. N : j < k /\ (\A i \in 0 .. k : a[i] # 0) => a[j] # a[k]
    <3> SUFFICES ASSUME NEW j \in 0 .. N, NEW k \in 0 .. N, j < k, \A i \in 0 .. k : a[i] # 0,
        a[j] = a[k]
                 PROVE  FALSE
      OBVIOUS
    <3>1. a[j] # 0 /\ a[k] # 0
      OBVIOUS
    <3>2. rank[a[j]] = j + 1 /\ rank[a[k]] = k + 1
      BY <1>3, <3>1
    <3> QED
      BY <3>2
  <2> QED
    BY <2>1, <2>2, WalkEnds
<1>5. PICK m \in 0 .. N : a[m] = 0 /\ \A k \in 0 .. m - 1 : a[k] # 0
  BY <1>4
<1> DEFINE s == [k \in 1 .. m |-> a[k - 1]]
<1>6. \A k \in 1 .. m : s[k] \in X /\ own[s[k]] = o /\ rank[s[k]] = k /\ s[k] # 0
  <2> TAKE k \in 1 .. m
  <2>1. k - 1 \in 0 .. m - 1 /\ k - 1 \in 0 .. N
    OBVIOUS
  <2> QED
    BY <1>3, <1>5, <2>1
<1>7. \A k \in 1 .. m - 1 : next[s[k]] = s[k + 1]
  <2> TAKE k \in 1 .. m - 1
  <2>1. k - 1 \in 0 .. N - 1 /\ (k - 1) + 1 = k /\ k + 1 \in 1 .. m /\ (k + 1) - 1 = k
    OBVIOUS
  <2> QED
    BY <1>1, <2>1
<1>8. m # 0 => s[1] = first[o] /\ next[s[m]] = 0
  <2> HAVE m # 0
  <2>1. m - 1 \in 0 .. N - 1 /\ (m - 1) + 1 = m /\ 1 - 1 = 0 /\ 1 \in 1 .. m /\ m \in 1 .. m
    OBVIOUS
  <2> QED
    BY <1>1, <1>5, <2>1
<1>9. m = 0 <=> first[o] = 0
  BY <1>1, <1>5
<1>10. s = Follow(next, first[o])
  <2>1. PICK f1 : f1 = first[o]
    OBVIOUS
  <2>3. (f1 = IF m = 0 THEN 0 ELSE s[1]) /\ (m # 0 => next[s[m]] = 0)
    BY <1>8, <1>9, <2>1
  <2>2. s \in [1 .. m -> 1 .. N]
    BY <1>6
  <2> HIDE DEF s
  <2>4. s = Follow(next, f1)
    <3>1. f1 = (IF m = 0 THEN 0 ELSE s[1])
      BY <2>3
    <3>2. m # 0 => next[s[m]] = 0
      BY <2>3
    <3>3. N \in Nat /\ m \in 0 .. N /\ DOMAIN next = 0 .. N
      OBVIOUS
    <3>4. Leads(next, f1, s, m, N)
      BY ONLY <1>7, <2>2, <3>1, <3>2, <3>3 DEF Leads
    <3> QED
      BY <3>4, FollowIs
  <2> QED
    BY <2>1, <2>4
<1>11. \A x \in X : own[x] = o => rank[x] \in 1 .. m /\ s[rank[x]] = x
  <2> SUFFICES ASSUME NEW x \in X, own[x] = o PROVE rank[x] \in 1 .. m /\ s[rank[x]] = x
    OBVIOUS
  <2>1. m # 0
    BY <1>9 DEF Live, Begun
  <2>2. next[s[m]] = 0 /\ m \in 1 .. m
    BY <1>8, <2>1
  <2>3. rank[x] <= m
    <3> HIDE DEF s
    <3> QED
      BY <1>6, <2>2 DEF Live, Ended
  <2>4. rank[x] \in 1 .. m
    BY <2>3 DEF Live, Placed
  <2>5. s[rank[x]] = x
    <3> HIDE DEF s
    <3> QED
      BY <1>6, <2>4 DEF Live, Placed
  <2> QED
    BY <2>4, <2>5
<1>12. s \in [1 .. m -> X]
  BY <1>6
<1> HIDE DEF s
<1>13. WalkOf(s, m, X, o, own, rank, first, next)
  BY <1>6, <1>7, <1>8, <1>9, <1>10, <1>11, <1>12 DEF WalkOf
<1> QED
  BY <1>10, <1>13

\* Only free elements are met from the top of a stack.
LEMMA FreeWalk ==
  ASSUME NEW N \in Nat, NEW Q, Q \subseteq 1 .. N, NEW time, NEW top, NEW next,
         Free(Q, time, top, next), DOMAIN next = 0 .. N, next[0] = 0
  PROVE  \A k \in DOMAIN Follow(next, top) : Follow(next, top)[k] \in Q
<1> DEFINE a == [k \in 0 .. N |-> Walking!Run(next, top, k)]
<1>1. a[0] = top /\ \A k \in 0 .. N - 1 : a[k + 1] = next[a[k]]
  <2>1. a[0] = top
    BY Steps
  <2>2. ASSUME NEW k \in 0 .. N - 1 PROVE a[k + 1] = next[a[k]]
    <3>1. k \in Nat /\ k \in 0 .. N /\ k + 1 \in 0 .. N
      OBVIOUS
    <3>2. Walking!Run(next, top, k + 1) = next[Walking!Run(next, top, k)]
      BY Steps, <3>1
    <3> QED
      BY <3>1, <3>2
  <2> QED
    BY <2>1, <2>2
<1> HIDE DEF a
<1> DEFINE S == {k \in 0 .. N : a[k] = 0 \/ (a[k] \in Q /\ \A i \in 0 .. k - 1 : a[i] \in Q /\ time[a[k]] < time[a[i]])}
<1>2. \A k \in 0 .. N : k \in S
  <2>1. 0 \in S
    BY <1>1 DEF Free
  <2>2. ASSUME NEW k \in 0 .. N - 1, k \in S PROVE k + 1 \in S
    <3>1. a[k + 1] = next[a[k]]
      BY <1>1
    <3>2. k + 1 \in 0 .. N
      OBVIOUS
    <3>3. CASE a[k] = 0
      BY <3>1, <3>2, <3>3
    <3>4. CASE a[k] # 0
      <4>1. a[k] \in Q /\ \A i \in 0 .. k - 1 : a[i] \in Q /\ time[a[k]] < time[a[i]]
        BY <2>2, <3>4
      <4>2. next[a[k]] = 0 \/ (next[a[k]] \in Q /\ time[next[a[k]]] < time[a[k]])
        BY <4>1 DEF Free
      <4>3. ASSUME next[a[k]] # 0, NEW i \in 0 .. (k + 1) - 1
            PROVE  a[i] \in Q /\ time[next[a[k]]] < time[a[i]]
        <5>1. i = k \/ i \in 0 .. k - 1
          OBVIOUS
        <5>2. a[i] \in Q /\ (i = k \/ time[a[k]] < time[a[i]])
          BY <4>1, <5>1
        <5>3. time[a[k]] \in Nat /\ time[a[i]] \in Nat /\ time[next[a[k]]] \in Nat
          BY <4>1, <4>2, <4>3, <5>2 DEF Free
        <5> QED
          BY <4>2, <4>3, <5>2, <5>3
      <4> QED
        BY <3>1, <3>2, <4>2, <4>3
    <3> QED
      BY <3>3, <3>4
  <2> HIDE DEF S
  <2> QED
    BY <2>1, <2>2, UpTo
<1>3. \A k \in 0 .. N : a[k] = 0 \/ (a[k] \in Q /\ \A i \in 0 .. k - 1 : a[i] \in Q /\ time[a[k]] < time[a[i]])
  BY <1>2
<1>4. \E m \in 0 .. N : a[m] = 0 /\ \A k \in 0 .. m - 1 : a[k] # 0
  <2>1. \A k \in 0 .. N : a[k] \in 0 .. N
    <3> TAKE k \in 0 .. N
    <3>1. a[k] = 0 \/ a[k] \in 1 .. N
      BY <1>3
    <3> QED
      BY <3>1
  <2>2. \A j, k \in 0 .. N : j < k /\ (\A i \in 0 .. k : a[i] # 0) => a[j] # a[k]
    <3> SUFFICES ASSUME NEW j \in 0 .. N, NEW k \in 0 .. N, j < k, \A i \in 0 .. k : a[i] # 0,
        a[j] = a[k]
                 PROVE  FALSE
      OBVIOUS
    <3>1. a[k] # 0 /\ j \in 0 .. k - 1
      OBVIOUS
    <3>2. a[k] \in Q /\ time[a[k]] < time[a[j]]
      BY <1>3, <3>1
    <3>3. time[a[k]] \in Nat
      BY <3>2 DEF Free
    <3> QED
      BY <3>2, <3>3
  <2> QED
    BY <2>1, <2>2, WalkEnds
<1>5. PICK m \in 0 .. N : a[m] = 0 /\ \A k \in 0 .. m - 1 : a[k] # 0
  BY <1>4
<1> DEFINE s == [k \in 1 .. m |-> a[k - 1]]
<1>6. \A k \in 1 .. m : s[k] \in Q /\ s[k] # 0
  <2> TAKE k \in 1 .. m
  <2>1. k - 1 \in 0 .. m - 1 /\ k - 1 \in 0 .. N
    OBVIOUS
  <2> QED
    BY <1>3, <1>5, <2>1
<1>7. \A k \in 1 .. m - 1 : next[s[k]] = s[k + 1]
  <2> TAKE k \in 1 .. m - 1
  <2>1. k - 1 \in 0 .. N - 1 /\ (k - 1) + 1 = k /\ k + 1 \in 1 .. m /\ (k + 1) - 1 = k
    OBVIOUS
  <2> QED
    BY <1>1, <2>1
<1>8. m # 0 => s[1] = top /\ next[s[m]] = 0
  <2> HAVE m # 0
  <2>1. m - 1 \in 0 .. N - 1 /\ (m - 1) + 1 = m /\ 1 - 1 = 0 /\ 1 \in 1 .. m /\ m \in 1 .. m
    OBVIOUS
  <2> QED
    BY <1>1, <1>5, <2>1
<1>9. top = IF m = 0 THEN 0 ELSE s[1]
  BY <1>1, <1>5, <1>8
<1>10. s = Follow(next, top)
  <2>2. s \in [1 .. m -> 1 .. N]
    BY <1>6
  <2> HIDE DEF s
  <2>3. N \in Nat /\ m \in 0 .. N /\ DOMAIN next = 0 .. N /\ (m # 0 => next[s[m]] = 0)
    BY <1>8
  <2>4. Leads(next, top, s, m, N)
    BY ONLY <1>7, <1>9, <2>2, <2>3 DEF Leads
  <2> QED
    BY <2>4, FollowIs
<1> QED
  BY <1>6, <1>10

(***************************************************************************)
(* An array: the elements in use form lists, freed ones are in a stack and *)
(* have -1 as their previous one, and some may be neither.                 *)
(***************************************************************************)
Stack(top, next, prev, n) ==
  \E Q, time : Free(Q, time, top, next) /\ Q \subseteq 1 .. n /\ \A x \in Q : prev[x] = -1

SlotAt(top, n) == IF top # 0 THEN top ELSE n + 1

\* The top of the free list is free and has a free next, or none.
LEMMA StackTop ==
  ASSUME NEW top, NEW next, NEW prev, NEW n \in Nat, Stack(top, next, prev, n)
  PROVE  top \in 0 .. n /\ (top # 0 => prev[top] = -1 /\ next[top] \in 0 .. n)
<1>1. PICK Q, time : Free(Q, time, top, next) /\ Q \subseteq 1 .. n /\ \A x \in Q : prev[x] = -1
  BY DEF Stack
<1>2. CASE top = 0
  BY <1>2
<1>3. CASE top # 0
  <2>1. top \in Q /\ (next[top] = 0 \/ next[top] \in Q)
    BY <1>1, <1>3 DEF Free
  <2>2. top \in 1 .. n /\ prev[top] = -1 /\ (next[top] = 0 \/ next[top] \in 1 .. n)
    BY <1>1, <2>1
  <2> QED
    BY <2>2
<1> QED
  BY <1>2, <1>3

\* Nothing that is free changes, and the array does not shrink.
Keeps(top, next, prev, n, next2, prev2, m) ==
  /\ n \in Nat /\ m \in Nat /\ n <= m
  /\ \A x \in 1 .. n : prev[x] = -1 => next2[x] = next[x] /\ prev2[x] = -1

\* The free list stays when no free element changes.
LEMMA StackSame ==
  ASSUME NEW top, NEW next, NEW prev, NEW n, NEW next2, NEW prev2, NEW m,
         Stack(top, next, prev, n), Keeps(top, next, prev, n, next2, prev2, m)
  PROVE  Stack(top, next2, prev2, m)
<1>1. PICK Q, time : Free(Q, time, top, next) /\ Q \subseteq 1 .. n /\ \A x \in Q : prev[x] = -1
  BY DEF Stack
<1>2. Agree(Q, next, next2)
  BY <1>1 DEF Keeps, Agree
<1>3. Free(Q, time, top, next2)
  BY <1>1, <1>2, FreeSame
<1>4. Q \subseteq 1 .. m /\ \A x \in Q : prev2[x] = -1
  BY <1>1 DEF Keeps
<1> QED
  BY <1>3, <1>4 DEF Stack

\* The top is taken, if there is one.
Pops(top, next, prev, n, top2, next2, prev2, m) ==
  /\ n \in Nat /\ m \in Nat /\ n <= m
  /\ top2 = IF top = 0 THEN 0 ELSE next[top]
  /\ \A x \in 1 .. n : prev[x] = -1 /\ x # top => next2[x] = next[x] /\ prev2[x] = -1

\* The top of the free list is used again, and the rest stays free.
LEMMA StackPop ==
  ASSUME NEW top, NEW next, NEW prev, NEW n, NEW top2, NEW next2, NEW prev2, NEW m,
         Stack(top, next, prev, n), Pops(top, next, prev, n, top2, next2, prev2, m)
  PROVE  Stack(top2, next2, prev2, m)
<1>1. PICK Q, time : Free(Q, time, top, next) /\ Q \subseteq 1 .. n /\ \A x \in Q : prev[x] = -1
  BY DEF Stack
<1>2. CASE top = 0
  <2>1. Q = {} /\ top2 = 0 /\ Agree(Q, next, next2)
    BY <1>1, <1>2 DEF Free, Pops, Agree
  <2>2. Free(Q, time, 0, next2)
    BY <1>1, <1>2, <2>1, FreeSame
  <2> QED
    BY <1>2, <2>1, <2>2 DEF Stack
<1>3. CASE top # 0
  <2>1. Agree(Q \ {top}, next, next2)
    BY <1>1 DEF Pops, Agree
  <2>2. \E Z, time2 : Z \subseteq Q \ {top} /\ Free(Z, time2, next[top], next2)
    BY <1>1, <1>3, <2>1, FreePop
  <2>3. PICK Z, time2 : Z \subseteq Q \ {top} /\ Free(Z, time2, next[top], next2)
    BY <2>2
  <2>4. Z \subseteq 1 .. m /\ (\A x \in Z : prev2[x] = -1) /\ top2 = next[top]
    BY <1>1, <1>3, <2>3 DEF Pops
  <2> QED
    BY <2>3, <2>4 DEF Stack
<1> QED
  BY <1>2, <1>3

\* Element y is freed.
Pushes(top, next, prev, n, y, next2, prev2) ==
  /\ y \in 1 .. n /\ prev[y] # -1
  /\ next2[y] = top \/ next2[y] = 0
  /\ prev2[y] = -1
  /\ \A x \in 1 .. n : prev[x] = -1 => next2[x] = next[x] /\ prev2[x] = -1

\* A freed element is put before the ones freed earlier.
LEMMA StackPush ==
  ASSUME NEW top, NEW next, NEW prev, NEW n, NEW y, NEW next2, NEW prev2, n \in Nat,
         Stack(top, next, prev, n), Pushes(top, next, prev, n, y, next2, prev2)
  PROVE  Stack(y, next2, prev2, n)
<1>1. PICK Q, time : Free(Q, time, top, next) /\ Q \subseteq 1 .. n /\ \A x \in Q : prev[x] = -1
  BY DEF Stack
<1>2. CASE next2[y] = top
  <2>1. y \notin Q /\ y # 0 /\ Agree(Q, next, next2)
    BY <1>1 DEF Pushes, Agree
  <2>2. \E t2 : Free(Q \cup {y}, t2, y, next2)
    <3>1. Free(Q, time, top, next) /\ next2[y] = top
      BY <1>1, <1>2
    <3> QED
      BY <2>1, <3>1, FreePush
  <2>3. Q \cup {y} \subseteq 1 .. n /\ \A x \in Q \cup {y} : prev2[x] = -1
    BY <1>1 DEF Pushes
  <2> QED
    BY <2>2, <2>3 DEF Stack
<1>3. CASE next2[y] = 0
  <2>1. Free({y}, [x \in {y} |-> 0], y, next2)
    <3>1. y # 0
      BY DEF Pushes
    <3> QED
      BY <1>3, <3>1, FreeAlone
  <2>2. {y} \subseteq 1 .. n /\ \A x \in {y} : prev2[x] = -1
    BY DEF Pushes
  <2> QED
    BY <2>1, <2>2 DEF Stack
<1> QED
  BY <1>2, <1>3 DEF Pushes

Layer(X, O, own, rank, first, next, prev, top, n) ==
  /\ X \subseteq 1 .. n /\ n \in Nat
  /\ Live(X, O, own, rank, first, next, prev)
  /\ \A o \in O : first[o] # 0
  /\ Stack(top, next, prev, n)

\* Elements in use are not free.
LEMMA LayerPrev ==
  ASSUME NEW n, NEW X, NEW O, NEW own, NEW rank, NEW first, NEW next, NEW prev, NEW top,
         Layer(X, O, own, rank, first, next, prev, top, n)
  PROVE  /\ n \in Nat
         /\ \A x \in X : prev[x] # -1 /\ prev[x] \in 0 .. n /\ next[x] \in 0 .. n
         /\ top \in 0 .. n /\ SlotAt(top, n) \in 1 .. n + 1 /\ SlotAt(top, n) \notin X
         /\ SlotAt(top, n) \in 1 .. n => SlotAt(top, n) = top /\ prev[top] = -1
         /\ SlotAt(top, n) \notin 1 .. n => top = 0
         /\ top # 0 => next[top] \in 0 .. n
<1>1. \A x \in X : prev[x] = 0 \/ prev[x] \in X
  BY DEF Layer, Live, Begun, Backward
<1>2. \A x \in X : next[x] = 0 \/ next[x] \in X
  BY DEF Layer, Live, Forward
<1>3. X \subseteq 1 .. n /\ n \in Nat
  BY DEF Layer
<1>4. \A x \in X : prev[x] # -1 /\ prev[x] \in 0 .. n /\ next[x] \in 0 .. n
  <2> TAKE x \in X
  <2>1. prev[x] = 0 \/ prev[x] \in 1 .. n
    BY <1>1, <1>3
  <2>2. next[x] = 0 \/ next[x] \in 1 .. n
    BY <1>2, <1>3
  <2> QED
    BY <1>3, <2>1, <2>2
<1>5. top \in 0 .. n /\ (top # 0 => prev[top] = -1 /\ next[top] \in 0 .. n)
  BY <1>3, StackTop DEF Layer
<1>6. n + 1 \notin X
  BY <1>3
<1> QED
  BY <1>3, <1>4, <1>5, <1>6 DEF SlotAt

\* An array stays well formed when no link in use changes.
LEMMA LayerSame ==
  ASSUME NEW n, NEW X, NEW O, NEW own, NEW rank, NEW first, NEW next, NEW prev, NEW top,
         Layer(X, O, own, rank, first, next, prev, top, n),
         NEW first2, \A o \in O : first2[o] = first[o],
         NEW next2, \A x \in 1 .. n : next2[x] = next[x],
         NEW prev2, \A x \in 1 .. n : prev2[x] = prev[x]
  PROVE  Layer(X, O, own, rank, first2, next2, prev2, top, n)
<1>1. X \subseteq 1 .. n /\ Live(X, O, own, rank, first, next, prev) /\ Stack(top, next, prev, n)
      /\ n \in Nat /\ \A o \in O : first[o] # 0
  BY DEF Layer
<1>2. Agree(O, first, first2) /\ Agree(X, next, next2) /\ Agree(X, prev, prev2)
  BY <1>1 DEF Agree
<1>3. Live(X, O, own, rank, first2, next2, prev2)
  BY <1>1, <1>2, LiveSame
<1>4. Keeps(top, next, prev, n, next2, prev2, n)
  BY <1>1 DEF Keeps
<1>5. Stack(top, next2, prev2, n)
  BY <1>1, <1>4, StackSame
<1> QED
  BY <1>1, <1>3, <1>5 DEF Layer

\* A new element y is taken and put after b.
LayerInserts(n, X, O, own, rank, first, next, prev, top, b, y, m, top2, first2, next2, prev2, X2,
    own2, rank2) ==
  /\ b \in X /\ y = SlotAt(top, n) /\ m \in Nat /\ n <= m /\ y <= m
  /\ top2 = IF top = 0 THEN 0 ELSE next[top]
  /\ \A o \in O : first2[o] = first[o]
  /\ next2[b] = y /\ next2[y] = next[b]
  /\ \A x \in 1 .. n : x # b /\ x # y => next2[x] = next[x]
  /\ prev2[y] = b /\ (next[b] # 0 => prev2[next[b]] = y)
  /\ \A x \in 1 .. n : x # y /\ x # next[b] => prev2[x] = prev[x]
  /\ X2 = X \cup {y}
  /\ own2 \in [X2 -> O] /\ own2[y] = own[b] /\ \A x \in X : own2[x] = own[x]
  /\ rank2 \in [X2 -> Nat \ {0}] /\ rank2[y] = rank[b] + 1
  /\ \A x \in X : rank2[x] = IF own[x] = own[b] /\ rank[x] > rank[b] THEN rank[x] + 1 ELSE rank[x]

\* An element, taken from the free list or new, is put after another one.
LEMMA LayerInsert ==
  ASSUME NEW n, NEW X, NEW O, NEW own, NEW rank, NEW first, NEW next, NEW prev, NEW top,
         NEW b, NEW y, NEW m, NEW top2, NEW first2, NEW next2, NEW prev2, NEW X2, NEW own2,
         NEW rank2,
         Layer(X, O, own, rank, first, next, prev, top, n),
         LayerInserts(n, X, O, own, rank, first, next, prev, top, b, y, m, top2, first2, next2,
             prev2, X2, own2, rank2)
  PROVE  Layer(X2, O, own2, rank2, first2, next2, prev2, top2, m)
<1>1. X \subseteq 1 .. n /\ Live(X, O, own, rank, first, next, prev) /\ Stack(top, next, prev, n)
      /\ n \in Nat /\ \A o \in O : first[o] # 0
  BY DEF Layer
<1> USE DEF LayerInserts
<1>2. y \notin X /\ y \in 1 .. n + 1 /\ y # 0 /\ (y \in 1 .. n => y = top) /\ (y \notin 1 .. n =>
    top = 0)
  <2> HIDE DEF LayerInserts
  <2>1. y = SlotAt(top, n)
    BY DEF LayerInserts
  <2> QED
    BY <1>1, <2>1, LayerPrev
<1>3. \A x \in X : prev[x] # -1
  <2> HIDE DEF LayerInserts
  <2> QED
    BY LayerPrev
<1>4. next[b] = 0 \/ next[b] \in X
  BY <1>1 DEF Live, Forward
<1>9. (\A x \in X : x # b => next2[x] = next[x])
      /\ \A x \in X : prev2[x] = IF x = next[b] THEN y ELSE prev[x]
  BY <1>1, <1>2, <1>4
<1>5. Live(X2, O, own2, rank2, first2, next2, prev2)
  <2>1. Inserts(X, O, own, rank, first, next, prev, b, y, first2, next2, prev2, X2, own2, rank2)
    BY <1>2, <1>9 DEF Inserts
  <2> QED
    BY <1>1, <2>1, LiveInsert
<1>6. Stack(top2, next2, prev2, m)
  <2>1. Pops(top, next, prev, n, top2, next2, prev2, m)
    BY <1>1, <1>2, <1>3, <1>4 DEF Pops
  <2> QED
    BY <1>1, <2>1, StackPop
<1>7. X2 \subseteq 1 .. m /\ m \in Nat
  <2>1. X \subseteq 1 .. m /\ y \in 1 .. m
    BY <1>1, <1>2
  <2> QED
    BY <2>1
<1>8. \A p \in O : first2[p] # 0
  BY <1>1
<1> QED
  BY <1>5, <1>6, <1>7, <1>8 DEF Layer

\* Element b, which is not the first of its list, goes and is freed.
LayerRemoves(n, X, O, own, rank, first, next, prev, top, b, first2, next2, prev2, X2, own2,
    rank2) ==
  /\ b \in X /\ prev[b] # 0
  /\ \A o \in O : first2[o] = first[o]
  /\ next2[b] = top \/ next2[b] = 0
  /\ \A x \in 1 .. n : x # b => next2[x] = IF x = prev[b] THEN next[b] ELSE next[x]
  /\ prev2[b] = -1
  /\ \A x \in 1 .. n : x # b => prev2[x] = IF x = next[b] THEN prev[b] ELSE prev[x]
  /\ X2 = X \ {b}
  /\ own2 \in [X2 -> O] /\ \A x \in X2 : own2[x] = own[x]
  /\ rank2 \in [X2 -> Nat \ {0}]
  /\ \A x \in X2 : rank2[x] = IF own[x] = own[b] /\ rank[x] > rank[b] THEN rank[x] - 1 ELSE rank[x]

\* An element leaves its list for the free list.
LEMMA LayerRemove ==
  ASSUME NEW n, NEW X, NEW O, NEW own, NEW rank, NEW first, NEW next, NEW prev, NEW top,
         NEW b, NEW first2, NEW next2, NEW prev2, NEW X2, NEW own2, NEW rank2,
         Layer(X, O, own, rank, first, next, prev, top, n),
         LayerRemoves(n, X, O, own, rank, first, next, prev, top, b, first2, next2, prev2, X2,
             own2, rank2)
  PROVE  Layer(X2, O, own2, rank2, first2, next2, prev2, b, n)
<1>1. X \subseteq 1 .. n /\ Live(X, O, own, rank, first, next, prev) /\ Stack(top, next, prev, n)
      /\ n \in Nat /\ \A o \in O : first[o] # 0
  BY DEF Layer
<1> USE DEF LayerRemoves
<1>3. \A x \in X : prev[x] # -1
  <2> HIDE DEF LayerRemoves
  <2> QED
    BY LayerPrev
<1>4. (next[b] = 0 \/ next[b] \in X) /\ prev[b] \in X
  BY <1>1 DEF Live, Forward, Backward, Placed
<1>9. /\ \A o \in O : first2[o] = IF first[o] = b THEN next[b] ELSE first[o]
      /\ \A x \in X : x # b => next2[x] = IF x = prev[b] THEN next[b] ELSE next[x]
      /\ \A x \in X : x # b => prev2[x] = IF x = next[b] THEN prev[b] ELSE prev[x]
  <2>1. \A o \in O : first[o] # b
    BY <1>1 DEF Live, Begun
  <2> QED
    BY <1>1, <2>1
<1>5. Live(X2, O, own2, rank2, first2, next2, prev2)
  <2>1. Removes(X, O, own, rank, first, next, prev, b, first2, next2, prev2, X2, own2, rank2)
    BY <1>9 DEF Removes
  <2> QED
    BY <1>1, <2>1, LiveRemove
<1>6. Stack(b, next2, prev2, n)
  <2>1. Pushes(top, next, prev, n, b, next2, prev2)
    BY <1>1, <1>3, <1>4 DEF Pushes
  <2> QED
    BY <1>1, <2>1, StackPush
<1>7. X2 \subseteq 1 .. n /\ n \in Nat
  BY <1>1
<1>8. \A p \in O : first2[p] # 0
  BY <1>1
<1> QED
  BY <1>5, <1>6, <1>7, <1>8 DEF Layer

\* A new element y is taken for a new owner o.
LayerStarts(n, X, O, own, rank, first, next, prev, top, o, y, m, top2, first2, next2, prev2, X2,
    O2, own2, rank2) ==
  /\ o \notin O /\ y = SlotAt(top, n) /\ m \in Nat /\ n <= m /\ y <= m
  /\ top2 = IF top = 0 THEN 0 ELSE next[top]
  /\ first2[o] = y /\ \A p \in O : first2[p] = first[p]
  /\ next2[y] = 0 /\ \A x \in 1 .. n : x # y => next2[x] = next[x]
  /\ prev2[y] = 0 /\ \A x \in 1 .. n : x # y => prev2[x] = prev[x]
  /\ X2 = X \cup {y} /\ O2 = O \cup {o}
  /\ own2 \in [X2 -> O2] /\ own2[y] = o /\ \A x \in X : own2[x] = own[x]
  /\ rank2 \in [X2 -> Nat \ {0}] /\ rank2[y] = 1 /\ \A x \in X : rank2[x] = rank[x]

\* An element, taken from the free list or new, starts a list.
LEMMA LayerOwner ==
  ASSUME NEW n, NEW X, NEW O, NEW own, NEW rank, NEW first, NEW next, NEW prev, NEW top,
         NEW o, NEW y, NEW m, NEW top2, NEW first2, NEW next2, NEW prev2, NEW X2, NEW O2,
         NEW own2, NEW rank2,
         Layer(X, O, own, rank, first, next, prev, top, n),
         LayerStarts(n, X, O, own, rank, first, next, prev, top, o, y, m, top2, first2, next2,
             prev2, X2, O2, own2, rank2)
  PROVE  Layer(X2, O2, own2, rank2, first2, next2, prev2, top2, m)
<1>1. X \subseteq 1 .. n /\ Live(X, O, own, rank, first, next, prev) /\ Stack(top, next, prev, n)
      /\ n \in Nat /\ \A q \in O : first[q] # 0
  BY DEF Layer
<1> USE DEF LayerStarts
<1>2. y \notin X /\ y \in 1 .. n + 1 /\ y # 0 /\ (y \in 1 .. n => y = top) /\ (y \notin 1 .. n =>
    top = 0)
  <2> HIDE DEF LayerStarts
  <2>1. y = SlotAt(top, n)
    BY DEF LayerStarts
  <2> QED
    BY <1>1, <2>1, LayerPrev
<1>3. \A x \in X : prev[x] # -1
  <2> HIDE DEF LayerStarts
  <2> QED
    BY LayerPrev
<1>9. (\A x \in X : next2[x] = next[x]) /\ \A x \in X : prev2[x] = prev[x]
  BY <1>1, <1>2
<1>5. Live(X2, O2, own2, rank2, first2, next2, prev2)
  <2>1. Starts(X, O, own, rank, first, next, prev, o, y, first2, next2, prev2, X2, O2, own2, rank2)
    BY <1>2, <1>9 DEF Starts
  <2> QED
    BY <1>1, <2>1, LiveOwner
<1>6. Stack(top2, next2, prev2, m)
  <2>1. Pops(top, next, prev, n, top2, next2, prev2, m)
    BY <1>1, <1>2, <1>3 DEF Pops
  <2> QED
    BY <1>1, <2>1, StackPop
<1>7. X2 \subseteq 1 .. m /\ m \in Nat
  <2>1. X \subseteq 1 .. m /\ y \in 1 .. m
    BY <1>1, <1>2
  <2> QED
    BY <2>1
<1>8. \A p \in O2 : first2[p] # 0
  BY <1>1, <1>2
<1> QED
  BY <1>5, <1>6, <1>7, <1>8 DEF Layer

\* The list of owner s goes to the end b of another list.
LayerConcats(n, X, O, own, rank, first, next, prev, top, b, s, first2, next2, prev2, O2, own2,
    rank2) ==
  /\ b \in X /\ next[b] = 0 /\ s \in O /\ own[b] # s
  /\ \A o \in O : o # s => first2[o] = first[o]
  /\ \A x \in 1 .. n : next2[x] = IF x = b THEN first[s] ELSE next[x]
  /\ \A x \in 1 .. n : prev2[x] = IF x = first[s] THEN b ELSE prev[x]
  /\ O2 = O \ {s}
  /\ own2 \in [X -> O2] /\ \A x \in X : own2[x] = IF own[x] = s THEN own[b] ELSE own[x]
  /\ rank2 \in [X -> Nat \ {0}] /\ \A x \in X : rank2[x] = IF own[x] = s THEN rank[x] + rank[b] ELSE rank[x]

\* Two lists of an array become one.
LEMMA LayerConcat ==
  ASSUME NEW n, NEW X, NEW O, NEW own, NEW rank, NEW first, NEW next, NEW prev, NEW top,
         NEW b, NEW s, NEW first2, NEW next2, NEW prev2, NEW O2, NEW own2, NEW rank2,
         Layer(X, O, own, rank, first, next, prev, top, n),
         LayerConcats(n, X, O, own, rank, first, next, prev, top, b, s, first2, next2, prev2, O2,
             own2, rank2)
  PROVE  Layer(X, O2, own2, rank2, first2, next2, prev2, top, n)
<1>1. X \subseteq 1 .. n /\ Live(X, O, own, rank, first, next, prev) /\ Stack(top, next, prev, n)
      /\ n \in Nat /\ \A o \in O : first[o] # 0
  BY DEF Layer
<1> USE DEF LayerConcats
<1>3. \A x \in X : prev[x] # -1
  <2> HIDE DEF LayerConcats
  <2> QED
    BY LayerPrev
<1>4. first[s] \in X
  BY <1>1 DEF Live, Begun
<1>9. (\A x \in X : next2[x] = IF x = b THEN first[s] ELSE next[x])
      /\ \A x \in X : prev2[x] = IF x = first[s] THEN b ELSE prev[x]
  BY <1>1
<1>5. Live(X, O2, own2, rank2, first2, next2, prev2)
  <2>1. Concats(X, O, own, rank, first, next, prev, b, s, first2, next2, prev2, O2, own2, rank2)
    BY <1>1, <1>9 DEF Concats
  <2> QED
    BY <1>1, <2>1, LiveConcat
<1>6. Stack(top, next2, prev2, n)
  <2>1. Keeps(top, next, prev, n, next2, prev2, n)
    BY <1>1, <1>3, <1>4 DEF Keeps
  <2> QED
    BY <1>1, <2>1, StackSame
<1>7. X \subseteq 1 .. n /\ n \in Nat
  BY <1>1
<1>8. \A p \in O2 : first2[p] # 0
  BY <1>1
<1> QED
  BY <1>5, <1>6, <1>7, <1>8 DEF Layer

\* What follows b goes to a new owner o.
LayerCuts(n, X, O, own, rank, first, next, prev, top, b, o, first2, next2, prev2, O2, own2,
    rank2) ==
  /\ b \in X /\ next[b] # 0 /\ o \notin O
  /\ first2[o] = next[b] /\ \A p \in O : first2[p] = first[p]
  /\ \A x \in 1 .. n : next2[x] = IF x = b THEN 0 ELSE next[x]
  /\ \A x \in 1 .. n : prev2[x] = IF x = next[b] THEN 0 ELSE prev[x]
  /\ O2 = O \cup {o}
  /\ own2 \in [X -> O2] /\ \A x \in X : own2[x] = IF own[x] = own[b] /\ rank[x] > rank[b] THEN o ELSE own[x]
  /\ rank2 \in [X -> Nat \ {0}]
  /\ \A x \in X : rank2[x] = IF own[x] = own[b] /\ rank[x] > rank[b] THEN rank[x] - rank[b] ELSE rank[x]

\* One list of an array becomes two.
LEMMA LayerCut ==
  ASSUME NEW n, NEW X, NEW O, NEW own, NEW rank, NEW first, NEW next, NEW prev, NEW top,
         NEW b, NEW o, NEW first2, NEW next2, NEW prev2, NEW O2, NEW own2, NEW rank2,
         Layer(X, O, own, rank, first, next, prev, top, n),
         LayerCuts(n, X, O, own, rank, first, next, prev, top, b, o, first2, next2, prev2, O2,
             own2, rank2)
  PROVE  Layer(X, O2, own2, rank2, first2, next2, prev2, top, n)
<1>1. X \subseteq 1 .. n /\ Live(X, O, own, rank, first, next, prev) /\ Stack(top, next, prev, n)
      /\ n \in Nat /\ \A q \in O : first[q] # 0
  BY DEF Layer
<1> USE DEF LayerCuts
<1>3. \A x \in X : prev[x] # -1
  <2> HIDE DEF LayerCuts
  <2> QED
    BY LayerPrev
<1>4. next[b] \in X
  BY <1>1 DEF Live, Forward
<1>9. (\A x \in X : next2[x] = IF x = b THEN 0 ELSE next[x])
      /\ \A x \in X : prev2[x] = IF x = next[b] THEN 0 ELSE prev[x]
  BY <1>1
<1>5. Live(X, O2, own2, rank2, first2, next2, prev2)
  <2>1. Cuts(X, O, own, rank, first, next, prev, b, o, first2, next2, prev2, O2, own2, rank2)
    BY <1>1, <1>9 DEF Cuts
  <2> QED
    BY <1>1, <2>1, LiveCut
<1>6. Stack(top, next2, prev2, n)
  <2>1. Keeps(top, next, prev, n, next2, prev2, n)
    BY <1>1, <1>3, <1>4 DEF Keeps
  <2> QED
    BY <1>1, <2>1, StackSame
<1>7. X \subseteq 1 .. n /\ n \in Nat
  BY <1>1
<1>8. \A p \in O2 : first2[p] # 0
  BY <1>1, <1>4
<1> QED
  BY <1>5, <1>6, <1>7, <1>8 DEF Layer

\* The owners D and all that is theirs go out of use, and are not free yet.
LayerDrops(n, X, O, own, rank, first, next, prev, top, D, Y, O2, own2, rank2) ==
  /\ Y = {x \in X : own[x] \notin D}
  /\ O2 = O \ D
  /\ own2 \in [Y -> O2] /\ \A x \in Y : own2[x] = own[x]
  /\ rank2 \in [Y -> Nat \ {0}] /\ \A x \in Y : rank2[x] = rank[x]

\* The elements of some owners are in use no more.
LEMMA LayerDrop ==
  ASSUME NEW n, NEW X, NEW O, NEW own, NEW rank, NEW first, NEW next, NEW prev, NEW top,
         NEW D, NEW Y, NEW O2, NEW own2, NEW rank2,
         Layer(X, O, own, rank, first, next, prev, top, n),
         LayerDrops(n, X, O, own, rank, first, next, prev, top, D, Y, O2, own2, rank2)
  PROVE  Layer(Y, O2, own2, rank2, first, next, prev, top, n)
<1>1. X \subseteq 1 .. n /\ Live(X, O, own, rank, first, next, prev) /\ Stack(top, next, prev, n)
      /\ n \in Nat /\ \A o \in O : first[o] # 0
  BY DEF Layer
<1> USE DEF LayerDrops
<1>5. Live(Y, O2, own2, rank2, first, next, prev)
  <2>1. Drops(X, O, own, rank, first, next, prev, D, Y, first, next, prev, O2, own2, rank2)
    BY <1>1 DEF Drops
  <2> QED
    BY <1>1, <2>1, LiveDrop
<1>6. Stack(top, next, prev, n)
  BY <1>1
<1>7. Y \subseteq 1 .. n /\ n \in Nat
  BY <1>1
<1>8. \A p \in O2 : first[p] # 0
  BY <1>1
<1> QED
  BY <1>5, <1>6, <1>7, <1>8 DEF Layer

\* An element that is out of use is freed.
LayerFrees(n, X, O, own, rank, first, next, prev, top, y, first2, next2, prev2) ==
  /\ y \in 1 .. n /\ y \notin X /\ prev[y] # -1
  /\ \A o \in O : first2[o] = first[o]
  /\ next2[y] = top \/ next2[y] = 0
  /\ \A x \in 1 .. n : x # y => next2[x] = next[x]
  /\ prev2[y] = -1 /\ \A x \in 1 .. n : x # y => prev2[x] = prev[x]

\* An element that is in no list is put before the free ones.
LEMMA LayerFree ==
  ASSUME NEW n, NEW X, NEW O, NEW own, NEW rank, NEW first, NEW next, NEW prev, NEW top,
         NEW y, NEW first2, NEW next2, NEW prev2,
         Layer(X, O, own, rank, first, next, prev, top, n),
         LayerFrees(n, X, O, own, rank, first, next, prev, top, y, first2, next2, prev2)
  PROVE  Layer(X, O, own, rank, first2, next2, prev2, y, n)
<1>1. X \subseteq 1 .. n /\ Live(X, O, own, rank, first, next, prev) /\ Stack(top, next, prev, n)
      /\ n \in Nat /\ \A o \in O : first[o] # 0
  BY DEF Layer
<1> USE DEF LayerFrees
<1>2. Agree(O, first, first2) /\ Agree(X, next, next2) /\ Agree(X, prev, prev2)
  BY <1>1 DEF Agree
<1>5. Live(X, O, own, rank, first2, next2, prev2)
  BY <1>1, <1>2, LiveSame
<1>6. Stack(y, next2, prev2, n)
  <2>1. Pushes(top, next, prev, n, y, next2, prev2)
    BY <1>1 DEF Pushes
  <2> QED
    BY <1>1, <2>1, StackPush
<1>7. X \subseteq 1 .. n /\ n \in Nat
  BY <1>1
<1>8. \A p \in O : first2[p] # 0
  BY <1>1
<1> QED
  BY <1>5, <1>6, <1>7, <1>8 DEF Layer

(***************************************************************************)
(* What a frame is, and what the operators that touch one element leave.   *)
(***************************************************************************)
Kinds == {"text", "line"} \cup {x.kind : x \in Labels}
ParaSet == [firstL : Nat, next : Nat, prev : Int, align : Alignments, count : Nat]
LineSet == [firstB : Nat, next : Nat, prev : Int]
BoxSet == [kind : Kinds, i : Nat, j : Nat, w : Int, color : Colors, next : Nat, prev : Int]
LastSet == [p : Nat, l : Nat, b : Nat]

Frames == [P : Seq(ParaSet), L : Seq(LineSet), B : Seq(BoxSet), freeP : Nat, freeL : Nat,
    freeB : Nat,
           firstP : Nat, text : Seq(Characters), len : Int, width : Nat, count : Nat,
               last : LastSet]

SameP(f, h) == h.P = f.P /\ h.freeP = f.freeP /\ h.firstP = f.firstP
SameL(f, h) == h.L = f.L /\ h.freeL = f.freeL
SameB(f, h) == h.B = f.B /\ h.freeB = f.freeB
SameT(f, h) == h.text = f.text /\ h.len = f.len /\ h.width = f.width
SameC(f, h) == h.count = f.count /\ h.last = f.last

\* The zero elements are elements.
LEMMA NothingTypes ==
  NoPara \in ParaSet /\ NoLine \in LineSet /\ NoBox \in BoxSet /\ NoLast \in LastSet
<1>1. (CHOOSE a \in Alignments : TRUE) \in Alignments
  BY ChoicesAssumption
<1>2. NoColor \in Colors
  BY ChoicesAssumption DEF NoColor
<1>3. NoBox \in BoxSet
  BY <1>2 DEF NoBox, BoxSet, Kinds
<1> QED
  BY <1>1, <1>3 DEF NoPara, NoLine, NoLast, ParaSet, LineSet, LastSet

\* One place of a sequence set, or one more place.
LEMMA PutIs ==
  ASSUME NEW S, NEW s \in Seq(S), NEW i \in 1 .. Len(s) + 1, NEW x \in S
  PROVE  /\ Put(s, i, x) \in Seq(S)
         /\ Len(Put(s, i, x)) = IF i <= Len(s) THEN Len(s) ELSE i
         /\ Put(s, i, x)[i] = x
         /\ \A k \in 1 .. Len(s) : k # i => Put(s, i, x)[k] = s[k]
<1>1. CASE i <= Len(s)
  <2>1. i \in 1 .. Len(s) /\ Put(s, i, x) = [s EXCEPT ![i] = x]
    BY <1>1 DEF Put
  <2> QED
    BY <1>1, <2>1
<1>2. CASE ~(i <= Len(s))
  <2>1. i = Len(s) + 1 /\ Put(s, i, x) = Append(s, x)
    BY <1>2 DEF Put
  <2> QED
    BY <1>2, <2>1
<1> QED
  BY <1>1, <1>2

\* Box b of a frame is set to x.
SetsBox(f, h, b, x) ==
  /\ h \in Frames /\ SameP(f, h) /\ SameL(f, h) /\ SameT(f, h) /\ SameC(f, h)
  /\ Len(h.B) = Len(f.B) /\ h.B[b] = x /\ \A k \in 1 .. Len(f.B) : k # b => h.B[k] = f.B[k]

\* A box set to a value keeps the frame a frame.
LEMMA SetBox ==
  ASSUME NEW f \in Frames, NEW b \in 1 .. Len(f.B), NEW x \in BoxSet
  PROVE  SetsBox(f, [f EXCEPT !.B[b] = x], b, x) /\ [f EXCEPT !.B[b] = x].freeB = f.freeB
<1>1. f.B \in Seq(BoxSet)
  BY DEF Frames
<1>2. [f.B EXCEPT ![b] = x] \in Seq(BoxSet)
  BY <1>1
<1>3. PICK h : h = [f EXCEPT !.B[b] = x]
  OBVIOUS
<1>4. h.B = [f.B EXCEPT ![b] = x]
  BY <1>3 DEF Frames
<1>5. h \in Frames
  BY <1>2, <1>3 DEF Frames
<1>6. SameP(f, h) /\ SameL(f, h) /\ SameT(f, h) /\ SameC(f, h) /\ h.freeB = f.freeB
  BY <1>3 DEF Frames, SameP, SameL, SameT, SameC
<1> QED
  BY <1>1, <1>3, <1>4, <1>5, <1>6 DEF SetsBox

SameText(x, y) == y.kind = x.kind /\ y.i = x.i /\ y.j = x.j /\ y.w = x.w /\ y.color = x.color

\* A box with another next.
LEMMA NextField ==
  ASSUME NEW x \in BoxSet, NEW n \in Nat, NEW y, y = [x EXCEPT !.next = n]
  PROVE  y \in BoxSet /\ y.next = n /\ y.prev = x.prev /\ SameText(x, y)
BY DEF BoxSet, SameText

\* A box with another previous one.
LEMMA PrevField ==
  ASSUME NEW x \in BoxSet, NEW p \in Int, NEW y, y = [x EXCEPT !.prev = p]
  PROVE  y \in BoxSet /\ y.prev = p /\ y.next = x.next /\ SameText(x, y)
BY DEF BoxSet, SameText

OnlyB(f, h) == h \in Frames /\ SameP(f, h) /\ SameL(f, h) /\ SameT(f, h) /\ SameC(f, h)

\* The index after a box is a number.
LEMMA NextIndexType ==
  ASSUME NEW f \in Frames, NEW b \in 1 .. Len(f.B)
  PROVE  f.B[b] \in BoxSet /\ NextIndex(f, b) \in Nat
<1>1. f.B[b] \in BoxSet
  BY DEF Frames
<1> QED
  BY <1>1 DEF NextIndex, BoxSet

\* addBox (frame.go) takes the index freed last, or the next one of the array.
LEMMA AddBoxIs ==
  ASSUME NEW f \in Frames, NEW box \in BoxSet, f.freeB <= Len(f.B),
         NEW y, y = Slot(f.freeB, f.B), NEW h, h = AddBox(f, box)
  PROVE  /\ OnlyB(f, h) /\ y \in 1 .. Len(f.B) + 1
         /\ Len(h.B) = IF y <= Len(f.B) THEN Len(f.B) ELSE y
         /\ h.B[y] = box /\ \A k \in 1 .. Len(f.B) : k # y => h.B[k] = f.B[k]
         /\ h.freeB = IF f.freeB = 0 THEN 0 ELSE NextIndex(f, f.freeB)
<1>1. f.B \in Seq(BoxSet) /\ f.freeB \in Nat /\ Len(f.B) \in Nat
  BY DEF Frames
<1>2. y \in 1 .. Len(f.B) + 1
  BY <1>1 DEF Slot
<1>3. PICK s : s = Put(f.B, y, box)
  OBVIOUS
<1>4. /\ s \in Seq(BoxSet) /\ Len(s) = (IF y <= Len(f.B) THEN Len(f.B) ELSE y)
      /\ s[y] = box /\ \A k \in 1 .. Len(f.B) : k # y => s[k] = f.B[k]
  <2>1. /\ Put(f.B, y, box) \in Seq(BoxSet)
        /\ Len(Put(f.B, y, box)) = IF y <= Len(f.B) THEN Len(f.B) ELSE y
        /\ Put(f.B, y, box)[y] = box
        /\ \A k \in 1 .. Len(f.B) : k # y => Put(f.B, y, box)[k] = f.B[k]
    <3>1. PICK q : q = f.B
      OBVIOUS
    <3>2. q \in Seq(BoxSet) /\ y \in 1 .. Len(q) + 1
      BY <1>1, <1>2, <3>1
    <3>3. /\ Put(q, y, box) \in Seq(BoxSet)
          /\ Len(Put(q, y, box)) = IF y <= Len(q) THEN Len(q) ELSE y
          /\ Put(q, y, box)[y] = box
          /\ \A k \in 1 .. Len(q) : k # y => Put(q, y, box)[k] = q[k]
      BY <3>2, PutIs
    <3> QED
      BY <3>1, <3>3
  <2> QED
    BY <1>3, <2>1
<1>5. PICK t : t = IF f.freeB = 0 THEN 0 ELSE NextIndex(f, f.freeB)
  OBVIOUS
<1>6. t \in Nat
  BY <1>1, <1>5, NextIndexType
<1>7. h = [f EXCEPT !.B = s, !.freeB = t]
  BY <1>3, <1>5 DEF AddBox, Slot
<1>8. h \in Frames
  BY <1>4, <1>6, <1>7 DEF Frames
<1>9. h.B = s /\ h.freeB = t /\ SameP(f, h) /\ SameL(f, h) /\ SameT(f, h) /\ SameC(f, h)
  BY <1>7 DEF Frames, SameP, SameL, SameT, SameC
<1> QED
  BY <1>2, <1>4, <1>5, <1>8, <1>9 DEF OnlyB

\* Changes to the boxes alone, one after the other, are such a change.
LEMMA OnlyBTwice ==
  ASSUME NEW f, NEW g, NEW h, OnlyB(f, g), OnlyB(g, h)
  PROVE  OnlyB(f, h)
BY DEF OnlyB, SameP, SameL, SameT, SameC

\* One box is another, and nothing else changes.
OneBox(f, h, b, x) ==
  /\ OnlyB(f, h) /\ Len(h.B) = Len(f.B)
  /\ h.B[b] = x /\ \A k \in 1 .. Len(f.B) : k # b => h.B[k] = f.B[k]

\* Setting a box changes no other.
LEMMA SetBoxIs ==
  ASSUME NEW f \in Frames, NEW b \in 1 .. Len(f.B), NEW x \in BoxSet, NEW h,
         h = [f EXCEPT !.B[b] = x]
  PROVE  OneBox(f, h, b, x) /\ h.freeB = f.freeB
BY SetBox DEF SetsBox, OneBox, OnlyB

\* Setting the next of a box changes no other.
LEMMA SetNextIs ==
  ASSUME NEW f \in Frames, NEW b \in 1 .. Len(f.B), NEW n \in Nat, NEW h,
         h = [f EXCEPT !.B[b].next = n]
  PROVE  OneBox(f, h, b, [f.B[b] EXCEPT !.next = n]) /\ h.freeB = f.freeB
<1>1. PICK x : x = [f.B[b] EXCEPT !.next = n]
  OBVIOUS
<1>2. x \in BoxSet
  BY <1>1, NextIndexType, NextField
<1>3. h = [f EXCEPT !.B[b] = x]
  BY <1>1 DEF Frames
<1>4. OneBox(f, h, b, x) /\ h.freeB = f.freeB
  BY <1>2, <1>3, SetBoxIs
<1> QED
  BY <1>1, <1>4

\* Setting the previous one of a box changes no other.
LEMMA SetPrevIs ==
  ASSUME NEW f \in Frames, NEW b \in 1 .. Len(f.B), NEW p \in Int, NEW h,
         h = [f EXCEPT !.B[b].prev = p]
  PROVE  OneBox(f, h, b, [f.B[b] EXCEPT !.prev = p]) /\ h.freeB = f.freeB
<1>1. PICK x : x = [f.B[b] EXCEPT !.prev = p]
  OBVIOUS
<1>2. x \in BoxSet
  BY <1>1, NextIndexType, PrevField
<1>3. h = [f EXCEPT !.B[b] = x]
  BY <1>1 DEF Frames
<1>4. OneBox(f, h, b, x) /\ h.freeB = f.freeB
  BY <1>2, <1>3, SetBoxIs
<1> QED
  BY <1>1, <1>4

\* Box b1 comes after box b0.
LEMMA LinkBoxesIs ==
  ASSUME NEW f \in Frames, NEW b0 \in 1 .. Len(f.B), NEW b1 \in 1 .. Len(f.B), b0 # b1,
         NEW h, h = LinkBoxes(f, b0, b1)
  PROVE  /\ OnlyB(f, h) /\ Len(h.B) = Len(f.B) /\ h.freeB = f.freeB
         /\ h.B[b0] = [f.B[b0] EXCEPT !.next = b1] /\ h.B[b1] = [f.B[b1] EXCEPT !.prev = b0]
         /\ \A k \in 1 .. Len(f.B) : k # b0 /\ k # b1 => h.B[k] = f.B[k]
<1>1. PICK g : g = [f EXCEPT !.B[b0].next = b1]
  OBVIOUS
<1>2. OneBox(f, g, b0, [f.B[b0] EXCEPT !.next = b1]) /\ g.freeB = f.freeB
  <2>1. b1 \in Nat
    BY DEF Frames
  <2> QED
    BY <1>1, <2>1, SetNextIs
<1>3. g \in Frames /\ b1 \in 1 .. Len(g.B) /\ b0 \in Int
  BY <1>2 DEF OneBox, OnlyB
<1>4. h = [g EXCEPT !.B[b1].prev = b0]
  BY <1>1 DEF LinkBoxes
<1>5. OneBox(g, h, b1, [g.B[b1] EXCEPT !.prev = b0]) /\ h.freeB = g.freeB
  BY <1>3, <1>4, SetPrevIs, SMTT(30)
<1>6. OnlyB(f, h)
  BY <1>2, <1>5, OnlyBTwice DEF OneBox
<1> QED
  BY <1>2, <1>5, <1>6 DEF OneBox

\* A freed box has the ones freed earlier after it and -1 before it.
LEMMA FreeBoxIs ==
  ASSUME NEW f \in Frames, NEW b \in 1 .. Len(f.B), NEW h, h = FreeBox(f, b)
  PROVE  /\ OneBox(f, h, b, [f.B[b] EXCEPT !.next = f.freeB, !.prev = -1]) /\ h.freeB = b
<1>1. f.B[b] \in BoxSet /\ f.freeB \in Nat /\ b \in Nat
  BY NextIndexType DEF Frames
<1>2. PICK y : y = [f.B[b] EXCEPT !.next = f.freeB]
  OBVIOUS
<1>3. PICK m : m = -1 /\ m \in Int
  OBVIOUS
<1>4. PICK x : x = [y EXCEPT !.prev = m]
  OBVIOUS
<1>5. x \in BoxSet
  <2>1. y \in BoxSet
    BY <1>1, <1>2, NextField
  <2> QED
    BY <1>3, <1>4, <2>1, PrevField
<1>6. x = [f.B[b] EXCEPT !.next = f.freeB, !.prev = -1]
  BY <1>2, <1>3, <1>4
<1>7. PICK g : g = [f EXCEPT !.B[b] = x]
  OBVIOUS
<1>8. OneBox(f, g, b, x) /\ g \in Frames
  BY <1>5, <1>7, SetBoxIs DEF OneBox, OnlyB
<1>9. h = [g EXCEPT !.freeB = b]
  <2>1. b \in DOMAIN f.B
    BY DEF Frames
  <2>2. h = [[f EXCEPT !.B[b] = [f.B[b] EXCEPT !.next = f.freeB, !.prev = -1]] EXCEPT !.freeB = b]
    BY <2>1 DEF FreeBox, Frames
  <2> QED
    BY <1>6, <1>7, <2>2
<1>10. h \in Frames /\ h.B = g.B /\ h.freeB = b /\ SameP(g, h) /\ SameL(g, h) /\ SameT(g,
    h) /\ SameC(g, h)
  BY <1>1, <1>8, <1>9 DEF Frames, SameP, SameL, SameT, SameC
<1> QED
  BY <1>6, <1>8, <1>10, OnlyBTwice DEF OneBox, OnlyB

(***************************************************************************)
(* The boxes of a frame.                                                   *)
(***************************************************************************)
FirstB(f) == [l \in DOMAIN f.L |-> f.L[l].firstB]
PrevB(f) == [b \in DOMAIN f.B |-> f.B[b].prev]
BLayer(f, O, X, own, rank) ==
  Layer(X, O, own, rank, FirstB(f), NextB(f), PrevB(f), f.freeB, Len(f.B))

\* The links of the boxes, as functions.
LEMMA LinksB ==
  ASSUME NEW f \in Frames
  PROVE  /\ DOMAIN NextB(f) = 0 .. Len(f.B) /\ NextB(f)[0] = 0
         /\ \A b \in 1 .. Len(f.B) : NextB(f)[b] = NextIndex(f, b) /\ PrevB(f)[b] = f.B[b].prev
         /\ \A l \in 1 .. Len(f.L) : FirstB(f)[l] = f.L[l].firstB
<1>1. f.B \in Seq(BoxSet) /\ f.L \in Seq(LineSet)
  BY DEF Frames
<1>2. DOMAIN f.B = 1 .. Len(f.B) /\ DOMAIN f.L = 1 .. Len(f.L) /\ Len(f.B) \in Nat
  BY <1>1
<1> QED
  BY <1>2 DEF NextB, PrevB, FirstB

\* A next element is another one of the same list, and so is the one after it.
LEMMA LiveNext ==
  ASSUME NEW X, NEW O, NEW own, NEW rank, NEW first, NEW next, NEW prev,
         Live(X, O, own, rank, first, next, prev), NEW x \in X, next[x] # 0
  PROVE  /\ next[x] \in X /\ next[x] # x /\ own[next[x]] = own[x]
         /\ prev[next[x]] = x /\ rank[next[x]] = rank[x] + 1 /\ rank[x] \in Nat
         /\ next[next[x]] # x /\ next[next[x]] # next[x]
<1>1. next[x] \in X /\ own[next[x]] = own[x] /\ prev[next[x]] = x /\ rank[next[x]] = rank[x] + 1
  BY DEF Live, Forward
<1>2. rank[x] \in Nat /\ x # 0 /\ next[x] # 0
  BY <1>1 DEF Live, Placed, Begun
<1>3. next[next[x]] # 0 => rank[next[next[x]]] = rank[next[x]] + 1
  BY <1>1 DEF Live, Forward
<1> QED
  BY <1>1, <1>2, <1>3

\* What joining makes of two boxes.
LEMMA JoinedIs ==
  ASSUME NEW x \in BoxSet, NEW y \in BoxSet, Joins(x, y), NEW z, z = Joined(x, y)
  PROVE  /\ z \in BoxSet /\ z.kind = "text" /\ z.prev = x.prev /\ z.next = y.next
         /\ x.kind = "text" /\ y.kind = "text"
         /\ \/ x.i = x.j /\ z.i = y.i /\ z.j = y.j /\ z.w = y.w
            \/ y.i = y.j /\ z.i = x.i /\ z.j = x.j /\ z.w = x.w
            \/ x.j = y.i /\ z.i = x.i /\ z.j = y.j /\ z.w = x.w + y.w
<1>1. x.kind = "text" /\ y.kind = "text" /\ (x.i = x.j \/ y.i = y.j \/ x.j = y.i)
  BY DEF Joins
<1>2. CASE x.i = x.j
  <2>1. z = [y EXCEPT !.prev = x.prev]
    BY <1>2 DEF Joined
  <2> QED
    BY <1>1, <1>2, <2>1 DEF BoxSet
<1>3. CASE x.i # x.j /\ y.i = y.j
  <2>1. z = [x EXCEPT !.next = y.next]
    BY <1>3 DEF Joined
  <2> QED
    BY <1>1, <1>3, <2>1 DEF BoxSet
<1>4. CASE x.i # x.j /\ y.i # y.j
  <2>1. z = [x EXCEPT !.j = y.j, !.w = x.w + y.w, !.next = y.next]
    BY <1>4 DEF Joined
  <2>2. x.w + y.w \in Int
    BY DEF BoxSet
  <2> QED
    BY <1>1, <1>4, <2>1, <2>2 DEF BoxSet
<1> QED
  BY <1>2, <1>3, <1>4

BoxesJoined(f, h, b0, b1, n) ==
  /\ OnlyB(f, h) /\ Len(h.B) = Len(f.B) /\ h.freeB = b1
  /\ h.B[b0] = Joined(f.B[b0], f.B[b1])
  /\ h.B[b1] = [f.B[b1] EXCEPT !.next = f.freeB, !.prev = -1]
  /\ n # 0 => h.B[n] = [f.B[n] EXCEPT !.prev = b0]
  /\ \A k \in 1 .. Len(f.B) : k # b0 /\ k # b1 /\ k # n => h.B[k] = f.B[k]

\* The fields that joining two boxes sets.
LEMMA JoinBoxesIs ==
  ASSUME NEW f \in Frames, NEW b0 \in 1 .. Len(f.B), NEW b1 \in 1 .. Len(f.B), b0 # b1,
         NEW n \in 0 .. Len(f.B), n = f.B[b1].next, n # b0, n # b1,
         Joins(f.B[b0], f.B[b1]), NEW h, h = JoinBoxes(f, b0, b1)
  PROVE  BoxesJoined(f, h, b0, b1, n)
<1>1. f.B[b0] \in BoxSet /\ f.B[b1] \in BoxSet
  BY NextIndexType
<1>2. PICK z : z = Joined(f.B[b0], f.B[b1])
  OBVIOUS
<1>3. z \in BoxSet
  BY <1>1, <1>2, JoinedIs
<1>4. PICK g : g = [f EXCEPT !.B[b0] = z]
  OBVIOUS
<1>5. OneBox(f, g, b0, z) /\ g.freeB = f.freeB
  BY <1>3, <1>4, SetBoxIs
<1>6. PICK k : k = SetPrev(g, n, b0)
  OBVIOUS
<1>7. /\ OnlyB(g, k) /\ Len(k.B) = Len(g.B) /\ k.freeB = g.freeB
      /\ n # 0 => k.B[n] = [g.B[n] EXCEPT !.prev = b0]
      /\ \A i \in 1 .. Len(g.B) : i # n => k.B[i] = g.B[i]
  <2>1. CASE n = 0
    <3>1. k = g
      BY <1>6, <2>1 DEF SetPrev
    <3> QED
      BY <1>5, <2>1, <3>1 DEF OneBox, OnlyB, SameP, SameL, SameT, SameC
  <2>2. CASE n # 0
    <3>1. n \in 1 .. Len(g.B) /\ g \in Frames /\ b0 \in Int
      BY <1>5, <2>2 DEF OneBox, OnlyB
    <3>2. k = [g EXCEPT !.B[n].prev = b0]
      BY <1>6, <2>2 DEF SetPrev
    <3>3. OneBox(g, k, n, [g.B[n] EXCEPT !.prev = b0]) /\ k.freeB = g.freeB
      BY <3>1, <3>2, SetPrevIs, SMTT(40)
    <3> QED
      BY <3>3 DEF OneBox
  <2> QED
    BY <2>1, <2>2
<1>8. k \in Frames /\ b1 \in 1 .. Len(k.B)
  BY <1>5, <1>7 DEF OneBox, OnlyB
<1>9. h = FreeBox(k, b1)
  <2>1. JoinBoxes(f, b0, b1) = FreeBox(SetPrev([f EXCEPT !.B[b0] = Joined(f.B[b0], f.B[b1])], n,
      b0), b1)
    BY DEF JoinBoxes
  <2> QED
    BY <1>2, <1>4, <1>6, <2>1
<1>10. OneBox(k, h, b1, [k.B[b1] EXCEPT !.next = k.freeB, !.prev = -1]) /\ h.freeB = b1
  BY <1>8, <1>9, FreeBoxIs
<1>11. OnlyB(f, h)
  BY <1>5, <1>7, <1>10, OnlyBTwice DEF OneBox
<1>12. k.B[b1] = f.B[b1] /\ k.freeB = f.freeB
  BY <1>5, <1>7 DEF OneBox
<1>13. h.B[b1] = [f.B[b1] EXCEPT !.next = f.freeB, !.prev = -1]
  BY <1>10, <1>12 DEF OneBox
<1>14. Len(h.B) = Len(f.B) /\ h.freeB = b1 /\ h.B[b0] = z
  BY <1>5, <1>7, <1>10 DEF OneBox
<1>15. n # 0 => h.B[n] = [f.B[n] EXCEPT !.prev = b0]
  BY <1>5, <1>7, <1>10, SMTT(30) DEF OneBox
<1>16. \A i \in 1 .. Len(f.B) : i # b0 /\ i # b1 /\ i # n => h.B[i] = f.B[i]
  BY <1>5, <1>7, <1>10 DEF OneBox
<1> QED
  BY <1>2, <1>11, <1>13, <1>14, <1>15, <1>16 DEF BoxesJoined

BRemoveRank(own, rank, b,
    x) == IF own[x] = own[b] /\ rank[x] > rank[b] THEN rank[x] - 1 ELSE rank[x]

\* What well-formed boxes are, field by field.
LEMMA BLayerFacts ==
  ASSUME NEW f \in Frames, NEW O, NEW X, NEW own, NEW rank, BLayer(f, O, X, own, rank)
  PROVE  /\ X \subseteq 1 .. Len(f.B) /\ f.freeB \in 0 .. Len(f.B) /\ Len(f.B) \in Nat
         /\ Live(X, O, own, rank, FirstB(f), NextB(f), PrevB(f))
         /\ own \in [X -> O] /\ rank \in [X -> Nat \ {0}]
         /\ \A x \in X : /\ NextB(f)[x] = NextIndex(f, x) /\ PrevB(f)[x] = f.B[x].prev
                         /\ f.B[x] \in BoxSet /\ x \in 1 .. Len(f.B) /\ NextIndex(f,
                             x) \in 0 .. Len(f.B)
         /\ SlotAt(f.freeB, Len(f.B)) \notin X
<1>1. X \subseteq 1 .. Len(f.B) /\ Live(X, O, own, rank, FirstB(f), NextB(f), PrevB(f))
  BY DEF BLayer, Layer
<1>2. f.freeB \in 0 .. Len(f.B) /\ Len(f.B) \in Nat /\ SlotAt(f.freeB, Len(f.B)) \notin X
      /\ \A x \in X : NextB(f)[x] \in 0 .. Len(f.B)
  BY LayerPrev DEF BLayer
<1>3. own \in [X -> O] /\ rank \in [X -> Nat \ {0}]
  BY <1>1 DEF Live, Placed
<1>4. \A x \in X : x \in 1 .. Len(f.B)
  BY <1>1
<1>5. \A x \in X : NextB(f)[x] = NextIndex(f, x) /\ PrevB(f)[x] = f.B[x].prev
  BY <1>4, LinksB
<1>6. \A x \in X : f.B[x] \in BoxSet
  BY <1>4, NextIndexType
<1> QED
  BY <1>1, <1>2, <1>3, <1>4, <1>5, <1>6

\* Box b0 took the box b1 after it in, which is free now.
BTaken(f, h, O, X, own, rank, b0, b1, X2, own2, rank2) ==
  /\ OnlyB(f, h) /\ BLayer(h, O, X2, own2, rank2) /\ Len(h.B) = Len(f.B)
  /\ b1 \in X /\ b1 # b0 /\ own[b1] = own[b0] /\ X2 = X \ {b1}
  /\ own2 \in [X2 -> O] /\ \A x \in X2 : own2[x] = own[x]
  /\ rank2 \in [X2 -> Nat \ {0}] /\ \A x \in X2 : rank2[x] = BRemoveRank(own, rank, b1, x)
  /\ h.B[b0] = Joined(f.B[b0], f.B[b1])
  /\ \A x \in X2 : x # b0 => SameText(f.B[x], h.B[x])
  /\ NextIndex(h, b0) = NextIndex(f, b1)
  /\ \A x \in X2 : x # b0 => NextIndex(h, x) = NextIndex(f, x)

\* Two neighbours become one, and the second one is free.
LEMMA BJoin ==
  ASSUME NEW f \in Frames, NEW O, NEW X, NEW own, NEW rank, BLayer(f, O, X, own, rank),
         O \subseteq 1 .. Len(f.L),
         NEW b0 \in X, NEW b1, b1 = NextIndex(f, b0), b1 # 0, Joins(f.B[b0], f.B[b1]),
         NEW h, h = JoinBoxes(f, b0, b1)
  PROVE  \E X2, own2, rank2 : BTaken(f, h, O, X, own, rank, b0, b1, X2, own2, rank2)
<1>0. PICK X2 : X2 = X \ {b1}
  OBVIOUS
<1>a. PICK own2 : own2 = [x \in X2 |-> own[x]]
  OBVIOUS
<1>b. PICK rank2 : rank2 = [x \in X2 |-> BRemoveRank(own, rank, b1, x)]
  OBVIOUS
<1> DEFINE next == NextB(f)
           prev == PrevB(f)
           n == f.B[b1].next
<1>1. /\ X \subseteq 1 .. Len(f.B) /\ Len(f.B) \in Nat
      /\ Live(X, O, own, rank, FirstB(f), next, prev)
      /\ own \in [X -> O] /\ rank \in [X -> Nat \ {0}]
      /\ \A x \in X : next[x] = NextIndex(f, x) /\ prev[x] = f.B[x].prev /\ f.B[x] \in BoxSet
  BY BLayerFacts
<1>2. next[b0] = b1
  BY <1>1
<1>3. /\ b1 \in X /\ b1 # b0 /\ own[b1] = own[b0] /\ prev[b1] = b0
      /\ next[b1] # b0 /\ next[b1] # b1
  BY <1>1, <1>2, LiveNext
<1>4. f.B[b0].kind = "text" /\ f.B[b1].kind = "text"
  BY DEF Joins
<1>5. n = next[b1] /\ n \in 0 .. Len(f.B)
  <2>1. NextIndex(f, b1) = n
    BY <1>4 DEF NextIndex
  <2>2. NextIndex(f, b1) = next[b1] /\ NextIndex(f, b1) \in 0 .. Len(f.B)
    BY <1>3, BLayerFacts
  <2> QED
    BY <2>1, <2>2
<1>6. b0 \in 1 .. Len(f.B) /\ b1 \in 1 .. Len(f.B)
  BY <1>1, <1>3
<1>7. /\ OnlyB(f, h) /\ Len(h.B) = Len(f.B) /\ h.freeB = b1
      /\ h.B[b0] = Joined(f.B[b0], f.B[b1])
      /\ h.B[b1] = [f.B[b1] EXCEPT !.next = f.freeB, !.prev = -1]
      /\ n # 0 => h.B[n] = [f.B[n] EXCEPT !.prev = b0]
      /\ \A k \in 1 .. Len(f.B) : k # b0 /\ k # b1 /\ k # n => h.B[k] = f.B[k]
  <2>1. PICK m \in 0 .. Len(f.B) : m = n
    BY <1>5
  <2>2. m = f.B[b1].next /\ m # b0 /\ m # b1 /\ b0 # b1
    BY <1>3, <1>5, <2>1
  <2>3. BoxesJoined(f, h, b0, b1, m)
    BY <1>6, <2>2, JoinBoxesIs
  <2> QED
    BY <2>1, <2>3 DEF BoxesJoined
<1>8. h \in Frames /\ f.B[b0] \in BoxSet /\ f.B[b1] \in BoxSet
  BY <1>6, <1>7, NextIndexType DEF OnlyB
<1>9. PICK z : z = h.B[b0]
  OBVIOUS
<1>10. z.kind = "text" /\ z.prev = f.B[b0].prev /\ z.next = n
  BY <1>7, <1>8, <1>9, JoinedIs
<1>11. h.B[b1].kind = "text" /\ h.B[b1].prev = -1 /\ h.B[b1].next = f.freeB
  BY <1>4, <1>7, <1>8 DEF BoxSet
<1>12. n # 0 => h.B[n].prev = b0 /\ h.B[n].next = f.B[n].next /\ SameText(f.B[n], h.B[n])
  <2> HAVE n # 0
  <2>1. f.B[n] \in BoxSet /\ b0 \in Int
    BY <1>1, <1>5, NextIndexType
  <2> QED
    BY <1>7, <2>1, PrevField
<1>13. \A x \in 1 .. Len(f.B) : x # b0 /\ x # b1 =>
          SameText(f.B[x], h.B[x]) /\ h.B[x].next = f.B[x].next
  BY <1>7, <1>12, SMTT(30) DEF SameText
<1>14. NextIndex(h, b0) = n /\ NextIndex(h, b1) = f.freeB
       /\ \A x \in 1 .. Len(f.B) : x # b0 /\ x # b1 => NextIndex(h, x) = NextIndex(f, x)
  BY <1>9, <1>10, <1>11, <1>13 DEF NextIndex, SameText
<1>15. \A x \in 1 .. Len(f.B) : NextB(h)[x] = NextIndex(h, x) /\ PrevB(h)[x] = h.B[x].prev
  BY <1>7, <1>8, LinksB
<1>16. Agree(O, FirstB(f), FirstB(h))
  <2>1. h.L = f.L
    BY <1>7 DEF OnlyB, SameL
  <2> QED
    BY <2>1 DEF FirstB, Agree
<1>17. PICK N : N = Len(f.B)
  OBVIOUS
<1>18. LayerRemoves(N, X, O, own, rank, FirstB(f), next, prev, f.freeB, b1, FirstB(h), NextB(h),
    PrevB(h), X2, own2, rank2)
  <2>1. b1 \in X /\ prev[b1] # 0 /\ \A o \in O : FirstB(h)[o] = FirstB(f)[o]
    <3>1. b0 # 0
      BY <1>6
    <3>2. \A o \in O : FirstB(h)[o] = FirstB(f)[o]
      BY <1>16 DEF Agree
    <3> QED
      BY <1>3, <3>1, <3>2
  <2>2. NextB(h)[b1] = f.freeB /\ PrevB(h)[b1] = -1
    BY <1>6, <1>11, <1>14, <1>15
  <2>3. \A x \in 1 .. N : x # b1 => NextB(h)[x] = IF x = prev[b1] THEN next[b1] ELSE next[x]
    <3>1. \A x \in 1 .. Len(f.B) : next[x] = NextIndex(f, x)
      BY LinksB
    <3> QED
      BY <1>3, <1>5, <1>14, <1>15, <1>17, <3>1
  <2>4. \A x \in 1 .. N : x # b1 => PrevB(h)[x] = IF x = next[b1] THEN prev[b1] ELSE prev[x]
    <3>1. \A x \in 1 .. Len(f.B) : prev[x] = f.B[x].prev
      BY LinksB
    <3>2. \A x \in 1 .. Len(f.B) : x # b1 => h.B[x].prev = IF x = n THEN b0 ELSE f.B[x].prev
      BY <1>7, <1>9, <1>10, <1>12
    <3> QED
      BY <1>3, <1>5, <1>15, <1>17, <3>1, <3>2
  <2>5. own2 \in [X2 -> O] /\ \A x \in X2 : own2[x] = own[x]
    BY <1>0, <1>1, <1>a
  <2>6. rank2 \in [X2 -> Nat \ {0}] /\ \A x \in X2 : rank2[x] =
          IF own[x] = own[b1] /\ rank[x] > rank[b1] THEN rank[x] - 1 ELSE rank[x]
    <3>1. \A x \in X2 : rank2[x] = IF own[x] = own[b1] /\ rank[x] > rank[b1] THEN rank[x] - 1 ELSE rank[x]
      BY <1>b DEF BRemoveRank
    <3>2. \A x \in X2 : rank2[x] \in Nat \ {0}
      BY <1>0, <1>1, <1>3, <3>1
    <3>3. rank2 = [x \in X2 |-> rank2[x]]
      BY <1>b
    <3> HIDE DEF next, prev
    <3> QED
      BY <3>1, <3>2, <3>3
  <2> HIDE DEF next, prev
  <2> QED
    BY <1>0, <2>1, <2>2, <2>3, <2>4, <2>5, <2>6 DEF LayerRemoves
<1>19. BLayer(h, O, X2, own2, rank2)
  <2>1. Layer(X, O, own, rank, FirstB(f), next, prev, f.freeB, N)
    BY <1>17 DEF BLayer
  <2>2. Layer(X2, O, own2, rank2, FirstB(h), NextB(h), PrevB(h), b1, N)
    <3> HIDE DEF next, prev
    <3> QED
      BY <1>18, <2>1, LayerRemove
  <2> QED
    BY <1>7, <1>17, <2>2 DEF BLayer
<1>20. \A x \in X2 : x # b0 => SameText(f.B[x], h.B[x]) /\ NextIndex(h, x) = NextIndex(f, x)
  BY <1>0, <1>1, <1>13, <1>14
<1>21. NextIndex(h, b0) = NextIndex(f, b1)
  BY <1>3, <1>5, <1>14, LinksB, <1>6
<1>22. own2 \in [X2 -> O] /\ \A x \in X2 : own2[x] = own[x]
  BY <1>18 DEF LayerRemoves
<1>23. rank2 \in [X2 -> Nat \ {0}] /\ \A x \in X2 : rank2[x] = BRemoveRank(own, rank, b1, x)
  BY <1>18, <1>b DEF LayerRemoves
<1>24. BTaken(f, h, O, X, own, rank, b0, b1, X2, own2, rank2)
  BY <1>0, <1>3, <1>7, <1>19, <1>20, <1>21, <1>22, <1>23 DEF BTaken
<1> QED
  BY <1>24

\* The place in its list of an element when y was put after b.
InsertRank(rank, own, b, y, x) ==
  IF x = y THEN rank[b] + 1
  ELSE IF own[x] = own[b] /\ rank[x] > rank[b] THEN rank[x] + 1 ELSE rank[x]

\* A box y is put after box b of the same list.
BInserted(f, h, O, X, own, rank, b, y, X2, own2, rank2) ==
  /\ OnlyB(f, h) /\ BLayer(h, O, X2, own2, rank2)
  /\ y \notin X /\ y # 0 /\ Len(f.B) <= Len(h.B) /\ Len(h.B) <= Len(f.B) + 1
  /\ X2 = X \cup {y}
  /\ own2 \in [X2 -> O] /\ own2[y] = own[b] /\ \A x \in X : own2[x] = own[x]
  /\ rank2 \in [X2 -> Nat \ {0}] /\ rank2[y] = rank[b] + 1
  /\ \A x \in X : rank2[x] = IF own[x] = own[b] /\ rank[x] > rank[b] THEN rank[x] + 1 ELSE rank[x]
  /\ NextIndex(h, b) = y /\ NextIndex(h, y) = NextIndex(f, b)
  /\ \A x \in X : x # b => NextIndex(h, x) = NextIndex(f, x) /\ SameText(f.B[x], h.B[x])

\* The frame h after box y was taken and put after b, whatever text each has now.
BPut(f, h, b, y) ==
  /\ OnlyB(f, h) /\ Len(h.B) = IF y <= Len(f.B) THEN Len(f.B) ELSE y
  /\ h.freeB = IF f.freeB = 0 THEN 0 ELSE NextIndex(f, f.freeB)
  /\ NextIndex(h, b) = y /\ NextIndex(h, y) = NextIndex(f, b)
  /\ h.B[b].prev = f.B[b].prev /\ h.B[y].prev = b
  /\ NextIndex(f, b) # 0 => h.B[NextIndex(f, b)].prev = y
  /\ \A k \in 1 .. Len(f.B) : k # b /\ k # y =>
       /\ NextIndex(h, k) = NextIndex(f, k) /\ SameText(f.B[k], h.B[k])
       /\ k # NextIndex(f, b) => h.B[k].prev = f.B[k].prev

\* A box taken and linked after another one is in its line there.
LEMMA BInsert ==
  ASSUME NEW f \in Frames, NEW O, NEW X, NEW own, NEW rank, BLayer(f, O, X, own, rank),
         O \subseteq 1 .. Len(f.L),
         NEW b \in X, NEW y, y = Slot(f.freeB, f.B), NEW h, BPut(f, h, b, y)
  PROVE  \E X2, own2, rank2 : BInserted(f, h, O, X, own, rank, b, y, X2, own2, rank2)
<1> DEFINE next == NextB(f)
           prev == PrevB(f)
<1>1. /\ X \subseteq 1 .. Len(f.B) /\ Len(f.B) \in Nat /\ f.freeB \in 0 .. Len(f.B)
      /\ Live(X, O, own, rank, FirstB(f), next, prev)
      /\ own \in [X -> O] /\ rank \in [X -> Nat \ {0}]
      /\ \A x \in X : next[x] = NextIndex(f, x) /\ prev[x] = f.B[x].prev
      /\ y = SlotAt(f.freeB, Len(f.B)) /\ y \notin X
  BY BLayerFacts DEF Slot, SlotAt
<1>2. y \in 1 .. Len(f.B) + 1 /\ y # 0 /\ b # y /\ b \in 1 .. Len(f.B)
  BY <1>1 DEF SlotAt
<1>3. PICK m : m = Len(h.B)
  OBVIOUS
<1>4. m \in Nat /\ Len(f.B) <= m /\ y <= m /\ m <= Len(f.B) + 1 /\ h \in Frames /\ h.L = f.L
  <2>1. m = (IF y <= Len(f.B) THEN Len(f.B) ELSE y) /\ OnlyB(f, h)
    BY <1>3 DEF BPut
  <2>2. h \in Frames /\ h.L = f.L
    BY <2>1 DEF OnlyB, SameL
  <2> QED
    BY <1>1, <1>2, <2>1, <2>2
<1>5. \A x \in 1 .. m : NextB(h)[x] = NextIndex(h, x) /\ PrevB(h)[x] = h.B[x].prev
  BY <1>3, <1>4, LinksB
<1>6. \A x \in 1 .. Len(f.B) : next[x] = NextIndex(f, x) /\ prev[x] = f.B[x].prev
  BY LinksB
<1>7. Agree(O, FirstB(f), FirstB(h))
  BY <1>4 DEF FirstB, Agree
<1>8. PICK X2 : X2 = X \cup {y}
  OBVIOUS
<1>9. PICK own2 : own2 = [x \in X2 |-> IF x = y THEN own[b] ELSE own[x]]
  OBVIOUS
<1>10. PICK rank2 : rank2 = [x \in X2 |-> InsertRank(rank, own, b, y, x)]
  OBVIOUS
<1>11. own2 \in [X2 -> O] /\ own2[y] = own[b] /\ \A x \in X : own2[x] = own[x]
  BY <1>1, <1>8, <1>9
<1>12. /\ rank2 \in [X2 -> Nat \ {0}] /\ rank2[y] = rank[b] + 1
       /\ \A x \in X : rank2[x] = IF own[x] = own[b] /\ rank[x] > rank[b] THEN rank[x] + 1 ELSE rank[x]
  <2>1. y \in X2 /\ \A x \in X : x \in X2 /\ x # y
    BY <1>1, <1>8
  <2>2. rank2[y] = rank[b] + 1
    BY <1>10, <2>1 DEF InsertRank
  <2>3. \A x \in X : rank2[x] = IF own[x] = own[b] /\ rank[x] > rank[b] THEN rank[x] + 1 ELSE rank[x]
    BY <1>10, <2>1 DEF InsertRank
  <2>4. \A x \in X2 : rank2[x] \in Nat \ {0}
    BY <1>1, <1>8, <2>2, <2>3
  <2>5. rank2 = [x \in X2 |-> rank2[x]]
    BY <1>10
  <2> QED
    BY <2>2, <2>3, <2>4, <2>5
<1>13. PICK top2 : top2 = h.freeB
  OBVIOUS
<1>14. PICK N, top : N = Len(f.B) /\ top = f.freeB
  OBVIOUS
<1>15. top2 = IF top = 0 THEN 0 ELSE next[top]
  BY <1>1, <1>6, <1>13, <1>14 DEF BPut
<1>16. LayerInserts(N, X, O, own, rank, FirstB(f), next, prev, top, b, y, m, top2,
                    FirstB(h), NextB(h), PrevB(h), X2, own2, rank2)
  <2>1. y = SlotAt(top, N) /\ m \in Nat /\ N <= m /\ y <= m
    BY <1>1, <1>4, <1>14
  <2>2. \A o \in O : FirstB(h)[o] = FirstB(f)[o]
    BY <1>7 DEF Agree
  <2>3. NextB(h)[b] = y /\ NextB(h)[y] = next[b]
    BY <1>2, <1>4, <1>5, <1>6 DEF BPut
  <2>4. \A x \in 1 .. N : x # b /\ x # y => NextB(h)[x] = next[x]
    BY <1>4, <1>5, <1>6, <1>14 DEF BPut
  <2>5. PrevB(h)[y] = b /\ (next[b] # 0 => PrevB(h)[next[b]] = y)
    <3>1. PrevB(h)[y] = b
      BY <1>2, <1>4, <1>5 DEF BPut
    <3>2. next[b] # 0 => next[b] \in 1 .. m
      BY <1>1, <1>4, LiveNext
    <3> QED
      BY <1>2, <1>5, <1>6, <3>1, <3>2 DEF BPut
  <2>6. \A x \in 1 .. N : x # y /\ x # next[b] => PrevB(h)[x] = prev[x]
    BY <1>2, <1>4, <1>5, <1>6, <1>14 DEF BPut
  <2> HIDE DEF next, prev
  <2> QED
    BY <1>8, <1>11, <1>12, <1>15, <2>1, <2>2, <2>3, <2>4, <2>5, <2>6 DEF LayerInserts
<1>17. BLayer(h, O, X2, own2, rank2)
  <2>1. Layer(X, O, own, rank, FirstB(f), next, prev, top, N)
    BY <1>14 DEF BLayer
  <2>2. Layer(X2, O, own2, rank2, FirstB(h), NextB(h), PrevB(h), top2, m)
    <3> HIDE DEF next, prev
    <3> QED
      BY <1>16, <2>1, LayerInsert
  <2> QED
    BY <1>3, <1>13, <2>2 DEF BLayer
<1>18. /\ OnlyB(f, h) /\ NextIndex(h, b) = y /\ NextIndex(h, y) = NextIndex(f, b)
       /\ \A x \in X : x # b => NextIndex(h, x) = NextIndex(f, x) /\ SameText(f.B[x], h.B[x])
  BY <1>1 DEF BPut
<1>19. BInserted(f, h, O, X, own, rank, b, y, X2, own2, rank2)
  BY <1>1, <1>2, <1>3, <1>4, <1>8, <1>11, <1>12, <1>17, <1>18 DEF BInserted
<1> QED
  BY <1>19

\* A new box goes after the last one of a line.
LEMMA BAppend ==
  ASSUME NEW f \in Frames, NEW O, NEW X, NEW own, NEW rank, BLayer(f, O, X, own, rank),
         O \subseteq 1 .. Len(f.L),
         NEW b \in X, NextIndex(f, b) = 0, f.B[b].kind # "line",
         NEW box \in BoxSet, box.next = 0,
         NEW y, y = Slot(f.freeB, f.B), NEW h, h = LinkBoxes(AddBox(f, box), b, y)
  PROVE  /\ \E X2, own2, rank2 : BInserted(f, h, O, X, own, rank, b, y, X2, own2, rank2)
         /\ SameText(f.B[b], h.B[b]) /\ SameText(box, h.B[y])
<1>1. /\ X \subseteq 1 .. Len(f.B) /\ f.freeB <= Len(f.B) /\ y \notin X
      /\ \A x \in X : f.B[x] \in BoxSet
      /\ Len(f.B) \in Nat /\ b # y
  BY BLayerFacts DEF Slot, SlotAt
<1>2. PICK g : g = AddBox(f, box)
  OBVIOUS
<1>3. /\ OnlyB(f, g) /\ y \in 1 .. Len(f.B) + 1
      /\ Len(g.B) = (IF y <= Len(f.B) THEN Len(f.B) ELSE y)
      /\ g.B[y] = box /\ (\A k \in 1 .. Len(f.B) : k # y => g.B[k] = f.B[k])
      /\ g.freeB = IF f.freeB = 0 THEN 0 ELSE NextIndex(f, f.freeB)
  BY <1>1, <1>2, AddBoxIs
<1>4. g \in Frames /\ b \in 1 .. Len(g.B) /\ y \in 1 .. Len(g.B) /\ g.B[b] = f.B[b]
  BY <1>1, <1>3 DEF OnlyB
<1>5. /\ OnlyB(g, h) /\ Len(h.B) = Len(g.B) /\ h.freeB = g.freeB
      /\ h.B[b] = [g.B[b] EXCEPT !.next = y] /\ h.B[y] = [g.B[y] EXCEPT !.prev = b]
      /\ \A k \in 1 .. Len(g.B) : k # b /\ k # y => h.B[k] = g.B[k]
  BY <1>1, <1>2, <1>4, LinkBoxesIs
<1>6. h.B[b].next = y /\ h.B[b].prev = f.B[b].prev /\ SameText(f.B[b], h.B[b])
  BY <1>1, <1>3, <1>4, <1>5, NextField
<1>7. h.B[y].prev = b /\ h.B[y].next = 0 /\ SameText(box, h.B[y])
  BY <1>1, <1>3, <1>5, PrevField
<1>8. NextIndex(h, b) = y /\ NextIndex(h, y) = 0
  BY <1>6, <1>7 DEF NextIndex, SameText
<1>9. \A k \in 1 .. Len(f.B) : k # b /\ k # y =>
        NextIndex(h, k) = NextIndex(f, k) /\ SameText(f.B[k], h.B[k]) /\ h.B[k].prev = f.B[k].prev
  <2>1. \A k \in 1 .. Len(f.B) : k # b /\ k # y => h.B[k] = f.B[k]
    BY <1>3, <1>5
  <2> QED
    BY <2>1 DEF NextIndex, SameText
<1>10. BPut(f, h, b, y)
  <2>1. OnlyB(f, h)
    BY <1>3, <1>5, OnlyBTwice
  <2> QED
    BY <1>3, <1>5, <1>6, <1>7, <1>8, <1>9, <2>1 DEF BPut
<1>11. \E X2, own2, rank2 : BInserted(f, h, O, X, own, rank, b, y, X2, own2, rank2)
  BY <1>10, BInsert
<1> QED
  BY <1>6, <1>7, <1>11

\* The first box of line l is set, and nothing else changes.
OneFirst(f, h, l, b) ==
  /\ h \in Frames /\ SameP(f, h) /\ SameB(f, h) /\ SameT(f, h) /\ SameC(f, h)
  /\ h.freeL = f.freeL /\ Len(h.L) = Len(f.L)
  /\ h.L[l].firstB = b /\ h.L[l].next = f.L[l].next /\ h.L[l].prev = f.L[l].prev
  /\ \A k \in 1 .. Len(f.L) : k # l => h.L[k] = f.L[k]

\* Setting the first box of a line changes nothing else.
LEMMA SetFirstIs ==
  ASSUME NEW f \in Frames, NEW l \in 1 .. Len(f.L), NEW b \in Nat, NEW h,
         h = [f EXCEPT !.L[l].firstB = b]
  PROVE  OneFirst(f, h, l, b)
<1>1. f.L \in Seq(LineSet) /\ f.L[l] \in LineSet
  BY DEF Frames
<1>2. PICK x : x = [f.L[l] EXCEPT !.firstB = b]
  OBVIOUS
<1>3. x \in LineSet /\ x.firstB = b /\ x.next = f.L[l].next /\ x.prev = f.L[l].prev
  BY <1>1, <1>2 DEF LineSet
<1>4. PICK s : s = [f.L EXCEPT ![l] = x]
  OBVIOUS
<1>5. s \in Seq(LineSet) /\ Len(s) = Len(f.L) /\ s[l] = x /\ \A k \in 1 .. Len(f.L) : k # l =>
    s[k] = f.L[k]
  BY <1>1, <1>3, <1>4
<1>6. h = [f EXCEPT !.L = s]
  BY <1>2, <1>4 DEF Frames
<1>7. h \in Frames /\ h.L = s /\ h.freeL = f.freeL
  BY <1>5, <1>6 DEF Frames
<1>8. SameP(f, h) /\ SameB(f, h) /\ SameT(f, h) /\ SameC(f, h)
  BY <1>6 DEF Frames, SameP, SameB, SameT, SameC
<1> QED
  BY <1>3, <1>5, <1>7, <1>8 DEF OneFirst

\* A box with another end, width and next one, and what is left of it as a new box.
IsHead(x, j, w, n, y) == y = [x EXCEPT !.j = j, !.w = w, !.next = n]
\* The part of a split box that stays.
LEMMA HeadField ==
  ASSUME NEW x \in BoxSet, NEW j \in Nat, NEW w \in Int, NEW n \in Nat, NEW y, IsHead(x, j, w, n, y)
  PROVE  /\ y \in BoxSet /\ y.next = n /\ y.prev = x.prev /\ y.kind = x.kind /\ y.color = x.color
         /\ y.i = x.i /\ y.j = j /\ y.w = w
BY DEF BoxSet, IsHead

IsTail(x, i, w, p, y) == y = [x EXCEPT !.i = i, !.w = w, !.prev = p]
\* The part of a split box that goes to a new one.
LEMMA TailField ==
  ASSUME NEW x \in BoxSet, NEW i \in Nat, NEW w \in Int, NEW p \in Int, NEW y, IsTail(x, i, w, p, y)
  PROVE  /\ y \in BoxSet /\ y.next = x.next /\ y.prev = p /\ y.kind = x.kind /\ y.color = x.color
         /\ y.i = i /\ y.j = x.j /\ y.w = w
BY DEF BoxSet, IsTail

\* Setting the previous one of a box, if there is a box.
LEMMA SetPrevBIs ==
  ASSUME NEW f \in Frames, NEW n \in 0 .. Len(f.B), NEW p \in Int, NEW h, h = SetPrev(f, n, p)
  PROVE  /\ OnlyB(f, h) /\ Len(h.B) = Len(f.B) /\ h.freeB = f.freeB
         /\ n # 0 => h.B[n].prev = p /\ h.B[n].next = f.B[n].next /\ SameText(f.B[n], h.B[n])
         /\ \A k \in 1 .. Len(f.B) : k # n => h.B[k] = f.B[k]
<1>1. CASE n = 0
  <2>1. h = f
    BY <1>1 DEF SetPrev
  <2> QED
    BY <1>1, <2>1 DEF OnlyB, SameP, SameL, SameT, SameC
<1>2. CASE n # 0
  <2>1. n \in 1 .. Len(f.B) /\ h = [f EXCEPT !.B[n].prev = p]
    BY <1>2 DEF SetPrev
  <2>2. OneBox(f, h, n, [f.B[n] EXCEPT !.prev = p]) /\ h.freeB = f.freeB
    BY <2>1, SetPrevIs
  <2>3. PICK y : y = [f.B[n] EXCEPT !.prev = p]
    OBVIOUS
  <2>4. y.prev = p /\ y.next = f.B[n].next /\ SameText(f.B[n], y)
    BY <2>1, <2>3, NextIndexType, PrevField
  <2> QED
    BY <2>2, <2>3, <2>4 DEF OneBox
<1> QED
  BY <1>1, <1>2

\* Text box b ends at the pivot, and a new box y after it has the rest.
BSplitInto(f, h, O, X, own, rank, b, y, pivot, w) ==
  /\ \E X2, own2, rank2 : BInserted(f, h, O, X, own, rank, b, y, X2, own2, rank2)
  /\ h.B[b].kind = "text" /\ h.B[b].i = f.B[b].i /\ h.B[b].j = pivot /\ h.B[b].w = w
  /\ h.B[y].kind = "text" /\ h.B[y].i = pivot /\ h.B[y].j = f.B[b].j /\ h.B[y].w = f.B[b].w - w

\* A split box is two neighbours of the line.
LEMMA BSplit ==
  ASSUME NEW f \in Frames, NEW O, NEW X, NEW own, NEW rank, BLayer(f, O, X, own, rank),
         O \subseteq 1 .. Len(f.L),
         NEW b \in X, f.B[b].kind = "text", NEW pivot \in Nat, NEW w \in Int,
         NEW y, y = Slot(f.freeB, f.B), NEW h, h = SplitAt(f, b, f.B[b], pivot, w)
  PROVE  BSplitInto(f, h, O, X, own, rank, b, y, pivot, w)
<1>1. /\ X \subseteq 1 .. Len(f.B) /\ f.freeB <= Len(f.B) /\ y \notin X /\ y \in Nat /\ y # 0
      /\ \A x \in X : f.B[x] \in BoxSet /\ NextIndex(f, x) \in 0 .. Len(f.B)
      /\ Len(f.B) \in Nat /\ b # y /\ b \in 1 .. Len(f.B)
  BY BLayerFacts DEF Slot, SlotAt
<1>2. PICK x : x = f.B[b]
  OBVIOUS
<1>3. x \in BoxSet /\ x.kind = "text" /\ x.w - w \in Int /\ b \in Int /\ x.next \in Nat
  BY <1>1, <1>2 DEF BoxSet
<1>4. PICK tail : tail = [x EXCEPT !.i = pivot, !.w = x.w - w, !.prev = b]
  OBVIOUS
<1>5. PICK head : head = [x EXCEPT !.j = pivot, !.w = w, !.next = y]
  OBVIOUS
<1>6. /\ tail \in BoxSet /\ tail.next = x.next /\ tail.prev = b /\ tail.kind = "text"
      /\ tail.i = pivot /\ tail.j = x.j /\ tail.w = x.w - w
  <2>1. PICK v : v = x.w - w
    OBVIOUS
  <2>2. v \in Int /\ IsTail(x, pivot, v, b, tail)
    BY <1>3, <1>4, <2>1 DEF IsTail
  <2>3. /\ tail \in BoxSet /\ tail.next = x.next /\ tail.prev = b /\ tail.kind = x.kind
        /\ tail.i = pivot /\ tail.j = x.j /\ tail.w = v
    BY <1>3, <2>2, TailField
  <2> QED
    BY <1>3, <2>1, <2>3
<1>7. /\ head \in BoxSet /\ head.next = y /\ head.prev = x.prev /\ head.kind = "text"
      /\ head.i = x.i /\ head.j = pivot /\ head.w = w
  <2>1. /\ head \in BoxSet /\ head.next = y /\ head.prev = x.prev /\ head.kind = x.kind
        /\ head.i = x.i /\ head.j = pivot /\ head.w = w
    <3>1. IsHead(x, pivot, w, y, head)
      BY <1>5 DEF IsHead
    <3> QED
      BY <1>1, <1>3, <3>1, HeadField
  <2> QED
    BY <1>3, <2>1
<1>8. PICK g : g = AddBox(f, tail)
  OBVIOUS
<1>9. /\ OnlyB(f, g) /\ y \in 1 .. Len(f.B) + 1
      /\ Len(g.B) = (IF y <= Len(f.B) THEN Len(f.B) ELSE y)
      /\ g.B[y] = tail /\ (\A k \in 1 .. Len(f.B) : k # y => g.B[k] = f.B[k])
      /\ g.freeB = IF f.freeB = 0 THEN 0 ELSE NextIndex(f, f.freeB)
  BY <1>1, <1>6, <1>8, AddBoxIs
<1>10. g \in Frames /\ b \in 1 .. Len(g.B) /\ y \in 1 .. Len(g.B) /\ Len(f.B) <= Len(g.B) /\ Len(g.B) \in Nat
  BY <1>1, <1>9 DEF OnlyB
<1>11. PICK k : k = [g EXCEPT !.B[b] = head]
  OBVIOUS
<1>12. OneBox(g, k, b, head) /\ k.freeB = g.freeB
  BY <1>7, <1>10, <1>11, SetBoxIs
<1>13. NextIndex(f, b) = x.next /\ x.next \in 0 .. Len(f.B)
  BY <1>1, <1>2, <1>3 DEF NextIndex
<1>14. k \in Frames /\ x.next \in 0 .. Len(k.B) /\ y \in Int
  BY <1>1, <1>10, <1>12, <1>13 DEF OneBox, OnlyB
<1>15. h = SetPrev(k, x.next, y)
  BY <1>2, <1>4, <1>5, <1>8, <1>11 DEF SplitAt
<1>16. PICK n : n = x.next
  OBVIOUS
<1>17. /\ OnlyB(k, h) /\ Len(h.B) = Len(k.B) /\ h.freeB = k.freeB
       /\ n # 0 => h.B[n].prev = y /\ h.B[n].next = k.B[n].next /\ SameText(k.B[n], h.B[n])
       /\ \A i \in 1 .. Len(k.B) : i # n => h.B[i] = k.B[i]
  BY <1>14, <1>15, <1>16, SetPrevBIs
<1>18. n # b /\ n # y /\ (n # 0 => n \in X)
  <2>1. Live(X, O, own, rank, FirstB(f), NextB(f), PrevB(f)) /\ NextB(f)[b] = n
    BY <1>13, <1>16, BLayerFacts
  <2>2. n # 0 => n \in X /\ n # b
    BY <2>1, LiveNext
  <2> QED
    BY <1>1, <2>2
<1>19. h.B[b] = head /\ h.B[y] = tail
  BY <1>1, <1>9, <1>10, <1>12, <1>17, <1>18 DEF OneBox
<1>20. \A i \in 1 .. Len(f.B) : i # b /\ i # y =>
         /\ SameText(f.B[i], h.B[i]) /\ h.B[i].next = f.B[i].next
         /\ i # n => h.B[i].prev = f.B[i].prev
  <2>1. \A i \in 1 .. Len(f.B) : i # b /\ i # y => k.B[i] = f.B[i]
    BY <1>9, <1>10, <1>12 DEF OneBox
  <2>2. \A i \in 1 .. Len(f.B) : i \in 1 .. Len(k.B)
    BY <1>10, <1>12 DEF OneBox
  <2>3. \A i \in 1 .. Len(f.B) : i # b /\ i # y /\ i # n => h.B[i] = f.B[i]
    BY <1>17, <2>1, <2>2
  <2>4. n # 0 => n \in 1 .. Len(f.B) /\ k.B[n] = f.B[n]
    BY <1>1, <1>18, <2>1
  <2> QED
    BY <1>17, <2>3, <2>4, SMTT(30) DEF SameText
<1>21. BPut(f, h, b, y)
  <2>1. OnlyB(f, h)
    BY <1>9, <1>12, <1>17, OnlyBTwice DEF OneBox
  <2>2. Len(h.B) = (IF y <= Len(f.B) THEN Len(f.B) ELSE y)
        /\ h.freeB = IF f.freeB = 0 THEN 0 ELSE NextIndex(f, f.freeB)
    BY <1>9, <1>12, <1>17 DEF OneBox
  <2>3. NextIndex(h, b) = y /\ NextIndex(h, y) = NextIndex(f, b)
    BY <1>6, <1>7, <1>13, <1>19 DEF NextIndex
  <2>4. h.B[b].prev = f.B[b].prev /\ h.B[y].prev = b
    BY <1>2, <1>6, <1>7, <1>19
  <2>5. NextIndex(f, b) # 0 => h.B[NextIndex(f, b)].prev = y
    BY <1>13, <1>16, <1>17
  <2>6. \A i \in 1 .. Len(f.B) : i # b /\ i # y =>
       /\ NextIndex(h, i) = NextIndex(f, i) /\ SameText(f.B[i], h.B[i])
       /\ i # NextIndex(f, b) => h.B[i].prev = f.B[i].prev
    BY <1>13, <1>16, <1>20 DEF NextIndex, SameText
  <2> QED
    BY <2>1, <2>2, <2>3, <2>4, <2>5, <2>6 DEF BPut
<1>22. \E X2, own2, rank2 : BInserted(f, h, O, X, own, rank, b, y, X2, own2, rank2)
  BY <1>21, BInsert
<1> QED
  BY <1>2, <1>6, <1>7, <1>19, <1>22 DEF BSplitInto

\* What follows box b goes to a line l that has no boxes.
BCutOff(f, h, O, X, own, rank, b, l, O2, own2, rank2) ==
  /\ OneFirst([f EXCEPT !.B = h.B], h, l, NextIndex(f,
      b)) /\ Len(h.B) = Len(f.B) /\ h.freeB = f.freeB
  /\ BLayer(h, O2, X, own2, rank2)
  /\ O2 = O \cup {l}
  /\ own2 \in [X -> O2]
  /\ \A x \in X : own2[x] = IF own[x] = own[b] /\ rank[x] > rank[b] THEN l ELSE own[x]
  /\ rank2 \in [X -> Nat \ {0}]
  /\ \A x \in X : rank2[x] = IF own[x] = own[b] /\ rank[x] > rank[b] THEN rank[x] - rank[b] ELSE rank[x]
  /\ \A x \in X : SameText(f.B[x], h.B[x])
  /\ \A x \in X : NextIndex(h, x) = IF x = b THEN 0 ELSE NextIndex(f, x)

IsCut(f, h, b, rest, l) == h = [SetPrev(f, rest, 0) EXCEPT !.B[b].next = 0, !.L[l].firstB = rest]

\* A line cut after a box is two lines.
LEMMA BCut ==
  ASSUME NEW f \in Frames, NEW O, NEW X, NEW own, NEW rank, BLayer(f, O, X, own, rank),
         O \subseteq 1 .. Len(f.L),
         NEW b \in X, NEW rest, rest = NextIndex(f, b), rest # 0,
         NEW l \in 1 .. Len(f.L), l \notin O,
         NEW h, IsCut(f, h, b, rest, l)
  PROVE  \E O2, own2, rank2 : BCutOff(f, h, O, X, own, rank, b, l, O2, own2, rank2)
<1>1. /\ X \subseteq 1 .. Len(f.B) /\ Len(f.B) \in Nat /\ f.freeB \in 0 .. Len(f.B)
      /\ Live(X, O, own, rank, FirstB(f), NextB(f), PrevB(f))
      /\ own \in [X -> O] /\ rank \in [X -> Nat \ {0}]
      /\ \A x \in X : NextB(f)[x] = NextIndex(f,
          x) /\ PrevB(f)[x] = f.B[x].prev /\ x \in 1 .. Len(f.B)
      /\ rest \in 0 .. Len(f.B)
  BY BLayerFacts
<1>2. f.B[b].kind # "line"
  BY DEF NextIndex
<1>3. rest \in X /\ rest # b /\ rest \in 1 .. Len(f.B) /\ b \in 1 .. Len(f.B) /\ PrevB(f)[rest] = b
      /\ 0 \in Int /\ rest \in Nat
  BY <1>1, LiveNext
<1>4. PICK g : g = SetPrev(f, rest, 0)
  OBVIOUS
<1>5. /\ OnlyB(f, g) /\ Len(g.B) = Len(f.B) /\ g.freeB = f.freeB
      /\ g.B[rest].prev = 0 /\ g.B[rest].next = f.B[rest].next /\ SameText(f.B[rest], g.B[rest])
      /\ \A k \in 1 .. Len(f.B) : k # rest => g.B[k] = f.B[k]
  BY <1>1, <1>3, <1>4, SetPrevBIs, SMTT(30)
<1>6. PICK k : k = [g EXCEPT !.B[b].next = 0]
  OBVIOUS
<1>7. OneBox(g, k, b, [g.B[b] EXCEPT !.next = 0]) /\ k.freeB = g.freeB /\ g \in Frames
  <2>1. PICK zero \in Nat : zero = 0
    OBVIOUS
  <2>2. g \in Frames /\ b \in 1 .. Len(g.B) /\ k = [g EXCEPT !.B[b].next = zero]
    BY <1>3, <1>5, <1>6, <2>1 DEF OnlyB
  <2>3. OneBox(g, k, b, [g.B[b] EXCEPT !.next = zero]) /\ k.freeB = g.freeB
    BY <2>2, SetNextIs, SMTT(40)
  <2> QED
    BY <2>1, <2>2, <2>3
<1>8. PICK z : z = [g.B[b] EXCEPT !.next = 0]
  OBVIOUS
<1>9. z.next = 0 /\ z.prev = f.B[b].prev /\ SameText(f.B[b], z)
  <2>1. g.B[b] \in BoxSet /\ g.B[b] = f.B[b]
    BY <1>3, <1>5, NextIndexType
  <2> QED
    BY <1>8, <2>1, NextField
<1>10. k \in Frames /\ k.L = f.L /\ k.B[b] = z /\ Len(k.B) = Len(f.B)
       /\ \A x \in 1 .. Len(f.B) : x # b => k.B[x] = g.B[x]
  BY <1>5, <1>7, <1>8 DEF OneBox, OnlyB, SameL
<1>11. h = [k EXCEPT !.L[l].firstB = rest]
  BY <1>4, <1>6 DEF IsCut
<1>12. OneFirst(k, h, l, rest)
  <2>1. l \in 1 .. Len(k.L)
    BY <1>10
  <2> QED
    BY <1>3, <1>10, <1>11, <2>1, SetFirstIs
<1>13. h \in Frames /\ h.B = k.B /\ h.freeB = f.freeB /\ Len(h.L) = Len(f.L)
       /\ h.L[l].firstB = rest /\ \A i \in 1 .. Len(f.L) : i # l => h.L[i] = f.L[i]
  BY <1>5, <1>7, <1>10, <1>12 DEF OneFirst, SameB
<1>14. \A x \in 1 .. Len(f.B) : /\ SameText(f.B[x], h.B[x])
                               /\ h.B[x].next = (IF x = b THEN 0 ELSE f.B[x].next)
                               /\ h.B[x].prev = (IF x = rest THEN 0 ELSE f.B[x].prev)
  <2>1. SameText(f.B[b], h.B[b]) /\ h.B[b].next = 0 /\ h.B[b].prev = f.B[b].prev
    BY <1>9, <1>10, <1>13
  <2>2. SameText(f.B[rest], h.B[rest]) /\ h.B[rest].next = f.B[rest].next /\ h.B[rest].prev = 0
    BY <1>3, <1>5, <1>10, <1>13
  <2>3. \A x \in 1 .. Len(f.B) : x # b /\ x # rest => h.B[x] = f.B[x]
    BY <1>5, <1>10, <1>13
  <2> QED
    BY <1>3, <2>1, <2>2, <2>3 DEF SameText
<1>15. \A x \in 1 .. Len(f.B) : NextIndex(h, x) = IF x = b THEN 0 ELSE NextIndex(f, x)
  <2> SUFFICES ASSUME NEW x \in 1 .. Len(f.B) PROVE NextIndex(h,
      x) = IF x = b THEN 0 ELSE NextIndex(f, x)
    OBVIOUS
  <2>1. h.B[x].kind = f.B[x].kind /\ h.B[x].next = IF x = b THEN 0 ELSE f.B[x].next
    BY <1>14 DEF SameText
  <2> QED
    BY <1>2, <2>1 DEF NextIndex
<1>16. PICK O2 : O2 = O \cup {l}
  OBVIOUS
<1>17. PICK own2 : own2 = [x \in X |-> IF own[x] = own[b] /\ rank[x] > rank[b] THEN l ELSE own[x]]
  OBVIOUS
<1>18. PICK rank2 : rank2 = [x \in X |-> IF own[x] = own[b] /\ rank[x] > rank[b] THEN rank[x] - rank[b] ELSE rank[x]]
  OBVIOUS
<1>19. own2 \in [X -> O2] /\ \A x \in X : own2[x] = IF own[x] = own[b] /\ rank[x] > rank[b] THEN l ELSE own[x]
  <2>1. \A x \in X : own2[x] = IF own[x] = own[b] /\ rank[x] > rank[b] THEN l ELSE own[x]
    BY <1>17
  <2>2. \A x \in X : own2[x] \in O2
    BY <1>1, <1>16, <2>1
  <2>3. own2 = [x \in X |-> own2[x]]
    BY <1>17
  <2> QED
    BY <2>1, <2>2, <2>3
<1>20. rank2 \in [X -> Nat \ {0}]
       /\ \A x \in X : rank2[x] = IF own[x] = own[b] /\ rank[x] > rank[b] THEN rank[x] - rank[b] ELSE rank[x]
  <2>1. \A x \in X : rank2[x] = IF own[x] = own[b] /\ rank[x] > rank[b] THEN rank[x] - rank[b] ELSE rank[x]
    BY <1>18
  <2>2. \A x \in X : rank2[x] \in Nat \ {0}
    BY <1>1, <2>1
  <2>3. rank2 = [x \in X |-> rank2[x]]
    BY <1>18
  <2> QED
    BY <2>1, <2>2, <2>3
<1>21. PICK N, top : N = Len(f.B) /\ top = f.freeB
  OBVIOUS
<1>22. PICK next, prev : next = NextB(f) /\ prev = PrevB(f)
  OBVIOUS
<1>23. \A x \in 1 .. N : next[x] = NextIndex(f, x) /\ prev[x] = f.B[x].prev
  BY <1>21, <1>22, LinksB
<1>24. \A x \in 1 .. N : NextB(h)[x] = NextIndex(h, x) /\ PrevB(h)[x] = h.B[x].prev
  <2>1. Len(h.B) = N
    BY <1>10, <1>13, <1>21
  <2> QED
    BY <1>13, <2>1, LinksB
<1>25. FirstB(h)[l] = rest /\ \A o \in O : FirstB(h)[o] = FirstB(f)[o]
  <2>1. \A o \in 1 .. Len(f.L) : FirstB(h)[o] = h.L[o].firstB /\ FirstB(f)[o] = f.L[o].firstB
    BY <1>13, LinksB
  <2> QED
    BY <1>13, <2>1
<1>26. LayerCuts(N, X, O, own, rank, FirstB(f), next, prev, top, b, l, FirstB(h), NextB(h),
    PrevB(h), O2, own2, rank2)
  <2>1. next[b] = rest
    BY <1>3, <1>21, <1>23
  <2>2. \A x \in 1 .. N : NextB(h)[x] = IF x = b THEN 0 ELSE next[x]
    BY <1>15, <1>21, <1>23, <1>24
  <2>3. \A x \in 1 .. N : PrevB(h)[x] = IF x = rest THEN 0 ELSE prev[x]
    BY <1>14, <1>21, <1>23, <1>24
  <2> QED
    BY <1>16, <1>19, <1>20, <1>25, <2>1, <2>2, <2>3 DEF LayerCuts
<1>27. BLayer(h, O2, X, own2, rank2)
  <2>1. Layer(X, O, own, rank, FirstB(f), next, prev, top, N)
    BY <1>21, <1>22 DEF BLayer
  <2>2. Layer(X, O2, own2, rank2, FirstB(h), NextB(h), PrevB(h), top, N)
    BY <1>26, <2>1, LayerCut
  <2> QED
    BY <1>10, <1>13, <1>21, <2>2 DEF BLayer
<1>28. OneFirst([f EXCEPT !.B = h.B], h, l, NextIndex(f, b))
  <2>1. SameP(f, k) /\ SameL(f, k) /\ SameT(f, k) /\ SameC(f, k)
    BY <1>5, <1>7, OnlyBTwice DEF OneBox, OnlyB
  <2>2. PICK e : e = [f EXCEPT !.B = h.B]
    OBVIOUS
  <2>3. e.P = f.P /\ e.freeP = f.freeP /\ e.firstP = f.firstP /\ e.L = f.L /\ e.freeL = f.freeL
        /\ e.B = h.B /\ e.freeB = f.freeB
        /\ e.text = f.text /\ e.len = f.len /\ e.width = f.width /\ e.count = f.count /\ e.last = f.last
    BY <2>2 DEF Frames
  <2>4. OneFirst(e, h, l, rest)
    BY <1>10, <1>12, <1>13, <2>1, <2>3 DEF OneFirst, SameP, SameL, SameB, SameT, SameC
  <2> QED
    BY <2>2, <2>4
<1>29. BCutOff(f, h, O, X, own, rank, b, l, O2, own2, rank2)
  BY <1>1, <1>10, <1>13, <1>14, <1>15, <1>16, <1>19, <1>20, <1>27, <1>28 DEF BCutOff
<1> QED
  BY <1>29

\* The boxes of line s go after box b, the last one of another line.
BJoined(f, h, O, X, own, rank, b, s, O2, own2, rank2) ==
  /\ OnlyB(f, h) /\ Len(h.B) = Len(f.B) /\ h.freeB = f.freeB
  /\ BLayer(h, O2, X, own2, rank2)
  /\ O2 = O \ {s}
  /\ own2 \in [X -> O2] /\ \A x \in X : own2[x] = IF own[x] = s THEN own[b] ELSE own[x]
  /\ rank2 \in [X -> Nat \ {0}] /\ \A x \in X : rank2[x] = IF own[x] = s THEN rank[x] + rank[b] ELSE rank[x]
  /\ \A x \in X : SameText(f.B[x], h.B[x])
  /\ \A x \in X : NextIndex(h, x) = IF x = b THEN f.L[s].firstB ELSE NextIndex(f, x)

\* The boxes of a line put after those of another one are in that line.
LEMMA BConcat ==
  ASSUME NEW f \in Frames, NEW O, NEW X, NEW own, NEW rank, BLayer(f, O, X, own, rank),
         O \subseteq 1 .. Len(f.L),
         NEW b \in X, NextIndex(f, b) = 0, f.B[b].kind # "line", NEW s \in O, own[b] # s,
         NEW h, h = LinkBoxes(f, b, f.L[s].firstB)
  PROVE  \E O2, own2, rank2 : BJoined(f, h, O, X, own, rank, b, s, O2, own2, rank2)
<1>1. /\ X \subseteq 1 .. Len(f.B) /\ Len(f.B) \in Nat
      /\ Live(X, O, own, rank, FirstB(f), NextB(f), PrevB(f))
      /\ own \in [X -> O] /\ rank \in [X -> Nat \ {0}]
      /\ \A x \in X : NextB(f)[x] = NextIndex(f,
          x) /\ PrevB(f)[x] = f.B[x].prev /\ x \in 1 .. Len(f.B)
  BY BLayerFacts
<1>2. PICK y : y = f.L[s].firstB
  OBVIOUS
<1>3. y # 0 /\ y \in X /\ own[y] = s /\ y # b /\ FirstB(f)[s] = y
  <2>1. FirstB(f)[s] = y
    BY <1>2, LinksB
  <2>2. y # 0
    BY <2>1 DEF BLayer, Layer
  <2> QED
    BY <1>1, <2>1, <2>2 DEF Live, Begun
<1>4. b \in 1 .. Len(f.B) /\ y \in 1 .. Len(f.B) /\ b # y /\ h = LinkBoxes(f, b, y)
  BY <1>1, <1>2, <1>3
<1>5. /\ OnlyB(f, h) /\ Len(h.B) = Len(f.B) /\ h.freeB = f.freeB
      /\ h.B[b] = [f.B[b] EXCEPT !.next = y] /\ h.B[y] = [f.B[y] EXCEPT !.prev = b]
      /\ \A k \in 1 .. Len(f.B) : k # b /\ k # y => h.B[k] = f.B[k]
  BY <1>4, LinkBoxesIs
<1>6. h.B[b].next = y /\ h.B[b].prev = f.B[b].prev /\ SameText(f.B[b], h.B[b])
  BY <1>4, <1>5, NextIndexType, NextField
<1>7. h.B[y].prev = b /\ h.B[y].next = f.B[y].next /\ SameText(f.B[y], h.B[y])
  BY <1>4, <1>5, NextIndexType, PrevField
<1>8. \A x \in 1 .. Len(f.B) : /\ SameText(f.B[x], h.B[x])
                               /\ h.B[x].next = (IF x = b THEN y ELSE f.B[x].next)
                               /\ h.B[x].prev = (IF x = y THEN b ELSE f.B[x].prev)
  <2>1. \A k \in 1 .. Len(f.B) : k # b /\ k # y => SameText(f.B[k], h.B[k])
    BY <1>5 DEF SameText
  <2> QED
    BY <1>4, <1>5, <1>6, <1>7, <2>1
<1>9. \A x \in 1 .. Len(f.B) : NextIndex(h, x) = IF x = b THEN y ELSE NextIndex(f, x)
  <2> SUFFICES ASSUME NEW x \in 1 .. Len(f.B) PROVE NextIndex(h,
      x) = IF x = b THEN y ELSE NextIndex(f, x)
    OBVIOUS
  <2>1. h.B[x].kind = f.B[x].kind /\ h.B[x].next = IF x = b THEN y ELSE f.B[x].next
    BY <1>8 DEF SameText
  <2> QED
    BY <2>1 DEF NextIndex
<1>10. PICK O2 : O2 = O \ {s}
  OBVIOUS
<1>11. PICK own2 : own2 = [x \in X |-> IF own[x] = s THEN own[b] ELSE own[x]]
  OBVIOUS
<1>12. PICK rank2 : rank2 = [x \in X |-> IF own[x] = s THEN rank[x] + rank[b] ELSE rank[x]]
  OBVIOUS
<1>13. own2 \in [X -> O2] /\ \A x \in X : own2[x] = IF own[x] = s THEN own[b] ELSE own[x]
  <2>1. \A x \in X : own2[x] = IF own[x] = s THEN own[b] ELSE own[x]
    BY <1>11
  <2>2. \A x \in X : own2[x] \in O2
    BY <1>1, <1>10, <2>1
  <2>3. own2 = [x \in X |-> own2[x]]
    BY <1>11
  <2> QED
    BY <2>1, <2>2, <2>3
<1>14. rank2 \in [X -> Nat \ {0}] /\ \A x \in X : rank2[x] = IF own[x] = s THEN rank[x] + rank[b] ELSE rank[x]
  <2>1. \A x \in X : rank2[x] = IF own[x] = s THEN rank[x] + rank[b] ELSE rank[x]
    BY <1>12
  <2>2. \A x \in X : rank2[x] \in Nat \ {0}
    BY <1>1, <2>1
  <2>3. rank2 = [x \in X |-> rank2[x]]
    BY <1>12
  <2> QED
    BY <2>1, <2>2, <2>3
<1>15. PICK N, top : N = Len(f.B) /\ top = f.freeB
  OBVIOUS
<1>16. PICK next, prev : next = NextB(f) /\ prev = PrevB(f)
  OBVIOUS
<1>17. \A x \in 1 .. N : next[x] = NextIndex(f, x) /\ prev[x] = f.B[x].prev
  BY <1>15, <1>16, LinksB
<1>18. \A x \in 1 .. N : NextB(h)[x] = NextIndex(h, x) /\ PrevB(h)[x] = h.B[x].prev
  <2>1. Len(h.B) = N /\ h \in Frames
    BY <1>5, <1>15 DEF OnlyB
  <2> QED
    BY <2>1, LinksB
<1>19. \A o \in O : FirstB(h)[o] = FirstB(f)[o]
  <2>1. h.L = f.L
    BY <1>5 DEF OnlyB, SameL
  <2> QED
    BY <2>1 DEF FirstB
<1>20. PICK first : first = FirstB(f)
  OBVIOUS
<1>21. LayerConcats(N, X, O, own, rank, first, next, prev, top, b, s, FirstB(h), NextB(h),
    PrevB(h), O2, own2, rank2)
  <2>1. next[b] = 0 /\ first[s] = y
    BY <1>3, <1>4, <1>15, <1>17, <1>20
  <2>2. \A x \in 1 .. N : NextB(h)[x] = IF x = b THEN y ELSE next[x]
    BY <1>9, <1>15, <1>17, <1>18
  <2>3. \A x \in 1 .. N : PrevB(h)[x] = IF x = y THEN b ELSE prev[x]
    BY <1>8, <1>15, <1>17, <1>18
  <2> QED
    BY <1>10, <1>13, <1>14, <1>19, <1>20, <2>1, <2>2, <2>3 DEF LayerConcats
<1>22. BLayer(h, O2, X, own2, rank2)
  <2>1. Layer(X, O, own, rank, first, next, prev, top, N)
    BY <1>15, <1>16, <1>20 DEF BLayer
  <2>2. Layer(X, O2, own2, rank2, FirstB(h), NextB(h), PrevB(h), top, N)
    BY <1>21, <2>1, LayerConcat
  <2> QED
    BY <1>5, <1>15, <2>2 DEF BLayer
<1>23. BJoined(f, h, O, X, own, rank, b, s, O2, own2, rank2)
  BY <1>1, <1>2, <1>5, <1>8, <1>9, <1>10, <1>13, <1>14, <1>22 DEF BJoined
<1> QED
  BY <1>23

\* A box y is taken for a line l that had none.
BStarts(f, h, O, l, y) ==
  /\ y = Slot(f.freeB, f.B) /\ l \notin O
  /\ Len(h.B) = (IF y <= Len(f.B) THEN Len(f.B) ELSE y)
  /\ h.freeB = (IF f.freeB = 0 THEN 0 ELSE NextIndex(f, f.freeB))
  /\ h.B[y].kind # "line" /\ h.B[y].next = 0 /\ h.B[y].prev = 0
  /\ \A k \in 1 .. Len(f.B) : k # y => h.B[k] = f.B[k]
  /\ l \in 1 .. Len(h.L) /\ O \subseteq 1 .. Len(h.L)
  /\ h.L[l].firstB = y /\ \A o \in O : h.L[o].firstB = f.L[o].firstB

BStarted(f, h, O, X, own, rank, l, y, O2, X2, own2, rank2) ==
  /\ BLayer(h, O2, X2, own2, rank2)
  /\ y \notin X /\ y # 0
  /\ X2 = X \cup {y} /\ O2 = O \cup {l}
  /\ own2 \in [X2 -> O2] /\ own2[y] = l /\ \A x \in X : own2[x] = own[x]
  /\ rank2 \in [X2 -> Nat \ {0}] /\ rank2[y] = 1 /\ \A x \in X : rank2[x] = rank[x]

\* A new line has one new box.
LEMMA BOwner ==
  ASSUME NEW f \in Frames, NEW O, NEW X, NEW own, NEW rank, BLayer(f, O, X, own, rank),
         O \subseteq 1 .. Len(f.L), NEW h \in Frames, NEW l, NEW y, BStarts(f, h, O, l, y)
  PROVE  \E O2, X2, own2, rank2 : BStarted(f, h, O, X, own, rank, l, y, O2, X2, own2, rank2)
<1>1. /\ X \subseteq 1 .. Len(f.B) /\ Len(f.B) \in Nat /\ f.freeB \in 0 .. Len(f.B)
      /\ own \in [X -> O] /\ rank \in [X -> Nat \ {0}]
      /\ y = SlotAt(f.freeB, Len(f.B)) /\ y \notin X
  BY BLayerFacts DEF Slot, SlotAt, BStarts
<1>2. y \in 1 .. Len(f.B) + 1 /\ y # 0
  BY <1>1 DEF SlotAt
<1>3. PICK m : m = Len(h.B)
  OBVIOUS
<1>4. m \in Nat /\ Len(f.B) <= m /\ y <= m /\ y \in 1 .. m
  <2>1. m = IF y <= Len(f.B) THEN Len(f.B) ELSE y
    BY <1>3 DEF BStarts
  <2> QED
    BY <1>1, <1>2, <2>1
<1>5. PICK N, top : N = Len(f.B) /\ top = f.freeB
  OBVIOUS
<1>6. PICK next, prev, first : next = NextB(f) /\ prev = PrevB(f) /\ first = FirstB(f)
  OBVIOUS
<1>7. \A x \in 1 .. N : next[x] = NextIndex(f, x) /\ prev[x] = f.B[x].prev
  BY <1>5, <1>6, LinksB
<1>8. \A x \in 1 .. m : NextB(h)[x] = NextIndex(h, x) /\ PrevB(h)[x] = h.B[x].prev
  BY <1>3, LinksB
<1>9. \A x \in 1 .. N : x # y => NextIndex(h, x) = NextIndex(f, x) /\ h.B[x].prev = f.B[x].prev
  BY <1>5 DEF BStarts, NextIndex
<1>10. NextIndex(h, y) = 0 /\ h.B[y].prev = 0
  BY DEF BStarts, NextIndex
<1>11. FirstB(h)[l] = y /\ \A o \in O : FirstB(h)[o] = first[o]
  <2>1. \A o \in 1 .. Len(h.L) : FirstB(h)[o] = h.L[o].firstB
    BY LinksB
  <2>2. \A o \in 1 .. Len(f.L) : first[o] = f.L[o].firstB
    BY <1>6, LinksB
  <2> QED
    BY <2>1, <2>2 DEF BStarts
<1>12. PICK X2, O2 : X2 = X \cup {y} /\ O2 = O \cup {l}
  OBVIOUS
<1>13. PICK own2 : own2 = [x \in X2 |-> IF x = y THEN l ELSE own[x]]
  OBVIOUS
<1>14. PICK rank2 : rank2 = [x \in X2 |-> IF x = y THEN 1 ELSE rank[x]]
  OBVIOUS
<1>15. own2 \in [X2 -> O2] /\ own2[y] = l /\ \A x \in X : own2[x] = own[x]
  BY <1>1, <1>12, <1>13
<1>16. rank2 \in [X2 -> Nat \ {0}] /\ rank2[y] = 1 /\ \A x \in X : rank2[x] = rank[x]
  <2>1. rank2[y] = 1 /\ \A x \in X : rank2[x] = rank[x]
    BY <1>1, <1>12, <1>14
  <2>2. \A x \in X2 : rank2[x] \in Nat \ {0}
    BY <1>1, <1>12, <2>1
  <2>3. rank2 = [x \in X2 |-> rank2[x]]
    BY <1>14
  <2> QED
    BY <2>1, <2>2, <2>3
<1>17. PICK top2 : top2 = h.freeB
  OBVIOUS
<1>18. top2 = IF top = 0 THEN 0 ELSE next[top]
  BY <1>1, <1>5, <1>7, <1>17 DEF BStarts
<1>19. LayerStarts(N, X, O, own, rank, first, next, prev, top, l, y, m, top2, FirstB(h), NextB(h),
    PrevB(h), X2, O2, own2, rank2)
  <2>1. NextB(h)[y] = 0 /\ PrevB(h)[y] = 0
    BY <1>4, <1>8, <1>10
  <2>2. \A x \in 1 .. N : x # y => NextB(h)[x] = next[x] /\ PrevB(h)[x] = prev[x]
    BY <1>4, <1>5, <1>7, <1>8, <1>9
  <2>3. l \notin O /\ y = SlotAt(top, N) /\ m \in Nat /\ N <= m /\ y <= m
    BY <1>1, <1>4, <1>5 DEF BStarts
  <2> QED
    BY <1>11, <1>12, <1>15, <1>16, <1>18, <2>1, <2>2, <2>3 DEF LayerStarts
<1>20. BLayer(h, O2, X2, own2, rank2)
  <2>1. Layer(X, O, own, rank, first, next, prev, top, N)
    BY <1>5, <1>6 DEF BLayer
  <2>2. Layer(X2, O2, own2, rank2, FirstB(h), NextB(h), PrevB(h), top2, m)
    BY <1>19, <2>1, LayerOwner
  <2> QED
    BY <1>3, <1>17, <2>2 DEF BLayer
<1>21. BStarted(f, h, O, X, own, rank, l, y, O2, X2, own2, rank2)
  BY <1>1, <1>2, <1>12, <1>15, <1>16, <1>20 DEF BStarted
<1> QED
  BY <1>21

(***************************************************************************)
(* The length of the text of some boxes.                                   *)
(***************************************************************************)
LenAt(f, S, b) == IF b \in S THEN BoxLen(f.B[b]) ELSE 0
Sum(f, S) == Total([b \in DOMAIN f.B |-> IF b \in S THEN BoxLen(f.B[b]) ELSE 0], Len(f.B))

\* A sum is not changed by zeros after it.
LEMMA TotalMore ==
  ASSUME NEW m \in Nat, NEW n \in 0 .. m, NEW c, \A k \in 1 .. m : c[k] \in Int,
         \A k \in n + 1 .. m : c[k] = 0
  PROVE  Total(c, m) = Total(c, n)
<1> DEFINE S == {k \in Nat : n + k <= m => Total(c, n + k) = Total(c, n)}
<1>1. 0 \in S
  BY TotalType
<1>2. \A k \in 0 .. (m - n) - 1 : k \in S => k + 1 \in S
  <2> SUFFICES ASSUME NEW k \in 0 .. (m - n) - 1, k \in S PROVE k + 1 \in S
    OBVIOUS
  <2>1. n + k \in Nat /\ n + k \in 0 .. m /\ n + k + 1 \in n + 1 .. m
    OBVIOUS
  <2>2. Total(c, (n + k) + 1) = Total(c, n + k) + c[(n + k) + 1]
    BY <2>1, TotalSteps
  <2>3. c[(n + k) + 1] = 0 /\ Total(c, n + k) = Total(c, n) /\ Total(c, n + k) \in Int
    BY <2>1, TotalType
  <2>4. Total(c, (n + k) + 1) = Total(c, n) /\ n + (k + 1) = (n + k) + 1 /\ k + 1 \in Nat
    BY <2>1, <2>2, <2>3
  <2> QED
    BY <2>4
<1>3. m - n \in Nat
  OBVIOUS
<1>4. \A k \in 0 .. m - n : k \in S
  <2>1. PICK d \in Nat : d = m - n
    BY <1>3
  <2>2. \A k \in 0 .. d - 1 : k \in S => k + 1 \in S
    BY <1>2, <2>1
  <2> HIDE DEF S
  <2> QED
    BY <1>1, <2>1, <2>2, UpTo
<1>5. (m - n) \in S
  BY <1>3, <1>4
<1> QED
  BY <1>5

\* The length of a box is an integer.
LEMMA LenType ==
  ASSUME NEW x \in BoxSet
  PROVE  BoxLen(x) \in Int
BY DEF BoxLen, BoxSet

\* The length of the text of some boxes, as a sum over the array.
LEMMA SumIs ==
  ASSUME NEW f \in Frames, NEW S, NEW n, n = Len(f.B)
  PROVE  /\ n \in Nat /\ Sum(f, S) \in Int
         /\ \A b \in 1 .. n : LenAt(f, S, b) \in Int
         /\ \E c : Sum(f, S) = Total(c,
             n) /\ DOMAIN c = 1 .. n /\ \A b \in 1 .. n : c[b] = LenAt(f, S, b)
<1>1. f.B \in Seq(BoxSet) /\ n \in Nat /\ DOMAIN f.B = 1 .. n
  BY DEF Frames
<1>2. PICK c : c = [b \in 1 .. n |-> IF b \in S THEN BoxLen(f.B[b]) ELSE 0]
  OBVIOUS
<1>3. \A b \in 1 .. n : c[b] = LenAt(f, S, b)
  BY <1>2 DEF LenAt
<1>4. \A b \in 1 .. n : LenAt(f, S, b) \in Int
  <2> SUFFICES ASSUME NEW b \in 1 .. n PROVE LenAt(f, S, b) \in Int
    OBVIOUS
  <2>1. f.B[b] \in BoxSet
    BY <1>1
  <2> QED
    BY <2>1, LenType DEF LenAt
<1>5. Sum(f, S) = Total(c, n)
  BY <1>1, <1>2 DEF Sum
<1>6. Total(c, n) \in Int
  <2>1. \A k \in 1 .. n : c[k] \in Int
    BY <1>3, <1>4
  <2>2. \A k \in 0 .. n : Total(c, k) \in Int
    BY <1>1, <2>1, TotalType
  <2> QED
    BY <1>1, <2>2
<1>7. DOMAIN c = 1 .. n
  BY <1>2
<1> QED
  BY <1>1, <1>3, <1>4, <1>5, <1>6, <1>7

\* Sums that differ at two places at most, where 0 is no place.
SumsDiffer(f, h, S, T, i, j) ==
  /\ Len(f.B) <= Len(h.B) /\ S \subseteq 1 .. Len(f.B) /\ T \subseteq 1 .. Len(h.B)
  /\ i \in 0 .. Len(h.B) /\ j \in 0 .. Len(h.B) /\ (i = j => i = 0)
  /\ \A k \in 1 .. Len(h.B) : k # i /\ k # j => LenAt(h, T, k) = LenAt(f, S, k)

\* The length of the text changes with the two boxes that change.
LEMMA SumChanged ==
  ASSUME NEW f \in Frames, NEW h \in Frames, NEW S, NEW T, NEW i, NEW j,
         SumsDiffer(f, h, S, T, i, j)
  PROVE  Sum(h, T) = Sum(f, S) + LenAt(h, T, i) - LenAt(f, S, i) + LenAt(h, T, j) - LenAt(f, S, j)
<1>1. PICK n, m : n = Len(f.B) /\ m = Len(h.B)
  OBVIOUS
<1>2. n \in Nat /\ m \in Nat /\ n <= m /\ i \in 0 .. m /\ j \in 0 .. m /\ (i = j => i = 0)
  BY <1>1, SumIs DEF SumsDiffer
<1>3. \A k \in n + 1 .. m : LenAt(f, S, k) = 0
  BY <1>1, <1>2 DEF SumsDiffer, LenAt
<1>4. \A k \in 1 .. m : LenAt(f, S, k) \in Int
  <2>1. \A k \in 1 .. n : LenAt(f, S, k) \in Int
    BY <1>1, SumIs
  <2> QED
    BY <1>2, <1>3, <2>1
<1>5. \A k \in 1 .. m : LenAt(h, T, k) \in Int
  BY <1>1, SumIs
<1>6. PICK c : c = [k \in 1 .. m |-> LenAt(f, S, k)]
  OBVIOUS
<1>7. PICK e : e = [k \in 1 .. m |-> IF k = i THEN LenAt(h, T, k) ELSE LenAt(f, S, k)]
  OBVIOUS
<1>8. PICK d : d = [k \in 1 .. m |-> LenAt(h, T, k)]
  OBVIOUS
<1>9. \A k \in 1 .. m : c[k] \in Int /\ e[k] \in Int /\ d[k] \in Int
  BY <1>4, <1>5, <1>6, <1>7, <1>8
<1>10. Total(e, m) = Total(c, m) + LenAt(h, T, i) - LenAt(f, S, i)
  <2>1. \A k \in 1 .. m : k # i => e[k] = c[k]
    BY <1>6, <1>7
  <2>2. CASE i # 0
    <3>1. i \in 1 .. m
      BY <1>2, <2>2
    <3>2. Total(e, m) = Total(c, m) + e[i] - c[i]
      BY <1>2, <1>9, <2>1, <3>1, TotalChanged
    <3> QED
      BY <1>6, <1>7, <3>1, <3>2
  <2>3. CASE i = 0
    <3>1. \A k \in 1 .. m : e[k] = c[k] /\ c[k] \in Int
      BY <1>9, <2>1, <2>3
    <3>2. \A k \in 0 .. m : Total(e, k) = Total(c, k)
      BY <1>2, <3>1, TotalSame
    <3>3. Total(c, m) \in Int
      BY <1>2, <3>1, TotalType
    <3>4. LenAt(h, T, i) = 0 /\ LenAt(f, S, i) = 0
      BY <2>3 DEF LenAt, SumsDiffer
    <3> QED
      BY <1>2, <3>2, <3>3, <3>4
  <2> QED
    BY <2>2, <2>3
<1>11. Total(d, m) = Total(e, m) + LenAt(h, T, j) - LenAt(f, S, j)
  <2>1. \A k \in 1 .. m : k # j => d[k] = e[k]
    BY <1>1, <1>7, <1>8 DEF SumsDiffer
  <2>2. CASE j # 0
    <3>1. j \in 1 .. m /\ j # i
      BY <1>2, <2>2
    <3>2. Total(d, m) = Total(e, m) + d[j] - e[j]
      BY <1>2, <1>9, <2>1, <3>1, TotalChanged
    <3> QED
      BY <1>7, <1>8, <3>1, <3>2
  <2>3. CASE j = 0
    <3>1. \A k \in 1 .. m : d[k] = e[k] /\ e[k] \in Int
      BY <1>9, <2>1, <2>3
    <3>2. \A k \in 0 .. m : Total(d, k) = Total(e, k)
      BY <1>2, <3>1, TotalSame
    <3>3. Total(e, m) \in Int
      BY <1>2, <3>1, TotalType
    <3>4. LenAt(h, T, j) = 0 /\ LenAt(f, S, j) = 0
      BY <2>3 DEF LenAt, SumsDiffer
    <3> QED
      BY <1>2, <3>2, <3>3, <3>4
  <2> QED
    BY <2>2, <2>3
<1>12. Total(c, m) = Sum(f, S)
  <2>1. Total(c, m) = Total(c, n)
    <3>1. \A k \in n + 1 .. m : c[k] = 0
      BY <1>2, <1>3, <1>6
    <3>2. n \in 0 .. m /\ \A k \in 1 .. m : c[k] \in Int
      BY <1>2, <1>9
    <3> QED
      BY <1>2, <3>1, <3>2, TotalMore
  <2>2. PICK a : Sum(f, S) = Total(a, n) /\ \A b \in 1 .. n : a[b] = LenAt(f, S, b)
    BY <1>1, SumIs
  <2>3. \A k \in 1 .. n : a[k] \in Int /\ c[k] = a[k]
    BY <1>2, <1>4, <1>6, <2>2
  <2>4. Total(c, n) = Total(a, n)
    BY <1>2, <2>3, TotalSame
  <2> QED
    BY <2>1, <2>2, <2>4
<1>13. Total(d, m) = Sum(h, T)
  <2>1. PICK a : Sum(h, T) = Total(a, m) /\ \A b \in 1 .. m : a[b] = LenAt(h, T, b)
    BY <1>1, SumIs
  <2>2. \A k \in 1 .. m : a[k] \in Int /\ d[k] = a[k]
    BY <1>5, <1>8, <2>1
  <2>3. Total(d, m) = Total(a, m)
    BY <1>2, <2>2, TotalSame
  <2> QED
    BY <2>1, <2>3
<1>14. Total(c, m) \in Int /\ Total(e, m) \in Int
  BY <1>2, <1>9, TotalType, SMTT(30)
<1>15. LenAt(f, S, i) \in Int /\ LenAt(h, T, i) \in Int /\ LenAt(f, S, j) \in Int /\ LenAt(h, T,
    j) \in Int
  <2>1. LenAt(f, S, 0) = 0 /\ LenAt(h, T, 0) = 0
    BY DEF LenAt, SumsDiffer
  <2> QED
    BY <1>2, <1>4, <1>5, <2>1
<1> QED
  BY <1>10, <1>11, <1>12, <1>13, <1>14, <1>15

(***************************************************************************)
(* Columns of a text, and where a box is split.                            *)
(***************************************************************************)

\* A character takes no column, one or two.
LEMMA RuneWidths ==
  \A c : RuneWidth(c) \in 0 .. 2
BY DEF RuneWidth

\* Each character of a text takes its columns.
LEMMA ColumnsStep ==
  ASSUME NEW s \in Seq(Characters)
  PROVE  /\ Columns(s, 0) = 0
         /\ \A n \in 0 .. Len(s) : Columns(s, n) \in Int
         /\ \A n \in 0 .. Len(s) - 1 : Columns(s, n + 1) = Columns(s, n) + RuneWidth(s[n + 1])
<1>1. PICK c : c = [k \in DOMAIN s |-> RuneWidth(s[k])]
  OBVIOUS
<1>2. \A k \in 1 .. Len(s) : c[k] = RuneWidth(s[k]) /\ c[k] \in Int
  BY <1>1, RuneWidths
<1>3. \A n : Columns(s, n) = Total(c, n)
  BY <1>1 DEF Columns
<1>4. Len(s) \in Nat
  OBVIOUS
<1>5. \A n \in 0 .. Len(s) : Total(c, n) \in Int
  BY <1>2, <1>4, TotalType
<1>6. Total(c, 0) = 0 /\ \A n \in Nat : Total(c, n + 1) = Total(c, n) + c[n + 1]
  BY TotalSteps
<1>7. \A n \in 0 .. Len(s) - 1 : n \in Nat /\ n + 1 \in 1 .. Len(s)
  BY <1>4
<1> QED
  BY <1>2, <1>3, <1>5, <1>6, <1>7

\* n characters take as many columns wherever they stand.
SameRunes(s, t, a, b, n) ==
  /\ a \in Nat /\ b \in Nat /\ n \in Nat /\ a + n <= Len(s) /\ b + n <= Len(t)
  /\ \A k \in 1 .. n : s[a + k] = t[b + k]

\* Characters take the same columns wherever they are in the buffer.
LEMMA ColumnsShift ==
  ASSUME NEW s \in Seq(Characters), NEW t \in Seq(Characters), NEW a, NEW b, NEW n,
         SameRunes(s, t, a, b, n)
  PROVE  Columns(s, a + n) - Columns(s, a) = Columns(t, b + n) - Columns(t, b)
<1>1. /\ a \in Nat /\ b \in Nat /\ n \in Nat /\ a + n <= Len(s) /\ b + n <= Len(t)
      /\ \A k \in 1 .. n : s[a + k] = t[b + k]
  BY DEF SameRunes
<1>2. Len(s) \in Nat /\ Len(t) \in Nat
  OBVIOUS
<1> DEFINE S == {k \in Nat : Columns(s, a + k) - Columns(s, a) = Columns(t, b + k) - Columns(t, b)}
<1>3. 0 \in S
  <2>1. Columns(s, a) \in Int /\ Columns(t, b) \in Int
    BY <1>1, <1>2, ColumnsStep
  <2> QED
    BY <1>1, <2>1
<1>4. \A k \in 0 .. n - 1 : k \in S => k + 1 \in S
  <2> SUFFICES ASSUME NEW k \in 0 .. n - 1, k \in S PROVE k + 1 \in S
    OBVIOUS
  <2>1. k \in Nat /\ k + 1 \in 1 .. n /\ a + k \in 0 .. Len(s) - 1 /\ b + k \in 0 .. Len(t) - 1
    BY <1>1, <1>2
  <2>2. Columns(s, (a + k) + 1) = Columns(s, a + k) + RuneWidth(s[(a + k) + 1])
    BY <2>1, ColumnsStep
  <2>3. Columns(t, (b + k) + 1) = Columns(t, b + k) + RuneWidth(t[(b + k) + 1])
    BY <2>1, ColumnsStep
  <2>4. a + (k + 1) = (a + k) + 1 /\ b + (k + 1) = (b + k) + 1
    BY <1>1, <2>1
  <2>5. s[(a + k) + 1] = t[(b + k) + 1]
    <3>1. PICK m \in 1 .. n : m = k + 1
      BY <2>1
    <3>2. s[a + m] = t[b + m]
      BY <1>1
    <3>3. a + m = (a + k) + 1 /\ b + m = (b + k) + 1
      BY <2>4, <3>1
    <3> QED
      BY <3>2, <3>3
  <2>6. Columns(s, a) \in Int /\ Columns(t, b) \in Int /\ Columns(s, a + k) \in Int /\ Columns(t,
      b + k) \in Int
    BY <1>1, <1>2, <2>1, ColumnsStep
  <2>7. RuneWidth(t[(b + k) + 1]) \in Int
    BY RuneWidths
  <2>8. Columns(s, a + k) - Columns(s, a) = Columns(t, b + k) - Columns(t, b)
    OBVIOUS
  <2>9. Columns(s, a + (k + 1)) - Columns(s, a) = Columns(t, b + (k + 1)) - Columns(t, b)
    BY <2>2, <2>3, <2>4, <2>5, <2>6, <2>7, <2>8, SMTT(30)
  <2> QED
    BY <2>1, <2>9
<1>5. \A k \in 0 .. n : k \in S
  <2> HIDE DEF S
  <2> QED
    BY <1>1, <1>3, <1>4, UpTo
<1> QED
  BY <1>1, <1>5

\* A text box that is too wide is split inside, at a place that fits the room.
LEMMA PivotIs ==
  ASSUME NEW f, NEW x, NEW room \in Nat, f.text \in Seq(Characters),
         x.i \in Nat, x.j \in Nat, x.i <= x.j, x.j <= Len(f.text),
         Columns(f.text, x.j) - Columns(f.text, x.i) > room,
         NEW p, p = Pivot(f, x, room)
  PROVE  /\ p \in Nat /\ x.i <= p /\ p < x.j
         /\ Columns(f.text, p) - Columns(f.text, x.i) <= room
         /\ room >= 2 => p # x.i
<1>1. PICK t, i, j : t = f.text /\ i = x.i /\ j = x.j
  OBVIOUS
<1>2. t \in Seq(Characters) /\ i \in Nat /\ j \in Nat /\ i <= j /\ j <= Len(t) /\ Len(t) \in Nat
  BY <1>1
<1>3. \A k \in i .. j : Columns(t, k) \in Int
  BY <1>2, ColumnsStep
<1>4. \A k \in i .. j : Full(f, x, room, k) <=>
        (k = j \/ Columns(t, k) - Columns(t, i) >= room \/ Columns(t, k + 1) - Columns(t, i) > room)
  BY <1>1 DEF Full
<1>5. PICK q \in i .. j : Full(f, x, room, q) /\ \A m \in i .. q - 1 : ~Full(f, x, room, m)
  <2> DEFINE T == {k \in i .. j : Full(f, x, room, k)}
  <2>1. j \in T /\ T \subseteq Nat
    BY <1>2, <1>4
  <2>2. PICK q \in T : \A y \in T : q <= y
    <3> HIDE DEF T
    <3> QED
      BY <2>1, LeastOf
  <2>3. \A m \in i .. q - 1 : m \in i .. j /\ m \notin T
    BY <1>2, <2>2
  <2> QED
    BY <2>2, <2>3
<1>6. p \in i .. j /\ Full(f, x, room, p) /\ \A m \in i .. p - 1 : ~Full(f, x, room, m)
  <2>1. p = CHOOSE k \in i .. j : Full(f, x, room, k) /\ \A m \in i .. k - 1 : ~Full(f, x, room, m)
    BY <1>1 DEF Pivot
  <2> QED
    BY <1>5, <2>1
<1>7. p \in Nat /\ i <= p /\ p <= j
  BY <1>2, <1>6
<1>8. Columns(t, p) - Columns(t, i) <= room
  <2>1. CASE p = i
    BY <1>2, <1>3, <2>1
  <2>2. CASE p # i
    <3>1. p - 1 \in i .. p - 1 /\ p - 1 \in i .. j /\ (p - 1) + 1 = p
      BY <1>2, <1>7, <2>2
    <3>2. ~(Columns(t, (p - 1) + 1) - Columns(t, i) > room)
      BY <1>4, <1>6, <3>1
    <3>3. Columns(t, p) \in Int /\ Columns(t, i) \in Int
      BY <1>2, <1>3, <1>7
    <3> QED
      BY <3>1, <3>2, <3>3
  <2> QED
    BY <2>1, <2>2
<1>9. p # j
  BY <1>1, <1>2, <1>3, <1>7, <1>8
<1>10. room >= 2 => p # i
  <2> SUFFICES ASSUME room >= 2, p = i PROVE FALSE
    OBVIOUS
  <2>1. i < j /\ i \in i .. j /\ i + 1 \in i .. j /\ i \in 0 .. Len(t) - 1
    BY <1>2, <1>7, <1>9
  <2>2. Columns(t, i + 1) = Columns(t, i) + RuneWidth(t[i + 1])
    BY <1>2, <2>1, ColumnsStep
  <2>3. RuneWidth(t[i + 1]) \in 0 .. 2 /\ Columns(t, i) \in Int
    BY <1>3, <2>1, RuneWidths
  <2>4. i = j \/ Columns(t, i) - Columns(t, i) >= room \/ Columns(t, i + 1) - Columns(t, i) > room
    BY <1>4, <1>6, <2>1
  <2> QED
    BY <2>1, <2>2, <2>3, <2>4
<1> QED
  BY <1>1, <1>7, <1>8, <1>9, <1>10

(***************************************************************************)
(* The lines of a frame.                                                   *)
(***************************************************************************)
FirstL(f) == [p \in DOMAIN f.P |-> f.P[p].firstL]
PrevL(f) == [l \in DOMAIN f.L |-> f.L[l].prev]
LLayer(f, O, X, own, rank) ==
  Layer(X, O, own, rank, FirstL(f), NextL(f), PrevL(f), f.freeL, Len(f.L))
OnlyL(f, h) == h \in Frames /\ SameP(f, h) /\ SameB(f, h) /\ SameT(f, h) /\ SameC(f, h)

\* The links of the lines, as functions.
LEMMA LinksL ==
  ASSUME NEW f \in Frames
  PROVE  /\ DOMAIN NextL(f) = 0 .. Len(f.L) /\ NextL(f)[0] = 0 /\ Len(f.L) \in Nat
         /\ \A l \in 1 .. Len(f.L) : NextL(f)[l] = f.L[l].next /\ PrevL(f)[l] = f.L[l].prev /\ f.L[l] \in LineSet
         /\ \A p \in 1 .. Len(f.P) : FirstL(f)[p] = f.P[p].firstL
         /\ DOMAIN PrevL(f) = 1 .. Len(f.L)
<1>1. f.L \in Seq(LineSet) /\ f.P \in Seq(ParaSet)
  BY DEF Frames
<1>2. DOMAIN f.L = 1 .. Len(f.L) /\ DOMAIN f.P = 1 .. Len(f.P) /\ Len(f.L) \in Nat
      /\ \A l \in 1 .. Len(f.L) : f.L[l] \in LineSet
  BY <1>1
<1> QED
  BY <1>2 DEF NextL, PrevL, FirstL

\* What well-formed lines are, field by field.
LEMMA LLayerFacts ==
  ASSUME NEW f \in Frames, NEW O, NEW X, NEW own, NEW rank, LLayer(f, O, X, own, rank)
  PROVE  /\ X \subseteq 1 .. Len(f.L) /\ f.freeL \in 0 .. Len(f.L) /\ Len(f.L) \in Nat
         /\ Live(X, O, own, rank, FirstL(f), NextL(f), PrevL(f))
         /\ own \in [X -> O] /\ rank \in [X -> Nat \ {0}]
         /\ \A x \in X : /\ NextL(f)[x] = f.L[x].next /\ PrevL(f)[x] = f.L[x].prev
                         /\ f.L[x] \in LineSet /\ x \in 1 .. Len(f.L) /\ f.L[x].next \in 0 .. Len(f.L)
                         /\ f.L[x].prev # -1
         /\ SlotAt(f.freeL, Len(f.L)) \notin X
<1>1. X \subseteq 1 .. Len(f.L) /\ Live(X, O, own, rank, FirstL(f), NextL(f), PrevL(f))
  BY DEF LLayer, Layer
<1>2. f.freeL \in 0 .. Len(f.L) /\ Len(f.L) \in Nat /\ SlotAt(f.freeL, Len(f.L)) \notin X
      /\ \A x \in X : NextL(f)[x] \in 0 .. Len(f.L) /\ PrevL(f)[x] # -1
  BY LayerPrev DEF LLayer
<1>3. own \in [X -> O] /\ rank \in [X -> Nat \ {0}]
  BY <1>1 DEF Live, Placed
<1>4. \A x \in X : x \in 1 .. Len(f.L)
  BY <1>1
<1>5. \A x \in X : NextL(f)[x] = f.L[x].next /\ PrevL(f)[x] = f.L[x].prev /\ f.L[x] \in LineSet
  BY <1>4, LinksL
<1> QED
  BY <1>1, <1>2, <1>3, <1>4, <1>5

\* Changes to the lines alone, one after the other, are such a change.
LEMMA OnlyLTwice ==
  ASSUME NEW f, NEW g, NEW h, OnlyL(f, g), OnlyL(g, h)
  PROVE  OnlyL(f, h)
BY DEF OnlyL, SameP, SameB, SameT, SameC

\* One line is another, and nothing else changes.
OneLine(f, h, l, x) ==
  /\ OnlyL(f, h) /\ Len(h.L) = Len(f.L)
  /\ h.L[l] = x /\ \A k \in 1 .. Len(f.L) : k # l => h.L[k] = f.L[k]

\* Setting a line changes no other.
LEMMA SetLineIs ==
  ASSUME NEW f \in Frames, NEW l \in 1 .. Len(f.L), NEW x \in LineSet, NEW h,
         h = [f EXCEPT !.L[l] = x]
  PROVE  OneLine(f, h, l, x) /\ h.freeL = f.freeL
<1>1. f.L \in Seq(LineSet)
  BY DEF Frames
<1>2. PICK s : s = [f.L EXCEPT ![l] = x]
  OBVIOUS
<1>3. s \in Seq(LineSet) /\ Len(s) = Len(f.L) /\ s[l] = x /\ \A k \in 1 .. Len(f.L) : k # l =>
    s[k] = f.L[k]
  BY <1>1, <1>2
<1>4. h = [f EXCEPT !.L = s]
  BY <1>2 DEF Frames
<1>5. h \in Frames /\ h.L = s /\ h.freeL = f.freeL
  BY <1>3, <1>4 DEF Frames
<1>6. SameP(f, h) /\ SameB(f, h) /\ SameT(f, h) /\ SameC(f, h)
  BY <1>4 DEF Frames, SameP, SameB, SameT, SameC
<1> QED
  BY <1>3, <1>5, <1>6 DEF OneLine, OnlyL

\* newLine (frame.go) takes the index freed last, or the next one of the array.
LEMMA NewLineIs ==
  ASSUME NEW f \in Frames, f.freeL <= Len(f.L), NEW y, y = Slot(f.freeL, f.L), NEW h, h = NewLine(f)
  PROVE  /\ OnlyL(f, h) /\ y \in 1 .. Len(f.L) + 1
         /\ Len(h.L) = (IF y <= Len(f.L) THEN Len(f.L) ELSE y)
         /\ h.L[y] = NoLine /\ \A k \in 1 .. Len(f.L) : k # y => h.L[k] = f.L[k]
         /\ h.freeL = (IF f.freeL = 0 THEN 0 ELSE f.L[f.freeL].next)
<1>1. f.L \in Seq(LineSet) /\ f.freeL \in Nat /\ Len(f.L) \in Nat
  BY DEF Frames
<1>2. y \in 1 .. Len(f.L) + 1
  BY <1>1 DEF Slot
<1>3. PICK s : s = Put(f.L, y, NoLine)
  OBVIOUS
<1>4. /\ s \in Seq(LineSet) /\ Len(s) = (IF y <= Len(f.L) THEN Len(f.L) ELSE y)
      /\ s[y] = NoLine /\ \A k \in 1 .. Len(f.L) : k # y => s[k] = f.L[k]
  <2>1. PICK q : q = f.L
    OBVIOUS
  <2>2. PICK x \in LineSet : x = NoLine
    BY NothingTypes
  <2>3. q \in Seq(LineSet) /\ y \in 1 .. Len(q) + 1
    BY <1>1, <1>2, <2>1
  <2>4. /\ Put(q, y, x) \in Seq(LineSet)
        /\ Len(Put(q, y, x)) = IF y <= Len(q) THEN Len(q) ELSE y
    BY <2>3, PutIs
  <2>5. Put(q, y, x)[y] = x /\ \A k \in 1 .. Len(q) : k # y => Put(q, y, x)[k] = q[k]
    BY <2>3, PutIs
  <2> QED
    BY <1>3, <2>1, <2>2, <2>4, <2>5
<1>5. PICK t : t = IF f.freeL = 0 THEN 0 ELSE f.L[y].next
  OBVIOUS
<1>6. t \in Nat /\ t = (IF f.freeL = 0 THEN 0 ELSE f.L[f.freeL].next)
  <2>1. f.freeL # 0 => y = f.freeL /\ y \in 1 .. Len(f.L)
    BY <1>1, <1>2 DEF Slot
  <2>2. f.freeL # 0 => f.L[y] \in LineSet
    BY <1>1, <2>1
  <2> QED
    BY <1>5, <2>1, <2>2 DEF LineSet
<1>7. h = [f EXCEPT !.L = s, !.freeL = t]
  BY <1>3, <1>5 DEF NewLine
<1>8. h \in Frames
  BY <1>4, <1>6, <1>7 DEF Frames
<1>9. h.L = s /\ h.freeL = t /\ SameP(f, h) /\ SameB(f, h) /\ SameT(f, h) /\ SameC(f, h)
  BY <1>7 DEF Frames, SameP, SameB, SameT, SameC
<1> QED
  BY <1>2, <1>4, <1>6, <1>8, <1>9 DEF OnlyL

\* Line l is set to one that has other links.
LineNext(f, h, l, n) ==
  /\ OnlyL(f, h) /\ Len(h.L) = Len(f.L) /\ h.freeL = f.freeL
  /\ h.L[l].next = n /\ h.L[l].prev = f.L[l].prev /\ h.L[l].firstB = f.L[l].firstB
  /\ \A k \in 1 .. Len(f.L) : k # l => h.L[k] = f.L[k]
LinePrev(f, h, l, n) ==
  /\ OnlyL(f, h) /\ Len(h.L) = Len(f.L) /\ h.freeL = f.freeL
  /\ h.L[l].prev = n /\ h.L[l].next = f.L[l].next /\ h.L[l].firstB = f.L[l].firstB
  /\ \A k \in 1 .. Len(f.L) : k # l => h.L[k] = f.L[k]

\* Setting the next of a line changes no other.
LEMMA SetLineNextIs ==
  ASSUME NEW f \in Frames, NEW l \in 1 .. Len(f.L), NEW n \in Nat, NEW h,
         h = [f EXCEPT !.L[l].next = n]
  PROVE  LineNext(f, h, l, n)
<1>1. PICK x : x = [f.L[l] EXCEPT !.next = n]
  OBVIOUS
<1>2. f.L[l] \in LineSet
  BY LinksL
<1>3. x \in LineSet /\ x.next = n /\ x.prev = f.L[l].prev /\ x.firstB = f.L[l].firstB
  BY <1>1, <1>2 DEF LineSet
<1>4. h = [f EXCEPT !.L[l] = x]
  BY <1>1 DEF Frames
<1>5. OneLine(f, h, l, x) /\ h.freeL = f.freeL
  <2>1. x \in LineSet
    BY <1>3
  <2> QED
    BY <1>4, <2>1, SetLineIs
<1> QED
  BY <1>3, <1>5 DEF OneLine, LineNext

\* Setting the previous one of a line changes no other.
LEMMA SetLinePrevIs ==
  ASSUME NEW f \in Frames, NEW l \in 1 .. Len(f.L), NEW n \in Int, NEW h,
         h = [f EXCEPT !.L[l].prev = n]
  PROVE  LinePrev(f, h, l, n)
<1>1. PICK x : x = [f.L[l] EXCEPT !.prev = n]
  OBVIOUS
<1>2. f.L[l] \in LineSet
  BY LinksL
<1>3. x \in LineSet /\ x.prev = n /\ x.next = f.L[l].next /\ x.firstB = f.L[l].firstB
  BY <1>1, <1>2 DEF LineSet
<1>4. h = [f EXCEPT !.L[l] = x]
  BY <1>1 DEF Frames
<1>5. OneLine(f, h, l, x) /\ h.freeL = f.freeL
  <2>1. x \in LineSet
    BY <1>3
  <2> QED
    BY <1>4, <2>1, SetLineIs
<1> QED
  BY <1>3, <1>5 DEF OneLine, LinePrev

FreedLine(f, h, l) ==
  /\ OnlyL(f, h) /\ Len(h.L) = Len(f.L) /\ h.freeL = l
  /\ h.L[l].next = f.freeL /\ h.L[l].prev = -1
  /\ \A k \in 1 .. Len(f.L) : k # l => h.L[k] = f.L[k]

\* A freed line has the ones freed earlier after it and -1 before it.
LEMMA FreeLineIs ==
  ASSUME NEW f \in Frames, NEW l \in 1 .. Len(f.L), NEW h, h = FreeLine(f, l)
  PROVE  FreedLine(f, h, l)
<1>1. PICK x : x = [NoLine EXCEPT !.next = f.freeL, !.prev = -1]
  OBVIOUS
<1>2. PICK m : m = -1 /\ m \in Int
  OBVIOUS
<1>3. x \in LineSet /\ x.next = f.freeL /\ x.prev = -1
  <2>1. x = [NoLine EXCEPT !.next = f.freeL, !.prev = m]
    BY <1>1, <1>2
  <2>2. f.freeL \in Nat
    BY DEF Frames
  <2>3. x \in LineSet /\ x.next = f.freeL /\ x.prev = m
    BY <1>2, <2>1, <2>2, NothingTypes DEF LineSet
  <2> QED
    BY <1>2, <2>3
<1>4. PICK g : g = [f EXCEPT !.L[l] = x]
  OBVIOUS
<1>5. OneLine(f, g, l, x) /\ g \in Frames
  BY <1>3, <1>4, SetLineIs DEF OneLine, OnlyL
<1>6. h = [g EXCEPT !.freeL = l]
  BY <1>1, <1>4 DEF FreeLine
<1>7. l \in Nat
  BY LinksL
<1>8. h \in Frames /\ h.L = g.L /\ h.freeL = l /\ SameP(g, h) /\ SameB(g, h) /\ SameT(g,
    h) /\ SameC(g, h)
  BY <1>5, <1>6, <1>7 DEF Frames, SameP, SameB, SameT, SameC
<1>9. OnlyL(f, h)
  BY <1>5, <1>8, OnlyLTwice DEF OneLine, OnlyL
<1> QED
  BY <1>3, <1>5, <1>8, <1>9 DEF OneLine, FreedLine

\* An empty line y is put after line l, the last one of its paragraph.
LInserted(f, h, O, X, own, rank, l, y, X2, own2, rank2) ==
  /\ OnlyL(f, h) /\ LLayer(h, O, X2, own2, rank2)
  /\ y \notin X /\ y # 0 /\ Len(f.L) <= Len(h.L)
  /\ X2 = X \cup {y}
  /\ own2 \in [X2 -> O] /\ own2[y] = own[l] /\ \A x \in X : own2[x] = own[x]
  /\ rank2 \in [X2 -> Nat \ {0}]
  /\ \A x \in X : own[x] # own[l] => rank2[x] = rank[x]
  /\ h.L[y].firstB = 0 /\ h.L[y].next = 0 /\ h.L[l].next = y
  /\ \A x \in X : h.L[x].firstB = f.L[x].firstB /\ (x # l => h.L[x].next = f.L[x].next)

\* A line taken and linked after another one is in its paragraph there.
LEMMA LInsert ==
  ASSUME NEW f \in Frames, NEW O, NEW X, NEW own, NEW rank, LLayer(f, O, X, own, rank),
         O \subseteq 1 .. Len(f.P), NEW l \in X, f.L[l].next = 0,
         NEW y, y = Slot(f.freeL, f.L), NEW h, h = NextLine(f, l)
  PROVE  \E X2, own2, rank2 : LInserted(f, h, O, X, own, rank, l, y, X2, own2, rank2)
<1>1. /\ X \subseteq 1 .. Len(f.L) /\ f.freeL \in 0 .. Len(f.L) /\ Len(f.L) \in Nat
      /\ own \in [X -> O] /\ rank \in [X -> Nat \ {0}]
      /\ y = SlotAt(f.freeL, Len(f.L)) /\ y \notin X /\ l \in 1 .. Len(f.L)
  BY LLayerFacts DEF Slot, SlotAt
<1>2. y \in 1 .. Len(f.L) + 1 /\ y # 0 /\ l # y /\ y \in Nat /\ l \in Int
  BY <1>1 DEF SlotAt
<1>3. PICK g : g = NewLine(f)
  OBVIOUS
<1>4. /\ OnlyL(f, g)
      /\ Len(g.L) = (IF y <= Len(f.L) THEN Len(f.L) ELSE y)
      /\ g.L[y] = NoLine /\ (\A k \in 1 .. Len(f.L) : k # y => g.L[k] = f.L[k])
      /\ g.freeL = (IF f.freeL = 0 THEN 0 ELSE f.L[f.freeL].next)
  <2>1. f.freeL <= Len(f.L)
    BY <1>1
  <2> QED
    BY <1>3, <2>1, NewLineIs
<1>5. g \in Frames /\ y \in 1 .. Len(g.L) /\ l \in 1 .. Len(g.L) /\ Len(g.L) \in Nat /\ Len(f.L) <= Len(g.L)
  BY <1>1, <1>2, <1>4 DEF OnlyL
<1>6. PICK k : k = [g EXCEPT !.L[y].prev = l]
  OBVIOUS
<1>7. LinePrev(g, k, y, l)
  BY <1>2, <1>5, <1>6, SetLinePrevIs
<1>8. k \in Frames /\ l \in 1 .. Len(k.L) /\ Len(k.L) = Len(g.L)
  BY <1>5, <1>7 DEF LinePrev, OnlyL
<1>9. h = [k EXCEPT !.L[l].next = y]
  <2>1. h = [NewLine(f) EXCEPT !.L[Slot(f.freeL, f.L)].prev = l, !.L[l].next = Slot(f.freeL, f.L)]
    BY DEF NextLine
  <2> QED
    BY <1>3, <1>6, <2>1
<1>10. LineNext(k, h, l, y)
  BY <1>2, <1>8, <1>9, SetLineNextIs
<1>11. OnlyL(f, h) /\ Len(h.L) = Len(g.L) /\ h.freeL = g.freeL /\ h \in Frames
  BY <1>4, <1>7, <1>10, OnlyLTwice DEF LinePrev, LineNext, OnlyL
<1>12. h.L[y].prev = l /\ h.L[y].next = 0 /\ h.L[y].firstB = 0
  <2>1. g.L[y].next = 0 /\ g.L[y].firstB = 0
    BY <1>4 DEF NoLine
  <2>2. k.L[y].prev = l /\ k.L[y].next = 0 /\ k.L[y].firstB = 0
    BY <1>7, <2>1 DEF LinePrev
  <2>3. h.L[y] = k.L[y]
    BY <1>2, <1>5, <1>8, <1>10 DEF LineNext
  <2> QED
    BY <2>2, <2>3
<1>13. h.L[l].next = y /\ h.L[l].prev = f.L[l].prev /\ h.L[l].firstB = f.L[l].firstB
  <2>1. k.L[l] = f.L[l]
    BY <1>1, <1>2, <1>4, <1>5, <1>7 DEF LinePrev
  <2> QED
    BY <1>10, <2>1 DEF LineNext
<1>14. \A x \in 1 .. Len(f.L) : x # l /\ x # y => h.L[x] = f.L[x]
  <2> SUFFICES ASSUME NEW x \in 1 .. Len(f.L), x # l, x # y PROVE h.L[x] = f.L[x]
    OBVIOUS
  <2>1. x \in 1 .. Len(g.L)
    BY <1>5
  <2> QED
    BY <1>4, <1>7, <1>8, <1>10, <2>1 DEF LinePrev, LineNext
<1>15. PICK m : m = Len(h.L)
  OBVIOUS
<1>16. PICK N, top, top2 : N = Len(f.L) /\ top = f.freeL /\ top2 = h.freeL
  OBVIOUS
<1>17. PICK next, prev, first : next = NextL(f) /\ prev = PrevL(f) /\ first = FirstL(f)
  OBVIOUS
<1>18. \A x \in 1 .. N : next[x] = f.L[x].next /\ prev[x] = f.L[x].prev
  BY <1>16, <1>17, LinksL
<1>19. \A x \in 1 .. m : NextL(h)[x] = h.L[x].next /\ PrevL(h)[x] = h.L[x].prev
  BY <1>11, <1>15, LinksL
<1>20. \A o \in O : FirstL(h)[o] = first[o]
  <2>1. h.P = f.P
    BY <1>11 DEF OnlyL, SameP
  <2> QED
    BY <1>17, <2>1 DEF FirstL
<1>21. PICK X2 : X2 = X \cup {y}
  OBVIOUS
<1>22. PICK own2 : own2 = [x \in X2 |-> IF x = y THEN own[l] ELSE own[x]]
  OBVIOUS
<1>23. PICK rank2 : rank2 = [x \in X2 |-> InsertRank(rank, own, l, y, x)]
  OBVIOUS
<1>24. own2 \in [X2 -> O] /\ own2[y] = own[l] /\ \A x \in X : own2[x] = own[x]
  BY <1>1, <1>21, <1>22
<1>25. /\ rank2 \in [X2 -> Nat \ {0}] /\ rank2[y] = rank[l] + 1
       /\ \A x \in X : rank2[x] = IF own[x] = own[l] /\ rank[x] > rank[l] THEN rank[x] + 1 ELSE rank[x]
  <2>1. y \in X2 /\ \A x \in X : x \in X2 /\ x # y
    BY <1>1, <1>21
  <2>2. rank2[y] = rank[l] + 1
    BY <1>23, <2>1 DEF InsertRank
  <2>3. \A x \in X : rank2[x] = IF own[x] = own[l] /\ rank[x] > rank[l] THEN rank[x] + 1 ELSE rank[x]
    BY <1>23, <2>1 DEF InsertRank
  <2>4. \A x \in X2 : rank2[x] \in Nat \ {0}
    BY <1>1, <1>21, <2>2, <2>3
  <2>5. rank2 = [x \in X2 |-> rank2[x]]
    BY <1>23
  <2> QED
    BY <2>2, <2>3, <2>4, <2>5
<1>26. LayerInserts(N, X, O, own, rank, first, next, prev, top, l, y, m, top2,
                    FirstL(h), NextL(h), PrevL(h), X2, own2, rank2)
  <2>1. y = SlotAt(top, N) /\ m \in Nat /\ N <= m /\ y <= m /\ y \in 1 .. m /\ l \in 1 .. m
    BY <1>1, <1>5, <1>11, <1>15, <1>16
  <2>2. next[l] = 0 /\ NextL(h)[l] = y /\ NextL(h)[y] = 0 /\ PrevL(h)[y] = l
    BY <1>1, <1>12, <1>13, <1>16, <1>18, <1>19, <2>1
  <2>3. \A x \in 1 .. N : x # y => PrevL(h)[x] = prev[x] /\ (x # l => NextL(h)[x] = next[x])
    BY <1>1, <1>13, <1>14, <1>16, <1>18, <1>19, <2>1
  <2>4. top2 = IF top = 0 THEN 0 ELSE next[top]
    BY <1>1, <1>4, <1>11, <1>16, <1>18
  <2> QED
    BY <1>20, <1>21, <1>24, <1>25, <2>1, <2>2, <2>3, <2>4 DEF LayerInserts
<1>27. LLayer(h, O, X2, own2, rank2)
  <2>1. Layer(X, O, own, rank, first, next, prev, top, N)
    BY <1>16, <1>17 DEF LLayer
  <2>2. Layer(X2, O, own2, rank2, FirstL(h), NextL(h), PrevL(h), top2, m)
    BY <1>26, <2>1, LayerInsert
  <2> QED
    BY <1>15, <1>16, <2>2 DEF LLayer
<1>28. \A x \in X : h.L[x].firstB = f.L[x].firstB /\ (x # l => h.L[x].next = f.L[x].next)
  BY <1>1, <1>13, <1>14
<1>29. LInserted(f, h, O, X, own, rank, l, y, X2, own2, rank2)
  BY <1>1, <1>2, <1>5, <1>11, <1>12, <1>13, <1>21, <1>24, <1>25, <1>27, <1>28 DEF LInserted
<1> QED
  BY <1>29

\* While the lines of a paragraph are joined to its line l, the line after l has
\* another previous one than its link says.
PatchedL(f, l) == [x \in DOMAIN f.L |-> IF x = f.L[l].next THEN l ELSE f.L[x].prev]
MLayer(f, O, X, own, rank, l) ==
  Layer(X, O, own, rank, FirstL(f), NextL(f), PatchedL(f, l), f.freeL, Len(f.L))

\* Where nothing follows the merged line, no link back is missing.
LEMMA PatchedIs ==
  ASSUME NEW f \in Frames, NEW O, NEW X, NEW own, NEW rank, NEW l \in X, X \subseteq 1 .. Len(f.L),
         \/ LLayer(f, O, X, own, rank)
         \/ MLayer(f, O, X, own, rank, l) /\ f.L[l].next = 0
  PROVE  LLayer(f, O, X, own, rank) /\ MLayer(f, O, X, own, rank, l)
<1>1. PICK N : N = Len(f.L)
  OBVIOUS
<1>2. \A x \in 1 .. N : PrevL(f)[x] = f.L[x].prev /\ NextL(f)[x] = f.L[x].next
  BY <1>1, LinksL
<1>3. \A x \in 1 .. N : PatchedL(f, l)[x] = IF x = f.L[l].next THEN l ELSE f.L[x].prev
  <2>1. DOMAIN f.L = 1 .. N
    BY <1>1 DEF Frames
  <2> QED
    BY <2>1 DEF PatchedL
<1>4. ASSUME LLayer(f, O, X, own, rank) PROVE \A x \in 1 .. N : PatchedL(f, l)[x] = PrevL(f)[x]
  <2>1. Live(X, O, own, rank, FirstL(f), NextL(f), PrevL(f)) /\ l \in 1 .. N
    BY <1>1, <1>4 DEF LLayer, Layer
  <2>2. f.L[l].next # 0 => PrevL(f)[f.L[l].next] = l
    BY <1>2, <2>1 DEF Live, Forward
  <2> QED
    BY <1>2, <1>3, <2>2
<1>5. ASSUME f.L[l].next = 0 PROVE \A x \in 1 .. N : PatchedL(f, l)[x] = PrevL(f)[x]
  BY <1>2, <1>3, <1>5
<1>6. \A x \in 1 .. N : PatchedL(f, l)[x] = PrevL(f)[x]
  BY <1>4, <1>5
<1>7. PICK first, next, prev, prev2, top : first = FirstL(f) /\ next = NextL(f) /\ prev = PrevL(f)
        /\ prev2 = PatchedL(f, l) /\ top = f.freeL
  OBVIOUS
<1>8. (\A x \in 1 .. N : prev2[x] = prev[x]) /\ (\A x \in 1 .. N : prev[x] = prev2[x])
  BY <1>6, <1>7
<1>9. (\A o \in O : first[o] = first[o]) /\ (\A x \in 1 .. N : next[x] = next[x])
  OBVIOUS
<1>10. Layer(X, O, own, rank, first, next, prev, top, N) <=>
    Layer(X, O, own, rank, first, next, prev2, top, N)
  BY <1>8, <1>9, LayerSame
<1> QED
  BY <1>1, <1>7, <1>10 DEF LLayer, MLayer

LRemoved(f, h, O, X, own, rank, l, y, X2, own2, rank2) ==
  /\ MLayer(h, O, X2, own2, rank2, l)
  /\ X2 = X \ {y} /\ y \in X /\ y # l /\ own[y] = own[l]
  /\ own2 \in [X2 -> O] /\ \A x \in X2 : own2[x] = own[x]
  /\ rank2 \in [X2 -> Nat \ {0}]
  /\ \A x \in X2 : own[x] # own[l] => rank2[x] = rank[x]
  /\ OnlyL(f, h) /\ Len(h.L) = Len(f.L)
  /\ h.L[l].next = f.L[y].next
  /\ \A x \in X2 : h.L[x].firstB = f.L[x].firstB /\ (x # l => h.L[x].next = f.L[x].next)

\* The line after line l is freed.
LEMMA LRemove ==
  ASSUME NEW f \in Frames, NEW O, NEW X, NEW own, NEW rank, NEW l \in X,
         MLayer(f, O, X, own, rank, l),
         O \subseteq 1 .. Len(f.P), NEW y, y = f.L[l].next, y # 0,
         NEW h, h = FreeLine([f EXCEPT !.L[l].next = f.L[y].next], y)
  PROVE  \E X2, own2, rank2 : LRemoved(f, h, O, X, own, rank, l, y, X2, own2, rank2)
<1>1. PICK N, top, first, next, prev : N = Len(f.L) /\ top = f.freeL /\ first = FirstL(f)
         /\ next = NextL(f) /\ prev = PatchedL(f, l)
  OBVIOUS
<1>2. Layer(X, O, own, rank, first, next, prev, top, N)
  BY <1>1 DEF MLayer
<1>3. /\ X \subseteq 1 .. N /\ N \in Nat /\ Live(X, O, own, rank, first, next, prev)
      /\ own \in [X -> O] /\ rank \in [X -> Nat \ {0}]
  BY <1>2 DEF Layer, Live, Placed
<1>4. \A x \in 1 .. N : next[x] = f.L[x].next /\ f.L[x] \in LineSet
  BY <1>1, LinksL
<1>5. \A x \in 1 .. N : prev[x] = IF x = y THEN l ELSE f.L[x].prev
  <2>1. DOMAIN f.L = 1 .. N
    BY <1>1 DEF Frames
  <2> QED
    BY <1>1, <2>1 DEF PatchedL
<1>6. l \in 1 .. N /\ next[l] = y
  BY <1>3, <1>4
<1>7. /\ y \in X /\ y # l /\ own[y] = own[l] /\ prev[y] = l /\ rank[y] = rank[l] + 1
      /\ next[y] # l /\ next[y] # y
  BY <1>3, <1>6, LiveNext
<1>8. PICK n : n = f.L[y].next
  OBVIOUS
<1>9. n \in Nat /\ next[y] = n /\ y \in 1 .. N /\ (n # 0 => n \in X) /\ l # 0 /\ n # l /\ n # y
  <2>1. y \in 1 .. N
    BY <1>3, <1>7
  <2>2. next[y] # 0 => next[y] \in X
    BY <1>3, <1>7 DEF Live, Forward
  <2> QED
    BY <1>4, <1>6, <1>7, <1>8, <2>1, <2>2 DEF LineSet
<1>10. PICK g : g = [f EXCEPT !.L[l].next = n]
  OBVIOUS
<1>11. LineNext(f, g, l, n)
  BY <1>1, <1>6, <1>9, <1>10, SetLineNextIs
<1>12. g \in Frames /\ y \in 1 .. Len(g.L) /\ h = FreeLine(g, y)
  BY <1>1, <1>8, <1>9, <1>10, <1>11 DEF LineNext, OnlyL
<1>13. /\ OnlyL(g, h) /\ Len(h.L) = Len(g.L) /\ h.freeL = y
       /\ h.L[y].next = g.freeL /\ h.L[y].prev = -1
       /\ \A k \in 1 .. Len(g.L) : k # y => h.L[k] = g.L[k]
  <2>1. g \in Frames /\ y \in 1 .. Len(g.L)
    BY <1>12
  <2>2. h = FreeLine(g, y)
    BY <1>12
  <2>3. FreedLine(g, h, y)
    BY <2>1, <2>2, FreeLineIs
  <2> QED
    BY <2>3 DEF FreedLine
<1>14. OnlyL(f, h) /\ Len(h.L) = N /\ h \in Frames /\ h.L[y].next = top /\ h.L[y].prev = -1
  BY <1>1, <1>11, <1>13, OnlyLTwice DEF LineNext, OnlyL
<1>15. h.L[l].next = n /\ h.L[l].prev = f.L[l].prev /\ h.L[l].firstB = f.L[l].firstB
  BY <1>1, <1>6, <1>7, <1>11, <1>13 DEF LineNext
<1>16. \A x \in 1 .. N : x # l /\ x # y => h.L[x] = f.L[x]
  BY <1>1, <1>11, <1>13 DEF LineNext
<1>17. \A x \in 1 .. N : NextL(h)[x] = h.L[x].next
  BY <1>14, LinksL
<1>18. \A x \in 1 .. N : PatchedL(h, l)[x] = IF x = n THEN l ELSE h.L[x].prev
  <2>1. DOMAIN h.L = 1 .. N
    <3>1. h.L \in Seq(LineSet)
      BY <1>14 DEF Frames
    <3>2. Len(h.L) = N
      BY <1>14
    <3> QED
      BY ONLY <3>1, <3>2
  <2> QED
    BY <1>15, <2>1 DEF PatchedL
<1>19. \A o \in O : FirstL(h)[o] = first[o]
  <2>1. h.P = f.P
    BY <1>14 DEF OnlyL, SameP
  <2> QED
    BY <1>1, <2>1 DEF FirstL
<1>20. PICK X2 : X2 = X \ {y}
  OBVIOUS
<1>21. PICK own2 : own2 = [x \in X2 |-> own[x]]
  OBVIOUS
<1>22. PICK rank2 : rank2 = [x \in X2 |-> BRemoveRank(own, rank, y, x)]
  OBVIOUS
<1>23. own2 \in [X2 -> O] /\ \A x \in X2 : own2[x] = own[x]
  BY <1>3, <1>20, <1>21
<1>24. rank2 \in [X2 -> Nat \ {0}] /\ \A x \in X2 : rank2[x] =
          IF own[x] = own[y] /\ rank[x] > rank[y] THEN rank[x] - 1 ELSE rank[x]
  <2>1. \A x \in X2 : rank2[x] = IF own[x] = own[y] /\ rank[x] > rank[y] THEN rank[x] - 1 ELSE rank[x]
    BY <1>22 DEF BRemoveRank
  <2>2. \A x \in X2 : rank2[x] \in Nat \ {0}
    BY <1>3, <1>7, <1>20, <2>1
  <2>3. rank2 = [x \in X2 |-> rank2[x]]
    BY <1>22
  <2> QED
    BY <2>1, <2>2, <2>3
<1>25. LayerRemoves(N, X, O, own, rank, first, next, prev, top, y, FirstL(h), NextL(h),
    PatchedL(h, l), X2, own2, rank2)
  <2>1. prev[y] # 0 /\ NextL(h)[y] = top
    BY <1>7, <1>9, <1>14, <1>17
  <2>2. \A x \in 1 .. N : x # y => NextL(h)[x] = IF x = prev[y] THEN next[y] ELSE next[x]
    <3> SUFFICES ASSUME NEW x \in 1 .. N,
        x # y PROVE NextL(h)[x] = IF x = prev[y] THEN next[y] ELSE next[x]
      OBVIOUS
    <3>1. NextL(h)[x] = h.L[x].next /\ next[x] = f.L[x].next
      BY <1>4, <1>17
    <3> QED
      BY <1>7, <1>9, <1>15, <1>16, <3>1
  <2>3. PatchedL(h, l)[y] = -1
    BY <1>9, <1>14, <1>18
  <2>4. \A x \in 1 .. N : x # y => PatchedL(h, l)[x] = IF x = next[y] THEN prev[y] ELSE prev[x]
    <3> SUFFICES ASSUME NEW x \in 1 .. N, x # y PROVE PatchedL(h,
        l)[x] = IF x = next[y] THEN prev[y] ELSE prev[x]
      OBVIOUS
    <3>1. PatchedL(h, l)[x] = IF x = n THEN l ELSE h.L[x].prev
      BY <1>18
    <3>2. prev[x] = f.L[x].prev
      BY <1>5
    <3>3. h.L[x].prev = f.L[x].prev
      BY <1>15, <1>16
    <3> QED
      BY <1>7, <1>9, <3>1, <3>2, <3>3
  <2> QED
    BY <1>7, <1>19, <1>20, <1>23, <1>24, <2>1, <2>2, <2>3, <2>4 DEF LayerRemoves
<1>26. MLayer(h, O, X2, own2, rank2, l)
  <2>1. Layer(X2, O, own2, rank2, FirstL(h), NextL(h), PatchedL(h, l), y, N)
    BY <1>2, <1>25, LayerRemove
  <2>2. h.freeL = y
    BY <1>13
  <2> QED
    BY <1>14, <2>1, <2>2 DEF MLayer
<1>27. \A x \in X2 : h.L[x].firstB = f.L[x].firstB /\ (x # l => h.L[x].next = f.L[x].next)
  BY <1>3, <1>15, <1>16, <1>20
<1>28. LRemoved(f, h, O, X, own, rank, l, y, X2, own2, rank2)
  BY <1>1, <1>7, <1>8, <1>14, <1>15, <1>20, <1>23, <1>24, <1>26, <1>27 DEF LRemoved
<1> QED
  BY <1>28

(***************************************************************************)
(* Lists as sequences, and what is kept of them.                           *)
(***************************************************************************)
ListOf(s, X, own, rank, o) ==
  /\ Len(s) \in Nat \ {0} /\ s \in [1 .. Len(s) -> X]
  /\ \A k \in 1 .. Len(s) : own[s[k]] = o /\ rank[s[k]] = k
  /\ \A x \in X : own[x] = o => rank[x] \in 1 .. Len(s) /\ s[rank[x]] = x

\* Following the links gives a list that says where each element is.
LEMMA ListIs ==
  ASSUME NEW s, NEW n \in Nat, NEW X, NEW o, NEW own, NEW rank, NEW first, NEW next,
         WalkOf(s, n, X, o, own, rank, first, next), first[o] # 0
  PROVE  /\ ListOf(s, X, own, rank, o) /\ Len(s) = n /\ s[1] = first[o] /\ next[s[n]] = 0
         /\ \A k \in 1 .. n - 1 : next[s[k]] = s[k + 1]
<1>1. n # 0 /\ s \in [1 .. n -> X]
  BY DEF WalkOf
<1>2. Len(s) = n
  <2>1. DOMAIN s = 1 .. n
    BY <1>1
  <2>2. s \in Seq(X)
    BY <1>1
  <2> QED
    BY <2>1, <2>2
<1> QED
  BY <1>1, <1>2 DEF WalkOf, ListOf

BoxList(bs, f, X, own, rank, l) ==
  /\ ListOf(bs, X, own, rank, l) /\ bs[1] = f.L[l].firstB
  /\ NextIndex(f, bs[Len(bs)]) = 0
  /\ \A k \in 1 .. Len(bs) - 1 : NextIndex(f, bs[k]) = bs[k + 1]
LineList(ls, f, X, own, rank, p) ==
  /\ ListOf(ls, X, own, rank, p) /\ ls[1] = f.P[p].firstL
  /\ f.L[ls[Len(ls)]].next = 0
  /\ \A k \in 1 .. Len(ls) - 1 : f.L[ls[k]].next = ls[k + 1]

\* Following the boxes of a line gives its boxes by rank.
LEMMA BoxesAre ==
  ASSUME NEW f \in Frames, NEW O, NEW X, NEW own, NEW rank, BLayer(f, O, X, own, rank), NEW l \in O,
         O \subseteq 1 .. Len(f.L), NEW bs, bs = Boxes(f, l)
  PROVE  BoxList(bs, f, X, own, rank, l)
<1>1. PICK N : N = Len(f.B)
  OBVIOUS
<1>2. PICK first, next, prev : first = FirstB(f) /\ next = NextB(f) /\ prev = PrevB(f)
  OBVIOUS
<1>3. X \subseteq 1 .. N /\ N \in Nat /\ Live(X, O, own, rank, first, next,
    prev) /\ \A o \in O : first[o] # 0
  BY <1>1, <1>2 DEF BLayer, Layer
<1>4. DOMAIN next = 0 .. N /\ next[0] = 0 /\ (\A x \in 1 .. N : next[x] = NextIndex(f,
    x)) /\ first[l] = f.L[l].firstB
  BY <1>1, <1>2, LinksB
<1>5. PICK n \in 0 .. N : WalkOf(Follow(next, first[l]), n, X, l, own, rank, first, next)
  BY <1>3, <1>4, LiveWalk
<1>6. bs = Follow(next, first[l])
  BY <1>2, <1>4 DEF Boxes
<1>7. WalkOf(bs, n, X, l, own, rank, first, next) /\ n \in Nat /\ first[l] # 0
  BY <1>3, <1>5, <1>6
<1>8. /\ ListOf(bs, X, own, rank, l) /\ Len(bs) = n /\ bs[1] = first[l] /\ next[bs[n]] = 0
      /\ \A k \in 1 .. n - 1 : next[bs[k]] = bs[k + 1]
  BY <1>7, ListIs, SMTT(30)
<1>9. \A k \in 1 .. n : bs[k] \in 1 .. N
  BY <1>3, <1>8 DEF ListOf
<1>10. bs[n] \in 1 .. N /\ \A k \in 1 .. n - 1 : bs[k] \in 1 .. N
  <2>1. n \in 1 .. n /\ \A k \in 1 .. n - 1 : k \in 1 .. n
    BY <1>7, <1>8 DEF ListOf
  <2> QED
    BY <1>9, <2>1
<1>11. NextIndex(f, bs[n]) = 0 /\ \A k \in 1 .. n - 1 : NextIndex(f, bs[k]) = bs[k + 1]
  BY <1>4, <1>8, <1>10
<1> QED
  BY <1>4, <1>8, <1>11 DEF BoxList

\* Following the lines of a paragraph gives its lines by rank.
LEMMA LinesAre ==
  ASSUME NEW f \in Frames, NEW O, NEW X, NEW own, NEW rank, LLayer(f, O, X, own, rank), NEW p \in O,
         O \subseteq 1 .. Len(f.P), NEW ls, ls = Lines(f, p)
  PROVE  LineList(ls, f, X, own, rank, p)
<1>1. PICK N : N = Len(f.L)
  OBVIOUS
<1>2. PICK first, next, prev : first = FirstL(f) /\ next = NextL(f) /\ prev = PrevL(f)
  OBVIOUS
<1>3. X \subseteq 1 .. N /\ N \in Nat /\ Live(X, O, own, rank, first, next,
    prev) /\ \A o \in O : first[o] # 0
  BY <1>1, <1>2 DEF LLayer, Layer
<1>4. DOMAIN next = 0 .. N /\ next[0] = 0 /\ (\A x \in 1 .. N : next[x] = f.L[x].next) /\ first[p] = f.P[p].firstL
  BY <1>1, <1>2, LinksL
<1>5. PICK n \in 0 .. N : WalkOf(Follow(next, first[p]), n, X, p, own, rank, first, next)
  BY <1>3, <1>4, LiveWalk
<1>6. ls = Follow(next, first[p])
  BY <1>2, <1>4 DEF Lines
<1>7. WalkOf(ls, n, X, p, own, rank, first, next) /\ n \in Nat /\ first[p] # 0
  BY <1>3, <1>5, <1>6
<1>8. /\ ListOf(ls, X, own, rank, p) /\ Len(ls) = n /\ ls[1] = first[p] /\ next[ls[n]] = 0
      /\ \A k \in 1 .. n - 1 : next[ls[k]] = ls[k + 1]
  BY <1>7, ListIs
<1>9. \A k \in 1 .. n : ls[k] \in 1 .. N
  BY <1>3, <1>8 DEF ListOf
<1>10. ls[n] \in 1 .. N /\ \A k \in 1 .. n - 1 : ls[k] \in 1 .. N
  <2>1. n \in 1 .. n /\ \A k \in 1 .. n - 1 : k \in 1 .. n
    BY <1>7, <1>8 DEF ListOf
  <2> QED
    BY <1>9, <2>1
<1>11. f.L[ls[n]].next = 0 /\ \A k \in 1 .. n - 1 : f.L[ls[k]].next = ls[k + 1]
  BY <1>4, <1>8, <1>10
<1> QED
  BY <1>4, <1>8, <1>11 DEF LineList

\* A list is known by its elements and their places.
SamePlaces(X, own, rank, X2, own2, rank2, o) ==
  /\ \A x \in X : own[x] = o => x \in X2 /\ own2[x] = o /\ rank2[x] = rank[x]
  /\ \A x \in X2 : own2[x] = o => x \in X /\ own[x] = o

\* Lists with the same elements at the same ranks are the same.
LEMMA ListSame ==
  ASSUME NEW s, NEW t, NEW X, NEW own, NEW rank, NEW X2, NEW own2, NEW rank2, NEW o,
         ListOf(s, X, own, rank, o), ListOf(t, X2, own2, rank2, o),
         SamePlaces(X, own, rank, X2, own2, rank2, o)
  PROVE  t = s
<1>1. \A k \in 1 .. Len(s) : k \in 1 .. Len(t) /\ t[k] = s[k]
  <2> SUFFICES ASSUME NEW k \in 1 .. Len(s) PROVE k \in 1 .. Len(t) /\ t[k] = s[k]
    OBVIOUS
  <2>1. PICK x : x = s[k]
    OBVIOUS
  <2>2. x \in X /\ own[x] = o /\ rank[x] = k
    BY <2>1 DEF ListOf
  <2>3. x \in X2 /\ own2[x] = o /\ rank2[x] = k
    BY <2>2 DEF SamePlaces
  <2> QED
    BY <2>1, <2>3 DEF ListOf
<1>2. \A k \in 1 .. Len(t) : k \in 1 .. Len(s)
  <2> SUFFICES ASSUME NEW k \in 1 .. Len(t) PROVE k \in 1 .. Len(s)
    OBVIOUS
  <2>1. PICK x : x = t[k]
    OBVIOUS
  <2>2. x \in X2 /\ own2[x] = o /\ rank2[x] = k
    BY <2>1 DEF ListOf
  <2>3. x \in X /\ own[x] = o /\ rank[x] = k
    BY <2>2 DEF SamePlaces
  <2> QED
    BY <2>3 DEF ListOf
<1>3. Len(t) = Len(s)
  <2>1. Len(t) \in Nat \ {0} /\ Len(s) \in Nat \ {0}
    BY DEF ListOf
  <2>2. Len(t) \in 1 .. Len(t) /\ Len(s) \in 1 .. Len(s)
    BY <2>1
  <2>3. Len(t) <= Len(s) /\ Len(s) <= Len(t)
    BY <1>1, <1>2, <2>1, <2>2
  <2> QED
    BY <2>1, <2>3
<1>4. PICK n : n = Len(s)
  OBVIOUS
<1>5. DOMAIN s = 1 .. n /\ DOMAIN t = 1 .. n /\ s = [k \in 1 .. n |-> s[k]] /\ t = [k \in 1 .. n |-> t[k]]
  BY <1>3, <1>4 DEF ListOf
<1> QED
  BY <1>1, <1>4, <1>5

\* A line has the same boxes, and they the same texts.
LineKept(f, h, l) ==
  /\ Boxes(h, l) = Boxes(f, l) /\ h.L[l].firstB = f.L[l].firstB
  /\ \A k \in 1 .. Len(Boxes(f, l)) : SameText(f.B[Boxes(f, l)[k]], h.B[Boxes(f, l)[k]])

\* A line kept twice is kept.
LEMMA LineKeptTwice ==
  ASSUME NEW f, NEW g, NEW h, NEW l, LineKept(f, g, l), LineKept(g, h, l)
  PROVE  LineKept(f, h, l)
BY DEF LineKept, SameText

\* A line is kept when its boxes, their texts and the width are.
LEMMA LineKeptIs ==
  ASSUME NEW f \in Frames, NEW O, NEW X, NEW own, NEW rank, BLayer(f, O, X, own, rank),
         O \subseteq 1 .. Len(f.L), NEW l \in O,
         NEW h \in Frames, NEW O2, NEW X2, NEW own2, NEW rank2, BLayer(h, O2, X2, own2, rank2),
         O2 \subseteq 1 .. Len(h.L), l \in O2,
         SamePlaces(X, own, rank, X2, own2, rank2, l),
         h.L[l].firstB = f.L[l].firstB,
         \A x \in X : own[x] = l => SameText(f.B[x], h.B[x])
  PROVE  LineKept(f, h, l)
<1>1. PICK s, t : s = Boxes(f, l) /\ t = Boxes(h, l)
  OBVIOUS
<1>2. ListOf(s, X, own, rank, l) /\ ListOf(t, X2, own2, rank2, l)
  <2>1. BoxList(s, f, X, own, rank, l) /\ BoxList(t, h, X2, own2, rank2, l)
    BY <1>1, BoxesAre
  <2> QED
    BY <2>1 DEF BoxList
<1>3. t = s
  BY <1>2, ListSame
<1>4. \A k \in 1 .. Len(s) : s[k] \in X /\ own[s[k]] = l
  BY <1>2 DEF ListOf
<1> QED
  BY <1>1, <1>3, <1>4 DEF LineKept

Fits(f, l) ==
  LineWidth(f, l) > f.width => Len(Boxes(f, l)) = 1 /\ f.B[f.L[l].firstB].kind # "text"

\* The widths of the boxes of a list.
LEMMA WidthsAre ==
  ASSUME NEW f \in Frames, NEW s, Len(s) \in Nat, DOMAIN s = 1 .. Len(s),
         \A k \in 1 .. Len(s) : s[k] \in 1 .. Len(f.B)
  PROVE  /\ WidthUpTo(f, s, 0) = 0
         /\ \A k \in 0 .. Len(s) : WidthUpTo(f, s, k) \in Int
         /\ \A k \in 1 .. Len(s) : WidthUpTo(f, s, k) = WidthUpTo(f, s, k - 1) + BoxWidth(f, s[k])
         /\ \A k \in 1 .. Len(s) : BoxWidth(f, s[k]) \in Int
<1>1. PICK c : c = [i \in DOMAIN s |-> BoxWidth(f, s[i])]
  OBVIOUS
<1>2. \A k : WidthUpTo(f, s, k) = Total(c, k)
  BY <1>1 DEF WidthUpTo
<1>3. \A k \in 1 .. Len(s) : BoxWidth(f, s[k]) \in Int
  <2> SUFFICES ASSUME NEW k \in 1 .. Len(s) PROVE BoxWidth(f, s[k]) \in Int
    OBVIOUS
  <2>1. f.B[s[k]] \in BoxSet /\ f.width \in Nat
    BY NextIndexType DEF Frames
  <2> QED
    BY <2>1 DEF BoxWidth, BoxSet
<1>4. \A k \in 1 .. Len(s) : c[k] \in Int /\ c[k] = BoxWidth(f, s[k])
  BY <1>1, <1>3
<1>5. \A k \in 0 .. Len(s) : Total(c, k) \in Int
  BY <1>4, TotalType
<1>6. Total(c, 0) = 0 /\ \A k \in Nat : Total(c, k + 1) = Total(c, k) + c[k + 1]
  BY TotalSteps
<1>7. \A k \in 1 .. Len(s) : Total(c, k) = Total(c, k - 1) + c[k]
  <2> SUFFICES ASSUME NEW k \in 1 .. Len(s) PROVE Total(c, k) = Total(c, k - 1) + c[k]
    OBVIOUS
  <2>1. k - 1 \in Nat /\ (k - 1) + 1 = k
    OBVIOUS
  <2> QED
    BY <1>6, <2>1
<1> QED
  BY <1>2, <1>3, <1>4, <1>5, <1>6, <1>7

\* Boxes of the same texts have the same widths.
BoxesAlike(f, h, s, t, n) ==
  /\ n \in Nat /\ n <= Len(s) /\ n <= Len(t)
  /\ Len(s) \in Nat /\ DOMAIN s = 1 .. Len(s) /\ \A k \in 1 .. Len(s) : s[k] \in 1 .. Len(f.B)
  /\ Len(t) \in Nat /\ DOMAIN t = 1 .. Len(t)
  /\ h.width = f.width /\ \A k \in 1 .. n : t[k] = s[k] /\ SameText(f.B[s[k]], h.B[t[k]])

\* Boxes of the same widths fill the same columns.
LEMMA WidthsSame ==
  ASSUME NEW f \in Frames, NEW h \in Frames, NEW s, NEW t, NEW n, BoxesAlike(f, h, s, t, n)
  PROVE  \A k \in 0 .. n : WidthUpTo(h, t, k) = WidthUpTo(f, s, k)
<1>0. /\ n \in Nat /\ n <= Len(s) /\ n <= Len(t)
      /\ Len(s) \in Nat /\ DOMAIN s = 1 .. Len(s) /\ (\A k \in 1 .. Len(s) : s[k] \in 1 .. Len(f.B))
      /\ Len(t) \in Nat /\ DOMAIN t = 1 .. Len(t)
      /\ h.width = f.width /\ \A k \in 1 .. n : t[k] = s[k] /\ SameText(f.B[s[k]], h.B[t[k]])
  BY DEF BoxesAlike
<1>1. PICK c : c = [i \in DOMAIN s |-> BoxWidth(f, s[i])]
  OBVIOUS
<1>2. PICK d : d = [i \in DOMAIN t |-> BoxWidth(h, t[i])]
  OBVIOUS
<1>3. \A k : WidthUpTo(f, s, k) = Total(c, k) /\ WidthUpTo(h, t, k) = Total(d, k)
  BY <1>1, <1>2 DEF WidthUpTo
<1>4. \A k \in 1 .. n : c[k] \in Int /\ d[k] = c[k]
  <2> SUFFICES ASSUME NEW k \in 1 .. n PROVE c[k] \in Int /\ d[k] = c[k]
    OBVIOUS
  <2>1. k \in DOMAIN s /\ k \in DOMAIN t /\ k \in 1 .. Len(s)
    BY <1>0
  <2>2. BoxWidth(f, s[k]) \in Int
    BY <1>0, <2>1, WidthsAre
  <2>3. BoxWidth(h, t[k]) = BoxWidth(f, s[k])
    BY <1>0 DEF BoxWidth, SameText
  <2> QED
    BY <1>1, <1>2, <2>1, <2>2, <2>3
<1>5. \A k \in 0 .. n : Total(d, k) = Total(c, k)
  BY <1>0, <1>4, TotalSame, ZenonT(30)
<1> QED
  BY <1>3, <1>5

\* A line that is kept fits as it did.
LEMMA FitsKept ==
  ASSUME NEW f \in Frames, NEW O, NEW X, NEW own, NEW rank, BLayer(f, O, X, own, rank),
         O \subseteq 1 .. Len(f.L), NEW l \in O, NEW h \in Frames, h.width = f.width,
             LineKept(f, h, l)
  PROVE  /\ LineWidth(h, l) = LineWidth(f, l)
         /\ Fits(f, l) => Fits(h, l)
<1>1. PICK s : s = Boxes(f, l)
  OBVIOUS
<1>2. ListOf(s, X, own, rank, l) /\ s[1] = f.L[l].firstB
  <2>1. BoxList(s, f, X, own, rank, l)
    BY <1>1, BoxesAre
  <2> QED
    BY <2>1 DEF BoxList
<1>3. Boxes(h, l) = s /\ h.L[l].firstB = s[1] /\ \A k \in 1 .. Len(s) : SameText(f.B[s[k]],
    h.B[s[k]])
  BY <1>1, <1>2 DEF LineKept
<1>4. PICK n : n = Len(s)
  OBVIOUS
<1>5. n \in Nat \ {0} /\ DOMAIN s = 1 .. n /\ \A k \in 1 .. n : s[k] \in 1 .. Len(f.B)
  BY <1>2, <1>4, BLayerFacts DEF ListOf
<1>6. \A k \in 0 .. n : WidthUpTo(h, s, k) = WidthUpTo(f, s, k)
  <2>1. n <= Len(s) /\ Len(s) \in Nat /\ DOMAIN s = 1 .. Len(s) /\ n \in Nat
        /\ (\A k \in 1 .. Len(s) : s[k] \in 1 .. Len(f.B))
        /\ \A k \in 1 .. n : s[k] = s[k] /\ SameText(f.B[s[k]], h.B[s[k]])
    BY <1>3, <1>4, <1>5
  <2>2. BoxesAlike(f, h, s, s, n)
    BY <2>1 DEF BoxesAlike
  <2> QED
    BY <2>2, WidthsSame
<1>7. LineWidth(h, l) = LineWidth(f, l)
  BY <1>1, <1>3, <1>4, <1>5, <1>6 DEF LineWidth
<1>8. h.B[s[1]].kind = f.B[s[1]].kind
  BY <1>3, <1>4, <1>5 DEF SameText
<1> QED
  BY <1>1, <1>2, <1>3, <1>7, <1>8 DEF Fits

(***************************************************************************)
(* The lines and boxes of the paragraphs Q.                                *)
(***************************************************************************)
BoxGood(text, x) ==
  /\ x.kind # "line" => x.i <= x.j /\ x.j <= Len(text)
  /\ x.kind = "text" => x.w = Columns(text, x.j) - Columns(text, x.i)
BoxesGood(f, X) == \A x \in X : BoxGood(f.text, f.B[x])
LineBoxesLast(f, X, own) == \A x \in X : f.B[x].kind = "line" => f.L[own[x]].next = 0

LB(f, Q, XL, oL, rL, XB, oB, rB) ==
  /\ f \in Frames /\ Q \subseteq 1 .. Len(f.P)
  /\ LLayer(f, Q, XL, oL, rL)
  /\ BLayer(f, XL, XB, oB, rB)
  /\ BoxesGood(f, XB)
  /\ LineBoxesLast(f, XB, oB)

\* What well-formed lines and boxes are, part by part.
LEMMA LBFacts ==
  ASSUME NEW f, NEW Q, NEW XL, NEW oL, NEW rL, NEW XB, NEW oB, NEW rB,
         LB(f, Q, XL, oL, rL, XB, oB, rB)
  PROVE  /\ f \in Frames /\ Q \subseteq 1 .. Len(f.P) /\ XL \subseteq 1 .. Len(f.L) /\ XB \subseteq 1 .. Len(f.B)
         /\ LLayer(f, Q, XL, oL, rL) /\ BLayer(f, XL, XB, oB, rB)
         /\ oL \in [XL -> Q] /\ rL \in [XL -> Nat \ {0}] /\ oB \in [XB -> XL] /\ rB \in [XB -> Nat \ {0}]
<1>1. f \in Frames /\ Q \subseteq 1 .. Len(f.P) /\ LLayer(f, Q, XL, oL, rL) /\ BLayer(f, XL, XB,
    oB, rB)
  BY DEF LB
<1>2. XL \subseteq 1 .. Len(f.L) /\ oL \in [XL -> Q] /\ rL \in [XL -> Nat \ {0}]
  BY <1>1, LLayerFacts
<1>3. XB \subseteq 1 .. Len(f.B) /\ oB \in [XB -> XL] /\ rB \in [XB -> Nat \ {0}]
  BY <1>1, BLayerFacts
<1> QED
  BY <1>1, <1>2, <1>3

\* The boxes stay as they are when the lines change, but for their links.
LEMMA BLayerKept ==
  ASSUME NEW f \in Frames, NEW h \in Frames, NEW O, NEW X, NEW own, NEW rank,
         BLayer(f, O, X, own, rank),
         SameB(f, h), O \subseteq 1 .. Len(f.L), O \subseteq 1 .. Len(h.L),
         \A o \in O : h.L[o].firstB = f.L[o].firstB
  PROVE  BLayer(h, O, X, own, rank)
<1>1. PICK N, top, next, prev : N = Len(f.B) /\ top = f.freeB /\ next = NextB(f) /\ prev = PrevB(f)
  OBVIOUS
<1>2. PICK first, first2 : first = FirstB(f) /\ first2 = FirstB(h)
  OBVIOUS
<1>3. NextB(h) = next /\ PrevB(h) = prev /\ Len(h.B) = N /\ h.freeB = top
  <2>1. h.B = f.B /\ h.freeB = f.freeB
    BY DEF SameB
  <2>2. \A b : NextIndex(h, b) = NextIndex(f, b)
    BY <2>1 DEF NextIndex
  <2> QED
    BY <1>1, <2>1, <2>2 DEF NextB, PrevB
<1>4. \A o \in O : first2[o] = first[o]
  <2>1. \A o \in O : o \in 1 .. Len(f.L) /\ o \in 1 .. Len(h.L)
    OBVIOUS
  <2> QED
    BY <1>2, <2>1, LinksB
<1>5. Layer(X, O, own, rank, first, next, prev, top, N)
  BY <1>1, <1>2 DEF BLayer
<1>6. (\A x \in 1 .. N : next[x] = next[x]) /\ (\A x \in 1 .. N : prev[x] = prev[x])
  OBVIOUS
<1>7. Layer(X, O, own, rank, first2, next, prev, top, N)
  BY <1>4, <1>5, <1>6, LayerSame
<1> QED
  BY <1>2, <1>3, <1>7 DEF BLayer

\* The lines stay as they are when the boxes change.
LEMMA LLayerKept ==
  ASSUME NEW f \in Frames, NEW h \in Frames, NEW O, NEW X, NEW own, NEW rank,
         LLayer(f, O, X, own, rank),
         h.freeL = f.freeL, Len(h.L) = Len(f.L), O \subseteq 1 .. Len(f.P),
             O \subseteq 1 .. Len(h.P),
         \A o \in O : h.P[o].firstL = f.P[o].firstL,
         \A x \in 1 .. Len(f.L) : h.L[x].next = f.L[x].next /\ h.L[x].prev = f.L[x].prev
  PROVE  LLayer(h, O, X, own, rank)
<1>1. PICK N, top, next, prev : N = Len(f.L) /\ top = f.freeL /\ next = NextL(f) /\ prev = PrevL(f)
  OBVIOUS
<1>2. PICK first, first2, next2,
    prev2 : first = FirstL(f) /\ first2 = FirstL(h) /\ next2 = NextL(h) /\ prev2 = PrevL(h)
  OBVIOUS
<1>3. (\A x \in 1 .. N : next2[x] = next[x]) /\ (\A x \in 1 .. N : prev2[x] = prev[x])
  <2>1. \A x \in 1 .. N : next[x] = f.L[x].next /\ prev[x] = f.L[x].prev
    BY <1>1, LinksL
  <2>2. \A x \in 1 .. N : next2[x] = h.L[x].next /\ prev2[x] = h.L[x].prev
    BY <1>1, <1>2, LinksL
  <2> QED
    BY <1>1, <2>1, <2>2
<1>4. \A o \in O : first2[o] = first[o]
  <2>1. \A o \in O : o \in 1 .. Len(f.P) /\ o \in 1 .. Len(h.P)
    OBVIOUS
  <2> QED
    BY <1>2, <2>1, LinksL
<1>5. Layer(X, O, own, rank, first, next, prev, top, N)
  BY <1>1, <1>2 DEF LLayer
<1>6. Layer(X, O, own, rank, first2, next2, prev2, top, N)
  BY <1>3, <1>4, <1>5, LayerSame
<1> QED
  BY <1>1, <1>2, <1>6 DEF LLayer

\* The boxes after b, of the last line l of a paragraph, go to a new line y.
RestMoved(f, h, Q, XL, oL, rL, XB, oB, rB, l, b, y, XL2, oL2, rL2, oB2, rB2) ==
  /\ LB(h, Q, XL2, oL2, rL2, XB, oB2, rB2)
  /\ SameP(f, h) /\ SameT(f, h) /\ SameC(f, h) /\ Len(h.B) = Len(f.B)
  /\ y \notin XL /\ XL2 = XL \cup {y} /\ oL2[y] = oL[l] /\ h.L[l].next = y /\ h.L[y].next = 0
  /\ \A x \in XL : oL2[x] = oL[x] /\ h.L[x].firstB = f.L[x].firstB
  /\ \A q \in Q : q # oL[l] => SamePlaces(XL, oL, rL, XL2, oL2, rL2, q)
  /\ \A x \in XB : oB2[x] = IF oB[x] = l /\ rB[x] > rB[b] THEN y ELSE oB[x]
  /\ \A x \in XB : ~(oB[x] = l /\ rB[x] > rB[b]) => rB2[x] = rB[x]
  /\ \A x \in XB : SameText(f.B[x], h.B[x])

\* What follows a box starts the next line, before what that line had.
LEMMA MoveRestIs ==
  ASSUME NEW f, NEW Q, NEW XL, NEW oL, NEW rL, NEW XB, NEW oB, NEW rB,
         LB(f, Q, XL, oL, rL, XB, oB, rB),
         NEW l \in XL, f.L[l].next = 0, NEW b \in XB, oB[b] = l, NextIndex(f, b) # 0,
         NEW h, h = MoveRest(f, l, b)
  PROVE  \E y, XL2, oL2, rL2, oB2, rB2 : RestMoved(f, h, Q, XL, oL, rL, XB, oB, rB, l, b, y, XL2,
         oL2, rL2, oB2, rB2)
<1>1. /\ f \in Frames /\ Q \subseteq 1 .. Len(f.P) /\ XL \subseteq 1 .. Len(f.L) /\ XB \subseteq 1 .. Len(f.B)
      /\ LLayer(f, Q, XL, oL, rL) /\ BLayer(f, XL, XB, oB, rB)
      /\ oL \in [XL -> Q] /\ oB \in [XB -> XL] /\ rB \in [XB -> Nat \ {0}]
  BY LBFacts
<1>2. PICK y : y = Slot(f.freeL, f.L)
  OBVIOUS
<1>3. PICK g : g = NextLine(f, l)
  OBVIOUS
<1>4. PICK XL2, oL2, rL2 : LInserted(f, g, Q, XL, oL, rL, l, y, XL2, oL2, rL2)
  BY <1>1, <1>2, <1>3, LInsert
<1>5. /\ OnlyL(f, g) /\ LLayer(g, Q, XL2, oL2, rL2) /\ y \notin XL /\ Len(f.L) <= Len(g.L)
      /\ XL2 = XL \cup {y}
      /\ oL2 \in [XL2 -> Q] /\ oL2[y] = oL[l] /\ (\A x \in XL : oL2[x] = oL[x])
      /\ (\A x \in XL : oL[x] # oL[l] => rL2[x] = rL[x])
      /\ g.L[y].firstB = 0 /\ g.L[y].next = 0 /\ g.L[l].next = y
      /\ \A x \in XL : g.L[x].firstB = f.L[x].firstB /\ (x # l => g.L[x].next = f.L[x].next)
  BY <1>4 DEF LInserted
<1>6. g \in Frames /\ SameP(f, g) /\ SameB(f, g) /\ SameT(f, g) /\ SameC(f,
    g) /\ g.B = f.B /\ Q \subseteq 1 .. Len(g.P)
  BY <1>1, <1>5 DEF OnlyL, SameB, SameP
<1>7. XL2 \subseteq 1 .. Len(g.L) /\ XL \subseteq 1 .. Len(g.L) /\ y \in 1 .. Len(g.L)
  <2>1. XL2 \subseteq 1 .. Len(g.L)
    BY <1>5, <1>6, LLayerFacts
  <2> QED
    BY <1>5, <2>1
<1>8. BLayer(g, XL, XB, oB, rB)
  BY <1>1, <1>5, <1>6, <1>7, BLayerKept
<1>9. PICK rest : rest = NextIndex(f, b)
  OBVIOUS
<1>10. rest = NextIndex(g, b) /\ rest # 0 /\ \A x : NextIndex(g, x) = NextIndex(f, x)
  BY <1>6, <1>9 DEF NextIndex
<1>11. IsCut(g, h, b, rest, y)
  <2>1. h = MoveTo(g, b, rest, y)
    BY <1>3, <1>5, <1>9 DEF MoveRest
  <2> QED
    BY <1>5, <2>1 DEF MoveTo, AddBefore, IsCut
<1>12. PICK O2, oB2, rB2 : BCutOff(g, h, XL, XB, oB, rB, b, y, O2, oB2, rB2)
  BY <1>5, <1>6, <1>7, <1>8, <1>10, <1>11, BCut
<1>13. /\ Len(h.B) = Len(g.B) /\ h.freeB = g.freeB
       /\ BLayer(h, XL2, XB, oB2, rB2)
       /\ oB2 \in [XB -> XL2]
       /\ (\A x \in XB : oB2[x] = IF oB[x] = oB[b] /\ rB[x] > rB[b] THEN y ELSE oB[x])
       /\ (\A x \in XB : rB2[x] = IF oB[x] = oB[b] /\ rB[x] > rB[b] THEN rB[x] - rB[b] ELSE rB[x])
       /\ \A x \in XB : SameText(g.B[x], h.B[x])
  BY <1>5, <1>12 DEF BCutOff
<1>14. /\ h \in Frames /\ h.P = f.P /\ h.freeP = f.freeP /\ h.firstP = f.firstP /\ SameT(f,
          h) /\ SameC(f, h)
       /\ h.freeL = g.freeL /\ Len(h.L) = Len(g.L)
       /\ h.L[y].next = g.L[y].next /\ h.L[y].prev = g.L[y].prev
       /\ \A k \in 1 .. Len(g.L) : k # y => h.L[k] = g.L[k]
  <2>1. PICK e : e = [g EXCEPT !.B = h.B]
    OBVIOUS
  <2>2. OneFirst(e, h, y, rest)
    BY <1>10, <1>12, <2>1 DEF BCutOff
  <2>3. e.P = g.P /\ e.freeP = g.freeP /\ e.firstP = g.firstP /\ e.L = g.L /\ e.freeL = g.freeL
        /\ e.text = g.text /\ e.len = g.len /\ e.width = g.width /\ e.count = g.count /\ e.last = g.last
    BY <1>6, <2>1 DEF Frames
  <2> QED
    BY <1>6, <2>2, <2>3 DEF OneFirst, SameP, SameT, SameC
<1>15. \A x \in 1 .. Len(g.L) : h.L[x].next = g.L[x].next /\ h.L[x].prev = g.L[x].prev
  BY <1>14
<1>16. LLayer(h, Q, XL2, oL2, rL2)
  <2>1. Q \subseteq 1 .. Len(h.P) /\ \A o \in Q : h.P[o].firstL = g.P[o].firstL
    BY <1>6, <1>14 DEF SameP
  <2> QED
    BY <1>5, <1>6, <1>14, <1>15, <2>1, LLayerKept, SMTT(30)
<1>17. BoxesGood(h, XB)
  <2>1. BoxesGood(f, XB) /\ h.text = f.text
    BY <1>14 DEF LB, SameT
  <2> QED
    BY <1>6, <1>13, <2>1 DEF BoxesGood, BoxGood, SameText
<1>18. LineBoxesLast(h, XB, oB2)
  <2> SUFFICES ASSUME NEW x \in XB, h.B[x].kind = "line" PROVE h.L[oB2[x]].next = 0
    BY DEF LineBoxesLast
  <2>1. f.B[x].kind = "line" /\ f.L[oB[x]].next = 0 /\ oB[x] \in XL
    <3>1. f.B[x].kind = "line"
      BY <1>6, <1>13 DEF SameText
    <3> QED
      BY <1>1, <3>1 DEF LB, LineBoxesLast
  <2>2. CASE oB[x] = l /\ rB[x] > rB[b]
    BY <1>5, <1>7, <1>13, <1>15, <2>2
  <2>3. CASE oB[x] = l /\ ~(rB[x] > rB[b])
    \* A line box has no next one, and b is not after it.
    <3>1. Live(XB, XL, oB, rB, FirstB(f), NextB(f), PrevB(f)) /\ NextB(f)[x] = NextIndex(f, x)
          /\ NextB(f)[b] = NextIndex(f, b)
      BY <1>1, BLayerFacts
    <3>2. NextB(f)[x] = 0
      BY <2>1, <3>1 DEF NextIndex
    <3>3. rB[b] <= rB[x]
      BY <2>3, <3>1, <3>2 DEF Live, Ended
    <3>4. x = b
      BY <1>1, <2>3, <3>1, <3>3 DEF Live, Placed
    <3> QED
      BY <3>1, <3>2, <3>4
  <2>4. CASE oB[x] # l
    <3>1. oB2[x] = oB[x]
      BY <1>13, <2>4
    <3>2. h.L[oB[x]].next = g.L[oB[x]].next
      BY <1>7, <1>15, <2>1
    <3> QED
      BY <1>5, <2>1, <2>4, <3>1, <3>2
  <2> QED
    BY <2>2, <2>3, <2>4
<1>19. LB(h, Q, XL2, oL2, rL2, XB, oB2, rB2)
  BY <1>1, <1>13, <1>14, <1>16, <1>17, <1>18 DEF LB
<1>20. \A q \in Q : q # oL[l] => SamePlaces(XL, oL, rL, XL2, oL2, rL2, q)
  BY <1>5 DEF SamePlaces
<1>21. \A x \in XL : h.L[x].firstB = f.L[x].firstB
  BY <1>5, <1>7, <1>14
<1>22. h.L[l].next = y /\ h.L[y].next = 0
  BY <1>5, <1>7, <1>15
<1>23. \A x \in XB : SameText(f.B[x], h.B[x])
  BY <1>6, <1>13
<1>24. RestMoved(f, h, Q, XL, oL, rL, XB, oB, rB, l, b, y, XL2, oL2, rL2, oB2, rB2)
  <2>1. SameP(f, h) /\ Len(h.B) = Len(f.B)
    BY <1>6, <1>13, <1>14 DEF SameP
  <2> QED
    BY <1>5, <1>13, <1>14, <1>19, <1>20, <1>21, <1>22, <1>23, <2>1 DEF RestMoved
<1> QED
  BY <1>24

\* The length of a box that is good is a natural number.
LEMMA GoodLen ==
  ASSUME NEW f \in Frames, NEW b \in 1 .. Len(f.B), BoxGood(f.text, f.B[b])
  PROVE  BoxLen(f.B[b]) \in Nat
<1>1. f.B[b] \in BoxSet
  BY NextIndexType
<1>2. f.B[b].i \in Nat /\ f.B[b].j \in Nat /\ (f.B[b].kind # "line" => f.B[b].i <= f.B[b].j)
  BY <1>1 DEF BoxGood, BoxSet
<1> QED
  BY <1>2 DEF BoxLen

\* Text box b was split, and box y has what did not fit.
BoxSplit(f, h, Q, XL, oL, rL, XB, oB, rB, b, room, y, XB2, oB2, rB2) ==
  /\ LB(h, Q, XL, oL, rL, XB2, oB2, rB2) /\ OnlyB(f, h) /\ Len(f.B) <= Len(h.B)
  /\ y \notin XB /\ y # 0 /\ XB2 = XB \cup {y} /\ oB2[y] = oB[b] /\ NextIndex(h, b) = y
  /\ \A x \in XB : oB2[x] = oB[x]
  /\ rB2[y] = rB[b] + 1
  /\ \A x \in XB : rB2[x] = IF oB[x] = oB[b] /\ rB[x] > rB[b] THEN rB[x] + 1 ELSE rB[x]
  /\ \A x \in XB : x # b => SameText(f.B[x], h.B[x])
  /\ h.B[b].kind = "text" /\ h.B[y].kind = "text" /\ h.B[b].w <= room
  /\ BoxLen(h.B[b]) + BoxLen(h.B[y]) = BoxLen(f.B[b]) /\ BoxLen(h.B[b]) \in Nat
  /\ room >= 2 => BoxLen(h.B[b]) # 0
  /\ Sum(h, XB2) = Sum(f, XB)

\* A box is split at the pivot, and its two parts are good.
LEMMA SplitIs ==
  ASSUME NEW f, NEW Q, NEW XL, NEW oL, NEW rL, NEW XB, NEW oB, NEW rB,
         LB(f, Q, XL, oL, rL, XB, oB, rB),
         NEW b \in XB, f.B[b].kind = "text", NEW room \in Nat, f.B[b].w > room,
         NEW h, h = SplitTextBox(f, b, Pivot(f, f.B[b], room))
  PROVE  \E y, XB2, oB2, rB2 : BoxSplit(f, h, Q, XL, oL, rL, XB, oB, rB, b, room, y, XB2, oB2, rB2)
<1>1. /\ f \in Frames /\ Q \subseteq 1 .. Len(f.P) /\ XL \subseteq 1 .. Len(f.L) /\ XB \subseteq 1 .. Len(f.B)
      /\ LLayer(f, Q, XL, oL, rL) /\ BLayer(f, XL, XB, oB,
          rB) /\ oB \in [XB -> XL] /\ rB \in [XB -> Nat \ {0}]
  BY LBFacts
<1>2. PICK x : x = f.B[b]
  OBVIOUS
<1>3. x \in BoxSet /\ BoxGood(f.text, x) /\ f.text \in Seq(Characters)
  <2>1. b \in 1 .. Len(f.B)
    BY <1>1
  <2>2. BoxGood(f.text, x)
    BY <1>2 DEF LB, BoxesGood
  <2> QED
    BY <1>1, <1>2, <2>1, <2>2, NextIndexType DEF Frames
<1>4. /\ x.i \in Nat /\ x.j \in Nat /\ x.i <= x.j /\ x.j <= Len(f.text) /\ x.w \in Int
      /\ x.w = Columns(f.text, x.j) - Columns(f.text, x.i) /\ x.w > room /\ x.kind = "text"
  BY <1>2, <1>3 DEF BoxGood, BoxSet
<1>5. PICK p : p = Pivot(f, x, room)
  OBVIOUS
<1>6. /\ p \in Nat /\ x.i <= p /\ p < x.j
      /\ Columns(f.text, p) - Columns(f.text, x.i) <= room
      /\ room >= 2 => p # x.i
  BY <1>3, <1>4, <1>5, PivotIs
<1>7. PICK w : w = Columns(f.text, p) - Columns(f.text, x.i)
  OBVIOUS
<1>8. w \in Int /\ x.w - w = Columns(f.text, x.j) - Columns(f.text, p)
  <2>1. p \in 0 .. Len(f.text) /\ x.i \in 0 .. Len(f.text) /\ x.j \in 0 .. Len(f.text)
    BY <1>4, <1>6
  <2>2. Columns(f.text, p) \in Int /\ Columns(f.text, x.i) \in Int /\ Columns(f.text, x.j) \in Int
    BY <1>3, <2>1, ColumnsStep
  <2> QED
    BY <1>4, <1>7, <2>2
<1>9. h = SplitAt(f, b, f.B[b], p, w)
  BY <1>2, <1>5, <1>7 DEF SplitTextBox
<1>10. PICK y : y = Slot(f.freeB, f.B)
  OBVIOUS
<1>11. /\ \E X2, own2, rank2 : BInserted(f, h, XL, XB, oB, rB, b, y, X2, own2, rank2)
       /\ h.B[b].kind = "text" /\ h.B[b].i = x.i /\ h.B[b].j = p /\ h.B[b].w = w
       /\ h.B[y].kind = "text" /\ h.B[y].i = p /\ h.B[y].j = x.j /\ h.B[y].w = x.w - w
  <2>1. f.B[b].kind = "text"
    BY <1>2, <1>4
  <2>2. f \in Frames /\ XL \subseteq 1 .. Len(f.L) /\ BLayer(f, XL, XB, oB, rB)
    BY <1>1
  <2>3. /\ \E X2, own2, rank2 : BInserted(f, h, XL, XB, oB, rB, b, y, X2, own2, rank2)
        /\ h.B[b].kind = "text" /\ h.B[b].i = f.B[b].i /\ h.B[b].j = p /\ h.B[b].w = w
        /\ h.B[y].kind = "text" /\ h.B[y].i = p /\ h.B[y].j = f.B[b].j /\ h.B[y].w = f.B[b].w - w
    <3>1. BSplitInto(f, h, XL, XB, oB, rB, b, y, p, w)
      BY <1>6, <1>8, <1>9, <1>10, <2>1, <2>2, BSplit
    <3> QED
      BY <3>1 DEF BSplitInto
  <2> QED
    BY <1>2, <2>3
<1>12. PICK XB2, oB2, rB2 : BInserted(f, h, XL, XB, oB, rB, b, y, XB2, oB2, rB2)
  BY <1>11
<1>13. /\ OnlyB(f, h) /\ BLayer(h, XL, XB2, oB2, rB2)
       /\ y \notin XB /\ y # 0 /\ Len(f.B) <= Len(h.B)
       /\ XB2 = XB \cup {y}
       /\ oB2 \in [XB2 -> XL] /\ oB2[y] = oB[b] /\ (\A z \in XB : oB2[z] = oB[z])
       /\ rB2[y] = rB[b] + 1
       /\ (\A z \in XB : rB2[z] = IF oB[z] = oB[b] /\ rB[z] > rB[b] THEN rB[z] + 1 ELSE rB[z])
       /\ NextIndex(h, b) = y
       /\ \A z \in XB : z # b => SameText(f.B[z], h.B[z])
  BY <1>12 DEF BInserted
<1>14. h \in Frames /\ h.P = f.P /\ h.L = f.L /\ h.freeL = f.freeL /\ h.text = f.text
  BY <1>13 DEF OnlyB, SameP, SameL, SameT
<1>15. BoxesGood(h, XB2)
  <2> SUFFICES ASSUME NEW z \in XB2 PROVE BoxGood(h.text, h.B[z])
    BY DEF BoxesGood
  <2>1. CASE z = b
    BY <1>4, <1>6, <1>7, <1>11, <1>14, <2>1 DEF BoxGood
  <2>2. CASE z = y
    BY <1>4, <1>6, <1>8, <1>11, <1>14, <2>2 DEF BoxGood
  <2>3. CASE z # b /\ z # y
    <3>1. BoxGood(f.text, f.B[z]) /\ SameText(f.B[z], h.B[z])
      BY <1>13, <2>3 DEF LB, BoxesGood
    <3> QED
      BY <1>14, <3>1 DEF BoxGood, SameText
  <2> QED
    BY <2>1, <2>2, <2>3
<1>16. LineBoxesLast(h, XB2, oB2)
  <2> SUFFICES ASSUME NEW z \in XB2, h.B[z].kind = "line" PROVE h.L[oB2[z]].next = 0
    BY DEF LineBoxesLast
  <2>1. z # b /\ z # y
    BY <1>11
  <2>2. f.B[z].kind = "line" /\ oB2[z] = oB[z] /\ z \in XB
    BY <1>13, <2>1 DEF SameText
  <2> QED
    BY <1>14, <2>2 DEF LB, LineBoxesLast
<1>17. LLayer(h, Q, XL, oL, rL)
  <2>1. /\ Len(h.L) = Len(f.L) /\ Q \subseteq 1 .. Len(h.P) /\ (\A o \in Q : h.P[o].firstL = f.P[o].firstL)
        /\ \A z \in 1 .. Len(f.L) : h.L[z].next = f.L[z].next /\ h.L[z].prev = f.L[z].prev
    BY <1>1, <1>14
  <2> QED
    BY <1>1, <1>14, <2>1, LLayerKept
<1>18. LB(h, Q, XL, oL, rL, XB2, oB2, rB2)
  BY <1>1, <1>13, <1>14, <1>15, <1>16, <1>17 DEF LB
<1>19. /\ BoxLen(h.B[b]) = p - x.i /\ BoxLen(h.B[y]) = x.j - p /\ BoxLen(f.B[b]) = x.j - x.i
  <2>1. "text" # "line"
    OBVIOUS
  <2> QED
    BY <1>2, <1>4, <1>11, <2>1 DEF BoxLen
<1>20. Sum(h, XB2) = Sum(f, XB)
  <2>1. y \in 1 .. Len(h.B) /\ b \in 1 .. Len(h.B) /\ b # y /\ XB2 \subseteq 1 .. Len(h.B)
    <3>1. XB2 \subseteq 1 .. Len(h.B)
      BY <1>13, <1>14, BLayerFacts
    <3> QED
      BY <1>13, <3>1
  <2>2. \A k \in 1 .. Len(h.B) : k # b /\ k # y => LenAt(h, XB2, k) = LenAt(f, XB, k)
    <3> SUFFICES ASSUME NEW k \in 1 .. Len(h.B), k # b,
        k # y PROVE LenAt(h, XB2, k) = LenAt(f, XB, k)
      OBVIOUS
    <3>1. k \in XB => BoxLen(h.B[k]) = BoxLen(f.B[k])
      BY <1>13 DEF SameText, BoxLen
    <3> QED
      BY <1>13, <3>1 DEF LenAt
  <2>3. SumsDiffer(f, h, XB, XB2, b, y)
    <3>1. Len(f.B) <= Len(h.B) /\ XB \subseteq 1 .. Len(f.B) /\ XB2 \subseteq 1 .. Len(h.B)
      BY <1>1, <1>13, <2>1
    <3>2. b \in 0 .. Len(h.B) /\ y \in 0 .. Len(h.B) /\ b # y
      BY <2>1
    <3> QED
      BY <3>1, <3>2, <2>2 DEF SumsDiffer
  <2>4. Sum(h, XB2) = Sum(f, XB) + LenAt(h, XB2, b) - LenAt(f, XB, b) + LenAt(h, XB2, y) - LenAt(f,
      XB, y)
    BY <1>1, <1>14, <2>3, SumChanged
  <2>5. LenAt(h, XB2, b) = p - x.i /\ LenAt(f, XB, b) = x.j - x.i /\ LenAt(h, XB2,
      y) = x.j - p /\ LenAt(f, XB, y) = 0
    BY <1>13, <1>19 DEF LenAt
  <2>6. Sum(f, XB) \in Int
    BY <1>1, SumIs
  <2> QED
    BY <1>4, <1>6, <2>4, <2>5, <2>6
<1>21. BoxLen(h.B[b]) + BoxLen(h.B[y]) = BoxLen(f.B[b]) /\ BoxLen(h.B[b]) \in Nat /\ (room >= 2 =>
    BoxLen(h.B[b]) # 0)
  BY <1>4, <1>6, <1>19
<1>22. h.B[b].kind = "text" /\ h.B[y].kind = "text" /\ h.B[b].w <= room
  BY <1>6, <1>7, <1>11
<1>23. BoxSplit(f, h, Q, XL, oL, rL, XB, oB, rB, b, room, y, XB2, oB2, rB2)
  BY <1>13, <1>18, <1>20, <1>21, <1>22 DEF BoxSplit
<1> QED
  BY <1>23

(***************************************************************************)
(* What a round of the layout leaves for the rounds after it.              *)
(***************************************************************************)

\* Without one of its boxes, a text is shorter by its length.
LEMMA SumLess ==
  ASSUME NEW f \in Frames, NEW h \in Frames, NEW S, NEW T, NEW i \in S, i \notin T, T \subseteq S,
         S \subseteq 1 .. Len(f.B), Len(h.B) = Len(f.B),
         \A k \in S : BoxLen(f.B[k]) \in Nat,
         \A k \in T : BoxLen(h.B[k]) = BoxLen(f.B[k])
  PROVE  Sum(h, T) <= Sum(f, S) - BoxLen(f.B[i])
<1>1. PICK n : n = Len(f.B)
  OBVIOUS
<1>2. n \in Nat /\ Sum(f, S) \in Int /\ Sum(h, T) \in Int
  BY <1>1, SumIs
<1>3. PICK c : Sum(f, S) = Total(c, n) /\ \A b \in 1 .. n : c[b] = LenAt(f, S, b)
  BY <1>1, SumIs
<1>4. PICK d : Sum(h, T) = Total(d, n) /\ \A b \in 1 .. n : d[b] = LenAt(h, T, b)
  BY <1>1, SumIs, SMTT(30)
<1>5. \A b \in 1 .. n : c[b] \in Int /\ d[b] \in Int /\ d[b] <= c[b] /\ (b = i =>
    d[b] = 0 /\ c[b] = BoxLen(f.B[i]))
  <2> SUFFICES ASSUME NEW b \in 1 .. n
               PROVE  c[b] \in Int /\ d[b] \in Int /\ d[b] <= c[b] /\ (b = i =>
                      d[b] = 0 /\ c[b] = BoxLen(f.B[i]))
    OBVIOUS
  <2>1. c[b] = (IF b \in S THEN BoxLen(f.B[b]) ELSE 0)
    BY <1>3 DEF LenAt
  <2>2. d[b] = (IF b \in T THEN BoxLen(h.B[b]) ELSE 0)
    BY <1>4 DEF LenAt
  <2>3. b \in S => BoxLen(f.B[b]) \in Nat
    OBVIOUS
  <2>4. b \in T => b \in S /\ BoxLen(h.B[b]) = BoxLen(f.B[b])
    OBVIOUS
  <2> QED
    BY <2>1, <2>2, <2>3, <2>4
<1>6. i \in 1 .. n
  BY <1>1
<1>7. PICK e : e = [k \in 1 .. n |-> IF k = i THEN 0 ELSE c[k]]
  OBVIOUS
<1>8. \A k \in 1 .. n : e[k] \in Int /\ d[k] <= e[k] /\ (k # i => e[k] = c[k]) /\ (k = i =>
    e[k] = 0)
  BY <1>5, <1>7
<1>9. Total(e, n) = Total(c, n) + e[i] - c[i]
  BY <1>2, <1>5, <1>6, <1>8, TotalChanged
<1>10. Total(d, n) <= Total(e, n)
  <2>1. n \in 0 .. n /\ \A k \in 1 .. n : d[k] \in Int /\ e[k] \in Int /\ d[k] <= e[k]
    BY <1>2, <1>5, <1>8
  <2> QED
    BY <1>2, <2>1, TotalAtMost
<1>11. BoxLen(f.B[i]) \in Nat
  OBVIOUS
<1>12. e[i] = 0 /\ c[i] = BoxLen(f.B[i])
  BY <1>5, <1>6, <1>8
<1> HIDE DEF Sum
<1> QED
  BY <1>2, <1>3, <1>4, <1>9, <1>10, <1>11, <1>12

\* The text of some boxes is no longer than that of more of them.
LEMMA SumAtMost ==
  ASSUME NEW f \in Frames, NEW S, NEW T, T \subseteq S,
         S \subseteq 1 .. Len(f.B), \A k \in S : BoxLen(f.B[k]) \in Nat
  PROVE  Sum(f, T) <= Sum(f, S) /\ Sum(f, T) \in Nat
<1>1. PICK n : n = Len(f.B)
  OBVIOUS
<1>2. n \in Nat /\ Sum(f, S) \in Int /\ Sum(f, T) \in Int
  BY <1>1, SumIs
<1>3. PICK c : Sum(f, S) = Total(c, n) /\ \A b \in 1 .. n : c[b] = LenAt(f, S, b)
  BY <1>1, SumIs
<1>4. PICK d : Sum(f, T) = Total(d, n) /\ \A b \in 1 .. n : d[b] = LenAt(f, T, b)
  BY <1>1, SumIs
<1>5. \A b \in 1 .. n : c[b] \in Int /\ d[b] \in Int /\ d[b] <= c[b] /\ 0 <= d[b]
  BY <1>3, <1>4 DEF LenAt
<1>6. n \in 0 .. n
  BY <1>2
<1>7. Total(d, n) <= Total(c, n)
  BY <1>2, <1>5, <1>6, TotalAtMost
<1>8. PICK z : z = [k \in 1 .. n |-> 0]
  OBVIOUS
<1>9. \A k \in 1 .. n : z[k] = 0 /\ z[k] \in Int /\ z[k] <= d[k]
  BY <1>5, <1>8
<1>10. Total(z, n) = 0
  BY <1>2, <1>6, <1>9, TotalOfZeros
<1>11. Total(z, n) <= Total(d, n)
  BY <1>2, <1>5, <1>6, <1>9, TotalAtMost
<1> HIDE DEF Sum
<1> QED
  BY <1>2, <1>3, <1>4, <1>7, <1>10, <1>11

\* The rounds that the boxes S of a line may still need.
Left(f, S) == Sum(f, S) + Cardinality(S)

\* A box less is left to lay out, and so is its text.
LEMMA LeftDropped ==
  ASSUME NEW f \in Frames, NEW h \in Frames, NEW S, NEW T, NEW i \in S, NEW j \in S, i \notin T,
         j \notin T,
         T \subseteq S, S \subseteq 1 .. Len(f.B), Len(h.B) = Len(f.B),
         \A k \in S : BoxLen(f.B[k]) \in Nat,
         \A k \in T : BoxLen(h.B[k]) = BoxLen(f.B[k])
  PROVE  /\ Left(h, T) <= Left(f, S) - BoxLen(f.B[i]) - 1 /\ Left(h, T) \in Int
         /\ i # j => Left(h, T) <= Left(f, S) - BoxLen(f.B[i]) - 2
<1>1. IsFiniteSet(S) /\ IsFiniteSet(T)
  <2>1. Len(f.B) \in Int /\ 1 \in Int
    BY DEF Frames
  <2>2. IsFiniteSet(1 .. Len(f.B))
    BY <2>1, FS_Interval
  <2> QED
    BY <2>2, FS_Subset
<1>2. IsFiniteSet(S \ {i}) /\ Cardinality(S \ {i}) = Cardinality(S) - 1 /\ Cardinality(S) \in Nat
  BY <1>1, FS_RemoveElement, FS_CardinalityType
<1>3. Cardinality(T) <= Cardinality(S) - 1 /\ Cardinality(T) \in Nat
  <2>1. T \subseteq S \ {i}
    OBVIOUS
  <2>2. Cardinality(T) <= Cardinality(S \ {i})
    BY <1>2, <2>1, FS_Subset
  <2>3. Cardinality(T) \in Nat
    BY <1>1, FS_CardinalityType
  <2> QED
    BY <1>2, <2>2, <2>3
<1>4. i # j => Cardinality(T) <= Cardinality(S) - 2
  <2> SUFFICES ASSUME i # j PROVE Cardinality(T) <= Cardinality(S) - 2
    OBVIOUS
  <2>1. T \subseteq (S \ {i}) \ {j} /\ j \in S \ {i}
    OBVIOUS
  <2>2. IsFiniteSet((S \ {i}) \ {j}) /\ Cardinality((S \ {i}) \ {j}) = Cardinality(S \ {i}) - 1
    BY <1>2, <2>1, FS_RemoveElement
  <2>3. Cardinality(T) <= Cardinality((S \ {i}) \ {j})
    BY <2>1, <2>2, FS_Subset
  <2> QED
    BY <1>2, <1>3, <2>2, <2>3
<1>5. Sum(h, T) <= Sum(f, S) - BoxLen(f.B[i])
  BY SumLess
<1>6. Sum(h, T) \in Int /\ Sum(f, S) \in Int /\ BoxLen(f.B[i]) \in Nat
  BY SumIs
<1> QED
  BY <1>2, <1>3, <1>4, <1>5, <1>6 DEF Left

Of(X, own, o) == {x \in X : own[x] = o}

\* What is left to lay out at first is at most the text and the boxes.
LEMMA LeftAtStart ==
  ASSUME NEW f, NEW Q, NEW XL, NEW oL, NEW rL, NEW XB, NEW oB, NEW rB,
         LB(f, Q, XL, oL, rL, XB, oB, rB),
         NEW S, S \subseteq XB
  PROVE  /\ \A x \in XB : BoxLen(f.B[x]) \in Nat
         /\ Sum(f, XB) \in Nat /\ Left(f, S) <= Sum(f, XB) + Len(f.B) /\ Left(f, S) \in Nat
         /\ S # {} => Left(f, S) > 0
<1>1. f \in Frames /\ XB \subseteq 1 .. Len(f.B)
  BY LBFacts
<1>2. \A x \in XB : BoxLen(f.B[x]) \in Nat
  <2> SUFFICES ASSUME NEW x \in XB PROVE BoxLen(f.B[x]) \in Nat
    OBVIOUS
  <2>1. BoxGood(f.text, f.B[x])
    BY DEF LB, BoxesGood
  <2>2. x \in 1 .. Len(f.B)
    BY <1>1
  <2> QED
    BY <1>1, <2>1, <2>2, GoodLen
<1>3. Sum(f, S) <= Sum(f, XB) /\ Sum(f, S) \in Nat
  BY <1>1, <1>2, SumAtMost
<1>4. Sum(f, XB) <= Sum(f, XB) /\ Sum(f, XB) \in Nat
  BY <1>1, <1>2, SumAtMost
<1>5. PICK n : n = Len(f.B)
  OBVIOUS
<1>6. n \in Nat
  BY <1>1, <1>5 DEF Frames
<1>7. IsFiniteSet(1 .. n) /\ Cardinality(1 .. n) = n
  BY <1>6, FS_Interval
<1>8. S \subseteq 1 .. n
  BY <1>1, <1>5
<1>9. IsFiniteSet(S) /\ Cardinality(S) <= n
  BY <1>7, <1>8, FS_Subset
<1>10. Cardinality(S) \in Nat /\ (S # {} => Cardinality(S) # 0)
  BY <1>9, FS_CardinalityType, FS_EmptySet
<1> HIDE DEF Sum
<1> QED
  BY <1>2, <1>3, <1>4, <1>5, <1>6, <1>9, <1>10 DEF Left

\* A split leaves one more box, and as much text.
LEMMA LeftSplit ==
  ASSUME NEW f, NEW Q, NEW XL, NEW oL, NEW rL, NEW XB, NEW oB, NEW rB,
         LB(f, Q, XL, oL, rL, XB, oB, rB),
         NEW h, NEW b \in XB, NEW room, NEW y, NEW XB2, NEW oB2, NEW rB2,
         f.B[b].kind = "text",
         BoxSplit(f, h, Q, XL, oL, rL, XB, oB, rB, b, room, y, XB2, oB2, rB2)
  PROVE  Left(h, Of(XB2, oB2, oB[b])) = Left(f, Of(XB, oB, oB[b])) + 1
<1>1. f \in Frames /\ XB \subseteq 1 .. Len(f.B) /\ oB \in [XB -> XL]
  BY LBFacts
<1>2. /\ LB(h, Q, XL, oL, rL, XB2, oB2, rB2)
      /\ y \notin XB /\ y # 0 /\ XB2 = XB \cup {y} /\ oB2[y] = oB[b]
      /\ \A x \in XB : oB2[x] = oB[x]
      /\ \A x \in XB : x # b => SameText(f.B[x], h.B[x])
      /\ BoxLen(h.B[b]) + BoxLen(h.B[y]) = BoxLen(f.B[b]) /\ BoxLen(h.B[b]) \in Nat
  BY DEF BoxSplit
<1>3. h \in Frames /\ XB2 \subseteq 1 .. Len(h.B)
  BY <1>2, LBFacts
<1>4. Len(f.B) <= Len(h.B)
  BY DEF BoxSplit
<1>5. PICK S, T : S = Of(XB, oB, oB[b]) /\ T = Of(XB2, oB2, oB[b])
  OBVIOUS
<1>6. S \subseteq XB /\ T = S \cup {y} /\ y \notin S /\ b \in S /\ y # b
  BY <1>2, <1>5 DEF Of
<1>7. \A x \in XB : BoxLen(f.B[x]) \in Nat
  BY LeftAtStart
<1>8. BoxLen(h.B[y]) \in Nat
  BY <1>2, LeftAtStart
<1>9. SumsDiffer(f, h, S, T, b, y)
  <2>1. \A k \in 1 .. Len(h.B) : k # b /\ k # y => LenAt(h, T, k) = LenAt(f, S, k)
    <3> SUFFICES ASSUME NEW k \in 1 .. Len(h.B), k # b, k # y PROVE LenAt(h, T, k) = LenAt(f, S, k)
      OBVIOUS
    <3>1. k \in S => BoxLen(h.B[k]) = BoxLen(f.B[k])
      BY <1>2, <1>6 DEF SameText, BoxLen
    <3> QED
      BY <1>6, <3>1 DEF LenAt
  <2>2. S \subseteq 1 .. Len(f.B) /\ T \subseteq 1 .. Len(h.B)
    BY <1>1, <1>2, <1>3, <1>6
  <2>3. b \in 0 .. Len(h.B) /\ y \in 0 .. Len(h.B) /\ b # y
    <3>1. b \in 1 .. Len(h.B) /\ y \in 1 .. Len(h.B)
      BY <1>2, <1>3
    <3> QED
      BY <1>6, <3>1
  <2> QED
    BY <1>4, <2>1, <2>2, <2>3 DEF SumsDiffer
<1>10. Sum(h, T) = Sum(f, S) + LenAt(h, T, b) - LenAt(f, S, b) + LenAt(h, T, y) - LenAt(f, S, y)
  BY <1>1, <1>3, <1>9, SumChanged
<1>11. /\ LenAt(h, T, b) = BoxLen(h.B[b]) /\ LenAt(f, S, b) = BoxLen(f.B[b])
       /\ LenAt(h, T, y) = BoxLen(h.B[y]) /\ LenAt(f, S, y) = 0
  BY <1>6 DEF LenAt
<1>12. Sum(f, S) \in Int
  BY <1>1, SumIs
<1>13. Sum(h, T) = Sum(f, S)
  BY <1>2, <1>7, <1>8, <1>10, <1>11, <1>12
<1>14. IsFiniteSet(S)
  <2>1. Len(f.B) \in Int /\ 1 \in Int
    BY <1>1 DEF Frames
  <2>2. IsFiniteSet(1 .. Len(f.B))
    BY <2>1, FS_Interval
  <2> QED
    BY <1>1, <1>6, <2>2, FS_Subset
<1>15. Cardinality(T) = Cardinality(S) + 1 /\ Cardinality(S) \in Nat
  BY <1>6, <1>14, FS_AddElement, FS_CardinalityType
<1>16. Left(h, T) = Left(f, S) + 1
  BY <1>12, <1>13, <1>15 DEF Left
<1> QED
  BY <1>5, <1>16

\* The paragraphs other than p have the same lines, and those the same boxes.
Elsewhere(f, h, Q, p) ==
  \A q \in Q : q # p =>
    /\ Lines(h, q) = Lines(f, q)
    /\ \A k \in 1 .. Len(Lines(f, q)) : LineKept(f, h, Lines(f, q)[k])

\* Two changes inside a paragraph are a change inside it.
LEMMA ElsewhereTwice ==
  ASSUME NEW f, NEW g, NEW h, NEW Q, NEW p, Elsewhere(f, g, Q, p), Elsewhere(g, h, Q, p)
  PROVE  Elsewhere(f, h, Q, p)
<1> SUFFICES ASSUME NEW q \in Q, q # p
             PROVE  /\ Lines(h, q) = Lines(f, q)
                    /\ \A k \in 1 .. Len(Lines(f, q)) : LineKept(f, h, Lines(f, q)[k])
  BY DEF Elsewhere
<1>1. Lines(g, q) = Lines(f, q) /\ Lines(h, q) = Lines(g, q)
  BY DEF Elsewhere
<1>2. ASSUME NEW k \in 1 .. Len(Lines(f, q)) PROVE LineKept(f, h, Lines(f, q)[k])
  <2>1. PICK l : l = Lines(f, q)[k]
    OBVIOUS
  <2>2. LineKept(f, g, l)
    BY <2>1 DEF Elsewhere
  <2>3. LineKept(g, h, l)
    BY <1>1, <2>1 DEF Elsewhere
  <2>4. LineKept(f, h, l)
    BY <2>2, <2>3, LineKeptTwice
  <2> QED
    BY <2>1, <2>4
<1> QED
  BY <1>1, <1>2

\* No change is a change inside any paragraph.
LEMMA ElsewhereSame ==
  ASSUME NEW f, NEW Q, NEW p
  PROVE  Elsewhere(f, f, Q, p)
BY DEF Elsewhere, LineKept, SameText

\* Line l has the same boxes by their places, and they the same texts.
LineAlike(f, h, XB, oB, rB, XB2, oB2, rB2, l) ==
  /\ SamePlaces(XB, oB, rB, XB2, oB2, rB2, l)
  /\ h.L[l].firstB = f.L[l].firstB
  /\ \A x \in XB : oB[x] = l => SameText(f.B[x], h.B[x])

\* A line whose boxes are alike is kept.
LEMMA LineAlikeKept ==
  ASSUME NEW f, NEW Q, NEW XL, NEW oL, NEW rL, NEW XB, NEW oB, NEW rB,
         LB(f, Q, XL, oL, rL, XB, oB, rB),
         NEW h, NEW Q2, NEW XL2, NEW oL2, NEW rL2, NEW XB2, NEW oB2, NEW rB2,
         LB(h, Q2, XL2, oL2, rL2, XB2, oB2, rB2),
         NEW l \in XL, l \in XL2, LineAlike(f, h, XB, oB, rB, XB2, oB2, rB2, l)
  PROVE  LineKept(f, h, l)
<1>1. f \in Frames /\ XL \subseteq 1 .. Len(f.L) /\ BLayer(f, XL, XB, oB, rB)
  BY LBFacts
<1>2. h \in Frames /\ XL2 \subseteq 1 .. Len(h.L) /\ BLayer(h, XL2, XB2, oB2, rB2)
  BY LBFacts
<1>3. SamePlaces(XB, oB, rB, XB2, oB2, rB2, l) /\ h.L[l].firstB = f.L[l].firstB
      /\ \A x \in XB : oB[x] = l => SameText(f.B[x], h.B[x])
  BY DEF LineAlike
<1> QED
  BY <1>1, <1>2, <1>3, LineKeptIs

\* Lines alike in the other paragraphs make a change inside one.
LEMMA ElsewhereIs ==
  ASSUME NEW f, NEW Q, NEW XL, NEW oL, NEW rL, NEW XB, NEW oB, NEW rB,
         LB(f, Q, XL, oL, rL, XB, oB, rB),
         NEW h, NEW Q2, NEW XL2, NEW oL2, NEW rL2, NEW XB2, NEW oB2, NEW rB2,
         LB(h, Q2, XL2, oL2, rL2, XB2, oB2, rB2),
         NEW p, NEW D, D \subseteq Q, D \subseteq Q2,
         \A q \in D : q # p => SamePlaces(XL, oL, rL, XL2, oL2, rL2, q),
         \A l \in XL : oL[l] \in D /\ oL[l] # p => LineAlike(f, h, XB, oB, rB, XB2, oB2, rB2, l)
  PROVE  Elsewhere(f, h, D, p)
<1> SUFFICES ASSUME NEW q \in D, q # p
             PROVE  /\ Lines(h, q) = Lines(f, q)
                    /\ \A k \in 1 .. Len(Lines(f, q)) : LineKept(f, h, Lines(f, q)[k])
  BY DEF Elsewhere
<1>1. f \in Frames /\ Q \subseteq 1 .. Len(f.P) /\ LLayer(f, Q, XL, oL, rL) /\ q \in Q
  BY LBFacts
<1>2. h \in Frames /\ Q2 \subseteq 1 .. Len(h.P) /\ LLayer(h, Q2, XL2, oL2, rL2) /\ q \in Q2
  BY LBFacts
<1>3. PICK ls, ls2 : ls = Lines(f, q) /\ ls2 = Lines(h, q)
  OBVIOUS
<1>4. LineList(ls, f, XL, oL, rL, q)
  BY <1>1, <1>3, LinesAre
<1>5. LineList(ls2, h, XL2, oL2, rL2, q)
  BY <1>2, <1>3, LinesAre
<1>6. ListOf(ls, XL, oL, rL, q) /\ ListOf(ls2, XL2, oL2, rL2, q)
  BY <1>4, <1>5 DEF LineList
<1>7. SamePlaces(XL, oL, rL, XL2, oL2, rL2, q)
  OBVIOUS
<1>8. ls2 = ls
  BY <1>6, <1>7, ListSame
<1>9. ASSUME NEW k \in 1 .. Len(ls) PROVE LineKept(f, h, ls[k])
  <2>1. ls[k] \in XL /\ oL[ls[k]] = q
    BY <1>6 DEF ListOf
  <2>2. ls[k] \in XL2
    BY <1>7, <2>1 DEF SamePlaces
  <2>3. LineAlike(f, h, XB, oB, rB, XB2, oB2, rB2, ls[k])
    BY <2>1
  <2>4. PICK l : l = ls[k]
    OBVIOUS
  <2>5. LineKept(f, h, l)
    BY <2>1, <2>2, <2>3, <2>4, LineAlikeKept
  <2> QED
    BY <2>4, <2>5
<1> QED
  BY <1>3, <1>8, <1>9

\* What the boxes bs of line l are.
LineBoxes(bs, f, XB, oB, rB, l) ==
  /\ Len(bs) \in Nat \ {0} /\ DOMAIN bs = 1 .. Len(bs) /\ bs[1] = f.L[l].firstB
  /\ \A k \in 1 .. Len(bs) : bs[k] \in XB /\ oB[bs[k]] = l /\ rB[bs[k]] = k /\ bs[k] \in 1 .. Len(f.B)
  /\ \A x \in XB : oB[x] = l => rB[x] \in 1 .. Len(bs) /\ bs[rB[x]] = x
  /\ \A k \in 1 .. Len(bs) - 1 : NextIndex(f, bs[k]) = bs[k + 1] /\ bs[k + 1] # 0
  /\ NextIndex(f, bs[Len(bs)]) = 0
  /\ \A k \in 1 .. Len(bs) : k > 1 => f.B[bs[k]].prev = bs[k - 1]
  /\ f.B[bs[1]].prev = 0

\* The boxes of a line, with their owners and ranks.
LEMMA LineBoxesAre ==
  ASSUME NEW f, NEW Q, NEW XL, NEW oL, NEW rL, NEW XB, NEW oB, NEW rB,
         LB(f, Q, XL, oL, rL, XB, oB, rB),
         NEW l \in XL, NEW bs, bs = Boxes(f, l)
  PROVE  LineBoxes(bs, f, XB, oB, rB, l)
<1>1. /\ f \in Frames /\ XL \subseteq 1 .. Len(f.L) /\ XB \subseteq 1 .. Len(f.B) /\ BLayer(f, XL,
         XB, oB, rB)
  BY LBFacts
<1>2. BoxList(bs, f, XB, oB, rB, l)
  BY <1>1, BoxesAre
<1>3. ListOf(bs, XB, oB, rB, l) /\ bs[1] = f.L[l].firstB /\ NextIndex(f, bs[Len(bs)]) = 0
      /\ \A k \in 1 .. Len(bs) - 1 : NextIndex(f, bs[k]) = bs[k + 1]
  BY <1>2 DEF BoxList
<1>4. /\ Len(bs) \in Nat \ {0} /\ bs \in [1 .. Len(bs) -> XB]
      /\ \A k \in 1 .. Len(bs) : oB[bs[k]] = l /\ rB[bs[k]] = k
      /\ \A x \in XB : oB[x] = l => rB[x] \in 1 .. Len(bs) /\ bs[rB[x]] = x
  BY <1>3 DEF ListOf
<1>5. DOMAIN bs = 1 .. Len(bs) /\ \A k \in 1 .. Len(bs) : bs[k] \in XB /\ bs[k] \in 1 .. Len(f.B)
  BY <1>1, <1>4
<1>6. Live(XB, XL, oB, rB, FirstB(f), NextB(f), PrevB(f))
      /\ \A x \in XB : NextB(f)[x] = NextIndex(f, x) /\ PrevB(f)[x] = f.B[x].prev
  BY <1>1, BLayerFacts
<1>7. ASSUME NEW k \in 1 .. Len(bs) - 1
      PROVE  NextIndex(f, bs[k]) = bs[k + 1] /\ bs[k + 1] # 0 /\ f.B[bs[k + 1]].prev = bs[k]
  <2>1. k \in 1 .. Len(bs) /\ k + 1 \in 1 .. Len(bs)
    BY <1>4
  <2>2. bs[k] \in XB /\ bs[k + 1] \in XB /\ bs[k + 1] \in 1 .. Len(f.B) /\ NextIndex(f,
      bs[k]) = bs[k + 1]
    BY <1>3, <1>5, <2>1
  <2>3. NextB(f)[bs[k]] = bs[k + 1] /\ bs[k + 1] # 0 /\ PrevB(f)[bs[k + 1]] = f.B[bs[k + 1]].prev
    BY <1>6, <2>2
  <2>4. PrevB(f)[bs[k + 1]] = bs[k]
    BY <1>6, <2>2, <2>3 DEF Live, Forward
  <2> QED
    BY <2>2, <2>3, <2>4
<1>8. f.B[bs[1]].prev = 0
  <2>1. FirstB(f)[l] = bs[1] /\ bs[1] # 0 /\ bs[1] \in XB
    <3>1. FirstB(f)[l] = f.L[l].firstB
      BY <1>1, LinksB
    <3>2. 1 \in 1 .. Len(bs)
      BY <1>4
    <3> QED
      BY <1>3, <1>5, <3>1, <3>2
  <2>2. PrevB(f)[bs[1]] = 0
    BY <1>6, <2>1 DEF Live, Begun
  <2> QED
    BY <1>6, <2>1, <2>2
<1>9. ASSUME NEW k \in 1 .. Len(bs), k > 1 PROVE f.B[bs[k]].prev = bs[k - 1]
  <2>1. PICK j : j = k - 1
    OBVIOUS
  <2>2. j \in 1 .. Len(bs) - 1 /\ j + 1 = k
    BY <1>4, <1>9, <2>1
  <2>3. f.B[bs[j + 1]].prev = bs[j]
    BY <1>7, <2>2
  <2> QED
    BY <2>1, <2>2, <2>3
<1> QED
  BY <1>3, <1>4, <1>5, <1>7, <1>8, <1>9 DEF LineBoxes

\* A split leaves the other lines as they were.
LEMMA SplitAlike ==
  ASSUME NEW f, NEW Q, NEW XL, NEW oL, NEW rL, NEW XB, NEW oB, NEW rB,
         LB(f, Q, XL, oL, rL, XB, oB, rB),
         NEW h, NEW b \in XB, NEW room, NEW y, NEW XB2, NEW oB2, NEW rB2,
         BoxSplit(f, h, Q, XL, oL, rL, XB, oB, rB, b, room, y, XB2, oB2, rB2),
         NEW l \in XL, l # oB[b]
  PROVE  LineAlike(f, h, XB, oB, rB, XB2, oB2, rB2, l)
<1>1. /\ h.L = f.L /\ XB2 = XB \cup {y} /\ oB2[y] = oB[b] /\ y \notin XB
      /\ (\A x \in XB : oB2[x] = oB[x])
      /\ (\A x \in XB : rB2[x] = IF oB[x] = oB[b] /\ rB[x] > rB[b] THEN rB[x] + 1 ELSE rB[x])
      /\ \A x \in XB : x # b => SameText(f.B[x], h.B[x])
  BY DEF BoxSplit, OnlyB, SameL
<1>2. SamePlaces(XB, oB, rB, XB2, oB2, rB2, l)
  BY <1>1 DEF SamePlaces
<1> QED
  BY <1>1, <1>2 DEF LineAlike

\* Moving the rest of a line leaves all but two lines as they were.
LEMMA RestAlike ==
  ASSUME NEW f, NEW Q, NEW XL, NEW oL, NEW rL, NEW XB, NEW oB, NEW rB,
         LB(f, Q, XL, oL, rL, XB, oB, rB),
         NEW h, NEW l, NEW b, NEW y, NEW XL2, NEW oL2, NEW rL2, NEW oB2, NEW rB2,
         RestMoved(f, h, Q, XL, oL, rL, XB, oB, rB, l, b, y, XL2, oL2, rL2, oB2, rB2),
         NEW x \in XL, x # l
  PROVE  LineAlike(f, h, XB, oB, rB, XB, oB2, rB2, x)
<1>1. /\ y \notin XL /\ h.L[x].firstB = f.L[x].firstB
      /\ (\A z \in XB : oB2[z] = IF oB[z] = l /\ rB[z] > rB[b] THEN y ELSE oB[z])
      /\ (\A z \in XB : ~(oB[z] = l /\ rB[z] > rB[b]) => rB2[z] = rB[z])
      /\ \A z \in XB : SameText(f.B[z], h.B[z])
  BY DEF RestMoved
<1>2. SamePlaces(XB, oB, rB, XB, oB2, rB2, x)
  <2>1. \A z \in XB : oB[z] = x => oB2[z] = x /\ rB2[z] = rB[z]
    BY <1>1
  <2>2. \A z \in XB : oB2[z] = x => oB[z] = x
    BY <1>1
  <2> QED
    BY <2>1, <2>2 DEF SamePlaces
<1> QED
  BY <1>1, <1>2 DEF LineAlike

\* The first n boxes of a line are the same.
Prefix(XB, oB, rB, XB2, oB2, rB2, l, n) ==
  \A x \in XB : oB[x] = l /\ rB[x] <= n => x \in XB2 /\ oB2[x] = l /\ rB2[x] = rB[x]

\* The boxes up to the place where a line is cut are still there.
LEMMA PrefixIs ==
  ASSUME NEW f, NEW XB, NEW oB, NEW rB, NEW l, NEW bs, LineBoxes(bs, f, XB, oB, rB, l),
         NEW h, NEW XB2, NEW oB2, NEW rB2, NEW bs2, LineBoxes(bs2, h, XB2, oB2, rB2, l),
         NEW n \in 1 .. Len(bs), Prefix(XB, oB, rB, XB2, oB2, rB2, l, n)
  PROVE  /\ n <= Len(bs2) /\ \A k \in 1 .. n : bs2[k] = bs[k]
         /\ (\A x \in XB2 : oB2[x] = l => rB2[x] <= n) => Len(bs2) = n
<1>1. Len(bs) \in Nat /\ Len(bs2) \in Nat \ {0}
  BY DEF LineBoxes
<1>2. ASSUME NEW k \in 1 .. n PROVE k <= Len(bs2) /\ bs2[k] = bs[k]
  <2>1. k \in 1 .. Len(bs) /\ k <= n /\ k \in Nat
    BY <1>1
  <2>2. bs[k] \in XB /\ oB[bs[k]] = l /\ rB[bs[k]] = k
    BY <2>1 DEF LineBoxes
  <2>3. bs[k] \in XB2 /\ oB2[bs[k]] = l /\ rB2[bs[k]] = k
    BY <2>1, <2>2 DEF Prefix
  <2>4. k \in 1 .. Len(bs2) /\ bs2[k] = bs[k]
    BY <2>3 DEF LineBoxes
  <2> QED
    BY <2>4
<1>3. n \in 1 .. n
  BY <1>1
<1>4. n <= Len(bs2) /\ n \in Nat
  BY <1>1, <1>2, <1>3
<1>5. ASSUME \A x \in XB2 : oB2[x] = l => rB2[x] <= n PROVE Len(bs2) = n
  <2>1. Len(bs2) \in 1 .. Len(bs2)
    BY <1>1
  <2>2. bs2[Len(bs2)] \in XB2 /\ oB2[bs2[Len(bs2)]] = l /\ rB2[bs2[Len(bs2)]] = Len(bs2)
    BY <2>1 DEF LineBoxes
  <2> QED
    BY <1>1, <1>4, <1>5, <2>2
<1> QED
  BY <1>2, <1>4, <1>5

\* Line l has its first boxes, up to the last one left to it.
LineCut(f, h, XL, l, bs, n) ==
  /\ Len(Boxes(h, l)) = n /\ LineWidth(h, l) = WidthUpTo(f, bs, n)
  /\ h.L[l].firstB = bs[1] /\ SameText(f.B[bs[1]], h.B[bs[1]])
  /\ \A x \in XL : x # l => LineKept(f, h, x)

\* Moving the rest cuts the line after the box, and changes its paragraph alone.
LEMMA CutIs ==
  ASSUME NEW f, NEW Q, NEW XL, NEW oL, NEW rL, NEW XB, NEW oB, NEW rB,
         LB(f, Q, XL, oL, rL, XB, oB, rB),
         NEW h, NEW l \in XL, NEW b \in XB, oB[b] = l, NEW y, NEW XL2, NEW oL2, NEW rL2, NEW oB2,
         NEW rB2,
         RestMoved(f, h, Q, XL, oL, rL, XB, oB, rB, l, b, y, XL2, oL2, rL2, oB2, rB2),
         NEW bs, bs = Boxes(f, l)
  PROVE  /\ LineCut(f, h, XL, l, bs, rB[b]) /\ Elsewhere(f, h, Q, oL[l])
         /\ rB[b] \in 1 .. Len(bs) /\ bs[rB[b]] = b
<1>1. /\ LB(h, Q, XL2, oL2, rL2, XB, oB2, rB2) /\ SameT(f, h) /\ XL2 = XL \cup {y} /\ y \notin XL
      /\ \A x \in XL : oL2[x] = oL[x] /\ h.L[x].firstB = f.L[x].firstB
      /\ \A q \in Q : q # oL[l] => SamePlaces(XL, oL, rL, XL2, oL2, rL2, q)
      /\ \A x \in XB : oB2[x] = IF oB[x] = l /\ rB[x] > rB[b] THEN y ELSE oB[x]
      /\ \A x \in XB : ~(oB[x] = l /\ rB[x] > rB[b]) => rB2[x] = rB[x]
      /\ \A x \in XB : SameText(f.B[x], h.B[x])
  BY DEF RestMoved
<1>2. f \in Frames /\ h \in Frames /\ rB \in [XB -> Nat \ {0}] /\ oB \in [XB -> XL] /\ rB2 \in [XB -> Nat \ {0}]
      /\ XB \subseteq 1 .. Len(f.B)
  BY <1>1, LBFacts
<1>3. \A x \in XL : x # l => LineAlike(f, h, XB, oB, rB, XB, oB2, rB2, x)
  BY RestAlike
<1>4. \A x \in XL : x # l => LineKept(f, h, x)
  <2> SUFFICES ASSUME NEW x \in XL, x # l PROVE LineKept(f, h, x)
    OBVIOUS
  <2>1. x \in XL2 /\ LineAlike(f, h, XB, oB, rB, XB, oB2, rB2, x)
    BY <1>1, <1>3
  <2> QED
    BY <1>1, <2>1, LineAlikeKept
<1>5. Elsewhere(f, h, Q, oL[l])
  <2>1. PICK p : p = oL[l]
    OBVIOUS
  <2>2. \A q \in Q : q # p => SamePlaces(XL, oL, rL, XL2, oL2, rL2, q)
    BY <1>1, <2>1
  <2>3. \A x \in XL : oL[x] \in Q /\ oL[x] # p => LineAlike(f, h, XB, oB, rB, XB, oB2, rB2, x)
    BY <1>3, <2>1
  <2>4. Q \subseteq Q
    OBVIOUS
  <2>5. Elsewhere(f, h, Q, p)
    BY <1>1, <2>2, <2>3, <2>4, ElsewhereIs
  <2> QED
    BY <2>1, <2>5
<1>6. LineBoxes(bs, f, XB, oB, rB, l)
  BY LineBoxesAre
<1>7. PICK bs2 : bs2 = Boxes(h, l)
  OBVIOUS
<1>8. LineBoxes(bs2, h, XB, oB2, rB2, l)
  <2>1. l \in XL2
    BY <1>1
  <2> QED
    BY <1>1, <1>7, <2>1, LineBoxesAre
<1>9. PICK n : n = rB[b]
  OBVIOUS
<1>10. n \in 1 .. Len(bs) /\ bs[n] = b
  BY <1>6, <1>9 DEF LineBoxes
<1>11. Prefix(XB, oB, rB, XB, oB2, rB2, l, n)
  <2> SUFFICES ASSUME NEW x \in XB, oB[x] = l, rB[x] <= n PROVE oB2[x] = l /\ rB2[x] = rB[x]
    BY DEF Prefix
  <2>1. rB[x] \in Nat /\ n \in Nat
    BY <1>2, <1>9
  <2>2. ~(rB[x] > rB[b])
    BY <1>9, <2>1
  <2> QED
    BY <1>1, <2>2
<1>12. \A x \in XB : oB2[x] = l => rB2[x] <= n
  <2> SUFFICES ASSUME NEW x \in XB, oB2[x] = l PROVE rB2[x] <= n
    OBVIOUS
  <2>1. ~(oB[x] = l /\ rB[x] > rB[b]) /\ oB[x] = l
    <3>1. y # l
      BY <1>1
    <3> QED
      BY <1>1, <3>1
  <2>2. rB2[x] = rB[x] /\ rB[x] \in Nat /\ n \in Nat
    BY <1>1, <1>2, <1>9, <2>1
  <2> QED
    BY <1>9, <2>1, <2>2
<1>13. n <= Len(bs2) /\ (\A k \in 1 .. n : bs2[k] = bs[k]) /\ Len(bs2) = n
  BY <1>6, <1>8, <1>10, <1>11, <1>12, PrefixIs
<1>14. /\ Len(bs) \in Nat /\ DOMAIN bs = 1 .. Len(bs) /\ Len(bs2) \in Nat /\ DOMAIN bs2 = 1 .. Len(bs2)
       /\ \A k \in 1 .. Len(bs) : bs[k] \in 1 .. Len(f.B) /\ bs[k] \in XB
       /\ bs[1] = f.L[l].firstB
  BY <1>6, <1>8 DEF LineBoxes
<1>15. LineWidth(h, l) = WidthUpTo(f, bs, n)
  <2>1. \A k \in 1 .. n : bs2[k] = bs[k] /\ SameText(f.B[bs[k]], h.B[bs2[k]])
    <3> SUFFICES ASSUME NEW k \in 1 .. n PROVE bs2[k] = bs[k] /\ SameText(f.B[bs[k]], h.B[bs2[k]])
      OBVIOUS
    <3>1. k \in 1 .. Len(bs)
      BY <1>10, <1>14
    <3> QED
      BY <1>1, <1>13, <1>14, <3>1
  <2>2. n \in Nat /\ n <= Len(bs) /\ n <= Len(bs2) /\ h.width = f.width /\ n \in 0 .. n
    BY <1>1, <1>10, <1>13, <1>14 DEF SameT
  <2>3. \A k \in 0 .. n : WidthUpTo(h, bs2, k) = WidthUpTo(f, bs, k)
    <3>1. f \in Frames /\ h \in Frames /\ n \in Nat /\ n <= Len(bs) /\ n <= Len(bs2) /\ h.width = f.width
      BY <1>2, <2>2
    <3>2. Len(bs) \in Nat /\ DOMAIN bs = 1 .. Len(bs) /\ Len(bs2) \in Nat /\ DOMAIN bs2 = 1 .. Len(bs2)
      BY <1>14
    <3>3. \A k \in 1 .. Len(bs) : bs[k] \in 1 .. Len(f.B)
      BY <1>14
    <3>4. BoxesAlike(f, h, bs, bs2, n)
      BY <3>1, <3>2, <3>3, <2>1 DEF BoxesAlike
    <3> QED
      BY <3>1, <3>4, WidthsSame
  <2>4. WidthUpTo(h, bs2, n) = WidthUpTo(f, bs, n)
    BY <2>2, <2>3
  <2> QED
    BY <1>7, <1>13, <2>4 DEF LineWidth
<1>16. h.L[l].firstB = bs[1] /\ SameText(f.B[bs[1]], h.B[bs[1]])
  <2>1. 1 \in 1 .. Len(bs)
    BY <1>10, <1>14
  <2> QED
    BY <1>1, <1>14, <2>1
<1>17. LineCut(f, h, XL, l, bs, n)
  BY <1>4, <1>7, <1>13, <1>15, <1>16 DEF LineCut
<1> QED
  BY <1>5, <1>9, <1>10, <1>17

\* Paragraph p has no line box.
NoRule(f, p) ==
  \A k \in 1 .. Len(Lines(f, p)) : \A i \in 1 .. Len(Boxes(f, Lines(f, p)[k])) :
    f.B[Boxes(f, Lines(f, p)[k])[i]].kind # "line"
Unruled(f, oL, XB, oB, p) == \A x \in XB : oL[oB[x]] = p => f.B[x].kind # "line"
\* A paragraph without a rule, box by box.
LEMMA NoRuleIs ==
  ASSUME NEW f, NEW Q, NEW XL, NEW oL, NEW rL, NEW XB, NEW oB, NEW rB,
         LB(f, Q, XL, oL, rL, XB, oB, rB), NEW p \in Q
  PROVE  NoRule(f, p) <=> Unruled(f, oL, XB, oB, p)
<1>1. f \in Frames /\ LLayer(f, Q, XL, oL, rL) /\ Q \subseteq 1 .. Len(f.P) /\ oB \in [XB -> XL]
  BY LBFacts
<1>2. PICK ls : ls = Lines(f, p)
  OBVIOUS
<1>3. LineList(ls, f, XL, oL, rL, p)
  BY <1>1, <1>2, LinesAre
<1>4. /\ ls \in [1 .. Len(ls) -> XL] /\ \A k \in 1 .. Len(ls) : oL[ls[k]] = p
      /\ \A x \in XL : oL[x] = p => rL[x] \in 1 .. Len(ls) /\ ls[rL[x]] = x
  BY <1>3 DEF LineList, ListOf
<1>5. NoRule(f, p) <=> \A k \in 1 .. Len(ls) : \A i \in 1 .. Len(Boxes(f, ls[k])) : f.B[Boxes(f,
    ls[k])[i]].kind # "line"
  BY <1>2 DEF NoRule
<1>6. ASSUME NoRule(f, p), NEW x \in XB, oL[oB[x]] = p PROVE f.B[x].kind # "line"
  <2>1. PICK l, bs : l = oB[x] /\ bs = Boxes(f, l)
    OBVIOUS
  <2>2. l \in XL /\ oL[l] = p
    BY <1>1, <1>6, <2>1
  <2>3. LineBoxes(bs, f, XB, oB, rB, l)
    BY <2>1, <2>2, LineBoxesAre
  <2>4. rB[x] \in 1 .. Len(bs) /\ bs[rB[x]] = x
    BY <2>1, <2>3 DEF LineBoxes
  <2>5. rL[l] \in 1 .. Len(ls) /\ ls[rL[l]] = l
    BY <1>4, <2>2
  <2> QED
    BY <1>5, <1>6, <2>1, <2>4, <2>5
<1>7. ASSUME Unruled(f, oL, XB, oB, p), NEW k \in 1 .. Len(ls), NEW i \in 1 .. Len(Boxes(f, ls[k]))
      PROVE  f.B[Boxes(f, ls[k])[i]].kind # "line"
  <2>1. PICK l, bs : l = ls[k] /\ bs = Boxes(f, l)
    OBVIOUS
  <2>2. l \in XL /\ oL[l] = p
    BY <1>4, <2>1
  <2>3. LineBoxes(bs, f, XB, oB, rB, l)
    BY <2>1, <2>2, LineBoxesAre
  <2>4. bs[i] \in XB /\ oB[bs[i]] = l
    BY <2>1, <2>3 DEF LineBoxes
  <2> QED
    BY <1>7, <2>1, <2>2, <2>4 DEF Unruled
<1>8. ASSUME Unruled(f, oL, XB, oB, p) PROVE NoRule(f, p)
  BY <1>5, <1>7, <1>8
<1>9. ASSUME NoRule(f, p) PROVE Unruled(f, oL, XB, oB, p)
  BY <1>6, <1>9 DEF Unruled
<1> QED
  BY <1>8, <1>9

\* What the loop over the lines of paragraph p left: line l is to be looked at.
Laying(f0, Q, p, N, f, l, XL, oL, rL, XB, oB, rB) ==
  /\ LB(f, Q, XL, oL, rL, XB, oB, rB) /\ Sum(f, XB) = f.len
  /\ SameP(f0, f) /\ SameT(f0, f) /\ SameC(f0, f) /\ Elsewhere(f0, f, Q, p)
  /\ \A x \in XL : oL[x] = p /\ x # l => Fits(f, x)
  /\ NoRule(f0, p) => Unruled(f, oL, XB, oB, p)
  /\ l # 0 => l \in XL /\ oL[l] = p /\ f.L[l].next = 0 /\ Left(f, Of(XB, oB, l)) <= N
Laid(f0, Q, p, N, f, l) ==
  \E XL, oL, rL, XB, oB, rB : Laying(f0, Q, p, N, f, l, XL, oL, rL, XB, oB, rB)

SameTexts(f, h, S) ==
  S \subseteq 1 .. Len(f.B) /\ Len(h.B) = Len(f.B) /\ \A x \in S : SameText(f.B[x], h.B[x])

\* The same lengths have the same sum.
LEMMA SumSame ==
  ASSUME NEW f \in Frames, NEW h \in Frames, NEW S, SameTexts(f, h, S)
  PROVE  Sum(h, S) = Sum(f, S)
<1>1. PICK z : z = 0
  OBVIOUS
<1>2. \A k \in 1 .. Len(h.B) : LenAt(h, S, k) = LenAt(f, S, k)
  BY DEF LenAt, SameText, BoxLen, SameTexts
<1>3. Len(h.B) \in Nat /\ Len(f.B) \in Nat
  BY SMTT(30) DEF Frames
<1>4. z \in 0 .. Len(h.B)
  BY <1>1, <1>3
<1>5. SumsDiffer(f, h, S, S, z, z)
  BY <1>1, <1>2, <1>3, <1>4 DEF SumsDiffer, SameTexts
<1>6. Sum(h, S) = Sum(f, S) + LenAt(h, S, z) - LenAt(f, S, z) + LenAt(h, S, z) - LenAt(f, S, z)
  BY <1>5, SumChanged
<1>7. LenAt(h, S, z) = 0 /\ LenAt(f, S, z) = 0
  <2>1. z \notin S
    BY <1>1, <1>3 DEF SameTexts
  <2> QED
    BY <2>1 DEF LenAt
<1>8. Sum(f, S) \in Int
  BY SumIs
<1> QED
  BY <1>6, <1>7, <1>8

\* The part of a line up to box b fits.
HeadFits(f, bs, n) ==
  /\ WidthUpTo(f, bs, n) \in Int
  /\ WidthUpTo(f, bs, n) <= f.width \/ (n = 1 /\ f.B[bs[1]].kind # "text")

\* The lines of paragraph p fit, but for line l.
OthersFit(f, XL, oL, p, l) == \A x \in XL : oL[x] = p /\ x # l => Fits(f, x)

\* The lines of a paragraph fit when the one that was cut does and the others did.
LEMMA CutFits ==
  ASSUME NEW f, NEW Q, NEW XL, NEW oL, NEW rL, NEW XB, NEW oB, NEW rB,
         LB(f, Q, XL, oL, rL, XB, oB, rB),
         NEW h \in Frames, h.width = f.width, NEW l, NEW bs, NEW n \in Nat,
         LineCut(f, h, XL, l, bs, n), HeadFits(f, bs, n),
         NEW p, OthersFit(f, XL, oL, p, l)
  PROVE  \A x \in XL : oL[x] = p => Fits(h, x)
<1> SUFFICES ASSUME NEW x \in XL, oL[x] = p PROVE Fits(h, x)
  OBVIOUS
<1>1. f \in Frames /\ XL \subseteq 1 .. Len(f.L) /\ BLayer(f, XL, XB, oB, rB)
  BY LBFacts
<1>2. CASE x # l
  <2>1. Fits(f, x) /\ LineKept(f, h, x)
    BY <1>2 DEF LineCut, OthersFit
  <2> QED
    BY <1>1, <2>1, FitsKept
<1>3. CASE x = l
  <2>1. /\ Len(Boxes(h, l)) = n /\ LineWidth(h, l) = WidthUpTo(f, bs, n)
        /\ h.L[l].firstB = bs[1] /\ h.B[bs[1]].kind = f.B[bs[1]].kind
    BY DEF LineCut, SameText
  <2>2. PICK w : w = WidthUpTo(f, bs, n)
    OBVIOUS
  <2>3. w <= f.width \/ (n = 1 /\ f.B[bs[1]].kind # "text")
    BY <2>2 DEF HeadFits
  <2>4. w \in Int /\ h.width \in Int
    BY <2>2 DEF Frames, HeadFits
  <2> QED
    BY <1>3, <2>1, <2>2, <2>3, <2>4 DEF Fits
<1> QED
  BY <1>2, <1>3

\* Breaking a line leaves less to lay out.
LEMMA CutLeft ==
  ASSUME NEW f, NEW Q, NEW XL, NEW oL, NEW rL, NEW XB, NEW oB, NEW rB,
         LB(f, Q, XL, oL, rL, XB, oB, rB),
         NEW h, NEW l \in XL, NEW b \in XB, oB[b] = l, NEW y, NEW XL2, NEW oL2, NEW rL2, NEW oB2,
         NEW rB2,
         RestMoved(f, h, Q, XL, oL, rL, XB, oB, rB, l, b, y, XL2, oL2, rL2, oB2, rB2)
  PROVE  /\ Left(h, Of(XB, oB2, y)) <= Left(f, Of(XB, oB, l)) - 1 /\ Left(h, Of(XB, oB2, y)) \in Int
         /\ BoxLen(f.B[b]) # 0 \/ rB[b] # 1 => Left(h, Of(XB, oB2, y)) <= Left(f, Of(XB, oB, l)) - 2
<1>1. /\ LB(h, Q, XL2, oL2, rL2, XB, oB2, rB2) /\ y \notin XL /\ Len(h.B) = Len(f.B)
      /\ (\A x \in XB : oB2[x] = IF oB[x] = l /\ rB[x] > rB[b] THEN y ELSE oB[x])
      /\ \A x \in XB : SameText(f.B[x], h.B[x])
  BY DEF RestMoved
<1>2. f \in Frames /\ h \in Frames /\ rB \in [XB -> Nat \ {0}] /\ oB \in [XB -> XL] /\ XB \subseteq 1 .. Len(f.B)
  BY <1>1, LBFacts
<1>3. PICK S, T : S = Of(XB, oB, l) /\ T = Of(XB, oB2, y)
  OBVIOUS
<1>4. T \subseteq S /\ S \subseteq XB /\ b \in S /\ b \notin T
      /\ \A x \in S : rB[x] <= rB[b] => x \notin T
  <2>1. \A x \in XB : oB[x] # y
    BY <1>1, <1>2
  <2>2. \A x \in T : oB[x] = l /\ rB[x] > rB[b] /\ x \in XB
    BY <1>1, <1>3, <2>1 DEF Of
  <2>3. \A x \in XB : rB[x] \in Nat
    BY <1>2
  <2> QED
    BY <1>3, <2>2, <2>3 DEF Of
<1>5. PICK bs : bs = Boxes(f, l)
  OBVIOUS
<1>6. LineBoxes(bs, f, XB, oB, rB, l)
  BY <1>5, LineBoxesAre
<1>7. rB[b] \in 1 .. Len(bs) /\ bs[1] \in XB /\ oB[bs[1]] = l /\ rB[bs[1]] = 1 /\ Len(bs) \in Nat
  <2>1. rB[b] \in 1 .. Len(bs) /\ Len(bs) \in Nat \ {0}
    BY <1>6 DEF LineBoxes
  <2>2. 1 \in 1 .. Len(bs)
    BY <2>1
  <2> QED
    BY <1>6, <2>1, <2>2 DEF LineBoxes
<1>8. PICK j : j = bs[1]
  OBVIOUS
<1>9. j \in S /\ j \notin T /\ (rB[b] # 1 => j # b)
  <2>1. j \in S
    BY <1>3, <1>7, <1>8 DEF Of
  <2>2. rB[j] <= rB[b]
    BY <1>7, <1>8
  <2> QED
    BY <1>4, <1>7, <1>8, <2>1, <2>2
<1>10. \A x \in S : BoxLen(f.B[x]) \in Nat
  <2>1. \A x \in XB : BoxLen(f.B[x]) \in Nat
    BY LeftAtStart
  <2> QED
    BY <1>4, <2>1
<1>11. \A x \in T : BoxLen(h.B[x]) = BoxLen(f.B[x])
  BY <1>1, <1>4 DEF SameText, BoxLen
<1>12. S \subseteq 1 .. Len(f.B)
  BY <1>2, <1>4
<1>13. /\ Left(h, T) <= Left(f, S) - BoxLen(f.B[b]) - 1 /\ Left(h, T) \in Int
       /\ b # j => Left(h, T) <= Left(f, S) - BoxLen(f.B[b]) - 2
  BY <1>1, <1>2, <1>4, <1>9, <1>10, <1>11, <1>12, LeftDropped
<1>14. Left(f, S) \in Int
  BY <1>4, LeftAtStart
<1>15. BoxLen(f.B[b]) \in Nat
  BY <1>4, <1>10
<1> QED
  BY <1>3, <1>9, <1>13, <1>14, <1>15

\* What follows box b goes to a line that is to be looked at next.
LEMMA CutLaid ==
  ASSUME NEW f0, NEW Q, NEW p, NEW N \in Int, NEW f, NEW l, l # 0,
         NEW XL, NEW oL, NEW rL, NEW XB, NEW oB, NEW rB,
         Laying(f0, Q, p, N, f, l, XL, oL, rL, XB, oB, rB),
         NEW b \in XB, oB[b] = l, NextIndex(f, b) # 0, HeadFits(f, Boxes(f, l), rB[b]),
         NEW M \in Int, M >= N - 1 \/ (M >= N - 2 /\ (BoxLen(f.B[b]) # 0 \/ rB[b] # 1)),
         NEW h, h = MoveRest(f, l, b)
  PROVE  Laid(f0, Q, p, M, h, h.L[l].next)
<1>1. /\ LB(f, Q, XL, oL, rL, XB, oB, rB) /\ Sum(f, XB) = f.len
      /\ SameP(f0, f) /\ SameT(f0, f) /\ SameC(f0, f) /\ Elsewhere(f0, f, Q, p)
      /\ \A x \in XL : oL[x] = p /\ x # l => Fits(f, x)
      /\ l \in XL /\ oL[l] = p /\ f.L[l].next = 0 /\ Left(f, Of(XB, oB, l)) <= N
  BY DEF Laying
<1>2. PICK y, XL2, oL2, rL2, oB2, rB2 :
         RestMoved(f, h, Q, XL, oL, rL, XB, oB, rB, l, b, y, XL2, oL2, rL2, oB2, rB2)
  BY <1>1, MoveRestIs
<1>3. /\ LB(h, Q, XL2, oL2, rL2, XB, oB2, rB2)
      /\ SameP(f, h) /\ SameT(f, h) /\ SameC(f, h) /\ Len(h.B) = Len(f.B)
      /\ y \notin XL /\ XL2 = XL \cup {y} /\ oL2[y] = oL[l] /\ h.L[l].next = y /\ h.L[y].next = 0
      /\ \A x \in XL : oL2[x] = oL[x]
      /\ \A x \in XB : SameText(f.B[x], h.B[x])
  BY <1>2 DEF RestMoved
<1>4. f \in Frames /\ h \in Frames /\ XB \subseteq 1 .. Len(f.B) /\ rB \in [XB -> Nat \ {0}]
      /\ XL2 \subseteq 1 .. Len(h.L)
  BY <1>1, <1>3, LBFacts
<1>5. PICK bs : bs = Boxes(f, l)
  OBVIOUS
<1>6. LineCut(f, h, XL, l, bs, rB[b]) /\ Elsewhere(f, h, Q, p)
  <2>1. LineCut(f, h, XL, l, bs, rB[b]) /\ Elsewhere(f, h, Q, oL[l])
    BY <1>1, <1>2, <1>5, CutIs
  <2> QED
    BY <1>1, <2>1
<1>7. \A x \in XL2 : oL2[x] = p /\ x # y => Fits(h, x)
  <2>1. PICK n \in Nat : n = rB[b]
    BY <1>4
  <2>2. LineCut(f, h, XL, l, bs, n) /\ HeadFits(f, bs, n) /\ h.width = f.width
    BY <1>3, <1>5, <1>6, <2>1 DEF SameT
  <2>3. OthersFit(f, XL, oL, p, l)
    BY <1>1 DEF OthersFit
  <2>4. \A x \in XL : oL[x] = p => Fits(h, x)
    BY <1>1, <1>4, <2>2, <2>3, CutFits
  <2> QED
    BY <1>3, <2>4
<1>8. Sum(h, XB) = h.len
  <2>1. Sum(h, XB) = Sum(f, XB)
    <3>1. SameTexts(f, h, XB)
      BY <1>3, <1>4 DEF SameTexts
    <3> QED
      BY <1>4, <3>1, SumSame
  <2> QED
    BY <1>1, <1>3, <2>1 DEF SameT
<1>9. Left(h, Of(XB, oB2, y)) <= M
  <2>1. /\ Left(h, Of(XB, oB2, y)) <= Left(f, Of(XB, oB, l)) - 1 /\ Left(h, Of(XB, oB2, y)) \in Int
        /\ BoxLen(f.B[b]) # 0 \/ rB[b] # 1 => Left(h, Of(XB, oB2, y)) <= Left(f, Of(XB, oB, l)) - 2
    BY <1>1, <1>2, CutLeft
  <2>2. Left(f, Of(XB, oB, l)) \in Int
    <3>1. PICK S : S = Of(XB, oB, l)
      OBVIOUS
    <3>2. S \subseteq XB
      BY <3>1 DEF Of
    <3>3. Left(f, S) \in Nat
      BY <1>1, <3>2, LeftAtStart
    <3> QED
      BY <3>1, <3>3
  <2> QED
    BY <1>1, <2>1, <2>2
<1>10. y # 0 /\ y \in XL2 /\ oL2[y] = p
  <2>1. y \in XL2 /\ oL2[y] = p
    BY <1>1, <1>3
  <2> QED
    BY <1>4, <2>1
<1>11. SameP(f0, h) /\ SameT(f0, h) /\ SameC(f0, h) /\ Elsewhere(f0, h, Q, p)
  <2>1. SameP(f0, h) /\ SameT(f0, h) /\ SameC(f0, h)
    BY <1>1, <1>3 DEF SameP, SameT, SameC
  <2>2. Elsewhere(f0, h, Q, p)
    BY <1>1, <1>6, ElsewhereTwice
  <2> QED
    BY <2>1, <2>2
<1>15. NoRule(f0, p) => Unruled(h, oL2, XB, oB2, p)
  <2> SUFFICES ASSUME NoRule(f0, p), NEW x \in XB, oL2[oB2[x]] = p PROVE h.B[x].kind # "line"
    BY DEF Unruled
  <2>1. oB2[x] = (IF oB[x] = l /\ rB[x] > rB[b] THEN y ELSE oB[x]) /\ oB[x] \in XL
    BY <1>1, <1>2, LBFacts DEF RestMoved
  <2>2. oL[oB[x]] = p
    BY <1>1, <1>3, <2>1
  <2>3. f.B[x].kind # "line"
    BY <2>2 DEF Laying, Unruled
  <2> QED
    BY <1>3, <2>3 DEF SameText
<1>12. Laying(f0, Q, p, M, h, y, XL2, oL2, rL2, XB, oB2, rB2)
  BY <1>3, <1>7, <1>8, <1>9, <1>10, <1>11, <1>15 DEF Laying
<1>13. h.L[l].next = y
  BY <1>3
<1>14. Laid(f0, Q, p, M, h, y)
  BY <1>12 DEF Laid
<1> QED
  BY <1>13, <1>14

\* A text is split at the room left by the boxes before it.
LEMMA SplitLaid ==
  ASSUME NEW f0, NEW Q, NEW p, NEW N \in Int, NEW f, NEW l, l # 0,
         NEW XL, NEW oL, NEW rL, NEW XB, NEW oB, NEW rB,
         Laying(f0, Q, p, N, f, l, XL, oL, rL, XB, oB, rB),
         NEW b \in XB, oB[b] = l, f.B[b].kind = "text",
         NEW h, NEW room \in Nat, NEW y, NEW XB2, NEW oB2, NEW rB2,
         BoxSplit(f, h, Q, XL, oL, rL, XB, oB, rB, b, room, y, XB2, oB2, rB2)
  PROVE  Laying(f0, Q, p, N + 1, h, l, XL, oL, rL, XB2, oB2, rB2)
<1>1. /\ LB(f, Q, XL, oL, rL, XB, oB, rB) /\ Sum(f, XB) = f.len
      /\ SameP(f0, f) /\ SameT(f0, f) /\ SameC(f0, f) /\ Elsewhere(f0, f, Q, p)
      /\ \A x \in XL : oL[x] = p /\ x # l => Fits(f, x)
      /\ l \in XL /\ oL[l] = p /\ f.L[l].next = 0 /\ Left(f, Of(XB, oB, l)) <= N
  BY DEF Laying
<1>2. /\ LB(h, Q, XL, oL, rL, XB2, oB2, rB2) /\ OnlyB(f, h) /\ Sum(h, XB2) = Sum(f, XB)
  BY DEF BoxSplit
<1>3. f \in Frames /\ h \in Frames /\ XL \subseteq 1 .. Len(f.L) /\ oL \in [XL -> Q] /\ rL \in [XL -> Nat \ {0}]
  BY <1>1, <1>2, LBFacts
<1>4. \A x \in XL : x # l => LineAlike(f, h, XB, oB, rB, XB2, oB2, rB2, x)
  <2> SUFFICES ASSUME NEW x \in XL, x # l PROVE LineAlike(f, h, XB, oB, rB, XB2, oB2, rB2, x)
    OBVIOUS
  <2>1. x # oB[b]
    OBVIOUS
  <2> QED
    BY <1>1, <2>1, SplitAlike
<1>5. \A x \in XL : oL[x] = p /\ x # l => Fits(h, x)
  <2> SUFFICES ASSUME NEW x \in XL, oL[x] = p, x # l PROVE Fits(h, x)
    OBVIOUS
  <2>1. LineKept(f, h, x)
    BY <1>1, <1>2, <1>4, LineAlikeKept
  <2>2. Fits(f, x) /\ h.width = f.width
    BY <1>1, <1>2 DEF OnlyB, SameT
  <2>3. BLayer(f, XL, XB, oB, rB)
    BY <1>1, LBFacts
  <2> QED
    BY <1>3, <2>1, <2>2, <2>3, FitsKept
<1>6. Elsewhere(f, h, Q, p)
  <2>1. \A q \in Q : q # p => SamePlaces(XL, oL, rL, XL, oL, rL, q)
    BY DEF SamePlaces
  <2>2. \A x \in XL : oL[x] \in Q /\ oL[x] # p => LineAlike(f, h, XB, oB, rB, XB2, oB2, rB2, x)
    BY <1>1, <1>4
  <2>3. Q \subseteq Q
    OBVIOUS
  <2> QED
    BY <1>1, <1>2, <2>1, <2>2, <2>3, ElsewhereIs
<1>7. Left(h, Of(XB2, oB2, l)) <= N + 1
  <2>1. Left(h, Of(XB2, oB2, oB[b])) = Left(f, Of(XB, oB, oB[b])) + 1
    BY <1>1, LeftSplit
  <2>2. Left(f, Of(XB, oB, l)) \in Int
    <3>1. PICK S : S = Of(XB, oB, l)
      OBVIOUS
    <3>2. S \subseteq XB
      BY <3>1 DEF Of
    <3>3. Left(f, S) \in Nat
      BY <1>1, <3>2, LeftAtStart
    <3> QED
      BY <3>1, <3>3
  <2> QED
    BY <1>1, <2>1, <2>2
<1>8. SameP(f0, h) /\ SameT(f0, h) /\ SameC(f0, h) /\ Elsewhere(f0, h, Q, p)
  <2>1. SameP(f0, h) /\ SameT(f0, h) /\ SameC(f0, h)
    BY <1>1, <1>2 DEF SameP, SameT, SameC, OnlyB
  <2>2. Elsewhere(f0, h, Q, p)
    BY <1>1, <1>6, ElsewhereTwice
  <2> QED
    BY <2>1, <2>2
<1>9. h.L[l].next = 0 /\ Sum(h, XB2) = h.len
  BY <1>1, <1>2 DEF OnlyB, SameL, SameT
<1>10. NoRule(f0, p) => Unruled(h, oL, XB2, oB2, p)
  <2> SUFFICES ASSUME NoRule(f0, p), NEW x \in XB2, oL[oB2[x]] = p PROVE h.B[x].kind # "line"
    BY DEF Unruled
  <2>1. CASE x = b \/ x = y
    BY <2>1 DEF BoxSplit
  <2>2. CASE x # b /\ x # y
    <3>1. x \in XB /\ oB2[x] = oB[x] /\ SameText(f.B[x], h.B[x])
      BY <2>2 DEF BoxSplit
    <3>2. f.B[x].kind # "line"
      BY <3>1 DEF Laying, Unruled
    <3> QED
      BY <3>1, <3>2 DEF SameText
  <2> QED
    BY <2>1, <2>2
<1> QED
  BY <1>1, <1>2, <1>5, <1>7, <1>8, <1>9, <1>10 DEF Laying

\* The first box that ends beyond the width of the frame.
Exceeds(f, l, bs, k, room) ==
  /\ k \in 1 .. Len(bs) /\ room \in Nat /\ room = f.width - WidthUpTo(f, bs, k - 1)
  /\ BoxWidth(f, bs[k]) > room /\ WidthUpTo(f, bs, k - 1) <= f.width
  /\ k = 1 => room = f.width

\* A line has no overflow and fits, or exceeds the width at its first one.
LEMMA ExceedsIs ==
  ASSUME NEW f, NEW Q, NEW XL, NEW oL, NEW rL, NEW XB, NEW oB, NEW rB,
         LB(f, Q, XL, oL, rL, XB, oB, rB),
         NEW l \in XL, NEW bs, bs = Boxes(f, l)
  PROVE  /\ Overflows(f, bs) = {} => Fits(f, l)
         /\ Overflows(f, bs) # {} =>
              Exceeds(f, l, bs, Least(Overflows(f, bs)),
                  f.width - WidthUpTo(f, bs, Least(Overflows(f, bs)) - 1))
<1>1. f \in Frames /\ f.width \in Nat
  BY LBFacts DEF Frames
<1>2. LineBoxes(bs, f, XB, oB, rB, l)
  BY LineBoxesAre
<1>3. Len(bs) \in Nat \ {0} /\ DOMAIN bs = 1 .. Len(bs) /\ \A k \in 1 .. Len(bs) : bs[k] \in 1 .. Len(f.B)
  BY <1>2 DEF LineBoxes
<1>4. /\ WidthUpTo(f, bs, 0) = 0
      /\ \A k \in 0 .. Len(bs) : WidthUpTo(f, bs, k) \in Int
      /\ \A k \in 1 .. Len(bs) : WidthUpTo(f, bs, k) = WidthUpTo(f, bs, k - 1) + BoxWidth(f, bs[k])
      /\ \A k \in 1 .. Len(bs) : BoxWidth(f, bs[k]) \in Int
  BY <1>1, <1>3, WidthsAre
<1>5. PICK Over : Over = Overflows(f, bs)
  OBVIOUS
<1>6. Over = {k \in 1 .. Len(bs) : WidthUpTo(f, bs, k) > f.width}
  BY <1>3, <1>5 DEF Overflows
<1>7. ASSUME Over = {} PROVE Fits(f, l)
  <2>1. Len(bs) \in 1 .. Len(bs) /\ Len(bs) \in 0 .. Len(bs)
    BY <1>3
  <2>2. ~(WidthUpTo(f, bs, Len(bs)) > f.width)
    BY <1>6, <1>7, <2>1
  <2> QED
    BY <2>2 DEF Fits, LineWidth
<1>8. ASSUME Over # {}, NEW k, k = Least(Over), NEW room, room = f.width - WidthUpTo(f, bs, k - 1)
      PROVE  Exceeds(f, l, bs, k, room)
  <2>1. k \in Over /\ \A m \in Over : k <= m
    <3>1. Over \subseteq Nat
      BY <1>6
    <3>2. \E x \in Over : \A y \in Over : x <= y
      BY <1>8, <3>1, LeastOf
    <3> QED
      BY <1>8, <3>2 DEF Least
  <2>2. k \in 1 .. Len(bs) /\ WidthUpTo(f, bs, k) > f.width
    BY <1>6, <2>1
  <2>3. k - 1 \in 0 .. Len(bs)
    BY <1>3, <2>2
  <2>4. PICK v : v = WidthUpTo(f, bs, k - 1)
    OBVIOUS
  <2>5. v \in Int
    BY <1>4, <2>3, <2>4
  <2>6. k = 1 => v = 0
    <3> SUFFICES ASSUME k = 1 PROVE v = 0
      OBVIOUS
    <3>1. k - 1 = 0
      OBVIOUS
    <3> QED
      BY <1>4, <2>4, <3>1
  <2>7. v <= f.width
    <3>1. CASE k = 1
      BY <1>1, <2>6, <3>1
    <3>2. CASE k # 1
      <4>1. k - 1 \in 1 .. Len(bs) /\ ~(k <= k - 1)
        BY <1>3, <2>2, <3>2
      <4>2. k - 1 \notin Over
        BY <2>1, <4>1
      <4>3. ~(v > f.width)
        BY <1>6, <2>4, <4>1, <4>2
      <4> QED
        BY <1>1, <2>5, <4>3
    <3> QED
      BY <3>1, <3>2
  <2>8. WidthUpTo(f, bs, k) = v + BoxWidth(f, bs[k]) /\ BoxWidth(f, bs[k]) \in Int
    BY <1>4, <2>2, <2>4
  <2>9. room \in Nat /\ BoxWidth(f, bs[k]) > room /\ (k = 1 => room = f.width) /\ room = f.width - v
    BY <1>1, <1>8, <2>2, <2>4, <2>5, <2>6, <2>7, <2>8
  <2> QED
    BY <2>2, <2>4, <2>7, <2>9 DEF Exceeds
<1> QED
  BY <1>5, <1>7, <1>8

\* What is before the pivot of a split box fits.
LEMMA SplitHead ==
  ASSUME NEW f, NEW Q, NEW XL, NEW oL, NEW rL, NEW XB, NEW oB, NEW rB,
         LB(f, Q, XL, oL, rL, XB, oB, rB),
         NEW l \in XL, NEW bs, bs = Boxes(f, l), NEW k, NEW room, Exceeds(f, l, bs, k, room),
         NEW b, b = bs[k], f.B[b].kind = "text",
         NEW h, NEW y, NEW XB2, NEW oB2, NEW rB2,
         BoxSplit(f, h, Q, XL, oL, rL, XB, oB, rB, b, room, y, XB2, oB2, rB2)
  PROVE  HeadFits(h, Boxes(h, l), k) /\ rB2[b] = k
<1>1. /\ LB(h, Q, XL, oL, rL, XB2, oB2, rB2) /\ h.width = f.width
      /\ y \notin XB /\ XB2 = XB \cup {y} /\ oB2[y] = oB[b]
      /\ \A x \in XB : oB2[x] = oB[x]
      /\ \A x \in XB : rB2[x] = IF oB[x] = oB[b] /\ rB[x] > rB[b] THEN rB[x] + 1 ELSE rB[x]
      /\ \A x \in XB : x # b => SameText(f.B[x], h.B[x])
      /\ h.B[b].kind = "text" /\ h.B[b].w <= room
  BY DEF BoxSplit, OnlyB, SameT
<1>2. f \in Frames /\ h \in Frames /\ rB \in [XB -> Nat \ {0}] /\ f.width \in Nat
  BY <1>1, LBFacts, SMTT(30) DEF Frames
<1>3. LineBoxes(bs, f, XB, oB, rB, l)
  BY LineBoxesAre
<1>4. PICK bs2 : bs2 = Boxes(h, l)
  OBVIOUS
<1>5. LineBoxes(bs2, h, XB2, oB2, rB2, l)
  BY <1>1, <1>4, LineBoxesAre
<1>6. k \in 1 .. Len(bs) /\ b \in XB /\ rB[b] = k /\ oB[b] = l /\ Len(bs) \in Nat
  BY <1>3 DEF Exceeds, LineBoxes
<1>7. rB2[b] = k
  BY <1>1, <1>2, <1>6
<1>8. Prefix(XB, oB, rB, XB2, oB2, rB2, l, k)
  <2> SUFFICES ASSUME NEW x \in XB, oB[x] = l,
      rB[x] <= k PROVE x \in XB2 /\ oB2[x] = l /\ rB2[x] = rB[x]
    BY DEF Prefix
  <2>1. ~(rB[x] > rB[b])
    BY <1>2, <1>6
  <2> QED
    BY <1>1, <2>1
<1>9. k <= Len(bs2) /\ \A j \in 1 .. k : bs2[j] = bs[j]
  BY <1>3, <1>5, <1>6, <1>8, PrefixIs
<1>10. PICK n : n = k - 1
  OBVIOUS
<1>11. n \in Nat /\ n <= Len(bs) /\ n <= Len(bs2) /\ n + 1 = k
  BY <1>5, <1>6, <1>9, <1>10 DEF LineBoxes
<1>12. /\ DOMAIN bs = 1 .. Len(bs) /\ Len(bs2) \in Nat /\ DOMAIN bs2 = 1 .. Len(bs2)
       /\ (\A j \in 1 .. Len(bs) : bs[j] \in 1 .. Len(f.B)) /\ \A j \in 1 .. Len(bs2) : bs2[j] \in 1 .. Len(h.B)
  BY <1>3, <1>5 DEF LineBoxes
<1>13. \A j \in 1 .. n : bs2[j] = bs[j] /\ SameText(f.B[bs[j]], h.B[bs2[j]])
  <2> SUFFICES ASSUME NEW j \in 1 .. n PROVE bs2[j] = bs[j] /\ SameText(f.B[bs[j]], h.B[bs2[j]])
    OBVIOUS
  <2>1. j \in 1 .. k /\ j \in 1 .. Len(bs) /\ j # k
    BY <1>6, <1>11
  <2>2. bs[j] \in XB /\ rB[bs[j]] = j
    BY <1>3, <2>1 DEF LineBoxes
  <2>3. bs[j] # b
    BY <1>6, <2>1, <2>2
  <2> QED
    BY <1>1, <1>9, <2>1, <2>2, <2>3
<1>14. BoxesAlike(f, h, bs, bs2, n)
  BY <1>1, <1>6, <1>11, <1>12, <1>13 DEF BoxesAlike
<1>15. \A j \in 0 .. n : WidthUpTo(h, bs2, j) = WidthUpTo(f, bs, j)
  BY <1>2, <1>14, WidthsSame
<1>16. PICK v : v = WidthUpTo(f, bs, n)
  OBVIOUS
<1>17. WidthUpTo(h, bs2, n) = v
  <2>1. n \in 0 .. n
    BY <1>11
  <2> QED
    BY <1>15, <1>16, <2>1
<1>18. /\ \A j \in 0 .. Len(bs2) : WidthUpTo(h, bs2, j) \in Int
       /\ \A j \in 1 .. Len(bs2) : WidthUpTo(h, bs2, j) = WidthUpTo(h, bs2, j - 1) + BoxWidth(h,
           bs2[j])
       /\ \A j \in 1 .. Len(bs2) : BoxWidth(h, bs2[j]) \in Int
  BY <1>2, <1>12, WidthsAre
<1>19. k \in 1 .. Len(bs2) /\ n \in 0 .. Len(bs2) /\ k \in 0 .. Len(bs2) /\ k \in 1 .. k
  BY <1>6, <1>9, <1>11, <1>12
<1>20. v \in Int /\ BoxWidth(h, b) \in Int /\ WidthUpTo(h, bs2, k) = v + BoxWidth(h, b)
  <2>1. bs2[k] = b
    BY <1>9, <1>19
  <2>2. WidthUpTo(h, bs2, k) = WidthUpTo(h, bs2, n) + BoxWidth(h, bs2[k]) /\ BoxWidth(h,
      bs2[k]) \in Int
    BY <1>10, <1>18, <1>19
  <2>3. WidthUpTo(h, bs2, n) \in Int
    BY <1>18, <1>19
  <2> QED
    BY <1>17, <2>1, <2>2, <2>3
<1>21. BoxWidth(h, b) <= room
  <2>1. BoxWidth(h, b) = h.B[b].w
    <3>1. "text" # "line"
      OBVIOUS
    <3> QED
      BY <1>1, <3>1 DEF BoxWidth
  <2> QED
    BY <1>1, <2>1
<1>22. room \in Nat /\ room = f.width - v
  BY <1>10, <1>16 DEF Exceeds
<1>23. WidthUpTo(h, bs2, k) \in Int /\ WidthUpTo(h, bs2, k) <= h.width
  BY <1>1, <1>2, <1>20, <1>21, <1>22
<1> QED
  BY <1>4, <1>7, <1>23 DEF HeadFits

\* A broken line fits, and the layout goes on with the next one.
LEMMA BreakLaid ==
  ASSUME NEW f0, NEW Q, NEW p, NEW N \in Int, NEW f, NEW l, l # 0, f.width > 1,
         NEW XL, NEW oL, NEW rL, NEW XB, NEW oB, NEW rB,
         Laying(f0, Q, p, N, f, l, XL, oL, rL, XB, oB, rB),
         NEW bs, bs = Boxes(f, l), NEW k, NEW room, Exceeds(f, l, bs, k, room),
         NEW h, h = BreakLine(f, l, bs[k], room)
  PROVE  Laid(f0, Q, p, N - 1, h, h.L[l].next)
<1>1. LB(f, Q, XL, oL, rL, XB, oB, rB) /\ l \in XL /\ f.L[l].next = 0
  BY DEF Laying
<1>2. f \in Frames /\ f.width \in Nat
  BY <1>1, LBFacts DEF Frames
<1>3. LineBoxes(bs, f, XB, oB, rB, l)
  BY <1>1, LineBoxesAre
<1>4. PICK b : b = bs[k]
  OBVIOUS
<1>5. /\ k \in 1 .. Len(bs) /\ b \in XB /\ rB[b] = k /\ oB[b] = l /\ Len(bs) \in Nat
      /\ room \in Nat /\ room = f.width - WidthUpTo(f, bs, k - 1)
      /\ BoxWidth(f, b) > room /\ WidthUpTo(f, bs, k - 1) <= f.width /\ (k = 1 => room = f.width)
      /\ b \in 1 .. Len(f.B)
  BY <1>3, <1>4 DEF Exceeds, LineBoxes
<1>6. /\ \A j \in 0 .. Len(bs) : WidthUpTo(f, bs, j) \in Int
  BY <1>2, <1>3, WidthsAre DEF LineBoxes
<1>7. PICK M : M = N - 1
  OBVIOUS
<1>8. M \in Int /\ M >= N - 1 /\ M >= (N + 1) - 2 /\ N + 1 \in Int
  BY <1>7
<1>9. CASE f.B[b].kind = "text" /\ room # 0
  <2>1. PICK g : g = SplitTextBox(f, b, Pivot(f, f.B[b], room))
    OBVIOUS
  <2>2. h = MoveRest(g, l, b)
    BY <1>4, <1>9, <2>1 DEF BreakLine
  <2>3. f.B[b].w > room
    <3>1. "text" # "line"
      OBVIOUS
    <3> QED
      BY <1>5, <1>9, <3>1 DEF BoxWidth
  <2>4. PICK y, XB2, oB2, rB2 : BoxSplit(f, g, Q, XL, oL, rL, XB, oB, rB, b, room, y, XB2, oB2, rB2)
    BY <1>1, <1>5, <1>9, <2>1, <2>3, SplitIs
  <2>5. Laying(f0, Q, p, N + 1, g, l, XL, oL, rL, XB2, oB2, rB2)
    BY <1>5, <1>9, <2>4, SplitLaid
  <2>6. HeadFits(g, Boxes(g, l), k) /\ rB2[b] = k
    <3>1. f.B[b].kind = "text"
      BY <1>9
    <3> QED
      BY <1>1, <1>4, <2>4, <3>1, SplitHead
  <2>7. b \in XB2 /\ oB2[b] = l /\ NextIndex(g, b) # 0 /\ (room >= 2 => BoxLen(g.B[b]) # 0)
    BY <1>5, <2>4 DEF BoxSplit
  <2>8. BoxLen(g.B[b]) # 0 \/ rB2[b] # 1
    BY <1>2, <1>5, <2>6, <2>7
  <2>9. PICK K \in Int : K = N + 1
    BY <1>8
  <2>10. Laying(f0, Q, p, K, g, l, XL, oL, rL, XB2, oB2, rB2) /\ M >= K - 2 /\ HeadFits(g,
      Boxes(g, l), rB2[b])
    BY <1>8, <2>5, <2>6, <2>9
  <2>11. Laid(f0, Q, p, M, h, h.L[l].next)
    BY <1>8, <2>2, <2>7, <2>8, <2>10, CutLaid
  <2> QED
    BY <1>7, <2>11
<1>10. CASE ~(f.B[b].kind = "text" /\ room # 0) /\ k # 1
  <2>1. PICK c : c = bs[k - 1]
    OBVIOUS
  <2>2. k - 1 \in 1 .. Len(bs) /\ k - 1 \in 1 .. Len(bs) - 1 /\ (k - 1) + 1 = k /\ k > 1
    BY <1>5, <1>10
  <2>3. c \in XB /\ rB[c] = k - 1 /\ oB[c] = l /\ NextIndex(f,
      c) = b /\ b # 0 /\ f.B[b].prev = c /\ c # 0
    <3>1. c \in XB /\ rB[c] = k - 1 /\ oB[c] = l /\ c \in 1 .. Len(f.B)
      BY <1>3, <2>1, <2>2 DEF LineBoxes
    <3>2. NextIndex(f, bs[k - 1]) = bs[(k - 1) + 1] /\ bs[(k - 1) + 1] # 0
      BY <1>3, <2>2 DEF LineBoxes
    <3>3. f.B[bs[k]].prev = bs[k - 1]
      BY <1>3, <1>5, <2>2 DEF LineBoxes
    <3> QED
      BY <1>4, <2>1, <2>2, <3>1, <3>2, <3>3
  <2>4. h = MoveRest(f, l, c)
    BY <1>4, <1>10, <2>3 DEF BreakLine
  <2>5. HeadFits(f, Boxes(f, l), rB[c])
    <3>1. k - 1 \in 0 .. Len(bs)
      BY <1>5
    <3>2. WidthUpTo(f, bs, k - 1) \in Int /\ WidthUpTo(f, bs, k - 1) <= f.width
      BY <1>5, <1>6, <3>1
    <3> QED
      BY <2>3, <3>2 DEF HeadFits
  <2>6. NextIndex(f, c) # 0
    BY <2>3
  <2>7. Laid(f0, Q, p, M, h, h.L[l].next)
    BY <1>8, <2>3, <2>4, <2>5, <2>6, CutLaid
  <2> QED
    BY <1>7, <2>7
<1>11. CASE ~(f.B[b].kind = "text" /\ room # 0) /\ k = 1
  <2>1. room # 0 /\ f.B[b].kind # "text" /\ f.B[b].prev = 0 /\ rB[b] = 1 /\ b = bs[1]
    BY <1>2, <1>3, <1>4, <1>5, <1>11 DEF LineBoxes
  <2>2. HeadFits(f, Boxes(f, l), rB[b])
    <3>1. 1 \in 0 .. Len(bs)
      BY <1>5, <1>11
    <3>2. WidthUpTo(f, bs, 1) \in Int
      BY <1>6, <3>1
    <3> QED
      BY <2>1, <3>2 DEF HeadFits
  <2>3. CASE NextIndex(f, b) # 0
    <3>1. h = MoveRest(f, l, b)
      BY <1>4, <2>1, <2>3 DEF BreakLine
    <3>2. Laid(f0, Q, p, M, h, h.L[l].next)
      BY <1>5, <1>8, <2>2, <2>3, <3>1, CutLaid
    <3> QED
      BY <1>7, <3>2
  <2>4. CASE NextIndex(f, b) = 0
    <3>1. h = f
      BY <1>4, <2>1, <2>4 DEF BreakLine
    <3>2. Len(bs) = 1
      <4>1. 1 \notin 1 .. Len(bs) - 1
        <5>1. NextIndex(f, bs[1]) = 0
          BY <2>1, <2>4
        <5> QED
          BY <1>3, <5>1 DEF LineBoxes
      <4> QED
        <5>1. PICK n : n = Len(bs)
          OBVIOUS
        <5>2. n \in Nat /\ 1 <= n
          BY <1>5, <5>1
        <5>3. ~(1 <= n - 1)
          BY <4>1, <5>1, <5>2
        <5> QED
          BY <5>1, <5>2, <5>3
    <3>3. Fits(f, l)
      <4>1. f.L[l].firstB = b
        BY <1>3, <2>1 DEF LineBoxes
      <4> QED
        BY <2>1, <3>2, <4>1 DEF Fits
    <3>4. PICK z : z = 0
      OBVIOUS
    <3>5. Laying(f0, Q, p, M, f, z, XL, oL, rL, XB, oB, rB)
      BY <3>3, <3>4 DEF Laying
    <3>6. Laid(f0, Q, p, M, f, z)
      BY <3>5 DEF Laid
    <3> QED
      BY <1>1, <1>7, <3>1, <3>4, <3>6
  <2> QED
    BY <2>3, <2>4
<1> QED
  BY <1>9, <1>10, <1>11

\* A round of the loop over the lines.
LEMMA RoundLaid ==
  ASSUME NEW f0, NEW Q, NEW p, NEW N \in Int, NEW m, Laid(f0, Q, p, N, m.f, m.l), f0.width > 1,
         NEW k, NEW m2, m2 = LayoutRound(0, m, k)
  PROVE  Laid(f0, Q, p, N - 1, m2.f, m2.l)
<1>1. PICK f, l : f = m.f /\ l = m.l
  OBVIOUS
<1>2. PICK XL, oL, rL, XB, oB, rB : Laying(f0, Q, p, N, f, l, XL, oL, rL, XB, oB, rB)
  BY <1>1 DEF Laid
<1>3. CASE l = 0
  <2>1. m2 = m
    BY <1>1, <1>3 DEF LayoutRound
  <2>2. Laying(f0, Q, p, N - 1, f, l, XL, oL, rL, XB, oB, rB)
    BY <1>2, <1>3 DEF Laying
  <2> QED
    BY <1>1, <2>1, <2>2 DEF Laid
<1>4. CASE l # 0
  <2>1. PICK bs : bs = Boxes(f, l)
    OBVIOUS
  <2>2. m2 = LayoutLine(f, l, bs)
    BY <1>1, <1>4, <2>1 DEF LayoutRound
  <2>3. LB(f, Q, XL, oL, rL, XB, oB, rB) /\ l \in XL /\ f.width > 1
    BY <1>2, <1>4 DEF Laying, SameT
  <2>4. CASE Overflows(f, bs) = {}
    <3>1. m2 = [f |-> f, l |-> 0]
      BY <2>2, <2>4 DEF LayoutLine
    <3>2. m2.f = f /\ m2.l = 0
      BY <3>1
    <3>3. Fits(f, l)
      BY <2>1, <2>3, <2>4, ExceedsIs
    <3>4. PICK z : z = 0
      OBVIOUS
    <3>5. Laying(f0, Q, p, N - 1, f, z, XL, oL, rL, XB, oB, rB)
      BY <1>2, <3>3, <3>4 DEF Laying
    <3>6. Laid(f0, Q, p, N - 1, f, z)
      BY <3>5 DEF Laid
    <3> QED
      BY <3>2, <3>4, <3>6
  <2>5. CASE Overflows(f, bs) # {}
    <3>1. PICK j : j = Least(Overflows(f, bs))
      OBVIOUS
    <3>2. PICK room : room = f.width - WidthUpTo(f, bs, j - 1)
      OBVIOUS
    <3>3. Exceeds(f, l, bs, j, room)
      <4>1. Exceeds(f, l, bs, Least(Overflows(f, bs)),
          f.width - WidthUpTo(f, bs, Least(Overflows(f, bs)) - 1))
        BY <2>1, <2>3, <2>5, ExceedsIs
      <4> QED
        BY <3>1, <3>2, <4>1
    <3>4. PICK h : h = BreakLine(f, l, bs[j], room)
      OBVIOUS
    <3>5. m2 = [f |-> h, l |-> h.L[l].next]
      BY <2>2, <2>5, <3>1, <3>2, <3>4 DEF LayoutLine, BreakFirst, Broken
    <3>6. m2.f = h /\ m2.l = h.L[l].next
      BY <3>5
    <3>7. Laid(f0, Q, p, N - 1, h, h.L[l].next)
      BY <1>2, <1>4, <2>1, <2>3, <3>3, <3>4, BreakLaid
    <3> QED
      BY <3>6, <3>7
  <2> QED
    BY <2>4, <2>5
<1> QED
  BY <1>3, <1>4

\* The loop of layoutOneLine (editor.go), round by round.
LEMMA LayingSteps ==
  \A m :
    /\ LayingOut!Run(0, m, 0) = m
    /\ \A k \in Nat : LayingOut!Run(0, m, k + 1) = LayoutRound(0, LayingOut!Run(0, m, k), k + 1)
BY LayingOut!RunStarts, LayingOut!RunGoesOn

\* The last line l of paragraph p was broken until nothing was too wide.
LEMMA LayoutOneLineIs ==
  ASSUME NEW f, NEW Q, NEW XL, NEW oL, NEW rL, NEW XB, NEW oB, NEW rB,
         LB(f, Q, XL, oL, rL, XB, oB, rB),
         Sum(f, XB) = f.len, f.width > 1,
         NEW l \in XL, NEW p, p = oL[l], f.L[l].next = 0, OthersFit(f, XL, oL, p, l),
         NEW h, h = LayoutOneLine(f, l)
  PROVE  Laid(f, Q, p, 0, h, 0)
<1>1. f \in Frames /\ Len(f.B) \in Nat /\ XL \subseteq 1 .. Len(f.L) /\ oB \in [XB -> XL]
  BY LBFacts DEF Frames
<1>2. PICK n : n = LayoutRounds(f)
  OBVIOUS
<1>3. PICK s : s = Of(XB, oB, l)
  OBVIOUS
<1>4. s \subseteq XB
  BY <1>3 DEF Of
<1>5. Sum(f, XB) \in Nat /\ Left(f, s) <= Sum(f, XB) + Len(f.B) /\ Left(f, s) \in Nat
  BY <1>4, LeftAtStart
<1>6. n \in Nat /\ Left(f, s) <= n
  BY <1>1, <1>2, <1>5 DEF LayoutRounds
<1>7. PICK m : m = [f |-> f, l |-> l]
  OBVIOUS
<1>8. m.f = f /\ m.l = l
  BY <1>7
<1>9. PICK at : at = [k \in Nat |-> LayingOut!Run(0, m, k)]
  OBVIOUS
<1>10. at[0] = m /\ \A k \in Nat : at[k + 1] = LayoutRound(0, at[k], k + 1)
  BY <1>9, LayingSteps
<1>11. h = at[n].f
  BY <1>2, <1>6, <1>7, <1>9 DEF LayoutOneLine
<1>12. Laid(f, Q, p, n, f, l)
  <2>1. Elsewhere(f, f, Q, p)
    BY ElsewhereSame
  <2>2. \A x \in XL : oL[x] = p /\ x # l => Fits(f, x)
    BY DEF OthersFit
  <2>3. SameP(f, f) /\ SameT(f, f) /\ SameC(f, f)
    BY DEF SameP, SameT, SameC
  <2>4. Laying(f, Q, p, n, f, l, XL, oL, rL, XB, oB, rB)
    <3>1. p \in Q
      BY LBFacts
    <3>2. NoRule(f, p) => Unruled(f, oL, XB, oB, p)
      BY <3>1, NoRuleIs
    <3> QED
      BY <1>3, <1>6, <2>1, <2>2, <2>3, <3>2 DEF Laying
  <2> QED
    BY <2>4 DEF Laid
<1>13. PICK good : good = {k \in 0 .. n : Laid(f, Q, p, n - k, at[k].f, at[k].l)}
  OBVIOUS
<1>14. 0 \in good
  <2>1. 0 \in 0 .. n /\ n - 0 = n
    BY <1>6
  <2> QED
    BY <1>8, <1>10, <1>12, <1>13, <2>1
<1>15. ASSUME NEW k \in 0 .. n - 1, k \in good PROVE k + 1 \in good
  <2>1. k \in Nat /\ k + 1 \in 0 .. n /\ n - (k + 1) = (n - k) - 1 /\ n - k \in Int
    BY <1>6
  <2>2. PICK N \in Int : N = n - k
    BY <2>1
  <2>3. PICK a, c : a = at[k] /\ c = at[k + 1]
    OBVIOUS
  <2>4. c = LayoutRound(0, a, k + 1)
    BY <1>10, <2>1, <2>3
  <2>5. Laid(f, Q, p, N, a.f, a.l)
    BY <1>13, <1>15, <2>2, <2>3
  <2>6. PICK j : j = k + 1
    OBVIOUS
  <2>7. Laid(f, Q, p, N - 1, c.f, c.l)
    BY <2>4, <2>5, <2>6, RoundLaid
  <2> QED
    BY <1>13, <2>1, <2>2, <2>3, <2>7
<1>16. n \in good
  <2>1. \A k \in 0 .. n : k \in good
    BY <1>6, <1>14, <1>15, UpTo
  <2>2. n \in 0 .. n
    BY <1>6
  <2> QED
    BY <2>1, <2>2
<1>17. PICK g, y : g = at[n].f /\ y = at[n].l
  OBVIOUS
<1>18. Laid(f, Q, p, 0, g, y)
  <2>1. n - n = 0
    BY <1>6
  <2> QED
    BY <1>13, <1>16, <1>17, <2>1
<1>19. PICK XL2, oL2, rL2, XB2, oB2, rB2 : Laying(f, Q, p, 0, g, y, XL2, oL2, rL2, XB2, oB2, rB2)
  BY <1>18 DEF Laid
<1>20. y = 0
  <2> SUFFICES ASSUME y # 0 PROVE FALSE
    OBVIOUS
  <2>1. LB(g, Q, XL2, oL2, rL2, XB2, oB2, rB2) /\ y \in XL2 /\ Left(g, Of(XB2, oB2, y)) <= 0
    BY <1>19 DEF Laying
  <2>2. PICK bs : bs = Boxes(g, y)
    OBVIOUS
  <2>3. LineBoxes(bs, g, XB2, oB2, rB2, y)
    BY <2>1, <2>2, LineBoxesAre
  <2>4. bs[1] \in XB2 /\ oB2[bs[1]] = y
    <3>1. 1 \in 1 .. Len(bs)
      BY <2>3 DEF LineBoxes
    <3> QED
      BY <2>3, <3>1 DEF LineBoxes
  <2>5. PICK S : S = Of(XB2, oB2, y)
    OBVIOUS
  <2>6. S \subseteq XB2 /\ S # {}
    BY <2>4, <2>5 DEF Of
  <2>7. Left(g, S) \in Nat /\ Left(g, S) > 0
    BY <2>1, <2>6, LeftAtStart
  <2> QED
    BY <2>1, <2>5, <2>7
<1> QED
  BY <1>11, <1>17, <1>18, <1>20

(***************************************************************************)
(* Merging the lines of a paragraph into its first line.                   *)
(***************************************************************************)
\* The paragraphs other than p have the same lines at the same places, and
\* those the same boxes.
OthersAlike(f, XL, oL, rL, XB, oB, rB, h, XL2, oL2, rL2, XB2, oB2, rB2, Q, p) ==
  /\ \A q \in Q : q # p => SamePlaces(XL, oL, rL, XL2, oL2, rL2, q)
  /\ \A l \in XL : oL[l] # p => LineAlike(f, h, XB, oB, rB, XB2, oB2, rB2, l)

\* No change leaves the other paragraphs as they were.
LEMMA OthersSame ==
  ASSUME NEW f, NEW XL, NEW oL, NEW rL, NEW XB, NEW oB, NEW rB, NEW Q, NEW p
  PROVE  OthersAlike(f, XL, oL, rL, XB, oB, rB, f, XL, oL, rL, XB, oB, rB, Q, p)
BY DEF OthersAlike, SamePlaces, LineAlike, SameText

\* Two changes that leave the other paragraphs alone do so together.
LEMMA OthersTwice ==
  ASSUME NEW f, NEW XL, NEW oL, NEW rL, NEW XB, NEW oB, NEW rB,
         NEW g, NEW XL2, NEW oL2, NEW rL2, NEW XB2, NEW oB2, NEW rB2,
         NEW h, NEW XL3, NEW oL3, NEW rL3, NEW XB3, NEW oB3, NEW rB3, NEW Q, NEW p,
         oL \in [XL -> Q],
         OthersAlike(f, XL, oL, rL, XB, oB, rB, g, XL2, oL2, rL2, XB2, oB2, rB2, Q, p),
         OthersAlike(g, XL2, oL2, rL2, XB2, oB2, rB2, h, XL3, oL3, rL3, XB3, oB3, rB3, Q, p)
  PROVE  OthersAlike(f, XL, oL, rL, XB, oB, rB, h, XL3, oL3, rL3, XB3, oB3, rB3, Q, p)
<1>1. ASSUME NEW q \in Q, q # p PROVE SamePlaces(XL, oL, rL, XL3, oL3, rL3, q)
  <2>1. SamePlaces(XL, oL, rL, XL2, oL2, rL2, q) /\ SamePlaces(XL2, oL2, rL2, XL3, oL3, rL3, q)
    BY <1>1 DEF OthersAlike
  <2> QED
    BY <2>1 DEF SamePlaces
<1>2. ASSUME NEW l \in XL, oL[l] # p PROVE LineAlike(f, h, XB, oB, rB, XB3, oB3, rB3, l)
  <2>1. LineAlike(f, g, XB, oB, rB, XB2, oB2, rB2, l)
    BY <1>2 DEF OthersAlike
  <2>2. l \in XL2 /\ oL2[l] # p
    <3>1. oL[l] \in Q /\ SamePlaces(XL, oL, rL, XL2, oL2, rL2, oL[l])
      BY <1>2 DEF OthersAlike
    <3> QED
      BY <1>2, <3>1 DEF SamePlaces
  <2>3. LineAlike(g, h, XB2, oB2, rB2, XB3, oB3, rB3, l)
    BY <2>2 DEF OthersAlike
  <2>4. SamePlaces(XB, oB, rB, XB3, oB3, rB3, l)
    BY <2>1, <2>3 DEF LineAlike, SamePlaces
  <2>5. \A x \in XB : oB[x] = l => SameText(f.B[x], h.B[x])
    <3> SUFFICES ASSUME NEW x \in XB, oB[x] = l PROVE SameText(f.B[x], h.B[x])
      OBVIOUS
    <3>1. SameText(f.B[x], g.B[x]) /\ x \in XB2 /\ oB2[x] = l
      BY <2>1 DEF LineAlike, SamePlaces
    <3>2. SameText(g.B[x], h.B[x])
      BY <2>3, <3>1 DEF LineAlike
    <3> QED
      BY <3>1, <3>2 DEF SameText
  <2> QED
    BY <2>1, <2>3, <2>4, <2>5 DEF LineAlike
<1> QED
  BY <1>1, <1>2 DEF OthersAlike

\* The pool while lines are merged into line l.
MB(f, Q, l, XL, oL, rL, XB, oB, rB) ==
  /\ f \in Frames /\ Q \subseteq 1 .. Len(f.P) /\ XL \subseteq 1 .. Len(f.L) /\ l \in XL
  /\ MLayer(f, Q, XL, oL, rL, l)
  /\ BLayer(f, XL, XB, oB, rB)
  /\ BoxesGood(f, XB)
  /\ LineBoxesLast(f, XB, oB)

\* What lines and boxes are while a paragraph is merged, part by part.
LEMMA MBFacts ==
  ASSUME NEW f, NEW Q, NEW l, NEW XL, NEW oL, NEW rL, NEW XB, NEW oB, NEW rB,
         MB(f, Q, l, XL, oL, rL, XB, oB, rB)
  PROVE  /\ f \in Frames /\ Q \subseteq 1 .. Len(f.P) /\ XL \subseteq 1 .. Len(f.L) /\ XB \subseteq 1 .. Len(f.B)
         /\ l \in XL /\ MLayer(f, Q, XL, oL, rL, l) /\ BLayer(f, XL, XB, oB, rB)
         /\ oL \in [XL -> Q] /\ rL \in [XL -> Nat \ {0}] /\ oB \in [XB -> XL] /\ rB \in [XB -> Nat \ {0}]
<1>1. /\ f \in Frames /\ Q \subseteq 1 .. Len(f.P) /\ XL \subseteq 1 .. Len(f.L)
      /\ l \in XL /\ MLayer(f, Q, XL, oL, rL, l) /\ BLayer(f, XL, XB, oB, rB)
  BY DEF MB
<1>2. XB \subseteq 1 .. Len(f.B) /\ oB \in [XB -> XL] /\ rB \in [XB -> Nat \ {0}]
  BY <1>1, BLayerFacts
<1>3. oL \in [XL -> Q] /\ rL \in [XL -> Nat \ {0}]
  BY <1>1 DEF MLayer, Layer, Live, Placed
<1> QED
  BY <1>1, <1>2, <1>3

\* What is left to merge: the boxes of paragraph p after box b of line l and in
\* other lines, and these lines.
Boxes2(XL, oL, XB, oB, rB, p, l, b) ==
  {x \in XB : oL[oB[x]] = p /\ (oB[x] = l => rB[x] > rB[b])}
Lines2(XL, oL, p, l) == {x \in XL : oL[x] = p /\ x # l}
ToMerge(XL, oL, XB, oB, rB, p, l, b) ==
  Cardinality(Boxes2(XL, oL, XB, oB, rB, p, l, b)) + Cardinality(Lines2(XL, oL, p, l))

\* Parts of an array are finite.
LEMMA FiniteParts ==
  ASSUME NEW n \in Nat, NEW S, S \subseteq 1 .. n
  PROVE  IsFiniteSet(S) /\ Cardinality(S) \in 0 .. n
<1>1. IsFiniteSet(1 .. n) /\ Cardinality(1 .. n) = n
  BY FS_Interval
<1>2. IsFiniteSet(S) /\ Cardinality(S) <= n
  BY <1>1, FS_Subset
<1> QED
  BY <1>2, FS_CardinalityType

\* T lacks at least the element x of S.
Fewer(n, S, T, x) == n \in Nat /\ S \subseteq 1 .. n /\ x \in S /\ T \subseteq S \ {x}
\* A part without one of its elements is smaller.
LEMMA FewerParts ==
  ASSUME NEW n, NEW S, NEW T, NEW x, Fewer(n, S, T, x)
  PROVE  Cardinality(T) <= Cardinality(S) - 1 /\ Cardinality(T) \in Nat /\ Cardinality(S) \in Nat
<1>0. n \in Nat /\ S \subseteq 1 .. n /\ x \in S /\ T \subseteq S \ {x}
  BY DEF Fewer
<1>1. IsFiniteSet(S) /\ Cardinality(S) \in 0 .. n
  BY <1>0, FiniteParts
<1>2. IsFiniteSet(S \ {x}) /\ Cardinality(S \ {x}) = Cardinality(S) - 1
  BY <1>0, <1>1, FS_RemoveElement
<1>3. Cardinality(T) <= Cardinality(S \ {x}) /\ IsFiniteSet(T)
  BY <1>0, <1>2, FS_Subset
<1> QED
  BY <1>0, <1>1, <1>2, <1>3, FS_CardinalityType

\* A joined box has the text of both.
LEMMA JoinedGood ==
  ASSUME NEW text \in Seq(Characters), NEW x \in BoxSet, NEW y \in BoxSet, Joins(x, y),
         BoxGood(text, x), BoxGood(text, y), NEW z, z = Joined(x, y)
  PROVE  BoxGood(text,
         z) /\ BoxLen(z) = BoxLen(x) + BoxLen(y) /\ BoxLen(x) \in Nat /\ BoxLen(y) \in Nat
<1>1. /\ z.kind = "text" /\ x.kind = "text" /\ y.kind = "text"
      /\ \/ x.i = x.j /\ z.i = y.i /\ z.j = y.j /\ z.w = y.w
         \/ y.i = y.j /\ z.i = x.i /\ z.j = x.j /\ z.w = x.w
         \/ x.j = y.i /\ z.i = x.i /\ z.j = y.j /\ z.w = x.w + y.w
  BY JoinedIs
<1>2. /\ x.i \in Nat /\ x.j \in Nat /\ y.i \in Nat /\ y.j \in Nat
      /\ x.i <= x.j /\ x.j <= Len(text) /\ y.i <= y.j /\ y.j <= Len(text)
      /\ x.w = Columns(text, x.j) - Columns(text, x.i) /\ y.w = Columns(text, y.j) - Columns(text,
          y.i)
  BY <1>1 DEF BoxGood, BoxSet
<1>3. Columns(text, x.i) \in Int /\ Columns(text, x.j) \in Int /\ Columns(text,
    y.i) \in Int /\ Columns(text, y.j) \in Int
  <2>1. x.i \in 0 .. Len(text) /\ x.j \in 0 .. Len(text) /\ y.i \in 0 .. Len(text) /\ y.j \in 0 .. Len(text)
    BY <1>2
  <2> QED
    BY <2>1, ColumnsStep
<1>4. BoxGood(text, z)
  <2>1. CASE x.j = y.i /\ z.i = x.i /\ z.j = y.j /\ z.w = x.w + y.w
    <3>1. z.w = Columns(text, z.j) - Columns(text, z.i)
      BY <1>2, <1>3, <2>1
    <3>2. z.i <= z.j /\ z.j <= Len(text)
      BY <1>2, <2>1
    <3> QED
      BY <3>1, <3>2 DEF BoxGood
  <2>2. CASE ~(x.j = y.i /\ z.i = x.i /\ z.j = y.j /\ z.w = x.w + y.w)
    BY <1>1, <1>2, <2>2 DEF BoxGood
  <2> QED
    BY <2>1, <2>2
<1>5. BoxLen(z) = z.j - z.i /\ BoxLen(x) = x.j - x.i /\ BoxLen(y) = y.j - y.i
  <2>1. "text" # "line"
    OBVIOUS
  <2> QED
    BY <1>1, <2>1 DEF BoxLen
<1> QED
  BY <1>1, <1>2, <1>4, <1>5

\* What a round of the merging leaves: it goes on from box c.
Merged(f, Q, p, l, XL, oL, rL, XB, oB, rB, h, c, XL2, oL2, rL2, XB2, oB2, rB2) ==
  /\ MB(h, Q, l, XL2, oL2, rL2, XB2, oB2, rB2)
  /\ SameP(f, h) /\ SameT(f, h) /\ SameC(f, h)
  /\ Sum(h, XB2) = Sum(f, XB)
  /\ OthersAlike(f, XL, oL, rL, XB, oB, rB, h, XL2, oL2, rL2, XB2, oB2, rB2, Q, p)
  /\ oL2[l] = p /\ c \in XB2 /\ oB2[c] = l
  /\ Unruled(f, oL, XB, oB, p) => Unruled(h, oL2, XB2, oB2, p)
  /\ f.L[l].next = 0 => h.L[l].next = 0

\* From box b to box c, and less is left to merge.
MergedLess(f, Q, p, l, XL, oL, rL, XB, oB, rB, b, h, c, XL2, oL2, rL2, XB2, oB2, rB2) ==
  /\ Merged(f, Q, p, l, XL, oL, rL, XB, oB, rB, h, c, XL2, oL2, rL2, XB2, oB2, rB2)
  /\ ToMerge(XL2, oL2, XB2, oB2, rB2, p, l, c) <= ToMerge(XL, oL, XB, oB, rB, p, l, b) - 1
  /\ ToMerge(XL2, oL2, XB2, oB2, rB2, p, l, c) \in Int /\ ToMerge(XL, oL, XB, oB, rB, p, l,
      b) \in Int

\* Box b takes the box b1 after it in.
LEMMA MergeJoin ==
  ASSUME NEW f, NEW Q, NEW l, NEW XL, NEW oL, NEW rL, NEW XB, NEW oB, NEW rB,
         MB(f, Q, l, XL, oL, rL, XB, oB, rB),
         NEW p, p = oL[l], NEW b \in XB, oB[b] = l, NEW b1, b1 = NextIndex(f, b), b1 # 0,
         Joins(f.B[b], f.B[b1]),
         NEW h, h = JoinBoxes(f, b, b1)
  PROVE  \E XB2, oB2, rB2 :
           MergedLess(f, Q, p, l, XL, oL, rL, XB, oB, rB, b, h, b, XL, oL, rL, XB2, oB2, rB2)
<1>1. /\ f \in Frames /\ Q \subseteq 1 .. Len(f.P) /\ XL \subseteq 1 .. Len(f.L) /\ XB \subseteq 1 .. Len(f.B)
      /\ l \in XL /\ MLayer(f, Q, XL, oL, rL, l) /\ BLayer(f, XL, XB, oB, rB)
      /\ oL \in [XL -> Q] /\ rL \in [XL -> Nat \ {0}] /\ oB \in [XB -> XL] /\ rB \in [XB -> Nat \ {0}]
      /\ BoxesGood(f, XB) /\ LineBoxesLast(f, XB, oB)
  BY MBFacts DEF MB
<1>2. PICK XB2, oB2, rB2 : BTaken(f, h, XL, XB, oB, rB, b, b1, XB2, oB2, rB2)
  BY <1>1, BJoin
<1>3. XB2 = XB \ {b1} /\ \A x \in XB2 : oB2[x] = oB[x]
  BY <1>2 DEF BTaken
<1>4. \A x \in XB2 : rB2[x] = BRemoveRank(oB, rB, b1, x)
  BY <1>2 DEF BTaken
<1>5. /\ OnlyB(f, h) /\ BLayer(h, XL, XB2, oB2, rB2) /\ Len(h.B) = Len(f.B)
      /\ b1 \in XB /\ b1 # b /\ oB[b1] = oB[b]
      /\ h.B[b] = Joined(f.B[b], f.B[b1])
      /\ \A x \in XB2 : x # b => SameText(f.B[x], h.B[x])
  BY <1>2 DEF BTaken
<1>17. b \in XB2 /\ oB2[b] = l
  BY <1>3, <1>5
<1>6. h \in Frames /\ h.P = f.P /\ h.L = f.L /\ h.freeL = f.freeL /\ h.text = f.text /\ SameP(f,
    h) /\ SameT(f, h) /\ SameC(f, h)
  BY <1>5 DEF OnlyB, SameP, SameL, SameT
<1>7. rB[b1] = rB[b] + 1
  <2>1. Live(XB, XL, oB, rB, FirstB(f), NextB(f), PrevB(f)) /\ NextB(f)[b] = b1
    BY <1>1, BLayerFacts
  <2> QED
    BY <2>1 DEF Live, Forward
<1>8. MLayer(h, Q, XL, oL, rL, l)
  <2>1. FirstL(h) = FirstL(f) /\ NextL(h) = NextL(f) /\ PatchedL(h, l) = PatchedL(f, l)
    BY <1>6 DEF FirstL, NextL, PatchedL
  <2> QED
    BY <1>1, <1>6, <2>1 DEF MLayer
<1>9. f.B[b] \in BoxSet /\ f.B[b1] \in BoxSet /\ BoxGood(f.text, f.B[b]) /\ BoxGood(f.text,
    f.B[b1]) /\ f.text \in Seq(Characters)
  <2>1. f.B[b] \in BoxSet /\ f.B[b1] \in BoxSet
    BY <1>1, <1>5, BLayerFacts
  <2> QED
    BY <1>1, <1>5, <2>1 DEF BoxesGood, Frames
<1>10. /\ BoxGood(f.text, h.B[b]) /\ BoxLen(h.B[b]) = BoxLen(f.B[b]) + BoxLen(f.B[b1])
       /\ BoxLen(f.B[b]) \in Nat /\ BoxLen(f.B[b1]) \in Nat
  <2>1. PICK x, y, z : x = f.B[b] /\ y = f.B[b1] /\ z = h.B[b]
    OBVIOUS
  <2>2. BoxGood(f.text,
      z) /\ BoxLen(z) = BoxLen(x) + BoxLen(y) /\ BoxLen(x) \in Nat /\ BoxLen(y) \in Nat
    BY <1>5, <1>9, <2>1, JoinedGood
  <2> QED
    BY <2>1, <2>2
<1>11. h.B[b].kind = "text"
  <2>1. PICK x, y, z : x = f.B[b] /\ y = f.B[b1] /\ z = h.B[b]
    OBVIOUS
  <2>2. z.kind = "text"
    BY <1>5, <1>9, <2>1, JoinedIs
  <2> QED
    BY <2>1, <2>2
<1>12. BoxesGood(h, XB2)
  <2> SUFFICES ASSUME NEW x \in XB2 PROVE BoxGood(h.text, h.B[x])
    BY DEF BoxesGood
  <2>1. CASE x = b
    BY <1>6, <1>10, <2>1
  <2>2. CASE x # b
    <3>1. BoxGood(f.text, f.B[x]) /\ SameText(f.B[x], h.B[x])
      BY <1>1, <1>3, <1>5, <2>2 DEF BoxesGood
    <3> QED
      BY <1>6, <3>1 DEF BoxGood, SameText
  <2> QED
    BY <2>1, <2>2
<1>13. LineBoxesLast(h, XB2, oB2)
  <2> SUFFICES ASSUME NEW x \in XB2, h.B[x].kind = "line" PROVE h.L[oB2[x]].next = 0
    BY DEF LineBoxesLast
  <2>1. x # b
    BY <1>11
  <2>2. f.B[x].kind = "line" /\ oB2[x] = oB[x] /\ x \in XB
    BY <1>3, <1>5, <2>1 DEF SameText
  <2> QED
    BY <1>1, <1>6, <2>2 DEF LineBoxesLast
<1>14. MB(h, Q, l, XL, oL, rL, XB2, oB2, rB2)
  BY <1>1, <1>5, <1>6, <1>8, <1>12, <1>13 DEF MB
<1>15. Sum(h, XB2) = Sum(f, XB)
  <2>1. \A k \in 1 .. Len(h.B) : k # b /\ k # b1 => LenAt(h, XB2, k) = LenAt(f, XB, k)
    <3> SUFFICES ASSUME NEW k \in 1 .. Len(h.B), k # b,
        k # b1 PROVE LenAt(h, XB2, k) = LenAt(f, XB, k)
      OBVIOUS
    <3>1. k \in XB2 => BoxLen(h.B[k]) = BoxLen(f.B[k])
      BY <1>5 DEF SameText, BoxLen
    <3> QED
      BY <1>3, <1>5, <3>1 DEF LenAt
  <2>2. XB \subseteq 1 .. Len(f.B) /\ XB2 \subseteq 1 .. Len(h.B) /\ Len(f.B) <= Len(h.B)
    <3>1. PICK n \in Nat : n = Len(f.B)
      BY <1>1 DEF Frames
    <3>2. Len(h.B) = n
      BY <1>5, <3>1
    <3>3. XB \subseteq 1 .. n /\ XB2 \subseteq 1 .. n
      BY <1>1, <1>3, <3>1
    <3> QED
      BY <3>1, <3>2, <3>3
  <2>3. b \in 0 .. Len(h.B) /\ b1 \in 0 .. Len(h.B)
    BY <1>1, <1>5
  <2>4. SumsDiffer(f, h, XB, XB2, b, b1)
    BY <1>5, <2>1, <2>2, <2>3 DEF SumsDiffer
  <2>5. Sum(h, XB2) = Sum(f, XB) + LenAt(h, XB2, b) - LenAt(f, XB, b) + LenAt(h, XB2,
      b1) - LenAt(f, XB, b1)
    BY <1>1, <1>6, <2>4, SumChanged
  <2>6. /\ LenAt(h, XB2, b) = BoxLen(h.B[b]) /\ LenAt(f, XB, b) = BoxLen(f.B[b])
        /\ LenAt(h, XB2, b1) = 0 /\ LenAt(f, XB, b1) = BoxLen(f.B[b1])
    BY <1>3, <1>5, <1>17 DEF LenAt
  <2>7. Sum(f, XB) \in Int
    BY <1>1, SumIs
  <2> QED
    BY <1>10, <2>5, <2>6, <2>7
<1>16. OthersAlike(f, XL, oL, rL, XB, oB, rB, h, XL, oL, rL, XB2, oB2, rB2, Q, p)
  <2>1. \A q \in Q : q # p => SamePlaces(XL, oL, rL, XL, oL, rL, q)
    BY DEF SamePlaces
  <2>2. ASSUME NEW x \in XL, oL[x] # p PROVE LineAlike(f, h, XB, oB, rB, XB2, oB2, rB2, x)
    <3>1. x # l
      BY <2>2
    <3>2. \A z \in XB : oB[z] = x => z \in XB2 /\ oB2[z] = x /\ rB2[z] = rB[z]
      BY <1>3, <1>4, <1>5, <3>1 DEF BRemoveRank
    <3>3. \A z \in XB2 : oB2[z] = x => z \in XB /\ oB[z] = x
      BY <1>3
    <3>4. \A z \in XB : oB[z] = x => SameText(f.B[z], h.B[z])
      BY <1>3, <1>5, <3>1
    <3> QED
      BY <1>6, <3>2, <3>3, <3>4 DEF LineAlike, SamePlaces
  <2> QED
    BY <2>1, <2>2 DEF OthersAlike
<1>20. Unruled(f, oL, XB, oB, p) => Unruled(h, oL, XB2, oB2, p)
  <2> SUFFICES ASSUME Unruled(f, oL, XB, oB, p), NEW x \in XB2,
      oL[oB2[x]] = p PROVE h.B[x].kind # "line"
    BY DEF Unruled
  <2>1. CASE x = b
    BY <1>11, <2>1
  <2>2. CASE x # b
    <3>1. f.B[x].kind # "line" /\ SameText(f.B[x], h.B[x])
      BY <1>3, <1>5, <2>2 DEF Unruled
    <3> QED
      BY <3>1 DEF SameText
  <2> QED
    BY <2>1, <2>2
<1>18. Merged(f, Q, p, l, XL, oL, rL, XB, oB, rB, h, b, XL, oL, rL, XB2, oB2, rB2)
  BY <1>6, <1>14, <1>15, <1>16, <1>17, <1>20 DEF Merged
<1>19. /\ ToMerge(XL, oL, XB2, oB2, rB2, p, l, b) <= ToMerge(XL, oL, XB, oB, rB, p, l, b) - 1
       /\ ToMerge(XL, oL, XB2, oB2, rB2, p, l, b) \in Int /\ ToMerge(XL, oL, XB, oB, rB, p, l,
           b) \in Int
  <2>1. PICK S, T, V : /\ S = Boxes2(XL, oL, XB, oB, rB, p, l, b) /\ T = Boxes2(XL, oL, XB2, oB2,
                          rB2, p, l, b)
                       /\ V = Lines2(XL, oL, p, l)
    OBVIOUS
  <2>2. b1 \in S
    BY <1>1, <1>5, <1>7, <2>1 DEF Boxes2
  <2>3. rB2[b] = rB[b]
    <3>1. ~(rB[b] > rB[b1])
      BY <1>1, <1>7
    <3> QED
      BY <1>4, <1>17, <3>1 DEF BRemoveRank
  <2>4. T \subseteq S \ {b1}
    <3> SUFFICES ASSUME NEW x \in T PROVE x \in S \ {b1}
      OBVIOUS
    <3>1. x \in XB2 /\ oB2[x] = oB[x] /\ oL[oB[x]] = p /\ x \in XB /\ x # b1
      BY <1>3, <2>1 DEF Boxes2
    <3>2. oB[x] = l => rB[x] > rB[b]
      <4> SUFFICES ASSUME oB[x] = l PROVE rB[x] > rB[b]
        OBVIOUS
      <4>1. rB2[x] > rB[b]
        BY <2>1, <2>3, <3>1 DEF Boxes2
      <4>2. rB2[x] = (IF rB[x] > rB[b1] THEN rB[x] - 1 ELSE rB[x])
        BY <1>4, <1>5, <3>1 DEF BRemoveRank
      <4>3. rB[x] \in Nat /\ rB[b] \in Nat /\ rB[b1] \in Nat
        BY <1>1, <1>5, <3>1
      <4> QED
        BY <4>1, <4>2, <4>3
    <3> QED
      BY <2>1, <3>1, <3>2 DEF Boxes2
  <2>5. PICK n \in Nat : n = Len(f.B)
    BY <1>1 DEF Frames
  <2>6. S \subseteq 1 .. n
    BY <1>1, <2>1, <2>5 DEF Boxes2
  <2>7. Cardinality(T) <= Cardinality(S) - 1 /\ Cardinality(T) \in Nat /\ Cardinality(S) \in Nat
    <3>1. Fewer(n, S, T, b1)
      BY <2>2, <2>4, <2>5, <2>6 DEF Fewer
    <3> QED
      BY <3>1, FewerParts
  <2>8. Cardinality(V) \in Nat
    <3>1. PICK m \in Nat : m = Len(f.L)
      BY <1>1 DEF Frames
    <3>2. V \subseteq 1 .. m
      BY <1>1, <2>1, <3>1 DEF Lines2
    <3>3. Cardinality(V) \in 0 .. m
      BY <3>2, FiniteParts
    <3> QED
      BY <3>3
  <2> QED
    BY <2>1, <2>7, <2>8 DEF ToMerge
<1> QED
  BY <1>18, <1>19 DEF MergedLess

\* Fewer elements are left to merge after a round.
LEMMA FewerToMerge ==
  ASSUME NEW XL, NEW oL, NEW XB, NEW oB, NEW rB, NEW p, NEW l, NEW b,
         NEW XL2, NEW oL2, NEW XB2, NEW oB2, NEW rB2, NEW b2,
         NEW m \in Nat, NEW n \in Nat, XL \subseteq 1 .. m, XB \subseteq 1 .. n,
         Boxes2(XL2, oL2, XB2, oB2, rB2, p, l, b2) \subseteq Boxes2(XL, oL, XB, oB, rB, p, l, b),
         Lines2(XL2, oL2, p, l) \subseteq Lines2(XL, oL, p, l),
         \/ Boxes2(XL2, oL2, XB2, oB2, rB2, p, l, b2) # Boxes2(XL, oL, XB, oB, rB, p, l, b)
         \/ Lines2(XL2, oL2, p, l) # Lines2(XL, oL, p, l)
  PROVE  /\ ToMerge(XL2, oL2, XB2, oB2, rB2, p, l, b2) <= ToMerge(XL, oL, XB, oB, rB, p, l, b) - 1
         /\ ToMerge(XL2, oL2, XB2, oB2, rB2, p, l, b2) \in Int /\ ToMerge(XL, oL, XB, oB, rB, p, l,
             b) \in Int
<1>1. PICK S, T, V, W : /\ S = Boxes2(XL, oL, XB, oB, rB, p, l, b) /\ T = Boxes2(XL2, oL2, XB2,
                           oB2, rB2, p, l, b2)
                        /\ V = Lines2(XL, oL, p, l) /\ W = Lines2(XL2, oL2, p, l)
  OBVIOUS
<1>2. S \subseteq 1 .. n /\ V \subseteq 1 .. m /\ T \subseteq S /\ W \subseteq V /\ (T # S \/ W # V)
  BY <1>1 DEF Boxes2, Lines2
<1>3. T \subseteq 1 .. n /\ W \subseteq 1 .. m
  BY <1>2
<1>4. IsFiniteSet(S) /\ IsFiniteSet(V) /\ Cardinality(S) \in Nat /\ Cardinality(V) \in Nat /\ Cardinality(T) \in Nat /\ Cardinality(W) \in Nat
  <2>1. \A Z : Z \subseteq 1 .. n => IsFiniteSet(Z) /\ Cardinality(Z) \in 0 .. n
    BY FiniteParts
  <2>2. \A Z : Z \subseteq 1 .. m => IsFiniteSet(Z) /\ Cardinality(Z) \in 0 .. m
    BY FiniteParts
  <2> QED
    <3>1. IsFiniteSet(S) /\ Cardinality(S) \in 0 .. n
      BY <1>2, <2>1
    <3>2. IsFiniteSet(V) /\ Cardinality(V) \in 0 .. m
      BY <1>2, <2>2
    <3>3. Cardinality(T) \in 0 .. n
      BY <1>3, <2>1
    <3>4. Cardinality(W) \in 0 .. m
      BY <1>3, <2>2
    <3> QED
      BY <3>1, <3>2, <3>3, <3>4
<1>5. Cardinality(T) <= Cardinality(S) /\ Cardinality(W) <= Cardinality(V)
  BY <1>2, <1>4, FS_Subset
<1>6. CASE T # S
  <2>1. PICK x : x \in S /\ x \notin T
    BY <1>2, <1>6
  <2>2. Fewer(n, S, T, x)
    BY <1>2, <2>1 DEF Fewer
  <2>3. Cardinality(T) <= Cardinality(S) - 1
    BY <2>2, FewerParts
  <2> QED
    BY <1>1, <1>4, <1>5, <2>3 DEF ToMerge
<1>7. CASE W # V
  <2>1. PICK x : x \in V /\ x \notin W
    BY <1>2, <1>7
  <2>2. Fewer(m, V, W, x)
    BY <1>2, <2>1 DEF Fewer
  <2>3. Cardinality(W) <= Cardinality(V) - 1
    BY <2>2, FewerParts
  <2> QED
    BY <1>1, <1>4, <1>5, <2>3 DEF ToMerge
<1> QED
  BY <1>2, <1>6, <1>7

\* Going on to the next box b1 of the line.
LEMMA MergeNext ==
  ASSUME NEW f, NEW Q, NEW l, NEW XL, NEW oL, NEW rL, NEW XB, NEW oB, NEW rB,
         MB(f, Q, l, XL, oL, rL, XB, oB, rB),
         NEW p, p = oL[l], NEW b \in XB, oB[b] = l, NEW b1, b1 = NextIndex(f, b), b1 # 0
  PROVE  MergedLess(f, Q, p, l, XL, oL, rL, XB, oB, rB, b, f, b1, XL, oL, rL, XB, oB, rB)
<1>1. /\ f \in Frames /\ XL \subseteq 1 .. Len(f.L) /\ XB \subseteq 1 .. Len(f.B)
      /\ l \in XL /\ BLayer(f, XL, XB, oB, rB) /\ rB \in [XB -> Nat \ {0}]
  BY MBFacts
<1>2. b1 \in XB /\ oB[b1] = l /\ rB[b1] = rB[b] + 1
  <2>1. Live(XB, XL, oB, rB, FirstB(f), NextB(f), PrevB(f)) /\ NextB(f)[b] = b1
    BY <1>1, BLayerFacts
  <2> QED
    BY <2>1 DEF Live, Forward
<1>3. OthersAlike(f, XL, oL, rL, XB, oB, rB, f, XL, oL, rL, XB, oB, rB, Q, p)
  BY OthersSame
<1>4. Merged(f, Q, p, l, XL, oL, rL, XB, oB, rB, f, b1, XL, oL, rL, XB, oB, rB)
  BY <1>2, <1>3 DEF Merged, SameP, SameT, SameC
<1>5. PICK S, T : S = Boxes2(XL, oL, XB, oB, rB, p, l, b) /\ T = Boxes2(XL, oL, XB, oB, rB, p, l,
    b1)
  OBVIOUS
<1>6. b1 \in S /\ b1 \notin T
  <2>1. rB[b] \in Nat /\ rB[b1] > rB[b] /\ ~(rB[b1] > rB[b1])
    BY <1>1, <1>2
  <2> QED
    BY <1>2, <1>5, <2>1 DEF Boxes2
<1>7. T \subseteq S
  <2> SUFFICES ASSUME NEW x \in T PROVE x \in S
    OBVIOUS
  <2>1. x \in XB /\ oL[oB[x]] = p /\ (oB[x] = l => rB[x] > rB[b1])
    BY <1>5 DEF Boxes2
  <2>2. rB[b] \in Nat /\ rB[x] \in Nat
    BY <1>1, <2>1
  <2>3. oB[x] = l => rB[x] > rB[b]
    BY <1>2, <2>1, <2>2
  <2> QED
    BY <1>5, <2>1, <2>3 DEF Boxes2
<1>8. PICK m, n \in Nat : m = Len(f.L) /\ n = Len(f.B)
  BY <1>1 DEF Frames
<1>9. T # S /\ Lines2(XL, oL, p, l) \subseteq Lines2(XL, oL, p,
    l) /\ XL \subseteq 1 .. m /\ XB \subseteq 1 .. n
  BY <1>1, <1>6, <1>8
<1>10. /\ ToMerge(XL, oL, XB, oB, rB, p, l, b1) <= ToMerge(XL, oL, XB, oB, rB, p, l, b) - 1
       /\ ToMerge(XL, oL, XB, oB, rB, p, l, b1) \in Int /\ ToMerge(XL, oL, XB, oB, rB, p, l,
           b) \in Int
  BY <1>5, <1>7, <1>8, <1>9, FewerToMerge
<1> QED
  BY <1>4, <1>10 DEF MergedLess

\* The line y after line l goes to the end of it.
LineMerged(f, h, XL, oL, rL, XB, oB, rB, l, b, y, XL2, oL2, rL2, oB2, rB2) ==
  /\ h \in Frames /\ SameP(f, h) /\ SameT(f, h) /\ SameC(f, h) /\ Len(h.B) = Len(f.B)
  /\ y \in XL /\ y # l /\ oL[y] = oL[l] /\ XL2 = XL \ {y}
  /\ \A x \in XL2 : oL2[x] = oL[x] /\ h.L[x].firstB = f.L[x].firstB
  /\ \A x \in XL2 : oL[x] # oL[l] => rL2[x] = rL[x]
  /\ h.L[l].next = f.L[y].next /\ \A x \in XL2 : x # l => h.L[x].next = f.L[x].next
  /\ \A x \in XB : oB2[x] = IF oB[x] = y THEN l ELSE oB[x]
  /\ \A x \in XB : oB[x] # y => rB2[x] = rB[x]
  /\ \A x \in XB : SameText(f.B[x], h.B[x])
\* The boxes of the next line are put at the end of the first one.
LEMMA UnbreakIs ==
  ASSUME NEW f, NEW Q, NEW l, NEW XL, NEW oL, NEW rL, NEW XB, NEW oB, NEW rB,
         MB(f, Q, l, XL, oL, rL, XB, oB, rB),
         NEW b \in XB, oB[b] = l, NextIndex(f, b) = 0, NEW y, y = f.L[l].next, y # 0,
         NEW h, h = Unbreak(f, l, y, b)
  PROVE  \E XL2, oL2, rL2, oB2, rB2 :
           /\ LineMerged(f, h, XL, oL, rL, XB, oB, rB, l, b, y, XL2, oL2, rL2, oB2, rB2)
           /\ MLayer(h, Q, XL2, oL2, rL2, l) /\ BLayer(h, XL2, XB, oB2, rB2)
<1>1. /\ f \in Frames /\ Q \subseteq 1 .. Len(f.P) /\ XL \subseteq 1 .. Len(f.L) /\ XB \subseteq 1 .. Len(f.B)
      /\ l \in XL /\ MLayer(f, Q, XL, oL, rL, l) /\ BLayer(f, XL, XB, oB, rB)
      /\ oL \in [XL -> Q] /\ oB \in [XB -> XL] /\ LineBoxesLast(f, XB, oB)
  BY MBFacts DEF MB
<1>2. y \in XL /\ oL[y] = oL[l] /\ y # l
  <2>1. Live(XL, Q, oL, rL, FirstL(f), NextL(f), PatchedL(f, l)) /\ NextL(f)[l] = y
    BY <1>1, LinksL DEF MLayer, Layer
  <2> QED
    BY <1>1, <2>1, LiveNext
<1>3. f.B[b].kind # "line"
  <2>1. CASE f.B[b].kind = "line"
    BY <1>1, <2>1 DEF LineBoxesLast
  <2> QED
    BY <2>1
<1>4. PICK g : g = LinkBoxes(f, b, f.L[y].firstB)
  OBVIOUS
<1>5. PICK O2, oB2, rB2 : BJoined(f, g, XL, XB, oB, rB, b, y, O2, oB2, rB2)
  <2>1. oB[b] # y
    BY <1>2
  <2> QED
    BY <1>1, <1>2, <1>3, <1>4, <2>1, BConcat
<1>6. /\ OnlyB(f, g) /\ Len(g.B) = Len(f.B) /\ BLayer(g, XL \ {y}, XB, oB2, rB2)
      /\ \A x \in XB : oB2[x] = IF oB[x] = y THEN l ELSE oB[x]
      /\ \A x \in XB : oB[x] # y => rB2[x] = rB[x]
      /\ \A x \in XB : SameText(f.B[x], g.B[x])
  BY <1>5 DEF BJoined
<1>7. g \in Frames /\ g.L = f.L /\ g.P = f.P /\ g.freeL = f.freeL
  BY <1>6 DEF OnlyB, SameL, SameP
<1>8. MLayer(g, Q, XL, oL, rL, l)
  <2>1. FirstL(g) = FirstL(f) /\ NextL(g) = NextL(f) /\ PatchedL(g, l) = PatchedL(f, l)
    BY <1>7 DEF FirstL, NextL, PatchedL
  <2> QED
    BY <1>1, <1>7, <2>1 DEF MLayer
<1>9. h = FreeLine([g EXCEPT !.L[l].next = g.L[y].next], y)
  BY <1>4, <1>7 DEF Unbreak
<1>10. PICK XL2, oL2, rL2 : LRemoved(g, h, Q, XL, oL, rL, l, y, XL2, oL2, rL2)
  <2>1. y = g.L[l].next /\ Q \subseteq 1 .. Len(g.P)
    BY <1>1, <1>7
  <2> QED
    BY <1>1, <1>7, <1>8, <1>9, <2>1, LRemove
<1>11. /\ MLayer(h, Q, XL2, oL2, rL2, l) /\ XL2 = XL \ {y} /\ OnlyL(g, h) /\ Len(h.L) = Len(g.L)
       /\ \A x \in XL2 : oL2[x] = oL[x] /\ h.L[x].firstB = g.L[x].firstB
       /\ \A x \in XL2 : oL[x] # oL[l] => rL2[x] = rL[x]
       /\ h.L[l].next = g.L[y].next /\ \A x \in XL2 : x # l => h.L[x].next = g.L[x].next
  BY <1>10 DEF LRemoved
<1>12. BLayer(h, XL2, XB, oB2, rB2)
  <2>1. XL2 \subseteq 1 .. Len(g.L) /\ XL2 \subseteq 1 .. Len(h.L) /\ SameB(g, h) /\ h \in Frames
    BY <1>1, <1>7, <1>11 DEF OnlyL
  <2>2. BLayer(g, XL2, XB, oB2, rB2) /\ \A x \in XL2 : h.L[x].firstB = g.L[x].firstB
    BY <1>6, <1>11
  <2> QED
    BY <1>7, <2>1, <2>2, BLayerKept
<1>13. h \in Frames /\ SameP(f, h) /\ SameT(f, h) /\ SameC(f, h) /\ h.B = g.B
  BY <1>6, <1>11 DEF OnlyB, OnlyL, SameP, SameT, SameC, SameB
<1>14. LineMerged(f, h, XL, oL, rL, XB, oB, rB, l, b, y, XL2, oL2, rL2, oB2, rB2)
  <2>1. Len(h.B) = Len(f.B)
    BY <1>6, <1>13
  <2>2. \A x \in XB : SameText(f.B[x], h.B[x])
    BY <1>6, <1>13
  <2>3. y \in XL /\ y # l /\ oL[y] = oL[l] /\ XL2 = XL \ {y}
    BY <1>2, <1>11
  <2>4. /\ \A x \in XL2 : oL2[x] = oL[x] /\ h.L[x].firstB = f.L[x].firstB
        /\ \A x \in XL2 : oL[x] # oL[l] => rL2[x] = rL[x]
        /\ h.L[l].next = f.L[y].next /\ \A x \in XL2 : x # l => h.L[x].next = f.L[x].next
    BY <1>7, <1>11
  <2> QED
    BY <1>6, <1>13, <2>1, <2>2, <2>3, <2>4 DEF LineMerged
<1> QED
  BY <1>11, <1>12, <1>14

\* A round of the merge that takes a line leaves fewer lines.
LEMMA MergeLine ==
  ASSUME NEW f, NEW Q, NEW l, NEW XL, NEW oL, NEW rL, NEW XB, NEW oB, NEW rB,
         MB(f, Q, l, XL, oL, rL, XB, oB, rB),
         NEW p, p = oL[l], NEW b \in XB, oB[b] = l, NextIndex(f, b) = 0, NEW y, y = f.L[l].next,
         y # 0,
         NEW h, h = Unbreak(f, l, y, b)
  PROVE  \E XL2, oL2, rL2, oB2, rB2 :
           MergedLess(f, Q, p, l, XL, oL, rL, XB, oB, rB, b, h, b, XL2, oL2, rL2, XB, oB2, rB2)
<1>1. /\ f \in Frames /\ Q \subseteq 1 .. Len(f.P) /\ XL \subseteq 1 .. Len(f.L) /\ XB \subseteq 1 .. Len(f.B)
      /\ l \in XL /\ oL \in [XL -> Q] /\ oB \in [XB -> XL] /\ LineBoxesLast(f, XB,
          oB) /\ BoxesGood(f, XB)
  BY MBFacts DEF MB
<1>2. PICK XL2, oL2, rL2, oB2, rB2 :
        /\ LineMerged(f, h, XL, oL, rL, XB, oB, rB, l, b, y, XL2, oL2, rL2, oB2, rB2)
        /\ MLayer(h, Q, XL2, oL2, rL2, l) /\ BLayer(h, XL2, XB, oB2, rB2)
  BY UnbreakIs
<1>3. /\ h \in Frames /\ SameP(f, h) /\ SameT(f, h) /\ SameC(f, h) /\ Len(h.B) = Len(f.B)
      /\ y \in XL /\ y # l /\ oL[y] = oL[l] /\ XL2 = XL \ {y}
      /\ \A x \in XL2 : oL2[x] = oL[x] /\ h.L[x].firstB = f.L[x].firstB
      /\ \A x \in XL2 : oL[x] # oL[l] => rL2[x] = rL[x]
      /\ h.L[l].next = f.L[y].next /\ \A x \in XL2 : x # l => h.L[x].next = f.L[x].next
      /\ \A x \in XB : oB2[x] = IF oB[x] = y THEN l ELSE oB[x]
      /\ \A x \in XB : oB[x] # y => rB2[x] = rB[x]
      /\ \A x \in XB : SameText(f.B[x], h.B[x])
  BY <1>2 DEF LineMerged
<1>4. BoxesGood(h, XB)
  <2> SUFFICES ASSUME NEW x \in XB PROVE BoxGood(h.text, h.B[x])
    BY DEF BoxesGood
  <2>1. BoxGood(f.text, f.B[x]) /\ SameText(f.B[x], h.B[x]) /\ h.text = f.text
    BY <1>1, <1>3 DEF BoxesGood, SameT
  <2> QED
    BY <2>1 DEF BoxGood, SameText
<1>5. LineBoxesLast(h, XB, oB2)
  <2> SUFFICES ASSUME NEW x \in XB, h.B[x].kind = "line" PROVE h.L[oB2[x]].next = 0
    BY DEF LineBoxesLast
  <2>1. f.L[oB[x]].next = 0 /\ oB[x] \in XL
    BY <1>1, <1>3 DEF LineBoxesLast, SameText
  <2>2. oB[x] # l
    BY <2>1
  <2>3. CASE oB[x] = y
    BY <1>3, <2>1, <2>3
  <2>4. CASE oB[x] # y
    BY <1>3, <2>1, <2>2, <2>4
  <2> QED
    BY <2>3, <2>4
<1>6. l \in XL2 /\ Q \subseteq 1 .. Len(h.P) /\ XL2 \subseteq 1 .. Len(h.L)
  <2>1. XL2 \subseteq 1 .. Len(h.L)
    BY <1>2 DEF MLayer, Layer
  <2>2. h.P = f.P
    BY <1>3 DEF SameP
  <2> QED
    BY <1>1, <1>3, <2>1, <2>2
<1>7. MB(h, Q, l, XL2, oL2, rL2, XB, oB2, rB2)
  BY <1>2, <1>3, <1>4, <1>5, <1>6 DEF MB
<1>8. Sum(h, XB) = Sum(f, XB)
  <2>1. SameTexts(f, h, XB)
    BY <1>1, <1>3 DEF SameTexts
  <2> QED
    BY <1>1, <1>3, <2>1, SumSame
<1>9. OthersAlike(f, XL, oL, rL, XB, oB, rB, h, XL2, oL2, rL2, XB, oB2, rB2, Q, p)
  <2>1. ASSUME NEW q \in Q, q # p PROVE SamePlaces(XL, oL, rL, XL2, oL2, rL2, q)
    <3>1. \A x \in XL : oL[x] = q => x \in XL2 /\ oL2[x] = q /\ rL2[x] = rL[x]
      BY <1>3, <2>1
    <3>2. \A x \in XL2 : oL2[x] = q => x \in XL /\ oL[x] = q
      BY <1>3
    <3> QED
      BY <3>1, <3>2 DEF SamePlaces
  <2>2. ASSUME NEW x \in XL, oL[x] # p PROVE LineAlike(f, h, XB, oB, rB, XB, oB2, rB2, x)
    <3>1. x # l /\ x # y /\ x \in XL2
      BY <1>3, <2>2
    <3>2. \A z \in XB : oB[z] = x => oB2[z] = x /\ rB2[z] = rB[z]
      BY <1>3, <3>1
    <3>3. \A z \in XB : oB2[z] = x => oB[z] = x
      BY <1>3, <3>1
    <3> QED
      BY <1>3, <3>1, <3>2, <3>3 DEF LineAlike, SamePlaces
  <2> QED
    BY <2>1, <2>2 DEF OthersAlike
<1>10. Merged(f, Q, p, l, XL, oL, rL, XB, oB, rB, h, b, XL2, oL2, rL2, XB, oB2, rB2)
  <2>1. oL2[l] = p /\ oB2[b] = l
    BY <1>3, <1>6
  <2> QED
    <3>1. Unruled(f, oL, XB, oB, p) => Unruled(h, oL2, XB, oB2, p)
      <4> SUFFICES ASSUME Unruled(f, oL, XB, oB, p), NEW x \in XB,
          oL2[oB2[x]] = p PROVE h.B[x].kind # "line"
        BY DEF Unruled
      <4>1. oL[oB[x]] = p
        BY <1>1, <1>3
      <4>2. f.B[x].kind # "line"
        BY <4>1 DEF Unruled
      <4> QED
        BY <1>3, <4>2 DEF SameText
    <3> QED
      BY <1>3, <1>7, <1>8, <1>9, <2>1, <3>1 DEF Merged
<1>11. Lines2(XL2, oL2, p, l) \subseteq Lines2(XL, oL, p, l) /\ Lines2(XL2, oL2, p, l) # Lines2(XL,
    oL, p, l)
  <2>1. y \in Lines2(XL, oL, p, l) /\ y \notin Lines2(XL2, oL2, p, l)
    BY <1>3 DEF Lines2
  <2>2. Lines2(XL2, oL2, p, l) \subseteq Lines2(XL, oL, p, l)
    BY <1>3 DEF Lines2
  <2> QED
    BY <2>1, <2>2
<1>12. Boxes2(XL2, oL2, XB, oB2, rB2, p, l, b) \subseteq Boxes2(XL, oL, XB, oB, rB, p, l, b)
  <2> SUFFICES ASSUME NEW x \in XB, oL2[oB2[x]] = p, oB2[x] = l => rB2[x] > rB2[b]
               PROVE  oL[oB[x]] = p /\ (oB[x] = l => rB[x] > rB[b])
    BY DEF Boxes2
  <2>1. CASE oB[x] = y
    BY <1>3, <2>1
  <2>2. CASE oB[x] # y
    <3>1. oB2[x] = oB[x] /\ rB2[x] = rB[x] /\ rB2[b] = rB[b] /\ oB[x] \in XL2
      BY <1>1, <1>3, <2>2
    <3> QED
      BY <1>3, <3>1
  <2> QED
    BY <2>1, <2>2
<1>13. PICK m \in Nat : m = Len(f.L)
  <2>1. f.L \in Seq(LineSet)
    BY <1>1 DEF Frames
  <2> QED
    BY <2>1, LenProperties
<1>15. PICK n \in Nat : n = Len(f.B)
  <2>1. f.B \in Seq(BoxSet)
    BY <1>1 DEF Frames
  <2> QED
    BY <2>1, LenProperties
<1>14. /\ ToMerge(XL2, oL2, XB, oB2, rB2, p, l, b) <= ToMerge(XL, oL, XB, oB, rB, p, l, b) - 1
       /\ ToMerge(XL2, oL2, XB, oB2, rB2, p, l, b) \in Int /\ ToMerge(XL, oL, XB, oB, rB, p, l,
           b) \in Int
  <2>1. XL \subseteq 1 .. m /\ XB \subseteq 1 .. n
    BY <1>1, <1>13, <1>15
  <2> QED
    BY <1>11, <1>12, <2>1, FewerToMerge, ZenonT(30)
<1> QED
  BY <1>10, <1>14 DEF MergedLess

\* Two rounds of the merge, as one.
LEMMA MergedTwice ==
  ASSUME NEW f, NEW Q, NEW p, NEW l, NEW XL, NEW oL, NEW rL, NEW XB, NEW oB, NEW rB,
         oL \in [XL -> Q],
         NEW g, NEW b, NEW XL2, NEW oL2, NEW rL2, NEW XB2, NEW oB2, NEW rB2,
         NEW h, NEW c, NEW XL3, NEW oL3, NEW rL3, NEW XB3, NEW oB3, NEW rB3,
         Merged(f, Q, p, l, XL, oL, rL, XB, oB, rB, g, b, XL2, oL2, rL2, XB2, oB2, rB2),
         Merged(g, Q, p, l, XL2, oL2, rL2, XB2, oB2, rB2, h, c, XL3, oL3, rL3, XB3, oB3, rB3)
  PROVE  Merged(f, Q, p, l, XL, oL, rL, XB, oB, rB, h, c, XL3, oL3, rL3, XB3, oB3, rB3)
<1>1. /\ SameP(f, g) /\ SameT(f, g) /\ SameC(f, g) /\ Sum(g, XB2) = Sum(f, XB)
      /\ OthersAlike(f, XL, oL, rL, XB, oB, rB, g, XL2, oL2, rL2, XB2, oB2, rB2, Q, p)
      /\ f.L[l].next = 0 => g.L[l].next = 0
      /\ Unruled(f, oL, XB, oB, p) => Unruled(g, oL2, XB2, oB2, p)
  BY DEF Merged
<1>2. /\ SameP(g, h) /\ SameT(g, h) /\ SameC(g, h) /\ Sum(h, XB3) = Sum(g, XB2)
      /\ OthersAlike(g, XL2, oL2, rL2, XB2, oB2, rB2, h, XL3, oL3, rL3, XB3, oB3, rB3, Q, p)
      /\ g.L[l].next = 0 => h.L[l].next = 0
      /\ Unruled(g, oL2, XB2, oB2, p) => Unruled(h, oL3, XB3, oB3, p)
      /\ MB(h, Q, l, XL3, oL3, rL3, XB3, oB3, rB3) /\ oL3[l] = p /\ c \in XB3 /\ oB3[c] = l
  BY DEF Merged
<1>3. OthersAlike(f, XL, oL, rL, XB, oB, rB, h, XL3, oL3, rL3, XB3, oB3, rB3, Q, p)
  BY <1>1, <1>2, OthersTwice
<1>4. SameP(f, h) /\ SameT(f, h) /\ SameC(f, h)
  BY <1>1, <1>2 DEF SameP, SameT, SameC
<1> QED
  BY <1>1, <1>2, <1>3, <1>4 DEF Merged

\* At most N rounds of merging are left to do, or there is no line left.
MergedOn(f0, Q, p, l, XL0, oL0, rL0, XB0, oB0, rB0, N, f, b, XL, oL, rL, XB, oB, rB) ==
  /\ Merged(f0, Q, p, l, XL0, oL0, rL0, XB0, oB0, rB0, f, b, XL, oL, rL, XB, oB, rB)
  /\ f.L[l].next = 0 \/ ToMerge(XL, oL, XB, oB, rB, p, l, b) <= N
MergeOn(f0, Q, p, l, XL0, oL0, rL0, XB0, oB0, rB0, N, f, b) ==
  \E XL, oL, rL, XB, oB, rB : MergedOn(f0, Q, p, l, XL0, oL0, rL0, XB0, oB0, rB0, N, f, b, XL, oL,
      rL, XB, oB, rB)

\* A round that merged leaves a round less to do.
LEMMA MergeGoesOn ==
  ASSUME NEW f0, NEW Q, NEW p, NEW l, NEW XL0, NEW oL0, NEW rL0, NEW XB0, NEW oB0, NEW rB0,
         oL0 \in [XL0 -> Q],
         NEW N \in Int, NEW f, NEW b, NEW XL, NEW oL, NEW rL, NEW XB, NEW oB, NEW rB,
         MergedOn(f0, Q, p, l, XL0, oL0, rL0, XB0, oB0, rB0, N, f, b, XL, oL, rL, XB, oB, rB),
         NEW h, NEW c, NEW XL2, NEW oL2, NEW rL2, NEW XB2, NEW oB2, NEW rB2,
         MergedLess(f, Q, p, l, XL, oL, rL, XB, oB, rB, b, h, c, XL2, oL2, rL2, XB2, oB2, rB2)
  PROVE  MergeOn(f0, Q, p, l, XL0, oL0, rL0, XB0, oB0, rB0, N - 1, h, c)
<1>1. Merged(f0, Q, p, l, XL0, oL0, rL0, XB0, oB0, rB0, f, b, XL, oL, rL, XB, oB, rB)
  BY DEF MergedOn
<1>4. /\ Merged(f, Q, p, l, XL, oL, rL, XB, oB, rB, h, c, XL2, oL2, rL2, XB2, oB2, rB2)
      /\ ToMerge(XL2, oL2, XB2, oB2, rB2, p, l, c) <= ToMerge(XL, oL, XB, oB, rB, p, l, b) - 1
      /\ ToMerge(XL2, oL2, XB2, oB2, rB2, p, l, c) \in Int /\ ToMerge(XL, oL, XB, oB, rB, p, l,
          b) \in Int
  BY DEF MergedLess
<1>2. Merged(f0, Q, p, l, XL0, oL0, rL0, XB0, oB0, rB0, h, c, XL2, oL2, rL2, XB2, oB2, rB2)
  BY <1>1, <1>4, MergedTwice
<1>3. h.L[l].next = 0 \/ ToMerge(XL2, oL2, XB2, oB2, rB2, p, l, c) <= N - 1
  <2>1. CASE f.L[l].next = 0
    BY <1>4, <2>1 DEF Merged
  <2>2. CASE f.L[l].next # 0
    <3>1. ToMerge(XL, oL, XB, oB, rB, p, l, b) <= N
      BY <2>2 DEF MergedOn
    <3> QED
      BY <1>4, <3>1
  <2> QED
    BY <2>1, <2>2
<1>5. MergedOn(f0, Q, p, l, XL0, oL0, rL0, XB0, oB0, rB0, N - 1, h, c, XL2, oL2, rL2, XB2, oB2, rB2)
  BY <1>2, <1>3 DEF MergedOn
<1> QED
  BY <1>5 DEF MergeOn

\* Every round of the merge merges, or has nothing left to do.
LEMMA RoundMerged ==
  ASSUME NEW f0, NEW Q, NEW p, NEW l, NEW XL0, NEW oL0, NEW rL0, NEW XB0, NEW oB0, NEW rB0,
         oL0 \in [XL0 -> Q],
         NEW N \in Int, NEW m, MergeOn(f0, Q, p, l, XL0, oL0, rL0, XB0, oB0, rB0, N, m.f, m.b),
         NEW k, NEW m2, m2 = MergeRound(l, m, k)
  PROVE  MergeOn(f0, Q, p, l, XL0, oL0, rL0, XB0, oB0, rB0, N - 1, m2.f, m2.b)
<1>1. PICK f, b : f = m.f /\ b = m.b
  OBVIOUS
<1>2. PICK XL, oL, rL, XB, oB, rB : MergedOn(f0, Q, p, l, XL0, oL0, rL0, XB0, oB0, rB0, N, f, b,
    XL, oL, rL, XB, oB, rB)
  BY <1>1 DEF MergeOn
<1>3. /\ Merged(f0, Q, p, l, XL0, oL0, rL0, XB0, oB0, rB0, f, b, XL, oL, rL, XB, oB, rB)
      /\ MB(f, Q, l, XL, oL, rL, XB, oB, rB) /\ p = oL[l] /\ b \in XB /\ oB[b] = l
      /\ f.L[l].next = 0 \/ ToMerge(XL, oL, XB, oB, rB, p, l, b) <= N
  BY <1>2 DEF MergedOn, Merged
<1>4. PICK b1 : b1 = NextIndex(f, b)
  OBVIOUS
<1>5. m2 = MergeAt(f, l, b, b1)
  BY <1>1, <1>4 DEF MergeRound
<1>6. CASE b1 # 0 /\ Joins(f.B[b], f.B[b1])
  <2>1. PICK h : h = JoinBoxes(f, b, b1)
    OBVIOUS
  <2>2. m2.f = h /\ m2.b = b
    BY <1>5, <1>6, <2>1 DEF MergeAt
  <2>3. PICK XB2, oB2, rB2 :
          MergedLess(f, Q, p, l, XL, oL, rL, XB, oB, rB, b, h, b, XL, oL, rL, XB2, oB2, rB2)
    BY <1>3, <1>4, <1>6, <2>1, MergeJoin
  <2>4. MergeOn(f0, Q, p, l, XL0, oL0, rL0, XB0, oB0, rB0, N - 1, h, b)
    BY <1>2, <2>3, MergeGoesOn
  <2> QED
    BY <2>2, <2>4
<1>7. CASE b1 # 0 /\ ~Joins(f.B[b], f.B[b1])
  <2>1. m2.f = f /\ m2.b = b1
    BY <1>5, <1>7 DEF MergeAt
  <2>2. MergedLess(f, Q, p, l, XL, oL, rL, XB, oB, rB, b, f, b1, XL, oL, rL, XB, oB, rB)
    BY <1>3, <1>4, <1>7, MergeNext
  <2>3. MergeOn(f0, Q, p, l, XL0, oL0, rL0, XB0, oB0, rB0, N - 1, f, b1)
    BY <1>2, <2>2, MergeGoesOn
  <2> QED
    BY <2>1, <2>3
<1>8. CASE b1 = 0 /\ f.L[l].next # 0
  <2>1. PICK y, h : y = f.L[l].next /\ h = Unbreak(f, l, y, b)
    OBVIOUS
  <2>2. m2.f = h /\ m2.b = b
    BY <1>5, <1>8, <2>1 DEF MergeAt
  <2>3. PICK XL2, oL2, rL2, oB2, rB2 :
          MergedLess(f, Q, p, l, XL, oL, rL, XB, oB, rB, b, h, b, XL2, oL2, rL2, XB, oB2, rB2)
    BY <1>3, <1>4, <1>8, <2>1, MergeLine
  <2>4. MergeOn(f0, Q, p, l, XL0, oL0, rL0, XB0, oB0, rB0, N - 1, h, b)
    BY <1>2, <2>3, MergeGoesOn
  <2> QED
    BY <2>2, <2>4
<1>9. CASE b1 = 0 /\ f.L[l].next = 0
  <2>1. m2.f = f /\ m2.b = b
    BY <1>5, <1>9 DEF MergeAt
  <2>2. MergedOn(f0, Q, p, l, XL0, oL0, rL0, XB0, oB0, rB0, N - 1, f, b, XL, oL, rL, XB, oB, rB)
    BY <1>3, <1>9 DEF MergedOn
  <2> QED
    BY <2>1, <2>2 DEF MergeOn
<1> QED
  BY <1>6, <1>7, <1>8, <1>9

\* The loop of mergeIntoOneLine (frame.go), round by round.
LEMMA MergingSteps ==
  \A l, m :
    /\ Merging!Run(l, m, 0) = m
    /\ \A k \in Nat : Merging!Run(l, m, k + 1) = MergeRound(l, Merging!Run(l, m, k), k + 1)
BY Merging!RunStarts, Merging!RunGoesOn

\* The first line of a paragraph, and the first box of a line.
LEMMA FirstOnes ==
  ASSUME NEW f, NEW Q, NEW XL, NEW oL, NEW rL, NEW XB, NEW oB, NEW rB,
         LB(f, Q, XL, oL, rL, XB, oB, rB)
  PROVE  /\ \A p \in Q : f.P[p].firstL \in XL /\ oL[f.P[p].firstL] = p /\ rL[f.P[p].firstL] = 1 /\ f.P[p].firstL # 0
         /\ \A l \in XL : f.L[l].firstB \in XB /\ oB[f.L[l].firstB] = l /\ rB[f.L[l].firstB] = 1 /\ f.L[l].firstB # 0
<1>1. /\ f \in Frames /\ Q \subseteq 1 .. Len(f.P) /\ XL \subseteq 1 .. Len(f.L)
      /\ LLayer(f, Q, XL, oL, rL) /\ BLayer(f, XL, XB, oB, rB)
  BY LBFacts
<1>2. ASSUME NEW p \in Q
      PROVE  f.P[p].firstL \in XL /\ oL[f.P[p].firstL] = p /\ rL[f.P[p].firstL] = 1 /\ f.P[p].firstL # 0
  <2>1. FirstL(f)[p] = f.P[p].firstL
    BY <1>1, LinksL
  <2>2. Live(XL, Q, oL, rL, FirstL(f), NextL(f), PrevL(f)) /\ FirstL(f)[p] # 0
    BY <1>1 DEF LLayer, Layer
  <2> QED
    BY <2>1, <2>2 DEF Live, Begun
<1>3. ASSUME NEW l \in XL
      PROVE  f.L[l].firstB \in XB /\ oB[f.L[l].firstB] = l /\ rB[f.L[l].firstB] = 1 /\ f.L[l].firstB # 0
  <2>1. FirstB(f)[l] = f.L[l].firstB
    BY <1>1, LinksB
  <2>2. Live(XB, XL, oB, rB, FirstB(f), NextB(f), PrevB(f)) /\ FirstB(f)[l] # 0
    BY <1>1 DEF BLayer, Layer
  <2> QED
    BY <2>1, <2>2 DEF Live, Begun
<1> QED
  BY <1>2, <1>3

\* Paragraph p has line l alone.
InOneLine(f, h, Q, p, l, XB, XL2, oL2, rL2, XB2, oB2, rB2) ==
  /\ LB(h, Q, XL2, oL2, rL2, XB2, oB2, rB2)
  /\ SameP(f, h) /\ SameT(f, h) /\ SameC(f, h) /\ Sum(h, XB2) = Sum(f, XB)
  /\ Elsewhere(f, h, Q, p) /\ (NoRule(f, p) => NoRule(h, p))
  /\ l \in XL2 /\ oL2[l] = p /\ h.L[l].next = 0
  /\ \A x \in XL2 : oL2[x] = p => x = l

\* When no round is left, the paragraph is one line of joined boxes.
LEMMA MergeEnds ==
  ASSUME NEW f, NEW Q, NEW XL, NEW oL, NEW rL, NEW XB, NEW oB, NEW rB,
         LB(f, Q, XL, oL, rL, XB, oB, rB),
         NEW p \in Q, NEW l, l = f.P[p].firstL, NEW h, NEW b,
         MergeOn(f, Q, p, l, XL, oL, rL, XB, oB, rB, 0, h, b)
  PROVE  \E XL2, oL2, rL2, XB2, oB2, rB2 : InOneLine(f, h, Q, p, l, XB, XL2, oL2, rL2, XB2, oB2,
         rB2)
<1>1. PICK XL2, oL2, rL2, XB2, oB2, rB2 : MergedOn(f, Q, p, l, XL, oL, rL, XB, oB, rB, 0, h, b,
    XL2, oL2, rL2, XB2, oB2, rB2)
  BY DEF MergeOn
<1>2. /\ MB(h, Q, l, XL2, oL2, rL2, XB2, oB2, rB2)
      /\ SameP(f, h) /\ SameT(f, h) /\ SameC(f, h) /\ Sum(h, XB2) = Sum(f, XB)
      /\ OthersAlike(f, XL, oL, rL, XB, oB, rB, h, XL2, oL2, rL2, XB2, oB2, rB2, Q, p)
      /\ oL2[l] = p /\ (Unruled(f, oL, XB, oB, p) => Unruled(h, oL2, XB2, oB2, p))
      /\ h.L[l].next = 0 \/ ToMerge(XL2, oL2, XB2, oB2, rB2, p, l, b) <= 0
  BY <1>1 DEF MergedOn, Merged
<1>3. /\ h \in Frames /\ Q \subseteq 1 .. Len(h.P) /\ XL2 \subseteq 1 .. Len(h.L) /\ XB2 \subseteq 1 .. Len(h.B)
      /\ l \in XL2 /\ MLayer(h, Q, XL2, oL2, rL2, l) /\ BLayer(h, XL2, XB2, oB2, rB2)
      /\ oL2 \in [XL2 -> Q] /\ rL2 \in [XL2 -> Nat \ {0}]
      /\ BoxesGood(h, XB2) /\ LineBoxesLast(h, XB2, oB2)
  BY <1>2, MBFacts DEF MB
<1>4. h.L[l].next = 0
  <2> SUFFICES ASSUME h.L[l].next # 0 PROVE FALSE
    OBVIOUS
  <2>1. PICK y : y = h.L[l].next
    OBVIOUS
  <2>2. y \in XL2 /\ oL2[y] = p /\ y # l
    <3>1. Live(XL2, Q, oL2, rL2, FirstL(h), NextL(h), PatchedL(h, l)) /\ NextL(h)[l] = y
      BY <1>3, <2>1, LinksL DEF MLayer, Layer
    <3> QED
      BY <1>2, <1>3, <2>1, <3>1, LiveNext
  <2>3. PICK S, V : S = Boxes2(XL2, oL2, XB2, oB2, rB2, p, l, b) /\ V = Lines2(XL2, oL2, p, l)
    OBVIOUS
  <2>4. y \in V
    BY <2>2, <2>3 DEF Lines2
  <2>5. PICK m \in Nat : m = Len(h.L)
    BY <1>3 DEF Frames
  <2>6. PICK n \in Nat : n = Len(h.B)
    BY <1>3 DEF Frames
  <2>7. Fewer(m, V, V \ {y}, y)
    BY <1>3, <2>3, <2>4, <2>5 DEF Fewer, Lines2
  <2>8. Cardinality(V \ {y}) <= Cardinality(V) - 1 /\ Cardinality(V \ {y}) \in Nat /\ Cardinality(V) \in Nat
    BY <2>7, FewerParts
  <2>9. S \subseteq 1 .. n
    BY <1>3, <2>3, <2>6 DEF Boxes2
  <2>10. Cardinality(S) \in 0 .. n
    BY <2>9, FiniteParts
  <2>11. Cardinality(S) + Cardinality(V) <= 0
    BY <1>2, <2>3 DEF ToMerge
  <2> QED
    BY <2>8, <2>10, <2>11
<1>5. LLayer(h, Q, XL2, oL2, rL2)
  BY <1>3, <1>4, PatchedIs
<1>6. LB(h, Q, XL2, oL2, rL2, XB2, oB2, rB2)
  BY <1>3, <1>5 DEF LB
<1>7. Elsewhere(f, h, Q, p)
  <2>1. \A q \in Q : q # p => SamePlaces(XL, oL, rL, XL2, oL2, rL2, q)
    BY <1>2 DEF OthersAlike
  <2>2. \A x \in XL : oL[x] \in Q /\ oL[x] # p => LineAlike(f, h, XB, oB, rB, XB2, oB2, rB2, x)
    BY <1>2 DEF OthersAlike
  <2> QED
    BY <1>6, <2>1, <2>2, ElsewhereIs
<1>8. ASSUME NEW x \in XL2, oL2[x] = p PROVE x = l
  <2>1. Live(XL2, Q, oL2, rL2, FirstL(h), NextL(h), PrevL(h)) /\ NextL(h)[l] = h.L[l].next
    BY <1>3, <1>5, LLayerFacts
  <2>2. l = h.P[p].firstL
    BY <1>2 DEF SameP
  <2>3. rL2[l] = 1
    BY <1>6, <2>2, FirstOnes
  <2>4. rL2[x] <= rL2[l]
    BY <1>2, <1>3, <1>4, <1>8, <2>1 DEF Live, Ended
  <2>5. rL2[x] = rL2[l]
    BY <1>3, <2>3, <2>4
  <2> QED
    BY <1>2, <1>3, <1>8, <2>1, <2>5 DEF Live, Placed
<1>10. NoRule(f, p) => NoRule(h, p)
  <2>1. NoRule(f, p) <=> Unruled(f, oL, XB, oB, p)
    BY NoRuleIs
  <2>2. NoRule(h, p) <=> Unruled(h, oL2, XB2, oB2, p)
    BY <1>6, NoRuleIs
  <2> QED
    BY <1>2, <2>1, <2>2
<1>9. InOneLine(f, h, Q, p, l, XB, XL2, oL2, rL2, XB2, oB2, rB2)
  BY <1>2, <1>3, <1>4, <1>6, <1>7, <1>8, <1>10 DEF InOneLine
<1> QED
  BY <1>9

\* Merging makes a paragraph one line, from any number of lines.
LEMMA MergeFromIs ==
  ASSUME NEW f, NEW Q, NEW XL, NEW oL, NEW rL, NEW XB, NEW oB, NEW rB,
         LB(f, Q, XL, oL, rL, XB, oB, rB),
         NEW p \in Q, NEW l, l = f.P[p].firstL, NEW h, h = MergeFrom(f, l)
  PROVE  \E XL2, oL2, rL2, XB2, oB2, rB2 : InOneLine(f, h, Q, p, l, XB, XL2, oL2, rL2, XB2, oB2,
         rB2)
<1>1. /\ f \in Frames /\ Q \subseteq 1 .. Len(f.P) /\ XL \subseteq 1 .. Len(f.L) /\ XB \subseteq 1 .. Len(f.B)
      /\ LLayer(f, Q, XL, oL, rL) /\ BLayer(f, XL, XB, oB, rB)
      /\ oL \in [XL -> Q] /\ BoxesGood(f, XB) /\ LineBoxesLast(f, XB, oB)
  BY LBFacts DEF LB
<1>2. l \in XL /\ oL[l] = p
  BY FirstOnes
<1>3. PICK b : b = f.L[l].firstB
  OBVIOUS
<1>4. b \in XB /\ oB[b] = l
  BY <1>2, <1>3, FirstOnes
<1>5. MB(f, Q, l, XL, oL, rL, XB, oB, rB)
  <2>1. MLayer(f, Q, XL, oL, rL, l)
    BY <1>1, <1>2, PatchedIs
  <2> QED
    BY <1>1, <1>2, <2>1 DEF MB
<1>6. Merged(f, Q, p, l, XL, oL, rL, XB, oB, rB, f, b, XL, oL, rL, XB, oB, rB)
  <2>1. OthersAlike(f, XL, oL, rL, XB, oB, rB, f, XL, oL, rL, XB, oB, rB, Q, p)
    BY OthersSame
  <2> QED
    BY <1>2, <1>4, <1>5, <2>1 DEF Merged, SameP, SameT, SameC
<1>7. PICK n : n = MergeRounds(f)
  OBVIOUS
<1>8. n \in Nat /\ ToMerge(XL, oL, XB, oB, rB, p, l, b) <= n
  <2>1. PICK S, V : S = Boxes2(XL, oL, XB, oB, rB, p, l, b) /\ V = Lines2(XL, oL, p, l)
    OBVIOUS
  <2>2. PICK m \in Nat : m = Len(f.L)
    BY <1>1 DEF Frames
  <2>3. PICK k \in Nat : k = Len(f.B)
    BY <1>1 DEF Frames
  <2>4. S \subseteq 1 .. k /\ V \subseteq 1 .. m
    BY <1>1, <2>1, <2>2, <2>3 DEF Boxes2, Lines2
  <2>5. Cardinality(S) \in 0 .. k
    BY <2>4, FiniteParts
  <2>6. Cardinality(V) \in 0 .. m
    BY <2>4, FiniteParts
  <2>7. n = m + k /\ ToMerge(XL, oL, XB, oB, rB, p, l, b) = Cardinality(S) + Cardinality(V)
    BY <1>7, <2>1, <2>2, <2>3 DEF MergeRounds, ToMerge
  <2> QED
    BY <2>5, <2>6, <2>7
<1>9. PICK a : a = [f |-> f, b |-> b]
  OBVIOUS
<1>10. a.f = f /\ a.b = b
  BY <1>9
<1>11. PICK at : at = [k \in Nat |-> Merging!Run(l, a, k)]
  OBVIOUS
<1>12. at[0] = a /\ \A k \in Nat : at[k + 1] = MergeRound(l, at[k], k + 1)
  BY <1>11, MergingSteps
<1>13. h = at[n].f
  BY <1>3, <1>7, <1>8, <1>9, <1>11 DEF MergeFrom
<1>14. MergeOn(f, Q, p, l, XL, oL, rL, XB, oB, rB, n, f, b)
  <2>1. MergedOn(f, Q, p, l, XL, oL, rL, XB, oB, rB, n, f, b, XL, oL, rL, XB, oB, rB)
    BY <1>6, <1>8 DEF MergedOn
  <2> QED
    BY <2>1 DEF MergeOn
<1>15. PICK good : good = {k \in 0 .. n : MergeOn(f, Q, p, l, XL, oL, rL, XB, oB, rB, n - k,
    at[k].f, at[k].b)}
  OBVIOUS
<1>16. 0 \in good
  <2>1. 0 \in 0 .. n /\ n - 0 = n
    BY <1>8
  <2> QED
    BY <1>10, <1>12, <1>14, <1>15, <2>1
<1>17. ASSUME NEW k \in 0 .. n - 1, k \in good PROVE k + 1 \in good
  <2>1. k \in Nat /\ k + 1 \in 0 .. n /\ n - (k + 1) = (n - k) - 1 /\ n - k \in Int
    BY <1>8
  <2>2. PICK N \in Int : N = n - k
    BY <2>1
  <2>3. PICK c, d : c = at[k] /\ d = at[k + 1]
    OBVIOUS
  <2>4. d = MergeRound(l, c, k + 1)
    BY <1>12, <2>1, <2>3
  <2>5. MergeOn(f, Q, p, l, XL, oL, rL, XB, oB, rB, N, c.f, c.b)
    BY <1>15, <1>17, <2>2, <2>3
  <2>6. PICK j : j = k + 1
    OBVIOUS
  <2>7. MergeOn(f, Q, p, l, XL, oL, rL, XB, oB, rB, N - 1, d.f, d.b)
    BY <1>1, <2>4, <2>5, <2>6, RoundMerged
  <2> QED
    BY <1>15, <2>1, <2>2, <2>3, <2>7
<1>18. n \in good
  <2>1. \A k \in 0 .. n : k \in good
    BY <1>8, <1>16, <1>17, UpTo
  <2>2. n \in 0 .. n
    BY <1>8
  <2> QED
    BY <2>1, <2>2
<1>19. PICK c : c = at[n].b
  OBVIOUS
<1>20. MergeOn(f, Q, p, l, XL, oL, rL, XB, oB, rB, 0, h, c)
  <2>1. n - n = 0
    BY <1>8
  <2> QED
    BY <1>13, <1>15, <1>18, <1>19, <2>1
<1> QED
  BY <1>20, MergeEnds

(***************************************************************************)
(* The layout of the paragraphs Q, whatever the places of its elements.    *)
(***************************************************************************)
Lay(f, Q) == \E XL, oL, rL, XB, oB, rB : LB(f, Q, XL, oL, rL, XB, oB, rB) /\ Sum(f, XB) = f.len
Fit(f, p) == \A k \in 1 .. Len(Lines(f, p)) : Fits(f, Lines(f, p)[k])

\* A paragraph fits when each of its lines does.
LEMMA FitIs ==
  ASSUME NEW f, NEW Q, NEW XL, NEW oL, NEW rL, NEW XB, NEW oB, NEW rB,
         LB(f, Q, XL, oL, rL, XB, oB, rB), NEW p \in Q
  PROVE  Fit(f, p) <=> \A x \in XL : oL[x] = p => Fits(f, x)
<1>1. f \in Frames /\ LLayer(f, Q, XL, oL, rL) /\ Q \subseteq 1 .. Len(f.P)
  BY LBFacts
<1>2. PICK ls : ls = Lines(f, p)
  OBVIOUS
<1>3. LineList(ls, f, XL, oL, rL, p)
  BY <1>1, <1>2, LinesAre
<1>4. /\ ls \in [1 .. Len(ls) -> XL] /\ \A k \in 1 .. Len(ls) : oL[ls[k]] = p
      /\ \A x \in XL : oL[x] = p => rL[x] \in 1 .. Len(ls) /\ ls[rL[x]] = x
  BY <1>3 DEF LineList, ListOf
<1>5. Fit(f, p) <=> \A k \in 1 .. Len(ls) : Fits(f, ls[k])
  BY <1>2 DEF Fit
<1>6. ASSUME \A k \in 1 .. Len(ls) : Fits(f, ls[k]), NEW x \in XL, oL[x] = p PROVE Fits(f, x)
  <2>1. rL[x] \in 1 .. Len(ls) /\ ls[rL[x]] = x
    BY <1>4, <1>6
  <2> QED
    BY <1>6, <2>1
<1>7. ASSUME \A x \in XL : oL[x] = p => Fits(f, x), NEW k \in 1 .. Len(ls) PROVE Fits(f, ls[k])
  <2>1. ls[k] \in XL /\ oL[ls[k]] = p
    BY <1>4
  <2> QED
    BY <1>7, <2>1
<1> QED
  BY <1>5, <1>6, <1>7

\* A paragraph that was not changed fits as it did.
LEMMA FitElsewhere ==
  ASSUME NEW f, NEW Q, Lay(f, Q), NEW h \in Frames, h.width = f.width,
         NEW p, Elsewhere(f, h, Q, p), NEW q \in Q, q # p, Fit(f, q)
  PROVE  Fit(h, q)
<1>1. PICK XL, oL, rL, XB, oB, rB : LB(f, Q, XL, oL, rL, XB, oB, rB)
  BY DEF Lay
<1>2. /\ f \in Frames /\ LLayer(f, Q, XL, oL, rL) /\ BLayer(f, XL, XB, oB, rB)
      /\ Q \subseteq 1 .. Len(f.P) /\ XL \subseteq 1 .. Len(f.L)
  BY <1>1, LBFacts
<1>3. PICK ls : ls = Lines(f, q)
  OBVIOUS
<1>4. LineList(ls, f, XL, oL, rL, q)
  BY <1>2, <1>3, LinesAre
<1>5. ls = Lines(h, q) /\ \A k \in 1 .. Len(ls) : LineKept(f, h, ls[k])
  BY <1>3 DEF Elsewhere
<1>6. ASSUME NEW k \in 1 .. Len(ls) PROVE Fits(h, ls[k])
  <2>1. PICK x : x = ls[k]
    OBVIOUS
  <2>2. x \in XL
    BY <1>4, <2>1 DEF LineList, ListOf
  <2>3. Fits(f, x)
    BY <1>3, <2>1 DEF Fit
  <2>4. LineKept(f, h, x)
    BY <1>5, <2>1
  <2> QED
    BY <1>2, <2>1, <2>2, <2>3, <2>4, FitsKept
<1> QED
  BY <1>5, <1>6 DEF Fit

\* The frame h has the lines, boxes and text of f, and its paragraphs Q the
\* same first lines.
SameLay(f, h, Q) ==
  /\ h \in Frames /\ SameL(f, h) /\ SameB(f, h) /\ SameT(f, h)
  /\ Q \subseteq 1 .. Len(h.P) /\ \A q \in Q : h.P[q].firstL = f.P[q].firstL

\* Lines and boxes stay well formed when only the paragraphs change.
LEMMA LBKept ==
  ASSUME NEW f, NEW Q, NEW XL, NEW oL, NEW rL, NEW XB, NEW oB, NEW rB,
         LB(f, Q, XL, oL, rL, XB, oB, rB),
         NEW h, SameLay(f, h, Q)
  PROVE  LB(h, Q, XL, oL, rL, XB, oB, rB) /\ Sum(h, XB) = Sum(f, XB)
<1>1. /\ f \in Frames /\ Q \subseteq 1 .. Len(f.P) /\ XL \subseteq 1 .. Len(f.L)
      /\ LLayer(f, Q, XL, oL, rL) /\ BLayer(f, XL, XB, oB, rB)
      /\ BoxesGood(f, XB) /\ LineBoxesLast(f, XB, oB)
  BY LBFacts DEF LB
<1>2. /\ h \in Frames /\ h.L = f.L /\ h.freeL = f.freeL /\ SameB(f,
         h) /\ h.B = f.B /\ h.text = f.text
      /\ Q \subseteq 1 .. Len(h.P) /\ \A q \in Q : h.P[q].firstL = f.P[q].firstL
  BY DEF SameLay, SameL, SameB, SameT
<1>3. LLayer(h, Q, XL, oL, rL)
  BY <1>1, <1>2, LLayerKept
<1>4. BLayer(h, XL, XB, oB, rB)
  BY <1>1, <1>2, BLayerKept
<1>5. BoxesGood(h, XB) /\ LineBoxesLast(h, XB, oB)
  BY <1>1, <1>2 DEF BoxesGood, LineBoxesLast
<1>6. Sum(h, XB) = Sum(f, XB)
  BY <1>2 DEF Sum
<1> QED
  BY <1>2, <1>3, <1>4, <1>5, <1>6 DEF LB

\* The lines stay when only the paragraphs change.
LEMMA SameLines ==
  ASSUME NEW f, NEW h, NEW Q, SameLay(f, h, Q)
  PROVE  /\ \A q \in Q : Lines(h, q) = Lines(f, q)
         /\ \A l : LineKept(f, h, l) /\ (Fits(h, l) <=> Fits(f, l))
<1>1. /\ h.L = f.L /\ h.B = f.B /\ h.width = f.width /\ \A q \in Q : h.P[q].firstL = f.P[q].firstL
  BY DEF SameLay, SameL, SameB, SameT
<1>2. NextL(h) = NextL(f)
  BY <1>1 DEF NextL
<1>3. NextB(h) = NextB(f) /\ \A b : BoxWidth(h, b) = BoxWidth(f, b)
  BY <1>1 DEF NextB, NextIndex, BoxWidth
<1>4. \A l : Boxes(h, l) = Boxes(f, l)
  BY <1>1, <1>3 DEF Boxes
<1>5. \A bs, k : WidthUpTo(h, bs, k) = WidthUpTo(f, bs, k)
  BY <1>3 DEF WidthUpTo
<1>6. \A l : LineWidth(h, l) = LineWidth(f, l)
  BY <1>4, <1>5 DEF LineWidth
<1>7. \A q \in Q : Lines(h, q) = Lines(f, q)
  BY <1>1, <1>2 DEF Lines
<1>8. \A l : LineKept(f, h, l)
  BY <1>1, <1>4 DEF LineKept, SameText
<1>9. \A l : Fits(h, l) <=> Fits(f, l)
  BY <1>1, <1>4, <1>6 DEF Fits
<1> QED
  BY <1>7, <1>8, <1>9

(***************************************************************************)
(* The paragraphs of a frame.                                              *)
(***************************************************************************)
OnlyP(f, h) == h \in Frames /\ SameL(f, h) /\ SameB(f, h) /\ SameT(f, h) /\ SameC(f, h)
OnePara(f, h, p, x) ==
  /\ OnlyP(f, h) /\ h.freeP = f.freeP /\ h.firstP = f.firstP /\ Len(h.P) = Len(f.P)
  /\ h.P[p] = x /\ \A q \in 1 .. Len(f.P) : q # p => h.P[q] = f.P[q]

\* Setting a paragraph changes no other.
LEMMA SetParaIs ==
  ASSUME NEW f \in Frames, NEW p \in 1 .. Len(f.P), NEW x \in ParaSet, NEW h,
         h = [f EXCEPT !.P[p] = x]
  PROVE  OnePara(f, h, p, x)
<1>1. f.P \in Seq(ParaSet)
  BY DEF Frames
<1>2. PICK s : s = [f.P EXCEPT ![p] = x]
  OBVIOUS
<1>3. s \in Seq(ParaSet) /\ Len(s) = Len(f.P) /\ s[p] = x /\ \A k \in 1 .. Len(f.P) : k # p =>
    s[k] = f.P[k]
  BY <1>1, <1>2
<1>4. h = [f EXCEPT !.P = s]
  BY <1>2 DEF Frames
<1>5. h \in Frames /\ h.P = s /\ h.freeP = f.freeP /\ h.firstP = f.firstP
  BY <1>3, <1>4 DEF Frames
<1>6. SameL(f, h) /\ SameB(f, h) /\ SameT(f, h) /\ SameC(f, h)
  BY <1>4 DEF Frames, SameL, SameB, SameT, SameC
<1> QED
  BY <1>3, <1>5, <1>6 DEF OnePara, OnlyP

\* Paragraph x with another count.
Recounted(x, y, n) ==
  y.firstL = x.firstL /\ y.next = x.next /\ y.prev = x.prev /\ y.align = x.align /\ y.count = n
ParaCounted(f, h, p, n) ==
  /\ OnlyP(f, h) /\ h.freeP = f.freeP /\ h.firstP = f.firstP /\ Len(h.P) = Len(f.P)
  /\ Recounted(f.P[p], h.P[p], n) /\ \A q \in 1 .. Len(f.P) : q # p => h.P[q] = f.P[q]

\* The elements of the array of paragraphs are paragraphs.
LEMMA ParaTypes ==
  ASSUME NEW f \in Frames, NEW p \in 1 .. Len(f.P)
  PROVE  f.P[p] \in ParaSet
BY DEF Frames

\* Setting the line count of a paragraph changes nothing else.
LEMMA SetCountIs ==
  ASSUME NEW f \in Frames, NEW p \in 1 .. Len(f.P), NEW n \in Nat, NEW h,
         h = [f EXCEPT !.P[p].count = n]
  PROVE  ParaCounted(f, h, p, n)
<1>1. PICK x : x = [f.P[p] EXCEPT !.count = n]
  OBVIOUS
<1>2. f.P[p] \in ParaSet
  BY ParaTypes
<1>3. x \in ParaSet /\ Recounted(f.P[p], x, n)
  BY <1>1, <1>2 DEF ParaSet, Recounted
<1>4. h = [f EXCEPT !.P[p] = x]
  BY <1>1 DEF Frames
<1>5. x \in ParaSet
  BY <1>3
<1>6. OnePara(f, h, p, x)
  BY <1>4, <1>5, SetParaIs
<1> QED
  BY <1>3, <1>6 DEF OnePara, ParaCounted

\* A paragraph is laid out anew: its lines are joined, and then broken where
\* they are too wide.
ParaLaid(f, h, Q, p) ==
  /\ Lay(h, Q) /\ Elsewhere(f, h, Q, p) /\ Fit(h, p) /\ (NoRule(f, p) => NoRule(h, p))
  /\ h \in Frames /\ SameT(f, h) /\ SameC(f, h) /\ h.freeP = f.freeP /\ h.firstP = f.firstP
  /\ Len(h.P) = Len(f.P)
  /\ Recounted(f.P[p], h.P[p], 0) /\ \A q \in 1 .. Len(f.P) : q # p => h.P[q] = f.P[q]

\* Layout of paragraph p and the count of its lines forgotten.
LEMMA LaidForgets ==
  ASSUME NEW f, NEW Q, NEW p \in Q, Q \subseteq 1 .. Len(f.P), f \in Frames, NEW g,
         Laid(f, Q, p, 0, g, 0),
         NEW h, h = [g EXCEPT !.P[p].count = 0]
  PROVE  ParaLaid(f, h, Q, p)
<1>1. PICK XL, oL, rL, XB, oB, rB : Laying(f, Q, p, 0, g, 0, XL, oL, rL, XB, oB, rB)
  BY DEF Laid
<1>2. /\ LB(g, Q, XL, oL, rL, XB, oB, rB) /\ Sum(g, XB) = g.len
      /\ SameP(f, g) /\ SameT(f, g) /\ SameC(f, g) /\ Elsewhere(f, g, Q, p)
      /\ \A x \in XL : oL[x] = p /\ x # 0 => Fits(g, x)
      /\ NoRule(f, p) => Unruled(g, oL, XB, oB, p)
  BY <1>1 DEF Laying
<1>3. g \in Frames /\ XL \subseteq 1 .. Len(g.L) /\ g.P = f.P /\ g.freeP = f.freeP /\ g.firstP = f.firstP
  BY <1>2, LBFacts DEF SameP
<1>4. ParaCounted(g, h, p, 0)
  <2>1. p \in 1 .. Len(g.P)
    BY <1>3
  <2>2. PICK z \in Nat : z = 0
    OBVIOUS
  <2>3. ParaCounted(g, h, p, z)
    BY <1>3, <2>1, <2>2, SetCountIs
  <2> QED
    BY <2>2, <2>3
<1>5. /\ h \in Frames /\ SameL(g, h) /\ SameB(g, h) /\ SameT(g, h) /\ SameC(g, h)
      /\ h.freeP = g.freeP /\ h.firstP = g.firstP /\ Len(h.P) = Len(g.P)
      /\ Recounted(g.P[p], h.P[p], 0) /\ \A q \in 1 .. Len(g.P) : q # p => h.P[q] = g.P[q]
  BY <1>4 DEF ParaCounted, OnlyP
<1>6. SameLay(g, h, Q)
  <2>1. \A q \in Q : h.P[q].firstL = g.P[q].firstL
    BY <1>3, <1>5 DEF Recounted
  <2> QED
    BY <1>3, <1>5, <2>1 DEF SameLay
<1>7. LB(h, Q, XL, oL, rL, XB, oB, rB) /\ Sum(h, XB) = h.len
  <2>1. LB(h, Q, XL, oL, rL, XB, oB, rB) /\ Sum(h, XB) = Sum(g, XB)
    BY <1>2, <1>6, LBKept
  <2>2. h.len = g.len
    BY <1>5 DEF SameT
  <2> QED
    BY <1>2, <2>1, <2>2
<1>8. Lay(h, Q)
  BY <1>7 DEF Lay
<1>9. Fit(h, p)
  <2>1. \A x \in XL : oL[x] = p => Fits(g, x)
    <3>1. \A x \in XL : x # 0
      BY <1>3
    <3> QED
      BY <1>2, <3>1
  <2>2. \A x : Fits(h, x) <=> Fits(g, x)
    BY <1>6, SameLines
  <2>3. \A x \in XL : oL[x] = p => Fits(h, x)
    BY <2>1, <2>2
  <2> QED
    BY <1>7, <2>3, FitIs
<1>10. Elsewhere(g, h, Q, p)
  BY <1>6, SameLines DEF Elsewhere
<1>11. Elsewhere(f, h, Q, p)
  BY <1>2, <1>10, ElsewhereTwice
<1>12. SameT(f, h) /\ SameC(f, h)
  BY <1>2, <1>5 DEF SameT, SameC
<1>13. NoRule(f, p) => NoRule(h, p)
  <2>1. Unruled(g, oL, XB, oB, p) => Unruled(h, oL, XB, oB, p)
    BY <1>5 DEF Unruled, SameB
  <2>2. NoRule(h, p) <=> Unruled(h, oL, XB, oB, p)
    BY <1>7, NoRuleIs
  <2> QED
    BY <1>2, <2>1, <2>2
<1> QED
  BY <1>3, <1>5, <1>8, <1>9, <1>11, <1>12, <1>13 DEF ParaLaid

\* A paragraph is merged into one line and laid out again.
LEMMA RelayoutParaIs ==
  ASSUME NEW f, NEW Q, Lay(f, Q), f.width > 1, NEW p \in Q, NEW h, h = RelayoutPara(f, p)
  PROVE  ParaLaid(f, h, Q, p)
<1>1. PICK XL, oL, rL, XB, oB, rB : LB(f, Q, XL, oL, rL, XB, oB, rB) /\ Sum(f, XB) = f.len
  BY DEF Lay
<1>2. f \in Frames /\ Q \subseteq 1 .. Len(f.P)
  BY <1>1, LBFacts
<1>3. PICK l, g : l = f.P[p].firstL /\ g = MergeFrom(f, l)
  OBVIOUS
<1>4. PICK XL2, oL2, rL2, XB2, oB2, rB2 : InOneLine(f, g, Q, p, l, XB, XL2, oL2, rL2, XB2, oB2, rB2)
  BY <1>1, <1>3, MergeFromIs
<1>5. /\ LB(g, Q, XL2, oL2, rL2, XB2, oB2, rB2)
      /\ SameP(f, g) /\ SameT(f, g) /\ SameC(f, g) /\ Sum(g, XB2) = Sum(f, XB)
      /\ Elsewhere(f, g, Q, p)
      /\ l \in XL2 /\ p = oL2[l] /\ g.L[l].next = 0
      /\ \A x \in XL2 : oL2[x] = p => x = l
      /\ NoRule(f, p) => NoRule(g, p)
  BY <1>4 DEF InOneLine
<1>6. Sum(g, XB2) = g.len /\ g.width > 1
  BY <1>1, <1>5 DEF SameT
<1>7. OthersFit(g, XL2, oL2, p, l)
  BY <1>5 DEF OthersFit
<1>8. PICK k : k = LayoutOneLine(g, l)
  OBVIOUS
<1>9. Laid(g, Q, p, 0, k, 0)
  BY <1>5, <1>6, <1>7, <1>8, LayoutOneLineIs
<1>10. h = [k EXCEPT !.P[p].count = 0]
  BY <1>3, <1>8 DEF RelayoutPara, MergeIntoOneLine
<1>11. g \in Frames /\ Q \subseteq 1 .. Len(g.P)
  BY <1>5, LBFacts
<1>12. ParaLaid(g, h, Q, p)
  BY <1>9, <1>10, <1>11, LaidForgets
<1>13. g.P = f.P /\ g.freeP = f.freeP /\ g.firstP = f.firstP
  BY <1>5 DEF SameP
<1>14. Elsewhere(f, h, Q, p)
  <2>1. Elsewhere(g, h, Q, p)
    BY <1>12 DEF ParaLaid
  <2> QED
    BY <1>5, <2>1, ElsewhereTwice
<1>15. SameT(f, h) /\ SameC(f, h)
  BY <1>5, <1>12 DEF ParaLaid, SameT, SameC
<1>16. NoRule(f, p) => NoRule(h, p)
  BY <1>5, <1>12 DEF ParaLaid
<1> QED
  BY <1>12, <1>13, <1>14, <1>15, <1>16 DEF ParaLaid

(***************************************************************************)
(* The list of the paragraphs. Its owner is the frame itself, number 0.    *)
(***************************************************************************)
FirstP(f) == [o \in {0} |-> f.firstP]
PrevP(f) == [p \in DOMAIN f.P |-> f.P[p].prev]
PLayer(f, O, X, own, rank) ==
  Layer(X, O, own, rank, FirstP(f), NextP(f), PrevP(f), f.freeP, Len(f.P))

\* The links of the paragraphs, as functions.
LEMMA LinksP ==
  ASSUME NEW f \in Frames
  PROVE  /\ DOMAIN NextP(f) = 0 .. Len(f.P) /\ NextP(f)[0] = 0 /\ Len(f.P) \in Nat
         /\ \A p \in 1 .. Len(f.P) : NextP(f)[p] = f.P[p].next /\ PrevP(f)[p] = f.P[p].prev /\ f.P[p] \in ParaSet
         /\ FirstP(f)[0] = f.firstP
<1>1. f.P \in Seq(ParaSet)
  BY DEF Frames
<1>2. DOMAIN f.P = 1 .. Len(f.P) /\ Len(f.P) \in Nat /\ \A p \in 1 .. Len(f.P) : f.P[p] \in ParaSet
  BY <1>1
<1> QED
  BY <1>2 DEF NextP, PrevP, FirstP

\* What well-formed paragraphs are, field by field.
LEMMA PLayerFacts ==
  ASSUME NEW f \in Frames, NEW O, NEW X, NEW own, NEW rank, PLayer(f, O, X, own, rank)
  PROVE  /\ X \subseteq 1 .. Len(f.P) /\ f.freeP \in 0 .. Len(f.P) /\ Len(f.P) \in Nat
         /\ Live(X, O, own, rank, FirstP(f), NextP(f), PrevP(f))
         /\ own \in [X -> O] /\ rank \in [X -> Nat \ {0}]
         /\ \A x \in X : /\ NextP(f)[x] = f.P[x].next /\ PrevP(f)[x] = f.P[x].prev
                         /\ f.P[x] \in ParaSet /\ x \in 1 .. Len(f.P) /\ f.P[x].next \in 0 .. Len(f.P)
                         /\ f.P[x].prev # -1
         /\ SlotAt(f.freeP, Len(f.P)) \notin X
<1>1. X \subseteq 1 .. Len(f.P) /\ Live(X, O, own, rank, FirstP(f), NextP(f), PrevP(f))
  BY DEF PLayer, Layer
<1>2. f.freeP \in 0 .. Len(f.P) /\ Len(f.P) \in Nat /\ SlotAt(f.freeP, Len(f.P)) \notin X
      /\ \A x \in X : NextP(f)[x] \in 0 .. Len(f.P) /\ PrevP(f)[x] # -1
  BY LayerPrev DEF PLayer
<1>3. own \in [X -> O] /\ rank \in [X -> Nat \ {0}]
  BY <1>1 DEF Live, Placed
<1>4. \A x \in X : x \in 1 .. Len(f.P)
  BY <1>1
<1>5. \A x \in X : NextP(f)[x] = f.P[x].next /\ PrevP(f)[x] = f.P[x].prev /\ f.P[x] \in ParaSet
  BY <1>4, LinksP
<1> QED
  BY <1>1, <1>2, <1>3, <1>4, <1>5

\* The paragraphs X of a frame, in one list or, when there is none, in no list.
OwnerOf(X) == IF X = {} THEN {} ELSE {0}
ListP(f, X) == \E own, rank : PLayer(f, OwnerOf(X), X, own, rank)

ParaList(ps, f, X) ==
  /\ Len(ps) \in Nat \ {0} /\ ps \in [1 .. Len(ps) -> X]
  /\ \A x \in X : \E k \in 1 .. Len(ps) : ps[k] = x
  /\ \A j, k \in 1 .. Len(ps) : ps[j] = ps[k] => j = k
  /\ ps[1] = f.firstP /\ f.P[ps[Len(ps)]].next = 0
  /\ \A k \in 1 .. Len(ps) - 1 : f.P[ps[k]].next = ps[k + 1]

\* Following the paragraphs gives each of them once.
LEMMA ParasAre ==
  ASSUME NEW f \in Frames, NEW X, X # {}, ListP(f, X), NEW ps, ps = Paras(f)
  PROVE  ParaList(ps, f, X)
<1>1. PICK own, rank : PLayer(f, {0}, X, own, rank)
  BY DEF ListP, OwnerOf
<1>2. PICK N : N = Len(f.P)
  OBVIOUS
<1>3. PICK first, next, prev : first = FirstP(f) /\ next = NextP(f) /\ prev = PrevP(f)
  OBVIOUS
<1>4. PICK o, O : o = 0 /\ O = {0}
  OBVIOUS
<1>5. X \subseteq 1 .. N /\ N \in Nat /\ Live(X, O, own, rank, first, next,
    prev) /\ o \in O /\ first[o] # 0
  BY <1>1, <1>2, <1>3, <1>4 DEF PLayer, Layer
<1>6. DOMAIN next = 0 .. N /\ next[0] = 0 /\ (\A x \in 1 .. N : next[x] = f.P[x].next) /\ first[o] = f.firstP
  BY <1>2, <1>3, <1>4, LinksP
<1>7. PICK n \in 0 .. N : WalkOf(Follow(next, first[o]), n, X, o, own, rank, first, next)
  BY <1>5, <1>6, LiveWalk
<1>8. ps = Follow(next, first[o])
  BY <1>3, <1>6 DEF Paras
<1>9. WalkOf(ps, n, X, o, own, rank, first, next) /\ n \in Nat
  BY <1>7, <1>8, <1>5
<1>10. /\ ListOf(ps, X, own, rank, o) /\ Len(ps) = n /\ ps[1] = first[o] /\ next[ps[n]] = 0
       /\ \A k \in 1 .. n - 1 : next[ps[k]] = ps[k + 1]
  BY <1>5, <1>9, ListIs
<1>11. \A k \in 1 .. n : ps[k] \in 1 .. N
  BY <1>5, <1>10 DEF ListOf
<1>12. n \in Nat \ {0} /\ ps \in [1 .. n -> X]
  BY <1>10 DEF ListOf
<1>13. ps[n] \in 1 .. N /\ \A k \in 1 .. n - 1 : ps[k] \in 1 .. N
  <2>1. n \in 1 .. n /\ \A k \in 1 .. n - 1 : k \in 1 .. n
    BY <1>12
  <2> QED
    BY <1>11, <2>1
<1>14. f.P[ps[n]].next = 0 /\ \A k \in 1 .. n - 1 : f.P[ps[k]].next = ps[k + 1]
  BY <1>6, <1>10, <1>13
<1>15. \A x \in X : \E k \in 1 .. n : ps[k] = x
  <2>1. own \in [X -> O]
    BY <1>5 DEF Live, Placed
  <2>2. \A x \in X : own[x] = o
    BY <1>4, <2>1
  <2> QED
    BY <1>10, <2>2 DEF ListOf
<1>16. \A j, k \in 1 .. n : ps[j] = ps[k] => j = k
  BY <1>10 DEF ListOf
<1> QED
  BY <1>6, <1>10, <1>12, <1>14, <1>15, <1>16 DEF ParaList

\* There are as many paragraphs as the list is long.
LEMMA ParasCount ==
  ASSUME NEW f, NEW X, NEW ps, ParaList(ps, f, X)
  PROVE  Cardinality(X) = Len(ps) /\ IsFiniteSet(X)
<1>1. PICK n : n = Len(ps)
  OBVIOUS
<1>2. n \in Nat /\ ps \in [1 .. n -> X] /\ (\A x \in X : \E k \in 1 .. n : ps[k] = x)
      /\ \A j, k \in 1 .. n : ps[j] = ps[k] => j = k
  BY <1>1 DEF ParaList
<1>3. ps \in Bijection(1 .. n, X)
  BY <1>2 DEF Bijection, Injection, Surjection, IsInjective
<1>4. ExistsBijection(1 .. n, X)
  BY <1>3 DEF ExistsBijection
<1>5. IsFiniteSet(1 .. n) /\ Cardinality(1 .. n) = n
  <2>1. PICK one : one = 1
    OBVIOUS
  <2>2. IsFiniteSet(one .. n) /\ Cardinality(one .. n) = IF one > n THEN 0 ELSE n - one + 1
    BY <1>2, <2>1, FS_Interval
  <2> QED
    BY <1>2, <2>1, <2>2
<1>6. IsFiniteSet(X) /\ Cardinality(X) = Cardinality(1 .. n)
  BY <1>4, <1>5, FS_Bijection
<1> QED
  BY <1>1, <1>5, <1>6

\* The list stays when the paragraphs keep their links.
SameLinksP(f, h) ==
  /\ h \in Frames /\ h.freeP = f.freeP /\ h.firstP = f.firstP /\ Len(h.P) = Len(f.P)
  /\ \A p \in 1 .. Len(f.P) : h.P[p].next = f.P[p].next /\ h.P[p].prev = f.P[p].prev

\* The paragraphs stay a list when their links stay.
LEMMA ListPKept ==
  ASSUME NEW f \in Frames, NEW h, SameLinksP(f, h), NEW X, ListP(f, X)
  PROVE  ListP(h, X)
<1>1. PICK own, rank : PLayer(f, OwnerOf(X), X, own, rank)
  BY DEF ListP
<1>2. PICK O, N, top : O = OwnerOf(X) /\ N = Len(f.P) /\ top = f.freeP
  OBVIOUS
<1>3. PICK first, next, prev : first = FirstP(f) /\ next = NextP(f) /\ prev = PrevP(f)
  OBVIOUS
<1>4. PICK first2, next2, prev2 : first2 = FirstP(h) /\ next2 = NextP(h) /\ prev2 = PrevP(h)
  OBVIOUS
<1>5. Layer(X, O, own, rank, first, next, prev, top, N)
  BY <1>1, <1>2, <1>3 DEF PLayer
<1>6. h \in Frames /\ h.freeP = top /\ Len(h.P) = N
  BY <1>2 DEF SameLinksP
<1>7. \A x \in 1 .. N : next2[x] = next[x]
  BY <1>2, <1>3, <1>4, <1>6, LinksP DEF SameLinksP
<1>8. \A x \in 1 .. N : prev2[x] = prev[x]
  BY <1>2, <1>3, <1>4, <1>6, LinksP DEF SameLinksP
<1>9. first2 = first
  BY <1>3, <1>4 DEF FirstP, SameLinksP
<1>10. Layer(X, O, own, rank, first2, next2, prev2, top, N)
  BY <1>5, <1>7, <1>8, <1>9, LayerSame
<1>11. PLayer(h, O, X, own, rank)
  BY <1>4, <1>6, <1>10 DEF PLayer
<1> QED
  BY <1>2, <1>11 DEF ListP

\* The sequence of the paragraphs is known by their links.
LEMMA ParasKept ==
  ASSUME NEW f \in Frames, NEW h, SameLinksP(f, h)
  PROVE  Paras(h) = Paras(f)
<1>1. NextP(h) = NextP(f)
  <2>1. Len(h.P) = Len(f.P) /\ \A p \in 1 .. Len(f.P) : h.P[p].next = f.P[p].next
    BY DEF SameLinksP
  <2>2. Len(f.P) \in Nat
    BY LinksP
  <2>3. \A p \in 0 .. Len(f.P) : p # 0 => p \in 1 .. Len(f.P)
    BY <2>2
  <2> QED
    BY <2>1, <2>3 DEF NextP
<1> QED
  BY <1>1 DEF Paras, SameLinksP
==============================================================================
