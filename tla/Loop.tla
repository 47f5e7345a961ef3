--------------------------------- MODULE Loop ---------------------------------
(* A loop over data: rounds that start from a base, each on what the round
   before it left. A module instantiates this with the round of its loop, which
   gets what stays the same for the whole loop and its own number too. *)
EXTENDS Integers, WellFoundedInduction, TLAPS

CONSTANT Round(_, _, _)

Run(same, base, n) ==
    LET after[k \in 0 .. n] == IF k = 0 THEN base ELSE Round(same, after[k - 1], k)
    IN  after[n]

-----------------------------------------------------------------------------
\* Every set of numbers has a least one (from the well-foundedness of <).
LEMMA LeastNumber ==
  ASSUME NEW T, T \subseteq Nat, T # {}
  PROVE  \E x \in T : \A y \in T : x <= y
<1>1. PICK x \in T : \A y \in T : <<y, x>> \notin OpToRel(<, Nat)
  BY NatLessThanWellFounded, WFMin, Zenon
<1>2. \A y \in T : ~(y < x)
  BY <1>1 DEF OpToRel
<1> QED
  BY <1>2

\* A function that says what each round leaves exists, whatever the round does.
LEMMA AfterExists ==
  ASSUME NEW same, NEW base, NEW n \in Nat
  PROVE  \E h : h = [k \in 0 .. n |-> IF k = 0 THEN base ELSE Round(same, h[k - 1], k)]
<1> DEFINE Body(h, m) == [k \in 0 .. m |-> IF k = 0 THEN base ELSE Round(same, h[k - 1], k)]
           Missed == {m \in Nat : \A h : h # Body(h, m)}
<1>1. Missed = {}
  <2> SUFFICES ASSUME Missed # {} PROVE FALSE
    OBVIOUS
  <2>1. PICK m \in Missed : \A k \in Missed : m <= k
    <3>1. Missed \subseteq Nat
      OBVIOUS
    <3> HIDE DEF Missed
    <3> QED
      BY <3>1, LeastNumber
  <2>2. m # 0
    <3>1. [k \in 0 .. 0 |-> base] = Body([k \in 0 .. 0 |-> base], 0)
      OBVIOUS
    <3> QED
      BY <2>1, <3>1
  <2>3. m - 1 \in Nat /\ m \in Nat
    BY <2>1, <2>2
  <2>4. PICK h : h = Body(h, m - 1)
    <3>1. m - 1 \notin Missed
      <4> HIDE DEF Missed
      <4> QED
        BY <2>1, <2>3
    <3> HIDE DEF Body
    <3> QED
      BY <2>3, <3>1
  <2> DEFINE g == [k \in 0 .. m |-> IF k = m THEN Round(same, h[m - 1], m) ELSE h[k]]
  <2>5. ASSUME NEW k \in 0 .. m
        PROVE  g[k] = Body(g, m)[k]
    <3>1. CASE k = 0
      <4>1. h[0] = base
        BY <2>3, <2>4
      <4> QED
        BY <3>1, <2>2, <4>1
    <3>2. CASE k # 0 /\ k # m
      <4>1. k \in 0 .. (m - 1) /\ k - 1 \in 0 .. m /\ k - 1 # m
        BY <3>2, <2>3
      <4>2. h[k] = Round(same, h[k - 1], k)
        BY <4>1, <3>2, <2>4
      <4> QED
        BY <4>1, <4>2, <3>2
    <3>3. CASE k = m
      <4>1. m - 1 \in 0 .. m /\ m - 1 # m
        BY <2>3
      <4>2. g[m - 1] = h[m - 1]
        BY <4>1
      <4> QED
        BY <3>3, <2>2, <4>2
    <3> QED
      BY <3>1, <3>2, <3>3
  <2>6. g = Body(g, m)
    <3> HIDE DEF g
    <3>1. DOMAIN g = 0 .. m /\ g = [k \in 0 .. m |-> g[k]]
      BY DEF g
    <3> QED
      BY <2>5, <3>1
  <2>7. m \notin Missed
    <3> HIDE DEF g, Body
    <3>1. \E x : x = Body(x, m)
      BY <2>6
    <3> QED
      BY <3>1
  <2> QED
    BY <2>1, <2>7
<1> QED
  BY <1>1

\* No round leaves the base as it was.
LEMMA RunStarts ==
  \A same, base : Run(same, base, 0) = base
<1> SUFFICES ASSUME NEW same, NEW base PROVE Run(same, base, 0) = base
  OBVIOUS
<1> DEFINE after == CHOOSE h : h = [k \in 0 .. 0 |-> IF k = 0 THEN base ELSE Round(same, h[k - 1], k)]
<1>1. after = [k \in 0 .. 0 |-> IF k = 0 THEN base ELSE Round(same, after[k - 1], k)]
  BY AfterExists
<1>2. after[0] = base
  <2> HIDE DEF after
  <2>1. 0 \in 0 .. 0
    OBVIOUS
  <2> QED
    BY <1>1, <2>1
<1> QED
  BY <1>2 DEF Run

\* Every round starts from what the rounds before it left.
LEMMA RunGoesOn ==
  \A same, base : \A n \in Nat : Run(same, base, n + 1) = Round(same, Run(same, base, n), n + 1)
<1> SUFFICES ASSUME NEW same, NEW base, NEW n \in Nat
             PROVE  Run(same, base, n + 1) = Round(same, Run(same, base, n), n + 1)
  OBVIOUS
<1>1. PICK m \in Nat : m = n + 1
  OBVIOUS
<1> DEFINE a == CHOOSE h : h = [k \in 0 .. n |-> IF k = 0 THEN base ELSE Round(same, h[k - 1], k)]
           b == CHOOSE h : h = [k \in 0 .. m |-> IF k = 0 THEN base ELSE Round(same, h[k - 1], k)]
<1>2. a = [k \in 0 .. n |-> IF k = 0 THEN base ELSE Round(same, a[k - 1], k)]
  BY AfterExists
<1>3. b = [k \in 0 .. m |-> IF k = 0 THEN base ELSE Round(same, b[k - 1], k)]
  BY AfterExists
<1>4. Run(same, base, n) = a[n] /\ Run(same, base, m) = b[m]
  BY DEF Run
<1> HIDE DEF a, b
<1>5. b[n] = a[n]
  <2>1. a[0] = base /\ \A k \in 1 .. n : a[k] = Round(same, a[k - 1], k)
    BY <1>2
  <2>2. b[0] = base /\ \A k \in 1 .. m : b[k] = Round(same, b[k - 1], k)
    BY <1>3
  <2> DEFINE Differ == {k \in 0 .. n : a[k] # b[k]}
  <2>3. ASSUME Differ # {} PROVE FALSE
    <3>1. Differ \subseteq Nat
      OBVIOUS
    <3>2. PICK k \in Differ : \A j \in Differ : k <= j
      <4> HIDE DEF Differ
      <4> QED
        BY <2>3, <3>1, LeastNumber
    <3>3. k \in 1 .. n /\ k \in 1 .. m /\ a[k] # b[k]
      BY <1>1, <2>1, <2>2, <3>2
    <3>4. k - 1 \in 0 .. n /\ ~(k <= k - 1)
      BY <3>3
    <3>5. k - 1 \notin Differ
      <4> HIDE DEF Differ
      <4> QED
        BY <3>2, <3>4
    <3>6. a[k - 1] = b[k - 1]
      BY <3>4, <3>5
    <3> QED
      BY <2>1, <2>2, <3>3, <3>6
  <2> QED
    BY <2>3
<1>6. b[m] = Round(same, b[n], m)
  <2>1. m \in 0 .. m /\ m # 0 /\ m - 1 = n
    BY <1>1
  <2> QED
    BY <1>3, <2>1
<1> QED
  BY <1>1, <1>4, <1>5, <1>6
=============================================================================
