--------------------------- MODULE SceneFlowProofs ---------------------------
(***************************************************************************)
(* Proofs about SceneFlow for any scripts, commands and nesting.           *)
(***************************************************************************)
EXTENDS SceneFlow, TLAPS, SequenceTheorems

-----------------------------------------------------------------------------
(***************************************************************************)
(* Stacks.  The scene's own frame is at the bottom and only there.         *)
(***************************************************************************)
IsStack(s) == /\ s \in Seq(Frame) /\ s # << >>
              /\ \A i \in 1 .. Len(s) - 1 : s[i].at \in CallLabels
              /\ s[Len(s)].at \in SceneLabels

Bottom(s) == s[Len(s)].at
Trains(s) == \E i \in 1 .. Len(s) : s[i].at \in {"source", "cmdEnd"}

\* No label is one of a scene and of a call.
LEMMA LabelsDiffer == SceneLabels \cap CallLabels = {}
BY DEF SceneLabels, CallLabels

\* Frames are built from a label and a number.
LEMMA FrameType == ASSUME NEW l \in SceneLabels \cup CallLabels, NEW n \in Int
                   PROVE  /\ F(l, n) \in Frame /\ F(l, n).at = l /\ F(l, n).n = n
BY DEF F, Frame

\* The head of a stack decides whether it is the only frame.
LEMMA HeadOfStack == ASSUME NEW s, IsStack(s)
                     PROVE  /\ s \in Seq(Frame) /\ Len(s) \in Nat \ {0}
                            /\ Head(s) = s[1] /\ Head(s) \in Frame
                            /\ Head(s).at \in SceneLabels => Len(s) = 1
                            /\ Head(s).at \in CallLabels => Len(s) > 1
                            /\ Tail(s) \in Seq(Frame) /\ Len(Tail(s)) = Len(s) - 1
                            /\ \A i \in 1 .. Len(s) - 1 : Tail(s)[i] = s[i + 1]
                            /\ Bottom(s) \in SceneLabels
<1> USE DEF IsStack, Bottom
<1>1. Len(s) \in Nat \ {0} /\ Head(s) = s[1]
  OBVIOUS
<1>2. \A i \in 1 .. Len(s) : s[i] \in Frame
  OBVIOUS
<1>3. Tail(s) \in Seq(Frame) /\ Len(Tail(s)) = Len(s) - 1 /\ \A i \in 1 .. Len(s) - 1 : Tail(s)[i] = s[i + 1]
  BY <1>1
<1>4. Head(s) \in Frame
  BY <1>1, <1>2
<1>5. \A n \in Nat \ {0} : n # 1 => 1 \in 1 .. n - 1
  OBVIOUS
<1>6. Len(s) # 1 => Head(s).at \in CallLabels
  BY <1>1, <1>5
<1>7. Len(s) = 1 => Head(s).at \in SceneLabels
  BY <1>1
<1>8. Head(s).at \in SceneLabels => Len(s) = 1
  BY <1>6, LabelsDiffer
<1>9. Head(s).at \in CallLabels => Len(s) > 1
  BY <1>1, <1>7, LabelsDiffer
<1> QED
  BY <1>1, <1>3, <1>4, <1>8, <1>9

\* A call goes on as another frame of its kind.
LEMMA StackBecomes == ASSUME NEW s, IsStack(s), NEW f \in Frame,
                             \/ f.at \in SceneLabels /\ Head(s).at \in SceneLabels
                             \/ f.at \in CallLabels /\ Head(s).at \in CallLabels
                      PROVE  LET t == << f >> \o Tail(s)
                             IN  /\ IsStack(t)
                                 /\ Bottom(t) = IF Head(s).at \in SceneLabels THEN f.at ELSE Bottom(s)
                                 /\ Trains(t) => Trains(s) \/ f.at \in {"source", "cmdEnd"}
<1> DEFINE t == << f >> \o Tail(s)
<1>1. /\ s \in Seq(Frame) /\ Len(s) \in Nat \ {0} /\ Tail(s) \in Seq(Frame) /\ Len(Tail(s)) = Len(s) - 1
      /\ Head(s).at \in SceneLabels => Len(s) = 1
      /\ Head(s).at \in CallLabels => Len(s) > 1
      /\ \A i \in 1 .. Len(s) - 1 : Tail(s)[i] = s[i + 1]
  BY HeadOfStack
<1>2. t \in Seq(Frame) /\ Len(t) = Len(s)
  BY <1>1
<1>3. t[1] = f /\ \A i \in 2 .. Len(s) : t[i] = s[i]
  BY <1>1
<1> HIDE DEF t
<1>4. t # << >>
  BY <1>1, <1>2
<1>5. Trains(t) => Trains(s) \/ f.at \in {"source", "cmdEnd"}
  BY <1>1, <1>2, <1>3 DEF Trains
<1>6. CASE Head(s).at \in SceneLabels
  <2>1. Len(t) = 1 /\ f.at \in SceneLabels
    BY <1>1, <1>2, <1>6, LabelsDiffer
  <2>2. IsStack(t)
    BY <1>2, <1>3, <1>4, <2>1 DEF IsStack
  <2> QED
    BY <1>3, <1>5, <1>6, <2>1, <2>2 DEF Bottom, t
<1>7. CASE Head(s).at \in CallLabels
  <2>1. Len(s) > 1 /\ f.at \in CallLabels /\ Head(s).at \notin SceneLabels
    BY <1>1, <1>7, LabelsDiffer
  <2>2. ASSUME NEW i \in 1 .. Len(t) - 1 PROVE t[i].at \in CallLabels
    <3>1. CASE i = 1
      BY <1>3, <2>1, <3>1
    <3>2. CASE i # 1
      <4>1. i \in 2 .. Len(s) /\ i \in 1 .. Len(s) - 1
        BY <1>1, <1>2, <3>2
      <4> QED
        BY <1>3, <4>1 DEF IsStack
    <3> QED
      BY <3>1, <3>2
  <2>3. t[Len(t)] = s[Len(s)]
    BY <1>1, <1>2, <1>3, <2>1
  <2>4. IsStack(t)
    BY <1>2, <1>4, <2>2, <2>3 DEF IsStack
  <2> QED
    BY <1>5, <2>1, <2>3, <2>4 DEF Bottom, t
<1> QED
  BY <1>6, <1>7

\* A call starts another one.
LEMMA StackPushes == ASSUME NEW s, IsStack(s), NEW f \in Frame, f.at \in CallLabels
                     PROVE  LET t == << f >> \o s
                            IN  /\ IsStack(t) /\ Bottom(t) = Bottom(s)
                                /\ Trains(t) => Trains(s) \/ f.at \in {"source", "cmdEnd"}
<1> DEFINE t == << f >> \o s
<1>1. s \in Seq(Frame) /\ Len(s) \in Nat \ {0} /\ \A i \in 1 .. Len(s) - 1 : s[i].at \in CallLabels
  BY HeadOfStack DEF IsStack
<1>2. t \in Seq(Frame) /\ Len(t) = Len(s) + 1
  BY <1>1
<1>3. t[1] = f /\ \A i \in 2 .. Len(t) : i - 1 \in 1 .. Len(s) /\ t[i] = s[i - 1]
  BY <1>1, <1>2
<1> HIDE DEF t
<1>4. t # << >>
  BY <1>1, <1>2
<1>5. t[Len(t)] = s[Len(s)]
  BY <1>1, <1>2, <1>3
<1>6. ASSUME NEW i \in 1 .. Len(t) - 1 PROVE t[i].at \in CallLabels
  <2>1. CASE i = 1
    BY <1>3, <2>1
  <2>2. CASE i # 1
    <3>1. i \in 2 .. Len(t) /\ i - 1 \in 1 .. Len(s) - 1
      BY <1>1, <1>2, <2>2
    <3> QED
      BY <1>1, <1>3, <3>1
  <2> QED
    BY <2>1, <2>2
<1>7. IsStack(t)
  BY <1>2, <1>4, <1>5, <1>6 DEF IsStack
<1>8. Trains(t) => Trains(s) \/ f.at \in {"source", "cmdEnd"}
  BY <1>1, <1>2, <1>3 DEF Trains
<1> QED
  BY <1>5, <1>7, <1>8 DEF Bottom, t

\* A call returns to its caller.
LEMMA StackReturns == ASSUME NEW s, IsStack(s), Head(s).at \in CallLabels
                      PROVE  /\ IsStack(Tail(s)) /\ Bottom(Tail(s)) = Bottom(s)
                             /\ Trains(Tail(s)) => Trains(s)
<1> DEFINE t == Tail(s)
<1>1. /\ Len(s) \in Nat \ {0} /\ t \in Seq(Frame) /\ Len(t) = Len(s) - 1 /\ Len(s) > 1
      /\ \A i \in 1 .. Len(s) - 1 : t[i] = s[i + 1]
  BY HeadOfStack
<1> HIDE DEF t
<1>2. t # << >>
  BY <1>1
<1>3. Len(t) \in 1 .. Len(s) - 1 /\ Len(t) + 1 = Len(s)
  BY <1>1
<1>4. t[Len(t)] = s[Len(s)]
  BY <1>1, <1>3
<1>5. ASSUME NEW i \in 1 .. Len(t) - 1 PROVE t[i].at \in CallLabels
  <2>1. i \in 1 .. Len(s) - 1 /\ i + 1 \in 1 .. Len(s) - 1
    BY <1>1
  <2> QED
    BY <1>1, <2>1 DEF IsStack
<1>6. IsStack(t)
  BY <1>1, <1>2, <1>4, <1>5 DEF IsStack
<1>7. Trains(t) => Trains(s)
  BY <1>1 DEF Trains
<1> QED
  BY <1>4, <1>6, <1>7 DEF Bottom, t

\* An error is caught by a script further down.
LEMMA StackUnwinds == ASSUME NEW s, IsStack(s), NEW k \in 1 .. Len(s)
                      PROVE  LET t == SubSeq(s, k, Len(s))
                             IN  /\ IsStack(t) /\ Bottom(t) = Bottom(s)
                                 /\ Trains(t) => Trains(s)
<1> DEFINE t == SubSeq(s, k, Len(s))
<1>1. s \in Seq(Frame) /\ Len(s) \in Nat \ {0} /\ \A j \in 1 .. Len(s) - 1 : s[j].at \in CallLabels
  BY HeadOfStack DEF IsStack
<1>2. t \in Seq(Frame) /\ Len(t) = Len(s) - k + 1 /\ \A j \in 1 .. Len(t) : t[j] = s[k + j - 1]
  BY <1>1
<1> HIDE DEF t
<1>3. \A j \in 1 .. Len(t) : k + j - 1 \in 1 .. Len(s)
  BY <1>1, <1>2
<1>4. t # << >> /\ Len(t) \in 1 .. Len(t) /\ k + Len(t) - 1 = Len(s)
  BY <1>1, <1>2
<1>5. t[Len(t)] = s[Len(s)]
  BY <1>2, <1>4
<1>6. ASSUME NEW j \in 1 .. Len(t) - 1 PROVE t[j].at \in CallLabels
  <2>1. j \in 1 .. Len(t) /\ k + j - 1 \in 1 .. Len(s) - 1
    BY <1>1, <1>2
  <2> QED
    BY <1>1, <1>2, <2>1
<1>7. IsStack(t)
  BY <1>2, <1>4, <1>5, <1>6 DEF IsStack
<1>8. Trains(t) => Trains(s)
  BY <1>2, <1>3 DEF Trains
<1> QED
  BY <1>5, <1>7, <1>8 DEF Bottom, t
-----------------------------------------------------------------------------
(***************************************************************************)
(* The inductive invariant.  A scene's own frame is at the bottom of the   *)
(* stack, DoTrain is allowed only while that frame is one of trainCycle,   *)
(* and whatever was chosen to come next may follow the running scene.      *)
(***************************************************************************)
VarsOK == /\ current \in AllScenes
          /\ prev \in AllScenes \cup {NoScene}
          /\ next \in AllScenes \cup {NoScene}
          /\ ans \in BOOLEAN
          /\ res \in AllScenes \cup {NoScene}
          /\ canTrain \in BOOLEAN
          /\ ables \in [Commands -> BOOLEAN]
          /\ shown \in BOOLEAN
          /\ data \in Contents
          /\ saved \in [Files -> Contents \cup {"absent", "torn"}]
          /\ over \in {"no", "quit", "error", "notfound"}

Allowed(v) == v \in Graph!Follow(current, prev) \cup {NoScene}

IInv == /\ VarsOK
        /\ over = "no" => IsStack(pc)
        /\ over # "no" => pc = << >>
        /\ canTrain => InCycle
        /\ Trains(pc) => canTrain
        /\ Allowed(next) /\ Allowed(res)
        /\ over # "notfound"

\* the step is one of the abstract flow, or changes nothing of it
GraphStep == [Graph!Moves \/ Graph!Ends]_<< current, prev, over # "no" >>

\* what every step has to establish
Good == IInv' /\ GraphStep

\* a stack on which the calls of DoTrain need the permission c to train, and c a train cycle
StackOK(s, c) == /\ IsStack(s)
                 /\ c => Bottom(s) \in CycleLabels
                 /\ Trains(s) => c

\* the running call may go on at l
OnTo(l) == /\ \/ l \in SceneLabels /\ Head(pc).at \in SceneLabels
              \/ l \in CallLabels /\ Head(pc).at \in CallLabels
           /\ l \in {"source", "cmdEnd"} => canTrain
           /\ l \in SceneLabels \ CycleLabels => ~canTrain

\* The abstract flow and the scenes agree on the game's order of scenes.
LEMMA SameDefault == Graph!DefaultNext = DefaultNext
BY DEF Graph!DefaultNext, DefaultNext

\* What may follow a scene is a scene.
LEMMA FollowType == ASSUME VarsOK
                    PROVE  /\ Graph!Follow(current, prev) \subseteq AllScenes \cup {NoScene}
                           /\ Jumps[current] \subseteq Graph!Follow(current, prev)
                           /\ Jumps[current] \subseteq AllScenes
                           /\ "loadend" \in Graph!Follow(current, prev)
                           /\ current = "booting" => "title" \in Graph!Follow(current, prev)
                           /\ current = "title" => "newgame" \in Graph!Follow(current, prev)
                           /\ current = "train" => "trainend" \in Graph!Follow(current, prev)
                           /\ current = "shop" => prev \in Graph!Follow(current, prev)
                           /\ NoScene \notin AllScenes
<1> USE DEF VarsOK, Graph!Follow, Graph!Rules, AllScenes
<1>1. Jumps[current] \subseteq AllScenes /\ NoScene \notin AllScenes
  BY SceneAssumption
<1>2. DOMAIN DefaultNext = {"newgame", "autosave", "trainend", "turnend", "loadend"}
  BY DEF DefaultNext
<1>3. \A s \in DOMAIN DefaultNext : DefaultNext[s] \in AllScenes
  BY DEF DefaultNext
<1>4. Graph!Rules(current) \subseteq AllScenes
  BY <1>3, SameDefault
<1>5. "loadend" \in AllScenes
  OBVIOUS
<1>6. Graph!Follow(current, prev) \subseteq AllScenes \cup {NoScene}
  BY <1>1, <1>4, <1>5
<1>7. /\ current = "booting" => "title" \in Graph!Rules(current)
      /\ current = "title" => "newgame" \in Graph!Rules(current)
      /\ current = "train" => "trainend" \in Graph!Rules(current)
  BY <1>2, SameDefault
<1> QED
  BY <1>1, <1>6, <1>7

\* The default of a scene is one of the scenes that may follow it.
LEMMA DefaultFollows == ASSUME current \in DOMAIN DefaultNext
                        PROVE  /\ DefaultNext[current] \in AllScenes
                               /\ DefaultNext[current] \in Graph!Follow(current, prev)
<1>1. DefaultNext[current] \in AllScenes
  BY DEF DefaultNext, AllScenes
<1>2. DOMAIN DefaultNext = {"newgame", "autosave", "trainend", "turnend", "loadend"}
  BY DEF DefaultNext
<1>3. current \in DOMAIN DefaultNext /\ current \notin {"booting", "title", "train"}
  BY <1>2
<1>4. Graph!Rules(current) = {DefaultNext[current]}
  BY <1>3, SameDefault DEF Graph!Rules
<1> QED
  BY <1>1, <1>4 DEF Graph!Follow

\* A call that runs: the flow is not over, and a scene's own frame is alone.
LEMMA Running == ASSUME IInv, pc # << >>
                 PROVE  /\ over = "no" /\ IsStack(pc) /\ Head(pc) \in Frame
                        /\ Head(pc).at \in SceneLabels \cup CallLabels /\ N \in Int
                        /\ (canTrain => current = "train" /\ Bottom(pc) \in CycleLabels)
                        /\ (Head(pc).at \in SceneLabels => Bottom(pc) = Head(pc).at /\ ~Trains(pc))
<1>1. over = "no" /\ IsStack(pc)
  BY DEF IInv
<1>2. Head(pc) \in Frame /\ Head(pc) = pc[1]
  BY <1>1, HeadOfStack
<1>3. Head(pc).at \in SceneLabels \cup CallLabels /\ N \in Int
  BY <1>2 DEF Frame, N
<1>4. canTrain => current = "train" /\ Bottom(pc) \in CycleLabels
  BY DEF IInv, InCycle, Bottom
<1>5. ASSUME Head(pc).at \in SceneLabels PROVE Bottom(pc) = Head(pc).at /\ ~Trains(pc)
  <2>1. Len(pc) = 1 /\ pc[1].at \in SceneLabels
    BY <1>1, <1>2, <1>5, HeadOfStack
  <2>2. Bottom(pc) = Head(pc).at
    BY <1>2, <2>1 DEF Bottom
  <2>3. "source" \notin SceneLabels /\ "cmdEnd" \notin SceneLabels
    BY DEF SceneLabels
  <2>4. ~Trains(pc)
    BY <2>1, <2>3 DEF Trains
  <2> QED
    BY <2>2, <2>4
<1> QED
  BY <1>1, <1>2, <1>3, <1>4, <1>5

\* The stack of a running flow.
LEMMA RunningStack == ASSUME IInv, pc # << >>
                      PROVE  StackOK(pc, canTrain) /\ canTrain \in BOOLEAN
BY Running DEF StackOK, IInv, VarsOK

\* The running call goes on at another place.
LEMMA GotoStack == ASSUME IInv, pc # << >>, NEW l, NEW n \in Int, OnTo(l), Goto(l, n)
                   PROVE  StackOK(pc', canTrain)
<1>1. IsStack(pc) /\ StackOK(pc, canTrain)
  BY RunningStack, Running
<1>2. F(l, n) \in Frame /\ F(l, n).at = l
  BY FrameType DEF OnTo
<1>3. pc' = << F(l, n) >> \o Tail(pc)
  BY DEF Goto, Become
<1>4. /\ IsStack(pc')
      /\ Bottom(pc') = IF Head(pc).at \in SceneLabels THEN l ELSE Bottom(pc)
      /\ Trains(pc') => Trains(pc) \/ l \in {"source", "cmdEnd"}
  BY <1>1, <1>2, <1>3, StackBecomes DEF OnTo
<1>5. canTrain => Bottom(pc') \in CycleLabels
  BY <1>1, <1>4, LabelsDiffer DEF OnTo, StackOK
<1> QED
  BY <1>1, <1>4, <1>5 DEF StackOK, OnTo

\* The running call makes another one and then goes on.
LEMMA CallStack == ASSUME IInv, pc # << >>, NEW l, NEW n \in Int, OnTo(l),
                          NEW f \in Frame, f.at \in CallLabels \ {"source", "cmdEnd"},
                          Become(<< f, F(l, n) >>)
                   PROVE  StackOK(pc', canTrain)
<1> DEFINE t == << F(l, n) >> \o Tail(pc)
<1>1. IsStack(pc) /\ StackOK(pc, canTrain) /\ Tail(pc) \in Seq(Frame)
  BY RunningStack, Running, HeadOfStack
<1>2. F(l, n) \in Frame /\ F(l, n).at = l
  BY FrameType DEF OnTo
<1>3. /\ IsStack(t)
      /\ Bottom(t) = IF Head(pc).at \in SceneLabels THEN l ELSE Bottom(pc)
      /\ Trains(t) => Trains(pc) \/ l \in {"source", "cmdEnd"}
  BY <1>1, <1>2, StackBecomes DEF OnTo
<1>4. pc' = << f >> \o t
  BY <1>1, <1>2 DEF Become
<1> HIDE DEF t
<1>5. IsStack(pc') /\ Bottom(pc') = Bottom(t) /\ (Trains(pc') => Trains(t))
  BY <1>3, <1>4, StackPushes
<1>6. canTrain => Bottom(pc') \in CycleLabels
  BY <1>1, <1>3, <1>5, LabelsDiffer DEF OnTo, StackOK
<1> QED
  BY <1>1, <1>3, <1>5, <1>6 DEF StackOK, OnTo

\* A script is called, or the function is missing.
LEMMA ScriptStack == ASSUME IInv, pc # << >>, NEW l, NEW n \in Int, OnTo(l), Call(l, n) \/ Optional(l, n)
                     PROVE  StackOK(pc', canTrain) /\ ans' \in BOOLEAN
<1>1. Script \in Frame /\ Script.at \in CallLabels \ {"source", "cmdEnd"}
  BY FrameType DEF Script, CallLabels, F
<1>2. ans \in BOOLEAN
  BY DEF IInv, VarsOK
<1>3. CASE Call(l, n)
  BY <1>1, <1>2, <1>3, CallStack DEF Call
<1>4. CASE Goto(l, n) /\ ans' = FALSE
  BY <1>4, GotoStack
<1> QED
  BY <1>3, <1>4 DEF Optional

\* A call returns.
LEMMA ReturnStack == ASSUME IInv, pc # << >>, Head(pc).at \in CallLabels, Return
                     PROVE  StackOK(pc', canTrain)
BY RunningStack, Running, StackReturns DEF StackOK, Return

\* Two elements are put on a sequence one after the other.
LEMMA TwoOnTop == ASSUME NEW S, NEW f \in S, NEW g \in S, NEW q \in Seq(S)
                  PROVE  << f, g >> \o q = << f >> \o (<< g >> \o q)
<1> DEFINE s == << f, g >> \o q
           t == << f >> \o (<< g >> \o q)
<1>1. << f, g >> \in Seq(S) /\ << f >> \in Seq(S) /\ << g >> \in Seq(S)
  OBVIOUS
<1>2. s \in Seq(S) /\ Len(s) = Len(q) + 2 /\ s[1] = f /\ s[2] = g /\ \A i \in 3 .. Len(q) + 2 : s[i] = q[i - 2]
  BY <1>1
<1>3. t \in Seq(S) /\ Len(t) = Len(q) + 2 /\ t[1] = f /\ t[2] = g /\ \A i \in 3 .. Len(q) + 2 : t[i] = q[i - 2]
  BY <1>1
<1> HIDE DEF s, t
<1>4. \A i \in 1 .. Len(s) : s[i] = t[i]
  BY <1>2, <1>3
<1>5. s = t
  BY <1>2, <1>3, <1>4, SeqEqual
<1> QED
  BY <1>5 DEF s, t

\* A script starts a flow: first the frame g of the function that it called, then f.
LEMMA PushStack == ASSUME IInv, pc # << >>, NEW f \in Frame, NEW g \in Frame,
                          {f.at, g.at} \subseteq CallLabels \ {"source", "cmdEnd"},
                          \/ pc' = << f >> \o pc
                          \/ pc' = << f, g >> \o pc
                   PROVE  StackOK(pc', canTrain)
<1>1. IsStack(pc) /\ StackOK(pc, canTrain) /\ pc \in Seq(Frame)
  BY RunningStack, Running, HeadOfStack
<1>2. CASE pc' = << f >> \o pc
  BY <1>1, <1>2, StackPushes DEF StackOK
<1>3. CASE pc' = << f, g >> \o pc
  <2> DEFINE t == << g >> \o pc
  <2>1. IsStack(t) /\ Bottom(t) = Bottom(pc) /\ (Trains(t) => Trains(pc))
    BY <1>1, StackPushes
  <2>2. pc' = << f >> \o t
    BY <1>1, <1>3, TwoOnTop
  <2> HIDE DEF t
  <2>3. IsStack(pc') /\ Bottom(pc') = Bottom(t) /\ (Trains(pc') => Trains(t))
    BY <2>1, <2>2, StackPushes
  <2> QED
    BY <1>1, <2>1, <2>3 DEF StackOK
<1> QED
  BY <1>2, <1>3

\* A step within a scene.
LEMMA WithinScene ==
  ASSUME IInv, pc # << >>, VarsOK', StackOK(pc', canTrain'),
         current' = current, prev' = prev, over' = over, Allowed(next'), Allowed(res'),
         canTrain' => current = "train"
  PROVE  Good
<1>1. over = "no"
  BY Running
<1>2. Allowed(next)' /\ Allowed(res)'
  BY DEF Allowed
<1>3. IsStack(pc') /\ pc' # << >>
  BY DEF IsStack, StackOK
<1>4. (canTrain => InCycle)'
  BY <1>3 DEF InCycle, Bottom, StackOK
<1>5. (Trains(pc) => canTrain)'
  BY DEF Trains, StackOK
<1>6. (over = "no" => IsStack(pc))' /\ (over # "no" => pc = << >>)' /\ over' # "notfound"
  BY <1>1, <1>3 DEF IsStack
<1>7. IInv'
  BY <1>2, <1>4, <1>5, <1>6 DEF IInv
<1>8. GraphStep
  BY DEF GraphStep
<1> QED
  BY <1>7, <1>8 DEF Good

\* A step that only moves the stack.
LEMMA QuietStep ==
  ASSUME IInv, pc # << >>, StackOK(pc', canTrain), ans' \in BOOLEAN,
         UNCHANGED << current, holder, res, trainVars, gameVars, over >>
  PROVE  Good
<1> USE DEF holder, trainVars, gameVars
<1>1. VarsOK'
  BY DEF IInv, VarsOK
<1>2. Allowed(next') /\ Allowed(res')
  BY DEF IInv
<1>3. canTrain' => current = "train"
  BY Running
<1> QED
  BY <1>1, <1>2, <1>3, WithinScene

\* The next scene starts.
LEMMA SwitchStep ==
  ASSUME IInv, pc # << >>, NEW s, Allowed(s), s # NoScene, Switch(s),
         ans' \in BOOLEAN, canTrain' = FALSE, ables' \in [Commands -> BOOLEAN], shown' \in BOOLEAN,
         data' \in Contents, saved' \in [Files -> Contents \cup {"absent", "torn"}]
  PROVE  Good
<1>1. over = "no" /\ over' = "no"
  BY Running DEF Switch
<1>2. s \in Graph!Follow(current, prev) \ {NoScene} /\ s \in AllScenes
  BY FollowType DEF Allowed, IInv
<1>3. current' = s /\ prev' = current /\ next' = NoScene /\ res' = NoScene /\ pc' = << F("enter", 0) >>
  BY DEF Switch
<1>4. F("enter", 0) \in Frame /\ F("enter", 0).at = "enter"
  BY FrameType DEF SceneLabels
<1>5. IsStack(pc') /\ ~Trains(pc')
  <2>1. Len(pc') = 1 /\ pc'[1] = F("enter", 0) /\ pc' \in Seq(Frame) /\ pc' # << >>
    BY <1>3, <1>4
  <2> QED
    BY <1>4, <2>1 DEF IsStack, Trains, SceneLabels
<1>6. VarsOK'
  <2>1. canTrain' \in BOOLEAN
    OBVIOUS
  <2> QED
    BY <1>1, <1>2, <1>3, <2>1 DEF IInv, VarsOK
<1>7. Allowed(next)' /\ Allowed(res)'
  BY <1>3 DEF Allowed
<1>8. IInv'
  BY <1>1, <1>5, <1>6, <1>7 DEF IInv, IsStack, Trains
<1>9. GraphStep
  BY <1>1, <1>2, <1>3 DEF GraphStep, Graph!Moves
<1> QED
  BY <1>8, <1>9 DEF Good

\* The flow ends, not for want of a scene.
LEMMA FinishStep ==
  ASSUME IInv, pc # << >>, NEW how \in {"quit", "error"}, Finish(how), next' = next \/ Allowed(next'),
         ans' \in BOOLEAN, canTrain' = FALSE, ables' \in [Commands -> BOOLEAN], shown' \in BOOLEAN,
         data' \in Contents, saved' \in [Files -> Contents \cup {"absent", "torn"}]
  PROVE  Good
<1>1. over = "no" /\ over' \in {"quit", "error"} /\ over' # "no"
  BY Running DEF Finish
<1>2. pc' = << >> /\ res' = NoScene /\ current' = current /\ prev' = prev
  BY DEF Finish
<1>3. Allowed(next') /\ Allowed(res')
  BY <1>2 DEF Allowed, IInv
<1>4. VarsOK'
  <2>1. canTrain' \in BOOLEAN
    OBVIOUS
  <2>2. next' \in AllScenes \cup {NoScene}
    BY <1>3, FollowType DEF Allowed, IInv
  <2> QED
    BY <1>1, <1>2, <2>1, <2>2 DEF IInv, VarsOK
<1>5. Allowed(next)' /\ Allowed(res)'
  BY <1>2, <1>3 DEF Allowed
<1>6. ~Trains(pc')
  BY <1>2 DEF Trains
<1>7. IInv'
  BY <1>1, <1>2, <1>4, <1>5, <1>6 DEF IInv, Trains
<1>8. GraphStep
  BY <1>1, <1>2 DEF GraphStep, Graph!Ends
<1> QED
  BY <1>7, <1>8 DEF Good

\* The scene returns with the next one.
LEMMA LeaveStep == ASSUME IInv, pc # << >>, NEW s, Allowed(s), s # NoScene, Leave(s)
                   PROVE  Good
<1>1. Switch(s) /\ canTrain' = FALSE
  BY DEF Leave
<1>2. /\ ans' \in BOOLEAN /\ ables' \in [Commands -> BOOLEAN] /\ shown' \in BOOLEAN
      /\ data' \in Contents /\ saved' \in [Files -> Contents \cup {"absent", "torn"}]
  BY DEF Leave, IInv, VarsOK
<1> QED
  BY <1>1, <1>2, SwitchStep

\* What an error does on its way to a script that catches it, or to SceneManager.Run.
LEMMA UnwindType == ASSUME NEW n, Unwind(n)
                    PROVE  ables' \in [Commands -> BOOLEAN]
BY DEF Unwind

\* An error that no script catches.
LEMMA UncaughtStep ==
  ASSUME IInv, pc # << >>, NEW k \in {"next", "quit", "error"}, NEW nx, Allowed(nx),
         k = "next" => nx # NoScene, Uncaught(k, nx), ans' \in BOOLEAN, shown' \in BOOLEAN,
         data' \in Contents, saved' \in [Files -> Contents \cup {"absent", "torn"}]
  PROVE  Good
<1>1. canTrain' = FALSE /\ ables' \in [Commands -> BOOLEAN]
  BY UnwindType DEF Uncaught
<1>2. CASE k = "next"
  <2>1. Switch(nx)
    BY <1>2 DEF Uncaught
  <2> QED
    BY <1>1, <1>2, <2>1, SwitchStep
<1>3. CASE k # "next"
  <2>1. Finish(k) /\ Allowed(next') /\ k \in {"quit", "error"}
    BY <1>3 DEF Uncaught
  <2> QED
    BY <1>1, <2>1, FinishStep
<1> QED
  BY <1>2, <1>3

\* An error, or a jump to the next scene.
LEMMA RaiseStep ==
  ASSUME IInv, pc # << >>, NEW k \in {"next", "quit", "error"}, NEW nx, Allowed(nx),
         k = "next" => nx # NoScene, Raise(k, nx),
         data' \in Contents, saved' \in [Files -> Contents \cup {"absent", "torn"}]
  PROVE  Good
<1>1. ans' \in BOOLEAN /\ shown' \in BOOLEAN
  BY DEF Raise, IInv, VarsOK
<1>2. CASE Uncaught(k, nx)
  BY <1>1, <1>2, UncaughtStep
<1>3. CASE Caught(k, nx)
  <2>1. PICK i \in Catchers(k) : pc' = SubSeq(pc, i, Len(pc)) /\ Unwind(i)
    BY <1>3 DEF Caught
  <2>2. IsStack(pc) /\ StackOK(pc, canTrain) /\ Len(pc) \in Nat
    BY RunningStack, Running, HeadOfStack
  <2>3. i \in 1 .. Len(pc)
    BY <2>1, <2>2 DEF Catchers
  <2>4. StackOK(pc', canTrain)
    BY <2>1, <2>2, <2>3, StackUnwinds DEF StackOK
  <2>5. ables' \in [Commands -> BOOLEAN]
    BY <2>1, UnwindType
  <2>6. next' = nx /\ nx \in AllScenes \cup {NoScene} /\ res' = NoScene
    BY <1>3, FollowType DEF Caught, Allowed, IInv
  <2>8. UNCHANGED << current, prev, canTrain, over >>
    BY <1>3 DEF Caught
  <2>9. VarsOK'
    BY <1>1, <2>5, <2>6, <2>8 DEF IInv, VarsOK
  <2>10. canTrain' => current = "train"
    BY <2>8, Running
  <2>11. Allowed(next') /\ Allowed(res')
    BY <2>6 DEF Allowed
  <2> QED
    BY <2>4, <2>8, <2>9, <2>10, <2>11, WithinScene
<1> QED
  BY <1>2, <1>3 DEF Raise
\* Where a call of the scene may go on.
LEMMA OnToScene == ASSUME IInv, pc # << >>, Head(pc).at \in SceneLabels, NEW l \in SceneLabels,
                          l \in CycleLabels \/ Head(pc).at \notin CycleLabels \/ current # "train"
                   PROVE  OnTo(l)
<1>1. l \notin {"source", "cmdEnd"}
  BY DEF SceneLabels
<1> QED
  BY <1>1, Running DEF OnTo

\* Where any other call may go on.
LEMMA OnToCall == ASSUME Head(pc).at \in CallLabels, NEW l \in CallLabels,
                         l \in {"source", "cmdEnd"} => canTrain
                  PROVE  OnTo(l)
BY LabelsDiffer DEF OnTo

\* The frames of the flows that scenes and scripts start, and of DoTrain.
LEMMA CallFrame == ASSUME NEW n \in Int,
                          NEW l \in {"saveEnter", "loadEnter", "nestedLoad", "trainsCheck", "trainsNext",
                                     "saveCall", "loadAsk", "doTrain"}
                   PROVE  F(l, n) \in Frame /\ F(l, n).at \in CallLabels \ {"source", "cmdEnd"}
<1>1. l \in CallLabels \ {"source", "cmdEnd"}
  BY DEF CallLabels
<1> QED
  BY <1>1, FrameType

\* A scene calls a script or not, and goes on at l.
LEMMA SceneAsks == ASSUME IInv, pc # << >>, Head(pc).at \in SceneLabels, NEW l \in SceneLabels,
                          l \in CycleLabels \/ Head(pc).at \notin CycleLabels \/ current # "train",
                          NEW n \in Int, Call(l, n) \/ Optional(l, n) \/ (Goto(l, n) /\ UNCHANGED ans)
                   PROVE  StackOK(pc', canTrain) /\ ans' \in BOOLEAN
<1>1. OnTo(l) /\ ans \in BOOLEAN
  BY OnToScene DEF IInv, VarsOK
<1> QED
  BY <1>1, GotoStack, ScriptStack

\* A call does.
LEMMA CallAsks == ASSUME IInv, pc # << >>, Head(pc).at \in CallLabels, NEW l \in CallLabels,
                         l \in {"source", "cmdEnd"} => canTrain,
                         NEW n \in Int, Call(l, n) \/ Optional(l, n) \/ (Goto(l, n) /\ UNCHANGED ans)
                  PROVE  StackOK(pc', canTrain) /\ ans' \in BOOLEAN
<1>1. OnTo(l) /\ ans \in BOOLEAN
  BY OnToCall DEF IInv, VarsOK
<1> QED
  BY <1>1, GotoStack, ScriptStack

\* A call returns and leaves the last answer alone.
LEMMA CallReturns == ASSUME IInv, pc # << >>, Head(pc).at \in CallLabels, Return, UNCHANGED ans
                     PROVE  StackOK(pc', canTrain) /\ ans' \in BOOLEAN
BY ReturnStack DEF IInv, VarsOK

-----------------------------------------------------------------------------
(***************************************************************************)
(* Every step keeps the invariant and is a step of the abstract flow.      *)
(***************************************************************************)
\* What a script does keeps the invariant.
LEMMA ScriptSteps == ASSUME IInv, Scripts PROVE Good
<1>1. /\ pc # << >> /\ Head(pc).at = "script" /\ "script" \in CallLabels
      /\ ans \in BOOLEAN /\ current \in AllScenes
  BY DEF Scripts, ScriptChooses, ScriptReturns, ScriptExits, ScriptSaves, ScriptLoads, ScriptTrains, At,
         CallLabels, IInv, VarsOK
<1>2. Jumps[current] \subseteq Graph!Follow(current, prev) /\ Jumps[current] \subseteq AllScenes
      /\ NoScene \notin AllScenes
  BY FollowType DEF IInv
<1>3. canTrain => current = "train"
  BY <1>1, Running
<1>4. CASE ScriptChooses
  <2>1. StackOK(pc', canTrain')
    BY <1>1, <1>4, RunningStack DEF ScriptChooses, trainVars
  <2>2. Allowed(next') /\ Allowed(res') /\ next' \in AllScenes
    BY <1>2, <1>4 DEF ScriptChooses, Allowed, IInv
  <2>3. VarsOK'
    BY <1>4, <2>2 DEF ScriptChooses, trainVars, gameVars, IInv, VarsOK
  <2> QED
    BY <1>1, <1>3, <1>4, <2>1, <2>2, <2>3, WithinScene DEF ScriptChooses, trainVars
<1>5. CASE ScriptReturns
  <2>1. StackOK(pc', canTrain)
    BY <1>1, <1>5, ReturnStack DEF ScriptReturns
  <2> QED
    BY <1>1, <1>5, <2>1, QuietStep DEF ScriptReturns
<1>6. CASE ScriptExits
  <2>1. /\ data' \in Contents /\ saved' \in [Files -> Contents \cup {"absent", "torn"}]
        /\ Allowed(next)
    BY <1>6 DEF ScriptExits, gameVars, IInv, VarsOK
  <2>2. CASE \E t \in Jumps[current] : Raise("next", t)
    <3>1. PICK t \in Jumps[current] : Raise("next", t)
      BY <2>2
    <3>2. Allowed(t) /\ t # NoScene
      BY <1>2 DEF Allowed
    <3> QED
      BY <1>1, <2>1, <3>1, <3>2, RaiseStep
  <2>3. CASE \E k \in {"quit", "error"} : Raise(k, next)
    BY <1>1, <2>1, <2>3, RaiseStep
  <2> QED
    BY <1>6, <2>2, <2>3 DEF ScriptExits
<1>7. CASE ScriptSaves
  <2>1. F("saveEnter", 0) \in Frame /\ F("saveEnter", 0).at \in CallLabels \ {"source", "cmdEnd"}
    BY CallFrame
  <2>2. StackOK(pc', canTrain)
    BY <1>1, <1>7, <2>1, PushStack DEF ScriptSaves
  <2> QED
    BY <1>1, <1>7, <2>2, QuietStep DEF ScriptSaves
<1>8. CASE ScriptLoads
  <2>1. /\ F("loadEnter", 0) \in Frame /\ F("loadEnter", 0).at \in CallLabels \ {"source", "cmdEnd"}
        /\ F("nestedLoad", 0) \in Frame /\ F("nestedLoad", 0).at \in CallLabels \ {"source", "cmdEnd"}
    BY CallFrame
  <2>2. StackOK(pc', canTrain)
    BY <1>1, <1>8, <2>1, PushStack DEF ScriptLoads
  <2> QED
    BY <1>1, <1>8, <2>2, QuietStep DEF ScriptLoads
<1>9. CASE ScriptTrains
  <2>1. PICK c \in Commands : pc' = << F("trainsCheck", c) >> \o pc
    BY <1>9 DEF ScriptTrains
  <2>2. F("trainsCheck", c) \in Frame /\ F("trainsCheck", c).at \in CallLabels \ {"source", "cmdEnd"}
    BY CallFrame, SceneAssumption
  <2>3. StackOK(pc', canTrain)
    BY <1>1, <2>1, <2>2, PushStack
  <2> QED
    BY <1>1, <1>9, <2>3, QuietStep DEF ScriptTrains
<1> QED
  BY <1>4, <1>5, <1>6, <1>7, <1>8, <1>9 DEF Scripts

\* What the player does moves the stack and changes the game.
LEMMA PlayStep ==
  ASSUME IInv, pc # << >>, StackOK(pc', canTrain), ans' \in BOOLEAN, Played,
         UNCHANGED << current, holder, res, trainVars, saved, over >>
  PROVE  Good
<1> USE DEF holder, trainVars
<1>1. data' \in Contents
  BY DEF Played, Contents, Begun, IInv, VarsOK
<1>2. VarsOK'
  BY <1>1 DEF IInv, VarsOK
<1>3. Allowed(next') /\ Allowed(res')
  BY DEF IInv
<1>4. canTrain' => current = "train"
  BY Running
<1> QED
  BY <1>2, <1>3, <1>4, WithinScene

\* What a scene does keeps the invariant.
LEMMA SceneSteps == ASSUME IInv, Scenes PROVE Good
<1>1. Allowed(next) /\ Allowed(res) /\ (pc # << >> /\ canTrain => current = "train") /\ ans \in BOOLEAN
  BY Running DEF IInv, VarsOK
<1>2. CASE Boots
  <2>1. /\ pc # << >> /\ Head(pc).at = "enter" /\ "enter" \in SceneLabels
        /\ "booted" \in SceneLabels
        /\ "enter" \notin CycleLabels
    BY <1>2 DEF Boots, At, SceneLabels, CycleLabels
  <2>2. StackOK(pc', canTrain) /\ ans' \in BOOLEAN
    BY <1>2, <2>1, SceneAsks DEF Boots
  <2> QED
    BY <1>2, <2>1, <2>2, QuietStep DEF Boots
<1>3. CASE Booted
  <2>1. pc # << >> /\ Allowed("title") /\ "title" # NoScene
    BY <1>3, FollowType DEF Booted, At, Allowed, IInv, AllScenes
  <2> QED
    BY <1>3, <2>1, LeaveStep DEF Booted
<1>4. CASE Enters
  <2>1. /\ pc # << >> /\ Head(pc).at = "enter" /\ "enter" \in SceneLabels
        /\ "replaced" \in SceneLabels /\ "body" \in SceneLabels
        /\ "enter" \notin CycleLabels
    BY <1>4 DEF Enters, At, SceneLabels, CycleLabels
  <2>2. StackOK(pc', canTrain) /\ ans' \in BOOLEAN
    BY <1>4, <2>1, SceneAsks DEF Enters
  <2> QED
    BY <1>4, <2>1, <2>2, QuietStep DEF Enters
<1>5. CASE Replaced
  <2>1. /\ pc # << >> /\ Head(pc).at = "replaced" /\ {"replaced", "body"} \subseteq SceneLabels \ CycleLabels
    BY <1>5 DEF Replaced, At, SceneLabels, CycleLabels
  <2>2. CASE next # NoScene /\ Leave(next)
    BY <1>1, <2>1, <2>2, LeaveStep
  <2>3. CASE next = NoScene /\ Goto("body", 0) /\ UNCHANGED << current, holder, ans, res, trainVars, gameVars, over >>
    <3>1. StackOK(pc', canTrain) /\ ans' \in BOOLEAN
      BY <2>1, <2>3, SceneAsks
    <3> QED
      BY <2>1, <2>3, <3>1, QuietStep
  <2> QED
    BY <1>5, <2>2, <2>3 DEF Replaced
<1>6. CASE Then
  <2>1. pc # << >> /\ current \in DOMAIN DefaultNext
    BY <1>6 DEF Then, At, Passes
  <2>2. Allowed(DefaultNext[current]) /\ DefaultNext[current] # NoScene
    BY <2>1, DefaultFollows, FollowType DEF Allowed, IInv
  <2>3. PICK t : t = (IF next # NoScene THEN next ELSE DefaultNext[current]) /\ Leave(t)
    BY <1>6 DEF Then
  <2>4. Allowed(t) /\ t # NoScene
    BY <1>1, <2>2, <2>3
  <2> QED
    BY <2>1, <2>3, <2>4, LeaveStep
<1>7. CASE NewGame
  <2>1. /\ pc # << >> /\ Head(pc).at = "body" /\ "body" \in SceneLabels
        /\ "then" \in SceneLabels
        /\ "body" \notin CycleLabels
    BY <1>7 DEF NewGame, At, SceneLabels, CycleLabels
  <2>2. StackOK(pc', canTrain) /\ ans' \in BOOLEAN
    BY <1>7, <2>1, SceneAsks DEF NewGame
  <2> QED
    BY <1>7, <2>1, <2>2, QuietStep DEF NewGame
<1>8. CASE NothingToDo
  <2>1. /\ pc # << >> /\ Head(pc).at = "body" /\ "body" \in SceneLabels
        /\ "then" \in SceneLabels
        /\ "body" \notin CycleLabels
    BY <1>8 DEF NothingToDo, At, SceneLabels, CycleLabels
  <2>2. StackOK(pc', canTrain) /\ ans' \in BOOLEAN
    BY <1>8, <2>1, SceneAsks DEF NothingToDo
  <2> QED
    BY <1>8, <2>1, <2>2, QuietStep DEF NothingToDo
<1>9. CASE AutoSave
  <2>1. /\ pc # << >> /\ Head(pc).at = "body" /\ {"body", "then"} \subseteq SceneLabels \ CycleLabels
    BY <1>9 DEF AutoSave, At, SceneLabels, CycleLabels
  <2>2. CASE Call("then", 0) \/ (Goto("then", 0) /\ UNCHANGED ans)
    <3>1. StackOK(pc', canTrain) /\ ans' \in BOOLEAN
      BY <2>1, <2>2, SceneAsks
    <3> QED
      BY <1>9, <2>1, <3>1, QuietStep DEF AutoSave
  <2>3. CASE Become(<< F("saveCall", AutoSlot), F("then", 0) >>) /\ UNCHANGED ans
    <3>1. OnTo("then")
      BY <2>1, OnToScene
    <3>2. F("saveCall", AutoSlot) \in Frame /\ F("saveCall", AutoSlot).at \in CallLabels \ {"source", "cmdEnd"}
      BY CallFrame DEF AutoSlot
    <3>3. StackOK(pc', canTrain)
      BY <2>1, <2>3, <3>1, <3>2, CallStack
    <3> QED
      BY <1>1, <1>9, <2>1, <2>3, <3>3, QuietStep DEF AutoSave
  <2> QED
    BY <1>9, <2>2, <2>3 DEF AutoSave
<1>10. CASE Begins
  <2>1. /\ pc # << >> /\ Head(pc).at = "body" /\ "body" \in SceneLabels
        /\ "loop" \in SceneLabels \cap CycleLabels /\ "loop" \notin {"source", "cmdEnd"}
    BY <1>10 DEF Begins, At, SceneLabels, CycleLabels
  <2>2. IsStack(pc) /\ ~Trains(pc)
    BY <2>1, Running
  <2>3. F("loop", 0) \in Frame /\ F("loop", 0).at = "loop" /\ pc' = << F("loop", 0) >> \o Tail(pc)
    BY <1>10, <2>1, FrameType DEF Begins, Goto, Become
  <2>4. IsStack(pc') /\ Bottom(pc') = "loop" /\ ~Trains(pc')
    BY <2>1, <2>2, <2>3, StackBecomes
  <2>5. StackOK(pc', canTrain')
    BY <2>1, <2>4 DEF StackOK
  <2>6. canTrain' = (current = "train") /\ canTrain' \in BOOLEAN
    BY <1>10 DEF Begins
  <2>7. VarsOK'
    BY <1>10, <2>6 DEF Begins, holder, gameVars, IInv, VarsOK
  <2> QED
    BY <1>1, <1>10, <2>1, <2>5, <2>6, <2>7, WithinScene DEF Begins, holder
<1>11. CASE LoopEnds
  BY <1>1, <1>11, LeaveStep DEF LoopEnds, At
<1>12. CASE Shows
  <2>1. /\ pc # << >> /\ Head(pc).at = "loop" /\ {"loop", "input", "check", "showMenu"} \subseteq SceneLabels
        /\ {"input", "check"} \subseteq CycleLabels
    BY <1>12 DEF Shows, At, SceneLabels, CycleLabels
  <2>2. \/ Optional("input", 0) \/ (Goto("input", 0) /\ UNCHANGED ans)
        \/ Optional("check", 0)
        \/ current # "train" /\ Optional("showMenu", 0)
    BY <1>12 DEF Shows
  <2>3. StackOK(pc', canTrain) /\ ans' \in BOOLEAN
    <3>1. CASE Optional("input", 0) \/ (Goto("input", 0) /\ UNCHANGED ans)
      BY <2>1, <3>1, SceneAsks
    <3>2. CASE Optional("check", 0)
      BY <2>1, <3>2, SceneAsks
    <3>3. CASE current # "train" /\ Optional("showMenu", 0)
      BY <2>1, <3>3, SceneAsks
    <3> QED
      BY <2>2, <3>1, <3>2, <3>3
  <2> QED
    BY <1>12, <2>1, <2>3, QuietStep DEF Shows
<1>13. CASE ShowsMore
  <2>1. /\ pc # << >> /\ Head(pc).at = "showMenu" /\ "showMenu" \in SceneLabels
        /\ "input" \in SceneLabels
        /\ "showMenu" \notin CycleLabels
    BY <1>13 DEF ShowsMore, At, SceneLabels, CycleLabels
  <2>2. StackOK(pc', canTrain) /\ ans' \in BOOLEAN
    BY <1>13, <2>1, SceneAsks DEF ShowsMore
  <2> QED
    BY <1>13, <2>1, <2>2, QuietStep DEF ShowsMore
<1>14. CASE Handled
  <2>1. /\ pc # << >> /\ Head(pc).at = "handled" /\ "handled" \in SceneLabels
        /\ {"loop", "input"} \subseteq SceneLabels \cap CycleLabels
    BY <1>14 DEF Handled, At, SceneLabels, CycleLabels
  <2>2. (Goto("loop", 0) \/ Goto("input", 0)) /\ UNCHANGED ans
    BY <1>14 DEF Handled
  <2>3. StackOK(pc', canTrain) /\ ans' \in BOOLEAN
    BY <2>1, <2>2, SceneAsks
  <2> QED
    BY <1>14, <2>1, <2>3, QuietStep DEF Handled
<1>15. CASE MenuInput
  <2>1. /\ pc # << >> /\ Head(pc).at = "input" /\ {"input", "handled"} \subseteq SceneLabels /\ current # "train"
    BY <1>15 DEF MenuInput, At, SceneLabels
  <2>2. StackOK(pc', canTrain) /\ ans' \in BOOLEAN
    BY <1>15, <2>1, SceneAsks DEF MenuInput
  <2> QED
    BY <1>1, <1>15, <2>1, <2>2, PlayStep DEF MenuInput
<1>16. CASE ShopInput
  <2>1. /\ pc # << >> /\ Head(pc).at = "input" /\ {"input", "shopInput"} \subseteq SceneLabels /\ current # "train"
    BY <1>16 DEF ShopInput, At, SceneLabels
  <2>2. PICK n \in {-1, 0} : Optional("shopInput", n)
    BY <1>16 DEF ShopInput
  <2>3. StackOK(pc', canTrain) /\ ans' \in BOOLEAN
    BY <2>1, <2>2, SceneAsks
  <2> QED
    BY <1>1, <1>16, <2>1, <2>3, PlayStep DEF ShopInput
<1>17. CASE ShopChoice
  <2>1. /\ pc # << >> /\ Head(pc).at = "shopInput" /\ current = "shop"
        /\ {"shopInput", "loop", "handled"} \subseteq SceneLabels
    BY <1>17 DEF ShopChoice, At, SceneLabels
  <2>2. /\ \/ Goto("loop", 0) /\ UNCHANGED ans
           \/ Optional("handled", 0)
        /\ next' \in {next, prev}
    BY <1>1, <1>17 DEF ShopChoice
  <2>3. StackOK(pc', canTrain) /\ ans' \in BOOLEAN
    BY <2>1, <2>2, SceneAsks
  <2>4. Allowed(next') /\ Allowed(res') /\ next' \in AllScenes \cup {NoScene}
    BY <1>1, <1>17, <2>1, <2>2, FollowType DEF Allowed, IInv, VarsOK, ShopChoice
  <2>5. VarsOK'
    BY <1>17, <2>3, <2>4 DEF ShopChoice, trainVars, gameVars, IInv, VarsOK
  <2> QED
    BY <1>1, <1>17, <2>1, <2>3, <2>4, <2>5, WithinScene DEF ShopChoice, trainVars
<1>18. CASE TitleNew
  <2>1. pc # << >> /\ Allowed("newgame") /\ "newgame" # NoScene /\ ~canTrain
    BY <1>1, <1>18, FollowType DEF TitleNew, At, Allowed, IInv, AllScenes
  <2>2. canTrain' = FALSE
    BY <1>18, <2>1 DEF TitleNew, trainVars, IInv, VarsOK
  <2>3. data' \in Contents
    BY <1>18 DEF TitleNew, Contents, Begun
  <2> QED
    BY <1>18, <2>1, <2>2, <2>3, SwitchStep DEF TitleNew, trainVars, IInv, VarsOK
<1>19. CASE TitleLoad
  <2>1. /\ pc # << >> /\ Head(pc).at = "input" /\ current # "train"
        /\ {"input", "titleReplaced", "titleLoad"} \subseteq SceneLabels
    BY <1>19 DEF TitleLoad, At, SceneLabels
  <2>2. StackOK(pc', canTrain) /\ ans' \in BOOLEAN
    <3>1. CASE Call("titleReplaced", 0)
      BY <2>1, <3>1, SceneAsks
    <3>2. CASE Become(<< F("loadAsk", 0), F("titleLoad", 0) >>) /\ UNCHANGED ans
      <4>1. OnTo("titleLoad")
        BY <2>1, OnToScene
      <4>2. F("loadAsk", 0) \in Frame /\ F("loadAsk", 0).at \in CallLabels \ {"source", "cmdEnd"}
        BY CallFrame
      <4> QED
        BY <1>1, <2>1, <3>2, <4>1, <4>2, CallStack
    <3> QED
      BY <1>19, <3>1, <3>2 DEF TitleLoad
  <2> QED
    BY <1>19, <2>1, <2>2, QuietStep DEF TitleLoad
<1>20. CASE TitleReplaced
  <2>1. /\ pc # << >> /\ Head(pc).at = "titleReplaced" /\ {"titleReplaced", "loop"} \subseteq SceneLabels
        /\ "loop" \in CycleLabels
    BY <1>20 DEF TitleReplaced, At, SceneLabels, CycleLabels
  <2>2. CASE next # NoScene /\ Leave(next)
    BY <1>1, <2>1, <2>2, LeaveStep
  <2>3. CASE next = NoScene /\ Goto("loop", 0) /\ UNCHANGED << current, holder, ans, res, trainVars, gameVars, over >>
    <3>1. StackOK(pc', canTrain) /\ ans' \in BOOLEAN
      BY <2>1, <2>3, SceneAsks
    <3> QED
      BY <2>1, <2>3, <3>1, QuietStep
  <2> QED
    BY <1>20, <2>2, <2>3 DEF TitleReplaced
<1>21. CASE TitleLoaded
  <2>1. /\ pc # << >> /\ Head(pc).at = "titleLoad" /\ {"titleLoad", "loop"} \subseteq SceneLabels
        /\ "loop" \in CycleLabels
    BY <1>21 DEF TitleLoaded, At, SceneLabels, CycleLabels
  <2>2. CASE res # NoScene /\ Leave(res)
    BY <1>1, <2>1, <2>2, LeaveStep
  <2>3. CASE res = NoScene /\ Goto("loop", 0) /\ UNCHANGED << current, holder, ans, res, trainVars, gameVars, over >>
    <3>1. StackOK(pc', canTrain) /\ ans' \in BOOLEAN
      BY <2>1, <2>3, SceneAsks
    <3> QED
      BY <2>1, <2>3, <3>1, QuietStep
  <2> QED
    BY <1>21, <2>2, <2>3 DEF TitleLoaded
<1>22. CASE TitleQuit
  <2>1. pc # << >> /\ Uncaught("quit", next)
    BY <1>22 DEF TitleQuit, At
  <2>2. /\ ans' \in BOOLEAN /\ shown' \in BOOLEAN /\ data' \in Contents
        /\ saved' \in [Files -> Contents \cup {"absent", "torn"}]
    BY <1>22 DEF TitleQuit, gameVars, IInv, VarsOK
  <2> QED
    BY <1>1, <2>1, <2>2, UncaughtStep
<1> QED
  BY <1>2, <1>3, <1>4, <1>5, <1>6, <1>7, <1>8, <1>9, <1>10, <1>11, <1>12, <1>13, <1>14, <1>15, <1>16,
     <1>17, <1>18, <1>19, <1>20, <1>21, <1>22 DEF Scenes

\* A step of the train scene that also changes which commands it takes as executable.
LEMMA TrainStep ==
  ASSUME IInv, pc # << >>, StackOK(pc', canTrain), ans' \in BOOLEAN,
         ables' \in [Commands -> BOOLEAN], shown' \in BOOLEAN,
         UNCHANGED << current, holder, res, canTrain, gameVars, over >>
  PROVE  Good
<1> USE DEF holder, gameVars
<1>1. VarsOK'
  BY DEF IInv, VarsOK
<1>2. Allowed(next') /\ Allowed(res')
  BY DEF IInv
<1>3. canTrain' => current = "train"
  BY Running
<1> QED
  BY <1>1, <1>2, <1>3, WithinScene

\* A command is executable or not.
LEMMA SetAbleType == ASSUME IInv, NEW n, NEW b \in BOOLEAN, SetAble(n, b)
                     PROVE  ables' \in [Commands -> BOOLEAN]
BY DEF SetAble, IInv, VarsOK

\* What the train scene does keeps the invariant.
LEMMA TrainSteps == ASSUME IInv, Train PROVE Good
<1>1. /\ Allowed(next) /\ Allowed(res) /\ ans \in BOOLEAN
      /\ ables \in [Commands -> BOOLEAN] /\ shown \in BOOLEAN
  BY DEF IInv, VarsOK
<1>2. pc # << >> => N \in Int /\ N + 1 \in Int /\ (canTrain => current = "train")
  BY Running
<1>3. (N \notin Unnamed) \in BOOLEAN
  OBVIOUS
<1>4. CASE CheckCommand
  <2>1. /\ pc # << >> /\ Head(pc).at = "check" /\ {"check", "checked"} \subseteq SceneLabels \cap CycleLabels
    BY <1>4 DEF CheckCommand, At, SceneLabels, CycleLabels
  <2>2. CASE Call("checked", N) /\ UNCHANGED ables
    <3>1. StackOK(pc', canTrain) /\ ans' \in BOOLEAN
      BY <1>2, <2>1, <2>2, SceneAsks
    <3> QED
      BY <1>1, <1>4, <2>1, <2>2, <3>1, TrainStep DEF CheckCommand
  <2>3. CASE Goto("check", N + 1) /\ SetAble(N, N \notin Unnamed) /\ UNCHANGED ans
    <3>1. StackOK(pc', canTrain) /\ ans' \in BOOLEAN
      BY <1>2, <2>1, <2>3, SceneAsks
    <3>2. ables' \in [Commands -> BOOLEAN]
      BY <1>3, <2>3, SetAbleType
    <3> QED
      BY <1>1, <1>4, <2>1, <3>1, <3>2, TrainStep DEF CheckCommand
  <2> QED
    BY <1>4, <2>2, <2>3 DEF CheckCommand
<1>5. CASE Checked
  <2>1. /\ pc # << >> /\ Head(pc).at = "checked" /\ {"check", "checked"} \subseteq SceneLabels \cap CycleLabels
    BY <1>5 DEF Checked, At, SceneLabels, CycleLabels
  <2>2. StackOK(pc', canTrain) /\ ans' \in BOOLEAN
    BY <1>2, <1>5, <2>1, SceneAsks DEF Checked
  <2>3. ables' \in [Commands -> BOOLEAN]
    BY <1>1, <1>5, SetAbleType DEF Checked
  <2> QED
    BY <1>1, <1>5, <2>1, <2>2, <2>3, TrainStep DEF Checked
<1>6. CASE ShowsCommands
  <2>1. /\ pc # << >> /\ Head(pc).at = "check"
        /\ {"check", "shownOther", "input"} \subseteq SceneLabels \cap CycleLabels
    BY <1>6 DEF ShowsCommands, At, SceneLabels, CycleLabels
  <2>2. /\ Call("shownOther", 0) \/ (Goto("input", 0) /\ UNCHANGED ans)
        /\ shown' \in {shown, FALSE}
    BY <1>6 DEF ShowsCommands
  <2>3. StackOK(pc', canTrain) /\ ans' \in BOOLEAN
    <3>1. CASE Call("shownOther", 0)
      BY <2>1, <3>1, SceneAsks
    <3>2. CASE Goto("input", 0) /\ UNCHANGED ans
      BY <2>1, <3>2, SceneAsks
    <3> QED
      BY <2>2, <3>1, <3>2
  <2>4. shown' \in BOOLEAN
    BY <1>1, <2>2
  <2> QED
    BY <1>1, <1>6, <2>1, <2>3, <2>4, TrainStep DEF ShowsCommands
<1>7. CASE ShownOther
  <2>1. /\ pc # << >> /\ Head(pc).at = "shownOther" /\ {"shownOther", "input"} \subseteq SceneLabels \cap CycleLabels
    BY <1>7 DEF ShownOther, At, SceneLabels, CycleLabels
  <2>2. StackOK(pc', canTrain) /\ ans' \in BOOLEAN
    BY <1>7, <2>1, SceneAsks DEF ShownOther
  <2>3. shown' \in BOOLEAN
    BY <1>7 DEF ShownOther
  <2> QED
    BY <1>1, <1>7, <2>1, <2>2, <2>3, TrainStep DEF ShownOther
<1>8. CASE TrainInput
  <2>1. /\ pc # << >> /\ Head(pc).at = "input" /\ {"input", "loop"} \subseteq SceneLabels \cap CycleLabels
    BY <1>8 DEF TrainInput, At, SceneLabels, CycleLabels
  <2>2. PICK n \in Commands \cup {-1} : Become(<< F("doTrain", n), F("loop", 0) >>)
    BY <1>8 DEF TrainInput
  <2>3. OnTo("loop")
    BY <2>1, OnToScene
  <2>4. F("doTrain", n) \in Frame /\ F("doTrain", n).at \in CallLabels \ {"source", "cmdEnd"}
    BY CallFrame, SceneAssumption
  <2>5. StackOK(pc', canTrain)
    BY <2>1, <2>2, <2>3, <2>4, CallStack
  <2> QED
    BY <1>1, <1>8, <2>1, <2>5, PlayStep DEF TrainInput
<1>9. CASE DoTrain
  <2>1. /\ pc # << >> /\ Head(pc).at = "doTrain" /\ {"doTrain", "source"} \subseteq CallLabels /\ canTrain
    BY <1>9 DEF DoTrain, At, CallLabels
  <2>2. CASE Optional("source", N) /\ UNCHANGED next
    <3>1. StackOK(pc', canTrain) /\ ans' \in BOOLEAN
      BY <1>2, <2>1, <2>2, CallAsks
    <3> QED
      BY <1>9, <2>1, <2>2, <3>1, QuietStep DEF DoTrain, holder
  <2>3. CASE Return /\ next' = (IF N = -1 THEN "trainend" ELSE next) /\ UNCHANGED ans
    <3>1. StackOK(pc', canTrain) /\ ans' \in BOOLEAN
      BY <2>1, <2>3, CallReturns
    <3>2. Allowed("trainend")
      BY <1>2, <2>1, FollowType DEF Allowed, IInv
    <3>3. Allowed(next') /\ Allowed(res') /\ next' \in AllScenes \cup {NoScene}
      BY <1>1, <1>9, <2>3, <3>2, FollowType DEF DoTrain, Allowed, IInv
    <3>4. VarsOK'
      BY <1>9, <3>1, <3>3 DEF DoTrain, trainVars, gameVars, IInv, VarsOK
    <3> QED
      BY <1>2, <1>9, <2>1, <3>1, <3>3, <3>4, WithinScene DEF DoTrain, trainVars
  <2> QED
    BY <1>9, <2>2, <2>3 DEF DoTrain
<1>10. CASE DoTrainRefused
  <2>1. /\ pc # << >> /\ Raise("error", next)
        /\ data' \in Contents /\ saved' \in [Files -> Contents \cup {"absent", "torn"}]
    BY <1>10 DEF DoTrainRefused, At, gameVars, IInv, VarsOK
  <2> QED
    BY <1>1, <2>1, RaiseStep
<1>11. CASE Source
  <2>1. /\ pc # << >> /\ Head(pc).at = "source" /\ {"source", "cmdEnd"} \subseteq CallLabels
    BY <1>11 DEF Source, At, CallLabels
  <2>2. canTrain
    <3>1. IsStack(pc) /\ Head(pc) = pc[1] /\ Len(pc) \in Nat \ {0}
      BY <2>1, Running, HeadOfStack
    <3>2. 1 \in 1 .. Len(pc)
      BY <3>1
    <3>3. Trains(pc)
      BY <2>1, <3>1, <3>2 DEF Trains
    <3> QED
      BY <3>3 DEF IInv
  <2>3. CASE Optional("cmdEnd", N)
    <3>1. StackOK(pc', canTrain) /\ ans' \in BOOLEAN
      BY <1>2, <2>1, <2>2, <2>3, CallAsks
    <3> QED
      BY <1>11, <2>1, <3>1, QuietStep DEF Source
  <2>4. CASE Return /\ UNCHANGED ans
    <3>1. StackOK(pc', canTrain) /\ ans' \in BOOLEAN
      BY <2>1, <2>4, CallReturns
    <3> QED
      BY <1>11, <2>1, <3>1, QuietStep DEF Source
  <2> QED
    BY <1>11, <2>3, <2>4 DEF Source
<1>12. CASE CmdEnd
  <2>1. /\ pc # << >> /\ Head(pc).at = "cmdEnd" /\ {"cmdEnd", "script"} \subseteq CallLabels
    BY <1>12 DEF CmdEnd, At, CallLabels
  <2>2. StackOK(pc', canTrain)
    <3>1. CASE Become(<< Script >>)
      <4>1. Goto("script", 0) /\ OnTo("script")
        BY <2>1, <3>1, OnToCall DEF Goto, Script
      <4> QED
        BY <2>1, <4>1, GotoStack
    <3>2. CASE Return
      BY <2>1, <3>2, ReturnStack
    <3> QED
      BY <1>12, <3>1, <3>2 DEF CmdEnd
  <2> QED
    BY <1>1, <1>12, <2>1, <2>2, QuietStep DEF CmdEnd
<1>13. ASSUME Become(<< F("doTrain", N), F("trainsNext", 0) >>), pc # << >>, Head(pc).at \in CallLabels
       PROVE  StackOK(pc', canTrain)
  <2>1. "trainsNext" \in CallLabels
    BY DEF CallLabels
  <2>2. OnTo("trainsNext")
    BY <1>13, <2>1, OnToCall
  <2>3. F("doTrain", N) \in Frame /\ F("doTrain", N).at \in CallLabels \ {"source", "cmdEnd"}
    BY <1>2, <1>13, CallFrame
  <2> QED
    BY <1>13, <2>2, <2>3, CallStack
<1>14. CASE TrainsCheck
  <2>1. /\ pc # << >> /\ Head(pc).at = "trainsCheck" /\ {"trainsCheck", "trainsChecked"} \subseteq CallLabels
    BY <1>14 DEF TrainsCheck, At, CallLabels
  <2>2. CASE Call("trainsChecked", N) /\ UNCHANGED ables
    <3>1. StackOK(pc', canTrain) /\ ans' \in BOOLEAN
      BY <1>2, <2>1, <2>2, CallAsks
    <3> QED
      BY <1>1, <1>14, <2>1, <2>2, <3>1, TrainStep DEF TrainsCheck
  <2>3. CASE /\ Become(<< F("doTrain", N), F("trainsNext", 0) >>)
             /\ SetAble(N, N \notin Unnamed) /\ UNCHANGED ans
    <3>1. StackOK(pc', canTrain)
      BY <1>13, <2>1, <2>3
    <3>2. ables' \in [Commands -> BOOLEAN]
      BY <1>3, <2>3, SetAbleType
    <3> QED
      BY <1>1, <1>14, <2>1, <2>3, <3>1, <3>2, TrainStep DEF TrainsCheck
  <2> QED
    BY <1>14, <2>2, <2>3 DEF TrainsCheck
<1>15. CASE TrainsChecked
  <2>1. /\ pc # << >> /\ Head(pc).at = "trainsChecked" /\ "trainsChecked" \in CallLabels
    BY <1>15 DEF TrainsChecked, At, CallLabels
  <2>2. StackOK(pc', canTrain)
    BY <1>13, <1>15, <2>1 DEF TrainsChecked
  <2>3. ables' \in [Commands -> BOOLEAN]
    BY <1>1, <1>15, SetAbleType DEF TrainsChecked
  <2> QED
    BY <1>1, <1>15, <2>1, <2>2, <2>3, TrainStep DEF TrainsChecked
<1>16. CASE TrainsNext
  <2>1. /\ pc # << >> /\ Head(pc).at = "trainsNext" /\ {"trainsNext", "trainsCheck"} \subseteq CallLabels
    BY <1>16 DEF TrainsNext, At, CallLabels
  <2>2. StackOK(pc', canTrain)
    <3>1. CASE Return
      BY <2>1, <3>1, ReturnStack
    <3>2. CASE \E c \in Commands : Goto("trainsCheck", c)
      <4>1. PICK c \in Commands : Goto("trainsCheck", c)
        BY <3>2
      <4>2. c \in Int /\ OnTo("trainsCheck")
        BY <2>1, OnToCall, SceneAssumption
      <4> QED
        BY <2>1, <4>1, <4>2, GotoStack
    <3> QED
      BY <1>16, <3>1, <3>2 DEF TrainsNext
  <2> QED
    BY <1>1, <1>16, <2>1, <2>2, QuietStep DEF TrainsNext
<1> QED
  BY <1>4, <1>5, <1>6, <1>7, <1>8, <1>9, <1>10, <1>11, <1>12, <1>14, <1>15, <1>16 DEF Train

\* What the save and load scenes do keeps the invariant.
LEMMA SaveLoadSteps == ASSUME IInv, SaveLoad PROVE Good
<1>1. /\ Allowed(next) /\ Allowed(res) /\ ans \in BOOLEAN
      /\ data \in Contents /\ saved \in [Files -> Contents \cup {"absent", "torn"}]
  BY DEF IInv, VarsOK
<1>2. pc # << >> => N \in Int /\ (canTrain => current = "train") /\ StackOK(pc, canTrain)
  BY Running, RunningStack
<1>3. CASE SaveEnters
  <2>1. /\ pc # << >> /\ Head(pc).at = "saveEnter" /\ "saveEnter" \in CallLabels
        /\ "saveReplaced" \in CallLabels /\ "saveAsk" \in CallLabels
    BY <1>3 DEF SaveEnters, At, CallLabels
  <2>2. StackOK(pc', canTrain) /\ ans' \in BOOLEAN
    BY <1>3, <2>1, CallAsks DEF SaveEnters
  <2> QED
    BY <1>3, <2>1, <2>2, QuietStep DEF SaveEnters
<1>4. CASE SaveReplaced
  <2>1. /\ pc # << >> /\ Head(pc).at = "saveReplaced" /\ {"saveReplaced", "saveAsk"} \subseteq CallLabels
        /\ "saveAsk" \notin {"source", "cmdEnd"}
    BY <1>4 DEF SaveReplaced, At, CallLabels
  <2>2. (Return \/ Goto("saveAsk", 0)) /\ UNCHANGED ans
    BY <1>4 DEF SaveReplaced
  <2>3. StackOK(pc', canTrain) /\ ans' \in BOOLEAN
    BY <2>1, <2>2, CallReturns, CallAsks
  <2> QED
    BY <1>4, <2>1, <2>3, QuietStep DEF SaveReplaced
<1>5. CASE SaveAsk
  <2>1. /\ pc # << >> /\ Head(pc).at = "saveAsk" /\ {"saveAsk", "saveCall"} \subseteq CallLabels
    BY <1>5 DEF SaveAsk, At, CallLabels
  <2>2. StackOK(pc', canTrain)
    <3>1. CASE Return
      BY <2>1, <3>1, ReturnStack
    <3>2. CASE \E f \in Slots : Goto("saveCall", f)
      <4>1. PICK f \in Slots : Goto("saveCall", f)
        BY <3>2
      <4>2. f \in Int /\ OnTo("saveCall")
        BY <2>1, OnToCall, SceneAssumption
      <4> QED
        BY <2>1, <4>1, <4>2, GotoStack
    <3> QED
      BY <1>5, <3>1, <3>2 DEF SaveAsk
  <2> QED
    BY <1>1, <1>5, <2>1, <2>2, QuietStep DEF SaveAsk
<1>6. CASE SaveCalls
  <2>1. /\ pc # << >> /\ Head(pc).at = "saveCall" /\ {"saveCall", "write"} \subseteq CallLabels
    BY <1>6 DEF SaveCalls, At, CallLabels
  <2>2. StackOK(pc', canTrain) /\ ans' \in BOOLEAN
    BY <1>2, <1>6, <2>1, CallAsks DEF SaveCalls
  <2> QED
    BY <1>6, <2>1, <2>2, QuietStep DEF SaveCalls
<1>7. CASE Writes
  <2>1. /\ pc # << >> /\ Head(pc).at = "write" /\ "write" \in CallLabels /\ data' = data
    BY <1>7 DEF Writes, At, CallLabels
  <2>2. saved' \in [Files -> Contents \cup {"absent", "torn"}]
    BY <1>1, <1>7 DEF Writes
  <2>3. CASE /\ saved' = [saved EXCEPT ![N] = data] /\ Return
             /\ UNCHANGED << current, holder, ans, res, trainVars, over >>
    <3>1. StackOK(pc', canTrain) /\ ans' \in BOOLEAN
      BY <2>1, <2>3, CallReturns
    <3>2. VarsOK'
      BY <2>1, <2>2, <2>3 DEF holder, trainVars, IInv, VarsOK
    <3> QED
      BY <1>1, <1>2, <2>1, <2>3, <3>1, <3>2, WithinScene DEF holder, trainVars
  <2>4. CASE Raise("error", next)
    BY <1>1, <2>1, <2>2, <2>4, RaiseStep
  <2> QED
    BY <1>7, <2>3, <2>4 DEF Writes
<1>8. CASE LoadEnters
  <2>1. /\ pc # << >> /\ Head(pc).at = "loadEnter" /\ "loadEnter" \in CallLabels
        /\ "loadReplaced" \in CallLabels /\ "loadAsk" \in CallLabels
    BY <1>8 DEF LoadEnters, At, CallLabels
  <2>2. StackOK(pc', canTrain) /\ ans' \in BOOLEAN
    BY <1>8, <2>1, CallAsks DEF LoadEnters
  <2> QED
    BY <1>8, <2>1, <2>2, QuietStep DEF LoadEnters
<1>9. ASSUME pc # << >>, StackOK(pc', canTrain), Allowed(res'), ans' \in BOOLEAN, data' \in Contents, saved' = saved,
             UNCHANGED << current, holder, trainVars, over >>
      PROVE  Good
  <2>1. res' \in AllScenes \cup {NoScene}
    BY <1>9, FollowType DEF Allowed, IInv
  <2>2. VarsOK'
    BY <1>9, <2>1 DEF holder, trainVars, IInv, VarsOK
  <2> QED
    BY <1>1, <1>2, <1>9, <2>2, WithinScene DEF holder, trainVars
<1>10. CASE LoadReplaced
  <2>1. /\ pc # << >> /\ Head(pc).at = "loadReplaced" /\ {"loadReplaced", "loadAsk"} \subseteq CallLabels
        /\ "loadAsk" \notin {"source", "cmdEnd"}
    BY <1>10 DEF LoadReplaced, At, CallLabels
  <2>2. (Return \/ Goto("loadAsk", 0)) /\ UNCHANGED ans /\ res' \in {next, res}
    BY <1>10 DEF LoadReplaced
  <2>3. StackOK(pc', canTrain) /\ ans' \in BOOLEAN
    BY <2>1, <2>2, CallReturns, CallAsks
  <2> QED
    BY <1>1, <1>9, <1>10, <2>1, <2>2, <2>3 DEF LoadReplaced, gameVars
<1>11. CASE LoadAsk
  <2>1. /\ pc # << >> /\ Head(pc).at = "loadAsk" /\ "loadAsk" \in CallLabels /\ saved' = saved
    BY <1>11 DEF LoadAsk, At, CallLabels
  <2>2. Allowed("loadend") /\ Allowed(NoScene)
    BY FollowType DEF Allowed, IInv
  <2>3. CASE /\ Return /\ res' \in {NoScene, "loadend"} /\ data' \in Contents
             /\ UNCHANGED << current, holder, ans, trainVars, over >>
    <3>1. StackOK(pc', canTrain) /\ ans' \in BOOLEAN
      BY <2>1, <2>3, CallReturns
    <3> QED
      BY <1>9, <2>1, <2>2, <2>3, <3>1
  <2>4. CASE data' \in {data, "mixed"} /\ Raise("error", next)
    <3>1. data' \in Contents /\ saved' \in [Files -> Contents \cup {"absent", "torn"}]
      BY <1>1, <2>1, <2>4 DEF Contents
    <3> QED
      BY <1>1, <2>1, <2>4, <3>1, RaiseStep
  <2>5. ASSUME NEW f \in Files, saved[f] \notin {"absent", "torn"}
        PROVE  (IF saved[f] \in Begun THEN "loaded" ELSE saved[f]) \in Contents
    BY <1>1, <2>5 DEF Contents, Begun
  <2> QED
    BY <1>1, <1>11, <2>3, <2>4, <2>5 DEF LoadAsk
<1>12. CASE NestedLoaded
  <2>1. /\ pc # << >> /\ Head(pc).at = "nestedLoad" /\ "nestedLoad" \in CallLabels /\ UNCHANGED gameVars
    BY <1>12 DEF NestedLoaded, At, CallLabels
  <2>2. CASE /\ Return
             /\ UNCHANGED << current, holder, ans, res, trainVars, over >>
    <3>1. StackOK(pc', canTrain) /\ ans' \in BOOLEAN
      BY <2>1, <2>2, CallReturns
    <3> QED
      BY <2>1, <2>2, <3>1, QuietStep
  <2>3. CASE res # NoScene /\ Raise("next", res)
    <3>1. data' \in Contents /\ saved' \in [Files -> Contents \cup {"absent", "torn"}]
      BY <1>1, <2>1 DEF gameVars
    <3> QED
      BY <1>1, <2>1, <2>3, <3>1, RaiseStep
  <2> QED
    BY <1>12, <2>2, <2>3 DEF NestedLoaded
<1> QED
  BY <1>3, <1>4, <1>5, <1>6, <1>7, <1>8, <1>10, <1>11, <1>12 DEF SaveLoad

\* The user interface goes away.
LEMMA UIGoneStep == ASSUME IInv, UIGone PROVE Good
<1>1. pc # << >> /\ Raise("error", next) /\ Allowed(next)
  BY DEF UIGone, At, IInv
<1>2. data' \in Contents /\ saved' \in [Files -> Contents \cup {"absent", "torn"}]
  BY DEF UIGone, gameVars, IInv, VarsOK
<1> QED
  BY <1>1, <1>2, RaiseStep

\* Every step of the flow, or none.
LEMMA Inductive == ASSUME IInv, [Next]_vars PROVE Good
<1>1. CASE Next
  BY <1>1, ScriptSteps, SceneSteps, TrainSteps, SaveLoadSteps, UIGoneStep DEF Next
<1>2. CASE UNCHANGED vars
  <2>1. IInv'
    BY <1>2 DEF vars, IInv, VarsOK, Allowed, InCycle, Trains, IsStack
  <2>2. GraphStep
    BY <1>2 DEF vars, GraphStep
  <2> QED
    BY <2>1, <2>2 DEF Good
<1> QED
  BY <1>1, <1>2

\* The program starts in the boot scene.
LEMMA InitHolds == Init => IInv /\ Graph!Init
<1> SUFFICES ASSUME Init PROVE IInv /\ Graph!Init
  OBVIOUS
<1>1. VarsOK
  <2>1. ables \in [Commands -> BOOLEAN]
    BY DEF Init
  <2>2. saved \in [Files -> Contents \cup {"absent", "torn"}]
    BY DEF Init
  <2> QED
    BY <2>1, <2>2 DEF Init, VarsOK, AllScenes, Contents
<1>2. pc = << F("enter", 0) >> /\ F("enter", 0) \in Frame /\ F("enter", 0).at = "enter"
  BY FrameType DEF Init, SceneLabels
<1>3. IsStack(pc) /\ ~Trains(pc)
  <2>1. Len(pc) = 1 /\ pc[1] = F("enter", 0) /\ pc \in Seq(Frame) /\ pc # << >>
    BY <1>2
  <2> QED
    BY <1>2, <2>1 DEF IsStack, Trains, SceneLabels
<1>4. IInv
  BY <1>1, <1>3 DEF IInv, Init, Allowed
<1>5. Graph!Init
  BY DEF Init, Graph!Init
<1> QED
  BY <1>4, <1>5

-----------------------------------------------------------------------------
\* The invariant holds in every state.
LEMMA Invariant == Spec => []IInv
<1>1. IInv /\ [Next]_vars => IInv'
  BY Inductive DEF Good
<1> QED
  BY <1>1, InitHolds, PTL DEF Spec

\* Every variable keeps its type: the stack holds known calls, and only registered
\* scenes run, have run or are chosen (scene_manager.go, scene.go).
THEOREM TypeCorrect == Spec => []TypeOK
<1>1. IInv => TypeOK
  <2> SUFFICES ASSUME IInv PROVE TypeOK
    OBVIOUS
  <2>1. pc \in Seq(Frame)
    <3>1. CASE over = "no"
      BY <3>1 DEF IInv, IsStack
    <3>2. CASE over # "no"
      BY <3>2 DEF IInv
    <3> QED
      BY <3>1, <3>2
  <2> QED
    BY <2>1 DEF IInv, VarsOK, TypeOK
<1> QED
  BY <1>1, Invariant, PTL

\* The flow never ends for want of a next scene (scene_manager.go:79, :95), for any
\* scripts and however deep they nest its functions.
THEOREM FlowNeverLost == Spec => []FlowGoesOn
<1>1. IInv => FlowGoesOn
  BY DEF IInv, FlowGoesOn
<1> QED
  BY <1>1, Invariant, PTL

\* A train command runs only inside a cycle of the train scene
\* (scene_train_ablup.go, errorExternalDoTrainNotAllowed), for any number of commands.
THEOREM TrainsOnlyInCycle == Spec => []TrainsInCycleOnly
<1>1. IInv => TrainsInCycleOnly
  <2> SUFFICES ASSUME IInv, NEW i \in DOMAIN pc, pc[i].at \in {"source", "cmdEnd"} PROVE InCycle
    BY DEF TrainsInCycleOnly
  <2>1. over = "no" /\ IsStack(pc)
    BY DEF IInv
  <2>2. DOMAIN pc = 1 .. Len(pc)
    BY <2>1 DEF IsStack
  <2> QED
    BY <2>2 DEF IInv, Trains
<1> QED
  BY <1>1, Invariant, PTL

\* The flow of the scenes implements SceneGraph: a scene is only followed by one that
\* the rules or the scripts name for it, by loadend, or by where the shop was entered from.
THEOREM FollowsGraph == Spec => FollowsTheGraph
<1>1. IInv /\ [Next]_vars => GraphStep
  BY Inductive DEF Good
<1> QED
  BY <1>1, InitHolds, Invariant, PTL DEF Spec, FollowsTheGraph, Graph!Spec, GraphStep

-----------------------------------------------------------------------------
(***************************************************************************)
(* What may run and what may come next.  The first frame of a scene is     *)
(* alone on its stack, the calls of a save run only where the scripts save *)
(* or the game saves by itself, and every scene that was chosen came from  *)
(* the scripts, the rules or a load.                                       *)
(***************************************************************************)
SaveLabels == { "saveEnter", "saveReplaced", "saveAsk", "saveCall", "write" }

\* the calls that may run in scene c after its first step
MayRun(c) == (SceneLabels \cup CallLabels)
               \ ({"enter"} \cup IF "save" \notin FlowCalls[c] /\ c # "autosave" THEN SaveLabels ELSE {})
RunsIn(c) == { f \in Frame : f.at \in MayRun(c) }

StackIs == pc = << F("enter", 0) >> \/ pc \in Seq(RunsIn(current))

\* the scenes that follow s when the scripts or the rules say so and the player does nothing
Onward(s) == Jumps[s] \cup IF s = "train" THEN {} ELSE Graph!Rules(s) \ {"newgame"}

\* the scenes that are chosen, or may be chosen from here without a new game or a load:
\* the player's way back leads from the shop to the scene before it, from a training to its end
BackFromShop == current = "shop" /\ At("shopInput")
BackFromTrain == current = "train" /\ At("doTrain") /\ N = -1
Chosen == {next, res, NoScene} \cup Onward(current)
            \cup {p \in {prev} : BackFromShop} \cup {t \in {"trainend"} : BackFromTrain}

\* the game is loaded from a file
LoadsFrom(f) == /\ saved[f] \notin {"absent", "torn"}
                /\ data' = (IF saved[f] \in Begun THEN "loaded" ELSE saved[f])

\* a step within the scene, the start of another scene, the end of the flow
Stays == /\ UNCHANGED << current, prev >>
         /\ pc' \in Seq(RunsIn(current))
         /\ next' \in Chosen
         /\ \/ res' \in Chosen
            \/ res' = "loadend" /\ At("loadAsk") /\ Return /\ \E f \in Files : LoadsFrom(f)
Starts(s) == Switch(s) /\ (s \in Chosen \/ (s = "newgame" /\ data' = "fresh"))
Stops == UNCHANGED << current, prev >> /\ pc' = << >> /\ next' \in Chosen /\ res' = NoScene
Shape == Stays \/ (\E s \in AllScenes : Starts(s)) \/ Stops

\* The calls that run in every scene.
LEMMA Everywhere == ASSUME NEW c
                    PROVE  /\ SceneLabels \ {"enter"} \subseteq MayRun(c)
                           /\ CallLabels \ SaveLabels \subseteq MayRun(c)
                           /\ "save" \in FlowCalls[c] \/ c = "autosave" => SaveLabels \subseteq MayRun(c)
BY DEF MayRun, SceneLabels, CallLabels, SaveLabels

\* Frames of those calls.
LEMMA RunsFrame == ASSUME NEW c, NEW l \in MayRun(c), NEW n \in Int
                   PROVE  F(l, n) \in RunsIn(c)
BY FrameType DEF RunsIn, MayRun

\* The stack below the running call.
LEMMA BelowRuns == ASSUME IInv, StackIs, pc # << >>
                   PROVE  /\ Tail(pc) \in Seq(RunsIn(current))
                          /\ Head(pc).at # "enter" => pc \in Seq(RunsIn(current)) /\ Head(pc).at \in MayRun(current)
<1>1. CASE pc = << F("enter", 0) >>
  <2>1. Head(pc) = F("enter", 0) /\ Tail(pc) = << >>
    BY <1>1
  <2>2. Head(pc).at = "enter"
    BY <2>1, FrameType DEF SceneLabels
  <2>3. << >> \in Seq(RunsIn(current))
    OBVIOUS
  <2> QED
    BY <2>1, <2>2, <2>3
<1>2. CASE pc \in Seq(RunsIn(current))
  <2>1. Head(pc) \in RunsIn(current) /\ Tail(pc) \in Seq(RunsIn(current))
    BY <1>2
  <2> QED
    BY <1>2, <2>1 DEF RunsIn
<1> QED
  BY <1>1, <1>2 DEF StackIs

\* A save is running only where one may be started.
LEMMA SavesRun == ASSUME IInv, StackIs, pc # << >>, Head(pc).at \in SaveLabels
                  PROVE  SaveLabels \subseteq MayRun(current)
<1>1. Head(pc).at \in MayRun(current)
  BY BelowRuns DEF SaveLabels
<1> QED
  BY <1>1 DEF MayRun, SaveLabels, CallLabels

\* The running call goes on.
LEMMA GoesOn == ASSUME IInv, StackIs, pc # << >>, NEW l \in MayRun(current), NEW n \in Int,
                       Call(l, n) \/ Optional(l, n) \/ Goto(l, n)
                PROVE  pc' \in Seq(RunsIn(current))
<1>1. F(l, n) \in RunsIn(current) /\ Tail(pc) \in Seq(RunsIn(current))
  BY RunsFrame, BelowRuns
<1>2. Script \in RunsIn(current)
  <2>1. "script" \in MayRun(current)
    BY Everywhere DEF CallLabels, SaveLabels
  <2> QED
    BY <2>1, RunsFrame DEF Script
<1>3. CASE Goto(l, n)
  BY <1>1, <1>3 DEF Goto, Become
<1>4. CASE Call(l, n)
  BY <1>1, <1>2, <1>4 DEF Call, Become
<1> QED
  BY <1>3, <1>4 DEF Optional

\* The running call makes another one, which is not a script's, and goes on.
LEMMA GoesInto == ASSUME IInv, StackIs, pc # << >>, NEW l \in MayRun(current), NEW n \in Int,
                         NEW m \in MayRun(current), NEW k \in Int, Become(<< F(m, k), F(l, n) >>)
                  PROVE  pc' \in Seq(RunsIn(current))
<1>1. /\ F(l, n) \in RunsIn(current) /\ F(m, k) \in RunsIn(current)
      /\ Tail(pc) \in Seq(RunsIn(current))
  BY RunsFrame, BelowRuns
<1> QED
  BY <1>1 DEF Become

\* The running call returns.
LEMMA ComesBack == ASSUME IInv, StackIs, pc # << >>, Return
                   PROVE  pc' \in Seq(RunsIn(current))
BY BelowRuns DEF Return

\* A step that leaves the scene and the choices alone.
LEMMA QuietShape == ASSUME pc' \in Seq(RunsIn(current)), UNCHANGED << current, holder, res >>
                    PROVE  Shape
BY DEF Shape, Stays, Chosen, holder

\* The scene returns with a scene that was chosen.
LEMMA LeaveShape == ASSUME NEW s \in AllScenes, s \in Chosen, Leave(s)
                    PROVE  Shape
<1>1. s # NoScene
  BY SceneAssumption
<1>2. Starts(s)
  BY <1>1 DEF Leave, Starts
<1> QED
  BY <1>2 DEF Shape

\* An error, or a jump to a scene that was chosen.
LEMMA RaiseShape == ASSUME IInv, StackIs, pc # << >>, NEW k, NEW nx \in Chosen,
                           k = "next" => nx \in AllScenes, Uncaught(k, nx) \/ Raise(k, nx)
                    PROVE  Shape
<1>1. CASE Uncaught(k, nx)
  <2>1. CASE k = "next"
    <3>1. nx # NoScene /\ nx \in AllScenes
      BY <2>1, SceneAssumption
    <3>2. Starts(nx)
      BY <1>1, <2>1, <3>1 DEF Uncaught, Starts
    <3> QED
      BY <3>1, <3>2 DEF Shape
  <2>2. CASE k # "next"
    <3>1. Finish(k) /\ next' = nx
      BY <1>1, <2>2 DEF Uncaught
    <3> QED
      BY <3>1 DEF Finish, Shape, Stops
  <2> QED
    BY <2>1, <2>2
<1>2. CASE Caught(k, nx)
  <2>1. PICK i \in Catchers(k) : pc' = SubSeq(pc, i, Len(pc))
    BY <1>2 DEF Caught
  <2>2. Len(pc) \in Nat /\ i \in 2 .. Len(pc)
    BY <2>1, Running, HeadOfStack DEF Catchers
  <2>3. pc \in Seq(RunsIn(current))
    <3>1. ASSUME pc = << F("enter", 0) >> PROVE Len(pc) = 1
      BY <3>1
    <3>2. \A n \in Nat : i \in 2 .. n => n # 1
      OBVIOUS
    <3>3. pc # << F("enter", 0) >>
      BY <2>2, <3>1, <3>2
    <3> QED
      BY <3>3 DEF StackIs
  <2>4. pc' \in Seq(RunsIn(current))
    BY <2>1, <2>2, <2>3
  <2> QED
    BY <1>2, <2>4 DEF Caught, Shape, Stays, Chosen
<1> QED
  BY <1>1, <1>2 DEF Raise

\* What a script does.
LEMMA ScriptShapes == ASSUME IInv, StackIs, Scripts PROVE Shape
<1>1. /\ pc # << >> /\ Head(pc).at = "script" /\ pc \in Seq(RunsIn(current))
      /\ current \in AllScenes /\ Jumps[current] \subseteq AllScenes \cap Chosen
  <2>1. pc # << >> /\ Head(pc).at = "script"
    BY DEF Scripts, ScriptChooses, ScriptReturns, ScriptExits, ScriptSaves, ScriptLoads, ScriptTrains, At
  <2> QED
    BY <2>1, BelowRuns, FollowType DEF IInv, VarsOK, Chosen, Onward
<1>2. CallLabels \ SaveLabels \subseteq MayRun(current)
  BY Everywhere
<1>3. CASE ScriptChooses
  BY <1>1, <1>3 DEF ScriptChooses, Shape, Stays, Chosen
<1>4. CASE ScriptReturns
  BY <1>1, <1>4, ComesBack, QuietShape DEF ScriptReturns
<1>5. CASE ScriptExits
  <2>1. CASE \E t \in Jumps[current] : Raise("next", t)
    BY <1>1, <2>1, RaiseShape
  <2>2. CASE \E k \in {"quit", "error"} : Raise(k, next)
    <3>1. PICK k \in {"quit", "error"} : Raise(k, next)
      BY <2>2
    <3>2. next \in Chosen
      BY DEF Chosen
    <3> QED
      BY <1>1, <3>1, <3>2, RaiseShape
  <2> QED
    BY <1>5, <2>1, <2>2 DEF ScriptExits
<1>6. CASE ScriptSaves
  <2>1. "saveEnter" \in MayRun(current)
    BY <1>6, Everywhere DEF ScriptSaves, MayNest, SaveLabels
  <2>2. F("saveEnter", 0) \in RunsIn(current)
    BY <2>1, RunsFrame
  <2>3. pc' \in Seq(RunsIn(current))
    BY <1>1, <1>6, <2>2 DEF ScriptSaves
  <2> QED
    BY <1>6, <2>3, QuietShape DEF ScriptSaves
<1>7. CASE ScriptLoads
  <2>1. {"loadEnter", "nestedLoad"} \subseteq MayRun(current)
    BY <1>2 DEF CallLabels, SaveLabels
  <2>2. F("loadEnter", 0) \in RunsIn(current) /\ F("nestedLoad", 0) \in RunsIn(current)
    BY <2>1, RunsFrame
  <2>3. pc' \in Seq(RunsIn(current))
    BY <1>1, <1>7, <2>2 DEF ScriptLoads
  <2> QED
    BY <1>7, <2>3, QuietShape DEF ScriptLoads
<1>8. CASE ScriptTrains
  <2>1. PICK c \in Commands : pc' = << F("trainsCheck", c) >> \o pc
    BY <1>8 DEF ScriptTrains
  <2>2. "trainsCheck" \in MayRun(current) /\ c \in Int
    BY <1>2, SceneAssumption DEF CallLabels, SaveLabels
  <2>3. F("trainsCheck", c) \in RunsIn(current)
    BY <2>2, RunsFrame
  <2>4. pc' \in Seq(RunsIn(current))
    BY <1>1, <2>1, <2>3
  <2> QED
    BY <1>8, <2>4, QuietShape DEF ScriptTrains
<1> QED
  BY <1>3, <1>4, <1>5, <1>6, <1>7, <1>8 DEF Scripts

\* What a scene does.
LEMMA SceneShapes == ASSUME IInv, StackIs, Scenes PROVE Shape
<1>1. {"booted", "replaced", "body", "then", "loop", "showMenu", "input", "handled", "shopInput",
       "titleReplaced", "titleLoad", "check", "loadAsk"} \subseteq MayRun(current)
  BY Everywhere DEF SceneLabels, CallLabels, SaveLabels
<1>2. /\ next \in AllScenes \cup {NoScene} /\ res \in AllScenes \cup {NoScene}
      /\ next \in Chosen /\ res \in Chosen
  BY DEF IInv, VarsOK, Chosen
<1>3. CASE Boots
  BY <1>1, <1>3, GoesOn, QuietShape DEF Boots, At
<1>4. CASE Booted
  <2>1. "title" \in Chosen /\ "title" \in AllScenes
    <3>1. "booting" \notin DOMAIN DefaultNext
      BY DEF DefaultNext
    <3>2. "title" \in Graph!Rules(current)
      BY <1>4, <3>1, SameDefault DEF Booted, Graph!Rules
    <3> QED
      BY <1>4, <3>2 DEF Booted, Chosen, Onward, AllScenes
  <2> QED
    BY <1>4, <2>1, LeaveShape DEF Booted
<1>5. CASE Enters
  BY <1>1, <1>5, GoesOn, QuietShape DEF Enters, At
<1>6. CASE Replaced
  <2>1. CASE next # NoScene /\ Leave(next)
    BY <1>2, <2>1, LeaveShape
  <2>2. CASE Goto("body", 0) /\ UNCHANGED << current, holder, res >>
    BY <1>1, <1>6, <2>2, GoesOn, QuietShape DEF Replaced, At
  <2> QED
    BY <1>6, <2>1, <2>2 DEF Replaced
<1>7. CASE Then
  <2>1. current \in DOMAIN DefaultNext /\ current \notin {"booting", "title", "train"}
    BY <1>7 DEF Then, Passes, DefaultNext
  <2>2. DefaultNext[current] \in Graph!Rules(current) /\ DefaultNext[current] # "newgame"
    <3>1. DefaultNext[current] # "newgame"
      BY <2>1 DEF DefaultNext
    <3>2. Graph!Rules(current) = {DefaultNext[current]}
      BY <2>1, SameDefault DEF Graph!Rules
    <3> QED
      BY <3>1, <3>2
  <2>3. DefaultNext[current] \in Chosen /\ DefaultNext[current] \in AllScenes
    BY <2>1, <2>2, DefaultFollows DEF Chosen, Onward
  <2>4. PICK t : t = (IF next # NoScene THEN next ELSE DefaultNext[current]) /\ Leave(t)
    BY <1>7 DEF Then
  <2>5. t \in Chosen /\ t \in AllScenes
    BY <1>2, <2>3, <2>4
  <2> QED
    BY <2>4, <2>5, LeaveShape
<1>8. CASE NewGame
  BY <1>1, <1>8, GoesOn, QuietShape DEF NewGame, At
<1>9. CASE NothingToDo
  BY <1>1, <1>9, GoesOn, QuietShape DEF NothingToDo, At
<1>10. CASE AutoSave
  <2>1. CASE Call("then", 0) \/ Goto("then", 0)
    BY <1>1, <1>10, <2>1, GoesOn, QuietShape DEF AutoSave, At
  <2>2. CASE Become(<< F("saveCall", AutoSlot), F("then", 0) >>)
    <3>1. "saveCall" \in MayRun(current) /\ AutoSlot \in Int
      BY <1>10, Everywhere DEF AutoSave, SaveLabels, AutoSlot
    <3>2. pc' \in Seq(RunsIn(current))
      BY <1>1, <1>10, <2>2, <3>1, GoesInto DEF AutoSave, At
    <3> QED
      BY <1>10, <3>2, QuietShape DEF AutoSave
  <2> QED
    BY <1>10, <2>1, <2>2 DEF AutoSave
<1>11. CASE Begins
  BY <1>1, <1>11, GoesOn, QuietShape DEF Begins, At
<1>12. CASE LoopEnds
  BY <1>2, <1>12, LeaveShape DEF LoopEnds
<1>13. CASE Shows
  <2>1. Optional("input", 0) \/ Goto("input", 0) \/ Optional("check", 0) \/ Optional("showMenu", 0)
    BY <1>13 DEF Shows
  <2>2. pc' \in Seq(RunsIn(current))
    BY <1>1, <1>13, <2>1, GoesOn DEF Shows, At
  <2> QED
    BY <1>13, <2>2, QuietShape DEF Shows
<1>14. CASE ShowsMore
  BY <1>1, <1>14, GoesOn, QuietShape DEF ShowsMore, At
<1>15. CASE Handled
  <2>1. Goto("loop", 0) \/ Goto("input", 0)
    BY <1>15 DEF Handled
  <2>2. pc' \in Seq(RunsIn(current))
    BY <1>1, <1>15, <2>1, GoesOn DEF Handled, At
  <2> QED
    BY <1>15, <2>2, QuietShape DEF Handled
<1>16. CASE MenuInput
  BY <1>1, <1>16, GoesOn, QuietShape DEF MenuInput, At
<1>17. CASE ShopInput
  <2>1. PICK n \in {-1, 0} : Optional("shopInput", n)
    BY <1>17 DEF ShopInput
  <2>2. pc' \in Seq(RunsIn(current))
    BY <1>1, <1>17, <2>1, GoesOn DEF ShopInput, At
  <2> QED
    BY <1>17, <2>2, QuietShape DEF ShopInput
<1>18. CASE ShopChoice
  <2>1. Goto("loop", 0) \/ Optional("handled", 0)
    BY <1>18 DEF ShopChoice
  <2>2. pc' \in Seq(RunsIn(current))
    BY <1>1, <1>18, <2>1, GoesOn DEF ShopChoice, At
  <2>3. next' \in {next, prev} /\ BackFromShop /\ UNCHANGED << current, prev, res >>
    BY <1>18 DEF ShopChoice, BackFromShop
  <2> QED
    BY <2>2, <2>3 DEF Shape, Stays, Chosen
<1>19. CASE TitleNew
  BY <1>19 DEF TitleNew, Shape, Starts, AllScenes
<1>20. CASE TitleLoad
  <2>1. pc' \in Seq(RunsIn(current))
    BY <1>1, <1>20, GoesOn, GoesInto DEF TitleLoad, At
  <2> QED
    BY <1>20, <2>1, QuietShape DEF TitleLoad
<1>21. CASE TitleReplaced
  <2>1. CASE next # NoScene /\ Leave(next)
    BY <1>2, <2>1, LeaveShape
  <2>2. CASE Goto("loop", 0) /\ UNCHANGED << current, holder, res >>
    BY <1>1, <1>21, <2>2, GoesOn, QuietShape DEF TitleReplaced, At
  <2> QED
    BY <1>21, <2>1, <2>2 DEF TitleReplaced
<1>22. CASE TitleLoaded
  <2>1. CASE res # NoScene /\ Leave(res)
    BY <1>2, <2>1, LeaveShape
  <2>2. CASE Goto("loop", 0) /\ UNCHANGED << current, holder, res >>
    BY <1>1, <1>22, <2>2, GoesOn, QuietShape DEF TitleLoaded, At
  <2> QED
    BY <1>22, <2>1, <2>2 DEF TitleLoaded
<1>23. CASE TitleQuit
  BY <1>2, <1>23, RaiseShape DEF TitleQuit, At
<1> QED
  BY <1>3, <1>4, <1>5, <1>6, <1>7, <1>8, <1>9, <1>10, <1>11, <1>12, <1>13, <1>14, <1>15, <1>16,
     <1>17, <1>18, <1>19, <1>20, <1>21, <1>22, <1>23 DEF Scenes

\* What the train scene does.
LEMMA TrainShapes == ASSUME IInv, StackIs, Train PROVE Shape
<1>1. {"check", "checked", "shownOther", "input", "loop", "doTrain", "source", "cmdEnd", "script",
       "trainsCheck", "trainsChecked", "trainsNext"} \subseteq MayRun(current)
  BY Everywhere DEF SceneLabels, CallLabels, SaveLabels
<1>2. /\ pc # << >> => N \in Int /\ N + 1 \in Int /\ (canTrain => current = "train")
      /\ next \in Chosen
  BY Running DEF Chosen
<1>3. CASE CheckCommand
  <2>1. Call("checked", N) \/ Goto("check", N + 1)
    BY <1>3 DEF CheckCommand
  <2>2. pc' \in Seq(RunsIn(current))
    BY <1>1, <1>2, <1>3, <2>1, GoesOn DEF CheckCommand, At
  <2> QED
    BY <1>3, <2>2, QuietShape DEF CheckCommand
<1>4. CASE Checked
  BY <1>1, <1>2, <1>4, GoesOn, QuietShape DEF Checked, At
<1>5. CASE ShowsCommands
  <2>1. Call("shownOther", 0) \/ Goto("input", 0)
    BY <1>5 DEF ShowsCommands
  <2>2. pc' \in Seq(RunsIn(current))
    BY <1>1, <1>5, <2>1, GoesOn DEF ShowsCommands, At
  <2> QED
    BY <1>5, <2>2, QuietShape DEF ShowsCommands
<1>6. CASE ShownOther
  BY <1>1, <1>6, GoesOn, QuietShape DEF ShownOther, At
<1>7. CASE TrainInput
  <2>1. PICK n \in Commands \cup {-1} : Become(<< F("doTrain", n), F("loop", 0) >>)
    BY <1>7 DEF TrainInput
  <2>2. n \in Int
    BY SceneAssumption
  <2>3. pc' \in Seq(RunsIn(current))
    BY <1>1, <1>7, <2>1, <2>2, GoesInto DEF TrainInput, At
  <2> QED
    BY <1>7, <2>3, QuietShape DEF TrainInput
<1>8. CASE DoTrain
  <2>1. Optional("source", N) \/ Return
    BY <1>8 DEF DoTrain
  <2>2. pc' \in Seq(RunsIn(current))
    BY <1>1, <1>2, <1>8, <2>1, GoesOn, ComesBack DEF DoTrain, At
  <2>3. UNCHANGED << current, prev, res >> /\ (next' = next \/ (next' = "trainend" /\ BackFromTrain))
    BY <1>2, <1>8 DEF DoTrain, At, BackFromTrain
  <2>4. next' \in Chosen
    BY <2>3 DEF Chosen
  <2> QED
    BY <1>2, <2>2, <2>3, <2>4 DEF Shape, Stays, Chosen
<1>9. CASE DoTrainRefused
  BY <1>2, <1>9, RaiseShape DEF DoTrainRefused, At
<1>10. CASE Source
  <2>1. Optional("cmdEnd", N) \/ Return
    BY <1>10 DEF Source
  <2>2. pc' \in Seq(RunsIn(current))
    BY <1>1, <1>2, <1>10, <2>1, GoesOn, ComesBack DEF Source, At
  <2> QED
    BY <1>10, <2>2, QuietShape DEF Source
<1>11. CASE CmdEnd
  <2>1. Goto("script", 0) \/ Return
    BY <1>11 DEF CmdEnd, Goto, Script
  <2>2. pc' \in Seq(RunsIn(current))
    BY <1>1, <1>11, <2>1, GoesOn, ComesBack DEF CmdEnd, At
  <2> QED
    BY <1>11, <2>2, QuietShape DEF CmdEnd
<1>12. CASE TrainsCheck
  <2>1. Call("trainsChecked", N) \/ Become(<< F("doTrain", N), F("trainsNext", 0) >>)
    BY <1>12 DEF TrainsCheck
  <2>2. pc' \in Seq(RunsIn(current))
    BY <1>1, <1>2, <1>12, <2>1, GoesOn, GoesInto DEF TrainsCheck, At
  <2> QED
    BY <1>12, <2>2, QuietShape DEF TrainsCheck
<1>13. CASE TrainsChecked
  BY <1>1, <1>2, <1>13, GoesInto, QuietShape DEF TrainsChecked, At
<1>14. CASE TrainsNext
  <2>1. Return \/ \E c \in Commands : Goto("trainsCheck", c)
    BY <1>14 DEF TrainsNext
  <2>2. Commands \subseteq Int
    BY SceneAssumption
  <2>3. pc' \in Seq(RunsIn(current))
    BY <1>1, <1>14, <2>1, <2>2, GoesOn, ComesBack DEF TrainsNext, At
  <2> QED
    BY <1>14, <2>3, QuietShape DEF TrainsNext
<1> QED
  BY <1>3, <1>4, <1>5, <1>6, <1>7, <1>8, <1>9, <1>10, <1>11, <1>12, <1>13, <1>14 DEF Train

\* What the save and load scenes do, and the user interface when it is gone.
LEMMA SaveLoadShapes == ASSUME IInv, StackIs, SaveLoad \/ UIGone PROVE Shape
<1>1. {"loadReplaced", "loadAsk"} \subseteq MayRun(current)
  BY Everywhere DEF CallLabels, SaveLabels
<1>2. /\ pc # << >> => N \in Int
      /\ next \in Chosen /\ res \in Chosen /\ NoScene \in Chosen
      /\ res \in AllScenes \cup {NoScene}
  BY Running DEF Chosen, IInv, VarsOK
<1>3. pc # << >> /\ Head(pc).at \in SaveLabels
      => {"saveReplaced", "saveAsk", "saveCall", "write"} \subseteq MayRun(current)
  BY SavesRun DEF SaveLabels
<1>4. CASE SaveEnters
  <2>1. pc' \in Seq(RunsIn(current))
    BY <1>3, <1>4, GoesOn DEF SaveEnters, At, SaveLabels
  <2> QED
    BY <1>4, <2>1, QuietShape DEF SaveEnters
<1>5. CASE SaveReplaced
  <2>1. pc' \in Seq(RunsIn(current))
    BY <1>3, <1>5, GoesOn, ComesBack DEF SaveReplaced, At, SaveLabels
  <2> QED
    BY <1>5, <2>1, QuietShape DEF SaveReplaced
<1>6. CASE SaveAsk
  <2>1. Slots \subseteq Int
    BY SceneAssumption
  <2>2. pc' \in Seq(RunsIn(current))
    BY <1>3, <1>6, <2>1, GoesOn, ComesBack DEF SaveAsk, At, SaveLabels
  <2> QED
    BY <1>6, <2>2, QuietShape DEF SaveAsk
<1>7. CASE SaveCalls
  <2>1. pc' \in Seq(RunsIn(current))
    BY <1>2, <1>3, <1>7, GoesOn DEF SaveCalls, At, SaveLabels
  <2> QED
    BY <1>7, <2>1, QuietShape DEF SaveCalls
<1>8. CASE Writes
  <2>1. CASE Return /\ UNCHANGED << current, holder, res >>
    BY <1>8, <2>1, ComesBack, QuietShape DEF Writes, At
  <2>2. CASE Raise("error", next)
    BY <1>2, <1>8, <2>2, RaiseShape DEF Writes, At
  <2> QED
    BY <1>8, <2>1, <2>2 DEF Writes
<1>9. CASE LoadEnters
  <2>1. pc' \in Seq(RunsIn(current))
    BY <1>1, <1>9, GoesOn DEF LoadEnters, At
  <2> QED
    BY <1>9, <2>1, QuietShape DEF LoadEnters
<1>10. CASE LoadReplaced
  <2>1. pc' \in Seq(RunsIn(current))
    BY <1>1, <1>10, GoesOn, ComesBack DEF LoadReplaced, At
  <2>2. res' \in {next, res} /\ UNCHANGED << current, holder >>
    BY <1>10 DEF LoadReplaced
  <2> QED
    BY <1>2, <2>1, <2>2 DEF Shape, Stays, holder
<1>11. CASE LoadAsk
  <2>1. pc # << >>
    BY <1>11 DEF LoadAsk, At
  <2>2. CASE Return /\ res' = NoScene /\ UNCHANGED << current, holder >>
    BY <1>2, <2>1, <2>2, ComesBack DEF Shape, Stays, holder
  <2>3. CASE \E f \in Files : LoadsFrom(f) /\ Return /\ res' = "loadend" /\ UNCHANGED << current, holder >>
    BY <1>2, <1>11, <2>1, <2>3, ComesBack DEF Shape, Stays, holder, LoadAsk
  <2>4. CASE Raise("error", next)
    BY <1>2, <2>1, <2>4, RaiseShape
  <2> QED
    BY <1>11, <2>2, <2>3, <2>4 DEF LoadAsk, LoadsFrom
<1>12. CASE NestedLoaded
  <2>1. CASE Return /\ UNCHANGED << current, holder, res >>
    BY <1>12, <2>1, ComesBack, QuietShape DEF NestedLoaded, At
  <2>2. CASE res # NoScene /\ Raise("next", res)
    BY <1>2, <1>12, <2>2, RaiseShape DEF NestedLoaded, At
  <2> QED
    BY <1>12, <2>1, <2>2 DEF NestedLoaded
<1>13. CASE UIGone
  BY <1>2, <1>13, RaiseShape DEF UIGone, At
<1> QED
  BY <1>4, <1>5, <1>6, <1>7, <1>8, <1>9, <1>10, <1>11, <1>12, <1>13 DEF SaveLoad

\* Every step has one of the three shapes.
LEMMA Shapes == ASSUME IInv, StackIs, Next PROVE Shape
BY ScriptShapes, SceneShapes, TrainShapes, SaveLoadShapes DEF Next

\* The stack is as described after every step.
LEMMA StackStays == ASSUME IInv, StackIs, [Next]_vars PROVE StackIs'
<1>1. CASE UNCHANGED vars
  BY <1>1 DEF vars, StackIs
<1>2. CASE Next
  <2>1. CASE Stays
    BY <2>1 DEF Stays, StackIs
  <2>2. CASE \E s \in AllScenes : Starts(s)
    BY <2>2 DEF Starts, Switch, StackIs
  <2>3. CASE Stops
    <3>1. << >> \in Seq(RunsIn(current'))
      OBVIOUS
    <3> QED
      BY <2>3, <3>1 DEF Stops, StackIs
  <2> QED
    BY <1>2, <2>1, <2>2, <2>3, Shapes DEF Shape
<1> QED
  BY <1>1, <1>2

-----------------------------------------------------------------------------
(***************************************************************************)
(* A new game.  The scene `newgame' is only chosen by the title, provided  *)
(* that no script asks for it by name, nor sends the player from a new     *)
(* game to the shop, from which one goes back to where one came from.      *)
(***************************************************************************)
NewGameInv == /\ next # "newgame" /\ res # "newgame"
              /\ ~(current = "shop" /\ prev = "newgame")
              /\ NewGameIsClear

\* The scripts keep to it, whatever step is taken.
LEMMA NewGameSteps == ASSUME NewGameByTitle, IInv, StackIs, NewGameInv, [Next]_vars
                      PROVE  NewGameInv'
<1>1. CASE UNCHANGED vars
  BY <1>1 DEF vars, NewGameInv, NewGameIsClear, At
<1>2. CASE Next
  <2>1. /\ current \in AllScenes /\ NoScene # "newgame"
        /\ "newgame" \notin Chosen
    <3>1. NoScene # "newgame" /\ current \in AllScenes
      BY SceneAssumption DEF IInv, VarsOK, AllScenes
    <3> QED
      BY <3>1 DEF NewGameByTitle, NewGameInv, Chosen, Onward, BackFromShop
  <2>2. ~(current = "shop" /\ prev = "newgame")'
    <3>1. SUFFICES ASSUME current' = "shop", prev' = "newgame" PROVE FALSE
      OBVIOUS
    <3>2. current = "newgame" /\ "shop" \in Graph!Follow(current, prev)
      BY <1>2, <3>1, Inductive DEF Good, GraphStep, Graph!Moves, Graph!Ends, NewGameInv
    <3>3. Graph!Rules("newgame") = {"autosave"}
      <4>1. "newgame" \in DOMAIN DefaultNext /\ DefaultNext["newgame"] = "autosave"
        BY DEF DefaultNext
      <4> QED
        BY <4>1, SameDefault DEF Graph!Rules
    <3> QED
      BY <3>2, <3>3 DEF NewGameByTitle, Graph!Follow
  <2>3. CASE Stays
    <3>1. ~At("enter")'
      <4>1. SUFFICES ASSUME pc' # << >> PROVE Head(pc').at # "enter"
        BY DEF At
      <4>2. Head(pc') \in RunsIn(current)
        BY <2>3, <4>1 DEF Stays
      <4> QED
        BY <4>2 DEF RunsIn, MayRun
    <3>2. next' # "newgame" /\ res' # "newgame"
      BY <2>1, <2>3 DEF Stays
    <3> QED
      BY <2>2, <3>1, <3>2 DEF NewGameInv, NewGameIsClear
  <2>4. CASE \E s \in AllScenes : Starts(s)
    <3>1. PICK s \in AllScenes : Starts(s)
      BY <2>4
    <3>2. /\ current' = s /\ next' = NoScene /\ res' = NoScene
          /\ s = "newgame" => data' = "fresh"
      BY <2>1, <3>1 DEF Starts, Switch
    <3> QED
      BY <2>1, <2>2, <3>2 DEF NewGameInv, NewGameIsClear
  <2>5. CASE Stops
    <3>1. ~At("enter")' /\ next' # "newgame" /\ res' # "newgame"
      BY <2>1, <2>5 DEF Stops, At
    <3> QED
      BY <2>2, <3>1 DEF NewGameInv, NewGameIsClear
  <2> QED
    BY <1>2, <2>3, <2>4, <2>5, Shapes DEF Shape
<1> QED
  BY <1>1, <1>2

\* A new game starts from cleared data, also when another was played before it
\* (scene_title.go, ClearData before the next scene), for any scripts that leave the
\* start of a game to the title.
THEOREM NewGameClear == ASSUME NewGameByTitle PROVE Spec => []NewGameIsClear
<1>1. Init => IInv /\ StackIs /\ NewGameInv
  <2> SUFFICES ASSUME Init PROVE StackIs /\ NewGameInv
    BY InitHolds
  <2>1. NoScene # "newgame"
    BY SceneAssumption DEF AllScenes
  <2> QED
    BY <2>1 DEF Init, StackIs, NewGameInv, NewGameIsClear
<1>2. IInv /\ StackIs /\ NewGameInv /\ [Next]_vars => (IInv /\ StackIs /\ NewGameInv)'
  BY Inductive, StackStays, NewGameSteps DEF Good
<1>3. IInv /\ StackIs /\ NewGameInv => NewGameIsClear
  BY DEF NewGameInv
<1> QED
  BY <1>1, <1>2, <1>3, PTL DEF Spec

-----------------------------------------------------------------------------
(***************************************************************************)
(* Save files.  Before a game was begun nothing is saved, provided that    *)
(* the scripts of the boot and title scenes start no save and leave the    *)
(* title to its own items.  A load that failed amid the data leaves them   *)
(* mixed; then the flow is over, or a script of an outer call goes on.     *)
(***************************************************************************)
SavedWhole == \A f \in Files : saved[f] \in Begun \cup {"absent", "torn"}

WholeInv == /\ data = "none" => current \in Before /\ {next, res} \subseteq {NoScene, "title"}
            /\ data = "mixed" => pc = << >>
            /\ SavedWhole

GoesOnMixed == data = "mixed" /\ At("script")

\* what a step does to the game's data and to the save files
Writing == /\ At("write") /\ UNCHANGED data
           /\ \A f \in Files : saved'[f] = saved[f] \/ (f = N /\ saved'[f] \in {data, "torn"})
Loading == /\ UNCHANGED saved
           /\ \/ At("loadAsk") /\ Return /\ res' = "loadend" /\ \E f \in Files : LoadsFrom(f)
              \/ data' \in {data, "mixed"} /\ (pc' = << >> \/ At("script")')
DataStep == \/ UNCHANGED gameVars
            \/ data' = "fresh" /\ UNCHANGED saved
            \/ Played /\ UNCHANGED saved
            \/ Writing
            \/ Loading

\* An error that is caught comes out in a script.
LEMMA CaughtInScript == ASSUME IInv, pc # << >>, NEW k, NEW nx, Caught(k, nx)
                        PROVE  At("script")'
<1>1. PICK i \in Catchers(k) : pc' = SubSeq(pc, i, Len(pc))
  BY DEF Caught
<1>2. pc \in Seq(Frame) /\ Len(pc) \in Nat /\ i \in 2 .. Len(pc) /\ pc[i].at = "script"
  BY <1>1, Running, HeadOfStack DEF Catchers
<1>3. pc' # << >> /\ Head(pc') = pc[i]
  <2>1. pc' \in Seq(Frame) /\ Len(pc') = Len(pc) - i + 1 /\ \A j \in 1 .. Len(pc') : pc'[j] = pc[i + j - 1]
    BY <1>1, <1>2
  <2>2. Len(pc') >= 1 /\ pc'[1] = pc[i]
    BY <1>2, <2>1
  <2> QED
    BY <2>1, <2>2
<1> QED
  BY <1>2, <1>3 DEF At

\* An error ends the flow or comes out in a script.
LEMMA ErrorComesOut == ASSUME IInv, pc # << >>, Raise("error", next)
                       PROVE  pc' = << >> \/ At("script")'
BY CaughtInScript DEF Raise, Uncaught, Finish

\* A step is one of a running call.
LEMMA StepRuns == ASSUME Next PROVE pc # << >>
<1>1. Scripts => pc # << >>
  BY DEF Scripts, ScriptChooses, ScriptReturns, ScriptExits, ScriptSaves, ScriptLoads, ScriptTrains, At
<1>2. Scenes => pc # << >>
  BY DEF Scenes, Boots, Booted, Enters, Replaced, Then, NewGame, NothingToDo, AutoSave, Begins, LoopEnds,
         Shows, ShowsMore, Handled, MenuInput, ShopInput, ShopChoice, TitleNew, TitleLoad, TitleReplaced,
         TitleLoaded, TitleQuit, At
<1>3. Train => pc # << >>
  BY DEF Train, CheckCommand, Checked, ShowsCommands, ShownOther, TrainInput, DoTrain, DoTrainRefused,
         Source, CmdEnd, TrainsCheck, TrainsChecked, TrainsNext, At
<1>4. SaveLoad => pc # << >>
  BY DEF SaveLoad, SaveEnters, SaveReplaced, SaveAsk, SaveCalls, Writes, LoadEnters, LoadReplaced, LoadAsk,
         NestedLoaded, At
<1>5. UIGone => pc # << >>
  BY DEF UIGone, At
<1> QED
  BY <1>1, <1>2, <1>3, <1>4, <1>5 DEF Next

\* Only a write changes the files, and only the title, the player and a load the data.
LEMMA DataSteps == ASSUME IInv, Next PROVE DataStep
<1> pc # << >>
  BY StepRuns
<1>1. CASE Scripts
  BY <1>1 DEF Scripts, ScriptChooses, ScriptReturns, ScriptExits, ScriptSaves, ScriptLoads, ScriptTrains,
              gameVars, DataStep
<1>2. CASE Scenes
  <2>1. CASE Boots \/ Booted \/ Enters \/ Replaced \/ Then \/ NewGame \/ NothingToDo \/ AutoSave
    BY <2>1 DEF Boots, Booted, Enters, Replaced, Then, NewGame, NothingToDo, AutoSave, Leave, gameVars, DataStep
  <2>2. CASE Begins \/ LoopEnds \/ Shows \/ ShowsMore \/ Handled \/ ShopChoice
    BY <2>2 DEF Begins, LoopEnds, Shows, ShowsMore, Handled, ShopChoice, Leave, gameVars, DataStep
  <2>3. CASE MenuInput \/ ShopInput
    BY <2>3 DEF MenuInput, ShopInput, DataStep
  <2>4. CASE TitleNew \/ TitleLoad \/ TitleReplaced \/ TitleLoaded \/ TitleQuit
    BY <2>4 DEF TitleNew, TitleLoad, TitleReplaced, TitleLoaded, TitleQuit, Leave, gameVars, DataStep
  <2> QED
    BY <1>2, <2>1, <2>2, <2>3, <2>4 DEF Scenes
<1>3. CASE Train
  <2>1. UNCHANGED gameVars \/ (Played /\ UNCHANGED saved)
    BY <1>3 DEF Train, CheckCommand, Checked, ShowsCommands, ShownOther, TrainInput, DoTrain, DoTrainRefused,
                Source, CmdEnd, TrainsCheck, TrainsChecked, TrainsNext, gameVars
  <2> QED
    BY <2>1 DEF DataStep
<1>4. CASE SaveLoad
  <2>1. CASE SaveEnters \/ SaveReplaced \/ SaveAsk \/ SaveCalls \/ LoadEnters \/ LoadReplaced \/ NestedLoaded
    BY <2>1 DEF SaveEnters, SaveReplaced, SaveAsk, SaveCalls, LoadEnters, LoadReplaced, NestedLoaded, gameVars,
                DataStep
  <2>2. CASE Writes
    <3>1. At("write") /\ UNCHANGED data
      BY <2>2 DEF Writes
    <3>2. \E left \in {saved[N], data, "torn"} : saved' = [saved EXCEPT ![N] = left]
      BY <2>2 DEF Writes
    <3>3. \A f \in Files : saved'[f] = saved[f] \/ (f = N /\ saved'[f] \in {data, "torn"})
      BY <3>2 DEF IInv, VarsOK
    <3> QED
      BY <3>1, <3>3 DEF Writing, DataStep
  <2>3. CASE LoadAsk
    <3>1. UNCHANGED saved
      BY <2>3 DEF LoadAsk
    <3>2. CASE UNCHANGED << current, holder, ans, trainVars, data, over >>
      BY <3>1, <3>2 DEF DataStep, gameVars
    <3>3. CASE Return /\ res' = "loadend" /\ \E f \in Files : LoadsFrom(f)
      BY <2>3, <3>1, <3>3 DEF DataStep, Loading, LoadAsk
    <3>4. CASE data' \in {data, "mixed"} /\ Raise("error", next)
      BY <3>1, <3>4, ErrorComesOut DEF DataStep, Loading
    <3> QED
      BY <2>3, <3>2, <3>3, <3>4 DEF LoadAsk, LoadsFrom
  <2> QED
    BY <1>4, <2>1, <2>2, <2>3 DEF SaveLoad
<1>5. CASE UIGone
  BY <1>5 DEF UIGone, gameVars, DataStep
<1> QED
  BY <1>1, <1>2, <1>3, <1>4, <1>5 DEF Next

\* Nothing is written before a game was begun.
LEMMA WritesBegun == ASSUME GameBeginsAtTitle, IInv, StackIs, WholeInv, At("write")
                     PROVE  data \in Begun
<1>1. pc # << >> /\ Head(pc).at = "write"
  BY DEF At
<1>2. "write" \in MayRun(current)
  BY <1>1, BelowRuns
<1>3. current \notin Before
  BY <1>2 DEF MayRun, SaveLabels, GameBeginsAtTitle, Before
<1> QED
  BY <1>1, <1>3 DEF WholeInv, IInv, VarsOK, Contents

\* Where a game was not begun yet, only the title is chosen.
LEMMA OnlyTitle == ASSUME GameBeginsAtTitle, IInv, WholeInv, data = "none"
                   PROVE  Chosen \subseteq {NoScene, "title"}
<1>1. current \in Before /\ current # "shop" /\ Jumps[current] \subseteq {"title"}
  BY DEF WholeInv, GameBeginsAtTitle, Before
<1>2. Graph!Rules(current) \subseteq {"title", "newgame"}
  <2>1. current \notin DOMAIN DefaultNext
    BY <1>1 DEF Before, DefaultNext
  <2> QED
    BY <1>1, <2>1, SameDefault DEF Graph!Rules, Before
<1> QED
  BY <1>1, <1>2 DEF WholeInv, Chosen, Onward, BackFromShop, BackFromTrain, Before

\* Whatever step is taken, unless a script goes on with mixed data.
LEMMA WholeSteps == ASSUME GameBeginsAtTitle, IInv, StackIs, WholeInv, [Next]_vars, ~GoesOnMixed'
                    PROVE  WholeInv'
<1>1. CASE UNCHANGED vars
  BY <1>1 DEF vars, WholeInv, SavedWhole
<1>2. CASE Next
  <2>1. pc # << >> /\ data # "mixed" /\ DataStep
    BY <1>2, StepRuns, DataSteps DEF WholeInv
  <2>2. \A f \in Files : LoadsFrom(f) => data' = "loaded"
    BY DEF LoadsFrom, WholeInv, SavedWhole
  <2>3. SavedWhole'
    <3>1. CASE UNCHANGED saved
      BY <3>1 DEF WholeInv, SavedWhole
    <3>2. CASE Writing
      BY <3>2, WritesBegun DEF Writing, WholeInv, SavedWhole
    <3> QED
      BY <2>1, <3>1, <3>2 DEF DataStep, gameVars, Loading
  <2>4. ASSUME data' = "mixed" PROVE pc' = << >>
    BY <2>1, <2>2, <2>4 DEF DataStep, gameVars, Played, Begun, Writing, Loading, GoesOnMixed
  <2>5. ASSUME data' = "none" PROVE current' \in Before /\ {next', res'} \subseteq {NoScene, "title"}
    <3>1. data = "none"
      BY <2>1, <2>2, <2>5 DEF DataStep, gameVars, Played, Begun, Writing, Loading
    <3>2. Chosen \subseteq {NoScene, "title"} /\ current \in Before
      BY <3>1, OnlyTitle DEF WholeInv
    <3>3. CASE Stays
      BY <2>2, <2>5, <3>2, <3>3 DEF Stays
    <3>4. CASE \E s \in AllScenes : Starts(s)
      BY <2>5, <3>2, <3>4, SceneAssumption DEF Starts, Switch, Before
    <3>5. CASE Stops
      BY <3>2, <3>5 DEF Stops
    <3> QED
      BY <1>2, <3>3, <3>4, <3>5, Shapes DEF Shape
  <2> QED
    BY <2>3, <2>4, <2>5 DEF WholeInv
<1> QED
  BY <1>1, <1>2

\* No save file ever holds data that were neither started nor loaded whole, unless a
\* script went on after a load had failed amid the data (file.go:93), for any scripts
\* that let the game begin at the title.
THEOREM SavesWhole == ASSUME GameBeginsAtTitle PROVE Spec => SavesAreWhole
<1>1. Init => IInv /\ StackIs /\ WholeInv
  <2> SUFFICES ASSUME Init PROVE StackIs /\ WholeInv
    BY InitHolds
  <2> QED
    BY DEF Init, StackIs, WholeInv, SavedWhole, Before
<1>2. IInv /\ StackIs /\ WholeInv /\ [Next]_vars /\ ~GoesOnMixed' => (IInv /\ StackIs /\ WholeInv)'
  BY Inductive, StackStays, WholeSteps DEF Good
<1>3. IInv /\ StackIs /\ WholeInv => SavedWhole
  BY DEF WholeInv
<1>4. Spec => []SavedWhole \/ <>GoesOnMixed
  BY <1>1, <1>2, <1>3, PTL DEF Spec
<1> QED
  BY <1>4 DEF SavesAreWhole, SavedWhole, GoesOnMixed

-----------------------------------------------------------------------------
(***************************************************************************)
(* The autosave after a load.  A call that loads is made by one that ends  *)
(* the scene when a game was loaded, so a load leads to loadend with an    *)
(* empty stack.  From there the game is not saved to the autosave slot     *)
(* before the player did something that changes it: the calls on the stack *)
(* are not those of the player's choices, nor those of an autosave.  The   *)
(* scripts must keep to it as well: they may send the player from loadend  *)
(* to autosave, but to no other scene from which they or the rules alone   *)
(* reach autosave.                                                         *)
(***************************************************************************)
LoadLabels == {"loadEnter", "loadReplaced", "loadAsk"}
Loaders == {"nestedLoad", "titleLoad"}

\* each call that loads is made by one that ends the scene
Nests(s) == \A i \in 1 .. Len(s) : s[i].at \in LoadLabels => i < Len(s) /\ s[i + 1].at \in Loaders

\* the frames of neither the player's choices nor an autosave
Calm == { f \in Frame : /\ f.at # "shopInput"
                        /\ f.at \in {"doTrain", "trainsCheck", "trainsChecked"} => f.n # -1
                        /\ f.at \in {"saveCall", "write"} => f.n # AutoSlot }

\* the load has returned to the call that ends the scene
Transit == res = "loadend" /\ pc # << >> /\ Head(pc).at \in Loaders

\* nothing happened since but what the scripts and the rules do
Unplayed(Us) == /\ current \in Us
                /\ current = "autosave" => prev = "loadend"
                /\ {next, res} \subseteq {NoScene} \cup Onward(current)
                /\ pc \in Seq(Calm)

LoadInv(Us) == /\ Nests(pc)
               /\ saved[AutoSlot] # "loaded"
               /\ data = "loaded" => Transit \/ Unplayed(Us)

\* a script went on with loadend chosen
GoesOnLoaded == next = "loadend" /\ At("script")

\* a step by which a game that was loaded stays so, with calm frames on the stack
Quiet == /\ data = "loaded" /\ data' = "loaded"
         /\ current = "autosave" => prev = "loadend"
         /\ pc \in Seq(Calm)

\* what a stack after the step must keep
Settles(s) == s \in Seq(Frame) /\ Nests(s) /\ (Quiet => s \in Seq(Calm))

\* Labels of frames that neither load, nor wait for what the player chose, nor save.
Plain == (SceneLabels \cup CallLabels)
           \ (LoadLabels \cup {"shopInput", "doTrain", "trainsCheck", "trainsChecked", "saveCall", "write"})

\* Frames with those labels.
LEMMA PlainFrame == ASSUME NEW l \in Plain, NEW n \in Int
                    PROVE  /\ F(l, n) \in Calm /\ F(l, n) \in Frame
                           /\ F(l, n).at \notin LoadLabels
<1>1. l \in SceneLabels \cup CallLabels /\ F(l, n) \in Frame /\ F(l, n).at = l
  BY FrameType DEF Plain
<1> QED
  BY <1>1 DEF Plain, Calm

\* A frame over a stack.
LEMMA SettlesOver == ASSUME NEW g \in Frame, NEW t, Settles(t),
                            g.at \in LoadLabels => t # << >> /\ Head(t).at \in Loaders,
                            Quiet => g \in Calm
                     PROVE  Settles(<< g >> \o t)
<1> DEFINE s == << g >> \o t
<1>1. t \in Seq(Frame) /\ Len(t) \in Nat
  BY DEF Settles
<1>2. s \in Seq(Frame) /\ Len(s) = Len(t) + 1
  BY <1>1
<1>3. s[1] = g /\ \A i \in 2 .. Len(s) : i - 1 \in 1 .. Len(t) /\ s[i] = t[i - 1]
  BY <1>1, <1>2
<1>4. Quiet => s \in Seq(Calm)
  BY DEF Settles
<1> HIDE DEF s
<1>5. Nests(s)
  <2> SUFFICES ASSUME NEW i \in 1 .. Len(s), s[i].at \in LoadLabels
               PROVE  i < Len(s) /\ s[i + 1].at \in Loaders
    BY DEF Nests
  <2>1. CASE i = 1
    <3>1. t # << >> /\ Head(t).at \in Loaders
      BY <1>3, <2>1
    <3>2. Len(t) > 0 /\ Head(t) = t[1]
      BY <1>1, <3>1
    <3>3. 2 \in 1 .. Len(s) /\ s[2] = t[1]
      BY <1>1, <1>2, <1>3, <3>2
    <3> QED
      BY <1>1, <1>2, <2>1, <3>1, <3>2, <3>3
  <2>2. CASE i # 1
    <3>1. i \in 2 .. Len(s)
      BY <1>1, <1>2, <2>2
    <3>2. i - 1 \in 1 .. Len(t) /\ s[i] = t[i - 1]
      BY <1>3, <3>1
    <3>3. i - 1 < Len(t) /\ t[(i - 1) + 1].at \in Loaders
      BY <3>2 DEF Settles, Nests
    <3>4. i + 1 \in 2 .. Len(s) /\ s[i + 1] = t[i]
      BY <1>1, <1>2, <1>3, <3>1, <3>3
    <3> QED
      BY <1>1, <1>2, <3>1, <3>3, <3>4
  <2> QED
    BY <2>1, <2>2
<1> QED
  BY <1>2, <1>4, <1>5 DEF Settles, s

\* A plain frame over a stack.
LEMMA PlainOver == ASSUME NEW l \in Plain, NEW n \in Int, NEW t, Settles(t)
                   PROVE  Settles(<< F(l, n) >> \o t)
BY PlainFrame, SettlesOver

\* The stack from one of its frames on.
LEMMA SettlesSub == ASSUME pc \in Seq(Frame), Nests(pc), NEW k \in 1 .. Len(pc)
                    PROVE  Settles(SubSeq(pc, k, Len(pc)))
<1> DEFINE t == SubSeq(pc, k, Len(pc))
<1>1. t \in Seq(Frame) /\ Len(t) = Len(pc) - k + 1 /\ \A j \in 1 .. Len(t) : t[j] = pc[k + j - 1]
  OBVIOUS
<1>2. Quiet => t \in Seq(Calm)
  BY DEF Quiet
<1> HIDE DEF t
<1>3. Nests(t)
  <2> SUFFICES ASSUME NEW i \in 1 .. Len(t), t[i].at \in LoadLabels
               PROVE  i < Len(t) /\ t[i + 1].at \in Loaders
    BY DEF Nests
  <2>1. k + i - 1 \in 1 .. Len(pc) /\ t[i] = pc[k + i - 1]
    BY <1>1
  <2>2. k + i - 1 < Len(pc) /\ pc[(k + i - 1) + 1].at \in Loaders
    BY <2>1 DEF Nests
  <2>3. i + 1 \in 1 .. Len(t) /\ (k + i - 1) + 1 = k + (i + 1) - 1
    BY <1>1, <2>1, <2>2
  <2>4. t[i + 1] = pc[(k + i - 1) + 1]
    BY <1>1, <2>3
  <2> QED
    BY <1>1, <2>2, <2>3, <2>4
<1> QED
  BY <1>1, <1>2, <1>3 DEF Settles, t

\* The stack as it is, and the one below the running call.
LEMMA SettlesBelow == ASSUME IInv, Nests(pc), pc # << >>
                      PROVE  /\ Settles(pc) /\ Settles(Tail(pc))
                             /\ Head(pc).at \in LoadLabels => Tail(pc) # << >> /\ Head(Tail(pc)).at \in Loaders
<1>1. /\ pc \in Seq(Frame) /\ Len(pc) \in Nat \ {0} /\ Head(pc) = pc[1]
      /\ Tail(pc) \in Seq(Frame) /\ Len(Tail(pc)) = Len(pc) - 1
      /\ \A i \in 1 .. Len(pc) - 1 : Tail(pc)[i] = pc[i + 1]
  BY Running, HeadOfStack
<1>2. Settles(SubSeq(pc, 1, Len(pc))) /\ SubSeq(pc, 1, Len(pc)) = pc
  <2>1. 1 \in 1 .. Len(pc) /\ SubSeq(pc, 1, Len(pc)) = pc
    BY <1>1
  <2> QED
    BY <1>1, <2>1, SettlesSub
<1>3. Settles(Tail(pc))
  <2>1. CASE Len(pc) = 1
    <3>1. Tail(pc) \in Seq(Frame) /\ Len(Tail(pc)) = 0
      BY <1>1, <2>1
    <3>2. Quiet => Tail(pc) \in Seq(Calm)
      BY <1>1 DEF Quiet
    <3> QED
      BY <3>1, <3>2 DEF Settles, Nests
  <2>2. CASE Len(pc) # 1
    <3>1. 2 \in 1 .. Len(pc) /\ Tail(pc) = SubSeq(pc, 2, Len(pc))
      BY <1>1, <2>2
    <3> QED
      BY <1>1, <3>1, SettlesSub
  <2> QED
    BY <2>1, <2>2
<1>4. ASSUME Head(pc).at \in LoadLabels PROVE Tail(pc) # << >> /\ Head(Tail(pc)).at \in Loaders
  <2>1. 1 < Len(pc) /\ pc[2].at \in Loaders
    BY <1>1, <1>4 DEF Nests
  <2>2. Len(Tail(pc)) > 0 /\ Tail(pc)[1] = pc[2]
    BY <1>1, <2>1
  <2>3. Tail(pc) # << >> /\ Head(Tail(pc)) = pc[2]
    <3>1. \A t \in Seq(Frame) : Len(t) > 0 => t # << >> /\ Head(t) = t[1]
      OBVIOUS
    <3> QED
      BY <1>1, <2>2, <3>1
  <2> QED
    BY <2>1, <2>3
<1> QED
  BY <1>2, <1>3, <1>4

\* The running call goes on, having called the scripts or not.
LEMMA SettlesOn == ASSUME IInv, Nests(pc), pc # << >>, NEW l \in SceneLabels \cup CallLabels, NEW n \in Int,
                          l \in LoadLabels => Head(pc).at \in LoadLabels,
                          Quiet => F(l, n) \in Calm,
                          Call(l, n) \/ Optional(l, n) \/ Goto(l, n)
                   PROVE  Settles(pc')
<1> DEFINE t == << F(l, n) >> \o Tail(pc)
<1>1. Tail(pc) \in Seq(Frame) /\ F(l, n) \in Frame /\ F(l, n).at = l
  BY Running, HeadOfStack, FrameType
<1>2. Settles(t)
  BY <1>1, SettlesBelow, SettlesOver
<1>3. CASE Goto(l, n)
  BY <1>2, <1>3 DEF Goto, Become
<1>4. CASE Call(l, n)
  <2>1. Script \in Frame /\ "script" \in Plain
    BY FrameType DEF Script, Plain, SceneLabels, CallLabels, LoadLabels
  <2>2. Settles(<< Script >> \o t)
    BY <1>2, <2>1, PlainOver DEF Script
  <2>3. pc' = << Script >> \o t
    BY <1>1, <1>4, <2>1, TwoOnTop DEF Call, Become
  <2> QED
    BY <2>2, <2>3
<1> QED
  BY <1>3, <1>4 DEF Optional

\* Where it goes on plainly.
LEMMA SettlesPlain == ASSUME IInv, Nests(pc), pc # << >>, NEW l \in Plain, NEW n \in Int,
                             Call(l, n) \/ Optional(l, n) \/ Goto(l, n)
                      PROVE  Settles(pc')
<1>1. l \in SceneLabels \cup CallLabels /\ l \notin LoadLabels /\ F(l, n) \in Calm
  BY PlainFrame DEF Plain
<1> QED
  BY <1>1, SettlesOn

\* The running call makes another one, and goes on plainly.
LEMMA SettlesInto == ASSUME IInv, Nests(pc), pc # << >>, NEW l \in Plain, NEW n \in Int,
                            NEW m \in SceneLabels \cup CallLabels, NEW k \in Int,
                            m \in LoadLabels => l \in Loaders,
                            Quiet => F(m, k) \in Calm,
                            Become(<< F(m, k), F(l, n) >>)
                     PROVE  Settles(pc')
<1> DEFINE t == << F(l, n) >> \o Tail(pc)
<1>1. Tail(pc) \in Seq(Frame) /\ F(m, k) \in Frame /\ F(m, k).at = m /\ F(l, n) \in Frame /\ F(l, n).at = l
  BY Running, HeadOfStack, FrameType DEF Plain
<1>2. Settles(t)
  BY SettlesBelow, PlainOver
<1>3. t # << >> /\ Head(t) = F(l, n)
  BY <1>1
<1>4. pc' = << F(m, k) >> \o t
  BY <1>1, TwoOnTop DEF Become
<1> HIDE DEF t
<1>5. Settles(<< F(m, k) >> \o t)
  BY <1>1, <1>2, <1>3, SettlesOver
<1> QED
  BY <1>4, <1>5

\* The running call returns.
LEMMA SettlesBack == ASSUME IInv, Nests(pc), pc # << >>, Return
                     PROVE  Settles(pc')
BY SettlesBelow DEF Return

\* A scene starts, or the flow is over.
LEMMA SettlesAnew == ASSUME pc' = << F("enter", 0) >> \/ pc' = << >>
                     PROVE  Settles(pc')
<1>1. Settles(<< >>)
  <2>1. << >> \in Seq(Frame) /\ << >> \in Seq(Calm) /\ Len(<< >>) = 0
    OBVIOUS
  <2> QED
    BY <2>1 DEF Settles, Nests
<1>2. "enter" \in Plain
  BY DEF Plain, SceneLabels, LoadLabels
<1>3. \A t : Settles(t) => Settles(<< F("enter", 0) >> \o t)
  BY <1>2, PlainOver
<1>4. << F("enter", 0) >> \o << >> = << F("enter", 0) >>
  OBVIOUS
<1>5. Settles(<< F("enter", 0) >>)
  BY <1>1, <1>3, <1>4
<1> QED
  BY <1>1, <1>5

\* The scene returns.
LEMMA SettlesLeave == ASSUME NEW s, Leave(s) PROVE Settles(pc')
<1>1. pc' = << F("enter", 0) >> \/ pc' = << >>
  BY DEF Leave, Switch, Finish
<1> QED
  BY <1>1, SettlesAnew

\* An error.
LEMMA SettlesRaise == ASSUME IInv, Nests(pc), pc # << >>, NEW k, NEW nx, Uncaught(k, nx) \/ Raise(k, nx)
                      PROVE  Settles(pc')
<1>1. CASE Uncaught(k, nx)
  <2>1. pc' = << F("enter", 0) >> \/ pc' = << >>
    BY <1>1 DEF Uncaught, Switch, Finish
  <2> QED
    BY <2>1, SettlesAnew
<1>2. CASE Caught(k, nx)
  <2>1. PICK i \in Catchers(k) : pc' = SubSeq(pc, i, Len(pc))
    BY <1>2 DEF Caught
  <2>2. pc \in Seq(Frame) /\ Len(pc) \in Nat /\ i \in 2 .. Len(pc)
    BY <2>1, Running, HeadOfStack DEF Catchers
  <2>3. i \in 1 .. Len(pc)
    BY <2>2
  <2> QED
    BY <2>1, <2>2, <2>3, SettlesSub
<1> QED
  BY <1>1, <1>2 DEF Raise

\* What a script does.
LEMMA ScriptSettles == ASSUME IInv, Nests(pc), Scripts PROVE Settles(pc')
<1>1. pc # << >> /\ Head(pc).at = "script" /\ Settles(pc)
  <2>1. pc # << >> /\ Head(pc).at = "script"
    BY DEF Scripts, ScriptChooses, ScriptReturns, ScriptExits, ScriptSaves, ScriptLoads, ScriptTrains, At
  <2> QED
    BY <2>1, SettlesBelow
<1>2. CASE ScriptChooses
  BY <1>1, <1>2 DEF ScriptChooses
<1>3. CASE ScriptReturns
  BY <1>1, <1>3, SettlesBack DEF ScriptReturns
<1>4. CASE ScriptExits
  BY <1>1, <1>4, SettlesRaise DEF ScriptExits
<1>5. CASE ScriptSaves
  <2>1. "saveEnter" \in Plain
    BY DEF Plain, SceneLabels, CallLabels, LoadLabels
  <2> QED
    BY <1>1, <1>5, <2>1, PlainOver DEF ScriptSaves
<1>6. CASE ScriptLoads
  <2> DEFINE t == << F("nestedLoad", 0) >> \o pc
  <2>1. "nestedLoad" \in Plain /\ "loadEnter" \in CallLabels
    BY DEF Plain, SceneLabels, CallLabels, LoadLabels
  <2>2. /\ pc \in Seq(Frame)
        /\ F("nestedLoad", 0) \in Frame /\ F("nestedLoad", 0).at = "nestedLoad"
        /\ F("loadEnter", 0) \in Frame /\ F("loadEnter", 0).at = "loadEnter"
    BY <1>1, <2>1, FrameType DEF Settles, Plain
  <2>3. Settles(t)
    BY <1>1, <2>1, PlainOver
  <2>4. t # << >> /\ Head(t) = F("nestedLoad", 0)
    BY <2>2
  <2>5. pc' = << F("loadEnter", 0) >> \o t
    BY <1>6, <2>2, TwoOnTop DEF ScriptLoads
  <2>6. F("loadEnter", 0) \in Calm
    BY <2>2 DEF Calm
  <2> HIDE DEF t
  <2>7. Settles(<< F("loadEnter", 0) >> \o t)
    BY <2>2, <2>3, <2>4, <2>6, SettlesOver DEF Loaders
  <2> QED
    BY <2>5, <2>7
<1>7. CASE ScriptTrains
  <2>1. PICK c \in Commands : pc' = << F("trainsCheck", c) >> \o pc
    BY <1>7 DEF ScriptTrains
  <2>2. c \in Int /\ c # -1
    BY SceneAssumption
  <2>3. F("trainsCheck", c) \in Frame /\ F("trainsCheck", c).at = "trainsCheck" /\ F("trainsCheck", c).n = c
    BY <2>2, FrameType DEF CallLabels
  <2>4. F("trainsCheck", c) \in Calm
    BY <2>2, <2>3 DEF Calm
  <2> QED
    BY <1>1, <2>1, <2>3, <2>4, SettlesOver DEF LoadLabels
<1> QED
  BY <1>2, <1>3, <1>4, <1>5, <1>6, <1>7 DEF Scripts

\* What a scene does.
LEMMA SceneSettles == ASSUME IInv, Nests(pc), Scenes PROVE Settles(pc')
<1>1. {"booted", "replaced", "body", "then", "loop", "showMenu", "input", "handled",
       "titleReplaced", "titleLoad", "check"} \subseteq Plain
  BY DEF Plain, SceneLabels, CallLabels, LoadLabels
<1>2. Played => ~Quiet
  BY DEF Played, Quiet, Begun
<1>3. CASE Boots \/ Enters \/ NewGame \/ NothingToDo \/ Begins
  <2>1. pc # << >> /\ \E l \in Plain : Call(l, 0) \/ Optional(l, 0) \/ Goto(l, 0)
    BY <1>1, <1>3 DEF Boots, Enters, NewGame, NothingToDo, Begins, At
  <2> QED
    BY <2>1, SettlesPlain
<1>4. CASE Booted \/ Then \/ LoopEnds
  BY <1>4, SettlesLeave DEF Booted, Then, LoopEnds
<1>5. CASE Replaced \/ TitleReplaced \/ TitleLoaded
  <2>1. pc # << >> /\ ((\E t : Leave(t)) \/ \E l \in Plain : Goto(l, 0))
    BY <1>1, <1>5 DEF Replaced, TitleReplaced, TitleLoaded, At
  <2> QED
    BY <2>1, SettlesPlain, SettlesLeave
<1>6. CASE AutoSave
  <2>1. CASE Call("then", 0) \/ Goto("then", 0)
    BY <1>1, <1>6, <2>1, SettlesPlain DEF AutoSave, At
  <2>2. CASE ~(Call("then", 0) \/ Goto("then", 0))
    <3>1. pc # << >> /\ Become(<< F("saveCall", AutoSlot), F("then", 0) >>) /\ ~Quiet
      BY <1>6, <2>2 DEF AutoSave, At, Quiet
    <3>2. "saveCall" \in CallLabels /\ "saveCall" \notin LoadLabels /\ AutoSlot \in Int /\ 0 \in Int
      BY DEF CallLabels, LoadLabels, AutoSlot
    <3> QED
      BY <1>1, <3>1, <3>2, SettlesInto
  <2> QED
    BY <2>1, <2>2
<1>7. CASE Shows \/ ShowsMore \/ Handled \/ MenuInput \/ ShopChoice
  <2>1. pc # << >> /\ \E l \in Plain : Call(l, 0) \/ Optional(l, 0) \/ Goto(l, 0)
    BY <1>1, <1>7 DEF Shows, ShowsMore, Handled, MenuInput, ShopChoice, At
  <2> QED
    BY <2>1, SettlesPlain
<1>8. CASE ShopInput
  <2>1. PICK n \in {-1, 0} : Optional("shopInput", n)
    BY <1>8 DEF ShopInput
  <2>2. pc # << >> /\ ~Quiet /\ n \in Int
    BY <1>2, <1>8 DEF ShopInput, At
  <2>3. "shopInput" \in SceneLabels /\ "shopInput" \notin LoadLabels
    BY DEF SceneLabels, LoadLabels
  <2> QED
    BY <2>1, <2>2, <2>3, SettlesOn
<1>9. CASE TitleNew
  BY <1>9, SettlesAnew DEF TitleNew, Switch
<1>10. CASE TitleLoad
  <2>1. CASE Call("titleReplaced", 0)
    BY <1>1, <1>10, <2>1, SettlesPlain DEF TitleLoad, At
  <2>2. CASE Become(<< F("loadAsk", 0), F("titleLoad", 0) >>)
    <3>1. "loadAsk" \in CallLabels /\ F("loadAsk", 0) \in Calm /\ pc # << >>
      <4>1. "loadAsk" \in CallLabels
        BY DEF CallLabels
      <4>2. F("loadAsk", 0) \in Frame /\ F("loadAsk", 0).at = "loadAsk"
        BY <4>1, FrameType
      <4> QED
        BY <1>10, <4>1, <4>2 DEF Calm, TitleLoad, At
    <3>2. 0 \in Int
      OBVIOUS
    <3> QED
      BY <1>1, <2>2, <3>1, <3>2, SettlesInto DEF Loaders
  <2> QED
    BY <1>10, <2>1, <2>2 DEF TitleLoad
<1>11. CASE TitleQuit
  BY <1>11, SettlesRaise DEF TitleQuit, At
<1> QED
  BY <1>3, <1>4, <1>5, <1>6, <1>7, <1>8, <1>9, <1>10, <1>11 DEF Scenes

\* What the train scene does.
LEMMA TrainSettles == ASSUME IInv, Nests(pc), Train PROVE Settles(pc')
<1>1. {"check", "checked", "shownOther", "input", "loop", "source", "cmdEnd", "script", "trainsNext"} \subseteq Plain
  BY DEF Plain, SceneLabels, CallLabels, LoadLabels
<1>2. pc # << >> /\ N \in Int /\ N + 1 \in Int
  <2>1. pc # << >>
    BY StepRuns DEF Next
  <2> QED
    BY <2>1, Running
<1>3. CASE CheckCommand \/ Checked \/ ShowsCommands \/ ShownOther
  <2>1. \E l \in Plain, n \in Int : Call(l, n) \/ Optional(l, n) \/ Goto(l, n)
    BY <1>1, <1>2, <1>3 DEF CheckCommand, Checked, ShowsCommands, ShownOther
  <2> QED
    BY <1>2, <2>1, SettlesPlain
<1>4. CASE DoTrain \/ Source \/ CmdEnd
  <2>1. Return \/ \E l \in Plain, n \in Int : Call(l, n) \/ Optional(l, n) \/ Goto(l, n)
    BY <1>1, <1>2, <1>4 DEF DoTrain, Source, CmdEnd, Goto, Script
  <2> QED
    BY <1>2, <2>1, SettlesPlain, SettlesBack
<1>5. "doTrain" \in CallLabels /\ "doTrain" \notin LoadLabels
  BY DEF CallLabels, LoadLabels
<1>6. ASSUME NEW n \in Int, n # -1 PROVE F("doTrain", n) \in Calm
  <2>1. F("doTrain", n) \in Frame /\ F("doTrain", n).at = "doTrain" /\ F("doTrain", n).n = n
    BY <1>5, FrameType
  <2> QED
    BY <1>6, <2>1 DEF Calm
<1>7. CASE TrainInput
  <2>1. PICK n \in Commands \cup {-1} : Become(<< F("doTrain", n), F("loop", 0) >>)
    BY <1>7 DEF TrainInput
  <2>2. ~Quiet /\ n \in Int /\ 0 \in Int
    BY <1>7, SceneAssumption DEF TrainInput, Played, Quiet, Begun
  <2> QED
    BY <1>1, <1>2, <1>5, <2>1, <2>2, SettlesInto
<1>8. CASE DoTrainRefused
  BY <1>2, <1>8, SettlesRaise DEF DoTrainRefused
<1>9. ASSUME Quiet, Head(pc).at \in {"trainsCheck", "trainsChecked"} PROVE N # -1
  <2>1. Head(pc) \in Calm
    BY <1>2, <1>9 DEF Quiet
  <2> QED
    BY <1>9, <2>1 DEF Calm, N
<1>10. CASE Become(<< F("doTrain", N), F("trainsNext", 0) >>) /\ Head(pc).at \in {"trainsCheck", "trainsChecked"}
  <2>1. Quiet => F("doTrain", N) \in Calm
    BY <1>2, <1>6, <1>9, <1>10
  <2>2. 0 \in Int
    OBVIOUS
  <2> QED
    BY <1>1, <1>2, <1>5, <1>10, <2>1, <2>2, SettlesInto
<1>11. ASSUME NEW l \in {"trainsCheck", "trainsChecked"}, NEW n \in Int, Quiet => n # -1,
              Call(l, n) \/ Goto(l, n)
       PROVE  Settles(pc')
  <2>1. l \in CallLabels /\ l \notin LoadLabels
    BY DEF CallLabels, LoadLabels
  <2>2. F(l, n) \in Frame /\ F(l, n).at = l /\ F(l, n).n = n
    BY <2>1, FrameType
  <2>3. Quiet => F(l, n) \in Calm
    BY <1>11, <2>2 DEF Calm
  <2> QED
    BY <1>2, <1>11, <2>1, <2>3, SettlesOn
<1>12. CASE TrainsCheck
  <2>1. CASE Call("trainsChecked", N)
    BY <1>2, <1>9, <1>11, <1>12, <2>1 DEF TrainsCheck, At
  <2>2. CASE ~Call("trainsChecked", N)
    BY <1>10, <1>12, <2>2 DEF TrainsCheck, At
  <2> QED
    BY <2>1, <2>2
<1>13. CASE TrainsChecked
  BY <1>10, <1>13 DEF TrainsChecked, At
<1>14. CASE TrainsNext
  <2>1. CASE Return
    BY <1>2, <2>1, SettlesBack
  <2>2. CASE ~Return
    <3>1. PICK c \in Commands : Goto("trainsCheck", c)
      BY <1>14, <2>2 DEF TrainsNext
    <3>2. c \in Int /\ c # -1
      BY SceneAssumption
    <3> QED
      BY <1>11, <3>1, <3>2
  <2> QED
    BY <2>1, <2>2
<1> QED
  BY <1>3, <1>4, <1>7, <1>8, <1>12, <1>13, <1>14 DEF Train

\* What saving, loading and a lost user interface do.
LEMMA SaveLoadSettles == ASSUME IInv, Nests(pc), SaveLoad \/ UIGone PROVE Settles(pc')
<1>1. pc # << >> /\ N \in Int
  <2>1. pc # << >>
    BY StepRuns DEF Next
  <2> QED
    BY <2>1, Running
<1>2. {"saveReplaced", "saveAsk"} \subseteq Plain
  BY DEF Plain, SceneLabels, CallLabels, LoadLabels
<1>3. CASE SaveEnters
  BY <1>1, <1>2, <1>3, SettlesPlain DEF SaveEnters
<1>4. CASE SaveReplaced
  BY <1>1, <1>2, <1>4, SettlesPlain, SettlesBack DEF SaveReplaced
<1>5. ASSUME NEW l \in {"saveCall", "write"}, NEW n \in Int, Quiet => n # AutoSlot, Optional(l, n) \/ Goto(l, n)
      PROVE  Settles(pc')
  <2>1. l \in CallLabels /\ l \notin LoadLabels
    BY DEF CallLabels, LoadLabels
  <2>2. F(l, n) \in Frame /\ F(l, n).at = l /\ F(l, n).n = n
    BY <2>1, FrameType
  <2>3. Quiet => F(l, n) \in Calm
    BY <1>5, <2>2 DEF Calm
  <2> QED
    BY <1>1, <1>5, <2>1, <2>3, SettlesOn
<1>6. CASE SaveAsk
  <2>1. CASE Return
    BY <1>1, <2>1, SettlesBack
  <2>2. CASE ~Return
    <3>1. PICK f \in Slots : Goto("saveCall", f)
      BY <1>6, <2>2 DEF SaveAsk
    <3>2. f \in Int /\ f # AutoSlot
      BY SceneAssumption DEF AutoSlot
    <3> QED
      BY <1>5, <3>1, <3>2
  <2> QED
    BY <2>1, <2>2
<1>7. CASE SaveCalls
  <2>1. Head(pc).at = "saveCall" /\ Optional("write", N)
    BY <1>7 DEF SaveCalls, At
  <2>2. Quiet => N # AutoSlot
    <3>1. Quiet => Head(pc) \in Calm
      BY <1>1 DEF Quiet
    <3> QED
      BY <2>1, <3>1 DEF Calm, N
  <2> QED
    BY <1>1, <1>5, <2>1, <2>2
<1>8. CASE Writes
  BY <1>1, <1>8, SettlesBack, SettlesRaise DEF Writes
<1>9. ASSUME NEW l \in LoadLabels, Head(pc).at \in LoadLabels, Call(l, 0) \/ Optional(l, 0) \/ Goto(l, 0)
      PROVE  Settles(pc')
  <2>1. l \in CallLabels /\ 0 \in Int
    BY DEF CallLabels, LoadLabels
  <2>2. F(l, 0) \in Frame /\ F(l, 0).at = l
    BY <2>1, FrameType
  <2>3. F(l, 0) \in Calm
    BY <2>2 DEF Calm, LoadLabels
  <2> QED
    BY <1>1, <1>9, <2>1, <2>3, SettlesOn
<1>10. CASE LoadEnters
  BY <1>9, <1>10 DEF LoadEnters, At, LoadLabels
<1>11. CASE LoadReplaced
  <2>1. CASE Return
    BY <1>1, <2>1, SettlesBack
  <2>2. CASE ~Return
    BY <1>9, <1>11, <2>2 DEF LoadReplaced, At, LoadLabels
  <2> QED
    BY <2>1, <2>2
<1>12. CASE LoadAsk
  BY <1>1, <1>12, SettlesBack, SettlesRaise DEF LoadAsk
<1>13. CASE NestedLoaded
  BY <1>1, <1>13, SettlesBack, SettlesRaise DEF NestedLoaded
<1>14. CASE UIGone
  BY <1>1, <1>14, SettlesRaise DEF UIGone
<1> QED
  BY <1>3, <1>4, <1>6, <1>7, <1>8, <1>10, <1>11, <1>12, <1>13, <1>14 DEF SaveLoad

\* The stack settles, whatever step is taken.
LEMMA StackSettles == ASSUME IInv, Nests(pc), Next PROVE Settles(pc')
BY ScriptSettles, SceneSettles, TrainSettles, SaveLoadSettles DEF Next

\* The way on from a scene of Us.
LEMMA WayOn == ASSUME NEW Us, AutosaveNeedsPlay(Us), NEW s \in Us
               PROVE  /\ Onward(s) \subseteq Us
                      /\ "autosave" \in Onward(s) => s = "loadend"
<1>1. s \in AllScenes \ {"booting", "newgame", "turnend"}
  BY DEF AutosaveNeedsPlay
<1>2. CASE s \in DOMAIN DefaultNext
  <2>1. Graph!Rules(s) = {DefaultNext[s]} /\ DefaultNext[s] \in Us /\ DefaultNext[s] # "autosave"
    <3>1. Graph!Rules(s) = {DefaultNext[s]}
      <4>1. DOMAIN DefaultNext = {"newgame", "autosave", "trainend", "turnend", "loadend"}
        BY DEF DefaultNext
      <4>2. s \notin {"booting", "title", "train"}
        BY <1>2, <4>1
      <4> QED
        BY <1>2, <4>2, SameDefault DEF Graph!Rules
    <3>2. DefaultNext[s] # "autosave"
      BY <1>1, <1>2 DEF DefaultNext
    <3> QED
      BY <1>2, <3>1, <3>2 DEF AutosaveNeedsPlay
  <2> QED
    BY <2>1 DEF AutosaveNeedsPlay, Onward
<1>3. CASE s \notin DOMAIN DefaultNext
  <2>1. s = "train" \/ Graph!Rules(s) \subseteq {"newgame"}
    BY <1>1, <1>3, SameDefault DEF Graph!Rules
  <2>2. Onward(s) \subseteq Jumps[s]
    BY <2>1 DEF Onward
  <2> QED
    BY <2>2 DEF AutosaveNeedsPlay
<1> QED
  BY <1>2, <1>3

\* A scene of Us starts.
LEMMA StartsUnplayed == ASSUME NEW Us, NEW s \in Us, s = "autosave" => current = "loadend", Switch(s)
                        PROVE  Unplayed(Us)'
<1>1. F("enter", 0) \in Calm
  <2>1. "enter" \in Plain
    BY DEF Plain, SceneLabels, LoadLabels
  <2> QED
    BY <2>1, PlainFrame
<1>2. << F("enter", 0) >> \in Seq(Calm)
  BY <1>1
<1> QED
  BY <1>2 DEF Switch, Unplayed

\* The call to which a load returns ends the scene, or a script goes on with loadend chosen.
LEMMA TransitEnds == ASSUME NEW Us, AutosaveNeedsPlay(Us), IInv, Transit, Next, ~GoesOnLoaded'
                     PROVE  Unplayed(Us)'
<1>1. pc # << >> /\ Head(pc).at \in {"nestedLoad", "titleLoad"} /\ res = "loadend" /\ res # NoScene
  <2>1. "loadend" # NoScene
    BY SceneAssumption DEF AllScenes
  <2> QED
    BY <2>1 DEF Transit, Loaders
<1>2. ~Scripts
  BY <1>1 DEF Scripts, ScriptChooses, ScriptReturns, ScriptExits, ScriptSaves, ScriptLoads, ScriptTrains, At
<1>3. Scenes => TitleLoaded
  BY <1>1 DEF Scenes, Boots, Booted, Enters, Replaced, Then, NewGame, NothingToDo, AutoSave, Begins, LoopEnds,
              Shows, ShowsMore, Handled, MenuInput, ShopInput, ShopChoice, TitleNew, TitleLoad, TitleReplaced,
              TitleQuit, At
<1>4. ~Train
  BY <1>1 DEF Train, CheckCommand, Checked, ShowsCommands, ShownOther, TrainInput, DoTrain, DoTrainRefused,
              Source, CmdEnd, TrainsCheck, TrainsChecked, TrainsNext, At
<1>5. SaveLoad => NestedLoaded
  BY <1>1 DEF SaveLoad, SaveEnters, SaveReplaced, SaveAsk, SaveCalls, Writes, LoadEnters, LoadReplaced, LoadAsk, At
<1>6. ~UIGone
  BY <1>1 DEF UIGone, At
<1>7. Switch("loadend")
  <2>1. CASE TitleLoaded
    BY <1>1, <2>1 DEF TitleLoaded, Leave
  <2>2. CASE NestedLoaded
    <3>1. Raise("next", "loadend")
      BY <1>1, <2>2 DEF NestedLoaded
    <3>2. ~Caught("next", "loadend")
      <4>1. Caught("next", "loadend") => next' = "loadend" /\ At("script")'
        BY <1>1, CaughtInScript DEF Caught
      <4> QED
        BY <4>1 DEF GoesOnLoaded
    <3> QED
      BY <1>1, <3>1, <3>2 DEF Raise, Uncaught
  <2> QED
    BY <1>2, <1>3, <1>4, <1>5, <1>6, <2>1, <2>2 DEF Next
<1> QED
  BY <1>7, StartsUnplayed DEF AutosaveNeedsPlay

\* A load returns to the call that ends the scene.
LEMMA LoadsReturn == ASSUME IInv, Nests(pc), At("loadAsk"), Return, res' = "loadend"
                     PROVE  Transit'
<1>1. pc # << >> /\ Head(pc).at \in LoadLabels
  BY DEF At, LoadLabels
<1> QED
  BY <1>1, SettlesBelow DEF Return, Transit

\* While nothing but the scripts and the rules goes on, nothing else begins.
LEMMA UnplayedSteps == ASSUME NEW Us, AutosaveNeedsPlay(Us), IInv, StackIs, Nests(pc), Unplayed(Us),
                              data = "loaded", data' = "loaded", Next
                       PROVE  Transit' \/ Unplayed(Us)'
<1>1. pc # << >> /\ Head(pc) \in Calm /\ pc' \in Seq(Calm)
  <2>1. pc # << >>
    BY StepRuns
  <2>2. Quiet
    BY DEF Unplayed, Quiet
  <2> QED
    BY <2>1, <2>2, StackSettles DEF Unplayed, Settles
<1>2. Chosen \subseteq {NoScene} \cup Onward(current)
  <2>1. ~BackFromShop /\ ~BackFromTrain
    BY <1>1 DEF Calm, BackFromShop, BackFromTrain, At, N
  <2> QED
    BY <2>1 DEF Chosen, Unplayed
<1>3. /\ Onward(current) \subseteq Us
      /\ "autosave" \in Onward(current) => current = "loadend"
  BY WayOn DEF Unplayed
<1>4. CASE Stays
  <2>1. CASE res' \in Chosen
    BY <1>1, <1>2, <1>4, <2>1 DEF Stays, Unplayed, Onward
  <2>2. CASE res' \notin Chosen
    BY <1>4, <2>2, LoadsReturn DEF Stays
  <2> QED
    BY <2>1, <2>2
<1>5. CASE \E s \in AllScenes : Starts(s)
  <2>1. PICK s \in AllScenes : Starts(s)
    BY <1>5
  <2>2. s \in Onward(current) /\ Switch(s)
    BY <1>2, <2>1, SceneAssumption DEF Starts
  <2> QED
    BY <1>3, <2>2, StartsUnplayed
<1>6. CASE Stops
  BY <1>1, <1>2, <1>6 DEF Stops, Unplayed, Onward
<1> QED
  BY <1>4, <1>5, <1>6, Shapes DEF Shape

\* Whatever step is taken, unless a script goes on with loadend chosen.
LEMMA LoadSteps == ASSUME NEW Us, AutosaveNeedsPlay(Us), IInv, StackIs, LoadInv(Us), [Next]_vars, ~GoesOnLoaded'
                   PROVE  LoadInv(Us)'
<1>1. CASE UNCHANGED vars
  BY <1>1 DEF vars, LoadInv, Transit, Unplayed
<1>2. CASE Next
  <2>1. pc # << >> /\ Nests(pc) /\ DataStep /\ Nests(pc')
    BY <1>2, StepRuns, DataSteps, StackSettles DEF LoadInv, Settles
  <2>2. saved'[AutoSlot] # "loaded"
    <3>1. CASE UNCHANGED saved
      BY <3>1 DEF LoadInv
    <3>2. CASE Writing
      <4>1. Head(pc).at = "write" /\ AutoSlot \in Files
        BY <3>2 DEF Writing, At, Files
      <4>2. data = "loaded" => N # AutoSlot
        <5>1. ~Transit
          BY <4>1 DEF Transit, Loaders
        <5>2. ASSUME Unplayed(Us) PROVE N # AutoSlot
          <6>1. Head(pc) \in Calm
            BY <2>1, <5>2 DEF Unplayed
          <6> QED
            BY <4>1, <6>1 DEF Calm, N
        <5> QED
          BY <5>1, <5>2 DEF LoadInv
      <4> QED
        BY <3>2, <4>1, <4>2 DEF Writing, LoadInv
    <3> QED
      BY <2>1, <3>1, <3>2 DEF DataStep, gameVars, Loading
  <2>3. ASSUME data' = "loaded" PROVE Transit' \/ Unplayed(Us)'
    <3>1. CASE data # "loaded"
      <4>1. At("loadAsk") /\ Return /\ res' = "loadend"
        BY <2>1, <2>3, <3>1 DEF DataStep, gameVars, Played, Begun, Writing, Loading
      <4> QED
        BY <2>1, <4>1, LoadsReturn
    <3>2. CASE data = "loaded" /\ Transit
      BY <1>2, <3>2, TransitEnds
    <3>3. CASE data = "loaded" /\ Unplayed(Us)
      BY <1>2, <2>1, <2>3, <3>3, UnplayedSteps
    <3> QED
      BY <3>1, <3>2, <3>3 DEF LoadInv
  <2> QED
    BY <2>1, <2>2, <2>3 DEF LoadInv
<1> QED
  BY <1>1, <1>2

\* A game that was just loaded is not written over the autosave before the player did
\* anything (scene_autosave.go:36), unless a script caught the demand for the scene by
\* which its load ends, and went on; for any scripts that lead from loadend to the
\* autosave scene directly or not without the player.
THEOREM LoadNotAutosaved == ASSUME NEW CONSTANT Us, AutosaveNeedsPlay(Us) PROVE Spec => LoadIsNotAutosaved
<1>1. Init => IInv /\ StackIs /\ LoadInv(Us)
  <2> SUFFICES ASSUME Init PROVE StackIs /\ LoadInv(Us)
    BY InitHolds
  <2>1. Nests(<< F("enter", 0) >>)
    <3>1. "enter" \in SceneLabels /\ "enter" \notin LoadLabels
      BY DEF SceneLabels, LoadLabels
    <3>2. F("enter", 0).at = "enter"
      BY <3>1, FrameType
    <3> QED
      BY <3>1, <3>2 DEF Nests
  <2>2. AutoSlot \in Files
    BY DEF Files
  <2> QED
    BY <2>1, <2>2 DEF Init, StackIs, LoadInv
<1>2. IInv /\ StackIs /\ LoadInv(Us) /\ [Next]_vars /\ ~GoesOnLoaded' => (IInv /\ StackIs /\ LoadInv(Us))'
  BY Inductive, StackStays, LoadSteps DEF Good
<1>3. IInv /\ StackIs /\ LoadInv(Us) => saved[AutoSlot] # "loaded"
  BY DEF LoadInv
<1>4. Spec => [](saved[AutoSlot] # "loaded") \/ <>GoesOnLoaded
  BY <1>1, <1>2, <1>3, PTL DEF Spec
<1> QED
  BY <1>4 DEF LoadIsNotAutosaved, GoesOnLoaded
=============================================================================
