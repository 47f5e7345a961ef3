----------------------------- MODULE PortProofs ------------------------------
(***************************************************************************)
(* Theorems about the two ports between the game and the UI.               *)
(*                                                                         *)
(* InputPort: for every set of texts, numbers, macros and user events and  *)
(* for every bound.                                                        *)
(*                                                                         *)
(* TextPipe and PendingEvents: however the events that wait are merged,    *)
(* and whenever they are published, the UI is shown what the game has      *)
(* printed and is asked for what the game waits for - for all texts,       *)
(* numbers of lines and lengths of the list of events.                     *)
(***************************************************************************)
EXTENDS InputPort, TextPipe, SequenceTheorems, WellFoundedInduction, TLAPS

-----------------------------------------------------------------------------
(* Facts about the constants and the helper operators.                     *)

\* The empty command is a command, so the empty reply is a reply.
LEMMA EmptyIsCommand == Empty \in Commands /\ NoReply \in Replies
BY CommandAssumption DEF Commands, NoReply, Replies

\* An event made without a command is an event of its type.
LEMMA EvIsEvent == \A t \in EventTypes : Ev(t) \in Event /\ Ev(t).type = t
BY EmptyIsCommand DEF Ev, Event

\* Every kind of request has a Start and a Stop event.
LEMMA StartStopTypes ==
    \A k \in InputKinds : /\ StartOf(k) \in StartTypes /\ StartOf(k) \in EventTypes
                          /\ StopOf(k) \in StopTypes   /\ StopOf(k) \in EventTypes
BY DEF InputKinds, StartOf, StopOf, StartTypes, StopTypes, EventTypes

\* What the UI may send are events.
LEMMA UserEventsAreEvents ==
    UserEvents \subseteq Event /\ \A e \in UserEvents : e.type \in UserTypes
BY EventAssumption DEF Event, EventTypes

\* Numbers are commands.
LEMMA NumbersAreCommands == Numbers \subseteq Commands
BY DEF Commands

\* An event leads from an input state to an input state.
LEMMA NextStateType == \A s \in InputStates, t \in EventTypes : NextState(s, t) \in InputStates
BY DEF NextState, InputStates

\* Heads, tails, suffixes and extensions of sequences.
LEMMA SeqFacts ==
    ASSUME NEW S
    PROVE  /\ <<>> \in Seq(S)
           /\ \A s \in Seq(S), e \in S : Append(s, e) \in Seq(S) /\ <<e>> \o s \in Seq(S)
           /\ \A s \in Seq(S) : s # <<>> => Tail(s) \in Seq(S) /\ Head(s) \in S
OBVIOUS

\* Posting at either end leaves the deque a sequence of events.
LEMMA PostType ==
    ASSUME ebuf \in Seq(Event), NEW e \in Event, Post(e) \/ PostFirst(e)
    PROVE  ebuf' \in Seq(Event)
<1>1. CASE Post(e)
  BY <1>1 DEF Post
<1>2. CASE PostFirst(e)
  BY <1>2, SeqFacts DEF PostFirst
<1>3. QED
  BY <1>1, <1>2

\* Sending to the command buffer and starting a macro keep it typed.
LEMMA BufferSeqs ==
    /\ <<>> \in Seq(Commands) /\ <<>> \in Seq(Tokens)
    /\ \A s \in Seq(Commands), e \in Commands : Append(s, e) \in Seq(Commands)
BY SeqFacts

-----------------------------------------------------------------------------
(* The type invariant.                                                     *)

\* The initial state is well typed.
LEMMA TypeInit == PortInit => PortTypeOK
<1> SUFFICES ASSUME PortInit PROVE PortTypeOK
  OBVIOUS
<1>1. NoEvent \in Event
  BY EvIsEvent DEF NoEvent, EventTypes, UserTypes
<1>2. /\ ebuf \in Seq(Event) /\ commands \in Seq(Commands) /\ macro \in Seq(Tokens)
      /\ upc \in Seq(UserEvents) /\ Len(upc) <= 1
  BY SeqFacts DEF PortInit
<1>3. calls \in 0..MaxCalls /\ sent \in 0..MaxEvents
  BY BoundAssumption DEF PortInit
<1>4. call \in [kind : InputKinds, timed : BOOLEAN]
  BY DEF PortInit, InputKinds
<1>5. QED
  BY <1>1, <1>2, <1>3, <1>4, EmptyIsCommand DEF PortInit, PortTypeOK, InputStates

\* Every action leaves every variable in its type.
LEMMA TypeStep == PortTypeOK /\ [PortNext]_portVars => PortTypeOK'
<1> SUFFICES ASSUME PortTypeOK, [PortNext]_portVars PROVE PortTypeOK'
  OBVIOUS
<1> USE DEF PortTypeOK, bufVars, filterVars, runVars, gameVars, rcvVars, uiVars
<1>0. NoEvent \in Event /\ \A t \in EventTypes : Ev(t) \in Event
  BY EvIsEvent DEF NoEvent, EventTypes, UserTypes
<1>1. CASE UserChecks
  <2>1. PICK e \in UserEvents : upc' = <<e>>
    BY <1>1 DEF UserChecks
  <2>2. upc' \in Seq(UserEvents) /\ Len(upc') <= 1
    BY <2>1
  <2>3. sent' \in 0..MaxEvents
    BY <1>1, BoundAssumption DEF UserChecks
  <2>4. QED
    BY <1>1, <2>2, <2>3 DEF UserChecks
<1>2. CASE UserPosts
  <2>1. upc[1] \in Event
    BY <1>2, UserEventsAreEvents DEF UserPosts
  <2>2. QED
    BY <1>2, <2>1 DEF UserPosts, Post
<1>3. CASE FilterTakes
  BY <1>3 DEF FilterTakes
<1>4. CASE FilterMacro
  <2>1. StartsMacro => MacroTokens[fev.cmd] \in Seq(Tokens)
    BY CommandAssumption DEF StartsMacro
  <2>2. macro' \in Seq(Tokens)
    BY <1>4, <2>1, BufferSeqs DEF FilterMacro, StartMacro, StopMacro
  <2>3. rcv' \in {"none", "running", "asleep", "done"} /\ got' \in Replies
    BY <1>4 DEF FilterMacro, StartMacro, StopMacro, Signal, Woken
  <2>4. macroState' \in {"nothing", "running"}
    BY <1>4 DEF FilterMacro
  <2>5. QED
    BY <1>4, <2>2, <2>3, <2>4 DEF FilterMacro
<1>5. CASE FilterInput
  <2>1. commands' \in Seq(Commands)
    <3>1. fev.cmd \in Commands
      BY DEF Event
    <3>2. Append(commands, fev.cmd) \in Seq(Commands)
      BY <3>1
    <3>3. QED
      BY <1>5, <3>2 DEF FilterInput, CbufSend
  <2>2. rcv' \in {"none", "running", "asleep", "done"} /\ got' \in Replies
    BY <1>5 DEF FilterInput, CbufSend, Signal, Woken
  <2>3. QED
    BY <1>5, <1>0, <2>1, <2>2 DEF FilterInput
<1>6. CASE FilterExits
  <2>1. commands' \in Seq(Commands)
    BY <1>6, BufferSeqs DEF FilterExits, CbufClear
  <2>2. fpc' \in {"macrosize", "enter"}
    BY <1>6 DEF FilterExits
  <2>3. QED
    BY <1>6, <2>1, <2>2 DEF FilterExits
<1>7. CASE FilterReportsMacroDone
  <2>1. Ev("MacroDone") \in Event
    BY <1>0 DEF EventTypes
  <2>2. ebuf' \in Seq(Event)
    BY <1>7, <2>1, PostType DEF FilterReportsMacroDone
  <2>3. QED
    BY <1>7, <2>2 DEF FilterReportsMacroDone
<1>8. CASE FilterEnters
  <2>1. FNext \in InputStates
    BY NextStateType DEF FNext, Event
  <2>2. commands' \in Seq(Commands)
    <3>1. CASE FNext = "waitSkipping"
      BY <1>8, <3>1, EmptyIsCommand, BufferSeqs, SMTT(30) DEF FilterEnters, CbufSend
    <3>2. CASE FNext # "waitSkipping"
      BY <1>8, <3>2, BufferSeqs DEF FilterEnters, CbufClear
    <3>3. QED
      BY <3>1, <3>2
  <2>3. rcv' \in {"none", "running", "asleep", "done"} /\ got' \in Replies
    BY <1>8 DEF FilterEnters, CbufSend, Signal, Woken
  <2>4. QED
    BY <1>8, <1>0, <2>1, <2>2, <2>3 DEF FilterEnters
<1>9. CASE Run
  <2>1. Ev("Quit") \in Event
    BY <1>0 DEF EventTypes, UserTypes
  <2>2. CASE RunSelects
    BY <2>2 DEF RunSelects
  <2>3. CASE CloseMarks
    BY <2>3 DEF CloseMarks
  <2>4. CASE CloseBuffer
    BY <2>4, BufferSeqs DEF CloseBuffer, Signal, Woken
  <2>5. CASE ClosePosts
    BY <2>5, <2>1, PostType DEF ClosePosts
  <2>6. QED
    BY <1>9, <2>2, <2>3, <2>4, <2>5 DEF Run
<1>10. CASE Begin
  <2>1. calls' \in 0..MaxCalls
    BY <1>10, BoundAssumption DEF Begin
  <2>2. reply' \in Replies
    BY <1>10, EmptyIsCommand DEF Begin, Returns, Replies
  <2>3. QED
    BY <1>10, <2>1, <2>2 DEF Begin
<1>11. CASE GameSyncs
  <2>1. Ev(StartOf(call.kind)) \in Event
    BY <1>0, StartStopTypes
  <2>2. ebuf' \in Seq(Event)
    BY <1>11, <2>1, PostType DEF GameSyncs
  <2>3. reply' \in Replies
    BY <1>11, EmptyIsCommand DEF GameSyncs, Returns, Replies
  <2>4. QED
    BY <1>11, <2>2, <2>3 DEF GameSyncs
<1>12. CASE Observes \/ Prepares \/ Expires \/ Cancels \/ Broadcasts
  <2>1. CASE Observes
    BY <2>1 DEF Observes
  <2>2. CASE Prepares
    BY <2>2, EmptyIsCommand DEF Prepares
  <2>3. CASE Expires
    BY <2>3 DEF Expires
  <2>4. CASE Cancels
    <3>1. waiting' \in BOOLEAN
      BY <2>4 DEF Cancels
    <3>2. QED
      BY <2>4, <3>1 DEF Cancels
  <2>5. CASE Broadcasts
    BY <2>5 DEF Broadcasts, Signal, Woken
  <2>6. QED
    BY <1>12, <2>1, <2>2, <2>3, <2>4, <2>5
<1>13. CASE Joins \/ TakesResult
  BY <1>13, EmptyIsCommand DEF Joins, TakesResult, Returns, Replies
<1>14. CASE Stops
  <2>1. Ev(StopOf(call.kind)) \in Event
    BY <1>0, StartStopTypes
  <2>2. ebuf' \in Seq(Event)
    BY <1>14, <2>1, PostType DEF Stops
  <2>3. expired' \in BOOLEAN
    BY <1>14 DEF Stops
  <2>4. QED
    BY <1>14, <2>2, <2>3 DEF Stops
<1>15. CASE GameEnds \/ GameQuits \/ GameCancels
  <2>1. Ev("Quit") \in Event
    BY <1>0 DEF EventTypes, UserTypes
  <2>2. CASE GameQuits
    BY <2>2, <2>1, PostType DEF GameQuits
  <2>3. CASE GameEnds
    BY <2>3 DEF GameEnds
  <2>4. CASE GameCancels
    BY <2>4 DEF GameCancels
  <2>5. QED
    BY <1>15, <2>2, <2>3, <2>4
<1>16. CASE ReceiverRefused
  BY <1>16, EmptyIsCommand DEF ReceiverRefused, Finishes, Replies
<1>17. CASE ReceiverSkips
  <2>1. macro' \in Seq(Tokens)
    BY <1>17 DEF ReceiverSkips
  <2>2. rcv' = "done" /\ got' \in Replies
    BY <1>17, EmptyIsCommand DEF ReceiverSkips, Finishes, Replies
  <2>3. QED
    BY <1>17, <2>1, <2>2 DEF ReceiverSkips
<1>18. CASE ReceiverTakesMacro
  <2>1. PICK k \in 1..Len(macro) :
           /\ call.kind # "wait" /\ FirstWanted(k)
           /\ macro' = SubSeq(macro, k + 1, Len(macro))
           /\ Finishes("none", macro[k])
    BY <1>18 DEF ReceiverTakesMacro
  <2>2. macro' \in Seq(Tokens)
    BY <2>1
  <2>3. macro[k] \in Commands
    BY <2>1, NumbersAreCommands DEF FirstWanted, Wanted
  <2>4. rcv' = "done" /\ got' \in Replies
    BY <2>1, <2>3 DEF Finishes, Replies
  <2>5. QED
    BY <1>18, <2>2, <2>4 DEF ReceiverTakesMacro
<1>19. CASE ReceiverTakesCommand
  BY <1>19, EmptyIsCommand DEF ReceiverTakesCommand, Finishes, Replies
<1>20. CASE ReceiverSleeps
  BY <1>20 DEF ReceiverSleeps
<1>21. CASE UNCHANGED portVars
  BY <1>21 DEF portVars
<1>22. QED
  BY <1>1, <1>2, <1>3, <1>4, <1>5, <1>6, <1>7, <1>8, <1>9, <1>10, <1>11, <1>12,
     <1>13, <1>14, <1>15, <1>16, <1>17, <1>18, <1>19, <1>20, <1>21
  DEF PortNext, Filter, InCall, Receiver

\* Every reachable state is well typed: in particular an input state is only
\* ever followed by an input state, and the deque only ever holds events.
THEOREM TypeCorrect == PortSpec => []PortTypeOK
BY TypeInit, TypeStep, PTL DEF PortSpec

-----------------------------------------------------------------------------
(* The hand-off between the game thread and its receiving goroutine.       *)

\* NoLostWakeup and NeverCancelledByOther with what makes them inductive: the
\* goroutine lives only between Prepares and the step that joins it, and the
\* wait is not cancelled while the game thread is in its select.
HandOff ==
    /\ gpc \notin {"select", "broadcast", "join"} => rcv = "none"
    /\ gpc = "select" => waiting
    /\ NoLostWakeup
    /\ NeverCancelledByOther

\* The hand-off invariant holds initially.
LEMMA HandOffInit == PortInit => HandOff
BY DEF PortInit, HandOff, NoLostWakeup, NeverCancelledByOther, NoReply

\* Every step keeps the hand-off between buffer and receiver.
LEMMA HandOffStep == PortTypeOK /\ HandOff /\ [PortNext]_portVars => HandOff'
<1> SUFFICES ASSUME PortTypeOK, HandOff, [PortNext]_portVars PROVE HandOff'
  OBVIOUS
<1> USE DEF HandOff, NoLostWakeup, NeverCancelledByOther, bufVars, filterVars,
            runVars, gameVars, rcvVars, uiVars
<1>1. CASE UserChecks \/ UserPosts \/ FilterTakes \/ FilterReportsMacroDone
  BY <1>1 DEF UserChecks, UserPosts, FilterTakes, FilterReportsMacroDone
<1>2. CASE FilterMacro
  BY <1>2 DEF FilterMacro, StartMacro, StopMacro, Signal, Woken
<1>3. CASE FilterInput
  BY <1>3 DEF FilterInput, CbufSend, Signal, Woken
<1>4. CASE FilterExits
  BY <1>4 DEF FilterExits, CbufClear
<1>5. CASE FilterEnters
  <2>1. CASE FNext = "waitSkipping"
    BY <1>5, <2>1 DEF FilterEnters, CbufSend, Signal, Woken
  <2>2. CASE FNext # "waitSkipping"
    BY <1>5, <2>2 DEF FilterEnters, CbufClear
  <2>3. QED
    BY <2>1, <2>2
<1>6. CASE RunSelects \/ CloseMarks \/ ClosePosts
  BY <1>6 DEF RunSelects, CloseMarks, ClosePosts
<1>7. CASE CloseBuffer
  BY <1>7 DEF CloseBuffer, Signal, Woken
<1>8. CASE Begin
  BY <1>8 DEF Begin, Returns, NoReply
<1>9. CASE GameSyncs \/ Observes \/ Expires
  BY <1>9 DEF GameSyncs, Observes, Expires, Returns
<1>10. CASE Prepares
  BY <1>10 DEF Prepares, NoReply
<1>11. CASE Cancels \/ Broadcasts
  BY <1>11 DEF Cancels, Broadcasts, Signal, Woken
<1>12. CASE Joins \/ TakesResult
  BY <1>12 DEF Joins, TakesResult, Returns, NoReply
<1>13. CASE Stops \/ GameEnds \/ GameQuits \/ GameCancels
  BY <1>13 DEF Stops, GameEnds, GameQuits, GameCancels
<1>14. CASE ReceiverRefused
  BY <1>14 DEF ReceiverRefused, Finishes, PortTypeOK
<1>15. CASE ReceiverSkips
  BY <1>15 DEF ReceiverSkips, Receiving, Finishes
<1>16. CASE ReceiverTakesMacro
  BY <1>16 DEF ReceiverTakesMacro, Receiving, Finishes
<1>17. CASE ReceiverTakesCommand
  BY <1>17 DEF ReceiverTakesCommand, Receiving, Finishes
<1>18. CASE ReceiverSleeps
  BY <1>18 DEF ReceiverSleeps, Receiving
<1>19. CASE UNCHANGED portVars
  BY <1>19 DEF portVars
<1>20. QED
  BY <1>1, <1>2, <1>3, <1>4, <1>5, <1>6, <1>7, <1>8, <1>9, <1>10, <1>11, <1>12,
     <1>13, <1>14, <1>15, <1>16, <1>17, <1>18, <1>19
  DEF PortNext, Filter, Run, InCall, Receiver

\* No receiver ever sleeps on a buffer that holds something for it, is closed
\* or has been cancelled: commandBuffer loses no wake-up.
THEOREM WakeupsKept == PortSpec => []NoLostWakeup
<1>1. HandOff => NoLostWakeup
  BY DEF HandOff
<1>2. QED
  BY <1>1, TypeInit, TypeStep, HandOffInit, HandOffStep, PTL DEF PortSpec

\* The "cancelled by external factor" branches are unreachable: only the
\* timeout of the same call cancels a wait.
THEOREM CancelIsOwn == PortSpec => []NeverCancelledByOther
<1>1. HandOff => NeverCancelledByOther
  BY DEF HandOff
<1>2. QED
  BY <1>1, TypeInit, TypeStep, HandOffInit, HandOffStep, PTL DEF PortSpec

-----------------------------------------------------------------------------
(* The macro and its MacroDone event.                                      *)

Inner == StopTypes \cup {"MacroDone"}

\* While a MacroDone event is on the deque the macro is used up, and only
\* events of the port itself are ahead of it: the filter cannot start another
\* macro before it has handled the event.
DoneOnDeque ==
    \A i \in 1..Len(ebuf) : ebuf[i].type = "MacroDone" =>
        /\ macro = <<>>
        /\ fpc = "macro" => fev.type \in Inner
        /\ \A j \in 1..(i - 1) : ebuf[j].type \in Inner

\* The same for the event the filter has in hand.
DoneInHand == fpc = "macro" /\ fev.type = "MacroDone" => macro = <<>>

MacroInv == NoOrphanMacro /\ DoneOnDeque /\ DoneInHand

\* No macro runs initially.
LEMMA MacroInit == PortInit => MacroInv
BY DEF PortInit, MacroInv, NoOrphanMacro, DoneOnDeque, DoneInHand

\* An event that is not MacroDone may be posted at the end of the deque, and
\* a Stop event, or MacroDone once the macro is used up, at its front.
LEMMA PostKeepsDone ==
    ASSUME PortTypeOK, DoneOnDeque, UNCHANGED <<macro, fpc, fev>>,
           NEW e \in Event,
           \/ Post(e) /\ e.type # "MacroDone"
           \/ /\ PostFirst(e) /\ e.type \in Inner
              /\ e.type = "MacroDone" => macro = <<>> /\ fpc # "macro"
    PROVE  DoneOnDeque'
<1>1. CASE Post(e) /\ e.type # "MacroDone"
  <2>1. /\ Len(ebuf') = Len(ebuf) + 1
        /\ \A i \in 1..Len(ebuf) : ebuf'[i] = ebuf[i]
        /\ ebuf'[Len(ebuf) + 1] = e
    BY <1>1 DEF Post, PortTypeOK
  <2>2. Len(ebuf) \in Nat
    BY DEF PortTypeOK
  <2>3. QED
    BY <1>1, <2>1, <2>2 DEF DoneOnDeque
<1>2. CASE /\ PostFirst(e) /\ e.type \in Inner
           /\ e.type = "MacroDone" => macro = <<>> /\ fpc # "macro"
  <2>1. /\ Len(ebuf') = Len(ebuf) + 1
        /\ \A i \in 1..Len(ebuf) : ebuf'[i + 1] = ebuf[i]
        /\ ebuf'[1] = e
    BY <1>2 DEF PostFirst, PortTypeOK
  <2>2. Len(ebuf) \in Nat
    BY DEF PortTypeOK
  <2>3. ASSUME NEW i \in 1..Len(ebuf'), ebuf'[i].type = "MacroDone"
        PROVE  /\ macro' = <<>>
               /\ fpc' = "macro" => fev'.type \in Inner
               /\ \A j \in 1..(i - 1) : ebuf'[j].type \in Inner
    <3>1. CASE i = 1
      BY <1>2, <2>1, <2>3, <3>1
    <3>2. CASE i # 1
      <4>1. i - 1 \in 1..Len(ebuf) /\ ebuf[i - 1].type = "MacroDone"
        BY <2>1, <2>2, <2>3, <3>2
      <4>2. /\ macro = <<>> /\ (fpc = "macro" => fev.type \in Inner)
            /\ \A j \in 1..(i - 2) : ebuf[j].type \in Inner
        BY <4>1, <2>2 DEF DoneOnDeque
      <4>3. ASSUME NEW j \in 1..(i - 1) PROVE ebuf'[j].type \in Inner
        <5>1. CASE j = 1
          BY <1>2, <2>1, <5>1
        <5>2. CASE j # 1
          <6>1. j - 1 \in 1..(i - 2) /\ j - 1 \in 1..Len(ebuf)
            BY <5>2, <2>1, <2>2, <4>1
          <6>2. ebuf'[j] = ebuf[j - 1]
            BY <6>1, <2>1
          <6>3. QED
            BY <6>1, <6>2, <4>2
        <5>3. QED
          BY <5>1, <5>2
      <4>4. QED
        BY <4>2, <4>3
    <3>3. QED
      BY <3>1, <3>2
  <2>4. QED
    BY <2>3 DEF DoneOnDeque
<1>3. QED
  BY <1>1, <1>2

\* Every step keeps the macro invariant.
LEMMA MacroStep == PortTypeOK /\ MacroInv /\ [PortNext]_portVars => MacroInv'
<1> SUFFICES ASSUME PortTypeOK, MacroInv, [PortNext]_portVars PROVE MacroInv'
  OBVIOUS
<1> USE DEF MacroInv, bufVars, filterVars, runVars, gameVars, rcvVars, uiVars
<1>0. \A t \in EventTypes : Ev(t) \in Event /\ Ev(t).type = t
  BY EvIsEvent
\* Steps that leave the deque, the macro and the filter alone.
<1>1. ASSUME UNCHANGED <<ebuf, macro, fpc, fev, macroState>> PROVE MacroInv'
  BY <1>1 DEF NoOrphanMacro, DoneOnDeque, DoneInHand
\* Steps that take tokens away, or end the macro.
<1>2. ASSUME UNCHANGED <<ebuf, fpc, fev, macroState>>,
             macro = <<>> => macro' = <<>>
      PROVE  MacroInv'
  BY <1>2 DEF NoOrphanMacro, DoneOnDeque, DoneInHand
\* Steps that post an event and leave the macro and the filter alone.
<1>3. ASSUME UNCHANGED <<macro, fpc, fev, macroState>>, NEW e \in Event,
             \/ Post(e) /\ e.type # "MacroDone"
             \/ PostFirst(e) /\ e.type \in StopTypes
      PROVE  MacroInv'
  <2>1. DoneOnDeque'
    BY <1>3, PostKeepsDone DEF Inner, StopTypes
  <2>2. QED
    BY <1>3, <2>1 DEF NoOrphanMacro, DoneInHand
<1>4. CASE UserPosts
  <2>1. upc[1] \in Event /\ upc[1].type \in UserTypes
    BY <1>4, UserEventsAreEvents DEF UserPosts, PortTypeOK
  <2>2. QED
    BY <1>4, <1>3, <2>1 DEF UserPosts, UserTypes
<1>5. CASE FilterTakes
  <2>1. /\ Len(ebuf') = Len(ebuf) - 1
        /\ \A i \in 1..Len(ebuf') : ebuf'[i] = ebuf[i + 1]
        /\ Len(ebuf) \in Nat /\ Len(ebuf) > 0 /\ fev' = ebuf[1]
    BY <1>5 DEF FilterTakes, PortTypeOK
  <2>2. UNCHANGED <<macro, macroState>>
    BY <1>5 DEF FilterTakes
  <2>3. ASSUME NEW i \in 1..Len(ebuf'), ebuf'[i].type = "MacroDone"
        PROVE  /\ macro' = <<>>
               /\ fpc' = "macro" => fev'.type \in Inner
               /\ \A j \in 1..(i - 1) : ebuf'[j].type \in Inner
    <3>1. i + 1 \in 1..Len(ebuf) /\ ebuf[i + 1].type = "MacroDone"
      BY <2>1, <2>3
    <3>2. macro = <<>> /\ \A j \in 1..i : ebuf[j].type \in Inner
      BY <3>1, <2>1 DEF DoneOnDeque
    <3>3. QED
      BY <3>2, <2>1, <2>2
  <2>4. DoneInHand'
    BY <2>1, <2>2 DEF DoneInHand, DoneOnDeque
  <2>5. QED
    BY <2>2, <2>3, <2>4 DEF NoOrphanMacro, DoneOnDeque
<1>6. CASE FilterMacro
  <2>1. UNCHANGED ebuf /\ fpc' = "input" /\ fpc = "macro" /\ UNCHANGED fev
    BY <1>6 DEF FilterMacro
  <2>2. CASE StartsMacro /\ macroState' = "running"
    <3>1. fev.type \notin Inner
      BY <2>2 DEF StartsMacro, Inner, StopTypes
    <3>2. \A i \in 1..Len(ebuf) : ebuf[i].type # "MacroDone"
      BY <2>1, <3>1 DEF DoneOnDeque
    <3>3. QED
      BY <2>1, <2>2, <3>2 DEF NoOrphanMacro, DoneOnDeque, DoneInHand
  <2>3. CASE StopMacro
    BY <2>1, <2>3 DEF StopMacro, NoOrphanMacro, DoneOnDeque, DoneInHand
  <2>4. CASE UNCHANGED <<macroState, macro>>
    BY <2>1, <2>4 DEF NoOrphanMacro, DoneOnDeque, DoneInHand
  <2>5. QED
    BY <1>6, <2>2, <2>3, <2>4 DEF FilterMacro
\* The filter's other steps are in no state to hold a macro event.
<1>7. ASSUME UNCHANGED <<ebuf, macro, macroState>>, fpc' # "macro" PROVE MacroInv'
  BY <1>7 DEF NoOrphanMacro, DoneOnDeque, DoneInHand
<1>8. CASE FilterInput \/ FilterExits \/ FilterEnters
  BY <1>8, <1>7 DEF FilterInput, FilterExits, FilterEnters
<1>9. CASE FilterReportsMacroDone
  <2>1. UNCHANGED <<macro, macroState, fev>> /\ fpc = "macrosize" /\ fpc' = "enter"
    BY <1>9 DEF FilterReportsMacroDone
  <2>2. CASE macro # <<>>
    BY <1>9, <1>7, <2>1, <2>2 DEF FilterReportsMacroDone
  <2>3. CASE macro = <<>>
    <3>1. PICK e \in Event : e.type = "MacroDone" /\ PostFirst(e)
      BY <1>9, <1>0, <2>3 DEF FilterReportsMacroDone, EventTypes
    <3>2. /\ Len(ebuf') = Len(ebuf) + 1 /\ Len(ebuf) \in Nat
          /\ \A i \in 1..Len(ebuf) : ebuf'[i + 1] = ebuf[i]
          /\ ebuf'[1] = e
      BY <3>1 DEF PostFirst, PortTypeOK
    <3>3. ASSUME NEW i \in 1..Len(ebuf'), ebuf'[i].type = "MacroDone",
                 NEW j \in 1..(i - 1)
          PROVE  ebuf'[j].type \in Inner
      <4>1. CASE j = 1
        BY <4>1, <3>1, <3>2 DEF Inner
      <4>2. CASE j # 1
        <5>1. /\ i - 1 \in 1..Len(ebuf) /\ ebuf[i - 1].type = "MacroDone"
              /\ j - 1 \in 1..(i - 2) /\ j - 1 \in 1..Len(ebuf)
          BY <3>2, <3>3, <4>2
        <5>2. ebuf[j - 1].type \in Inner
          BY <5>1 DEF DoneOnDeque
        <5>3. ebuf'[j] = ebuf[j - 1]
          BY <5>1, <3>2
        <5>4. QED
          BY <5>2, <5>3
      <4>3. QED
        BY <4>1, <4>2
    <3>4. QED
      BY <2>1, <2>3, <3>3 DEF NoOrphanMacro, DoneOnDeque, DoneInHand
  <2>4. QED
    BY <2>2, <2>3
<1>10. CASE ClosePosts \/ GameQuits
  <2>1. Ev("Quit") \in Event /\ Ev("Quit").type = "Quit"
    BY <1>0 DEF EventTypes, UserTypes
  <2>2. QED
    BY <1>10, <1>3, <2>1 DEF ClosePosts, GameQuits
<1>11. CASE GameSyncs
  <2>1. /\ Ev(StartOf(call.kind)) \in Event
        /\ Ev(StartOf(call.kind)).type \in StartTypes
    BY <1>0, StartStopTypes DEF PortTypeOK
  <2>2. QED
    BY <1>11, <1>1, <1>3, <2>1 DEF GameSyncs, StartTypes
<1>12. CASE Stops
  <2>1. /\ Ev(StopOf(call.kind)) \in Event
        /\ Ev(StopOf(call.kind)).type \in StopTypes
    BY <1>0, StartStopTypes DEF PortTypeOK
  <2>2. QED
    BY <1>12, <1>3, <2>1 DEF Stops
<1>13. CASE CloseBuffer
  BY <1>13, <1>2 DEF CloseBuffer
<1>14. CASE ReceiverSkips \/ ReceiverTakesMacro
  <2>1. macro # <<>>
    BY <1>14 DEF ReceiverSkips, ReceiverTakesMacro, PortTypeOK
  <2>2. QED
    BY <1>14, <1>2, <2>1 DEF ReceiverSkips, ReceiverTakesMacro
<1>15. CASE ReceiverTakesCommand \/ ReceiverSleeps
  BY <1>15, <1>2 DEF ReceiverTakesCommand, ReceiverSleeps
<1>16. CASE \/ UserChecks \/ RunSelects \/ CloseMarks \/ Begin \/ Observes
           \/ Prepares \/ Expires \/ Cancels \/ Broadcasts
  BY <1>16, <1>1 DEF UserChecks, RunSelects, CloseMarks, Begin, Observes,
                     Prepares, Expires, Cancels, Broadcasts
<1>17. CASE \/ Joins \/ TakesResult \/ GameEnds \/ GameCancels
           \/ ReceiverRefused \/ UNCHANGED portVars
  BY <1>17, <1>1 DEF Joins, TakesResult, GameEnds, GameCancels, ReceiverRefused, portVars
<1>18. QED
  BY <1>4, <1>5, <1>6, <1>8, <1>9, <1>10, <1>11, <1>12, <1>13, <1>14, <1>15,
     <1>16, <1>17
  DEF PortNext, Filter, Run, InCall, Receiver

\* No token of a macro is left in the queue once the filter has given it up.
THEOREM NoTokenLeft == PortSpec => []NoOrphanMacro
<1>1. MacroInv => NoOrphanMacro
  BY DEF MacroInv
<1>2. QED
  BY <1>1, TypeInit, TypeStep, MacroInit, MacroStep, PTL DEF PortSpec

\* A macro ends because it was interrupted or because it was used up, never
\* because a MacroDone event meant for an earlier macro arrives late.
THEOREM MacroEndsProperly == PortSpec => MacroRunsToItsEnd
<1>1. /\ PortTypeOK /\ MacroInv /\ [PortNext]_portVars
      => [macroState = "running" /\ macroState' = "nothing"
            => fev.type = "InterruptMacro" \/ macro = <<>>]_portVars
  <2> SUFFICES ASSUME PortTypeOK, MacroInv, PortNext,
                      macroState = "running", macroState' = "nothing"
               PROVE  fev.type = "InterruptMacro" \/ macro = <<>>
    OBVIOUS
  <2>1. FilterMacro
    BY DEF PortNext, Filter, Run, InCall, Receiver, UserChecks, UserPosts, FilterTakes,
           FilterInput, FilterExits, FilterReportsMacroDone, FilterEnters,
           RunSelects, CloseMarks, CloseBuffer, ClosePosts, Begin, GameSyncs, Observes,
           Prepares, Expires, Cancels, Broadcasts, Joins, TakesResult, Stops,
           GameEnds, GameQuits, GameCancels, ReceiverRefused, ReceiverSkips,
           ReceiverTakesMacro, ReceiverTakesCommand, ReceiverSleeps, filterVars
  <2>2. StopsMacro /\ fpc = "macro"
    BY <2>1 DEF FilterMacro
  <2>3. QED
    BY <2>2 DEF StopsMacro, MacroInv, DoneInHand
<1>2. QED
  BY <1>1, TypeInit, TypeStep, MacroInit, MacroStep, PTL DEF PortSpec, MacroRunsToItsEnd

-----------------------------------------------------------------------------
(* The port implements InputRequest.                                       *)

\* What the receiving goroutine has in its channel is a legal answer, and the
\* buffer is closed only after the port is.
LegalAnswer ==
    /\ cclosed => closed
    /\ opc = "closebuf" => closed
    /\ expired => call.timed /\ gpc \in {"prepare", "select", "broadcast", "join", "stop"}
    /\ gpc \in {"broadcast", "join"} => expired
    /\ rcv = "done" =>
         /\ got.err \in {"none", "closed", "cancelled"}
         /\ got.err = "none" /\ call.kind = "wait" => got.cmd = Empty
         /\ got.err # "none" => got.cmd = Empty
         /\ got.err = "closed" => closed

\* Nothing has been answered initially.
LEMMA LegalInit == PortInit => LegalAnswer
BY DEF PortInit, LegalAnswer

\* What a receiver has got is a legal answer to the request it works for.
LEMMA LegalStep == PortTypeOK /\ HandOff /\ LegalAnswer /\ [PortNext]_portVars => LegalAnswer'
<1> SUFFICES ASSUME PortTypeOK, HandOff, LegalAnswer, [PortNext]_portVars PROVE LegalAnswer'
  OBVIOUS
<1> USE DEF LegalAnswer, bufVars, filterVars, runVars, gameVars, rcvVars, uiVars
<1>1. CASE UserChecks \/ UserPosts \/ FilterTakes \/ FilterExits \/ FilterReportsMacroDone
  BY <1>1 DEF UserChecks, UserPosts, FilterTakes, FilterExits, FilterReportsMacroDone
<1>2. CASE FilterMacro
  BY <1>2 DEF FilterMacro, StartMacro, StopMacro, Signal, Woken
<1>3. CASE FilterInput \/ FilterEnters
  BY <1>3 DEF FilterInput, FilterEnters, CbufSend, Signal, Woken
<1>4. CASE RunSelects \/ CloseMarks \/ ClosePosts
  BY <1>4 DEF RunSelects, CloseMarks, ClosePosts
<1>5. CASE CloseBuffer
  BY <1>5 DEF CloseBuffer, Signal, Woken
<1>6. CASE Begin
  BY <1>6 DEF Begin, HandOff
<1>7. CASE GameSyncs \/ Observes
  BY <1>7 DEF GameSyncs, Observes
<1>8. CASE Prepares \/ Expires \/ Cancels
  BY <1>8 DEF Prepares, Expires, Cancels
<1>9. CASE Broadcasts
  BY <1>9 DEF Broadcasts, Signal, Woken
<1>10. CASE Joins \/ TakesResult \/ Stops
  BY <1>10 DEF Joins, TakesResult, Stops
<1>11. CASE GameEnds \/ GameQuits \/ GameCancels
  BY <1>11 DEF GameEnds, GameQuits, GameCancels
<1>12. CASE ReceiverRefused
  BY <1>12 DEF ReceiverRefused, Finishes
<1>13. CASE ReceiverSkips \/ ReceiverTakesMacro
  BY <1>13 DEF ReceiverSkips, ReceiverTakesMacro, Finishes
<1>14. CASE ReceiverTakesCommand \/ ReceiverSleeps
  BY <1>14 DEF ReceiverTakesCommand, ReceiverSleeps, Finishes
<1>15. CASE UNCHANGED portVars
  BY <1>15 DEF portVars
<1>16. QED
  BY <1>1, <1>2, <1>3, <1>4, <1>5, <1>6, <1>7, <1>8, <1>9, <1>10, <1>11, <1>12,
     <1>13, <1>14, <1>15
  DEF PortNext, Filter, Run, InCall, Receiver

\* The initial state is one of the request service.
LEMMA ServiceInit == PortInit => Service!Init
BY DEF PortInit, Service!Init, Service!Reply, Asked, NoReply

\* Every step of the port is a step of the request service or a stutter.
LEMMA ServiceStep ==
    PortTypeOK /\ HandOff /\ LegalAnswer /\ [PortNext]_portVars => [Service!Next]_(Service!vars)
<1> SUFFICES ASSUME PortTypeOK, HandOff, LegalAnswer, [PortNext]_portVars
             PROVE  Service!Next \/ UNCHANGED Service!vars
  OBVIOUS
<1> USE DEF Asked, Service!vars, bufVars, filterVars, runVars, gameVars, rcvVars, uiVars
\* Most steps are invisible to the service.
<1>1. ASSUME UNCHANGED <<gpc, call, reply, closed>> PROVE UNCHANGED Service!vars
  BY <1>1
<1>2. CASE UserChecks \/ UserPosts \/ Filter \/ Receiver \/ UNCHANGED portVars
  BY <1>2, <1>1
  DEF UserChecks, UserPosts, Filter, FilterTakes, FilterMacro, FilterInput, FilterExits,
      FilterReportsMacroDone, FilterEnters, Receiver, ReceiverRefused, ReceiverSkips,
      ReceiverTakesMacro, ReceiverTakesCommand, ReceiverSleeps, portVars
<1>3. CASE RunSelects \/ CloseBuffer \/ ClosePosts \/ Expires
  BY <1>3, <1>1 DEF RunSelects, CloseBuffer, ClosePosts, Expires
<1>4. CASE CloseMarks
  BY <1>4 DEF CloseMarks, Service!Next, Service!Close
<1>5. CASE Begin
  <2>1. PICK k \in InputKinds, t \in BOOLEAN :
           /\ gpc = "idle" /\ call' = [kind |-> k, timed |-> t]
           /\ IF closed THEN gpc' = "idle" /\ Returns("closed", Empty)
                        ELSE gpc' = "sync" /\ reply' = NoReply
           /\ UNCHANGED closed
    BY <1>5 DEF Begin
  <2>2. Service!Ask
    BY <2>1 DEF Service!Ask, Service!Reply, Returns, NoReply, InputKinds
  <2>3. QED
    BY <2>2 DEF Service!Next
<1>6. CASE GameSyncs
  <2>1. CASE gpc' = "observe"
    BY <1>6, <2>1 DEF GameSyncs
  <2>2. CASE gpc' = "idle"
    <3>1. Service!Answer
      BY <1>6, <2>2, EmptyIsCommand
      DEF GameSyncs, Returns, Service!Answer, Service!MayFail, Service!Reply, PortTypeOK, InputKinds
    <3>2. QED
      BY <3>1 DEF Service!Next
  <2>3. QED
    BY <1>6, <2>1, <2>2 DEF GameSyncs
<1>7. CASE Observes \/ Prepares \/ Cancels \/ Broadcasts
  BY <1>7 DEF Observes, Prepares, Cancels, Broadcasts
<1>8. CASE Joins
  <2>1. Service!Answer
    BY <1>8
    DEF Joins, Returns, Service!Answer, Service!MayFail, Service!Reply, PortTypeOK,
        InputKinds, LegalAnswer
  <2>2. QED
    BY <2>1 DEF Service!Next
<1>9. CASE TakesResult
  <2>1. CASE AsksAgain
    BY <1>9, <2>1 DEF TakesResult
  <2>2. CASE ~AsksAgain
    <3>1. /\ gpc = "select" /\ gpc' = "stop" /\ reply' = got /\ rcv = "done"
          /\ UNCHANGED <<call, closed>>
      BY <1>9, <2>2 DEF TakesResult
    <3>2. got.err \in {"none", "closed"}
      BY <3>1 DEF LegalAnswer, HandOff, NeverCancelledByOther
    <3>3. got = [err |-> got.err, cmd |-> got.cmd] /\ got.cmd \in Commands
      BY DEF PortTypeOK, Replies
    <3>4. CASE got.err = "closed"
      <4>1. closed /\ got.cmd = Empty
        BY <3>1, <3>4 DEF LegalAnswer
      <4>2. Service!Answer
        BY <3>1, <3>3, <3>4, <4>1
        DEF Service!Answer, Service!MayFail, Service!Reply, PortTypeOK, InputKinds
      <4>3. QED
        BY <4>2 DEF Service!Next
    <3>5. CASE got.err = "none"
      <4>1. Service!MayAnswer(call.kind, got.cmd)
        BY <2>2, <3>1, <3>3, <3>5
        DEF AsksAgain, LegalAnswer, Service!MayAnswer, PortTypeOK, InputKinds
      <4>2. Service!Answer
        BY <3>1, <3>3, <3>5, <4>1 DEF Service!Answer, Service!Reply, PortTypeOK, InputKinds
      <4>3. QED
        BY <4>2 DEF Service!Next
    <3>6. QED
      BY <3>2, <3>4, <3>5
  <2>3. QED
    BY <2>1, <2>2
<1>10. CASE Stops \/ GameEnds \/ GameQuits \/ GameCancels
  BY <1>10 DEF Stops, GameEnds, GameQuits, GameCancels
<1>11. QED
  BY <1>2, <1>3, <1>4, <1>5, <1>6, <1>7, <1>8, <1>9, <1>10 DEF PortNext, Run, InCall

\* Every behaviour of the input port, with its goroutines, its deque and its
\* command buffer, is a behaviour of the request service.
THEOREM PortImplementsService == PortSpec => RequestService
BY TypeInit, TypeStep, HandOffInit, HandOffStep, LegalInit, LegalStep, ServiceInit,
   ServiceStep, PTL
DEF PortSpec, RequestService, Service!Spec

-----------------------------------------------------------------------------
(***************************************************************************)
(* Recursion over the numbers up to n.                                     *)
(***************************************************************************)
LEMMA LeastNat ==
  ASSUME NEW T, T \subseteq Nat, T # {}
  PROVE  \E x \in T : \A y \in T : x <= y
<1>1. PICK x \in T : \A y \in T : <<y, x>> \notin OpToRel(<, Nat)
  BY NatLessThanWellFounded, WFMin, Zenon
<1>2. \A y \in T : ~(y < x)
  BY <1>1 DEF OpToRel
<1> QED
  BY <1>2

\* Starting with s, n steps can be taken.
Takes(f, m, s, step) == /\ f[0] = s
                        /\ \A i \in 1..m : f[i] = step[i][f[i - 1]]

LEMMA Steps ==
  ASSUME NEW n \in Nat, NEW S, NEW s \in S, NEW step \in [1..n -> [S -> S]]
  PROVE  \E f \in [0..n -> S] : Takes(f, n, s, step)
<1> DEFINE Reached(m) == \E f \in [0..m -> S] : Takes(f, m, s, step)
           Missed == {m \in 0..n : ~Reached(m)}
<1>1. SUFFICES Missed = {}
  OBVIOUS
<1>2. SUFFICES ASSUME Missed # {} PROVE FALSE
  OBVIOUS
<1>3. PICK m \in Missed : \A k \in Missed : m <= k
  <2>1. Missed \subseteq Nat
    OBVIOUS
  <2> HIDE DEF Missed
  <2> QED
    BY <1>2, <2>1, LeastNat
<1>4. m # 0
  <2>1. [i \in 0..0 |-> s] \in [0..0 -> S] /\ Takes([i \in 0..0 |-> s], 0, s, step)
    BY DEF Takes
  <2> QED
    BY <2>1
<1>5. m - 1 \in 0..n /\ m \in 1..n
  BY <1>4
<1>6. Reached(m - 1)
  BY <1>3, <1>5
<1>7. PICK f \in [0 .. (m - 1) -> S] : Takes(f, m - 1, s, step)
  BY <1>6
<1> DEFINE g == [i \in 0..m |-> IF i = m THEN step[m][f[m - 1]] ELSE f[i]]
<1>8. g \in [0..m -> S]
  BY <1>5, <1>7
<1>9. ASSUME NEW i \in 1..m
      PROVE  g[i] = step[i][g[i - 1]]
  <2>1. CASE i = m
    BY <2>1, <1>5
  <2>2. CASE i # m
    <3>1. i \in 1 .. (m - 1) /\ i - 1 \in 0 .. (m - 1)
      BY <2>2, <1>5
    <3> QED
      BY <3>1, <2>2, <1>7, <1>5 DEF Takes
  <2> QED
    BY <2>1, <2>2
<1>10. Takes(g, m, s, step)
  <2>1. g[0] = s
    BY <1>5, <1>7 DEF Takes
  <2> QED
    BY <1>9, <2>1 DEF Takes
<1> QED
  BY <1>3, <1>8, <1>10

\* f and g start alike and go on alike: they are the same
Parallel(f, g, n) == f[0] = g[0] /\ \A i \in 1..n : f[i - 1] = g[i - 1] => f[i] = g[i]

LEMMA SameByStep ==
  ASSUME NEW n \in Nat, NEW f, NEW g, Parallel(f, g, n)
  PROVE  \A i \in 0..n : f[i] = g[i]
<1> DEFINE Apart == {i \in 0..n : f[i] # g[i]}
<1> SUFFICES ASSUME Apart # {} PROVE FALSE
  OBVIOUS
<1>1. PICK m \in Apart : \A k \in Apart : m <= k
  <2>1. Apart \subseteq Nat
    OBVIOUS
  <2> HIDE DEF Apart
  <2> QED
    BY <2>1, LeastNat
<1>2. m # 0
  BY <1>1 DEF Parallel
<1>3. m \in 1..n /\ m - 1 \in 0..n
  BY <1>2
<1>4. f[m - 1] = g[m - 1]
  BY <1>1, <1>3
<1> QED
  BY <1>1, <1>3, <1>4 DEF Parallel

-----------------------------------------------------------------------------
(***************************************************************************)
(* Sequences.                                                              *)
(***************************************************************************)
LEMMA FrontLast ==
  ASSUME NEW S, NEW q \in Seq(S), q # << >>
  PROVE  /\ Front(q) \in Seq(S) /\ Last(q) \in S /\ Len(q) \in Nat \ {0}
         /\ Len(Front(q)) = Len(q) - 1
         /\ \A i \in 1 .. Len(q) - 1 : Front(q)[i] = q[i]
         /\ q = Append(Front(q), Last(q))
<1>1. Len(q) \in Nat \ {0} /\ \A i \in 1..Len(q) : q[i] \in S
  BY EmptySeq, ElementOfSeq
<1>2. /\ Front(q) \in Seq(S) /\ Len(Front(q)) = Len(q) - 1
      /\ \A i \in 1 .. Len(q) - 1 : Front(q)[i] = q[i]
  BY <1>1, SubSeqProperties DEF Front
<1>3. Last(q) \in S
  BY <1>1 DEF Last
<1>4. q = Append(Front(q), Last(q))
  <2> DEFINE r == Append(Front(q), Last(q))
  <2>1. /\ r \in Seq(S) /\ Len(r) = Len(q)
        /\ \A i \in 1 .. Len(q) - 1 : r[i] = q[i]
        /\ r[Len(q)] = q[Len(q)]
    BY <1>1, <1>2, <1>3, AppendProperties DEF Last
  <2>2. \A i \in 1..Len(q) : r[i] = q[i]
    BY <1>1, <2>1
  <2> HIDE DEF r
  <2>3. r = q
    BY <2>1, <2>2, SeqEqual
  <2> QED
    BY <2>3 DEF r
<1> QED
  BY <1>1, <1>2, <1>3, <1>4

\* a sequence without its last n elements
LEMMA DropIs ==
  ASSUME NEW S, NEW q \in Seq(S), NEW n \in Nat
  PROVE  /\ Drop(q, n) \in Seq(S)
         /\ Len(Drop(q, n)) = IF n <= Len(q) THEN Len(q) - n ELSE 0
         /\ \A i \in 1 .. Len(q) - n : Drop(q, n)[i] = q[i]
<1>1. Len(q) \in Nat /\ \A i \in 1..Len(q) : q[i] \in S
  BY LenProperties, ElementOfSeq
<1>2. \A i \in 1 .. Len(q) - n : q[i] \in S
  BY <1>1
<1> QED
  BY <1>1, <1>2, SubSeqProperties DEF Drop

\* the first i elements
LEMMA PrefixIs ==
  ASSUME NEW S, NEW q \in Seq(S), NEW i \in 0..Len(q)
  PROVE  /\ SubSeq(q, 1, i) \in Seq(S) /\ Len(SubSeq(q, 1, i)) = i
         /\ \A j \in 1..i : SubSeq(q, 1, i)[j] = q[j]
<1>1. Len(q) \in Nat /\ \A j \in 1..i : q[j] \in S
  BY LenProperties, ElementOfSeq
<1> QED
  BY <1>1, SubSeqProperties

LEMMA PrefixOfPrefix ==
  ASSUME NEW S, NEW q \in Seq(S), NEW i \in 0..Len(q), NEW j \in 0..i
  PROVE  SubSeq(SubSeq(q, 1, i), 1, j) = SubSeq(q, 1, j)
<1>1. Len(q) \in Nat /\ j \in 0..Len(q)
  BY LenProperties
<1>2. /\ SubSeq(q, 1, i) \in Seq(S) /\ Len(SubSeq(q, 1, i)) = i
      /\ \A k \in 1..i : SubSeq(q, 1, i)[k] = q[k]
  BY PrefixIs
<1>3. /\ SubSeq(SubSeq(q, 1, i), 1, j) \in Seq(S) /\ Len(SubSeq(SubSeq(q, 1, i), 1, j)) = j
      /\ \A k \in 1..j : SubSeq(SubSeq(q, 1, i), 1, j)[k] = SubSeq(q, 1, i)[k]
  BY <1>2, PrefixIs
<1>4. /\ SubSeq(q, 1, j) \in Seq(S) /\ Len(SubSeq(q, 1, j)) = j
      /\ \A k \in 1..j : SubSeq(q, 1, j)[k] = q[k]
  BY <1>1, PrefixIs
<1> QED
  BY <1>2, <1>3, <1>4, SeqEqual

LEMMA PrefixOfAppend ==
  ASSUME NEW S, NEW q \in Seq(S), NEW e \in S, NEW i \in 0..Len(q)
  PROVE  SubSeq(Append(q, e), 1, i) = SubSeq(q, 1, i)
<1>1. /\ Len(q) \in Nat /\ Append(q, e) \in Seq(S) /\ Len(Append(q, e)) = Len(q) + 1
      /\ \A k \in 1..Len(q) : Append(q, e)[k] = q[k]
  BY AppendProperties, LenProperties
<1>2. i \in 0..Len(Append(q, e))
  BY <1>1
<1>3. /\ SubSeq(Append(q, e), 1, i) \in Seq(S) /\ Len(SubSeq(Append(q, e), 1, i)) = i
      /\ \A k \in 1..i : SubSeq(Append(q, e), 1, i)[k] = Append(q, e)[k]
  BY <1>1, <1>2, PrefixIs
<1>4. /\ SubSeq(q, 1, i) \in Seq(S) /\ Len(SubSeq(q, 1, i)) = i
      /\ \A k \in 1..i : SubSeq(q, 1, i)[k] = q[k]
  BY <1>1, PrefixIs
<1> QED
  BY <1>1, <1>3, <1>4, SeqEqual

-----------------------------------------------------------------------------
(***************************************************************************)
(* Paragraphs that are put to those of the UI.                             *)
(***************************************************************************)
LEMMA WrittenIs ==
  ASSUME NEW ps \in Seq(Paragraphs)
  PROVE  /\ Written(ps) \in Seq(Paragraphs)
         /\ Len(Written(ps)) \in Nat /\ Len(ps) \in Nat
         /\ Len(Written(ps)) = IF ps # << >> /\ ~ps[Len(ps)].fixed THEN Len(ps) - 1 ELSE Len(ps)
         /\ \A i \in 1..Len(Written(ps)) : Written(ps)[i] = ps[i]
<1>1. Len(ps) \in Nat
  BY LenProperties
<1>2. CASE ps # << >> /\ ~Last(ps).fixed
  BY <1>2, FrontLast DEF Written, Last
<1>3. CASE ~(ps # << >> /\ ~Last(ps).fixed)
  BY <1>1, <1>3 DEF Written, Last
<1> QED
  BY <1>2, <1>3

LEMMA PutIs ==
  ASSUME NEW ps \in Seq(Paragraphs), NEW p \in Paragraphs
  PROVE  Put(ps, p) \in Seq(Paragraphs)
<1>1. CASE ps # << >> /\ Last(ps).id = p.id
  BY <1>1, FrontLast, AppendProperties DEF Put
<1>2. CASE ~(ps # << >> /\ Last(ps).id = p.id)
  BY <1>2, AppendProperties DEF Put
<1> QED
  BY <1>1, <1>2

\* one paragraph after the other
Putting(qs) == [i \in 1..Len(qs) |-> [ps \in Seq(Paragraphs) |-> Put(ps, qs[i])]]

LEMMA PutAllTakes ==
  ASSUME NEW ps \in Seq(Paragraphs), NEW qs \in Seq(Paragraphs)
  PROVE  \E f \in [0..Len(qs) -> Seq(Paragraphs)] :
            Takes(f, Len(qs), ps, Putting(qs)) /\ PutAll(ps, qs) = f[Len(qs)]
<1>1. Len(qs) \in Nat /\ \A i \in 1..Len(qs) : qs[i] \in Paragraphs
  BY LenProperties, ElementOfSeq
<1>2. Putting(qs) \in [1..Len(qs) -> [Seq(Paragraphs) -> Seq(Paragraphs)]]
  BY <1>1, PutIs DEF Putting
<1>3. PICK f \in [0..Len(qs) -> Seq(Paragraphs)] : Takes(f, Len(qs), ps, Putting(qs))
  BY <1>1, <1>2, Steps
<1> DEFINE Body(h) == [i \in 0..Len(qs) |-> IF i = 0 THEN ps ELSE Put(h[i - 1], qs[i])]
           put == CHOOSE h : h = Body(h)
<1>4. f = Body(f)
  <2>1. \A i \in 0..Len(qs) : f[i] = Body(f)[i]
    <3> SUFFICES ASSUME NEW i \in 0..Len(qs) PROVE f[i] = Body(f)[i]
      OBVIOUS
    <3>1. CASE i = 0
      BY <3>1, <1>3 DEF Takes
    <3>2. CASE i # 0
      <4>1. i \in 1..Len(qs) /\ f[i - 1] \in Seq(Paragraphs)
        BY <3>2, <1>1, <1>3
      <4>2. f[i] = Putting(qs)[i][f[i - 1]]
        BY <4>1, <1>3 DEF Takes
      <4>3. Putting(qs)[i][f[i - 1]] = Put(f[i - 1], qs[i])
        BY <4>1 DEF Putting
      <4> QED
        BY <4>1, <4>2, <4>3
    <3> QED
      BY <3>1, <3>2
  <2> QED
    BY <2>1, <1>3
<1>5. put = Body(put)
  BY <1>4
<1>6. PutAll(ps, qs) = put[Len(qs)]
  BY DEF PutAll
<1> HIDE DEF put
<1>7. put \in [0..Len(qs) -> Seq(Paragraphs)] /\ Takes(put, Len(qs), ps, Putting(qs))
  <2>0. /\ f[0] = ps /\ put[0] = ps
        /\ \A i \in 1..Len(qs) : f[i] = Put(f[i - 1], qs[i]) /\ put[i] = Put(put[i - 1], qs[i])
    <3>1. \A i \in 0..Len(qs) : f[i] = Body(f)[i] /\ put[i] = Body(put)[i]
      BY <1>4, <1>5
    <3>2. \A i \in 1..Len(qs) : i \in 0..Len(qs) /\ i # 0
      OBVIOUS
    <3> QED
      BY <1>1, <3>1, <3>2
  <2>1. Parallel(f, put, Len(qs))
    BY <2>0 DEF Parallel
  <2>2. \A i \in 0..Len(qs) : f[i] = put[i]
    BY <1>1, <2>1, SameByStep
  <2>3. put = f
    BY <2>2, <1>3, <1>5
  <2> QED
    BY <2>3, <1>3
<1> QED
  BY <1>6, <1>7

\* the paragraphs have the numbers of their places, and only the last may be open
Numbered(ps) == OpenIsLast(ps) /\ \A i \in DOMAIN ps : ps[i].id = i - 1

\* qs goes on where the fixed paragraphs of ps end
Follows(ps, qs) == /\ qs # << >> /\ OpenIsLast(qs)
                   /\ \A i \in DOMAIN qs : qs[i].id = Len(Written(ps)) + i - 1

LEMMA WrittenIsFixed ==
  ASSUME NEW ps \in Seq(Paragraphs), Numbered(ps)
  PROVE  /\ \A i \in 1..Len(Written(ps)) : Written(ps)[i].fixed /\ Written(ps)[i].id = i - 1
         /\ Numbered(Written(ps)) /\ Written(Written(ps)) = Written(ps)
<1>1. /\ Written(ps) \in Seq(Paragraphs) /\ Len(Written(ps)) \in Nat /\ Len(ps) \in Nat
      /\ Len(Written(ps)) = IF ps # << >> /\ ~ps[Len(ps)].fixed THEN Len(ps) - 1 ELSE Len(ps)
      /\ \A i \in 1..Len(Written(ps)) : Written(ps)[i] = ps[i]
  BY WrittenIs
<1>2. DOMAIN ps = 1..Len(ps) /\ DOMAIN Written(ps) = 1..Len(Written(ps))
  BY <1>1
<1>3. \A i \in 1..Len(ps) : (~ps[i].fixed => i = Len(ps)) /\ ps[i].id = i - 1
  BY <1>2 DEF Numbered, OpenIsLast
<1>4. ps = << >> => Len(ps) = 0
  OBVIOUS
<1>5. \A i \in 1..Len(Written(ps)) : Written(ps)[i].fixed /\ Written(ps)[i].id = i - 1
  <2> SUFFICES ASSUME NEW i \in 1..Len(Written(ps))
               PROVE  ps[i].fixed /\ ps[i].id = i - 1
    BY <1>1
  <2>1. i \in 1..Len(ps)
    BY <1>1
  <2>2. ps[i].fixed
    BY <1>1, <1>3, <1>4, <2>1
  <2> QED
    BY <1>3, <2>1, <2>2
<1>6. Numbered(Written(ps))
  BY <1>2, <1>5 DEF Numbered, OpenIsLast
<1>7. Written(Written(ps)) = Written(ps)
  <2>1. Written(ps) # << >> => Len(Written(ps)) \in 1..Len(Written(ps))
    BY <1>1, EmptySeq
  <2>2. ~(Written(ps) # << >> /\ ~Last(Written(ps)).fixed)
    BY <1>5, <2>1 DEF Last
  <2> DEFINE w == Written(ps)
  <2>3. ~(w # << >> /\ ~Last(w).fixed)
    BY <2>2
  <2> HIDE DEF w
  <2>4. Written(w) = w
    BY <2>3 DEF Written
  <2> QED
    BY <2>4 DEF w
<1> QED
  BY <1>5, <1>6, <1>7

LEMMA PutFollowing ==
  ASSUME NEW ps \in Seq(Paragraphs), Numbered(ps),
         NEW p \in Paragraphs, p.id = Len(Written(ps))
  PROVE  Put(ps, p) = Append(Written(ps), p)
<1>1. /\ Len(Written(ps)) \in Nat /\ Len(ps) \in Nat
      /\ Len(Written(ps)) = IF ps # << >> /\ ~ps[Len(ps)].fixed THEN Len(ps) - 1 ELSE Len(ps)
  BY WrittenIs
<1>2. ps # << >> => Len(ps) \in DOMAIN ps
  BY EmptySeq, LenProperties
<1>3. ps # << >> => Last(ps).id = Len(ps) - 1
  BY <1>2 DEF Numbered, Last
<1>4. CASE ps # << >> /\ ~ps[Len(ps)].fixed
  BY <1>1, <1>3, <1>4 DEF Put, Written, Last
<1>5. CASE ~(ps # << >> /\ ~ps[Len(ps)].fixed)
  <2>1. Len(Written(ps)) = Len(ps) /\ Written(ps) = ps
    BY <1>1, <1>5 DEF Written, Last
  <2>2. ~(ps # << >> /\ Last(ps).id = p.id)
    BY <1>1, <1>3, <2>1
  <2> QED
    BY <2>1, <2>2 DEF Put
<1> QED
  BY <1>4, <1>5

\* w, and the first i of qs
LEMMA JoinIs ==
  ASSUME NEW S, NEW w \in Seq(S), NEW qs \in Seq(S), NEW i \in 1..Len(qs)
  PROVE  /\ w \o SubSeq(qs, 1, i) \in Seq(S)
         /\ Len(w \o SubSeq(qs, 1, i)) = Len(w) + i
         /\ \A k \in 1 .. Len(w) + i :
              (w \o SubSeq(qs, 1, i))[k] = IF k <= Len(w) THEN w[k] ELSE qs[k - Len(w)]
<1>1. Len(w) \in Nat /\ Len(qs) \in Nat /\ i \in 0..Len(qs)
  BY LenProperties
<1>2. /\ SubSeq(qs, 1, i) \in Seq(S) /\ Len(SubSeq(qs, 1, i)) = i
      /\ \A k \in 1..i : SubSeq(qs, 1, i)[k] = qs[k]
  BY <1>1, PrefixIs
<1> DEFINE t == SubSeq(qs, 1, i)
<1> HIDE DEF t
<1>3. t \in Seq(S) /\ Len(t) = i /\ \A k \in 1..i : t[k] = qs[k]
  BY <1>2 DEF t
<1>4. /\ w \o t \in Seq(S) /\ Len(w \o t) = Len(w) + Len(t)
      /\ \A k \in 1 .. Len(w) + Len(t) : (w \o t)[k] = IF k <= Len(w) THEN w[k] ELSE t[k - Len(w)]
  BY <1>3, ConcatProperties
<1>5. ASSUME NEW k \in 1 .. Len(w) + i
      PROVE  (w \o t)[k] = IF k <= Len(w) THEN w[k] ELSE qs[k - Len(w)]
  <2>1. (w \o t)[k] = IF k <= Len(w) THEN w[k] ELSE t[k - Len(w)]
    BY <1>3, <1>4
  <2>2. ~(k <= Len(w)) => k - Len(w) \in 1..i
    BY <1>1
  <2> QED
    BY <1>3, <2>1, <2>2
<1>6. Len(w \o t) = Len(w) + i
  BY <1>3, <1>4
<1> QED
  BY <1>4, <1>5, <1>6 DEF t

\* r, the fixed paragraphs w and the first i of those that follow them, is numbered through
LEMMA JoinedIs ==
  ASSUME NEW w \in Seq(Paragraphs), \A k \in 1..Len(w) : w[k].fixed /\ w[k].id = k - 1,
         NEW qs \in Seq(Paragraphs), OpenIsLast(qs), \A k \in DOMAIN qs : qs[k].id = Len(w) + k - 1,
         NEW i \in 1..Len(qs),
         NEW r \in Seq(Paragraphs), Len(r) = Len(w) + i,
         \A k \in 1 .. Len(w) + i : r[k] = IF k <= Len(w) THEN w[k] ELSE qs[k - Len(w)]
  PROVE  /\ r # << >> /\ Numbered(r)
         /\ i < Len(qs) => Written(r) = r
<1>1. Len(w) \in Nat /\ Len(r) \in Nat /\ Len(r) # 0 /\ i \in Nat /\ i <= Len(qs) /\ Len(qs) \in Nat
  BY LenProperties
<1>2. \A k \in 1..Len(qs) : (~qs[k].fixed => k = Len(qs)) /\ qs[k].id = Len(w) + k - 1
  BY LenProperties DEF OpenIsLast
<1>5. \A k \in 1..Len(r) : r[k] = IF k <= Len(w) THEN w[k] ELSE qs[k - Len(w)]
  OBVIOUS
<1>6. r # << >>
  BY <1>1, EmptySeq
<1>7. ASSUME NEW k \in 1..Len(r)
      PROVE  r[k].id = k - 1 /\ (~r[k].fixed => k = Len(w) + Len(qs))
  <2>1. CASE k <= Len(w)
    <3>1. k \in 1..Len(w) /\ r[k] = w[k]
      BY <1>1, <1>5, <2>1
    <3> QED
      BY <3>1
  <2>2. CASE ~(k <= Len(w))
    <3>1. k - Len(w) \in 1..Len(qs) /\ r[k] = qs[k - Len(w)] /\ k \in Nat
      BY <1>1, <1>5, <2>2
    <3>2. PICK m \in 1..Len(qs) : m = k - Len(w)
      BY <3>1
    <3>3. qs[m].id = Len(w) + m - 1 /\ (~qs[m].fixed => m = Len(qs))
      BY <1>2
    <3> QED
      BY <1>1, <3>1, <3>2, <3>3
  <2> QED
    BY <2>1, <2>2
<1>8. Numbered(r)
  <2>1. DOMAIN r = 1..Len(r)
    BY LenProperties
  <2>2. \A k \in 1..Len(r) : ~r[k].fixed => k = Len(r)
    BY <1>1, <1>7
  <2> QED
    BY <1>7, <2>1, <2>2 DEF Numbered, OpenIsLast
<1>9. ASSUME i < Len(qs) PROVE Written(r) = r
  <2>1. Len(r) \in 1..Len(r) /\ Len(r) # Len(w) + Len(qs)
    BY <1>1, <1>9
  <2>2. Last(r).fixed
    BY <1>7, <2>1 DEF Last
  <2> QED
    BY <2>2 DEF Written
<1> QED
  BY <1>6, <1>8, <1>9

LEMMA JoinAppend ==
  ASSUME NEW S, NEW w \in Seq(S), NEW t \in Seq(S), NEW p \in S
  PROVE  w \o Append(t, p) = Append(w \o t, p)
<1> DEFINE e == << p >>
           v == w \o t
<1>1. e \in Seq(S)
  OBVIOUS
<1>2. v \in Seq(S)
  BY ConcatProperties
<1>3. Append(t, p) = t \o e
  BY AppendIsConcat
<1>4. Append(v, p) = v \o e
  <2> HIDE DEF v
  <2> QED
    BY <1>2, AppendIsConcat
<1> HIDE DEF e
<1>5. (w \o t) \o e = w \o (t \o e)
  BY <1>1, ConcatAssociative
<1> QED
  BY <1>3, <1>4, <1>5

LEMMA PrefixGrows ==
  ASSUME NEW S, NEW w \in Seq(S), NEW qs \in Seq(S), NEW i \in 2..Len(qs)
  PROVE  w \o SubSeq(qs, 1, i) = Append(w \o SubSeq(qs, 1, i - 1), qs[i])
<1>1. Len(qs) \in Nat /\ i \in 1..Len(qs) /\ i - 1 \in 0..Len(qs) /\ 1 \in 1..Len(qs) /\ qs[i] \in S
  BY LenProperties, ElementOfSeq
<1> DEFINE t == SubSeq(qs, 1, i - 1)
<1>2. t \in Seq(S)
  BY <1>1, PrefixIs
<1>3. SubSeq(qs, 1, i) = t \o << qs[i] >>
  BY <1>1, SubSeqRecursiveSecond
<1> HIDE DEF t
<1>4. SubSeq(qs, 1, i) = Append(t, qs[i])
  BY <1>1, <1>2, <1>3, AppendIsConcat
<1>5. w \o Append(t, qs[i]) = Append(w \o t, qs[i])
  BY <1>1, <1>2, JoinAppend
<1> QED
  BY <1>4, <1>5 DEF t

LEMMA FirstIs ==
  ASSUME NEW S, NEW w \in Seq(S), NEW qs \in Seq(S), qs # << >>
  PROVE  w \o SubSeq(qs, 1, 1) = Append(w, qs[1])
<1>1. Len(qs) \in Nat /\ 1 \in 1..Len(qs) /\ qs[1] \in S
  BY EmptySeq, ElementOfSeq
<1>2. SubSeq(qs, 1, 1) = SubSeq(qs, 1, 0) \o << qs[1] >>
  BY <1>1, SubSeqRecursiveSecond
<1>3. SubSeq(qs, 1, 0) = << >>
  BY SubSeqEmpty
<1>4. << >> \o << qs[1] >> = << qs[1] >>
  BY <1>1, ConcatEmptySeq
<1> QED
  BY <1>1, <1>2, <1>3, <1>4, AppendIsConcat

\* A list that goes on where the UI's paragraphs end is put after them.
LEMMA ListIsPut ==
  ASSUME NEW ps \in Seq(Paragraphs), Numbered(ps),
         NEW qs \in Seq(Paragraphs), Follows(ps, qs)
  PROVE  PutAll(ps, qs) = Written(ps) \o qs /\ Numbered(Written(ps) \o qs)
<1>1. PICK f \in [0..Len(qs) -> Seq(Paragraphs)] :
            Takes(f, Len(qs), ps, Putting(qs)) /\ PutAll(ps, qs) = f[Len(qs)]
  BY PutAllTakes
<1>2. Len(qs) \in Nat \ {0} /\ qs # << >> /\ \A i \in 1..Len(qs) : qs[i] \in Paragraphs
  BY EmptySeq, ElementOfSeq DEF Follows
<1>3. f[0] = ps /\ \A i \in 1..Len(qs) : f[i] = Put(f[i - 1], qs[i])
  <2> SUFFICES ASSUME NEW i \in 1..Len(qs) PROVE f[i] = Put(f[i - 1], qs[i])
    BY <1>1 DEF Takes
  <2>1. f[i - 1] \in Seq(Paragraphs) /\ f[i] = Putting(qs)[i][f[i - 1]]
    BY <1>1, <1>2 DEF Takes
  <2> QED
    BY <2>1 DEF Putting
<1>4. PICK w \in Seq(Paragraphs) : w = Written(ps)
  BY WrittenIs
<1>5. Len(w) \in Nat /\ \A k \in 1..Len(w) : w[k].fixed /\ w[k].id = k - 1
  BY <1>4, WrittenIs, WrittenIsFixed
<1>6. OpenIsLast(qs) /\ \A k \in DOMAIN qs : qs[k].id = Len(w) + k - 1
  BY <1>4 DEF Follows
<1> DEFINE g == [i \in 0..Len(qs) |-> IF i = 0 THEN ps ELSE w \o SubSeq(qs, 1, i)]
<1>7. g[0] = ps /\ \A i \in 1..Len(qs) : g[i] = w \o SubSeq(qs, 1, i)
  BY <1>2
<1> HIDE DEF g
<1>8. ASSUME NEW i \in 1..Len(qs)
      PROVE  /\ g[i] \in Seq(Paragraphs) /\ Len(g[i]) = Len(w) + i
             /\ Numbered(g[i]) /\ (i < Len(qs) => Written(g[i]) = g[i])
  <2>1. /\ g[i] \in Seq(Paragraphs) /\ Len(g[i]) = Len(w) + i
        /\ \A k \in 1 .. Len(w) + i : g[i][k] = IF k <= Len(w) THEN w[k] ELSE qs[k - Len(w)]
    <3> DEFINE x == w \o SubSeq(qs, 1, i)
    <3>1. /\ x \in Seq(Paragraphs) /\ Len(x) = Len(w) + i
          /\ \A k \in 1 .. Len(w) + i : x[k] = IF k <= Len(w) THEN w[k] ELSE qs[k - Len(w)]
      BY JoinIs
    <3>2. g[i] = x
      BY <1>7
    <3> HIDE DEF x
    <3> QED
      BY <3>1, <3>2
  <2> QED
    BY <1>5, <1>6, <2>1, JoinedIs
<1>9. ASSUME NEW i \in 1..Len(qs)
      PROVE  Put(g[i - 1], qs[i]) = g[i]
  <2>0. qs[i].id = Len(w) + i - 1 /\ qs[i] \in Paragraphs
    BY <1>2, <1>6, LenProperties
  <2>1. CASE i = 1
    <3>1. qs[1].id = Len(w)
      BY <1>5, <2>0, <2>1
    <3>2. Put(ps, qs[1]) = Append(w, qs[1])
      BY <1>4, <2>0, <2>1, <3>1, PutFollowing
    <3>3. g[1] = Append(w, qs[1])
      BY <1>2, <1>7, <2>1, FirstIs
    <3> QED
      BY <1>7, <2>1, <3>2, <3>3
  <2>2. CASE i # 1
    <3>1. i - 1 \in 1..Len(qs) /\ i - 1 < Len(qs) /\ i \in 2..Len(qs)
      BY <1>2, <2>2
    <3>2. PICK j \in 1..Len(qs) : j = i - 1
      BY <3>1
    <3>3. g[j] \in Seq(Paragraphs) /\ Len(g[j]) = Len(w) + j /\ Numbered(g[j]) /\ Written(g[j]) = g[j]
      BY <1>8, <3>1, <3>2
    <3>4. qs[i].id = Len(Written(g[j]))
      BY <1>5, <2>0, <3>2, <3>3
    <3>5. Put(g[j], qs[i]) = Append(g[j], qs[i])
      BY <2>0, <3>3, <3>4, PutFollowing
    <3>6. g[i] = Append(g[i - 1], qs[i])
      BY <1>7, <3>1, PrefixGrows
    <3> QED
      BY <3>2, <3>5, <3>6
  <2> QED
    BY <2>1, <2>2
<1>10. \A i \in 0..Len(qs) : f[i] = g[i]
  <2>1. Parallel(f, g, Len(qs))
    BY <1>3, <1>7, <1>9 DEF Parallel
  <2>2. Len(qs) \in Nat
    BY <1>2
  <2> QED
    BY <2>1, <2>2, SameByStep
<1>11. Len(qs) \in 1..Len(qs) /\ Len(qs) \in 0..Len(qs)
  BY <1>2
<1>12. f[Len(qs)] = w \o qs
  BY <1>7, <1>10, <1>11, SubSeqFull
<1>13. Numbered(w \o qs)
  BY <1>8, <1>10, <1>11, <1>12
<1> QED
  BY <1>1, <1>4, <1>12, <1>13

-----------------------------------------------------------------------------
(***************************************************************************)
(* Events, and what the UI makes of them.                                  *)
(***************************************************************************)
LEMMA EventIs ==
  ASSUME NEW ev \in Events
  PROVE  \/ IsA(ev, "list") /\ ev.ps \in Seq(Paragraphs)
         \/ IsA(ev, "remove") /\ ev.n \in Nat
         \/ IsA(ev, "removeAll")
         \/ IsA(ev, "request") /\ ev.req \in Kinds \cup {"none"}
BY DEF Events, IsA

LEMMA EventsAre ==
  /\ \A qs \in Seq(Paragraphs) : Listing(qs) \in Events /\ IsA(Listing(qs), "list") /\ Listing(qs).ps = qs
  /\ \A n \in Nat : Removal(n) \in Events /\ IsA(Removal(n), "remove") /\ Removal(n).n = n
  /\ Clearing \in Events /\ IsA(Clearing, "removeAll")
  /\ \A r \in Kinds \cup {"none"} : Asking(r) \in Events /\ IsA(Asking(r), "request") /\ Asking(r).req = r
BY DEF Events, IsA, Listing, Removal, Clearing, Asking

LEMMA HandleIs ==
  ASSUME NEW u \in UIs, NEW ev \in Events
  PROVE  /\ Handle(u, ev) \in UIs
         /\ IsA(ev, "list") => Handle(u, ev).ps = PutAll(u.ps, ev.ps) /\ Handle(u, ev).req = u.req
         /\ IsA(ev, "remove") => Handle(u, ev).ps = Drop(Written(u.ps), ev.n) /\ Handle(u, ev).req = u.req
         /\ IsA(ev, "removeAll") => Handle(u, ev).ps = << >> /\ Handle(u, ev).req = u.req
         /\ IsA(ev, "request") => Handle(u, ev).ps = u.ps /\ Handle(u, ev).req = Callback(ev.req)
<1>1. u.ps \in Seq(Paragraphs) /\ u.req \in Kinds \cup {"none"} /\ u = [ps |-> u.ps, req |-> u.req]
  BY DEF UIs
<1>2. CASE IsA(ev, "list") /\ ev.ps \in Seq(Paragraphs)
  <2>1. PutAll(u.ps, ev.ps) \in Seq(Paragraphs)
    <3>1. Len(ev.ps) \in 0..Len(ev.ps)
      BY <1>2, LenProperties
    <3> QED
      BY <1>1, <1>2, <3>1, PutAllTakes
  <2>2. Handle(u, ev) = [u EXCEPT !.ps = PutAll(u.ps, ev.ps)]
    BY <1>2 DEF Handle, IsA
  <2> QED
    BY <1>1, <1>2, <2>1, <2>2 DEF UIs, IsA
<1>3. CASE IsA(ev, "remove") /\ ev.n \in Nat
  <2>1. Drop(Written(u.ps), ev.n) \in Seq(Paragraphs)
    BY <1>1, <1>3, WrittenIs, DropIs
  <2>2. Handle(u, ev) = [u EXCEPT !.ps = Drop(Written(u.ps), ev.n)]
    BY <1>3 DEF Handle, IsA
  <2> QED
    BY <1>1, <1>3, <2>1, <2>2 DEF UIs, IsA
<1>4. CASE IsA(ev, "removeAll")
  <2>1. Handle(u, ev) = [u EXCEPT !.ps = << >>]
    BY <1>4 DEF Handle, IsA
  <2>2. << >> \in Seq(Paragraphs)
    OBVIOUS
  <2> QED
    BY <1>1, <1>4, <2>1, <2>2 DEF UIs, IsA
<1>5. CASE IsA(ev, "request") /\ ev.req \in Kinds \cup {"none"}
  <2>1. Callback(ev.req) \in Kinds \cup {"none"}
    BY <1>5 DEF Callback, Kinds
  <2>2. Handle(u, ev) = [u EXCEPT !.req = Callback(ev.req)]
    BY <1>5 DEF Handle, IsA
  <2> QED
    BY <1>1, <1>5, <2>1, <2>2 DEF UIs, IsA
<1> QED
  BY <1>2, <1>3, <1>4, <1>5, EventIs

\* one event after the other
Handling(pe) == [i \in 1..Len(pe) |-> [v \in UIs |-> Handle(v, pe[i])]]

LEMMA ToldTakes ==
  ASSUME NEW u \in UIs, NEW pe \in Seq(Events)
  PROVE  \E f \in [0..Len(pe) -> UIs] :
            /\ f[0] = u /\ \A i \in 1..Len(pe) : f[i] = Handle(f[i - 1], pe[i])
            /\ Told(u, pe) = f[Len(pe)]
<1>1. Len(pe) \in Nat /\ \A i \in 1..Len(pe) : pe[i] \in Events
  BY LenProperties, ElementOfSeq
<1>2. Handling(pe) \in [1..Len(pe) -> [UIs -> UIs]]
  BY <1>1, HandleIs DEF Handling
<1>3. PICK f \in [0..Len(pe) -> UIs] : Takes(f, Len(pe), u, Handling(pe))
  BY <1>1, <1>2, Steps
<1>4. f[0] = u /\ \A i \in 1..Len(pe) : f[i] = Handle(f[i - 1], pe[i])
  <2> SUFFICES ASSUME NEW i \in 1..Len(pe) PROVE f[i] = Handle(f[i - 1], pe[i])
    BY <1>3 DEF Takes
  <2>1. f[i - 1] \in UIs /\ f[i] = Handling(pe)[i][f[i - 1]]
    BY <1>1, <1>3 DEF Takes
  <2> QED
    BY <2>1 DEF Handling
<1> DEFINE Body(h) == [i \in 0..Len(pe) |-> IF i = 0 THEN u ELSE Handle(h[i - 1], pe[i])]
           told == CHOOSE h : h = Body(h)
<1>5. f = Body(f)
  <2>1. \A i \in 0..Len(pe) : f[i] = Body(f)[i]
    BY <1>1, <1>4
  <2> QED
    BY <2>1, <1>3
<1>6. told = Body(told)
  BY <1>5
<1>7. Told(u, pe) = told[Len(pe)]
  BY DEF Told
<1> HIDE DEF told
<1>8. told[0] = u /\ \A i \in 1..Len(pe) : told[i] = Handle(told[i - 1], pe[i])
  <2>1. \A i \in 0..Len(pe) : told[i] = Body(told)[i]
    BY <1>6
  <2>2. \A i \in 1..Len(pe) : i \in 0..Len(pe) /\ i # 0
    OBVIOUS
  <2> QED
    BY <1>1, <2>1, <2>2
<1>9. \A i \in 0..Len(pe) : f[i] = told[i]
  <2>1. Parallel(f, told, Len(pe))
    BY <1>4, <1>8 DEF Parallel
  <2> QED
    BY <1>1, <2>1, SameByStep
<1>10. Len(pe) \in 0..Len(pe)
  BY <1>1
<1> QED
  BY <1>3, <1>4, <1>7, <1>9, <1>10

LEMMA ToldNothing ==
  ASSUME NEW u \in UIs
  PROVE  Told(u, << >>) = u
<1> DEFINE pe == << >>
<1>1. pe \in Seq(Events) /\ Len(pe) = 0
  OBVIOUS
<1> HIDE DEF pe
<1>2. PICK f \in [0..Len(pe) -> UIs] : f[0] = u /\ Told(u, pe) = f[Len(pe)]
  BY <1>1, ToldTakes
<1> QED
  BY <1>1, <1>2 DEF pe

LEMMA ToldIs ==
  ASSUME NEW u \in UIs, NEW pe \in Seq(Events)
  PROVE  Told(u, pe) \in UIs /\ Told(u, pe).ps \in Seq(Paragraphs) /\ Told(u, pe).req \in Kinds \cup {"none"}
<1>1. Len(pe) \in 0..Len(pe)
  BY LenProperties
<1>2. Told(u, pe) \in UIs
  BY <1>1, ToldTakes
<1> QED
  BY <1>2 DEF UIs

\* The UI is told of one more event.
LEMMA ToldAppend ==
  ASSUME NEW u \in UIs, NEW pe \in Seq(Events), NEW ev \in Events
  PROVE  Told(u, Append(pe, ev)) = Handle(Told(u, pe), ev)
<1>0. PICK n \in Nat : n = Len(pe)
  BY LenProperties
<1> DEFINE qe == Append(pe, ev)
<1>1. n \in Nat /\ qe \in Seq(Events) /\ Len(qe) = n + 1 /\ (\A i \in 1..n : qe[i] = pe[i]) /\ qe[n + 1] = ev
  BY <1>0, AppendProperties
<1> HIDE DEF qe
<1>2. PICK f \in [0..n -> UIs] : /\ f[0] = u /\ \A i \in 1..n : f[i] = Handle(f[i - 1], pe[i])
                                 /\ Told(u, pe) = f[n]
  BY <1>0, ToldTakes
<1>3. PICK g \in [0..Len(qe) -> UIs] : /\ g[0] = u /\ \A i \in 1..Len(qe) : g[i] = Handle(g[i - 1], qe[i])
                                       /\ Told(u, qe) = g[Len(qe)]
  BY <1>1, ToldTakes
<1>4. \A i \in 1..n : g[i] = Handle(g[i - 1], pe[i])
  BY <1>1, <1>3
<1>5. g[n + 1] = Handle(g[n], ev) /\ Told(u, qe) = g[n + 1]
  BY <1>1, <1>3
<1>6. \A i \in 0..n : f[i] = g[i]
  <2>1. Parallel(f, g, n)
    BY <1>2, <1>3, <1>4 DEF Parallel
  <2> QED
    BY <2>1, SameByStep
<1>7. f[n] = g[n]
  BY <1>1, <1>6
<1> QED
  BY <1>2, <1>5, <1>7 DEF qe

-----------------------------------------------------------------------------
(***************************************************************************)
(* Events that the UI can be told of.                                      *)
(***************************************************************************)
\* a list goes on where the paragraphs ps end
Fits(ps, ev) == IsA(ev, "list") => Follows(ps, ev.ps)

\* every list goes on where the events before it have left the UI
Whole(u, pe) ==
  /\ \A i \in 0..Len(pe) : Numbered(Told(u, SubSeq(pe, 1, i)).ps)
  /\ \A i \in 1..Len(pe) : Fits(Told(u, SubSeq(pe, 1, i - 1)).ps, pe[i])

\* no list ends with the open line
Closed(ev) == IsA(ev, "list") => Last(ev.ps).fixed

LEMMA DroppedIs ==
  ASSUME NEW w \in Seq(Paragraphs), \A k \in 1..Len(w) : w[k].fixed /\ w[k].id = k - 1, NEW n \in Nat
  PROVE  /\ Drop(w, n) \in Seq(Paragraphs) /\ Numbered(Drop(w, n)) /\ Written(Drop(w, n)) = Drop(w, n)
         /\ Len(Drop(w, n)) = IF n <= Len(w) THEN Len(w) - n ELSE 0
<1> DEFINE d == Drop(w, n)
<1>1. /\ d \in Seq(Paragraphs) /\ Len(d) = (IF n <= Len(w) THEN Len(w) - n ELSE 0)
      /\ \A k \in 1 .. Len(w) - n : d[k] = w[k]
  BY DropIs
<1> HIDE DEF d
<1>2. Len(w) \in Nat /\ Len(d) \in Nat
  BY <1>1, LenProperties
<1>3. \A k \in 1..Len(d) : d[k].fixed /\ d[k].id = k - 1
  <2> SUFFICES ASSUME NEW k \in 1..Len(d) PROVE d[k].fixed /\ d[k].id = k - 1
    OBVIOUS
  <2>1. k \in 1..Len(w) /\ k \in 1 .. Len(w) - n
    BY <1>1, <1>2
  <2> QED
    BY <1>1, <2>1
<1>4. DOMAIN d = 1..Len(d)
  BY <1>1, LenProperties
<1>5. Numbered(d)
  BY <1>3, <1>4 DEF Numbered, OpenIsLast
<1>6. Written(d) = d
  <2>1. d # << >> => Len(d) \in 1..Len(d)
    BY <1>1, <1>2, EmptySeq
  <2>2. d # << >> => Last(d).fixed
    BY <1>3, <2>1 DEF Last
  <2> QED
    BY <2>2 DEF Written
<1> QED
  BY <1>1, <1>5, <1>6 DEF d

LEMMA HandledIsNumbered ==
  ASSUME NEW u \in UIs, Numbered(u.ps), NEW ev \in Events, Fits(u.ps, ev)
  PROVE  Numbered(Handle(u, ev).ps)
<1>1. u.ps \in Seq(Paragraphs)
  BY DEF UIs
<1>2. CASE IsA(ev, "list") /\ ev.ps \in Seq(Paragraphs)
  BY <1>1, <1>2, HandleIs, ListIsPut, ZenonT(30) DEF Fits
<1>3. CASE IsA(ev, "remove") /\ ev.n \in Nat
  <2>1. /\ Written(u.ps) \in Seq(Paragraphs)
        /\ \A k \in 1..Len(Written(u.ps)) : Written(u.ps)[k].fixed /\ Written(u.ps)[k].id = k - 1
    BY <1>1, WrittenIs, WrittenIsFixed
  <2>2. Numbered(Drop(Written(u.ps), ev.n))
    BY <1>3, <2>1, DroppedIs
  <2> QED
    BY <1>3, <2>2, HandleIs
<1>4. CASE IsA(ev, "removeAll")
  <2>1. Numbered(<< >>)
    BY DEF Numbered, OpenIsLast
  <2> QED
    BY <1>4, <2>1, HandleIs
<1>5. CASE IsA(ev, "request")
  BY <1>5, HandleIs
<1> QED
  BY <1>2, <1>3, <1>4, <1>5, EventIs

LEMMA WholeNothing ==
  ASSUME NEW u \in UIs, Numbered(u.ps)
  PROVE  Whole(u, << >>)
<1> DEFINE pe == << >>
<1>1. Len(pe) = 0 /\ Told(u, pe) = u
  BY ToldNothing
<1>2. SubSeq(pe, 1, 0) = pe
  BY SubSeqEmpty
<1> HIDE DEF pe
<1>3. \A i \in 0..Len(pe) : i = 0
  BY <1>1
<1>4. \A i \in 1..Len(pe) : FALSE
  BY <1>1
<1>5. Whole(u, pe)
  BY <1>1, <1>2, <1>3, <1>4 DEF Whole
<1> QED
  BY <1>5 DEF pe

LEMMA WholeAppend ==
  ASSUME NEW u \in UIs, NEW pe \in Seq(Events), Whole(u, pe),
         NEW ev \in Events, Fits(Told(u, pe).ps, ev)
  PROVE  Append(pe, ev) \in Seq(Events) /\ Whole(u, Append(pe, ev))
<1>0. PICK n \in Nat : n = Len(pe)
  BY LenProperties
<1> DEFINE qe == Append(pe, ev)
<1>1. qe \in Seq(Events) /\ Len(qe) = n + 1 /\ (\A i \in 1..n : qe[i] = pe[i]) /\ qe[n + 1] = ev
  BY <1>0, AppendProperties
<1>2. \A i \in 0..n : SubSeq(qe, 1, i) = SubSeq(pe, 1, i)
  BY <1>0, PrefixOfAppend
<1>3. SubSeq(pe, 1, n) = pe
  BY <1>0, SubSeqFull
<1>4. Told(u, qe) = Handle(Told(u, pe), ev)
  BY ToldAppend
<1> HIDE DEF qe
<1>5. SubSeq(qe, 1, n + 1) = qe
  BY <1>1, SubSeqFull
<1>6. Numbered(Told(u, pe).ps)
  <2>1. n \in 0..n
    OBVIOUS
  <2> QED
    BY <1>0, <1>3, <2>1 DEF Whole
<1>7. Numbered(Told(u, qe).ps)
  BY <1>4, <1>6, ToldIs, HandledIsNumbered
<1>8. ASSUME NEW i \in 0..Len(qe) PROVE Numbered(Told(u, SubSeq(qe, 1, i)).ps)
  <2>1. CASE i = n + 1
    BY <1>5, <1>7, <2>1
  <2>2. CASE i # n + 1
    <3>1. i \in 0..n
      BY <1>1, <2>2
    <3> QED
      BY <1>0, <1>2, <3>1 DEF Whole
  <2> QED
    BY <2>1, <2>2
<1>9. ASSUME NEW i \in 1..Len(qe) PROVE Fits(Told(u, SubSeq(qe, 1, i - 1)).ps, qe[i])
  <2>1. CASE i = n + 1
    <3>1. i - 1 = n /\ n \in 0..n
      BY <2>1
    <3> QED
      BY <1>1, <1>2, <1>3, <2>1, <3>1
  <2>2. CASE i # n + 1
    <3>1. i \in 1..n /\ i - 1 \in 0..n
      BY <1>1, <2>2
    <3> QED
      BY <1>0, <1>1, <1>2, <3>1 DEF Whole
  <2> QED
    BY <2>1, <2>2
<1> QED
  BY <1>1, <1>8, <1>9 DEF Whole, qe

\* the events before the i-th
LEMMA WholePrefix ==
  ASSUME NEW u \in UIs, NEW pe \in Seq(Events), Whole(u, pe), NEW i \in 0..Len(pe)
  PROVE  SubSeq(pe, 1, i) \in Seq(Events) /\ Whole(u, SubSeq(pe, 1, i)) /\ Numbered(Told(u, SubSeq(pe, 1, i)).ps)
<1> DEFINE qe == SubSeq(pe, 1, i)
<1>1. /\ qe \in Seq(Events) /\ Len(qe) = i /\ \A j \in 1..i : qe[j] = pe[j]
  BY PrefixIs
<1>2. \A j \in 0..i : SubSeq(qe, 1, j) = SubSeq(pe, 1, j)
  BY PrefixOfPrefix
<1>3. Len(pe) \in Nat /\ i \in Nat /\ i <= Len(pe)
  BY LenProperties
<1> HIDE DEF qe
<1>4. ASSUME NEW j \in 0..i PROVE Numbered(Told(u, SubSeq(qe, 1, j)).ps)
  <2>1. j \in 0..Len(pe)
    BY <1>3
  <2> QED
    BY <1>2, <2>1 DEF Whole
<1>5. ASSUME NEW j \in 1..i PROVE Fits(Told(u, SubSeq(qe, 1, j - 1)).ps, qe[j])
  <2>1. j \in 1..Len(pe) /\ j - 1 \in 0..i
    BY <1>3
  <2> QED
    BY <1>1, <1>2, <2>1 DEF Whole
<1>6. Whole(u, qe)
  BY <1>1, <1>4, <1>5 DEF Whole
<1> QED
  BY <1>1, <1>6 DEF Whole, qe

LEMMA WholeTold ==
  ASSUME NEW u \in UIs, NEW pe \in Seq(Events), Whole(u, pe)
  PROVE  Numbered(Told(u, pe).ps)
<1>1. SubSeq(pe, 1, Len(pe)) = pe /\ Len(pe) \in 0..Len(pe)
  BY SubSeqFull, LenProperties
<1> QED
  BY <1>1 DEF Whole

\* the UI before and after the i-th event
LEMMA ToldOne ==
  ASSUME NEW u \in UIs, NEW pe \in Seq(Events), NEW i \in 1..Len(pe)
  PROVE  /\ pe[i] \in Events /\ SubSeq(pe, 1, i - 1) \in Seq(Events)
         /\ SubSeq(pe, 1, i) = Append(SubSeq(pe, 1, i - 1), pe[i])
         /\ Told(u, SubSeq(pe, 1, i)) = Handle(Told(u, SubSeq(pe, 1, i - 1)), pe[i])
<1>1. Len(pe) \in Nat /\ pe[i] \in Events /\ i - 1 \in 0..Len(pe) /\ 1 \in 1..Len(pe) /\ i \in 1..Len(pe)
  BY LenProperties, ElementOfSeq
<1> DEFINE t == SubSeq(pe, 1, i - 1)
<1>2. t \in Seq(Events)
  BY <1>1, PrefixIs
<1>3. SubSeq(pe, 1, i) = t \o << pe[i] >>
  BY <1>1, SubSeqRecursiveSecond
<1> HIDE DEF t
<1>4. SubSeq(pe, 1, i) = Append(t, pe[i])
  BY <1>1, <1>2, <1>3, AppendIsConcat
<1> QED
  BY <1>1, <1>2, <1>4, ToldAppend DEF t

-----------------------------------------------------------------------------
(***************************************************************************)
(* A paragraph is added.                                                   *)
(***************************************************************************)
\* The list qs is told of.
LEMMA ListingIs ==
  ASSUME NEW u \in UIs, NEW pe \in Seq(Events), Whole(u, pe),
         NEW qs \in Seq(Paragraphs), Follows(Told(u, pe).ps, qs)
  PROVE  /\ Append(pe, Listing(qs)) \in Seq(Events) /\ Whole(u, Append(pe, Listing(qs)))
         /\ Told(u, Append(pe, Listing(qs))).ps = Written(Told(u, pe).ps) \o qs
         /\ Told(u, Append(pe, Listing(qs))).req = Told(u, pe).req
<1>1. PICK ev \in Events : ev = Listing(qs) /\ IsA(ev, "list") /\ ev.ps = qs
  BY EventsAre
<1>2. Append(pe, ev) \in Seq(Events) /\ Whole(u, Append(pe, ev))
  BY <1>1, WholeAppend DEF Fits
<1>3. Told(u, Append(pe, ev)) = Handle(Told(u, pe), ev)
  BY ToldAppend
<1>4. PutAll(Told(u, pe).ps, qs) = Written(Told(u, pe).ps) \o qs
  BY ToldIs, WholeTold, ListIsPut
<1>5. Handle(Told(u, pe), ev).ps = PutAll(Told(u, pe).ps, qs) /\ Handle(Told(u, pe), ev).req = Told(u, pe).req
  BY <1>1, ToldIs, HandleIs
<1> QED
  BY <1>1, <1>2, <1>3, <1>4, <1>5

LEMMA SingleIs ==
  ASSUME NEW p \in Paragraphs
  PROVE  << p >> \in Seq(Paragraphs) /\ Len(<< p >>) = 1 /\ << p >>[1] = p /\ << p >> # << >> /\ Last(<< p >>) = p
BY DEF Last

LEMMA SingleFollows ==
  ASSUME NEW ps, NEW p \in Paragraphs, Len(Written(ps)) \in Nat, p.id = Len(Written(ps))
  PROVE  Follows(ps, << p >>)
<1> DEFINE q == << p >>
<1>1. q \in Seq(Paragraphs) /\ Len(q) = 1 /\ q[1] = p /\ q # << >>
  BY SingleIs
<1> HIDE DEF q
<1>2. DOMAIN q = 1..1
  BY <1>1, LenProperties
<1>3. Follows(ps, q)
  BY <1>1, <1>2 DEF Follows, OpenIsLast
<1> QED
  BY <1>3 DEF q

LEMMA FollowsLonger ==
  ASSUME NEW ps, NEW qs \in Seq(Paragraphs), Follows(ps, qs), Last(qs).fixed, Len(Written(ps)) \in Nat,
         NEW p \in Paragraphs, p.id = Len(Written(ps)) + Len(qs)
  PROVE  /\ Put(qs, p) = Append(qs, p) /\ Append(qs, p) \in Seq(Paragraphs)
         /\ Follows(ps, Append(qs, p)) /\ Last(Append(qs, p)) = p
<1>1. PICK n \in Nat : n = Len(qs) /\ n # 0 /\ n \in 1..n
  BY EmptySeq DEF Follows
<1>2. \A k \in 1..n : qs[k].id = Len(Written(ps)) + k - 1 /\ (~qs[k].fixed => k = n)
  BY <1>1, LenProperties DEF Follows, OpenIsLast
<1>3. \A k \in 1..n : qs[k].fixed
  BY <1>1, <1>2 DEF Last
<1>4. Last(qs).id # p.id
  BY <1>1, <1>2 DEF Last
<1> DEFINE r == Append(qs, p)
<1>5. r \in Seq(Paragraphs) /\ Len(r) = n + 1 /\ r # << >> /\ (\A k \in 1..n : r[k] = qs[k]) /\ r[n + 1] = p
  BY <1>1, AppendProperties
<1>6. Put(qs, p) = r
  BY <1>4 DEF Put
<1> HIDE DEF r
<1>7. \A k \in 1 .. n + 1 : r[k].id = Len(Written(ps)) + k - 1 /\ (~r[k].fixed => k = n + 1)
  <2> SUFFICES ASSUME NEW k \in 1 .. n + 1
               PROVE  r[k].id = Len(Written(ps)) + k - 1 /\ (~r[k].fixed => k = n + 1)
    OBVIOUS
  <2>1. CASE k = n + 1
    BY <1>1, <1>5, <2>1
  <2>2. CASE k # n + 1
    <3>1. k \in 1..n
      BY <2>2
    <3> QED
      BY <1>2, <1>3, <1>5, <3>1
  <2> QED
    BY <2>1, <2>2
<1>8. DOMAIN r = 1 .. n + 1
  BY <1>5, LenProperties
<1>9. Follows(ps, r)
  BY <1>5, <1>7, <1>8 DEF Follows, OpenIsLast
<1>10. Last(r) = p
  BY <1>5 DEF Last
<1> QED
  BY <1>5, <1>6, <1>9, <1>10 DEF r

LEMMA JoinWritten ==
  ASSUME NEW w \in Seq(Paragraphs), NEW qs \in Seq(Paragraphs), qs # << >>, Last(qs).fixed
  PROVE  Written(w \o qs) = w \o qs /\ Len(w \o qs) = Len(w) + Len(qs)
<1> DEFINE x == w \o qs
<1>1. /\ x \in Seq(Paragraphs) /\ Len(x) = Len(w) + Len(qs)
      /\ \A k \in 1 .. Len(w) + Len(qs) : x[k] = IF k <= Len(w) THEN w[k] ELSE qs[k - Len(w)]
  BY ConcatProperties
<1>2. Len(qs) \in Nat /\ Len(qs) # 0 /\ Len(w) \in Nat
  BY EmptySeq, LenProperties
<1> HIDE DEF x
<1>3. x[Len(x)] = qs[Len(qs)]
  <2>1. PICK m \in Nat : m = Len(w) + Len(qs)
    BY <1>2
  <2>2. m \in 1 .. Len(w) + Len(qs) /\ ~(m <= Len(w)) /\ m - Len(w) = Len(qs)
    BY <1>2, <2>1
  <2> QED
    BY <1>1, <2>1, <2>2
<1>4. Written(x) = x
  BY <1>3 DEF Written, Last
<1> QED
  BY <1>1, <1>4 DEF x

\* What the UI will show grows by the paragraph, however the list was merged.
LEMMA AddedIs ==
  ASSUME NEW u \in UIs, NEW pe \in Seq(Events), Whole(u, pe), \A i \in 1..Len(pe) : Closed(pe[i]),
         NEW p \in Paragraphs, p.id = Len(Written(Told(u, pe).ps))
  PROVE  /\ AddParagraph(pe, p) \in Seq(Events) /\ Whole(u, AddParagraph(pe, p))
         /\ Told(u, AddParagraph(pe, p)).ps = Append(Written(Told(u, pe).ps), p)
         /\ Told(u, AddParagraph(pe, p)).req = Told(u, pe).req
         /\ p.fixed => \A i \in 1..Len(AddParagraph(pe, p)) : Closed(AddParagraph(pe, p)[i])
<1>1. /\ Told(u, pe).ps \in Seq(Paragraphs) /\ Numbered(Told(u, pe).ps)
      /\ Written(Told(u, pe).ps) \in Seq(Paragraphs) /\ Len(Written(Told(u, pe).ps)) \in Nat
  BY ToldIs, WholeTold, WrittenIs
<1>2. CASE pe # << >> /\ IsA(Last(pe), "list")
  <2>1. PICK n \in Nat : n = Len(pe) /\ n \in 1..n /\ n - 1 \in 0..n /\ n - 1 \in Nat
    BY <1>2, EmptySeq
  <2>2. PICK ev \in Events : ev = pe[n] /\ ev = Last(pe) /\ IsA(ev, "list") /\ Closed(ev)
    BY <1>2, <2>1, ElementOfSeq DEF Last
  <2>3. PICK qs \in Seq(Paragraphs) : qs = ev.ps /\ Last(qs).fixed
    BY <2>2, EventIs DEF Closed, IsA
  <2>4. PICK fe \in Seq(Events) : fe = Front(pe) /\ fe = SubSeq(pe, 1, n - 1) /\ Len(fe) = n - 1
                                  /\ \A i \in 1 .. n - 1 : fe[i] = pe[i]
    BY <1>2, <2>1, FrontLast DEF Front
  <2>5. Whole(u, fe) /\ Follows(Told(u, fe).ps, qs)
    BY <2>1, <2>2, <2>3, <2>4, WholePrefix DEF Whole, Fits
  <2>6. PICK w \in Seq(Paragraphs) : w = Written(Told(u, fe).ps)
    BY ToldIs, WrittenIs
  <2>7. Told(u, pe).ps = w \o qs /\ Told(u, pe).req = Told(u, fe).req
    <3>1. pe = Append(fe, ev)
      BY <1>2, <2>2, <2>4, FrontLast
    <3>2. Told(u, Append(fe, ev)) = Handle(Told(u, fe), ev)
      BY ToldAppend
    <3>3. Handle(Told(u, fe), ev).ps = PutAll(Told(u, fe).ps, qs) /\ Handle(Told(u, fe), ev).req = Told(u, fe).req
      BY <2>2, <2>3, ToldIs, HandleIs
    <3>4. PutAll(Told(u, fe).ps, qs) = w \o qs
      BY <2>5, <2>6, ToldIs, WholeTold, ListIsPut
    <3> QED
      BY <3>1, <3>2, <3>3, <3>4
  <2>8. Written(Told(u, pe).ps) = w \o qs /\ Len(w \o qs) = Len(w) + Len(qs) /\ Len(w) \in Nat
    BY <2>3, <2>5, <2>7, JoinWritten, LenProperties DEF Follows
  <2>9. p.id = Len(Written(Told(u, fe).ps)) + Len(qs) /\ Len(Written(Told(u, fe).ps)) \in Nat
    BY <2>6, <2>8
  <2>10. PICK r \in Seq(Paragraphs) : /\ r = Put(qs, p) /\ r = Append(qs, p)
                                      /\ Follows(Told(u, fe).ps, r) /\ Last(r) = p
    BY <2>3, <2>5, <2>9, FollowsLonger
  <2>11. AddParagraph(pe, p) = Append(fe, Listing(r))
    BY <1>2, <2>2, <2>3, <2>4, <2>10 DEF AddParagraph
  <2>12. /\ Append(fe, Listing(r)) \in Seq(Events) /\ Whole(u, Append(fe, Listing(r)))
         /\ Told(u, Append(fe, Listing(r))).ps = w \o r
         /\ Told(u, Append(fe, Listing(r))).req = Told(u, fe).req
    BY <2>5, <2>6, <2>10, ListingIs
  <2>13. w \o r = Append(w \o qs, p)
    BY <2>10, JoinAppend
  <2>14. ASSUME p.fixed, NEW i \in 1..Len(Append(fe, Listing(r)))
         PROVE  Closed(Append(fe, Listing(r))[i])
    <3>1. Listing(r) \in Events /\ Listing(r).ps = r
      BY EventsAre
    <3>2. /\ Len(Append(fe, Listing(r))) = n /\ (\A k \in 1 .. n - 1 : Append(fe, Listing(r))[k] = fe[k])
          /\ Append(fe, Listing(r))[n] = Listing(r)
      BY <2>1, <2>4, <3>1, AppendProperties
    <3>3. CASE i = n
      BY <2>10, <2>14, <3>1, <3>2, <3>3 DEF Closed
    <3>4. CASE i # n
      <4>1. i \in 1 .. n - 1 /\ i \in 1..Len(pe)
        BY <2>1, <3>2, <3>4
      <4> QED
        BY <2>4, <3>2, <4>1
    <3> QED
      BY <3>3, <3>4
  <2>15. w \o r = Append(Written(Told(u, pe).ps), p)
    BY <2>8, <2>13
  <2> QED
    BY <2>7, <2>11, <2>12, <2>14, <2>15
<1>3. CASE ~(pe # << >> /\ IsA(Last(pe), "list"))
  <2>1. PICK q \in Seq(Paragraphs) : q = << p >> /\ Follows(Told(u, pe).ps, q) /\ Last(q) = p
    BY <1>1, SingleIs, SingleFollows
  <2>2. AddParagraph(pe, p) = Append(pe, Listing(q))
    BY <1>3, <2>1 DEF AddParagraph
  <2>3. /\ Append(pe, Listing(q)) \in Seq(Events) /\ Whole(u, Append(pe, Listing(q)))
        /\ Told(u, Append(pe, Listing(q))).ps = Written(Told(u, pe).ps) \o q
        /\ Told(u, Append(pe, Listing(q))).req = Told(u, pe).req
    BY <2>1, ListingIs
  <2>4. Written(Told(u, pe).ps) \o q = Append(Written(Told(u, pe).ps), p)
    BY <1>1, <2>1, AppendIsConcat
  <2>5. ASSUME p.fixed, NEW i \in 1..Len(Append(pe, Listing(q)))
        PROVE  Closed(Append(pe, Listing(q))[i])
    <3>1. Listing(q) \in Events /\ Listing(q).ps = q
      BY EventsAre
    <3>2. PICK n \in Nat : n = Len(pe)
      BY LenProperties
    <3>3. /\ Len(Append(pe, Listing(q))) = n + 1 /\ (\A k \in 1..n : Append(pe, Listing(q))[k] = pe[k])
          /\ Append(pe, Listing(q))[n + 1] = Listing(q)
      BY <3>1, <3>2, AppendProperties
    <3>4. CASE i = n + 1
      BY <2>1, <2>5, <3>1, <3>3, <3>4 DEF Closed
    <3>5. CASE i # n + 1
      <4>1. i \in 1..n
        BY <3>3, <3>5
      <4> QED
        BY <3>2, <3>3, <4>1
    <3> QED
      BY <3>4, <3>5
  <2> QED
    BY <2>2, <2>3, <2>4, <2>5
<1> QED
  BY <1>2, <1>3

-----------------------------------------------------------------------------
(***************************************************************************)
(* Paragraphs are removed.                                                 *)
(***************************************************************************)
LEMMA DropNone ==
  ASSUME NEW S, NEW q \in Seq(S)
  PROVE  Drop(q, 0) = q
BY SubSeqFull, LenProperties DEF Drop

LEMMA DropDrop ==
  ASSUME NEW S, NEW q \in Seq(S), NEW a \in Nat, NEW b \in Nat
  PROVE  Drop(Drop(q, a), b) = Drop(q, a + b)
<1>0. Len(q) \in Nat /\ a + b \in Nat
  BY LenProperties
<1> DEFINE x == Drop(q, a)
           y == Drop(x, b)
           z == Drop(q, a + b)
<1>1. x \in Seq(S) /\ Len(x) = (IF a <= Len(q) THEN Len(q) - a ELSE 0) /\ \A i \in 1 .. Len(q) - a : x[i] = q[i]
  BY DropIs
<1> HIDE DEF x
<1>2. y \in Seq(S) /\ Len(y) = (IF b <= Len(x) THEN Len(x) - b ELSE 0) /\ \A i \in 1 .. Len(x) - b : y[i] = x[i]
  BY <1>1, DropIs
<1>3. z \in Seq(S) /\ Len(z) = (IF a + b <= Len(q) THEN Len(q) - (a + b) ELSE 0)
      /\ \A i \in 1 .. Len(q) - (a + b) : z[i] = q[i]
  BY <1>0, DropIs
<1> HIDE DEF y, z
<1>4. Len(y) = Len(z)
  BY <1>0, <1>1, <1>2, <1>3
<1>5. \A i \in 1..Len(y) : y[i] = z[i]
  <2> SUFFICES ASSUME NEW i \in 1..Len(y) PROVE y[i] = z[i]
    OBVIOUS
  <2>1. i \in 1 .. Len(x) - b /\ i \in 1 .. Len(q) - a /\ i \in 1 .. Len(q) - (a + b)
    BY <1>0, <1>1, <1>2
  <2> QED
    BY <1>1, <1>2, <1>3, <2>1
<1>6. y = z
  BY <1>2, <1>3, <1>4, <1>5, SeqEqual
<1> QED
  BY <1>6 DEF x, y, z

LEMMA DropSome ==
  ASSUME NEW S, NEW w \in Seq(S), NEW q \in Seq(S), NEW k \in Nat, k < Len(q)
  PROVE  Drop(w \o q, k) = w \o SubSeq(q, 1, Len(q) - k)
<1>0. Len(w) \in Nat /\ Len(q) \in Nat
  BY LenProperties
<1>1. PICK i \in 1..Len(q) : i = Len(q) - k
  BY <1>0, SMTT(30)
<1> DEFINE v == w \o q
           x == Drop(v, k)
           y == w \o SubSeq(q, 1, i)
<1>2. v \in Seq(S) /\ Len(v) = Len(w) + Len(q)
      /\ \A j \in 1 .. Len(w) + Len(q) : v[j] = IF j <= Len(w) THEN w[j] ELSE q[j - Len(w)]
  BY ConcatProperties
<1> HIDE DEF v
<1>3. x \in Seq(S) /\ Len(x) = (IF k <= Len(v) THEN Len(v) - k ELSE 0) /\ \A j \in 1 .. Len(v) - k : x[j] = v[j]
  BY <1>2, DropIs
<1>4. y \in Seq(S) /\ Len(y) = Len(w) + i
      /\ \A j \in 1 .. Len(w) + i : y[j] = IF j <= Len(w) THEN w[j] ELSE q[j - Len(w)]
  BY JoinIs
<1> HIDE DEF x, y
<1>5. Len(x) = Len(y) /\ Len(y) = Len(v) - k
  BY <1>0, <1>1, <1>2, <1>3, <1>4
<1>6. \A j \in 1..Len(x) : x[j] = y[j]
  <2> SUFFICES ASSUME NEW j \in 1..Len(x) PROVE x[j] = y[j]
    OBVIOUS
  <2>1. j \in 1 .. Len(v) - k /\ j \in 1 .. Len(w) + i /\ j \in 1 .. Len(w) + Len(q)
    BY <1>0, <1>1, <1>2, <1>4, <1>5
  <2> QED
    BY <1>2, <1>3, <1>4, <2>1
<1>7. x = y
  BY <1>3, <1>4, <1>5, <1>6, SeqEqual
<1> QED
  BY <1>1, <1>7 DEF v, x, y

LEMMA DropAll ==
  ASSUME NEW S, NEW w \in Seq(S), NEW q \in Seq(S), NEW k \in Nat, ~(k < Len(q))
  PROVE  k - Len(q) \in 0..k /\ Drop(w \o q, k) = Drop(w, k - Len(q))
<1>0. Len(w) \in Nat /\ Len(q) \in Nat
  BY LenProperties
<1>1. PICK r \in Nat : r = k - Len(q)
  BY <1>0
<1> DEFINE v == w \o q
           x == Drop(v, k)
           y == Drop(w, r)
<1>2. v \in Seq(S) /\ Len(v) = Len(w) + Len(q)
      /\ \A j \in 1 .. Len(w) + Len(q) : v[j] = IF j <= Len(w) THEN w[j] ELSE q[j - Len(w)]
  BY ConcatProperties
<1> HIDE DEF v
<1>3. x \in Seq(S) /\ Len(x) = (IF k <= Len(v) THEN Len(v) - k ELSE 0) /\ \A j \in 1 .. Len(v) - k : x[j] = v[j]
  BY <1>2, DropIs
<1>4. y \in Seq(S) /\ Len(y) = (IF r <= Len(w) THEN Len(w) - r ELSE 0) /\ \A j \in 1 .. Len(w) - r : y[j] = w[j]
  BY DropIs
<1> HIDE DEF x, y
<1>5. Len(x) = Len(y)
  BY <1>0, <1>1, <1>2, <1>3, <1>4
<1>6. \A j \in 1..Len(x) : x[j] = y[j]
  <2> SUFFICES ASSUME NEW j \in 1..Len(x) PROVE x[j] = y[j]
    OBVIOUS
  <2>1. j \in 1 .. Len(v) - k /\ j \in 1 .. Len(w) - r /\ j \in 1 .. Len(w) + Len(q) /\ j <= Len(w)
    BY <1>0, <1>1, <1>2, <1>3
  <2> QED
    BY <1>2, <1>3, <1>4, <2>1
<1>7. x = y
  BY <1>3, <1>4, <1>5, <1>6, SeqEqual
<1> QED
  BY <1>0, <1>1, <1>7 DEF v, x, y

\* events that can be told, none of them a list with the open line
Calm(u, qe) == qe \in Seq(Events) /\ Whole(u, qe) /\ \A i \in 1..Len(qe) : Closed(qe[i])

\* re is what is left of the events qe when k paragraphs are removed
Removes(u, qe, k, re) ==
  /\ Calm(u, re)
  /\ Written(Told(u, re).ps) = Drop(Written(Told(u, qe).ps), k)
  /\ Told(u, re).req = Told(u, qe).req

LEMMA CalmAppend ==
  ASSUME NEW u \in UIs, NEW qe, Calm(u, qe), NEW ev \in Events, Fits(Told(u, qe).ps, ev), Closed(ev)
  PROVE  Calm(u, Append(qe, ev))
<1>1. Append(qe, ev) \in Seq(Events) /\ Whole(u, Append(qe, ev))
  BY WholeAppend DEF Calm
<1>2. PICK n \in Nat : n = Len(qe)
  BY LenProperties DEF Calm
<1>3. /\ Len(Append(qe, ev)) = n + 1 /\ (\A k \in 1..n : Append(qe, ev)[k] = qe[k])
      /\ Append(qe, ev)[n + 1] = ev
  BY <1>2, AppendProperties DEF Calm
<1>4. ASSUME NEW i \in 1..Len(Append(qe, ev)) PROVE Closed(Append(qe, ev)[i])
  <2>1. CASE i = n + 1
    BY <1>3, <2>1
  <2>2. CASE i # n + 1
    <3>1. i \in 1..n
      BY <1>3, <2>2
    <3> QED
      BY <1>2, <1>3, <3>1 DEF Calm
  <2> QED
    BY <2>1, <2>2
<1> QED
  BY <1>1, <1>4 DEF Calm

LEMMA CalmPrefix ==
  ASSUME NEW u \in UIs, NEW pe, Calm(u, pe), NEW i \in 0..Len(pe)
  PROVE  Calm(u, SubSeq(pe, 1, i))
<1>1. /\ SubSeq(pe, 1, i) \in Seq(Events) /\ Len(SubSeq(pe, 1, i)) = i
      /\ \A j \in 1..i : SubSeq(pe, 1, i)[j] = pe[j]
  BY PrefixIs DEF Calm
<1>2. Whole(u, SubSeq(pe, 1, i))
  BY WholePrefix DEF Calm
<1>3. Len(pe) \in Nat
  BY LenProperties DEF Calm
<1>4. ASSUME NEW j \in 1..i PROVE Closed(SubSeq(pe, 1, i)[j])
  <2>1. j \in 1..Len(pe)
    BY <1>3
  <2> QED
    BY <1>1, <2>1 DEF Calm
<1> QED
  BY <1>1, <1>2, <1>4 DEF Calm

\* the fixed paragraphs of the UI that was told of qe
LEMMA CalmIs ==
  ASSUME NEW u \in UIs, NEW qe, Calm(u, qe)
  PROVE  LET w == Written(Told(u, qe).ps)
         IN  /\ Told(u, qe) \in UIs /\ Told(u, qe).ps \in Seq(Paragraphs) /\ Numbered(Told(u, qe).ps)
             /\ w \in Seq(Paragraphs) /\ Len(w) \in Nat /\ Written(w) = w
             /\ \A k \in 1..Len(w) : w[k].fixed /\ w[k].id = k - 1
<1>1. Told(u, qe) \in UIs /\ Told(u, qe).ps \in Seq(Paragraphs) /\ Numbered(Told(u, qe).ps)
  BY ToldIs, WholeTold DEF Calm
<1> QED
  BY <1>1, WrittenIs, WrittenIsFixed

\* a removal that is not merged
LEMMA RemovalTold ==
  ASSUME NEW u \in UIs, NEW qe, Calm(u, qe), NEW k \in Nat
  PROVE  Removes(u, qe, k, Append(qe, Removal(k)))
<1>1. PICK w \in Seq(Paragraphs) : /\ w = Written(Told(u, qe).ps)
                                   /\ \A j \in 1..Len(w) : w[j].fixed /\ w[j].id = j - 1
  BY CalmIs
<1>2. PICK ev \in Events : ev = Removal(k) /\ IsA(ev, "remove") /\ ev.n = k
  BY EventsAre
<1>3. Fits(Told(u, qe).ps, ev) /\ Closed(ev)
  BY <1>2 DEF Fits, Closed, IsA
<1>4. Calm(u, Append(qe, ev))
  BY <1>3, CalmAppend
<1>5. Told(u, Append(qe, ev)) = Handle(Told(u, qe), ev)
  BY ToldAppend DEF Calm
<1>6. Handle(Told(u, qe), ev).ps = Drop(w, k) /\ Handle(Told(u, qe), ev).req = Told(u, qe).req
  BY <1>1, <1>2, CalmIs, HandleIs
<1>7. Written(Drop(w, k)) = Drop(w, k)
  BY <1>1, DroppedIs
<1> QED
  BY <1>1, <1>2, <1>4, <1>5, <1>6, <1>7 DEF Removes

\* ... and one that is added to another
LEMMA RemovalsTold ==
  ASSUME NEW u \in UIs, NEW fe, Calm(u, fe), NEW m \in Nat, NEW k \in Nat
  PROVE  Removes(u, Append(fe, Removal(m)), k, Append(fe, Removal(m + k)))
<1>1. PICK w \in Seq(Paragraphs) : w = Written(Told(u, fe).ps)
  BY CalmIs
<1>2. m + k \in Nat
  OBVIOUS
<1>3. Removes(u, fe, m, Append(fe, Removal(m))) /\ Removes(u, fe, m + k, Append(fe, Removal(m + k)))
  BY <1>2, RemovalTold
<1>4. Drop(Drop(w, m), k) = Drop(w, m + k)
  BY DropDrop
<1> QED
  BY <1>1, <1>3, <1>4 DEF Removes

LEMMA ClearingTold ==
  ASSUME NEW u \in UIs, NEW fe, Calm(u, fe)
  PROVE  /\ Calm(u, Append(fe, Clearing)) /\ Told(u, Append(fe, Clearing)).ps = << >>
         /\ Written(Told(u, Append(fe, Clearing)).ps) = << >>
         /\ Told(u, Append(fe, Clearing)).req = Told(u, fe).req
<1>1. Clearing \in Events /\ IsA(Clearing, "removeAll")
  BY EventsAre
<1>2. Fits(Told(u, fe).ps, Clearing) /\ Closed(Clearing)
  BY <1>1 DEF Fits, Closed, IsA
<1>3. Told(u, Append(fe, Clearing)) = Handle(Told(u, fe), Clearing)
  BY <1>1, ToldAppend DEF Calm
<1>4. Handle(Told(u, fe), Clearing).ps = << >> /\ Handle(Told(u, fe), Clearing).req = Told(u, fe).req
  BY <1>1, CalmIs, HandleIs
<1>5. Written(<< >>) = << >>
  BY DEF Written
<1> QED
  BY <1>1, <1>2, <1>3, <1>4, <1>5, CalmAppend

LEMMA ClearingRemoved ==
  ASSUME NEW u \in UIs, NEW fe, Calm(u, fe), NEW k \in Nat
  PROVE  Removes(u, Append(fe, Clearing), k, Append(fe, Clearing))
<1> DEFINE e == << >>
<1>1. e \in Seq(Paragraphs) /\ Len(e) = 0
  OBVIOUS
<1>2. Drop(e, k) = e
  <2>1. 0 - k < 1 /\ 0 - k \in Int
    OBVIOUS
  <2> QED
    BY <2>1, SubSeqEmpty DEF Drop
<1> QED
  BY <1>2, ClearingTold DEF Removes

\* a list: some of its paragraphs go, or all of them, and then more of what was before
LEMMA ListTold ==
  ASSUME NEW u \in UIs, NEW fe, Calm(u, fe),
         NEW qs \in Seq(Paragraphs), Follows(Told(u, fe).ps, qs), Last(qs).fixed
  PROVE  /\ Calm(u, Append(fe, Listing(qs)))
         /\ Written(Told(u, Append(fe, Listing(qs))).ps) = Written(Told(u, fe).ps) \o qs
         /\ Told(u, Append(fe, Listing(qs))).req = Told(u, fe).req
<1>1. Listing(qs) \in Events /\ IsA(Listing(qs), "list") /\ Listing(qs).ps = qs
  BY EventsAre
<1>2. Fits(Told(u, fe).ps, Listing(qs)) /\ Closed(Listing(qs))
  BY <1>1 DEF Fits, Closed
<1>3. Calm(u, Append(fe, Listing(qs)))
  BY <1>1, <1>2, CalmAppend
<1>4. /\ Told(u, Append(fe, Listing(qs))).ps = Written(Told(u, fe).ps) \o qs
      /\ Told(u, Append(fe, Listing(qs))).req = Told(u, fe).req
  BY ListingIs DEF Calm
<1>5. Written(Written(Told(u, fe).ps) \o qs) = Written(Told(u, fe).ps) \o qs
  BY CalmIs, JoinWritten DEF Follows
<1> QED
  BY <1>3, <1>4, <1>5

LEMMA FollowsShorter ==
  ASSUME NEW ps, NEW qs \in Seq(Paragraphs), Follows(ps, qs), Last(qs).fixed, NEW i \in 1..Len(qs)
  PROVE  /\ SubSeq(qs, 1, i) \in Seq(Paragraphs) /\ Follows(ps, SubSeq(qs, 1, i))
         /\ Last(SubSeq(qs, 1, i)).fixed /\ SubSeq(qs, 1, i) # << >>
<1>1. Len(qs) \in Nat /\ i \in Nat /\ i # 0 /\ i \in 1..i /\ i \in 0..Len(qs) /\ i <= Len(qs)
  BY LenProperties
<1> DEFINE t == SubSeq(qs, 1, i)
<1>2. t \in Seq(Paragraphs) /\ Len(t) = i /\ \A j \in 1..i : t[j] = qs[j]
  BY <1>1, PrefixIs
<1> HIDE DEF t
<1>3. \A j \in 1..Len(qs) : qs[j].fixed /\ qs[j].id = Len(Written(ps)) + j - 1
  BY <1>1, LenProperties DEF Follows, OpenIsLast, Last
<1>4. \A j \in 1..i : j \in 1..Len(qs)
  BY <1>1
<1>5. \A j \in 1..i : t[j].fixed /\ t[j].id = Len(Written(ps)) + j - 1
  BY <1>2, <1>3, <1>4
<1>6. t # << >> /\ DOMAIN t = 1..i
  BY <1>1, <1>2, EmptySeq, LenProperties
<1>7. Follows(ps, t)
  BY <1>5, <1>6 DEF Follows, OpenIsLast
<1>8. Last(t).fixed
  BY <1>1, <1>2, <1>5 DEF Last
<1> QED
  BY <1>2, <1>6, <1>7, <1>8 DEF t

LEMMA ListShortened ==
  ASSUME NEW u \in UIs, NEW fe, Calm(u, fe),
         NEW qs \in Seq(Paragraphs), Follows(Told(u, fe).ps, qs), Last(qs).fixed,
         NEW k \in Nat, k < Len(qs)
  PROVE  Removes(u, Append(fe, Listing(qs)), k, Append(fe, Listing(SubSeq(qs, 1, Len(qs) - k))))
<1>1. PICK w \in Seq(Paragraphs) : w = Written(Told(u, fe).ps)
  BY CalmIs
<1>2. Len(qs) - k \in 1..Len(qs)
  <2>1. PICK n \in Nat : n = Len(qs)
    BY LenProperties
  <2>2. k < n
    BY <2>1
  <2>3. n - k \in 1..n
    BY <2>2
  <2> QED
    BY <2>1, <2>3
<1>3. PICK i \in 1..Len(qs) : i = Len(qs) - k
  BY <1>2, Zenon
<1>4. PICK rs \in Seq(Paragraphs) : rs = SubSeq(qs, 1, i) /\ Follows(Told(u, fe).ps, rs) /\ Last(rs).fixed
  BY FollowsShorter
<1>5. Drop(w \o qs, k) = w \o rs
  BY <1>3, <1>4, DropSome
<1>6. Removes(u, Append(fe, Listing(qs)), k, Append(fe, Listing(rs)))
  BY <1>1, <1>4, <1>5, ListTold, ZenonT(30) DEF Removes
<1> QED
  BY <1>3, <1>4, <1>6

LEMMA ListEmptied ==
  ASSUME NEW u \in UIs, NEW fe, Calm(u, fe),
         NEW qs \in Seq(Paragraphs), Follows(Told(u, fe).ps, qs), Last(qs).fixed,
         NEW k \in Nat, ~(k < Len(qs)), NEW re, Removes(u, fe, k - Len(qs), re)
  PROVE  Removes(u, Append(fe, Listing(qs)), k, re)
<1>1. PICK w \in Seq(Paragraphs) : w = Written(Told(u, fe).ps)
  BY CalmIs
<1>2. Drop(w \o qs, k) = Drop(w, k - Len(qs))
  BY DropAll
<1> QED
  BY <1>1, <1>2, ListTold DEF Removes

LEMMA NoneRemoved ==
  ASSUME NEW u \in UIs, NEW fe, Calm(u, fe)
  PROVE  Removes(u, fe, 0, fe)
BY CalmIs, DropNone DEF Removes

-----------------------------------------------------------------------------
(***************************************************************************)
(* A removal meets the events, from the last to the second.                *)
(***************************************************************************)
LEMMA MeetIs ==
  ASSUME NEW ev \in Events, NEW k \in Nat
  PROVE  LET m == MergeRemoveCount(ev, k)
         IN  m.left \in Seq(Events) /\ m.rest \in 0..k /\ m.merged \in BOOLEAN
<1>1. CASE IsA(ev, "list") /\ ev.ps \in Seq(Paragraphs)
  <2>0. Len(ev.ps) \in Nat
    BY <1>1, LenProperties
  <2>2. MergeRemoveCount(ev, k) = IF Last(ev.ps).fixed THEN MeetFixed(ev.ps, k) ELSE MeetUnfixed(ev.ps, k)
    BY <1>1 DEF MergeRemoveCount, IsA
  <2>3. k < Len(ev.ps) => SubSeq(ev.ps, 1, Len(ev.ps) - k) \in Seq(Paragraphs)
    <3> SUFFICES ASSUME k < Len(ev.ps) PROVE SubSeq(ev.ps, 1, Len(ev.ps) - k) \in Seq(Paragraphs)
      OBVIOUS
    <3>1. Len(ev.ps) - k \in 0..Len(ev.ps)
      BY <2>0
    <3> QED
      BY <1>1, <3>1, PrefixIs
  <2>4. MeetFixed(ev.ps, k).left \in Seq(Events) /\ MeetFixed(ev.ps, k).rest \in 0..k /\ MeetFixed(ev.ps, k).merged \in BOOLEAN
    <3>1. CASE k < Len(ev.ps)
      <4>1. Listing(SubSeq(ev.ps, 1, Len(ev.ps) - k)) \in Events
        BY <2>3, <3>1, EventsAre
      <4> QED
        BY <3>1, <4>1 DEF MeetFixed, Meet
    <3>2. CASE ~(k < Len(ev.ps))
      <4>1. k - Len(ev.ps) \in 0..k
        BY <2>0, <3>2
      <4> QED
        BY <3>2, <4>1 DEF MeetFixed, Meet
    <3> QED
      BY <3>1, <3>2
  <2>5. MeetUnfixed(ev.ps, k).left \in Seq(Events) /\ MeetUnfixed(ev.ps, k).rest \in 0..k /\ MeetUnfixed(ev.ps, k).merged \in BOOLEAN
    <3>1. CASE k < Len(ev.ps)
      <4>1. Len(ev.ps) - k - 1 \in 0..Len(ev.ps) /\ ev.ps # << >>
        BY <2>0, <3>1
      <4>2. SubSeq(ev.ps, 1, Len(ev.ps) - k - 1) \in Seq(Paragraphs)
        BY <1>1, <4>1, PrefixIs
      <4>3. PICK p \in Paragraphs : p = [Last(ev.ps) EXCEPT !.text = Blank]
        <5>1. Last(ev.ps) \in Paragraphs
          BY <1>1, <4>1, FrontLast
        <5> QED
          BY <5>1 DEF Paragraphs
      <4>4. << p >> \in Seq(Paragraphs)
        OBVIOUS
      <4>5. SubSeq(ev.ps, 1, Len(ev.ps) - k - 1) \o << p >> \in Seq(Paragraphs)
        BY <4>2, <4>4, ConcatProperties
      <4>6. Listing(SubSeq(ev.ps, 1, Len(ev.ps) - k - 1) \o << p >>) \in Events
        BY <4>5, EventsAre
      <4> QED
        BY <3>1, <4>3, <4>6 DEF MeetUnfixed, Meet
    <3>2. CASE ~(k < Len(ev.ps))
      <4>1. Listing(ev.ps) \in Events
        BY <1>1, EventsAre
      <4> QED
        BY <3>2, <4>1 DEF MeetUnfixed, Meet
    <3> QED
      BY <3>1, <3>2
  <2> QED
    BY <2>2, <2>4, <2>5
<1>2. CASE IsA(ev, "remove") /\ ev.n \in Nat
  <2>1. Removal(ev.n + k) \in Events
    BY <1>2, EventsAre
  <2>2. MergeRemoveCount(ev, k) = Meet(<< Removal(ev.n + k) >>, 0, TRUE)
    BY <1>2 DEF MergeRemoveCount, IsA
  <2> QED
    BY <2>1, <2>2 DEF Meet
<1>3. CASE IsA(ev, "removeAll")
  <2>1. MergeRemoveCount(ev, k) = Meet(<< Clearing >>, 0, TRUE)
    BY <1>3 DEF MergeRemoveCount, IsA
  <2> QED
    BY <2>1, EventsAre DEF Meet
<1>4. CASE IsA(ev, "request")
  <2>1. MergeRemoveCount(ev, k) = Meet(<< ev >>, k, FALSE)
    BY <1>4 DEF MergeRemoveCount, IsA
  <2> QED
    BY <2>1 DEF Meet
<1> QED
  BY <1>1, <1>2, <1>3, <1>4, EventIs

LEMMA RemoveFromIs ==
  ASSUME NEW pe \in Seq(Events), NEW i \in 0..Len(pe), NEW n \in Nat, NEW k \in 0..n,
         NEW before, i > 1 => before \in [0..n -> Seq(Events)]
  PROVE  RemoveFrom(pe, i, k, before) \in Seq(Events)
<1>1. Len(pe) \in Nat /\ i \in Nat /\ k \in Nat
  BY LenProperties
<1>2. SubSeq(pe, 1, i) \in Seq(Events)
  BY PrefixIs
<1>3. CASE i <= 1
  <2>1. Removal(k) \in Events
    BY <1>1, EventsAre
  <2>2. Append(SubSeq(pe, 1, i), Removal(k)) \in Seq(Events)
    BY <1>2, <2>1, AppendProperties
  <2> QED
    BY <1>3, <2>2 DEF RemoveFrom
<1>4. CASE ~(i <= 1)
  <2>1. i \in 1..Len(pe) /\ i - 1 \in 0..Len(pe) /\ i > 1
    BY <1>1, <1>4
  <2>2. pe[i] \in Events
    BY <2>1, ElementOfSeq
  <2> DEFINE m == MergeRemoveCount(pe[i], k)
  <2>3. m.left \in Seq(Events) /\ m.rest \in 0..k /\ m.merged \in BOOLEAN
    BY <1>1, <2>2, MeetIs
  <2>4. RemoveFrom(pe, i, k, before) =
          CASE ~m.merged -> Append(SubSeq(pe, 1, i), Removal(m.rest))
            [] m.merged /\ m.left # << >> -> SubSeq(pe, 1, i - 1) \o m.left
            [] m.merged /\ m.left = << >> /\ m.rest = 0 -> SubSeq(pe, 1, i - 1)
            [] m.merged /\ m.left = << >> /\ m.rest > 0 -> before[m.rest]
    BY <1>4 DEF RemoveFrom
  <2> HIDE DEF m
  <2>5. SubSeq(pe, 1, i - 1) \in Seq(Events)
    BY <2>1, PrefixIs
  <2>6. m.rest \in Nat /\ m.rest \in 0..n
    BY <1>1, <2>3
  <2>7. CASE ~m.merged
    <3>1. Append(SubSeq(pe, 1, i), Removal(m.rest)) \in Seq(Events)
      BY <1>2, <2>6, EventsAre, AppendProperties
    <3> QED
      BY <2>4, <2>7, <3>1
  <2>8. CASE m.merged /\ m.left # << >>
    <3>1. SubSeq(pe, 1, i - 1) \o m.left \in Seq(Events)
      BY <2>3, <2>5, ConcatProperties
    <3> QED
      BY <2>4, <2>8, <3>1
  <2>9. CASE m.merged /\ m.left = << >> /\ m.rest = 0
    BY <2>4, <2>5, <2>9
  <2>10. CASE m.merged /\ m.left = << >> /\ m.rest # 0
    <3>1. m.rest > 0
      BY <2>6, <2>10
    <3>2. before[m.rest] \in Seq(Events)
      BY <2>1, <2>6
    <3> QED
      BY <2>4, <2>10, <3>1, <3>2
  <2> QED
    BY <2>3, <2>7, <2>8, <2>9, <2>10
<1> QED
  BY <1>3, <1>4

\* what meets the i-th event removes from the events up to it
LEMMA RemoveFromRemoves ==
  ASSUME NEW u \in UIs, NEW pe, Calm(u, pe), NEW i \in 0..Len(pe), NEW n \in Nat, NEW k \in 0..n,
         NEW before, i > 1 => \A r \in 0..n : Removes(u, SubSeq(pe, 1, i - 1), r, before[r])
  PROVE  Removes(u, SubSeq(pe, 1, i), k, RemoveFrom(pe, i, k, before))
<1>1. pe \in Seq(Events) /\ Len(pe) \in Nat /\ i \in Nat /\ k \in Nat
  BY LenProperties DEF Calm
<1>2. PICK qe \in Seq(Events) : qe = SubSeq(pe, 1, i) /\ Calm(u, qe)
  BY <1>1, PrefixIs, CalmPrefix
<1>3. CASE i <= 1
  BY <1>1, <1>2, <1>3, RemovalTold DEF RemoveFrom
<1>4. CASE ~(i <= 1)
  <2>1. i \in 1..Len(pe) /\ i - 1 \in 0..Len(pe) /\ i > 1
    BY <1>1, <1>4
  <2>2. PICK fe \in Seq(Events) : fe = SubSeq(pe, 1, i - 1) /\ Calm(u, fe)
    BY <1>1, <2>1, PrefixIs, CalmPrefix
  <2>3. PICK ev \in Events : ev = pe[i] /\ qe = Append(fe, ev) /\ Closed(ev) /\ Fits(Told(u, fe).ps, ev)
    BY <1>1, <1>2, <2>1, <2>2, ToldOne DEF Calm, Whole
  <2> DEFINE m == MergeRemoveCount(ev, k)
             re == RemoveFrom(pe, i, k, before)
  <2>4. re =
          CASE ~m.merged -> Append(qe, Removal(m.rest))
            [] m.merged /\ m.left # << >> -> fe \o m.left
            [] m.merged /\ m.left = << >> /\ m.rest = 0 -> fe
            [] m.merged /\ m.left = << >> /\ m.rest > 0 -> before[m.rest]
    BY <1>2, <1>4, <2>2, <2>3 DEF RemoveFrom
  <2> HIDE DEF re
  <2>5. CASE IsA(ev, "list") /\ ev.ps \in Seq(Paragraphs)
    <3>1. PICK qs \in Seq(Paragraphs) : qs = ev.ps /\ ev = Listing(qs) /\ Last(qs).fixed /\ Follows(Told(u, fe).ps, qs)
      BY <2>3, <2>5 DEF Closed, Fits, Listing, Events, IsA
    <3>2. m = MeetFixed(qs, k)
      BY <2>5, <3>1 DEF MergeRemoveCount, IsA
    <3>3. CASE k < Len(qs)
      <4>1. m = Meet(<< Listing(SubSeq(qs, 1, Len(qs) - k)) >>, 0, TRUE)
        BY <3>2, <3>3 DEF MeetFixed
      <4>2. PICK e \in Events : e = Listing(SubSeq(qs, 1, Len(qs) - k))
        <5>1. Len(qs) - k \in 1..Len(qs)
          BY <1>1, <3>3, LenProperties
        <5>2. SubSeq(qs, 1, Len(qs) - k) \in Seq(Paragraphs)
          BY <3>1, <5>1, FollowsShorter
        <5> QED
          BY <5>2, EventsAre
      <4>3. m.merged /\ m.left = << e >> /\ m.left # << >>
        BY <4>1, <4>2 DEF Meet
      <4>4. re = fe \o << e >>
        BY <2>4, <4>3
      <4>5. re = Append(fe, e)
        BY <4>4, AppendIsConcat
      <4> QED
        BY <1>1, <1>2, <2>2, <2>3, <3>1, <3>3, <4>2, <4>5, ListShortened DEF re
    <3>4. CASE ~(k < Len(qs))
      <4>1. m = Meet(<< >>, k - Len(qs), TRUE)
        BY <3>2, <3>4 DEF MeetFixed
      <4>2. m.merged /\ m.left = << >> /\ m.rest = k - Len(qs)
        BY <4>1 DEF Meet
      <4>3. PICK r \in 0..k : r = k - Len(qs)
        BY <1>1, <3>4, DropAll
      <4>4. Removes(u, fe, r, re)
        <5>1. CASE r = 0
          <6>1. re = fe
            BY <2>4, <4>2, <4>3, <5>1
          <6> QED
            BY <2>2, <5>1, <6>1, NoneRemoved
        <5>2. CASE r # 0
          <6>1. m.rest > 0 /\ r \in 0..n /\ m.rest # 0
            BY <1>1, <4>2, <4>3, <5>2
          <6>2. re = before[r]
            BY <2>4, <4>2, <4>3, <6>1
          <6> QED
            BY <2>1, <2>2, <6>1, <6>2
        <5> QED
          BY <5>1, <5>2
      <4> QED
        BY <1>1, <1>2, <2>2, <2>3, <3>1, <3>4, <4>3, <4>4, ListEmptied DEF re
    <3> QED
      BY <3>3, <3>4
  <2>6. CASE IsA(ev, "remove") /\ ev.n \in Nat
    <3>1. ev = Removal(ev.n)
      BY <2>3, <2>6 DEF Events, IsA, Removal
    <3>2. m = Meet(<< Removal(ev.n + k) >>, 0, TRUE)
      BY <2>6 DEF MergeRemoveCount, IsA
    <3>3. PICK e \in Events : e = Removal(ev.n + k)
      BY <1>1, <2>6, EventsAre
    <3>4. m.merged /\ m.left = << e >> /\ m.left # << >>
      BY <3>2, <3>3 DEF Meet
    <3>5. re = Append(fe, e)
      BY <2>4, <3>4, AppendIsConcat
    <3> QED
      BY <1>1, <1>2, <2>2, <2>3, <2>6, <3>1, <3>3, <3>5, RemovalsTold DEF re
  <2>7. CASE IsA(ev, "removeAll")
    <3>1. ev = Clearing
      BY <2>3, <2>7 DEF Events, IsA, Clearing
    <3>2. m = Meet(<< Clearing >>, 0, TRUE)
      BY <2>7 DEF MergeRemoveCount, IsA
    <3>3. m.merged /\ m.left = << ev >> /\ m.left # << >>
      BY <3>1, <3>2 DEF Meet
    <3>4. re = Append(fe, ev)
      BY <2>4, <3>3, AppendIsConcat
    <3> QED
      BY <1>1, <1>2, <2>2, <2>3, <3>1, <3>4, ClearingRemoved DEF re
  <2>8. CASE IsA(ev, "request")
    <3>1. m = Meet(<< ev >>, k, FALSE)
      BY <2>8 DEF MergeRemoveCount, IsA
    <3>2. ~m.merged /\ m.rest = k
      BY <3>1 DEF Meet
    <3>3. re = Append(qe, Removal(k))
      BY <2>4, <3>2
    <3> QED
      BY <1>1, <1>2, <3>3, RemovalTold DEF re
  <2> QED
    BY <2>5, <2>6, <2>7, <2>8, EventIs
<1> QED
  BY <1>3, <1>4

\* from one event to the next, for every number of paragraphs left to remove
Meeting(pe, n) ==
  [i \in 1..Len(pe) |-> [before \in [0..n -> Seq(Events)] |-> [k \in 0..n |-> RemoveFrom(pe, i, k, before)]]]

\* the events before any, and the k paragraphs to remove
Untouched(pe, n) == [k \in 0..n |-> Append(SubSeq(pe, 1, 0), Removal(k))]

LEMMA RemoveParagraphTakes ==
  ASSUME NEW pe \in Seq(Events), NEW n \in Nat
  PROVE  \E f \in [0..Len(pe) -> [0..n -> Seq(Events)]] :
            /\ f[0] = Untouched(pe, n)
            /\ \A i \in 1..Len(pe) : f[i] = [k \in 0..n |-> RemoveFrom(pe, i, k, f[i - 1])]
            /\ RemoveParagraph(pe, n) = f[Len(pe)][n]
<1> DEFINE S == [0..n -> Seq(Events)]
<1>1. Len(pe) \in Nat /\ 0 \in 0..Len(pe) /\ n \in 0..n /\ Len(pe) \in 0..Len(pe)
  BY LenProperties
<1>2. Untouched(pe, n) \in S
  <2>1. \A k \in 0..n : Append(SubSeq(pe, 1, 0), Removal(k)) \in Seq(Events)
    BY <1>1, PrefixIs, EventsAre, AppendProperties
  <2> QED
    BY <2>1 DEF Untouched
<1>3. Meeting(pe, n) \in [1..Len(pe) -> [S -> S]]
  <2>1. ASSUME NEW i \in 1..Len(pe), NEW before \in S, NEW k \in 0..n
        PROVE  RemoveFrom(pe, i, k, before) \in Seq(Events)
    <3>1. i \in 0..Len(pe)
      BY <1>1
    <3> QED
      BY <3>1, RemoveFromIs
  <2> QED
    BY <2>1 DEF Meeting
<1>4. PICK f \in [0..Len(pe) -> S] : Takes(f, Len(pe), Untouched(pe, n), Meeting(pe, n))
  BY <1>1, <1>2, <1>3, Steps
<1>5. /\ f[0] = Untouched(pe, n)
      /\ \A i \in 1..Len(pe) : f[i] = [k \in 0..n |-> RemoveFrom(pe, i, k, f[i - 1])]
  <2> SUFFICES ASSUME NEW i \in 1..Len(pe)
               PROVE  f[i] = [k \in 0..n |-> RemoveFrom(pe, i, k, f[i - 1])]
    BY <1>4 DEF Takes
  <2>0. f[i] = Meeting(pe, n)[i][f[i - 1]]
    BY <1>4, Zenon DEF Takes
  <2>2. PICK j : j = i - 1
    OBVIOUS
  <2>3. j \in 0..Len(pe)
    BY <1>1, <2>2
  <2>1. f[i - 1] \in S /\ f[i] = Meeting(pe, n)[i][f[i - 1]]
    BY <2>0, <2>2, <2>3, Zenon
  <2> QED
    BY <2>1 DEF Meeting
<1> DEFINE Body(h) == [i \in 0..Len(pe) |-> [k \in 0..n |-> RemoveFrom(pe, i, k, h[i - 1])]]
           from == CHOOSE h : h = Body(h)
<1>6. \A h : [k \in 0..n |-> RemoveFrom(pe, 0, k, h)] = Untouched(pe, n)
  BY DEF RemoveFrom, Untouched
<1>7. f = Body(f)
  <2>1. ASSUME NEW i \in 0..Len(pe)
        PROVE  f[i] = [k \in 0..n |-> RemoveFrom(pe, i, k, f[i - 1])]
    <3>1. CASE i = 0
      <4>1. PICK h : h = f[i - 1]
        OBVIOUS
      <4>2. [k \in 0..n |-> RemoveFrom(pe, 0, k, h)] = Untouched(pe, n)
        BY <1>6
      <4> QED
        BY <1>5, <3>1, <4>1, <4>2
    <3>2. CASE i # 0
      <4>1. i \in 1..Len(pe)
        BY <1>1, <3>2
      <4> QED
        BY <1>5, <4>1
    <3> QED
      BY <3>1, <3>2
  <2> QED
    BY <2>1, <1>4
<1>8. from = Body(from)
  BY <1>7
<1>9. RemoveParagraph(pe, n) = from[Len(pe)][n]
  BY DEF RemoveParagraph
<1> HIDE DEF from
<1>10. /\ from[0] = Untouched(pe, n)
       /\ \A i \in 1..Len(pe) : from[i] = [k \in 0..n |-> RemoveFrom(pe, i, k, from[i - 1])]
  <2>1. \A i \in 0..Len(pe) : from[i] = [k \in 0..n |-> RemoveFrom(pe, i, k, from[i - 1])]
    BY <1>8
  <2> QED
    BY <1>1, <1>6, <2>1
<1>11. \A i \in 0..Len(pe) : f[i] = from[i]
  <2>1. Parallel(f, from, Len(pe))
    BY <1>5, <1>10 DEF Parallel
  <2> QED
    BY <1>1, <2>1, SameByStep
<1> QED
  BY <1>1, <1>4, <1>5, <1>9, <1>11

\* Removing n paragraphs leaves the UI without its last n, however the removal
\* met the lists, removals and requests that wait.
LEMMA RemovedIs ==
  ASSUME NEW u \in UIs, NEW pe, Calm(u, pe), NEW n \in Nat
  PROVE  Removes(u, pe, n, RemoveParagraph(pe, n))
<1>1. pe \in Seq(Events) /\ Len(pe) \in Nat /\ Len(pe) \in 0..Len(pe) /\ n \in 0..n
  BY LenProperties DEF Calm
<1>2. PICK f \in [0..Len(pe) -> [0..n -> Seq(Events)]] :
            /\ f[0] = Untouched(pe, n)
            /\ \A i \in 1..Len(pe) : f[i] = [k \in 0..n |-> RemoveFrom(pe, i, k, f[i - 1])]
            /\ RemoveParagraph(pe, n) = f[Len(pe)][n]
  BY <1>1, RemoveParagraphTakes
<1> DEFINE Good(i) == \A k \in 0..n : Removes(u, SubSeq(pe, 1, i), k, f[i][k])
           Bad == {i \in 0..Len(pe) : ~Good(i)}
<1>3. Bad = {}
  <2> SUFFICES ASSUME Bad # {} PROVE FALSE
    OBVIOUS
  <2>1. PICK m \in Bad : \A i \in Bad : m <= i
    <3>1. Bad \subseteq Nat
      OBVIOUS
    <3> HIDE DEF Bad
    <3> QED
      BY <3>1, LeastNat
  <2>2. m \in 0..Len(pe) /\ ~Good(m)
    OBVIOUS
  <2>3. ASSUME NEW k \in 0..n
        PROVE  Removes(u, SubSeq(pe, 1, m), k, f[m][k])
    <3>1. CASE m = 0
      <4>1. f[0][k] = Append(SubSeq(pe, 1, 0), Removal(k))
        BY <1>2 DEF Untouched
      <4>2. Calm(u, SubSeq(pe, 1, 0)) /\ k \in Nat
        BY <2>2, <3>1, CalmPrefix
      <4> QED
        BY <3>1, <4>1, <4>2, RemovalTold
    <3>2. CASE m # 0
      <4>1. m \in 1..Len(pe) /\ m - 1 \in 0..Len(pe)
        BY <2>2, <3>2, <1>1
      <4>2. Good(m - 1)
        <5>1. m - 1 \in Nat /\ m \in Nat /\ ~(m <= m - 1)
          BY <4>1
        <5>2. ~Good(m - 1) => m - 1 \in Bad
          BY <4>1
        <5> HIDE DEF Good, Bad
        <5> QED
          BY <2>1, <5>1, <5>2
      <4>3. f[m][k] = RemoveFrom(pe, m, k, f[m - 1])
        BY <1>2, <4>1
      <4>4. PICK g : g = f[m - 1]
        OBVIOUS
      <4>5. \A r \in 0..n : Removes(u, SubSeq(pe, 1, m - 1), r, g[r])
        BY <4>2, <4>4
      <4> HIDE DEF Good, Bad
      <4>6. Removes(u, SubSeq(pe, 1, m), k, RemoveFrom(pe, m, k, g))
        BY <2>2, <4>5, RemoveFromRemoves
      <4> QED
        BY <4>3, <4>4, <4>6
    <3> QED
      BY <3>1, <3>2
  <2> QED
    BY <2>2, <2>3
<1>4. Removes(u, SubSeq(pe, 1, Len(pe)), n, f[Len(pe)][n])
  BY <1>1, <1>3
<1>5. SubSeq(pe, 1, Len(pe)) = pe
  BY <1>1, SubSeqFull
<1> QED
  BY <1>2, <1>4, <1>5

-----------------------------------------------------------------------------
(***************************************************************************)
(* All paragraphs are removed, and an input is requested.                  *)
(***************************************************************************)
\* The UI is asked for what the last request was for.
LEMMA RequestStays ==
  ASSUME NEW u \in UIs, NEW pe \in Seq(Events), NEW kept \in 0..Len(pe),
         \A j \in kept + 1 .. Len(pe) : ~IsA(pe[j], "request")
  PROVE  Told(u, pe).req = Told(u, SubSeq(pe, 1, kept)).req
<1>1. PICK n \in Nat : n = Len(pe) /\ kept \in 0..n /\ kept \in Nat
  BY LenProperties
<1> DEFINE Req(i) == Told(u, SubSeq(pe, 1, i)).req
           Bad == {i \in kept..n : Req(i) # Req(kept)}
<1>2. Bad = {}
  <2> SUFFICES ASSUME Bad # {} PROVE FALSE
    OBVIOUS
  <2>1. PICK m \in Bad : \A i \in Bad : m <= i
    <3>1. Bad \subseteq Nat
      BY <1>1
    <3> HIDE DEF Bad
    <3> QED
      BY <3>1, LeastNat
  <2>2. m \in kept..n /\ Req(m) # Req(kept) /\ m # kept
    OBVIOUS
  <2>3. /\ m \in 1..n /\ m \in kept + 1 .. n /\ m - 1 \in kept..n /\ m \in 1..Len(pe)
        /\ ~(m <= m - 1) /\ m - 1 \in 0..Len(pe)
    BY <1>1, <2>2
  <2>4. Req(m - 1) = Req(kept)
    <3>1. Req(m - 1) # Req(kept) => m - 1 \in Bad
      BY <2>3
    <3> HIDE DEF Req, Bad
    <3> QED
      BY <2>1, <2>3, <3>1
  <2>5. PICK ev \in Events : ev = pe[m] /\ ~IsA(ev, "request")
    BY <1>1, <2>3, ToldOne
  <2>6. Told(u, SubSeq(pe, 1, m)) = Handle(Told(u, SubSeq(pe, 1, m - 1)), ev)
    BY <2>3, <2>5, ToldOne
  <2>7. Told(u, SubSeq(pe, 1, m - 1)) \in UIs
    BY <2>3, PrefixIs, ToldIs
  <2>8. Handle(Told(u, SubSeq(pe, 1, m - 1)), ev).req = Told(u, SubSeq(pe, 1, m - 1)).req
    BY <2>5, <2>7, HandleIs, EventIs
  <2> QED
    BY <2>2, <2>4, <2>6, <2>8
<1>3. Req(n) = Req(kept)
  BY <1>1, <1>2
<1>4. SubSeq(pe, 1, n) = pe
  BY <1>1, SubSeqFull
<1> QED
  BY <1>3, <1>4

\* the last request that waits
LEMMA LastRequest ==
  ASSUME NEW pe \in Seq(Events), Requests(pe) # {}
  PROVE  \E i \in Requests(pe) : \A j \in Requests(pe) : j <= i
<1>1. PICK n \in Nat : n = Len(pe) /\ DOMAIN pe = 1..n
  BY LenProperties
<1> DEFINE Behind == {n - i : i \in Requests(pe)}
<1>2. Behind \subseteq Nat /\ Behind # {}
  BY <1>1 DEF Requests
<1>3. PICK b \in Behind : \A c \in Behind : b <= c
  <2> HIDE DEF Behind
  <2> QED
    BY <1>2, LeastNat
<1>4. PICK i \in Requests(pe) : b = n - i
  OBVIOUS
<1>5. ASSUME NEW j \in Requests(pe) PROVE j <= i
  <2>1. b <= n - j
    BY <1>3
  <2>2. i \in 1..n /\ j \in 1..n
    BY <1>1 DEF Requests
  <2> QED
    BY <1>4, <2>1, <2>2
<1> QED
  BY <1>5

\* Removing all leaves the UI without paragraphs, and takes no request with it.
LEMMA RemovedAllIs ==
  ASSUME NEW u \in UIs, NEW pe, Calm(u, pe)
  PROVE  /\ Calm(u, RemoveParagraphAll(pe)) /\ Told(u, RemoveParagraphAll(pe)).ps = << >>
         /\ Told(u, RemoveParagraphAll(pe)).req = Told(u, pe).req
<1>1. pe \in Seq(Events) /\ Len(pe) \in Nat /\ DOMAIN pe = 1..Len(pe)
  BY LenProperties DEF Calm
<1> DEFINE k0 == IF Requests(pe) = {} THEN 0 ELSE CHOOSE i \in Requests(pe) : \A j \in Requests(pe) : j <= i
<1>2. RemoveParagraphAll(pe) = Append(SubSeq(pe, 1, k0), Clearing)
  BY DEF RemoveParagraphAll
<1>3. k0 \in 0..Len(pe) /\ \A j \in Requests(pe) : j <= k0
  <2>1. CASE Requests(pe) = {}
    BY <1>1, <2>1
  <2>2. CASE Requests(pe) # {}
    <3>1. k0 = CHOOSE i \in Requests(pe) : \A j \in Requests(pe) : j <= i
      BY <2>2
    <3>2. k0 \in Requests(pe) /\ \A j \in Requests(pe) : j <= k0
      BY <1>1, <2>2, <3>1, LastRequest
    <3>3. \A i \in Requests(pe) : i \in 0..Len(pe)
      BY <1>1 DEF Requests
    <3> HIDE DEF k0
    <3> QED
      BY <3>2, <3>3
  <2> QED
    BY <2>1, <2>2
<1> HIDE DEF k0
<1>4. PICK kept \in 0..Len(pe) : kept = k0 /\ \A j \in Requests(pe) : j <= kept
  BY <1>3
<1>5. \A j \in kept + 1 .. Len(pe) : ~IsA(pe[j], "request")
  <2> SUFFICES ASSUME NEW j \in kept + 1 .. Len(pe), IsA(pe[j], "request") PROVE FALSE
    OBVIOUS
  <2>1. j \in 1..Len(pe) /\ ~(j <= kept)
    BY <1>1
  <2>2. j \in Requests(pe)
    BY <1>1, <2>1 DEF Requests
  <2> QED
    BY <1>4, <2>1, <2>2
<1>6. PICK fe : fe = SubSeq(pe, 1, kept)
  OBVIOUS
<1>7. Calm(u, fe)
  BY <1>6, CalmPrefix
<1>8. Told(u, pe).req = Told(u, fe).req
  BY <1>1, <1>5, <1>6, RequestStays
<1> QED
  BY <1>2, <1>4, <1>6, <1>7, <1>8, ClearingTold

\* A request leaves the paragraphs alone.
LEMMA RequestedIs ==
  ASSUME NEW u \in UIs, NEW pe, Calm(u, pe), NEW r \in Kinds \cup {"none"}
  PROVE  /\ Calm(u, InputRequest(pe, r)) /\ Told(u, InputRequest(pe, r)).ps = Told(u, pe).ps
         /\ Told(u, InputRequest(pe, r)).req = Callback(r)
<1>1. PICK ev \in Events : ev = Asking(r) /\ IsA(ev, "request") /\ ev.req = r
  BY EventsAre
<1>2. pe \in Seq(Events)
  BY DEF Calm
<1>3. CASE pe # << >> /\ Last(pe) = Asking(r)
  <2>1. InputRequest(pe, r) = pe
    BY <1>3 DEF InputRequest
  <2>2. Front(pe) \in Seq(Events) /\ pe = Append(Front(pe), ev)
    BY <1>1, <1>2, <1>3, FrontLast
  <2>3. Told(u, pe) = Handle(Told(u, Front(pe)), ev)
    BY <2>2, ToldAppend
  <2>4. Told(u, pe).req = Callback(r)
    BY <1>1, <2>2, <2>3, ToldIs, HandleIs
  <2> QED
    BY <2>1, <2>4
<1>4. CASE ~(pe # << >> /\ Last(pe) = Asking(r))
  <2>1. InputRequest(pe, r) = Append(pe, ev)
    BY <1>1, <1>4 DEF InputRequest
  <2>2. Fits(Told(u, pe).ps, ev) /\ Closed(ev)
    BY <1>1 DEF Fits, Closed, IsA
  <2>3. Calm(u, Append(pe, ev))
    BY <2>2, CalmAppend
  <2>4. Told(u, Append(pe, ev)) = Handle(Told(u, pe), ev)
    BY <1>2, ToldAppend
  <2> QED
    BY <1>1, <1>2, <2>1, <2>3, <2>4, ToldIs, HandleIs
<1> QED
  BY <1>3, <1>4

-----------------------------------------------------------------------------
(***************************************************************************)
(* The inductive invariant.                                                *)
(***************************************************************************)
\* what the UI will have been told
Coming == Told(ui, pending)

\* the fixed paragraphs of it: all lines that the game has broken
Broken == Written(Coming.ps)

\* the types alone
Typed == /\ current \in Texts \cup {Blank} /\ publishId \in Nat
         /\ pending \in Seq(Events) /\ ui \in UIs
         /\ at \in {"runs", "syncs", "synced", "tells", "waits"} /\ request \in Kinds \cup {"none"}

\* The events that wait can be told, number the paragraphs through and leave
\* the lines of the game; only Sync leaves the open line among them.
ListingHolds ==
  /\ Whole(ui, pending)
  /\ at # "syncs" => \A i \in 1..Len(pending) : Closed(pending[i])
  /\ publishId = Len(Broken)
  /\ screen = Append(TextsOf(Broken), current)

\* The open line is passed on with Sync, and is on the UI until the game writes again.
SyncHolds ==
  /\ at = "syncs" => TextsOf(Coming.ps) = screen
  /\ at \in {"synced", "tells", "waits"} => TextsOf(ui.ps) = screen /\ Coming.ps = ui.ps

\* The request is the last thing the UI is told, and was told when it may time out.
AskingHolds ==
  /\ Coming.req = Callback(request)
  /\ at = "waits" /\ request \in {"command", "input"} => ui.req = Callback(request)

IInv == Typed /\ ListingHolds /\ SyncHolds /\ AskingHolds

LEMMA TextsOfIs ==
  ASSUME NEW ps \in Seq(Paragraphs)
  PROVE  /\ TextsOf(ps) \in Seq(Texts \cup {Blank}) /\ Len(TextsOf(ps)) = Len(ps)
         /\ \A i \in 1..Len(ps) : TextsOf(ps)[i] = ps[i].text
<1>1. Len(ps) \in Nat /\ DOMAIN ps = 1..Len(ps) /\ \A i \in 1..Len(ps) : ps[i] \in Paragraphs
  BY LenProperties, ElementOfSeq
<1>2. \A i \in 1..Len(ps) : ps[i].text \in Texts \cup {Blank}
  BY <1>1 DEF Paragraphs
<1>3. TextsOf(ps) = [i \in 1..Len(ps) |-> ps[i].text]
  BY <1>1 DEF TextsOf
<1>4. PICK n \in Nat : n = Len(ps)
  BY <1>1
<1>5. TextsOf(ps) \in [1..n -> Texts \cup {Blank}]
  BY <1>2, <1>3, <1>4
<1>6. TextsOf(ps) \in Seq(Texts \cup {Blank})
  BY <1>5, IsASeq
<1>7. Len(TextsOf(ps)) = n
  BY <1>5, <1>6, LenProperties
<1> QED
  BY <1>3, <1>4, <1>6, <1>7

LEMMA TextsAppended ==
  ASSUME NEW ps \in Seq(Paragraphs), NEW p \in Paragraphs
  PROVE  TextsOf(Append(ps, p)) = Append(TextsOf(ps), p.text)
<1>1. PICK n \in Nat : n = Len(ps)
  BY LenProperties
<1>2. p.text \in Texts \cup {Blank}
  BY DEF Paragraphs
<1> DEFINE q == Append(ps, p)
           x == TextsOf(q)
           t == TextsOf(ps)
           y == Append(t, p.text)
<1>3. q \in Seq(Paragraphs) /\ Len(q) = n + 1 /\ (\A i \in 1..n : q[i] = ps[i]) /\ q[n + 1] = p
  BY <1>1, AppendProperties
<1> HIDE DEF q
<1>4. /\ x \in Seq(Texts \cup {Blank}) /\ Len(x) = n + 1
      /\ \A i \in 1 .. n + 1 : x[i] = q[i].text
  BY <1>3, TextsOfIs
<1>5. /\ t \in Seq(Texts \cup {Blank}) /\ Len(t) = n
      /\ \A i \in 1..n : t[i] = ps[i].text
  BY <1>1, TextsOfIs
<1> HIDE DEF x, t
<1>6. /\ y \in Seq(Texts \cup {Blank}) /\ Len(y) = n + 1
      /\ (\A i \in 1..n : y[i] = t[i]) /\ y[n + 1] = p.text
  BY <1>2, <1>5, AppendProperties
<1> HIDE DEF y
<1>7. \A i \in 1 .. n + 1 : x[i] = y[i]
  <2> SUFFICES ASSUME NEW i \in 1 .. n + 1 PROVE x[i] = y[i]
    OBVIOUS
  <2>1. CASE i = n + 1
    BY <1>3, <1>4, <1>6, <2>1
  <2>2. CASE i # n + 1
    <3>1. i \in 1..n
      BY <2>2
    <3> QED
      BY <1>3, <1>4, <1>5, <1>6, <3>1
  <2> QED
    BY <2>1, <2>2
<1>8. x = y
  BY <1>4, <1>6, <1>7, SeqEqual
<1> QED
  BY <1>8 DEF x, y, t, q

\* the open line is the first of the lines to be cleared
LEMMA TextsDropped ==
  ASSUME NEW ps \in Seq(Paragraphs), NEW c \in Texts \cup {Blank}, NEW n \in Nat \ {0}
  PROVE  Drop(Append(TextsOf(ps), c), n) = TextsOf(Drop(ps, n - 1))
<1>1. PICK l \in Nat : l = Len(ps)
  BY LenProperties
<1> DEFINE t == TextsOf(ps)
           a == Append(t, c)
           x == Drop(a, n)
           d == Drop(ps, n - 1)
           y == TextsOf(d)
<1>2. t \in Seq(Texts \cup {Blank}) /\ Len(t) = l /\ \A i \in 1..l : t[i] = ps[i].text
  BY <1>1, TextsOfIs
<1> HIDE DEF t
<1>3. a \in Seq(Texts \cup {Blank}) /\ Len(a) = l + 1 /\ \A i \in 1..l : a[i] = t[i]
  BY <1>2, AppendProperties
<1> HIDE DEF a
<1>4. /\ x \in Seq(Texts \cup {Blank}) /\ Len(x) = IF n <= l + 1 THEN l + 1 - n ELSE 0
      /\ \A i \in 1 .. l + 1 - n : x[i] = a[i]
  <2>1. PICK m \in Nat : m = Len(a) /\ m = l + 1 /\ n \in Nat
    BY <1>3
  <2>2. /\ x \in Seq(Texts \cup {Blank}) /\ Len(x) = IF n <= m THEN m - n ELSE 0
        /\ \A i \in 1 .. m - n : x[i] = a[i]
    BY <1>3, <2>1, DropIs
  <2> HIDE DEF x
  <2> QED
    BY <2>1, <2>2
<1>5. /\ d \in Seq(Paragraphs) /\ Len(d) = IF n - 1 <= l THEN l - (n - 1) ELSE 0
      /\ \A i \in 1 .. l - (n - 1) : d[i] = ps[i]
  <2>1. n - 1 \in Nat
    OBVIOUS
  <2> QED
    BY <1>1, <2>1, DropIs
<1> HIDE DEF d
<1>6. y \in Seq(Texts \cup {Blank}) /\ Len(y) = Len(d) /\ \A i \in 1..Len(d) : y[i] = d[i].text
  BY <1>5, TextsOfIs
<1> HIDE DEF x, y
<1>7. \A i \in 1..Len(x) : x[i] = y[i]
  <2> SUFFICES ASSUME NEW i \in 1..Len(x) PROVE x[i] = y[i]
    OBVIOUS
  <2>1. i \in 1..l /\ i \in 1 .. l + 1 - n /\ i \in 1 .. l - (n - 1) /\ i \in 1..Len(d)
    BY <1>4, <1>5
  <2> QED
    BY <1>2, <1>3, <1>4, <1>5, <1>6, <2>1, ZenonT(30)
<1>8. Len(x) = Len(y)
  BY <1>4, <1>5, <1>6
<1>9. x = y
  BY <1>4, <1>6, <1>7, <1>8, SeqEqual
<1> QED
  BY <1>9 DEF x, y, d, a, t

LEMMA WrittenAppended ==
  ASSUME NEW w \in Seq(Paragraphs), NEW p \in Paragraphs
  PROVE  Written(Append(w, p)) = IF p.fixed THEN Append(w, p) ELSE w
<1> DEFINE q == Append(w, p)
<1>1. PICK n \in Nat : n = Len(w)
  BY LenProperties
<1>2. q \in Seq(Paragraphs) /\ Len(q) = n + 1 /\ q # << >> /\ (\A i \in 1..n : q[i] = w[i]) /\ q[n + 1] = p
  BY <1>1, AppendProperties
<1> HIDE DEF q
<1>3. Last(q) = p
  BY <1>2 DEF Last
<1>4. Front(q) = w
  <2>1. Front(q) \in Seq(Paragraphs) /\ Len(Front(q)) = n /\ \A i \in 1..n : Front(q)[i] = q[i]
    BY <1>2, FrontLast, SMTT(30)
  <2> QED
    BY <1>1, <1>2, <2>1, SeqEqual
<1> QED
  BY <1>2, <1>3, <1>4 DEF Written, q

-----------------------------------------------------------------------------
(***************************************************************************)
(* The invariant holds at first, and every action keeps it.                *)
(***************************************************************************)
LEMMA InitHolds == Init => IInv
<1> SUFFICES ASSUME Init PROVE IInv
  OBVIOUS
<1> DEFINE e == << >>
<1>1. e \in Seq(Paragraphs) /\ e \in Seq(Events) /\ Len(e) = 0 /\ Written(e) = e
  BY DEF Written
<1>2. ui \in UIs /\ ui.ps = e /\ ui.req = "none" /\ pending = e
  BY <1>1 DEF Init, UIs
<1>3. Typed
  BY <1>1, <1>2 DEF Init, Typed
<1>4. Coming = ui
  BY <1>2, ToldNothing DEF Coming
<1>5. Broken = e
  BY <1>1, <1>2, <1>4 DEF Broken
<1>6. Whole(ui, pending)
  <2>1. Numbered(ui.ps)
    BY <1>2 DEF Numbered, OpenIsLast
  <2> QED
    BY <1>2, <2>1, WholeNothing
<1>7. screen = Append(TextsOf(Broken), current)
  <2>1. TextsOf(e) = e
    BY DEF TextsOf
  <2>2. Append(e, Blank) = << Blank >>
    OBVIOUS
  <2> QED
    BY <1>5, <2>1, <2>2 DEF Init
<1>8. ListingHolds
  BY <1>1, <1>2, <1>5, <1>6, <1>7 DEF Init, ListingHolds
<1>9. SyncHolds /\ AskingHolds
  BY <1>2, <1>4 DEF Init, SyncHolds, AskingHolds, Callback
<1> QED
  BY <1>3, <1>8, <1>9 DEF IInv

\* what the invariant says of the events that wait
LEMMA ComingIs ==
  ASSUME IInv
  PROVE  /\ Coming \in UIs /\ Coming.ps \in Seq(Paragraphs) /\ Numbered(Coming.ps)
         /\ Broken \in Seq(Paragraphs) /\ Len(Broken) \in Nat /\ Written(Broken) = Broken
         /\ at # "syncs" => Calm(ui, pending)
         /\ TextsOf(Broken) \in Seq(Texts \cup {Blank})
<1>1. ui \in UIs /\ pending \in Seq(Events) /\ Whole(ui, pending)
  BY DEF IInv, Typed, ListingHolds
<1>2. Coming \in UIs /\ Coming.ps \in Seq(Paragraphs) /\ Numbered(Coming.ps)
  BY <1>1, ToldIs, WholeTold DEF Coming
<1>3. Broken \in Seq(Paragraphs) /\ Len(Broken) \in Nat /\ Written(Broken) = Broken
  BY <1>2, WrittenIs, WrittenIsFixed DEF Broken
<1>4. at # "syncs" => Calm(ui, pending)
  BY <1>1 DEF IInv, ListingHolds, Calm
<1>5. TextsOf(Broken) \in Seq(Texts \cup {Blank})
  BY <1>3, TextsOfIs
<1> QED
  BY <1>2, <1>3, <1>4, <1>5

\* the lines before the open one
LEMMA FrontOfAppend ==
  ASSUME NEW S, NEW q \in Seq(S), NEW c \in S
  PROVE  Front(Append(q, c)) = q
<1> DEFINE a == Append(q, c)
<1>1. PICK n \in Nat : n = Len(q)
  BY LenProperties
<1>2. a \in Seq(S) /\ Len(a) = n + 1 /\ a # << >> /\ \A i \in 1..n : a[i] = q[i]
  BY <1>1, AppendProperties
<1> HIDE DEF a
<1>3. Front(a) \in Seq(S) /\ Len(Front(a)) = n /\ \A i \in 1..n : Front(a)[i] = a[i]
  <2>1. n = Len(a) - 1
    BY <1>2
  <2>2. /\ Front(a) \in Seq(S) /\ Len(Front(a)) = Len(a) - 1
        /\ \A i \in 1 .. Len(a) - 1 : Front(a)[i] = a[i]
    BY <1>2, FrontLast
  <2> QED
    BY <2>1, <2>2
<1>4. Front(a) = q
  BY <1>1, <1>2, <1>3, SeqEqual
<1> QED
  BY <1>4 DEF a

LEMMA WriteTextHolds == IInv /\ WriteText => IInv'
<1> SUFFICES ASSUME IInv, WriteText PROVE IInv'
  OBVIOUS
<1>1. PICK t \in Texts : /\ at \in {"runs", "synced"} /\ at' = "runs" /\ current' = t
                         /\ screen' = Append(Front(screen), t)
                         /\ UNCHANGED << publishId, pending, ui, request >>
  BY DEF WriteText
<1>2. Coming' = Coming /\ Broken' = Broken
  BY <1>1 DEF Coming, Broken
<1>3. Front(screen) = TextsOf(Broken)
  BY ComingIs, FrontOfAppend DEF IInv, ListingHolds, Typed
<1>4. Typed'
  BY <1>1 DEF IInv, Typed
<1>5. ListingHolds'
  <2>1. \A i \in 1..Len(pending) : Closed(pending[i])
    BY <1>1 DEF IInv, ListingHolds
  <2> QED
    BY <1>1, <1>2, <1>3, <2>1 DEF IInv, ListingHolds
<1>6. SyncHolds' /\ AskingHolds'
  BY <1>1, <1>2 DEF IInv, SyncHolds, AskingHolds
<1> QED
  BY <1>4, <1>5, <1>6 DEF IInv

LEMMA PublishHolds == IInv /\ Publish => IInv'
<1> SUFFICES ASSUME IInv, Publish PROVE IInv'
  OBVIOUS
<1> DEFINE p == Paragraph(publishId, current, TRUE)
           qe == AddParagraph(pending, p)
<1>1. /\ at \in {"runs", "synced"} /\ at' = "runs" /\ pending' = qe
      /\ publishId' = publishId + 1 /\ current' = Blank /\ screen' = Append(screen, Blank)
      /\ UNCHANGED << ui, request >>
  BY DEF Publish
<1>2. p \in Paragraphs /\ p.id = publishId /\ p.text = current /\ p.fixed
  BY DEF IInv, Typed, Paragraph, Paragraphs
<1> HIDE DEF p
<1>3. /\ qe \in Seq(Events) /\ Whole(ui, qe) /\ Told(ui, qe).ps = Append(Broken, p)
      /\ Told(ui, qe).req = Coming.req /\ \A i \in 1..Len(qe) : Closed(qe[i])
  <2>1. /\ ui \in UIs /\ pending \in Seq(Events) /\ Whole(ui, pending)
        /\ \A i \in 1..Len(pending) : Closed(pending[i])
        /\ p.id = Len(Written(Told(ui, pending).ps))
    BY <1>1, <1>2 DEF IInv, Typed, ListingHolds, Broken, Coming
  <2> QED
    BY <1>2, <2>1, AddedIs DEF Broken, Coming
<1> HIDE DEF qe
<1>4. Coming' = Told(ui, qe)
  BY <1>1 DEF Coming
<1>5. Broken' = Append(Broken, p)
  BY <1>2, <1>3, <1>4, ComingIs, WrittenAppended DEF Broken
<1>6. Typed'
  BY <1>1, <1>3 DEF IInv, Typed
<1>7. ListingHolds'
  <2>1. Len(Append(Broken, p)) = Len(Broken) + 1
    BY <1>2, ComingIs, AppendProperties
  <2>2. TextsOf(Append(Broken, p)) = screen
    BY <1>2, ComingIs, TextsAppended DEF IInv, ListingHolds
  <2> QED
    BY <1>1, <1>3, <1>5, <2>1, <2>2 DEF IInv, ListingHolds
<1>8. SyncHolds' /\ AskingHolds'
  BY <1>1, <1>3, <1>4 DEF IInv, SyncHolds, AskingHolds
<1> QED
  BY <1>6, <1>7, <1>8 DEF IInv

LEMMA ClearLineHolds == IInv /\ ClearLine => IInv'
<1> SUFFICES ASSUME IInv, ClearLine PROVE IInv'
  OBVIOUS
<1>1. PICK n \in Clears :
        /\ at \in {"runs", "synced"} /\ at' = "runs" /\ pending' = RemoveParagraph(pending, n - 1)
        /\ publishId' = IF n - 1 >= publishId THEN 0 ELSE publishId - (n - 1)
        /\ current' = Blank /\ screen' = Append(Drop(screen, n), Blank)
        /\ UNCHANGED << ui, request >>
  BY DEF ClearLine
<1>2. n \in Nat \ {0} /\ n - 1 \in Nat
  BY TextAssumption
<1>3. PICK k \in Nat : k = n - 1
  BY <1>2
<1>4. PICK re : re = RemoveParagraph(pending, k)
  OBVIOUS
<1>5. ui \in UIs /\ Calm(ui, pending)
  BY <1>1, ComingIs DEF IInv, Typed
<1>6. Removes(ui, pending, k, re)
  BY <1>4, <1>5, RemovedIs
<1>7. pending' = re
  BY <1>1, <1>3, <1>4
<1>8. Coming' = Told(ui, re) /\ Coming'.req = Coming.req /\ Broken' = Drop(Broken, k)
  BY <1>1, <1>6, <1>7 DEF Removes, Coming, Broken
<1>9. re \in Seq(Events) /\ Whole(ui, re) /\ \A i \in 1..Len(re) : Closed(re[i])
  BY <1>6 DEF Removes, Calm
<1>10. Typed'
  <2>1. publishId' \in Nat
    BY <1>1, <1>2 DEF IInv, Typed
  <2> QED
    BY <1>1, <1>7, <1>9, <2>1 DEF IInv, Typed
<1>11. publishId' = Len(Broken')
  <2>1. Len(Drop(Broken, k)) = IF k <= Len(Broken) THEN Len(Broken) - k ELSE 0
    BY ComingIs, DropIs
  <2>2. publishId = Len(Broken) /\ publishId \in Nat
    BY DEF IInv, Typed, ListingHolds
  <2> QED
    BY <1>1, <1>3, <1>8, <2>1, <2>2
<1>12. Drop(screen, n) = TextsOf(Broken')
  <2>1. screen = Append(TextsOf(Broken), current) /\ current \in Texts \cup {Blank}
    BY DEF IInv, Typed, ListingHolds
  <2>2. Drop(Append(TextsOf(Broken), current), n) = TextsOf(Drop(Broken, n - 1))
    BY <1>2, <2>1, ComingIs, TextsDropped
  <2> QED
    BY <1>3, <1>8, <2>1, <2>2
<1>13. ListingHolds'
  BY <1>1, <1>7, <1>9, <1>11, <1>12 DEF ListingHolds
<1>14. SyncHolds' /\ AskingHolds'
  BY <1>1, <1>8 DEF IInv, SyncHolds, AskingHolds
<1> QED
  BY <1>10, <1>13, <1>14 DEF IInv

LEMMA ClearLineAllHolds == IInv /\ ClearLineAll => IInv'
<1> SUFFICES ASSUME IInv, ClearLineAll PROVE IInv'
  OBVIOUS
<1> DEFINE e == << >>
           re == RemoveParagraphAll(pending)
<1>1. /\ at \in {"runs", "synced"} /\ at' = "runs" /\ pending' = re
      /\ publishId' = 0 /\ current' = Blank /\ screen' = << Blank >>
      /\ UNCHANGED << ui, request >>
  BY DEF ClearLineAll
<1>2. ui \in UIs /\ Calm(ui, pending)
  BY <1>1, ComingIs DEF IInv, Typed
<1>3. Calm(ui, re) /\ Told(ui, re).ps = e /\ Told(ui, re).req = Coming.req
  BY <1>2, RemovedAllIs DEF Coming
<1> HIDE DEF re
<1>4. Coming' = Told(ui, re)
  BY <1>1 DEF Coming
<1>5. Broken' = e
  <2>1. Written(e) = e
    BY DEF Written
  <2> QED
    BY <1>3, <1>4, <2>1 DEF Broken
<1>6. Typed'
  BY <1>1, <1>3 DEF IInv, Typed, Calm
<1>7. ListingHolds'
  <2>1. TextsOf(e) = e /\ Len(e) = 0 /\ Append(e, Blank) = << Blank >>
    BY DEF TextsOf
  <2> QED
    BY <1>1, <1>3, <1>5, <2>1 DEF ListingHolds, Calm
<1>8. SyncHolds' /\ AskingHolds'
  BY <1>1, <1>3, <1>4 DEF IInv, SyncHolds, AskingHolds
<1> QED
  BY <1>6, <1>7, <1>8 DEF IInv

LEMMA SyncPassesHolds == IInv /\ SyncPasses => IInv'
<1> SUFFICES ASSUME IInv, SyncPasses PROVE IInv'
  OBVIOUS
<1> DEFINE p == Paragraph(publishId, current, FALSE)
           qe == AddParagraph(pending, p)
<1>1. /\ at \in {"runs", "synced"} /\ at' = "syncs" /\ pending' = qe
      /\ UNCHANGED << screen, current, publishId, ui, request >>
  BY DEF SyncPasses
<1>2. p \in Paragraphs /\ p.id = publishId /\ p.text = current /\ ~p.fixed
  BY DEF IInv, Typed, Paragraph, Paragraphs
<1> HIDE DEF p
<1>3. /\ qe \in Seq(Events) /\ Whole(ui, qe) /\ Told(ui, qe).ps = Append(Broken, p)
      /\ Told(ui, qe).req = Coming.req
  <2>1. /\ ui \in UIs /\ pending \in Seq(Events) /\ Whole(ui, pending)
        /\ \A i \in 1..Len(pending) : Closed(pending[i])
        /\ p.id = Len(Written(Told(ui, pending).ps))
    BY <1>1, <1>2 DEF IInv, Typed, ListingHolds, Broken, Coming
  <2> QED
    BY <1>2, <2>1, AddedIs DEF Broken, Coming
<1> HIDE DEF qe
<1>4. Coming' = Told(ui, qe)
  BY <1>1 DEF Coming
<1>5. Broken' = Broken
  BY <1>2, <1>3, <1>4, ComingIs, WrittenAppended DEF Broken
<1>6. Typed'
  BY <1>1, <1>3 DEF IInv, Typed
<1>7. ListingHolds'
  BY <1>1, <1>3, <1>5 DEF IInv, ListingHolds
<1>8. SyncHolds'
  <2>1. TextsOf(Append(Broken, p)) = screen
    BY <1>2, ComingIs, TextsAppended DEF IInv, ListingHolds
  <2> QED
    BY <1>1, <1>3, <1>4, <2>1 DEF SyncHolds
<1>9. AskingHolds'
  BY <1>1, <1>3, <1>4 DEF IInv, AskingHolds
<1> QED
  BY <1>6, <1>7, <1>8, <1>9 DEF IInv

\* A publication takes everything to the UI, and nothing else changes.
LEMMA PublishedHolds ==
  ASSUME IInv, PublishPending, UNCHANGED << screen, current, publishId, request >>,
         \/ at' = at
         \/ at = "syncs" /\ at' = "synced"
         \/ at = "tells" /\ at' = "waits"
  PROVE  IInv'
<1> DEFINE e == << >>
<1>1. ui' = Coming /\ pending' = e
  BY DEF PublishPending, Coming
<1>2. Coming \in UIs /\ Numbered(Coming.ps)
  BY ComingIs
<1>3. Coming' = Coming
  BY <1>1, <1>2, ToldNothing DEF Coming
<1>4. Broken' = Broken
  BY <1>3 DEF Broken
<1>5. e \in Seq(Events) /\ \A i \in 1..Len(e) : FALSE
  OBVIOUS
<1>6. Whole(ui', e)
  BY <1>1, <1>2, WholeNothing
<1> HIDE DEF e
<1>7. Typed'
  BY <1>1, <1>2, <1>5 DEF IInv, Typed
<1>8. ListingHolds'
  BY <1>1, <1>4, <1>5, <1>6 DEF IInv, ListingHolds
<1>9. SyncHolds'
  BY <1>1, <1>3 DEF IInv, SyncHolds
<1>10. AskingHolds'
  BY <1>1, <1>3 DEF IInv, AskingHolds
<1> QED
  BY <1>7, <1>8, <1>9, <1>10 DEF IInv

LEMMA AsksHolds == IInv /\ Asks => IInv'
<1> SUFFICES ASSUME IInv, Asks PROVE IInv'
  OBVIOUS
<1> DEFINE qe == InputRequest(pending, request')
<1>1. /\ at = "synced" /\ request' \in Kinds /\ pending' = qe
      /\ at' = IF request' \in {"command", "input"} THEN "tells" ELSE "waits"
      /\ UNCHANGED << screen, current, publishId, ui >>
  BY DEF Asks
<1>2. ui \in UIs /\ Calm(ui, pending) /\ request' \in Kinds \cup {"none"}
  BY <1>1, ComingIs DEF IInv, Typed
<1>3. Calm(ui, qe) /\ Told(ui, qe).ps = Coming.ps /\ Told(ui, qe).req = Callback(request')
  BY <1>2, RequestedIs DEF Coming
<1> HIDE DEF qe
<1>4. Coming' = Told(ui, qe) /\ Broken' = Broken
  BY <1>1, <1>3 DEF Coming, Broken
<1>5. Typed'
  BY <1>1, <1>2, <1>3 DEF IInv, Typed, Calm
<1>6. ListingHolds'
  BY <1>1, <1>3, <1>4 DEF IInv, ListingHolds, Calm
<1>7. SyncHolds'
  BY <1>1, <1>3, <1>4 DEF IInv, SyncHolds
<1>8. AskingHolds'
  BY <1>1, <1>3, <1>4 DEF AskingHolds
<1> QED
  BY <1>5, <1>6, <1>7, <1>8 DEF IInv

LEMMA AnsweredHolds == IInv /\ Answered => IInv'
<1> SUFFICES ASSUME IInv, Answered PROVE IInv'
  OBVIOUS
<1> DEFINE qe == InputRequest(pending, "none")
<1>1. /\ at = "waits" /\ request' = "none" /\ pending' = qe /\ at' = "runs"
      /\ UNCHANGED << screen, current, publishId, ui >>
  BY DEF Answered
<1>2. ui \in UIs /\ Calm(ui, pending)
  BY <1>1, ComingIs DEF IInv, Typed
<1>3. Calm(ui, qe) /\ Told(ui, qe).ps = Coming.ps /\ Told(ui, qe).req = Callback("none")
  BY <1>2, RequestedIs DEF Coming
<1> HIDE DEF qe
<1>4. Coming' = Told(ui, qe) /\ Broken' = Broken
  BY <1>1, <1>3 DEF Coming, Broken
<1>5. Typed'
  BY <1>1, <1>3 DEF IInv, Typed, Calm
<1>6. ListingHolds'
  BY <1>1, <1>3, <1>4 DEF IInv, ListingHolds, Calm
<1>7. SyncHolds' /\ AskingHolds'
  BY <1>1, <1>3, <1>4 DEF SyncHolds, AskingHolds
<1> QED
  BY <1>5, <1>6, <1>7 DEF IInv

LEMMA NextHolds == IInv /\ [Next]_vars => IInv'
<1> SUFFICES ASSUME IInv, [Next]_vars PROVE IInv'
  OBVIOUS
<1>1. CASE Tick
  BY <1>1, PublishedHolds DEF Tick
<1>2. CASE Syncs
  BY <1>2, PublishedHolds DEF Syncs
<1>3. CASE Tells
  BY <1>3, PublishedHolds DEF Tells
<1>4. CASE UNCHANGED vars
  BY <1>4 DEF vars, IInv, Typed, ListingHolds, SyncHolds, AskingHolds, Coming, Broken
<1> QED
  BY <1>1, <1>2, <1>3, <1>4, WriteTextHolds, PublishHolds, ClearLineHolds, ClearLineAllHolds,
     SyncPassesHolds, AsksHolds, AnsweredHolds DEF Next

LEMMA AlwaysHolds == Spec => []IInv
BY InitHolds, NextHolds, PTL DEF Spec

\* What was broken and the open line are the lines of the game.
LEMMA ShownIs == IInv => ListingIsWhole
<1> SUFFICES ASSUME IInv PROVE ListingIsWhole
  OBVIOUS
<1> DEFINE p == Paragraph(publishId, current, FALSE)
<1>1. p \in Paragraphs /\ p.id = publishId /\ p.text = current
  BY DEF IInv, Typed, Paragraph, Paragraphs
<1> HIDE DEF p
<1>2. Put(Coming.ps, p) = Append(Broken, p)
  BY <1>1, ComingIs, PutFollowing DEF IInv, ListingHolds, Broken
<1>3. NoLineLost
  <2>1. TextsOf(Append(Broken, p)) = screen
    BY <1>1, ComingIs, TextsAppended DEF IInv, ListingHolds
  <2> QED
    BY <1>2, <2>1 DEF NoLineLost, Coming, p
<1>4. IdIsPosition
  BY ComingIs DEF IdIsPosition, Coming, Numbered
<1>5. TypeOK
  <2>1. screen \in Seq(Texts \cup {Blank}) /\ screen # << >>
    <3>1. screen = Append(TextsOf(Broken), current) /\ current \in Texts \cup {Blank}
      BY DEF IInv, Typed, ListingHolds
    <3>2. TextsOf(Broken) \in Seq(Texts \cup {Blank})
      BY ComingIs
    <3> QED
      BY <3>1, <3>2, AppendProperties
  <2>2. ui \in UIs /\ pending \in Seq(Events) /\ Whole(ui, pending)
    BY DEF IInv, Typed, ListingHolds
  <2>3. ASSUME NEW i \in DOMAIN pending, IsA(pending[i], "list")
        PROVE  pending[i].ps # << >> /\ OpenIsLast(pending[i].ps)
    <3>1. i \in 1..Len(pending)
      BY <2>2, LenProperties
    <3> QED
      BY <2>2, <2>3, <3>1 DEF Whole, Fits, Follows
  <2>4. OpenIsLast(ui.ps)
    <3>1. 0 \in 0..Len(pending) /\ SubSeq(pending, 1, 0) = << >>
      BY <2>2, LenProperties, SubSeqEmpty
    <3>2. Told(ui, SubSeq(pending, 1, 0)) = ui
      BY <2>2, <3>1, ToldNothing
    <3> QED
      BY <2>2, <3>1, <3>2 DEF Whole, Numbered
  <2> QED
    BY <2>1, <2>2, <2>3, <2>4 DEF TypeOK, IInv, Typed
<1> QED
  BY <1>3, <1>4, <1>5 DEF ListingIsWhole

\* However the events that wait are merged, cut up by ticks and dropped by
\* removals (callback_throttler.go), the UI is shown the lines that the game
\* has printed and not cleared, each with the number of its place.
THEOREM ListingAlwaysWhole == Spec => []ListingIsWhole
BY AlwaysHolds, ShownIs, PTL

\* No removal takes a request with it, and a game that waits for an input which
\* may time out waits in front of a UI that shows all of its lines and asks for
\* it (OnRequestChanged, callback_throttler.go).
THEOREM AskingAlwaysReaches == Spec => []AskingReaches
<1>1. IInv => AskingReaches
  BY DEF IInv, SyncHolds, AskingHolds, AskingReaches, RequestKept, AskedOnScreen, Coming
<1> QED
  BY <1>1, AlwaysHolds, PTL
==============================================================================
