----------------------------- MODULE InputPort -----------------------------
(***************************************************************************)
(* The input port of uiadapter: user events are put on an event deque, the *)
(* filter goroutine of RunFilter turns them into commands of the command   *)
(* buffer according to its input state and macro state, and the game       *)
(* thread takes commands from the buffer through Wait, Command,            *)
(* CommandNumber and RawInput, each with a timeout, a helper goroutine     *)
(* being the one that sleeps on the buffer's condition variable.           *)
(*                                                                         *)
(* Each action is one critical section (or one unlocked statement) of one  *)
(* thread, so that every interleaving of the threads is a behaviour.       *)
(***************************************************************************)
EXTENDS Integers, Sequences

CONSTANTS
    UserTexts,    \* commands that are neither numbers nor macros, "" included
    Numbers,      \* commands that strconv.Atoi accepts
    MacroTokens,  \* the parsed token sequence of each macro text
    UserEvents,   \* what the UI may send: records of Event
    MaxCalls,     \* bound: input requests the game thread makes
    MaxEvents     \* bound: events the UI sends

Empty    == ""
Skip     == "skip"      \* macro.TokenTypeSkipWait
BlankToken == "blank"   \* macro.TokenTypeNone, left by an empty token
Macros   == DOMAIN MacroTokens
Commands == UserTexts \cup Numbers \cup Macros
Tokens   == Numbers \cup {Skip, BlankToken}

InputKinds == {"wait", "command", "number", "raw"}

StartOf(k) == CASE k = "wait" -> "StartInput"
                [] k = "raw"  -> "StartRawInput"
                [] OTHER      -> "StartCommand"

StopOf(k) == CASE k = "wait" -> "StopInput"
               [] k = "raw"  -> "StopRawInput"
               [] OTHER      -> "StopCommand"

StopTypes  == {"StopCommand", "StopInput", "StopRawInput"}
StartTypes == {"StartCommand", "StartInput", "StartRawInput"}
UserTypes  == {"Command", "RawInput", "StartSkippingWait", "StopSkippingWait",
               "InterruptMacro", "Quit"}
EventTypes == StartTypes \cup StopTypes \cup UserTypes \cup {"MacroDone"}

Event == [type : EventTypes, cmd : Commands]
Ev(t) == [type |-> t, cmd |-> Empty]

InputStates == {"idling", "commandWaiting", "inputWaiting", "waitSkipping",
                "rawInputWaiting"}

Replies == [err : {"none", "closed", "timeout", "cancelled", "sync"},
            cmd : Commands]
NoReply == [err |-> "none", cmd |-> Empty]

ASSUME CommandAssumption ==
    /\ Empty \in UserTexts
    /\ UserTexts \cap Numbers = {}
    /\ Macros \cap (UserTexts \cup Numbers) = {}
    /\ MacroTokens \in [Macros -> Seq(Tokens)]
    /\ Numbers \cap {Skip, BlankToken} = {}
ASSUME EventAssumption ==
    UserEvents \subseteq [type : UserTypes, cmd : Commands]
ASSUME BoundAssumption ==
    MaxCalls \in Nat /\ MaxEvents \in Nat

VARIABLES
    ebuf,        \* event deque: `first' reversed, then `last'
    commands,    \* cbuf.commands
    macro,       \* tokens of cbuf.macroQ
    waiting,     \* cbuf.waiting
    cclosed,     \* cbuf.closed
    closed,      \* inputPort.closed
    \* the filter goroutine of RunFilter
    fpc,         \* where it is in its loop
    fev,         \* the event it handles
    state,       \* p.state
    macroState,  \* p.macroState
    \* RunFilter itself
    opc,         \* where RunFilter is
    ctxDone,     \* its context is cancelled
    \* the game thread and the goroutine that receives for it
    gpc,         \* where the game thread is in its input call
    call,        \* the kind of its call, and whether it has a timeout
    expired,     \* the call's context is done
    reply,       \* what its last call returned
    observed,    \* the request last told to the request observers
    rcv,         \* the receiving goroutine
    got,         \* what the receiving goroutine returned
    calls,       \* input calls made so far
    \* the UI thread
    upc,         \* the event it is about to post
    sent         \* events it has sent so far

bufVars    == <<commands, macro, waiting, cclosed>>
filterVars == <<fpc, fev, state, macroState>>
runVars    == <<opc, ctxDone, closed>>
gameVars   == <<gpc, call, expired, reply, observed, calls>>
rcvVars    == <<rcv, got>>
uiVars     == <<upc, sent>>
portVars == <<ebuf, bufVars, filterVars, runVars, gameVars, rcvVars, uiVars>>

NoEvent == Ev("Quit")

PortInit ==
    /\ ebuf = <<>> /\ commands = <<>> /\ macro = <<>>
    /\ waiting = FALSE /\ cclosed = FALSE /\ closed = FALSE
    /\ fpc = "next" /\ fev = NoEvent
    /\ state = "idling" /\ macroState = "nothing"
    /\ opc = "select" /\ ctxDone = FALSE
    /\ gpc = "idle" /\ call = [kind |-> "wait", timed |-> FALSE]
    /\ expired = FALSE /\ reply = NoReply /\ observed = "none"
    /\ rcv = "none" /\ got = NoReply /\ calls = 0
    /\ upc = <<>> /\ sent = 0

-----------------------------------------------------------------------------
(* The deque and the wake-ups. A receiver asleep on the condition variable *)
(* is made runnable by Signal and by Broadcast alike: it is the only one.  *)

Post(e)      == ebuf' = Append(ebuf, e)
PostFirst(e) == ebuf' = <<e>> \o ebuf
Woken        == IF rcv = "asleep" THEN "running" ELSE rcv

\* (mutant) a wake-up that is forgotten
NoSignal == UNCHANGED rcvVars
Signal   == rcv' = Woken /\ UNCHANGED got

\* the critical sections of commandBuffer that other threads run
CbufSend(c)   == commands' = Append(commands, c) /\ Signal
CbufClear     == commands' = <<>>
StartMacro(m) == macro' = m /\ Signal

\* (mutant) the macro's tokens are left in the queue
StopMacroKeeps == UNCHANGED <<macro, rcv, got>>
StopMacro      == macro' = <<>> /\ UNCHANGED rcvVars

-----------------------------------------------------------------------------
(* The UI thread: Send(ev) and Quit(), a check of `closed' then a post.    *)

UserChecks ==
    \E e \in UserEvents :
        /\ upc = <<>> /\ sent < MaxEvents /\ ~closed
        /\ upc' = <<e>> /\ sent' = sent + 1
        /\ UNCHANGED <<ebuf, bufVars, filterVars, runVars, gameVars, rcvVars>>

UserPosts ==
    /\ upc # <<>>
    /\ Post(upc[1])
    /\ upc' = <<>>
    /\ UNCHANGED <<bufVars, filterVars, runVars, gameVars, rcvVars, sent>>

-----------------------------------------------------------------------------
(* The filter goroutine.                                                   *)

FilterTakes ==
    /\ fpc = "next" /\ ebuf # <<>>
    /\ fev' = Head(ebuf)
    /\ ebuf' = Tail(ebuf)
    /\ fpc' = IF Head(ebuf).type = "Quit" THEN "stopped" ELSE "macro"
    /\ UNCHANGED <<bufVars, state, macroState, runVars, gameVars, rcvVars,
                   uiVars>>

StartsMacro == /\ macroState = "nothing"
               /\ fev.type = "Command" /\ fev.cmd \in Macros
StopsMacro  == /\ macroState = "running"
               /\ fev.type \in {"InterruptMacro", "MacroDone"}

\* macroRunning.Enter or macroRunning.Exit
FilterMacro ==
    /\ fpc = "macro"
    /\ fpc' = "input"
    /\ \/ /\ StartsMacro
          /\ macroState' = "running"
          /\ StartMacro(MacroTokens[fev.cmd])
       \/ /\ StopsMacro
          /\ macroState' = "nothing"
          /\ StopMacro
       \/ /\ ~StartsMacro /\ ~StopsMacro
          /\ UNCHANGED <<macroState, macro, rcvVars>>
    /\ UNCHANGED <<ebuf, commands, waiting, cclosed, fev, state,
                   runVars, gameVars, uiVars>>

\* the state that the event of type t leads to from input state s
NextState(s, t) ==
    CASE t = "StartCommand"  /\ s \in {"idling", "waitSkipping"} -> "commandWaiting"
      [] t = "StartRawInput" /\ s \in {"idling", "waitSkipping"} -> "rawInputWaiting"
      [] t = "StartInput"    /\ s = "idling"          -> "inputWaiting"
      [] t = "StopCommand"   /\ s = "commandWaiting"  -> "idling"
      [] t = "StopInput"     /\ s = "inputWaiting"    -> "idling"
      [] t = "StopRawInput"  /\ s = "rawInputWaiting" -> "idling"
      [] t = "StartSkippingWait" /\ s = "inputWaiting" -> "waitSkipping"
      [] t = "StopSkippingWait"  /\ s = "waitSkipping" -> "idling"
      [] OTHER -> s

\* (mutant) every state forwards the event of its own request only
ForwardsOwn(s, t) ==
    \/ t = "Command"  /\ s = "commandWaiting"
    \/ t = "RawInput" /\ s = "rawInputWaiting"
    \/ t = "StartInput" /\ s = "waitSkipping"

\* does input state s forward the event of type t to the command buffer?
Forwards(s, t) ==
    \/ t = "Command"  /\ s \in {"commandWaiting", "inputWaiting", "rawInputWaiting"}
    \/ t = "RawInput" /\ s = "rawInputWaiting"
    \/ t = "StartInput" /\ s = "waitSkipping"

\* the state that the event being handled leads to
FNext == NextState(state, fev.type)

FilterInput ==
    /\ fpc = "input"
    /\ \/ /\ Forwards(state, fev.type)
          /\ CbufSend(fev.cmd)
       \/ /\ ~Forwards(state, fev.type)
          /\ UNCHANGED <<commands, rcvVars>>
    /\ IF FNext = state
         THEN fpc' = "next" /\ fev' = NoEvent
         ELSE fpc' = "exit" /\ UNCHANGED fev
    /\ UNCHANGED <<ebuf, macro, waiting, cclosed, state, macroState, runVars,
                   gameVars, uiVars>>

ClearsOnEntry(s) == s \in {"commandWaiting", "inputWaiting", "rawInputWaiting"}

\* Exit of the old state; commandWaiting goes on to look at the macro
FilterExits ==
    /\ fpc = "exit"
    /\ IF ClearsOnEntry(state) THEN CbufClear ELSE UNCHANGED commands
    /\ fpc' = IF state = "commandWaiting" THEN "macrosize" ELSE "enter"
    /\ UNCHANGED <<ebuf, macro, waiting, cclosed, fev, state, macroState,
                   runVars, gameVars, rcvVars, uiVars>>

\* (mutant) the size of the macro is not looked at
FilterReportsAnyway ==
    /\ fpc = "macrosize"
    /\ PostFirst(Ev("MacroDone"))
    /\ fpc' = "enter"
    /\ UNCHANGED <<bufVars, fev, state, macroState, runVars, gameVars, rcvVars,
                   uiVars>>

FilterReportsMacroDone ==
    /\ fpc = "macrosize"
    /\ IF macro = <<>> THEN PostFirst(Ev("MacroDone")) ELSE UNCHANGED ebuf
    /\ fpc' = "enter"
    /\ UNCHANGED <<bufVars, fev, state, macroState, runVars, gameVars,
                   rcvVars, uiVars>>

\* Enter of the new state
FilterEnters ==
    /\ fpc = "enter"
    /\ IF FNext = "waitSkipping"
         THEN CbufSend(Empty)
         ELSE /\ IF ClearsOnEntry(FNext) THEN CbufClear ELSE UNCHANGED commands
              /\ UNCHANGED rcvVars
    /\ state' = FNext
    /\ fpc' = "next" /\ fev' = NoEvent
    /\ UNCHANGED <<ebuf, macro, waiting, cclosed, macroState,
                   runVars, gameVars, uiVars>>

Filter == \/ FilterTakes \/ FilterMacro \/ FilterInput
          \/ FilterExits \/ FilterReportsMacroDone \/ FilterEnters

-----------------------------------------------------------------------------
(* RunFilter: its select, then the deferred close().                       *)

RunSelects ==
    /\ opc = "select" /\ (ctxDone \/ fpc = "stopped")
    /\ opc' = "closing"
    /\ UNCHANGED <<ebuf, bufVars, filterVars, ctxDone, closed, gameVars,
                   rcvVars, uiVars>>

CloseMarks ==
    /\ opc = "closing"
    /\ closed' = TRUE /\ opc' = "closebuf"
    /\ UNCHANGED <<ebuf, bufVars, filterVars, ctxDone, gameVars, rcvVars, uiVars>>

\* (mutant) Close forgets the broadcast
CloseBufferSilent ==
    /\ opc = "closebuf"
    /\ cclosed' = TRUE /\ macro' = <<>>
    /\ opc' = "postquit"
    /\ UNCHANGED <<ebuf, commands, waiting, filterVars, ctxDone, closed,
                   gameVars, rcvVars, uiVars>>

CloseBuffer ==
    /\ opc = "closebuf"
    /\ cclosed' = TRUE /\ macro' = <<>> /\ Signal
    /\ opc' = "postquit"
    /\ UNCHANGED <<ebuf, commands, waiting, filterVars, ctxDone, closed,
                   gameVars, uiVars>>

ClosePosts ==
    /\ opc = "postquit"
    /\ Post(Ev("Quit")) /\ opc' = "returned"
    /\ UNCHANGED <<bufVars, filterVars, ctxDone, closed, gameVars, rcvVars,
                   uiVars>>

Run == RunSelects \/ CloseMarks \/ CloseBuffer \/ ClosePosts

-----------------------------------------------------------------------------
(* The game thread. Game.main ends by Quit() and then cancels the context; *)
(* before that it makes input calls one after the other.                   *)

Returns(e, c) == reply' = [err |-> e, cmd |-> c]

Begin ==
    \E k \in InputKinds, timed \in BOOLEAN :
        /\ gpc = "idle" /\ calls < MaxCalls
        /\ calls' = calls + 1
        /\ call' = [kind |-> k, timed |-> timed]
        /\ IF closed
             THEN gpc' = "idle" /\ Returns("closed", Empty)
             ELSE gpc' = "sync" /\ reply' = NoReply
        /\ UNCHANGED <<ebuf, bufVars, filterVars, runVars, expired, observed,
                       rcvVars, uiVars>>

\* syncer.SyncWait(), then the Start event
GameSyncs ==
    /\ gpc = "sync"
    /\ \/ gpc' = "idle" /\ Returns("sync", Empty) /\ UNCHANGED ebuf
       \/ /\ gpc' = "observe" /\ UNCHANGED reply
          /\ Post(Ev(StartOf(call.kind)))
    /\ UNCHANGED <<bufVars, filterVars, runVars, call, expired, observed, calls,
                   rcvVars, uiVars>>

\* requestChanged, and the new context with its deadline
Observes ==
    /\ gpc = "observe"
    /\ observed' = call.kind
    /\ gpc' = "prepare"
    /\ UNCHANGED <<ebuf, bufVars, filterVars, runVars, call, expired, reply,
                   calls, rcvVars, uiVars>>

\* PrepareWaitReceive and the start of the receiving goroutine
Prepares ==
    /\ gpc = "prepare"
    /\ waiting' = TRUE
    /\ rcv' = "running" /\ got' = NoReply
    /\ gpc' = "select"
    /\ UNCHANGED <<ebuf, commands, macro, cclosed, filterVars, runVars, call,
                   expired, reply, observed, calls, uiVars>>

\* the deadline passes
Expires ==
    /\ gpc \in {"prepare", "select"} /\ call.timed /\ ~expired
    /\ expired' = TRUE
    /\ UNCHANGED <<ebuf, bufVars, filterVars, runVars, gpc, call, reply,
                   observed, calls, rcvVars, uiVars>>

\* case <-ctx.Done(): Cancel unsets `waiting', then broadcasts
Cancels ==
    /\ gpc = "select" /\ expired
    /\ waiting' = FALSE
    /\ gpc' = "broadcast"
    /\ UNCHANGED <<ebuf, commands, macro, cclosed, filterVars, runVars, call,
                   expired, reply, observed, calls, rcvVars, uiVars>>

Broadcasts ==
    /\ gpc = "broadcast"
    /\ Signal
    /\ gpc' = "join"
    /\ UNCHANGED <<ebuf, bufVars, filterVars, runVars, call, expired, reply,
                   observed, calls, uiVars>>

\* whatever the receiving goroutine got is dropped
Joins ==
    /\ gpc = "join" /\ rcv = "done"
    /\ rcv' = "none" /\ got' = NoReply
    /\ Returns("timeout", Empty)
    /\ gpc' = "stop"
    /\ UNCHANGED <<ebuf, bufVars, filterVars, runVars, call, expired, observed,
                   calls, uiVars>>

\* (mutants) CommandNumber takes any command; it asks again after an error
AsksOnce      == FALSE
AsksAfterFail == call.kind = "number" /\ got.cmd \notin Numbers

\* CommandNumber asks again until the command is a number
AsksAgain == call.kind = "number" /\ got.err = "none" /\ got.cmd \notin Numbers

TakesResult ==
    /\ gpc = "select" /\ rcv = "done"
    /\ rcv' = "none" /\ got' = NoReply
    /\ IF AsksAgain
         THEN gpc' = "prepare" /\ UNCHANGED reply
         ELSE gpc' = "stop" /\ reply' = got
    /\ UNCHANGED <<ebuf, bufVars, filterVars, runVars, call, expired, observed,
                   calls, uiVars>>

\* the deferred requestChanged(None) and sendInternalEventFirst(Stop)
Stops ==
    /\ gpc = "stop"
    /\ observed' = "none"
    /\ PostFirst(Ev(StopOf(call.kind)))
    /\ gpc' = "idle" /\ expired' = FALSE
    /\ UNCHANGED <<bufVars, filterVars, runVars, call, reply, calls, rcvVars,
                   uiVars>>

\* the game flow is over: uiAdapter.Quit() checks `closed' ...
GameEnds ==
    /\ gpc = "idle"
    /\ gpc' = IF closed THEN "cancel" ELSE "quit"
    /\ UNCHANGED <<ebuf, bufVars, filterVars, runVars, call, expired, reply,
                   observed, calls, rcvVars, uiVars>>

\* ... and posts the quit event
GameQuits ==
    /\ gpc = "quit"
    /\ Post(Ev("Quit"))
    /\ gpc' = "cancel"
    /\ UNCHANGED <<bufVars, filterVars, runVars, call, expired, reply, observed,
                   calls, rcvVars, uiVars>>

GameCancels ==
    /\ gpc = "cancel"
    /\ ctxDone' = TRUE
    /\ gpc' = "ended"
    /\ UNCHANGED <<ebuf, bufVars, filterVars, opc, closed, call, expired, reply,
                   observed, calls, rcvVars, uiVars>>

\* what the game thread does by itself once a call has begun
InCall == \/ GameSyncs \/ Observes \/ Prepares \/ Cancels \/ Broadcasts
          \/ Joins \/ TakesResult \/ Stops \/ GameQuits \/ GameCancels

-----------------------------------------------------------------------------
(* The receiving goroutine: cbuf.Wait() for a wait, cbuf.Receive() else.   *)

\* the tokens a Wait, or a Receive, stops at
Wanted == IF call.kind = "wait" THEN {Skip} ELSE Numbers

\* k is the first token of the macro that is wanted
FirstWanted(k) ==
    /\ k \in 1..Len(macro) /\ macro[k] \in Wanted
    /\ \A j \in 1..(k - 1) : macro[j] \notin Wanted

NoneWanted == \A k \in 1..Len(macro) : macro[k] \notin Wanted

Finishes(e, c) == rcv' = "done" /\ got' = [err |-> e, cmd |-> c]

ReceiverRefused ==
    /\ rcv = "running" /\ (~waiting \/ cclosed)
    /\ Finishes(IF waiting THEN "closed" ELSE "cancelled", Empty)
    /\ UNCHANGED <<ebuf, bufVars, filterVars, runVars, gameVars, uiVars>>

Receiving == rcv = "running" /\ waiting /\ ~cclosed

\* DequeUntilSkip leaves the skip token in place
ReceiverSkips ==
    \E k \in 1..Len(macro) :
        /\ Receiving /\ call.kind = "wait" /\ FirstWanted(k)
        /\ macro' = SubSeq(macro, k, Len(macro))
        /\ Finishes("none", Empty)
        /\ UNCHANGED <<ebuf, commands, waiting, cclosed, filterVars, runVars,
                       gameVars, uiVars>>

\* DequeCommand
ReceiverTakesMacro ==
    \E k \in 1..Len(macro) :
        /\ Receiving /\ call.kind # "wait" /\ FirstWanted(k)
        /\ macro' = SubSeq(macro, k + 1, Len(macro))
        /\ Finishes("none", macro[k])
        /\ UNCHANGED <<ebuf, commands, waiting, cclosed, filterVars, runVars,
                       gameVars, uiVars>>

\* receive() of the oldest command, the macro having been used up
ReceiverTakesCommand ==
    /\ Receiving /\ NoneWanted /\ commands # <<>>
    /\ macro' = <<>>
    /\ commands' = Tail(commands)
    /\ Finishes("none", IF call.kind = "wait" THEN Empty ELSE Head(commands))
    /\ UNCHANGED <<ebuf, waiting, cclosed, filterVars, runVars, gameVars, uiVars>>

ReceiverSleeps ==
    /\ Receiving /\ NoneWanted /\ commands = <<>>
    /\ macro' = <<>>
    /\ rcv' = "asleep" /\ UNCHANGED got
    /\ UNCHANGED <<ebuf, commands, waiting, cclosed, filterVars, runVars,
                   gameVars, uiVars>>

Receiver == \/ ReceiverRefused \/ ReceiverSkips \/ ReceiverTakesMacro
            \/ ReceiverTakesCommand \/ ReceiverSleeps

-----------------------------------------------------------------------------
PortNext == \/ UserChecks \/ UserPosts
            \/ Filter \/ Run
            \/ Begin \/ Expires \/ GameEnds \/ InCall
            \/ Receiver

\* Goroutines are scheduled and timers fire; users need not type, nor must
\* the game make calls.
Fairness == /\ WF_portVars(Filter) /\ WF_portVars(Run) /\ WF_portVars(Receiver)
            /\ WF_portVars(InCall) /\ WF_portVars(Expires) /\ WF_portVars(UserPosts)

PortSpec == PortInit /\ [][PortNext]_portVars
FairSpec == PortSpec /\ Fairness

-----------------------------------------------------------------------------
(* Properties.                                                             *)

\* Every variable has a value of its type.
PortTypeOK ==
    /\ ebuf \in Seq(Event) /\ commands \in Seq(Commands)
    /\ macro \in Seq(Tokens)
    /\ waiting \in BOOLEAN /\ cclosed \in BOOLEAN /\ closed \in BOOLEAN
    /\ fpc \in {"next", "macro", "input", "exit", "macrosize", "enter", "stopped"}
    /\ fev \in Event /\ state \in InputStates
    /\ macroState \in {"nothing", "running"}
    /\ opc \in {"select", "closing", "closebuf", "postquit", "returned"}
    /\ ctxDone \in BOOLEAN
    /\ gpc \in {"idle", "sync", "observe", "prepare", "select", "broadcast",
               "join", "stop", "quit", "cancel", "ended"}
    /\ call \in [kind : InputKinds, timed : BOOLEAN]
    /\ expired \in BOOLEAN /\ reply \in Replies
    /\ observed \in InputKinds \cup {"none"}
    /\ rcv \in {"none", "running", "asleep", "done"} /\ got \in Replies
    /\ calls \in 0..MaxCalls
    /\ upc \in Seq(UserEvents) /\ Len(upc) <= 1
    /\ sent \in 0..MaxEvents

\* The receiving goroutine never sleeps through something it waits for: while
\* it is asleep on the condition variable the buffer holds no command and no
\* macro token, is not closed, and has not been cancelled unless the
\* broadcast of that very cancellation is still to come (commandbuf.go).
NoLostWakeup ==
    rcv = "asleep" => /\ commands = <<>> /\ macro = <<>> /\ ~cclosed
                      /\ waiting \/ gpc = "broadcast"

\* The branches of waitWithContext and commandWithContext that report a wait
\* "cancelled by external factor" are unreachable: the receiving goroutine
\* only ever finds its wait cancelled when its own request has timed out.
NeverCancelledByOther ==
    /\ rcv = "done" /\ got.err = "cancelled" => gpc \in {"broadcast", "join"}
    /\ reply.err # "cancelled"

\* A macro token is only in the queue of the command buffer while the filter
\* is running that macro: nothing of an interrupted macro is left to be
\* delivered later (macrostate.go Exit, commandbuf.go Close).
NoOrphanMacro ==
    macro # <<>> => macroState = "running"

\* A macro is given up only because the user interrupts it or because it is
\* used up: the MacroDone event, sent ahead of everything, never reaches a
\* macro other than the one that ended (inputstate.go commandWaiting.Exit).
MacroRunsToItsEnd ==
    [][macroState = "running" /\ macroState' = "nothing"
         => fev.type = "InterruptMacro" \/ macro = <<>>]_portVars

\* The port implements the request service: a request is answered once, by a
\* command of its kind or by an error with a reason, and Wait, Command and
\* the others never answer anything after the port refused them.
Asked == IF gpc \in {"sync", "observe", "prepare", "select", "broadcast", "join"}
           THEN call.kind ELSE "none"
Service == INSTANCE InputRequest
                WITH asked <- Asked, timed <- call.timed
RequestService == Service!Spec

\* A quit event on the deque closes the port, whatever is ahead of it, and a
\* closed port releases the game: a call in progress returns.
QuitCloses == (\E i \in 1..Len(ebuf) : ebuf[i].type = "Quit") ~> closed
CloseReleases == closed /\ gpc # "ended" ~> gpc \in {"idle", "ended"}
QuitReleases == QuitCloses /\ CloseReleases

\* A call with a timeout returns, even CommandNumber that asks again and again.
TimedCallReturns == Asked # "none" /\ call.timed ~> Asked = "none"

\* The user can always answer: a command sent after a request's Start event
\* ends a Wait or a Command (the state the filter is in may be another
\* request's, since Stop events overtake Start events on the deque).
SentAfterStart(t) ==
    \E j \in 1..Len(ebuf) :
        ebuf[j].type = t /\ \A i \in 1..Len(ebuf) : ebuf[i].type \in StartTypes => i < j
CommandAnswers ==
    Asked \in {"wait", "command"} /\ gpc # "sync" /\ SentAfterStart("Command")
        ~> Asked = "none"
=============================================================================
