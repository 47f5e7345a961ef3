------------------------------ MODULE WatchDog ------------------------------
(***************************************************************************)
(* The watch dog of infra/script: a goroutine that owns a timer and takes  *)
(* commands over an unbuffered channel; the interpreter's callByParam,     *)
(* which restarts the timer when a script begins, stops it when it ends    *)
(* and leaves a listener goroutine that cancels the script's context when  *)
(* the timer expires; the input functions, which stop the timer while the  *)
(* user is asked; and the functions of the flow module, which go back to   *)
(* the platform, where the user may be asked and other scripts called.     *)
(*                                                                         *)
(* Calls are numbered by their depth. A context is cancelled when it or    *)
(* one below it in the stack of calls is. A listener whose call is over is *)
(* stale: its context is cancelled, but until it has seen that it may      *)
(* still be the one that receives the expiry.                              *)
(***************************************************************************)
EXTENDS Integers

CONSTANTS
    MaxDepth,      \* bound: script calls nested through the flow module
    MaxListeners,  \* bound: listener goroutines, stale ones included
    FlowCalls,     \* may scripts call the flow module?
    MayCancel      \* may the parent context end first (Testing's timeout)?

ASSUME DepthAssumption ==
    MaxDepth \in Nat \ {0} /\ MaxListeners \in Nat
ASSUME ModeAssumption ==
    FlowCalls \in BOOLEAN /\ MayCancel \in BOOLEAN

VARIABLES
    dpc,        \* where the watch dog goroutine is
    dcmd,       \* the command it has received
    timer,      \* wdt.timer: stopped, armed, or expired with its tick unread
    running,    \* wdt.running
    expClosed,  \* wdt.timerExpired is closed
    gpc,        \* where the game thread is
    gcmd,       \* the command of the Stop or Reset it is in
    gnext,      \* where it goes after that
    aborted,    \* the script that ends was ended by its context
    depth,      \* calls of callByParam in progress
    cancelled,  \* depths whose context is cancelled, 0 for the parent
    listener,   \* the listener goroutine of each call in progress
    stale,      \* listener goroutines of calls that are over
    outcome     \* what the last call returned to its caller

dogVars  == <<dpc, dcmd, timer, running, expClosed>>
gameVars == <<gpc, gcmd, gnext, aborted, depth, outcome>>
vars == <<dogVars, gameVars, cancelled, listener, stale>>

Levels  == 1..MaxDepth

Init ==
    /\ dpc = "off" /\ dcmd = "stop" /\ timer = "stopped"
    /\ running = FALSE /\ expClosed = FALSE
    /\ gpc = "start" /\ gcmd = "stop" /\ gnext = "out"
    /\ aborted = FALSE /\ depth = 0 /\ outcome = "none"
    /\ cancelled = {} /\ listener = [d \in Levels |-> "none"] /\ stale = 0

\* is the context of the call at depth d done?
Done(d) == \E i \in cancelled : i <= d

\* the game thread calls Stop or Reset, and goes on at `next' afterwards
Command(cmd, next) == gpc' = "check" /\ gcmd' = cmd /\ gnext' = next

-----------------------------------------------------------------------------
(* The watch dog goroutine and its timer.                                  *)

\* SetContext's Stop comes well within the timeout of Run, and a script's
\* listener is there well within the timeout of its Reset.
Starting == \/ gpc = "spawn"
            \/ gpc \in {"check", "checked", "send"} /\ gnext = "out"

Elapse ==
    /\ timer = "armed" /\ ~Starting
    /\ timer' = "expired"
    /\ UNCHANGED <<dpc, dcmd, running, expClosed, gameVars, cancelled, listener,
                   stale>>

DogTakesCommand ==
    /\ dpc = "select" /\ gpc = "send"
    /\ dpc' = "handle" /\ dcmd' = gcmd
    /\ gpc' = gnext
    /\ UNCHANGED <<timer, running, expClosed, gcmd, gnext, aborted, depth,
                   outcome, cancelled, listener, stale>>

DogHandles ==
    /\ dpc = "handle"
    /\ timer' = IF dcmd = "reset" THEN "armed" ELSE "stopped"
    /\ dpc' = "select"
    /\ UNCHANGED <<dcmd, running, expClosed, gameVars, cancelled, listener, stale>>

DogTakesQuit ==
    /\ dpc = "select" /\ gpc = "quit"
    /\ dpc' = "leave" /\ gpc' = "ended"
    /\ UNCHANGED <<dcmd, timer, running, expClosed, gcmd, gnext, aborted, depth,
                   outcome, cancelled, listener, stale>>

\* case <-ctx.Done()
DogSeesContext ==
    /\ dpc = "select" /\ 0 \in cancelled
    /\ dpc' = "leave"
    /\ UNCHANGED <<dcmd, timer, running, expClosed, gameVars, cancelled,
                   listener, stale>>

\* case <-wdt.timer.C: it now blocks until somebody listens to the expiry
DogSeesTimer ==
    /\ dpc = "select" /\ timer = "expired"
    /\ timer' = "stopped" /\ dpc' = "notify"
    /\ UNCHANGED <<dcmd, running, expClosed, gameVars, cancelled, listener, stale>>

DogCloses ==
    /\ dpc = "close"
    /\ expClosed' = TRUE /\ dpc' = "leave"
    /\ UNCHANGED <<dcmd, timer, running, gameVars, cancelled, listener, stale>>

\* the deferred running.Store(false)
DogLeaves ==
    /\ dpc = "leave"
    /\ running' = FALSE /\ dpc' = "drain"
    /\ UNCHANGED <<dcmd, timer, expClosed, gameVars, cancelled, listener, stale>>

\* the deferred drainCommand: a command that is being sent is dropped
DogDrops ==
    /\ dpc = "drain" /\ gpc \in {"send", "quit"}
    /\ gpc' = IF gpc = "send" THEN gnext ELSE "ended"
    /\ UNCHANGED <<dogVars, gcmd, gnext, aborted, depth, outcome, cancelled,
                   listener, stale>>


\* ... until none is; then the deferred close(quit)
DogEnds ==
    /\ dpc = "drain" /\ gpc \notin {"send", "quit"}
    /\ dpc' = "gone"
    /\ UNCHANGED <<dcmd, timer, running, expClosed, gameVars, cancelled,
                   listener, stale>>

Dog == \/ DogTakesCommand \/ DogHandles \/ DogTakesQuit \/ DogSeesContext
       \/ DogSeesTimer \/ DogCloses \/ DogLeaves \/ DogDrops \/ DogEnds

-----------------------------------------------------------------------------
(* The listener goroutines.                                                *)

\* <-Expired(): the one notification, or the closed channel
ListenerHears(d) ==
    /\ d \in 1..depth /\ listener[d] = "waiting"
    /\ \/ dpc = "notify" /\ dpc' = "close"
       \/ expClosed /\ UNCHANGED dpc
    /\ listener' = [listener EXCEPT ![d] = "told"]
    /\ UNCHANGED <<dcmd, timer, running, expClosed, gameVars, cancelled, stale>>

ListenerCancels(d) ==
    /\ d \in 1..depth /\ listener[d] = "told"
    /\ cancelled' = cancelled \cup {d}
    /\ listener' = [listener EXCEPT ![d] = "none"]
    /\ UNCHANGED <<dogVars, gameVars, stale>>

ListenerLeaves(d) ==
    /\ d \in 1..depth /\ listener[d] = "waiting" /\ Done(d)
    /\ listener' = [listener EXCEPT ![d] = "none"]
    /\ UNCHANGED <<dogVars, gameVars, cancelled, stale>>

\* a stale listener cancels what is cancelled already, or just leaves
StaleLeaves ==
    /\ stale > 0
    /\ stale' = stale - 1
    /\ dpc' \in {dpc} \cup (IF dpc = "notify" THEN {"close"} ELSE {})
    /\ UNCHANGED <<dcmd, timer, running, expClosed, gameVars, cancelled, listener>>

Listeners ==
    \/ \E d \in Levels : ListenerHears(d) \/ ListenerCancels(d) \/ ListenerLeaves(d)
    \/ StaleLeaves

-----------------------------------------------------------------------------
(* The game thread: Stop and Reset, SetContext, callByParam, Quit.         *)

\* the body of Stop and of Reset: a check of `running', then a blocking send
Checks ==
    /\ gpc = "check"
    /\ gpc' = IF running THEN "checked" ELSE gnext
    /\ UNCHANGED <<dogVars, gcmd, gnext, aborted, depth, outcome, cancelled,
                   listener, stale>>

Sends ==
    /\ gpc = "checked"
    /\ gpc' = "send"
    /\ UNCHANGED <<dogVars, gcmd, gnext, aborted, depth, outcome, cancelled,
                   listener, stale>>

\* Run starts the timer and the goroutine; Stop follows
SetContext ==
    /\ gpc = "start"
    /\ timer' = "armed" /\ running' = TRUE /\ dpc' = "select"
    /\ Command("stop", "out")
    /\ UNCHANGED <<dcmd, expClosed, aborted, depth, outcome, cancelled, listener,
                   stale>>

\* callByParam: a context of its own, then Reset
Calls ==
    /\ gpc = "out" /\ depth < MaxDepth /\ depth + stale < MaxListeners
    /\ depth' = depth + 1
    /\ outcome' = "none"
    /\ Command("reset", "spawn")
    /\ UNCHANGED <<dogVars, aborted, cancelled, listener, stale>>

Spawns ==
    /\ gpc = "spawn"
    /\ listener' = [listener EXCEPT ![depth] = "waiting"]
    /\ gpc' = "script"
    /\ UNCHANGED <<dogVars, gcmd, gnext, aborted, depth, outcome, cancelled, stale>>

\* (mutant) input functions do not stop the timer
AsksWithoutStop ==
    /\ gpc = "script" /\ ~Done(depth)
    /\ gpc' = "input"
    /\ UNCHANGED <<dogVars, gcmd, gnext, aborted, depth, outcome, cancelled,
                   listener, stale>>

\* an input function of the era module, wrapped by KeepAliveFuncCall
CallsInput ==
    /\ gpc = "script" /\ ~Done(depth)
    /\ Command("stop", "input")
    /\ UNCHANGED <<dogVars, aborted, depth, outcome, cancelled, listener, stale>>

\* (mutant) the timer is not restarted after an input function
InputForgetsReset ==
    /\ gpc = "input"
    /\ gpc' = "script"
    /\ UNCHANGED <<dogVars, gcmd, gnext, aborted, depth, outcome, cancelled,
                   listener, stale>>

InputReturns ==
    /\ gpc = "input"
    /\ Command("reset", "script")
    /\ UNCHANGED <<dogVars, aborted, depth, outcome, cancelled, listener, stale>>

\* saveScene, loadScene, doTrains: the script is left for the platform
CallsFlow ==
    /\ gpc = "script" /\ ~Done(depth) /\ FlowCalls
    /\ gpc' = "out"
    /\ UNCHANGED <<dogVars, gcmd, gnext, aborted, depth, outcome, cancelled,
                   listener, stale>>

FlowReturns ==
    /\ gpc = "out" /\ depth > 0
    /\ gpc' = "script"
    /\ UNCHANGED <<dogVars, gcmd, gnext, aborted, depth, outcome, cancelled,
                   listener, stale>>

\* a scene asks the user through its IOController
SceneAsks ==
    /\ gpc = "out"
    /\ gpc' = "asking"
    /\ UNCHANGED <<dogVars, gcmd, gnext, aborted, depth, outcome, cancelled,
                   listener, stale>>

SceneAnswered ==
    /\ gpc = "asking"
    /\ gpc' = "out"
    /\ UNCHANGED <<dogVars, gcmd, gnext, aborted, depth, outcome, cancelled,
                   listener, stale>>

\* the script returns or fails, perhaps just after its context ended; the
\* deferred Stop is the first to run
ScriptEnds ==
    /\ gpc = "script"
    /\ aborted' = FALSE
    /\ Command("stop", "return")
    /\ UNCHANGED <<dogVars, depth, outcome, cancelled, listener, stale>>

\* the virtual machine ends the script since its context is done
ScriptAborts ==
    /\ gpc = "script" /\ Done(depth)
    /\ aborted' = TRUE
    /\ Command("stop", "return")
    /\ UNCHANGED <<dogVars, depth, outcome, cancelled, listener, stale>>

\* extendPcall asks IsExpired before it raises the error again
PcallAsks ==
    /\ gpc = "script" /\ Done(depth) /\ dpc = "notify"
    /\ dpc' = "close"
    /\ UNCHANGED <<dcmd, timer, running, expClosed, gameVars, cancelled,
                   listener, stale>>

\* the deferred restoring of the parent's context, and cancel()
CallReturns ==
    /\ gpc = "return"
    /\ depth' = depth - 1
    /\ cancelled' = cancelled \ {depth}
    /\ stale' = stale + (IF listener[depth] = "none" THEN 0 ELSE 1)
    /\ listener' = [listener EXCEPT ![depth] = "none"]
    /\ gpc' = IF aborted THEN "classify" ELSE "out"
    /\ UNCHANGED <<dogVars, gcmd, gnext, aborted, outcome>>

\* checkSpecialError: IsExpired decides what a cancelled script is taken for,
\* and may itself be the one that receives the expiry; an error ends the game,
\* or the script that called the flow module
Classifies ==
    /\ gpc = "classify"
    /\ outcome' = IF expClosed \/ dpc = "notify" THEN "expired" ELSE "cancelled"
    /\ dpc' = IF dpc = "notify" /\ ~expClosed THEN "close" ELSE dpc
    /\ gpc' = IF depth = 0 THEN "quitting" ELSE "out"
    /\ UNCHANGED <<dcmd, timer, running, expClosed, gcmd, gnext, aborted, depth,
                   cancelled, listener, stale>>

GameOver ==
    /\ gpc = "out" /\ depth = 0
    /\ gpc' = "quitting"
    /\ UNCHANGED <<dogVars, gcmd, gnext, aborted, depth, outcome, cancelled,
                   listener, stale>>

\* Quit: a check of `running', then a select
Quits ==
    /\ gpc = "quitting"
    /\ gpc' = IF running THEN "quitchecked" ELSE "ended"
    /\ UNCHANGED <<dogVars, gcmd, gnext, aborted, depth, outcome, cancelled,
                   listener, stale>>

QuitSelects ==
    /\ gpc = "quitchecked"
    /\ gpc' = "quit"
    /\ UNCHANGED <<dogVars, gcmd, gnext, aborted, depth, outcome, cancelled,
                   listener, stale>>

\* case <-wdt.quit
QuitSeesEnd ==
    /\ gpc = "quit" /\ dpc = "gone"
    /\ gpc' = "ended"
    /\ UNCHANGED <<dogVars, gcmd, gnext, aborted, depth, outcome, cancelled,
                   listener, stale>>

\* the parent's context: cancelled by Game.main at its end, by Testing at any time
ContextEnds ==
    /\ 0 \notin cancelled
    /\ gpc = "ended" \/ (MayCancel /\ gpc # "start")
    /\ cancelled' = cancelled \cup {0}
    /\ UNCHANGED <<dogVars, gameVars, listener, stale>>

\* what the game thread does by itself
Platform == \/ Checks \/ Sends \/ SetContext \/ Spawns \/ ScriptAborts \/ CallReturns
            \/ Classifies \/ Quits \/ QuitSelects \/ QuitSeesEnd

\* what scripts, scenes and the user may do
Script == \/ Calls \/ CallsInput \/ InputReturns \/ CallsFlow \/ FlowReturns
          \/ SceneAsks \/ SceneAnswered \/ ScriptEnds \/ PcallAsks \/ GameOver

Next == Dog \/ Elapse \/ Listeners \/ Platform \/ Script \/ ContextEnds

\* Goroutines are scheduled and time passes; scripts may run forever, and the
\* user may never answer.
Fairness == WF_vars(Dog) /\ WF_vars(Elapse) /\ WF_vars(Platform)
            /\ WF_vars(StaleLeaves)
            /\ \A d \in Levels : WF_vars(ListenerHears(d) \/ ListenerCancels(d)
                                           \/ ListenerLeaves(d))

Spec     == Init /\ [][Next]_vars
FairSpec == Spec /\ Fairness

-----------------------------------------------------------------------------
(* Properties.                                                             *)

DogPlaces  == {"off", "select", "handle", "notify", "close", "leave", "drain",
               "gone"}
AfterStop  == {"out", "input", "return"}
AfterReset == {"spawn", "script"}
GamePlaces == AfterStop \cup AfterReset
                \cup {"start", "check", "checked", "send", "asking", "classify", "quitting",
                      "quitchecked", "quit", "ended"}

\* Every variable has a value of its type.
TypeOK ==
    /\ dpc \in DogPlaces /\ dcmd \in {"stop", "reset"}
    /\ timer \in {"stopped", "armed", "expired"}
    /\ running \in BOOLEAN /\ expClosed \in BOOLEAN
    /\ gpc \in GamePlaces /\ gcmd \in {"stop", "reset"}
    /\ gnext \in AfterStop \cup AfterReset
    /\ aborted \in BOOLEAN
    /\ depth \in 0..MaxDepth
    /\ cancelled \subseteq 0..MaxDepth
    /\ listener \in [Levels -> {"none", "waiting", "told"}]
    /\ stale \in Nat
    /\ outcome \in {"none", "expired", "cancelled"}

\* The watch dog never expires on anybody but a script: not while an input
\* function asks the user, and not while no script is called - where nobody
\* would listen and the goroutine would be stuck (KeepAliveFuncCall, and the
\* Stop of SetContext and of callByParam).
NoExpiryUnwatched ==
    gpc = "input" \/ (gpc \in {"out", "asking"} /\ depth = 0) => dpc # "notify"

\* A script that the watch dog ended is reported as one that took too long,
\* whatever the order in which the listener, the goroutine and the game
\* thread go on after the expiry; "cancelled" is for the parent's context.
ExpiryReported ==
    outcome = "cancelled" => 0 \in cancelled

\* Quit never meets a goroutine that is stuck in a notification nobody hears,
\* where its five seconds would pass ("Never Quit. please report to
\* developer", watchdogtimer.go:93).
QuitNeverPanics == gpc \in {"quitchecked", "quit"} => dpc # "notify"

\* When the interpreter quits, its game thread gets past Quit and the
\* goroutine of the watch dog ends.
QuitEnds ==
    gpc \in {"quitting", "quitchecked", "quit"} ~> gpc = "ended" /\ dpc \in {"off", "gone"}

\* No script runs forever: the watch dog is always armed again, after each
\* input function, so a script that never returns is ended (SetContext,
\* interpreter.go:136).  Only a script called by a scene that another script
\* entered through the flow module stops the timer under the outer one.
NoRunaway == []<>(gpc # "script") \/ <>(depth > 1)

\* The timer expires on a script only, the expiry is told, and ending the game
\* does not race it.
DogSafe == NoExpiryUnwatched /\ ExpiryReported /\ QuitNeverPanics
=============================================================================
