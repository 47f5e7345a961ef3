----------------------------- MODULE MobileApp ------------------------------
(***************************************************************************)
(* The life of a game in an application on the mobile side                 *)
(* (mobile/model/v2/erago.go): Init builds the pipeline of the output, Main *)
(* starts the game thread, Quit ends both.  One game is played.            *)
(***************************************************************************)
EXTENDS Pipeline

VARIABLE mainDone   \* the global channel of that name: nil, open or closed

vars == << pipeVars, mainDone >>

Init == PipeInit /\ mainDone = "nil"

(***************************************************************************)
(* The thread of the application.                                          *)
(***************************************************************************)
\* (mutant) the context of a game that could not be initialised is kept
StartsUncancelled == /\ At("app", "off")
                     /\ \E ok \in BOOLEAN :
                          pc' = [t \in Threads |-> CASE t = "game" -> "off"
                                                      [] t = "app"  -> IF ok THEN "open" ELSE "failed"
                                                      [] OTHER      -> "select"]
                     /\ UNCHANGED << out, taskVars, loopVars, lineVars, idVars, callVars, mainDone >>

\* newUIAdapter starts the loopers and the throttle loop; the editor gets its
\* callback before the game is there.  When the game cannot be initialised the
\* context is cancelled.
Starts == /\ At("app", "off")
          /\ \E ok \in BOOLEAN :
               /\ pc' = [t \in Threads |-> CASE t = "game" -> "off"
                                             [] t = "app"  -> IF ok THEN "open" ELSE "failed"
                                             [] OTHER      -> "select"]
               /\ ctxDone' = ~ok
          /\ UNCHANGED << out, taskVars, closedE, closedT, thrClosed, lineVars, idVars, callVars, mainDone >>

Main == /\ At("app", "open") /\ At("game", "off")
        /\ Go("game", "run") /\ mainDone' = "open"
        /\ UNCHANGED << out, taskVars, loopVars, lineVars, idVars, callVars >>

\* Game.Quit closes the game's input port
Quit == /\ At("app", "open")
        /\ Go("app", "wait")
        /\ UNCHANGED << out, taskVars, loopVars, lineVars, idVars, callVars, mainDone >>

\* Editor.Close: a synchronous task
ClosesEditor == /\ At("app", "wait")
                /\ Go("app", "sendE") /\ Sends("app", Message("close", nextE, "app")) /\ nextE' = nextE + 1
                /\ mainDone' = "nil"
                /\ UNCHANGED << taskVars, loopVars, lineVars, nextT, callVars >>

\* the game was never started, or it has ended
SeesEnd == mainDone # "open" /\ ClosesEditor

\* it is given up after three seconds
Overruns == mainDone = "open" /\ ClosesEditor

\* CallbackThrottler.Close
ClosesThrottler == /\ At("app", "thrClose")
                   /\ Go("app", "thrWait") /\ thrClosed' = TRUE /\ closedT' = TRUE
                   /\ UNCHANGED << out, taskVars, closedE, ctxDone, lineVars, idVars, callVars, mainDone >>

\* the throttle loop has ended; logCloseFunc cancels the context
Cancels == /\ At("app", "thrWait") /\ At("loop", "gone")
           /\ Go("app", "closed") /\ ctxDone' = TRUE
           /\ UNCHANGED << out, taskVars, closedE, closedT, thrClosed, lineVars, idVars, callVars, mainDone >>

App == Starts \/ Main \/ Quit \/ SeesEnd \/ Overruns \/ ClosesThrottler \/ Cancels

(***************************************************************************)
(* The game thread.                                                        *)
(***************************************************************************)
GameCalls == (GamePrints \/ GameSets \/ GameSyncs \/ GameGets \/ GameTells) /\ UNCHANGED mainDone

\* Game.Main returns, by itself or as its input port is closed
GameEnds == /\ At("game", "run")
            /\ Go("game", "ending")
            /\ UNCHANGED << out, taskVars, loopVars, lineVars, idVars, callVars, mainDone >>

\* close(mainDone): the channel that the global variable holds by now; a nil
\* channel is a panic, which ends the application
GameCloses == /\ At("game", "ending")
              /\ IF mainDone = "nil" THEN Go("game", "panic") /\ UNCHANGED mainDone
                                     ELSE Go("game", "notify") /\ mainDone' = "closed"
              /\ UNCHANGED << out, taskVars, loopVars, lineVars, idVars, callVars >>

\* AppContext.NotifyQuit
Notifies == /\ At("game", "notify")
            /\ Go("game", "notified")
            /\ UNCHANGED << out, taskVars, loopVars, lineVars, idVars, callVars, mainDone >>

Pipes == (Editor \/ Loop \/ Looper \/ Refused \/ Deadline) /\ UNCHANGED mainDone

crashed == At("game", "panic")

Next == ~crashed /\ (App \/ GameCalls \/ GameEnds \/ GameCloses \/ Notifies \/ Pipes)

Spec == Init /\ [][Next]_vars

(***************************************************************************)
(* Fairness: goroutines run; the queue of a channel is first in, first     *)
(* out, and a select takes each of its ready cases at some time; Quit      *)
(* waits three seconds at most, and a game whose input port is closed ends *)
(* (its next request fails, or the watch dog ends its script).  Nothing    *)
(* makes Quit happen, the game call or the UI answer without an error, and *)
(* nothing makes the first deadline pass: until then no call relies on it. *)
(***************************************************************************)
Alive == ~crashed /\ UNCHANGED mainDone

FairSpec ==
  /\ Spec
  /\ WF_vars(Alive /\ Editor) /\ WF_vars(Alive /\ Looper) /\ WF_vars(Alive /\ Loop)
  /\ SF_vars(Alive /\ (LoopTakes \/ LooperTakes("game") \/ LooperTakes("editor")))
  /\ WF_vars(Alive /\ (Refused \/ (late /\ Deadline)))
  /\ WF_vars(~crashed /\ (SeesEnd \/ Overruns \/ ClosesThrottler \/ Cancels))
  /\ WF_vars(~crashed /\ ~At("app", "open") /\ GameEnds)
  /\ WF_vars(~crashed /\ (GameCloses \/ Notifies))

(***************************************************************************)
(* Properties.                                                             *)
(***************************************************************************)
Tasks == {"none", "print", "set", "sync", "get", "close", "add", "temporary", "request", "publish"}
Messages == [task : Tasks, n : Nat, by : Threads]

Places == [game   |-> {"off", "run", "sendE", "waitE", "sendT", "sendL", "waitT", "ending", "panic", "notify", "notified"},
           app    |-> {"off", "failed", "open", "wait", "sendE", "waitE", "thrClose", "thrWait", "closed"},
           editor |-> {"off", "select", "sendT", "sendL", "waitT", "done", "gone"},
           loop   |-> {"off", "select", "sendT", "gone"},
           looper |-> {"off", "select", "task", "closing", "done", "gone"}]

\* The variables have their types, and what waits for its publication is unseen.
TypeOK ==
  /\ DOMAIN pc = Threads /\ \A t \in Threads : pc[t] \in Places[t]
  /\ out \in [Threads -> Messages] /\ emsg \in Messages /\ tmsg \in Messages
  /\ todo \in Nat
  /\ {eErr, closedE, closedT, thrClosed, ctxDone, late} \subseteq BOOLEAN
  /\ nextE \in Nat /\ nextT \in Nat /\ prints \in 0..MaxPrints /\ waits \in 0..MaxWaits
  /\ unseen \in Nat /\ pending \in 0..unseen
  /\ res \in {"ok", "synced", "error"}
  /\ mainDone \in {"nil", "open", "closed"}

\* Sync `flushes any pending output result' (editor.go:330): when it returns
\* without an error, the UI has been given every paragraph the game had
\* printed, through both loopers and whatever ticks, deadlines of earlier calls
\* and completions that nobody took came in between.
SyncDelivers == res = "synced" /\ At("game", "run") => unseen = 0

\* An error of the UI is not swallowed: paragraphs are lost only together with
\* the looper that had them, and from then on the calls of the game fail
\* (handleLooperError, editor.go:131).
InFlight == todo + (IF tmsg.task = "add" THEN 1 ELSE 0) + pending
LossClosesLooper == unseen # InFlight => closedE

\* Each call of the game returns, without any of their deadlines: whatever the
\* UI fails at, in whatever order the loopers are closed (sendAndWait,
\* editor.go:159; OnSync, callback_throttler.go:216).
InCall == pc["game"] \in {"sendE", "waitE", "sendT", "sendL", "waitT"}
CallsReturn == InCall /\ ~late ~> ~InCall \/ late

\* Quit comes to its end, and with it every goroutine, whether the game was
\* running, waiting, ending, or never started; a failed Init leaves none behind.
\* The throttler's Close never needs its three seconds, also when a task of the
\* looper calls it to which the throttle loop is sending
\* (Quit, erago.go:258; callback_throttler.go:94).
EverythingEnds ==
  pc["app"] \in {"wait", "failed"} ~>
    \/ crashed
    \/ pc["app"] \in {"closed", "failed"} /\ \A t \in {"editor", "loop", "looper"} : At(t, "gone")

\* Nothing that the game has printed disappears unnoticed.
NothingSwallowed == TypeOK /\ SyncDelivers /\ LossClosesLooper
=============================================================================
