------------------------------ MODULE Pipeline ------------------------------
(***************************************************************************)
(* The goroutines between a game and its UI on the mobile side: the looper *)
(* of publisher.Editor, which runs the tasks of the game's output calls,   *)
(* the throttle loop of the CallbackThrottler, which asks for publications *)
(* on a tick or for a synchronisation, and the throttler's looper, which   *)
(* runs its tasks and calls the UI.                                        *)
(*                                                                         *)
(* All channels are unbuffered: a message is passed when its sender and    *)
(* its receiver meet.  A select that finds a looper closed does not meet   *)
(* anybody: whoever was parked was woken by the close.  What is written    *)
(* is only counted; TextPipe and PendingEvents say what it is.             *)
(***************************************************************************)
EXTENDS Integers

CONSTANTS
  MaxPrints,  \* bound: asynchronous calls of the game
  MaxWaits,   \* bound: calls it waits for
  Sizes,      \* bound: the numbers of paragraphs that one call writes
  MayFail,    \* may a callback of the UI return an error?
  Slow        \* may deadlines of calls pass?

ASSUME PipelineAssumption == /\ {MaxPrints, MaxWaits} \subseteq Nat /\ Sizes \subseteq Nat \ {0}
                             /\ {MayFail, Slow} \subseteq BOOLEAN

\* the game thread, the thread of the application, and the three goroutines
Threads == {"game", "app", "editor", "loop", "looper"}

VARIABLES
  pc,         \* where each thread is
  out,        \* the message a thread sends, or waits for the completion of
  emsg, tmsg, \* the message the editor's looper, and the throttler's, works on
  todo,       \* the paragraphs the editor's task has still to publish
  eErr,       \* taskErr of the editor's synchronous task
  closedE, closedT, \* closeCh of the two loopers
  thrClosed,  \* closeCh of the throttler
  ctxDone,    \* the context of the game is cancelled
  nextE, nextT,     \* currentSyncID of editor and throttler
  unseen,     \* paragraphs the editor's looper took from the game that the UI was not given
  pending,    \* of these, in pendingEvents
  res,        \* what the last output call of the game returned; of Sync, "synced"
  prints, waits, \* how many calls it made
  late        \* the deadline of a call has passed

taskVars == << emsg, tmsg, todo, eErr >>
loopVars == << closedE, closedT, thrClosed, ctxDone >>
lineVars == << unseen, pending >>
idVars   == << nextE, nextT >>
callVars == << res, prints, waits, late >>
pipeVars == << pc, out, taskVars, loopVars, lineVars, idVars, callVars >>

\* n: the ID of a synchronous task, the paragraphs of one that writes
Message(task, n, by) == [task |-> task, n |-> n, by |-> by]
Nothing == Message("none", 0, "app")

PipeInit ==
  /\ pc = [t \in Threads |-> "off"] /\ out = [t \in Threads |-> Nothing]
  /\ emsg = Nothing /\ tmsg = Nothing /\ todo = 0 /\ eErr = FALSE
  /\ closedE = FALSE /\ closedT = FALSE /\ thrClosed = FALSE /\ ctxDone = FALSE
  /\ nextE = 0 /\ nextT = 1
  /\ unseen = 0 /\ pending = 0
  /\ res = "ok" /\ prints = 0 /\ waits = 0 /\ late = FALSE

At(t, l) == pc[t] = l
Go(t, l) == pc' = [pc EXCEPT ![t] = l]
Sends(t, m) == out' = [out EXCEPT ![t] = m]

-----------------------------------------------------------------------------
(***************************************************************************)
(* The calls of the game.                                                  *)
(***************************************************************************)
Async == {"print", "set"}

Calls(m, to) == /\ At("game", "run")
                /\ IF m.task \in Async THEN prints < MaxPrints /\ prints' = prints + 1 /\ UNCHANGED waits
                                       ELSE waits < MaxWaits /\ waits' = waits + 1 /\ UNCHANGED prints
                /\ Go("game", to) /\ Sends("game", m)

\* Print, PrintLine, NewPage, ClearLine: an asynchronous task, which passes some
\* paragraphs or removals to the throttler
GamePrints == \E n \in Sizes :
                /\ Calls(Message("print", n, "game"), "sendE")
                /\ UNCHANGED << taskVars, loopVars, lineVars, idVars, res, late >>

\* PrintButton, PrintImage, SetColor and the like change the open paragraph only
GameSets == /\ Calls(Message("set", 0, "game"), "sendE")
            /\ UNCHANGED << taskVars, loopVars, lineVars, idVars, res, late >>

Waits(what) == /\ Calls(Message(what, nextE, "game"), "sendE")
               /\ nextE' = nextE + 1
               /\ UNCHANGED << taskVars, loopVars, lineVars, nextT, res, late >>

\* Sync: a synchronous task that passes the open paragraph on and calls OnSync
GameSyncs == Waits("sync")

\* WindowRuneWidth and the other calls that ask something: a synchronous task
\* that needs the editor only
GameGets == Waits("get")

\* OnRequestChanged
GameTells == /\ Calls(Message("request", 0, "game"), "sendT")
             /\ UNCHANGED << taskVars, loopVars, lineVars, idVars, res, late >>

\* what a thread does when its call ends early
GivesUp(t) == /\ Sends(t, Nothing)
              /\ \/ t = "game" /\ Go("game", "run") /\ res' = "error" /\ UNCHANGED eErr
                 \/ t = "app" /\ Go("app", "thrClose") /\ UNCHANGED << eErr, res >>
                 \/ t = "editor" /\ Go("editor", "done") /\ eErr' = TRUE /\ UNCHANGED res

\* send and sendAndWait find the looper closed or the context done
EditorRefuses(t) == (At(t, "sendE") \/ At(t, "waitE")) /\ (closedE \/ ctxDone)

\* so does OnRequestChanged, which only logs it
RequestRefused(t) == At(t, "sendT") /\ t = "game" /\ (closedT \/ ctxDone)

\* (mutant) a throttle loop that has ended is not noticed
SyncUnaware(t) == (At(t, "sendL") \/ At(t, "waitT")) /\ ctxDone

\* OnSync finds the throttler ended, its looper closed or the context done
SyncRefused(t) == \/ At(t, "sendL") /\ (At("loop", "gone") \/ ctxDone)
                  \/ At(t, "waitT") /\ (closedT \/ ctxDone)

Refused == \E t \in {"game", "app", "editor"} :
             /\ EditorRefuses(t) \/ RequestRefused(t) \/ SyncRefused(t)
             /\ GivesUp(t)
             /\ UNCHANGED << emsg, tmsg, todo, loopVars, lineVars, idVars, prints, waits, late >>

\* the three seconds of send and sendAndWait, or the five of OnSync, are over
Deadline == \E t \in {"game", "app", "editor"} :
              /\ Slow /\ pc[t] \in {"sendE", "waitE", "sendL", "waitT"}
              /\ GivesUp(t) /\ late' = TRUE
              /\ UNCHANGED << emsg, tmsg, todo, loopVars, lineVars, idVars, prints, waits >>

-----------------------------------------------------------------------------
(***************************************************************************)
(* The editor's looper.                                                    *)
(***************************************************************************)
\* the looper waits for its next message
EditorRests == Go("editor", "select") /\ emsg' = Nothing /\ todo' = 0 /\ eErr' = FALSE

\* a message is taken, and its task runs up to where it needs the throttler:
\* one paragraph after the other is passed on, by Sync the open one as it is;
\* the task of Close closes the looper
EditorTakes == \E t \in {"game", "app"} :
  LET m == out[t]
      Runs(place, sends) == /\ pc' = [pc EXCEPT !["editor"] = place, ![t] = IF m.task \in Async THEN "run" ELSE "waitE"]
                            /\ out' = [out EXCEPT !["editor"] = sends, ![t] = IF m.task \in Async THEN Nothing ELSE m]
                            /\ emsg' = m /\ todo' = IF m.task = "print" THEN m.n ELSE 0
  IN /\ At(t, "sendE") /\ At("editor", "select") /\ ~closedE /\ ~ctxDone
     /\ \/ m.task = "set" /\ Go(t, "run") /\ Sends(t, Nothing) /\ UNCHANGED << emsg, todo >>
        \/ m.task = "print" /\ Runs("sendT", Message("add", 0, "editor"))
        \/ m.task = "sync" /\ Runs("sendT", Message("temporary", 0, "editor"))
        \/ m.task \in {"get", "close"} /\ Runs("done", Nothing)
     /\ closedE' = (m.task = "close")
     /\ unseen' = IF m.task = "print" THEN unseen + m.n ELSE unseen
     /\ res' = IF m.task \in Async THEN "ok" ELSE res
     /\ UNCHANGED << tmsg, eErr, closedT, thrClosed, ctxDone, pending, idVars, prints, waits, late >>

\* the throttler does not take it: a task that fails closes the looper, but Sync returns the error
EditorFails ==
  /\ At("editor", "sendT") /\ (closedT \/ ctxDone)
  /\ Sends("editor", Nothing)
  /\ \/ /\ emsg.task = "print"
        /\ EditorRests /\ closedE' = TRUE
     \/ /\ emsg.task = "sync"
        /\ Go("editor", "done") /\ eErr' = TRUE /\ UNCHANGED << emsg, todo, closedE >>
  /\ UNCHANGED << tmsg, closedT, thrClosed, ctxDone, lineVars, idVars, callVars >>

\* WaitDone drops the completion of another message and waits on
IsFor(m, t) == out[t].n = m.n

\* the one who waits has given up, or waits for another message
Abandoned(m, l) == ~(At(m.by, l) /\ IsFor(m, m.by))

\* sendDone: the completion is received, or given up as nobody waits for it any more
EditorDone ==
  /\ At("editor", "done")
  /\ \/ \E t \in {"game", "app"} :
          /\ At(t, "waitE") /\ ~closedE /\ ~ctxDone
          /\ IF IsFor(emsg, t)
               THEN /\ pc' = [pc EXCEPT !["editor"] = "select", ![t] = IF t = "game" THEN "run" ELSE "thrClose"]
                    /\ res' = IF t = "app" THEN res ELSE IF eErr THEN "error" ELSE IF emsg.task = "sync" THEN "synced" ELSE "ok"
                    /\ Sends(t, Nothing)
               ELSE Go("editor", "select") /\ UNCHANGED << out, res >>
     \/ /\ closedE \/ ctxDone \/ Abandoned(emsg, "waitE")
        /\ Go("editor", "select") /\ UNCHANGED << out, res >>
  /\ emsg' = Nothing /\ todo' = 0 /\ eErr' = FALSE
  /\ UNCHANGED << tmsg, loopVars, lineVars, idVars, prints, waits, late >>

EditorEnds == /\ At("editor", "select") /\ (closedE \/ ctxDone)
              /\ Go("editor", "gone")
              /\ UNCHANGED << out, taskVars, loopVars, lineVars, idVars, callVars >>

Editor == EditorTakes \/ EditorFails \/ EditorDone \/ EditorEnds

-----------------------------------------------------------------------------
(***************************************************************************)
(* The throttle loop.                                                      *)
(***************************************************************************)
LoopTicks == /\ At("loop", "select")
             /\ Go("loop", "sendT") /\ Sends("loop", Message("publish", 0, "loop"))
             /\ UNCHANGED << taskVars, loopVars, lineVars, idVars, callVars >>

LoopTakes == \E t \in {"game", "editor"} :
               /\ At(t, "sendL") /\ At("loop", "select")
               /\ pc' = [pc EXCEPT !["loop"] = "sendT", ![t] = "waitT"]
               /\ Sends("loop", out[t])
               /\ UNCHANGED << taskVars, loopVars, lineVars, idVars, callVars >>

\* the looper is closed: so is the loop
LoopFails == /\ At("loop", "sendT") /\ (closedT \/ ctxDone)
             /\ Go("loop", "gone") /\ Sends("loop", Nothing)
             /\ closedT' = TRUE
             /\ UNCHANGED << taskVars, closedE, thrClosed, ctxDone, lineVars, idVars, callVars >>

LoopEnds == /\ At("loop", "select") /\ (thrClosed \/ ctxDone)
            /\ Go("loop", "gone")
            /\ UNCHANGED << out, taskVars, loopVars, lineVars, idVars, callVars >>

Loop == LoopTicks \/ LoopTakes \/ LoopFails \/ LoopEnds

-----------------------------------------------------------------------------
(***************************************************************************)
(* The throttler's looper.                                                 *)
(***************************************************************************)
\* (mutant) Sync does not call OnSync
OnwardNoSync(t) == CASE t = "loop" -> {"select"}
                     [] t = "game" -> {"run", "sendL"}
                     [] OTHER      -> IF emsg.task = "sync" THEN {"done"} ELSE IF todo > 1 THEN {"sendT"} ELSE {"select"}

\* where a sender goes on: a request for a command or an input is followed by
\* OnSync, and so is the temporary paragraph of Sync
Onward(t) == CASE t = "loop" -> {"select"}
               [] t = "game" -> {"run", "sendL"}
               [] OTHER      -> IF emsg.task = "sync" THEN {"sendL"} ELSE IF todo > 1 THEN {"sendT"} ELSE {"select"}

LooperTakes(t) == \E l \in Onward(t) :
  /\ At(t, "sendT") /\ At("looper", "select") /\ ~closedT /\ ~ctxDone
  /\ tmsg' = out[t]
  /\ pc' = [pc EXCEPT !["looper"] = "task", ![t] = l]
  /\ todo' = IF t = "editor" /\ todo > 0 THEN todo - 1 ELSE todo
  /\ emsg' = IF t = "editor" /\ l = "select" THEN Nothing ELSE emsg
  /\ res' = IF l = "run" THEN "ok" ELSE res
  /\ CASE l = "sendL" -> Sends(t, Message("sync", nextT, t)) /\ nextT' = nextT + 1
       [] l = "sendT" -> UNCHANGED << out, nextT >>
       [] OTHER       -> Sends(t, Nothing) /\ UNCHANGED nextT
  /\ UNCHANGED << eErr, loopVars, lineVars, nextE, prints, waits, late >>

LooperRests == Go("looper", "select") /\ tmsg' = Nothing

\* pendingEvents gets longer
LooperAdds ==
  /\ At("looper", "task") /\ tmsg.task \in {"add", "temporary", "request"}
  /\ LooperRests
  /\ pending' = IF tmsg.task = "add" THEN pending + 1 ELSE pending
  /\ UNCHANGED << out, emsg, todo, eErr, loopVars, unseen, idVars, callVars >>

\* everything that waits is published, on a tick or for OnSync
LooperPublishes ==
  /\ At("looper", "task")
  /\ \/ tmsg.task = "publish" /\ LooperRests
     \/ tmsg.task = "sync" /\ Go("looper", "done") /\ UNCHANGED tmsg
  /\ unseen' = unseen - pending /\ pending' = 0
  /\ UNCHANGED << out, emsg, todo, eErr, loopVars, idVars, callVars >>

\* the UI returns an error: the looper is closed, by OnSync's task the throttler
LooperFails ==
  /\ MayFail /\ At("looper", "task")
  /\ closedT' = TRUE
  /\ \/ tmsg.task = "publish" /\ LooperRests /\ UNCHANGED thrClosed
     \/ tmsg.task = "sync" /\ Go("looper", "closing") /\ thrClosed' = TRUE /\ UNCHANGED << tmsg >>
  /\ UNCHANGED << out, emsg, todo, eErr, closedE, ctxDone, lineVars, idVars, callVars >>

\* ... whose Close waits for the throttle loop
LooperClosed == /\ At("looper", "closing") /\ At("loop", "gone")
                /\ Go("looper", "done")
                /\ UNCHANGED << out, taskVars, loopVars, lineVars, idVars, callVars >>

LooperDone ==
  /\ At("looper", "done")
  /\ \/ \E t \in {"game", "editor"} :
          /\ At(t, "waitT") /\ ~closedT /\ ~ctxDone
          /\ IF IsFor(tmsg, t)
               THEN /\ pc' = [pc EXCEPT !["looper"] = "select", ![t] = IF t = "game" THEN "run" ELSE "done"]
                    /\ res' = IF t = "game" THEN "ok" ELSE res
                    /\ Sends(t, Nothing)
               ELSE Go("looper", "select") /\ UNCHANGED << out, res >>
     \/ /\ closedT \/ ctxDone \/ Abandoned(tmsg, "waitT")
        /\ Go("looper", "select") /\ UNCHANGED << out, res >>
  /\ tmsg' = Nothing
  /\ UNCHANGED << emsg, todo, eErr, loopVars, lineVars, idVars, prints, waits, late >>

LooperEnds == /\ At("looper", "select") /\ (closedT \/ ctxDone)
              /\ Go("looper", "gone")
              /\ UNCHANGED << out, taskVars, loopVars, lineVars, idVars, callVars >>

Looper == \/ \E t \in {"game", "editor", "loop"} : LooperTakes(t)
          \/ LooperAdds \/ LooperPublishes \/ LooperFails \/ LooperClosed \/ LooperDone \/ LooperEnds
=============================================================================
