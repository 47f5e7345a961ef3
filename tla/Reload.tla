------------------------------- MODULE Reload -------------------------------
(***************************************************************************)
(* Reloading the scripts that change while a game runs.                    *)
(*                                                                         *)
(* A change passes four hands: the kernel (fsnotify) queues it for the     *)
(* files that are watched; eventLoop gathers events until none has come    *)
(* for a tenth of a second, and publishes them; watchFileChange turns each *)
(* into a task; and the interpreter runs the tasks before each function of *)
(* the era module.  The interpreter watches a file when it has loaded it.  *)
(***************************************************************************)
EXTENDS Integers, Sequences, FiniteSets

CONSTANTS
    Files,       \* the script files
    System,      \* those that the pattern of LoadSystem finds
    MaxTasks,    \* ipTaskQueueMaxLen
    MaxChanges,  \* bound on the changes of files, and of errors of fsnotify
    MaxCalls     \* bound on the era functions called

Error == "error"
Removed == "removed"
Nothing == "nothing"
Argument == "argument"

ASSUME BoundsAssumption == MaxTasks \in Nat \ {0} /\ MaxChanges \in Nat /\ MaxCalls \in Nat
ASSUME FilesAssumption ==
    {Error, Removed, Nothing, Argument} \cap Files = {} /\ System \subseteq Files

VARIABLES
    disk,      \* the version of each file
    broken,    \* the files that are missing or do not compile now
    watched,   \* the files the kernel watches
    kernel,    \* what fsnotify has not delivered
    loop,      \* eventLoop: starting, select, publishing, sending an error, ended
    pending,   \* pendingEvents
    pendingTimer,  \* off, armed, fired
    handler,   \* watchFileChange: select, what it has received, ended
    tasks,     \* the task queue
    ip,        \* what the interpreter does
    ran,       \* the version of each file that was run last, 0 for none
    value,     \* where the value in package.loaded comes from
    unseen,    \* the files changed since they were read, while watched
    dropped,   \* the files a task of which found the queue full
    changes,   \* changes so far
    calls      \* calls so far

files == <<disk, broken, watched>>
watcher == <<kernel, loop, pending, pendingTimer>>
script == <<ip, ran, value>>
ghosts == <<unseen, dropped>>
reloadVars == <<disk, broken, watched, kernel, loop, pending, pendingTimer, handler, tasks, ip, ran, value,
          unseen, dropped, changes, calls>>

State(s) == [at |-> s, file |-> Nothing]
Working(s, f) == [at |-> s, file |-> f]

Closed == ip.at \in {"closing", "ended"}

-----------------------------------------------------------------------------
(***************************************************************************)
(* The files and the kernel.                                               *)
(***************************************************************************)
Notified(e) == IF Closed THEN kernel ELSE Append(kernel, e)

\* An editor writes in place.
Write(f) ==
    /\ changes < MaxChanges /\ ip.at # "ended"
    /\ changes' = changes + 1
    /\ disk' = [disk EXCEPT ![f] = @ + 1]
    /\ \E b \in {broken \cup {f}, broken \ {f}} : broken' = b
    /\ IF f \in watched
       THEN kernel' = Notified(f) /\ unseen' = unseen \cup {f}
       ELSE UNCHANGED <<kernel, unseen>>
    /\ UNCHANGED <<watched, loop, pending, pendingTimer, handler, tasks, script, dropped, calls>>

\* An editor puts a new file in the place of the old one: what was watched is
\* gone, and so says the event.
Replace(f) ==
    /\ changes < MaxChanges /\ f \in watched /\ ip.at # "ended"
    /\ changes' = changes + 1
    /\ disk' = [disk EXCEPT ![f] = @ + 1]
    /\ broken' = broken \ {f}
    /\ watched' = watched \ {f}
    /\ kernel' = Notified(Removed)
    /\ UNCHANGED <<loop, pending, pendingTimer, handler, tasks, script, ghosts, calls>>

WatchFails ==
    /\ changes < MaxChanges /\ ~Closed
    /\ changes' = changes + 1
    /\ kernel' = Append(kernel, Error)
    /\ UNCHANGED <<files, loop, pending, pendingTimer, handler, tasks, script, ghosts, calls>>

-----------------------------------------------------------------------------
(***************************************************************************)
(* eventLoop.                                                              *)
(***************************************************************************)
\* The first tick of the timer is waited for.
LoopStarts ==
    /\ loop.at = "starting"
    /\ loop' = State("select")
    /\ UNCHANGED <<files, kernel, pending, pendingTimer, handler, tasks, script, ghosts, changes, calls>>

Delivered(e) ==
    /\ pending' = pending \cup {e}
    /\ pendingTimer' = "armed"
    /\ UNCHANGED loop

TakeEvent ==
    /\ loop.at = "select" /\ kernel # <<>>
    /\ kernel' = Tail(kernel)
    /\ IF Head(kernel) = Error
       THEN loop' = State("error") /\ UNCHANGED <<pending, pendingTimer>>
       ELSE Delivered(Head(kernel))
    /\ UNCHANGED <<files, handler, tasks, script, ghosts, changes, calls>>

TimerFires ==
    /\ pendingTimer = "armed"
    /\ pendingTimer' = "fired"
    /\ UNCHANGED <<files, kernel, loop, pending, handler, tasks, script, ghosts, changes, calls>>

Publish ==
    /\ loop.at = "select" /\ pendingTimer = "fired"
    /\ pendingTimer' = "off"
    /\ loop' = State("publishing")
    /\ UNCHANGED <<files, kernel, pending, handler, tasks, script, ghosts, changes, calls>>

\* Mutant: the map is cleared once an event is sent.
SentAll(e) ==
    /\ pending' = {}
    /\ loop' = State("select")

Sent(e) ==
    /\ pending' = pending \ {e}
    /\ loop' = State(IF pending' = {} THEN "select" ELSE "publishing")

\* Mutant: the send does not look at done.
SendEventBlocks(e) ==
    /\ loop.at = "publishing" /\ e \in pending
    /\ Sent(e)
    /\ handler.at = "select" /\ handler' = Working("event", e)
    /\ UNCHANGED <<files, kernel, pendingTimer, tasks, script, ghosts, changes, calls>>

\* The watcher and the handler meet; one that was closed throws events away.
SendEvent(e) ==
    /\ loop.at = "publishing" /\ e \in pending
    /\ Sent(e)
    /\ \/ handler.at = "select" /\ handler' = Working("event", e)
       \/ Closed /\ UNCHANGED handler
    /\ UNCHANGED <<files, kernel, pendingTimer, tasks, script, ghosts, changes, calls>>

\* Mutant: an error of fsnotify ends the loop.
SendErrorEnds ==
    /\ loop.at = "error"
    /\ loop' = State("ended")
    /\ \/ handler.at = "select" /\ handler' = State("error")
       \/ Closed /\ UNCHANGED handler
    /\ UNCHANGED <<files, kernel, pending, pendingTimer, tasks, script, ghosts, changes, calls>>

SendError ==
    /\ loop.at = "error"
    /\ loop' = State("select")
    /\ \/ handler.at = "select" /\ handler' = State("error")
       \/ Closed /\ UNCHANGED handler
    /\ UNCHANGED <<files, kernel, pending, pendingTimer, tasks, script, ghosts, changes, calls>>

LoopEnds ==
    /\ loop.at = "select" /\ Closed
    /\ loop' = State("ended")
    /\ UNCHANGED <<files, kernel, pending, pendingTimer, handler, tasks, script, ghosts, changes, calls>>

-----------------------------------------------------------------------------
(***************************************************************************)
(* watchFileChange, and the queue.  Only writes are looked at.  A task     *)
(* that finds the queue full is dropped.                                   *)
(***************************************************************************)

TryAppend(t) ==
    IF Len(tasks) < MaxTasks
    THEN tasks' = Append(tasks, t) /\ UNCHANGED dropped
    ELSE dropped' = dropped \cup {t} /\ UNCHANGED tasks

OnFileChanged ==
    /\ handler.at \in {"event", "error"}
    /\ IF handler.file = Removed
       THEN UNCHANGED <<tasks, dropped>>
       ELSE TryAppend(IF handler.at = "event" THEN handler.file ELSE Error)
    /\ handler' = State("select")
    /\ UNCHANGED <<files, watcher, script, unseen, changes, calls>>

HandlerEnds ==
    /\ handler.at = "select" /\ (ip.at = "ended" \/ loop.at = "ended")
    /\ handler' = State("ended")
    /\ UNCHANGED <<files, watcher, tasks, script, ghosts, changes, calls>>

-----------------------------------------------------------------------------
(***************************************************************************)
(* The interpreter.                                                        *)
(***************************************************************************)
\* The system files are loaded first; a script runs once the first of them is.
Running == State(IF \A f \in System : ran[f] # 0 THEN "script" ELSE "system")
ScriptRuns ==
    \/ ip.at = "script"
    \/ ip.at = "system" /\ \E f \in System : ran[f] # 0

\* findFile and loadLFunc: the loader has the file, and it compiles.
Loads(f) == f \notin broken

\* Where a load that fails leads to: the first system file that does ends the game; a
\* script may catch the failure of what it requires.
Failing(loading) == State(IF loading = "loading" THEN "failed" ELSE "raised")

\* LuaLoader: the file is read first, and watched after; it is run when it is watched.
LuaLoader(f, loading) ==
    /\ ran[f] = 0
    /\ IF Loads(f)
       THEN /\ ip' = Working(loading, f)
            /\ ran' = [ran EXCEPT ![f] = disk[f]]
            /\ value' = [value EXCEPT ![f] = disk[f]]
       ELSE ip' = Failing(loading) /\ UNCHANGED <<ran, value>>
    /\ UNCHANGED <<files, watcher, handler, tasks, ghosts, changes, calls>>

\* A file that cannot be watched is not loaded.
Watch ==
    /\ ip.at \in {"loading", "requiring"}
    /\ \/ /\ watched' = watched \cup {ip.file}
          /\ ip' = Running
          /\ UNCHANGED <<ran, value>>
       \/ /\ ip' = Failing(ip.at)
          /\ ran' = [ran EXCEPT ![ip.file] = 0]
          /\ value' = [value EXCEPT ![ip.file] = 0]
          /\ UNCHANGED watched
    /\ UNCHANGED <<disk, broken, watcher, handler, tasks, ghosts, changes, calls>>

LoadSystem == ip.at = "system" /\ \E f \in System : LuaLoader(f, "loading")
Require == ScriptRuns /\ \E f \in Files : LuaLoader(f, "requiring")

\* A function of the era module is called, with arguments or without.
EraCall ==
    /\ ScriptRuns /\ calls < MaxCalls
    /\ calls' = calls + 1
    /\ \E a \in {Argument, Nothing} : ip' = Working("draining", a)
    /\ UNCHANGED <<files, watcher, handler, tasks, ran, value, ghosts, changes>>

\* What stands first on the stack of the call is taken for the chunk's result.
NoVersion == -1
LFuncRet(f) == IF ip.file = Argument THEN NoVersion ELSE disk[f]

ReloadFile(f) ==
    /\ unseen' = unseen \ {f}
    /\ dropped' = dropped \ {f}
    /\ IF f \in broken
       THEN ip' = State("raised") /\ UNCHANGED <<ran, value>>
       ELSE /\ ran' = [ran EXCEPT ![f] = disk[f]]
            /\ value' = [value EXCEPT ![f] = LFuncRet(f)]
            /\ UNCHANGED ip

TakeFirstTask ==
    /\ ip.at = "draining" /\ tasks # <<>>
    /\ tasks' = Tail(tasks)
    /\ IF Head(tasks) = Error
       THEN ip' = State("raised") /\ UNCHANGED <<ran, value, ghosts>>
       ELSE ReloadFile(Head(tasks))
    /\ UNCHANGED <<files, watcher, handler, changes, calls>>

EraCallReturns ==
    /\ ip.at = "draining" /\ tasks = <<>>
    /\ ip' = Running
    /\ UNCHANGED <<files, watcher, handler, tasks, ran, value, ghosts, changes, calls>>

\* The error of a reload is raised in the script, which may catch it.
Caught ==
    /\ ip.at = "raised"
    /\ ip' = Running
    /\ UNCHANGED <<files, watcher, handler, tasks, ran, value, ghosts, changes, calls>>

\* Interpreter.Quit closes the watcher, and with it what fsnotify has queued.
CloseWatcher ==
    /\ ip.at \in {"system", "script", "raised", "failed"}
    /\ ip' = State("closing")
    /\ kernel' = <<>>
    /\ UNCHANGED <<files, loop, pending, pendingTimer, handler, tasks, ran, value, ghosts, changes, calls>>

\* watchDone was closed when the handler was started: nothing is waited for.
RemoveLoader ==
    /\ ip.at = "closing"
    /\ ip' = State("ended")
    /\ UNCHANGED <<files, watcher, handler, tasks, ran, value, ghosts, changes, calls>>

-----------------------------------------------------------------------------
\* AddCustomLoader opens the watcher and starts its handler.
AddCustomLoader ==
    /\ watched = {}
    /\ kernel = <<>> /\ loop = State("starting") /\ pending = {} /\ pendingTimer = "off"
    /\ handler = State("select")

\* NewInterpreter, before LoadSystem.
ReloadInit ==
    /\ disk = [f \in Files |-> 1] /\ broken \in SUBSET Files
    /\ AddCustomLoader
    /\ tasks = <<>>
    /\ ip = State("system")
    /\ ran = [f \in Files |-> 0] /\ value = [f \in Files |-> 0]
    /\ unseen = {} /\ dropped = {}
    /\ changes = 0 /\ calls = 0

Watcher ==
    \/ LoopStarts \/ TakeEvent \/ TimerFires \/ Publish
    \/ \E e \in Files \cup {Removed} : SendEvent(e)
    \/ SendError \/ LoopEnds

Handler == OnFileChanged \/ HandlerEnds

Interpreter ==
    \/ LoadSystem \/ Require \/ Watch \/ EraCall \/ TakeFirstTask \/ EraCallReturns \/ Caught
    \/ CloseWatcher \/ RemoveLoader

ReloadNext ==
    \/ \E f \in Files : Write(f) \/ Replace(f)
    \/ WatchFails \/ Watcher \/ Handler \/ Interpreter

(***************************************************************************)
(* The goroutines and the timer run.  The select of eventLoop chooses      *)
(* among what is ready: the one who waits to be chosen is, in the end.     *)
(* A script need not call anything, nor a game ever end.                   *)
(***************************************************************************)
ReloadFairness ==
    /\ WF_reloadVars(Watcher) /\ WF_reloadVars(TimerFires) /\ SF_reloadVars(Publish) /\ SF_reloadVars(LoopEnds)
    /\ WF_reloadVars(Handler) /\ SF_reloadVars(HandlerEnds)
    /\ WF_reloadVars(RemoveLoader)

ReloadSpec == ReloadInit /\ [][ReloadNext]_reloadVars /\ ReloadFairness

-----------------------------------------------------------------------------
(***************************************************************************)
(* Properties.                                                             *)
(***************************************************************************)
Events == Files \cup {Removed}
In(s) == {s[i] : i \in DOMAIN s}

\* Every variable has its type, and the queue never holds more than
\* ipTaskQueueMaxLen tasks (iptask.go:29).
ReloadTypeOK ==
    /\ disk \in [Files -> Nat] /\ broken \in SUBSET Files /\ watched \in SUBSET Files
    /\ kernel \in Seq(Events \cup {Error})
    /\ loop \in [at : {"starting", "select", "publishing", "error", "ended"}, file : {Nothing}]
    /\ pending \in SUBSET Events
    /\ pendingTimer \in {"off", "armed", "fired"}
    /\ \/ handler \in [at : {"select", "error", "ended"}, file : {Nothing}]
       \/ handler \in [at : {"event"}, file : Events]
    /\ tasks \in Seq(Files \cup {Error}) /\ Len(tasks) <= MaxTasks
    /\ \/ ip \in [at : {"system", "script", "raised", "failed", "closing", "ended"}, file : {Nothing}]
       \/ ip \in [at : {"loading", "requiring"}, file : Files]
       \/ ip \in [at : {"draining"}, file : {Nothing, Argument}]
    /\ ran \in [Files -> Nat] /\ value \in [Files -> Int]
    /\ unseen \in SUBSET Files /\ dropped \in SUBSET (Files \cup {Error})
    /\ changes \in Nat /\ calls \in Nat

\* eventLoop never waits with events gathered and no timer to publish them,
\* whatever the order in which the timer fires and further events come
\* (watcher.go:64-75).
PendingIsTimed == loop.at \in {"select", "error"} /\ pending # {} => pendingTimer # "off"

\* A change of a watched file that was not read since is on its way to the
\* interpreter in one of the four hands it passes, until the watcher is closed:
\* only a full queue loses it (watcher.go:85, loader.go:293, iptask.go:57).
Underway ==
    In(kernel) \cup pending \cup In(tasks) \cup dropped
        \cup (IF handler.at = "event" THEN {handler.file} ELSE {})
ChangeUnderway == ~Closed => unseen \subseteq Underway

\* A change is queued in the end, whatever events and errors come before it.
ChangeIsQueued ==
    \A f \in Files : f \in unseen ~> f \in In(tasks) \cup dropped \/ f \notin unseen \/ Closed

\* Once the loader is removed both goroutines end, though the one that sends
\* may have lost the one that receives (watcher.go:86, loader.go:309).
WatcherEnds == Closed ~> loop.at = "ended" /\ handler.at = "ended"

\* What package.loaded holds of a module is what its chunk gave when it was run
\* last ("Update also loaded result to reflect change to Lua world.",
\* loader.go:113).
ValueIsRan == \A f \in Files : value[f] = ran[f]
=============================================================================
