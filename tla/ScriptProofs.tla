---------------------------- MODULE ScriptProofs -----------------------------
(***************************************************************************)
(* Theorems about the script of a game.                                    *)
(*                                                                         *)
(* WatchDog: its type invariant, that the watch dog expires on scripts     *)
(* only, that an expiry is reported as one, and that Quit does not panic - *)
(* for every depth of nested calls and any number of listener goroutines,  *)
(* with or without the flow module and an early cancellation. ScriptInput, *)
(* for any commands and numbers: every step is one of WatchDog's or leaves *)
(* the watch dog alone (StepsOfDog), so that its invariant holds there     *)
(* too, and the cause of an error that reaches the platform is the error's *)
(* own.                                                                    *)
(*                                                                         *)
(* Reload, for any set of files, length of the queue and number of         *)
(* changes: types, the timer of the events gathered, and that a change is  *)
(* always in one of the hands it passes.                                   *)
(***************************************************************************)
EXTENDS ScriptInput, Reload, TLAPS

-----------------------------------------------------------------------------
(* The inductive invariant.                                                *)

InCommand == gpc \in {"check", "checked", "send"}

\* `running' says where the goroutine is, and which places of the game thread
\* are within a call
Places ==
    /\ running <=> dpc \in {"select", "handle", "notify", "close", "leave"}
    /\ dpc = "off" <=> gpc = "start"
    /\ expClosed => dpc \in {"leave", "drain", "gone"}
    /\ InCommand => (gcmd = "stop" <=> gnext \in AfterStop)
    /\ InCommand /\ gnext # "out" => depth > 0
    /\ InCommand /\ gnext = "out" => depth = 0
    /\ gpc \in {"spawn", "script", "input", "return"} => depth > 0
    /\ gpc \in {"start", "quitting", "quitchecked", "quit"} => depth = 0

\* where the last command of the game thread was Stop, and no script runs
Quiet == \/ gpc \in {"input", "return", "classify"}
         \/ depth = 0 /\ gpc \in {"out", "asking", "quitting", "quitchecked", "quit"}

\* there the timer is stopped, or about to be, or no longer watched
QuietTimer ==
    Quiet => \/ dpc = "handle" /\ dcmd = "stop"
             \/ dpc = "select" /\ timer = "stopped"
             \/ dpc \in {"leave", "drain", "gone"}

\* somebody has received the expiry
Expiring == dpc = "close" \/ expClosed

\* a script is only ever ended by an expiry or by the parent's context
WhyAborted ==
    /\ \A d \in cancelled : d = 0 \/ Expiring
    /\ \A d \in Levels : listener[d] = "told" => Expiring
    /\ aborted /\ (gpc \in {"return", "classify"} \/ (InCommand /\ gnext = "return"))
         => 0 \in cancelled \/ Expiring
    /\ gpc = "classify" => aborted
    /\ outcome = "cancelled" => 0 \in cancelled

IInv == TypeOK /\ Places /\ QuietTimer /\ WhyAborted
-----------------------------------------------------------------------------
(* The initial state satisfies the invariant.                              *)

\* Nothing runs yet when the interpreter is made.
LEMMA InvInit == Init => IInv
<1> SUFFICES ASSUME Init PROVE IInv
  OBVIOUS
<1>1. running \in BOOLEAN /\ expClosed \in BOOLEAN /\ aborted \in BOOLEAN
  BY DEF Init
<1>2. TypeOK
  BY <1>1, DepthAssumption
  DEF Init, TypeOK, Levels, DogPlaces, GamePlaces, AfterStop, AfterReset
<1>3. Places /\ QuietTimer
  BY DEF Init, Places, QuietTimer, Quiet, InCommand
<1>4. WhyAborted
  BY DEF Init, WhyAborted, Levels
<1> QED
  BY <1>2, <1>3, <1>4 DEF IInv

-----------------------------------------------------------------------------
(* Every step keeps it.                                                    *)

\* Every action leaves every variable in its type.
LEMMA TypeStep == TypeOK /\ Places /\ [Next]_vars => TypeOK'
<1> SUFFICES ASSUME TypeOK, Places, [Next]_vars PROVE TypeOK'
  OBVIOUS
<1> USE DepthAssumption DEF dogVars, gameVars, TypeOK, Places, Levels, DogPlaces, GamePlaces, AfterStop, AfterReset, InCommand
<1>1. CASE UNCHANGED vars
  BY <1>1 DEF vars
<1>2. CASE DogTakesCommand
  BY <1>2 DEF DogTakesCommand
<1>3. CASE DogHandles
  BY <1>3 DEF DogHandles
<1>4. CASE DogTakesQuit
  BY <1>4 DEF DogTakesQuit
<1>5. CASE DogSeesContext
  BY <1>5 DEF DogSeesContext
<1>6. CASE DogSeesTimer
  BY <1>6 DEF DogSeesTimer
<1>7. CASE DogCloses
  BY <1>7 DEF DogCloses
<1>8. CASE DogLeaves
  <2>1. running' \in BOOLEAN
    BY <1>8 DEF DogLeaves
  <2> QED
    BY <1>8, <2>1 DEF DogLeaves
<1>9. CASE DogDrops
  BY <1>9 DEF DogDrops
<1>10. CASE DogEnds
  BY <1>10 DEF DogEnds
<1>11. CASE Elapse
  BY <1>11 DEF Elapse
<1>12. CASE \E d \in Levels : ListenerHears(d)
  BY <1>12 DEF ListenerHears
<1>13. CASE \E d \in Levels : ListenerCancels(d)
  BY <1>13 DEF ListenerCancels
<1>14. CASE \E d \in Levels : ListenerLeaves(d)
  BY <1>14 DEF ListenerLeaves
<1>15. CASE StaleLeaves
  BY <1>15 DEF StaleLeaves
<1>16. CASE Checks
  BY <1>16 DEF Checks
<1>17. CASE Sends
  BY <1>17 DEF Sends
<1>18. CASE SetContext
  BY <1>18 DEF SetContext, Command
<1>19. CASE Spawns
  BY <1>19 DEF Spawns
<1>20. CASE ScriptAborts
  BY <1>20 DEF ScriptAborts, Command
<1>21. CASE CallReturns
  BY <1>21 DEF CallReturns
<1>22. CASE Classifies
  BY <1>22 DEF Classifies
<1>23. CASE Quits
  BY <1>23 DEF Quits
<1>24. CASE QuitSelects
  BY <1>24 DEF QuitSelects
<1>25. CASE QuitSeesEnd
  BY <1>25 DEF QuitSeesEnd
<1>26. CASE Calls
  BY <1>26 DEF Calls, Command
<1>27. CASE CallsInput
  BY <1>27 DEF CallsInput, Command
<1>28. CASE InputReturns
  BY <1>28 DEF InputReturns, Command
<1>29. CASE CallsFlow
  BY <1>29 DEF CallsFlow
<1>30. CASE FlowReturns
  BY <1>30 DEF FlowReturns
<1>31. CASE SceneAsks
  BY <1>31 DEF SceneAsks
<1>32. CASE SceneAnswered
  BY <1>32 DEF SceneAnswered
<1>33. CASE ScriptEnds
  BY <1>33 DEF ScriptEnds, Command
<1>34. CASE PcallAsks
  BY <1>34 DEF PcallAsks
<1>35. CASE GameOver
  BY <1>35 DEF GameOver
<1>36. CASE ContextEnds
  BY <1>36 DEF ContextEnds
<1>37. QED
  BY <1>1, <1>2, <1>3, <1>4, <1>5, <1>6, <1>7, <1>8, <1>9, <1>10, <1>11,
     <1>12, <1>13, <1>14, <1>15, <1>16, <1>17, <1>18, <1>19, <1>20, <1>21,
     <1>22, <1>23, <1>24, <1>25, <1>26, <1>27, <1>28, <1>29, <1>30, <1>31,
     <1>32, <1>33, <1>34, <1>35, <1>36
  DEF Next, Dog, Listeners, Platform, Script

\* `running' follows the goroutine, and the depth the calls.
LEMMA PlacesStep == TypeOK /\ Places /\ QuietTimer /\ [Next]_vars => Places'
<1> SUFFICES ASSUME TypeOK, Places, QuietTimer, [Next]_vars PROVE Places'
  OBVIOUS
<1> USE DepthAssumption DEF dogVars, gameVars, TypeOK, Places, Levels, DogPlaces, GamePlaces, AfterStop, AfterReset, InCommand, QuietTimer, Quiet
<1>1. CASE UNCHANGED vars
  BY <1>1 DEF vars
<1>2. CASE DogTakesCommand
  BY <1>2 DEF DogTakesCommand
<1>3. CASE DogHandles
  BY <1>3 DEF DogHandles
<1>4. CASE DogTakesQuit
  BY <1>4 DEF DogTakesQuit
<1>5. CASE DogSeesContext
  BY <1>5 DEF DogSeesContext
<1>6. CASE DogSeesTimer
  BY <1>6 DEF DogSeesTimer
<1>7. CASE DogCloses
  BY <1>7 DEF DogCloses
<1>8. CASE DogLeaves
  BY <1>8 DEF DogLeaves
<1>9. CASE DogDrops
  BY <1>9 DEF DogDrops
<1>10. CASE DogEnds
  BY <1>10 DEF DogEnds
<1>11. CASE Elapse
  BY <1>11 DEF Elapse
<1>12. CASE \E d \in Levels : ListenerHears(d)
  BY <1>12 DEF ListenerHears
<1>13. CASE \E d \in Levels : ListenerCancels(d)
  BY <1>13 DEF ListenerCancels
<1>14. CASE \E d \in Levels : ListenerLeaves(d)
  BY <1>14 DEF ListenerLeaves
<1>15. CASE StaleLeaves
  BY <1>15 DEF StaleLeaves
<1>16. CASE Checks
  BY <1>16 DEF Checks
<1>17. CASE Sends
  BY <1>17 DEF Sends
<1>18. CASE SetContext
  BY <1>18 DEF SetContext, Command
<1>19. CASE Spawns
  BY <1>19 DEF Spawns
<1>20. CASE ScriptAborts
  BY <1>20 DEF ScriptAborts, Command
<1>21. CASE CallReturns
  BY <1>21 DEF CallReturns
<1>22. CASE Classifies
  BY <1>22 DEF Classifies
<1>23. CASE Quits
  BY <1>23 DEF Quits
<1>24. CASE QuitSelects
  BY <1>24 DEF QuitSelects
<1>25. CASE QuitSeesEnd
  BY <1>25 DEF QuitSeesEnd
<1>26. CASE Calls
  BY <1>26 DEF Calls, Command
<1>27. CASE CallsInput
  BY <1>27 DEF CallsInput, Command
<1>28. CASE InputReturns
  BY <1>28 DEF InputReturns, Command
<1>29. CASE CallsFlow
  BY <1>29 DEF CallsFlow
<1>30. CASE FlowReturns
  BY <1>30 DEF FlowReturns
<1>31. CASE SceneAsks
  BY <1>31 DEF SceneAsks
<1>32. CASE SceneAnswered
  BY <1>32 DEF SceneAnswered
<1>33. CASE ScriptEnds
  BY <1>33 DEF ScriptEnds, Command
<1>34. CASE PcallAsks
  BY <1>34 DEF PcallAsks
<1>35. CASE GameOver
  BY <1>35 DEF GameOver
<1>36. CASE ContextEnds
  BY <1>36 DEF ContextEnds
<1>37. QED
  BY <1>1, <1>2, <1>3, <1>4, <1>5, <1>6, <1>7, <1>8, <1>9, <1>10, <1>11,
     <1>12, <1>13, <1>14, <1>15, <1>16, <1>17, <1>18, <1>19, <1>20, <1>21,
     <1>22, <1>23, <1>24, <1>25, <1>26, <1>27, <1>28, <1>29, <1>30, <1>31,
     <1>32, <1>33, <1>34, <1>35, <1>36
  DEF Next, Dog, Listeners, Platform, Script

\* Once Stop has returned the timer is stopped, or nobody watches it.
LEMMA QuietStep == TypeOK /\ Places /\ QuietTimer /\ [Next]_vars => QuietTimer'
<1> SUFFICES ASSUME TypeOK, Places, QuietTimer, [Next]_vars PROVE QuietTimer'
  OBVIOUS
<1> USE DepthAssumption DEF dogVars, gameVars, TypeOK, Places, Levels, DogPlaces, GamePlaces, AfterStop, AfterReset, InCommand, QuietTimer, Quiet
<1>1. CASE UNCHANGED vars
  BY <1>1 DEF vars
<1>2. CASE DogTakesCommand
  BY <1>2 DEF DogTakesCommand
<1>3. CASE DogHandles
  BY <1>3 DEF DogHandles
<1>4. CASE DogTakesQuit
  BY <1>4 DEF DogTakesQuit
<1>5. CASE DogSeesContext
  BY <1>5 DEF DogSeesContext
<1>6. CASE DogSeesTimer
  BY <1>6 DEF DogSeesTimer
<1>7. CASE DogCloses
  BY <1>7 DEF DogCloses
<1>8. CASE DogLeaves
  BY <1>8 DEF DogLeaves
<1>9. CASE DogDrops
  BY <1>9 DEF DogDrops
<1>10. CASE DogEnds
  BY <1>10 DEF DogEnds
<1>11. CASE Elapse
  BY <1>11 DEF Elapse
<1>12. CASE \E d \in Levels : ListenerHears(d)
  BY <1>12 DEF ListenerHears
<1>13. CASE \E d \in Levels : ListenerCancels(d)
  BY <1>13 DEF ListenerCancels
<1>14. CASE \E d \in Levels : ListenerLeaves(d)
  BY <1>14 DEF ListenerLeaves
<1>15. CASE StaleLeaves
  BY <1>15 DEF StaleLeaves
<1>16. CASE Checks
  BY <1>16 DEF Checks
<1>17. CASE Sends
  BY <1>17 DEF Sends
<1>18. CASE SetContext
  BY <1>18 DEF SetContext, Command
<1>19. CASE Spawns
  BY <1>19 DEF Spawns
<1>20. CASE ScriptAborts
  BY <1>20 DEF ScriptAborts, Command
<1>21. CASE CallReturns
  BY <1>21 DEF CallReturns
<1>22. CASE Classifies
  BY <1>22 DEF Classifies
<1>23. CASE Quits
  BY <1>23 DEF Quits
<1>24. CASE QuitSelects
  BY <1>24 DEF QuitSelects
<1>25. CASE QuitSeesEnd
  BY <1>25 DEF QuitSeesEnd
<1>26. CASE Calls
  BY <1>26 DEF Calls, Command
<1>27. CASE CallsInput
  BY <1>27 DEF CallsInput, Command
<1>28. CASE InputReturns
  BY <1>28 DEF InputReturns, Command
<1>29. CASE CallsFlow
  BY <1>29 DEF CallsFlow
<1>30. CASE FlowReturns
  BY <1>30 DEF FlowReturns
<1>31. CASE SceneAsks
  BY <1>31 DEF SceneAsks
<1>32. CASE SceneAnswered
  BY <1>32 DEF SceneAnswered
<1>33. CASE ScriptEnds
  BY <1>33 DEF ScriptEnds, Command
<1>34. CASE PcallAsks
  BY <1>34 DEF PcallAsks
<1>35. CASE GameOver
  BY <1>35 DEF GameOver
<1>36. CASE ContextEnds
  BY <1>36 DEF ContextEnds
<1>37. QED
  BY <1>1, <1>2, <1>3, <1>4, <1>5, <1>6, <1>7, <1>8, <1>9, <1>10, <1>11,
     <1>12, <1>13, <1>14, <1>15, <1>16, <1>17, <1>18, <1>19, <1>20, <1>21,
     <1>22, <1>23, <1>24, <1>25, <1>26, <1>27, <1>28, <1>29, <1>30, <1>31,
     <1>32, <1>33, <1>34, <1>35, <1>36
  DEF Next, Dog, Listeners, Platform, Script

\* A context below the parent's is only cancelled once the expiry was received.
LEMMA WhyStep ==
    TypeOK /\ Places /\ QuietTimer /\ WhyAborted /\ [Next]_vars => WhyAborted'
<1> SUFFICES ASSUME TypeOK, Places, QuietTimer, WhyAborted, [Next]_vars PROVE WhyAborted'
  OBVIOUS
<1> USE DepthAssumption DEF dogVars, gameVars, TypeOK, Places, Levels, DogPlaces, GamePlaces, AfterStop, AfterReset, InCommand, QuietTimer, Quiet, WhyAborted, Expiring, Done
<1>1. CASE UNCHANGED vars
  BY <1>1 DEF vars
<1>2. CASE DogTakesCommand
  BY <1>2 DEF DogTakesCommand
<1>3. CASE DogHandles
  BY <1>3 DEF DogHandles
<1>4. CASE DogTakesQuit
  BY <1>4 DEF DogTakesQuit
<1>5. CASE DogSeesContext
  BY <1>5 DEF DogSeesContext
<1>6. CASE DogSeesTimer
  BY <1>6 DEF DogSeesTimer
<1>7. CASE DogCloses
  BY <1>7 DEF DogCloses
<1>8. CASE DogLeaves
  BY <1>8 DEF DogLeaves
<1>9. CASE DogDrops
  BY <1>9 DEF DogDrops
<1>10. CASE DogEnds
  BY <1>10 DEF DogEnds
<1>11. CASE Elapse
  BY <1>11 DEF Elapse
<1>12. CASE \E d \in Levels : ListenerHears(d)
  BY <1>12 DEF ListenerHears
<1>13. CASE \E d \in Levels : ListenerCancels(d)
  BY <1>13 DEF ListenerCancels
<1>14. CASE \E d \in Levels : ListenerLeaves(d)
  BY <1>14 DEF ListenerLeaves
<1>15. CASE StaleLeaves
  BY <1>15 DEF StaleLeaves
<1>16. CASE Checks
  BY <1>16 DEF Checks
<1>17. CASE Sends
  BY <1>17 DEF Sends
<1>18. CASE SetContext
  BY <1>18 DEF SetContext, Command
<1>19. CASE Spawns
  BY <1>19 DEF Spawns
<1>20. CASE ScriptAborts
  BY <1>20 DEF ScriptAborts, Command
<1>21. CASE CallReturns
  BY <1>21 DEF CallReturns
<1>22. CASE Classifies
  <2>1. dpc \notin {"notify", "close"}
    BY <1>22 DEF Classifies
  <2>2. dpc' = dpc /\ UNCHANGED <<expClosed, cancelled, listener, aborted, gnext>>
    BY <1>22, <2>1 DEF Classifies
  <2>3. outcome' = "cancelled" => ~expClosed
    BY <1>22 DEF Classifies
  <2>4. outcome' = "cancelled" => 0 \in cancelled'
    BY <1>22, <2>1, <2>2, <2>3 DEF Classifies
  <2> QED
    BY <1>22, <2>2, <2>4 DEF Classifies
<1>23. CASE Quits
  BY <1>23 DEF Quits
<1>24. CASE QuitSelects
  BY <1>24 DEF QuitSelects
<1>25. CASE QuitSeesEnd
  BY <1>25 DEF QuitSeesEnd
<1>26. CASE Calls
  BY <1>26 DEF Calls, Command
<1>27. CASE CallsInput
  BY <1>27 DEF CallsInput, Command
<1>28. CASE InputReturns
  BY <1>28 DEF InputReturns, Command
<1>29. CASE CallsFlow
  BY <1>29 DEF CallsFlow
<1>30. CASE FlowReturns
  BY <1>30 DEF FlowReturns
<1>31. CASE SceneAsks
  BY <1>31 DEF SceneAsks
<1>32. CASE SceneAnswered
  BY <1>32 DEF SceneAnswered
<1>33. CASE ScriptEnds
  BY <1>33 DEF ScriptEnds, Command
<1>34. CASE PcallAsks
  BY <1>34 DEF PcallAsks
<1>35. CASE GameOver
  BY <1>35 DEF GameOver
<1>36. CASE ContextEnds
  BY <1>36 DEF ContextEnds
<1>37. QED
  BY <1>1, <1>2, <1>3, <1>4, <1>5, <1>6, <1>7, <1>8, <1>9, <1>10, <1>11,
     <1>12, <1>13, <1>14, <1>15, <1>16, <1>17, <1>18, <1>19, <1>20, <1>21,
     <1>22, <1>23, <1>24, <1>25, <1>26, <1>27, <1>28, <1>29, <1>30, <1>31,
     <1>32, <1>33, <1>34, <1>35, <1>36
  DEF Next, Dog, Listeners, Platform, Script

\* The invariant is inductive.
LEMMA InvHolds == Spec => []IInv
<1>1. IInv /\ [Next]_vars => IInv'
  BY TypeStep, PlacesStep, QuietStep, WhyStep DEF IInv
<1> QED
  BY InvInit, <1>1, PTL DEF Spec

-----------------------------------------------------------------------------
(* The theorems.                                                           *)

\* Every reachable state is well typed, and in particular Stop, Reset and the
\* calls of scripts always go on to the place they were made for.
THEOREM TypeCorrect == Spec => []TypeOK
<1>1. IInv => TypeOK
  BY DEF IInv
<1> QED
  BY InvHolds, <1>1, PTL

\* The watch dog never expires on a user that is asked by an input function,
\* nor while no script runs.
THEOREM ExpiresOnScriptsOnly == Spec => []NoExpiryUnwatched
<1>1. IInv => NoExpiryUnwatched
  BY DEF IInv, QuietTimer, Quiet, NoExpiryUnwatched
<1> QED
  BY InvHolds, <1>1, PTL

\* A script ended by the watch dog is reported as one that took too long.
THEOREM ExpiriesAreReported == Spec => []ExpiryReported
<1>1. IInv => ExpiryReported
  BY DEF IInv, WhyAborted, ExpiryReported
<1> QED
  BY InvHolds, <1>1, PTL

\* Quit never waits for a goroutine that is stuck.
THEOREM QuitDoesNotPanic == Spec => []QuitNeverPanics
<1>1. IInv => QuitNeverPanics
  BY DEF IInv, QuietTimer, Places, Quiet, QuitNeverPanics
<1> QED
  BY InvHolds, <1>1, PTL

-----------------------------------------------------------------------------
(***************************************************************************)
(* The composition with the input functions of a script.                   *)
(***************************************************************************)
\* What the composition adds to a step of the watch dog module is invisible to it.
LEMMA StepsOfDog == [InputNext]_gameAll => [Next]_vars
<1> SUFFICES ASSUME [InputNext]_gameAll PROVE [Next]_vars
  OBVIOUS
<1>1. CASE Dog \/ Elapse \/ Listeners \/ ContextEnds
  BY <1>1 DEF Next
<1>2. CASE Checks \/ Sends \/ SetContext \/ Spawns \/ Quits \/ QuitSelects \/ QuitSeesEnd
           \/ ScriptAborts \/ CallReturns
  BY <1>2 DEF Next, Platform
<1>3. CASE CallFails \/ CallEnded
  BY <1>3 DEF Next, Platform, CallFails, CallEnded
<1>4. CASE LeavesInput \/ FlowFails \/ StartsInput \/ Fails
  BY <1>4 DEF Next, Script, LeavesInput, FlowFails, StartsInput, Fails
<1>5. CASE Calls \/ CallsFlow \/ FlowReturns \/ SceneAsks \/ ScriptEnds \/ PcallAsks
           \/ SceneAnswered \/ GameOver
  BY <1>5 DEF Next, Script
<1>6. CASE RefusesArguments \/ Requests \/ Examines \/ PortAnswers \/ PortCloses
           \/ Raises \/ PcallEnds \/ ResumeCatches
  BY <1>6 DEF RefusesArguments, Requests, Examines, PortAnswers, PortCloses, Raises,
              PcallEnds, ResumeCatches
<1>7. CASE UNCHANGED gameAll
  BY <1>7 DEF gameAll
<1> QED
  BY <1>1, <1>2, <1>3, <1>4, <1>5, <1>6, <1>7 DEF InputNext, Engine, Choices

-----------------------------------------------------------------------------
(***************************************************************************)
(* The cause of an error.  CauseIsOwn is not inductive: the error value is *)
(* attached when a call returns, and was put into the registry when the    *)
(* error was raised, or long before; what is in the registry must belong   *)
(* to the error on its way, and the last cause must be gone.               *)
(***************************************************************************)
\* an input function is in progress, or about to be
InInput == gpc = "input" \/ (InCommand /\ gnext = "input")

\* a script that its context ends is on its way out
Ending == aborted /\ (gpc \in {"return", "classify"} \/ (InCommand /\ gnext = "return"))

Paths == /\ step # "none" => InInput
         /\ step \in {"begin", "ask", "asked"} => raised = "none"
         /\ Ending => raised = "none"
         /\ gpc = "classify" => aborted
         /\ cause # "none" => raised # "none"
         /\ cause # "none" => gpc \in {"out", "quitting", "quitchecked", "quit", "ended"}

Owned == /\ foreign \in BOOLEAN
         /\ foreign \/ (kept \in {"none", raised} /\ cause \in {"none", raised})

EInv == aborted \in BOOLEAN /\ gnext \in AfterStop \cup AfterReset /\ Paths /\ Owned

\* Nothing is raised at first.
LEMMA ErrInit == InputInit => EInv
BY DEF InputInit, Init, EInv, Paths, Owned, Ending, InCommand, AfterStop, AfterReset

\* What the watch dog and its listeners do: a command of the game thread is taken.
LEMMA DogKeepsErr == EInv /\ (Dog \/ Elapse \/ Listeners \/ ContextEnds) /\ SameInput => EInv'
<1> SUFFICES ASSUME EInv, SameInput, Dog \/ Elapse \/ Listeners \/ ContextEnds PROVE EInv'
  OBVIOUS
<1> USE DEF EInv, Paths, Owned, Ending, InInput, InCommand, AfterStop, AfterReset, SameInput, inputVars, errVars
<1>1. CASE DogTakesCommand
  BY <1>1 DEF DogTakesCommand
<1>2. CASE DogTakesQuit
  BY <1>2 DEF DogTakesQuit
<1>3. CASE DogDrops
  BY <1>3 DEF DogDrops
<1>4. CASE Elapse \/ ContextEnds \/ Listeners \/ DogHandles \/ DogSeesContext \/ DogSeesTimer
           \/ DogCloses \/ DogLeaves \/ DogEnds
  <2>1. UNCHANGED gameVars
    BY <1>4 DEF Elapse, ContextEnds, Listeners, ListenerHears, ListenerCancels, ListenerLeaves,
                StaleLeaves, DogHandles, DogSeesContext, DogSeesTimer, DogCloses, DogLeaves, DogEnds
  <2> QED
    BY <2>1 DEF gameVars
<1> QED
  BY <1>1, <1>2, <1>3, <1>4 DEF Dog

\* What the game thread does by itself.
LEMMA EngineKeepsErr == EInv /\ Engine => EInv'
<1> SUFFICES ASSUME EInv, Engine PROVE EInv'
  OBVIOUS
<1> USE DEF EInv, Paths, Owned, Ending, InInput, InCommand, AfterStop, AfterReset
<1>1. CASE (Checks \/ Sends \/ SetContext \/ Spawns) /\ SameInput
  BY <1>1 DEF Checks, Sends, SetContext, Spawns, Command, SameInput, inputVars, errVars
<1>2. CASE (Quits \/ QuitSelects \/ QuitSeesEnd) /\ SameInput
  BY <1>2 DEF Quits, QuitSelects, QuitSeesEnd, SameInput, inputVars, errVars
<1>3. CASE raised = "none" /\ (ScriptAborts \/ CallReturns) /\ SameInput
  BY <1>3 DEF ScriptAborts, CallReturns, Command, SameInput, inputVars, errVars
<1>4. CASE RefusesArguments
  BY <1>4 DEF RefusesArguments, vars, gameVars
<1>5. CASE Requests
  BY <1>5 DEF Requests, vars, gameVars, errVars
<1>6. CASE Examines
  BY <1>6 DEF Examines, IsRaised, vars, gameVars
<1>7. CASE LeavesInput
  BY <1>7 DEF LeavesInput, InputReturns, Command, errVars
<1>8. CASE CallFails
  BY <1>8 DEF CallFails, CallReturns
<1>9. CASE CallEnded
  BY <1>9 DEF CallEnded, Classifies
<1>10. CASE FlowFails
  BY <1>10 DEF FlowFails, FlowReturns
<1>11. CASE PortAnswers
  BY <1>11 DEF PortAnswers, vars, gameVars, errVars
<1> QED
  BY <1>1, <1>2, <1>3, <1>4, <1>5, <1>6, <1>7, <1>8, <1>9, <1>10, <1>11 DEF Engine

\* What scripts, scenes and the user do.
LEMMA ChoicesKeepErr == EInv /\ Choices => EInv'
<1> SUFFICES ASSUME EInv, Choices PROVE EInv'
  OBVIOUS
<1> USE DEF EInv, Paths, Owned, Ending, InInput, InCommand, AfterStop, AfterReset
<1>1. CASE raised = "none" /\ (Calls \/ CallsFlow \/ FlowReturns \/ SceneAsks) /\ SameInput
  BY <1>1 DEF Calls, CallsFlow, FlowReturns, SceneAsks, Command, SameInput, inputVars, errVars
<1>2. CASE raised = "none" /\ (ScriptEnds \/ PcallAsks) /\ SameInput
  BY <1>2 DEF ScriptEnds, PcallAsks, Command, SameInput, inputVars, errVars, gameVars
<1>3. CASE (SceneAnswered \/ GameOver) /\ SameInput
  BY <1>3 DEF SceneAnswered, GameOver, SameInput, inputVars, errVars
<1>4. CASE StartsInput
  BY <1>4 DEF StartsInput, CallsInput, Command, errVars
<1>5. CASE Raises \/ PcallEnds \/ ResumeCatches
  BY <1>5 DEF Raises, PcallEnds, ResumeCatches, vars, gameVars
<1>6. CASE Fails
  BY <1>6 DEF Fails, ScriptEnds, Command, SameInput, inputVars, errVars
<1>7. CASE PortAnswers \/ PortCloses
  BY <1>7 DEF PortAnswers, PortCloses, vars, gameVars, errVars
<1> QED
  BY <1>1, <1>2, <1>3, <1>4, <1>5, <1>6, <1>7 DEF Choices

LEMMA ErrStep == EInv /\ [InputNext]_gameAll => EInv'
<1>1. EInv /\ UNCHANGED gameAll => EInv'
  BY DEF gameAll, vars, gameVars, inputVars, errVars, EInv, Paths, Owned, Ending, InInput, InCommand,
         AfterStop, AfterReset
<1> QED
  BY <1>1, DogKeepsErr, EngineKeepsErr, ChoicesKeepErr DEF InputNext

\* The cause of an error that reaches the platform is that error's own, unless
\* coroutine.resume had left one in the registry.
THEOREM CauseIsAlwaysOwn == InputSpec => []CauseIsOwn
<1>1. EInv /\ [InputNext]_gameAll => EInv'
  BY ErrStep
<1>2. EInv => CauseIsOwn
  BY DEF EInv, Owned, CauseIsOwn
<1> QED
  BY <1>1, <1>2, ErrInit, PTL DEF InputSpec

-----------------------------------------------------------------------------
(***************************************************************************)
(* What an input function returns.  The function and the port must agree   *)
(* all the time on what is asked for: the port answers the request it was  *)
(* given last, and the function looks at the answer of its own request     *)
(* only, however many it makes, and whatever is caught in between.         *)
(***************************************************************************)
\* the port works for the function that asked
Agreed == asked # "none" => step = "asked" /\ asked = call.kind /\ timed = call.timed

\* what was answered is an answer to what was asked
Answered == \/ reply.err = "none" /\ Port!MayAnswer(call.kind, reply.cmd)
            \/ reply.err = "timeout" /\ call.timed
            \/ reply.err \in {"closed", "sync"}

AInv == /\ Agreed
        /\ step = "asked" /\ asked = "none" => Answered
        /\ InputAsAsked

\* No function has asked at first.
LEMMA AskInit == InputInit => AInv
BY DEF InputInit, Port!Init, AInv, Agreed, InputAsAsked

\* What only the watch dog, the script or the interpreter does changes no request.
LEMMA SameInputKeepsAsked == AInv /\ SameInput => AInv'
BY DEF SameInput, inputVars, portVars, errVars, AInv, Agreed, Answered, InputAsAsked

\* Outside of an input function nothing is asked for, and errors may come and go.
LEMMA OutsideKeepsAsked ==
  ASSUME EInv, AInv, gpc \in {"script", "out", "classify"},
         UNCHANGED portVars, step' = step \/ step' = "begin"
  PROVE  AInv'
<1>1. step = "none"
  BY DEF EInv, Paths, InInput, InCommand
<1>2. asked' = "none" /\ step' \in {"none", "begin"}
  BY <1>1 DEF AInv, Agreed, portVars
<1> QED
  BY <1>2 DEF AInv, Agreed, InputAsAsked

\* A request is made for the function's own call, or refused.
LEMMA RequestKeepsAsked == AInv /\ Requests => AInv'
<1> SUFFICES ASSUME AInv, Requests PROVE AInv'
  OBVIOUS
<1>1. timed' = call'.timed /\ step' = "asked" /\ asked' = (IF closed THEN "none" ELSE call'.kind)
  BY DEF Requests
<1>2. asked' = "none" => reply' = [err |-> "closed", cmd |-> Empty]
  BY DEF Requests, Port!Ask, Port!Reply
<1> QED
  BY <1>1, <1>2 DEF AInv, Agreed, Answered, InputAsAsked

\* The answer is to the request that was made, for the time it was made with.
LEMMA AnswerKeepsAsked == AInv /\ PortAnswers => AInv'
<1> SUFFICES ASSUME AInv, PortAnswers PROVE AInv'
  OBVIOUS
<1>1. step = "asked" /\ asked = call.kind /\ timed = call.timed /\ asked' = "none"
  BY DEF PortAnswers, Port!Answer, AInv, Agreed
<1>2. UNCHANGED <<call, step, errVars, timed>>
  BY DEF PortAnswers, Port!Answer
<1>3. \/ \E c \in Commands : Port!MayAnswer(asked, c) /\ reply' = Port!Reply("none", c)
      \/ \E e \in {"closed", "timeout", "sync"} : Port!MayFail(e) /\ reply' = Port!Reply(e, Empty)
  BY DEF PortAnswers, Port!Answer
<1>4. Answered'
  <2>1. ASSUME NEW c \in Commands, Port!MayAnswer(asked, c), reply' = Port!Reply("none", c)
        PROVE  reply'.err = "none" /\ Port!MayAnswer(call'.kind, reply'.cmd)
    <3>1. reply'.err = "none" /\ reply'.cmd = c /\ call' = call
      BY <1>2, <2>1 DEF Port!Reply
    <3> QED
      BY <1>1, <2>1, <3>1
  <2>2. ASSUME NEW e \in {"closed", "timeout", "sync"}, Port!MayFail(e), reply' = Port!Reply(e, Empty)
        PROVE  reply'.err \in {"closed", "sync"} \/ (reply'.err = "timeout" /\ call'.timed)
    BY <1>1, <1>2, <2>2 DEF Port!Reply, Port!MayFail
  <2> QED
    BY <1>3, <2>1, <2>2 DEF Answered
<1> QED
  BY <1>1, <1>2, <1>4 DEF AInv, Agreed, InputAsAsked

\* What the function makes of the answer.
LEMMA ExaminesKeepsAsked == AInv /\ Examines => AInv'
<1> SUFFICES ASSUME AInv, Examines PROVE AInv'
  OBVIOUS
<1>1. Answered /\ asked' = "none" /\ UNCHANGED <<reply, call>>
  BY DEF Examines, AInv, portVars
<1>2. CASE step' = "ask"
  BY <1>1, <1>2 DEF AInv, Agreed, InputAsAsked
<1>3. CASE step' = "done"
  <2>1. ~ (reply.err = "none" /\ call.kind = "number" /\ reply.cmd \notin call.wanted)
    BY <1>3 DEF Examines
  <2>2. reply.err \in {"closed", "sync"} => raised' # "none"
    BY <1>3, <2>1 DEF Examines, IsRaised
  <2>3. InputAsAsked'
    BY <1>1, <2>1, <2>2 DEF InputAsAsked, Answered
  <2> QED
    BY <1>1, <1>3, <2>3 DEF AInv, Agreed
<1> QED
  BY <1>2, <1>3 DEF Examines

\* The port is closed, or a function refuses its arguments or is left.
LEMMA RestKeepsAsked == AInv /\ (PortCloses \/ RefusesArguments \/ LeavesInput) => AInv'
<1> SUFFICES ASSUME AInv, PortCloses \/ RefusesArguments \/ LeavesInput PROVE AInv'
  OBVIOUS
<1>1. CASE PortCloses
  BY <1>1 DEF PortCloses, Port!Close, errVars, AInv, Agreed, Answered, InputAsAsked
<1>2. CASE RefusesArguments
  BY <1>2 DEF RefusesArguments, portVars, AInv, Agreed, Answered, InputAsAsked
<1>3. CASE LeavesInput
  BY <1>3 DEF LeavesInput, portVars, AInv, Agreed, Answered, InputAsAsked
<1> QED
  BY <1>1, <1>2, <1>3

LEMMA StepKeepsAsked == EInv /\ AInv /\ [InputNext]_gameAll => AInv'
<1> SUFFICES ASSUME EInv, AInv, [InputNext]_gameAll PROVE AInv'
  OBVIOUS
<1>1. CASE SameInput
  BY <1>1, SameInputKeepsAsked
<1>2. CASE UNCHANGED gameAll
  BY <1>2, SameInputKeepsAsked DEF gameAll, SameInput
<1>3. CASE Requests \/ PortAnswers \/ Examines
  BY <1>3, RequestKeepsAsked, AnswerKeepsAsked, ExaminesKeepsAsked
<1>4. CASE PortCloses \/ RefusesArguments \/ LeavesInput
  BY <1>4, RestKeepsAsked
<1>5. CASE StartsInput \/ Raises \/ PcallEnds \/ ResumeCatches
  <2>1. gpc = "script" /\ UNCHANGED portVars /\ (step' = step \/ step' = "begin")
    BY <1>5 DEF StartsInput, CallsInput, Raises, PcallEnds, ResumeCatches
  <2> QED
    BY <2>1, OutsideKeepsAsked
<1>6. CASE CallFails \/ CallEnded \/ FlowFails
  <2>1. UNCHANGED portVars /\ UNCHANGED <<step, call>>
    BY <1>6 DEF CallFails, CallEnded, FlowFails
  <2>2. (CallFails \/ FlowFails) => UNCHANGED raised
    BY DEF CallFails, FlowFails
  <2>3. CASE CallFails \/ FlowFails
    BY <2>1, <2>2, <2>3 DEF portVars, AInv, Agreed, Answered, InputAsAsked
  <2>4. CASE CallEnded
    <3>1. gpc = "classify"
      BY <2>4 DEF CallEnded, Classifies
    <3> QED
      BY <2>1, <3>1, OutsideKeepsAsked
  <2> QED
    BY <1>6, <2>3, <2>4
<1> QED
  BY <1>1, <1>2, <1>3, <1>4, <1>5, <1>6 DEF InputNext, Engine, Choices, Fails

\* An input function that returns without an error has what its script asked for.
\* (era_functions.go:886-1058)
THEOREM InputIsAsAsked == InputSpec => []InputAsAsked
<1>1. EInv /\ [InputNext]_gameAll => EInv'
  BY ErrStep
<1>2. AInv => InputAsAsked
  BY DEF AInv
<1> QED
  BY <1>1, <1>2, ErrInit, AskInit, StepKeepsAsked, PTL DEF InputSpec

-----------------------------------------------------------------------------
\* So what is proved of the watch dog holds of scripts that ask, fail and catch:
\* it expires on scripts only, an expiry is reported as one, and Quit ends.
THEOREM DogHolds == InputSpec => []DogSafe
<1>1. InputInit => Init
  BY DEF InputInit
<1>2. [InputNext]_gameAll => [Next]_vars
  BY StepsOfDog
<1>3. InputSpec => Spec
  BY <1>1, <1>2, PTL DEF InputSpec, Spec
<1> QED
  <2>1. DogSafe <=> NoExpiryUnwatched /\ ExpiryReported /\ QuitNeverPanics
    BY DEF DogSafe
  <2> QED
    BY <1>3, <2>1, ExpiresOnScriptsOnly, ExpiriesAreReported, QuitDoesNotPanic, PTL

-----------------------------------------------------------------------------
Queued == Events \cup {Error}

\* The elements of a sequence that grows at its end or shrinks at its head.
LEMMA InAppend == ASSUME NEW S, NEW s \in Seq(S), NEW e \in S
                  PROVE  In(Append(s, e)) = In(s) \cup {e}
<1>1. /\ Append(s, e) \in Seq(S) /\ DOMAIN s = 1 .. Len(s) /\ Len(s) \in Nat
      /\ DOMAIN Append(s, e) = 1 .. Len(s) + 1
  OBVIOUS
<1>2. \A i \in 1 .. Len(s) : Append(s, e)[i] = s[i]
  OBVIOUS
<1>3. Append(s, e)[Len(s) + 1] = e
  OBVIOUS
<1>4. 1 .. Len(s) + 1 = (1 .. Len(s)) \cup {Len(s) + 1}
  BY <1>1
<1> QED
  BY <1>1, <1>2, <1>3, <1>4 DEF In

LEMMA InTail == ASSUME NEW S, NEW s \in Seq(S), s # <<>>
                PROVE  In(s) = In(Tail(s)) \cup {Head(s)}
<1>1. /\ Len(s) \in Nat \ {0} /\ DOMAIN s = 1 .. Len(s)
      /\ Tail(s) \in Seq(S) /\ DOMAIN Tail(s) = 1 .. Len(s) - 1 /\ Head(s) = s[1]
  OBVIOUS
<1>2. \A i \in 1 .. Len(s) - 1 : Tail(s)[i] = s[i + 1]
  OBVIOUS
<1>3. In(s) \subseteq In(Tail(s)) \cup {Head(s)}
  <2> SUFFICES ASSUME NEW i \in 1 .. Len(s)
               PROVE  s[i] \in In(Tail(s)) \cup {Head(s)}
    BY <1>1 DEF In
  <2>1. CASE i = 1
    BY <1>1, <2>1
  <2>2. CASE i # 1
    <3>1. i - 1 \in 1 .. Len(s) - 1 /\ (i - 1) + 1 = i
      BY <1>1, <2>2
    <3>2. Tail(s)[i - 1] = s[i]
      BY <1>2, <3>1
    <3> QED
      BY <1>1, <3>1, <3>2 DEF In
  <2> QED
    BY <2>1, <2>2
<1>4. In(Tail(s)) \cup {Head(s)} \subseteq In(s)
  <2>1. \A i \in 1 .. Len(s) - 1 : i + 1 \in 1 .. Len(s)
    BY <1>1
  <2>2. 1 \in 1 .. Len(s)
    BY <1>1
  <2> QED
    BY <1>1, <1>2, <2>1, <2>2 DEF In
<1> QED
  BY <1>3, <1>4

\* What the names of the constants must not be.
LEMMA Names == /\ Error \notin Files /\ Removed \notin Files /\ Nothing \notin Files
               /\ Error # Removed /\ System \subseteq Files /\ MaxTasks \in Nat
BY FilesAssumption, BoundsAssumption DEF Error, Removed, Nothing, Argument

-----------------------------------------------------------------------------
\* The initial states have the types.
LEMMA InitTypes == ReloadInit => ReloadTypeOK
BY Names DEF ReloadInit, AddCustomLoader, ReloadTypeOK, State, Events

\* A task is queued within the limit, or dropped.
LEMMA AppendTypes ==
  ASSUME NEW t \in Files \cup {Error}, TryAppend(t),
         tasks \in Seq(Files \cup {Error}), Len(tasks) <= MaxTasks,
         dropped \in SUBSET (Files \cup {Error})
  PROVE  /\ tasks' \in Seq(Files \cup {Error}) /\ Len(tasks') <= MaxTasks
         /\ dropped' \in SUBSET (Files \cup {Error})
<1>1. CASE Len(tasks) < MaxTasks
  <2>1. tasks' = Append(tasks, t) /\ dropped' = dropped
    BY <1>1 DEF TryAppend
  <2>2. tasks' \in Seq(Files \cup {Error}) /\ Len(tasks') = Len(tasks) + 1
    BY <2>1
  <2>3. Len(tasks) \in Nat /\ MaxTasks \in Nat
    BY Names
  <2> QED
    BY <1>1, <2>1, <2>2, <2>3
<1>2. CASE ~(Len(tasks) < MaxTasks)
  BY <1>2 DEF TryAppend
<1> QED
  BY <1>1, <1>2

\* Every step keeps the types.
LEMMA StepTypes == ReloadTypeOK /\ [ReloadNext]_reloadVars => ReloadTypeOK'
<1> SUFFICES ASSUME ReloadTypeOK, [ReloadNext]_reloadVars PROVE ReloadTypeOK'
  OBVIOUS
<1> USE Names DEF ReloadTypeOK, Events, State, Working
<1>1. CASE \E f \in Files : Write(f)
  <2>1. PICK f \in Files : Write(f)
    BY <1>1
  <2>2. disk' \in [Files -> Nat] /\ broken' \in SUBSET Files /\ changes' \in Nat
    BY <2>1 DEF Write
  <2>3. Notified(f) \in Seq(Events \cup {Error})
    BY DEF Notified
  <2>4. kernel' \in Seq(Events \cup {Error}) /\ unseen' \in SUBSET Files
    BY <2>1, <2>3 DEF Write
  <2> QED
    BY <2>1, <2>2, <2>4 DEF Write, script
<1>2. CASE \E f \in Files : Replace(f)
  BY <1>2 DEF Replace, Notified, Closed, script, ghosts
<1>3. CASE WatchFails
  BY <1>3 DEF WatchFails, files, script, ghosts
<1>4. CASE LoopStarts
  BY <1>4 DEF LoopStarts, files, script, ghosts
<1>5. CASE TakeEvent
  <2>1. Head(kernel) \in Queued /\ kernel' \in Seq(Queued)
    BY <1>5 DEF TakeEvent, Queued
  <2>2. CASE Head(kernel) = Error
    BY <1>5, <2>1, <2>2 DEF TakeEvent, Queued, files, script, ghosts
  <2>3. CASE Head(kernel) # Error
    <3>1. pending' = pending \cup {Head(kernel)} /\ pendingTimer' = "armed" /\ loop' = loop
      BY <1>5, <2>3 DEF TakeEvent, Delivered
    <3>2. Head(kernel) \in Files \cup {Removed}
      BY <2>1, <2>3 DEF Queued
    <3> QED
      BY <1>5, <2>1, <3>1, <3>2 DEF TakeEvent, Queued, files, script, ghosts
  <2> QED
    BY <2>2, <2>3
<1>6. CASE TimerFires
  BY <1>6 DEF TimerFires, files, script, ghosts
<1>7. CASE Publish
  BY <1>7 DEF Publish, files, script, ghosts
<1>8. CASE \E e \in Files \cup {Removed} : SendEvent(e)
  BY <1>8 DEF SendEvent, Sent, files, script, ghosts
<1>9. CASE SendError
  BY <1>9 DEF SendError, files, script, ghosts
<1>10. CASE LoopEnds
  BY <1>10 DEF LoopEnds, files, script, ghosts
<1>11. CASE OnFileChanged
  <2>1. CASE handler.file = Removed
    BY <1>11, <2>1 DEF OnFileChanged, files, watcher, script
  <2>2. CASE handler.file # Removed
    <3>1. PICK t \in Files \cup {Error} : TryAppend(t)
      BY <1>11, <2>2 DEF OnFileChanged
    <3>2. tasks' \in Seq(Files \cup {Error}) /\ Len(tasks') <= MaxTasks
          /\ dropped' \in SUBSET (Files \cup {Error})
      BY <3>1, AppendTypes
    <3> QED
      BY <1>11, <3>2 DEF OnFileChanged, files, watcher, script
  <2> QED
    BY <2>1, <2>2
<1>12. CASE HandlerEnds
  BY <1>12 DEF HandlerEnds, files, watcher, script, ghosts
<1>13. CASE LoadSystem \/ Require
  <2>1. PICK f \in Files, loading \in {"loading", "requiring"} : LuaLoader(f, loading)
    BY <1>13, FilesAssumption DEF LoadSystem, Require
  <2> QED
    BY <2>1 DEF LuaLoader, Failing, Loads, files, watcher, ghosts
<1>14. CASE Watch
  <2>1. ip.file \in Files /\ 0 \in Nat /\ 0 \in Int
    BY <1>14 DEF Watch
  <2>2. CASE ip' = Running /\ watched' = watched \cup {ip.file} /\ UNCHANGED <<ran, value>>
    BY <1>14, <2>1, <2>2 DEF Watch, Running, watcher, ghosts
  <2>3. CASE /\ ip' = Failing(ip.at) /\ UNCHANGED watched
             /\ ran' = [ran EXCEPT ![ip.file] = 0] /\ value' = [value EXCEPT ![ip.file] = 0]
    BY <1>14, <2>1, <2>3 DEF Watch, Failing, watcher, ghosts
  <2> QED
    BY <1>14, <2>2, <2>3 DEF Watch
<1>15. CASE EraCall
  BY <1>15 DEF EraCall, files, watcher, ghosts
<1>16. CASE TakeFirstTask
  <2>1. Head(tasks) \in Files \cup {Error} /\ tasks' \in Seq(Files \cup {Error})
        /\ Len(tasks') <= MaxTasks
    BY <1>16 DEF TakeFirstTask
  <2>2. CASE Head(tasks) = Error
    BY <1>16, <2>1, <2>2 DEF TakeFirstTask, files, watcher, ghosts
  <2>3. CASE Head(tasks) # Error
    BY <1>16, <2>1, <2>3, SMTT(30) DEF TakeFirstTask, ReloadFile, LFuncRet, NoVersion, files, watcher
  <2> QED
    BY <2>2, <2>3
<1>17. CASE EraCallReturns
  BY <1>17 DEF EraCallReturns, Running, files, watcher, ghosts
<1>18. CASE Caught
  BY <1>18 DEF Caught, Running, files, watcher, ghosts
<1>19. CASE CloseWatcher
  BY <1>19 DEF CloseWatcher, files, ghosts
<1>20. CASE RemoveLoader
  BY <1>20 DEF RemoveLoader, files, watcher, ghosts
<1>21. CASE UNCHANGED reloadVars
  BY <1>21 DEF reloadVars
<1> QED
  BY <1>1, <1>2, <1>3, <1>4, <1>5, <1>6, <1>7, <1>8, <1>9, <1>10, <1>11, <1>12,
     <1>13, <1>14, <1>15, <1>16, <1>17, <1>18, <1>19, <1>20, <1>21
  DEF ReloadNext, Watcher, Handler, Interpreter

\* Every variable always has its type; the task queue never exceeds its limit.
THEOREM TypesHold == ReloadSpec => []ReloadTypeOK
<1>1. ReloadInit => ReloadTypeOK
  BY InitTypes
<1>2. ReloadTypeOK /\ [ReloadNext]_reloadVars => ReloadTypeOK'
  BY StepTypes
<1> QED
  BY <1>1, <1>2, PTL DEF ReloadSpec

-----------------------------------------------------------------------------
(***************************************************************************)
(* The timer and the events gathered.  PendingIsTimed says nothing of the  *)
(* loop that has not started, which must not have gathered any either.     *)
(***************************************************************************)
Timed == loop.at \in {"starting", "select", "error"} /\ pending # {} => pendingTimer # "off"

\* What does not belong to eventLoop leaves its events and its timer alone.
LEMMA OthersKeepTimer ==
  ASSUME ReloadNext, ~Watcher
  PROVE  UNCHANGED <<loop, pending, pendingTimer>>
<1>1. CASE \E f \in Files : Write(f) \/ Replace(f)
  BY <1>1 DEF Write, Replace
<1>2. CASE WatchFails
  BY <1>2 DEF WatchFails
<1>3. CASE Handler
  BY <1>3 DEF Handler, OnFileChanged, HandlerEnds, watcher
<1>4. CASE LoadSystem \/ Require
  BY <1>4 DEF LoadSystem, Require, LuaLoader, watcher
<1>5. CASE Watch \/ EraCall \/ TakeFirstTask \/ EraCallReturns \/ Caught
  BY <1>5 DEF Watch, EraCall, TakeFirstTask, EraCallReturns, Caught, watcher
<1>6. CASE CloseWatcher \/ RemoveLoader
  BY <1>6 DEF CloseWatcher, RemoveLoader, watcher
<1> QED
  BY <1>1, <1>2, <1>3, <1>4, <1>5, <1>6 DEF ReloadNext, Interpreter

\* A step of eventLoop: the timer is set with every event, and the loop goes
\* back to its select only when the last one is sent.
LEMMA TimedStep == ReloadTypeOK /\ Timed /\ [ReloadNext]_reloadVars => Timed'
<1> SUFFICES ASSUME ReloadTypeOK, Timed, [ReloadNext]_reloadVars PROVE Timed'
  OBVIOUS
<1>1. CASE LoopStarts
  BY <1>1 DEF LoopStarts, State, Timed
<1>2. CASE TakeEvent
  <2>1. CASE Head(kernel) = Error
    BY <1>2, <2>1 DEF TakeEvent, Timed
  <2>2. CASE Head(kernel) # Error
    <3>1. pendingTimer' = "armed"
      BY <1>2, <2>2 DEF TakeEvent, Delivered
    <3> QED
      BY <3>1 DEF Timed
  <2> QED
    BY <2>1, <2>2
<1>3. CASE TimerFires
  BY <1>3 DEF TimerFires, Timed
<1>4. CASE Publish
  BY <1>4 DEF Publish, State, Timed
<1>5. CASE \E e \in Files \cup {Removed} : SendEvent(e)
  BY <1>5 DEF SendEvent, Sent, State, Timed
<1>6. CASE SendError
  BY <1>6 DEF SendError, State, Timed
<1>7. CASE LoopEnds
  BY <1>7 DEF LoopEnds, State, Timed
<1>8. CASE ReloadNext /\ ~Watcher
  BY <1>8, OthersKeepTimer DEF Timed
<1>9. CASE UNCHANGED reloadVars
  BY <1>9 DEF reloadVars, Timed
<1> QED
  BY <1>1, <1>2, <1>3, <1>4, <1>5, <1>6, <1>7, <1>8, <1>9 DEF Watcher

\* eventLoop never waits with events gathered and no timer to publish them.
THEOREM PendingAlwaysTimed == ReloadSpec => []PendingIsTimed
<1>1. ReloadInit => Timed
  BY DEF ReloadInit, AddCustomLoader, Timed
<1>2. ReloadTypeOK /\ Timed /\ [ReloadNext]_reloadVars => Timed'
  BY TimedStep
<1>3. Timed => PendingIsTimed
  BY DEF Timed, PendingIsTimed
<1> QED
  BY <1>1, <1>2, <1>3, TypesHold, PTL DEF ReloadSpec

-----------------------------------------------------------------------------
(***************************************************************************)
(* The hands a change passes.                                              *)
(***************************************************************************)
\* While the watcher is open, an action of eventLoop keeps every change it has.
LEMMA WatcherKeepsChanges ==
  ASSUME ReloadTypeOK, ChangeUnderway, ~Closed, Watcher
  PROVE  unseen' \subseteq Underway'
<1> DEFINE H == IF handler.at = "event" THEN {handler.file} ELSE {}
<1>1. unseen \subseteq In(kernel) \cup pending \cup In(tasks) \cup dropped \cup H
  BY DEF ChangeUnderway, Underway
<1>2. unseen \subseteq Files /\ UNCHANGED <<unseen, tasks, dropped>>
  BY DEF ReloadTypeOK, Watcher, LoopStarts, TakeEvent, TimerFires, Publish, SendEvent, SendError,
         LoopEnds, ghosts
<1>3. CASE LoopStarts \/ TimerFires \/ Publish \/ LoopEnds
  BY <1>1, <1>2, <1>3 DEF LoopStarts, TimerFires, Publish, LoopEnds, Underway, In
<1>4. CASE TakeEvent
  <2>1. kernel # <<>> /\ kernel' = Tail(kernel) /\ handler' = handler
    BY <1>4 DEF TakeEvent
  <2>2. In(kernel) = In(kernel') \cup {Head(kernel)}
    BY <2>1, InTail DEF ReloadTypeOK
  <2>3. CASE Head(kernel) = Error
    <3>1. pending' = pending /\ Head(kernel) \notin unseen
      BY <1>2, <1>4, <2>3, Names DEF TakeEvent
    <3> QED
      BY <1>1, <1>2, <2>1, <2>2, <3>1 DEF Underway, In
  <2>4. CASE Head(kernel) # Error
    <3>1. pending' = pending \cup {Head(kernel)}
      BY <1>4, <2>4 DEF TakeEvent, Delivered
    <3> QED
      BY <1>1, <1>2, <2>1, <2>2, <3>1 DEF Underway, In
  <2> QED
    BY <2>3, <2>4
<1>5. CASE \E e \in Files \cup {Removed} : SendEvent(e)
  <2>1. PICK e \in Files \cup {Removed} : SendEvent(e)
    BY <1>5
  <2>2. pending' = pending \ {e} /\ kernel' = kernel /\ handler.at = "select"
        /\ handler' = Working("event", e)
    BY <2>1 DEF SendEvent, Sent
  <2>3. H = {} /\ handler'.at = "event" /\ handler'.file = e
    BY <2>2 DEF Working
  <2> QED
    BY <1>1, <1>2, <2>2, <2>3 DEF Underway, In
<1>6. CASE SendError
  <2>1. pending' = pending /\ kernel' = kernel /\ handler.at = "select"
    BY <1>6 DEF SendError
  <2> QED
    BY <1>1, <1>2, <2>1 DEF Underway, In
<1> QED
  BY <1>3, <1>4, <1>5, <1>6 DEF Watcher

LEMMA TasksType == ReloadTypeOK => tasks \in Seq(Files \cup {Error})
BY DEF ReloadTypeOK

\* So does the handler.
LEMMA HandlerKeepsChanges ==
  ASSUME ReloadTypeOK, ChangeUnderway, ~Closed, Handler
  PROVE  unseen' \subseteq Underway'
<1> DEFINE H == IF handler.at = "event" THEN {handler.file} ELSE {}
<1>1. unseen \subseteq In(kernel) \cup pending \cup In(tasks) \cup dropped \cup H
  BY DEF ChangeUnderway, Underway
<1>2. unseen \subseteq Files /\ UNCHANGED <<unseen, kernel, pending>>
  BY DEF ReloadTypeOK, Handler, OnFileChanged, HandlerEnds, watcher, ghosts
<1>3. CASE OnFileChanged /\ (handler.at = "error" \/ handler.file = Removed)
  <2>1. H \cap unseen = {} /\ dropped \subseteq dropped'
    BY <1>2, <1>3, Names DEF OnFileChanged, TryAppend
  <2>2. In(tasks) \subseteq In(tasks')
    <3>1. tasks' = tasks \/ tasks' = Append(tasks, Error)
      BY <1>3 DEF OnFileChanged, TryAppend, ReloadTypeOK, Events
    <3>2. In(Append(tasks, Error)) = In(tasks) \cup {Error}
      BY TasksType, InAppend
    <3> QED
      BY <3>1, <3>2
  <2> QED
    BY <1>1, <1>2, <2>1, <2>2 DEF Underway, In
<1>4. CASE OnFileChanged /\ handler.at = "event" /\ handler.file # Removed
  <2>1. handler.file \in Files /\ TryAppend(handler.file)
    BY <1>4 DEF OnFileChanged, ReloadTypeOK, Events
  <2>2. In(tasks) \cup dropped \cup {handler.file} \subseteq In(tasks') \cup dropped'
    <3>1. CASE Len(tasks) < MaxTasks
      <4>1. tasks' = Append(tasks, handler.file) /\ dropped' = dropped
        BY <2>1, <3>1 DEF TryAppend
      <4>2. In(Append(tasks, handler.file)) = In(tasks) \cup {handler.file}
        BY <2>1, TasksType, InAppend
      <4> QED
        BY <4>1, <4>2
    <3>2. CASE ~(Len(tasks) < MaxTasks)
      BY <2>1, <3>2 DEF TryAppend, In
    <3> QED
      BY <3>1, <3>2
  <2> QED
    BY <1>1, <1>2, <1>4, <2>2 DEF Underway, In
<1>5. CASE HandlerEnds
  BY <1>1, <1>2, <1>5 DEF HandlerEnds, ghosts, Underway, In
<1> QED
  BY <1>3, <1>4, <1>5 DEF Handler, OnFileChanged

\* And the interpreter, which reads the file it has taken out of the queue.
LEMMA InterpreterKeepsChanges ==
  ASSUME ReloadTypeOK, ChangeUnderway, ~Closed, ~Closed', Interpreter
  PROVE  unseen' \subseteq Underway'
<1> DEFINE H == IF handler.at = "event" THEN {handler.file} ELSE {}
<1>1. unseen \subseteq In(kernel) \cup pending \cup In(tasks) \cup dropped \cup H
  BY DEF ChangeUnderway, Underway
<1>2. CASE TakeFirstTask
  <2>1. tasks # <<>> /\ tasks' = Tail(tasks) /\ UNCHANGED <<kernel, pending, handler>>
    BY <1>2 DEF TakeFirstTask, watcher
  <2>2. In(tasks) = In(tasks') \cup {Head(tasks)}
    BY <2>1, InTail DEF ReloadTypeOK
  <2>3. CASE Head(tasks) = Error
    <3>1. Head(tasks) \notin unseen /\ UNCHANGED <<unseen, dropped>>
      BY <1>2, <2>3, Names DEF TakeFirstTask, ReloadTypeOK, ghosts
    <3> QED
      BY <1>1, <2>1, <2>2, <3>1 DEF Underway, In
  <2>4. CASE Head(tasks) # Error
    <3>1. unseen' = unseen \ {Head(tasks)} /\ dropped' = dropped \ {Head(tasks)}
      BY <1>2, <2>4 DEF TakeFirstTask, ReloadFile
    <3> QED
      BY <1>1, <2>1, <2>2, <3>1 DEF Underway, In
  <2> QED
    BY <2>3, <2>4
<1>3. CASE ~TakeFirstTask
  <2>1. ~CloseWatcher
    BY DEF CloseWatcher, Closed, State
  <2>2. UNCHANGED <<unseen, dropped, kernel, pending, handler, tasks>>
    BY <1>3, <2>1 DEF Interpreter, LoadSystem, Require, LuaLoader, Watch, EraCall, EraCallReturns,
                 Caught, RemoveLoader, watcher, ghosts
  <2> QED
    BY <1>1, <2>2 DEF Underway, In
<1> QED
  BY <1>2, <1>3

\* A file that changes while it is watched is told to the kernel.
LEMMA FilesKeepChanges ==
  ASSUME ReloadTypeOK, ChangeUnderway, ~Closed, WatchFails \/ \E f \in Files : Write(f) \/ Replace(f)
  PROVE  unseen' \subseteq Underway'
<1> DEFINE H == IF handler.at = "event" THEN {handler.file} ELSE {}
<1>1. unseen \subseteq In(kernel) \cup pending \cup In(tasks) \cup dropped \cup H
  BY DEF ChangeUnderway, Underway
<1>2. UNCHANGED <<pending, tasks, dropped, handler>>
  BY DEF WatchFails, Write, Replace, ghosts
<1>3. kernel \in Seq(Queued)
  BY DEF ReloadTypeOK, Queued
<1>4. CASE WatchFails
  <2>1. In(kernel') = In(kernel) \cup {Error} /\ unseen' = unseen
    BY <1>3, <1>4, InAppend DEF WatchFails, ghosts, Queued
  <2> QED
    BY <1>1, <1>2, <2>1 DEF Underway, In
<1>5. CASE \E f \in Files : Write(f)
  <2>1. PICK f \in Files : Write(f)
    BY <1>5
  <2>2. CASE f \in watched
    <3>1. kernel' = Append(kernel, f) /\ unseen' = unseen \cup {f}
      BY <2>1, <2>2 DEF Write, Notified
    <3>2. In(kernel') = In(kernel) \cup {f}
      BY <1>3, <3>1, InAppend DEF Queued, Events
    <3> QED
      BY <1>1, <1>2, <3>1, <3>2 DEF Underway, In
  <2>3. CASE f \notin watched
    BY <1>1, <1>2, <2>1, <2>3 DEF Write, Underway, In
  <2> QED
    BY <2>2, <2>3
<1>6. CASE \E f \in Files : Replace(f)
  <2>1. kernel' = Append(kernel, Removed) /\ unseen' = unseen
    BY <1>6 DEF Replace, Notified, ghosts
  <2>2. In(kernel') = In(kernel) \cup {Removed}
    BY <1>3, <2>1, InAppend DEF Queued, Events
  <2> QED
    BY <1>1, <1>2, <2>1, <2>2 DEF Underway, In
<1> QED
  BY <1>4, <1>5, <1>6

\* A watcher that is closed is not opened again.
LEMMA ClosedStays == ReloadTypeOK /\ Closed /\ [ReloadNext]_reloadVars => Closed'
<1> SUFFICES ASSUME ReloadTypeOK, Closed, [ReloadNext]_reloadVars PROVE Closed'
  OBVIOUS
<1>1. CASE Interpreter
  BY <1>1 DEF Interpreter, LoadSystem, Require, ScriptRuns, Watch, EraCall, TakeFirstTask,
              EraCallReturns, Caught, CloseWatcher, RemoveLoader, State, Closed
<1>2. CASE ~Interpreter
  <2>1. UNCHANGED ip
    BY <1>2 DEF ReloadNext, Watcher, Handler, Write, Replace, WatchFails, LoopStarts, TakeEvent, TimerFires,
                Publish, SendEvent, SendError, LoopEnds, OnFileChanged, HandlerEnds, script, reloadVars
  <2> QED
    BY <2>1 DEF Closed
<1> QED
  BY <1>1, <1>2

\* A change of a watched file is in one of the four hands, until the watcher is
\* closed or it is read.
THEOREM ChangeAlwaysUnderway == ReloadSpec => []ChangeUnderway
<1>1. ReloadInit => ChangeUnderway
  BY DEF ReloadInit, ChangeUnderway
<1>2. ReloadTypeOK /\ ChangeUnderway /\ [ReloadNext]_reloadVars => ChangeUnderway'
  <2> SUFFICES ASSUME ReloadTypeOK, ChangeUnderway, [ReloadNext]_reloadVars, ~Closed'
               PROVE  unseen' \subseteq Underway'
    BY DEF ChangeUnderway
  <2>1. ~Closed
    BY ClosedStays
  <2>2. CASE Watcher
    BY <2>1, <2>2, WatcherKeepsChanges
  <2>3. CASE Handler
    BY <2>1, <2>3, HandlerKeepsChanges
  <2>4. CASE Interpreter
    BY <2>1, <2>4, InterpreterKeepsChanges
  <2>5. CASE WatchFails \/ \E f \in Files : Write(f) \/ Replace(f)
    BY <2>1, <2>5, FilesKeepChanges
  <2>6. CASE UNCHANGED reloadVars
    BY <2>1, <2>6 DEF reloadVars, ChangeUnderway, Underway, In
  <2> QED
    BY <2>2, <2>3, <2>4, <2>5, <2>6 DEF ReloadNext
<1> QED
  BY <1>1, <1>2, TypesHold, PTL DEF ReloadSpec
==============================================================================
