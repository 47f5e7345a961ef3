---------------------------- MODULE ScriptInput ----------------------------
(***************************************************************************)
(* The input functions of the era module, composed of the watch dog that   *)
(* they stop and start again and of the input port, of which only its      *)
(* promise (InputRequest) is used here.  An input function that fails      *)
(* raises an error in the script.  Lua errors are strings, so the error    *)
(* value is kept in the registry until the error reaches the interpreter   *)
(* (error.go); in between the script may catch the error, call the flow    *)
(* module, and be called by it.                                            *)
(*                                                                         *)
(* Errors: "closed" and "sync" come from the port, "lua" from the script's *)
(* own error(), "ended" is the end of a script by its context, seen by the *)
(* script that called it.  Other functions of the engine raise as the port *)
(* does.                                                                   *)
(* The other special errors (quit, longReturn, gotoNextScene) are those of *)
(* SceneFlow.                                                              *)
(***************************************************************************)
EXTENDS WatchDog

CONSTANTS Commands, Numbers, Empty   \* as in InputRequest

VARIABLES
    asked, timed, reply, closed,  \* the input port
    call,     \* the input function the script is in
    step,     \* where it is
    raised,   \* the error on its way up
    kept,     \* the error value kept in the registry
    foreign,  \* it was left there by an error that coroutine.resume caught
    cause     \* the error value put into the error the last call returned

portVars  == <<asked, timed, reply, closed>>
errVars   == <<raised, kept, foreign, cause>>
inputVars == <<portVars, call, step, errVars>>
gameAll   == <<vars, inputVars>>

Port == INSTANCE InputRequest

Kinds == {"wait", "command", "number", "raw"}

\* wait, input, inputNum, rawInput and their timed forms; inputRange and
\* inputSelect, with the numbers they take.
Functions == [kind : Kinds, timed : BOOLEAN, wanted : {Numbers}]
                 \cup [kind : {"number"}, timed : {FALSE}, wanted : (SUBSET Numbers) \ {{}}]

NoCall == [kind |-> "wait", timed |-> FALSE, wanted |-> Numbers]

\* checkTimeExceeded: the end of the time is told to the script
IsRaised(err) == err \notin {"none", "timeout"}

InputInit ==
    /\ Init /\ Port!Init
    /\ call = NoCall /\ step = "none"
    /\ raised = "none" /\ kept = "none" /\ foreign = FALSE /\ cause = "none"

SameInput == UNCHANGED inputVars

-----------------------------------------------------------------------------
(* The input functions.                                                    *)

StartsInput ==
    /\ raised = "none" /\ CallsInput
    /\ step' = "begin"
    /\ UNCHANGED <<portVars, call, errVars>>

\* L.ArgError(2, "1st argument is less than 2nd"), "at least 1 argument required"
RefusesArguments ==
    /\ gpc = "input" /\ step = "begin"
    /\ raised' = "lua" /\ step' = "done"
    /\ UNCHANGED <<vars, portVars, call, kept, foreign, cause>>

\* a request; one made of a closed port is refused
Requests ==
    /\ gpc = "input" /\ step \in {"begin", "ask"}
    /\ call' \in (IF step = "begin" THEN Functions ELSE {call})
    /\ Port!Ask
    /\ timed' = call'.timed
    /\ asked' = IF closed THEN "none" ELSE call'.kind
    /\ step' = "asked"
    /\ UNCHANGED <<vars, errVars>>

PortAnswers ==
    /\ Port!Answer
    /\ UNCHANGED <<vars, call, step, errVars>>

\* the UI ends: an end at another time is seen first by the next input function
PortCloses ==
    /\ ~closed /\ gpc = "input" /\ Port!Close
    /\ UNCHANGED <<vars, call, step, errVars>>

\* (mutant) every error of a timed function is taken for the end of its time
ExaminesNoError ==
    /\ gpc = "input" /\ step = "asked" /\ asked = "none"
    /\ IF reply.err = "none" /\ call.kind = "number" /\ reply.cmd \notin call.wanted
         THEN step' = "ask" /\ UNCHANGED <<raised, kept, foreign>>
         ELSE /\ step' = "done"
              /\ IF reply.err = "none" \/ call.timed
                   THEN UNCHANGED <<raised, kept, foreign>>
                   ELSE raised' = reply.err /\ kept' = reply.err /\ foreign' = FALSE
    /\ UNCHANGED <<vars, portVars, call, cause>>

\* what the request returned: a number not asked for is asked for again, an
\* error is raised and kept (raiseErrorE)
Examines ==
    /\ gpc = "input" /\ step = "asked" /\ asked = "none"
    /\ IF reply.err = "none" /\ call.kind = "number" /\ reply.cmd \notin call.wanted
         THEN step' = "ask" /\ UNCHANGED <<raised, kept, foreign>>
         ELSE /\ step' = "done"
              /\ IF IsRaised(reply.err)
                   THEN raised' = reply.err /\ kept' = reply.err /\ foreign' = FALSE
                   ELSE UNCHANGED <<raised, kept, foreign>>
    /\ UNCHANGED <<vars, portVars, call, cause>>

LeavesInput ==
    /\ step = "done" /\ InputReturns
    /\ step' = "none" /\ call' = NoCall
    /\ UNCHANGED <<portVars, errVars>>

-----------------------------------------------------------------------------
(* Errors on their way.                                                    *)

\* the script calls error()
Raises ==
    /\ gpc = "script" /\ raised = "none" /\ ~Done(depth)
    /\ raised' = "lua"
    /\ UNCHANGED <<vars, portVars, call, step, kept, foreign, cause>>

\* (mutant) pcall does not clear the error value
PcallKeeps ==
    /\ gpc = "script" /\ (raised # "none" \/ (kept # "none" /\ ~Done(depth)))
    /\ raised' = (IF raised = "ended" THEN "ended" ELSE "none")
    /\ UNCHANGED <<vars, portVars, call, step, kept, foreign, cause>>

\* pcall and xpcall end, with an error or without: the error value is cleared,
\* and the end of a script is raised again
PcallEnds ==
    /\ gpc = "script" /\ (raised # "none" \/ (kept # "none" /\ ~Done(depth)))
    /\ raised' = (IF raised = "ended" THEN "ended" ELSE "none")
    /\ kept' = "none" /\ foreign' = FALSE
    /\ UNCHANGED <<vars, portVars, call, step, cause>>

\* coroutine.resume is gopher-lua's own: the error value stays
ResumeCatches ==
    /\ gpc = "script" /\ raised # "none"
    /\ raised' = "none" /\ foreign' = (kept # "none")
    /\ UNCHANGED <<vars, portVars, call, step, kept, cause>>

Fails ==
    /\ raised # "none" /\ ScriptEnds
    /\ SameInput

\* checkSpecialError of a call that failed: the error value becomes the cause
CallFails ==
    /\ raised # "none" /\ CallReturns
    /\ IF raised = "ended"
         THEN cause' = "ended" /\ UNCHANGED kept
         ELSE cause' = kept /\ kept' = "none"
    /\ UNCHANGED <<portVars, call, step, raised, foreign>>

\* checkSpecialError of a call that its context has ended
CallEnded ==
    /\ Classifies
    /\ raised' = (IF depth = 0 THEN raised ELSE "ended")
    /\ cause'  = (IF depth = 0 THEN cause ELSE "ended")
    /\ UNCHANGED <<portVars, call, step, kept, foreign>>

\* the flow function raises in its script what the platform returned
FlowFails ==
    /\ raised # "none" /\ FlowReturns
    /\ kept' = (IF cause = "none" THEN raised ELSE cause)
    /\ cause' = "none"
    /\ UNCHANGED <<portVars, call, step, raised, foreign>>

-----------------------------------------------------------------------------
\* what the game thread does by itself
Engine ==
    \/ (\/ Checks \/ Sends \/ SetContext \/ Spawns \/ Quits \/ QuitSelects
        \/ QuitSeesEnd) /\ SameInput
    \/ raised = "none" /\ (ScriptAborts \/ CallReturns) /\ SameInput
    \/ RefusesArguments \/ Requests \/ Examines \/ LeavesInput
    \/ CallFails \/ CallEnded \/ FlowFails
    \/ closed /\ PortAnswers

\* what scripts, scenes and the user do; an error that is on its way leaves
\* the script nothing but to catch it
Choices ==
    \/ raised = "none" /\ (\/ Calls \/ CallsFlow \/ FlowReturns \/ SceneAsks
                           \/ ScriptEnds \/ PcallAsks) /\ SameInput
    \/ (SceneAnswered \/ GameOver) /\ SameInput
    \/ StartsInput \/ Raises \/ PcallEnds \/ ResumeCatches \/ Fails
    \/ PortAnswers \/ PortCloses

InputNext == \/ (Dog \/ Elapse \/ Listeners \/ ContextEnds) /\ SameInput
             \/ Engine \/ Choices

\* as in WatchDog; a request made of a port that is closed ends
\* (InputPort!CloseReleases), and an error does not stay where it is
InputFairness ==
    /\ WF_gameAll(Dog /\ SameInput) /\ WF_gameAll(Elapse /\ SameInput)
    /\ WF_gameAll(StaleLeaves /\ SameInput) /\ WF_gameAll(Engine)
    /\ \A d \in Levels : WF_gameAll((ListenerHears(d) \/ ListenerCancels(d)
                                        \/ ListenerLeaves(d)) /\ SameInput)
    /\ WF_gameAll(PcallEnds \/ ResumeCatches \/ Fails)

InputSpec == InputInit /\ [][InputNext]_gameAll /\ InputFairness

-----------------------------------------------------------------------------
(* Properties.                                                             *)

\* An input function that returns without an error has what its script asked
\* for: a reply of the right kind, one of the numbers of inputRange and
\* inputSelect - or, if it is a timed one, the end of its time
\* (era_functions.go:886-1058).
InputAsAsked ==
    step = "done" /\ raised = "none" =>
        \/ reply.err = "timeout" /\ call.timed
        \/ /\ reply.err = "none" /\ Port!MayAnswer(call.kind, reply.cmd)
           /\ call.kind = "number" => reply.cmd \in call.wanted

\* The cause attached to an error that reaches the platform is that error's
\* own: an error that the script has caught with pcall is never told as the
\* cause of a later one - and a closed port caught before never makes the
\* game take a later failure for its normal end (game.go:136).  Only an error
\* that coroutine.resume caught may stay behind.
CauseIsOwn == foreign \/ raised = "none" \/ cause \in {"none", raised}


\* When the UI has ended, no input function keeps the game thread, be it in
\* the loop that waits for the right number (inputport.go:398-432).
ClosedEndsInput == closed /\ gpc = "input" ~> gpc # "input"

\* Whatever should end a script ends it: quitting, the watch dog, a closed port.
ScriptsEnd == QuitEnds /\ NoRunaway /\ ClosedEndsInput
=============================================================================
