------------------------------ MODULE Desktop -------------------------------
(***************************************************************************)
(* The desktop application: the event loop of the window, the thread that  *)
(* runs a game, and the presenter between them.                            *)
(*                                                                         *)
(* The loop takes the events of the window and those the application sends *)
(* itself from one queue.  The first event that makes the window visible   *)
(* starts a game; F5 asks for a restart, which tells the game to quit and  *)
(* waits for its thread, inside the loop.  A game that ends sends a        *)
(* ModelError: a nil cause closes the application, an error is shown on    *)
(* the current view until the user presses Enter.  The game's script calls *)
(* the output port of Screen meanwhile.                                    *)
(***************************************************************************)
EXTENDS Screen

CONSTANTS
    MaxGames,    \* bound on the games started
    MaxEvents,   \* bound on the events of the window and its user
    MaxCalls     \* bound on the calls of the scripts

ASSUME BoundsAssumption == {MaxGames, MaxEvents, MaxCalls} \subseteq Nat

VARIABLES
    screen,     \* the views, see Screen
    queue,      \* events the loop has not taken
    stage,      \* what the window's events said of it last
    app,        \* the loop: running, waiting for a game to stop, over
    running,    \* EragoPresenter.gameRunning
    restart,    \* a restart request is in gameRestart
    thread,     \* the threads of the games that have been started, in their order
    mef,        \* the game whose error ModelErrorFilter keeps, or NoError
    events,     \* events of the window so far
    calls,      \* calls of scripts so far
    raised      \* the last of them raised an error, which the script caught if it goes on

loop == <<queue, app, mef>>
game == <<running, restart, thread>>
scripts == <<calls, raised>>
desktopVars == <<screen, queue, stage, app, running, restart, thread, mef, events, calls, raised>>

gen == Len(thread)      \* how many games have been started
Games == 1..MaxGames
NoError == 0

Stages == <<"dead", "alive", "visible", "focused">>
Rank(s) == CHOOSE i \in DOMAIN Stages : Stages[i] = s

LifecycleEvent(from, to) == [type |-> "lifecycle", from |-> from, to |-> to]
KeyEvent(code) == [type |-> "key", code |-> code]
ModelError(g, cause) == [type |-> "model error", game |-> g, cause |-> cause]

StageDeadEvent == LifecycleEvent("focused", "dead")
StageRestartEvent == LifecycleEvent("visible", "visible")

CrossesVisible(e) == Rank(e.from) < Rank("visible") /\ Rank(e.to) >= Rank("visible")

-----------------------------------------------------------------------------
(***************************************************************************)
(* The window.  A key needs the focus.                                     *)
(***************************************************************************)
Event(e) ==
    /\ app \in {"running", "waiting"} /\ events < MaxEvents
    /\ events' = events + 1
    /\ queue' = Append(queue, e)
    /\ UNCHANGED <<screen, app, game, mef, scripts>>

WindowChanges(to) ==
    /\ to # stage /\ (stage = "dead" => events = 0)
    /\ Event(LifecycleEvent(stage, to))
    /\ stage' = to

\* The restarts that are asked for and not done.
Restarts ==
    Len(SelectSeq(queue, LAMBDA e : e \in {KeyEvent("f5"), StageRestartEvent}))
    + (IF app = "waiting" THEN 1 ELSE 0)

KeyPressed(code) ==
    /\ stage = "focused"
    /\ code = "f5" => Max({gen, 1}) + Restarts < MaxGames
    /\ Event(KeyEvent(code))
    /\ UNCHANGED stage

-----------------------------------------------------------------------------
(***************************************************************************)
(* The loop and the presenter's part that runs in it.                      *)
(***************************************************************************)
IsRunning(g) == g \in DOMAIN thread /\ thread[g] # "done"

\* The quit event itself is left out: a game may end or not after it.
QuitGame == running' = FALSE

RunGameThread ==
    /\ running' = TRUE
    /\ restart' = FALSE
    /\ thread' = Append(thread, "init")

\* The calls runWindow deferred are made when it returns.
AppEnds ==
    /\ app' = "ended"
    /\ QuitGame
    /\ UNCHANGED <<restart, thread, mef>>

OnVisible ==
    IF running THEN AppEnds
    ELSE RunGameThread /\ UNCHANGED <<app, mef>>

OnRestart ==
    IF running
    THEN /\ app' = "waiting"
         /\ restart' = TRUE
         /\ QuitGame
         /\ UNCHANGED <<thread, mef>>
    ELSE RunGameThread /\ mef' = NoError /\ UNCHANGED app

OnLifecycle(e) ==
    IF e = StageDeadEvent THEN AppEnds
    ELSE IF e = StageRestartEvent THEN OnRestart
    ELSE IF CrossesVisible(e) THEN OnVisible
    ELSE UNCHANGED <<app, game, mef>>

\* Mutant: an end without an error is taken for a restart.
OnModelErrorOnly(e) ==
    IF mef # NoError THEN AppEnds
    ELSE /\ mef' = IF e.cause = "error" THEN e.game ELSE NoError
         /\ UNCHANGED <<app, game>>

OnModelError(e) ==
    IF mef # NoError \/ e.cause = "nil" THEN AppEnds
    ELSE /\ mef' = IF e.cause = "restart" THEN NoError ELSE e.game
         /\ UNCHANGED <<app, game>>

OnKey(e) ==
    IF e.code = "enter" /\ mef # NoError THEN AppEnds
    ELSE UNCHANGED <<app, game, mef>>

SendsItself(e) == IF e = KeyEvent("f5") THEN <<StageRestartEvent>> ELSE <<>>

NextEvent ==
    /\ app = "running" /\ queue # <<>>
    /\ LET e == Head(queue)
       IN /\ queue' = Tail(queue) \o SendsItself(e)
          /\ CASE e.type = "lifecycle" -> OnLifecycle(e)
               [] e.type = "model error" -> OnModelError(e)
               [] e.type = "key" -> OnKey(e)
    /\ UNCHANGED <<screen, stage, events, scripts>>

GameStoppedNot == TRUE \* mutant: the loop does not wait for the thread

GameStopped == ~ IsRunning(gen)

RestartGameThread ==
    /\ app = "waiting" /\ GameStopped
    /\ app' = "running"
    /\ RunGameThread
    /\ mef' = NoError
    /\ UNCHANGED <<screen, queue, stage, events, scripts>>

QuitTimeout ==
    /\ app = "waiting" /\ IsRunning(gen)
    /\ AppEnds
    /\ UNCHANGED <<screen, queue, stage, events, scripts>>

-----------------------------------------------------------------------------
(***************************************************************************)
(* The thread of a game.                                                   *)
(***************************************************************************)
Lives == app \in {"running", "waiting"}

Goes(g, from, to) ==
    /\ Lives
    /\ g \in DOMAIN thread /\ thread[g] = from
    /\ thread' = [thread EXCEPT ![g] = to]

InitEnds(g) ==
    /\ \E to \in {"main", "failing"} : Goes(g, "init", to)
    /\ UNCHANGED <<screen, loop, stage, running, restart, events, scripts>>

\* An error of a script, or a panic.
MainFails(g) ==
    /\ Goes(g, "main", "failing")
    /\ UNCHANGED <<screen, loop, stage, running, restart, events, scripts>>

\* The script quits, or a call tells it that the input port was closed.
MainReturns(g) ==
    /\ Goes(g, "main", "done")
    /\ queue' = Append(queue, ModelError(g, IF restart THEN "restart" ELSE "nil"))
    /\ restart' = FALSE
    /\ UNCHANGED <<screen, stage, app, mef, running, events, scripts>>

\* The error goes to the view that is current; without one the process dies.
OnErrorInModel(g) ==
    /\ IF CanPrint(screen)
       THEN /\ Goes(g, "failing", "done")
            /\ screen' = PrintLine(screen, "error")
            /\ queue' = Append(queue, ModelError(g, "error"))
            /\ UNCHANGED app
       ELSE /\ Goes(g, "failing", "failing")
            /\ app' = "crashed"
            /\ UNCHANGED <<screen, queue>>
    /\ UNCHANGED <<stage, mef, running, restart, events, scripts>>

-----------------------------------------------------------------------------
(***************************************************************************)
(* What a script does to the screen.  A call that fails raises an error,   *)
(* which the script may catch: what the call changed stays.                *)
(***************************************************************************)
Call(g, s, fails) ==
    /\ Lives /\ g \in DOMAIN thread /\ thread[g] = "main" /\ calls < MaxCalls
    /\ calls' = calls + 1
    /\ screen' = s
    /\ raised' = fails
    /\ UNCHANGED <<loop, stage, game, events>>

PrintIn(s) == PrintLine(s, s.pen[s.current])

\* Printing panics where the editor refuses (a label without a text, an image,
\* a space or a bar of letters without a width), before anything was printed
\* or after.  With a view that was named nothing sets the view back then.
Panics(s) == {s, PrintIn(s)}

VPrint(s, v) == SetBack(PrintIn(SetCurrentView(s, v)), s.current)

VClear(s, v) == SetBack(ClearLineAll(SetCurrentView(s, v)), s.current)

ScriptPrints(g) ==
    /\ CanPrint(screen)
    /\ \/ Call(g, PrintIn(screen), FALSE)
       \/ \E s \in Panics(screen) : Call(g, s, TRUE)

ScriptClears(g) ==
    /\ CanPrint(screen)
    /\ \E s \in {ClearLine(screen), ClearLineAll(screen)} : Call(g, s, FALSE)

ScriptSetsPen(g) == CanPrint(screen) /\ \E p \in Pens : Call(g, SetPen(screen, p), FALSE)

ScriptVPrints(g) ==
    \E v \in Views(screen) :
        \/ Call(g, VPrint(screen, v), FALSE)
        \/ \E s \in Panics(SetCurrentView(screen, v)) : Call(g, s, TRUE)

ScriptVClears(g) == \E v \in Views(screen) : Call(g, VClear(screen, v), FALSE)

ScriptSetsView(g) == \E v \in Views(screen) : Call(g, SetCurrentView(screen, v), FALSE)

SetsLayout(g, l) == Call(g, SetLayout(screen, l), SetLayout(screen, l).torn)

ScriptSetsLayout(g) == \E l \in Layouts : SetsLayout(g, l)

\* The title scene shows the view that is current alone.
TitleSetsLayout(g) == SetsLayout(g, Text(screen.current))

ScriptCalls(g) ==
    \/ ScriptPrints(g) \/ ScriptClears(g) \/ ScriptSetsPen(g)
    \/ ScriptVPrints(g) \/ ScriptVClears(g)
    \/ ScriptSetsView(g) \/ ScriptSetsLayout(g)
    \/ TitleSetsLayout(g)

-----------------------------------------------------------------------------
DesktopInit ==
    /\ screen = FirstScreen
    /\ queue = <<>> /\ stage = "dead" /\ app = "running"
    /\ running = FALSE /\ restart = FALSE
    /\ thread = <<>>
    /\ mef = NoError
    /\ events = 0 /\ calls = 0 /\ raised = FALSE

Window ==
    \/ \E to \in {"dead", "alive", "visible", "focused"} : WindowChanges(to)
    \/ \E code \in {"f5", "enter"} : KeyPressed(code)

EventLoop == NextEvent \/ RestartGameThread \/ QuitTimeout

GameThread(g) ==
    \/ InitEnds(g) \/ MainFails(g) \/ MainReturns(g)
    \/ OnErrorInModel(g) \/ ScriptCalls(g)

DesktopNext == Window \/ EventLoop \/ \E g \in DOMAIN thread : GameThread(g)

(***************************************************************************)
(* The loop and the steps of a game that need nobody are taken in time.  A *)
(* game need not end, even when it was told to quit: the loop stops        *)
(* waiting for it after ten seconds.                                       *)
(***************************************************************************)
Fairness ==
    /\ WF_desktopVars(EventLoop)
    /\ \A g \in Games : WF_desktopVars(InitEnds(g) \/ OnErrorInModel(g))

DesktopSpec == DesktopInit /\ [][DesktopNext]_desktopVars /\ Fairness

-----------------------------------------------------------------------------
Kept == Views(screen) \cap Views(screen)'

SameLayout == Views(screen)' = Views(screen) /\ screen.parent' = screen.parent /\ screen.root' = screen.root

Changed == {v \in Kept : screen.text[v] # screen.text'[v] \/ screen.pen[v] # screen.pen'[v]}

DesktopTypeOK ==
    /\ Views(screen) \subseteq Names
    /\ screen.text \in [Views(screen) -> UNION {[1..n -> Pens \cup {"error"}] : n \in 0..MaxLines}]
    /\ screen.pen \in [Views(screen) -> Pens]
    /\ screen.parent \in [Views(screen) -> {"screen", "none"}]
    /\ screen.current \in Names
    /\ screen.root \in Views(screen) \cup {NoView}
    /\ app \in {"running", "waiting", "ended", "crashed"}
    /\ running \in BOOLEAN /\ restart \in BOOLEAN
    /\ thread \in Seq({"init", "main", "failing", "done"})
    /\ mef \in DOMAIN thread \cup {NoError}

\* Unless the last layout failed half way, the views that live are those on
\* screen, and what is printed goes to one of them (parse_layout.go).
LayoutHolds ==
    ~screen.torn => OnScreen(screen) = Views(screen) /\ screen.current \in OnScreen(screen)

\* Printing panics only when no view is left: as long as one lives, the view
\* that is printed to has not been closed (vmanager.go).
CurrentLives == Views(screen) # {} => screen.current \in Views(screen)

\* A layout keeps what the views it names again hold, and no other call
\* changes more than one view.
TextKept ==
    [][Cardinality(Changed) <= 1 /\ (~SameLayout => Changed = {})]_desktopVars

\* Whatever is printed to a view by its name, the view that is current stays so, unless
\* the call fails: then, and only for the view that the call named, the script that
\* catches the error goes on in that one (outputport.go:105).
CurrentIsRestored ==
    [][SameLayout /\ Changed # {} =>
         IF raised' THEN screen'.current \in Changed ELSE screen'.current = screen.current]_desktopVars

\* A restart never lets two games run at once: they would share the views.
OneGame == \A g, h \in DOMAIN thread : IsRunning(g) /\ IsRunning(h) => g = h

\* While the loop waits for Enter, the error of the game is what one reads.
ErrorShown ==
    mef # NoError /\ mef = gen =>
        CanPrint(screen) /\ screen.text[screen.current] # <<>> /\ Last(screen.text[screen.current]) = "error"

\* A game that has ended is noticed: the application ends, or another game has
\* been started, or the user reads the error.
EndIsNoticed ==
    \A g \in Games : g \in DOMAIN thread /\ thread[g] = "done" ~> app = "ended" \/ gen > g \/ mef = g

\* A restart comes to an end: the loop does not wait for a game for ever.
RestartIsAnswered == app = "waiting" ~> app # "waiting"

\* There is a view to print to, the views are those of the layout, and the error
\* that stopped the game can be read.
ScreenHolds == DesktopTypeOK /\ CurrentLives /\ LayoutHolds /\ ErrorShown

\* The end of a game and a restart are both answered by the loop.
EndsAreAnswered == EndIsNoticed /\ RestartIsAnswered
=============================================================================
