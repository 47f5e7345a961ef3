------------------------------ MODULE SceneFlow ------------------------------
(***************************************************************************)
(* The scene manager and the built-in scenes (scene/), with the functions  *)
(* of the flow module that scripts call back into them.  One thread runs   *)
(* all of it: `pc' is its stack, the innermost call first.  A callback of  *)
(* the scripts is a frame of its own, whose steps are the choices a script *)
(* has: choose the next scene, start the save, load or train flow inside   *)
(* the running one, return, or leave by an error.                          *)
(***************************************************************************)
EXTENDS SceneNames, Integers, Sequences, FiniteSets

CONSTANTS Jumps,        \* Jumps[s]: the scenes that scripts running in s choose next
          NoScene,      \* Go's nil Scene
          Commands,     \* the numbers of the train commands, 0 .. n - 1
          Unnamed,      \* those without a name in the CSV
          Slots,        \* the numbers of the save files a player may choose
          CanAutoSave,  \* Config.CanAutoSave
          FlowCalls,    \* FlowCalls[s]: the flows scripts start in s, any of "save", "load", "trains"
          Pcall,        \* whether scripts call the flow module under pcall
          MaxScripts    \* bound: MaxScripts[s] script calls nested through the flow module in s

VARIABLES
  current,    \* SceneManager.currentScene
  prev, next, \* sceneHolder.prev, .next
  pc,         \* the stack of the game thread: frames [at, n], n a number the call holds
  ans,        \* the boolean the last callback returned
  res,        \* the scene the load flow returned
  canTrain, ables, shown,  \* trainScene.can_do_train, .command_ables, .user_shown_other_commands
  data,       \* where the game's data come from
  saved,      \* what each save file holds
  over        \* how SceneManager.Run ended

\* the abstract flow that this one implements
Graph == INSTANCE SceneGraph WITH scene <- current, came <- prev, ended <- (over # "no")
AutoSlot == 99                       \* autoSaveNumber

ASSUME SceneAssumption ==
  /\ NoScene \notin AllScenes
  /\ Jumps \in [AllScenes -> SUBSET AllScenes]
  /\ Commands \subseteq Nat /\ \A c \in Commands : 0 .. c \subseteq Commands
  /\ Unnamed \subseteq Commands
  /\ Slots \subseteq 0 .. 19
  /\ {CanAutoSave, Pcall} \subseteq BOOLEAN
  /\ FlowCalls \in [AllScenes -> SUBSET {"save", "load", "trains"}]
  /\ MaxScripts \in [AllScenes -> Nat \ {0}]

holder == << prev, next >>
trainVars == << canTrain, ables, shown >>
gameVars == << data, saved >>
vars == << current, prev, next, pc, ans, res, canTrain, ables, shown, data, saved, over >>

F(at, n) == [at |-> at, n |-> n]
Script == F("script", 0)
Files == Slots \cup {AutoSlot}

Init == /\ current = "booting" /\ prev = NoScene /\ next = NoScene
        /\ pc = << F("enter", 0) >>
        /\ ans = FALSE /\ res = NoScene
        /\ canTrain = FALSE /\ ables = [c \in Commands |-> FALSE] /\ shown = FALSE
        /\ data = "none" /\ saved = [f \in Files |-> "absent"]
        /\ over = "no"

(***************************************************************************)
(* The stack.                                                              *)
(***************************************************************************)
At(l) == pc # << >> /\ Head(pc).at = l
N == Head(pc).n
Become(fs) == pc' = fs \o Tail(pc)          \* the running call goes on as fs
Goto(l, n) == Become(<< F(l, n) >>)
Return == pc' = Tail(pc)

\* call a script function that must not be missing, then go on at l
Call(l, n) == Become(<< Script, F(l, n) >>) /\ UNCHANGED ans

\* maybeCall, checkCall and cautionCall with the result ignored or FALSE when
\* the scripts do not define the function
Optional(l, n) == Call(l, n) \/ (Goto(l, n) /\ ans' = FALSE)

(***************************************************************************)
(* SceneManager.Run: what it does with the result of Scene.Next.           *)
(***************************************************************************)
\* (mutant) the next scene is not reset
SwitchKeepsNext(s) == /\ prev' = current /\ current' = s /\ next' = next
                      /\ pc' = << F("enter", 0) >> /\ res' = NoScene
                      /\ UNCHANGED over

Switch(s) == /\ prev' = current /\ current' = s /\ next' = NoScene
             /\ pc' = << F("enter", 0) >> /\ res' = NoScene
             /\ UNCHANGED over

Finish(how) == /\ over' = how /\ pc' = << >> /\ res' = NoScene
               /\ UNCHANGED << current, prev >>

\* (mutant) trainCycle does not reset can_do_train
LeaveAllowsTrain(s) == /\ IF s # NoScene THEN Switch(s) ELSE Finish("notfound") /\ UNCHANGED next
                       /\ UNCHANGED << ans, canTrain, ables, shown, data, saved >>

\* the scene returns s and no error; trainCycle resets can_do_train on its way out
Leave(s) == /\ canTrain' = FALSE
            /\ IF s # NoScene THEN Switch(s) ELSE Finish("notfound") /\ UNCHANGED next
            /\ UNCHANGED << ans, ables, shown, data, saved >>

(***************************************************************************)
(* An error of kind k leaves the running call, with nx chosen as the next  *)
(* scene.  A script that called the flow under pcall may catch it; what    *)
(* pcall throws again is told by the error's text, which only              *)
(* flow.loadScene restores, and only for "next".                           *)
(***************************************************************************)
Rethrown(k, i) == k = "next" /\ \A j \in 2 .. i : pc[j].at = "script" => pc[j - 1].at = "nestedLoad"
Catchers(k) == { i \in 2 .. Len(pc) : pc[i].at = "script" /\ ~Rethrown(k, i) }

\* CheckTrainCommand stores the false that comes with an error
Unwind(n) == ables' = [c \in Commands |->
                         /\ ables[c]
                         /\ ~\E j \in 2 .. n : pc[j].at \in {"checked", "trainsChecked"} /\ pc[j].n = c]

Caught(k, nx) == /\ Pcall
                 /\ \E i \in Catchers(k) : pc' = SubSeq(pc, i, Len(pc)) /\ Unwind(i)
                 /\ next' = nx /\ res' = NoScene
                 /\ UNCHANGED << current, prev, canTrain, over >>

Uncaught(k, nx) ==
  /\ canTrain' = FALSE /\ Unwind(Len(pc))
  /\ CASE k = "next" /\ nx # NoScene -> Switch(nx)
       [] k = "next" /\ nx = NoScene -> Finish("notfound") /\ next' = nx
       [] k # "next"                 -> Finish(k) /\ next' = nx

Raise(k, nx) == (Caught(k, nx) \/ Uncaught(k, nx)) /\ UNCHANGED << ans, shown >>

(***************************************************************************)
(* What a script may do while it runs.                                     *)
(***************************************************************************)
ScriptDepth == Cardinality({ i \in DOMAIN pc : pc[i].at = "script" })
MayNest(flow) == flow \in FlowCalls[current] /\ ScriptDepth < MaxScripts[current]

\* flow.setNextScene
ScriptChooses == /\ At("script")
                 /\ next' \in Jumps[current]
                 /\ UNCHANGED << current, prev, pc, ans, res, trainVars, gameVars, over >>

ScriptReturns == /\ At("script") /\ Return
                 /\ ans' \in BOOLEAN
                 /\ UNCHANGED << current, holder, res, trainVars, gameVars, over >>

\* flow.gotoNextScene, flow.quit, or an error of the script
ScriptExits == /\ At("script")
               /\ \/ \E s \in Jumps[current] : Raise("next", s)
                  \/ \E k \in {"quit", "error"} : Raise(k, next)
               /\ UNCHANGED gameVars

\* flow.saveScene
ScriptSaves == /\ At("script") /\ MayNest("save")
               /\ pc' = << F("saveEnter", 0) >> \o pc
               /\ UNCHANGED << current, holder, ans, res, trainVars, gameVars, over >>

\* flow.loadScene
ScriptLoads == /\ At("script") /\ MayNest("load")
               /\ pc' = << F("loadEnter", 0), F("nestedLoad", 0) >> \o pc
               /\ UNCHANGED << current, holder, ans, res, trainVars, gameVars, over >>

\* flow.doTrains; outside of the train scene it only raises an error
ScriptTrains == /\ At("script") /\ MayNest("trains") /\ current = "train"
                /\ \E c \in Commands : pc' = << F("trainsCheck", c) >> \o pc
                /\ UNCHANGED << current, holder, ans, res, trainVars, gameVars, over >>

Scripts == ScriptChooses \/ ScriptReturns \/ ScriptExits \/ ScriptSaves \/ ScriptLoads \/ ScriptTrains

(***************************************************************************)
(* The start of a scene: the boot scene loads the scripts; every other one *)
(* calls <name>_scene if it exists and <name>_event_start otherwise.       *)
(***************************************************************************)
Boots == /\ At("enter") /\ current = "booting"
         /\ Call("booted", 0)
         /\ UNCHANGED << current, holder, res, trainVars, gameVars, over >>

Booted == At("booted") /\ current = "booting" /\ Leave("title")

Enters == /\ At("enter") /\ current # "booting"
          /\ \/ Call("replaced", 0)
             \/ Optional("body", 0)
          /\ UNCHANGED << current, holder, res, trainVars, gameVars, over >>

\* <name>_scene was called: its choice is the next scene; without one the scene goes on
Replaced == /\ At("replaced")
            /\ \/ /\ next # NoScene /\ Leave(next)
               \/ /\ next = NoScene /\ Goto("body", 0)
                  /\ UNCHANGED << current, holder, ans, res, trainVars, gameVars, over >>

(***************************************************************************)
(* The scenes.  Those with a default end with the choice of the scripts or *)
(* with it; the others loop until a next scene is chosen.                  *)
(***************************************************************************)
Passes == current \in DOMAIN DefaultNext

Then == /\ At("then") /\ Passes
        /\ Leave(IF next # NoScene THEN next ELSE DefaultNext[current])

NewGame == /\ At("body") /\ current = "newgame"
           /\ Optional("then", 0)
           /\ UNCHANGED << current, holder, res, trainVars, gameVars, over >>

NothingToDo == /\ At("body") /\ current \in {"trainend", "turnend", "loadend"}
               /\ Goto("then", 0)
               /\ UNCHANGED << current, holder, ans, res, trainVars, gameVars, over >>

\* (mutant) saves after a load too
AutoSaveAlways == /\ At("body") /\ current = "autosave"
                  /\ IF CanAutoSave
                       THEN \/ Call("then", 0)
                            \/ Become(<< F("saveCall", AutoSlot), F("then", 0) >>) /\ UNCHANGED ans
                       ELSE Goto("then", 0) /\ UNCHANGED ans
                  /\ UNCHANGED << current, holder, res, trainVars, gameVars, over >>

\* saved when the scene before was not loadend, unless autosave_replace does it
AutoSave == /\ At("body") /\ current = "autosave"
            /\ IF prev # NoScene /\ prev # "loadend" /\ CanAutoSave
                 THEN \/ Call("then", 0)
                      \/ Become(<< F("saveCall", AutoSlot), F("then", 0) >>) /\ UNCHANGED ans
                 ELSE Goto("then", 0) /\ UNCHANGED ans
            /\ UNCHANGED << current, holder, res, trainVars, gameVars, over >>

Loops == current \in {"title", "base", "shop", "train", "ablup"}

\* trainCycle allows DoTrain for as long as it runs
Begins == /\ At("body") /\ Loops
          /\ Goto("loop", 0)
          /\ canTrain' = (current = "train")
          /\ UNCHANGED << current, holder, ans, res, ables, shown, gameVars, over >>

\* (mutant) the loop also ends without a next scene
LoopEndsEarly == /\ At("loop") /\ Loops
                 /\ Leave(next)

LoopEnds == /\ At("loop") /\ Loops /\ next # NoScene
            /\ Leave(next)

\* the menus that the scripts show or replace before the player is asked
Shows == /\ At("loop") /\ Loops /\ next = NoScene
         /\ CASE current = "title" -> Goto("input", 0) /\ UNCHANGED ans
              [] current = "train" -> Optional("check", 0)
              [] current = "ablup" -> Optional("showMenu", 0)
              [] OTHER             -> Optional("input", 0)
         /\ UNCHANGED << current, holder, res, trainVars, gameVars, over >>

ShowsMore == /\ At("showMenu") /\ Optional("input", 0)
             /\ UNCHANGED << current, holder, res, trainVars, gameVars, over >>

\* inputLoop of base, shop and ablup: ask again until the input is handled
Handled == /\ At("handled")
           /\ IF ans THEN Goto("loop", 0) ELSE Goto("input", 0)
           /\ UNCHANGED << current, holder, ans, res, trainVars, gameVars, over >>

Begun == {"fresh", "loaded", "played"}       \* data of a game that was started or loaded whole

\* what the player does changes a game that was begun
Played == data' = IF data \in Begun THEN "played" ELSE data

MenuInput == /\ At("input") /\ current \in {"base", "ablup"}
             /\ Optional("handled", 0)
             /\ Played
             /\ UNCHANGED << current, holder, res, trainVars, saved, over >>

ShopInput == /\ At("input") /\ current = "shop"
             /\ \E n \in {-1, 0} : Optional("shopInput", n)
             /\ Played
             /\ UNCHANGED << current, holder, res, trainVars, saved, over >>

\* shop_event_menu_selected did not handle it: -1 goes back, the rest buys an item
ShopChoice == /\ At("shopInput") /\ current = "shop"
              /\ CASE ans          -> Goto("loop", 0) /\ UNCHANGED << ans, next >>
                   [] ~ans /\ N = -1 -> Goto("loop", 0) /\ next' = prev /\ UNCHANGED ans
                   [] ~ans /\ N # -1 -> Optional("handled", 0) /\ UNCHANGED next
              /\ UNCHANGED << current, prev, res, trainVars, gameVars, over >>

(***************************************************************************)
(* The title.                                                              *)
(***************************************************************************)
\* (mutant) a new game does not clear the data of the last one
TitleNewKeeps == /\ At("input") /\ current = "title"
                 /\ Switch("newgame")
                 /\ UNCHANGED << ans, trainVars, data, saved >>

TitleNew == /\ At("input") /\ current = "title"
            /\ data' = "fresh"
            /\ Switch("newgame")
            /\ UNCHANGED << ans, trainVars, saved >>

TitleLoad == /\ At("input") /\ current = "title"
             /\ \/ Call("titleReplaced", 0)
                \/ Become(<< F("loadAsk", 0), F("titleLoad", 0) >>) /\ UNCHANGED ans
             /\ UNCHANGED << current, holder, res, trainVars, gameVars, over >>

TitleReplaced == /\ At("titleReplaced")
                 /\ \/ next # NoScene /\ Leave(next)
                    \/ /\ next = NoScene /\ Goto("loop", 0)
                       /\ UNCHANGED << current, holder, ans, res, trainVars, gameVars, over >>

\* (mutant) the way back from the list of save files counts as a load
TitleLoadedAnyway == /\ At("titleLoad")
                     /\ Leave("loadend")

TitleLoaded == /\ At("titleLoad")
               /\ \/ res # NoScene /\ Leave(res)
                  \/ /\ res = NoScene /\ Goto("loop", 0)
                     /\ UNCHANGED << current, holder, ans, res, trainVars, gameVars, over >>

TitleQuit == /\ At("input") /\ current = "title"
             /\ Uncaught("quit", next)
             /\ UNCHANGED << ans, shown, gameVars >>

(***************************************************************************)
(* The train scene: status, which commands can be done, menu, command.     *)
(***************************************************************************)
SetAble(n, b) == ables' = [ables EXCEPT ![n] = b]

\* CheckAllTrainCommands, one command a step
CheckCommand == /\ At("check") /\ N \in Commands
                /\ \/ N \notin Unnamed /\ Call("checked", N) /\ UNCHANGED ables
                   \/ Goto("check", N + 1) /\ SetAble(N, N \notin Unnamed) /\ UNCHANGED ans
                /\ UNCHANGED << current, holder, res, canTrain, shown, gameVars, over >>

Checked == /\ At("checked")
           /\ Goto("check", N + 1) /\ SetAble(N, ans)
           /\ UNCHANGED << current, holder, ans, res, canTrain, shown, gameVars, over >>

\* showTrainCommands, and train_replace_show_other_cmd or the builtin [-1] Back
ShowsCommands == /\ At("check") /\ N \notin Commands
                 /\ \/ Call("shownOther", 0) /\ UNCHANGED shown
                    \/ Goto("input", 0) /\ shown' = FALSE /\ UNCHANGED ans
                 /\ UNCHANGED << current, holder, res, canTrain, ables, gameVars, over >>

ShownOther == /\ At("shownOther")
              /\ Goto("input", 0) /\ shown' = TRUE
              /\ UNCHANGED << current, holder, ans, res, canTrain, ables, gameVars, over >>

TrainInput == /\ At("input") /\ current = "train"
              /\ \E n \in Commands \cup {-1} : Become(<< F("doTrain", n), F("loop", 0) >>)
              /\ Played
              /\ UNCHANGED << current, holder, ans, res, trainVars, saved, over >>

Executable(n) == n \in Commands /\ ables[n]

DoTrain == /\ At("doTrain") /\ canTrain
           /\ \/ /\ Executable(N) \/ shown       \* train_user_cmd or train_user_other_cmd
                 /\ Optional("source", N)
                 /\ UNCHANGED next
              \/ /\ ~Executable(N) /\ ~shown
                 /\ Return
                 /\ next' = IF N = -1 THEN "trainend" ELSE next
                 /\ UNCHANGED ans
           /\ UNCHANGED << current, prev, res, trainVars, gameVars, over >>

\* can_do_train is false: errorExternalDoTrainNotAllowed
DoTrainRefused == /\ At("doTrain") /\ ~canTrain
                  /\ Raise("error", next)
                  /\ UNCHANGED gameVars

\* a handled command goes on with train_user_check_source and train_event_cmd_end
Source == /\ At("source")
          /\ IF ans THEN Optional("cmdEnd", N) ELSE Return /\ UNCHANGED ans
          /\ UNCHANGED << current, holder, res, trainVars, gameVars, over >>

CmdEnd == /\ At("cmdEnd")
          /\ \/ Become(<< Script >>)
             \/ Return
          /\ UNCHANGED << current, holder, ans, res, trainVars, gameVars, over >>

\* DoTrainsScene: each of the commands is checked, then done, until a next scene is chosen
TrainsCheck == /\ At("trainsCheck")
               /\ \/ N \notin Unnamed /\ Call("trainsChecked", N) /\ UNCHANGED ables
                  \/ /\ Become(<< F("doTrain", N), F("trainsNext", 0) >>)
                     /\ SetAble(N, N \notin Unnamed) /\ UNCHANGED ans
               /\ UNCHANGED << current, holder, res, canTrain, shown, gameVars, over >>

TrainsChecked == /\ At("trainsChecked")
                 /\ Become(<< F("doTrain", N), F("trainsNext", 0) >>) /\ SetAble(N, ans)
                 /\ UNCHANGED << current, holder, ans, res, canTrain, shown, gameVars, over >>

TrainsNext == /\ At("trainsNext")
              /\ \/ Return
                 \/ next = NoScene /\ \E c \in Commands : Goto("trainsCheck", c)
              /\ UNCHANGED << current, holder, ans, res, trainVars, gameVars, over >>

(***************************************************************************)
(* The save and load scenes, run inside the current scene.                 *)
(***************************************************************************)
SaveEnters == /\ At("saveEnter")
              /\ Call("saveReplaced", 0) \/ Optional("saveAsk", 0)
              /\ UNCHANGED << current, holder, res, trainVars, gameVars, over >>

SaveReplaced == /\ At("saveReplaced")
                /\ IF next # NoScene THEN Return ELSE Goto("saveAsk", 0)
                /\ UNCHANGED << current, holder, ans, res, trainVars, gameVars, over >>

\* 100 goes back; a file that exists is overwritten when the player says so
SaveAsk == /\ At("saveAsk")
           /\ Return \/ \E f \in Slots : Goto("saveCall", f)
           /\ UNCHANGED << current, holder, ans, res, trainVars, gameVars, over >>

\* saveGameSceneProcess
SaveCalls == /\ At("saveCall") /\ Optional("write", N)
             /\ UNCHANGED << current, holder, res, trainVars, gameVars, over >>

Writes == /\ At("write")
          /\ \/ /\ saved' = [saved EXCEPT ![N] = data] /\ Return
                /\ UNCHANGED << current, holder, ans, res, trainVars, over >>
             \/ /\ \E left \in {saved[N], "torn"} : saved' = [saved EXCEPT ![N] = left]
                /\ Raise("error", next)
          /\ UNCHANGED data

LoadEnters == /\ At("loadEnter")
              /\ Call("loadReplaced", 0) \/ Optional("loadAsk", 0)
              /\ UNCHANGED << current, holder, res, trainVars, gameVars, over >>

LoadReplaced == /\ At("loadReplaced")
                /\ IF next # NoScene THEN Return /\ res' = next ELSE Goto("loadAsk", 0) /\ UNCHANGED res
                /\ UNCHANGED << current, holder, ans, trainVars, gameVars, over >>

\* loadGameSceneProcess: 100 goes back; LoadSystem may fail before or amid the data
LoadAsk == /\ At("loadAsk")
           /\ \/ /\ Return /\ res' = NoScene
                /\ UNCHANGED << current, holder, ans, trainVars, data, over >>
              \/ \E f \in Files :
                   \/ /\ saved[f] \notin {"absent", "torn"}
                      /\ data' = (IF saved[f] \in Begun THEN "loaded" ELSE saved[f])
                      /\ res' = "loadend" /\ Return
                      /\ UNCHANGED << current, holder, ans, trainVars, over >>
                   \/ /\ saved[f] # "absent"
                      /\ data' \in {data, "mixed"}
                      /\ Raise("error", next)
           /\ UNCHANGED saved

\* DoLoadGameScene and flow.loadScene: a load never returns to the script
NestedLoaded == /\ At("nestedLoad")
                /\ \/ /\ res = NoScene /\ Return
                      /\ UNCHANGED << current, holder, ans, res, trainVars, over >>
                   \/ res # NoScene /\ Raise("next", res)
                /\ UNCHANGED gameVars

(***************************************************************************)
(* Asking the player, or printing that a function is missing, fails when   *)
(* the user interface is gone.                                             *)
(***************************************************************************)
UIGone == /\ \/ At("input") \/ At("saveAsk") \/ At("loadAsk") \/ At("showMenu")
             \/ At("loop") /\ next = NoScene /\ current # "title"
             \/ At("doTrain") /\ canTrain /\ (Executable(N) \/ shown)
             \/ At("source") /\ ans
          /\ Raise("error", next)
          /\ UNCHANGED gameVars

Scenes == \/ Boots \/ Booted \/ Enters \/ Replaced \/ Then \/ NewGame \/ NothingToDo \/ AutoSave
          \/ Begins \/ LoopEnds \/ Shows \/ ShowsMore \/ Handled \/ MenuInput \/ ShopInput \/ ShopChoice
          \/ TitleNew \/ TitleLoad \/ TitleReplaced \/ TitleLoaded \/ TitleQuit

Train == \/ CheckCommand \/ Checked \/ ShowsCommands \/ ShownOther \/ TrainInput \/ DoTrain
         \/ DoTrainRefused \/ Source \/ CmdEnd \/ TrainsCheck \/ TrainsChecked \/ TrainsNext

SaveLoad == \/ SaveEnters \/ SaveReplaced \/ SaveAsk \/ SaveCalls \/ Writes
            \/ LoadEnters \/ LoadReplaced \/ LoadAsk \/ NestedLoaded

Next == Scripts \/ Scenes \/ Train \/ SaveLoad \/ UIGone
Spec == Init /\ [][Next]_vars

-----------------------------------------------------------------------------
(***************************************************************************)
(* Properties.                                                             *)
(***************************************************************************)
\* where the scene itself is, and where the calls it makes are
SceneLabels == { "enter", "booted", "replaced", "body", "then", "loop", "showMenu", "input", "handled",
                 "shopInput", "titleReplaced", "titleLoad", "check", "checked", "shownOther" }
CallLabels == { "script", "doTrain", "source", "cmdEnd", "trainsCheck", "trainsChecked", "trainsNext",
                "saveEnter", "saveReplaced", "saveAsk", "saveCall", "write",
                "loadEnter", "loadReplaced", "loadAsk", "nestedLoad" }
Frame == [at : SceneLabels \cup CallLabels, n : Int]
Contents == Begun \cup {"none", "mixed"}

\* Types.  The stack holds frames of known calls, and every scene is a registered one.
TypeOK == /\ current \in AllScenes
          /\ prev \in AllScenes \cup {NoScene}
          /\ next \in AllScenes \cup {NoScene}
          /\ pc \in Seq(Frame)
          /\ ans \in BOOLEAN
          /\ res \in AllScenes \cup {NoScene}
          /\ canTrain \in BOOLEAN
          /\ ables \in [Commands -> BOOLEAN]
          /\ shown \in BOOLEAN
          /\ data \in Contents
          /\ saved \in [Files -> Contents \cup {"absent", "torn"}]
          /\ over \in {"no", "quit", "error", "notfound"}

\* The flow never ends for want of a next scene: a scene only returns without an
\* error when it has one, and the error that asks for the next scene
\* (ErrorSceneNext) is only raised after one was chosen (scene_manager.go:79, :95).
FlowGoesOn == over # "notfound"

\* the labels of trainCycle
CycleLabels == {"loop", "check", "checked", "shownOther", "input"}
InCycle == pc # << >> /\ current = "train" /\ pc[Len(pc)].at \in CycleLabels
\* A train command only runs inside a cycle of the train scene
\* (errorExternalDoTrainNotAllowed), however the flows nest and wherever the
\* cycle was left by an error or by a load.
TrainsInCycleOnly == (\E i \in DOMAIN pc : pc[i].at \in {"source", "cmdEnd"}) => InCycle

\* No save file ever holds data that were neither started nor loaded whole,
\* unless a script went on after a load of its own had failed amid the data
\* (LoadSystemData, file.go:93, decodes into the live state).
SavesAreWhole == \/ [](\A f \in Files : saved[f] \in Begun \cup {"absent", "torn"})
                 \/ <>(data = "mixed" /\ At("script"))

\* A game that was just loaded is not written over the autosave before the
\* player did anything (scene_autosave.go:36), unless a script caught the demand
\* for the scene by which its load ends, and went on.
LoadIsNotAutosaved == \/ [](saved[AutoSlot] # "loaded")
                      \/ <>(next = "loadend" /\ At("script"))

\* A new game starts from cleared data, also when another one was played before.
NewGameIsClear == current = "newgame" /\ At("enter") => data = "fresh"

\* The flow implements the abstract one: a scene is only followed by one that the
\* game's rules or its scripts name for it, by loadend, or by where the shop was
\* entered from.
FollowsTheGraph == Graph!Spec

-----------------------------------------------------------------------------
(***************************************************************************)
(* What a game's scripts must keep to for some of these properties.        *)
(***************************************************************************)
\* only the title starts a new game, and nobody goes shopping before it was saved
NewGameByTitle == (\A s \in AllScenes : "newgame" \notin Jumps[s]) /\ "shop" \notin Jumps["newgame"]

\* scripts start no save before a game was begun, and leave the title to its own items
Before == {"booting", "title"}
GameBeginsAtTitle == \A s \in Before : Jumps[s] \subseteq {"title"} /\ "save" \notin FlowCalls[s]

\* the scenes Us, to which loadend belongs, are left without the player only for others
\* of Us, and for autosave only from loadend
AutosaveNeedsPlay(Us) ==
  /\ "loadend" \in Us /\ Us \subseteq AllScenes \ {"booting", "newgame", "turnend"}
  /\ \A s \in Us : Jumps[s] \subseteq Us /\ (s \in DOMAIN DefaultNext => DefaultNext[s] \in Us)
  /\ \A s \in Us \ {"loadend"} : "autosave" \notin Jumps[s]
=============================================================================
