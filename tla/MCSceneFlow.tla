---------------------------- MODULE MCSceneFlow ----------------------------
(***************************************************************************)
(* Instances of SceneFlow: a game with the transitions that the built-in   *)
(* scenes are meant for, and the flows its scripts start in them.          *)
(***************************************************************************)
EXTENDS SceneFlow

\* the scripts of base send the player on, those of ablup end the turn, a game
\* goes back to its title from base, and loadend may ask for the autosave scene
GameJumps == [ s \in AllScenes |->
                 CASE s = "base"    -> { "shop", "train", "title" }
                   [] s = "train"   -> { "base" }
                   [] s = "ablup"   -> { "turnend" }
                   [] s = "loadend" -> { "autosave" }
                   [] OTHER         -> {} ]

\* saving and loading wherever a game has begun, doTrains in the train scene
GameFlows == [ s \in AllScenes |->
                 CASE s \in { "booting", "title" } -> {}
                   [] s = "train"                -> { "trains", "load" }
                   [] OTHER                      -> { "save", "load" } ]

\* two scripts deep; three while the autosave is written, where a script may save,
\* and one that this calls may load
GameDepths == [ s \in AllScenes |-> IF s = "autosave" THEN 3 ELSE 2 ]

\* the game keeps to what the theorems about its saves and loads ask of it
ASSUME GameAssumption ==
  /\ NewGameByTitle /\ GameBeginsAtTitle
  /\ AutosaveNeedsPlay({ "loadend", "autosave", "base", "shop", "train", "title" })
=============================================================================
