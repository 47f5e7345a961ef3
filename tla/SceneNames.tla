----------------------------- MODULE SceneNames -----------------------------
(***************************************************************************)
(* The built-in scenes and the order the game's rules give them.           *)
(***************************************************************************)
AllScenes == { "booting", "title", "newgame", "autosave", "base", "shop",
               "train", "trainend", "ablup", "turnend", "loadend" }

(***************************************************************************)
(* The scene that follows when no script chose one.  Scenes that are not   *)
(* in its domain go on until a next scene is chosen.                       *)
(***************************************************************************)
DefaultNext == [ s \in { "newgame", "autosave", "trainend", "turnend", "loadend" } |->
               CASE s \in { "newgame", "turnend" } -> "autosave"
                 [] s \in { "autosave", "loadend" } -> "base"
                 [] s = "trainend" -> "ablup" ]
=============================================================================
