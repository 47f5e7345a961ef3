----------------------------- MODULE SceneGraph -----------------------------
(***************************************************************************)
(* What the scene flow of the game promises, without how it gets there:    *)
(* one scene runs at a time, and it is followed by the scene the game's    *)
(* rules name, by one its scripts chose, by `loadend' when a game was      *)
(* loaded, or, from the shop, by the scene the player came from.           *)
(***************************************************************************)
EXTENDS SceneNames

CONSTANTS Jumps,        \* Jumps[s]: the scenes that scripts running in s choose next
          NoScene       \* Go's nil Scene

\* the scenes the rules of scene s name themselves
Rules(s) == CASE s \in DOMAIN DefaultNext -> { DefaultNext[s] }
              [] s = "booting" -> { "title" }
              [] s = "title"   -> { "newgame" }
              [] s = "train"   -> { "trainend" }
              [] OTHER         -> {}

\* the scenes that may follow scene s when it was entered from scene p
Follow(s, p) == Rules(s) \cup Jumps[s] \cup { "loadend" }
                         \cup IF s = "shop" THEN { p } ELSE {}

VARIABLES scene,        \* the running scene
          came,         \* the scene that ran before it, or NoScene
          ended         \* whether the flow is over

Init == scene = "booting" /\ came = NoScene /\ ended = FALSE

Moves == /\ ~ended
         /\ scene' \in Follow(scene, came) \ { NoScene }
         /\ came' = scene
         /\ UNCHANGED ended

Ends == ~ended /\ ended' = TRUE /\ UNCHANGED << scene, came >>

Spec == Init /\ [][Moves \/ Ends]_<< scene, came, ended >>
=============================================================================
