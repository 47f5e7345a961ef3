------------------------------ MODULE MCImages ------------------------------
(***************************************************************************)
(* A wide picture and a high one that is not decoded to RGBA, units of     *)
(* whole and of broken pixels, and the sizes with none, one or both sides. *)
(***************************************************************************)
EXTENDS Images, TLC

MCPictures == { [w |-> 40, h |-> 6, rgba |-> TRUE], [w |-> 7, h |-> 33, rgba |-> FALSE] }
MCUnits == { Size(500, 900) }
MCAsks == { Size(0, -1), Size(2, 0), Size(2, 1) }
FilesAlike == Permutations(Files)
=============================================================================
