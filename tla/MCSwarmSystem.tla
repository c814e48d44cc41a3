--------------------------- MODULE MCSwarmSystem ---------------------------
(***************************************************************************)
(* SwarmSystem with its directions interchangeable: a target keeps whose   *)
(* it is and which way it leads, and nothing distinguishes one way.        *)
(***************************************************************************)
EXTENDS SwarmSystem, TLC

MCDirections == Permutations(DIRECTIONS)
=============================================================================
