----------------------------- MODULE MCMissions -----------------------------
(***************************************************************************)
(* Small instances of missions in several files for TLC.                     *)
(***************************************************************************)
EXTENDS Missions, TLC

CONSTANTS s1, s2

Symmetry == Permutations({s1, s2})
=============================================================================
