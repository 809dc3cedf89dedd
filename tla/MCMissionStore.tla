--------------------------- MODULE MCMissionStore ---------------------------
(***************************************************************************)
(* Small instances of the mission store for TLC.                             *)
(***************************************************************************)
EXTENDS MissionStore, TLC

CONSTANTS p1, p2

Symmetry == Permutations({p1, p2})
=============================================================================
