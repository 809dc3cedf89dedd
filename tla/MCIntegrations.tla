--------------------------- MODULE MCIntegrations ---------------------------
(***************************************************************************)
(* A small instance of the integrations for TLC.                             *)
(***************************************************************************)
EXTENDS Integrations, TLC

CONSTANTS e1, e2, claudecode, codex

Symmetry == Permutations({e1, e2}) \cup Permutations({claudecode, codex})
=============================================================================
