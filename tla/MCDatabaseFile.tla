--------------------------- MODULE MCDatabaseFile ---------------------------
(***************************************************************************)
(* Small instances of the database file for TLC.                             *)
(***************************************************************************)
EXTENDS DatabaseFile, TLC

CONSTANTS h1, h2, j1, j2, pg1, pg2

Symmetry == Permutations({h1, h2}) \cup Permutations({j1, j2}) \cup Permutations({pg1, pg2})
=============================================================================
