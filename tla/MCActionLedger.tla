--------------------------- MODULE MCActionLedger ---------------------------
(***************************************************************************)
(* Small instances of the action ledger for TLC.                             *)
(***************************************************************************)
EXTENDS ActionLedger, TLC

CONSTANTS p1, p2, k1, k2, k3, charge, deploy

\* Two independent actions of two kinds, each with two attempts.
TwoKinds == k1 :> charge @@ k2 :> deploy
TwoAttempts == charge :> 2 @@ deploy :> 2

\* Two actions of a kind that may only have one, beside one of another kind.
ThreeKeys == k1 :> charge @@ k2 :> charge @@ k3 :> deploy
OneDeploy == charge :> 2 @@ deploy :> 1
OneCharge == charge :> 1

Unlimited == <<>>

Symmetry == Permutations({p1, p2})
=============================================================================
