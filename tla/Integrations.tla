----------------------------- MODULE Integrations -----------------------------
(***************************************************************************)
(* The two commands that write outside the database: the Hermes integration  *)
(* and the hook file.  They share no file, so interleaving the steps of one   *)
(* with those of the other would show nothing that each does not show alone: *)
(* either has the machine to itself while a command of it is under way.      *)
(***************************************************************************)
EXTENDS HermesIntegration, HookFile

vars == <<hermes, hookVars>>

Init == HermesInit /\ HooksInit

Next ==
    \/ /\ \A e \in Editors : EditorAt(e, "idle")
       /\ HermesNext
       /\ UNCHANGED hookVars
    \/ /\ run.pc \in Ended
       /\ HooksNext
       /\ UNCHANGED hermes

Spec == Init /\ [][Next]_vars

\* Every variable of the two keeps its type.
TypeOK == HermesTypeOK /\ HooksTypeOK
=============================================================================
