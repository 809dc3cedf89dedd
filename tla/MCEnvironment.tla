---------------------------- MODULE MCEnvironment ----------------------------
(***************************************************************************)
(* A small instance of the environment check for TLC: three components that  *)
(* require each other in chains and circles, a pin of all of them and a pin  *)
(* of one alone.                                                             *)
(***************************************************************************)
EXTENDS Environment, TLC

CONSTANTS fact, finding, decision, v1, v2

MCPins == {[c \in Components |-> v1], (fact :> v2) @@ [c \in Components |-> Missing]}

MCObservations ==
    {[c \in Components |-> v1],
     (fact :> v2 @@ finding :> Missing @@ decision :> v1)}

MCRequirements == {{finding}, {decision}, {fact, finding}}
=============================================================================
