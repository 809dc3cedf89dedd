----------------------------- MODULE EffectOnce -----------------------------
(***************************************************************************)
(* What the action ledger promises about an external effect, without any    *)
(* database, process or crash: for every action there is what the world     *)
(* did (happened) and what the mission may rely on (known).  Nothing fires   *)
(* unless the action is claimed, which makes its outcome unknown; only       *)
(* reality can turn an unknown outcome into a known one.                     *)
(***************************************************************************)
EXTENDS Naturals

CONSTANT Keys      \* the actions (kind + arguments) of one mission

VARIABLES
    known,         \* "no": it did not happen; "maybe": unknown; "yes": it did
    happened       \* how many times the world performed it

vars == <<known, happened>>

TypeOK ==
    /\ known \in [Keys -> {"no", "maybe", "yes"}]
    /\ happened \in [Keys -> 0..1]

Init ==
    /\ known = [k \in Keys |-> "no"]
    /\ happened = [k \in Keys |-> 0]

Try(k) ==
    /\ known[k] = "no"
    /\ known' = [known EXCEPT ![k] = "maybe"]
    /\ UNCHANGED happened

Happen(k) ==
    /\ known[k] = "maybe"
    /\ happened[k] = 0
    /\ happened' = [happened EXCEPT ![k] = 1]
    /\ UNCHANGED known

Learn(k) ==
    /\ known[k] = "maybe"
    /\ known' = [known EXCEPT ![k] = IF happened[k] = 1 THEN "yes" ELSE "no"]
    /\ UNCHANGED happened

Next == \E k \in Keys : Try(k) \/ Happen(k) \/ Learn(k)

Spec == Init /\ [][Next]_vars

\* What is known agrees with what happened.
KnownIsTrue ==
    \A k \in Keys : /\ known[k] = "yes" => happened[k] = 1
                    /\ known[k] = "no" => happened[k] = 0
=============================================================================
