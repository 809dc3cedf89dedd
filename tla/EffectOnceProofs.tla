--------------------------- MODULE EffectOnceProofs ---------------------------
(***************************************************************************)
(* The abstract promise says what it should: an effect happens at most once, *)
(* and what is known of it is true.                                          *)
(***************************************************************************)
EXTENDS EffectOnce, TLAPS

\* The type bounds what happened to once; a try is possible only where it is
\* known that nothing happened, so both facts are needed together.
Sound == TypeOK /\ KnownIsTrue

\* Whatever implements EffectOnce performs no effect twice and knows only what is
\* true (gate.py: claim, fire, record; ledger.reconcile).
THEOREM PromiseIsSound == Spec => [](TypeOK /\ KnownIsTrue)
  <1>1. Init => Sound
    BY DEF Init, Sound, TypeOK, KnownIsTrue
  <1>2. ASSUME Sound, [Next]_vars PROVE Sound'
    <2> USE <1>2 DEF Sound, TypeOK, KnownIsTrue
    <2>1. ASSUME NEW k \in Keys, Try(k) PROVE Sound'
      BY <2>1 DEF Try
    <2>2. ASSUME NEW k \in Keys, Happen(k) PROVE Sound'
      BY <2>2 DEF Happen
    <2>3. ASSUME NEW k \in Keys, Learn(k) PROVE Sound'
      <3>1. happened[k] \in {0, 1}
        OBVIOUS
      <3>. QED
        BY <2>3, <3>1 DEF Learn
    <2>4. CASE UNCHANGED vars
      BY <2>4 DEF vars
    <2>. QED
      BY <2>1, <2>2, <2>3, <2>4 DEF Next
  <1>. QED
    BY <1>1, <1>2, PTL DEF Spec, Sound
=============================================================================
