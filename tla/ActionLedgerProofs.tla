------------------------- MODULE ActionLedgerProofs -------------------------
(***************************************************************************)
(* Proofs about the action ledger, for every set of processes and actions.   *)
(***************************************************************************)
EXTENDS ActionLedger, FiniteSetTheorems, WellFoundedInduction, TLAPS

\* Counting the rows of the mission gives a natural number.
LEMMA CountedRows ==
    ASSUME NEW S, S \subseteq Keys
    PROVE  Cardinality(S) \in Nat
  BY FS_Subset, FS_CardinalityType, ConstantsOK DEF ConstantsOK

-----------------------------------------------------------------------------
(* Type correctness                                                          *)

LedgerType ==
    /\ rowid \in [Keys -> Nat]
    /\ status \in [Keys -> Statuses]
    /\ attempts \in [Keys -> Nat]
    /\ chain \in [Keys -> Seq(Events)]

ControlType ==
    /\ pc \in [Procs -> Locations]
    /\ answer \in [Procs -> Answers]

LocalType ==
    /\ occurred \in [Keys -> Nat]
    /\ cur \in [Procs -> Keys]
    /\ todo \in [Procs -> SUBSET Keys]
    /\ verdict \in [Procs -> BOOLEAN]
    /\ crashes \in Nat

\* A call that ends leaves the control of its process well typed.
LEMMA ReturnType ==
    ASSUME ControlType, NEW p, NEW a, Return(p, a), a \in Answers
    PROVE  ControlType'
  BY DEF ControlType, Return, Locations

\* So does a step inside a call.
LEMMA GotoType ==
    ASSUME ControlType, NEW p, NEW l, Goto(p, l), l \in Locations
    PROVE  ControlType'
  BY DEF ControlType, Goto, Answers

\* The claim transaction keeps the types of row and chain.
LEMMA WriteClaimType ==
    ASSUME LedgerType, NEW k \in Keys, WriteClaim(k)
    PROVE  LedgerType'
  <1>1. Cardinality({j \in Keys : rowid[j] > 0}) \in Nat
    BY CountedRows
  <1>2. StartedEvent(attempts[k] + 1) \in Events
    BY DEF StartedEvent, Events, LedgerType
  <1>3. chain' \in [Keys -> Seq(Events)]
    BY <1>2 DEF WriteClaim, LedgerType
  <1>. QED
    BY <1>1, <1>3 DEF WriteClaim, LedgerType, Statuses

\* A settlement transaction keeps them, if it stores a status.
LEMMA SettleType ==
    ASSUME LedgerType, NEW k \in Keys, NEW s \in Statuses, NEW e \in Events,
           Settle(k, s, e)
    PROVE  LedgerType'
  <1>1. chain' \in [Keys -> Seq(Events)]
    BY DEF Settle, LedgerType
  <1>. QED
    BY <1>1 DEF Settle, LedgerType

\* A step that writes nothing keeps them trivially.
LEMMA LedgerUntouched == LedgerType /\ UNCHANGED ledger => LedgerType'
  BY DEF LedgerType, ledger

\* Every value has its type, in every reachable state (ledger.py, gate.py).
THEOREM TypeCorrect == Spec => []TypeOK
  <1>1. Init => TypeOK
    BY ConstantsOK
       DEF Init, TypeOK, ConstantsOK, Statuses, Locations, Answers
  <1>2. TypeOK /\ [Next]_vars => TypeOK'
    <2> SUFFICES ASSUME LedgerType, ControlType, LocalType, [Next]_vars
                 PROVE  LedgerType' /\ ControlType' /\ LocalType'
      BY DEF TypeOK, LedgerType, ControlType, LocalType
    <2>1. ASSUME NEW p \in Procs, NEW k \in Keys, NEW r \in BOOLEAN, Find(p, k, r)
          PROVE  LedgerType' /\ ControlType' /\ LocalType'
      <3>1. ControlType'
        BY <2>1, ReturnType, GotoType DEF Find, Answers, Locations
      <3>2. LedgerType'
        BY <2>1, LedgerUntouched DEF Find
      <3>. QED
        BY <2>1, <3>1, <3>2 DEF Find, LocalType
    <2>2. ASSUME NEW p \in Procs, NEW k \in Keys, Claim(p, k)
          PROVE  LedgerType' /\ ControlType' /\ LocalType'
      <3>1. ControlType'
        BY <2>2, ReturnType, GotoType DEF Claim, Answers, Locations
      <3>2. LedgerType'
        BY <2>2, LedgerUntouched, WriteClaimType DEF Claim
      <3>3. LocalType'
        BY <2>2 DEF Claim, LocalType
      <3>. QED
        BY <3>1, <3>2, <3>3
    <2>3. ASSUME NEW p \in Procs, Fire(p)
          PROVE  LedgerType' /\ ControlType' /\ LocalType'
      <3>1. ControlType'
        BY <2>3, ReturnType, GotoType DEF Fire, Answers, Locations
      <3>2. LocalType'
        BY <2>3 DEF Fire, LocalType
      <3>. QED
        BY <2>3, <3>1, <3>2, LedgerUntouched DEF Fire
    <2>4. ASSUME NEW p \in Procs, Complete(p)
          PROVE  LedgerType' /\ ControlType' /\ LocalType'
      <3>1. ControlType'
        BY <2>4, ReturnType DEF Complete, Answers
      <3>2. CompletedEvent \in Events /\ "completed" \in Statuses /\ cur[p] \in Keys
        BY DEF CompletedEvent, Events, Statuses, LocalType
      <3>3. LedgerType'
        BY <2>4, <3>2, SettleType, LedgerUntouched DEF Complete
      <3>4. LocalType'
        BY <2>4 DEF Complete, LocalType
      <3>. QED
        BY <3>1, <3>3, <3>4
    <2>5. ASSUME NEW p \in Procs, ReadUncertain(p)
          PROVE  LedgerType' /\ ControlType' /\ LocalType'
      <3>1. ControlType'
        BY <2>5, GotoType DEF ReadUncertain, Locations
      <3>. QED
        BY <2>5, <3>1, LedgerUntouched DEF ReadUncertain, Uncertain, LocalType
    <2>6. ASSUME NEW p \in Procs, Probe(p)
          PROVE  LedgerType' /\ ControlType' /\ LocalType'
      <3>1. ControlType'
        BY <2>6, ReturnType, GotoType DEF Probe, Answers, Locations
      <3>2. LocalType'
        <4>1. PICK k \in todo[p] :
                \/ /\ cur' = [cur EXCEPT ![p] = k]
                   /\ verdict' = [verdict EXCEPT ![p] = occurred[k] > 0]
                   /\ UNCHANGED todo
                \/ /\ todo' = [todo EXCEPT ![p] = {}]
                   /\ UNCHANGED <<cur, verdict>>
          BY <2>6 DEF Probe
        <4>2. k \in Keys /\ (occurred[k] > 0) \in BOOLEAN
          BY DEF LocalType
        <4>3. verdict' \in [Procs -> BOOLEAN]
          BY <4>1, <4>2 DEF LocalType
        <4>. QED
          BY <2>6, <4>1, <4>2, <4>3 DEF Probe, LocalType
      <3>. QED
        BY <2>6, <3>1, <3>2, LedgerUntouched DEF Probe
    <2>7. ASSUME NEW p \in Procs, NEW k \in Keys, Inspect(p, k)
          PROVE  LedgerType' /\ ControlType' /\ LocalType'
      <3>1. ControlType'
        BY <2>7, GotoType DEF Inspect, Locations
      <3>2. LocalType'
        BY <2>7 DEF Inspect, LocalType
      <3>. QED
        BY <2>7, <3>1, <3>2, LedgerUntouched DEF Inspect
    <2>8. ASSUME NEW p \in Procs, Reconcile(p)
          PROVE  LedgerType' /\ ControlType' /\ LocalType'
      <3>1. ControlType'
        BY <2>8, ReturnType, GotoType DEF Reconcile, Answers, Locations
      <3>2. /\ ReconciledEvent(verdict[p]) \in Events
            /\ ReconciledStatus(verdict[p]) \in Statuses
            /\ cur[p] \in Keys
        BY DEF ReconciledEvent, ReconciledStatus, Events, Statuses, LocalType
      <3>3. LedgerType'
        BY <2>8, <3>2, SettleType, LedgerUntouched DEF Reconcile
      <3>4. LocalType'
        BY <2>8 DEF Reconcile, LocalType
      <3>. QED
        BY <3>1, <3>3, <3>4
    <2>9. ASSUME NEW p \in Procs, Crash(p)
          PROVE  LedgerType' /\ ControlType' /\ LocalType'
      <3>1. ControlType'
        BY <2>9, ReturnType DEF Crash, Answers
      <3>2. LocalType'
        BY <2>9 DEF Crash, LocalType
      <3>. QED
        BY <2>9, <3>1, <3>2, LedgerUntouched DEF Crash
    <2>10. CASE UNCHANGED vars
      BY <2>10 DEF vars, LedgerType, ControlType, LocalType
    <2>. QED
      BY <2>1, <2>2, <2>3, <2>4, <2>5, <2>6, <2>7, <2>8, <2>9, <2>10 DEF Next
  <1>. QED
    BY <1>1, <1>2, PTL DEF Spec

-----------------------------------------------------------------------------
(* At most once                                                              *)

Safe == Owned /\ AtMostOnce /\ OutcomesAreTrue

\* A step of p that touches no row and no effect, and takes p nowhere near a
\* claim or a settlement.
LEMMA QuietStep ==
    ASSUME TypeOK, Safe, NEW p \in Procs,
           UNCHANGED <<status, occurred>>,
           \A q \in Procs \ {p} : /\ pc'[q] = pc[q] /\ cur'[q] = cur[q]
                                 /\ todo'[q] = todo[q] /\ verdict'[q] = verdict[q],
           pc'[p] \in {"idle", "found"}
    PROVE  Safe'
  <1> USE DEF Safe, Owned
  <1>1. ClaimantKnows'
    BY DEF ClaimantKnows
  <1>2. OneClaimant'
    BY DEF OneClaimant, Holds
  <1>3. SettledAlone'
    BY DEF SettledAlone, Settles, Holds
  <1>4. OneSettlement'
    BY DEF OneSettlement, Settles
  <1>5. VerdictStands'
    BY DEF VerdictStands
  <1>6. AtMostOnce' /\ OutcomesAreTrue'
    BY DEF AtMostOnce, OutcomesAreTrue
  <1>. QED
    BY <1>1, <1>2, <1>3, <1>4, <1>5, <1>6

\* A claim makes its process the one owner of a row nobody owned.
LEMMA ClaimSafe ==
    ASSUME TypeOK, Safe, NEW p \in Procs, NEW k \in Keys, Claim(p, k)
    PROVE  Safe'
  <1>1. CASE UNCHANGED ledger /\ pc' = [pc EXCEPT ![p] = "idle"]
    BY <1>1, QuietStep DEF Claim, ledger, TypeOK
  <1>2. CASE Claimable(k) /\ WriteClaim(k) /\ Goto(p, "claimed")
    <2> USE DEF Safe, Owned, TypeOK
    <2>1. /\ status[k] \in {"none", "not_occurred"}
          /\ status' = [status EXCEPT ![k] = "started"]
          /\ pc' = [pc EXCEPT ![p] = "claimed"]
          /\ pc[p] \in {"idle", "found"}
          /\ cur' = [cur EXCEPT ![p] = k]
          /\ UNCHANGED <<occurred, todo, verdict>>
      BY <1>2 DEF Claim, Claimable, WriteClaim, Goto, Statuses
    <2>2. occurred[k] = 0
      BY <2>1 DEF OutcomesAreTrue
    <2>3. /\ \A q \in Procs : ~Holds(q, k)
          /\ \A q \in Procs : Settles(q) => k \notin todo[q]
      BY <2>1 DEF ClaimantKnows, SettledAlone, Holds
    <2>4. \A q \in Procs \ {p}, j \in Keys : Holds(q, j)' <=> Holds(q, j)
      BY <2>1 DEF Holds
    <2>5. \A q \in Procs : Settles(q)' <=> (q # p /\ Settles(q))
      BY <2>1 DEF Settles
    <2>6. ClaimantKnows'
      BY <2>1, <2>2 DEF ClaimantKnows
    <2>7. \A j \in Keys : Holds(p, j)' <=> j = k
      BY <2>1 DEF Holds
    <2>8. OneClaimant'
      <3>1. ASSUME NEW q \in Procs, NEW r \in Procs, NEW j \in Keys,
                   Holds(q, j)', Holds(r, j)'
            PROVE  q = r
        <4>1. CASE q = p \/ r = p
          <5>1. j = k
            BY <2>7, <3>1, <4>1
          <5>. QED
            BY <2>3, <2>4, <3>1, <5>1
        <4>2. CASE q # p /\ r # p
          <5>1. Holds(q, j) /\ Holds(r, j) /\ OneClaimant
            BY <2>4, <3>1, <4>2
          <5>. QED
            BY <5>1 DEF OneClaimant
        <4>. QED
          BY <4>1, <4>2
      <3>. QED
        BY <3>1 DEF OneClaimant
    <2>9. SettledAlone'
      BY <2>1, <2>3, <2>4, <2>5, <2>7 DEF SettledAlone
    <2>10. OneSettlement'
      BY <2>5 DEF OneSettlement
    <2>11. VerdictStands'
      BY <2>1 DEF VerdictStands
    <2>12. AtMostOnce' /\ OutcomesAreTrue'
      BY <2>1 DEF AtMostOnce, OutcomesAreTrue
    <2>. QED
      BY <2>6, <2>8, <2>9, <2>10, <2>11, <2>12
  <1>. QED
    BY <1>1, <1>2 DEF Claim, Return

\* The effect of the one claimant happens for the first time.
LEMMA FireSafe ==
    ASSUME TypeOK, Safe, NEW p \in Procs, Fire(p)
    PROVE  Safe'
  <1>1. CASE UNCHANGED occurred
    BY <1>1, QuietStep DEF Fire, Return, Goto, ledger, TypeOK
  <1>2. CASE occurred' = [occurred EXCEPT ![cur[p]] = @ + 1]
    <2> DEFINE k == cur[p]
    <2> USE DEF Safe, Owned, TypeOK
    <2>0. /\ UNCHANGED <<status, cur, todo, verdict>>
          /\ pc[p] = "claimed" /\ k \in Keys
      BY DEF Fire, ledger
    <2>a. occurred[k] = 0 /\ status[k] = "started" /\ Holds(p, k)
      BY <2>0 DEF ClaimantKnows, Holds
    <2>b. occurred' = [occurred EXCEPT ![k] = 1]
      BY <1>2, <2>a
    <2>1. /\ occurred[k] = 0 /\ status[k] = "started" /\ k \in Keys
          /\ occurred' = [occurred EXCEPT ![k] = 1]
          /\ UNCHANGED <<status, cur, todo, verdict>>
          /\ pc[p] = "claimed" /\ Holds(p, k)
      BY <2>0, <2>a, <2>b
    <2>2. PICK l \in {"fired", "idle"} : pc' = [pc EXCEPT ![p] = l]
      BY <1>2 DEF Fire, Goto, Return
    <2>3. \A q \in Procs \ {p} : ~Holds(q, k) /\ pc'[q] = pc[q]
      BY <2>1, <2>2 DEF OneClaimant
    <2>4. \A q \in Procs, j \in Keys : Holds(q, j)' => Holds(q, j)
      BY <2>1, <2>2 DEF Holds
    <2>5. \A q \in Procs : /\ Settles(q)' <=> Settles(q)
                           /\ Settles(q) => k \notin todo[q]
      BY <2>1, <2>2 DEF Settles, SettledAlone
    <2>6. ClaimantKnows'
      BY <2>1, <2>2, <2>3 DEF ClaimantKnows, Holds
    <2>7. OneClaimant'
      BY <2>4 DEF OneClaimant
    <2>8. SettledAlone'
      BY <2>1, <2>4, <2>5 DEF SettledAlone
    <2>9. OneSettlement'
      BY <2>5 DEF OneSettlement
    <2>10. VerdictStands'
      BY <2>1, <2>2, <2>5 DEF VerdictStands, Settles
    <2>11. AtMostOnce' /\ OutcomesAreTrue'
      BY <2>1 DEF AtMostOnce, OutcomesAreTrue
    <2>. QED
      BY <2>6, <2>7, <2>8, <2>9, <2>10, <2>11
  <1>. QED
    BY <1>1, <1>2 DEF Fire

\* The claimant gives the row up with the truth.
LEMMA CompleteSafe ==
    ASSUME TypeOK, Safe, NEW p \in Procs, Complete(p)
    PROVE  Safe'
  <1> DEFINE k == cur[p]
  <1> USE DEF Safe, Owned, TypeOK
  <1>1. /\ pc[p] = "fired" /\ status[k] = "started" /\ occurred[k] = 1
        /\ k \in Keys /\ Holds(p, k)
        /\ UNCHANGED <<occurred, cur, todo, verdict>>
    BY DEF Complete, ClaimantKnows, Holds
  <1>2. /\ status' = [status EXCEPT ![k] = "completed"]
        /\ pc' = [pc EXCEPT ![p] = "idle"]
    BY <1>1 DEF Complete, Updatable, Settle, Return
  <1>3. \A q \in Procs \ {p} : ~Holds(q, k)
    BY <1>1 DEF OneClaimant
  <1>4. \A q \in Procs, j \in Keys : Holds(q, j)' => Holds(q, j) /\ j # k
    BY <1>1, <1>2, <1>3 DEF Holds
  <1>5. \A q \in Procs : /\ Settles(q)' <=> Settles(q)
                         /\ Settles(q) => k \notin todo[q]
    BY <1>1, <1>2 DEF Settles, SettledAlone
  <1>6. ClaimantKnows'
    BY <1>1, <1>2, <1>3 DEF ClaimantKnows, Holds
  <1>7. OneClaimant'
    BY <1>4 DEF OneClaimant
  <1>8. SettledAlone'
    BY <1>1, <1>2, <1>4, <1>5 DEF SettledAlone
  <1>9. OneSettlement'
    BY <1>5 DEF OneSettlement
  <1>10. VerdictStands'
    BY <1>1, <1>2 DEF VerdictStands
  <1>11. AtMostOnce' /\ OutcomesAreTrue'
    BY <1>1, <1>2 DEF AtMostOnce, OutcomesAreTrue
  <1>. QED
    BY <1>6, <1>7, <1>8, <1>9, <1>10, <1>11

\* Beginning a settlement: p takes over rows whose claimant is gone.
LEMMA BeginSettlement ==
    ASSUME TypeOK, Safe, NEW p \in Procs, pc[p] = "idle",
           NEW ks \in SUBSET Uncertain,
           \A q \in Procs : ~Settles(q),
           \A q \in Procs, k \in ks : ~Holds(q, k),
           todo' = [todo EXCEPT ![p] = ks],
           UNCHANGED <<status, occurred>>,
           \/ /\ pc' = [pc EXCEPT ![p] = "settling"]
              /\ UNCHANGED <<cur, verdict>>
           \/ \E k \in ks : /\ pc' = [pc EXCEPT ![p] = "probed"]
                            /\ cur' = [cur EXCEPT ![p] = k]
                            /\ verdict' = [verdict EXCEPT ![p] = occurred[k] > 0]
    PROVE  Safe'
  <1> USE DEF Safe, Owned, TypeOK
  <1>1. \A q \in Procs \ {p} : /\ pc'[q] = pc[q] /\ cur'[q] = cur[q]
                              /\ todo'[q] = todo[q] /\ verdict'[q] = verdict[q]
    OBVIOUS
  <1>2. pc'[p] \in {"settling", "probed"} /\ todo'[p] = ks
    OBVIOUS
  <1>3. \A q \in Procs, j \in Keys : Holds(q, j)' => Holds(q, j)
    BY <1>1, <1>2 DEF Holds
  <1>4. \A q \in Procs : Settles(q)' => q = p
    BY <1>1 DEF Settles
  <1>5. ClaimantKnows'
    BY <1>1, <1>2 DEF ClaimantKnows
  <1>6. OneClaimant'
    BY <1>3 DEF OneClaimant
  <1>7. SettledAlone'
    BY <1>2, <1>3, <1>4 DEF SettledAlone, Uncertain
  <1>8. OneSettlement'
    BY <1>4 DEF OneSettlement
  <1>9. VerdictStands'
    <2>1. ASSUME NEW q \in Procs, (pc[q] = "probed")' PROVE q = p
      BY <2>1, <1>4 DEF Settles
    <2>2. CASE pc' = [pc EXCEPT ![p] = "settling"]
      BY <2>1, <2>2 DEF VerdictStands
    <2>3. ASSUME NEW k \in ks,
                 cur' = [cur EXCEPT ![p] = k],
                 verdict' = [verdict EXCEPT ![p] = occurred[k] > 0]
          PROVE  VerdictStands'
      <3>1. cur'[p] = k /\ k \in todo'[p] /\ verdict'[p] = (occurred'[k] > 0)
        BY <2>3
      <3>. QED
        BY <2>1, <3>1 DEF VerdictStands
    <2>. QED
      BY <2>2, <2>3
  <1>10. AtMostOnce' /\ OutcomesAreTrue'
    BY DEF AtMostOnce, OutcomesAreTrue
  <1>. QED
    BY <1>5, <1>6, <1>7, <1>8, <1>9, <1>10

\* A probe or an inspection sees what the settlement may rely on, because the
\* row has no claimant.
LEMMA ProbeSafe ==
    ASSUME TypeOK, Safe, NEW p \in Procs, Probe(p)
    PROVE  Safe'
  <1> USE DEF Safe, Owned, TypeOK
  <1>1. /\ pc[p] = "settling" /\ Settles(p)
        /\ UNCHANGED <<status, occurred>>
    BY DEF Probe, Settles, ledger
  <1>2. CASE todo' = [todo EXCEPT ![p] = {}] /\ Return(p, "unresolved")
                /\ UNCHANGED <<cur, verdict>>
    BY <1>1, <1>2, QuietStep DEF Return
  <1>3. ASSUME NEW k \in todo[p],
               cur' = [cur EXCEPT ![p] = k],
               verdict' = [verdict EXCEPT ![p] = occurred[k] > 0],
               Goto(p, "probed"), UNCHANGED todo
        PROVE  Safe'
    <2>1. pc' = [pc EXCEPT ![p] = "probed"] /\ k \in Keys
      BY <1>3 DEF Goto
    <2>2. \A q \in Procs, j \in Keys : Holds(q, j)' => Holds(q, j)
      BY <1>3, <2>1 DEF Holds
    <2>3. \A q \in Procs : Settles(q)' <=> Settles(q)
      BY <1>1, <2>1 DEF Settles
    <2>4. ClaimantKnows'
      BY <1>1, <1>3, <2>1 DEF ClaimantKnows
    <2>5. OneClaimant'
      BY <2>2 DEF OneClaimant
    <2>6. SettledAlone'
      BY <1>1, <1>3, <2>2, <2>3 DEF SettledAlone
    <2>7. OneSettlement'
      BY <2>3 DEF OneSettlement
    <2>8. VerdictStands'
      <3>1. cur'[p] = k /\ verdict'[p] = (occurred[k] > 0)
        BY <1>3
      <3>2. \A q \in Procs \ {p} : pc'[q] # "probed"
        BY <1>1, <2>3 DEF OneSettlement, Settles
      <3>. QED
        BY <1>1, <1>3, <3>1, <3>2 DEF VerdictStands
    <2>9. AtMostOnce' /\ OutcomesAreTrue'
      BY <1>1 DEF AtMostOnce, OutcomesAreTrue
    <2>. QED
      BY <2>4, <2>5, <2>6, <2>7, <2>8, <2>9
  <1>. QED
    BY <1>2, <1>3 DEF Probe

\* A settlement writes what its probe saw, which still stands.
LEMMA ReconcileSafe ==
    ASSUME TypeOK, Safe, NEW p \in Procs, Reconcile(p)
    PROVE  Safe'
  <1> DEFINE k == cur[p]
  <1> USE DEF Safe, Owned, TypeOK
  <1>1. /\ pc[p] = "probed" /\ Settles(p) /\ k \in todo[p] /\ k \in Keys
        /\ UNCHANGED <<occurred, cur, verdict>>
    BY DEF Reconcile, Settles, VerdictStands
  <1>2. /\ status[k] = "started" /\ \A q \in Procs : ~Holds(q, k)
        /\ verdict[p] = (occurred[k] > 0)
    BY <1>1 DEF SettledAlone, VerdictStands
  <1>3. /\ status' = [status EXCEPT ![k] = ReconciledStatus(verdict[p])]
        /\ todo' = [todo EXCEPT ![p] = @ \ {k}]
    BY <1>2 DEF Reconcile, Updatable, Settle
  <1>4. PICK l \in {"idle", "settling"} : pc' = [pc EXCEPT ![p] = l]
    BY <1>2 DEF Reconcile, Updatable, Return, Goto
  <1>5. \A q \in Procs, j \in Keys : Holds(q, j)' => Holds(q, j) /\ j # k
    BY <1>1, <1>2, <1>4 DEF Holds
  <1>6. \A q \in Procs : Settles(q)' => q = p
    BY <1>1, <1>4 DEF Settles, OneSettlement
  <1>7. ClaimantKnows'
    BY <1>1, <1>2, <1>3, <1>4 DEF ClaimantKnows, Holds
  <1>8. OneClaimant'
    BY <1>5 DEF OneClaimant
  <1>9. SettledAlone'
    BY <1>1, <1>3, <1>5, <1>6 DEF SettledAlone
  <1>10. OneSettlement'
    BY <1>6 DEF OneSettlement
  <1>11. VerdictStands'
    BY <1>4, <1>6 DEF VerdictStands, Settles
  <1>12. AtMostOnce' /\ OutcomesAreTrue'
    BY <1>1, <1>2, <1>3 DEF AtMostOnce, OutcomesAreTrue, ReconciledStatus
  <1>. QED
    BY <1>7, <1>8, <1>9, <1>10, <1>11, <1>12

\* The invariant holds at first and every step keeps it.
LEMMA SafeInductive ==
    ASSUME ExclusiveSettlement
    PROVE  /\ Init => Safe
           /\ TypeOK /\ Safe /\ [Next]_vars => Safe'
  <1>1. Init => Safe
    BY DEF Init, Safe, Owned, ClaimantKnows, OneClaimant, SettledAlone, Holds,
           OneSettlement, VerdictStands, AtMostOnce, OutcomesAreTrue, Settles
  <1>2. ASSUME TypeOK, Safe, [Next]_vars PROVE Safe'
    <2>1. ASSUME NEW p \in Procs, NEW k \in Keys, NEW r \in BOOLEAN, Find(p, k, r)
          PROVE  Safe'
      BY <1>2, <2>1, QuietStep DEF Find, Return, Goto, ledger, TypeOK
    <2>2. ASSUME NEW p \in Procs, ReadUncertain(p) PROVE Safe'
      BY <1>2, <2>2, BeginSettlement
         DEF ReadUncertain, MaySettle, Goto, ledger, TypeOK
    <2>3. ASSUME NEW p \in Procs, NEW k \in Keys, Inspect(p, k) PROVE Safe'
      <3>1. {k} \in SUBSET Uncertain
        BY <2>3 DEF Inspect, Uncertain
      <3>. QED
        BY <1>2, <2>3, <3>1, BeginSettlement
           DEF Inspect, MaySettle, Goto, ledger
    <2>4. ASSUME NEW p \in Procs, Crash(p) PROVE Safe'
      BY <1>2, <2>4, QuietStep DEF Crash, Return, ledger, TypeOK
    <2>5. CASE UNCHANGED vars
      BY <1>2, <2>5 DEF vars, Safe, Owned, ClaimantKnows, OneClaimant, SettledAlone,
           Holds, OneSettlement, VerdictStands, AtMostOnce, OutcomesAreTrue, Settles
    <2>. QED
      BY <1>2, <2>1, <2>2, <2>3, <2>4, <2>5, ClaimSafe, FireSafe, CompleteSafe,
         ProbeSafe, ReconcileSafe DEF Next
  <1>. QED
    BY <1>1, <1>2

\* The central promise (gate.py, ledger.py): while uncertain effects are settled
\* only after their claimant is gone, no action is performed twice, whatever
\* number of processes claims, crashes, retries and settles.
THEOREM EffectAtMostOnce ==
    ASSUME ExclusiveSettlement
    PROVE  Spec => []AtMostOnce
  <1>1. Safe => AtMostOnce
    BY DEF Safe
  <1>. QED
    BY <1>1, SafeInductive, TypeCorrect, PTL DEF Spec

\* Under the same discipline the status of a settled action is the truth.
THEOREM LedgerIsTruthful ==
    ASSUME ExclusiveSettlement
    PROVE  Spec => []OutcomesAreTrue
  <1>1. Safe => OutcomesAreTrue
    BY DEF Safe
  <1>. QED
    BY <1>1, SafeInductive, TypeCorrect, PTL DEF Spec

-----------------------------------------------------------------------------
(* Refinement                                                                *)

\* Writing one status changes what is known of that action only.
LEMMA KnownAfter ==
    ASSUME TypeOK, NEW k \in Keys, NEW st, status' = [status EXCEPT ![k] = st]
    PROVE  Known' = [Known EXCEPT ![k] = KnownAs(st)]
  BY DEF Known, TypeOK

\* A claim, a settlement and the effect are the steps of EffectOnce; all other
\* steps of the ledger leave what is known and what happened alone.
LEMMA StepRefines ==
    ASSUME TypeOK, Safe, [Next]_vars
    PROVE  [Promise!Next]_(Promise!vars)
  <1> USE DEF Promise!vars, Promise!Next
  <1>1. UNCHANGED <<status, occurred>> => UNCHANGED Promise!vars
    BY DEF Known
  <1>2. ASSUME NEW p \in Procs, NEW k \in Keys, Claim(p, k)
        PROVE  [Promise!Next]_(Promise!vars)
    <2>1. CASE UNCHANGED ledger
      BY <1>1, <1>2, <2>1 DEF Claim, ledger
    <2>2. CASE Claimable(k) /\ WriteClaim(k)
      <3>1. Known[k] = "no"
        BY <2>2 DEF Claimable, Known, KnownAs
      <3>2. Known' = [Known EXCEPT ![k] = "maybe"]
        BY <2>2, KnownAfter DEF WriteClaim, KnownAs
      <3>. QED
        BY <1>2, <3>1, <3>2 DEF Claim, Promise!Try
    <2>. QED
      BY <1>2, <2>1, <2>2 DEF Claim
  <1>3. ASSUME NEW p \in Procs, Fire(p)
        PROVE  [Promise!Next]_(Promise!vars)
    <2>1. CASE UNCHANGED occurred
      BY <1>1, <1>3, <2>1 DEF Fire, ledger
    <2>2. CASE occurred' = [occurred EXCEPT ![cur[p]] = @ + 1]
      <3>1. /\ cur[p] \in Keys /\ status[cur[p]] = "started"
            /\ occurred[cur[p]] = 0 /\ UNCHANGED status
        BY <1>3 DEF Fire, ledger, Safe, Owned, ClaimantKnows, TypeOK
      <3>2. Known[cur[p]] = "maybe" /\ UNCHANGED Known
        BY <3>1 DEF Known, KnownAs
      <3>3. occurred' = [occurred EXCEPT ![cur[p]] = 1]
        BY <2>2, <3>1
      <3>. QED
        BY <3>1, <3>2, <3>3 DEF Promise!Happen
    <2>. QED
      BY <1>3, <2>1, <2>2 DEF Fire
  <1>4. ASSUME NEW k \in Keys, status[k] = "started", UNCHANGED occurred,
               NEW st, status' = [status EXCEPT ![k] = st],
               KnownAs(st) = IF occurred[k] = 1 THEN "yes" ELSE "no"
        PROVE  [Promise!Next]_(Promise!vars)
    <2>1. Known[k] = "maybe"
      BY <1>4 DEF Known, KnownAs
    <2>2. Known' = [Known EXCEPT ![k] = IF occurred[k] = 1 THEN "yes" ELSE "no"]
      BY <1>4, KnownAfter
    <2>. QED
      BY <1>4, <2>1, <2>2 DEF Promise!Learn
  <1>5. ASSUME NEW p \in Procs, Complete(p)
        PROVE  [Promise!Next]_(Promise!vars)
    <2>1. cur[p] \in Keys /\ status[cur[p]] = "started" /\ occurred[cur[p]] = 1
      BY <1>5 DEF Complete, Safe, Owned, ClaimantKnows, TypeOK
    <2>2. /\ status' = [status EXCEPT ![cur[p]] = "completed"]
          /\ UNCHANGED occurred
      BY <1>5, <2>1 DEF Complete, Updatable, Settle
    <2>. QED
      BY <1>4, <2>1, <2>2 DEF KnownAs
  <1>6. ASSUME NEW p \in Procs, Reconcile(p)
        PROVE  [Promise!Next]_(Promise!vars)
    <2>1. /\ cur[p] \in Keys /\ status[cur[p]] = "started"
          /\ verdict[p] = (occurred[cur[p]] > 0)
      BY <1>6 DEF Reconcile, Safe, Owned, VerdictStands, SettledAlone, Settles, TypeOK
    <2>2. /\ status' = [status EXCEPT ![cur[p]] = ReconciledStatus(verdict[p])]
          /\ UNCHANGED occurred
      BY <1>6, <2>1 DEF Reconcile, Updatable, Settle
    <2>3. (occurred[cur[p]] > 0) <=> occurred[cur[p]] = 1
      BY <2>1 DEF Safe, AtMostOnce, TypeOK
    <2>. QED
      BY <1>4, <2>1, <2>2, <2>3 DEF KnownAs, ReconciledStatus
  <1>7. CASE UNCHANGED vars
    BY <1>1, <1>7 DEF vars
  <1>. QED
    BY <1>1, <1>2, <1>3, <1>5, <1>6, <1>7
       DEF Next, Find, ReadUncertain, Probe, Inspect, Crash, ledger

\* Under an exclusive settlement the ledger, its gate and its reconcilers
\* implement EffectOnce: what the mission knows is always what happened.
THEOREM LedgerImplementsEffectOnce ==
    ASSUME ExclusiveSettlement
    PROVE  Spec => ImplementsEffectOnce
  <1>1. Init => Promise!Init
    BY DEF Init, Promise!Init, Known, KnownAs
  <1>. QED
    BY <1>1, StepRefines, SafeInductive, TypeCorrect, PTL
       DEF Spec, ImplementsEffectOnce, Promise!Spec

-----------------------------------------------------------------------------
(* Row and chain                                                             *)

\* Where the odd and the even positions of a history are.
LEMMA Halves ==
    ASSUME NEW m \in Nat
    PROVE  /\ m % 2 \in {0, 1}
           /\ m % 2 = 0 => /\ (m + 1) % 2 = 1
                           /\ (m + 2) \div 2 = (m + 1) \div 2 + 1
           /\ m % 2 = 1 => /\ (m + 1) % 2 = 0
                           /\ (m + 2) \div 2 = (m + 1) \div 2
  OBVIOUS

\* What a status says about the history it replays.
LEMMA ReplayEnds ==
    ASSUME NEW h \in Seq(Events), NEW st, NEW n, Replays(h, st, n)
    PROVE  /\ st \in {"none", "not_occurred"} =>
                 /\ Len(h) % 2 = 0
                 /\ h # <<>> => h[Len(h)] = FoundUndone
           /\ st = "started" => Len(h) % 2 = 1
  <1>1. Len(h) \in Nat /\ (Len(h) % 2 \in {0, 1}) /\ (h = <<>> => Len(h) = 0)
    BY Halves
  <1>2. st = IF h = <<>> THEN "none"
             ELSE IF Len(h) % 2 = 1 THEN "started"
             ELSE IF h[Len(h)] = FoundUndone THEN "not_occurred"
             ELSE "completed"
    BY DEF Replays
  <1>. QED
    BY <1>1, <1>2

\* A claim extends a history that is empty or ended in "not occurred".
LEMMA ReplayClaim ==
    ASSUME NEW h \in Seq(Events), NEW n \in Nat,
           NEW st \in {"none", "not_occurred"}, Replays(h, st, n)
    PROVE  Replays(Append(h, StartedEvent(n + 1)), "started", n + 1)
  <1> DEFINE g == Append(h, StartedEvent(n + 1))
  <1>1. Len(h) \in Nat /\ Len(g) = Len(h) + 1 /\ g # <<>>
    OBVIOUS
  <1>2. Len(h) % 2 = 0 /\ (h # <<>> => h[Len(h)] = FoundUndone)
    BY ReplayEnds
  <1>3. n = (Len(h) + 1) \div 2
    BY DEF Replays
  <1>4. (Len(h) + 1) % 2 = 1 /\ n + 1 = (Len(g) + 1) \div 2
    BY <1>1, <1>2, <1>3, Halves
  <1>5. ASSUME NEW i \in 1..Len(g)
        PROVE  IF i % 2 = 1 THEN g[i] = StartedEvent((i + 1) \div 2)
               ELSE g[i] = FoundUndone
    <2>1. CASE i = Len(g)
      <3>1. g[i] = StartedEvent(n + 1) /\ i % 2 = 1
        BY <1>1, <1>4, <2>1
      <3>. QED
        BY <1>4, <2>1, <3>1
    <2>2. CASE i # Len(g)
      <3>1. i \in 1..Len(h) /\ g[i] = h[i] /\ h # <<>>
        BY <1>1, <2>2
      <3>2. IF i % 2 = 1 THEN h[i] = StartedEvent((i + 1) \div 2)
            ELSE h[i] = FoundUndone \/ i = Len(h)
        BY <3>1 DEF Replays
      <3>. QED
        BY <1>2, <3>1, <3>2
    <2>. QED
      BY <2>1, <2>2
  <1>. QED
    BY <1>1, <1>4, <1>5 DEF Replays

\* A settlement extends a history that ended in a claim.
LEMMA ReplaySettle ==
    ASSUME NEW h \in Seq(Events), NEW n \in Nat, Replays(h, "started", n),
           NEW e \in {CompletedEvent, FoundDone, FoundUndone}
    PROVE  Replays(Append(h, e),
                   IF e = FoundUndone THEN "not_occurred" ELSE "completed",
                   n)
  <1> DEFINE g == Append(h, e)
  <1>1. e \in Events
    <2>1. CompletedEvent \in Events
      BY DEF Events
    <2>2. FoundDone \in Events
      BY DEF Events, FoundDone, ReconciledEvent
    <2>3. FoundUndone \in Events
      BY DEF Events, FoundUndone, ReconciledEvent
    <2>. QED
      BY <2>1, <2>2, <2>3
  <1>2. Len(h) \in Nat /\ Len(g) = Len(h) + 1 /\ g # <<>> /\ g[Len(g)] = e
    BY <1>1
  <1>3. Len(h) % 2 = 1
    BY ReplayEnds
  <1>4. n = (Len(h) + 1) \div 2
    BY DEF Replays
  <1>5. Len(g) % 2 = 0 /\ n = (Len(g) + 1) \div 2
    BY <1>2, <1>3, <1>4, Halves
  <1>6. ASSUME NEW i \in 1..Len(g)
        PROVE  IF i % 2 = 1 THEN g[i] = StartedEvent((i + 1) \div 2)
               ELSE \/ g[i] = FoundUndone
                    \/ i = Len(g) /\ g[i] \in {CompletedEvent, FoundDone}
    <2>1. CASE i = Len(g)
      <3>1. i % 2 # 1 /\ g[i] = e
        BY <1>2, <1>5, <2>1
      <3>. QED
        BY <2>1, <3>1
    <2>2. CASE i # Len(g)
      <3>1. i \in 1..Len(h) /\ g[i] = h[i]
        BY <1>1, <1>2, <2>2
      <3>2. IF i % 2 = 1 THEN h[i] = StartedEvent((i + 1) \div 2)
            ELSE h[i] = FoundUndone \/ i = Len(h)
        BY <3>1 DEF Replays
      <3>. QED
        BY <1>3, <3>1, <3>2
    <2>. QED
      BY <2>1, <2>2
  <1>7. (IF e = FoundUndone THEN "not_occurred" ELSE "completed")
           = IF g = <<>> THEN "none"
             ELSE IF Len(g) % 2 = 1 THEN "started"
             ELSE IF g[Len(g)] = FoundUndone THEN "not_occurred"
             ELSE "completed"
    BY <1>2, <1>5
  <1>. QED
    BY <1>5, <1>6, <1>7 DEF Replays

\* One transaction writes the row and its event (store._insert_event): whatever
\* the interleaving, the row is the replay of the chain.
THEOREM RowsReplayChains == Spec => []RowIsReplay
  <1>1. Init => RowIsReplay
    BY DEF Init, RowIsReplay, Replays
  <1>2. ASSUME TypeOK, RowIsReplay, [Next]_vars PROVE RowIsReplay'
    <2> USE <1>2 DEF TypeOK
    <2>1. UNCHANGED ledger => RowIsReplay'
      BY DEF RowIsReplay, ledger
    <2>2. ASSUME NEW k \in Keys, Claimable(k), WriteClaim(k) PROVE RowIsReplay'
      <3>1. status[k] \in {"none", "not_occurred"}
        BY <2>2 DEF Claimable, Statuses
      <3>2. Replays(Append(chain[k], StartedEvent(attempts[k] + 1)), "started",
                    attempts[k] + 1)
        BY <3>1, ReplayClaim DEF RowIsReplay
      <3>3. /\ chain'[k] = Append(chain[k], StartedEvent(attempts[k] + 1))
            /\ status'[k] = "started"
            /\ attempts'[k] = attempts[k] + 1
            /\ \A j \in Keys \ {k} : /\ chain'[j] = chain[j] /\ status'[j] = status[j]
                                    /\ attempts'[j] = attempts[j]
        BY <2>2 DEF WriteClaim
      <3>. QED
        BY <3>2, <3>3 DEF RowIsReplay
    <2>3. ASSUME NEW k \in Keys, NEW st, status[k] = "started",
                 NEW e \in {CompletedEvent, FoundDone, FoundUndone},
                 Settle(k, st, e),
                 st = IF e = FoundUndone THEN "not_occurred" ELSE "completed"
          PROVE  RowIsReplay'
      <3>1. Replays(Append(chain[k], e), st, attempts[k])
        BY <2>3, ReplaySettle DEF RowIsReplay
      <3>2. /\ chain'[k] = Append(chain[k], e)
            /\ status'[k] = st
            /\ attempts'[k] = attempts[k]
            /\ \A j \in Keys \ {k} : /\ chain'[j] = chain[j] /\ status'[j] = status[j]
                                    /\ attempts'[j] = attempts[j]
        BY <2>3 DEF Settle
      <3>. QED
        BY <3>1, <3>2 DEF RowIsReplay
    <2>4. ASSUME NEW p \in Procs, Complete(p) PROVE RowIsReplay'
      <3>1. CompletedEvent # FoundUndone
        BY DEF CompletedEvent, FoundUndone, ReconciledEvent
      <3>2. CASE UNCHANGED ledger
        BY <2>1, <3>2
      <3>3. CASE Updatable(cur[p]) /\ Settle(cur[p], "completed", CompletedEvent)
        BY <2>3, <3>1, <3>3 DEF Updatable
      <3>. QED
        BY <2>4, <3>2, <3>3 DEF Complete
    <2>5. ASSUME NEW p \in Procs, Reconcile(p) PROVE RowIsReplay'
      <3>1. FoundDone # FoundUndone
        BY DEF FoundDone, FoundUndone, ReconciledEvent
      <3>2. CASE UNCHANGED ledger
        BY <2>1, <3>2
      <3>3. CASE /\ Updatable(cur[p])
                 /\ Settle(cur[p], ReconciledStatus(verdict[p]),
                           ReconciledEvent(verdict[p]))
        <4>1. CASE verdict[p] = TRUE
          <5>1. Settle(cur[p], "completed", FoundDone)
            BY <3>3, <4>1 DEF ReconciledStatus, FoundDone
          <5>. QED
            BY <2>3, <3>1, <3>3, <5>1 DEF Updatable
        <4>2. CASE verdict[p] = FALSE
          <5>1. Settle(cur[p], "not_occurred", FoundUndone)
            BY <3>3, <4>2 DEF ReconciledStatus, FoundUndone
          <5>. QED
            BY <2>3, <3>3, <5>1 DEF Updatable
        <4>. QED
          BY <4>1, <4>2
      <3>. QED
        BY <2>5, <3>2, <3>3 DEF Reconcile
    <2>6. CASE UNCHANGED vars
      BY <2>1, <2>6 DEF vars, ledger
    <2>. QED
      BY <2>1, <2>2, <2>4, <2>5, <2>6
         DEF Next, Find, Claim, Fire, ReadUncertain, Probe, Inspect, Crash
  <1>. QED
    BY <1>1, <1>2, TypeCorrect, PTL DEF Spec

-----------------------------------------------------------------------------
(* Skipping                                                                  *)

\* Without any discipline: whatever is recorded or believed done was done.
BelievedDone ==
    /\ \A k \in Keys : status[k] = "completed" => occurred[k] > 0
    /\ \A p \in Procs : \/ pc[p] = "fired"
                        \/ pc[p] = "probed" /\ verdict[p]
                        \/ answer[p] = "skipped"
                       => occurred[cur[p]] > 0

\* Even where settlements race with live claimants, a caller that is told that
\* the action was already performed can rely on it (gate.py, ledger.claim).
THEOREM SkippedWasPerformed == Spec => []SkipIsTruthful
  <1>1. Init => BelievedDone
    BY DEF Init, BelievedDone
  <1>2. ASSUME TypeOK, BelievedDone, [Next]_vars PROVE BelievedDone'
    <2> USE <1>2 DEF TypeOK, BelievedDone, Return, Goto, ledger
    <2>1. ASSUME NEW p \in Procs, NEW k \in Keys, NEW r \in BOOLEAN, Find(p, k, r)
          PROVE  BelievedDone'
      BY <2>1 DEF Find
    <2>2. ASSUME NEW p \in Procs, NEW k \in Keys, Claim(p, k) PROVE BelievedDone'
      <3>1. /\ UNCHANGED occurred
            /\ \A j \in Keys : status'[j] = "completed" => status[j] = "completed"
        BY <2>2 DEF Claim, WriteClaim
      <3>2. \A q \in Procs \ {p} : /\ pc'[q] = pc[q] /\ cur'[q] = cur[q]
                                  /\ verdict'[q] = verdict[q] /\ answer'[q] = answer[q]
        BY <2>2 DEF Claim
      <3>3. /\ cur'[p] = k /\ pc'[p] \in {"idle", "claimed"}
            /\ answer'[p] = "skipped" => status[k] = "completed"
        BY <2>2 DEF Claim
      <3>. QED
        BY <3>1, <3>2, <3>3
    <2>3. ASSUME NEW p \in Procs, Fire(p) PROVE BelievedDone'
      <3>1. /\ pc'[p] \in {"fired", "idle"} /\ answer'[p] \in {"none", "raised"}
            /\ \A q \in Procs \ {p} : pc'[q] = pc[q] /\ answer'[q] = answer[q]
            /\ UNCHANGED <<status, cur, verdict>> /\ cur[p] \in Keys
        BY <2>3 DEF Fire
      <3>2. CASE UNCHANGED occurred /\ pc'[p] = "idle"
        BY <3>1, <3>2
      <3>3. CASE occurred' = [occurred EXCEPT ![cur[p]] = @ + 1]
        <4>1. /\ occurred'[cur[p]] = occurred[cur[p]] + 1
              /\ \A j \in Keys \ {cur[p]} : occurred'[j] = occurred[j]
          BY <3>1, <3>3
        <4>2. \A j \in Keys : occurred[j] > 0 \/ j = cur[p] => occurred'[j] > 0
          BY <4>1
        <4>3. \A q \in Procs : cur'[q] = cur[q] /\ cur[q] \in Keys
          BY <3>1
        <4>. QED
          BY <3>1, <4>2, <4>3
      <3>. QED
        BY <2>3, <3>2, <3>3 DEF Fire
    <2>4. ASSUME NEW p \in Procs, Complete(p) PROVE BelievedDone'
      BY <2>4 DEF Complete, Settle
    <2>5. ASSUME NEW p \in Procs, ReadUncertain(p) PROVE BelievedDone'
      BY <2>5 DEF ReadUncertain
    <2>6. ASSUME NEW p \in Procs, Probe(p) PROVE BelievedDone'
      <3>1. UNCHANGED <<status, occurred>>
        BY <2>6 DEF Probe
      <3>2. CASE /\ UNCHANGED <<cur, verdict>>
                 /\ pc' = [pc EXCEPT ![p] = "idle"]
                 /\ answer' = [answer EXCEPT ![p] = "unresolved"]
        BY <3>1, <3>2
      <3>3. ASSUME NEW k \in Keys,
                   cur' = [cur EXCEPT ![p] = k],
                   verdict' = [verdict EXCEPT ![p] = occurred[k] > 0],
                   pc' = [pc EXCEPT ![p] = "probed"],
                   answer' = [answer EXCEPT ![p] = "none"]
            PROVE  BelievedDone'
        <4>1. cur'[p] = k /\ verdict'[p] = (occurred'[k] > 0) /\ answer'[p] = "none"
          BY <3>1, <3>3
        <4>. QED
          BY <3>1, <3>3, <4>1
      <3>. QED
        BY <2>6, <3>2, <3>3 DEF Probe
    <2>7. ASSUME NEW p \in Procs, NEW k \in Keys, Inspect(p, k) PROVE BelievedDone'
      <3>1. /\ UNCHANGED <<status, occurred>>
            /\ \A q \in Procs \ {p} : /\ pc'[q] = pc[q] /\ cur'[q] = cur[q]
                                    /\ verdict'[q] = verdict[q] /\ answer'[q] = answer[q]
            /\ pc'[p] = "probed" /\ answer'[p] = "none" /\ cur'[p] = k
            /\ verdict'[p] = (occurred[k] > 0)
        BY <2>7 DEF Inspect
      <3>. QED
        BY <3>1
    <2>8. ASSUME NEW p \in Procs, Reconcile(p) PROVE BelievedDone'
      BY <2>8 DEF Reconcile, Settle, ReconciledStatus
    <2>9. ASSUME NEW p \in Procs, Crash(p) PROVE BelievedDone'
      BY <2>9 DEF Crash
    <2>10. CASE UNCHANGED vars
      BY <2>10 DEF vars
    <2>. QED
      BY <2>1, <2>2, <2>3, <2>4, <2>5, <2>6, <2>7, <2>8, <2>9, <2>10 DEF Next
  <1>3. BelievedDone => SkipIsTruthful
    BY DEF BelievedDone, SkipIsTruthful
  <1>. QED
    BY <1>1, <1>2, <1>3, TypeCorrect, PTL DEF Spec

-----------------------------------------------------------------------------
(* The retry budget                                                          *)

\* The rows of a kind are finitely many.
LEMMA FinitelyManyRows ==
    ASSUME NEW d
    PROVE  IsFiniteSet(RowsOfKind(d)) /\ Cardinality(RowsOfKind(d)) \in Nat
  BY FS_Subset, FS_CardinalityType, ConstantsOK DEF ConstantsOK, RowsOfKind

\* What the budget reads, rowid and attempts, is written by a claim only.
LEMMA OnlyClaimsCount ==
    ASSUME [Next]_vars
    PROVE  \/ UNCHANGED <<rowid, attempts>>
           \/ \E p \in Procs, k \in Keys :
                 WriteClaim(k) /\ (p \in Budgeted => BudgetAllows(k))
  BY DEF Next, Find, Claim, Fire, Complete, Settle, ReadUncertain, Probe, Inspect,
         Reconcile, Crash, ledger, vars

\* A claim adds at most its own row, and that to the rows of its kind.
LEMMA ClaimAddsItsRow ==
    ASSUME TypeOK, NEW k \in Keys, WriteClaim(k), NEW d
    PROVE  RowsOfKind(d)' = IF d = KindOf[k] THEN (RowsOfKind(d) \ {k}) \cup {k}
                            ELSE RowsOfKind(d)
  <1>1. Cardinality({j \in Keys : rowid[j] > 0}) \in Nat
    BY CountedRows
  <1>2. rowid'[k] > 0 /\ \A j \in Keys \ {k} : rowid'[j] = rowid[j]
    BY <1>1 DEF WriteClaim, TypeOK
  <1>. QED
    BY <1>2 DEF RowsOfKind

\* With the budget in every ledger no interleaving of claims exceeds a limit on
\* attempts or on the distinct actions of a kind (budgets.py, ledger.claim).
THEOREM BudgetHolds == Spec => []BudgetRespected
  <1>1. Init => BudgetRespected
    <2> SUFFICES ASSUME Init PROVE BudgetRespected
      OBVIOUS
    <2>1. \A d : RowsOfKind(d) = {}
      BY DEF Init, RowsOfKind
    <2>2. ASSUME NEW k \in Keys, KindOf[k] \in DOMAIN Limit
          PROVE  attempts[k] <= Limit[KindOf[k]]
      BY <2>2, ConstantsOK DEF Init, ConstantsOK
    <2>3. ASSUME NEW d \in DOMAIN KindTotal
          PROVE  Cardinality(RowsOfKind(d)) <= KindTotal[d]
      BY <2>1, FS_EmptySet, ConstantsOK DEF ConstantsOK
    <2>. QED
      BY <2>2, <2>3 DEF BudgetRespected
  <1>2. ASSUME TypeOK, BudgetRespected, [Next]_vars PROVE BudgetRespected'
    <2>1. CASE UNCHANGED <<rowid, attempts>>
      BY <1>2, <2>1 DEF BudgetRespected, RowsOfKind
    <2>2. ASSUME NEW p \in Procs, NEW k \in Keys, WriteClaim(k),
                 p \in Budgeted => BudgetAllows(k), Budgeted = Procs
          PROVE  /\ \A j \in Keys : KindOf[j] \in DOMAIN Limit =>
                       attempts'[j] <= Limit[KindOf[j]]
                 /\ \A d \in DOMAIN KindTotal :
                       Cardinality(RowsOfKind(d)') <= KindTotal[d]
      <3>1. BudgetAllows(k)
        BY <2>2
      <3>2. ASSUME NEW j \in Keys, KindOf[j] \in DOMAIN Limit
            PROVE  attempts'[j] <= Limit[KindOf[j]]
        <4>1. attempts' = [attempts EXCEPT ![k] = @ + 1]
          BY <2>2 DEF WriteClaim
        <4>2. attempts[j] \in Nat /\ Limit[KindOf[j]] \in Nat
          BY <1>2, <3>2, ConstantsOK DEF ConstantsOK, TypeOK
        <4>3. CASE j = k
          BY <1>2, <3>1, <3>2, <4>1, <4>2, <4>3 DEF BudgetAllows, TypeOK
        <4>4. CASE j # k
          BY <1>2, <2>2, <3>2, <4>1, <4>4 DEF BudgetRespected, TypeOK
        <4>. QED
          BY <4>3, <4>4
      <3>3. ASSUME NEW d \in DOMAIN KindTotal
            PROVE  Cardinality(RowsOfKind(d)') <= KindTotal[d]
        <4>1. CASE d = KindOf[k]
          <5>1. RowsOfKind(d)' = (RowsOfKind(d) \ {k}) \cup {k}
            BY <1>2, <2>2, <4>1, ClaimAddsItsRow
          <5>2. IsFiniteSet(RowsOfKind(d) \ {k})
            BY FinitelyManyRows, FS_Subset
          <5>3. Cardinality(RowsOfKind(d)') = Cardinality(RowsOfKind(d) \ {k}) + 1
            BY <5>1, <5>2, FS_AddElement
          <5>4. Cardinality(RowsOfKind(d) \ {k}) < KindTotal[d]
            BY <3>1, <4>1 DEF BudgetAllows
          <5>. QED
            BY <5>2, <5>3, <5>4, FS_CardinalityType, ConstantsOK DEF ConstantsOK
        <4>2. CASE d # KindOf[k]
          BY <1>2, <2>2, <4>2, ClaimAddsItsRow DEF BudgetRespected
        <4>. QED
          BY <4>1, <4>2
      <3>. QED
        BY <3>2, <3>3
    <2>. QED
      BY <1>2, <2>1, <2>2, OnlyClaimsCount DEF BudgetRespected
  <1>. QED
    BY <1>1, <1>2, TypeCorrect, PTL DEF Spec

\* A row exists for whatever has ever been claimed.
ClaimedHasRow == \A k \in Keys : status[k] = "none" \/ rowid[k] > 0

\* Rows of table actions are never deleted.
LEMMA RowsStay == Spec => []ClaimedHasRow
  <1>1. Init => ClaimedHasRow
    BY DEF Init, ClaimedHasRow
  <1>2. ASSUME TypeOK, ClaimedHasRow, [Next]_vars PROVE ClaimedHasRow'
    <2>1. CASE UNCHANGED <<rowid, status>>
      BY <1>2, <2>1 DEF ClaimedHasRow
    <2>2. ASSUME NEW k \in Keys, WriteClaim(k) PROVE ClaimedHasRow'
      <3>1. Cardinality({j \in Keys : rowid[j] > 0}) \in Nat
        BY CountedRows
      <3>2. /\ rowid'[k] > 0
            /\ \A j \in Keys \ {k} : rowid'[j] = rowid[j] /\ status'[j] = status[j]
        BY <1>2, <2>2, <3>1 DEF WriteClaim, TypeOK
      <3>. QED
        BY <1>2, <3>2 DEF ClaimedHasRow
    <2>3. ASSUME NEW k \in Keys, NEW s, NEW e, Updatable(k), Settle(k, s, e)
          PROVE  ClaimedHasRow'
      BY <1>2, <2>3 DEF Updatable, Settle, ClaimedHasRow, TypeOK
    <2>4. ASSUME NEW p \in Procs, Complete(p) \/ Reconcile(p) PROVE ClaimedHasRow'
      <3>1. cur[p] \in Keys
        BY <1>2 DEF TypeOK
      <3>. QED
        BY <2>1, <2>3, <2>4, <3>1 DEF Complete, Reconcile, ledger
    <2>. QED
      BY <1>2, <2>1, <2>2, <2>4
         DEF Next, Find, Claim, Fire, ReadUncertain, Probe, Inspect, Crash, ledger, vars
  <1>. QED
    BY <1>1, <1>2, TypeCorrect, PTL DEF Spec

\* The other actions of its kind never use up the retry of an action that was
\* proved not to have occurred (the review note in budgets.py).
THEOREM RetriesAreKept == Spec => []RetryKeepsItsAllowance
  <1>1. ASSUME BudgetRespected, ClaimedHasRow PROVE RetryKeepsItsAllowance
    <2> SUFFICES ASSUME NEW k \in Keys, Budgeted = Procs, status[k] = "not_occurred",
                        KindOf[k] \in DOMAIN KindTotal
                 PROVE  Cardinality(RowsOfKind(KindOf[k]) \ {k}) < KindTotal[KindOf[k]]
      BY DEF RetryKeepsItsAllowance, BudgetAllows
    <2> DEFINE rows == RowsOfKind(KindOf[k])
    <2>1. k \in rows
      BY <1>1 DEF ClaimedHasRow, RowsOfKind
    <2>2. IsFiniteSet(rows) /\ Cardinality(rows) \in Nat
      BY FinitelyManyRows
    <2>3. Cardinality(rows \ {k}) = Cardinality(rows) - 1
      BY <2>1, <2>2, FS_RemoveElement
    <2>4. Cardinality(rows) <= KindTotal[KindOf[k]] /\ KindTotal[KindOf[k]] \in Nat
      BY <1>1, ConstantsOK DEF BudgetRespected, ConstantsOK
    <2>. QED
      BY <2>2, <2>3, <2>4
  <1>. QED
    BY <1>1, BudgetHolds, RowsStay, PTL

-----------------------------------------------------------------------------
(* Effects and attempts                                                      *)

\* The claimants of an action whose effect may still happen.
Claimants(k) == {p \in Procs : pc[p] = "claimed" /\ cur[p] = k}

\* The strengthening: there are finitely many claimants, whatever Procs is.
Covered ==
    \A k \in Keys : /\ IsFiniteSet(Claimants(k))
                    /\ occurred[k] + Cardinality(Claimants(k)) <= attempts[k]

\* A step that takes p in or out of the claimants leaves those of every other
\* action alone; p claims nothing before it claims k.
LEMMA ClaimantsGrow ==
    ASSUME TypeOK, NEW p \in Procs, NEW k \in Keys, pc[p] # "claimed",
           Goto(p, "claimed"), cur' = [cur EXCEPT ![p] = k]
    PROVE  /\ p \notin Claimants(k)
           /\ \A j \in Keys : Claimants(j)' = IF j = k THEN Claimants(j) \cup {p}
                                             ELSE Claimants(j)
  BY DEF TypeOK, Goto, Claimants

\* A claimant that has fired or died is none any more.
LEMMA ClaimantsShrink ==
    ASSUME TypeOK, NEW p \in Procs, pc[p] = "claimed",
           NEW l, l # "claimed", pc' = [pc EXCEPT ![p] = l], UNCHANGED cur
    PROVE  /\ p \in Claimants(cur[p])
           /\ \A j \in Keys : Claimants(j)' = IF j = cur[p] THEN Claimants(j) \ {p}
                                             ELSE Claimants(j)
  BY DEF TypeOK, Claimants

\* All other steps are taken by a process that is no claimant.
LEMMA ClaimantsStay ==
    ASSUME TypeOK, NEW p \in Procs, pc[p] # "claimed",
           NEW l, l # "claimed", pc' = [pc EXCEPT ![p] = l],
           \A q \in Procs \ {p} : cur'[q] = cur[q],
           NEW j \in Keys
    PROVE  Claimants(j)' = Claimants(j)
  BY DEF TypeOK, Claimants

\* Nor do they count anything.
LEMMA CoveredStays ==
    ASSUME Covered, UNCHANGED <<occurred, attempts>>,
           \A j \in Keys : Claimants(j)' = Claimants(j)
    PROVE  Covered'
  BY DEF Covered

\* A claim counts an attempt for its claimant.
LEMMA ClaimCovered ==
    ASSUME TypeOK, Covered, NEW p \in Procs, NEW k \in Keys, Claim(p, k)
    PROVE  Covered'
  <1>1. pc[p] # "claimed" /\ UNCHANGED occurred
    BY DEF Claim
  <1>2. ASSUME NEW a, Return(p, a), UNCHANGED ledger, cur' = [cur EXCEPT ![p] = k]
        PROVE  Covered'
    <2>1. \A j \in Keys : Claimants(j)' = Claimants(j)
      BY <1>1, <1>2, ClaimantsStay DEF Return, TypeOK
    <2>. QED
      BY <1>1, <1>2, <2>1, CoveredStays DEF ledger
  <1>3. ASSUME WriteClaim(k), Goto(p, "claimed"), cur' = [cur EXCEPT ![p] = k]
        PROVE  Covered'
    <2> SUFFICES ASSUME NEW j \in Keys
                 PROVE  /\ IsFiniteSet(Claimants(j)')
                        /\ occurred[j] + Cardinality(Claimants(j)') <= attempts'[j]
      BY <1>1 DEF Covered
    <2>1. /\ IsFiniteSet(Claimants(j)) /\ Cardinality(Claimants(j)) \in Nat
          /\ occurred[j] + Cardinality(Claimants(j)) <= attempts[j]
          /\ occurred[j] \in Nat /\ attempts[j] \in Nat
      BY FS_CardinalityType DEF Covered, TypeOK
    <2>2. CASE j = k
      <3>1. Claimants(j)' = Claimants(j) \cup {p} /\ p \notin Claimants(j)
        BY <1>1, <1>3, <2>2, ClaimantsGrow
      <3>2. /\ IsFiniteSet(Claimants(j)')
            /\ Cardinality(Claimants(j)') = Cardinality(Claimants(j)) + 1
        BY <2>1, <3>1, FS_AddElement
      <3>3. attempts'[j] = attempts[j] + 1
        BY <1>3, <2>2 DEF WriteClaim, TypeOK
      <3>. QED
        BY <2>1, <3>2, <3>3
    <2>3. CASE j # k
      <3>1. Claimants(j)' = Claimants(j)
        BY <1>1, <1>3, <2>3, ClaimantsGrow
      <3>2. attempts'[j] = attempts[j]
        BY <1>3, <2>3 DEF WriteClaim, TypeOK
      <3>. QED
        BY <2>1, <3>1, <3>2
    <2>. QED
      BY <2>2, <2>3
  <1>. QED
    BY <1>2, <1>3 DEF Claim

\* Whoever fires, or dies before it, gives its claim up; no attempt is lost.
LEMMA ClaimSpent ==
    ASSUME TypeOK, Covered, NEW p \in Procs, pc[p] = "claimed",
           NEW l, l # "claimed", pc' = [pc EXCEPT ![p] = l],
           UNCHANGED <<cur, attempts>>,
           \/ UNCHANGED occurred
           \/ occurred' = [occurred EXCEPT ![cur[p]] = @ + 1]
    PROVE  Covered'
  <1> SUFFICES ASSUME NEW j \in Keys
               PROVE  /\ IsFiniteSet(Claimants(j)')
                      /\ occurred'[j] + Cardinality(Claimants(j)') <= attempts[j]
    BY DEF Covered
  <1>1. /\ IsFiniteSet(Claimants(j)) /\ Cardinality(Claimants(j)) \in Nat
        /\ occurred[j] + Cardinality(Claimants(j)) <= attempts[j]
        /\ occurred[j] \in Nat /\ attempts[j] \in Nat
    BY FS_CardinalityType DEF Covered, TypeOK
  <1>2. CASE j = cur[p]
    <2>1. Claimants(j)' = Claimants(j) \ {p} /\ p \in Claimants(j)
      BY <1>2, ClaimantsShrink
    <2>2. /\ IsFiniteSet(Claimants(j)')
          /\ Cardinality(Claimants(j)') = Cardinality(Claimants(j)) - 1
      BY <1>1, <2>1, FS_RemoveElement
    <2>3. occurred'[j] \in {occurred[j], occurred[j] + 1}
      BY <1>2 DEF TypeOK
    <2>. QED
      BY <1>1, <2>2, <2>3
  <1>3. CASE j # cur[p]
    <2>1. Claimants(j)' = Claimants(j) /\ occurred'[j] = occurred[j]
      BY <1>3, ClaimantsShrink DEF TypeOK
    <2>. QED
      BY <1>1, <2>1
  <1>. QED
    BY <1>2, <1>3

\* Without any discipline an action may be performed twice, but never more often
\* than the ledger has counted attempts (gate.py, ledger.claim).
THEOREM EffectsAreCovered == Spec => []EffectsCoveredByAttempts
  <1>1. Init => Covered
    <2> SUFFICES ASSUME Init, NEW k \in Keys
                 PROVE  /\ IsFiniteSet(Claimants(k))
                        /\ occurred[k] + Cardinality(Claimants(k)) <= attempts[k]
      BY DEF Covered
    <2>1. Claimants(k) = {}
      BY DEF Init, Claimants
    <2>2. occurred[k] = 0 /\ attempts[k] = 0
      BY DEF Init
    <2>. QED
      BY <2>1, <2>2, FS_EmptySet
  <1>2. ASSUME TypeOK, Covered, [Next]_vars PROVE Covered'
    <2>1. ASSUME NEW p \in Procs, pc[p] # "claimed",
                 NEW l, l # "claimed", pc' = [pc EXCEPT ![p] = l],
                 \A q \in Procs \ {p} : cur'[q] = cur[q],
                 UNCHANGED <<occurred, attempts>>
          PROVE  Covered'
      BY <1>2, <2>1, ClaimantsStay, CoveredStays
    <2>2. ASSUME NEW p \in Procs, NEW k \in Keys, NEW r \in BOOLEAN, Find(p, k, r)
          PROVE  Covered'
      BY <1>2, <2>1, <2>2 DEF Find, Return, Goto, ledger, TypeOK
    <2>3. ASSUME NEW p \in Procs, NEW k \in Keys, Claim(p, k) PROVE Covered'
      BY <1>2, <2>3, ClaimCovered
    <2>4. ASSUME NEW p \in Procs, Fire(p) PROVE Covered'
      BY <1>2, <2>4, ClaimSpent DEF Fire, Return, Goto, ledger
    <2>5. ASSUME NEW p \in Procs, Complete(p) PROVE Covered'
      BY <2>1, <2>5 DEF Complete, Settle, Return, ledger
    <2>6. ASSUME NEW p \in Procs, ReadUncertain(p) PROVE Covered'
      BY <2>1, <2>6 DEF ReadUncertain, Goto, ledger
    <2>7. ASSUME NEW p \in Procs, Probe(p) PROVE Covered'
      BY <1>2, <2>1, <2>7 DEF Probe, Return, Goto, ledger, TypeOK
    <2>8. ASSUME NEW p \in Procs, NEW k \in Keys, Inspect(p, k) PROVE Covered'
      BY <1>2, <2>1, <2>8 DEF Inspect, Goto, ledger, TypeOK
    <2>9. ASSUME NEW p \in Procs, Reconcile(p) PROVE Covered'
      BY <2>1, <2>9 DEF Reconcile, Settle, Return, Goto, ledger
    <2>10. ASSUME NEW p \in Procs, Crash(p) PROVE Covered'
      <3>1. CASE pc[p] = "claimed"
        BY <1>2, <2>10, <3>1, ClaimSpent DEF Crash, Return, ledger
      <3>2. CASE pc[p] # "claimed"
        BY <2>1, <2>10, <3>2 DEF Crash, Return, ledger
      <3>. QED
        BY <3>1, <3>2
    <2>11. CASE UNCHANGED vars
      BY <1>2, <2>11 DEF Covered, Claimants, vars
    <2>. QED
      BY <1>2, <2>2, <2>3, <2>4, <2>5, <2>6, <2>7, <2>8, <2>9, <2>10, <2>11 DEF Next
  <1>3. Covered => EffectsCoveredByAttempts
    BY DEF Covered, Claimants, EffectsCoveredByAttempts
  <1>. QED
    BY <1>1, <1>2, <1>3, TypeCorrect, PTL DEF Spec

-----------------------------------------------------------------------------
(* Settlements come to an end: what of UncertaintySettles is safety           *)

\* No call to complete or reconcile finds its row settled by somebody else.
NobodyIsTooLate == \A p \in Procs : answer[p] # "keyerror"

\* While uncertain effects are settled one at a time and only after their claimant is
\* gone, no update of the ledger fails: the KeyError of complete and reconcile is
\* left to those who break that discipline (ledger.py complete and reconcile).
THEOREM SettlementsSucceed ==
    ASSUME ExclusiveSettlement
    PROVE  Spec => []NobodyIsTooLate
  <1>1. Init => NobodyIsTooLate
    BY DEF Init, NobodyIsTooLate
  <1>2. ASSUME TypeOK, Safe, NobodyIsTooLate, [Next]_vars
        PROVE  NobodyIsTooLate'
    <2>1. ASSUME NEW p \in Procs, NEW a, Return(p, a), a # "keyerror"
          PROVE  NobodyIsTooLate'
      BY <1>2, <2>1 DEF Return, NobodyIsTooLate, TypeOK
    <2>2. ASSUME NEW p \in Procs, NEW l, Goto(p, l)
          PROVE  NobodyIsTooLate'
      BY <1>2, <2>2 DEF Goto, NobodyIsTooLate, TypeOK
    <2>3. ASSUME NEW p \in Procs, Complete(p) PROVE NobodyIsTooLate'
      <3>1. Updatable(cur[p])
        BY <1>2, <2>3 DEF Complete, Updatable, Safe, Owned, ClaimantKnows
      <3>. QED
        BY <2>1, <2>3, <3>1 DEF Complete
    <2>4. ASSUME NEW p \in Procs, Reconcile(p) PROVE NobodyIsTooLate'
      <3>1. Updatable(cur[p])
        BY <1>2, <2>4 DEF Reconcile, Updatable, Safe, Owned, SettledAlone,
           VerdictStands, Settles
      <3>. QED
        BY <2>1, <2>2, <2>4, <3>1 DEF Reconcile
    <2>5. ASSUME NEW p \in Procs, NEW k \in Keys,
                 (\E r \in BOOLEAN : Find(p, k, r)) \/ Claim(p, k) \/ Inspect(p, k)
          PROVE  NobodyIsTooLate'
      BY <2>1, <2>2, <2>5 DEF Find, Claim, Inspect
    <2>6. ASSUME NEW p \in Procs,
                 Fire(p) \/ ReadUncertain(p) \/ Probe(p) \/ Crash(p)
          PROVE  NobodyIsTooLate'
      BY <2>1, <2>2, <2>6 DEF Fire, ReadUncertain, Probe, Crash
    <2>7. CASE UNCHANGED vars
      BY <1>2, <2>7 DEF vars, NobodyIsTooLate
    <2>. QED
      BY <1>2, <2>3, <2>4, <2>5, <2>6, <2>7 DEF Next
  <1>. QED
    BY <1>1, <1>2, SafeInductive, TypeCorrect, PTL DEF Spec

\* What a settlement at l has left to do for the rows ks.
Work(l, ks) ==
    CASE l = "settling" -> 2 * Cardinality(ks) + 2
      [] l = "probed" -> 2 * Cardinality(ks) + 1
      [] OTHER -> 0

\* A settlement has a row to look at, the first of those it has left, and one to
\* update when it has looked.
HasARow ==
    \A p \in Procs :
        /\ pc[p] = "settling" =>
              \E k \in todo[p] : \A j \in todo[p] : rowid[k] <= rowid[j]
        /\ pc[p] = "probed" => cur[p] \in todo[p]

\* Whatever moves a settlement brings it nearer to its end.
WorkGoesDown ==
    [][\A p \in Procs : Settles(p) /\ (pc'[p] # pc[p] \/ todo'[p] # todo[p])
          => Work(pc'[p], todo'[p]) < Work(pc[p], todo[p])]_vars

\* Of some rows one is the first: the one with the fewest before it.
LEMMA FirstRowExists ==
    ASSUME TypeOK, NEW ks \in SUBSET Keys, ks # {}
    PROVE  \E k \in ks : \A j \in ks : rowid[k] <= rowid[j]
  <1> DEFINE Before(k) == {j \in ks : rowid[j] < rowid[k]}
             Heads == {Before(k) : k \in ks}
             R == StrictSubsetOrdering(Keys)
  <1>1. IsWellFoundedOn(R, SUBSET Keys)
    BY ConstantsOK, FS_StrictSubsetOrderingWellFounded, FS_FiniteSubsetsOfFinite
       DEF ConstantsOK
  <1>2. Heads \subseteq SUBSET Keys /\ Heads # {}
    OBVIOUS
  <1>3. PICK h \in Heads : \A g \in Heads : <<g, h>> \notin R
    <2> HIDE DEF R, Heads
    <2>1. \E h \in Heads : \A g \in Heads : ~ (<<g, h>> \in R)
      BY <1>1, <1>2, WFMin, Zenon
    <2>. QED
      BY <2>1, Zenon
  <1>4. PICK k \in ks : h = Before(k)
    BY <1>3
  <1>5. \A j \in ks : rowid[j] \in Nat
    BY DEF TypeOK
  <1>6. ASSUME NEW j \in ks, rowid[j] < rowid[k]
        PROVE  FALSE
    <2>1. Before(j) \subseteq Before(k) /\ j \in Before(k) /\ j \notin Before(j)
      BY <1>5, <1>6
    <2>2. Before(j) \in Heads /\ Before(j) \in SUBSET Keys /\ h \in SUBSET Keys
      BY <1>4
    <2>3. <<Before(j), h>> \in R
      BY <1>4, <2>1, <2>2 DEF StrictSubsetOrdering
    <2>. QED
      BY <1>3, <2>2, <2>3
  <1>. QED
    BY <1>5, <1>6

\* Rows left to settle, at the right places.
Busy(l, ks, k) ==
    /\ l = "settling" => ks # {}
    /\ l = "probed" => k \in ks

BusyInv == \A p \in Procs : Busy(pc[p], todo[p], cur[p])

\* How one process moves, and that the others do not.
LEMMA MoverMoves ==
    ASSUME TypeOK, BusyInv, NEW p \in Procs,
           \/ \E k \in Keys : (\E r \in BOOLEAN : Find(p, k, r)) \/ Claim(p, k)
                                \/ Inspect(p, k)
           \/ Fire(p) \/ Complete(p) \/ ReadUncertain(p) \/ Probe(p) \/ Reconcile(p)
           \/ Crash(p)
    PROVE  /\ Busy(pc'[p], todo'[p], cur'[p])
           /\ Settles(p) => Work(pc'[p], todo'[p]) < Work(pc[p], todo[p])
           /\ \A q \in Procs : q # p => /\ pc'[q] = pc[q] /\ todo'[q] = todo[q]
                                        /\ cur'[q] = cur[q]
  <1> DEFINE Rest == \A q \in Procs : q # p => /\ pc'[q] = pc[q] /\ todo'[q] = todo[q]
                                              /\ cur'[q] = cur[q]
             x == Cardinality(todo[p])
  <1>1. x \in Nat /\ IsFiniteSet(todo[p])
    BY CountedRows, ConstantsOK, FS_Subset DEF TypeOK, ConstantsOK
  <1>2. /\ pc[p] = "settling" => Work(pc[p], todo[p]) = 2 * x + 2
        /\ pc[p] = "probed" => Work(pc[p], todo[p]) = 2 * x + 1
    BY DEF Work
  <1>3. \A ks : Work("idle", ks) = 0 /\ \A k : Busy("idle", ks, k)
    BY DEF Work, Busy
  <1> HIDE DEF x
  <1>4. ASSUME NEW k \in Keys, (\E r \in BOOLEAN : Find(p, k, r)) \/ Claim(p, k)
        PROVE  ~Settles(p) /\ Rest /\ Busy(pc'[p], todo'[p], cur'[p])
    BY <1>4 DEF Find, Claim, Return, Goto, Settles, TypeOK, Busy
  <1>5. ASSUME NEW k \in Keys, Inspect(p, k)
        PROVE  ~Settles(p) /\ Rest /\ Busy(pc'[p], todo'[p], cur'[p])
    BY <1>5 DEF Inspect, Goto, Settles, TypeOK, Busy
  <1>6. CASE Fire(p) \/ Complete(p)
    BY <1>6 DEF Fire, Complete, Return, Goto, Settles, TypeOK, Busy
  <1>7. CASE ReadUncertain(p)
    BY <1>7 DEF ReadUncertain, Goto, Settles, TypeOK, Busy, Uncertain
  <1>8. CASE Probe(p)
    <2>1. pc[p] = "settling" /\ Rest
      BY <1>8 DEF Probe, Goto, Return, TypeOK
    <2>2. CASE pc'[p] = "idle"
      BY <1>1, <1>2, <1>3, <2>1, <2>2
    <2>3. CASE pc'[p] = "probed" /\ todo' = todo /\ cur'[p] \in todo[p]
      <3>1. Work(pc'[p], todo'[p]) = 2 * x + 1
        BY <2>3 DEF Work, x
      <3>. QED
        BY <1>1, <1>2, <2>1, <2>3, <3>1 DEF Busy
    <2>. QED
      BY <1>8, <2>2, <2>3 DEF Probe, Goto, Return, TypeOK
  <1>9. CASE Reconcile(p)
    <2>1. pc[p] = "probed" /\ cur[p] \in todo[p] /\ Rest
      BY <1>9 DEF Reconcile, Goto, Return, TypeOK, BusyInv, Busy
    <2>2. CASE pc'[p] = "idle"
      BY <1>1, <1>2, <1>3, <2>1, <2>2
    <2>3. CASE /\ pc'[p] = "settling" /\ todo'[p] = todo[p] \ {cur[p]} /\ todo'[p] # {}
      <3>1. Cardinality(todo'[p]) = x - 1
        BY <1>1, <2>1, <2>3, FS_RemoveElement DEF x
      <3>2. Work(pc'[p], todo'[p]) = 2 * (x - 1) + 2
        BY <2>3, <3>1 DEF Work
      <3>. QED
        BY <1>1, <1>2, <2>1, <2>3, <3>2 DEF Busy
    <2>. QED
      BY <1>9, <2>2, <2>3 DEF Reconcile, Goto, Return, TypeOK
  <1>10. CASE Crash(p)
    <2>1. pc'[p] = "idle" /\ Rest
      BY <1>10 DEF Crash, Return, TypeOK
    <2>. QED
      BY <1>1, <1>2, <1>3, <2>1 DEF Settles
  <1>. QED
    BY <1>4, <1>5, <1>6, <1>7, <1>8, <1>9, <1>10

LEMMA BusyStep ==
    ASSUME TypeOK, BusyInv, Next
    PROVE  /\ BusyInv'
           /\ \A p \in Procs : Settles(p) /\ (pc'[p] # pc[p] \/ todo'[p] # todo[p])
                => Work(pc'[p], todo'[p]) < Work(pc[p], todo[p])
  <1>1. PICK p \in Procs :
            \/ \E k \in Keys : (\E r \in BOOLEAN : Find(p, k, r)) \/ Claim(p, k)
                                 \/ Inspect(p, k)
            \/ Fire(p) \/ Complete(p) \/ ReadUncertain(p) \/ Probe(p) \/ Reconcile(p)
            \/ Crash(p)
    BY DEF Next
  <1>2. /\ Busy(pc'[p], todo'[p], cur'[p])
        /\ Settles(p) => Work(pc'[p], todo'[p]) < Work(pc[p], todo[p])
        /\ \A q \in Procs : q # p => /\ pc'[q] = pc[q] /\ todo'[q] = todo[q]
                                     /\ cur'[q] = cur[q]
    BY <1>1, MoverMoves
  <1>3. BusyInv'
    BY <1>2 DEF BusyInv
  <1>. QED
    BY <1>2, <1>3

\* Settlements never wait and never go on for ever, whoever else claims, settles or
\* dies meanwhile and whatever the operator's discipline: reconcile_pending and the
\* reconcile command always have a row to deal with, and every move of theirs brings
\* them nearer to their end.  UncertaintySettles adds that they do move
\* (reconcilers.py reconcile_pending).
THEOREM SettlementsRunOut == Spec => []HasARow /\ WorkGoesDown
  <1>1. Init => BusyInv
    BY DEF Init, BusyInv, Busy
  <1>2. ASSUME TypeOK, BusyInv, [Next]_vars
        PROVE  BusyInv'
    <2>1. CASE UNCHANGED vars
      BY <1>2, <2>1 DEF vars, BusyInv
    <2>. QED
      BY <1>2, <2>1, BusyStep
  <1>3. Spec => []BusyInv
    BY <1>1, <1>2, TypeCorrect, PTL DEF Spec
  <1>4. ASSUME TypeOK, BusyInv
        PROVE  HasARow
    <2>1. \A p \in Procs : todo[p] \in SUBSET Keys
      BY <1>4 DEF TypeOK
    <2>. QED
      BY <1>4, <2>1, FirstRowExists DEF BusyInv, Busy, HasARow
  <1>5. ASSUME TypeOK, BusyInv, [Next]_vars
        PROVE  [\A p \in Procs : Settles(p) /\ (pc'[p] # pc[p] \/ todo'[p] # todo[p])
                  => Work(pc'[p], todo'[p]) < Work(pc[p], todo[p])]_vars
    BY <1>5, BusyStep
  <1>. QED
    BY <1>3, <1>4, <1>5, TypeCorrect, PTL DEF Spec, WorkGoesDown
=============================================================================
