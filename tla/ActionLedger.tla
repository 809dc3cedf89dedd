---------------------------- MODULE ActionLedger ----------------------------
(***************************************************************************)
(* The idempotency ledger of one mission (ledger.py), the admission gate     *)
(* around it (gate.py), its retry budget (budgets.py) and the settlement of  *)
(* uncertain effects (reconcilers.py, the reconcile command).                *)
(*                                                                           *)
(* Every process works on the same SQLite file through a handle of its own.  *)
(* A ledger method is one BEGIN IMMEDIATE transaction, hence one action; the *)
(* external effect and the probe run outside any transaction, and a process  *)
(* may die between any two steps.                                            *)
(***************************************************************************)
EXTENDS Integers, Sequences, FiniteSets

CONSTANTS
    Procs,         \* processes holding a handle on the mission database
    Keys,          \* sha256(kind, args): the distinct actions of the mission
    Kinds,         \* action kinds
    KindOf,        \* the kind an action key was computed from
    Limit,         \* RetryBudget.limits: a function on a subset of Kinds
    KindTotal,     \* RetryBudget.kind_totals: likewise
    Budgeted,      \* processes whose ledger was built with that budget
    Probed,        \* kinds with a registered probe
    ExclusiveSettlement, \* does the operator settle an effect only after its
                         \* claimant is gone, one settlement at a time?
    MaxAttempts,   \* bound on the attempts of an action without a limit
    MaxCrashes     \* bound on process deaths

ASSUME ConstantsOK ==
    /\ IsFiniteSet(Keys) /\ Keys # {}
    /\ KindOf \in [Keys -> Kinds]
    /\ DOMAIN Limit \subseteq Kinds /\ \A d \in DOMAIN Limit : Limit[d] \in Nat
    /\ DOMAIN KindTotal \subseteq Kinds
    /\ \A d \in DOMAIN KindTotal : KindTotal[d] \in Nat
    /\ Budgeted \subseteq Procs
    /\ Probed \subseteq Kinds
    /\ ExclusiveSettlement \in BOOLEAN
    /\ MaxAttempts \in Nat
    /\ MaxCrashes \in Nat

VARIABLES
    rowid,         \* position of the row in table actions, 0 for no row
    status,        \* actions.status, "none" for no row
    attempts,      \* actions.attempts
    chain,         \* the mission's event chain, restricted to each action
    occurred,      \* external: how many times the world performed the action
    pc,            \* where each process is
    cur,           \* the action it is working on
    todo,          \* uncertain rows it read and has not settled yet
    verdict,       \* the answer of its last probe
    answer,        \* how its last call ended
    crashes        \* process deaths so far

ledger == <<rowid, status, attempts, chain>>
vars == <<rowid, status, attempts, chain, occurred, pc, cur, todo, verdict,
          answer, crashes>>

Statuses == {"none", "started", "completed", "not_occurred"}
Locations == {"idle", "found", "claimed", "fired", "settling", "probed"}
Answers == {"none", "performed", "skipped", "uncertain", "unclaimed", "budget",
            "raised", "keyerror", "unresolved", "settled"}

StartedEvent(n) == [type |-> "ACTION_STARTED", attempt |-> n]
CompletedEvent == [type |-> "ACTION_COMPLETED"]
ReconciledEvent(b) == [type |-> "ACTION_RECONCILED", occurred |-> b]
FoundDone == ReconciledEvent(TRUE)
FoundUndone == ReconciledEvent(FALSE)
Events == [type : {"ACTION_STARTED"}, attempt : Nat] \cup {CompletedEvent}
             \cup [type : {"ACTION_RECONCILED"}, occurred : BOOLEAN]

TypeOK ==
    /\ rowid \in [Keys -> Nat]
    /\ status \in [Keys -> Statuses]
    /\ attempts \in [Keys -> Nat]
    /\ chain \in [Keys -> Seq(Events)]
    /\ occurred \in [Keys -> Nat]
    /\ pc \in [Procs -> Locations]
    /\ cur \in [Procs -> Keys]
    /\ todo \in [Procs -> SUBSET Keys]
    /\ verdict \in [Procs -> BOOLEAN]
    /\ answer \in [Procs -> Answers]
    /\ crashes \in Nat

Init ==
    /\ rowid = [k \in Keys |-> 0]
    /\ status = [k \in Keys |-> "none"]
    /\ attempts = [k \in Keys |-> 0]
    /\ chain = [k \in Keys |-> <<>>]
    /\ occurred = [k \in Keys |-> 0]
    /\ pc = [p \in Procs |-> "idle"]
    /\ cur = [p \in Procs |-> CHOOSE k \in Keys : TRUE]
    /\ todo = [p \in Procs |-> {}]
    /\ verdict = [p \in Procs |-> FALSE]
    /\ answer = [p \in Procs |-> "none"]
    /\ crashes = 0

-----------------------------------------------------------------------------
(* Control of a process                                                      *)

Goto(p, l) ==
    /\ pc' = [pc EXCEPT ![p] = l]
    /\ answer' = [answer EXCEPT ![p] = "none"]

\* The call of p returns or raises.
Return(p, a) ==
    /\ pc' = [pc EXCEPT ![p] = "idle"]
    /\ answer' = [answer EXCEPT ![p] = a]

\* p has claimed k and its effect may be under way.
Holds(p, k) == pc[p] \in {"claimed", "fired"} /\ cur[p] = k

Settles(p) == pc[p] \in {"settling", "probed"}

Uncertain == {k \in Keys : status[k] = "started"}

-----------------------------------------------------------------------------
(* Retry budget                                                              *)

RowsOfKind(d) == {k \in Keys : rowid[k] > 0 /\ KindOf[k] = d}

\* Faulty variants: the limit compared with <=; the row of k counted as well.
BudgetAllowsOneMore(k) ==
    LET d == KindOf[k]
    IN /\ d \in DOMAIN Limit => attempts[k] <= Limit[d]
       /\ d \in DOMAIN KindTotal =>
             Cardinality(RowsOfKind(d) \ {k}) < KindTotal[d]
BudgetAllowsCountsRetry(k) ==
    LET d == KindOf[k]
    IN /\ d \in DOMAIN Limit => attempts[k] < Limit[d]
       /\ d \in DOMAIN KindTotal => Cardinality(RowsOfKind(d)) < KindTotal[d]

\* The row of k itself is not counted: a retry adds no distinct action.
BudgetAllows(k) ==
    LET d == KindOf[k]
    IN /\ d \in DOMAIN Limit => attempts[k] < Limit[d]
       /\ d \in DOMAIN KindTotal =>
             Cardinality(RowsOfKind(d) \ {k}) < KindTotal[d]

-----------------------------------------------------------------------------
(* The admission gate and the ledger methods                                 *)

\* protected_call: the row is read outside any transaction.
Find(p, k, requireClaim) ==
    /\ pc[p] = "idle"
    /\ cur' = [cur EXCEPT ![p] = k]
    /\ \/ /\ status[k] = "none" /\ requireClaim
          /\ Return(p, "unclaimed")
       \/ /\ status[k] = "completed"
          /\ Return(p, "skipped")
       \/ /\ status[k] = "started"
          /\ Return(p, "uncertain")
       \/ /\ status[k] = "not_occurred" \/ (status[k] = "none" /\ ~requireClaim)
          /\ Goto(p, "found")
    /\ UNCHANGED <<ledger, occurred, todo, verdict, crashes>>

\* Faulty variant: the upsert of an existing row forgets attempts=attempts+1.
WriteClaimUncounted(k) ==
    /\ attempts[k] < MaxAttempts
    /\ rowid' = IF rowid[k] > 0 THEN rowid
                ELSE [rowid EXCEPT ![k] =
                         Cardinality({j \in Keys : rowid[j] > 0}) + 1]
    /\ status' = [status EXCEPT ![k] = "started"]
    /\ attempts' = [attempts EXCEPT ![k] = 1]
    /\ chain' = [chain EXCEPT ![k] = Append(@, StartedEvent(attempts[k] + 1))]

\* The claim transaction writes the row and its event together.
WriteClaim(k) ==
    /\ attempts[k] < MaxAttempts
    /\ rowid' = IF rowid[k] > 0 THEN rowid
                ELSE [rowid EXCEPT ![k] =
                         Cardinality({j \in Keys : rowid[j] > 0}) + 1]
    /\ status' = [status EXCEPT ![k] = "started"]
    /\ attempts' = [attempts EXCEPT ![k] = @ + 1]
    /\ chain' = [chain EXCEPT ![k] = Append(@, StartedEvent(attempts[k] + 1))]

\* Faulty variant: only a completed action is refused.
ClaimableUnlessCompleted(k) == status[k] # "completed"

Claimable(k) == status[k] \notin {"completed", "started"}

\* The gate claims what it found; an agent on the tool surface claims directly.
Claim(p, k) ==
    /\ pc[p] = "idle" \/ (pc[p] = "found" /\ cur[p] = k)
    /\ cur' = [cur EXCEPT ![p] = k]
    /\ \/ /\ status[k] = "completed"
          /\ Return(p, "skipped")
          /\ UNCHANGED ledger
       \/ /\ status[k] = "started"
          /\ Return(p, "uncertain")
          /\ UNCHANGED ledger
       \/ /\ Claimable(k)
          /\ p \in Budgeted /\ ~BudgetAllows(k)
          /\ Return(p, "budget")
          /\ UNCHANGED ledger
       \/ /\ Claimable(k)
          /\ p \in Budgeted => BudgetAllows(k)
          /\ WriteClaim(k)
          /\ Goto(p, "claimed")
    /\ UNCHANGED <<occurred, todo, verdict, crashes>>

\* effect(): returns once the world performed it, or raises whether it did or not.
Fire(p) ==
    /\ pc[p] = "claimed"
    /\ \/ /\ occurred' = [occurred EXCEPT ![cur[p]] = @ + 1]
          /\ Goto(p, "fired")
       \/ /\ occurred' = [occurred EXCEPT ![cur[p]] = @ + 1]
          /\ Return(p, "raised")
       \/ /\ Return(p, "raised")
          /\ UNCHANGED occurred
    /\ UNCHANGED <<ledger, cur, todo, verdict, crashes>>

\* Faulty variants: the event type stored as the status; nothing committed.
SettleWithType(k, newStatus, event) ==
    /\ status' = [status EXCEPT ![k] = event.type]
    /\ chain' = [chain EXCEPT ![k] = Append(@, event)]
    /\ UNCHANGED <<rowid, attempts>>
SettleRolledBack(k, newStatus, event) ==
    /\ UNCHANGED ledger

Settle(k, newStatus, event) ==
    /\ status' = [status EXCEPT ![k] = newStatus]
    /\ chain' = [chain EXCEPT ![k] = Append(@, event)]
    /\ UNCHANGED <<rowid, attempts>>

\* Faulty variant: a row in any state is overwritten.
UpdatableAlways(k) == status[k] # "none"

\* The UPDATE of complete and reconcile touches started rows only.
Updatable(k) == status[k] = "started"

Complete(p) ==
    /\ pc[p] = "fired"
    /\ \/ /\ Updatable(cur[p])
          /\ Settle(cur[p], "completed", CompletedEvent)
          /\ Return(p, "performed")
       \/ /\ ~Updatable(cur[p])
          /\ Return(p, "keyerror")
          /\ UNCHANGED ledger
    /\ UNCHANGED <<occurred, cur, todo, verdict, crashes>>

-----------------------------------------------------------------------------
(* Settlement                                                                *)

\* The discipline of the operator, where there is one: nothing in the code.
MaySettle(ks) ==
    ExclusiveSettlement => /\ \A p \in Procs, k \in ks : ~Holds(p, k)
                           /\ \A p \in Procs : ~Settles(p)

\* reconcile_pending reads every uncertain row once, up front.
ReadUncertain(p) ==
    /\ pc[p] = "idle"
    /\ Uncertain # {}
    /\ MaySettle(Uncertain)
    /\ todo' = [todo EXCEPT ![p] = Uncertain]
    /\ Goto(p, "settling")
    /\ UNCHANGED <<ledger, occurred, cur, verdict, crashes>>

\* The rows come ORDER BY rowid; a kind without a probe ends the whole call.
Probe(p) ==
    /\ pc[p] = "settling"
    /\ \E k \in todo[p] :
          /\ \A j \in todo[p] : rowid[k] <= rowid[j]
          /\ \/ /\ KindOf[k] \in Probed
                /\ cur' = [cur EXCEPT ![p] = k]
                /\ verdict' = [verdict EXCEPT ![p] = occurred[k] > 0]
                /\ Goto(p, "probed")
                /\ UNCHANGED todo
             \/ /\ KindOf[k] \notin Probed
                /\ todo' = [todo EXCEPT ![p] = {}]
                /\ Return(p, "unresolved")
                /\ UNCHANGED <<cur, verdict>>
    /\ UNCHANGED <<ledger, occurred, crashes>>

\* A person or an agent looks at the world, then runs the reconcile command.
Inspect(p, k) ==
    /\ pc[p] = "idle"
    /\ status[k] = "started"
    /\ MaySettle({k})
    /\ cur' = [cur EXCEPT ![p] = k]
    /\ todo' = [todo EXCEPT ![p] = {k}]
    /\ verdict' = [verdict EXCEPT ![p] = occurred[k] > 0]
    /\ Goto(p, "probed")
    /\ UNCHANGED <<ledger, occurred, crashes>>

\* Faulty variants: assume success; assume failure.
ReconciledStatusAssumed(b) == "completed"
ReconciledStatusDenied(b) == "not_occurred"

ReconciledStatus(b) == IF b THEN "completed" ELSE "not_occurred"

Reconcile(p) ==
    LET k == cur[p] IN
    /\ pc[p] = "probed"
    /\ \/ /\ Updatable(k)
          /\ Settle(k, ReconciledStatus(verdict[p]), ReconciledEvent(verdict[p]))
          /\ todo' = [todo EXCEPT ![p] = @ \ {k}]
          /\ IF todo[p] \ {k} = {} THEN Return(p, "settled")
                                   ELSE Goto(p, "settling")
       \/ /\ ~Updatable(k)
          /\ todo' = [todo EXCEPT ![p] = {}]
          /\ Return(p, "keyerror")
          /\ UNCHANGED ledger
    /\ UNCHANGED <<occurred, cur, verdict, crashes>>

-----------------------------------------------------------------------------
\* A process dies and a fresh one takes its place; the database survives.
Crash(p) ==
    /\ pc[p] # "idle"
    /\ crashes < MaxCrashes
    /\ crashes' = crashes + 1
    /\ todo' = [todo EXCEPT ![p] = {}]
    /\ Return(p, "none")
    /\ UNCHANGED <<ledger, occurred, cur, verdict>>

Next ==
    \E p \in Procs :
        \/ \E k \in Keys, requireClaim \in BOOLEAN : Find(p, k, requireClaim)
        \/ \E k \in Keys : Claim(p, k)
        \/ Fire(p)
        \/ Complete(p)
        \/ ReadUncertain(p)
        \/ Probe(p)
        \/ \E k \in Keys : Inspect(p, k)
        \/ Reconcile(p)
        \/ Crash(p)

Spec == Init /\ [][Next]_vars

\* A process that is inside a call keeps running, and recovery is rerun for as
\* long as something is uncertain.
Fairness ==
    /\ \A p \in Procs :
          WF_vars(\/ \E k \in Keys : pc[p] = "found" /\ Claim(p, k)
                  \/ Fire(p) \/ Complete(p) \/ Probe(p) \/ Reconcile(p))
    /\ SF_vars(\E p \in Procs : ReadUncertain(p))

FairSpec == Spec /\ Fairness

-----------------------------------------------------------------------------
(* Properties                                                                *)

\* The world performs an action at most once (the central promise of the gate:
\* claim, fire, record, and never fire again while the outcome is unknown).
AtMostOnce == \A k \in Keys : occurred[k] <= 1

\* Why: the inductive argument behind AtMostOnce and OutcomesAreTrue, under an
\* exclusive settlement.  A started row has one owner at most, a claimant or a
\* settlement, and that owner knows how often the effect has happened.
ClaimantKnows ==
    \A p \in Procs :
        /\ pc[p] \in {"claimed", "fired"} => status[cur[p]] = "started"
        /\ pc[p] = "claimed" => occurred[cur[p]] = 0
        /\ pc[p] = "fired" => occurred[cur[p]] = 1
OneClaimant ==
    \A p, q \in Procs, k \in Keys : Holds(p, k) /\ Holds(q, k) => p = q
SettledAlone ==
    \A p, q \in Procs : \A k \in todo[p] :
        Settles(p) => status[k] = "started" /\ ~Holds(q, k)
OneSettlement ==
    \A p, q \in Procs : Settles(p) /\ Settles(q) => p = q
VerdictStands ==
    \A p \in Procs : pc[p] = "probed" =>
        /\ cur[p] \in todo[p]
        /\ verdict[p] = (occurred[cur[p]] > 0)

Owned ==
    ClaimantKnows /\ OneClaimant /\ SettledAlone /\ OneSettlement /\ VerdictStands

\* What the ledger says about an action is what happened: a completed action
\* did, and one that never ran or was settled as not_occurred did not.
OutcomesAreTrue ==
    \A k \in Keys :
        /\ status[k] = "completed" => occurred[k] > 0
        /\ status[k] \in {"none", "not_occurred"} => occurred[k] = 0

\* Row and chain never diverge, whoever settles what when: the events of an
\* action alternate claim / settlement, only a negative settlement is followed
\* by another claim, claims are numbered in order, and the row is the replay of
\* the chain.
Replays(h, st, n) ==
    /\ \A i \in 1..Len(h) :
          IF i % 2 = 1 THEN h[i] = StartedEvent((i + 1) \div 2)
          ELSE \/ h[i] = FoundUndone
               \/ i = Len(h) /\ h[i] \in {CompletedEvent, FoundDone}
    /\ n = (Len(h) + 1) \div 2
    /\ st = IF h = <<>> THEN "none"
            ELSE IF Len(h) % 2 = 1 THEN "started"
            ELSE IF h[Len(h)] = FoundUndone THEN "not_occurred"
            ELSE "completed"

RowIsReplay == \A k \in Keys : Replays(chain[k], status[k], attempts[k])

\* Whoever is told that an action is already done can rely on it, even where
\* settlements race with live claimants.
SkipIsTruthful ==
    \A p \in Procs : answer[p] = "skipped" => occurred[cur[p]] > 0

\* Without any discipline of the operator an action may be performed twice, but
\* never more often than the chain records attempts: every effect, and every
\* claimant that may still fire, is covered by an attempt of its own.
EffectsCoveredByAttempts ==
    \A k \in Keys :
        occurred[k] + Cardinality({p \in Procs : pc[p] = "claimed" /\ cur[p] = k})
            <= attempts[k]

\* When every ledger is built with the budget, no interleaving of claims exceeds
\* the attempts of one action or the distinct actions of a kind.
BudgetRespected ==
    Budgeted = Procs =>
        /\ \A k \in Keys : KindOf[k] \in DOMAIN Limit =>
                              attempts[k] <= Limit[KindOf[k]]
        /\ \A d \in DOMAIN KindTotal : Cardinality(RowsOfKind(d)) <= KindTotal[d]

\* An action proved not to have occurred keeps its retries: distinct actions of
\* its kind never use up its own allowance (the review note in budgets.py).
RetryKeepsItsAllowance ==
    \A k \in Keys :
        /\ Budgeted = Procs
        /\ status[k] = "not_occurred"
        /\ KindOf[k] \in DOMAIN Limit => attempts[k] < Limit[KindOf[k]]
        => BudgetAllows(k)

\* An uncertain action is eventually settled if recovery keeps being run and
\* every kind has a probe, whatever order processes claim, settle and die in.
UncertaintySettles ==
    \A k \in Keys : status[k] = "started" ~> status[k] # "started"

\* The ledger implements the promise of EffectOnce.
KnownAs(st) == CASE st = "started" -> "maybe"
                 [] st = "completed" -> "yes"
                 [] OTHER -> "no"

Known == [k \in Keys |-> KnownAs(status[k])]

Promise == INSTANCE EffectOnce WITH known <- Known, happened <- occurred

ImplementsEffectOnce == Promise!Spec
=============================================================================
