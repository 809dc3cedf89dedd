----------------------------- MODULE MissionLog -----------------------------
(***************************************************************************)
(* What the functions of the core compute from a mission's event chain: the  *)
(* projected state (projection.py), the proof of a success contract          *)
(* (contracts.py) and the recovery decision (recovery.py).  A log is the     *)
(* sequence of events in chain order; event i has sequence number i.         *)
(***************************************************************************)
EXTENDS Integers, Sequences, FiniteSets

CONSTANTS
    Items,         \* work items
    Actions,       \* external actions, as keys of the ledger
    Agents,        \* agent names
    Total,         \* Mission.total
    Clauses        \* evidence ids a success contract asks for, {} for none

ASSUME LogConstantsOK == Total \in Nat

Origins == {"DETERMINISTIC", "EXTERNAL_AGENT", "HUMAN"}

MissionStarted == [type |-> "MISSION_STARTED"]
WorkCompleted(o, w) == [type |-> "WORK_COMPLETED", origin |-> o, item |-> w]
EvidenceRecorded(o, c, ok) ==
    [type |-> "EVIDENCE_RECORDED", origin |-> o, evidence |-> c, ok |-> ok]
ActionStarted(a) == [type |-> "ACTION_STARTED", action |-> a]
ActionSettled(a) == [type |-> "ACTION_SETTLED", action |-> a]
CheckpointCreated(n) == [type |-> "CHECKPOINT_CREATED", source |-> n]
ReviewConfirmed(t) == [type |-> "REVIEW_CONFIRMED", ticket |-> t]
HandoffStarted(f, t) == [type |-> "HANDOFF_STARTED", from |-> f, to |-> t]
HandoffCompleted(f, t, d) ==
    [type |-> "HANDOFF_COMPLETED", from |-> f, to |-> t, next |-> d]
MissionCompleted(n) == [type |-> "MISSION_COMPLETED", completed |-> n]

-----------------------------------------------------------------------------
(* Projection                                                                *)

SequencesWhere(log, P(_)) == {i \in 1..Len(log) : P(log[i])}

LastSequence(S) == IF S = {} THEN 0 ELSE CHOOSE i \in S : \A j \in S : j <= i

IsExternalWork(e) == e.type = "WORK_COMPLETED" /\ e.origin = "EXTERNAL_AGENT"
IsConfirmation(e) == e.type = "REVIEW_CONFIRMED"
IsClosure(e) == e.type = "MISSION_COMPLETED"

\* Faulty variant: one confirmation vouches for everything, past and future.
UnconfirmedUnlessEverConfirmed(log) ==
    /\ SequencesWhere(log, IsExternalWork) # {}
    /\ SequencesWhere(log, IsConfirmation) = {}

UnconfirmedExternalProgress(log) ==
    LastSequence(SequencesWhere(log, IsExternalWork))
        > LastSequence(SequencesWhere(log, IsConfirmation))

Completed(log) ==
    {log[i].item : i \in {j \in 1..Len(log) : log[j].type = "WORK_COMPLETED"}}

Terminal(log) == SequencesWhere(log, IsClosure) # {}

\* The receiver of the last completed handoff.
CurrentAgent(log) ==
    LET IsHandoff(e) == e.type = "HANDOFF_COMPLETED"
        i == LastSequence(SequencesWhere(log, IsHandoff))
    IN IF i = 0 THEN "unknown" ELSE log[i].to

-----------------------------------------------------------------------------
(* Success contract                                                          *)

TrustedOrigins == {"DETERMINISTIC", "HUMAN"}

\* Faulty variant: an agent certifies its own outcome.
EvidenceFromAnyone(log, c) ==
    {i \in 1..Len(log) : log[i].type = "EVIDENCE_RECORDED" /\ log[i].evidence = c}

TrustedEvidence(log, c) ==
    {i \in 1..Len(log) : /\ log[i].type = "EVIDENCE_RECORDED"
                         /\ log[i].evidence = c
                         /\ log[i].origin \in TrustedOrigins}

\* The evidence dict keeps the last entry of an id.
Proven(log, c) ==
    LET i == LastSequence(TrustedEvidence(log, c)) IN i > 0 /\ log[i].ok

ContractSatisfied(log) == \A c \in Clauses : Proven(log, c)

-----------------------------------------------------------------------------
(* Recovery                                                                  *)

Severity == [verified_complete |-> 0, continue |-> 1, wait |-> 2, repair |-> 3,
             request_review |-> 4, reconcile |-> 5, abort |-> 6]

SafeModes == {"continue", "verified_complete"}

Decision(mode, next) == [mode |-> mode, next |-> next]
Abort == Decision("abort", "repair_event_chain")

If(condition, decision) == IF condition THEN <<decision>> ELSE <<>>

\* The signals, in the order recover appends them.  A contract is evaluated only
\* by a caller that has one, and only for a terminal mission.
Candidates(log, rows, drifted, hasContract) ==
    If(rows # {}, Decision("reconcile", "reconcile"))
    \o If(UnconfirmedExternalProgress(log),
          Decision("request_review", "confirm_progress"))
    \o If(drifted, Decision("repair", "revalidate"))
    \o << IF Terminal(log)
          THEN IF hasContract /\ ~ContractSatisfied(log)
               THEN Decision("repair", "prove")
               ELSE Decision("verified_complete", "none")
          ELSE IF Total > 0 /\ Cardinality(Completed(log)) >= Total
               THEN Decision("continue", "close_mission")
               ELSE Decision("continue", "continue_work") >>

\* Faulty variant: each signal overwrites the one before it.
LastCandidate(candidates) == candidates[Len(candidates)]

\* max(candidates, key=severity): the first of the most severe ones.
Winner(candidates) ==
    LET severity(i) == Severity[candidates[i].mode]
        best == CHOOSE i \in 1..Len(candidates) :
                    \A j \in 1..Len(candidates) :
                        \/ severity(j) < severity(i)
                        \/ severity(j) = severity(i) /\ i <= j
    IN candidates[best]

Recovered(log, rows, drifted, hasContract) ==
    Winner(Candidates(log, rows, drifted, hasContract))

-----------------------------------------------------------------------------
(* What a log says, for the properties: definitions that search for no last  *)
(* event                                                                     *)

\* Actions a log leaves without an outcome.
Unsettled(log) ==
    {a \in Actions : \E i \in 1..Len(log) :
        /\ log[i] = ActionStarted(a)
        /\ \A j \in i + 1..Len(log) : log[j] # ActionSettled(a)}

\* A confirmation follows every work of an agent.
Vouched(log) ==
    \A i \in 1..Len(log) :
        IsExternalWork(log[i]) => \E j \in i + 1..Len(log) : IsConfirmation(log[j])

\* Somebody trusted has proven every clause, and nobody
\* trusted has said otherwise since.
Proved(log) ==
    \A c \in Clauses : \E i \in 1..Len(log), o \in Origins \ {"EXTERNAL_AGENT"} :
        /\ log[i] = EvidenceRecorded(o, c, TRUE)
        /\ \A j \in i + 1..Len(log), q \in Origins \ {"EXTERNAL_AGENT"} :
              log[j] # EvidenceRecorded(q, c, FALSE)

IsClosed(log) == \E i \in 1..Len(log) : IsClosure(log[i])

\* "Recovery precedence is conservative" (README.md): the first line that applies,
\* whatever else does.  The code follows README.md where ARCHITECTURE.md has another
\* last-but-one line, "goal reached -> verified_complete".  No document gives drift
\* and contract a place; they stand where the code raises them.
Precedence(log, effects, drifted, hasContract) ==
    IF effects # {} THEN Decision("reconcile", "reconcile") ELSE
    IF ~Vouched(log) THEN Decision("request_review", "confirm_progress") ELSE
    IF drifted THEN Decision("repair", "revalidate") ELSE
    IF IsClosed(log) /\ hasContract /\ ~Proved(log) THEN Decision("repair", "prove") ELSE
    IF IsClosed(log) THEN Decision("verified_complete", "none") ELSE
    IF Total > 0 /\ Cardinality(Completed(log)) >= Total
    THEN Decision("continue", "close_mission")
    ELSE Decision("continue", "continue_work")
=============================================================================
