---------------------------- MODULE MissionStore ----------------------------
(***************************************************************************)
(* The store of one mission (store.py) and the operations built on it that   *)
(* take more than one statement: recover (recovery.py), checkpoint           *)
(* (checkpoint.py) and restore (store.py), the briefing and the handoff      *)
(* (handoff.py), the approval of agent progress and the closure of the       *)
(* mission (store.py, service.py).                                           *)
(*                                                                           *)
(* A write transaction is one action.  A SELECT outside a transaction is one *)
(* action too, so an operation that reads twice may see two states.  Events  *)
(* are never changed or removed (the triggers of the schema), so what a      *)
(* SELECT of the chain returned is a prefix of it, kept here as its length.  *)
(***************************************************************************)
EXTENDS MissionLog

CONSTANTS
    Procs,         \* processes that run the operations of several statements
    Ops,           \* the operations they run
    Tickets,       \* confirmation tickets (confirm_tickets)
    Slips,         \* approval tickets (approval_requests)
    Writers,       \* what everybody else does, one transaction each
    None,          \* no ticket in hand
    MaxEvents      \* bound on the length of the chain

AllOps == {"recover", "close", "handoff", "briefing", "request", "approve", "confirm",
           "checkpoint", "restore"}
AllWriters == {"agent work", "own work", "agent evidence", "own evidence",
               "operator evidence", "claim", "settle", "operator"}

ASSUME StoreConstantsOK ==
    /\ Ops \subseteq AllOps
    /\ Writers \subseteq AllWriters
    /\ None \notin Tickets \cup Slips
    /\ Tickets \cap Slips = {} /\ "operator" \notin Tickets \cup Slips
    /\ "unconfirmed" \notin Actions
    /\ MaxEvents \in Nat \ {0}

VARIABLES
    events,        \* table events: the chain
    head,          \* chain_heads.event_count
    rows,          \* table actions: the keys whose status is started
    checkpoints,   \* table checkpoints
    tickets,       \* table confirm_tickets
    slips,         \* table approval_requests
    expired,       \* approval tickets whose expires_at has passed
    proc,          \* each process: its next statement and its locals
    lasting        \* history: dangers that stood throughout a recovery

database == <<events, head, rows, checkpoints, tickets, slips>>
vars == <<database, expired, proc, lasting>>

Prefix(n) == SubSeq(events, 1, n)

-----------------------------------------------------------------------------
(* Processes                                                                 *)

Labels == {"idle", "chain", "head", "log", "rows", "close", "save", "source",
           "list", "start", "handed", "bind log", "bind chain", "store slip",
           "redeem", "append", "replay"}

NextActions == {"repair_event_chain", "reconcile", "confirm_progress", "revalidate",
                "prove", "none", "close_mission", "continue_work"}

\* No answer yet; a value that no operation reads.
Undecided == Decision("wait", "none")
Decisions == [mode : DOMAIN Severity, next : NextActions]

\* What restore returns: a checkpoint, the state as of it, and the events after it.
Restored(n, w, r) == [sequence |-> n, completed |-> w, replayed |-> r]
NotRestored == Restored(0, {}, 0)

Processes ==
    [pc : Labels, op : Ops \cup {"none"},
     base : 0..MaxEvents,       \* length of the chain when the operation began
     chain : 0..MaxEvents,      \* length of the chain verify_chain read
     log : 0..MaxEvents,        \* length of the chain events() returned
     start : 0..MaxEvents,      \* length of the chain current_agent read, then the
                                \* HANDOFF_STARTED appended; checkpoint to restore
     ticket : Tickets \cup Slips \cup {None},
     decision : Decisions,
     advice : Decisions,        \* the decision a briefing shows
     listed : SUBSET Actions,   \* the uncertain effects it lists
     restored : [sequence : 0..MaxEvents, completed : SUBSET Items,
                 replayed : 0..MaxEvents]]

Idle == [pc |-> "idle", op |-> "none", base |-> 0, chain |-> 0, log |-> 0,
         start |-> 0, ticket |-> None, decision |-> Undecided, advice |-> Undecided,
         listed |-> {}, restored |-> NotRestored]

At(p, l) == proc[p].pc = l
Runs(p, o) == proc[p].op = o

Become(p, r) == proc' = [proc EXCEPT ![p] = r]
Goto(p, l) == Become(p, [proc[p] EXCEPT !.pc = l])

\* The operation returns, raises or dies: what it had read is gone.  So is, within
\* an operation, what it reads no more.
Return(p) == Become(p, Idle)
Refuse(p) == Return(p) /\ UNCHANGED <<database, expired>>

Started(p, o, l) ==
    [Idle EXCEPT !.pc = l, !.op = o, !.base = Len(events)]

Begins(p, o) == At(p, "idle") /\ o \in Ops

-----------------------------------------------------------------------------
(* Dangers: what no verdict may overlook                                     *)

Dangers == rows \cup IF Vouched(events) THEN {} ELSE {"unconfirmed"}

\* Operations that recover, and when what they recover begins: a handoff recovers
\* for its decision, then again for its briefing.
Watched == {"recover", "briefing", "handoff"}
BeginsToRecover(p) ==
    /\ proc'[p] # proc[p] /\ proc'[p].op \in Watched
    /\ At(p, "idle") \/ At(p, "source")
Rests(p) == At(p, "idle") /\ proc'[p] = proc[p]
Recovers(p) ==
    /\ ~At(p, "idle") /\ proc[p].op \in Watched /\ proc'[p] # Idle
    /\ At(p, "list") => proc'[p] = proc[p]

\* Observes every step: a danger lasts while it is there before and after.
Watch ==
    lasting' = [p \in Procs |->
        CASE Rests(p) -> lasting[p]
          [] BeginsToRecover(p) -> Dangers'
          [] Recovers(p) /\ ~BeginsToRecover(p) -> lasting[p] \cap Dangers'
          [] OTHER -> {}]

-----------------------------------------------------------------------------
(* Types                                                                     *)

EventTypes == {"MISSION_STARTED", "WORK_COMPLETED", "EVIDENCE_RECORDED",
               "ACTION_STARTED", "ACTION_SETTLED", "CHECKPOINT_CREATED",
               "REVIEW_CONFIRMED", "HANDOFF_STARTED", "HANDOFF_COMPLETED",
               "MISSION_COMPLETED"}

TypeOK ==
    /\ \A i \in DOMAIN events : events[i].type \in EventTypes
    /\ Len(events) \in 1..MaxEvents /\ head = Len(events)
    /\ rows \subseteq Actions
    /\ checkpoints \subseteq [sequence : 1..MaxEvents, completed : SUBSET Items]
    /\ tickets \in [Tickets -> {"none", "open", "used"}]
    /\ slips \in [Slips -> [state : {"none", "open", "used"},
                            log : 0..MaxEvents, chain : 0..MaxEvents]]
    /\ expired \subseteq Slips
    /\ proc \in [Procs -> Processes]

\* The mission as create_mission leaves it.
Init ==
    /\ events = <<MissionStarted>>
    /\ head = 1
    /\ rows = {}
    /\ checkpoints = {}
    /\ tickets = [t \in Tickets |-> "none"]
    /\ slips = [s \in Slips |-> [state |-> "none", log |-> 0, chain |-> 0]]
    /\ expired = {}
    /\ proc = [p \in Procs |-> Idle]
    /\ lasting = [p \in Procs |-> {}]

-----------------------------------------------------------------------------
(* Single transactions                                                       *)

\* Faulty variant: the head is computed from the row that was read, too early.
InsertEventStaleHead(e) ==
    /\ Len(events) < MaxEvents
    /\ events' = Append(events, e)
    /\ head' = Len(events)

\* _insert_event: the event and the new head, in the caller's transaction.
InsertEvent(e) ==
    /\ Len(events) < MaxEvents
    /\ events' = Append(events, e)
    /\ head' = Len(events) + 1

\* append: any event of a known mission, terminal or not.
AppendOnly(e) ==
    /\ InsertEvent(e)
    /\ UNCHANGED <<rows, checkpoints, tickets, slips, expired>>

EvidenceOf == [EXTERNAL_AGENT |-> "agent evidence", DETERMINISTIC |-> "own evidence",
               HUMAN |-> "operator evidence"]

\* What agents, operators and harnesses write in one transaction each.
Write ==
    /\ \/ /\ "agent work" \in Writers
          /\ \E w \in Items : AppendOnly(WorkCompleted("EXTERNAL_AGENT", w))
       \/ /\ "own work" \in Writers
          /\ \E w \in Items : AppendOnly(WorkCompleted("DETERMINISTIC", w))
       \/ \E o \in Origins, c \in Clauses, ok \in BOOLEAN :
             /\ EvidenceOf[o] \in Writers
             /\ AppendOnly(EvidenceRecorded(o, c, ok))
       \/ /\ "operator" \in Writers
          /\ AppendOnly(ReviewConfirmed("operator"))
    /\ UNCHANGED proc

\* The ledger in two transactions; ActionLedger has the whole of it.
ClaimAction(a) ==
    /\ "claim" \in Writers
    /\ a \notin rows
    /\ rows' = rows \cup {a}
    /\ InsertEvent(ActionStarted(a))
    /\ UNCHANGED <<checkpoints, tickets, slips, expired, proc>>

SettleAction(a) ==
    /\ "settle" \in Writers
    /\ a \in rows
    /\ rows' = rows \ {a}
    /\ InsertEvent(ActionSettled(a))
    /\ UNCHANGED <<checkpoints, tickets, slips, expired, proc>>

IssueConfirmTicket(t) ==
    /\ tickets[t] = "none"
    /\ tickets' = [tickets EXCEPT ![t] = "open"]
    /\ UNCHANGED <<events, head, rows, checkpoints, slips, expired, proc>>

\* expires_at is in the past from now on.
Expire(s) ==
    /\ slips[s].state = "open" /\ s \notin expired
    /\ expired' = expired \cup {s}
    /\ UNCHANGED <<database, proc>>

-----------------------------------------------------------------------------
(* Recovery: four reads, each a statement of its own                         *)

\* recover, and what begins with it or with verify_chain, read the chain first.
BeginWithChain(p) ==
    \E o \in {"recover", "close", "handoff"} :
        /\ Begins(p, o)
        /\ Become(p, [Started(p, o, "head") EXCEPT !.chain = Len(events)])
        /\ UNCHANGED <<database, expired>>

\* checkpoint, inspect_mission and a briefing begin with events().
BeginWithLog(p) ==
    /\ \/ /\ Begins(p, "checkpoint")
          /\ Become(p, [Started(p, "checkpoint", "save") EXCEPT !.log = Len(events)])
       \/ \E o \in {"request", "briefing"} :
             /\ Begins(p, o)
             /\ Become(p, [Started(p, o, "chain") EXCEPT !.log = Len(events)])
    /\ UNCHANGED <<database, expired>>

ReadChain(p) ==
    /\ At(p, "chain")
    /\ Become(p, [proc[p] EXCEPT !.pc = "head", !.chain = Len(events)])
    /\ UNCHANGED <<database, expired>>

\* What the operation does with the decision of recover.
Proceed(p, d) ==
    \/ /\ Runs(p, "recover")
       /\ Become(p, [Idle EXCEPT !.base = proc[p].base, !.decision = d])
       /\ UNCHANGED <<database, expired>>
    \/ /\ Runs(p, "handoff") /\ proc[p].decision = Undecided
       /\ d.mode \notin {"reconcile", "abort"}
       /\ Become(p, [proc[p] EXCEPT !.pc = "source", !.log = 0, !.decision = d])
       /\ UNCHANGED <<database, expired>>
    \/ /\ Runs(p, "handoff") /\ proc[p].decision = Undecided
       /\ d.mode \in {"reconcile", "abort"}
       /\ Refuse(p)
    \/ /\ Runs(p, "handoff") => proc[p].decision # Undecided
       /\ proc[p].op \in {"briefing", "handoff"}
       /\ Become(p, [proc[p] EXCEPT !.pc = "list", !.log = 0, !.advice = d])
       /\ UNCHANGED <<database, expired>>
    \/ /\ Runs(p, "request") /\ d.mode = "request_review"
       /\ Goto(p, "bind log")
       /\ UNCHANGED <<database, expired>>
    \/ /\ Runs(p, "request") /\ d.mode # "request_review"
       /\ Refuse(p)

\* verify_chain compares the chain it read before with the head it reads now;
\* closure looks at the uncertain rows next, recovery at the log.
ReadHead(p) ==
    /\ At(p, "head")
    /\ \/ /\ head = proc[p].chain
          /\ Become(p, [proc[p] EXCEPT !.chain = 0,
                           !.pc = IF Runs(p, "close") THEN "rows" ELSE "log"])
          /\ UNCHANGED <<database, expired>>
       \/ head # proc[p].chain /\ Runs(p, "close") /\ Refuse(p)
       \/ head # proc[p].chain /\ ~Runs(p, "close") /\ Proceed(p, Abort)

CloseRefused(log) ==
    \/ UnconfirmedExternalProgress(log)
    \/ Total > 0 /\ Cardinality(Completed(log)) < Total
    \/ ~ContractSatisfied(log)

ReadLog(p) ==
    /\ At(p, "log")
    /\ \/ /\ Runs(p, "close") /\ CloseRefused(events)
          /\ Refuse(p)
       \/ /\ ~(Runs(p, "close") /\ CloseRefused(events))
          /\ Become(p, [proc[p] EXCEPT !.log = Len(events),
                           !.pc = IF Runs(p, "close") THEN "close" ELSE "rows"])
          /\ UNCHANGED <<database, expired>>

\* Faulty variant: the uncertain rows are not looked at.
UncertainNever == {}

Uncertain == rows

ReadRows(p) ==
    /\ At(p, "rows")
    /\ \/ Runs(p, "close") /\ Uncertain # {} /\ Refuse(p)
       \/ Runs(p, "close") /\ Uncertain = {} /\ Goto(p, "log")
          /\ UNCHANGED <<database, expired>>
       \/ /\ ~Runs(p, "close")
          /\ Proceed(p, Recovered(Prefix(proc[p].log), Uncertain, FALSE, FALSE))

\* Faulty variant: the group of missions to review is named after the action.
GroupsByAction(group) ==
    CASE group = "active" -> {"continue", "close_mission"}
      [] group = "blocked" -> {"reconcile", "halt"}
      [] group = "review-required" -> {"confirm_progress"}
      [] group = "completed" -> {"verified_complete"}

\* list_missions --status: the modes of a group.  No mode is called close_mission or
\* halt, and abort, repair and wait are in no group.
Groups(group) ==
    CASE group = "active" -> {"continue", "close_mission"}
      [] group = "blocked" -> {"reconcile", "halt"}
      [] group = "review-required" -> {"request_review"}
      [] group = "completed" -> {"verified_complete"}

GroupNames == {"active", "blocked", "review-required", "completed"}

\* The filters that show the mission, once list_missions has recovered it with the
\* four reads above.
ListedUnder(p) == {g \in GroupNames : proc[p].decision.mode \in Groups(g)}

-----------------------------------------------------------------------------
(* Closure, checkpoint, handoff                                              *)

\* complete_mission: the append does not repeat any of the checks.
Close(p) ==
    /\ At(p, "close")
    /\ AppendOnly(MissionCompleted(Cardinality(Completed(Prefix(proc[p].log)))))
    /\ Return(p)

\* Faulty variant: the sequence is read inside the transaction, the state before.
CheckpointRowLate(n) ==
    [sequence |-> Len(events), completed |-> Completed(Prefix(n))]

CheckpointRow(n) == [sequence |-> n, completed |-> Completed(Prefix(n))]

\* The primary key (mission, sequence) refuses a second checkpoint of a state.
SaveCheckpoint(p) ==
    LET row == CheckpointRow(proc[p].log)
        taken == \E c \in checkpoints : c.sequence = row.sequence
    IN
    /\ At(p, "save")
    /\ \/ taken /\ Refuse(p)
       \/ /\ ~taken
          /\ checkpoints' = checkpoints \cup {row}
          /\ InsertEvent(CheckpointCreated(row.sequence))
          /\ Return(p)
          /\ UNCHANGED <<rows, tickets, slips, expired>>

\* restore: the row of a checkpoint, the latest or another, is read first.
BeginRestore(p) ==
    /\ Begins(p, "restore")
    /\ \E c \in checkpoints :
          Become(p, [Started(p, "restore", "replay") EXCEPT !.start = c.sequence])
    /\ UNCHANGED <<database, expired>>

\* Faulty variant: the state is projected from all there is by now.
AsOfNow(n) == Completed(events)

AsOf(n) == Completed(Prefix(n))

\* The events are read next, and may be more than when the row was read.
FinishRestore(p) ==
    LET n == proc[p].start IN
    /\ At(p, "replay")
    /\ Become(p, [Idle EXCEPT !.restored = Restored(n, AsOf(n), Len(events) - n)])
    /\ UNCHANGED <<database, expired>>

\* handoff: current_agent is read, then the log for the briefing, which recovers
\* once more and shows a decision of its own.
ReadSource(p) ==
    /\ At(p, "source")
    /\ Become(p, [proc[p] EXCEPT !.pc = "chain", !.start = Len(events)])
    /\ UNCHANGED <<database, expired>>

\* Faulty variant: only effects that are in the log it projected are listed.
UncertainOfLog(p) ==
    {a \in rows : \E i \in 1..proc[p].base : events[i] = ActionStarted(a)}

UncertainDetails(p) == rows

\* compile_briefing ends with the uncertain effects, by a read of their own; it
\* may be refused as too large for its receiver, which ends a handoff (Crash).
ListUncertain(p) ==
    /\ At(p, "list")
    /\ \/ /\ Runs(p, "briefing")
          /\ Become(p, [Idle EXCEPT !.advice = proc[p].advice,
                                    !.listed = UncertainDetails(p)])
       \/ /\ Runs(p, "handoff")
          /\ Become(p, [proc[p] EXCEPT !.pc = "start", !.listed = UncertainDetails(p)])
    /\ UNCHANGED <<database, expired>>

\* The caller may name another from_agent than the current one.  Source and
\* receiver are from here on the ones of the event appended.
StartHandoff(p) ==
    /\ At(p, "start")
    /\ \E t \in Agents, f \in Agents \cup {CurrentAgent(Prefix(proc[p].start))} :
          AppendOnly(HandoffStarted(f, t))
    /\ Become(p, [proc[p] EXCEPT !.pc = "handed", !.start = Len(events) + 1,
                     !.advice = Undecided, !.listed = {}])

CompleteHandoff(p) ==
    LET start == events[proc[p].start] IN
    /\ At(p, "handed")
    /\ AppendOnly(HandoffCompleted(start.from, start.to, proc[p].decision.next))
    /\ Return(p)

-----------------------------------------------------------------------------
(* Review                                                                    *)

\* request_approval_digest: the digest covers the events inspect_mission read and
\* the chain it verified after that.
BindLog(p) ==
    /\ At(p, "bind log")
    /\ Become(p, [proc[p] EXCEPT !.pc = "bind chain", !.log = Len(events)])
    /\ UNCHANGED <<database, expired>>

\* Faulty variant: the digest presented is not compared with the present state.
DigestMatchesAnything(p, s) == TRUE

DigestMatches(p, s) == slips[s].log = proc[p].log /\ slips[s].chain = Len(events)

BindChain(p) ==
    /\ At(p, "bind chain")
    /\ \/ /\ Runs(p, "request")
          /\ Become(p, [proc[p] EXCEPT !.pc = "store slip", !.chain = Len(events)])
          /\ UNCHANGED <<database, expired>>
       \/ /\ Runs(p, "approve") /\ DigestMatches(p, proc[p].ticket)
          /\ Goto(p, "redeem")
          /\ UNCHANGED <<database, expired>>
       \/ /\ Runs(p, "approve") /\ ~DigestMatches(p, proc[p].ticket)
          /\ Refuse(p)

StoreSlip(p) ==
    /\ At(p, "store slip")
    /\ \E s \in Slips :
          /\ slips[s].state = "none"
          /\ slips' = [slips EXCEPT ![s] = [state |-> "open", log |-> proc[p].log,
                                            chain |-> proc[p].chain]]
    /\ Return(p)
    /\ UNCHANGED <<events, head, rows, checkpoints, tickets, expired>>

\* approve_with_ticket: the row is checked before the digest is recomputed.
BeginApprove(p, s) ==
    /\ Begins(p, "approve")
    /\ slips[s].state = "open" /\ s \notin expired
    /\ Become(p, [Started(p, "approve", "bind log") EXCEPT !.ticket = s])
    /\ UNCHANGED <<database, expired>>

\* Faulty variant: the ticket is only looked up, not redeemed, in the UPDATE.
RedeemableIfKnown(state) == state # "none"

Redeemable(state) == state = "open"

Approve(p) ==
    LET s == proc[p].ticket IN
    /\ At(p, "redeem")
    /\ \/ /\ Redeemable(slips[s].state)
          /\ slips' = [slips EXCEPT ![s].state = "used"]
          /\ InsertEvent(ReviewConfirmed(s))
          /\ Return(p)
          /\ UNCHANGED <<rows, checkpoints, tickets, expired>>
       \/ /\ ~Redeemable(slips[s].state)
          /\ Refuse(p)

\* everrun_confirm: the ticket is redeemed in one transaction, the confirmation
\* appended in the next.
RedeemTicket(p, t) ==
    /\ Begins(p, "confirm")
    /\ Redeemable(tickets[t])
    /\ tickets' = [tickets EXCEPT ![t] = "used"]
    /\ Become(p, [Started(p, "confirm", "append") EXCEPT !.ticket = t])
    /\ UNCHANGED <<events, head, rows, checkpoints, slips, expired>>

Confirm(p) ==
    /\ At(p, "append")
    /\ AppendOnly(ReviewConfirmed(proc[p].ticket))
    /\ Return(p)

-----------------------------------------------------------------------------
\* The process dies, or its next statement fails (a locked database): the
\* operation ends where it is and what it committed stays.
Crash(p) ==
    /\ ~At(p, "idle")
    /\ Refuse(p)

Step(p) ==
    \/ BeginWithChain(p) \/ BeginWithLog(p)
    \/ ReadChain(p) \/ ReadHead(p) \/ ReadLog(p) \/ ReadRows(p)
    \/ Close(p) \/ SaveCheckpoint(p)
    \/ BeginRestore(p) \/ FinishRestore(p)
    \/ ReadSource(p) \/ ListUncertain(p) \/ StartHandoff(p) \/ CompleteHandoff(p)
    \/ BindLog(p) \/ BindChain(p) \/ StoreSlip(p)
    \/ \E s \in Slips : BeginApprove(p, s)
    \/ Approve(p)
    \/ \E t \in Tickets : RedeemTicket(p, t)
    \/ Confirm(p)
    \/ Crash(p)

Next ==
    /\ \/ Write
       \/ \E a \in Actions : ClaimAction(a) \/ SettleAction(a)
       \/ \E t \in Tickets : IssueConfirmTicket(t)
       \/ \E s \in Slips : Expire(s)
       \/ \E p \in Procs : Step(p)
    /\ Watch

Spec == Init /\ [][Next]_vars

-----------------------------------------------------------------------------
(* Properties                                                                *)

Appended(type) ==
    Len(events') = Len(events) + 1 /\ events'[Len(events')].type = type

\* Moments of the chain since p began its operation.
During(p) == proc[p].base..Len(events)

\* However writers interleave with complete_mission, a mission is closed only on
\* evidence it has had since the closure began: a moment without an unresolved
\* effect, and a later one with its work done, confirmed and proven, whose count
\* the closing event records.
ClosedOnEvidence ==
    [][Appended("MISSION_COMPLETED") =>
          \E p \in Procs : proc[p].pc = "close" /\ \E m, n \in During(p) :
              /\ m <= n
              /\ Unsettled(Prefix(m)) = {}
              /\ Vouched(Prefix(n))
              /\ Cardinality(Completed(Prefix(n))) >= Total
              /\ Proved(Prefix(n))
              /\ events'[Len(events')].completed = Cardinality(Completed(Prefix(n)))
      ]_vars

\* "Closure is rejected if ... agent-reported work is unconfirmed ... or any side
\* effect remains unresolved" (README.md), read of the mission that was closed.
ClosedMissionIsSettled ==
    \A i \in 1..Len(events) : IsClosure(events[i]) =>
        /\ Unsettled(Prefix(i)) = {}
        /\ Vouched(Prefix(i))

\* A danger that stands throughout a recovery is never overlooked, whatever is
\* written between its reads: the verdict is then not a safe one.
VerdictSeesLastingDanger ==
    \A p \in Procs :
        proc[p].pc = "idle" /\ proc[p].decision.mode \in SafeModes => lasting[p] = {}

\* "The most cautious applicable signal always wins" (recovery.py), of what recover
\* has read: apart from a false alarm, every verdict is the precedence of README.md
\* applied to the log of one moment of the recovery and to the effects that were
\* unsettled at a later one; nothing older, and nothing that was never there.  The two
\* moments may differ, and the mission may have been safe at neither.
VerdictRestsOnTwoMoments ==
    \A p \in Procs : proc[p].decision \notin {Undecided, Abort} =>
        \E m, n \in During(p) :
            /\ m <= n
            /\ proc[p].decision = Precedence(Prefix(m), Unsettled(Prefix(n)), FALSE, FALSE)

\* An intact mission is called corrupt only when somebody wrote to it between the
\* two reads of verify_chain; a lone reader never raises a false alarm.
AbortOnlyUnderConcurrentWrite ==
    \A p \in Procs : proc[p].decision = Abort => Len(events) > proc[p].base

\* What a filter of the list says of a mission whose chain has n events.
Deserves(group, n) ==
    CASE group = "active" -> ~IsClosed(Prefix(n))
      [] group = "blocked" -> Unsettled(Prefix(n)) # {}
      [] group = "review-required" -> ~Vouched(Prefix(n))
      [] group = "completed" -> IsClosed(Prefix(n))

\* Whoever lists missions by status finds the mission under exactly one status, and
\* one that it had at a moment since the listing came to it; under blocked, if some
\* effect was uncertain all the while, and never as active or completed, if any
\* danger was.  Only a mission written to meanwhile may be under none of them.
ListsFindTheMission ==
    \A p \in Procs : proc[p].pc = "idle" /\ proc[p].decision # Undecided =>
        \/ ListedUnder(p) = {} /\ Len(events) > proc[p].base
        \/ \E g \in GroupNames :
              /\ ListedUnder(p) = {g}
              /\ \E n \in During(p) : Deserves(g, n)
              /\ lasting[p] \cap Actions # {} => g = "blocked"
              /\ lasting[p] # {} => g \in {"blocked", "review-required"}

\* Every checkpoint is the projection of exactly the events up to its sequence,
\* and the chain holds the event of the same transaction, once per checkpoint.
CheckpointsReplay ==
    /\ \A c \in checkpoints :
          /\ c.completed = Completed(Prefix(c.sequence))
          /\ Cardinality({i \in 1..Len(events) :
                events[i] = CheckpointCreated(c.sequence)}) = 1
    /\ \A c, d \in checkpoints : c.sequence = d.sequence => c = d
    /\ \A i \in 1..Len(events) : events[i].type = "CHECKPOINT_CREATED" =>
          \E c \in checkpoints : c.sequence = events[i].source /\ c.sequence < i

ConfirmedWith(t) == {i \in 1..Len(events) : events[i] = ReviewConfirmed(t)}

\* A ticket confirms once, even when two processes redeem it at the same time or
\* die half way: an approval ticket is used exactly when its confirmation is in
\* the chain; a confirmation ticket is used before its confirmation is, and a
\* death in between loses the confirmation, never the other way round.
ConfirmationsBacked ==
    /\ \A s \in Slips : Cardinality(ConfirmedWith(s))
                           = IF slips[s].state = "used" THEN 1 ELSE 0
    /\ \A t \in Tickets : Cardinality(ConfirmedWith(t))
                           <= IF tickets[t] = "used" THEN 1 ELSE 0

\* An approval is granted only if the mission stood, when the approval began, at
\* exactly the state its digest was taken from.
ApprovalSawItsState ==
    [][\A s \in Slips : slips[s].state = "open" /\ slips'[s].state = "used" =>
          \E p \in Procs : /\ proc[p].ticket = s
                           /\ slips[s].log = proc[p].base /\ slips[s].chain = proc[p].base
      ]_vars

\* A handoff is recorded with advice that was safe to pass on, after a moment of
\* its own without an unresolved effect, and closes a start of the same parties.
HandoffOnEvidence ==
    [][Appended("HANDOFF_COMPLETED") =>
          LET e == events'[Len(events')] IN
          /\ e.next \notin {"reconcile", "repair_event_chain"}
          /\ \E p \in Procs : proc[p].pc = "handed" /\ \E m, n \in During(p) :
                /\ Unsettled(Prefix(m)) = {}
                /\ m <= n /\ events[n] = HandoffStarted(e.from, e.to)
      ]_vars

\* What a briefing tells its receiver, alone or inside a handoff: an effect that is
\* uncertain throughout is listed, and no danger that lasts throughout goes with
\* safe advice, although progress, advice and list are read at different moments.
BriefingShowsLastingDanger ==
    [][\A p \in Procs : At(p, "list") /\ proc'[p] # proc[p] /\ proc'[p] # Idle =>
          /\ lasting[p] \cap rows \subseteq proc'[p].listed
          /\ proc'[p].advice.mode \in SafeModes => lasting[p] \cap Dangers = {}
      ]_vars

\* What restore returns as the state of a checkpoint is what was saved, and the
\* events to replay begin with the checkpoint's own, however the chain has grown
\* since its row was read.
RestoredAsSaved ==
    \A p \in Procs :
        LET r == proc[p].restored IN
        r # NotRestored =>
            /\ \E c \in checkpoints : c.sequence = r.sequence /\ c.completed = r.completed
            /\ r.replayed > 0
=============================================================================
