-------------------------- MODULE MissionStoreProofs --------------------------
(***************************************************************************)
(* Theorems about the store of a mission, for any number of processes,       *)
(* tickets, actions and work items, and chains of any bounded length.        *)
(***************************************************************************)
EXTENDS MissionStore, MissionLogProofs

-----------------------------------------------------------------------------
(* Types                                                                     *)

EventOK(e) ==
    /\ e.type \in EventTypes
    /\ e.type = "WORK_COMPLETED" => e.item \in Items
    /\ e.type = "EVIDENCE_RECORDED" =>
          \E o \in Origins, c \in Clauses, ok \in BOOLEAN : e = EvidenceRecorded(o, c, ok)

ChainOK ==
    /\ IsLog(events)
    /\ Len(events) \in 1..MaxEvents /\ head = Len(events)
    /\ \A i \in 1..Len(events) : EventOK(events[i])

TablesOK ==
    /\ rows \subseteq Actions
    /\ checkpoints \subseteq [sequence : 1..MaxEvents, completed : SUBSET Items]
    /\ \A c \in checkpoints : c.sequence < Len(events)
    /\ tickets \in [Tickets -> {"none", "open", "used"}]
    /\ slips \in [Slips -> [state : {"none", "open", "used"},
                            log : 0..MaxEvents, chain : 0..MaxEvents]]
    /\ expired \subseteq Slips

\* What a process read is a prefix of a chain of n events.
Within(r, n) ==
    /\ r.base <= n /\ r.chain <= n /\ r.log <= n /\ r.start <= n
    /\ r.pc = "save" => r.log >= 1

ProcOK(r, n) == r \in Processes /\ Within(r, n)

ProcsOK ==
    /\ DOMAIN proc = Procs /\ proc = [p \in Procs |-> proc[p]]
    /\ \A p \in Procs : ProcOK(proc[p], Len(events))

TypeInv == ChainOK /\ TablesOK /\ ProcsOK

\* The strengthening holds the type invariant.
LEMMA TypeInvTypes == TypeInv => TypeOK
<1> SUFFICES ASSUME TypeInv PROVE TypeOK
  OBVIOUS
<1>1. \A i \in DOMAIN events : events[i].type \in EventTypes
  BY LogShape DEF TypeInv, ChainOK, EventOK
<1>2. proc \in [Procs -> Processes]
  BY DEF TypeInv, ProcsOK, ProcOK
<1> QED BY <1>1, <1>2 DEF TypeInv, ChainOK, TablesOK, TypeOK

\* No operation in progress is in order with any chain.
LEMMA IdleOK == \A n \in Nat : ProcOK(Idle, n)
<1>1. 0 \in 0..MaxEvents
  BY StoreConstantsOK
<1>2. Undecided \in Decisions
  BY DEF Undecided, Decision, Decisions, Severity, NextActions
<1> QED BY <1>1, <1>2 DEF ProcOK, Within, Processes, Idle, NotRestored, Restored, Labels

\* Verdicts are decisions.
LEMMA VerdictsAreDecisions ==
    /\ Verdicts \cup {Abort, Undecided} \subseteq Decisions
    /\ Abort \notin Verdicts /\ Undecided \notin Verdicts
BY DEF Verdicts, Abort, Undecided, Decisions, Decision, Severity, NextActions

\* Types hold from the start.
LEMMA InitTypes == Init => TypeInv
<1> SUFFICES ASSUME Init PROVE TypeInv
  OBVIOUS
<1> DEFINE e == MissionStarted
<1>1. <<e>> \in Seq({e}) /\ Len(<<e>>) = 1 /\ <<e>>[1] = e
  OBVIOUS
<1>2. IsLog(<<e>>)
  BY <1>1, SeqIsLog
<1>3. EventOK(e)
  BY DEF EventOK, MissionStarted, EventTypes
<1>4. ChainOK
  <2>1. 1 \in 1..MaxEvents
    BY StoreConstantsOK
  <2> HIDE DEF e
  <2> QED BY <1>1, <1>2, <1>3, <2>1 DEF ChainOK, Init, e
<1>5. TablesOK
  BY StoreConstantsOK DEF TablesOK, Init
<1>6. ProcsOK
  BY <1>1, IdleOK DEF ProcsOK, Init
<1> QED BY <1>4, <1>5, <1>6 DEF TypeInv

-----------------------------------------------------------------------------
(* What a step does to the database                                          *)

\* Whatever operations append is an event of a known kind.
LEMMA EventsAreOK ==
    /\ \A o, w : w \in Items => EventOK(WorkCompleted(o, w))
    /\ \A o \in Origins, c \in Clauses, ok \in BOOLEAN : EventOK(EvidenceRecorded(o, c, ok))
    /\ \A a : EventOK(ActionStarted(a)) /\ EventOK(ActionSettled(a))
    /\ \A n : EventOK(CheckpointCreated(n)) /\ EventOK(MissionCompleted(n))
    /\ \A t : EventOK(ReviewConfirmed(t))
    /\ \A f, t, d : EventOK(HandoffStarted(f, t)) /\ EventOK(HandoffCompleted(f, t, d))
BY DEF EventOK, EventTypes, WorkCompleted, EvidenceRecorded, ActionStarted, ActionSettled,
       CheckpointCreated, MissionCompleted, ReviewConfirmed, HandoffStarted, HandoffCompleted

\* An operation that only reads.
Reads(p) ==
    \/ BeginWithChain(p) \/ BeginWithLog(p)
    \/ ReadChain(p) \/ ReadHead(p) \/ ReadLog(p) \/ ReadRows(p)
    \/ BeginRestore(p) \/ FinishRestore(p)
    \/ ReadSource(p) \/ ListUncertain(p)
    \/ BindLog(p) \/ BindChain(p)
    \/ \E s \in Slips : BeginApprove(p, s)
    \/ Crash(p)

\* Reading changes no table.
LEMMA ReadsChangeNothing ==
    ASSUME NEW p \in Procs, Reads(p)
    PROVE  UNCHANGED <<database, expired>>
<1>1. CASE ReadHead(p)
  BY <1>1 DEF ReadHead, Proceed, Refuse
<1>2. CASE ReadRows(p)
  BY <1>2 DEF ReadRows, Proceed, Refuse
<1>3. CASE BeginWithChain(p) \/ BeginWithLog(p) \/ ReadChain(p) \/ ReadLog(p)
  BY <1>3 DEF BeginWithChain, BeginWithLog, ReadChain, ReadLog, Refuse
<1>4. CASE BeginRestore(p) \/ FinishRestore(p) \/ ReadSource(p) \/ ListUncertain(p)
  BY <1>4 DEF BeginRestore, FinishRestore, ReadSource, ListUncertain
<1>5. CASE BindLog(p) \/ BindChain(p) \/ (\E s \in Slips : BeginApprove(p, s)) \/ Crash(p)
  BY <1>5 DEF BindLog, BindChain, BeginApprove, Crash, Refuse
<1> QED BY <1>1, <1>2, <1>3, <1>4, <1>5 DEF Reads

\* A step of the system is a write of somebody else, a read, or a transaction of an
\* operation.
LEMMA StepIsOneOf ==
    ASSUME Next
    PROVE  \/ Write /\ UNCHANGED proc
           \/ \E a \in Actions : ClaimAction(a) \/ SettleAction(a)
           \/ \E t \in Tickets : IssueConfirmTicket(t)
           \/ \E s \in Slips : Expire(s)
           \/ \E p \in Procs : Reads(p)
           \/ \E p \in Procs : Close(p) \/ SaveCheckpoint(p) \/ StartHandoff(p)
                               \/ CompleteHandoff(p) \/ StoreSlip(p) \/ Approve(p)
                               \/ Confirm(p) \/ \E t \in Tickets : RedeemTicket(p, t)
<1>1. Write => UNCHANGED proc
  BY DEF Write
<1> QED BY <1>1, Zenon DEF Next, Step, Reads

\* A transaction appends one event and counts it in the head, or appends nothing.
LEMMA StepAppends ==
    ASSUME Next
    PROVE  \/ UNCHANGED <<events, head>>
           \/ \E e : EventOK(e) /\ InsertEvent(e)
<1>1. CASE Write /\ UNCHANGED proc
  <2>1. CASE \E w \in Items : AppendOnly(WorkCompleted("EXTERNAL_AGENT", w))
    BY <2>1, EventsAreOK DEF AppendOnly
  <2>2. CASE \E w \in Items : AppendOnly(WorkCompleted("DETERMINISTIC", w))
    BY <2>2, EventsAreOK DEF AppendOnly
  <2>3. CASE \E o \in Origins, c \in Clauses, ok \in BOOLEAN :
                AppendOnly(EvidenceRecorded(o, c, ok))
    BY <2>3, EventsAreOK DEF AppendOnly
  <2>4. CASE AppendOnly(ReviewConfirmed("operator"))
    BY <2>4, EventsAreOK DEF AppendOnly
  <2> QED BY <1>1, <2>1, <2>2, <2>3, <2>4, Zenon DEF Write
<1>2. CASE \E a \in Actions : ClaimAction(a) \/ SettleAction(a)
  BY <1>2, EventsAreOK DEF ClaimAction, SettleAction
<1>3. CASE \/ \E t \in Tickets : IssueConfirmTicket(t)
           \/ \E s \in Slips : Expire(s)
  BY <1>3 DEF IssueConfirmTicket, Expire, database
<1>4. CASE \E p \in Procs : Reads(p)
  BY <1>4, ReadsChangeNothing DEF database
<1>5. ASSUME NEW p \in Procs, Close(p)
      PROVE  \E e : EventOK(e) /\ InsertEvent(e)
  BY <1>5, EventsAreOK DEF Close, AppendOnly
<1>6. ASSUME NEW p \in Procs, SaveCheckpoint(p)
      PROVE  \/ UNCHANGED <<events, head>>
             \/ \E e : EventOK(e) /\ InsertEvent(e)
  BY <1>6, EventsAreOK DEF SaveCheckpoint, Refuse, database
<1>7. ASSUME NEW p \in Procs, StartHandoff(p) \/ CompleteHandoff(p) \/ Confirm(p)
      PROVE  \E e : EventOK(e) /\ InsertEvent(e)
  BY <1>7, EventsAreOK DEF StartHandoff, CompleteHandoff, Confirm, AppendOnly
<1>8. ASSUME NEW p \in Procs, StoreSlip(p) \/ Approve(p) \/ \E t \in Tickets : RedeemTicket(p, t)
      PROVE  \/ UNCHANGED <<events, head>>
             \/ \E e : EventOK(e) /\ InsertEvent(e)
  BY <1>8, EventsAreOK DEF StoreSlip, Approve, RedeemTicket, Refuse, database
<1> QED BY <1>1, <1>2, <1>3, <1>4, <1>5, <1>6, <1>7, <1>8, StepIsOneOf

\* Chains only grow, by one event at a time, and the head always counts them.
LEMMA ChainGrows ==
    ASSUME ChainOK, Next
    PROVE  /\ ChainOK' /\ Extends(events, events')
           /\ Len(events) \in 1..MaxEvents /\ Len(events') \in Len(events)..Len(events) + 1
<1>1. CASE UNCHANGED <<events, head>>
  <2>1. Extends(events, events)
    BY LogShape DEF ChainOK, Extends
  <2>2. Len(events) \in Len(events)..Len(events) + 1
    BY LogShape DEF ChainOK
  <2> QED BY <1>1, <2>1, <2>2 DEF ChainOK
<1>2. ASSUME NEW e, EventOK(e), InsertEvent(e)
      PROVE  /\ ChainOK' /\ Extends(events, events')
             /\ Len(events') \in Len(events)..Len(events) + 1
  <2> DEFINE n == Len(events)
  <2>1. /\ Extends(events, events') /\ Len(events') = n + 1
        /\ events'[n + 1] = e
    BY <1>2, AppendLog DEF InsertEvent, ChainOK
  <2>2. head' = n + 1 /\ n < MaxEvents /\ n \in 1..MaxEvents /\ MaxEvents \in Nat
    BY <1>2, StoreConstantsOK DEF InsertEvent, ChainOK
  <2>3. \A i \in 1..n : events'[i] = events[i] /\ EventOK(events[i])
    BY <2>1 DEF Extends, ChainOK
  <2> HIDE DEF n
  <2>4. \A i \in 1..n + 1 : EventOK(events'[i])
    <3>1. \A i \in 1..n + 1 : i \in 1..n \/ i = n + 1
      BY <2>2
    <3> QED BY <1>2, <2>1, <2>3, <3>1
  <2>5. ChainOK'
    BY <2>1, <2>2, <2>4 DEF ChainOK, Extends, n, EventOK
  <2> QED BY <2>1, <2>2, <2>5 DEF n
<1> QED BY <1>1, <1>2, StepAppends DEF ChainOK

\* What is projected from a chain is made of work items.
LEMMA ProjectsItems ==
    ASSUME ChainOK, NEW n \in 0..Len(events)
    PROVE  Completed(Prefix(n)) \in SUBSET Items
<1>1. /\ Len(Prefix(n)) = n
      /\ \A i \in 1..n : Prefix(n)[i] = events[i] /\ i \in 1..Len(events)
  BY PrefixLog, LogShape DEF Prefix, ChainOK
<1>2. \A i \in 1..n : Prefix(n)[i].type = "WORK_COMPLETED" => Prefix(n)[i].item \in Items
  BY <1>1 DEF ChainOK, EventOK
<1> QED BY <1>1, <1>2 DEF Completed

\* The rows a step leaves are of their types.
LEMMA StepTables ==
    ASSUME TypeInv, Next
    PROVE  TablesOK'
<1> USE DEF TypeInv
<1>0. /\ Len(events) \in 1..MaxEvents /\ Len(events') \in Len(events)..Len(events) + 1
      /\ \A c \in checkpoints : c.sequence \in 1..MaxEvents /\ c.sequence < Len(events')
  BY ChainGrows DEF TablesOK
<1>1. CASE UNCHANGED <<rows, checkpoints, tickets, slips, expired>>
  BY <1>0, <1>1 DEF TablesOK
<1>2. CASE Write /\ UNCHANGED proc
  BY <1>1, <1>2 DEF Write, AppendOnly
<1>3. ASSUME NEW a \in Actions, ClaimAction(a) \/ SettleAction(a)
      PROVE  TablesOK'
  BY <1>0, <1>3 DEF TablesOK, ClaimAction, SettleAction
<1>4. ASSUME NEW t \in Tickets, IssueConfirmTicket(t)
      PROVE  TablesOK'
  BY <1>0, <1>4 DEF TablesOK, IssueConfirmTicket
<1>5. ASSUME NEW s \in Slips, Expire(s)
      PROVE  TablesOK'
  BY <1>0, <1>5 DEF TablesOK, Expire, database
<1>6. CASE \E p \in Procs : Reads(p)
  BY <1>1, <1>6, ReadsChangeNothing DEF database
<1>7. CASE \E p \in Procs : Close(p) \/ StartHandoff(p) \/ CompleteHandoff(p) \/ Confirm(p)
  BY <1>1, <1>7 DEF Close, StartHandoff, CompleteHandoff, Confirm, AppendOnly
<1>8. ASSUME NEW p \in Procs, SaveCheckpoint(p)
      PROVE  TablesOK'
  <2> DEFINE n == proc[p].log
             row == CheckpointRow(n)
  <2>1. CASE Refuse(p)
    BY <1>1, <2>1 DEF Refuse, database
  <2>2. CASE /\ At(p, "save")
             /\ checkpoints' = checkpoints \cup {row}
             /\ InsertEvent(CheckpointCreated(row.sequence))
             /\ UNCHANGED <<rows, tickets, slips, expired>>
    <3>1. n \in 1..Len(events)
      BY <2>2 DEF At, ProcsOK, ProcOK, Within, Processes
    <3>2. row.sequence = n /\ row \in [sequence : 1..MaxEvents, completed : SUBSET Items]
      <4>1. Completed(Prefix(n)) \in SUBSET Items /\ n \in 1..MaxEvents
        <5>1. n \in 0..Len(events) /\ n \in 1..MaxEvents
          BY <1>0, <3>1, StoreConstantsOK
        <5> QED BY <5>1, ProjectsItems
      <4> HIDE DEF n
      <4> QED BY <4>1 DEF CheckpointRow
    <3>3. Len(events') = Len(events) + 1
      BY <2>2, AppendLog DEF InsertEvent, ChainOK
    <3> HIDE DEF n, row
    <3>4. row.sequence < Len(events')
      BY <1>0, <3>1, <3>2, <3>3
    <3> QED BY <1>0, <2>2, <3>2, <3>4 DEF TablesOK
  <2> QED BY <1>8, <2>1, <2>2 DEF SaveCheckpoint
<1>9. ASSUME NEW p \in Procs, StoreSlip(p)
      PROVE  TablesOK'
  <2>1. proc[p].log \in 0..MaxEvents /\ proc[p].chain \in 0..MaxEvents
    BY DEF ProcsOK, ProcOK, Processes
  <2>2. [state |-> "open", log |-> proc[p].log, chain |-> proc[p].chain]
           \in [state : {"none", "open", "used"}, log : 0..MaxEvents, chain : 0..MaxEvents]
    BY <2>1
  <2>3. slips' \in [Slips -> [state : {"none", "open", "used"},
                              log : 0..MaxEvents, chain : 0..MaxEvents]]
    BY <1>9, <2>2 DEF TablesOK, StoreSlip
  <2> QED BY <1>0, <1>9, <2>3 DEF TablesOK, StoreSlip
<1>10. ASSUME NEW p \in Procs, Approve(p)
       PROVE  TablesOK'
  <2>1. CASE Refuse(p)
    BY <1>1, <2>1 DEF Refuse, database
  <2>2. CASE /\ slips' = [slips EXCEPT ![proc[p].ticket].state = "used"]
             /\ UNCHANGED <<rows, checkpoints, tickets, expired>>
    BY <1>0, <2>2 DEF TablesOK
  <2> QED BY <1>10, <2>1, <2>2 DEF Approve
<1>11. ASSUME NEW p \in Procs, NEW t \in Tickets, RedeemTicket(p, t)
       PROVE  TablesOK'
  BY <1>0, <1>11 DEF TablesOK, RedeemTicket
<1> QED BY <1>2, <1>3, <1>4, <1>5, <1>6, <1>7, <1>8, <1>9, <1>10, <1>11, StepIsOneOf

-----------------------------------------------------------------------------
(* What a step does to the processes                                         *)

\* An operation's statement moves its own process only.
LEMMA MovesOne ==
    ASSUME ProcsOK, NEW p \in Procs, NEW r, Become(p, r)
    PROVE  /\ DOMAIN proc' = Procs /\ proc' = [q \in Procs |-> proc'[q]]
           /\ proc'[p] = r
           /\ \A q \in Procs : q # p => proc'[q] = proc[q]
BY DEF ProcsOK, Become

\* A process is in order after its own statement when it gets a value that is.
LEMMA MovedOK ==
    ASSUME ProcsOK, NEW p \in Procs, NEW r, Become(p, r),
           Len(events) \in Nat, Len(events') \in Nat, Len(events) <= Len(events'),
           ProcOK(r, Len(events'))
    PROVE  ProcsOK'
<1>1. \A q \in Procs : q # p => ProcOK(proc'[q], Len(events'))
  <2> SUFFICES ASSUME NEW q \in Procs, q # p PROVE ProcOK(proc'[q], Len(events'))
    OBVIOUS
  <2>1. ProcOK(proc[q], Len(events)) /\ proc'[q] = proc[q]
    BY MovesOne DEF ProcsOK
  <2>2. \A x \in Processes : x.base \in Nat /\ x.chain \in Nat /\ x.log \in Nat /\ x.start \in Nat
    BY StoreConstantsOK DEF Processes
  <2> QED BY <2>1, <2>2 DEF ProcOK, Within
<1>2. DOMAIN proc' = Procs /\ proc' = [q \in Procs |-> proc'[q]] /\ proc'[p] = r
  BY MovesOne
<1> QED BY <1>1, <1>2 DEF ProcsOK

\* A process stays well formed when one field gets a value of its type.
LEMMA EditOK ==
    ASSUME NEW r \in Processes
    PROVE  /\ \A x \in Labels : [r EXCEPT !.pc = x] \in Processes
           /\ \A x \in 0..MaxEvents : /\ [r EXCEPT !.chain = x] \in Processes
                                     /\ [r EXCEPT !.log = x] \in Processes
                                     /\ [r EXCEPT !.start = x] \in Processes
           /\ \A x \in Decisions : /\ [r EXCEPT !.decision = x] \in Processes
                                  /\ [r EXCEPT !.advice = x] \in Processes
           /\ \A x \in SUBSET Actions : [r EXCEPT !.listed = x] \in Processes
BY Zenon DEF Processes

\* And when the fields a statement assigns do.
LEMMA EditsOK ==
    ASSUME NEW r \in Processes, NEW l \in Labels, NEW n \in 0..MaxEvents
    PROVE  /\ [r EXCEPT !.pc = l] \in Processes
           /\ [r EXCEPT !.pc = l, !.chain = n] \in Processes
           /\ [r EXCEPT !.chain = n, !.pc = l] \in Processes
           /\ [r EXCEPT !.pc = l, !.log = n] \in Processes
           /\ [r EXCEPT !.log = n, !.pc = l] \in Processes
           /\ [r EXCEPT !.pc = l, !.start = n] \in Processes
           /\ \A a \in SUBSET Actions : [r EXCEPT !.pc = l, !.listed = a] \in Processes
           /\ \A d \in Decisions :
                /\ [r EXCEPT !.pc = l, !.log = n, !.decision = d] \in Processes
                /\ [r EXCEPT !.pc = l, !.log = n, !.advice = d] \in Processes
                /\ \A a \in SUBSET Actions :
                     [r EXCEPT !.pc = l, !.start = n, !.advice = d, !.listed = a] \in Processes
<1> DEFINE r1 == [r EXCEPT !.pc = l]
           r2 == [r1 EXCEPT !.log = n]
           r3 == [r1 EXCEPT !.start = n]
           r5 == [r EXCEPT !.chain = n]
           r6 == [r EXCEPT !.log = n]
<1>1. r1 \in Processes /\ r5 \in Processes /\ r6 \in Processes
  BY EditOK
<1>2. /\ r2 \in Processes /\ r3 \in Processes
      /\ [r1 EXCEPT !.chain = n] \in Processes
      /\ \A a \in SUBSET Actions : [r1 EXCEPT !.listed = a] \in Processes
  <2> HIDE DEF r1
  <2> QED BY <1>1, EditOK
<1>3. [r5 EXCEPT !.pc = l] \in Processes /\ [r6 EXCEPT !.pc = l] \in Processes
  <2> HIDE DEF r5, r6
  <2> QED BY <1>1, EditOK
<1>4. ASSUME NEW d \in Decisions
      PROVE  /\ [r2 EXCEPT !.decision = d] \in Processes
             /\ [r2 EXCEPT !.advice = d] \in Processes
             /\ \A a \in SUBSET Actions :
                  [[r3 EXCEPT !.advice = d] EXCEPT !.listed = a] \in Processes
  <2> DEFINE r4 == [r3 EXCEPT !.advice = d]
  <2> HIDE DEF r2, r3
  <2>1. /\ [r2 EXCEPT !.decision = d] \in Processes /\ [r2 EXCEPT !.advice = d] \in Processes
        /\ r4 \in Processes
    BY <1>2, EditOK
  <2>2. \A a \in SUBSET Actions : [r4 EXCEPT !.listed = a] \in Processes
    <3> HIDE DEF r4
    <3> QED BY <2>1, EditOK
  <2> QED BY <2>1, <2>2
<1> QED BY <1>1, <1>2, <1>3, <1>4

\* What recover, a briefing, a handoff and a request do with a decision.
LEMMA ProceedsOK ==
    ASSUME TypeInv, NEW p \in Procs, NEW d \in Verdicts \cup {Abort}, Proceed(p, d)
    PROVE  ProcsOK'
<1> DEFINE n == Len(events)
<1>1. n \in 1..MaxEvents /\ n \in Nat /\ MaxEvents \in Nat /\ 0 \in 0..MaxEvents
  BY StoreConstantsOK DEF TypeInv, ChainOK
<1>2. ProcOK(proc[p], n) /\ ProcsOK /\ d \in Decisions
  BY VerdictsAreDecisions DEF TypeInv, ProcsOK
<1>3. UNCHANGED database
  BY DEF Proceed, Refuse
<1> HIDE DEF n
<1>4. Len(events') = n
  BY <1>3 DEF database, n
<1>5. ASSUME NEW r, Become(p, r), ProcOK(r, n) PROVE ProcsOK'
  BY <1>1, <1>2, <1>4, <1>5, MovedOK DEF n
<1>6. CASE Refuse(p)
  BY <1>1, <1>5, <1>6, IdleOK DEF Refuse, Return
<1>7. ProcOK([Idle EXCEPT !.base = proc[p].base, !.decision = d], n)
  BY <1>1, <1>2, IdleOK DEF ProcOK, Within, Processes, Idle
<1>8. /\ [proc[p] EXCEPT !.pc = "source", !.log = 0, !.decision = d] \in Processes
      /\ [proc[p] EXCEPT !.pc = "list", !.log = 0, !.advice = d] \in Processes
      /\ [proc[p] EXCEPT !.pc = "bind log"] \in Processes
  BY <1>1, <1>2, EditsOK DEF ProcOK, Labels
<1>9. /\ Within([proc[p] EXCEPT !.pc = "source", !.log = 0, !.decision = d], n)
      /\ Within([proc[p] EXCEPT !.pc = "list", !.log = 0, !.advice = d], n)
      /\ Within([proc[p] EXCEPT !.pc = "bind log"], n)
  BY <1>1, <1>2 DEF ProcOK, Within, Processes
<1> QED BY <1>5, <1>6, <1>7, <1>8, <1>9 DEF Proceed, Goto, ProcOK

\* An operation begins in order, whatever it reads first.
LEMMA StartedOK ==
    ASSUME TypeInv, NEW p \in Procs, NEW o \in Ops, NEW l \in Labels \ {"save"}
    PROVE  LET r == Started(p, o, l) IN
           /\ r \in Processes /\ Within(r, Len(events))
           /\ \A n \in 1..Len(events) :
                /\ ProcOK([r EXCEPT !.chain = n], Len(events))
                /\ ProcOK([r EXCEPT !.log = n], Len(events))
                /\ ProcOK([r EXCEPT !.start = n], Len(events))
           /\ \A t \in Tickets \cup Slips : ProcOK([r EXCEPT !.ticket = t], Len(events))
<1> DEFINE r == Started(p, o, l)
           n == Len(events)
<1>1. n \in 1..MaxEvents /\ MaxEvents \in Nat /\ 1..n \subseteq 0..MaxEvents /\ n \in 0..MaxEvents
  BY StoreConstantsOK DEF TypeInv, ChainOK
<1> HIDE DEF n
<1>2. Idle \in Processes
  BY <1>1, IdleOK DEF ProcOK
<1>3. r = [Idle EXCEPT !.pc = l, !.op = o, !.base = n]
  BY DEF Started, n
<1> HIDE DEF r
<1>4. /\ r.pc = l /\ r.op = o /\ r.base = n /\ r.chain = 0 /\ r.log = 0 /\ r.start = 0
      /\ r.ticket = None /\ r.decision = Undecided /\ r.advice = Undecided
      /\ r.listed = {} /\ r.restored = NotRestored
  BY <1>3 DEF Idle
<1>5. r \in Processes
  BY <1>1, <1>2, <1>3 DEF Processes, Idle
<1>6. Within(r, n)
  BY <1>1, <1>4 DEF Within
<1>7. ASSUME NEW m \in 1..n
      PROVE  /\ ProcOK([r EXCEPT !.chain = m], n)
             /\ ProcOK([r EXCEPT !.log = m], n)
             /\ ProcOK([r EXCEPT !.start = m], n)
  <2>1. m \in 0..MaxEvents
    BY <1>1
  <2>2. /\ [r EXCEPT !.chain = m] \in Processes /\ [r EXCEPT !.log = m] \in Processes
        /\ [r EXCEPT !.start = m] \in Processes
    BY <1>5, <2>1, EditOK
  <2>3. /\ Within([r EXCEPT !.chain = m], n) /\ Within([r EXCEPT !.log = m], n)
        /\ Within([r EXCEPT !.start = m], n)
    BY <1>1, <1>4, <1>5 DEF Within, Processes
  <2> QED BY <2>2, <2>3 DEF ProcOK
<1>8. ASSUME NEW t \in Tickets \cup Slips
      PROVE  ProcOK([r EXCEPT !.ticket = t], n)
  <2>1. [r EXCEPT !.ticket = t] \in Processes
    BY <1>5, Zenon DEF Processes
  <2>2. Within([r EXCEPT !.ticket = t], n)
    BY <1>1, <1>4, <1>5 DEF Within, Processes
  <2> QED BY <2>1, <2>2 DEF ProcOK
<1> QED BY <1>5, <1>6, <1>7, <1>8 DEF r, n

\* Processes are in order after a read.
LEMMA ReadsKeepOrder ==
    ASSUME TypeInv, NEW p \in Procs, Reads(p)
    PROVE  ProcsOK'
<1> DEFINE n == Len(events)
           x == proc[p]
<1>1. n \in 1..MaxEvents /\ n \in Nat /\ MaxEvents \in Nat /\ 0 \in 0..MaxEvents /\ n \in 0..MaxEvents
  BY StoreConstantsOK DEF TypeInv, ChainOK
<1>2. x \in Processes /\ Within(x, n) /\ ProcsOK /\ rows \subseteq Actions
  BY DEF TypeInv, ProcsOK, ProcOK, TablesOK
<1>3. Len(events') = n
  BY ReadsChangeNothing DEF database
<1> HIDE DEF n
<1>4. ASSUME NEW r, Become(p, r), ProcOK(r, n) PROVE ProcsOK'
  BY <1>1, <1>2, <1>3, <1>4, MovedOK DEF n
<1>5. ASSUME Refuse(p) PROVE ProcsOK'
  BY <1>1, <1>4, <1>5, IdleOK DEF Refuse, Return
<1>6. CASE BeginWithChain(p)
  <2>1. PICK o \in Ops : Become(p, [Started(p, o, "head") EXCEPT !.chain = n])
    BY <1>6 DEF BeginWithChain, Begins, n
  <2>2. "head" \in Labels \ {"save"} /\ n \in 1..n
    BY <1>1 DEF Labels
  <2>3. ProcOK([Started(p, o, "head") EXCEPT !.chain = n], n)
    BY <2>2, StartedOK DEF n
  <2> QED BY <1>4, <2>1, <2>3
<1>7. CASE BeginWithLog(p)
  <2>1. CASE /\ "checkpoint" \in Ops
             /\ Become(p, [Started(p, "checkpoint", "save") EXCEPT !.log = n])
    <3> DEFINE r == [Started(p, "checkpoint", "save") EXCEPT !.log = n]
    <3>1. r = [Idle EXCEPT !.pc = "save", !.op = "checkpoint", !.base = n, !.log = n]
      BY DEF Started, n
    <3>2. r \in Processes
      BY <1>1, <2>1, <3>1, IdleOK DEF ProcOK, Processes, Idle, Labels
    <3>3. Within(r, n)
      <4> HIDE DEF r
      <4>1. r.base = n /\ r.log = n /\ r.chain = 0 /\ r.start = 0
        BY <3>1 DEF Idle
      <4> QED BY <1>1, <4>1 DEF Within
    <3> QED BY <1>4, <2>1, <3>2, <3>3 DEF ProcOK
  <2>2. CASE \E o \in Ops : Become(p, [Started(p, o, "chain") EXCEPT !.log = n])
    <3>1. PICK o \in Ops : Become(p, [Started(p, o, "chain") EXCEPT !.log = n])
      BY <2>2
    <3>2. "chain" \in Labels \ {"save"} /\ n \in 1..n
      BY <1>1 DEF Labels
    <3>3. ProcOK([Started(p, o, "chain") EXCEPT !.log = n], n)
      BY <3>2, StartedOK DEF n
    <3> QED BY <1>4, <3>1, <3>3
  <2> QED BY <1>7, <2>1, <2>2 DEF BeginWithLog, Begins, n
<1>8. CASE ReadChain(p) \/ ReadSource(p) \/ BindLog(p)
  <2>1. /\ ProcOK([x EXCEPT !.pc = "head", !.chain = n], n)
        /\ ProcOK([x EXCEPT !.pc = "chain", !.start = n], n)
        /\ ProcOK([x EXCEPT !.pc = "bind chain", !.log = n], n)
    <3>1. /\ [x EXCEPT !.pc = "head", !.chain = n] \in Processes
          /\ [x EXCEPT !.pc = "chain", !.start = n] \in Processes
          /\ [x EXCEPT !.pc = "bind chain", !.log = n] \in Processes
      BY <1>1, <1>2, EditsOK DEF Labels
    <3>2. /\ Within([x EXCEPT !.pc = "head", !.chain = n], n)
          /\ Within([x EXCEPT !.pc = "chain", !.start = n], n)
          /\ Within([x EXCEPT !.pc = "bind chain", !.log = n], n)
      BY <1>1, <1>2 DEF Within, Processes
    <3> QED BY <3>1, <3>2 DEF ProcOK
  <2> QED BY <1>4, <1>8, <2>1 DEF ReadChain, ReadSource, BindLog, n
<1>9. CASE ReadHead(p)
  <2>1. CASE Proceed(p, Abort)
    BY <2>1, ProceedsOK
  <2>2. CASE Become(p, [x EXCEPT !.chain = 0, !.pc = IF Runs(p, "close") THEN "rows" ELSE "log"])
    <3> DEFINE l == IF Runs(p, "close") THEN "rows" ELSE "log"
    <3>1. l \in Labels /\ l # "save"
      BY DEF Labels
    <3> HIDE DEF l
    <3>2. [x EXCEPT !.chain = 0, !.pc = l] \in Processes
      BY <1>1, <1>2, <3>1, EditsOK
    <3>3. Within([x EXCEPT !.chain = 0, !.pc = l], n)
      BY <1>1, <1>2, <3>1 DEF Within, Processes
    <3> QED BY <1>4, <2>2, <3>2, <3>3 DEF ProcOK, l
  <2> QED BY <1>5, <1>9, <2>1, <2>2 DEF ReadHead
<1>10. CASE ReadLog(p)
  <2>1. CASE Become(p, [x EXCEPT !.log = n, !.pc = IF Runs(p, "close") THEN "close" ELSE "rows"])
    <3> DEFINE l == IF Runs(p, "close") THEN "close" ELSE "rows"
    <3>1. l \in Labels /\ l # "save"
      BY DEF Labels
    <3> HIDE DEF l
    <3>2. [x EXCEPT !.log = n, !.pc = l] \in Processes
      BY <1>1, <1>2, <3>1, EditsOK
    <3>3. Within([x EXCEPT !.log = n, !.pc = l], n)
      BY <1>1, <1>2, <3>1 DEF Within, Processes
    <3> QED BY <1>4, <2>1, <3>2, <3>3 DEF ProcOK, l
  <2> QED BY <1>5, <1>10, <2>1 DEF ReadLog, n
<1>11. CASE ReadRows(p)
  <2>1. CASE Goto(p, "log")
    <3>1. [x EXCEPT !.pc = "log"] \in Processes
      BY <1>2, EditOK DEF Labels
    <3>2. Within([x EXCEPT !.pc = "log"], n)
      BY <1>2 DEF Within, Processes
    <3> QED BY <1>4, <2>1, <3>1, <3>2 DEF ProcOK, Goto
  <2>2. CASE Proceed(p, Recovered(Prefix(x.log), Uncertain, FALSE, FALSE))
    <3>1. x.log \in 0..n
      BY <1>1, <1>2 DEF Within, Processes
    <3>2. IsLog(Prefix(x.log))
      BY <3>1, PrefixLog DEF n, Prefix, TypeInv, ChainOK
    <3>3. Recovered(Prefix(x.log), Uncertain, FALSE, FALSE) \in Verdicts
      BY <3>2, RecoveredIsCautious
    <3> QED BY <2>2, <3>3, ProceedsOK
  <2> QED BY <1>5, <1>11, <2>1, <2>2 DEF ReadRows
<1>12. CASE BeginRestore(p)
  <2>1. PICK c \in checkpoints :
            Become(p, [Started(p, "restore", "replay") EXCEPT !.start = c.sequence])
    BY <1>12 DEF BeginRestore
  <2>2. "replay" \in Labels \ {"save"} /\ "restore" \in Ops
    BY <1>12 DEF Labels, BeginRestore, Begins
  <2>3. c.sequence \in 1..n
    BY <1>1 DEF TypeInv, TablesOK, n
  <2>4. ProcOK([Started(p, "restore", "replay") EXCEPT !.start = c.sequence], n)
    BY <2>2, <2>3, StartedOK DEF n
  <2> QED BY <1>4, <2>1, <2>4
<1>13. CASE FinishRestore(p)
  <2> DEFINE y == Restored(x.start, AsOf(x.start), n - x.start)
  <2>1. x.start \in 0..n
    BY <1>1, <1>2 DEF Within, Processes
  <2>2. AsOf(x.start) \in SUBSET Items
    BY <2>1, ProjectsItems DEF n, AsOf, TypeInv
  <2>3. y \in [sequence : 0..MaxEvents, completed : SUBSET Items, replayed : 0..MaxEvents]
    <3>1. x.start \in 0..MaxEvents /\ n - x.start \in 0..MaxEvents
      BY <1>1, <2>1
    <3> HIDE DEF x
    <3> QED BY <2>2, <3>1 DEF Restored
  <2> HIDE DEF y
  <2>4. ProcOK([Idle EXCEPT !.restored = y], n)
    BY <1>1, <2>3, IdleOK DEF ProcOK, Within, Processes, Idle
  <2> QED BY <1>4, <1>13, <2>4 DEF FinishRestore, n, y
<1>14. CASE ListUncertain(p)
  <2>1. CASE Become(p, [Idle EXCEPT !.advice = x.advice, !.listed = UncertainDetails(p)])
    <3>1. x.advice \in Decisions
      BY <1>2 DEF Processes
    <3>2. ProcOK([Idle EXCEPT !.advice = x.advice, !.listed = UncertainDetails(p)], n)
      BY <1>1, <1>2, <3>1, IdleOK DEF ProcOK, Within, Processes, Idle, UncertainDetails
    <3> QED BY <1>4, <2>1, <3>2
  <2>2. CASE Become(p, [x EXCEPT !.pc = "start", !.listed = UncertainDetails(p)])
    <3>1. [x EXCEPT !.pc = "start", !.listed = UncertainDetails(p)] \in Processes
      BY <1>1, <1>2, EditsOK DEF Labels, UncertainDetails
    <3>2. Within([x EXCEPT !.pc = "start", !.listed = UncertainDetails(p)], n)
      BY <1>2 DEF Within, Processes
    <3> QED BY <1>4, <2>2, <3>1, <3>2 DEF ProcOK
  <2> QED BY <1>14, <2>1, <2>2 DEF ListUncertain
<1>15. CASE BindChain(p)
  <2>1. /\ ProcOK([x EXCEPT !.pc = "store slip", !.chain = n], n)
        /\ ProcOK([x EXCEPT !.pc = "redeem"], n)
    <3>1. /\ [x EXCEPT !.pc = "store slip", !.chain = n] \in Processes
          /\ [x EXCEPT !.pc = "redeem"] \in Processes
      BY <1>1, <1>2, EditsOK, EditOK DEF Labels
    <3>2. /\ Within([x EXCEPT !.pc = "store slip", !.chain = n], n)
          /\ Within([x EXCEPT !.pc = "redeem"], n)
      BY <1>1, <1>2 DEF Within, Processes
    <3> QED BY <3>1, <3>2 DEF ProcOK
  <2> QED BY <1>4, <1>5, <1>15, <2>1 DEF BindChain, Goto, n
<1>16. CASE \E s \in Slips : BeginApprove(p, s)
  <2>1. PICK s \in Slips : Become(p, [Started(p, "approve", "bind log") EXCEPT !.ticket = s])
    BY <1>16 DEF BeginApprove
  <2>2. "bind log" \in Labels \ {"save"} /\ "approve" \in Ops
    BY <1>16 DEF Labels, BeginApprove, Begins
  <2>3. ProcOK([Started(p, "approve", "bind log") EXCEPT !.ticket = s], n)
    BY <2>2, StartedOK DEF n
  <2> QED BY <1>4, <2>1, <2>3
<1>17. CASE Crash(p)
  BY <1>5, <1>17 DEF Crash
<1> HIDE DEF x
<1> QED BY <1>6, <1>7, <1>8, <1>9, <1>10, <1>11, <1>12, <1>13, <1>14, <1>15, <1>16, <1>17,
           Zenon DEF Reads

\* Processes are in order after every step.
LEMMA StepProcs ==
    ASSUME TypeInv, Next
    PROVE  ProcsOK'
<1> DEFINE n == Len(events)
<1>1. /\ n \in 1..MaxEvents /\ MaxEvents \in Nat /\ Len(events') \in 1..MaxEvents
      /\ Len(events') \in n..n + 1 /\ n \in Nat /\ Len(events') \in Nat
  <2>1. n \in 1..MaxEvents /\ Len(events') \in 1..MaxEvents /\ Len(events') \in n..n + 1
    BY ChainGrows DEF TypeInv, ChainOK
  <2> HIDE DEF n
  <2> QED BY <2>1, StoreConstantsOK
<1>2. ProcsOK
  BY DEF TypeInv
<1> HIDE DEF n
<1>3. CASE UNCHANGED proc
  <2> SUFFICES ASSUME NEW q \in Procs PROVE ProcOK(proc[q], Len(events'))
    BY <1>2, <1>3 DEF ProcsOK
  <2>1. ProcOK(proc[q], n)
    BY <1>2 DEF ProcsOK, n
  <2>2. proc[q] \in Processes
    BY <2>1 DEF ProcOK
  <2>3. /\ proc[q].base \in Nat /\ proc[q].chain \in Nat
        /\ proc[q].log \in Nat /\ proc[q].start \in Nat
    BY <1>1, <2>2 DEF Processes
  <2> QED BY <1>1, <2>1, <2>3 DEF ProcOK, Within
<1>4. ASSUME NEW p \in Procs, NEW r, Become(p, r), ProcOK(r, Len(events'))
      PROVE  ProcsOK'
  BY <1>1, <1>2, <1>4, MovedOK DEF n
<1>5. ASSUME NEW p \in Procs, Return(p)
      PROVE  ProcsOK'
  BY <1>1, <1>4, <1>5, IdleOK DEF Return
<1>6. CASE Write /\ UNCHANGED proc
  BY <1>3, <1>6
<1>7. CASE \/ \E a \in Actions : ClaimAction(a) \/ SettleAction(a)
           \/ \E t \in Tickets : IssueConfirmTicket(t)
           \/ \E s \in Slips : Expire(s)
  BY <1>3, <1>7 DEF ClaimAction, SettleAction, IssueConfirmTicket, Expire
<1>8. CASE \E p \in Procs : Reads(p)
  BY <1>8, ReadsKeepOrder
<1>9. ASSUME NEW p \in Procs,
             Close(p) \/ SaveCheckpoint(p) \/ CompleteHandoff(p) \/ StoreSlip(p)
               \/ Approve(p) \/ Confirm(p)
      PROVE  ProcsOK'
  <2>1. Return(p)
    BY <1>9 DEF Close, SaveCheckpoint, CompleteHandoff, StoreSlip, Approve, Confirm, Refuse
  <2> QED BY <1>5, <2>1
<1>10. ASSUME NEW p \in Procs, StartHandoff(p)
       PROVE  ProcsOK'
  <2> DEFINE x == proc[p]
             r == [x EXCEPT !.pc = "handed", !.start = n + 1,
                            !.advice = Undecided, !.listed = {}]
  <2>1. Become(p, r)
    BY <1>10 DEF StartHandoff, n
  <2>2. x \in Processes /\ Within(x, n)
    BY <1>2 DEF ProcsOK, ProcOK, n
  <2>3. Len(events') = n + 1 /\ n + 1 \in 0..MaxEvents
    <3>1. \E e : events' = Append(events, e)
      BY <1>10 DEF StartHandoff, AppendOnly, InsertEvent
    <3>2. Len(events') = n + 1
      BY <3>1, AppendLog DEF n, TypeInv, ChainOK
    <3> QED BY <1>1, <3>2
  <2>4. r \in Processes
    <3>1. "handed" \in Labels /\ Undecided \in Decisions /\ {} \in SUBSET Actions
      BY VerdictsAreDecisions DEF Labels
    <3> HIDE DEF x
    <3> QED BY <2>2, <2>3, <3>1, EditsOK
  <2>5. Within(r, n + 1)
    <3>1. /\ x.base \in Nat /\ x.chain \in Nat /\ x.log \in Nat
          /\ x.base <= n /\ x.chain <= n /\ x.log <= n
      BY <1>1, <2>2 DEF Processes, Within
    <3>2. r.base = x.base /\ r.chain = x.chain /\ r.log = x.log /\ r.start = n + 1
          /\ r.pc = "handed"
      BY <2>2 DEF Processes
    <3> HIDE DEF r, x
    <3> QED BY <1>1, <3>1, <3>2 DEF Within
  <2> QED BY <1>4, <2>1, <2>3, <2>4, <2>5 DEF ProcOK
<1>11. ASSUME NEW p \in Procs, NEW t \in Tickets, RedeemTicket(p, t)
       PROVE  ProcsOK'
  <2>1. /\ Become(p, [Started(p, "confirm", "append") EXCEPT !.ticket = t])
        /\ "confirm" \in Ops /\ UNCHANGED events
    BY <1>11 DEF RedeemTicket, Begins
  <2>2. "append" \in Labels \ {"save"}
    BY DEF Labels
  <2>3. ProcOK([Started(p, "confirm", "append") EXCEPT !.ticket = t], Len(events))
    BY <2>1, <2>2, StartedOK
  <2> QED BY <1>4, <2>1, <2>3
<1> QED BY <1>6, <1>7, <1>8, <1>9, <1>10, <1>11, StepIsOneOf

\* The chain, the tables and what processes have in hand are well formed in every
\* state: what an operation read is a prefix of the chain as it is now, and every
\* checkpoint is older than its own event.
THEOREM StoreTypeCorrect == Spec => [](TypeOK /\ TypeInv)
<1>1. Init => TypeInv
  BY InitTypes
<1>2. TypeInv /\ [Next]_vars => TypeInv'
  <2> SUFFICES ASSUME TypeInv, [Next]_vars PROVE TypeInv'
    OBVIOUS
  <2>1. CASE Next
    BY <2>1, ChainGrows, StepTables, StepProcs DEF TypeInv
  <2>2. CASE UNCHANGED vars
    BY <2>2 DEF vars, database, TypeInv, ChainOK, TablesOK, ProcsOK
  <2> QED BY <2>1, <2>2
<1> QED BY <1>1, <1>2, TypeInvTypes, PTL DEF Spec

-----------------------------------------------------------------------------
(* Operations, statement by statement                                        *)

\* Some step of the system that is an operation's, and of which one.
LEMMA StepMoves ==
    ASSUME TypeInv, Next
    PROVE  \/ UNCHANGED proc
           \/ \E p \in Procs : /\ Step(p)
                               /\ \A q \in Procs : q # p => proc'[q] = proc[q]
<1>1. ASSUME NEW p \in Procs, Step(p)
      PROVE  \E r : Become(p, r)
  <2>1. CASE ReadHead(p) \/ ReadRows(p)
    BY <2>1 DEF ReadHead, ReadRows, Proceed, Refuse, Return, Goto
  <2>2. CASE BeginWithChain(p) \/ BeginWithLog(p) \/ ReadChain(p) \/ ReadLog(p)
    BY <2>2 DEF BeginWithChain, BeginWithLog, ReadChain, ReadLog, Refuse, Return
  <2>3. CASE BeginRestore(p) \/ FinishRestore(p) \/ ReadSource(p) \/ ListUncertain(p)
    BY <2>3 DEF BeginRestore, FinishRestore, ReadSource, ListUncertain
  <2>4. CASE BindLog(p) \/ BindChain(p) \/ (\E s \in Slips : BeginApprove(p, s)) \/ Crash(p)
    BY <2>4 DEF BindLog, BindChain, BeginApprove, Crash, Refuse, Return, Goto
  <2>5. CASE Close(p) \/ SaveCheckpoint(p) \/ CompleteHandoff(p) \/ StoreSlip(p)
               \/ Approve(p) \/ Confirm(p)
    BY <2>5 DEF Close, SaveCheckpoint, CompleteHandoff, StoreSlip, Approve, Confirm,
                Refuse, Return
  <2>6. CASE StartHandoff(p) \/ \E t \in Tickets : RedeemTicket(p, t)
    BY <2>6 DEF StartHandoff, RedeemTicket
  <2> QED BY <1>1, <2>1, <2>2, <2>3, <2>4, <2>5, <2>6, Zenon DEF Step
<1>2. ASSUME NEW p \in Procs, Step(p)
      PROVE  \A q \in Procs : q # p => proc'[q] = proc[q]
  BY <1>1, <1>2, MovesOne DEF TypeInv
<1>3. Write \/ (\E a \in Actions : ClaimAction(a) \/ SettleAction(a))
        \/ (\E t \in Tickets : IssueConfirmTicket(t)) \/ (\E s \in Slips : Expire(s))
        => UNCHANGED proc
  BY DEF Write, ClaimAction, SettleAction, IssueConfirmTicket, Expire
<1> QED BY <1>2, <1>3, Zenon DEF Next

\* A process y that began operation o when the chain had n events.
Opens(y, o, l, n) ==
    /\ y.pc = l /\ y.op = o /\ y.base = n
    /\ y.decision = Undecided /\ y.advice = Undecided
    /\ y.listed = {} /\ y.restored = NotRestored

\* A process that ended its operation with nothing but an answer, if any.
Ends(y) == y.pc = "idle" /\ y.op = "none" /\ y.restored = NotRestored

\* The process x goes on to l, and what it decided stays.
Goes(x, y, l) ==
    /\ y.pc = l /\ y.op = x.op /\ y.base = x.base /\ y.ticket = x.ticket
    /\ y.restored = x.restored

Keeps(x, y) == y.decision = x.decision /\ y.advice = x.advice

\* What x does with decision d.
Decides(x, y, d) ==
    \/ y = Idle
    \/ x.op = "recover" /\ Ends(y) /\ y.base = x.base /\ y.decision = d /\ y.advice = Undecided
    \/ /\ x.op = "handoff" /\ x.decision = Undecided /\ d.mode \notin {"reconcile", "abort"}
       /\ Goes(x, y, "source") /\ y.decision = d /\ y.advice = x.advice
    \/ /\ x.op \in {"briefing", "handoff"}
       /\ x.op = "handoff" => x.decision # Undecided
       /\ Goes(x, y, "list") /\ y.decision = x.decision /\ y.advice = d
    \/ x.op = "request" /\ Goes(x, y, "bind log") /\ Keeps(x, y)

\* The cases of Proceed, field by field.
LEMMA ProceedDecides ==
    ASSUME TypeInv, NEW p \in Procs, NEW d, Proceed(p, d)
    PROVE  Decides(proc[p], proc'[p], d)
<1> DEFINE x == proc[p]
<1>1. x \in Processes /\ ProcsOK
  BY DEF TypeInv, ProcsOK, ProcOK
<1>2. ASSUME NEW r, Become(p, r) PROVE proc'[p] = r
  BY <1>1, <1>2, MovesOne
<1>3. CASE Refuse(p)
  BY <1>2, <1>3 DEF Refuse, Return, Decides
<1>4. CASE Runs(p, "recover") /\ Become(p, [Idle EXCEPT !.base = x.base, !.decision = d])
  <2> DEFINE y == [Idle EXCEPT !.base = x.base, !.decision = d]
  <2>1. Ends(y) /\ y.base = x.base /\ y.decision = d /\ y.advice = Undecided
    BY DEF Ends, Idle
  <2> QED BY <1>2, <1>4, <2>1 DEF Decides, Runs
<1>5. CASE /\ Runs(p, "handoff") /\ x.decision = Undecided
           /\ d.mode \notin {"reconcile", "abort"}
           /\ Become(p, [x EXCEPT !.pc = "source", !.log = 0, !.decision = d])
  <2> DEFINE y == [x EXCEPT !.pc = "source", !.log = 0, !.decision = d]
  <2>1. Goes(x, y, "source") /\ y.decision = d /\ y.advice = x.advice
    BY <1>1 DEF Processes, Goes
  <2>2. proc'[p] = y
    BY <1>2, <1>5
  <2> QED BY <1>5, <2>1, <2>2 DEF Decides, Runs
<1>6. CASE /\ Runs(p, "handoff") => x.decision # Undecided
           /\ x.op \in {"briefing", "handoff"}
           /\ Become(p, [x EXCEPT !.pc = "list", !.log = 0, !.advice = d])
  <2> DEFINE y == [x EXCEPT !.pc = "list", !.log = 0, !.advice = d]
  <2>1. Goes(x, y, "list") /\ y.decision = x.decision /\ y.advice = d
    BY <1>1 DEF Processes, Goes
  <2>2. proc'[p] = y
    BY <1>2, <1>6
  <2> QED BY <1>6, <2>1, <2>2 DEF Decides, Runs
<1>7. CASE Runs(p, "request") /\ Become(p, [x EXCEPT !.pc = "bind log"])
  <2> DEFINE y == [x EXCEPT !.pc = "bind log"]
  <2>1. Goes(x, y, "bind log") /\ Keeps(x, y)
    BY <1>1 DEF Processes, Goes, Keeps
  <2>2. proc'[p] = y
    BY <1>2, <1>7
  <2> QED BY <1>7, <2>1, <2>2 DEF Decides, Runs
<1> QED BY <1>3, <1>4, <1>5, <1>6, <1>7, Zenon DEF Proceed, Goto

\* What recover decides of what a process has read.
LEMMA ReadDecides ==
    ASSUME TypeInv, NEW p \in Procs
    PROVE  LET d == Recovered(Prefix(proc[p].log), Uncertain, FALSE, FALSE) IN
           /\ d \in Verdicts
           /\ rows # {} => d = Decision("reconcile", "reconcile")
           /\ ~ Vouched(Prefix(proc[p].log)) => d.mode \notin SafeModes
<1>1. Len(events) \in Nat /\ ProcOK(proc[p], Len(events))
  BY DEF TypeInv, ChainOK, ProcsOK
<1>2. proc[p].log \in 0..Len(events)
  BY <1>1, StoreConstantsOK DEF ProcOK, Within, Processes
<1>3. IsLog(Prefix(proc[p].log))
  BY <1>2, PrefixLog DEF Prefix, TypeInv, ChainOK
<1> QED BY <1>3, RecoveredIsCautious DEF Uncertain

\* The first statements of the operations, field by field.
LEMMA FirstMoves ==
    ASSUME TypeInv, NEW p \in Procs
    PROVE  LET y == proc'[p]
               n == Len(events)
           IN
           /\ BeginWithChain(p) => \E o \in {"recover", "close", "handoff"} :
                                      Opens(y, o, "head", n) /\ y.chain = n
           /\ BeginWithLog(p) =>
                \/ Opens(y, "checkpoint", "save", n) /\ y.log = n
                \/ \E o \in {"request", "briefing"} : Opens(y, o, "chain", n) /\ y.log = n
           /\ BeginRestore(p) => \E c \in checkpoints :
                                    Opens(y, "restore", "replay", n) /\ y.start = c.sequence
           /\ \A s \in Slips : BeginApprove(p, s) => /\ Opens(y, "approve", "bind log", n)
                                                     /\ y.ticket = s /\ slips[s].state = "open"
           /\ \A t \in Tickets : RedeemTicket(p, t) => Opens(y, "confirm", "append", n)
                                                       /\ y.ticket = t
<1> DEFINE n == Len(events)
<1>1. ASSUME NEW r, Become(p, r) PROVE proc'[p] = r
  BY <1>1, MovesOne DEF TypeInv
<1>3. ASSUME BeginWithChain(p)
      PROVE  \E o \in {"recover", "close", "handoff"} :
                Opens(proc'[p], o, "head", n) /\ proc'[p].chain = n
  <2>1. PICK o \in {"recover", "close", "handoff"} :
            Become(p, [Started(p, o, "head") EXCEPT !.chain = n])
    BY <1>3 DEF BeginWithChain
  <2> DEFINE r == [Started(p, o, "head") EXCEPT !.chain = n]
  <2>2. proc'[p] = r
    BY <1>1, <2>1
  <2>3. Opens(r, o, "head", n) /\ r.chain = n
    BY DEF Started, Idle, Opens
  <2> HIDE DEF r
  <2> QED BY <2>2, <2>3
<1>4. ASSUME BeginWithLog(p)
      PROVE  \/ Opens(proc'[p], "checkpoint", "save", n) /\ proc'[p].log = n
             \/ \E o \in {"request", "briefing"} :
                   Opens(proc'[p], o, "chain", n) /\ proc'[p].log = n
  <2>1. CASE Become(p, [Started(p, "checkpoint", "save") EXCEPT !.log = n])
    <3> DEFINE r == [Started(p, "checkpoint", "save") EXCEPT !.log = n]
    <3>1. proc'[p] = r
      BY <1>1, <2>1
    <3>2. Opens(r, "checkpoint", "save", n) /\ r.log = n
      BY DEF Started, Idle, Opens
    <3> HIDE DEF r
    <3> QED BY <3>1, <3>2
  <2>2. CASE \E o \in {"request", "briefing"} :
                Become(p, [Started(p, o, "chain") EXCEPT !.log = n])
    <3>1. PICK o \in {"request", "briefing"} :
              Become(p, [Started(p, o, "chain") EXCEPT !.log = n])
      BY <2>2
    <3> DEFINE r == [Started(p, o, "chain") EXCEPT !.log = n]
    <3>2. proc'[p] = r
      BY <1>1, <3>1
    <3>3. Opens(r, o, "chain", n) /\ r.log = n
      BY DEF Started, Idle, Opens
    <3> HIDE DEF r
    <3> QED BY <3>2, <3>3
  <2> QED BY <1>4, <2>1, <2>2 DEF BeginWithLog
<1>5. ASSUME BeginRestore(p)
      PROVE  \E c \in checkpoints :
                Opens(proc'[p], "restore", "replay", n) /\ proc'[p].start = c.sequence
  <2>1. PICK c \in checkpoints :
            Become(p, [Started(p, "restore", "replay") EXCEPT !.start = c.sequence])
    BY <1>5 DEF BeginRestore
  <2> DEFINE r == [Started(p, "restore", "replay") EXCEPT !.start = c.sequence]
  <2>2. proc'[p] = r
    BY <1>1, <2>1
  <2>3. Opens(r, "restore", "replay", n) /\ r.start = c.sequence
    BY DEF Started, Idle, Opens
  <2> HIDE DEF r
  <2> QED BY <2>2, <2>3
<1>6. ASSUME NEW s \in Slips, BeginApprove(p, s)
      PROVE  /\ Opens(proc'[p], "approve", "bind log", n)
             /\ proc'[p].ticket = s /\ slips[s].state = "open"
  <2> DEFINE r == [Started(p, "approve", "bind log") EXCEPT !.ticket = s]
  <2>1. proc'[p] = r /\ slips[s].state = "open"
    BY <1>1, <1>6 DEF BeginApprove
  <2>2. Opens(r, "approve", "bind log", n) /\ r.ticket = s
    BY DEF Started, Idle, Opens
  <2> HIDE DEF r
  <2> QED BY <2>1, <2>2
<1>7. ASSUME NEW t \in Tickets, RedeemTicket(p, t)
      PROVE  Opens(proc'[p], "confirm", "append", n) /\ proc'[p].ticket = t
  <2> DEFINE r == [Started(p, "confirm", "append") EXCEPT !.ticket = t]
  <2>1. proc'[p] = r
    BY <1>1, <1>7 DEF RedeemTicket
  <2>2. Opens(r, "confirm", "append", n) /\ r.ticket = t
    BY DEF Started, Idle, Opens
  <2> HIDE DEF r
  <2> QED BY <2>1, <2>2
<1> HIDE DEF n
<1> QED BY <1>3, <1>4, <1>5, <1>6, <1>7, Zenon DEF n

\* An operation begins with nothing decided, at the chain of that moment.
LEMMA FirstOpens ==
    ASSUME TypeInv, NEW p \in Procs,
           \/ BeginWithChain(p) \/ BeginWithLog(p) \/ BeginRestore(p)
           \/ (\E s \in Slips : BeginApprove(p, s)) \/ (\E t \in Tickets : RedeemTicket(p, t))
    PROVE  LET y == proc'[p] IN
           /\ y.base = Len(events) /\ y.restored = NotRestored
           /\ y.decision = Undecided /\ y.advice = Undecided /\ y.listed = {}
           /\ y.pc \in {"head", "save", "chain", "replay", "bind log", "append"}
           /\ y.pc = "head" => y.op \in {"recover", "close", "handoff"} /\ y.chain = Len(events)
           /\ y.pc = "save" => y.op = "checkpoint"
           /\ y.pc = "chain" => y.op \in {"request", "briefing"}
           /\ y.pc = "replay" => y.op = "restore"
                  /\ \E c \in checkpoints : y.start = c.sequence
           /\ y.pc = "bind log" => y.op = "approve"
                  /\ y.ticket \in Slips /\ slips[y.ticket].state = "open"
           /\ y.pc = "append" => y.op = "confirm" /\ y.ticket \in Tickets
<1>1. CASE BeginWithChain(p)
  BY <1>1, FirstMoves DEF Opens
<1>2. CASE BeginWithLog(p)
  BY <1>2, FirstMoves DEF Opens
<1>3. CASE BeginRestore(p)
  BY <1>3, FirstMoves DEF Opens
<1>4. CASE \E s \in Slips : BeginApprove(p, s)
  BY <1>4, FirstMoves DEF Opens
<1>5. CASE \E t \in Tickets : RedeemTicket(p, t)
  BY <1>5, FirstMoves DEF Opens
<1> QED BY <1>1, <1>2, <1>3, <1>4, <1>5

\* The last statements, and the ways to die: what was read is gone.
LEMMA LastMoves ==
    ASSUME TypeInv, NEW p \in Procs,
           Close(p) \/ SaveCheckpoint(p) \/ CompleteHandoff(p) \/ StoreSlip(p) \/ Approve(p)
             \/ Confirm(p) \/ Crash(p)
    PROVE  proc'[p] = Idle
<1>1. Return(p)
  BY DEF Close, SaveCheckpoint, CompleteHandoff, StoreSlip, Approve, Confirm, Crash, Refuse
<1> QED BY <1>1, MovesOne DEF TypeInv, Return

\* The statements in between, field by field.
LEMMA MiddleMoves ==
    ASSUME TypeInv, NEW p \in Procs
    PROVE  LET x == proc[p]
               y == proc'[p]
               n == Len(events)
           IN
           /\ ReadChain(p) => Goes(x, y, "head") /\ Keeps(x, y) /\ y.chain = n
           /\ ReadHead(p) =>
                \/ y = Idle
                \/ Goes(x, y, IF x.op = "close" THEN "rows" ELSE "log") /\ Keeps(x, y)
                \/ n # x.chain /\ Decides(x, y, Abort)
           /\ ReadLog(p) =>
                \/ y = Idle
                \/ /\ Goes(x, y, IF x.op = "close" THEN "close" ELSE "rows") /\ Keeps(x, y)
                   /\ y.log = n
                   /\ x.op = "close" => ~ CloseRefused(events)
           /\ ReadRows(p) =>
                \/ y = Idle
                \/ x.op = "close" /\ rows = {} /\ Goes(x, y, "log") /\ Keeps(x, y)
                \/ Decides(x, y, Recovered(Prefix(x.log), Uncertain, FALSE, FALSE))
           /\ FinishRestore(p) =>
                /\ y.pc = "idle" /\ y.op = "none" /\ y.decision = Undecided
                /\ y.advice = Undecided /\ y.base = 0
                /\ y.restored = Restored(x.start, AsOf(x.start), n - x.start)
           /\ ReadSource(p) => Goes(x, y, "chain") /\ Keeps(x, y)
           /\ ListUncertain(p) =>
                \/ /\ x.op = "briefing" /\ Ends(y) /\ y.listed = rows
                   /\ y.decision = Undecided /\ y.advice = x.advice
                \/ x.op = "handoff" /\ Goes(x, y, "start") /\ Keeps(x, y) /\ y.listed = rows
           /\ StartHandoff(p) => /\ Goes(x, y, "handed") /\ y.decision = x.decision
                                 /\ y.advice = Undecided /\ y.start = n + 1
           /\ BindLog(p) => Goes(x, y, "bind chain") /\ Keeps(x, y) /\ y.log = n
           /\ BindChain(p) =>
                \/ y = Idle
                \/ /\ x.op = "request" /\ Goes(x, y, "store slip") /\ Keeps(x, y)
                   /\ y.log = x.log /\ y.chain = n
                \/ /\ x.op = "approve" /\ Goes(x, y, "redeem") /\ Keeps(x, y)
                   /\ DigestMatches(p, x.ticket)
<1> DEFINE n == Len(events)
           x == proc[p]
           y == proc'[p]
<1>1. ASSUME NEW r, Become(p, r) PROVE y = r
  BY <1>1, MovesOne DEF TypeInv
<1>2. x \in Processes
  BY DEF TypeInv, ProcsOK, ProcOK
<1>3. ASSUME Refuse(p) PROVE y = Idle
  BY <1>1, <1>3 DEF Refuse, Return
<1> HIDE DEF n, y
<1>4. ReadChain(p) => Goes(x, y, "head") /\ Keeps(x, y) /\ y.chain = n
  <2> DEFINE r == [x EXCEPT !.pc = "head", !.chain = n]
  <2>1. Goes(x, r, "head") /\ Keeps(x, r) /\ r.chain = n
    BY <1>2 DEF Goes, Keeps, Processes
  <2>2. ReadChain(p) => y = r
    BY <1>1 DEF ReadChain, n
  <2> QED BY <2>1, <2>2, Zenon
<1>5. ASSUME ReadHead(p)
      PROVE  \/ y = Idle
             \/ Goes(x, y, IF x.op = "close" THEN "rows" ELSE "log") /\ Keeps(x, y)
             \/ n # x.chain /\ Decides(x, y, Abort)
  <2>1. CASE Refuse(p)
    BY <1>3, <2>1
  <2>2. CASE n # x.chain /\ Proceed(p, Abort)
    BY <2>2, ProceedDecides DEF y
  <2>3. CASE Become(p, [x EXCEPT !.chain = 0, !.pc = IF Runs(p, "close") THEN "rows" ELSE "log"])
    <3> DEFINE l == IF x.op = "close" THEN "rows" ELSE "log"
               r == [x EXCEPT !.chain = 0, !.pc = l]
    <3> HIDE DEF l
    <3>1. Goes(x, r, l) /\ Keeps(x, r)
      BY <1>2 DEF Goes, Keeps, Processes
    <3>2. y = r
      BY <1>1, <2>3 DEF Runs, l
    <3> QED BY <3>1, <3>2 DEF l
  <2> QED BY <1>5, <2>1, <2>2, <2>3 DEF ReadHead, TypeInv, ChainOK, n
<1>6. ASSUME ReadLog(p)
      PROVE  \/ y = Idle
             \/ /\ Goes(x, y, IF x.op = "close" THEN "close" ELSE "rows") /\ Keeps(x, y)
                /\ y.log = n
                /\ x.op = "close" => ~ CloseRefused(events)
  <2>1. CASE Refuse(p)
    BY <1>3, <2>1
  <2>2. CASE /\ ~ (Runs(p, "close") /\ CloseRefused(events))
             /\ Become(p, [x EXCEPT !.log = n, !.pc = IF Runs(p, "close") THEN "close" ELSE "rows"])
    <3> DEFINE l == IF x.op = "close" THEN "close" ELSE "rows"
               r == [x EXCEPT !.log = n, !.pc = l]
    <3> HIDE DEF l
    <3>1. Goes(x, r, l) /\ Keeps(x, r) /\ r.log = n
      BY <1>2 DEF Goes, Keeps, Processes
    <3>2. y = r
      BY <1>1, <2>2 DEF Runs, l
    <3> QED BY <2>2, <3>1, <3>2 DEF l, Runs
  <2> QED BY <1>6, <2>1, <2>2 DEF ReadLog, n
<1>7. ASSUME ReadRows(p)
      PROVE  \/ y = Idle
             \/ x.op = "close" /\ rows = {} /\ Goes(x, y, "log") /\ Keeps(x, y)
             \/ Decides(x, y, Recovered(Prefix(x.log), Uncertain, FALSE, FALSE))
  <2>1. CASE Refuse(p)
    BY <1>3, <2>1
  <2>2. CASE Proceed(p, Recovered(Prefix(x.log), Uncertain, FALSE, FALSE))
    BY <2>2, ProceedDecides DEF y
  <2>3. CASE Runs(p, "close") /\ Uncertain = {} /\ Goto(p, "log")
    <3> DEFINE r == [x EXCEPT !.pc = "log"]
    <3>1. Goes(x, r, "log") /\ Keeps(x, r)
      BY <1>2 DEF Goes, Keeps, Processes
    <3>2. y = r
      BY <1>1, <2>3 DEF Goto
    <3> QED BY <2>3, <3>1, <3>2 DEF Runs, Uncertain
  <2> QED BY <1>7, <2>1, <2>2, <2>3 DEF ReadRows
<1>8. ASSUME FinishRestore(p)
      PROVE  /\ y.pc = "idle" /\ y.op = "none" /\ y.decision = Undecided
             /\ y.advice = Undecided /\ y.base = 0
             /\ y.restored = Restored(x.start, AsOf(x.start), n - x.start)
  <2>1. y = [Idle EXCEPT !.restored = Restored(x.start, AsOf(x.start), n - x.start)]
    BY <1>1, <1>8 DEF FinishRestore, n
  <2> QED BY <2>1 DEF Idle
<1>9. ReadSource(p) => Goes(x, y, "chain") /\ Keeps(x, y)
  <2> DEFINE r == [x EXCEPT !.pc = "chain", !.start = n]
  <2>1. Goes(x, r, "chain") /\ Keeps(x, r)
    BY <1>2 DEF Goes, Keeps, Processes
  <2>2. ReadSource(p) => y = r
    BY <1>1 DEF ReadSource, n
  <2> QED BY <2>1, <2>2, Zenon
<1>10. ASSUME ListUncertain(p)
       PROVE  \/ /\ x.op = "briefing" /\ Ends(y) /\ y.listed = rows
                 /\ y.decision = Undecided /\ y.advice = x.advice
              \/ x.op = "handoff" /\ Goes(x, y, "start") /\ Keeps(x, y) /\ y.listed = rows
  <2> DEFINE r == [x EXCEPT !.pc = "start", !.listed = rows]
             i == [Idle EXCEPT !.advice = x.advice, !.listed = rows]
  <2>1. Goes(x, r, "start") /\ Keeps(x, r) /\ r.listed = rows
    BY <1>2 DEF Goes, Keeps, Processes
  <2>2. Ends(i) /\ i.listed = rows /\ i.decision = Undecided /\ i.advice = x.advice
    BY DEF Ends, Idle
  <2>3. (x.op = "briefing" /\ y = i) \/ (x.op = "handoff" /\ y = r)
    BY <1>1, <1>10 DEF ListUncertain, UncertainDetails, Runs
  <2> HIDE DEF r, i
  <2> QED BY <2>1, <2>2, <2>3
<1>11. StartHandoff(p) => /\ Goes(x, y, "handed") /\ y.decision = x.decision
                          /\ y.advice = Undecided /\ y.start = n + 1
  <2> DEFINE r == [x EXCEPT !.pc = "handed", !.start = n + 1,
                            !.advice = Undecided, !.listed = {}]
  <2>1. Goes(x, r, "handed") /\ r.decision = x.decision
        /\ r.advice = Undecided /\ r.start = n + 1
    BY <1>2 DEF Goes, Processes
  <2>2. StartHandoff(p) => y = r
    BY <1>1 DEF StartHandoff, n
  <2> HIDE DEF r
  <2> QED BY <2>1, <2>2
<1>12. BindLog(p) => Goes(x, y, "bind chain") /\ Keeps(x, y) /\ y.log = n
  <2> DEFINE r == [x EXCEPT !.pc = "bind chain", !.log = n]
  <2>1. Goes(x, r, "bind chain") /\ Keeps(x, r) /\ r.log = n
    BY <1>2 DEF Goes, Keeps, Processes
  <2>2. BindLog(p) => y = r
    BY <1>1 DEF BindLog, n
  <2> QED BY <2>1, <2>2, Zenon
<1>13. ASSUME BindChain(p)
       PROVE  \/ y = Idle
              \/ /\ x.op = "request" /\ Goes(x, y, "store slip") /\ Keeps(x, y)
                 /\ y.log = x.log /\ y.chain = n
              \/ /\ x.op = "approve" /\ Goes(x, y, "redeem") /\ Keeps(x, y)
                 /\ DigestMatches(p, x.ticket)
  <2>1. CASE Refuse(p)
    BY <1>3, <2>1
  <2>2. CASE Runs(p, "request") /\ Become(p, [x EXCEPT !.pc = "store slip", !.chain = n])
    <3> DEFINE r == [x EXCEPT !.pc = "store slip", !.chain = n]
    <3>1. Goes(x, r, "store slip") /\ Keeps(x, r) /\ r.log = x.log /\ r.chain = n
      BY <1>2 DEF Goes, Keeps, Processes
    <3>2. y = r
      BY <1>1, <2>2
    <3> QED BY <2>2, <3>1, <3>2 DEF Runs
  <2>3. CASE Runs(p, "approve") /\ DigestMatches(p, x.ticket) /\ Goto(p, "redeem")
    <3> DEFINE r == [x EXCEPT !.pc = "redeem"]
    <3>1. Goes(x, r, "redeem") /\ Keeps(x, r)
      BY <1>2 DEF Goes, Keeps, Processes
    <3>2. y = r
      BY <1>1, <2>3 DEF Goto
    <3> QED BY <2>3, <3>1, <3>2 DEF Runs
  <2> QED BY <1>13, <2>1, <2>2, <2>3 DEF BindChain, n
<1> HIDE DEF x
<1> QED BY <1>4, <1>5, <1>6, <1>7, <1>8, <1>9, <1>10, <1>11, <1>12, <1>13, Zenon DEF n, x, y

-----------------------------------------------------------------------------
(* False alarms                                                              *)

\* verify_chain reads the head after the chain, and an alarm means the two differed.
NoFalseAlarm(r, n) ==
    /\ r.pc = "head" => r.base <= r.chain
    /\ r.decision = Abort => r.base < n

AlarmInv == \A p \in Procs : NoFalseAlarm(proc[p], Len(events))

\* No statement of an operation raises a false alarm.
LEMMA AlarmMoves ==
    ASSUME TypeInv, AlarmInv, NEW p \in Procs, Step(p)
    PROVE  NoFalseAlarm(proc'[p], Len(events))
<1> DEFINE n == Len(events)
           x == proc[p]
           y == proc'[p]
<1> SUFFICES NoFalseAlarm(y, n)
  OBVIOUS
<1>1. /\ n \in Nat /\ NoFalseAlarm(x, n)
      /\ x.base \in Nat /\ x.chain \in Nat /\ x.base <= n /\ x.chain <= n
  BY StoreConstantsOK DEF TypeInv, ChainOK, ProcsOK, ProcOK, Within, Processes, AlarmInv
<1>2. Undecided # Abort /\ Idle.decision = Undecided /\ Idle.pc = "idle"
  BY VerdictsAreDecisions DEF Abort, Undecided, Decision, Idle
<1>3. ASSUME NEW d, Decides(x, y, d), d = Abort => x.base < n
      PROVE  NoFalseAlarm(y, n)
  <2> HIDE DEF x, y, n
  <2> QED BY <1>1, <1>2, <1>3 DEF Decides, Goes, Keeps, Ends, NoFalseAlarm
<1>4. CASE \/ BeginWithChain(p) \/ BeginWithLog(p) \/ BeginRestore(p)
           \/ (\E s \in Slips : BeginApprove(p, s)) \/ (\E t \in Tickets : RedeemTicket(p, t))
  <2>1. y.decision = Undecided /\ y.base = n /\ (y.pc = "head" => y.chain = n)
    BY <1>4, FirstOpens
  <2> HIDE DEF x, y, n
  <2> QED BY <1>1, <1>2, <2>1 DEF NoFalseAlarm
<1>5. CASE ReadHead(p)
  <2>1. \/ y = Idle
        \/ Goes(x, y, IF x.op = "close" THEN "rows" ELSE "log") /\ Keeps(x, y)
        \/ n # x.chain /\ Decides(x, y, Abort)
    BY <1>5, MiddleMoves
  <2>2. n # x.chain => x.base < n
    BY <1>1, <1>5 DEF ReadHead, At, NoFalseAlarm
  <2> HIDE DEF x, y, n
  <2> QED BY <1>1, <1>2, <1>3, <2>1, <2>2 DEF Goes, Keeps, NoFalseAlarm
<1>6. CASE ReadRows(p)
  <2> DEFINE d == Recovered(Prefix(x.log), Uncertain, FALSE, FALSE)
  <2>1. y = Idle \/ (Goes(x, y, "log") /\ Keeps(x, y)) \/ Decides(x, y, d)
    BY <1>6, MiddleMoves
  <2>2. d # Abort
    BY ReadDecides, VerdictsAreDecisions
  <2> HIDE DEF x, y, n, d
  <2> QED BY <1>1, <1>2, <1>3, <2>1, <2>2 DEF Goes, Keeps, NoFalseAlarm
<1>7. CASE \/ ReadChain(p) \/ ReadLog(p) \/ FinishRestore(p) \/ ReadSource(p)
           \/ ListUncertain(p) \/ StartHandoff(p) \/ BindLog(p) \/ BindChain(p)
  <2>1. \/ y.decision = Undecided /\ y.pc = "idle"
        \/ /\ \E l : Goes(x, y, l) /\ (l = "head" => y.chain = n)
           /\ y.decision = x.decision
    <3>1. \A l : Goes(x, y, l) => y.pc = l
      BY DEF Goes
    <3>2. (IF x.op = "close" THEN "close" ELSE "rows") # "head"
      OBVIOUS
    <3> QED BY <1>2, <1>7, <3>1, <3>2, MiddleMoves DEF Keeps, Ends
  <2> HIDE DEF x, y, n
  <2> QED BY <1>1, <1>2, <2>1 DEF Goes, NoFalseAlarm
<1>8. CASE Close(p) \/ SaveCheckpoint(p) \/ CompleteHandoff(p) \/ StoreSlip(p) \/ Approve(p)
             \/ Confirm(p) \/ Crash(p)
  BY <1>2, <1>8, LastMoves DEF NoFalseAlarm
<1> HIDE DEF x, y, n
<1> QED BY <1>4, <1>5, <1>6, <1>7, <1>8, Zenon DEF Step

\* An intact mission is called corrupt only when somebody wrote to it between the
\* two reads of verify_chain, by any number of processes and writers.
THEOREM NoAlarmWithoutAWrite == Spec => []AbortOnlyUnderConcurrentWrite
<1>1. Init => AlarmInv
  BY VerdictsAreDecisions DEF Init, AlarmInv, NoFalseAlarm, Idle, Abort, Undecided, Decision
<1>2. TypeInv /\ AlarmInv /\ [Next]_vars => AlarmInv'
  <2> SUFFICES ASSUME TypeInv, AlarmInv, [Next]_vars PROVE AlarmInv'
    OBVIOUS
  <2>1. CASE UNCHANGED vars
    BY <2>1 DEF vars, database, AlarmInv
  <2>2. CASE Next
    <3>1. Len(events) \in Nat /\ Len(events') \in Nat /\ Len(events) <= Len(events')
      BY <2>2, ChainGrows, LogShape DEF TypeInv, ChainOK
    <3>2. \A p \in Procs : proc[p].base \in Nat
      BY StoreConstantsOK DEF TypeInv, ProcsOK, ProcOK, Processes
    <3>3. ASSUME NEW q \in Procs, proc'[q] = proc[q]
          PROVE  NoFalseAlarm(proc'[q], Len(events'))
      BY <3>1, <3>2, <3>3 DEF AlarmInv, NoFalseAlarm
    <3>4. ASSUME NEW p \in Procs, Step(p)
          PROVE  NoFalseAlarm(proc'[p], Len(events'))
      <4>1. NoFalseAlarm(proc'[p], Len(events)) /\ proc'[p].base \in Nat
        BY <2>2, <3>4, AlarmMoves, StepProcs, StoreConstantsOK
           DEF ProcsOK, ProcOK, Processes
      <4> QED BY <3>1, <4>1 DEF NoFalseAlarm
    <3> QED BY <2>2, <3>3, <3>4, StepMoves DEF AlarmInv
  <2> QED BY <2>1, <2>2
<1>3. TypeInv /\ AlarmInv => AbortOnlyUnderConcurrentWrite
  <2> SUFFICES ASSUME TypeInv, AlarmInv, NEW p \in Procs, proc[p].decision = Abort
               PROVE  Len(events) > proc[p].base
    BY DEF AbortOnlyUnderConcurrentWrite
  <2>1. proc[p].base < Len(events) /\ proc[p].base \in Nat /\ Len(events) \in Nat
    BY StoreConstantsOK DEF AlarmInv, NoFalseAlarm, TypeInv, ChainOK, ProcsOK, ProcOK, Processes
  <2> QED BY <2>1
<1> QED BY <1>1, <1>2, <1>3, StoreTypeCorrect, PTL DEF Spec

-----------------------------------------------------------------------------
(* Approvals                                                                 *)

\* Slips cover what was read of the chain when they were stored.
SlipsInv ==
    \A s \in Slips : slips[s].state # "none" =>
        slips[s].log <= Len(events) /\ slips[s].chain <= Len(events)

\* An approval in progress holds a slip that is older than the approval; past the
\* comparison of the digests, the slip is of the moment the approval began.
ApprovalOK(r, sl) ==
    /\ r.op = "approve" => /\ r.ticket \in Slips /\ sl[r.ticket].state # "none"
                           /\ sl[r.ticket].log <= r.base /\ sl[r.ticket].chain <= r.base
                           /\ r.pc = "bind chain" => r.base <= r.log
    /\ r.pc = "redeem" => /\ r.op = "approve"
                          /\ sl[r.ticket].log = r.base /\ sl[r.ticket].chain = r.base

ApprovalInv == SlipsInv /\ \A p \in Procs : ApprovalOK(proc[p], slips)

\* A slip that is stored keeps what it covers.
Stay(sl, sl2) ==
    \A s \in Slips : sl[s].state # "none" =>
        sl2[s].state # "none" /\ sl2[s].log = sl[s].log /\ sl2[s].chain = sl[s].chain

\* Only a request and an approval touch the slips.
LEMMA StepSlips ==
    ASSUME TypeInv, Next
    PROVE  \/ UNCHANGED slips
           \/ \E p \in Procs : Step(p) /\ (StoreSlip(p) \/ Approve(p))
<1>1. CASE Write /\ UNCHANGED proc
  BY <1>1 DEF Write, AppendOnly
<1>2. CASE \/ \E a \in Actions : ClaimAction(a) \/ SettleAction(a)
           \/ \E t \in Tickets : IssueConfirmTicket(t)
           \/ \E s \in Slips : Expire(s)
  BY <1>2 DEF ClaimAction, SettleAction, IssueConfirmTicket, Expire, database
<1>3. CASE \E p \in Procs : Reads(p)
  BY <1>3, ReadsChangeNothing DEF database
<1>4. CASE \E p \in Procs : Close(p) \/ SaveCheckpoint(p) \/ StartHandoff(p)
              \/ CompleteHandoff(p) \/ Confirm(p) \/ \E t \in Tickets : RedeemTicket(p, t)
  BY <1>4 DEF Close, SaveCheckpoint, StartHandoff, CompleteHandoff, Confirm, RedeemTicket,
              AppendOnly, Refuse, database
<1>5. ASSUME NEW p \in Procs, StoreSlip(p) \/ Approve(p)
      PROVE  Step(p)
  BY <1>5 DEF Step
<1> QED BY <1>1, <1>2, <1>3, <1>4, <1>5, StepIsOneOf

\* What the slips cover stays, and is never ahead of the chain.
LEMMA SlipsStay ==
    ASSUME TypeInv, SlipsInv, Next
    PROVE  SlipsInv' /\ Stay(slips, slips')
<1>1. Len(events) \in Nat /\ Len(events') \in Nat /\ Len(events) <= Len(events')
  BY ChainGrows, LogShape DEF TypeInv, ChainOK
<1>2. \A s \in Slips : slips[s].log \in Nat /\ slips[s].chain \in Nat
  BY StoreConstantsOK DEF TypeInv, TablesOK
<1>3. CASE UNCHANGED slips
  BY <1>1, <1>2, <1>3 DEF SlipsInv, Stay
<1>4. ASSUME NEW p \in Procs, StoreSlip(p)
      PROVE  SlipsInv' /\ Stay(slips, slips')
  <2> DEFINE new == [state |-> "open", log |-> proc[p].log, chain |-> proc[p].chain]
  <2>1. PICK s \in Slips : slips[s].state = "none" /\ slips' = [slips EXCEPT ![s] = new]
    BY <1>4 DEF StoreSlip
  <2>2. /\ proc[p].log \in Nat /\ proc[p].chain \in Nat
        /\ proc[p].log <= Len(events) /\ proc[p].chain <= Len(events)
    BY StoreConstantsOK DEF TypeInv, ProcsOK, ProcOK, Within, Processes
  <2>3. new.log <= Len(events') /\ new.chain <= Len(events')
    BY <1>1, <2>2
  <2> HIDE DEF new
  <2>4. slips'[s] = new /\ \A t \in Slips \ {s} : slips'[t] = slips[t]
    BY <2>1 DEF TypeInv, TablesOK
  <2>5. Stay(slips, slips')
    BY <2>1, <2>4 DEF Stay
  <2>6. ASSUME NEW t \in Slips \ {s}, slips[t].state # "none"
        PROVE  slips[t].log <= Len(events') /\ slips[t].chain <= Len(events')
    BY <1>1, <1>2, <2>6 DEF SlipsInv
  <2>7. SlipsInv'
    BY <2>3, <2>4, <2>6 DEF SlipsInv
  <2> QED BY <2>5, <2>7
<1>5. ASSUME NEW p \in Procs, Approve(p), ~ UNCHANGED slips
      PROVE  SlipsInv' /\ Stay(slips, slips')
  <2>1. /\ slips' = [slips EXCEPT ![proc[p].ticket].state = "used"]
        /\ Redeemable(slips[proc[p].ticket].state)
    BY <1>5 DEF Approve, Refuse, database
  <2>2. \A t \in Slips : /\ slips'[t].log = slips[t].log /\ slips'[t].chain = slips[t].chain
                         /\ \/ slips'[t].state = slips[t].state
                            \/ slips[t].state = "open" /\ slips'[t].state = "used"
    BY <2>1 DEF TypeInv, TablesOK, Redeemable
  <2>3. Stay(slips, slips')
    BY <2>2 DEF Stay
  <2>4. ASSUME NEW t \in Slips, slips'[t].state # "none"
        PROVE  slips'[t].log <= Len(events') /\ slips'[t].chain <= Len(events')
    <3>1. slips[t].state # "none"
      BY <2>2, <2>4
    <3>2. slips[t].log <= Len(events) /\ slips[t].chain <= Len(events)
      BY <3>1 DEF SlipsInv
    <3> QED BY <1>1, <1>2, <2>2, <3>2
  <2> QED BY <2>3, <2>4 DEF SlipsInv
<1> QED BY <1>3, <1>4, <1>5, StepSlips

\* An approval goes on in order.
LEMMA ApprovalMoves ==
    ASSUME TypeInv, ApprovalInv, NEW p \in Procs, Step(p), Next
    PROVE  ApprovalOK(proc'[p], slips)
<1> DEFINE n == Len(events)
           x == proc[p]
           y == proc'[p]
<1> SUFFICES ApprovalOK(y, slips)
  OBVIOUS
<1>1. /\ n \in Nat /\ ApprovalOK(x, slips) /\ x.base \in Nat /\ x.base <= n /\ x.log \in Nat
      /\ \A s \in Slips : slips[s].log \in Nat /\ slips[s].chain \in Nat
  BY StoreConstantsOK
     DEF TypeInv, ChainOK, TablesOK, ProcsOK, ProcOK, Within, Processes, ApprovalInv
<1>2. Idle.op = "none" /\ Idle.pc = "idle"
  BY DEF Idle
<1>3. ASSUME y.op = "none", y.pc = "idle" PROVE ApprovalOK(y, slips)
  BY <1>3 DEF ApprovalOK
<1>4. ASSUME NEW l, Goes(x, y, l), l \notin {"bind chain", "redeem"}
      PROVE  ApprovalOK(y, slips)
  <2> HIDE DEF x, y, n
  <2> QED BY <1>1, <1>4 DEF Goes, ApprovalOK
<1>5. ASSUME NEW d, Decides(x, y, d) PROVE ApprovalOK(y, slips)
  <2>1. y = Idle \/ Ends(y) \/ Goes(x, y, "source") \/ Goes(x, y, "list") \/ Goes(x, y, "bind log")
    BY <1>5 DEF Decides
  <2> HIDE DEF x, y, n
  <2> QED BY <1>2, <1>3, <1>4, <2>1 DEF Ends
<1>6. CASE \/ BeginWithChain(p) \/ BeginWithLog(p) \/ BeginRestore(p)
           \/ (\E s \in Slips : BeginApprove(p, s)) \/ (\E t \in Tickets : RedeemTicket(p, t))
  <2>1. /\ y.base = n
        /\ y.pc \in {"head", "save", "chain", "replay", "bind log", "append"}
        /\ y.op = "approve" => y.ticket \in Slips /\ slips[y.ticket].state = "open"
    BY <1>6, FirstOpens
  <2>2. \A s \in Slips : slips[s].state # "none" => slips[s].log <= n /\ slips[s].chain <= n
    BY DEF ApprovalInv, SlipsInv
  <2> HIDE DEF x, y, n
  <2> QED BY <1>1, <2>1, <2>2 DEF ApprovalOK
<1>7. CASE \/ ReadChain(p) \/ ReadHead(p) \/ ReadLog(p) \/ ReadRows(p) \/ FinishRestore(p)
           \/ ReadSource(p) \/ ListUncertain(p) \/ StartHandoff(p)
  <2>1. \/ y = Idle \/ (y.op = "none" /\ y.pc = "idle") \/ (\E d : Decides(x, y, d))
        \/ \E l \in {"head", "rows", "log", "close", "chain", "start", "handed"} : Goes(x, y, l)
    <3>1. ReadChain(p) => Goes(x, y, "head")
      BY MiddleMoves
    <3>2. ReadHead(p) => y = Idle \/ Goes(x, y, "rows") \/ Goes(x, y, "log") \/ Decides(x, y, Abort)
      BY MiddleMoves
    <3>3. ReadLog(p) => y = Idle \/ Goes(x, y, "rows") \/ Goes(x, y, "close")
      BY MiddleMoves
    <3>4. ReadRows(p) => y = Idle \/ Goes(x, y, "log") \/ \E d : Decides(x, y, d)
      BY MiddleMoves
    <3>5. FinishRestore(p) => y.op = "none" /\ y.pc = "idle"
      BY MiddleMoves
    <3>6. ListUncertain(p) => (y.op = "none" /\ y.pc = "idle") \/ Goes(x, y, "start")
      BY MiddleMoves DEF Ends
    <3>7. ReadSource(p) => Goes(x, y, "chain")
      BY MiddleMoves
    <3>8. StartHandoff(p) => Goes(x, y, "handed")
      BY MiddleMoves
    <3> HIDE DEF x, y, n
    <3> QED BY <1>7, <3>1, <3>2, <3>3, <3>4, <3>5, <3>6, <3>7, <3>8
  <2> HIDE DEF x, y, n
  <2> QED BY <1>2, <1>3, <1>4, <1>5, <2>1
<1>8. CASE BindLog(p)
  <2>1. Goes(x, y, "bind chain") /\ y.log = n
    BY <1>8, MiddleMoves
  <2> HIDE DEF x, y, n
  <2> QED BY <1>1, <2>1 DEF Goes, ApprovalOK
<1>9. CASE BindChain(p)
  <2>1. \/ y = Idle \/ (x.op = "request" /\ Goes(x, y, "store slip"))
        \/ x.op = "approve" /\ Goes(x, y, "redeem")
             /\ slips[x.ticket].log = x.log /\ slips[x.ticket].chain = n
    BY <1>9, MiddleMoves DEF DigestMatches
  <2>2. x.pc = "bind chain"
    BY <1>9 DEF BindChain, At
  <2> HIDE DEF x, y, n
  <2>3. CASE /\ x.op = "approve" /\ Goes(x, y, "redeem")
             /\ slips[x.ticket].log = x.log /\ slips[x.ticket].chain = n
    <3>1. /\ x.ticket \in Slips /\ slips[x.ticket].state # "none" /\ x.base <= x.log
          /\ slips[x.ticket].log <= x.base /\ slips[x.ticket].chain <= x.base
      BY <1>1, <2>2, <2>3 DEF ApprovalOK
    <3>2. slips[x.ticket].log = x.base /\ slips[x.ticket].chain = x.base
      BY <1>1, <2>3, <3>1
    <3> QED BY <1>1, <2>3, <3>1, <3>2 DEF Goes, ApprovalOK
  <2> QED BY <1>2, <1>3, <1>4, <2>1, <2>3
<1>10. CASE Close(p) \/ SaveCheckpoint(p) \/ CompleteHandoff(p) \/ StoreSlip(p) \/ Approve(p)
              \/ Confirm(p) \/ Crash(p)
  BY <1>2, <1>3, <1>10, LastMoves
<1> HIDE DEF x, y, n
<1> QED BY <1>6, <1>7, <1>8, <1>9, <1>10, Zenon DEF Step

\* Slips and approvals are in order in every state.
LEMMA ApprovalsInOrder == Spec => []ApprovalInv
<1>1. Init => ApprovalInv
  <2> SUFFICES ASSUME Init PROVE ApprovalInv
    OBVIOUS
  <2>1. \A s \in Slips : slips[s].state = "none"
    BY DEF Init
  <2>2. \A p \in Procs : proc[p].op = "none" /\ proc[p].pc = "idle"
    BY DEF Init, Idle
  <2> QED BY <2>1, <2>2 DEF ApprovalInv, SlipsInv, ApprovalOK
<1>2. TypeInv /\ ApprovalInv /\ [Next]_vars => ApprovalInv'
  <2> SUFFICES ASSUME TypeInv, ApprovalInv, [Next]_vars PROVE ApprovalInv'
    OBVIOUS
  <2>1. CASE UNCHANGED vars
    BY <2>1 DEF vars, database, ApprovalInv, SlipsInv
  <2>2. CASE Next
    <3>1. SlipsInv' /\ Stay(slips, slips')
      BY <2>2, SlipsStay DEF ApprovalInv
    <3>2. \A r : ApprovalOK(r, slips) => ApprovalOK(r, slips')
      BY <3>1 DEF ApprovalOK, Stay
    <3>3. ASSUME NEW q \in Procs, proc'[q] = proc[q] PROVE ApprovalOK(proc'[q], slips')
      BY <3>2, <3>3 DEF ApprovalInv
    <3>4. ASSUME NEW p \in Procs, Step(p) PROVE ApprovalOK(proc'[p], slips')
      BY <2>2, <3>2, <3>4, ApprovalMoves
    <3> QED BY <2>2, <3>1, <3>3, <3>4, StepMoves DEF ApprovalInv
  <2> QED BY <2>1, <2>2
<1> QED BY <1>1, <1>2, StoreTypeCorrect, PTL DEF Spec

\* An approval is granted only if the mission stood, when the approval began, at
\* exactly the state its digest was taken from, whatever is read and written between
\* the two inspections of a request and of an approval.
THEOREM ApprovalsSawTheirState == Spec => ApprovalSawItsState
<1>1. TypeInv /\ ApprovalInv /\ [Next]_vars =>
        [\A s \in Slips : slips[s].state = "open" /\ slips'[s].state = "used" =>
          \E p \in Procs : /\ proc[p].ticket = s
                           /\ slips[s].log = proc[p].base /\ slips[s].chain = proc[p].base
        ]_vars
  <2> SUFFICES ASSUME TypeInv, ApprovalInv, Next,
                      NEW s \in Slips, slips[s].state = "open", slips'[s].state = "used"
               PROVE  \E p \in Procs : /\ proc[p].ticket = s
                                       /\ slips[s].log = proc[p].base
                                       /\ slips[s].chain = proc[p].base
    OBVIOUS
  <2>1. PICK p \in Procs : StoreSlip(p) \/ Approve(p)
    BY StepSlips
  <2>2. CASE StoreSlip(p)
    <3>1. PICK t \in Slips : slips[t].state = "none" /\
              slips' = [slips EXCEPT ![t] = [state |-> "open", log |-> proc[p].log,
                                             chain |-> proc[p].chain]]
      BY <2>2 DEF StoreSlip
    <3>2. slips'[s] = slips[s]
      BY <3>1 DEF TypeInv, TablesOK
    <3> QED BY <3>2
  <2>3. CASE Approve(p)
    <3>1. At(p, "redeem") /\ proc[p].ticket = s
      BY <2>3 DEF Approve, Refuse, database, TypeInv, TablesOK
    <3>2. ApprovalOK(proc[p], slips)
      BY DEF ApprovalInv
    <3> QED BY <3>1, <3>2 DEF ApprovalOK, At
  <2> QED BY <2>1, <2>2, <2>3
<1> QED BY <1>1, StoreTypeCorrect, ApprovalsInOrder, PTL DEF Spec, ApprovalSawItsState

-----------------------------------------------------------------------------
(* Confirmations                                                             *)

\* An event that no ticket, checkpoint or row goes with.
Plain(e) ==
    /\ e.type \notin {"CHECKPOINT_CREATED", "ACTION_STARTED", "ACTION_SETTLED"}
    /\ \A x \in Tickets \cup Slips : e # ReviewConfirmed(x)

\* The events that operations append without touching another table are plain.
LEMMA PlainEvents ==
    /\ \A o, w, c, ok : Plain(WorkCompleted(o, w)) /\ Plain(EvidenceRecorded(o, c, ok))
    /\ \A f, t, d, n : /\ Plain(HandoffStarted(f, t)) /\ Plain(HandoffCompleted(f, t, d))
                       /\ Plain(MissionCompleted(n))
    /\ Plain(ReviewConfirmed("operator"))
<1>1. /\ \A o, w, c, ok : Plain(WorkCompleted(o, w)) /\ Plain(EvidenceRecorded(o, c, ok))
      /\ \A f, t, d, n : /\ Plain(HandoffStarted(f, t)) /\ Plain(HandoffCompleted(f, t, d))
                         /\ Plain(MissionCompleted(n))
  BY DEF Plain, ReviewConfirmed, WorkCompleted, EvidenceRecorded, HandoffStarted,
         HandoffCompleted, MissionCompleted
<1>2. Plain(ReviewConfirmed("operator"))
  BY StoreConstantsOK DEF Plain, ReviewConfirmed
<1> QED BY <1>1, <1>2

\* What a step writes besides plain events.
LEMMA StepWrites ==
    ASSUME TypeInv, Next
    PROVE  \/ UNCHANGED database
           \/ \E e : Plain(e) /\ InsertEvent(e) /\ UNCHANGED <<rows, checkpoints, tickets, slips>>
           \/ \E a \in Actions : ClaimAction(a) \/ SettleAction(a)
           \/ \E t \in Tickets : IssueConfirmTicket(t)
           \/ \E p \in Procs : SaveCheckpoint(p) \/ StoreSlip(p) \/ Approve(p) \/ Confirm(p)
                               \/ \E t \in Tickets : RedeemTicket(p, t)
<1> DEFINE Adds == \E e : Plain(e) /\ InsertEvent(e)
                            /\ UNCHANGED <<rows, checkpoints, tickets, slips>>
<1>1. CASE Write /\ UNCHANGED proc
  <2>1. ASSUME NEW e, Plain(e), AppendOnly(e) PROVE Adds
    BY <2>1 DEF AppendOnly
  <2>2. CASE \E w \in Items : AppendOnly(WorkCompleted("EXTERNAL_AGENT", w))
                                \/ AppendOnly(WorkCompleted("DETERMINISTIC", w))
    BY <2>1, <2>2, PlainEvents
  <2>3. CASE \E o \in Origins, c \in Clauses, ok \in BOOLEAN :
                AppendOnly(EvidenceRecorded(o, c, ok))
    BY <2>1, <2>3, PlainEvents
  <2>4. CASE AppendOnly(ReviewConfirmed("operator"))
    BY <2>1, <2>4, PlainEvents
  <2> HIDE DEF Adds
  <2> QED BY <1>1, <2>2, <2>3, <2>4, Zenon DEF Write
<1>2. ASSUME NEW p \in Procs, Close(p) \/ StartHandoff(p) \/ CompleteHandoff(p)
      PROVE  Adds
  <2>1. \E e : Plain(e) /\ AppendOnly(e)
    BY <1>2, PlainEvents DEF Close, StartHandoff, CompleteHandoff
  <2> QED BY <2>1 DEF AppendOnly
<1>3. CASE \E p \in Procs : Reads(p)
  BY <1>3, ReadsChangeNothing
<1>4. CASE \E s \in Slips : Expire(s)
  BY <1>4 DEF Expire
<1> HIDE DEF Adds
<1> QED BY <1>1, <1>2, <1>3, <1>4, StepIsOneOf DEF Adds

\* Where an event is after an append.
LEMMA ConfirmedAfter ==
    ASSUME ChainOK, NEW e, InsertEvent(e)
    PROVE  \A x : ConfirmedWith(x)' =
              ConfirmedWith(x) \cup IF e = ReviewConfirmed(x) THEN {Len(events) + 1} ELSE {}
BY PositionsAppend DEF ConfirmedWith, InsertEvent, ChainOK

\* Slips and tickets are used as the chain says, and who redeemed a ticket is alone
\* in having its confirmation to append.
ConfirmInv ==
    /\ \A s \in Slips : IF slips[s].state = "used" THEN \E i : ConfirmedWith(s) = {i}
                                                   ELSE ConfirmedWith(s) = {}
    /\ \A t \in Tickets : \/ ConfirmedWith(t) = {}
                          \/ tickets[t] = "used" /\ \E i : ConfirmedWith(t) = {i}
    /\ \A p \in Procs : At(p, "append") =>
          /\ proc[p].ticket \in Tickets /\ tickets[proc[p].ticket] = "used"
          /\ ConfirmedWith(proc[p].ticket) = {}
          /\ \A q \in Procs : At(q, "append") /\ proc[q].ticket = proc[p].ticket => q = p

\* How a step goes about confirmations: an approval's comes with the use of its slip,
\* a ticket's after the use of the ticket, and no other step adds or takes any.
LEMMA StepConfirms ==
    ASSUME TypeInv, ApprovalInv, ConfirmInv, Next
    PROVE  /\ \A t \in Tickets : tickets[t] = "used" => tickets'[t] = "used"
           /\ \A t \in Tickets :
                \/ ConfirmedWith(t)' = ConfirmedWith(t)
                \/ \E p \in Procs : /\ Confirm(p) /\ proc[p].ticket = t
                                    /\ ConfirmedWith(t)' = ConfirmedWith(t) \cup {Len(events) + 1}
           /\ \A s \in Slips :
                \/ /\ ConfirmedWith(s)' = ConfirmedWith(s)
                   /\ slips'[s].state = "used" <=> slips[s].state = "used"
                \/ /\ slips[s].state = "open" /\ slips'[s].state = "used"
                   /\ ConfirmedWith(s)' = ConfirmedWith(s) \cup {Len(events) + 1}
<1> DEFINE Same == \A x : ConfirmedWith(x)' = ConfirmedWith(x)
<1>1. UNCHANGED events => Same
  BY DEF ConfirmedWith
<1>2. ASSUME NEW e, InsertEvent(e), \A x \in Tickets \cup Slips : e # ReviewConfirmed(x)
      PROVE  \A x \in Tickets \cup Slips : ConfirmedWith(x)' = ConfirmedWith(x)
  BY <1>2, ConfirmedAfter DEF TypeInv
<1>3. Tickets \cap Slips = {}
  BY StoreConstantsOK
<1>4. \A x, z : ReviewConfirmed(x) = ReviewConfirmed(z) => x = z
  BY DEF ReviewConfirmed
<1>5. CASE UNCHANGED database
  BY <1>1, <1>5 DEF database
<1>6. CASE \E e : Plain(e) /\ InsertEvent(e) /\ UNCHANGED <<rows, checkpoints, tickets, slips>>
  BY <1>2, <1>6 DEF Plain
<1>7. CASE \E a \in Actions : ClaimAction(a) \/ SettleAction(a)
  <2>1. /\ UNCHANGED <<tickets, slips>>
        /\ \E e : InsertEvent(e) /\ \A x \in Tickets \cup Slips : e # ReviewConfirmed(x)
    BY <1>7 DEF ClaimAction, SettleAction, ActionStarted, ActionSettled, ReviewConfirmed
  <2> QED BY <1>2, <2>1
<1>8. CASE \E t \in Tickets : IssueConfirmTicket(t)
  BY <1>1, <1>8 DEF IssueConfirmTicket, TypeInv, TablesOK
<1>9. ASSUME NEW p \in Procs, SaveCheckpoint(p), ~ UNCHANGED database
      PROVE  /\ UNCHANGED <<tickets, slips>>
             /\ \A x \in Tickets \cup Slips : ConfirmedWith(x)' = ConfirmedWith(x)
  <2>1. /\ UNCHANGED <<tickets, slips>>
        /\ \E e : InsertEvent(e) /\ \A x \in Tickets \cup Slips : e # ReviewConfirmed(x)
    BY <1>9 DEF SaveCheckpoint, Refuse, CheckpointCreated, ReviewConfirmed
  <2> QED BY <1>2, <2>1
<1>10. ASSUME NEW p \in Procs, StoreSlip(p)
       PROVE  /\ Same /\ UNCHANGED tickets
              /\ \A s \in Slips : slips'[s].state = "used" <=> slips[s].state = "used"
  <2>1. Same /\ UNCHANGED tickets
    BY <1>1, <1>10 DEF StoreSlip
  <2>2. PICK s \in Slips : slips[s].state = "none" /\
            slips' = [slips EXCEPT ![s] = [state |-> "open", log |-> proc[p].log,
                                           chain |-> proc[p].chain]]
    BY <1>10 DEF StoreSlip
  <2>3. slips'[s].state = "open" /\ \A z \in Slips \ {s} : slips'[z] = slips[z]
    BY <2>2 DEF TypeInv, TablesOK
  <2> QED BY <2>1, <2>2, <2>3
<1>11. ASSUME NEW p \in Procs, Approve(p), ~ UNCHANGED database
       PROVE  /\ UNCHANGED tickets
              /\ \E s \in Slips :
                    /\ slips[s].state = "open" /\ slips'[s].state = "used"
                    /\ \A z \in Slips \ {s} : slips'[z].state = slips[z].state
                    /\ ConfirmedWith(s)' = ConfirmedWith(s) \cup {Len(events) + 1}
                    /\ \A z : z # s => ConfirmedWith(z)' = ConfirmedWith(z)
  <2>1. PICK s \in Slips : s = proc[p].ticket
    BY <1>11 DEF Approve, At, ApprovalInv, ApprovalOK
  <2>2. /\ Redeemable(slips[s].state) /\ UNCHANGED tickets
        /\ slips' = [slips EXCEPT ![s].state = "used"]
        /\ InsertEvent(ReviewConfirmed(s))
    BY <1>11, <2>1 DEF Approve, Refuse
  <2>3. slips[s].state = "open" /\ slips'[s].state = "used"
        /\ \A z \in Slips \ {s} : slips'[z].state = slips[z].state
    BY <2>1, <2>2 DEF TypeInv, TablesOK, Redeemable
  <2>4. \A z : ConfirmedWith(z)' = ConfirmedWith(z)
                  \cup IF ReviewConfirmed(s) = ReviewConfirmed(z) THEN {Len(events) + 1} ELSE {}
    BY <2>2, ConfirmedAfter DEF TypeInv
  <2>5. ConfirmedWith(s)' = ConfirmedWith(s) \cup {Len(events) + 1}
    BY <2>4
  <2>6. \A z : z # s => ConfirmedWith(z)' = ConfirmedWith(z)
    BY <1>4, <2>4
  <2> QED BY <2>2, <2>3, <2>5, <2>6
<1>12. ASSUME NEW p \in Procs, Confirm(p)
       PROVE  /\ UNCHANGED <<tickets, slips>>
              /\ \E t : /\ t = proc[p].ticket
                        /\ ConfirmedWith(t)' = ConfirmedWith(t) \cup {Len(events) + 1}
                        /\ \A z : z # t => ConfirmedWith(z)' = ConfirmedWith(z)
  <2>1. PICK t : t = proc[p].ticket
    OBVIOUS
  <2>2. InsertEvent(ReviewConfirmed(t)) /\ UNCHANGED <<tickets, slips>>
    BY <1>12, <2>1 DEF Confirm, AppendOnly
  <2>3. \A z : ConfirmedWith(z)' = ConfirmedWith(z)
                  \cup IF ReviewConfirmed(t) = ReviewConfirmed(z) THEN {Len(events) + 1} ELSE {}
    BY <2>2, ConfirmedAfter DEF TypeInv
  <2>4. ConfirmedWith(t)' = ConfirmedWith(t) \cup {Len(events) + 1}
    BY <2>3
  <2>5. \A z : z # t => ConfirmedWith(z)' = ConfirmedWith(z)
    BY <1>4, <2>3
  <2> QED BY <2>1, <2>2, <2>4, <2>5
<1>13. ASSUME NEW p \in Procs, NEW t \in Tickets, RedeemTicket(p, t)
       PROVE  /\ Same /\ UNCHANGED slips
              /\ \A z \in Tickets : tickets[z] = "used" => tickets'[z] = "used"
  BY <1>1, <1>13 DEF RedeemTicket, TypeInv, TablesOK
<1> DEFINE Used == \A t \in Tickets : tickets[t] = "used" => tickets'[t] = "used"
           ByTicket(t) == \/ ConfirmedWith(t)' = ConfirmedWith(t)
                          \/ \E p \in Procs : /\ Confirm(p) /\ proc[p].ticket = t
                                /\ ConfirmedWith(t)' = ConfirmedWith(t) \cup {Len(events) + 1}
           BySlip(s) == \/ /\ ConfirmedWith(s)' = ConfirmedWith(s)
                           /\ slips'[s].state = "used" <=> slips[s].state = "used"
                        \/ /\ slips[s].state = "open" /\ slips'[s].state = "used"
                           /\ ConfirmedWith(s)' = ConfirmedWith(s) \cup {Len(events) + 1}
<1>14. ASSUME /\ \A x \in Tickets \cup Slips : ConfirmedWith(x)' = ConfirmedWith(x)
              /\ \A s \in Slips : slips'[s].state = "used" <=> slips[s].state = "used"
              /\ Used
       PROVE  Used /\ (\A t \in Tickets : ByTicket(t)) /\ \A s \in Slips : BySlip(s)
  BY <1>14
<1>15. ASSUME NEW p \in Procs, Approve(p), ~ UNCHANGED database
       PROVE  Used /\ (\A t \in Tickets : ByTicket(t)) /\ \A s \in Slips : BySlip(s)
  BY <1>3, <1>11, <1>15
<1>16. ASSUME NEW p \in Procs, Confirm(p)
       PROVE  Used /\ (\A t \in Tickets : ByTicket(t)) /\ \A s \in Slips : BySlip(s)
  <2>1. proc[p].ticket \in Tickets
    BY <1>16 DEF Confirm, ConfirmInv
  <2> QED BY <1>3, <1>12, <1>16, <2>1
<1>17. UNCHANGED database => UNCHANGED <<tickets, slips>>
  BY DEF database
<1> DEFINE Right == Used /\ (\A t \in Tickets : ByTicket(t)) /\ \A s \in Slips : BySlip(s)
           Same2 == \A x \in Tickets \cup Slips : ConfirmedWith(x)' = ConfirmedWith(x)
           Kept == \A s \in Slips : slips'[s].state = "used" <=> slips[s].state = "used"
<1>18. Same => Same2
  OBVIOUS
<1>19. (UNCHANGED tickets => Used) /\ (UNCHANGED slips => Kept)
  OBVIOUS
<1>20. Same2 /\ Kept /\ Used => Right
  BY <1>14
<1>21. CASE UNCHANGED database
  BY <1>5, <1>21
<1>25. ASSUME NEW p \in Procs, \/ SaveCheckpoint(p) \/ StoreSlip(p)
                               \/ \E t \in Tickets : RedeemTicket(p, t)
       PROVE  Right
  <2>1. CASE SaveCheckpoint(p)
    BY <1>9, <1>19, <1>20, <1>21, <2>1
  <2>2. CASE StoreSlip(p)
    BY <1>10, <1>18, <1>19, <1>20, <2>2
  <2>3. CASE \E t \in Tickets : RedeemTicket(p, t)
    BY <1>13, <1>18, <1>19, <1>20, <2>3
  <2> QED BY <1>25, <2>1, <2>2, <2>3
<1>26. ASSUME NEW p \in Procs, Approve(p) \/ Confirm(p)
       PROVE  Right
  <2>1. CASE Approve(p)
    BY <1>15, <1>21, <2>1
  <2>2. CASE Confirm(p)
    BY <1>16, <2>2
  <2> QED BY <1>26, <2>1, <2>2
<1> QED BY <1>5, <1>6, <1>7, <1>8, <1>25, <1>26, StepWrites

\* Where a statement leads to, whatever else it does.
LEMMA StepGoes ==
    ASSUME TypeInv, NEW p \in Procs, Step(p)
    PROVE  LET x == proc[p]
               y == proc'[p]
           IN
           \/ BeginWithChain(p) \/ BeginWithLog(p) \/ BeginRestore(p)
           \/ (\E s \in Slips : BeginApprove(p, s)) \/ (\E t \in Tickets : RedeemTicket(p, t))
           \/ FinishRestore(p)
           \/ Ends(y)
           \/ \E l \in {"head", "rows", "log", "close", "chain", "source", "list", "start",
                        "handed", "bind log", "bind chain", "store slip", "redeem"} :
                 Goes(x, y, l)
<1> DEFINE x == proc[p]
           y == proc'[p]
           Stops == Ends(y)
           Moves == \E l \in {"head", "rows", "log", "close", "chain", "source", "list", "start",
                              "handed", "bind log", "bind chain", "store slip", "redeem"} :
                       Goes(x, y, l)
<1>1. y = Idle => Stops
  BY DEF Idle, Ends
<1>2. \A d : Decides(x, y, d) => Stops \/ Moves
  BY <1>1 DEF Decides
<1>3. ReadHead(p) \/ ReadLog(p) \/ ReadRows(p) => Stops \/ Moves
  <2>1. ReadHead(p) => y = Idle \/ Goes(x, y, "rows") \/ Goes(x, y, "log") \/ Decides(x, y, Abort)
    BY MiddleMoves
  <2>2. ReadLog(p) => y = Idle \/ Goes(x, y, "rows") \/ Goes(x, y, "close")
    BY MiddleMoves
  <2>3. ReadRows(p) => y = Idle \/ Goes(x, y, "log") \/ \E d : Decides(x, y, d)
    BY MiddleMoves
  <2> HIDE DEF x, y
  <2> QED BY <1>1, <1>2, <2>1, <2>2, <2>3
<1>4. ReadChain(p) \/ ReadSource(p) \/ ListUncertain(p) \/ StartHandoff(p)
        \/ BindLog(p) \/ BindChain(p) => Stops \/ Moves
  <2>1. ReadChain(p) => Goes(x, y, "head")
    BY MiddleMoves
  <2>2. ListUncertain(p) => Stops \/ Goes(x, y, "start")
    BY MiddleMoves
  <2>3. (ReadSource(p) => Goes(x, y, "chain")) /\ (StartHandoff(p) => Goes(x, y, "handed"))
    BY MiddleMoves
  <2>4. BindLog(p) => Goes(x, y, "bind chain")
    BY MiddleMoves
  <2>5. BindChain(p) => y = Idle \/ Goes(x, y, "store slip") \/ Goes(x, y, "redeem")
    BY MiddleMoves
  <2> HIDE DEF x, y
  <2> QED BY <1>1, <2>1, <2>2, <2>3, <2>4, <2>5
<1>5. Close(p) \/ SaveCheckpoint(p) \/ CompleteHandoff(p) \/ StoreSlip(p) \/ Approve(p)
        \/ Confirm(p) \/ Crash(p) => Stops
  BY <1>1, LastMoves
<1> HIDE DEF Stops, Moves
<1>6. \/ BeginWithChain(p) \/ BeginWithLog(p) \/ BeginRestore(p)
      \/ (\E s \in Slips : BeginApprove(p, s)) \/ (\E t \in Tickets : RedeemTicket(p, t))
      \/ FinishRestore(p) \/ Stops \/ Moves
  BY <1>3, <1>4, <1>5, Zenon DEF Step
<1> QED BY <1>6 DEF Stops, Moves

\* Only the redemption of a ticket leaves a confirmation to append.
LEMMA AppendOrigin ==
    ASSUME TypeInv, NEW p \in Procs, Step(p), proc'[p].pc = "append"
    PROVE  \E t \in Tickets : RedeemTicket(p, t) /\ proc'[p].ticket = t
<1>1. BeginWithChain(p) \/ BeginWithLog(p) \/ BeginRestore(p) \/ FinishRestore(p)
        \/ (\E s \in Slips : BeginApprove(p, s)) => proc'[p].pc # "append"
  BY FirstMoves, MiddleMoves DEF Opens
<1>2. \E t \in Tickets : RedeemTicket(p, t)
  BY <1>1, StepGoes DEF Goes, Ends
<1> QED BY <1>2, FirstMoves

\* Every step keeps the tickets in order.
LEMMA ConfirmStep ==
    ASSUME TypeInv, ApprovalInv, ConfirmInv, Next
    PROVE  ConfirmInv'
<1> DEFINE Slip(s) == IF slips[s].state = "used" THEN \E i : ConfirmedWith(s) = {i}
                                                 ELSE ConfirmedWith(s) = {}
           Ticket(t) == \/ ConfirmedWith(t) = {}
                        \/ tickets[t] = "used" /\ \E i : ConfirmedWith(t) = {i}
           Claim(p) == /\ proc[p].ticket \in Tickets /\ tickets[proc[p].ticket] = "used"
                       /\ ConfirmedWith(proc[p].ticket) = {}
                       /\ \A q \in Procs :
                             At(q, "append") /\ proc[q].ticket = proc[p].ticket => q = p
<1>1. \A s \in Slips : Slip(s)'
  <2> SUFFICES ASSUME NEW s \in Slips PROVE Slip(s)'
    OBVIOUS
  <2>1. Slip(s)
    BY DEF ConfirmInv
  <2>2. CASE /\ ConfirmedWith(s)' = ConfirmedWith(s)
             /\ slips'[s].state = "used" <=> slips[s].state = "used"
    BY <2>1, <2>2
  <2>3. CASE /\ slips[s].state = "open" /\ slips'[s].state = "used"
             /\ ConfirmedWith(s)' = ConfirmedWith(s) \cup {Len(events) + 1}
    <3>1. ConfirmedWith(s) = {}
      BY <2>1, <2>3
    <3>2. ConfirmedWith(s)' = {Len(events) + 1}
      BY <2>3, <3>1
    <3> QED BY <2>3, <3>2
  <2> QED BY <2>2, <2>3, StepConfirms
<1>2. \A t \in Tickets : Ticket(t)'
  <2> SUFFICES ASSUME NEW t \in Tickets PROVE Ticket(t)'
    OBVIOUS
  <2>1. Ticket(t) /\ (tickets[t] = "used" => tickets'[t] = "used")
    BY StepConfirms DEF ConfirmInv
  <2>2. CASE ConfirmedWith(t)' = ConfirmedWith(t)
    BY <2>1, <2>2
  <2>3. CASE \E p \in Procs : /\ Confirm(p) /\ proc[p].ticket = t
                              /\ ConfirmedWith(t)' = ConfirmedWith(t) \cup {Len(events) + 1}
    <3>1. tickets[t] = "used" /\ ConfirmedWith(t) = {}
      BY <2>3 DEF Confirm, ConfirmInv
    <3>2. ConfirmedWith(t)' = {Len(events) + 1}
      BY <2>3, <3>1
    <3> QED BY <2>1, <3>1, <3>2
  <2> QED BY <2>2, <2>3, StepConfirms
<1>3. ASSUME NEW p \in Procs, proc'[p] = proc[p], At(p, "append"),
             \A q \in Procs : proc'[q] = proc[q] \/ Step(q)
      PROVE  Claim(p)'
  <2>1. PICK t \in Tickets : t = proc[p].ticket
    BY <1>3 DEF ConfirmInv
  <2>2. /\ tickets[t] = "used" /\ ConfirmedWith(t) = {}
        /\ \A q \in Procs : At(q, "append") /\ proc[q].ticket = t => q = p
    BY <1>3, <2>1 DEF ConfirmInv
  <2>3. tickets'[t] = "used"
    BY <2>2, StepConfirms
  <2>4. ASSUME NEW q \in Procs, Confirm(q), proc[q].ticket = t PROVE FALSE
    <3>1. q = p
      BY <2>2, <2>4 DEF Confirm
    <3>2. proc'[p] = Idle
      BY <2>4, <3>1, LastMoves
    <3> QED BY <1>3, <3>2 DEF Idle, At
  <2>5. ConfirmedWith(t)' = {}
    BY <2>2, <2>4, StepConfirms
  <2>6. ASSUME NEW q \in Procs, proc'[q].pc = "append", proc'[q].ticket = t PROVE q = p
    <3>1. CASE proc'[q] = proc[q]
      BY <2>2, <2>6, <3>1 DEF At
    <3>2. CASE Step(q)
      BY <2>2, <2>6, <3>2, AppendOrigin DEF RedeemTicket, Redeemable
    <3> QED BY <1>3, <3>1, <3>2
  <2>7. proc'[p].ticket = t
    BY <1>3, <2>1
  <2> QED BY <2>3, <2>5, <2>6, <2>7 DEF At, ConfirmedWith
<1>4. ASSUME NEW p \in Procs, Step(p), proc'[p].pc = "append",
             \A q \in Procs : q # p => proc'[q] = proc[q]
      PROVE  Claim(p)'
  <2>1. PICK t \in Tickets : RedeemTicket(p, t) /\ proc'[p].ticket = t
    BY <1>4, AppendOrigin
  <2>2. /\ tickets[t] = "open" /\ tickets'[t] = "used" /\ UNCHANGED events
    BY <2>1 DEF RedeemTicket, Redeemable, TypeInv, TablesOK
  <2>3. ConfirmedWith(t)' = {}
    BY <2>2 DEF ConfirmInv, ConfirmedWith
  <2>4. ASSUME NEW q \in Procs, proc'[q].pc = "append", proc'[q].ticket = t, q # p PROVE FALSE
    BY <1>4, <2>2, <2>4 DEF At, ConfirmInv
  <2> QED BY <2>1, <2>2, <2>3, <2>4 DEF At, ConfirmedWith
<1>5. ASSUME NEW p \in Procs, At(p, "append")'
      PROVE  Claim(p)'
  <2>1. CASE UNCHANGED proc
    BY <1>3, <1>5, <2>1 DEF At
  <2>2. CASE \E r \in Procs : /\ Step(r)
                              /\ \A q \in Procs : q # r => proc'[q] = proc[q]
    <3>1. PICK r \in Procs : Step(r) /\ \A q \in Procs : q # r => proc'[q] = proc[q]
      BY <2>2
    <3>2. CASE r = p
      BY <1>4, <1>5, <3>1, <3>2 DEF At
    <3>3. CASE r # p
      <4>1. proc'[p] = proc[p] /\ At(p, "append")
        BY <1>5, <3>1, <3>3 DEF At
      <4>2. \A q \in Procs : proc'[q] = proc[q] \/ Step(q)
        BY <3>1
      <4> HIDE DEF Claim
      <4> QED BY <1>3, <4>1, <4>2
    <3> QED BY <3>2, <3>3
  <2> QED BY <2>1, <2>2, StepMoves
<1> QED BY <1>1, <1>2, <1>5 DEF ConfirmInv

\* A ticket confirms once, by any number of processes and writers that redeem it at
\* the same time or die half way: an approval ticket is used exactly when its
\* confirmation is in the chain, and no confirmation is there before its ticket is used.
THEOREM ConfirmationsAreBacked == Spec => []ConfirmationsBacked
<1>1. Init => ConfirmInv
  <2> SUFFICES ASSUME Init PROVE ConfirmInv
    OBVIOUS
  <2>1. \A t : ConfirmedWith(t) = {}
    BY DEF Init, ConfirmedWith, MissionStarted, ReviewConfirmed
  <2>2. \A s \in Slips : slips[s].state # "used"
    BY DEF Init
  <2>3. \A p \in Procs : ~ At(p, "append")
    BY DEF Init, At, Idle
  <2> QED BY <2>1, <2>2, <2>3 DEF ConfirmInv
<1>2. TypeInv /\ ApprovalInv /\ ConfirmInv /\ [Next]_vars => ConfirmInv'
  <2> SUFFICES ASSUME TypeInv, ApprovalInv, ConfirmInv, [Next]_vars PROVE ConfirmInv'
    OBVIOUS
  <2>1. CASE UNCHANGED vars
    BY <2>1 DEF vars, database, ConfirmInv, ConfirmedWith, At
  <2> QED BY <2>1, ConfirmStep
<1>3. ConfirmInv => ConfirmationsBacked
  <2> SUFFICES ASSUME ConfirmInv PROVE ConfirmationsBacked
    OBVIOUS
  <2>1. Cardinality({}) = 0 /\ \A i : Cardinality({i}) = 1
    BY FS_EmptySet, FS_Singleton
  <2>2. \A s \in Slips : Cardinality(ConfirmedWith(s)) = IF slips[s].state = "used" THEN 1 ELSE 0
    BY <2>1 DEF ConfirmInv
  <2>3. \A t \in Tickets : Cardinality(ConfirmedWith(t)) <= IF tickets[t] = "used" THEN 1 ELSE 0
    <3> SUFFICES ASSUME NEW t \in Tickets
                 PROVE  Cardinality(ConfirmedWith(t)) <= IF tickets[t] = "used" THEN 1 ELSE 0
      OBVIOUS
    <3>1. \/ Cardinality(ConfirmedWith(t)) = 0
          \/ tickets[t] = "used" /\ Cardinality(ConfirmedWith(t)) = 1
      BY <2>1 DEF ConfirmInv
    <3> QED BY <3>1
  <2> QED BY <2>2, <2>3 DEF ConfirmationsBacked
<1> QED BY <1>1, <1>2, <1>3, StoreTypeCorrect, ApprovalsInOrder, PTL DEF Spec

-----------------------------------------------------------------------------
(* Checkpoints                                                               *)

SavedAt(n) == {i \in 1..Len(events) : events[i] = CheckpointCreated(n)}

\* Every checkpoint replays and has the one event of its transaction, and the other
\* way round.
CheckpointInv ==
    /\ \A c \in checkpoints : c.completed = Completed(Prefix(c.sequence))
    /\ \A c \in checkpoints : \E i : SavedAt(c.sequence) = {i}
    /\ \A c, d \in checkpoints : c.sequence = d.sequence => c = d
    /\ \A i \in 1..Len(events) : events[i].type = "CHECKPOINT_CREATED" =>
          \E c \in checkpoints : c.sequence = events[i].source /\ c.sequence < i

\* Only checkpoint writes checkpoints and appends their events.
LEMMA StepSaves ==
    ASSUME TypeInv, Next
    PROVE  \/ /\ UNCHANGED checkpoints
              /\ \/ UNCHANGED events
                 \/ \E e : InsertEvent(e) /\ e.type # "CHECKPOINT_CREATED"
           \/ \E p \in Procs : SaveCheckpoint(p) /\ ~ UNCHANGED database
<1> DEFINE Other == /\ UNCHANGED checkpoints
                    /\ \/ UNCHANGED events
                       \/ \E e : InsertEvent(e) /\ e.type # "CHECKPOINT_CREATED"
<1>1. UNCHANGED database => Other
  BY DEF database
<1>2. CASE \E e : Plain(e) /\ InsertEvent(e) /\ UNCHANGED <<rows, checkpoints, tickets, slips>>
  BY <1>2 DEF Plain
<1>3. CASE \E a \in Actions : ClaimAction(a) \/ SettleAction(a)
  BY <1>3 DEF ClaimAction, SettleAction, ActionStarted, ActionSettled
<1>4. CASE \E t \in Tickets : IssueConfirmTicket(t)
  BY <1>4 DEF IssueConfirmTicket
<1>5. ASSUME NEW p \in Procs, \/ StoreSlip(p) \/ Approve(p) \/ Confirm(p)
                              \/ \E t \in Tickets : RedeemTicket(p, t)
      PROVE  Other
  <2>1. (StoreSlip(p) \/ \E t \in Tickets : RedeemTicket(p, t)) => Other
    BY DEF StoreSlip, RedeemTicket
  <2>2. Confirm(p) => Other
    BY DEF Confirm, AppendOnly, ReviewConfirmed
  <2>3. Approve(p) => Other
    BY <1>1 DEF Approve, Refuse, ReviewConfirmed
  <2> QED BY <1>5, <2>1, <2>2, <2>3
<1> QED BY <1>1, <1>2, <1>3, <1>4, <1>5, StepWrites

\* Every step keeps the checkpoints in order, and keeps the checkpoints.
LEMMA CheckpointStep ==
    ASSUME TypeInv, CheckpointInv, Next
    PROVE  CheckpointInv' /\ checkpoints \subseteq checkpoints'
<1> DEFINE n == Len(events)
<1>1. n \in Nat /\ IsLog(events) /\ Extends(events, events')
  BY ChainGrows, LogShape DEF TypeInv, ChainOK
<1>2. \A c \in checkpoints : c.sequence \in 0..n /\ c.sequence < n
  BY StoreConstantsOK, <1>1 DEF TypeInv, TablesOK
<1>3. \A m \in 0..n : Prefix(m)' = Prefix(m)
  BY <1>1, PrefixStays DEF Prefix
<1>4. ASSUME NEW e, InsertEvent(e)
      PROVE  /\ Len(events') = n + 1 /\ events'[n + 1] = e
             /\ \A i \in 1..n : events'[i] = events[i]
             /\ \A m : SavedAt(m)' =
                   SavedAt(m) \cup IF e = CheckpointCreated(m) THEN {n + 1} ELSE {}
  BY <1>1, <1>4, AppendLog, PositionsAppend DEF InsertEvent, Extends, SavedAt
<1>5. CASE UNCHANGED checkpoints /\ UNCHANGED events
  BY <1>5 DEF CheckpointInv, Prefix, SavedAt
<1>6. ASSUME NEW e, InsertEvent(e), e.type # "CHECKPOINT_CREATED", UNCHANGED checkpoints
      PROVE  CheckpointInv' /\ checkpoints \subseteq checkpoints'
  <2>1. \A m : SavedAt(m)' = SavedAt(m)
    <3>1. \A m : e # CheckpointCreated(m)
      BY <1>6 DEF CheckpointCreated
    <3>2. \A m : SavedAt(m)' = SavedAt(m) \cup IF e = CheckpointCreated(m) THEN {n + 1} ELSE {}
      BY <1>4, <1>6
    <3> HIDE DEF n
    <3> QED BY <3>1, <3>2
  <2>2. \A i \in 1..n + 1 : i \in 1..n \/ i = n + 1
    BY <1>1
  <2>3. \A i \in 1..Len(events') : events'[i].type = "CHECKPOINT_CREATED" =>
            i \in 1..n /\ events'[i] = events[i]
    BY <1>4, <1>6, <2>2
  <2>4. \A c \in checkpoints : Prefix(c.sequence)' = Prefix(c.sequence)
    BY <1>2, <1>3
  <2> QED BY <1>6, <2>1, <2>3, <2>4 DEF CheckpointInv
<1>7. ASSUME NEW p \in Procs, SaveCheckpoint(p), ~ UNCHANGED database
      PROVE  CheckpointInv' /\ checkpoints \subseteq checkpoints'
  <2>1. PICK m : m = proc[p].log
    OBVIOUS
  <2>2. /\ \A c \in checkpoints : c.sequence # m
        /\ checkpoints' = checkpoints \cup {CheckpointRow(m)}
        /\ InsertEvent(CheckpointCreated(m)) /\ At(p, "save")
    BY <1>7, <2>1 DEF SaveCheckpoint, Refuse, CheckpointRow
  <2>3. m \in 0..n /\ m < n + 1
    <3>1. ProcOK(proc[p], n)
      BY DEF TypeInv, ProcsOK
    <3> HIDE DEF n
    <3> QED BY <1>1, <2>1, <3>1, StoreConstantsOK DEF ProcOK, Within, Processes
  <2>4. PICK row : row = CheckpointRow(m) /\ row.sequence = m /\ row.completed = Completed(Prefix(m))
    <3>1. CheckpointRow(m).sequence = m /\ CheckpointRow(m).completed = Completed(Prefix(m))
      BY DEF CheckpointRow
    <3> QED BY <3>1
  <2>5. \A k : CheckpointCreated(k) = CheckpointCreated(m) => k = m
    BY DEF CheckpointCreated
  <2>6. /\ Len(events') = n + 1 /\ events'[n + 1] = CheckpointCreated(m)
        /\ \A i \in 1..n : events'[i] = events[i]
    BY <1>4, <2>2
  <2>7. SavedAt(m) = {}
    BY <2>2 DEF CheckpointInv, SavedAt, CheckpointCreated
  <2>8. \E i : SavedAt(m)' = {i}
    <3>1. SavedAt(m)' = SavedAt(m) \cup {n + 1}
      BY <1>4, <2>2
    <3> QED BY <2>7, <3>1
  <2>9. \A k : k # m => SavedAt(k)' = SavedAt(k)
    BY <1>4, <2>2, <2>5
  <2>10. \A c \in checkpoints' : c.completed = Completed(Prefix(c.sequence))'
    <3>1. \A c \in checkpoints : c.completed = Completed(Prefix(c.sequence)')
      BY <1>2, <1>3 DEF CheckpointInv
    <3>2. row.completed = Completed(Prefix(row.sequence)')
      BY <1>3, <2>3, <2>4
    <3> QED BY <2>2, <2>4, <3>1, <3>2 DEF Completed
  <2>11. \A c \in checkpoints' : \E i : SavedAt(c.sequence)' = {i}
    <3>1. \A c \in checkpoints : \E i : SavedAt(c.sequence)' = {i}
      BY <2>2, <2>9 DEF CheckpointInv
    <3> QED BY <2>2, <2>4, <2>8, <3>1
  <2>12. \A c, d \in checkpoints' : c.sequence = d.sequence => c = d
    BY <2>2, <2>4 DEF CheckpointInv
  <2>13. \A i \in 1..Len(events') : events'[i].type = "CHECKPOINT_CREATED" =>
            \E c \in checkpoints' : c.sequence = events'[i].source /\ c.sequence < i
    <3>1. ASSUME NEW i \in 1..n, events'[i].type = "CHECKPOINT_CREATED"
          PROVE  \E c \in checkpoints' : c.sequence = events'[i].source /\ c.sequence < i
      BY <2>2, <2>6, <3>1 DEF CheckpointInv
    <3>2. row.sequence = events'[n + 1].source /\ row.sequence < n + 1 /\ row \in checkpoints'
      BY <2>2, <2>3, <2>4, <2>6 DEF CheckpointCreated
    <3>3. \A i \in 1..n + 1 : i \in 1..n \/ i = n + 1
      BY <1>1
    <3> QED BY <2>6, <3>1, <3>2, <3>3
  <2> QED BY <2>2, <2>10, <2>11, <2>12, <2>13 DEF CheckpointInv
<1> HIDE DEF n
<1> QED BY <1>5, <1>6, <1>7, StepSaves

\* Checkpoints are in order in every state.
LEMMA CheckpointsInOrder == Spec => []CheckpointInv
<1>1. Init => CheckpointInv
  BY DEF Init, CheckpointInv, MissionStarted
<1>2. TypeInv /\ CheckpointInv /\ [Next]_vars => CheckpointInv'
  <2> SUFFICES ASSUME TypeInv, CheckpointInv, [Next]_vars PROVE CheckpointInv'
    OBVIOUS
  <2>1. CASE UNCHANGED vars
    BY <2>1 DEF vars, database, CheckpointInv, Prefix, SavedAt
  <2> QED BY <2>1, CheckpointStep
<1> QED BY <1>1, <1>2, StoreTypeCorrect, PTL DEF Spec

\* However the chain grows between the projection of a state and the transaction that
\* saves it, every checkpoint is the projection of exactly the events up to its
\* sequence, and the chain holds its event once.
THEOREM CheckpointsReplayed == Spec => []CheckpointsReplay
<1>1. CheckpointInv => CheckpointsReplay
  <2> SUFFICES ASSUME CheckpointInv PROVE CheckpointsReplay
    OBVIOUS
  <2>1. \A c \in checkpoints : Cardinality(SavedAt(c.sequence)) = 1
    BY FS_Singleton DEF CheckpointInv
  <2> QED BY <2>1 DEF CheckpointInv, CheckpointsReplay, SavedAt
<1> QED BY <1>1, CheckpointsInOrder, PTL

\* A restore in progress holds the sequence of a checkpoint; what it returned is one.
RestoreOK(r) ==
    /\ r.pc = "replay" => \E c \in checkpoints : c.sequence = r.start
    /\ r.restored # NotRestored =>
          /\ \E c \in checkpoints : /\ c.sequence = r.restored.sequence
                                    /\ c.completed = r.restored.completed
          /\ r.restored.replayed > 0

RestoreInv == \A p \in Procs : RestoreOK(proc[p])

\* No statement breaks a restore.
LEMMA RestoreMoves ==
    ASSUME TypeInv, CheckpointInv, RestoreInv, NEW p \in Procs, Step(p)
    PROVE  RestoreOK(proc'[p])
<1> DEFINE x == proc[p]
           y == proc'[p]
<1>1. CASE BeginRestore(p)
  <2>1. y.restored = NotRestored /\ \E c \in checkpoints : y.start = c.sequence
    BY <1>1, FirstMoves DEF Opens
  <2> HIDE DEF x, y
  <2>2. RestoreOK(y)
    BY <2>1 DEF RestoreOK
  <2> QED BY <2>2 DEF y
<1>2. CASE \/ BeginWithChain(p) \/ BeginWithLog(p)
           \/ (\E s \in Slips : BeginApprove(p, s)) \/ (\E t \in Tickets : RedeemTicket(p, t))
  BY <1>2, FirstMoves DEF Opens, RestoreOK
<1>3. CASE FinishRestore(p)
  <2>1. PICK c \in checkpoints : c.sequence = x.start
    BY <1>3 DEF FinishRestore, At, RestoreInv, RestoreOK
  <2>2. c.sequence \in Nat /\ Len(events) \in Nat /\ c.sequence < Len(events)
        /\ c.completed = Completed(Prefix(c.sequence))
    BY StoreConstantsOK DEF TypeInv, TablesOK, ChainOK, CheckpointInv
  <2>3. y.pc = "idle" /\ y.restored = Restored(x.start, AsOf(x.start), Len(events) - x.start)
    BY <1>3, MiddleMoves
  <2> HIDE DEF x, y
  <2>4. /\ y.restored.sequence = c.sequence /\ y.restored.completed = c.completed
        /\ y.restored.replayed = Len(events) - c.sequence
    BY <2>1, <2>2, <2>3 DEF Restored, AsOf
  <2>5. RestoreOK(y)
    BY <2>2, <2>3, <2>4 DEF RestoreOK
  <2> QED BY <2>5 DEF y
<1>4. CASE Ends(y)
  BY <1>4 DEF RestoreOK, Ends
<1>5. CASE \E l \in {"head", "rows", "log", "close", "chain", "source", "list", "start",
                     "handed", "bind log", "bind chain", "store slip", "redeem"} : Goes(x, y, l)
  BY <1>5 DEF Goes, RestoreInv, RestoreOK
<1> QED BY <1>1, <1>2, <1>3, <1>4, <1>5, StepGoes

\* What restore returns as the state of a checkpoint is what was saved, however the
\* chain has grown since its row was read, and there is something to replay after it.
THEOREM RestoresWhatWasSaved == Spec => []RestoredAsSaved
<1>1. Init => RestoreInv
  BY DEF Init, RestoreInv, RestoreOK, Idle
<1>2. TypeInv /\ CheckpointInv /\ RestoreInv /\ [Next]_vars => RestoreInv'
  <2> SUFFICES ASSUME TypeInv, CheckpointInv, RestoreInv, [Next]_vars PROVE RestoreInv'
    OBVIOUS
  <2>1. CASE UNCHANGED vars
    BY <2>1 DEF vars, database, RestoreInv, RestoreOK
  <2>2. CASE Next
    <3>1. \A r : RestoreOK(r) => RestoreOK(r)'
      BY <2>2, CheckpointStep DEF RestoreOK
    <3>2. \A q \in Procs : proc'[q] = proc[q] \/ Step(q)
      BY <2>2, StepMoves
    <3>3. \A q \in Procs : RestoreOK(proc'[q])
      BY <3>2, RestoreMoves DEF RestoreInv
    <3> QED BY <3>1, <3>3 DEF RestoreInv, RestoreOK
  <2> QED BY <2>1, <2>2
<1>3. RestoreInv => RestoredAsSaved
  BY DEF RestoreInv, RestoreOK, RestoredAsSaved
<1> QED BY <1>1, <1>2, <1>3, StoreTypeCorrect, CheckpointsInOrder, PTL DEF Spec

-----------------------------------------------------------------------------
(* Dangers                                                                   *)

\* An answer that is not an alarm is one of recover's, from the rows as they are and
\* the log as it was.
LEMMA StepAnswers ==
    ASSUME TypeInv, NEW p \in Procs, Step(p)
    PROVE  LET x == proc[p]
               y == proc'[p]
               d == Recovered(Prefix(x.log), Uncertain, FALSE, FALSE)
           IN
           /\ y.pc = "idle" /\ y.decision \notin {Undecided, Abort} =>
                ReadRows(p) /\ x.op = "recover" /\ y.decision = d
           /\ y.pc = "list" /\ y.advice.mode \in SafeModes =>
                ReadRows(p) /\ x.op \in {"briefing", "handoff"} /\ y.advice = d
           /\ y.pc = "rows" /\ y.op \in Watched => ReadLog(p) /\ y.log = Len(events)
<1> DEFINE x == proc[p]
           y == proc'[p]
           d == Recovered(Prefix(x.log), Uncertain, FALSE, FALSE)
           Answers ==
              /\ y.pc = "idle" /\ y.decision \notin {Undecided, Abort} =>
                   ReadRows(p) /\ x.op = "recover" /\ y.decision = d
              /\ y.pc = "list" /\ y.advice.mode \in SafeModes =>
                   ReadRows(p) /\ x.op \in {"briefing", "handoff"} /\ y.advice = d
              /\ y.pc = "rows" /\ y.op \in Watched => ReadLog(p) /\ y.log = Len(events)
<1> SUFFICES Answers
  OBVIOUS
<1>1. /\ Undecided.mode \notin SafeModes /\ Abort.mode \notin SafeModes
      /\ Idle.pc = "idle" /\ Idle.decision = Undecided
  BY DEF Undecided, Abort, Decision, SafeModes, Idle
<1>2. y = Idle \/ (y.pc = "idle" /\ y.decision = Undecided) => Answers
  <2> HIDE DEF x, d
  <2> QED BY <1>1
<1>3. \A l : Goes(x, y, l) /\ l \notin {"idle", "list", "rows"} => Answers
  <2> HIDE DEF x, d
  <2> QED BY DEF Goes
<1> HIDE DEF x, y, d
<1>4. CASE \/ BeginWithChain(p) \/ BeginWithLog(p) \/ BeginRestore(p)
           \/ (\E s \in Slips : BeginApprove(p, s)) \/ (\E t \in Tickets : RedeemTicket(p, t))
  <2>1. y.pc \in {"head", "save", "chain", "replay", "bind log", "append"}
    BY <1>4, FirstOpens DEF y
  <2> QED BY <2>1
<1>5. CASE ReadHead(p)
  <2>1. \/ y = Idle
        \/ Goes(x, y, IF x.op = "close" THEN "rows" ELSE "log")
        \/ Decides(x, y, Abort)
    BY <1>5, MiddleMoves DEF x, y
  <2>2. CASE Goes(x, y, IF x.op = "close" THEN "rows" ELSE "log")
    BY <2>2 DEF Goes, Watched
  <2>3. CASE Decides(x, y, Abort)
    BY <1>1, <1>2, <2>3 DEF Decides, Goes, Ends
  <2> QED BY <1>2, <2>1, <2>2, <2>3
<1>6. CASE ReadLog(p)
  <2>1. \/ y = Idle
        \/ Goes(x, y, IF x.op = "close" THEN "close" ELSE "rows") /\ y.log = Len(events)
    BY <1>6, MiddleMoves DEF x, y
  <2>2. CASE Goes(x, y, IF x.op = "close" THEN "close" ELSE "rows") /\ y.log = Len(events)
    BY <1>6, <2>2 DEF Goes
  <2> QED BY <1>2, <2>1, <2>2
<1>7. CASE ReadRows(p)
  <2>1. y = Idle \/ Goes(x, y, "log") \/ Decides(x, y, d)
    BY <1>7, MiddleMoves DEF x, y, d
  <2>2. CASE Decides(x, y, d)
    BY <1>1, <1>2, <1>7, <2>2 DEF Decides, Goes, Ends
  <2> QED BY <1>2, <1>3, <2>1, <2>2
<1>8. CASE \/ ReadChain(p) \/ ReadSource(p) \/ StartHandoff(p) \/ BindLog(p) \/ BindChain(p)
           \/ ListUncertain(p) \/ FinishRestore(p)
  <2>1. (ReadChain(p) => Goes(x, y, "head")) /\ (ReadSource(p) => Goes(x, y, "chain"))
    BY MiddleMoves DEF x, y
  <2>2. (StartHandoff(p) => Goes(x, y, "handed")) /\ (BindLog(p) => Goes(x, y, "bind chain"))
    BY MiddleMoves DEF x, y
  <2>3. BindChain(p) => y = Idle \/ Goes(x, y, "store slip") \/ Goes(x, y, "redeem")
    BY MiddleMoves DEF x, y
  <2>4. ListUncertain(p) =>
           (y.pc = "idle" /\ y.decision = Undecided) \/ Goes(x, y, "start")
    BY MiddleMoves DEF x, y, Ends
  <2>5. FinishRestore(p) => y.pc = "idle" /\ y.decision = Undecided
    BY MiddleMoves DEF y
  <2> HIDE DEF Answers
  <2> QED BY <1>2, <1>3, <1>8, <2>1, <2>2, <2>3, <2>4, <2>5
<1>9. CASE Close(p) \/ SaveCheckpoint(p) \/ CompleteHandoff(p) \/ StoreSlip(p) \/ Approve(p)
             \/ Confirm(p) \/ Crash(p)
  BY <1>2, <1>9, LastMoves DEF y
<1> HIDE DEF Answers
<1> QED BY <1>4, <1>5, <1>6, <1>7, <1>8, <1>9, Zenon DEF Step

\* What is kept of the dangers: within an operation that goes on, those that are
\* still there; nothing is ever added but at the beginning.
LEMMA WatchKeeps ==
    ASSUME Next, NEW p \in Procs
    PROVE  /\ proc'[p] = proc[p] /\ At(p, "idle") => lasting'[p] = lasting[p]
           /\ ~ (proc'[p] = proc[p] /\ At(p, "idle")) => lasting'[p] \subseteq Dangers'
           /\ ~ At(p, "idle") /\ ~ At(p, "source") => lasting'[p] \subseteq lasting[p]
<1> DEFINE D == Dangers'
           l == lasting'[p]
<1> HIDE DEF D
<1>1. l = CASE Rests(p) -> lasting[p]
            [] BeginsToRecover(p) -> D
            [] Recovers(p) /\ ~BeginsToRecover(p) -> lasting[p] \cap D
            [] OTHER -> {}
  BY DEF Next, Watch, D
<1>2. Rests(p) => ~ BeginsToRecover(p) /\ ~ Recovers(p)
  BY DEF Rests, BeginsToRecover, Recovers
<1> HIDE DEF l
<1>3. Rests(p) => l = lasting[p]
  BY <1>1, <1>2
<1>4. ~ Rests(p) => (l = D /\ BeginsToRecover(p)) \/ l = lasting[p] \cap D \/ l = {}
  BY <1>1
<1>5. ~ Rests(p) => l \subseteq D
  BY <1>4
<1>6. ~ At(p, "idle") /\ ~ At(p, "source") => l \subseteq lasting[p]
  <2>1. ~ At(p, "idle") /\ ~ At(p, "source") => ~ BeginsToRecover(p) /\ ~ Rests(p)
    BY DEF BeginsToRecover, Rests
  <2> QED BY <1>4, <2>1
<1> QED BY <1>3, <1>5, <1>6 DEF Rests, l, D

\* A recovery that has read its log has read of the lack of a confirmation that lasts,
\* and an answer that reassures was given when nothing lasted.
LastingOK(r, l) ==
    /\ r.pc # "idle" => l \subseteq Dangers
    /\ r.pc = "rows" /\ r.op \in Watched /\ "unconfirmed" \in l => ~ Vouched(Prefix(r.log))
    /\ r.pc = "idle" /\ r.decision.mode \in SafeModes => l = {}
    /\ r.pc = "idle" /\ r.decision \notin {Undecided, Abort} =>
          r.decision.mode = "reconcile" \/ l \cap Actions = {}
    /\ r.pc = "list" /\ r.advice.mode \in SafeModes => l = {}

LastingInv == \A p \in Procs : LastingOK(proc[p], lasting[p])

\* The whole chain is a prefix of itself.
LEMMA WholePrefix == ChainOK => Prefix(Len(events)) = events
BY DEF ChainOK, IsLog, Prefix

\* Only the lists of a briefing and of a handoff are read at that point.
LEMMA ListingSteps ==
    ASSUME NEW p \in Procs, Step(p), At(p, "list")
    PROVE  ListUncertain(p) \/ Crash(p)
<1>1. ~ (BeginWithChain(p) \/ BeginWithLog(p) \/ BeginRestore(p)
         \/ (\E s \in Slips : BeginApprove(p, s)) \/ (\E t \in Tickets : RedeemTicket(p, t)))
  BY DEF BeginWithChain, BeginWithLog, BeginRestore, BeginApprove, RedeemTicket, Begins, At
<1>2. ~ (ReadChain(p) \/ ReadHead(p) \/ ReadLog(p) \/ ReadRows(p))
  BY DEF ReadChain, ReadHead, ReadLog, ReadRows, At
<1>3. ~ (Close(p) \/ SaveCheckpoint(p) \/ FinishRestore(p) \/ ReadSource(p)
         \/ StartHandoff(p) \/ CompleteHandoff(p))
  BY DEF Close, SaveCheckpoint, FinishRestore, ReadSource, StartHandoff, CompleteHandoff, At
<1>4. ~ (BindLog(p) \/ BindChain(p) \/ StoreSlip(p) \/ Approve(p) \/ Confirm(p))
  BY DEF BindLog, BindChain, StoreSlip, Approve, Confirm, At
<1> QED BY <1>1, <1>2, <1>3, <1>4, Zenon DEF Step

\* A process that does nothing, and one that takes a step, keep their dangers.
LEMMA LastingStep ==
    ASSUME TypeInv, LastingInv, Next
    PROVE  LastingInv'
<1> SUFFICES ASSUME NEW p \in Procs PROVE LastingOK(proc[p], lasting[p])'
  BY DEF LastingInv
<1> DEFINE x == proc[p]
           y == proc'[p]
           l == lasting[p]
           m == lasting'[p]
           n == Len(events)
           Read(k) == SubSeq(events', 1, k)
<1> SUFFICES /\ y.pc # "idle" => m \subseteq Dangers'
             /\ y.pc = "rows" /\ y.op \in Watched /\ "unconfirmed" \in m =>
                  ~ Vouched(Read(y.log))
             /\ y.pc = "idle" /\ y.decision.mode \in SafeModes => m = {}
             /\ y.pc = "idle" /\ y.decision \notin {Undecided, Abort} =>
                   y.decision.mode = "reconcile" \/ m \cap Actions = {}
             /\ y.pc = "list" /\ y.advice.mode \in SafeModes => m = {}
  BY DEF LastingOK, Prefix, Vouched
<1>1. LastingOK(x, l) /\ Idle.pc = "idle"
  BY DEF LastingInv, Idle
<1>2. y.pc # "idle" => m \subseteq Dangers'
  <2>1. ~ (y = x /\ At(p, "idle")) => m \subseteq Dangers'
    BY WatchKeeps
  <2> QED BY <2>1 DEF At
<1>3. \A k \in 0..n : Read(k) = Prefix(k)
  BY ChainGrows, PrefixStays DEF Prefix, TypeInv
<1>4. CASE y = x
  <2>1. x.log \in 0..n
    BY StoreConstantsOK DEF TypeInv, ProcsOK, ProcOK, Within, Processes, ChainOK
  <2>2. Read(y.log) = Prefix(x.log)
    BY <1>3, <1>4, <2>1
  <2>3. (At(p, "idle") => m = l) /\ (~ At(p, "idle") /\ ~ At(p, "source") => m \subseteq l)
    BY <1>4, WatchKeeps
  <2> HIDE DEF x, y, l, m
  <2>4. y.pc = "rows" => m \subseteq l
    BY <1>4, <2>3 DEF At, x
  <2>5. y.pc = "idle" => m = l
    BY <1>4, <2>3 DEF At, x
  <2>6. y.pc = "list" => m \subseteq l
    BY <1>4, <2>3 DEF At, x
  <2> QED BY <1>1, <1>2, <1>4, <2>2, <2>4, <2>5, <2>6 DEF LastingOK
<1>5. CASE Step(p)
  <2> DEFINE d == Recovered(Prefix(x.log), Uncertain, FALSE, FALSE)
  <2>1. ASSUME ReadRows(p), x.op \in Watched, d.mode \in SafeModes PROVE m = {}
    <3>1. At(p, "rows") /\ UNCHANGED <<database, expired>>
      BY <2>1, ReadsChangeNothing DEF ReadRows, Reads
    <3>2. rows = {} /\ Vouched(Prefix(x.log))
      <4>1. rows # {} => d = Decision("reconcile", "reconcile")
        BY ReadDecides
      <4>2. ~ Vouched(Prefix(x.log)) => d.mode \notin SafeModes
        BY ReadDecides
      <4>3. Decision("reconcile", "reconcile").mode \notin SafeModes
        BY DEF Decision, SafeModes
      <4> HIDE DEF d, x
      <4> QED BY <2>1, <4>1, <4>2, <4>3
    <3>3. "unconfirmed" \notin l
      BY <1>1, <2>1, <3>1, <3>2 DEF LastingOK, At
    <3>4. Dangers' \subseteq {"unconfirmed"}
      BY <3>1, <3>2 DEF Dangers, database
    <3>5. m \subseteq l /\ m \subseteq Dangers'
      BY <3>1, WatchKeeps DEF At
    <3> QED BY <3>3, <3>4, <3>5
  <2>2. ASSUME ReadLog(p), y.log = n, "unconfirmed" \in m, y.pc = "rows"
        PROVE  ~ Vouched(Read(y.log))
    <3>1. UNCHANGED <<database, expired>>
      BY <2>2, ReadsChangeNothing DEF Reads
    <3>2. "unconfirmed" \in Dangers /\ "unconfirmed" \notin rows
      BY <1>2, <2>2, <3>1, StoreConstantsOK DEF Dangers, database, TypeInv, TablesOK
    <3>3. ~ Vouched(events)
      BY <3>2 DEF Dangers
    <3>4. Prefix(n) = events
      BY WholePrefix DEF TypeInv
    <3>5. Read(y.log) = events
      BY <2>2, <3>1, <3>4 DEF database, Prefix
    <3> QED BY <3>3, <3>5
  <2>3. y.pc = "idle" /\ y.decision.mode \in SafeModes => m = {}
    <3>1. Undecided.mode \notin SafeModes /\ Abort.mode \notin SafeModes
      BY DEF Undecided, Abort, Decision, SafeModes
    <3> QED BY <1>5, <2>1, <3>1, StepAnswers DEF Watched
  <2>6. ASSUME ReadRows(p), d.mode # "reconcile" PROVE m \cap Actions = {}
    <3>1. At(p, "rows") /\ UNCHANGED <<database, expired>>
      BY <2>6, ReadsChangeNothing DEF ReadRows, Reads
    <3>2. rows = {}
      <4>1. rows # {} => d = Decision("reconcile", "reconcile")
        BY ReadDecides
      <4> HIDE DEF d
      <4> QED BY <2>6, <4>1 DEF Decision
    <3>3. Dangers' \subseteq {"unconfirmed"}
      BY <3>1, <3>2 DEF Dangers, database
    <3>4. m \subseteq Dangers'
      BY <3>1, WatchKeeps DEF At
    <3> QED BY <3>3, <3>4, StoreConstantsOK
  <2>7. y.pc = "idle" /\ y.decision \notin {Undecided, Abort} =>
           y.decision.mode = "reconcile" \/ m \cap Actions = {}
    BY <1>5, <2>6, StepAnswers
  <2>4. y.pc = "list" /\ y.advice.mode \in SafeModes => m = {}
    BY <1>5, <2>1, StepAnswers DEF Watched
  <2>5. y.pc = "rows" /\ y.op \in Watched /\ "unconfirmed" \in m => ~ Vouched(Read(y.log))
    BY <1>5, <2>2, StepAnswers
  <2> QED BY <1>2, <2>3, <2>4, <2>5, <2>7
<1> QED BY <1>4, <1>5, StepMoves

\* Dangers are kept in order in every state.
LEMMA LastingInOrder == Spec => []LastingInv
<1>1. Init => LastingInv
  BY DEF Init, LastingInv, LastingOK, Idle
<1>2. TypeInv /\ LastingInv /\ [Next]_vars => LastingInv'
  <2> SUFFICES ASSUME TypeInv, LastingInv, [Next]_vars PROVE LastingInv'
    OBVIOUS
  <2>1. CASE UNCHANGED vars
    BY <2>1 DEF vars, database, LastingInv, LastingOK, Dangers, Prefix
  <2> QED BY <2>1, LastingStep
<1> QED BY <1>1, <1>2, StoreTypeCorrect, PTL DEF Spec

\* A danger that stands throughout a recovery is never overlooked by its verdict,
\* whatever is written between its reads, by any number of processes.
THEOREM VerdictsSeeLastingDanger == Spec => []VerdictSeesLastingDanger
<1>1. LastingInv => VerdictSeesLastingDanger
  BY DEF LastingInv, LastingOK, VerdictSeesLastingDanger
<1> QED BY <1>1, LastingInOrder, PTL

\* What a briefing tells its receiver, alone or inside a handoff: an effect that is
\* uncertain throughout is listed, and no danger that lasts throughout goes with safe
\* advice.
THEOREM BriefingsShowLastingDanger == Spec => BriefingShowsLastingDanger
<1>1. TypeInv /\ LastingInv /\ [Next]_vars =>
        [\A p \in Procs : At(p, "list") /\ proc'[p] # proc[p] /\ proc'[p] # Idle =>
          /\ lasting[p] \cap rows \subseteq proc'[p].listed
          /\ proc'[p].advice.mode \in SafeModes => lasting[p] \cap Dangers = {}
        ]_vars
  <2> SUFFICES ASSUME TypeInv, LastingInv, Next, NEW p \in Procs,
                      At(p, "list"), proc'[p] # proc[p], proc'[p] # Idle
               PROVE  /\ lasting[p] \cap rows \subseteq proc'[p].listed
                      /\ proc'[p].advice.mode \in SafeModes => lasting[p] \cap Dangers = {}
    OBVIOUS
  <2>1. Step(p)
    BY StepMoves
  <2>2. ListUncertain(p)
    BY <2>1, ListingSteps, LastMoves
  <2>3. proc'[p].listed = rows /\ proc'[p].advice = proc[p].advice
    BY <2>2, MiddleMoves DEF Keeps
  <2>4. proc[p].advice.mode \in SafeModes => lasting[p] = {}
    BY DEF LastingInv, LastingOK, At
  <2> QED BY <2>3, <2>4
<1> QED BY <1>1, StoreTypeCorrect, LastingInOrder, PTL DEF Spec, BriefingShowsLastingDanger

-----------------------------------------------------------------------------
(* Rows and chain                                                            *)

RowsInv == rows = Unsettled(events)

\* The rows of the ledger that are started are the actions the chain leaves open.
LEMMA RowsInOrder == Spec => []RowsInv
<1>1. Init => RowsInv
  BY DEF Init, RowsInv, Unsettled, MissionStarted, ActionStarted
<1>2. TypeInv /\ RowsInv /\ [Next]_vars => RowsInv'
  <2> SUFFICES ASSUME TypeInv, RowsInv, [Next]_vars PROVE RowsInv'
    OBVIOUS
  <2>1. IsLog(events) /\ rows \subseteq Actions
    BY DEF TypeInv, ChainOK, TablesOK
  <2>2. \A s : Unsettled(s) \subseteq Actions
    BY DEF Unsettled
  <2>3. CASE UNCHANGED <<rows, events>>
    BY <2>3 DEF RowsInv, Unsettled
  <2>4. ASSUME NEW e, InsertEvent(e)
        PROVE  \A a \in Actions : a \in Unsettled(events)' <=>
                  e = ActionStarted(a) \/ (a \in rows /\ e # ActionSettled(a))
    <3>1. events' = Append(events, e)
      BY <2>4 DEF InsertEvent
    <3>2. Unsettled(events)' = Unsettled(Append(events, e))
      BY <3>1 DEF Unsettled
    <3> QED BY <2>1, <3>2, UnsettledAppend DEF RowsInv
  <2>5. ASSUME NEW e, InsertEvent(e), e.type \notin {"ACTION_STARTED", "ACTION_SETTLED"},
               UNCHANGED rows
        PROVE  RowsInv'
    <3>1. \A a \in Actions : e # ActionStarted(a) /\ e # ActionSettled(a)
      BY <2>5 DEF ActionStarted, ActionSettled
    <3>2. Unsettled(events)' \subseteq Actions
      BY DEF Unsettled
    <3> QED BY <2>1, <2>4, <2>5, <3>1, <3>2 DEF RowsInv
  <2>6. ASSUME NEW a \in Actions, ClaimAction(a)
        PROVE  RowsInv'
    <3>1. InsertEvent(ActionStarted(a)) /\ rows' = rows \cup {a}
      BY <2>6 DEF ClaimAction
    <3>2. \A b \in Actions : /\ ActionStarted(a) = ActionStarted(b) <=> a = b
                             /\ ActionStarted(a) # ActionSettled(b)
      BY DEF ActionStarted, ActionSettled
    <3>3. Unsettled(events)' \subseteq Actions
      BY DEF Unsettled
    <3> QED BY <2>1, <2>4, <3>1, <3>2, <3>3 DEF RowsInv
  <2>7. ASSUME NEW a \in Actions, SettleAction(a)
        PROVE  RowsInv'
    <3>1. InsertEvent(ActionSettled(a)) /\ rows' = rows \ {a}
      BY <2>7 DEF SettleAction
    <3>2. \A b \in Actions : /\ ActionSettled(a) = ActionSettled(b) <=> a = b
                             /\ ActionSettled(a) # ActionStarted(b)
      BY DEF ActionStarted, ActionSettled
    <3>3. Unsettled(events)' \subseteq Actions
      BY DEF Unsettled
    <3> QED BY <2>1, <2>4, <3>1, <3>2, <3>3 DEF RowsInv
  <2>8. CASE UNCHANGED vars \/ UNCHANGED database
    BY <2>3, <2>8 DEF vars, database
  <2>9. CASE \E e : Plain(e) /\ InsertEvent(e) /\ UNCHANGED <<rows, checkpoints, tickets, slips>>
    BY <2>5, <2>9 DEF Plain
  <2>10. CASE \E t \in Tickets : IssueConfirmTicket(t)
    BY <2>3, <2>10 DEF IssueConfirmTicket
  <2>11. ASSUME NEW p \in Procs, SaveCheckpoint(p) \/ Approve(p) \/ Confirm(p)
         PROVE  RowsInv'
    <3>1. SaveCheckpoint(p) => UNCHANGED database \/ (UNCHANGED rows /\ \E n : InsertEvent(CheckpointCreated(n)))
      BY DEF SaveCheckpoint, Refuse
    <3>2. Approve(p) \/ Confirm(p) =>
             UNCHANGED database \/ (UNCHANGED rows /\ \E t : InsertEvent(ReviewConfirmed(t)))
      BY DEF Approve, Confirm, AppendOnly, Refuse
    <3>3. \A n, t : /\ CheckpointCreated(n).type \notin {"ACTION_STARTED", "ACTION_SETTLED"}
                    /\ ReviewConfirmed(t).type \notin {"ACTION_STARTED", "ACTION_SETTLED"}
      BY DEF CheckpointCreated, ReviewConfirmed
    <3> QED BY <2>5, <2>8, <2>11, <3>1, <3>2, <3>3
  <2>12. ASSUME NEW p \in Procs, StoreSlip(p) \/ \E t \in Tickets : RedeemTicket(p, t)
         PROVE  RowsInv'
    BY <2>3, <2>12 DEF StoreSlip, RedeemTicket
  <2> HIDE DEF RowsInv
  <2> QED BY <2>6, <2>7, <2>8, <2>9, <2>10, <2>11, <2>12, StepWrites
<1> QED BY <1>1, <1>2, StoreTypeCorrect, PTL DEF Spec

-----------------------------------------------------------------------------
(* The moments a verdict is about                                            *)

\* What an operation holds as decided it held before, or recover just returned.
LEMMA StepDecides ==
    ASSUME TypeInv, NEW p \in Procs, Step(p)
    PROVE  LET x == proc[p]
               y == proc'[p]
           IN
           \/ y.decision \in {Undecided, Abort}
           \/ y.decision = x.decision /\ y.base = x.base
           \/ /\ ReadRows(p) /\ x.op \in Watched /\ y.base = x.base
              /\ y.decision = Recovered(Prefix(x.log), Uncertain, FALSE, FALSE)
<1> DEFINE x == proc[p]
           y == proc'[p]
           d == Recovered(Prefix(x.log), Uncertain, FALSE, FALSE)
           Kept == y.decision = x.decision /\ y.base = x.base
           New == ReadRows(p) /\ x.op \in Watched /\ y.base = x.base /\ y.decision = d
           Held == y.decision \in {Undecided, Abort} \/ Kept \/ New
<1> SUFFICES Held
  OBVIOUS
<1>1. y = Idle => y.decision = Undecided
  BY DEF Idle
<1>2. \A l : Goes(x, y, l) /\ Keeps(x, y) => Kept
  <2> HIDE DEF x, y
  <2> QED BY DEF Goes, Keeps
<1> HIDE DEF x, y, d
<1>3. CASE \/ BeginWithChain(p) \/ BeginWithLog(p) \/ BeginRestore(p)
           \/ (\E s \in Slips : BeginApprove(p, s)) \/ (\E t \in Tickets : RedeemTicket(p, t))
  BY <1>3, FirstOpens DEF y
<1>4. CASE ReadHead(p)
  <2>1. \/ y = Idle
        \/ Goes(x, y, IF x.op = "close" THEN "rows" ELSE "log") /\ Keeps(x, y)
        \/ Decides(x, y, Abort)
    BY <1>4, MiddleMoves DEF x, y
  <2>2. Decides(x, y, Abort) => y = Idle \/ y.decision = Abort \/ Kept
    BY DEF Decides, Goes, Keeps
  <2> QED BY <1>1, <1>2, <2>1, <2>2
<1>5. CASE ReadRows(p)
  <2>1. y = Idle \/ (Goes(x, y, "log") /\ Keeps(x, y)) \/ Decides(x, y, d)
    BY <1>5, MiddleMoves DEF x, y, d
  <2>2. Decides(x, y, d) => y = Idle \/ New \/ Kept
    BY <1>5 DEF Decides, Goes, Keeps, Watched
  <2> QED BY <1>1, <1>2, <2>1, <2>2
<1>6. CASE \/ ReadChain(p) \/ ReadSource(p) \/ BindLog(p) \/ ReadLog(p) \/ BindChain(p)
  <2>1. y = Idle \/ \E l : Goes(x, y, l) /\ Keeps(x, y)
    BY <1>6, MiddleMoves DEF x, y
  <2> QED BY <1>1, <1>2, <2>1
<1>7. CASE ListUncertain(p) \/ StartHandoff(p) \/ FinishRestore(p)
  <2>1. y.decision = Undecided \/ \E l : Goes(x, y, l) /\ y.decision = x.decision
    BY <1>7, MiddleMoves DEF x, y, Keeps
  <2> QED BY <2>1 DEF Goes
<1>8. CASE Close(p) \/ SaveCheckpoint(p) \/ CompleteHandoff(p) \/ StoreSlip(p) \/ Approve(p)
             \/ Confirm(p) \/ Crash(p)
  BY <1>1, <1>8, LastMoves DEF y
<1> HIDE DEF Held
<1> QED BY <1>3, <1>4, <1>5, <1>6, <1>7, <1>8, Zenon DEF Step

\* The README's decision on the log of one moment and the effects of a later one.
Judged(d, s, first) ==
    \E m, n \in first..Len(s) :
        /\ m <= n
        /\ d = Precedence(SubSeq(s, 1, m), Unsettled(SubSeq(s, 1, n)), FALSE, FALSE)

\* A recovery that has read its log read it since it began, and what it decided is
\* the README's decision on two moments since then.
MomentsOK(r, s) ==
    /\ r.pc = "rows" /\ r.op \in Watched => r.base <= r.log
    /\ r.decision \notin {Undecided, Abort} => Judged(r.decision, s, r.base)

MomentsInv == \A p \in Procs : MomentsOK(proc[p], events)

\* A decision rests on the same moments however the chain grows.
LEMMA JudgedStays ==
    ASSUME NEW s, NEW t, Extends(s, t), NEW d, NEW first \in Nat, Judged(d, s, first)
    PROVE  Judged(d, t, first)
<1>1. Len(s) \in Nat /\ Len(t) \in Nat /\ Len(s) <= Len(t)
  BY LogShape DEF Extends
<1>2. PICK m \in first..Len(s), n \in first..Len(s) :
        /\ m <= n
        /\ d = Precedence(SubSeq(s, 1, m), Unsettled(SubSeq(s, 1, n)), FALSE, FALSE)
  BY DEF Judged
<1>3. SubSeq(t, 1, m) = SubSeq(s, 1, m) /\ SubSeq(t, 1, n) = SubSeq(s, 1, n)
  BY <1>1, PrefixStays
<1>4. m \in first..Len(t) /\ n \in first..Len(t)
  BY <1>1
<1> QED BY <1>2, <1>3, <1>4 DEF Judged

\* What recover decides is the README's decision on the log it read, and on the
\* effects unsettled now.
LEMMA RecoverJudges ==
    ASSUME TypeInv, RowsInv, NEW p \in Procs, proc[p].base <= proc[p].log
    PROVE  Judged(Recovered(Prefix(proc[p].log), Uncertain, FALSE, FALSE),
                  events, proc[p].base)
<1> DEFINE m == proc[p].log
           n == Len(events)
<1>1. /\ n \in Nat /\ proc[p].base \in 0..n /\ m \in 0..n
      /\ m \in proc[p].base..n /\ n \in proc[p].base..n
  BY StoreConstantsOK DEF TypeInv, ChainOK, ProcsOK, ProcOK, Within, Processes
<1>2. Uncertain = Unsettled(SubSeq(events, 1, n))
  BY WholePrefix DEF TypeInv, RowsInv, Uncertain, Prefix
<1>3. IsLog(SubSeq(events, 1, m))
  BY <1>1, PrefixLog DEF TypeInv, ChainOK
<1>4. Recovered(Prefix(m), Uncertain, FALSE, FALSE)
         = Precedence(SubSeq(events, 1, m), Unsettled(SubSeq(events, 1, n)), FALSE, FALSE)
  BY <1>2, <1>3, RecoveredByPrecedence DEF Prefix
<1>5. m <= n
  BY <1>1
<1> HIDE DEF m, n
<1> QED BY <1>1, <1>4, <1>5 DEF Judged, m, n

\* A step of an operation keeps its moments in order.
LEMMA MomentsMove ==
    ASSUME TypeInv, RowsInv, MomentsInv, NEW p \in Procs, Step(p), ProcOK(proc'[p], Len(events'))
    PROVE  /\ proc'[p].pc = "rows" /\ proc'[p].op \in Watched => proc'[p].base <= proc'[p].log
           /\ proc'[p].decision \notin {Undecided, Abort} =>
                 Judged(proc'[p].decision, events, proc'[p].base)
<1> DEFINE x == proc[p]
           y == proc'[p]
<1>1. MomentsOK(x, events)
  BY DEF MomentsInv
<1>2. ASSUME y.pc = "rows", y.op \in Watched PROVE y.base <= y.log
  <2>1. ReadLog(p) /\ y.log = Len(events)
    BY <1>2, StepAnswers
  <2>2. events' = events
    BY <2>1, ReadsChangeNothing DEF Reads, database
  <2> QED BY <2>1, <2>2 DEF ProcOK, Within
<1>3. ASSUME y.decision \notin {Undecided, Abort} PROVE Judged(y.decision, events, y.base)
  <2>1. CASE y.decision = x.decision /\ y.base = x.base
    BY <1>1, <1>3, <2>1 DEF MomentsOK
  <2>2. CASE /\ ReadRows(p) /\ x.op \in Watched /\ y.base = x.base
             /\ y.decision = Recovered(Prefix(x.log), Uncertain, FALSE, FALSE)
    <3>1. x.base <= x.log
      BY <1>1, <2>2 DEF MomentsOK, ReadRows, At
    <3> QED BY <2>2, <3>1, RecoverJudges
  <2> QED BY <1>3, <2>1, <2>2, StepDecides
<1> QED BY <1>2, <1>3

\* The moments of every recovery are in order in every state.
LEMMA MomentsInOrder == Spec => []MomentsInv
<1>1. Init => MomentsInv
  BY DEF Init, MomentsInv, MomentsOK, Idle
<1>2. TypeInv /\ RowsInv /\ MomentsInv /\ [Next]_vars => MomentsInv'
  <2> SUFFICES ASSUME TypeInv, RowsInv, MomentsInv, [Next]_vars PROVE MomentsInv'
    OBVIOUS
  <2>1. CASE UNCHANGED vars
    BY <2>1 DEF vars, database, MomentsInv, MomentsOK, Judged
  <2>2. CASE Next
    <3>1. Extends(events, events') /\ ProcsOK'
      BY <2>2, ChainGrows, StepProcs DEF TypeInv
    <3>2. ASSUME NEW q \in Procs, proc'[q] = proc[q]
          PROVE  MomentsOK(proc'[q], events')
      <4>1. proc[q].base \in Nat
        BY StoreConstantsOK DEF TypeInv, ProcsOK, ProcOK, Processes
      <4> QED BY <3>1, <3>2, <4>1, JudgedStays DEF MomentsInv, MomentsOK
    <3>3. ASSUME NEW p \in Procs, Step(p)
          PROVE  MomentsOK(proc'[p], events')
      <4>1. ProcOK(proc'[p], Len(events')) /\ proc'[p].base \in Nat
        BY <3>1, StoreConstantsOK DEF ProcsOK, ProcOK, Processes
      <4> QED BY <3>1, <3>3, <4>1, MomentsMove, JudgedStays DEF MomentsOK
    <3> QED BY <2>2, <3>2, <3>3, StepMoves DEF MomentsInv
  <2> QED BY <2>1, <2>2
<1> QED BY <1>1, <1>2, StoreTypeCorrect, RowsInOrder, PTL DEF Spec

\* Apart from a false alarm, every verdict is the README's precedence applied to the
\* log of one moment of the recovery and to the effects unsettled at a later one, with
\* any number of processes and writers.
THEOREM VerdictsRestOnTwoMoments == Spec => []VerdictRestsOnTwoMoments
<1>1. MomentsInv => VerdictRestsOnTwoMoments
  BY DEF MomentsInv, MomentsOK, Judged, VerdictRestsOnTwoMoments, During, Prefix
<1> QED BY <1>1, MomentsInOrder, PTL

\* The mission is listed under exactly one status, one that it had since the listing
\* came to it, and under blocked if an effect was uncertain all the while; under none
\* only if it was written to meanwhile.
THEOREM ListsFindTheMissions == Spec => []ListsFindTheMission
<1>1. ASSUME TypeInv, MomentsInv, LastingInv, AbortOnlyUnderConcurrentWrite
      PROVE  ListsFindTheMission
  <2> SUFFICES ASSUME NEW p \in Procs, proc[p].pc = "idle", proc[p].decision # Undecided
               PROVE  \/ ListedUnder(p) = {} /\ Len(events) > proc[p].base
                      \/ \E g \in GroupNames :
                            /\ ListedUnder(p) = {g}
                            /\ \E n \in During(p) : Deserves(g, n)
                            /\ lasting[p] \cap Actions # {} => g = "blocked"
                            /\ lasting[p] # {} => g \in {"blocked", "review-required"}
    BY DEF ListsFindTheMission
  <2> DEFINE d == proc[p].decision
             l == lasting[p]
  <2>1. LastingOK(proc[p], l) /\ MomentsOK(proc[p], events)
    BY <1>1 DEF LastingInv, MomentsInv
  <2>2. CASE d = Abort
    <3>1. ListedUnder(p) = {}
      BY <2>2 DEF ListedUnder, Groups, GroupNames, Abort, Decision
    <3> QED BY <1>1, <2>2, <3>1 DEF AbortOnlyUnderConcurrentWrite
  <2>3. CASE d # Abort
    <3>1. PICK m \in During(p), n \in During(p) :
             d = Precedence(Prefix(m), Unsettled(Prefix(n)), FALSE, FALSE)
      BY <2>1, <2>3 DEF MomentsOK, Judged, During, Prefix
    <3>2. CASE Unsettled(Prefix(n)) # {}
      <4>1. d.mode = "reconcile"
        BY <3>1, <3>2 DEF Precedence, Decision
      <4>2. ListedUnder(p) = {"blocked"} /\ Deserves("blocked", n)
        BY <3>2, <4>1 DEF ListedUnder, Groups, GroupNames, Deserves
      <4> QED BY <4>2 DEF GroupNames
    <3>3. CASE Unsettled(Prefix(n)) = {} /\ ~ Vouched(Prefix(m))
      <4>1. d.mode = "request_review"
        BY <3>1, <3>3 DEF Precedence, Decision
      <4>2. ListedUnder(p) = {"review-required"} /\ Deserves("review-required", m)
        BY <3>3, <4>1 DEF ListedUnder, Groups, GroupNames, Deserves
      <4>3. l \cap Actions = {}
        BY <2>1, <2>3, <4>1 DEF LastingOK
      <4> QED BY <4>2, <4>3 DEF GroupNames
    <3>4. CASE Unsettled(Prefix(n)) = {} /\ Vouched(Prefix(m)) /\ IsClosed(Prefix(m))
      <4>1. d.mode = "verified_complete"
        BY <3>1, <3>4 DEF Precedence, Decision
      <4>2. ListedUnder(p) = {"completed"} /\ Deserves("completed", m)
        BY <3>4, <4>1 DEF ListedUnder, Groups, GroupNames, Deserves
      <4>3. l = {}
        BY <2>1, <4>1 DEF LastingOK, SafeModes
      <4> QED BY <4>2, <4>3 DEF GroupNames
    <3>5. CASE Unsettled(Prefix(n)) = {} /\ Vouched(Prefix(m)) /\ ~ IsClosed(Prefix(m))
      <4>1. d.mode = "continue"
        BY <3>1, <3>5 DEF Precedence, Decision
      <4>2. ListedUnder(p) = {"active"} /\ Deserves("active", m)
        BY <3>5, <4>1 DEF ListedUnder, Groups, GroupNames, Deserves
      <4>3. l = {}
        BY <2>1, <4>1 DEF LastingOK, SafeModes
      <4> QED BY <4>2, <4>3 DEF GroupNames
    <3> QED BY <3>2, <3>3, <3>4, <3>5
  <2> QED BY <2>2, <2>3
<1> QED BY <1>1, StoreTypeCorrect, MomentsInOrder, LastingInOrder, NoAlarmWithoutAWrite, PTL

-----------------------------------------------------------------------------
(* Evidence for closures and handoffs                                        *)

\* No effect was unresolved when chain s had k events.
Settled(s, k) == Unsettled(SubSeq(s, 1, k)) = {}

\* What a closure has seen before it looks at the log, and before it closes.
ClosesOn(r, s) ==
    /\ r.pc = "log" /\ r.op = "close" => \E k \in r.base..Len(s) : Settled(s, k)
    /\ r.pc = "close" =>
          /\ r.op = "close"
          /\ \E k \in r.base..r.log : Settled(s, k)
          /\ Vouched(SubSeq(s, 1, r.log)) /\ Proved(SubSeq(s, 1, r.log))
          /\ Cardinality(Completed(SubSeq(s, 1, r.log))) >= Total

\* What a handoff has seen once it has decided, and what it has written when it is
\* about to complete.
HandsOn(r, s) ==
    /\ r.op = "handoff" /\ r.decision # Undecided =>
          /\ r.decision.next \notin {"reconcile", "repair_event_chain"}
          /\ \E k \in r.base..Len(s) : Settled(s, k) /\ (r.pc = "handed" => k <= r.start)
    /\ r.pc = "list" /\ r.op = "handoff" => r.decision # Undecided
    /\ r.pc \in {"start", "handed"} => r.op = "handoff" /\ r.decision # Undecided
    /\ r.pc = "handed" =>
          r.start \in 1..Len(s) /\ \E f, t : s[r.start] = HandoffStarted(f, t)

EvidenceInv == \A p \in Procs : ClosesOn(proc[p], events) /\ HandsOn(proc[p], events)

\* What was seen stays seen.
LEMMA EvidenceStays ==
    ASSUME NEW s, NEW t, Extends(s, t), IsLog(s),
           NEW r \in Processes, Within(r, Len(s)), ClosesOn(r, s), HandsOn(r, s)
    PROVE  ClosesOn(r, t) /\ HandsOn(r, t)
<1>1. /\ Len(s) \in Nat /\ Len(t) \in Nat /\ Len(s) <= Len(t)
      /\ \A i \in 1..Len(s) : t[i] = s[i]
  BY LogShape DEF Extends
<1>2. /\ r.base \in Nat /\ r.log \in Nat /\ r.start \in Nat
      /\ r.log <= Len(s) /\ r.start <= Len(s) /\ r.base <= Len(s)
  BY StoreConstantsOK DEF Processes, Within
<1>3. \A k \in 0..Len(s) : SubSeq(t, 1, k) = SubSeq(s, 1, k) /\ (Settled(t, k) <=> Settled(s, k))
  BY PrefixStays DEF Settled
<1>4. \A k \in r.base..Len(s) : k \in r.base..Len(t) /\ (Settled(t, k) <=> Settled(s, k))
  BY <1>1, <1>2, <1>3
<1>5. ClosesOn(r, t)
  <2>1. SubSeq(t, 1, r.log) = SubSeq(s, 1, r.log)
    BY <1>2, <1>3
  <2>2. \A k \in r.base..r.log : Settled(t, k) <=> Settled(s, k)
    BY <1>1, <1>2, <1>4
  <2> QED BY <1>4, <2>1, <2>2 DEF ClosesOn
<1>6. HandsOn(r, t)
  <2>1. r.start \in 1..Len(s) => r.start \in 1..Len(t) /\ t[r.start] = s[r.start]
    BY <1>1
  <2> QED BY <1>4, <2>1 DEF HandsOn
<1> QED BY <1>5, <1>6

\* A recovery that lets a handoff go on found no effect unresolved, and its advice is
\* neither to reconcile nor to repair the chain.
LEMMA SafeToHandOver ==
    ASSUME TypeInv, NEW p \in Procs
    PROVE  LET d == Recovered(Prefix(proc[p].log), Uncertain, FALSE, FALSE) IN
           d.mode \notin {"reconcile", "abort"} =>
              rows = {} /\ d.next \notin {"reconcile", "repair_event_chain"}
<1> DEFINE d == Recovered(Prefix(proc[p].log), Uncertain, FALSE, FALSE)
<1>1. d \in Verdicts /\ (rows # {} => d = Decision("reconcile", "reconcile"))
  BY ReadDecides
<1>2. \A v \in Verdicts : v.mode \notin {"reconcile", "abort"} =>
          v.next \notin {"reconcile", "repair_event_chain"}
  BY DEF Verdicts, Decision
<1>3. Decision("reconcile", "reconcile").mode = "reconcile"
  BY DEF Decision
<1> HIDE DEF d
<1> QED BY <1>1, <1>2, <1>3 DEF d

\* A log that does not refuse a closure is evidence for it.
LEMMA LogForClosure ==
    ASSUME TypeInv, ~ CloseRefused(events)
    PROVE  /\ Vouched(events) /\ Proved(events)
           /\ Cardinality(Completed(events)) >= Total
<1>1. IsLog(events) /\ Len(events) \in Nat /\ \A i \in 1..Len(events) : EventOK(events[i])
  BY LogShape DEF TypeInv, ChainOK
<1>2. Vouched(events)
  BY <1>1, UnconfirmedIsNotVouched DEF CloseRefused
<1>3. Proved(events)
  BY <1>1, ContractIsProved DEF CloseRefused, EventOK
<1>4. Cardinality(Completed(events)) \in Nat
  <2> DEFINE n == Len(events)
             W == {j \in 1..n : events[j].type = "WORK_COMPLETED"}
             done == {events[i].item : i \in W}
             item == [i \in W |-> events[i].item]
  <2>1. IsFiniteSet(W)
    <3>1. IsFiniteSet(1..n)
      BY <1>1, FS_Interval
    <3> QED BY <3>1, FS_Subset
  <2>2. item \in Surjection(W, done)
    BY DEF Surjection
  <2> HIDE DEF W, done, item
  <2>3. IsFiniteSet(done)
    BY <2>1, <2>2, FS_Surjection
  <2> QED BY <2>3, FS_CardinalityType DEF Completed, done, W
<1>5. Cardinality(Completed(events)) >= Total
  BY <1>4, LogConstantsOK DEF CloseRefused
<1> QED BY <1>2, <1>3, <1>5

\* Every statement of an operation has the evidence that the next ones need.
LEMMA EvidenceMoves ==
    ASSUME TypeInv, RowsInv, EvidenceInv, NEW p \in Procs, Step(p), Next
    PROVE  ClosesOn(proc'[p], events') /\ HandsOn(proc'[p], events')
<1> DEFINE x == proc[p]
           y == proc'[p]
           s == events'
           n == Len(events)
           Good == ClosesOn(y, s) /\ HandsOn(y, s)
<1> SUFFICES Good
  OBVIOUS
<1>1. /\ x \in Processes /\ Within(x, n) /\ IsLog(events) /\ Extends(events, s)
      /\ n \in Nat /\ Len(s) \in Nat /\ n <= Len(s)
  BY ChainGrows, LogShape DEF TypeInv, ChainOK, ProcsOK, ProcOK
<1>2. ClosesOn(x, s) /\ HandsOn(x, s)
  BY <1>1, EvidenceStays DEF EvidenceInv
<1>3. x.base \in Nat /\ x.base <= n
  BY <1>1, StoreConstantsOK DEF Processes, Within
<1>4. Idle.pc = "idle" /\ Idle.op = "none" /\ Idle.decision = Undecided
  BY DEF Idle
<1>5. rows = {} => n \in x.base..n /\ n \in x.base..Len(s) /\ Settled(s, n)
  <2>1. SubSeq(s, 1, n) = events
    BY <1>1, PrefixStays, WholePrefix DEF Prefix, TypeInv
  <2>2. rows = {} => Settled(s, n)
    BY <2>1 DEF RowsInv, Settled
  <2> HIDE DEF s, x, n
  <2>3. n \in x.base..n /\ n \in x.base..Len(s)
    BY <1>1, <1>3
  <2> QED BY <2>2, <2>3
<1> HIDE DEF x, y, s
<1>6. y.pc = "idle" /\ y.op = "none" => Good
  BY DEF ClosesOn, HandsOn
<1>7. \A l : Goes(x, y, l) /\ Keeps(x, y) /\ l \notin {"log", "close", "list", "start", "handed"}
        => Good
  BY <1>2 DEF Goes, Keeps, ClosesOn, HandsOn
<1>8. CASE \/ BeginWithChain(p) \/ BeginWithLog(p) \/ BeginRestore(p)
           \/ (\E z \in Slips : BeginApprove(p, z)) \/ (\E t \in Tickets : RedeemTicket(p, t))
  <2>1. y.pc \in {"head", "save", "chain", "replay", "bind log", "append"} /\ y.decision = Undecided
    BY <1>8, FirstOpens DEF y
  <2> QED BY <2>1 DEF ClosesOn, HandsOn
<1>9. ASSUME NEW d, Decides(x, y, d),
             d.mode \notin {"reconcile", "abort"} =>
                \/ x.op # "handoff"
                \/ rows = {} /\ d.next \notin {"reconcile", "repair_event_chain"}
      PROVE  Good
  <2>1. CASE y = Idle \/ Ends(y)
    BY <1>4, <1>6, <2>1 DEF Ends
  <2>2. CASE /\ x.op = "handoff" /\ d.mode \notin {"reconcile", "abort"}
             /\ Goes(x, y, "source") /\ y.decision = d
    BY <1>5, <1>9, <2>2 DEF Goes, ClosesOn, HandsOn
  <2>3. CASE /\ x.op \in {"briefing", "handoff"} /\ (x.op = "handoff" => x.decision # Undecided)
             /\ Goes(x, y, "list") /\ y.decision = x.decision
    BY <1>2, <2>3 DEF Goes, ClosesOn, HandsOn
  <2>4. CASE Goes(x, y, "bind log") /\ Keeps(x, y)
    BY <1>7, <2>4
  <2> QED BY <1>9, <2>1, <2>2, <2>3, <2>4 DEF Decides
<1>10. CASE ReadHead(p)
  <2>1. \/ y = Idle
        \/ Goes(x, y, IF x.op = "close" THEN "rows" ELSE "log") /\ Keeps(x, y)
        \/ Decides(x, y, Abort)
    BY <1>10, MiddleMoves DEF x, y
  <2>2. Abort.mode = "abort"
    BY DEF Abort, Decision
  <2>3. CASE x.op # "close" /\ Goes(x, y, "log") /\ Keeps(x, y)
    BY <1>2, <2>3 DEF Goes, Keeps, ClosesOn, HandsOn
  <2> QED BY <1>4, <1>6, <1>7, <1>9, <2>1, <2>2, <2>3
<1>11. CASE ReadLog(p)
  <2>1. \/ y = Idle
        \/ /\ Goes(x, y, IF x.op = "close" THEN "close" ELSE "rows") /\ Keeps(x, y)
           /\ y.log = n
           /\ x.op = "close" => ~ CloseRefused(events)
    BY <1>11, MiddleMoves DEF x, y
  <2>2. CASE /\ x.op = "close" /\ Goes(x, y, "close") /\ Keeps(x, y) /\ y.log = n
             /\ ~ CloseRefused(events)
    <3>1. s = events
      BY <1>11, ReadsChangeNothing DEF Reads, database, s
    <3>2. SubSeq(s, 1, n) = s
      BY <3>1, WholePrefix DEF Prefix, TypeInv
    <3>3. /\ Vouched(s) /\ Proved(s) /\ Cardinality(Completed(s)) >= Total
      BY <2>2, <3>1, LogForClosure
    <3>4. \E k \in x.base..n : Settled(s, k)
      <4>1. x.pc = "log"
        BY <1>11 DEF ReadLog, At, x
      <4>2. \E k \in x.base..Len(s) : Settled(s, k)
        BY <1>2, <2>2, <4>1 DEF ClosesOn
      <4> QED BY <3>1, <4>2
    <3>5. ClosesOn(y, s)
      BY <2>2, <3>2, <3>3, <3>4 DEF Goes, ClosesOn
    <3>6. HandsOn(y, s)
      BY <1>2, <2>2 DEF Goes, HandsOn
    <3> QED BY <3>5, <3>6
  <2> QED BY <1>4, <1>6, <1>7, <2>1, <2>2
<1>12. CASE ReadRows(p)
  <2> DEFINE d == Recovered(Prefix(x.log), Uncertain, FALSE, FALSE)
  <2>1. \/ y = Idle
        \/ x.op = "close" /\ rows = {} /\ Goes(x, y, "log") /\ Keeps(x, y)
        \/ Decides(x, y, d)
    BY <1>12, MiddleMoves DEF x, y
  <2>2. d.mode \notin {"reconcile", "abort"} =>
           rows = {} /\ d.next \notin {"reconcile", "repair_event_chain"}
    BY SafeToHandOver DEF x
  <2> HIDE DEF d
  <2>3. CASE x.op = "close" /\ rows = {} /\ Goes(x, y, "log") /\ Keeps(x, y)
    BY <1>5, <2>3 DEF Goes, ClosesOn, HandsOn
  <2> QED BY <1>4, <1>6, <1>9, <2>1, <2>2, <2>3
<1>13. CASE ListUncertain(p)
  <2>1. \/ y.pc = "idle" /\ y.op = "none"
        \/ x.op = "handoff" /\ Goes(x, y, "start") /\ Keeps(x, y)
    BY <1>13, MiddleMoves DEF x, y, Ends
  <2>2. x.pc = "list"
    BY <1>13 DEF ListUncertain, At, x
  <2>3. CASE x.op = "handoff" /\ Goes(x, y, "start") /\ Keeps(x, y)
    BY <1>2, <2>2, <2>3 DEF Goes, Keeps, ClosesOn, HandsOn
  <2> QED BY <1>6, <2>1, <2>3
<1>14. CASE StartHandoff(p)
  <2>1. Goes(x, y, "handed") /\ y.decision = x.decision /\ y.start = n + 1
    BY <1>14, MiddleMoves DEF x, y
  <2>2. PICK f, t : s = Append(events, HandoffStarted(f, t))
    BY <1>14 DEF StartHandoff, AppendOnly, InsertEvent, s
  <2>3. Len(s) = n + 1 /\ s[n + 1] = HandoffStarted(f, t)
    BY <1>1, <2>2, AppendLog
  <2>4. x.pc = "start"
    BY <1>14 DEF StartHandoff, At, x
  <2>5. x.op = "handoff" /\ x.decision # Undecided
    BY <1>2, <2>4 DEF HandsOn
  <2>6. /\ x.decision.next \notin {"reconcile", "repair_event_chain"}
        /\ \E k \in x.base..Len(s) : Settled(s, k)
    BY <1>2, <2>5 DEF HandsOn
  <2>7. \A k \in x.base..Len(s) : k <= n + 1
    BY <1>1, <1>3, <2>3
  <2>8. n + 1 \in 1..Len(s)
    BY <1>1, <2>3
  <2> HIDE DEF n
  <2> QED BY <2>1, <2>3, <2>5, <2>6, <2>7, <2>8 DEF Goes, ClosesOn, HandsOn
<1>15. CASE ReadChain(p) \/ ReadSource(p) \/ BindLog(p) \/ BindChain(p) \/ FinishRestore(p)
  <2>1. ReadChain(p) => Goes(x, y, "head") /\ Keeps(x, y)
    BY MiddleMoves DEF x, y
  <2>2. ReadSource(p) => Goes(x, y, "chain") /\ Keeps(x, y)
    BY MiddleMoves DEF x, y
  <2>3. BindLog(p) => Goes(x, y, "bind chain") /\ Keeps(x, y)
    BY MiddleMoves DEF x, y
  <2>4. BindChain(p) => \/ y = Idle
                        \/ (Goes(x, y, "store slip") \/ Goes(x, y, "redeem")) /\ Keeps(x, y)
    BY MiddleMoves DEF x, y
  <2>5. FinishRestore(p) => y.pc = "idle" /\ y.op = "none"
    BY MiddleMoves DEF y
  <2> HIDE DEF Good
  <2> QED BY <1>4, <1>6, <1>7, <1>15, <2>1, <2>2, <2>3, <2>4, <2>5
<1>16. CASE Close(p) \/ SaveCheckpoint(p) \/ CompleteHandoff(p) \/ StoreSlip(p) \/ Approve(p)
              \/ Confirm(p) \/ Crash(p)
  BY <1>4, <1>6, <1>16, LastMoves DEF y
<1> HIDE DEF Good
<1> QED BY <1>8, <1>10, <1>11, <1>12, <1>13, <1>14, <1>15, <1>16, Zenon DEF Step

\* Operations in progress have their evidence in every state.
LEMMA EvidenceInOrder == Spec => []EvidenceInv
<1>1. Init => EvidenceInv
  BY DEF Init, EvidenceInv, ClosesOn, HandsOn, Idle
<1>2. TypeInv /\ RowsInv /\ EvidenceInv /\ [Next]_vars => EvidenceInv'
  <2> SUFFICES ASSUME TypeInv, RowsInv, EvidenceInv, [Next]_vars PROVE EvidenceInv'
    OBVIOUS
  <2>1. CASE UNCHANGED vars
    BY <2>1 DEF vars, database, EvidenceInv
  <2>2. CASE Next
    <3> SUFFICES ASSUME NEW q \in Procs
                 PROVE  ClosesOn(proc'[q], events') /\ HandsOn(proc'[q], events')
      BY DEF EvidenceInv
    <3>1. CASE Step(q)
      BY <2>2, <3>1, EvidenceMoves
    <3>2. CASE proc'[q] = proc[q]
      <4>1. /\ proc[q] \in Processes /\ Within(proc[q], Len(events))
            /\ IsLog(events) /\ Extends(events, events')
        BY <2>2, ChainGrows DEF TypeInv, ChainOK, ProcsOK, ProcOK
      <4> QED BY <3>2, <4>1, EvidenceStays DEF EvidenceInv
    <3> QED BY <2>2, <3>1, <3>2, StepMoves
  <2> QED BY <2>1, <2>2
<1> QED BY <1>1, <1>2, StoreTypeCorrect, RowsInOrder, PTL DEF Spec

\* Only complete_mission and handoff append the events that end them.
LEMMA WhoEnds ==
    ASSUME TypeInv, Next
    PROVE  /\ Appended("MISSION_COMPLETED") => \E p \in Procs : Close(p)
           /\ Appended("HANDOFF_COMPLETED") => \E p \in Procs : CompleteHandoff(p)
<1> DEFINE Ending == {"MISSION_COMPLETED", "HANDOFF_COMPLETED"}
           Other == \/ UNCHANGED events
                    \/ \E e : InsertEvent(e) /\ e.type \notin Ending
<1>1. Other => ~ Appended("MISSION_COMPLETED") /\ ~ Appended("HANDOFF_COMPLETED")
  <2>1. UNCHANGED events => Len(events') # Len(events) + 1
    BY LogShape DEF TypeInv, ChainOK
  <2>2. ASSUME NEW e, InsertEvent(e) PROVE events'[Len(events')] = e
    BY <2>2, AppendLog DEF InsertEvent, TypeInv, ChainOK
  <2> QED BY <2>1, <2>2 DEF Appended
<1>2. ASSUME NEW p \in Procs, Close(p) PROVE ~ Appended("HANDOFF_COMPLETED")
  <2>1. \E k : events' = Append(events, MissionCompleted(k))
    BY <1>2 DEF Close, AppendOnly, InsertEvent
  <2>2. \A k : MissionCompleted(k).type # "HANDOFF_COMPLETED"
    BY DEF MissionCompleted
  <2> QED BY <2>1, <2>2, AppendLog DEF Appended, TypeInv, ChainOK
<1>3. ASSUME NEW p \in Procs, CompleteHandoff(p) PROVE ~ Appended("MISSION_COMPLETED")
  <2>1. \E f, t, d : events' = Append(events, HandoffCompleted(f, t, d))
    BY <1>3 DEF CompleteHandoff, AppendOnly, InsertEvent
  <2>2. \A f, t, d : HandoffCompleted(f, t, d).type # "MISSION_COMPLETED"
    BY DEF HandoffCompleted
  <2> QED BY <2>1, <2>2, AppendLog DEF Appended, TypeInv, ChainOK
<1>4. CASE Write /\ UNCHANGED proc
  <2>1. /\ \A o, w : WorkCompleted(o, w).type \notin Ending
        /\ \A o, c, ok : EvidenceRecorded(o, c, ok).type \notin Ending
        /\ \A t : ReviewConfirmed(t).type \notin Ending
    BY DEF WorkCompleted, EvidenceRecorded, ReviewConfirmed
  <2>2. \A e : AppendOnly(e) => InsertEvent(e)
    BY DEF AppendOnly
  <2>3. Other
    <3>1. CASE \E w \in Items : \/ AppendOnly(WorkCompleted("EXTERNAL_AGENT", w))
                                \/ AppendOnly(WorkCompleted("DETERMINISTIC", w))
      BY <2>1, <2>2, <3>1
    <3>2. CASE \E o \in Origins, c \in Clauses, ok \in BOOLEAN :
                  AppendOnly(EvidenceRecorded(o, c, ok))
      BY <2>1, <2>2, <3>2
    <3>3. CASE AppendOnly(ReviewConfirmed("operator"))
      BY <2>1, <2>2, <3>3
    <3> HIDE DEF Other
    <3> QED BY <1>4, <3>1, <3>2, <3>3, Zenon DEF Write
  <2> QED BY <1>1, <2>3
<1>5. CASE \/ \E a \in Actions : ClaimAction(a) \/ SettleAction(a)
           \/ \E t \in Tickets : IssueConfirmTicket(t)
           \/ \E z \in Slips : Expire(z)
  <2>1. Other
    <3>1. ASSUME NEW a \in Actions, ClaimAction(a) \/ SettleAction(a) PROVE Other
      BY <3>1 DEF ClaimAction, SettleAction, ActionStarted, ActionSettled
    <3>2. (\E t \in Tickets : IssueConfirmTicket(t)) \/ (\E z \in Slips : Expire(z)) => Other
      BY DEF IssueConfirmTicket, Expire, database
    <3> HIDE DEF Other
    <3> QED BY <1>5, <3>1, <3>2
  <2> QED BY <1>1, <2>1
<1>6. CASE \E p \in Procs : Reads(p)
  BY <1>1, <1>6, ReadsChangeNothing DEF database
<1>7. ASSUME NEW p \in Procs, SaveCheckpoint(p) \/ StartHandoff(p) \/ StoreSlip(p) \/ Approve(p)
                                \/ Confirm(p) \/ \E t \in Tickets : RedeemTicket(p, t)
      PROVE  Other
  <2>1. SaveCheckpoint(p) => Other
    BY DEF SaveCheckpoint, Refuse, database, CheckpointCreated
  <2>2. StartHandoff(p) => Other
    BY DEF StartHandoff, AppendOnly, HandoffStarted
  <2>3. (StoreSlip(p) \/ \E t \in Tickets : RedeemTicket(p, t)) => Other
    BY DEF StoreSlip, RedeemTicket
  <2>4. Approve(p) \/ Confirm(p) => Other
    BY DEF Approve, Refuse, database, Confirm, AppendOnly, ReviewConfirmed
  <2> QED BY <1>7, <2>1, <2>2, <2>3, <2>4
<1> HIDE DEF Other
<1> QED BY <1>1, <1>2, <1>3, <1>4, <1>5, <1>6, <1>7, StepIsOneOf

\* However writers interleave with complete_mission, a mission is closed only on
\* evidence it has had since the closure began: a moment without an unresolved effect,
\* and a later one with its work done, confirmed and proven.
THEOREM ClosuresOnEvidence == Spec => ClosedOnEvidence
<1>1. TypeInv /\ EvidenceInv /\ [Next]_vars =>
        [Appended("MISSION_COMPLETED") =>
          \E p \in Procs : proc[p].pc = "close" /\ \E m, n \in During(p) :
              /\ m <= n
              /\ Unsettled(Prefix(m)) = {}
              /\ Vouched(Prefix(n))
              /\ Cardinality(Completed(Prefix(n))) >= Total
              /\ Proved(Prefix(n))
              /\ events'[Len(events')].completed = Cardinality(Completed(Prefix(n)))
        ]_vars
  <2> SUFFICES ASSUME TypeInv, EvidenceInv, Next, Appended("MISSION_COMPLETED")
               PROVE  \E p \in Procs : proc[p].pc = "close" /\ \E m, n \in During(p) :
                         /\ m <= n
                         /\ Unsettled(Prefix(m)) = {}
                         /\ Vouched(Prefix(n))
                         /\ Cardinality(Completed(Prefix(n))) >= Total
                         /\ Proved(Prefix(n))
                         /\ events'[Len(events')].completed
                              = Cardinality(Completed(Prefix(n)))
    OBVIOUS
  <2>1. PICK p \in Procs : Close(p)
    BY WhoEnds
  <2> DEFINE x == proc[p]
             e == MissionCompleted(Cardinality(Completed(Prefix(x.log))))
  <2>2. x.pc = "close" /\ events' = Append(events, e)
    BY <2>1 DEF Close, At, AppendOnly, InsertEvent
  <2>3. events'[Len(events')] = e
    BY <2>2, AppendLog DEF TypeInv, ChainOK
  <2>4. e.completed = Cardinality(Completed(Prefix(x.log)))
    BY DEF MissionCompleted
  <2>5. /\ \E k \in x.base..x.log : Settled(events, k)
        /\ Vouched(Prefix(x.log)) /\ Proved(Prefix(x.log))
        /\ Cardinality(Completed(Prefix(x.log))) >= Total
    BY <2>2 DEF EvidenceInv, ClosesOn, Prefix
  <2>6. /\ x.base \in Nat /\ x.log \in Nat /\ Len(events) \in Nat /\ x.log <= Len(events)
    BY StoreConstantsOK DEF TypeInv, ProcsOK, ProcOK, Within, Processes, ChainOK
  <2>7. PICK k \in x.base..x.log : Unsettled(Prefix(k)) = {}
    BY <2>5 DEF Settled, Prefix
  <2> HIDE DEF x, e
  <2>8. k \in x.base..Len(events) /\ x.log \in x.base..Len(events) /\ k <= x.log
    BY <2>6, <2>7
  <2> QED BY <2>2, <2>3, <2>4, <2>5, <2>7, <2>8 DEF During, x
<1> QED BY <1>1, StoreTypeCorrect, EvidenceInOrder, PTL DEF Spec, ClosedOnEvidence

\* A handoff is recorded with advice that was safe to pass on, after a moment of its own
\* without an unresolved effect, and closes a start of the same parties.
THEOREM HandoffsOnEvidence == Spec => HandoffOnEvidence
<1>1. TypeInv /\ EvidenceInv /\ [Next]_vars =>
        [Appended("HANDOFF_COMPLETED") =>
          LET e == events'[Len(events')] IN
          /\ e.next \notin {"reconcile", "repair_event_chain"}
          /\ \E p \in Procs : proc[p].pc = "handed" /\ \E m, n \in During(p) :
                /\ Unsettled(Prefix(m)) = {}
                /\ m <= n /\ events[n] = HandoffStarted(e.from, e.to)
        ]_vars
  <2> DEFINE e == events'[Len(events')]
  <2> SUFFICES ASSUME TypeInv, EvidenceInv, Next, Appended("HANDOFF_COMPLETED")
               PROVE  /\ e.next \notin {"reconcile", "repair_event_chain"}
                      /\ \E p \in Procs : proc[p].pc = "handed" /\ \E m, n \in During(p) :
                            /\ Unsettled(Prefix(m)) = {}
                            /\ m <= n /\ events[n] = HandoffStarted(e.from, e.to)
    OBVIOUS
  <2>1. PICK p \in Procs : CompleteHandoff(p)
    BY WhoEnds
  <2> DEFINE x == proc[p]
             first == events[x.start]
             last == HandoffCompleted(first.from, first.to, x.decision.next)
  <2>2. x.pc = "handed" /\ events' = Append(events, last)
    BY <2>1 DEF CompleteHandoff, At, AppendOnly, InsertEvent
  <2>3. e = last
    BY <2>2, AppendLog DEF TypeInv, ChainOK
  <2>4. last.from = first.from /\ last.to = first.to /\ last.next = x.decision.next
    BY DEF HandoffCompleted
  <2>5. HandsOn(x, events)
    BY DEF EvidenceInv
  <2>6. /\ x.decision.next \notin {"reconcile", "repair_event_chain"}
        /\ x.start \in 1..Len(events) /\ \E f, t : first = HandoffStarted(f, t)
        /\ \E k \in x.base..Len(events) : Settled(events, k) /\ k <= x.start
    BY <2>2, <2>5 DEF HandsOn
  <2>7. first = HandoffStarted(first.from, first.to)
    BY <2>6 DEF HandoffStarted
  <2>8. x.base \in Nat /\ Len(events) \in Nat
    BY StoreConstantsOK DEF TypeInv, ProcsOK, ProcOK, Processes, ChainOK
  <2>9. PICK k \in x.base..Len(events) : Unsettled(Prefix(k)) = {} /\ k <= x.start
    BY <2>6 DEF Settled, Prefix
  <2> HIDE DEF last
  <2>10. x.start \in x.base..Len(events)
    <3> HIDE DEF x
    <3> QED BY <2>6, <2>8, <2>9
  <2>11. e.next \notin {"reconcile", "repair_event_chain"}
    BY <2>3, <2>4, <2>6
  <2>12. first = HandoffStarted(e.from, e.to)
    BY <2>3, <2>4, <2>7
  <2> HIDE DEF e
  <2> QED BY <2>2, <2>9, <2>10, <2>11, <2>12 DEF During
<1> QED BY <1>1, StoreTypeCorrect, EvidenceInOrder, PTL DEF Spec, HandoffOnEvidence

-----------------------------------------------------------------------------
(* A discipline that is enough for what the documents say of closed missions *)

\* Nobody claims an action or reports an agent's work while a closure is under way;
\* everything else may interleave with it, other closures included.
Disturbs(e) == e.type = "ACTION_STARTED" \/ IsExternalWork(e)

ClosuresUndisturbed ==
    (\E p \in Procs : Runs(p, "close")) /\ Len(events') > Len(events)
        => ~Disturbs(events'[Len(events')])

\* Then nothing was written since a closure began that could undo what it checks.
Undisturbed(r, s) ==
    r.op = "close" => \A i \in 1..Len(s) : i > r.base => ~Disturbs(s[i])

\* So a closed mission had at its end what complete_mission asks of it.
ClosuresSettled(s) ==
    \A i \in 1..Len(s) : IsClosure(s[i]) => Settled(s, i) /\ Vouched(SubSeq(s, 1, i))

SettledInv == ClosuresSettled(events) /\ \A p \in Procs : Undisturbed(proc[p], events)

\* Whoever is closing was closing before, or has just begun.
LEMMA WhoCloses ==
    ASSUME TypeInv, NEW p \in Procs, Step(p), proc'[p].op = "close"
    PROVE  \/ proc[p].op = "close" /\ proc'[p].base = proc[p].base
           \/ proc'[p].base = Len(events) /\ UNCHANGED events
<1> DEFINE y == proc'[p]
<1>1. CASE \/ BeginWithChain(p) \/ BeginWithLog(p) \/ BeginRestore(p)
           \/ (\E s \in Slips : BeginApprove(p, s))
  <2>1. y.base = Len(events)
    BY <1>1, FirstOpens
  <2>2. UNCHANGED events
    BY <1>1, ReadsChangeNothing DEF Reads, database
  <2> QED BY <2>1, <2>2
<1>2. ASSUME NEW t \in Tickets, RedeemTicket(p, t) PROVE FALSE
  BY <1>2, FirstMoves DEF Opens
<1>3. CASE FinishRestore(p)
  BY <1>3, MiddleMoves
<1>4. CASE Ends(y)
  BY <1>4 DEF Ends
<1>5. CASE \E l : Goes(proc[p], y, l)
  BY <1>5 DEF Goes
<1> QED BY <1>1, <1>2, <1>3, <1>4, <1>5, StepGoes

\* The event that a step appends, under the discipline, disturbs no closure.
LEMMA UndisturbedStays ==
    ASSUME TypeInv, SettledInv, Next, ClosuresUndisturbed, NEW q \in Procs
    PROVE  Undisturbed(proc'[q], events')
<1> DEFINE n == Len(events)
<1> SUFFICES ASSUME proc'[q].op = "close"
             PROVE  \A i \in 1..Len(events') : i > proc'[q].base => ~Disturbs(events'[i])
  BY DEF Undisturbed
<1>1. /\ n \in Nat /\ Len(events') \in n..n + 1
      /\ \A i \in 1..n : events'[i] = events[i]
  BY ChainGrows DEF TypeInv, ChainOK, Extends
<1>2. \/ proc[q].op = "close" /\ proc'[q].base = proc[q].base
      \/ proc'[q].base = n /\ UNCHANGED events
  BY WhoCloses, StepMoves
<1>3. CASE proc[q].op = "close" /\ proc'[q].base = proc[q].base
  <2>1. \A i \in 1..n : i > proc[q].base => ~Disturbs(events[i])
    BY <1>3 DEF SettledInv, Undisturbed
  <2>2. Len(events') = n + 1 => ~Disturbs(events'[n + 1])
    BY <1>1, <1>3 DEF ClosuresUndisturbed, Runs
  <2> HIDE DEF n
  <2>3. \A i \in 1..Len(events') : i \in 1..n \/ (i = n + 1 /\ Len(events') = n + 1)
    BY <1>1
  <2> QED BY <1>1, <1>3, <2>1, <2>2, <2>3
<1>4. CASE proc'[q].base = n /\ UNCHANGED events
  BY <1>1, <1>4
<1> QED BY <1>2, <1>3, <1>4

\* Where nothing was claimed after a moment without an open effect, none is open.
LEMMA SettledStays ==
    ASSUME NEW s, IsLog(s), NEW k \in 0..Len(s), Settled(s, k),
           \A i \in 1..Len(s) : i > k => ~Disturbs(s[i])
    PROVE  Unsettled(s) = {}
<1> DEFINE n == Len(s)
           u == SubSeq(s, 1, k)
<1>1. n \in Nat /\ Len(u) = k /\ \A i \in 1..k : u[i] = s[i]
  BY PrefixLog, LogShape
<1> SUFFICES ASSUME NEW a \in Unsettled(s) PROVE FALSE
  OBVIOUS
<1>2. PICK i \in 1..n : /\ s[i] = ActionStarted(a)
                        /\ \A j \in i + 1..n : s[j] # ActionSettled(a)
  BY DEF Unsettled
<1>3. i <= k
  <2>1. Disturbs(s[i])
    BY <1>2 DEF Disturbs, ActionStarted
  <2> QED BY <1>1, <2>1
<1>4. u[i] = ActionStarted(a) /\ \A j \in i + 1..Len(u) : u[j] # ActionSettled(a)
  BY <1>1, <1>2, <1>3
<1>5. a \in Unsettled(u)
  BY <1>1, <1>3, <1>4 DEF Unsettled
<1> QED BY <1>5 DEF Settled

\* Where no agent reported work after a moment at which all was confirmed, all still is.
LEMMA VouchedStays ==
    ASSUME NEW s, IsLog(s), NEW k \in 0..Len(s), Vouched(SubSeq(s, 1, k)),
           \A i \in 1..Len(s) : i > k => ~Disturbs(s[i])
    PROVE  Vouched(s)
<1> DEFINE n == Len(s)
           u == SubSeq(s, 1, k)
<1>1. n \in Nat /\ Len(u) = k /\ \A i \in 1..k : u[i] = s[i]
  BY PrefixLog, LogShape
<1> SUFFICES ASSUME NEW i \in 1..n, IsExternalWork(s[i])
             PROVE  \E j \in i + 1..n : IsConfirmation(s[j])
  BY DEF Vouched
<1>2. i <= k
  BY <1>1 DEF Disturbs
<1>3. PICK j \in i + 1..k : IsConfirmation(u[j])
  BY <1>1, <1>2 DEF Vouched
<1>4. j \in i + 1..n /\ u[j] = s[j]
  BY <1>1, <1>3
<1> QED BY <1>3, <1>4

\* What holds when a closure has read everything holds when it appends its event.
LEMMA CloseIsSettled ==
    ASSUME TypeInv, EvidenceInv, SettledInv, NEW p \in Procs, Close(p)
    PROVE  Unsettled(events') = {} /\ Vouched(events')
<1> DEFINE x == proc[p]
           n == Len(events)
           s == events'
           e == MissionCompleted(Cardinality(Completed(Prefix(x.log))))
<1>1. x.pc = "close" /\ s = Append(events, e)
  BY DEF Close, At, AppendOnly, InsertEvent
<1>2. /\ x.op = "close" /\ \E k \in x.base..x.log : Settled(events, k)
      /\ Vouched(SubSeq(events, 1, x.log))
  BY <1>1 DEF EvidenceInv, ClosesOn
<1>3. x.base \in Nat /\ x.log \in Nat /\ n \in Nat /\ x.log <= n
  BY StoreConstantsOK DEF TypeInv, ProcsOK, ProcOK, Within, Processes, ChainOK
<1>4. \A i \in 1..n : i > x.base => ~Disturbs(events[i])
  BY <1>2 DEF SettledInv, Undisturbed
<1>5. PICK k \in x.base..x.log : Settled(events, k)
  BY <1>2
<1>6. IsLog(events) /\ Extends(events, s) /\ Len(s) = n + 1 /\ s[n + 1] = e
  BY <1>1, AppendLog DEF TypeInv, ChainOK
<1>7. ~Disturbs(e) /\ \A a : e # ActionSettled(a)
  BY DEF Disturbs, MissionCompleted, IsExternalWork, ActionSettled
<1> HIDE DEF x, n, s, e
<1>8. /\ k \in 0..n /\ x.log \in 0..n /\ k \in 0..n + 1 /\ x.log \in 0..n + 1
      /\ k >= x.base /\ x.log >= x.base
  BY <1>3, <1>5
<1>9. IsLog(s) /\ Settled(s, k) /\ Vouched(SubSeq(s, 1, x.log))
  BY <1>2, <1>5, <1>6, <1>8, PrefixStays DEF Settled, Extends, n
<1>10. \A i \in 1..n + 1 : i > x.base => ~Disturbs(s[i])
  <2>1. \A i \in 1..n : s[i] = events[i]
    BY <1>6 DEF Extends, n
  <2>2. \A i \in 1..n + 1 : i \in 1..n \/ i = n + 1
    BY <1>3
  <2> QED BY <1>4, <1>6, <1>7, <2>1, <2>2
<1>11. \A m \in Nat : m >= x.base => \A i \in 1..n + 1 : i > m => ~Disturbs(s[i])
  BY <1>3, <1>10
<1>12. Unsettled(s) = {}
  BY <1>6, <1>8, <1>9, <1>11, SettledStays
<1>13. Vouched(s)
  BY <1>6, <1>8, <1>9, <1>11, VouchedStays
<1> QED BY <1>12, <1>13 DEF s

\* While no closure is disturbed, a closed mission is what the document says: at its
\* closing event no side effect was unresolved and no agent's work unconfirmed.  The
\* append of complete_mission repeats none of the checks, so this is what its callers
\* have to see to (store.py complete_mission).
THEOREM UndisturbedClosuresAreSettled ==
    Spec /\ [][ClosuresUndisturbed]_vars => []ClosedMissionIsSettled
<1>1. Init => SettledInv
  <2> SUFFICES ASSUME Init PROVE SettledInv
    OBVIOUS
  <2>1. Len(events) = 1 /\ events[1] = MissionStarted
    BY DEF Init
  <2>2. \A i \in 1..Len(events) : ~IsClosure(events[i])
    BY <2>1 DEF IsClosure, MissionStarted
  <2>3. \A p \in Procs : proc[p].op = "none"
    BY DEF Init, Idle
  <2> QED BY <2>2, <2>3 DEF SettledInv, ClosuresSettled, Undisturbed
<1>2. ASSUME TypeInv, EvidenceInv, SettledInv, [Next]_vars, [ClosuresUndisturbed]_vars
      PROVE  SettledInv'
  <2> DEFINE n == Len(events)
  <2>1. CASE UNCHANGED vars
    BY <1>2, <2>1 DEF vars, database, SettledInv
  <2>2. CASE Next /\ ClosuresUndisturbed
    <3>1. \A q \in Procs : Undisturbed(proc'[q], events')
      BY <1>2, <2>2, UndisturbedStays
    <3>2. /\ n \in Nat /\ Len(events') \in n..n + 1 /\ Extends(events, events')
          /\ \A i \in 1..n : events'[i] = events[i]
      BY <1>2, <2>2, ChainGrows DEF TypeInv, ChainOK, Extends
    <3>3. ASSUME NEW i \in 1..n, IsClosure(events'[i])
          PROVE  Settled(events', i) /\ Vouched(SubSeq(events', 1, i))
      <4>1. Settled(events, i) /\ Vouched(SubSeq(events, 1, i))
        BY <1>2, <3>2, <3>3 DEF SettledInv, ClosuresSettled
      <4>2. SubSeq(events', 1, i) = SubSeq(events, 1, i)
        BY <3>2, PrefixStays
      <4> QED BY <4>1, <4>2 DEF Settled
    <3>4. ASSUME Len(events') = n + 1, IsClosure(events'[n + 1])
          PROVE  Settled(events', n + 1) /\ Vouched(SubSeq(events', 1, n + 1))
      <4>1. PICK p \in Procs : Close(p)
        BY <1>2, <2>2, <3>4, WhoEnds DEF Appended, IsClosure
      <4>2. Unsettled(events') = {} /\ Vouched(events')
        BY <1>2, <4>1, CloseIsSettled
      <4>3. SubSeq(events', 1, n + 1) = events'
        <5>1. ChainOK'
          BY <1>2, <2>2, ChainGrows DEF TypeInv
        <5>2. events' \in Seq({events'[i] : i \in DOMAIN events'})
          BY <5>1 DEF ChainOK, IsLog
        <5> QED BY <3>4, <5>2
      <4> QED BY <4>2, <4>3 DEF Settled
    <3>5. ClosuresSettled(events')
      <4> HIDE DEF n
      <4>1. \A i \in 1..Len(events') : i \in 1..n \/ (i = n + 1 /\ Len(events') = n + 1)
        BY <3>2
      <4> QED BY <3>3, <3>4, <4>1 DEF ClosuresSettled
    <3> QED BY <3>1, <3>5 DEF SettledInv
  <2> QED BY <1>2, <2>1, <2>2
<1>3. SettledInv => ClosedMissionIsSettled
  BY DEF SettledInv, ClosuresSettled, Settled, Prefix, ClosedMissionIsSettled
<1> QED BY <1>1, <1>2, <1>3, StoreTypeCorrect, EvidenceInOrder, PTL DEF Spec
=============================================================================
