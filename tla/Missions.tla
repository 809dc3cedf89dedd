------------------------------ MODULE Missions ------------------------------
(***************************************************************************)
(* Missions in several database files: how a mission comes into being        *)
(* (store.py), how the ledger and the other writers reach it (ledger.py,     *)
(* store.py), and how a capsule carries it from one file to another          *)
(* (capsule.py).  Here every ledger method and every recovery is one step;   *)
(* ActionLedger and MissionStore have their interleavings.                   *)
(***************************************************************************)
EXTENDS MissionLog, SequencesExt

CONSTANTS
    Stores,        \* database files, each with the processes that use it
    Missions,      \* mission ids
    Files,         \* paths capsules are written to
    NoFile,        \* nothing at that path
    Secret,        \* a work item that is shaped like a credential
    Scrubbed,      \* what redact_payload makes of it
    MaxEvents      \* bound on the length of a chain

ASSUME MissionsConstantsOK ==
    /\ Secret \in Items /\ Scrubbed \notin Items
    /\ MaxEvents \in Nat

VARIABLES
    known,         \* table missions of each file
    chain,         \* table events, by mission
    heads,         \* table chain_heads: event_count by mission, 0 for no row
    status,        \* table actions: the status by mission and action
    exporting,     \* what an export has read: the mission and its events
    capsules,      \* the capsule at each path
    imported       \* history: the missions a file has by import

vars == <<known, chain, heads, status, exporting, capsules, imported>>
tables == <<known, chain, heads, status>>

NotExporting == [mission |-> "none", events |-> <<>>]

\* Databases after _schema.
Init ==
    /\ known = [s \in Stores |-> {}]
    /\ chain = [s \in Stores |-> [m \in Missions |-> <<>>]]
    /\ heads = [s \in Stores |-> [m \in Missions |-> 0]]
    /\ status = [s \in Stores |-> [m \in Missions |-> [a \in Actions |-> "none"]]]
    /\ exporting = [s \in Stores |-> NotExporting]
    /\ capsules = [f \in Files |-> NoFile]
    /\ imported = [s \in Stores |-> {}]

-----------------------------------------------------------------------------
(* What is read from a file                                                  *)

\* verify_chain in one step: a start, and the head that counts the events.
Verifies(log, count) == log # <<>> /\ log[1] = MissionStarted /\ count = Len(log)

Intact(s, m) == Verifies(chain[s][m], heads[s][m])

UncertainRows(s, m) == {a \in Actions : status[s][m][a] = "started"}

\* recover, without an environment or a contract.
Advice(s, m) ==
    IF Intact(s, m)
    THEN Recovered(chain[s][m], UncertainRows(s, m), FALSE, FALSE)
    ELSE Abort

\* project raises for a chain without its start, and the list fails as a whole.
CanList(s) == \A m \in known[s] : chain[s][m] # <<>> => chain[s][m][1] = MissionStarted

-----------------------------------------------------------------------------
(* Writers of one file                                                       *)

\* Faulty variant: the head is inserted once, never updated (ON CONFLICT DO NOTHING).
InsertEventFirstHead(s, m, e) ==
    /\ Len(chain[s][m]) < MaxEvents
    /\ chain' = [chain EXCEPT ![s][m] = Append(@, e)]
    /\ heads' = [heads EXCEPT ![s][m] = IF @ = 0 THEN 1 ELSE @]

\* _insert_event: the event and the head that counts it.
InsertEvent(s, m, e) ==
    /\ Len(chain[s][m]) < MaxEvents
    /\ chain' = [chain EXCEPT ![s][m] = Append(@, e)]
    /\ heads' = [heads EXCEPT ![s][m] = Len(chain[s][m]) + 1]

Elsewhere == UNCHANGED <<exporting, capsules, imported>>

\* create_mission: only the primary key of table missions is in its way.
Create(s, m) ==
    \/ m \in known[s] /\ UNCHANGED vars
    \/ /\ m \notin known[s]
       /\ known' = [known EXCEPT ![s] = @ \cup {m}]
       /\ InsertEvent(s, m, MissionStarted)
       /\ UNCHANGED status /\ Elsewhere

\* append refuses an unknown mission.
Record(s, m) ==
    \/ m \notin known[s] /\ UNCHANGED vars
    \/ /\ m \in known[s]
       /\ \/ \E w \in Items : InsertEvent(s, m, WorkCompleted("EXTERNAL_AGENT", w))
          \/ InsertEvent(s, m, ReviewConfirmed("operator"))
       /\ UNCHANGED <<known, status>> /\ Elsewhere

\* Faulty variant: the row is written when the effect is completed, not before.
ClaimedStatusLate == "none"

ClaimedStatus == "started"

\* claim inserts its event itself; nothing asks for the mission.
Claim(s, m, a) ==
    /\ status[s][m][a] \in {"none", "not_occurred"}
    /\ status' = [status EXCEPT ![s][m][a] = ClaimedStatus]
    /\ InsertEvent(s, m, ActionStarted(a))
    /\ UNCHANGED known /\ Elsewhere

\* complete and reconcile.
Settle(s, m, a) ==
    /\ status[s][m][a] = "started"
    /\ \E outcome \in {"completed", "not_occurred"} :
          status' = [status EXCEPT ![s][m][a] = outcome]
    /\ InsertEvent(s, m, ActionSettled(a))
    /\ UNCHANGED known /\ Elsewhere

-----------------------------------------------------------------------------
(* Capsules                                                                  *)

\* export_capsule reads the events first and verifies the chain after that.
BeginExport(s, m) ==
    /\ exporting[s] = NotExporting
    /\ m \in known[s]
    /\ exporting' = [exporting EXCEPT ![s] = [mission |-> m, events |-> chain[s][m]]]
    /\ UNCHANGED <<tables, capsules, imported>>

Leaks(log) == \E i \in 1..Len(log) : log[i] = WorkCompleted("EXTERNAL_AGENT", Secret)

\* Payloads are rewritten, digests are not.
Redacted(log) ==
    [i \in 1..Len(log) |->
        IF log[i] = WorkCompleted("EXTERNAL_AGENT", Secret)
        THEN WorkCompleted("EXTERNAL_AGENT", Scrubbed) ELSE log[i]]

\* The file is replaced in one step; a refusal or a death leaves it as it was.
FinishExport(s) ==
    LET log == exporting[s].events
        m == exporting[s].mission
    IN
    /\ exporting[s] # NotExporting
    /\ exporting' = [exporting EXCEPT ![s] = NotExporting]
    /\ \/ \E f \in Files, redact \in BOOLEAN :
             /\ Intact(s, m)
             /\ Leaks(log) => redact
             /\ capsules' = [capsules EXCEPT ![f] =
                   [mission |-> m, redacted |-> redact,
                    events |-> IF redact THEN Redacted(log) ELSE log]]
       \/ UNCHANGED capsules
    /\ UNCHANGED <<tables, imported>>

\* Faulty variant: a share-only capsule is taken for a state.
ImportableEvenRedacted(c) == TRUE

Importable(c) == ~c.redacted

\* A primary key that exists in missions, events or chain_heads.
Collides(s, m) == m \in known[s] \/ chain[s][m] # <<>> \/ heads[s][m] > 0

\* import_capsule: missions, events, head and the check in one transaction.  The
\* capsule has no rows of table actions.
Import(s, f) ==
    LET c == capsules[f] IN
    /\ c # NoFile /\ Importable(c)
    /\ ~Collides(s, c.mission)
    /\ Verifies(c.events, Len(c.events))
    /\ known' = [known EXCEPT ![s] = @ \cup {c.mission}]
    /\ chain' = [chain EXCEPT ![s][c.mission] = c.events]
    /\ heads' = [heads EXCEPT ![s][c.mission] = Len(c.events)]
    /\ imported' = [imported EXCEPT ![s] = @ \cup {c.mission}]
    /\ UNCHANGED <<status, exporting, capsules>>

Next ==
    \/ \E s \in Stores, m \in Missions :
          \/ Create(s, m) \/ Record(s, m) \/ BeginExport(s, m)
          \/ \E a \in Actions : Claim(s, m, a) \/ Settle(s, m, a)
    \/ \E s \in Stores : FinishExport(s)
    \/ \E s \in Stores, f \in Files : Import(s, f)

Spec == Init /\ [][Next]_vars

-----------------------------------------------------------------------------
(* Properties                                                                *)

Events ==
    {MissionStarted, ReviewConfirmed("operator")}
      \cup {WorkCompleted("EXTERNAL_AGENT", w) : w \in Items}
      \cup {ActionStarted(a) : a \in Actions} \cup {ActionSettled(a) : a \in Actions}

TypeOK ==
    /\ known \in [Stores -> SUBSET Missions]
    /\ imported \in [Stores -> SUBSET Missions]
    /\ \A s \in Stores, m \in Missions :
          /\ Range(chain[s][m]) \subseteq Events
          /\ heads[s][m] = Len(chain[s][m])
    /\ status \in [Stores -> [Missions -> [Actions ->
          {"none", "started", "completed", "not_occurred"}]]]

\* What arrives by capsule is somebody's own past, event for event: neither a
\* scrubbed copy, nor a mixture, however the exporter went on meanwhile.
ImportIsSomeonesPast ==
    [][\A s \in Stores : \A m \in imported'[s] \ imported[s] :
          \E t \in Stores : m \in known[t] /\ IsPrefix(chain'[s][m], chain[t][m])]_vars

\* Creation, writers and imports leave every mission they know intact, in every
\* file; only an action claimed before the mission existed can spoil it.
SpoiledOnlyByOrphans ==
    \A s \in Stores : \A m \in known[s] :
        Intact(s, m) \/ \E a \in Actions : chain[s][m][1] = ActionStarted(a)

\* A mission that was not carried over is never advised as safe, or as waiting
\* for review, while its own chain has an action without an outcome.
UnsettledIsReconciled ==
    \A s \in Stores, m \in Missions :
        m \notin imported[s] /\ Unsettled(chain[s][m]) # {}
            => Advice(s, m).mode \in {"reconcile", "abort"}

\* "M5: an orphan event permanently poisoned a mission id, because verify_chain
\* would forever report missing mission start" (store.py, of the time before append
\* refused one): every chain begins with its mission.
ChainsBeginWithTheirMission ==
    \A s \in Stores, m \in Missions :
        chain[s][m] # <<>> => chain[s][m][1] = MissionStarted

\* "An unresolved effect becomes `reconcile`, never an assumed success or an
\* automatic retry" (README.md), also on the machine a mission was carried to.
UnresolvedBecomesReconcile ==
    \A s \in Stores : \A m \in known[s] :
        Unsettled(chain[s][m]) # {} => Advice(s, m).mode \notin SafeModes
=============================================================================
