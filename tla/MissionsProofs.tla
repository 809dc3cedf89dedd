---------------------------- MODULE MissionsProofs ----------------------------
(***************************************************************************)
(* Theorems about missions in several files, for any number of files,        *)
(* missions, actions, items and capsules, and chains of any bounded length.  *)
(***************************************************************************)
EXTENDS Missions, MissionLogProofs

-----------------------------------------------------------------------------
(* The invariant                                                             *)

Statuses == {"none", "started", "completed", "not_occurred"}

\* Every file has its tables, and a head counts its chain.
TablesOK ==
    /\ known \in [Stores -> SUBSET Missions]
    /\ imported \in [Stores -> SUBSET Missions]
    /\ chain \in [Stores -> [Missions -> Seq(Events)]]
    /\ heads \in [Stores -> [Missions -> Nat]]
    /\ status \in [Stores -> [Missions -> [Actions -> Statuses]]]
    /\ exporting = [s \in Stores |-> exporting[s]]
    /\ capsules = [f \in Files |-> capsules[f]]
    /\ \A s \in Stores, m \in Missions : heads[s][m] = Len(chain[s][m])

\* A mission has events; a chain begins with its mission, or with the claim that
\* came before it; an action with a row has its claim in the chain.
BeginningsOf(s, m) ==
    /\ m \in known[s] => chain[s][m] # <<>>
    /\ chain[s][m] # <<>> =>
          \/ chain[s][m][1] = MissionStarted
          \/ \E a \in Actions : chain[s][m][1] = ActionStarted(a)
    /\ \A a \in Actions : status[s][m][a] # "none" => chain[s][m] # <<>>

Beginnings == \A s \in Stores, m \in Missions : BeginningsOf(s, m)

\* Where no capsule came in, rows and chain agree on what has no outcome.
Agrees(s, m) ==
    \A a \in Actions : status[s][m][a] = "started" <=> a \in Unsettled(chain[s][m])

RowsAgree == \A s \in Stores, m \in Missions : m \notin imported[s] => Agrees(s, m)

\* A log is what the mission was at some file, now or before.
PastAt(s, m, log) ==
    /\ m \in known[s]
    /\ log \in Seq(Events) /\ IsPrefix(log, chain[s][m])

\* What an export has read, and what a capsule that is no scrubbed copy holds.
Carried ==
    /\ \A s \in Stores : exporting[s] # NotExporting =>
          PastAt(s, exporting[s].mission, exporting[s].events)
    /\ \A f \in Files : capsules[f] # NoFile /\ ~capsules[f].redacted =>
          \E t \in Stores : PastAt(t, capsules[f].mission, capsules[f].events)

TravelInv == TablesOK /\ Beginnings /\ RowsAgree /\ Carried

-----------------------------------------------------------------------------
(* What a step does to the chains                                            *)

LEMMA EventsAreEvents ==
    /\ MissionStarted \in Events /\ ReviewConfirmed("operator") \in Events
    /\ \A w \in Items : WorkCompleted("EXTERNAL_AGENT", w) \in Events
    /\ \A a \in Actions : ActionStarted(a) \in Events /\ ActionSettled(a) \in Events
BY DEF Events

\* A writer appends to one chain, and its head still counts it.
LEMMA InsertAppends ==
    ASSUME TablesOK, NEW s \in Stores, NEW m \in Missions, NEW e \in Events,
           InsertEvent(s, m, e)
    PROVE  /\ chain' \in [Stores -> [Missions -> Seq(Events)]]
           /\ heads' \in [Stores -> [Missions -> Nat]]
           /\ \A t \in Stores, n \in Missions :
                 /\ heads'[t][n] = Len(chain'[t][n])
                 /\ chain'[t][n] = IF t = s /\ n = m THEN Append(chain[s][m], e)
                                   ELSE chain[t][n]
<1> DEFINE new == Append(chain[s][m], e)
<1>1. chain[s][m] \in Seq(Events) /\ Len(chain[s][m]) \in Nat
  BY DEF TablesOK
<1>2. new \in Seq(Events) /\ Len(new) = Len(chain[s][m]) + 1
  BY <1>1
<1>3. chain' = [chain EXCEPT ![s][m] = new]
      /\ heads' = [heads EXCEPT ![s][m] = Len(chain[s][m]) + 1]
  BY DEF InsertEvent
<1> HIDE DEF new
<1>4. chain' \in [Stores -> [Missions -> Seq(Events)]]
  BY <1>2, <1>3 DEF TablesOK
<1>5. heads' \in [Stores -> [Missions -> Nat]]
  BY <1>1, <1>3 DEF TablesOK
<1>6. ASSUME NEW t \in Stores, NEW n \in Missions
      PROVE  /\ heads'[t][n] = Len(chain'[t][n])
             /\ chain'[t][n] = IF t = s /\ n = m THEN new ELSE chain[t][n]
  BY <1>2, <1>3 DEF TablesOK
<1> QED BY <1>4, <1>5, <1>6 DEF new

\* The first event of a chain stays the first.
LEMMA FirstStays ==
    ASSUME NEW log \in Seq(Events), NEW e \in Events
    PROVE  /\ Append(log, e) # <<>>
           /\ Append(log, e)[1] = IF log = <<>> THEN e ELSE log[1]
<1>1. Len(log) \in Nat /\ Len(Append(log, e)) = Len(log) + 1
  OBVIOUS
<1>2. CASE log = <<>>
  BY <1>2
<1>3. CASE log # <<>>
  <2>1. Len(log) # 0
    BY <1>3, EmptySeq
  <2> QED BY <1>1, <1>3, <2>1
<1> QED BY <1>2, <1>3

\* What was the past of a mission is its past when it has gone on.
LEMMA PastStays ==
    ASSUME NEW u \in Seq(Events), NEW v \in Seq(Events), IsPrefix(u, v), NEW e \in Events
    PROVE  IsPrefix(u, Append(v, e))
<1>1. Len(u) \in 0..Len(v) /\ SubSeq(u, 1, Len(u)) = SubSeq(v, 1, Len(u))
  BY DEF IsPrefix
<1>2. IsLog(v)
  BY SeqIsLog
<1>3. Extends(v, Append(v, e)) /\ Len(Append(v, e)) = Len(v) + 1
  BY <1>2, AppendLog
<1>4. SubSeq(Append(v, e), 1, Len(u)) = SubSeq(v, 1, Len(u))
  BY <1>1, <1>3, PrefixStays
<1> QED BY <1>1, <1>3, <1>4 DEF IsPrefix

LEMMA PastBegins ==
    ASSUME NEW u \in Seq(Events)
    PROVE  IsPrefix(u, u)
BY DEF IsPrefix

\* One transaction of a writer: an event with its head, and what goes with it.
Written(s, m, e) ==
    /\ InsertEvent(s, m, e) /\ UNCHANGED <<exporting, capsules, imported>>
    /\ \/ /\ e = MissionStarted
          /\ known' = [known EXCEPT ![s] = @ \cup {m}] /\ UNCHANGED status
       \/ /\ m \in known[s]
          /\ \/ e = ReviewConfirmed("operator")
             \/ \E w \in Items : e = WorkCompleted("EXTERNAL_AGENT", w)
          /\ UNCHANGED <<known, status>>
       \/ \E a \in Actions :
             /\ e = ActionStarted(a)
             /\ status' = [status EXCEPT ![s][m][a] = "started"] /\ UNCHANGED known
       \/ \E a \in Actions, outcome \in {"completed", "not_occurred"} :
             /\ e = ActionSettled(a) /\ status[s][m][a] = "started"
             /\ status' = [status EXCEPT ![s][m][a] = outcome] /\ UNCHANGED known

LEMMA StepIsOneOf ==
    ASSUME [Next]_vars
    PROVE  \/ UNCHANGED vars
           \/ \E s \in Stores, m \in Missions, e \in Events : Written(s, m, e)
           \/ \E s \in Stores, m \in Missions : BeginExport(s, m)
           \/ \E s \in Stores : FinishExport(s)
           \/ \E s \in Stores, f \in Files : Import(s, f)
<1> DEFINE Writes == \E s \in Stores, m \in Missions, e \in Events : Written(s, m, e)
<1>1. ASSUME NEW s \in Stores, NEW m \in Missions, Create(s, m)
      PROVE  UNCHANGED vars \/ Writes
  <2>1. UNCHANGED vars \/ Written(s, m, MissionStarted)
    BY <1>1 DEF Create, Written, Elsewhere
  <2> QED BY <2>1, EventsAreEvents
<1>2. ASSUME NEW s \in Stores, NEW m \in Missions, Record(s, m)
      PROVE  UNCHANGED vars \/ Writes
  <2>1. CASE \E w \in Items : Written(s, m, WorkCompleted("EXTERNAL_AGENT", w))
    BY <2>1, EventsAreEvents
  <2>2. CASE Written(s, m, ReviewConfirmed("operator"))
    BY <2>2, EventsAreEvents
  <2> QED BY <1>2, <2>1, <2>2 DEF Record, Written, Elsewhere
<1>3. ASSUME NEW s \in Stores, NEW m \in Missions, NEW a \in Actions, Claim(s, m, a)
      PROVE  Writes
  <2>1. Written(s, m, ActionStarted(a))
    BY <1>3 DEF Claim, Written, ClaimedStatus, Elsewhere
  <2> QED BY <2>1, EventsAreEvents
<1>4. ASSUME NEW s \in Stores, NEW m \in Missions, NEW a \in Actions, Settle(s, m, a)
      PROVE  Writes
  <2>1. Written(s, m, ActionSettled(a))
    BY <1>4 DEF Settle, Written, Elsewhere
  <2> QED BY <2>1, EventsAreEvents
<1> HIDE DEF Writes
<1> QED BY <1>1, <1>2, <1>3, <1>4 DEF Next, Writes

-----------------------------------------------------------------------------
(* Each kind of step keeps the invariant                                     *)

\* A claim opens the row of its action and a settlement closes it; no other row moves.
RowsMove(s, m, e) ==
    /\ status' \in [Stores -> [Missions -> [Actions -> Statuses]]]
    /\ \A t \in Stores, n \in Missions, a \in Actions :
          status'[t][n][a] =
              IF t = s /\ n = m /\ e = ActionStarted(a) THEN "started"
              ELSE IF t = s /\ n = m /\ e = ActionSettled(a) THEN status'[s][m][a]
              ELSE status[t][n][a]
    /\ \A a \in Actions : e = ActionSettled(a) => status'[s][m][a] # "started"

LEMMA WrittenRows ==
    ASSUME TablesOK, NEW s \in Stores, NEW m \in Missions, NEW e \in Events,
           Written(s, m, e)
    PROVE  RowsMove(s, m, e)
<1>1. CASE UNCHANGED status /\ (e = MissionStarted \/ e = ReviewConfirmed("operator")
               \/ \E w \in Items : e = WorkCompleted("EXTERNAL_AGENT", w))
  <2>1. \A a \in Actions : e # ActionStarted(a) /\ e # ActionSettled(a)
    BY <1>1 DEF MissionStarted, ReviewConfirmed, WorkCompleted, ActionStarted,
                ActionSettled
  <2> QED BY <1>1, <2>1 DEF TablesOK, RowsMove
<1>2. ASSUME NEW b \in Actions, e = ActionStarted(b),
             status' = [status EXCEPT ![s][m][b] = "started"]
      PROVE  RowsMove(s, m, e)
  <2>1. \A a \in Actions : (e = ActionStarted(a) <=> a = b) /\ e # ActionSettled(a)
    BY <1>2 DEF ActionStarted, ActionSettled
  <2> QED BY <1>2, <2>1 DEF TablesOK, Statuses, RowsMove
<1>3. ASSUME NEW b \in Actions, NEW outcome \in {"completed", "not_occurred"},
             e = ActionSettled(b), status' = [status EXCEPT ![s][m][b] = outcome]
      PROVE  RowsMove(s, m, e)
  <2>1. \A a \in Actions : (e = ActionSettled(a) <=> a = b) /\ e # ActionStarted(a)
    BY <1>3 DEF ActionStarted, ActionSettled
  <2> QED BY <1>3, <2>1 DEF TablesOK, Statuses, RowsMove
<1> QED BY <1>1, <1>2, <1>3 DEF Written

\* Where the rows of a mission agree with its chain, they still do after a write.
LEMMA WrittenAgrees ==
    ASSUME TablesOK, NEW s \in Stores, NEW m \in Missions, NEW e \in Events,
           Written(s, m, e),
           NEW t \in Stores, NEW n \in Missions, Agrees(t, n)
    PROVE  Agrees(t, n)'
<1>1. ASSUME NEW a \in Actions
      PROVE  status'[t][n][a] = "started" <=> a \in Unsettled(chain'[t][n])
  <2>1. status[t][n][a] = "started" <=> a \in Unsettled(chain[t][n])
    BY DEF Agrees
  <2>2. chain'[t][n] = IF t = s /\ n = m THEN Append(chain[s][m], e) ELSE chain[t][n]
    BY InsertAppends DEF Written
  <2>3. CASE t = s /\ n = m
    <3>1. IsLog(chain[s][m])
      BY SeqIsLog DEF TablesOK
    <3>2. a \in Unsettled(Append(chain[s][m], e)) <=>
             e = ActionStarted(a) \/ (a \in Unsettled(chain[s][m]) /\ e # ActionSettled(a))
      BY <3>1, UnsettledAppend
    <3>3. ActionStarted(a) # ActionSettled(a)
      BY DEF ActionStarted, ActionSettled
    <3> QED BY WrittenRows, <2>1, <2>2, <2>3, <3>2, <3>3 DEF RowsMove
  <2>4. CASE ~ (t = s /\ n = m)
    <3>1. chain'[t][n] = chain[t][n] /\ status'[t][n][a] = status[t][n][a]
      BY WrittenRows, <2>2, <2>4 DEF RowsMove
    <3> QED BY <2>1, <3>1
  <2> QED BY <2>3, <2>4
<1> QED BY <1>1 DEF Agrees

LEMMA WrittenKeeps ==
    ASSUME TravelInv, NEW s \in Stores, NEW m \in Missions, NEW e \in Events,
           Written(s, m, e)
    PROVE  TravelInv'
<1> DEFINE log == chain[s][m]
<1>0. TablesOK /\ Beginnings /\ RowsAgree /\ Carried
  BY DEF TravelInv
<1>1. /\ chain' \in [Stores -> [Missions -> Seq(Events)]]
      /\ heads' \in [Stores -> [Missions -> Nat]]
      /\ \A t \in Stores, n \in Missions :
            /\ heads'[t][n] = Len(chain'[t][n])
            /\ chain'[t][n] = IF t = s /\ n = m THEN Append(log, e) ELSE chain[t][n]
  BY <1>0, InsertAppends DEF Written
<1>2. UNCHANGED <<exporting, capsules, imported>>
  BY DEF Written
<1>3. /\ known' \in [Stores -> SUBSET Missions]
      /\ \A t \in Stores : known[t] \subseteq known'[t]
      /\ \A t \in Stores, n \in Missions :
            n \in known'[t] => n \in known[t] \/ (t = s /\ n = m)
  <2>1. known' = known \/ known' = [known EXCEPT ![s] = @ \cup {m}]
    BY DEF Written
  <2>2. \A t \in Stores : known'[t] = known[t] \/ (t = s /\ known'[t] = known[t] \cup {m})
    BY <1>0, <2>1 DEF TablesOK
  <2>3. known' \in [Stores -> SUBSET Missions]
    <3> DEFINE more == known[s] \cup {m}
    <3>1. more \in SUBSET Missions /\ known \in [Stores -> SUBSET Missions]
      BY <1>0 DEF TablesOK
    <3>2. known' = known \/ known' = [known EXCEPT ![s] = more]
      BY <2>1
    <3> HIDE DEF more
    <3> QED BY <3>1, <3>2
  <2> QED BY <2>2, <2>3
<1>4. /\ status' \in [Stores -> [Missions -> [Actions -> Statuses]]]
      /\ \A t \in Stores, n \in Missions, a \in Actions :
            status'[t][n][a] # status[t][n][a] => t = s /\ n = m
  BY <1>0, WrittenRows DEF RowsMove
<1>5. log \in Seq(Events) /\ IsLog(log)
  BY <1>0, SeqIsLog DEF TablesOK
<1> HIDE DEF log
<1>6. TablesOK'
  BY <1>0, <1>1, <1>2, <1>3, <1>4 DEF TablesOK
<1>7. Append(log, e) # <<>> /\ Append(log, e)[1] = IF log = <<>> THEN e ELSE log[1]
  BY <1>5, FirstStays
<1>8. Beginnings'
  <2>1. log = <<>> => e = MissionStarted \/ \E a \in Actions : e = ActionStarted(a)
    <3>1. BeginningsOf(s, m)
      BY <1>0 DEF Beginnings
    <3> QED BY <3>1 DEF Written, BeginningsOf, log
  <2>2. ASSUME NEW t \in Stores, NEW n \in Missions
        PROVE  BeginningsOf(t, n)'
    <3>1. BeginningsOf(t, n)
      BY <1>0 DEF Beginnings
    <3>2. CASE t = s /\ n = m
      <4>1. /\ chain'[s][m] # <<>>
            /\ chain'[s][m][1] = IF log = <<>> THEN e ELSE log[1]
        <5>1. chain'[s][m] = Append(log, e)
          BY <1>1
        <5> QED BY <1>7, <5>1
      <4> QED BY <2>1, <3>1, <3>2, <4>1 DEF BeginningsOf, log
    <3>3. CASE ~ (t = s /\ n = m)
      <4>1. chain'[t][n] = chain[t][n] /\ (n \in known'[t] => n \in known[t])
            /\ \A a \in Actions : status'[t][n][a] = status[t][n][a]
        BY <1>1, <1>3, <1>4, <3>3
      <4> QED BY <3>1, <4>1 DEF BeginningsOf
    <3> QED BY <3>2, <3>3
  <2> QED BY <2>2 DEF Beginnings
<1>9. RowsAgree'
  BY <1>0, <1>2, WrittenAgrees DEF RowsAgree
<1>10. ASSUME NEW t \in Stores, NEW n, NEW u, PastAt(t, n, u)
       PROVE  PastAt(t, n, u)'
  <2>1. n \in Missions /\ n \in known'[t]
    BY <1>0, <1>3, <1>10 DEF PastAt, TablesOK
  <2>2. chain[t][n] \in Seq(Events)
    BY <1>0, <2>1 DEF TablesOK
  <2>3. IsPrefix(u, chain'[t][n])
    <3>1. u \in Seq(Events) /\ IsPrefix(u, chain[t][n])
      BY <1>10 DEF PastAt
    <3>2. IsPrefix(u, Append(chain[t][n], e))
      BY <2>2, <3>1, PastStays
    <3>3. chain'[t][n] = chain[t][n] \/ chain'[t][n] = Append(chain[t][n], e)
      BY <1>1, <2>1 DEF log
    <3> QED BY <3>1, <3>2, <3>3
  <2> QED BY <1>10, <2>1, <2>3 DEF PastAt
<1>11. Carried'
  BY <1>0, <1>2, <1>10 DEF Carried
<1> QED BY <1>6, <1>8, <1>9, <1>11 DEF TravelInv

\* Reading a mission for an export changes no table; what was read is its state.
LEMMA BeginExportKeeps ==
    ASSUME TravelInv, NEW s \in Stores, NEW m \in Missions, BeginExport(s, m)
    PROVE  TravelInv'
<1> DEFINE read == [mission |-> m, events |-> chain[s][m]]
<1>0. TablesOK /\ Beginnings /\ RowsAgree /\ Carried
  BY DEF TravelInv
<1>1. /\ m \in known[s] /\ UNCHANGED <<known, chain, heads, status, capsules, imported>>
      /\ exporting' = [exporting EXCEPT ![s] = read]
  BY DEF BeginExport, tables
<1>2. exporting' = [t \in Stores |-> exporting'[t]] /\ exporting'[s] = read
      /\ \A t \in Stores : t # s => exporting'[t] = exporting[t]
  BY <1>0, <1>1 DEF TablesOK
<1>3. PastAt(s, m, chain[s][m])
  BY <1>0, <1>1, PastBegins DEF PastAt, TablesOK
<1>4. TablesOK' /\ Beginnings' /\ RowsAgree'
  BY <1>0, <1>1, <1>2 DEF TablesOK, Beginnings, BeginningsOf, RowsAgree,
                                Agrees
<1>5. Carried'
  BY <1>0, <1>1, <1>2, <1>3 DEF Carried, PastAt
<1> QED BY <1>4, <1>5 DEF TravelInv

\* A capsule that is no scrubbed copy gets exactly what was read.
LEMMA FinishExportKeeps ==
    ASSUME TravelInv, NEW s \in Stores, FinishExport(s)
    PROVE  TravelInv'
<1> DEFINE m == exporting[s].mission
           log == exporting[s].events
<1>0. TablesOK /\ Beginnings /\ RowsAgree /\ Carried
  BY DEF TravelInv
<1>1. /\ UNCHANGED <<known, chain, heads, status, imported>>
      /\ exporting' = [exporting EXCEPT ![s] = NotExporting]
      /\ \/ UNCHANGED capsules
         \/ \E f \in Files, redact \in BOOLEAN : capsules' = [capsules EXCEPT ![f] =
               [mission |-> m, redacted |-> redact,
                events |-> IF redact THEN Redacted(log) ELSE log]]
  BY DEF FinishExport, tables
<1>2. PastAt(s, m, log)
  BY <1>0 DEF FinishExport, Carried
<1> HIDE DEF m, log
<1>3. exporting' = [t \in Stores |-> exporting'[t]]
      /\ \A t \in Stores : exporting'[t] = NotExporting \/ exporting'[t] = exporting[t]
  BY <1>0, <1>1 DEF TablesOK
<1>4. /\ capsules' = [f \in Files |-> capsules'[f]]
      /\ \A f \in Files : \/ capsules'[f] = capsules[f]
                          \/ capsules'[f].redacted
                          \/ capsules'[f].mission = m /\ capsules'[f].events = log
  <2>1. CASE UNCHANGED capsules
    BY <1>0, <2>1 DEF TablesOK
  <2>2. ASSUME NEW g \in Files, NEW redact \in BOOLEAN,
               capsules' = [capsules EXCEPT ![g] =
                  [mission |-> m, redacted |-> redact,
                   events |-> IF redact THEN Redacted(log) ELSE log]]
        PROVE  <1>4!1 /\ <1>4!2
    BY <1>0, <2>2 DEF TablesOK
  <2> QED BY <1>1, <2>1, <2>2
<1>5. TablesOK' /\ Beginnings' /\ RowsAgree'
  BY <1>0, <1>1, <1>3, <1>4 DEF TablesOK, Beginnings, BeginningsOf, RowsAgree,
                                Agrees
<1>6. Carried'
  BY <1>0, <1>1, <1>2, <1>3, <1>4 DEF Carried, PastAt
<1> QED BY <1>5, <1>6 DEF TravelInv

\* An import fills a place that no mission, event or row of the file has.
LEMMA ImportArrives ==
    ASSUME TravelInv, NEW s \in Stores, NEW f \in Files, Import(s, f)
    PROVE  \E m \in Missions, log \in Seq(Events), t \in Stores :
              /\ PastAt(t, m, log)
              /\ log # <<>> /\ log[1] = MissionStarted
              /\ m \notin known[s] /\ chain[s][m] = <<>>
              /\ known' = [known EXCEPT ![s] = @ \cup {m}]
              /\ imported' = [imported EXCEPT ![s] = @ \cup {m}]
              /\ chain' = [chain EXCEPT ![s][m] = log]
              /\ heads' = [heads EXCEPT ![s][m] = Len(log)]
              /\ UNCHANGED <<status, exporting, capsules>>
<1> DEFINE m == capsules[f].mission
           log == capsules[f].events
<1>1. /\ capsules[f] # NoFile /\ ~capsules[f].redacted /\ ~Collides(s, m)
      /\ Verifies(log, Len(log))
      /\ known' = [known EXCEPT ![s] = @ \cup {m}]
      /\ imported' = [imported EXCEPT ![s] = @ \cup {m}]
      /\ chain' = [chain EXCEPT ![s][m] = log]
      /\ heads' = [heads EXCEPT ![s][m] = Len(log)]
      /\ UNCHANGED <<status, exporting, capsules>>
  BY DEF Import, Importable
<1>2. PICK t \in Stores : PastAt(t, m, log)
  BY <1>1 DEF TravelInv, Carried
<1>3. m \in Missions /\ log \in Seq(Events)
  BY <1>2 DEF PastAt, TravelInv, TablesOK
<1>4. log # <<>> /\ log[1] = MissionStarted
  BY <1>1 DEF Verifies
<1>5. m \notin known[s] /\ chain[s][m] = <<>>
  BY <1>1 DEF Collides
<1> HIDE DEF m, log
<1> QED BY <1>1, <1>2, <1>3, <1>4, <1>5

LEMMA ImportKeeps ==
    ASSUME TravelInv, NEW s \in Stores, NEW f \in Files, Import(s, f)
    PROVE  TravelInv'
<1>0. TablesOK /\ Beginnings /\ RowsAgree /\ Carried
  BY DEF TravelInv
<1>1. PICK m \in Missions, log \in Seq(Events), t \in Stores :
          /\ PastAt(t, m, log)
          /\ log # <<>> /\ log[1] = MissionStarted
          /\ m \notin known[s] /\ chain[s][m] = <<>>
          /\ known' = [known EXCEPT ![s] = @ \cup {m}]
          /\ imported' = [imported EXCEPT ![s] = @ \cup {m}]
          /\ chain' = [chain EXCEPT ![s][m] = log]
          /\ heads' = [heads EXCEPT ![s][m] = Len(log)]
          /\ UNCHANGED <<status, exporting, capsules>>
  BY ImportArrives
<1>2. /\ chain' \in [Stores -> [Missions -> Seq(Events)]]
      /\ \A u \in Stores, n \in Missions :
            chain'[u][n] = IF u = s /\ n = m THEN log ELSE chain[u][n]
  BY <1>0, <1>1 DEF TablesOK
<1>3. /\ heads' \in [Stores -> [Missions -> Nat]]
      /\ \A u \in Stores, n \in Missions :
            heads'[u][n] = IF u = s /\ n = m THEN Len(log) ELSE heads[u][n]
  <2>1. Len(log) \in Nat
    OBVIOUS
  <2> QED BY <1>0, <1>1, <2>1 DEF TablesOK
<1>4. /\ known' \in [Stores -> SUBSET Missions]
      /\ \A u \in Stores : known'[u] = IF u = s THEN known[s] \cup {m} ELSE known[u]
  <2> DEFINE more == known[s] \cup {m}
  <2>1. more \in SUBSET Missions /\ known \in [Stores -> SUBSET Missions]
    BY <1>0 DEF TablesOK
  <2>2. known' = [known EXCEPT ![s] = more]
    BY <1>1
  <2> HIDE DEF more
  <2>3. known' \in [Stores -> SUBSET Missions]
        /\ \A u \in Stores : known'[u] = IF u = s THEN more ELSE known[u]
    BY <2>1, <2>2
  <2> QED BY <2>3 DEF more
<1>5. /\ imported' \in [Stores -> SUBSET Missions]
      /\ \A u \in Stores :
            imported'[u] = IF u = s THEN imported[s] \cup {m} ELSE imported[u]
  <2> DEFINE more == imported[s] \cup {m}
  <2>1. more \in SUBSET Missions /\ imported \in [Stores -> SUBSET Missions]
    BY <1>0 DEF TablesOK
  <2>2. imported' = [imported EXCEPT ![s] = more]
    BY <1>1
  <2> HIDE DEF more
  <2>3. imported' \in [Stores -> SUBSET Missions]
        /\ \A u \in Stores : imported'[u] = IF u = s THEN more ELSE imported[u]
    BY <2>1, <2>2
  <2> QED BY <2>3 DEF more
<1>6. TablesOK'
  BY <1>0, <1>1, <1>2, <1>3, <1>4, <1>5 DEF TablesOK
<1>7. Beginnings'
  <2>1. ASSUME NEW u \in Stores, NEW n \in Missions
        PROVE  BeginningsOf(u, n)'
    <3>1. BeginningsOf(u, n)
      BY <1>0 DEF Beginnings
    <3>2. CASE u = s /\ n = m
      BY <1>1, <1>2, <3>2 DEF BeginningsOf
    <3>3. CASE ~ (u = s /\ n = m)
      <4>1. chain'[u][n] = chain[u][n] /\ (n \in known'[u] => n \in known[u])
        BY <1>2, <1>4, <3>3
      <4> QED BY <1>1, <3>1, <4>1 DEF BeginningsOf
    <3> QED BY <3>2, <3>3
  <2> QED BY <2>1 DEF Beginnings
<1>8. RowsAgree'
  <2>1. ASSUME NEW u \in Stores, NEW n \in Missions, n \notin imported'[u]
        PROVE  n \notin imported[u] /\ chain'[u][n] = chain[u][n]
    BY <1>2, <1>5, <2>1
  <2> QED BY <1>0, <1>1, <2>1 DEF RowsAgree, Agrees
<1>9. ASSUME NEW u \in Stores, NEW n, NEW l, PastAt(u, n, l)
      PROVE  PastAt(u, n, l)'
  <2>1. n \in known[u] /\ n \in Missions
    BY <1>0, <1>9 DEF PastAt, TablesOK
  <2>2. n \in known'[u] /\ chain'[u][n] = chain[u][n]
    BY <1>1, <1>2, <1>4, <2>1
  <2> QED BY <1>9, <2>2 DEF PastAt
<1>10. Carried'
  BY <1>0, <1>1, <1>9 DEF Carried
<1> QED BY <1>6, <1>7, <1>8, <1>10 DEF TravelInv

LEMMA TravelInit == Init => TravelInv
<1> SUFFICES ASSUME Init PROVE TravelInv
  OBVIOUS
<1>1. \A s \in Stores, m \in Missions : chain[s][m] = <<>> /\ heads[s][m] = 0
         /\ m \notin known[s] /\ \A a \in Actions : status[s][m][a] = "none"
  BY DEF Init
<1>2. \A a \in Actions : a \notin Unsettled(<<>>)
  BY DEF Unsettled
<1>3. TablesOK
  <2>1. <<>> \in Seq(Events) /\ Len(<<>>) = 0
    BY EmptySeq
  <2> QED BY <1>1, <2>1 DEF Init, TablesOK, Statuses
<1>4. Beginnings
  BY <1>1 DEF Beginnings, BeginningsOf
<1>5. RowsAgree
  BY <1>1, <1>2 DEF RowsAgree, Agrees
<1>6. Carried
  BY DEF Init, Carried
<1> QED BY <1>3, <1>4, <1>5, <1>6 DEF TravelInv

LEMMA TravelStep ==
    ASSUME TravelInv, [Next]_vars
    PROVE  TravelInv'
<1>1. CASE UNCHANGED vars
  BY <1>1 DEF vars, tables, TravelInv, TablesOK, Beginnings, BeginningsOf, RowsAgree,
              Agrees, Carried, PastAt
<1> QED BY <1>1, StepIsOneOf, WrittenKeeps, BeginExportKeeps, FinishExportKeeps,
           ImportKeeps

LEMMA TravelInOrder == Spec => []TravelInv
BY TravelInit, TravelStep, PTL DEF Spec

-----------------------------------------------------------------------------
(* The theorems                                                              *)

LEMMA TablesType ==
    ASSUME TablesOK
    PROVE  TypeOK
<1>1. ASSUME NEW s \in Stores, NEW m \in Missions
      PROVE  Range(chain[s][m]) \subseteq Events
  <2>1. chain[s][m] \in Seq(Events)
    BY DEF TablesOK
  <2>2. \A i \in DOMAIN chain[s][m] : chain[s][m][i] \in Events
    BY <2>1
  <2> QED BY <2>2 DEF Range
<1> QED BY <1>1 DEF TablesOK, TypeOK, Statuses

\* Types: every head counts its chain in every file, whoever writes, exports or
\* imports (store.py _insert_event, capsule.py import_capsule).
THEOREM MissionsTypeCorrect == Spec => [](TypeOK /\ TravelInv)
<1>1. TravelInv => TypeOK
  BY TablesType DEF TravelInv
<1> QED BY <1>1, TravelInOrder, PTL

\* A mission whose chain begins with its start verifies.
LEMMA StartedIsIntact ==
    ASSUME TravelInv, NEW s \in Stores, NEW m \in known[s],
           chain[s][m][1] = MissionStarted
    PROVE  m \in Missions /\ Intact(s, m)
<1>1. m \in Missions
  BY DEF TravelInv, TablesOK
<1>2. chain[s][m] # <<>> /\ heads[s][m] = Len(chain[s][m])
  BY <1>1 DEF TravelInv, TablesOK, Beginnings, BeginningsOf
<1> QED BY <1>1, <1>2 DEF Intact, Verifies

\* Create, append, claim, settlement and import leave every known mission
\* verifiable; only a claim that came before the mission can spoil it
\* (store.py create_mission and append, ledger.py claim, capsule.py import_capsule).
THEOREM SpoiltByOrphansAlone == Spec => []SpoiledOnlyByOrphans
<1>1. ASSUME TravelInv
      PROVE  SpoiledOnlyByOrphans
  <2>1. ASSUME NEW s \in Stores, NEW m \in known[s]
        PROVE  Intact(s, m) \/ \E a \in Actions : chain[s][m][1] = ActionStarted(a)
    <3>1. BeginningsOf(s, m)
      BY <1>1 DEF TravelInv, TablesOK, Beginnings
    <3> QED BY <1>1, <3>1, StartedIsIntact DEF BeginningsOf
  <2> QED BY <2>1 DEF SpoiledOnlyByOrphans
<1> QED BY <1>1, TravelInOrder, PTL

\* Of an intact mission recover gives one of five verdicts, and with a row that
\* has no outcome it is to reconcile.
LEMMA AdviceIsCautious ==
    ASSUME TravelInv, NEW s \in Stores, NEW m \in Missions, Intact(s, m)
    PROVE  /\ Advice(s, m) \in Verdicts
           /\ UncertainRows(s, m) # {} => Advice(s, m).mode = "reconcile"
<1>1. IsLog(chain[s][m])
  BY SeqIsLog DEF TravelInv, TablesOK
<1>2. Advice(s, m) = Recovered(chain[s][m], UncertainRows(s, m), FALSE, FALSE)
  BY DEF Advice
<1>3. /\ Advice(s, m) \in Verdicts
      /\ UncertainRows(s, m) # {} =>
            Advice(s, m) = Decision("reconcile", "reconcile")
  BY <1>1, <1>2, RecoveredIsCautious
<1> QED BY <1>3 DEF Decision

\* A chain that has a claim without an outcome is never advised upon as safe,
\* unless a capsule brought it (recovery.py recover, ledger.py claim and complete).
THEOREM UnsettledNeverSafe == Spec => []UnsettledIsReconciled
<1>1. ASSUME TravelInv
      PROVE  UnsettledIsReconciled
  <2>1. ASSUME NEW s \in Stores, NEW m \in Missions, m \notin imported[s],
               Unsettled(chain[s][m]) # {}
        PROVE  Advice(s, m).mode \in {"reconcile", "abort"}
    <3>1. UncertainRows(s, m) # {}
      BY <1>1, <2>1 DEF TravelInv, RowsAgree, Agrees, UncertainRows, Unsettled
    <3>2. CASE Intact(s, m)
      BY <1>1, <3>1, <3>2, AdviceIsCautious
    <3>3. CASE ~ Intact(s, m)
      BY <3>3 DEF Advice, Abort, Decision
    <3> QED BY <3>2, <3>3
  <2> QED BY <2>1 DEF UnsettledIsReconciled
<1> QED BY <1>1, TravelInOrder, PTL

\* What a capsule brings is a state the mission was in at some file, however that
\* file went on between the two reads of the export and after it (capsule.py
\* export_capsule and import_capsule).
THEOREM ImportsAreSomeonesPast == Spec => ImportIsSomeonesPast
<1> DEFINE FromPast ==
        \A s \in Stores : \A m \in imported'[s] \ imported[s] :
            \E t \in Stores : m \in known[t] /\ IsPrefix(chain'[s][m], chain[t][m])
<1>1. ASSUME TravelInv, [Next]_vars
      PROVE  [FromPast]_vars
  <2>1. CASE UNCHANGED imported
    BY <2>1
  <2>2. ASSUME NEW s \in Stores, NEW f \in Files, Import(s, f)
        PROVE  FromPast
    <3>1. PICK m \in Missions, log \in Seq(Events), t \in Stores :
              /\ PastAt(t, m, log)
              /\ imported' = [imported EXCEPT ![s] = @ \cup {m}]
              /\ chain' = [chain EXCEPT ![s][m] = log]
      BY <1>1, <2>2, ImportArrives
    <3>2. chain'[s][m] = log
      BY <1>1, <3>1 DEF TravelInv, TablesOK
    <3>3. \A u \in Stores : \A n \in imported'[u] \ imported[u] : u = s /\ n = m
      BY <1>1, <3>1 DEF TravelInv, TablesOK
    <3> QED BY <3>1, <3>2, <3>3 DEF PastAt
  <2> QED BY <1>1, <2>1, <2>2, StepIsOneOf
          DEF vars, Written, BeginExport, FinishExport, tables
<1> QED BY <1>1, TravelInOrder, PTL DEF Spec, ImportIsSomeonesPast

-----------------------------------------------------------------------------
(* Disciplines that are enough: what the code does not ask of its callers, and  *)
(* under which the two documented claims hold that its runs refute.             *)

\* Nobody writes to a mission that the file does not know: the question append
\* asks and claim does not.
MissionsComeFirst ==
    \A s \in Stores, m \in Missions : chain'[s][m] # chain[s][m] => m \in known'[s]

\* Then every event belongs to a mission, and its chain begins with the start.
EventsOfMissions ==
    \A s \in Stores, m \in Missions : chain[s][m] # <<>> =>
        m \in known[s] /\ chain[s][m][1] = MissionStarted

\* A write of that discipline keeps this.
LEMMA WrittenOfMissions ==
    ASSUME TravelInv, EventsOfMissions, MissionsComeFirst,
           NEW s \in Stores, NEW m \in Missions, NEW e \in Events, Written(s, m, e)
    PROVE  EventsOfMissions'
<1>1. /\ chain[s][m] \in Seq(Events)
      /\ \A t \in Stores, n \in Missions :
            chain'[t][n] = IF t = s /\ n = m THEN Append(chain[s][m], e) ELSE chain[t][n]
  BY InsertAppends DEF TravelInv, TablesOK, Written
<1>2. known \in [Stores -> SUBSET Missions] /\ BeginningsOf(s, m)
  BY DEF TravelInv, TablesOK, Beginnings
<1>3. /\ \A t \in Stores : known[t] \subseteq known'[t]
      /\ chain[s][m] = <<>> /\ m \in known'[s] => e = MissionStarted
  BY <1>2 DEF Written, BeginningsOf
<1>4. /\ chain'[s][m] # <<>>
      /\ chain'[s][m][1] = IF chain[s][m] = <<>> THEN e ELSE chain[s][m][1]
  <2>1. chain'[s][m] = Append(chain[s][m], e)
    BY <1>1
  <2> QED BY <1>1, <2>1, FirstStays
<1>5. m \in known'[s]
  <2>1. Len(Append(chain[s][m], e)) # Len(chain[s][m])
    BY <1>1
  <2> QED BY <1>1, <2>1 DEF MissionsComeFirst
<1>6. chain'[s][m][1] = MissionStarted
  BY <1>3, <1>4, <1>5 DEF EventsOfMissions
<1> QED BY <1>1, <1>3, <1>5, <1>6 DEF EventsOfMissions

LEMMA ImportOfMissions ==
    ASSUME TravelInv, EventsOfMissions, NEW s \in Stores, NEW f \in Files, Import(s, f)
    PROVE  EventsOfMissions'
<1>1. PICK m \in Missions, log \in Seq(Events), t \in Stores :
          /\ log[1] = MissionStarted
          /\ known' = [known EXCEPT ![s] = @ \cup {m}]
          /\ chain' = [chain EXCEPT ![s][m] = log]
  BY ImportArrives
<1>2. /\ \A u \in Stores, n \in Missions :
            chain'[u][n] = IF u = s /\ n = m THEN log ELSE chain[u][n]
      /\ \A u \in Stores : known[u] \subseteq known'[u]
      /\ m \in known'[s]
  BY <1>1 DEF TravelInv, TablesOK
<1> QED BY <1>1, <1>2 DEF EventsOfMissions

\* If no claim is made for a mission before it exists, no chain is poisoned: every
\* chain begins with its mission, every mission a file knows verifies there, and no
\* list fails.  claim makes no such check (ledger.py claim, store.py append).
THEOREM NoOrphansNoPoison ==
    Spec /\ [][MissionsComeFirst]_vars =>
        [](/\ ChainsBeginWithTheirMission
           /\ \A s \in Stores : CanList(s) /\ \A m \in known[s] : Intact(s, m))
<1>1. Init => EventsOfMissions
  BY DEF Init, EventsOfMissions
<1>2. ASSUME TravelInv, EventsOfMissions, [Next]_vars, [MissionsComeFirst]_vars
      PROVE  EventsOfMissions'
  <2>1. CASE UNCHANGED <<known, chain>>
    BY <1>2, <2>1 DEF EventsOfMissions
  <2>2. CASE \E s \in Stores, f \in Files : Import(s, f)
    BY <1>2, <2>2, ImportOfMissions
  <2>3. ASSUME NEW s \in Stores, NEW m \in Missions, NEW e \in Events, Written(s, m, e)
        PROVE  EventsOfMissions'
    <3>1. CASE MissionsComeFirst
      BY <1>2, <2>3, <3>1, WrittenOfMissions
    <3>2. CASE UNCHANGED vars
      BY <2>1, <3>2 DEF vars, tables
    <3> QED BY <1>2, <3>1, <3>2
  <2> QED BY <1>2, <2>1, <2>2, <2>3, StepIsOneOf
          DEF vars, tables, BeginExport, FinishExport
<1>3. ASSUME TravelInv, EventsOfMissions
      PROVE  /\ ChainsBeginWithTheirMission
             /\ \A s \in Stores : CanList(s) /\ \A m \in known[s] : Intact(s, m)
  <2>1. ASSUME NEW s \in Stores, NEW m \in known[s]
        PROVE  chain[s][m][1] = MissionStarted /\ Intact(s, m)
    <3>1. m \in Missions /\ BeginningsOf(s, m)
      BY <1>3 DEF TravelInv, TablesOK, Beginnings
    <3>2. chain[s][m][1] = MissionStarted
      BY <1>3, <3>1 DEF BeginningsOf, EventsOfMissions
    <3> QED BY <1>3, <3>2, StartedIsIntact
  <2> QED BY <1>3, <2>1 DEF EventsOfMissions, ChainsBeginWithTheirMission, CanList
<1> QED BY <1>1, <1>2, <1>3, TravelInOrder, PTL DEF Spec

\* Missions are exported only when nothing in them waits for its outcome.
ExportsAreSettled ==
    \A s \in Stores : exporting'[s] \notin {exporting[s], NotExporting} =>
        Unsettled(exporting'[s].events) = {}

\* Then no capsule that can be imported brings an uncertain effect without its row.
SettledInTransit ==
    /\ \A s \in Stores : exporting[s] # NotExporting =>
          Unsettled(exporting[s].events) = {}
    /\ \A f \in Files : capsules[f] # NoFile /\ ~capsules[f].redacted =>
          Unsettled(capsules[f].events) = {}
    /\ \A s \in Stores, m \in Missions : Agrees(s, m)

LEMMA ImportOfSettled ==
    ASSUME TravelInv, SettledInTransit, NEW s \in Stores, NEW f \in Files, Import(s, f)
    PROVE  SettledInTransit'
<1> DEFINE m == capsules[f].mission
           log == capsules[f].events
<1>1. /\ capsules[f] # NoFile /\ ~capsules[f].redacted /\ chain[s][m] = <<>>
      /\ chain' = [chain EXCEPT ![s][m] = log]
      /\ UNCHANGED <<status, exporting, capsules>>
  BY DEF Import, Importable, Collides
<1>2. m \in Missions
  BY <1>1 DEF TravelInv, Carried, PastAt, TablesOK
<1>3. Unsettled(log) = {}
  BY <1>1 DEF SettledInTransit
<1>4. \A a \in Actions : status[s][m][a] = "none"
  BY <1>1, <1>2 DEF TravelInv, Beginnings, BeginningsOf
<1> HIDE DEF m, log
<1>5. \A t \in Stores, n \in Missions :
          chain'[t][n] = IF t = s /\ n = m THEN log ELSE chain[t][n]
  BY <1>1, <1>2 DEF TravelInv, TablesOK
<1>6. ASSUME NEW t \in Stores, NEW n \in Missions
      PROVE  Agrees(t, n)'
  <2>1. CASE t = s /\ n = m
    <3>1. chain'[t][n] = log
      BY <1>5, <2>1
    <3> QED BY <1>1, <1>3, <1>4, <2>1, <3>1 DEF Agrees
  <2>2. CASE ~ (t = s /\ n = m)
    <3>1. chain'[t][n] = chain[t][n] /\ Agrees(t, n)
      BY <1>5, <2>2 DEF SettledInTransit
    <3> QED BY <1>1, <3>1 DEF Agrees
  <2> QED BY <2>1, <2>2
<1> QED BY <1>1, <1>6 DEF SettledInTransit

LEMMA FinishOfSettled ==
    ASSUME TravelInv, SettledInTransit, NEW s \in Stores, FinishExport(s)
    PROVE  SettledInTransit'
<1> DEFINE log == exporting[s].events
<1>1. /\ UNCHANGED <<chain, status>>
      /\ exporting' = [exporting EXCEPT ![s] = NotExporting]
      /\ \A f \in Files : \/ capsules'[f] = capsules[f]
                          \/ capsules'[f].redacted
                          \/ capsules'[f].events = log
  BY DEF FinishExport, tables, TravelInv, TablesOK
<1>2. Unsettled(log) = {}
  BY DEF FinishExport, SettledInTransit
<1>3. \A t \in Stores : exporting'[t] = NotExporting \/ exporting'[t] = exporting[t]
  BY <1>1 DEF TravelInv, TablesOK
<1> HIDE DEF log
<1> QED BY <1>1, <1>2, <1>3 DEF SettledInTransit, Agrees

LEMMA SettledStep ==
    ASSUME TravelInv, SettledInTransit, [Next]_vars, [ExportsAreSettled]_vars
    PROVE  SettledInTransit'
<1>1. CASE UNCHANGED vars
  BY <1>1 DEF vars, tables, SettledInTransit, Agrees
<1>2. ASSUME NEW s \in Stores, NEW m \in Missions, NEW e \in Events, Written(s, m, e)
      PROVE  SettledInTransit'
  <2>1. UNCHANGED <<exporting, capsules>>
    BY <1>2 DEF Written
  <2>2. \A t \in Stores, n \in Missions : Agrees(t, n)'
    BY <1>2, WrittenAgrees DEF TravelInv, SettledInTransit
  <2> QED BY <2>1, <2>2 DEF SettledInTransit
<1>3. ASSUME NEW s \in Stores, NEW m \in Missions, BeginExport(s, m)
      PROVE  SettledInTransit'
  <2>1. /\ UNCHANGED <<chain, status, capsules>>
        /\ \A t \in Stores : t # s => exporting'[t] = exporting[t]
    BY <1>3 DEF BeginExport, tables, TravelInv, TablesOK
  <2>2. CASE UNCHANGED vars
    BY <1>1, <2>2
  <2>3. CASE ExportsAreSettled
    BY <1>3, <2>1, <2>3 DEF SettledInTransit, ExportsAreSettled, Agrees
  <2> QED BY <2>2, <2>3
<1> QED BY <1>1, <1>2, <1>3, StepIsOneOf, ImportOfSettled, FinishOfSettled

\* If only missions without an open effect are exported, an effect without an outcome
\* is never advised as safe on any machine, the one a mission was carried to included:
\* a capsule has no rows of table actions, so this is what the document's promise
\* needs (capsule.py export_capsule and import_capsule, recovery.py recover).
THEOREM SettledCapsulesKeepThePromise ==
    Spec /\ [][ExportsAreSettled]_vars => []UnresolvedBecomesReconcile
<1>1. Init => SettledInTransit
  BY DEF Init, SettledInTransit, Agrees, Unsettled
<1>2. ASSUME TravelInv, SettledInTransit
      PROVE  UnresolvedBecomesReconcile
  <2>1. ASSUME NEW s \in Stores, NEW m \in known[s], Unsettled(chain[s][m]) # {}
        PROVE  Advice(s, m).mode \notin SafeModes
    <3>1. m \in Missions
      BY <1>2 DEF TravelInv, TablesOK
    <3>2. UncertainRows(s, m) # {}
      BY <1>2, <2>1, <3>1 DEF SettledInTransit, Agrees, UncertainRows, Unsettled
    <3>3. CASE Intact(s, m)
      BY <1>2, <3>1, <3>2, <3>3, AdviceIsCautious DEF SafeModes
    <3>4. CASE ~ Intact(s, m)
      BY <3>4 DEF Advice, Abort, Decision, SafeModes
    <3> QED BY <3>3, <3>4
  <2> QED BY <2>1 DEF UnresolvedBecomesReconcile
<1> QED BY <1>1, <1>2, SettledStep, TravelInOrder, PTL DEF Spec
=============================================================================
