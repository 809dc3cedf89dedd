-------------------------- MODULE DatabaseFileProofs --------------------------
(***************************************************************************)
(* Theorems about the database file, for any number of pages, handles, jobs  *)
(* and backups.                                                              *)
(***************************************************************************)
EXTENDS DatabaseFile, TLAPS

Clean == [Pages -> 0..MaxVersions]
Logs == [Pages -> (0..MaxVersions) \cup {None}]
Possible == Clean \cup {None, Garbage}

JobRecords == [pc : JobLabels, backup : Backups \cup {None},
               temporary : Contents \cup {None}]

\* What a job holds: no copy before it is made, and none on its way to a name before
\* it was checked.
JobOK(r) ==
    /\ r \in JobRecords
    /\ r.temporary \in Possible
    /\ r.pc \in {"idle", "source", "backup", "checked"} => r.temporary = None
    /\ r.pc \in {"source", "copied out"} => Exists
    /\ r.pc \in {"backup", "checked"} => r.backup \in Backups
    /\ r.pc = "verified" => r.temporary \in Clean

\* Damage is confined to backups and to copies nobody has checked yet; without a
\* file there is neither a log nor a handle, and a log that was checkpointed says
\* what the file says.
Contained ==
    /\ main \in Clean \cup {None}
    /\ latest \in Clean \cup {None}
    /\ wal \in Logs
    /\ copied \in BOOLEAN
    /\ open \in SUBSET Handles
    /\ version \in 0..MaxVersions
    /\ archive \in [Backups -> Possible]
    /\ job \in [Jobs -> JobRecords]
    /\ \A j \in Jobs : JobOK(job[j])
    /\ ~Exists => wal = NoLog /\ open = {}
    /\ copied => \A p \in Pages : wal[p] \in {None, main[p]}

-----------------------------------------------------------------------------
(* Contents                                                                  *)

LEMMA CleanIsSound ==
    /\ Clean \subseteq Contents /\ Garbage \in Contents
    /\ Garbage \notin Clean \cup {None} /\ None \notin Clean
    /\ Empty \in Clean /\ NoLog \in Logs
    /\ NoJob \in JobRecords
<1>1. Clean \subseteq Contents /\ Garbage \in Contents
  BY DEF Clean, Contents, Garbage
<1>2. PICK p \in Pages : TRUE
  BY DatabaseConstantsOK
<1>3. Garbage \notin Clean
  <2>1. Garbage[p] = Rotten
    BY <1>2 DEF Garbage
  <2>2. \A f \in Clean : f[p] \in Nat
    BY <1>2, DatabaseConstantsOK DEF Clean
  <2> QED BY <2>1, <2>2, DatabaseConstantsOK
<1>4. None \notin Clean
  <2>1. Clean \subseteq [Pages -> Nat \cup {Rotten}]
    BY DatabaseConstantsOK DEF Clean
  <2> QED BY <2>1, DatabaseConstantsOK
<1>5. Empty \in Clean /\ NoLog \in Logs
  BY DatabaseConstantsOK DEF Empty, Clean, NoLog, Logs
<1>6. NoJob \in JobRecords
  BY DEF NoJob, JobRecords, JobLabels
<1>7. Garbage # None
  BY DatabaseConstantsOK DEF Garbage
<1> QED BY <1>1, <1>3, <1>4, <1>5, <1>6, <1>7

\* A file read through its log is as whole as both.
LEMMA ViewIsClean ==
    ASSUME main \in Clean, wal \in Logs
    PROVE  View \in Clean
BY DEF View, Clean, Logs

\* Without a log the file itself is read.
LEMMA ViewOfFile ==
    ASSUME main \in Clean, wal = NoLog
    PROVE  View = main
<1>1. \A p \in Pages : View[p] = main[p]
  BY DEF View, NoLog
<1>2. main = [p \in Pages |-> main[p]]
  BY DEF Clean
<1> QED BY <1>1, <1>2 DEF View

LEMMA ContainedInit == Init => Contained
<1> SUFFICES ASSUME Init PROVE Contained
  OBVIOUS
<1>1. NoJob \in JobRecords /\ NoLog \in Logs
  BY CleanIsSound
<1>2. \A j \in Jobs : JobOK(job[j])
  BY <1>1 DEF Init, NoJob, JobOK, Possible
<1>3. archive \in [Backups -> Possible] /\ job \in [Jobs -> JobRecords]
  BY <1>1 DEF Init, Possible
<1>4. version \in 0..MaxVersions
  BY DatabaseConstantsOK DEF Init
<1> QED BY <1>1, <1>2, <1>3, <1>4 DEF Init, Contained, Exists

-----------------------------------------------------------------------------
(* Steps of jobs that touch no file but their temporary one                  *)

LEMMA JobStep ==
    ASSUME Contained, NEW j \in Jobs, NEW r \in JobRecords, JobOK(r), Become(j, r),
           UNCHANGED <<files, open, archive, version, latest>>
    PROVE  Contained'
<1> USE DEF Contained
<1>1. job' \in [Jobs -> JobRecords] /\ \A i \in Jobs : job'[i] = IF i = j THEN r ELSE job[i]
  BY DEF Become
<1>2. main' = main /\ Exists' = Exists
  BY DEF files, Exists
<1>3. \A i \in Jobs : JobOK(job[i])'
  BY <1>1, <1>2 DEF JobOK
<1> QED BY <1>1, <1>2, <1>3 DEF files, Exists

LEMMA JobActions ==
    ASSUME Contained, NEW j \in Jobs,
           \/ Stop(j) \/ BeginBackup(j) \/ CopyOut(j)
           \/ CheckBackup(j) \/ CopyIn(j) \/ CheckCopy(j)
           \/ \E b \in Backups, overwrite \in BOOLEAN : BeginRestore(j, b, overwrite)
    PROVE  Contained'
<1> USE DEF Contained
<1>0. job[j] \in JobRecords /\ JobOK(job[j])
  OBVIOUS
<1>1. CASE Stop(j)
  <2>1. NoJob \in JobRecords /\ JobOK(NoJob)
    BY CleanIsSound DEF NoJob, JobOK, Possible
  <2> QED BY <1>1, <2>1, JobStep DEF Stop
<1>2. CASE BeginBackup(j)
  <2> DEFINE r == [job[j] EXCEPT !.pc = "source"]
  <2>1. job[j].pc = "idle" /\ Exists
    BY <1>2 DEF BeginBackup, At
  <2>2. r \in JobRecords /\ r.pc = "source" /\ r.temporary = None
    BY <1>0, <2>1 DEF JobRecords, JobLabels, JobOK
  <2>3. JobOK(r)
    BY <2>1, <2>2 DEF JobOK, Possible, Exists
  <2> QED BY <1>2, <2>2, <2>3, JobStep DEF BeginBackup, Goto
<1>3. CASE CopyOut(j)
  <2> DEFINE r == [job[j] EXCEPT !.pc = "copied out", !.temporary = Snapshot]
  <2>1. Exists /\ main \in Clean
    BY <1>0, <1>3 DEF CopyOut, At, JobOK, Exists
  <2>2. Snapshot \in Clean
    BY <2>1, ViewIsClean DEF Snapshot
  <2>3. r \in JobRecords /\ JobOK(r)
    BY <1>0, <2>1, <2>2, CleanIsSound DEF JobRecords, JobLabels, JobOK, Possible
  <2> QED BY <1>3, <2>3, JobStep DEF CopyOut
<1>4. CASE CheckBackup(j)
  <2> DEFINE r == [job[j] EXCEPT !.pc = "checked"]
  <2>1. r \in JobRecords /\ JobOK(r)
    BY <1>0, <1>4 DEF CheckBackup, At, JobRecords, JobLabels, JobOK
  <2> QED BY <1>4, <2>1, JobStep DEF CheckBackup, Goto
<1>5. CASE CopyIn(j)
  <2> DEFINE r == [job[j] EXCEPT !.pc = "copied in",
                                 !.temporary = archive[job[j].backup]]
  <2>1. job[j].backup \in Backups
    BY <1>0, <1>5 DEF CopyIn, At, JobOK
  <2>2. archive[job[j].backup] \in Possible
    BY <2>1
  <2>3. r \in JobRecords /\ JobOK(r)
    BY <1>0, <2>2, CleanIsSound DEF JobRecords, JobLabels, JobOK, Possible
  <2> QED BY <1>5, <2>3, JobStep DEF CopyIn
<1>6. CASE CheckCopy(j)
  <2> DEFINE r == [job[j] EXCEPT !.pc = "verified"]
  <2>1. job[j].temporary \in Clean
    BY <1>0, <1>6 DEF CheckCopy, Sound, JobOK, Possible
  <2>2. r \in JobRecords /\ JobOK(r)
    BY <1>0, <2>1 DEF JobRecords, JobLabels, JobOK
  <2> QED BY <1>6, <2>2, JobStep DEF CheckCopy, Goto
<1>7. ASSUME NEW b \in Backups, NEW overwrite \in BOOLEAN, BeginRestore(j, b, overwrite)
      PROVE  Contained'
  <2> DEFINE r == [pc |-> "backup", backup |-> b, temporary |-> None]
  <2>1. r \in JobRecords /\ JobOK(r)
    BY DEF JobRecords, JobLabels, JobOK, Possible
  <2> QED BY <1>7, <2>1, JobStep DEF BeginRestore
<1> QED BY <1>1, <1>2, <1>3, <1>4, <1>5, <1>6, <1>7

-----------------------------------------------------------------------------
(* Steps that touch a file                                                   *)

\* A file that was there stays there, so what jobs hold remains in order.
LEMMA JobsKept ==
    ASSUME Contained, job' = job, Exists => Exists'
    PROVE  job' \in [Jobs -> JobRecords] /\ \A j \in Jobs : JobOK(job[j])'
BY DEF Contained, JobOK

LEMMA HandleActions ==
    ASSUME Contained, NEW h \in Handles,
           \/ Open(h) \/ Checkpoint(h) \/ Close(h) \/ Kill(h)
           \/ \E written \in SUBSET Pages \ {{}} : Commit(h, written)
    PROVE  Contained'
<1> USE DEF Contained
<1>0. job' = job /\ archive' = archive
  BY DEF Open, Checkpoint, Close, Kill, Commit
<1>1. h \in open => Exists /\ main \in Clean /\ View \in Clean
  BY ViewIsClean DEF Exists
<1>2. CASE Open(h)
  <2>1. CASE UNCHANGED <<files, latest>>
    <3>1. Exists
      BY <1>2, <2>1, CleanIsSound DEF Open, files, Exists
    <3> QED BY <1>0, <1>2, <2>1, <3>1, JobsKept DEF Open, files, Exists
  <2>2. CASE ~Exists /\ main' = Empty /\ latest' = Empty /\ UNCHANGED <<wal, copied>>
    <3>1. Empty \in Clean /\ None \notin Clean
      BY CleanIsSound
    <3>2. Exists'
      BY <2>2, <3>1 DEF Exists
    <3>3. copied' => \A p \in Pages : wal'[p] \in {None, main'[p]}
      BY <2>2 DEF NoLog
    <3> QED BY <1>0, <1>2, <2>2, <3>1, <3>2, <3>3, JobsKept DEF Open
  <2> QED BY <1>2, <2>1, <2>2 DEF Open
<1>3. CASE Checkpoint(h)
  <2>1. main' = View /\ main' \in Clean /\ Exists /\ Exists'
    BY <1>1, <1>3, CleanIsSound DEF Checkpoint, Exists
  <2>2. \A p \in Pages : wal'[p] \in {None, main'[p]}
    BY <1>3 DEF Checkpoint, View
  <2> QED BY <1>0, <1>3, <2>1, <2>2, JobsKept DEF Checkpoint
<1>4. CASE Close(h)
  <2>1. h \in open /\ open' = open \ {h} /\ UNCHANGED <<version, latest>>
    BY <1>4 DEF Close
  <2>2. CASE UNCHANGED files
    BY <1>0, <1>1, <2>1, <2>2, JobsKept DEF files, Exists
  <2>3. CASE main' = View /\ wal' = NoLog /\ copied' = FALSE
    <3>1. main' \in Clean /\ Exists' /\ wal' \in Logs
      BY <1>1, <2>1, <2>3, CleanIsSound DEF Exists
    <3> QED BY <1>0, <2>1, <2>3, <3>1, JobsKept
  <2> QED BY <1>4, <2>2, <2>3 DEF Close
<1>5. CASE Kill(h)
  BY <1>0, <1>1, <1>5, JobsKept DEF Kill, files, Exists
<1>6. ASSUME NEW written \in SUBSET Pages, Commit(h, written)
      PROVE  Contained'
  <2>1. version + 1 \in 0..MaxVersions
    BY <1>6, DatabaseConstantsOK DEF Commit
  <2>2. h \in open /\ Exists /\ main' = main /\ open' = open
    BY <1>1, <1>6 DEF Commit
  <2>3. wal' \in Logs
    BY <1>6, <2>1 DEF Commit, Logs
  <2>4. latest' \in Clean
    BY <1>1, <1>6, <2>1, <2>2 DEF Commit, Clean
  <2> QED BY <1>0, <1>6, <2>1, <2>2, <2>3, <2>4, JobsKept DEF Commit, Exists
<1> QED BY <1>2, <1>3, <1>4, <1>5, <1>6

LEMMA PublishAndReplace ==
    ASSUME Contained, NEW j \in Jobs,
           Replace(j) \/ \E b \in Backups : Publish(j, b)
    PROVE  Contained'
<1> USE DEF Contained
<1>0. NoJob \in JobRecords /\ None \notin Clean
  BY CleanIsSound
<1>1. job' = [job EXCEPT ![j] = NoJob]
  BY DEF Replace, Publish, Become
<1>2. job' \in [Jobs -> JobRecords] /\ \A i \in Jobs : job'[i] = IF i = j THEN NoJob ELSE job[i]
  BY <1>0, <1>1
<1>3. ASSUME Exists => Exists'
      PROVE  \A i \in Jobs : JobOK(job[i])'
  <2> TAKE i \in Jobs
  <2>1. CASE i = j
    <3>1. job'[i] = NoJob
      BY <1>2, <2>1
    <3>2. job'[i] \in JobRecords /\ job'[i].pc = "idle" /\ job'[i].temporary = None
      BY <1>0, <3>1 DEF NoJob
    <3> QED BY <3>2 DEF JobOK, Possible
  <2>2. CASE i # j
    <3>1. job'[i] = job[i] /\ JobOK(job[i])
      BY <1>2, <2>2
    <3> QED BY <1>3, <3>1 DEF JobOK
  <2> QED BY <2>1, <2>2
<1>4. CASE Replace(j)
  <2>1. main' = job[j].temporary /\ main' \in Clean /\ Exists'
    BY <1>0, <1>4 DEF Replace, At, JobOK, Exists
  <2> QED BY <1>2, <1>3, <1>4, <2>1 DEF Replace
<1>5. ASSUME NEW b \in Backups, Publish(j, b)
      PROVE  Contained'
  <2>1. UNCHANGED <<files, open, version, latest>> /\ Exists' = Exists
    BY <1>5 DEF Publish, files, Exists
  <2>2. archive' \in [Backups -> Possible]
    BY <1>5 DEF Publish, JobOK
  <2> QED BY <1>2, <1>3, <2>1, <2>2 DEF files, Exists
<1> QED BY <1>4, <1>5

\* No step lets damage out.
LEMMA ContainedStep == Contained /\ [Next]_vars => Contained'
<1> SUFFICES ASSUME Contained, [Next]_vars PROVE Contained'
  OBVIOUS
<1>1. ASSUME NEW b \in Backups, Damage(b)
      PROVE  Contained'
  <2>1. archive' \in [Backups -> Possible]
    BY <1>1 DEF Damage, Contained, Possible
  <2>2. UNCHANGED <<files, open, job, version, latest>> /\ Exists' = Exists
    BY <1>1 DEF Damage, files, Exists
  <2> QED BY <2>1, <2>2, JobsKept DEF Contained, files, Exists
<1>2. CASE UNCHANGED vars
  BY <1>2, JobsKept DEF vars, files, Contained, Exists
<1> QED BY <1>1, <1>2, JobActions, HandleActions, PublishAndReplace DEF Next

-----------------------------------------------------------------------------

\* Files, handles and jobs keep their types, however many there are.
THEOREM DatabaseTypeCorrect == Spec => []TypeOK
<1>1. Contained => TypeOK
  <2>1. Possible \subseteq Contents \cup {None} /\ Clean \subseteq Contents
    BY CleanIsSound DEF Possible
  <2> QED BY <2>1 DEF Contained, TypeOK, JobRecords, Logs
<1> QED BY <1>1, ContainedInit, ContainedStep, PTL DEF Spec

\* restore_database: whatever happens to backups at whatever moment, and whoever
\* has the database open, no damaged copy is put at the path.
THEOREM DamageIsContained == Spec => []DamageStaysInItsBackup
<1>1. Contained => DamageStaysInItsBackup
  BY CleanIsSound DEF Contained, DamageStaysInItsBackup, Garbage, Possible
<1> QED BY <1>1, ContainedInit, ContainedStep, PTL DEF Spec

-----------------------------------------------------------------------------
(* Nobody has the database open when a restore replaces it                   *)

QuietInv == Contained /\ PathShowsTheLatest

\* The files of a committed, checkpointed, closed or killed database show the last
\* commit.
LEMMA HandleShows ==
    ASSUME QuietInv, NEW h \in Handles,
           \/ Open(h) \/ Checkpoint(h) \/ Close(h) \/ Kill(h)
           \/ \E written \in SUBSET Pages \ {{}} : Commit(h, written)
    PROVE  PathShowsTheLatest'
<1> USE DEF QuietInv
<1>1. h \in open => Exists /\ View = latest
  BY DEF Contained, PathShowsTheLatest
<1>2. CASE Open(h)
  <2>1. CASE UNCHANGED <<files, latest>>
    BY <2>1 DEF PathShowsTheLatest, View, files, Exists
  <2>2. CASE ~Exists /\ main' = Empty /\ latest' = Empty /\ UNCHANGED <<wal, copied>>
    <3>1. wal' = NoLog
      BY <2>2 DEF Contained
    <3>2. View' = Empty
      BY <2>2, <3>1 DEF View, NoLog, Empty
    <3> QED BY <2>2, <3>2 DEF PathShowsTheLatest
  <2> QED BY <1>2, <2>1, <2>2 DEF Open
<1>3. CASE Checkpoint(h)
  <2>1. h \in open /\ main' = View /\ wal' = wal /\ latest' = latest
    BY <1>3 DEF Checkpoint
  <2>2. View' = View
    BY <2>1 DEF View
  <2> QED BY <1>1, <2>1, <2>2 DEF PathShowsTheLatest
<1>4. CASE Close(h)
  <2>1. h \in open /\ latest' = latest
    BY <1>4 DEF Close
  <2>2. CASE UNCHANGED files
    BY <1>1, <2>1, <2>2 DEF PathShowsTheLatest, View, files
  <2>3. CASE main' = View /\ wal' = NoLog
    <3>1. View' = View
      BY <2>3 DEF View, NoLog
    <3> QED BY <1>1, <2>1, <3>1 DEF PathShowsTheLatest
  <2> QED BY <1>4, <2>2, <2>3 DEF Close
<1>5. CASE Kill(h)
  <2>1. h \in open /\ UNCHANGED <<files, latest>>
    BY <1>5 DEF Kill
  <2> QED BY <1>1, <2>1 DEF PathShowsTheLatest, View, files
<1>6. ASSUME NEW written \in SUBSET Pages, Commit(h, written)
      PROVE  PathShowsTheLatest'
  <2>1. h \in open /\ main' = main /\ version + 1 # None
    BY <1>6, DatabaseConstantsOK DEF Commit, Contained
  <2>2. ASSUME NEW p \in Pages
        PROVE  latest'[p] = IF wal'[p] = None THEN main'[p] ELSE wal'[p]
    <3>1. wal'[p] = IF p \in written THEN version + 1 ELSE IF copied THEN None ELSE wal[p]
      BY <1>6 DEF Commit
    <3>2. latest'[p] = IF p \in written THEN version + 1 ELSE View[p]
      BY <1>6 DEF Commit
    <3>3. View[p] = IF wal[p] = None THEN main[p] ELSE wal[p]
      BY DEF View
    <3>4. copied => wal[p] \in {None, main[p]}
      BY DEF Contained
    <3> QED BY <2>1, <3>1, <3>2, <3>3, <3>4
  <2>3. latest' = [p \in Pages |-> latest'[p]]
    BY <1>6 DEF Commit
  <2>4. View' = latest'
    BY <2>2, <2>3 DEF View
  <2> QED BY <2>4 DEF PathShowsTheLatest
<1> QED BY <1>2, <1>3, <1>4, <1>5, <1>6

\* A restore of a database that nobody is on, with no log left beside it, shows what
\* was restored.
LEMMA ReplaceShows ==
    ASSUME QuietRestore, Contained, NEW j \in Jobs, Replace(j)
    PROVE  PathShowsTheLatest'
<1>1. job[j].temporary \in Clean /\ wal = NoLog
  BY DEF Replace, Quiet, At, Contained, JobOK
<1>2. main' \in Clean /\ wal' = NoLog /\ latest' = main'
  BY <1>1 DEF Replace
<1>3. View' = main'
  BY <1>2 DEF View, NoLog, Clean
<1> QED BY <1>2, <1>3 DEF PathShowsTheLatest

LEMMA QuietStep ==
    ASSUME QuietRestore
    PROVE  QuietInv /\ [Next]_vars => QuietInv'
<1> SUFFICES ASSUME QuietInv, [Next]_vars PROVE PathShowsTheLatest'
  BY ContainedStep DEF QuietInv
<1>1. CASE UNCHANGED <<files, latest>>
  BY <1>1 DEF QuietInv, PathShowsTheLatest, View, Exists, files
<1>2. ASSUME NEW j \in Jobs,
             \/ Stop(j) \/ BeginBackup(j) \/ CopyOut(j)
             \/ CheckBackup(j) \/ CopyIn(j) \/ CheckCopy(j)
             \/ \E b \in Backups : Publish(j, b)
             \/ \E b \in Backups, overwrite \in BOOLEAN : BeginRestore(j, b, overwrite)
      PROVE  UNCHANGED <<files, latest>>
  BY <1>2 DEF Stop, BeginBackup, CopyOut, CheckBackup, CopyIn, CheckCopy, Publish,
              BeginRestore
<1>3. (\E b \in Backups : Damage(b)) \/ UNCHANGED vars => UNCHANGED <<files, latest>>
  BY DEF Damage, vars
<1> QED BY <1>1, <1>2, <1>3, HandleShows, ReplaceShows DEF Next, QuietInv

LEMMA QuietInit == Init => QuietInv
BY ContainedInit DEF QuietInv, Init, PathShowsTheLatest, Exists

\* restore_database is atomic when nobody is on the database it replaces and that
\* database was closed cleanly, whatever happened since the restore began: what is
\* read at the path is always the last commit or the last completed restore,
\* whatever was killed or stopped, for any number of processes.
THEOREM QuietRestoreIsAtomic ==
    ASSUME QuietRestore
    PROVE  Spec => []PathShowsTheLatest
<1>1. QuietInv => PathShowsTheLatest
  BY DEF QuietInv
<1> QED BY <1>1, QuietInit, QuietStep, PTL DEF Spec

\* backup_database: a backup taken from a database in use, with commits in its log,
\* holds the last commit before the copy.
THEOREM QuietBackupIsCurrent ==
    ASSUME QuietRestore
    PROVE  Spec => BackupHoldsTheLatest
<1> DEFINE Holds == \A j \in Jobs :
               At(j, "source") /\ job'[j].pc = "copied out" => job'[j].temporary = latest
<1>1. QuietInv /\ [Next]_vars => [Holds]_vars
  <2> SUFFICES ASSUME QuietInv, Next, NEW j \in Jobs,
                      At(j, "source"), job'[j].pc = "copied out"
               PROVE  job'[j].temporary = latest
    OBVIOUS
  <2>1. job \in [Jobs -> JobRecords] /\ job'[j] # job[j]
    BY DEF QuietInv, Contained, At
  <2>2. NoJob.pc = "idle"
    BY DEF NoJob
  <2>3. CopyOut(j)
    <3>1. \A h \in Handles :
             ~(\/ Open(h) \/ Checkpoint(h) \/ Close(h) \/ Kill(h)
               \/ \E written \in SUBSET Pages \ {{}} : Commit(h, written))
      BY <2>1 DEF Open, Checkpoint, Close, Kill, Commit
    <3>2. \A b \in Backups : ~Damage(b)
      BY <2>1 DEF Damage
    <3>3. \A i \in Jobs \ {j} :
             ~(\/ Stop(i) \/ BeginBackup(i) \/ CopyOut(i) \/ CheckBackup(i)
               \/ CopyIn(i) \/ CheckCopy(i) \/ Replace(i)
               \/ \E b \in Backups : \/ Publish(i, b)
                                     \/ \E o \in BOOLEAN : BeginRestore(i, b, o))
      BY <2>1 DEF Stop, BeginBackup, CopyOut, CheckBackup, CopyIn, CheckCopy, Replace,
                  Publish, BeginRestore, Become, Goto
    <3>4. ~Stop(j) /\ ~Replace(j) /\ \A b \in Backups : ~Publish(j, b)
      BY <2>1, <2>2 DEF Stop, Replace, Publish, Become
    <3>5. ~BeginBackup(j) /\ ~CheckBackup(j) /\ ~CopyIn(j) /\ ~CheckCopy(j)
      BY DEF BeginBackup, CheckBackup, CopyIn, CheckCopy, At
    <3>6. \A b \in Backups, o \in BOOLEAN : ~BeginRestore(j, b, o)
      BY DEF BeginRestore, At
    <3> QED BY <3>1, <3>2, <3>3, <3>4, <3>5, <3>6 DEF Next
  <2>4. Exists
    BY DEF QuietInv, Contained, JobOK, At
  <2> QED BY <2>1, <2>3, <2>4
          DEF CopyOut, Become, Snapshot, QuietInv, PathShowsTheLatest, JobRecords
<1> QED BY <1>1, QuietInit, QuietStep, PTL DEF Spec, BackupHoldsTheLatest

-----------------------------------------------------------------------------
(* The promise of DurableDatabase                                            *)

Content == IF Exists THEN View ELSE None

\* The contents saved when a job changes its own record: what it holds then instead
\* of what it held.
LEMMA CopiesOfJob ==
    ASSUME Contained, NEW j \in Jobs, NEW r \in JobRecords, Become(j, r), archive' = archive
    PROVE  /\ Copies' \subseteq Copies \cup ({r.temporary} \ {None, Garbage})
           /\ job[j].temporary = None =>
                 Copies' = Copies \cup ({r.temporary} \ {None, Garbage})
<1>1. \A i \in Jobs : job'[i] = IF i = j THEN r ELSE job[i]
  BY DEF Become, Contained
<1>2. \A x : x \in Copies' =>
          x \in Copies \/ (x = r.temporary /\ x \notin {None, Garbage})
  BY <1>1 DEF Copies, Garbage
<1>3. ASSUME job[j].temporary = None
      PROVE  \A x : x \in Copies \/ (x = r.temporary /\ x \notin {None, Garbage})
                       => x \in Copies'
  <2>1. ASSUME NEW x \in Copies
        PROVE  x \in Copies'
    <3>1. x \notin {None, Garbage}
      BY DEF Copies
    <3>2. CASE \E b \in Backups : x = archive[b]
      BY <3>1, <3>2 DEF Copies, Garbage
    <3>3. CASE \E i \in Jobs : x = job[i].temporary
      <4>1. PICK i \in Jobs : x = job[i].temporary
        BY <3>3
      <4>2. i # j
        BY <1>3, <3>1, <4>1
      <4>3. x = job'[i].temporary
        BY <1>1, <4>1, <4>2
      <4> QED BY <3>1, <4>3 DEF Copies, Garbage
    <3> QED BY <3>2, <3>3 DEF Copies
  <2>2. r.temporary \notin {None, Garbage} => r.temporary \in Copies'
    <3>1. job'[j].temporary = r.temporary
      BY <1>1
    <3> QED BY <3>1 DEF Copies, Garbage
  <2> QED BY <2>1, <2>2
<1> QED BY <1>2, <1>3

\* What handles do is a commit, the creation of the database, or nothing.
LEMMA HandlesAreDurable ==
    ASSUME QuietInv, QuietInv', NEW h \in Handles,
           \/ Open(h) \/ Checkpoint(h) \/ Close(h) \/ Kill(h)
           \/ \E written \in SUBSET Pages \ {{}} : Commit(h, written)
    PROVE  [Durable!Next]_(Durable!vars)
<1>1. Copies' = Copies
  BY DEF Open, Checkpoint, Close, Kill, Commit, Copies, Garbage
<1>2. /\ Content = IF Exists THEN latest ELSE None
      /\ Content' = IF Exists' THEN latest' ELSE None
  BY DEF QuietInv, PathShowsTheLatest, Content
<1>3. /\ h \in open => Exists
      /\ open' # {} => Exists'
      /\ main \in Clean => main # None
      /\ Exists => View \in Clean /\ View # None /\ latest # None
  BY CleanIsSound, ViewIsClean DEF QuietInv, Contained, Exists, PathShowsTheLatest
<1>4. ASSUME Exists' = Exists, latest' = latest, version' = version
      PROVE  UNCHANGED Durable!vars
  BY <1>1, <1>2, <1>4 DEF Durable!vars, Content
<1>5. CASE Open(h)
  <2>1. Exists' /\ version' = version
    BY <1>3, <1>5 DEF Open
  <2>2. CASE UNCHANGED <<files, latest>>
    BY <1>4, <2>1, <2>2 DEF files, Exists
  <2>3. CASE ~Exists /\ latest' = Empty
    <3>1. Durable!Create
      BY <1>1, <1>2, <2>1, <2>3 DEF Durable!Create, Content, Empty
    <3> QED BY <3>1 DEF Durable!Next
  <2> QED BY <1>5, <2>2, <2>3 DEF Open
<1>6. CASE Checkpoint(h)
  <2>1. Exists' /\ Exists /\ version' = version /\ latest' = latest
    BY <1>3, <1>6 DEF Checkpoint
  <2> QED BY <1>4, <2>1
<1>7. CASE Close(h) \/ Kill(h)
  <2>1. Exists /\ main' \in {main, View} /\ version' = version /\ latest' = latest
    BY <1>3, <1>7 DEF Close, Kill, files
  <2>2. Exists'
    BY <1>3, <2>1 DEF Exists
  <2> QED BY <1>4, <2>1, <2>2
<1>8. ASSUME NEW written \in SUBSET Pages \ {{}}, Commit(h, written)
      PROVE  Durable!Commit
  <2>1. /\ Exists /\ Exists' /\ version' = version + 1
        /\ latest' = [p \in Pages |-> IF p \in written THEN version + 1 ELSE View[p]]
    BY <1>3, <1>8 DEF Commit
  <2>2. Content = View /\ View # None /\ Content' = latest'
    BY <1>2, <1>3, <2>1 DEF Content
  <2>3. Content' = [p \in Pages |-> IF p \in written THEN version + 1 ELSE Content[p]]
    BY <2>1, <2>2
  <2> QED BY <1>1, <2>1, <2>2, <2>3 DEF Durable!Commit, Content
<1> QED BY <1>5, <1>6, <1>7, <1>8 DEF Durable!Next

\* A job that touches no file but its temporary one saves the content as it is, or
\* loses a copy, or does nothing.
LEMMA JobsAreDurable ==
    ASSUME QuietInv, NEW j \in Jobs,
           \/ Stop(j) \/ BeginBackup(j) \/ CopyOut(j)
           \/ CheckBackup(j) \/ CopyIn(j) \/ CheckCopy(j)
           \/ \E b \in Backups : Publish(j, b)
           \/ \E b \in Backups, overwrite \in BOOLEAN : BeginRestore(j, b, overwrite)
    PROVE  [Durable!Next]_(Durable!vars)
<1> USE DEF QuietInv
<1>1. UNCHANGED <<Content, version>>
  BY DEF Stop, BeginBackup, CopyOut, CheckBackup, CopyIn, CheckCopy, Publish, BeginRestore,
         files, Content, Exists, View
<1>2. job[j] \in JobRecords /\ JobOK(job[j]) /\ NoJob \in JobRecords /\ NoJob.temporary = None
  BY CleanIsSound DEF Contained, NoJob
<1>3. ASSUME Copies' \subseteq Copies
      PROVE  Durable!Next
  BY <1>1, <1>3 DEF Durable!Next, Durable!Lose, Content
<1>4. CASE Stop(j)
  BY <1>2, <1>3, <1>4, CopiesOfJob DEF Stop
<1>5. CASE BeginBackup(j) \/ CheckBackup(j) \/ CheckCopy(j)
  <2> PICK l \in JobLabels : Goto(j, l) /\ archive' = archive
    BY <1>5 DEF BeginBackup, CheckBackup, CheckCopy, JobLabels
  <2> DEFINE r == [job[j] EXCEPT !.pc = l]
  <2>1. r \in JobRecords /\ r.temporary = job[j].temporary /\ Become(j, r)
    BY <1>2 DEF JobRecords, Goto
  <2>2. job[j].temporary \in Copies \cup {None, Garbage}
    BY DEF Copies
  <2> HIDE DEF r
  <2>3. Copies' \subseteq Copies
    BY <2>1, <2>2, CopiesOfJob
  <2> QED BY <1>3, <2>3
<1>6. CASE CopyOut(j)
  <2> DEFINE r == [job[j] EXCEPT !.pc = "copied out", !.temporary = Snapshot]
  <2>1. Exists /\ View \in Clean /\ job[j].temporary = None
    BY <1>2, <1>6, ViewIsClean DEF CopyOut, At, JobOK, Contained, Exists
  <2>2. View \notin {None, Garbage} /\ View \in Contents
    BY <2>1, CleanIsSound
  <2>3. r \in JobRecords /\ r.temporary = View /\ Become(j, r) /\ archive' = archive
    BY <1>2, <1>6, <2>2 DEF CopyOut, JobRecords, JobLabels, Snapshot
  <2> HIDE DEF r
  <2>4. Copies' = Copies \cup {View}
    BY <2>1, <2>2, <2>3, CopiesOfJob
  <2>5. Durable!Backup
    BY <1>1, <2>1, <2>2, <2>4 DEF Durable!Backup, Content
  <2> QED BY <2>5 DEF Durable!Next
<1>7. CASE CopyIn(j)
  <2> DEFINE r == [job[j] EXCEPT !.pc = "copied in",
                                 !.temporary = archive[job[j].backup]]
  <2>1. job[j].backup \in Backups
    BY <1>2, <1>7 DEF CopyIn, At, JobOK
  <2>2. archive[job[j].backup] \in Contents \cup {None}
    BY <2>1, CleanIsSound DEF Contained, Possible
  <2>3. /\ r \in JobRecords /\ r.temporary = archive[job[j].backup]
        /\ Become(j, r) /\ archive' = archive
    BY <1>2, <1>7, <2>2 DEF CopyIn, JobRecords, JobLabels
  <2>4. archive[job[j].backup] \in Copies \cup {None, Garbage}
    BY <2>1 DEF Copies
  <2> HIDE DEF r
  <2>5. Copies' \subseteq Copies
    BY <2>3, <2>4, CopiesOfJob
  <2> QED BY <1>3, <2>5
<1>8. ASSUME NEW b \in Backups, Publish(j, b)
      PROVE  Copies' \subseteq Copies
  <2>1. \A i \in Jobs : job'[i] = IF i = j THEN NoJob ELSE job[i]
    BY <1>8 DEF Publish, Become, Contained
  <2>2. \A c \in Backups : archive'[c] = IF c = b THEN job[j].temporary ELSE archive[c]
    BY <1>8 DEF Publish, Contained
  <2> QED BY <1>2, <2>1, <2>2 DEF Copies, Garbage
<1>9. ASSUME NEW b \in Backups, NEW overwrite \in BOOLEAN, BeginRestore(j, b, overwrite)
      PROVE  Copies' \subseteq Copies
  <2> DEFINE r == [pc |-> "backup", backup |-> b, temporary |-> None]
  <2>1. r \in JobRecords /\ r.temporary = None /\ Become(j, r) /\ archive' = archive
    BY <1>9 DEF BeginRestore, JobRecords, JobLabels
  <2> HIDE DEF r
  <2> QED BY <2>1, CopiesOfJob
<1> QED BY <1>3, <1>4, <1>5, <1>6, <1>7, <1>8, <1>9

\* A restore puts at the path a copy that was saved.
LEMMA ReplaceIsDurable ==
    ASSUME QuietInv, QuietInv', NEW j \in Jobs, Replace(j)
    PROVE  Durable!Restore
<1>1. job[j] \in JobRecords /\ job[j].temporary \in Clean
  BY DEF Replace, At, QuietInv, Contained, JobOK
<1>2. job[j].temporary \notin {None, Garbage}
  BY <1>1, CleanIsSound
<1>3. job[j].temporary \in Copies
  BY <1>2 DEF Copies
<1>4. main' = job[j].temporary /\ latest' = job[j].temporary /\ version' = version
      /\ Become(j, NoJob) /\ archive' = archive
  BY DEF Replace
<1>5. Exists'
  BY <1>2, <1>4 DEF Exists
<1>6. Content' \in Copies
  BY <1>3, <1>4, <1>5 DEF QuietInv, PathShowsTheLatest, Content
<1>7. Copies' \subseteq Copies
  BY <1>4, CleanIsSound, CopiesOfJob DEF NoJob, QuietInv
<1> QED BY <1>4, <1>6, <1>7 DEF Durable!Restore, Content

\* Files, log and handles, and the steps of backups and restores, of any number of
\* processes killed at any step, implement the promise of DurableDatabase when nobody
\* has the database open, and no log is left, at the moment a restore replaces it.
THEOREM QuietDatabaseIsDurable ==
    ASSUME QuietRestore
    PROVE  Spec => ImplementsDurableDatabase
<1>1. Init => Durable!Init
  <2> SUFFICES ASSUME Init PROVE Durable!Init
    OBVIOUS
  <2>1. NoJob.temporary = None
    BY DEF NoJob
  <2>2. Copies = {}
    BY <2>1 DEF Init, Copies
  <2> QED BY <2>2 DEF Init, Durable!Init, Exists
<1>2. QuietInv /\ QuietInv' /\ [Next]_vars => [Durable!Next]_(Durable!vars)
  <2> SUFFICES ASSUME QuietInv, QuietInv', [Next]_vars
               PROVE  [Durable!Next]_(Durable!vars)
    OBVIOUS
  <2>1. ASSUME NEW b \in Backups, Damage(b)
        PROVE  Durable!Lose
    <3>1. \A c \in Backups : archive'[c] = IF c = b THEN Garbage ELSE archive[c]
      BY <2>1 DEF Damage, QuietInv, Contained
    <3>2. UNCHANGED <<files, job, version>>
      BY <2>1 DEF Damage
    <3>3. Copies' \subseteq Copies
      BY <3>1, <3>2 DEF Copies, Garbage
    <3> QED BY <3>2, <3>3 DEF Durable!Lose, files, Exists, View
  <2>2. CASE UNCHANGED vars
    BY <2>2 DEF vars, files, Durable!vars, Exists, View, Copies, Garbage
  <2> QED BY <2>1, <2>2, HandlesAreDurable, JobsAreDurable, ReplaceIsDurable
          DEF Next, Durable!Next
<1> QED BY <1>1, <1>2, QuietInit, QuietStep, PTL
        DEF Spec, ImplementsDurableDatabase, Durable!Spec
=============================================================================
