----------------------------- MODULE DatabaseFile -----------------------------
(***************************************************************************)
(* The database file: handles that open, write and close it (store.py), and   *)
(* the backups that are taken from it and restored over it (operations.py).  *)
(*                                                                           *)
(* What SQLite does is external and modelled as far as it decides what is    *)
(* read: a commit goes to the write-ahead log beside the file; a checkpoint  *)
(* copies the log into the file and leaves the log in place until the next   *)
(* commit starts it afresh; the last handle to close checkpoints and deletes *)
(* the log, a process that is killed does not.  Whoever opens the path reads *)
(* the file through the log it finds there.                                  *)
(***************************************************************************)
EXTENDS Integers

CONSTANTS
    Pages,         \* pages of a database
    Handles,       \* processes that may have the database open
    Jobs,          \* processes that take or restore a backup
    Backups,       \* backup files
    None,          \* no file, or a page that is not in the log
    Rotten,        \* a page of a damaged file
    QuietRestore,  \* TRUE: nobody has the database open, and no log is left beside
                   \* it, at the moment a restore replaces it
    MaxVersions    \* bound on the number of commits

ASSUME DatabaseConstantsOK ==
    /\ Pages # {} /\ QuietRestore \in BOOLEAN /\ MaxVersions \in Nat
    /\ None \notin Nat \cup {Rotten} /\ Rotten \notin Nat
    /\ None \notin [Pages -> Nat \cup {Rotten}]

VARIABLES
    main,          \* contents of the file at the path
    wal,           \* the pages of the log beside it
    copied,        \* the log has been checkpointed
    open,          \* handles on the database
    archive,       \* contents of the backup files
    job,           \* each job: its next step and its locals
    version,       \* number of commits so far
    latest         \* history: the last commit, or restore, that succeeded

files == <<main, wal, copied>>
vars == <<files, open, archive, job, version, latest>>

Contents == [Pages -> (0..MaxVersions) \cup {Rotten}]
NoLog == [p \in Pages |-> None]
Empty == [p \in Pages |-> 0]
Garbage == [p \in Pages |-> Rotten]

Exists == main # None

\* What is read at the path.
View == [p \in Pages |-> IF wal[p] = None THEN main[p] ELSE wal[p]]

JobLabels == {"idle", "source", "copied out", "backup", "checked", "copied in", "verified"}

NoJob == [pc |-> "idle", backup |-> None, temporary |-> None]

Become(j, r) == job' = [job EXCEPT ![j] = r]
Goto(j, l) == Become(j, [job[j] EXCEPT !.pc = l])
At(j, l) == job[j].pc = l

\* A job raises, or its process dies: no file but its temporary one was touched.
Stop(j) ==
    /\ ~At(j, "idle")
    /\ Become(j, NoJob)
    /\ UNCHANGED <<files, open, archive, version, latest>>

Init ==
    /\ main = None /\ wal = NoLog /\ copied = FALSE
    /\ open = {}
    /\ archive = [b \in Backups |-> None]
    /\ job = [j \in Jobs |-> NoJob]
    /\ version = 0
    /\ latest = None

-----------------------------------------------------------------------------
(* Handles                                                                   *)

\* EverRunStore(path): the file is created with its schema if there is none.
Open(h) ==
    /\ h \notin open
    /\ open' = open \cup {h}
    /\ \/ Exists /\ UNCHANGED <<files, latest>>
       \/ /\ ~Exists
          /\ main' = Empty /\ latest' = Empty
          /\ UNCHANGED <<wal, copied>>
    /\ UNCHANGED <<archive, job, version>>

\* A transaction that commits; its pages join the log, or begin a new one.
Commit(h, written) ==
    /\ h \in open /\ version < MaxVersions
    /\ version' = version + 1
    /\ wal' = [p \in Pages |-> IF p \in written THEN version + 1
                               ELSE IF copied THEN None ELSE wal[p]]
    /\ copied' = FALSE
    /\ latest' = [p \in Pages |-> IF p \in written THEN version + 1 ELSE View[p]]
    /\ UNCHANGED <<main, open, archive, job>>

Checkpoint(h) ==
    /\ h \in open /\ wal # NoLog
    /\ main' = View
    /\ copied' = TRUE
    /\ UNCHANGED <<wal, open, archive, job, version, latest>>

Close(h) ==
    /\ h \in open
    /\ open' = open \ {h}
    /\ \/ open # {h} /\ UNCHANGED files
       \/ /\ open = {h}
          /\ main' = View /\ wal' = NoLog /\ copied' = FALSE
    /\ UNCHANGED <<archive, job, version, latest>>

Kill(h) ==
    /\ h \in open
    /\ open' = open \ {h}
    /\ UNCHANGED <<files, archive, job, version, latest>>

-----------------------------------------------------------------------------
(* Backup                                                                    *)

BeginBackup(j) ==
    /\ At(j, "idle") /\ Exists
    /\ Goto(j, "source")
    /\ UNCHANGED <<files, open, archive, version, latest>>

\* Faulty variant: the file is copied without the log beside it.
SnapshotOfFile == main

\* The online backup copies every page under one read transaction.
Snapshot == View

CopyOut(j) ==
    /\ At(j, "source")
    /\ Become(j, [job[j] EXCEPT !.pc = "copied out", !.temporary = Snapshot])
    /\ UNCHANGED <<files, open, archive, version, latest>>

\* Faulty variant: whatever can be opened is taken to be sound.
SoundIfPresent(contents) == contents # None

\* PRAGMA integrity_check on a file opened read-only.
Sound(contents) == contents # None /\ contents # Garbage

\* The temporary file becomes a backup under a name of its own.
Publish(j, b) ==
    /\ At(j, "copied out") /\ Sound(job[j].temporary)
    /\ archive[b] = None
    /\ archive' = [archive EXCEPT ![b] = job[j].temporary]
    /\ Become(j, NoJob)
    /\ UNCHANGED <<files, open, version, latest>>

\* A backup file goes bad where it is kept.
Damage(b) ==
    /\ archive[b] # None
    /\ archive' = [archive EXCEPT ![b] = Garbage]
    /\ UNCHANGED <<files, open, job, version, latest>>

-----------------------------------------------------------------------------
(* Restore                                                                   *)

\* The database may be there by the time it is replaced: nothing looks again.
MayReplace(overwrite) == Exists => overwrite

BeginRestore(j, b, overwrite) ==
    /\ At(j, "idle")
    /\ archive[b] # None
    /\ MayReplace(overwrite)
    /\ Become(j, [pc |-> "backup", backup |-> b, temporary |-> None])
    /\ UNCHANGED <<files, open, archive, version, latest>>

CheckBackup(j) ==
    /\ At(j, "backup") /\ Sound(archive[job[j].backup])
    /\ Goto(j, "checked")
    /\ UNCHANGED <<files, open, archive, version, latest>>

\* Faulty variant: the backup itself, and no copy of it, is on its way to the path.
CopyInNothing(j) ==
    /\ At(j, "checked")
    /\ Become(j, [job[j] EXCEPT !.pc = "copied in", !.temporary = job[j].backup])
    /\ UNCHANGED <<files, open, archive, version, latest>>

CopyIn(j) ==
    /\ At(j, "checked")
    /\ Become(j, [job[j] EXCEPT !.pc = "copied in", !.temporary = archive[job[j].backup]])
    /\ UNCHANGED <<files, open, archive, version, latest>>

CheckCopy(j) ==
    /\ At(j, "copied in") /\ Sound(job[j].temporary)
    /\ Goto(j, "verified")
    /\ UNCHANGED <<files, open, archive, version, latest>>

\* The discipline of whoever runs a restore, which nothing in the code enforces.
Quiet == QuietRestore => open = {} /\ wal = NoLog

\* Faulty variant: the pages are written into the file, and the process may die
\* after some of them.
ReplaceInPlace(j) ==
    /\ At(j, "verified") /\ Quiet
    /\ \E written \in SUBSET Pages :
          main' = [p \in Pages |-> IF Exists /\ p \notin written THEN main[p]
                                   ELSE job[j].temporary[p]]
    /\ latest' = job[j].temporary
    /\ copied' = FALSE /\ open' = {}
    /\ Become(j, NoJob)
    /\ UNCHANGED <<wal, archive, version>>

\* os.replace: another file at the same path.  A log that is there stays, and is
\* not one of the new file.  Handles on the old file are not followed any further.
Replace(j) ==
    /\ At(j, "verified") /\ Quiet
    /\ main' = job[j].temporary
    /\ latest' = job[j].temporary
    /\ copied' = FALSE /\ open' = {}
    /\ Become(j, NoJob)
    /\ UNCHANGED <<wal, archive, version>>

Next ==
    \/ \E h \in Handles :
          \/ Open(h) \/ Checkpoint(h) \/ Close(h) \/ Kill(h)
          \/ \E written \in SUBSET Pages \ {{}} : Commit(h, written)
    \/ \E j \in Jobs :
          \/ BeginBackup(j) \/ CopyOut(j)
          \/ CheckBackup(j) \/ CopyIn(j) \/ CheckCopy(j) \/ Replace(j)
          \/ Stop(j)
          \/ \E b \in Backups :
                \/ Publish(j, b)
                \/ \E overwrite \in BOOLEAN : BeginRestore(j, b, overwrite)
    \/ \E b \in Backups : Damage(b)

Spec == Init /\ [][Next]_vars

-----------------------------------------------------------------------------
(* Properties                                                                *)

TypeOK ==
    /\ main \in Contents \cup {None}
    /\ wal \in [Pages -> (0..MaxVersions) \cup {None}]
    /\ copied \in BOOLEAN
    /\ open \in SUBSET Handles
    /\ archive \in [Backups -> Contents \cup {None}]
    /\ job \in [Jobs -> [pc : JobLabels, backup : Backups \cup {None},
                         temporary : Contents \cup {None}]]
    /\ version \in 0..MaxVersions
    /\ latest \in Contents \cup {None}

\* "Restore is atomic, integrity-checked, and refuses accidental overwrite"
\* (REQUIREMENTS.md).  Atomic: what is read at the path is the last commit, or the
\* last restore, that succeeded; whole, whoever was killed or stopped since.  (The
\* refusal rests on a look at the path before the copying, which Replace does not
\* repeat: what was created in between is overwritten all the same.)
PathShowsTheLatest == Exists => View = latest

\* Integrity-checked: no damage of a backup, whenever it strikes, reaches the path.
DamageStaysInItsBackup == main # Garbage

\* A backup of a database in use holds the last commit before it was copied,
\* wherever that commit is: in the file or still in the log.
BackupHoldsTheLatest ==
    [][\A j \in Jobs :
          At(j, "source") /\ job'[j].pc = "copied out" => job'[j].temporary = latest]_vars

-----------------------------------------------------------------------------
(* The promise                                                               *)

\* The contents there is an intact copy of: a backup, or a copy under way.
Copies ==
    ({archive[b] : b \in Backups} \cup {job[j].temporary : j \in Jobs}) \ {None, Garbage}

Durable == INSTANCE DurableDatabase WITH
    content <- IF Exists THEN View ELSE None,
    saved <- Copies,
    count <- version

\* Files, log, handles, and the steps of backups and restores, any of them killed,
\* implement one content that only whole commits and whole restores change, a
\* restore into what the content was when some copy of it was taken.
ImplementsDurableDatabase == Durable!Spec
=============================================================================
