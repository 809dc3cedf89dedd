--------------------------- MODULE DurableDatabase ---------------------------
(***************************************************************************)
(* What a database and its backups promise, without files, logs, handles and *)
(* the steps a backup or a restore takes: one content, which whole commits   *)
(* and whole restores change, and the contents that were saved.              *)
(***************************************************************************)
EXTENDS Integers

CONSTANTS
    Pages,         \* pages of a database
    None           \* no database

VARIABLES
    content,       \* what whoever opens the database reads
    saved,         \* the contents there is an intact copy of
    count          \* number of commits so far

vars == <<content, saved, count>>

Init ==
    /\ content = None
    /\ saved = {}
    /\ count = 0

Create ==
    /\ content = None
    /\ content' = [p \in Pages |-> 0]
    /\ UNCHANGED <<saved, count>>

\* A commit changes some pages, all of them at once.
Commit ==
    /\ content # None
    /\ count' = count + 1
    /\ \E written \in SUBSET Pages \ {{}} :
          content' = [p \in Pages |-> IF p \in written THEN count + 1 ELSE content[p]]
    /\ UNCHANGED saved

\* A copy is one of the content as it is.
Backup ==
    /\ content # None
    /\ saved' = saved \cup {content}
    /\ UNCHANGED <<content, count>>

\* Copies are deleted, or go bad.
Lose ==
    /\ saved' \subseteq saved
    /\ UNCHANGED <<content, count>>

\* The database becomes what it was when some copy was taken.
Restore ==
    /\ content' \in saved
    /\ saved' \subseteq saved
    /\ UNCHANGED count

Next == Create \/ Commit \/ Backup \/ Lose \/ Restore

Spec == Init /\ [][Next]_vars
=============================================================================
