--------------------------- MODULE HermesIntegration ---------------------------
(***************************************************************************)
(* `everrun integrate hermes` and its --uninstall (hermes.py): an entry in the *)
(* configuration of another program, made and removed by that program's own  *)
(* command line, and a policy file that comes with the package and that the  *)
(* user may edit.                                                            *)
(*                                                                           *)
(* One run at a time; it may die between any two steps.  The Hermes command  *)
(* is external: when it reports success it did what it was asked to, when it *)
(* fails it may or may not have.  The state directory, which an install      *)
(* makes and nothing removes, is left out.                                   *)
(***************************************************************************)
EXTENDS Naturals

CONSTANTS
    MaxRelease,    \* bound on the releases of the package
    Missing,       \* no policy file
    Edited,        \* the policy file as the user changed it
    Torn           \* a policy file that was not written to its end

Releases == 1..MaxRelease

ASSUME HermesConstantsOK ==
    /\ MaxRelease \in Nat \ {0}
    /\ Missing \notin Releases \cup {Edited, Torn}
    /\ Edited \notin Releases \cup {Torn}
    /\ Torn \notin Releases

VARIABLES
    entry,         \* Hermes has an MCP entry `everrun`
    skill,         \* the policy file: the release it is of, or one of the above
    release,       \* the release of the package that is installed
    run            \* the last run: its next step and its locals, or how it ended

hermes == <<entry, skill, release, run>>

Skills == Releases \cup {Missing, Edited, Torn}
Ended == {"installed", "removed", "rolled back", "raised"}
Steps == {"configure", "write", "writing", "test", "rollback", "compare", "unlink"}
Kinds == {"install", "uninstall"}

HermesInit ==
    /\ entry = FALSE /\ skill = Missing /\ release = 1
    /\ run = [pc |-> "raised", kind |-> "uninstall", policy |-> 1, seen |-> Missing,
              undone |-> FALSE]

AtStep(l) == run.pc = l
Proceed(l) == run' = [run EXCEPT !.pc = l]

\* Faulty variant: the policy that is known is the one found in the profile.
BeginRunOnSight(kind) ==
    /\ run.pc \in Ended
    /\ run' = [pc |-> "configure", kind |-> kind, policy |-> skill, seen |-> Missing,
               undone |-> FALSE]
    /\ UNCHANGED <<entry, skill, release>>

BeginRun(kind) ==
    /\ run.pc \in Ended
    /\ run' = [pc |-> "configure", kind |-> kind, policy |-> release, seen |-> Missing,
               undone |-> FALSE]
    /\ UNCHANGED <<entry, skill, release>>

\* `mcp add`, and the policy text as the package has it by then.
Add ==
    /\ AtStep("configure") /\ run.kind = "install"
    /\ \/ entry' = TRUE /\ run' = [run EXCEPT !.pc = "write", !.policy = release]
       \/ entry' \in {entry, TRUE} /\ Proceed("raised")
    /\ UNCHANGED <<skill, release>>

\* `mcp remove`: an entry that is not found is as good as one that was removed.
Remove ==
    /\ AtStep("configure") /\ run.kind = "uninstall"
    /\ \/ entry' = FALSE /\ run' = [run EXCEPT !.pc = "compare", !.policy = release]
       \/ entry' \in {entry, FALSE} /\ Proceed("raised")
    /\ UNCHANGED <<skill, release>>

\* The file is emptied, then written; nothing is compared before.
Truncate ==
    /\ AtStep("write")
    /\ skill' = Torn /\ Proceed("writing")
    /\ UNCHANGED <<entry, release>>

\* What the user saved since the file was emptied may stand, where the editor puts a
\* new file in its place, or where it is the longer text and keeps its end.
Write ==
    /\ AtStep("writing")
    /\ skill' \in {run.policy} \cup IF skill = Torn THEN {} ELSE {Edited}
    /\ Proceed("test")
    /\ UNCHANGED <<entry, release>>

\* What `mcp test` may report: a server can be connected to only through an entry.
Connected == {FALSE, entry}

Handshake ==
    /\ AtStep("test")
    /\ \E connected \in Connected :
          Proceed(IF connected THEN "installed" ELSE "rollback")
    /\ UNCHANGED <<entry, skill, release>>

\* The removal after a failed handshake may fail too, which is only reported.
RollBack ==
    /\ AtStep("rollback")
    /\ \/ entry' = FALSE /\ run' = [run EXCEPT !.pc = "compare", !.undone = TRUE]
       \/ entry' \in {entry, FALSE} /\ Proceed("compare")
    /\ UNCHANGED <<skill, release>>

\* Faulty variant: whether the removal after the handshake succeeded is ignored.
FinishedAnyway == IF run.kind = "uninstall" THEN "removed" ELSE "rolled back"

\* How a run ends whose policy file needs no more attention.
Finished == IF run.kind = "uninstall" THEN "removed"
            ELSE IF run.undone THEN "rolled back" ELSE "raised"

\* Faulty variant: the file is taken for EverRun's own wherever there is one.
UnchangedIfPresent == skill # Missing

\* The file has the digest of the policy this run knows.
Unchanged == skill = run.policy

Compare ==
    /\ AtStep("compare")
    /\ run' = [run EXCEPT !.pc = IF Unchanged THEN "unlink" ELSE Finished, !.seen = skill]
    /\ UNCHANGED <<entry, skill, release>>

Unlink ==
    /\ AtStep("unlink")
    /\ skill' = Missing
    /\ Proceed(Finished)
    /\ UNCHANGED <<entry, release>>

DieInRun ==
    /\ run.pc \in Steps
    /\ Proceed("raised")
    /\ UNCHANGED <<entry, skill, release>>

\* The user saves changes to the policy file, at any moment.
EditSkill ==
    /\ skill # Missing
    /\ skill' = Edited
    /\ UNCHANGED <<entry, release, run>>

Upgrade ==
    /\ release < MaxRelease
    /\ release' = release + 1
    /\ UNCHANGED <<entry, skill, run>>

HermesNext ==
    \/ \E kind \in Kinds : BeginRun(kind)
    \/ Add \/ Remove \/ Truncate \/ Write \/ Handshake \/ RollBack
    \/ Compare \/ Unlink \/ DieInRun
    \/ EditSkill \/ Upgrade

-----------------------------------------------------------------------------
(* Properties                                                                *)

HermesTypeOK ==
    /\ entry \in BOOLEAN
    /\ skill \in Skills
    /\ release \in Releases
    /\ run \in [pc : Steps \cup Ended, kind : Kinds, policy : Releases, seen : Skills,
                undone : BOOLEAN]

\* What a run reports is so, until the next one begins.  An installation has its entry
\* and its policy, or the policy as the user edited it.  An installation that was
\* rolled back leaves no entry, and of policies only one that was edited.  A removal
\* leaves no entry and no unedited policy of its own release or a later one; that it
\* removes the "unchanged EverRun-owned lifecycle skill" (README.md) is true of no
\* other: the unedited policy of an older release stays, taken for an edited one.
RunReportsTruly ==
    /\ run.pc = "installed" => entry /\ skill \in {run.policy, Edited}
    /\ run.pc = "rolled back" => ~entry /\ skill \in {Missing, Edited}
    /\ run.pc = "removed" => ~entry /\ (skill \in Releases => skill < run.policy)

\* "uninstall preserves user-modified policy" (ARCHITECTURE.md), as far as it
\* goes: an edit is lost only to an install, which overwrites without comparing,
\* or when it was saved between the comparison and the removal of the file.
EditsLostOnlyToInstalls ==
    [][skill = Edited /\ skill' # Edited =>
          \/ run.kind = "install" /\ run.pc \in {"write", "writing"}
          \/ AtStep("unlink") /\ run.seen # Edited]_hermes
=============================================================================
