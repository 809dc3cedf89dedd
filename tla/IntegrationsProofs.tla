--------------------------- MODULE IntegrationsProofs ---------------------------
(***************************************************************************)
(* Theorems about the Hermes integration and the hook file, for any number   *)
(* of releases, clients and processes that run hook commands.                *)
(***************************************************************************)
EXTENDS Integrations, TLAPS

(* What makes RunReportsTruly inductive: no policy is of a release to come, the  *)
(* one that the handshake stands on is in its place, what is compared has lost   *)
(* its entry, and each label tells what the run knows of the file.               *)
RunInv ==
    /\ HermesTypeOK
    /\ RunReportsTruly
    /\ run.pc \in {"write", "writing", "test", "rollback"} => run.kind = "install"
    /\ run.pc \in {"configure", "write", "writing", "test", "rollback"} => ~run.undone
    /\ run.policy <= release
    /\ skill \in Releases => skill <= release
    /\ AtStep("writing") => skill \in {Torn, Edited}
    /\ run.pc \in {"test", "rollback"} => skill \in {run.policy, Edited}
    /\ AtStep("unlink") => run.seen = run.policy
    /\ run.pc \in {"compare", "unlink"} /\ skill \in Releases => skill <= run.policy
    /\ run.pc \in {"compare", "unlink"} /\ run.kind = "install" =>
          skill \in {run.policy, Edited}
    /\ run.pc \in {"compare", "unlink"} /\ (run.kind = "uninstall" \/ run.undone) => ~entry

LEMMA HermesInitInv == HermesInit => RunInv
<1> SUFFICES ASSUME HermesInit PROVE RunInv
  OBVIOUS
<1>1. HermesTypeOK
  <2>1. 1 \in Releases
    BY HermesConstantsOK DEF Releases
  <2> QED BY <2>1 DEF HermesInit, HermesTypeOK, Skills, Steps, Ended, Kinds
<1>2. RunReportsTruly
  BY DEF HermesInit, RunReportsTruly
<1>3. Missing \notin Releases
  BY HermesConstantsOK
<1> QED BY <1>1, <1>2, <1>3 DEF HermesInit, RunInv, AtStep

LEMMA UpgradeStaysReleased ==
    ASSUME release \in Releases, Upgrade
    PROVE  release' \in Releases
<1>1. release \in Nat /\ release >= 1 /\ release < MaxRelease /\ MaxRelease \in Nat
  BY HermesConstantsOK DEF Upgrade, Releases
<1>2. release' = release + 1
  BY DEF Upgrade
<1> QED BY <1>1, <1>2 DEF Releases

LEMMA PoliciesAreOrdered ==
    ASSUME RunInv
    PROVE  /\ release \in Nat /\ run.policy \in Nat
           /\ release <= release /\ run.policy <= run.policy
           /\ skill \in Releases => skill \in Nat
           /\ Missing \notin Releases /\ Edited \notin Releases /\ Torn \notin Releases
           /\ Missing # Torn /\ Missing # Edited /\ Edited # Torn
<1>1. \A r \in Releases : r \in Nat
  BY HermesConstantsOK DEF Releases
<1>2. release \in Releases /\ run.policy \in Releases
  BY DEF RunInv, HermesTypeOK
<1>3. /\ release \in Nat /\ run.policy \in Nat
      /\ release <= release /\ run.policy <= run.policy
  BY <1>1, <1>2
<1> QED BY <1>1, <1>2, <1>3, HermesConstantsOK

LEMMA HermesStepInv ==
    ASSUME RunInv, HermesNext
    PROVE  RunInv'
<1> USE DEF RunInv, HermesTypeOK, RunReportsTruly, AtStep, Proceed, Skills, Steps, Ended
<1>0. /\ release \in Nat /\ run.policy \in Nat
      /\ release <= release /\ run.policy <= run.policy
      /\ skill \in Releases => skill \in Nat
      /\ Missing \notin Releases /\ Edited \notin Releases /\ Torn \notin Releases
      /\ Missing # Torn /\ Missing # Edited /\ Edited # Torn
  BY PoliciesAreOrdered
<1>1. ASSUME NEW kind \in Kinds, BeginRun(kind) PROVE RunInv'
  BY <1>0, <1>1 DEF BeginRun
<1>2. CASE Add
  <2>1. CASE entry' = TRUE /\ run' = [run EXCEPT !.pc = "write", !.policy = release]
    BY <1>0, <1>2, <2>1 DEF Add
  <2>2. CASE entry' \in {entry, TRUE} /\ run' = [run EXCEPT !.pc = "raised"]
    BY <1>0, <1>2, <2>2 DEF Add
  <2> QED BY <1>2, <2>1, <2>2 DEF Add
<1>3. CASE Remove
  BY <1>0, <1>3 DEF Remove
<1>4. CASE Truncate
  BY <1>0, <1>4 DEF Truncate
<1>5. CASE Write
  BY <1>0, <1>5 DEF Write
<1>6. CASE Handshake
  <2>1. PICK connected \in {FALSE, entry} :
           run' = [run EXCEPT !.pc = IF connected THEN "installed" ELSE "rollback"]
    BY <1>6 DEF Handshake, Connected
  <2>2. \/ entry = TRUE /\ run' = [run EXCEPT !.pc = "installed"]
        \/ run' = [run EXCEPT !.pc = "rollback"]
    BY <2>1
  <2>3. UNCHANGED <<entry, skill, release>> /\ run.pc = "test"
    BY <1>6 DEF Handshake
  <2> QED BY <2>2, <2>3
<1>7. CASE RollBack
  <2>1. CASE entry' = FALSE /\ run' = [run EXCEPT !.pc = "compare", !.undone = TRUE]
    BY <1>0, <1>7, <2>1 DEF RollBack
  <2>2. CASE entry' \in {entry, FALSE} /\ run' = [run EXCEPT !.pc = "compare"]
    <3>1. run.kind # "uninstall" /\ ~run.undone
      BY <1>7 DEF RollBack
    <3> QED BY <1>0, <1>7, <2>2, <3>1 DEF RollBack
  <2> QED BY <1>7, <2>1, <2>2 DEF RollBack
<1>8. CASE Compare
  <2>1. UNCHANGED <<entry, skill, release>> /\ run.pc = "compare"
    BY <1>8 DEF Compare
  <2>2. CASE skill = run.policy
    <3>1. run' = [run EXCEPT !.pc = "unlink", !.seen = skill]
      BY <1>8, <2>2 DEF Compare, Unchanged
    <3> QED BY <1>0, <2>1, <2>2, <3>1
  <2>3. CASE skill # run.policy
    <3>1. run' = [run EXCEPT !.pc = Finished, !.seen = skill]
      BY <1>8, <2>3 DEF Compare, Unchanged
    <3>2. ASSUME skill \in Releases PROVE skill < run.policy
      <4>1. skill <= run.policy
        BY <2>1, <3>2
      <4> HIDE DEF RunInv, HermesTypeOK, RunReportsTruly
      <4> QED BY <1>0, <2>3, <3>2, <4>1
    <3>3. CASE run.kind = "uninstall"
      <4>1. run' = [run EXCEPT !.pc = "removed", !.seen = skill]
        BY <3>1, <3>3 DEF Finished
      <4> QED BY <2>1, <3>2, <3>3, <4>1
    <3>4. CASE run.kind = "install"
      <4>1. run' = [run EXCEPT !.pc = IF run.undone THEN "rolled back" ELSE "raised",
                               !.seen = skill]
        BY <3>1, <3>4 DEF Finished
      <4> QED BY <2>1, <2>3, <3>4, <4>1
    <3> QED BY <3>3, <3>4 DEF Kinds
  <2> QED BY <2>2, <2>3
<1>9. CASE Unlink
  BY <1>9, HermesConstantsOK DEF Unlink, Finished, Kinds
<1>10. CASE DieInRun
  BY <1>10 DEF DieInRun
<1>11. CASE EditSkill
  BY <1>11, HermesConstantsOK DEF EditSkill
<1>12. CASE Upgrade
  <2>1. release' \in Releases
    BY <1>12, UpgradeStaysReleased
  <2>2. UNCHANGED <<entry, skill, run>>
    BY <1>12 DEF Upgrade
  <2>3. run.policy <= release' /\ (skill \in Releases => skill <= release')
    <3>1. run.policy <= release /\ (skill \in Releases => skill <= release)
      OBVIOUS
    <3>2. release' = release + 1
      BY <1>12 DEF Upgrade
    <3> HIDE DEF RunInv, HermesTypeOK, RunReportsTruly
    <3> QED BY <1>0, <3>1, <3>2
  <2> QED BY <2>1, <2>2, <2>3
<1> QED BY <1>1, <1>2, <1>3, <1>4, <1>5, <1>6, <1>7, <1>8, <1>9, <1>10, <1>11, <1>12
        DEF HermesNext

LEMMA HermesIdleInv ==
    ASSUME RunInv, UNCHANGED hermes
    PROVE  RunInv'
BY DEF RunInv, hermes, HermesTypeOK, RunReportsTruly, AtStep

-----------------------------------------------------------------------------
(* The hook file                                                             *)

(* Undisturbed, a command has the file to itself: what it read and changed is    *)
(* what the history will expect.                                                 *)
FileInv ==
    /\ HooksTypeOK
    /\ HooksAreThoseInstalled
    /\ ~disturbed =>
          /\ \A e, f \in Editors : e # f => EditorAt(e, "idle") \/ EditorAt(f, "idle")
          /\ \A e \in Editors :
                /\ ~EditorAt(e, "idle") =>
                      editor[e].config =
                          Applied(expected, editor[e].install, editor[e].clients)
                /\ EditorAt(e, "writing") => hooks = Blank

LEMMA HooksInitInv == HooksInit => FileInv
<1> SUFFICES ASSUME HooksInit PROVE FileInv
  OBVIOUS
<1>1. HooksTypeOK
  BY DEF HooksInit, HooksTypeOK, NoEditor, EditorLabels
<1>2. \A e \in Editors : EditorAt(e, "idle")
  BY DEF HooksInit, NoEditor, EditorAt
<1>3. HooksAreThoseInstalled
  BY DEF HooksInit, HooksAreThoseInstalled
<1> QED BY <1>1, <1>2, <1>3 DEF FileInv, EditorAt

LEMMA LoadHooksInv ==
    ASSUME FileInv, NEW e \in Editors, NEW install \in BOOLEAN, NEW client \in Clients,
           LoadHooks(e, install, client)
    PROVE  FileInv'
<1>1. HooksTypeOK'
  BY DEF FileInv, HooksTypeOK, LoadHooks, Loadable, Loaded, Applied, EditorLabels
<1>2. ASSUME ~disturbed'
      PROVE  /\ \A f \in Editors \ {e} : EditorAt(f, "idle") /\ editor'[f] = editor[f]
             /\ Loaded = expected
  <2>1. ~disturbed /\ Quiet(e)
    BY <1>2 DEF LoadHooks, FileInv, HooksTypeOK
  <2>2. \A f \in Editors : ~EditorAt(f, "writing")
    BY <2>1 DEF Quiet, LoadHooks, EditorAt
  <2>3. hooks = expected \/ (hooks = NoFile /\ expected = {})
    BY <2>1, <2>2 DEF FileInv, HooksAreThoseInstalled
  <2>4. expected # NoFile
    BY HookConstantsOK DEF FileInv, HooksTypeOK
  <2> QED BY <2>1, <2>3, <2>4 DEF Quiet, Loaded, LoadHooks, FileInv, HooksTypeOK
<1>3. editor'[e] = [pc |-> "loaded", install |-> install, clients |-> {client},
                    config |-> Applied(Loaded, install, {client})]
  BY DEF LoadHooks, FileInv, HooksTypeOK
<1>4. HooksAreThoseInstalled'
  <2> SUFFICES ASSUME ~disturbed'
               PROVE  hooks = expected \/ (hooks = NoFile /\ expected = {})
    BY DEF LoadHooks, HooksAreThoseInstalled
  <2> QED BY <1>2 DEF LoadHooks, Loadable, Loaded
<1> QED BY <1>1, <1>2, <1>3, <1>4 DEF FileInv, EditorAt, LoadHooks

LEMMA TruncateHooksInv ==
    ASSUME FileInv, NEW e \in Editors, TruncateHooks(e)
    PROVE  FileInv'
<1>1. HooksTypeOK'
  BY DEF FileInv, HooksTypeOK, TruncateHooks, EditorLabels
<1>2. EditorAt(e, "writing")' /\ hooks' = Blank
  BY DEF FileInv, HooksTypeOK, TruncateHooks, EditorAt
<1>3. HooksAreThoseInstalled'
  BY <1>2 DEF HooksAreThoseInstalled
<1> QED BY <1>1, <1>2, <1>3 DEF FileInv, TruncateHooks, HooksTypeOK, EditorAt

LEMMA WriteHooksInv ==
    ASSUME FileInv, NEW e \in Editors, WriteHooks(e)
    PROVE  FileInv'
<1>1. HooksTypeOK'
  BY DEF FileInv, HooksTypeOK, WriteHooks, EditorLabels, NoEditor, Applied
<1>2. \A f \in Editors : EditorAt(f, "idle")' \/ (f # e /\ editor'[f] = editor[f])
  BY DEF FileInv, HooksTypeOK, WriteHooks, EditorAt, NoEditor
<1>3. ASSUME ~disturbed'
      PROVE  hooks' = expected' /\ \A f \in Editors : EditorAt(f, "idle")'
  <2>1. ~disturbed /\ EditorAt(e, "writing") /\ ~EditorAt(e, "idle")
    BY <1>3 DEF WriteHooks, EditorAt
  <2>2. hooks = Blank
        /\ editor[e].config = Applied(expected, editor[e].install, editor[e].clients)
    BY <2>1 DEF FileInv
  <2>3. \A f \in Editors : f # e => EditorAt(f, "idle")
    BY <2>1 DEF FileInv
  <2> QED BY <1>2, <2>2, <2>3 DEF WriteHooks, EditorAt
<1>4. HooksAreThoseInstalled'
  BY <1>3 DEF HooksAreThoseInstalled
<1> QED BY <1>1, <1>3, <1>4 DEF FileInv, EditorAt

LEMMA DieEditingInv ==
    ASSUME FileInv, NEW e \in Editors, DieEditing(e)
    PROVE  FileInv'
<1>1. HooksTypeOK'
  BY DEF FileInv, HooksTypeOK, DieEditing, EditorLabels, NoEditor
<1>2. EditorAt(e, "idle")' /\ \A f \in Editors : f # e => editor'[f] = editor[f]
  BY DEF FileInv, HooksTypeOK, DieEditing, EditorAt, NoEditor
<1>3. ~disturbed' => ~disturbed /\ ~EditorAt(e, "writing")
  BY DEF FileInv, HooksTypeOK, DieEditing
<1>4. hooks' = hooks /\ expected' = expected
  BY DEF DieEditing
<1>5. HooksAreThoseInstalled'
  BY <1>2, <1>3, <1>4 DEF FileInv, HooksAreThoseInstalled, EditorAt
<1>6. ASSUME ~disturbed', NEW f \in Editors, ~EditorAt(f, "idle")'
      PROVE  f # e /\ ~EditorAt(f, "idle") /\ editor'[f] = editor[f]
  BY <1>2, <1>6 DEF EditorAt
<1> QED BY <1>1, <1>2, <1>3, <1>4, <1>5, <1>6 DEF FileInv, EditorAt

LEMMA HooksStepInv ==
    ASSUME FileInv, HooksNext
    PROVE  FileInv'
BY LoadHooksInv, TruncateHooksInv, WriteHooksInv, DieEditingInv DEF HooksNext

LEMMA HooksIdleInv ==
    ASSUME FileInv, UNCHANGED hookVars
    PROVE  FileInv'
BY DEF FileInv, hookVars, HooksTypeOK, HooksAreThoseInstalled, EditorAt

-----------------------------------------------------------------------------
(* The two together                                                          *)

Inv == RunInv /\ FileInv

LEMMA InitInv == Init => Inv
BY HermesInitInv, HooksInitInv DEF Init, Inv

LEMMA StepInv == Inv /\ [Next]_vars => Inv'
<1> SUFFICES ASSUME Inv, [Next]_vars PROVE Inv'
  OBVIOUS
<1>1. RunInv'
  BY HermesStepInv, HermesIdleInv DEF Inv, Next, vars
<1>2. FileInv'
  BY HooksStepInv, HooksIdleInv DEF Inv, Next, vars
<1> QED BY <1>1, <1>2 DEF Inv

\* integrate_hermes, install_hooks, uninstall_hooks: every variable keeps its type,
\* whatever dies, fails or is edited.
THEOREM IntegrationsTypeCorrect == Spec => []TypeOK
<1>1. Inv => TypeOK
  BY DEF Inv, RunInv, FileInv, TypeOK
<1> QED BY <1>1, InitInv, StepInv, PTL DEF Spec

\* integrate_hermes: an installation that is reported has its entry and its policy; one
\* that was rolled back has left neither, but for an edited policy; a removal has left
\* no entry and, of unedited policies, at most one of an older release.
THEOREM ReportsAreTrue == Spec => []RunReportsTruly
<1>1. Inv => RunReportsTruly
  BY DEF Inv, RunInv
<1> QED BY <1>1, InitInv, StepInv, PTL DEF Spec

\* install_hooks and uninstall_hooks: commands that do not overlap, and do not die
\* while writing, leave exactly the hooks that were installed and not removed.
THEOREM UndisturbedHooksStand == Spec => []HooksAreThoseInstalled
<1>1. Inv => HooksAreThoseInstalled
  BY DEF Inv, FileInv
<1> QED BY <1>1, InitInv, StepInv, PTL DEF Spec

\* integrate_hermes: an edit of the policy is lost only to an install, or when it is
\* saved between the comparison of an uninstall or a rollback and the removal.
THEOREM EditsSurviveUninstalls == Spec => EditsLostOnlyToInstalls
<1> DEFINE Spares == skill = Edited /\ skill' # Edited =>
                         \/ run.kind = "install" /\ run.pc \in {"write", "writing"}
                         \/ AtStep("unlink") /\ run.seen # Edited
<1>1. Inv /\ [Next]_vars => [Spares]_hermes
  <2> SUFFICES ASSUME RunInv, HermesNext, skill = Edited, skill' # Edited
               PROVE  \/ run.kind = "install" /\ run.pc \in {"write", "writing"}
                      \/ AtStep("unlink") /\ run.seen # Edited
    BY DEF Inv, Next, vars
  <2>1. CASE Truncate
    BY <2>1 DEF Truncate, RunInv, AtStep
  <2>2. CASE Write
    BY <2>2 DEF Write, RunInv, AtStep
  <2>3. CASE Unlink
    BY <2>3, HermesConstantsOK DEF Unlink, RunInv, HermesTypeOK, AtStep
  <2> QED BY <2>1, <2>2, <2>3
          DEF HermesNext, BeginRun, Add, Remove, Handshake, RollBack, Compare, DieInRun,
              EditSkill, Upgrade
<1> QED BY <1>1, InitInv, StepInv, PTL DEF Spec, EditsLostOnlyToInstalls
=============================================================================
