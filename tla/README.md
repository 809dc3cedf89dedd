# EverRun in TLA+

EverRun (`src/`) keeps a long-running agent mission alive across crashes and
changes of agent. A mission is a hash-chained event log in SQLite plus a few
tables; agents, operators and harnesses work on the same file from processes of
their own and may die at any point. This directory holds a specification of the
parts whose correctness depends on what happens *between* statements, the
instances TLC checks, and proofs that TLAPS checks.

## Inventory

| Component | State | Operations | Talks to | What makes it correct |
|---|---|---|---|---|
| Action ledger (`ledger.py`) | table `actions`, its events in the chain | `claim`, `complete`, `reconcile`, `find`, `uncertain_details` | store (transactions, `_insert_event`) | an effect happens once; row and chain tell one story |
| Admission gate (`gate.py`) | locals of a call | `protected_call` | ledger, the effect (a callback) | nothing fires without a fresh claim; nothing fires again while the outcome is unknown |
| Retry budget (`budgets.py`) | two dictionaries per ledger | `check` | called inside the claim transaction | no interleaving exceeds a cap; a retry keeps its own allowance |
| Reconcilers (`reconcilers.py`, `everrun reconcile`) | registry of probes | `reconcile_pending` | ledger, probes (callbacks) | a settlement is the truth; every uncertainty ends |
| Mission store (`store.py`) | events, heads, checkpoints, tickets, approval requests | `append`, `verify_chain`, tickets, approval, `complete_mission`, `list_missions`, `restore` | everybody | events immutable and numbered; checks and writes agree |
| Projection, contracts, recovery (`projection.py`, `contracts.py`, `recovery.py`) | none | pure functions of the log; `recover` reads four times | store, ledger | the most severe signal wins; only trusted evidence proves |
| Checkpoints (`checkpoint.py`) | table `checkpoints` | `checkpoint` | store | a checkpoint is the projection of its sequence |
| Handoff (`handoff.py`) | two events | `handoff`, `compile_briefing` | recovery, store | no transfer with an unresolved effect |
| Tool server (`service.py`, `mcp_server.py`) | allowlist, tokens | thirteen tools, JSON-RPC loop | all of the above, one store handle per call | deny by default; a ticket confirms once |
| Environment (`environment.py`) | none | drift and its closure over dependencies | recovery | everything that depends on a changed component is stale |
| Capsules (`capsule.py`, `attestation.py`) | a file | export, import | store | an import is the exporter's chain |
| Operations (`operations.py`) | database files | backup, restore, status | SQLite files, store | a restore replaces the whole state |
| Hermes integration (`hermes.py`) | an MCP entry and a skill file | install, handshake, rollback, removal | the Hermes CLI | a failure leaves nothing behind, a user's edit survives |
| Hooks of agents (`adapters.py`) | a JSON file | install, uninstall | the CLI | the file has the clients that were installed |
| Evidence, verifier, CLI, dashboard, doctor, demo | files, output | wrappers, input and output | store, gate | not a matter of state |

The hard part is always the same: `EverRunStore.transaction` makes *writes*
atomic, but a check made before the transaction, or a result of several
SELECTs, may be out of date. Processes share nothing but the file. There is no
timer except the expiry of approval tickets, and no message queue.

## Modules

| Module | Role |
|---|---|
| `EffectOnce` | abstract: what the ledger promises about an effect, with no process, row or crash |
| `ActionLedger` | ledger, gate, budget and settlement of one mission, any number of processes; refines `EffectOnce` |
| `EffectOnceProofs` | the promise is sound; checked by TLAPS |
| `ActionLedgerProofs` | theorems about `ActionLedger`, checked by TLAPS |
| `MissionLog` | what `projection.py`, `contracts.py` and `recovery.py` compute from a log; operators only |
| `MissionStore` | one mission's tables and every operation on them that takes several statements |
| `MissionLogProofs`, `MissionStoreProofs` | theorems about logs, projections and decisions, and about every operation of the store |
| `Missions`, `MissionsProofs` | several database files: how missions come into being, claims for unknown ones, capsules between files; theorems about them |
| `Environment`, `EnvironmentProofs` | pins, declarations and the check of the environment; theorems about it |
| `DurableDatabase` | abstract: what a database and its backups promise, with no file, log or handle |
| `DatabaseFile`, `DatabaseFileProofs` | the file, its write-ahead log and its backups; under quiet restores a refinement of `DurableDatabase`; theorems about them |
| `HermesIntegration`, `HookFile` | the two commands that write outside the database |
| `Integrations`, `IntegrationsProofs` | both of them on one machine; theorems about them |
| `MCActionLedger`, `MCMissionStore`, `MCMissions`, `MCEnvironment`, `MCDatabaseFile`, `MCIntegrations` | constants and symmetry for TLC |

Operators whose comment begins with "Faulty variant" are deliberate mistakes:
each stands before the definition it could replace, and replacing it must break
a property (`PROJECT.json`, "mutants"). No action uses them.

### ActionLedger and the code

A ledger method is one `BEGIN IMMEDIATE` transaction, so one action: `Claim`
(`WriteClaim` is its upsert and event), `Complete`, `Reconcile` (`Settle` is the
UPDATE and event they share, `Updatable` its WHERE clause). `Find` is the read
with which `protected_call` begins, `Fire` its callback, which may perform the
effect and raise all the same. `ReadUncertain`, `Probe` and `Reconcile` are
`reconcile_pending`; `Inspect` and `Reconcile` are a person or an agent who looks
at the world and runs the command. `Crash` loses what a process knew.
Action keys are distinct values with a kind each (SHA-256 of kind and
arguments); external ids, results and arguments are left out.

`occurred` is the world: how often it performed each action. `pc`, `cur`,
`todo`, `verdict` and `answer` are the locals of a call.

`ExclusiveSettlement` is an assumption about people, not about code. The README
of EverRun draws recovery as *process dies, fresh agent inspects reality,
reconcile*; TRUE says that whoever settles an action follows that picture (the
claimant is gone, one settlement at a time). Nothing in the code enforces it, so
the runs and theorems come in two groups: with it, and without.

An agent on the tool surface is assumed to complete only what it has itself
claimed and performed; the tool takes any key.

### MissionStore and the code

A write transaction is an action; a SELECT outside one is an action too. Since
events are append-only (triggers of the schema), what a SELECT of the chain
returned is a prefix of it, kept as a length. `proc[p]` is a process: its next
statement, its operation and its locals.

| Operation | Steps |
|---|---|
| `recover` | chain, `ReadHead`, `ReadLog`, `ReadRows`, `Proceed` |
| `complete_mission` | chain, `ReadHead`, `ReadRows`, `ReadLog` (with `CloseRefused`), `Close` |
| `compile_briefing` | the log, the steps of `recover`, `ListUncertain` |
| `handoff` | the steps of `recover`, `ReadSource`, those of `compile_briefing`, `StartHandoff`, `CompleteHandoff` |
| `request_approval` | the log, the steps of `recover`, `BindLog`, `BindChain`, `StoreSlip` |
| `approve_with_ticket` | `BeginApprove`, `BindLog`, `BindChain`, `Approve` |
| `everrun_confirm` | `RedeemTicket`, `Confirm` |
| `checkpoint` | the log, `SaveCheckpoint` |
| `restore` | `BeginRestore`, `FinishRestore` |

`Write`, `ClaimAction`, `SettleAction`, `IssueConfirmTicket` and `Expire` are
what everybody else does meanwhile. `Crash` is the death of a process or a
statement that fails on a locked database: the operation ends, what it
committed stays. `lasting` observes only: the dangers that stood during the
whole of a recovery. A handoff recovers twice, once to decide and once for
its briefing: `decision` is what it records, `advice` what the receiver reads.
`Vouched`, `Proved`, `Unsettled` and `Precedence` restate, for the
properties, what the code's own operators compute; the operations recover without an
environment and without a contract.

`ListedUnder` is `list_missions --status` seen from one mission: the list recovers
every mission anew, with the four reads above, and shows it under the filters whose
modes hold the verdict. `Groups` is the table of modes; two of its names
(`close_mission`, `halt`) are no recovery modes, and `abort` is in none, so a false alarm
takes a mission off every filter. While the query of the list is still open, the
reads of the same connection share its snapshot and are undisturbed; those of the last
mission, after the query has run out, are not. The model lets every listing be disturbed.

A digest is its content: equal digests are equal states. Because the chain only
grows, the approval digest (progress, event count, trusted head) is the pair of
lengths it was computed from.

### Missions and the code

`MissionStore` knows one mission that exists from the start; `Missions` is about
everything before and beside that. Its state is per database file: the tables
`missions`, `events`, `chain_heads` and the statuses of `actions`. A ledger
method, `create_mission` (`Create`), `append` (`Record`) and `import_capsule`
(`Import`) are one transaction each. `export_capsule` takes two reads and so two
steps, `BeginExport` and `FinishExport`; the second replaces the file of the
capsule in one step, or leaves it after a refusal or a death. `Advice` is
`recover` in one step (its own interleavings are in `MissionStore`).

`Claim` has no guard on the mission because the code has none, and `Collides`
has three parts because an import inserts into three tables. `Secret` stands for a
payload that looks like a credential, `Scrubbed` for what is left of it. A chain
that was rewritten no longer verifies; since `Importable` refuses such a
capsule first, nothing else needs to know. `imported` is history: which
missions a file has by import. `CanList` is whether `list_missions` answers at all: it
projects every chain, and one without its start makes it raise.

### Environment and the code

`validate_environment` is a loop over a dictionary, modelled visit by visit with
the order left open: `ReadGraph` is its beginning, `Visit` the body of the inner
loop, `EndPass` the test of the outer one, `Report` the verdict. `Begin` is the
read of the pin with which `check-env` and `recover` start; the dependencies are read
in a statement of their own, so pins and declarations may come in between.
`Missing` is a key that a snapshot does not have. A component is whatever
string is pinned, required, or requires.

### DatabaseFile and the code

`operations.py` is modelled statement by statement: a backup is `BeginBackup`,
`CopyOut`, `Publish`; a restore `BeginRestore`, `CheckBackup`, `CopyIn`,
`CheckCopy`, `Replace`; `Stop` is an exception or a death before the last of
them, with the temporary file as the only loss. `Sound` is the integrity check.
SQLite is external: `Commit` writes pages to the log, `Checkpoint` copies them
into the file, `Close` of the last handle removes the log, `Kill` does not, and
whoever opens the path sees `View`. A file is a function from pages to the
commit that wrote them; `Rotten` is a page of a damaged one. A handle on a
replaced file is not followed any further: what it writes reaches an unlinked file
or the new file's log, depending on what it has open, which is SQLite's business.

`QuietRestore` is, like `ExclusiveSettlement`, an assumption about people: at the
moment a restore replaces the file nobody has the database open and no log is
left from a killed process. Nothing in the code checks it. It assumes no more than
that: handles come and go, and other restores run, while one is on its way, so the
target may be created between the look at it (`MayReplace`) and the replacement.

### Integrations and the code

`integrate_hermes` is `BeginRun`, `Add` or `Remove` (the Hermes command, which may
fail with or without effect), then `Truncate` and `Write` of the policy and
`Handshake`, or `Compare` and `Unlink`; `RollBack` is the removal after a failed
handshake. `run` is the last run, its locals and its outcome, which stays until the
next begins, so that what it reported can be compared with what is there. The
user may save an edit at any moment, between the emptying of the policy file and its
writing too; the package may be upgraded, which changes
the policy an installed command knows. One run at a time; an edit is a save, not
a deletion. The state directory is left out.

`install_hooks` and `uninstall_hooks` are `LoadHooks`, `TruncateHooks`,
`WriteHooks`: `write_text` empties the file first. `expected` is what the file
would have had commands never met, `disturbed` that two overlapped or one died
while writing. `Integrations` takes one of the two at a time, since they share
nothing.

## Runs

| Run | Question | Bounds |
|---|---|---|
| `ledger_disciplined` | With settlement after death: once at most, truthful, a refinement of `EffectOnce`, and every uncertainty ends | 2 processes, 2 actions of 2 kinds, 2 attempts, 1 death |
| `ledger_races` | Without discipline: what row, chain, skip and budget still guarantee | 2 processes, 3 actions (2 share a kind limited to one distinct action), 2 attempts, 1 death |
| `store_operations` | May recovery, listing, briefing, handoff or closure (against a success contract) overlook a danger, cry wolf, or rest on nothing? Which moments does a verdict belong to? | 1 reader, every kind of writer, 5 events |
| `store_review` | Tickets, approvals, checkpoints and restores of two processes | 2 processes, 1 ticket of each sort, 4 events |
| `missions_travel` | Which missions are intact, what do imports bring, is an unresolved effect seen? | 2 files, 1 mission, 1 action, 1 item (credential-shaped), 1 capsule, 4 events |
| `environment` | Is the verdict exact, does it belong to a moment of the check, does the check end? | 3 components that require each other in chains and circles, 2 pins, 2 observations, 4 events |
| `database_quiet` | Given a quiet restore: is it atomic and checked, is a backup current, and is the whole a refinement of `DurableDatabase`? | 2 handles, 2 jobs, 1 backup file, 2 pages, 3 commits |
| `integrations` | Are reports true, whose edits are lost, which hooks stand? | 3 releases, 2 hook commands at a time, 2 clients |

Why the bounds suffice for what is asked: two processes are the claimant and
the one that races with it; one death is the crash that makes an effect
uncertain, and the attempts allow the claim after it. In the store the writers are not
processes and are never bounded except by the chain, so a single reader meets
every interleaving of writers between its reads; the longest story that matters
(start, claim, settle, work, close or a handoff) has five events. Two
reviewers need one ticket to fight for and one checkpoint to collide on. Deaths
are unbounded in the store. Missions do not share a row, so one of them in two
files meets every collision; four events hold an action claimed before the
mission, the mission, and an export in the midst of further writing. Three
components make a chain whose second pass is needed and a circle; four events
hold two pins and two declarations, one of them replacing another while a check
runs. Two pages tell a mixture from a whole; three commits are one in the file, one
checkpointed and one still in the log. Three releases are the installed one, the one
before and the one after. Refused
calls are steps that change nothing. Deadlock is checked in every run. Processes are
interchangeable, and the runs with symmetry check no liveness.

Four runs show where a document says more than the code does; each checks one
property and ends in a counterexample:

| Run | What happens |
|---|---|
| `close_unsettled` | A claim (or agent work) commits between the checks of `complete_mission` and its append |
| `missions_orphan` | `ledger.claim` writes an event for a mission that does not exist; the mission created later under that id never verifies, and `list_missions`, which projects every chain, raises for all missions. `append` has a guard against exactly this |
| `missions_carried` | A capsule has the events of an unresolved action but no row of `actions`; on the importing side recovery advises to go on, and the action may be claimed afresh |
| `restore_over_log` | A process was killed and left its log; the restored file is read through it, so the old state is still there, or a mixture |

The same models show more of the kind, without a run of their own:

- The ledger accepts the settlement of an action whose claimant still runs: it
  reopens, and is performed twice (`AtMostOnce` without `ExclusiveSettlement`).
- `recover` reads the log and, later, the uncertain rows. An action is claimed, the log
  is read, an agent reports work, the action is settled, the rows are read: the
  verdict is safe, though at each moment there was something to settle or to
  review. So evaluation order never turns "an unsafe situation into a safe
  verdict" (recovery.py:45), but the order of the reads may. `VerdictRestsOnTwoMoments`
  says what is left, and `VerdictSeesLastingDanger` that no such verdict is possible
  while a single danger lasts through the recovery.
- The documents name two precedences: for a goal that is reached, README.md:173 has
  `close_mission` and ARCHITECTURE.md:63 `verified_complete`. The code follows the
  README (mode `continue`, action `close_mission`); `verified_complete` needs
  MISSION_COMPLETED. Neither list mentions drift or contracts, whose places are the code's.
- A mission written to while it is the last of a list may be under no status filter
  at all, for its verdict is then a false `abort` (`ListsFindTheMission`).
- A database created at the target after a restore has looked for it is replaced
  without `--overwrite`, though "restore ... refuses accidental overwrite"
  (REQUIREMENTS.md:76). No property states this: a look that is not repeated refuses
  nothing afterwards, and `QuietRestore` does not exclude the case.
- A claim that commits after the only check of `handoff` is transferred
  unresolved (README.md:137 says it cannot), and agent work that commits after the
  digest check of `approve_with_ticket` is covered by the confirmation
  (README.md:307). `HandoffOnEvidence` and `ApprovalSawItsState` say what is left.
- An install overwrites an edited policy, which an uninstall would keep; a failed
  re-installation removes the older one that worked (README.md:280 speaks of a
  newly-created entry); a policy that a killed install left half written, or the
  unedited one of an older release, counts as edited and stays, although the removal of the
  "unchanged EverRun-owned lifecycle skill" is documented (README.md:289):
  install, upgrade the package, uninstall. `RunReportsTruly` says so: of unedited
  policies a removal may leave one of an older release than its own.
- A hooks command that dies between emptying and writing the file leaves one that
  every later command refuses; overlapping commands lose an entry.
- The operator who requests an approval is shown the first look at the mission,
  and the digest binds the second.

The passing runs say what holds instead: a closure, a handoff and an approval
rest on moments that really existed during the operation; a mission that was
created before it was claimed for stays intact wherever it goes; and a database
that nobody has open is replaced whole.

Fairness: `UncertaintySettles` and `ChecksEnd` need it. The second asks only
that a check that has begun keeps running (weak fairness of `Check`: a loop in
memory). For the first, a process inside a call keeps
running (weak fairness of its steps: nothing in a call blocks for ever), and
recovery is rerun for as long as something is uncertain (strong fairness of
`ReadUncertain`, since the exclusive settlement disables it again and again).
It also needs a probe for every kind: `reconcile_pending` gives up at the first
kind without one.

## Proofs

`ActionLedgerProofs` proves for every set of processes, keys, kinds, budgets
and probes:

- `TypeCorrect`: the type invariant.
- `EffectAtMostOnce`, `LedgerIsTruthful`: under an exclusive settlement no
  action is performed twice and a settled status is the truth. Neither is
  inductive: that a started row fires only once depends on who holds it. The
  strengthening is `Owned`: a claimant's row is started and the claimant knows
  how often the effect has happened (`ClaimantKnows`); a row has one claimant
  (`OneClaimant`), or a settlement and no claimant (`SettledAlone`); there is one
  settlement (`OneSettlement`) and what its probe saw still stands
  (`VerdictStands`). One lemma per action; steps that touch neither rows nor
  effects share `QuietStep`.
- `LedgerImplementsEffectOnce`: by the same invariant every step is a `Try`,
  `Happen` or `Learn` of `EffectOnce`, or a stutter.
- `RowsReplayChains` and `SkippedWasPerformed` need no discipline. The first
  shows that a claim and a settlement extend a history that alternates between
  the two, and that the row is its replay.

Nor do the theorems about what is counted:

- `BudgetHolds`: a claim adds at most its own row to the rows of its kind
  (`ClaimAddsItsRow`), and the budget counted them without it. `RetriesAreKept`
  follows, once every claimed action is known to have a row (`RowsStay`).
- `EffectsAreCovered`: every effect, and every claimant that may still fire, has
  an attempt of its own. The strengthening `Covered` adds that the claimants of
  an action are finitely many, so `Procs` may be any set.
- `SettlementsRunOut`: a settlement under way always has a row to deal with
  (`HasARow`), and each of its moves lowers the natural number `Work`, the rows it has
  left. This is the half of `UncertaintySettles` that needs no fairness.

Under an exclusive settlement, `SettlementsSucceed` adds that no update of
`complete` or `reconcile` finds its row settled by somebody else, so their
KeyError is left to those who break the discipline.

`MissionLogProofs` is about logs, for any total of work: the last event of a kind
exists when one does (finite sets of positions are well-founded), appending and
taking a prefix keep a log a log, a contract is satisfied exactly when it is
`Proved`, work is unconfirmed exactly when it is not `Vouched`, the winner is the
first of the most severe signals. So the code's list of signals and its search for
a maximum amount to `Precedence`, the list of the README read from the top,
with drift and contracts in the code's places (`RecoveredByPrecedence`: one case per line, since of equally severe signals,
a stale environment and an unproven contract among them, the order in which
they are raised decides). Hence whoever recovers decides no less severely than any
danger of what was read demands (`RecoveredIsCautious`).

`MissionStoreProofs` proves every safety and action property that the passing runs
of `MissionStore` check, for any processes, actions, work items, tickets and
length of the chain. Every property is about what a process read some steps ago,
so none is inductive; what each needs beside `TypeInv` (what was read is a
prefix of the chain as it is now):

- `VerdictsRestOnTwoMoments`, `ListsFindTheMissions` (`MomentsInv`): the log that was read
  is the chain of one moment, the rows are the unsettled effects of a later one, and
  by the lemma the verdict is the precedence applied to the two. That a listing
  never puts a lasting danger under active or completed comes from `LastingInv`.
- `NoAlarmWithoutAWrite` (`AlarmInv`): the reads come in the order chain, head, log,
  and without a write since the first they have equal lengths.
- `ApprovalsSawTheirState` (`ApprovalInv`): both lengths of a digest were the chain's
  at moments of the operation.
- `ConfirmationsAreBacked` (`ConfirmInv`): a ticket confirms at most once, and the
  slips that are used are those the chain has a confirmation of.
- `CheckpointsReplayed`, `RestoresWhatWasSaved` (`CheckpointInv`, `RestoreInv`): a
  checkpoint is the projection of the prefix it is numbered with, and prefixes stay.
- `VerdictsSeeLastingDanger`, `BriefingsShowLastingDanger` (`LastingInv`): a danger
  that stood the whole time is in everything read so far, whatever its age.
- `ClosuresOnEvidence`, `HandoffsOnEvidence` (`RowsInv`, `EvidenceInv`): the rows are
  the unsettled claims of the chain, and each check that was passed held at a
  moment since the operation began.

`MissionsProofs` does the same for the properties of `missions_travel`, for any
files, missions, actions, items and capsules. `TravelInv` says: a head counts its
chain (`TablesOK`); a known mission has events, a chain begins with its mission
or with a claim, and an action with a row has events (`Beginnings`); where no capsule
came in, the rows that are started are the unsettled claims of the chain
(`RowsAgree`); what an export has read, and what an unredacted capsule holds, is
a prefix of the mission at some file (`Carried`). `SpoiltByOrphansAlone`,
`UnsettledNeverSafe` and `ImportsAreSomeonesPast` follow, the
second by `RecoveredIsCautious`.

`EnvironmentProofs`, for any components and declarations: `StaleIsExact`. The
strengthening says what the loop keeps true between visits: the invalid
components are within every closed set around what changed, and in a pass
without progress every component visited so far requires nothing invalid; so
when such a pass ends the set is closed, and the least. `VerdictsHaveTheirMoment`
adds that what is compared is the last pin of the prefix that stood when the
check began (`PinIsFromTheChain`). `CheckRunsOutOfWork`, for finitely many
components, gives the check a decreasing measure: a visit takes one from what the
pass has left, and another pass must have made a component invalid, of which
there are only so many.

`DatabaseFileProofs`, for any pages, handles, jobs and backups:
`DamageIsContained` needs no discipline: nothing but a sound copy is on its way
to the path, and a page of the log or of a mixture comes from a commit.
`QuietRestoreIsAtomic` and `QuietBackupIsCurrent`
assume `QuietRestore`: without handle or log at the replacement, what is
read afterwards is what was put there. The strengthening is that a checkpointed log
agrees with the file, and that only a sound copy gets as far as the replacement. `QuietDatabaseIsDurable` maps each step to one of
`DurableDatabase` or to a stutter: `content` is what whoever opens the path reads,
`saved` the sound copies there are. The steps of a restore before its last are
stutters or lose a copy, so a death in any of them is harmless; a checkpoint, the
opening and the closing of a handle change nothing anybody reads.

`IntegrationsProofs`, for any releases, commands and clients: `ReportsAreTrue`
follows the locals of a run from step to step (what was written, compared and
undone, and that no policy is of a release to come); `UndisturbedHooksStand` shows that an undisturbed command has the file to
itself; `EditsSurviveUninstalls` that a file about to be removed was seen
unedited.

`EffectOnceProofs` proves `PromiseIsSound` of the abstract module: what
implements it performs nothing twice.

### Disciplines that are enough

The four counterexamples refute what documents say of *every* execution. For each
of them a discipline of those who use the program is proved to be enough, for
every value of the constants. The disciplines are conditions on steps, not part
of the models, and each still admits the interleavings that it does not
mention:

| Counterexample | Discipline | Theorem |
|---|---|---|
| `close_unsettled` | `ClosuresUndisturbed`: while a closure is under way nobody claims an action or reports agent work; settlements, own work, confirmations, handoffs and other closures may interleave | `UndisturbedClosuresAreSettled` |
| `missions_orphan` | `MissionsComeFirst`: nobody writes to a mission its file does not know, which is the question `append` asks and `claim` does not | `NoOrphansNoPoison`: chains begin with their mission, known missions verify, lists do not fail |
| `missions_carried` | `ExportsAreSettled`: what is exported has no effect without an outcome | `SettledCapsulesKeepThePromise` |
| `restore_over_log` | `QuietRestore` | `QuietRestoreIsAtomic`, `QuietDatabaseIsDurable` |

The first rests on `SettledInv`: since a closure began, nothing was written that
could undo a check that passed (`Undisturbed`), and so what `EvidenceInv` knows of
a moment of the operation still holds at its append (`SettledStays`,
`VouchedStays`). The second on `EventsOfMissions`, the third on
`SettledInTransit`: what is on its way or arrived has no unsettled claim without
its row, so rows and chains agree in every file, imports included.

Assumptions: `ConstantsOK` (the keys are a finite non-empty set, the budgets map
kinds to naturals), `EnvironmentConstantsOK`, `DatabaseConstantsOK`,
`HermesConstantsOK`, `HookConstantsOK` (special values differ from ordinary
ones), `LogConstantsOK`, `StoreConstantsOK`,
`MissionsConstantsOK` (totals and bounds are numbers, the sorts are disjoint) and,
where it is said, `ExclusiveSettlement`, `QuietRestore`, one of the disciplines
above, or that the components are finitely many.

Only model-checked: liveness under fairness (`UncertaintySettles`, `ChecksEnd`),
which is out of the prover's reach, as is ENABLED. Of both the measure that
decreases is proved (`SettlementsRunOut`, `CheckRunsOutOfWork`); what TLC adds
is that the steps are taken. Induction over data and RECURSIVE operators would be
out of reach as well; there are none here. And the four counterexamples, which are
TLC's to find.

## Not modelled, and why

- Authorization, JSON-RPC, the MCP wiring: no state beyond the call.
- Evidence collection, verifier policies, the patterns of redaction, dashboard, doctor, demo,
  parsing and printing: input and output. `runtime_status` belongs here; it
  counts missions by a field that `list_missions` does not return.
- SHA-256, signatures: taken as injective and unforgeable. Capsules are not
  tampered with.
- What SQLite does to a handle whose file was replaced; a disk that loses
  committed pages.
- Schema migration: one handle, once.
- Effects that reach the world after their process has died and been probed.
- The text and the size limit of a briefing.

## Plan

1. (done) `EffectOnce`, `ActionLedger`, its proofs; the most important promise.
2. (done) `MissionLog`, `MissionStore`: operations of several statements.
3. (done) `Missions`: creation, claims for unknown missions, capsules between
   files.
4. (done) `Environment`: the closure over dependencies as an iteration, against
   the least fixed point.
5. (done) `DatabaseFile`: backup, restore under open handles, the write-ahead log.
6. (done) `HermesIntegration`, `HookFile`: install, handshake, rollback and
   removal beside a user who edits; hook files.
7. (done) Proofs about `MissionStore` and `Missions`, for any number of processes,
   files and missions.
8. (done) What a verdict and a listing rest on, the disciplines that are enough, the refinement of `DurableDatabase`, the
   measures behind the two liveness properties.
9. A recovery composed with `Environment`, its check being one of the reads. Until
   then the drift that a recovery is given is any drift.
10. Abstract specifications of what a closure and an approval promise, with
    `MissionStore` as their implementation.
