# A verification project for codex-storage-doctor

The storage doctor is a command line program that installs one SQLite trigger
in Codex's diagnostic database (`logs_<n>.sqlite`), so that the database stops
growing, and removes it again.  It works on a file that another program owns
and that other processes may open, write, migrate or replace at any moment; its
promises (`docs/SAFETY.md`) are about exactly those moments.  This directory
holds TLA+ models of that protocol, the TLC runs that check them on small
instances, and TLAPS proofs of what matters most for every instance.

Source paths below are relative to `src/src/codex_storage_doctor/`.

## 1. Inventory

| Part | State | Operations | Interacts through | What makes it correct |
|---|---|---|---|---|
| Planning (`planning.py`) | none; produces a plan document | `create_plan`, `validate_plan_document`, the fingerprint and trigger readers | reads the database; the plan goes to apply | the plan describes one file and one schema; a stale plan is refused |
| Apply (`mitigation.py:549`) | backup, prepared and applied manifest, one transaction | three process gates, preflight, backup, lock, recheck, `CREATE TRIGGER`, `COMMIT`, verify, seal | database, artifacts, process scan | a mutation follows a backup of exactly what it changes, lands on the planned file, can be undone, is reported |
| Rollback (`mitigation.py:878`) | a second backup, the manifest's status, a record | the same with `DROP TRIGGER`; two paths for a trigger that is already absent | the manifest of an apply | removes only the trigger of the manifest; manifest and record agree with the database |
| Backup, storage state (`:245`, `:283`) | a file beside the database | online copy, `quick_check`, link into place; sizes and mtimes of database and WAL | SQLite | complete, and not outdated at the commit |
| SQLite connections (`planning.py:115`, `mitigation.py:180`) | `-wal` and `-shm` files | open `mode=ro` or `mode=rw`, read, close | SQLite's checkpoint and sidecar rules | side effects do not mislead the doctor's own checks |
| Process gate (`:98`) and scan (`processes.py`) | none | `lsof`, `/proc`, `ps`, PowerShell; the caller's own handle is ignored after the lock | other processes | nobody else holds the file; partial evidence refuses |
| Artifact writes (`reports.py:20`) | JSON files | create-only, or replacing, through a temporary file | manifests, plans, records | never overwrites by accident, never leaves half a file |
| Command line (`cli.py`) | exit code | handlers around the library | every part | a mutation is never reported as a plain failure |
| Verify, sampling (`cli.py:669`, `sampling.py`) | two snapshots | inspect, wait, inspect, compare with the manifest | database, scan, manifest | "verified" is never said of a state that was not seen |
| Audit, discovery (`paths.py`, `config.py`) | candidate list | roots, configuration files, labels | process scan | no candidate lost or counted twice |
| Filesystem locality (`filesystem.py`) | none | longest mount prefix | mount table | an unknown file system refuses |
| Inspection, models, privacy | none | read-only aggregates, report records | | no private text in a report |

The hard behaviours are interleavings of doctor processes with each other and
with Codex (no lock is held until late, and in WAL mode a lock does not stop
readers), values that were read early and used late (identity, stamps, backup),
failure after the durable `COMMIT`, kills at any point, and side effects of
SQLite itself.  Reports are put together from many reads at different moments, and the evidence
about other processes is never a snapshot.  `PROJECT.json` lists each hazard with its line and the
properties that would notice it.

## 2. Modules

| Module | Models |
|---|---|
| `Mitigation` | the plan / apply / rollback protocol: several doctors, one path, Codex, failures and crashes |
| `MitigationInv` | its inductive invariant `IInv`, in named parts |
| `MitigationLifecycle` | the abstract life of a mitigation: manifest, installed trigger, settled manifest |
| `MitigationRefines` | the refinement mapping from `Mitigation` to `MitigationLifecycle` |
| `MCMitigation` | the symmetry set of these for TLC |
| `WalSidecar` | one WAL database as two files, its stamps, and the side effects of opening and closing it |
| `CommandLine` | the handlers of apply and rollback: tokens, messages, exit codes, an operator who repeats |
| `ArtifactWrite` | `write_private_json` and `read_json_object` on one path: writers, readers, kills, power loss |
| `ProcessScan` | one process gate: `lsof`, process list and descriptors against a changing process table |
| `ProcessScanInv` | its inductive invariant `ScanInv`, in named parts |
| `Discovery`, `MCDiscovery` | candidate roots, duplicates, labels and the WSL boundary; every configuration as an initial state |
| `Locality` | mount table or drive type to the refusal of a target |
| `Sampling` | `sample_database`, query by query, against Codex's writes |
| `Verify` | `verify` with a manifest while apply, rollback, upgrades and replacements go on |
| `Audit` | `audit`: scans, candidates, samples, labels, exit code |
| `Foundations` | composes `ArtifactWrite`, `ProcessScan`, `MCDiscovery`, `Locality` |
| `ReadCommands` | composes `Sampling`, `Verify`, `Audit` |
| `*_proofs` | the theorems, one module for each argument (section 4) |

`Foundations` and `ReadCommands` compose parts that do not run at the same
time.  `main` dispatches once, on the first argument, and a process does
nothing else; artifact writes, gates, discovery and the locality check each
return before the next is called and leave each other's state alone.  A behaviour of the
composition is therefore a behaviour of one part, named by `command` or `part`,
and the variables of the others are `Idle` (for the part that the composition
extends: have nothing to do).  Parts that do interact at run time
are in one module: gates, locks, backups and manifests in `Mitigation`, stamps
and connections in `WalSidecar`, and what verify sees of an apply in `Verify`.

### Mitigation

Each doctor process runs one command, plan-and-apply or rollback, from `idle`
to `done` or `crashed`.  `pc[d]` is the last step completed; the steps are the
statements of `apply_plan` and `rollback` that check or change something, in
their order, and any other process may act between two of them.  The two
functions are kept apart because they differ where it matters: apply closes its
connection last, rollback before it verifies; apply ends without a trigger to
add by returning, rollback by sealing the manifest.

* `db[i]` is the committed content of file `i`: base schema, triggers and a
  version `ver`.  `path` is the file that the database path names; a file that
  is replaced stays open for those who hold it.  Every check by path in the
  code (`GateClear`, `before`, identity, read-only connections) reads `path`,
  every statement on the writable connection reads `conn[d]`.
* `ver` stands for the rows and for the sizes and modification times that
  `_storage_state` compares.  It moves with every commit, so stamps are taken to
  be exact: two different contents of one file never have the same sizes and
  nanosecond times.
* `mode`, `ident` and `fp` are the plan's or manifest's mode, file identity and
  base schema fingerprint.  They never change after an apply has started, so
  `manifest[d]` is only the status on disk, and a rollback reads the rest from
  the apply it undoes.
* `author[i]` is a ghost: the doctor whose `COMMIT` made the present trigger
  state.  Codex's commits keep it when they leave the mitigation triggers alone.
* A gate is one sample: nobody but the caller has the file at the path open.
  A Codex process without a handle, partial `lsof` evidence, an unmet check, an
  I/O error or Ctrl-C all end the command before `COMMIT` without touching the
  database; `FailBeforeCommit` allows that at every step.  After `COMMIT` the
  same events end in `ApplyFailAfterCommit` and `RbFailAfterCommit`.
* `ApplyCommitRaises` and `RbCommitRaises` raise with or without the durable
  effect; the outcome is then read by path, as `_apply_commit_outcome` and
  `_rollback_commit_outcome` do, when others may already have acted.
* `WalMode` decides whether `BEGIN EXCLUSIVE` stops read-only connections.
* Codex, another SQLite tool and whoever moves files are the environment.  An
  operator's obedience (keeping Codex closed) is not assumed: Codex may open
  the database again at any time, and the gates have to notice.

### WalSidecar

One doctor and one Codex connection on a WAL database.  `main` transactions are
in the main file, the rest of `commits` in the `-wal` file; `mainTime` and
`walTime` are the stamps that `_storage_state` returns, drawn from `clock`.
Opening creates a missing `-wal` even for `mode=ro`; the last writable close
checkpoints and deletes it; a kill does neither.  These four rules (`Attach`,
`Append`, `MoveTo`, `Detach`) are SQLite's and not the repository's; they were
observed with Python's `sqlite3` on the repository's own fixture.  The doctor's
steps are those of `Mitigation` that open, close, measure or write; `End`,
`Abandon` and `Killed` are the ways a command stops early.

### MitigationLifecycle and its refinement

The lifecycle knows mitigations, files, which trigger is in which file and what
each manifest says.  It says in six actions what the protocol is for: no trigger
before its manifest (`Prepare`, `Install`), one owner for the trigger of a file,
and `Settle` (`rolled_back`) only while the trigger is not in the selected
file.  In the mapping a file is held by the doctor whose `COMMIT` made its
present trigger state, as long as a mitigation trigger is there; gates, locks,
backups, connections and crashes are stutters.  `Settle` speaks of the selected
file because the absent path of rollback does not look at the identity again
before it seals: the trigger may still be in a file that has been moved away.  `Select`
needs a file without a trigger for the same reason that `Mitigation` has it:
replacing files is how Codex starts a fresh database.

### CommandLine

`_run_apply`, `_run_rollback`, `_safety_exit` and `main` around a condensed
library call.  A manifest is its status and its token; sealing takes a new
token, because the digest covers status and time.  `told` holds the tokens that
the command has shown on either stream, `lib` how the library call ended,
`outfile` whether something is already at `--output`.  Steps of the library that
differ in what the handler then says are kept apart; each may fail before or
after its effect, be interrupted, or be killed, `MaxFaults` times in one
behaviour.  A refusal carries the set of those phrases of `_safety_exit` that its
message contains, and the exit code is computed from the phrases in the order of
the code.  One operator applies, then rolls back and repeats rollback until it
ends with 0, with the same command line or with the token of the manifest on
disk.  Codex stays closed here: what it can do to a command is in `Mitigation`.

### ArtifactWrite

Each writer goes through the calls of `write_private_json`: existence check,
temporary file, write and flush, fsync, link or replace, clean-up, chmod.
`data` is what a reader sees, `synced` what is left of it after a power loss,
`path` and `onDisk` the file that the name refers to now and after a power loss:
the directory is never fsynced, so a name can go back.  Any call may fail, any
writer may be killed; on Windows there are no hard links and rename refuses an
existing name.  A reader opens and reads in two steps.

### ProcessScan

The process table changes `MaxEvents` times between the parts of a scan:
processes start, exit, exec, open and close databases.  On Linux the parts are
`lsof` on the target, the `/proc` listing, and for each process its owner, its
name, its descriptors one list and one link at a time; on macOS `ps` and `lsof`.
On other platforms the report is never complete.  A process that cannot be read
may have gone or may be hidden; the code tells them apart as far as `/proc`
allows, and the model has both outcomes wherever it has.  The text format of
`lsof` is its outcome: complete, or partial with some of the truth.  `Gate` is
`ensure_process_gate` with the handle of the caller ignored in the third gate.

### Discovery and Locality

`Discovery` visits the roots in the order of the code and gathers sources,
labels and the cross-boundary flag of each candidate; `MCDiscovery` enumerates
every configuration of two homes (command line, environment, `config.toml`,
profile, profile file).  The reference definitions (`CurrentPlaces` and the like)
state what the configuration says without visiting anything.  `Locality` is the
deepest-mount match with ties decided by the comparison of tuples, against what
the kernel would show (`VisibleType`).

### Sampling, Verify, Audit

`Sampling` makes each query of `inspect_database` a transaction of its own,
with Codex's inserts, prunes, checkpoints and schema upgrades between any two, and a
process scan after each inspection.  `Verify` reads inspection, sample,
manifest, identity, schema and triggers in the order of `_run_verify`, while an
apply or a rollback with the same manifest commits and seals, Codex upgrades,
triggers come and go, and the file is replaced; `SwapLate` allows a replacement
between its two look-ups of the path.  `Audit` is the flow of `_run_audit`: the
scan, candidates from open handles and the second scan they cause, a sample of
each candidate, mtimes read one after the other, labels, exit code.

## 3. Runs

| Run | Instance | Shows |
|---|---|---|
| `processes` | 3 doctors, 1 file, rollback journal (155,062 states) | `OneMutator`, `RecordIsTruthful`, `SealMatchesState` |
| `client` | 2 doctors, 1 file, 2 schemas, 2 modes, a stray and a foreign trigger, WAL, 2 client commits (561,252) | `TypeOK`, `Recoverable`, `HonestOutcome`, `CommitFollowsBackup` |
| `replaced` | 2 doctors, 2 files, 2 schemas, rollback journal (675,614) | `IInv`, `CommitOnPlannedTarget`, `ImplementsLifecycle` |
| `wal_sidecar` | 2 Codex commits, 6 file changes before the doctor's last command | `TypeOK`, `BackupIsComplete`, `RefusalHasCause` |
| `command_line` | 5 faults (19,178) | `TypeOK`, `MutationIsTold`, `NineMeansCommitted`, `Reconciled`, `RepeatSucceeds` |
| `read_commands` | 2 rows, 2 levels, 2 events in a sample; 2 files, 3 events in a verify; 2 databases, 2 times, 3 events in an audit (about 6.8 million) | `PartsTypeOK`, `NoInsertMissed`, `QuietIsReportedQuiet`, `HeldIsSeen`, `OkBindsObject`, `OkWasConfirmed`, `QuietVerdict`, `StaleIsOlder`, `ActiveHasEvidence`, `HolderIsFound` |
| `foundations` | 3 writers, 1 power loss; 2 other processes, 2 databases, 2 events, 4 platforms; 2 homes; 3 mount points, 4 mounts, 5 types (about 2.3 million) | `PartsTypeOK`, `WholeDocument`, `ReadsWhole`, `OneWinner`, `DocumentKept`, `HolderNeverMissed`, `CodexNeverMissed`, `RefusalHasCause`, `CurrentIsWhatIsConfigured`, `CrossBoundaryRefused`, `AcceptedIsLocal`, `LocalIsAccepted` |
| `wal_seal` | 2 doctors, WAL | `SealMatchesState` fails |
| `swap_back` | 1 doctor, 2 files that may change back | `CommitOnPlannedTarget` fails |
| `sidecars_kept` | as `wal_sidecar` | `SidecarsKept` fails |
| `repeat_same` | as `command_line`, 1 fault | `SameCommandSucceeds` fails |
| `manifest_code` | as `command_line`, 1 fault | `ManifestRefusalCode` fails |

Of the protocol:

* `CommitFollowsBackup` and, for the two files of a WAL database,
  `BackupIsComplete`: at the durable `COMMIT` the backup is exactly the content
  that changes.  Four steps and a lock lie between the two; the stamp under the
  lock carries the argument.
* `CommitOnPlannedTarget`: right file, right schema, exactly one trigger.
* `Recoverable`: wherever a doctor's trigger is, after any crash, the manifest
  and the clean backup that undo it are on disk.
* `HonestOutcome`: a command whose commit made the present state never ends as
  a plain refusal or no-op.
* `OneMutator`: the file handles that gates look for serialise the doctors, from
  their last recheck to their close.  Without this an apply could write
  `applied` over the `rolled_back` of a quick rollback.
* `RecordIsTruthful`: a rollback record never stands beside a manifest that
  says something else.
* `SealMatchesState`: `rolled_back` is never sealed while the trigger of that
  manifest is installed.  True with a rollback journal.
* `ImplementsLifecycle`: applies, rollbacks, crashes, upgrades and replaced
  files in any order are a behaviour of the lifecycle.
* `WalSidecar!RefusalHasCause`: the doctor's own reads and closes, which create and delete
  the `-wal` file, never make it refuse with "database or WAL changed".

Of the command line:

* `MutationIsTold`: a command that changed the database ends with its result
  emitted, with 9, or by the interrupt, and has shown the token that the
  manifest on disk has then; only a kill or a dead standard error silences it.
* `NineMeansCommitted`: 9 is not given to commands that certainly changed nothing.
* `Reconciled`, `RepeatSucceeds` (liveness): repeating rollback ends with the
  trigger gone and the manifest `rolled_back`, for good; with the token of the
  manifest on disk also with exit code 0.

Of what the commands stand on:

* `WholeDocument`, `ReadsWhole`: the name of an artifact refers to a complete
  document or to nothing, now and after a power loss, and no reader decodes an
  unfinished one.
* `OneWinner`, `DocumentKept`: create-only is exclusive, and only a writer that
  was asked to replace takes a document's name away.
* `HolderNeverMissed`, `CodexNeverMissed`: a gate that clears has not missed a
  process of this user that held the database, or was Codex, all the time,
  whichever tool failed and whatever else started, ended or exec'ed.
* `ProcessScan!RefusalHasCause`: the caller's own handle never refuses the
  third gate.
* `CurrentIsWhatIsConfigured`, `CrossBoundaryRefused`: labels and the boundary
  flag do not depend on which root came first.
* `AcceptedIsLocal`, `LocalIsAccepted`: the mount the code chooses is the one
  the target is on, and a known local target is refused only for want of
  evidence.

Of the commands that read:

* `NoInsertMissed`: an insert between the two sequence reads is reported as a
  logical change, also if the row is pruned before the second snapshot or the
  aggregates are skipped.  `QuietIsReportedQuiet`: reads that fail or are
  skipped never invent a change.  `HeldIsSeen`: one complete scan of the two is
  enough.
* `OkBindsObject`, `OkWasConfirmed`, `QuietVerdict`: exit 0 of verify is about
  the file of the manifest, never about an unconfirmed apply, and, when nothing
  else goes on, exact.
* `StaleIsOlder`, `ActiveHasEvidence`, `HolderIsFound`: labels compare with a
  database that was open or written during this audit, and a database that is
  open throughout is a candidate wherever it lies.

Bounds.  Two doctors are what the pairwise races need; the third in `processes`
makes an apply, its rollback and a second rollback or apply overlap.  Two files
give a replacement between any two steps.  Two modes and one trigger of each
other kind give every combination that the checks tell apart.  Codex writes to a
file while its version is below `MaxVer`: at 1 one write can fall into each
window that the checks leave open, at 2 (`client`) also after an apply has
committed and before its rollback does.  Three writers are a create-only winner,
its competitor and a replacer.  Two events in a scan are a process that goes and
another one under its pid, or a handle that is closed and reopened; two events in a
sample an insert and a prune; three in a verify a commit, its seal and something
that disturbs them; three in an audit an open, a write and a delete.  Four
mounts on three points give ties, hidden and unmounted entries.  Five faults let
apply fail after its commit and rollback fail in four more ways before it
succeeds.

Fairness.  `CommandLine` assumes `WF_vars(Progress)`: the process that runs goes
on, none of its steps waits for anything but I/O, and the operator repeats the
command, which is what `docs/SAFETY.md` asks of them.  Failures, interrupts and
kills are not fair, only bounded.  The other modules are about safety: their
commands end by themselves.

Commands end, so `CHECK_DEADLOCK FALSE` is given everywhere: all processes may be
done, a clock or an event bound may stop everyone, and one scan, sample or
discovery is finite.  Processes, doctors, files and writers are interchangeable where
they are in a symmetry set, and every property of those runs quantifies over all
of them; the runs with liveness use none.

### Disagreements with the documents

Shown by a run:

* `sidecars_kept`: `docs/SAFETY.md:17` says that no command removes sidecars or
  checkpoints.  The close of the writable connection does both, because the
  gates have just made sure that it is the last one, and a refused apply or a
  no-op does so too.  Nothing is lost; the sentence is stronger than the code.
* `wal_seal`: in WAL mode the absent path of rollback can read the state from
  before another doctor's `COMMIT` and seal `rolled_back` after it
  (`mitigation.py:951`), against `docs/SAFETY.md:238`.  The other doctor has
  passed its last gate, so it does not notice the reader.  Repeating rollback
  repairs it.
* `swap_back`: path, connection and identity are compared at different moments.
  If a file leaves the path before the writable connect and comes back before
  the identity check, the connection is on the other file, against
  `docs/SAFETY.md:190`.  No supported operation of Codex does this.
* `repeat_same`: `docs/SAFETY.md:244` says to repeat the same rollback command.
  Once the manifest has been sealed its token is another one
  (`mitigation.py:886`), and the same command is refused every time; with the
  token that the failed command has shown it succeeds.
* `manifest_code`: the "schema" among the phrases of stale plans
  (`cli.py:942`) also matches "unsupported rollback manifest schema", so the
  exit code is 6 where `README.md:299` gives 7.

Seen while modelling, without a run of their own:

* A Codex process of another user is passed over (`processes.py:228`), although
  `docs/SAFETY.md:188` has mutation refused while Codex runs.
* If standard error takes nothing, recovery coordinates are lost
  (`cli.py:549`; `docs/SAFETY.md:160`).
* `docs/PLAN.md:228` lets only a stable open-target sample say "no observed
  logical change"; the code takes one scan of the two for enough
  (`sampling.py:177`), so Codex may have closed the database in between.
* verify looks at the path twice (`cli.py:705`); with `SwapLate = TRUE` its
  exit 0 can be about another file.
* There may be no `configured_current` candidate at all (`paths.py:139`;
  `docs/PLAN.md:264`), and an open database joins the candidates only through a
  complete scan (`cli.py:318`; `docs/PLAN.md:253`).
* With a mount over an older, deeper one (`Overmounts = TRUE`) the deepest mount
  point is not what the target is on (`filesystem.py:97`; `docs/SAFETY.md:36`).

## 4. Proofs

| Module | Theorem | States | Assumes besides the constants' types |
|---|---|---|---|
| `Mitigation_proofs` | `TypeCorrect` | `TypeOK` | |
| | `Invariance` | `IInv` | `~SwapBack` |
| | `AlwaysRecoverable` | `Recoverable` | `~SwapBack` |
| | `BackupFirst` | `CommitFollowsBackup` | `~SwapBack` |
| | `PlannedTargetOnly` | `CommitOnPlannedTarget` | `~SwapBack` |
| `MitigationOutcome_proofs` | `NeverTwo` | `OneMutator` | `~SwapBack` |
| | `RecordsAreTruthful` | `RecordIsTruthful` | `~SwapBack` |
| | `OutcomesAreHonest` | `HonestOutcome` | `~SwapBack` |
| `MitigationRefines_proofs` | `SealsMatchState` | `SealMatchesState` | `~SwapBack`, `~WalMode` |
| | `Implements` | `ImplementsLifecycle` | `~SwapBack`, `~WalMode` |
| `WalSidecar_proofs` | `TypeCorrect` | `TypeOK` | |
| | `BackupCovers` | `BackupIsComplete` | |
| | `NoSelfRefusal` | `RefusalHasCause` | |
| `CommandLine_proofs` | `CommandTypeOK` | `TypeOK` | |
| | `CommitIsTold` | `MutationIsTold` | |
| | `NineIsCommitted` | `NineMeansCommitted` | |
| `ArtifactWrite_proofs` | `TypeCorrect` | `TypeOK` | |
| | `AlwaysWhole`, `AlwaysReadsWhole` | `WholeDocument`, `ReadsWhole` | |
| | `AtMostOneWinner`, `PathIsKept` | `OneWinner`, `DocumentKept` | |
| `Foundations_proofs` | `NoHolderMissed`, `NoCodexMissed` | `HolderNeverMissed`, `CodexNeverMissed` | |
| | `NoRefusalBySelf` | `RefusalHasCause` | |
| | `OnlyLocalAccepted`, `EveryLocalAccepted` | `AcceptedIsLocal`, `LocalIsAccepted` | `~Overmounts` |
| | `CurrentIsRight`, `NoCrossBoundary` | `CurrentIsWhatIsConfigured`, `CrossBoundaryRefused` | |
| | `PartsHaveTypes`, `WritesKeepTheirWord` | `PartsTypeOK`, those of `ArtifactWrite` in the composition | |
| `ReadCommands_proofs` | `InsertIsReported`, `QuietIsQuiet`, `HolderIsSeen` | `NoInsertMissed`, `QuietIsReportedQuiet`, `HeldIsSeen` | |
| | `OkIsAboutTheObject` | `OkBindsObject` | `~SwapLate` |
| | `OkIsConfirmed`, `QuietIsExact` | `OkWasConfirmed`, `QuietVerdict` | |
| | `StaleIsRight`, `ActiveIsUsed`, `HolderIsListed` | `StaleIsOlder`, `ActiveHasEvidence`, `HolderIsFound` | |
| | `PartsHaveTypes` | `PartsTypeOK` | |

Every invariant and every action property that a passing run checks is the
conclusion of one of them.  They hold for any number of doctors, files, schemas,
modes, triggers, processes, databases, places, mounts, rows, writers, faults and
events, and, unless `~WalMode` is listed, in both journal modes.  The four
assumptions are needed: the runs `swap_back` and `wal_seal` are what happens
without the first two, and section 3 names what happens without `~SwapLate` and
`~Overmounts`.

*The core.*  None of the safety properties is inductive: what makes `COMMIT`
safe is a chain of samples (identity, stamp, copy, connection, stamp again,
identity again), each taken at a different moment, possibly of different files.
`IInv` says how they fit together under the condition that the planned file is
at the path: then it has always been there since (`PastOnly`, where `~SwapBack`
is needed), so the stamp was taken of it (`MeasuredOK`), the copy too
(`BackedOK`), and the connection is on it (`ConnectedOK`).  When `ApplyRecheck`
finds the identity and the stamp unchanged, the condition is discharged and
`CheckedOK` holds without it: connection on the planned file, backup equal to
its content.  From there to `COMMIT` the lock (`LockExclusive`, `Locked`) keeps
everybody else from writing.  `ManifestOK`, `CreatedOK` and `DroppedOK` carry
what the last checks have found, `AuthorEnded` that the author of a state does
not start over.  The proof has one lemma for each doctor's own step
(`OwnStep`), lemmas on what others leave untouched (`OthersUntouched`,
`OnlyCommitWrites`), and one lemma for each part of the invariant;
`CommitFacts` then reads off both action properties.

*One mutator.*  A doctor that has passed its third gate was alone with the
file then (`GateHolds`), keeps its connection (`ConnectionKept`), and anyone who
connects later is stopped by its own gate or by the lock.

*Records and outcomes.*  A record is written only by the rollback that sealed
the manifest, and once that rollback has committed, the apply of the manifest can no
longer write to it: the file has changed since the apply measured it, so its
last recheck will refuse (`Outdated`, in `RecordInv`).
`OutcomeInv` says that a doctor whose commit raised sees its own effect as long
as nobody has changed it since (`SeenAsItIs`).

*The refinement.*  `SealInv` carries what a rollback saw until it seals: on the
absent path nobody can have installed the trigger again, because the holder of
the lock would have been seen or would have seen it (`AbsentAlone`,
`AbsentSeen`), after its own drop nobody has either (`UndoneGone`), and a
manifest that is still `prepared` belongs to an apply that has not finished
(`PreparedOK`).  With it each step of the protocol is a step of the lifecycle or
a stutter.

*Two files of one database.*  The doctor compares stamps, and the stamp of the
`-wal` file can come back: absent when measured, then created, written,
checkpointed and deleted.  `LaterShows` is why that does no harm: a commit that
the backup lacks is in the main file, whose time has then moved, or in a `-wal`
file that was not measured.

*Artifacts.*  `ArtifactInv` ties what a temporary file holds and has synced to
the place of its writer, so a name never refers to less than a synced document;
and it says that a create-only winner is the first file the name referred to.

Why a command does not refuse for its own side effects is `QuietInv`: from the
first read on there is a `-wal` file, so the stamps that a command measures are
those it meets later, unless Codex moved them.

*What the operator is told.*  `CommandInv` follows the manifest's token.  Up to
the seal after `COMMIT` both of the tokens that the library call has in hand
are the one of the manifest on disk; after the seal the second one is
(`TokenInHand`).  A seal that raises may have left its document behind or not,
and either set that a recovery offers then contains the token on disk
(`OfferHasToken`).  `HandlerKnows` says that what the handler is given agrees
with what happened to the database, and the proof has one lemma for each kind of
step: those that start, refuse, go on, end the call, end it in recovery, and end
the process.

*The process gate.*  `ScanInv` (`ProcessScanInv`) says, for each part of a scan,
what is already established about a process that must not be missed: that it is
named by the `lsof` that came first, is still on the list or has been observed
(`HoldersNamed`, `CodexListed`, `ReportComplete`), or that the report is partial.
A second argument is about the doctor alone: as long as nobody else was Codex or
held the database, nothing but the caller's own handle is in the report
(`OnlySelfSeen`).

*Locality.*  Without overmounts a newer mount that contains the target is deeper
(`MountsOrdered`), so the deepest match, ties included, is the newest mount.

*Discovery.*  The references `CurrentPlaces` and the like do not visit anything,
so the proof describes what the roots are, whatever their order and
repetitions: the elements of the concatenated lists (`RootsElems`), and which of
them are current (`CurrentRoots`).  `LabelsGathered` and `CrossGathered` say of
the visits that a candidate has exactly the labels of the roots visited so far.

*Sampling.*  The sequence never falls unless the table is recreated, and an
insert raises it: `InsertShows` compares it with what the first read returned
until the second read is done.  The lemmas on the queries (`GreatestId`,
`QueryValues`) give what each returns of a table; `QuietShots` says that what has
been read of a quiet database is what is there.

*Verify.*  `VerifyInv` says that what has been read from the connection is of
the file whose identity was compared, and that a status other than `prepared`
was read after the apply had confirmed it.

*Audit.*  Whatever is open or changed has been used since the audit began, and a
file that is judged stale is compared with the time of such a one
(`NewestIsUsed`, `StaleIsJudged`); what a complete first scan saw is listed
before it is needed (`HolderListed`).

The inductive invariants were checked with TLC on the instances of the runs
before they were proved: `IInv` is a property of the run `replaced`, and the
configuration of `command_line`, `read_commands` or `foundations` with the
corresponding proofs module and `CommandInv`, `AuditInv`, `SampleInv`,
`VerifyInv`, `GateInv` or `MountInv` as an invariant repeats it for the others.
(`DiscoverInv` quantifies over all roots, which TLC cannot enumerate.)

Left to TLC: `Reconciled` and `RepeatSucceeds`, because liveness under fairness
and `ENABLED` are out of the prover's reach, and so is induction over data: no
theorem is about a recursive definition.

## 5. Not modelled

* The fields of plans and manifests (`planning.py:378`, `mitigation.py:322`):
  a document is valid or refused.  Digests are taken to be perfect.
* In `inspect_database`, `quick_check` and an unsupported schema are one error,
  and the column reports are left out.
* The text format of `lsof`, PowerShell's output, splitting the lines of a mount table.
* Sizes and free space.  The space check can only refuse; what grows after it
  makes the copy fail, which is one of the failures before `COMMIT`.
* Temporary and link names inside `_backup_database`; the backup appears whole
  or not at all.
* Profiles nested in a profile's own file.
* Processes of other users, beyond being passed over.
* A `KeyboardInterrupt` that arrives right after rollback's `COMMIT`, before
  the connection is closed.  Elsewhere it is delivered between calls, as CPython
  3.11 and later do.
* Report records and the privacy filter (`models.py`) are pure mappings without
  state; scripts, plugin and documents are no part of the program.

## 6. Plan

What is left, in this order:

1. The absent path of rollback in WAL mode: a lifecycle that allows the late
   seal and its repair by a repeated rollback, so that the refinement covers
   both journal modes.
2. Several database paths in one `Mitigation`, for operators who run the doctor
   on two homes at once.
