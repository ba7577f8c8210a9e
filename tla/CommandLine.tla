----------------------------- MODULE CommandLine -----------------------------
(***************************************************************************)
(* The commands apply and rollback as an operator sees them: what the        *)
(* library call leaves behind, what the handler in cli.py prints, the exit   *)
(* code, and an operator who rolls back and repeats the command until it     *)
(* succeeds.  Codex stays closed and one command runs at a time; any step    *)
(* may fail, write and then fail, be interrupted or be killed.               *)
(*                                                                          *)
(* A sealed manifest is its status and its token; sealing takes a new token, *)
(* because the digest covers the status and a time.                          *)
(***************************************************************************)
EXTENDS Naturals

CONSTANT MaxFaults  \* bound: failures, interrupts and kills in one behaviour

ASSUME CommandLineConstants == MaxFaults \in Nat

VARIABLES
  trigger,  \* is the trigger in the database?
  manifest, \* [status, token] of rollback-manifest.json
  record,   \* is there a rollback-result.json?
  sealed,   \* tokens taken so far
  repeats,  \* the operator repeats the "same" command, or with the "durable" token
  cmd,      \* the command that runs or ran last
  stage,    \* where it is
  confirm,  \* token of the rollback command line
  output,   \* does it have --output?
  outfile,  \* does a file exist at that path?
  held,     \* tokens the library call has in hand: prepared or original, current
  lib,      \* how the library call ended
  told,     \* tokens the command has shown
  exit,     \* its exit code, Running while there is none
  mutated,  \* ghost: has this command's COMMIT become durable?
  faults

disk == <<trigger, manifest, record, sealed>>
line == <<repeats, cmd, confirm, output>>
call == <<held, mutated>>
vars == <<disk, line, stage, outfile, call, lib, told, exit, faults>>

Running == 99     \* no exit code yet
Killed  == 137    \* by a signal

EXIT_OK == 0
EXIT_NOT_FOUND == 3
EXIT_SAFETY_REFUSED == 5
EXIT_STALE_OR_SCHEMA == 6
EXIT_ARTIFACT == 7
EXIT_SQLITE == 8
EXIT_RECOVERY_REQUIRED == 9
Uncaught == 1
Interrupted == 130

-----------------------------------------------------------------------------
(* Refusals: which of the phrases of _safety_exit each message contains.     *)

StalePhrases ==
  {"schema", "plan digest", "plan confirmation", "identity changed",
   "changed since planning", "version changed", "trigger sql fingerprint"}
ArtifactPhrases ==
  {"backup", "artifact", "free space", "manifest digest", "manifest schema"}
SqlitePhrases == {"sqlite refused", "quick_check"}

Phrases ==
  [process_gate    |-> {},
   token_mismatch  |-> {},
   base_schema     |-> {"schema", "changed since planning"},
   identity        |-> {"identity changed", "changed since planning"},
   identity_late   |-> {"identity changed", "backup"},
   space           |-> {"free space", "backup"},
   wal_changed     |-> {"backup"},
   source_check    |-> {"quick_check"},
   backup_check    |-> {"backup", "quick_check"},
   refused_lock    |-> {"sqlite refused"},
   manifest_digest |-> {"manifest digest"},
   manifest_schema |-> {"schema", "manifest schema"}]

ManifestReasons == {"manifest_digest", "manifest_schema"}
EarlyReasons == DOMAIN Phrases \ {"refused_lock", "token_mismatch"}

\* The first list with a phrase in the message decides.
SafetyExit(reason) ==
  CASE Phrases[reason] \cap StalePhrases # {} -> EXIT_STALE_OR_SCHEMA
    [] Phrases[reason] \cap StalePhrases = {} /\ Phrases[reason] \cap ArtifactPhrases # {}
         -> EXIT_ARTIFACT
    [] Phrases[reason] \cap (StalePhrases \cup ArtifactPhrases) = {}
         /\ Phrases[reason] \cap SqlitePhrases # {} -> EXIT_SQLITE
    [] OTHER -> EXIT_SAFETY_REFUSED

\* How a library call ends.  kind: "result", "recovery" (MutationRecoveryRequired
\* or RollbackReconciliationRequired) or "error"; error has the exit code that
\* main gives it.
Result(changed, tokens) ==
  [kind |-> "result", changed |-> changed, tokens |-> tokens,
   ambiguous |-> FALSE, error |-> 0, reason |-> "none"]
Recovery(ambiguous, tokens) ==
  [kind |-> "recovery", changed |-> TRUE, tokens |-> tokens,
   ambiguous |-> ambiguous, error |-> 0, reason |-> "none"]
Error(code) ==
  [kind |-> "error", changed |-> FALSE, tokens |-> {},
   ambiguous |-> FALSE, error |-> code, reason |-> "none"]
Refused(reason) == [Error(SafetyExit(reason)) EXCEPT !.reason = reason]
NoResult == Error(0)

-----------------------------------------------------------------------------
Init ==
  /\ trigger \in BOOLEAN
  /\ manifest = [status |-> "none", token |-> 0] /\ record = FALSE /\ sealed = 0
  /\ repeats \in {"same", "durable"}
  /\ cmd = "none" /\ stage = "ended" /\ confirm = 0
  /\ output \in BOOLEAN /\ outfile \in BOOLEAN
  /\ held = <<0, 0>> /\ lib = NoResult /\ told = {} /\ exit = Running
  /\ mutated = FALSE /\ faults = 0

Fault == faults < MaxFaults /\ faults' = faults + 1

To(from, to) == stage = from /\ stage' = to

\* The library call ends; the handler is next.
Return(l) == stage' = "handler" /\ lib' = l

\* The process ends with code.
Ends(code) == stage' = "ended" /\ exit' = code

-----------------------------------------------------------------------------
(* Wrong variants of the definitions below, used to test that the properties *)
(* notice them; the specification uses none of them.                         *)

\* Offers a token that was never taken.
OffersUnset(tokens) == {tokens[1], 0}

\* Treats a failed output as a failed command.
OutputFailureIsFailure(printed) == Ends(EXIT_ARTIFACT) /\ told' = told

\* Takes every failed output for a committed change.
OutputFailureIsNine(printed) == Ends(EXIT_RECOVERY_REQUIRED) /\ told' = lib.tokens

\* Reports the absent trigger and leaves the manifest alone.
AbsentLeavesManifest ==
  /\ stage = "rb_absent"
  /\ Return(Result(FALSE, {}))
  /\ UNCHANGED <<disk, line, outfile, call, told, exit, faults>>

\* Compares with the token that apply showed first.
ComparesWithPrepared == confirm = 1

-----------------------------------------------------------------------------
(* Steps shared by both commands *)

\* write_private_json of a sealed manifest.
Seal(status) ==
  /\ manifest' = [status |-> status, token |-> sealed + 1]
  /\ sealed' = sealed + 1

\* The write raises; the new document may be in place all the same.
SealRaises(status) ==
  /\ manifest' \in {manifest, [status |-> status, token |-> sealed + 1]}
  /\ sealed' = sealed + 1
  /\ Fault

\* rollback_token_candidates, when the manifest cannot be read back.
Candidates(tokens) == {tokens[1], tokens[2]}

\* The tokens a recovery result offers, the manifest being m by then.
Offers(m, tokens) == {{m.token}, Candidates(tokens)}

\* A failure after COMMIT, or of COMMIT itself.
EndInRecovery(ambiguous, tokens) ==
  \E offer \in Offers(manifest', tokens) : Return(Recovery(ambiguous, offer))

-----------------------------------------------------------------------------
(* apply_plan *)

\* The operator starts with one apply.
StartApply ==
  /\ cmd = "none" /\ cmd' = "apply"
  /\ stage' = "ap_start"
  /\ UNCHANGED <<disk, repeats, confirm, output, outfile, call, lib, told, exit, faults>>

AlreadyApplied ==
  /\ stage = "ap_start" /\ trigger
  /\ Return(Result(FALSE, {}))
  /\ UNCHANGED <<disk, line, outfile, call, told, exit, faults>>

ApplyRefused ==
  /\ stage = "ap_start" /\ Fault
  /\ \E r \in EarlyReasons \ ManifestReasons : Return(Refused(r))
  /\ UNCHANGED <<disk, line, outfile, call, told, exit>>

Prepare ==
  /\ To("ap_start", "ap_prepared") /\ ~trigger
  /\ Seal("prepared") /\ held' = <<sealed', sealed'>>
  /\ UNCHANGED <<trigger, record, line, outfile, mutated, lib, told, exit, faults>>

PrepareRaises ==
  /\ stage = "ap_start" /\ ~trigger
  /\ SealRaises("prepared")
  /\ Return(Error(EXIT_ARTIFACT))
  /\ UNCHANGED <<trigger, record, line, outfile, call, told, exit>>

ApplyLockRefused ==
  /\ stage = "ap_prepared" /\ Fault
  /\ Return(Refused("refused_lock"))
  /\ UNCHANGED <<disk, line, outfile, call, told, exit>>

ApplyCommits ==
  /\ To("ap_prepared", "ap_committed")
  /\ trigger' = TRUE /\ mutated' = TRUE
  /\ UNCHANGED <<manifest, record, sealed, line, outfile, held, lib, told, exit, faults>>

\* COMMIT raises: what is then seen of the database decides, and if nothing
\* can be seen the outcome is ambiguous.
CommitRaises(from, effect) ==
  /\ stage = from /\ Fault
  /\ UNCHANGED <<manifest, record, sealed, line, outfile, held, told, exit>>
  /\ \/ trigger' = effect /\ mutated' = TRUE
     \/ UNCHANGED <<trigger, mutated>>
  /\ \/ ~mutated' /\ Return(Refused("refused_lock"))
     \/ mutated' /\ EndInRecovery(FALSE, held)
     \/ EndInRecovery(TRUE, held)

ApplyCommitRaises == CommitRaises("ap_prepared", TRUE)

\* Verification, the close at the end, or anything else after COMMIT raises.
ApplyLateFailure ==
  /\ stage \in {"ap_committed", "ap_sealed"} /\ Fault
  /\ UNCHANGED <<disk, line, outfile, call, told, exit>>
  /\ EndInRecovery(FALSE, held)

SealApplied ==
  /\ To("ap_committed", "ap_sealed")
  /\ Seal("applied") /\ held' = <<held[1], sealed'>>
  /\ UNCHANGED <<trigger, record, line, outfile, mutated, lib, told, exit, faults>>

SealAppliedRaises ==
  /\ stage = "ap_committed"
  /\ SealRaises("applied") /\ held' = <<held[1], sealed'>>
  /\ EndInRecovery(FALSE, held')
  /\ UNCHANGED <<trigger, record, line, outfile, mutated, told, exit>>

Applied ==
  /\ stage = "ap_sealed"
  /\ Return(Result(TRUE, {held[2]}))
  /\ UNCHANGED <<disk, line, outfile, call, told, exit, faults>>

-----------------------------------------------------------------------------
(* rollback *)

\* The operator rolls back, and repeats the command until it ends with 0.
StartRollback ==
  /\ stage = "ended" /\ manifest.status # "none"
  /\ cmd = "apply" \/ (cmd = "rollback" /\ exit # EXIT_OK)
  /\ cmd' = "rollback" /\ stage' = "rb_start" /\ exit' = Running
  /\ confirm' = IF cmd = "apply" \/ repeats = "durable" THEN manifest.token ELSE confirm
  /\ output' = (output /\ (cmd = "apply" \/ repeats = "same"))
  /\ outfile' = IF cmd = "apply" THEN FALSE ELSE outfile
  /\ lib' = NoResult /\ told' = {} /\ mutated' = FALSE
  /\ held' = <<manifest.token, manifest.token>>
  /\ UNCHANGED <<disk, repeats, faults>>

TokenMatches == confirm = held[1]

TokenMismatch ==
  /\ stage = "rb_start" /\ ~TokenMatches
  /\ Return(Refused("token_mismatch"))
  /\ UNCHANGED <<disk, line, outfile, call, told, exit, faults>>

\* A manifest of another version of the doctor, or a damaged one, is refused
\* for its own content.
RollbackRefused ==
  /\ stage = "rb_start" /\ Fault
  /\ \E r \in EarlyReasons : Return(Refused(r))
  /\ UNCHANGED <<disk, line, outfile, call, told, exit>>

RollbackGoesOn ==
  /\ stage = "rb_start" /\ TokenMatches
  /\ stage' = IF trigger THEN "rb_present" ELSE "rb_absent"
  /\ UNCHANGED <<disk, line, outfile, call, lib, told, exit, faults>>

\* The trigger is gone already: the manifest is sealed, and the result counts
\* as no change.
SealAbsent ==
  /\ stage = "rb_absent"
  /\ Seal("rolled_back")
  /\ Return(Result(FALSE, {}))
  /\ UNCHANGED <<trigger, record, line, outfile, call, told, exit, faults>>

SealAbsentRaises ==
  /\ stage = "rb_absent"
  /\ SealRaises("rolled_back")
  /\ Return(Error(EXIT_ARTIFACT))
  /\ UNCHANGED <<trigger, record, line, outfile, call, told, exit>>

RollbackLockRefused ==
  /\ stage = "rb_present" /\ Fault
  /\ Return(Refused("refused_lock"))
  /\ UNCHANGED <<disk, line, outfile, call, told, exit>>

RollbackCommits ==
  /\ To("rb_present", "rb_committed")
  /\ trigger' = FALSE /\ mutated' = TRUE
  /\ UNCHANGED <<manifest, record, sealed, line, outfile, held, lib, told, exit, faults>>

RollbackCommitRaises == CommitRaises("rb_present", FALSE)

RollbackLateFailure ==
  /\ stage = "rb_committed" /\ Fault
  /\ UNCHANGED <<disk, line, outfile, call, told, exit>>
  /\ EndInRecovery(FALSE, held)

SealRolledBack ==
  /\ To("rb_committed", "rb_sealed")
  /\ Seal("rolled_back") /\ held' = <<held[1], sealed'>>
  /\ UNCHANGED <<trigger, record, line, outfile, mutated, lib, told, exit, faults>>

SealRolledBackRaises ==
  /\ stage = "rb_committed"
  /\ SealRaises("rolled_back") /\ held' = <<held[1], sealed'>>
  /\ EndInRecovery(FALSE, held')
  /\ UNCHANGED <<trigger, record, line, outfile, mutated, told, exit>>

WriteRecord ==
  /\ stage = "rb_sealed" /\ ~record
  /\ record' = TRUE
  /\ Return(Result(TRUE, {held[2]}))
  /\ UNCHANGED <<trigger, manifest, sealed, line, outfile, call, told, exit, faults>>

WriteRecordRaises ==
  /\ stage = "rb_sealed" /\ Fault
  /\ record' \in {record, TRUE}
  /\ UNCHANGED <<trigger, manifest, sealed, line, outfile, call, told, exit>>
  /\ EndInRecovery(FALSE, held)

-----------------------------------------------------------------------------
(* The handlers _run_apply and _run_rollback, and main *)

\* write_private_json of the result at the --output path is create-only.  The
\* text of a finished rollback shows no token.
CanEmit == ~output \/ ~outfile

EmitsResult ==
  /\ stage = "handler" /\ lib.kind = "result" /\ CanEmit
  /\ outfile' = (outfile \/ output)
  /\ told' = IF cmd = "apply" THEN lib.tokens ELSE {}
  /\ Ends(EXIT_OK)
  /\ UNCHANGED <<disk, line, call, lib, faults>>

\* An error of _emit: of a changed database it must not look like a failure.
\* printed: did the message reach standard error?  If not, main prints there
\* again, and that exception ends the process.
AfterOutputFailure(printed) ==
  IF ~lib.changed THEN Ends(EXIT_ARTIFACT) /\ told' = told
  ELSE IF printed THEN Ends(EXIT_RECOVERY_REQUIRED) /\ told' = lib.tokens
  ELSE Ends(Uncaught) /\ told' = told

OutputFails ==
  /\ stage = "handler" /\ lib.kind = "result"
  /\ IF CanEmit THEN Fault /\ outfile' \in {outfile, outfile \/ output}
                ELSE UNCHANGED <<faults, outfile>>
  /\ \E printed \in BOOLEAN : AfterOutputFailure(printed)
  /\ UNCHANGED <<disk, line, call, lib>>

\* Ctrl-C during _emit: a changed database is still told before it goes on.
OutputInterrupted ==
  /\ stage = "handler" /\ lib.kind = "result" /\ Fault
  /\ told' = IF lib.changed THEN lib.tokens ELSE told
  /\ Ends(Interrupted)
  /\ UNCHANGED <<disk, line, outfile, call, lib>>

\* Recovery coordinates go to standard error first; a failure of the optional
\* output after that is swallowed.
EmitsRecovery ==
  /\ stage = "handler" /\ lib.kind = "recovery"
  /\ \E printed \in BOOLEAN :
       \/ /\ printed
          /\ told' = lib.tokens /\ Ends(EXIT_RECOVERY_REQUIRED)
          /\ outfile' \in {outfile, outfile \/ output}
       \/ ~printed /\ Ends(Uncaught) /\ UNCHANGED <<told, outfile>>
  /\ UNCHANGED <<disk, line, call, lib, faults>>

RecoveryInterrupted ==
  /\ stage = "handler" /\ lib.kind = "recovery" /\ output /\ Fault
  /\ told' = lib.tokens /\ Ends(Interrupted)
  /\ UNCHANGED <<disk, line, outfile, call, lib>>

Fails ==
  /\ stage = "handler" /\ lib.kind = "error"
  /\ Ends(lib.error)
  /\ UNCHANGED <<disk, line, outfile, call, lib, told, faults>>

Kill ==
  /\ stage # "ended" /\ Fault
  /\ Ends(Killed)
  /\ UNCHANGED <<disk, line, outfile, call, lib, told>>

-----------------------------------------------------------------------------
\* What the doctor and the operator do when nothing goes wrong.
Progress ==
  \/ StartApply \/ AlreadyApplied \/ Prepare \/ ApplyCommits \/ SealApplied \/ Applied
  \/ StartRollback \/ TokenMismatch \/ RollbackGoesOn \/ SealAbsent
  \/ RollbackCommits \/ SealRolledBack \/ WriteRecord
  \/ EmitsResult \/ EmitsRecovery \/ Fails
  \/ OutputFails

Failures ==
  \/ ApplyRefused \/ PrepareRaises \/ ApplyLockRefused \/ ApplyCommitRaises
  \/ ApplyLateFailure \/ SealAppliedRaises
  \/ RollbackRefused \/ SealAbsentRaises \/ RollbackLockRefused
  \/ RollbackCommitRaises \/ RollbackLateFailure \/ SealRolledBackRaises
  \/ WriteRecordRaises \/ OutputInterrupted \/ RecoveryInterrupted \/ Kill

Next == Progress \/ Failures

\* The process that runs goes on, and the operator repeats the command.
Fairness == WF_vars(Progress)

Spec == Init /\ [][Next]_vars /\ Fairness

-----------------------------------------------------------------------------
(* Properties *)

Codes == {EXIT_OK, EXIT_NOT_FOUND, EXIT_SAFETY_REFUSED, EXIT_STALE_OR_SCHEMA,
          EXIT_ARTIFACT, EXIT_SQLITE, EXIT_RECOVERY_REQUIRED,
          Uncaught, Interrupted, Killed, Running}

TypeOK ==
  /\ trigger \in BOOLEAN
  /\ manifest.status \in {"none", "prepared", "applied", "rolled_back"}
  /\ manifest.token \in 0..sealed
  /\ (manifest.token = 0) <=> (manifest.status = "none")
  /\ record \in BOOLEAN /\ repeats \in {"same", "durable"}
  /\ confirm \in 0..sealed /\ held[1] \in 0..sealed /\ held[2] \in 0..sealed
  /\ told \subseteq 1..sealed
  /\ exit \in Codes

\* A command whose COMMIT became durable says so: it ends with 0 after its
\* result was emitted, with 9, or by the interrupt, and unless it is a finished
\* rollback it has shown the token that the manifest now has.  Only a kill, or a
\* standard error that takes nothing, ends it silently.
MutationIsTold ==
  (stage = "ended" /\ mutated /\ exit \notin {Killed, Uncaught}) =>
    /\ exit \in {EXIT_OK, EXIT_RECOVERY_REQUIRED, Interrupted}
    /\ manifest.token \in told \/ (cmd = "rollback" /\ exit = EXIT_OK)

\* Exit code 9 is kept for what it means: the command committed, or it could
\* not be seen whether it did.
NineMeansCommitted ==
  exit = EXIT_RECOVERY_REQUIRED => mutated \/ lib.ambiguous

\* The operator who repeats rollback ends with a manifest that agrees with the
\* database, wherever a command failed or was killed.
Reconciled ==
  (cmd = "rollback") ~> [](~trigger /\ manifest.status = "rolled_back")

\* A rollback that is repeated with the token of the manifest on disk ends with
\* exit code 0.
RepeatSucceeds == (cmd = "rollback" /\ repeats = "durable") ~> (exit = EXIT_OK)

\* So does the same command line, repeated as it was.
SameCommandSucceeds == (cmd = "rollback" /\ repeats = "same") ~> (exit = EXIT_OK)

\* A manifest that is refused for its own content ends with the exit code for
\* manifest failures.
ManifestRefusalCode ==
  (stage = "ended" /\ lib.reason \in ManifestReasons) => exit = EXIT_ARTIFACT

=============================================================================
