----------------------------- MODULE WalSidecar -----------------------------
(***************************************************************************)
(* One database in WAL mode, its -wal sidecar, one Codex process that      *)
(* writes to it, and one doctor that runs plan, apply and rollback on it.  *)
(*                                                                         *)
(* Mitigation.tla knows the database by its contents; this module knows    *)
(* where those contents lie.  A commit lands in the -wal file; a           *)
(* checkpoint moves commits from there to the main file; the last          *)
(* writable connection to close checkpoints everything and deletes the     *)
(* -wal file; the first connection to read creates it, even one that is    *)
(* opened mode=ro; a process that is killed does neither.  The doctor sees *)
(* the two files only through their sizes and modification times           *)
(* (_storage_state), and takes its backup through a connection.            *)
(***************************************************************************)
EXTENDS Naturals

CONSTANTS MaxCommits,   \* bound: transactions ever committed by Codex
          MaxClock      \* bound: file changes after which only the doctor's
                        \* current command still runs

ASSUME BoundsOK == MaxCommits \in Nat /\ MaxClock \in Nat

VARIABLES
  commits,    \* transactions committed so far; the logical content
  main,       \* those that the main file holds: 1 .. main
  mainTime,   \* modification time of the main file
  walTime,    \* modification time of the -wal file, 0 when there is none
  clock,      \* time of the latest change of a file
  client,     \* Codex holds a connection
  cmd,        \* the doctor's command: "plan", "apply" or "rollback"
  pc,         \* where that command is
  ro,         \* its mode=ro connection is reading
  rw,         \* its mode=rw connection: "none", "opened" or, from the
              \* first statement that touches the file, "live"
  seen,       \* storage_before_backup
  backup,     \* transactions that the verified backup holds
  touched,    \* ghost: Codex has acted since the command started
  outcome     \* how the latest command ended

files  == <<commits, main, mainTime, walTime, clock>>
doctor == <<cmd, pc, ro, rw, seen, backup, outcome>>
vars   == <<files, client, doctor, touched>>

Pcs == {"idle", "gate1", "preflight", "measure", "copy", "steady", "gate2",
        "connect", "begin", "gate3", "recheck", "commit", "verify", "close"}

Init ==
  /\ commits \in 0..MaxCommits
  /\ main \in 0..commits
  /\ mainTime = 1 /\ clock = 1
  /\ walTime \in {0, 1} /\ (main < commits => walTime = 1)
  /\ client = FALSE
  /\ cmd = "plan" /\ pc = "idle"
  /\ ro = FALSE /\ rw = "none"
  /\ seen = <<0, 0>> /\ backup = 0
  /\ touched = FALSE
  /\ outcome = "none"

-----------------------------------------------------------------------------
(* What SQLite does to the two files.                                      *)

\* A connection's first access creates a missing -wal file.
Attach ==
  /\ IF walTime = 0
     THEN walTime' = clock + 1 /\ clock' = clock + 1
     ELSE UNCHANGED <<walTime, clock>>
  /\ UNCHANGED <<commits, main, mainTime>>

\* A commit appends to the -wal file.
Append ==
  /\ commits' = commits + 1
  /\ walTime' = clock + 1 /\ clock' = clock + 1
  /\ UNCHANGED <<main, mainTime>>

\* A checkpoint moves transactions up to n to the main file.
MoveTo(n) ==
  /\ main' = n
  /\ IF n = main
     THEN UNCHANGED <<mainTime, clock>>
     ELSE mainTime' = clock + 1 /\ clock' = clock + 1
  /\ UNCHANGED commits

\* A writable connection closes.  The last one checkpoints and deletes the
\* -wal file; others leave everything.
Detach(last) ==
  IF last THEN MoveTo(commits) /\ walTime' = 0 ELSE UNCHANGED files

\* The doctor's writable connection holds the write lock.
Writing == rw = "live" /\ pc \in {"gate3", "recheck", "commit"}

-----------------------------------------------------------------------------
(* Codex.                                                                  *)

Touch == touched' = TRUE /\ UNCHANGED doctor

ClientOpen ==
  /\ ~client /\ clock < MaxClock
  /\ client' = TRUE
  /\ Attach /\ Touch

ClientCommit ==
  /\ client /\ ~Writing /\ commits < MaxCommits /\ clock < MaxClock
  /\ Append /\ Touch
  /\ UNCHANGED client

\* A checkpoint needs no write lock.
ClientCheckpoint ==
  /\ client /\ clock < MaxClock
  /\ \E n \in (main + 1)..commits : MoveTo(n)
  /\ Touch
  /\ UNCHANGED <<walTime, client>>

ClientClose ==
  /\ client
  /\ client' = FALSE
  /\ Detach(~ro /\ rw # "live")
  /\ Touch

ClientKilled ==
  /\ client
  /\ client' = FALSE
  /\ Touch
  /\ UNCHANGED files

-----------------------------------------------------------------------------
(* The doctor.                                                             *)

\* Mutant: the -wal file is not part of the state.
MainStorage == <<mainTime, 0>>

\* _storage_state: what the doctor can tell two storages apart by.
Storage == <<mainTime, walTime>>

\* The doctor moves on.
Goto(to) == pc' = to /\ UNCHANGED <<client, cmd, touched>>

\* The command ends, its connections closed.
End(how) == pc' = "idle" /\ outcome' = how /\ UNCHANGED <<client, cmd, touched>>

\* read_only_connection around a read that is not atomic.
ReadOpens ==
  /\ ~ro /\ ro' = TRUE
  /\ Attach
  /\ Goto(pc)
  /\ UNCHANGED <<rw, seen, backup, outcome>>

ReadCloses(to) ==
  /\ ro /\ ro' = FALSE
  /\ Goto(to)
  /\ UNCHANGED <<files, rw, seen, outcome>>

Quiet == UNCHANGED <<files, ro, rw, seen, backup, outcome>>

\* A command starts: plan reads at once, the others ask the process gate.
Start(c) ==
  /\ pc = "idle" /\ clock < MaxClock
  /\ cmd' = c
  /\ pc' = IF c = "plan" THEN "preflight" ELSE "gate1"
  /\ outcome' = "none"
  /\ touched' = FALSE
  /\ UNCHANGED <<files, client, ro, rw, seen, backup>>

\* ensure_process_gate: nobody else holds the database.
Gate(from, to) == pc = from /\ ~client /\ Goto(to) /\ Quiet

\* Mutant: apply trusts what plan has read and does not read again.
PreflightSkipped == pc = "preflight" /\ Goto("measure") /\ Quiet

PreflightOpens == pc = "preflight" /\ ReadOpens

\* create_plan ends here; so do apply with its trigger already there and
\* rollback with its trigger already gone.
PreflightCloses ==
  /\ pc = "preflight"
  /\ ReadCloses("measure") \/ ReadCloses("idle")
  /\ cmd = "plan" => pc' = "idle"
  /\ UNCHANGED backup

\* storage_before_backup.
Measure ==
  /\ pc = "measure"
  /\ seen' = Storage
  /\ Goto("copy")
  /\ UNCHANGED <<files, ro, rw, backup, outcome>>

CopyOpens == pc = "copy" /\ ReadOpens

\* Connection.backup reads through the -wal file.  A commit that comes
\* meanwhile makes it start over, so what counts is the content at its end.
CopyCloses ==
  /\ pc = "copy"
  /\ ReadCloses("steady")
  /\ backup' = commits

\* The storage is as measured, or the command is refused.
Steady ==
  /\ pc = "steady" /\ Storage = seen
  /\ Goto("gate2") /\ Quiet

Unsteady ==
  /\ pc = "steady" /\ Storage # seen
  /\ End("changed")
  /\ UNCHANGED <<files, ro, rw, seen, backup>>

\* _connect_writable does not touch the file yet.
Connect ==
  /\ pc = "connect"
  /\ rw' = "opened"
  /\ Goto("begin")
  /\ UNCHANGED <<files, ro, seen, backup, outcome>>

\* BEGIN EXCLUSIVE.
Begin ==
  /\ pc = "begin"
  /\ rw' = "live"
  /\ Attach
  /\ Goto("gate3")
  /\ UNCHANGED <<ro, seen, backup, outcome>>

Recheck ==
  /\ pc = "recheck" /\ Storage = seen
  /\ Goto("commit") /\ Quiet

\* Mutant: a refused command leaves its connection open.
AbandonLeaks(how) == End(how) /\ ro' = FALSE /\ UNCHANGED <<files, rw, seen, backup>>

\* The clauses that close the connections of a refused command.
Abandon(how) ==
  /\ ro' = FALSE /\ rw' = "none"
  /\ Detach(rw = "live" /\ ~client)
  /\ End(how)
  /\ UNCHANGED <<seen, backup>>

Changed == pc = "recheck" /\ Storage # seen /\ Abandon("changed")

\* CREATE TRIGGER or DROP TRIGGER and COMMIT.  Apply verifies before it
\* closes, rollback closes before it verifies.
Commit ==
  /\ pc = "commit"
  /\ Append
  /\ Goto(IF cmd = "apply" THEN "verify" ELSE "close")
  /\ UNCHANGED <<ro, rw, seen, backup, outcome>>

VerifyOpens == pc = "verify" /\ ReadOpens

VerifyCloses ==
  /\ pc = "verify"
  /\ ReadCloses(IF cmd = "apply" THEN "close" ELSE "idle")
  /\ UNCHANGED backup

Close ==
  /\ pc = "close"
  /\ rw' = "none"
  /\ Detach(~client)
  /\ Goto(IF cmd = "apply" THEN "idle" ELSE "verify")
  /\ UNCHANGED <<ro, seen, backup, outcome>>

\* Any other refusal, error or no-op ending before COMMIT.  What follows a
\* COMMIT that raises is in Mitigation.tla.
Refuse ==
  /\ pc \notin {"idle", "verify", "close"}
  /\ Abandon("refused")

\* The doctor is killed: nothing is closed in order, nothing checkpointed.
Killed ==
  /\ pc # "idle"
  /\ ro' = FALSE /\ rw' = "none"
  /\ End("killed")
  /\ UNCHANGED <<files, seen, backup>>

ReadStep  == PreflightOpens \/ PreflightCloses \/ CopyOpens \/ CopyCloses
             \/ VerifyOpens \/ VerifyCloses
CheckStep == Gate("gate1", "preflight") \/ Gate("gate2", "connect")
             \/ Gate("gate3", "recheck") \/ Measure \/ Steady \/ Unsteady
             \/ Recheck \/ Changed
WriteStep == Connect \/ Begin \/ Commit \/ Close \/ Refuse \/ Killed

DoctorNext == (\E c \in {"plan", "apply", "rollback"} : Start(c))
              \/ ReadStep \/ CheckStep \/ WriteStep
ClientNext == ClientOpen \/ ClientCommit \/ ClientCheckpoint \/ ClientClose
              \/ ClientKilled
Next == DoctorNext \/ ClientNext
Spec == Init /\ [][Next]_vars

-----------------------------------------------------------------------------
\* The variables stay in their ranges: the main file never holds more than was
\* committed, and transactions that are not in it are in a -wal file that exists.
TypeOK ==
  /\ main \in 0..commits /\ (main < commits => walTime # 0)
  /\ mainTime \in 1..clock /\ walTime \in 0..clock
  /\ client \in BOOLEAN /\ ro \in BOOLEAN /\ touched \in BOOLEAN
  /\ pc \in Pcs /\ rw \in {"none", "opened", "live"}
  /\ rw # "none" => pc \in {"begin", "gate3", "recheck", "commit", "verify", "close"}
  /\ outcome \in {"none", "changed", "refused", "killed"}

\* When the doctor's COMMIT becomes durable, the backup it has verified holds
\* every transaction committed before, those that only the -wal file holds
\* included: the copy is read through SQLite, and a commit or checkpoint of
\* Codex after the copy shows in the stamps of one of the two files.
BackupIsComplete == [][Commit => backup = commits]_vars

\* The doctor never trips over its own side effects: its reads create -wal files
\* and its closes delete them, but a command refused because "database or WAL
\* changed" is refused only when Codex did something since it started.  (Since
\* the measurement would be too much: a Codex that opens and closes the file
\* between preflight and measurement deletes the -wal that the copy recreates.)
RefusalHasCause == outcome = "changed" => touched

\* docs/SAFETY.md: "No command deletes rows, removes sidecars, checkpoints":
\* no step of the doctor moves transactions to the main file or deletes a -wal.
SidecarsKept == [][DoctorNext => main' = main /\ (walTime # 0 => walTime' # 0)]_vars
=============================================================================
