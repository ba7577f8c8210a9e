--------------------------- MODULE WalSidecar_proofs ---------------------------
(***************************************************************************)
(* Proof that the backup is complete at COMMIT, for any number of commits,   *)
(* checkpoints, closes, kills and commands.  The doctor compares two stamps,  *)
(* and a stamp can come back: a -wal file that was absent when it measured   *)
(* may have been created, written, checkpointed and deleted since.  But then  *)
(* the commits in it have reached the main file and moved its stamp.        *)
(* And proof that a refusal for changed stamps always has a cause: the        *)
(* doctor's own reads never change what it measures.                        *)
(***************************************************************************)
EXTENDS WalSidecar, TLAPS

CopiedPcs == {"steady", "gate2", "connect", "begin", "gate3", "recheck"}

\* The ranges, with those of the doctor's own notes.
Typed ==
  /\ TypeOK
  /\ commits \in Nat /\ main \in Nat /\ mainTime \in Nat /\ walTime \in Nat
  /\ clock \in Nat /\ backup \in Nat
  /\ cmd \in {"plan", "apply", "rollback"}
  /\ seen \in Nat \X Nat /\ seen[1] <= clock /\ seen[2] <= clock
  /\ pc = "verify" /\ rw # "none" => cmd = "apply"

\* A commit that the backup lacks shows: the main file has moved, or the commit
\* is still in a -wal file that is not the one that was measured.
LaterShows ==
  pc \in CopiedPcs =>
    /\ backup <= commits
    /\ backup < commits =>
         \/ mainTime # seen[1]
         \/ main < commits /\ walTime # 0 /\ walTime # seen[2]

\* From BEGIN EXCLUSIVE to COMMIT the doctor has the write lock.
HasLock == pc \in {"gate3", "recheck", "commit"} => rw = "live"

\* Once the stamps are found unchanged under the lock, nothing is missing.
Complete == pc = "commit" => backup = commits

WalInv == Typed /\ LaterShows /\ HasLock /\ Complete

-----------------------------------------------------------------------------
\* The two files after any of the things that SQLite does to them.
LEMMA FilesStep ==
  ASSUME Typed,
         \/ UNCHANGED files \/ Attach \/ Append
         \/ \E n \in main..commits : MoveTo(n) /\ walTime' = walTime
         \/ MoveTo(commits) /\ walTime' = 0
  PROVE  /\ commits' \in Nat /\ main' \in Nat /\ mainTime' \in Nat
         /\ walTime' \in Nat /\ clock' \in Nat /\ clock <= clock'
         /\ main' \in 0..commits' /\ (main' < commits' => walTime' # 0)
         /\ mainTime' \in 1..clock' /\ walTime' \in 0..clock'
         /\ commits <= commits'
<1> USE DEF Typed, TypeOK
<1>1. CASE UNCHANGED files
  BY <1>1 DEF files
<1>2. CASE Attach
  BY <1>2 DEF Attach
<1>3. CASE Append
  BY <1>3 DEF Append
<1>4. ASSUME NEW n \in main..commits, MoveTo(n), walTime' \in {0, walTime},
             walTime' = 0 => n = commits \/ walTime = 0
      PROVE  /\ commits' \in Nat /\ main' \in Nat /\ mainTime' \in Nat
             /\ walTime' \in Nat /\ clock' \in Nat /\ clock <= clock'
             /\ main' \in 0..commits' /\ (main' < commits' => walTime' # 0)
             /\ mainTime' \in 1..clock' /\ walTime' \in 0..clock'
             /\ commits <= commits'
  BY <1>4 DEF MoveTo
<1>5. commits \in main..commits
  OBVIOUS
<1> QED
  BY <1>1, <1>2, <1>3, <1>4, <1>5

\* What shows keeps showing: no stamp comes back alone.
LEMMA ShowsStep ==
  ASSUME Typed, LaterShows, pc \in CopiedPcs, UNCHANGED <<seen, backup>>,
         \/ UNCHANGED files \/ Attach \/ Append
         \/ \E n \in main..commits : MoveTo(n) /\ walTime' = walTime
         \/ MoveTo(commits) /\ walTime' = 0
  PROVE  /\ backup' <= commits'
         /\ backup' < commits' =>
              \/ mainTime' # seen'[1]
              \/ main' < commits' /\ walTime' # 0 /\ walTime' # seen'[2]
<1>0. /\ backup <= commits /\ seen[1] <= clock /\ seen[2] <= clock
      /\ seen[1] \in Nat /\ seen[2] \in Nat /\ clock \in Nat /\ backup \in Nat
      /\ main \in 0..commits /\ commits \in Nat /\ main \in Nat /\ walTime \in Nat
      /\ backup < commits =>
              \/ mainTime # seen[1]
              \/ main < commits /\ walTime # 0 /\ walTime # seen[2]
  BY DEF Typed, TypeOK, LaterShows
<1>1. CASE UNCHANGED files
  BY <1>0, <1>1 DEF files
<1>2. CASE Attach
  BY <1>0, <1>2 DEF Attach
<1>3. CASE Append
  BY <1>0, <1>3 DEF Append
<1>4. ASSUME NEW n \in main..commits, MoveTo(n), walTime' = walTime \/ n = commits
      PROVE  /\ backup' <= commits'
             /\ backup' < commits' =>
                  \/ mainTime' # seen'[1]
                  \/ main' < commits' /\ walTime' # 0 /\ walTime' # seen'[2]
  BY <1>0, <1>4 DEF MoveTo
<1>5. commits \in main..commits
  BY <1>0
<1> QED
  BY <1>1, <1>2, <1>3, <1>4, <1>5

-----------------------------------------------------------------------------
\* Codex never writes under the doctor's lock.
LEMMA CodexStep ==
  ASSUME WalInv, ClientNext
  PROVE  WalInv'
<1>0. Typed /\ LaterShows /\ HasLock /\ Complete
  BY DEF WalInv
<1>1. /\ UNCHANGED doctor /\ touched' = TRUE /\ client' \in BOOLEAN
      /\ \/ UNCHANGED files \/ Attach \/ Append
         \/ \E n \in main..commits : MoveTo(n) /\ walTime' = walTime
         \/ MoveTo(commits) /\ walTime' = 0
      /\ commits' = commits \/ ~Writing
  <2>1. CASE ClientOpen
    BY <2>1 DEF ClientOpen, Touch, Attach
  <2>2. CASE ClientCommit
    BY <1>0, <2>2 DEF ClientCommit, Touch, Typed, TypeOK
  <2>3. CASE ClientCheckpoint
    <3>1. PICK n \in (main + 1)..commits : MoveTo(n)
      BY <2>3 DEF ClientCheckpoint
    <3>2. n \in main..commits
      BY <1>0, <3>1 DEF Typed
    <3> QED
      BY <1>0, <2>3, <3>1, <3>2 DEF ClientCheckpoint, Touch, MoveTo, Typed, TypeOK
  <2>4. CASE ClientClose
    BY <2>4 DEF ClientClose, Detach, Touch, MoveTo, files
  <2>5. CASE ClientKilled
    BY <2>5 DEF ClientKilled, Touch, files
  <2> QED
    BY <2>1, <2>2, <2>3, <2>4, <2>5 DEF ClientNext
<1>2. UNCHANGED <<cmd, pc, ro, rw, seen, backup, outcome>>
  BY <1>1 DEF doctor
<1>3. Typed'
  BY <1>0, <1>1, <1>2, FilesStep DEF Typed, TypeOK
<1>4. LaterShows'
  BY <1>0, <1>1, <1>2, ShowsStep DEF LaterShows
<1>5. HasLock' /\ Complete'
  BY <1>0, <1>1, <1>2 DEF HasLock, Complete, Writing
<1> QED
  BY <1>3, <1>4, <1>5 DEF WalInv

\* A step of the doctor does to the files what SQLite does to them, and keeps its
\* notes or takes them from what it sees.
LEMMA DoctorFiles ==
  ASSUME Typed, DoctorNext
  PROVE  \/ UNCHANGED files \/ Attach \/ Append
         \/ \E n \in main..commits : MoveTo(n) /\ walTime' = walTime
         \/ MoveTo(commits) /\ walTime' = 0
<1>1. CASE \E c \in {"plan", "apply", "rollback"} : Start(c)
  BY <1>1 DEF Start
<1>2. CASE ReadStep
  BY <1>2
  DEF ReadStep, PreflightOpens, PreflightCloses, CopyOpens, CopyCloses, VerifyOpens,
      VerifyCloses, ReadOpens, ReadCloses
<1>3. CASE CheckStep
  BY <1>3
  DEF CheckStep, Gate, Measure, Steady, Unsteady, Recheck, Changed, Abandon, Detach,
      Quiet
<1>4. CASE WriteStep
  BY <1>4 DEF WriteStep, Connect, Begin, Commit, Close, Refuse, Killed, Abandon, Detach
<1> QED
  BY <1>1, <1>2, <1>3, <1>4 DEF DoctorNext

\* The doctor's own variables stay in their ranges.
LEMMA DoctorTyped ==
  ASSUME Typed, HasLock, DoctorNext
  PROVE  Typed' /\ HasLock'
<1>1. /\ commits' \in Nat /\ main' \in Nat /\ mainTime' \in Nat
      /\ walTime' \in Nat /\ clock' \in Nat /\ clock <= clock'
      /\ main' \in 0..commits' /\ (main' < commits' => walTime' # 0)
      /\ mainTime' \in 1..clock' /\ walTime' \in 0..clock'
  BY DoctorFiles, FilesStep
<1>2. /\ seen' = seen \/ seen' = Storage
      /\ backup' \in {backup, commits}
  <2>1. CASE \E c \in {"plan", "apply", "rollback"} : Start(c)
    BY <2>1 DEF Start
  <2>2. CASE ReadStep
    BY <2>2
    DEF ReadStep, PreflightOpens, PreflightCloses, CopyOpens, CopyCloses, VerifyOpens,
        VerifyCloses, ReadOpens, ReadCloses
  <2>3. CASE CheckStep
    BY <2>3
    DEF CheckStep, Gate, Measure, Steady, Unsteady, Recheck, Changed, Abandon, Quiet
  <2>4. CASE WriteStep
    BY <2>4 DEF WriteStep, Connect, Begin, Commit, Close, Refuse, Killed, Abandon
  <2> QED
    BY <2>1, <2>2, <2>3, <2>4 DEF DoctorNext
<1>3. seen' \in Nat \X Nat /\ seen'[1] <= clock' /\ seen'[2] <= clock' /\ backup' \in Nat
  BY <1>1, <1>2 DEF Typed, TypeOK, Storage
<1>4. /\ client' \in BOOLEAN /\ ro' \in BOOLEAN /\ touched' \in BOOLEAN
      /\ pc' \in Pcs /\ rw' \in {"none", "opened", "live"}
      /\ rw' # "none" => pc' \in {"begin", "gate3", "recheck", "commit", "verify", "close"}
      /\ outcome' \in {"none", "changed", "refused", "killed"}
      /\ cmd' \in {"plan", "apply", "rollback"}
      /\ pc' = "verify" /\ rw' # "none" => cmd' = "apply"
      /\ HasLock'
  <2> USE DEF Typed, TypeOK, HasLock, Pcs, Goto, End
  <2>1. CASE \E c \in {"plan", "apply", "rollback"} : Start(c)
    BY <2>1 DEF Start
  <2>2. CASE ReadStep
    BY <2>2
    DEF ReadStep, PreflightOpens, PreflightCloses, CopyOpens, CopyCloses, VerifyOpens,
        VerifyCloses, ReadOpens, ReadCloses
  <2>3. CASE CheckStep
    BY <2>3
    DEF CheckStep, Gate, Measure, Steady, Unsteady, Recheck, Changed, Abandon, Quiet
  <2>4. CASE WriteStep
    BY <2>4 DEF WriteStep, Connect, Begin, Commit, Close, Refuse, Killed, Abandon
  <2> QED
    BY <2>1, <2>2, <2>3, <2>4 DEF DoctorNext
<1> QED
  BY <1>1, <1>3, <1>4 DEF Typed, TypeOK

\* Copy, comparison and COMMIT fit together.
LEMMA DoctorComplete ==
  ASSUME WalInv, DoctorNext
  PROVE  LaterShows' /\ Complete'
<1>0. Typed /\ LaterShows /\ HasLock /\ Complete
  BY DEF WalInv
<1>1. pc' \in CopiedPcs =>
        \/ pc \in CopiedPcs /\ UNCHANGED <<seen, backup>>
        \/ backup' = commits' /\ commits' = commits
  <2> USE DEF CopiedPcs, Goto, End
  <2>1. CASE \E c \in {"plan", "apply", "rollback"} : Start(c)
    BY <2>1 DEF Start
  <2>2. CASE ReadStep
    BY <2>2
    DEF ReadStep, PreflightOpens, PreflightCloses, CopyOpens, CopyCloses, VerifyOpens,
        VerifyCloses, ReadOpens, ReadCloses, files
  <2>3. CASE CheckStep
    BY <2>3
    DEF CheckStep, Gate, Measure, Steady, Unsteady, Recheck, Changed, Abandon, Quiet
  <2>4. CASE WriteStep
    BY <2>4 DEF WriteStep, Connect, Begin, Commit, Close, Refuse, Killed, Abandon
  <2> QED
    BY <2>1, <2>2, <2>3, <2>4 DEF DoctorNext
<1>2. LaterShows'
  <2>1. commits \in Nat
    BY <1>0 DEF Typed
  <2>2. CASE pc \in CopiedPcs /\ UNCHANGED <<seen, backup>>
    BY <1>0, <2>2, DoctorFiles, ShowsStep DEF LaterShows
  <2>3. CASE backup' = commits' /\ commits' = commits
    BY <2>1, <2>3 DEF LaterShows
  <2> QED
    BY <1>1, <2>2, <2>3 DEF LaterShows
<1>3. pc' = "commit" => Recheck
  <2> USE DEF Goto, End
  <2>1. CASE \E c \in {"plan", "apply", "rollback"} : Start(c)
    BY <2>1 DEF Start
  <2>2. CASE ReadStep
    BY <2>2
    DEF ReadStep, PreflightOpens, PreflightCloses, CopyOpens, CopyCloses, VerifyOpens,
        VerifyCloses, ReadOpens, ReadCloses
  <2>3. CASE CheckStep
    BY <2>3 DEF CheckStep, Gate, Measure, Steady, Unsteady, Changed, Abandon
  <2>4. CASE WriteStep
    BY <2>4 DEF WriteStep, Connect, Begin, Commit, Close, Refuse, Killed, Abandon
  <2> QED
    BY <2>1, <2>2, <2>3, <2>4 DEF DoctorNext
<1>4. Complete'
  <2> SUFFICES ASSUME pc' = "commit" PROVE backup' = commits'
    BY DEF Complete
  <2>1. /\ pc = "recheck" /\ mainTime = seen[1] /\ walTime = seen[2]
        /\ backup' = backup /\ commits' = commits
    BY <1>0, <1>3 DEF Recheck, Storage, Quiet, files, Typed
  <2>2. backup <= commits /\ ~(backup < commits)
    BY <1>0, <2>1 DEF LaterShows, CopiedPcs
  <2>3. backup \in Nat /\ commits \in Nat
    BY <1>0 DEF Typed
  <2> QED
    BY <2>1, <2>2, <2>3
<1> QED
  BY <1>2, <1>4

\* The invariant holds in every reachable state.
THEOREM WalInvariance == Spec => []WalInv
<1>1. Init => WalInv
  <2> SUFFICES ASSUME Init PROVE WalInv
    OBVIOUS
  <2>1. commits \in Nat /\ main \in Nat /\ main <= commits
    BY BoundsOK DEF Init
  <2>2. walTime \in 0..clock /\ mainTime = 1 /\ clock = 1
    BY DEF Init
  <2>3. TypeOK
    <3>1. main \in 0..commits /\ (main < commits => walTime # 0) /\ mainTime \in 1..clock
      BY <2>1, <2>2 DEF Init
    <3>2. client \in BOOLEAN /\ ro \in BOOLEAN /\ touched \in BOOLEAN
      BY DEF Init
    <3>3. pc = "idle" /\ rw = "none" /\ outcome = "none"
      BY DEF Init
    <3> QED
      BY <2>2, <3>1, <3>2, <3>3 DEF TypeOK, Pcs
  <2>4. seen \in Nat \X Nat /\ seen[1] = 0 /\ seen[2] = 0
    BY DEF Init
  <2>5. backup = 0 /\ cmd = "plan" /\ rw = "none"
    BY DEF Init
  <2>6. Typed
    BY <2>1, <2>2, <2>3, <2>4, <2>5 DEF Typed
  <2>7. LaterShows /\ HasLock /\ Complete
    BY DEF Init, LaterShows, CopiedPcs, HasLock, Complete
  <2> QED
    BY <2>6, <2>7 DEF WalInv
<1>2. WalInv /\ [Next]_vars => WalInv'
  <2>1. ASSUME WalInv, DoctorNext PROVE WalInv'
    BY <2>1, DoctorTyped, DoctorComplete DEF WalInv
  <2>2. ASSUME WalInv, UNCHANGED vars PROVE WalInv'
    BY <2>2
    DEF vars, files, doctor, WalInv, Typed, TypeOK, LaterShows, HasLock, Complete
  <2> QED
    BY <2>1, <2>2, CodexStep DEF Next
<1> QED
  BY <1>1, <1>2, PTL DEF Spec

\* The main file never holds more than was committed, and what it does not hold is
\* in a -wal file that exists, for any number of commits and file changes.
THEOREM TypeCorrect == Spec => []TypeOK
<1>1. WalInv => TypeOK
  BY DEF WalInv, Typed
<1> QED
  BY <1>1, WalInvariance, PTL

\* Whatever Codex commits, checkpoints, opens, closes or loses, and however often
\* commands fail or are killed: when the doctor's COMMIT becomes durable, its
\* backup holds every transaction committed before.
THEOREM BackupCovers == Spec => BackupIsComplete
<1>1. WalInv /\ [Next]_vars => [Commit => backup = commits]_vars
  BY DEF WalInv, Complete, Commit
<1> QED
  BY <1>1, WalInvariance, PTL DEF Spec, BackupIsComplete

-----------------------------------------------------------------------------
(* A refusal for changed stamps has a cause                                  *)

StablePcs == {"copy", "steady", "gate2", "connect", "begin", "gate3", "recheck"}

\* A command that Codex leaves alone finds a -wal file from its first read on, so
\* the stamps that it has measured are those that it meets later.
QuietInv ==
  /\ ro => pc \in {"preflight", "copy", "verify"}
  /\ ~touched =>
       /\ outcome # "changed"
       /\ ro \/ pc \in StablePcs \cup {"measure"} => walTime # 0
       /\ pc \in StablePcs => seen = Storage

\* Steps of Codex are what touched remembers; those of the doctor keep the stamps.
LEMMA QuietStep ==
  ASSUME WalInv, QuietInv, Next PROVE QuietInv'
<1> USE DEF QuietInv, StablePcs
<1>0. walTime \in Nat /\ clock \in Nat
  BY DEF WalInv, Typed
<1>1. CASE ClientNext
  BY <1>1 DEF ClientNext, ClientOpen, ClientCommit, ClientCheckpoint, ClientClose,
     ClientKilled, Touch, doctor
<1>2. CASE \E c \in {"plan", "apply", "rollback"} : Start(c)
  BY <1>2 DEF Start
<1>3. CASE ReadStep
  BY <1>0, <1>3
  DEF ReadStep, PreflightOpens, PreflightCloses, CopyOpens, CopyCloses, VerifyOpens,
      VerifyCloses, ReadOpens, ReadCloses, Attach, Goto, files, Storage
<1>4. CASE CheckStep
  <2>1. CASE Gate("gate1", "preflight") \/ Gate("gate2", "connect") \/ Gate("gate3", "recheck")
    BY <2>1 DEF Gate, Goto, Quiet, files, Storage
  <2>2. CASE Measure \/ Steady \/ Recheck
    BY <2>2 DEF Measure, Steady, Recheck, Goto, Quiet, files, Storage
  <2>3. CASE Unsteady \/ Changed
    BY <2>3 DEF Unsteady, Changed, Abandon, End
  <2> QED
    BY <1>4, <2>1, <2>2, <2>3 DEF CheckStep
<1>5. CASE WriteStep
  BY <1>0, <1>5
  DEF WriteStep, Connect, Begin, Commit, Close, Refuse, Killed, Abandon, Detach, Attach,
      Goto, End, files, Storage
<1> QED
  BY <1>1, <1>2, <1>3, <1>4, <1>5 DEF Next, DoctorNext

\* A command ends with "database or WAL changed" only if Codex has acted since it
\* started: the doctor's own reads and closes never refuse it.
THEOREM NoSelfRefusal == Spec => []RefusalHasCause
<1>1. Init => QuietInv
  BY DEF Init, QuietInv, StablePcs
<1>2. ASSUME WalInv, QuietInv, [Next]_vars PROVE QuietInv'
  <2>1. CASE Next
    BY <1>2, <2>1, QuietStep
  <2>2. CASE UNCHANGED vars
    BY <1>2, <2>2 DEF vars, files, doctor, QuietInv, Storage
  <2> QED
    BY <1>2, <2>1, <2>2
<1>3. QuietInv => RefusalHasCause
  BY DEF QuietInv, RefusalHasCause
<1> QED
  BY <1>1, <1>2, <1>3, WalInvariance, PTL DEF Spec
=============================================================================
