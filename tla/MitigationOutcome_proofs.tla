----------------------- MODULE MitigationOutcome_proofs -----------------------
(***************************************************************************)
(* Proofs about what several doctors on one file do to each other, and what  *)
(* a command leaves and reports, when no file returns to the path: two       *)
(* doctors never mutate one file at once, a rollback record never            *)
(* contradicts its manifest, and a command that made the present state of    *)
(* the database never ends as a refusal.                                    *)
(*                                                                          *)
(* No single check gives the first: the lock separates two transactions, the *)
(* third gate a transaction from a command that has committed and still has  *)
(* its connection open, and the gate looks at the path, which is the locked  *)
(* file only if the identity check that follows passes.                      *)
(***************************************************************************)
EXTENDS Mitigation_proofs

USE DEF Step, Finish

-----------------------------------------------------------------------------
(* The invariant behind OneMutator *)

Gated(d) == pc[d] \in {"gated3", "rbGated3"}

\* The gate is passed, and if the identity check is going to pass as well,
\* nobody who mutates is connected to the same file.
GateHolds ==
  \A d, e \in Doctors :
    (d # e /\ Gated(d) /\ path = ident[d] /\ Mutating(e)) => conn[e] # conn[d]

\* Who mutates is connected to the planned file.
ConnectionKept == \A d \in Doctors : Mutating(d) => conn[d] = ident[d]

\* The strengthening of OneMutator that every step keeps.
MutatorInv == IInv /\ GateHolds /\ ConnectionKept /\ OneMutator

-----------------------------------------------------------------------------
(* What a doctor's own step establishes *)

\* How d comes to mutate, and what it keeps meanwhile.
MutateFacts(d) ==
  Mutating(d)' =>
    /\ conn'[d] = conn[d] /\ ident'[d] = ident[d]
    /\ Mutating(d) \/ (Gated(d) /\ path = ident[d])

\* How d passes the third gate.
GateFacts(d) ==
  Gated(d)' =>
    /\ conn'[d] = conn[d] /\ ident'[d] = ident[d]
    /\ pc[d] \in {"exclusive", "rbExclusive"} /\ GateClear(d)

\* The two facts, for each command of the program.
LEMMA MutatorOwnStep ==
  ASSUME TypeOK, NEW d \in Doctors, DoctorNext(d)
  PROVE  MutateFacts(d) /\ GateFacts(d)
<1> USE DEF TypeOK, world, input, artifacts, MutateFacts, GateFacts, Mutating, Gated
<1>1. CASE PlanNext(d)
  BY <1>1 DEF PlanNext, PlanRead, PlanIdentity
<1>2. CASE ApplyNext(d)
  BY <1>2
  DEF ApplyNext, ApplyTarget, ApplyGate1, ApplyPreflight, ApplySteady,
      ApplyGate2, ApplyBegin, ApplyGate3, ApplyRecheck, ApplyCreate,
      ApplyVerify, ApplyAlreadyThere, ApplyAlreadyThereLocked,
      ApplyOutcomeNotCommitted, ApplyOutcomeRecovery, ApplyClose,
      ApplyMeasure, ApplyBackup, ApplyPrepareManifest, ApplyConnect,
      ApplySealManifest, ApplyCommit, ApplyCommitRaises
<1>3. CASE RbNext(d)
  BY <1>3
  DEF RbNext, RbGate1, RbTarget, RbPreflight, RbSteady, RbGate2, RbBegin,
      RbGate3, RbRecheck, RbDrop, RbAbsentLocked, RbVerify,
      RbOutcomeNotCommitted, RbOutcomeReconcile, RbLoad, RbMeasure, RbBackup,
      RbPreflightAbsent, RbConnect, RbClose, RbSealManifest, RbSealAbsent,
      RbRecord, RbCommit, RbCommitRaises
<1>4. CASE FailNext(d)
  BY <1>4 DEF FailNext, FailBeforeCommit, ApplyFailAfterCommit, RbFailAfterCommit, Crash
<1> QED
  BY <1>1, <1>2, <1>3, <1>4 DEF DoctorNext

-----------------------------------------------------------------------------
(* The steps *)

\* Two transactions are never on one file, one that is being checked and one
\* that mutates least of all.
LEMMA CheckedAfterGate ==
  ASSUME IInv, GateHolds, NEW d \in Doctors, NEW e \in Doctors \ {d},
         DoctorNext(e), Gated(d), path = ident[d], Mutating(e)'
  PROVE  conn'[e] # conn[d]
<1>1. MutateFacts(e)
  BY MutatorOwnStep DEF IInv
<1>2. CASE Mutating(e)
  BY <1>1, <1>2 DEF MutateFacts, GateHolds
<1>3. CASE Gated(e)
  BY <1>1, <1>3
  DEF MutateFacts, IInv, LockExclusive, Gated, TxnPcs, ApplyTxnPcs, RbTxnPcs
<1> QED
  BY <1>1, <1>2, <1>3 DEF MutateFacts

\* A doctor's step keeps the three parts.
LEMMA MutatorDoctorStep ==
  ASSUME MutatorInv, NEW d \in Doctors, DoctorNext(d)
  PROVE  GateHolds' /\ ConnectionKept' /\ OneMutator'
<1>0. TypeOK /\ DoctorOK(d) /\ GateHolds /\ ConnectionKept /\ OneMutator /\ IInv
  BY DEF MutatorInv, IInv
<1>1. /\ path' = path
      /\ \A e \in Doctors \ {d} :
           /\ conn'[e] = conn[e] /\ ident'[e] = ident[e]
           /\ Mutating(e)' <=> Mutating(e)
           /\ Gated(e)' <=> Gated(e)
  BY <1>0, OthersUntouched DEF Mutating, Gated
<1>2. MutateFacts(d) /\ GateFacts(d)
  BY <1>0, MutatorOwnStep
<1>3. ConnectionKept'
  <2>1. Gated(d) /\ path = ident[d] => conn[d] = ident[d]
    BY <1>0 DEF DoctorOK, ConnectedOK, ConnectedPcs, Gated
  <2> QED
    BY <1>0, <1>1, <1>2, <2>1 DEF ConnectionKept, MutateFacts
<1>4. GateHolds'
  <2> SUFFICES ASSUME NEW a \in Doctors, NEW b \in Doctors, a # b, Gated(a)',
                      path' = ident'[a], Mutating(b)'
               PROVE  conn'[b] # conn'[a]
    BY DEF GateHolds
  <2>1. CASE a = d
    <3>1. conn[d] = path /\ conn[b] # path
      BY <1>0, <1>1, <1>2, <2>1
      DEF GateFacts, GateClear, DoctorOK, ConnectedOK, ConnectedPcs
    <3> QED
      BY <1>1, <1>2, <2>1, <3>1 DEF GateFacts
  <2>2. CASE b = d
    BY <1>0, <1>1, <2>2, CheckedAfterGate
  <2>3. CASE a # d /\ b # d
    BY <1>0, <1>1, <2>3 DEF GateHolds
  <2> QED
    BY <2>1, <2>2, <2>3
<1>5. OneMutator'
  <2>1. ASSUME NEW e \in Doctors \ {d}, Mutating(d)', Mutating(e)'
        PROVE  conn'[d] # conn'[e]
    <3>1. Mutating(e) /\ conn'[e] = conn[e]
      BY <1>1, <2>1
    <3> QED
      BY <1>0, <1>2, <2>1, <3>1 DEF MutateFacts, OneMutator, GateHolds
  <2> QED
    BY <1>0, <1>1, <2>1 DEF OneMutator
<1> QED
  BY <1>3, <1>4, <1>5

\* A file that comes to the path was not there when anybody took an identity.
LEMMA NewFileIsNobodysPlan ==
  ASSUME IInv, ~SwapBack, ClientNext \/ Replace
  PROVE  \A d \in Doctors : path' = ident[d] => path = ident[d]
<1>1. CASE ClientNext
  BY <1>1
  DEF ClientNext, ClientOpen, ClientClose, ClientInsert, ClientMigrate,
      ClientAddTrigger, ClientDropTrigger, ClientCommit
<1>2. CASE Replace
  <2>1. path' > path /\ path' \in Nat /\ path \in Nat
    BY <1>2 DEF Replace, Replacements, IInv, TypeOK, Inodes
  <2>2. ASSUME NEW d \in Doctors PROVE ident[d] <= path /\ ident[d] \in Nat
    <3>1. ident[d] \in Inodes \cup {0}
      BY DEF IInv, TypeOK
    <3> QED
      BY <3>1 DEF IInv, PastOnly, Inodes
  <2> QED
    BY <2>1, <2>2
<1> QED
  BY <1>1, <1>2

\* So does a step of the client, and a new file at the path is nobody's plan.
LEMMA MutatorElsewhereStep ==
  ASSUME MutatorInv, ~SwapBack, ClientNext \/ Replace
  PROVE  GateHolds' /\ ConnectionKept' /\ OneMutator'
<1>1. UNCHANGED <<pc, conn, ident>>
  BY DEF ClientNext, ClientOpen, ClientClose, ClientInsert, ClientMigrate,
         ClientAddTrigger, ClientDropTrigger, ClientCommit, Replace, input
<1>2. ConnectionKept' /\ OneMutator'
  BY <1>1 DEF MutatorInv, ConnectionKept, OneMutator, Mutating
<1>3. \A d \in Doctors : path' = ident[d] => path = ident[d]
  BY NewFileIsNobodysPlan DEF MutatorInv
<1>4. GateHolds'
  BY <1>1, <1>3 DEF MutatorInv, GateHolds, Gated, Mutating
<1> QED
  BY <1>2, <1>4

\* The strengthened invariant is inductive.
LEMMA MutatorStep ==
  ASSUME MutatorInv, ~SwapBack, [Next]_vars
  PROVE  MutatorInv'
<1>1. IInv'
  BY InvStep DEF MutatorInv
<1>2. CASE Next
  BY <1>1, <1>2, MutatorDoctorStep, MutatorElsewhereStep DEF Next, MutatorInv
<1>3. CASE UNCHANGED vars
  BY <1>1, <1>3
  DEF vars, world, input, MutatorInv, GateHolds, ConnectionKept, OneMutator, Gated, Mutating
<1> QED
  BY <1>2, <1>3

\* The strengthened invariant holds in every reachable state.
THEOREM MutatorInvariance == ASSUME ~SwapBack PROVE Spec => []MutatorInv
<1>1. Init => MutatorInv
  BY InitInv
  DEF Init, MutatorInv, GateHolds, ConnectionKept, OneMutator, Gated, Mutating
<1>2. MutatorInv /\ [Next]_vars => MutatorInv'
  BY MutatorStep
<1> QED
  BY <1>1, <1>2, PTL DEF Spec

\* Any number of doctors on any number of files: past its last recheck and until
\* its last close, a doctor is alone on its file.
THEOREM NeverTwo == ASSUME ~SwapBack PROVE Spec => []OneMutator
<1>1. MutatorInv => OneMutator
  BY DEF MutatorInv
<1> QED
  BY <1>1, MutatorInvariance, PTL

-----------------------------------------------------------------------------
(* The sets of program counters that the records are about *)

RollbackPcs == RbPrePcs \cup RbTxnPcs \cup RbPostPcs
WaitingPcs  == {"prepared", "connected", "exclusive", "gated3"}
SealingPcs  == {"rechecked", "created", "committed", "verified"}
ApplyManifestPcs == WaitingPcs \cup SealingPcs \cup {"sealed", "raised", "done", "crashed"}

-----------------------------------------------------------------------------
(* The invariant behind RecordIsTruthful *)

\* A manifest is on disk only for an apply that has come that far.
Manifested == \A m \in Doctors : manifest[m] # "none" => pc[m] \in ApplyManifestPcs

\* A rollback works on the file of the manifest it has loaded.
TargetOK ==
  \A d \in Doctors : pc[d] \in RollbackPcs =>
    /\ target[d] \in Doctors /\ manifest[target[d]] # "none"
    /\ ident[d] = ident[target[d]]

\* The apply m will not seal its manifest any more: it is not among those that
\* have passed their last recheck, and it cannot pass it, because the file has
\* changed since it was measured.
Outdated(m) ==
  /\ pc[m] \notin SealingPcs
  /\ pc[m] \in WaitingPcs /\ path = ident[m] => before[m] < db[path].ver

\* So it is with the apply that a committed rollback has undone; from the sealed
\* manifest on, that one says rolled_back.
RecordOK ==
  /\ \A m \in Doctors : record[m] => Outdated(m) /\ manifest[m] = "rolled_back"
  /\ \A d \in Doctors : pc[d] \in RbPostPcs => Outdated(target[d])
  /\ \A d \in Doctors : pc[d] = "rbSealed" => manifest[target[d]] = "rolled_back"

RecordInv == MutatorInv /\ Manifested /\ TargetOK /\ RecordOK

-----------------------------------------------------------------------------
(* What a doctor's own step establishes *)

\* Who writes which manifest and record.
ArtifactFacts(d) ==
  /\ \/ manifest' = manifest
     \/ pc[d] = "gated2" /\ pc'[d] = "prepared"
          /\ manifest' = [manifest EXCEPT ![d] = "prepared"]
     \/ pc[d] = "verified" /\ pc'[d] = "sealed"
          /\ manifest' = [manifest EXCEPT ![d] = "applied"]
     \/ pc[d] = "rbVerified" /\ pc'[d] = "rbSealed" /\ SealRolledBack(d)
     \/ pc[d] = "rbAbsent" /\ pc'[d] = "done" /\ SealRolledBack(d)
  /\ \/ record' = record
     \/ pc[d] = "rbSealed" /\ pc'[d] = "done"
          /\ record' = [record EXCEPT ![target[d]] = TRUE]

\* How an apply with a manifest goes on.
ApplyFacts(d) ==
  pc[d] \in ApplyManifestPcs =>
    /\ pc'[d] \in ApplyManifestPcs /\ ident'[d] = ident[d]
    /\ pc'[d] \in WaitingPcs => pc[d] \in WaitingPcs /\ before'[d] = before[d]
    /\ pc'[d] \in SealingPcs =>
         pc[d] \in SealingPcs
           \/ (pc[d] = "gated3" /\ path = ident[d] /\ db[path].ver = before[d])

\* How a rollback loads its manifest and goes on.
RollbackFacts(d) ==
  /\ pc'[d] \in RollbackPcs =>
       \/ pc[d] \in RollbackPcs /\ target'[d] = target[d] /\ ident'[d] = ident[d]
       \/ pc[d] = "idle" /\ pc'[d] = "rbLoaded"
            /\ \E m \in Doctors : manifest[m] # "none" /\ target'[d] = m
                                   /\ ident'[d] = ident[m]
  /\ pc'[d] \in RbPostPcs =>
       pc[d] \in RbPostPcs \/ (pc[d] = "rbDropped" /\ Remove(d))
  /\ pc'[d] = "rbSealed" => pc[d] = "rbVerified" /\ SealRolledBack(d)

\* The facts above, for each command of the program.
LEMMA ArtifactOwnStep ==
  ASSUME TypeOK, NEW d \in Doctors, DoctorNext(d)
  PROVE  ArtifactFacts(d) /\ ApplyFacts(d) /\ RollbackFacts(d)
<1> USE DEF TypeOK, world, input, artifacts, RollbackPcs, WaitingPcs, SealingPcs,
           ApplyManifestPcs, PrePcs, PlanPcs, ApplyPrePcs, ApplyPostPcs, RbPrePcs,
           RbPostPcs, TxnPcs, ApplyTxnPcs, RbTxnPcs
<1>1. CASE PlanNext(d)
  <2> USE DEF PlanNext, PlanRead, PlanIdentity
  <2>1. ArtifactFacts(d)
    BY <1>1 DEF ArtifactFacts
  <2>2. ApplyFacts(d)
    BY <1>1 DEF ApplyFacts
  <2>3. RollbackFacts(d)
    BY <1>1 DEF RollbackFacts
  <2> QED
    BY <2>1, <2>2, <2>3
<1>2. CASE ApplyNext(d)
  <2> USE DEF ApplyNext, ApplyTarget, ApplyGate1, ApplyPreflight, ApplySteady,
             ApplyGate2, ApplyBegin, ApplyGate3, ApplyRecheck, ApplyCreate,
             ApplyVerify, ApplyAlreadyThere, ApplyAlreadyThereLocked,
             ApplyOutcomeNotCommitted, ApplyOutcomeRecovery, ApplyClose,
             ApplyMeasure, ApplyBackup, ApplyPrepareManifest, ApplyConnect,
             ApplySealManifest, ApplyCommit, ApplyCommitRaises
  <2>1. ArtifactFacts(d)
    BY <1>2 DEF ArtifactFacts
  <2>2. ApplyFacts(d)
    BY <1>2 DEF ApplyFacts
  <2>3. RollbackFacts(d)
    BY <1>2 DEF RollbackFacts
  <2> QED
    BY <2>1, <2>2, <2>3
<1>3. CASE RbNext(d)
  <2> USE DEF RbNext, RbGate1, RbTarget, RbPreflight, RbSteady, RbGate2,
             RbBegin, RbGate3, RbRecheck, RbDrop, RbAbsentLocked, RbVerify,
             RbOutcomeNotCommitted, RbOutcomeReconcile, RbLoad, RbMeasure,
             RbBackup, RbPreflightAbsent, RbConnect, RbClose, RbSealManifest,
             RbSealAbsent, RbRecord, RbCommit, RbCommitRaises
  <2>1. ArtifactFacts(d)
    BY <1>3 DEF ArtifactFacts
  <2>2. ApplyFacts(d)
    BY <1>3 DEF ApplyFacts
  <2>3. RollbackFacts(d)
    BY <1>3 DEF RollbackFacts
  <2> QED
    BY <2>1, <2>2, <2>3
<1>4. CASE FailNext(d)
  <2> USE DEF FailNext, FailBeforeCommit, ApplyFailAfterCommit, RbFailAfterCommit,
             Crash
  <2>1. ArtifactFacts(d)
    BY <1>4 DEF ArtifactFacts
  <2>2. ApplyFacts(d)
    BY <1>4 DEF ApplyFacts
  <2>3. RollbackFacts(d)
    BY <1>4 DEF RollbackFacts
  <2> QED
    BY <2>1, <2>2, <2>3
<1> QED
  BY <1>1, <1>2, <1>3, <1>4 DEF DoctorNext

\* A doctor's step leaves the target of every other doctor alone.
LEMMA TargetsUntouched ==
  ASSUME TypeOK, NEW d \in Doctors, DoctorNext(d)
  PROVE  \A e \in Doctors \ {d} : target'[e] = target[e]
<1> USE DEF TypeOK, input
<1>1. CASE PlanNext(d)
  BY <1>1 DEF PlanNext, PlanRead, PlanIdentity
<1>2. CASE ApplyNext(d)
  BY <1>2
  DEF ApplyNext, ApplyTarget, ApplyGate1, ApplyPreflight, ApplySteady,
      ApplyGate2, ApplyBegin, ApplyGate3, ApplyRecheck, ApplyCreate,
      ApplyVerify, ApplyAlreadyThere, ApplyAlreadyThereLocked,
      ApplyOutcomeNotCommitted, ApplyOutcomeRecovery, ApplyClose,
      ApplyMeasure, ApplyBackup, ApplyPrepareManifest, ApplyConnect,
      ApplySealManifest, ApplyCommit, ApplyCommitRaises
<1>3. CASE RbNext(d)
  BY <1>3
  DEF RbNext, RbGate1, RbTarget, RbPreflight, RbSteady, RbGate2, RbBegin,
      RbGate3, RbRecheck, RbDrop, RbAbsentLocked, RbVerify,
      RbOutcomeNotCommitted, RbOutcomeReconcile, RbLoad, RbMeasure, RbBackup,
      RbPreflightAbsent, RbConnect, RbClose, RbSealManifest, RbSealAbsent,
      RbRecord, RbCommit, RbCommitRaises
<1>4. CASE FailNext(d)
  BY <1>4 DEF FailNext, FailBeforeCommit, ApplyFailAfterCommit, RbFailAfterCommit, Crash
<1> QED
  BY <1>1, <1>2, <1>3, <1>4 DEF DoctorNext

-----------------------------------------------------------------------------
(* The steps *)

\* An apply and a rollback are different processes.
LEMMA TargetIsOther ==
  ASSUME Manifested, NEW d \in Doctors, NEW m \in Doctors, manifest[m] # "none",
         pc[d] \in RollbackPcs \cup {"idle"}
  PROVE  m # d /\ pc[m] \in ApplyManifestPcs
BY DEF Manifested, ApplyManifestPcs, WaitingPcs, SealingPcs, RollbackPcs, RbPrePcs,
       RbTxnPcs, RbPostPcs

\* Once there is a manifest, the identity in it does not change.
LEMMA IdentityIsFinal ==
  ASSUME TypeOK, Manifested, NEW d \in Doctors, DoctorNext(d), NEW m \in Doctors,
         manifest[m] # "none"
  PROVE  ident'[m] = ident[m] /\ manifest'[m] # "none"
<1>1. CASE m = d
  BY <1>1, ArtifactOwnStep, OthersUntouched DEF ApplyFacts, Manifested
<1>2. CASE m # d
  BY <1>2, OthersUntouched
<1> QED
  BY <1>1, <1>2

\* An apply that is outdated stays so: no step takes a write back.
LEMMA OutdatedStep ==
  ASSUME RecordInv, NEW d \in Doctors, DoctorNext(d), NEW m \in Doctors,
         manifest[m] # "none", Outdated(m)
  PROVE  Outdated(m)'
<1>0. /\ TypeOK /\ PastOnly /\ LockExclusive /\ DoctorOK(d) /\ Manifested
  BY DEF RecordInv, MutatorInv, IInv
<1>1. path' = path /\ ident'[m] = ident[m] /\ path \in Inodes
  BY <1>0, OthersUntouched, IdentityIsFinal DEF TypeOK
<1>2. CASE m = d
  <2>1. /\ pc'[d] \in WaitingPcs => pc[d] \in WaitingPcs /\ before'[d] = before[d]
        /\ pc'[d] \in SealingPcs =>
             pc[d] \in SealingPcs
               \/ (pc[d] = "gated3" /\ path = ident[d] /\ db[path].ver = before[d])
    BY <1>0, <1>2, ArtifactOwnStep DEF ApplyFacts, Manifested
  <2>2. pc'[d] \in WaitingPcs => db' = db
    BY <1>0, OwnStep
    DEF MeasureFacts, WaitingPcs, MeasuredPcs, BackedPcs, ConnectedPcs
  <2>3. pc[d] = "gated3" /\ path = ident[d] => before[d] # db[path].ver
    <3>1. pc[d] = "gated3" /\ path = ident[d] => before[d] < db[path].ver
      BY <1>2 DEF Outdated, WaitingPcs
    <3>2. before[d] \in Nat /\ db[path].ver \in Nat
      BY <1>0 DEF TypeOK, Contents
    <3> QED
      BY <3>1, <3>2
  <2> QED
    BY <1>1, <1>2, <2>1, <2>2, <2>3 DEF Outdated
<1>3. CASE m # d
  <2>1. pc'[m] = pc[m] /\ before'[m] = before[m]
    BY <1>0, <1>3, OthersUntouched
  <2>2. db'[path] = db[path] \/ db'[path].ver = db[path].ver + 1
    BY <1>0, <1>1, <1>3, CommitElsewhere
  <2>3. before[m] \in Nat /\ db[path].ver \in Nat
    BY <1>0 DEF TypeOK, Contents
  <2> QED
    BY <1>1, <2>1, <2>2, <2>3 DEF Outdated
<1> QED
  BY <1>2, <1>3

\* What its own apply will not seal any more stays rolled_back.
LEMMA StaysRolledBack ==
  ASSUME RecordInv, NEW d \in Doctors, DoctorNext(d), NEW m \in Doctors,
         manifest[m] = "rolled_back", Outdated(m)
  PROVE  manifest'[m] = "rolled_back"
<1>1. TypeOK /\ Manifested /\ ArtifactFacts(d)
  BY ArtifactOwnStep DEF RecordInv, MutatorInv, IInv
<1>2. pc[m] \notin {"gated2", "verified"}
  BY <1>1
  DEF Manifested, ApplyManifestPcs, WaitingPcs, SealingPcs, Outdated
<1>3. manifest \in [Doctors -> {"none", "prepared", "applied", "rolled_back"}]
  BY <1>1 DEF TypeOK
<1> QED
  BY <1>1, <1>2, <1>3 DEF ArtifactFacts, SealRolledBack

\* A rollback's COMMIT outdates the apply it undoes: that one cannot be among the
\* mutators, and if it waits, it has measured the file before this write.
LEMMA CommitOutdates ==
  ASSUME RecordInv, NEW d \in Doctors, DoctorNext(d), pc[d] = "rbDropped", Remove(d),
         NEW m \in Doctors, target[d] = m
  PROVE  Outdated(m)'
<1>0. /\ TypeOK /\ Manifested /\ TargetOK /\ ConnectionKept /\ OneMutator
      /\ DoctorOK(m)
  BY DEF RecordInv, MutatorInv, IInv
<1>1. manifest[m] # "none" /\ ident[d] = ident[m]
  BY <1>0 DEF TargetOK, RollbackPcs, RbTxnPcs
<1>2. m # d
  BY <1>0, <1>1, TargetIsOther DEF RollbackPcs, RbTxnPcs
<1>3. Mutating(d) /\ conn[d] = ident[m]
  BY <1>0, <1>1 DEF Mutating, ConnectionKept
<1>4. pc[m] \notin SealingPcs
  BY <1>0, <1>1, <1>2, <1>3 DEF OneMutator, ConnectionKept, Mutating, SealingPcs
<1>5. /\ path' = path /\ pc'[m] = pc[m] /\ before'[m] = before[m]
      /\ ident'[m] = ident[m]
  BY <1>0, <1>1, <1>2, OthersUntouched, IdentityIsFinal
<1>6. pc[m] \in WaitingPcs /\ path = ident[m] => before[m] < db'[path].ver
  <2>1. pc[m] \in WaitingPcs /\ path = ident[m] => before[m] <= db[path].ver
    BY <1>0 DEF DoctorOK, MeasuredOK, MeasuredPcs, BackedPcs, ConnectedPcs, WaitingPcs
  <2>2. path = ident[m] => db'[path].ver = db[path].ver + 1
    BY <1>0, <1>3 DEF Remove, Commit, TypeOK, Contents
  <2>3. before[m] \in Nat /\ db[path].ver \in Nat
    BY <1>0 DEF TypeOK, Contents
  <2> QED
    BY <2>1, <2>2, <2>3
<1> QED
  BY <1>4, <1>5, <1>6 DEF Outdated

\* Manifests keep belonging to applies.
LEMMA ManifestedStep ==
  ASSUME RecordInv, NEW d \in Doctors, DoctorNext(d)
  PROVE  Manifested'
<1>0. TypeOK /\ Manifested /\ TargetOK /\ ArtifactFacts(d) /\ ApplyFacts(d)
  BY ArtifactOwnStep DEF RecordInv, MutatorInv, IInv
<1> SUFFICES ASSUME NEW m \in Doctors, manifest'[m] # "none"
             PROVE  pc'[m] \in ApplyManifestPcs
  BY DEF Manifested
<1>1. CASE manifest[m] # "none"
  <2>1. pc[m] \in ApplyManifestPcs
    BY <1>0, <1>1 DEF Manifested
  <2> QED
    BY <1>0, <2>1, OthersUntouched DEF ApplyFacts
<1>2. CASE manifest[m] = "none"
  <2>1. pc[d] \in {"rbVerified", "rbAbsent"} => target[d] # m
    BY <1>0, <1>2 DEF TargetOK, RollbackPcs, RbPrePcs, RbPostPcs
  <2>2. m = d /\ pc'[d] \in {"prepared", "sealed"}
    BY <1>0, <1>2, <2>1 DEF ArtifactFacts, SealRolledBack, TypeOK
  <2> QED
    BY <2>2 DEF ApplyManifestPcs, WaitingPcs
<1> QED
  BY <1>1, <1>2

\* Rollbacks keep their targets.
LEMMA TargetStep ==
  ASSUME RecordInv, NEW d \in Doctors, DoctorNext(d)
  PROVE  TargetOK'
<1>0. TypeOK /\ Manifested /\ TargetOK /\ RollbackFacts(d)
  BY ArtifactOwnStep DEF RecordInv, MutatorInv, IInv
<1> SUFFICES ASSUME NEW e \in Doctors, pc'[e] \in RollbackPcs
             PROVE  /\ target'[e] \in Doctors /\ manifest'[target'[e]] # "none"
                    /\ ident'[e] = ident'[target'[e]]
  BY DEF TargetOK
<1>1. ASSUME NEW m \in Doctors, manifest[m] # "none", target'[e] = m, ident'[e] = ident[m]
      PROVE  /\ target'[e] \in Doctors /\ manifest'[target'[e]] # "none"
             /\ ident'[e] = ident'[target'[e]]
  BY <1>0, <1>1, IdentityIsFinal
<1>2. CASE pc[e] \in RollbackPcs /\ target'[e] = target[e] /\ ident'[e] = ident[e]
  BY <1>0, <1>1, <1>2 DEF TargetOK
<1>3. CASE e = d
  BY <1>0, <1>1, <1>2, <1>3 DEF RollbackFacts
<1>4. CASE e # d
  BY <1>0, <1>2, <1>4, OthersUntouched, TargetsUntouched
<1> QED
  BY <1>3, <1>4

\* Records keep telling the truth.
LEMMA RecordStep ==
  ASSUME RecordInv, NEW d \in Doctors, DoctorNext(d)
  PROVE  RecordOK'
<1>0. /\ TypeOK /\ Manifested /\ TargetOK /\ RecordOK
      /\ ArtifactFacts(d) /\ RollbackFacts(d)
  BY ArtifactOwnStep DEF RecordInv, MutatorInv, IInv
<1>1. ASSUME NEW m \in Doctors, manifest[m] = "rolled_back", Outdated(m)
      PROVE  Outdated(m)' /\ manifest'[m] = "rolled_back"
  BY <1>1, OutdatedStep, StaysRolledBack
<1>2. ASSUME NEW m \in Doctors, record'[m]
      PROVE  Outdated(m)' /\ manifest'[m] = "rolled_back"
  <2>1. CASE record[m]
    BY <1>0, <1>1, <2>1 DEF RecordOK
  <2>2. CASE ~record[m]
    <3>1. pc[d] = "rbSealed" /\ target[d] = m
      BY <1>0, <1>2, <2>2 DEF ArtifactFacts, TypeOK
    <3> QED
      BY <1>0, <1>1, <3>1 DEF RecordOK, RbPostPcs
  <2> QED
    BY <2>1, <2>2
<1>3. ASSUME NEW e \in Doctors, pc'[e] \in RbPostPcs
      PROVE  Outdated(target[e])'
  <2>1. /\ target'[e] = target[e] /\ target[e] \in Doctors
        /\ manifest[target[e]] # "none"
        /\ \/ pc[e] \in RbPostPcs
           \/ e = d /\ pc[d] = "rbDropped" /\ Remove(d)
    <3>1. CASE e = d
      BY <1>0, <1>3, <3>1
      DEF RollbackFacts, TargetOK, RollbackPcs, RbPostPcs, RbTxnPcs
    <3>2. CASE e # d
      BY <1>0, <1>3, <3>2, OthersUntouched, TargetsUntouched DEF TargetOK, RollbackPcs
    <3> QED
      BY <3>1, <3>2
  <2>2. PICK m \in Doctors : target[e] = m /\ target'[e] = m /\ manifest[m] # "none"
    BY <2>1
  <2>3. Outdated(m)'
    <3>1. CASE pc[e] \in RbPostPcs
      <4>1. Outdated(m)
        BY <1>0, <2>2, <3>1 DEF RecordOK
      <4> QED
        BY <2>2, <4>1, OutdatedStep
    <3>2. CASE e = d /\ pc[d] = "rbDropped" /\ Remove(d)
      BY <2>2, <3>2, CommitOutdates
    <3> QED
      BY <2>1, <3>1, <3>2
  <2> QED
    BY <2>2, <2>3 DEF Outdated
<1>4. ASSUME NEW e \in Doctors, pc'[e] = "rbSealed"
      PROVE  manifest'[target'[e]] = "rolled_back"
  <2>1. CASE e = d
    <3>1. SealRolledBack(d) /\ target'[d] = target[d] /\ target[d] \in Doctors
      BY <1>0, <1>4, <2>1 DEF RollbackFacts, TargetOK, RollbackPcs, RbPostPcs
    <3> QED
      BY <1>0, <2>1, <3>1 DEF SealRolledBack, TypeOK
  <2>2. CASE e # d
    <3>1. pc[e] = "rbSealed" /\ target'[e] = target[e] /\ target[e] \in Doctors
      BY <1>0, <1>4, <2>2, OthersUntouched, TargetsUntouched
      DEF TargetOK, RollbackPcs, RbPostPcs
    <3>2. PICK m \in Doctors : target[e] = m /\ target'[e] = m
      BY <3>1
    <3>3. manifest[m] = "rolled_back" /\ Outdated(m)
      BY <1>0, <3>1, <3>2 DEF RecordOK, RbPostPcs
    <3> QED
      BY <1>1, <3>2, <3>3
  <2> QED
    BY <2>1, <2>2
<1> QED
  BY <1>2, <1>3, <1>4 DEF RecordOK, Outdated

\* The client and a new file at the path touch no artifact, and leave what is
\* outdated so.
LEMMA RecordElsewhereStep ==
  ASSUME RecordInv, ~SwapBack, ClientNext \/ Replace
  PROVE  Manifested' /\ TargetOK' /\ RecordOK'
<1>0. TypeOK /\ PastOnly /\ LockExclusive /\ Manifested /\ TargetOK /\ RecordOK
  BY DEF RecordInv, MutatorInv, IInv
<1>1. UNCHANGED <<pc, ident, target, before, manifest, record>>
  BY DEF ClientNext, ClientOpen, ClientClose, ClientInsert, ClientMigrate,
         ClientAddTrigger, ClientDropTrigger, ClientCommit, Replace, input, artifacts
<1>2. ASSUME NEW m \in Doctors, Outdated(m) PROVE Outdated(m)'
  <2>1. path \in Inodes /\ before[m] \in Nat /\ db[path].ver \in Nat
    BY <1>0 DEF TypeOK, Contents
  <2>2. CASE ClientNext
    BY <1>0, <1>1, <1>2, <2>1, <2>2, ClientElsewhere DEF Outdated
  <2>3. CASE Replace
    <3>1. path' > path /\ path' \in Nat /\ path \in Nat
      BY <2>1, <2>3, <1>0 DEF Replace, Replacements, Inodes
    <3>2. ident[m] \in Inodes \cup {0}
      BY <1>0 DEF TypeOK
    <3>3. ident[m] <= path /\ ident[m] \in Nat
      BY <1>0, <3>2 DEF PastOnly, Inodes
    <3> QED
      BY <1>1, <1>2, <3>1, <3>3 DEF Outdated
  <2> QED
    BY <2>2, <2>3
<1>3. Manifested' /\ TargetOK'
  BY <1>0, <1>1 DEF Manifested, TargetOK
<1>4. ASSUME NEW d \in Doctors, pc[d] \in RbPostPcs PROVE target[d] \in Doctors
  BY <1>0, <1>4 DEF TargetOK, RollbackPcs
<1>5. RecordOK'
  BY <1>0, <1>1, <1>2, <1>4 DEF RecordOK, Outdated
<1> QED
  BY <1>3, <1>5

\* The invariant holds in the beginning.
LEMMA RecordInit ==
  ASSUME Init PROVE RecordInv
<1>1. MutatorInv
  BY InitInv
  DEF Init, MutatorInv, GateHolds, ConnectionKept, OneMutator, Gated, Mutating
<1>2. Manifested /\ TargetOK /\ RecordOK
  BY DEF Init, Manifested, TargetOK, RecordOK, RollbackPcs, RbPrePcs, RbTxnPcs,
         RbPostPcs
<1> QED
  BY <1>1, <1>2 DEF RecordInv

\* It is inductive.
LEMMA RecordInvStep ==
  ASSUME RecordInv, ~SwapBack, [Next]_vars
  PROVE  RecordInv'
<1>1. MutatorInv'
  BY MutatorStep DEF RecordInv
<1>2. CASE Next
  BY <1>1, <1>2, ManifestedStep, TargetStep, RecordStep, RecordElsewhereStep
  DEF Next, RecordInv
<1>3. CASE UNCHANGED vars
  BY <1>1, <1>3
  DEF vars, world, input, artifacts, RecordInv, Manifested, TargetOK, RecordOK, Outdated
<1> QED
  BY <1>2, <1>3

\* The invariant holds in every reachable state.
THEOREM RecordInvariance == ASSUME ~SwapBack PROVE Spec => []RecordInv
<1>1. Init => RecordInv
  BY RecordInit
<1>2. RecordInv /\ [Next]_vars => RecordInv'
  BY RecordInvStep
<1> QED
  BY <1>1, <1>2, PTL DEF Spec

\* Whatever runs at the same time or fails in between, a rollback record never
\* stands beside a manifest that says something else.
THEOREM RecordsAreTruthful == ASSUME ~SwapBack PROVE Spec => []RecordIsTruthful
<1>1. RecordInv => RecordIsTruthful
  BY DEF RecordInv, RecordOK, RecordIsTruthful
<1> QED
  BY <1>1, RecordInvariance, PTL

-----------------------------------------------------------------------------
(* The invariant behind HonestOutcome *)

\* A COMMIT that raised and has made the present state of a file is visible
\* there, so that looking at the triggers afterwards does not miss it.
SeenAsItIs ==
  \A i \in Inodes, d \in Doctors : author[i] = d =>
    /\ pc[d] = "raised"   => mode[d] \in Modes /\ mode[d] \in db[i].trigs
    /\ pc[d] = "rbRaised" => mode[d] \in DoctorTriggers /\ mode[d] \notin db[i].trigs

OutcomeInv == IInv /\ SeenAsItIs /\ HonestOutcome

HonestResults ==
  {"applied", "mutation_recovery_required", "rolled_back",
   "rollback_reconciliation_required"}

\* How a COMMIT raises, and how a command ends.
RaiseFacts(d) ==
  /\ pc'[d] = "raised" => pc[d] = "created" /\ mode'[d] = mode[d]
  /\ pc'[d] = "rbRaised" => pc[d] = "rbDropped" /\ mode'[d] = mode[d]

EndsHonestly(d) ==
  pc'[d] = "done" =>
    /\ db' = db /\ author' = author /\ pc[d] # "done"
    /\ \/ result'[d] \in HonestResults
       \/ pc[d] \in PrePcs
       \/ pc[d] = "raised" /\ db[path].trigs = {}
       \/ pc[d] = "rbRaised" /\ db[path].trigs = {mode[d]}

\* The facts above, for each command of the program.
LEMMA OutcomeOwnStep ==
  ASSUME TypeOK, NEW d \in Doctors, DoctorNext(d)
  PROVE  /\ RaiseFacts(d) /\ EndsHonestly(d)
         /\ \A e \in Doctors \ {d} : result'[e] = result[e]
<1> USE DEF TypeOK, world, input, RaiseFacts, EndsHonestly, HonestResults,
           PrePcs, PlanPcs, ApplyPrePcs, RbPrePcs, TxnPcs, ApplyTxnPcs, RbTxnPcs
<1>1. CASE PlanNext(d)
  BY <1>1 DEF PlanNext, PlanRead, PlanIdentity
<1>2. CASE ApplyNext(d)
  BY <1>2
  DEF ApplyNext, ApplyTarget, ApplyGate1, ApplyPreflight, ApplySteady,
      ApplyGate2, ApplyBegin, ApplyGate3, ApplyRecheck, ApplyCreate,
      ApplyVerify, ApplyAlreadyThere, ApplyAlreadyThereLocked,
      ApplyOutcomeNotCommitted, ApplyOutcomeRecovery, ApplyClose,
      ApplyMeasure, ApplyBackup, ApplyPrepareManifest, ApplyConnect,
      ApplySealManifest, ApplyCommit, ApplyCommitRaises
<1>3. CASE RbNext(d)
  BY <1>3
  DEF RbNext, RbGate1, RbTarget, RbPreflight, RbSteady, RbGate2, RbBegin,
      RbGate3, RbRecheck, RbDrop, RbAbsentLocked, RbVerify,
      RbOutcomeNotCommitted, RbOutcomeReconcile, RbLoad, RbMeasure, RbBackup,
      RbPreflightAbsent, RbConnect, RbClose, RbSealManifest, RbSealAbsent,
      RbRecord, RbCommit, RbCommitRaises
<1>4. CASE FailNext(d)
  BY <1>4
  DEF FailNext, FailBeforeCommit, ApplyFailAfterCommit, RbFailAfterCommit, Crash,
      ApplyPostPcs, RbPostPcs
<1> QED
  BY <1>1, <1>2, <1>3, <1>4 DEF DoctorNext

\* The step of another doctor leaves a file that stays e's work as it is.
LEMMA AuthoredFileStays ==
  ASSUME TypeOK, NEW d \in Doctors, DoctorNext(d), NEW i \in Inodes,
         NEW e \in Doctors \ {d}, author'[i] = e
  PROVE  author[i] = e /\ db'[i] = db[i]
<1>1. CASE db' = db /\ author' = author
  BY <1>1
<1>2. ASSUME NEW ts, Commit(d, conn[d], ts), pc[d] \in {"created", "rbDropped"}
      PROVE  author[i] = e /\ db'[i] = db[i]
  <2>1. i # conn[d]
    BY <1>2 DEF Commit, TypeOK
  <2> QED
    BY <1>2, <2>1 DEF Commit, TypeOK
<1> QED
  BY <1>1, <1>2, OnlyCommitWrites DEF Install, Remove

\* What a raised COMMIT has done stays visible over a doctor's step.
LEMMA SeenStep ==
  ASSUME OutcomeInv, NEW d \in Doctors, DoctorNext(d)
  PROVE  SeenAsItIs'
<1>0. TypeOK /\ DoctorOK(d) /\ AuthorEnded /\ SeenAsItIs /\ RaiseFacts(d)
  BY OutcomeOwnStep DEF OutcomeInv, IInv
<1> SUFFICES ASSUME NEW i \in Inodes, NEW e \in Doctors, author'[i] = e
             PROVE  /\ pc'[e] = "raised" => mode'[e] \in Modes /\ mode'[e] \in db'[i].trigs
                    /\ pc'[e] = "rbRaised" =>
                         mode'[e] \in DoctorTriggers /\ mode'[e] \notin db'[i].trigs
  BY DEF SeenAsItIs
<1>1. CASE e # d
  <2>1. author[i] = e /\ db'[i] = db[i]
    BY <1>0, <1>1, AuthoredFileStays
  <2>2. pc'[e] = pc[e] /\ mode'[e] = mode[e]
    BY <1>0, <1>1, OthersUntouched
  <2> QED
    BY <1>0, <2>1, <2>2 DEF SeenAsItIs
<1>2. CASE e = d
  <2>1. pc[d] \in {"created", "rbDropped"} => author[i] # d
    BY <1>0 DEF AuthorEnded, EndPcs, PostPcs, ApplyPostPcs, RbPostPcs
  <2>2. ASSUME NEW ts, author[i] # d, Commit(d, conn[d], ts)
        PROVE  i = conn[d] /\ db'[i].trigs = ts
    <3>1. i = conn[d]
      BY <1>0, <1>2, <2>2 DEF Commit, TypeOK
    <3> QED
      BY <1>0, <2>2, <3>1 DEF Commit, TypeOK, Contents
  <2>3. CASE pc'[d] = "raised"
    <3>1. pc[d] = "created" /\ mode'[d] = mode[d]
      BY <1>0, <2>3 DEF RaiseFacts
    <3>2. Install(d)
      BY <1>2, <2>1, <3>1, OnlyCommitWrites
    <3>3. db'[i].trigs = db[conn[d]].trigs \cup {mode[d]}
      BY <2>1, <2>2, <3>1, <3>2 DEF Install
    <3>4. mode[d] \in Modes
      BY <1>0, <3>1 DEF DoctorOK, ModeOK, ApplyTxnPcs
    <3> QED
      BY <1>2, <2>3, <3>1, <3>3, <3>4
  <2>4. CASE pc'[d] = "rbRaised"
    <3>1. pc[d] = "rbDropped" /\ mode'[d] = mode[d]
      BY <1>0, <2>4 DEF RaiseFacts
    <3>2. Remove(d)
      BY <1>2, <2>1, <3>1, OnlyCommitWrites
    <3>3. db'[i].trigs = db[conn[d]].trigs \ {mode[d]}
      BY <2>1, <2>2, <3>1, <3>2 DEF Remove
    <3>4. mode[d] \in DoctorTriggers
      BY <1>0, <3>1 DEF DoctorOK, DroppedOK
    <3> QED
      BY <1>2, <2>4, <3>1, <3>3, <3>4
  <2> QED
    BY <1>2, <2>3, <2>4
<1> QED
  BY <1>1, <1>2

\* Who made the present state does not end as a refusal or a no-op.
LEMMA HonestStep ==
  ASSUME OutcomeInv, NEW d \in Doctors, DoctorNext(d)
  PROVE  HonestOutcome'
<1>0. /\ TypeOK /\ AuthorEnded /\ SeenAsItIs /\ HonestOutcome
      /\ EndsHonestly(d) /\ path' = path /\ path \in Inodes
  BY OutcomeOwnStep, OthersUntouched DEF OutcomeInv, IInv, TypeOK
<1> SUFFICES ASSUME NEW e \in Doctors, pc'[e] = "done", author'[path] = e
             PROVE  result'[e] \in HonestResults
  BY <1>0 DEF HonestOutcome, HonestResults
<1>1. CASE e # d
  <2>1. author[path] = e
    BY <1>0, <1>1, AuthoredFileStays
  <2>2. pc[e] = "done" /\ result'[e] = result[e]
    BY <1>0, <1>1, OthersUntouched, OutcomeOwnStep
  <2> QED
    BY <1>0, <2>1, <2>2 DEF HonestOutcome, HonestResults
<1>2. CASE e = d
  <2>1. author[path] = d
    BY <1>0, <1>2 DEF EndsHonestly
  <2>2. pc[d] \notin PrePcs
    BY <1>0, <2>1
    DEF AuthorEnded, EndPcs, PrePcs, PostPcs, PlanPcs, ApplyPrePcs, ApplyTxnPcs,
        ApplyPostPcs, RbPrePcs, RbTxnPcs, RbPostPcs, TxnPcs
  <2>3. ~(pc[d] = "raised" /\ db[path].trigs = {})
    BY <1>0, <2>1 DEF SeenAsItIs
  <2>4. ~(pc[d] = "rbRaised" /\ db[path].trigs = {mode[d]})
    BY <1>0, <2>1 DEF SeenAsItIs
  <2> QED
    BY <1>0, <1>2, <2>2, <2>3, <2>4 DEF EndsHonestly
<1> QED
  BY <1>1, <1>2

\* No client adds to the work of an author, and a new file at the path has none.
LEMMA AuthorElsewhere ==
  ASSUME IInv, ~SwapBack, ClientNext \/ Replace, NEW i \in Inodes, NEW d \in Doctors,
         author'[i] = d
  PROVE  /\ author[i] = d /\ (path' # path => i # path')
         /\ db'[i].trigs \cap Modes = db[i].trigs \cap Modes
<1>0. TypeOK /\ PastOnly /\ path \in Inodes
  BY DEF IInv, TypeOK
<1>1. CASE ClientNext
  <2>1. path' = path /\ ((db' = db /\ author' = author)
                          \/ \E c \in Contents : ClientCommit(c))
    BY <1>0, <1>1, ClientWrites, ClientElsewhere DEF ClientNext, ClientOpen, ClientClose
  <2>2. ASSUME NEW c \in Contents, ClientCommit(c)
        PROVE  author[i] = d /\ db'[i].trigs \cap Modes = db[i].trigs \cap Modes
    <3>1. CASE i = client
      <4>1. d # None
        BY ConstantsOK
      <4>2. db'[i].trigs = c.trigs
        BY <1>0, <2>2, <3>1 DEF ClientCommit, TypeOK, Contents
      <4>3. author'[i] = IF c.trigs \cap Modes = db[i].trigs \cap Modes
                         THEN author[i] ELSE None
        BY <1>0, <2>2, <3>1 DEF ClientCommit, TypeOK
      <4> QED
        BY <4>1, <4>2, <4>3
    <3>2. CASE i # client
      BY <1>0, <2>2, <3>2 DEF ClientCommit, TypeOK
    <3> QED
      BY <3>1, <3>2
  <2> QED
    BY <2>1, <2>2
<1>2. CASE Replace
  <2>1. author' = author /\ path' > path /\ path' \in Inodes
    BY <1>0, <1>2 DEF Replace, Replacements
  <2>2. author[path'] = None
    BY <1>0, <2>1 DEF PastOnly
  <2>3. i # path'
    BY <2>1, <2>2, ConstantsOK
  <2>4. db'[i] = db[i]
    BY <1>0, <1>2, <2>3 DEF Replace, TypeOK
  <2> QED
    BY <2>1, <2>3, <2>4
<1> QED
  BY <1>1, <1>2

\* The client and a new file at the path keep both parts.
LEMMA OutcomeElsewhereStep ==
  ASSUME OutcomeInv, ~SwapBack, ClientNext \/ Replace
  PROVE  SeenAsItIs' /\ HonestOutcome'
<1>0. TypeOK /\ PastOnly /\ SeenAsItIs /\ HonestOutcome /\ path \in Inodes
  BY DEF OutcomeInv, IInv, TypeOK
<1>1. UNCHANGED <<pc, mode, result>>
  BY DEF ClientNext, ClientOpen, ClientClose, ClientInsert, ClientMigrate,
         ClientAddTrigger, ClientDropTrigger, ClientCommit, Replace, input
<1>2. ASSUME NEW i \in Inodes, NEW d \in Doctors, author'[i] = d
      PROVE  /\ author[i] = d /\ (path' # path => i # path')
             /\ db'[i].trigs \cap Modes = db[i].trigs \cap Modes
  BY <1>2, AuthorElsewhere DEF OutcomeInv
<1>3. SeenAsItIs'
  <2> SUFFICES ASSUME NEW i \in Inodes, NEW d \in Doctors, author'[i] = d
               PROVE  /\ pc[d] = "raised" => mode[d] \in Modes /\ mode[d] \in db'[i].trigs
                      /\ pc[d] = "rbRaised" =>
                           mode[d] \in DoctorTriggers /\ mode[d] \notin db'[i].trigs
    BY <1>1 DEF SeenAsItIs
  <2>1. author[i] = d /\ db'[i].trigs \cap Modes = db[i].trigs \cap Modes
    BY <1>2
  <2>2. mode[d] \in DoctorTriggers => mode[d] \in Modes
    <3>1. mode[d] \in Modes \cup {None}
      BY <1>0 DEF TypeOK
    <3> QED
      BY <3>1, ConstantsOK DEF DoctorTriggers
  <2> QED
    BY <1>0, <2>1, <2>2 DEF SeenAsItIs
<1>4. HonestOutcome'
  <2> SUFFICES ASSUME NEW d \in Doctors, pc[d] = "done", author'[path'] = d
               PROVE  result[d] \in HonestResults
    BY <1>1 DEF HonestOutcome, HonestResults
  <2>1. path' \in Inodes
    BY <1>0
    DEF ClientNext, ClientOpen, ClientClose, ClientInsert, ClientMigrate,
        ClientAddTrigger, ClientDropTrigger, ClientCommit, Replace, Replacements
  <2>2. author[path] = d
    BY <1>2, <2>1
  <2> QED
    BY <1>0, <2>2 DEF HonestOutcome, HonestResults
<1> QED
  BY <1>3, <1>4

\* Any number of doctors, whatever fails: a command whose COMMIT made the present
\* state of the database does not end with an ordinary refusal or a no-op.
THEOREM OutcomesAreHonest == ASSUME ~SwapBack PROVE Spec => []HonestOutcome
<1>1. Init => OutcomeInv
  BY InitInv, ConstantsOK DEF Init, OutcomeInv, SeenAsItIs, HonestOutcome
<1>2. OutcomeInv /\ [Next]_vars => OutcomeInv'
  <2> SUFFICES ASSUME OutcomeInv, [Next]_vars PROVE OutcomeInv'
    OBVIOUS
  <2>1. IInv'
    BY InvStep DEF OutcomeInv
  <2>2. CASE Next
    BY <2>1, <2>2, SeenStep, HonestStep, OutcomeElsewhereStep DEF Next, OutcomeInv
  <2>3. CASE UNCHANGED vars
    BY <2>1, <2>3 DEF vars, world, input, OutcomeInv, SeenAsItIs, HonestOutcome
  <2> QED
    BY <2>2, <2>3
<1>3. OutcomeInv => HonestOutcome
  BY DEF OutcomeInv
<1> QED
  BY <1>1, <1>2, <1>3, PTL DEF Spec
=============================================================================
