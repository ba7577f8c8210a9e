-------------------------- MODULE Mitigation_proofs --------------------------
(***************************************************************************)
(* Proofs about Mitigation for every number of doctors, files, schemas,     *)
(* triggers and writes: type correctness; then, when no file returns to the *)
(* path, that IInv is inductive, and that Recoverable, CommitFollowsBackup   *)
(* and CommitOnPlannedTarget follow.                                        *)
(***************************************************************************)
EXTENDS MitigationInv, TLAPS

USE DEF Step, Finish

-----------------------------------------------------------------------------
(* Type correctness *)

\* A step that only moves the program counter keeps every variable's type.
LEMMA QuietStepType ==
  ASSUME TypeOK, NEW d \in Doctors, NEW p \in Pcs,
         pc' = [pc EXCEPT ![d] = p],
         UNCHANGED <<world, conn, input, before, artifacts, result>>
  PROVE  TypeOK'
BY DEF TypeOK, world, input, artifacts

\* Ending a command keeps the types of the variables that Finish assigns.
LEMMA FinishType ==
  ASSUME TypeOK, NEW d \in Doctors, NEW r \in Results, Finish(d, r)
  PROVE  /\ pc' \in [Doctors -> Pcs]
         /\ conn' \in [Doctors -> Inodes \cup {0}]
         /\ before' \in [Doctors -> Nat]
         /\ result' \in [Doctors -> Results]
BY DEF TypeOK, Pcs

\* The same for a command that ends and leaves the world and the artifacts alone.
LEMMA QuietFinishType ==
  ASSUME TypeOK, NEW d \in Doctors, NEW r \in Results, Finish(d, r),
         UNCHANGED <<world, input, artifacts>>
  PROVE  TypeOK'
BY FinishType DEF TypeOK, world, input, artifacts

\* A commit by a doctor leaves a well-formed file.
LEMMA CommitType ==
  ASSUME TypeOK, NEW d \in Doctors, NEW i \in Inodes, NEW ts \in SUBSET Triggers,
         Commit(d, i, ts)
  PROVE  /\ path' \in Inodes
         /\ db' \in [Inodes -> Contents]
         /\ client' \in Inodes \cup {0}
         /\ author' \in [Inodes -> Doctors \cup {None}]
BY DEF TypeOK, Commit, Contents

\* A commit by the client does too.
LEMMA ClientCommitType ==
  ASSUME TypeOK, NEW c \in Contents, ClientCommit(c)
  PROVE  TypeOK'
BY DEF TypeOK, ClientCommit, Contents, input, artifacts

\* The fingerprint of a file's content is a fingerprint.
LEMMA FingerprintType ==
  ASSUME NEW c \in Contents
  PROVE  Fingerprint(c) \in Fingerprints
BY DEF Contents, Fingerprint, Fingerprints

\* The initial state is well typed.
LEMMA InitType ==
  ASSUME Init PROVE TypeOK
<1>1. 1 \in Inodes
  BY ConstantsOK DEF Inodes
<1>2. db \in [Inodes -> Contents]
  BY DEF Init, Contents
<1> QED
  BY <1>1, <1>2 DEF Init, TypeOK, Pcs, Results

\* plan keeps the types.
LEMMA PlanType ==
  ASSUME TypeOK, NEW d \in Doctors, PlanNext(d)
  PROVE  TypeOK'
<1> USE DEF Pcs, ActivePcs, PrePcs, PlanPcs, world, input, artifacts
<1>1. CASE \E m \in Modes : PlanRead(d, m)
  BY <1>1, FingerprintType DEF TypeOK, PlanRead
<1>2. CASE PlanIdentity(d)
  BY <1>2 DEF TypeOK, PlanIdentity
<1> QED
  BY <1>1, <1>2 DEF PlanNext

\* apply keeps the types, because an apply always has a mode to install.
LEMMA ApplyType ==
  ASSUME TypeOK, NEW d \in Doctors, ModeOK(d), ApplyNext(d)
  PROVE  TypeOK'
<1> USE DEF Pcs, ActivePcs, PrePcs, PostPcs, TxnPcs, ApplyPrePcs, ApplyTxnPcs,
            ApplyPostPcs, world, input, artifacts
<1>1. CASE \/ ApplyTarget(d) \/ ApplyGate1(d) \/ ApplyPreflight(d)
          \/ ApplySteady(d) \/ ApplyGate2(d) \/ ApplyBegin(d) \/ ApplyGate3(d)
          \/ ApplyRecheck(d) \/ ApplyCreate(d) \/ ApplyVerify(d)
  BY <1>1, QuietStepType
  DEF
    ApplyTarget, ApplyGate1, ApplyPreflight, ApplySteady, ApplyGate2,
    ApplyBegin, ApplyGate3, ApplyRecheck, ApplyCreate, ApplyVerify
<1>2. CASE \/ ApplyAlreadyThere(d) \/ ApplyAlreadyThereLocked(d)
          \/ ApplyOutcomeNotCommitted(d) \/ ApplyOutcomeRecovery(d)
          \/ ApplyClose(d)
  BY <1>2, QuietFinishType
  DEF
    ApplyAlreadyThere, ApplyAlreadyThereLocked, ApplyOutcomeNotCommitted,
    ApplyOutcomeRecovery, ApplyClose, Results
<1>3. CASE ApplyMeasure(d) \/ ApplyBackup(d)
  BY <1>3 DEF ApplyMeasure, ApplyBackup, TypeOK, Contents
<1>4. CASE ApplyPrepareManifest(d) \/ ApplyConnect(d) \/ ApplySealManifest(d)
  BY <1>4 DEF ApplyPrepareManifest, ApplyConnect, ApplySealManifest, TypeOK
<1>5. CASE ApplyCommit(d) \/ ApplyCommitRaises(d)
  <2>1. pc[d] = "created" /\ mode[d] \in Modes
    BY <1>5 DEF ApplyCommit, ApplyCommitRaises, ModeOK
  <2>2. CASE conn[d] \in Inodes
    <3>1. db[conn[d]].trigs \cup {mode[d]} \in SUBSET Triggers
      BY <2>1, <2>2 DEF TypeOK, Contents, Triggers, DoctorTriggers
    <3>2. CASE Install(d)
      BY <1>5, <2>2, <3>1, <3>2, CommitType
      DEF ApplyCommit, ApplyCommitRaises, Install, TypeOK
    <3>3. CASE UNCHANGED world
      BY <1>5, <3>3 DEF ApplyCommit, ApplyCommitRaises, TypeOK
    <3> QED
      BY <1>5, <3>2, <3>3 DEF ApplyCommit, ApplyCommitRaises
  <2>3. CASE conn[d] \notin Inodes
    BY <1>5, <2>3 DEF ApplyCommit, ApplyCommitRaises, Install, Commit, TypeOK
  <2> QED
    BY <2>2, <2>3
<1> QED
  BY <1>1, <1>2, <1>3, <1>4, <1>5 DEF ApplyNext

\* rollback keeps the types.
LEMMA RbType ==
  ASSUME TypeOK, NEW d \in Doctors, RbNext(d)
  PROVE  TypeOK'
<1> USE DEF Pcs, ActivePcs, PrePcs, PostPcs, TxnPcs, RbPrePcs, RbTxnPcs,
            RbPostPcs, world, input, artifacts
<1>1. CASE \/ RbGate1(d) \/ RbTarget(d) \/ RbPreflight(d) \/ RbSteady(d)
          \/ RbGate2(d) \/ RbBegin(d) \/ RbGate3(d) \/ RbRecheck(d)
          \/ RbDrop(d) \/ RbAbsentLocked(d) \/ RbVerify(d)
  BY <1>1, QuietStepType
  DEF
    RbGate1, RbTarget, RbPreflight, RbSteady, RbGate2, RbBegin, RbGate3,
    RbRecheck, RbDrop, RbAbsentLocked, RbVerify
<1>2. CASE \/ RbOutcomeNotCommitted(d) \/ RbOutcomeReconcile(d)
  BY <1>2, QuietFinishType DEF RbOutcomeNotCommitted, RbOutcomeReconcile, Results
<1>3. CASE \E m \in Doctors : RbLoad(d, m)
  BY <1>3 DEF RbLoad, TypeOK
<1>4. CASE RbMeasure(d) \/ RbBackup(d)
  BY <1>4 DEF RbMeasure, RbBackup, TypeOK, Contents
<1>5. CASE RbPreflightAbsent(d) \/ RbConnect(d) \/ RbClose(d) \/ RbSealManifest(d)
  BY <1>5
  DEF RbPreflightAbsent, RbConnect, RbClose, RbSealManifest, SealRolledBack, TypeOK
<1>6. CASE RbSealAbsent(d) \/ RbRecord(d)
  BY <1>6, FinishType DEF RbSealAbsent, RbRecord, SealRolledBack, TypeOK, Results
<1>7. CASE RbCommit(d) \/ RbCommitRaises(d)
  <2>1. CASE conn[d] \in Inodes
    <3>1. db[conn[d]].trigs \ {mode[d]} \in SUBSET Triggers
      BY <2>1 DEF TypeOK, Contents
    <3>2. CASE Remove(d)
      BY <1>7, <2>1, <3>1, <3>2, CommitType
      DEF RbCommit, RbCommitRaises, Remove, TypeOK
    <3>3. CASE UNCHANGED world
      BY <1>7, <3>3 DEF RbCommit, RbCommitRaises, TypeOK
    <3> QED
      BY <1>7, <3>2, <3>3 DEF RbCommit, RbCommitRaises
  <2>2. CASE conn[d] \notin Inodes
    BY <1>7, <2>2 DEF RbCommit, RbCommitRaises, Remove, Commit, TypeOK
  <2> QED
    BY <2>1, <2>2
<1> QED
  BY <1>1, <1>2, <1>3, <1>4, <1>5, <1>6, <1>7 DEF RbNext

\* Failures and crashes keep the types.
LEMMA FailType ==
  ASSUME TypeOK, NEW d \in Doctors, FailNext(d)
  PROVE  TypeOK'
<1>1. CASE FailBeforeCommit(d) \/ ApplyFailAfterCommit(d) \/ RbFailAfterCommit(d)
  BY <1>1, QuietFinishType
  DEF FailBeforeCommit, ApplyFailAfterCommit, RbFailAfterCommit, Results
<1>2. CASE Crash(d)
  BY <1>2 DEF Crash, TypeOK, Pcs, world, input, artifacts
<1> QED
  BY <1>1, <1>2 DEF FailNext

\* Every write of the client commits well-formed content and adds no exact
\* doctor trigger.
LEMMA ClientWrites ==
  ASSUME TypeOK,
         ClientInsert \/ ClientMigrate \/ ClientAddTrigger \/ ClientDropTrigger
  PROVE  \E c \in Contents :
           /\ client \in Inodes /\ ClientCommit(c)
           /\ c.trigs \cap Modes \subseteq db[client].trigs
<1>1. client \in Inodes /\ db[client] \in Contents
  BY DEF ClientInsert, ClientMigrate, ClientAddTrigger, ClientDropTrigger, TypeOK
<1>2. CASE ClientInsert
  BY <1>1, <1>2 DEF ClientInsert
<1>3. CASE ClientMigrate
  <2>1. PICK s \in Schemas, ts \in {{}, db[client].trigs} :
          ClientCommit([db[client] EXCEPT !.schema = s, !.trigs = ts])
    BY <1>3 DEF ClientMigrate
  <2>2. [db[client] EXCEPT !.schema = s, !.trigs = ts] \in Contents
    BY <1>1 DEF Contents
  <2>3. [db[client] EXCEPT !.schema = s, !.trigs = ts].trigs = ts
    BY <1>1 DEF Contents
  <2> QED
    BY <1>1, <2>1, <2>2, <2>3
<1>4. CASE ClientAddTrigger
  <2>1. PICK t \in StrayTriggers \cup ForeignTriggers :
          ClientCommit([db[client] EXCEPT !.trigs = @ \cup {t}])
    BY <1>4 DEF ClientAddTrigger
  <2>2. [db[client] EXCEPT !.trigs = @ \cup {t}] \in Contents
    BY <1>1 DEF Contents, Triggers, DoctorTriggers
  <2>3. [db[client] EXCEPT !.trigs = @ \cup {t}].trigs = db[client].trigs \cup {t}
    BY <1>1 DEF Contents
  <2>4. t \notin Modes
    BY ConstantsOK
  <2> QED
    BY <1>1, <2>1, <2>2, <2>3, <2>4
<1>5. CASE ClientDropTrigger
  <2>1. PICK t \in db[client].trigs :
          ClientCommit([db[client] EXCEPT !.trigs = @ \ {t}])
    BY <1>5 DEF ClientDropTrigger
  <2>2. [db[client] EXCEPT !.trigs = @ \ {t}] \in Contents
    BY <1>1 DEF Contents
  <2>3. [db[client] EXCEPT !.trigs = @ \ {t}].trigs = db[client].trigs \ {t}
    BY <1>1 DEF Contents
  <2> QED
    BY <1>1, <2>1, <2>2, <2>3
<1> QED
  BY <1>2, <1>3, <1>4, <1>5

\* The environment keeps the types.
LEMMA EnvironmentType ==
  ASSUME TypeOK, ClientNext \/ Replace
  PROVE  TypeOK'
<1>1. CASE ClientOpen \/ ClientClose
  BY <1>1 DEF ClientOpen, ClientClose, TypeOK, input, artifacts
<1>2. CASE ClientInsert \/ ClientMigrate \/ ClientAddTrigger \/ ClientDropTrigger
  BY <1>2, ClientWrites, ClientCommitType
<1>3. CASE Replace
  BY <1>3 DEF Replace, Replacements, CarriedOver, TypeOK, Contents, input, artifacts
<1> QED
  BY <1>1, <1>2, <1>3 DEF ClientNext

\* An apply has one of the modes from its plan to its commit.
LEMMA ModeStep ==
  ASSUME TypeOK, \A d \in Doctors : ModeOK(d), Next
  PROVE  \A d \in Doctors : ModeOK(d)'
<1> SUFFICES ASSUME NEW e \in Doctors PROVE ModeOK(e)'
  OBVIOUS
<1> USE DEF ModeOK, TypeOK, world, input, artifacts, ApplyPrePcs, ApplyTxnPcs
<1>1. ASSUME NEW d \in Doctors, PlanNext(d) PROVE ModeOK(e)'
  BY <1>1 DEF PlanNext, PlanRead, PlanIdentity
<1>2. ASSUME NEW d \in Doctors, ApplyNext(d) PROVE ModeOK(e)'
  BY <1>2
  DEF ApplyNext,
      ApplyTarget, ApplyGate1, ApplyPreflight, ApplySteady, ApplyGate2,
      ApplyBegin, ApplyGate3, ApplyRecheck, ApplyCreate, ApplyVerify,
      ApplyAlreadyThere, ApplyAlreadyThereLocked, ApplyOutcomeNotCommitted,
      ApplyOutcomeRecovery, ApplyClose, ApplyMeasure, ApplyBackup,
      ApplyPrepareManifest, ApplyConnect, ApplySealManifest, ApplyCommit,
      ApplyCommitRaises
<1>3. ASSUME NEW d \in Doctors, RbNext(d) PROVE ModeOK(e)'
  BY <1>3
  DEF RbNext,
      RbGate1, RbTarget, RbPreflight, RbSteady, RbGate2, RbBegin, RbGate3,
      RbRecheck, RbDrop, RbAbsentLocked, RbVerify, RbOutcomeNotCommitted,
      RbOutcomeReconcile, RbLoad, RbMeasure, RbBackup, RbPreflightAbsent,
      RbConnect, RbClose, RbSealManifest, RbSealAbsent, RbRecord, RbCommit,
      RbCommitRaises
<1>4. ASSUME NEW d \in Doctors, FailNext(d) PROVE ModeOK(e)'
  BY <1>4
  DEF FailNext, FailBeforeCommit, ApplyFailAfterCommit, RbFailAfterCommit, Crash
<1>5. CASE ClientNext \/ Replace
  BY <1>5
  DEF ClientNext, ClientOpen, ClientClose, ClientInsert, ClientMigrate,
      ClientAddTrigger, ClientDropTrigger, ClientCommit, Replace
<1> QED
  BY <1>1, <1>2, <1>3, <1>4, <1>5 DEF Next, DoctorNext

\* Every variable stays in its type in every reachable state, for every value
\* of the constants: no step of plan, apply, rollback, the client or a crash
\* leaves a malformed file, manifest status or result.
THEOREM TypeCorrect == Spec => []TypeOK
<1> DEFINE TInv == TypeOK /\ \A d \in Doctors : ModeOK(d)
<1>1. Init => TInv
  BY InitType DEF Init, ModeOK, PlanPcs, ApplyPrePcs, ApplyTxnPcs
<1>2. TInv /\ [Next]_vars => TInv'
  <2> SUFFICES ASSUME TInv, [Next]_vars PROVE TInv'
    OBVIOUS
  <2>1. CASE Next
    BY <2>1, PlanType, ApplyType, RbType, FailType, EnvironmentType, ModeStep
    DEF Next, DoctorNext
  <2>2. CASE UNCHANGED vars
    BY <2>2 DEF vars, world, input, artifacts, TypeOK, ModeOK
  <2> QED
    BY <2>1, <2>2
<1>3. TInv => TypeOK
  OBVIOUS
<1> QED
  BY <1>1, <1>2, <1>3, PTL DEF Spec

-----------------------------------------------------------------------------
(* What one step can do to the state around a doctor *)

\* A doctor's step leaves every other doctor's own state alone, the path and
\* the client too, and takes no manifest away.
LEMMA OthersUntouched ==
  ASSUME TypeOK, NEW d \in Doctors, DoctorNext(d)
  PROVE  /\ path' = path /\ client' = client
         /\ \A e \in Doctors \ {d} :
              /\ pc'[e] = pc[e] /\ conn'[e] = conn[e] /\ before'[e] = before[e]
              /\ mode'[e] = mode[e] /\ ident'[e] = ident[e] /\ fp'[e] = fp[e]
              /\ backup'[e] = backup[e]
         /\ \A e \in Doctors : manifest[e] # "none" => manifest'[e] # "none"
<1> USE DEF TypeOK, world, input, artifacts
<1>1. CASE PlanNext(d)
  BY <1>1 DEF PlanNext, PlanRead, PlanIdentity
<1>2. CASE ApplyNext(d)
  BY <1>2
  DEF Install, Commit,
      ApplyNext, ApplyTarget, ApplyGate1, ApplyPreflight, ApplySteady,
      ApplyGate2, ApplyBegin, ApplyGate3, ApplyRecheck, ApplyCreate,
      ApplyVerify, ApplyAlreadyThere, ApplyAlreadyThereLocked,
      ApplyOutcomeNotCommitted, ApplyOutcomeRecovery, ApplyClose,
      ApplyMeasure, ApplyBackup, ApplyPrepareManifest, ApplyConnect,
      ApplySealManifest, ApplyCommit, ApplyCommitRaises
<1>3. CASE RbNext(d)
  BY <1>3
  DEF Remove, Commit, SealRolledBack,
      RbNext, RbGate1, RbTarget, RbPreflight, RbSteady, RbGate2, RbBegin,
      RbGate3, RbRecheck, RbDrop, RbAbsentLocked, RbVerify,
      RbOutcomeNotCommitted, RbOutcomeReconcile, RbLoad, RbMeasure, RbBackup,
      RbPreflightAbsent, RbConnect, RbClose, RbSealManifest, RbSealAbsent,
      RbRecord, RbCommit, RbCommitRaises
<1>4. CASE FailNext(d)
  BY <1>4 DEF FailNext, FailBeforeCommit, ApplyFailAfterCommit, RbFailAfterCommit, Crash
<1> QED
  BY <1>1, <1>2, <1>3, <1>4 DEF DoctorNext

\* Only a COMMIT changes a file or its author.
LEMMA OnlyCommitWrites ==
  ASSUME NEW d \in Doctors, DoctorNext(d)
  PROVE  \/ db' = db /\ author' = author
         \/ pc[d] = "created" /\ Install(d)
         \/ pc[d] = "rbDropped" /\ Remove(d)
<1> USE DEF world
<1>1. CASE PlanNext(d)
  BY <1>1 DEF PlanNext, PlanRead, PlanIdentity
<1>2. CASE ApplyNext(d)
  BY <1>2
  DEF
      ApplyNext, ApplyTarget, ApplyGate1, ApplyPreflight, ApplySteady,
      ApplyGate2, ApplyBegin, ApplyGate3, ApplyRecheck, ApplyCreate,
      ApplyVerify, ApplyAlreadyThere, ApplyAlreadyThereLocked,
      ApplyOutcomeNotCommitted, ApplyOutcomeRecovery, ApplyClose,
      ApplyMeasure, ApplyBackup, ApplyPrepareManifest, ApplyConnect,
      ApplySealManifest, ApplyCommit, ApplyCommitRaises
<1>3. CASE RbNext(d)
  BY <1>3
  DEF
      RbNext, RbGate1, RbTarget, RbPreflight, RbSteady, RbGate2, RbBegin,
      RbGate3, RbRecheck, RbDrop, RbAbsentLocked, RbVerify,
      RbOutcomeNotCommitted, RbOutcomeReconcile, RbLoad, RbMeasure, RbBackup,
      RbPreflightAbsent, RbConnect, RbClose, RbSealManifest, RbSealAbsent,
      RbRecord, RbCommit, RbCommitRaises
<1>4. CASE FailNext(d)
  BY <1>4 DEF FailNext, FailBeforeCommit, ApplyFailAfterCommit, RbFailAfterCommit, Crash
<1> QED
  BY <1>1, <1>2, <1>3, <1>4 DEF DoctorNext

-----------------------------------------------------------------------------
(* Facts about doctors that did not take the step *)

\* Another doctor's step does not touch a file whose lock e holds, and a file
\* it does change has a larger stamp.
LEMMA CommitElsewhere ==
  ASSUME TypeOK, LockExclusive, NEW d \in Doctors, NEW e \in Doctors \ {d},
         DoctorNext(d)
  PROVE  /\ (pc[e] \in TxnPcs /\ conn[e] \in Inodes) => db'[conn[e]] = db[conn[e]]
         /\ \A i \in Inodes : db'[i] = db[i] \/ db'[i].ver = db[i].ver + 1
<1>1. ASSUME NEW ts, pc[d] \in TxnPcs, Commit(d, conn[d], ts)
      PROVE  /\ (pc[e] \in TxnPcs /\ conn[e] \in Inodes)
                   => db'[conn[e]] = db[conn[e]]
             /\ \A i \in Inodes : db'[i] = db[i] \/ db'[i].ver = db[i].ver + 1
  <2>1. \A i \in Inodes : i # conn[d] => db'[i] = db[i]
    BY <1>1 DEF Commit, TypeOK
  <2>2. conn[d] \in Inodes => db'[conn[d]].ver = db[conn[d]].ver + 1
    BY <1>1 DEF Commit, TypeOK, Contents
  <2>3. pc[e] \in TxnPcs => conn[e] # conn[d]
    BY <1>1 DEF LockExclusive
  <2> QED
    BY <2>1, <2>2, <2>3
<1>2. CASE db' = db
  BY <1>2
<1> QED
  BY <1>1, <1>2, OnlyCommitWrites DEF Install, Remove, TxnPcs, ApplyTxnPcs, RbTxnPcs

\* The client never writes past a lock, and its writes enlarge the stamp.
LEMMA ClientElsewhere ==
  ASSUME TypeOK, NEW e \in Doctors, ClientNext
  PROVE  /\ path' = path
         /\ (pc[e] \in TxnPcs /\ conn[e] \in Inodes) => db'[conn[e]] = db[conn[e]]
         /\ \A i \in Inodes : db'[i] = db[i] \/ db'[i].ver = db[i].ver + 1
<1>1. CASE ClientOpen \/ ClientClose
  BY <1>1 DEF ClientOpen, ClientClose
<1>2. ASSUME NEW c \in Contents, ClientCommit(c), client \in Inodes
      PROVE  /\ path' = path
             /\ (pc[e] \in TxnPcs /\ conn[e] \in Inodes)
                   => db'[conn[e]] = db[conn[e]]
             /\ \A i \in Inodes : db'[i] = db[i] \/ db'[i].ver = db[i].ver + 1
  <2>1. \A i \in Inodes : i # client => db'[i] = db[i]
    BY <1>2 DEF ClientCommit, TypeOK
  <2>2. pc[e] \in TxnPcs => conn[e] # client
    BY <1>2 DEF ClientCommit, Locked
  <2>3. db'[client].ver = db[client].ver + 1
    BY <1>2 DEF ClientCommit, TypeOK, Contents
  <2> QED
    BY <1>2, <2>1, <2>2, <2>3 DEF ClientCommit
<1> QED
  BY <1>1, <1>2, ClientWrites DEF ClientNext

\* What holds of e keeps holding while others act: either the path stays and
\* its file, if changed, has a larger stamp, or the path has moved on for good.
LEMMA OtherDoctorOK ==
  ASSUME TypeOK, NEW e \in Doctors, DoctorOK(e), ident[e] <= path,
         path' \in Inodes,
         pc'[e] = pc[e], conn'[e] = conn[e], before'[e] = before[e],
         mode'[e] = mode[e], ident'[e] = ident[e], fp'[e] = fp[e],
         backup'[e] = backup[e],
         manifest[e] # "none" => manifest'[e] # "none",
         \/ path' = path /\ (db'[path] = db[path] \/ db'[path].ver = db[path].ver + 1)
         \/ path' > path,
         (pc[e] \in TxnPcs /\ conn[e] \in Inodes) => db'[conn[e]] = db[conn[e]]
  PROVE  DoctorOK(e)'
<1>1. path \in Nat /\ path' \in Nat /\ ident[e] \in Nat /\ before[e] \in Nat
  BY DEF TypeOK, Inodes
<1>2. db[path].ver \in Nat
  BY DEF TypeOK, Contents
<1>3. ModeOK(e)' /\ ManifestOK(e)'
  BY DEF DoctorOK, ModeOK, ManifestOK
<1>4. MeasuredOK(e)' /\ ConnectedOK(e)'
  BY <1>1, <1>2 DEF DoctorOK, MeasuredOK, ConnectedOK
<1>5. BackedOK(e)'
  <2> SUFFICES ASSUME pc[e] \in BackedPcs, path' = ident[e] PROVE
        /\ backup[e] \in Contents
        /\ before[e] <= backup[e].ver /\ backup[e].ver <= db'[path'].ver
        /\ backup[e].ver = db'[path'].ver => backup[e] = db'[path']
    BY DEF BackedOK
  <2>1. path' = path
    BY <1>1
  <2>2. backup[e] \in Contents /\ backup[e].ver \in Nat
    BY <2>1 DEF DoctorOK, BackedOK, Contents
  <2> QED
    BY <1>1, <1>2, <2>1, <2>2 DEF DoctorOK, BackedOK
<1>6. CheckedOK(e)' /\ CreatedOK(e)' /\ DroppedOK(e)'
  BY DEF DoctorOK, CheckedOK, CreatedOK, DroppedOK, CheckedPcs, TxnPcs,
         ApplyTxnPcs, RbTxnPcs
<1> QED
  BY <1>3, <1>4, <1>5, <1>6 DEF DoctorOK

-----------------------------------------------------------------------------
(* What a doctor's own step establishes *)

\* How d gets to its measured points, and what it keeps on the way.
MeasureFacts(d) ==
  pc'[d] \in MeasuredPcs =>
    /\ db' = db /\ path' = path /\ ident'[d] = ident[d]
    /\ \/ pc[d] \in {"preflighted", "rbPreflighted"} /\ before'[d] = db[path].ver
       \/ pc[d] \in MeasuredPcs /\ before'[d] = before[d]

\* How d gets to its backed-up points, and what it keeps on the way.
BackupFacts(d) ==
  pc'[d] \in BackedPcs =>
    \/ pc[d] \in {"measured", "rbMeasured"} /\ backup'[d] = db[path]
    \/ pc[d] \in BackedPcs /\ backup'[d] = backup[d]

\* How d passes its last rechecks, and what it keeps after them.
CheckFacts(d) ==
  /\ pc'[d] \in CheckedPcs =>
       /\ db' = db /\ conn'[d] = conn[d] /\ ident'[d] = ident[d]
       /\ backup'[d] = backup[d] /\ fp'[d] = fp[d] /\ mode'[d] = mode[d]
       /\ \/ /\ pc[d] \in {"gated3", "rbGated3"}
             /\ db[path].ver = before[d] /\ path = ident[d]
          \/ pc[d] \in CheckedPcs
  /\ pc'[d] = "created" =>
       /\ Fingerprint(db[conn[d]]) = fp[d]
       /\ db[conn[d]].trigs = {}
  /\ pc'[d] = "rbDropped" =>
       /\ Fingerprint(db[conn[d]]) = fp[d]
       /\ db[conn[d]].trigs \cap DoctorTriggers = {mode[d]}

\* A transaction starts by BEGIN EXCLUSIVE on a file nobody has locked.
LockFacts(d) ==
  pc'[d] \in TxnPcs =>
    /\ conn'[d] = conn[d]
    /\ pc[d] \in TxnPcs \/ ~Locked(conn[d])

\* Identities and connections come from the path, or from a manifest.
IdentityFacts(d) ==
  /\ ident'[d] \in {ident[d], path} \cup {ident[m] : m \in Doctors}
  /\ conn'[d] \in {conn[d], path, 0}

\* A command that has committed stays so; a commit, and whatever comes after
\* it, leaves what the manifest says alone.
EndFacts(d) ==
  /\ pc[d] \in EndPcs => pc'[d] \in EndPcs
  /\ (author' # author \/ db' # db) =>
       pc'[d] \in {"committed", "raised", "rbCommitted", "rbRaised"}
  /\ pc[d] \in EndPcs \cup {"created"} =>
       /\ ident'[d] = ident[d] /\ mode'[d] = mode[d] /\ backup'[d] = backup[d]

\* The facts above, with the parts of DoctorOK that follow at once, for each
\* command of the program.
LEMMA OwnStep ==
  ASSUME TypeOK, PastOnly, NEW d \in Doctors, DoctorOK(d), DoctorNext(d)
  PROVE  /\ ModeOK(d)' /\ ManifestOK(d)' /\ ConnectedOK(d)'
         /\ MeasureFacts(d) /\ BackupFacts(d) /\ CheckFacts(d)
         /\ LockFacts(d) /\ IdentityFacts(d) /\ EndFacts(d)
<1> USE DEF TypeOK, PastOnly, DoctorOK, world, input, artifacts,
           ConnectedPcs, BackedPcs, MeasuredPcs, CheckedPcs, ManifestPcs, EndPcs, PostPcs,
           ApplyPostPcs, RbPostPcs, PrePcs, PlanPcs, ApplyPrePcs, RbPrePcs, TxnPcs,
           ApplyTxnPcs, RbTxnPcs, ActivePcs
<1>1. CASE PlanNext(d)
  <2> USE DEF PlanNext, PlanRead, PlanIdentity
  <2>1. ModeOK(d)'
    BY <1>1 DEF ModeOK
  <2>2. ManifestOK(d)'
    BY <1>1 DEF ManifestOK
  <2>3. ConnectedOK(d)'
    BY <1>1 DEF ConnectedOK
  <2>4. MeasureFacts(d)
    BY <1>1 DEF MeasureFacts
  <2>5. BackupFacts(d)
    BY <1>1 DEF BackupFacts
  <2>6. CheckFacts(d)
    BY <1>1 DEF CheckFacts, NoConflict
  <2>7. LockFacts(d)
    BY <1>1 DEF LockFacts
  <2>8. IdentityFacts(d)
    BY <1>1 DEF IdentityFacts
  <2>9. EndFacts(d)
    BY <1>1 DEF EndFacts
  <2> QED
    BY <2>1, <2>2, <2>3, <2>4, <2>5, <2>6, <2>7, <2>8, <2>9
<1>2. CASE ApplyNext(d)
  <2> USE DEF ApplyNext, ApplyTarget, ApplyGate1, ApplyPreflight, ApplySteady,
             ApplyGate2, ApplyBegin, ApplyGate3, ApplyRecheck, ApplyCreate,
             ApplyVerify, ApplyAlreadyThere, ApplyAlreadyThereLocked,
             ApplyOutcomeNotCommitted, ApplyOutcomeRecovery, ApplyClose,
             ApplyMeasure, ApplyBackup, ApplyPrepareManifest, ApplyConnect,
             ApplySealManifest, ApplyCommit, ApplyCommitRaises
  <2>1. ModeOK(d)'
    BY <1>2 DEF ModeOK
  <2>2. ManifestOK(d)'
    BY <1>2 DEF ManifestOK
  <2>3. ConnectedOK(d)'
    BY <1>2 DEF ConnectedOK
  <2>4. MeasureFacts(d)
    BY <1>2 DEF MeasureFacts
  <2>5. BackupFacts(d)
    BY <1>2 DEF BackupFacts
  <2>6. CheckFacts(d)
    BY <1>2 DEF CheckFacts, NoConflict
  <2>7. LockFacts(d)
    BY <1>2 DEF LockFacts
  <2>8. IdentityFacts(d)
    BY <1>2 DEF IdentityFacts
  <2>9. EndFacts(d)
    BY <1>2 DEF EndFacts
  <2> QED
    BY <2>1, <2>2, <2>3, <2>4, <2>5, <2>6, <2>7, <2>8, <2>9
<1>3. CASE RbNext(d)
  <2> USE DEF RbNext, RbGate1, RbTarget, RbPreflight, RbSteady, RbGate2,
             RbBegin, RbGate3, RbRecheck, RbDrop, RbAbsentLocked, RbVerify,
             RbOutcomeNotCommitted, RbOutcomeReconcile, RbLoad, RbMeasure,
             RbBackup, RbPreflightAbsent, RbConnect, RbClose, RbSealManifest,
             RbSealAbsent, RbRecord, RbCommit, RbCommitRaises
  <2>1. ModeOK(d)'
    BY <1>3 DEF ModeOK
  <2>2. ManifestOK(d)'
    BY <1>3 DEF ManifestOK
  <2>3. ConnectedOK(d)'
    BY <1>3 DEF ConnectedOK
  <2>4. MeasureFacts(d)
    BY <1>3 DEF MeasureFacts
  <2>5. BackupFacts(d)
    BY <1>3 DEF BackupFacts
  <2>6. CheckFacts(d)
    BY <1>3 DEF CheckFacts, NoConflict
  <2>7. LockFacts(d)
    BY <1>3 DEF LockFacts
  <2>8. IdentityFacts(d)
    BY <1>3 DEF IdentityFacts
  <2>9. EndFacts(d)
    BY <1>3 DEF EndFacts
  <2> QED
    BY <2>1, <2>2, <2>3, <2>4, <2>5, <2>6, <2>7, <2>8, <2>9
<1>4. CASE FailNext(d)
  <2> USE DEF FailNext, FailBeforeCommit, ApplyFailAfterCommit, RbFailAfterCommit,
             Crash
  <2>1. ModeOK(d)'
    BY <1>4 DEF ModeOK
  <2>2. ManifestOK(d)'
    BY <1>4 DEF ManifestOK
  <2>3. ConnectedOK(d)'
    BY <1>4 DEF ConnectedOK
  <2>4. MeasureFacts(d)
    BY <1>4 DEF MeasureFacts
  <2>5. BackupFacts(d)
    BY <1>4 DEF BackupFacts
  <2>6. CheckFacts(d)
    BY <1>4 DEF CheckFacts, NoConflict
  <2>7. LockFacts(d)
    BY <1>4 DEF LockFacts
  <2>8. IdentityFacts(d)
    BY <1>4 DEF IdentityFacts
  <2>9. EndFacts(d)
    BY <1>4 DEF EndFacts
  <2> QED
    BY <2>1, <2>2, <2>3, <2>4, <2>5, <2>6, <2>7, <2>8, <2>9
<1> QED
  BY <1>1, <1>2, <1>3, <1>4 DEF DoctorNext

\* storage_before_backup is never ahead of the file.
LEMMA OwnMeasuredOK ==
  ASSUME TypeOK, PastOnly, NEW d \in Doctors, DoctorOK(d), DoctorNext(d)
  PROVE  MeasuredOK(d)'
<1>1. db[path].ver \in Nat
  BY DEF TypeOK, Contents
<1> QED
  BY <1>1, OwnStep DEF MeasureFacts, DoctorOK, MeasuredOK

\* The backup is no older than the measurement, and an equal stamp means equal
\* content.
LEMMA OwnBackedOK ==
  ASSUME TypeOK, PastOnly, NEW d \in Doctors, DoctorOK(d), DoctorNext(d)
  PROVE  BackedOK(d)'
<1> SUFFICES ASSUME pc'[d] \in BackedPcs, path' = ident'[d] PROVE
      /\ backup'[d] \in Contents
      /\ before'[d] <= backup'[d].ver /\ backup'[d].ver <= db'[path'].ver
      /\ backup'[d].ver = db'[path'].ver => backup'[d] = db'[path']
  BY DEF BackedOK
<1>1. db' = db /\ path' = path /\ ident'[d] = ident[d]
  BY OwnStep DEF MeasureFacts, MeasuredPcs
<1>2. CASE pc[d] \in {"measured", "rbMeasured"} /\ backup'[d] = db[path]
  <2>1. before'[d] = before[d]
    BY <1>2, OwnStep DEF MeasureFacts, MeasuredPcs
  <2>2. before[d] <= db[path].ver
    BY <1>1, <1>2 DEF DoctorOK, MeasuredOK, MeasuredPcs
  <2>3. db[path] \in Contents /\ db[path].ver \in Nat
    BY DEF TypeOK, Contents
  <2> QED
    BY <1>1, <1>2, <2>1, <2>2, <2>3
<1>3. CASE pc[d] \in BackedPcs /\ backup'[d] = backup[d]
  <2>1. before'[d] = before[d]
    BY <1>3, OwnStep DEF MeasureFacts, MeasuredPcs, BackedPcs, ConnectedPcs
  <2> QED
    BY <1>1, <1>3, <2>1 DEF DoctorOK, BackedOK
<1> QED
  BY <1>2, <1>3, OwnStep DEF BackupFacts

\* Past the rechecks the connection is on the planned file, whose content is
\* the published backup.
LEMMA OwnCheckedOK ==
  ASSUME TypeOK, PastOnly, NEW d \in Doctors, DoctorOK(d), DoctorNext(d)
  PROVE  CheckedOK(d)' /\ CreatedOK(d)' /\ DroppedOK(d)'
<1>1. CASE pc'[d] \notin CheckedPcs
  BY <1>1 DEF CheckedOK, CreatedOK, DroppedOK, CheckedPcs
<1>2. CASE pc'[d] \in CheckedPcs /\ pc[d] \in CheckedPcs
  BY <1>2, OwnStep DEF CheckFacts, DoctorOK, CheckedOK, CreatedOK, DroppedOK
<1>3. CASE pc'[d] \in CheckedPcs /\ pc[d] \in {"gated3", "rbGated3"}
  <2>1. db[path].ver = before[d] /\ path = ident[d]
    BY <1>3, OwnStep DEF CheckFacts, CheckedPcs
  <2>2. conn[d] = path
    BY <1>3, <2>1 DEF DoctorOK, ConnectedOK, ConnectedPcs
  <2>3. backup[d] = db[path]
    <3>1. /\ backup[d] \in Contents
          /\ before[d] <= backup[d].ver /\ backup[d].ver <= db[path].ver
          /\ backup[d].ver = db[path].ver => backup[d] = db[path]
      BY <1>3, <2>1 DEF DoctorOK, BackedOK, BackedPcs, ConnectedPcs
    <3>2. backup[d].ver \in Nat /\ before[d] \in Nat
      BY <3>1 DEF TypeOK, Contents
    <3> QED
      BY <2>1, <3>1, <3>2
  <2>4. path \in Inodes
    BY DEF TypeOK
  <2> QED
    BY <1>3, <2>1, <2>2, <2>3, <2>4, OwnStep
    DEF CheckFacts, CheckedOK, CreatedOK, DroppedOK
<1> QED
  BY <1>1, <1>2, <1>3, OwnStep DEF CheckFacts

-----------------------------------------------------------------------------
(* Each conjunct of the invariant is kept *)

\* BEGIN EXCLUSIVE keeps transactions on one file apart.
LEMMA LockStep ==
  ASSUME IInv, Next
  PROVE  LockExclusive'
<1>0. TypeOK /\ PastOnly /\ LockExclusive /\ \A d \in Doctors : DoctorOK(d)
  BY DEF IInv
<1>1. ASSUME NEW d \in Doctors, DoctorNext(d) PROVE LockExclusive'
  <2>1. ASSUME NEW e \in Doctors \ {d}, pc'[e] \in TxnPcs, pc'[d] \in TxnPcs
        PROVE  conn'[e] # conn'[d]
    <3>1. pc[e] \in TxnPcs /\ conn'[e] = conn[e]
      BY <1>0, <1>1, <2>1, OthersUntouched
    <3>2. conn'[d] = conn[d] /\ (pc[d] \in TxnPcs \/ ~Locked(conn[d]))
      BY <1>0, <1>1, <2>1, OwnStep DEF LockFacts
    <3> QED
      BY <1>0, <3>1, <3>2 DEF LockExclusive, Locked
  <2> QED
    BY <1>0, <1>1, <2>1, OthersUntouched DEF LockExclusive
<1>2. CASE ClientNext \/ Replace
  BY <1>0, <1>2
  DEF LockExclusive, ClientNext, ClientOpen, ClientClose, ClientInsert,
      ClientMigrate, ClientAddTrigger, ClientDropTrigger, ClientCommit, Replace
<1> QED
  BY <1>1, <1>2 DEF Next

\* Nothing refers to a file that has not yet been at the path.
LEMMA PastStep ==
  ASSUME IInv, ~SwapBack, Next
  PROVE  PastOnly'
<1>0. /\ TypeOK /\ PastOnly /\ \A d \in Doctors : DoctorOK(d)
      /\ path \in Nat /\ client \in Nat /\ \A i \in Inodes : i \in Nat
  BY DEF IInv, TypeOK, Inodes
<1>1. ASSUME NEW d \in Doctors, DoctorNext(d) PROVE PastOnly'
  <2>1. path' = path /\ client' = client
    BY <1>0, <1>1, OthersUntouched
  <2>2. \A e \in Doctors : conn'[e] <= path /\ ident'[e] <= path
    BY <1>0, <1>1, OthersUntouched, OwnStep
    DEF IdentityFacts, PastOnly
  <2>3. \A i \in Inodes : i > path => author'[i] = author[i]
    <3>1. conn[d] <= path /\ conn[d] \in Nat
      BY <1>0 DEF PastOnly, TypeOK, Inodes
    <3>2. \A i \in Inodes : i > path => i # conn[d]
      BY <1>0, <3>1
    <3>3. author' = author \/ author' = [author EXCEPT ![conn[d]] = d]
      BY <1>0, <1>1, OnlyCommitWrites DEF Install, Remove, Commit
    <3> QED
      BY <1>0, <3>2, <3>3 DEF TypeOK
  <2> QED
    BY <1>0, <2>1, <2>2, <2>3 DEF PastOnly
<1>2. CASE ClientNext
  <2>1. path' = path /\ UNCHANGED <<conn, ident>> /\ client' \in {client, path, 0}
    BY <1>0, <1>2
    DEF ClientNext, ClientOpen, ClientClose, ClientInsert, ClientMigrate,
        ClientAddTrigger, ClientDropTrigger, ClientCommit, input
  <2>2. \A i \in Inodes : i > path => author'[i] = author[i]
    <3>1. client <= path
      BY <1>0 DEF PastOnly
    <3>2. author' = author \/ \E c \in Contents : ClientCommit(c)
      BY <1>0, <1>2, ClientWrites DEF ClientNext, ClientOpen, ClientClose
    <3> QED
      BY <1>0, <3>1, <3>2 DEF ClientCommit, TypeOK
  <2> QED
    BY <1>0, <2>1, <2>2 DEF PastOnly
<1>3. CASE Replace
  <2>1. path' > path /\ path' \in Nat /\ UNCHANGED <<client, author, conn, ident>>
    BY <1>0, <1>3 DEF Replace, Replacements, input, Inodes
  <2>2. ASSUME NEW d \in Doctors PROVE conn[d] \in Nat /\ ident[d] \in Nat
    <3>1. conn[d] \in Inodes \cup {0} /\ ident[d] \in Inodes \cup {0}
      BY <1>0 DEF TypeOK
    <3> QED
      BY <1>0, <3>1
  <2> QED
    BY <1>0, <2>1, <2>2 DEF PastOnly
<1> QED
  BY <1>0, <1>1, <1>2, <1>3 DEF Next

\* Authors have committed: their command is past its commit point.
LEMMA AuthorStep ==
  ASSUME IInv, Next
  PROVE  AuthorEnded'
<1>0. TypeOK /\ PastOnly /\ AuthorEnded /\ \A d \in Doctors : DoctorOK(d)
  BY DEF IInv
<1>1. ASSUME NEW d \in Doctors, DoctorNext(d) PROVE AuthorEnded'
  <2> SUFFICES ASSUME NEW i \in Inodes, NEW e \in Doctors, author'[i] = e
               PROVE  pc'[e] \in EndPcs
    BY <1>0 DEF AuthorEnded
  <2>1. CASE author[i] = e
    <3>1. pc[e] \in EndPcs
      BY <1>0, <2>1 DEF AuthorEnded
    <3> QED
      BY <1>0, <1>1, <3>1, OwnStep, OthersUntouched DEF EndFacts
  <2>2. CASE author[i] # e
    <3>1. e = d /\ author' # author
      BY <1>0, <1>1, <2>2, OnlyCommitWrites DEF Install, Remove, Commit, TypeOK
    <3> QED
      BY <1>0, <1>1, <3>1, OwnStep
      DEF EndFacts, EndPcs, PostPcs, ApplyPostPcs, RbPostPcs
  <2> QED
    BY <1>0, <2>1, <2>2
<1>2. CASE ClientNext \/ Replace
  <2>1. pc' = pc
    BY <1>0, <1>2
    DEF ClientNext, ClientOpen, ClientClose, ClientInsert, ClientMigrate,
        ClientAddTrigger, ClientDropTrigger, ClientCommit, Replace
  <2>2. \A i \in Inodes : author'[i] \in {author[i], None}
    <3>1. author' = author \/ \E c \in Contents : ClientCommit(c)
      BY <1>0, <1>2, ClientWrites DEF ClientNext, ClientOpen, ClientClose, Replace
    <3> QED
      BY <1>0, <3>1 DEF ClientCommit, TypeOK
  <2> QED
    BY <1>0, <2>1, <2>2, ConstantsOK DEF AuthorEnded
<1> QED
  BY <1>0, <1>1, <1>2 DEF Next

\* Every doctor's part of the invariant is kept, whoever steps.
LEMMA DoctorStep ==
  ASSUME IInv, TypeOK', ~SwapBack, Next, NEW e \in Doctors
  PROVE  DoctorOK(e)'
<1>0. TypeOK /\ PastOnly /\ LockExclusive /\ DoctorOK(e) /\ ident[e] <= path
  BY DEF IInv, PastOnly
<1>1. ASSUME NEW d \in Doctors, DoctorNext(d), d = e PROVE DoctorOK(e)'
  BY <1>0, <1>1, OwnStep, OwnMeasuredOK, OwnBackedOK, OwnCheckedOK
  DEF DoctorOK
<1>2. ASSUME NEW d \in Doctors, DoctorNext(d), d # e PROVE DoctorOK(e)'
  <2>1. path \in Inodes /\ path' \in Inodes
    BY <1>0 DEF TypeOK
  <2> QED
    BY <1>0, <1>2, <2>1, OthersUntouched, CommitElsewhere, OtherDoctorOK
<1>3. CASE ClientNext
  <2>1. UNCHANGED <<pc, conn, before, mode, ident, fp, backup, manifest>>
    BY <1>3
    DEF ClientNext, ClientOpen, ClientClose, ClientInsert, ClientMigrate,
        ClientAddTrigger, ClientDropTrigger, ClientCommit, input, artifacts
  <2>2. path \in Inodes /\ path' \in Inodes
    BY <1>0 DEF TypeOK
  <2> QED
    BY <1>0, <1>3, <2>1, <2>2, ClientElsewhere, OtherDoctorOK
<1>4. CASE Replace
  <2>1. /\ UNCHANGED <<pc, conn, before, mode, ident, fp, backup, manifest>>
        /\ path' \in Inodes /\ path' > path
    BY <1>4 DEF Replace, Replacements, input, artifacts
  <2>2. \A i \in Inodes : i # path' => db'[i] = db[i]
    BY <1>0, <1>4 DEF Replace, TypeOK
  <2>3. conn[e] # path'
    BY <1>0, <2>1 DEF PastOnly, TypeOK, Inodes
  <2> QED
    BY <1>0, <2>1, <2>2, <2>3, OtherDoctorOK
<1> QED
  BY <1>1, <1>2, <1>3, <1>4 DEF Next

\* A trigger just installed is recoverable; a removed one needs nothing.
LEMMA CommitRecoverable ==
  ASSUME IInv, NEW d \in Doctors, DoctorNext(d), NEW i \in Inodes, i = conn[d],
         db'[i].trigs \cap Modes # {},
         \/ pc[d] = "created" /\ Install(d)
         \/ pc[d] = "rbDropped" /\ Remove(d)
  PROVE  /\ author'[i] = d
         /\ manifest'[d] # "none"
         /\ ident'[d] = i
         /\ mode'[d] \in db'[i].trigs
         /\ backup'[d] \in Contents
         /\ backup'[d].trigs \cap DoctorTriggers = {}
<1>0. TypeOK /\ PastOnly /\ DoctorOK(d)
  BY DEF IInv
<1>1. CASE pc[d] = "created" /\ Install(d)
  <2>1. manifest[d] # "none" /\ conn[d] = ident[d] /\ backup[d] = db[i]
    BY <1>0, <1>1
    DEF DoctorOK, ManifestOK, ManifestPcs, ApplyTxnPcs, CheckedOK, CheckedPcs
  <2>2. db[i].trigs = {} /\ db[i] \in Contents
    BY <1>0, <1>1 DEF DoctorOK, CreatedOK, TypeOK
  <2>3. author'[i] = d /\ db'[i].trigs = {mode[d]}
    BY <1>0, <1>1, <2>2 DEF Install, Commit, TypeOK, Contents
  <2>4. manifest'[d] # "none"
    BY <1>0, <2>1, OthersUntouched
  <2>5. ident'[d] = ident[d] /\ mode'[d] = mode[d] /\ backup'[d] = backup[d]
    BY <1>0, <1>1, OwnStep DEF EndFacts
  <2> QED
    BY <2>1, <2>2, <2>3, <2>4, <2>5
<1>2. CASE pc[d] = "rbDropped" /\ Remove(d)
  <2>1. db[i].trigs \cap DoctorTriggers = {mode[d]}
    BY <1>0, <1>2 DEF DoctorOK, DroppedOK
  <2>2. db'[i].trigs = db[i].trigs \ {mode[d]}
    BY <1>0, <1>2 DEF Remove, Commit, TypeOK, Contents
  <2>3. FALSE
    BY <2>1, <2>2 DEF DoctorTriggers
  <2> QED
    BY <2>3
<1> QED
  BY <1>1, <1>2

\* Recoverability is kept by every step.
LEMMA RecoverableStep ==
  ASSUME IInv, TypeOK', ~SwapBack, Next
  PROVE  Recoverable'
<1>0. /\ TypeOK /\ PastOnly /\ AuthorEnded /\ Recoverable
      /\ \A d \in Doctors : DoctorOK(d)
  BY DEF IInv
<1> SUFFICES ASSUME NEW i \in Inodes, NEW e \in Doctors,
                    author'[i] = e, db'[i].trigs \cap Modes # {}
             PROVE  /\ manifest'[e] # "none"
                    /\ ident'[e] = i
                    /\ mode'[e] \in db'[i].trigs
                    /\ backup'[e] \in Contents
                    /\ backup'[e].trigs \cap DoctorTriggers = {}
  BY DEF Recoverable
<1>1. ASSUME NEW d \in Doctors, DoctorNext(d), author[i] = e, db'[i] = db[i]
      PROVE  /\ manifest'[e] # "none"
             /\ ident'[e] = i
             /\ mode'[e] \in db'[i].trigs
             /\ backup'[e] \in Contents
             /\ backup'[e].trigs \cap DoctorTriggers = {}
  <2>1. /\ manifest[e] # "none" /\ ident[e] = i /\ mode[e] \in db[i].trigs
        /\ backup[e] \in Contents /\ backup[e].trigs \cap DoctorTriggers = {}
    BY <1>0, <1>1 DEF Recoverable
  <2>2. ident'[e] = ident[e] /\ mode'[e] = mode[e] /\ backup'[e] = backup[e]
    BY <1>0, <1>1, OthersUntouched, OwnStep DEF EndFacts, AuthorEnded
  <2>3. manifest'[e] # "none"
    BY <1>0, <1>1, <2>1, OthersUntouched
  <2> QED
    BY <1>1, <2>1, <2>2, <2>3
<1>2. ASSUME NEW d \in Doctors, DoctorNext(d)
      PROVE  /\ manifest'[e] # "none"
             /\ ident'[e] = i
             /\ mode'[e] \in db'[i].trigs
             /\ backup'[e] \in Contents
             /\ backup'[e].trigs \cap DoctorTriggers = {}
  <2>1. CASE db' = db /\ author' = author
    BY <1>1, <1>2, <2>1
  <2>2. CASE \/ pc[d] = "created" /\ Install(d)
             \/ pc[d] = "rbDropped" /\ Remove(d)
    <3>1. CASE i = conn[d]
      <4>1. author'[i] = d
        BY <1>2, <2>2, <3>1, CommitRecoverable
      <4>2. e = d
        BY <4>1
      <4> QED
        BY <1>2, <2>2, <3>1, <4>2, CommitRecoverable
    <3>2. CASE i # conn[d]
      <4>1. author[i] = e /\ db'[i] = db[i]
        BY <1>0, <2>2, <3>2 DEF Install, Remove, Commit, TypeOK
      <4> QED
        BY <1>1, <1>2, <4>1
    <3> QED
      BY <3>1, <3>2
  <2> QED
    BY <1>2, <2>1, <2>2, OnlyCommitWrites
<1>3. CASE ClientNext \/ Replace
  <2>1. UNCHANGED <<mode, ident, backup, manifest>>
    BY <1>3
    DEF ClientNext, ClientOpen, ClientClose, ClientInsert, ClientMigrate,
        ClientAddTrigger, ClientDropTrigger, ClientCommit, Replace, input, artifacts
  <2>2. author[i] = e /\ db[i].trigs \cap Modes = db'[i].trigs \cap Modes
    <3>1. CASE db' = db /\ author' = author
      BY <3>1
    <3>2. ASSUME NEW c \in Contents, client \in Inodes, ClientCommit(c)
          PROVE  author[i] = e /\ db[i].trigs \cap Modes = db'[i].trigs \cap Modes
      <4>1. CASE i # client
        BY <1>0, <3>2, <4>1 DEF ClientCommit, TypeOK
      <4>2. CASE i = client
        <5>1. db'[i].trigs = c.trigs
          BY <1>0, <3>2, <4>2 DEF ClientCommit, TypeOK, Contents
        <5>2. author'[i] = IF c.trigs \cap Modes = db[i].trigs \cap Modes
                           THEN author[i] ELSE None
          BY <1>0, <3>2, <4>2 DEF ClientCommit, TypeOK
        <5> QED
          BY <5>1, <5>2, ConstantsOK
      <4> QED
        BY <4>1, <4>2
    <3>3. CASE Replace
      <4>1. author' = author
        BY <3>3 DEF Replace
      <4>2. path' > path /\ i # path' => db'[i] = db[i]
        BY <1>0, <3>3 DEF Replace, TypeOK
      <4>3. path' > path
        BY <3>3 DEF Replace, Replacements
      <4>4. i # path'
        BY <1>0, <4>1, <4>3, ConstantsOK DEF PastOnly
      <4> QED
        BY <4>1, <4>2, <4>3, <4>4
    <3> QED
      BY <1>0, <1>3, <3>1, <3>2, <3>3, ClientWrites DEF ClientNext, ClientOpen, ClientClose
  <2>3. mode[e] \in Modes
    BY <1>0, <2>2, ConstantsOK
    DEF Recoverable, TypeOK, Contents, Triggers, DoctorTriggers
  <2> QED
    BY <1>0, <2>1, <2>2, <2>3 DEF Recoverable
<1> QED
  BY <1>2, <1>3 DEF Next

-----------------------------------------------------------------------------
(* The theorems *)

\* IInv holds initially.
LEMMA InitInv ==
  ASSUME Init PROVE IInv
<1>1. TypeOK
  BY InitType
<1>2. PastOnly /\ LockExclusive /\ AuthorEnded /\ Recoverable
  BY ConstantsOK
  DEF Init, PastOnly, LockExclusive, AuthorEnded, Recoverable, TxnPcs, ApplyTxnPcs,
      RbTxnPcs
<1>3. \A d \in Doctors : DoctorOK(d)
  BY DEF Init, DoctorOK, ModeOK, MeasuredOK, BackedOK, ConnectedOK, ManifestOK,
         CheckedOK, CreatedOK, DroppedOK, MeasuredPcs, BackedPcs, ConnectedPcs,
         ManifestPcs, CheckedPcs, ApplyPrePcs, ApplyTxnPcs
<1> QED
  BY <1>1, <1>2, <1>3 DEF IInv

\* IInv is inductive as long as no file returns to the path.
LEMMA InvStep ==
  ASSUME IInv, ~SwapBack, [Next]_vars
  PROVE  IInv'
<1>1. CASE Next
  <2>1. TypeOK'
    BY <1>1, PlanType, ApplyType, RbType, FailType, EnvironmentType
    DEF IInv, DoctorOK, Next, DoctorNext
  <2>2. PastOnly' /\ LockExclusive' /\ AuthorEnded'
    BY <1>1, PastStep, LockStep, AuthorStep DEF IInv
  <2>3. \A e \in Doctors : DoctorOK(e)'
    BY <1>1, <2>1, DoctorStep
  <2>4. Recoverable'
    BY <1>1, <2>1, RecoverableStep
  <2> QED
    BY <2>1, <2>2, <2>3, <2>4 DEF IInv
<1>2. CASE UNCHANGED vars
  BY <1>2
  DEF vars, world, input, artifacts, IInv, TypeOK, PastOnly, LockExclusive, AuthorEnded,
      Recoverable, DoctorOK, ModeOK, MeasuredOK, BackedOK, ConnectedOK, ManifestOK,
      CheckedOK, CreatedOK, DroppedOK
<1> QED
  BY <1>1, <1>2

\* The inductive invariant holds in every reachable state of every instance in
\* which a replaced file does not come back.
THEOREM Invariance == ASSUME ~SwapBack PROVE Spec => []IInv
<1>1. Init => IInv
  BY InitInv
<1>2. IInv /\ [Next]_vars => IInv'
  BY InvStep
<1> QED
  BY <1>1, <1>2, PTL DEF Spec

\* Wherever apply has installed its trigger, whatever failed or was killed since
\* then, a manifest that rollback accepts and a clean backup are on disk.
THEOREM AlwaysRecoverable == ASSUME ~SwapBack PROVE Spec => []Recoverable
<1>1. IInv => Recoverable
  BY DEF IInv
<1> QED
  BY <1>1, Invariance, PTL

\* What the invariant says of the file at the moment a COMMIT becomes durable.
LEMMA CommitFacts ==
  ASSUME IInv, Next, NEW d \in Doctors, NEW i \in Inodes, Commits(d, i)
  PROVE  /\ backup[d] = db[i]
         /\ i = ident[d]
         /\ Fingerprint(db[i]) = fp[d]
         /\ \/ db[i].trigs = {} /\ db'[i].trigs = {mode[d]}
            \/ /\ db[i].trigs \cap DoctorTriggers = {mode[d]}
               /\ db'[i].trigs = db[i].trigs \ {mode[d]}
<1>0. TypeOK /\ DoctorOK(d)
  BY DEF IInv
<1>1. CASE ClientNext \/ Replace
  <2>1. author' = author \/ \E c \in Contents : ClientCommit(c)
    BY <1>0, <1>1, ClientWrites DEF ClientNext, ClientOpen, ClientClose, Replace
  <2>2. author'[i] \in {author[i], None}
    BY <1>0, <2>1 DEF ClientCommit, TypeOK
  <2> QED
    BY <2>2, ConstantsOK DEF Commits
<1>2. ASSUME NEW e \in Doctors, DoctorNext(e)
      PROVE  /\ i = conn[d]
             /\ \/ pc[d] = "created" /\ Install(d)
                \/ pc[d] = "rbDropped" /\ Remove(d)
  <2>1. \/ pc[e] = "created" /\ Install(e)
        \/ pc[e] = "rbDropped" /\ Remove(e)
    BY <1>2, OnlyCommitWrites DEF Commits
  <2>2. e = d /\ i = conn[d]
    BY <1>0, <2>1 DEF Commits, Install, Remove, Commit, TypeOK
  <2> QED
    BY <2>1, <2>2
<1>3. CASE i = conn[d] /\ pc[d] = "created" /\ Install(d)
  BY <1>0, <1>3
  DEF DoctorOK, CheckedOK, CheckedPcs, CreatedOK, Install, Commit, TypeOK, Contents
<1>4. CASE i = conn[d] /\ pc[d] = "rbDropped" /\ Remove(d)
  BY <1>0, <1>4
  DEF DoctorOK, CheckedOK, CheckedPcs, DroppedOK, Remove, Commit, TypeOK, Contents
<1> QED
  BY <1>1, <1>2, <1>3, <1>4 DEF Next

\* Every COMMIT of a doctor changes exactly the content it has backed up.
THEOREM BackupFirst == ASSUME ~SwapBack PROVE Spec => CommitFollowsBackup
<1>1. IInv /\ [Next]_vars =>
        [\A d \in Doctors, i \in Inodes : Commits(d, i) => backup[d] = db[i]]_vars
  BY CommitFacts
<1> QED
  BY <1>1, Invariance, PTL DEF Spec, CommitFollowsBackup

\* Every COMMIT of a doctor lands on the file and base schema it was planned
\* for and adds or removes exactly the one trigger.
THEOREM PlannedTargetOnly == ASSUME ~SwapBack PROVE Spec => CommitOnPlannedTarget
<1>1. IInv /\ [Next]_vars =>
        [\A d \in Doctors, i \in Inodes :
           Commits(d, i) =>
             /\ i = ident[d]
             /\ Fingerprint(db[i]) = fp[d]
             /\ \/ db[i].trigs = {} /\ db'[i].trigs = {mode[d]}
                \/ /\ db[i].trigs \cap DoctorTriggers = {mode[d]}
                   /\ db'[i].trigs = db[i].trigs \ {mode[d]}]_vars
  BY CommitFacts
<1> QED
  BY <1>1, Invariance, PTL DEF Spec, CommitOnPlannedTarget
=============================================================================
