----------------------- MODULE MitigationRefines_proofs -----------------------
(***************************************************************************)
(* Proof that with a rollback journal, and when no file returns to the path, *)
(* the protocol implements the lifecycle, and a manifest is sealed as        *)
(* rolled_back only when its trigger is not in the selected file.  In WAL    *)
(* mode neither holds (run wal_seal): there a read-only connection is opened  *)
(* beside an exclusive transaction.                                         *)
(***************************************************************************)
EXTENDS MitigationRefines, MitigationOutcome_proofs

USE DEF Step, Finish

PreparedPcs == ManifestPcs \cup {"committed", "verified"}

\* A rollback that is about to seal without a COMMIT of its own has a connection
\* that no other transaction shares, once that one has passed its third gate.
Alone(a) == pc[a] \in CheckedPcs \/ (Gated(a) /\ path = ident[a])

AbsentAlone ==
  \A a, b \in Doctors :
    (a # b /\ pc[b] = "rbAbsent" /\ Alone(a)) => conn[a] # conn[b]

\* What it has seen is still so.
AbsentSeen ==
  \A b \in Doctors : (pc[b] = "rbAbsent" /\ path = ident[b]) =>
    conn[b] = path /\ db[path].trigs \cap Modes = {}

\* A committed rollback leaves nothing of the apply it undoes.
UndoneGone ==
  \A b \in Doctors, i \in Inodes :
    (pc[b] \in RbPostPcs /\ author[i] = target[b]) => db[i].trigs \cap Modes = {}

\* An apply that goes on has its manifest.
PreparedOK == \A d \in Doctors : pc[d] \in PreparedPcs => manifest[d] # "none"

SealInv == RecordInv /\ AbsentAlone /\ AbsentSeen /\ UndoneGone /\ PreparedOK

-----------------------------------------------------------------------------
(* What a doctor's own step establishes *)

\* How a rollback finds the trigger absent.
AbsentFacts(d) ==
  pc'[d] = "rbAbsent" =>
    /\ db' = db /\ author' = author /\ ident'[d] = ident[d]
    /\ \/ /\ pc[d] = "rbTargeted" /\ Readable(path) /\ conn'[d] = path
          /\ db[path].trigs \cap DoctorTriggers = {}
       \/ /\ pc[d] = "rbRechecked" /\ conn'[d] = conn[d]
          /\ db[conn[d]].trigs \cap DoctorTriggers = {}

\* How a transaction passes its checks.
CheckedFacts(d) ==
  pc'[d] \in CheckedPcs =>
    /\ conn'[d] = conn[d]
    /\ Alone(d)

\* How an apply goes on.
PreparedFacts(d) ==
  pc'[d] \in PreparedPcs =>
    \/ pc[d] \in PreparedPcs
    \/ pc[d] = "gated2" /\ manifest' = [manifest EXCEPT ![d] = "prepared"]

\* The facts above, for each command of the program.
LEMMA SealOwnStep ==
  ASSUME TypeOK, NEW d \in Doctors, DoctorNext(d)
  PROVE  AbsentFacts(d) /\ CheckedFacts(d) /\ PreparedFacts(d)
<1> USE DEF TypeOK, world, input, artifacts, AbsentFacts, CheckedFacts, PreparedFacts,
           PreparedPcs, ManifestPcs, CheckedPcs, ApplyTxnPcs, Alone, Gated
<1>1. CASE PlanNext(d)
  BY <1>1 DEF PlanNext, PlanRead, PlanIdentity
<1>2. CASE ApplyNext(d)
  BY <1>2
  DEF ApplyNext, ApplyTarget, ApplyGate1, ApplyPreflight, ApplySteady,
      ApplyGate2, ApplyBegin, ApplyGate3, ApplyRecheck, ApplyCreate,
      ApplyVerify, ApplyAlreadyThere, ApplyAlreadyThereLocked,
      ApplyOutcomeNotCommitted, ApplyOutcomeRecovery, ApplyClose,
      ApplyMeasure, ApplyBackup, ApplyPrepareManifest, ApplyConnect,
      ApplySealManifest, ApplyCommit, ApplyCommitRaises
<1>3. CASE RbNext(d)
  BY <1>3
  DEF RbNext, RbGate1, RbTarget, RbPreflight, RbSteady, RbGate2, RbBegin,
      RbGate3, RbRecheck, RbDrop, RbAbsentLocked, RbVerify,
      RbOutcomeNotCommitted, RbOutcomeReconcile, RbLoad, RbMeasure, RbBackup,
      RbPreflightAbsent, RbConnect, RbClose, RbSealManifest, RbSealAbsent,
      RbRecord, RbCommit, RbCommitRaises
<1>4. CASE FailNext(d)
  BY <1>4 DEF FailNext, FailBeforeCommit, ApplyFailAfterCommit, RbFailAfterCommit, Crash
<1> QED
  BY <1>1, <1>2, <1>3, <1>4 DEF DoctorNext

-----------------------------------------------------------------------------
(* The steps *)

\* Who enters the absent path holds a file on which nobody has a transaction.
LEMMA AbsentEntry ==
  ASSUME IInv, ~WalMode, NEW b \in Doctors, DoctorNext(b), pc'[b] = "rbAbsent"
  PROVE  /\ \A a \in Doctors \ {b} : pc[a] \in TxnPcs => conn[a] # conn'[b]
         /\ db' = db /\ ident'[b] = ident[b]
         /\ path = ident[b] => conn'[b] = path /\ db[path].trigs \cap Modes = {}
<1>0. /\ TypeOK /\ LockExclusive /\ DoctorOK(b) /\ AbsentFacts(b)
  BY SealOwnStep DEF IInv
<1>1. CASE pc[b] = "rbTargeted" /\ Readable(path) /\ conn'[b] = path
             /\ db[path].trigs \cap DoctorTriggers = {}
  <2>1. \A a \in Doctors : pc[a] \in TxnPcs => conn[a] # path
    BY <1>1 DEF Readable, Locked
  <2> QED
    BY <1>0, <1>1, <2>1 DEF AbsentFacts, DoctorTriggers
<1>2. CASE pc[b] = "rbRechecked" /\ conn'[b] = conn[b]
             /\ db[conn[b]].trigs \cap DoctorTriggers = {}
  <2>1. pc[b] \in TxnPcs /\ conn[b] = ident[b]
    BY <1>0, <1>2 DEF TxnPcs, RbTxnPcs, DoctorOK, CheckedOK, CheckedPcs
  <2>2. \A a \in Doctors \ {b} : pc[a] \in TxnPcs => conn[a] # conn[b]
    BY <1>0, <2>1 DEF LockExclusive
  <2> QED
    BY <1>0, <1>2, <2>1, <2>2 DEF AbsentFacts, DoctorTriggers
<1> QED
  BY <1>0, <1>1, <1>2 DEF AbsentFacts

\* The connection of the absent path stays alone.
LEMMA AbsentAloneStep ==
  ASSUME SealInv, ~WalMode, NEW d \in Doctors, DoctorNext(d)
  PROVE  AbsentAlone'
<1>0. /\ IInv /\ TypeOK /\ AbsentAlone /\ DoctorOK(d)
      /\ CheckedFacts(d) /\ GateFacts(d)
  BY SealOwnStep, MutatorOwnStep DEF SealInv, RecordInv, MutatorInv, IInv
<1>1. /\ path' = path
      /\ \A e \in Doctors \ {d} :
           /\ pc'[e] = pc[e] /\ conn'[e] = conn[e] /\ ident'[e] = ident[e]
           /\ Alone(e)' <=> Alone(e)
  BY <1>0, OthersUntouched DEF Alone, Gated
<1> SUFFICES ASSUME NEW a \in Doctors, NEW b \in Doctors, a # b, pc'[b] = "rbAbsent",
                    Alone(a)'
             PROVE  conn'[a] # conn'[b]
  BY DEF AbsentAlone
<1>2. CASE b = d
  <2>1. pc[a] \in TxnPcs
    BY <1>1, <1>2 DEF Alone, Gated, CheckedPcs, TxnPcs, ApplyTxnPcs, RbTxnPcs
  <2> QED
    BY <1>0, <1>1, <1>2, <2>1, AbsentEntry
<1>3. CASE a = d
  <2>1. CASE pc'[d] \in CheckedPcs
    BY <1>0, <1>1, <1>3, <2>1 DEF CheckedFacts, AbsentAlone
  <2>2. CASE Gated(d)' /\ path = ident'[d]
    <3>1. conn'[d] = conn[d] /\ conn[d] = path /\ conn[b] # path
      BY <1>0, <1>1, <1>3, <2>2
      DEF GateFacts, GateClear, DoctorOK, ConnectedOK, ConnectedPcs
    <3> QED
      BY <1>1, <1>3, <3>1
  <2> QED
    BY <1>1, <1>3, <2>1, <2>2 DEF Alone
<1>4. CASE a # d /\ b # d
  BY <1>0, <1>1, <1>4 DEF AbsentAlone
<1> QED
  BY <1>2, <1>3, <1>4

\* Nobody installs a trigger behind the back of the absent path.
LEMMA AbsentSeenStep ==
  ASSUME SealInv, ~WalMode, NEW d \in Doctors, DoctorNext(d)
  PROVE  AbsentSeen'
<1>0. IInv /\ TypeOK /\ AbsentAlone /\ AbsentSeen /\ path' = path
  BY OthersUntouched DEF SealInv, RecordInv, MutatorInv, IInv
<1> SUFFICES ASSUME NEW b \in Doctors, pc'[b] = "rbAbsent", path = ident'[b]
             PROVE  conn'[b] = path /\ db'[path].trigs \cap Modes = {}
  BY <1>0 DEF AbsentSeen
<1>1. CASE b = d
  BY <1>0, <1>1, AbsentEntry
<1>2. CASE b # d
  <2>1. pc[b] = "rbAbsent" /\ conn'[b] = conn[b] /\ path = ident[b]
    BY <1>0, <1>2, OthersUntouched
  <2>2. conn[b] = path /\ db[path].trigs \cap Modes = {}
    BY <1>0, <2>1 DEF AbsentSeen
  <2>3. pc[d] \in {"created", "rbDropped"} => conn[d] # path
    BY <1>0, <1>2, <2>1, <2>2 DEF AbsentAlone, Alone, CheckedPcs
  <2>4. ASSUME NEW ts, pc[d] \in {"created", "rbDropped"}, Commit(d, conn[d], ts)
        PROVE  db'[path] = db[path]
    BY <1>0, <2>3, <2>4 DEF Commit, TypeOK
  <2>5. db'[path] = db[path]
    <3>1. CASE pc[d] = "created" /\ Install(d)
      BY <2>4, <3>1 DEF Install
    <3>2. CASE pc[d] = "rbDropped" /\ Remove(d)
      BY <2>4, <3>2 DEF Remove
    <3> QED
      BY <3>1, <3>2, OnlyCommitWrites
  <2> QED
    BY <2>1, <2>2, <2>5
<1> QED
  BY <1>1, <1>2

\* What a rollback has undone, the undone apply does not do again.
LEMMA UndoneGoneStep ==
  ASSUME SealInv, NEW d \in Doctors, DoctorNext(d)
  PROVE  UndoneGone'
<1>0. /\ IInv /\ TypeOK /\ Manifested /\ TargetOK /\ RecordOK /\ Recoverable
      /\ UndoneGone /\ DoctorOK(d) /\ RollbackFacts(d)
  BY ArtifactOwnStep DEF SealInv, RecordInv, MutatorInv, IInv
<1> SUFFICES ASSUME NEW b \in Doctors, NEW i \in Inodes, pc'[b] \in RbPostPcs,
                    author'[i] = target'[b]
             PROVE  db'[i].trigs \cap Modes = {}
  BY DEF UndoneGone
<1>1. /\ target'[b] = target[b] /\ target[b] \in Doctors
      /\ manifest[target[b]] # "none" /\ ident[b] = ident[target[b]]
      /\ \/ pc[b] \in RbPostPcs
         \/ b = d /\ pc[d] = "rbDropped" /\ Remove(d)
  <2>1. CASE b = d
    BY <1>0, <2>1 DEF RollbackFacts, TargetOK, RollbackPcs, RbPostPcs, RbTxnPcs
  <2>2. CASE b # d
    BY <1>0, <2>2, OthersUntouched, TargetsUntouched DEF TargetOK, RollbackPcs
  <2> QED
    BY <2>1, <2>2
<1>2. PICK m \in Doctors : target[b] = m /\ author'[i] = m /\ manifest[m] # "none"
                             /\ ident[b] = ident[m]
  BY <1>1
<1>3. pc[m] \in ApplyManifestPcs
  BY <1>0, <1>2 DEF Manifested
<1>4. CASE b = d /\ pc[d] = "rbDropped" /\ Remove(d)
  <2>1. m # d
    BY <1>3, <1>4 DEF ApplyManifestPcs, WaitingPcs, SealingPcs
  <2>2. author[i] = m /\ db'[i] = db[i]
    BY <1>0, <1>2, <2>1, AuthoredFileStays
  <2>3. i # conn[d]
    BY <1>0, <1>2, <1>4, <2>1 DEF Remove, Commit, TypeOK
  <2>4. conn[d] = ident[m]
    BY <1>0, <1>2, <1>4 DEF DoctorOK, CheckedOK, CheckedPcs
  <2> QED
    BY <1>0, <2>2, <2>3, <2>4 DEF Recoverable
<1>5. CASE pc[b] \in RbPostPcs
  <2>1. author[i] = m /\ db'[i] = db[i]
    <3>1. CASE m # d
      BY <1>0, <1>2, <3>1, AuthoredFileStays
    <3>2. CASE m = d
      <4>1. pc[m] \notin SealingPcs
        BY <1>0, <1>2, <1>5 DEF RecordOK, Outdated
      <4>2. pc[d] \notin {"created", "rbDropped"}
        BY <1>3, <3>2, <4>1 DEF ApplyManifestPcs, WaitingPcs, SealingPcs
      <4> QED
        BY <1>2, <4>2, OnlyCommitWrites
    <3> QED
      BY <3>1, <3>2
  <2> QED
    BY <1>0, <1>2, <1>5, <2>1 DEF UndoneGone
<1> QED
  BY <1>1, <1>4, <1>5

\* Applies keep their manifests.
LEMMA PreparedStep ==
  ASSUME SealInv, NEW d \in Doctors, DoctorNext(d)
  PROVE  PreparedOK'
<1>0. TypeOK /\ PreparedOK /\ PreparedFacts(d)
  BY SealOwnStep DEF SealInv, RecordInv, MutatorInv, IInv
<1> SUFFICES ASSUME NEW e \in Doctors, pc'[e] \in PreparedPcs
             PROVE  manifest'[e] # "none"
  BY DEF PreparedOK
<1>1. CASE pc[e] \in PreparedPcs
  BY <1>0, <1>1, OthersUntouched DEF PreparedOK
<1>2. CASE pc[e] \notin PreparedPcs
  <2>1. e = d
    BY <1>0, <1>2, OthersUntouched
  <2> QED
    BY <1>0, <1>2, <2>1 DEF PreparedFacts, TypeOK
<1> QED
  BY <1>1, <1>2

\* The client and a new file at the path keep all parts.
LEMMA SealElsewhereStep ==
  ASSUME SealInv, ~SwapBack, ClientNext \/ Replace
  PROVE  AbsentAlone' /\ AbsentSeen' /\ UndoneGone' /\ PreparedOK'
<1>0. /\ IInv /\ TypeOK /\ TargetOK
      /\ AbsentAlone /\ AbsentSeen /\ UndoneGone /\ PreparedOK
  BY DEF SealInv, RecordInv, MutatorInv, IInv
<1>1. UNCHANGED <<pc, conn, ident, target, manifest>>
  BY DEF ClientNext, ClientOpen, ClientClose, ClientInsert, ClientMigrate,
         ClientAddTrigger, ClientDropTrigger, ClientCommit, Replace, input, artifacts
<1>2. \A d \in Doctors : path' = ident[d] => path = ident[d]
  BY <1>0, NewFileIsNobodysPlan
<1>3. PreparedOK' /\ AbsentAlone'
  BY <1>0, <1>1, <1>2 DEF PreparedOK, AbsentAlone, Alone, Gated
<1>4. UndoneGone'
  <2> SUFFICES ASSUME NEW b \in Doctors, NEW i \in Inodes, pc[b] \in RbPostPcs,
                      author'[i] = target[b]
               PROVE  db'[i].trigs \cap Modes = {}
    BY <1>1 DEF UndoneGone
  <2>1. target[b] \in Doctors
    BY <1>0 DEF TargetOK, RollbackPcs
  <2>2. author[i] = target[b] /\ db'[i].trigs \cap Modes = db[i].trigs \cap Modes
    BY <1>0, <2>1, AuthorElsewhere
  <2> QED
    BY <1>0, <2>2 DEF UndoneGone
<1>5. AbsentSeen'
  <2> SUFFICES ASSUME NEW b \in Doctors, pc[b] = "rbAbsent", path' = ident[b]
               PROVE  conn[b] = path' /\ db'[path'].trigs \cap Modes = {}
    BY <1>1 DEF AbsentSeen
  <2>1. path = ident[b] /\ path' = path
    BY <1>2
  <2>2. conn[b] = path /\ db[path].trigs \cap Modes = {} /\ path \in Inodes
    BY <1>0, <2>1 DEF AbsentSeen, TypeOK
  <2>3. ~Replace
    BY <2>1, <2>2 DEF Replace, Replacements
  <2>4. db' = db \/ \E c \in Contents : /\ client \in Inodes /\ ClientCommit(c)
                                        /\ c.trigs \cap Modes \subseteq db[client].trigs
    BY <1>0, <2>3, ClientWrites DEF ClientNext, ClientOpen, ClientClose
  <2>5. db'[path].trigs \cap Modes \subseteq db[path].trigs
    <3>1. ASSUME NEW c \in Contents, client \in Inodes, ClientCommit(c),
                 c.trigs \cap Modes \subseteq db[client].trigs
          PROVE  db'[path].trigs \cap Modes \subseteq db[path].trigs
      <4>1. CASE client = path
        <5>1. db'[path].trigs = c.trigs
          BY <1>0, <3>1, <4>1 DEF ClientCommit, TypeOK, Contents
        <5> QED
          BY <3>1, <4>1, <5>1
      <4>2. CASE client # path
        BY <1>0, <3>1, <4>2 DEF ClientCommit, TypeOK
      <4> QED
        BY <4>1, <4>2
    <3> QED
      BY <2>4, <3>1
  <2> QED
    BY <2>1, <2>2, <2>5
<1> QED
  BY <1>3, <1>4, <1>5

\* The invariant holds in every reachable state.
THEOREM SealInvariance == ASSUME ~SwapBack, ~WalMode PROVE Spec => []SealInv
<1>1. Init => SealInv
  BY RecordInit
  DEF Init, SealInv, AbsentAlone, AbsentSeen, UndoneGone, PreparedOK, RbPostPcs,
      PreparedPcs, ManifestPcs, ApplyTxnPcs
<1>2. SealInv /\ [Next]_vars => SealInv'
  <2> SUFFICES ASSUME SealInv, [Next]_vars PROVE SealInv'
    OBVIOUS
  <2>1. RecordInv'
    BY RecordInvStep DEF SealInv
  <2>2. CASE Next
    BY <2>1, <2>2, AbsentAloneStep, AbsentSeenStep, UndoneGoneStep, PreparedStep,
       SealElsewhereStep
    DEF Next, SealInv
  <2>3. CASE UNCHANGED vars
    BY <2>1, <2>3
    DEF vars, world, input, artifacts, SealInv, AbsentAlone, AbsentSeen, UndoneGone,
        PreparedOK, Alone, Gated
  <2> QED
    BY <2>2, <2>3
<1> QED
  BY <1>1, <1>2, PTL DEF Spec

-----------------------------------------------------------------------------
(* What follows *)

\* A manifest becomes rolled_back only when nothing of its apply is in the file at
\* the path.
LEMMA SettleFacts ==
  ASSUME SealInv, NEW d \in Doctors, DoctorNext(d), NEW m \in Doctors, target[d] = m,
         pc[d] \in {"rbVerified", "rbAbsent"}, author[path] = m
  PROVE  db[path].trigs \cap Modes = {}
<1>0. /\ TypeOK /\ TargetOK /\ Recoverable /\ AbsentSeen /\ UndoneGone /\ path \in Inodes
  BY DEF SealInv, RecordInv, MutatorInv, IInv, TypeOK
<1>1. ident[d] = ident[m]
  BY <1>0 DEF TargetOK, RollbackPcs, RbPrePcs, RbPostPcs
<1>2. CASE pc[d] = "rbVerified"
  BY <1>0, <1>2 DEF UndoneGone, RbPostPcs
<1>3. CASE pc[d] = "rbAbsent"
  BY <1>0, <1>1, <1>3 DEF Recoverable, AbsentSeen
<1> QED
  BY <1>2, <1>3

\* With a rollback journal, when rollback seals a manifest as rolled_back, the
\* trigger that its apply installed is not in the database.
THEOREM SealsMatchState == ASSUME ~SwapBack, ~WalMode PROVE Spec => SealMatchesState
<1>1. ASSUME SealInv, [Next]_vars, NEW m \in Doctors, manifest[m] # "rolled_back",
             manifest'[m] = "rolled_back"
      PROVE  ~ (author[path] = m /\ mode[m] \in db[path].trigs)
  <2>0. TypeOK /\ path \in Inodes
    BY <1>1 DEF SealInv, RecordInv, MutatorInv, IInv, TypeOK
  <2>1. PICK d \in Doctors : DoctorNext(d)
    BY <1>1
    DEF Next, vars, artifacts, ClientNext, ClientOpen, ClientClose, ClientInsert,
        ClientMigrate, ClientAddTrigger, ClientDropTrigger, ClientCommit, Replace
  <2>2. target[d] = m /\ pc[d] \in {"rbVerified", "rbAbsent"}
    <3>1. ArtifactFacts(d)
      BY <2>0, <2>1, ArtifactOwnStep
    <3> QED
      BY <1>1, <2>0, <3>1 DEF ArtifactFacts, SealRolledBack, TypeOK
  <2>3. mode[m] \in db[path].trigs => mode[m] \in Modes
    <3>1. mode[m] \in Modes \cup {None} /\ db[path].trigs \subseteq Triggers
      BY <2>0 DEF TypeOK, Contents
    <3> QED
      BY <3>1, ConstantsOK DEF Triggers, DoctorTriggers
  <2> QED
    BY <1>1, <2>1, <2>2, <2>3, SettleFacts
<1>2. SealInv /\ [Next]_vars =>
        [\A m \in Doctors :
           (manifest[m] # "rolled_back" /\ manifest'[m] = "rolled_back") =>
             ~ (author[path] = m /\ mode[m] \in db[path].trigs)]_vars
  BY <1>1
<1> QED
  BY <1>2, SealInvariance, PTL DEF Spec, SealMatchesState

-----------------------------------------------------------------------------
(* The refinement *)

holders == [i \in Inodes |-> Holder(i)]

\* Only doctors hold files, and what they hold has a trigger of theirs.
LEMMA HolderIsAuthor ==
  ASSUME TypeOK, NEW i \in Inodes, NEW m \in Doctors
  PROVE  /\ Holder(i) = m <=> (author[i] = m /\ db[i].trigs \cap Modes # {})
         /\ Holder(i) # None => Holder(i) \in Doctors
BY ConstantsOK DEF Holder, TypeOK

\* A step on the artifacts is a step of the manifest's life, or changes none.
LEMMA ArtifactRefines ==
  ASSUME SealInv, NEW d \in Doctors, DoctorNext(d), db' = db, author' = author
  PROVE  Lifecycle!Next \/ UNCHANGED <<path, holders, manifest>>
<1>0. /\ TypeOK /\ Manifested /\ TargetOK /\ PreparedOK /\ ArtifactFacts(d)
      /\ path' = path /\ path \in Inodes
  BY ArtifactOwnStep, OthersUntouched DEF SealInv, RecordInv, MutatorInv, IInv, TypeOK
<1>1. holders' = holders
  BY DEF holders, Holder
<1>2. CASE manifest' = manifest
  BY <1>0, <1>1, <1>2
<1>3. CASE pc[d] = "gated2" /\ manifest' = [manifest EXCEPT ![d] = "prepared"]
  <2>1. manifest[d] = "none"
    BY <1>0, <1>3 DEF Manifested, ApplyManifestPcs, WaitingPcs, SealingPcs
  <2> QED
    BY <1>0, <1>1, <1>3, <2>1 DEF Lifecycle!Next, Lifecycle!Prepare, holders
<1>4. CASE pc[d] = "verified" /\ manifest' = [manifest EXCEPT ![d] = "applied"]
  <2>1. manifest[d] # "none"
    BY <1>0, <1>4 DEF PreparedOK, PreparedPcs
  <2> QED
    BY <1>0, <1>1, <1>4, <2>1 DEF Lifecycle!Next, Lifecycle!Confirm, holders
<1>5. CASE pc[d] \in {"rbVerified", "rbAbsent"} /\ SealRolledBack(d)
  <2>1. PICK m \in Doctors : target[d] = m /\ manifest[m] # "none"
    BY <1>0, <1>5 DEF TargetOK, RollbackPcs, RbPrePcs, RbPostPcs
  <2>2. holders[path] # m
    <3>1. author[path] = m => db[path].trigs \cap Modes = {}
      BY <1>5, <2>1, SettleFacts
    <3> QED
      BY <1>0, <2>1, <3>1, HolderIsAuthor DEF holders
  <2> QED
    BY <1>0, <1>1, <1>5, <2>1, <2>2
    DEF Lifecycle!Next, Lifecycle!Settle, SealRolledBack, holders
<1> QED
  BY <1>0, <1>2, <1>3, <1>4, <1>5 DEF ArtifactFacts

\* A COMMIT of apply installs, one of rollback removes, or finds that what it
\* removed had no owner.
LEMMA CommitRefines ==
  ASSUME SealInv, NEW d \in Doctors, DoctorNext(d),
         \/ pc[d] = "created" /\ Install(d)
         \/ pc[d] = "rbDropped" /\ Remove(d)
  PROVE  Lifecycle!Next \/ UNCHANGED <<path, holders, manifest>>
<1>0. /\ TypeOK /\ AuthorEnded /\ DoctorOK(d) /\ ArtifactFacts(d)
      /\ path' = path /\ conn[d] \in Inodes
  <2>1. pc[d] \in CheckedPcs
    BY DEF CheckedPcs
  <2> QED
    BY <2>1, ArtifactOwnStep, OthersUntouched
    DEF SealInv, RecordInv, MutatorInv, IInv, DoctorOK, CheckedOK
<1>1. manifest' = manifest
  BY <1>0 DEF ArtifactFacts
<1>2. PICK f \in Inodes : f = conn[d]
  BY <1>0
<1>3. ASSUME NEW ts, Commit(d, f, ts)
      PROVE  holders' = [holders EXCEPT ![f] = IF ts \cap Modes # {} THEN d ELSE None]
  <2>1. /\ db'[f].trigs = ts /\ author'[f] = d
        /\ \A i \in Inodes \ {f} : db'[i] = db[i] /\ author'[i] = author[i]
    BY <1>0, <1>3 DEF Commit, TypeOK, Contents
  <2> QED
    BY <2>1 DEF holders, Holder
<1>4. CASE pc[d] = "created" /\ Install(d)
  <2>1. db[f].trigs = {} /\ mode[d] \in Modes /\ manifest[d] # "none"
    BY <1>0, <1>2, <1>4
    DEF DoctorOK, CreatedOK, ModeOK, ManifestOK, ManifestPcs, ApplyTxnPcs
  <2>2. holders' = [holders EXCEPT ![f] = d]
    BY <1>2, <1>3, <1>4, <2>1 DEF Install
  <2>3. holders[f] = None
    BY <2>1 DEF holders, Holder
  <2>4. \A g \in Inodes : holders[g] # d
    <3>1. \A g \in Inodes : author[g] # d
      BY <1>0, <1>4 DEF AuthorEnded, EndPcs, PostPcs, ApplyPostPcs, RbPostPcs
    <3> QED
      BY <1>0, <3>1, HolderIsAuthor DEF holders
  <2> QED
    BY <1>0, <1>1, <2>1, <2>2, <2>3, <2>4
    DEF Lifecycle!Next, Lifecycle!Install, holders
<1>5. CASE pc[d] = "rbDropped" /\ Remove(d)
  <2>1. (db[f].trigs \ {mode[d]}) \cap Modes = {}
    BY <1>0, <1>2, <1>5 DEF DoctorOK, DroppedOK, DoctorTriggers
  <2>2. holders' = [holders EXCEPT ![f] = None]
    BY <1>2, <1>3, <1>5, <2>1 DEF Remove
  <2>3. CASE holders[f] = None
    BY <1>0, <1>1, <2>2, <2>3 DEF holders
  <2>4. CASE holders[f] # None
    BY <1>0, <1>1, <2>2, <2>4 DEF Lifecycle!Next, Lifecycle!Remove, holders
  <2> QED
    BY <2>3, <2>4
<1> QED
  BY <1>4, <1>5

\* A client that touches the trigger removes it, and a new file at the path, which
\* nobody holds, is selected.
LEMMA ElsewhereRefines ==
  ASSUME SealInv, ~SwapBack, ClientNext \/ Replace
  PROVE  Lifecycle!Next \/ UNCHANGED <<path, holders, manifest>>
<1>0. TypeOK /\ PastOnly /\ path \in Inodes
  BY DEF SealInv, RecordInv, MutatorInv, IInv, TypeOK
<1>1. manifest' = manifest
  BY DEF ClientNext, ClientOpen, ClientClose, ClientInsert, ClientMigrate,
         ClientAddTrigger, ClientDropTrigger, ClientCommit, Replace, artifacts
<1>2. ASSUME NEW c \in Contents, client \in Inodes, ClientCommit(c)
      PROVE  Lifecycle!Next \/ UNCHANGED <<path, holders, manifest>>
  <2>1. PICK f \in Inodes : f = client
    BY <1>2
  <2>2. /\ path' = path /\ db'[f].trigs = c.trigs
        /\ author'[f] = IF c.trigs \cap Modes = db[f].trigs \cap Modes
                        THEN author[f] ELSE None
        /\ \A i \in Inodes \ {f} : db'[i] = db[i] /\ author'[i] = author[i]
    BY <1>0, <1>2, <2>1 DEF ClientCommit, TypeOK, Contents
  <2>3. CASE c.trigs \cap Modes = db[f].trigs \cap Modes
    BY <1>1, <2>2, <2>3 DEF holders, Holder
  <2>4. CASE c.trigs \cap Modes # db[f].trigs \cap Modes
    <3>1. holders' = [holders EXCEPT ![f] = None]
      BY <2>2, <2>4 DEF holders, Holder
    <3>2. CASE holders[f] = None
      BY <1>1, <2>2, <3>1, <3>2 DEF holders
    <3>3. CASE holders[f] # None
      BY <1>1, <2>2, <3>1, <3>3 DEF Lifecycle!Next, Lifecycle!Remove, holders
    <3> QED
      BY <3>2, <3>3
  <2> QED
    BY <2>3, <2>4
<1>3. CASE ClientOpen \/ ClientClose
  BY <1>1, <1>3 DEF ClientOpen, ClientClose, holders, Holder
<1>4. CASE Replace
  <2>1. PICK f \in Inodes : f = path' /\ f > path
    BY <1>0, <1>4 DEF Replace, Replacements
  <2>2. author' = author /\ author[f] = None
        /\ \A i \in Inodes \ {f} : db'[i] = db[i]
    BY <1>0, <1>4, <2>1 DEF Replace, PastOnly, TypeOK
  <2>3. holders' = holders /\ holders[f] = None
    BY <2>2 DEF holders, Holder
  <2> QED
    BY <1>1, <2>1, <2>3 DEF Lifecycle!Next, Lifecycle!Select, holders
<1> QED
  BY <1>0, <1>2, <1>3, <1>4, ClientWrites DEF ClientNext

\* With a rollback journal, and when no file returns to the path: whatever the
\* doctors, Codex and the file system do, for any number of each, what becomes of
\* triggers and manifests is a behaviour of the lifecycle.
THEOREM Implements == ASSUME ~SwapBack, ~WalMode PROVE Spec => ImplementsLifecycle
<1>1. Init => Lifecycle!Init
  BY ConstantsOK DEF Init, Lifecycle!Init, Holder, Inodes
<1>2. SealInv /\ [Next]_vars => [Lifecycle!Next]_(Lifecycle!vars)
  <2> SUFFICES ASSUME SealInv, [Next]_vars
               PROVE  Lifecycle!Next \/ UNCHANGED <<path, holders, manifest>>
    BY DEF Lifecycle!vars, holders
  <2>1. ASSUME NEW d \in Doctors, DoctorNext(d)
        PROVE  Lifecycle!Next \/ UNCHANGED <<path, holders, manifest>>
    BY <2>1, OnlyCommitWrites, ArtifactRefines, CommitRefines
  <2>2. CASE UNCHANGED vars
    BY <2>2 DEF vars, world, artifacts, holders, Holder
  <2> QED
    BY <2>1, <2>2, ElsewhereRefines DEF Next
<1> QED
  BY <1>1, <1>2, SealInvariance, PTL DEF Spec, ImplementsLifecycle, Lifecycle!Spec
=============================================================================
