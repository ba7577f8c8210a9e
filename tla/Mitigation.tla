----------------------------- MODULE Mitigation -----------------------------
(***************************************************************************)
(* The plan / apply / rollback protocol of the storage doctor: what several *)
(* doctor processes, each running one command, do to one logs_<n>.sqlite    *)
(* and to the private artifacts beside it, while Codex or another SQLite    *)
(* client opens, writes and migrates the same database, the file at the     *)
(* path is replaced, any step fails, COMMIT raises on either side of the    *)
(* durable write, and processes are killed.                                 *)
(*                                                                          *)
(* A step is one check or one effect of the code, in the code's order; a    *)
(* process is interrupted between any two of them.  pc[d] names the last    *)
(* step d completed.  The pc values of rollback start with "rb".            *)
(***************************************************************************)
EXTENDS Naturals

CONSTANTS
  Doctors,        \* doctor processes; each runs one plan-and-apply or rollback
  NumInodes,      \* files that can be at the selected path, in order of creation
  Schemas,        \* base schemas that validate_log_schema accepts
  Modes,          \* mitigation modes; a mode also names its exact trigger
  StrayTriggers,  \* doctor-prefixed triggers that are not exact (altered or extra)
  ForeignTriggers,\* other triggers on the logs table
  WalMode,        \* journal mode of the database: WAL, or a rollback journal
  SwapBack,       \* may a file that was replaced return to the path?
  MaxVer,         \* bound: the client writes to a file only below this version
  None

ASSUME ConstantsOK ==
  /\ NumInodes \in Nat \ {0}
  /\ MaxVer \in Nat
  /\ WalMode \in BOOLEAN /\ SwapBack \in BOOLEAN
  /\ None \notin Doctors
  /\ None \notin Modes \cup StrayTriggers \cup ForeignTriggers
  /\ Modes \cap StrayTriggers = {}
  /\ (Modes \cup StrayTriggers) \cap ForeignTriggers = {}

Inodes == 1..NumInodes
DoctorTriggers == Modes \cup StrayTriggers
Triggers == DoctorTriggers \cup ForeignTriggers

\* What a file holds.  ver moves with every committed write, as the sizes and
\* mtimes of the file and its WAL do; it also stands for the rows.
Contents == [schema : Schemas, trigs : SUBSET Triggers, ver : Nat]

Fingerprints == Schemas \X SUBSET ForeignTriggers

VARIABLES
  path,     \* the inode the database path names
  db,       \* db[i]: committed content of file i
  client,   \* the inode Codex, or another client, has open; 0 for none
  author,   \* ghost: author[i] = the doctor whose commit made i's present trigger state
  pc,       \* last step each doctor completed
  conn,     \* inode a doctor's open connection is on, 0 for none
  mode,     \* mode in the plan (apply) or manifest (rollback) d works from
  ident,    \* its file identity
  fp,       \* its base schema fingerprint
  target,   \* the apply whose manifest a rollback works from
  before,   \* storage_before_backup
  backup,   \* content of the backup d published, or None
  manifest, \* status of the manifest of apply d on disk, or "none"
  record,   \* is there a rollback-result.json beside the manifest of apply d?
  result    \* what d reported

world     == <<path, db, client, author>>
input     == <<mode, ident, fp, target>>
artifacts == <<backup, manifest, record>>
vars      == <<world, pc, conn, input, before, artifacts, result>>

-----------------------------------------------------------------------------
(* The code's points of progress *)

PlanPcs  == {"planRead", "planned"}
ApplyPrePcs ==
  {"targeted", "gated1", "preflighted", "measured", "backedUp", "steady",
   "gated2", "prepared", "connected"}
ApplyTxnPcs == {"exclusive", "gated3", "rechecked", "created"}
ApplyPostPcs == {"committed", "verified", "sealed"}
RbPrePcs ==
  {"rbLoaded", "rbGated1", "rbTargeted", "rbAbsent", "rbPreflighted",
   "rbMeasured", "rbBackedUp", "rbSteady", "rbGated2", "rbConnected"}
RbTxnPcs == {"rbExclusive", "rbGated3", "rbRechecked", "rbDropped"}
RbPostPcs == {"rbCommitted", "rbClosed", "rbVerified", "rbSealed"}

TxnPcs  == ApplyTxnPcs \cup RbTxnPcs
PrePcs  == PlanPcs \cup ApplyPrePcs \cup RbPrePcs \cup TxnPcs
PostPcs == ApplyPostPcs \cup RbPostPcs
ActivePcs == PrePcs \cup PostPcs \cup {"raised", "rbRaised"}
Pcs == ActivePcs \cup {"idle", "done", "crashed"}

Results ==
  {"none", "already_applied", "applied", "already_rolled_back", "rolled_back",
   "refused", "mutation_recovery_required", "rollback_reconciliation_required"}

-----------------------------------------------------------------------------
(* What the code reads *)

\* schema_fingerprint_connection: doctor-prefixed triggers are left out of the
\* fingerprint, every other trigger is in it.
Fingerprint(c) == <<c.schema, c.trigs \cap ForeignTriggers>>

\* Is file i under some doctor's BEGIN EXCLUSIVE?
Locked(i) == \E e \in Doctors : conn[e] = i /\ pc[e] \in TxnPcs

\* A read-only connection is served at once in WAL mode; with a rollback
\* journal an exclusive transaction makes it fail with SQLITE_BUSY.
Readable(i) == WalMode \/ ~Locked(i)

\* ensure_process_gate on complete evidence: no process but the caller itself
\* holds the file at the path.  A Codex surface without a handle, or partial
\* evidence, only refuses, which FailBeforeCommit allows at every gate.
GateIgnoresDoctors(d) == client # path

GateClear(d) ==
  /\ client # path
  /\ \A e \in Doctors \ {d} : conn[e] # path

\* The conflict rule of apply: nothing but the exact requested trigger.
NoConflict(c, m) == c.trigs \subseteq {m}

-----------------------------------------------------------------------------
Init ==
  /\ path = 1
  /\ db \in [Inodes -> [schema : Schemas, trigs : {{}}, ver : {0}]]
  /\ client \in {0, 1}
  /\ author = [i \in Inodes |-> None]
  /\ pc = [d \in Doctors |-> "idle"]
  /\ conn = [d \in Doctors |-> 0]
  /\ mode = [d \in Doctors |-> None]
  /\ ident = [d \in Doctors |-> 0]
  /\ fp = [d \in Doctors |-> None]
  /\ target = [d \in Doctors |-> None]
  /\ before = [d \in Doctors |-> 0]
  /\ backup = [d \in Doctors |-> None]
  /\ manifest = [d \in Doctors |-> "none"]
  /\ record = [d \in Doctors |-> FALSE]
  /\ result = [d \in Doctors |-> "none"]

\* d goes from one point to the next.
Step(d, from, to) == pc[d] = from /\ pc' = [pc EXCEPT ![d] = to]

\* d's command ends with outcome r; the interpreter closes what it had open.
Finish(d, r) ==
  /\ pc' = [pc EXCEPT ![d] = "done"]
  /\ conn' = [conn EXCEPT ![d] = 0]
  /\ before' = [before EXCEPT ![d] = 0]
  /\ result' = [result EXCEPT ![d] = r]

-----------------------------------------------------------------------------
(* Wrong variants of the steps below, used to test that the properties       *)
(* notice them; the specification uses none of them.                         *)

\* Compares the identity only, not the size and mtime of database and WAL.
RecheckIdentityOnly(d) ==
  /\ Step(d, "gated3", "rechecked")
  /\ path = ident[d]
  /\ UNCHANGED <<world, conn, input, before, artifacts, result>>

\* Compares size and mtime only, not the identity.
RecheckStorageOnly(d) ==
  /\ Step(d, "gated3", "rechecked")
  /\ db[path].ver = before[d]
  /\ UNCHANGED <<world, conn, input, before, artifacts, result>>

\* Leaves the manifest to the end of the command.
PrepareNothing(d) ==
  /\ Step(d, "gated2", "prepared")
  /\ UNCHANGED <<world, conn, input, before, artifacts, result>>

\* Takes every COMMIT that raised for one that did not happen.
RaisedMeansNotCommitted(d) ==
  /\ pc[d] = "raised"
  /\ Finish(d, "refused")
  /\ UNCHANGED <<world, input, artifacts>>

\* Closes the read-only connection before the manifest is sealed.
AbsentClosesFirst(d) ==
  /\ Step(d, "rbTargeted", "rbAbsent")
  /\ Readable(path)
  /\ Fingerprint(db[path]) = fp[d]
  /\ db[path].trigs \cap DoctorTriggers = {}
  /\ UNCHANGED <<world, conn, input, before, artifacts, result>>

\* Seals with the reported status instead of the lifecycle status.
SealWithResult(d) ==
  manifest' = [manifest EXCEPT ![target[d]] = "already_rolled_back"]

\* Writes the record first.
RecordFirst(d) ==
  /\ Step(d, "rbVerified", "rbSealed")
  /\ record' = [record EXCEPT ![target[d]] = TRUE]
  /\ UNCHANGED <<world, conn, input, before, backup, manifest, result>>

-----------------------------------------------------------------------------
(* plan: the fingerprint is read through one connection, the identity is     *)
(* taken by path after that connection is closed.                            *)

PlanRead(d, m) ==
  /\ Step(d, "idle", "planRead")
  /\ Readable(path)
  /\ NoConflict(db[path], m)
  /\ mode' = [mode EXCEPT ![d] = m]
  /\ fp' = [fp EXCEPT ![d] = Fingerprint(db[path])]
  /\ UNCHANGED <<world, conn, ident, target, before, artifacts, result>>

PlanIdentity(d) ==
  /\ Step(d, "planRead", "planned")
  /\ ident' = [ident EXCEPT ![d] = path]
  /\ UNCHANGED <<world, conn, mode, fp, target, before, artifacts, result>>

-----------------------------------------------------------------------------
(* apply, in the order of apply_plan *)

ApplyTarget(d) ==
  /\ Step(d, "planned", "targeted")
  /\ path = ident[d]
  /\ UNCHANGED <<world, conn, input, before, artifacts, result>>

ApplyGate1(d) ==
  /\ Step(d, "targeted", "gated1")
  /\ GateClear(d)
  /\ UNCHANGED <<world, conn, input, before, artifacts, result>>

ApplyPreflight(d) ==
  /\ Step(d, "gated1", "preflighted")
  /\ Readable(path)
  /\ Fingerprint(db[path]) = fp[d]
  /\ NoConflict(db[path], mode[d])
  /\ mode[d] \notin db[path].trigs
  /\ UNCHANGED <<world, conn, input, before, artifacts, result>>

ApplyAlreadyThere(d) ==
  /\ pc[d] = "gated1"
  /\ Readable(path)
  /\ Fingerprint(db[path]) = fp[d]
  /\ db[path].trigs = {mode[d]}
  /\ Finish(d, "already_applied")
  /\ UNCHANGED <<world, input, artifacts>>

ApplyMeasure(d) ==
  /\ Step(d, "preflighted", "measured")
  /\ before' = [before EXCEPT ![d] = db[path].ver]
  /\ UNCHANGED <<world, conn, input, artifacts, result>>

ApplyBackup(d) ==
  /\ Step(d, "measured", "backedUp")
  /\ Readable(path)
  /\ backup' = [backup EXCEPT ![d] = db[path]]
  /\ UNCHANGED <<world, conn, input, before, manifest, record, result>>

ApplySteady(d) ==
  /\ Step(d, "backedUp", "steady")
  /\ db[path].ver = before[d]
  /\ UNCHANGED <<world, conn, input, before, artifacts, result>>

ApplyGate2(d) ==
  /\ Step(d, "steady", "gated2")
  /\ GateClear(d)
  /\ UNCHANGED <<world, conn, input, before, artifacts, result>>

\* The manifest goes into the directory this invocation has just created, so
\* the create-only write meets nothing there.
ApplyPrepareManifest(d) ==
  /\ Step(d, "gated2", "prepared")
  /\ manifest' = [manifest EXCEPT ![d] = "prepared"]
  /\ UNCHANGED <<world, conn, input, before, backup, record, result>>

ApplyConnect(d) ==
  /\ Step(d, "prepared", "connected")
  /\ conn' = [conn EXCEPT ![d] = path]
  /\ UNCHANGED <<world, input, before, artifacts, result>>

ApplyBegin(d) ==
  /\ Step(d, "connected", "exclusive")
  /\ ~Locked(conn[d])
  /\ UNCHANGED <<world, conn, input, before, artifacts, result>>

ApplyGate3(d) ==
  /\ Step(d, "exclusive", "gated3")
  /\ GateClear(d)
  /\ UNCHANGED <<world, conn, input, before, artifacts, result>>

ApplyRecheck(d) ==
  /\ Step(d, "gated3", "rechecked")
  /\ db[path].ver = before[d]
  /\ path = ident[d]
  /\ UNCHANGED <<world, conn, input, before, artifacts, result>>

\* The last checks run on the connection that holds the lock, and so does
\* CREATE TRIGGER; nothing is visible to others before COMMIT.
ApplyCreate(d) ==
  /\ Step(d, "rechecked", "created")
  /\ Fingerprint(db[conn[d]]) = fp[d]
  /\ NoConflict(db[conn[d]], mode[d])
  /\ mode[d] \notin db[conn[d]].trigs
  /\ UNCHANGED <<world, conn, input, before, artifacts, result>>

ApplyAlreadyThereLocked(d) ==
  /\ pc[d] = "rechecked"
  /\ Fingerprint(db[conn[d]]) = fp[d]
  /\ db[conn[d]].trigs = {mode[d]}
  /\ Finish(d, "already_applied")
  /\ UNCHANGED <<world, input, artifacts>>

\* The durable effect of d's COMMIT: file i now has triggers ts.
Commit(d, i, ts) ==
  /\ db' = [db EXCEPT ![i].trigs = ts, ![i].ver = @ + 1]
  /\ author' = [author EXCEPT ![i] = d]
  /\ UNCHANGED <<path, client>>

Install(d) == Commit(d, conn[d], db[conn[d]].trigs \cup {mode[d]})

ApplyCommit(d) ==
  /\ Step(d, "created", "committed")
  /\ Install(d)
  /\ UNCHANGED <<conn, input, before, artifacts, result>>

\* COMMIT raises, before or after the durable write; the connection is closed
\* before the outcome is looked up.
ApplyCommitRaises(d) ==
  /\ Step(d, "created", "raised")
  /\ Install(d) \/ UNCHANGED world
  /\ conn' = [conn EXCEPT ![d] = 0]
  /\ UNCHANGED <<input, before, artifacts, result>>

\* _apply_commit_outcome: only the exact pre-state, read by path, turns a
\* raised COMMIT into a refusal; everything else needs recovery.
ApplyOutcomeNotCommitted(d) ==
  /\ pc[d] = "raised"
  /\ Readable(path)
  /\ Fingerprint(db[path]) = fp[d]
  /\ db[path].trigs = {}
  /\ Finish(d, "refused")
  /\ UNCHANGED <<world, input, artifacts>>

ApplyOutcomeRecovery(d) ==
  /\ pc[d] = "raised"
  /\ Finish(d, "mutation_recovery_required")
  /\ UNCHANGED <<world, input, artifacts>>

ApplyVerify(d) ==
  /\ Step(d, "committed", "verified")
  /\ Readable(path)
  /\ db[path].trigs = {mode[d]}
  /\ Fingerprint(db[path]) = fp[d]
  /\ UNCHANGED <<world, conn, input, before, artifacts, result>>

ApplySealManifest(d) ==
  /\ Step(d, "verified", "sealed")
  /\ manifest' = [manifest EXCEPT ![d] = "applied"]
  /\ UNCHANGED <<world, conn, input, before, backup, record, result>>

\* The writable connection outlives the manifest write: it is closed last.
ApplyClose(d) ==
  /\ pc[d] = "sealed"
  /\ Finish(d, "applied")
  /\ UNCHANGED <<world, input, artifacts>>

-----------------------------------------------------------------------------
(* rollback, in the order of rollback() *)

RbLoad(d, m) ==
  /\ Step(d, "idle", "rbLoaded")
  /\ manifest[m] # "none"
  /\ target' = [target EXCEPT ![d] = m]
  /\ mode' = [mode EXCEPT ![d] = mode[m]]
  /\ ident' = [ident EXCEPT ![d] = ident[m]]
  /\ fp' = [fp EXCEPT ![d] = fp[m]]
  /\ UNCHANGED <<world, conn, before, artifacts, result>>

RbGate1(d) ==
  /\ Step(d, "rbLoaded", "rbGated1")
  /\ GateClear(d)
  /\ UNCHANGED <<world, conn, input, before, artifacts, result>>

RbTarget(d) ==
  /\ Step(d, "rbGated1", "rbTargeted")
  /\ path = ident[d]
  /\ UNCHANGED <<world, conn, input, before, artifacts, result>>

RbPreflight(d) ==
  /\ Step(d, "rbTargeted", "rbPreflighted")
  /\ Readable(path)
  /\ Fingerprint(db[path]) = fp[d]
  /\ db[path].trigs \cap DoctorTriggers = {mode[d]}
  /\ UNCHANGED <<world, conn, input, before, artifacts, result>>

\* The trigger is gone: the manifest is sealed from inside the read-only
\* preflight, whose connection is still open.
RbPreflightAbsent(d) ==
  /\ Step(d, "rbTargeted", "rbAbsent")
  /\ Readable(path)
  /\ Fingerprint(db[path]) = fp[d]
  /\ db[path].trigs \cap DoctorTriggers = {}
  /\ conn' = [conn EXCEPT ![d] = path]
  /\ UNCHANGED <<world, input, before, artifacts, result>>

SealRolledBack(d) == manifest' = [manifest EXCEPT ![target[d]] = "rolled_back"]

RbSealAbsent(d) ==
  /\ pc[d] = "rbAbsent"
  /\ SealRolledBack(d)
  /\ Finish(d, "already_rolled_back")
  /\ UNCHANGED <<world, input, backup, record>>

RbMeasure(d) ==
  /\ Step(d, "rbPreflighted", "rbMeasured")
  /\ before' = [before EXCEPT ![d] = db[path].ver]
  /\ UNCHANGED <<world, conn, input, artifacts, result>>

RbBackup(d) ==
  /\ Step(d, "rbMeasured", "rbBackedUp")
  /\ Readable(path)
  /\ backup' = [backup EXCEPT ![d] = db[path]]
  /\ UNCHANGED <<world, conn, input, before, manifest, record, result>>

RbSteady(d) ==
  /\ Step(d, "rbBackedUp", "rbSteady")
  /\ db[path].ver = before[d]
  /\ UNCHANGED <<world, conn, input, before, artifacts, result>>

RbGate2(d) ==
  /\ Step(d, "rbSteady", "rbGated2")
  /\ GateClear(d)
  /\ UNCHANGED <<world, conn, input, before, artifacts, result>>

RbConnect(d) ==
  /\ Step(d, "rbGated2", "rbConnected")
  /\ conn' = [conn EXCEPT ![d] = path]
  /\ UNCHANGED <<world, input, before, artifacts, result>>

RbBegin(d) ==
  /\ Step(d, "rbConnected", "rbExclusive")
  /\ ~Locked(conn[d])
  /\ UNCHANGED <<world, conn, input, before, artifacts, result>>

RbGate3(d) ==
  /\ Step(d, "rbExclusive", "rbGated3")
  /\ GateClear(d)
  /\ UNCHANGED <<world, conn, input, before, artifacts, result>>

RbRecheck(d) ==
  /\ Step(d, "rbGated3", "rbRechecked")
  /\ db[path].ver = before[d]
  /\ path = ident[d]
  /\ UNCHANGED <<world, conn, input, before, artifacts, result>>

RbDrop(d) ==
  /\ Step(d, "rbRechecked", "rbDropped")
  /\ Fingerprint(db[conn[d]]) = fp[d]
  /\ db[conn[d]].trigs \cap DoctorTriggers = {mode[d]}
  /\ UNCHANGED <<world, conn, input, before, artifacts, result>>

\* Absent under the lock: the transaction is rolled back first, and the
\* manifest is sealed with the connection open but no lock held.
RbAbsentLocked(d) ==
  /\ Step(d, "rbRechecked", "rbAbsent")
  /\ Fingerprint(db[conn[d]]) = fp[d]
  /\ db[conn[d]].trigs \cap DoctorTriggers = {}
  /\ UNCHANGED <<world, conn, input, before, artifacts, result>>

Remove(d) == Commit(d, conn[d], db[conn[d]].trigs \ {mode[d]})

RbCommit(d) ==
  /\ Step(d, "rbDropped", "rbCommitted")
  /\ Remove(d)
  /\ UNCHANGED <<conn, input, before, artifacts, result>>

RbCommitRaises(d) ==
  /\ Step(d, "rbDropped", "rbRaised")
  /\ Remove(d) \/ UNCHANGED world
  /\ conn' = [conn EXCEPT ![d] = 0]
  /\ UNCHANGED <<input, before, artifacts, result>>

RbOutcomeNotCommitted(d) ==
  /\ pc[d] = "rbRaised"
  /\ Readable(path)
  /\ Fingerprint(db[path]) = fp[d]
  /\ db[path].trigs = {mode[d]}
  /\ Finish(d, "refused")
  /\ UNCHANGED <<world, input, artifacts>>

RbOutcomeReconcile(d) ==
  /\ pc[d] = "rbRaised"
  /\ Finish(d, "rollback_reconciliation_required")
  /\ UNCHANGED <<world, input, artifacts>>

\* Unlike apply, rollback closes its connection before it verifies and writes.
RbClose(d) ==
  /\ Step(d, "rbCommitted", "rbClosed")
  /\ conn' = [conn EXCEPT ![d] = 0]
  /\ UNCHANGED <<world, input, before, artifacts, result>>

RbVerify(d) ==
  /\ Step(d, "rbClosed", "rbVerified")
  /\ Readable(path)
  /\ db[path].trigs \cap DoctorTriggers = {}
  /\ Fingerprint(db[path]) = fp[d]
  /\ UNCHANGED <<world, conn, input, before, artifacts, result>>

RbSealManifest(d) ==
  /\ Step(d, "rbVerified", "rbSealed")
  /\ SealRolledBack(d)
  /\ UNCHANGED <<world, conn, input, before, backup, record, result>>

\* The record is create-only: a second rollback in the same directory has
\* removed the trigger and then fails here.
RbRecord(d) ==
  /\ pc[d] = "rbSealed"
  /\ ~record[target[d]]
  /\ record' = [record EXCEPT ![target[d]] = TRUE]
  /\ Finish(d, "rolled_back")
  /\ UNCHANGED <<world, input, backup, manifest>>

-----------------------------------------------------------------------------
(* Failures: any step may raise (a check fails, lsof is partial, SQLite or   *)
(* the file system reports an error, Ctrl-C).                                *)

FailBeforeCommit(d) ==
  /\ pc[d] \in PrePcs
  /\ Finish(d, "refused")
  /\ UNCHANGED <<world, input, artifacts>>

ApplyFailAfterCommit(d) ==
  /\ pc[d] \in ApplyPostPcs
  /\ Finish(d, "mutation_recovery_required")
  /\ UNCHANGED <<world, input, artifacts>>

RbFailAfterCommit(d) ==
  /\ pc[d] \in RbPostPcs
  /\ Finish(d, "rollback_reconciliation_required")
  /\ UNCHANGED <<world, input, artifacts>>

\* The process is killed: its connection goes, and with it a transaction that
\* has not committed; artifacts stay.
Crash(d) ==
  /\ pc[d] \in ActivePcs
  /\ pc' = [pc EXCEPT ![d] = "crashed"]
  /\ conn' = [conn EXCEPT ![d] = 0]
  /\ before' = [before EXCEPT ![d] = 0]
  /\ UNCHANGED <<world, input, artifacts, result>>

-----------------------------------------------------------------------------
(* The environment: Codex or another SQLite client, and whoever moves files. *)

ClientOpen ==
  /\ client = 0
  /\ client' = path
  /\ UNCHANGED <<path, db, author, pc, conn, input, before, artifacts, result>>

ClientClose ==
  /\ client # 0
  /\ client' = 0
  /\ UNCHANGED <<path, db, author, pc, conn, input, before, artifacts, result>>

\* One committed write through the client's handle: content c, never past a
\* doctor's exclusive lock.
ClientCommit(c) ==
  /\ client \in Inodes
  /\ ~Locked(client)
  /\ db[client].ver < MaxVer
  /\ db' = [db EXCEPT ![client] = [c EXCEPT !.ver = db[client].ver + 1]]
  /\ author' = [author EXCEPT ![client] =
                  IF c.trigs \cap Modes = db[client].trigs \cap Modes
                  THEN @ ELSE None]
  /\ UNCHANGED <<path, client, pc, conn, input, before, artifacts, result>>

ClientInsert == client \in Inodes /\ ClientCommit(db[client])

\* An upgrade changes the schema in place, or drops and recreates the table,
\* which silently removes its triggers.
ClientMigrate ==
  /\ client \in Inodes
  /\ \E s \in Schemas, ts \in {{}, db[client].trigs} :
       ClientCommit([db[client] EXCEPT !.schema = s, !.trigs = ts])

ClientAddTrigger ==
  /\ client \in Inodes
  /\ \E t \in StrayTriggers \cup ForeignTriggers :
       ClientCommit([db[client] EXCEPT !.trigs = @ \cup {t}])

ClientDropTrigger ==
  /\ client \in Inodes
  /\ \E t \in db[client].trigs :
       ClientCommit([db[client] EXCEPT !.trigs = @ \ {t}])

\* Another file appears at the path: a new one, fresh or a copy that carries
\* the triggers over; or, with SwapBack, files already seen change places.
Replacements == {i \in Inodes \ {path} : SwapBack \/ i > path}
CarriedOver(i) == {db[i].trigs} \cup (IF SwapBack THEN {} ELSE {db[path].trigs})

Replace ==
  /\ \E i \in Replacements :
       /\ path' = i
       /\ \E ts \in CarriedOver(i) : db' = [db EXCEPT ![i].trigs = ts]
  /\ UNCHANGED <<client, author, pc, conn, input, before, artifacts, result>>

-----------------------------------------------------------------------------
PlanNext(d) == (\E m \in Modes : PlanRead(d, m)) \/ PlanIdentity(d)

ApplyNext(d) ==
  \/ ApplyTarget(d) \/ ApplyGate1(d) \/ ApplyPreflight(d) \/ ApplyAlreadyThere(d)
  \/ ApplyMeasure(d) \/ ApplyBackup(d) \/ ApplySteady(d) \/ ApplyGate2(d)
  \/ ApplyPrepareManifest(d) \/ ApplyConnect(d) \/ ApplyBegin(d) \/ ApplyGate3(d)
  \/ ApplyRecheck(d) \/ ApplyCreate(d) \/ ApplyAlreadyThereLocked(d)
  \/ ApplyCommit(d) \/ ApplyCommitRaises(d) \/ ApplyOutcomeNotCommitted(d)
  \/ ApplyOutcomeRecovery(d) \/ ApplyVerify(d) \/ ApplySealManifest(d)
  \/ ApplyClose(d)

RbNext(d) ==
  \/ \E m \in Doctors : RbLoad(d, m)
  \/ RbGate1(d) \/ RbTarget(d) \/ RbPreflight(d) \/ RbPreflightAbsent(d)
  \/ RbSealAbsent(d) \/ RbMeasure(d) \/ RbBackup(d) \/ RbSteady(d) \/ RbGate2(d)
  \/ RbConnect(d) \/ RbBegin(d) \/ RbGate3(d) \/ RbRecheck(d) \/ RbDrop(d)
  \/ RbAbsentLocked(d) \/ RbCommit(d) \/ RbCommitRaises(d)
  \/ RbOutcomeNotCommitted(d) \/ RbOutcomeReconcile(d) \/ RbClose(d)
  \/ RbVerify(d) \/ RbSealManifest(d) \/ RbRecord(d)

FailNext(d) ==
  \/ FailBeforeCommit(d) \/ ApplyFailAfterCommit(d) \/ RbFailAfterCommit(d)
  \/ Crash(d)

ClientNext ==
  \/ ClientOpen \/ ClientClose \/ ClientInsert \/ ClientMigrate
  \/ ClientAddTrigger \/ ClientDropTrigger

DoctorNext(d) == PlanNext(d) \/ ApplyNext(d) \/ RbNext(d) \/ FailNext(d)

Next == (\E d \in Doctors : DoctorNext(d)) \/ ClientNext \/ Replace

Spec == Init /\ [][Next]_vars

-----------------------------------------------------------------------------
(* Properties *)

TypeOK ==
  /\ path \in Inodes
  /\ db \in [Inodes -> Contents]
  /\ client \in Inodes \cup {0}
  /\ author \in [Inodes -> Doctors \cup {None}]
  /\ pc \in [Doctors -> Pcs]
  /\ conn \in [Doctors -> Inodes \cup {0}]
  /\ mode \in [Doctors -> Modes \cup {None}]
  /\ ident \in [Doctors -> Inodes \cup {0}]
  /\ fp \in [Doctors -> Fingerprints \cup {None}]
  /\ target \in [Doctors -> Doctors \cup {None}]
  /\ before \in [Doctors -> Nat]
  /\ backup \in [Doctors -> Contents \cup {None}]
  /\ manifest \in [Doctors -> {"none", "prepared", "applied", "rolled_back"}]
  /\ record \in [Doctors -> BOOLEAN]
  /\ result \in [Doctors -> Results]

\* d's COMMIT becomes durable on file i in this step.
Commits(d, i) == author[i] # d /\ author'[i] = d

\* Every schema mutation follows a complete backup: what a COMMIT changes is
\* exactly the content its own invocation has already published, whatever was
\* written between the first gate and the lock.
CommitFollowsBackup ==
  [][\A d \in Doctors, i \in Inodes : Commits(d, i) => backup[d] = db[i]]_vars

\* A COMMIT lands on the file that was planned (or mitigated), with the base
\* schema that was planned, and adds or removes exactly the one trigger.
CommitOnPlannedTarget ==
  [][\A d \in Doctors, i \in Inodes :
       Commits(d, i) =>
         /\ i = ident[d]
         /\ Fingerprint(db[i]) = fp[d]
         /\ \/ db[i].trigs = {} /\ db'[i].trigs = {mode[d]}
            \/ /\ db[i].trigs \cap DoctorTriggers = {mode[d]}
               /\ db'[i].trigs = db[i].trigs \ {mode[d]}]_vars

\* Wherever a doctor's trigger is installed, at every moment and after every
\* crash, the apply that installed it has left a manifest that rollback
\* accepts for that file and trigger, and a backup without the trigger.
Recoverable ==
  \A i \in Inodes, d \in Doctors :
    (author[i] = d /\ db[i].trigs \cap Modes # {}) =>
      /\ manifest[d] # "none"
      /\ ident[d] = i
      /\ mode[d] \in db[i].trigs
      /\ backup[d] \in Contents
      /\ backup[d].trigs \cap DoctorTriggers = {}

\* A command whose COMMIT made the present state of the database never ends
\* with an ordinary refusal or a no-op report.
HonestOutcome ==
  \A d \in Doctors :
    (pc[d] = "done" /\ author[path] = d) =>
      result[d] \in {"applied", "mutation_recovery_required",
                     "rolled_back", "rollback_reconciliation_required"}

\* Past its last recheck and until its last close, a doctor is alone: no other
\* doctor is there on the same file, so an apply seals "applied" before any
\* rollback can undo it.
Mutating(d) ==
  pc[d] \in {"rechecked", "created", "committed", "verified", "sealed",
            "rbRechecked", "rbDropped", "rbCommitted"}

OneMutator ==
  \A d, e \in Doctors :
    (d # e /\ Mutating(d) /\ Mutating(e)) => conn[d] # conn[e]

\* A rollback record on disk never contradicts its manifest: nothing that
\* runs at the same time, or fails in between, leaves another status there.
RecordIsTruthful ==
  \A m \in Doctors : record[m] => manifest[m] = "rolled_back"

\* When rollback seals a manifest as rolled_back, the trigger that this very
\* manifest's apply installed is no longer in the database.
SealMatchesState ==
  [][\A m \in Doctors :
       (manifest[m] # "rolled_back" /\ manifest'[m] = "rolled_back") =>
         ~ (author[path] = m /\ mode[m] \in db[path].trigs)]_vars

=============================================================================
