----------------------------- MODULE ReadCommands -----------------------------
(***************************************************************************)
(* The commands that change nothing: a process of the doctor runs audit or  *)
(* verify; both take samples, which are checked here by themselves at the    *)
(* level of single queries.  main dispatches once, on the first argument,    *)
(* and a process does nothing else, so a behaviour is one of the three.  The *)
(* variables of the parts that do not run are Idle, and there is nothing to  *)
(* verify.                                                                  *)
(***************************************************************************)
EXTENDS Verify, TLC

CONSTANTS
  Levels, MaxId, SampleEvents,      \* Sampling
  Databases, MaxTime, AuditEvents,  \* Audit
  None, Idle

VARIABLES
  command,  \* what this process runs
  table, seq, bytes, large, altered, codex, phase, samplePc, fullScan, shot,
  sampleCount, inserted, recreated, quiet, heldAlways,
  exists, open, mtime, rooted, sampled, auditPc, listed, seen, scan, todo, changed,
  newest, stale, incomplete, auditExit, auditCount, everOpen, everWritten, held,
  firstOk, older

Samples == INSTANCE Sampling
  WITH pc <- samplePc, events <- sampleCount, MaxEvents <- SampleEvents
Audits == INSTANCE Audit
  WITH pc <- auditPc, exit <- auditExit, events <- auditCount, MaxEvents <- AuditEvents

ASSUME ReadCommandsConstants ==
  Samples!SamplingConstants /\ VerifyConstants /\ Audits!AuditConstants

-----------------------------------------------------------------------------
sampleVars ==
  <<table, seq, bytes, large, altered, codex, phase, samplePc, fullScan, shot,
    sampleCount, inserted, recreated, quiet, heldAlways>>
auditVars ==
  <<exists, open, mtime, rooted, sampled, auditPc, listed, seen, scan, todo, changed,
    newest, stale, incomplete, auditExit, auditCount, everOpen, everWritten, held,
    firstOk, older>>
allVars == <<command, vars, sampleVars, auditVars>>

NoSample ==
  /\ table = Idle /\ seq = Idle /\ bytes = Idle /\ large = Idle /\ altered = Idle
  /\ codex = Idle /\ phase = Idle /\ samplePc = Idle /\ fullScan = Idle
  /\ shot = Idle /\ sampleCount = Idle /\ inserted = Idle /\ recreated = Idle
  /\ quiet = Idle /\ heldAlways = Idle

NoVerify ==
  /\ Init
  /\ path = "nothing" /\ manifest = "prepared" /\ ~given
  /\ db = [f \in Files |-> [base |-> FALSE, trigs |-> {}]]

NoAudit ==
  /\ exists = Idle /\ open = Idle /\ mtime = Idle /\ rooted = Idle
  /\ sampled = Idle /\ auditPc = Idle /\ listed = Idle /\ seen = Idle /\ scan = Idle
  /\ todo = Idle /\ changed = Idle /\ newest = Idle /\ stale = Idle
  /\ incomplete = Idle /\ auditExit = Idle /\ auditCount = Idle /\ everOpen = Idle
  /\ everWritten = Idle /\ held = Idle /\ firstOk = Idle /\ older = Idle

CommandInit ==
  \/ command = "sample" /\ Samples!Init /\ NoVerify /\ NoAudit
  \/ command = "verify" /\ Init /\ NoSample /\ NoAudit
  \/ command = "audit" /\ Audits!Init /\ NoSample /\ NoVerify

SampleCommand ==
  /\ command = "sample" /\ Samples!Next
  /\ UNCHANGED <<command, vars, auditVars>>

VerifyCommand ==
  /\ command = "verify" /\ Next
  /\ UNCHANGED <<command, sampleVars, auditVars>>

AuditCommand ==
  /\ command = "audit" /\ Audits!Next
  /\ UNCHANGED <<command, vars, sampleVars>>

CommandNext == SampleCommand \/ VerifyCommand \/ AuditCommand

CommandSpec == CommandInit /\ [][CommandNext]_allVars

\* Levels and databases are interchangeable.
Symmetry == Permutations(Levels) \cup Permutations(Databases)

-----------------------------------------------------------------------------
(* The properties of the parts; those of Verify hold as they are.            *)

\* The types of what runs.
PartsTypeOK ==
  /\ TypeOK
  /\ command = "sample" => Samples!TypeOK
  /\ command = "audit" => Audits!TypeOK

\* A sample reports every insert between its two reads of the sequence.
NoInsertMissed == command = "sample" => Samples!NoInsertMissed

\* A sample of a database that nobody changed reports no change.
QuietIsReportedQuiet == command = "sample" => Samples!QuietIsReportedQuiet

\* A sample sees a Codex that holds the database throughout.
HeldIsSeen == command = "sample" => Samples!HeldIsSeen

\* Audit calls a database stale only beside a newer one that Codex used.
StaleIsOlder == command = "audit" => Audits!StaleIsOlder

\* Audit takes no database for active because it is recent.
ActiveHasEvidence == command = "audit" => Audits!ActiveHasEvidence

\* Audit lists what Codex holds open throughout.
HolderIsFound == command = "audit" => Audits!HolderIsFound

=============================================================================
