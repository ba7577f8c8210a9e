-------------------------- MODULE ReadCommands_proofs --------------------------
(***************************************************************************)
(* Proofs about ReadCommands for any number of databases, files, levels and  *)
(* rows: every invariant that MCReadCommands checks.  The audit comes first,  *)
(* then the samples (the values of the queries, the invariant, the steps of   *)
(* the command and those of Codex), verify, and the types of them all.        *)
(***************************************************************************)
EXTENDS ReadCommands, FiniteSetTheorems, TLAPS

-----------------------------------------------------------------------------
(* The audit command *)

\* The phases of the command up to each step.
BeforeSampling == {"start", "found", "scanned", "added"}
BeforeActive == BeforeSampling \cup {"sampling"}
BeforeLabelling == BeforeActive \cup {"active"}

\* What Codex has opened or written since the audit began.
Used == everOpen \cup everWritten

\* The ghosts are ranges of the machine, and the two scans show what was open.
AuditGhosts ==
  /\ held \subseteq open /\ open \subseteq everOpen /\ everOpen \subseteq Databases
  /\ everWritten \subseteq Databases /\ seen \subseteq everOpen

\* Nothing is gathered before its phase.
AuditPhases ==
  /\ auditPc = "start" => listed = {}
  /\ auditPc \in BeforeSampling => todo = {} /\ changed = {}
  /\ auditPc \in BeforeActive => newest = 0
  /\ auditPc \in BeforeLabelling => stale = {}

\* What a complete first scan saw is listed from the second one on.
HolderListed ==
  firstOk =>
    /\ auditPc \notin {"start", "found"}
    /\ auditPc = "scanned" => held \subseteq seen
    /\ auditPc # "scanned" => held \subseteq listed

\* A change without a use is a file that is no longer there.
ChangesHaveCause == \A d \in changed : d \in Used \/ d \notin exists

\* The time that others are compared with is at most that of a used candidate.
NewestIsUsed ==
  /\ newest > 0 => \E a \in Audits!DirectlyActive : a \in Used /\ newest <= mtime[a]
  /\ auditPc = "active" => todo \subseteq Audits!DirectlyActive

\* Those that are judged are the others.
StaleIsJudged ==
  /\ auditPc = "labelling" => todo \cap Audits!DirectlyActive = {}
  /\ stale \cap Audits!DirectlyActive = {} /\ stale \subseteq older

AuditInvs ==
  /\ Audits!TypeOK /\ AuditGhosts /\ AuditPhases /\ HolderListed /\ ChangesHaveCause
  /\ NewestIsUsed /\ StaleIsJudged

\* A step of the command that reads, and one of Codex or of whoever deletes files.
AuditReads ==
  \/ Audits!Discover \/ Audits!FirstScan \/ Audits!KeepScan \/ Audits!AddAndRescan
  \/ Audits!NoneFound \/ Audits!StartSampling \/ Audits!StartLabels
  \/ Audits!StartOthers \/ Audits!StartInspections \/ Audits!Report
  \/ \E d \in Databases : \/ Audits!SampleOne(d) \/ Audits!StatActive(d)
                          \/ Audits!StatOther(d) \/ Audits!InspectOne(d)
AuditElsewhere ==
  \E d \in Databases : \/ Audits!CodexOpens(d) \/ Audits!CodexCloses(d)
                       \/ Audits!CodexWrites(d) \/ Audits!Delete(d)

\* The audit begins with its invariants.
LEMMA AuditStarts ==
  ASSUME Audits!Init PROVE AuditInvs
<1>1. Audits!TypeOK
  BY ReadCommandsConstants DEF Audits!Init, Audits!TypeOK, Audits!Pcs, Audits!Exits,
     Audits!AuditConstants
<1>2. AuditGhosts
  BY DEF Audits!Init, AuditGhosts
<1>3. AuditPhases /\ HolderListed /\ ChangesHaveCause /\ NewestIsUsed /\ StaleIsJudged
  BY DEF Audits!Init, AuditPhases, HolderListed, ChangesHaveCause, NewestIsUsed,
         StaleIsJudged, Audits!DirectlyActive, BeforeSampling, BeforeActive, BeforeLabelling
<1> QED
  BY <1>1, <1>2, <1>3 DEF AuditInvs

\* While the machine changes, the command's notes stay and the ghosts follow.
LEMMA AuditElsewhereStep ==
  ASSUME AuditInvs, AuditElsewhere PROVE AuditInvs'
<1>1. /\ UNCHANGED <<rooted, sampled, auditPc, listed, seen, scan, todo, changed, newest,
                     stale, incomplete, auditExit, firstOk, older>>
      /\ auditCount < AuditEvents /\ auditCount' = auditCount + 1
  BY DEF AuditElsewhere, Audits!CodexOpens, Audits!CodexCloses, Audits!CodexWrites,
         Audits!Delete, Audits!Happens, Audits!fixed
<1>2. Audits!TypeOK /\ AuditEvents \in Nat /\ MaxTime \in Nat
  BY ReadCommandsConstants DEF AuditInvs, Audits!AuditConstants
<1>3. /\ open' \subseteq exists' /\ exists' \subseteq Databases
      /\ mtime' \in [Databases -> 1..MaxTime]
      /\ \A d \in Databases : mtime[d] <= mtime'[d]
  <2>1. /\ open \subseteq exists /\ exists \subseteq Databases
        /\ mtime \in [Databases -> 1..MaxTime]
        /\ \A d \in Databases : mtime[d] \in Nat /\ mtime[d] <= mtime[d]
    BY <1>2 DEF Audits!TypeOK
  <2>2. PICK d \in Databases : \/ Audits!CodexOpens(d) \/ Audits!CodexCloses(d)
                               \/ Audits!CodexWrites(d) \/ Audits!Delete(d)
    BY DEF AuditElsewhere
  <2>3. CASE Audits!CodexWrites(d)
    <3>1. PICK t \in mtime[d]..MaxTime : mtime' = [mtime EXCEPT ![d] = t]
      BY <2>3 DEF Audits!CodexWrites
    <3>2. mtime[d] \in 1..MaxTime
      BY <2>1, <2>2
    <3>3. t \in 1..MaxTime /\ mtime[d] <= t
      BY <1>2, <3>1, <3>2
    <3> QED
      BY <2>1, <2>3, <3>1, <3>3 DEF Audits!CodexWrites
  <2>4. CASE Audits!CodexOpens(d) \/ Audits!CodexCloses(d) \/ Audits!Delete(d)
    BY <2>1, <2>4 DEF Audits!CodexOpens, Audits!CodexCloses, Audits!Delete
  <2> QED
    BY <2>2, <2>3, <2>4
<1>4. Audits!TypeOK'
  BY <1>1, <1>2, <1>3 DEF Audits!TypeOK
<1>5. /\ AuditGhosts' /\ held' \subseteq held
      /\ everOpen \subseteq everOpen' /\ everWritten \subseteq everWritten'
      /\ exists' \subseteq exists \cup everOpen'
  BY <1>1 DEF AuditInvs, AuditGhosts, AuditElsewhere, Audits!CodexOpens, Audits!CodexCloses,
     Audits!CodexWrites, Audits!Delete
<1>6. AuditPhases' /\ HolderListed'
  BY <1>1, <1>5 DEF AuditInvs, AuditPhases, HolderListed
<1>7. ChangesHaveCause'
  BY <1>1, <1>5 DEF AuditInvs, ChangesHaveCause, Used
<1>8. NewestIsUsed'
  <2>1. Audits!DirectlyActive' = Audits!DirectlyActive /\ Audits!DirectlyActive \subseteq Databases
    BY <1>1, <1>2 DEF Audits!DirectlyActive, Audits!TypeOK
  <2>2. ASSUME newest > 0 PROVE \E a \in Audits!DirectlyActive : a \in Used' /\ newest <= mtime'[a]
    <3>1. PICK a \in Audits!DirectlyActive : a \in Used /\ newest <= mtime[a]
      BY <2>2 DEF AuditInvs, NewestIsUsed
    <3>2. a \in Databases /\ mtime[a] <= mtime'[a] /\ mtime[a] \in Nat /\ mtime'[a] \in Nat /\ newest \in Nat
      BY <1>2, <1>3, <2>1 DEF Audits!TypeOK
    <3> QED
      BY <1>5, <3>1, <3>2 DEF Used
  <2> QED
    BY <1>1, <2>1, <2>2 DEF AuditInvs, NewestIsUsed
<1>9. StaleIsJudged'
  BY <1>1 DEF AuditInvs, StaleIsJudged, Audits!DirectlyActive
<1> QED
  BY <1>4, <1>5, <1>6, <1>7, <1>8, <1>9 DEF AuditInvs

\* The types and the ghosts as the command reads.
LEMMA AuditReadTypes ==
  ASSUME AuditInvs, AuditReads
  PROVE  Audits!TypeOK' /\ AuditGhosts' /\ AuditPhases'
<1> USE DEF AuditPhases, BeforeSampling, BeforeActive, BeforeLabelling, Audits!Pcs,
            Audits!Exits, Audits!Step
<1>1. /\ UNCHANGED <<exists, open, mtime, auditCount, everOpen, everWritten, held>>
      /\ Audits!TypeOK /\ AuditGhosts /\ AuditPhases
  BY DEF AuditInvs, AuditReads, Audits!Discover, Audits!FirstScan, Audits!KeepScan,
         Audits!AddAndRescan, Audits!NoneFound, Audits!StartSampling, Audits!StartLabels,
         Audits!StartOthers, Audits!StartInspections, Audits!Report, Audits!SampleOne,
         Audits!StatActive, Audits!StatOther, Audits!InspectOne, Audits!machine, Audits!ghosts
<1>2. CASE Audits!Discover \/ Audits!FirstScan \/ Audits!KeepScan \/ Audits!AddAndRescan
  BY <1>1, <1>2
  DEF Audits!Discover, Audits!FirstScan, Audits!KeepScan, Audits!AddAndRescan, Audits!Scan,
      Audits!OpenUnlisted, Audits!TypeOK, AuditGhosts, Audits!machine, Audits!ghosts
<1>3. CASE Audits!NoneFound \/ Audits!StartSampling
  BY <1>1, <1>3
  DEF Audits!NoneFound, Audits!StartSampling, Audits!TypeOK, AuditGhosts, Audits!machine,
      Audits!ghosts
<1>4. CASE Audits!StartLabels \/ Audits!StartOthers \/ Audits!StartInspections \/ Audits!Report
  BY <1>1, <1>4
  DEF Audits!StartLabels, Audits!StartOthers, Audits!StartInspections, Audits!Report,
      Audits!DirectlyActive, Audits!TypeOK, AuditGhosts, Audits!machine, Audits!ghosts
<1>5. ASSUME NEW d \in Databases, Audits!SampleOne(d)
      PROVE  Audits!TypeOK' /\ AuditGhosts' /\ AuditPhases'
  BY <1>1, <1>5
  DEF Audits!SampleOne, Audits!TypeOK, AuditGhosts, Audits!machine, Audits!ghosts
<1>6. ASSUME NEW d \in Databases, Audits!StatActive(d)
      PROVE  Audits!TypeOK' /\ AuditGhosts' /\ AuditPhases'
  <2>1. mtime[d] \in 1..MaxTime
    BY <1>1, <1>6 DEF Audits!TypeOK
  <2>2. newest' \in 0..MaxTime
    BY <1>1, <1>6, <2>1 DEF Audits!StatActive, Audits!TypeOK
  <2> QED
    BY <1>1, <1>6, <2>2
    DEF Audits!StatActive, Audits!TypeOK, AuditGhosts, Audits!machine, Audits!ghosts
<1>7. ASSUME NEW d \in Databases, Audits!StatOther(d) \/ Audits!InspectOne(d)
      PROVE  Audits!TypeOK' /\ AuditGhosts' /\ AuditPhases'
  BY <1>1, <1>7
  DEF Audits!StatOther, Audits!InspectOne, Audits!TypeOK, AuditGhosts, Audits!machine,
      Audits!ghosts
<1> QED
  BY <1>2, <1>3, <1>4, <1>5, <1>6, <1>7 DEF AuditReads

\* What a complete first scan saw stays listed, and a change keeps its cause.
LEMMA AuditReadHolder ==
  ASSUME AuditInvs, AuditReads
  PROVE  HolderListed' /\ ChangesHaveCause'
<1> USE DEF HolderListed, ChangesHaveCause, Used, Audits!Step
<1>1. /\ Audits!TypeOK /\ AuditGhosts /\ AuditPhases /\ HolderListed /\ ChangesHaveCause
  BY DEF AuditInvs
<1>2. CASE Audits!Discover
  BY <1>1, <1>2 DEF Audits!Discover, Audits!machine, Audits!ghosts
<1>3. CASE Audits!FirstScan
  BY <1>1, <1>3 DEF Audits!FirstScan, Audits!Scan, AuditGhosts, Audits!machine
<1>4. CASE Audits!KeepScan \/ Audits!AddAndRescan
  <2>1. held \subseteq exists
    BY <1>1 DEF AuditGhosts, Audits!TypeOK
  <2> QED
    BY <1>1, <1>4, <2>1 DEF Audits!KeepScan, Audits!AddAndRescan, Audits!OpenUnlisted,
       Audits!machine, Audits!ghosts
<1>5. CASE \/ Audits!NoneFound \/ Audits!StartSampling \/ Audits!StartLabels
           \/ Audits!StartOthers \/ Audits!StartInspections \/ Audits!Report
  BY <1>1, <1>5 DEF Audits!NoneFound, Audits!StartSampling, Audits!StartLabels,
     Audits!StartOthers, Audits!StartInspections, Audits!Report, Audits!machine, Audits!ghosts
<1>6. ASSUME NEW d \in Databases,
             \/ Audits!SampleOne(d) \/ Audits!StatActive(d)
             \/ Audits!StatOther(d) \/ Audits!InspectOne(d)
      PROVE  HolderListed' /\ ChangesHaveCause'
  BY <1>1, <1>6 DEF Audits!SampleOne, Audits!StatActive, Audits!StatOther,
     Audits!InspectOne, Audits!machine, Audits!ghosts
<1> QED
  BY <1>2, <1>3, <1>4, <1>5, <1>6 DEF AuditReads

\* What is compared with is used, and what is judged is not active.
LEMMA AuditReadLabels ==
  ASSUME AuditInvs, AuditReads
  PROVE  NewestIsUsed' /\ StaleIsJudged'
<1> USE DEF NewestIsUsed, StaleIsJudged, Used, Audits!Step
<1>1. /\ Audits!TypeOK /\ AuditGhosts /\ AuditPhases /\ ChangesHaveCause
      /\ NewestIsUsed /\ StaleIsJudged
  BY DEF AuditInvs
<1>2. CASE \/ Audits!Discover \/ Audits!FirstScan \/ Audits!KeepScan \/ Audits!AddAndRescan
           \/ Audits!NoneFound \/ Audits!StartSampling
  BY <1>1, <1>2
  DEF Audits!Discover, Audits!FirstScan, Audits!KeepScan, Audits!AddAndRescan,
      Audits!NoneFound, Audits!StartSampling, Audits!machine, Audits!ghosts,
      AuditPhases, BeforeSampling, BeforeActive, BeforeLabelling
<1>3. CASE \/ Audits!StartLabels \/ Audits!StartOthers \/ Audits!StartInspections
           \/ Audits!Report
  BY <1>1, <1>3
  DEF Audits!StartLabels, Audits!StartOthers, Audits!StartInspections, Audits!Report,
      Audits!DirectlyActive, Audits!machine, Audits!ghosts, Audits!fixed,
      AuditPhases, BeforeSampling, BeforeActive, BeforeLabelling
<1>4. ASSUME NEW d \in Databases, Audits!SampleOne(d)
      PROVE  NewestIsUsed' /\ StaleIsJudged'
  BY <1>4, <1>1
  DEF Audits!SampleOne, Audits!machine, Audits!ghosts, AuditPhases, BeforeSampling,
      BeforeActive, BeforeLabelling
<1>5. ASSUME NEW d \in Databases, Audits!StatActive(d)
      PROVE  NewestIsUsed' /\ StaleIsJudged'
  <2>1. Audits!DirectlyActive' = Audits!DirectlyActive
    BY <1>5 DEF Audits!StatActive, Audits!DirectlyActive
  <2>2. d \in Audits!DirectlyActive /\ (d \in exists => d \in Used)
    BY <1>1, <1>5 DEF Audits!StatActive, Audits!DirectlyActive, ChangesHaveCause, AuditGhosts
  <2>3. mtime[d] \in Nat
    BY <1>1 DEF Audits!TypeOK
  <2> QED
    BY <1>1, <1>5, <2>1, <2>2, <2>3 DEF Audits!StatActive, Audits!machine, Audits!ghosts
<1>6. ASSUME NEW d \in Databases, Audits!StatOther(d)
      PROVE  NewestIsUsed' /\ StaleIsJudged'
  <2>1. Audits!DirectlyActive' = Audits!DirectlyActive
    BY <1>6 DEF Audits!StatOther, Audits!DirectlyActive
  <2>2. d \notin Audits!DirectlyActive
    BY <1>1, <1>6 DEF Audits!StatOther
  <2>3. ASSUME newest > 0, mtime[d] < newest
        PROVE  \E a \in listed \cap Used : mtime[d] < mtime[a]
    <3>1. PICK a \in Audits!DirectlyActive : a \in Used /\ newest <= mtime[a]
      BY <1>1, <2>3
    <3>2. a \in listed /\ a \in Databases
      BY <1>1, <3>1 DEF Audits!DirectlyActive, Audits!TypeOK
    <3>3. mtime[a] \in Nat /\ mtime[d] \in Nat /\ newest \in Nat
      BY <1>1, <3>2 DEF Audits!TypeOK
    <3> QED
      BY <2>3, <3>1, <3>2, <3>3
  <2>4. stale' \subseteq stale \cup {d} /\ older \subseteq older' /\ (d \in stale' => d \in older' \/ d \in stale)
    BY <1>6, <2>3 DEF Audits!StatOther, Audits!IsOlder
  <2> QED
    BY <1>1, <1>6, <2>1, <2>2, <2>4 DEF Audits!StatOther, Audits!machine
<1>7. ASSUME NEW d \in Databases, Audits!InspectOne(d)
      PROVE  NewestIsUsed' /\ StaleIsJudged'
  BY <1>1, <1>7
  DEF Audits!InspectOne, Audits!DirectlyActive, Audits!machine, Audits!ghosts
<1> QED
  BY <1>2, <1>3, <1>4, <1>5, <1>6, <1>7 DEF AuditReads

\* The audit keeps its invariant while it runs.
AuditInv == command = "audit" => AuditInvs

\* Every audit, with any number of databases and of things that happen meanwhile.
THEOREM AuditInvariance == CommandSpec => []AuditInv
<1>1. CommandInit => AuditInv
  BY AuditStarts DEF CommandInit, AuditInv
<1>2. ASSUME AuditInv, [CommandNext]_allVars PROVE AuditInv'
  <2>1. CASE AuditCommand
    <3>1. AuditReads \/ AuditElsewhere
      BY <2>1 DEF AuditCommand, Audits!Next, AuditReads, AuditElsewhere
    <3>2. command = "audit" /\ AuditInvs
      BY <1>2, <2>1 DEF AuditCommand, AuditInv
    <3> QED
      BY <3>1, <3>2, AuditElsewhereStep, AuditReadTypes, AuditReadHolder, AuditReadLabels
      DEF AuditInv, AuditInvs
  <2>2. CASE SampleCommand \/ VerifyCommand
    BY <2>2 DEF SampleCommand, VerifyCommand, AuditInv
  <2>3. CASE UNCHANGED allVars
    <3>1. UNCHANGED <<command, auditVars>>
      BY <2>3 DEF allVars
    <3> QED
      BY <1>2, <3>1
      DEF auditVars, AuditInv, AuditInvs, Audits!TypeOK, AuditGhosts, AuditPhases, HolderListed,
          ChangesHaveCause, NewestIsUsed, StaleIsJudged, Used, Audits!DirectlyActive
  <2> QED
    BY <1>2, <2>1, <2>2, <2>3 DEF CommandNext
<1> QED
  BY <1>1, <1>2, PTL DEF CommandSpec

\* A stale duplicate is neither open nor changed, and when it was judged a candidate
\* that Codex had used was newer.
THEOREM StaleIsRight == CommandSpec => []StaleIsOlder
<1>1. AuditInv => StaleIsOlder
  BY DEF AuditInv, AuditInvs, StaleIsOlder, Audits!StaleIsOlder, StaleIsJudged,
         Audits!DirectlyActive, Audits!TypeOK
<1> QED
  BY <1>1, AuditInvariance, PTL

\* Recent is never taken for active.
THEOREM ActiveIsUsed == CommandSpec => []ActiveHasEvidence
<1>1. AuditInv => ActiveHasEvidence
  BY DEF AuditInv, AuditInvs, ActiveHasEvidence, Audits!ActiveHasEvidence, NewestIsUsed, Used
<1> QED
  BY <1>1, AuditInvariance, PTL

\* What Codex holds open from the first moment to the last is listed, if the first
\* scan was complete.
THEOREM HolderIsListed == CommandSpec => []HolderIsFound
<1>1. AuditInv => HolderIsFound
  BY DEF AuditInv, AuditInvs, HolderIsFound, Audits!HolderIsFound, HolderListed
<1> QED
  BY <1>1, AuditInvariance, PTL

-----------------------------------------------------------------------------
(* The samples: the values of the queries *)

\* A non-empty set of row ids has a greatest one.  Of the sets of the ids above a
\* member one is the smallest, and it is empty.
LEMMA GreatestId ==
  ASSUME NEW n \in Nat, NEW S \in SUBSET (1..n), S # {}
  PROVE  \E i \in S : \A j \in S : j <= i
<1> DEFINE above(i) == {j \in S : j > i}
           T == {above(i) : i \in S}
<1>1. IsFiniteSet(1..n)
  BY FS_Interval
<1>2. \A U \in SUBSET S : IsFiniteSet(U)
  BY <1>1, FS_Subset
<1>3. T \subseteq FiniteSubsetsOf(S) /\ T # {}
  BY <1>2 DEF FiniteSubsetsOf
<1>4. IsWellFoundedOn(StrictSubsetOrdering(S), FiniteSubsetsOf(S))
  BY FS_StrictSubsetOrderingWellFounded
<1>5. PICK U \in T : \A V \in T : <<V, U>> \notin StrictSubsetOrdering(S)
  <2> HIDE DEF T
  <2> QED
    BY <1>3, <1>4, WFMin
<1>6. PICK i \in S : U = above(i)
  BY <1>5
<1>7. ASSUME NEW k \in S, ~(k <= i) PROVE FALSE
  <2>1. k \in above(i) /\ k \notin above(k)
    BY <1>7
  <2>2. above(k) \subseteq above(i)
    <3>1. i \in Nat /\ k \in Nat /\ i < k /\ \A j \in S : j \in Nat
      BY <1>6, <1>7
    <3>2. \A j \in Nat : j > k => j > i
      BY <3>1
    <3> QED
      BY <3>1, <3>2
  <2>3. <<above(k), above(i)>> \in StrictSubsetOrdering(S)
    BY <2>1, <2>2 DEF StrictSubsetOrdering
  <2> QED
    BY <1>5, <1>6, <2>3
<1> QED
  BY <1>7

\* The instance counts as the library does.
LEMMA SameCount == \A S : Samples!Cardinality(S) = Cardinality(S)
BY DEF Samples!Cardinality, Cardinality

\* What a count and a greatest id can be.
LEMMA QueryValues ==
  ASSUME Samples!SamplingConstants, NEW t \in Samples!Tables
  PROVE  /\ Cardinality(DOMAIN t) \in 0..MaxId
         /\ t = <<>> => Samples!TopOf(t) = None
         /\ t # <<>> => Samples!TopOf(t) \in DOMAIN t /\ Samples!TopOf(t) \in Samples!Ids
<1>1. MaxId \in Nat /\ DOMAIN t \subseteq 1..MaxId
  BY DEF Samples!SamplingConstants, Samples!Tables, Samples!Ids
<1>2. IsFiniteSet(1..MaxId) /\ Cardinality(1..MaxId) = MaxId
  BY <1>1, FS_Interval
<1>3. Cardinality(DOMAIN t) \in 0..MaxId
  BY <1>1, <1>2, FS_Subset, FS_CardinalityType
<1>4. ASSUME t # <<>> PROVE Samples!TopOf(t) \in DOMAIN t
  <2>1. DOMAIN t # {}
    BY <1>4 DEF Samples!Tables
  <2>2. \E i \in DOMAIN t : \A j \in DOMAIN t : j <= i
    BY <1>1, <2>1, GreatestId
  <2> QED
    BY <1>4, <2>2 DEF Samples!TopOf
<1> QED
  BY <1>1, <1>3, <1>4 DEF Samples!TopOf, Samples!Ids

-----------------------------------------------------------------------------
(* The samples: the inductive invariant *)

\* What an inspection and the scan after it return.
Shots ==
  [status : {"none", "ok", "error", "partial"}, bytes : Samples!Sizes,
   seq : 0..MaxId \cup {None}, count : 0..MaxId \cup {None},
   top : Samples!Ids \cup {None},
   levels : {None} \cup {Samples!PerLevel(t) : t \in Samples!Tables}, full : BOOLEAN,
   scan : {"none", "ok", "partial", "unsupported"}, open : BOOLEAN]

\* Row ids are never above the sequence.
SampleTypes ==
  /\ table \in Samples!Tables /\ seq \in 0..MaxId /\ DOMAIN table \subseteq 1..seq
  /\ bytes \in Samples!Sizes /\ large \in BOOLEAN /\ altered \in BOOLEAN
  /\ codex \in BOOLEAN /\ phase \in Samples!Phases /\ samplePc \in Samples!Pcs
  /\ fullScan \in BOOLEAN /\ shot \in [Samples!Phases -> Shots]
  /\ sampleCount \in 0..SampleEvents
  /\ inserted \in BOOLEAN /\ recreated \in BOOLEAN /\ quiet \in BOOLEAN
  /\ heldAlways \in BOOLEAN

\* An inspection has no status before it has read anything.
PhasesInOrder ==
  /\ phase = "before" => shot["after"] = Samples!Unread
  /\ samplePc = "size" => shot[phase] = Samples!Unread
  /\ samplePc = "triggers" => shot[phase].status = "none"
  /\ samplePc = "done" => phase = "after"

\* While the two reads of the sequence enclose an insert, the sequence is above what
\* the first one returned; then what the second one returned is.
InsertShows ==
  ~recreated /\ (\A p \in Samples!Phases : shot[p].status \notin {"error", "partial"}) =>
    /\ phase = "before" /\ samplePc \in {"size", "triggers", "sequence"} => ~inserted
    /\ shot["before"].seq # None =>
         /\ Samples!Enclosed =>
              shot["before"].seq <= seq /\ (inserted => shot["before"].seq < seq)
         /\ phase = "after" /\ samplePc \in {"count", "levels", "scan", "done"} /\ inserted =>
              shot["after"].seq # None /\ shot["before"].seq < shot["after"].seq

\* What is read of a database that nobody has changed is what is there.
QuietShots ==
  quiet =>
    /\ bytes = 0
    /\ \A p \in Samples!Phases :
         /\ shot[p].bytes = 0
         /\ shot[p].seq # None => shot[p].seq = seq
         /\ shot[p].count # None => shot[p].count = Cardinality(DOMAIN table)
         /\ shot[p].top # None =>
              shot[p].top = Samples!TopOf(table) /\ shot[p].seq = seq
         /\ shot[p].levels # None => shot[p].levels = Samples!PerLevel(table)
    /\ samplePc \in {"count", "levels"} /\ seq # 0 => shot[phase].seq = seq

\* A Codex that is always there is in every complete scan.
HeldShots ==
  heldAlways =>
    codex /\ \A p \in Samples!Phases : shot[p].scan = "ok" => shot[p].open

SampleInvs == SampleTypes /\ PhasesInOrder /\ InsertShows /\ QuietShots /\ HeldShots

\* The bounds of the samples are numbers, and None is not one.
LEMMA SampleConstants ==
  /\ MaxId \in Nat /\ MaxId > 0 /\ SampleEvents \in Nat /\ None \notin Nat
  /\ Samples!SamplingConstants
BY ReadCommandsConstants DEF Samples!SamplingConstants

\* The two samples begin with their invariants: nothing has been read.
LEMMA SampleStarts ==
  ASSUME Samples!Init PROVE SampleInvs
<1>1. /\ \A p \in Samples!Phases : shot[p] = Samples!Unread
      /\ samplePc = "size" /\ phase = "before" /\ ~inserted /\ bytes = 0
      /\ heldAlways = codex
  BY DEF Samples!Init
<1>2. /\ Samples!Unread \in Shots
      /\ Samples!Unread.status = "none" /\ Samples!Unread.bytes = 0 /\ Samples!Unread.seq = None
      /\ Samples!Unread.count = None /\ Samples!Unread.top = None /\ Samples!Unread.levels = None
      /\ Samples!Unread.scan = "none"
  BY DEF Samples!Unread, Shots, Samples!Sizes
<1>3. table \in Samples!Tables /\ DOMAIN table \subseteq 1..seq /\ seq \in 0..MaxId
  <2>1. CASE table = <<>>
    <3>1. table \in [{} -> Levels] /\ {} \in SUBSET Samples!Ids
      BY <2>1
    <3> QED
      BY <2>1, <3>1, SampleConstants DEF Samples!Init, Samples!Tables
  <2>2. CASE table # <<>>
    <3>1. table \in [{1} -> Levels] /\ seq = 1
      BY <2>2 DEF Samples!Init
    <3>2. {1} \in SUBSET Samples!Ids
      BY SampleConstants DEF Samples!Ids
    <3> QED
      BY <3>1, <3>2, SampleConstants DEF Samples!Tables
  <2> QED
    BY <2>1, <2>2
<1>4. shot \in [Samples!Phases -> Shots]
  BY <1>1, <1>2 DEF Samples!Init
<1>5. SampleTypes
  <2>1. /\ large \in BOOLEAN /\ altered \in BOOLEAN /\ codex \in BOOLEAN /\ fullScan \in BOOLEAN
        /\ heldAlways = codex /\ sampleCount = 0 /\ bytes = 0 /\ phase = "before"
        /\ samplePc = "size"
    BY DEF Samples!Init
  <2>2. inserted \in BOOLEAN /\ recreated \in BOOLEAN /\ quiet \in BOOLEAN
    BY DEF Samples!Init
  <2>3. heldAlways \in BOOLEAN
    BY <2>1
  <2> QED
    BY <1>3, <1>4, <2>1, <2>2, <2>3, SampleConstants
    DEF SampleTypes, Samples!Sizes, Samples!Phases, Samples!Pcs
<1>6. PhasesInOrder /\ InsertShows /\ QuietShots /\ HeldShots
  BY <1>1, <1>2 DEF PhasesInOrder, InsertShows, QuietShots, HeldShots, Samples!Phases
<1> QED
  BY <1>5, <1>6 DEF SampleInvs

-----------------------------------------------------------------------------
(* The samples: the steps of the command *)

\* A read writes the snapshot of its phase and leaves the machine alone.
ReadsInto(r) ==
  /\ shot' = [shot EXCEPT ![phase] = r]
  /\ UNCHANGED <<table, seq, bytes, large, altered, codex, fullScan, sampleCount, inserted,
                 recreated, quiet, heldAlways>>

\* A step that fills in the sample of the present phase leaves the other alone.
LEMMA ReadKeeps ==
  ASSUME SampleTypes, NEW r \in Shots, ReadsInto(r),
         phase' \in Samples!Phases, samplePc' \in Samples!Pcs
  PROVE  /\ SampleTypes' /\ shot'[phase] = r
         /\ \A p \in Samples!Phases : p # phase => shot'[p] = shot[p]
BY DEF SampleTypes, ReadsInto

\* The snapshot of a phase before a read.
LEMMA ShotFields ==
  ASSUME SampleTypes
  PROVE  /\ shot[phase] \in Shots /\ phase \in {"before", "after"}
         /\ Samples!Phases = {"before", "after"}
         /\ \A p \in Samples!Phases : shot[p] \in Shots
         /\ \A s \in Shots : /\ s.seq \in Nat \cup {None}
                             /\ s.status \in {"none", "ok", "error", "partial"}
BY SampleConstants DEF SampleTypes, Samples!Phases, Shots

\* A table that has never had a row is empty.
LEMMA NoRows ==
  ASSUME SampleTypes, seq = 0 PROVE table = <<>>
<1>1. DOMAIN table = {}
  <2>1. DOMAIN table \subseteq 1..0
    BY DEF SampleTypes
  <2> QED
    BY <2>1
<1>2. PICK S \in SUBSET Samples!Ids : table \in [S -> Levels]
  BY DEF SampleTypes, Samples!Tables
<1>3. S = {}
  BY <1>1, <1>2
<1>4. <<>> \in [{} -> Levels] /\ table \in [{} -> Levels]
  BY <1>2, <1>3
<1> QED
  BY <1>4

\* Reading the sizes of the three files keeps the invariants.
LEMMA SizesStep ==
  ASSUME SampleInvs, Samples!ReadSizes PROVE SampleInvs'
<1> DEFINE r == [shot[phase] EXCEPT !.bytes = bytes]
<1>1. SampleTypes /\ PhasesInOrder /\ InsertShows /\ QuietShots /\ HeldShots
  BY DEF SampleInvs
<1>2. /\ r \in Shots /\ r.bytes = bytes /\ r.status = shot[phase].status
      /\ r.seq = shot[phase].seq /\ r.count = shot[phase].count /\ r.top = shot[phase].top
      /\ r.levels = shot[phase].levels /\ r.scan = shot[phase].scan /\ r.open = shot[phase].open
  BY <1>1, ShotFields DEF Shots, SampleTypes
<1>3. /\ ReadsInto(r) /\ samplePc = "size" /\ samplePc' = "triggers" /\ phase' = phase
  BY DEF Samples!ReadSizes, Samples!Note, Samples!Query, Samples!database, Samples!ghosts, ReadsInto
<1> HIDE DEF r
<1>4. /\ SampleTypes' /\ shot'[phase] = r
      /\ \A p \in Samples!Phases : p # phase => shot'[p] = shot[p]
  BY <1>1, <1>2, <1>3, ReadKeeps DEF SampleTypes, Samples!Pcs
<1>5. PhasesInOrder'
  BY <1>1, <1>2, <1>3, <1>4, ShotFields DEF PhasesInOrder, Samples!Unread
<1>6. InsertShows'
  BY <1>1, <1>2, <1>3, <1>4, ShotFields DEF InsertShows, Samples!Enclosed, ReadsInto
<1>7. QuietShots'
  BY <1>1, <1>2, <1>3, <1>4, ShotFields DEF QuietShots, ReadsInto
<1>8. HeldShots'
  BY <1>1, <1>2, <1>3, <1>4, ShotFields DEF HeldShots, ReadsInto
<1> QED
  BY <1>4, <1>5, <1>6, <1>7, <1>8 DEF SampleInvs

\* So does the inspection of the triggers, and whether it fails,
LEMMA TriggersStep ==
  ASSUME SampleInvs, Samples!ReadTriggers PROVE SampleInvs'
<1> DEFINE r == [shot[phase] EXCEPT !.status = IF altered THEN "error" ELSE "ok"]
<1>1. SampleTypes /\ PhasesInOrder /\ InsertShows /\ QuietShots /\ HeldShots
  BY DEF SampleInvs
<1>2. /\ r \in Shots /\ r.status = (IF altered THEN "error" ELSE "ok")
      /\ r.bytes = shot[phase].bytes /\ r.seq = shot[phase].seq
      /\ r.count = shot[phase].count /\ r.top = shot[phase].top
      /\ r.levels = shot[phase].levels /\ r.scan = shot[phase].scan
      /\ r.open = shot[phase].open
  BY <1>1, ShotFields DEF Shots, SampleTypes
<1>3. /\ ReadsInto(r) /\ samplePc = "triggers" /\ samplePc' = "sequence" /\ phase' = phase
  BY DEF Samples!ReadTriggers, Samples!Note, Samples!Query, Samples!database, Samples!ghosts, ReadsInto
<1> HIDE DEF r
<1>4. /\ SampleTypes' /\ shot'[phase] = r
      /\ \A p \in Samples!Phases : p # phase => shot'[p] = shot[p]
  BY <1>1, <1>2, <1>3, ReadKeeps DEF SampleTypes, Samples!Pcs
<1>5. PhasesInOrder'
  BY <1>1, <1>2, <1>3, <1>4, ShotFields DEF PhasesInOrder, Samples!Unread
<1>6. InsertShows'
  <2>1. shot[phase].status = "none"
    BY <1>1, <1>3 DEF PhasesInOrder
  <2>2. \A p \in Samples!Phases :
          shot'[p].status \notin {"error", "partial"} => shot[p].status \notin {"error", "partial"}
    BY <1>4, <2>1
  <2> QED
    BY <1>1, <1>2, <1>3, <1>4, <2>2, ShotFields DEF InsertShows, Samples!Enclosed, ReadsInto
<1>7. QuietShots'
  BY <1>1, <1>2, <1>3, <1>4, ShotFields DEF QuietShots, ReadsInto
<1>8. HeldShots'
  BY <1>1, <1>2, <1>3, <1>4, ShotFields DEF HeldShots, ReadsInto
<1> QED
  BY <1>4, <1>5, <1>6, <1>7, <1>8 DEF SampleInvs

\* reading the sequence, which no later insert goes below,
LEMMA SequenceStep ==
  ASSUME SampleInvs, Samples!ReadSequence PROVE SampleInvs'
<1> DEFINE r == [shot[phase] EXCEPT !.seq = IF seq = 0 THEN None ELSE seq]
<1>1. SampleTypes /\ PhasesInOrder /\ InsertShows /\ QuietShots /\ HeldShots
  BY DEF SampleInvs
<1>2. /\ r \in Shots /\ r.seq = (IF seq = 0 THEN None ELSE seq)
      /\ r.status = shot[phase].status /\ r.bytes = shot[phase].bytes
      /\ r.count = shot[phase].count /\ r.top = shot[phase].top
      /\ r.levels = shot[phase].levels /\ r.scan = shot[phase].scan
      /\ r.open = shot[phase].open
  BY <1>1, ShotFields, SampleConstants DEF Shots, SampleTypes
<1>3. /\ ReadsInto(r) /\ samplePc = "sequence" /\ samplePc' = "count" /\ phase' = phase
  BY DEF Samples!ReadSequence, Samples!Note, Samples!Query, Samples!database, Samples!ghosts, ReadsInto
<1> HIDE DEF r
<1>4. /\ SampleTypes' /\ shot'[phase] = r
      /\ \A p \in Samples!Phases : p # phase => shot'[p] = shot[p]
  BY <1>1, <1>2, <1>3, ReadKeeps DEF SampleTypes, Samples!Pcs
<1>5. PhasesInOrder'
  BY <1>1, <1>2, <1>3, <1>4, ShotFields DEF PhasesInOrder, Samples!Unread
<1>6. InsertShows'
  <2>1. /\ r.seq # None => r.seq = seq
        /\ seq \in Nat /\ shot["before"].seq \in Nat \cup {None} /\ None \notin Nat
        /\ UNCHANGED <<seq, inserted, recreated>>
    BY <1>1, <1>2, <1>3, ShotFields, SampleConstants DEF SampleTypes, ReadsInto
  <2>2. \A p \in Samples!Phases : shot'[p].status = shot[p].status
    BY <1>2, <1>4
  <2>3. CASE phase = "before"
    BY <1>1, <1>3, <1>4, <2>1, <2>2, <2>3, ShotFields DEF InsertShows, Samples!Enclosed
  <2>4. CASE phase = "after"
    <3>1. shot'["before"] = shot["before"] /\ shot'["after"] = r
      BY <1>4, <2>4 DEF Samples!Phases
    <3>2. ASSUME ~recreated, inserted, \A p \in Samples!Phases : shot[p].status \notin {"error", "partial"},
                 shot["before"].seq # None
          PROVE  r.seq # None /\ shot["before"].seq < r.seq
      <4>1. shot["before"].seq < seq
        BY <1>1, <1>3, <2>4, <3>2 DEF InsertShows, Samples!Enclosed
      <4> QED
        BY <1>2, <2>1, <3>2, <4>1
    <3> QED
      BY <1>3, <2>1, <2>2, <2>4, <3>1, <3>2 DEF InsertShows, Samples!Enclosed
  <2> QED
    BY <1>1, <2>3, <2>4, ShotFields
<1>7. QuietShots'
  <2> SUFFICES ASSUME quiet PROVE QuietShots'
    BY <1>3 DEF QuietShots, ReadsInto
  <2>1. UNCHANGED <<bytes, table, seq, quiet>>
    BY <1>3 DEF ReadsInto
  <2>2. ASSUME NEW p \in Samples!Phases
        PROVE  /\ shot'[p].bytes = 0
               /\ shot'[p].seq # None => shot'[p].seq = seq
               /\ shot'[p].count # None => shot'[p].count = Cardinality(DOMAIN table)
               /\ shot'[p].top # None => shot'[p].top = Samples!TopOf(table) /\ shot'[p].seq = seq
               /\ shot'[p].levels # None => shot'[p].levels = Samples!PerLevel(table)
    <3>1. CASE p # phase
      BY <1>1, <1>4, <3>1 DEF QuietShots
    <3>2. CASE p = phase
      <4>1. /\ shot[phase].seq # None => shot[phase].seq = seq
            /\ shot[phase].top # None => shot[phase].top = Samples!TopOf(table) /\ shot[phase].seq = seq
        BY <1>1, <3>2 DEF QuietShots
      <4>2. r.seq # None => r.seq = seq
        BY <1>2
      <4>3. shot[phase].top # None => seq # 0
        <5>1. seq = 0 => table = <<>>
          BY <1>1, NoRows
        <5> QED
          BY <1>1, <4>1, <5>1, QueryValues, SampleConstants DEF SampleTypes
      <4>4. r.top # None => r.top = Samples!TopOf(table) /\ r.seq = seq
        BY <1>2, <4>1, <4>3
      <4> QED
        BY <1>1, <1>2, <1>4, <3>2, <4>2, <4>4 DEF QuietShots
    <3> QED
      BY <3>1, <3>2
  <2>3. seq # 0 => shot'[phase].seq = seq
    BY <1>2, <1>4
  <2> QED
    BY <1>1, <1>3, <2>1, <2>2, <2>3 DEF QuietShots
<1>8. HeldShots'
  BY <1>1, <1>2, <1>3, <1>4, ShotFields DEF HeldShots, ReadsInto
<1> QED
  BY <1>4, <1>5, <1>6, <1>7, <1>8 DEF SampleInvs

\* skipping the aggregates of a large file,
LEMMA SkipStep ==
  ASSUME SampleInvs, Samples!SkipAggregates PROVE SampleInvs'
<1> DEFINE r == shot[phase]
<1>1. SampleTypes /\ PhasesInOrder /\ InsertShows /\ QuietShots /\ HeldShots
  BY DEF SampleInvs
<1>2. /\ r \in Shots /\ r.status = shot[phase].status /\ r.bytes = shot[phase].bytes
      /\ r.seq = shot[phase].seq /\ r.count = shot[phase].count /\ r.top = shot[phase].top
      /\ r.levels = shot[phase].levels /\ r.scan = shot[phase].scan
      /\ r.open = shot[phase].open
  BY <1>1, ShotFields DEF Shots, SampleTypes
<1>3. /\ ReadsInto(r) /\ samplePc = "count" /\ samplePc' = "scan" /\ phase' = phase
  <2>1. shot' = shot /\ shot = [shot EXCEPT ![phase] = shot[phase]]
    BY <1>1 DEF Samples!SkipAggregates, SampleTypes
  <2> QED
    BY <2>1 DEF Samples!SkipAggregates, Samples!Query, Samples!database, Samples!ghosts, ReadsInto
<1> HIDE DEF r
<1>4. /\ SampleTypes' /\ shot'[phase] = r
      /\ \A p \in Samples!Phases : p # phase => shot'[p] = shot[p]
  BY <1>1, <1>2, <1>3, ReadKeeps DEF SampleTypes, Samples!Pcs
<1>5. PhasesInOrder'
  BY <1>1, <1>2, <1>3, <1>4, ShotFields DEF PhasesInOrder, Samples!Unread
<1>6. InsertShows'
  BY <1>1, <1>2, <1>3, <1>4, ShotFields DEF InsertShows, Samples!Enclosed, ReadsInto
<1>7. QuietShots'
  BY <1>1, <1>2, <1>3, <1>4, ShotFields DEF QuietShots, ReadsInto
<1>8. HeldShots'
  BY <1>1, <1>2, <1>3, <1>4, ShotFields DEF HeldShots, ReadsInto
<1> QED
  BY <1>4, <1>5, <1>6, <1>7, <1>8 DEF SampleInvs

\* counting the rows and reading the greatest of their ids,
LEMMA CountStep ==
  ASSUME SampleInvs, Samples!ReadCount PROVE SampleInvs'
<1> DEFINE r == [shot[phase] EXCEPT !.count = Cardinality(DOMAIN table), !.top = Samples!TopOf(table)]
<1>1. SampleTypes /\ PhasesInOrder /\ InsertShows /\ QuietShots /\ HeldShots
  BY DEF SampleInvs
<1>2. /\ r \in Shots /\ r.count = Cardinality(DOMAIN table) /\ r.top = Samples!TopOf(table)
      /\ r.status = shot[phase].status /\ r.bytes = shot[phase].bytes
      /\ r.seq = shot[phase].seq /\ r.levels = shot[phase].levels
      /\ r.scan = shot[phase].scan /\ r.open = shot[phase].open
  BY <1>1, ShotFields, SampleConstants, QueryValues DEF Shots, SampleTypes
<1>3. /\ ReadsInto(r) /\ samplePc = "count" /\ samplePc' = "levels" /\ phase' = phase
  <2>1. shot' = [shot EXCEPT ![phase] = r]
    BY SameCount DEF Samples!ReadCount
  <2> HIDE DEF r
  <2> QED
    BY <2>1 DEF Samples!ReadCount, Samples!Query, Samples!database, Samples!ghosts, ReadsInto
<1> HIDE DEF r
<1>4. /\ SampleTypes' /\ shot'[phase] = r
      /\ \A p \in Samples!Phases : p # phase => shot'[p] = shot[p]
  BY <1>1, <1>2, <1>3, ReadKeeps DEF SampleTypes, Samples!Pcs
<1>5. PhasesInOrder'
  BY <1>1, <1>2, <1>3, <1>4, ShotFields DEF PhasesInOrder, Samples!Unread
<1>6. InsertShows'
  BY <1>1, <1>2, <1>3, <1>4, ShotFields, SampleConstants, QueryValues DEF InsertShows, Samples!Enclosed, ReadsInto
<1>7. QuietShots'
  <2>1. r.top # None => seq # 0
    <3>1. seq = 0 => table = <<>>
      BY <1>1, NoRows
    <3> QED
      BY <1>1, <1>2, <3>1, QueryValues, SampleConstants DEF SampleTypes
  <2>2. quiet /\ seq # 0 => r.seq = seq
    BY <1>1, <1>2, <1>3 DEF QuietShots
  <2> QED
    BY <1>1, <1>2, <1>3, <1>4, <2>1, <2>2, ShotFields DEF QuietShots, ReadsInto
<1>8. HeldShots'
  BY <1>1, <1>2, <1>3, <1>4, ShotFields DEF HeldShots, ReadsInto
<1> QED
  BY <1>4, <1>5, <1>6, <1>7, <1>8 DEF SampleInvs

\* and counting them by level, the last query of a sample.
LEMMA LevelsStep ==
  ASSUME SampleInvs, Samples!ReadLevels PROVE SampleInvs'
<1> DEFINE r == [shot[phase] EXCEPT !.levels = Samples!PerLevel(table), !.full = TRUE]
<1>1. SampleTypes /\ PhasesInOrder /\ InsertShows /\ QuietShots /\ HeldShots
  BY DEF SampleInvs
<1>2. /\ r \in Shots /\ r.levels = Samples!PerLevel(table) /\ r.status = shot[phase].status
      /\ r.bytes = shot[phase].bytes /\ r.seq = shot[phase].seq
      /\ r.count = shot[phase].count /\ r.top = shot[phase].top
      /\ r.scan = shot[phase].scan /\ r.open = shot[phase].open
  BY <1>1, ShotFields DEF Shots, SampleTypes
<1>3. /\ ReadsInto(r) /\ samplePc = "levels" /\ samplePc' = "scan" /\ phase' = phase
  BY DEF Samples!ReadLevels, Samples!Note, Samples!Query, Samples!database, Samples!ghosts, ReadsInto
<1> HIDE DEF r
<1>4. /\ SampleTypes' /\ shot'[phase] = r
      /\ \A p \in Samples!Phases : p # phase => shot'[p] = shot[p]
  BY <1>1, <1>2, <1>3, ReadKeeps DEF SampleTypes, Samples!Pcs
<1>5. PhasesInOrder'
  BY <1>1, <1>2, <1>3, <1>4, ShotFields DEF PhasesInOrder, Samples!Unread
<1>6. InsertShows'
  BY <1>1, <1>2, <1>3, <1>4, ShotFields DEF InsertShows, Samples!Enclosed, ReadsInto
<1>7. QuietShots'
  BY <1>1, <1>2, <1>3, <1>4, ShotFields DEF QuietShots, ReadsInto
<1>8. HeldShots'
  BY <1>1, <1>2, <1>3, <1>4, ShotFields DEF HeldShots, ReadsInto
<1> QED
  BY <1>4, <1>5, <1>6, <1>7, <1>8 DEF SampleInvs

\* A failed inspection keeps the sizes and its status, and what it hides is
\* reported as such.
LEMMA FailStep ==
  ASSUME SampleInvs, Samples!InspectionFails PROVE SampleInvs'
<1>1. SampleTypes /\ PhasesInOrder /\ InsertShows /\ QuietShots /\ HeldShots
  BY DEF SampleInvs
<1> PICK s \in {"error", "partial"} :
           shot' = [shot EXCEPT ![phase] = [Samples!Unread EXCEPT !.status = s, !.bytes = bytes]]
  BY DEF Samples!InspectionFails
<1> DEFINE r == [Samples!Unread EXCEPT !.status = s, !.bytes = bytes]
<1>2. /\ r \in Shots /\ r.status = s /\ r.bytes = bytes /\ r.seq = None /\ r.count = None
      /\ r.top = None /\ r.levels = None /\ r.scan = "none"
  BY <1>1 DEF Shots, SampleTypes, Samples!Unread
<1>3. /\ ReadsInto(r) /\ samplePc' = "scan" /\ phase' = phase
      /\ samplePc \in {"triggers", "sequence", "count", "levels"}
  BY DEF Samples!InspectionFails, Samples!database, Samples!ghosts, ReadsInto
<1> HIDE DEF r
<1>4. /\ SampleTypes' /\ shot'[phase] = r
      /\ \A p \in Samples!Phases : p # phase => shot'[p] = shot[p]
  BY <1>1, <1>2, <1>3, ReadKeeps DEF SampleTypes, Samples!Pcs
<1>5. PhasesInOrder'
  BY <1>1, <1>2, <1>3, <1>4, ShotFields DEF PhasesInOrder, Samples!Unread
<1>6. InsertShows'
  <2>1. shot'[phase].status \in {"error", "partial"} /\ phase \in Samples!Phases
    BY <1>1, <1>2, <1>4 DEF SampleTypes
  <2> QED
    BY <2>1 DEF InsertShows
<1>7. QuietShots'
  BY <1>1, <1>2, <1>3, <1>4, ShotFields DEF QuietShots, ReadsInto
<1>8. HeldShots'
  BY <1>1, <1>2, <1>3, <1>4, ShotFields DEF HeldShots, ReadsInto
<1> QED
  BY <1>4, <1>5, <1>6, <1>7, <1>8 DEF SampleInvs

\* The scan after an inspection.
LEMMA ScanStep ==
  ASSUME SampleInvs, Samples!ScanBefore \/ Samples!ScanAfter PROVE SampleInvs'
<1>1. SampleTypes /\ PhasesInOrder /\ InsertShows /\ QuietShots /\ HeldShots
  BY DEF SampleInvs
<1>2. PICK to \in {"size", "done"} :
        /\ Samples!ScanAndGoOn(to) /\ phase' = "after"
        /\ to = "size" <=> phase = "before"
  BY DEF Samples!ScanBefore, Samples!ScanAfter
<1>3. PICK s \in {"ok", "partial", "unsupported"}, o \in BOOLEAN :
        /\ shot' = [shot EXCEPT ![phase] = [shot[phase] EXCEPT !.scan = s, !.open = o]]
        /\ s = "ok" /\ codex => o
  <2>1. CASE shot' = [shot EXCEPT ![phase] = [shot[phase] EXCEPT !.scan = "ok", !.open = codex]]
    BY <1>1, <2>1 DEF SampleTypes
  <2>2. CASE \E o \in BOOLEAN, s \in {"partial", "unsupported"} :
               shot' = [shot EXCEPT ![phase] = [shot[phase] EXCEPT !.scan = s, !.open = o]]
    BY <2>2
  <2> QED
    BY <1>2, <2>1, <2>2 DEF Samples!ScanAndGoOn
<1> DEFINE r == [shot[phase] EXCEPT !.scan = s, !.open = o]
<1>4. /\ r \in Shots /\ r.scan = s /\ r.open = o /\ r.status = shot[phase].status
      /\ r.bytes = shot[phase].bytes /\ r.seq = shot[phase].seq
      /\ r.count = shot[phase].count /\ r.top = shot[phase].top
      /\ r.levels = shot[phase].levels
  BY <1>1, ShotFields DEF Shots
<1>5. ReadsInto(r) /\ samplePc = "scan" /\ samplePc' = to
  BY <1>2, <1>3 DEF Samples!ScanAndGoOn, Samples!database, Samples!ghosts, ReadsInto
<1> HIDE DEF r
<1>6. /\ SampleTypes' /\ shot'[phase] = r
      /\ \A p \in Samples!Phases : p # phase => shot'[p] = shot[p]
  BY <1>1, <1>2, <1>4, <1>5, ReadKeeps DEF SampleTypes, Samples!Pcs, Samples!Phases
<1>7. PhasesInOrder'
  BY <1>1, <1>2, <1>5, <1>6, ShotFields DEF PhasesInOrder
<1>8. InsertShows'
  <2>1. \A p \in Samples!Phases : shot'[p].status = shot[p].status /\ shot'[p].seq = shot[p].seq
    BY <1>4, <1>6
  <2> QED
    BY <1>1, <1>2, <1>5, <2>1, ShotFields DEF InsertShows, Samples!Enclosed, ReadsInto
<1>9. QuietShots'
  BY <1>1, <1>2, <1>4, <1>5, <1>6, ShotFields DEF QuietShots, ReadsInto
<1>10. HeldShots'
  BY <1>1, <1>3, <1>4, <1>5, <1>6, ShotFields DEF HeldShots, ReadsInto
<1> QED
  BY <1>6, <1>7, <1>8, <1>9, <1>10 DEF SampleInvs

-----------------------------------------------------------------------------
(* The samples: the steps of Codex *)

SampleElsewhere ==
  \/ Samples!Insert \/ Samples!Prune \/ Samples!Recreate \/ Samples!Checkpoint
  \/ Samples!Opens \/ Samples!Closes

\* What Codex does to the rows meanwhile: the sequence only grows unless the
\* table is recreated, and it grows by an insert.
LEMMA ElsewhereRows ==
  ASSUME SampleTypes, SampleElsewhere
  PROVE  /\ table' \in Samples!Tables /\ seq' \in 0..MaxId /\ DOMAIN table' \subseteq 1..seq'
         /\ ~recreated' => seq <= seq' /\ ~recreated
         /\ inserted' = inserted \/ (Samples!Enclosed /\ seq < seq')
         /\ inserted' \in BOOLEAN /\ recreated' \in BOOLEAN
<1>1. table \in Samples!Tables /\ seq \in 0..MaxId /\ DOMAIN table \subseteq 1..seq /\ MaxId \in Nat
  BY SampleConstants DEF SampleTypes
<1>2. inserted \in BOOLEAN /\ recreated \in BOOLEAN /\ seq \in Nat
  BY SampleConstants DEF SampleTypes
<1>3. table \in [DOMAIN table -> Levels] /\ DOMAIN table \subseteq Samples!Ids
  BY <1>1 DEF Samples!Tables
<1>4. CASE Samples!Insert
  <2>1. PICK l \in Levels :
          table' = [i \in DOMAIN table \cup {seq + 1} |-> IF i = seq + 1 THEN l ELSE table[i]]
    BY <1>4 DEF Samples!Insert
  <2>2. seq' = seq + 1 /\ seq + 1 \in 1..MaxId
    BY <1>1, <1>2, <1>4 DEF Samples!Insert
  <2>3. DOMAIN table' = DOMAIN table \cup {seq + 1}
    BY <2>1
  <2>4. table' \in [DOMAIN table \cup {seq + 1} -> Levels]
    BY <1>3, <2>1
  <2>5. DOMAIN table \cup {seq + 1} \in SUBSET Samples!Ids
    BY <1>3, <2>2 DEF Samples!Ids
  <2>6. table' \in Samples!Tables
    BY <2>4, <2>5 DEF Samples!Tables
  <2>7. DOMAIN table' \subseteq 1..(seq + 1)
    BY <1>1, <1>2, <2>3
  <2>8. inserted' = (inserted \/ Samples!Enclosed) /\ recreated' = recreated
    BY <1>4 DEF Samples!Insert
  <2>9. inserted' = inserted \/ Samples!Enclosed
    BY <1>2, <2>8 DEF Samples!Enclosed
  <2>10. inserted' \in BOOLEAN
    BY <1>2, <2>8
  <2> QED
    BY <1>1, <1>2, <2>2, <2>6, <2>7, <2>8, <2>9, <2>10
<1>5. CASE Samples!Prune
  <2>1. PICK S \in SUBSET DOMAIN table : table' = [i \in DOMAIN table \ S |-> table[i]]
    BY <1>5 DEF Samples!Prune
  <2>2. table' \in [DOMAIN table \ S -> Levels] /\ DOMAIN table \ S \in SUBSET Samples!Ids
    BY <1>3, <2>1
  <2>3. table' \in Samples!Tables /\ DOMAIN table' \subseteq DOMAIN table
    BY <2>1, <2>2 DEF Samples!Tables
  <2> QED
    BY <1>1, <1>2, <1>5, <2>3 DEF Samples!Prune
<1>6. CASE Samples!Recreate
  <2>1. table' = <<>> /\ seq' = 0 /\ recreated' = TRUE /\ inserted' = inserted
    BY <1>6 DEF Samples!Recreate
  <2>2. <<>> \in [{} -> Levels] /\ {} \in SUBSET Samples!Ids
    OBVIOUS
  <2> QED
    BY <1>1, <1>2, <2>1, <2>2 DEF Samples!Tables
<1>7. CASE Samples!Checkpoint \/ Samples!Opens \/ Samples!Closes
  BY <1>1, <1>2, <1>7 DEF Samples!Checkpoint, Samples!Opens, Samples!Closes, Samples!OpenOrClose
<1> QED
  BY <1>4, <1>5, <1>6, <1>7 DEF SampleElsewhere

\* Codex, running beside the samples, keeps the invariants.
LEMMA SampleElsewhereStep ==
  ASSUME SampleInvs, SampleElsewhere PROVE SampleInvs'
<1>1. SampleTypes /\ PhasesInOrder /\ InsertShows /\ QuietShots /\ HeldShots
  BY DEF SampleInvs
<1>2. /\ UNCHANGED <<large, altered, phase, samplePc, fullScan, shot>>
      /\ sampleCount < SampleEvents /\ sampleCount' = sampleCount + 1
  BY DEF SampleElsewhere, Samples!Insert, Samples!Prune, Samples!Recreate, Samples!Checkpoint,
         Samples!Opens, Samples!Closes, Samples!Writes, Samples!OpenOrClose
<1>3. /\ bytes' \in Samples!Sizes /\ codex' \in BOOLEAN /\ quiet' \in BOOLEAN
      /\ heldAlways' \in BOOLEAN /\ (heldAlways' => heldAlways /\ codex' = codex)
      /\ quiet' => quiet /\ UNCHANGED <<bytes, table, seq>>
  <2>1. /\ bytes \in Samples!Sizes /\ codex \in BOOLEAN /\ quiet \in BOOLEAN
        /\ heldAlways \in BOOLEAN
    BY <1>1 DEF SampleTypes
  <2>2. CASE Samples!Writes
    BY <2>1, <2>2 DEF Samples!Writes
  <2>3. CASE Samples!Opens
    BY <2>1, <2>3 DEF Samples!Opens, Samples!OpenOrClose
  <2>4. CASE Samples!Closes
    BY <2>1, <2>4 DEF Samples!Closes, Samples!OpenOrClose
  <2> QED
    BY <2>2, <2>3, <2>4
    DEF SampleElsewhere, Samples!Insert, Samples!Prune, Samples!Recreate, Samples!Checkpoint
<1>4. SampleTypes'
  BY <1>1, <1>2, <1>3, ElsewhereRows, SampleConstants DEF SampleTypes
<1>5. PhasesInOrder'
  BY <1>1, <1>2 DEF PhasesInOrder
<1>6. InsertShows'
  <2> SUFFICES ASSUME ~recreated',
                      \A p \in Samples!Phases : shot[p].status \notin {"error", "partial"}
               PROVE  InsertShows'
    BY <1>2 DEF InsertShows
  <2>1. seq \in Nat /\ seq' \in Nat /\ seq <= seq' /\ ~recreated
    BY <1>1, ElsewhereRows, SampleConstants DEF SampleTypes
  <2>2. inserted' = inserted \/ (Samples!Enclosed /\ seq < seq')
    BY <1>1, ElsewhereRows
  <2>3. Samples!Enclosed' <=> Samples!Enclosed
    BY <1>2 DEF Samples!Enclosed
  <2>4. phase = "before" /\ samplePc \in {"size", "triggers", "sequence"} => ~inserted'
    BY <1>1, <2>1, <2>2 DEF InsertShows, Samples!Enclosed
  <2>5. ASSUME shot["before"].seq # None, Samples!Enclosed
        PROVE  shot["before"].seq <= seq' /\ (inserted' => shot["before"].seq < seq')
    <3>1. shot["before"].seq <= seq /\ (inserted => shot["before"].seq < seq)
      BY <1>1, <2>1, <2>5 DEF InsertShows
    <3>2. shot["before"].seq \in Nat
      BY <1>1, <2>5, ShotFields
    <3> QED
      BY <2>1, <2>2, <3>1, <3>2
  <2>6. ASSUME shot["before"].seq # None, phase = "after",
               samplePc \in {"count", "levels", "scan", "done"}, inserted'
        PROVE  shot["after"].seq # None /\ shot["before"].seq < shot["after"].seq
    <3>1. ~Samples!Enclosed
      BY <2>6 DEF Samples!Enclosed
    <3> QED
      BY <1>1, <2>1, <2>2, <2>6, <3>1 DEF InsertShows
  <2> QED
    BY <1>2, <2>3, <2>4, <2>5, <2>6 DEF InsertShows
<1>7. QuietShots'
  BY <1>1, <1>2, <1>3 DEF QuietShots
<1>8. HeldShots'
  BY <1>1, <1>2, <1>3 DEF HeldShots
<1> QED
  BY <1>4, <1>5, <1>6, <1>7, <1>8 DEF SampleInvs

\* The sample keeps its invariant while it runs.
SampleInv == command = "sample" => SampleInvs

\* Every sample, with any number of levels and rows and any number of writes, prunes,
\* upgrades, opens and closes.
THEOREM SampleInvariance == CommandSpec => []SampleInv
<1>1. CommandInit => SampleInv
  BY SampleStarts DEF CommandInit, SampleInv
<1>2. ASSUME SampleInv, [CommandNext]_allVars PROVE SampleInv'
  <2>1. CASE SampleCommand
    <3>1. command = "sample" /\ SampleInvs
      BY <1>2, <2>1 DEF SampleCommand, SampleInv
    <3>2. \/ Samples!ReadSizes \/ Samples!ReadTriggers \/ Samples!ReadSequence
          \/ Samples!SkipAggregates \/ Samples!ReadCount \/ Samples!ReadLevels
          \/ Samples!InspectionFails \/ Samples!ScanBefore \/ Samples!ScanAfter
          \/ SampleElsewhere
      BY <2>1 DEF SampleCommand, Samples!Next, SampleElsewhere
    <3>3. SampleInvs'
      BY <3>1, <3>2, SizesStep, TriggersStep, SequenceStep, SkipStep, CountStep, LevelsStep,
         FailStep, ScanStep, SampleElsewhereStep
    <3> QED
      BY <3>3 DEF SampleInv
  <2>2. CASE VerifyCommand \/ AuditCommand
    BY <2>2 DEF VerifyCommand, AuditCommand, SampleInv
  <2>3. CASE UNCHANGED allVars
    <3>1. UNCHANGED <<command, sampleVars>>
      BY <2>3 DEF allVars
    <3> QED
      BY <1>2, <3>1
      DEF sampleVars, SampleInv, SampleInvs, SampleTypes, PhasesInOrder, InsertShows, QuietShots,
          HeldShots, Samples!Enclosed
  <2> QED
    BY <1>2, <2>1, <2>2, <2>3 DEF CommandNext
<1> QED
  BY <1>1, <1>2, PTL DEF CommandSpec

\* A sample reports an insert between its two reads of the sequence, also when the row
\* is pruned again or the aggregates are skipped.
THEOREM InsertIsReported == CommandSpec => []NoInsertMissed
<1>1. SampleInv => NoInsertMissed
  <2> SUFFICES ASSUME command = "sample", SampleInvs, samplePc = "done", inserted, ~recreated,
                      shot["before"].seq # None,
                      \A p \in Samples!Phases : shot[p].status \notin {"error", "partial"}
               PROVE  Samples!LogicalChange
    BY DEF SampleInv, NoInsertMissed, Samples!NoInsertMissed, Samples!Done, Samples!Status
  <2>1. SampleTypes /\ phase = "after"
    BY DEF SampleInvs, PhasesInOrder
  <2>2. shot["after"].seq # None /\ shot["before"].seq < shot["after"].seq
    BY <2>1 DEF SampleInvs, InsertShows
  <2>3. shot["before"].seq \in Nat /\ shot["after"].seq \in Nat
    BY <2>1, <2>2, ShotFields
  <2>4. Samples!Moved(shot["before"], shot["after"], "seq")
    BY <2>2, <2>3 DEF Samples!Moved
  <2> QED
    BY <2>4 DEF Samples!LogicalChange, Samples!Changed
<1> QED
  BY <1>1, SampleInvariance, PTL

\* A sample of a database that nobody wrote or closed reports no change.
THEOREM QuietIsQuiet == CommandSpec => []QuietIsReportedQuiet
<1>1. SampleInv => QuietIsReportedQuiet
  <2> SUFFICES ASSUME command = "sample", SampleInvs, quiet PROVE ~Samples!LogicalChange
    BY DEF SampleInv, QuietIsReportedQuiet, Samples!QuietIsReportedQuiet
  <2> DEFINE f == shot["before"]
             g == shot["after"]
  <2>1. /\ f.bytes = g.bytes
        /\ f.seq # None /\ g.seq # None => f.seq = g.seq
        /\ f.count # None /\ g.count # None => f.count = g.count
        /\ f.top # None /\ g.top # None => f.top = g.top
        /\ f.levels # None /\ g.levels # None => f.levels = g.levels
    BY DEF SampleInvs, QuietShots, Samples!Phases
  <2> HIDE DEF f, g
  <2>2. ~Samples!Changed(f, g)
    BY <2>1 DEF Samples!Changed, Samples!Moved, Samples!LevelsMoved
  <2> QED
    BY <2>2 DEF f, g, Samples!LogicalChange
<1> QED
  BY <1>1, SampleInvariance, PTL

\* A Codex that holds the database throughout is seen if one scan is complete.
THEOREM HolderIsSeen == CommandSpec => []HeldIsSeen
<1>1. SampleInv => HeldIsSeen
  BY DEF SampleInv, SampleInvs, HeldIsSeen, Samples!HeldIsSeen, HeldShots, Samples!TargetOpen
<1> QED
  BY <1>1, SampleInvariance, PTL

-----------------------------------------------------------------------------
(* The verify command *)

USE DEF Step, Happens, Finish, Pcs, Exits, Statuses, world

-----------------------------------------------------------------------------
(* The verify command: the inductive invariant *)

\* What the command has seen.
Sights ==
  [inspection : {"none", "ok", "error", "partial"},
   sample : {"none", "ok", "error", "partial"}, mismatch : BOOLEAN,
   status : Statuses, file : BOOLEAN, base : BOOLEAN, trigs : SUBSET Triggers]

\* The command has no exit code before it is done.
EndsOnce == pc # "done" => exit = "none"

\* From the identity to the connection the path still names the file that was
\* compared, and from then on the connection is to that file.
FileIsBound ==
  /\ pc = "identified" /\ saw.file => path = Mitigated
  /\ pc \in {"opened", "read"} /\ saw.file => conn = Mitigated
  /\ exit = "ok" => conn = Mitigated

\* A manifest leaves the status prepared only with a verification, and no
\* verification is taken back.
StatusIsConfirmed ==
  /\ manifest # "prepared" => confirmed
  /\ saw.status # "prepared" => confirmed
  /\ exit = "ok" => confirmed

\* As long as nothing happens, what was read is what is there.
ReadsAgree ==
  events = 0 =>
    /\ pc \in {"loaded", "identified", "opened", "read"} =>
         given /\ saw.status = manifest
    /\ pc \in {"identified", "opened", "read"} => saw.file = (path = Mitigated)
    /\ pc \in {"opened", "read"} =>
         conn = path /\ path \in Files /\ saw.base = db[path].base
    /\ pc = "read" => saw.trigs = db[path].trigs
    /\ exit = "ok" => Agrees
    /\ exit = "partial" /\ Agrees => ~ObservationsOk

VerifyInv ==
  /\ TypeOK /\ saw \in Sights
  /\ EndsOnce /\ (~SwapLate => FileIsBound) /\ StatusIsConfirmed /\ ReadsAgree

-----------------------------------------------------------------------------
\* A read of the command; a way for it to end; a step of everyone else.
Reads ==
  \/ Inspect \/ InspectFails \/ Sample \/ LoadManifest \/ ReadIdentity \/ Connect
  \/ ReadTriggers
Ends == NotFound \/ LoadFails \/ WithoutManifest \/ Raises \/ Report
Elsewhere ==
  \/ ApplyCommits \/ ApplySeals \/ RollbackCommits \/ RollbackSeals
  \/ Upgrade \/ TriggerComesOrGoes \/ Replace

\* Next is one of the three.
LEMMA NextCases == Next <=> Reads \/ Ends \/ Elsewhere
BY DEF Next, Reads, Ends, Elsewhere

\* The initial state is well typed and satisfies the invariant.
LEMMA InitInv ==
  ASSUME VerifyConstants, Init PROVE VerifyInv
<1> USE DEF VerifyConstants, Init, Unseen
<1>1. TypeOK /\ saw \in Sights
  BY DEF TypeOK, Sights
<1>2. EndsOnce /\ FileIsBound /\ StatusIsConfirmed /\ ReadsAgree
  BY DEF EndsOnce, FileIsBound, StatusIsConfirmed, ReadsAgree
<1> QED
  BY <1>1, <1>2 DEF VerifyInv

\* A file's content is a base and a set of triggers.
LEMMA ContentType ==
  ASSUME NEW c \in Contents
  PROVE  /\ c.base \in BOOLEAN /\ c.trigs \subseteq Triggers
         /\ \A ts \in SUBSET Triggers : [c EXCEPT !.trigs = ts] \in Contents
BY DEF Contents

\* Every step keeps the types, and a command that has ended stays so.
LEMMA TypeStep ==
  ASSUME VerifyConstants, TypeOK, saw \in Sights, EndsOnce, [Next]_vars
  PROVE  TypeOK' /\ (saw \in Sights)' /\ EndsOnce'
<1> USE DEF VerifyConstants, TypeOK, EndsOnce
<1>1. CASE Reads
  <2> USE DEF Sights
  <2>1. CASE Inspect \/ InspectFails \/ Sample \/ LoadManifest \/ ReadIdentity
    BY <2>1 DEF Inspect, InspectFails, Sample, LoadManifest, ReadIdentity, Inspection,
                Loaded, SameFile
  <2>2. CASE Connect
    BY <2>2, ContentType DEF Connect
  <2>3. CASE ReadTriggers
    BY <2>3, ContentType DEF ReadTriggers
  <2> QED
    BY <1>1, <2>1, <2>2, <2>3 DEF Reads
<1>2. CASE Ends
  BY <1>2 DEF Ends, NotFound, LoadFails, WithoutManifest, Raises, Report
<1>3. CASE Elsewhere
  <2>1. UNCHANGED <<given, pc, conn, saw, exit>> /\ events' \in 0..MaxEvents
    BY <1>3
    DEF Elsewhere, ApplyCommits, ApplySeals, RollbackCommits, RollbackSeals,
        Upgrade, TriggerComesOrGoes, Replace
  <2>2. path' \in Files \cup {"nothing"} /\ manifest' \in Statuses /\ confirmed' \in BOOLEAN
    BY <1>3
    DEF Elsewhere, ApplyCommits, ApplySeals, RollbackCommits, RollbackSeals,
        Upgrade, TriggerComesOrGoes, Replace
  <2>3. db' \in [Files -> Contents]
    <3>1. CASE ApplySeals \/ RollbackSeals \/ Replace
      BY <3>1 DEF ApplySeals, RollbackSeals, Replace
    <3>2. CASE ApplyCommits \/ RollbackCommits
      <4>1. {"exact"} \in SUBSET Triggers /\ {} \in SUBSET Triggers
        BY DEF Triggers
      <4>2. path \in Files
        BY <3>2 DEF ApplyCommits, RollbackCommits
      <4> QED
        BY <3>2, <4>1, <4>2, ContentType DEF ApplyCommits, RollbackCommits
    <3>3. CASE Upgrade
      BY <3>3, ContentType DEF Upgrade, Contents
    <3>4. CASE TriggerComesOrGoes
      <4>1. path \in Files /\ db[path] \in Contents
        BY <3>4 DEF TriggerComesOrGoes
      <4>2. PICK t \in {"other", "bad"} :
              db' = [db EXCEPT ![path].trigs = IF t \in @ THEN @ \ {t} ELSE @ \cup {t}]
        BY <3>4 DEF TriggerComesOrGoes
      <4> DEFINE ts == db[path].trigs
                 us == IF t \in ts THEN ts \ {t} ELSE ts \cup {t}
      <4>3. us \in SUBSET Triggers
        BY <4>1, ContentType DEF Triggers
      <4>4. db' = [db EXCEPT ![path] = [db[path] EXCEPT !.trigs = us]]
        BY <4>1, <4>2
      <4> QED
        BY <4>1, <4>3, <4>4, ContentType
    <3> QED
      BY <1>3, <3>1, <3>2, <3>3, <3>4 DEF Elsewhere
  <2> QED
    BY <2>1, <2>2, <2>3
<1>4. CASE UNCHANGED vars
  BY <1>4 DEF vars
<1> QED
  BY <1>1, <1>2, <1>3, <1>4, NextCases

\* Without a replacement at the wrong moment, every step keeps the connection
\* with the file that was compared.
LEMMA BoundStep ==
  ASSUME VerifyConstants, ~SwapLate, TypeOK, saw \in Sights, EndsOnce, FileIsBound,
         [Next]_vars
  PROVE  FileIsBound'
<1> USE DEF VerifyConstants, TypeOK, EndsOnce, FileIsBound, Sights
<1>1. CASE Reads
  BY <1>1 DEF Reads, Inspect, InspectFails, Sample, LoadManifest, ReadIdentity, Connect,
              ReadTriggers, SameFile
<1>2. CASE Ends
  BY <1>2 DEF Ends, NotFound, LoadFails, WithoutManifest, Raises, Report, ManifestMatches
<1>3. CASE Elsewhere
  BY <1>3 DEF Elsewhere, ApplyCommits, ApplySeals, RollbackCommits, RollbackSeals,
              Upgrade, TriggerComesOrGoes, Replace
<1>4. CASE UNCHANGED vars
  BY <1>4 DEF vars
<1> QED
  BY <1>1, <1>2, <1>3, <1>4, NextCases

\* Every step keeps the status that was read a confirmed one.
LEMMA ConfirmedStep ==
  ASSUME TypeOK, saw \in Sights, EndsOnce, StatusIsConfirmed, [Next]_vars
  PROVE  StatusIsConfirmed'
<1> USE DEF TypeOK, EndsOnce, StatusIsConfirmed, Sights
<1>1. CASE Reads
  BY <1>1 DEF Reads, Inspect, InspectFails, Sample, LoadManifest, ReadIdentity, Connect,
              ReadTriggers, Loaded
<1>2. CASE Ends
  BY <1>2 DEF Ends, NotFound, LoadFails, WithoutManifest, Raises, Report, ManifestMatches,
              Settled
<1>3. CASE Elsewhere
  BY <1>3 DEF Elsewhere, ApplyCommits, ApplySeals, RollbackCommits, RollbackSeals,
              Upgrade, TriggerComesOrGoes, Replace
<1>4. CASE UNCHANGED vars
  BY <1>4 DEF vars
<1> QED
  BY <1>1, <1>2, <1>3, <1>4, NextCases

\* A quiet command's reads agree with the machine, and so does its verdict.
LEMMA AgreeStep ==
  ASSUME VerifyConstants, TypeOK, saw \in Sights, EndsOnce, ReadsAgree, [Next]_vars
  PROVE  ReadsAgree'
<1> USE DEF VerifyConstants, TypeOK, EndsOnce, ReadsAgree
<1>1. CASE Reads
  <2>1. UNCHANGED <<path, db, manifest, given, exit, events>> /\ exit = "none"
    BY <1>1 DEF Reads, Inspect, InspectFails, Sample, LoadManifest, ReadIdentity,
                Connect, ReadTriggers
  <2>2. CASE Inspect \/ InspectFails \/ Sample \/ LoadManifest
    BY <2>1, <2>2 DEF Inspect, InspectFails, Sample, LoadManifest, Loaded, Sights
  <2>3. CASE ReadIdentity
    BY <2>1, <2>3 DEF ReadIdentity, SameFile, Sights
  <2>4. CASE Connect
    BY <2>1, <2>4 DEF Connect, Sights
  <2>5. CASE ReadTriggers
    BY <2>1, <2>5 DEF ReadTriggers, Sights
  <2> QED
    BY <1>1, <2>2, <2>3, <2>4, <2>5 DEF Reads
<1>2. CASE NotFound \/ LoadFails \/ WithoutManifest \/ Raises
  BY <1>2 DEF NotFound, LoadFails, WithoutManifest, Raises, Agrees
<1>3. CASE Report
  <2>1. SUFFICES ASSUME events = 0 PROVE ReadsAgree'
    BY <1>3 DEF Report
  <2>2. /\ given /\ saw.status = manifest /\ saw.file = (path = Mitigated)
        /\ saw.base = db[path].base /\ saw.trigs = db[path].trigs
        /\ path \in Files /\ db[path].base \in BOOLEAN
    BY <1>3, <2>1, ContentType DEF Report
  <2>3. ManifestMatches <=> Agrees
    BY <2>2 DEF ManifestMatches, Settled, Expected, Agrees
  <2>4. /\ pc' = "done" /\ UNCHANGED <<world, given, conn, saw, events>>
        /\ exit' = IF ObservationsOk /\ ManifestMatches THEN "ok" ELSE "partial"
    BY <1>3 DEF Report
  <2>5. (Agrees' <=> Agrees) /\ (ObservationsOk' <=> ObservationsOk)
    BY <2>4 DEF Agrees, ObservationsOk
  <2> QED
    BY <2>3, <2>4, <2>5
<1>4. CASE Elsewhere
  BY <1>4 DEF Elsewhere, ApplyCommits, ApplySeals, RollbackCommits, RollbackSeals,
              Upgrade, TriggerComesOrGoes, Replace
<1>5. CASE UNCHANGED vars
  BY <1>5 DEF vars, Agrees, ObservationsOk
<1> QED
  BY <1>1, <1>2, <1>3, <1>4, <1>5, NextCases DEF Ends

\* Seen from verify, the other commands do nothing.
LEMMA VerifiesAreVerifies == CommandSpec => Spec
<1>1. CommandInit => Init
  BY DEF CommandInit, NoVerify
<1>2. [CommandNext]_allVars => [Next]_vars
  BY DEF CommandNext, SampleCommand, VerifyCommand, AuditCommand, allVars
<1> QED
  BY <1>1, <1>2, PTL DEF CommandSpec, Spec

\* Every verify, with any set of files and any number of events.
THEOREM VerifyInvariant == CommandSpec => []VerifyInv
<1>1. VerifyConstants
  BY ReadCommandsConstants
<1>2. Init => VerifyInv
  BY <1>1, InitInv
<1>3. VerifyInv /\ [Next]_vars => VerifyInv'
  BY <1>1, TypeStep, BoundStep, ConfirmedStep, AgreeStep DEF VerifyInv
<1> QED
  BY <1>2, <1>3, VerifiesAreVerifies, PTL DEF Spec

\* Exit code 0 is about the file the manifest was written for, when that file is not
\* replaced between the reads of its identity and of its triggers.
THEOREM OkIsAboutTheObject ==
  ASSUME ~SwapLate PROVE CommandSpec => []OkBindsObject
<1>1. VerifyInv => OkBindsObject
  BY DEF VerifyInv, FileIsBound, OkBindsObject
<1> QED
  BY <1>1, VerifyInvariant, PTL

\* Exit code 0 is about an apply or rollback that verified the database itself.
THEOREM OkIsConfirmed == CommandSpec => []OkWasConfirmed
<1>1. VerifyInv => OkWasConfirmed
  BY DEF VerifyInv, StatusIsConfirmed, OkWasConfirmed
<1> QED
  BY <1>1, VerifyInvariant, PTL

\* With nothing else going on, exit code 0 is given exactly when file, schema and
\* trigger set are the manifest's.
THEOREM QuietIsExact == CommandSpec => []QuietVerdict
<1>1. VerifyInv => QuietVerdict
  BY DEF VerifyInv, ReadsAgree, QuietVerdict, ObservationsOk
<1> QED
  BY <1>1, VerifyInvariant, PTL

-----------------------------------------------------------------------------
(* The types of all parts                                                    *)

\* The types of whatever command runs; the greatest id that a sample returns is never
\* above the sequence, unless Codex wrote in between.
THEOREM PartsHaveTypes == CommandSpec => []PartsTypeOK
<1>1. SampleInvs => Samples!TypeOK
  <2> SUFFICES ASSUME SampleInvs PROVE Samples!TypeOK
    OBVIOUS
  <2>1. SampleTypes
    BY DEF SampleInvs
  <2>2. ASSUME NEW p \in Samples!Phases
        PROVE  /\ shot[p].status \in {"none", "ok", "error", "partial"}
               /\ shot[p].seq \in 0..MaxId \cup {None}
               /\ shot[p].top \in Samples!Ids \cup {None}
               /\ shot[p].count \in 0..MaxId \cup {None}
    BY <2>1, <2>2 DEF SampleTypes, Shots
  <2>3. ASSUME NEW p \in Samples!Phases, shot[p].top # None, quiet
        PROVE  shot[p].top <= shot[p].seq
    <3>1. shot[p].top = Samples!TopOf(table) /\ shot[p].seq = seq
      BY <2>3 DEF SampleInvs, QuietShots
    <3>2. Samples!TopOf(table) \in DOMAIN table
      BY <2>1, <2>3, <3>1, QueryValues, SampleConstants DEF SampleTypes
    <3>3. Samples!TopOf(table) \in 1..seq /\ seq \in Nat
      BY <2>1, <3>2 DEF SampleTypes
    <3> QED
      BY <3>1, <3>3
  <2> QED
    BY <2>1, <2>2, <2>3 DEF SampleTypes, Samples!TypeOK
<1>2. VerifyInv /\ SampleInv /\ AuditInv => PartsTypeOK
  BY <1>1 DEF PartsTypeOK, VerifyInv, SampleInv, AuditInv, AuditInvs
<1> QED
  BY <1>2, VerifyInvariant, SampleInvariance, AuditInvariance, PTL
=============================================================================
