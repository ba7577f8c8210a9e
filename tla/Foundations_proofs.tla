-------------------------- MODULE Foundations_proofs --------------------------
(***************************************************************************)
(* Proofs about Foundations for any number of processes, databases, places,  *)
(* mounts and writers: every invariant that MCFoundations checks.  The gate  *)
(* comes first, then the locality of a target, the discovery of candidates   *)
(* (what the roots are, which of them is current, and the visits), and the   *)
(* artifact writes, whose theorems are those of ArtifactWrite_proofs.        *)
(***************************************************************************)
EXTENDS Foundations, ArtifactWrite_proofs, Sequences, TLAPS

-----------------------------------------------------------------------------
(* The process gate: the types *)

\* The process table changes one process at a time, never the doctor.  A process
\* that has gone is nothing, one that starts holds nothing, and a process never
\* changes its owner.
Changes(p, q) ==
  /\ q \in Scan!Process
  /\ ~q.alive => ~q.codex /\ q.holds = {}
  /\ q.alive /\ ~proc[p].alive => q.holds = {}
  /\ q.alive /\ proc[p].alive => q.mine = proc[p].mine
  /\ Scan!Change(p, q)

\* Every step of the process table is a change of one process other than the
\* doctor.
LEMMA TableStep ==
  ASSUME Scan!TypeOK, Scan!TableOK, Scan!TableNext
  PROVE  \E p \in Scan!Others, q \in Scan!Process : Changes(p, q)
<1> USE DEF Changes, Scan!Process, Scan!TypeOK, Scan!TableOK, Scan!Others
<1>1. PICK p \in Scan!Others :
        \/ Scan!Start(p) \/ Scan!Exit(p) \/ Scan!Exec(p)
        \/ \E d \in Databases : Scan!Open(p, d) \/ Scan!Close(p, d)
  BY DEF Scan!TableNext
<1>2. proc[p] \in Scan!Process
  OBVIOUS
<1>3. CASE Scan!Start(p)
  BY <1>3 DEF Scan!Start
<1>4. CASE Scan!Exit(p)
  BY <1>4 DEF Scan!Exit
<1>5. CASE Scan!Exec(p)
  BY <1>2, <1>5 DEF Scan!Exec
<1>6. ASSUME NEW d \in Databases, Scan!Open(p, d) PROVE Changes(p, [proc[p] EXCEPT !.holds = @ \cup {d}])
  BY <1>2, <1>6 DEF Scan!Open
<1>7. ASSUME NEW d \in Databases, Scan!Close(p, d) PROVE Changes(p, [proc[p] EXCEPT !.holds = @ \ {d}])
  BY <1>2, <1>7 DEF Scan!Close
<1> QED
  BY <1>1, <1>3, <1>4, <1>5, <1>6, <1>7

\* An observation keeps the types of the report.
Observed ==
  /\ open \in [Pids -> SUBSET Databases]
  /\ scanned \subseteq Pids /\ codexSeen \subseteq scanned

\* A look at a process keeps the types of what the scan has found.
LEMMA ObserveTypes ==
  ASSUME Scan!TypeOK, NEW p \in Pids, NEW isCodex \in BOOLEAN, NEW dbs \in SUBSET Databases,
         Scan!Observe(p, isCodex, dbs)
  PROVE  Observed'
BY DEF Scan!TypeOK, Scan!Observe, Observed

\* Each part of a scan keeps the types.
LEMMA ScanTypeStep ==
  ASSUME Scan!TypeOK, Scan!TableOK, Scan!Next
  PROVE  Scan!TypeOK'
<1> USE FoundationsConstants
    DEF Scan!ScanConstants, Scan!TypeOK, Scan!Pcs, Scan!table, Scan!report, Scan!lsof
<1>1. CASE Scan!TableNext
  <2>1. PICK p \in Scan!Others, q \in Scan!Process : Changes(p, q)
    BY <1>1, TableStep
  <2> QED
    BY <2>1 DEF Changes, Scan!Change, Scan!Others, Scan!Process
<1>2. CASE Scan!LinuxLsof
  <2>1. Scan!Holders \in [Pids -> SUBSET {Selected}] /\ Scan!Empty \in [Pids -> SUBSET {Selected}]
    BY DEF Scan!Holders, Scan!Empty
  <2> QED
    BY <1>2, <2>1 DEF Scan!LinuxLsof, Scan!Degraded, Scan!Codex
<1>3. CASE Scan!LinuxList \/ Scan!ListFails
  BY <1>3 DEF Scan!LinuxList, Scan!ListFails, Scan!Running
<1>4. CASE Scan!LinuxLeftovers
  BY <1>4 DEF Scan!LinuxLeftovers
<1>5. ASSUME NEW p \in Pids, Scan!LinuxStat(p) PROVE Scan!TypeOK'
  BY <1>5 DEF Scan!LinuxStat
<1>6. ASSUME NEW p \in Pids, Scan!LinuxName(p) PROVE Scan!TypeOK'
  BY <1>6 DEF Scan!LinuxName, Scan!Observe, Scan!ReadNext
<1>7. ASSUME NEW p \in Pids, Scan!LinuxNameFails(p) PROVE Scan!TypeOK'
  BY <1>7 DEF Scan!LinuxNameFails, Scan!NameUnreadable, Scan!ReadNext
<1>8. ASSUME NEW p \in Pids, Scan!LinuxFds(p) PROVE Scan!TypeOK'
  <2>1. proc[p].holds \subseteq Databases /\ proc[p].alive \in BOOLEAN
    BY DEF Scan!Process
  <2>2. fds' \subseteq Databases /\ partial' \in BOOLEAN
    BY <1>8, <2>1 DEF Scan!LinuxFds
  <2> QED
    BY <1>8, <2>2 DEF Scan!LinuxFds, Scan!ReadNext
<1>9. ASSUME NEW p \in Pids, Scan!LinuxLinks(p) PROVE Scan!TypeOK'
  <2>1. fds \cap proc[p].holds \subseteq Databases
    OBVIOUS
  <2>2. CASE Scan!Observe(p, TRUE, fds \cap proc[p].holds) /\ UNCHANGED partial
    <3>1. Observed'
      BY <2>1, <2>2, ObserveTypes
    <3> QED
      BY <1>9, <2>2, <3>1 DEF Scan!LinuxLinks, Scan!ReadNext, Observed
  <2>3. CASE UNCHANGED <<scanned, codexSeen, open>> /\ partial' = TRUE
    BY <1>9, <2>3 DEF Scan!LinuxLinks, Scan!ReadNext
  <2> HIDE DEF Scan!TypeOK
  <2> QED
    BY <1>9, <2>2, <2>3 DEF Scan!LinuxLinks
<1>10. CASE Scan!MacList
  BY <1>10 DEF Scan!MacList, Scan!Codex, Scan!Running
<1>11. ASSUME NEW p \in Pids, Scan!MacHandles(p) PROVE Scan!TypeOK'
  <2>1. PICK dbs \in SUBSET Databases : Scan!Observe(p, TRUE, dbs)
    BY <1>11 DEF Scan!MacHandles, Scan!Process
  <2>2. Observed'
    BY <2>1, ObserveTypes
  <2>3. UNCHANGED partial \/ partial' = TRUE
    BY <1>11 DEF Scan!MacHandles
  <2> QED
    BY <1>11, <2>2, <2>3 DEF Scan!MacHandles, Observed
<1>12. CASE Scan!MacLsof
  <2>1. Scan!Holders \in [Pids -> SUBSET {Selected}] /\ Scan!Empty \in [Pids -> SUBSET {Selected}]
    BY DEF Scan!Holders, Scan!Empty
  <2> QED
    BY <1>12, <2>1 DEF Scan!MacLsof, Scan!Degraded, Scan!Codex
<1>13. CASE Scan!Gate
  BY <1>13 DEF Scan!Gate
<1> QED
  BY <1>1, <1>2, <1>3, <1>4, <1>5, <1>6, <1>7, <1>8, <1>9, <1>10, <1>11, <1>12, <1>13
  DEF Scan!Next, Scan!LinuxNext, Scan!MacNext

-----------------------------------------------------------------------------
(* The process gate: what the other processes do *)

\* While the table changes, the scan waits, the doctor stays as it is, and
\* nobody comes to have held the database, or to have been Codex, all along.
LEMMA TableChanges ==
  ASSUME Scan!TypeOK, Scan!TableOK, Scan!TableNext
  PROVE  /\ Scan!TableOK'
         /\ \A p \in Pids : Scan!Holding(p)' => Scan!Holding(p)
         /\ \A p \in Pids : Scan!CodexAllAlong(p)' => Scan!CodexAllAlong(p)
         /\ noise => noise'
         /\ scanPc # "end"
         /\ UNCHANGED <<platform, allowed, scanPc, targets, targetCodex, todo, cur, fds,
                        scanned, codexSeen, open, partial, verdict>>
<1>1. PICK p \in Scan!Others, q \in Scan!Process : Changes(p, q)
  BY TableStep
<1> USE FoundationsConstants DEF Scan!ScanConstants, Scan!TypeOK, Scan!TableOK
<1>2. /\ p \in Pids /\ p # Self /\ q \in Scan!Process
      /\ proc' = [proc EXCEPT ![p] = q]
      /\ kept' = [kept EXCEPT ![p] = @ \cap q.holds]
      /\ codexKept' = IF q.codex THEN codexKept ELSE codexKept \ {p}
      /\ noise' = (noise \/ Scan!Disturbs(p, q))
  BY <1>1 DEF Changes, Scan!Change, Scan!Others
<1>3. scanPc # "end" /\ UNCHANGED <<platform, allowed, scanPc, targets, targetCodex, todo,
        cur, fds, scanned, codexSeen, open, partial, verdict>>
  BY <1>1 DEF Changes, Scan!Change, Scan!lsof, Scan!report
<1>4. \A r \in Pids : r # p => proc'[r] = proc[r] /\ kept'[r] = kept[r]
  BY <1>2
<1>5. proc'[p] = q /\ kept'[p] = kept[p] \cap q.holds
  BY <1>2
<1>6. ~q.alive => ~q.codex /\ q.holds = {}
  BY <1>1 DEF Changes
<1>7. proc'[Self] = proc[Self]
  BY <1>2, <1>4
<1>8. Scan!TableOK'
  <2>1. \A r \in Pids : ~proc'[r].alive => ~proc'[r].codex /\ proc'[r].holds = {}
    BY <1>4, <1>5, <1>6
  <2>2. \A r \in Pids : kept'[r] \subseteq proc'[r].holds
    BY <1>4, <1>5
  <2>3. \A r \in codexKept' : proc'[r].codex
    BY <1>2, <1>4, <1>5
  <2>4. ~noise' => \A r \in Scan!Others : ~proc'[r].codex /\ Selected \notin proc'[r].holds
    BY <1>2, <1>4, <1>5, <1>6 DEF Scan!Disturbs, Scan!Others
  <2> QED
    BY <1>3, <1>7, <2>1, <2>2, <2>3, <2>4
<1>9. q.mine = proc[p].mine \/ kept[p] \cap q.holds = {}
  BY <1>1, <1>6 DEF Changes, Scan!Process
<1>10. \A r \in Pids : Scan!Holding(r)' => Scan!Holding(r)
  BY <1>1, <1>4, <1>5, <1>9 DEF Scan!Holding, Scan!Process, Changes
<1>11. \A r \in Pids : Scan!CodexAllAlong(r)' => Scan!CodexAllAlong(r)
  BY <1>1, <1>2, <1>4, <1>5 DEF Scan!CodexAllAlong, Scan!Process, Changes
<1> QED
  BY <1>2, <1>3, <1>8, <1>10, <1>11

-----------------------------------------------------------------------------
(* The process gate: what the scan and the gate do *)

\* A part of the scan, or the gate, leaves the process table alone and only ever
\* adds to what is incomplete.
LEMMA ScanReads ==
  ASSUME Scan!TypeOK, Scan!Next, ~Scan!TableNext
  PROVE  /\ UNCHANGED <<platform, allowed, proc, kept, codexKept, noise>>
         /\ partial => partial'
<1> USE DEF Scan!table, Scan!report, Scan!lsof
<1>1. CASE Scan!LinuxNext
  <2>1. UNCHANGED <<platform, allowed, proc, kept, codexKept, noise>>
    BY <1>1 DEF Scan!LinuxNext, Scan!LinuxLsof, Scan!LinuxList, Scan!LinuxLeftovers,
         Scan!LinuxStat, Scan!LinuxName, Scan!LinuxNameFails, Scan!LinuxFds, Scan!LinuxLinks
  <2>2. partial' = partial \/ partial' = TRUE \/ \E p \in Pids : partial' = (partial \/ proc[p].alive)
    BY <1>1 DEF Scan!LinuxNext, Scan!LinuxLsof, Scan!LinuxList, Scan!LinuxLeftovers,
         Scan!LinuxStat, Scan!LinuxName, Scan!LinuxNameFails, Scan!NameUnreadable,
         Scan!LinuxFds, Scan!LinuxLinks
  <2> QED
    BY <2>1, <2>2 DEF Scan!TypeOK
<1>2. CASE Scan!MacNext
  <2>1. partial' = partial \/ partial' = TRUE
    BY <1>2 DEF Scan!MacNext, Scan!MacList, Scan!MacLsof, Scan!MacHandles
  <2> QED
    BY <1>2, <2>1 DEF Scan!MacNext, Scan!MacList, Scan!MacLsof, Scan!MacHandles, Scan!TypeOK
<1>3. CASE Scan!ListFails \/ Scan!Gate
  BY <1>3 DEF Scan!ListFails, Scan!Gate, Scan!TypeOK
<1> QED
  BY <1>1, <1>2, <1>3 DEF Scan!Next

\* Where there is no evidence of handles, only the gate is left to do.
LEMMA NoHandlesStep ==
  ASSUME Scan!TypeOK, Scan!NoHandlesOK, Scan!Next, ~Scan!TableNext
  PROVE  Scan!NoHandlesOK'
<1> USE ScanReads DEF Scan!NoHandlesOK, Scan!NoHandles
<1>1. CASE Scan!LinuxNext
  BY <1>1 DEF Scan!LinuxNext, Scan!LinuxLsof, Scan!LinuxList, Scan!LinuxLeftovers,
       Scan!LinuxStat, Scan!LinuxName, Scan!LinuxNameFails, Scan!LinuxFds, Scan!LinuxLinks
<1>2. CASE Scan!MacNext
  BY <1>2 DEF Scan!MacNext, Scan!MacList, Scan!MacLsof, Scan!MacHandles
<1>3. CASE Scan!ListFails \/ Scan!Gate
  BY <1>3 DEF Scan!ListFails, Scan!Gate
<1> QED
  BY <1>1, <1>2, <1>3 DEF Scan!Next

\* On Linux lsof comes first: it names everybody who has held the database since,
\* and later steps leave its answer alone.
LEMMA HoldersStep ==
  ASSUME Scan!TypeOK, Scan!TableOK, Scan!HoldersNamed, Scan!Next, ~Scan!TableNext
  PROVE  Scan!HoldersNamed'
<1>1. UNCHANGED <<platform, allowed, proc, kept, codexKept, noise>> /\ (partial => partial')
  BY ScanReads
<1>2. \A p \in Pids : Scan!Holding(p)' <=> Scan!Holding(p)
  BY <1>1 DEF Scan!Holding
<1>3. CASE Scan!LinuxLsof
  <2>1. \A p \in Pids : Scan!Holding(p) => Scan!Holders[p] # {}
    BY DEF Scan!Holding, Scan!Holders, Scan!TableOK
  <2>2. ~partial' => targets' = Scan!Holders
    BY <1>3 DEF Scan!LinuxLsof, Scan!TypeOK
  <2> QED
    BY <1>2, <2>1, <2>2 DEF Scan!HoldersNamed
<1>4. CASE Scan!LinuxNext /\ ~Scan!LinuxLsof
  <2>1. UNCHANGED targets /\ scanPc # "lsof"
    BY <1>4 DEF Scan!LinuxNext, Scan!LinuxList, Scan!LinuxLeftovers, Scan!LinuxStat,
         Scan!LinuxName, Scan!LinuxNameFails, Scan!LinuxFds, Scan!LinuxLinks, Scan!lsof
  <2> QED
    BY <1>1, <1>2, <2>1 DEF Scan!HoldersNamed
<1>5. CASE Scan!MacNext
  BY <1>1, <1>5 DEF Scan!MacNext, Scan!MacList, Scan!MacLsof, Scan!MacHandles, Scan!HoldersNamed
<1>6. CASE Scan!ListFails \/ Scan!Gate
  BY <1>1, <1>2, <1>6 DEF Scan!ListFails, Scan!Gate, Scan!HoldersNamed, Scan!lsof
<1> QED
  BY <1>3, <1>4, <1>5, <1>6 DEF Scan!Next

\* The list has every Codex of this user, and one leaves it only when it has been
\* observed or the scan has become incomplete.
LEMMA CodexStep ==
  ASSUME Scan!TypeOK, Scan!TableOK, Scan!NoHandlesOK, Scan!CodexListed, Scan!Next, ~Scan!TableNext
  PROVE  Scan!CodexListed'
<1>1. UNCHANGED <<platform, allowed, proc, kept, codexKept, noise>> /\ (partial => partial')
  BY ScanReads
<1>2. \A p \in Pids : Scan!CodexAllAlong(p)' <=> Scan!CodexAllAlong(p)
  BY <1>1 DEF Scan!CodexAllAlong
<1>3. \A p \in Pids : Scan!CodexAllAlong(p) => proc[p].alive /\ proc[p].mine /\ proc[p].codex
  BY DEF Scan!CodexAllAlong, Scan!TableOK, Scan!TypeOK, Scan!Process
<1> USE DEF Scan!CodexListed, Scan!report
<1>4. CASE Scan!LinuxLsof \/ Scan!ListFails \/ Scan!Gate \/ Scan!LinuxLeftovers \/ Scan!MacLsof
  BY <1>1, <1>4 DEF Scan!LinuxLsof, Scan!ListFails, Scan!Gate, Scan!LinuxLeftovers, Scan!MacLsof
<1>5. CASE Scan!LinuxList
  BY <1>2, <1>3, <1>5 DEF Scan!LinuxList, Scan!Running
<1>6. ASSUME NEW p \in Pids, Scan!LinuxStat(p) PROVE Scan!CodexListed'
  BY <1>1, <1>2, <1>3, <1>6 DEF Scan!LinuxStat, Scan!TypeOK
<1>7. ASSUME NEW p \in Pids, Scan!LinuxName(p) PROVE Scan!CodexListed'
  BY <1>1, <1>2, <1>3, <1>7 DEF Scan!LinuxName, Scan!ReadNext, Scan!Observe, Scan!TypeOK
<1>8. ASSUME NEW p \in Pids, Scan!LinuxNameFails(p) PROVE Scan!CodexListed'
  BY <1>1, <1>2, <1>3, <1>8 DEF Scan!LinuxNameFails, Scan!NameUnreadable, Scan!ReadNext, Scan!TypeOK
<1>9. ASSUME NEW p \in Pids, Scan!LinuxFds(p) PROVE Scan!CodexListed'
  BY <1>1, <1>2, <1>3, <1>9 DEF Scan!LinuxFds, Scan!ReadNext, Scan!TypeOK
<1>10. ASSUME NEW p \in Pids, Scan!LinuxLinks(p) PROVE Scan!CodexListed'
  BY <1>1, <1>2, <1>3, <1>10 DEF Scan!LinuxLinks, Scan!ReadNext, Scan!Observe, Scan!TypeOK
<1>11. CASE Scan!MacList
  BY <1>1, <1>2, <1>3, <1>11 DEF Scan!MacList, Scan!Codex, Scan!Running, Scan!TypeOK
<1>12. ASSUME NEW p \in Pids, Scan!MacHandles(p) PROVE Scan!CodexListed'
  <2>1. scanned' = scanned \cup {p} /\ todo' = todo \ {p} /\ scanPc = "stat" /\ scanPc' = "stat"
    BY <1>12 DEF Scan!MacHandles, Scan!Observe
  <2> QED
    BY <1>1, <1>2, <2>1 DEF Scan!TypeOK
<1> QED
  BY <1>4, <1>5, <1>6, <1>7, <1>8, <1>9, <1>10, <1>11, <1>12
  DEF Scan!Next, Scan!LinuxNext, Scan!MacNext

\* The last step before the gate completes the report with what lsof has named.
LEMMA ReportStep ==
  ASSUME Scan!TypeOK, Scan!TableOK, Scan!NoHandlesOK, Scan!HoldersNamed, Scan!CodexListed,
         Scan!ReportComplete, Scan!Next, ~Scan!TableNext
  PROVE  Scan!ReportComplete'
<1>1. UNCHANGED <<platform, allowed, proc, kept, codexKept, noise>> /\ (partial => partial')
  BY ScanReads
<1>2. \A p \in Pids : /\ Scan!CodexAllAlong(p)' <=> Scan!CodexAllAlong(p)
                      /\ Scan!Holding(p)' <=> Scan!Holding(p)
  BY <1>1 DEF Scan!CodexAllAlong, Scan!Holding
<1> USE DEF Scan!ReportComplete
<1>3. CASE Scan!LinuxLeftovers
  <2>1. \A p \in Pids : targets[p] # {} => p \in scanned'
    BY <1>3 DEF Scan!LinuxLeftovers
  <2>2. scanned \subseteq scanned' /\ UNCHANGED partial /\ platform = "linux" /\ todo = {} /\ scanPc = "stat"
    BY <1>3 DEF Scan!LinuxLeftovers
  <2> QED
    BY <1>1, <1>2, <2>1, <2>2 DEF Scan!HoldersNamed, Scan!CodexListed
<1>4. CASE Scan!MacLsof
  <2>1. \A p \in Pids : Scan!Holding(p) => Scan!Holders[p] # {}
    BY DEF Scan!Holding, Scan!Holders, Scan!TableOK
  <2>2. ~partial' => targets' = Scan!Holders
    BY <1>4 DEF Scan!MacLsof, Scan!TypeOK
  <2>3. scanned' = scanned \cup {p \in Pids : targets'[p] # {}} /\ todo = {} /\ scanPc = "stat"
    BY <1>4 DEF Scan!MacLsof
  <2> QED
    BY <1>1, <1>2, <2>1, <2>2, <2>3 DEF Scan!CodexListed
<1>5. CASE Scan!ListFails \/ Scan!Gate
  BY <1>1, <1>2, <1>5 DEF Scan!ListFails, Scan!Gate, Scan!report
<1>6. CASE Scan!LinuxNext /\ ~Scan!LinuxLeftovers
  BY <1>6 DEF Scan!LinuxNext, Scan!LinuxLsof, Scan!LinuxList, Scan!LinuxStat, Scan!LinuxName,
     Scan!LinuxNameFails, Scan!NameUnreadable, Scan!LinuxFds, Scan!LinuxLinks, Scan!ReadNext
<1>7. CASE Scan!MacNext /\ ~Scan!MacLsof
  BY <1>7 DEF Scan!MacNext, Scan!MacList, Scan!MacHandles
<1> QED
  BY <1>3, <1>4, <1>5, <1>6, <1>7 DEF Scan!Next

\* Nobody else being there, whatever the tools answer shows the doctor's own handle
\* at most, and no Codex.
LEMMA OnlySelfThere ==
  ASSUME Scan!TypeOK, Scan!TableOK, ~noise
  PROVE  /\ \A p \in Pids : ~proc[p].codex
         /\ \A p \in Pids : p # Self => Scan!Holders[p] = {}
         /\ Scan!Holders[Self] = IF allowed = {} THEN {} ELSE {Selected}
         /\ Scan!Holders \in [Pids -> SUBSET {Selected}]
         /\ Self \in Pids
         /\ allowed = {} \/ allowed = {Self}
<1> USE FoundationsConstants DEF Scan!ScanConstants, Scan!TypeOK, Scan!TableOK, Scan!Others
<1>1. \A p \in Pids : p # Self => Selected \notin proc[p].holds
  OBVIOUS
<1> QED
  BY <1>1 DEF Scan!Holders

\* When Codex never runs and holds nothing, no step of the scan notes a process
\* other than the doctor itself.
LEMMA OnlySelfStep ==
  ASSUME Scan!TypeOK, Scan!TableOK, Scan!OnlySelfSeen, Scan!Next, ~Scan!TableNext
  PROVE  Scan!OnlySelfSeen'
<1>1. UNCHANGED <<platform, allowed, proc, kept, codexKept, noise>>
  BY ScanReads
<1> SUFFICES ASSUME ~noise PROVE Scan!OnlySelfSeen'
  BY <1>1 DEF Scan!OnlySelfSeen
<1>2. /\ \A p \in Pids : ~proc[p].codex
      /\ \A p \in Pids : p # Self => Scan!Holders[p] = {}
      /\ Scan!Holders[Self] = IF allowed = {} THEN {} ELSE {Selected}
      /\ Scan!Holders \in [Pids -> SUBSET {Selected}]
      /\ Self \in Pids
      /\ allowed = {} \/ allowed = {Self}
  BY OnlySelfThere
<1> USE DEF Scan!OnlySelfSeen, Scan!Others, Scan!report, Scan!lsof
<1>3. ASSUME targets' \in Scan!Degraded(Scan!Holders)
      PROVE  /\ \A p \in Scan!Others : targets'[p] = {}
             /\ targets'[Self] = {} \/ (targets'[Self] = {Selected} /\ allowed = {Self})
  BY <1>2, <1>3 DEF Scan!Degraded, Scan!Empty
<1>4. CASE Scan!LinuxLsof
  <2>1. targets' \in Scan!Degraded(Scan!Holders) /\ targetCodex' = {}
    BY <1>2, <1>4 DEF Scan!LinuxLsof, Scan!Degraded, Scan!Codex
  <2> QED
    BY <1>1, <1>3, <1>4, <2>1 DEF Scan!LinuxLsof
<1>5. CASE Scan!LinuxList \/ Scan!ListFails \/ Scan!Gate
  BY <1>1, <1>5 DEF Scan!LinuxList, Scan!ListFails, Scan!Gate
<1>6. ASSUME NEW p \in Pids, Scan!LinuxStat(p) PROVE Scan!OnlySelfSeen'
  BY <1>1, <1>6 DEF Scan!LinuxStat
<1>7. ASSUME NEW p \in Pids, Scan!LinuxName(p) PROVE Scan!OnlySelfSeen'
  <2>1. Scan!ReadNext(p) /\ UNCHANGED <<targets, targetCodex>> /\ platform = "linux"
    BY <1>2, <1>7 DEF Scan!LinuxName
  <2>2. CASE targets[p] = {}
    BY <1>1, <1>2, <1>7, <2>1, <2>2 DEF Scan!LinuxName, Scan!ReadNext
  <2>3. CASE targets[p] # {}
    <3>1. p = Self /\ allowed = {Self} /\ targets[p] = {Selected}
      BY <2>3 DEF Scan!TypeOK
    <3>2. /\ scanned' = scanned \cup {Self} /\ codexSeen' = codexSeen
          /\ open' = [open EXCEPT ![Self] = @ \cup {Selected}]
      BY <1>2, <1>7, <2>3, <3>1 DEF Scan!LinuxName, Scan!Observe
    <3>3. open'[Self] = {Selected} /\ \A r \in Scan!Others : open'[r] = open[r]
      BY <1>2, <3>2 DEF Scan!TypeOK
    <3> QED
      BY <1>1, <1>2, <2>1, <3>1, <3>2, <3>3 DEF Scan!ReadNext
  <2> QED
    BY <2>2, <2>3
<1>8. ASSUME NEW p \in Pids, Scan!LinuxNameFails(p) PROVE Scan!OnlySelfSeen'
  BY <1>1, <1>8 DEF Scan!LinuxNameFails, Scan!NameUnreadable, Scan!ReadNext
<1>9. ASSUME NEW p \in Pids, Scan!LinuxFds(p) \/ Scan!LinuxLinks(p) PROVE FALSE
  BY <1>9 DEF Scan!LinuxFds, Scan!LinuxLinks
<1>10. CASE Scan!LinuxLeftovers
  <2> DEFINE left == {p \in Pids \ scanned : targets[p] # {}}
  <2>1. left \subseteq {Self} /\ (left # {} => allowed = {Self} /\ targets[Self] = {Selected} /\ Self \notin scanned)
    BY DEF Scan!TypeOK
  <2>2. /\ scanned' = scanned \cup left /\ codexSeen' = codexSeen \cup (left \cap targetCodex)
        /\ open' = [p \in Pids |-> IF p \in left THEN targets[p] ELSE open[p]]
    BY <1>10 DEF Scan!LinuxLeftovers
  <2>3. \A r \in Scan!Others : open'[r] = open[r]
    BY <2>1, <2>2
  <2>4. open'[Self] = IF Self \in scanned' THEN {Selected} ELSE {}
    BY <1>2, <2>1, <2>2
  <2>5. UNCHANGED <<targets, targetCodex, todo>> /\ scanPc' = "gate"
    BY <1>10 DEF Scan!LinuxLeftovers
  <2> HIDE DEF left
  <2> QED
    BY <1>1, <2>1, <2>2, <2>3, <2>4, <2>5
<1>11. CASE Scan!MacList
  BY <1>1, <1>2, <1>11 DEF Scan!MacList, Scan!Codex, Scan!Running
<1>12. ASSUME NEW p \in Pids, Scan!MacHandles(p) PROVE FALSE
  BY <1>12 DEF Scan!MacHandles
<1>13. CASE Scan!MacLsof
  <2> DEFINE found == {p \in Pids : targets'[p] # {}}
  <2>1. targets' \in Scan!Degraded(Scan!Holders)
    BY <1>13 DEF Scan!MacLsof, Scan!Degraded
  <2>2. found \subseteq {Self} /\ (found # {} => allowed = {Self} /\ targets'[Self] = {Selected})
    BY <1>3, <2>1
  <2>3. /\ scanned' = scanned \cup found /\ codexSeen' = codexSeen /\ targetCodex' = {}
        /\ open' = [p \in Pids |-> open[p] \cup targets'[p]]
    BY <1>2, <1>13 DEF Scan!MacLsof, Scan!Codex
  <2>4. \A r \in Scan!Others : open'[r] = {}
    BY <1>3, <2>1, <2>3
  <2>5. open'[Self] = IF Self \in scanned' THEN {Selected} ELSE {}
    BY <1>2, <1>3, <2>1, <2>2, <2>3
  <2>6. UNCHANGED todo /\ scanPc' = "gate"
    BY <1>13 DEF Scan!MacLsof
  <2> HIDE DEF found
  <2> QED
    BY <1>1, <1>3, <2>1, <2>2, <2>3, <2>4, <2>5, <2>6
<1> QED
  BY <1>4, <1>5, <1>6, <1>7, <1>8, <1>9, <1>10, <1>11, <1>12, <1>13
  DEF Scan!Next, Scan!LinuxNext, Scan!MacNext

\* A complete report that shows at most the caller's own handle clears the gate.
LEMMA SelfHandleClears ==
  ASSUME Scan!TypeOK, Scan!OnlySelfSeen, ~noise, ~partial, Scan!Gate
  PROVE  verdict' = "clear"
<1> USE DEF Scan!TypeOK, Scan!OnlySelfSeen
<1>1. \A p \in scanned : Scan!IsSelfHandle(p)
  BY DEF Scan!IsSelfHandle
<1>2. Scan!RemainingProcesses = {}
  BY <1>1 DEF Scan!RemainingProcesses
<1>3. scanned \ Scan!RemainingProcesses = scanned
  BY <1>2
<1>4. Scan!HeldBy(Scan!RemainingProcesses) = {}
  BY <1>2 DEF Scan!HeldBy
<1>5. Scan!RemainingHeld = {}
  BY <1>3, <1>4 DEF Scan!RemainingHeld
<1>6. codexSeen = {}
  OBVIOUS
<1> HIDE DEF Scan!TypeOK, Scan!OnlySelfSeen
<1> QED
  BY <1>2, <1>5, <1>6 DEF Scan!Gate, Scan!Complete

\* The verdict comes last, and what it is based on then stays.
LEMMA VerdictStep ==
  ASSUME Scan!TypeOK, Scan!OnlySelfSeen, Scan!VerdictOK, Scan!Next, ~Scan!TableNext
  PROVE  Scan!VerdictOK'
<1> USE FoundationsConstants DEF Scan!ScanConstants, Scan!VerdictOK
<1>1. UNCHANGED noise
  BY ScanReads
<1>2. CASE Scan!Gate
  <2>1. verdict' \in {"clear", "refused"} /\ scanPc' = "end" /\ UNCHANGED <<partial, scanned, allowed>>
    BY <1>2 DEF Scan!Gate, Scan!report
  <2>2. verdict' = "clear" => ~partial /\ scanned \subseteq allowed
    BY <1>2 DEF Scan!Gate, Scan!Complete, Scan!RemainingProcesses, Scan!IsSelfHandle
  <2>3. verdict' = "refused" => partial \/ noise
    BY <1>2, SelfHandleClears DEF Scan!TypeOK
  <2> QED
    BY <1>1, <2>1, <2>2, <2>3
<1>3. CASE ~Scan!Gate
  <2>1. UNCHANGED verdict /\ scanPc # "end"
    <3>1. CASE Scan!LinuxNext
      BY <3>1 DEF Scan!LinuxNext, Scan!LinuxLsof, Scan!LinuxList, Scan!LinuxLeftovers, Scan!LinuxStat,
         Scan!LinuxName, Scan!LinuxNameFails, Scan!LinuxFds, Scan!LinuxLinks
    <3>2. CASE Scan!MacNext
      BY <3>2 DEF Scan!MacNext, Scan!MacList, Scan!MacLsof, Scan!MacHandles
    <3>3. CASE Scan!ListFails
      BY <3>3 DEF Scan!ListFails
    <3> QED
      BY <1>3, <3>1, <3>2, <3>3 DEF Scan!Next
  <2> QED
    BY <2>1
<1> QED
  BY <1>2, <1>3

-----------------------------------------------------------------------------
(* The process gate: the invariant *)

\* A scan begins with the invariant.
LEMMA ScanStarts ==
  ASSUME Scan!Init PROVE Scan!ScanInv
<1> USE FoundationsConstants DEF Scan!Init, Scan!ScanConstants
<1>1. \A p \in Pids : proc[p] \in Scan!Process
  OBVIOUS
<1>2. Scan!TypeOK
  <2>1. kept \in [Pids -> SUBSET Databases] /\ codexKept \subseteq Pids
    BY <1>1 DEF Scan!Process
  <2>2. targets \in [Pids -> SUBSET {Selected}] /\ open \in [Pids -> SUBSET Databases]
    BY DEF Scan!Empty
  <2>3. scanPc \in {"lsof", "list", "gate"} /\ noise \in BOOLEAN /\ partial \in BOOLEAN
    OBVIOUS
  <2> QED
    BY <2>1, <2>2, <2>3 DEF Scan!TypeOK, Scan!Pcs
<1>3. Scan!TableOK
  BY DEF Scan!TableOK, Scan!Others, Scan!Disturbs
<1>4. Scan!NoHandlesOK /\ Scan!HoldersNamed /\ Scan!CodexListed
  BY DEF Scan!NoHandlesOK, Scan!HoldersNamed, Scan!CodexListed, Scan!NoHandles
<1>5. Scan!ReportComplete
  BY DEF Scan!ReportComplete, Scan!NoHandles
<1>6. Scan!OnlySelfSeen
  BY DEF Scan!OnlySelfSeen, Scan!Empty, Scan!Others
<1>7. Scan!VerdictOK
  BY DEF Scan!VerdictOK
<1> QED
  BY <1>2, <1>3, <1>4, <1>5, <1>6, <1>7 DEF Scan!ScanInv

\* Each of its parts, and each change of the process table, keeps it.
LEMMA ScanStep ==
  ASSUME Scan!ScanInv, Scan!Next PROVE Scan!ScanInv'
<1> USE DEF Scan!ScanInv
<1>1. Scan!TypeOK'
  BY ScanTypeStep
<1>2. CASE Scan!TableNext
  <2>1. Scan!TypeOK /\ Scan!TableOK
    OBVIOUS
  <2>2. Scan!TableOK' /\ scanPc # "end" /\ (noise => noise')
    BY <1>2, <2>1, TableChanges
  <2>3. /\ \A p \in Pids : Scan!Holding(p)' => Scan!Holding(p)
        /\ \A p \in Pids : Scan!CodexAllAlong(p)' => Scan!CodexAllAlong(p)
    BY <1>2, <2>1, TableChanges
  <2>4. UNCHANGED <<platform, allowed, scanPc, targets, targetCodex, todo, cur, fds,
                    scanned, codexSeen, open, partial, verdict>>
    BY <1>2, <2>1, TableChanges
  <2>5. Scan!NoHandlesOK' /\ Scan!HoldersNamed'
    BY <2>3, <2>4 DEF Scan!NoHandlesOK, Scan!HoldersNamed
  <2>6. Scan!CodexListed' /\ Scan!ReportComplete'
    BY <2>3, <2>4 DEF Scan!CodexListed, Scan!ReportComplete
  <2>7. Scan!OnlySelfSeen' /\ Scan!VerdictOK'
    BY <2>2, <2>4 DEF Scan!OnlySelfSeen, Scan!VerdictOK
  <2> QED
    BY <1>1, <2>2, <2>5, <2>6, <2>7
<1>3. CASE ~Scan!TableNext
  <2>1. Scan!TableOK'
    BY <1>3, ScanReads DEF Scan!TableOK
  <2> QED
    BY <1>1, <1>3, <2>1, NoHandlesStep, HoldersStep, CodexStep, ReportStep, OnlySelfStep, VerdictStep
<1> QED
  BY <1>2, <1>3

\* The gate keeps its invariant while it is at work.
GateInv == part = "gate" => Scan!ScanInv

\* Every scan of every platform, with any number of processes and databases.
THEOREM GateInvariance == FoundationsSpec => []GateInv
<1>1. FoundationsInit => GateInv
  BY ScanStarts DEF FoundationsInit, GateInv
<1>2. ASSUME GateInv, [FoundationsNext]_allVars PROVE GateInv'
  <2>1. CASE GateScan
    BY <1>2, <2>1, ScanStep DEF GateScan, GateInv
  <2>2. CASE Write \/ Discover \/ MountTable
    BY <2>2 DEF Write, Discover, MountTable, GateInv
  <2>3. CASE UNCHANGED allVars
    <3>1. UNCHANGED <<part, platform, allowed, proc, events, kept, codexKept, noise, scanPc,
            targets, targetCodex, todo, cur, fds, scanned, codexSeen, open, partial, verdict>>
      BY <2>3 DEF allVars, scanVars
    <3> QED
      BY <1>2, <3>1 DEF GateInv, Scan!ScanInv, Scan!TypeOK, Scan!TableOK, Scan!NoHandlesOK,
        Scan!HoldersNamed, Scan!CodexListed, Scan!ReportComplete, Scan!OnlySelfSeen,
        Scan!VerdictOK, Scan!Holding, Scan!CodexAllAlong
  <2> QED
    BY <1>2, <2>1, <2>2, <2>3 DEF FoundationsNext
<1> QED
  BY <1>1, <1>2, PTL DEF FoundationsSpec

\* The gate never clears a database that another process of this user has had open
\* since before the scan began.
THEOREM NoHolderMissed == FoundationsSpec => []HolderNeverMissed
<1>1. GateInv => HolderNeverMissed
  <2> SUFFICES ASSUME part = "gate", Scan!ScanInv, verdict = "clear",
                      NEW p \in Scan!Others, proc[p].alive, proc[p].mine, Selected \in kept[p]
               PROVE  FALSE
    BY DEF GateInv, HolderNeverMissed, Scan!HolderNeverMissed
  <2>1. p \in Pids /\ p # Self /\ Scan!Holding(p)
    BY DEF Scan!Holding, Scan!Others
  <2>2. scanPc = "end" /\ ~partial /\ scanned \subseteq allowed
    BY FoundationsConstants DEF Scan!ScanInv, Scan!VerdictOK, Scan!ScanConstants
  <2>3. p \in scanned
    BY <2>1, <2>2 DEF Scan!ScanInv, Scan!ReportComplete
  <2> QED
    BY <2>1, <2>2, <2>3 DEF Scan!ScanInv, Scan!TypeOK
<1> QED
  BY <1>1, GateInvariance, PTL

\* Nor does it clear while a Codex of this user has been running all along.
THEOREM NoCodexMissed == FoundationsSpec => []CodexNeverMissed
<1>1. GateInv => CodexNeverMissed
  <2> SUFFICES ASSUME part = "gate", Scan!ScanInv, verdict = "clear",
                      NEW p \in codexKept, proc[p].mine
               PROVE  FALSE
    BY DEF GateInv, CodexNeverMissed, Scan!CodexNeverMissed
  <2>1. p \in Pids /\ proc[p].codex /\ Scan!CodexAllAlong(p)
    BY DEF Scan!ScanInv, Scan!TypeOK, Scan!TableOK, Scan!CodexAllAlong
  <2>2. scanPc = "end" /\ ~partial /\ scanned \subseteq allowed
    BY FoundationsConstants DEF Scan!ScanInv, Scan!VerdictOK, Scan!ScanConstants
  <2>3. p \in scanned
    BY <2>1, <2>2 DEF Scan!ScanInv, Scan!ReportComplete
  <2> QED
    BY <2>1, <2>2, <2>3 DEF Scan!ScanInv, Scan!TypeOK, Scan!TableOK
<1> QED
  BY <1>1, GateInvariance, PTL

\* Its refusals have a cause outside the doctor: the caller's own handle alone
\* refuses nothing.
THEOREM NoRefusalBySelf == FoundationsSpec => []RefusalHasCause
<1>1. GateInv => RefusalHasCause
  BY DEF GateInv, RefusalHasCause, Scan!RefusalHasCause, Scan!ScanInv, Scan!VerdictOK
<1> QED
  BY <1>1, GateInvariance, PTL

-----------------------------------------------------------------------------
(* The locality of a target *)

\* Without overmounts, a newer mount that contains the target is deeper.
MountsOrdered ==
  ~Overmounts =>
    \A i, j \in DOMAIN mounts :
      i < j /\ mounts[i].point > 0 /\ mounts[j].point > 0 => mounts[i].point < mounts[j].point

\* Of any oldest mounts that contain the target one is the newest.
NewestThere ==
  \A n \in DOMAIN mounts : (\E i \in 1..n : mounts[i].point > 0) =>
    \E i \in 1..n : mounts[i].point > 0 /\ \A j \in 1..n : mounts[j].point > 0 => j <= i

MountInv == part = "locality" =>
  Mounts!TypeOK /\ platform \in {"mounts", "windows", "unsupported"} /\ MountsOrdered /\ NewestThere

\* The mount table is a sequence of points and types, which are numbers.
LEMMA MountTypes ==
  ASSUME Mounts!TypeOK
  PROVE  /\ mounts \in Seq(Mounts!Entries) /\ Len(mounts) \in Nat
         /\ DOMAIN mounts = 1..Len(mounts)
         /\ \A i \in DOMAIN mounts : mounts[i].point \in Nat /\ mounts[i].type \in Nat
<1>1. mounts \in Seq(Mounts!Entries)
  BY DEF Mounts!TypeOK
<1>2. Len(mounts) \in Nat /\ DOMAIN mounts = 1..Len(mounts) /\ mounts \in [1..Len(mounts) -> Mounts!Entries]
  BY <1>1
<1>3. \A i \in DOMAIN mounts : mounts[i] \in Mounts!Entries
  BY <1>2
<1>4. \A e \in Mounts!Entries : e.point \in Mounts!Points /\ e.type \in Mounts!Types
  BY DEF Mounts!Entries
<1>5. Mounts!Points \subseteq Nat /\ Mounts!Types \subseteq Nat
  BY FoundationsConstants DEF Mounts!Points, Mounts!LocalityConstants
<1> QED
  BY <1>1, <1>2, <1>3, <1>4, <1>5

\* What the kernel does to the mount table, for any depth, types and number of
\* mounts.
LEMMA MountStep ==
  ASSUME Mounts!TypeOK, platform \in {"mounts", "windows", "unsupported"},
         MountsOrdered, NewestThere, Mounts!Next
  PROVE  /\ Mounts!TypeOK' /\ platform' \in {"mounts", "windows", "unsupported"}
         /\ MountsOrdered' /\ NewestThere'
<1>1. mounts \in Seq(Mounts!Entries) /\ Len(mounts) \in Nat /\ DOMAIN mounts = 1..Len(mounts)
  BY MountTypes
<1>2. \A i \in DOMAIN mounts : mounts[i].point \in Nat
  BY MountTypes
<1>3. platform = "mounts" /\ UNCHANGED <<platform, readable, drive>>
  BY DEF Mounts!Next, Mounts!Mount, Mounts!Unmount
<1>4. Mounts!Allowed' => Mounts!Matches' # {}
  BY <1>3 DEF Mounts!Allowed
<1>5. CASE Mounts!Mount
  <2>1. PICK p \in Mounts!Points, t \in Mounts!Types :
          /\ Overmounts \/ ~Mounts!Hides(p)
          /\ mounts' = Append(mounts, [point |-> p, type |-> t])
    BY <1>5 DEF Mounts!Mount
  <2>2. /\ Len(mounts') = Len(mounts) + 1 /\ DOMAIN mounts' = 1..(Len(mounts) + 1)
        /\ \A i \in 1..Len(mounts) : mounts'[i] = mounts[i]
        /\ mounts'[Len(mounts) + 1] = [point |-> p, type |-> t]
        /\ mounts' \in Seq(Mounts!Entries)
    <3>1. [point |-> p, type |-> t] \in Mounts!Entries
      BY DEF Mounts!Entries
    <3> QED
      BY <1>1, <2>1, <3>1
  <2>3. Mounts!TypeOK'
    BY <1>1, <1>3, <1>4, <1>5, <2>2, FoundationsConstants
    DEF Mounts!TypeOK, Mounts!Mount, Mounts!LocalityConstants
  <2>4. MountsOrdered'
    <3> SUFFICES ASSUME ~Overmounts, NEW i \in DOMAIN mounts', NEW j \in DOMAIN mounts',
                        i < j, mounts'[i].point > 0, mounts'[j].point > 0
                 PROVE  mounts'[i].point < mounts'[j].point
      BY DEF MountsOrdered
    <3>1. i \in DOMAIN mounts /\ mounts'[i] = mounts[i] /\ mounts[i].point \in Nat
      BY <1>1, <1>2, <2>2
    <3>2. CASE j = Len(mounts) + 1
      <4>1. mounts'[j].point = p /\ p > 0
        BY <2>2, <3>2
      <4>2. ~(mounts[i].point >= p)
        BY <2>1, <3>1, <4>1 DEF Mounts!Hides, Mounts!Covering
      <4> QED
        BY <3>1, <4>1, <4>2 DEF Mounts!Points
    <3>3. CASE j # Len(mounts) + 1
      <4>1. j \in DOMAIN mounts /\ mounts'[j] = mounts[j]
        BY <1>1, <2>2, <3>3
      <4> QED
        BY <3>1, <4>1 DEF MountsOrdered
    <3> QED
      BY <3>2, <3>3
  <2>5. NewestThere'
    <3> SUFFICES ASSUME NEW n \in 1..(Len(mounts) + 1), \E i \in 1..n : mounts'[i].point > 0
                 PROVE  \E i \in 1..n : /\ mounts'[i].point > 0
                                        /\ \A j \in 1..n : mounts'[j].point > 0 => j <= i
      BY <2>2 DEF NewestThere
    <3>1. CASE mounts'[n].point > 0
      BY <3>1
    <3>2. CASE ~(mounts'[n].point > 0) /\ n = 1
      BY <3>2
    <3>3. CASE ~(mounts'[n].point > 0) /\ n > 1
      <4>1. n - 1 \in DOMAIN mounts /\ \E i \in 1..(n - 1) : mounts[i].point > 0
        BY <1>1, <2>2, <3>3
      <4>2. PICK i \in 1..(n - 1) : /\ mounts[i].point > 0
                                    /\ \A j \in 1..(n - 1) : mounts[j].point > 0 => j <= i
        BY <4>1 DEF NewestThere
      <4>3. i \in 1..n /\ mounts'[i].point > 0
        BY <1>1, <2>2, <3>3, <4>2
      <4>4. \A j \in 1..n : mounts'[j].point > 0 => j <= i
        BY <1>1, <2>2, <3>3, <4>2
      <4> QED
        BY <4>3, <4>4
    <3> QED
      BY <3>1, <3>2, <3>3
  <2> QED
    BY <1>3, <2>3, <2>4, <2>5
<1>6. CASE Mounts!Unmount
  <2>1. /\ Len(mounts') = Len(mounts) - 1 /\ DOMAIN mounts' = 1..(Len(mounts) - 1)
        /\ \A i \in 1..(Len(mounts) - 1) : mounts'[i] = mounts[i]
        /\ mounts' \in Seq(Mounts!Entries)
    <3>1. Len(mounts) > 0 /\ mounts' = SubSeq(mounts, 1, Len(mounts) - 1)
      BY <1>1, <1>6 DEF Mounts!Unmount
    <3> QED
      BY <1>1, <3>1
  <2>2. Mounts!TypeOK'
    BY <1>1, <1>3, <1>4, <2>1, FoundationsConstants DEF Mounts!TypeOK, Mounts!LocalityConstants
  <2>3. MountsOrdered'
    <3> SUFFICES ASSUME ~Overmounts, NEW i \in DOMAIN mounts', NEW j \in DOMAIN mounts',
                        i < j, mounts'[i].point > 0, mounts'[j].point > 0
                 PROVE  mounts'[i].point < mounts'[j].point
      BY DEF MountsOrdered
    <3>1. i \in DOMAIN mounts /\ j \in DOMAIN mounts /\ mounts'[i] = mounts[i] /\ mounts'[j] = mounts[j]
      BY <1>1, <2>1
    <3> QED
      BY <3>1 DEF MountsOrdered
  <2>4. NewestThere'
    <3> SUFFICES ASSUME NEW n \in DOMAIN mounts', \E i \in 1..n : mounts'[i].point > 0
                 PROVE  \E i \in 1..n : /\ mounts'[i].point > 0
                                        /\ \A j \in 1..n : mounts'[j].point > 0 => j <= i
      BY DEF NewestThere
    <3>1. n \in DOMAIN mounts /\ \A i \in 1..n : mounts'[i] = mounts[i]
      BY <1>1, <2>1
    <3> QED
      BY <3>1 DEF NewestThere
  <2> QED
    BY <1>3, <2>2, <2>3, <2>4
<1> QED
  BY <1>5, <1>6 DEF Mounts!Next

\* The invariant of the mount table.
THEOREM MountInvariance == FoundationsSpec => []MountInv
<1>1. FoundationsInit => MountInv
  BY FoundationsConstants
  DEF FoundationsInit, MountInv, Mounts!Init, Mounts!TypeOK, Mounts!LocalityConstants,
      Mounts!Drives, Mounts!Allowed, MountsOrdered, NewestThere
<1>2. ASSUME MountInv, [FoundationsNext]_allVars PROVE MountInv'
  <2>1. CASE MountTable
    BY <1>2, <2>1, MountStep DEF MountTable, MountInv
  <2>2. CASE Write \/ GateScan \/ Discover
    BY <2>2 DEF Write, Discover, GateScan, MountInv
  <2>3. CASE UNCHANGED allVars
    <3>1. UNCHANGED <<part, platform, readable, mounts, drive>>
      BY <2>3 DEF allVars, mountVars
    <3> QED
      BY <1>2, <3>1 DEF MountInv, Mounts!TypeOK, Mounts!Allowed, Mounts!Matches, Mounts!Covering,
        MountsOrdered, NewestThere
  <2> QED
    BY <1>2, <2>1, <2>2, <2>3 DEF FoundationsNext
<1> QED
  BY <1>1, <1>2, PTL DEF FoundationsSpec

\* Without overmounts the code's choice, the deepest of the mounts that contain
\* the target, is the one the target is on, the newest.
LEMMA DeepestIsVisible ==
  ASSUME Mounts!TypeOK, MountsOrdered, NewestThere, ~Overmounts, Mounts!Covering # {}
  PROVE  Mounts!Deepest(Mounts!Matches) = Mounts!VisibleType
<1> USE DEF Mounts!Covering
<1>1. mounts \in Seq(Mounts!Entries) /\ Len(mounts) \in Nat /\ DOMAIN mounts = 1..Len(mounts)
  BY MountTypes
<1>2. \A i \in DOMAIN mounts : mounts[i].point \in Nat /\ mounts[i].type \in Nat
  BY MountTypes
<1>3. Len(mounts) \in DOMAIN mounts /\ \E i \in 1..Len(mounts) : mounts[i].point > 0
  BY <1>1
<1>4. PICK m \in Mounts!Covering : \A j \in Mounts!Covering : j <= m
  BY <1>1, <1>3 DEF NewestThere
<1>5. \A i \in Mounts!Covering : (\A j \in Mounts!Covering : j <= i) => i = m
  BY <1>1, <1>4
<1>6. Mounts!VisibleType = mounts[m].type
  BY <1>4, <1>5 DEF Mounts!VisibleType
<1>7. \A j \in Mounts!Covering : j # m => mounts[j].point < mounts[m].point
  BY <1>1, <1>4 DEF MountsOrdered
<1> DEFINE Max(e) == \A f \in Mounts!Matches :
                       f.point < e.point \/ (f.point = e.point /\ f.type <= e.type)
<1>8. mounts[m] \in Mounts!Matches /\ Max(mounts[m])
  BY <1>2, <1>4, <1>7 DEF Mounts!Matches
<1>9. \A e \in Mounts!Matches : Max(e) => e = mounts[m]
  <2> SUFFICES ASSUME NEW i \in Mounts!Covering, Max(mounts[i]), i # m PROVE FALSE
    BY DEF Mounts!Matches
  <2>1. mounts[i].point < mounts[m].point
    BY <1>7
  <2>2. mounts[m].point < mounts[i].point \/ mounts[m].point = mounts[i].point
    BY <1>8
  <2> QED
    BY <1>2, <1>4, <2>1, <2>2
<1>10. (CHOOSE e \in Mounts!Matches : Max(e)) = mounts[m]
  BY <1>8, <1>9
<1> QED
  BY <1>6, <1>10 DEF Mounts!Deepest

\* A target is accepted only on a filesystem known to be local, whatever is
\* mounted and unmounted, as long as no mount covers an older one.
THEOREM OnlyLocalAccepted ==
  ASSUME ~Overmounts PROVE FoundationsSpec => []AcceptedIsLocal
<1>1. MountInv => AcceptedIsLocal
  <2> SUFFICES ASSUME part = "locality", Mounts!TypeOK, MountsOrdered, NewestThere, Mounts!Allowed
               PROVE  /\ platform = "mounts" => Mounts!VisibleType \in LocalTypes
                      /\ platform = "windows" =>
                           drive \notin {"remote", "none", "failed", "unknown", "no_root_dir"}
    BY DEF MountInv, AcceptedIsLocal, Mounts!AcceptedIsLocal
  <2>1. CASE platform = "mounts"
    <3>1. Mounts!Covering # {} /\ Mounts!Deepest(Mounts!Matches) \in LocalTypes
      BY <2>1 DEF Mounts!Allowed, Mounts!Matches, Mounts!KnownLocal
    <3> QED
      BY <2>1, <3>1, DeepestIsVisible
  <2>2. CASE platform = "windows"
    BY <2>2 DEF Mounts!Allowed, Mounts!LocalDrive
  <2> QED
    BY <2>1, <2>2
<1> QED
  BY <1>1, MountInvariance, PTL

\* And a target on a filesystem known to be local is refused for want of
\* evidence only.
THEOREM EveryLocalAccepted ==
  ASSUME ~Overmounts PROVE FoundationsSpec => []LocalIsAccepted
<1>1. MountInv => LocalIsAccepted
  <2> SUFFICES ASSUME Mounts!TypeOK, MountsOrdered, NewestThere, platform = "mounts", readable,
                      Mounts!Covering # {}, Mounts!VisibleType \in LocalTypes
               PROVE  Mounts!Allowed
    BY DEF MountInv, LocalIsAccepted, Mounts!LocalIsAccepted
  <2>1. Mounts!Matches # {}
    BY DEF Mounts!Matches
  <2>2. Mounts!Deepest(Mounts!Matches) \in LocalTypes
    BY DeepestIsVisible
  <2> QED
    BY <2>1, <2>2 DEF Mounts!Allowed, Mounts!KnownLocal
<1> QED
  BY <1>1, MountInvariance, PTL

-----------------------------------------------------------------------------
(* The discovery of candidates: the roots and what is in them *)

\* x is an element of the sequence s.
Elem(s, x) == \E i \in DOMAIN s : s[i] = x

\* The elements of a concatenation are those of its parts.
LEMMA ElemConcat ==
  ASSUME NEW S, NEW s \in Seq(S), NEW t \in Seq(S)
  PROVE  s \o t \in Seq(S) /\ \A x : Elem(s \o t, x) <=> Elem(s, x) \/ Elem(t, x)
<1>1. /\ s \o t \in Seq(S) /\ DOMAIN (s \o t) = 1..(Len(s) + Len(t))
      /\ Len(s) \in Nat /\ Len(t) \in Nat /\ DOMAIN s = 1..Len(s) /\ DOMAIN t = 1..Len(t)
      /\ \A i \in 1..Len(s) : (s \o t)[i] = s[i]
      /\ \A i \in 1..Len(t) : (s \o t)[Len(s) + i] = t[i]
  OBVIOUS
<1>2. ASSUME NEW x, Elem(s \o t, x) PROVE Elem(s, x) \/ Elem(t, x)
  <2>1. PICK i \in 1..(Len(s) + Len(t)) : (s \o t)[i] = x
    BY <1>1, <1>2 DEF Elem
  <2>2. CASE i <= Len(s)
    BY <1>1, <2>1, <2>2 DEF Elem
  <2>3. CASE ~(i <= Len(s))
    <3>1. i - Len(s) \in 1..Len(t) /\ Len(s) + (i - Len(s)) = i
      BY <1>1, <2>3
    <3> QED
      BY <1>1, <2>1, <3>1 DEF Elem
  <2> QED
    BY <2>2, <2>3
<1>3. ASSUME NEW x, Elem(s, x) PROVE Elem(s \o t, x)
  BY <1>1, <1>3 DEF Elem
<1>4. ASSUME NEW x, Elem(t, x) PROVE Elem(s \o t, x)
  <2>1. PICK i \in 1..Len(t) : t[i] = x
    BY <1>1, <1>4 DEF Elem
  <2>2. Len(s) + i \in DOMAIN (s \o t) /\ (s \o t)[Len(s) + i] = x
    BY <1>1, <2>1
  <2> QED
    BY <2>2 DEF Elem
<1> QED
  BY <1>1, <1>2, <1>3, <1>4

\* A sequence of one element or none.
LEMMA ElemOption ==
  ASSUME NEW S, NEW e, NEW c, c \/ e \in S
  PROVE  /\ (IF c THEN <<>> ELSE <<e>>) \in Seq(S)
         /\ \A x : Elem(IF c THEN <<>> ELSE <<e>>, x) <=> ~c /\ x = e
<1>1. CASE c
  BY <1>1 DEF Elem
<1>2. CASE ~c
  BY <1>2 DEF Elem
<1> QED
  BY <1>1, <1>2

\* A home with what its configuration files say of the database, and a root.
Mentions == [place : Places, effective : BOOLEAN]
ConfigEntries ==
  [place : Places, source : Candidates!FromConfig, profile : {None, Profile},
   selected : BOOLEAN, effective : BOOLEAN]
RootSources ==
  Candidates!Explicit \cup Candidates!FromConfig \cup
    {"environment:CODEX_SQLITE_HOME", "environment:CODEX_HOME", "platform:default",
     "platform:wsl_windows_default"}
RootRecords ==
  [place : Places, source : RootSources, current : BOOLEAN, forced : BOOLEAN]

\* The entries of one home.
EntriesOf(h, e) ==
  LET c == configuration.config[h.place] IN
  \/ c.top # None /\ e = [place |-> c.top, source |-> "config:top_level", profile |-> None,
                          selected |-> FALSE, effective |-> h.effective]
  \/ c.profile # None /\ e = [place |-> c.profile, source |-> "config:profile",
                              profile |-> Profile, selected |-> c.selected,
                              effective |-> h.effective]
  \/ c.file # None /\ e = [place |-> c.file, source |-> "config_file:profile",
                           profile |-> Profile, selected |-> FALSE,
                           effective |-> h.effective]

\* The entries of one configuration file are those that EntriesOf lists.
LEMMA EntriesElems ==
  ASSUME configuration \in Candidates!Settings, NEW h \in Mentions
  PROVE  /\ Candidates!Entries(h) \in Seq(ConfigEntries)
         /\ \A e : Elem(Candidates!Entries(h), e) <=> EntriesOf(h, e)
<1> DEFINE c == configuration.config[h.place]
           item(p, s, prof, sel) ==
             IF p = None THEN <<>>
             ELSE <<[place |-> p, source |-> s, profile |-> prof, selected |-> sel,
                     effective |-> h.effective]>>
           fromTop == item(c.top, "config:top_level", None, FALSE)
           fromProfile == item(c.profile, "config:profile", Profile, c.selected)
           fromFile == item(c.file, "config_file:profile", Profile, FALSE)
<1>1. c \in Candidates!Configs
  BY DEF Candidates!Settings, Mentions
<1>2. /\ c.top \in Places \cup {None} /\ c.profile \in Places \cup {None}
      /\ c.file \in Places \cup {None} /\ c.selected \in BOOLEAN /\ h.effective \in BOOLEAN
  BY <1>1 DEF Candidates!Configs, Candidates!MaybePlace, Mentions
<1> HIDE DEF c
<1>3. ASSUME NEW p \in Places \cup {None}, NEW s \in Candidates!FromConfig,
             NEW prof \in {None, Profile}, NEW sel \in BOOLEAN
      PROVE  /\ item(p, s, prof, sel) \in Seq(ConfigEntries)
             /\ \A x : Elem(item(p, s, prof, sel), x) <=>
                  /\ p # None
                  /\ x = [place |-> p, source |-> s, profile |-> prof, selected |-> sel,
                          effective |-> h.effective]
  <2> DEFINE e == [place |-> p, source |-> s, profile |-> prof, selected |-> sel,
                   effective |-> h.effective]
  <2>1. p = None \/ e \in ConfigEntries
    BY <1>2 DEF ConfigEntries
  <2> HIDE DEF e
  <2>2. /\ (IF p = None THEN <<>> ELSE <<e>>) \in Seq(ConfigEntries)
        /\ \A x : Elem(IF p = None THEN <<>> ELSE <<e>>, x) <=> ~(p = None) /\ x = e
    BY <2>1, ElemOption
  <2> QED
    BY <2>2 DEF e
<1>4. {"config:top_level", "config:profile", "config_file:profile"} = Candidates!FromConfig
  BY DEF Candidates!FromConfig
<1> HIDE DEF item
<1>5. /\ fromTop \in Seq(ConfigEntries) /\ fromProfile \in Seq(ConfigEntries)
      /\ fromFile \in Seq(ConfigEntries)
  BY <1>2, <1>3, <1>4
<1>6. \A e : Elem(fromTop, e) \/ Elem(fromProfile, e) \/ Elem(fromFile, e) <=> EntriesOf(h, e)
  <2>1. \A e : Elem(fromTop, e) <=>
          c.top # None /\ e = [place |-> c.top, source |-> "config:top_level", profile |-> None,
                               selected |-> FALSE, effective |-> h.effective]
    BY <1>2, <1>3, <1>4
  <2>2. \A e : Elem(fromProfile, e) <=>
          c.profile # None /\ e = [place |-> c.profile, source |-> "config:profile",
                                   profile |-> Profile, selected |-> c.selected,
                                   effective |-> h.effective]
    <3>1. /\ "config:profile" \in Candidates!FromConfig /\ Profile \in {None, Profile}
          /\ c.selected \in BOOLEAN /\ c.profile \in Places \cup {None}
      BY <1>2, <1>4
    <3> QED
      BY <1>3, <3>1, Z3
  <2>3. \A e : Elem(fromFile, e) <=>
          c.file # None /\ e = [place |-> c.file, source |-> "config_file:profile",
                                profile |-> Profile, selected |-> FALSE,
                                effective |-> h.effective]
    BY <1>2, <1>3, <1>4
  <2> HIDE DEF fromTop, fromProfile, fromFile
  <2> QED
    BY <2>1, <2>2, <2>3 DEF EntriesOf, c
<1>7. Candidates!Entries(h) = (fromTop \o fromProfile) \o fromFile
  BY DEF Candidates!Entries, item, c
<1> HIDE DEF fromTop, fromProfile, fromFile
<1>8. /\ fromTop \o fromProfile \in Seq(ConfigEntries)
      /\ \A e : Elem(fromTop \o fromProfile, e) <=> Elem(fromTop, e) \/ Elem(fromProfile, e)
  BY <1>5, ElemConcat
<1>9. /\ (fromTop \o fromProfile) \o fromFile \in Seq(ConfigEntries)
      /\ \A e : Elem((fromTop \o fromProfile) \o fromFile, e) <=> Elem(fromTop \o fromProfile, e) \/ Elem(fromFile, e)
  BY <1>5, <1>8, ElemConcat
<1> QED
  BY <1>6, <1>7, <1>8, <1>9

\* The homes in s that count.
Counts(s, p) == \E i \in DOMAIN s : s[i].place = p /\ s[i].effective

\* A home that is named again keeps its place in the sequence and counts if
\* either mention does.
LEMMA AddHomeCounts ==
  ASSUME NEW s \in Seq(Mentions), NEW r \in Mentions
  PROVE  /\ Candidates!AddHome(s, r) \in Seq(Mentions)
         /\ Len(Candidates!AddHome(s, r)) # 0
        /\ (Len(Candidates!AddHome(s, r)) = Len(s) \/ Len(Candidates!AddHome(s, r)) = Len(s) + 1)
         /\ \A p : Counts(Candidates!AddHome(s, r), p) <=>
                     Counts(s, p) \/ (r.effective /\ r.place = p)
<1> DEFINE t == [i \in DOMAIN s |-> IF s[i].place = r.place
                                    THEN [s[i] EXCEPT !.effective = @ \/ r.effective] ELSE s[i]]
<1>1. /\ Len(s) \in Nat /\ DOMAIN s = 1..Len(s) /\ \A i \in DOMAIN s : s[i] \in Mentions
  OBVIOUS
<1>2. r.place \in Places /\ r.effective \in BOOLEAN
  BY DEF Mentions
<1>3. \A i \in DOMAIN s : s[i].place \in Places /\ s[i].effective \in BOOLEAN
  BY <1>1 DEF Mentions
<1>4. CASE \E i \in DOMAIN s : s[i].place = r.place
  <2>1. Candidates!AddHome(s, r) = t
    BY <1>4 DEF Candidates!AddHome
  <2>2. \A i \in DOMAIN s : /\ t[i] \in Mentions /\ t[i].place = s[i].place
                            /\ t[i].effective <=> s[i].effective \/ (s[i].place = r.place /\ r.effective)
    BY <1>1, <1>2, <1>3 DEF Mentions
  <2>3. t \in Seq(Mentions) /\ Len(t) = Len(s) /\ DOMAIN t = DOMAIN s /\ Len(s) # 0
    <3>1. t \in [1..Len(s) -> Mentions]
      BY <1>1, <2>2
    <3> HIDE DEF t
    <3> QED
      BY <1>1, <1>4, <3>1
  <2> HIDE DEF t
  <2>4. \A p : Counts(t, p) <=> Counts(s, p) \/ (r.effective /\ r.place = p)
    BY <1>4, <2>2, <2>3 DEF Counts
  <2> QED
    BY <2>1, <2>3, <2>4
<1>5. CASE ~\E i \in DOMAIN s : s[i].place = r.place
  <2>1. Candidates!AddHome(s, r) = Append(s, r)
    BY <1>5 DEF Candidates!AddHome
  <2>2. /\ Append(s, r) \in Seq(Mentions) /\ Len(Append(s, r)) = Len(s) + 1
        /\ DOMAIN Append(s, r) = 1..(Len(s) + 1)
        /\ \A i \in 1..Len(s) : Append(s, r)[i] = s[i]
        /\ Append(s, r)[Len(s) + 1] = r
    OBVIOUS
  <2>3. \A p : Counts(Append(s, r), p) <=> Counts(s, p) \/ (r.effective /\ r.place = p)
    BY <1>1, <2>2 DEF Counts
  <2> QED
    BY <1>1, <2>1, <2>2, <2>3
<1> QED
  BY <1>4, <1>5

\* The number of homes, with one more or as before.
LEMMA OneMore ==
  ASSUME NEW x, NEW y, y # 0, y = x \/ y = x + 1
  PROVE  /\ x \in {0, 1} => y \in {1, 2} /\ y \in 1..3
         /\ x \in {1, 2} => y \in 1..3
OBVIOUS

\* The homes whose configuration is read are one to three, and the one that
\* counts is the effective home.
LEMMA HomesCount ==
  ASSUME configuration \in Candidates!Settings
  PROVE  /\ Candidates!ConfigHomes \in Seq(Mentions)
         /\ Len(Candidates!ConfigHomes) \in 1..3
         /\ \A p : Counts(Candidates!ConfigHomes, p) <=> p = Candidates!EffectiveHome
<1> DEFINE explicit == IF configuration.explicitCodex = None THEN <<>>
                       ELSE <<Candidates!Mention(configuration.explicitCodex, FALSE)>>
<1> USE DEF Candidates!Mention
<1>1. /\ configuration.explicitCodex \in Places \cup {None}
      /\ configuration.envCodex \in Places \cup {None} /\ Home \in Places
  BY FoundationsConstants DEF Candidates!Settings, Candidates!MaybePlace, Candidates!DiscoveryConstants
<1>2. /\ explicit \in Seq(Mentions) /\ Len(explicit) \in {0, 1} /\ \A p : ~Counts(explicit, p)
  <2>1. CASE configuration.explicitCodex = None
    BY <2>1 DEF Counts
  <2>2. CASE configuration.explicitCodex # None
    <3>1. Candidates!Mention(configuration.explicitCodex, FALSE) \in Mentions
      BY <1>1, <2>2 DEF Mentions
    <3>2. explicit = <<Candidates!Mention(configuration.explicitCodex, FALSE)>>
      BY <2>2
    <3> QED
      BY <3>1, <3>2 DEF Counts
  <2> QED
    BY <2>1, <2>2
<1>3. \A p \in Places, b \in BOOLEAN : Candidates!Mention(p, b) \in Mentions
  BY DEF Mentions
<1> HIDE DEF explicit
<1>4. CASE configuration.envCodex = None
  <2>1. Candidates!ConfigHomes = Candidates!AddHome(explicit, Candidates!Mention(Home, TRUE))
    BY <1>4 DEF Candidates!ConfigHomes, Candidates!EnvHome, explicit
  <2>2. Candidates!EffectiveHome = Home
    BY <1>4 DEF Candidates!EffectiveHome, Candidates!EnvHome
  <2> DEFINE default == Candidates!Mention(Home, TRUE)
  <2>3. default \in Mentions /\ default.effective /\ default.place = Home
    BY <1>1, <1>3
  <2> HIDE DEF default
  <2>4. /\ Candidates!AddHome(explicit, default) \in Seq(Mentions)
        /\ Len(Candidates!AddHome(explicit, default)) # 0
        /\ (Len(Candidates!AddHome(explicit, default)) = Len(explicit) \/ Len(Candidates!AddHome(explicit, default)) = Len(explicit) + 1)
        /\ \A p : Counts(Candidates!AddHome(explicit, default), p) <=>
                    Counts(explicit, p) \/ (default.effective /\ default.place = p)
    BY <1>2, <2>3, AddHomeCounts
  <2>5. Len(Candidates!AddHome(explicit, default)) \in 1..3
    BY <1>2, <2>4, OneMore, Zenon
  <2>6. \A p : Counts(Candidates!AddHome(explicit, default), p) <=> p = Home
    BY <1>2, <2>3, <2>4
  <2> QED
    BY <2>1, <2>2, <2>4, <2>5, <2>6 DEF default
<1>5. CASE configuration.envCodex # None
  <2> DEFINE env == Candidates!Mention(configuration.envCodex, TRUE)
             homes == Candidates!AddHome(explicit, env)
             default == Candidates!Mention(Home, FALSE)
  <2>1. Candidates!ConfigHomes = Candidates!AddHome(homes, default)
    BY <1>5 DEF Candidates!ConfigHomes, Candidates!EnvHome, explicit
  <2>2. Candidates!EffectiveHome = configuration.envCodex
    BY <1>5 DEF Candidates!EffectiveHome, Candidates!EnvHome
  <2>3. env \in Mentions /\ default \in Mentions
    BY <1>1, <1>3, <1>5
  <2>4. /\ env.effective /\ env.place = configuration.envCodex /\ ~default.effective
    OBVIOUS
  <2> HIDE DEF env, default
  <2>5. /\ homes \in Seq(Mentions) /\ Len(homes) \in {1, 2}
        /\ \A p : Counts(homes, p) <=> p = configuration.envCodex
    <3>1. /\ homes \in Seq(Mentions) /\ Len(homes) # 0
          /\ (Len(homes) = Len(explicit) \/ Len(homes) = Len(explicit) + 1)
          /\ \A p : Counts(homes, p) <=> Counts(explicit, p) \/ (env.effective /\ env.place = p)
      BY <1>2, <2>3, AddHomeCounts
    <3>2. Len(homes) \in {1, 2}
      BY <1>2, <3>1, OneMore, Zenon
    <3>3. \A p : Counts(homes, p) <=> p = configuration.envCodex
      BY <1>2, <2>4, <3>1
    <3> QED
      BY <3>1, <3>2, <3>3
  <2> HIDE DEF homes
  <2>6. /\ Candidates!AddHome(homes, default) \in Seq(Mentions)
        /\ Len(Candidates!AddHome(homes, default)) # 0
        /\ (Len(Candidates!AddHome(homes, default)) = Len(homes) \/ Len(Candidates!AddHome(homes, default)) = Len(homes) + 1)
        /\ \A p : Counts(Candidates!AddHome(homes, default), p) <=>
                    Counts(homes, p) \/ (default.effective /\ default.place = p)
    BY <2>3, <2>5, AddHomeCounts
  <2>7. Len(Candidates!AddHome(homes, default)) \in 1..3
    BY <2>5, <2>6, OneMore, Zenon
  <2>8. \A p : Counts(Candidates!AddHome(homes, default), p) <=> p = configuration.envCodex
    BY <2>4, <2>5, <2>6
  <2> QED
    BY <2>1, <2>2, <2>6, <2>7, <2>8
<1> QED
  BY <1>4, <1>5

\* All entries of those homes, and the ones that count.
LEMMA ConfiguredElems ==
  ASSUME configuration \in Candidates!Settings
  PROVE  /\ Candidates!Configured \in Seq(ConfigEntries)
         /\ \A e : e.effective /\ Elem(Candidates!Configured, e) <=>
              EntriesOf([place |-> Candidates!EffectiveHome, effective |-> TRUE], e)
<1> DEFINE hs == Candidates!ConfigHomes
           first == Candidates!Entries(hs[1])
           second == IF Len(hs) >= 2 THEN Candidates!Entries(hs[2]) ELSE <<>>
           third == IF Len(hs) >= 3 THEN Candidates!Entries(hs[3]) ELSE <<>>
<1>1. /\ hs \in Seq(Mentions) /\ Len(hs) \in 1..3 /\ DOMAIN hs = 1..Len(hs)
      /\ \A p : Counts(hs, p) <=> p = Candidates!EffectiveHome
  BY HomesCount
<1>2. Candidates!Configured = (first \o second) \o third
  BY DEF Candidates!Configured
<1> HIDE DEF hs
<1>3. \A i \in 1..Len(hs) : hs[i] \in Mentions
  BY <1>1
<1>4. \A i \in 1..Len(hs) : /\ Candidates!Entries(hs[i]) \in Seq(ConfigEntries)
                            /\ \A e : Elem(Candidates!Entries(hs[i]), e) <=> EntriesOf(hs[i], e)
  BY <1>3, EntriesElems
<1>5. first \in Seq(ConfigEntries) /\ \A e : Elem(first, e) <=> EntriesOf(hs[1], e)
  BY <1>1, <1>4
<1>6. second \in Seq(ConfigEntries) /\ \A e : Elem(second, e) <=> Len(hs) >= 2 /\ EntriesOf(hs[2], e)
  <2>1. CASE Len(hs) >= 2
    BY <1>1, <1>4, <2>1
  <2>2. CASE ~(Len(hs) >= 2)
    BY <2>2 DEF Elem
  <2> QED
    BY <2>1, <2>2
<1>7. third \in Seq(ConfigEntries) /\ \A e : Elem(third, e) <=> Len(hs) >= 3 /\ EntriesOf(hs[3], e)
  <2>1. CASE Len(hs) >= 3
    BY <1>1, <1>4, <2>1
  <2>2. CASE ~(Len(hs) >= 3)
    BY <2>2 DEF Elem
  <2> QED
    BY <2>1, <2>2
<1> HIDE DEF first, second, third
<1>8. /\ first \o second \in Seq(ConfigEntries)
      /\ \A e : Elem(first \o second, e) <=> Elem(first, e) \/ Elem(second, e)
  BY <1>5, <1>6, ElemConcat
<1>9. /\ (first \o second) \o third \in Seq(ConfigEntries)
      /\ \A e : Elem((first \o second) \o third, e) <=> Elem(first \o second, e) \/ Elem(third, e)
  BY <1>7, <1>8, ElemConcat
<1>10. \A e : Elem(Candidates!Configured, e) <=> \E i \in 1..Len(hs) : EntriesOf(hs[i], e)
  <2>1. \A i : i \in 1..Len(hs) <=> i = 1 \/ (i = 2 /\ Len(hs) >= 2) \/ (i = 3 /\ Len(hs) >= 3)
    BY <1>1
  <2>2. \A e : Elem(Candidates!Configured, e) <=>
          \/ EntriesOf(hs[1], e) \/ (Len(hs) >= 2 /\ EntriesOf(hs[2], e))
          \/ (Len(hs) >= 3 /\ EntriesOf(hs[3], e))
    BY <1>2, <1>5, <1>6, <1>7, <1>8, <1>9
  <2> QED
    BY <2>1, <2>2
<1>11. \A e, h : EntriesOf(h, e) => e.effective = h.effective
  BY DEF EntriesOf
<1>12. ASSUME NEW e, NEW h, h.effective = TRUE
       PROVE  EntriesOf(h, e) <=> EntriesOf([place |-> h.place, effective |-> TRUE], e)
  BY <1>12 DEF EntriesOf
<1>13. ASSUME NEW e, e.effective, Elem(Candidates!Configured, e)
       PROVE  EntriesOf([place |-> Candidates!EffectiveHome, effective |-> TRUE], e)
  <2>1. PICK i \in 1..Len(hs) : EntriesOf(hs[i], e)
    BY <1>10, <1>13
  <2>2. hs[i].effective \in BOOLEAN /\ hs[i].effective
    BY <1>3, <1>11, <1>13, <2>1 DEF Mentions
  <2>3. hs[i].place = Candidates!EffectiveHome
    BY <1>1, <2>2 DEF Counts
  <2> QED
    BY <1>12, <2>1, <2>2, <2>3
<1>14. ASSUME NEW e, EntriesOf([place |-> Candidates!EffectiveHome, effective |-> TRUE], e)
       PROVE  e.effective /\ Elem(Candidates!Configured, e)
  <2>1. PICK i \in 1..Len(hs) : hs[i].place = Candidates!EffectiveHome /\ hs[i].effective
    BY <1>1 DEF Counts
  <2>2. hs[i].effective = TRUE
    BY <1>3, <2>1 DEF Mentions
  <2>3. EntriesOf(hs[i], e)
    BY <1>12, <1>14, <2>1, <2>2
  <2> QED
    BY <1>10, <1>11, <1>14, <2>3
<1> QED
  BY <1>2, <1>9, <1>13, <1>14

-----------------------------------------------------------------------------
(* The discovery of candidates: which root is current *)

\* A root with its flags, and the root of a configured entry.
IsRoot(r, p, s, now, forced) ==
  p # None /\ r = [place |-> p, source |-> s, current |-> now, forced |-> forced]
IsConfigRoot(r, e) ==
  r = [place |-> e.place, source |-> e.source,
       current |-> Candidates!IsCurrent(e, Candidates!Configured), forced |-> FALSE]

\* A root that is not set contributes nothing, one that is set a single record.
LEMMA RootElems ==
  ASSUME NEW p \in Candidates!MaybePlace, NEW s \in RootSources,
         NEW now \in BOOLEAN, NEW forced \in BOOLEAN
  PROVE  /\ Candidates!Root(p, s, now, forced) \in Seq(RootRecords)
         /\ \A r : Elem(Candidates!Root(p, s, now, forced), r) <=> IsRoot(r, p, s, now, forced)
<1> DEFINE e == [place |-> p, source |-> s, current |-> now, forced |-> forced]
<1>1. p = None \/ e \in RootRecords
  BY DEF RootRecords, Candidates!MaybePlace
<1> HIDE DEF e
<1>2. /\ (IF p = None THEN <<>> ELSE <<e>>) \in Seq(RootRecords)
      /\ \A x : Elem(IF p = None THEN <<>> ELSE <<e>>, x) <=> ~(p = None) /\ x = e
  BY <1>1, ElemOption
<1> QED
  BY <1>2 DEF e, Candidates!Root, IsRoot

\* Every configured entry contributes its root, and nothing else does.
LEMMA ConfigRootElems ==
  ASSUME configuration \in Candidates!Settings
  PROVE  LET entries == Candidates!Configured
             roots == [i \in DOMAIN entries |->
                         [place |-> entries[i].place, source |-> entries[i].source,
                          current |-> Candidates!IsCurrent(entries[i], entries),
                          forced |-> FALSE]]
         IN  /\ roots \in Seq(RootRecords)
             /\ \A r : Elem(roots, r) <=> \E e : Elem(entries, e) /\ IsConfigRoot(r, e)
<1> DEFINE entries == Candidates!Configured
           root(e) == [place |-> e.place, source |-> e.source,
                       current |-> Candidates!IsCurrent(e, entries), forced |-> FALSE]
           roots == [i \in DOMAIN entries |-> root(entries[i])]
<1>1. entries \in Seq(ConfigEntries)
  BY ConfiguredElems
<1> HIDE DEF entries
<1>2. Len(entries) \in Nat /\ DOMAIN entries = 1..Len(entries) /\ \A i \in DOMAIN entries : entries[i] \in ConfigEntries
  BY <1>1
<1>3. \A e \in ConfigEntries : root(e) \in RootRecords
  BY DEF ConfigEntries, RootRecords, RootSources, Candidates!IsCurrent
<1>4. \A r, e : IsConfigRoot(r, e) <=> r = root(e)
  BY DEF IsConfigRoot, entries
<1> HIDE DEF root
<1>5. roots \in [1..Len(entries) -> RootRecords]
  BY <1>2, <1>3
<1>6. roots \in Seq(RootRecords)
  BY <1>2, <1>5
<1>7. \A r : Elem(roots, r) <=> \E e : Elem(entries, e) /\ IsConfigRoot(r, e)
  BY <1>4 DEF Elem
<1> QED
  BY <1>6, <1>7 DEF root, entries

\* The roots are the environment's, the configuration's and the platform's.
RootsOf(r) ==
  LET config == Candidates!HasCurrentConfig(Candidates!Configured)
      sqlite == configuration.envSqlite # None
  IN
  \/ IsRoot(r, configuration.explicitSqlite, "explicit:sqlite_home", FALSE, FALSE)
  \/ IsRoot(r, configuration.explicitCodex, "explicit:codex_home", FALSE, FALSE)
  \/ IsRoot(r, configuration.envSqlite, "environment:CODEX_SQLITE_HOME", ~config, FALSE)
  \/ IsRoot(r, Candidates!EnvHome, "environment:CODEX_HOME", ~config /\ ~sqlite, FALSE)
  \/ \E e : Elem(Candidates!Configured, e) /\ IsConfigRoot(r, e)
  \/ IsRoot(r, Home, "platform:default", ~config /\ ~sqlite /\ Candidates!EnvHome = None, FALSE)
  \/ IsRoot(r, IF configuration.wsl THEN configuration.windowsHome ELSE None,
            "platform:wsl_windows_default", FALSE, TRUE)

\* The roots that _candidate_roots gives are those of RootsOf.
LEMMA RootsElems ==
  ASSUME configuration \in Candidates!Settings
  PROVE  /\ Candidates!Roots \in Seq(RootRecords)
         /\ \A r : Elem(Candidates!Roots, r) <=> RootsOf(r)
<1> DEFINE entries == Candidates!Configured
           config == Candidates!HasCurrentConfig(entries)
           sqlite == configuration.envSqlite # None
           fromOption == Candidates!Root(configuration.explicitSqlite, "explicit:sqlite_home", FALSE, FALSE)
           fromCodexOption == Candidates!Root(configuration.explicitCodex, "explicit:codex_home", FALSE, FALSE)
           fromSqlite == Candidates!Root(configuration.envSqlite, "environment:CODEX_SQLITE_HOME", ~config, FALSE)
           fromCodex == Candidates!Root(Candidates!EnvHome, "environment:CODEX_HOME", ~config /\ ~sqlite, FALSE)
           fromConfig == [i \in DOMAIN entries |->
                            [place |-> entries[i].place, source |-> entries[i].source,
                             current |-> Candidates!IsCurrent(entries[i], entries), forced |-> FALSE]]
           fromPlatform == Candidates!Root(Home, "platform:default",
                             ~config /\ ~sqlite /\ Candidates!EnvHome = None, FALSE)
           fromWindows == Candidates!Root(IF configuration.wsl THEN configuration.windowsHome ELSE None,
                            "platform:wsl_windows_default", FALSE, TRUE)
<1>1. /\ configuration.explicitSqlite \in Candidates!MaybePlace
      /\ configuration.explicitCodex \in Candidates!MaybePlace
      /\ configuration.envSqlite \in Candidates!MaybePlace
      /\ Candidates!EnvHome \in Candidates!MaybePlace
      /\ Home \in Candidates!MaybePlace
      /\ (IF configuration.wsl THEN configuration.windowsHome ELSE None) \in Candidates!MaybePlace
  BY FoundationsConstants
  DEF Candidates!Settings, Candidates!MaybePlace, Candidates!EnvHome, Candidates!DiscoveryConstants
<1>2. /\ "explicit:sqlite_home" \in RootSources /\ "explicit:codex_home" \in RootSources
      /\ "environment:CODEX_SQLITE_HOME" \in RootSources /\ "environment:CODEX_HOME" \in RootSources
      /\ "platform:default" \in RootSources /\ "platform:wsl_windows_default" \in RootSources
  BY DEF RootSources, Candidates!Explicit
<1>3. config \in BOOLEAN
  BY DEF Candidates!HasCurrentConfig
<1> HIDE DEF config
<1>4. /\ fromOption \in Seq(RootRecords)
      /\ \A r : Elem(fromOption, r) <=>
           IsRoot(r, configuration.explicitSqlite, "explicit:sqlite_home", FALSE, FALSE)
  BY <1>1, <1>2, RootElems
<1>5. /\ fromCodexOption \in Seq(RootRecords)
      /\ \A r : Elem(fromCodexOption, r) <=>
           IsRoot(r, configuration.explicitCodex, "explicit:codex_home", FALSE, FALSE)
  BY <1>1, <1>2, RootElems
<1>6. /\ fromSqlite \in Seq(RootRecords)
      /\ \A r : Elem(fromSqlite, r) <=>
           IsRoot(r, configuration.envSqlite, "environment:CODEX_SQLITE_HOME", ~config, FALSE)
  <2>1. (~config) \in BOOLEAN
    BY <1>3
  <2> QED
    BY <1>1, <1>2, <2>1, RootElems
<1>7. /\ fromCodex \in Seq(RootRecords)
      /\ \A r : Elem(fromCodex, r) <=>
           IsRoot(r, Candidates!EnvHome, "environment:CODEX_HOME", ~config /\ ~sqlite, FALSE)
  <2>1. (~config /\ ~sqlite) \in BOOLEAN
    BY <1>3
  <2> QED
    BY <1>1, <1>2, <2>1, RootElems
<1>8. /\ fromConfig \in Seq(RootRecords)
      /\ \A r : Elem(fromConfig, r) <=> \E e : Elem(entries, e) /\ IsConfigRoot(r, e)
  BY ConfigRootElems
<1>9. /\ fromPlatform \in Seq(RootRecords)
      /\ \A r : Elem(fromPlatform, r) <=>
           IsRoot(r, Home, "platform:default", ~config /\ ~sqlite /\ Candidates!EnvHome = None, FALSE)
  <2>1. (~config /\ ~sqlite /\ Candidates!EnvHome = None) \in BOOLEAN
    BY <1>3
  <2> QED
    BY <1>1, <1>2, <2>1, RootElems
<1>10. /\ fromWindows \in Seq(RootRecords)
       /\ \A r : Elem(fromWindows, r) <=>
            IsRoot(r, IF configuration.wsl THEN configuration.windowsHome ELSE None,
                   "platform:wsl_windows_default", FALSE, TRUE)
  BY <1>1, <1>2, RootElems
<1>11. Candidates!Roots =
         (((((fromOption \o fromCodexOption) \o fromSqlite) \o fromCodex) \o fromConfig)
            \o fromPlatform) \o fromWindows
  BY DEF Candidates!Roots, config
<1>12. \A r : RootsOf(r) <=>
          \/ Elem(fromOption, r) \/ Elem(fromCodexOption, r) \/ Elem(fromSqlite, r)
          \/ Elem(fromCodex, r) \/ Elem(fromConfig, r) \/ Elem(fromPlatform, r)
          \/ Elem(fromWindows, r)
  BY <1>4, <1>5, <1>6, <1>7, <1>8, <1>9, <1>10 DEF RootsOf, config
<1> HIDE DEF fromOption, fromCodexOption, fromSqlite, fromCodex, fromConfig, fromPlatform, fromWindows
<1>13. /\ fromOption \o fromCodexOption \in Seq(RootRecords)
       /\ \A r : Elem(fromOption \o fromCodexOption, r) <=> Elem(fromOption, r) \/ Elem(fromCodexOption, r)
  BY <1>4, <1>5, ElemConcat
<1> DEFINE given == fromOption \o fromCodexOption
           sqlited == given \o fromSqlite
           environment == sqlited \o fromCodex
           configured == environment \o fromConfig
           default == configured \o fromPlatform
<1> HIDE DEF given
<1>14. given \in Seq(RootRecords) /\ \A r : Elem(given, r) <=> Elem(fromOption, r) \/ Elem(fromCodexOption, r)
  BY <1>13 DEF given
<1>15. sqlited \in Seq(RootRecords) /\ \A r : Elem(sqlited, r) <=> Elem(given, r) \/ Elem(fromSqlite, r)
  BY <1>6, <1>14, ElemConcat
<1> HIDE DEF sqlited
<1>16. environment \in Seq(RootRecords) /\ \A r : Elem(environment, r) <=> Elem(sqlited, r) \/ Elem(fromCodex, r)
  BY <1>7, <1>15, ElemConcat
<1> HIDE DEF environment
<1>17. configured \in Seq(RootRecords) /\ \A r : Elem(configured, r) <=> Elem(environment, r) \/ Elem(fromConfig, r)
  BY <1>8, <1>16, ElemConcat
<1> HIDE DEF configured
<1>18. default \in Seq(RootRecords) /\ \A r : Elem(default, r) <=> Elem(configured, r) \/ Elem(fromPlatform, r)
  BY <1>9, <1>17, ElemConcat
<1> HIDE DEF default
<1>19. /\ default \o fromWindows \in Seq(RootRecords)
       /\ \A r : Elem(default \o fromWindows, r) <=> Elem(default, r) \/ Elem(fromWindows, r)
  BY <1>10, <1>18, ElemConcat
<1>20. Candidates!Roots = default \o fromWindows
  BY <1>11 DEF default, configured, environment, sqlited, given
<1> QED
  BY <1>12, <1>14, <1>15, <1>16, <1>17, <1>18, <1>19, <1>20

\* Does a root at p get the label configured_current?
CurrentRoot(r, p) == r.place = p /\ Candidates!Label(r) = "configured_current"

\* Some root at p is labelled configured_current exactly if p is what the
\* effective home's configuration, or else the environment, selects.
LEMMA CurrentRoots ==
  ASSUME configuration \in Candidates!Settings, NEW p \in Places
  PROVE  (\E r : Elem(Candidates!Roots, r) /\ CurrentRoot(r, p)) <=> p \in Candidates!CurrentPlaces
<1> DEFINE home == [place |-> Candidates!EffectiveHome, effective |-> TRUE]
           c == configuration.config[home.place]
           entries == Candidates!Configured
           config == Candidates!HasCurrentConfig(entries)
           chosen == Candidates!SelectedProfile(entries)
           sqlite == configuration.envSqlite # None
<1>1. c \in Candidates!Configs /\ c = Candidates!EffectiveConfig
  BY FoundationsConstants
  DEF Candidates!Settings, Candidates!EffectiveConfig, Candidates!EffectiveHome, Candidates!EnvHome,
      Candidates!MaybePlace, Candidates!DiscoveryConstants
<1>2. /\ c.top \in Candidates!MaybePlace /\ c.profile \in Candidates!MaybePlace
      /\ c.file \in Candidates!MaybePlace /\ c.selected \in BOOLEAN
  BY <1>1 DEF Candidates!Configs
<1>3. /\ entries \in Seq(ConfigEntries)
      /\ \A e : e.effective /\ Elem(entries, e) <=> EntriesOf(home, e)
  BY ConfiguredElems
<1>4. None \notin Places /\ Profile # None
  BY FoundationsConstants DEF Candidates!DiscoveryConstants
<1> DEFINE top == [place |-> c.top, source |-> "config:top_level", profile |-> None,
                   selected |-> FALSE, effective |-> home.effective]
           profile == [place |-> c.profile, source |-> "config:profile", profile |-> Profile,
                       selected |-> c.selected, effective |-> home.effective]
           file == [place |-> c.file, source |-> "config_file:profile", profile |-> Profile,
                    selected |-> FALSE, effective |-> home.effective]
<1>5. \A e : EntriesOf(home, e) <=>
        \/ c.top # None /\ e = top
        \/ c.profile # None /\ e = profile
        \/ c.file # None /\ e = file
  <2> HIDE DEF home
  <2> TAKE e
  <2> QED
    BY DEF EntriesOf
<1> HIDE DEF home, c, entries
<1>22. /\ top.place = c.top /\ profile.place = c.profile /\ file.place = c.file
       /\ top.profile = None /\ profile.profile = Profile /\ file.profile = Profile
       /\ top.selected = FALSE /\ profile.selected = c.selected /\ file.selected = FALSE
  OBVIOUS
<1> HIDE DEF top, profile, file
<1>23. /\ c.top # None => EntriesOf(home, top)
       /\ c.profile # None => EntriesOf(home, profile)
       /\ c.file # None => EntriesOf(home, file)
  BY <1>5
<1>6. config <=> \E e : EntriesOf(home, e)
  BY <1>3 DEF Candidates!HasCurrentConfig, Elem
<1>7. chosen <=> \E e : EntriesOf(home, e) /\ e.selected
  BY <1>3 DEF Candidates!SelectedProfile, Elem
<1> HIDE DEF config, chosen
<1>8. chosen <=> c.selected /\ c.profile # None
  BY <1>2, <1>5, <1>7, <1>22, <1>23
<1>9. config <=> c.top # None \/ c.profile # None \/ c.file # None
  BY <1>5, <1>6, <1>23
<1>10. Candidates!ConfigSilent <=> c.top = None /\ c.profile = None /\ c.file = None
  BY <1>1 DEF Candidates!ConfigSilent
<1> DEFINE current(e) == IF chosen THEN e.profile # None ELSE e.profile = None
<1>11. \A e : Candidates!IsCurrent(e, entries) <=> e.effective /\ current(e)
  BY DEF Candidates!IsCurrent, chosen
<1>12. (\E e : Elem(entries, e) /\ e.place = p /\ Candidates!IsCurrent(e, entries)) <=>
         \E e : EntriesOf(home, e) /\ e.place = p /\ current(e)
  BY <1>3, <1>11
<1> DEFINE selects == IF chosen THEN p \in {c.profile, c.file} ELSE p = c.top
<1>13. (\E e : EntriesOf(home, e) /\ e.place = p /\ current(e)) <=> selects
  BY <1>4, <1>5, <1>22, <1>23
<1>14. selects => config
  BY <1>4, <1>9
<1> HIDE DEF current, selects
<1>15. p \in Candidates!CurrentPlaces <=>
         \/ selects
         \/ ~config /\ sqlite /\ p = configuration.envSqlite
         \/ ~config /\ ~sqlite /\ p = Candidates!EffectiveHome
  <2>1. CASE chosen
    BY <1>1, <1>4, <1>8, <1>9, <2>1 DEF Candidates!CurrentPlaces, selects
  <2>2. CASE ~chosen /\ config
    BY <1>1, <1>4, <1>8, <1>9, <1>10, <2>2 DEF Candidates!CurrentPlaces, selects
  <2>3. CASE ~chosen /\ ~config
    BY <1>1, <1>4, <1>8, <1>9, <1>10, <1>14, <2>3 DEF Candidates!CurrentPlaces
  <2> QED
    BY <2>1, <2>2, <2>3
<1>16. \A r : CurrentRoot(r, p) <=> r.place = p /\ r.source \notin Candidates!Explicit /\ r.current
  BY DEF CurrentRoot, Candidates!Label
<1>17. \A q, s, now, forced :
         (\E r : IsRoot(r, q, s, now, forced) /\ CurrentRoot(r, p)) <=>
           q # None /\ q = p /\ s \notin Candidates!Explicit /\ now
  <2> TAKE q, s, now, forced
  <2> DEFINE root == [place |-> q, source |-> s, current |-> now, forced |-> forced]
  <2>1. CurrentRoot(root, p) <=> q = p /\ s \notin Candidates!Explicit /\ now
    BY <1>16
  <2>2. \A r : IsRoot(r, q, s, now, forced) <=> q # None /\ r = root
    BY DEF IsRoot
  <2> HIDE DEF root
  <2> QED
    BY <2>1, <2>2
<1>18. \A e : Elem(entries, e) =>
         ((\E r : IsConfigRoot(r, e) /\ CurrentRoot(r, p)) <=>
            e.place = p /\ Candidates!IsCurrent(e, entries))
  <2> SUFFICES ASSUME NEW e, Elem(entries, e)
               PROVE  (\E r : IsConfigRoot(r, e) /\ CurrentRoot(r, p)) <=>
                        e.place = p /\ Candidates!IsCurrent(e, entries)
    OBVIOUS
  <2>1. e \in ConfigEntries
    BY <1>3 DEF Elem
  <2>2. e.source \notin Candidates!Explicit
    BY <2>1 DEF ConfigEntries, Candidates!FromConfig, Candidates!Explicit
  <2> DEFINE root == [place |-> e.place, source |-> e.source,
                      current |-> Candidates!IsCurrent(e, entries), forced |-> FALSE]
  <2>3. CurrentRoot(root, p) <=> e.place = p /\ Candidates!IsCurrent(e, entries)
    BY <1>16, <2>2
  <2>4. \A r : IsConfigRoot(r, e) <=> r = root
    BY DEF IsConfigRoot, entries
  <2> HIDE DEF root
  <2> QED
    BY <2>3, <2>4
<1>19. (\E r : RootsOf(r) /\ CurrentRoot(r, p)) <=>
         \/ \E e : Elem(entries, e) /\ e.place = p /\ Candidates!IsCurrent(e, entries)
         \/ ~config /\ configuration.envSqlite # None /\ p = configuration.envSqlite
         \/ ~config /\ ~sqlite /\ Candidates!EnvHome # None /\ p = Candidates!EnvHome
         \/ ~config /\ ~sqlite /\ Candidates!EnvHome = None /\ p = Home
  <2>1. "explicit:sqlite_home" \in Candidates!Explicit /\ "explicit:codex_home" \in Candidates!Explicit
    BY DEF Candidates!Explicit
  <2>2. /\ "environment:CODEX_SQLITE_HOME" \notin Candidates!Explicit
        /\ "environment:CODEX_HOME" \notin Candidates!Explicit
        /\ "platform:default" \notin Candidates!Explicit
    BY DEF Candidates!Explicit
  <2>3. (\E r : RootsOf(r) /\ CurrentRoot(r, p)) <=>
          \/ \E r : IsRoot(r, configuration.explicitSqlite, "explicit:sqlite_home", FALSE, FALSE) /\ CurrentRoot(r, p)
          \/ \E r : IsRoot(r, configuration.explicitCodex, "explicit:codex_home", FALSE, FALSE) /\ CurrentRoot(r, p)
          \/ \E r : IsRoot(r, configuration.envSqlite, "environment:CODEX_SQLITE_HOME", ~config, FALSE) /\ CurrentRoot(r, p)
          \/ \E r : IsRoot(r, Candidates!EnvHome, "environment:CODEX_HOME", ~config /\ ~sqlite, FALSE) /\ CurrentRoot(r, p)
          \/ \E r : (\E e : Elem(entries, e) /\ IsConfigRoot(r, e)) /\ CurrentRoot(r, p)
          \/ \E r : IsRoot(r, Home, "platform:default", ~config /\ ~sqlite /\ Candidates!EnvHome = None, FALSE) /\ CurrentRoot(r, p)
          \/ \E r : IsRoot(r, IF configuration.wsl THEN configuration.windowsHome ELSE None,
                           "platform:wsl_windows_default", FALSE, TRUE) /\ CurrentRoot(r, p)
    BY DEF RootsOf, config, entries
  <2>4. (\E r : (\E e : Elem(entries, e) /\ IsConfigRoot(r, e)) /\ CurrentRoot(r, p)) <=>
          \E e : Elem(entries, e) /\ e.place = p /\ Candidates!IsCurrent(e, entries)
    BY <1>18
  <2>5. /\ p # None
        /\ ~\E r : IsRoot(r, configuration.explicitSqlite, "explicit:sqlite_home", FALSE, FALSE) /\ CurrentRoot(r, p)
        /\ ~\E r : IsRoot(r, configuration.explicitCodex, "explicit:codex_home", FALSE, FALSE) /\ CurrentRoot(r, p)
        /\ ~\E r : IsRoot(r, IF configuration.wsl THEN configuration.windowsHome ELSE None,
                          "platform:wsl_windows_default", FALSE, TRUE) /\ CurrentRoot(r, p)
    BY <1>4, <1>17
  <2>6. (\E r : IsRoot(r, configuration.envSqlite, "environment:CODEX_SQLITE_HOME", ~config, FALSE) /\ CurrentRoot(r, p))
          <=> ~config /\ configuration.envSqlite # None /\ p = configuration.envSqlite
    BY <1>17, <2>2
  <2>7. (\E r : IsRoot(r, Candidates!EnvHome, "environment:CODEX_HOME", ~config /\ ~sqlite, FALSE) /\ CurrentRoot(r, p))
          <=> ~config /\ ~sqlite /\ Candidates!EnvHome # None /\ p = Candidates!EnvHome
    <3> HIDE DEF sqlite
    <3> QED
      BY <1>17, <2>2
  <2>8. (\E r : IsRoot(r, Home, "platform:default", ~config /\ ~sqlite /\ Candidates!EnvHome = None, FALSE) /\ CurrentRoot(r, p))
          <=> ~config /\ ~sqlite /\ Candidates!EnvHome = None /\ p = Home
    <3> DEFINE unset == Candidates!EnvHome = None
    <3> HIDE DEF sqlite, unset
    <3>1. Home # None
      BY <1>4, FoundationsConstants DEF Candidates!DiscoveryConstants
    <3>2. (\E r : IsRoot(r, Home, "platform:default", ~config /\ ~sqlite /\ unset, FALSE) /\ CurrentRoot(r, p))
            <=> ~config /\ ~sqlite /\ unset /\ p = Home
      BY <1>17, <2>2, <3>1
    <3> QED
      BY <3>2 DEF unset
  <2> QED
    BY <2>3, <2>4, <2>5, <2>6, <2>7, <2>8
<1>20. (\E r : RootsOf(r) /\ CurrentRoot(r, p)) <=> p \in Candidates!CurrentPlaces
  BY <1>12, <1>13, <1>15, <1>19 DEF Candidates!EffectiveHome
<1> QED
  BY <1>20, RootsElems

-----------------------------------------------------------------------------
(* The discovery of candidates: the visits *)

Labels == {"explicit_selection", "configured_current", "configured_profile"}

\* A root that has been visited.
Seen(r) == \E i \in 1..(next - 1) : Candidates!Roots[i] = r

DiscoveryTypes ==
  /\ configuration \in Candidates!Settings
  /\ next \in 1..(Len(Candidates!Roots) + 1)
  /\ order \in Seq(Places)
  /\ info \in [Places -> [sources : SUBSET RootSources, labels : SUBSET Labels, cross : BOOLEAN]]

\* A database is listed once, and only after a root with it was visited.
ListedOnce ==
  /\ \A i, j \in DOMAIN order : order[i] = order[j] => i = j
  /\ \A p \in Places : Elem(order, p) <=> info[p].sources # {}
  /\ \A p \in Places : Elem(order, p) =>
       p \in configuration.occupied /\ \E r : Seen(r) /\ r.place = p

\* The label comes from a visited root, and from every one that gives it.
LabelsGathered ==
  \A p \in configuration.occupied :
    "configured_current" \in info[p].labels <=> \E r : Seen(r) /\ CurrentRoot(r, p)

\* Cross-boundary evidence of a visited root stays.
CrossGathered ==
  \A p \in configuration.occupied : \A r :
    Seen(r) /\ r.place = p /\ (r.forced \/ Candidates!IsCrossBoundary(p)) => info[p].cross

DiscoveryInv == DiscoveryTypes /\ ListedOnce /\ LabelsGathered /\ CrossGathered

\* Discovery begins with its invariant, for every configuration.
LEMMA DiscoveryStart ==
  ASSUME Candidates!MCInit PROVE DiscoveryInv
<1>1. configuration \in Candidates!Settings
  <2>1. CASE Candidates!InitWith(Candidates!MCSettings)
    <3>1. configuration \in Candidates!MCSettings
      BY <2>1 DEF Candidates!InitWith
    <3> QED
      BY <3>1 DEF Candidates!MCSettings, Candidates!Settings, Candidates!MaybePlace
  <2>2. CASE Candidates!InitWith(Candidates!MCSmallSettings)
    <3>1. configuration \in Candidates!MCSmallSettings
      BY <2>2 DEF Candidates!InitWith
    <3> QED
      BY <3>1 DEF Candidates!MCSmallSettings, Candidates!Settings, Candidates!MaybePlace
  <2> QED
    BY <2>1, <2>2 DEF Candidates!MCInit
<1>2. /\ next = 1 /\ order = <<>>
      /\ info = [p \in Places |-> [sources |-> {}, labels |-> {}, cross |-> FALSE]]
  BY DEF Candidates!MCInit, Candidates!InitWith, Candidates!Entry
<1>3. Len(Candidates!Roots) \in Nat
  BY <1>1, RootsElems
<1>4. \A r : ~Seen(r)
  BY <1>2 DEF Seen
<1>5. DiscoveryTypes
  BY <1>1, <1>2, <1>3 DEF DiscoveryTypes
<1>6. \A p \in Places : info[p].sources = {} /\ info[p].labels = {}
  BY <1>2
<1>7. ListedOnce
  BY <1>2, <1>6 DEF ListedOnce, Elem
<1>8. configuration.occupied \subseteq Places
  BY <1>1 DEF Candidates!Settings
<1> QED
  BY <1>4, <1>5, <1>6, <1>7, <1>8 DEF DiscoveryInv, LabelsGathered, CrossGathered

\* A new element at the end of a sequence without repetitions.
LEMMA AppendNew ==
  ASSUME NEW S, NEW s \in Seq(S), NEW e \in S, ~Elem(s, e),
         \A i, j \in DOMAIN s : s[i] = s[j] => i = j
  PROVE  /\ Append(s, e) \in Seq(S)
         /\ \A i, j \in DOMAIN Append(s, e) : Append(s, e)[i] = Append(s, e)[j] => i = j
         /\ \A x : Elem(Append(s, e), x) <=> Elem(s, x) \/ x = e
<1>1. /\ Append(s, e) \in Seq(S) /\ DOMAIN s = 1..Len(s) /\ Len(s) \in Nat
      /\ DOMAIN Append(s, e) = 1..(Len(s) + 1)
      /\ \A i \in 1..Len(s) : Append(s, e)[i] = s[i]
      /\ Append(s, e)[Len(s) + 1] = e
  OBVIOUS
<1>2. \A i \in 1..(Len(s) + 1) : i \in 1..Len(s) \/ i = Len(s) + 1
  BY <1>1
<1>3. Len(s) + 1 \in 1..(Len(s) + 1) /\ \A i \in 1..Len(s) : i \in 1..(Len(s) + 1)
  BY <1>1
<1>4. \A i \in 1..Len(s) : s[i] # e
  BY <1>1 DEF Elem
<1> DEFINE n == Len(s) + 1
           t == Append(s, e)
<1>5. ASSUME NEW i \in 1..n, NEW j \in 1..n, t[i] = t[j] PROVE i = j
  BY <1>1, <1>2, <1>4, <1>5
<1>6. \A x : Elem(t, x) <=> Elem(s, x) \/ x = e
  BY <1>1, <1>2, <1>3 DEF Elem
<1> QED
  BY <1>1, <1>5, <1>6

\* One visit: the root is seen, and the others stay what they were.
LEMMA VisitSees ==
  ASSUME DiscoveryTypes, Candidates!Next
  PROVE  /\ Candidates!Roots \in Seq(RootRecords) /\ next \in DOMAIN Candidates!Roots
         /\ Candidates!Roots[next] \in RootRecords
         /\ Candidates!Roots' = Candidates!Roots
         /\ next' \in 1..(Len(Candidates!Roots) + 1)
         /\ \A r : Seen(r)' <=> Seen(r) \/ r = Candidates!Roots[next]
<1>1. Candidates!Roots \in Seq(RootRecords)
  BY RootsElems DEF DiscoveryTypes
<1>2. next \in DOMAIN Candidates!Roots /\ next' = next + 1 /\ configuration' = configuration
  BY DEF Candidates!Next, Candidates!Visit
<1>3. Candidates!Roots' = Candidates!Roots
  <2>1. Candidates!ConfigHomes' = Candidates!ConfigHomes
    BY <1>2 DEF Candidates!ConfigHomes, Candidates!EnvHome, Candidates!AddHome, Candidates!Mention
  <2>2. \A h : Candidates!Entries(h)' = Candidates!Entries(h)
    BY <1>2 DEF Candidates!Entries
  <2>3. Candidates!Configured' = Candidates!Configured
    BY <2>1, <2>2 DEF Candidates!Configured
  <2> QED
    BY <1>2, <2>3
    DEF Candidates!Roots, Candidates!EnvHome, Candidates!Root, Candidates!HasCurrentConfig,
        Candidates!IsCurrent, Candidates!SelectedProfile
<1> DEFINE rs == Candidates!Roots
<1> HIDE DEF rs
<1>4. rs \in Seq(RootRecords) /\ next \in DOMAIN rs /\ rs' = rs
  BY <1>1, <1>2, <1>3 DEF rs
<1>5. next \in 1..Len(rs) /\ Len(rs) \in Nat /\ rs[next] \in RootRecords
  BY <1>4
<1>6. \A i : i \in 1..(next' - 1) <=> i \in 1..(next - 1) \/ i = next
  BY <1>2, <1>5
<1>7. \A r : Seen(r) <=> \E i \in 1..(next - 1) : rs[i] = r
  BY DEF Seen, rs
<1>8. \A r : Seen(r)' <=> \E i \in 1..(next' - 1) : rs[i] = r
  BY <1>3 DEF Seen, rs
<1>9. \A r : Seen(r)' <=> Seen(r) \/ r = rs[next]
  BY <1>6, <1>7, <1>8
<1> QED
  BY <1>2, <1>3, <1>4, <1>5, <1>9 DEF rs

\* A visit to the next root keeps it, whatever that root turns out to be.
LEMMA VisitStep ==
  ASSUME DiscoveryInv, Candidates!Next PROVE DiscoveryInv'
<1> DEFINE r == Candidates!Roots[next]
           e == info[r.place]
           l == Candidates!Label(r)
           found == r.forced \/ Candidates!IsCrossBoundary(r.place)
           entry == [sources |-> e.sources \cup {r.source},
                     labels |-> IF l = "none" THEN e.labels ELSE e.labels \cup {l},
                     cross |-> e.cross \/ found]
           place == r.place
<1>1. /\ r \in RootRecords /\ next' \in 1..(Len(Candidates!Roots) + 1)
      /\ Candidates!Roots' = Candidates!Roots
  BY VisitSees DEF DiscoveryInv
<1>2. \A x : Seen(x)' <=> Seen(x) \/ x = r
  BY VisitSees DEF DiscoveryInv
<1>3. configuration' = configuration
  BY DEF Candidates!Next, Candidates!Visit
<1>4. /\ configuration \in Candidates!Settings /\ order \in Seq(Places)
      /\ info \in [Places -> [sources : SUBSET RootSources, labels : SUBSET Labels, cross : BOOLEAN]]
      /\ configuration.occupied \subseteq Places
  BY DEF DiscoveryInv, DiscoveryTypes, Candidates!Settings
<1>5. place \in Places /\ r.source \in RootSources /\ r.forced \in BOOLEAN
  BY <1>1 DEF RootRecords
<1>6. l \in Labels \cup {"none"} /\ \A p : CurrentRoot(r, p) <=> place = p /\ l = "configured_current"
  BY DEF Candidates!Label, Labels, CurrentRoot
<1>7. \A p : Candidates!IsCrossBoundary(p)' <=> Candidates!IsCrossBoundary(p)
  BY <1>3 DEF Candidates!IsCrossBoundary
<1>8. place \in configuration.occupied =>
        order' = (IF Elem(order, place) THEN order ELSE Append(order, place))
  BY DEF Candidates!Next, Candidates!Visit, Candidates!List, Candidates!Listed, Elem
<1>9. place \in configuration.occupied => info' = [info EXCEPT ![place] = entry]
  BY DEF Candidates!Next, Candidates!Visit, Candidates!Cross
<1>10. place \notin configuration.occupied => order' = order /\ info' = info
  BY DEF Candidates!Next, Candidates!Visit
<1>11. found \in BOOLEAN /\ (place \in Places => (found <=> r.forced \/ Candidates!IsCrossBoundary(place)))
  BY <1>5 DEF Candidates!IsCrossBoundary
<1> DEFINE other == [sources : SUBSET RootSources, labels : SUBSET Labels, cross : BOOLEAN]
<1>12. e \in other
  BY <1>4, <1>5
<1> HIDE DEF r, e, l, found, place
<1>13. entry \in other
  <2>1. e.sources \in SUBSET RootSources /\ e.labels \in SUBSET Labels /\ e.cross \in BOOLEAN
    BY <1>12
  <2>2. e.sources \cup {r.source} \in SUBSET RootSources
    BY <1>5, <2>1
  <2>3. (IF l = "none" THEN e.labels ELSE e.labels \cup {l}) \in SUBSET Labels
    BY <1>6, <2>1
  <2>4. (e.cross \/ found) \in BOOLEAN
    OBVIOUS
  <2> QED
    BY <2>2, <2>3, <2>4
<1>14. /\ entry.sources # {} /\ (entry.cross <=> e.cross \/ found)
       /\ ("configured_current" \in entry.labels <=> "configured_current" \in e.labels \/ l = "configured_current")
  OBVIOUS
<1> HIDE DEF entry
<1>15. info' \in [Places -> other]
  BY <1>4, <1>9, <1>10, <1>13
<1>16. /\ place \in configuration.occupied => info'[place] = entry
       /\ \A p \in Places : p # place \/ place \notin configuration.occupied => info'[p] = info[p]
  BY <1>4, <1>5, <1>9, <1>10
<1>17. e = info[place]
  BY DEF e, place
<1>18. /\ order' \in Seq(Places)
       /\ \A i, j \in DOMAIN order' : order'[i] = order'[j] => i = j
       /\ \A p : Elem(order', p) <=> Elem(order, p) \/ (p = place /\ place \in configuration.occupied)
  <2>1. \A i, j \in DOMAIN order : order[i] = order[j] => i = j
    BY DEF DiscoveryInv, ListedOnce
  <2>2. CASE place \in configuration.occupied /\ ~Elem(order, place)
    <3>1. order' = Append(order, place)
      BY <1>8, <2>2
    <3> QED
      BY <1>4, <1>5, <2>1, <2>2, <3>1, AppendNew
  <2>3. CASE ~(place \in configuration.occupied /\ ~Elem(order, place))
    <3>1. order' = order
      BY <1>8, <1>10, <2>3
    <3> QED
      BY <1>4, <2>1, <2>3, <3>1
  <2> QED
    BY <2>2, <2>3
<1>19. DiscoveryTypes'
  BY <1>1, <1>3, <1>4, <1>15, <1>18 DEF DiscoveryTypes, Candidates!Settings, Candidates!Configs,
     Candidates!MaybePlace
<1>20. ListedOnce'
  <2>1. \A p \in Places : Elem(order, p) <=> info[p].sources # {}
    BY DEF DiscoveryInv, ListedOnce
  <2>2. \A p \in Places : Elem(order', p) <=> info'[p].sources # {}
    BY <1>4, <1>5, <1>14, <1>16, <1>18, <2>1
  <2>3. \A p \in Places : Elem(order, p) =>
          p \in configuration.occupied /\ \E x : Seen(x) /\ x.place = p
    BY DEF DiscoveryInv, ListedOnce
  <2>4. r.place = place
    BY DEF place
  <2>5. \A p \in Places : Elem(order', p) =>
          p \in configuration.occupied /\ \E x : Seen(x)' /\ x.place = p
    BY <1>2, <1>18, <2>3, <2>4
  <2>6. \A p : Elem(order, p)' <=> Elem(order', p)
    BY DEF Elem
  <2> QED
    BY <1>3, <1>18, <2>2, <2>5, <2>6 DEF ListedOnce
<1>21. LabelsGathered'
  <2> SUFFICES ASSUME NEW p \in configuration.occupied
               PROVE  "configured_current" \in info'[p].labels <=> \E x : Seen(x)' /\ CurrentRoot(x, p)
    BY <1>3 DEF LabelsGathered, CurrentRoot, Candidates!Label
  <2>1. "configured_current" \in info[p].labels <=> \E x : Seen(x) /\ CurrentRoot(x, p)
    BY DEF DiscoveryInv, LabelsGathered
  <2>2. (\E x : Seen(x)' /\ CurrentRoot(x, p)) <=>
          (\E x : Seen(x) /\ CurrentRoot(x, p)) \/ CurrentRoot(r, p)
    BY <1>2
  <2>3. CASE p = place
    BY <1>6, <1>14, <1>16, <1>17, <2>1, <2>2, <2>3
  <2>4. CASE p # place
    BY <1>4, <1>6, <1>16, <2>1, <2>2, <2>4
  <2> QED
    BY <2>3, <2>4
<1>22. CrossGathered'
  <2> SUFFICES ASSUME NEW p \in configuration.occupied, NEW x, Seen(x)', x.place = p,
                      x.forced \/ Candidates!IsCrossBoundary(p)
               PROVE  info'[p].cross
    BY <1>3, <1>7 DEF CrossGathered
  <2>1. Seen(x) => info[p].cross
    BY DEF DiscoveryInv, CrossGathered
  <2>2. x = r => p = place /\ found
    BY <1>5, <1>11 DEF place
  <2>3. p = place => (info'[p].cross <=> info[p].cross \/ found)
    BY <1>14, <1>16, <1>17
  <2>4. p # place => info'[p] = info[p]
    BY <1>4, <1>16
  <2> QED
    BY <1>2, <2>1, <2>2, <2>3, <2>4
<1> QED
  BY <1>19, <1>20, <1>21, <1>22 DEF DiscoveryInv

\* The discovery keeps its invariant while it is at work.
DiscoverInv == part = "discover" => DiscoveryInv

\* Every configuration, with any number of places.
THEOREM DiscoverInvariance == FoundationsSpec => []DiscoverInv
<1>1. FoundationsInit => DiscoverInv
  BY DiscoveryStart DEF FoundationsInit, DiscoverInv
<1>2. ASSUME DiscoverInv, [FoundationsNext]_allVars PROVE DiscoverInv'
  <2>1. CASE Discover
    BY <1>2, <2>1, VisitStep DEF Discover, DiscoverInv
  <2>2. CASE Write \/ GateScan \/ MountTable
    BY <2>2 DEF Write, GateScan, MountTable, DiscoverInv
  <2>3. CASE UNCHANGED allVars
    <3>1. UNCHANGED <<part, configuration, next, order, info>>
      BY <2>3 DEF allVars, candidateVars
    <3>2. Candidates!Roots' = Candidates!Roots
      <4>1. Candidates!ConfigHomes' = Candidates!ConfigHomes
        BY <3>1 DEF Candidates!ConfigHomes, Candidates!EnvHome, Candidates!AddHome, Candidates!Mention
      <4>2. \A h : Candidates!Entries(h)' = Candidates!Entries(h)
        BY <3>1 DEF Candidates!Entries
      <4>3. Candidates!Configured' = Candidates!Configured
        BY <4>1, <4>2 DEF Candidates!Configured
      <4> QED
        BY <3>1, <4>3
        DEF Candidates!Roots, Candidates!EnvHome, Candidates!Root, Candidates!HasCurrentConfig,
            Candidates!IsCurrent, Candidates!SelectedProfile
    <3> QED
      BY <1>2, <3>1, <3>2
      DEF DiscoverInv, DiscoveryInv, DiscoveryTypes, ListedOnce, LabelsGathered, CrossGathered,
          Seen, Elem, CurrentRoot, Candidates!Label, Candidates!IsCrossBoundary,
          Candidates!Settings, Candidates!Configs, Candidates!MaybePlace
  <2> QED
    BY <1>2, <2>1, <2>2, <2>3 DEF FoundationsNext
<1> QED
  BY <1>1, <1>2, PTL DEF FoundationsSpec

\* When the discovery has finished every root has been seen.
LEMMA AllSeen ==
  ASSUME DiscoveryTypes, Candidates!Finished
  PROVE  \A r : Seen(r) <=> Elem(Candidates!Roots, r)
<1>1. Candidates!Roots \in Seq(RootRecords)
  BY RootsElems DEF DiscoveryTypes
<1>2. next \in 1..(Len(Candidates!Roots) + 1) /\ next > Len(Candidates!Roots)
  BY DEF DiscoveryTypes, Candidates!Finished
<1> DEFINE rs == Candidates!Roots
<1>3. \A r : Seen(r) <=> \E i \in 1..(next - 1) : rs[i] = r
  BY DEF Seen
<1> HIDE DEF rs
<1>4. rs \in Seq(RootRecords) /\ next \in 1..(Len(rs) + 1) /\ next > Len(rs)
  BY <1>1, <1>2 DEF rs
<1>5. 1..(next - 1) = DOMAIN rs
  BY <1>4
<1> QED
  BY <1>3, <1>5 DEF rs, Elem

\* The label configured_current goes to exactly what the configuration in force, or
\* else the environment, selects: for every configuration, however the homes coincide.
THEOREM CurrentIsRight == FoundationsSpec => []CurrentIsWhatIsConfigured
<1>1. DiscoverInv => CurrentIsWhatIsConfigured
  <2> SUFFICES ASSUME part = "discover", DiscoveryInv, Candidates!Finished,
                      NEW p \in configuration.occupied
               PROVE  "configured_current" \in info[p].labels <=> p \in Candidates!CurrentPlaces
    BY DEF DiscoverInv, CurrentIsWhatIsConfigured, Candidates!CurrentIsWhatIsConfigured
  <2>1. configuration \in Candidates!Settings /\ p \in Places
    BY DEF DiscoveryInv, DiscoveryTypes, Candidates!Settings
  <2>2. "configured_current" \in info[p].labels <=>
          \E r : Elem(Candidates!Roots, r) /\ CurrentRoot(r, p)
    BY AllSeen DEF DiscoveryInv, LabelsGathered
  <2> QED
    BY <2>1, <2>2, CurrentRoots
<1> QED
  BY <1>1, DiscoverInvariance, PTL

\* No candidate that any root places on the other side of the WSL boundary may be
\* mutated, whichever root found it first.
THEOREM NoCrossBoundary == FoundationsSpec => []CrossBoundaryRefused
<1>1. DiscoverInv => CrossBoundaryRefused
  <2> SUFFICES ASSUME part = "discover", DiscoveryInv, Candidates!Finished,
                      NEW p \in Places, Elem(order, p), ~info[p].cross
               PROVE  ~Candidates!IsCrossBoundary(p) /\ ~(configuration.wsl /\ p = configuration.windowsHome)
    BY DEF DiscoverInv, CrossBoundaryRefused, Candidates!CrossBoundaryRefused,
           Candidates!Listed, Candidates!MutationAllowed, Elem
  <2>1. p \in configuration.occupied /\ \E r : Seen(r) /\ r.place = p
    BY DEF DiscoveryInv, ListedOnce
  <2>2. ~Candidates!IsCrossBoundary(p)
    BY <2>1 DEF DiscoveryInv, CrossGathered
  <2>3. ASSUME configuration.wsl, p = configuration.windowsHome PROVE FALSE
    <3> DEFINE r == [place |-> p, source |-> "platform:wsl_windows_default",
                     current |-> FALSE, forced |-> TRUE]
    <3>1. p # None
      BY FoundationsConstants DEF Candidates!DiscoveryConstants
    <3>2. RootsOf(r)
      BY <2>3, <3>1 DEF RootsOf, IsRoot
    <3>3. Seen(r)
      BY <3>2, RootsElems, AllSeen DEF DiscoveryInv, DiscoveryTypes
    <3>4. r.place = p /\ r.forced
      OBVIOUS
    <3> HIDE DEF r
    <3> QED
      BY <2>1, <3>3, <3>4 DEF DiscoveryInv, CrossGathered
  <2> QED
    BY <2>2, <2>3
<1> QED
  BY <1>1, DiscoverInvariance, PTL

-----------------------------------------------------------------------------
(* The artifact writes, and the types of all parts *)

\* Seen from the artifact writes, every other part does nothing.
LEMMA WritesAreWrites == FoundationsSpec => Spec
<1>1. FoundationsInit => Init
  BY DEF FoundationsInit, NoWrite
<1>2. [FoundationsNext]_allVars => [Next]_vars
  BY DEF FoundationsNext, Write, GateScan, Discover, MountTable, allVars
<1> QED
  BY <1>1, <1>2, PTL DEF FoundationsSpec, Spec

\* The types of whatever part is at work, for all values of the constants.
THEOREM PartsHaveTypes == FoundationsSpec => []PartsTypeOK
<1>1. TypeOK /\ GateInv /\ DiscoverInv /\ MountInv => PartsTypeOK
  BY DEF PartsTypeOK, GateInv, Scan!ScanInv, DiscoverInv, DiscoveryInv, DiscoveryTypes,
         ListedOnce, MountInv, Candidates!TypeOK, Candidates!Listed, Elem
<1> QED
  BY <1>1, WritesAreWrites, TypeCorrect, GateInvariance, DiscoverInvariance, MountInvariance, PTL

\* What ArtifactWrite promises holds in the composition as well.
THEOREM WritesKeepTheirWord ==
  FoundationsSpec => []WholeDocument /\ []ReadsWhole /\ []OneWinner /\ DocumentKept
BY WritesAreWrites, AlwaysWhole, AlwaysReadsWhole, AtMostOneWinner, PathIsKept
=============================================================================
