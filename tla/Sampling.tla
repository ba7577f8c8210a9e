------------------------------- MODULE Sampling -------------------------------
(***************************************************************************)
(* sample_database: two inspections of a database through read-only         *)
(* connections, each followed by a process scan, with a sleep between them,  *)
(* while Codex opens, writes, prunes, upgrades and closes the database.      *)
(* Every query of an inspection is a read transaction of its own, so Codex   *)
(* writes between any two of them.                                          *)
(***************************************************************************)
EXTENDS Naturals, FiniteSets

CONSTANTS
  Levels,      \* log levels of the rows
  MaxId,       \* bound: row ids
  MaxEvents,   \* bound: what Codex does during one sample
  None

SamplingConstants ==
  MaxId \in Nat \ {0} /\ MaxEvents \in Nat /\ None \notin Nat

Ids    == 1..MaxId
Phases == {"before", "after"}
Sizes  == {0, 1}      \* sizes of the database and its WAL, told apart or not
Pcs    == {"size", "triggers", "sequence", "count", "levels", "scan", "done"}
Tables == UNION {[S -> Levels] : S \in SUBSET Ids}

VARIABLES
  table,     \* the rows: id -> level
  seq,       \* sqlite_sequence of logs, which AUTOINCREMENT only moves up
  bytes, large, altered,
             \* file sizes; above the full-scan threshold; a doctor trigger altered
  codex,     \* does Codex hold the database open?
  phase, pc, \* the query the sample will make next
  fullScan,  \* --full-scan
  shot,      \* shot[p]: what the inspection and the scan of phase p returned
  events, inserted, recreated, quiet, heldAlways
             \* ghosts: writes between the two sequence reads, and presence

database == <<table, seq, bytes, large, altered>>
ghosts   == <<inserted, recreated, quiet, heldAlways>>
vars     == <<database, codex, phase, pc, fullScan, shot, events, ghosts>>

Unread == [status |-> "none", bytes |-> 0, seq |-> None, count |-> None,
           top |-> None, levels |-> None, full |-> FALSE,
           scan |-> "none", open |-> FALSE]

TopOf(t) == IF t = <<>> THEN None
            ELSE CHOOSE i \in DOMAIN t : \A j \in DOMAIN t : j <= i
PerLevel(t) == [l \in Levels |-> Cardinality({i \in DOMAIN t : t[i] = l})]

Init ==
  /\ table \in [{1} -> Levels] \cup {<<>>}
  /\ seq \in {0, 1} /\ (seq = 0 => table = <<>>) /\ bytes = 0 /\ large \in BOOLEAN /\ altered \in BOOLEAN
  /\ codex \in BOOLEAN
  /\ phase = "before" /\ pc = "size" /\ fullScan \in BOOLEAN
  /\ shot = [p \in Phases |-> Unread]
  /\ events = 0
  /\ inserted = FALSE /\ recreated = FALSE /\ quiet = TRUE
  /\ heldAlways = codex

-----------------------------------------------------------------------------
(* Wrong variants of the definitions below, used to test that the properties *)
(* notice them.                                                             *)

\* Judges by what is in the table now.
ComparesRowsOnly(f, g) ==
  \E k \in {"count", "top"} : f[k] # None /\ g[k] # None /\ f[k] # g[k]

\* Takes levels that were not read for no rows.
MissingIsZero(f, g) ==
  LET read(s) == IF s.levels = None THEN [l \in Levels |-> 0] ELSE s.levels
  IN  read(f) # read(g)

\* Wants both scans to have seen the handle.
OpenInBoth == shot["before"].open /\ shot["after"].open

-----------------------------------------------------------------------------
(* inspect_database, one query at a time *)

Note(f, v) == shot' = [shot EXCEPT ![phase] = [@ EXCEPT ![f] = v]]
Query(from, to) == pc = from /\ pc' = to /\ UNCHANGED <<phase, fullScan>>

ReadSizes ==
  /\ Query("size", "triggers")
  /\ Note("bytes", bytes)
  /\ UNCHANGED <<database, codex, events, ghosts>>

\* quick_check, table_info and the doctor's triggers.
ReadTriggers ==
  /\ Query("triggers", "sequence")
  /\ Note("status", IF altered THEN "error" ELSE "ok")
  /\ UNCHANGED <<database, codex, events, ghosts>>

\* From here on an insert must show in one of the later reads.  A table that
\* never had a row has no entry in sqlite_sequence.
ReadSequence ==
  /\ Query("sequence", "count")
  /\ Note("seq", IF seq = 0 THEN None ELSE seq)
  /\ UNCHANGED <<database, codex, events, ghosts>>

RunsFullScan == fullScan \/ ~large

SkipAggregates ==
  /\ Query("count", "scan")
  /\ ~RunsFullScan
  /\ UNCHANGED <<database, codex, shot, events, ghosts>>

ReadCount ==
  /\ Query("count", "levels")
  /\ RunsFullScan
  /\ shot' = [shot EXCEPT ![phase] =
               [@ EXCEPT !.count = Cardinality(DOMAIN table), !.top = TopOf(table)]]
  /\ UNCHANGED <<database, codex, events, ghosts>>

ReadLevels ==
  /\ Query("levels", "scan")
  /\ shot' = [shot EXCEPT ![phase] =
               [@ EXCEPT !.levels = PerLevel(table), !.full = TRUE]]
  /\ UNCHANGED <<database, codex, events, ghosts>>

\* Any query may fail: a busy or unreadable database is an error, a WAL that
\* cannot be opened read-only makes the inspection partial; only the sizes,
\* read again, are kept.
InspectionFails ==
  /\ pc \in {"triggers", "sequence", "count", "levels"}
  /\ pc' = "scan"
  /\ \E s \in {"error", "partial"} :
       shot' = [shot EXCEPT ![phase] = [Unread EXCEPT !.status = s, !.bytes = bytes]]
  /\ UNCHANGED <<database, codex, phase, fullScan, events, ghosts>>

-----------------------------------------------------------------------------
(* The scan after each inspection, and the sleep between them *)

ScanAndGoOn(to) ==
  /\ pc = "scan"
  /\ \/ shot' = [shot EXCEPT ![phase] = [@ EXCEPT !.scan = "ok", !.open = codex]]
     \/ \E o \in BOOLEAN, s \in {"partial", "unsupported"} :
          /\ o => codex
          /\ shot' = [shot EXCEPT ![phase] = [@ EXCEPT !.scan = s, !.open = o]]
  /\ pc' = to
  /\ UNCHANGED <<database, codex, fullScan, events, ghosts>>

ScanBefore ==
  /\ phase = "before" /\ phase' = "after"
  /\ ScanAndGoOn("size")

ScanAfter ==
  /\ phase = "after" /\ UNCHANGED phase
  /\ ScanAndGoOn("done")

-----------------------------------------------------------------------------
(* Codex *)

\* The writes that the two sequence reads enclose.
Enclosed == \/ phase = "before" /\ pc \in {"count", "levels", "scan"}
            \/ phase = "after" /\ pc \in {"size", "triggers", "sequence"}

Writes ==
  /\ codex /\ pc # "done" /\ events < MaxEvents
  /\ events' = events + 1 /\ quiet' = FALSE
  /\ bytes' \in Sizes
  /\ UNCHANGED <<large, altered, codex, phase, pc, fullScan, shot, heldAlways>>

Insert ==
  /\ seq < MaxId /\ Writes
  /\ \E l \in Levels :
       table' = [i \in DOMAIN table \cup {seq + 1} |->
                   IF i = seq + 1 THEN l ELSE table[i]]
  /\ seq' = seq + 1
  /\ inserted' = (inserted \/ Enclosed)
  /\ UNCHANGED recreated

Prune ==
  /\ Writes
  /\ \E S \in SUBSET DOMAIN table : S # {} /\ table' =
       [i \in DOMAIN table \ S |-> table[i]]
  /\ UNCHANGED <<seq, inserted, recreated>>

\* An upgrade drops the table and creates it again, with its sequence.
Recreate ==
  /\ Writes
  /\ table' = <<>> /\ seq' = 0 /\ recreated' = TRUE
  /\ UNCHANGED inserted

\* Moving frames from the WAL to the database changes sizes, not rows.
Checkpoint == Writes /\ UNCHANGED <<table, seq, inserted, recreated>>

OpenOrClose ==
  /\ pc # "done" /\ events < MaxEvents
  /\ events' = events + 1
  /\ codex' = ~codex
  /\ heldAlways' = FALSE
  /\ UNCHANGED <<table, seq, large, altered, phase, pc, fullScan, shot, inserted,
                 recreated>>

Opens == ~codex /\ OpenOrClose /\ UNCHANGED <<bytes, quiet>>

\* The last close checkpoints and removes the WAL, unless Codex is killed.
Closes ==
  /\ codex /\ OpenOrClose
  /\ bytes' \in Sizes /\ quiet' = FALSE

Next ==
  \/ ReadSizes \/ ReadTriggers \/ ReadSequence \/ SkipAggregates \/ ReadCount
  \/ ReadLevels \/ InspectionFails \/ ScanBefore \/ ScanAfter
  \/ Insert \/ Prune \/ Recreate \/ Checkpoint \/ Opens \/ Closes

Spec == Init /\ [][Next]_vars

-----------------------------------------------------------------------------
(* The result *)

\* _optional_delta and logical_change_observed: a value that one snapshot
\* lacks is no change.
Moved(f, g, k) == f[k] # None /\ g[k] # None /\ f[k] # g[k]

LevelsMoved(f, g) == Moved(f, g, "levels")

Changed(f, g) ==
  \/ f.bytes # g.bytes   \* not the size of the -shm file
  \/ \E k \in {"count", "top", "seq"} : Moved(f, g, k)
  \/ LevelsMoved(f, g)

LogicalChange == Changed(shot["before"], shot["after"])

TargetOpen == \E p \in Phases : shot[p].open

AggregatesMissing == \E p \in Phases : ~shot[p].full

Status ==
  IF \E p \in Phases : shot[p].status = "error" THEN "error"
  ELSE IF \/ \E p \in Phases : shot[p].status = "partial"
          \/ \E p \in Phases : shot[p].scan \in {"partial", "unsupported"}
          \/ AggregatesMissing
  THEN "partial"
  ELSE "ok"

Done == pc = "done"

-----------------------------------------------------------------------------
(* Properties *)

\* The types; and the high-water mark an inspection returns is never above
\* the sequence, which is read before it, unless Codex wrote in between.
TypeOK ==
  /\ table \in Tables /\ seq \in 0..MaxId /\ bytes \in Sizes
  /\ large \in BOOLEAN /\ altered \in BOOLEAN /\ codex \in BOOLEAN
  /\ phase \in Phases /\ pc \in Pcs /\ fullScan \in BOOLEAN
  /\ \A p \in Phases :
       /\ shot[p].status \in {"none", "ok", "error", "partial"}
       /\ shot[p].seq \in 0..MaxId \cup {None}
       /\ shot[p].top \in Ids \cup {None}
       /\ shot[p].count \in 0..MaxId \cup {None}
       /\ shot[p].top # None /\ quiet => shot[p].top <= shot[p].seq
  /\ events \in 0..MaxEvents

\* An insert between the two reads of the sequence is always reported as a
\* change, also when the row is pruned before the second inspection or the
\* aggregates are skipped; only an upgrade that recreates the table, a table
\* that had never had a row, or an inspection that failed and is reported as
\* such, can hide it.
NoInsertMissed ==
  Done /\ inserted /\ ~recreated /\ shot["before"].seq # None =>
    LogicalChange \/ Status = "error"
      \/ \E p \in Phases : shot[p].status = "partial"

\* If Codex neither wrote nor closed the database, no change is reported,
\* whichever reads failed.
QuietIsReportedQuiet == Done /\ quiet => ~LogicalChange

\* Codex that holds the database from the first read to the last is seen, as
\* long as one of the two scans is complete.
HeldIsSeen ==
  Done /\ heldAlways /\ (\E p \in Phases : shot[p].scan = "ok") => TargetOpen

=============================================================================
