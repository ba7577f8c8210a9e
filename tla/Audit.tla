-------------------------------- MODULE Audit --------------------------------
(***************************************************************************)
(* The audit command: discovery, a process scan, candidates added from open  *)
(* handles and a second scan, a sample of each candidate, activity labels    *)
(* from handles, changes and mtimes, and an inspection of each candidate,    *)
(* while Codex opens, writes, closes and deletes databases.                 *)
(***************************************************************************)
EXTENDS Naturals, FiniteSets

CONSTANTS
  Databases,   \* log databases on the machine
  MaxTime,     \* bound: mtimes
  MaxEvents    \* bound: what Codex does during one audit

AuditConstants == MaxTime \in Nat /\ MaxEvents \in Nat

Pcs   == {"start", "found", "scanned", "added", "sampling", "active", "labelling",
          "inspecting", "done"}
Exits == {"none", "ok", "partial", "not_found"}

VARIABLES
  exists, open, mtime,   \* the machine: files, Codex handles, mtimes
  rooted,      \* databases that the bounded roots lead to
  sampled,     \* was --sample-seconds given?
  pc,
  listed,      \* candidates
  seen, scan,  \* open databases and status of the last process scan
  todo,        \* candidates still to be visited in this phase
  changed,     \* candidates whose sample saw a change
  newest,      \* newest mtime of a directly active candidate, 0 for none
  stale,       \* candidates labelled stale_duplicate
  incomplete, exit,
  events,
  everOpen, everWritten, held, firstOk, older
               \* ghosts: opened, written, open all the time since the audit
               \* began; was the first scan complete; what was older than
               \* some active candidate when it was labelled

machine == <<exists, open, mtime>>
ghosts  == <<everOpen, everWritten, held, firstOk, older>>
fixed   == <<rooted, sampled>>
vars    == <<machine, fixed, pc, listed, seen, scan, todo, changed, newest, stale,
             incomplete, exit, events, ghosts>>

Init ==
  /\ exists \in SUBSET Databases
  /\ open \in SUBSET exists
  /\ mtime \in [Databases -> 1..MaxTime]
  /\ rooted \in SUBSET Databases /\ sampled \in BOOLEAN
  /\ pc = "start" /\ listed = {} /\ seen = {} /\ scan = "none" /\ todo = {}
  /\ changed = {} /\ newest = 0 /\ stale = {}
  /\ incomplete = FALSE /\ exit = "none" /\ events = 0
  /\ everOpen = open /\ everWritten = {} /\ older = {}
  /\ held = open /\ firstOk = FALSE

Step(from, to) == pc = from /\ pc' = to

-----------------------------------------------------------------------------
(* Wrong variants, used to test that the properties notice them. *)

\* Lists what the second scan shows, instead of the first.
NothingAdded == {}

\* Calls everything stale that is not newer than the active database.
NotNewer(d) == mtime[d] <= newest

\* Counts the newest file as active.
RecentIsActive == listed

-----------------------------------------------------------------------------
(* The command *)

Discover ==
  /\ Step("start", "found")
  /\ listed' = rooted \cap exists
  /\ UNCHANGED <<machine, fixed, seen, scan, todo, changed, newest, stale,
                 incomplete, exit, events, ghosts>>

\* A complete scan shows the open log databases, an incomplete one some of them.
Scan ==
  \/ scan' = "ok" /\ seen' = open
  \/ scan' = "partial" /\ seen' \in SUBSET open

FirstScan ==
  /\ Step("found", "scanned")
  /\ Scan
  /\ firstOk' = (scan' = "ok")
  /\ UNCHANGED <<machine, fixed, listed, todo, changed, newest, stale, incomplete,
                 exit, events, everOpen, everWritten, held, older>>

\* Open databases that no root leads to, if the file is still there.
OpenUnlisted == (seen \ listed) \cap exists

\* With nothing to add, the first scan is the one that is reported.
KeepScan ==
  /\ Step("scanned", "added")
  /\ OpenUnlisted = {}
  /\ UNCHANGED <<machine, fixed, listed, seen, scan, todo, changed, newest, stale,
                 incomplete, exit, events, ghosts>>

AddAndRescan ==
  /\ Step("scanned", "added")
  /\ OpenUnlisted # {}
  /\ listed' = listed \cup OpenUnlisted
  /\ Scan
  /\ UNCHANGED <<machine, fixed, todo, changed, newest, stale, incomplete, exit,
                 events, ghosts>>

NoneFound ==
  /\ Step("added", "done")
  /\ listed = {}
  /\ exit' = "not_found"
  /\ UNCHANGED <<machine, fixed, listed, seen, scan, todo, changed, newest, stale,
                 incomplete, events, ghosts>>

StartSampling ==
  /\ Step("added", "sampling")
  /\ listed # {}
  /\ todo' = IF sampled THEN listed ELSE {}
  /\ incomplete' = (scan # "ok")
  /\ UNCHANGED <<machine, fixed, listed, seen, scan, changed, newest, stale, exit,
                 events, ghosts>>

\* One candidate is sampled: a change needs a write, an open or close, or a
\* deletion since the audit began, as Sampling shows, and a sample that fails is
\* incomplete.
SampleOne(d) ==
  /\ pc = "sampling" /\ d \in todo
  /\ todo' = todo \ {d}
  /\ \E s \in {"ok", "bad"}, c \in BOOLEAN :
       /\ c => d \in everWritten \cup (everOpen \ held) \/ d \notin exists
       /\ d \notin exists => s = "bad"
       /\ changed' = IF c THEN changed \cup {d} ELSE changed
       /\ incomplete' = (incomplete \/ s # "ok")
  /\ UNCHANGED <<machine, fixed, pc, listed, seen, scan, newest, stale, exit, events,
                 ghosts>>

DirectlyActive == listed \cap (seen \cup changed)

\* classify_candidate_activity: first the mtimes of the active candidates ...
StartLabels ==
  /\ Step("sampling", "active")
  /\ todo = {}
  /\ todo' = DirectlyActive
  /\ UNCHANGED <<machine, fixed, listed, seen, scan, changed, newest, stale,
                 incomplete, exit, events, ghosts>>

StatActive(d) ==
  /\ pc = "active" /\ d \in todo
  /\ todo' = todo \ {d}
  /\ newest' = IF d \in exists /\ mtime[d] > newest THEN mtime[d] ELSE newest
  /\ UNCHANGED <<machine, fixed, pc, listed, seen, scan, changed, stale, incomplete,
                 exit, events, ghosts>>

\* ... then those of the others.
StartOthers ==
  /\ Step("active", "labelling")
  /\ todo = {}
  /\ todo' = listed \ DirectlyActive
  /\ UNCHANGED <<machine, fixed, listed, seen, scan, changed, newest, stale,
                 incomplete, exit, events, ghosts>>

IsOlder(d) == mtime[d] < newest

StatOther(d) ==
  /\ pc = "labelling" /\ d \in todo
  /\ todo' = todo \ {d}
  /\ stale' = IF newest > 0 /\ d \in exists /\ IsOlder(d) THEN stale \cup {d}
              ELSE stale
  /\ older' = IF \E a \in listed \cap (everOpen \cup everWritten) :
                   mtime[d] < mtime[a]
              THEN older \cup {d} ELSE older
  /\ UNCHANGED <<machine, fixed, pc, listed, seen, scan, changed, newest, incomplete,
                 exit, events, everOpen, everWritten, held, firstOk>>

StartInspections ==
  /\ Step("labelling", "inspecting")
  /\ todo = {}
  /\ todo' = listed
  /\ UNCHANGED <<machine, fixed, listed, seen, scan, changed, newest, stale,
                 incomplete, exit, events, ghosts>>

InspectOne(d) ==
  /\ pc = "inspecting" /\ d \in todo
  /\ todo' = todo \ {d}
  /\ \E good \in BOOLEAN :
       /\ d \notin exists => ~good
       /\ incomplete' = (incomplete \/ ~good)
  /\ UNCHANGED <<machine, fixed, pc, listed, seen, scan, changed, newest, stale, exit,
                 events, ghosts>>

Report ==
  /\ Step("inspecting", "done")
  /\ todo = {}
  /\ exit' = IF incomplete THEN "partial" ELSE "ok"
  /\ UNCHANGED <<machine, fixed, listed, seen, scan, todo, changed, newest, stale,
                 incomplete, events, ghosts>>

-----------------------------------------------------------------------------
(* Codex, and whoever deletes files *)

Happens ==
  /\ pc # "done" /\ events < MaxEvents
  /\ events' = events + 1
  /\ UNCHANGED <<fixed, pc, listed, seen, scan, todo, changed, newest, stale,
                 incomplete, exit, firstOk, older>>

CodexOpens(d) ==
  /\ Happens /\ d \notin open
  /\ open' = open \cup {d} /\ exists' = exists \cup {d}
  /\ everOpen' = everOpen \cup {d}
  /\ UNCHANGED <<mtime, everWritten, held>>

CodexCloses(d) ==
  /\ Happens /\ d \in open
  /\ open' = open \ {d} /\ held' = held \ {d}
  /\ UNCHANGED <<exists, mtime, everOpen, everWritten>>

CodexWrites(d) ==
  /\ Happens /\ d \in open
  /\ \E t \in mtime[d]..MaxTime : mtime' = [mtime EXCEPT ![d] = t]
  /\ everWritten' = everWritten \cup {d}
  /\ UNCHANGED <<exists, open, everOpen, held>>

Delete(d) ==
  /\ Happens /\ d \in exists \ open
  /\ exists' = exists \ {d}
  /\ UNCHANGED <<open, mtime, everOpen, everWritten, held>>

Next ==
  \/ Discover \/ FirstScan \/ KeepScan \/ AddAndRescan \/ NoneFound \/ StartSampling
  \/ StartLabels \/ StartOthers \/ StartInspections \/ Report
  \/ \E d \in Databases :
       \/ SampleOne(d) \/ StatActive(d) \/ StatOther(d) \/ InspectOne(d)
       \/ CodexOpens(d) \/ CodexCloses(d) \/ CodexWrites(d) \/ Delete(d)

Spec == Init /\ [][Next]_vars

-----------------------------------------------------------------------------
(* Properties *)

\* The types; what is labelled, changed or still to do is a candidate.
TypeOK ==
  /\ open \subseteq exists /\ exists \subseteq Databases
  /\ mtime \in [Databases -> 1..MaxTime] /\ newest \in 0..MaxTime
  /\ pc \in Pcs /\ exit \in Exits /\ scan \in {"none", "ok", "partial"}
  /\ listed \subseteq Databases /\ seen \subseteq Databases
  /\ todo \cup changed \cup stale \subseteq listed
  /\ events \in 0..MaxEvents

\* A database is called a stale duplicate only if it is not itself open or
\* changed, and when it was judged a candidate that Codex has opened or
\* written was newer, although all mtimes are read one after the other.
StaleIsOlder == stale \cap (seen \cup changed) = {} /\ stale \subseteq older

\* Recent is never taken for active: the evidence for every mtime that the
\* others are compared with is a handle or a change during this audit.
ActiveHasEvidence ==
  newest > 0 => DirectlyActive \cap (everOpen \cup everWritten) # {}

\* A database that Codex holds open from the first moment to the last is a
\* candidate, wherever it is, if the first scan was complete.
HolderIsFound == pc = "done" /\ firstOk => held \subseteq listed

=============================================================================
