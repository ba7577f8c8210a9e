----------------------------- MODULE ProcessScan -----------------------------
(***************************************************************************)
(* One process gate: the scan of the process table and of open handles      *)
(* (lsof, /proc or ps, descriptors), read one after the other while other   *)
(* processes start, exit, exec, open and close files, and the gate's        *)
(* verdict on the resulting report.  The doctor itself is blocked in the    *)
(* scan; in the third gate it holds the selected database.                  *)
(***************************************************************************)
EXTENDS Naturals

CONSTANTS
  Pids,       \* process identifiers; a dead one may be used again
  Self,       \* the doctor's own process
  Databases,  \* files named logs_<n>.sqlite
  Selected,   \* the database the gate is about: "database-001" in the report
  Platforms,  \* platforms the scan runs on
  MaxEvents,  \* bound: changes of the process table during one scan
  None

ScanConstants ==
  /\ Self \in Pids /\ None \notin Pids \cup {"clear", "refused"}
  /\ Selected \in Databases
  /\ Platforms \subseteq {"linux", "macos", "windows", "other"}

Others == Pids \ {Self}

\* Platforms without handle evidence: Windows lists processes only, others
\* nothing, and the report is partial or unsupported whatever is found.
NoHandles == {"windows", "other"}

\* mine: is its /proc entry owned by the doctor's user?  lsof reads the
\* descriptors of such processes only.  codex: does the executable's name
\* contain "codex"?
Process == [alive : BOOLEAN, mine : BOOLEAN, codex : BOOLEAN, holds : SUBSET Databases]

VARIABLES
  platform,    \* sys.platform
  allowed,     \* allowed_holder_pids: empty, or {Self} in the third gate
  proc,        \* the process table
  events,      \* changes of the process table so far
  pc,          \* next part of the scan
  targets,     \* target_holders: targets[p] = what lsof found p to have open
  targetCodex, \* those with a Codex command name in lsof's output
  todo,        \* listed processes still to be read
  cur,         \* the process being read
  fds,         \* its descriptors, as listed
  seen,        \* processes with an observation
  codexSeen,   \* those observed as Codex
  open,        \* open_database_ids of the observations
  partial,     \* was some evidence incomplete?
  verdict,     \* of ensure_process_gate
  kept,        \* ghost: kept[p] = what p has had open since the scan began
  codexKept,   \* ghost: processes that have been Codex since the scan began
  noise        \* ghost: has another process been Codex, or held Selected, meanwhile?

table  == <<proc, events, kept, codexKept, noise>>
report == <<seen, codexSeen, open>>
lsof   == <<targets, targetCodex>>
vars   == <<platform, allowed, table, pc, lsof, todo, cur, fds, report, partial, verdict>>

Pcs == {"lsof", "list", "stat", "name", "fds", "links", "targets", "gate", "end"}

Disturbs(p, q) == p # Self /\ q.alive /\ (q.codex \/ Selected \in q.holds)
Empty == [p \in Pids |-> {}]

Init ==
  /\ platform \in Platforms
  /\ allowed \in {{}, {Self}}
  /\ proc \in [Pids -> Process]
  /\ \A p \in Others : ~proc[p].alive =>
       proc[p] = [alive |-> FALSE, mine |-> TRUE, codex |-> FALSE, holds |-> {}]
  /\ proc[Self] = [alive |-> TRUE, mine |-> TRUE, codex |-> FALSE,
                   holds |-> IF allowed = {} THEN {} ELSE {Selected}]
  /\ events = 0
  /\ pc = CASE platform = "linux" -> "lsof"
            [] platform = "macos" -> "list"
            [] OTHER -> "gate"
  /\ partial = (platform \in NoHandles)
  /\ targets = Empty /\ targetCodex = {}
  /\ todo = {} /\ cur = None /\ fds = {}
  /\ seen = {} /\ codexSeen = {} /\ open = Empty
  /\ verdict = None
  /\ kept = [p \in Pids |-> proc[p].holds]
  /\ codexKept = {p \in Pids : proc[p].codex}
  /\ noise = (\E p \in Pids : Disturbs(p, proc[p]))

-----------------------------------------------------------------------------
(* Wrong variants of the definitions below, used to test that the properties *)
(* notice them; the specification uses none of them.                         *)

\* Takes every unreadable name for a process that has gone.
UnreadableIsGone(p) ==
  /\ todo' = todo \ {p} /\ cur' = None /\ pc' = "stat"
  /\ UNCHANGED <<partial, fds, report>>

\* No handle is known to be the caller's own.
NoSelfHandle(p) == FALSE

\* Accepts what the scan has found, complete or not.
TrustsPartial == TRUE

-----------------------------------------------------------------------------
(* What the tools answer *)

\* lsof -Fpcn -- <database>: whose descriptors it can read and who holds it.
Holders == [p \in Pids |->
              IF proc[p].alive /\ proc[p].mine THEN proc[p].holds \cap {Selected} ELSE {}]

Codex(ps) == {p \in ps : proc[p].codex}
Running == {p \in Pids : proc[p].alive}

\* An error, a timeout, warnings, a bad return code or malformed records: the
\* evidence is partial and holds some of the truth.
Degraded(truth) == {truth, Empty}

-----------------------------------------------------------------------------
(* The parts of a scan *)

\* An observation of p, merged with an earlier one of the same process.
Observe(p, isCodex, dbs) ==
  /\ seen' = seen \cup {p}
  /\ codexSeen' = IF isCodex THEN codexSeen \cup {p} ELSE codexSeen
  /\ open' = [open EXCEPT ![p] = @ \cup dbs]

LinuxLsof ==
  /\ platform = "linux" /\ pc = "lsof"
  /\ \/ targets' = Holders /\ partial' = partial
     \/ targets' \in Degraded(Holders) /\ partial' = TRUE
  /\ targetCodex' = {p \in Codex(Pids) : targets'[p] # {}}
  /\ pc' = "list"
  /\ UNCHANGED <<platform, allowed, table, todo, cur, fds, report, verdict>>

LinuxList ==
  /\ platform = "linux" /\ pc = "list"
  /\ todo' = Running /\ pc' = "stat"
  /\ UNCHANGED <<platform, allowed, table, lsof, cur, fds, report, partial, verdict>>

\* The process list cannot be read at all: an empty partial report.
ListFails ==
  /\ pc = "list"
  /\ partial' = TRUE /\ pc' = "gate"
  /\ UNCHANGED <<platform, allowed, table, lsof, todo, cur, fds, report, verdict>>

\* stat of the process directory.  Any error counts, also that the process has
\* gone; other users' processes are passed over.
LinuxStat(p) ==
  /\ platform = "linux" /\ pc = "stat" /\ p \in todo
  /\ \/ /\ proc[p].alive /\ proc[p].mine
        /\ cur' = p /\ pc' = "name"
        /\ UNCHANGED <<todo, partial>>
     \/ /\ proc[p].alive /\ ~proc[p].mine
        /\ todo' = todo \ {p}
        /\ UNCHANGED <<pc, cur, partial>>
     \/ /\ todo' = todo \ {p} /\ partial' = TRUE
        /\ UNCHANGED <<pc, cur>>
  /\ UNCHANGED <<platform, allowed, table, lsof, fds, report, verdict>>

ReadNext(p) == todo' = todo \ {p} /\ cur' = None /\ pc' = "stat"

\* comm and exe.  A Codex process goes on to its descriptors; any other is
\* observed if lsof has named it.
LinuxName(p) ==
  /\ platform = "linux" /\ pc = "name" /\ cur = p /\ proc[p].alive
  /\ IF proc[p].codex
       THEN Observe(p, TRUE, targets[p]) /\ pc' = "fds" /\ UNCHANGED <<todo, cur>>
       ELSE /\ IF targets[p] # {} THEN Observe(p, FALSE, targets[p])
                                  ELSE UNCHANGED report
            /\ ReadNext(p)
  /\ UNCHANGED <<platform, allowed, table, lsof, fds, partial, verdict>>

\* Neither name can be read: partial only if the process is still there.
NameUnreadable(p) ==
  /\ ReadNext(p)
  /\ partial' = (partial \/ proc[p].alive)
  /\ UNCHANGED <<fds, report>>

LinuxNameFails(p) ==
  /\ platform = "linux" /\ pc = "name" /\ cur = p
  /\ NameUnreadable(p)
  /\ UNCHANGED <<platform, allowed, table, lsof, verdict>>

\* The descriptors are listed, then read one by one; one that was closed in
\* between is passed over.
LinuxFds(p) ==
  /\ platform = "linux" /\ pc = "fds" /\ cur = p
  /\ \/ fds' = proc[p].holds /\ pc' = "links" /\ UNCHANGED <<todo, cur, partial>>
     \/ fds' = {} /\ ReadNext(p) /\ partial' = (partial \/ proc[p].alive)
  /\ UNCHANGED <<platform, allowed, table, lsof, report, verdict>>

LinuxLinks(p) ==
  /\ platform = "linux" /\ pc = "links" /\ cur = p
  /\ \/ Observe(p, TRUE, fds \cap proc[p].holds) /\ UNCHANGED partial
     \/ /\ fds \cap proc[p].holds # {}
        /\ partial' = TRUE /\ UNCHANGED report
  /\ fds' = {} /\ ReadNext(p)
  /\ UNCHANGED <<platform, allowed, table, lsof, verdict>>

\* lsof has named processes that the list has not: they are observed too.
LinuxLeftovers ==
  /\ platform = "linux" /\ pc = "stat" /\ todo = {}
  /\ LET left == {p \in Pids \ seen : targets[p] # {}}
     IN  /\ seen' = seen \cup left
         /\ codexSeen' = codexSeen \cup (left \cap targetCodex)
         /\ open' = [p \in Pids |-> IF p \in left THEN targets[p] ELSE open[p]]
  /\ pc' = "gate"
  /\ UNCHANGED <<platform, allowed, table, lsof, todo, cur, fds, partial, verdict>>

\* ps lists every user's processes with their names; lines that cannot be read
\* make the scan partial.
MacList ==
  /\ platform = "macos" /\ pc = "list"
  /\ \/ todo' = Codex(Running) /\ UNCHANGED partial
     \/ todo' \in SUBSET Codex(Running) /\ partial' = TRUE
  /\ pc' = "stat"
  /\ UNCHANGED <<platform, allowed, table, lsof, cur, fds, report, verdict>>

\* lsof -p for one listed Codex process.
MacHandles(p) ==
  /\ platform = "macos" /\ pc = "stat" /\ p \in todo
  /\ LET truth == IF proc[p].alive /\ proc[p].mine THEN proc[p].holds ELSE {}
     IN  \/ Observe(p, TRUE, truth) /\ UNCHANGED partial
         \/ (\E dbs \in {truth, {}} : Observe(p, TRUE, dbs)) /\ partial' = TRUE
  /\ todo' = todo \ {p}
  /\ UNCHANGED <<platform, allowed, table, pc, lsof, cur, fds, verdict>>

\* The target-directed lsof comes last.
MacLsof ==
  /\ platform = "macos" /\ pc = "stat" /\ todo = {}
  /\ \/ targets' = Holders /\ partial' = partial
     \/ targets' \in Degraded(Holders) /\ partial' = TRUE
  /\ LET found == {p \in Pids : targets'[p] # {}}
     IN  /\ seen' = seen \cup found
         /\ targetCodex' = Codex(found)
         /\ codexSeen' = codexSeen \cup Codex(found)
         /\ open' = [p \in Pids |-> open[p] \cup targets'[p]]
  /\ pc' = "gate"
  /\ UNCHANGED <<platform, allowed, table, todo, cur, fds, verdict>>

-----------------------------------------------------------------------------
(* The gate on the report *)

IsSelfHandle(p) == p \in allowed /\ p \notin codexSeen /\ open[p] = {Selected}

Complete == ~partial

RemainingProcesses == {p \in seen : ~IsSelfHandle(p)}
HeldBy(ps) == UNION {open[p] : p \in ps}
RemainingHeld ==
  HeldBy(seen) \ (HeldBy(seen \ RemainingProcesses) \ HeldBy(RemainingProcesses))

Gate ==
  /\ pc = "gate"
  /\ verdict' = IF /\ Complete
                   /\ RemainingProcesses = {}
                   /\ \A p \in codexSeen : open[p] = {}
                   /\ RemainingHeld = {}
                THEN "clear" ELSE "refused"
  /\ pc' = "end"
  /\ UNCHANGED <<platform, allowed, table, lsof, todo, cur, fds, report, partial>>

-----------------------------------------------------------------------------
(* The other processes *)

Change(p, q) ==
  /\ pc # "end" /\ events < MaxEvents
  /\ events' = events + 1
  /\ proc' = [proc EXCEPT ![p] = q]
  /\ kept' = [kept EXCEPT ![p] = @ \cap q.holds]
  /\ codexKept' = IF q.codex THEN codexKept ELSE codexKept \ {p}
  /\ noise' = (noise \/ Disturbs(p, q))
  /\ UNCHANGED <<platform, allowed, pc, lsof, todo, cur, fds, report, partial, verdict>>

Start(p) ==
  /\ ~proc[p].alive
  /\ \E q \in Process : q.alive /\ q.holds = {} /\ Change(p, q)

Exit(p) ==
  /\ proc[p].alive
  /\ Change(p, [alive |-> FALSE, mine |-> TRUE, codex |-> FALSE, holds |-> {}])

Exec(p) == proc[p].alive /\ Change(p, [proc[p] EXCEPT !.codex = ~@])

Open(p, d) ==
  /\ proc[p].alive /\ d \notin proc[p].holds
  /\ Change(p, [proc[p] EXCEPT !.holds = @ \cup {d}])

Close(p, d) ==
  /\ d \in proc[p].holds
  /\ Change(p, [proc[p] EXCEPT !.holds = @ \ {d}])

-----------------------------------------------------------------------------
LinuxNext ==
  \/ LinuxLsof \/ LinuxList \/ LinuxLeftovers
  \/ \E p \in Pids :
       \/ LinuxStat(p) \/ LinuxName(p) \/ LinuxNameFails(p)
       \/ LinuxFds(p) \/ LinuxLinks(p)

MacNext == MacList \/ MacLsof \/ \E p \in Pids : MacHandles(p)

TableNext ==
  \E p \in Others :
    \/ Start(p) \/ Exit(p) \/ Exec(p)
    \/ \E d \in Databases : Open(p, d) \/ Close(p, d)

Next == LinuxNext \/ MacNext \/ ListFails \/ Gate \/ TableNext

Spec == Init /\ [][Next]_vars

-----------------------------------------------------------------------------
(* Properties *)

TypeOK ==
  /\ platform \in Platforms
  /\ allowed \in {{}, {Self}}
  /\ proc \in [Pids -> Process]
  /\ pc \in Pcs
  /\ targets \in [Pids -> SUBSET {Selected}]
  /\ targetCodex \subseteq Pids
  /\ todo \subseteq Pids
  /\ cur \in Pids \cup {None}
  /\ (cur # None) <=> (pc \in {"name", "fds", "links"})
  /\ fds \subseteq Databases
  /\ seen \subseteq Pids
  /\ codexSeen \subseteq seen
  /\ open \in [Pids -> SUBSET Databases]
  /\ partial \in BOOLEAN
  /\ verdict \in {None, "clear", "refused"}
  /\ kept \in [Pids -> SUBSET Databases]
  /\ codexKept \subseteq Pids
  /\ noise \in BOOLEAN

\* The gate never clears a database that another process of this user has had
\* open since before the scan began, whatever else changed meanwhile and
\* whichever tool failed.
HolderNeverMissed ==
  verdict = "clear" =>
    \A p \in Others : (proc[p].alive /\ proc[p].mine) => Selected \notin kept[p]

\* Nor does it clear while a Codex process of this user, with or without a
\* handle, has been running since before the scan began.
CodexNeverMissed ==
  verdict = "clear" => \A p \in codexKept : ~proc[p].mine

\* A refusal has a cause outside the doctor: incomplete evidence, or another
\* process that was Codex or held the database at some moment of the scan.
\* The caller's own handle alone never refuses the third gate.
RefusalHasCause == verdict = "refused" => partial \/ noise

=============================================================================
