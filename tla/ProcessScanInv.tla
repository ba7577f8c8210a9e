---------------------------- MODULE ProcessScanInv ----------------------------
(***************************************************************************)
(* The inductive invariant of a process scan: what each part of it has      *)
(* already established about the processes that it must not miss, and, when *)
(* nobody else was there, about the doctor itself.                          *)
(***************************************************************************)
EXTENDS ProcessScan

\* p has had the database open since the scan began; p has been a Codex.
Holding(p) == p \in Others /\ proc[p].alive /\ proc[p].mine /\ Selected \in kept[p]
CodexAllAlong(p) == p \in codexKept /\ proc[p].mine

\* The doctor is blocked in the scan.  A process that has gone holds nothing,
\* and what was so all along is so now.
TableOK ==
  /\ proc[Self] = [alive |-> TRUE, mine |-> TRUE, codex |-> FALSE,
                   holds |-> IF allowed = {} THEN {} ELSE {Selected}]
  /\ \A p \in Pids : ~proc[p].alive => ~proc[p].codex /\ proc[p].holds = {}
  /\ \A p \in Pids : kept[p] \subseteq proc[p].holds
  /\ \A p \in codexKept : proc[p].codex
  /\ ~noise => \A p \in Others : ~proc[p].codex /\ Selected \notin proc[p].holds

\* Where there is no evidence of handles the report says so.
NoHandlesOK == platform \in NoHandles => partial /\ pc \in {"gate", "end"}

\* lsof comes first on Linux and last on macOS.
HoldersNamed ==
  ~partial /\ platform = "linux" /\ pc # "lsof" =>
    \A p \in Pids : Holding(p) => targets[p] # {}

\* A Codex is on the list until it has been observed; its descriptors are read
\* after that.
CodexListed ==
  /\ ~partial /\ pc \in {"stat", "name", "fds", "links"} =>
       \A p \in Pids : CodexAllAlong(p) => p \in todo \cup seen
  /\ pc \in {"fds", "links"} => cur \in seen

\* A complete report has them all.
ReportComplete ==
  ~partial /\ pc \in {"gate", "end"} =>
    \A p \in Pids : Holding(p) \/ CodexAllAlong(p) => p \in seen

\* When nobody else was there, the report shows at most the caller's own handle.
OnlySelfSeen ==
  ~noise =>
    /\ \A p \in Others : targets[p] = {} /\ open[p] = {}
    /\ targets[Self] = {} \/ allowed = {Self}
    /\ open[Self] = IF Self \in seen THEN {Selected} ELSE {}
    /\ seen \subseteq allowed /\ codexSeen = {} /\ targetCodex = {}
    /\ pc \notin {"fds", "links"}
    /\ platform = "macos" => todo = {}

VerdictOK ==
  /\ pc # "end" => verdict = None
  /\ verdict = "clear" => ~partial /\ seen \subseteq allowed
  /\ verdict = "refused" => partial \/ noise

ScanInv ==
  /\ TypeOK /\ TableOK /\ NoHandlesOK /\ HoldersNamed /\ CodexListed
  /\ ReportComplete /\ OnlySelfSeen /\ VerdictOK
=============================================================================
