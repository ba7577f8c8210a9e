------------------------- MODULE MitigationLifecycle -------------------------
(***************************************************************************)
(* What the doctor promises about the mitigations it installs, without      *)
(* gates, locks, backups or processes: no trigger before its manifest, one   *)
(* owner for the trigger of a file, and a manifest is settled as rolled_back *)
(* only when its trigger is not in the selected database.  Codex may lose a  *)
(* trigger, and another file may be selected, at any time.                  *)
(***************************************************************************)
CONSTANTS
  Mitigations,  \* each is one apply, with its artifact directory
  Files,        \* database files
  Nobody

VARIABLES
  selected, \* the file at the database path
  holder,   \* holder[f]: the mitigation whose trigger is in f, or Nobody
  status    \* status[m]: what its manifest on disk says, or "none"

vars == <<selected, holder, status>>

Init ==
  /\ selected \in Files
  /\ holder = [f \in Files |-> Nobody]
  /\ status = [m \in Mitigations |-> "none"]

Prepare(m) ==
  /\ status[m] = "none"
  /\ status' = [status EXCEPT ![m] = "prepared"]
  /\ UNCHANGED <<selected, holder>>

\* A rollback that found the trigger absent may already have settled m.
Install(m, f) ==
  /\ status[m] # "none"
  /\ holder[f] = Nobody /\ \A g \in Files : holder[g] # m
  /\ holder' = [holder EXCEPT ![f] = m]
  /\ UNCHANGED <<selected, status>>

Confirm(m) ==
  /\ status[m] # "none"
  /\ status' = [status EXCEPT ![m] = "applied"]
  /\ UNCHANGED <<selected, holder>>

\* A rollback with a manifest that fits f, or an upgrade of Codex.
Remove(f) ==
  /\ holder[f] # Nobody
  /\ holder' = [holder EXCEPT ![f] = Nobody]
  /\ UNCHANGED <<selected, status>>

Settle(m) ==
  /\ status[m] # "none" /\ holder[selected] # m
  /\ status' = [status EXCEPT ![m] = "rolled_back"]
  /\ UNCHANGED <<selected, holder>>

Select(f) ==
  /\ holder[f] = Nobody
  /\ selected' = f
  /\ UNCHANGED <<holder, status>>

Next ==
  \/ \E m \in Mitigations :
       Prepare(m) \/ Confirm(m) \/ Settle(m) \/ \E f \in Files : Install(m, f)
  \/ \E f \in Files : Remove(f) \/ Select(f)

Spec == Init /\ [][Next]_vars
=============================================================================
