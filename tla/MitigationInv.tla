---------------------------- MODULE MitigationInv ----------------------------
(***************************************************************************)
(* The inductive invariant behind Recoverable, CommitFollowsBackup and      *)
(* CommitOnPlannedTarget.  The checks of a command sample the path, the     *)
(* size and mtime, and the connection at different moments; the invariant   *)
(* says how those samples fit together.  Its heart: a file that has left    *)
(* the path does not come back, so a command that finds its own identity at *)
(* the path late has worked on that file all along.  Hence ~SwapBack.       *)
(***************************************************************************)
EXTENDS Mitigation

ConnectedPcs == {"connected", "exclusive", "gated3",
                 "rbConnected", "rbExclusive", "rbGated3"}
BackedPcs   == ConnectedPcs \cup
  {"backedUp", "steady", "gated2", "prepared", "rbBackedUp", "rbSteady", "rbGated2"}
MeasuredPcs == BackedPcs \cup {"measured", "rbMeasured"}
CheckedPcs  == {"rechecked", "created", "rbRechecked", "rbDropped"}
ManifestPcs == {"prepared", "connected"} \cup ApplyTxnPcs
EndPcs      == PostPcs \cup {"raised", "rbRaised", "done", "crashed"}

\* Everything in use has been at the path, and nothing is known of later files.
PastOnly ==
  /\ \A d \in Doctors : conn[d] <= path /\ ident[d] <= path
  /\ client <= path
  /\ \A i \in Inodes : i > path => author[i] = None

\* BEGIN EXCLUSIVE: one transaction at a time on a file.
LockExclusive ==
  \A d, e \in Doctors :
    (d # e /\ pc[d] \in TxnPcs /\ pc[e] \in TxnPcs) => conn[d] # conn[e]

ModeOK(d) == pc[d] \in {"planRead", "planned"} \cup ApplyPrePcs \cup ApplyTxnPcs
               => mode[d] \in Modes

\* The stamp only grows, so a later equal stamp means an unchanged file.
MeasuredOK(d) ==
  (pc[d] \in MeasuredPcs /\ path = ident[d]) => before[d] <= db[path].ver

BackedOK(d) ==
  (pc[d] \in BackedPcs /\ path = ident[d]) =>
    /\ backup[d] \in Contents
    /\ before[d] <= backup[d].ver /\ backup[d].ver <= db[path].ver
    /\ backup[d].ver = db[path].ver => backup[d] = db[path]

ConnectedOK(d) ==
  (pc[d] \in ConnectedPcs /\ path = ident[d]) => conn[d] = path

ManifestOK(d) == pc[d] \in ManifestPcs => manifest[d] # "none"

CheckedOK(d) ==
  pc[d] \in CheckedPcs =>
    conn[d] \in Inodes /\ conn[d] = ident[d] /\ backup[d] = db[conn[d]]

CreatedOK(d) ==
  pc[d] = "created" =>
    db[conn[d]].trigs = {} /\ Fingerprint(db[conn[d]]) = fp[d]

DroppedOK(d) ==
  pc[d] = "rbDropped" =>
    /\ db[conn[d]].trigs \cap DoctorTriggers = {mode[d]}
    /\ Fingerprint(db[conn[d]]) = fp[d]

DoctorOK(d) ==
  /\ ModeOK(d) /\ MeasuredOK(d) /\ BackedOK(d) /\ ConnectedOK(d)
  /\ ManifestOK(d) /\ CheckedOK(d) /\ CreatedOK(d) /\ DroppedOK(d)

AuthorEnded == \A i \in Inodes, d \in Doctors : author[i] = d => pc[d] \in EndPcs

\* The inductive invariant of the protocol when no file returns to the path.
IInv ==
  /\ TypeOK
  /\ PastOnly
  /\ LockExclusive
  /\ \A d \in Doctors : DoctorOK(d)
  /\ AuthorEnded
  /\ Recoverable

=============================================================================
