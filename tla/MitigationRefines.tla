-------------------------- MODULE MitigationRefines --------------------------
(***************************************************************************)
(* The protocol implements the lifecycle.  A file is held by the apply whose *)
(* COMMIT made its present trigger state, as long as a mitigation trigger is *)
(* still there.                                                             *)
(***************************************************************************)
EXTENDS Mitigation

Holder(i) == IF db[i].trigs \cap Modes # {} THEN author[i] ELSE None

Lifecycle == INSTANCE MitigationLifecycle
  WITH Mitigations <- Doctors, Files <- Inodes, Nobody <- None,
       selected <- path,
       holder <- [i \in Inodes |-> Holder(i)], status <- manifest

\* Whatever the doctors, Codex and the file system do, in any order, what
\* becomes of triggers and manifests is a behaviour of the lifecycle.
ImplementsLifecycle == Lifecycle!Spec
=============================================================================
