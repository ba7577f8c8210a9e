---------------------------- MODULE MCMitigation ----------------------------
(* Mitigation on small instances.                                           *)
EXTENDS MitigationInv, MitigationRefines, TLC

Symmetry == Permutations(Doctors)

=============================================================================
