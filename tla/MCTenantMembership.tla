-------------------------- MODULE MCTenantMembership --------------------------
(* Instances of TenantMembership for TLC. *)
EXTENDS TenantMembership, TLC

Symmetry == Permutations(Proc) \cup Permutations(Run)

MCStep == {"start", "persist", "clear"}
=============================================================================
