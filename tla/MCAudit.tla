------------------------------ MODULE MCAudit ------------------------------
(* Small instances of AuditChain. *)
EXTENDS AuditChain, TLC

Symmetry == Permutations(Writers) \union Permutations(Jobs)

=============================================================================
