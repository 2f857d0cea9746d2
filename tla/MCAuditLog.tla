---------------------------- MODULE MCAuditLog -----------------------------
(* Small instances of AuditLog for TLC. *)
EXTENDS AuditLog, TLC

\* Calls are interchangeable: nothing orders them.
Symmetry == Permutations(Calls)
=============================================================================
