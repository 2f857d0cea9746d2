---------------------------- MODULE MCOperations ----------------------------
(* Operations on small instances. *)
EXTENDS Operations, TLC

Load(ops, jobs, existing, bound) ==
  [ops |-> ops, jobs |-> jobs, existing |-> existing, bound |-> bound]

\* The rotation job beside one operation; rotations and deletions; the other
\* state changes; keys from their creation on; and the backup tool beside
\* rotations.
MCWorkloads ==
  { Load({"rotate"}, {"rotate"}, Keys, 2),
    Load({"schedule"}, {"rotate"}, Keys, 2),
    Load({"force_destroy"}, {"rotate"}, Keys, 2),
    Load({"rotate", "force_destroy"}, {}, Keys, 3),
    Load({"disable", "enable", "schedule", "cancel", "destroy"}, {}, Keys, 3),
    Load({"create", "set_policy", "clear_policy", "use"}, {"rotate"}, {}, 3),
    Load({"rotate"}, {"backup"}, Keys, 3) }

Symmetry == Permutations(Keys) \cup Permutations(Requests) \cup Permutations(Crons)
=============================================================================
