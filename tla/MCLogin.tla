------------------------------- MODULE MCLogin -------------------------------
(* Login on small instances. *)
EXTENDS Login, TLC

CONSTANTS u1, u2, other

\* One browser, other, is of user u2 and the rest are of user u1.
MCUserOf == [b \in Browsers |-> IF b = other THEN u2 ELSE u1]

Symmetry == Permutations(Principals) \cup Permutations(Logins)
            \cup Permutations(Browsers \ {other})
=============================================================================
