----------------------------- MODULE Agreement -----------------------------
(***************************************************************************)
(* What processes that start together promise about a value each of them   *)
(* could provide: one is chosen, nothing ever replaces it, and a process   *)
(* that holds a value holds the chosen one.  A process that ends forgets   *)
(* what it held and may learn it again.  Bootstrap implements it twice,    *)
(* for the Root KEK and for the audit signing keypair, with nothing but an *)
(* INSERT and a primary key.                                               *)
(***************************************************************************)
CONSTANTS
  Processes,  \* who takes part
  Values,     \* what may be chosen
  None        \* nothing chosen, nothing learned

VARIABLES
  chosen,   \* the value chosen
  learned   \* what each process holds

vars == <<chosen, learned>>

\* The choice may be older than all processes.
Init ==
  /\ chosen \in Values \cup {None}
  /\ learned = [p \in Processes |-> None]

Choose(p, v) ==
  /\ chosen = None
  /\ chosen' = v
  /\ learned' = [learned EXCEPT ![p] = v]

Learn(p) ==
  /\ chosen # None
  /\ learned' = [learned EXCEPT ![p] = chosen]
  /\ UNCHANGED chosen

Forget(p) ==
  /\ learned' = [learned EXCEPT ![p] = None]
  /\ UNCHANGED chosen

Next ==
  \E p \in Processes :
    \/ \E v \in Values : Choose(p, v)
    \/ Learn(p)
    \/ Forget(p)

Spec == Init /\ [][Next]_vars
=============================================================================
