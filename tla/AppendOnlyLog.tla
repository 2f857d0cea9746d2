--------------------------- MODULE AppendOnlyLog ---------------------------
(***************************************************************************)
(* What the audit log promises its callers, with every append atomic: the  *)
(* log grows only at its end, an append adds its entry once or fails       *)
(* without a trace, and neither outcome is ever revised.  AuditLog         *)
(* implements it for the calls of append, Operations for the changes that  *)
(* handlers and jobs have to log.                                          *)
(***************************************************************************)
EXTENDS Sequences

CONSTANT Calls   \* the appends there will be

VARIABLES
  log,      \* the entries, oldest first
  outcome   \* of each append: "open", "logged" or "failed"

vars == <<log, outcome>>

Init ==
  /\ log = <<>>
  /\ outcome = [c \in Calls |-> "open"]

Add(c) ==
  /\ outcome[c] = "open"
  /\ log' = Append(log, c)
  /\ outcome' = [outcome EXCEPT ![c] = "logged"]

\* Those that one process still had to do fail together when it ends.
Fail(cs) ==
  /\ \A c \in cs : outcome[c] = "open"
  /\ outcome' = [c \in Calls |-> IF c \in cs THEN "failed" ELSE outcome[c]]
  /\ UNCHANGED log

Next ==
  \/ \E c \in Calls : Add(c)
  \/ \E cs \in SUBSET Calls : Fail(cs)

Spec == Init /\ [][Next]_vars
=============================================================================
