------------------------------ MODULE AuditLog ------------------------------
(***************************************************************************)
(* The audit log: AuditLog.append (app/storage/audit.py) over              *)
(* Repository.append_audit (app/storage/repository.py), and the file sink  *)
(* (app/storage/audit_sink.py) that mirrors what was committed.            *)
(*                                                                         *)
(* Threads of several replicas append at once.  On PostgreSQL a            *)
(* transaction takes an advisory lock before it reads the head of the      *)
(* chain.  On SQLite a SELECT runs outside any transaction, so the head is *)
(* read in one step and the row inserted in another, and UNIQUE(prev_hash) *)
(* tells an appender that it lost the race.                                *)
(***************************************************************************)
EXTENDS Integers, Sequences

CONSTANTS
  Calls,       \* the calls of append, each in a thread of its own
  MaxRetries,  \* append_audit's max_retries
  NoCall       \* the advisory lock is free

ASSUME MaxRetriesAssumption == MaxRetries \in Nat \ {0}
ASSUME NoCallAssumption == NoCall \notin Calls

VARIABLES
  locking,    \* the dialect: TRUE on PostgreSQL, FALSE on SQLite
  audit_log,  \* the table audit_log, by increasing seq
  file,       \* the lines of the append-only file
  lock,       \* who holds the advisory lock
  pc,         \* where each call is
  prev_hash,  \* the head each call read
  attempt,    \* failed attempts of each call
  seq,        \* the seq each call got, 0 before
  started     \* history: the length of the log when the call began

vars == <<locking, audit_log, file, lock, pc, prev_hash, attempt, seq, started>>

\* A hash covers its predecessor and the payload: two are equal only when they
\* stand for the same entries in the same order, so it is that sequence.
Genesis == <<>>

Hash(prev, payload) == Append(prev, payload)

\* The payload of an entry (ts, actor, action, target, detail) is its call.
Entry(prev, c) == [prev_hash |-> prev, payload |-> c, entry_hash |-> Hash(prev, c)]

ChainHead(log) == IF log = <<>> THEN Genesis ELSE log[Len(log)].entry_hash

Taken(prev) == \E i \in 1..Len(audit_log) : audit_log[i].prev_hash = prev

Running == {"begin", "locked", "built", "committed"}
Ended   == {"returned", "failed", "exhausted", "crashed"}

Init ==
  /\ locking \in BOOLEAN
  /\ audit_log = <<>>
  /\ file = <<>>
  /\ lock = NoCall
  /\ pc = [c \in Calls |-> "idle"]
  /\ prev_hash = [c \in Calls |-> Genesis]
  /\ attempt = [c \in Calls |-> 0]
  /\ seq = [c \in Calls |-> 0]
  /\ started = [c \in Calls |-> 0]

GoTo(c, label) == pc' = [pc EXCEPT ![c] = label]

\* The lock is the transaction's: commit, rollback and disconnection free it.
EndTransaction(c) == lock' = IF lock = c THEN NoCall ELSE lock

AppendCall(c) ==
  /\ pc[c] = "idle"
  /\ GoTo(c, "begin")
  /\ started' = [started EXCEPT ![c] = Len(audit_log)]
  /\ UNCHANGED <<locking, audit_log, file, lock, prev_hash, attempt, seq>>

TakeLock(c) ==
  /\ locking
  /\ pc[c] = "begin"
  /\ lock = NoCall
  /\ lock' = c
  /\ GoTo(c, "locked")
  /\ UNCHANGED <<locking, audit_log, file, prev_hash, attempt, seq, started>>

\* Mutant: the sink is fed while the row is built, before it is committed.
ReadHeadEmits(c) ==
  /\ pc[c] = IF locking THEN "locked" ELSE "begin"
  /\ prev_hash' = [prev_hash EXCEPT ![c] = ChainHead(audit_log)]
  /\ file' = Append(file, Entry(ChainHead(audit_log), c))
  /\ GoTo(c, "built")
  /\ UNCHANGED <<locking, audit_log, lock, attempt, seq, started>>

ReadHead(c) ==
  /\ pc[c] = IF locking THEN "locked" ELSE "begin"
  /\ prev_hash' = [prev_hash EXCEPT ![c] = ChainHead(audit_log)]
  /\ GoTo(c, "built")
  /\ UNCHANGED <<locking, audit_log, file, lock, attempt, seq, started>>

\* The row goes in at the end of the table, and the transaction commits.
InsertRow(c) ==
  /\ pc[c] = "built"
  /\ audit_log' = Append(audit_log, Entry(prev_hash[c], c))
  /\ seq' = [seq EXCEPT ![c] = Len(audit_log) + 1]
  /\ GoTo(c, "committed")
  /\ EndTransaction(c)
  /\ UNCHANGED <<locking, file, prev_hash, attempt, started>>

\* Mutant: a session lock, which the commit does not free.
InsertKeepsLock(c) ==
  /\ pc[c] = "built"
  /\ ~Taken(prev_hash[c])
  /\ audit_log' = Append(audit_log, Entry(prev_hash[c], c))
  /\ seq' = [seq EXCEPT ![c] = Len(audit_log) + 1]
  /\ GoTo(c, "committed")
  /\ UNCHANGED <<locking, file, lock, prev_hash, attempt, started>>

Insert(c) == ~Taken(prev_hash[c]) /\ InsertRow(c)

\* Mutant: a retry that keeps the head it read first.
RetryStale(c) ==
  /\ pc[c] = "built"
  /\ Taken(prev_hash[c])
  /\ attempt[c] < MaxRetries - 1
  /\ attempt' = [attempt EXCEPT ![c] = @ + 1]
  /\ UNCHANGED <<locking, audit_log, file, lock, pc, prev_hash, seq, started>>

\* An IntegrityError: from the new head, while attempts are left.
Retry(c) ==
  /\ pc[c] = "built"
  /\ Taken(prev_hash[c])
  /\ attempt[c] < MaxRetries - 1
  /\ attempt' = [attempt EXCEPT ![c] = @ + 1]
  /\ GoTo(c, "begin")
  /\ EndTransaction(c)
  /\ UNCHANGED <<locking, audit_log, file, prev_hash, seq, started>>

GiveUp(c) ==
  /\ pc[c] = "built"
  /\ Taken(prev_hash[c])
  /\ attempt[c] = MaxRetries - 1
  /\ GoTo(c, "exhausted")
  /\ EndTransaction(c)
  /\ UNCHANGED <<locking, audit_log, file, prev_hash, attempt, seq, started>>

\* Any other database error is not retried.
DatabaseError(c) ==
  /\ pc[c] \in {"begin", "locked", "built"}
  /\ GoTo(c, "failed")
  /\ EndTransaction(c)
  /\ UNCHANGED <<locking, audit_log, file, prev_hash, attempt, seq, started>>

\* The sink writes the row that committed, after its transaction.
Emit(c) ==
  /\ pc[c] = "committed"
  /\ file' = Append(file, Entry(prev_hash[c], c))
  /\ GoTo(c, "returned")
  /\ UNCHANGED <<locking, audit_log, lock, prev_hash, attempt, seq, started>>

\* Mutant: a sink failure reaches the caller as a failed append.
SinkErrorRaised(c) ==
  /\ pc[c] = "committed"
  /\ GoTo(c, "failed")
  /\ UNCHANGED <<locking, audit_log, file, lock, prev_hash, attempt, seq, started>>

\* Mutant: a sink failure is retried together with the append.
SinkErrorRetried(c) ==
  /\ pc[c] = "committed"
  /\ GoTo(c, "begin")
  /\ UNCHANGED <<locking, audit_log, file, lock, prev_hash, attempt, seq, started>>

\* A sink failure is logged and swallowed.
SinkError(c) ==
  /\ pc[c] = "committed"
  /\ GoTo(c, "returned")
  /\ UNCHANGED <<locking, audit_log, file, lock, prev_hash, attempt, seq, started>>

\* The replica dies; the database rolls the transaction back.
Crash(c) ==
  /\ pc[c] \in Running
  /\ GoTo(c, "crashed")
  /\ EndTransaction(c)
  /\ UNCHANGED <<locking, audit_log, file, prev_hash, attempt, seq, started>>

\* What a thread does when it is scheduled and the database answers.
Step(c) ==
  \/ TakeLock(c) \/ ReadHead(c)
  \/ Insert(c) \/ Retry(c) \/ GiveUp(c)
  \/ Emit(c) \/ SinkError(c)

Next == \E c \in Calls : AppendCall(c) \/ Step(c) \/ DatabaseError(c) \/ Crash(c)

Spec == Init /\ [][Next]_vars

FairSpec == Spec /\ \A c \in Calls : WF_vars(Step(c))

-----------------------------------------------------------------------------
(* Properties.                                                             *)

TypeOK ==
  /\ locking \in BOOLEAN
  /\ audit_log \in Seq([prev_hash : Seq(Calls), payload : Calls, entry_hash : Seq(Calls)])
  /\ file \in Seq([prev_hash : Seq(Calls), payload : Calls, entry_hash : Seq(Calls)])
  /\ lock \in Calls \cup {NoCall}
  /\ pc \in [Calls -> {"idle"} \cup Running \cup Ended]
  /\ prev_hash \in [Calls -> Seq(Calls)]
  /\ attempt \in [Calls -> 0..(MaxRetries - 1)]
  /\ seq \in [Calls -> Nat]
  /\ started \in [Calls -> Nat]

\* verify_chain and the CLI's _verify_file_chain: each entry names the hash of
\* the one before it and carries its own.
VerifyChain(log) ==
  \A i \in 1..Len(log) :
    /\ log[i].prev_hash = IF i = 1 THEN Genesis ELSE log[i - 1].entry_hash
    /\ log[i].entry_hash = Hash(log[i].prev_hash, log[i].payload)

\* The chain never forks and never breaks, at whatever moment it is verified.
ChainIntact == VerifyChain(audit_log)

RowsOf(c) == {i \in 1..Len(audit_log) : audit_log[i].payload = c}

\* append answers truthfully: an append that returned has exactly one entry,
\* at the seq it returned; one that raised has none; only a crash leaves the
\* caller in doubt, and then there is at most one.
AnswersMatchLog ==
  \A c \in Calls :
    /\ pc[c] \in {"committed", "returned"} => RowsOf(c) = {seq[c]}
    /\ pc[c] \notin {"committed", "returned", "crashed"} => RowsOf(c) = {}
    /\ pc[c] = "crashed" => RowsOf(c) \in {{}, {seq[c]}}

\* An append gives up only when, in each of its attempts, another append
\* committed: max_retries entries were added while it ran.  Under the advisory
\* lock no attempt is ever lost.
LosesOnlyToOthers ==
  \A c \in Calls :
    /\ locking => attempt[c] = 0 /\ pc[c] # "exhausted"
    /\ pc[c] = "exhausted" => Len(audit_log) - started[c] >= MaxRetries

\* The file never runs ahead of the database: a line is a committed entry, and
\* no entry has two lines.
FileMirrorsCommitted ==
  /\ \A i \in 1..Len(file) : \E j \in 1..Len(audit_log) : file[i] = audit_log[j]
  /\ \A i, j \in 1..Len(file) : file[i] = file[j] => i = j

\* Every append ends, whoever crashes holding the lock.
EveryAppendEnds ==
  \A c \in Calls : (pc[c] \in Running) ~> (pc[c] \in Ended)

\* Why, in two facts that need no fairness.  The lock is held only by a call in
\* the middle of its transaction, so that no error or death leaves it behind.
LockHeldInTransaction ==
  lock # NoCall => locking /\ pc[lock] \in {"locked", "built"}

\* A bound on the steps a call has left: four in each attempt.
StepsLeft(c) ==
  LET left == 4 * (MaxRetries - attempt[c]) IN
  CASE pc[c] = "idle"      -> left + 4
    [] pc[c] = "begin"     -> left + 3
    [] pc[c] = "locked"    -> left + 2
    [] pc[c] = "built"     -> left + 1
    [] pc[c] = "committed" -> left
    [] OTHER               -> 0

\* Every step brings its call nearer to its end and touches no other call.
EveryStepIsProgress ==
  [][\E c \in Calls :
       /\ StepsLeft(c) \in Nat /\ StepsLeft(c)' \in Nat
       /\ StepsLeft(c)' < StepsLeft(c)
       /\ \A d \in Calls \ {c} : StepsLeft(d)' = StepsLeft(d)]_vars

\* The concurrent log is an AppendOnlyLog.
AtomicLog == INSTANCE AppendOnlyLog WITH
  log     <- [i \in 1..Len(audit_log) |-> audit_log[i].payload],
  outcome <- [c \in Calls |->
               IF RowsOf(c) # {} THEN "logged"
               ELSE IF pc[c] \in Ended THEN "failed" ELSE "open"]

\* Its appends, with all their steps, crashes and retries, are atomic.
ImplementsAppendOnlyLog == AtomicLog!Spec

\* The sink's promise (audit_sink.py:8-10): "file lines are globally ordered
\* and form the same hash chain as the DB".
FileIsChain == VerifyChain(file)
=============================================================================
