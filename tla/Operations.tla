----------------------------- MODULE Operations -----------------------------
(***************************************************************************)
(* What an operation on a key leaves in the audit log, and what a backup   *)
(* keeps of both: the handlers of app/api/routes.py, the rotation job      *)
(* (app/cli/rotate.py) and the backup tool (app/cli/backup.py) over one    *)
(* database.                                                               *)
(*                                                                         *)
(* A handler reads the key, changes it in one transaction, reads it again  *)
(* and appends its audit entry in another transaction; the answer waits    *)
(* for the entry.  The rotation job lists the keys that are due once,      *)
(* rotates them one by one and appends its entries after the last one.     *)
(* Nothing holds these steps together.  The cryptography and the versions' *)
(* rows are KeyStore's, the append itself AuditLog's and the authorization *)
(* Access's: here each is one step.                                        *)
(***************************************************************************)
EXTENDS Integers, Sequences, FiniteSets

CONSTANTS
  Keys,        \* the key ids
  Workloads,   \* what may run against the database (Workload below)
  Requests,    \* request slots: the threads of every replica
  Crons,       \* runs of the rotation job, which may overlap
  MaxFaults,   \* bound of the model: changes cut off from their entry by a fault
  None         \* no row, an unset local variable

ASSUME ActorsAssumption == Requests \cap Crons = {}
ASSUME FaultsAssumption == MaxFaults \in Nat
ASSUME NoneAssumption == None \notin Keys /\ None \notin Nat

VARIABLES
  workload, \* which of Workloads this behaviour is of
  keys,     \* the row of each key
  changes,  \* history: the transactions on keys that committed, in order
  log,      \* the audit log
  pc,       \* where each request is
  req,      \* the local variables of each request
  run,      \* the local variables of each run of the rotation job
  backup,   \* the backup directory, and where the tool is
  cut       \* history: changes whose request or run a fault ended

vars == <<workload, keys, changes, log, pc, req, run, backup, cut>>

RereadOps == {"rotate", "disable", "enable", "schedule", "cancel",
              "set_policy", "clear_policy"}
UseOps    == {"use"}  \* encrypt, decrypt, sign, wrap and unwrap
AllOps    == RereadOps \cup UseOps \cup {"create", "destroy", "force_destroy"}

\* The operations that callers ask for, the jobs that are scheduled, the keys
\* that were created, with a rotation policy, before the start, and the bound
\* of the model on the changes that follow.
Workload == [ops : SUBSET AllOps, jobs : SUBSET {"rotate", "backup"},
             existing : SUBSET Keys, bound : Nat]

ASSUME WorkloadsAssumption == Workloads \subseteq Workload

LiveStates == {"enabled", "disabled", "pending_deletion"}

\* aged: the current version is older than the key's rotation period.
KeyRow == [state : LiveStates \cup {"unborn", "destroyed"}, version : Nat,
           policy : BOOLEAN, aged : BOOLEAN]

KeyOf(state, version, policy, aged) ==
  [state |-> state, version |-> version, policy |-> policy, aged |-> aged]

\* done is FALSE when the row the transaction updates is gone.
Change == [op : AllOps, key : Keys, version : Nat, by : Requests \cup Crons,
           done : BOOLEAN]

\* version is the new_version of a rotation's detail.
Entry == [op : AllOps, key : Keys, change : Nat, version : Nat \cup {None}]

EntryOf(i, version) ==
  [op |-> changes[i].op, key |-> changes[i].key, change |-> i, version |-> version]

Local == [op : AllOps \cup {"none"}, key : Keys \cup {None}, ver : Nat,
          change : Nat, seen : Nat \cup {None}]

LocalOf(op, k, v, i, seen) ==
  [op |-> op, key |-> k, ver |-> v, change |-> i, seen |-> seen]

NoLocal == LocalOf("none", None, 0, 0, None)

\* due: the keys still to rotate; made: the rotations made, by their number;
\* since: the number of changes when the due keys were listed.
Run == [at : {"idle", "rotating", "fetched", "appending"}, due : SUBSET Keys,
        key : Keys \cup {None}, ver : Nat, made : SUBSET Nat, since : Nat]

RunOf(at, due, key, ver, made, since) ==
  [at |-> at, due |-> due, key |-> key, ver |-> ver, made |-> made, since |-> since]

NoRun == RunOf("idle", {}, None, 0, {}, 0)

\* A snapshot is a prefix of the changes and of the log; the manifest is the
\* length of the log (with its head, which a prefix of it determines).
Backup == [at : {"idle", "removed", "copied"},
           snapshot : [changes : Nat, log : Nat] \cup {None},
           manifest : Nat \cup {None}]

BackupOf(at, snapshot, manifest) ==
  [at |-> at, snapshot |-> snapshot, manifest |-> manifest]

Live(k) == keys[k].state \in LiveStates

Room == Len(changes) < workload.bound

Init ==
  /\ workload \in Workloads
  /\ keys = [k \in Keys |-> IF k \in workload.existing THEN KeyOf("enabled", 1, TRUE, FALSE)
                            ELSE KeyOf("unborn", 0, FALSE, FALSE)]
  /\ changes = <<>>
  /\ log = <<>>
  /\ pc = [r \in Requests |-> "idle"]
  /\ req = [r \in Requests |-> NoLocal]
  /\ run = [c \in Crons |-> NoRun]
  /\ backup = BackupOf("idle", None, None)
  /\ cut = {}

\* A rotation period ends.
Age(k) ==
  /\ Live(k) /\ ~keys[k].aged
  /\ keys' = [keys EXCEPT ![k] = KeyOf(@.state, @.version, @.policy, TRUE)]
  /\ UNCHANGED <<workload, changes, log, pc, req, run, backup, cut>>

-----------------------------------------------------------------------------
(* The transactions on a key.                                              *)

\* What the first read of an operation must find.
Admits(op, k) ==
  CASE op = "create"              -> keys[k].state = "unborn"
    [] op \in UseOps              -> keys[k].state = "enabled"
    [] op = "enable"              -> keys[k].state \in {"enabled", "disabled"}
    [] op \in {"cancel", "destroy"} -> keys[k].state = "pending_deletion"
    [] OTHER                      -> Live(k)

NewState(op, old) ==
  CASE op \in {"create", "enable"}           -> "enabled"
    [] op \in {"disable", "cancel"}          -> "disabled"
    [] op = "schedule"                       -> "pending_deletion"
    [] op \in {"destroy", "force_destroy"}   -> "destroyed"
    [] OTHER                                 -> old

Updated(op, row) ==
  KeyOf(NewState(op, row.state),
        IF op \in {"create", "rotate"} THEN row.version + 1 ELSE row.version,
        CASE op = "set_policy" -> TRUE [] op = "clear_policy" -> FALSE
          [] OTHER -> row.policy,
        op # "rotate" /\ row.aged)

\* A rotation is of the version that was read, a creation of a new name and
\* id; the other updates commit whatever the row has become, gone or not.
Commits(op, k, v) ==
  CASE op = "create" -> keys[k].state = "unborn"
    [] op = "rotate" -> Live(k) /\ keys[k].version = v
    [] OTHER         -> TRUE

\* Mutant: an update that inserts the row when it is gone.
TransactionUpserts(op, k, v, by) ==
  LET row == Updated(op, keys[k]) IN
  /\ Room
  /\ Commits(op, k, v)
  /\ keys' = [keys EXCEPT ![k] = row]
  /\ changes' = Append(changes, [op |-> op, key |-> k, version |-> row.version,
                                 by |-> by, done |-> TRUE])

Transaction(op, k, v, by) ==
  LET done == op = "create" \/ Live(k)
      row  == IF done THEN Updated(op, keys[k]) ELSE keys[k] IN
  /\ Room
  /\ Commits(op, k, v)
  /\ keys' = [keys EXCEPT ![k] = row]
  /\ changes' = Append(changes, [op |-> op, key |-> k, version |-> row.version,
                                 by |-> by, done |-> done])

-----------------------------------------------------------------------------
(* A handler.                                                              *)

Begin(r, op, k) ==
  /\ op \in workload.ops
  /\ pc[r] = "idle"
  /\ Room
  /\ Admits(op, k)
  /\ pc' = [pc EXCEPT ![r] = "fetched"]
  /\ req' = [req EXCEPT ![r] = LocalOf(op, k, keys[k].version, 0, None)]
  /\ UNCHANGED <<workload, keys, changes, log, run, backup, cut>>

EndRequest(r) ==
  /\ pc' = [pc EXCEPT ![r] = "idle"]
  /\ req' = [req EXCEPT ![r] = NoLocal]

\* Refused, or ended by an exception or a crash, before anything is changed.
Abandon(r) ==
  /\ pc[r] = "fetched"
  /\ EndRequest(r)
  /\ UNCHANGED <<workload, keys, changes, log, run, backup, cut>>

Commit(r) ==
  LET l == req[r] IN
  /\ pc[r] = "fetched"
  /\ Transaction(l.op, l.key, l.ver, r)
  /\ pc' = [pc EXCEPT ![r] = IF l.op \in RereadOps THEN "committed" ELSE "answering"]
  /\ req' = [req EXCEPT ![r] = LocalOf(l.op, l.key, l.ver, Len(changes) + 1, None)]
  /\ UNCHANGED <<workload, log, run, backup, cut>>

\* The ManagedKey a handler answers with is read back after the change.
ReadBack(r, version) ==
  LET l == req[r] IN
  /\ pc[r] = "committed"
  /\ pc' = [pc EXCEPT ![r] = "answering"]
  /\ req' = [req EXCEPT ![r] = LocalOf(l.op, l.key, l.ver, l.change, version)]
  /\ UNCHANGED <<workload, keys, changes, log, run, backup, cut>>

\* Mutant: the entry names the version that was read before the rotation.
RereadStale(r) == ReadBack(r, req[r].ver)

Reread(r) ==
  ReadBack(r, IF Live(req[r].key) THEN keys[req[r].key].version ELSE None)

\* Mutant: every handler takes its detail from the key it read back.
TakesDetailAlways(op) == op \in RereadOps

\* These take new_version and deletion_at from it, and raise when it is None.
TakesDetail(op) == op \in {"rotate", "schedule"}

Raises(r) == TakesDetail(req[r].op) /\ req[r].seen = None

Answer(r) ==
  LET l == req[r] IN
  /\ pc[r] = "answering"
  /\ ~Raises(r)
  /\ log' = Append(log, EntryOf(l.change, IF l.op = "rotate" THEN l.seen ELSE None))
  /\ EndRequest(r)
  /\ UNCHANGED <<workload, keys, changes, run, backup, cut>>

Raise(r) ==
  /\ pc[r] = "answering"
  /\ Raises(r)
  /\ EndRequest(r)
  /\ UNCHANGED <<workload, keys, changes, log, run, backup, cut>>

CutOff(s) ==
  /\ Cardinality(cut \cup s) <= MaxFaults
  /\ cut' = cut \cup s

\* The append fails, or the replica dies, when the change is committed.
Fail(r) ==
  /\ pc[r] \in {"committed", "answering"}
  /\ CutOff({req[r].change})
  /\ EndRequest(r)
  /\ UNCHANGED <<workload, keys, changes, log, run, backup>>

-----------------------------------------------------------------------------
(* The rotation job.                                                       *)

\* Mutant: the period is not compared.
DueWithPolicy(k) == keys[k].state = "enabled" /\ keys[k].policy

Due(k) == keys[k].state = "enabled" /\ keys[k].policy /\ keys[k].aged

SetRun(c, l) ==
  /\ run' = [run EXCEPT ![c] = l]
  /\ UNCHANGED <<workload, pc, req, backup>>

ListDue(c) ==
  LET due == {k \in Keys : Due(k)} IN
  /\ "rotate" \in workload.jobs
  /\ run[c].at = "idle"
  /\ Room
  /\ due # {}
  /\ SetRun(c, RunOf("rotating", due, None, 0, {}, Len(changes)))
  /\ UNCHANGED <<workload, keys, changes, log, cut>>

\* rotate reads the key: in whatever state it is by now, if it is there.
FetchNext(c, k) ==
  LET l == run[c] IN
  /\ l.at = "rotating"
  /\ k \in l.due
  /\ Live(k)
  /\ SetRun(c, RunOf("fetched", l.due \ {k}, k, keys[k].version, l.made, l.since))
  /\ UNCHANGED <<workload, keys, changes, log, cut>>

RotateNext(c) ==
  LET l == run[c] IN
  /\ l.at = "fetched"
  /\ Transaction("rotate", l.key, l.ver, c)
  /\ SetRun(c, RunOf(IF l.due = {} THEN "appending" ELSE "rotating", l.due, None, 0,
                     l.made \cup {Len(changes) + 1}, l.since))
  /\ UNCHANGED <<workload, log, cut>>

\* KeyError for a destroyed key, IntegrityError for one rotated meanwhile: the
\* exception leaves rotate_due, and the list of what it rotated is lost.
AbortBatch(c) ==
  LET l == run[c] IN
  /\ \/ l.at = "rotating" /\ \E k \in l.due : ~Live(k)
     \/ l.at = "fetched" /\ ~Commits("rotate", l.key, l.ver)
  /\ SetRun(c, NoRun)
  /\ UNCHANGED <<workload, keys, changes, log, cut>>

\* Mutant: an append that is done again after it succeeded.
AppendAgain(c, i) ==
  LET l == run[c] IN
  /\ l.at = "appending"
  /\ i \in l.made
  /\ log' = Append(log, EntryOf(i, None))
  /\ UNCHANGED <<workload, keys, changes, pc, req, run, backup, cut>>

AppendNext(c, i) ==
  LET l == run[c] IN
  /\ l.at = "appending"
  /\ i \in l.made
  /\ log' = Append(log, EntryOf(i, None))
  /\ SetRun(c, IF l.made = {i} THEN NoRun
               ELSE RunOf("appending", {}, None, 0, l.made \ {i}, l.since))
  /\ UNCHANGED <<workload, keys, changes, cut>>

\* The job dies, or an append fails.
CronFails(c) ==
  /\ run[c].at # "idle"
  /\ CutOff(run[c].made)
  /\ SetRun(c, NoRun)
  /\ UNCHANGED <<workload, keys, changes, log>>

-----------------------------------------------------------------------------
(* The backup tool, run again and again in one directory.                  *)

SetBackup(b) ==
  /\ backup' = b
  /\ UNCHANGED <<workload, keys, changes, log, pc, req, run, cut>>

RemoveOldSnapshot ==
  /\ "backup" \in workload.jobs
  /\ backup.at = "idle"
  /\ SetBackup(BackupOf("removed", None, backup.manifest))

\* VACUUM INTO is one read of the whole database.
Snapshot ==
  /\ backup.at = "removed"
  /\ SetBackup(BackupOf("copied", [changes |-> Len(changes), log |-> Len(log)],
                        backup.manifest))

\* The head and the count come from the live database, in a later read.
WriteManifest ==
  /\ backup.at = "copied"
  /\ SetBackup(BackupOf("idle", backup.snapshot, Len(log)))

\* The tool dies; an open of the manifest for writing has emptied it already.
BackupDies ==
  /\ backup.at # "idle"
  /\ \/ SetBackup(BackupOf("idle", backup.snapshot, backup.manifest))
     \/ backup.at = "copied" /\ SetBackup(BackupOf("idle", backup.snapshot, None))

\* Mutant: verification of the chain alone.
VerifiesChainOnly == backup.snapshot # None /\ backup.manifest # None

\* The snapshot's chain is a prefix of the log and as valid as the log is;
\* its count and its head must be the manifest's.
Verifies ==
  /\ backup.snapshot # None
  /\ backup.manifest # None
  /\ backup.snapshot.log = backup.manifest

-----------------------------------------------------------------------------
RequestStep(r) ==
  \/ \E op \in AllOps, k \in Keys : Begin(r, op, k)
  \/ Abandon(r) \/ Commit(r) \/ Reread(r)
  \/ Answer(r) \/ Raise(r) \/ Fail(r)

CronStep(c) ==
  \/ ListDue(c)
  \/ \E k \in Keys : FetchNext(c, k)
  \/ RotateNext(c) \/ AbortBatch(c)
  \/ \E i \in run[c].made : AppendNext(c, i)
  \/ CronFails(c)

BackupStep == RemoveOldSnapshot \/ Snapshot \/ WriteManifest \/ BackupDies

Next ==
  \/ \E k \in Keys : Age(k)
  \/ \E r \in Requests : RequestStep(r)
  \/ \E c \in Crons : CronStep(c)
  \/ BackupStep

Spec == Init /\ [][Next]_vars

-----------------------------------------------------------------------------
(* Properties.                                                             *)

\* Every variable keeps its type.
TypeOK ==
  /\ workload \in Workloads
  /\ keys \in [Keys -> KeyRow]
  /\ changes \in Seq(Change)
  /\ log \in Seq(Entry)
  /\ pc \in [Requests -> {"idle", "fetched", "committed", "answering"}]
  /\ req \in [Requests -> Local]
  /\ run \in [Crons -> Run]
  /\ backup \in Backup
  /\ cut \subseteq Nat

Destroys(i, k) ==
  changes[i].done /\ changes[i].key = k /\ changes[i].op \in {"destroy", "force_destroy"}

Logged(i) == \E n \in 1..Len(log) : log[n].change = i

\* An entry stands for one operation that ran, and no operation has two.  It
\* tells of a change that had no effect only when the key was destroyed under
\* the handler, and the version that a rotation's entry names (read back in a
\* later transaction) was made by that rotation or by a later one.
EntriesTellTheTruth ==
  /\ \A n \in 1..Len(log) :
       LET e == log[n]
           c == changes[e.change] IN
       /\ e.change \in 1..Len(changes)
       /\ e.op = c.op /\ e.key = c.key
       /\ ~c.done => \E i \in 1..(e.change - 1) : Destroys(i, c.key)
       /\ e.version # None => \E i \in e.change..Len(changes) :
            changes[i].op = "rotate" /\ changes[i].key = e.key
              /\ changes[i].version = e.version
  /\ \A m, n \in 1..Len(log) : log[m].change = log[n].change => m = n

InProgress(i) ==
  \/ \E r \in Requests : pc[r] # "idle" /\ req[r].change = i
  \/ \E c \in Crons : i \in run[c].made

\* A change without an entry, once its request or its run of the rotation job
\* is over, has one of three explanations: a fault ended it; the key was
\* destroyed before a rotation or a schedule read it back; or the change is a
\* rotation of a batch that ended because another actor rotated or destroyed
\* another key of the batch.
UnloggedIsExplained ==
  \A i \in 1..Len(changes) :
    LET c == changes[i] IN
    \/ Logged(i) \/ InProgress(i) \/ i \in cut
    \/ /\ c.by \in Requests /\ c.op \in {"rotate", "schedule"}
       /\ \E j \in 1..Len(changes) : Destroys(j, c.key)
    \/ /\ c.by \in Crons
       /\ \E j \in 1..Len(changes) :
            /\ changes[j].by # c.by /\ changes[j].key # c.key
            /\ changes[j].op = "rotate" \/ Destroys(j, changes[j].key)

\* The numbers that changes and versions may have, in any workload.
ChangeNumbers == UNION {1..w.bound : w \in Workloads}
Versions == UNION {1..(w.bound + 1) : w \in Workloads}

Makers(k, v) ==
  {i \in 1..Len(changes) :
     changes[i].op \in {"create", "rotate"} /\ changes[i].key = k /\ changes[i].version = v}

\* The keys as the vault that KeyStore implements too: the material of a
\* version is known by the change that made it, and a version that is there
\* from the start has none.
Vault == INSTANCE KeyVault WITH
  KeyIds    <- Keys,
  Secrets   <- {{}} \cup {{i} : i \in ChangeNumbers},
  HardLimit <- 0,
  phase     <- [k \in Keys |-> IF Live(k) THEN "live" ELSE keys[k].state],
  current   <- [k \in Keys |-> IF Live(k) THEN keys[k].version ELSE 0],
  material  <- [k \in Keys |-> [v \in Versions |->
                 IF Live(k) /\ v <= keys[k].version THEN Makers(k, v) ELSE None]],
  used      <- [k \in Keys |-> [v \in Versions |-> 0]]

\* Handlers and jobs together only ever create, rotate and destroy whole keys:
\* a version is made by one change, in its turn, and what works on a key that
\* was destroyed under it brings nothing back.
TakesVaultSteps == [][UNCHANGED <<keys, changes>> \/ Vault!Next]_(Vault!vars)

\* The audit log by the numbers of the changes in it.  A change is to be
\* logged by the request or job that made it, until that one ends.
EntryLog == INSTANCE AppendOnlyLog WITH
  Calls   <- ChangeNumbers,
  log     <- [n \in 1..Len(log) |-> log[n].change],
  outcome <- [i \in ChangeNumbers |->
               IF Logged(i) THEN "logged"
               ELSE IF i <= Len(changes) /\ ~InProgress(i) THEN "failed" ELSE "open"]

\* Each change is logged once, while its request or job is in progress, or
\* never: no entry comes late, twice or from anybody else.
ImplementsEntryLog == EntryLog!Spec

\* The rotation job rotates a key that is not due, by policy, state and age,
\* only when another actor changed that key after the job listed it: runs that
\* do not overlap rotate a key once in a period.
EarlyRotationsAreRaces ==
  [][\A c \in Crons :
       LET n == Len(changes')
           k == changes'[n].key
           dueNow == keys[k].state = "enabled" /\ keys[k].policy /\ keys[k].aged IN
       n > Len(changes) /\ changes'[n].by = c =>
         \/ dueNow
         \/ \E j \in (run[c].since + 1)..Len(changes) :
              changes[j].key = k /\ changes[j].by # c]_vars

\* A backup that verifies lost nothing that its manifest vouches for: each
\* entry the manifest counts is of a change that the snapshot holds.
VerifiedBackupIsComplete ==
  Verifies => \A n \in 1..backup.manifest : log[n].change <= backup.snapshot.changes
=============================================================================
