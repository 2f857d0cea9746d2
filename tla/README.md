# PQ-KMS in TLA+

TLA+ models of the key management service in `pqkms/app`, the TLC runs that check
them on small instances, and TLAPS proofs of their safety properties for every
value of the constants. Paths below are relative to `pqkms/app` unless they start
with `pqkms/` or `deploy/`.

1. [The system](#1-the-system)
2. [The models](#2-the-models)
3. [What the runs check](#3-what-the-runs-check)
4. [What is proved](#4-what-is-proved)
5. [Where the code differs from its documentation](#5-where-the-code-differs-from-its-documentation)
6. [What is not modelled](#6-what-is-not-modelled)
7. [Plan](#7-plan)

## 1. The system

PQ-KMS is a FastAPI service. Several replicas (three in
`deploy/docker-compose.ha.yml`) run the same process over one SQL database; each
serves requests in a thread pool. There is no lock or transaction around a
handler: it is a sequence of `Repository` calls, and each call is one
transaction. The database is therefore the only shared state, and everything
that two requests do to each other happens *between* those calls. Command line
tools run against the same database while the replicas serve.

| Component | State | Operations | Interacts with |
|---|---|---|---|
| Key store (`storage/keystore.py`) | tables `managed_keys`, `key_versions`; the Root KEK in memory | create, import, rotate; disable, enable, schedule and cancel deletion, destroy; encrypt, decrypt, sign, verify, wrap, unwrap; rotation policies | repository, nonce budget, custody |
| Nonce budget (`policy.py`) | `key_versions.usage_count` | `reserve` | called by encrypt before it encrypts |
| Repository (`storage/repository.py`, `schema.py`, `engine.py`) | the database | one method per transaction | everything |
| Audit log (`storage/audit.py`) | table `audit_log`, a hash chain; the signing keypair in `kms_meta` | `append`, `verify_chain` | repository, sink; called by every handler after its operation |
| Audit sink (`storage/audit_sink.py`) | an append-only file | `emit` | called by `append` after the commit |
| Bootstrap (`main.py`, `cli/init.py`) | rows of `kms_meta`, the first token | initialize or unlock, signing key, token | key store, audit log, tokens |
| Custody (`custody/*.py`, `cli/rekey.py`) | the envelope row of `kms_meta` | seal, unwrap, reseal | bootstrap, rekey |
| Principals and tokens (`api/auth.py`) | tables `principals`, `api_tokens` | create, revoke, delete, authenticate | routes |
| Grants and namespaces (`api/authz.py`) | tables `grants`, `namespaces` | create, delete, authorize | routes, key store |
| Login (`api/oidc.py`, `api/sessions.py`) | signed cookies, subject mapping in `kms_meta` | login, callback, logout | principals |
| Routes (`api/routes.py`) | none | authorize, operate, append to the audit log | all of the above |
| Rotation CLI, backup CLI, audit CLI (`cli/*.py`) | none | rotate what is due; snapshot and verify; verify the chain | key store, audit log |
| Cryptography (`crypto/*.py`) | none | AEAD, hybrid KEM and signatures, KDFs | key store, audit log, custody |
| Migrations (`storage/migrations`) | the schema version | upgrade to head, on every start | repository |

What is hard to get right in it:

* **Check, then act.** A handler reads a row in one transaction, decides, and
  writes in another. The row may have changed in between: rotated, destroyed,
  cancelled.
* **One winner.** Replicas that start together must agree on one Root KEK, one
  signing key, one bootstrap token, with `INSERT` and a primary key as the only
  means.
* **An append-only chain with many writers**, which retries on one database
  and locks on the other.
* **Counting.** Encryption with random nonces is bounded per key version; a slot
  must be taken before it is used and can never be given back.
* **Failures between two transactions**: a replica that dies, a sink that fails,
  an init run that raises, a job that ends in the middle of its batch.
* **A fleet that is not uniform.** Replicas and jobs with and without the post-quantum
  library work on the same keys; each result carries the suite it was made with.
* **Logins without a session table.** All that ties a callback to the login that began it
  is in a signed cookie, which every new login replaces.

What makes each component correct:

* *Key store.* A key is an unbroken chain of versions with one active end; no
  version is rewritten while its key exists; every ciphertext, signature and
  wrapped key can be opened as long as its key exists; destruction leaves
  nothing behind; the state and the deletion date agree.
* *Nonce budget.* No two encryptions under a version share a slot, none exceeds
  the limit.
* *Audit log.* The chain never forks; an append that returned has exactly one
  entry; one that raised has none; the file never runs ahead of the table.
* *Bootstrap and custody.* All processes that are unlocked hold the same Root
  KEK, for ever, and sign with the same key; at most one bootstrap token exists;
  every replica comes up in the end.
* *Handlers and jobs.* An audit entry is of a change that happened; a change without an
  entry has an explanation; the rotation job rotates what is due; a backup that verifies
  holds what it vouches for.
* *Login.* A session is of the user who sits at the browser, a subject keeps its principal,
  and a deleted principal is not revived.
* *Cryptography and Shamir custody.* What was made stays usable, nothing passes for a suite
  it is not of, and any threshold of shares unlocks.
* *Access.* The deletion of a principal leaves no usable token; a principal has one
  grant per resource and a removed one stays removed; strict mode lets through what
  a grant covers and nothing else.

## 2. The models

### KeyStore (`KeyStore.tla`, abstract: `KeyVault.tla`)

Variables: the two tables (`managed_keys`, `key_versions`), the clock `now` in
days, `issued` (what was handed out: for each ciphertext, signature or wrapped key
the version and the material it was made with), and for each request slot its
label `pc` and its local variables `req`.

A request takes one step per transaction. `StartX` is the handler's first read
(`get_key`) with the checks on the row it returned; it stores in `req` what the
code keeps in local variables, for instance the version that was current or the
deletion date. The steps that follow are the other transactions:

| Action | Transaction |
|---|---|
| `CreateKey`, `ImportKey` | `create_key_with_version`, one transaction |
| `DisableKey`, `EnableKey`, `ScheduleDeletion`, `CancelDeletion` | `set_key_state`: an unconditional `UPDATE`, without effect on a missing row |
| `DestroyKey`, `ForceDestroyKey` | the date check on the row read *earlier*, then `destroy_key` |
| `RotateKey` | `rotate_key`: mark the old version, insert the new one, move `current_version`; `UNIQUE(key_id, version)` and the foreign key make the losers of a race raise |
| `LoadVersion` | `get_version` |
| `Reserve` | `increment_usage_if_below`, a single `UPDATE ... RETURNING` |
| `Seal`, `Open` | the cryptographic operation and the answer |
| `Abandon` | an exception or refusal, or the end of the replica, between two transactions |

`rotate` works in every state, `verify` on disabled keys too, and `unwrap` and
`verify` take the version from the caller: as in the code. A uuid is never drawn
twice, so a destroyed id stays destroyed; names can be used again. Generated
material is fresh, imported material need not be. Suites and public halves are
part of the material.

`KeyVault` says what this amounts to with every operation atomic: a key's
sequence of materials grows only at its end, slots are taken one at a time below the
limit, destruction takes all of it. `ImplementsVault` is the refinement.
`DestroyedOnlyWhenDue`, which the documentation promises, does not hold (section 5);
`EarlyDestructionsAreRaces` says when exactly it fails.

### AuditLog (`AuditLog.tla`, abstract: `AppendOnlyLog.tla`)

One call of `append` per element of `Calls`. The variable `locking`, constant in a behaviour, is the database: on
PostgreSQL a transaction takes the advisory lock before it reads the head; on
SQLite pysqlite runs a `SELECT` outside any transaction, so `ReadHead` and
`Insert` are separate steps even within `engine.begin()`. `UNIQUE(prev_hash)`
(`uq_audit_prev_hash` in the baseline migration) aborts the loser, which retries
from the new head up to `MaxRetries` times. `Emit` and `SinkError` come after
the commit. `DatabaseError` is any other error (a locked SQLite database raises
`OperationalError`, which is not retried), `Crash` the end of the replica. A hash
is the sequence of payloads it covers: equal hashes mean equal histories.

`AppendOnlyLog` is the atomic log: an append adds its entry once at the end, or
fails without a trace. `LockHeldInTransaction` and `EveryStepIsProgress` are what `EveryAppendEnds`
comes to without fairness: nobody waits for a lock that was left behind, and no step
puts an append off.

### Bootstrap (`Bootstrap.tla`, abstract: `Agreement.tla`)

Replicas (`create_app`), runs of the init CLI and runs of the rekey CLI, one step per
transaction: `Probe` (`is_initialized`), `GenerateRootKek` (`initialize` asks again and
raises if it is late), `PutCustody` (`put_meta(if_absent)`; the loser unlocks from what landed),
`Unlock`, `LoadSigningKey` and `PutSigningKey`, `CheckToken`, `ClaimToken` (the
sentinel), `MintToken`, `PrintToken` or `SkipToken`; `RewrapRootKek` and `VerifyRekey`.
A custodian is a passphrase: an envelope opens under the passphrase it was sealed
with. The deployment starts empty or with the rows of the format before
custodians (`legacy`). Processes may be killed anywhere, and replicas start
again. `Mount` is the operator, who updates the mounted secret after a rekey.
Tokens may have been revoked when `has_any_token` asks, so `CheckToken` may go
on although one was minted. `create_token`'s two inserts (principal, token) are
one step here; an unfinished pair is a crash before `MintToken`.

`Agreement` is a value that processes choose once, and that each of them has learned or
has not. `ImplementsAgreement` says that the Root KEK is one and the audit signing
keypair another: what all the inserts, second looks and restarts are there for.

### Access (`Access.tla`)

Variables: the tables `principals`, `api_tokens`, `grants`, `namespaces`, of
`managed_keys` only which keys exist in which namespace, and for each request slot `pc` and
`req` as in KeyStore. A row that was never there and a row that was deleted are two states,
because an id is never drawn again. The history variables `late` and `lateGrants` collect the
tokens and grants that were inserted while, or after, their principal or key was deleted.

`StartX` is the first transaction of every request, the join that
`authenticate` reads, with the scope that the route requires; an admin, and anyone in
legacy mode, is exempt from grants (`SubjectToGrants`). Then one action per transaction:

| Action | Transaction |
|---|---|
| `ReadNamespace`, `AuthorizeKeyOp` | the two reads of `authorize_key_op`: the key's namespace, the caller's grants |
| `LookupNamespace`, `AuthorizeNamespaceOp`, `CreateKey` | `create_key` and `import_key` up to the insertion |
| `FindGrantsOn`, `DestroyKey` | the operation under `manage` that removes a key, with the grants on it: its `DELETE` of the grants works on the rows that are committed when it starts. What all others do to keys is in KeyStore |
| `ReadKeys`, `FilterVisible` | the page of keys, then the grants that filter it |
| `CheckName`, `InsertNamespace` | `create_namespace`, with `UNIQUE(name)` |
| `CheckPrincipal`, `CheckResource`, `FindGrant`, `ReplaceGrant`, `InsertGrant` | `create_grant`: two questions, then `upsert_grant`, whose `SELECT` locks nothing, so it is a step before its `UPDATE` or `INSERT` |
| `DeleteGrant`, `CreatePrincipal`, `RevokeToken`, `SetPrincipalDisabled` | one transaction each (no route calls the last) |
| `FindTokens`, `DeletePrincipal` | `delete_principal`: its `UPDATE` of the tokens works on the rows that are committed when it starts, and others may insert until its commit |
| `CheckOwner` or `CreateOwner`, `InsertToken` | `create_token` |
| `Expire` | time passes `expires_at` |
| `EndRequest` | a denial, an error, the end of the replica or a key operation that leaves the key |

### Operations (`Operations.tla`)

KeyStore, AuditLog and Access each look at one component. This module is their
composition as the handlers of `api/routes.py`, the rotation job (`cli/rotate.py`) and the
backup tool (`cli/backup.py`) make it: authorization, the cryptography and the append are one
step each here, and what is kept apart are the transactions between which others act.

Variables: `keys` (state, current version, whether there is a rotation policy and whether
the period has passed), the history `changes` of all committed changes with who made them, `log` (entries that
name the change they are of), the requests' `pc` and `req`, the jobs' `run`, the directory `backup`, and
the history `cut` of changes whose request or run a fault ended.

| Action | Code |
|---|---|
| `Begin`, `Commit` | first read and update of a handler; `Commits` says what the update compares: a rotation the version, a creation the name, all others nothing |
| `Reread` | the `get_key` from which seven handlers answer, after their update |
| `Answer`, `Raise` | the append, and the exception of `rotate` and `schedule` when the key read back is `None` |
| `ListDue`, `FetchNext`, `RotateNext` | `rotation_due` and `rotate_due` |
| `AbortBatch` | the exception that leaves `rotate_due`, with the list of what was rotated |
| `AppendNext` | the entries, after the last rotation |
| `RemoveOldSnapshot`, `Snapshot`, `WriteManifest`, `BackupDies` | `cmd_create` as its effects on the directory; `Verifies` is `cmd_verify` |
| `Fail`, `CronFails` | an append that raises, or the death of the process, between a change and its entry |

What KeyStore and AuditLog promise of their own transactions must survive this composition.
`TakesVaultSteps`: every transaction on the keys is an operation of `KeyVault`.
`ImplementsEntryLog`: the entries that are owed, for operations and for rotations of a run, are
the appends of an `AppendOnlyLog`, added once or failed for good, also when a batch is
abandoned with all of its entries at once.

A behaviour is of one *workload*: the operations asked for, the jobs scheduled, the keys
that exist.

### Login (`Login.tla`)

Browsers, replicas and an external provider. `AuthLogin` draws a login (state, nonce and PKCE
verifier are one value: all three are drawn there) and sets the signed cookie; `Callback`
is `verify_tx`, the exchange of the code and `verify_id_token`; then the transactions of the mapping:
`GetMapping`, `GetPrincipal`, `CreatePrincipal`, `UpdateMapping`, `InsertMapping`
(`set_meta` updates and then inserts), and `Answer`. Any browser may open any callback URL, at
any time and on any replica. `Restart` gives a replica a new signing secret unless one is
configured. A session cookie holds, as history, who was deleted when its login was verified.

### Shamir and Fleet (`Shamir.tla`, `Fleet.tla`)

`Shamir` is the arithmetic of `custody/shamir.py`: the tables of GF(2^8), Horner's
evaluation, Lagrange's interpolation at 0, on one byte. `Fleet` takes it as the constant `Combine`,
and models what a mixed fleet does to one set of keys: a process starts from any set of
shares, with or without liboqs (`EnforcesPqRequirement`: the server refuses, the tools do not ask); `Generate`, `Sign`
and `Wrap` make versions and artefacts of the suite that the process can compute; `Verifies` and `Unwraps` are what the
verifying operations answer. Secrets are symbolic: an artefact records the halves of the key pairs
it was made with, and a derived key is equal to another when it is derived from the
same halves under the same suite.

## 3. What the runs check

| Run | Instance | Shows |
|---|---|---|
| `encrypt` | 1 AEAD key, 3 requests, 4 materials, 3 versions, 2 slots per version | `NonceBudget`, `VersionsImmutable` |
| `lifecycle` | 1 key of any type, 2 requests with every operation, 2 versions, 3 days, windows of 0 and 1 day | `DatedIffPending`, `VersionChain`, `Decryptable`, `OpensWithItsOwnSecret`, `ShreddedForGood`, refinement of `KeyVault` |
| `destroy_race` | 1 key, 2 requests | a rule of the documentation that a race breaks (section 5) |
| `appends` | 3 appends, 2 attempts each, on either database, weakly fair | `ChainIntact`, `AnswersMatchLog`, `LosesOnlyToOthers`, `FileMirrorsCommitted`, `EveryAppendEnds`, refinement of `AppendOnlyLog` |
| `file` | 2 appends | the file's lines are not in the order of the chain (section 5) |
| `bootstrap` | 1 replica, init and rekey, 2 kills, 3 Root KEKs, 3 signing keys, 2 passphrases, weakly fair | `OneRootKek`, `OneSigningKey`, `OneBootstrapToken`, `RootKekIsForever`, `EveryReplicaServes`, refinement of `Agreement`, twice |
| `printed` | 1 replica, 1 init run, no kill | the init CLI loses the token (section 5) |
| `tokens` | 2 principals, 3 tokens, 2 requests on principals and tokens | `OnlyLateTokensSurvive`, `DeletionIsFinal` |
| `grants` | strict mode, 2 principals, 2 tokens, 2 grants, 2 namespaces, 1 key, 2 requests | `DecisionsAreCovered`, `OneGrantPerResource`, `RemovedGrantsStayRemoved`, `OnlyLateGrantsDangle`, `DestructionIsFinal` |
| `operations` | 2 keys, 2 requests, 2 runs of the job, seven workloads, 1 fault | `EntriesTellTheTruth`, `UnloggedIsExplained`, `EarlyRotationsAreRaces`, `VerifiedBackupIsComplete`, `TakesVaultSteps`, `ImplementsEntryLog` (refinement of `AppendOnlyLog`) |
| `login` | 3 browsers of 2 users, 3 logins, 3 principals, 1 replica, 1 restart | `SessionsAreTheUsersOwn`, `NoSessionOfTheLongGone`, `StableIdentity` |
| `fleet` | 1 server, 1 job, the audit key, one signing and one wrapping key, 2 versions, 2 ceremonies | `PqFleetIsPq`, `NoDowngrade`, `ArtefactsKeepWorking`, `EnoughSharesUnlock` |

Every property has a mutant of the code that breaks it (a dropped guard, a
missing constraint, an off-by-one, a loser that keeps its own key): the operators
marked *Mutant* in the modules, which no specification uses.

**Bounds.** Two requests are enough for one to act inside another's window; three
are used where two of them compete for a slot while the third rotates or destroys. Two
slots and three requests reach the hard limit with a loser. Three versions let
an artefact be two rotations old while another rotation races. Three appends with
two attempts let one lose twice and give up. Three Root KEKs are one per process
that may generate one; the init CLI and the replica are the two processes that race to
initialize. In `tokens` two tokens beside that of the bootstrap are one that a deletion
finds and one that it misses. In `grants` two grants are one that was removed and one that is
made again for the same resource, or one on the key and one on its namespace; two
namespaces are one that the key is in and one that it is not; of three operations, grants
give two.

The type invariants are theorems (section 4), for every instance, and are not evaluated
again by the runs.

In `operations` each workload pairs what can disturb each other: two runs of the job over two
keys (one rotated, one that ends the batch) with a rotation, a schedule or a destruction by a
caller; rotations and destructions, and the state changes, with each other; keys from their
creation on, with policies set and removed; and appends with the backup tool. Two or three changes are the bound of each:
the change that lacks its entry, the one that explains it, and one more. In `login`, two browsers of one user
race for one mapping while the third, of another user, opens their URLs; one replica suffices because a
replica keeps nothing but its secret, and a restart changes that. `TxTtl = MaxTime = 1` lets a
cookie expire once. In `fleet` the ceremonies are 2-of-3 and 3-of-4, and every subset of the
shares is tried; three artefacts are one that is verified, its audit entry and one by
another process.

`MaxVersion`, `MaxVersions`, `MaxMade`, `MaxTime`, `MaxFaults`, `MaxRestarts`, `MaxCrashes` and a workload's
`bound` bound the models and stand for nothing in the code; the theorems hold for all their
values. The number of attempts is 8 in the code, the hard limit 2^32; nothing in the models
depends on their size.

**Deadlock** is not checked but in `fleet`: the other instances are finite (keys are destroyed, calls
end, the clock stops), so all of them come to a stop.

**Fairness.** `EveryAppendEnds` assumes that a thread that can take a step takes one
(`WF(Step)` per call, where a step is neither a crash nor a database error: neither has to happen, so an append that waits for the lock waits until the lock is free). `EveryReplicaServes`
assumes that a replica runs and is started again when it is down
(`restart: unless-stopped`, `deploy/docker-compose.ha.yml`), and that the
operator mounts the passphrase the Root KEK is sealed under, which the rekey CLI
prints as its last line. Finitely many kills and rekeys happen. Access, Operations and Login have no
liveness property: their requests depend on nobody, a refused one ends, and nothing
in the code repeats what a failed one left undone.

## 4. What is proved

All of the safety properties the passing runs check are also theorems, for every
value of the constants: any number of keys, versions, requests, appends,
processes. The assumptions are the named `ASSUME`s of the modules: bounds are
natural numbers, `None` is none of the values it stands beside, sets of different
kinds of processes are disjoint, and so are the kinds of keys. Each proof module extends its component.

**`KeyStoreProofs`.** Five layers, each an inductive invariant on top of the
ones before:

* `TypeInv`: `TypeOK`, rows that exist hold material, and the locals of a request
  have what its operation uses.
* `ChainInv`: `VersionChain` is not inductive, because a rotation writes
  `ver + 1` as read some time ago. It needs that the version a request read never
  exceeds the current one of its key (`ReadVersionsBounded`). Then either nothing
  happened since and the write extends the chain, or the new number is taken and
  `UNIQUE` aborts.
* `DatedInv`: a `schedule` in flight carries a date, all other setters clear it.
* `MaterialInv`: `Decryptable` and `OpensWithItsOwnSecret`, from
  `SurvivingStep`: versions of a key that survives a step keep their material.
* `BudgetInv`: `NonceBudget` needs `ReservedCovered` (the usage count of a live
  version is at least every slot in flight), `NoSlotYet` (slots exist only in
  requests that reserved) and that a version that was taken by destruction is never taken up again.

Two action properties build on them. `ShreddedForGood`: no step touches a tombstone
(`DestroyedStays`), and nobody comes to hold the material of a destroyed key who did not
hold it before (`HoldersOfDestroyed`). `EarlyDestructionsAreRaces`: a key is deleted only by
force, when its own date has come, or by a `destroy_key` whose date was due and is not the
key's any more, so the race of the `destroy_race` run is the only way to an early
destruction.

**`KeyStoreRefinement`** proves `Spec => ImplementsVault`: creation, rotation,
reservation and destruction are the four operations of `KeyVault`, and every other step
leaves what it sees unchanged.

**`AuditLogProofs`.** The invariant ties the chain to its length: the entry at
position *i* has a hash of *i* payloads, so that a head that is not taken can only
be the hash of the whole log, and `Insert` extends it. With the lock, the head
read is the head still. `AnswersMatchLog`, `LosesOnlyToOthers` and
`FileMirrorsCommitted` follow with the history variable `started` and the
position of each call; `Implements` is the refinement of `AppendOnlyLog`. Of the liveness
property the safety half is proved: `LockIsHeldInTransaction`, and `EveryStepIsAlwaysProgress`
with the measure `StepsLeft` (at most `4 * MaxRetries + 4`, less in one call with every step
and unchanged in the others). What is left to fairness is that a call which can step does.

**`BootstrapProofs`.** `OneRootKek` is inductive together with the fact that the
custody row, once there, stays, and that nobody holds a generated key against a legacy row
that is still to be replaced (`NoLegacyToReplace`): a process generates a
key only after it saw neither row, and the legacy rows are never written. `RootKekIsForever`,
`OneSigningKey` and `OneBootstrapToken` (through the sentinel: tokens plus processes about
to mint are at most one) build on it, and so does `ImplementsAgreementHolds`: the first `PutCustody` and
the first `PutSigningKey` choose, and every other step learns what was chosen, forgets it, or leaves it.

`LostStartsAreAlwaysRaces` is the safety half of `EveryReplicaServes`: a replica's start fails when it
was late to initialize, or when its passphrase is not that of the envelope and a run of rekey may
have resealed. The stored keypair always opens (`OneRootKek`), and until a rekey all
processes are started with the passphrase of the envelope that stands or is to come
(`OnePassphrase`).

**`AccessProofs`.** `TypeInv` adds to `TypeOK` what the locals of a request hold at each
label. Then, for each property, what a request that read something may still rely on when it
acts:

* `GrantInv`: the grant that an upsert found is, as long as it lives, still of that
  principal and resource (`FoundGrantFits`), because no step changes these two columns. So
  `ReplaceGrant` keeps `OneGrantPerResource`, and a removed grant is not written.
* `NamespaceInv`: the namespace that `authorize_key_op` read is still the key's when it
  reads the grants, because no step moves a key; hence `DecisionsAreCovered`.
* `LateInv`: a deletion in flight has found every active token of its principal but the late
  ones (`FoundTokensFit`); hence `OnlyLateTokensSurvive`.
* `DeletionIsFinal` is inductive over `TypeInv`: with the principal gone,
  `CheckOwner` lets no new `create_token` through.

* `OnlyLateGrantsDangle` and `DestructionIsFinal` follow the same way, with the grants that a
  destruction in flight has found.

**`OperationsProofs`.** What others do between two transactions of a handler is the
difficulty, so the proof is about that: `Grows(A)` says what a step of the actors *A* may
do to what the others see (history and log grow, a new entry is of a change
of theirs, a row changes by its age or by a change of theirs), every action satisfies it for
the actor that takes it, and `OthersRequest` and `OthersRun` show that whoever does not take part keeps what it
knows. The inductive invariant has

* `ChangesRight`: a destroyed key was destroyed by a change, a change without effect came
  after that, and a row that was rotated has the version of its last rotation. So a handler that
  reads `None`, or a newer version, back has an explanation in the history.
* `RightRequest`: a request owes the entry of its own change, which nobody else can
  append; entries are therefore unique.
* `RightRun`: a key that a run has yet to rotate is due, or somebody else touched it since it was listed
  (`EarlyRotationsAreRaces`), and when a rotation fails, somebody else rotated or destroyed that
  key, which is none of those already rotated (`UnloggedIsExplained`).
* `SnapshotRight`: a snapshot is a prefix in which no entry precedes its change
  (`VerifiedBackupIsComplete`).

Two refinements follow. For `TakesVaultSteps`, a transaction on a key is one of the vault's
operations because `Commits` and `RotateNext` compare what matters (`TransactionIsVaultStep`): a
rotation takes the version it compared to the next one, all other updates leave versions
alone. For `ImplementsEntryLog` each change that a request or run still owes is an append that
is open: `RightRequest` and `RightRun` say who owes it, `AppendNextAdds` and `AnswerAdds`
that its entry is added once, and a step that ends a request or a run without its entries fails them
all together.

**`LoginProofs`.** The inductive invariant follows the user through the login: the cookie
of a browser names a login of its user (`CookiesAreTheUsersOwn`), which `SameLogin` ties to the
callback; the mapping and the principals agree on the subject (`TablesAgree`); and at each label a callback holds a
principal of its subject that was not among those deleted when it was verified (`CallsAreRight`).
`StableIdentity` follows because a callback passes over the principal it
read only when that one was deleted.

**`FleetProofs`.** An artefact is of a version that exists and of its suite or weaker
(`MadeFromVersions`), a process that is up was seen (`UpIsSeen`), and a suite that occurs was made by somebody
who was seen (`SuitesAreSeen`). `EnoughSharesUnlock` rests on a hypothesis in its statement: any set of
at least a threshold of the shares of a deal combines to the passphrase. That interpolation
over GF(2^8) does so is not proved but evaluated, by the run, on its two ceremonies.

`EarlyDestructionsAreRaces`, `LockHeldInTransaction`, `EveryStepIsProgress` and
`LostStartsAreRaces` are stated by theorems and not by a run; TLC found no
counterexample to them on the instances of `destroy_race`, `appends` and `bootstrap`
before they were proved.

**Only model-checked:** the liveness properties (`EveryAppendEnds`,
`EveryReplicaServes`), since TLAPS does not reason about fairness, and the secret sharing of
`Shamir`, whose functions are recursive and bitwise.

## 5. Where the code differs from its documentation

* `destroy_race`: `destroy_key` compares state and date with the row it read, and deletes in
  another transaction that compares neither (`storage/keystore.py:328-336`). A key whose
  deletion is cancelled or rescheduled in between is destroyed although "only permitted
  once the key is pending deletion and its window has elapsed".
* `file`: `append` emits after its transaction, and its lock, ended. Two replicas may write
  in the other order than they committed, or one may die between the two; the
  audit CLI then reports a break in the file. `storage/audit_sink.py:8-10` says the
  lines "form the same hash chain as the DB".
* `printed`: the init CLI unpacks two of the three values `create_token` returns
  (`cli/init.py:60`): on a new deployment it raises after the token is in the database, the
  token is never shown, and the sentinel keeps everyone from minting another. In
  `deploy/docker-compose.ha.yml` the replicas also wait for init to complete successfully.
* For the same reason as in `printed`, or when a process dies between the sentinel and the
  token, later runs of init log "a token already exists" (`cli/init.py:68`) when
  there may be none.

Met while modelling, without a run of its own:

* A deletion that is scheduled between `enable_key`'s check and its update is
  undone, without the cancellation that the comment at `storage/keystore.py:298` asks for.
* `create_token` asks for the principal in one transaction and inserts the token
  in another (`api/auth.py:120-131`). A deletion of the principal in between does not see
  the token, which authenticates from then on: the outer join of `authenticate` only refuses
  principals that are disabled. `storage/repository.py:419-420` says "the principal is never removed
  while its tokens remain usable". `OnlyLateTokensSurvive` and `DeletionIsFinal` say what does
  hold.
* `delete_principal` removes no grants, and `destroy_key` misses one that is inserted beside it
  (`OnlyLateGrantsDangle`), so a grant may name a principal or a key that is gone, although
  `api/routes.py:451` says that "grants never dangle". It authorizes nobody: ids are not drawn again.
* `upsert_grant` returns the id of the grant it found as "authoritative"
  (`storage/repository.py:473-474`) also when that grant was deleted before the `UPDATE`, which
  then changes no row.
* `cli/rotate.py:11-12` says "Each rotation is recorded in the audit log". When a key of the
  batch is rotated or destroyed by somebody else, the exception leaves `rotate_due` and the
  rotations that were made are not recorded. `UnloggedIsExplained` says when that happens.
* The handlers that disable, enable, schedule or cancel append an entry also when the key was
  destroyed between their read and their update, which then changes no row.
  `EntriesTellTheTruth` allows it only then.
* The manifest of a backup is read after the snapshot (`cli/backup.py:80`): an append in
  between makes a good backup of a live database fail its verification.
* A session outlives its principal by up to its eight hours when the principal is deleted
  after the login was verified; `NoSessionOfTheLongGone` bounds it to that.
* `create_app` loads and checks a passphrase whatever the custody backend is (`main.py:190`), so a server
  that is given shares as `cli/shamir.py:9-12` describes exits unless a passphrase is set too.
* The rotation job, like the other tools, does not look at `PQKMS_REQUIRE_PQ`: on a host without liboqs
  it makes classical versions of keys in a deployment that requires post-quantum ones, against `main.py:160`.
  `PqFleetIsPq` has to except it.
* On a host without liboqs, `sign` and `wrap_data_key` under a hybrid key answer with the
  name of the hybrid suite (`storage/keystore.py:494`, `520`), while what they return is
  classical and tagged so. Such a signature never verifies (`NoDowngrade`); in the audit
  log it makes `verify_chain` fail from then on.

## 6. What is not modelled

* Rate limits, request validation, headers, logging, metrics, tracing, the UI, the SBOM
  CLI, the read-only routes: no state that other parts read.
* The cryptography itself: it is taken as what it promises. An AEAD opens under the
  key it was made with, a hash identifies what it covers, a half of a key pair verifies what it signed.
* AWS, GCP and PKCS#11 custodians: clients of external services behind the same interface as the
  passphrase custodian.
* Reads without an effect (listings, status, public keys).
* The expiry and the signature of a *session* cookie (nothing but its own holder depends on
  it), the mapping of the provider's groups to scopes, and the provider's discovery and key set.
* The migrations: one transaction under an advisory lock on PostgreSQL, hence one step before the
  first state of every model; their backfills of old rows are plain data conversions.
* That a grant or token is removed after the decision that used it: the code decides once
  per request, and its documents promise no more.

`PROJECT.json` lists each component and each hazard.

## 7. How it was ordered, and what could follow

In the order of importance: the key store with its nonce budget, the audit log,
bootstrap and custody, access; then their composition by handlers and jobs, login, and the
mixed fleet; each with its proofs once the runs agreed. What the code would still
give:

1. **Migrations**, as rolling upgrades of replicas of two versions of the schema, if the
   code comes to support one that is not additive.
2. **Sessions as credentials of Access**, so that a session's scopes, the disabling of its
   principal and strict mode meet in one module; today each is checked where it is decided.
3. **Custodians with a remote service** that may be away, once the code retries one.
