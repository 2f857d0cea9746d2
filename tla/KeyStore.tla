------------------------------ MODULE KeyStore ------------------------------
(***************************************************************************)
(* The key store (app/storage/keystore.py) over its two tables             *)
(* (app/storage/schema.py), as the threads of the API replicas drive it.   *)
(*                                                                         *)
(* Every Repository method is one database transaction, and a handler is a *)
(* sequence of them with no lock around it.  A request therefore takes one *)
(* step per transaction and the steps of different requests interleave: a  *)
(* Start action is the first read of a handler with the checks made on     *)
(* what it read, and the later actions are the transactions that follow.   *)
(*                                                                         *)
(* A check that fails, an exception and a crash of the replica all end a   *)
(* request between two transactions: Abandon.                              *)
(***************************************************************************)
EXTENDS Integers, FiniteSets

CONSTANTS
  KeyIds,      \* the uuids create_key and import_key may draw, none twice
  Names,       \* key names (managed_keys.name is UNIQUE)
  KeyTypes,    \* the key types the requests ask for
  Secrets,     \* key material
  Requests,    \* request slots: the threads of every replica
  Ops,         \* the operations that requests perform
  Windows,     \* deletion windows, in days
  HardLimit,   \* NonceBudgetPolicy.hard_limit
  MaxVersion,  \* bound of the model: versions per key
  MaxTime,     \* bound of the model: the last day
  None         \* SQL NULL, an unset local variable

ASSUME HardLimitAssumption == HardLimit \in Nat
ASSUME MaxVersionAssumption == MaxVersion \in Nat \ {0}
ASSUME MaxTimeAssumption == MaxTime \in Nat
ASSUME WindowsAssumption == Windows \subseteq Nat
ASSUME KeyTypesAssumption == KeyTypes \subseteq {"aead", "kem", "sig"}
ASSUME NoneAssumption == None \notin Secrets /\ None \notin Nat

VARIABLES
  now,           \* the clock, in days
  managed_keys,  \* the table managed_keys, one row per key id
  key_versions,  \* the table key_versions, by key id and version
  issued,        \* every ciphertext, signature and wrapped key handed out
  pc,            \* where each request is
  req            \* the local variables of each request

vars == <<now, managed_keys, key_versions, issued, pc, req>>

Versions == 1..MaxVersion

LiveStates == {"enabled", "disabled", "pending_deletion"}

StateOps  == {"disable", "enable", "schedule", "cancel"}
SealOps   == {"encrypt", "sign", "wrap"}
OpenOps   == {"decrypt", "verify", "unwrap"}
OtherOps  == {"rotate", "destroy", "force_destroy"}
AllOps    == StateOps \cup SealOps \cup OpenOps \cup OtherOps

\* A row of managed_keys.  "unborn" is an id not drawn yet and "destroyed" one
\* whose row is deleted: a uuid is never drawn again, so the two differ.
KeyRow == [state : LiveStates \cup {"unborn", "destroyed"},
           deletion_at : Nat \cup {None},
           current_version : Nat,
           key_type : KeyTypes \cup {None},
           name : Names \cup {None}]

NoKeyRow(s) == [state |-> s, deletion_at |-> None, current_version |-> 0,
                key_type |-> None, name |-> None]

\* What an UPDATE of managed_keys sets.
SetState(m, state, deletion_at) ==
  [state |-> state, deletion_at |-> deletion_at,
   current_version |-> m.current_version, key_type |-> m.key_type, name |-> m.name]

SetCurrent(m, v) ==
  [state |-> m.state, deletion_at |-> m.deletion_at,
   current_version |-> v, key_type |-> m.key_type, name |-> m.name]

\* A row of key_versions; "absent" when there is none.
VersionRow == [state : {"absent", "active", "rotated"},
               secret : Secrets \cup {None},
               usage_count : Nat]

NoVersionRow == [state |-> "absent", secret |-> None, usage_count |-> 0]

FreshVersionRow(s) == [state |-> "active", secret |-> s, usage_count |-> 0]

RotatedRow(row) ==
  [state |-> IF row.state = "absent" THEN "absent" ELSE "rotated",
   secret |-> row.secret, usage_count |-> row.usage_count]

UsedOnceMore(row) ==
  [state |-> row.state, secret |-> row.secret, usage_count |-> row.usage_count + 1]

\* What encrypt, sign and wrap_data_key hand out.  slot is the usage count
\* that the nonce budget returned to encrypt, and 0 for the other two.
Artefact == [key : KeyIds, ver : Nat, secret : Secrets, slot : Nat]

\* The local variables of a handler: the operation, its key, the version it
\* works on, the deletion date it read or computed, the material it loaded,
\* the slot it reserved and the artefact it was given.
Local == [op : AllOps \cup {"none"}, key : KeyIds \cup {None}, ver : Nat,
          due : Nat \cup {None}, secret : Secrets \cup {None}, slot : Nat,
          art : Artefact \cup {None}]

NoLocal == [op |-> "none", key |-> None, ver |-> 0, due |-> None,
            secret |-> None, slot |-> 0, art |-> None]

WithSecret(l, s) ==
  [op |-> l.op, key |-> l.key, ver |-> l.ver, due |-> l.due, secret |-> s,
   slot |-> l.slot, art |-> l.art]

WithSlot(l, n) ==
  [op |-> l.op, key |-> l.key, ver |-> l.ver, due |-> l.due, secret |-> l.secret,
   slot |-> n, art |-> l.art]

Live(k) == managed_keys[k].state \in LiveStates

Row(k, v) == key_versions[k][v]

HasRow(k, v) == v \in Versions /\ Row(k, v).state # "absent"

\* Generated material is 256 random bits, or a fresh key pair: it differs
\* from all the material in the tables, in memory and behind any artefact.
FreshSecrets ==
  Secrets \ ({Row(k, v).secret : k \in KeyIds, v \in Versions}
             \cup {req[r].secret : r \in Requests}
             \cup {a.secret : a \in issued})

Init ==
  /\ now = 0
  /\ managed_keys = [k \in KeyIds |-> NoKeyRow("unborn")]
  /\ key_versions = [k \in KeyIds |-> [v \in Versions |-> NoVersionRow]]
  /\ issued = {}
  /\ pc = [r \in Requests |-> "idle"]
  /\ req = [r \in Requests |-> NoLocal]

Tick ==
  /\ now < MaxTime
  /\ now' = now + 1
  /\ UNCHANGED <<managed_keys, key_versions, issued, pc, req>>

-----------------------------------------------------------------------------
(* Creation: one transaction inserts the key and its version 1.            *)

InsertKey(k, n, t, s) ==
  /\ managed_keys[k].state = "unborn"
  /\ \A j \in KeyIds : Live(j) => managed_keys[j].name # n
  /\ managed_keys' = [managed_keys EXCEPT ![k] =
       [state |-> "enabled", deletion_at |-> None, current_version |-> 1,
        key_type |-> t, name |-> n]]
  /\ key_versions' = [key_versions EXCEPT ![k][1] = FreshVersionRow(s)]
  /\ UNCHANGED <<now, issued, pc, req>>

CreateKey(k, n, t) == \E s \in FreshSecrets : InsertKey(k, n, t, s)

\* Imported material is the caller's: it may equal material already here.
ImportKey(k, n) ==
  "aead" \in KeyTypes /\ \E s \in Secrets : InsertKey(k, n, "aead", s)

-----------------------------------------------------------------------------
(* Starting a request: get_key and the checks on the row it returned.      *)

Begin(r, k, local) ==
  /\ pc[r] = "idle"
  /\ Live(k)
  /\ local.op \in Ops
  /\ pc' = [pc EXCEPT ![r] = "fetched"]
  /\ req' = [req EXCEPT ![r] = local]
  /\ UNCHANGED <<now, managed_keys, key_versions, issued>>

Call(op, k, v, due, a) ==
  [op |-> op, key |-> k, ver |-> v, due |-> due, secret |-> None, slot |-> 0,
   art |-> a]

PlainCall(op, k) == Call(op, k, 0, None, None)

StartDisable(r, k) == Begin(r, k, PlainCall("disable", k))

StartEnable(r, k) ==
  /\ managed_keys[k].state # "pending_deletion"
  /\ Begin(r, k, PlainCall("enable", k))

StartSchedule(r, k) ==
  \E w \in Windows : Begin(r, k, Call("schedule", k, 0, now + w, None))

StartCancel(r, k) ==
  /\ managed_keys[k].state = "pending_deletion"
  /\ Begin(r, k, PlainCall("cancel", k))

StartDestroy(r, k) ==
  /\ managed_keys[k].state = "pending_deletion"
  /\ Begin(r, k, Call("destroy", k, 0, managed_keys[k].deletion_at, None))

StartForceDestroy(r, k) == Begin(r, k, PlainCall("force_destroy", k))

\* Rotation, encryption and the like remember the version that was current.
CallOnCurrent(op, k) ==
  Call(op, k, managed_keys[k].current_version, None, None)

StartRotate(r, k) == Begin(r, k, CallOnCurrent("rotate", k))

RequireEnabled(k) == managed_keys[k].state = "enabled"

StartSeal(r, k, op, type) ==
  /\ RequireEnabled(k)
  /\ managed_keys[k].key_type = type
  /\ Begin(r, k, CallOnCurrent(op, k))

StartEncrypt(r, k) == StartSeal(r, k, "encrypt", "aead")
StartSign(r, k) == StartSeal(r, k, "sign", "sig")
StartWrap(r, k) == StartSeal(r, k, "wrap", "kem")

\* decrypt takes the version from the header of the ciphertext (it does not
\* compare the type of the key: only AEAD keys make ciphertexts) ...
StartDecrypt(r, a) ==
  /\ RequireEnabled(a.key)
  /\ managed_keys[a.key].key_type = "aead"
  /\ Begin(r, a.key, Call("decrypt", a.key, a.ver, None, a))

\* ... the other two from the caller, or the current one when it names none.
StartOpen(r, a, op, type) ==
  /\ managed_keys[a.key].key_type = type
  /\ \E v \in {a.ver, managed_keys[a.key].current_version} :
       Begin(r, a.key, Call(op, a.key, v, None, a))

StartVerify(r, a) == StartOpen(r, a, "verify", "sig")
StartUnwrap(r, a) == RequireEnabled(a.key) /\ StartOpen(r, a, "unwrap", "kem")

-----------------------------------------------------------------------------
(* The transactions that follow.                                           *)

At(r, label, op) == pc[r] = label /\ req[r].op = op

\* The request ends: its slot and its locals are free again.
Finish(r) ==
  /\ pc' = [pc EXCEPT ![r] = "idle"]
  /\ req' = [req EXCEPT ![r] = NoLocal]

\* UPDATE managed_keys SET state, deletion_at WHERE id: whatever state the row
\* is in by now, and without effect when the row is gone.
SetKeyState(r, op, state, deletion_at) ==
  LET k == req[r].key IN
  /\ At(r, "fetched", op)
  /\ managed_keys' = IF Live(k)
       THEN [managed_keys EXCEPT ![k] = SetState(@, state, deletion_at)]
       ELSE managed_keys
  /\ Finish(r)
  /\ UNCHANGED <<now, key_versions, issued>>

DisableKey(r) == SetKeyState(r, "disable", "disabled", None)
EnableKey(r) == SetKeyState(r, "enable", "enabled", None)
ScheduleDeletion(r) ==
  SetKeyState(r, "schedule", "pending_deletion", req[r].due)

\* Mutant: a cancellation that leaves deletion_at in the row.
CancelDeletionKeepsDate(r) ==
  SetKeyState(r, "cancel", "disabled", managed_keys[req[r].key].deletion_at)

CancelDeletion(r) == SetKeyState(r, "cancel", "disabled", None)

\* Mutant: a destruction that relies on a cascade the database does not do.
DeleteKeyRowOnly(r) ==
  /\ Live(req[r].key)
  /\ managed_keys' = [managed_keys EXCEPT ![req[r].key] = NoKeyRow("destroyed")]
  /\ Finish(r)
  /\ UNCHANGED <<now, key_versions, issued>>

\* One transaction deletes the versions and the key.
DeleteKey(r) ==
  LET k == req[r].key IN
  /\ Live(k)
  /\ managed_keys' = [managed_keys EXCEPT ![k] = NoKeyRow("destroyed")]
  /\ key_versions' = [key_versions EXCEPT ![k] = [v \in Versions |-> NoVersionRow]]
  /\ Finish(r)
  /\ UNCHANGED <<now, issued>>

\* The date checked is the one read at the start, not the one in the row.
DestroyKey(r) ==
  /\ At(r, "fetched", "destroy")
  /\ req[r].due # None
  /\ req[r].due <= now
  /\ DeleteKey(r)

ForceDestroyKey(r) == At(r, "fetched", "force_destroy") /\ DeleteKey(r)

\* What a rotation writes: old is marked, new is inserted and made current.
WriteRotation(r, oldRow) ==
  LET k == req[r].key
      old == req[r].ver
      new == req[r].ver + 1 IN
  /\ new \in Versions
  /\ Live(k)
  /\ \E s \in FreshSecrets :
       key_versions' = [key_versions EXCEPT
         ![k] = [@ EXCEPT ![old] = oldRow, ![new] = FreshVersionRow(s)]]
  /\ managed_keys' = [managed_keys EXCEPT ![k] = SetCurrent(@, new)]
  /\ Finish(r)
  /\ UNCHANGED <<now, issued>>

\* Mutants: a rotation over a table without UNIQUE(key_id, version), and one
\* that deletes the version it replaces.
RotateKeyWithoutUnique(r) ==
  At(r, "fetched", "rotate") /\ WriteRotation(r, RotatedRow(Row(req[r].key, req[r].ver)))

RotateKeyPrunes(r) ==
  /\ At(r, "fetched", "rotate")
  /\ ~HasRow(req[r].key, req[r].ver + 1)
  /\ WriteRotation(r, NoVersionRow)

\* One transaction marks the old version, inserts the new one and moves
\* current_version.  UNIQUE(key_id, version) and the foreign key to
\* managed_keys abort it when the version exists or the key is gone.
RotateKey(r) ==
  /\ At(r, "fetched", "rotate")
  /\ ~HasRow(req[r].key, req[r].ver + 1)
  /\ WriteRotation(r, RotatedRow(Row(req[r].key, req[r].ver)))

\* Mutants: loading a version that is not there, and always the current one.
LoadVersionUnchecked(r) ==
  /\ pc[r] = "fetched"
  /\ req[r].op \in SealOps \cup OpenOps
  /\ pc' = [pc EXCEPT ![r] = "loaded"]
  /\ req' = [req EXCEPT ![r] = WithSecret(@, Row(@.key, @.ver).secret)]
  /\ UNCHANGED <<now, managed_keys, key_versions, issued>>

LoadCurrentVersion(r) ==
  LET k == req[r].key
      v == managed_keys[k].current_version IN
  /\ pc[r] = "fetched"
  /\ req[r].op \in SealOps \cup OpenOps
  /\ HasRow(k, v)
  /\ pc' = [pc EXCEPT ![r] = "loaded"]
  /\ req' = [req EXCEPT ![r] = WithSecret(@, Row(k, v).secret)]
  /\ UNCHANGED <<now, managed_keys, key_versions, issued>>

LoadVersion(r) ==
  LET k == req[r].key
      v == req[r].ver IN
  /\ pc[r] = "fetched"
  /\ req[r].op \in SealOps \cup OpenOps
  /\ HasRow(k, v)
  /\ pc' = [pc EXCEPT ![r] = "loaded"]
  /\ req' = [req EXCEPT ![r] = WithSecret(@, Row(k, v).secret)]
  /\ UNCHANGED <<now, managed_keys, key_versions, issued>>

\* UPDATE ... SET usage_count = usage_count + 1 WHERE usage_count < hard_limit
\* RETURNING usage_count, before the encryption.
ReserveBelow(r, limit) ==
  LET k == req[r].key
      v == req[r].ver IN
  /\ At(r, "loaded", "encrypt")
  /\ HasRow(k, v)
  /\ Row(k, v).usage_count < limit
  /\ key_versions' = [key_versions EXCEPT ![k][v] = UsedOnceMore(@)]
  /\ req' = [req EXCEPT ![r] = WithSlot(@, Row(k, v).usage_count + 1)]
  /\ pc' = [pc EXCEPT ![r] = "reserved"]
  /\ UNCHANGED <<now, managed_keys, issued>>

\* Mutant: <= for <.
ReserveOffByOne(r) == ReserveBelow(r, HardLimit + 1)

Reserve(r) == ReserveBelow(r, HardLimit)

\* The cryptographic operation itself, and the answer.
Seal(r) ==
  /\ \/ At(r, "reserved", "encrypt")
     \/ At(r, "loaded", "sign")
     \/ At(r, "loaded", "wrap")
  /\ issued' = issued \cup {[key |-> req[r].key, ver |-> req[r].ver,
                             secret |-> req[r].secret, slot |-> req[r].slot]}
  /\ Finish(r)
  /\ UNCHANGED <<now, managed_keys, key_versions>>

Open(r) ==
  /\ pc[r] = "loaded"
  /\ req[r].op \in OpenOps
  /\ Finish(r)
  /\ UNCHANGED <<now, managed_keys, key_versions, issued>>

\* An exception, a refusal, or a crash of the replica between transactions.
Abandon(r) ==
  /\ pc[r] # "idle"
  /\ Finish(r)
  /\ UNCHANGED <<now, managed_keys, key_versions, issued>>

-----------------------------------------------------------------------------
Create ==
  \E k \in KeyIds, n \in Names :
    \/ \E t \in KeyTypes : CreateKey(k, n, t)
    \/ ImportKey(k, n)

StartLifecycle(r, k) ==
  \/ StartDisable(r, k) \/ StartEnable(r, k)
  \/ StartSchedule(r, k) \/ StartCancel(r, k)
  \/ StartDestroy(r, k) \/ StartForceDestroy(r, k)
  \/ StartRotate(r, k)

StartCrypto(r) ==
  \/ \E k \in KeyIds : StartEncrypt(r, k) \/ StartSign(r, k) \/ StartWrap(r, k)
  \/ \E a \in issued : StartDecrypt(r, a) \/ StartVerify(r, a) \/ StartUnwrap(r, a)

Transact(r) ==
  \/ DisableKey(r) \/ EnableKey(r) \/ ScheduleDeletion(r) \/ CancelDeletion(r)
  \/ DestroyKey(r) \/ ForceDestroyKey(r) \/ RotateKey(r)
  \/ LoadVersion(r) \/ Reserve(r) \/ Seal(r) \/ Open(r)

Next ==
  \/ Tick
  \/ Create
  \/ \E r \in Requests :
       \/ \E k \in KeyIds : StartLifecycle(r, k)
       \/ StartCrypto(r)
       \/ Transact(r)
       \/ Abandon(r)

Spec == Init /\ [][Next]_vars

-----------------------------------------------------------------------------
(* Properties.                                                             *)

\* Every variable keeps its type.
TypeOK ==
  /\ now \in Nat
  /\ managed_keys \in [KeyIds -> KeyRow]
  /\ key_versions \in [KeyIds -> [Versions -> VersionRow]]
  /\ issued \subseteq Artefact
  /\ pc \in [Requests -> {"idle", "fetched", "loaded", "reserved"}]
  /\ req \in [Requests -> Local]

\* However rotations race each other and destruction, the versions of a live
\* key are 1..current_version, its current version is the one active row and
\* all earlier ones are rotated, and a key that is not live has no version:
\* the inner join of get_key_current never loses a key and no row is orphaned.
VersionChain ==
  \A k \in KeyIds, v \in Versions :
    LET cur == managed_keys[k].current_version IN
    Row(k, v).state =
      IF ~Live(k) \/ v > cur THEN "absent"
      ELSE IF v = cur THEN "active" ELSE "rotated"

\* A key row is dated exactly while it is pending deletion, whatever state
\* setters interleave: destroy_key never meets a pending key without a date.
DatedIffPending ==
  \A k \in KeyIds :
    (managed_keys[k].state = "pending_deletion")
      <=> (managed_keys[k].deletion_at # None)

InFlight(r) == pc[r] = "reserved"

\* The nonce budget (policy.py): each ciphertext handed out and each
\* encryption in flight holds a slot of its key version that no other holds,
\* within the hard limit; the usage count covers all of them.
NonceBudget ==
  /\ \A r \in Requests : InFlight(r) =>
       /\ req[r].slot \in 1..HardLimit
       /\ \A q \in Requests :
            InFlight(q) /\ q # r /\ req[q].key = req[r].key /\ req[q].ver = req[r].ver
              => req[q].slot # req[r].slot
       /\ \A a \in issued :
            a.key = req[r].key /\ a.ver = req[r].ver => a.slot # req[r].slot
  /\ \A a \in issued : Live(a.key) =>
       a.slot <= Row(a.key, a.ver).usage_count

\* "Old versions stay available for decrypt/verify" (keystore.py:423): while
\* its key exists, whatever was sealed under it can be opened, because the
\* version it names still holds the material it was sealed with.
Decryptable ==
  \A a \in issued : Live(a.key) =>
    HasRow(a.key, a.ver) /\ Row(a.key, a.ver).secret = a.secret

\* A decryption, verification or unwrapping that asks for the version its
\* artefact was made with works on the material the artefact was made with,
\* even when the key is rotated or destroyed while it runs.
OpensWithItsOwnSecret ==
  \A r \in Requests :
    pc[r] = "loaded" /\ req[r].op \in OpenOps /\ req[r].ver = req[r].art.ver
      => req[r].secret = req[r].art.secret

\* A transaction never rewrites a version of a key that survives it: the
\* material stays, the slots spent are not given back, and a version that
\* was rotated does not become active again.
VersionsImmutable ==
  [][\A k \in KeyIds, v \in Versions :
       HasRow(k, v) /\ Live(k)' =>
         /\ HasRow(k, v)'
         /\ Row(k, v)'.secret = Row(k, v).secret
         /\ Row(k, v)'.usage_count >= Row(k, v).usage_count
         /\ Row(k, v).state = "rotated" => Row(k, v)'.state = "rotated"]_vars

\* A destroyed key whose material no request holds any more.
Shredded(k) ==
  /\ managed_keys[k].state = "destroyed"
  /\ \A r \in Requests : req[r].key = k => pc[r] \notin {"loaded", "reserved"}

\* Destruction is final as soon as the requests that had loaded the key's
\* material have ended: nobody gets hold of the material again, not even who
\* fetched the key before, and nothing more is sealed under it.
ShreddedForGood ==
  [][\A k \in KeyIds : Shredded(k) =>
       /\ Shredded(k)'
       /\ \A a \in issued' : a.key = k => a \in issued]_vars

\* With every operation atomic, the store is a KeyVault.
Vault == INSTANCE KeyVault WITH
  phase    <- [k \in KeyIds |-> IF Live(k) THEN "live" ELSE managed_keys[k].state],
  current  <- [k \in KeyIds |-> managed_keys[k].current_version],
  material <- [k \in KeyIds |-> [v \in Versions |-> Row(k, v).secret]],
  used     <- [k \in KeyIds |-> [v \in Versions |-> Row(k, v).usage_count]]

\* The racing handlers implement the atomic operations of KeyVault: every
\* step of a request is one of them or changes no key material.
ImplementsVault == Vault!Spec

\* destroy_key's promise (keystore.py:325-326): "Only permitted once the key
\* is pending deletion and its window has elapsed, unless force=True".
DestroyedOnlyWhenDue ==
  [][\A k \in KeyIds : Live(k) /\ ~Live(k)' =>
       \/ \E r \in Requests : At(r, "fetched", "force_destroy") /\ req[r].key = k
       \/ /\ managed_keys[k].state = "pending_deletion"
          /\ managed_keys[k].deletion_at <= now]_vars

\* What does hold: a key is destroyed early, without force, only by a request
\* that found it due, and only when its deletion was cancelled or given another
\* date after that request read it.
EarlyDestructionsAreRaces ==
  [][\A k \in KeyIds : Live(k) /\ ~Live(k)' =>
       \/ \E r \in Requests : At(r, "fetched", "force_destroy") /\ req[r].key = k
       \/ /\ managed_keys[k].state = "pending_deletion"
          /\ managed_keys[k].deletion_at <= now
       \/ \E r \in Requests :
            /\ At(r, "fetched", "destroy") /\ req[r].key = k
            /\ req[r].due <= now /\ req[r].due # managed_keys[k].deletion_at]_vars
=============================================================================
