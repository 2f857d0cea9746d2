----------------------------- MODULE Bootstrap -----------------------------
(***************************************************************************)
(* How a deployment comes to life: replicas (create_app, app/main.py) and  *)
(* runs of the init CLI (app/cli/init.py) race to create the Root KEK, the *)
(* audit signing key and the first token, in rows of kms_meta; the rekey   *)
(* CLI (app/cli/rekey.py) reseals the Root KEK under another passphrase    *)
(* while they start, crash and start again.                                *)
(*                                                                         *)
(* A step is one database transaction, with the code that runs until the   *)
(* next one.                                                               *)
(***************************************************************************)
EXTENDS Integers

CONSTANTS
  Replicas,     \* the server processes
  Inits,        \* the runs of the init CLI
  Rekeys,       \* the runs of the rekey CLI
  Passphrases,  \* operator passphrases
  RootKeks,     \* 256-bit keys the processes draw
  SigningKeys,  \* audit signing keypairs the processes draw
  MaxCrashes,   \* bound of the model: processes killed
  None          \* no row, an unset variable

Boots == Replicas \cup Inits
Procs == Boots \cup Rekeys

\* A custody envelope: the Root KEK wrapped under a passphrase.
Envelope == [kek : RootKeks, pass : Passphrases]

\* The signing keypair, wrapped under a Root KEK.
SealedKeypair == [kek : RootKeks, key : SigningKeys]

ASSUME ProcsAssumption ==
  Replicas \cap Inits = {} /\ Replicas \cap Rekeys = {} /\ Inits \cap Rekeys = {}
ASSUME MaxCrashesAssumption == MaxCrashes \in Nat
ASSUME NoneAssumption ==
  /\ None \notin RootKeks \cup SigningKeys \cup Passphrases
  /\ None \notin Envelope \cup SealedKeypair

VARIABLES
  custody,    \* the row root_kek_custody_v1
  legacy,     \* the rows of the format before custodians
  signing,    \* the row of the audit signing key
  sentinel,   \* the row bootstrap_admin_issued_v1 exists
  tokens,     \* how many bootstrap tokens were minted
  printed,    \* how many of them were shown
  sealed,     \* the Root KEKs that wrap the stored key material
  mounted,    \* the passphrase that processes are started with
  pc,         \* where each process is
  passphrase, \* the passphrase it holds (the new one, once rekey resealed)
  root_kek,   \* KeyStore._root_kek
  own,        \* the key or keypair it generated and has not stored yet
  audit_key,  \* the keypair its AuditLog signs with
  crashes     \* bound of the model: how many processes were killed

meta   == <<custody, legacy, signing, sentinel, tokens>>
locals == <<passphrase, root_kek, own, audit_key>>
vars   == <<meta, printed, sealed, mounted, pc, locals, crashes>>

\* _load_envelope: the custody row, or else the legacy rows.
LoadEnvelope == IF custody # None THEN custody ELSE legacy

Initialized == custody # None \/ legacy # None

FreshKeks ==
  RootKeks \ ({root_kek[p] : p \in Procs} \cup {own[p] : p \in Procs} \cup sealed
              \cup {e.kek : e \in {custody, legacy} \ {None}})

FreshSigningKeys ==
  SigningKeys \ ({audit_key[p] : p \in Procs} \cup {own[p] : p \in Procs}
                 \cup {s.key : s \in {signing} \ {None}})

Init ==
  /\ custody = None
  /\ mounted \in Passphrases
  /\ \/ legacy = None /\ sealed = {}
     \/ \E k \in RootKeks : legacy = [kek |-> k, pass |-> mounted] /\ sealed = {k}
  /\ signing = None
  /\ sentinel = FALSE
  /\ tokens = 0
  /\ printed = 0
  /\ pc = [p \in Procs |-> "down"]
  /\ passphrase = [p \in Procs |-> None]
  /\ root_kek = [p \in Procs |-> None]
  /\ own = [p \in Procs |-> None]
  /\ audit_key = [p \in Procs |-> None]
  /\ crashes = 0

GoTo(p, label) == pc' = [pc EXCEPT ![p] = label]

\* An exception nothing catches: the process is gone, and what it knew.
Die(p, label) ==
  /\ GoTo(p, label)
  /\ passphrase' = [passphrase EXCEPT ![p] = None]
  /\ root_kek' = [root_kek EXCEPT ![p] = None]
  /\ own' = [own EXCEPT ![p] = None]
  /\ audit_key' = [audit_key EXCEPT ![p] = None]

-----------------------------------------------------------------------------
(* The Root KEK.                                                           *)

\* The process starts with the mounted passphrase.  A replica is restarted
\* whenever it is down; a run of a CLI starts once.
Start(p) ==
  /\ pc[p] = "down" \/ (p \in Replicas /\ pc[p] \in {"failed", "killed"})
  /\ passphrase' = [passphrase EXCEPT ![p] = mounted]
  /\ GoTo(p, "started")
  /\ UNCHANGED <<meta, printed, sealed, mounted, root_kek, own, audit_key, crashes>>

\* is_initialized, asked by create_app and by the CLIs.
Probe(p) ==
  /\ pc[p] = "started"
  /\ IF Initialized THEN GoTo(p, "unlocking") /\ UNCHANGED locals
     ELSE IF p \in Boots THEN GoTo(p, "initializing") /\ UNCHANGED locals
     ELSE Die(p, "refused")
  /\ UNCHANGED <<meta, printed, sealed, mounted, crashes>>

\* initialize asks again, and raises when another process was faster; else it
\* generates a Root KEK.
GenerateRootKek(p) ==
  /\ pc[p] = "initializing"
  /\ IF Initialized THEN Die(p, "failed")
     ELSE /\ \E k \in FreshKeks : own' = [own EXCEPT ![p] = k]
          /\ GoTo(p, "generated")
          /\ UNCHANGED <<passphrase, root_kek, audit_key>>
  /\ UNCHANGED <<meta, printed, sealed, mounted, crashes>>

\* Its own Root KEK becomes the one of the deployment.
InstallRootKek(p) ==
  /\ custody' = [kek |-> own[p], pass |-> passphrase[p]]
  /\ root_kek' = [root_kek EXCEPT ![p] = own[p]]
  /\ own' = [own EXCEPT ![p] = None]
  /\ GoTo(p, "unlocked")
  /\ UNCHANGED <<legacy, signing, sentinel, tokens, passphrase, audit_key>>

\* Mutant: a loser that keeps its own key.
PutCustodyKeepsOwn(p) ==
  /\ pc[p] = "generated"
  /\ IF custody = None THEN InstallRootKek(p)
     ELSE /\ root_kek' = [root_kek EXCEPT ![p] = own[p]]
          /\ own' = [own EXCEPT ![p] = None]
          /\ GoTo(p, "unlocked")
          /\ UNCHANGED <<meta, passphrase, audit_key>>
  /\ UNCHANGED <<printed, sealed, mounted, crashes>>

\* put_meta(if_absent): only the first insert succeeds, and a loser drops the
\* key it generated and unlocks from the envelope that landed.
PutCustody(p) ==
  /\ pc[p] = "generated"
  /\ IF custody = None THEN InstallRootKek(p)
     ELSE /\ own' = [own EXCEPT ![p] = None]
          /\ GoTo(p, "unlocking")
          /\ UNCHANGED <<meta, passphrase, root_kek, audit_key>>
  /\ UNCHANGED <<printed, sealed, mounted, crashes>>

\* Mutant: a process that tries its passphrase again instead of ending.
UnlockRetries(p) ==
  /\ pc[p] = "unlocking"
  /\ LoadEnvelope.pass = passphrase[p]
  /\ root_kek' = [root_kek EXCEPT ![p] = LoadEnvelope.kek]
  /\ GoTo(p, "unlocked")
  /\ UNCHANGED <<passphrase, own, audit_key>>
  /\ UNCHANGED <<meta, printed, sealed, mounted, crashes>>

\* The custodian unwraps the envelope, or finds its passphrase invalid.
Unlock(p) ==
  /\ pc[p] = "unlocking"
  /\ IF LoadEnvelope.pass = passphrase[p]
     THEN /\ root_kek' = [root_kek EXCEPT ![p] = LoadEnvelope.kek]
          /\ GoTo(p, "unlocked")
          /\ UNCHANGED <<passphrase, own, audit_key>>
     ELSE Die(p, "failed")
  /\ UNCHANGED <<meta, printed, sealed, mounted, crashes>>

-----------------------------------------------------------------------------
(* load_or_create_audit_signing_key.                                       *)

\* A stored keypair is unwrapped under the Root KEK; without one, the process
\* generates its own.
LoadSigningKey(p) ==
  /\ p \in Boots
  /\ pc[p] \in {"unlocked", "lost"}
  /\ IF signing = None
     THEN /\ \E s \in FreshSigningKeys : own' = [own EXCEPT ![p] = s]
          /\ GoTo(p, "keyed")
          /\ UNCHANGED <<passphrase, root_kek, audit_key>>
     ELSE IF signing.kek = root_kek[p]
     THEN /\ audit_key' = [audit_key EXCEPT ![p] = signing.key]
          /\ GoTo(p, "auditing")
          /\ UNCHANGED <<passphrase, root_kek, own>>
     ELSE Die(p, "failed")
  /\ UNCHANGED <<meta, printed, sealed, mounted, crashes>>

\* Mutant: a loser that goes on with the keypair it generated.
PutSigningKeyKeepsOwn(p) ==
  /\ pc[p] = "keyed"
  /\ signing' = IF signing = None THEN [kek |-> root_kek[p], key |-> own[p]] ELSE signing
  /\ audit_key' = [audit_key EXCEPT ![p] = own[p]]
  /\ own' = [own EXCEPT ![p] = None]
  /\ GoTo(p, "auditing")
  /\ UNCHANGED <<custody, legacy, sentinel, tokens, printed, sealed, mounted,
                 passphrase, root_kek, crashes>>

\* put_meta(if_absent): the loser loads the keypair that won.
PutSigningKey(p) ==
  /\ pc[p] = "keyed"
  /\ own' = [own EXCEPT ![p] = None]
  /\ IF signing = None
     THEN /\ signing' = [kek |-> root_kek[p], key |-> own[p]]
          /\ audit_key' = [audit_key EXCEPT ![p] = own[p]]
          /\ GoTo(p, "auditing")
     ELSE GoTo(p, "lost") /\ UNCHANGED <<signing, audit_key>>
  /\ UNCHANGED <<custody, legacy, sentinel, tokens, printed, sealed, mounted,
                 passphrase, root_kek, crashes>>

-----------------------------------------------------------------------------
(* The bootstrap token.                                                    *)

\* has_any_token counts the tokens that are not revoked: a token was minted
\* and may be found, or operators have revoked it by now.
CheckToken(p) ==
  /\ pc[p] = "auditing"
  /\ \/ tokens > 0 /\ GoTo(p, "skipping")
     \/ GoTo(p, "claiming")
  /\ UNCHANGED <<meta, printed, sealed, mounted, locals, crashes>>

\* Mutant: whoever finds no token mints one.
ClaimTokenAlways(p) ==
  /\ pc[p] = "claiming"
  /\ sentinel' = TRUE
  /\ GoTo(p, "minting")
  /\ UNCHANGED <<custody, legacy, signing, tokens, printed, sealed, mounted,
                 locals, crashes>>

\* put_meta("bootstrap_admin_issued_v1", if_absent).
ClaimToken(p) ==
  /\ pc[p] = "claiming"
  /\ sentinel' = TRUE
  /\ GoTo(p, IF sentinel THEN "skipping" ELSE "minting")
  /\ UNCHANGED <<custody, legacy, signing, tokens, printed, sealed, mounted,
                 locals, crashes>>

\* create_token returns three values: the replica logs the token, while the
\* CLI unpacks two and raises once the token is in the database.
MintToken(p) ==
  /\ pc[p] = "minting"
  /\ tokens' = tokens + 1
  /\ IF p \in Replicas THEN GoTo(p, "minted") /\ UNCHANGED locals
     ELSE Die(p, "failed")
  /\ UNCHANGED <<custody, legacy, signing, sentinel, printed, sealed, mounted, crashes>>

PrintToken(p) ==
  /\ pc[p] = "minted"
  /\ printed' = printed + 1
  /\ GoTo(p, "serving")
  /\ UNCHANGED <<meta, sealed, mounted, locals, crashes>>

\* A replica goes on to serve; the CLI reports that "a token already exists".
SkipToken(p) ==
  /\ pc[p] = "skipping"
  /\ GoTo(p, IF p \in Replicas THEN "serving" ELSE "reported")
  /\ UNCHANGED <<meta, printed, sealed, mounted, locals, crashes>>

-----------------------------------------------------------------------------
(* Serving, resealing, crashing.                                           *)

\* Key material is wrapped under the Root KEK in memory (create_key).
SealMaterial(p) ==
  /\ pc[p] = "serving"
  /\ root_kek[p] \notin sealed
  /\ sealed' = sealed \cup {root_kek[p]}
  /\ UNCHANGED <<meta, printed, mounted, pc, locals, crashes>>

Reseal(p, kek) ==
  /\ p \in Rekeys
  /\ pc[p] = "unlocked"
  /\ \E new \in Passphrases \ {passphrase[p]} :
       /\ custody' = [kek |-> kek, pass |-> new]
       /\ passphrase' = [passphrase EXCEPT ![p] = new]
  /\ GoTo(p, "resealed")
  /\ UNCHANGED <<legacy, signing, sentinel, tokens, printed, sealed, mounted,
                 root_kek, own, audit_key, crashes>>

\* Mutant: rekey that draws a new Root KEK.
RewrapNewRootKek(p) == \E k \in FreshKeks : Reseal(p, k)

\* rewrap_root_kek: the same Root KEK under the new passphrase (set_meta).
RewrapRootKek(p) == Reseal(p, root_kek[p])

\* A second key store proves that the new passphrase unlocks.
VerifyRekey(p) ==
  /\ pc[p] = "resealed"
  /\ GoTo(p, IF LoadEnvelope.pass = passphrase[p] THEN "rotated" ELSE "failed")
  /\ UNCHANGED <<meta, printed, sealed, mounted, locals, crashes>>

\* The operator mounts the passphrase the Root KEK is sealed under.
Mount ==
  /\ Initialized
  /\ mounted # LoadEnvelope.pass
  /\ mounted' = LoadEnvelope.pass
  /\ UNCHANGED <<meta, printed, sealed, pc, locals, crashes>>

Crash(p) ==
  /\ crashes < MaxCrashes
  /\ pc[p] \notin {"down", "failed", "killed", "refused", "reported", "rotated"}
  /\ crashes' = crashes + 1
  /\ Die(p, "killed")
  /\ UNCHANGED <<meta, printed, sealed, mounted>>

Boot(p) ==
  \/ Start(p) \/ Probe(p) \/ GenerateRootKek(p) \/ PutCustody(p) \/ Unlock(p)
  \/ LoadSigningKey(p) \/ PutSigningKey(p)
  \/ CheckToken(p) \/ ClaimToken(p) \/ MintToken(p) \/ PrintToken(p) \/ SkipToken(p)

Rekey(p) == RewrapRootKek(p) \/ VerifyRekey(p)

Next ==
  \/ \E p \in Procs : Boot(p) \/ Rekey(p) \/ Crash(p)
  \/ \E p \in Replicas : SealMaterial(p)
  \/ Mount

Spec == Init /\ [][Next]_vars

\* Replicas run and are restarted (restart: unless-stopped), and the operator
\* updates the mounted secret, as rekey asks.
FairSpec ==
  /\ Spec
  /\ \A p \in Replicas : WF_vars(Boot(p))
  /\ WF_vars(Mount)

-----------------------------------------------------------------------------
(* Properties.                                                             *)

Labels == {"down", "started", "initializing", "generated", "unlocking", "unlocked",
           "keyed", "lost", "auditing", "claiming", "minting", "minted", "skipping",
           "serving", "reported", "resealed", "rotated", "failed", "refused", "killed"}

\* Every variable keeps its type.
TypeOK ==
  /\ custody \in Envelope \cup {None}
  /\ legacy \in Envelope \cup {None}
  /\ signing \in SealedKeypair \cup {None}
  /\ sentinel \in BOOLEAN
  /\ tokens \in Nat
  /\ printed \in Nat
  /\ sealed \subseteq RootKeks
  /\ mounted \in Passphrases
  /\ pc \in [Procs -> Labels]
  /\ passphrase \in [Procs -> Passphrases \cup {None}]
  /\ root_kek \in [Procs -> RootKeks \cup {None}]
  /\ own \in [Procs -> RootKeks \cup SigningKeys \cup {None}]
  /\ audit_key \in [Procs -> SigningKeys \cup {None}]
  /\ crashes \in 0..MaxCrashes

\* However processes race to initialize, fail, restart and reseal, those that
\* are unlocked hold the Root KEK of the envelope, and everything stored is
\* wrapped under that one: any replica opens what any other wrapped.
OneRootKek ==
  /\ \A p \in Procs : root_kek[p] # None => Initialized /\ root_kek[p] = LoadEnvelope.kek
  /\ sealed # {} => Initialized
  /\ \A k \in sealed : k = LoadEnvelope.kek
  /\ signing # None => Initialized /\ signing.kek = LoadEnvelope.kek

\* All audit logs sign with the stored keypair, so that any of them verifies
\* the entries of every other.
OneSigningKey ==
  \A p \in Procs : audit_key[p] # None => signing # None /\ audit_key[p] = signing.key

\* The sentinel makes the token single-shot across replicas (main.py:230-232),
\* over restarts and after its revocation too.
OneBootstrapToken == tokens <= 1 /\ printed <= tokens

\* "Subordinate keys are NOT re-encrypted" (cli/rekey.py:9): resealing changes
\* the envelope and never the Root KEK, and neither does anything else.
RootKekIsForever ==
  [][Initialized => Initialized' /\ LoadEnvelope'.kek = LoadEnvelope.kek]_vars

\* The Root KEK and the signing keypair as values that processes agree on.
RootKekAgreement == INSTANCE Agreement WITH
  Processes <- Procs,
  Values    <- RootKeks,
  chosen    <- IF Initialized THEN LoadEnvelope.kek ELSE None,
  learned   <- root_kek

SigningKeyAgreement == INSTANCE Agreement WITH
  Processes <- Procs,
  Values    <- SigningKeys,
  chosen    <- IF signing = None THEN None ELSE signing.key,
  learned   <- audit_key

\* With their probes, losing inserts, reseals, crashes and restarts, the
\* processes only ever choose one Root KEK and one signing keypair, learn the
\* chosen one, or forget it.
ImplementsAgreement == RootKekAgreement!Spec /\ SigningKeyAgreement!Spec

\* Once crashes stop, every replica comes to serve for good, whatever it lost
\* its start to: a faster initializer, or a passphrase rotated under it.
EveryReplicaServes ==
  \A p \in Replicas : <>[](pc[p] = "serving")

\* A replica's start is lost to another process and to nothing else: to one
\* that initialized between its two looks at the custody row, or to a run of
\* rekey that resealed, or that ended before it said whether it had.
LostStartsAreRaces ==
  [][\A p \in Replicas : pc[p] # "failed" /\ pc'[p] = "failed" =>
       \/ pc[p] = "initializing" /\ Initialized
       \/ /\ pc[p] = "unlocking"
          /\ \E q \in Rekeys : pc[q] \in {"resealed", "rotated", "failed", "killed"}]_vars

\* The init CLI's purpose (cli/init.py:4-7): "the bootstrap admin token is
\* minted exactly once and printed in a single, known place", so a token that
\* nobody saw is about to be printed, unless its process was killed.
BootstrapTokenPrinted ==
  tokens > printed /\ crashes = 0 => \E p \in Boots : pc[p] = "minted"
=============================================================================
