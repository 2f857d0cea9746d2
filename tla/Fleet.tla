-------------------------------- MODULE Fleet --------------------------------
(***************************************************************************)
(* Processes with and without the post-quantum library: how they start     *)
(* (app/main.py, app/cli/rotate.py) from shares of the passphrase          *)
(* (app/custody/shamir.py), and what they make and open with one set of    *)
(* keys (app/crypto/kem.py, app/crypto/signatures.py, the operations of    *)
(* app/storage/keystore.py that call them, and app/storage/audit.py).      *)
(*                                                                         *)
(* A process that has liboqs makes hybrid material, one that has not makes *)
(* classical material; what is made is tagged with its suite, and the two  *)
(* must not be taken for each other when replicas are replaced or a job    *)
(* runs on another host.  Secrets are symbolic: a half of a key pair is    *)
(* known by its key and version.                                           *)
(***************************************************************************)
EXTENDS Integers, Sequences, FiniteSets

CONSTANTS
  Servers,     \* the replicas
  Tools,       \* runs of the rotation job
  AuditKey,    \* the key pair that signs the audit log
  SigKeys,     \* the other signing keys
  KemKeys,     \* the keys that wrap data keys
  Deals,       \* ceremonies: the shares of the passphrase and their threshold
  Combine(_),  \* combine_shares
  Passphrase,  \* what the Root KEK is sealed under
  MaxVersions, \* bound of the model: versions of a key
  MaxMade,     \* bound of the model: signatures and wrapped keys
  None         \* no answer

Processes == Servers \cup Tools
Keys == {AuditKey} \cup SigKeys \cup KemKeys

ASSUME ProcessesAssumption == Servers \cap Tools = {}
ASSUME KeysAssumption ==
  SigKeys \cap KemKeys = {} /\ AuditKey \notin SigKeys \cup KemKeys
ASSUME BoundsAssumption == MaxVersions \in Nat /\ MaxMade \in Nat
ASSUME DealsAssumption == \A d \in Deals : d.threshold \in Nat \ {0, 1} /\ IsFiniteSet(d.shares)

VARIABLES
  requirePq, \* PQKMS_REQUIRE_PQ, of the whole deployment
  deal,      \* the ceremony that was held
  state,     \* of each process: "down", "failed" to start, or "up"
  oqs,       \* whether it could import liboqs
  given,     \* how many shares a start that failed was given
  seen,      \* history: who came up, a tool or not, with the library or not
  versions,  \* the suite of each version of each key
  made       \* the signatures and wrapped keys that were made

vars == <<requirePq, deal, state, oqs, given, seen, versions, made>>

Suites == {"hybrid", "classic"}

Halves(suite) == IF suite = "hybrid" THEN {"classical", "pq"} ELSE {"classical"}

\* A signature, or a wrapped key with its encapsulation: the suite is in it.
Artefact == [key : Keys, ver : Nat, suite : Suites]

\* The halves of key pairs it was made with.
Under(m) == {m.key} \X {m.ver} \X Halves(m.suite)

\* Processes came up with the library and without it.
Mixed == \E x, y \in seen : x.oqs # y.oqs

Init ==
  /\ requirePq \in BOOLEAN
  /\ deal \in Deals
  /\ state = [p \in Processes |-> "down"]
  /\ oqs = [p \in Processes |-> FALSE]
  /\ given = [p \in Processes |-> 0]
  /\ seen = {}
  /\ versions = [k \in Keys |-> <<>>]
  /\ made = {}

SuiteOf(hasOqs) == IF hasOqs THEN "hybrid" ELSE "classic"

-----------------------------------------------------------------------------
(* Processes.                                                              *)

\* Mutant: the requirement is a warning.
WarnsPqRequirement(p, hasOqs) == TRUE

\* The server exits without the library; the tools do not ask for it.
EnforcesPqRequirement(p, hasOqs) == requirePq /\ p \in Servers => hasOqs

\* make_custodian and unlock: at least two shares, that give the passphrase.
Unlocks(shares) == Cardinality(shares) >= 2 /\ Combine(shares) = Passphrase

\* The first process that unlocks generates the audit log's key pair.
ComeUp(p, hasOqs) ==
  /\ state' = [state EXCEPT ![p] = "up"]
  /\ given' = [given EXCEPT ![p] = 0]
  /\ seen' = seen \cup {[tool |-> p \in Tools, oqs |-> hasOqs]}
  /\ versions' = IF versions[AuditKey] = <<>>
                   THEN [versions EXCEPT ![AuditKey] = <<SuiteOf(hasOqs)>>]
                   ELSE versions

FailToStart(p, shares) ==
  /\ state' = [state EXCEPT ![p] = "failed"]
  /\ given' = [given EXCEPT ![p] = Cardinality(shares)]
  /\ UNCHANGED <<seen, versions>>

\* The server also asks for a passphrase in the environment, which the Shamir
\* custodian does not use: one is set here.
Start(p, hasOqs, shares) ==
  /\ state[p] # "up"
  /\ oqs' = [oqs EXCEPT ![p] = hasOqs]
  /\ IF EnforcesPqRequirement(p, hasOqs) /\ Unlocks(shares)
       THEN ComeUp(p, hasOqs)
       ELSE FailToStart(p, shares)
  /\ UNCHANGED <<requirePq, deal, made>>

Stop(p) ==
  /\ state[p] = "up"
  /\ state' = [state EXCEPT ![p] = "down"]
  /\ oqs' = [oqs EXCEPT ![p] = FALSE]
  /\ UNCHANGED <<requirePq, deal, given, seen, versions, made>>

-----------------------------------------------------------------------------
(* Key material.  Every operation appends an audit entry, signed.          *)

Up(p) == state[p] = "up"

Current(k) == Len(versions[k])

\* sign and encapsulate: without the library the classical half alone, and the
\* result is tagged so.
SuiteMade(p, suite) ==
  IF suite = "classic" \/ ~oqs[p] THEN "classic" ELSE "hybrid"

\* An artefact of the current version of a key.
New(p, k) ==
  [key |-> k, ver |-> Current(k), suite |-> SuiteMade(p, versions[k][Current(k)])]

Add(artefacts) ==
  /\ Cardinality(made \cup artefacts) <= MaxMade
  /\ made' = made \cup artefacts

\* HybridKEM.generate and HybridSigner.generate, for create_key and rotate; the
\* rotation job only rotates.
Generate(p, k) ==
  /\ Up(p)
  /\ k # AuditKey
  /\ p \in Tools => Current(k) > 0
  /\ Current(k) < MaxVersions
  /\ versions' = [versions EXCEPT ![k] = Append(@, SuiteOf(oqs[p]))]
  /\ Add({New(p, AuditKey)})
  /\ UNCHANGED <<requirePq, deal, state, oqs, given, seen>>

Make(p, k) ==
  /\ p \in Servers
  /\ Up(p)
  /\ Current(k) > 0
  /\ Add({New(p, k), New(p, AuditKey)})
  /\ UNCHANGED <<requirePq, deal, state, oqs, given, seen, versions>>

Sign(p, k) == k \in SigKeys /\ Make(p, k)
Wrap(p, k) == k \in KemKeys /\ Make(p, k)

-----------------------------------------------------------------------------
(* What verify and unwrap answer; they change nothing.                     *)

VerHas(k, v, suite) == v \in 1..Current(k) /\ versions[k][v] = suite

\* Mutant: the suite is taken from the signature alone.
SuiteUnchecked(m, k, v) == v \in 1..Current(k)

\* Anti-downgrade: the suite recorded with the version must be the tag's.
SuiteMatches(m, k, v) == VerHas(k, v, m.suite)

\* Each half that the tag names must verify under the version's public key,
\* the post-quantum one by the library.
Verifies(p, m, k, v) ==
  /\ Up(p)
  /\ SuiteMatches(m, k, v)
  /\ <<k, v, "classical">> \in Under(m)
  /\ m.suite = "hybrid" => oqs[p] /\ <<k, v, "pq">> \in Under(m)

\* derive_key, of the classical exchange and, for hybrid, the KEM's secret.
SharedSecret(k, v, suite) == <<suite, {k} \X {v} \X Halves(suite)>>

\* Mutant: the replica's library, and not the tag, tells which was used.
DecapsulateByLibrary(p, m, k, v) ==
  SharedSecret(k, v, IF oqs[p] THEN "hybrid" ELSE "classic")

Decapsulate(p, m, k, v) ==
  IF m.suite = "classic" THEN SharedSecret(k, v, "classic")
  ELSE IF oqs[p] /\ VerHas(k, v, "hybrid") THEN SharedSecret(k, v, "hybrid")
  ELSE None

\* AEAD.decrypt accepts the secret the data key was encrypted under, only.
Unwraps(p, m, k, v) ==
  /\ Up(p)
  /\ v \in 1..Current(k)
  /\ Decapsulate(p, m, k, v) = <<m.suite, Under(m)>>

-----------------------------------------------------------------------------
Next ==
  \E p \in Processes :
    \/ \E hasOqs \in BOOLEAN, shares \in SUBSET deal.shares : Start(p, hasOqs, shares)
    \/ Stop(p)
    \/ \E k \in Keys : Generate(p, k) \/ Sign(p, k) \/ Wrap(p, k)

Spec == Init /\ [][Next]_vars

-----------------------------------------------------------------------------
(* Properties.                                                             *)

\* Every variable keeps its type.
TypeOK ==
  /\ requirePq \in BOOLEAN
  /\ deal \in Deals
  /\ state \in [Processes -> {"down", "failed", "up"}]
  /\ oqs \in [Processes -> BOOLEAN]
  /\ given \in [Processes -> Nat]
  /\ seen \subseteq [tool : BOOLEAN, oqs : BOOLEAN]
  /\ versions \in [Keys -> Seq(Suites)]
  /\ made \subseteq Artefact

\* "A post-quantum KMS must not silently degrade" (main.py:160): where the
\* requirement is set, whichever replicas come and go, every version of every
\* key has its post-quantum half and so has everything made with it, until a
\* tool is run on a host without the library.
PqFleetIsPq ==
  requirePq =>
    \/ [tool |-> TRUE, oqs |-> FALSE] \in seen
    \/ /\ \A k \in Keys, v \in 1..MaxVersions : ~VerHas(k, v, "classic")
       /\ \A m \in made : m.suite = "hybrid"

\* A signature is accepted for a version only when it was made with every
\* half of that version's key pair: one that a process without the library
\* made with the classical half of a hybrid key is accepted by no process, nor
\* is one of another version or key.
NoDowngrade ==
  \A p \in Processes, m \in made, k \in Keys \ KemKeys, v \in 1..MaxVersions :
    Verifies(p, m, k, v) => {k} \X {v} \X Halves(versions[k][v]) \subseteq Under(m)

CanCompute(p, suite) == Up(p) /\ (suite = "classic" \/ oqs[p])

\* Whatever was made stays good when keys are rotated and processes replaced
\* by others, with the library or without: a wrapped key is opened, and a
\* signature of its version's suite verifies, on every process that can
\* compute the suite it is tagged with.  All signatures do, those in the audit
\* log included, as long as the processes agreed on having the library.
ArtefactsKeepWorking ==
  \A p \in Processes, m \in made : CanCompute(p, m.suite) =>
    IF m.key \in KemKeys THEN Unwraps(p, m, m.key, m.ver)
    ELSE VerHas(m.key, m.ver, m.suite) \/ ~Mixed
           => Verifies(p, m, m.key, m.ver)

\* Any K of the shares unlock (shamir.py:6): a process that fails to start
\* was given fewer than the threshold, or is a server that lacks the library.
EnoughSharesUnlock ==
  \A p \in Processes : state[p] = "failed" =>
    \/ given[p] < deal.threshold
    \/ requirePq /\ p \in Servers /\ ~oqs[p]
=============================================================================
