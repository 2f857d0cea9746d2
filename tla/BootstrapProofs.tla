-------------------------- MODULE BootstrapProofs --------------------------
(***************************************************************************)
(* One Root KEK, one audit signing keypair and one bootstrap token, for    *)
(* every number of replicas, of runs of the CLIs and of crashes.           *)
(***************************************************************************)
EXTENDS Bootstrap, TLAPS

USE NoneAssumption, MaxCrashesAssumption DEF Envelope, SealedKeypair

Gone == {"down", "failed", "refused", "killed"}

Unlocked == {"unlocked", "keyed", "lost", "auditing", "claiming", "minting", "minted",
             "skipping", "serving", "reported", "resealed", "rotated"}

\* What the variables of a process hold at each point of its code.
LocalsTyped ==
  \A p \in Procs :
    /\ pc[p] \notin Gone => passphrase[p] \in Passphrases
    /\ pc[p] = "generated" => own[p] \in RootKeks
    /\ pc[p] = "keyed" => own[p] \in SigningKeys
    /\ pc[p] = "unlocking" => Initialized
    /\ pc[p] \in Unlocked => root_kek[p] \in RootKeks

TypeInv == TypeOK /\ LocalsTyped

\* The step of a process that is none of the shared ones.
ProcStep(p) == Boot(p) \/ Rekey(p) \/ Crash(p)

-----------------------------------------------------------------------------
(* Types.                                                                  *)

LEMMA InitTypes == Init => TypeInv
  <1> SUFFICES ASSUME Init PROVE TypeInv
    OBVIOUS
  <1>1. legacy \in Envelope \cup {None} /\ sealed \subseteq RootKeks
    BY DEF Init
  <1>2a. /\ custody = None /\ signing = None /\ sentinel = FALSE /\ tokens = 0
         /\ printed = 0 /\ crashes = 0 /\ mounted \in Passphrases
    BY DEF Init
  <1>2b. /\ pc = [p \in Procs |-> "down"]
         /\ passphrase = [p \in Procs |-> None] /\ root_kek = [p \in Procs |-> None]
         /\ own = [p \in Procs |-> None] /\ audit_key = [p \in Procs |-> None]
    BY DEF Init
  <1>2c. /\ pc \in [Procs -> Labels]
         /\ passphrase \in [Procs -> Passphrases \cup {None}]
         /\ root_kek \in [Procs -> RootKeks \cup {None}]
         /\ own \in [Procs -> RootKeks \cup SigningKeys \cup {None}]
         /\ audit_key \in [Procs -> SigningKeys \cup {None}]
    BY <1>2b DEF Labels
  <1>2d. crashes \in 0..MaxCrashes /\ tokens \in Nat /\ printed \in Nat
    BY <1>2a
  <1>2. TypeOK
    BY <1>1, <1>2a, <1>2c, <1>2d, Zenon DEF TypeOK
  <1>3. LocalsTyped
    BY DEF Init, LocalsTyped, Gone, Unlocked
  <1> QED BY <1>2, <1>3 DEF TypeInv

\* A process that dies leaves nothing behind.
LEMMA DieTypes ==
  ASSUME TypeInv, NEW p \in Procs, NEW l \in Gone, Die(p, l),
         UNCHANGED <<meta, printed, sealed, mounted>>, crashes' \in 0..MaxCrashes
  PROVE  TypeInv'
  <1>1. TypeOK'
    BY DEF TypeInv, TypeOK, Die, GoTo, meta, Labels, Gone
  <1>2. Initialized' = Initialized
    BY DEF Initialized, meta
  <1>3. LocalsTyped'
    BY <1>2 DEF TypeInv, TypeOK, LocalsTyped, Die, GoTo, Gone, Unlocked
  <1> QED BY <1>1, <1>3 DEF TypeInv

\* The envelope that stands is an envelope.
LEMMA EnvelopeTyped ==
  ASSUME TypeOK, Initialized
  PROVE  LoadEnvelope \in Envelope
  BY DEF TypeOK, Initialized, LoadEnvelope

LEMMA BootTypes ==
  ASSUME TypeInv, NEW p \in Procs, Boot(p)
  PROVE  TypeInv'
  <1> USE DEF TypeInv
  <1>0. crashes \in 0..MaxCrashes /\ {"failed", "refused"} \subseteq Gone
    BY DEF TypeOK, Gone
  <1>1. CASE Start(p)
    <2>1. TypeOK'
      BY <1>1 DEF Start, TypeOK, GoTo, meta, Labels
    <2>2. Initialized' = Initialized
      BY <1>1 DEF Start, Initialized, meta
    <2> QED
      BY <1>1, <2>1, <2>2 DEF Start, TypeOK, LocalsTyped, GoTo, Gone, Unlocked
  <1>2. CASE Probe(p)
    <2>1. CASE ~Initialized /\ p \notin Boots
      BY <1>0, <1>2, <2>1, DieTypes DEF Probe
    <2>2. CASE Initialized \/ p \in Boots
      <3>1. UNCHANGED <<meta, locals, printed, sealed, mounted, crashes>>
        BY <1>2, <2>2 DEF Probe
      <3>2. pc' = [pc EXCEPT ![p] = IF Initialized THEN "unlocking" ELSE "initializing"]
        BY <1>2, <2>2 DEF Probe, GoTo
      <3>3. TypeOK'
        BY <3>1, <3>2 DEF TypeOK, meta, locals, Labels
      <3>4. Initialized' = Initialized
        BY <3>1 DEF Initialized, meta
      <3> QED
        BY <1>2, <3>1, <3>2, <3>3, <3>4
        DEF Probe, TypeOK, LocalsTyped, locals, Gone, Unlocked
    <2> QED BY <2>1, <2>2
  <1>3. CASE GenerateRootKek(p)
    <2>1. CASE Initialized
      BY <1>0, <1>3, <2>1, DieTypes DEF GenerateRootKek
    <2>2. CASE ~Initialized
      <3>1. PICK k \in FreshKeks : own' = [own EXCEPT ![p] = k]
        BY <1>3, <2>2 DEF GenerateRootKek
      <3>2. k \in RootKeks
        BY DEF FreshKeks
      <3>3. TypeOK'
        BY <1>3, <2>2, <3>1, <3>2 DEF GenerateRootKek, GoTo, TypeOK, meta, Labels
      <3>4. Initialized' = Initialized
        BY <1>3 DEF GenerateRootKek, Initialized, meta
      <3> QED
        BY <1>3, <2>2, <3>1, <3>2, <3>3, <3>4
        DEF GenerateRootKek, GoTo, TypeOK, LocalsTyped, Gone, Unlocked
    <2> QED BY <2>1, <2>2
  <1>4. CASE PutCustody(p)
    <2>1. passphrase[p] \in Passphrases /\ own[p] \in RootKeks
      BY <1>4 DEF PutCustody, LocalsTyped, Gone
    <2>2. CASE custody = None
      <3>1. TypeOK'
        BY <1>4, <2>1, <2>2
        DEF PutCustody, InstallRootKek, GoTo, TypeOK, Labels
      <3>2. custody' \in Envelope
        BY <1>4, <2>1, <2>2 DEF PutCustody, InstallRootKek
      <3>2a. Initialized'
        BY <3>2 DEF Initialized
      <3> QED
        BY <1>4, <2>1, <2>2, <3>1, <3>2a
        DEF PutCustody, InstallRootKek, GoTo, TypeOK, LocalsTyped, Gone, Unlocked
    <2>3. CASE custody # None
      <3>1. TypeOK'
        BY <1>4, <2>3 DEF PutCustody, GoTo, TypeOK, Labels, meta
      <3>2. Initialized'
        BY <1>4, <2>3 DEF PutCustody, Initialized, meta
      <3> QED
        BY <1>4, <2>3, <3>1, <3>2
        DEF PutCustody, GoTo, TypeOK, LocalsTyped, Gone, Unlocked
    <2> QED BY <2>2, <2>3
  <1>5. CASE Unlock(p)
    <2>1. Initialized /\ LoadEnvelope.kek \in RootKeks
      BY <1>5, EnvelopeTyped DEF Unlock, LocalsTyped
    <2>2. CASE LoadEnvelope.pass = passphrase[p]
      <3>1. TypeOK'
        BY <1>5, <2>1, <2>2 DEF Unlock, GoTo, TypeOK, Labels, meta
      <3>2. Initialized'
        BY <1>5, <2>1 DEF Unlock, Initialized, meta
      <3> QED
        BY <1>5, <2>1, <2>2, <3>1, <3>2
        DEF Unlock, GoTo, TypeOK, LocalsTyped, Gone, Unlocked
    <2>3. CASE LoadEnvelope.pass # passphrase[p]
      BY <1>0, <1>5, <2>3, DieTypes DEF Unlock
    <2> QED BY <2>2, <2>3
  <1>6. CASE LoadSigningKey(p)
    <2>0. root_kek[p] \in RootKeks /\ passphrase[p] \in Passphrases
      BY <1>6 DEF LoadSigningKey, LocalsTyped, Unlocked, Gone
    <2>1. Initialized' = Initialized
      BY <1>6 DEF LoadSigningKey, Initialized, meta
    <2>2. CASE signing = None
      <3>1. PICK s \in FreshSigningKeys : own' = [own EXCEPT ![p] = s]
        BY <1>6, <2>2 DEF LoadSigningKey
      <3>2. s \in SigningKeys
        BY DEF FreshSigningKeys
      <3>3. TypeOK'
        BY <1>6, <2>2, <3>1, <3>2 DEF LoadSigningKey, GoTo, TypeOK, meta, Labels
      <3> QED
        BY <1>6, <2>0, <2>1, <2>2, <3>1, <3>2, <3>3
        DEF LoadSigningKey, GoTo, TypeOK, LocalsTyped, Gone, Unlocked
    <2>3. CASE signing # None /\ signing.kek = root_kek[p]
      <3>1. TypeOK'
        BY <1>6, <2>3 DEF LoadSigningKey, GoTo, TypeOK, meta, Labels
      <3> QED
        BY <1>6, <2>0, <2>1, <2>3, <3>1
        DEF LoadSigningKey, GoTo, TypeOK, LocalsTyped, Gone, Unlocked
    <2>4. CASE signing # None /\ signing.kek # root_kek[p]
      BY <1>0, <1>6, <2>4, DieTypes DEF LoadSigningKey
    <2> QED BY <2>2, <2>3, <2>4
  <1>7. CASE PutSigningKey(p)
    <2>0. root_kek[p] \in RootKeks /\ passphrase[p] \in Passphrases /\ own[p] \in SigningKeys
      BY <1>7 DEF PutSigningKey, LocalsTyped, Unlocked, Gone
    <2>1. Initialized' = Initialized
      BY <1>7 DEF PutSigningKey, Initialized
    <2>2. TypeOK'
      BY <1>7, <2>0 DEF PutSigningKey, GoTo, TypeOK, Labels
    <2> QED
      BY <1>7, <2>0, <2>1, <2>2 DEF PutSigningKey, GoTo, TypeOK, LocalsTyped, Gone, Unlocked
  <1>8. CASE MintToken(p) /\ p \notin Replicas
    <2>1. TypeOK'
      BY <1>8 DEF MintToken, Die, GoTo, TypeOK, Labels
    <2>2. Initialized' = Initialized
      BY <1>8 DEF MintToken, Initialized
    <2> QED
      BY <1>8, <2>1, <2>2 DEF MintToken, Die, GoTo, TypeOK, LocalsTyped, Gone, Unlocked
  <1>9. CASE \/ CheckToken(p) \/ ClaimToken(p) \/ PrintToken(p) \/ SkipToken(p)
             \/ MintToken(p) /\ p \in Replicas
    <2>0. pc[p] \in Unlocked /\ pc[p] \notin Gone
      BY <1>9 DEF CheckToken, ClaimToken, PrintToken, SkipToken, MintToken, Unlocked, Gone
    <2>1. PICK l \in {"skipping", "claiming", "minting", "minted", "serving", "reported"} :
            pc' = [pc EXCEPT ![p] = l]
      BY <1>9 DEF CheckToken, ClaimToken, PrintToken, SkipToken, MintToken, GoTo
    <2>2. UNCHANGED <<custody, legacy, signing, sealed, mounted, crashes, locals>>
      BY <1>9 DEF CheckToken, ClaimToken, PrintToken, SkipToken, MintToken, meta
    <2>2a. sentinel' \in BOOLEAN
      BY <1>9 DEF TypeOK, CheckToken, ClaimToken, PrintToken, SkipToken, MintToken, meta
    <2>2b. tokens' \in Nat /\ printed' \in Nat
      BY <1>9 DEF TypeOK, CheckToken, ClaimToken, PrintToken, SkipToken, MintToken, meta
    <2>3. TypeOK'
      BY <2>1, <2>2, <2>2a, <2>2b DEF TypeOK, locals, Labels
    <2>4. Initialized' = Initialized
      BY <2>2 DEF Initialized
    <2> QED
      BY <2>0, <2>1, <2>2, <2>3, <2>4 DEF TypeOK, LocalsTyped, locals, Gone, Unlocked
  <1> QED
    BY <1>1, <1>2, <1>3, <1>4, <1>5, <1>6, <1>7, <1>8, <1>9 DEF Boot

LEMMA NextTypes == TypeInv /\ [Next]_vars => TypeInv'
  <1> SUFFICES ASSUME TypeInv, [Next]_vars PROVE TypeInv'
    OBVIOUS
  <1> USE DEF TypeInv
  <1>1. ASSUME NEW p \in Procs, Boot(p) PROVE TypeInv'
    BY <1>1, BootTypes
  <1>2. ASSUME NEW p \in Procs, RewrapRootKek(p) PROVE TypeInv'
    <2>1. pc[p] = "unlocked" /\ root_kek[p] \in RootKeks
      BY <1>2 DEF RewrapRootKek, Reseal, LocalsTyped, Unlocked
    <2>2. PICK new \in Passphrases :
            /\ custody' = [kek |-> root_kek[p], pass |-> new]
            /\ passphrase' = [passphrase EXCEPT ![p] = new]
      BY <1>2 DEF RewrapRootKek, Reseal
    <2>3. TypeOK'
      BY <1>2, <2>1, <2>2 DEF RewrapRootKek, Reseal, GoTo, TypeOK, Labels
    <2>4. custody' \in Envelope
      BY <2>1, <2>2
    <2>5. Initialized'
      BY <2>4 DEF Initialized
    <2> QED
      BY <1>2, <2>1, <2>2, <2>3, <2>5
      DEF RewrapRootKek, Reseal, GoTo, TypeOK, LocalsTyped, Gone, Unlocked
  <1>3. ASSUME NEW p \in Procs, VerifyRekey(p) PROVE TypeInv'
    <2>1. TypeOK'
      BY <1>3 DEF VerifyRekey, GoTo, TypeOK, meta, locals, Labels
    <2>2. Initialized' = Initialized
      BY <1>3 DEF VerifyRekey, Initialized, meta
    <2> QED
      BY <1>3, <2>1, <2>2 DEF VerifyRekey, GoTo, TypeOK, LocalsTyped, locals, Gone, Unlocked
  <1>4. ASSUME NEW p \in Procs, Crash(p) PROVE TypeInv'
    <2>1. crashes' \in 0..MaxCrashes /\ "killed" \in Gone
      BY <1>4 DEF Crash, TypeOK, Gone
    <2> QED
      BY <1>4, <2>1, DieTypes DEF Crash
  <1>5. ASSUME NEW p \in Replicas, SealMaterial(p) PROVE TypeInv'
    <2>0. root_kek[p] \in RootKeks
      BY <1>5 DEF SealMaterial, LocalsTyped, Unlocked, Procs, Boots
    <2>1. TypeOK'
      BY <1>5, <2>0 DEF SealMaterial, TypeOK, meta, locals
    <2>2. Initialized' = Initialized
      BY <1>5 DEF SealMaterial, Initialized, meta
    <2> QED
      BY <1>5, <2>1, <2>2 DEF SealMaterial, LocalsTyped, locals
  <1>6. CASE Mount
    <2>1. LoadEnvelope.pass \in Passphrases
      BY <1>6, EnvelopeTyped DEF Mount
    <2>2. TypeOK'
      BY <1>6, <2>1 DEF Mount, TypeOK, meta, locals
    <2>3. Initialized' = Initialized
      BY <1>6 DEF Mount, Initialized, meta
    <2> QED
      BY <1>6, <2>2, <2>3 DEF Mount, LocalsTyped, locals
  <1>7. CASE UNCHANGED vars
    BY <1>7 DEF vars, meta, locals, TypeOK, LocalsTyped, Initialized
  <1> QED
    BY <1>1, <1>2, <1>3, <1>4, <1>5, <1>6, <1>7 DEF Next, Rekey

\* Every variable keeps its type, and the locals of a process are what its
\* place in the code says.
THEOREM TypesHold == Spec => []TypeInv
  BY InitTypes, NextTypes, PTL DEF Spec

THEOREM TypeCorrect == Spec => []TypeOK
  <1>1. TypeInv => TypeOK
    BY DEF TypeInv
  <1> QED BY <1>1, TypesHold, PTL

-----------------------------------------------------------------------------
(* One Root KEK.                                                           *)

\* Who holds a Root KEK of its own making is the first: the legacy rows are
\* there from the start or never.
NoLegacyToReplace ==
  \A p \in Procs : pc[p] \in {"initializing", "generated"} => legacy = None

KekInv == TypeInv /\ OneRootKek /\ NoLegacyToReplace

LEMMA InitKek == Init => KekInv
  <1> SUFFICES ASSUME Init PROVE KekInv
    OBVIOUS
  <1>1. TypeInv
    BY InitTypes
  <1>2. NoLegacyToReplace
    BY DEF Init, NoLegacyToReplace
  <1>3. custody = None /\ signing = None /\ root_kek = [p \in Procs |-> None]
    BY DEF Init
  <1>4. ASSUME legacy = None, sealed = {} PROVE OneRootKek
    <2>1. \A p \in Procs : root_kek[p] = None
      BY <1>3
    <2> QED
      BY <1>3, <1>4, <2>1, Zenon DEF OneRootKek
  <1>5. ASSUME NEW k \in RootKeks, legacy = [kek |-> k, pass |-> mounted], sealed = {k}
        PROVE  OneRootKek
    <2>1. legacy \in Envelope
      BY <1>5 DEF Init
    <2>2. Initialized /\ LoadEnvelope.kek = k
      BY <1>3, <1>5, <2>1 DEF Initialized, LoadEnvelope
    <2> QED
      BY <1>3, <1>5, <2>2 DEF OneRootKek
  <1>6. OneRootKek
    <2>1. CASE \E k \in RootKeks : legacy = [kek |-> k, pass |-> mounted] /\ sealed = {k}
      BY <1>5, <2>1
    <2> QED
      BY <1>4, <2>1, Zenon DEF Init
  <1> QED BY <1>1, <1>2, <1>6 DEF KekInv

\* What a step may do to the Root KEKs in memory: forget one, or hold the one
\* of the envelope.
KeksStand ==
  \A p \in Procs :
    \/ root_kek'[p] \in {None, root_kek[p]}
    \/ Initialized /\ root_kek'[p] = LoadEnvelope.kek

\* A step that leaves the envelope, what is stored under it and the keypair.
LEMMA KeksStandKeep ==
  ASSUME KekInv, KeksStand, UNCHANGED <<custody, legacy, signing, sealed>>
  PROVE  OneRootKek'
  <1>1. Initialized' = Initialized /\ LoadEnvelope' = LoadEnvelope
    BY DEF Initialized, LoadEnvelope
  <1> QED
    BY <1>1 DEF KekInv, OneRootKek, KeksStand

\* No step lets a process back to initializing once the legacy rows exist.
LEMMA LegacyStep ==
  ASSUME KekInv, [Next]_vars
  PROVE  legacy' = legacy /\ NoLegacyToReplace'
  <1> USE DEF KekInv, NoLegacyToReplace
  <1>0. pc \in [Procs -> Labels]
    BY DEF TypeInv, TypeOK
  <1>1. ASSUME NEW p \in Procs, Start(p) \/ Probe(p) \/ GenerateRootKek(p)
        PROVE  legacy' = legacy /\ NoLegacyToReplace'
    BY <1>0, <1>1 DEF Start, Probe, GenerateRootKek, Die, GoTo, meta, Initialized
  <1>2. ASSUME NEW p \in Procs, PutCustody(p) \/ Unlock(p)
        PROVE  legacy' = legacy /\ NoLegacyToReplace'
    BY <1>0, <1>2 DEF PutCustody, InstallRootKek, Unlock, Die, GoTo, meta
  <1>3. ASSUME NEW p \in Procs, LoadSigningKey(p) \/ PutSigningKey(p)
        PROVE  legacy' = legacy /\ NoLegacyToReplace'
    BY <1>0, <1>3 DEF LoadSigningKey, PutSigningKey, Die, GoTo, meta
  <1>4. ASSUME NEW p \in Procs,
               \/ CheckToken(p) \/ ClaimToken(p) \/ MintToken(p)
               \/ PrintToken(p) \/ SkipToken(p)
        PROVE  legacy' = legacy /\ NoLegacyToReplace'
    BY <1>0, <1>4
    DEF CheckToken, ClaimToken, MintToken, PrintToken, SkipToken, Die, GoTo, meta
  <1>5. ASSUME NEW p \in Procs, RewrapRootKek(p) \/ VerifyRekey(p) \/ Crash(p)
        PROVE  legacy' = legacy /\ NoLegacyToReplace'
    BY <1>0, <1>5 DEF RewrapRootKek, Reseal, VerifyRekey, Crash, Die, GoTo, meta
  <1>6. ASSUME (\E p \in Replicas : SealMaterial(p)) \/ Mount \/ UNCHANGED vars
        PROVE  legacy' = legacy /\ NoLegacyToReplace'
    BY <1>6 DEF SealMaterial, Mount, vars, meta
  <1> QED
    BY <1>1, <1>2, <1>3, <1>4, <1>5, <1>6 DEF Next, Boot, Rekey

\* The step that creates the Root KEK: nobody held one before.
LEMMA FirstRootKek ==
  ASSUME KekInv, NEW p \in Procs, PutCustody(p), custody = None
  PROVE  ~Initialized /\ OneRootKek'
  <1>1. legacy = None /\ own[p] \in RootKeks /\ passphrase[p] \in Passphrases
    BY DEF KekInv, NoLegacyToReplace, PutCustody, TypeInv, LocalsTyped, Gone
  <1>2. ~Initialized /\ sealed = {} /\ signing = None
    BY <1>1 DEF KekInv, OneRootKek, Initialized
  <1>3. \A q \in Procs : root_kek[q] = None
    BY <1>2 DEF KekInv, OneRootKek
  <1>4. custody' = [kek |-> own[p], pass |-> passphrase[p]]
    BY DEF PutCustody, InstallRootKek
  <1>5. custody' \in Envelope
    BY <1>1, <1>4
  <1>6. Initialized' /\ LoadEnvelope'.kek = own[p]
    BY <1>4, <1>5 DEF Initialized, LoadEnvelope
  <1>7. /\ root_kek' = [root_kek EXCEPT ![p] = own[p]]
        /\ signing' = signing /\ sealed' = sealed
    BY DEF PutCustody, InstallRootKek
  <1>8. root_kek \in [Procs -> RootKeks \cup {None}]
    BY DEF KekInv, TypeInv, TypeOK
  <1> QED
    BY <1>2, <1>3, <1>6, <1>7, <1>8 DEF OneRootKek

\* The step that reseals it keeps it.
LEMMA ResealKeeps ==
  ASSUME KekInv, NEW p \in Procs, RewrapRootKek(p)
  PROVE  Initialized /\ Initialized' /\ LoadEnvelope'.kek = LoadEnvelope.kek /\ OneRootKek'
  <1>1. root_kek[p] \in RootKeks
    BY DEF KekInv, TypeInv, LocalsTyped, RewrapRootKek, Reseal, Unlocked
  <1>2. Initialized /\ root_kek[p] = LoadEnvelope.kek
    BY <1>1 DEF KekInv, OneRootKek
  <1>3. PICK new \in Passphrases : custody' = [kek |-> root_kek[p], pass |-> new]
    BY DEF RewrapRootKek, Reseal
  <1>4. custody' \in Envelope
    BY <1>1, <1>3
  <1>5. Initialized' /\ LoadEnvelope'.kek = LoadEnvelope.kek
    BY <1>2, <1>3, <1>4 DEF Initialized, LoadEnvelope
  <1>6. root_kek' = root_kek /\ signing' = signing /\ sealed' = sealed
    BY DEF RewrapRootKek, Reseal
  <1> QED
    BY <1>2, <1>5, <1>6 DEF KekInv, OneRootKek

\* The step that stores the signing keypair seals it under the Root KEK.
LEMMA SigningKeySealed ==
  ASSUME KekInv, NEW p \in Procs, PutSigningKey(p)
  PROVE  OneRootKek'
  <1>1. root_kek[p] \in RootKeks /\ own[p] \in SigningKeys
    BY DEF KekInv, TypeInv, LocalsTyped, PutSigningKey, Unlocked
  <1>2. Initialized /\ root_kek[p] = LoadEnvelope.kek
    BY <1>1 DEF KekInv, OneRootKek
  <1>3. UNCHANGED <<custody, legacy, sealed, root_kek>>
    BY DEF PutSigningKey
  <1>4. Initialized' = Initialized /\ LoadEnvelope' = LoadEnvelope
    BY <1>3 DEF Initialized, LoadEnvelope
  <1>5. signing' = signing \/ signing'.kek = root_kek[p]
    BY DEF PutSigningKey
  <1> QED
    BY <1>2, <1>3, <1>4, <1>5 DEF KekInv, OneRootKek

\* Material is wrapped under the Root KEK in memory, which is the one.
LEMMA MaterialSealed ==
  ASSUME KekInv, NEW p \in Replicas, SealMaterial(p)
  PROVE  OneRootKek'
  <1>0. p \in Procs
    BY DEF Procs, Boots
  <1>1. root_kek[p] \in RootKeks
    BY <1>0 DEF KekInv, TypeInv, LocalsTyped, SealMaterial, Unlocked
  <1>2. Initialized /\ root_kek[p] = LoadEnvelope.kek
    BY <1>0, <1>1 DEF KekInv, OneRootKek
  <1>3. UNCHANGED <<custody, legacy, signing, root_kek>>
    BY DEF SealMaterial, meta, locals
  <1>4. Initialized' = Initialized /\ LoadEnvelope' = LoadEnvelope
    BY <1>3 DEF Initialized, LoadEnvelope
  <1>5. sealed' = sealed \cup {root_kek[p]}
    BY DEF SealMaterial
  <1> QED
    BY <1>2, <1>3, <1>4, <1>5 DEF KekInv, OneRootKek

\* All other steps of processes.
LEMMA OtherStepsStand ==
  ASSUME KekInv, NEW p \in Procs,
         \/ Start(p) \/ Probe(p) \/ GenerateRootKek(p)
         \/ PutCustody(p) /\ custody # None
         \/ Unlock(p) \/ LoadSigningKey(p)
         \/ CheckToken(p) \/ ClaimToken(p) \/ MintToken(p) \/ PrintToken(p) \/ SkipToken(p)
         \/ VerifyRekey(p) \/ Crash(p)
  PROVE  KeksStand /\ UNCHANGED <<custody, legacy, signing, sealed>>
  <1>0. root_kek \in [Procs -> RootKeks \cup {None}]
    BY DEF KekInv, TypeInv, TypeOK
  <1>1. CASE Start(p) \/ Probe(p) \/ GenerateRootKek(p)
    BY <1>0, <1>1 DEF Start, Probe, GenerateRootKek, Die, KeksStand, meta, locals
  <1>2. CASE PutCustody(p) /\ custody # None
    BY <1>0, <1>2 DEF PutCustody, KeksStand, meta
  <1>3. CASE Unlock(p)
    <2>1. Initialized
      BY <1>3 DEF KekInv, TypeInv, LocalsTyped, Unlock
    <2> QED
      BY <1>0, <1>3, <2>1 DEF Unlock, Die, KeksStand, meta
  <1>4. CASE LoadSigningKey(p)
    BY <1>0, <1>4 DEF LoadSigningKey, Die, KeksStand, meta
  <1>5. CASE CheckToken(p) \/ ClaimToken(p) \/ PrintToken(p) \/ SkipToken(p) \/ VerifyRekey(p)
    BY <1>0, <1>5
    DEF CheckToken, ClaimToken, PrintToken, SkipToken, VerifyRekey, KeksStand, meta, locals
  <1>6. CASE MintToken(p) \/ Crash(p)
    BY <1>0, <1>6 DEF MintToken, Crash, Die, KeksStand, meta, locals
  <1> QED BY <1>1, <1>2, <1>3, <1>4, <1>5, <1>6

LEMMA NextKek == KekInv /\ [Next]_vars => KekInv'
  <1> SUFFICES ASSUME KekInv, [Next]_vars PROVE KekInv'
    OBVIOUS
  <1>1. TypeInv'
    BY NextTypes DEF KekInv
  <1>2. NoLegacyToReplace'
    BY LegacyStep
  <1>3. ASSUME NEW p \in Procs, Boot(p) \/ Rekey(p) \/ Crash(p)
        PROVE  OneRootKek'
    <2>1. CASE PutCustody(p) /\ custody = None
      BY <2>1, FirstRootKek
    <2>2. CASE RewrapRootKek(p)
      BY <2>2, ResealKeeps
    <2>3. CASE PutSigningKey(p)
      BY <2>3, SigningKeySealed
    <2> QED
      BY <1>3, <2>1, <2>2, <2>3, OtherStepsStand, KeksStandKeep DEF Boot, Rekey
  <1>4. ASSUME NEW p \in Replicas, SealMaterial(p)
        PROVE  OneRootKek'
    BY <1>4, MaterialSealed
  <1>5. ASSUME UNCHANGED <<meta, sealed, locals>>
        PROVE  OneRootKek'
    <2>1. UNCHANGED <<custody, legacy, signing, sealed, root_kek>>
      BY <1>5 DEF meta, locals
    <2> QED
      BY <2>1, KeksStandKeep DEF KeksStand
  <1>6. ASSUME Mount PROVE OneRootKek'
    BY <1>5, <1>6 DEF Mount
  <1>7. ASSUME UNCHANGED vars PROVE OneRootKek'
    BY <1>5, <1>7 DEF vars
  <1>8. OneRootKek'
    BY <1>3, <1>4, <1>6, <1>7 DEF Next
  <1> QED BY <1>1, <1>2, <1>8 DEF KekInv

LEMMA KekInvHolds == Spec => []KekInv
  BY InitKek, NextKek, PTL DEF Spec

\* However processes race, fail, restart and reseal, everyone who is unlocked
\* holds the Root KEK of the envelope, and all that is stored is under it.
THEOREM OneRootKekHolds == Spec => []OneRootKek
  <1>1. KekInv => OneRootKek
    BY DEF KekInv
  <1> QED BY <1>1, KekInvHolds, PTL

LEMMA RootKekStep ==
  ASSUME KekInv, Next
  PROVE  Initialized => Initialized' /\ LoadEnvelope'.kek = LoadEnvelope.kek
  <1> SUFFICES ASSUME Initialized
               PROVE  Initialized' /\ LoadEnvelope'.kek = LoadEnvelope.kek
    OBVIOUS
  <1>1. ASSUME UNCHANGED <<custody, legacy>>
        PROVE  Initialized' /\ LoadEnvelope'.kek = LoadEnvelope.kek
    BY <1>1 DEF Initialized, LoadEnvelope
  <1>2. ASSUME NEW p \in Procs, Boot(p) \/ Rekey(p) \/ Crash(p)
        PROVE  Initialized' /\ LoadEnvelope'.kek = LoadEnvelope.kek
    <2>1. ~(PutCustody(p) /\ custody = None)
      BY FirstRootKek
    <2>2. CASE RewrapRootKek(p)
      BY <2>2, ResealKeeps
    <2>3. CASE PutSigningKey(p)
      BY <1>1, <2>3 DEF PutSigningKey
    <2> QED
      BY <1>1, <1>2, <2>1, <2>2, <2>3, OtherStepsStand DEF Boot, Rekey
  <1>3. CASE (\E p \in Replicas : SealMaterial(p)) \/ Mount
    BY <1>1, <1>3 DEF SealMaterial, Mount, meta
  <1> QED BY <1>2, <1>3 DEF Next

\* Nothing changes the Root KEK of a deployment once it has one.
THEOREM RootKekIsForeverHolds == Spec => RootKekIsForever
  <1>1. KekInv /\ [Next]_vars
          => [Initialized => Initialized' /\ LoadEnvelope'.kek = LoadEnvelope.kek]_vars
    BY RootKekStep
  <1> QED BY <1>1, KekInvHolds, PTL DEF Spec, RootKekIsForever

-----------------------------------------------------------------------------
(* One audit signing keypair.                                              *)

\* A step that stores no keypair hands out none but the stored one.
KeypairsStand ==
  /\ signing' = signing
  /\ \A p \in Procs :
       audit_key'[p] \in {None, audit_key[p]} \/ (signing # None /\ audit_key'[p] = signing.key)

LEMMA NextSigningKey ==
  ASSUME TypeInv, OneSigningKey, [Next]_vars
  PROVE  OneSigningKey'
  <1>0. audit_key \in [Procs -> SigningKeys \cup {None}]
    BY DEF TypeInv, TypeOK
  <1>1. ASSUME KeypairsStand PROVE OneSigningKey'
    BY <1>1 DEF KeypairsStand, OneSigningKey
  <1>2. ASSUME NEW p \in Procs, Start(p) \/ Probe(p) \/ GenerateRootKek(p)
        PROVE  KeypairsStand
    BY <1>0, <1>2 DEF Start, Probe, GenerateRootKek, Die, KeypairsStand, meta, locals
  <1>3. ASSUME NEW p \in Procs, PutCustody(p) \/ Unlock(p)
        PROVE  KeypairsStand
    BY <1>0, <1>3 DEF PutCustody, InstallRootKek, Unlock, Die, KeypairsStand, meta
  <1>4. ASSUME NEW p \in Procs, LoadSigningKey(p)
        PROVE  KeypairsStand
    BY <1>0, <1>4 DEF LoadSigningKey, Die, KeypairsStand, meta
  <1>5. ASSUME NEW p \in Procs, PutSigningKey(p)
        PROVE  OneSigningKey'
    <2>1. own[p] \in SigningKeys /\ root_kek[p] \in RootKeks
      BY <1>5 DEF TypeInv, LocalsTyped, PutSigningKey, Unlocked
    <2>2. CASE signing = None
      <3>1. \A q \in Procs : audit_key[q] = None
        BY <2>2 DEF OneSigningKey
      <3>2. /\ signing' = [kek |-> root_kek[p], key |-> own[p]]
            /\ audit_key' = [audit_key EXCEPT ![p] = own[p]]
        BY <1>5, <2>2 DEF PutSigningKey
      <3>3. signing' \in SealedKeypair
        BY <2>1, <3>2
      <3> QED
        BY <1>0, <3>1, <3>2, <3>3 DEF OneSigningKey
    <2>3. CASE signing # None
      BY <1>0, <1>1, <1>5, <2>3 DEF PutSigningKey, KeypairsStand
    <2> QED BY <2>2, <2>3
  <1>6. ASSUME NEW p \in Procs, CheckToken(p) \/ ClaimToken(p) \/ PrintToken(p) \/ SkipToken(p)
        PROVE  KeypairsStand
    BY <1>0, <1>6 DEF CheckToken, ClaimToken, PrintToken, SkipToken, KeypairsStand, meta, locals
  <1>7. ASSUME NEW p \in Procs, MintToken(p) \/ Crash(p)
        PROVE  KeypairsStand
    BY <1>0, <1>7 DEF MintToken, Crash, Die, KeypairsStand, meta, locals
  <1>8. ASSUME NEW p \in Procs, RewrapRootKek(p) \/ VerifyRekey(p)
        PROVE  KeypairsStand
    BY <1>0, <1>8 DEF RewrapRootKek, Reseal, VerifyRekey, KeypairsStand, meta, locals
  <1>9. ASSUME (\E p \in Replicas : SealMaterial(p)) \/ Mount \/ UNCHANGED vars
        PROVE  KeypairsStand
    BY <1>0, <1>9 DEF SealMaterial, Mount, vars, KeypairsStand, meta, locals
  <1> QED
    BY <1>1, <1>2, <1>3, <1>4, <1>5, <1>6, <1>7, <1>8, <1>9 DEF Next, Boot, Rekey

\* Every audit log signs with the keypair that is stored.
THEOREM OneSigningKeyHolds == Spec => []OneSigningKey
  <1>1. Init => OneSigningKey
    BY DEF Init, OneSigningKey
  <1>2. TypeInv /\ OneSigningKey /\ [Next]_vars => OneSigningKey'
    BY NextSigningKey
  <1> QED BY <1>1, <1>2, TypesHold, PTL DEF Spec

-----------------------------------------------------------------------------
(* One bootstrap token.                                                    *)

\* The sentinel goes to one process, and the token with it.
TokenInv ==
  /\ OneBootstrapToken
  /\ ~sentinel => tokens = 0
  /\ \A p \in Procs :
       /\ pc[p] = "minting" => sentinel /\ tokens = 0
       /\ pc[p] = "minted" => sentinel /\ tokens = 1 /\ printed = 0
  /\ \A p, q \in Procs :
       pc[p] \in {"minting", "minted"} /\ pc[q] \in {"minting", "minted"} => p = q

LEMMA NextToken ==
  ASSUME TypeInv, TokenInv, [Next]_vars
  PROVE  TokenInv'
  <1>0. pc \in [Procs -> Labels] /\ tokens \in Nat /\ printed \in Nat
    BY DEF TypeInv, TypeOK
  <1>1. ASSUME NEW p \in Procs, NEW l, l \notin {"minting", "minted"},
               pc' = [pc EXCEPT ![p] = l],
               UNCHANGED <<sentinel, tokens, printed>>
        PROVE  TokenInv'
    BY <1>0, <1>1 DEF TokenInv, OneBootstrapToken
  <1>2. ASSUME NEW p \in Procs,
               \/ Start(p) \/ Probe(p) \/ GenerateRootKek(p) \/ PutCustody(p) \/ Unlock(p)
        PROVE  TokenInv'
    BY <1>1, <1>2
    DEF Start, Probe, GenerateRootKek, PutCustody, InstallRootKek, Unlock, Die, GoTo, meta
  <1>3. ASSUME NEW p \in Procs,
               \/ LoadSigningKey(p) \/ PutSigningKey(p) \/ CheckToken(p) \/ SkipToken(p)
        PROVE  TokenInv'
    BY <1>1, <1>3 DEF LoadSigningKey, PutSigningKey, CheckToken, SkipToken, Die, GoTo, meta
  <1>4. ASSUME NEW p \in Procs, RewrapRootKek(p) \/ VerifyRekey(p) \/ Crash(p)
        PROVE  TokenInv'
    BY <1>1, <1>4 DEF RewrapRootKek, Reseal, VerifyRekey, Crash, Die, GoTo, meta
  <1>5. ASSUME NEW p \in Procs, ClaimToken(p)
        PROVE  TokenInv'
    <2>1. UNCHANGED <<tokens, printed>> /\ sentinel' = TRUE
      BY <1>5 DEF ClaimToken
    <2>2. CASE sentinel
      <3>1. pc' = [pc EXCEPT ![p] = "skipping"]
        BY <1>5, <2>2 DEF ClaimToken, GoTo
      <3> QED
        BY <1>0, <2>1, <2>2, <3>1 DEF TokenInv, OneBootstrapToken
    <2>3. CASE ~sentinel
      <3>1. pc' = [pc EXCEPT ![p] = "minting"]
        BY <1>5, <2>3 DEF ClaimToken, GoTo
      <3>2. \A q \in Procs : pc[q] \notin {"minting", "minted"}
        BY <2>3 DEF TokenInv
      <3> QED
        BY <1>0, <2>1, <2>3, <3>1, <3>2 DEF TokenInv, OneBootstrapToken
    <2> QED BY <2>2, <2>3
  <1>6. ASSUME NEW p \in Procs, MintToken(p)
        PROVE  TokenInv'
    <2>1. PICK l \in {"minted", "failed"} : pc' = [pc EXCEPT ![p] = l]
      BY <1>6 DEF MintToken, Die, GoTo
    <2>2. /\ tokens = 0 /\ printed = 0 /\ sentinel
          /\ \A q \in Procs : q # p => pc[q] \notin {"minting", "minted"}
      BY <1>0, <1>6 DEF MintToken, TokenInv, OneBootstrapToken
    <2>3. tokens' = 1 /\ UNCHANGED <<printed, sentinel>>
      BY <1>6, <2>2 DEF MintToken
    <2> QED
      BY <1>0, <2>1, <2>2, <2>3 DEF TokenInv, OneBootstrapToken
  <1>7. ASSUME NEW p \in Procs, PrintToken(p)
        PROVE  TokenInv'
    <2>1. pc' = [pc EXCEPT ![p] = "serving"]
      BY <1>7 DEF PrintToken, GoTo
    <2>2. /\ tokens = 1 /\ printed = 0 /\ sentinel
          /\ \A q \in Procs : q # p => pc[q] \notin {"minting", "minted"}
      BY <1>0, <1>7 DEF PrintToken, TokenInv
    <2>3. printed' = 1 /\ UNCHANGED <<tokens, sentinel>>
      BY <1>7, <2>2 DEF PrintToken, meta
    <2> QED
      BY <1>0, <2>1, <2>2, <2>3 DEF TokenInv, OneBootstrapToken
  <1>8. ASSUME (\E p \in Replicas : SealMaterial(p)) \/ Mount \/ UNCHANGED vars
        PROVE  TokenInv'
    BY <1>8 DEF SealMaterial, Mount, vars, meta, TokenInv, OneBootstrapToken
  <1> QED
    BY <1>2, <1>3, <1>4, <1>5, <1>6, <1>7, <1>8 DEF Next, Boot, Rekey

\* At most one bootstrap token is ever minted, and shown at most once.
THEOREM OneBootstrapTokenHolds == Spec => []OneBootstrapToken
  <1>1. Init => TokenInv
    BY DEF Init, TokenInv, OneBootstrapToken
  <1>2. TypeInv /\ TokenInv /\ [Next]_vars => TokenInv'
    BY NextToken
  <1>3. TokenInv => OneBootstrapToken
    BY DEF TokenInv
  <1> QED BY <1>1, <1>2, <1>3, TypesHold, PTL DEF Spec

-----------------------------------------------------------------------------
(* Both races implement Agreement.                                         *)

ChosenKek == IF Initialized THEN LoadEnvelope.kek ELSE None

ChosenKeypair == IF signing = None THEN None ELSE signing.key

\* What a step does to the Root KEK in the memory of its process, unless it is
\* the one that chooses it.
KekMove(p) ==
  \/ root_kek' = root_kek
  \/ root_kek' = [root_kek EXCEPT ![p] = None]
  \/ Initialized /\ root_kek' = [root_kek EXCEPT ![p] = LoadEnvelope.kek]

\* The same for the signing keypair.
KeypairMove(p) ==
  \/ audit_key' = audit_key
  \/ audit_key' = [audit_key EXCEPT ![p] = None]
  \/ signing # None /\ audit_key' = [audit_key EXCEPT ![p] = signing.key]

LEMMA InitAgreement ==
  Init => RootKekAgreement!Init /\ SigningKeyAgreement!Init
  <1> SUFFICES ASSUME Init
               PROVE  /\ ChosenKek \in RootKeks \cup {None}
                      /\ root_kek = [p \in Procs |-> None]
                      /\ ChosenKeypair = None
                      /\ audit_key = [p \in Procs |-> None]
    BY DEF RootKekAgreement!Init, SigningKeyAgreement!Init, ChosenKek, ChosenKeypair
  <1>1. Initialized => LoadEnvelope \in Envelope
    BY InitTypes, EnvelopeTyped DEF TypeInv
  <1>2. ChosenKek \in RootKeks \cup {None}
    BY <1>1 DEF ChosenKek
  <1> QED
    BY <1>2 DEF Init, ChosenKeypair

LEMMA KekMoves ==
  ASSUME KekInv, NEW p \in Procs, Boot(p) \/ Rekey(p) \/ Crash(p),
         ~(PutCustody(p) /\ custody = None)
  PROVE  KekMove(p)
  <1>1. CASE Start(p) \/ Probe(p) \/ GenerateRootKek(p)
    BY <1>1 DEF Start, Probe, GenerateRootKek, Die, KekMove, locals
  <1>2. CASE PutCustody(p)
    BY <1>2 DEF PutCustody, KekMove
  <1>3. CASE Unlock(p)
    <2>1. Initialized
      BY <1>3 DEF KekInv, TypeInv, LocalsTyped, Unlock
    <2> QED
      BY <1>3, <2>1 DEF Unlock, Die, KekMove
  <1>4. CASE LoadSigningKey(p) \/ PutSigningKey(p)
    BY <1>4 DEF LoadSigningKey, PutSigningKey, Die, KekMove
  <1>5. CASE \/ CheckToken(p) \/ ClaimToken(p) \/ MintToken(p) \/ PrintToken(p) \/ SkipToken(p)
    BY <1>5 DEF CheckToken, ClaimToken, MintToken, PrintToken, SkipToken, Die, KekMove, locals
  <1>6. CASE RewrapRootKek(p) \/ VerifyRekey(p) \/ Crash(p)
    BY <1>6 DEF RewrapRootKek, Reseal, VerifyRekey, Crash, Die, KekMove, locals
  <1> QED
    BY <1>1, <1>2, <1>3, <1>4, <1>5, <1>6 DEF Boot, Rekey

LEMMA KeypairMoves ==
  ASSUME NEW p \in Procs, Boot(p) \/ Rekey(p) \/ Crash(p),
         ~(PutSigningKey(p) /\ signing = None)
  PROVE  KeypairMove(p) /\ signing' = signing
  <1>1. CASE Start(p) \/ Probe(p) \/ GenerateRootKek(p)
    BY <1>1 DEF Start, Probe, GenerateRootKek, Die, KeypairMove, locals, meta
  <1>2. CASE PutCustody(p) \/ Unlock(p)
    BY <1>2 DEF PutCustody, InstallRootKek, Unlock, Die, KeypairMove, meta
  <1>3. CASE LoadSigningKey(p) \/ PutSigningKey(p)
    BY <1>3 DEF LoadSigningKey, PutSigningKey, Die, KeypairMove, meta
  <1>4. CASE \/ CheckToken(p) \/ ClaimToken(p) \/ MintToken(p) \/ PrintToken(p) \/ SkipToken(p)
    BY <1>4
    DEF CheckToken, ClaimToken, MintToken, PrintToken, SkipToken, Die, KeypairMove, locals, meta
  <1>5. CASE RewrapRootKek(p) \/ VerifyRekey(p) \/ Crash(p)
    BY <1>5 DEF RewrapRootKek, Reseal, VerifyRekey, Crash, Die, KeypairMove, locals, meta
  <1> QED
    BY <1>1, <1>2, <1>3, <1>4, <1>5 DEF Boot, Rekey

\* What no process step does: material is sealed, the secret is mounted.
LEMMA SharedStepsHide ==
  ASSUME (\E p \in Replicas : SealMaterial(p)) \/ Mount \/ UNCHANGED vars
  PROVE  UNCHANGED <<root_kek, audit_key, custody, legacy, signing>>
  BY DEF SealMaterial, Mount, vars, meta, locals

LEMMA SameEnvelope ==
  ASSUME UNCHANGED <<custody, legacy>>
  PROVE  ChosenKek' = ChosenKek
  BY DEF ChosenKek, Initialized, LoadEnvelope

\* One process chooses the Root KEK; every other step learns it or forgets it.
LEMMA NextRootKekAgreement ==
  ASSUME KekInv, [Next]_vars
  PROVE  [RootKekAgreement!Next]_(RootKekAgreement!vars)
  <1> SUFFICES \/ UNCHANGED <<ChosenKek, root_kek>>
               \/ \E p \in Procs :
                    \/ /\ ChosenKek = None
                       /\ \E k \in RootKeks : /\ ChosenKek' = k
                                              /\ root_kek' = [root_kek EXCEPT ![p] = k]
                    \/ /\ ChosenKek # None
                       /\ root_kek' = [root_kek EXCEPT ![p] = ChosenKek]
                       /\ ChosenKek' = ChosenKek
                    \/ /\ root_kek' = [root_kek EXCEPT ![p] = None]
                       /\ ChosenKek' = ChosenKek
    BY DEF RootKekAgreement!Next, RootKekAgreement!Choose, RootKekAgreement!Learn,
           RootKekAgreement!Forget, RootKekAgreement!vars, ChosenKek
  <1>1. CASE (\E p \in Replicas : SealMaterial(p)) \/ Mount \/ UNCHANGED vars
    BY <1>1, SharedStepsHide, SameEnvelope
  <1>2. ASSUME NEW p \in Procs, PutCustody(p), custody = None
        PROVE  /\ ChosenKek = None /\ own[p] \in RootKeks
               /\ ChosenKek' = own[p] /\ root_kek' = [root_kek EXCEPT ![p] = own[p]]
    <2>1. own[p] \in RootKeks /\ passphrase[p] \in Passphrases /\ ~Initialized
      BY <1>2, FirstRootKek DEF PutCustody, KekInv, TypeInv, LocalsTyped, Gone
    <2>2. /\ custody' = [kek |-> own[p], pass |-> passphrase[p]]
          /\ root_kek' = [root_kek EXCEPT ![p] = own[p]]
      BY <1>2 DEF PutCustody, InstallRootKek
    <2>3. custody' \in Envelope
      BY <2>1, <2>2
    <2>4. Initialized' /\ LoadEnvelope'.kek = own[p]
      BY <2>2, <2>3 DEF Initialized, LoadEnvelope
    <2> QED
      BY <2>1, <2>2, <2>4 DEF ChosenKek
  <1>3. ASSUME NEW p \in Procs, RewrapRootKek(p)
        PROVE  UNCHANGED <<ChosenKek, root_kek>>
    BY <1>3, ResealKeeps DEF ChosenKek, RewrapRootKek, Reseal
  <1>4. ASSUME NEW p \in Procs, Boot(p) \/ VerifyRekey(p) \/ Crash(p),
               ~(PutCustody(p) /\ custody = None)
        PROVE  KekMove(p) /\ ChosenKek' = ChosenKek
    <2>1. KekMove(p)
      BY <1>4, KekMoves DEF Rekey
    <2>2. UNCHANGED <<custody, legacy>>
      BY <1>4, OtherStepsStand DEF Boot, PutSigningKey
    <2> QED
      BY <2>1, <2>2, SameEnvelope
  <1>5. Initialized => LoadEnvelope.kek \in RootKeks
    BY EnvelopeTyped DEF KekInv, TypeInv
  <1>6. ASSUME NEW p \in Procs, KekMove(p), ChosenKek' = ChosenKek
        PROVE  \/ root_kek' = root_kek
               \/ root_kek' = [root_kek EXCEPT ![p] = None]
               \/ ChosenKek # None /\ root_kek' = [root_kek EXCEPT ![p] = ChosenKek]
    BY <1>5, <1>6 DEF KekMove, ChosenKek
  <1> QED
    BY <1>1, <1>2, <1>3, <1>4, <1>6 DEF Next, Rekey

\* One process stores the keypair; every other step learns it or forgets it.
LEMMA NextSigningKeyAgreement ==
  ASSUME TypeInv, [Next]_vars
  PROVE  [SigningKeyAgreement!Next]_(SigningKeyAgreement!vars)
  <1> SUFFICES \/ UNCHANGED <<ChosenKeypair, audit_key>>
               \/ \E p \in Procs :
                    \/ /\ ChosenKeypair = None
                       /\ \E s \in SigningKeys : /\ ChosenKeypair' = s
                                                 /\ audit_key' = [audit_key EXCEPT ![p] = s]
                    \/ /\ ChosenKeypair # None
                       /\ audit_key' = [audit_key EXCEPT ![p] = ChosenKeypair]
                       /\ ChosenKeypair' = ChosenKeypair
                    \/ /\ audit_key' = [audit_key EXCEPT ![p] = None]
                       /\ ChosenKeypair' = ChosenKeypair
    BY DEF SigningKeyAgreement!Next, SigningKeyAgreement!Choose, SigningKeyAgreement!Learn,
           SigningKeyAgreement!Forget, SigningKeyAgreement!vars, ChosenKeypair
  <1>1. CASE (\E p \in Replicas : SealMaterial(p)) \/ Mount \/ UNCHANGED vars
    BY <1>1, SharedStepsHide DEF ChosenKeypair
  <1>2. ASSUME NEW p \in Procs, PutSigningKey(p), signing = None
        PROVE  /\ ChosenKeypair = None /\ own[p] \in SigningKeys
               /\ ChosenKeypair' = own[p] /\ audit_key' = [audit_key EXCEPT ![p] = own[p]]
    <2>1. own[p] \in SigningKeys /\ root_kek[p] \in RootKeks
      BY <1>2 DEF PutSigningKey, TypeInv, LocalsTyped, Unlocked
    <2>2. /\ signing' = [kek |-> root_kek[p], key |-> own[p]]
          /\ audit_key' = [audit_key EXCEPT ![p] = own[p]]
      BY <1>2 DEF PutSigningKey
    <2>3. signing' \in SealedKeypair
      BY <2>1, <2>2
    <2> QED
      BY <1>2, <2>1, <2>2, <2>3 DEF ChosenKeypair
  <1>3. signing # None => signing.key \in SigningKeys
    BY DEF TypeInv, TypeOK
  <1>4. ASSUME NEW p \in Procs, KeypairMove(p), signing' = signing
        PROVE  /\ ChosenKeypair' = ChosenKeypair
               /\ \/ audit_key' = audit_key
                  \/ audit_key' = [audit_key EXCEPT ![p] = None]
                  \/ /\ ChosenKeypair # None
                     /\ audit_key' = [audit_key EXCEPT ![p] = ChosenKeypair]
    BY <1>3, <1>4 DEF KeypairMove, ChosenKeypair
  <1> QED
    BY <1>1, <1>2, <1>4, KeypairMoves DEF Next

\* However they race, end and start again, the processes agree on one Root KEK
\* and one signing keypair, as if each were chosen in one step.
THEOREM ImplementsAgreementHolds == Spec => ImplementsAgreement
  <1>1. KekInv /\ [Next]_vars => [RootKekAgreement!Next]_(RootKekAgreement!vars)
    BY NextRootKekAgreement
  <1>2. TypeInv /\ [Next]_vars => [SigningKeyAgreement!Next]_(SigningKeyAgreement!vars)
    BY NextSigningKeyAgreement
  <1>3. Init => RootKekAgreement!Init
    BY InitAgreement
  <1>4. Init => SigningKeyAgreement!Init
    BY InitAgreement
  <1> QED
    BY <1>1, <1>2, <1>3, <1>4, KekInvHolds, TypesHold, PTL
    DEF Spec, ImplementsAgreement, RootKekAgreement!Spec, SigningKeyAgreement!Spec

-----------------------------------------------------------------------------
(* Starts that are lost.                                                   *)

\* A run of rekey that may have resealed.
MayHaveResealed(q) == pc[q] \in {"resealed", "rotated", "failed", "killed"}

\* Until rekey reseals, every process is started with the passphrase that the
\* Root KEK is, or will be, sealed under.
OnePassphrase ==
  (\A q \in Rekeys : ~MayHaveResealed(q)) =>
    /\ Initialized => LoadEnvelope.pass = mounted
    /\ \A p \in Procs : passphrase[p] \in {None, mounted}

OnlyRekeysReseal == \A p \in Procs : pc[p] = "resealed" => p \in Rekeys

StartInv == KekInv /\ OnePassphrase /\ OnlyRekeysReseal

LEMMA InitStart == Init => StartInv
  <1> SUFFICES ASSUME Init PROVE StartInv
    OBVIOUS
  <1>1. KekInv
    BY InitKek
  <1>2. OnlyRekeysReseal
    BY DEF Init, OnlyRekeysReseal
  <1>3. \A p \in Procs : passphrase[p] = None
    BY DEF Init
  <1>4. Initialized => LoadEnvelope.pass = mounted
    BY DEF Init, Initialized, LoadEnvelope
  <1> QED
    BY <1>1, <1>2, <1>3, <1>4 DEF StartInv, OnePassphrase

\* A run of rekey never comes back from where it may have resealed.
LEMMA ResealedStays ==
  ASSUME TypeOK, [Next]_vars, NEW q \in Rekeys, MayHaveResealed(q)
  PROVE  MayHaveResealed(q)'
  <1> USE DEF MayHaveResealed
  <1>0. pc \in [Procs -> Labels] /\ q \in Procs /\ q \notin Replicas
    BY ProcsAssumption DEF TypeOK, Procs
  <1>1. ASSUME NEW p \in Procs, Start(p) \/ Probe(p) \/ GenerateRootKek(p)
        PROVE  MayHaveResealed(q)'
    BY <1>0, <1>1 DEF Start, Probe, GenerateRootKek, Die, GoTo
  <1>2. ASSUME NEW p \in Procs, PutCustody(p) \/ Unlock(p)
        PROVE  MayHaveResealed(q)'
    BY <1>0, <1>2 DEF PutCustody, InstallRootKek, Unlock, Die, GoTo
  <1>3. ASSUME NEW p \in Procs, LoadSigningKey(p) \/ PutSigningKey(p)
        PROVE  MayHaveResealed(q)'
    BY <1>0, <1>3 DEF LoadSigningKey, PutSigningKey, Die, GoTo
  <1>4. ASSUME NEW p \in Procs,
               \/ CheckToken(p) \/ ClaimToken(p) \/ MintToken(p)
               \/ PrintToken(p) \/ SkipToken(p)
        PROVE  MayHaveResealed(q)'
    BY <1>0, <1>4 DEF CheckToken, ClaimToken, MintToken, PrintToken, SkipToken, Die, GoTo
  <1>5. ASSUME NEW p \in Procs, RewrapRootKek(p) \/ VerifyRekey(p) \/ Crash(p)
        PROVE  MayHaveResealed(q)'
    BY <1>0, <1>5 DEF RewrapRootKek, Reseal, VerifyRekey, Crash, Die, GoTo
  <1>6. ASSUME (\E p \in Replicas : SealMaterial(p)) \/ Mount \/ UNCHANGED vars
        PROVE  MayHaveResealed(q)'
    BY <1>6 DEF SealMaterial, Mount, vars
  <1> QED
    BY <1>1, <1>2, <1>3, <1>4, <1>5, <1>6 DEF Next, Boot, Rekey

\* Only a run of rekey gets to where the new seal is verified.
LEMMA NextOnlyRekeysReseal ==
  ASSUME TypeOK, OnlyRekeysReseal, [Next]_vars
  PROVE  OnlyRekeysReseal'
  <1> USE DEF OnlyRekeysReseal
  <1>0. pc \in [Procs -> Labels]
    BY DEF TypeOK
  <1>1. ASSUME NEW p \in Procs, Start(p) \/ Probe(p) \/ GenerateRootKek(p)
        PROVE  OnlyRekeysReseal'
    BY <1>0, <1>1 DEF Start, Probe, GenerateRootKek, Die, GoTo
  <1>2. ASSUME NEW p \in Procs, PutCustody(p) \/ Unlock(p)
        PROVE  OnlyRekeysReseal'
    BY <1>0, <1>2 DEF PutCustody, InstallRootKek, Unlock, Die, GoTo
  <1>3. ASSUME NEW p \in Procs, LoadSigningKey(p) \/ PutSigningKey(p)
        PROVE  OnlyRekeysReseal'
    BY <1>0, <1>3 DEF LoadSigningKey, PutSigningKey, Die, GoTo
  <1>4. ASSUME NEW p \in Procs,
               \/ CheckToken(p) \/ ClaimToken(p) \/ MintToken(p)
               \/ PrintToken(p) \/ SkipToken(p)
        PROVE  OnlyRekeysReseal'
    BY <1>0, <1>4 DEF CheckToken, ClaimToken, MintToken, PrintToken, SkipToken, Die, GoTo
  <1>5. ASSUME NEW p \in Procs, RewrapRootKek(p) \/ VerifyRekey(p) \/ Crash(p)
        PROVE  OnlyRekeysReseal'
    BY <1>0, <1>5 DEF RewrapRootKek, Reseal, VerifyRekey, Crash, Die, GoTo
  <1>6. ASSUME (\E p \in Replicas : SealMaterial(p)) \/ Mount \/ UNCHANGED vars
        PROVE  OnlyRekeysReseal'
    BY <1>6 DEF SealMaterial, Mount, vars
  <1> QED
    BY <1>1, <1>2, <1>3, <1>4, <1>5, <1>6 DEF Next, Boot, Rekey

\* A step that seals nothing: a process forgets its passphrase, keeps it, or
\* is started with the mounted one.
PassphrasesStand ==
  /\ UNCHANGED <<custody, legacy, mounted>>
  /\ \A p \in Procs : passphrase'[p] \in {None, mounted, passphrase[p]}

LEMMA NextOnePassphrase ==
  ASSUME StartInv, [Next]_vars
  PROVE  OnePassphrase'
  <1> SUFFICES ASSUME \A q \in Rekeys : ~MayHaveResealed(q)'
               PROVE  /\ Initialized' => LoadEnvelope'.pass = mounted'
                      /\ \A p \in Procs : passphrase'[p] \in {None, mounted'}
    BY DEF OnePassphrase
  <1>0. /\ TypeOK /\ pc \in [Procs -> Labels]
        /\ passphrase \in [Procs -> Passphrases \cup {None}]
    BY DEF StartInv, KekInv, TypeInv, TypeOK
  <1>1. /\ Initialized => LoadEnvelope.pass = mounted
        /\ \A p \in Procs : passphrase[p] \in {None, mounted}
    BY <1>0, ResealedStays DEF StartInv, OnePassphrase
  <1>2. ASSUME PassphrasesStand
        PROVE  /\ Initialized' => LoadEnvelope'.pass = mounted'
               /\ \A p \in Procs : passphrase'[p] \in {None, mounted'}
    BY <1>1, <1>2 DEF PassphrasesStand, Initialized, LoadEnvelope
  <1>3. ASSUME NEW p \in Procs, Start(p) \/ Probe(p) \/ GenerateRootKek(p)
        PROVE  PassphrasesStand
    BY <1>0, <1>3 DEF Start, Probe, GenerateRootKek, Die, PassphrasesStand, meta, locals
  <1>4. ASSUME NEW p \in Procs, PutCustody(p), custody # None
        PROVE  PassphrasesStand
    BY <1>0, <1>4 DEF PutCustody, PassphrasesStand, meta
  <1>5. ASSUME NEW p \in Procs, PutCustody(p), custody = None
        PROVE  /\ Initialized' => LoadEnvelope'.pass = mounted'
               /\ \A q \in Procs : passphrase'[q] \in {None, mounted'}
    <2>1. own[p] \in RootKeks /\ passphrase[p] \in Passphrases
      BY <1>5 DEF StartInv, KekInv, TypeInv, LocalsTyped, PutCustody, Gone
    <2>2. custody' = [kek |-> own[p], pass |-> passphrase[p]]
          /\ passphrase' = passphrase /\ mounted' = mounted
      BY <1>5 DEF PutCustody, InstallRootKek
    <2>3. custody' \in Envelope
      BY <2>1, <2>2
    <2>4. LoadEnvelope'.pass = passphrase[p]
      BY <2>2, <2>3 DEF LoadEnvelope
    <2>5. passphrase[p] = mounted
      BY <1>1, <2>1
    <2> QED
      BY <1>1, <2>2, <2>4, <2>5
  <1>6. ASSUME NEW p \in Procs, Unlock(p) \/ LoadSigningKey(p) \/ PutSigningKey(p)
        PROVE  PassphrasesStand
    BY <1>0, <1>6 DEF Unlock, LoadSigningKey, PutSigningKey, Die, PassphrasesStand, meta
  <1>7. ASSUME NEW p \in Procs,
               \/ CheckToken(p) \/ ClaimToken(p) \/ MintToken(p)
               \/ PrintToken(p) \/ SkipToken(p) \/ VerifyRekey(p) \/ Crash(p)
        PROVE  PassphrasesStand
    BY <1>0, <1>7
    DEF CheckToken, ClaimToken, MintToken, PrintToken, SkipToken, VerifyRekey, Crash, Die,
        PassphrasesStand, meta, locals
  <1>8. ASSUME NEW p \in Procs, RewrapRootKek(p)
        PROVE  FALSE
    <2>1. p \in Rekeys /\ pc'[p] = "resealed"
      BY <1>0, <1>8 DEF RewrapRootKek, Reseal, GoTo
    <2> QED
      BY <2>1 DEF MayHaveResealed
  <1>9. ASSUME Mount PROVE FALSE
    BY <1>1, <1>9 DEF Mount
  <1>10. ASSUME (\E p \in Replicas : SealMaterial(p)) \/ UNCHANGED vars
         PROVE  PassphrasesStand
    BY <1>10 DEF SealMaterial, vars, meta, locals, PassphrasesStand
  <1> QED
    BY <1>2, <1>3, <1>4, <1>5, <1>6, <1>7, <1>8, <1>9, <1>10 DEF Next, Boot, Rekey

LEMMA NextStart == StartInv /\ [Next]_vars => StartInv'
  <1>1. StartInv /\ [Next]_vars => KekInv'
    BY NextKek DEF StartInv
  <1>2. StartInv /\ [Next]_vars => OnePassphrase'
    BY NextOnePassphrase
  <1>3. StartInv /\ [Next]_vars => OnlyRekeysReseal'
    BY NextOnlyRekeysReseal DEF StartInv, KekInv, TypeInv
  <1> QED BY <1>1, <1>2, <1>3 DEF StartInv

\* How a replica can come to fail.
LEMMA FailingStep ==
  ASSUME StartInv, [Next]_vars, NEW p \in Replicas, pc[p] # "failed", pc'[p] = "failed"
  PROVE  \/ pc[p] = "initializing" /\ Initialized
         \/ pc[p] = "unlocking" /\ \E q \in Rekeys : MayHaveResealed(q)
  <1>0. /\ pc \in [Procs -> Labels] /\ p \in Procs /\ p \in Boots /\ p \notin Rekeys
    BY ProcsAssumption DEF StartInv, KekInv, TypeInv, TypeOK, Procs, Boots
  <1>1. ASSUME NEW q \in Procs, Start(q) \/ Probe(q) \/ PutCustody(q) \/ PutSigningKey(q)
        PROVE  FALSE
    BY <1>0, <1>1 DEF Start, Probe, PutCustody, InstallRootKek, PutSigningKey, Die, GoTo
  <1>2. ASSUME NEW q \in Procs,
               \/ CheckToken(q) \/ ClaimToken(q) \/ MintToken(q)
               \/ PrintToken(q) \/ SkipToken(q) \/ Crash(q)
        PROVE  FALSE
    BY <1>0, <1>2
    DEF CheckToken, ClaimToken, MintToken, PrintToken, SkipToken, Crash, Die, GoTo
  <1>3. ASSUME NEW q \in Procs, RewrapRootKek(q) \/ VerifyRekey(q)
        PROVE  FALSE
    BY <1>0, <1>3
    DEF RewrapRootKek, Reseal, VerifyRekey, GoTo, StartInv, OnlyRekeysReseal
  <1>4. ASSUME (\E q \in Replicas : SealMaterial(q)) \/ Mount \/ UNCHANGED vars
        PROVE  FALSE
    BY <1>4 DEF SealMaterial, Mount, vars
  <1>5. ASSUME NEW q \in Procs, LoadSigningKey(q)
        PROVE  FALSE
    <2>1. root_kek[q] \in RootKeks
      BY <1>5 DEF StartInv, KekInv, TypeInv, LocalsTyped, LoadSigningKey, Unlocked
    <2>2. signing # None => signing.kek = root_kek[q]
      BY <2>1 DEF StartInv, KekInv, OneRootKek
    <2> QED
      BY <1>0, <1>5, <2>2 DEF LoadSigningKey, GoTo
  <1>6. ASSUME NEW q \in Procs, GenerateRootKek(q)
        PROVE  pc[p] = "initializing" /\ Initialized
    BY <1>0, <1>6 DEF GenerateRootKek, Die, GoTo
  <1>7. ASSUME NEW q \in Procs, Unlock(q)
        PROVE  pc[p] = "unlocking" /\ \E r \in Rekeys : MayHaveResealed(r)
    <2>1. q = p /\ pc[p] = "unlocking" /\ LoadEnvelope.pass # passphrase[p]
      BY <1>0, <1>7 DEF Unlock, Die, GoTo
    <2>2. Initialized /\ passphrase[p] \in Passphrases
      BY <1>0, <2>1 DEF StartInv, KekInv, TypeInv, LocalsTyped, Gone
    <2>3. (\A r \in Rekeys : ~MayHaveResealed(r)) => LoadEnvelope.pass = passphrase[p]
      BY <1>0, <2>2 DEF StartInv, OnePassphrase
    <2> QED
      BY <2>1, <2>3
  <1> QED
    BY <1>1, <1>2, <1>3, <1>4, <1>5, <1>6, <1>7 DEF Next, Boot, Rekey

\* A replica that does not come up lost a race that the source foresees: the
\* stored keypair always opens, and until a run of rekey the passphrase is right.
THEOREM LostStartsAreAlwaysRaces == Spec => LostStartsAreRaces
  <1>1. Spec => []StartInv
    BY InitStart, NextStart, PTL DEF Spec
  <1>2. StartInv /\ [Next]_vars =>
          [\A p \in Replicas : pc[p] # "failed" /\ pc'[p] = "failed" =>
             \/ pc[p] = "initializing" /\ Initialized
             \/ /\ pc[p] = "unlocking"
                /\ \E q \in Rekeys : pc[q] \in {"resealed", "rotated", "failed", "killed"}]_vars
    BY FailingStep DEF MayHaveResealed
  <1> QED
    BY <1>1, <1>2, PTL DEF Spec, LostStartsAreRaces
=============================================================================
