------------------------- MODULE KeyStoreRefinement -------------------------
(***************************************************************************)
(* The racing handlers of the key store implement the atomic operations of *)
(* KeyVault, for every number of keys, versions and request threads.       *)
(***************************************************************************)
EXTENDS KeyStoreProofs

USE HardLimitAssumption, MaxVersionAssumption, NoneAssumption DEF Versions

Phase(k) == IF Live(k) THEN "live" ELSE managed_keys[k].state

Phases    == [k \in KeyIds |-> Phase(k)]
Currents  == [k \in KeyIds |-> managed_keys[k].current_version]
Materials == [k \in KeyIds |-> [v \in Versions |-> Row(k, v).secret]]
Usages    == [k \in KeyIds |-> [v \in Versions |-> Row(k, v).usage_count]]

\* A version that is not there holds nothing and has used no slot.
BlankRow(k, v) ==
  Row(k, v).state = "absent" => Row(k, v).secret = None /\ Row(k, v).usage_count = 0

BlankRows == \A k \in KeyIds, v \in Versions : BlankRow(k, v)

LEMMA InitBlankRows == Init => BlankRows
  BY DEF Init, BlankRows, BlankRow, Row, NoVersionRow

\* What a reservation does to the table.
LEMMA ReservationEffect ==
  ASSUME TypeInv, ChainInv, NEW r \in Requests, Reserve(r),
         NEW k, k = req[r].key, NEW v, v = req[r].ver
  PROVE  /\ k \in KeyIds /\ Live(k) /\ v \in Versions
         /\ v <= managed_keys[k].current_version
         /\ Row(k, v).state # "absent"
         /\ Row(k, v).usage_count < HardLimit
         /\ Row(k, v)' = UsedOnceMore(Row(k, v))
         /\ \A j \in KeyIds, w \in Versions : j # k \/ w # v => Row(j, w)' = Row(j, w)
         /\ UNCHANGED managed_keys
  <1>1. /\ k \in KeyIds /\ v \in Versions /\ Row(k, v).state # "absent"
        /\ Row(k, v).usage_count < HardLimit
        /\ UNCHANGED managed_keys
        /\ key_versions' = [key_versions EXCEPT ![k] = [@ EXCEPT ![v] = UsedOnceMore(Row(k, v))]]
    BY DEF Reserve, ReserveBelow, At, HasRow, TypeInv, LocalsTyped, Row
  <1>2. Live(k) /\ ~(v > managed_keys[k].current_version)
    BY <1>1 DEF ChainInv, VersionChain
  <1>3. managed_keys[k].current_version \in Nat
    BY <1>1 DEF TypeInv, TypeOK, KeyRow
  <1>4. v <= managed_keys[k].current_version
    BY <1>1, <1>2, <1>3
  <1> QED
    BY <1>1, <1>2, <1>4 DEF TypeInv, TypeOK, Row

\* What an insertion of a key does.
LEMMA CreationEffect ==
  ASSUME TypeInv, NEW k \in KeyIds, NEW n \in Names, NEW t \in KeyTypes,
         NEW s \in Secrets, InsertKey(k, n, t, s)
  PROVE  /\ managed_keys[k].state = "unborn"
         /\ managed_keys'[k].state = "enabled" /\ managed_keys'[k].current_version = 1
         /\ \A j \in KeyIds : j # k => managed_keys'[j] = managed_keys[j]
         /\ 1 \in Versions /\ Row(k, 1)' = FreshVersionRow(s)
         /\ \A j \in KeyIds, w \in Versions : j # k \/ w # 1 => Row(j, w)' = Row(j, w)
  BY DEF InsertKey, TypeInv, TypeOK, Row

\* What a state setter does.
LEMMA StateStepEffect ==
  ASSUME TypeInv, NEW r \in Requests, StateStep(r)
  PROVE  /\ UNCHANGED key_versions
         /\ \A k \in KeyIds :
              \/ managed_keys'[k] = managed_keys[k]
              \/ /\ Live(k) /\ managed_keys'[k].state \in LiveStates
                 /\ managed_keys'[k].current_version = managed_keys[k].current_version
  <1>1. \E op : \E st \in LiveStates : \E d : SetKeyState(r, op, st, d)
    <2>1. {"disabled", "enabled", "pending_deletion"} \subseteq LiveStates
      BY DEF LiveStates
    <2> QED
      BY <2>1 DEF StateStep
  <1> PICK op : \E st \in LiveStates : \E d : SetKeyState(r, op, st, d)
    BY <1>1
  <1> PICK st \in LiveStates : \E d : SetKeyState(r, op, st, d)
    OBVIOUS
  <1> PICK d : SetKeyState(r, op, st, d)
    OBVIOUS
  <1>2. \A k \in KeyIds :
          \/ managed_keys'[k] = managed_keys[k]
          \/ Live(k) /\ managed_keys'[k] = SetState(managed_keys[k], st, d)
    BY DEF SetKeyState, TypeInv, TypeOK
  <1>3. ASSUME NEW m
        PROVE  /\ SetState(m, st, d).state = st
               /\ SetState(m, st, d).current_version = m.current_version
    BY DEF SetState
  <1>4. UNCHANGED key_versions
    BY DEF SetKeyState
  <1> QED
    BY <1>2, <1>3, <1>4

\* The steps that leave both tables as they are.
QuietStep(r) ==
  \/ \E k \in KeyIds : \E l : Started(r, k, l)
  \/ LoadVersion(r)
  \/ Seal(r)
  \/ EndStep(r)

LEMMA QuietStepEffect ==
  ASSUME NEW r \in Requests, QuietStep(r)
  PROVE  UNCHANGED <<managed_keys, key_versions>>
  BY DEF QuietStep, Started, Begin, LoadVersion, Seal, EndStep

LEMMA NextBlankRows ==
  TypeInv /\ ChainInv /\ BlankRows /\ [Next]_vars => BlankRows'
  <1> SUFFICES ASSUME TypeInv, ChainInv, BlankRows, [Next]_vars
               PROVE  BlankRows'
    OBVIOUS
  <1>1. ASSUME UNCHANGED key_versions
        PROVE  BlankRows'
    BY <1>1 DEF BlankRows, BlankRow, Row
  <1>2. ASSUME \A k \in KeyIds, v \in Versions :
                 \/ Row(k, v)' = Row(k, v)
                 \/ Row(k, v)'.state # "absent"
                 \/ Row(k, v)'.secret = None /\ Row(k, v)'.usage_count = 0
        PROVE  BlankRows'
    BY <1>2 DEF BlankRows, BlankRow
  <1>3. ASSUME NEW k \in KeyIds, NEW n \in Names, NEW t \in KeyTypes,
               NEW s \in Secrets, InsertKey(k, n, t, s)
        PROVE  BlankRows'
    <2>1. FreshVersionRow(s).state # "absent"
      BY DEF FreshVersionRow
    <2> QED
      BY <1>2, <1>3, <2>1, CreationEffect
  <1>4. ASSUME NEW r \in Requests, pc[r] = "fetched", DeleteKey(r)
        PROVE  BlankRows'
    <2> PICK k : k = req[r].key
      OBVIOUS
    <2>1. /\ \A j \in KeyIds, v \in Versions : j # k => Row(j, v)' = Row(j, v)
          /\ \A v \in Versions : Row(k, v)' = NoVersionRow
      BY <1>4, DeletionEffect
    <2>2. NoVersionRow.secret = None /\ NoVersionRow.usage_count = 0
      BY DEF NoVersionRow
    <2> QED
      BY <1>2, <2>1, <2>2
  <1>5. ASSUME NEW r \in Requests, RotateKey(r)
        PROVE  BlankRows'
    <2> PICK k, old, new : k = req[r].key /\ old = req[r].ver /\ new = old + 1
      OBVIOUS
    <2>1. /\ k \in KeyIds /\ Live(k) /\ old \in Versions
          /\ old = managed_keys[k].current_version
          /\ \A j \in KeyIds, v \in Versions :
               j # k \/ v \notin {old, new} => Row(j, v)' = Row(j, v)
          /\ Row(k, old)' = RotatedRow(Row(k, old))
          /\ \E s \in Secrets : Row(k, new)' = FreshVersionRow(s)
      BY <1>5, RotationEffect
    <2>2. Row(k, new)'.state # "absent"
      BY <2>1 DEF FreshVersionRow
    <2>3. Row(k, old).state # "absent"
      BY <2>1 DEF ChainInv, VersionChain
    <2>4. Row(k, old)'.state # "absent"
      BY <2>1, <2>3 DEF RotatedRow
    <2> QED
      BY <1>2, <2>1, <2>2, <2>4
  <1>6. ASSUME NEW r \in Requests, Reserve(r)
        PROVE  BlankRows'
    <2> PICK k, v : k = req[r].key /\ v = req[r].ver
      OBVIOUS
    <2>1. /\ Row(k, v).state # "absent"
          /\ Row(k, v)' = UsedOnceMore(Row(k, v))
          /\ \A j \in KeyIds, w \in Versions : j # k \/ w # v => Row(j, w)' = Row(j, w)
      BY <1>6, ReservationEffect
    <2>2. Row(k, v)'.state # "absent"
      BY <2>1 DEF UsedOnceMore
    <2> QED
      BY <1>2, <2>1, <2>2
  <1>7. ASSUME NEW r \in Requests, StateStep(r) \/ QuietStep(r)
        PROVE  BlankRows'
    BY <1>1, <1>7, StateStepEffect, QuietStepEffect
  <1>8. CASE Tick \/ UNCHANGED vars
    BY <1>1, <1>8 DEF Tick, vars
  <1> QED
    BY Steps, <1>3, <1>4, <1>5, <1>6, <1>7, <1>8 DEF TypeInv, QuietStep

-----------------------------------------------------------------------------
(* Steps that change neither the phase, the current version nor a material *)
(* or usage count are invisible to the vault.                              *)

Unseen == UNCHANGED <<Phases, Currents, Materials, Usages>>

LEMMA SameIsUnseen ==
  ASSUME \A k \in KeyIds :
           /\ Phase(k)' = Phase(k)
           /\ managed_keys'[k].current_version = managed_keys[k].current_version
           /\ \A v \in Versions : Row(k, v)' = Row(k, v)
  PROVE  Unseen
  BY DEF Unseen, Phases, Currents, Materials, Usages

LEMMA QuietIsUnseen ==
  ASSUME UNCHANGED <<managed_keys, key_versions>>
  PROVE  Unseen
  BY DEF Unseen, Phases, Phase, Currents, Materials, Usages, Live, Row

LEMMA StateStepUnseen ==
  ASSUME TypeInv, NEW r \in Requests, StateStep(r)
  PROVE  Unseen
  <1>1. \A k \in KeyIds :
          /\ Phase(k)' = Phase(k)
          /\ managed_keys'[k].current_version = managed_keys[k].current_version
    BY StateStepEffect DEF Phase, Live
  <1>2. \A k \in KeyIds, v \in Versions : Row(k, v)' = Row(k, v)
    BY StateStepEffect DEF Row
  <1> QED
    BY <1>1, <1>2, SameIsUnseen

LEMMA MaterialUpdate ==
  ASSUME NEW k \in KeyIds, NEW v \in Versions, NEW x,
         Row(k, v)'.secret = x,
         \A j \in KeyIds, w \in Versions :
           j # k \/ w # v => Row(j, w)'.secret = Row(j, w).secret
  PROVE  Materials' = [Materials EXCEPT ![k][v] = x]
  <1> DEFINE before(j) == [w \in Versions |-> Row(j, w).secret]
             after(j) == [w \in Versions |-> Row(j, w)'.secret]
  <1>1. \A j \in KeyIds : j # k => after(j) = before(j)
    OBVIOUS
  <1>2. after(k) = [before(k) EXCEPT ![v] = x]
    OBVIOUS
  <1>3. /\ Materials = [j \in KeyIds |-> before(j)]
        /\ Materials' = [j \in KeyIds |-> after(j)]
    BY DEF Materials
  <1> HIDE DEF before, after
  <1> QED
    BY <1>1, <1>2, <1>3

LEMMA UsageUpdate ==
  ASSUME NEW k \in KeyIds, NEW v \in Versions, NEW x,
         Row(k, v)'.usage_count = x,
         \A j \in KeyIds, w \in Versions :
           j # k \/ w # v => Row(j, w)'.usage_count = Row(j, w).usage_count
  PROVE  Usages' = [Usages EXCEPT ![k][v] = x]
  <1> DEFINE before(j) == [w \in Versions |-> Row(j, w).usage_count]
             after(j) == [w \in Versions |-> Row(j, w)'.usage_count]
  <1>1. \A j \in KeyIds : j # k => after(j) = before(j)
    OBVIOUS
  <1>2. after(k) = [before(k) EXCEPT ![v] = x]
    OBVIOUS
  <1>3. /\ Usages = [j \in KeyIds |-> before(j)]
        /\ Usages' = [j \in KeyIds |-> after(j)]
    BY DEF Usages
  <1> HIDE DEF before, after
  <1> QED
    BY <1>1, <1>2, <1>3

VaultCreate(k) ==
  /\ Phases[k] = "unborn"
  /\ Phases' = [Phases EXCEPT ![k] = "live"]
  /\ Currents' = [Currents EXCEPT ![k] = 1]
  /\ \E s \in Secrets : Materials' = [Materials EXCEPT ![k][1] = s]
  /\ UNCHANGED Usages

VaultRotate(k) ==
  /\ Phases[k] = "live"
  /\ Currents[k] + 1 \in Versions
  /\ Currents' = [Currents EXCEPT ![k] = Currents[k] + 1]
  /\ \E s \in Secrets : Materials' = [Materials EXCEPT ![k][Currents[k] + 1] = s]
  /\ UNCHANGED <<Phases, Usages>>

VaultTakeSlot(k, v) ==
  /\ Phases[k] = "live"
  /\ v \in 1..Currents[k]
  /\ Usages[k][v] < HardLimit
  /\ Usages' = [Usages EXCEPT ![k][v] = @ + 1]
  /\ UNCHANGED <<Phases, Currents, Materials>>

VaultDestroy(k) ==
  /\ Phases[k] = "live"
  /\ Phases' = [Phases EXCEPT ![k] = "destroyed"]
  /\ Currents' = [Currents EXCEPT ![k] = 0]
  /\ Materials' = [Materials EXCEPT ![k] = [v \in Versions |-> None]]
  /\ Usages' = [Usages EXCEPT ![k] = [v \in Versions |-> 0]]

LEMMA InsertKeyIsCreate ==
  ASSUME TypeInv, ChainInv, BlankRows, NEW k \in KeyIds, NEW n \in Names,
         NEW t \in KeyTypes, NEW s \in Secrets, InsertKey(k, n, t, s)
  PROVE  VaultCreate(k)
  <1>1. /\ managed_keys[k].state = "unborn"
        /\ managed_keys'[k].state = "enabled" /\ managed_keys'[k].current_version = 1
        /\ \A j \in KeyIds : j # k => managed_keys'[j] = managed_keys[j]
        /\ 1 \in Versions /\ Row(k, 1)' = FreshVersionRow(s)
        /\ \A j \in KeyIds, w \in Versions : j # k \/ w # 1 => Row(j, w)' = Row(j, w)
    BY CreationEffect
  <1>2. Row(k, 1)'.secret = s /\ Row(k, 1)'.usage_count = 0
    BY <1>1 DEF FreshVersionRow
  <1>3. Row(k, 1).usage_count = 0
    <2>1. ~Live(k)
      BY <1>1 DEF Live, LiveStates
    <2> QED
      BY <1>1, <2>1 DEF ChainInv, VersionChain, BlankRows, BlankRow
  <1>4. /\ Phase(k) = "unborn" /\ Phase(k)' = "live"
        /\ \A j \in KeyIds : j # k => Phase(j)' = Phase(j)
    BY <1>1 DEF Phase, Live, LiveStates
  <1>5. Materials' = [Materials EXCEPT ![k][1] = s]
    BY <1>1, <1>2, MaterialUpdate
  <1>6. Usages' = Usages
    BY <1>1, <1>2, <1>3 DEF Usages
  <1> QED
    BY <1>1, <1>4, <1>5, <1>6 DEF VaultCreate, Phases, Currents

LEMMA RotateKeyIsRotate ==
  ASSUME TypeInv, ChainInv, BlankRows, NEW r \in Requests, RotateKey(r)
  PROVE  \E k \in KeyIds : VaultRotate(k)
  <1> PICK k, old, new : k = req[r].key /\ old = req[r].ver /\ new = old + 1
    OBVIOUS
  <1>1. /\ k \in KeyIds /\ Live(k) /\ old \in Versions /\ new \in Versions
        /\ old = managed_keys[k].current_version
        /\ Row(k, new).state = "absent"
        /\ \A j \in KeyIds : j # k => managed_keys'[j] = managed_keys[j]
        /\ managed_keys'[k] = SetCurrent(managed_keys[k], new)
        /\ \A j \in KeyIds, v \in Versions :
             j # k \/ v \notin {old, new} => Row(j, v)' = Row(j, v)
        /\ Row(k, old)' = RotatedRow(Row(k, old))
        /\ \E s \in Secrets : Row(k, new)' = FreshVersionRow(s)
    BY RotationEffect
  <1> PICK s \in Secrets : Row(k, new)' = FreshVersionRow(s)
    BY <1>1
  <1>2. /\ managed_keys'[k].state = managed_keys[k].state
        /\ managed_keys'[k].current_version = new
    <2> PICK m : m = managed_keys[k]
      OBVIOUS
    <2>1. managed_keys'[k] = SetCurrent(m, new)
      BY <1>1
    <2> QED
      BY <2>1 DEF SetCurrent
  <1>3. /\ Row(k, old)'.secret = Row(k, old).secret
        /\ Row(k, old)'.usage_count = Row(k, old).usage_count
    BY <1>1 DEF RotatedRow
  <1>4. Row(k, new)'.secret = s /\ Row(k, new)'.usage_count = 0
    BY DEF FreshVersionRow
  <1>5. Row(k, new).usage_count = 0
    BY <1>1 DEF BlankRows, BlankRow
  <1>6. Phase(k) = "live" /\ \A j \in KeyIds : Phase(j)' = Phase(j)
    BY <1>1, <1>2 DEF Phase, Live
  <1>7. Currents[k] = old /\ Currents[k] + 1 = new
    BY <1>1 DEF Currents
  <1>8. Materials' = [Materials EXCEPT ![k][new] = s]
    <2>1. \A j \in KeyIds, w \in Versions :
            j # k \/ w # new => Row(j, w)'.secret = Row(j, w).secret
      BY <1>1, <1>3
    <2> QED
      BY <1>1, <1>4, <2>1, MaterialUpdate
  <1>9. Usages' = Usages
    BY <1>1, <1>3, <1>4, <1>5 DEF Usages
  <1>10. Currents' = [Currents EXCEPT ![k] = new] /\ Phases' = Phases /\ Phases[k] = "live"
    BY <1>1, <1>2, <1>6 DEF Currents, Phases
  <1> QED
    BY <1>1, <1>7, <1>8, <1>9, <1>10 DEF VaultRotate

LEMMA ReserveIsTakeSlot ==
  ASSUME TypeInv, ChainInv, NEW r \in Requests, Reserve(r)
  PROVE  \E k \in KeyIds, v \in Versions : VaultTakeSlot(k, v)
  <1> PICK k, v : k = req[r].key /\ v = req[r].ver
    OBVIOUS
  <1>1. /\ k \in KeyIds /\ Live(k) /\ v \in Versions
        /\ v <= managed_keys[k].current_version
        /\ Row(k, v).usage_count < HardLimit
        /\ Row(k, v)' = UsedOnceMore(Row(k, v))
        /\ \A j \in KeyIds, w \in Versions : j # k \/ w # v => Row(j, w)' = Row(j, w)
        /\ UNCHANGED managed_keys
    BY ReservationEffect
  <1>2. /\ Row(k, v)'.secret = Row(k, v).secret
        /\ Row(k, v)'.usage_count = Row(k, v).usage_count + 1
    BY <1>1 DEF UsedOnceMore
  <1>3. UNCHANGED <<Phases, Currents>> /\ Phases[k] = "live"
        /\ Currents[k] = managed_keys[k].current_version
    BY <1>1 DEF Phases, Phase, Live, Currents
  <1>4. Materials' = Materials
    BY <1>1, <1>2 DEF Materials
  <1>5. Usages[k][v] = Row(k, v).usage_count
    BY <1>1 DEF Usages
  <1>6. Usages' = [Usages EXCEPT ![k][v] = Row(k, v).usage_count + 1]
    BY <1>1, <1>2, UsageUpdate
  <1>7. v \in 1..Currents[k]
    <2>1. managed_keys[k].current_version \in Nat
      BY <1>1 DEF TypeInv, TypeOK, KeyRow
    <2> QED
      BY <1>1, <1>3, <2>1
  <1> QED
    BY <1>1, <1>3, <1>4, <1>5, <1>6, <1>7 DEF VaultTakeSlot

LEMMA DeleteKeyIsDestroy ==
  ASSUME TypeInv, NEW r \in Requests, pc[r] = "fetched", DeleteKey(r)
  PROVE  \E k \in KeyIds : VaultDestroy(k)
  <1> PICK k : k = req[r].key
    OBVIOUS
  <1>1. /\ k \in KeyIds /\ Live(k)
        /\ \A j \in KeyIds : j # k => managed_keys'[j] = managed_keys[j]
        /\ managed_keys'[k] = NoKeyRow("destroyed")
        /\ \A j \in KeyIds, v \in Versions : j # k => Row(j, v)' = Row(j, v)
        /\ \A v \in Versions : Row(k, v)' = NoVersionRow
    BY DeletionEffect
  <1>2. /\ managed_keys'[k].state = "destroyed"
        /\ managed_keys'[k].current_version = 0
    BY <1>1 DEF NoKeyRow
  <1>3. \A v \in Versions : Row(k, v)'.secret = None /\ Row(k, v)'.usage_count = 0
    BY <1>1 DEF NoVersionRow
  <1>4. /\ Phase(k) = "live" /\ Phase(k)' = "destroyed"
        /\ \A j \in KeyIds : j # k => Phase(j)' = Phase(j)
    BY <1>1, <1>2 DEF Phase, Live, LiveStates
  <1>5. Materials' = [Materials EXCEPT ![k] = [v \in Versions |-> None]]
    BY <1>1, <1>3 DEF Materials
  <1>6. Usages' = [Usages EXCEPT ![k] = [v \in Versions |-> 0]]
    BY <1>1, <1>3 DEF Usages
  <1> QED
    BY <1>1, <1>2, <1>4, <1>5, <1>6 DEF VaultDestroy, Phases, Currents

-----------------------------------------------------------------------------
(* The refinement.                                                         *)

LEMMA InitVault == Init => Vault!Init
  <1> SUFFICES ASSUME Init
               PROVE  /\ Phases = [k \in KeyIds |-> "unborn"]
                      /\ Currents = [k \in KeyIds |-> 0]
                      /\ Materials = [k \in KeyIds |-> [v \in Versions |-> None]]
                      /\ Usages = [k \in KeyIds |-> [v \in Versions |-> 0]]
    BY DEF Vault!Init, Phases, Phase, Currents, Materials, Usages
  <1>1. \A k \in KeyIds : /\ managed_keys[k] = NoKeyRow("unborn")
                          /\ \A v \in Versions : Row(k, v) = NoVersionRow
    BY DEF Init, Row
  <1>2. /\ NoKeyRow("unborn").state = "unborn" /\ NoKeyRow("unborn").current_version = 0
        /\ NoVersionRow.secret = None /\ NoVersionRow.usage_count = 0
    BY DEF NoKeyRow, NoVersionRow
  <1>3. \A k \in KeyIds : Phase(k) = "unborn"
    BY <1>1, <1>2 DEF Phase, Live, LiveStates
  <1> QED
    BY <1>1, <1>2, <1>3 DEF Phases, Currents, Materials, Usages

\* Every step of a handler is one vault operation, or none.
LEMMA StepIsVaultStep ==
  ASSUME TypeInv, ChainInv, BlankRows, [Next]_vars
  PROVE  \/ Unseen
         \/ \E k \in KeyIds :
              \/ VaultCreate(k)
              \/ VaultRotate(k)
              \/ \E v \in Versions : VaultTakeSlot(k, v)
              \/ VaultDestroy(k)
  <1>1. CASE Tick \/ UNCHANGED vars
    BY <1>1, QuietIsUnseen DEF Tick, vars
  <1>2. ASSUME NEW r \in Requests, QuietStep(r)
        PROVE  Unseen
    BY <1>2, QuietStepEffect, QuietIsUnseen
  <1>3. ASSUME NEW r \in Requests, StateStep(r)
        PROVE  Unseen
    BY <1>3, StateStepUnseen
  <1> QED
    BY Steps, <1>1, <1>2, <1>3, InsertKeyIsCreate, RotateKeyIsRotate,
       ReserveIsTakeSlot, DeleteKeyIsDestroy
    DEF TypeInv, QuietStep

LEMMA NextVault ==
  ASSUME TypeInv, ChainInv, BlankRows, [Next]_vars
  PROVE  [Vault!Next]_(Vault!vars)
  <1>1. CASE Unseen
    BY <1>1 DEF Unseen, Vault!vars, Phases, Phase, Currents, Materials, Usages
  <1>2. ASSUME NEW k \in KeyIds, VaultCreate(k)
        PROVE  Vault!Create(k)
    BY <1>2 DEF VaultCreate, Vault!Create, Phases, Phase, Currents, Materials, Usages
  <1>3. ASSUME NEW k \in KeyIds, VaultRotate(k)
        PROVE  Vault!Rotate(k)
    BY <1>3 DEF VaultRotate, Vault!Rotate, Phases, Phase, Currents, Materials, Usages
  <1>4. ASSUME NEW k \in KeyIds, NEW v \in Versions, VaultTakeSlot(k, v)
        PROVE  Vault!TakeSlot(k, v)
    BY <1>4 DEF VaultTakeSlot, Vault!TakeSlot, Phases, Phase, Currents, Materials, Usages
  <1>5. ASSUME NEW k \in KeyIds, VaultDestroy(k)
        PROVE  Vault!Destroy(k)
    BY <1>5 DEF VaultDestroy, Vault!Destroy, Phases, Phase, Currents, Materials, Usages
  <1> QED
    BY StepIsVaultStep, <1>1, <1>2, <1>3, <1>4, <1>5 DEF Vault!Next

\* Whatever requests interleave, the tables go through a sequence of atomic
\* creations, rotations, slots taken and destructions.
THEOREM ImplementsVaultHolds == Spec => ImplementsVault
  <1>1. Spec => [](TypeInv /\ ChainInv /\ BlankRows)
    BY InitTypeInv, NextTypeInv, InitChainInv, NextChainInv,
       InitBlankRows, NextBlankRows, PTL DEF Spec
  <1>2. TypeInv /\ ChainInv /\ BlankRows /\ [Next]_vars => [Vault!Next]_(Vault!vars)
    BY NextVault
  <1> QED
    BY <1>1, <1>2, InitVault, PTL DEF Spec, ImplementsVault, Vault!Spec
=============================================================================
