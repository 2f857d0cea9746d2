--------------------------- MODULE KeyStoreProofs ---------------------------
(***************************************************************************)
(* Type correctness and the safety of key material, for every number of    *)
(* keys, versions, request threads and encryption slots.                   *)
(***************************************************************************)
EXTENDS KeyStore, TLAPS

USE HardLimitAssumption, MaxVersionAssumption, MaxTimeAssumption,
    WindowsAssumption, NoneAssumption DEF Versions

\* What a Start action leaves behind, whichever it is: a request on a live key
\* whose locals are typed, whose version is the current one if it will write
\* under it, and whose artefact is one that was handed out for that key.
Started(r, k, l) ==
  /\ Begin(r, k, l)
  /\ l \in Local
  /\ l.key = k
  /\ l.slot = 0
  /\ l.secret = None
  /\ l.op = "schedule" => l.due \in Nat
  /\ l.op \in SealOps \cup {"rotate"} => l.ver = managed_keys[k].current_version
  /\ l.op \in OpenOps => l.art \in issued /\ l.art.key = k

LEMMA CallStarts ==
  ASSUME NEW r \in Requests, NEW op \in AllOps, NEW k \in KeyIds, NEW v \in Nat,
         NEW due \in Nat \cup {None}, NEW a \in Artefact \cup {None},
         Begin(r, k, Call(op, k, v, due, a)),
         op = "schedule" => due \in Nat,
         op \in SealOps \cup {"rotate"} => v = managed_keys[k].current_version,
         op \in OpenOps => a \in issued /\ a.key = k
  PROVE  \E l : Started(r, k, l)
  <1> DEFINE l == Call(op, k, v, due, a)
  <1>1. l \in Local
    BY DEF Call, Local
  <1>2. /\ l.op = op /\ l.key = k /\ l.ver = v /\ l.due = due /\ l.art = a
        /\ l.slot = 0 /\ l.secret = None
    BY DEF Call
  <1> HIDE DEF l
  <1>3. Started(r, k, l)
    BY <1>1, <1>2 DEF Started, l
  <1> QED BY <1>3

\* Every lifecycle request starts as Started says.
LEMMA LifecycleStarts ==
  ASSUME TypeOK, NEW r \in Requests, NEW k \in KeyIds, StartLifecycle(r, k)
  PROVE  \E l : Started(r, k, l)
  <1>0. managed_keys[k] \in KeyRow /\ now \in Nat
    BY DEF TypeOK
  <1>1. ASSUME NEW op \in StateOps \cup {"force_destroy"}, op # "schedule",
               Begin(r, k, PlainCall(op, k))
        PROVE  \E l : Started(r, k, l)
    <2>1. op \in AllOps /\ op \notin SealOps \cup OpenOps \cup {"rotate"}
      BY DEF AllOps, StateOps, OtherOps, SealOps, OpenOps
    <2> QED
      BY <1>1, <2>1, CallStarts DEF PlainCall
  <1>2. CASE \/ StartDisable(r, k) \/ StartEnable(r, k)
             \/ StartCancel(r, k) \/ StartForceDestroy(r, k)
    BY <1>1, <1>2
    DEF StartDisable, StartEnable, StartCancel, StartForceDestroy, StateOps
  <1>3. CASE StartSchedule(r, k)
    <2>1. "schedule" \in AllOps /\ "schedule" \notin SealOps \cup OpenOps \cup {"rotate"}
      BY DEF AllOps, StateOps, SealOps, OpenOps
    <2>2. PICK w \in Windows : Begin(r, k, Call("schedule", k, 0, now + w, None))
      BY <1>3 DEF StartSchedule
    <2>3. now + w \in Nat
      BY <1>0
    <2> QED
      BY <2>1, <2>2, <2>3, CallStarts
  <1>4. CASE StartDestroy(r, k)
    <2>1. "destroy" \in AllOps /\ "destroy" \notin SealOps \cup OpenOps \cup {"rotate"}
      BY DEF AllOps, OtherOps, SealOps, OpenOps
    <2>2. managed_keys[k].deletion_at \in Nat \cup {None}
      BY <1>0 DEF KeyRow
    <2>3. "destroy" # "schedule"
      OBVIOUS
    <2> QED
      BY <1>4, <2>1, <2>2, <2>3, CallStarts DEF StartDestroy
  <1>5. CASE StartRotate(r, k)
    <2>1. "rotate" \in AllOps /\ "rotate" \notin OpenOps /\ "rotate" # "schedule"
      BY DEF AllOps, OtherOps, OpenOps
    <2>2. managed_keys[k].current_version \in Nat
      BY <1>0 DEF KeyRow
    <2> QED
      BY <1>5, <2>1, <2>2, CallStarts DEF StartRotate, CallOnCurrent
  <1> QED
    BY <1>2, <1>3, <1>4, <1>5 DEF StartLifecycle

\* So does every request that seals or opens.
LEMMA CryptoStarts ==
  ASSUME TypeOK, NEW r \in Requests, StartCrypto(r)
  PROVE  \E k \in KeyIds : \E l : Started(r, k, l)
  <1>1. ASSUME NEW k \in KeyIds, NEW op \in SealOps, NEW t, StartSeal(r, k, op, t)
        PROVE  \E l : Started(r, k, l)
    <2>1. op \in AllOps /\ op \notin OpenOps /\ op # "schedule"
      BY DEF AllOps, SealOps, OpenOps
    <2>2. managed_keys[k].current_version \in Nat
      BY DEF TypeOK, KeyRow
    <2> QED
      BY <1>1, <2>1, <2>2, CallStarts DEF StartSeal, CallOnCurrent
  <1>2. ASSUME NEW a \in issued, NEW op \in OpenOps, NEW v \in Nat,
               Begin(r, a.key, Call(op, a.key, v, None, a))
        PROVE  \E k \in KeyIds : \E l : Started(r, k, l)
    <2>1. op \in AllOps /\ op \notin SealOps \cup {"rotate"} /\ op # "schedule"
      BY DEF AllOps, SealOps, OpenOps
    <2>2. a \in Artefact /\ a.key \in KeyIds
      BY DEF TypeOK, Artefact
    <2> QED
      BY <1>2, <2>1, <2>2, CallStarts
  <1>3. ASSUME NEW a \in issued
        PROVE  a.ver \in Nat /\ managed_keys[a.key].current_version \in Nat
    BY DEF TypeOK, Artefact, KeyRow
  <1>4. ASSUME NEW k \in KeyIds, StartEncrypt(r, k) \/ StartSign(r, k) \/ StartWrap(r, k)
        PROVE  \E l : Started(r, k, l)
    BY <1>1, <1>4 DEF StartEncrypt, StartSign, StartWrap, SealOps
  <1>5. ASSUME NEW a \in issued, StartDecrypt(r, a)
        PROVE  \E k \in KeyIds : \E l : Started(r, k, l)
    <2>1. "decrypt" \in OpenOps
      BY DEF OpenOps
    <2> QED
      BY <1>2, <1>3, <1>5, <2>1 DEF StartDecrypt
  <1>6. ASSUME NEW a \in issued, NEW op \in OpenOps, NEW t, StartOpen(r, a, op, t)
        PROVE  \E k \in KeyIds : \E l : Started(r, k, l)
    <2>1. PICK v \in {a.ver, managed_keys[a.key].current_version} :
            Begin(r, a.key, Call(op, a.key, v, None, a))
      BY <1>6 DEF StartOpen
    <2>2. v \in Nat
      BY <1>3
    <2> QED
      BY <1>2, <2>1, <2>2
  <1>7. ASSUME NEW a \in issued, StartVerify(r, a) \/ StartUnwrap(r, a)
        PROVE  \E k \in KeyIds : \E l : Started(r, k, l)
    BY <1>6, <1>7 DEF StartVerify, StartUnwrap, OpenOps
  <1> QED
    BY <1>4, <1>5, <1>7 DEF StartCrypto

-----------------------------------------------------------------------------
(* The forms a step can take, whichever operation it belongs to.           *)

\* A state setter and what it may write.
StateStep(r) ==
  \/ \E op \in {"disable", "cancel"} : SetKeyState(r, op, "disabled", None)
  \/ SetKeyState(r, "enable", "enabled", None)
  \/ SetKeyState(r, "schedule", "pending_deletion", req[r].due)

\* A request that ends without touching a table.
EndStep(r) ==
  /\ Finish(r)
  /\ UNCHANGED <<now, managed_keys, key_versions, issued>>

LEMMA Steps ==
  ASSUME TypeOK, Next
  PROVE  \/ Tick
         \/ \E k \in KeyIds, n \in Names, t \in KeyTypes, s \in Secrets :
              InsertKey(k, n, t, s)
         \/ \E r \in Requests :
              \/ \E k \in KeyIds : \E l : Started(r, k, l)
              \/ StateStep(r)
              \/ pc[r] = "fetched" /\ DeleteKey(r)
              \/ RotateKey(r)
              \/ LoadVersion(r)
              \/ Reserve(r)
              \/ Seal(r)
              \/ EndStep(r)
  <1>1. CASE Tick
    BY <1>1
  <1>2. CASE Create
    BY <1>2 DEF Create, CreateKey, ImportKey, FreshSecrets
  <1>3. ASSUME NEW r \in Requests, NEW k \in KeyIds, StartLifecycle(r, k)
        PROVE  \E l : Started(r, k, l)
    BY <1>3, LifecycleStarts
  <1>4. ASSUME NEW r \in Requests, StartCrypto(r)
        PROVE  \E k \in KeyIds : \E l : Started(r, k, l)
    BY <1>4, CryptoStarts
  <1>5. ASSUME NEW r \in Requests, Transact(r)
        PROVE  \/ StateStep(r)
               \/ pc[r] = "fetched" /\ DeleteKey(r)
               \/ RotateKey(r) \/ LoadVersion(r) \/ Reserve(r) \/ Seal(r)
               \/ EndStep(r)
    BY <1>5
    DEF Transact, StateStep, DisableKey, EnableKey, ScheduleDeletion,
        CancelDeletion, DestroyKey, ForceDestroyKey, At, Open, EndStep
  <1>6. ASSUME NEW r \in Requests, Abandon(r)
        PROVE  EndStep(r)
    BY <1>6 DEF Abandon, EndStep
  <1> QED
    BY <1>1, <1>2, <1>3, <1>4, <1>5, <1>6 DEF Next

-----------------------------------------------------------------------------
(* Types.  A loaded secret is material, not NULL, because a version row    *)
(* that exists always holds some: without it the artefact sealed with it   *)
(* would not be typed, so the two are proved together.                     *)

RowsHoldMaterial ==
  \A k \in KeyIds, v \in Versions :
    Row(k, v).state # "absent" => Row(k, v).secret \in Secrets

LocalsTyped ==
  \A r \in Requests : pc[r] # "idle" =>
    /\ req[r].key \in KeyIds
    /\ pc[r] # "fetched" => req[r].secret \in Secrets

TypeInv == TypeOK /\ RowsHoldMaterial /\ LocalsTyped

LEMMA InitTypeInv == Init => TypeInv
  BY DEF Init, TypeInv, TypeOK, RowsHoldMaterial, LocalsTyped, Row, KeyRow,
         NoKeyRow, VersionRow, NoVersionRow, Local, NoLocal

LEMMA NoLocalTyped == NoLocal \in Local
  BY DEF NoLocal, Local

\* Ending a request keeps the locals typed.
LEMMA FinishTyped ==
  ASSUME TypeInv, NEW r \in Requests, Finish(r)
  PROVE  /\ pc' \in [Requests -> {"idle", "fetched", "loaded", "reserved"}]
         /\ req' \in [Requests -> Local]
         /\ LocalsTyped'
  BY NoLocalTyped DEF TypeInv, TypeOK, Finish, LocalsTyped

LEMMA NextTypeInv == TypeInv /\ [Next]_vars => TypeInv'
  <1> SUFFICES ASSUME TypeInv, [Next]_vars
               PROVE  TypeInv'
    OBVIOUS
  <1> USE DEF TypeInv
  <1>1. CASE Tick
    BY <1>1 DEF Tick, TypeOK, RowsHoldMaterial, LocalsTyped, Row
  <1>2. ASSUME NEW k \in KeyIds, NEW n \in Names, NEW t \in KeyTypes,
               NEW s \in Secrets, InsertKey(k, n, t, s)
        PROVE  TypeInv'
    <2>1. managed_keys' \in [KeyIds -> KeyRow]
      BY <1>2 DEF InsertKey, TypeOK, KeyRow, LiveStates
    <2>2. FreshVersionRow(s) \in VersionRow
      BY DEF FreshVersionRow, VersionRow
    <2>3. key_versions' \in [KeyIds -> [Versions -> VersionRow]]
      BY <1>2, <2>2 DEF InsertKey, TypeOK
    <2>4. RowsHoldMaterial'
      BY <1>2, <2>2 DEF InsertKey, TypeOK, RowsHoldMaterial, Row, FreshVersionRow
    <2> QED
      BY <1>2, <2>1, <2>3, <2>4 DEF InsertKey, TypeOK, LocalsTyped
  <1>3. ASSUME NEW r \in Requests, NEW k \in KeyIds, NEW l, Started(r, k, l)
        PROVE  TypeInv'
    BY <1>3 DEF Started, Begin, TypeOK, RowsHoldMaterial, LocalsTyped, Row
  <1>4. ASSUME NEW r \in Requests, StateStep(r)
        PROVE  TypeInv'
    <2>1. req[r].due \in Nat \cup {None}
      BY DEF TypeOK, Local
    <2>2. \E op : \E st \in LiveStates, d \in Nat \cup {None} : SetKeyState(r, op, st, d)
      <3>1. {"disabled", "enabled", "pending_deletion"} \subseteq LiveStates
        BY DEF LiveStates
      <3> QED
        BY <1>4, <2>1, <3>1 DEF StateStep
    <2> PICK op : \E st \in LiveStates, d \in Nat \cup {None} : SetKeyState(r, op, st, d)
      BY <2>2
    <2> PICK st \in LiveStates, d \in Nat \cup {None} : SetKeyState(r, op, st, d)
      OBVIOUS
    <2>3. managed_keys' \in [KeyIds -> KeyRow]
      <3>1. \A k \in KeyIds : SetState(managed_keys[k], st, d) \in KeyRow
        BY DEF SetState, KeyRow, TypeOK
      <3> QED
        BY <2>2, <3>1 DEF SetKeyState, TypeOK
    <2> QED
      BY <2>2, <2>3, FinishTyped
      DEF SetKeyState, TypeOK, RowsHoldMaterial, Row
  <1>5. ASSUME NEW r \in Requests, pc[r] = "fetched", DeleteKey(r)
        PROVE  TypeInv'
    <2>1. req[r].key \in KeyIds
      BY <1>5 DEF LocalsTyped
    <2>2. NoKeyRow("destroyed") \in KeyRow /\ NoVersionRow \in VersionRow
      BY DEF NoKeyRow, KeyRow, NoVersionRow, VersionRow
    <2>3. /\ managed_keys' \in [KeyIds -> KeyRow]
          /\ key_versions' \in [KeyIds -> [Versions -> VersionRow]]
      BY <1>5, <2>1, <2>2 DEF DeleteKey, TypeOK
    <2>4. RowsHoldMaterial'
      BY <1>5, <2>1 DEF DeleteKey, TypeOK, RowsHoldMaterial, Row, NoVersionRow
    <2> QED
      BY <1>5, <2>3, <2>4, FinishTyped DEF DeleteKey, TypeOK
  <1>6. ASSUME NEW r \in Requests, RotateKey(r)
        PROVE  TypeInv'
    <2> DEFINE k == req[r].key
               old == req[r].ver
               new == req[r].ver + 1
    <2>1. k \in KeyIds
      BY <1>6 DEF RotateKey, At, LocalsTyped
    <2>2. PICK s \in Secrets :
            key_versions' = [key_versions EXCEPT
              ![k] = [@ EXCEPT ![old] = RotatedRow(Row(k, old)), ![new] = FreshVersionRow(s)]]
      <3>1. FreshSecrets \subseteq Secrets
        BY DEF FreshSecrets
      <3> QED
        BY <1>6, <3>1 DEF RotateKey, WriteRotation
    <2>3. FreshVersionRow(s) \in VersionRow /\ FreshVersionRow(s).secret \in Secrets
      BY DEF FreshVersionRow, VersionRow
    <2>4. ASSUME old \in Versions
          PROVE  RotatedRow(Row(k, old)) \in VersionRow
      BY <2>1, <2>4 DEF RotatedRow, Row, VersionRow, TypeOK
    <2>5. key_versions' \in [KeyIds -> [Versions -> VersionRow]]
      BY <2>1, <2>2, <2>3, <2>4 DEF TypeOK
    <2>6. managed_keys' \in [KeyIds -> KeyRow]
      <3>1. new \in Nat
        BY DEF TypeOK, Local
      <3>2. SetCurrent(managed_keys[k], new) \in KeyRow
        BY <2>1, <3>1 DEF SetCurrent, KeyRow, TypeOK
      <3> QED
        BY <1>6, <2>1, <3>2 DEF RotateKey, WriteRotation, TypeOK
    <2>7. RowsHoldMaterial'
      <3> SUFFICES ASSUME NEW j \in KeyIds, NEW v \in Versions,
                          Row(j, v).state' # "absent"
                   PROVE  Row(j, v).secret' \in Secrets
        BY DEF RowsHoldMaterial
      <3>1. new \in Versions
        BY <1>6 DEF RotateKey, WriteRotation
      <3>2. CASE j = k /\ v = new
        BY <2>1, <2>2, <2>3, <3>1, <3>2 DEF TypeOK, Row
      <3>3. CASE j = k /\ v = old /\ v # new
        <4>1. Row(j, v)' = RotatedRow(Row(k, old))
          BY <2>1, <2>2, <3>3 DEF TypeOK, Row
        <4> QED
          BY <2>1, <3>3, <4>1 DEF RotatedRow, RowsHoldMaterial
      <3>4. CASE ~(j = k /\ v \in {old, new})
        BY <2>1, <2>2, <3>4 DEF TypeOK, Row, RowsHoldMaterial
      <3> QED
        BY <3>2, <3>3, <3>4
    <2>8. Finish(r) /\ UNCHANGED <<now, issued>>
      BY <1>6 DEF RotateKey, WriteRotation
    <2> QED
      BY <2>5, <2>6, <2>7, <2>8, FinishTyped DEF TypeOK
  <1>7. ASSUME NEW r \in Requests, LoadVersion(r)
        PROVE  TypeInv'
    <2> DEFINE k == req[r].key
               v == req[r].ver
    <2>1. k \in KeyIds
      BY <1>7 DEF LoadVersion, LocalsTyped
    <2>2. v \in Versions /\ Row(k, v).secret \in Secrets
      BY <1>7, <2>1 DEF LoadVersion, HasRow, RowsHoldMaterial
    <2>3. /\ WithSecret(req[r], Row(k, v).secret) \in Local
          /\ WithSecret(req[r], Row(k, v).secret).secret \in Secrets
          /\ WithSecret(req[r], Row(k, v).secret).key = k
      BY <2>2 DEF WithSecret, Local, TypeOK
    <2>4. /\ req' = [req EXCEPT ![r] = WithSecret(req[r], Row(k, v).secret)]
          /\ pc' = [pc EXCEPT ![r] = "loaded"]
          /\ UNCHANGED <<now, managed_keys, key_versions, issued>>
      BY <1>7 DEF LoadVersion
    <2> QED
      BY <2>1, <2>3, <2>4 DEF TypeOK, RowsHoldMaterial, LocalsTyped, Row
  <1>8. ASSUME NEW r \in Requests, Reserve(r)
        PROVE  TypeInv'
    <2> DEFINE k == req[r].key
               v == req[r].ver
    <2>1. k \in KeyIds /\ v \in Versions /\ req[r].secret \in Secrets
      BY <1>8 DEF Reserve, ReserveBelow, At, LocalsTyped, HasRow
    <2>2. /\ UsedOnceMore(Row(k, v)) \in VersionRow
          /\ UsedOnceMore(Row(k, v)).secret = Row(k, v).secret
          /\ UsedOnceMore(Row(k, v)).state = Row(k, v).state
          /\ Row(k, v).usage_count + 1 \in Nat
      BY <2>1 DEF UsedOnceMore, VersionRow, Row, TypeOK
    <2>3. /\ WithSlot(req[r], Row(k, v).usage_count + 1) \in Local
          /\ WithSlot(req[r], Row(k, v).usage_count + 1).secret = req[r].secret
          /\ WithSlot(req[r], Row(k, v).usage_count + 1).key = k
      BY <2>2 DEF WithSlot, Local, TypeOK
    <2>4. /\ req' = [req EXCEPT ![r] = WithSlot(req[r], Row(k, v).usage_count + 1)]
          /\ pc' = [pc EXCEPT ![r] = "reserved"]
          /\ key_versions' = [key_versions EXCEPT
                               ![k] = [@ EXCEPT ![v] = UsedOnceMore(Row(k, v))]]
          /\ UNCHANGED <<now, managed_keys, issued>>
      BY <1>8 DEF Reserve, ReserveBelow, Row
    <2>5. RowsHoldMaterial'
      BY <2>1, <2>2, <2>4 DEF RowsHoldMaterial, TypeOK, Row
    <2> QED
      BY <2>1, <2>2, <2>3, <2>4, <2>5 DEF TypeOK, LocalsTyped
  <1>9. ASSUME NEW r \in Requests, Seal(r)
        PROVE  TypeInv'
    <2>1. /\ req[r].key \in KeyIds
          /\ req[r].secret \in Secrets
          /\ req[r].ver \in Nat /\ req[r].slot \in Nat
      BY <1>9 DEF Seal, At, LocalsTyped, TypeOK, Local
    <2>2. [key |-> req[r].key, ver |-> req[r].ver,
           secret |-> req[r].secret, slot |-> req[r].slot] \in Artefact
      BY <2>1 DEF Artefact
    <2>3. issued' \subseteq Artefact
      BY <1>9, <2>2 DEF Seal, TypeOK
    <2>4. Finish(r) /\ UNCHANGED <<now, managed_keys, key_versions>>
      BY <1>9 DEF Seal
    <2> QED
      BY <2>3, <2>4, FinishTyped DEF TypeOK, RowsHoldMaterial, Row
  <1>10. ASSUME NEW r \in Requests, EndStep(r)
         PROVE  TypeInv'
    BY <1>10, FinishTyped DEF EndStep, TypeOK, RowsHoldMaterial, Row
  <1>11. CASE UNCHANGED vars
    BY <1>11 DEF vars, TypeOK, RowsHoldMaterial, LocalsTyped, Row
  <1> QED
    BY Steps, <1>1, <1>2, <1>3, <1>4, <1>5, <1>6, <1>7, <1>8, <1>9, <1>10, <1>11

\* Every variable keeps its type, whatever requests, keys and bounds there are.
THEOREM TypeCorrect == Spec => []TypeOK
  <1>1. Spec => []TypeInv
    BY InitTypeInv, NextTypeInv, PTL DEF Spec
  <1> QED
    BY <1>1, PTL DEF TypeInv

-----------------------------------------------------------------------------
(* The version chain.  A rotation that lost a race read an old current     *)
(* version; it is bounded by the current one, so if the version after it   *)
(* is absent it is the current one itself.                                 *)

CurrentInRange ==
  \A k \in KeyIds :
    managed_keys[k].current_version \in (IF Live(k) THEN Versions ELSE {0})

NoUnbornRequests ==
  \A r \in Requests : pc[r] # "idle" => managed_keys[req[r].key].state # "unborn"

ReadVersionsBounded ==
  \A r \in Requests :
    pc[r] # "idle" /\ req[r].op \in SealOps \cup {"rotate"} =>
      /\ req[r].ver >= 1
      /\ Live(req[r].key) => req[r].ver <= managed_keys[req[r].key].current_version

ChainInv ==
  VersionChain /\ CurrentInRange /\ NoUnbornRequests /\ ReadVersionsBounded

\* The end of a request leaves the others where they were.
LEMMA FinishOthers ==
  ASSUME TypeOK, NEW r \in Requests, Finish(r)
  PROVE  \A q \in Requests : pc'[q] # "idle" =>
           q # r /\ pc'[q] = pc[q] /\ req'[q] = req[q]
  BY DEF Finish, TypeOK

LEMMA InitChainInv == Init => ChainInv
  BY DEF Init, ChainInv, VersionChain, CurrentInRange, NoUnbornRequests,
         ReadVersionsBounded, Row, Live, LiveStates, NoKeyRow, NoVersionRow

LEMMA InsertKeyChain ==
  ASSUME TypeInv, ChainInv, NEW k \in KeyIds, NEW n \in Names, NEW t \in KeyTypes,
         NEW s \in Secrets, InsertKey(k, n, t, s)
  PROVE  ChainInv'
  <1> USE DEF TypeInv, ChainInv
  <1>1. ~Live(k) /\ managed_keys[k].current_version = 0
    BY DEF InsertKey, Live, LiveStates, CurrentInRange
  <1>2. /\ \A j \in KeyIds \ {k} : managed_keys'[j] = managed_keys[j]
        /\ managed_keys'[k].state = "enabled"
        /\ managed_keys'[k].current_version = 1
    BY DEF InsertKey, TypeOK
  <1>3. /\ \A j \in KeyIds \ {k}, v \in Versions : Row(j, v)' = Row(j, v)
        /\ \A v \in Versions : v # 1 => Row(k, v)' = Row(k, v)
        /\ Row(k, 1)'.state = "active"
    BY DEF InsertKey, TypeOK, Row, FreshVersionRow
  <1>4. Live(k)' /\ \A j \in KeyIds \ {k} : Live(j)' = Live(j)
    BY <1>2 DEF Live, LiveStates
  <1>5. VersionChain'
    BY <1>1, <1>2, <1>3, <1>4 DEF VersionChain
  <1>6. CurrentInRange'
    BY <1>2, <1>4 DEF CurrentInRange
  <1>7. \A r \in Requests : pc[r] # "idle" => req[r].key \in KeyIds \ {k}
    BY DEF LocalsTyped, NoUnbornRequests, InsertKey
  <1>8. NoUnbornRequests' /\ ReadVersionsBounded'
    BY <1>2, <1>4, <1>7 DEF NoUnbornRequests, ReadVersionsBounded, InsertKey
  <1> QED
    BY <1>5, <1>6, <1>8

\* A step that keeps every key's phase and current version, every row's state
\* and what the requests still running read keeps the chain.
LEMMA SameChain ==
  ASSUME TypeInv, ChainInv,
         \A k \in KeyIds : /\ Live(k)' = Live(k)
                           /\ managed_keys'[k].state = "unborn"
                                => managed_keys[k].state = "unborn"
                           /\ managed_keys'[k].current_version
                                = managed_keys[k].current_version,
         \A k \in KeyIds, v \in Versions : Row(k, v)'.state = Row(k, v).state,
         \A r \in Requests : pc'[r] # "idle" =>
            /\ pc[r] # "idle"
            /\ req'[r].op = req[r].op
            /\ req'[r].key = req[r].key
            /\ req'[r].ver = req[r].ver
  PROVE  ChainInv'
  <1> USE DEF TypeInv, ChainInv
  <1>1. VersionChain'
    BY DEF VersionChain
  <1>2. CurrentInRange'
    BY DEF CurrentInRange
  <1>3. \A r \in Requests : pc'[r] # "idle" => req'[r].key \in KeyIds
    BY DEF LocalsTyped
  <1>4. NoUnbornRequests' /\ ReadVersionsBounded'
    BY <1>3 DEF NoUnbornRequests, ReadVersionsBounded
  <1> QED
    BY <1>1, <1>2, <1>4

LEMMA StartChain ==
  ASSUME TypeInv, ChainInv, NEW r \in Requests, NEW k \in KeyIds, NEW l, Started(r, k, l)
  PROVE  ChainInv'
  <1> USE DEF TypeInv, ChainInv
  <1>1. /\ \A q \in Requests : q # r => pc'[q] = pc[q] /\ req'[q] = req[q]
        /\ req'[r] = l
        /\ UNCHANGED <<managed_keys, key_versions>>
    BY DEF Started, Begin, TypeOK
  <1>2. VersionChain' /\ CurrentInRange'
    BY <1>1 DEF VersionChain, CurrentInRange, Live, Row
  <1>3. Live(k) /\ l.key = k
        /\ (l.op \in SealOps \cup {"rotate"} => l.ver = managed_keys[k].current_version)
    BY DEF Started, Begin
  <1>4. managed_keys[k].current_version >= 1 /\ managed_keys[k].state # "unborn"
        /\ managed_keys[k].current_version \in Nat
    BY <1>3 DEF CurrentInRange, Live, LiveStates
  <1>5. NoUnbornRequests'
    BY <1>1, <1>3, <1>4 DEF NoUnbornRequests
  <1>6. ReadVersionsBounded'
    BY <1>1, <1>3, <1>4 DEF ReadVersionsBounded, Live
  <1> QED
    BY <1>2, <1>5, <1>6

LEMMA StateStepChain ==
  ASSUME TypeInv, ChainInv, NEW r \in Requests, StateStep(r)
  PROVE  ChainInv'
  <1> USE DEF TypeInv
  <1>1. \E op : \E st \in LiveStates : \E d : SetKeyState(r, op, st, d)
    <2>1. {"disabled", "enabled", "pending_deletion"} \subseteq LiveStates
      BY DEF LiveStates
    <2> QED
      BY <2>1 DEF StateStep
  <1> PICK op : \E st \in LiveStates : \E d : SetKeyState(r, op, st, d)
    BY <1>1
  <1> PICK st \in LiveStates : \E d : SetKeyState(r, op, st, d)
    OBVIOUS
  <1> PICK d : SetKeyState(r, op, st, d)
    OBVIOUS
  <1>2. \A k \in KeyIds :
          \/ managed_keys'[k] = managed_keys[k]
          \/ Live(k) /\ managed_keys'[k] = SetState(managed_keys[k], st, d)
    BY DEF SetKeyState, TypeOK
  <1>3. \A k \in KeyIds : /\ Live(k)' = Live(k)
                          /\ managed_keys'[k].state = "unborn"
                               => managed_keys[k].state = "unborn"
                          /\ managed_keys'[k].current_version
                               = managed_keys[k].current_version
    <2> SUFFICES ASSUME NEW k \in KeyIds
                 PROVE  /\ Live(k)' = Live(k)
                        /\ managed_keys'[k].state = "unborn"
                             => managed_keys[k].state = "unborn"
                        /\ managed_keys'[k].current_version
                             = managed_keys[k].current_version
      OBVIOUS
    <2>1. CASE managed_keys'[k] = managed_keys[k]
      BY <2>1 DEF Live
    <2>2. CASE Live(k) /\ managed_keys'[k] = SetState(managed_keys[k], st, d)
      <3>1. /\ managed_keys'[k].state = st
            /\ managed_keys'[k].current_version = managed_keys[k].current_version
        BY <2>2 DEF SetState
      <3>2. Live(k)' /\ st # "unborn"
        BY <3>1 DEF Live, LiveStates
      <3> QED
        BY <2>2, <3>1, <3>2
    <2> QED
      BY <1>2, <2>1, <2>2
  <1>4. \A k \in KeyIds, v \in Versions : Row(k, v)'.state = Row(k, v).state
    BY DEF SetKeyState, Row
  <1>5. Finish(r)
    BY DEF SetKeyState
  <1> QED
    BY <1>3, <1>4, <1>5, FinishOthers, SameChain

LEMMA DeletionEffect ==
  ASSUME TypeInv, NEW r \in Requests, pc[r] = "fetched", DeleteKey(r),
         NEW k, k = req[r].key
  PROVE  /\ k \in KeyIds /\ Live(k)
         /\ \A j \in KeyIds : j # k => managed_keys'[j] = managed_keys[j]
         /\ managed_keys'[k] = NoKeyRow("destroyed")
         /\ \A j \in KeyIds, v \in Versions : j # k => Row(j, v)' = Row(j, v)
         /\ \A v \in Versions : Row(k, v)' = NoVersionRow
         /\ Finish(r)
         /\ UNCHANGED <<now, issued>>
  <1> USE DEF TypeInv
  <1>1. k \in KeyIds
    BY DEF LocalsTyped
  <1>2. /\ managed_keys' = [managed_keys EXCEPT ![k] = NoKeyRow("destroyed")]
        /\ key_versions' = [key_versions EXCEPT ![k] = [v \in Versions |-> NoVersionRow]]
        /\ Live(k)
        /\ Finish(r)
        /\ UNCHANGED <<now, issued>>
    BY DEF DeleteKey
  <1>3. \A j \in KeyIds, v \in Versions : j # k => Row(j, v)' = Row(j, v)
    BY <1>1, <1>2 DEF TypeOK, Row
  <1>4. \A v \in Versions : Row(k, v)' = NoVersionRow
    BY <1>1, <1>2 DEF TypeOK, Row
  <1> QED
    BY <1>1, <1>2, <1>3, <1>4 DEF TypeOK

LEMMA DeleteKeyChain ==
  ASSUME TypeInv, ChainInv, NEW r \in Requests, pc[r] = "fetched", DeleteKey(r)
  PROVE  ChainInv'
  <1> USE DEF TypeInv, ChainInv
  <1> PICK k : k = req[r].key
    OBVIOUS
  <1>1. /\ k \in KeyIds
        /\ \A j \in KeyIds : j # k => managed_keys'[j] = managed_keys[j]
        /\ managed_keys'[k] = NoKeyRow("destroyed")
        /\ \A j \in KeyIds, v \in Versions : j # k => Row(j, v)' = Row(j, v)
        /\ \A v \in Versions : Row(k, v)' = NoVersionRow
        /\ Finish(r)
    BY DeletionEffect
  <1>2. /\ managed_keys'[k].state = "destroyed" /\ managed_keys'[k].current_version = 0
        /\ \A v \in Versions : Row(k, v)'.state = "absent"
    BY <1>1 DEF NoKeyRow, NoVersionRow
  <1>3. ~Live(k)' /\ \A j \in KeyIds : j # k => Live(j)' = Live(j)
    BY <1>1, <1>2 DEF Live, LiveStates
  <1>4. VersionChain' /\ CurrentInRange'
    BY <1>1, <1>2, <1>3 DEF VersionChain, CurrentInRange
  <1>5. \A q \in Requests : pc'[q] # "idle" =>
          pc[q] # "idle" /\ req'[q] = req[q] /\ req[q].key \in KeyIds
    BY <1>1, FinishOthers DEF LocalsTyped
  <1>6. NoUnbornRequests' /\ ReadVersionsBounded'
    BY <1>1, <1>2, <1>3, <1>5 DEF NoUnbornRequests, ReadVersionsBounded
  <1> QED
    BY <1>4, <1>6

\* The effect of a rotation that commits: the version read was the current one.
LEMMA RotationEffect ==
  ASSUME TypeInv, ChainInv, NEW r \in Requests, RotateKey(r),
         NEW k, k = req[r].key, NEW old, old = req[r].ver, NEW new, new = old + 1
  PROVE  /\ k \in KeyIds /\ Live(k) /\ old \in Versions /\ new \in Versions
         /\ old = managed_keys[k].current_version
         /\ Row(k, new).state = "absent"
         /\ \A j \in KeyIds : j # k => managed_keys'[j] = managed_keys[j]
         /\ managed_keys'[k] = SetCurrent(managed_keys[k], new)
         /\ \A j \in KeyIds, v \in Versions :
              j # k \/ v \notin {old, new} => Row(j, v)' = Row(j, v)
         /\ Row(k, old)' = RotatedRow(Row(k, old))
         /\ \E s \in Secrets : Row(k, new)' = FreshVersionRow(s)
         /\ Finish(r)
         /\ UNCHANGED <<now, issued>>
  <1> USE DEF TypeInv, ChainInv
  <1>1. k \in KeyIds /\ old \in Nat
    BY DEF RotateKey, At, LocalsTyped, TypeOK, Local
  <1>2. pc[r] = "fetched" /\ req[r].op = "rotate" /\ ~HasRow(k, new)
    BY DEF RotateKey, At
  <1>3. /\ new \in Versions /\ Live(k)
        /\ Finish(r) /\ UNCHANGED <<now, issued>>
        /\ managed_keys' = [managed_keys EXCEPT ![k] = SetCurrent(managed_keys[k], new)]
    BY DEF RotateKey, WriteRotation
  <1>4. PICK s \in Secrets :
          key_versions' = [key_versions EXCEPT
            ![k] = [@ EXCEPT ![old] = RotatedRow(Row(k, old)), ![new] = FreshVersionRow(s)]]
    <2>1. FreshSecrets \subseteq Secrets
      BY DEF FreshSecrets
    <2> QED
      BY <2>1 DEF RotateKey, WriteRotation
  <1>5. Row(k, new).state = "absent"
    BY <1>2, <1>3 DEF HasRow
  <1>6. /\ old >= 1 /\ old <= managed_keys[k].current_version
        /\ managed_keys[k].current_version \in Versions
    BY <1>1, <1>2, <1>3 DEF ReadVersionsBounded, CurrentInRange
  <1>7. managed_keys[k].current_version < new
    BY <1>1, <1>3, <1>5, <1>6 DEF VersionChain
  <1>8. old \in Versions /\ old # new /\ old = managed_keys[k].current_version
    BY <1>1, <1>3, <1>6, <1>7
  <1>9. \A j \in KeyIds, v \in Versions :
          j # k \/ v \notin {old, new} => Row(j, v)' = Row(j, v)
    BY <1>1, <1>4 DEF TypeOK, Row
  <1>10. Row(k, old)' = RotatedRow(Row(k, old)) /\ Row(k, new)' = FreshVersionRow(s)
    BY <1>1, <1>3, <1>4, <1>8 DEF TypeOK, Row
  <1>11. /\ \A j \in KeyIds : j # k => managed_keys'[j] = managed_keys[j]
         /\ managed_keys'[k] = SetCurrent(managed_keys[k], new)
    BY <1>1, <1>3 DEF TypeOK
  <1>12. \E x \in Secrets : Row(k, new)' = FreshVersionRow(x)
    BY <1>10
  <1> QED
    BY <1>1, <1>3, <1>5, <1>8, <1>9, <1>10, <1>11, <1>12

LEMMA RotateChain ==
  ASSUME TypeInv, ChainInv, NEW r \in Requests, RotateKey(r)
  PROVE  ChainInv'
  <1> PICK k, old : k = req[r].key /\ old = req[r].ver
    OBVIOUS
  <1> DEFINE new == old + 1
  <1>1. /\ k \in KeyIds /\ Live(k) /\ old \in Versions /\ new \in Versions
        /\ old = managed_keys[k].current_version
        /\ Row(k, new).state = "absent"
        /\ \A j \in KeyIds : j # k => managed_keys'[j] = managed_keys[j]
        /\ managed_keys'[k] = SetCurrent(managed_keys[k], new)
        /\ \A j \in KeyIds, v \in Versions :
             j # k \/ v \notin {old, new} => Row(j, v)' = Row(j, v)
        /\ Row(k, old)' = RotatedRow(Row(k, old))
        /\ \E s \in Secrets : Row(k, new)' = FreshVersionRow(s)
        /\ Finish(r)
    BY RotationEffect
  <1> USE DEF TypeInv, ChainInv
  <1>2. new = old + 1
    OBVIOUS
  <1>3. Row(k, new)'.state = "active"
    BY <1>1 DEF FreshVersionRow
  <1>4. Row(k, old)'.state = "rotated"
    <2>1. Row(k, old).state # "absent"
      BY <1>1 DEF VersionChain
    <2> QED
      BY <1>1, <2>1 DEF RotatedRow
  <1>5. /\ managed_keys'[k].current_version = new
        /\ managed_keys'[k].state = managed_keys[k].state
    BY <1>1 DEF SetCurrent
  <1>6. \A j \in KeyIds : Live(j)' = Live(j)
    BY <1>1, <1>5 DEF Live
  <1>7. VersionChain'
    <2> SUFFICES ASSUME NEW j \in KeyIds, NEW v \in Versions
                 PROVE  Row(j, v)'.state =
                          IF ~Live(j)' \/ v > managed_keys'[j].current_version THEN "absent"
                          ELSE IF v = managed_keys'[j].current_version THEN "active"
                          ELSE "rotated"
      BY DEF VersionChain
    <2>1. CASE j # k
      BY <1>1, <1>6, <2>1 DEF VersionChain
    <2>2. CASE j = k /\ v \notin {old, new}
      BY <1>1, <1>2, <1>5, <1>6, <2>2 DEF VersionChain
    <2>3. CASE j = k /\ v = old
      <3>1. Live(k)' /\ old < new
        BY <1>1, <1>2, <1>6
      <3> QED
        BY <1>4, <1>5, <2>3, <3>1
    <2>4. CASE j = k /\ v = new
      <3>1. Live(k)' /\ ~(new > new)
        BY <1>1, <1>6
      <3> QED
        BY <1>3, <1>5, <2>4, <3>1
    <2> QED
      BY <2>1, <2>2, <2>3, <2>4
  <1>8. CurrentInRange'
    BY <1>1, <1>5, <1>6 DEF CurrentInRange
  <1>9. \A q \in Requests : pc'[q] # "idle" =>
          pc[q] # "idle" /\ req'[q] = req[q] /\ req[q].key \in KeyIds /\ req[q].ver \in Nat
    BY <1>1, FinishOthers DEF LocalsTyped, TypeOK, Local
  <1>10. NoUnbornRequests'
    BY <1>1, <1>5, <1>9 DEF NoUnbornRequests
  <1>11. ReadVersionsBounded'
    BY <1>1, <1>2, <1>5, <1>6, <1>9 DEF ReadVersionsBounded
  <1> QED
    BY <1>7, <1>8, <1>10, <1>11

LEMMA LoadChain ==
  ASSUME TypeInv, ChainInv, NEW r \in Requests, LoadVersion(r)
  PROVE  ChainInv'
  <1> USE DEF TypeInv
  <1>1. /\ UNCHANGED <<managed_keys, key_versions>>
        /\ \E s : req' = [req EXCEPT ![r] = WithSecret(req[r], s)]
        /\ pc' = [pc EXCEPT ![r] = "loaded"] /\ pc[r] = "fetched"
    BY DEF LoadVersion
  <1>2. \A q \in Requests : pc'[q] # "idle" =>
          /\ pc[q] # "idle" /\ req'[q].op = req[q].op
          /\ req'[q].key = req[q].key /\ req'[q].ver = req[q].ver
    BY <1>1 DEF TypeOK, WithSecret
  <1> QED
    BY <1>1, <1>2, SameChain DEF Live, Row

LEMMA ReserveChain ==
  ASSUME TypeInv, ChainInv, NEW r \in Requests, Reserve(r)
  PROVE  ChainInv'
  <1> USE DEF TypeInv
  <1> PICK k, v : k = req[r].key /\ v = req[r].ver
    OBVIOUS
  <1>1. /\ UNCHANGED managed_keys
        /\ \E n : req' = [req EXCEPT ![r] = WithSlot(req[r], n)]
        /\ pc' = [pc EXCEPT ![r] = "reserved"] /\ pc[r] = "loaded"
        /\ key_versions' = [key_versions EXCEPT
                             ![k] = [@ EXCEPT ![v] = UsedOnceMore(Row(k, v))]]
    BY DEF Reserve, ReserveBelow, At, Row
  <1>2. \A q \in Requests : pc'[q] # "idle" =>
          /\ pc[q] # "idle" /\ req'[q].op = req[q].op
          /\ req'[q].key = req[q].key /\ req'[q].ver = req[q].ver
    BY <1>1 DEF TypeOK, WithSlot
  <1>3. \A j \in KeyIds, w \in Versions : Row(j, w)'.state = Row(j, w).state
    BY <1>1 DEF TypeOK, Row, UsedOnceMore
  <1> QED
    BY <1>1, <1>2, <1>3, SameChain DEF Live

LEMMA NextChainInv == TypeInv /\ ChainInv /\ [Next]_vars => ChainInv'
  <1> SUFFICES ASSUME TypeInv, ChainInv, [Next]_vars
               PROVE  ChainInv'
    OBVIOUS
  <1>0. TypeOK
    BY DEF TypeInv
  <1>1. ASSUME UNCHANGED <<managed_keys, key_versions, pc, req>>
        PROVE  ChainInv'
    BY <1>1, SameChain DEF Live, Row
  <1>2. CASE Tick \/ UNCHANGED vars
    BY <1>1, <1>2 DEF Tick, vars
  <1>3. ASSUME NEW r \in Requests, Finish(r), UNCHANGED <<managed_keys, key_versions>>
        PROVE  ChainInv'
    BY <1>0, <1>3, FinishOthers, SameChain DEF Live, Row
  <1>4. ASSUME NEW r \in Requests, Seal(r) \/ EndStep(r)
        PROVE  ChainInv'
    BY <1>3, <1>4 DEF Seal, EndStep
  <1> QED
    BY <1>0, Steps, <1>2, <1>4, InsertKeyChain, StartChain, StateStepChain,
       DeleteKeyChain, RotateChain, LoadChain, ReserveChain

\* Whatever rotations and destructions race, the versions of a live key are
\* 1..current_version with the current one active.
THEOREM VersionChainHolds == Spec => []VersionChain
  <1>1. Spec => [](TypeInv /\ ChainInv)
    BY InitTypeInv, NextTypeInv, InitChainInv, NextChainInv, PTL DEF Spec
  <1> QED
    BY <1>1, PTL DEF ChainInv

-----------------------------------------------------------------------------
(* Dates.  A schedule writes the date it computed, never NULL.             *)

SchedulesDated ==
  \A r \in Requests :
    pc[r] # "idle" /\ req[r].op = "schedule" => req[r].due \in Nat

DatedInv == DatedIffPending /\ SchedulesDated

LEMMA InitDatedInv == Init => DatedInv
  BY DEF Init, DatedInv, DatedIffPending, SchedulesDated, NoKeyRow

LEMMA NextDatedInv == TypeInv /\ DatedInv /\ [Next]_vars => DatedInv'
  <1> SUFFICES ASSUME TypeInv, DatedInv, [Next]_vars
               PROVE  DatedInv'
    OBVIOUS
  <1> USE DEF DatedInv
  <1>0. TypeOK
    BY DEF TypeInv
  <1>1. ASSUME \A k \in KeyIds :
                 \/ managed_keys'[k] = managed_keys[k]
                 \/ (managed_keys'[k].state = "pending_deletion")
                      <=> (managed_keys'[k].deletion_at # None),
               \A r \in Requests : pc'[r] # "idle" =>
                 \/ pc[r] # "idle" /\ req'[r].op = req[r].op /\ req'[r].due = req[r].due
                 \/ req'[r].op = "schedule" => req'[r].due \in Nat
        PROVE  DatedInv'
    BY <1>1 DEF DatedIffPending, SchedulesDated
  <1>2. CASE Tick \/ UNCHANGED vars
    BY <1>1, <1>2 DEF Tick, vars
  <1>3. ASSUME NEW k \in KeyIds, NEW n \in Names, NEW t \in KeyTypes,
               NEW s \in Secrets, InsertKey(k, n, t, s)
        PROVE  DatedInv'
    <2>1. \A j \in KeyIds :
            \/ managed_keys'[j] = managed_keys[j]
            \/ managed_keys'[j].state = "enabled" /\ managed_keys'[j].deletion_at = None
      BY <1>0, <1>3 DEF InsertKey, TypeOK
    <2> QED
      BY <1>1, <1>3, <2>1 DEF InsertKey
  <1>4. ASSUME NEW r \in Requests, NEW k \in KeyIds, NEW l, Started(r, k, l)
        PROVE  DatedInv'
    BY <1>0, <1>1, <1>4 DEF Started, Begin, TypeOK
  <1>5. ASSUME NEW r \in Requests, StateStep(r)
        PROVE  DatedInv'
    <2>1. ASSUME NEW op, NEW st, NEW d, SetKeyState(r, op, st, d),
                 (st = "pending_deletion") <=> (d # None)
          PROVE  DatedInv'
      <3>1. \A k \in KeyIds :
              \/ managed_keys'[k] = managed_keys[k]
              \/ managed_keys'[k] = SetState(managed_keys[k], st, d)
        BY <1>0, <2>1 DEF SetKeyState, TypeOK
      <3>2. \A k \in KeyIds :
              \/ managed_keys'[k] = managed_keys[k]
              \/ managed_keys'[k].state = st /\ managed_keys'[k].deletion_at = d
        <4> SUFFICES ASSUME NEW k \in KeyIds,
                            managed_keys'[k] = SetState(managed_keys[k], st, d)
                     PROVE  managed_keys'[k].state = st /\ managed_keys'[k].deletion_at = d
          BY <3>1
        <4>1. PICK m : m = managed_keys[k]
          OBVIOUS
        <4> QED
          BY <4>1 DEF SetState
      <3>3. Finish(r)
        BY <2>1 DEF SetKeyState
      <3> QED
        BY <1>0, <1>1, <2>1, <3>2, <3>3, FinishOthers
    <2>2. CASE \E op \in {"disable", "cancel"} : SetKeyState(r, op, "disabled", None)
      BY <2>1, <2>2
    <2>3. CASE SetKeyState(r, "enable", "enabled", None)
      BY <2>1, <2>3
    <2>4. CASE SetKeyState(r, "schedule", "pending_deletion", req[r].due)
      <3>1. PICK d : d = req[r].due
        OBVIOUS
      <3>2. d \in Nat /\ SetKeyState(r, "schedule", "pending_deletion", d)
        BY <2>4, <3>1 DEF SetKeyState, At, SchedulesDated
      <3>3. d # None
        BY <3>2
      <3> QED
        BY <2>1, <3>2, <3>3
    <2> QED
      BY <1>5, <2>2, <2>3, <2>4 DEF StateStep
  <1>6. ASSUME NEW r \in Requests, pc[r] = "fetched", DeleteKey(r)
        PROVE  DatedInv'
    <2>1. PICK k : k = req[r].key
      OBVIOUS
    <2>2. /\ \A j \in KeyIds : j # k => managed_keys'[j] = managed_keys[j]
          /\ managed_keys'[k] = NoKeyRow("destroyed")
          /\ Finish(r)
      BY <1>6, <2>1, DeletionEffect
    <2>3. managed_keys'[k].state = "destroyed" /\ managed_keys'[k].deletion_at = None
      BY <2>2 DEF NoKeyRow
    <2> QED
      BY <1>0, <1>1, <2>2, <2>3, FinishOthers
  <1>7. ASSUME NEW r \in Requests, RotateKey(r)
        PROVE  DatedInv'
    <2>1. /\ \E v : managed_keys' = [managed_keys EXCEPT
                       ![req[r].key] = SetCurrent(managed_keys[req[r].key], v)]
          /\ Finish(r) /\ pc[r] # "idle"
      BY <1>7 DEF RotateKey, WriteRotation, At
    <2>2. PICK k, v : /\ k = req[r].key
                      /\ managed_keys' = [managed_keys EXCEPT ![k] = SetCurrent(managed_keys[k], v)]
      BY <2>1
    <2>3. k \in KeyIds
      BY <2>1, <2>2 DEF TypeInv, LocalsTyped
    <2>4. /\ \A j \in KeyIds : j # k => managed_keys'[j] = managed_keys[j]
          /\ managed_keys'[k].state = managed_keys[k].state
          /\ managed_keys'[k].deletion_at = managed_keys[k].deletion_at
      BY <1>0, <2>2, <2>3 DEF TypeOK, SetCurrent
    <2>5. (managed_keys'[k].state = "pending_deletion")
            <=> (managed_keys'[k].deletion_at # None)
      BY <2>3, <2>4 DEF DatedIffPending
    <2> QED
      BY <1>0, <1>1, <2>1, <2>4, <2>5, FinishOthers
  <1>8. ASSUME NEW r \in Requests, LoadVersion(r)
        PROVE  DatedInv'
    BY <1>0, <1>1, <1>8 DEF LoadVersion, TypeOK, WithSecret
  <1>9. ASSUME NEW r \in Requests, Reserve(r)
        PROVE  DatedInv'
    BY <1>0, <1>1, <1>9 DEF Reserve, ReserveBelow, At, TypeOK, WithSlot
  <1>10. ASSUME NEW r \in Requests, Seal(r) \/ EndStep(r)
         PROVE  DatedInv'
    BY <1>0, <1>1, <1>10, FinishOthers DEF Seal, EndStep
  <1> QED
    BY <1>0, Steps, <1>2, <1>3, <1>4, <1>5, <1>6, <1>7, <1>8, <1>9, <1>10

\* A key row carries a deletion date exactly while it is pending deletion.
THEOREM DatedIffPendingHolds == Spec => []DatedIffPending
  <1>1. Spec => [](TypeInv /\ DatedInv)
    BY InitTypeInv, NextTypeInv, InitDatedInv, NextDatedInv, PTL DEF Spec
  <1> QED
    BY <1>1, PTL DEF DatedInv

-----------------------------------------------------------------------------
(* Material.  A step never rewrites a version of a key that survives it.   *)

VersionSurvives(k, v) ==
  /\ HasRow(k, v)'
  /\ Row(k, v)'.secret = Row(k, v).secret
  /\ Row(k, v)'.usage_count >= Row(k, v).usage_count
  /\ Row(k, v).state = "rotated" => Row(k, v)'.state = "rotated"

SurvivingStep ==
  \A k \in KeyIds :
    managed_keys[k].state # "unborn" =>
      /\ managed_keys'[k].state # "unborn"
      /\ Live(k)' => Live(k) /\ \A v \in Versions : HasRow(k, v) => VersionSurvives(k, v)

LEMMA StepSurvives ==
  ASSUME TypeInv, ChainInv, [Next]_vars
  PROVE  SurvivingStep
  <1>0. TypeOK
    BY DEF TypeInv
  <1>1. ASSUME \A k \in KeyIds : managed_keys[k].state # "unborn" =>
                 managed_keys'[k].state # "unborn" /\ (Live(k)' => Live(k)),
               \A k \in KeyIds, v \in Versions :
                 managed_keys[k].state # "unborn" /\ Live(k)' /\ HasRow(k, v)
                   => VersionSurvives(k, v)
        PROVE  SurvivingStep
    BY <1>1 DEF SurvivingStep
  <1>2. ASSUME NEW k \in KeyIds, NEW v \in Versions, HasRow(k, v), Row(k, v)' = Row(k, v)
        PROVE  VersionSurvives(k, v)
    BY <1>0, <1>2 DEF VersionSurvives, HasRow, TypeOK, VersionRow, Row
  <1>3. ASSUME UNCHANGED <<managed_keys, key_versions>>
        PROVE  SurvivingStep
    BY <1>1, <1>2, <1>3 DEF Live, Row
  <1>4. ASSUME NEW k \in KeyIds, NEW n \in Names, NEW t \in KeyTypes,
               NEW s \in Secrets, InsertKey(k, n, t, s)
        PROVE  SurvivingStep
    <2>1. /\ managed_keys[k].state = "unborn"
          /\ \A j \in KeyIds : j # k =>
               /\ managed_keys'[j] = managed_keys[j]
               /\ \A v \in Versions : Row(j, v)' = Row(j, v)
      BY <1>0, <1>4 DEF InsertKey, TypeOK, Row
    <2> QED
      BY <1>1, <1>2, <2>1 DEF Live
  <1>5. ASSUME NEW r \in Requests, StateStep(r)
        PROVE  SurvivingStep
    <2>1. \E op : \E st \in LiveStates : \E d : SetKeyState(r, op, st, d)
      <3>1. {"disabled", "enabled", "pending_deletion"} \subseteq LiveStates
        BY DEF LiveStates
      <3> QED
        BY <1>5, <3>1 DEF StateStep
    <2> PICK op : \E st \in LiveStates : \E d : SetKeyState(r, op, st, d)
      BY <2>1
    <2> PICK st \in LiveStates : \E d : SetKeyState(r, op, st, d)
      OBVIOUS
    <2> PICK d : SetKeyState(r, op, st, d)
      OBVIOUS
    <2>2. \A k \in KeyIds :
            \/ managed_keys'[k] = managed_keys[k]
            \/ Live(k) /\ managed_keys'[k].state = st
      BY <1>0 DEF SetKeyState, TypeOK, SetState
    <2>3. \A k \in KeyIds, v \in Versions : Row(k, v)' = Row(k, v)
      BY DEF SetKeyState, Row
    <2>4. st # "unborn"
      BY DEF LiveStates
    <2> QED
      BY <1>1, <1>2, <2>2, <2>3, <2>4 DEF Live
  <1>6. ASSUME NEW r \in Requests, pc[r] = "fetched", DeleteKey(r)
        PROVE  SurvivingStep
    <2> PICK k : k = req[r].key
      OBVIOUS
    <2>1. /\ \A j \in KeyIds : j # k => managed_keys'[j] = managed_keys[j]
          /\ managed_keys'[k] = NoKeyRow("destroyed")
          /\ \A j \in KeyIds, v \in Versions : j # k => Row(j, v)' = Row(j, v)
      BY <1>6, DeletionEffect
    <2>2. managed_keys'[k].state = "destroyed"
      BY <2>1 DEF NoKeyRow
    <2>3. ~Live(k)'
      BY <2>2 DEF Live, LiveStates
    <2> QED
      BY <1>1, <1>2, <2>1, <2>2, <2>3 DEF Live
  <1>7. ASSUME NEW r \in Requests, RotateKey(r)
        PROVE  SurvivingStep
    <2> PICK k, old : k = req[r].key /\ old = req[r].ver
      OBVIOUS
    <2> DEFINE new == old + 1
    <2>1. /\ k \in KeyIds /\ Live(k) /\ old \in Versions /\ new \in Versions
          /\ Row(k, new).state = "absent"
          /\ \A j \in KeyIds : j # k => managed_keys'[j] = managed_keys[j]
          /\ managed_keys'[k] = SetCurrent(managed_keys[k], new)
          /\ \A j \in KeyIds, v \in Versions :
               j # k \/ v \notin {old, new} => Row(j, v)' = Row(j, v)
          /\ Row(k, old)' = RotatedRow(Row(k, old))
      BY <1>7, RotationEffect
    <2>2. managed_keys'[k].state = managed_keys[k].state
      BY <2>1 DEF SetCurrent
    <2>3. \A j \in KeyIds : managed_keys[j].state # "unborn" =>
            managed_keys'[j].state # "unborn" /\ (Live(j)' => Live(j))
      BY <2>1, <2>2 DEF Live
    <2>4. HasRow(k, old) => VersionSurvives(k, old)
      BY <1>0, <2>1 DEF VersionSurvives, HasRow, RotatedRow, TypeOK, VersionRow, Row
    <2>5. ~HasRow(k, new)
      BY <2>1 DEF HasRow
    <2> QED
      BY <1>1, <1>2, <2>1, <2>3, <2>4, <2>5
  <1>8. ASSUME NEW r \in Requests, Reserve(r)
        PROVE  SurvivingStep
    <2> PICK k, v : k = req[r].key /\ v = req[r].ver
      OBVIOUS
    <2>1. k \in KeyIds /\ v \in Versions
      BY <1>8 DEF Reserve, ReserveBelow, At, HasRow, TypeInv, LocalsTyped
    <2>2. /\ UNCHANGED managed_keys
          /\ key_versions' = [key_versions EXCEPT
                               ![k] = [@ EXCEPT ![v] = UsedOnceMore(Row(k, v))]]
      BY <1>8 DEF Reserve, ReserveBelow, Row
    <2>3. /\ \A j \in KeyIds, w \in Versions : j # k \/ w # v => Row(j, w)' = Row(j, w)
          /\ Row(k, v)' = UsedOnceMore(Row(k, v))
      BY <1>0, <2>1, <2>2 DEF TypeOK, Row
    <2>4. HasRow(k, v) => VersionSurvives(k, v)
      BY <1>0, <2>1, <2>3 DEF VersionSurvives, HasRow, UsedOnceMore, TypeOK, VersionRow, Row
    <2> QED
      BY <1>1, <1>2, <2>2, <2>3, <2>4 DEF Live
  <1>9. ASSUME NEW r \in Requests, LoadVersion(r) \/ Seal(r) \/ EndStep(r)
        PROVE  SurvivingStep
    BY <1>3, <1>9 DEF LoadVersion, Seal, EndStep
  <1>10. ASSUME NEW r \in Requests, NEW k \in KeyIds, NEW l, Started(r, k, l)
         PROVE  SurvivingStep
    BY <1>3, <1>10 DEF Started, Begin
  <1>11. CASE Tick \/ UNCHANGED vars
    BY <1>3, <1>11 DEF Tick, vars
  <1> QED
    BY <1>0, Steps, <1>4, <1>5, <1>6, <1>7, <1>8, <1>9, <1>10, <1>11

\* No step rewrites the material of a version, gives back its slots or
\* reactivates it, as long as the key lives.
THEOREM VersionsImmutableHolds == Spec => VersionsImmutable
  <1>1. Spec => [](TypeInv /\ ChainInv)
    BY InitTypeInv, NextTypeInv, InitChainInv, NextChainInv, PTL DEF Spec
  <1>2. TypeInv /\ ChainInv /\ [Next]_vars =>
          [\A k \in KeyIds, v \in Versions :
             HasRow(k, v) /\ Live(k)' =>
               /\ HasRow(k, v)'
               /\ Row(k, v)'.secret = Row(k, v).secret
               /\ Row(k, v)'.usage_count >= Row(k, v).usage_count
               /\ Row(k, v).state = "rotated" => Row(k, v)'.state = "rotated"]_vars
    <2> SUFFICES ASSUME TypeInv, ChainInv, [Next]_vars,
                        NEW k \in KeyIds, NEW v \in Versions, HasRow(k, v), Live(k)'
                 PROVE  VersionSurvives(k, v)
      BY DEF VersionSurvives
    <2>1. Live(k) /\ managed_keys[k].state # "unborn"
      BY DEF HasRow, ChainInv, VersionChain, Live, LiveStates
    <2> QED
      BY <2>1, StepSurvives DEF SurvivingStep
  <1> QED
    BY <1>1, <1>2, PTL DEF VersionsImmutable, Spec

-----------------------------------------------------------------------------
(* What a request remembers stays true of a key that survives it.          *)

Born(k) == managed_keys[k].state # "unborn"

Loaded(r) == pc[r] \in {"loaded", "reserved"}

LocalsBorn == \A r \in Requests : pc[r] # "idle" => Born(req[r].key)

IssuedBorn == \A a \in issued : Born(a.key)

\* The material a request works on is the material of the version it names.
LoadedMatches ==
  \A r \in Requests : Loaded(r) /\ Live(req[r].key) =>
    /\ HasRow(req[r].key, req[r].ver)
    /\ Row(req[r].key, req[r].ver).secret = req[r].secret

ArtefactGiven ==
  \A r \in Requests : pc[r] # "idle" /\ req[r].op \in OpenOps =>
    req[r].art \in issued /\ req[r].art.key = req[r].key

MaterialInv ==
  /\ LocalsBorn
  /\ IssuedBorn
  /\ LoadedMatches
  /\ ArtefactGiven
  /\ Decryptable
  /\ OpensWithItsOwnSecret

LEMMA InitMaterialInv == Init => MaterialInv
  BY DEF Init, MaterialInv, LocalsBorn, IssuedBorn, LoadedMatches, ArtefactGiven,
         Decryptable, OpensWithItsOwnSecret, Loaded

\* What a step does to one request: it ends, it goes on with the same locals,
\* it starts, or it loads the version it names from a table nobody writes.
SameCall(r) ==
  /\ pc[r] # "idle"
  /\ req'[r].op = req[r].op
  /\ req'[r].key = req[r].key
  /\ req'[r].ver = req[r].ver
  /\ req'[r].art = req[r].art

RequestStep(r) ==
  \/ pc'[r] = "idle"
  \/ SameCall(r) /\ req'[r].secret = req[r].secret /\ Loaded(r) /\ pc'[r] # "loaded"
  \/ SameCall(r) /\ req'[r].secret = req[r].secret /\ pc'[r] = pc[r]
  \/ /\ pc'[r] = "fetched"
     /\ req'[r].key \in KeyIds
     /\ Born(req'[r].key)
     /\ req'[r].op \in OpenOps =>
          req'[r].art \in issued /\ req'[r].art.key = req'[r].key
  \/ /\ SameCall(r)
     /\ pc'[r] = "loaded"
     /\ HasRow(req[r].key, req[r].ver)
     /\ req'[r].secret = Row(req[r].key, req[r].ver).secret
     /\ UNCHANGED <<managed_keys, key_versions>>

IssueStep ==
  \A a \in issued' :
    \/ a \in issued
    \/ \E r \in Requests :
         /\ Loaded(r)
         /\ a.key = req[r].key /\ a.ver = req[r].ver /\ a.secret = req[r].secret

LEMMA KeepMaterial ==
  ASSUME TypeInv, TypeInv', ChainInv, MaterialInv, SurvivingStep,
         issued \subseteq issued', IssueStep,
         \A r \in Requests : RequestStep(r)
  PROVE  MaterialInv'
  <1> USE DEF MaterialInv
  <1>1. ASSUME NEW k \in KeyIds, Born(k)
        PROVE  Born(k)'
    BY <1>1 DEF SurvivingStep, Born
  <1>2. ASSUME NEW k \in KeyIds, Born(k), Live(k)', NEW v, HasRow(k, v)
        PROVE  Live(k) /\ HasRow(k, v)' /\ Row(k, v)'.secret = Row(k, v).secret
    BY <1>2 DEF SurvivingStep, Born, VersionSurvives, HasRow
  <1>3. ASSUME NEW a \in issued
        PROVE  a.key \in KeyIds
    BY <1>3 DEF TypeInv, TypeOK, Artefact
  <1>4. ASSUME NEW r \in Requests, pc[r] # "idle"
        PROVE  req[r].key \in KeyIds
    BY <1>4 DEF TypeInv, LocalsTyped
  <1>5. LocalsBorn'
    <2> SUFFICES ASSUME NEW r \in Requests, pc'[r] # "idle"
                 PROVE  Born(req[r].key)'
      BY DEF LocalsBorn
    <2> PICK k : k = req'[r].key
      OBVIOUS
    <2>1. k \in KeyIds /\ Born(k)
      BY <1>4 DEF RequestStep, SameCall, LocalsBorn
    <2>2. Born(k)'
      BY <1>1, <2>1
    <2> QED
      BY <2>2 DEF Born
  <1>6. ASSUME NEW a \in issued'
        PROVE  /\ a.key \in KeyIds /\ Born(a.key)
               /\ Live(a.key) => /\ HasRow(a.key, a.ver)
                                 /\ Row(a.key, a.ver).secret = a.secret
    <2>1. CASE a \in issued
      BY <1>3, <2>1 DEF IssuedBorn, Decryptable
    <2>2. ASSUME NEW r \in Requests, Loaded(r), a.key = req[r].key,
                 a.ver = req[r].ver, a.secret = req[r].secret
          PROVE  /\ a.key \in KeyIds /\ Born(a.key)
                 /\ Live(a.key) => /\ HasRow(a.key, a.ver)
                                   /\ Row(a.key, a.ver).secret = a.secret
      <3>1. pc[r] # "idle"
        BY <2>2 DEF Loaded
      <3> QED
        BY <1>4, <2>2, <3>1 DEF LocalsBorn, LoadedMatches
    <2> QED
      BY <2>1, <2>2 DEF IssueStep
  <1>7. IssuedBorn' /\ Decryptable'
    <2> SUFFICES ASSUME NEW a \in issued'
                 PROVE  /\ Born(a.key)'
                        /\ Live(a.key)' => /\ HasRow(a.key, a.ver)'
                                           /\ Row(a.key, a.ver)'.secret = a.secret
      BY DEF IssuedBorn, Decryptable
    <2> PICK k, v : k = a.key /\ v = a.ver
      OBVIOUS
    <2>1. k \in KeyIds /\ Born(k)
      BY <1>6
    <2>2. Born(k)'
      BY <1>1, <2>1
    <2>3. ASSUME Live(k)'
          PROVE  HasRow(k, v)' /\ Row(k, v)'.secret = a.secret
      <3>1. Live(k)
        BY <2>1, <2>3 DEF SurvivingStep, Born
      <3>2. HasRow(k, v) /\ Row(k, v).secret = a.secret
        BY <1>6, <3>1
      <3> QED
        BY <1>2, <2>1, <2>3, <3>2
    <2> QED
      BY <2>2, <2>3
  <1>8. LoadedMatches'
    <2> SUFFICES ASSUME NEW r \in Requests, Loaded(r)', Live(req[r].key)'
                 PROVE  /\ HasRow(req[r].key, req[r].ver)'
                        /\ Row(req[r].key, req[r].ver).secret' = req'[r].secret
      BY DEF LoadedMatches
    <2> PICK k, v : k = req'[r].key /\ v = req'[r].ver
      OBVIOUS
    <2>1. /\ pc[r] # "idle" /\ k = req[r].key /\ v = req[r].ver
          /\ \/ Loaded(r) /\ req'[r].secret = req[r].secret
             \/ /\ HasRow(k, v) /\ req'[r].secret = Row(k, v).secret
                /\ UNCHANGED <<managed_keys, key_versions>>
      BY DEF RequestStep, SameCall, Loaded
    <2>2. k \in KeyIds /\ Born(k)
      BY <1>4, <2>1 DEF LocalsBorn
    <2>3. Live(k)'
      OBVIOUS
    <2>4. HasRow(k, v)' /\ Row(k, v)'.secret = req'[r].secret
      <3>1. Live(k)
        BY <2>2, <2>3 DEF SurvivingStep, Born
      <3>2. HasRow(k, v) /\ Row(k, v).secret = req'[r].secret
        BY <2>1, <3>1 DEF LoadedMatches
      <3> QED
        BY <1>2, <2>2, <2>3, <3>2
    <2> QED
      BY <2>4
  <1>9. ArtefactGiven'
    <2> SUFFICES ASSUME NEW r \in Requests, pc'[r] # "idle", req'[r].op \in OpenOps
                 PROVE  req'[r].art \in issued' /\ req'[r].art.key = req'[r].key
      BY DEF ArtefactGiven
    <2> QED
      BY DEF RequestStep, SameCall, ArtefactGiven
  <1>10. OpensWithItsOwnSecret'
    <2> SUFFICES ASSUME NEW r \in Requests, pc'[r] = "loaded", req'[r].op \in OpenOps,
                        req'[r].ver = req'[r].art.ver
                 PROVE  req'[r].secret = req'[r].art.secret
      BY DEF OpensWithItsOwnSecret
    <2>1. CASE SameCall(r) /\ req'[r].secret = req[r].secret /\ pc'[r] = pc[r]
      BY <2>1 DEF SameCall, OpensWithItsOwnSecret
    <2>2. CASE /\ SameCall(r)
               /\ HasRow(req[r].key, req[r].ver)
               /\ req'[r].secret = Row(req[r].key, req[r].ver).secret
      <3>1. req[r].art \in issued /\ req[r].art.key = req[r].key
        BY <2>2 DEF SameCall, ArtefactGiven
      <3>2. Live(req[r].key)
        BY <1>4, <2>2 DEF SameCall, HasRow, ChainInv, VersionChain
      <3> QED
        BY <2>2, <3>1, <3>2 DEF SameCall, Decryptable
    <2> QED
      BY <2>1, <2>2 DEF RequestStep
  <1> QED
    BY <1>5, <1>7, <1>8, <1>9, <1>10

LEMMA NextMaterialInv ==
  TypeInv /\ ChainInv /\ MaterialInv /\ [Next]_vars => MaterialInv'
  <1> SUFFICES ASSUME TypeInv, ChainInv, MaterialInv, [Next]_vars
               PROVE  MaterialInv'
    OBVIOUS
  <1>0. TypeOK /\ TypeInv' /\ SurvivingStep
    BY NextTypeInv, StepSurvives DEF TypeInv
  <1>1. ASSUME issued \subseteq issued', IssueStep, \A r \in Requests : RequestStep(r)
        PROVE  MaterialInv'
    BY <1>0, <1>1, KeepMaterial
  <1>2. ASSUME UNCHANGED issued
        PROVE  issued \subseteq issued' /\ IssueStep
    BY <1>2 DEF IssueStep
  <1>3. ASSUME NEW r \in Requests,
               pc'[r] = "idle" \/ (pc'[r] = pc[r] /\ req'[r] = req[r])
        PROVE  RequestStep(r)
    BY <1>3 DEF RequestStep, SameCall
  <1>4. ASSUME NEW r \in Requests, Finish(r)
        PROVE  \A q \in Requests : RequestStep(q)
    <2>1. \A q \in Requests :
            pc'[q] = "idle" \/ (pc'[q] = pc[q] /\ req'[q] = req[q])
      BY <1>0, <1>4, FinishOthers
    <2> QED
      BY <1>3, <2>1
  <1>5. ASSUME NEW r \in Requests, RequestStep(r),
               \A q \in Requests : q # r => pc'[q] = pc[q] /\ req'[q] = req[q]
        PROVE  \A q \in Requests : RequestStep(q)
    BY <1>3, <1>5
  <1>6. ASSUME UNCHANGED <<issued, pc, req>>
        PROVE  MaterialInv'
    BY <1>1, <1>2, <1>3, <1>6
  <1>7. ASSUME NEW r \in Requests, Finish(r), UNCHANGED issued
        PROVE  MaterialInv'
    BY <1>1, <1>2, <1>4, <1>7
  <1>8. ASSUME NEW r \in Requests, RequestStep(r), UNCHANGED issued,
               \A q \in Requests : q # r => pc'[q] = pc[q] /\ req'[q] = req[q]
        PROVE  MaterialInv'
    BY <1>1, <1>2, <1>5, <1>8
  <1>9. CASE Tick \/ UNCHANGED vars
    BY <1>6, <1>9 DEF Tick, vars
  <1>10. ASSUME NEW k \in KeyIds, NEW n \in Names, NEW t \in KeyTypes,
                NEW s \in Secrets, InsertKey(k, n, t, s)
         PROVE  MaterialInv'
    BY <1>6, <1>10 DEF InsertKey
  <1>11. ASSUME NEW r \in Requests, NEW k \in KeyIds, NEW l, Started(r, k, l)
         PROVE  MaterialInv'
    <2>1. /\ pc'[r] = "fetched" /\ req'[r] = l /\ UNCHANGED issued /\ Live(k)
          /\ \A q \in Requests : q # r => pc'[q] = pc[q] /\ req'[q] = req[q]
          /\ l.key = k
          /\ l.op \in OpenOps => l.art \in issued /\ l.art.key = k
      BY <1>0, <1>11 DEF Started, Begin, TypeOK
    <2>2. Born(k)
      BY <2>1 DEF Live, LiveStates, Born
    <2>3. RequestStep(r)
      BY <2>1, <2>2 DEF RequestStep
    <2> QED
      BY <1>8, <2>1, <2>3
  <1>12. ASSUME NEW r \in Requests,
                StateStep(r) \/ (pc[r] = "fetched" /\ DeleteKey(r)) \/ RotateKey(r) \/ EndStep(r)
         PROVE  MaterialInv'
    <2>1. Finish(r) /\ UNCHANGED issued
      BY <1>12 DEF StateStep, SetKeyState, DeleteKey, RotateKey, WriteRotation, EndStep
    <2> QED
      BY <1>7, <2>1
  <1>13. ASSUME NEW r \in Requests, LoadVersion(r)
         PROVE  MaterialInv'
    <2>1. /\ pc[r] = "fetched" /\ pc'[r] = "loaded"
          /\ \A q \in Requests : q # r => pc'[q] = pc[q] /\ req'[q] = req[q]
          /\ HasRow(req[r].key, req[r].ver)
          /\ req'[r] = WithSecret(req[r], Row(req[r].key, req[r].ver).secret)
          /\ UNCHANGED <<managed_keys, key_versions, issued>>
      BY <1>0, <1>13 DEF LoadVersion, TypeOK
    <2>2. SameCall(r) /\ req'[r].secret = Row(req[r].key, req[r].ver).secret
      BY <2>1 DEF SameCall, WithSecret
    <2> QED
      BY <1>8, <2>1, <2>2 DEF RequestStep
  <1>14. ASSUME NEW r \in Requests, Reserve(r)
         PROVE  MaterialInv'
    <2>1. /\ pc[r] = "loaded" /\ pc'[r] = "reserved"
          /\ \A q \in Requests : q # r => pc'[q] = pc[q] /\ req'[q] = req[q]
          /\ req'[r] = WithSlot(req[r], Row(req[r].key, req[r].ver).usage_count + 1)
          /\ UNCHANGED issued
      BY <1>0, <1>14 DEF Reserve, ReserveBelow, At, TypeOK
    <2>2. SameCall(r) /\ req'[r].secret = req[r].secret /\ Loaded(r)
      BY <2>1 DEF SameCall, WithSlot, Loaded
    <2> QED
      BY <1>8, <2>1, <2>2 DEF RequestStep
  <1>15. ASSUME NEW r \in Requests, Seal(r)
         PROVE  MaterialInv'
    <2> PICK a : a = [key |-> req[r].key, ver |-> req[r].ver,
                      secret |-> req[r].secret, slot |-> req[r].slot]
      OBVIOUS
    <2>1. /\ a.key = req[r].key /\ a.ver = req[r].ver /\ a.secret = req[r].secret
      OBVIOUS
    <2>2. Loaded(r) /\ issued' = issued \cup {a} /\ Finish(r)
      BY <1>15 DEF Seal, At, Loaded
    <2>3. issued \subseteq issued' /\ IssueStep
      BY <2>1, <2>2 DEF IssueStep
    <2> QED
      BY <1>1, <1>4, <2>2, <2>3
  <1> QED
    BY <1>0, Steps, <1>9, <1>10, <1>11, <1>12, <1>13, <1>14, <1>15

LEMMA MaterialInvariant == Spec => [](TypeInv /\ ChainInv /\ MaterialInv)
  BY InitTypeInv, NextTypeInv, InitChainInv, NextChainInv,
     InitMaterialInv, NextMaterialInv, PTL DEF Spec

\* While a key lives, everything sealed under any of its versions can be
\* opened with the material it was sealed with, however often it is rotated.
THEOREM DecryptableHolds == Spec => []Decryptable
  BY MaterialInvariant, PTL DEF MaterialInv

\* A request that opens an artefact under the version that made it works on
\* the material that made it, whatever runs between its transactions.
THEOREM OpensWithItsOwnSecretHolds == Spec => []OpensWithItsOwnSecret
  BY MaterialInvariant, PTL DEF MaterialInv

-----------------------------------------------------------------------------
(* The nonce budget.  The usage count of a version is at least every slot  *)
(* taken from it, held or spent, so the next slot is always a new one.     *)

ReservedCovered ==
  \A r \in Requests : InFlight(r) /\ Live(req[r].key) =>
    req[r].slot <= Row(req[r].key, req[r].ver).usage_count

NoSlotYet ==
  \A r \in Requests : pc[r] \in {"fetched", "loaded"} => req[r].slot = 0

BudgetInv == NonceBudget /\ ReservedCovered /\ NoSlotYet

LEMMA InitBudgetInv == Init => BudgetInv
  BY DEF Init, BudgetInv, NonceBudget, ReservedCovered, NoSlotYet, InFlight

SlotHeld(r) ==
  /\ req[r].slot \in 1..HardLimit
  /\ \A q \in Requests :
       InFlight(q) /\ q # r /\ req[q].key = req[r].key /\ req[q].ver = req[r].ver
         => req[q].slot # req[r].slot
  /\ \A a \in issued : a.key = req[r].key /\ a.ver = req[r].ver => a.slot # req[r].slot

SlotSpent(a) == Live(a.key) => a.slot <= Row(a.key, a.ver).usage_count

LEMMA NonceBudgetParts ==
  NonceBudget <=> /\ \A r \in Requests : InFlight(r) => SlotHeld(r)
                  /\ \A a \in issued : SlotSpent(a)
  BY DEF NonceBudget, SlotHeld, SlotSpent

\* What every step but a reservation does to a request's slot.
SlotStep(r) ==
  \/ pc'[r] = "idle"
  \/ pc'[r] \in {"fetched", "loaded"} /\ req'[r].slot = 0
  \/ pc[r] = "reserved" /\ pc'[r] = pc[r] /\ req'[r] = req[r]

SpendStep ==
  \A a \in issued' :
    \/ a \in issued
    \/ \E r \in Requests :
         /\ Loaded(r) /\ pc'[r] = "idle"
         /\ a.key = req[r].key /\ a.ver = req[r].ver /\ a.slot = req[r].slot

LEMMA UsageGrows ==
  ASSUME TypeInv, TypeInv', MaterialInv, SurvivingStep,
         NEW k \in KeyIds, NEW v, Born(k), Live(k)', NEW n \in Nat,
         Live(k) => HasRow(k, v) /\ n <= Row(k, v).usage_count
  PROVE  n <= Row(k, v)'.usage_count
  <1>1. Live(k) /\ HasRow(k, v) /\ v \in Versions
    BY DEF SurvivingStep, Born, HasRow
  <1>2. Row(k, v)'.usage_count >= Row(k, v).usage_count
    BY <1>1 DEF SurvivingStep, Born, VersionSurvives
  <1>3. Row(k, v).usage_count \in Nat
    BY <1>1 DEF TypeInv, TypeOK, VersionRow, Row
  <1>4. HasRow(k, v)'
    BY <1>1 DEF SurvivingStep, Born, VersionSurvives
  <1> PICK x : x = Row(k, v)'.usage_count
    OBVIOUS
  <1> PICK y : y = Row(k, v).usage_count
    OBVIOUS
  <1>5. n <= y /\ y \in Nat /\ x >= y
    BY <1>1, <1>2, <1>3
  <1>6. x \in Int
    BY <1>1 DEF TypeInv, TypeOK, VersionRow, Row
  <1> QED
    BY <1>5, <1>6

LEMMA KeepBudget ==
  ASSUME TypeInv, TypeInv', MaterialInv, BudgetInv, SurvivingStep, SpendStep,
         \A r \in Requests : SlotStep(r)
  PROVE  BudgetInv'
  <1>1. ASSUME NEW r \in Requests, pc[r] # "idle"
        PROVE  req[r].key \in KeyIds /\ req[r].slot \in Nat /\ Born(req[r].key)
    BY <1>1 DEF TypeInv, TypeOK, LocalsTyped, Local, MaterialInv, LocalsBorn
  <1>2. ASSUME NEW r \in Requests, InFlight(r)
        PROVE  SlotHeld(r)
    BY <1>2, NonceBudgetParts DEF BudgetInv
  <1>3. ASSUME NEW r \in Requests, InFlight(r)'
        PROVE  InFlight(r) /\ pc'[r] = pc[r] /\ req'[r] = req[r]
    BY <1>3 DEF InFlight, SlotStep
  <1>4. ASSUME NEW r \in Requests, Loaded(r), Live(req[r].key)
        PROVE  /\ HasRow(req[r].key, req[r].ver)
               /\ req[r].slot <= Row(req[r].key, req[r].ver).usage_count
    <2>1. HasRow(req[r].key, req[r].ver)
      BY <1>4 DEF MaterialInv, LoadedMatches
    <2>2. Row(req[r].key, req[r].ver).usage_count \in Nat
      BY <1>1, <1>4, <2>1 DEF Loaded, HasRow, TypeInv, TypeOK, VersionRow, Row
    <2> QED
      BY <1>4, <2>1, <2>2 DEF BudgetInv, ReservedCovered, NoSlotYet, InFlight, Loaded
  <1>5. ASSUME NEW a \in issued'
        PROVE  /\ a.key \in KeyIds /\ a.slot \in Nat /\ Born(a.key)
               /\ Live(a.key) => HasRow(a.key, a.ver)
                                   /\ a.slot <= Row(a.key, a.ver).usage_count
    <2>1. CASE a \in issued
      <3>1. a.key \in KeyIds /\ a.slot \in Nat
        BY <2>1 DEF TypeInv, TypeOK, Artefact
      <3>2. SlotSpent(a)
        BY <2>1, NonceBudgetParts DEF BudgetInv
      <3> QED
        BY <2>1, <3>1, <3>2 DEF SlotSpent, MaterialInv, IssuedBorn, Decryptable
    <2>2. ASSUME NEW r \in Requests, Loaded(r),
                 a.key = req[r].key, a.ver = req[r].ver, a.slot = req[r].slot
          PROVE  /\ a.key \in KeyIds /\ a.slot \in Nat /\ Born(a.key)
                 /\ Live(a.key) => HasRow(a.key, a.ver)
                                     /\ a.slot <= Row(a.key, a.ver).usage_count
      BY <1>1, <1>4, <2>2 DEF Loaded
    <2> QED
      BY <2>1, <2>2 DEF SpendStep
  <1>6. ASSUME NEW a \in issued'
        PROVE  SlotSpent(a)'
    <2> SUFFICES ASSUME Live(a.key)'
                 PROVE  a.slot <= Row(a.key, a.ver)'.usage_count
      BY DEF SlotSpent
    <2> PICK k, v, n : k = a.key /\ v = a.ver /\ n = a.slot
      OBVIOUS
    <2>1. k \in KeyIds /\ Born(k) /\ n \in Nat
      BY <1>5
    <2>2. Live(k) => HasRow(k, v) /\ n <= Row(k, v).usage_count
      BY <1>5
    <2>3. Live(k)'
      OBVIOUS
    <2>4. n <= Row(k, v)'.usage_count
      BY <2>1, <2>2, <2>3, UsageGrows
    <2> QED
      BY <2>4
  <1>7. ASSUME NEW r \in Requests, InFlight(r)'
        PROVE  SlotHeld(r)'
    <2>1. InFlight(r) /\ req'[r] = req[r] /\ pc'[r] = pc[r] /\ SlotHeld(r)
      BY <1>2, <1>3, <1>7
    <2>2. ASSUME NEW q \in Requests, InFlight(q)', q # r,
                 req'[q].key = req'[r].key, req'[q].ver = req'[r].ver
          PROVE  req'[q].slot # req'[r].slot
      BY <1>3, <2>1, <2>2 DEF SlotHeld
    <2>3. ASSUME NEW a \in issued', a.key = req'[r].key, a.ver = req'[r].ver
          PROVE  a.slot # req'[r].slot
      <3>1. CASE a \in issued
        BY <2>1, <2>3, <3>1 DEF SlotHeld
      <3>2. ASSUME NEW q \in Requests, Loaded(q), pc'[q] = "idle",
                   a.key = req[q].key, a.ver = req[q].ver, a.slot = req[q].slot
            PROVE  a.slot # req'[r].slot
        <4>1. q # r
          BY <2>1, <3>2 DEF InFlight
        <4>2. CASE InFlight(q)
          BY <2>1, <2>3, <3>2, <4>1, <4>2 DEF SlotHeld
        <4>3. CASE ~InFlight(q)
          <5>1. req[q].slot = 0
            BY <3>2, <4>3 DEF Loaded, InFlight, BudgetInv, NoSlotYet
          <5>2. req[r].slot # 0
            BY <2>1 DEF SlotHeld
          <5> QED
            BY <2>1, <3>2, <5>1, <5>2
        <4> QED
          BY <4>2, <4>3
      <3> QED
        BY <3>1, <3>2 DEF SpendStep
    <2> QED
      BY <2>1, <2>2, <2>3 DEF SlotHeld
  <1>8. ReservedCovered'
    <2> SUFFICES ASSUME NEW r \in Requests, InFlight(r)', Live(req[r].key)'
                 PROVE  req'[r].slot <= Row(req[r].key, req[r].ver)'.usage_count
      BY DEF ReservedCovered
    <2>1. InFlight(r) /\ req'[r] = req[r]
      BY <1>3
    <2> PICK k, v, n : k = req[r].key /\ v = req[r].ver /\ n = req[r].slot
      OBVIOUS
    <2>2. k \in KeyIds /\ Born(k) /\ n \in Nat
      BY <1>1, <2>1 DEF InFlight
    <2>3. Live(k) => HasRow(k, v) /\ n <= Row(k, v).usage_count
      BY <1>4, <2>1 DEF InFlight, Loaded
    <2>4. Live(k)'
      BY <2>1 DEF Live
    <2>5. n <= Row(k, v)'.usage_count
      BY <2>2, <2>3, <2>4, UsageGrows
    <2>6. k = req'[r].key /\ v = req'[r].ver /\ n = req'[r].slot
      BY <2>1
    <2> QED
      BY <2>5, <2>6 DEF Row
  <1>9. NoSlotYet'
    BY DEF NoSlotYet, SlotStep
  <1>10. NonceBudget'
    BY <1>6, <1>7 DEF NonceBudget, SlotHeld, SlotSpent
  <1> QED
    BY <1>8, <1>9, <1>10 DEF BudgetInv

\* A reservation takes the slot after every slot taken so far.
LEMMA ReserveBudget ==
  ASSUME TypeInv, TypeInv', ChainInv, MaterialInv, BudgetInv, SurvivingStep,
         NEW r \in Requests, Reserve(r)
  PROVE  BudgetInv'
  <1>0. TypeOK
    BY DEF TypeInv
  <1> PICK k, v, n : k = req[r].key /\ v = req[r].ver /\ n = Row(k, v).usage_count + 1
    OBVIOUS
  <1>1. /\ pc[r] = "loaded" /\ pc'[r] = "reserved"
        /\ \A q \in Requests : q # r => pc'[q] = pc[q] /\ req'[q] = req[q]
        /\ req'[r] = WithSlot(req[r], n)
        /\ HasRow(k, v) /\ Row(k, v).usage_count < HardLimit
        /\ key_versions' = [key_versions EXCEPT ![k] = [@ EXCEPT ![v] = UsedOnceMore(Row(k, v))]]
        /\ UNCHANGED <<managed_keys, issued>>
    BY <1>0 DEF Reserve, ReserveBelow, At, TypeOK, Row
  <1>2. k \in KeyIds /\ v \in Versions
    BY <1>1 DEF HasRow, TypeInv, LocalsTyped
  <1>3. Row(k, v).usage_count \in Nat
    BY <1>0, <1>2 DEF TypeOK, VersionRow, Row
  <1>4. n \in 1..HardLimit
    <2> PICK u : u = Row(k, v).usage_count
      OBVIOUS
    <2>1. u \in Nat /\ u < HardLimit /\ n = u + 1
      BY <1>1, <1>3
    <2> QED
      BY <2>1
  <1>5. /\ req'[r].key = k /\ req'[r].ver = v /\ req'[r].slot = n
    BY <1>1 DEF WithSlot
  <1>6. \A j \in KeyIds, w \in Versions :
          Row(j, w)'.usage_count = IF j = k /\ w = v THEN n ELSE Row(j, w).usage_count
    <2> SUFFICES ASSUME NEW j \in KeyIds, NEW w \in Versions
                 PROVE  Row(j, w)'.usage_count
                          = IF j = k /\ w = v THEN n ELSE Row(j, w).usage_count
      OBVIOUS
    <2>1. CASE j = k /\ w = v
      <3>1. Row(j, w)' = UsedOnceMore(Row(k, v))
        BY <1>0, <1>1, <1>2, <2>1 DEF TypeOK, Row
      <3> QED
        BY <2>1, <3>1 DEF UsedOnceMore
    <2>2. CASE ~(j = k /\ w = v)
      BY <1>0, <1>1, <1>2, <2>2 DEF TypeOK, Row
    <2> QED
      BY <2>1, <2>2
  <1>7. Live(k)
    BY <1>1, <1>2 DEF ChainInv, VersionChain, HasRow
  \* Every slot held or spent is at most the count, so below the new one.
  <1>8. ASSUME NEW q \in Requests, InFlight(q)
        PROVE  /\ SlotHeld(q)
               /\ req[q].key = k /\ req[q].ver = v => req[q].slot < n
    <2>1. SlotHeld(q)
      BY <1>8, NonceBudgetParts DEF BudgetInv
    <2>2. ASSUME req[q].key = k, req[q].ver = v
          PROVE  req[q].slot < n
      <3>1. req[q].slot <= Row(k, v).usage_count
        BY <1>7, <1>8, <2>2 DEF BudgetInv, ReservedCovered
      <3>2. req[q].slot \in Nat
        BY <1>0 DEF TypeOK, Local
      <3> QED
        BY <1>3, <3>1, <3>2
    <2> QED
      BY <2>1, <2>2
  <1>9. ASSUME NEW a \in issued
        PROVE  /\ SlotSpent(a)
               /\ a.key = k /\ a.ver = v => a.slot < n
    <2>1. SlotSpent(a)
      BY NonceBudgetParts DEF BudgetInv
    <2>2. a.slot \in Nat
      BY <1>0 DEF TypeOK, Artefact
    <2> QED
      BY <1>3, <1>7, <2>1, <2>2 DEF SlotSpent
  <1>10. ASSUME NEW a \in issued'
         PROVE  SlotSpent(a)'
    <2> SUFFICES ASSUME Live(a.key)'
                 PROVE  a.slot <= Row(a.key, a.ver)'.usage_count
      BY DEF SlotSpent
    <2>1. a \in issued /\ a.key \in KeyIds /\ a.slot \in Nat
      BY <1>0, <1>1 DEF TypeOK, Artefact
    <2>2. Live(a.key)
      BY <1>1 DEF Live
    <2>3. a.ver \in Versions /\ a.slot <= Row(a.key, a.ver).usage_count
      BY <1>9, <2>1, <2>2 DEF SlotSpent, MaterialInv, Decryptable, HasRow
    <2>4. CASE a.key = k /\ a.ver = v
      BY <1>6, <1>9, <1>2, <1>3, <2>1, <2>4
    <2>5. CASE ~(a.key = k /\ a.ver = v)
      BY <1>6, <2>1, <2>3, <2>5
    <2> QED
      BY <2>4, <2>5
  <1>11. ASSUME NEW q \in Requests, InFlight(q)'
         PROVE  SlotHeld(q)'
    <2>1. CASE q = r
      <3>1. ASSUME NEW p \in Requests, InFlight(p)', p # r,
                   req'[p].key = k, req'[p].ver = v
            PROVE  req'[p].slot # n
        <4>1. InFlight(p) /\ req'[p] = req[p]
          BY <1>1, <3>1 DEF InFlight
        <4>2. req[p].slot < n /\ req[p].slot \in Nat
          BY <1>0, <1>8, <3>1, <4>1 DEF TypeOK, Local
        <4> QED
          BY <1>4, <4>1, <4>2
      <3>2. ASSUME NEW a \in issued', a.key = k, a.ver = v
            PROVE  a.slot # n
        <4>1. a \in issued /\ a.slot < n /\ a.slot \in Nat
          BY <1>0, <1>1, <1>9, <3>2 DEF TypeOK, Artefact
        <4> QED
          BY <1>4, <4>1
      <3> QED
        BY <1>4, <1>5, <2>1, <3>1, <3>2 DEF SlotHeld
    <2>2. CASE q # r
      <3>1. InFlight(q) /\ req'[q] = req[q] /\ SlotHeld(q)
        BY <1>1, <1>8, <1>11, <2>2 DEF InFlight
      <3>2. ASSUME NEW p \in Requests, InFlight(p)', p # q,
                   req'[p].key = req'[q].key, req'[p].ver = req'[q].ver
            PROVE  req'[p].slot # req'[q].slot
        <4>1. CASE p = r
          <5>1. req[q].slot < n /\ req[q].slot \in Nat
            BY <1>0, <1>5, <1>8, <3>1, <3>2, <4>1 DEF TypeOK, Local
          <5> QED
            BY <1>4, <1>5, <3>1, <4>1, <5>1
        <4>2. CASE p # r
          BY <1>1, <3>1, <3>2, <4>2 DEF InFlight, SlotHeld
        <4> QED
          BY <4>1, <4>2
      <3> QED
        BY <1>1, <3>1, <3>2 DEF SlotHeld
    <2> QED
      BY <2>1, <2>2
  <1>12. ReservedCovered'
    <2> SUFFICES ASSUME NEW q \in Requests, InFlight(q)', Live(req[q].key)'
                 PROVE  req'[q].slot <= Row(req[q].key, req[q].ver)'.usage_count
      BY DEF ReservedCovered
    <2> PICK j, w, m : j = req'[q].key /\ w = req'[q].ver /\ m = req'[q].slot
      OBVIOUS
    <2>1. CASE q = r
      <3>1. j = k /\ w = v /\ m = n
        BY <1>5, <2>1
      <3>2. m <= Row(j, w)'.usage_count
        BY <1>2, <1>4, <1>6, <3>1
      <3> QED
        BY <3>2 DEF Row
    <2>2. CASE q # r
      <3>1. InFlight(q) /\ req'[q] = req[q]
        BY <1>1, <2>2 DEF InFlight
      <3>2. j \in KeyIds /\ Live(j)
        BY <1>1, <3>1 DEF InFlight, TypeInv, LocalsTyped, Live
      <3>3. w \in Versions /\ m <= Row(j, w).usage_count /\ m \in Nat
        BY <1>0, <3>1, <3>2
        DEF InFlight, Loaded, MaterialInv, LoadedMatches, HasRow, BudgetInv,
            ReservedCovered, TypeOK, Local
      <3>4. j = k /\ w = v => m < n
        BY <1>8, <3>1
      <3>5. m <= Row(j, w)'.usage_count
        <4>1. CASE j = k /\ w = v
          BY <1>2, <1>4, <1>6, <3>3, <3>4, <4>1
        <4>2. CASE ~(j = k /\ w = v)
          BY <1>6, <3>2, <3>3, <4>2
        <4> QED
          BY <4>1, <4>2
      <3> QED
        BY <3>5 DEF Row
    <2> QED
      BY <2>1, <2>2
  <1>13. NoSlotYet'
    <2> SUFFICES ASSUME NEW q \in Requests, pc'[q] \in {"fetched", "loaded"}
                 PROVE  req'[q].slot = 0
      BY DEF NoSlotYet
    <2>1. q # r
      BY <1>1
    <2> QED
      BY <1>1, <2>1 DEF BudgetInv, NoSlotYet
  <1> QED
    BY <1>10, <1>11, <1>12, <1>13 DEF BudgetInv, NonceBudget, SlotHeld, SlotSpent

LEMMA NextBudgetInv ==
  TypeInv /\ ChainInv /\ MaterialInv /\ BudgetInv /\ [Next]_vars => BudgetInv'
  <1> SUFFICES ASSUME TypeInv, ChainInv, MaterialInv, BudgetInv, [Next]_vars
               PROVE  BudgetInv'
    OBVIOUS
  <1>0. TypeOK /\ TypeInv' /\ SurvivingStep
    BY NextTypeInv, StepSurvives DEF TypeInv
  <1>1. ASSUME SpendStep, \A r \in Requests : SlotStep(r)
        PROVE  BudgetInv'
    BY <1>0, <1>1, KeepBudget
  <1>2. ASSUME UNCHANGED issued
        PROVE  SpendStep
    BY <1>2 DEF SpendStep
  <1>3. ASSUME NEW r \in Requests,
               pc'[r] = "idle" \/ (pc'[r] = pc[r] /\ req'[r] = req[r])
        PROVE  SlotStep(r)
    <2>1. pc[r] \in {"idle", "fetched", "loaded", "reserved"}
      BY <1>0 DEF TypeOK
    <2> QED
      BY <1>3, <2>1 DEF SlotStep, BudgetInv, NoSlotYet
  <1>4. ASSUME NEW r \in Requests, Finish(r)
        PROVE  pc'[r] = "idle" /\ \A q \in Requests : SlotStep(q)
    <2>1. \A q \in Requests :
            pc'[q] = "idle" \/ (pc'[q] = pc[q] /\ req'[q] = req[q])
      BY <1>0, <1>4, FinishOthers
    <2>2. pc'[r] = "idle"
      BY <1>0, <1>4 DEF Finish, TypeOK
    <2> QED
      BY <1>3, <2>1, <2>2
  <1>5. ASSUME NEW r \in Requests, pc'[r] \in {"fetched", "loaded"}, req'[r].slot = 0,
               UNCHANGED issued,
               \A q \in Requests : q # r => pc'[q] = pc[q] /\ req'[q] = req[q]
        PROVE  BudgetInv'
    <2>1. SlotStep(r)
      BY <1>5 DEF SlotStep
    <2> QED
      BY <1>1, <1>2, <1>3, <1>5, <2>1
  <1>6. CASE Tick \/ UNCHANGED vars
    BY <1>1, <1>2, <1>3, <1>6 DEF Tick, vars
  <1>7. ASSUME NEW k \in KeyIds, NEW n \in Names, NEW t \in KeyTypes,
               NEW s \in Secrets, InsertKey(k, n, t, s)
        PROVE  BudgetInv'
    BY <1>1, <1>2, <1>3, <1>7 DEF InsertKey
  <1>8. ASSUME NEW r \in Requests, NEW k \in KeyIds, NEW l, Started(r, k, l)
        PROVE  BudgetInv'
    BY <1>0, <1>5, <1>8 DEF Started, Begin, TypeOK
  <1>9. ASSUME NEW r \in Requests,
               StateStep(r) \/ (pc[r] = "fetched" /\ DeleteKey(r)) \/ RotateKey(r) \/ EndStep(r)
        PROVE  BudgetInv'
    <2>1. Finish(r) /\ UNCHANGED issued
      BY <1>9 DEF StateStep, SetKeyState, DeleteKey, RotateKey, WriteRotation, EndStep
    <2> QED
      BY <1>1, <1>2, <1>4, <2>1
  <1>10. ASSUME NEW r \in Requests, LoadVersion(r)
         PROVE  BudgetInv'
    <2>1. /\ pc[r] = "fetched" /\ pc'[r] = "loaded"
          /\ \A q \in Requests : q # r => pc'[q] = pc[q] /\ req'[q] = req[q]
          /\ req'[r] = WithSecret(req[r], Row(req[r].key, req[r].ver).secret)
          /\ UNCHANGED issued
      BY <1>0, <1>10 DEF LoadVersion, TypeOK
    <2>2. req'[r].slot = 0
      BY <2>1 DEF WithSecret, BudgetInv, NoSlotYet
    <2> QED
      BY <1>5, <2>1, <2>2
  <1>11. ASSUME NEW r \in Requests, Reserve(r)
         PROVE  BudgetInv'
    BY <1>0, <1>11, ReserveBudget
  <1>12. ASSUME NEW r \in Requests, Seal(r)
         PROVE  BudgetInv'
    <2> PICK a : a = [key |-> req[r].key, ver |-> req[r].ver,
                      secret |-> req[r].secret, slot |-> req[r].slot]
      OBVIOUS
    <2>1. a.key = req[r].key /\ a.ver = req[r].ver /\ a.slot = req[r].slot
      OBVIOUS
    <2>2. Loaded(r) /\ issued' = issued \cup {a} /\ Finish(r)
      BY <1>12 DEF Seal, At, Loaded
    <2>3. SpendStep
      BY <1>4, <2>1, <2>2 DEF SpendStep
    <2> QED
      BY <1>1, <1>4, <2>2, <2>3
  <1> QED
    BY <1>0, Steps, <1>6, <1>7, <1>8, <1>9, <1>10, <1>11, <1>12

\* However encryptions, rotations and destructions interleave, no two
\* ciphertexts, made or being made, share a slot of their key version, and
\* no slot lies beyond the hard limit.
THEOREM NonceBudgetHolds == Spec => []NonceBudget
  <1>1. Spec => [](TypeInv /\ ChainInv /\ MaterialInv /\ BudgetInv)
    BY InitTypeInv, NextTypeInv, InitChainInv, NextChainInv, InitMaterialInv,
       NextMaterialInv, InitBudgetInv, NextBudgetInv, PTL DEF Spec
  <1> QED
    BY <1>1, PTL DEF BudgetInv

-----------------------------------------------------------------------------
(* Destruction.                                                            *)

\* No step touches the row of a destroyed key.
LEMMA DestroyedStays ==
  ASSUME TypeInv, ChainInv, [Next]_vars, NEW k \in KeyIds,
         managed_keys[k].state = "destroyed"
  PROVE  managed_keys'[k] = managed_keys[k]
  <1>0. ~Live(k) /\ TypeOK
    BY DEF Live, LiveStates, TypeInv
  <1>1. CASE Tick \/ UNCHANGED vars
    BY <1>1 DEF Tick, vars
  <1>2. ASSUME NEW j \in KeyIds, NEW n \in Names, NEW t \in KeyTypes, NEW s \in Secrets,
               InsertKey(j, n, t, s)
        PROVE  managed_keys'[k] = managed_keys[k]
    BY <1>0, <1>2 DEF InsertKey, TypeOK
  <1>3. ASSUME NEW r \in Requests, StateStep(r)
        PROVE  managed_keys'[k] = managed_keys[k]
    BY <1>0, <1>3 DEF StateStep, SetKeyState, TypeOK
  <1>4. ASSUME NEW r \in Requests, pc[r] = "fetched", DeleteKey(r)
        PROVE  managed_keys'[k] = managed_keys[k]
    BY <1>0, <1>4, DeletionEffect
  <1>5. ASSUME NEW r \in Requests, RotateKey(r)
        PROVE  managed_keys'[k] = managed_keys[k]
    BY <1>0, <1>5, RotationEffect
  <1>6. ASSUME NEW r \in Requests,
               \/ \E j \in KeyIds : \E l : Started(r, j, l)
               \/ LoadVersion(r) \/ Reserve(r) \/ Seal(r) \/ EndStep(r)
        PROVE  managed_keys'[k] = managed_keys[k]
    BY <1>6 DEF Started, Begin, LoadVersion, Reserve, ReserveBelow, Seal, EndStep
  <1> QED
    BY <1>0, <1>1, <1>2, <1>3, <1>4, <1>5, <1>6, Steps

\* Who holds material of a destroyed key held it before, and what is handed out
\* is sealed with material that is held.
LEMMA HoldersOfDestroyed ==
  ASSUME TypeInv, ChainInv, [Next]_vars, NEW k \in KeyIds,
         managed_keys[k].state = "destroyed"
  PROVE  /\ \A r \in Requests : Loaded(r)' /\ req'[r].key = k =>
              Loaded(r) /\ req[r].key = k
         /\ \A a \in issued' : a \in issued \/ \E r \in Requests : Loaded(r) /\ req[r].key = a.key
  <1> DEFINE Holders == \A r \in Requests : Loaded(r)' /\ req'[r].key = k =>
                          Loaded(r) /\ req[r].key = k
             Handed == \A a \in issued' :
                         a \in issued \/ \E r \in Requests : Loaded(r) /\ req[r].key = a.key
  <1>0. ~Live(k) /\ TypeOK
    BY DEF Live, LiveStates, TypeInv
  <1>1. CASE Tick \/ UNCHANGED vars
    BY <1>1 DEF Tick, vars, Loaded
  <1>2. ASSUME NEW j \in KeyIds, NEW n \in Names, NEW t \in KeyTypes, NEW s \in Secrets,
               InsertKey(j, n, t, s)
        PROVE  Holders /\ Handed
    BY <1>2 DEF InsertKey, Loaded
  <1>3. ASSUME NEW r \in Requests, Finish(r)
        PROVE  Holders
    BY <1>0, <1>3, FinishOthers DEF Loaded
  <1>4. ASSUME NEW r \in Requests,
               StateStep(r) \/ (pc[r] = "fetched" /\ DeleteKey(r)) \/ RotateKey(r) \/ EndStep(r)
        PROVE  Holders /\ Handed
    <2>1. Finish(r) /\ UNCHANGED issued
      BY <1>4 DEF StateStep, SetKeyState, DeleteKey, RotateKey, WriteRotation, EndStep
    <2> QED
      BY <1>3, <2>1
  <1>5. ASSUME NEW r \in Requests, NEW j \in KeyIds, NEW l, Started(r, j, l)
        PROVE  Holders /\ Handed
    BY <1>0, <1>5 DEF Started, Begin, TypeOK, Loaded
  <1>6. ASSUME NEW r \in Requests, LoadVersion(r)
        PROVE  Holders /\ Handed
    <2>1. /\ HasRow(req[r].key, req[r].ver) /\ req'[r].key = req[r].key
          /\ \A q \in Requests : q # r => pc'[q] = pc[q] /\ req'[q] = req[q]
          /\ UNCHANGED issued
      BY <1>0, <1>6 DEF LoadVersion, WithSecret, TypeOK
    <2>2. req[r].key # k
      BY <1>0, <2>1 DEF HasRow, ChainInv, VersionChain
    <2> QED
      BY <2>1, <2>2 DEF Loaded
  <1>7. ASSUME NEW r \in Requests, Reserve(r)
        PROVE  Holders /\ Handed
    <2>1. /\ pc[r] = "loaded" /\ req'[r].key = req[r].key
          /\ \A q \in Requests : q # r => pc'[q] = pc[q] /\ req'[q] = req[q]
          /\ UNCHANGED issued
      BY <1>0, <1>7 DEF Reserve, ReserveBelow, At, WithSlot, TypeOK
    <2> QED
      BY <2>1 DEF Loaded
  <1>8. ASSUME NEW r \in Requests, Seal(r)
        PROVE  Holders /\ Handed
    <2> PICK a : a = [key |-> req[r].key, ver |-> req[r].ver,
                      secret |-> req[r].secret, slot |-> req[r].slot]
      OBVIOUS
    <2>1. a.key = req[r].key
      OBVIOUS
    <2>2. Loaded(r) /\ issued' = issued \cup {a} /\ Finish(r)
      BY <1>8 DEF Seal, At, Loaded
    <2> QED
      BY <1>3, <2>1, <2>2
  <1> QED
    BY <1>0, <1>1, <1>2, <1>4, <1>5, <1>6, <1>7, <1>8, Steps

\* When the last request that held material of a destroyed key has ended, none
\* gets it again and nothing more is sealed under the key, however requests
\* that fetched it before its destruction go on.
THEOREM ShreddedForGoodHolds == Spec => ShreddedForGood
  <1>1. Spec => [](TypeInv /\ ChainInv)
    BY InitTypeInv, NextTypeInv, InitChainInv, NextChainInv, PTL DEF Spec
  <1>2. ASSUME TypeInv, ChainInv, [Next]_vars, NEW k \in KeyIds, Shredded(k)
        PROVE  Shredded(k)' /\ \A a \in issued' : a.key = k => a \in issued
    <2>1. /\ managed_keys[k].state = "destroyed"
          /\ \A r \in Requests : ~(Loaded(r) /\ req[r].key = k)
      BY <1>2 DEF Shredded, Loaded
    <2>2. managed_keys'[k].state = "destroyed"
      BY <1>2, <2>1, DestroyedStays
    <2>3. \A r \in Requests : ~(Loaded(r)' /\ req'[r].key = k)
      BY <1>2, <2>1, HoldersOfDestroyed
    <2>4. \A a \in issued' : a.key = k => a \in issued
      BY <1>2, <2>1, HoldersOfDestroyed
    <2> QED
      BY <2>2, <2>3, <2>4 DEF Shredded, Loaded
  <1>3. TypeInv /\ ChainInv /\ [Next]_vars =>
          [\A k \in KeyIds : Shredded(k) =>
             /\ Shredded(k)'
             /\ \A a \in issued' : a.key = k => a \in issued]_vars
    BY <1>2
  <1> QED
    BY <1>1, <1>3, PTL DEF Spec, ShreddedForGood

\* destroy_key destroys a key before its time only when the deletion was
\* cancelled or dated anew between its check and its transaction.
THEOREM EarlyDestructionsAreAlwaysRaces == Spec => EarlyDestructionsAreRaces
  <1> DEFINE Excuse(k) ==
        \/ \E r \in Requests : At(r, "fetched", "force_destroy") /\ req[r].key = k
        \/ managed_keys[k].state = "pending_deletion" /\ managed_keys[k].deletion_at <= now
        \/ \E r \in Requests :
             /\ At(r, "fetched", "destroy") /\ req[r].key = k
             /\ req[r].due <= now /\ req[r].due # managed_keys[k].deletion_at
  <1>1. Spec => [](TypeInv /\ ChainInv /\ DatedInv)
    BY InitTypeInv, NextTypeInv, InitChainInv, NextChainInv, InitDatedInv, NextDatedInv,
       PTL DEF Spec
  <1>2. ASSUME TypeInv, ChainInv, DatedInv, [Next]_vars, NEW k \in KeyIds, Live(k), ~Live(k)'
        PROVE  Excuse(k)
    <2>0. TypeOK
      BY <1>2 DEF TypeInv
    <2>1. CASE Tick \/ UNCHANGED vars
      BY <1>2, <2>1 DEF Tick, vars, Live
    <2>2. CASE Create
      <3>1. PICK j \in KeyIds, n \in Names, t \in KeyTypes, s \in Secrets : InsertKey(j, n, t, s)
        BY <2>2 DEF Create, CreateKey, ImportKey, FreshSecrets
      <3> QED
        BY <1>2, <2>0, <3>1 DEF InsertKey, TypeOK, Live, LiveStates
    <2>3. ASSUME NEW r \in Requests,
                 \/ \E j \in KeyIds : StartLifecycle(r, j)
                 \/ StartCrypto(r)
                 \/ LoadVersion(r) \/ Reserve(r) \/ Seal(r) \/ Open(r) \/ Abandon(r)
          PROVE  UNCHANGED managed_keys
      <3>1. CASE \E j \in KeyIds : StartLifecycle(r, j)
        BY <2>0, <3>1, LifecycleStarts DEF Started, Begin
      <3>2. CASE StartCrypto(r)
        BY <2>0, <3>2, CryptoStarts DEF Started, Begin
      <3> QED
        BY <2>3, <3>1, <3>2 DEF LoadVersion, Reserve, ReserveBelow, Seal, Open, Abandon
    <2>4. ASSUME NEW r \in Requests,
                 \/ DisableKey(r) \/ EnableKey(r) \/ ScheduleDeletion(r) \/ CancelDeletion(r)
          PROVE  Live(k)'
      BY <1>2, <2>0, <2>4
      DEF DisableKey, EnableKey, ScheduleDeletion, CancelDeletion, SetKeyState, SetState,
          Live, LiveStates, TypeOK
    <2>5. ASSUME NEW r \in Requests, RotateKey(r)
          PROVE  Live(k)'
      <3>1. PICK j \in KeyIds : j = req[r].key
        BY <1>2, <2>5, RotationEffect
      <3>2. /\ \A i \in KeyIds : i # j => managed_keys'[i] = managed_keys[i]
            /\ managed_keys'[j] = SetCurrent(managed_keys[j], req[r].ver + 1)
        BY <1>2, <2>5, <3>1, RotationEffect
      <3> QED
        BY <1>2, <3>2 DEF SetCurrent, Live
    <2>6. ASSUME NEW r \in Requests, DestroyKey(r) \/ ForceDestroyKey(r)
          PROVE  Excuse(k)
      <3>1. pc[r] = "fetched" /\ DeleteKey(r)
        BY <2>6 DEF DestroyKey, ForceDestroyKey, At
      <3>2. req[r].key = k
        BY <1>2, <3>1, DeletionEffect DEF Live
      <3>3. CASE ForceDestroyKey(r)
        BY <3>2, <3>3 DEF ForceDestroyKey
      <3>4. CASE DestroyKey(r)
        <4>1. At(r, "fetched", "destroy") /\ req[r].due # None /\ req[r].due <= now
          BY <3>4 DEF DestroyKey
        <4>2. managed_keys[k].deletion_at # None => managed_keys[k].state = "pending_deletion"
          BY <1>2 DEF DatedInv, DatedIffPending
        <4> QED
          BY <3>2, <4>1, <4>2
      <3> QED
        BY <2>6, <3>3, <3>4
    <2>7. ASSUME NEW r \in Requests,
                 \/ \E j \in KeyIds : StartLifecycle(r, j)
                 \/ StartCrypto(r) \/ Transact(r) \/ Abandon(r)
          PROVE  Excuse(k)
      <3> HIDE DEF Excuse
      <3>1. UNCHANGED managed_keys => Live(k)'
        BY <1>2 DEF Live
      <3> QED
        BY <1>2, <2>3, <2>4, <2>5, <2>6, <2>7, <3>1 DEF Transact
    <2>8. \/ Tick \/ UNCHANGED vars
          \/ Create
          \/ \E r \in Requests :
               \/ \E j \in KeyIds : StartLifecycle(r, j)
               \/ StartCrypto(r) \/ Transact(r) \/ Abandon(r)
      BY <1>2 DEF Next
    <2> QED
      BY <2>1, <2>2, <2>7, <2>8
  <1>3. TypeInv /\ ChainInv /\ DatedInv /\ [Next]_vars =>
          [\A k \in KeyIds : Live(k) /\ ~Live(k)' =>
             \/ \E r \in Requests : At(r, "fetched", "force_destroy") /\ req[r].key = k
             \/ /\ managed_keys[k].state = "pending_deletion"
                /\ managed_keys[k].deletion_at <= now
             \/ \E r \in Requests :
                  /\ At(r, "fetched", "destroy") /\ req[r].key = k
                  /\ req[r].due <= now /\ req[r].due # managed_keys[k].deletion_at]_vars
    BY <1>2
  <1> QED
    BY <1>1, <1>3, PTL DEF Spec, EarlyDestructionsAreRaces
=============================================================================
