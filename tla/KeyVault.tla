------------------------------ MODULE KeyVault ------------------------------
(***************************************************************************)
(* What the key store promises about key material, with every operation    *)
(* atomic: a key is a sequence of materials that only ever grows at its    *)
(* end; each material has a bounded number of encryption slots, handed     *)
(* out one at a time and never twice; and destruction takes all of a key   *)
(* away, for good.  KeyStore implements it with requests that read in one  *)
(* database transaction and write in another.                              *)
(***************************************************************************)
EXTENDS Integers

CONSTANTS
  KeyIds,      \* the keys there can be
  Versions,    \* the version numbers, 1..n
  Secrets,     \* key material
  HardLimit,   \* encryption slots of a version
  None         \* no material

VARIABLES
  phase,    \* of each key: "unborn", "live" or "destroyed"
  current,  \* its newest version, 0 when not live
  material, \* the material of each version, None when there is none
  used      \* slots handed out, of each version

vars == <<phase, current, material, used>>

Init ==
  /\ phase = [k \in KeyIds |-> "unborn"]
  /\ current = [k \in KeyIds |-> 0]
  /\ material = [k \in KeyIds |-> [v \in Versions |-> None]]
  /\ used = [k \in KeyIds |-> [v \in Versions |-> 0]]

Create(k) ==
  /\ phase[k] = "unborn"
  /\ phase' = [phase EXCEPT ![k] = "live"]
  /\ current' = [current EXCEPT ![k] = 1]
  /\ \E s \in Secrets : material' = [material EXCEPT ![k][1] = s]
  /\ UNCHANGED used

Rotate(k) ==
  LET new == current[k] + 1 IN
  /\ phase[k] = "live"
  /\ new \in Versions
  /\ current' = [current EXCEPT ![k] = new]
  /\ \E s \in Secrets : material' = [material EXCEPT ![k][new] = s]
  /\ UNCHANGED <<phase, used>>

TakeSlot(k, v) ==
  /\ phase[k] = "live"
  /\ v \in 1..current[k]
  /\ used[k][v] < HardLimit
  /\ used' = [used EXCEPT ![k][v] = @ + 1]
  /\ UNCHANGED <<phase, current, material>>

Destroy(k) ==
  /\ phase[k] = "live"
  /\ phase' = [phase EXCEPT ![k] = "destroyed"]
  /\ current' = [current EXCEPT ![k] = 0]
  /\ material' = [material EXCEPT ![k] = [v \in Versions |-> None]]
  /\ used' = [used EXCEPT ![k] = [v \in Versions |-> 0]]

Next ==
  \E k \in KeyIds :
    \/ Create(k)
    \/ Rotate(k)
    \/ \E v \in Versions : TakeSlot(k, v)
    \/ Destroy(k)

Spec == Init /\ [][Next]_vars
=============================================================================
