----------------------------- MODULE FleetProofs -----------------------------
(* What holds of every fleet, however many processes, keys and rotations. *)
EXTENDS Fleet, FiniteSetTheorems, TLAPS

\* What was made was made with a version that exists, and is tagged hybrid
\* only when that version is.
MadeFromVersions ==
  \A m \in made :
    /\ m.ver \in 1..Len(versions[m.key])
    /\ m.suite = "hybrid" => versions[m.key][m.ver] = "hybrid"

\* A process that is up was seen, and found or made the audit log's key pair;
\* no server was seen without the library where it is required.
UpIsSeen ==
  /\ \A p \in Processes : state[p] = "up" =>
       /\ [tool |-> p \in Tools, oqs |-> oqs[p]] \in seen
       /\ versions[AuditKey] # <<>>
  /\ requirePq => \A x \in seen : x.tool \/ x.oqs

\* Somebody who was seen accounts for a suite.
Accounted(suite) == \E x \in seen : suite = SuiteOf(x.oqs)

SuitesAreSeen ==
  /\ \A k \in Keys : \A v \in 1..Len(versions[k]) : Accounted(versions[k][v])
  /\ \A m \in made : Accounted(m.suite)

IInv == TypeOK /\ MadeFromVersions /\ UpIsSeen /\ SuitesAreSeen

-----------------------------------------------------------------------------
(* The invariant is inductive. *)

LEMMA InitIInv == Init => IInv
  BY DEF Init, IInv, TypeOK, MadeFromVersions, UpIsSeen, SuitesAreSeen, Keys,
         Artefact, Processes

\* What holds of the versions survives the addition of one at the end of a row.
LEMMA VersionAdded ==
  ASSUME IInv, NEW k \in Keys, NEW suite \in Suites,
         versions' = [versions EXCEPT ![k] = Append(versions[k], suite)]
  PROVE  /\ versions' \in [Keys -> Seq(Suites)]
         /\ versions'[k] # <<>>
         /\ \A j \in Keys : j # k => versions'[j] = versions[j]
         /\ \A j \in Keys : \A v \in 1..Len(versions[j]) :
              v \in 1..Len(versions'[j]) /\ versions'[j][v] = versions[j][v]
         /\ \A j \in Keys : \A v \in 1..Len(versions'[j]) :
              versions'[j][v] = suite
                \/ (v \in 1..Len(versions[j]) /\ versions'[j][v] = versions[j][v])
<1> DEFINE row == Append(versions[k], suite)
<1>1. versions \in [Keys -> Seq(Suites)]
  BY DEF IInv, TypeOK
<1>2. versions[k] \in Seq(Suites) /\ Len(versions[k]) \in Nat
  BY <1>1
<1>3. /\ row \in Seq(Suites)
      /\ Len(row) = Len(versions[k]) + 1
      /\ row[Len(row)] = suite
      /\ \A v \in 1..Len(versions[k]) : row[v] = versions[k][v]
  BY <1>2
<1>4. versions' = [versions EXCEPT ![k] = row]
  OBVIOUS
<1> HIDE DEF row
<1>5. versions'[k] = row /\ \A j \in Keys : j # k => versions'[j] = versions[j]
  BY <1>1, <1>4
<1>6. versions' \in [Keys -> Seq(Suites)]
  BY <1>1, <1>3, <1>4
<1>7. row # <<>>
  BY <1>2, <1>3
<1>8. ASSUME NEW j \in Keys, NEW v \in 1..Len(versions[j])
      PROVE  v \in 1..Len(versions'[j]) /\ versions'[j][v] = versions[j][v]
  <2>1. CASE j = k
    <3>1. v \in 1..Len(row) /\ row[v] = versions[k][v]
      BY <1>2, <1>3, <2>1
    <3>2. QED
      BY <1>5, <2>1, <3>1
  <2>2. CASE j # k
    BY <1>5, <2>2
  <2>3. QED
    BY <2>1, <2>2
<1>9. ASSUME NEW j \in Keys, NEW v \in 1..Len(versions'[j])
      PROVE  versions'[j][v] = suite
               \/ (v \in 1..Len(versions[j]) /\ versions'[j][v] = versions[j][v])
  <2>1. CASE j = k
    <3>1. v \in 1..Len(row)
      BY <1>5, <2>1
    <3>2. v = Len(row) \/ v \in 1..Len(versions[k])
      BY <1>2, <1>3, <3>1
    <3>3. row[v] = suite \/ (v \in 1..Len(versions[k]) /\ row[v] = versions[k][v])
      BY <1>3, <3>2
    <3>4. QED
      BY <1>5, <2>1, <3>3
  <2>2. CASE j # k
    BY <1>5, <2>2
  <2>3. QED
    BY <2>1, <2>2
<1>10. QED
  BY <1>5, <1>6, <1>7, <1>8, <1>9

\* An artefact that a process that is up makes of a version that exists.
LEMMA NewIsGood ==
  ASSUME IInv, NEW p \in Processes, Up(p), NEW k \in Keys, Current(k) > 0
  PROVE  /\ New(p, k) \in Artefact
         /\ New(p, k).key = k
         /\ New(p, k).ver \in 1..Len(versions[k])
         /\ New(p, k).suite = "hybrid" => versions[k][New(p, k).ver] = "hybrid"
         /\ Accounted(New(p, k).suite)
<1> DEFINE v == Len(versions[k])
           suite == SuiteMade(p, versions[k][v])
<1>1. v \in 1..Len(versions[k]) /\ v \in Nat /\ versions[k][v] \in Suites
  BY DEF IInv, TypeOK, Current
<1>2. suite \in Suites /\ (suite = "hybrid" => versions[k][v] = "hybrid")
  BY <1>1 DEF SuiteMade, Suites
<1>3. Accounted(suite)
  <2>1. [tool |-> p \in Tools, oqs |-> oqs[p]] \in seen
    BY DEF IInv, UpIsSeen, Up
  <2>2. Accounted(versions[k][v])
    BY <1>1 DEF IInv, SuitesAreSeen
  <2>3. suite = versions[k][v] \/ suite = SuiteOf(oqs[p])
    BY <1>1 DEF SuiteMade, Suites, SuiteOf
  <2>4. Accounted(SuiteOf(oqs[p]))
    BY <2>1 DEF Accounted
  <2>5. QED
    BY <2>2, <2>3, <2>4
<1>4. New(p, k) = [key |-> k, ver |-> v, suite |-> suite]
  BY DEF New, Current
<1> HIDE DEF v, suite
<1>5. QED
  BY <1>1, <1>2, <1>3, <1>4 DEF Artefact

LEMMA StartIInv ==
  ASSUME IInv, NEW p \in Processes, NEW hasOqs \in BOOLEAN,
         NEW shares \in SUBSET deal.shares, Start(p, hasOqs, shares)
  PROVE  IInv'
<1> DEFINE me == [tool |-> p \in Tools, oqs |-> hasOqs]
<1>1. CASE EnforcesPqRequirement(p, hasOqs) /\ Unlocks(shares)
  <2>1. ComeUp(p, hasOqs)
    BY <1>1 DEF Start
  <2>2. seen' = seen \cup {me} /\ me \in [tool : BOOLEAN, oqs : BOOLEAN]
        /\ me.tool = (p \in Tools) /\ me.oqs = hasOqs
    BY <2>1 DEF ComeUp
  <2>3. /\ versions' \in [Keys -> Seq(Suites)]
        /\ versions'[AuditKey] # <<>>
        /\ \A j \in Keys : \A v \in 1..Len(versions[j]) :
             v \in 1..Len(versions'[j]) /\ versions'[j][v] = versions[j][v]
        /\ \A j \in Keys : \A v \in 1..Len(versions'[j]) :
             versions'[j][v] = SuiteOf(hasOqs)
               \/ (v \in 1..Len(versions[j]) /\ versions'[j][v] = versions[j][v])
    <3>1. AuditKey \in Keys /\ SuiteOf(hasOqs) \in Suites
      BY DEF Keys, SuiteOf, Suites
    <3>2. CASE versions[AuditKey] = <<>>
      <4>1. Append(versions[AuditKey], SuiteOf(hasOqs)) = <<SuiteOf(hasOqs)>>
        BY <3>2
      <4>2. versions' = [versions EXCEPT ![AuditKey] = Append(versions[AuditKey], SuiteOf(hasOqs))]
        BY <2>1, <3>2, <4>1 DEF ComeUp
      <4>3. QED
        BY <3>1, <4>2, VersionAdded
    <3>3. CASE versions[AuditKey] # <<>>
      <4>1. versions' = versions
        BY <2>1, <3>3 DEF ComeUp
      <4>2. QED
        BY <3>3, <4>1 DEF IInv, TypeOK
    <3>4. QED
      BY <3>2, <3>3
  <2>4. TypeOK'
    BY <2>1, <2>2, <2>3 DEF IInv, TypeOK, Start, ComeUp
  <2>5. MadeFromVersions'
    <3> SUFFICES ASSUME NEW m \in made'
                 PROVE  /\ m.ver \in 1..Len(versions'[m.key])
                        /\ m.suite = "hybrid" => versions'[m.key][m.ver] = "hybrid"
      BY DEF MadeFromVersions
    <3>1. m \in made /\ m.key \in Keys
      BY DEF Start, IInv, TypeOK, Artefact
    <3>2. QED
      BY <2>3, <3>1 DEF IInv, MadeFromVersions
  <2>6. UpIsSeen'
    <3>1. ASSUME NEW q \in Processes, state'[q] = "up"
          PROVE  [tool |-> q \in Tools, oqs |-> oqs'[q]] \in seen'
      <4>1. CASE q = p
        BY <2>2, <4>1 DEF Start, IInv, TypeOK
      <4>2. CASE q # p
        BY <2>1, <2>2, <3>1, <4>2 DEF Start, ComeUp, IInv, TypeOK, UpIsSeen
      <4>3. QED
        BY <4>1, <4>2
    <3>2. requirePq' => \A x \in seen' : x.tool \/ x.oqs
      <4>1. requirePq => me.tool \/ me.oqs
        BY <1>1, <2>2 DEF EnforcesPqRequirement, Processes
      <4>2. requirePq' = requirePq
        BY DEF Start
      <4>3. QED
        BY <2>2, <4>1, <4>2 DEF IInv, UpIsSeen
    <3>3. QED
      BY <2>3, <3>1, <3>2 DEF UpIsSeen
  <2>7. SuitesAreSeen'
    <3>1. \A suite : Accounted(suite) => Accounted(suite)'
      BY <2>2 DEF Accounted
    <3>2. \E x \in seen' : SuiteOf(hasOqs) = SuiteOf(x.oqs)
      BY <2>2
    <3>3. ASSUME NEW j \in Keys, NEW v \in 1..Len(versions'[j])
          PROVE  \E x \in seen' : versions'[j][v] = SuiteOf(x.oqs)
      <4>1. CASE versions'[j][v] = SuiteOf(hasOqs)
        BY <3>2, <4>1
      <4>2. CASE v \in 1..Len(versions[j]) /\ versions'[j][v] = versions[j][v]
        BY <2>2, <4>2 DEF IInv, SuitesAreSeen, Accounted
      <4>3. QED
        BY <2>3, <4>1, <4>2
    <3>4. \A m \in made' : \E x \in seen' : m.suite = SuiteOf(x.oqs)
      BY <2>2 DEF Start, IInv, SuitesAreSeen, Accounted
    <3>5. QED
      BY <3>3, <3>4 DEF SuitesAreSeen, Accounted
  <2>8. QED
    BY <2>4, <2>5, <2>6, <2>7 DEF IInv
<1>2. CASE ~(EnforcesPqRequirement(p, hasOqs) /\ Unlocks(shares))
  <2>1. FailToStart(p, shares)
    BY <1>2 DEF Start
  <2>2. Cardinality(shares) \in Nat
    BY DealsAssumption, FS_Subset, FS_CardinalityType DEF IInv, TypeOK
  <2>3. TypeOK'
    BY <2>1, <2>2 DEF IInv, TypeOK, Start, FailToStart
  <2>4. MadeFromVersions'
    BY <2>1 DEF IInv, MadeFromVersions, Start, FailToStart
  <2>5. UpIsSeen'
    BY <2>1 DEF IInv, TypeOK, UpIsSeen, Start, FailToStart
  <2>6. SuitesAreSeen'
    BY <2>1 DEF IInv, SuitesAreSeen, Accounted, Start, FailToStart
  <2>7. QED
    BY <2>3, <2>4, <2>5, <2>6 DEF IInv
<1>3. QED
  BY <1>1, <1>2

LEMMA StopIInv ==
  ASSUME IInv, NEW p \in Processes, Stop(p)
  PROVE  IInv'
<1>1. TypeOK'
  BY DEF IInv, TypeOK, Stop
<1>2. MadeFromVersions'
  BY DEF IInv, MadeFromVersions, Stop
<1>3. UpIsSeen'
  BY DEF IInv, TypeOK, UpIsSeen, Stop
<1>4. SuitesAreSeen'
  BY DEF IInv, SuitesAreSeen, Accounted, Stop
<1>5. QED
  BY <1>1, <1>2, <1>3, <1>4 DEF IInv

LEMMA GenerateIInv ==
  ASSUME IInv, NEW p \in Processes, NEW k \in Keys, Generate(p, k)
  PROVE  IInv'
<1> DEFINE suite == SuiteOf(oqs[p])
           entry == New(p, AuditKey)
<1>1. versions' = [versions EXCEPT ![k] = Append(versions[k], suite)]
  BY DEF Generate
<1>2. suite \in Suites
  BY DEF SuiteOf, Suites
<1>3. /\ versions' \in [Keys -> Seq(Suites)]
      /\ \A j \in Keys : j # k => versions'[j] = versions[j]
      /\ \A j \in Keys : \A v \in 1..Len(versions[j]) :
           v \in 1..Len(versions'[j]) /\ versions'[j][v] = versions[j][v]
      /\ \A j \in Keys : \A v \in 1..Len(versions'[j]) :
           versions'[j][v] = suite
             \/ (v \in 1..Len(versions[j]) /\ versions'[j][v] = versions[j][v])
  BY <1>1, <1>2, VersionAdded
<1>4. AuditKey \in Keys /\ Current(AuditKey) > 0
  <2>1. versions[AuditKey] # <<>> /\ AuditKey \in Keys
    BY DEF Generate, Up, IInv, UpIsSeen, Keys
  <2>2. versions[AuditKey] \in Seq(Suites)
    BY <2>1 DEF IInv, TypeOK
  <2>3. QED
    BY <2>1, <2>2 DEF Current
<1>5. /\ entry \in Artefact
      /\ entry.key = AuditKey
      /\ entry.ver \in 1..Len(versions[AuditKey])
      /\ entry.suite = "hybrid" => versions[AuditKey][entry.ver] = "hybrid"
      /\ Accounted(entry.suite)
  BY <1>4, NewIsGood DEF Generate
<1>6. made' = made \cup {entry}
  BY DEF Generate, Add
<1>7. Accounted(suite)
  BY DEF Generate, Up, IInv, UpIsSeen, Accounted
<1> HIDE DEF suite, entry
<1>8. TypeOK'
  BY <1>3, <1>5, <1>6 DEF IInv, TypeOK, Generate
<1>9. MadeFromVersions'
  <2> SUFFICES ASSUME NEW m \in made'
               PROVE  /\ m.ver \in 1..Len(versions'[m.key])
                      /\ m.suite = "hybrid" => versions'[m.key][m.ver] = "hybrid"
    BY DEF MadeFromVersions
  <2>1. /\ m.key \in Keys
        /\ m.ver \in 1..Len(versions[m.key])
        /\ m.suite = "hybrid" => versions[m.key][m.ver] = "hybrid"
    BY <1>4, <1>5, <1>6 DEF IInv, TypeOK, Artefact, MadeFromVersions
  <2>2. QED
    BY <1>3, <2>1
<1>10. UpIsSeen'
  <2>1. versions'[AuditKey] = versions[AuditKey]
    BY <1>3, <1>4 DEF Generate
  <2>2. QED
    BY <2>1 DEF IInv, UpIsSeen, Generate
<1>11. SuitesAreSeen'
  <2>1. seen' = seen
    BY DEF Generate
  <2>2. \A j \in Keys : \A v \in 1..Len(versions'[j]) : Accounted(versions'[j][v])
    BY <1>3, <1>7 DEF IInv, SuitesAreSeen
  <2>3. \A m \in made' : Accounted(m.suite)
    BY <1>5, <1>6 DEF IInv, SuitesAreSeen
  <2>4. QED
    BY <2>1, <2>2, <2>3 DEF SuitesAreSeen, Accounted
<1>12. QED
  BY <1>8, <1>9, <1>10, <1>11 DEF IInv

LEMMA MakeIInv ==
  ASSUME IInv, NEW p \in Processes, NEW k \in Keys, Make(p, k)
  PROVE  IInv'
<1> DEFINE new == New(p, k)
           entry == New(p, AuditKey)
<1>1. AuditKey \in Keys /\ Current(AuditKey) > 0
  <2>1. versions[AuditKey] # <<>> /\ AuditKey \in Keys
    BY DEF Make, Up, IInv, UpIsSeen, Keys
  <2>2. versions[AuditKey] \in Seq(Suites)
    BY <2>1 DEF IInv, TypeOK
  <2>3. QED
    BY <2>1, <2>2 DEF Current
<1>2. /\ new \in Artefact
      /\ new.key = k
      /\ new.ver \in 1..Len(versions[k])
      /\ new.suite = "hybrid" => versions[k][new.ver] = "hybrid"
      /\ Accounted(new.suite)
  BY NewIsGood DEF Make
<1>3. /\ entry \in Artefact
      /\ entry.key = AuditKey
      /\ entry.ver \in 1..Len(versions[AuditKey])
      /\ entry.suite = "hybrid" => versions[AuditKey][entry.ver] = "hybrid"
      /\ Accounted(entry.suite)
  BY <1>1, NewIsGood DEF Make
<1>4. made' = made \cup {new, entry}
  BY DEF Make, Add
<1> HIDE DEF new, entry
<1>5. TypeOK'
  BY <1>2, <1>3, <1>4 DEF IInv, TypeOK, Make
<1>6. MadeFromVersions'
  BY <1>2, <1>3, <1>4 DEF IInv, MadeFromVersions, Make
<1>7. UpIsSeen'
  BY DEF IInv, UpIsSeen, Make
<1>8. SuitesAreSeen'
  BY <1>2, <1>3, <1>4 DEF IInv, SuitesAreSeen, Accounted, Make
<1>9. QED
  BY <1>5, <1>6, <1>7, <1>8 DEF IInv

LEMMA NextIInv == IInv /\ [Next]_vars => IInv'
<1> SUFFICES ASSUME IInv, [Next]_vars PROVE IInv'
  OBVIOUS
<1>1. CASE UNCHANGED vars
  BY <1>1 DEF vars, IInv, TypeOK, MadeFromVersions, UpIsSeen, SuitesAreSeen, Accounted
<1>2. CASE Next
  <2>1. PICK p \in Processes :
          \/ \E hasOqs \in BOOLEAN, shares \in SUBSET deal.shares : Start(p, hasOqs, shares)
          \/ Stop(p)
          \/ \E k \in Keys : Generate(p, k) \/ Sign(p, k) \/ Wrap(p, k)
    BY <1>2 DEF Next
  <2>2. CASE \E hasOqs \in BOOLEAN, shares \in SUBSET deal.shares : Start(p, hasOqs, shares)
    BY <2>2, StartIInv
  <2>3. CASE Stop(p)
    BY <2>3, StopIInv
  <2>4. CASE \E k \in Keys : Generate(p, k) \/ Sign(p, k) \/ Wrap(p, k)
    BY <2>4, GenerateIInv, MakeIInv DEF Sign, Wrap
  <2>5. QED
    BY <2>1, <2>2, <2>3, <2>4
<1>3. QED
  BY <1>1, <1>2

LEMMA Invariance == Spec => []IInv
  BY InitIInv, NextIInv, PTL DEF Spec

\* Every variable of the fleet keeps its type.
THEOREM TypeCorrect == Spec => []TypeOK
<1>1. IInv => TypeOK
  BY DEF IInv
<1>2. QED
  BY Invariance, <1>1, PTL

-----------------------------------------------------------------------------
(* The properties. *)

\* In a deployment with PQKMS_REQUIRE_PQ no key gets a classical version and
\* nothing is signed or wrapped without a post-quantum half, unless by a tool.
THEOREM RequiredPqHolds == Spec => []PqFleetIsPq
<1>1. IInv => PqFleetIsPq
  <2> SUFFICES ASSUME IInv, requirePq, [tool |-> TRUE, oqs |-> FALSE] \notin seen
               PROVE  /\ \A k \in Keys, v \in 1..MaxVersions : ~VerHas(k, v, "classic")
                      /\ \A m \in made : m.suite = "hybrid"
    BY DEF PqFleetIsPq
  <2>1. \A x \in seen : x.oqs = TRUE
    <3> TAKE x \in seen
    <3>1. x \in [tool : BOOLEAN, oqs : BOOLEAN] /\ (x.tool \/ x.oqs)
      BY DEF IInv, TypeOK, UpIsSeen
    <3>2. x.oqs \/ x = [tool |-> TRUE, oqs |-> FALSE]
      BY <3>1
    <3>3. QED
      BY <3>1, <3>2
  <2>2. \A suite : Accounted(suite) => suite = "hybrid"
    BY <2>1 DEF Accounted, SuiteOf
  <2>3. QED
    BY <2>2 DEF IInv, SuitesAreSeen, VerHas, Current
<1>2. QED
  BY Invariance, <1>1, PTL

\* A signature that verifies for a version was made with all its halves.
THEOREM NoDowngradeEver == Spec => []NoDowngrade
<1>1. NoDowngrade
  <2> SUFFICES ASSUME NEW p \in Processes, NEW m \in made, NEW k \in Keys \ KemKeys,
                      NEW v \in 1..MaxVersions, Verifies(p, m, k, v)
               PROVE  {k} \X {v} \X Halves(versions[k][v]) \subseteq Under(m)
    BY DEF NoDowngrade
  <2>1. versions[k][v] = m.suite
    BY DEF Verifies, SuiteMatches, VerHas
  <2>2. k = m.key /\ v = m.ver
    BY DEF Verifies, Under
  <2>3. QED
    BY <2>1, <2>2 DEF Under
<1>2. QED
  BY <1>1, PTL

\* Wrapped keys and whole signatures outlive rotations and processes, and an
\* unmixed fleet accepts every signature.
THEOREM ArtefactsKeepWorkingEver == Spec => []ArtefactsKeepWorking
<1>1. IInv => ArtefactsKeepWorking
  <2> SUFFICES ASSUME IInv, NEW p \in Processes, NEW m \in made, CanCompute(p, m.suite)
               PROVE  IF m.key \in KemKeys THEN Unwraps(p, m, m.key, m.ver)
                      ELSE VerHas(m.key, m.ver, m.suite) \/ ~Mixed
                             => Verifies(p, m, m.key, m.ver)
    BY DEF ArtefactsKeepWorking
  <2>1. /\ m.suite \in {"hybrid", "classic"} /\ m.key \in Keys
        /\ m.ver \in 1..Len(versions[m.key])
        /\ m.suite = "hybrid" => versions[m.key][m.ver] = "hybrid"
    BY DEF IInv, TypeOK, Artefact, Suites, MadeFromVersions
  <2>2. Up(p) /\ (m.suite = "hybrid" => oqs[p])
    BY <2>1 DEF CanCompute
  <2>3. Decapsulate(p, m, m.key, m.ver) = <<m.suite, Under(m)>>
    BY <2>1, <2>2 DEF Decapsulate, SharedSecret, Under, VerHas, Current
  <2>4. Unwraps(p, m, m.key, m.ver)
    BY <2>1, <2>2, <2>3 DEF Unwraps, Current
  <2>5. VerHas(m.key, m.ver, m.suite) => Verifies(p, m, m.key, m.ver)
    BY <2>1, <2>2 DEF Verifies, SuiteMatches, Under, Halves
  <2>6. ~Mixed => VerHas(m.key, m.ver, m.suite)
    <3> SUFFICES ASSUME ~Mixed PROVE versions[m.key][m.ver] = m.suite
      BY <2>1 DEF VerHas, Current
    <3>1. PICK x \in seen : m.suite = SuiteOf(x.oqs)
      BY DEF IInv, SuitesAreSeen, Accounted
    <3>2. PICK y \in seen : versions[m.key][m.ver] = SuiteOf(y.oqs)
      BY <2>1 DEF IInv, SuitesAreSeen, Accounted
    <3>3. x.oqs = y.oqs
      BY DEF Mixed
    <3>4. QED
      BY <3>1, <3>2, <3>3
  <2>7. QED
    BY <2>4, <2>5, <2>6
<1>2. QED
  BY Invariance, <1>1, PTL

-----------------------------------------------------------------------------
(* Starting from shares. *)

\* When the threshold of a ceremony is enough to recover the passphrase, no
\* process that was given as many shares fails to start for want of it.
THEOREM EnoughSharesUnlockEver ==
  ASSUME \A d \in Deals : \A shares \in SUBSET d.shares :
           Cardinality(shares) >= d.threshold => Combine(shares) = Passphrase
  PROVE  Spec => []EnoughSharesUnlock
<1>1. Init => EnoughSharesUnlock
  BY DEF Init, EnoughSharesUnlock
<1>2. IInv /\ EnoughSharesUnlock /\ [Next]_vars => EnoughSharesUnlock'
  <2> SUFFICES ASSUME IInv, EnoughSharesUnlock, [Next]_vars PROVE EnoughSharesUnlock'
    OBVIOUS
  <2>1. CASE \E p \in Processes, hasOqs \in BOOLEAN, shares \in SUBSET deal.shares :
               Start(p, hasOqs, shares)
    <3>1. PICK p \in Processes, hasOqs \in BOOLEAN, shares \in SUBSET deal.shares :
            Start(p, hasOqs, shares)
      BY <2>1
    <3>2. deal \in Deals /\ Cardinality(shares) \in Nat /\ deal.threshold \in Nat \ {0, 1}
      BY DealsAssumption, FS_Subset, FS_CardinalityType DEF IInv, TypeOK
    <3>3. /\ oqs' = [oqs EXCEPT ![p] = hasOqs]
          /\ requirePq' = requirePq /\ deal' = deal
      BY <3>1 DEF Start
    <3>4. SUFFICES ASSUME NEW q \in Processes, state'[q] = "failed"
                   PROVE  given'[q] < deal'.threshold \/ (requirePq' /\ q \in Servers /\ ~oqs'[q])
      BY DEF EnoughSharesUnlock
    <3>5. CASE EnforcesPqRequirement(p, hasOqs) /\ Unlocks(shares)
      BY <3>1, <3>3, <3>4, <3>5 DEF Start, ComeUp, IInv, TypeOK, EnoughSharesUnlock
    <3>6. CASE ~(EnforcesPqRequirement(p, hasOqs) /\ Unlocks(shares))
      <4>1. FailToStart(p, shares)
        BY <3>1, <3>6 DEF Start
      <4>2. CASE q # p
        BY <3>3, <3>4, <4>1, <4>2 DEF FailToStart, IInv, TypeOK, EnoughSharesUnlock
      <4>3. CASE q = p /\ ~EnforcesPqRequirement(p, hasOqs)
        BY <3>3, <4>3 DEF EnforcesPqRequirement, IInv, TypeOK
      <4>4. CASE q = p /\ ~Unlocks(shares)
        <5>1. Cardinality(shares) < deal.threshold
          BY <3>2, <4>4 DEF Unlocks
        <5>2. QED
          BY <3>3, <4>1, <4>4, <5>1 DEF FailToStart, IInv, TypeOK
      <4>5. QED
        BY <3>6, <4>2, <4>3, <4>4
    <3>7. QED
      BY <3>5, <3>6
  <2>2. CASE \E p \in Processes : Stop(p)
    BY <2>2 DEF Stop, EnoughSharesUnlock, IInv, TypeOK
  <2>3. CASE \/ UNCHANGED vars
             \/ \E p \in Processes, k \in Keys : Generate(p, k) \/ Sign(p, k) \/ Wrap(p, k)
    <3>1. /\ requirePq' = requirePq /\ deal' = deal /\ state' = state
          /\ oqs' = oqs /\ given' = given
      <4>1. CASE UNCHANGED vars
        BY <4>1 DEF vars
      <4>2. CASE \E p \in Processes, k \in Keys : Generate(p, k)
        BY <4>2 DEF Generate
      <4>3. CASE \E p \in Processes, k \in Keys : Make(p, k)
        BY <4>3 DEF Make
      <4>4. QED
        BY <2>3, <4>1, <4>2, <4>3 DEF Sign, Wrap
    <3>2. QED
      BY <3>1 DEF EnoughSharesUnlock
  <2>4. CASE Next
    <3>1. PICK p \in Processes :
            \/ \E hasOqs \in BOOLEAN, shares \in SUBSET deal.shares : Start(p, hasOqs, shares)
            \/ Stop(p)
            \/ \E k \in Keys : Generate(p, k) \/ Sign(p, k) \/ Wrap(p, k)
      BY <2>4 DEF Next
    <3>2. CASE \E hasOqs \in BOOLEAN, shares \in SUBSET deal.shares : Start(p, hasOqs, shares)
      BY <3>2, <2>1
    <3>3. CASE Stop(p)
      BY <3>3, <2>2
    <3>4. CASE \E k \in Keys : Generate(p, k) \/ Sign(p, k) \/ Wrap(p, k)
      BY <3>4, <2>3
    <3>5. QED
      BY <3>1, <3>2, <3>3, <3>4
  <2>5. QED
    BY <2>3, <2>4
<1>3. QED
  BY Invariance, <1>1, <1>2, PTL DEF Spec
=============================================================================
