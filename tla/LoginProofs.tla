----------------------------- MODULE LoginProofs -----------------------------
(***************************************************************************)
(* What holds of any number of browsers, users, replicas, logins and       *)
(* restarts.                                                               *)
(***************************************************************************)
EXTENDS Login, FiniteSetTheorems, TLAPS

Labels == {"idle", "verified", "mapped", "unknown", "created", "absent", "ready"}

\* A login cookie is of a login that its browser's user asked for.
CookiesAreTheUsersOwn ==
  /\ \A l \in Logins : codes[l].state # "none" => codes[l].user \in Subjects
  /\ \A b \in Browsers : tx[b] # None =>
       codes[tx[b].login].state # "none" /\ codes[tx[b].login].user = UserOf[b]

\* The tables: a mapping leads to a principal of its subject, and what was
\* deleted had been created.
TablesAgree ==
  /\ \A s \in Subjects : mapping[s] # None => principals[mapping[s]] = s
  /\ \A p \in deleted : principals[p] # None

\* The local variables of a callback: of its user alone; the principal it read
\* was passed over only when it was deleted; the one it answers with was not
\* deleted when the login was verified.
RightCall(b, label, c, ps, del) ==
  label # "idle" =>
    /\ c.replica \in Replicas
    /\ c.sub = UserOf[b]
    /\ c.gone \subseteq del
    /\ c.read # None => ps[c.read] = UserOf[b]
    /\ label \in {"unknown", "created", "absent"} => c.read \in del \cup {None}
    /\ label \in {"created", "absent", "ready"} =>
         c.pid \in Principals /\ ps[c.pid] = UserOf[b] /\ c.pid \notin c.gone

CallsAreRight ==
  \A b \in Browsers : RightCall(b, pc[b], call[b], principals, deleted)

IInv ==
  /\ TypeOK
  /\ CookiesAreTheUsersOwn
  /\ TablesAgree
  /\ CallsAreRight
  /\ SessionsAreTheUsersOwn
  /\ NoSessionOfTheLongGone

-----------------------------------------------------------------------------
(* Rows that are set. *)

LEMMA CodeOfCode ==
  ASSUME NEW user \in Subjects \cup {None}, NEW s \in {"none", "asked", "issued", "used"}
  PROVE  /\ CodeOf(user, s) \in Code
         /\ CodeOf(user, s).user = user
         /\ CodeOf(user, s).state = s
  BY DEF CodeOf, Code

LEMMA CallOfCall ==
  ASSUME NEW a \in Replicas \cup {None}, NEW sub \in Subjects \cup {None},
         NEW read \in Principals \cup {None}, NEW pid \in Principals \cup {None},
         NEW gone \in SUBSET Principals
  PROVE  /\ CallOf(a, sub, read, pid, gone) \in Call
         /\ CallOf(a, sub, read, pid, gone).replica = a
         /\ CallOf(a, sub, read, pid, gone).sub = sub
         /\ CallOf(a, sub, read, pid, gone).read = read
         /\ CallOf(a, sub, read, pid, gone).pid = pid
         /\ CallOf(a, sub, read, pid, gone).gone = gone
  BY DEF CallOf, Call

LEMMA NoCallCall == NoCall \in Call
  BY CallOfCall DEF NoCall

\* A step of one callback, whatever it does to the tables but take away a
\* principal: the other callbacks stay right.
LEMMA StepRight ==
  ASSUME IInv, NEW b \in Browsers, NEW label \in Labels, NEW c \in Call,
         Step(b, label, c),
         RightCall(b, label, c, principals', deleted'),
         \A p \in Principals : principals[p] # None => principals'[p] = principals[p],
         deleted \subseteq deleted'
  PROVE  /\ pc' \in [Browsers -> Labels]
         /\ call' \in [Browsers -> Call]
         /\ CallsAreRight'
<1>1. /\ pc' = [pc EXCEPT ![b] = label] /\ call' = [call EXCEPT ![b] = c]
      /\ pc \in [Browsers -> Labels] /\ call \in [Browsers -> Call]
  BY DEF Step, IInv, TypeOK, Labels
<1>2. ASSUME NEW d \in Browsers
      PROVE  RightCall(d, pc'[d], call'[d], principals', deleted')
  <2>1. CASE d = b
    BY <1>1, <2>1
  <2>2. CASE d # b
    <3>1. pc'[d] = pc[d] /\ call'[d] = call[d] /\ call[d] \in Call
      BY <1>1, <2>2
    <3>2. RightCall(d, pc[d], call[d], principals, deleted)
      BY DEF IInv, CallsAreRight
    <3>3. UserOf[d] # None /\ UserOf[d] \in Subjects
      BY UserOfAssumption, NoneAssumption
    <3>4. call[d].read # None => call[d].read \in Principals
      BY <3>1 DEF Call
    <3>5. RightCall(d, pc[d], call[d], principals', deleted')
      BY <3>2, <3>3, <3>4 DEF RightCall
    <3>6. QED
      BY <3>1, <3>5
  <2>3. QED
    BY <2>1, <2>2
<1>3. CallsAreRight'
  BY <1>2 DEF CallsAreRight, RightCall
<1>4. QED
  BY <1>1, <1>3

\* A step that touches no cookie, no code and no principal.
LEMMA CookiesStay ==
  ASSUME IInv, UNCHANGED <<codes, tx, session, principals>>
  PROVE  CookiesAreTheUsersOwn' /\ SessionsAreTheUsersOwn' /\ NoSessionOfTheLongGone'
<1>1. CookiesAreTheUsersOwn'
  BY DEF IInv, CookiesAreTheUsersOwn
<1>2. SessionsAreTheUsersOwn'
  BY DEF IInv, SessionsAreTheUsersOwn
<1>3. NoSessionOfTheLongGone'
  BY DEF IInv, NoSessionOfTheLongGone
<1>4. QED
  BY <1>1, <1>2, <1>3

\* The local variables of a callback that runs.
LEMMA RunningCall ==
  ASSUME IInv, NEW b \in Browsers, pc[b] # "idle"
  PROVE  /\ call[b] \in Call
         /\ call[b].replica \in Replicas
         /\ call[b].sub = UserOf[b] /\ UserOf[b] \in Subjects
         /\ call[b].gone \subseteq deleted /\ call[b].gone \in SUBSET Principals
         /\ call[b].read \in Principals \cup {None}
         /\ call[b].pid \in Principals \cup {None}
         /\ call[b].read # None => principals[call[b].read] = UserOf[b]
         /\ pc[b] \in {"unknown", "created", "absent"} => call[b].read \in deleted \cup {None}
         /\ pc[b] \in {"created", "absent", "ready"} =>
              /\ call[b].pid \in Principals
              /\ principals[call[b].pid] = UserOf[b]
              /\ call[b].pid \notin call[b].gone
<1>1. call[b] \in Call
  BY DEF IInv, TypeOK
<1>2. RightCall(b, pc[b], call[b], principals, deleted)
  BY DEF IInv, CallsAreRight
<1>3. QED
  BY <1>1, <1>2, UserOfAssumption DEF RightCall, Call

-----------------------------------------------------------------------------
(* The invariant is inductive: each action. *)

LEMMA InitIInv == Init => IInv
<1> SUFFICES ASSUME Init PROVE IInv
  OBVIOUS
<1>1. secret \in [Replicas -> Nat] /\ drawn \in Nat
  <2>1. CASE shared
    BY <2>1 DEF Init
  <2>2. CASE ~shared
    <3>1. secret \in [Replicas -> 1..Cardinality(Replicas)] /\ drawn = Cardinality(Replicas)
      BY <2>2 DEF Init
    <3>2. drawn \in Nat
      BY <3>1, ReplicasAssumption, FS_CardinalityType
    <3>3. QED
      BY <3>1, <3>2
  <2>3. QED
    BY <2>1, <2>2 DEF Init
<1>2. TypeOK
  <2>1. codes \in [Logins -> Code]
    BY CodeOfCode DEF Init
  <2>2. call \in [Browsers -> Call]
    BY NoCallCall DEF Init
  <2>3. QED
    BY <1>1, <2>1, <2>2 DEF Init, TypeOK
<1>3. CookiesAreTheUsersOwn
  BY CodeOfCode DEF Init, CookiesAreTheUsersOwn
<1>4. TablesAgree
  BY DEF Init, TablesAgree
<1>5. CallsAreRight
  BY DEF Init, CallsAreRight, RightCall
<1>6. SessionsAreTheUsersOwn /\ NoSessionOfTheLongGone
  BY DEF Init, SessionsAreTheUsersOwn, NoSessionOfTheLongGone
<1>7. QED
  BY <1>2, <1>3, <1>4, <1>5, <1>6 DEF IInv

LEMMA TickIInv == ASSUME IInv, Tick PROVE IInv'
<1>1. TypeOK'
  BY DEF IInv, TypeOK, Tick
<1>2. CookiesAreTheUsersOwn' /\ SessionsAreTheUsersOwn' /\ NoSessionOfTheLongGone'
  BY CookiesStay DEF Tick
<1>3. TablesAgree' /\ CallsAreRight'
  BY DEF IInv, TablesAgree, CallsAreRight, RightCall, Tick
<1>4. QED
  BY <1>1, <1>2, <1>3 DEF IInv

LEMMA AuthLoginIInv ==
  ASSUME IInv, NEW a \in Replicas, NEW b \in Browsers, NEW l \in Logins,
         AuthLogin(a, b, l)
  PROVE  IInv'
<1> DEFINE code == CodeOf(UserOf[b], "asked")
           cookie == [login |-> l, expires |-> now + TxTtl, secret |-> secret[a]]
<1>1. UserOf[b] \in Subjects
  BY UserOfAssumption
<1>2. code \in Code /\ code.user = UserOf[b] /\ code.state = "asked"
  BY <1>1, CodeOfCode
<1>3. cookie \in Tx /\ cookie.login = l
  BY TtlAssumption DEF IInv, TypeOK, Tx
<1>4. codes' = [codes EXCEPT ![l] = code] /\ tx' = [tx EXCEPT ![b] = cookie]
  BY DEF AuthLogin
<1>5. codes[l].state = "none"
  BY DEF AuthLogin
<1> HIDE DEF code, cookie
<1>6. TypeOK'
  BY <1>2, <1>3, <1>4 DEF IInv, TypeOK, AuthLogin
<1>7. CookiesAreTheUsersOwn'
  <2>1. \A k \in Logins : codes'[k].state # "none" => codes'[k].user \in Subjects
    BY <1>1, <1>2, <1>4 DEF IInv, TypeOK, CookiesAreTheUsersOwn
  <2>2. ASSUME NEW d \in Browsers, tx'[d] # None
        PROVE  codes'[tx'[d].login].state # "none" /\ codes'[tx'[d].login].user = UserOf[d]
    <3>1. CASE d = b
      BY <1>2, <1>3, <1>4, <3>1 DEF IInv, TypeOK
    <3>2. CASE d # b
      <4>1. tx'[d] = tx[d] /\ tx[d] \in Tx
        BY <1>4, <2>2, <3>2 DEF IInv, TypeOK
      <4>2. tx[d].login \in Logins
        BY <4>1 DEF Tx
      <4>3. codes[tx[d].login].state # "none" /\ codes[tx[d].login].user = UserOf[d]
        BY <2>2, <4>1 DEF IInv, CookiesAreTheUsersOwn
      <4>4. codes'[tx[d].login] = codes[tx[d].login]
        BY <1>4, <1>5, <4>2, <4>3 DEF IInv, TypeOK
      <4>5. QED
        BY <4>1, <4>3, <4>4
    <3>3. QED
      BY <3>1, <3>2
  <2>3. QED
    BY <2>1, <2>2 DEF CookiesAreTheUsersOwn
<1>8. TablesAgree' /\ CallsAreRight'
  BY DEF IInv, TablesAgree, CallsAreRight, RightCall, AuthLogin
<1>9. SessionsAreTheUsersOwn' /\ NoSessionOfTheLongGone'
  BY DEF IInv, SessionsAreTheUsersOwn, NoSessionOfTheLongGone, AuthLogin
<1>10. QED
  BY <1>6, <1>7, <1>8, <1>9 DEF IInv

\* A code that changes hands from asked to issued or used keeps its user.
LEMMA CodeKeepsUser ==
  ASSUME IInv, NEW l \in Logins, codes[l].state # "none",
         NEW s \in {"asked", "issued", "used"},
         codes' = [codes EXCEPT ![l] = CodeOf(codes[l].user, s)], tx' = tx
  PROVE  codes' \in [Logins -> Code] /\ CookiesAreTheUsersOwn'
<1> DEFINE code == CodeOf(codes[l].user, s)
<1>1. codes \in [Logins -> Code] /\ codes[l].user \in Subjects
  BY DEF IInv, TypeOK, CookiesAreTheUsersOwn
<1>2. code \in Code /\ code.user = codes[l].user /\ code.state = s
  BY <1>1, CodeOfCode
<1>3. codes' = [codes EXCEPT ![l] = code]
  OBVIOUS
<1> HIDE DEF code
<1>4. \A k \in Logins : codes[k].state # "none" =>
        codes'[k].state # "none" /\ codes'[k].user = codes[k].user
  BY <1>1, <1>2, <1>3
<1>5. \A k \in Logins : codes'[k].state # "none" => codes'[k].user \in Subjects
  BY <1>1, <1>2, <1>3 DEF IInv, CookiesAreTheUsersOwn
<1>6. \A d \in Browsers : tx[d] # None => tx[d].login \in Logins
  BY DEF IInv, TypeOK, Tx
<1>7. CookiesAreTheUsersOwn'
  BY <1>4, <1>5, <1>6 DEF IInv, CookiesAreTheUsersOwn
<1>8. QED
  BY <1>1, <1>2, <1>3, <1>7

LEMMA AuthenticateIInv ==
  ASSUME IInv, NEW l \in Logins, Authenticate(l)
  PROVE  IInv'
<1>1. codes' \in [Logins -> Code] /\ CookiesAreTheUsersOwn'
  BY CodeKeepsUser DEF Authenticate
<1>2. TypeOK'
  BY <1>1 DEF IInv, TypeOK, Authenticate
<1>3. TablesAgree' /\ CallsAreRight'
  BY DEF IInv, TablesAgree, CallsAreRight, RightCall, Authenticate
<1>4. SessionsAreTheUsersOwn' /\ NoSessionOfTheLongGone'
  BY DEF IInv, SessionsAreTheUsersOwn, NoSessionOfTheLongGone, Authenticate
<1>5. QED
  BY <1>1, <1>2, <1>3, <1>4 DEF IInv

LEMMA CallbackIInv ==
  ASSUME IInv, NEW a \in Replicas, NEW b \in Browsers, NEW l \in Logins,
         Callback(a, b, l)
  PROVE  IInv'
<1> DEFINE c == CallOf(a, codes[l].user, None, None, deleted)
<1>1. codes' \in [Logins -> Code] /\ CookiesAreTheUsersOwn'
  BY CodeKeepsUser DEF Callback
<1>2. codes[l].user = UserOf[b] /\ UserOf[b] \in Subjects
  BY UserOfAssumption DEF Callback, SameLogin, Valid, IInv, CookiesAreTheUsersOwn
<1>3. /\ c \in Call /\ c.replica = a /\ c.sub = UserOf[b] /\ c.read = None
      /\ c.gone = deleted
  <2>1. /\ a \in Replicas \cup {None} /\ codes[l].user \in Subjects \cup {None}
        /\ None \in Principals \cup {None} /\ deleted \in SUBSET Principals
    BY <1>2 DEF IInv, TypeOK
  <2>2. QED
    BY <1>2, <2>1 DEF CallOf, Call
<1>4. Step(b, "verified", c)
  BY DEF Callback
<1>5. UNCHANGED <<principals, deleted, mapping, tx, session>>
  BY DEF Callback
<1> HIDE DEF c
<1>6. RightCall(b, "verified", c, principals', deleted')
  BY <1>3, <1>5 DEF RightCall
<1>7. /\ pc' \in [Browsers -> Labels]
      /\ call' \in [Browsers -> Call]
      /\ CallsAreRight'
  BY <1>3, <1>4, <1>5, <1>6, StepRight DEF Labels
<1>8. TypeOK'
  BY <1>1, <1>4, <1>5, <1>7 DEF IInv, TypeOK, Step, Labels
<1>9. TablesAgree' /\ SessionsAreTheUsersOwn' /\ NoSessionOfTheLongGone'
  BY <1>5 DEF IInv, TablesAgree, SessionsAreTheUsersOwn, NoSessionOfTheLongGone
<1>10. QED
  BY <1>1, <1>7, <1>8, <1>9 DEF IInv

LEMMA GetMappingIInv ==
  ASSUME IInv, NEW b \in Browsers, GetMapping(b)
  PROVE  IInv'
<1> DEFINE l == call[b]
           c == CallOf(l.replica, l.sub, mapping[l.sub], None, l.gone)
<1>1. pc[b] # "idle"
  BY DEF GetMapping
<1>2. mapping[l.sub] \in Principals \cup {None}
      /\ (mapping[l.sub] # None => principals[mapping[l.sub]] = UserOf[b])
  BY <1>1, RunningCall DEF IInv, TypeOK, TablesAgree
<1>3. /\ c \in Call /\ c.replica = l.replica /\ c.sub = UserOf[b]
      /\ c.read = mapping[l.sub] /\ c.gone = l.gone
  <2>1. /\ l.replica \in Replicas \cup {None} /\ l.sub \in Subjects \cup {None}
        /\ None \in Principals \cup {None} /\ l.gone \in SUBSET Principals
        /\ l.sub = UserOf[b]
    BY <1>1, RunningCall
  <2>2. QED
    BY <1>2, <2>1 DEF CallOf, Call
<1>4. Step(b, "mapped", c) /\ UNCHANGED <<codes, principals, deleted, mapping, tx, session>>
  BY DEF GetMapping
<1> HIDE DEF c
<1>5. RightCall(b, "mapped", c, principals', deleted')
  BY <1>1, <1>2, <1>3, <1>4, RunningCall DEF RightCall
<1>6. pc' \in [Browsers -> Labels] /\ call' \in [Browsers -> Call] /\ CallsAreRight'
  BY <1>3, <1>4, <1>5, StepRight DEF Labels
<1>7. CookiesAreTheUsersOwn' /\ SessionsAreTheUsersOwn' /\ NoSessionOfTheLongGone'
  BY <1>4, CookiesStay
<1>8. TablesAgree'
  BY <1>4 DEF IInv, TablesAgree
<1>9. TypeOK'
  BY <1>4, <1>6 DEF IInv, TypeOK, Step, Labels
<1>10. QED
  BY <1>6, <1>7, <1>8, <1>9 DEF IInv

LEMMA GetPrincipalIInv ==
  ASSUME IInv, NEW b \in Browsers, GetPrincipal(b)
  PROVE  IInv'
<1> DEFINE l == call[b]
           c == CallOf(l.replica, l.sub, l.read, l.read, l.gone)
           known == l.read # None /\ Live(l.read)
<1>1. pc[b] # "idle"
  BY DEF GetPrincipal, Resolve
<1>2. /\ c \in Call /\ c.replica = l.replica /\ c.sub = UserOf[b]
      /\ c.read = l.read /\ c.pid = l.read /\ c.gone = l.gone
  BY <1>1, RunningCall, CallOfCall
<1>3. /\ IF known THEN Step(b, "ready", c) ELSE Step(b, "unknown", l)
      /\ UNCHANGED <<codes, principals, deleted, mapping, tx, session>>
  BY DEF GetPrincipal, Resolve
<1> HIDE DEF c
<1>4. CASE known
  <2>1. RightCall(b, "ready", c, principals', deleted')
    BY <1>1, <1>2, <1>3, <1>4, RunningCall DEF RightCall, Live
  <2>2. QED
    BY <1>2, <1>3, <1>4, <2>1, StepRight, CookiesStay DEF Labels, IInv, TypeOK, TablesAgree, Step
<1>5. CASE ~known
  <2>1. l.read # None => l.read \in deleted
    BY <1>1, <1>5, RunningCall, NoneAssumption DEF Live
  <2>2. l \in Call
    BY <1>1, RunningCall
  <2>3. RightCall(b, "unknown", l, principals', deleted')
    BY <1>1, <1>3, <2>1, RunningCall DEF RightCall
  <2>4. QED
    BY <1>3, <1>5, <2>2, <2>3, StepRight, CookiesStay DEF Labels, IInv, TypeOK, TablesAgree, Step
<1>6. QED
  BY <1>4, <1>5

LEMMA CreatePrincipalIInv ==
  ASSUME IInv, NEW b \in Browsers, NEW p \in Principals, CreatePrincipal(b, p)
  PROVE  IInv'
<1> DEFINE l == call[b]
           c == CallOf(l.replica, l.sub, l.read, p, l.gone)
<1>1. pc[b] = "unknown"
  BY DEF CreatePrincipal
<1>2. /\ c \in Call /\ c.replica = l.replica /\ c.sub = UserOf[b]
      /\ c.read = l.read /\ c.pid = p /\ c.gone = l.gone
  <2>1. /\ l.replica \in Replicas \cup {None} /\ l.sub \in Subjects \cup {None}
        /\ l.read \in Principals \cup {None} /\ l.gone \in SUBSET Principals
        /\ p \in Principals \cup {None} /\ l.sub = UserOf[b]
    BY <1>1, RunningCall
  <2>2. QED
    BY <2>1 DEF CallOf, Call
<1>3. /\ principals[p] = None
      /\ principals' = [principals EXCEPT ![p] = UserOf[b]]
      /\ Step(b, "created", c)
      /\ UNCHANGED <<codes, deleted, mapping, tx, session>>
  BY <1>1, RunningCall DEF CreatePrincipal
<1>4. p \notin deleted
  BY <1>3 DEF IInv, TablesAgree
<1> HIDE DEF c
<1>5. UserOf[b] \in Subjects /\ UserOf[b] # None
  BY UserOfAssumption, NoneAssumption
<1>6. /\ principals' \in [Principals -> Subjects \cup {None}]
      /\ principals'[p] = UserOf[b]
      /\ \A q \in Principals : principals[q] # None => principals'[q] = principals[q]
  BY <1>3, <1>5 DEF IInv, TypeOK
<1>7. RightCall(b, "created", c, principals', deleted')
  <2>1. l.gone \subseteq deleted /\ l.replica \in Replicas /\ l.read \in deleted \cup {None}
    BY <1>1, RunningCall
  <2>2. l.read # None => principals'[l.read] = UserOf[b]
    BY <1>1, <1>5, <1>6, RunningCall
  <2>3. QED
    BY <1>2, <1>3, <1>4, <1>6, <2>1, <2>2 DEF RightCall
<1>8. pc' \in [Browsers -> Labels] /\ call' \in [Browsers -> Call] /\ CallsAreRight'
  BY <1>2, <1>3, <1>6, <1>7, StepRight DEF Labels
<1>9. TypeOK'
  BY <1>3, <1>6, <1>8 DEF IInv, TypeOK, Step, Labels
<1>10. CookiesAreTheUsersOwn' /\ NoSessionOfTheLongGone'
  BY <1>3 DEF IInv, CookiesAreTheUsersOwn, NoSessionOfTheLongGone
<1>11. TablesAgree'
  <2>1. \A s \in Subjects : mapping[s] # None =>
          mapping[s] \in Principals /\ principals'[mapping[s]] = s
    <3>1. \A s \in Subjects : mapping[s] # None =>
            mapping[s] \in Principals /\ principals[mapping[s]] = s
      BY DEF IInv, TypeOK, TablesAgree
    <3>2. QED
      BY <1>6, <3>1, NoneAssumption
  <2>2. \A q \in deleted : principals'[q] # None
    BY <1>5, <1>6 DEF IInv, TypeOK, TablesAgree
  <2>3. QED
    BY <1>3, <2>1, <2>2 DEF TablesAgree
<1>12. SessionsAreTheUsersOwn'
  <2>1. \A d \in Browsers : session[d] # None =>
          /\ session[d].pid \in Principals /\ session[d].sub = UserOf[d]
          /\ principals[session[d].pid] = UserOf[d] /\ UserOf[d] # None
    BY UserOfAssumption, NoneAssumption DEF IInv, TypeOK, Session, SessionsAreTheUsersOwn
  <2>2. QED
    BY <1>3, <1>6, <2>1 DEF SessionsAreTheUsersOwn
<1>13. QED
  BY <1>8, <1>9, <1>10, <1>11, <1>12 DEF IInv

\* set_meta: the callback writes its own principal, for its own user.
LEMMA SetMetaIInv ==
  ASSUME IInv, NEW b \in Browsers, pc[b] \in {"created", "absent"},
         mapping' = [mapping EXCEPT ![call[b].sub] = call[b].pid],
         Step(b, "ready", call[b]),
         UNCHANGED <<codes, principals, deleted, tx, session>>
  PROVE  IInv'
<1> DEFINE l == call[b]
<1>1. /\ l \in Call /\ l.sub = UserOf[b] /\ UserOf[b] \in Subjects
      /\ l.pid \in Principals /\ principals[l.pid] = UserOf[b]
  BY RunningCall
<1>2. RightCall(b, "ready", l, principals', deleted')
  BY RunningCall DEF RightCall
<1>3. pc' \in [Browsers -> Labels] /\ call' \in [Browsers -> Call] /\ CallsAreRight'
  BY <1>1, <1>2, StepRight DEF Labels
<1>4. mapping' \in [Subjects -> Principals \cup {None}]
  BY <1>1 DEF IInv, TypeOK
<1>5. TypeOK'
  BY <1>3, <1>4 DEF IInv, TypeOK, Step, Labels
<1>6. TablesAgree'
  <2>1. ASSUME NEW s \in Subjects, mapping'[s] # None
        PROVE  principals[mapping'[s]] = s
    <3>1. CASE s = l.sub
      BY <1>1, <3>1 DEF IInv, TypeOK
    <3>2. CASE s # l.sub
      BY <2>1, <3>2 DEF IInv, TypeOK, TablesAgree
    <3>3. QED
      BY <3>1, <3>2
  <2>2. QED
    BY <2>1 DEF IInv, TablesAgree
<1>7. CookiesAreTheUsersOwn' /\ SessionsAreTheUsersOwn' /\ NoSessionOfTheLongGone'
  BY CookiesStay
<1>8. QED
  BY <1>3, <1>5, <1>6, <1>7 DEF IInv

\* A step of one callback that writes nothing but its own variables.
LEMMA QuietIInv ==
  ASSUME IInv, NEW b \in Browsers, NEW label \in Labels, NEW c \in Call,
         Step(b, label, c), RightCall(b, label, c, principals, deleted),
         UNCHANGED <<codes, principals, deleted, mapping, tx, session>>
  PROVE  IInv'
<1>1. RightCall(b, label, c, principals', deleted')
  BY DEF RightCall
<1>2. pc' \in [Browsers -> Labels] /\ call' \in [Browsers -> Call] /\ CallsAreRight'
  BY <1>1, StepRight
<1>3. TypeOK'
  BY <1>2 DEF IInv, TypeOK, Step, Labels
<1>4. CookiesAreTheUsersOwn' /\ SessionsAreTheUsersOwn' /\ NoSessionOfTheLongGone'
  BY CookiesStay
<1>5. TablesAgree'
  BY DEF IInv, TablesAgree
<1>6. QED
  BY <1>2, <1>3, <1>4, <1>5 DEF IInv

LEMMA CallbackEndsIInv ==
  ASSUME IInv, NEW b \in Browsers, Step(b, "idle", NoCall),
         UNCHANGED <<codes, principals, deleted, mapping, tx, session>>
  PROVE  IInv'
<1>1. RightCall(b, "idle", NoCall, principals, deleted)
  BY DEF RightCall
<1>2. QED
  BY <1>1, NoCallCall, QuietIInv DEF Labels

LEMMA UpdateMappingIInv ==
  ASSUME IInv, NEW b \in Browsers, UpdateMapping(b)
  PROVE  IInv'
<1>1. pc[b] = "created" /\ UNCHANGED <<codes, principals, deleted, tx, session>>
  BY DEF UpdateMapping
<1>2. CASE mapping[call[b].sub] # None
  BY <1>1, <1>2, SetMetaIInv DEF UpdateMapping
<1>3. CASE mapping[call[b].sub] = None
  <2>1. Step(b, "absent", call[b]) /\ UNCHANGED mapping
    BY <1>3 DEF UpdateMapping
  <2>2. RightCall(b, "absent", call[b], principals, deleted) /\ call[b] \in Call
    BY <1>1, RunningCall DEF RightCall
  <2>3. QED
    BY <1>1, <2>1, <2>2, QuietIInv DEF Labels
<1>4. QED
  BY <1>2, <1>3

LEMMA InsertMappingIInv ==
  ASSUME IInv, NEW b \in Browsers, InsertMapping(b)
  PROVE  IInv'
<1>1. pc[b] = "absent" /\ UNCHANGED <<codes, principals, deleted, tx, session>>
  BY DEF InsertMapping
<1>2. CASE mapping[call[b].sub] = None
  BY <1>1, <1>2, SetMetaIInv DEF InsertMapping
<1>3. CASE mapping[call[b].sub] # None
  BY <1>1, <1>3, CallbackEndsIInv DEF InsertMapping
<1>4. QED
  BY <1>2, <1>3

LEMMA AnswerIInv ==
  ASSUME IInv, NEW b \in Browsers, Answer(b)
  PROVE  IInv'
<1> DEFINE l == call[b]
           cookie == [pid |-> l.pid, sub |-> l.sub, gone |-> l.gone]
<1>1. /\ l.pid \in Principals /\ l.sub = UserOf[b] /\ UserOf[b] \in Subjects
      /\ principals[l.pid] = UserOf[b] /\ l.pid \notin l.gone
      /\ l.gone \in SUBSET Principals /\ l.replica \in Replicas
  BY RunningCall DEF Answer
<1>2. /\ cookie \in Session /\ cookie.pid = l.pid /\ cookie.sub = UserOf[b]
      /\ cookie.gone = l.gone
  BY <1>1 DEF Session
<1>3. /\ session' = [session EXCEPT ![b] = cookie] /\ tx' = [tx EXCEPT ![b] = None]
      /\ Step(b, "idle", NoCall) /\ UNCHANGED <<codes, principals, deleted, mapping>>
  BY DEF Answer
<1> HIDE DEF cookie
<1>4. RightCall(b, "idle", NoCall, principals', deleted')
  BY DEF RightCall
<1>5. pc' \in [Browsers -> Labels] /\ call' \in [Browsers -> Call] /\ CallsAreRight'
  BY <1>3, <1>4, NoCallCall, StepRight DEF Labels
<1>6. session' \in [Browsers -> Session \cup {None}] /\ tx' \in [Browsers -> Tx \cup {None}]
  BY <1>2, <1>3 DEF IInv, TypeOK
<1>7. TypeOK'
  BY <1>3, <1>5, <1>6 DEF IInv, TypeOK, Step, Labels
<1>8. CookiesAreTheUsersOwn'
  <2>1. \A d \in Browsers : tx'[d] # None => tx'[d] = tx[d]
    BY <1>3 DEF IInv, TypeOK
  <2>2. QED
    BY <1>3, <2>1 DEF IInv, CookiesAreTheUsersOwn
<1>9. SessionsAreTheUsersOwn' /\ NoSessionOfTheLongGone'
  <2>1. ASSUME NEW d \in Browsers, session'[d] # None
        PROVE  /\ session'[d].sub = UserOf[d] /\ principals[session'[d].pid] = UserOf[d]
               /\ session'[d].pid \notin session'[d].gone
    <3>1. CASE d = b
      BY <1>1, <1>2, <1>3, <3>1 DEF IInv, TypeOK
    <3>2. CASE d # b
      BY <1>3, <2>1, <3>2 DEF IInv, TypeOK, SessionsAreTheUsersOwn, NoSessionOfTheLongGone
    <3>3. QED
      BY <3>1, <3>2
  <2>2. QED
    BY <1>3, <2>1 DEF SessionsAreTheUsersOwn, NoSessionOfTheLongGone
<1>10. TablesAgree'
  BY <1>3 DEF IInv, TablesAgree
<1>11. QED
  BY <1>5, <1>7, <1>8, <1>9, <1>10 DEF IInv

LEMMA LogoutIInv ==
  ASSUME IInv, NEW b \in Browsers, Logout(b)
  PROVE  IInv'
<1>1. TypeOK' /\ \A d \in Browsers : session'[d] # None => session'[d] = session[d]
  BY DEF IInv, TypeOK, Logout
<1>2. CookiesAreTheUsersOwn' /\ TablesAgree' /\ CallsAreRight'
  BY DEF IInv, CookiesAreTheUsersOwn, TablesAgree, CallsAreRight, RightCall, Logout
<1>3. SessionsAreTheUsersOwn' /\ NoSessionOfTheLongGone'
  BY <1>1 DEF IInv, SessionsAreTheUsersOwn, NoSessionOfTheLongGone, Logout
<1>4. QED
  BY <1>1, <1>2, <1>3 DEF IInv

LEMMA DeletePrincipalIInv ==
  ASSUME IInv, NEW p \in Principals, DeletePrincipal(p)
  PROVE  IInv'
<1>1. /\ principals[p] # None /\ deleted' = deleted \cup {p}
      /\ UNCHANGED <<now, shared, secret, drawn, codes, principals, mapping, tx,
                     session, pc, call>>
  BY DEF DeletePrincipal, Live
<1>2. TypeOK'
  BY <1>1 DEF IInv, TypeOK
<1>3. CookiesAreTheUsersOwn' /\ SessionsAreTheUsersOwn' /\ NoSessionOfTheLongGone'
  BY <1>1, CookiesStay
<1>4. TablesAgree'
  BY <1>1 DEF IInv, TablesAgree
<1>5. CallsAreRight'
  <2>1. \A b \in Browsers : RightCall(b, pc[b], call[b], principals, deleted)
    BY DEF IInv, CallsAreRight
  <2>2. \A b \in Browsers : RightCall(b, pc[b], call[b], principals, deleted \cup {p})
    BY <2>1 DEF RightCall
  <2>3. QED
    BY <1>1, <2>2 DEF CallsAreRight, RightCall
<1>6. QED
  BY <1>2, <1>3, <1>4, <1>5 DEF IInv

LEMMA RestartIInv ==
  ASSUME IInv, NEW a \in Replicas, Restart(a)
  PROVE  IInv'
<1>1. /\ drawn' = drawn + 1 /\ secret' = [secret EXCEPT ![a] = drawn + 1]
      /\ UNCHANGED <<now, shared, codes, principals, deleted, mapping, tx, session>>
      /\ pc' = [b \in Browsers |-> IF call[b].replica = a THEN "idle" ELSE pc[b]]
      /\ call' = [b \in Browsers |-> IF call[b].replica = a THEN NoCall ELSE call[b]]
  BY DEF Restart
<1>2. \A b \in Browsers : \/ pc'[b] = "idle" /\ call'[b] = NoCall
                          \/ pc'[b] = pc[b] /\ call'[b] = call[b]
  BY <1>1
<1>3. /\ pc' \in [Browsers -> Labels] /\ call' \in [Browsers -> Call]
      /\ secret' \in [Replicas -> Nat] /\ drawn' \in Nat
  <2>1. pc \in [Browsers -> Labels] /\ call \in [Browsers -> Call]
    BY DEF IInv, TypeOK, Labels
  <2>2. pc' \in [Browsers -> Labels]
    BY <1>1, <2>1 DEF Labels
  <2>3. call' \in [Browsers -> Call]
    BY <1>1, <2>1, NoCallCall
  <2>4. secret' \in [Replicas -> Nat] /\ drawn' \in Nat
    BY <1>1 DEF IInv, TypeOK
  <2>5. QED
    BY <2>2, <2>3, <2>4
<1>4. TypeOK'
  BY <1>1, <1>3 DEF IInv, TypeOK, Labels
<1>5. CookiesAreTheUsersOwn' /\ SessionsAreTheUsersOwn' /\ NoSessionOfTheLongGone'
  BY <1>1, CookiesStay
<1>6. TablesAgree'
  BY <1>1 DEF IInv, TablesAgree
<1>7. CallsAreRight'
  BY <1>1, <1>2 DEF IInv, CallsAreRight, RightCall
<1>8. QED
  BY <1>4, <1>5, <1>6, <1>7 DEF IInv

LEMMA NextIInv == IInv /\ [Next]_vars => IInv'
<1> SUFFICES ASSUME IInv, [Next]_vars PROVE IInv'
  OBVIOUS
<1>1. CASE Next
  <2>1. CASE Tick
    BY <2>1, TickIInv
  <2>2. ASSUME NEW a \in Replicas,
               \/ Restart(a)
               \/ \E b \in Browsers, l \in Logins : AuthLogin(a, b, l) \/ Callback(a, b, l)
        PROVE  IInv'
    BY <2>2, RestartIInv, AuthLoginIInv, CallbackIInv
  <2>3. ASSUME NEW l \in Logins, Authenticate(l) PROVE IInv'
    BY <2>3, AuthenticateIInv
  <2>4. ASSUME NEW b \in Browsers, GetMapping(b) \/ GetPrincipal(b) PROVE IInv'
    BY <2>4, GetMappingIInv, GetPrincipalIInv
  <2>5. ASSUME NEW b \in Browsers, NEW p \in Principals, CreatePrincipal(b, p)
        PROVE  IInv'
    BY <2>5, CreatePrincipalIInv
  <2>6. ASSUME NEW b \in Browsers, UpdateMapping(b) \/ InsertMapping(b) PROVE IInv'
    BY <2>6, UpdateMappingIInv, InsertMappingIInv
  <2>7. ASSUME NEW b \in Browsers, Answer(b) \/ Logout(b) PROVE IInv'
    BY <2>7, AnswerIInv, LogoutIInv
  <2>8. ASSUME NEW b \in Browsers, CallbackFails(b) PROVE IInv'
    BY <2>8, CallbackEndsIInv DEF CallbackFails
  <2>9. ASSUME NEW p \in Principals, DeletePrincipal(p) PROVE IInv'
    BY <2>9, DeletePrincipalIInv
  <2>10. QED
    BY <1>1, <2>1, <2>2, <2>3, <2>4, <2>5, <2>6, <2>7, <2>8, <2>9 DEF Next
<1>2. CASE UNCHANGED vars
  BY <1>2 DEF vars, IInv, TypeOK, CookiesAreTheUsersOwn, TablesAgree, CallsAreRight,
             RightCall, SessionsAreTheUsersOwn, NoSessionOfTheLongGone
<1>3. QED
  BY <1>1, <1>2

LEMMA Invariance == Spec => []IInv
BY InitIInv, NextIInv, PTL DEF Spec

-----------------------------------------------------------------------------
(* The theorems. *)

\* Every variable keeps its type.
THEOREM TypeCorrect == Spec => []TypeOK
<1>1. IInv => TypeOK
  BY DEF IInv
<1>2. QED
  BY <1>1, Invariance, PTL

\* Whatever callback URLs browsers open and however logins race, a session is
\* of the user at the browser, and its principal was created for that user.
THEOREM SessionsAlwaysTheUsersOwn == Spec => []SessionsAreTheUsersOwn
<1>1. IInv => SessionsAreTheUsersOwn
  BY DEF IInv
<1>2. QED
  BY <1>1, Invariance, PTL

\* No session names a principal that was deleted before its login was verified.
THEOREM TheLongGoneStayGone == Spec => []NoSessionOfTheLongGone
<1>1. IInv => NoSessionOfTheLongGone
  BY DEF IInv
<1>2. QED
  BY <1>1, Invariance, PTL

\* A subject changes its principal only when that one was deleted, or when two
\* of its logins overlap.
THEOREM IdentityIsStable == Spec => StableIdentity
<1>1. ASSUME IInv, [Next]_vars, NEW s \in Subjects,
             mapping[s] # None, mapping'[s] # mapping[s]
      PROVE  \/ mapping[s] \in deleted
             \/ \E b \in Browsers : /\ pc[b] = "created" /\ call[b].sub = s
                                    /\ call[b].pid = mapping'[s]
                                    /\ call[b].read # mapping[s]
  <2>1. PICK b \in Browsers : UpdateMapping(b) \/ InsertMapping(b)
    <3>1. mapping' # mapping
      BY <1>1
    <3>2. Next
      BY <1>1, <3>1 DEF vars
    <3>3. QED
      BY <3>1, <3>2 DEF Next, Tick, Restart, AuthLogin, Authenticate, Callback, GetMapping,
         GetPrincipal, Resolve, CreatePrincipal, Answer, CallbackFails, Logout, DeletePrincipal
  <2>2. mapping \in [Subjects -> Principals \cup {None}] /\ mapping' # mapping
    BY <1>1 DEF IInv, TypeOK
  <2>3. pc[b] \in {"created", "absent"}
    BY <2>1 DEF UpdateMapping, InsertMapping
  <2>4. mapping' = [mapping EXCEPT ![call[b].sub] = call[b].pid]
        /\ (pc[b] = "absent" => mapping[call[b].sub] = None)
    BY <2>1, <2>2 DEF UpdateMapping, InsertMapping
  <2>5. call[b].sub = s /\ mapping'[s] = call[b].pid
    BY <1>1, <2>2, <2>4
  <2>6. pc[b] = "created"
    BY <1>1, <2>3, <2>4, <2>5
  <2>7. call[b].read \in deleted \cup {None}
    BY <1>1, <2>6, RunningCall
  <2>8. CASE call[b].read = mapping[s]
    BY <1>1, <2>7, <2>8
  <2>9. CASE call[b].read # mapping[s]
    BY <2>5, <2>6, <2>9
  <2>10. QED
    BY <2>8, <2>9
<1>2. IInv /\ [Next]_vars =>
        [\A s \in Subjects :
           mapping[s] # None /\ mapping'[s] # mapping[s] =>
             \/ mapping[s] \in deleted
             \/ \E b \in Browsers : /\ pc[b] = "created" /\ call[b].sub = s
                                    /\ call[b].pid = mapping'[s]
                                    /\ call[b].read # mapping[s]]_vars
  BY <1>1
<1>3. QED
  BY <1>2, Invariance, PTL DEF Spec, StableIdentity
=============================================================================
