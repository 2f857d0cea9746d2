---------------------------- MODULE AccessProofs ----------------------------
(***************************************************************************)
(* Type correctness, and what concurrent requests preserve of principals,  *)
(* tokens and grants, for every number of them and of request threads.     *)
(***************************************************************************)
EXTENDS Access, TLAPS

USE BootstrapAssumption, OpsAssumption, InputsAssumption, NoneAssumption
    DEF Scopes, Resources

\* What a request has in its locals at each label.
LocalsFit(label, l) ==
  /\ label \in {"namespace", "grants", "act", "destroy"} => l.resource \in Keys
  /\ label \in {"principal", "resource", "find", "write"} =>
       l.principal \in Principals /\ l.resource \in Resources
  /\ label \in {"principal", "resource", "find"} => l.id = None
  /\ label \in {"tokens", "delete", "mint"} => l.principal \in Principals

TypeInv ==
  /\ TypeOK
  /\ \A r \in Requests : LocalsFit(pc[r], req[r])
  /\ \A t \in Tokens : tokens[t].state # "unborn" => tokens[t].principal \in Principals

RequestsTyped ==
  /\ pc \in [Requests -> Labels]
  /\ req \in [Requests -> Local]
  /\ \A r \in Requests : LocalsFit(pc[r], req[r])

LEMMA AskedType ==
  ASSUME NEW caller \in Principals \cup {None}, NEW op \in Ops \cup {None},
         NEW p \in Principals \cup {None}, NEW x \in Resources \cup {None},
         NEW name \in Names \cup {None}, NEW i \in Grants \cup Tokens \cup {None}
  PROVE  LET l == Asked(caller, op, p, x, name, i) IN
         /\ l \in Local
         /\ l.caller = caller /\ l.op = op /\ l.principal = p /\ l.resource = x
         /\ l.name = name /\ l.id = i /\ l.namespace = None /\ l.rows = {}
  BY DEF Asked, Local

LEMMA FoundType ==
  ASSUME NEW l \in Local, NEW p \in Principals \cup {None},
         NEW n \in Namespaces \cup {None}, NEW i \in Grants \cup Tokens \cup {None},
         NEW rows \in SUBSET (Tokens \cup Keys \cup Grants)
  PROVE  LET m == Found(l, p, n, i, rows) IN
         /\ m \in Local
         /\ m.caller = l.caller /\ m.op = l.op /\ m.resource = l.resource
         /\ m.name = l.name
         /\ m.principal = p /\ m.namespace = n /\ m.id = i /\ m.rows = rows
  BY DEF Found, Local

\* A request that goes on changes nothing of the others.
LEMMA GotoMoves ==
  ASSUME RequestsTyped, NEW r \in Requests, NEW label \in Labels, NEW l \in Local,
         LocalsFit(label, l), Goto(r, label, l)
  PROVE  /\ RequestsTyped'
         /\ pc'[r] = label /\ req'[r] = l
         /\ \A q \in Requests : q # r => pc'[q] = pc[q] /\ req'[q] = req[q]
  <1>1. /\ pc' \in [Requests -> Labels] /\ req' \in [Requests -> Local]
        /\ pc'[r] = label /\ req'[r] = l
        /\ \A q \in Requests : q # r => pc'[q] = pc[q] /\ req'[q] = req[q]
    BY DEF Goto, RequestsTyped
  <1>2. \A q \in Requests : LocalsFit(pc'[q], req'[q])
    BY <1>1 DEF RequestsTyped
  <1> QED BY <1>1, <1>2 DEF RequestsTyped

LEMMA FinishMoves ==
  ASSUME RequestsTyped, NEW r \in Requests, Finish(r)
  PROVE  /\ RequestsTyped'
         /\ pc'[r] = "idle" /\ req'[r] = NoLocal
         /\ \A q \in Requests : q # r => pc'[q] = pc[q] /\ req'[q] = req[q]
  <1>1. NoLocal \in Local
    BY AskedType DEF NoLocal
  <1>2. "idle" \in Labels /\ LocalsFit("idle", NoLocal)
    BY DEF Labels, LocalsFit
  <1> QED BY <1>1, <1>2, GotoMoves DEF Finish

-----------------------------------------------------------------------------
(* What requests do between their writes.                                  *)

\* Only r moved, from one label to another.
Moved(r, label) ==
  /\ RequestsTyped'
  /\ pc'[r] = label
  /\ \A q \in Requests : q # r => pc'[q] = pc[q] /\ req'[q] = req[q]

StartLabels == {"act", "namespace", "lookup", "list", "name", "principal",
                "delete_grant", "person", "tokens", "owner", "revoke"}

LEMMA BeginMoves ==
  ASSUME RequestsTyped, NEW r \in Requests, NEW t, NEW handler, NEW scope,
         NEW label \in StartLabels, NEW l \in Local, LocalsFit(label, l),
         Begin(r, t, handler, scope, label, l)
  PROVE  /\ pc[r] = "idle"
         /\ Moved(r, label)
         /\ UNCHANGED tables
  <1>1. label \in Labels
    BY DEF StartLabels, Labels
  <1> QED
    BY <1>1, GotoMoves DEF Begin, Moved

\* A request that starts has written nothing and decided nothing yet.
LEMMA StartMoves ==
  ASSUME TypeInv, NEW r \in Requests, NEW t \in Tokens, Start(r, t)
  PROVE  /\ pc[r] = "idle"
         /\ \E label \in StartLabels : Moved(r, label)
         /\ UNCHANGED tables
  <1>1. RequestsTyped
    BY DEF TypeInv, TypeOK, RequestsTyped
  <1>2. SubjectToGrants(t) \in Principals \cup {None}
    BY DEF SubjectToGrants, TypeInv, TypeOK, TokenRow
  <1>3. CASE \E k \in Keys, op \in Ops : StartKeyOp(r, t, k, op)
    <2>1. PICK k \in Keys, op \in Ops : StartKeyOp(r, t, k, op)
      BY <1>3
    <2> DEFINE label == IF SubjectToGrants(t) = None THEN "act" ELSE "namespace"
               l == Asked(SubjectToGrants(t), op, None, k, None, None)
    <2> HIDE DEF label
    <2>2. l \in Local /\ l.resource = k
      <3>1. op \in Ops \cup {None} /\ k \in Resources \cup {None}
        OBVIOUS
      <3>2. Asked(SubjectToGrants(t), op, None, k, None, None).resource = k
        BY DEF Asked
      <3>3. Asked(SubjectToGrants(t), op, None, k, None, None) \in Local
        BY <1>2, <3>1, AskedType
      <3> QED BY <3>2, <3>3
    <2>3. Begin(r, t, "key_op", op, label, l)
      BY <2>1 DEF StartKeyOp, label
    <2>4. label \in StartLabels /\ LocalsFit(label, l)
      BY <2>2 DEF StartLabels, LocalsFit, label
    <2> QED
      BY <1>1, <2>2, <2>3, <2>4, BeginMoves
  <1>4. CASE \/ \E name \in Names : StartCreateKey(r, t, name)
             \/ StartListKeys(r, t)
             \/ \E name \in Names : StartCreateNamespace(r, t, name)
             \/ \E g \in Grants : StartDeleteGrant(r, t, g)
             \/ StartCreatePrincipal(r, t)
             \/ \E p \in Principals \cup {None} : StartCreateToken(r, t, p)
             \/ \E u \in Tokens : StartRevokeToken(r, t, u)
    <2>1. PICK handler, scope, label, l :
               /\ label \in StartLabels \ {"act", "namespace", "principal", "tokens"}
               /\ l \in Local
               /\ Begin(r, t, handler, scope, label, l)
      <3>1. ASSUME NEW name \in Names, StartCreateKey(r, t, name)
            PROVE  /\ Begin(r, t, "create_key", "manage", "lookup",
                            Asked(SubjectToGrants(t), "manage", None, None, name, None))
                   /\ Asked(SubjectToGrants(t), "manage", None, None, name, None) \in Local
        BY <3>1, <1>2, AskedType DEF StartCreateKey
      <3>2. ASSUME StartListKeys(r, t)
            PROVE  /\ Begin(r, t, "list_keys", "read", "list",
                            Asked(SubjectToGrants(t), "read", None, None, None, None))
                   /\ Asked(SubjectToGrants(t), "read", None, None, None, None) \in Local
        BY <3>2, <1>2, AskedType DEF StartListKeys
      <3>3. ASSUME NEW name \in Names, StartCreateNamespace(r, t, name)
            PROVE  /\ Begin(r, t, "create_namespace", "admin", "name",
                            Asked(None, None, None, None, name, None))
                   /\ Asked(None, None, None, None, name, None) \in Local
        BY <3>3, AskedType DEF StartCreateNamespace
      <3>4. ASSUME NEW g \in Grants, StartDeleteGrant(r, t, g)
            PROVE  /\ Begin(r, t, "delete_grant", "admin", "delete_grant",
                            Asked(None, None, None, None, None, g))
                   /\ Asked(None, None, None, None, None, g) \in Local
        BY <3>4, AskedType DEF StartDeleteGrant
      <3>5. ASSUME StartCreatePrincipal(r, t)
            PROVE  /\ Begin(r, t, "create_principal", "admin", "person", NoLocal)
                   /\ NoLocal \in Local
        BY <3>5, AskedType DEF StartCreatePrincipal, NoLocal
      <3>6. ASSUME NEW p \in Principals \cup {None}, StartCreateToken(r, t, p)
            PROVE  /\ Begin(r, t, "create_token", "admin", "owner",
                            Asked(None, None, p, None, None, None))
                   /\ Asked(None, None, p, None, None, None) \in Local
        BY <3>6, AskedType DEF StartCreateToken
      <3>7. ASSUME NEW u \in Tokens, StartRevokeToken(r, t, u)
            PROVE  /\ Begin(r, t, "revoke_token", "admin", "revoke",
                            Asked(None, None, None, None, None, u))
                   /\ Asked(None, None, None, None, None, u) \in Local
        BY <3>7, AskedType DEF StartRevokeToken
      <3>8. {"lookup", "list", "name", "delete_grant", "person", "owner", "revoke"}
              \subseteq StartLabels \ {"act", "namespace", "principal", "tokens"}
        BY DEF StartLabels
      <3> QED
        BY <1>4, <3>1, <3>2, <3>3, <3>4, <3>5, <3>6, <3>7, <3>8
    <2>2. LocalsFit(label, l)
      BY <2>1 DEF StartLabels, LocalsFit
    <2> QED
      BY <1>1, <2>1, <2>2, BeginMoves
  <1>5. CASE \E p \in Principals, x \in Resources : StartCreateGrant(r, t, p, x)
    <2>1. PICK p \in Principals, x \in Resources : StartCreateGrant(r, t, p, x)
      BY <1>5
    <2> DEFINE l == Asked(None, None, p, x, None, None)
    <2>2. l \in Local /\ l.principal = p /\ l.resource = x /\ l.id = None
      BY AskedType
    <2>3. Begin(r, t, "create_grant", "admin", "principal", l)
      BY <2>1 DEF StartCreateGrant
    <2>4. "principal" \in StartLabels /\ LocalsFit("principal", l)
      BY <2>2 DEF StartLabels, LocalsFit
    <2> QED
      BY <1>1, <2>2, <2>3, <2>4, BeginMoves
  <1>6. CASE \E p \in Principals : StartDeletePrincipal(r, t, p)
    <2>1. PICK p \in Principals : StartDeletePrincipal(r, t, p)
      BY <1>6
    <2> DEFINE l == Asked(None, None, p, None, None, None)
    <2>2. l \in Local /\ l.principal = p
      BY AskedType
    <2>3. Begin(r, t, "delete_principal", "admin", "tokens", l)
      BY <2>1 DEF StartDeletePrincipal
    <2>4. "tokens" \in StartLabels /\ LocalsFit("tokens", l)
      BY <2>2 DEF StartLabels, LocalsFit
    <2> QED
      BY <1>1, <2>2, <2>3, <2>4, BeginMoves
  <1> QED
    BY <1>3, <1>4, <1>5, <1>6 DEF Start

\* The steps that write nothing and leave nothing for a later write.
Quiet(r) ==
  \/ AuthorizeKeyOp(r) \/ AuthorizeNamespaceOp(r) \/ ReadKeys(r)
  \/ FilterVisible(r) \/ LookupNamespace(r) \/ CheckName(r)
  \/ CheckPrincipal(r) \/ CheckResource(r) \/ EndRequest(r)

QuietLabels == Labels \ {"grants", "write", "delete", "destroy", "mint"}

LEMMA QuietMoves ==
  ASSUME TypeInv, NEW r \in Requests, Quiet(r)
  PROVE  /\ \E label \in QuietLabels : Moved(r, label)
         /\ UNCHANGED tables
  <1>1. RequestsTyped /\ req[r] \in Local /\ LocalsFit(pc[r], req[r])
    BY DEF TypeInv, TypeOK, RequestsTyped
  <1>2. ASSUME NEW label \in QuietLabels, NEW l \in Local, LocalsFit(label, l),
               Goto(r, label, l)
        PROVE  Moved(r, label)
    BY <1>1, <1>2, GotoMoves DEF Moved, QuietLabels
  <1>3. CASE AuthorizeKeyOp(r)
    <2>1. "act" \in QuietLabels /\ LocalsFit("act", req[r])
      BY <1>1, <1>3 DEF QuietLabels, Labels, LocalsFit, AuthorizeKeyOp
    <2> QED BY <1>1, <1>2, <1>3, <2>1 DEF AuthorizeKeyOp
  <1>4. CASE AuthorizeNamespaceOp(r)
    <2>1. "create" \in QuietLabels /\ LocalsFit("create", req[r])
      BY DEF QuietLabels, Labels, LocalsFit
    <2> QED BY <1>1, <1>2, <1>4, <2>1 DEF AuthorizeNamespaceOp
  <1>5. ASSUME NEW rows \in SUBSET Keys
        PROVE  FoundRows(req[r], rows) \in Local
    BY <1>1, <1>5, FoundType DEF FoundRows, Local
  <1>6. CASE ReadKeys(r)
    <2>1. PICK page \in SUBSET {k \in Keys : LiveKey(k)} :
            Goto(r, IF req[r].caller = None THEN "answer" ELSE "filter",
                 FoundRows(req[r], page))
      BY <1>6 DEF ReadKeys
    <2> DEFINE label == IF req[r].caller = None THEN "answer" ELSE "filter"
    <2>2. label \in QuietLabels /\ LocalsFit(label, FoundRows(req[r], page))
      BY DEF QuietLabels, Labels, LocalsFit
    <2>3. FoundRows(req[r], page) \in Local
      BY <1>5
    <2> QED BY <1>2, <1>6, <2>1, <2>2, <2>3 DEF ReadKeys
  <1>7. CASE FilterVisible(r)
    <2> DEFINE l == FoundRows(req[r], {k \in req[r].rows :
                      Allows(req[r].caller, "read", k, keys[k].namespace)})
    <2>1. l \in Local
      BY <1>1, FoundType DEF FoundRows, Local
    <2>2. "answer" \in QuietLabels /\ LocalsFit("answer", l)
      BY DEF QuietLabels, Labels, LocalsFit
    <2>3. Goto(r, "answer", l)
      BY <1>7 DEF FilterVisible
    <2> QED BY <1>2, <1>7, <2>1, <2>2, <2>3 DEF FilterVisible
  <1>8. CASE LookupNamespace(r)
    <2>1. PICK n \in Namespaces :
            Goto(r, IF req[r].caller = None THEN "create" ELSE "owner_grants",
                 FoundNamespace(req[r], n))
      BY <1>8 DEF LookupNamespace
    <2> DEFINE label == IF req[r].caller = None THEN "create" ELSE "owner_grants"
    <2>2. label \in QuietLabels /\ LocalsFit(label, FoundNamespace(req[r], n))
      BY DEF QuietLabels, Labels, LocalsFit
    <2>3. FoundNamespace(req[r], n) \in Local
      BY <1>1, FoundType DEF FoundNamespace, Local
    <2> QED BY <1>2, <1>8, <2>1, <2>2, <2>3 DEF LookupNamespace
  <1>9. CASE CheckName(r)
    <2>1. "insert_namespace" \in QuietLabels /\ LocalsFit("insert_namespace", req[r])
      BY DEF QuietLabels, Labels, LocalsFit
    <2> QED BY <1>1, <1>2, <1>9, <2>1 DEF CheckName
  <1>10. CASE CheckPrincipal(r)
    <2>1. "resource" \in QuietLabels /\ LocalsFit("resource", req[r])
      BY <1>1, <1>10 DEF QuietLabels, Labels, LocalsFit, CheckPrincipal
    <2> QED BY <1>1, <1>2, <1>10, <2>1 DEF CheckPrincipal
  <1>11. CASE CheckResource(r)
    <2>1. "find" \in QuietLabels /\ LocalsFit("find", req[r])
      BY <1>1, <1>11 DEF QuietLabels, Labels, LocalsFit, CheckResource
    <2> QED BY <1>1, <1>2, <1>11, <2>1 DEF CheckResource
  <1>12. CASE EndRequest(r)
    <2>1. "idle" \in QuietLabels
      BY DEF QuietLabels, Labels
    <2> QED BY <1>1, <1>12, <2>1, FinishMoves DEF EndRequest, Moved
  <1> QED
    BY <1>3, <1>4, <1>6, <1>7, <1>8, <1>9, <1>10, <1>11, <1>12 DEF Quiet

\* The reads whose results a later step of the request relies on.
LEMMA ReadNamespaceMoves ==
  ASSUME TypeInv, NEW r \in Requests, ReadNamespace(r)
  PROVE  /\ Moved(r, "grants")
         /\ LET k == req[r].resource IN
            /\ k \in Keys
            /\ req'[r].resource = k
            /\ req'[r].namespace = IF LiveKey(k) THEN keys[k].namespace ELSE None
         /\ UNCHANGED tables
  <1>1. RequestsTyped /\ req[r] \in Local /\ req[r].resource \in Keys
    BY DEF TypeInv, TypeOK, RequestsTyped, LocalsFit, ReadNamespace
  <1> DEFINE n == IF LiveKey(req[r].resource) THEN keys[req[r].resource].namespace ELSE None
             l == FoundNamespace(req[r], n)
  <1>2. n \in Namespaces \cup {None}
    BY <1>1 DEF TypeInv, TypeOK, KeyRow
  <1> HIDE DEF n
  <1>3. l \in Local /\ l.resource = req[r].resource /\ l.namespace = n
    BY <1>1, <1>2, FoundType DEF FoundNamespace, Local
  <1>4. "grants" \in Labels /\ LocalsFit("grants", l)
    BY <1>1, <1>3 DEF Labels, LocalsFit
  <1>5. Goto(r, "grants", l) /\ UNCHANGED tables
    BY DEF ReadNamespace, n
  <1> QED BY <1>1, <1>3, <1>4, <1>5, GotoMoves DEF Moved, n

LEMMA FindGrantMoves ==
  ASSUME TypeInv, NEW r \in Requests, FindGrant(r)
  PROVE  /\ Moved(r, "write")
         /\ req'[r].principal = req[r].principal
         /\ req'[r].resource = req[r].resource
         /\ \/ req'[r].id = None
            \/ /\ req'[r].id \in Grants
               /\ GrantOf(req'[r].id, req[r].principal, req[r].resource)
         /\ UNCHANGED tables
  <1>1. /\ RequestsTyped /\ req[r] \in Local /\ req[r].id = None
        /\ req[r].principal \in Principals /\ req[r].resource \in Resources
    BY DEF TypeInv, TypeOK, RequestsTyped, LocalsFit, FindGrant
  <1>2. "write" \in Labels /\ LocalsFit("write", req[r])
    BY <1>1 DEF Labels, LocalsFit
  <1>3. CASE Goto(r, "write", req[r])
    BY <1>1, <1>2, <1>3, GotoMoves DEF Moved, FindGrant
  <1>4. CASE \E g \in Grants :
               /\ GrantOf(g, req[r].principal, req[r].resource)
               /\ Goto(r, "write", FoundId(req[r], g))
    <2>1. PICK g \in Grants :
               /\ GrantOf(g, req[r].principal, req[r].resource)
               /\ Goto(r, "write", FoundId(req[r], g))
      BY <1>4
    <2> DEFINE l == FoundId(req[r], g)
    <2>2. /\ l \in Local /\ l.id = g
          /\ l.principal = req[r].principal /\ l.resource = req[r].resource
      BY <1>1, FoundType DEF FoundId, Local
    <2>3. LocalsFit("write", l)
      BY <1>1, <2>2 DEF LocalsFit
    <2> HIDE DEF l
    <2> QED BY <1>1, <1>2, <2>1, <2>2, <2>3, GotoMoves DEF Moved, FindGrant, l
  <1> QED
    BY <1>3, <1>4 DEF FindGrant

LEMMA FindTokensMoves ==
  ASSUME TypeInv, NEW r \in Requests, FindTokens(r)
  PROVE  /\ Moved(r, "delete")
         /\ req'[r].principal = req[r].principal
         /\ req'[r].rows = TokensOf(req[r].principal)
         /\ UNCHANGED tables
  <1>1. RequestsTyped /\ req[r] \in Local /\ req[r].principal \in Principals
    BY DEF TypeInv, TypeOK, RequestsTyped, LocalsFit, FindTokens
  <1> DEFINE l == FoundRows(req[r], TokensOf(req[r].principal))
  <1>2. TokensOf(req[r].principal) \in SUBSET (Tokens \cup Keys \cup Grants)
    BY DEF TokensOf
  <1>3. /\ l \in Local /\ l.principal = req[r].principal
        /\ l.rows = TokensOf(req[r].principal)
    BY <1>1, <1>2, FoundType DEF FoundRows, Local
  <1>4. "delete" \in Labels /\ LocalsFit("delete", l)
    BY <1>1, <1>3 DEF Labels, LocalsFit
  <1>5. Goto(r, "delete", l) /\ UNCHANGED tables
    BY DEF FindTokens
  <1> HIDE DEF l
  <1> QED BY <1>1, <1>3, <1>4, <1>5, GotoMoves DEF Moved

LEMMA FindGrantsOnMoves ==
  ASSUME TypeInv, NEW r \in Requests, FindGrantsOn(r)
  PROVE  /\ Moved(r, "destroy")
         /\ LiveKey(req[r].resource)
         /\ req'[r].resource = req[r].resource
         /\ \A g \in Grants : grants[g].state = "live" /\ grants[g].resource = req[r].resource =>
              g \in req'[r].rows
         /\ UNCHANGED tables
  <1>1. RequestsTyped /\ req[r] \in Local /\ req[r].resource \in Keys
    BY DEF TypeInv, TypeOK, RequestsTyped, LocalsFit, FindGrantsOn
  <1> DEFINE found == {g \in Grants : /\ grants[g].state = "live"
                                      /\ grants[g].resource = req[r].resource}
             l == FoundRows(req[r], found)
  <1>2. found \in SUBSET (Tokens \cup Keys \cup Grants)
    OBVIOUS
  <1>3. l \in Local /\ l.resource = req[r].resource /\ l.rows = found
    BY <1>1, <1>2, FoundType DEF FoundRows, Local
  <1>4. "destroy" \in Labels /\ LocalsFit("destroy", l)
    BY <1>1, <1>3 DEF Labels, LocalsFit
  <1>5. Goto(r, "destroy", l) /\ LiveKey(req[r].resource) /\ UNCHANGED tables
    BY DEF FindGrantsOn
  <1>6. Moved(r, "destroy") /\ req'[r] = l
    <2> HIDE DEF l
    <2> QED BY <1>1, <1>3, <1>4, <1>5, GotoMoves DEF Moved
  <1> QED BY <1>3, <1>5, <1>6

LEMMA OwnerMoves ==
  ASSUME TypeInv, NEW r \in Requests, CheckOwner(r) \/ CreateOwner(r)
  PROVE  /\ Moved(r, "mint")
         /\ UNCHANGED <<tokens, grants, namespaces, keys, late, lateGrants>>
         /\ LET p == req'[r].principal IN
            /\ p \in Principals
            /\ \/ Exists(p) /\ UNCHANGED principals
               \/ NewPrincipal(p)
  <1>1. RequestsTyped /\ req[r] \in Local
    BY DEF TypeInv, TypeOK, RequestsTyped
  <1>2. "mint" \in Labels
    BY DEF Labels
  <1>3. CASE CheckOwner(r)
    <2>1. req[r].principal \in Principals
      BY <1>1, <1>3 DEF CheckOwner, Local
    <2>2. LocalsFit("mint", req[r])
      BY <2>1 DEF LocalsFit
    <2> QED BY <1>1, <1>2, <1>3, <2>1, <2>2, GotoMoves DEF CheckOwner, Moved, tables
  <1>4. CASE CreateOwner(r)
    <2>1. PICK p \in Principals :
            NewPrincipal(p) /\ Goto(r, "mint", FoundPrincipal(req[r], p))
      BY <1>4 DEF CreateOwner
    <2> DEFINE l == FoundPrincipal(req[r], p)
    <2>2. l \in Local /\ l.principal = p
      BY <1>1, FoundType DEF FoundPrincipal, Local
    <2>3. LocalsFit("mint", l)
      BY <2>2 DEF LocalsFit
    <2> HIDE DEF l
    <2> QED BY <1>1, <1>2, <1>4, <2>1, <2>2, <2>3, GotoMoves DEF CreateOwner, Moved, l
  <1> QED BY <1>3, <1>4

-----------------------------------------------------------------------------
(* Type correctness.                                                       *)

\* The steps that write a table and end the request.
Writes(r) ==
  \/ CreateKey(r) \/ DestroyKey(r) \/ InsertNamespace(r)
  \/ ReplaceGrant(r) \/ InsertGrant(r) \/ DeleteGrant(r)
  \/ CreatePrincipal(r) \/ DeletePrincipal(r) \/ InsertToken(r) \/ RevokeToken(r)

LEMMA WriteMoves ==
  ASSUME TypeInv, NEW r \in Requests, Writes(r)
  PROVE  Moved(r, "idle")
  <1>1. RequestsTyped
    BY DEF TypeInv, TypeOK, RequestsTyped
  <1>2. Finish(r)
    BY DEF Writes, CreateKey, DestroyKey, InsertNamespace, ReplaceGrant, InsertGrant,
           DeleteGrant, CreatePrincipal, DeletePrincipal, InsertToken, RevokeToken
  <1> QED BY <1>1, <1>2, FinishMoves DEF Moved

LEMMA NextCases ==
  ASSUME Next
  PROVE  \/ \E r \in Requests, t \in Tokens : Start(r, t)
         \/ \E r \in Requests : \/ Quiet(r) \/ ReadNamespace(r) \/ FindGrant(r)
                                \/ FindTokens(r) \/ FindGrantsOn(r) \/ CheckOwner(r) \/ CreateOwner(r)
                                \/ Writes(r)
         \/ \E p \in Principals, value \in {"enabled", "disabled"} :
              SetPrincipalDisabled(p, value)
         \/ \E t \in Tokens : Expire(t)
  BY DEF Next, Step, Quiet, Writes

\* The rows are typed, and those of tokens belong to a principal.
TablesTyped ==
  /\ principals \in [Principals -> {"unborn", "enabled", "disabled", "deleted"}]
  /\ tokens \in [Tokens -> TokenRow]
  /\ grants \in [Grants -> GrantRow]
  /\ namespaces \in [Namespaces -> Names \cup {None}]
  /\ keys \in [Keys -> KeyRow]
  /\ late \subseteq Tokens /\ lateGrants \subseteq Grants
  /\ \A t \in Tokens : tokens[t].state # "unborn" => tokens[t].principal \in Principals

LEMMA RevokedType ==
  ASSUME NEW row \in TokenRow
  PROVE  /\ Revoked(row) \in TokenRow
         /\ Revoked(row).state = "unborn" <=> row.state = "unborn"
         /\ Revoked(row).state # "active"
         /\ Revoked(row).principal = row.principal
  BY DEF Revoked, TokenRow

LEMMA WriteGrantEffect ==
  ASSUME TypeInv, NEW r \in Requests, NEW g \in Grants, NEW ops \in OpSets,
         WriteGrant(r, g, ops)
  PROVE  /\ grants' \in [Grants -> GrantRow]
         /\ grants'[g].state = "live"
         /\ grants'[g].principal = req[r].principal
         /\ grants'[g].resource = req[r].resource
         /\ \A h \in Grants : h # g => grants'[h] = grants[h]
  <1>1. grants \in [Grants -> GrantRow] /\ req[r] \in Local
    BY DEF TypeInv, TypeOK
  <1> DEFINE row == [state |-> "live", principal |-> req[r].principal,
                     resource |-> req[r].resource, operations |-> ops]
  <1>2. row \in GrantRow
    BY <1>1 DEF Local, GrantRow
  <1>3. /\ row.state = "live" /\ row.principal = req[r].principal
        /\ row.resource = req[r].resource
    OBVIOUS
  <1>4. grants' = [grants EXCEPT ![g] = row]
    BY DEF WriteGrant
  <1> HIDE DEF row
  <1> QED BY <1>1, <1>2, <1>3, <1>4

\* What create_grant does to the table: it replaces the grant it had found,
\* unless that is gone, or inserts one where there is none.
LEMMA GrantWrites ==
  ASSUME TypeInv, NEW r \in Requests, ReplaceGrant(r) \/ InsertGrant(r)
  PROVE  /\ grants' \in [Grants -> GrantRow]
         /\ pc[r] = "write"
         /\ \/ grants' = grants
            \/ \E g \in Grants :
                 /\ \/ g = req[r].id /\ grants[g].state = "live"
                    \/ /\ grants[g].state = "unborn"
                       /\ \A h \in Grants : ~GrantOf(h, req[r].principal, req[r].resource)
                 /\ grants'[g].state = "live"
                 /\ grants'[g].principal = req[r].principal
                 /\ grants'[g].resource = req[r].resource
                 /\ \A h \in Grants : h # g => grants'[h] = grants[h]
         /\ lateGrants \subseteq lateGrants' /\ lateGrants' \subseteq Grants
         /\ UNCHANGED <<principals, tokens, namespaces, keys, late>>
  <1>1. /\ grants \in [Grants -> GrantRow] /\ req[r] \in Local
        /\ lateGrants \subseteq Grants
    BY DEF TypeInv, TypeOK
  <1>2. CASE ReplaceGrant(r)
    <2>1. CASE grants[req[r].id].state # "live"
      BY <1>1, <1>2, <2>1 DEF ReplaceGrant
    <2>2. CASE grants[req[r].id].state = "live"
      <3>1. PICK ops \in OpSets : WriteGrant(r, req[r].id, ops)
        BY <1>2, <2>2 DEF ReplaceGrant
      <3>2. CASE req[r].id \in Grants
        BY <1>1, <1>2, <2>2, <3>1, <3>2, WriteGrantEffect DEF ReplaceGrant
      <3>3. CASE req[r].id \notin Grants
        <4>1. grants' = grants
          BY <1>1, <3>1, <3>3 DEF WriteGrant
        <4> QED BY <1>1, <1>2, <4>1 DEF ReplaceGrant
      <3> QED BY <3>2, <3>3
    <2> QED BY <2>1, <2>2
  <1>3. CASE InsertGrant(r)
    <2>1. PICK g \in Grants, ops \in OpSets :
            /\ grants[g].state = "unborn" /\ WriteGrant(r, g, ops)
            /\ lateGrants' = IF Destroying(req[r].resource)
                               THEN lateGrants \cup {g} ELSE lateGrants
      BY <1>3 DEF InsertGrant
    <2> QED BY <1>1, <1>3, <2>1, WriteGrantEffect DEF InsertGrant
  <1> QED BY <1>2, <1>3

LEMMA KeyWrites ==
  ASSUME TypeInv, NEW r \in Requests, CreateKey(r) \/ DestroyKey(r)
  PROVE  /\ keys' \in [Keys -> KeyRow]
         /\ grants' \in [Grants -> GrantRow]
         /\ \A k \in Keys : keys[k].state # "unborn" =>
              keys'[k].state # "unborn" /\ keys'[k].namespace = keys[k].namespace
         /\ \A g \in Grants : grants'[g] = grants[g] \/ grants'[g].state = "deleted"
         /\ UNCHANGED <<principals, tokens, namespaces, late, lateGrants>>
  <1>1. keys \in [Keys -> KeyRow] /\ grants \in [Grants -> GrantRow] /\ req[r] \in Local
    BY DEF TypeInv, TypeOK
  <1>2. CASE CreateKey(r)
    <2>1. PICK k \in Keys : /\ keys[k].state = "unborn"
                            /\ keys' = [keys EXCEPT ![k] = KeyIn(req[r].namespace)]
      BY <1>2 DEF CreateKey
    <2>2. KeyIn(req[r].namespace) \in KeyRow
      BY <1>1 DEF KeyIn, KeyRow, Local
    <2> QED BY <1>1, <1>2, <2>1, <2>2 DEF CreateKey
  <1>3. CASE DestroyKey(r)
    <2>1. keys' = [keys EXCEPT ![req[r].resource] = DeletedKey(keys[req[r].resource])]
      BY <1>3 DEF DestroyKey
    <2>2. ASSUME NEW k \in Keys
          PROVE  /\ DeletedKey(keys[k]) \in KeyRow
                 /\ DeletedKey(keys[k]).state = "deleted"
                 /\ DeletedKey(keys[k]).namespace = keys[k].namespace
      BY <1>1 DEF DeletedKey, KeyRow
    <2>3. /\ keys' \in [Keys -> KeyRow]
          /\ \A k \in Keys : keys[k].state # "unborn" =>
               keys'[k].state # "unborn" /\ keys'[k].namespace = keys[k].namespace
      <3> DEFINE row == DeletedKey(keys[req[r].resource])
      <3>1. CASE req[r].resource \in Keys
        <4>1. row \in KeyRow /\ row.state = "deleted"
              /\ row.namespace = keys[req[r].resource].namespace
          BY <2>2, <3>1
        <4> HIDE DEF row
        <4>2. keys' = [keys EXCEPT ![req[r].resource] = row]
          BY <2>1 DEF row
        <4> QED BY <1>1, <3>1, <4>1, <4>2
      <3>2. CASE req[r].resource \notin Keys
        <4>1. keys' = keys
          BY <1>1, <2>1, <3>2
        <4> QED BY <1>1, <4>1
      <3> QED BY <3>1, <3>2
    <2>4. NoGrant("deleted") \in GrantRow /\ NoGrant("deleted").state = "deleted"
      BY DEF NoGrant, GrantRow
    <2>5. /\ grants' = [g \in Grants |->
               IF g \in req[r].rows THEN NoGrant("deleted") ELSE grants[g]]
          /\ UNCHANGED <<principals, tokens, namespaces, late, lateGrants>>
      BY <1>3 DEF DestroyKey
    <2>6. /\ grants' \in [Grants -> GrantRow]
          /\ \A g \in Grants : grants'[g] = grants[g] \/ grants'[g].state = "deleted"
      BY <1>1, <2>4, <2>5
    <2> QED BY <2>3, <2>5, <2>6
  <1> QED BY <1>2, <1>3

\* What the commit of a destruction leaves of the key and of its grants.
LEMMA DestroyKeyEffect ==
  ASSUME TypeInv, NEW r \in Requests, DestroyKey(r)
  PROVE  /\ pc[r] = "destroy" /\ req[r].resource \in Keys
         /\ \A g \in Grants : g \in req[r].rows => grants'[g].state = "deleted"
         /\ \A k \in Keys : k # req[r].resource => keys'[k] = keys[k]
         /\ keys'[req[r].resource].state = "deleted"
  <1>1. pc[r] = "destroy" /\ req[r].resource \in Keys /\ keys \in [Keys -> KeyRow]
    BY DEF DestroyKey, TypeInv, TypeOK, LocalsFit
  <1>2. /\ NoGrant("deleted").state = "deleted"
        /\ DeletedKey(keys[req[r].resource]).state = "deleted"
    BY DEF NoGrant, DeletedKey
  <1> DEFINE row == DeletedKey(keys[req[r].resource])
  <1>3. /\ keys' = [keys EXCEPT ![req[r].resource] = row]
        /\ grants' = [g \in Grants |->
             IF g \in req[r].rows THEN NoGrant("deleted") ELSE grants[g]]
    BY DEF DestroyKey
  <1>4. row.state = "deleted"
    BY <1>2
  <1> HIDE DEF row
  <1> QED BY <1>1, <1>2, <1>3, <1>4

\* What happens to the tokens when no new one is inserted: nobody's token
\* changes hands, and none becomes usable.
TokensFade ==
  /\ tokens' \in [Tokens -> TokenRow]
  /\ \A t \in Tokens : /\ tokens'[t].principal = tokens[t].principal
                       /\ tokens'[t].state = "unborn" => tokens[t].state = "unborn"
                       /\ tokens'[t].state # "unborn" => tokens[t].state # "unborn"
                       /\ tokens'[t].state = "active" => tokens[t].state = "active"
                       /\ Usable(t)' => Usable(t)

LEMMA TokensUnchangedFade ==
  ASSUME TypeInv, tokens' = tokens
  PROVE  TokensFade
  BY DEF TokensFade, TypeInv, TypeOK, Usable

LEMMA OneTokenFades ==
  ASSUME TypeInv, NEW u, NEW row \in TokenRow,
         u \in Tokens =>
           /\ row.principal = tokens[u].principal
           /\ row.state = "unborn" <=> tokens[u].state = "unborn"
           /\ row.state = "active" => tokens[u].state = "active"
           /\ row.state = "active" /\ row.expires # "past" => Usable(u),
         tokens' = [tokens EXCEPT ![u] = row]
  PROVE  TokensFade
  <1>1. tokens \in [Tokens -> TokenRow]
    BY DEF TypeInv, TypeOK
  <1>2. CASE u \notin Tokens
    <2>1. tokens' = tokens
      BY <1>1, <1>2
    <2> QED BY <2>1, TokensUnchangedFade
  <1>3. CASE u \in Tokens
    <2>1. tokens' \in [Tokens -> TokenRow] /\ tokens'[u] = row
          /\ \A t \in Tokens : t # u => tokens'[t] = tokens[t]
      BY <1>1, <1>3
    <2> QED BY <1>3, <2>1 DEF TokensFade, Usable
  <1> QED BY <1>2, <1>3

\* Revocation, deletion of the principal and expiry.
LEMMA RevokeFades ==
  ASSUME TypeInv, NEW r \in Requests, RevokeToken(r)
  PROVE  /\ TokensFade
         /\ UNCHANGED <<principals, grants, namespaces, keys, late, lateGrants>>
  <1>1. tokens \in [Tokens -> TokenRow]
    BY DEF TypeInv, TypeOK
  <1>2. /\ tokens' = [tokens EXCEPT ![req[r].id] = Revoked(tokens[req[r].id])]
        /\ UNCHANGED <<principals, grants, namespaces, keys, late, lateGrants>>
    BY DEF RevokeToken
  <1>3. CASE req[r].id \notin Tokens
    <2>1. tokens' = tokens
      BY <1>1, <1>2, <1>3
    <2> QED BY <1>2, <2>1, TokensUnchangedFade
  <1>4. CASE req[r].id \in Tokens
    <2> DEFINE row == Revoked(tokens[req[r].id])
    <2>1. /\ row \in TokenRow /\ row.principal = tokens[req[r].id].principal
          /\ row.state = "unborn" <=> tokens[req[r].id].state = "unborn"
          /\ row.state # "active"
      BY <1>1, <1>4, RevokedType
    <2>2. tokens' = [tokens EXCEPT ![req[r].id] = row]
      BY <1>2
    <2> HIDE DEF row
    <2>3. TokensFade
      BY <2>1, <2>2, OneTokenFades
    <2> QED BY <1>2, <2>3
  <1> QED BY <1>3, <1>4

LEMMA ExpireFades ==
  ASSUME TypeInv, NEW t \in Tokens, Expire(t)
  PROVE  /\ TokensFade
         /\ UNCHANGED <<principals, grants, namespaces, keys, pc, req, late, lateGrants>>
  <1>1. tokens[t] \in TokenRow
    BY DEF TypeInv, TypeOK
  <1> DEFINE row == [state |-> tokens[t].state, principal |-> tokens[t].principal,
                     scopes |-> tokens[t].scopes, expires |-> "past"]
  <1>2. /\ row \in TokenRow /\ row.state = tokens[t].state /\ row.expires = "past"
        /\ row.principal = tokens[t].principal
    BY <1>1 DEF TokenRow
  <1>3. tokens' = [tokens EXCEPT ![t] = row]
    BY DEF Expire
  <1> HIDE DEF row
  <1>4. TokensFade
    BY <1>2, <1>3, OneTokenFades
  <1> QED BY <1>4 DEF Expire

LEMMA DeletePrincipalEffect ==
  ASSUME TypeInv, NEW r \in Requests, DeletePrincipal(r)
  PROVE  /\ TokensFade
         /\ \A t \in Tokens : t \in req[r].rows => tokens'[t].state # "active"
         /\ pc[r] = "delete" /\ req[r].principal \in Principals
         /\ principals' = [principals EXCEPT ![req[r].principal] = "deleted"]
         /\ UNCHANGED <<grants, namespaces, keys, late, lateGrants>>
  <1>1. \A t \in Tokens : tokens[t] \in TokenRow
    BY DEF TypeInv, TypeOK
  <1>2. pc[r] = "delete" /\ req[r].principal \in Principals
    BY DEF DeletePrincipal, TypeInv, LocalsFit
  <1>3. /\ tokens' = [t \in Tokens |->
             IF t \in req[r].rows THEN Revoked(tokens[t]) ELSE tokens[t]]
        /\ principals' = [principals EXCEPT ![req[r].principal] = "deleted"]
        /\ UNCHANGED <<grants, namespaces, keys, late, lateGrants>>
    BY DEF DeletePrincipal
  <1>4. \A t \in Tokens :
          /\ t \in req[r].rows => tokens'[t] = Revoked(tokens[t])
          /\ t \notin req[r].rows => tokens'[t] = tokens[t]
    BY <1>3
  <1>5. tokens' \in [Tokens -> TokenRow]
    BY <1>1, <1>3, RevokedType
  <1>6. \A t \in Tokens : t \in req[r].rows =>
          /\ tokens'[t].principal = tokens[t].principal
          /\ tokens'[t].state # "active"
          /\ tokens'[t].state = "unborn" <=> tokens[t].state = "unborn"
    BY <1>1, <1>4, RevokedType
  <1> QED BY <1>2, <1>3, <1>4, <1>5, <1>6 DEF TokensFade, Usable

LEMMA InsertTokenEffect ==
  ASSUME TypeInv, NEW r \in Requests, InsertToken(r)
  PROVE  /\ pc[r] = "mint" /\ req[r].principal \in Principals
         /\ tokens' \in [Tokens -> TokenRow]
         /\ \E t \in Tokens :
              /\ tokens'[t].state = "active"
              /\ tokens'[t].principal = req[r].principal
              /\ \A u \in Tokens : u # t => tokens'[u] = tokens[u]
              /\ late' = IF Deleting(req[r].principal) THEN late \cup {t} ELSE late
         /\ UNCHANGED <<principals, grants, namespaces, keys, lateGrants>>
  <1>1. tokens \in [Tokens -> TokenRow] /\ req[r].principal \in Principals
    BY DEF TypeInv, TypeOK, LocalsFit, InsertToken
  <1>2. PICK t \in Tokens, scopes \in ScopeSets, ttl \in Ttls :
          /\ tokens' = [tokens EXCEPT ![t] =
               [state |-> "active", principal |-> req[r].principal,
                scopes |-> scopes, expires |-> ExpiresAt(ttl)]]
          /\ late' = IF Deleting(req[r].principal) THEN late \cup {t} ELSE late
    BY DEF InsertToken
  <1> DEFINE row == [state |-> "active", principal |-> req[r].principal,
                     scopes |-> scopes, expires |-> ExpiresAt(ttl)]
  <1>3. row \in TokenRow /\ row.state = "active" /\ row.principal = req[r].principal
    BY <1>1 DEF TokenRow, ExpiresAt
  <1>4. tokens' = [tokens EXCEPT ![t] = row]
    BY <1>2
  <1> HIDE DEF row
  <1>5. /\ tokens' \in [Tokens -> TokenRow]
        /\ tokens'[t].state = "active"
        /\ tokens'[t].principal = req[r].principal
        /\ \A u \in Tokens : u # t => tokens'[u] = tokens[u]
    BY <1>1, <1>3, <1>4
  <1> QED BY <1>1, <1>2, <1>5 DEF InsertToken

LEMMA DeleteGrantEffect ==
  ASSUME TypeInv, NEW r \in Requests, DeleteGrant(r)
  PROVE  /\ grants' \in [Grants -> GrantRow]
         /\ \A g \in Grants : grants'[g] = grants[g] \/ grants'[g].state = "deleted"
         /\ UNCHANGED <<principals, tokens, namespaces, keys, late, lateGrants>>
  <1>1. grants \in [Grants -> GrantRow]
    BY DEF TypeInv, TypeOK
  <1>2. NoGrant("deleted") \in GrantRow /\ NoGrant("deleted").state = "deleted"
    BY DEF NoGrant, GrantRow
  <1> QED BY <1>1, <1>2 DEF DeleteGrant

LEMMA PrincipalWrites ==
  ASSUME TypeInv,
         \/ \E p \in Principals : NewPrincipal(p)
         \/ \E p \in Principals, value \in {"enabled", "disabled"} :
              SetPrincipalDisabled(p, value)
  PROVE  /\ principals' \in [Principals -> {"unborn", "enabled", "disabled", "deleted"}]
         /\ \A p \in Principals : principals[p] = "deleted" <=> principals'[p] = "deleted"
  BY DEF TypeInv, TypeOK, NewPrincipal, SetPrincipalDisabled, Exists

LEMMA TypeInit == Init => TypeInv
  <1> SUFFICES ASSUME Init PROVE TypeInv
    OBVIOUS
  <1>1. NoLocal \in Local /\ "idle" \in Labels /\ LocalsFit("idle", NoLocal)
    BY AskedType DEF NoLocal, Labels, LocalsFit
  <1>2. NoToken \in TokenRow /\ NoToken.state = "unborn"
    BY DEF NoToken, TokenRow
  <1>3. /\ tokens \in [Tokens -> TokenRow]
        /\ \A t \in Tokens : tokens[t].state # "unborn" => tokens[t].principal \in Principals
    <2> DEFINE row == [state |-> "active", principal |-> Root, scopes |-> {"admin"},
                       expires |-> "never"]
    <2>1. row \in TokenRow /\ row.principal \in Principals
      BY DEF TokenRow
    <2>2. tokens = [t \in Tokens |-> IF t = RootToken THEN row ELSE NoToken]
      BY DEF Init
    <2> HIDE DEF row
    <2> QED BY <1>2, <2>1, <2>2
  <1>4. grants \in [Grants -> GrantRow] /\ keys \in [Keys -> KeyRow]
    BY DEF Init, NoGrant, GrantRow, NoKey, KeyRow
  <1>5. /\ principals \in [Principals -> {"unborn", "enabled", "disabled", "deleted"}]
        /\ namespaces \in [Namespaces -> Names \cup {None}]
        /\ pc \in [Requests -> Labels] /\ req \in [Requests -> Local]
        /\ late \subseteq Tokens /\ lateGrants \subseteq Grants
        /\ \A r \in Requests : LocalsFit(pc[r], req[r])
    BY <1>1 DEF Init
  <1> QED BY <1>3, <1>4, <1>5 DEF TypeInv, TypeOK

LEMMA TypeStep == TypeInv /\ [Next]_vars => TypeInv'
  <1> SUFFICES ASSUME TypeInv, [Next]_vars PROVE TypeInv'
    OBVIOUS
  <1> USE DEF vars
  <1>1. TablesTyped /\ RequestsTyped
    BY DEF TypeInv, TypeOK, TablesTyped, RequestsTyped
  <1>2. ASSUME TablesTyped', RequestsTyped' PROVE TypeInv'
    BY <1>2 DEF TypeInv, TypeOK, TablesTyped, RequestsTyped
  <1>3. ASSUME UNCHANGED tables PROVE TablesTyped'
    BY <1>1, <1>3 DEF TablesTyped, tables
  <1>4. ASSUME UNCHANGED <<pc, req>> PROVE RequestsTyped'
    BY <1>1, <1>4 DEF RequestsTyped
  <1>5. CASE \E r \in Requests, t \in Tokens : Start(r, t)
    BY <1>2, <1>3, <1>5, StartMoves DEF Moved
  <1>6. ASSUME NEW r \in Requests,
               Quiet(r) \/ ReadNamespace(r) \/ FindGrant(r) \/ FindTokens(r) \/ FindGrantsOn(r)
        PROVE  TypeInv'
    BY <1>2, <1>3, <1>6, QuietMoves, ReadNamespaceMoves, FindGrantMoves, FindTokensMoves, FindGrantsOnMoves
    DEF Moved
  <1>7. ASSUME NEW r \in Requests, CheckOwner(r) \/ CreateOwner(r)
        PROVE  TypeInv'
    <2>1. /\ RequestsTyped' /\ UNCHANGED <<tokens, grants, namespaces, keys, late, lateGrants>>
          /\ UNCHANGED principals \/ \E p \in Principals : NewPrincipal(p)
      BY <1>7, OwnerMoves DEF Moved
    <2>2. principals' \in [Principals -> {"unborn", "enabled", "disabled", "deleted"}]
      BY <1>1, <2>1, PrincipalWrites DEF TablesTyped
    <2> QED BY <1>1, <1>2, <2>1, <2>2 DEF TablesTyped
  <1>8. ASSUME NEW r \in Requests, Writes(r)
        PROVE  TypeInv'
    <2>1. RequestsTyped'
      BY <1>8, WriteMoves DEF Moved
    <2>2. CASE CreateKey(r) \/ DestroyKey(r)
      BY <1>1, <1>2, <2>1, <2>2, KeyWrites DEF TablesTyped
    <2>3. CASE InsertNamespace(r)
      <3>1. req[r].name \in Names \cup {None}
        BY DEF TypeInv, TypeOK, Local
      <3>2. /\ namespaces' \in [Namespaces -> Names \cup {None}]
            /\ UNCHANGED <<principals, tokens, grants, keys, late, lateGrants>>
        BY <1>1, <2>3, <3>1 DEF InsertNamespace, TablesTyped
      <3> QED BY <1>1, <1>2, <2>1, <3>2 DEF TablesTyped
    <2>4. CASE ReplaceGrant(r) \/ InsertGrant(r)
      BY <1>1, <1>2, <2>1, <2>4, GrantWrites DEF TablesTyped
    <2>5. CASE DeleteGrant(r)
      BY <1>1, <1>2, <2>1, <2>5, DeleteGrantEffect DEF TablesTyped
    <2>6. CASE CreatePrincipal(r)
      <3>1. /\ \E p \in Principals : NewPrincipal(p)
            /\ UNCHANGED <<tokens, grants, namespaces, keys, late, lateGrants>>
        BY <2>6 DEF CreatePrincipal
      <3> QED BY <1>1, <1>2, <2>1, <3>1, PrincipalWrites DEF TablesTyped
    <2>7. ASSUME TokensFade, principals' \in [Principals -> {"unborn", "enabled", "disabled", "deleted"}],
                 UNCHANGED <<grants, namespaces, keys, late, lateGrants>>
          PROVE  TypeInv'
      BY <1>1, <1>2, <2>1, <2>7 DEF TablesTyped, TokensFade
    <2>8. CASE DeletePrincipal(r)
      BY <1>1, <2>7, <2>8, DeletePrincipalEffect DEF TablesTyped
    <2>9. CASE InsertToken(r)
      BY <1>1, <1>2, <2>1, <2>9, InsertTokenEffect DEF TablesTyped
    <2>10. CASE RevokeToken(r)
      BY <1>1, <2>7, <2>10, RevokeFades DEF TablesTyped
    <2> QED BY <1>8, <2>2, <2>3, <2>4, <2>5, <2>6, <2>8, <2>9, <2>10 DEF Writes
  <1>9. ASSUME NEW p \in Principals, NEW value \in {"enabled", "disabled"},
               SetPrincipalDisabled(p, value)
        PROVE  TypeInv'
    <2>1. principals' \in [Principals -> {"unborn", "enabled", "disabled", "deleted"}]
      BY <1>9, PrincipalWrites
    <2>2. UNCHANGED <<tokens, grants, namespaces, keys, pc, req, late, lateGrants>>
      BY <1>9 DEF SetPrincipalDisabled
    <2> QED BY <1>1, <1>2, <1>4, <2>1, <2>2 DEF TablesTyped
  <1>10. ASSUME NEW t \in Tokens, Expire(t)
         PROVE  TypeInv'
    BY <1>1, <1>2, <1>4, <1>10, ExpireFades DEF TablesTyped, TokensFade
  <1>11. CASE UNCHANGED vars
    BY <1>2, <1>3, <1>4, <1>11 DEF tables
  <1> QED
    BY <1>5, <1>6, <1>7, <1>8, <1>9, <1>10, <1>11, NextCases

\* Every variable has its type, whatever requests do at the same time.
THEOREM TypeCorrect == Spec => []TypeOK
  <1>1. TypeInv => TypeOK
    BY DEF TypeInv
  <1> QED
    BY <1>1, TypeInit, TypeStep, PTL DEF Spec

LEMMA TypeInvariance == Spec => []TypeInv
  BY TypeInit, TypeStep, PTL DEF Spec

-----------------------------------------------------------------------------
(* Grants.                                                                 *)

\* The grant that a create_grant found is still the one it looked for, unless
\* it was deleted.
FoundGrantFits ==
  \A r \in Requests : pc[r] = "write" /\ req[r].id # None =>
    /\ req[r].id \in Grants
    /\ grants[req[r].id].state # "unborn"
    /\ grants[req[r].id].state = "live" =>
         GrantOf(req[r].id, req[r].principal, req[r].resource)

GrantInv == TypeInv /\ FoundGrantFits /\ OneGrantPerResource

\* Which requests are about to write a grant, and what becomes of a row.
LEMMA GrantSteps ==
  ASSUME TypeInv, FoundGrantFits, [Next]_vars
  PROVE  /\ \A g \in Grants : grants[g].state # "unborn" =>
              \/ grants'[g] = grants[g]
              \/ grants'[g].state = "deleted"
              \/ /\ grants[g].state = "live" /\ grants'[g].state = "live"
                 /\ grants'[g].principal = grants[g].principal
                 /\ grants'[g].resource = grants[g].resource
         /\ \A r \in Requests : pc'[r] = "write" =>
              \/ pc[r] = "write" /\ req'[r] = req[r]
              \/ /\ UNCHANGED grants
                 /\ \/ req'[r].id = None
                    \/ /\ req'[r].id \in Grants
                       /\ GrantOf(req'[r].id, req'[r].principal, req'[r].resource)
  <1> USE DEF vars
  <1>1. ASSUME NEW r \in Requests, NEW label \in Labels \ {"write"}, Moved(r, label)
        PROVE  \A q \in Requests : pc'[q] = "write" => pc[q] = "write" /\ req'[q] = req[q]
    BY <1>1 DEF Moved
  <1>2. StartLabels \subseteq Labels \ {"write"} /\ QuietLabels \subseteq Labels \ {"write"}
        /\ {"grants", "delete", "destroy", "mint", "idle"} \subseteq Labels \ {"write"}
    BY DEF StartLabels, QuietLabels, Labels
  <1>3. CASE \E r \in Requests, t \in Tokens : Start(r, t)
    BY <1>1, <1>2, <1>3, StartMoves DEF tables
  <1>4. ASSUME NEW r \in Requests,
               Quiet(r) \/ ReadNamespace(r) \/ FindTokens(r) \/ FindGrantsOn(r)
               \/ CheckOwner(r) \/ CreateOwner(r)
        PROVE  /\ UNCHANGED grants
               /\ \A q \in Requests : pc'[q] = "write" => pc[q] = "write" /\ req'[q] = req[q]
    BY <1>1, <1>2, <1>4, QuietMoves, ReadNamespaceMoves, FindTokensMoves, FindGrantsOnMoves, OwnerMoves
    DEF tables
  <1>5. ASSUME NEW r \in Requests, FindGrant(r)
        PROVE  /\ UNCHANGED grants
               /\ \A q \in Requests : pc'[q] = "write" =>
                    \/ pc[q] = "write" /\ req'[q] = req[q]
                    \/ req'[q].id = None
                    \/ /\ req'[q].id \in Grants
                       /\ GrantOf(req'[q].id, req'[q].principal, req'[q].resource)
    <2>1. /\ UNCHANGED grants
          /\ Moved(r, "write")
          /\ req'[r].principal = req[r].principal /\ req'[r].resource = req[r].resource
          /\ \/ req'[r].id = None
             \/ /\ req'[r].id \in Grants
                /\ GrantOf(req'[r].id, req[r].principal, req[r].resource)
      BY <1>5, FindGrantMoves DEF tables
    <2> QED BY <2>1 DEF Moved
  <1>6. ASSUME NEW r \in Requests, Writes(r)
        PROVE  \A q \in Requests : pc'[q] = "write" => pc[q] = "write" /\ req'[q] = req[q]
    BY <1>1, <1>2, <1>6, WriteMoves
  <1>7. ASSUME NEW r \in Requests, Writes(r)
        PROVE  \A g \in Grants : grants[g].state # "unborn" =>
                 \/ grants'[g] = grants[g]
                 \/ grants'[g].state = "deleted"
                 \/ /\ grants[g].state = "live" /\ grants'[g].state = "live"
                    /\ grants'[g].principal = grants[g].principal
                    /\ grants'[g].resource = grants[g].resource
    <2>1. CASE ReplaceGrant(r) \/ InsertGrant(r)
      <3>1. CASE grants' = grants
        BY <3>1
      <3>2. ASSUME NEW g \in Grants,
                   /\ \/ g = req[r].id /\ grants[g].state = "live"
                      \/ grants[g].state = "unborn"
                   /\ grants'[g].state = "live"
                   /\ grants'[g].principal = req[r].principal
                   /\ grants'[g].resource = req[r].resource
                   /\ \A h \in Grants : h # g => grants'[h] = grants[h]
            PROVE  \A h \in Grants : grants[h].state # "unborn" =>
                     \/ grants'[h] = grants[h]
                     \/ /\ grants[h].state = "live" /\ grants'[h].state = "live"
                        /\ grants'[h].principal = grants[h].principal
                        /\ grants'[h].resource = grants[h].resource
        BY <3>2, <2>1, GrantWrites DEF FoundGrantFits, GrantOf
      <3> QED BY <2>1, <3>1, <3>2, GrantWrites
    <2>2. CASE DeleteGrant(r)
      BY <2>2, DeleteGrantEffect
    <2>3. CASE CreateKey(r) \/ DestroyKey(r) \/ DeletePrincipal(r) \/ InsertToken(r)
               \/ RevokeToken(r)
      BY <2>3, KeyWrites, DeletePrincipalEffect, InsertTokenEffect, RevokeFades
    <2>4. CASE InsertNamespace(r) \/ CreatePrincipal(r)
      BY <2>4 DEF InsertNamespace, CreatePrincipal
    <2> QED BY <1>7, <2>1, <2>2, <2>3, <2>4 DEF Writes
  <1>8. ASSUME NEW p \in Principals, NEW value, SetPrincipalDisabled(p, value)
        PROVE  UNCHANGED <<grants, pc, req>>
    BY <1>8 DEF SetPrincipalDisabled
  <1>9. ASSUME NEW t \in Tokens, Expire(t)
        PROVE  UNCHANGED <<grants, pc, req>>
    BY <1>9 DEF Expire
  <1> QED
    BY <1>3, <1>4, <1>5, <1>6, <1>7, <1>8, <1>9, NextCases

\* Who writes the table.
LEMMA GrantWriters ==
  ASSUME TypeInv, [Next]_vars
  PROVE  \/ UNCHANGED grants
         \/ \E r \in Requests : \/ ReplaceGrant(r) \/ InsertGrant(r)
                                \/ DeleteGrant(r) \/ DestroyKey(r)
  <1> USE DEF vars
  <1>1. CASE \E r \in Requests, t \in Tokens : Start(r, t)
    BY <1>1, StartMoves DEF tables
  <1>2. ASSUME NEW r \in Requests,
               \/ Quiet(r) \/ ReadNamespace(r) \/ FindGrant(r) \/ FindTokens(r) \/ FindGrantsOn(r)
               \/ CheckOwner(r) \/ CreateOwner(r)
        PROVE  UNCHANGED grants
    BY <1>2, QuietMoves, ReadNamespaceMoves, FindGrantMoves, FindTokensMoves, FindGrantsOnMoves, OwnerMoves
    DEF tables
  <1>3. ASSUME NEW r \in Requests, Writes(r),
               ~(ReplaceGrant(r) \/ InsertGrant(r) \/ DeleteGrant(r) \/ DestroyKey(r))
        PROVE  UNCHANGED grants
    <2>1. CASE DeletePrincipal(r) \/ InsertToken(r) \/ RevokeToken(r)
      BY <2>1, DeletePrincipalEffect, InsertTokenEffect, RevokeFades
    <2>2. CASE InsertNamespace(r) \/ CreatePrincipal(r) \/ CreateKey(r)
      BY <2>2 DEF InsertNamespace, CreatePrincipal, CreateKey
    <2> QED BY <1>3, <2>1, <2>2 DEF Writes
  <1>4. ASSUME NEW p \in Principals, NEW value, SetPrincipalDisabled(p, value)
        PROVE  UNCHANGED grants
    BY <1>4 DEF SetPrincipalDisabled
  <1>5. ASSUME NEW t \in Tokens, Expire(t)
        PROVE  UNCHANGED grants
    BY <1>5 DEF Expire
  <1> QED
    BY <1>1, <1>2, <1>3, <1>4, <1>5, NextCases

LEMMA GrantInit == Init => GrantInv
  <1> SUFFICES ASSUME Init PROVE GrantInv
    OBVIOUS
  <1>1. TypeInv
    BY TypeInit
  <1>2. FoundGrantFits
    BY DEF Init, FoundGrantFits
  <1>3. OneGrantPerResource
    BY DEF Init, NoGrant, OneGrantPerResource
  <1> QED BY <1>1, <1>2, <1>3 DEF GrantInv

LEMMA GrantStep == GrantInv /\ [Next]_vars => GrantInv'
  <1> SUFFICES ASSUME GrantInv, [Next]_vars PROVE GrantInv'
    OBVIOUS
  <1>1. TypeInv /\ TypeInv' /\ FoundGrantFits /\ OneGrantPerResource
    BY TypeStep DEF GrantInv
  <1>2. FoundGrantFits'
    <2>1. SUFFICES ASSUME NEW r \in Requests, pc'[r] = "write", req'[r].id # None
                   PROVE  /\ req'[r].id \in Grants
                          /\ grants'[req'[r].id].state # "unborn"
                          /\ grants'[req'[r].id].state = "live" =>
                               /\ grants'[req'[r].id].principal = req'[r].principal
                               /\ grants'[req'[r].id].resource = req'[r].resource
      BY DEF FoundGrantFits, GrantOf
    <2>2. CASE pc[r] = "write" /\ req'[r] = req[r]
      <3>1. /\ req[r].id \in Grants
            /\ grants[req[r].id].state # "unborn"
            /\ grants[req[r].id].state = "live" =>
                 GrantOf(req[r].id, req[r].principal, req[r].resource)
        BY <1>1, <2>1, <2>2 DEF FoundGrantFits
      <3>2. \/ grants'[req[r].id] = grants[req[r].id]
            \/ grants'[req[r].id].state = "deleted"
            \/ /\ grants[req[r].id].state = "live" /\ grants'[req[r].id].state = "live"
               /\ grants'[req[r].id].principal = grants[req[r].id].principal
               /\ grants'[req[r].id].resource = grants[req[r].id].resource
        BY <1>1, <3>1, GrantSteps
      <3> QED BY <2>2, <3>1, <3>2 DEF GrantOf
    <2>3. CASE /\ UNCHANGED grants
               /\ req'[r].id \in Grants
               /\ GrantOf(req'[r].id, req'[r].principal, req'[r].resource)
      BY <2>3 DEF GrantOf
    <2> QED BY <1>1, <2>1, <2>2, <2>3, GrantSteps
  <1>3. OneGrantPerResource'
    <2>1. CASE UNCHANGED grants
      BY <1>1, <2>1 DEF OneGrantPerResource
    <2>2. ASSUME NEW r \in Requests, ReplaceGrant(r) \/ InsertGrant(r)
          PROVE  OneGrantPerResource'
      <3>1. CASE grants' = grants
        BY <1>1, <3>1 DEF OneGrantPerResource
      <3>2. ASSUME NEW g \in Grants,
                   /\ \/ g = req[r].id /\ grants[g].state = "live"
                      \/ /\ grants[g].state = "unborn"
                         /\ \A h \in Grants : ~GrantOf(h, req[r].principal, req[r].resource)
                   /\ grants'[g].state = "live"
                   /\ grants'[g].principal = req[r].principal
                   /\ grants'[g].resource = req[r].resource
                   /\ \A h \in Grants : h # g => grants'[h] = grants[h]
            PROVE  OneGrantPerResource'
        <4>1. /\ pc[r] = "write"
              /\ grants[g].state = "live" /\ g = req[r].id => g # None
          BY <2>2 DEF ReplaceGrant, InsertGrant
        <4>2. \A h \in Grants : h # g => ~GrantOf(h, req[r].principal, req[r].resource)
          <5>1. CASE g = req[r].id /\ grants[g].state = "live"
            <6>1. GrantOf(g, req[r].principal, req[r].resource)
              BY <1>1, <4>1, <5>1 DEF FoundGrantFits
            <6> QED BY <1>1, <5>1, <6>1 DEF GrantOf, OneGrantPerResource
          <5>2. CASE \A h \in Grants : ~GrantOf(h, req[r].principal, req[r].resource)
            BY <5>2
          <5> QED BY <3>2, <5>1, <5>2
        <4> QED BY <1>1, <3>2, <4>2 DEF GrantOf, OneGrantPerResource
      <3> QED BY <1>1, <2>2, <3>1, <3>2, GrantWrites
    <2>3. ASSUME NEW r \in Requests, DeleteGrant(r) \/ DestroyKey(r)
          PROVE  OneGrantPerResource'
      <3>1. \A g \in Grants : grants'[g] = grants[g] \/ grants'[g].state = "deleted"
        BY <1>1, <2>3, DeleteGrantEffect, KeyWrites
      <3> QED BY <1>1, <3>1 DEF OneGrantPerResource
    <2> QED BY <1>1, <2>1, <2>2, <2>3, GrantWriters
  <1> QED BY <1>1, <1>2, <1>3 DEF GrantInv

\* However many create_grant race, a principal has one grant per resource.
THEOREM GrantsAreUnique == Spec => []OneGrantPerResource
  <1>1. GrantInv => OneGrantPerResource
    BY DEF GrantInv
  <1> QED
    BY <1>1, GrantInit, GrantStep, PTL DEF Spec

\* A create_grant that found a grant which is removed before it writes leaves
\* it removed.
THEOREM RemovalIsFinal == Spec => RemovedGrantsStayRemoved
  <1>1. GrantInv /\ [Next]_vars =>
          [\A g \in Grants : grants[g].state = "deleted" => grants[g].state' = "deleted"]_vars
    BY GrantSteps DEF GrantInv
  <1> QED
    BY <1>1, GrantInit, GrantStep, PTL DEF Spec, RemovedGrantsStayRemoved

-----------------------------------------------------------------------------
(* Authorization.                                                          *)

\* A request stays where it is unless it is the one that steps.
LEMMA Movers ==
  ASSUME TypeInv, [Next]_vars, NEW r \in Requests
  PROVE  \/ pc'[r] = pc[r] /\ req'[r] = req[r]
         \/ pc[r] = "idle" /\ \E label \in StartLabels : Moved(r, label)
         \/ Step(r)
  <1> USE DEF vars
  <1>1. ASSUME NEW q \in Requests, NEW t \in Tokens, Start(q, t)
        PROVE  \/ pc'[r] = pc[r] /\ req'[r] = req[r]
               \/ pc[r] = "idle" /\ \E label \in StartLabels : Moved(r, label)
    BY <1>1, StartMoves DEF Moved
  <1>2. ASSUME NEW q \in Requests,
               \/ Quiet(q) \/ ReadNamespace(q) \/ FindGrant(q) \/ FindTokens(q)
               \/ FindGrantsOn(q) \/ CheckOwner(q) \/ CreateOwner(q) \/ Writes(q)
        PROVE  \/ pc'[r] = pc[r] /\ req'[r] = req[r]
               \/ Step(r)
    <2>1. \E label : Moved(q, label)
      BY <1>2, QuietMoves, ReadNamespaceMoves, FindGrantMoves, FindTokensMoves,
         FindGrantsOnMoves, OwnerMoves, WriteMoves
    <2>2. Step(q)
      BY <1>2 DEF Step, Quiet, Writes
    <2> QED BY <2>1, <2>2 DEF Moved
  <1>3. ASSUME NEW p \in Principals, NEW value, SetPrincipalDisabled(p, value)
        PROVE  UNCHANGED <<pc, req>>
    BY <1>3 DEF SetPrincipalDisabled
  <1>4. ASSUME NEW t \in Tokens, Expire(t)
        PROVE  UNCHANGED <<pc, req>>
    BY <1>4 DEF Expire
  <1> QED
    BY <1>1, <1>2, <1>3, <1>4, NextCases

\* What authorize_key_op read of a key is still so when it reads the grants:
\* a key never changes its namespace.
NamespaceInv ==
  \A r \in Requests : pc[r] = "grants" =>
    LET k == req[r].resource IN
    /\ k \in Keys
    /\ \/ req[r].namespace = None
       \/ keys[k].state # "unborn" /\ req[r].namespace = keys[k].namespace

LEMMA KeyWriters ==
  ASSUME TypeInv, [Next]_vars
  PROVE  \/ UNCHANGED keys
         \/ \E r \in Requests : CreateKey(r) \/ DestroyKey(r)
  <1> USE DEF vars
  <1>1. CASE \E r \in Requests, t \in Tokens : Start(r, t)
    BY <1>1, StartMoves DEF tables
  <1>2. ASSUME NEW r \in Requests,
               \/ Quiet(r) \/ ReadNamespace(r) \/ FindGrant(r) \/ FindTokens(r) \/ FindGrantsOn(r)
               \/ CheckOwner(r) \/ CreateOwner(r)
        PROVE  UNCHANGED keys
    BY <1>2, QuietMoves, ReadNamespaceMoves, FindGrantMoves, FindTokensMoves, FindGrantsOnMoves, OwnerMoves
    DEF tables
  <1>3. ASSUME NEW r \in Requests, Writes(r), ~(CreateKey(r) \/ DestroyKey(r))
        PROVE  UNCHANGED keys
    <2>1. CASE \/ ReplaceGrant(r) \/ InsertGrant(r) \/ DeleteGrant(r)
               \/ DeletePrincipal(r) \/ InsertToken(r) \/ RevokeToken(r)
      BY <2>1, GrantWrites, DeleteGrantEffect, DeletePrincipalEffect, InsertTokenEffect,
         RevokeFades
    <2>2. CASE InsertNamespace(r) \/ CreatePrincipal(r)
      BY <2>2 DEF InsertNamespace, CreatePrincipal
    <2> QED BY <1>3, <2>1, <2>2 DEF Writes
  <1>4. ASSUME NEW p \in Principals, NEW value, SetPrincipalDisabled(p, value)
        PROVE  UNCHANGED keys
    BY <1>4 DEF SetPrincipalDisabled
  <1>5. ASSUME NEW t \in Tokens, Expire(t)
        PROVE  UNCHANGED keys
    BY <1>5 DEF Expire
  <1> QED
    BY <1>1, <1>2, <1>3, <1>4, <1>5, NextCases

LEMMA KeySteps ==
  ASSUME TypeInv, [Next]_vars
  PROVE  \A k \in Keys : keys[k].state # "unborn" =>
           keys'[k].state # "unborn" /\ keys'[k].namespace = keys[k].namespace
  BY KeyWriters, KeyWrites

\* Only ReadNamespace leads to the read of the grants.
LEMMA ToGrants ==
  ASSUME TypeInv, [Next]_vars, NEW r \in Requests, pc'[r] = "grants"
  PROVE  \/ pc[r] = "grants" /\ req'[r] = req[r]
         \/ ReadNamespace(r)
  <1>1. "grants" \notin StartLabels /\ "grants" \notin QuietLabels
    BY DEF StartLabels, QuietLabels
  <1>2. ASSUME Step(r), ~ReadNamespace(r)
        PROVE  pc'[r] # "grants"
    <2>1. \/ Quiet(r) \/ FindGrant(r) \/ FindTokens(r) \/ FindGrantsOn(r)
          \/ CheckOwner(r) \/ CreateOwner(r) \/ Writes(r)
      BY <1>2 DEF Step, Quiet, Writes
    <2> QED
      BY <1>1, <2>1, QuietMoves, FindGrantMoves, FindTokensMoves, FindGrantsOnMoves, OwnerMoves, WriteMoves
      DEF Moved
  <1> QED
    BY <1>1, <1>2, Movers DEF Moved

LEMMA NamespaceStep ==
  TypeInv /\ NamespaceInv /\ [Next]_vars => NamespaceInv'
  <1> SUFFICES ASSUME TypeInv, NamespaceInv, [Next]_vars,
                      NEW r \in Requests, pc'[r] = "grants"
               PROVE  /\ req'[r].resource \in Keys
                      /\ \/ req'[r].namespace = None
                         \/ /\ keys'[req'[r].resource].state # "unborn"
                            /\ req'[r].namespace = keys'[req'[r].resource].namespace
    BY DEF NamespaceInv
  <1>1. CASE pc[r] = "grants" /\ req'[r] = req[r]
    BY <1>1, KeySteps DEF NamespaceInv
  <1>2. CASE ReadNamespace(r)
    BY <1>2, ReadNamespaceMoves DEF tables, LiveKey
  <1> QED BY <1>1, <1>2, ToGrants

\* The step that lets a key operation through, and the one that answers a
\* listing, are steps of the request itself, at the read of the grants.
LEMMA Decisions ==
  ASSUME TypeInv, [Next]_vars, NEW r \in Requests
  PROVE  /\ pc[r] = "grants" /\ pc'[r] = "act" => AuthorizeKeyOp(r)
         /\ pc[r] = "filter" /\ pc'[r] = "answer" => FilterVisible(r)
  <1>1. ASSUME Step(r)
        PROVE  /\ pc[r] = "grants" => AuthorizeKeyOp(r) \/ EndRequest(r)
               /\ pc[r] = "filter" => FilterVisible(r) \/ EndRequest(r)
    BY <1>1 DEF Step, ReadNamespace, AuthorizeNamespaceOp, ReadKeys, LookupNamespace,
       CreateKey, FindGrantsOn, DestroyKey, CheckName, InsertNamespace, CheckPrincipal, CheckResource,
       FindGrant, ReplaceGrant, InsertGrant, DeleteGrant, CreatePrincipal, FindTokens,
       DeletePrincipal, CheckOwner, CreateOwner, InsertToken, RevokeToken,
       AuthorizeKeyOp, FilterVisible
  <1>2. EndRequest(r) => pc'[r] = "idle"
    BY FinishMoves DEF EndRequest, TypeInv, TypeOK, RequestsTyped
  <1> QED BY <1>1, <1>2, Movers

LEMMA CoveredDecisions ==
  ASSUME TypeInv, NamespaceInv, NEW r \in Requests
  PROVE  /\ AuthorizeKeyOp(r) => Covered(req[r].caller, req[r].op, req[r].resource)
         /\ FilterVisible(r) => \A k \in req[r].rows' : Covered(req[r].caller, "read", k)
  <1>1. ASSUME AuthorizeKeyOp(r)
        PROVE  Covered(req[r].caller, req[r].op, req[r].resource)
    BY <1>1 DEF AuthorizeKeyOp, Allows, Covered, NamespaceInv
  <1>2. ASSUME FilterVisible(r)
        PROVE  \A k \in req[r].rows' : Covered(req[r].caller, "read", k)
    <2> DEFINE visible == {k \in req[r].rows :
                 Allows(req[r].caller, "read", k, keys[k].namespace)}
    <2>1. req'[r] = FoundRows(req[r], visible)
      BY <1>2 DEF FilterVisible, Goto, TypeInv, TypeOK
    <2>2. req'[r].rows = visible
      BY <2>1 DEF FoundRows, Found
    <2>3. \A k \in visible : Covered(req[r].caller, "read", k)
      BY DEF Allows, Covered
    <2> QED BY <2>2, <2>3
  <1> QED BY <1>1, <1>2

\* No key operation is let through, and no key listed, without a grant of the
\* caller on the key or on its namespace when the grants were read.
THEOREM AuthorizationIsCovered == Spec => DecisionsAreCovered
  <1>1. Init => TypeInv /\ NamespaceInv
    BY TypeInit DEF Init, NamespaceInv
  <1>2. TypeInv /\ NamespaceInv /\ [Next]_vars => (TypeInv /\ NamespaceInv)'
    BY TypeStep, NamespaceStep
  <1>3. TypeInv /\ NamespaceInv /\ [Next]_vars =>
          [\A r \in Requests :
             /\ pc[r] = "grants" /\ pc[r]' = "act" =>
                  Covered(req[r].caller, req[r].op, req[r].resource)
             /\ pc[r] = "filter" /\ pc[r]' = "answer" =>
                  \A k \in req[r].rows' : Covered(req[r].caller, "read", k)]_vars
    BY Decisions, CoveredDecisions
  <1> QED
    BY <1>1, <1>2, <1>3, PTL DEF Spec, DecisionsAreCovered

-----------------------------------------------------------------------------
(* The deletion of a principal.                                            *)

\* Tokens fade but for the one that InsertToken adds, and only
\* DeletePrincipal deletes a principal.
LEMMA TokenSteps ==
  ASSUME TypeInv, [Next]_vars
  PROVE  /\ \/ TokensFade /\ UNCHANGED late
            \/ \E r \in Requests : InsertToken(r)
         /\ \/ \A p \in Principals : principals[p] = "deleted" <=> principals'[p] = "deleted"
            \/ \E r \in Requests : DeletePrincipal(r)
  <1> USE DEF vars
  <1>1. ASSUME UNCHANGED tables
        PROVE  /\ TokensFade /\ UNCHANGED late
               /\ \A p \in Principals : principals[p] = "deleted" <=> principals'[p] = "deleted"
    BY <1>1, TokensUnchangedFade DEF tables
  <1>2. CASE \E r \in Requests, t \in Tokens : Start(r, t)
    BY <1>1, <1>2, StartMoves
  <1>3. ASSUME NEW r \in Requests,
               Quiet(r) \/ ReadNamespace(r) \/ FindGrant(r) \/ FindTokens(r) \/ FindGrantsOn(r)
        PROVE  UNCHANGED tables
    BY <1>3, QuietMoves, ReadNamespaceMoves, FindGrantMoves, FindTokensMoves, FindGrantsOnMoves
  <1>4. ASSUME NEW r \in Requests, CheckOwner(r) \/ CreateOwner(r)
        PROVE  /\ TokensFade /\ UNCHANGED late
               /\ \A p \in Principals : principals[p] = "deleted" <=> principals'[p] = "deleted"
    <2>1. /\ UNCHANGED <<tokens, late>>
          /\ UNCHANGED principals \/ \E p \in Principals : NewPrincipal(p)
      BY <1>4, OwnerMoves
    <2> QED BY <2>1, TokensUnchangedFade, PrincipalWrites
  <1>5. ASSUME NEW r \in Requests, Writes(r), ~InsertToken(r)
        PROVE  TokensFade /\ UNCHANGED late
    <2>1. CASE DeletePrincipal(r) \/ RevokeToken(r)
      BY <2>1, DeletePrincipalEffect, RevokeFades
    <2>2. CASE CreateKey(r) \/ DestroyKey(r) \/ ReplaceGrant(r) \/ InsertGrant(r)
               \/ DeleteGrant(r)
      BY <2>2, KeyWrites, GrantWrites, DeleteGrantEffect, TokensUnchangedFade
    <2>3. CASE InsertNamespace(r) \/ CreatePrincipal(r)
      BY <2>3, TokensUnchangedFade DEF InsertNamespace, CreatePrincipal
    <2> QED BY <1>5, <2>1, <2>2, <2>3 DEF Writes
  <1>6. ASSUME NEW r \in Requests, Writes(r), ~DeletePrincipal(r)
        PROVE  \A p \in Principals : principals[p] = "deleted" <=> principals'[p] = "deleted"
    <2>1. CASE CreateKey(r) \/ DestroyKey(r) \/ ReplaceGrant(r) \/ InsertGrant(r)
               \/ DeleteGrant(r) \/ InsertToken(r) \/ RevokeToken(r)
      BY <2>1, KeyWrites, GrantWrites, DeleteGrantEffect, InsertTokenEffect, RevokeFades
    <2>2. CASE InsertNamespace(r)
      BY <2>2 DEF InsertNamespace
    <2>3. CASE CreatePrincipal(r)
      BY <2>3, PrincipalWrites DEF CreatePrincipal
    <2> QED BY <1>6, <2>1, <2>2, <2>3 DEF Writes
  <1>7. ASSUME NEW p \in Principals, NEW value \in {"enabled", "disabled"},
               SetPrincipalDisabled(p, value)
        PROVE  /\ TokensFade /\ UNCHANGED late
               /\ \A q \in Principals : principals[q] = "deleted" <=> principals'[q] = "deleted"
    <2>1. UNCHANGED <<tokens, late>>
      BY <1>7 DEF SetPrincipalDisabled
    <2> QED BY <1>7, <2>1, TokensUnchangedFade, PrincipalWrites
  <1>8. ASSUME NEW t \in Tokens, Expire(t)
        PROVE  TokensFade /\ UNCHANGED <<principals, late>>
    BY <1>8, ExpireFades
  <1>9. CASE UNCHANGED vars
    BY <1>1, <1>9 DEF tables
  <1> QED
    BY <1>1, <1>2, <1>3, <1>4, <1>5, <1>6, <1>7, <1>8, <1>9, NextCases

\* A deletion that has found the tokens of its principal misses none but those
\* that were inserted since.
FoundTokensFit ==
  \A r \in Requests : pc[r] = "delete" =>
    \A t \in Tokens :
      tokens[t].state = "active" /\ tokens[t].principal = req[r].principal =>
        t \in req[r].rows \/ t \in late

LateInv == TypeInv /\ FoundTokensFit /\ OnlyLateTokensSurvive

\* Only FindTokens leads to the deletion of a principal, only FindGrantsOn to
\* that of a key, and only CheckOwner and CreateOwner to a new token.
LEMMA ToDeleteOrMint ==
  ASSUME TypeInv, [Next]_vars, NEW r \in Requests
  PROVE  /\ pc'[r] = "delete" => \/ pc[r] = "delete" /\ req'[r] = req[r]
                                 \/ FindTokens(r)
         /\ pc'[r] = "destroy" => \/ pc[r] = "destroy" /\ req'[r] = req[r]
                                  \/ FindGrantsOn(r)
         /\ pc'[r] = "mint" => \/ pc[r] = "mint" /\ req'[r] = req[r]
                               \/ CheckOwner(r) \/ CreateOwner(r)
  <1>1. {"delete", "destroy", "mint"} \cap (StartLabels \cup QuietLabels) = {}
    BY DEF StartLabels, QuietLabels
  <1>2. ASSUME Step(r)
        PROVE  /\ pc'[r] = "delete" => FindTokens(r)
               /\ pc'[r] = "destroy" => FindGrantsOn(r)
               /\ pc'[r] = "mint" => CheckOwner(r) \/ CreateOwner(r)
    <2>1. \/ Quiet(r) \/ ReadNamespace(r) \/ FindGrant(r) \/ FindTokens(r)
          \/ FindGrantsOn(r) \/ CheckOwner(r) \/ CreateOwner(r) \/ Writes(r)
      BY <1>2 DEF Step, Quiet, Writes
    <2> QED
      BY <1>1, <2>1, QuietMoves, ReadNamespaceMoves, FindGrantMoves, FindTokensMoves,
         FindGrantsOnMoves, OwnerMoves, WriteMoves
      DEF Moved
  <1> QED
    BY <1>1, <1>2, Movers DEF Moved

LEMMA FoundTokensStep ==
  ASSUME TypeInv, FoundTokensFit, [Next]_vars
  PROVE  FoundTokensFit'
  <1>1. SUFFICES ASSUME NEW r \in Requests, pc'[r] = "delete",
                        NEW t \in Tokens, tokens'[t].state = "active",
                        tokens'[t].principal = req'[r].principal
                 PROVE  t \in req'[r].rows \/ t \in late'
    BY DEF FoundTokensFit
  <1>2. CASE FindTokens(r)
    BY <1>1, <1>2, FindTokensMoves DEF TokensOf, tables
  <1>3. CASE pc[r] = "delete" /\ req'[r] = req[r]
    <2>1. CASE TokensFade /\ UNCHANGED late
      BY <1>1, <1>3, <2>1 DEF TokensFade, FoundTokensFit
    <2>2. ASSUME NEW q \in Requests, InsertToken(q)
          PROVE  t \in req'[r].rows \/ t \in late'
      <3>1. PICK u \in Tokens :
              /\ tokens'[u].state = "active"
              /\ tokens'[u].principal = req[q].principal
              /\ \A v \in Tokens : v # u => tokens'[v] = tokens[v]
              /\ late' = IF Deleting(req[q].principal) THEN late \cup {u} ELSE late
        BY <2>2, InsertTokenEffect
      <3>2. CASE t = u
        <4>1. Deleting(req[q].principal)
          BY <1>1, <1>3, <3>1, <3>2 DEF Deleting
        <4> QED BY <3>1, <3>2, <4>1
      <3>3. CASE t # u
        BY <1>1, <1>3, <3>1, <3>3 DEF FoundTokensFit
      <3> QED BY <3>2, <3>3
    <2> QED BY <2>1, <2>2, TokenSteps
  <1> QED BY <1>1, <1>2, <1>3, ToDeleteOrMint

LEMMA SurvivorsStep ==
  ASSUME LateInv, [Next]_vars
  PROVE  OnlyLateTokensSurvive'
  <1>1. TypeInv /\ TypeInv' /\ FoundTokensFit /\ OnlyLateTokensSurvive
    BY TypeStep DEF LateInv
  <1>2. SUFFICES ASSUME NEW t \in Tokens, Usable(t)',
                        principals'[tokens'[t].principal] = "deleted"
                 PROVE  t \in late'
    BY DEF OnlyLateTokensSurvive
  <1>3. tokens'[t].state = "active" /\ tokens'[t].principal \in Principals
    BY <1>1, <1>2 DEF Usable, TypeInv
  <1>4. CASE \A p \in Principals : principals[p] = "deleted" <=> principals'[p] = "deleted"
    <2>1. principals[tokens'[t].principal] = "deleted"
      BY <1>2, <1>3, <1>4
    <2>2. CASE TokensFade /\ UNCHANGED late
      BY <1>1, <1>2, <2>1, <2>2 DEF TokensFade, OnlyLateTokensSurvive
    <2>3. ASSUME NEW q \in Requests, InsertToken(q)
          PROVE  t \in late'
      <3>1. PICK u \in Tokens :
              /\ tokens'[u].principal = req[q].principal
              /\ \A v \in Tokens : v # u => tokens'[v] = tokens[v]
              /\ late' = IF Deleting(req[q].principal) THEN late \cup {u} ELSE late
        BY <1>1, <2>3, InsertTokenEffect
      <3>2. CASE t = u
        BY <2>1, <3>1, <3>2 DEF Deleting
      <3>3. CASE t # u
        <4>1. Usable(t) /\ tokens'[t] = tokens[t]
          BY <1>2, <3>1, <3>3 DEF Usable
        <4> QED BY <1>1, <2>1, <3>1, <4>1 DEF OnlyLateTokensSurvive
      <3> QED BY <3>2, <3>3
    <2> QED BY <1>1, <2>2, <2>3, TokenSteps
  <1>5. ASSUME NEW r \in Requests, DeletePrincipal(r)
        PROVE  t \in late'
    <2>1. /\ TokensFade
          /\ \A u \in Tokens : u \in req[r].rows => tokens'[u].state # "active"
          /\ pc[r] = "delete" /\ req[r].principal \in Principals
          /\ principals' = [principals EXCEPT ![req[r].principal] = "deleted"]
          /\ UNCHANGED late
      BY <1>1, <1>5, DeletePrincipalEffect
    <2>2. /\ Usable(t) /\ tokens[t].state = "active" /\ t \notin req[r].rows
          /\ tokens'[t].principal = tokens[t].principal
      BY <1>2, <1>3, <2>1 DEF TokensFade
    <2>3. CASE tokens[t].principal = req[r].principal
      BY <1>1, <2>1, <2>2, <2>3 DEF FoundTokensFit
    <2>4. CASE tokens[t].principal # req[r].principal
      <3>1. principals[tokens[t].principal] = "deleted"
        BY <1>1, <1>2, <1>3, <2>1, <2>2, <2>4 DEF TypeInv, TypeOK
      <3> QED BY <1>1, <2>1, <2>2, <3>1 DEF OnlyLateTokensSurvive
    <2> QED BY <2>3, <2>4
  <1> QED BY <1>1, <1>4, <1>5, TokenSteps

\* A token that still works though its principal is deleted was inserted while
\* the deletion was under way or after it: the deletion missed no other.
THEOREM DeletionRevokes == Spec => []OnlyLateTokensSurvive
  <1>1. Init => LateInv
    <2> SUFFICES ASSUME Init PROVE LateInv
      OBVIOUS
    <2>1. TypeInv
      BY TypeInit
    <2>2. FoundTokensFit
      BY DEF Init, FoundTokensFit
    <2>3. \A t \in Tokens : tokens[t].state # "unborn" => tokens[t].principal = Root
      BY DEF Init, NoToken
    <2>4. OnlyLateTokensSurvive
      BY <2>3 DEF Init, OnlyLateTokensSurvive, Usable
    <2> QED BY <2>1, <2>2, <2>4 DEF LateInv
  <1>2. LateInv /\ [Next]_vars => LateInv'
    BY TypeStep, FoundTokensStep, SurvivorsStep DEF LateInv
  <1>3. LateInv => OnlyLateTokensSurvive
    BY DEF LateInv
  <1> QED
    BY <1>1, <1>2, <1>3, PTL DEF Spec

LEMMA GoneStep ==
  ASSUME TypeInv, [Next]_vars, NEW p \in Principals, Gone(p)
  PROVE  Gone(p)'
  <1>1. /\ principals[p] = "deleted"
        /\ \A t \in Tokens : tokens[t].principal = p => ~Usable(t)
        /\ \A r \in Requests : ~(pc[r] = "mint" /\ req[r].principal = p)
    BY DEF Gone
  <1>2. principals'[p] = "deleted"
    <2>1. ASSUME NEW r \in Requests, DeletePrincipal(r)
          PROVE  principals'[p] = "deleted"
      BY <1>1, <2>1, DeletePrincipalEffect DEF TypeInv, TypeOK
    <2> QED BY <1>1, <2>1, TokenSteps
  <1>3. ASSUME NEW t \in Tokens, tokens'[t].principal = p
        PROVE  ~Usable(t)'
    <2>1. CASE TokensFade
      BY <1>1, <1>3, <2>1 DEF TokensFade
    <2>2. ASSUME NEW r \in Requests, InsertToken(r)
          PROVE  ~Usable(t)'
      <3>1. PICK u \in Tokens :
              /\ tokens'[u].principal = req[r].principal
              /\ \A v \in Tokens : v # u => tokens'[v] = tokens[v]
        BY <2>2, InsertTokenEffect
      <3>2. req[r].principal # p
        BY <1>1, <2>2, InsertTokenEffect
      <3>3. tokens'[t] = tokens[t]
        BY <1>3, <3>1, <3>2
      <3> QED BY <1>1, <1>3, <3>3 DEF Usable
    <2> QED BY <2>1, <2>2, TokenSteps
  <1>4. ASSUME NEW r \in Requests, pc'[r] = "mint", req'[r].principal = p
        PROVE  FALSE
    <2>1. CheckOwner(r) \/ CreateOwner(r)
      BY <1>1, <1>4, ToDeleteOrMint
    <2> QED BY <1>1, <1>4, <2>1, OwnerMoves DEF Exists, NewPrincipal
  <1> QED BY <1>2, <1>3, <1>4 DEF Gone

\* Once a principal is deleted, with its tokens revoked and no create_token in
\* flight for it, nobody can ever act as that principal again.
THEOREM GoneForGood == Spec => DeletionIsFinal
  <1>1. TypeInv /\ [Next]_vars => [\A p \in Principals : Gone(p) => Gone(p)']_vars
    BY GoneStep
  <1> QED
    BY <1>1, TypeInvariance, PTL DEF Spec, DeletionIsFinal

-----------------------------------------------------------------------------
(* The destruction of a key.                                               *)

\* Only the commit of a destruction makes a key a destroyed one, and the history
\* of late grants only grows.
LEMMA KeyDeletions ==
  ASSUME TypeInv, [Next]_vars
  PROVE  /\ lateGrants \subseteq lateGrants'
         /\ \A k \in Keys : keys'[k].state = "deleted" =>
              \/ keys[k].state = "deleted"
              \/ \E r \in Requests : DestroyKey(r) /\ req[r].resource = k
  <1> USE DEF vars
  <1>1. CASE \E r \in Requests, t \in Tokens : Start(r, t)
    BY <1>1, StartMoves DEF tables
  <1>2. ASSUME NEW r \in Requests,
               \/ Quiet(r) \/ ReadNamespace(r) \/ FindGrant(r) \/ FindTokens(r)
               \/ FindGrantsOn(r) \/ CheckOwner(r) \/ CreateOwner(r)
        PROVE  UNCHANGED <<keys, lateGrants>>
    BY <1>2, QuietMoves, ReadNamespaceMoves, FindGrantMoves, FindTokensMoves,
       FindGrantsOnMoves, OwnerMoves
    DEF tables
  <1>3. ASSUME NEW r \in Requests, Writes(r), ~(CreateKey(r) \/ DestroyKey(r))
        PROVE  UNCHANGED keys /\ lateGrants \subseteq lateGrants'
    <2>1. CASE \/ ReplaceGrant(r) \/ InsertGrant(r) \/ DeleteGrant(r)
               \/ DeletePrincipal(r) \/ InsertToken(r) \/ RevokeToken(r)
      BY <2>1, GrantWrites, DeleteGrantEffect, DeletePrincipalEffect, InsertTokenEffect,
         RevokeFades
    <2>2. CASE InsertNamespace(r) \/ CreatePrincipal(r)
      BY <2>2 DEF InsertNamespace, CreatePrincipal
    <2> QED BY <1>3, <2>1, <2>2 DEF Writes
  <1>4. ASSUME NEW r \in Requests, CreateKey(r)
        PROVE  /\ UNCHANGED lateGrants
               /\ \A k \in Keys : keys'[k].state = "deleted" => keys[k].state = "deleted"
    <2>1. PICK k \in Keys : keys' = [keys EXCEPT ![k] = KeyIn(req[r].namespace)]
      BY <1>4 DEF CreateKey
    <2>2. KeyIn(req[r].namespace).state = "live"
      BY DEF KeyIn
    <2>3. keys \in [Keys -> KeyRow]
      BY DEF TypeInv, TypeOK
    <2>4. \A j \in Keys : keys'[j] = keys[j] \/ keys'[j] = KeyIn(req[r].namespace)
      BY <2>1, <2>3
    <2> QED BY <1>4, <2>2, <2>4 DEF CreateKey
  <1>5. ASSUME NEW r \in Requests, DestroyKey(r)
        PROVE  /\ UNCHANGED lateGrants
               /\ \A k \in Keys : keys'[k].state = "deleted" =>
                    keys[k].state = "deleted" \/ req[r].resource = k
    BY <1>5, KeyWrites, DestroyKeyEffect
  <1>6. ASSUME NEW p \in Principals, NEW value, SetPrincipalDisabled(p, value)
        PROVE  UNCHANGED <<keys, lateGrants>>
    BY <1>6 DEF SetPrincipalDisabled
  <1>7. ASSUME NEW t \in Tokens, Expire(t)
        PROVE  UNCHANGED <<keys, lateGrants>>
    BY <1>7 DEF Expire
  <1> QED
    BY <1>1, <1>2, <1>3, <1>4, <1>5, <1>6, <1>7, NextCases

\* A grant that is live was so before, on the same resource, or is inserted.
LEMMA LiveGrants ==
  ASSUME TypeInv, FoundGrantFits, [Next]_vars,
         NEW g \in Grants, grants'[g].state = "live"
  PROVE  \/ grants[g].state = "live" /\ grants'[g].resource = grants[g].resource
         \/ \E r \in Requests :
              /\ InsertGrant(r)
              /\ grants'[g].resource = req[r].resource
              /\ Destroying(req[r].resource) => g \in lateGrants'
  <1>1. CASE grants[g].state # "unborn"
    BY <1>1, GrantSteps
  <1>2. CASE grants[g].state = "unborn"
    <2>1. PICK r \in Requests : \/ ReplaceGrant(r) \/ InsertGrant(r)
                                \/ DeleteGrant(r) \/ DestroyKey(r)
      BY <1>2, GrantWriters
    <2>2. CASE DeleteGrant(r) \/ DestroyKey(r)
      BY <1>2, <2>2, DeleteGrantEffect, KeyWrites
    <2>3. CASE ReplaceGrant(r)
      <3>1. grants' = grants \/ \A h \in Grants : h # req[r].id => grants'[h] = grants[h]
        BY <2>3 DEF ReplaceGrant, WriteGrant, TypeInv, TypeOK
      <3>2. g = req[r].id
        BY <1>2, <3>1
      <3>3. grants' = grants
        BY <1>2, <2>3, <3>2 DEF ReplaceGrant
      <3> QED BY <1>2, <3>3
    <2>4. CASE InsertGrant(r)
      <3>1. PICK h \in Grants, ops \in OpSets :
              /\ WriteGrant(r, h, ops)
              /\ lateGrants' = IF Destroying(req[r].resource)
                                 THEN lateGrants \cup {h} ELSE lateGrants
        BY <2>4 DEF InsertGrant
      <3>2. h = g
        BY <1>2, <3>1, WriteGrantEffect
      <3> QED BY <2>4, <3>1, <3>2, WriteGrantEffect
    <2> QED BY <2>1, <2>2, <2>3, <2>4
  <1> QED BY <1>1, <1>2

\* A destruction that has found the grants on its key misses none but those
\* that were inserted since.
FoundGrantsFit ==
  \A r \in Requests : pc[r] = "destroy" =>
    \A g \in Grants :
      grants[g].state = "live" /\ grants[g].resource = req[r].resource =>
        g \in req[r].rows \/ g \in lateGrants

DangleInv == GrantInv /\ FoundGrantsFit /\ OnlyLateGrantsDangle

LEMMA FoundGrantsStep ==
  ASSUME DangleInv, [Next]_vars
  PROVE  FoundGrantsFit'
  <1>1. TypeInv /\ FoundGrantFits /\ FoundGrantsFit
    BY DEF DangleInv, GrantInv
  <1>2. SUFFICES ASSUME NEW r \in Requests, pc'[r] = "destroy",
                        NEW g \in Grants, grants'[g].state = "live",
                        grants'[g].resource = req'[r].resource
                 PROVE  g \in req'[r].rows \/ g \in lateGrants'
    BY DEF FoundGrantsFit
  <1>3. CASE FindGrantsOn(r)
    BY <1>1, <1>2, <1>3, FindGrantsOnMoves DEF tables
  <1>4. CASE pc[r] = "destroy" /\ req'[r] = req[r]
    <2>1. CASE grants[g].state = "live" /\ grants'[g].resource = grants[g].resource
      BY <1>1, <1>2, <1>4, <2>1, KeyDeletions DEF FoundGrantsFit
    <2>2. req[r].resource \in Keys
      BY <1>1, <1>4 DEF TypeInv, LocalsFit
    <2>3. Destroying(req[r].resource)
      BY <1>4, <2>2 DEF Destroying
    <2> QED BY <1>1, <1>2, <1>4, <2>1, <2>3, LiveGrants
  <1> QED BY <1>1, <1>2, <1>3, <1>4, ToDeleteOrMint

LEMMA DangleStep ==
  ASSUME DangleInv, [Next]_vars
  PROVE  OnlyLateGrantsDangle'
  <1>1. TypeInv /\ FoundGrantFits /\ FoundGrantsFit /\ OnlyLateGrantsDangle
    BY DEF DangleInv, GrantInv
  <1>2. SUFFICES ASSUME NEW g \in Grants, grants'[g].state = "live",
                        NEW k \in Keys, grants'[g].resource = k, keys'[k].state = "deleted"
                 PROVE  g \in lateGrants'
    BY DEF OnlyLateGrantsDangle
  <1>3. \/ keys[k].state = "deleted"
        \/ \E r \in Requests : DestroyKey(r) /\ req[r].resource = k
    BY <1>1, <1>2, KeyDeletions
  <1>4. CASE grants[g].state = "live" /\ grants'[g].resource = grants[g].resource
    <2>1. CASE keys[k].state = "deleted"
      BY <1>1, <1>2, <1>4, <2>1, KeyDeletions DEF OnlyLateGrantsDangle
    <2>2. ASSUME NEW r \in Requests, DestroyKey(r), req[r].resource = k
          PROVE  g \in lateGrants'
      <3>1. pc[r] = "destroy" /\ g \notin req[r].rows
        BY <1>1, <1>2, <2>2, DestroyKeyEffect
      <3> QED BY <1>1, <1>2, <1>4, <2>2, <3>1, KeyDeletions DEF FoundGrantsFit
    <2> QED BY <1>3, <2>1, <2>2
  <1>5. ASSUME NEW q \in Requests, InsertGrant(q), grants'[g].resource = req[q].resource,
               Destroying(req[q].resource) => g \in lateGrants'
        PROVE  g \in lateGrants'
    <2>1. pc[q] = "write" /\ UNCHANGED keys
      BY <1>5 DEF InsertGrant
    <2> QED BY <1>2, <1>5, <2>1 DEF Destroying
  <1> QED BY <1>1, <1>2, <1>4, <1>5, LiveGrants

\* A grant that names a destroyed key was inserted while the destruction was
\* under way or after it: the destruction missed no other.
THEOREM DestructionTakesGrants == Spec => []OnlyLateGrantsDangle
  <1>1. Init => DangleInv
    BY GrantInit DEF DangleInv, Init, NoGrant, FoundGrantsFit, OnlyLateGrantsDangle
  <1>2. DangleInv /\ [Next]_vars => DangleInv'
    BY GrantStep, FoundGrantsStep, DangleStep DEF DangleInv
  <1>3. DangleInv => OnlyLateGrantsDangle
    BY DEF DangleInv
  <1> QED
    BY <1>1, <1>2, <1>3, PTL DEF Spec

\* A create_grant gets to its lookup only when its resource is there, and from
\* the lookup to its write.
LEMMA ToFindOrWrite ==
  ASSUME TypeInv, [Next]_vars, NEW r \in Requests, pc'[r] \in {"find", "write"}
  PROVE  \/ pc[r] \in {"find", "write"} /\ req'[r].resource = req[r].resource
         \/ ResourceExists(req'[r].resource)
  <1>1. pc \in [Requests -> Labels] /\ req \in [Requests -> Local]
    BY DEF TypeInv, TypeOK
  <1>2. {"find", "write"} \cap StartLabels = {}
    BY DEF StartLabels
  <1>3. CASE Quiet(r)
    <2>1. CheckResource(r)
      BY <1>1, <1>3 DEF Quiet, AuthorizeKeyOp, AuthorizeNamespaceOp, ReadKeys, FilterVisible,
         LookupNamespace, CheckName, CheckPrincipal, EndRequest, Finish, Goto
    <2> QED BY <1>1, <2>1 DEF CheckResource, Goto
  <1>4. CASE FindGrant(r)
    BY <1>4, FindGrantMoves DEF FindGrant
  <1>5. CASE \/ ReadNamespace(r) \/ FindTokens(r) \/ FindGrantsOn(r)
             \/ CheckOwner(r) \/ CreateOwner(r) \/ Writes(r)
    BY <1>5, ReadNamespaceMoves, FindTokensMoves, FindGrantsOnMoves, OwnerMoves, WriteMoves
    DEF Moved
  <1>6. Step(r) => \/ Quiet(r) \/ ReadNamespace(r) \/ FindGrant(r) \/ FindTokens(r)
                   \/ FindGrantsOn(r) \/ CheckOwner(r) \/ CreateOwner(r) \/ Writes(r)
    BY DEF Step, Quiet, Writes
  <1> QED BY <1>2, <1>3, <1>4, <1>5, <1>6, Movers DEF Moved

LEMMA UngrantedStep ==
  ASSUME TypeInv, FoundGrantFits, [Next]_vars, NEW k \in Keys, Ungranted(k)
  PROVE  Ungranted(k)'
  <1>1. /\ keys[k].state = "deleted"
        /\ \A g \in Grants : grants[g].state = "live" => grants[g].resource # k
        /\ \A r \in Requests : pc[r] \in {"find", "write"} => req[r].resource # k
    BY DEF Ungranted
  <1>2. keys'[k].state = "deleted"
    <2>1. CASE \E r \in Requests : DestroyKey(r)
      BY <1>1, <2>1, DestroyKeyEffect
    <2>2. CASE \E r \in Requests : CreateKey(r)
      <3>1. PICK r \in Requests : CreateKey(r)
        BY <2>2
      <3> QED BY <1>1, <3>1 DEF CreateKey, TypeInv, TypeOK
    <2> QED BY <1>1, <2>1, <2>2, KeyWriters
  <1>3. ASSUME NEW g \in Grants, grants'[g].state = "live", grants'[g].resource = k
        PROVE  FALSE
    <2>1. PICK r \in Requests : InsertGrant(r) /\ req[r].resource = k
      BY <1>1, <1>3, LiveGrants
    <2> QED BY <1>1, <2>1 DEF InsertGrant
  <1>4. ASSUME NEW r \in Requests, pc'[r] \in {"find", "write"}, req'[r].resource = k
        PROVE  FALSE
    <2>1. ResourceExists(k)
      BY <1>1, <1>4, ToFindOrWrite
    <2> QED BY <1>1, <2>1, ResourcesAssumption DEF ResourceExists, LiveKey
  <1> QED BY <1>2, <1>3, <1>4 DEF Ungranted

\* Once a key is destroyed, its grants are gone and no create_grant for it is in
\* flight, no grant on it can ever appear again.
THEOREM UngrantedForGood == Spec => DestructionIsFinal
  <1>1. GrantInv /\ [Next]_vars => [\A k \in Keys : Ungranted(k) => Ungranted(k)']_vars
    BY UngrantedStep DEF GrantInv
  <1> QED
    BY <1>1, GrantInit, GrantStep, PTL DEF Spec, DestructionIsFinal
=============================================================================
