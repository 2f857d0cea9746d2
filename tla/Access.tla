------------------------------- MODULE Access -------------------------------
(***************************************************************************)
(* Who a request comes from and what it may do: principals and tokens      *)
(* (app/api/auth.py), namespaces, grants and strict mode                   *)
(* (app/api/authz.py), and the handlers of app/api/routes.py that change   *)
(* them, over the tables of app/storage/repository.py.                     *)
(*                                                                         *)
(* A request presents a token, and its Start action is the transaction     *)
(* that authenticates it.  One step per transaction follows, interleaved   *)
(* with those of other requests.  What a key operation does to a key is    *)
(* KeyStore's business: here keys exist, in a namespace, or do not.        *)
(***************************************************************************)
EXTENDS FiniteSets

CONSTANTS
  Principals, Tokens, Grants, Namespaces, Keys,  \* uuids, none drawn twice
  Root, RootToken,  \* the principal and the token of the bootstrap
  Default,          \* the namespace that the migration creates
  Names,            \* names of namespaces
  DefaultName,
  Ops,              \* authz.ALL_OPS
  Strict,           \* PQKMS_AUTHZ_MODE = strict
  ScopeSets,        \* the scopes that tokens are asked for with
  OpSets,           \* the operations that grants are asked for with
  Ttls,             \* whether a new token expires: a set of booleans
  Requests,         \* request slots: the threads of every replica
  Handlers,         \* the handlers that requests call
  None              \* SQL NULL, an unset local variable

ASSUME BootstrapAssumption ==
  Root \in Principals /\ RootToken \in Tokens /\ Default \in Namespaces
  /\ DefaultName \in Names
ASSUME OpsAssumption == {"manage", "read"} \subseteq Ops /\ "admin" \notin Ops
ASSUME InputsAssumption ==
  /\ ScopeSets \subseteq SUBSET (Ops \cup {"admin"})
  /\ OpSets \subseteq SUBSET Ops
  /\ Ttls \subseteq BOOLEAN
ASSUME ResourcesAssumption == Keys \cap Namespaces = {}
ASSUME NoneAssumption ==
  None \notin Principals \cup Tokens \cup Grants \cup Namespaces \cup Keys
              \cup Names \cup Ops

VARIABLES
  principals,  \* the table principals: where each id is in its life
  tokens,      \* the table api_tokens
  grants,      \* the table grants
  namespaces,  \* the table namespaces: the name of each id
  keys,        \* of managed_keys, the namespace of each key
  pc,          \* where each request is
  req,         \* the local variables of each request
  late,        \* history: tokens inserted beside the deletion of their principal
  lateGrants   \* history: grants inserted beside the destruction of their key

tables == <<principals, tokens, grants, namespaces, keys, late, lateGrants>>
vars == <<principals, tokens, grants, namespaces, keys, pc, req, late, lateGrants>>

Scopes == Ops \cup {"admin"}
Resources == Keys \cup Namespaces

AllHandlers ==
  {"key_op", "create_key", "list_keys", "create_namespace", "create_grant",
   "delete_grant", "create_principal", "delete_principal", "create_token",
   "revoke_token", "set_principal_disabled"}

\* In every table, an id is "unborn" until it is drawn and "deleted" for ever
\* once its row is: a uuid is never drawn again, so the two differ.  A deleted
\* key keeps its namespace here, for those who have read its row.
TokenRow == [state : {"unborn", "active", "revoked"},
             principal : Principals \cup {None},
             scopes : SUBSET Scopes,
             expires : {"never", "later", "past"}]

GrantRow == [state : {"unborn", "live", "deleted"},
             principal : Principals \cup {None},
             resource : Resources \cup {None},
             operations : SUBSET Ops]

KeyRow == [state : {"unborn", "live", "deleted"},
           namespace : Namespaces \cup {None}]

NoToken == [state |-> "unborn", principal |-> None, scopes |-> {}, expires |-> "never"]
NoGrant(s) == [state |-> s, principal |-> None, resource |-> None, operations |-> {}]
NoKey == [state |-> "unborn", namespace |-> None]
KeyIn(n) == [state |-> "live", namespace |-> n]
DeletedKey(row) == [state |-> "deleted", namespace |-> row.namespace]

\* UPDATE api_tokens SET revoked = 1, where there is such a row.
Revoked(row) == [state |-> IF row.state = "unborn" THEN "unborn" ELSE "revoked", principal |-> row.principal,
                 scopes |-> row.scopes, expires |-> row.expires]

Exists(p) == principals[p] \in {"enabled", "disabled"}
LiveKey(k) == keys[k].state = "live"
\* The local variables of a handler: the caller whose grants decide (none for
\* an admin and in legacy mode), what the request names (an operation, a
\* principal, a key or namespace, a name) and what was read: the namespace of
\* a key or of a name, the id of a grant or token, a set of rows.
Local == [caller : Principals \cup {None}, op : Ops \cup {None},
          principal : Principals \cup {None}, resource : Resources \cup {None},
          name : Names \cup {None}, namespace : Namespaces \cup {None},
          id : Grants \cup Tokens \cup {None}, rows : SUBSET (Tokens \cup Keys \cup Grants)]

\* What a request starts with, and what its later steps put there.
Asked(caller, op, principal, resource, name, id) ==
  [caller |-> caller, op |-> op, principal |-> principal, resource |-> resource,
   name |-> name, namespace |-> None, id |-> id, rows |-> {}]

NoLocal == Asked(None, None, None, None, None, None)

Found(l, principal, namespace, id, rows) ==
  [caller |-> l.caller, op |-> l.op, principal |-> principal,
   resource |-> l.resource, name |-> l.name, namespace |-> namespace,
   id |-> id, rows |-> rows]

FoundPrincipal(l, p) == Found(l, p, l.namespace, l.id, l.rows)
FoundNamespace(l, n) == Found(l, l.principal, n, l.id, l.rows)
FoundId(l, i) == Found(l, l.principal, l.namespace, i, l.rows)
FoundRows(l, rows) == Found(l, l.principal, l.namespace, l.id, rows)

Init ==
  /\ principals = [p \in Principals |-> IF p = Root THEN "enabled" ELSE "unborn"]
  /\ tokens = [t \in Tokens |->
       IF t = RootToken
         THEN [state |-> "active", principal |-> Root, scopes |-> {"admin"},
               expires |-> "never"]
         ELSE NoToken]
  /\ grants = [g \in Grants |-> NoGrant("unborn")]
  /\ namespaces = [n \in Namespaces |-> IF n = Default THEN DefaultName ELSE None]
  /\ keys = [k \in Keys |-> NoKey]
  /\ pc = [r \in Requests |-> "idle"]
  /\ req = [r \in Requests |-> NoLocal]
  /\ late = {}
  /\ lateGrants = {}

-----------------------------------------------------------------------------
(* Authentication: one transaction that joins the token with its principal *)
(* (find_active_tokens_by_id_prefix).  A token whose principal is gone has *)
(* no row on the other side of the outer join, and passes.                 *)

Authenticated(t, scope) ==
  /\ tokens[t].state = "active"
  /\ tokens[t].expires # "past"
  /\ principals[tokens[t].principal] # "disabled"
  /\ tokens[t].scopes \cap {scope, "admin"} # {}

\* The caller whose grants decide; an admin, and anyone in legacy mode, is
\* exempt from them.
SubjectToGrants(t) ==
  IF Strict /\ "admin" \notin tokens[t].scopes THEN tokens[t].principal ELSE None

Goto(r, label, local) ==
  /\ pc' = [pc EXCEPT ![r] = label]
  /\ req' = [req EXCEPT ![r] = local]

Begin(r, t, handler, scope, label, local) ==
  /\ pc[r] = "idle"
  /\ handler \in Handlers
  /\ Authenticated(t, scope)
  /\ Goto(r, label, local)
  /\ UNCHANGED tables

\* The routes of section "key lifecycle" and below: the scope that is
\* required and the operation that is authorized are the same.
StartKeyOp(r, t, k, op) ==
  LET caller == SubjectToGrants(t) IN
  /\ keys[k].state # "unborn"
  /\ Begin(r, t, "key_op", op, IF caller = None THEN "act" ELSE "namespace",
           Asked(caller, op, None, k, None, None))

StartCreateKey(r, t, name) ==
  Begin(r, t, "create_key", "manage", "lookup",
        Asked(SubjectToGrants(t), "manage", None, None, name, None))

StartListKeys(r, t) ==
  Begin(r, t, "list_keys", "read", "list",
        Asked(SubjectToGrants(t), "read", None, None, None, None))

\* The others require the admin scope; who calls them goes to the audit log
\* (and to grants.created_by) only.  The ids in a request are ids that were
\* given out.
StartCreateNamespace(r, t, name) ==
  Begin(r, t, "create_namespace", "admin", "name",
        Asked(None, None, None, None, name, None))

StartCreateGrant(r, t, p, x) ==
  /\ principals[p] # "unborn"
  /\ IF x \in Keys THEN keys[x].state # "unborn" ELSE namespaces[x] # None
  /\ Begin(r, t, "create_grant", "admin", "principal",
           Asked(None, None, p, x, None, None))

StartDeleteGrant(r, t, g) ==
  /\ grants[g].state # "unborn"
  /\ Begin(r, t, "delete_grant", "admin", "delete_grant",
           Asked(None, None, None, None, None, g))

StartCreatePrincipal(r, t) ==
  Begin(r, t, "create_principal", "admin", "person", NoLocal)

StartDeletePrincipal(r, t, p) ==
  /\ principals[p] # "unborn"
  /\ Begin(r, t, "delete_principal", "admin", "tokens",
           Asked(None, None, p, None, None, None))

\* p is None when the request leaves principal_id out.
StartCreateToken(r, t, p) ==
  /\ p # None => principals[p] # "unborn"
  /\ Begin(r, t, "create_token", "admin", "owner",
           Asked(None, None, p, None, None, None))

StartRevokeToken(r, t, u) ==
  /\ tokens[u].state # "unborn"
  /\ Begin(r, t, "revoke_token", "admin", "revoke",
           Asked(None, None, None, None, None, u))

-----------------------------------------------------------------------------
Finish(r) == Goto(r, "idle", NoLocal)

\* A refusal, an exception or the end of the replica between two
\* transactions, and every key operation that leaves the key where it is.
EndRequest(r) ==
  /\ pc[r] # "idle"
  /\ Finish(r)
  /\ UNCHANGED tables

-----------------------------------------------------------------------------
(* Authorization (Authorizer).                                             *)

\* Mutant: the key is authorized by a grant on any namespace.
AllowsAnyNamespace(p, op, k, n) ==
  \E g \in Grants :
    /\ grants[g].state = "live"
    /\ grants[g].principal = p
    /\ op \in grants[g].operations
    /\ grants[g].resource = k \/ grants[g].resource \in Namespaces

\* _allows: a grant of p holds op on the key, or on the namespace.
Allows(p, op, k, n) ==
  \E g \in Grants :
    /\ grants[g].state = "live"
    /\ grants[g].principal = p
    /\ op \in grants[g].operations
    /\ \/ k # None /\ grants[g].resource = k
       \/ n # None /\ grants[g].resource = n

\* get_key_namespace, the first read of authorize_key_op.
ReadNamespace(r) ==
  LET k == req[r].resource IN
  /\ pc[r] = "namespace"
  /\ Goto(r, "grants",
          FoundNamespace(req[r], IF LiveKey(k) THEN keys[k].namespace ELSE None))
  /\ UNCHANGED tables

\* get_grants_for_principal and the decision; a denial is an EndRequest.
AuthorizeKeyOp(r) ==
  /\ pc[r] = "grants"
  /\ Allows(req[r].caller, req[r].op, req[r].resource, req[r].namespace)
  /\ Goto(r, "act", req[r])
  /\ UNCHANGED tables

\* authorize_namespace_op, for a key that is to be created.
AuthorizeNamespaceOp(r) ==
  /\ pc[r] = "owner_grants"
  /\ Allows(req[r].caller, req[r].op, None, req[r].namespace)
  /\ Goto(r, "create", req[r])
  /\ UNCHANGED tables

\* list_keys reads a page of keys ...
ReadKeys(r) ==
  /\ pc[r] = "list"
  /\ \E page \in SUBSET {k \in Keys : LiveKey(k)} :
       Goto(r, IF req[r].caller = None THEN "answer" ELSE "filter",
            FoundRows(req[r], page))
  /\ UNCHANGED tables

\* ... and filter_visible_keys keeps those a grant of the caller lets it read.
FilterVisible(r) ==
  /\ pc[r] = "filter"
  /\ Goto(r, "answer",
          FoundRows(req[r], {k \in req[r].rows :
            Allows(req[r].caller, "read", k, keys[k].namespace)}))
  /\ UNCHANGED tables

-----------------------------------------------------------------------------
(* Keys and namespaces.                                                    *)

\* _namespace_id_for: an unknown name is an EndRequest.
LookupNamespace(r) ==
  /\ pc[r] = "lookup"
  /\ \E n \in Namespaces :
       /\ namespaces[n] = req[r].name
       /\ Goto(r, IF req[r].caller = None THEN "create" ELSE "owner_grants",
               FoundNamespace(req[r], n))
  /\ UNCHANGED tables

CreateKey(r) ==
  /\ pc[r] = "create"
  /\ \E k \in Keys :
       /\ keys[k].state = "unborn"
       /\ keys' = [keys EXCEPT ![k] = KeyIn(req[r].namespace)]
  /\ Finish(r)
  /\ UNCHANGED <<principals, tokens, grants, namespaces, late, lateGrants>>

\* Of the operations under "manage", the one that removes the key.  Its DELETE
\* of the grants works on the rows committed when it starts ...
FindGrantsOn(r) ==
  LET k == req[r].resource IN
  /\ pc[r] = "act"
  /\ req[r].op = "manage"
  /\ LiveKey(k)
  /\ Goto(r, "destroy",
          FoundRows(req[r], {g \in Grants : grants[g].state = "live" /\ grants[g].resource = k}))
  /\ UNCHANGED tables

\* Mutant: the grants on the key are kept.
DestroyKeyOnly(r) ==
  LET k == req[r].resource IN
  /\ pc[r] = "destroy"
  /\ keys' = [keys EXCEPT ![k] = DeletedKey(keys[k])]
  /\ Finish(r)
  /\ UNCHANGED <<principals, tokens, grants, namespaces, late, lateGrants>>

\* ... and the transaction commits with the DELETE of the key.
DestroyKey(r) ==
  LET k == req[r].resource IN
  /\ pc[r] = "destroy"
  /\ keys' = [keys EXCEPT ![k] = DeletedKey(keys[k])]
  /\ grants' = [g \in Grants |->
       IF g \in req[r].rows THEN NoGrant("deleted") ELSE grants[g]]
  /\ Finish(r)
  /\ UNCHANGED <<principals, tokens, namespaces, late, lateGrants>>

\* create_namespace looks for the name, then inserts.
CheckName(r) ==
  /\ pc[r] = "name"
  /\ \A n \in Namespaces : namespaces[n] # req[r].name
  /\ Goto(r, "insert_namespace", req[r])
  /\ UNCHANGED tables

\* UNIQUE(name): the loser of a race raises.
InsertNamespace(r) ==
  /\ pc[r] = "insert_namespace"
  /\ \A n \in Namespaces : namespaces[n] # req[r].name
  /\ \E n \in Namespaces :
       /\ namespaces[n] = None
       /\ namespaces' = [namespaces EXCEPT ![n] = req[r].name]
  /\ Finish(r)
  /\ UNCHANGED <<principals, tokens, grants, keys, late, lateGrants>>

-----------------------------------------------------------------------------
(* Grants.                                                                 *)

\* create_grant asks whether the principal exists, then the resource.
CheckPrincipal(r) ==
  /\ pc[r] = "principal"
  /\ Exists(req[r].principal)
  /\ Goto(r, "resource", req[r])
  /\ UNCHANGED tables

\* Mutant: any resource will do.
ResourceAssumed(x) == TRUE

ResourceExists(x) ==
  IF x \in Namespaces THEN namespaces[x] # None ELSE LiveKey(x)

CheckResource(r) ==
  /\ pc[r] = "resource"
  /\ ResourceExists(req[r].resource)
  /\ Goto(r, "find", req[r])
  /\ UNCHANGED tables

GrantOf(g, p, x) ==
  grants[g].state = "live" /\ grants[g].principal = p /\ grants[g].resource = x

\* upsert_grant selects the grant to replace.  Its transaction locks nothing
\* on that: PostgreSQL reads what is committed, SQLite has not begun yet.
FindGrant(r) ==
  /\ pc[r] = "find"
  /\ \/ \E g \in Grants :
          /\ GrantOf(g, req[r].principal, req[r].resource)
          /\ Goto(r, "write", FoundId(req[r], g))
     \/ /\ \A g \in Grants : ~GrantOf(g, req[r].principal, req[r].resource)
        /\ Goto(r, "write", req[r])
  /\ UNCHANGED tables

WriteGrant(r, g, ops) ==
  grants' = [grants EXCEPT ![g] =
    [state |-> "live", principal |-> req[r].principal,
     resource |-> req[r].resource, operations |-> ops]]

\* Mutants: INSERT OR REPLACE instead of UPDATE, and a table without
\* uq_grants_principal_resource.
ReplaceGrantByInsert(r) ==
  /\ pc[r] = "write"
  /\ req[r].id # None
  /\ \E ops \in OpSets : WriteGrant(r, req[r].id, ops)
  /\ Finish(r)
  /\ UNCHANGED <<principals, tokens, namespaces, keys, late, lateGrants>>

InsertGrantAnyway(r) ==
  /\ pc[r] = "write"
  /\ req[r].id = None
  /\ \E g \in Grants, ops \in OpSets :
       grants[g].state = "unborn" /\ WriteGrant(r, g, ops)
  /\ Finish(r)
  /\ UNCHANGED <<principals, tokens, namespaces, keys, late, lateGrants>>

\* UPDATE ... WHERE id: without effect when the grant is gone by now.
ReplaceGrant(r) ==
  LET g == req[r].id IN
  /\ pc[r] = "write"
  /\ g # None
  /\ IF grants[g].state = "live"
       THEN \E ops \in OpSets : WriteGrant(r, g, ops)
       ELSE grants' = grants
  /\ Finish(r)
  /\ UNCHANGED <<principals, tokens, namespaces, keys, late, lateGrants>>

\* Somebody is destroying x, or has.
Destroying(x) ==
  /\ x \in Keys
  /\ \/ keys[x].state = "deleted"
     \/ \E r \in Requests : pc[r] = "destroy" /\ req[r].resource = x

\* UNIQUE(principal_id, resource_type, resource_id): the loser raises.
InsertGrant(r) ==
  /\ pc[r] = "write"
  /\ req[r].id = None
  /\ \A g \in Grants : ~GrantOf(g, req[r].principal, req[r].resource)
  /\ \E g \in Grants, ops \in OpSets :
       /\ grants[g].state = "unborn"
       /\ WriteGrant(r, g, ops)
       /\ lateGrants' = IF Destroying(req[r].resource)
                           THEN lateGrants \cup {g} ELSE lateGrants
  /\ Finish(r)
  /\ UNCHANGED <<principals, tokens, namespaces, keys, late>>

DeleteGrant(r) ==
  /\ pc[r] = "delete_grant"
  /\ grants[req[r].id].state = "live"
  /\ grants' = [grants EXCEPT ![req[r].id] = NoGrant("deleted")]
  /\ Finish(r)
  /\ UNCHANGED <<principals, tokens, namespaces, keys, late, lateGrants>>

-----------------------------------------------------------------------------
(* Principals and tokens.                                                  *)

NewPrincipal(p) ==
  /\ principals[p] = "unborn"
  /\ principals' = [principals EXCEPT ![p] = "enabled"]

CreatePrincipal(r) ==
  /\ pc[r] = "person"
  /\ \E p \in Principals : NewPrincipal(p)
  /\ Finish(r)
  /\ UNCHANGED <<tokens, grants, namespaces, keys, late, lateGrants>>

\* set_principal_disabled, which no route calls.
SetPrincipalDisabled(p, value) ==
  /\ "set_principal_disabled" \in Handlers
  /\ Exists(p)
  /\ principals' = [principals EXCEPT ![p] = value]
  /\ UNCHANGED <<tokens, grants, namespaces, keys, pc, req, late, lateGrants>>

TokensOf(p) == {t \in Tokens : tokens[t].state = "active" /\ tokens[t].principal = p}

\* delete_principal: the UPDATE of the tokens works on the rows committed when
\* it starts, and others may still insert rows until the transaction commits.
FindTokens(r) ==
  /\ pc[r] = "tokens"
  /\ Exists(req[r].principal)
  /\ Goto(r, "delete", FoundRows(req[r], TokensOf(req[r].principal)))
  /\ UNCHANGED tables

\* Mutant: the principal is deleted and its tokens are left alone.
DeletePrincipalOnly(r) ==
  /\ pc[r] = "delete"
  /\ principals' = [principals EXCEPT ![req[r].principal] = "deleted"]
  /\ Finish(r)
  /\ UNCHANGED <<tokens, grants, namespaces, keys, late, lateGrants>>

DeletePrincipal(r) ==
  /\ pc[r] = "delete"
  /\ tokens' = [t \in Tokens |->
       IF t \in req[r].rows THEN Revoked(tokens[t]) ELSE tokens[t]]
  /\ principals' = [principals EXCEPT ![req[r].principal] = "deleted"]
  /\ Finish(r)
  /\ UNCHANGED <<grants, namespaces, keys, late, lateGrants>>

\* Mutant: create_token without its question to get_principal.
CheckOwnerNot(r) ==
  /\ pc[r] = "owner"
  /\ req[r].principal # None
  /\ Goto(r, "mint", req[r])
  /\ UNCHANGED tables

\* create_token for an existing principal asks for it ...
CheckOwner(r) ==
  /\ pc[r] = "owner"
  /\ req[r].principal # None
  /\ Exists(req[r].principal)
  /\ Goto(r, "mint", req[r])
  /\ UNCHANGED tables

\* ... and otherwise creates one in a transaction of its own.
CreateOwner(r) ==
  /\ pc[r] = "owner"
  /\ req[r].principal = None
  /\ \E p \in Principals :
       NewPrincipal(p) /\ Goto(r, "mint", FoundPrincipal(req[r], p))
  /\ UNCHANGED <<tokens, grants, namespaces, keys, late, lateGrants>>

\* Somebody is deleting p, or has.
Deleting(p) ==
  \/ principals[p] = "deleted"
  \/ \E r \in Requests : pc[r] = "delete" /\ req[r].principal = p

ExpiresAt(ttl) == IF ttl THEN "later" ELSE "never"

InsertToken(r) ==
  LET p == req[r].principal IN
  /\ pc[r] = "mint"
  /\ \E t \in Tokens, scopes \in ScopeSets, ttl \in Ttls :
       /\ tokens[t].state = "unborn"
       /\ tokens' = [tokens EXCEPT ![t] =
            [state |-> "active", principal |-> p, scopes |-> scopes,
             expires |-> ExpiresAt(ttl)]]
       /\ late' = IF Deleting(p) THEN late \cup {t} ELSE late
  /\ Finish(r)
  /\ UNCHANGED <<principals, grants, namespaces, keys, lateGrants>>

RevokeToken(r) ==
  /\ pc[r] = "revoke"
  /\ tokens' = [tokens EXCEPT ![req[r].id] = Revoked(@)]
  /\ Finish(r)
  /\ UNCHANGED <<principals, grants, namespaces, keys, late, lateGrants>>

\* Time passes expires_at.
Expire(t) ==
  /\ tokens[t].expires = "later"
  /\ tokens' = [tokens EXCEPT ![t] =
       [state |-> tokens[t].state, principal |-> tokens[t].principal,
        scopes |-> tokens[t].scopes, expires |-> "past"]]
  /\ UNCHANGED <<principals, grants, namespaces, keys, pc, req, late, lateGrants>>

-----------------------------------------------------------------------------
Start(r, t) ==
  \/ \E k \in Keys, op \in Ops : StartKeyOp(r, t, k, op)
  \/ \E name \in Names : StartCreateKey(r, t, name)
  \/ StartListKeys(r, t)
  \/ \E name \in Names : StartCreateNamespace(r, t, name)
  \/ \E p \in Principals, x \in Resources : StartCreateGrant(r, t, p, x)
  \/ \E g \in Grants : StartDeleteGrant(r, t, g)
  \/ StartCreatePrincipal(r, t)
  \/ \E p \in Principals : StartDeletePrincipal(r, t, p)
  \/ \E p \in Principals \cup {None} : StartCreateToken(r, t, p)
  \/ \E u \in Tokens : StartRevokeToken(r, t, u)

Step(r) ==
  \/ ReadNamespace(r) \/ AuthorizeKeyOp(r) \/ AuthorizeNamespaceOp(r)
  \/ ReadKeys(r) \/ FilterVisible(r)
  \/ LookupNamespace(r) \/ CreateKey(r) \/ FindGrantsOn(r) \/ DestroyKey(r)
  \/ CheckName(r) \/ InsertNamespace(r)
  \/ CheckPrincipal(r) \/ CheckResource(r) \/ FindGrant(r)
  \/ ReplaceGrant(r) \/ InsertGrant(r) \/ DeleteGrant(r)
  \/ CreatePrincipal(r) \/ FindTokens(r) \/ DeletePrincipal(r)
  \/ CheckOwner(r) \/ CreateOwner(r) \/ InsertToken(r) \/ RevokeToken(r)
  \/ EndRequest(r)

Next ==
  \/ \E r \in Requests, t \in Tokens : Start(r, t)
  \/ \E r \in Requests : Step(r)
  \/ \E p \in Principals, value \in {"enabled", "disabled"} : SetPrincipalDisabled(p, value)
  \/ \E t \in Tokens : Expire(t)

Spec == Init /\ [][Next]_vars

-----------------------------------------------------------------------------
(* Properties.                                                             *)

Labels == {"idle", "namespace", "grants", "act", "lookup", "owner_grants",
           "create", "list", "filter", "answer", "name", "insert_namespace",
           "principal", "resource", "find", "write", "delete_grant", "person",
           "tokens", "delete", "destroy", "owner", "mint", "revoke"}

\* The type of each variable.
TypeOK ==
  /\ principals \in [Principals -> {"unborn", "enabled", "disabled", "deleted"}]
  /\ tokens \in [Tokens -> TokenRow]
  /\ grants \in [Grants -> GrantRow]
  /\ namespaces \in [Namespaces -> Names \cup {None}]
  /\ keys \in [Keys -> KeyRow]
  /\ pc \in [Requests -> Labels]
  /\ req \in [Requests -> Local]
  /\ late \subseteq Tokens
  /\ lateGrants \subseteq Grants

Covered(p, op, k) ==
  \E g \in Grants :
    /\ grants[g].state = "live"
    /\ grants[g].principal = p
    /\ op \in grants[g].operations
    /\ grants[g].resource \in {k, keys[k].namespace}

\* authorize_key_op and filter_visible_keys decide in several transactions, yet
\* what they allow was covered at one moment: when they read the grants, a
\* grant of the caller held the operation on the key or on the namespace the
\* key is in.
DecisionsAreCovered ==
  [][\A r \in Requests :
       /\ pc[r] = "grants" /\ pc[r]' = "act" =>
            Covered(req[r].caller, req[r].op, req[r].resource)
       /\ pc[r] = "filter" /\ pc[r]' = "answer" =>
            \A k \in req[r].rows' : Covered(req[r].caller, "read", k)]_vars

\* A principal has at most one grant per resource, so what _principal_ops
\* collects in a dict by resource is all there is, whoever raced to create it.
OneGrantPerResource ==
  \A g, h \in Grants :
    /\ grants[g].state = "live" /\ grants[h].state = "live"
    /\ grants[g].principal = grants[h].principal
    /\ grants[g].resource = grants[h].resource
    => g = h

\* A grant that an administrator removed stays removed: no create_grant that
\* had found it before brings it back.
RemovedGrantsStayRemoved ==
  [][\A g \in Grants : grants[g].state = "deleted" => grants[g].state' = "deleted"]_vars

\* A grant on a destroyed key was inserted beside the destruction: destroy_key
\* removes every grant that was there before.
OnlyLateGrantsDangle ==
  \A g \in Grants : grants[g].state = "live" =>
    \A k \in Keys : grants[g].resource = k /\ keys[k].state = "deleted" => g \in lateGrants

\* k is destroyed, no grant names it and no create_grant for it is in flight.
Ungranted(k) ==
  /\ keys[k].state = "deleted"
  /\ \A g \in Grants : grants[g].state = "live" => grants[g].resource # k
  /\ \A r \in Requests : pc[r] \in {"find", "write"} => req[r].resource # k

\* From then on nobody can be granted anything on k.
DestructionIsFinal == [][\A k \in Keys : Ungranted(k) => Ungranted(k)']_vars

Usable(t) == tokens[t].state = "active" /\ tokens[t].expires # "past"

\* A usable token of a deleted principal was inserted beside the deletion: the
\* deletion revokes every token that was there before.
OnlyLateTokensSurvive ==
  \A t \in Tokens :
    Usable(t) /\ principals[tokens[t].principal] = "deleted" => t \in late

\* p is deleted, its tokens are revoked and no create_token for it is in flight.
Gone(p) ==
  /\ principals[p] = "deleted"
  /\ \A t \in Tokens : tokens[t].principal = p => ~Usable(t)
  /\ \A r \in Requests : ~(pc[r] = "mint" /\ req[r].principal = p)

\* From then on nobody can act as p again.
DeletionIsFinal == [][\A p \in Principals : Gone(p) => Gone(p)']_vars
=============================================================================
