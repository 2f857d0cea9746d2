-------------------------------- MODULE Login --------------------------------
(***************************************************************************)
(* Single sign-on: the login, callback and logout handlers of              *)
(* app/api/routes.py, the signed cookies of app/api/sessions.py and the    *)
(* OpenID Connect client of app/api/oidc.py, run by several replicas for   *)
(* several browsers.                                                       *)
(*                                                                         *)
(* The server keeps no session: a browser holds a signed cookie for the    *)
(* ten minutes of a login and, after it, one that names the principal and  *)
(* the scopes for eight hours.  What is kept is the principal of each      *)
(* subject, a row of kms_meta that the callback reads in one transaction   *)
(* and writes in a later one, with the principals' table read and written  *)
(* in between.  The identity provider is external.                         *)
(***************************************************************************)
EXTENDS Integers, FiniteSets

CONSTANTS
  Browsers,
  Subjects,     \* the provider's users
  UserOf,       \* the user who sits at each browser
  Replicas,
  Principals,   \* the uuids create_principal may draw, none twice
  Logins,       \* what auth_login may draw: state, nonce and PKCE verifier
  TxTtl,        \* lifetime of a login cookie: ten minutes
  MaxTime,      \* bound of the model: the last instant
  MaxRestarts,  \* bound of the model: restarts of replicas, all together
  None          \* no cookie, no row, an unset local variable

ASSUME ReplicasAssumption == IsFiniteSet(Replicas)
ASSUME UserOfAssumption == UserOf \in [Browsers -> Subjects]
ASSUME TtlAssumption == TxTtl \in Nat /\ MaxTime \in Nat
ASSUME RestartsAssumption == MaxRestarts \in Nat
ASSUME NoneAssumption ==
  None \notin Subjects \cup Principals \cup Logins \cup Replicas

VARIABLES
  now,         \* the clock
  shared,      \* whether PQKMS_SESSION_SECRET is set, on every replica
  secret,      \* the number of each replica's signing secret
  drawn,       \* the number of secrets drawn so far
  codes,       \* the provider's authorization code for each login
  principals,  \* the human principals: the subject each was created for
  deleted,     \* those deleted since
  mapping,     \* kms_meta "oidc_sub:<sub>": the principal of each subject
  tx,          \* the login cookie of each browser
  session,     \* the session cookie of each browser
  pc,          \* where each browser's callback is
  call         \* its local variables

vars == <<now, shared, secret, drawn, codes, principals, deleted, mapping, tx,
          session, pc, call>>

\* A login is asked for by a user, who authenticates, for one exchange.
Code == [user : Subjects \cup {None}, state : {"none", "asked", "issued", "used"}]

CodeOf(user, state) == [user |-> user, state |-> state]

\* The login cookie, with the secret it is signed with.
Tx == [login : Logins, expires : Nat, secret : Nat]

\* A session is signed and expires too, but no step of a login depends on it:
\* resolve_caller takes what it says, and reads no table.  It also carries, as
\* history, the principals that were deleted when its login was verified.
Session == [pid : Principals, sub : Subjects, gone : SUBSET Principals]

\* read is the mapping the callback read.
Call == [replica : Replicas \cup {None}, sub : Subjects \cup {None},
         read : Principals \cup {None}, pid : Principals \cup {None},
         gone : SUBSET Principals]

CallOf(a, sub, read, pid, gone) ==
  [replica |-> a, sub |-> sub, read |-> read, pid |-> pid, gone |-> gone]

NoCall == CallOf(None, None, None, None, {})

Live(p) == principals[p] # None /\ p \notin deleted

\* With a configured secret all replicas sign alike, now and after restarts;
\* without one every process draws its own.
Init ==
  /\ now = 0
  /\ shared \in BOOLEAN
  /\ IF shared
       THEN secret = [a \in Replicas |-> 0] /\ drawn = 0
       ELSE /\ secret \in [Replicas -> 1..Cardinality(Replicas)]
            /\ \A a, b \in Replicas : secret[a] = secret[b] => a = b
            /\ drawn = Cardinality(Replicas)
  /\ codes = [l \in Logins |-> CodeOf(None, "none")]
  /\ principals = [p \in Principals |-> None]
  /\ deleted = {}
  /\ mapping = [s \in Subjects |-> None]
  /\ tx = [b \in Browsers |-> None]
  /\ session = [b \in Browsers |-> None]
  /\ pc = [b \in Browsers |-> "idle"]
  /\ call = [b \in Browsers |-> NoCall]

Tick ==
  /\ now < MaxTime
  /\ now' = now + 1
  /\ UNCHANGED <<shared, secret, drawn, codes, principals, deleted, mapping, tx,
                 session, pc, call>>

-----------------------------------------------------------------------------
(* Cookies.                                                                *)

\* The signature is by this replica's secret and the value has not expired.
Valid(a, cookie) ==
  cookie # None /\ cookie.secret = secret[a] /\ now < cookie.expires

-----------------------------------------------------------------------------
(* GET /auth/login, and the provider.                                      *)

\* The new cookie replaces that of a login the browser had begun.
AuthLogin(a, b, l) ==
  /\ codes[l].state = "none"
  /\ codes' = [codes EXCEPT ![l] = CodeOf(UserOf[b], "asked")]
  /\ tx' = [tx EXCEPT ![b] = [login |-> l, expires |-> now + TxTtl,
                              secret |-> secret[a]]]
  /\ UNCHANGED <<now, shared, secret, drawn, principals, deleted, mapping,
                 session, pc, call>>

\* External: the user at the browser that was redirected authenticates, by now
\* or when the browser has begun another login.
Authenticate(l) ==
  /\ codes[l].state = "asked"
  /\ codes' = [codes EXCEPT ![l] = CodeOf(@.user, "issued")]
  /\ UNCHANGED <<now, shared, secret, drawn, principals, deleted, mapping, tx,
                 session, pc, call>>

-----------------------------------------------------------------------------
(* GET /auth/callback: any browser may open a callback URL.                *)

Step(b, label, c) ==
  /\ pc' = [pc EXCEPT ![b] = label]
  /\ call' = [call EXCEPT ![b] = c]
  /\ UNCHANGED <<now, shared, secret, drawn>>

\* Mutant: the callback is not tied to the login of the cookie.
SameLoginUnchecked(b, l) == TRUE

\* state is compared with the cookie's; so is the nonce, in the id token; and
\* the provider compares the verifier with the challenge it was sent.  All
\* three are drawn by one auth_login.
SameLogin(b, l) == tx[b].login = l

\* verify_tx, exchange_code (which uses the code up) and verify_id_token.
Callback(a, b, l) ==
  /\ pc[b] = "idle"
  /\ Valid(a, tx[b])
  /\ codes[l].state = "issued"
  /\ SameLogin(b, l)
  /\ codes' = [codes EXCEPT ![l] = CodeOf(@.user, "used")]
  /\ Step(b, "verified", CallOf(a, codes[l].user, None, None, deleted))
  /\ UNCHANGED <<principals, deleted, mapping, tx, session>>

GetMapping(b) ==
  LET c == call[b] IN
  /\ pc[b] = "verified"
  /\ Step(b, "mapped", CallOf(c.replica, c.sub, mapping[c.sub], None, c.gone))
  /\ UNCHANGED <<codes, principals, deleted, mapping, tx, session>>

Resolve(b, known) ==
  LET c == call[b] IN
  /\ pc[b] = "mapped"
  /\ IF known THEN Step(b, "ready", CallOf(c.replica, c.sub, c.read, c.read, c.gone))
     ELSE Step(b, "unknown", c)
  /\ UNCHANGED <<codes, principals, deleted, mapping, tx, session>>

\* Mutants: the mapped principal is not looked up, or never used again.
GetPrincipalUnchecked(b) == Resolve(b, call[b].read # None)
GetPrincipalAlwaysNew(b) == Resolve(b, FALSE)

GetPrincipal(b) == Resolve(b, call[b].read # None /\ Live(call[b].read))

CreatePrincipal(b, p) ==
  LET c == call[b] IN
  /\ pc[b] = "unknown"
  /\ principals[p] = None
  /\ principals' = [principals EXCEPT ![p] = c.sub]
  /\ Step(b, "created", CallOf(c.replica, c.sub, c.read, p, c.gone))
  /\ UNCHANGED <<codes, deleted, mapping, tx, session>>

\* set_meta updates the row, whatever it holds by now, ...
UpdateMapping(b) ==
  LET c == call[b] IN
  /\ pc[b] = "created"
  /\ IF mapping[c.sub] # None
       THEN mapping' = [mapping EXCEPT ![c.sub] = c.pid] /\ Step(b, "ready", c)
       ELSE UNCHANGED mapping /\ Step(b, "absent", c)
  /\ UNCHANGED <<codes, principals, deleted, tx, session>>

\* ... and inserts one when there was none; the primary key refuses a second.
InsertMapping(b) ==
  LET c == call[b] IN
  /\ pc[b] = "absent"
  /\ IF mapping[c.sub] = None
       THEN mapping' = [mapping EXCEPT ![c.sub] = c.pid] /\ Step(b, "ready", c)
       ELSE UNCHANGED mapping /\ Step(b, "idle", NoCall)
  /\ UNCHANGED <<codes, principals, deleted, tx, session>>

\* The session is issued, the login is logged and the answer sets one cookie
\* and deletes the other.
Answer(b) ==
  LET c == call[b] IN
  /\ pc[b] = "ready"
  /\ session' = [session EXCEPT ![b] =
       [pid |-> c.pid, sub |-> c.sub, gone |-> c.gone]]
  /\ tx' = [tx EXCEPT ![b] = None]
  /\ Step(b, "idle", NoCall)
  /\ UNCHANGED <<codes, principals, deleted, mapping>>

\* An exception between two of its transactions, or in the audit append.
CallbackFails(b) ==
  /\ pc[b] # "idle"
  /\ Step(b, "idle", NoCall)
  /\ UNCHANGED <<codes, principals, deleted, mapping, tx, session>>

-----------------------------------------------------------------------------
Logout(b) ==
  /\ session[b] # None
  /\ session' = [session EXCEPT ![b] = None]
  /\ UNCHANGED <<now, shared, secret, drawn, codes, principals, deleted, mapping,
                 tx, pc, call>>

\* An administrator deletes a principal; its mapping stays.
DeletePrincipal(p) ==
  /\ Live(p)
  /\ deleted' = deleted \cup {p}
  /\ UNCHANGED <<now, shared, secret, drawn, codes, principals, mapping, tx,
                 session, pc, call>>

Restart(a) ==
  /\ ~shared
  /\ drawn < Cardinality(Replicas) + MaxRestarts
  /\ drawn' = drawn + 1
  /\ secret' = [secret EXCEPT ![a] = drawn + 1]
  /\ pc' = [b \in Browsers |-> IF call[b].replica = a THEN "idle" ELSE pc[b]]
  /\ call' = [b \in Browsers |-> IF call[b].replica = a THEN NoCall ELSE call[b]]
  /\ UNCHANGED <<now, shared, codes, principals, deleted, mapping, tx, session>>

Next ==
  \/ Tick
  \/ \E a \in Replicas :
       \/ Restart(a)
       \/ \E b \in Browsers, l \in Logins : AuthLogin(a, b, l) \/ Callback(a, b, l)
  \/ \E l \in Logins : Authenticate(l)
  \/ \E b \in Browsers :
       \/ GetMapping(b) \/ GetPrincipal(b)
       \/ \E p \in Principals : CreatePrincipal(b, p)
       \/ UpdateMapping(b) \/ InsertMapping(b)
       \/ Answer(b) \/ CallbackFails(b) \/ Logout(b)
  \/ \E p \in Principals : DeletePrincipal(p)

Spec == Init /\ [][Next]_vars

-----------------------------------------------------------------------------
(* Properties.                                                             *)

\* Every variable keeps its type.
TypeOK ==
  /\ now \in Nat
  /\ shared \in BOOLEAN
  /\ secret \in [Replicas -> Nat]
  /\ drawn \in Nat
  /\ codes \in [Logins -> Code]
  /\ principals \in [Principals -> Subjects \cup {None}]
  /\ deleted \subseteq Principals
  /\ mapping \in [Subjects -> Principals \cup {None}]
  /\ tx \in [Browsers -> Tx \cup {None}]
  /\ session \in [Browsers -> Session \cup {None}]
  /\ pc \in [Browsers -> {"idle", "verified", "mapped", "unknown", "created",
                          "absent", "ready"}]
  /\ call \in [Browsers -> Call]

\* Whichever callback URLs a browser opens, in whatever order and however the
\* logins of its user race, its session is of the user who sits at it, and
\* names a principal that was created for that user.
SessionsAreTheUsersOwn ==
  \A b \in Browsers : session[b] # None =>
    /\ session[b].sub = UserOf[b]
    /\ principals[session[b].pid] = UserOf[b]

\* A session carries its principal by value and no later step looks it up: it
\* may outlive the principal, but only when the deletion came after the login
\* was verified.  A login begun later never revives a deleted principal.
NoSessionOfTheLongGone ==
  \A b \in Browsers : session[b] # None => session[b].pid \notin session[b].gone

\* "Map the IdP subject to a stable human principal" (routes.py:598): a login
\* replaces the principal of its subject only when that principal is deleted,
\* or when another login of the subject set it after this one had read it.
StableIdentity ==
  [][\A s \in Subjects :
       mapping[s] # None /\ mapping'[s] # mapping[s] =>
         \/ mapping[s] \in deleted
         \/ \E b \in Browsers : /\ pc[b] = "created" /\ call[b].sub = s
                                /\ call[b].pid = mapping'[s]
                                /\ call[b].read # mapping[s]]_vars
=============================================================================
