--------------------------- MODULE OperationsProofs ---------------------------
(***************************************************************************)
(* What holds of any number of keys, requests, runs of the rotation job    *)
(* and faults, under any workload.                                         *)
(***************************************************************************)
EXTENDS Operations, SequenceTheorems, TLAPS

Actors == Requests \cup Crons

Rotates(j, k, version) ==
  changes[j].op = "rotate" /\ changes[j].key = k /\ changes[j].version = version

\* The history and the rows: a destroyed key was destroyed by a change, one
\* without effect came after that, and the version of a row that was rotated
\* is of its last rotation.
ChangesRight ==
  /\ \A k \in Keys : keys[k].state = "destroyed" =>
       \E i \in 1..Len(changes) : Destroys(i, k)
  /\ \A i \in 1..Len(changes) :
       /\ changes[i].by \in Crons => changes[i].op = "rotate"
       /\ ~changes[i].done => \E j \in 1..(i - 1) : Destroys(j, changes[i].key)
       /\ changes[i].op = "rotate" =>
            /\ keys[changes[i].key].state # "unborn"
            /\ \E j \in i..Len(changes) :
                 Rotates(j, changes[i].key, keys[changes[i].key].version)

\* A change that its actor has yet to log.
Owes(actor, i, k) ==
  /\ i \in 1..Len(changes)
  /\ changes[i].by = actor
  /\ changes[i].key = k
  /\ ~Logged(i)

\* A request owes the entry of its change; when it read no key back, the key
\* was destroyed, and the version it did read is of its rotation or a later one.
RightRequest(r) ==
  LET l == req[r] IN
  pc[r] # "idle" =>
    /\ l.op \in AllOps
    /\ l.key \in Keys
    /\ l.op # "create" => keys[l.key].state # "unborn"
    /\ pc[r] = "fetched" => l.change = 0
    /\ pc[r] \in {"committed", "answering"} =>
         Owes(r, l.change, l.key) /\ changes[l.change].op = l.op
    /\ pc[r] = "answering" /\ TakesDetail(l.op) /\ l.seen = None =>
         \E j \in 1..Len(changes) : Destroys(j, l.key)
    /\ pc[r] = "answering" /\ l.op = "rotate" /\ l.seen # None =>
         \E j \in l.change..Len(changes) : Rotates(j, l.key, l.seen)

\* Another actor changed a key since a run listed it.
Touched(c, k, since) ==
  \E j \in (since + 1)..Len(changes) : changes[j].key = k /\ changes[j].by # c

\* A key that a run has yet to rotate.
Pending(c, k) ==
  keys[k].state # "unborn" /\ (Due(k) \/ Touched(c, k, run[c].since))

RightRun(c) ==
  LET l == run[c] IN
  /\ l.since <= Len(changes)
  /\ l.at = "idle" => l.made = {}
  /\ \A i \in l.made :
       /\ Owes(c, i, changes[i].key)
       /\ changes[i].key \notin l.due
       /\ l.at = "fetched" => changes[i].key # l.key
  /\ \A k \in l.due : Pending(c, k)
  /\ l.at = "fetched" =>
       /\ l.key \in Keys \ l.due
       /\ Pending(c, l.key)
       /\ keys[l.key].version # l.ver =>
            \E j \in 1..Len(changes) :
              changes[j].op = "rotate" /\ changes[j].key = l.key /\ changes[j].by # c

\* What the snapshot holds is a prefix, in which no entry precedes its change.
SnapshotRight ==
  backup.snapshot # None =>
    /\ backup.snapshot.log <= Len(log)
    /\ \A n \in 1..backup.snapshot.log : log[n].change <= backup.snapshot.changes

IInv ==
  /\ TypeOK
  /\ ChangesRight
  /\ \A r \in Requests : RightRequest(r)
  /\ \A c \in Crons : RightRun(c)
  /\ SnapshotRight
  /\ EntriesTellTheTruth
  /\ UnloggedIsExplained

-----------------------------------------------------------------------------
(* Rows that are set. *)

LEMMA KeyOfRow ==
  ASSUME NEW state \in LiveStates \cup {"unborn", "destroyed"}, NEW version \in Nat,
         NEW policy \in BOOLEAN, NEW aged \in BOOLEAN
  PROVE  /\ KeyOf(state, version, policy, aged) \in KeyRow
         /\ KeyOf(state, version, policy, aged).state = state
         /\ KeyOf(state, version, policy, aged).version = version
  BY DEF KeyOf, KeyRow

LEMMA LocalOfLocal ==
  ASSUME NEW op \in AllOps \cup {"none"}, NEW k \in Keys \cup {None}, NEW v \in Nat,
         NEW i \in Nat, NEW seen \in Nat \cup {None}
  PROVE  /\ LocalOf(op, k, v, i, seen) \in Local
         /\ LocalOf(op, k, v, i, seen).op = op
         /\ LocalOf(op, k, v, i, seen).key = k
         /\ LocalOf(op, k, v, i, seen).ver = v
         /\ LocalOf(op, k, v, i, seen).change = i
         /\ LocalOf(op, k, v, i, seen).seen = seen
  BY DEF LocalOf, Local

LEMMA RunOfRun ==
  ASSUME NEW at \in {"idle", "rotating", "fetched", "appending"}, NEW due \in SUBSET Keys,
         NEW key \in Keys \cup {None}, NEW ver \in Nat, NEW made \in SUBSET Nat,
         NEW since \in Nat
  PROVE  /\ RunOf(at, due, key, ver, made, since) \in Run
         /\ RunOf(at, due, key, ver, made, since).at = at
         /\ RunOf(at, due, key, ver, made, since).due = due
         /\ RunOf(at, due, key, ver, made, since).key = key
         /\ RunOf(at, due, key, ver, made, since).ver = ver
         /\ RunOf(at, due, key, ver, made, since).made = made
         /\ RunOf(at, due, key, ver, made, since).since = since
  BY DEF RunOf, Run

LEMMA NoLocalLocal == NoLocal \in Local
<1>1. None \in Keys \cup {None} /\ None \in Nat \cup {None} /\ "none" \in AllOps \cup {"none"}
  OBVIOUS
<1>2. QED
  BY <1>1 DEF NoLocal, LocalOf, Local

LEMMA NoRunRun ==
  NoRun \in Run /\ NoRun.at = "idle" /\ NoRun.made = {} /\ NoRun.due = {} /\ NoRun.since = 0
<1>1. None \in Keys \cup {None} /\ {} \in SUBSET Keys /\ {} \in SUBSET Nat
  OBVIOUS
<1>2. QED
  BY <1>1 DEF NoRun, RunOf, Run

LEMMA NewStateIsState ==
  ASSUME NEW op \in AllOps, NEW old \in LiveStates \cup {"unborn", "destroyed"}
  PROVE  /\ NewState(op, old) \in LiveStates \cup {"unborn", "destroyed"}
         /\ old # "unborn" \/ op = "create" => NewState(op, old) # "unborn"
         /\ NewState(op, old) = "destroyed" =>
              op \in {"destroy", "force_destroy"} \/ old = "destroyed"
  BY DEF NewState, LiveStates, AllOps, RereadOps, UseOps

LEMMA UpdatedRow ==
  ASSUME NEW op \in AllOps, NEW row \in KeyRow
  PROVE  /\ Updated(op, row) \in KeyRow
         /\ Updated(op, row).state = NewState(op, row.state)
         /\ Updated(op, row).version =
              IF op \in {"create", "rotate"} THEN row.version + 1 ELSE row.version
<1> DEFINE version == IF op \in {"create", "rotate"} THEN row.version + 1 ELSE row.version
           policy == CASE op = "set_policy" -> TRUE [] op = "clear_policy" -> FALSE
                       [] OTHER -> row.policy
           aged == op # "rotate" /\ row.aged
           state == NewState(op, row.state)
<1>1. /\ row.state \in LiveStates \cup {"unborn", "destroyed"} /\ row.version \in Nat
      /\ row.policy \in BOOLEAN /\ row.aged \in BOOLEAN
  BY DEF KeyRow
<1>2. version \in Nat
  BY <1>1
<1>3. policy \in BOOLEAN
  <2>1. CASE op = "set_policy"
    BY <2>1
  <2>2. CASE op = "clear_policy"
    BY <2>2
  <2>3. CASE op # "set_policy" /\ op # "clear_policy"
    BY <1>1, <2>3
  <2>4. QED
    BY <2>1, <2>2, <2>3
<1>4. aged \in BOOLEAN
  OBVIOUS
<1>5. state \in LiveStates \cup {"unborn", "destroyed"}
  BY <1>1, NewStateIsState
<1>6. Updated(op, row) = KeyOf(state, version, policy, aged)
  BY DEF Updated
<1> HIDE DEF version, policy, aged, state
<1>7. /\ Updated(op, row) \in KeyRow
      /\ Updated(op, row).state = state
      /\ Updated(op, row).version = version
  BY <1>2, <1>3, <1>4, <1>5, <1>6, KeyOfRow
<1>8. QED
  BY <1>7 DEF version, state

-----------------------------------------------------------------------------
(* A transaction. *)

\* It adds one change; the rows of other keys stay, and no key is unborn again.
LEMMA TransactionGrows ==
  ASSUME TypeOK, NEW op \in AllOps, NEW k \in Keys, NEW v \in Nat, NEW by \in Actors,
         Transaction(op, k, v, by), op # "create" => keys[k].state # "unborn"
  PROVE  /\ keys' \in [Keys -> KeyRow]
         /\ changes' \in Seq(Change)
         /\ Len(changes') = Len(changes) + 1
         /\ \A i \in 1..Len(changes) : changes'[i] = changes[i]
         /\ changes'[Len(changes) + 1].op = op
         /\ changes'[Len(changes) + 1].key = k
         /\ changes'[Len(changes) + 1].by = by
         /\ changes'[Len(changes) + 1].version = keys'[k].version
         /\ changes'[Len(changes) + 1].done <=> (op = "create" \/ Live(k))
         /\ \A q \in Keys : q # k => keys'[q] = keys[q]
         /\ op # "create" /\ ~Live(k) => keys'[k] = keys[k]
         /\ keys'[k].state # "unborn"
         /\ keys'[k].state = "destroyed" =>
              keys[k].state = "destroyed" \/ (op \in {"destroy", "force_destroy"} /\ Live(k))
         /\ op \notin {"create", "rotate"} => keys'[k].version = keys[k].version
         /\ op = "create" => keys[k].state = "unborn"
<1> DEFINE done == op = "create" \/ Live(k)
           row == IF done THEN Updated(op, keys[k]) ELSE keys[k]
           change == [op |-> op, key |-> k, version |-> row.version, by |-> by, done |-> done]
<1>1. keys[k] \in KeyRow /\ keys[k].state \in LiveStates \cup {"unborn", "destroyed"}
  BY DEF TypeOK, KeyRow
<1>2. keys' = [keys EXCEPT ![k] = row] /\ changes' = Append(changes, change)
  BY DEF Transaction
<1>3. row \in KeyRow
  BY <1>1, UpdatedRow
<1>4. done \in BOOLEAN
  OBVIOUS
<1>5. row.version \in Nat
  BY <1>3 DEF KeyRow
<1>6. row.state # "unborn"
  BY <1>1, UpdatedRow, NewStateIsState
<1>7. row.state = "destroyed" =>
        keys[k].state = "destroyed" \/ (op \in {"destroy", "force_destroy"} /\ Live(k))
  <2>1. CASE done
    <3>1. row.state = NewState(op, keys[k].state)
      BY <1>1, <2>1, UpdatedRow
    <3>2. row.state = "destroyed" =>
            keys[k].state = "destroyed" \/ op \in {"destroy", "force_destroy"}
      BY <1>1, <3>1, NewStateIsState
    <3>3. op \in {"destroy", "force_destroy"} => op # "create"
      OBVIOUS
    <3>4. QED
      BY <2>1, <3>2, <3>3 DEF Live
  <2>2. CASE ~done
    BY <2>2 DEF Live
  <2>3. QED
    BY <2>1, <2>2
<1>8. op \notin {"create", "rotate"} => row.version = keys[k].version
  BY <1>1, UpdatedRow
<1>9. op # "create" /\ ~Live(k) => row = keys[k]
  OBVIOUS
<1>10. done <=> (op = "create" \/ Live(k))
  OBVIOUS
<1> HIDE DEF row, done
<1>11. /\ change \in Change /\ change.op = op /\ change.key = k /\ change.by = by
       /\ change.version = row.version /\ change.done = done
  BY <1>4, <1>5 DEF Change, Actors
<1> HIDE DEF change
<1>12. changes \in Seq(Change)
  BY DEF TypeOK
<1>13. /\ changes' \in Seq(Change)
       /\ Len(changes') = Len(changes) + 1
       /\ \A i \in 1..Len(changes) : changes'[i] = changes[i]
       /\ changes'[Len(changes) + 1] = change
  BY <1>2, <1>11, <1>12, AppendProperties
<1>14. keys' \in [Keys -> KeyRow] /\ keys'[k] = row /\ \A q \in Keys : q # k => keys'[q] = keys[q]
  BY <1>2, <1>3 DEF TypeOK
<1>15. op = "create" => keys[k].state = "unborn"
  BY DEF Transaction, Commits
<1>16. QED
  BY <1>6, <1>7, <1>8, <1>9, <1>10, <1>11, <1>13, <1>14, <1>15

-----------------------------------------------------------------------------
(* What the others see of a step. *)

\* A step of the actors in A: the history and the log grow, an entry that is
\* new is of a change of theirs, and a row changes by its age or by a change of
\* theirs, its version by a rotation.
Grows(A) ==
  /\ Len(changes) <= Len(changes')
  /\ \A i \in 1..Len(changes) : changes'[i] = changes[i]
  /\ Len(log) <= Len(log')
  /\ \A n \in 1..Len(log) : log'[n] = log[n]
  /\ \A i \in 1..Len(changes) :
       (\E n \in 1..Len(log') : log'[n].change = i) => Logged(i) \/ changes[i].by \in A
  /\ \A k \in Keys : keys[k].state # "unborn" =>
       /\ keys'[k].state # "unborn"
       /\ \/ /\ keys'[k].version = keys[k].version
             /\ keys'[k].state = keys[k].state
             /\ keys'[k].policy = keys[k].policy
             /\ keys[k].aged => keys'[k].aged
          \/ \E j \in (Len(changes) + 1)..Len(changes') :
               /\ changes'[j].key = k
               /\ changes'[j].by \in A
               /\ keys'[k].version # keys[k].version => changes'[j].op = "rotate"

LEMMA LengthsAreNumbers ==
  ASSUME TypeOK
  PROVE  Len(changes) \in Nat /\ Len(log) \in Nat
<1>1. changes \in Seq(Change) /\ log \in Seq(Entry)
  BY DEF TypeOK
<1>2. QED
  BY <1>1, LenProperties

LEMMA ChangesTyped ==
  ASSUME TypeOK, NEW i \in 1..Len(changes)
  PROVE  /\ changes[i].op \in AllOps /\ changes[i].key \in Keys
         /\ changes[i].version \in Nat /\ changes[i].by \in Actors
<1>1. changes[i] \in Change
  BY ElementOfSeq DEF TypeOK
<1>2. QED
  BY <1>1 DEF Change, Actors

\* A request that does not take part keeps what it knows.
LEMMA OthersRequest ==
  ASSUME TypeOK, TypeOK', NEW A, Grows(A), NEW r \in Requests, RightRequest(r), r \notin A,
         pc'[r] = pc[r], req'[r] = req[r]
  PROVE  RightRequest(r)'
<1> DEFINE l == req[r]
<1>1. Len(changes) \in Nat /\ Len(changes') \in Nat /\ Len(changes) <= Len(changes')
  BY LengthsAreNumbers, LenProperties DEF TypeOK, Grows
<1>2. \A i \in 1..Len(changes) : i \in 1..Len(changes') /\ changes'[i] = changes[i]
  BY <1>1 DEF Grows
<1>3. SUFFICES ASSUME pc[r] # "idle"
               PROVE  /\ l.op \in AllOps
                      /\ l.key \in Keys
                      /\ l.op # "create" => keys'[l.key].state # "unborn"
                      /\ pc[r] = "fetched" => l.change = 0
                      /\ pc[r] \in {"committed", "answering"} =>
                           Owes(r, l.change, l.key)' /\ changes'[l.change].op = l.op
                      /\ pc[r] = "answering" /\ TakesDetail(l.op) /\ l.seen = None =>
                           \E j \in 1..Len(changes') : Destroys(j, l.key)'
                      /\ pc[r] = "answering" /\ l.op = "rotate" /\ l.seen # None =>
                           \E j \in l.change..Len(changes') : Rotates(j, l.key, l.seen)'
  BY DEF RightRequest, TakesDetail
<1>4. l.op \in AllOps /\ l.key \in Keys /\ (pc[r] = "fetched" => l.change = 0)
  BY <1>3 DEF RightRequest
<1>5. l.op # "create" => keys'[l.key].state # "unborn"
  BY <1>3, <1>4 DEF RightRequest, Grows
<1>6. ASSUME pc[r] \in {"committed", "answering"}
      PROVE  Owes(r, l.change, l.key)' /\ changes'[l.change].op = l.op
  <2>1. /\ l.change \in 1..Len(changes) /\ changes[l.change].by = r
        /\ changes[l.change].key = l.key /\ ~Logged(l.change) /\ changes[l.change].op = l.op
    BY <1>3, <1>6 DEF RightRequest, Owes
  <2>2. ~\E n \in 1..Len(log') : log'[n].change = l.change
    BY <2>1 DEF Grows
  <2>3. QED
    BY <1>2, <2>1, <2>2 DEF Owes, Logged
<1>7. ASSUME pc[r] = "answering", TakesDetail(l.op), l.seen = None
      PROVE  \E j \in 1..Len(changes') : Destroys(j, l.key)'
  <2>1. PICK j \in 1..Len(changes) : Destroys(j, l.key)
    BY <1>3, <1>7 DEF RightRequest
  <2>2. QED
    BY <1>2, <2>1 DEF Destroys
<1>8. ASSUME pc[r] = "answering", l.op = "rotate", l.seen # None
      PROVE  \E j \in l.change..Len(changes') : Rotates(j, l.key, l.seen)'
  <2>1. PICK j \in l.change..Len(changes) : Rotates(j, l.key, l.seen)
    BY <1>3, <1>8 DEF RightRequest
  <2>2. l.change \in 1..Len(changes)
    BY <1>3, <1>8 DEF RightRequest, Owes
  <2>3. j \in 1..Len(changes) /\ j \in l.change..Len(changes')
    BY <1>1, <2>1, <2>2
  <2>4. QED
    BY <1>2, <2>1, <2>3 DEF Rotates
<1>9. QED
  BY <1>4, <1>5, <1>6, <1>7, <1>8

\* What a run has yet to rotate stays due, or was touched by another actor.
LEMMA StaysPending ==
  ASSUME TypeOK, TypeOK', NEW A, Grows(A), NEW c \in Crons, c \notin A,
         NEW k \in Keys, NEW since \in Nat, since <= Len(changes),
         keys[k].state # "unborn", Due(k) \/ Touched(c, k, since)
  PROVE  keys'[k].state # "unborn" /\ (Due(k)' \/ Touched(c, k, since)')
<1>1. Len(changes) \in Nat /\ Len(changes') \in Nat /\ Len(changes) <= Len(changes')
  BY LengthsAreNumbers, LenProperties DEF TypeOK, Grows
<1>2. \A i \in 1..Len(changes) : i \in 1..Len(changes') /\ changes'[i] = changes[i]
  BY <1>1 DEF Grows
<1>3. keys'[k].state # "unborn"
  BY DEF Grows
<1>4. CASE Touched(c, k, since)
  <2>1. PICK j \in (since + 1)..Len(changes) : changes[j].key = k /\ changes[j].by # c
    BY <1>4 DEF Touched
  <2>2. j \in 1..Len(changes) /\ j \in (since + 1)..Len(changes')
    BY <1>1, <2>1
  <2>3. QED
    BY <1>2, <1>3, <2>1, <2>2 DEF Touched
<1>5. CASE Due(k) /\ keys'[k].state = keys[k].state /\ keys'[k].policy = keys[k].policy
             /\ (keys[k].aged => keys'[k].aged)
  BY <1>3, <1>5 DEF Due
<1>6. CASE \E j \in (Len(changes) + 1)..Len(changes') :
             changes'[j].key = k /\ changes'[j].by \in A
  <2>1. PICK j \in (Len(changes) + 1)..Len(changes') :
          changes'[j].key = k /\ changes'[j].by \in A
    BY <1>6
  <2>2. j \in (since + 1)..Len(changes')
    BY <1>1, <2>1
  <2>3. QED
    BY <1>3, <2>1, <2>2 DEF Touched
<1>7. QED
  BY <1>4, <1>5, <1>6 DEF Grows

\* And so does a run of the rotation job.
LEMMA OthersRun ==
  ASSUME TypeOK, TypeOK', NEW A, Grows(A), NEW c \in Crons, RightRun(c), c \notin A,
         run'[c] = run[c]
  PROVE  RightRun(c)'
<1> DEFINE l == run[c]
<1>1. Len(changes) \in Nat /\ Len(changes') \in Nat /\ Len(changes) <= Len(changes')
  BY LengthsAreNumbers, LenProperties DEF TypeOK, Grows
<1>2. \A i \in 1..Len(changes) : i \in 1..Len(changes') /\ changes'[i] = changes[i]
  BY <1>1 DEF Grows
<1>3. l.since \in Nat /\ l.due \subseteq Keys /\ l.ver \in Nat
  BY DEF TypeOK, Run
<1>4. l.since <= Len(changes')
  BY <1>1, <1>3 DEF RightRun
<1>5. \A i \in l.made :
        /\ Owes(c, i, changes[i].key)'
        /\ changes'[i].key \notin l.due
        /\ l.at = "fetched" => changes'[i].key # l.key
  <2> SUFFICES ASSUME NEW i \in l.made
               PROVE  /\ Owes(c, i, changes[i].key)'
                      /\ changes'[i].key \notin l.due
                      /\ l.at = "fetched" => changes'[i].key # l.key
    OBVIOUS
  <2>1. /\ i \in 1..Len(changes) /\ changes[i].by = c /\ ~Logged(i)
        /\ changes[i].key \notin l.due /\ (l.at = "fetched" => changes[i].key # l.key)
    BY DEF RightRun, Owes
  <2>2. ~\E n \in 1..Len(log') : log'[n].change = i
    BY <2>1 DEF Grows
  <2>3. QED
    BY <1>2, <2>1, <2>2 DEF Owes, Logged
<1>6. \A k \in l.due : Pending(c, k)'
  BY <1>1, <1>3, StaysPending DEF RightRun, Pending
<1>7. ASSUME l.at = "fetched"
      PROVE  /\ l.key \in Keys \ l.due
             /\ Pending(c, l.key)'
             /\ keys'[l.key].version # l.ver =>
                  \E j \in 1..Len(changes') :
                    /\ changes'[j].op = "rotate" /\ changes'[j].key = l.key
                    /\ changes'[j].by # c
  <2>1. l.key \in Keys \ l.due /\ Pending(c, l.key) /\ l.since <= Len(changes)
    BY <1>7 DEF RightRun
  <2>2. Pending(c, l.key)'
    BY <1>3, <2>1, StaysPending DEF Pending
  <2>3. ASSUME keys[l.key].version # l.ver
        PROVE  \E j \in 1..Len(changes') :
                 changes'[j].op = "rotate" /\ changes'[j].key = l.key /\ changes'[j].by # c
    <3>1. PICK j \in 1..Len(changes) :
            changes[j].op = "rotate" /\ changes[j].key = l.key /\ changes[j].by # c
      BY <1>7, <2>3 DEF RightRun
    <3>2. QED
      BY <1>2, <3>1
  <2>4. ASSUME keys'[l.key].version # keys[l.key].version
        PROVE  \E j \in 1..Len(changes') :
                 changes'[j].op = "rotate" /\ changes'[j].key = l.key /\ changes'[j].by # c
    <3>1. PICK j \in (Len(changes) + 1)..Len(changes') :
            changes'[j].key = l.key /\ changes'[j].by \in A /\ changes'[j].op = "rotate"
      BY <2>1, <2>4 DEF Grows, Pending
    <3>2. j \in 1..Len(changes')
      BY <1>1, <3>1
    <3>3. QED
      BY <3>1, <3>2
  <2>5. QED
    BY <2>1, <2>2, <2>3, <2>4
<1>8. l.at = "idle" => l.made = {}
  BY DEF RightRun
<1>9. QED
  BY <1>4, <1>5, <1>6, <1>7, <1>8 DEF RightRun

\* A snapshot stays a prefix.
LEMMA SnapshotStays ==
  ASSUME TypeOK, TypeOK', NEW A, Grows(A), SnapshotRight, backup' = backup
  PROVE  SnapshotRight'
<1>1. Len(log) \in Nat /\ Len(log') \in Nat /\ Len(log) <= Len(log')
  BY LengthsAreNumbers, LenProperties DEF TypeOK, Grows
<1>2. SUFFICES ASSUME backup.snapshot # None
               PROVE  /\ backup.snapshot.log <= Len(log')
                      /\ \A n \in 1..backup.snapshot.log :
                           log'[n].change <= backup.snapshot.changes
  BY DEF SnapshotRight
<1>3. /\ backup.snapshot.log \in Nat /\ backup.snapshot.log <= Len(log)
      /\ \A n \in 1..backup.snapshot.log : log[n].change <= backup.snapshot.changes
  BY <1>2 DEF SnapshotRight, TypeOK, Backup
<1>4. \A n \in 1..backup.snapshot.log : log'[n] = log[n]
  BY <1>1, <1>3 DEF Grows
<1>5. QED
  BY <1>1, <1>3, <1>4

\* The two explanations of a change without an entry that no fault gives.
Excused(i) ==
  \/ /\ changes[i].by \in Requests /\ changes[i].op \in {"rotate", "schedule"}
     /\ \E j \in 1..Len(changes) : Destroys(j, changes[i].key)
  \/ /\ changes[i].by \in Crons
     /\ \E j \in 1..Len(changes) :
          /\ changes[j].by # changes[i].by /\ changes[j].key # changes[i].key
          /\ changes[j].op = "rotate" \/ Destroys(j, changes[j].key)

LEMMA ExcusedStays ==
  ASSUME TypeOK, TypeOK', NEW A, Grows(A), NEW i \in 1..Len(changes), Excused(i)
  PROVE  Excused(i)'
<1>1. Len(changes) \in Nat /\ Len(changes') \in Nat /\ Len(changes) <= Len(changes')
  BY LengthsAreNumbers, LenProperties DEF TypeOK, Grows
<1>2. \A j \in 1..Len(changes) : j \in 1..Len(changes') /\ changes'[j] = changes[j]
  BY <1>1 DEF Grows
<1>3. CASE /\ changes[i].by \in Requests /\ changes[i].op \in {"rotate", "schedule"}
           /\ \E j \in 1..Len(changes) : Destroys(j, changes[i].key)
  <2>1. PICK j \in 1..Len(changes) : Destroys(j, changes[i].key)
    BY <1>3
  <2>2. Destroys(j, changes[i].key)' /\ j \in 1..Len(changes')
    BY <1>2, <2>1 DEF Destroys
  <2>3. QED
    BY <1>2, <1>3, <2>2 DEF Excused
<1>4. CASE /\ changes[i].by \in Crons
           /\ \E j \in 1..Len(changes) :
                /\ changes[j].by # changes[i].by /\ changes[j].key # changes[i].key
                /\ changes[j].op = "rotate" \/ Destroys(j, changes[j].key)
  <2>1. PICK j \in 1..Len(changes) :
          /\ changes[j].by # changes[i].by /\ changes[j].key # changes[i].key
          /\ changes[j].op = "rotate" \/ Destroys(j, changes[j].key)
    BY <1>4
  <2>2. /\ j \in 1..Len(changes')
        /\ changes'[j].by # changes'[i].by /\ changes'[j].key # changes'[i].key
        /\ changes'[j].op = "rotate" \/ Destroys(j, changes[j].key)'
    BY <1>2, <2>1 DEF Destroys
  <2>3. changes'[i].by \in Crons
    BY <1>2, <1>4
  <2>4. QED
    BY <2>2, <2>3 DEF Excused, Destroys
<1>5. QED
  BY <1>3, <1>4 DEF Excused

\* What was explained stays so, if what is no longer in progress is logged, is
\* cut off or has an excuse, and a new change is in progress.
LEMMA ExplainedStays ==
  ASSUME TypeOK, TypeOK', NEW A, Grows(A), UnloggedIsExplained, cut \subseteq cut',
         \A i \in 1..Len(changes) :
           InProgress(i) => InProgress(i)' \/ Logged(i)' \/ i \in cut' \/ Excused(i)',
         \A i \in (Len(changes) + 1)..Len(changes') : InProgress(i)'
  PROVE  UnloggedIsExplained'
<1>1. /\ Len(changes) \in Nat /\ Len(changes') \in Nat
      /\ Len(log) \in Nat /\ Len(log') \in Nat /\ Len(log) <= Len(log')
  BY LengthsAreNumbers, LenProperties DEF TypeOK, Grows
<1>2. \A i \in 1..Len(changes') : Logged(i)' \/ InProgress(i)' \/ i \in cut' \/ Excused(i)'
  <2> SUFFICES ASSUME NEW i \in 1..Len(changes')
               PROVE  Logged(i)' \/ InProgress(i)' \/ i \in cut' \/ Excused(i)'
    OBVIOUS
  <2>1. CASE i \in 1..Len(changes)
    <3>1. Logged(i) \/ InProgress(i) \/ i \in cut \/ Excused(i)
      BY <2>1 DEF UnloggedIsExplained, Excused
    <3>2. Logged(i) => Logged(i)'
      BY <1>1 DEF Logged, Grows
    <3>3. Excused(i) => Excused(i)'
      BY <2>1, ExcusedStays
    <3>4. QED
      BY <2>1, <3>1, <3>2, <3>3
  <2>2. CASE i \notin 1..Len(changes)
    BY <1>1, <2>2
  <2>3. QED
    BY <2>1, <2>2
<1>3. QED
  BY <1>2 DEF UnloggedIsExplained, Excused

\* Whoever does not take part is in progress with what it was.
LEMMA OthersInProgress ==
  ASSUME NEW i, InProgress(i),
         \A r \in Requests : pc[r] # "idle" /\ req[r].change = i =>
           (pc'[r] # "idle" /\ req'[r].change = i) \/ Logged(i)' \/ i \in cut' \/ Excused(i)',
         \A c \in Crons : i \in run[c].made =>
           i \in run'[c].made \/ Logged(i)' \/ i \in cut' \/ Excused(i)'
  PROVE  InProgress(i)' \/ Logged(i)' \/ i \in cut' \/ Excused(i)'
<1>1. CASE \E r \in Requests : pc[r] # "idle" /\ req[r].change = i
  BY <1>1 DEF InProgress
<1>2. CASE \E c \in Crons : i \in run[c].made
  BY <1>2 DEF InProgress
<1>3. QED
  BY <1>1, <1>2 DEF InProgress

-----------------------------------------------------------------------------
(* Steps that change neither a key nor the log, and the ageing of a key. *)

LEMMA QuietGrows ==
  ASSUME TypeOK, ChangesRight, EntriesTellTheTruth, UNCHANGED <<keys, changes, log>>
  PROVE  Grows({}) /\ ChangesRight' /\ EntriesTellTheTruth'
<1>1. Len(changes) \in Nat /\ Len(log) \in Nat
  BY LengthsAreNumbers
<1>2. Grows({})
  BY <1>1 DEF Grows, Logged
<1>3. ChangesRight'
  BY DEF ChangesRight, Destroys, Rotates
<1>4. EntriesTellTheTruth'
  BY DEF EntriesTellTheTruth, Destroys
<1>5. QED
  BY <1>2, <1>3, <1>4

LEMMA AgeRow ==
  ASSUME TypeOK, NEW k \in Keys, Age(k)
  PROVE  /\ keys' \in [Keys -> KeyRow]
         /\ \A q \in Keys : /\ keys'[q].state = keys[q].state
                            /\ keys'[q].version = keys[q].version
                            /\ keys'[q].policy = keys[q].policy
                            /\ keys[q].aged => keys'[q].aged
<1> DEFINE row == KeyOf(keys[k].state, keys[k].version, keys[k].policy, TRUE)
<1>1. /\ keys[k].state \in LiveStates \cup {"unborn", "destroyed"} /\ keys[k].version \in Nat
      /\ keys[k].policy \in BOOLEAN
  BY DEF TypeOK, KeyRow
<1>2. /\ row \in KeyRow /\ row.state = keys[k].state /\ row.version = keys[k].version
      /\ row.policy = keys[k].policy /\ row.aged = TRUE
  BY <1>1 DEF KeyOf, KeyRow
<1>3. keys' = [keys EXCEPT ![k] = row]
  BY DEF Age
<1> HIDE DEF row
<1>4. QED
  BY <1>2, <1>3 DEF TypeOK

LEMMA AgeGrows ==
  ASSUME TypeOK, ChangesRight, EntriesTellTheTruth, NEW k \in Keys, Age(k)
  PROVE  Grows({}) /\ ChangesRight' /\ EntriesTellTheTruth'
<1>1. Len(changes) \in Nat /\ Len(log) \in Nat
  BY LengthsAreNumbers
<1>2. changes' = changes /\ log' = log
  BY DEF Age
<1>3. Grows({})
  BY <1>1, <1>2, AgeRow DEF Grows, Logged
<1>4. ChangesRight'
  <2>1. \A i \in 1..Len(changes) : changes[i].key \in Keys
    BY ChangesTyped
  <2>2. \A q \in Keys : /\ keys'[q].state = keys[q].state
                       /\ keys'[q].version = keys[q].version
    BY AgeRow
  <2>3. \A q \in Keys : keys'[q].state = "destroyed" =>
          \E i \in 1..Len(changes) : Destroys(i, q)
    BY <2>2 DEF ChangesRight
  <2>4. ASSUME NEW i \in 1..Len(changes)
        PROVE  /\ changes[i].by \in Crons => changes[i].op = "rotate"
               /\ ~changes[i].done => \E j \in 1..(i - 1) : Destroys(j, changes[i].key)
               /\ changes[i].op = "rotate" =>
                    /\ keys'[changes[i].key].state # "unborn"
                    /\ \E j \in i..Len(changes) :
                         Rotates(j, changes[i].key, keys'[changes[i].key].version)
    <3>1. /\ keys'[changes[i].key].state = keys[changes[i].key].state
          /\ keys'[changes[i].key].version = keys[changes[i].key].version
      BY <2>1, <2>2
    <3>2. QED
      BY <3>1 DEF ChangesRight
  <2>5. QED
    BY <1>2, <2>3, <2>4 DEF ChangesRight, Destroys, Rotates
<1>5. EntriesTellTheTruth'
  BY <1>2 DEF EntriesTellTheTruth, Destroys
<1>6. QED
  BY <1>3, <1>4, <1>5

-----------------------------------------------------------------------------
(* Steps that change a key, and steps that log. *)

LEMMA TransactionRight ==
  ASSUME TypeOK, ChangesRight, EntriesTellTheTruth, NEW op \in AllOps, NEW k \in Keys,
         NEW v \in Nat, NEW by \in Actors, Transaction(op, k, v, by),
         op # "create" => keys[k].state # "unborn", by \in Crons => op = "rotate",
         log' = log
  PROVE  Grows({by}) /\ ChangesRight' /\ EntriesTellTheTruth'
<1> DEFINE new == Len(changes) + 1
<1>1. Len(changes) \in Nat /\ Len(log) \in Nat
  BY LengthsAreNumbers
<1>2. /\ keys' \in [Keys -> KeyRow]
      /\ Len(changes') = new
      /\ \A i \in 1..Len(changes) : changes'[i] = changes[i]
      /\ changes'[new].op = op
      /\ changes'[new].key = k
      /\ changes'[new].by = by
      /\ changes'[new].version = keys'[k].version
      /\ changes'[new].done <=> (op = "create" \/ Live(k))
  BY TransactionGrows
<1>3. /\ \A q \in Keys : q # k => keys'[q] = keys[q]
      /\ op # "create" /\ ~Live(k) => keys'[k] = keys[k]
      /\ keys'[k].state # "unborn"
      /\ keys'[k].state = "destroyed" =>
           keys[k].state = "destroyed" \/ (op \in {"destroy", "force_destroy"} /\ Live(k))
      /\ op \notin {"create", "rotate"} => keys'[k].version = keys[k].version
      /\ op = "create" => keys[k].state = "unborn"
  BY TransactionGrows
<1>4. \A i \in 1..Len(changes) : i \in 1..new /\ i <= Len(changes)
  BY <1>1
<1>5. new \in 1..new /\ new \in (Len(changes) + 1)..new /\ new \notin 1..Len(changes)
  BY <1>1
<1>6. \A i \in 1..new : i \in 1..Len(changes) \/ i = new
  BY <1>1
<1>7. Grows({by})
  <2>1. Len(changes) <= Len(changes') /\ Len(log) <= Len(log')
    BY <1>1, <1>2
  <2>2. ASSUME NEW q \in Keys, keys[q].state # "unborn"
        PROVE  /\ keys'[q].state # "unborn"
               /\ \/ /\ keys'[q].version = keys[q].version
                     /\ keys'[q].state = keys[q].state
                     /\ keys'[q].policy = keys[q].policy
                     /\ keys[q].aged => keys'[q].aged
                  \/ \E j \in (Len(changes) + 1)..Len(changes') :
                       /\ changes'[j].key = q
                       /\ changes'[j].by \in {by}
                       /\ keys'[q].version # keys[q].version => changes'[j].op = "rotate"
    <3>1. CASE q # k
      BY <1>3, <2>2, <3>1
    <3>2. CASE q = k
      <4>1. keys'[q].version # keys[q].version => changes'[new].op = "rotate"
        BY <1>2, <1>3, <2>2, <3>2
      <4>2. QED
        BY <1>2, <1>3, <1>5, <3>2, <4>1
    <3>3. QED
      BY <3>1, <3>2
  <2>3. QED
    BY <1>2, <2>1, <2>2 DEF Grows, Logged
<1>8. ChangesRight'
  <2>1. ASSUME NEW q \in Keys, keys'[q].state = "destroyed"
        PROVE  \E i \in 1..Len(changes') : Destroys(i, q)'
    <3>1. CASE keys[q].state = "destroyed"
      <4>1. PICK i \in 1..Len(changes) : Destroys(i, q)
        BY <3>1 DEF ChangesRight
      <4>2. QED
        BY <1>2, <1>4, <4>1 DEF Destroys
    <3>2. CASE keys[q].state # "destroyed"
      <4>1. q = k /\ op \in {"destroy", "force_destroy"} /\ Live(k)
        BY <1>3, <2>1, <3>2
      <4>2. QED
        BY <1>2, <1>5, <4>1 DEF Destroys
    <3>3. QED
      BY <3>1, <3>2
  <2>2. ASSUME NEW i \in 1..Len(changes'), changes'[i].by \in Crons
        PROVE  changes'[i].op = "rotate"
    BY <1>2, <1>6, <2>2 DEF ChangesRight
  <2>3. ASSUME NEW i \in 1..Len(changes'), ~changes'[i].done
        PROVE  \E j \in 1..(i - 1) : Destroys(j, changes[i].key)'
    <3>1. CASE i \in 1..Len(changes)
      <4>1. PICK j \in 1..(i - 1) : Destroys(j, changes[i].key)
        BY <1>2, <2>3, <3>1 DEF ChangesRight
      <4>2. j \in 1..Len(changes)
        BY <1>1, <3>1
      <4>3. QED
        BY <1>2, <3>1, <4>1, <4>2 DEF Destroys
    <3>2. CASE i = new
      <4>1. op # "create" /\ ~Live(k)
        BY <1>2, <2>3, <3>2
      <4>2. keys[k].state \in LiveStates \cup {"unborn", "destroyed"}
        BY DEF TypeOK, KeyRow
      <4>3. keys[k].state = "destroyed"
        BY <4>1, <4>2 DEF Live
      <4>4. PICK j \in 1..Len(changes) : Destroys(j, k)
        BY <4>3 DEF ChangesRight
      <4>5. j \in 1..(i - 1)
        BY <1>1, <3>2
      <4>6. QED
        BY <1>2, <3>2, <4>4, <4>5 DEF Destroys
    <3>3. QED
      BY <1>2, <1>6, <3>1, <3>2
  <2>4. ASSUME NEW i \in 1..Len(changes'), changes'[i].op = "rotate"
        PROVE  /\ keys'[changes'[i].key].state # "unborn"
               /\ \E j \in i..Len(changes') :
                    Rotates(j, changes[i].key, keys[changes[i].key].version)'
    <3>1. CASE i \in 1..Len(changes)
      <4> DEFINE q == changes[i].key
      <4>1. q \in Keys /\ changes'[i].key = q /\ changes[i].op = "rotate"
        BY <1>2, <2>4, <3>1, ChangesTyped
      <4>2. keys[q].state # "unborn"
        BY <3>1, <4>1 DEF ChangesRight
      <4>3. keys'[q].state # "unborn"
        BY <1>3, <4>1, <4>2
      <4>4. CASE keys'[q].version = keys[q].version
        <5>1. PICK j \in i..Len(changes) : Rotates(j, q, keys[q].version)
          BY <3>1, <4>1 DEF ChangesRight
        <5>2. j \in 1..Len(changes) /\ j \in i..Len(changes')
          BY <1>1, <1>2, <3>1
        <5>3. QED
          BY <1>2, <4>1, <4>3, <4>4, <5>1, <5>2 DEF Rotates
      <4>5. CASE keys'[q].version # keys[q].version
        <5>1. q = k /\ op = "rotate"
          BY <1>3, <4>1, <4>2, <4>5
        <5>2. new \in i..Len(changes')
          BY <1>1, <1>2, <3>1
        <5>3. QED
          BY <1>2, <4>1, <4>3, <5>1, <5>2 DEF Rotates
      <4>6. QED
        BY <4>4, <4>5
    <3>2. CASE i = new
      <4>1. new \in i..Len(changes')
        BY <1>1, <1>2, <3>2
      <4>2. QED
        BY <1>2, <1>3, <2>4, <3>2, <4>1 DEF Rotates
    <3>3. QED
      BY <1>2, <1>6, <3>1, <3>2
  <2>5. QED
    BY <2>1, <2>2, <2>3, <2>4 DEF ChangesRight
<1>9. EntriesTellTheTruth'
  <2>1. ASSUME NEW n \in 1..Len(log)
        PROVE  /\ log[n].change \in 1..Len(changes')
               /\ log[n].op = changes'[log[n].change].op
               /\ log[n].key = changes'[log[n].change].key
               /\ ~changes'[log[n].change].done =>
                    \E i \in 1..(log[n].change - 1) : Destroys(i, changes[log[n].change].key)'
               /\ log[n].version # None => \E i \in log[n].change..Len(changes') :
                    changes'[i].op = "rotate" /\ changes'[i].key = log[n].key
                      /\ changes'[i].version = log[n].version
    <3> DEFINE e == log[n]
    <3>1. /\ e.change \in 1..Len(changes)
          /\ e.op = changes[e.change].op /\ e.key = changes[e.change].key
      BY DEF EntriesTellTheTruth
    <3>2. e.change \in 1..Len(changes') /\ changes'[e.change] = changes[e.change]
      BY <1>2, <1>4, <3>1
    <3>3. ASSUME ~changes[e.change].done
          PROVE  \E i \in 1..(e.change - 1) : Destroys(i, changes[e.change].key)'
      <4>1. PICK i \in 1..(e.change - 1) : Destroys(i, changes[e.change].key)
        BY <3>3 DEF EntriesTellTheTruth
      <4>2. i \in 1..Len(changes)
        BY <1>1, <3>1
      <4>3. QED
        BY <1>2, <3>2, <4>1, <4>2 DEF Destroys
    <3>4. ASSUME e.version # None
          PROVE  \E i \in e.change..Len(changes') :
                   changes'[i].op = "rotate" /\ changes'[i].key = e.key
                     /\ changes'[i].version = e.version
      <4>1. PICK i \in e.change..Len(changes) :
              changes[i].op = "rotate" /\ changes[i].key = e.key
                /\ changes[i].version = e.version
        BY <3>4 DEF EntriesTellTheTruth
      <4>2. i \in 1..Len(changes) /\ i \in e.change..Len(changes')
        BY <1>1, <1>2, <3>1
      <4>3. QED
        BY <1>2, <4>1, <4>2
    <3>5. QED
      BY <3>1, <3>2, <3>3, <3>4
  <2>2. \A m, n \in 1..Len(log) : log[m].change = log[n].change => m = n
    BY DEF EntriesTellTheTruth
  <2>3. QED
    BY <2>1, <2>2 DEF EntriesTellTheTruth
<1>10. QED
  BY <1>7, <1>8, <1>9

\* An entry for a change that its actor owes.
LEMMA LogRight ==
  ASSUME TypeOK, ChangesRight, EntriesTellTheTruth, NEW by \in Actors,
         NEW i \in 1..Len(changes), changes[i].by = by, ~Logged(i),
         NEW version \in Nat \cup {None},
         version # None => \E j \in i..Len(changes) : Rotates(j, changes[i].key, version),
         log' = Append(log, EntryOf(i, version)), UNCHANGED <<keys, changes>>
  PROVE  /\ log' \in Seq(Entry) /\ Logged(i)'
         /\ Grows({by}) /\ ChangesRight' /\ EntriesTellTheTruth'
         /\ \A q \in 1..Len(changes) : q # i /\ ~Logged(q) => ~Logged(q)'
<1> DEFINE e == EntryOf(i, version)
           new == Len(log) + 1
<1>1. Len(changes) \in Nat /\ Len(log) \in Nat
  BY LengthsAreNumbers
<1>2. /\ e.op = changes[i].op /\ e.key = changes[i].key /\ e.change = i
      /\ e.version = version
  BY DEF EntryOf
<1>3. i \in Nat
  BY <1>1
<1>4. e \in Entry
  BY <1>3, ChangesTyped DEF EntryOf, Entry
<1> HIDE DEF e
<1>5. log \in Seq(Entry)
  BY DEF TypeOK
<1>6. /\ log' \in Seq(Entry)
      /\ Len(log') = new
      /\ \A n \in 1..Len(log) : log'[n] = log[n]
      /\ log'[new] = e
  BY <1>4, <1>5, AppendProperties DEF e
<1>7. new \in 1..new /\ \A n \in 1..new : n \in 1..Len(log) \/ n = new
  BY <1>1
<1>8. Logged(i)'
  BY <1>2, <1>6, <1>7 DEF Logged
<1>9. Grows({by})
  <2>1. Len(log) <= Len(log')
    BY <1>1, <1>6
  <2>2. ASSUME NEW q \in 1..Len(changes), \E n \in 1..Len(log') : log'[n].change = q
        PROVE  Logged(q) \/ changes[q].by \in {by}
    <3>1. PICK n \in 1..Len(log') : log'[n].change = q
      BY <2>2
    <3>2. CASE n \in 1..Len(log)
      BY <1>6, <3>1, <3>2 DEF Logged
    <3>3. CASE n = new
      BY <1>2, <1>6, <3>1, <3>3
    <3>4. QED
      BY <1>6, <1>7, <3>2, <3>3
  <2>3. QED
    BY <1>1, <1>6, <2>1, <2>2 DEF Grows
<1>10. ChangesRight'
  BY DEF ChangesRight, Destroys, Rotates
<1>11. EntriesTellTheTruth'
  <2>1. ASSUME NEW n \in 1..Len(log')
        PROVE  /\ log'[n].change \in 1..Len(changes)
               /\ log'[n].op = changes[log'[n].change].op
               /\ log'[n].key = changes[log'[n].change].key
               /\ ~changes[log'[n].change].done =>
                    \E q \in 1..(log'[n].change - 1) :
                      Destroys(q, changes[log'[n].change].key)
               /\ log'[n].version # None => \E q \in log'[n].change..Len(changes) :
                    changes[q].op = "rotate" /\ changes[q].key = log'[n].key
                      /\ changes[q].version = log'[n].version
    <3>1. CASE n \in 1..Len(log)
      BY <1>6, <3>1 DEF EntriesTellTheTruth
    <3>2. CASE n = new
      <4>1. log'[n] = e
        BY <1>6, <3>2
      <4>2. ~changes[i].done => \E q \in 1..(i - 1) : Destroys(q, changes[i].key)
        BY DEF ChangesRight
      <4>3. version # None => \E q \in i..Len(changes) :
              changes[q].op = "rotate" /\ changes[q].key = changes[i].key
                /\ changes[q].version = version
        BY DEF Rotates
      <4>4. QED
        BY <1>2, <4>1, <4>2, <4>3
    <3>3. QED
      BY <1>6, <1>7, <3>1, <3>2
  <2>2. ASSUME NEW m \in 1..Len(log'), NEW n \in 1..Len(log'), log'[m].change = log'[n].change
        PROVE  m = n
    <3>1. CASE m \in 1..Len(log) /\ n \in 1..Len(log)
      BY <1>6, <2>2, <3>1 DEF EntriesTellTheTruth
    <3>2. ASSUME NEW p \in 1..Len(log) PROVE log'[p].change # i
      BY <1>6 DEF Logged
    <3>3. CASE m = new /\ n # new
      BY <1>2, <1>6, <1>7, <2>2, <3>2, <3>3
    <3>4. CASE n = new /\ m # new
      BY <1>2, <1>6, <1>7, <2>2, <3>2, <3>4
    <3>5. QED
      BY <1>6, <1>7, <3>1, <3>3, <3>4
  <2>3. QED
    BY <2>1, <2>2 DEF EntriesTellTheTruth, Destroys
<1>12. \A q \in 1..Len(changes) : q # i /\ ~Logged(q) => ~Logged(q)'
  BY <1>2, <1>6, <1>7 DEF Logged
<1>13. QED
  BY <1>6, <1>8, <1>9, <1>10, <1>11, <1>12

-----------------------------------------------------------------------------
(* The inductive invariant, for a step whose effects are known. *)

LEMMA Keeps ==
  ASSUME IInv, TypeOK', NEW A, Grows(A), ChangesRight', EntriesTellTheTruth',
         \A r \in Requests :
           RightRequest(r)' \/ (r \notin A /\ pc'[r] = pc[r] /\ req'[r] = req[r]),
         \A c \in Crons : RightRun(c)' \/ (c \notin A /\ run'[c] = run[c]),
         SnapshotRight' \/ backup' = backup,
         cut \subseteq cut',
         \A i \in 1..Len(changes) : \A r \in Requests :
           pc[r] # "idle" /\ req[r].change = i =>
             (pc'[r] # "idle" /\ req'[r].change = i) \/ Logged(i)' \/ i \in cut' \/ Excused(i)',
         \A i \in 1..Len(changes) : \A c \in Crons :
           i \in run[c].made =>
             i \in run'[c].made \/ Logged(i)' \/ i \in cut' \/ Excused(i)',
         \A i \in (Len(changes) + 1)..Len(changes') : InProgress(i)'
  PROVE  IInv'
<1>1. \A r \in Requests : RightRequest(r)'
  BY OthersRequest DEF IInv
<1>2. \A c \in Crons : RightRun(c)'
  BY OthersRun DEF IInv
<1>3. SnapshotRight'
  BY SnapshotStays DEF IInv
<1>4. \A i \in 1..Len(changes) :
        InProgress(i) => InProgress(i)' \/ Logged(i)' \/ i \in cut' \/ Excused(i)'
  BY OthersInProgress
<1>5. UnloggedIsExplained'
  BY <1>4, ExplainedStays DEF IInv
<1>6. QED
  BY <1>1, <1>2, <1>3, <1>5 DEF IInv

\* The same for a step that changes neither a key nor the log, of one request ...
LEMMA QuietRequestKeeps ==
  ASSUME IInv, UNCHANGED <<workload, keys, changes, log, run, backup>>, NEW r \in Requests,
         NEW at \in {"idle", "fetched", "committed", "answering"}, NEW l \in Local,
         pc' = [pc EXCEPT ![r] = at], req' = [req EXCEPT ![r] = l],
         cut' \subseteq Nat, cut \subseteq cut', RightRequest(r)',
         \/ pc[r] \in {"idle", "fetched"}
         \/ at # "idle" /\ l.change = req[r].change
         \/ req[r].change \in cut'
         \/ Excused(req[r].change)
  PROVE  IInv'
<1>1. TypeOK'
  BY DEF IInv, TypeOK
<1>2. Grows({}) /\ ChangesRight' /\ EntriesTellTheTruth'
  BY QuietGrows DEF IInv
<1>3. pc'[r] = at /\ req'[r] = l
  BY DEF IInv, TypeOK
<1>4. \A q \in Requests : q # r => pc'[q] = pc[q] /\ req'[q] = req[q]
  BY DEF IInv, TypeOK
<1>5. \A q \in Requests :
        RightRequest(q)' \/ (q \notin {} /\ pc'[q] = pc[q] /\ req'[q] = req[q])
  BY <1>4
<1>6. \A c \in Crons : run'[c] = run[c]
  OBVIOUS
<1>7. Len(changes) \in Nat
  BY LengthsAreNumbers DEF IInv
<1>8. \A i \in 1..Len(changes) : \A q \in Requests :
        pc[q] # "idle" /\ req[q].change = i =>
          (pc'[q] # "idle" /\ req'[q].change = i) \/ Logged(i)' \/ i \in cut' \/ Excused(i)'
  <2> SUFFICES ASSUME NEW i \in 1..Len(changes), NEW q \in Requests, pc[q] # "idle",
                      req[q].change = i
               PROVE  (pc'[q] # "idle" /\ req'[q].change = i) \/ i \in cut' \/ Excused(i)'
    OBVIOUS
  <2>1. CASE q # r
    BY <1>4, <2>1
  <2>2. CASE q = r
    <3>1. pc[r] # "fetched"
      BY <1>7, <2>2 DEF IInv, RightRequest
    <3>2. Excused(i) => Excused(i)'
      BY DEF Excused, Destroys
    <3>3. QED
      BY <1>3, <2>2, <3>1, <3>2
  <2>3. QED
    BY <2>1, <2>2
<1>9. \A i \in (Len(changes) + 1)..Len(changes') : InProgress(i)'
  BY <1>7
<1>10. QED
  BY <1>1, <1>2, <1>5, <1>6, <1>8, <1>9, Keeps

\* ... or of one run of the rotation job.
LEMMA QuietRunKeeps ==
  ASSUME IInv, UNCHANGED <<workload, keys, changes, log, pc, req, backup>>, NEW c \in Crons,
         NEW l \in Run, run' = [run EXCEPT ![c] = l],
         cut' \subseteq Nat, cut \subseteq cut', RightRun(c)',
         \A i \in run[c].made : i \in l.made \/ i \in cut' \/ Excused(i)
  PROVE  IInv'
<1>1. TypeOK'
  BY DEF IInv, TypeOK
<1>2. Grows({}) /\ ChangesRight' /\ EntriesTellTheTruth'
  BY QuietGrows DEF IInv
<1>3. run'[c] = l /\ \A d \in Crons : d # c => run'[d] = run[d]
  BY DEF IInv, TypeOK
<1>4. \A d \in Crons : RightRun(d)' \/ (d \notin {} /\ run'[d] = run[d])
  BY <1>3
<1>5. Len(changes) \in Nat
  BY LengthsAreNumbers DEF IInv
<1>6. \A i \in 1..Len(changes) : \A d \in Crons : i \in run[d].made =>
        i \in run'[d].made \/ Logged(i)' \/ i \in cut' \/ Excused(i)'
  <2>1. \A i \in 1..Len(changes) : Excused(i) => Excused(i)'
    BY DEF Excused, Destroys
  <2>2. QED
    BY <1>3, <2>1
<1>7. \A i \in (Len(changes) + 1)..Len(changes') : InProgress(i)'
  BY <1>5
<1>8. QED
  BY <1>1, <1>2, <1>4, <1>6, <1>7, Keeps

-----------------------------------------------------------------------------
(* A handler. *)

LEMMA IdleIsRight ==
  ASSUME NEW r \in Requests, pc'[r] = "idle"
  PROVE  RightRequest(r)'
  BY DEF RightRequest

LEMMA EndRequestKeeps ==
  ASSUME IInv, UNCHANGED <<workload, keys, changes, log, run, backup>>, NEW r \in Requests,
         EndRequest(r), cut' \subseteq Nat, cut \subseteq cut',
         pc[r] = "fetched" \/ req[r].change \in cut' \/ Excused(req[r].change)
  PROVE  IInv'
<1>1. pc' = [pc EXCEPT ![r] = "idle"] /\ req' = [req EXCEPT ![r] = NoLocal]
  BY DEF EndRequest
<1>2. pc'[r] = "idle"
  BY <1>1 DEF IInv, TypeOK
<1>3. RightRequest(r)'
  BY <1>2, IdleIsRight
<1>4. "idle" \in {"idle", "fetched", "committed", "answering"}
  OBVIOUS
<1>5. QED
  BY <1>1, <1>3, <1>4, NoLocalLocal, QuietRequestKeeps

LEMMA BeginKeeps ==
  ASSUME IInv, NEW r \in Requests, NEW op \in AllOps, NEW k \in Keys, Begin(r, op, k)
  PROVE  IInv'
<1> DEFINE l == LocalOf(op, k, keys[k].version, 0, None)
<1>1. keys[k].version \in Nat
  BY DEF IInv, TypeOK, KeyRow
<1>2. l \in Local /\ l.op = op /\ l.key = k /\ l.change = 0 /\ l.seen = None
  BY <1>1 DEF LocalOf, Local
<1>3. /\ pc' = [pc EXCEPT ![r] = "fetched"] /\ req' = [req EXCEPT ![r] = l]
      /\ pc[r] = "idle" /\ Admits(op, k)
      /\ UNCHANGED <<workload, keys, changes, log, run, backup, cut>>
  BY DEF Begin
<1>4. op # "create" => keys[k].state # "unborn"
  BY <1>3 DEF Admits, Live, LiveStates, AllOps, RereadOps, UseOps
<1> HIDE DEF l
<1>5. pc'[r] = "fetched" /\ req'[r] = l
  BY <1>3 DEF IInv, TypeOK
<1>6. RightRequest(r)'
  BY <1>2, <1>3, <1>4, <1>5 DEF RightRequest
<1>7. cut' \subseteq Nat /\ cut \subseteq cut'
  BY <1>3 DEF IInv, TypeOK
<1>8. "fetched" \in {"idle", "fetched", "committed", "answering"}
  OBVIOUS
<1>9. QED
  BY <1>2, <1>3, <1>6, <1>7, <1>8, QuietRequestKeeps

LEMMA AbandonKeeps ==
  ASSUME IInv, NEW r \in Requests, Abandon(r)
  PROVE  IInv'
<1>1. cut' \subseteq Nat /\ cut \subseteq cut'
  BY DEF Abandon, IInv, TypeOK
<1>2. QED
  BY <1>1, EndRequestKeeps DEF Abandon

LEMMA FailKeeps ==
  ASSUME IInv, NEW r \in Requests, Fail(r)
  PROVE  IInv'
<1>1. req[r].change \in Nat /\ cut \subseteq Nat
  BY DEF IInv, TypeOK, Local
<1>2. cut' = cut \cup {req[r].change}
  BY DEF Fail, CutOff
<1>3. cut' \subseteq Nat /\ cut \subseteq cut' /\ req[r].change \in cut'
  BY <1>1, <1>2
<1>4. QED
  BY <1>3, EndRequestKeeps DEF Fail

\* A rotation or a schedule that read no key back: the key was destroyed.
LEMMA RaiseKeeps ==
  ASSUME IInv, NEW r \in Requests, Raise(r)
  PROVE  IInv'
<1> DEFINE i == req[r].change
<1>1. /\ pc[r] = "answering" /\ TakesDetail(req[r].op) /\ req[r].seen = None
      /\ EndRequest(r) /\ UNCHANGED <<workload, keys, changes, log, run, backup, cut>>
  BY DEF Raise, Raises
<1>2. RightRequest(r)
  BY DEF IInv
<1>3. /\ changes[i].by = r /\ changes[i].key = req[r].key /\ changes[i].op = req[r].op
      /\ \E j \in 1..Len(changes) : Destroys(j, req[r].key)
  BY <1>1, <1>2 DEF RightRequest, Owes
<1>4. Excused(i)
  BY <1>1, <1>3 DEF Excused, TakesDetail
<1>5. cut' \subseteq Nat /\ cut \subseteq cut'
  BY <1>1 DEF IInv, TypeOK
<1>6. QED
  BY <1>1, <1>4, <1>5, EndRequestKeeps

LEMMA RereadKeeps ==
  ASSUME IInv, NEW r \in Requests, Reread(r)
  PROVE  IInv'
<1>1. PICK l \in Local : l = req[r]
  BY DEF IInv, TypeOK
<1>2. /\ pc[r] = "committed"
      /\ UNCHANGED <<workload, keys, changes, log, run, backup, cut>>
  BY DEF Reread, ReadBack
<1>3. RightRequest(r)
  BY DEF IInv
<1>4. /\ l.op \in AllOps /\ l.key \in Keys /\ (l.op # "create" => keys[l.key].state # "unborn")
      /\ Owes(r, l.change, l.key) /\ changes[l.change].op = l.op
  BY <1>1, <1>2, <1>3 DEF RightRequest
<1>5. keys[l.key] \in KeyRow
  BY <1>4 DEF IInv, TypeOK
<1>6. PICK seen \in Nat \cup {None} :
        seen = IF Live(l.key) THEN keys[l.key].version ELSE None
  BY <1>5 DEF KeyRow
<1> DEFINE m == LocalOf(l.op, l.key, l.ver, l.change, seen)
<1>7. pc' = [pc EXCEPT ![r] = "answering"] /\ req' = [req EXCEPT ![r] = m]
  BY <1>1, <1>6 DEF Reread, ReadBack
<1>8. /\ m \in Local /\ m.op = l.op /\ m.key = l.key /\ m.change = l.change /\ m.seen = seen
  <2>1. l.ver \in Nat /\ l.change \in Nat
    BY DEF Local
  <2>2. QED
    BY <1>4, <2>1 DEF Local, LocalOf
<1> HIDE DEF m
<1>9. ASSUME TakesDetail(l.op), seen = None
      PROVE  \E j \in 1..Len(changes) : Destroys(j, l.key)
  <2>1. keys[l.key].version # None
    BY <1>5, NoneAssumption DEF KeyRow
  <2>2. ~Live(l.key)
    BY <1>6, <1>9, <2>1
  <2>3. keys[l.key].state # "unborn"
    BY <1>4, <1>9 DEF TakesDetail
  <2>4. keys[l.key].state = "destroyed"
    BY <1>5, <2>2, <2>3 DEF Live, KeyRow
  <2>5. QED
    BY <1>4, <2>4 DEF IInv, ChangesRight
<1>10. ASSUME l.op = "rotate", seen # None
       PROVE  \E j \in l.change..Len(changes) : Rotates(j, l.key, seen)
  <2>1. seen = keys[l.key].version
    BY <1>6, <1>10
  <2>2. l.change \in 1..Len(changes) /\ changes[l.change].key = l.key
    BY <1>4 DEF Owes
  <2>3. QED
    BY <1>4, <1>10, <2>1, <2>2 DEF IInv, ChangesRight
<1>11. pc'[r] = "answering" /\ req'[r] = m
  BY <1>7 DEF IInv, TypeOK
<1>12. RightRequest(r)'
  <2>1. Owes(r, l.change, l.key)'
    BY <1>2, <1>4 DEF Owes, Logged
  <2>2. l.op # "create" => keys'[l.key].state # "unborn"
    BY <1>2, <1>4
  <2>3. ASSUME TakesDetail(l.op), seen = None
        PROVE  \E j \in 1..Len(changes') : Destroys(j, l.key)'
    BY <1>2, <1>9, <2>3 DEF Destroys
  <2>4. ASSUME l.op = "rotate", seen # None
        PROVE  \E j \in l.change..Len(changes') : Rotates(j, l.key, seen)'
    BY <1>2, <1>10, <2>4 DEF Rotates
  <2>5. changes'[l.change].op = l.op
    BY <1>2, <1>4
  <2>6. QED
    BY <1>4, <1>8, <1>11, <2>1, <2>2, <2>3, <2>4, <2>5
    DEF RightRequest, Owes, Logged, Destroys, Rotates, TakesDetail
<1>13. cut' \subseteq Nat /\ cut \subseteq cut'
  BY <1>2 DEF IInv, TypeOK
<1>14. "answering" \in {"idle", "fetched", "committed", "answering"} /\ "answering" # "idle"
  OBVIOUS
<1>15. m.change = req[r].change
  BY <1>1, <1>8
<1>16. QED
  BY <1>2, <1>7, <1>8, <1>12, <1>13, <1>14, <1>15, QuietRequestKeeps

LEMMA CommitKeeps ==
  ASSUME IInv, NEW r \in Requests, Commit(r)
  PROVE  IInv'
<1> DEFINE new == Len(changes) + 1
<1>1. PICK l \in Local : l = req[r]
  BY DEF IInv, TypeOK
<1>2. RightRequest(r)
  BY DEF IInv
<1>3. pc[r] = "fetched" /\ Transaction(l.op, l.key, l.ver, r)
      /\ UNCHANGED <<workload, log, run, backup, cut>>
  BY <1>1 DEF Commit
<1>4. /\ l.op \in AllOps /\ l.key \in Keys /\ l.ver \in Nat
      /\ (l.op # "create" => keys[l.key].state # "unborn") /\ l.change = 0
  BY <1>1, <1>2, <1>3 DEF RightRequest, Local
<1>5. r \in Actors /\ r \notin Crons
  BY ActorsAssumption DEF Actors
<1>6. Len(changes) \in Nat /\ new \in Nat
  BY LengthsAreNumbers DEF IInv
<1>7. PICK n \in Nat : n = new
  BY <1>6
<1>8. PICK at \in {"committed", "answering"} :
        at = IF l.op \in RereadOps THEN "committed" ELSE "answering"
  OBVIOUS
<1> DEFINE m == LocalOf(l.op, l.key, l.ver, n, None)
<1>9. pc' = [pc EXCEPT ![r] = at] /\ req' = [req EXCEPT ![r] = m]
  BY <1>1, <1>7, <1>8 DEF Commit
<1>10. /\ m \in Local /\ m.op = l.op /\ m.key = l.key /\ m.change = n
  BY <1>4 DEF Local, LocalOf
<1> HIDE DEF m
<1>11. /\ keys' \in [Keys -> KeyRow]
       /\ changes' \in Seq(Change)
       /\ Len(changes') = n
       /\ changes'[n].op = l.op /\ changes'[n].key = l.key /\ changes'[n].by = r
       /\ keys'[l.key].state # "unborn"
  BY <1>3, <1>4, <1>5, <1>7, TransactionGrows DEF IInv
<1>12. Grows({r}) /\ ChangesRight' /\ EntriesTellTheTruth'
  BY <1>3, <1>4, <1>5, TransactionRight DEF IInv
<1>13. TypeOK'
  BY <1>3, <1>9, <1>10, <1>11 DEF IInv, TypeOK
<1>14. pc'[r] = at /\ req'[r] = m
  BY <1>9 DEF IInv, TypeOK
<1>15. \A q \in Requests : q # r => pc'[q] = pc[q] /\ req'[q] = req[q]
  BY <1>9 DEF IInv, TypeOK
<1>16. n \in 1..Len(changes') /\ n \notin 1..Len(changes)
  BY <1>6, <1>7, <1>11
<1>17. RightRequest(r)'
  <2>1. ~Logged(n)'
    BY <1>3, <1>16 DEF Logged, IInv, EntriesTellTheTruth
  <2>2. Owes(r, n, l.key)'
    BY <1>11, <1>16, <2>1 DEF Owes
  <2>3. at = "answering" => ~TakesDetail(l.op) /\ l.op # "rotate"
    BY <1>8 DEF TakesDetail, RereadOps
  <2>4. at # "fetched"
    OBVIOUS
  <2>5. QED
    BY <1>4, <1>10, <1>11, <1>14, <2>2, <2>3, <2>4
    DEF RightRequest, Owes, Logged, TakesDetail
<1>18. \A q \in Requests :
         RightRequest(q)' \/ (q \notin {r} /\ pc'[q] = pc[q] /\ req'[q] = req[q])
  BY <1>15, <1>17
<1>19. \A c \in Crons : c \notin {r} /\ run'[c] = run[c]
  BY <1>3, <1>5
<1>20. \A i \in 1..Len(changes) : \A q \in Requests :
         pc[q] # "idle" /\ req[q].change = i => pc'[q] # "idle" /\ req'[q].change = i
  BY <1>1, <1>4, <1>6, <1>15
<1>21. \A i \in (Len(changes) + 1)..Len(changes') : InProgress(i)'
  <2>1. InProgress(n)'
    BY <1>10, <1>14 DEF InProgress
  <2>2. \A i \in (Len(changes) + 1)..Len(changes') : i = n
    BY <1>6, <1>7, <1>11
  <2>3. QED
    BY <2>1, <2>2
<1>22. cut' = cut /\ backup' = backup
  BY <1>3
<1>23. QED
  BY <1>3, <1>12, <1>13, <1>18, <1>19, <1>20, <1>21, <1>22, Keeps

LEMMA AnswerKeeps ==
  ASSUME IInv, NEW r \in Requests, Answer(r)
  PROVE  IInv'
<1>1. PICK l \in Local : l = req[r]
  BY DEF IInv, TypeOK
<1>2. RightRequest(r)
  BY DEF IInv
<1>3. PICK version : version = IF l.op = "rotate" THEN l.seen ELSE None
  OBVIOUS
<1>4. /\ pc[r] = "answering" /\ ~Raises(r)
      /\ log' = Append(log, EntryOf(l.change, version))
      /\ pc' = [pc EXCEPT ![r] = "idle"] /\ req' = [req EXCEPT ![r] = NoLocal]
      /\ UNCHANGED <<workload, keys, changes, run, backup, cut>>
  BY <1>1, <1>3 DEF Answer, EndRequest
<1>5. /\ l.change \in 1..Len(changes) /\ changes[l.change].by = r
      /\ changes[l.change].key = l.key /\ ~Logged(l.change)
  BY <1>1, <1>2, <1>4 DEF RightRequest, Owes
<1>6. version \in Nat \cup {None}
  BY <1>1, <1>3 DEF Local
<1>7. version # None => \E j \in l.change..Len(changes) : Rotates(j, l.key, version)
  BY <1>1, <1>2, <1>3, <1>4 DEF RightRequest
<1>8. r \in Actors /\ r \notin Crons
  BY ActorsAssumption DEF Actors
<1>9. /\ log' \in Seq(Entry) /\ Logged(l.change)'
      /\ Grows({r}) /\ ChangesRight' /\ EntriesTellTheTruth'
  BY <1>4, <1>5, <1>6, <1>7, <1>8, LogRight DEF IInv
<1>10. TypeOK'
  BY <1>4, <1>9, NoLocalLocal DEF IInv, TypeOK
<1>11. pc'[r] = "idle" /\ \A q \in Requests : q # r => pc'[q] = pc[q] /\ req'[q] = req[q]
  BY <1>4 DEF IInv, TypeOK
<1>12. \A q \in Requests :
         RightRequest(q)' \/ (q \notin {r} /\ pc'[q] = pc[q] /\ req'[q] = req[q])
  BY <1>11, IdleIsRight
<1>13. \A c \in Crons : c \notin {r} /\ run'[c] = run[c]
  BY <1>4, <1>8
<1>14. \A i \in 1..Len(changes) : \A q \in Requests :
         pc[q] # "idle" /\ req[q].change = i =>
           (pc'[q] # "idle" /\ req'[q].change = i) \/ Logged(i)'
  BY <1>1, <1>9, <1>11
<1>15. \A i \in (Len(changes) + 1)..Len(changes') : InProgress(i)'
  <2>1. Len(changes) \in Nat /\ changes' = changes
    BY <1>4, LengthsAreNumbers DEF IInv
  <2>2. QED
    BY <2>1
<1>16. cut' = cut /\ backup' = backup
  BY <1>4
<1>17. QED
  BY <1>9, <1>10, <1>12, <1>13, <1>14, <1>15, <1>16, Keeps

LEMMA RequestStepKeeps ==
  ASSUME IInv, NEW r \in Requests, RequestStep(r)
  PROVE  IInv'
  BY BeginKeeps, AbandonKeeps, CommitKeeps, RereadKeeps, AnswerKeeps, RaiseKeeps, FailKeeps
  DEF RequestStep

LEMMA AgeKeeps ==
  ASSUME IInv, NEW k \in Keys, Age(k)
  PROVE  IInv'
<1>1. Grows({}) /\ ChangesRight' /\ EntriesTellTheTruth'
  BY AgeGrows DEF IInv
<1>2. UNCHANGED <<workload, changes, log, pc, req, run, backup, cut>>
  BY DEF Age
<1>3. TypeOK'
  BY <1>2, AgeRow DEF IInv, TypeOK
<1>4. Len(changes) \in Nat
  BY LengthsAreNumbers DEF IInv
<1>5. /\ \A r \in Requests : r \notin {} /\ pc'[r] = pc[r] /\ req'[r] = req[r]
      /\ \A c \in Crons : c \notin {} /\ run'[c] = run[c]
      /\ \A i \in (Len(changes) + 1)..Len(changes') : InProgress(i)'
  BY <1>2, <1>4
<1>6. QED
  BY <1>1, <1>2, <1>3, <1>5, Keeps

-----------------------------------------------------------------------------
(* The rotation job. *)

LEMMA NoRunIsRight ==
  ASSUME TypeOK', NEW c \in Crons, run'[c] = NoRun
  PROVE  RightRun(c)'
<1>1. Len(changes') \in Nat
  BY LenProperties DEF TypeOK
<1>2. QED
  BY <1>1, NoRunRun DEF RightRun

\* The end of a run whose changes are cut off or have an excuse.
LEMMA RunEndsKeeps ==
  ASSUME IInv, NEW c \in Crons, SetRun(c, NoRun), UNCHANGED <<keys, changes, log>>,
         cut' \subseteq Nat, cut \subseteq cut',
         \A i \in run[c].made : i \in cut' \/ Excused(i)
  PROVE  IInv'
<1>1. run' = [run EXCEPT ![c] = NoRun] /\ UNCHANGED <<workload, pc, req, backup>>
  BY DEF SetRun
<1>2. TypeOK' /\ run'[c] = NoRun
  BY <1>1, NoRunRun DEF IInv, TypeOK
<1>3. RightRun(c)'
  BY <1>2, NoRunIsRight
<1>4. QED
  BY <1>1, <1>3, NoRunRun, QuietRunKeeps

LEMMA CronFailsKeeps ==
  ASSUME IInv, NEW c \in Crons, CronFails(c)
  PROVE  IInv'
<1>1. run[c].made \subseteq Nat /\ cut \subseteq Nat
  BY DEF IInv, TypeOK, Run
<1>2. cut' = cut \cup run[c].made
  BY DEF CronFails, CutOff
<1>3. cut' \subseteq Nat /\ cut \subseteq cut' /\ run[c].made \subseteq cut'
  BY <1>1, <1>2
<1>4. QED
  BY <1>3, RunEndsKeeps DEF CronFails

LEMMA ListDueKeeps ==
  ASSUME IInv, NEW c \in Crons, ListDue(c)
  PROVE  IInv'
<1>1. PICK due \in SUBSET Keys : due = {k \in Keys : Due(k)}
  OBVIOUS
<1>2. Len(changes) \in Nat
  BY LengthsAreNumbers DEF IInv
<1>3. PICK since \in Nat : since = Len(changes)
  BY <1>2
<1> DEFINE l == RunOf("rotating", due, None, 0, {}, since)
<1>4. /\ run[c].at = "idle" /\ run' = [run EXCEPT ![c] = l]
      /\ UNCHANGED <<workload, pc, req, backup, keys, changes, log, cut>>
  BY <1>1, <1>3 DEF ListDue, SetRun
<1>5. /\ l \in Run /\ l.at = "rotating" /\ l.due = due /\ l.made = {} /\ l.since = since
  BY DEF RunOf, Run
<1> HIDE DEF l
<1>6. run'[c] = l
  BY <1>4 DEF IInv, TypeOK
<1>7. \A k \in due : keys[k].state # "unborn" /\ Due(k)
  BY <1>1 DEF Due
<1>8. RightRun(c)'
  <2>1. \A k \in due : Pending(c, k)'
    BY <1>4, <1>7 DEF Pending, Due
  <2>2. since <= Len(changes')
    BY <1>2, <1>3, <1>4
  <2>3. QED
    BY <1>5, <1>6, <2>1, <2>2 DEF RightRun
<1>9. run[c].made = {}
  BY <1>4 DEF IInv, RightRun
<1>10. cut' \subseteq Nat /\ cut \subseteq cut'
  BY <1>4 DEF IInv, TypeOK
<1>11. QED
  BY <1>4, <1>5, <1>8, <1>9, <1>10, QuietRunKeeps

LEMMA FetchNextKeeps ==
  ASSUME IInv, NEW c \in Crons, NEW k \in Keys, FetchNext(c, k)
  PROVE  IInv'
<1>1. PICK l \in Run : l = run[c]
  BY DEF IInv, TypeOK
<1>2. keys[k].version \in Nat
  BY DEF IInv, TypeOK, KeyRow
<1>3. PICK ver \in Nat : ver = keys[k].version
  BY <1>2
<1> DEFINE m == RunOf("fetched", l.due \ {k}, k, ver, l.made, l.since)
<1>4. /\ l.at = "rotating" /\ k \in l.due
      /\ run' = [run EXCEPT ![c] = m]
      /\ UNCHANGED <<workload, pc, req, backup, keys, changes, log, cut>>
  BY <1>1, <1>3 DEF FetchNext, SetRun
<1>5. /\ m \in Run /\ m.at = "fetched" /\ m.due = l.due \ {k} /\ m.key = k /\ m.ver = ver
      /\ m.made = l.made /\ m.since = l.since
  BY DEF RunOf, Run
<1> HIDE DEF m
<1>6. run'[c] = m
  BY <1>4 DEF IInv, TypeOK
<1>7. RightRun(c)
  BY DEF IInv
<1>8. RightRun(c)'
  <2>1. \A q \in l.due : Pending(c, q)'
    BY <1>1, <1>4, <1>5, <1>6, <1>7 DEF RightRun, Pending, Due, Touched
  <2>2. \A i \in l.made : /\ Owes(c, i, changes[i].key)'
                          /\ changes'[i].key \notin l.due
    BY <1>1, <1>4, <1>7 DEF RightRun, Owes, Logged
  <2>3. l.since <= Len(changes')
    BY <1>1, <1>4, <1>7 DEF RightRun
  <2>4. keys'[k].version = ver /\ k \in Keys
    BY <1>3, <1>4
  <2>5. QED
    BY <1>4, <1>5, <1>6, <2>1, <2>2, <2>3, <2>4 DEF RightRun
<1>9. cut' \subseteq Nat /\ cut \subseteq cut'
  BY <1>4 DEF IInv, TypeOK
<1>10. \A i \in run[c].made : i \in m.made
  BY <1>1, <1>5
<1>11. QED
  BY <1>4, <1>5, <1>8, <1>9, <1>10, QuietRunKeeps

LEMMA RotateNextKeeps ==
  ASSUME IInv, NEW c \in Crons, RotateNext(c)
  PROVE  IInv'
<1> DEFINE new == Len(changes) + 1
<1>1. PICK l \in Run : l = run[c]
  BY DEF IInv, TypeOK
<1>2. RightRun(c)
  BY DEF IInv
<1>3. Len(changes) \in Nat /\ new \in Nat
  BY LengthsAreNumbers DEF IInv
<1>4. PICK n \in Nat : n = new
  BY <1>3
<1>5. PICK at \in {"appending", "rotating"} :
        at = IF l.due = {} THEN "appending" ELSE "rotating"
  OBVIOUS
<1> DEFINE m == RunOf(at, l.due, None, 0, l.made \cup {n}, l.since)
<1>6. /\ l.at = "fetched" /\ Transaction("rotate", l.key, l.ver, c)
      /\ run' = [run EXCEPT ![c] = m]
      /\ UNCHANGED <<workload, pc, req, backup, log, cut>>
  BY <1>1, <1>4, <1>5 DEF RotateNext, SetRun
<1>7. /\ l.key \in Keys /\ l.key \notin l.due /\ l.ver \in Nat /\ keys[l.key].state # "unborn"
      /\ l.since \in Nat /\ l.since <= Len(changes) /\ l.due \subseteq Keys
  BY <1>1, <1>2, <1>6 DEF RightRun, Pending, Run
<1>8. m \in Run /\ m.at = at /\ m.due = l.due /\ m.made = l.made \cup {n} /\ m.since = l.since
  BY DEF RunOf, Run
<1> HIDE DEF m
<1>9. "rotate" \in AllOps /\ "rotate" # "create" /\ c \in Actors /\ c \notin Requests
  BY ActorsAssumption DEF AllOps, RereadOps, Actors
<1>10. /\ keys' \in [Keys -> KeyRow]
       /\ changes' \in Seq(Change)
       /\ Len(changes') = n
       /\ \A i \in 1..Len(changes) : changes'[i] = changes[i]
       /\ changes'[n].key = l.key /\ changes'[n].by = c
       /\ \A q \in Keys : q # l.key => keys'[q] = keys[q]
  BY <1>4, <1>6, <1>7, <1>9, TransactionGrows DEF IInv
<1>11. Grows({c}) /\ ChangesRight' /\ EntriesTellTheTruth'
  BY <1>6, <1>7, <1>9, TransactionRight DEF IInv
<1>12. TypeOK'
  BY <1>6, <1>8, <1>10 DEF IInv, TypeOK
<1>13. run'[c] = m /\ \A d \in Crons : d # c => run'[d] = run[d]
  BY <1>6 DEF IInv, TypeOK
<1>14. n \in 1..Len(changes') /\ n \notin 1..Len(changes)
  BY <1>3, <1>4, <1>10
<1>15. \A i \in 1..Len(changes) : i \in 1..Len(changes')
  BY <1>3, <1>4, <1>10
<1>16. RightRun(c)'
  <2>1. ~Logged(n)'
    BY <1>6, <1>14 DEF Logged, IInv, EntriesTellTheTruth
  <2>2. ASSUME NEW i \in l.made
        PROVE  Owes(c, i, changes[i].key)' /\ changes'[i].key \notin l.due
    <3>1. i \in 1..Len(changes) /\ changes[i].by = c /\ ~Logged(i) /\ changes[i].key \notin l.due
      BY <1>1, <1>2 DEF RightRun, Owes
    <3>2. ~Logged(i)'
      BY <1>6, <3>1 DEF Logged
    <3>3. QED
      BY <1>10, <1>15, <3>1, <3>2 DEF Owes
  <2>3. Owes(c, n, changes[n].key)' /\ changes'[n].key \notin l.due
    BY <1>7, <1>10, <1>14, <2>1 DEF Owes
  <2>4. ASSUME NEW k \in l.due
        PROVE  Pending(c, k)'
    <3>1. k \in Keys /\ k # l.key /\ Pending(c, k)
      BY <1>1, <1>2, <1>7 DEF RightRun
    <3>2. keys'[k] = keys[k]
      BY <1>10, <3>1
    <3>3. CASE Due(k)
      BY <3>1, <3>2, <3>3 DEF Pending, Due
    <3>4. CASE Touched(c, k, l.since)
      <4>1. PICK j \in (l.since + 1)..Len(changes) : changes[j].key = k /\ changes[j].by # c
        BY <3>4 DEF Touched
      <4>2. j \in 1..Len(changes) /\ j \in (l.since + 1)..Len(changes')
        BY <1>3, <1>4, <1>7, <1>10
      <4>3. Touched(c, k, l.since)'
        BY <1>10, <4>1, <4>2 DEF Touched
      <4>4. QED
        BY <1>8, <1>13, <3>1, <3>2, <4>3 DEF Pending, Touched
    <3>5. QED
      BY <1>1, <3>1, <3>3, <3>4 DEF Pending
  <2>5. l.since <= Len(changes')
    BY <1>3, <1>4, <1>7, <1>10
  <2>6. at # "fetched" /\ at # "idle"
    OBVIOUS
  <2>7. \A i \in m.made : Owes(c, i, changes[i].key)' /\ changes'[i].key \notin l.due
    BY <1>8, <2>2, <2>3
  <2>8. QED
    BY <1>8, <1>13, <2>4, <2>5, <2>6, <2>7 DEF RightRun
<1>17. \A r \in Requests : r \notin {c} /\ pc'[r] = pc[r] /\ req'[r] = req[r]
  BY <1>6, <1>9
<1>18. \A d \in Crons : RightRun(d)' \/ (d \notin {c} /\ run'[d] = run[d])
  BY <1>13, <1>16
<1>19. \A i \in 1..Len(changes) : \A d \in Crons : i \in run[d].made => i \in run'[d].made
  BY <1>1, <1>8, <1>13
<1>20. \A i \in (Len(changes) + 1)..Len(changes') : InProgress(i)'
  <2>1. InProgress(n)'
    BY <1>8, <1>13 DEF InProgress
  <2>2. \A i \in (Len(changes) + 1)..Len(changes') : i = n
    BY <1>3, <1>4, <1>10
  <2>3. QED
    BY <2>1, <2>2
<1>21. cut' = cut /\ backup' = backup
  BY <1>6
<1>22. QED
  BY <1>11, <1>12, <1>17, <1>18, <1>19, <1>20, <1>21, Keeps

\* The key that ended the run was rotated or destroyed by another actor, and is
\* none of those that the run rotated.
LEMMA AbortBatchKeeps ==
  ASSUME IInv, NEW c \in Crons, AbortBatch(c)
  PROVE  IInv'
<1> DEFINE l == run[c]
<1>1. /\ \/ l.at = "rotating" /\ \E k \in l.due : ~Live(k)
         \/ l.at = "fetched" /\ ~Commits("rotate", l.key, l.ver)
      /\ SetRun(c, NoRun) /\ UNCHANGED <<keys, changes, log, cut>>
  BY DEF AbortBatch
<1>2. RightRun(c) /\ ChangesRight
  BY DEF IInv
<1>3. l.due \subseteq Keys
  BY DEF IInv, TypeOK, Run
<1>4. ASSUME NEW k \in Keys, keys[k].state # "unborn", ~Live(k)
      PROVE  \E j \in 1..Len(changes) :
               Destroys(j, changes[j].key) /\ changes[j].key = k /\ changes[j].by # c
  <2>1. keys[k].state = "destroyed"
    BY <1>4 DEF IInv, TypeOK, KeyRow, Live
  <2>2. PICK j \in 1..Len(changes) : Destroys(j, k)
    BY <1>2, <2>1 DEF ChangesRight
  <2>3. changes[j].by \notin Crons
    BY <1>2, <2>2 DEF ChangesRight, Destroys
  <2>4. QED
    BY <2>2, <2>3 DEF Destroys
<1>5. PICK k \in Keys, j \in 1..Len(changes) :
        /\ \A i \in l.made : changes[i].key # k
        /\ changes[j].key = k /\ changes[j].by # c
        /\ changes[j].op = "rotate" \/ Destroys(j, changes[j].key)
  <2>1. CASE l.at = "rotating" /\ \E k \in l.due : ~Live(k)
    <3>1. PICK k \in l.due : ~Live(k)
      BY <2>1
    <3>2. k \in Keys /\ keys[k].state # "unborn" /\ \A i \in l.made : changes[i].key # k
      BY <1>2, <1>3, <3>1 DEF RightRun, Pending
    <3>3. QED
      BY <1>4, <3>1, <3>2
  <2>2. CASE l.at = "fetched" /\ ~Commits("rotate", l.key, l.ver)
    <3>1. /\ l.key \in Keys /\ keys[l.key].state # "unborn"
          /\ \A i \in l.made : changes[i].key # l.key
      BY <1>2, <2>2 DEF RightRun, Pending
    <3>2. ~Live(l.key) \/ keys[l.key].version # l.ver
      BY <2>2 DEF Commits
    <3>3. CASE ~Live(l.key)
      BY <1>4, <3>1, <3>3
    <3>4. CASE keys[l.key].version # l.ver
      <4>1. PICK j \in 1..Len(changes) :
              changes[j].op = "rotate" /\ changes[j].key = l.key /\ changes[j].by # c
        BY <1>2, <2>2, <3>4 DEF RightRun
      <4>2. QED
        BY <3>1, <4>1
    <3>5. QED
      BY <3>2, <3>3, <3>4
  <2>3. QED
    BY <1>1, <2>1, <2>2
<1>6. ASSUME NEW i \in l.made PROVE Excused(i)
  <2>1. changes[i].by = c
    BY <1>2 DEF RightRun, Owes
  <2>2. QED
    BY <1>5, <2>1 DEF Excused
<1>7. cut' \subseteq Nat /\ cut \subseteq cut'
  BY <1>1 DEF IInv, TypeOK
<1>8. QED
  BY <1>1, <1>6, <1>7, RunEndsKeeps

LEMMA AppendNextKeeps ==
  ASSUME IInv, NEW c \in Crons, NEW i \in run[c].made, AppendNext(c, i)
  PROVE  IInv'
<1>1. PICK l \in Run : l = run[c]
  BY DEF IInv, TypeOK
<1>2. RightRun(c)
  BY DEF IInv
<1> DEFINE rest == RunOf("appending", {}, None, 0, l.made \ {i}, l.since)
<1>3. /\ rest \in Run /\ rest.at = "appending" /\ rest.due = {}
      /\ rest.made = l.made \ {i} /\ rest.since = l.since
  BY DEF RunOf, Run
<1> HIDE DEF rest
<1>4. PICK m \in Run : m = IF l.made = {i} THEN NoRun ELSE rest
  BY <1>3, NoRunRun
<1>5. /\ l.at = "appending" /\ log' = Append(log, EntryOf(i, None))
      /\ run' = [run EXCEPT ![c] = m]
      /\ UNCHANGED <<workload, keys, changes, pc, req, backup, cut>>
  BY <1>1, <1>4 DEF AppendNext, SetRun, rest
<1>6. i \in 1..Len(changes) /\ changes[i].by = c /\ ~Logged(i)
  BY <1>1, <1>2 DEF RightRun, Owes
<1>7. c \in Actors /\ c \notin Requests /\ None \in Nat \cup {None}
  BY ActorsAssumption DEF Actors
<1>8. /\ log' \in Seq(Entry) /\ Logged(i)'
      /\ Grows({c}) /\ ChangesRight' /\ EntriesTellTheTruth'
      /\ \A q \in 1..Len(changes) : q # i /\ ~Logged(q) => ~Logged(q)'
  BY <1>5, <1>6, <1>7, LogRight DEF IInv
<1>9. TypeOK'
  BY <1>5, <1>8 DEF IInv, TypeOK
<1>10. run'[c] = m /\ \A d \in Crons : d # c => run'[d] = run[d]
  BY <1>5 DEF IInv, TypeOK
<1>11. \A q \in m.made : q \in l.made /\ q # i
  BY <1>3, <1>4, NoRunRun
<1>12. \A q \in l.made : q # i => q \in m.made
  BY <1>3, <1>4
<1>13. RightRun(c)'
  <2>1. CASE l.made = {i}
    BY <1>4, <1>9, <1>10, <2>1, NoRunIsRight
  <2>2. CASE l.made # {i}
    <3>1. m = rest
      BY <1>4, <2>2
    <3>2. l.since <= Len(changes')
      BY <1>1, <1>2, <1>5 DEF RightRun
    <3>3. ASSUME NEW q \in m.made
          PROVE  Owes(c, q, changes[q].key)'
      <4>1. q \in 1..Len(changes) /\ changes[q].by = c /\ ~Logged(q) /\ q # i
        BY <1>1, <1>2, <1>11 DEF RightRun, Owes
      <4>2. ~Logged(q)'
        BY <1>8, <4>1
      <4>3. QED
        BY <1>5, <4>1, <4>2 DEF Owes
    <3>4. QED
      BY <1>3, <1>10, <3>1, <3>2, <3>3 DEF RightRun
  <2>3. QED
    BY <2>1, <2>2
<1>14. \A r \in Requests : r \notin {c} /\ pc'[r] = pc[r] /\ req'[r] = req[r]
  BY <1>5, <1>7
<1>15. \A d \in Crons : RightRun(d)' \/ (d \notin {c} /\ run'[d] = run[d])
  BY <1>10, <1>13
<1>16. \A q \in 1..Len(changes) : \A d \in Crons :
         q \in run[d].made => q \in run'[d].made \/ Logged(q)'
  BY <1>1, <1>8, <1>10, <1>12
<1>17. \A q \in (Len(changes) + 1)..Len(changes') : InProgress(q)'
  <2>1. Len(changes) \in Nat /\ changes' = changes
    BY <1>5, LengthsAreNumbers DEF IInv
  <2>2. QED
    BY <2>1
<1>18. cut' = cut /\ backup' = backup
  BY <1>5
<1>19. QED
  BY <1>8, <1>9, <1>14, <1>15, <1>16, <1>17, <1>18, Keeps

LEMMA CronStepKeeps ==
  ASSUME IInv, NEW c \in Crons, CronStep(c)
  PROVE  IInv'
  BY ListDueKeeps, FetchNextKeeps, RotateNextKeeps, AbortBatchKeeps, AppendNextKeeps,
     CronFailsKeeps
  DEF CronStep

-----------------------------------------------------------------------------
(* The backup tool. *)

LEMMA SetBackupKeeps ==
  ASSUME IInv, NEW b \in Backup, SetBackup(b),
         b.snapshot = None
           \/ b.snapshot = backup.snapshot
           \/ b.snapshot = [changes |-> Len(changes), log |-> Len(log)]
  PROVE  IInv'
<1>1. /\ backup' = b
      /\ UNCHANGED <<workload, keys, changes, log, pc, req, run, cut>>
  BY DEF SetBackup
<1>2. TypeOK'
  BY <1>1 DEF IInv, TypeOK
<1>3. Grows({}) /\ ChangesRight' /\ EntriesTellTheTruth'
  BY <1>1, QuietGrows DEF IInv
<1>4. Len(changes) \in Nat /\ Len(log) \in Nat
  BY LengthsAreNumbers DEF IInv
<1>5. SnapshotRight'
  <2>1. CASE b.snapshot = None \/ b.snapshot = backup.snapshot
    BY <1>1, <2>1 DEF IInv, SnapshotRight
  <2>2. CASE b.snapshot = [changes |-> Len(changes), log |-> Len(log)]
    <3>1. \A n \in 1..Len(log) : log[n].change \in 1..Len(changes)
      BY DEF IInv, EntriesTellTheTruth
    <3>2. \A n \in 1..Len(log) : log[n].change <= Len(changes)
      BY <1>4, <3>1
    <3>3. b.snapshot.changes = Len(changes) /\ b.snapshot.log = Len(log)
      BY <2>2
    <3>4. QED
      BY <1>1, <1>4, <3>2, <3>3 DEF SnapshotRight
  <2>3. QED
    BY <2>1, <2>2
<1>6. /\ \A r \in Requests : r \notin {} /\ pc'[r] = pc[r] /\ req'[r] = req[r]
      /\ \A c \in Crons : c \notin {} /\ run'[c] = run[c]
      /\ \A i \in (Len(changes) + 1)..Len(changes') : InProgress(i)'
  BY <1>1, <1>4
<1>7. QED
  BY <1>1, <1>2, <1>3, <1>5, <1>6, Keeps

LEMMA BackupOfBackup ==
  ASSUME NEW at \in {"idle", "removed", "copied"},
         NEW snapshot \in [changes : Nat, log : Nat] \cup {None},
         NEW manifest \in Nat \cup {None}
  PROVE  /\ BackupOf(at, snapshot, manifest) \in Backup
         /\ BackupOf(at, snapshot, manifest).snapshot = snapshot
  BY DEF BackupOf, Backup

LEMMA BackupStepKeeps ==
  ASSUME IInv, BackupStep
  PROVE  IInv'
<1>1. /\ backup.snapshot \in [changes : Nat, log : Nat] \cup {None}
      /\ backup.manifest \in Nat \cup {None}
      /\ None \in [changes : Nat, log : Nat] \cup {None} /\ None \in Nat \cup {None}
  BY DEF IInv, TypeOK, Backup
<1>2. /\ Len(log) \in Nat \cup {None}
      /\ [changes |-> Len(changes), log |-> Len(log)] \in [changes : Nat, log : Nat] \cup {None}
  BY LengthsAreNumbers DEF IInv
<1>3. CASE RemoveOldSnapshot
  <2> DEFINE b == BackupOf("removed", None, backup.manifest)
  <2>1. b \in Backup /\ b.snapshot = None
    BY <1>1, BackupOfBackup
  <2>2. SetBackup(b)
    BY <1>3 DEF RemoveOldSnapshot
  <2> HIDE DEF b
  <2>3. QED
    BY <2>1, <2>2, SetBackupKeeps
<1>4. CASE Snapshot
  <2> DEFINE shot == [changes |-> Len(changes), log |-> Len(log)]
             b == BackupOf("copied", shot, backup.manifest)
  <2>1. b \in Backup /\ b.snapshot = shot
    BY <1>1, <1>2, BackupOfBackup
  <2>2. SetBackup(b)
    BY <1>4 DEF Snapshot
  <2> HIDE DEF b
  <2>3. QED
    BY <2>1, <2>2, SetBackupKeeps
<1>5. CASE WriteManifest
  <2> DEFINE b == BackupOf("idle", backup.snapshot, Len(log))
  <2>1. b \in Backup /\ b.snapshot = backup.snapshot
    BY <1>1, <1>2, BackupOfBackup
  <2>2. SetBackup(b)
    BY <1>5 DEF WriteManifest
  <2> HIDE DEF b
  <2>3. QED
    BY <2>1, <2>2, SetBackupKeeps
<1>6. CASE BackupDies
  <2> DEFINE b == BackupOf("idle", backup.snapshot, backup.manifest)
             d == BackupOf("idle", backup.snapshot, None)
  <2>1. b \in Backup /\ b.snapshot = backup.snapshot
    BY <1>1, BackupOfBackup
  <2>2. d \in Backup /\ d.snapshot = backup.snapshot
    BY <1>1, BackupOfBackup
  <2>3. SetBackup(b) \/ SetBackup(d)
    BY <1>6 DEF BackupDies
  <2> HIDE DEF b, d
  <2>4. QED
    BY <2>1, <2>2, <2>3, SetBackupKeeps
<1>7. QED
  BY <1>3, <1>4, <1>5, <1>6 DEF BackupStep

-----------------------------------------------------------------------------
(* The theorems. *)

LEMMA InitIInv ==
  ASSUME Init
  PROVE  IInv
<1>1. keys \in [Keys -> KeyRow]
  <2>1. \A k \in Keys : KeyOf("enabled", 1, TRUE, FALSE) \in KeyRow
    BY DEF KeyOf, KeyRow, LiveStates
  <2>2. \A k \in Keys : KeyOf("unborn", 0, FALSE, FALSE) \in KeyRow
    BY DEF KeyOf, KeyRow
  <2>3. QED
    BY <2>1, <2>2 DEF Init
<1>2. \A k \in Keys : keys[k].state # "destroyed"
  BY DEF Init, KeyOf
<1>3. backup.snapshot = None /\ backup \in Backup
  BY DEF Init, BackupOf, Backup
<1>4. /\ changes = <<>> /\ log = <<>> /\ cut = {} /\ workload \in Workloads
      /\ pc = [r \in Requests |-> "idle"] /\ req = [r \in Requests |-> NoLocal]
      /\ run = [c \in Crons |-> NoRun]
  BY DEF Init
<1>5. changes \in Seq(Change) /\ log \in Seq(Entry) /\ Len(changes) = 0 /\ Len(log) = 0
  BY <1>4, EmptySeq
<1>6. TypeOK
  BY <1>1, <1>3, <1>4, <1>5, NoLocalLocal, NoRunRun DEF TypeOK
<1>7. ChangesRight
  BY <1>2, <1>5 DEF ChangesRight
<1>8. \A r \in Requests : RightRequest(r)
  BY <1>4 DEF RightRequest
<1>9. \A c \in Crons : RightRun(c)
  BY <1>4, <1>5, NoRunRun DEF RightRun
<1>10. SnapshotRight
  BY <1>3 DEF SnapshotRight
<1>11. EntriesTellTheTruth
  BY <1>5 DEF EntriesTellTheTruth
<1>12. UnloggedIsExplained
  BY <1>5 DEF UnloggedIsExplained
<1>13. QED
  BY <1>6, <1>7, <1>8, <1>9, <1>10, <1>11, <1>12 DEF IInv

LEMMA NextIInv ==
  ASSUME IInv, [Next]_vars
  PROVE  IInv'
<1>1. CASE Next
  BY <1>1, AgeKeeps, RequestStepKeeps, CronStepKeeps, BackupStepKeeps DEF Next
<1>2. CASE UNCHANGED vars
  <2>1. UNCHANGED <<workload, keys, changes, log, pc, req, run, backup, cut>>
    BY <1>2 DEF vars
  <2>2. backup \in Backup /\ SetBackup(backup)
    BY <2>1 DEF IInv, TypeOK, SetBackup
  <2>3. QED
    BY <2>2, SetBackupKeeps
<1>3. QED
  BY <1>1, <1>2

\* The inductive invariant of every behaviour.
THEOREM Inductive == Spec => []IInv
<1>1. Init => IInv
  BY InitIInv
<1>2. IInv /\ [Next]_vars => IInv'
  BY NextIInv
<1>3. QED
  BY <1>1, <1>2, PTL DEF Spec

\* Every variable keeps its type: the handlers, the rotation job and the backup
\* tool write what the schema and the manifest's format allow.
THEOREM TypeCorrect == Spec => []TypeOK
<1>1. IInv => TypeOK
  BY DEF IInv
<1>2. QED
  BY <1>1, Inductive, PTL

\* The audit entries of the handlers and of the rotation job tell the truth,
\* whatever other operations run between a change and its entry.
THEOREM EntriesAlwaysTellTheTruth == Spec => []EntriesTellTheTruth
<1>1. IInv => EntriesTellTheTruth
  BY DEF IInv
<1>2. QED
  BY <1>1, Inductive, PTL

\* A change lacks its entry for one of three reasons only: a fault, a key
\* destroyed before its handler read it back, or a batch of rotations that
\* another actor's rotation or destruction ended.
THEOREM UnloggedIsAlwaysExplained == Spec => []UnloggedIsExplained
<1>1. IInv => UnloggedIsExplained
  BY DEF IInv
<1>2. QED
  BY <1>1, Inductive, PTL

\* A backup that passes its verification vouches for no entry whose change the
\* snapshot lacks, whenever the tool took the head and the snapshot.
THEOREM VerifiedBackupIsAlwaysComplete == Spec => []VerifiedBackupIsComplete
<1>1. IInv => VerifiedBackupIsComplete
  BY DEF IInv, SnapshotRight, Verifies, VerifiedBackupIsComplete
<1>2. QED
  BY <1>1, Inductive, PTL

\* The number and the actor of the change that a step adds.
LEMMA AddedBy ==
  ASSUME IInv, Next, NEW c \in Crons, Len(changes') > Len(changes),
         changes'[Len(changes')].by = c
  PROVE  RotateNext(c)
<1>1. Len(changes) \in Nat
  BY LengthsAreNumbers DEF IInv
<1>2. changes' # changes
  BY <1>1
<1>3. PICK actor \in Actors :
        \/ actor \in Requests /\ Commit(actor)
        \/ actor \in Crons /\ RotateNext(actor)
  BY <1>2 DEF Next, Age, RequestStep, Begin, Abandon, Reread, ReadBack, Answer, Raise, Fail,
     CronStep, ListDue, FetchNext, AbortBatch, AppendNext, CronFails, BackupStep,
     RemoveOldSnapshot, Snapshot, WriteManifest, BackupDies, SetBackup, Actors
<1>4. changes'[Len(changes')].by = actor
  <2>1. CASE actor \in Requests /\ Commit(actor)
    <3>1. RightRequest(actor) /\ pc[actor] = "fetched"
      BY <2>1 DEF IInv, Commit
    <3>2. /\ req[actor].op \in AllOps /\ req[actor].key \in Keys /\ req[actor].ver \in Nat
          /\ (req[actor].op # "create" => keys[req[actor].key].state # "unborn")
      BY <2>1, <3>1 DEF RightRequest, IInv, TypeOK, Local
    <3>3. Transaction(req[actor].op, req[actor].key, req[actor].ver, actor)
      BY <2>1 DEF Commit
    <3>4. QED
      BY <3>2, <3>3, TransactionGrows DEF IInv
  <2>2. CASE actor \in Crons /\ RotateNext(actor)
    <3>1. RightRun(actor) /\ run[actor].at = "fetched"
      BY <2>2 DEF IInv, RotateNext
    <3>2. /\ run[actor].key \in Keys /\ run[actor].ver \in Nat
          /\ keys[run[actor].key].state # "unborn"
      BY <2>2, <3>1 DEF RightRun, Pending, IInv, TypeOK, Run
    <3>3. Transaction("rotate", run[actor].key, run[actor].ver, actor)
      BY <2>2 DEF RotateNext
    <3>4. "rotate" \in AllOps
      BY DEF AllOps, RereadOps
    <3>5. QED
      BY <3>2, <3>3, <3>4, TransactionGrows DEF IInv
  <2>3. QED
    BY <1>3, <2>1, <2>2
<1>5. QED
  BY <1>3, <1>4, ActorsAssumption

\* The rotation job rotates a key that is not due only when another actor
\* changed the key after the job listed it.
THEOREM EarlyRotationsAreAlwaysRaces == Spec => EarlyRotationsAreRaces
<1> DEFINE Early(c) ==
      LET n == Len(changes')
          k == changes'[n].key
          dueNow == keys[k].state = "enabled" /\ keys[k].policy /\ keys[k].aged IN
      n > Len(changes) /\ changes'[n].by = c =>
        \/ dueNow
        \/ \E j \in (run[c].since + 1)..Len(changes) :
             changes[j].key = k /\ changes[j].by # c
<1>1. ASSUME IInv, Next, NEW c \in Crons, Len(changes') > Len(changes),
             changes'[Len(changes')].by = c
      PROVE  \/ Due(changes'[Len(changes')].key)
             \/ Touched(c, changes'[Len(changes')].key, run[c].since)
  <2>1. RotateNext(c)
    BY <1>1, AddedBy
  <2>2. RightRun(c) /\ run[c].at = "fetched"
    BY <1>1, <2>1 DEF IInv, RotateNext
  <2>3. Pending(c, run[c].key) /\ run[c].key \in Keys /\ run[c].ver \in Nat
    BY <1>1, <2>2 DEF RightRun, IInv, TypeOK, Run
  <2>4. Transaction("rotate", run[c].key, run[c].ver, c) /\ "rotate" \in AllOps /\ c \in Actors
    BY <2>1 DEF RotateNext, AllOps, RereadOps, Actors
  <2>5. changes'[Len(changes')].key = run[c].key
    BY <1>1, <2>3, <2>4, TransactionGrows DEF IInv, Pending
  <2>6. QED
    BY <2>3, <2>5 DEF Pending
<1>2. ASSUME IInv, Next, NEW c \in Crons
      PROVE  Early(c)
  BY <1>1, <1>2 DEF Due, Touched
<1>3. IInv /\ [Next]_vars => [\A c \in Crons : Early(c)]_vars
  BY <1>2
<1>4. QED
  BY <1>3, Inductive, PTL DEF Spec, EarlyRotationsAreRaces

-----------------------------------------------------------------------------
(* The keys as a vault. *)

\* The numbers of the changes are those of the workload, a key has no version
\* before it is created and at most one more than there are changes, and no
\* change made a version that its key has not reached.
VersionsRight ==
  /\ Len(changes) <= workload.bound
  /\ \A k \in Keys : /\ keys[k].version <= Len(changes) + 1
                     /\ keys[k].state = "unborn" => keys[k].version = 0
  /\ \A i \in 1..Len(changes) :
       changes[i].op \in {"create", "rotate"} =>
         changes[i].version <= keys[changes[i].key].version

\* A key is changed by its age or by a transaction of a handler or of the job.
LEMMA StepChanges ==
  ASSUME IInv, [Next]_vars
  PROVE  /\ workload' = workload
         /\ \/ UNCHANGED <<keys, changes>>
            \/ \E k \in Keys : Age(k)
            \/ \E op \in AllOps, k \in Keys, v \in Nat, by \in Actors :
                 /\ Transaction(op, k, v, by)
                 /\ op # "create" => keys[k].state # "unborn"
<1>1. CASE \/ UNCHANGED vars
           \/ \E r \in Requests :
                \/ \E op \in AllOps, k \in Keys : Begin(r, op, k)
                \/ Abandon(r) \/ Reread(r) \/ Answer(r) \/ Raise(r) \/ Fail(r)
           \/ \E c \in Crons :
                \/ ListDue(c) \/ \E k \in Keys : FetchNext(c, k)
                \/ AbortBatch(c) \/ \E i \in run[c].made : AppendNext(c, i)
                \/ CronFails(c)
           \/ BackupStep
  BY <1>1
  DEF vars, Begin, Abandon, Reread, ReadBack, Answer, Raise, Fail, ListDue, FetchNext,
      AbortBatch, AppendNext, CronFails, SetRun, BackupStep, RemoveOldSnapshot, Snapshot,
      WriteManifest, BackupDies, SetBackup
<1>2. ASSUME NEW k \in Keys, Age(k)
      PROVE  workload' = workload
  BY <1>2 DEF Age
<1>3. ASSUME NEW r \in Requests, Commit(r)
      PROVE  /\ workload' = workload
             /\ \E op \in AllOps, k \in Keys, v \in Nat, by \in Actors :
                  /\ Transaction(op, k, v, by)
                  /\ op # "create" => keys[k].state # "unborn"
  <2>1. RightRequest(r) /\ pc[r] = "fetched" /\ r \in Actors
    BY <1>3 DEF IInv, Commit, Actors
  <2>2. /\ req[r].op \in AllOps /\ req[r].key \in Keys /\ req[r].ver \in Nat
        /\ (req[r].op # "create" => keys[req[r].key].state # "unborn")
    BY <2>1 DEF RightRequest, IInv, TypeOK, Local
  <2>3. /\ Transaction(req[r].op, req[r].key, req[r].ver, r)
        /\ workload' = workload
    BY <1>3 DEF Commit
  <2>4. QED
    BY <2>1, <2>2, <2>3
<1>4. ASSUME NEW c \in Crons, RotateNext(c)
      PROVE  /\ workload' = workload
             /\ \E op \in AllOps, k \in Keys, v \in Nat, by \in Actors :
                  /\ Transaction(op, k, v, by)
                  /\ op # "create" => keys[k].state # "unborn"
  <2>1. RightRun(c) /\ run[c].at = "fetched" /\ c \in Actors
    BY <1>4 DEF IInv, RotateNext, Actors
  <2>2. /\ run[c].key \in Keys /\ run[c].ver \in Nat
        /\ keys[run[c].key].state # "unborn"
    BY <2>1 DEF RightRun, Pending, IInv, TypeOK, Run
  <2>3. /\ Transaction("rotate", run[c].key, run[c].ver, c) /\ "rotate" \in AllOps
        /\ workload' = workload
    BY <1>4 DEF RotateNext, SetRun, AllOps, RereadOps
  <2>4. QED
    BY <2>1, <2>2, <2>3
<1>5. QED
  BY <1>1, <1>2, <1>3, <1>4 DEF Next, RequestStep, CronStep

\* What each kind of transaction does to the row of its key.
LEMMA TransactionOnKey ==
  ASSUME TypeOK, NEW op \in AllOps, NEW k \in Keys, NEW v \in Nat, NEW by \in Actors,
         Transaction(op, k, v, by), op # "create" => keys[k].state # "unborn"
  PROVE  /\ Len(changes) < workload.bound
         /\ op = "create" => keys'[k].state = "enabled"
         /\ op = "rotate" => Live(k) /\ Live(k)'
         /\ op \in {"create", "rotate"} => keys'[k].version = keys[k].version + 1
         /\ op \in {"destroy", "force_destroy"} /\ Live(k) => keys'[k].state = "destroyed"
         /\ op \notin {"create", "destroy", "force_destroy"} /\ Live(k) => Live(k)'
<1> DEFINE done == op = "create" \/ Live(k)
           row == IF done THEN Updated(op, keys[k]) ELSE keys[k]
<1>1. keys[k] \in KeyRow /\ keys[k].version \in Nat
  BY DEF TypeOK, KeyRow
<1>2. keys' = [keys EXCEPT ![k] = row] /\ Commits(op, k, v) /\ Room
  BY DEF Transaction
<1>3. done => row.state = NewState(op, keys[k].state)
  BY <1>1, UpdatedRow
<1>4. done => row.version = IF op \in {"create", "rotate"} THEN keys[k].version + 1
                            ELSE keys[k].version
  BY <1>1, UpdatedRow
<1>5. op = "rotate" => Live(k)
  BY <1>2 DEF Commits
<1>6. Live(k) => done
  OBVIOUS
<1>7. op = "create" => done
  OBVIOUS
<1> HIDE DEF row, done
<1>8. keys'[k] = row
  BY <1>2 DEF TypeOK
<1>9. op = "create" => keys'[k].state = "enabled"
  BY <1>3, <1>7, <1>8 DEF NewState
<1>10. op \in {"create", "rotate"} => keys'[k].version = keys[k].version + 1
  BY <1>4, <1>5, <1>6, <1>7, <1>8
<1>11. op \in {"destroy", "force_destroy"} /\ Live(k) => keys'[k].state = "destroyed"
  BY <1>3, <1>6, <1>8 DEF NewState
<1>12. op \notin {"create", "destroy", "force_destroy"} /\ Live(k) => Live(k)'
  <2>1. ASSUME op \notin {"create", "destroy", "force_destroy"}, Live(k)
        PROVE  NewState(op, keys[k].state) \in LiveStates
    BY <2>1 DEF NewState, Live, LiveStates
  <2>2. QED
    BY <1>3, <1>6, <1>8, <2>1 DEF Live
<1>13. QED
  BY <1>2, <1>5, <1>9, <1>10, <1>11, <1>12 DEF Room

LEMMA InitVersions ==
  ASSUME Init
  PROVE  VersionsRight
<1>1. Len(changes) = 0 /\ workload.bound \in Nat
  BY WorkloadsAssumption DEF Init, Workload
<1>2. \A k \in Keys : /\ keys[k].version \in {0, 1}
                      /\ keys[k].state = "unborn" => keys[k].version = 0
  BY DEF Init, KeyOf
<1>3. QED
  BY <1>1, <1>2 DEF VersionsRight

LEMMA NextVersions ==
  ASSUME IInv, VersionsRight, [Next]_vars
  PROVE  VersionsRight'
<1>1. Len(changes) \in Nat /\ \A k \in Keys : keys[k].version \in Nat
  BY LengthsAreNumbers DEF IInv, TypeOK, KeyRow
<1>2. workload' = workload
  BY StepChanges
<1>3. CASE UNCHANGED <<keys, changes>>
  BY <1>2, <1>3 DEF VersionsRight
<1>4. ASSUME NEW k \in Keys, Age(k)
      PROVE  VersionsRight'
  <2>1. /\ changes' = changes
        /\ \A q \in Keys : keys'[q].state = keys[q].state /\ keys'[q].version = keys[q].version
    BY <1>4, AgeRow DEF IInv, Age
  <2>2. \A i \in 1..Len(changes) : changes[i].key \in Keys
    BY ChangesTyped DEF IInv
  <2>3. QED
    BY <1>2, <2>1, <2>2 DEF VersionsRight
<1>5. ASSUME NEW op \in AllOps, NEW k \in Keys, NEW v \in Nat, NEW by \in Actors,
             Transaction(op, k, v, by), op # "create" => keys[k].state # "unborn"
      PROVE  VersionsRight'
  <2>1. /\ Len(changes') = Len(changes) + 1
        /\ \A i \in 1..Len(changes) : changes'[i] = changes[i]
        /\ changes'[Len(changes) + 1].key = k
        /\ changes'[Len(changes) + 1].version = keys'[k].version
        /\ \A q \in Keys : q # k => keys'[q] = keys[q]
        /\ keys'[k].state # "unborn"
        /\ op \notin {"create", "rotate"} => keys'[k].version = keys[k].version
    BY <1>5, TransactionGrows DEF IInv
  <2>2. /\ Len(changes) < workload.bound
        /\ op \in {"create", "rotate"} => keys'[k].version = keys[k].version + 1
    BY <1>5, TransactionOnKey DEF IInv
  <2>3. \A q \in Keys : keys[q].version <= keys'[q].version /\ keys'[q].version \in Nat
    BY <1>1, <2>1, <2>2
  <2>4. workload.bound \in Nat
    BY WorkloadsAssumption DEF IInv, TypeOK, Workload
  <2>5. Len(changes') <= workload'.bound
    BY <1>1, <1>2, <2>1, <2>2, <2>4
  <2>6. ASSUME NEW q \in Keys
        PROVE  /\ keys'[q].version <= Len(changes') + 1
               /\ keys'[q].state = "unborn" => keys'[q].version = 0
    <3>1. /\ keys[q].version <= Len(changes) + 1
          /\ keys[q].state = "unborn" => keys[q].version = 0
      BY DEF VersionsRight
    <3>2. CASE q # k
      BY <1>1, <2>1, <3>1, <3>2
    <3>3. CASE q = k
      BY <1>1, <2>1, <2>2, <3>1, <3>3
    <3>4. QED
      BY <3>2, <3>3
  <2>7. ASSUME NEW i \in 1..Len(changes'), changes'[i].op \in {"create", "rotate"}
        PROVE  changes'[i].version <= keys'[changes'[i].key].version
    <3>1. CASE i \in 1..Len(changes)
      <4>1. /\ changes[i].version <= keys[changes[i].key].version
            /\ changes[i].key \in Keys /\ changes[i].version \in Nat
        BY <2>1, <2>7, <3>1, ChangesTyped DEF IInv, VersionsRight
      <4>2. QED
        BY <1>1, <2>1, <2>3, <3>1, <4>1
    <3>2. CASE i = Len(changes) + 1
      BY <2>1, <2>3, <3>2
    <3>3. QED
      BY <1>1, <2>1, <3>1, <3>2
  <2>8. QED
    BY <2>5, <2>6, <2>7 DEF VersionsRight
<1>6. QED
  BY <1>3, <1>4, <1>5, StepChanges

Phases    == [k \in Keys |-> IF Live(k) THEN "live" ELSE keys[k].state]
Currents  == [k \in Keys |-> IF Live(k) THEN keys[k].version ELSE 0]
MaterialOf(k) == [v \in Versions |->
                   IF Live(k) /\ v <= keys[k].version THEN Makers(k, v) ELSE None]
Materials == [k \in Keys |-> MaterialOf(k)]
NoUse     == [k \in Keys |-> [v \in Versions |-> 0]]

\* The new change makes the version that its key now has, if it creates or
\* rotates the key, and no other.
LEMMA MakersGrow ==
  ASSUME TypeOK, VersionsRight, NEW op \in AllOps, NEW k \in Keys, NEW v \in Nat,
         NEW by \in Actors, Transaction(op, k, v, by), op # "create" => keys[k].state # "unborn",
         NEW q \in Keys, NEW w \in Nat
  PROVE  /\ op \notin {"create", "rotate"} \/ q # k \/ w # keys'[k].version =>
              Makers(q, w)' = Makers(q, w)
         /\ op \in {"create", "rotate"} /\ q = k /\ w = keys'[k].version =>
              Makers(q, w)' = {Len(changes) + 1}
<1> DEFINE new == Len(changes) + 1
<1>1. Len(changes) \in Nat
  BY LengthsAreNumbers
<1>2. /\ Len(changes') = new
      /\ \A i \in 1..Len(changes) : changes'[i] = changes[i]
      /\ changes'[new].op = op
      /\ changes'[new].key = k
      /\ changes'[new].version = keys'[k].version
  BY TransactionGrows
<1>3. /\ \A i \in 1..new : i \in 1..Len(changes) \/ i = new
      /\ \A i \in 1..Len(changes) : i \in 1..new /\ i # new
      /\ new \in 1..new
  BY <1>1
<1>4. op \notin {"create", "rotate"} \/ q # k \/ w # keys'[k].version =>
        Makers(q, w)' = Makers(q, w)
  BY <1>2, <1>3 DEF Makers
<1>5. ASSUME op \in {"create", "rotate"}, q = k, w = keys'[k].version
      PROVE  Makers(q, w)' = {new}
  <2>1. keys'[k].version = keys[k].version + 1 /\ keys[k].version \in Nat
    BY <1>5, TransactionOnKey DEF TypeOK, KeyRow
  <2>2. ASSUME NEW i \in 1..Len(changes)
        PROVE  ~(/\ changes[i].op \in {"create", "rotate"} /\ changes[i].key = k
                 /\ changes[i].version = keys'[k].version)
    <3>1. changes[i].version \in Nat
      BY ChangesTyped
    <3>2. QED
      BY <2>1, <3>1 DEF VersionsRight
  <2>3. QED
    BY <1>2, <1>3, <1>5, <2>2 DEF Makers
<1>6. QED
  BY <1>4, <1>5

\* A transaction is one operation of the vault, or none.
LEMMA TransactionIsVaultStep ==
  ASSUME TypeOK, VersionsRight, workload' = workload, NEW op \in AllOps, NEW k \in Keys,
         NEW v \in Nat, NEW by \in Actors, Transaction(op, k, v, by),
         op # "create" => keys[k].state # "unborn"
  PROVE  \/ UNCHANGED <<Phases, Currents, Materials>>
         \/ /\ Phases[k] = "unborn"
            /\ Phases' = [Phases EXCEPT ![k] = "live"]
            /\ Currents' = [Currents EXCEPT ![k] = 1]
            /\ \E i \in ChangeNumbers : Materials' = [Materials EXCEPT ![k][1] = {i}]
         \/ /\ Phases[k] = "live" /\ Currents[k] + 1 \in Versions
            /\ Currents' = [Currents EXCEPT ![k] = Currents[k] + 1]
            /\ \E i \in ChangeNumbers :
                 Materials' = [Materials EXCEPT ![k][Currents[k] + 1] = {i}]
            /\ UNCHANGED Phases
         \/ /\ Phases[k] = "live"
            /\ Phases' = [Phases EXCEPT ![k] = "destroyed"]
            /\ Currents' = [Currents EXCEPT ![k] = 0]
            /\ Materials' = [Materials EXCEPT ![k] = [w \in Versions |-> None]]
<1> DEFINE new == Len(changes) + 1
<1>1. /\ Len(changes) \in Nat
      /\ workload \in Workloads /\ workload.bound \in Nat
      /\ \A q \in Keys : keys[q].version \in Nat
      /\ keys[k].state \in LiveStates \cup {"unborn", "destroyed"}
  BY LengthsAreNumbers, WorkloadsAssumption DEF TypeOK, Workload, KeyRow
<1>2. /\ \A q \in Keys : q # k => keys'[q] = keys[q]
      /\ op # "create" /\ ~Live(k) => keys'[k] = keys[k]
      /\ op \notin {"create", "rotate"} => keys'[k].version = keys[k].version
      /\ op = "create" => keys[k].state = "unborn"
  BY TransactionGrows
<1>3. /\ Len(changes) < workload.bound
      /\ op = "create" => keys'[k].state = "enabled"
      /\ op = "rotate" => Live(k) /\ Live(k)'
      /\ op \in {"create", "rotate"} => keys'[k].version = keys[k].version + 1
      /\ op \in {"destroy", "force_destroy"} /\ Live(k) => keys'[k].state = "destroyed"
      /\ op \notin {"create", "destroy", "force_destroy"} /\ Live(k) => Live(k)'
  BY TransactionOnKey
<1>4. /\ keys[k].version <= Len(changes) + 1
      /\ keys[k].state = "unborn" => keys[k].version = 0
  BY DEF VersionsRight
<1>5. Versions \subseteq Nat /\ Versions' = Versions
  BY WorkloadsAssumption DEF Versions, Workload
<1>6. new \in ChangeNumbers /\ keys[k].version + 1 \in Versions
  BY <1>1, <1>3, <1>4 DEF ChangeNumbers, Versions
<1>7. \A q \in Keys : \A w \in Versions :
        /\ op \notin {"create", "rotate"} \/ q # k \/ w # keys'[k].version =>
             Makers(q, w)' = Makers(q, w)
        /\ op \in {"create", "rotate"} /\ q = k /\ w = keys'[k].version =>
             Makers(q, w)' = {new}
  <2> SUFFICES ASSUME NEW q \in Keys, NEW w \in Nat
               PROVE  /\ op \notin {"create", "rotate"} \/ q # k \/ w # keys'[k].version =>
                           Makers(q, w)' = Makers(q, w)
                      /\ op \in {"create", "rotate"} /\ q = k /\ w = keys'[k].version =>
                           Makers(q, w)' = {new}
    BY <1>5
  <2>1. QED
    BY MakersGrow
<1>8. \A q \in Keys : q # k => Live(q)' = Live(q)
  BY <1>2 DEF Live
<1>9. \A q \in Keys : q # k => MaterialOf(q)' = MaterialOf(q)
  <2> SUFFICES ASSUME NEW q \in Keys, q # k PROVE MaterialOf(q)' = MaterialOf(q)
    OBVIOUS
  <2>1. \A w \in Versions : Makers(q, w)' = Makers(q, w)
    BY <1>7
  <2>2. keys'[q] = keys[q] /\ Live(q)' = Live(q)
    BY <1>2, <1>8
  <2>3. QED
    BY <1>5, <2>1, <2>2 DEF MaterialOf
<1>10. CASE op = "create"
  <2>1. ~Live(k) /\ Live(k)' /\ keys[k].state = "unborn" /\ keys'[k].version = 1
    BY <1>2, <1>3, <1>4, <1>10 DEF Live, LiveStates
  <2>2. MaterialOf(k)' = [MaterialOf(k) EXCEPT ![1] = {new}]
    <3>1. \A w \in Versions : MaterialOf(k)'[w] = IF w = 1 THEN {new} ELSE None
      <4>1. \A w \in Versions : MaterialOf(k)'[w] = IF w <= 1 THEN Makers(k, w)' ELSE None
        BY <1>5, <2>1 DEF MaterialOf
      <4>2. \A w \in Versions : w <= 1 <=> w = 1
        BY WorkloadsAssumption DEF Versions, Workload
      <4>3. \A w \in Versions : w = 1 => Makers(k, w)' = {new}
        BY <1>7, <1>10, <2>1
      <4>4. QED
        BY <4>1, <4>2, <4>3
    <3>2. \A w \in Versions : MaterialOf(k)[w] = None
      BY <2>1 DEF MaterialOf
    <3>3. QED
      BY <1>5, <3>1, <3>2 DEF MaterialOf
  <2>3. Materials' = [Materials EXCEPT ![k][1] = {new}]
    BY <1>9, <2>2 DEF Materials
  <2>4. Phases[k] = "unborn" /\ Phases' = [Phases EXCEPT ![k] = "live"]
        /\ Currents' = [Currents EXCEPT ![k] = 1]
    BY <1>2, <1>8, <2>1 DEF Phases, Currents
  <2>5. QED
    BY <1>6, <2>3, <2>4
<1>11. CASE op = "rotate"
  <2>1. Live(k) /\ Live(k)' /\ keys'[k].version = keys[k].version + 1
    BY <1>3, <1>11
  <2>2. MaterialOf(k)' = [MaterialOf(k) EXCEPT ![keys[k].version + 1] = {new}]
    <3>1. ASSUME NEW w \in Versions
          PROVE  MaterialOf(k)'[w] =
                   IF w = keys[k].version + 1 THEN {new} ELSE MaterialOf(k)[w]
      <4>1. /\ MaterialOf(k)'[w] = IF w <= keys'[k].version THEN Makers(k, w)' ELSE None
            /\ MaterialOf(k)[w] = IF w <= keys[k].version THEN Makers(k, w) ELSE None
        BY <1>5, <2>1 DEF MaterialOf
      <4>2. Makers(k, w)' = IF w = keys[k].version + 1 THEN {new} ELSE Makers(k, w)
        BY <1>7, <1>11, <2>1
      <4>3. w \in Nat /\ keys[k].version \in Nat
        BY <1>1, <1>5
      <4>4. QED
        BY <2>1, <4>1, <4>2, <4>3
    <3>2. QED
      BY <1>5, <3>1 DEF MaterialOf
  <2>3. Currents[k] = keys[k].version
    BY <2>1 DEF Currents
  <2>4. Materials' = [Materials EXCEPT ![k][Currents[k] + 1] = {new}]
    BY <1>9, <2>2, <2>3 DEF Materials
  <2>5. Phases[k] = "live" /\ UNCHANGED Phases
        /\ Currents' = [Currents EXCEPT ![k] = Currents[k] + 1]
    BY <1>2, <1>8, <2>1 DEF Phases, Currents
  <2>6. QED
    BY <1>6, <2>3, <2>4, <2>5
<1>12. CASE op \in {"destroy", "force_destroy"} /\ Live(k)
  <2>1. ~Live(k)' /\ keys'[k].state = "destroyed"
    BY <1>3, <1>12 DEF Live, LiveStates
  <2>2. MaterialOf(k)' = [w \in Versions |-> None]
    BY <1>5, <2>1 DEF MaterialOf
  <2>3. Materials' = [Materials EXCEPT ![k] = [w \in Versions |-> None]]
    BY <1>9, <2>2 DEF Materials
  <2>4. Phases[k] = "live" /\ Phases' = [Phases EXCEPT ![k] = "destroyed"]
        /\ Currents' = [Currents EXCEPT ![k] = 0]
    BY <1>2, <1>8, <1>12, <2>1 DEF Phases, Currents
  <2>5. QED
    BY <2>3, <2>4
<1>13. CASE /\ op \notin {"create", "rotate"}
            /\ op \notin {"destroy", "force_destroy"} \/ ~Live(k)
  <2>1. /\ Live(k)' = Live(k) /\ keys'[k].version = keys[k].version
        /\ ~Live(k) => keys'[k] = keys[k]
    BY <1>2, <1>3, <1>13 DEF Live
  <2>2. MaterialOf(k)' = MaterialOf(k)
    BY <1>5, <1>7, <1>13, <2>1 DEF MaterialOf
  <2>3. Materials' = Materials
    BY <1>9, <2>2 DEF Materials
  <2>4. Phases' = Phases /\ Currents' = Currents
    BY <1>2, <1>8, <2>1 DEF Phases, Currents
  <2>5. QED
    BY <2>3, <2>4
<1>14. QED
  BY <1>10, <1>11, <1>12, <1>13

LEMMA NextVault ==
  ASSUME IInv, VersionsRight, [Next]_vars
  PROVE  [Vault!Next]_(Vault!vars)
<1> DEFINE Unseen == UNCHANGED <<Phases, Currents, Materials, NoUse>>
<1>1. workload' = workload /\ NoUse' = NoUse
  BY StepChanges DEF NoUse, Versions
<1>2. Unseen => [Vault!Next]_(Vault!vars)
  BY DEF Vault!vars, Phases, Currents, Materials, MaterialOf, NoUse
<1>3. CASE UNCHANGED <<keys, changes>>
  <2>1. Unseen
    BY <1>1, <1>3 DEF Phases, Currents, Materials, MaterialOf, Makers, Live
  <2>2. QED
    BY <1>2, <2>1
<1>4. ASSUME NEW k \in Keys, Age(k)
      PROVE  Unseen
  <2>1. /\ changes' = changes
        /\ \A q \in Keys : keys'[q].state = keys[q].state /\ keys'[q].version = keys[q].version
    BY <1>4, AgeRow DEF IInv, Age
  <2>2. \A q \in Keys : MaterialOf(q)' = MaterialOf(q) /\ Live(q)' = Live(q)
    BY <2>1 DEF MaterialOf, Makers, Live
  <2>3. QED
    BY <1>1, <2>1, <2>2 DEF Phases, Currents, Materials
<1>5. ASSUME NEW op \in AllOps, NEW k \in Keys, NEW v \in Nat, NEW by \in Actors,
             Transaction(op, k, v, by), op # "create" => keys[k].state # "unborn"
      PROVE  [Vault!Next]_(Vault!vars)
  <2>1. CASE UNCHANGED <<Phases, Currents, Materials>>
    BY <1>1, <1>2, <2>1
  <2>2. ASSUME Phases[k] = "unborn", Phases' = [Phases EXCEPT ![k] = "live"],
               Currents' = [Currents EXCEPT ![k] = 1], NEW i \in ChangeNumbers,
               Materials' = [Materials EXCEPT ![k][1] = {i}]
        PROVE  Vault!Create(k)
    BY <1>1, <2>2 DEF Vault!Create, Phases, Currents, Materials, MaterialOf, NoUse
  <2>3. ASSUME Phases[k] = "live", Currents[k] + 1 \in Versions, UNCHANGED Phases,
               Currents' = [Currents EXCEPT ![k] = Currents[k] + 1], NEW i \in ChangeNumbers,
               Materials' = [Materials EXCEPT ![k][Currents[k] + 1] = {i}]
        PROVE  Vault!Rotate(k)
    BY <1>1, <2>3 DEF Vault!Rotate, Phases, Currents, Materials, MaterialOf, NoUse
  <2>4. ASSUME Phases[k] = "live", Phases' = [Phases EXCEPT ![k] = "destroyed"],
               Currents' = [Currents EXCEPT ![k] = 0],
               Materials' = [Materials EXCEPT ![k] = [w \in Versions |-> None]]
        PROVE  Vault!Destroy(k)
    <3>1. NoUse = [NoUse EXCEPT ![k] = [w \in Versions |-> 0]]
      BY DEF NoUse
    <3>2. QED
      BY <1>1, <2>4, <3>1 DEF Vault!Destroy, Phases, Currents, Materials, MaterialOf, NoUse
  <2>5. QED
    BY <1>1, <1>5, <2>1, <2>2, <2>3, <2>4, TransactionIsVaultStep DEF IInv, Vault!Next
<1>6. QED
  BY <1>2, <1>3, <1>4, <1>5, StepChanges

\* Handlers, jobs and their overlaps only ever create, rotate and destroy whole
\* keys: each version of a key is made by one change, in its turn, and nothing
\* that works on a destroyed key brings anything back.
THEOREM AlwaysTakesVaultSteps == Spec => TakesVaultSteps
<1>1. Spec => [](IInv /\ VersionsRight)
  BY InitIInv, NextIInv, InitVersions, NextVersions, PTL DEF Spec
<1>2. IInv /\ VersionsRight /\ [Next]_vars =>
        [UNCHANGED <<keys, changes>> \/ Vault!Next]_(Vault!vars)
  BY NextVault
<1>3. QED
  BY <1>1, <1>2, PTL DEF Spec, TakesVaultSteps

-----------------------------------------------------------------------------
(* The log of the changes as an append-only log. *)

Ids   == [n \in 1..Len(log) |-> log[n].change]
Fate(i) == IF Logged(i) THEN "logged"
           ELSE IF i <= Len(changes) /\ ~InProgress(i) THEN "failed" ELSE "open"
Fates == [i \in ChangeNumbers |-> Fate(i)]

\* No change comes under way again: only what begins a change is in progress
\* with it, and it stays so until it ends.
NoneResumes == \A i \in 1..Len(changes) : InProgress(i)' => InProgress(i)
NewUnderWay == \A i \in (Len(changes) + 1)..Len(changes') : InProgress(i)'

LEMMA RequestProgress ==
  ASSUME TypeOK, NEW r \in Requests, run' = run,
         \A q \in Requests : q # r => pc'[q] = pc[q] /\ req'[q] = req[q],
         \A i \in 1..Len(changes) : pc'[r] # "idle" /\ req'[r].change = i =>
           pc[r] # "idle" /\ req[r].change = i
  PROVE  NoneResumes
  BY DEF NoneResumes, InProgress

LEMMA RunProgress ==
  ASSUME TypeOK, NEW c \in Crons, pc' = pc, req' = req,
         \A d \in Crons : d # c => run'[d] = run[d],
         \A i \in 1..Len(changes) : i \in run'[c].made => i \in run[c].made
  PROVE  NoneResumes
  BY DEF NoneResumes, InProgress

LEMMA QuietRequestProgress ==
  ASSUME IInv, NEW r \in Requests,
         \/ \E op \in AllOps, k \in Keys : Begin(r, op, k)
         \/ Abandon(r) \/ Reread(r) \/ Raise(r) \/ Fail(r)
  PROVE  NoneResumes /\ UNCHANGED <<changes, log>>
<1>1. Len(changes) \in Nat /\ NoLocal \in Local
  BY LengthsAreNumbers, NoLocalLocal DEF IInv
<1>2. ASSUME NEW op \in AllOps, NEW k \in Keys, Begin(r, op, k)
      PROVE  NoneResumes /\ UNCHANGED <<changes, log>>
  <2>1. \A i \in 1..Len(changes) : req'[r].change # i
    BY <1>1, <1>2 DEF Begin, LocalOf, IInv, TypeOK
  <2>2. /\ \A q \in Requests : q # r => pc'[q] = pc[q] /\ req'[q] = req[q]
        /\ run' = run /\ UNCHANGED <<changes, log>>
    BY <1>2 DEF Begin, IInv, TypeOK
  <2>3. QED
    BY <2>1, <2>2, RequestProgress DEF IInv
<1>3. CASE Abandon(r) \/ Raise(r) \/ Fail(r)
  <2>1. /\ pc'[r] = "idle"
        /\ \A q \in Requests : q # r => pc'[q] = pc[q] /\ req'[q] = req[q]
        /\ run' = run /\ UNCHANGED <<changes, log>>
    BY <1>3 DEF Abandon, Raise, Fail, EndRequest, IInv, TypeOK
  <2>2. QED
    BY <2>1, RequestProgress DEF IInv
<1>4. CASE Reread(r)
  <2>1. /\ pc[r] = "committed" /\ req'[r].change = req[r].change
        /\ \A q \in Requests : q # r => pc'[q] = pc[q] /\ req'[q] = req[q]
        /\ run' = run /\ UNCHANGED <<changes, log>>
    BY <1>4 DEF Reread, ReadBack, LocalOf, IInv, TypeOK
  <2>2. QED
    BY <2>1, RequestProgress DEF IInv
<1>5. QED
  BY <1>2, <1>3, <1>4

LEMMA QuietRunProgress ==
  ASSUME IInv, NEW c \in Crons,
         \/ ListDue(c) \/ \E k \in Keys : FetchNext(c, k)
         \/ AbortBatch(c) \/ CronFails(c)
  PROVE  NoneResumes /\ UNCHANGED <<changes, log>>
<1>1. NoRun.made = {}
  BY NoRunRun
<1>2. /\ run'[c].made = run[c].made \/ run'[c].made = {}
      /\ \A d \in Crons : d # c => run'[d] = run[d]
      /\ UNCHANGED <<pc, req, changes, log>>
  BY <1>1 DEF ListDue, FetchNext, AbortBatch, CronFails, SetRun, RunOf, IInv, TypeOK
<1>3. QED
  BY <1>2, RunProgress DEF IInv

LEMMA CommitProgress ==
  ASSUME IInv, NEW r \in Requests, Commit(r)
  PROVE  NoneResumes /\ NewUnderWay /\ log' = log /\ Len(changes') = Len(changes) + 1
<1>1. Len(changes) \in Nat
  BY LengthsAreNumbers DEF IInv
<1>2. RightRequest(r) /\ pc[r] = "fetched" /\ r \in Actors
  BY DEF IInv, Commit, Actors
<1>3. /\ req[r].op \in AllOps /\ req[r].key \in Keys /\ req[r].ver \in Nat
      /\ (req[r].op # "create" => keys[req[r].key].state # "unborn")
  BY <1>2 DEF RightRequest, IInv, TypeOK, Local
<1>4. Len(changes') = Len(changes) + 1
  BY <1>2, <1>3, TransactionGrows DEF IInv, Commit
<1>5. /\ pc'[r] # "idle" /\ req'[r].change = Len(changes) + 1
      /\ \A q \in Requests : q # r => pc'[q] = pc[q] /\ req'[q] = req[q]
      /\ UNCHANGED <<run, log>>
  BY DEF Commit, LocalOf, IInv, TypeOK
<1>6. NoneResumes
  BY <1>1, <1>5, RequestProgress DEF IInv
<1>7. \A i \in (Len(changes) + 1)..Len(changes') : i = Len(changes) + 1
  BY <1>1, <1>4
<1>8. NewUnderWay
  BY <1>5, <1>7 DEF NewUnderWay, InProgress
<1>9. QED
  BY <1>4, <1>5, <1>6, <1>8

LEMMA RotateProgress ==
  ASSUME IInv, NEW c \in Crons, RotateNext(c)
  PROVE  NoneResumes /\ NewUnderWay /\ log' = log /\ Len(changes') = Len(changes) + 1
<1>1. Len(changes) \in Nat
  BY LengthsAreNumbers DEF IInv
<1>2. RightRun(c) /\ run[c].at = "fetched" /\ c \in Actors /\ "rotate" \in AllOps
  BY DEF IInv, RotateNext, Actors, AllOps, RereadOps
<1>3. /\ run[c].key \in Keys /\ run[c].ver \in Nat
      /\ keys[run[c].key].state # "unborn"
  BY <1>2 DEF RightRun, Pending, IInv, TypeOK, Run
<1>4. Len(changes') = Len(changes) + 1
  BY <1>2, <1>3, TransactionGrows DEF IInv, RotateNext
<1>5. /\ run'[c].made = run[c].made \cup {Len(changes) + 1}
      /\ \A d \in Crons : d # c => run'[d] = run[d]
      /\ UNCHANGED <<pc, req, log>>
  BY DEF RotateNext, SetRun, RunOf, IInv, TypeOK
<1>6. NoneResumes
  BY <1>1, <1>5, RunProgress DEF IInv
<1>7. \A i \in (Len(changes) + 1)..Len(changes') : i = Len(changes) + 1
  BY <1>1, <1>4
<1>8. NewUnderWay
  BY <1>5, <1>7 DEF NewUnderWay, InProgress
<1>9. QED
  BY <1>4, <1>5, <1>6, <1>8

\* A step that logs nothing: what it ends without an entry has failed.
LEMMA NothingLogged ==
  ASSUME IInv, workload' = workload, log' = log, NoneResumes, NewUnderWay,
         Len(changes') \in Nat, Len(changes) <= Len(changes')
  PROVE  /\ Ids' = Ids
         /\ \E cs \in SUBSET ChangeNumbers :
              /\ \A i \in cs : Fates[i] = "open"
              /\ Fates' = [i \in ChangeNumbers |-> IF i \in cs THEN "failed" ELSE Fates[i]]
<1>1. Len(changes) \in Nat
  BY LengthsAreNumbers DEF IInv
<1>2. ChangeNumbers \subseteq Nat \ {0}
  BY WorkloadsAssumption DEF ChangeNumbers, Workload
<1>3. \A i \in ChangeNumbers : Logged(i)' = Logged(i)
  BY DEF Logged
<1>4. ASSUME NEW i \in ChangeNumbers
      PROVE  Fate(i)' = Fate(i) \/ (Fate(i) = "open" /\ Fate(i)' = "failed")
  <2>1. CASE Logged(i)
    BY <1>3, <2>1 DEF Fate
  <2>2. CASE ~Logged(i) /\ i <= Len(changes)
    <3>1. i \in 1..Len(changes) /\ i <= Len(changes')
      BY <1>1, <1>2, <2>2
    <3>2. InProgress(i)' => InProgress(i)
      BY <3>1 DEF NoneResumes
    <3>3. QED
      BY <1>3, <2>2, <3>1, <3>2 DEF Fate
  <2>3. CASE ~Logged(i) /\ i > Len(changes)
    <3>1. i <= Len(changes') => InProgress(i)'
      BY <1>1, <1>2, <2>3 DEF NewUnderWay
    <3>2. Fate(i) = "open" /\ Fate(i)' = "open"
      BY <1>1, <1>2, <1>3, <2>3, <3>1 DEF Fate
    <3>3. QED
      BY <3>2
  <2>4. QED
    BY <1>1, <1>2, <2>1, <2>2, <2>3
<1> DEFINE cs == {i \in ChangeNumbers : Fate(i) = "open" /\ Fate(i)' = "failed"}
<1>5. Fates' = [i \in ChangeNumbers |-> IF i \in cs THEN "failed" ELSE Fates[i]]
  BY <1>4 DEF Fates
<1>6. \A i \in cs : Fates[i] = "open"
  BY DEF Fates
<1>7. Ids' = Ids
  BY DEF Ids
<1>8. QED
  BY <1>5, <1>6, <1>7

\* A step that logs the change of an actor, and ends no other.
LEMMA OneLogged ==
  ASSUME IInv, VersionsRight, workload' = workload, changes' = changes,
         NEW i \in 1..Len(changes), ~Logged(i), InProgress(i),
         NEW version \in Nat \cup {None}, log' = Append(log, EntryOf(i, version)),
         \A j \in ChangeNumbers : j # i => InProgress(j)' = InProgress(j)
  PROVE  /\ i \in ChangeNumbers
         /\ Fates[i] = "open"
         /\ Ids' = Append(Ids, i)
         /\ Fates' = [Fates EXCEPT ![i] = "logged"]
<1> DEFINE e == EntryOf(i, version)
           new == Len(log) + 1
<1>1. Len(changes) \in Nat /\ Len(log) \in Nat /\ log \in Seq(Entry)
  BY LengthsAreNumbers DEF IInv, TypeOK
<1>2. i \in ChangeNumbers
  <2>1. workload \in Workloads /\ workload.bound \in Nat /\ Len(changes) <= workload.bound
    BY WorkloadsAssumption DEF IInv, TypeOK, Workload, VersionsRight
  <2>2. i \in 1..workload.bound
    BY <1>1, <2>1
  <2>3. QED
    BY <2>1, <2>2 DEF ChangeNumbers
<1>3. e \in Entry /\ e.change = i
  BY <1>1, ChangesTyped DEF IInv, EntryOf, Entry
<1> HIDE DEF e
<1>4. /\ log' \in Seq(Entry) /\ Len(log') = new
      /\ \A n \in 1..Len(log) : log'[n] = log[n]
      /\ log'[new] = e
  BY <1>1, <1>3, AppendProperties DEF e
<1>5. new \in 1..new /\ \A n \in 1..new : n \in 1..Len(log) \/ n = new
  BY <1>1
<1>6. Logged(i)' /\ \A j \in ChangeNumbers : j # i => Logged(j)' = Logged(j)
  <2>1. Logged(i)'
    BY <1>3, <1>4, <1>5 DEF Logged
  <2>2. \A n \in 1..Len(log) : n \in 1..new
    BY <1>1
  <2>3. QED
    BY <1>3, <1>4, <1>5, <2>1, <2>2 DEF Logged
<1>7. Fates[i] = "open"
  BY <1>2 DEF Fates, Fate
<1>8. Fates' = [Fates EXCEPT ![i] = "logged"]
  <2>1. \A j \in ChangeNumbers : j # i => Fate(j)' = Fate(j)
    BY <1>6 DEF Fate
  <2>2. Fate(i)' = "logged"
    BY <1>6 DEF Fate
  <2>3. QED
    BY <2>1, <2>2 DEF Fates
<1>9. Ids' = Append(Ids, i)
  <2> PICK n \in Nat : n = Len(log)
    BY <1>1
  <2>1. ASSUME NEW m \in 1..Len(log)
        PROVE  log[m].change \in Nat
    <3>1. log[m] \in Entry
      BY <1>1, ElementOfSeq
    <3>2. QED
      BY <3>1 DEF Entry
  <2>2. Ids \in [1..n -> Nat] /\ i \in Nat
    BY <1>1, <2>1 DEF Ids
  <2>3. Ids \in Seq(Nat) /\ Len(Ids) = n
    BY <2>2
  <2>4. /\ Append(Ids, i) \in Seq(Nat) /\ Len(Append(Ids, i)) = n + 1
        /\ \A m \in 1..n : Append(Ids, i)[m] = Ids[m]
        /\ Append(Ids, i)[n + 1] = i
    BY <2>2, <2>3, AppendProperties
  <2>5. Ids' = [m \in 1..(n + 1) |-> log'[m].change]
    BY <1>4 DEF Ids
  <2>6. \A m \in 1..(n + 1) : Ids'[m] = Append(Ids, i)[m] /\ Ids'[m] \in Nat
    <3>1. \A m \in 1..n : m \in 1..(n + 1) /\ Ids'[m] = Ids[m]
      BY <1>4, <2>5 DEF Ids
    <3>2. Ids'[n + 1] = i
      BY <1>3, <1>4, <2>5
    <3>3. \A m \in 1..(n + 1) : m \in 1..n \/ m = n + 1
      OBVIOUS
    <3>4. QED
      BY <2>2, <2>4, <3>1, <3>2, <3>3
  <2>7. Ids' \in [1..(n + 1) -> Nat]
    BY <2>5, <2>6
  <2>8. Ids' \in Seq(Nat) /\ Len(Ids') = n + 1
    BY <2>7
  <2>9. QED
    BY <2>4, <2>6, <2>8, SeqEqual
<1>10. QED
  BY <1>2, <1>7, <1>8, <1>9

LEMMA AnswerAdds ==
  ASSUME IInv, VersionsRight, NEW r \in Requests, Answer(r)
  PROVE  EntryLog!Next
<1> DEFINE i == req[r].change
           version == IF req[r].op = "rotate" THEN req[r].seen ELSE None
<1>1. /\ pc[r] = "answering" /\ pc'[r] = "idle"
      /\ log' = Append(log, EntryOf(i, version))
      /\ \A q \in Requests : q # r => pc'[q] = pc[q] /\ req'[q] = req[q]
      /\ UNCHANGED <<workload, keys, changes, run>>
  BY DEF Answer, EndRequest, IInv, TypeOK
<1>2. RightRequest(r)
  BY DEF IInv
<1>3. i \in 1..Len(changes) /\ ~Logged(i) /\ InProgress(i)
  BY <1>1, <1>2 DEF RightRequest, Owes, InProgress
<1>4. version \in Nat \cup {None}
  BY DEF IInv, TypeOK, Local
<1> HIDE DEF i, version
<1>5. \A j \in ChangeNumbers : j # i => InProgress(j)' = InProgress(j)
  <2>1. req[r].change = i
    BY DEF i
  <2>2. QED
    BY <1>1, <2>1 DEF InProgress
<1>6. /\ i \in ChangeNumbers /\ Fates[i] = "open" /\ Ids' = Append(Ids, i)
      /\ Fates' = [Fates EXCEPT ![i] = "logged"]
  BY <1>1, <1>3, <1>4, <1>5, OneLogged
<1>7. QED
  BY <1>6 DEF EntryLog!Next, EntryLog!Add, Ids, Fates, Fate

LEMMA AppendNextAdds ==
  ASSUME IInv, VersionsRight, NEW c \in Crons, NEW i \in run[c].made, AppendNext(c, i)
  PROVE  EntryLog!Next
<1>1. /\ run[c].at = "appending"
      /\ log' = Append(log, EntryOf(i, None))
      /\ \A d \in Crons : d # c => run'[d] = run[d]
      /\ UNCHANGED <<workload, keys, changes, pc, req>>
  BY DEF AppendNext, SetRun, IInv, TypeOK
<1>2. run'[c].made = run[c].made \ {i}
  <2>1. CASE run[c].made = {i}
    <3>1. run'[c] = NoRun
      BY <2>1 DEF AppendNext, SetRun, IInv, TypeOK
    <3>2. QED
      BY <2>1, <3>1, NoRunRun
  <2>2. CASE run[c].made # {i}
    BY <2>2 DEF AppendNext, SetRun, RunOf, IInv, TypeOK
  <2>3. QED
    BY <2>1, <2>2
<1>3. i \in 1..Len(changes) /\ ~Logged(i) /\ InProgress(i)
  BY DEF IInv, RightRun, Owes, InProgress
<1>4. \A j \in ChangeNumbers : j # i => InProgress(j)' = InProgress(j)
  BY <1>1, <1>2 DEF InProgress
<1>5. None \in Nat \cup {None}
  OBVIOUS
<1>6. /\ i \in ChangeNumbers /\ Fates[i] = "open" /\ Ids' = Append(Ids, i)
      /\ Fates' = [Fates EXCEPT ![i] = "logged"]
  BY <1>1, <1>3, <1>4, <1>5, OneLogged
<1>7. QED
  BY <1>6 DEF EntryLog!Next, EntryLog!Add, Ids, Fates, Fate

LEMMA InitEntryLog == Init => EntryLog!Init
<1> SUFFICES ASSUME Init
             PROVE  Ids = <<>> /\ Fates = [i \in ChangeNumbers |-> "open"]
  BY DEF EntryLog!Init, Ids, Fates, Fate
<1>1. Len(log) = 0 /\ Len(changes) = 0
  BY DEF Init
<1>2. Ids = <<>>
  BY <1>1 DEF Ids
<1>3. \A i \in ChangeNumbers : i \in Nat \ {0}
  BY WorkloadsAssumption DEF ChangeNumbers, Workload
<1>4. \A i \in ChangeNumbers : ~Logged(i) /\ ~(i <= Len(changes))
  BY <1>1, <1>3 DEF Logged
<1>5. QED
  BY <1>2, <1>4 DEF Fates, Fate

LEMMA NextEntryLog ==
  ASSUME IInv, VersionsRight, [Next]_vars
  PROVE  [EntryLog!Next]_(EntryLog!vars)
<1>1. Len(changes) \in Nat
  BY LengthsAreNumbers DEF IInv
<1>2. workload' = workload
  BY StepChanges
<1>3. ASSUME log' = log, NoneResumes, NewUnderWay, Len(changes') \in Nat,
             Len(changes) <= Len(changes')
      PROVE  EntryLog!Next
  <2>1. /\ Ids' = Ids
        /\ \E cs \in SUBSET ChangeNumbers :
             /\ \A i \in cs : Fates[i] = "open"
             /\ Fates' = [i \in ChangeNumbers |-> IF i \in cs THEN "failed" ELSE Fates[i]]
    BY <1>2, <1>3, NothingLogged
  <2>2. QED
    BY <2>1 DEF EntryLog!Next, EntryLog!Fail, Ids, Fates, Fate
<1>4. ASSUME UNCHANGED <<changes, log>>, NoneResumes
      PROVE  EntryLog!Next
  <2>1. NewUnderWay
    BY <1>1, <1>4 DEF NewUnderWay
  <2>2. QED
    BY <1>1, <1>3, <1>4, <2>1
<1>5. CASE \/ \E k \in Keys : Age(k)
           \/ BackupStep
           \/ UNCHANGED vars
  <2>1. UNCHANGED <<changes, log, pc, req, run>>
    BY <1>5
    DEF Age, BackupStep, RemoveOldSnapshot, Snapshot, WriteManifest, BackupDies, SetBackup, vars
  <2>2. NoneResumes
    BY <2>1 DEF NoneResumes, InProgress
  <2>3. QED
    BY <1>4, <2>1, <2>2
<1>6. ASSUME NEW r \in Requests, RequestStep(r)
      PROVE  EntryLog!Next
  <2>1. CASE \/ \E op \in AllOps, k \in Keys : Begin(r, op, k)
             \/ Abandon(r) \/ Reread(r) \/ Raise(r) \/ Fail(r)
    BY <1>4, <2>1, QuietRequestProgress
  <2>2. CASE Commit(r)
    <3>1. NoneResumes /\ NewUnderWay /\ log' = log /\ Len(changes') = Len(changes) + 1
      BY <2>2, CommitProgress
    <3>2. QED
      BY <1>1, <1>3, <3>1
  <2>3. CASE Answer(r)
    BY <2>3, AnswerAdds
  <2>4. QED
    BY <1>6, <2>1, <2>2, <2>3 DEF RequestStep
<1>7. ASSUME NEW c \in Crons, CronStep(c)
      PROVE  EntryLog!Next
  <2>1. CASE \/ ListDue(c) \/ \E k \in Keys : FetchNext(c, k)
             \/ AbortBatch(c) \/ CronFails(c)
    BY <1>4, <2>1, QuietRunProgress
  <2>2. CASE RotateNext(c)
    <3>1. NoneResumes /\ NewUnderWay /\ log' = log /\ Len(changes') = Len(changes) + 1
      BY <2>2, RotateProgress
    <3>2. QED
      BY <1>1, <1>3, <3>1
  <2>3. CASE \E i \in run[c].made : AppendNext(c, i)
    BY <2>3, AppendNextAdds
  <2>4. QED
    BY <1>7, <2>1, <2>2, <2>3 DEF CronStep
<1>8. QED
  BY <1>5, <1>6, <1>7 DEF Next

\* The audit log of handlers, overlapping jobs and faults is an append-only log
\* of changes: each is logged once, while its request or job is in progress, or
\* its logging has failed for good.
THEOREM ImplementsEntryLogHolds == Spec => ImplementsEntryLog
<1>1. Spec => [](IInv /\ VersionsRight)
  BY InitIInv, NextIInv, InitVersions, NextVersions, PTL DEF Spec
<1>2. IInv /\ VersionsRight /\ [Next]_vars => [EntryLog!Next]_(EntryLog!vars)
  BY NextEntryLog
<1>3. QED
  BY <1>1, <1>2, InitEntryLog, PTL DEF Spec, ImplementsEntryLog, EntryLog!Spec
=============================================================================
