--------------------------- MODULE AuditLogProofs ---------------------------
(***************************************************************************)
(* The audit chain is intact, appends answer truthfully and the concurrent *)
(* log implements the atomic one, for any number of appenders and retries  *)
(* and on both databases.                                                  *)
(***************************************************************************)
EXTENDS AuditLog, SequenceTheorems, TLAPS

USE MaxRetriesAssumption, NoCallAssumption

Rows == [prev_hash : Seq(Calls), payload : Calls, entry_hash : Seq(Calls)]

\* The hash of row i stands for i entries.
HashCountsRows ==
  \A i \in 1..Len(audit_log) : Len(audit_log[i].entry_hash) = i

\* The head that a call built on was the head once: it is older than no row
\* that the call did not see.
HeadWasRead ==
  \A c \in Calls : pc[c] = "built" =>
    \/ prev_hash[c] = Genesis
    \/ \E i \in 1..Len(audit_log) : prev_hash[c] = audit_log[i].entry_hash

\* Every lost attempt is a row added since the call began.
AttemptsOf(c) ==
  /\ pc[c] = "idle" => attempt[c] = 0
  /\ started[c] + attempt[c] <= Len(audit_log)
  /\ pc[c] = "built" => started[c] + attempt[c] <= Len(prev_hash[c])
  /\ pc[c] = "exhausted" => started[c] + MaxRetries <= Len(audit_log)

AttemptsCounted == \A c \in Calls : AttemptsOf(c)

\* Between its lock and its commit a call is alone with the head of the chain.
AloneWithHead(c) ==
  /\ pc[c] \in {"locked", "built"} => lock = c
  /\ pc[c] = "built" => prev_hash[c] = ChainHead(audit_log)
  /\ attempt[c] = 0
  /\ pc[c] # "exhausted"

LockExcludes == locking => \A c \in Calls : AloneWithHead(c)

ChainInv == TypeOK /\ ChainIntact /\ HashCountsRows /\ HeadWasRead

-----------------------------------------------------------------------------
(* Types.                                                                  *)

LEMMA InitTypeOK == Init => TypeOK
  <1>1. <<>> \in Seq(Calls) /\ <<>> \in Seq(Rows)
    OBVIOUS
  <1> QED
    BY <1>1 DEF Init, TypeOK, Genesis, Rows

LEMMA EntryTyped ==
  ASSUME NEW prev \in Seq(Calls), NEW c \in Calls
  PROVE  Entry(prev, c) \in Rows
  BY DEF Entry, Hash, Rows

LEMMA ChainHeadTyped ==
  ASSUME TypeOK
  PROVE  ChainHead(audit_log) \in Seq(Calls)
  <1>1. CASE audit_log = <<>>
    BY <1>1 DEF ChainHead, Genesis
  <1>2. CASE audit_log # <<>>
    <2>1. audit_log \in Seq(Rows)
      BY DEF TypeOK, Rows
    <2>2. Len(audit_log) \in 1..Len(audit_log)
      BY <1>2, <2>1
    <2>3. audit_log[Len(audit_log)] \in Rows
      BY <2>1, <2>2
    <2> QED
      BY <1>2, <2>3 DEF ChainHead, Rows
  <1> QED
    BY <1>1, <1>2

LEMMA NextTypeOK == TypeOK /\ [Next]_vars => TypeOK'
  <1> SUFFICES ASSUME TypeOK, [Next]_vars
               PROVE  TypeOK'
    OBVIOUS
  <1>0. /\ audit_log \in Seq(Rows) /\ file \in Seq(Rows)
        /\ Len(audit_log) \in Nat
    BY DEF TypeOK, Rows
  <1>1. ASSUME NEW c \in Calls, AppendCall(c)
        PROVE  TypeOK'
    BY <1>0, <1>1 DEF AppendCall, GoTo, TypeOK, Running
  <1>2. ASSUME NEW c \in Calls, TakeLock(c)
        PROVE  TypeOK'
    BY <1>2 DEF TakeLock, GoTo, TypeOK, Running
  <1>3. ASSUME NEW c \in Calls, ReadHead(c)
        PROVE  TypeOK'
    BY <1>3, ChainHeadTyped DEF ReadHead, GoTo, TypeOK, Running
  <1>4. ASSUME NEW c \in Calls, Insert(c)
        PROVE  TypeOK'
    <2>1. Entry(prev_hash[c], c) \in Rows
      BY EntryTyped DEF TypeOK
    <2>2. audit_log' \in Seq(Rows)
      BY <1>0, <1>4, <2>1 DEF Insert, InsertRow
    <2> QED
      BY <1>0, <1>4, <2>2 DEF Insert, InsertRow, GoTo, EndTransaction, TypeOK, Running, Rows
  <1>5. ASSUME NEW c \in Calls, Retry(c)
        PROVE  TypeOK'
    BY <1>5 DEF Retry, GoTo, EndTransaction, TypeOK, Running
  <1>6. ASSUME NEW c \in Calls, GiveUp(c) \/ DatabaseError(c) \/ Crash(c)
        PROVE  TypeOK'
    BY <1>6 DEF GiveUp, DatabaseError, Crash, GoTo, EndTransaction, TypeOK, Ended
  <1>7. ASSUME NEW c \in Calls, Emit(c)
        PROVE  TypeOK'
    <2>1. Entry(prev_hash[c], c) \in Rows
      BY EntryTyped DEF TypeOK
    <2>2. file' \in Seq(Rows)
      BY <1>0, <1>7, <2>1 DEF Emit
    <2> QED
      BY <1>7, <2>2 DEF Emit, GoTo, TypeOK, Ended, Rows
  <1>8. ASSUME NEW c \in Calls, SinkError(c)
        PROVE  TypeOK'
    BY <1>8 DEF SinkError, GoTo, TypeOK, Ended
  <1>9. CASE UNCHANGED vars
    BY <1>9 DEF vars, TypeOK
  <1> QED
    BY <1>1, <1>2, <1>3, <1>4, <1>5, <1>6, <1>7, <1>8, <1>9 DEF Next, Step

\* Every variable keeps its type, on both databases.
THEOREM TypeCorrect == Spec => []TypeOK
  BY InitTypeOK, NextTypeOK, PTL DEF Spec

-----------------------------------------------------------------------------
(* The chain.                                                              *)

\* The hash of the head stands for all the rows.
LEMMA HeadCountsRows ==
  ASSUME TypeOK, HashCountsRows
  PROVE  Len(ChainHead(audit_log)) = Len(audit_log)
  <1>1. audit_log \in Seq(Rows)
    BY DEF TypeOK, Rows
  <1>2. CASE audit_log = <<>>
    BY <1>2 DEF ChainHead, Genesis
  <1>3. CASE audit_log # <<>>
    <2>1. Len(audit_log) \in 1..Len(audit_log)
      BY <1>1, <1>3
    <2> QED
      BY <1>3, <2>1 DEF ChainHead, HashCountsRows
  <1> QED
    BY <1>2, <1>3

\* UNIQUE(prev_hash) lets a row in only when it extends the head: every older
\* hash is the prev_hash of the row that followed it.
LEMMA InsertExtendsHead ==
  ASSUME ChainInv, NEW c \in Calls, Insert(c)
  PROVE  prev_hash[c] = ChainHead(audit_log)
  <1>1. audit_log \in Seq(Rows) /\ Len(audit_log) \in Nat
    BY DEF ChainInv, TypeOK, Rows
  <1>2. ~Taken(prev_hash[c]) /\ pc[c] = "built"
    BY DEF Insert, InsertRow
  <1>3. \A i \in 1..Len(audit_log) : audit_log[i].prev_hash # prev_hash[c]
    BY <1>2 DEF Taken
  <1>4. CASE prev_hash[c] = Genesis
    <2>1. ASSUME audit_log # <<>>
          PROVE  FALSE
      <3>1. 1 \in 1..Len(audit_log)
        BY <1>1, <2>1
      <3>2. audit_log[1].prev_hash = Genesis
        BY <3>1 DEF ChainInv, ChainIntact, VerifyChain
      <3> QED
        BY <1>3, <1>4, <3>1, <3>2
    <2> QED
      BY <1>4, <2>1 DEF ChainHead
  <1>5. ASSUME NEW i \in 1..Len(audit_log), prev_hash[c] = audit_log[i].entry_hash
        PROVE  prev_hash[c] = ChainHead(audit_log)
    <2>1. ASSUME i # Len(audit_log)
          PROVE  FALSE
      <3>1. i + 1 \in 1..Len(audit_log) /\ i + 1 # 1 /\ (i + 1) - 1 = i
        BY <1>1, <2>1
      <3>2. audit_log[i + 1].prev_hash = audit_log[i].entry_hash
        BY <3>1 DEF ChainInv, ChainIntact, VerifyChain
      <3> QED
        BY <1>3, <1>5, <3>1, <3>2
    <2>2. audit_log # <<>>
      BY <1>1
    <2> QED
      BY <1>5, <2>1, <2>2 DEF ChainHead
  <1> QED
    BY <1>2, <1>4, <1>5 DEF ChainInv, HeadWasRead

\* What an insertion does to the table.
LEMMA InsertEffect ==
  ASSUME TypeOK, NEW c \in Calls, InsertRow(c)
  PROVE  /\ Len(audit_log') = Len(audit_log) + 1
         /\ \A i \in 1..Len(audit_log) : audit_log'[i] = audit_log[i]
         /\ audit_log'[Len(audit_log) + 1] = Entry(prev_hash[c], c)
  <1>1. audit_log \in Seq(Rows)
    BY DEF TypeOK, Rows
  <1>2. Entry(prev_hash[c], c) \in Rows
    BY EntryTyped DEF TypeOK
  <1> QED
    BY <1>1, <1>2 DEF InsertRow

LEMMA InsertChain ==
  ASSUME ChainInv, NEW c \in Calls, Insert(c)
  PROVE  ChainIntact' /\ HashCountsRows'
  <1> PICK n, e : n = Len(audit_log) /\ e = Entry(prev_hash[c], c)
    OBVIOUS
  <1>0. audit_log \in Seq(Rows) /\ n \in Nat
    BY DEF ChainInv, TypeOK, Rows
  <1>1. /\ Len(audit_log') = n + 1
        /\ \A i \in 1..n : audit_log'[i] = audit_log[i]
        /\ audit_log'[n + 1] = e
    BY InsertEffect DEF ChainInv, Insert
  <1>2. prev_hash[c] = ChainHead(audit_log) /\ prev_hash[c] \in Seq(Calls)
    BY InsertExtendsHead DEF ChainInv, TypeOK
  <1>3. /\ e.prev_hash = ChainHead(audit_log)
        /\ e.payload = c
        /\ e.entry_hash = Hash(e.prev_hash, e.payload)
        /\ Len(e.entry_hash) = n + 1
    BY <1>2, HeadCountsRows DEF Entry, Hash, ChainInv
  <1>4. ChainIntact'
    <2> SUFFICES ASSUME NEW i \in 1..(n + 1)
                 PROVE  /\ audit_log'[i].prev_hash
                             = IF i = 1 THEN Genesis ELSE audit_log'[i - 1].entry_hash
                        /\ audit_log'[i].entry_hash
                             = Hash(audit_log'[i].prev_hash, audit_log'[i].payload)
      BY <1>1 DEF ChainIntact, VerifyChain
    <2>1. CASE i \in 1..n
      <3>1. i # 1 => i - 1 \in 1..n
        BY <1>0, <2>1
      <3> QED
        BY <1>1, <2>1, <3>1 DEF ChainInv, ChainIntact, VerifyChain
    <2>2. CASE i = n + 1
      <3>1. CASE n = 0
        <4>1. i = 1
          BY <2>2, <3>1
        <4>2. audit_log = <<>>
          <5>1. Len(audit_log) = 0
            BY <3>1
          <5> QED
            BY <1>0, <5>1, EmptySeq
        <4> QED
          BY <1>1, <1>3, <2>2, <4>1, <4>2 DEF ChainHead
      <3>2. CASE n # 0
        <4>1. i # 1 /\ i - 1 = n /\ n \in 1..n /\ audit_log # <<>>
          BY <1>0, <2>2, <3>2
        <4>2. audit_log'[i - 1].entry_hash = ChainHead(audit_log)
          BY <1>1, <4>1 DEF ChainHead
        <4> QED
          BY <1>1, <1>3, <2>2, <4>1, <4>2
      <3> QED
        BY <3>1, <3>2
    <2> QED
      BY <1>0, <2>1, <2>2
  <1>5. HashCountsRows'
    <2> SUFFICES ASSUME NEW i \in 1..(n + 1)
                 PROVE  Len(audit_log'[i].entry_hash) = i
      BY <1>1 DEF HashCountsRows
    <2>1. CASE i \in 1..n
      BY <1>1, <2>1 DEF ChainInv, HashCountsRows
    <2>2. CASE i = n + 1
      BY <1>1, <1>3, <2>2
    <2> QED
      BY <1>0, <2>1, <2>2
  <1> QED
    BY <1>4, <1>5

LEMMA InitChainInv == Init => ChainInv
  <1> SUFFICES ASSUME Init
               PROVE  ChainInv
    OBVIOUS
  <1>1. Len(audit_log) = 0
    BY DEF Init
  <1>2. \A c \in Calls : pc[c] # "built"
    BY DEF Init
  <1> QED
    BY <1>1, <1>2, InitTypeOK
    DEF ChainInv, ChainIntact, VerifyChain, HashCountsRows, HeadWasRead

LEMMA NextChainInv == ChainInv /\ [Next]_vars => ChainInv'
  <1> SUFFICES ASSUME ChainInv, [Next]_vars
               PROVE  ChainInv'
    OBVIOUS
  <1>0. TypeOK /\ TypeOK'
    BY NextTypeOK DEF ChainInv
  <1>1. ASSUME UNCHANGED audit_log,
               \A c \in Calls : pc'[c] = "built" =>
                 \/ pc[c] = "built" /\ prev_hash'[c] = prev_hash[c]
                 \/ prev_hash'[c] = ChainHead(audit_log)
        PROVE  ChainInv'
    <2>1. ChainIntact' /\ HashCountsRows'
      BY <1>1 DEF ChainInv, ChainIntact, HashCountsRows
    <2>2. ChainHead(audit_log) = Genesis
            \/ \E i \in 1..Len(audit_log) : ChainHead(audit_log) = audit_log[i].entry_hash
      <3>1. audit_log \in Seq(Rows)
        BY <1>0 DEF TypeOK, Rows
      <3>2. audit_log # <<>> => Len(audit_log) \in 1..Len(audit_log)
        BY <3>1
      <3> QED
        BY <3>2 DEF ChainHead
    <2>3. HeadWasRead'
      BY <1>1, <2>2 DEF ChainInv, HeadWasRead
    <2> QED
      BY <1>0, <2>1, <2>3 DEF ChainInv
  <1>2. ASSUME NEW c \in Calls, Insert(c)
        PROVE  ChainInv'
    <2>1. ChainIntact' /\ HashCountsRows'
      BY <1>2, InsertChain
    <2>2. /\ \A i \in 1..Len(audit_log) :
               i \in 1..Len(audit_log') /\ audit_log'[i] = audit_log[i]
          /\ \A d \in Calls : pc'[d] = "built" => pc[d] = "built" /\ prev_hash'[d] = prev_hash[d]
      <3>1. Len(audit_log) \in Nat
        BY <1>0 DEF TypeOK
      <3> QED
        BY <1>0, <1>2, <3>1, InsertEffect DEF Insert, InsertRow, GoTo, TypeOK
    <2>3. HeadWasRead'
      <3> SUFFICES ASSUME NEW d \in Calls, pc'[d] = "built"
                   PROVE  \/ prev_hash'[d] = Genesis
                          \/ \E i \in 1..Len(audit_log') :
                               prev_hash'[d] = audit_log'[i].entry_hash
        BY DEF HeadWasRead
      <3> QED
        BY <2>2 DEF ChainInv, HeadWasRead
    <2> QED
      BY <1>0, <2>1, <2>3 DEF ChainInv
  <1>3. ASSUME NEW c \in Calls, ReadHead(c)
        PROVE  ChainInv'
    BY <1>0, <1>1, <1>3 DEF ReadHead, GoTo, TypeOK
  <1>4. ASSUME NEW c \in Calls, AppendCall(c) \/ TakeLock(c) \/ Retry(c)
        PROVE  ChainInv'
    BY <1>0, <1>1, <1>4 DEF AppendCall, TakeLock, Retry, GoTo, TypeOK
  <1>5. ASSUME NEW c \in Calls,
               GiveUp(c) \/ DatabaseError(c) \/ Emit(c) \/ SinkError(c) \/ Crash(c)
        PROVE  ChainInv'
    BY <1>0, <1>1, <1>5 DEF GiveUp, DatabaseError, Emit, SinkError, Crash, GoTo, TypeOK
  <1>6. CASE UNCHANGED vars
    BY <1>1, <1>6 DEF vars
  <1> QED
    BY <1>2, <1>3, <1>4, <1>5, <1>6 DEF Next, Step

\* However appends race, retry and crash, verify_chain finds no fault.
THEOREM ChainIntactHolds == Spec => []ChainIntact
  <1>1. Spec => []ChainInv
    BY InitChainInv, NextChainInv, PTL DEF Spec
  <1> QED
    BY <1>1, PTL DEF ChainInv

-----------------------------------------------------------------------------
(* Answers.                                                                *)

\* A step inserts one row of one call, or none; seq moves only with it.
LEMMA RowsAfter ==
  ASSUME TypeOK, NEW c \in Calls, InsertRow(c)
  PROVE  /\ \A d \in Calls : d # c => RowsOf(d)' = RowsOf(d)
         /\ RowsOf(c)' = RowsOf(c) \cup {Len(audit_log) + 1}
  <1> PICK n : n = Len(audit_log)
    OBVIOUS
  <1>1. /\ Len(audit_log') = n + 1
        /\ \A i \in 1..n : audit_log'[i] = audit_log[i]
        /\ audit_log'[n + 1].payload = c
    <2>1. Entry(prev_hash[c], c).payload = c
      BY DEF Entry
    <2> QED
      BY <2>1, InsertEffect
  <1>2. n \in Nat
    BY DEF TypeOK
  <1> QED
    BY <1>1, <1>2 DEF RowsOf

LEMMA InitAnswers == Init => AnswersMatchLog
  <1> SUFFICES ASSUME Init, NEW c \in Calls
               PROVE  pc[c] = "idle" /\ RowsOf(c) = {}
    BY DEF AnswersMatchLog
  <1>1. Len(audit_log) = 0 /\ pc[c] = "idle"
    BY DEF Init
  <1> QED
    BY <1>1 DEF RowsOf

LEMMA NextAnswers == TypeOK /\ AnswersMatchLog /\ [Next]_vars => AnswersMatchLog'
  <1> SUFFICES ASSUME TypeOK, AnswersMatchLog, [Next]_vars
               PROVE  AnswersMatchLog'
    OBVIOUS
  <1>1. ASSUME UNCHANGED <<audit_log, seq>>,
               \A c \in Calls :
                 \/ pc'[c] = pc[c]
                 \/ {pc[c], pc'[c]} \subseteq {"committed", "returned"}
                 \/ {pc[c], pc'[c]} \cap {"committed", "returned", "crashed"} = {}
                 \/ pc'[c] = "crashed"
        PROVE  AnswersMatchLog'
    <2>1. \A c \in Calls : RowsOf(c)' = RowsOf(c)
      BY <1>1 DEF RowsOf
    <2> QED
      BY <1>1, <2>1 DEF AnswersMatchLog
  <1>2. ASSUME NEW c \in Calls, Insert(c)
        PROVE  AnswersMatchLog'
    <2>1. /\ \A d \in Calls : d # c => RowsOf(d)' = RowsOf(d)
          /\ RowsOf(c)' = RowsOf(c) \cup {Len(audit_log) + 1}
      BY <1>2, RowsAfter DEF Insert
    <2>2. /\ pc[c] = "built" /\ pc'[c] = "committed" /\ seq'[c] = Len(audit_log) + 1
          /\ \A d \in Calls : d # c => pc'[d] = pc[d] /\ seq'[d] = seq[d]
      BY <1>2 DEF Insert, InsertRow, GoTo, TypeOK
    <2>3. RowsOf(c) = {}
      BY <2>2 DEF AnswersMatchLog
    <2> QED
      BY <2>1, <2>2, <2>3 DEF AnswersMatchLog
  <1>3. ASSUME NEW c \in Calls, AppendCall(c) \/ TakeLock(c) \/ ReadHead(c) \/ Retry(c)
        PROVE  AnswersMatchLog'
    BY <1>1, <1>3 DEF AppendCall, TakeLock, ReadHead, Retry, GoTo, TypeOK
  <1>4. ASSUME NEW c \in Calls, GiveUp(c) \/ DatabaseError(c)
        PROVE  AnswersMatchLog'
    BY <1>1, <1>4 DEF GiveUp, DatabaseError, GoTo, TypeOK
  <1>5. ASSUME NEW c \in Calls, Emit(c) \/ SinkError(c) \/ Crash(c)
        PROVE  AnswersMatchLog'
    BY <1>1, <1>5 DEF Emit, SinkError, Crash, GoTo, TypeOK
  <1>6. CASE UNCHANGED vars
    BY <1>1, <1>6 DEF vars
  <1> QED
    BY <1>2, <1>3, <1>4, <1>5, <1>6 DEF Next, Step

\* An append that returns has its one row, one that raises has none.
THEOREM AnswersMatchLogHolds == Spec => []AnswersMatchLog
  <1>1. Spec => [](TypeOK /\ AnswersMatchLog)
    BY InitTypeOK, NextTypeOK, InitAnswers, NextAnswers, PTL DEF Spec
  <1> QED
    BY <1>1, PTL

-----------------------------------------------------------------------------
(* Lost attempts.                                                          *)

LosesInv == AttemptsCounted /\ LockExcludes

LEMMA InitLosesInv == Init => LosesInv
  <1> SUFFICES ASSUME Init, NEW c \in Calls
               PROVE  AttemptsOf(c) /\ AloneWithHead(c)
    BY DEF LosesInv, AttemptsCounted, LockExcludes
  <1>1. /\ pc[c] = "idle" /\ attempt[c] = 0 /\ started[c] = 0 /\ Len(audit_log) = 0
    BY DEF Init
  <1> QED
    BY <1>1 DEF AttemptsOf, AloneWithHead

LEMMA TakenMeansLater ==
  ASSUME ChainInv, NEW c \in Calls, Taken(prev_hash[c])
  PROVE  Len(prev_hash[c]) + 1 <= Len(audit_log)
  <1>1. PICK j \in 1..Len(audit_log) : audit_log[j].prev_hash = prev_hash[c]
    BY DEF Taken
  <1>2. Len(audit_log) \in Nat
    BY DEF ChainInv, TypeOK
  <1>3. CASE j = 1
    <2>1. prev_hash[c] = <<>>
      BY <1>1, <1>3 DEF ChainInv, ChainIntact, VerifyChain, Genesis
    <2>2. Len(prev_hash[c]) = 0
      BY <2>1
    <2> QED
      BY <1>1, <1>2, <1>3, <2>2
  <1>4. CASE j # 1
    <2>1. j - 1 \in 1..Len(audit_log)
      BY <1>1, <1>2, <1>4
    <2>2. prev_hash[c] = audit_log[j - 1].entry_hash
      BY <1>1, <1>4 DEF ChainInv, ChainIntact, VerifyChain
    <2>3. Len(prev_hash[c]) = j - 1
      BY <2>1, <2>2 DEF ChainInv, HashCountsRows
    <2> QED
      BY <1>1, <1>2, <2>3
  <1> QED
    BY <1>3, <1>4

\* The head that only the lock's holder reads is not taken.
LEMMA HeadNotTaken ==
  ASSUME ChainInv, NEW c \in Calls, prev_hash[c] = ChainHead(audit_log)
  PROVE  ~Taken(prev_hash[c])
  <1>1. Len(prev_hash[c]) = Len(audit_log) /\ Len(audit_log) \in Nat
    BY HeadCountsRows DEF ChainInv, TypeOK
  <1> QED
    BY <1>1, TakenMeansLater

\* A deployment keeps its database.
LEMMA LockingFixed == [Next]_vars => locking' = locking
  BY DEF Next, Step, vars, AppendCall, TakeLock, ReadHead, Insert, InsertRow, Retry,
         GiveUp, DatabaseError, Emit, SinkError, Crash

LEMMA NextLosesInv == ChainInv /\ LosesInv /\ [Next]_vars => LosesInv'
  <1> SUFFICES ASSUME ChainInv, LosesInv, [Next]_vars
               PROVE  LosesInv'
    OBVIOUS
  <1>a. TypeOK /\ Len(audit_log) \in Nat
    BY DEF ChainInv, TypeOK
  <1>b. locking' = locking
    BY LockingFixed
  <1>0. TypeOK /\ Len(audit_log) \in Nat /\ locking' = locking
    BY <1>a, <1>b
  <1>1. ASSUME NEW d \in Calls
        PROVE  /\ AttemptsOf(d) /\ (locking => AloneWithHead(d))
               /\ started[d] \in Nat /\ attempt[d] \in 0..(MaxRetries - 1)
               /\ Len(prev_hash[d]) \in Nat
    BY <1>0 DEF LosesInv, AttemptsCounted, LockExcludes, TypeOK
  <1>2. ASSUME NEW d \in Calls, UNCHANGED audit_log, pc'[d] = pc[d],
               prev_hash'[d] = prev_hash[d], attempt'[d] = attempt[d],
               started'[d] = started[d], lock' = lock \/ (lock' # d /\ lock # d)
        PROVE  AttemptsOf(d)' /\ (locking => AloneWithHead(d)')
    BY <1>1, <1>2 DEF AttemptsOf, AloneWithHead
  <1>3. ASSUME NEW c \in Calls, AttemptsOf(c)' /\ (locking => AloneWithHead(c)'),
               \A d \in Calls : d # c => AttemptsOf(d)' /\ (locking => AloneWithHead(d)')
        PROVE  LosesInv'
    BY <1>0, <1>3 DEF LosesInv, AttemptsCounted, LockExcludes
  <1>4. ASSUME NEW c \in Calls, UNCHANGED audit_log,
               \A d \in Calls : d # c =>
                 /\ pc'[d] = pc[d] /\ prev_hash'[d] = prev_hash[d]
                 /\ attempt'[d] = attempt[d] /\ started'[d] = started[d]
                 /\ lock' = lock \/ (lock' # d /\ lock # d),
               AttemptsOf(c)' /\ (locking => AloneWithHead(c)')
        PROVE  LosesInv'
    BY <1>2, <1>3, <1>4
  <1>5. ASSUME NEW c \in Calls, AppendCall(c)
        PROVE  LosesInv'
    <2>1. /\ pc[c] = "idle" /\ pc'[c] = "begin" /\ started'[c] = Len(audit_log)
          /\ UNCHANGED <<audit_log, lock, prev_hash, attempt>>
          /\ \A d \in Calls : d # c => pc'[d] = pc[d] /\ started'[d] = started[d]
      BY <1>0, <1>5 DEF AppendCall, GoTo, TypeOK
    <2>2. attempt[c] = 0
      BY <1>1, <2>1 DEF AttemptsOf
    <2>3. AttemptsOf(c)' /\ (locking => AloneWithHead(c)')
      BY <1>0, <2>1, <2>2 DEF AttemptsOf, AloneWithHead
    <2> QED
      BY <1>4, <2>1, <2>3
  <1>6. ASSUME NEW c \in Calls, TakeLock(c)
        PROVE  LosesInv'
    <2>1. /\ pc[c] = "begin" /\ pc'[c] = "locked" /\ lock = NoCall /\ lock' = c
          /\ UNCHANGED <<audit_log, prev_hash, attempt, started>>
          /\ \A d \in Calls : d # c => pc'[d] = pc[d]
      BY <1>0, <1>6 DEF TakeLock, GoTo, TypeOK
    <2>2. AttemptsOf(c)' /\ (locking => AloneWithHead(c)')
      BY <1>1, <2>1 DEF AttemptsOf, AloneWithHead
    <2>3. \A d \in Calls : d # c => lock' # d /\ lock # d
      BY <2>1
    <2> QED
      BY <1>4, <2>1, <2>2, <2>3
  <1>7. ASSUME NEW c \in Calls, ReadHead(c)
        PROVE  LosesInv'
    <2>1. /\ pc[c] = IF locking THEN "locked" ELSE "begin"
          /\ pc'[c] = "built" /\ prev_hash'[c] = ChainHead(audit_log)
          /\ UNCHANGED <<audit_log, lock, attempt, started>>
          /\ \A d \in Calls : d # c => pc'[d] = pc[d] /\ prev_hash'[d] = prev_hash[d]
      BY <1>0, <1>7 DEF ReadHead, GoTo, TypeOK
    <2>2. Len(prev_hash'[c]) = Len(audit_log)
      BY <2>1, HeadCountsRows DEF ChainInv
    <2>3. AttemptsOf(c)' /\ (locking => AloneWithHead(c)')
      BY <1>1, <2>1, <2>2 DEF AttemptsOf, AloneWithHead
    <2> QED
      BY <1>4, <2>1, <2>3
  <1>8. ASSUME NEW c \in Calls, Insert(c)
        PROVE  LosesInv'
    <2>1. /\ pc[c] = "built" /\ pc'[c] = "committed"
          /\ UNCHANGED <<prev_hash, attempt, started>>
          /\ \A d \in Calls : d # c => pc'[d] = pc[d]
          /\ lock' = IF lock = c THEN NoCall ELSE lock
      BY <1>0, <1>8 DEF Insert, InsertRow, EndTransaction, GoTo, TypeOK
    <2>2. Len(audit_log') = Len(audit_log) + 1
      BY <1>0, <1>8, InsertEffect DEF Insert
    <2>3. ASSUME NEW d \in Calls, d = c \/ pc'[d] = pc[d]
          PROVE  AttemptsOf(d)'
      BY <1>0, <1>1, <2>1, <2>2, <2>3 DEF AttemptsOf
    <2>4. ASSUME locking, NEW d \in Calls
          PROVE  AloneWithHead(d)'
      <3>1. CASE d = c
        BY <1>1, <2>1, <2>4, <3>1 DEF AloneWithHead
      <3>2. CASE d # c
        <4>1. lock = c /\ pc[d] \notin {"locked", "built"}
          BY <1>1, <2>1, <2>4, <3>2 DEF AloneWithHead
        <4> QED
          BY <1>1, <2>1, <2>4, <3>2, <4>1 DEF AloneWithHead
      <3> QED
        BY <3>1, <3>2
    <2> QED
      BY <1>0, <2>1, <2>3, <2>4 DEF LosesInv, AttemptsCounted, LockExcludes
  <1>9. ASSUME NEW c \in Calls, Retry(c) \/ GiveUp(c)
        PROVE  LosesInv'
    <2>1. /\ pc[c] = "built" /\ Taken(prev_hash[c])
          /\ UNCHANGED <<audit_log, prev_hash, started>>
          /\ lock' = IF lock = c THEN NoCall ELSE lock
          /\ \A d \in Calls : d # c => pc'[d] = pc[d] /\ attempt'[d] = attempt[d]
          /\ \/ pc'[c] = "begin" /\ attempt'[c] = attempt[c] + 1
             \/ /\ pc'[c] = "exhausted" /\ attempt'[c] = attempt[c]
                /\ attempt[c] = MaxRetries - 1
      BY <1>0, <1>9 DEF Retry, GiveUp, EndTransaction, GoTo, TypeOK
    <2>2. Len(prev_hash[c]) + 1 <= Len(audit_log)
      BY <2>1, TakenMeansLater
    <2>3. ~locking
      BY <1>1, <2>1, HeadNotTaken DEF AloneWithHead
    <2>4. started[c] + attempt[c] + 1 <= Len(audit_log)
      BY <1>0, <1>1, <2>1, <2>2 DEF AttemptsOf
    <2>5. AttemptsOf(c)'
      <3>1. CASE pc'[c] = "begin" /\ attempt'[c] = attempt[c] + 1
        BY <1>0, <1>1, <2>1, <2>4, <3>1 DEF AttemptsOf
      <3>2. CASE /\ pc'[c] = "exhausted" /\ attempt'[c] = attempt[c]
                 /\ attempt[c] = MaxRetries - 1
        BY <1>0, <1>1, <2>1, <2>4, <3>2 DEF AttemptsOf
      <3> QED
        BY <2>1, <3>1, <3>2
    <2>6. \A d \in Calls : d # c => lock' = lock \/ (lock' # d /\ lock # d)
      BY <2>1
    <2> QED
      BY <1>4, <2>1, <2>3, <2>5, <2>6
  <1>10. ASSUME NEW c \in Calls,
                DatabaseError(c) \/ Emit(c) \/ SinkError(c) \/ Crash(c)
         PROVE  LosesInv'
    <2>1. /\ pc'[c] \in {"failed", "returned", "crashed"}
          /\ UNCHANGED <<audit_log, prev_hash, attempt, started>>
          /\ lock' = lock \/ lock' = IF lock = c THEN NoCall ELSE lock
          /\ \A d \in Calls : d # c => pc'[d] = pc[d]
      BY <1>0, <1>10
      DEF DatabaseError, Emit, SinkError, Crash, EndTransaction, GoTo, TypeOK
    <2>2. AttemptsOf(c)' /\ (locking => AloneWithHead(c)')
      BY <1>1, <2>1 DEF AttemptsOf, AloneWithHead
    <2>3. \A d \in Calls : d # c => lock' = lock \/ (lock' # d /\ lock # d)
      BY <2>1
    <2> QED
      BY <1>4, <2>1, <2>2, <2>3
  <1>11. CASE UNCHANGED vars
    BY <1>11 DEF vars, LosesInv, AttemptsCounted, AttemptsOf, LockExcludes, AloneWithHead
  <1> QED
    BY <1>5, <1>6, <1>7, <1>8, <1>9, <1>10, <1>11 DEF Next, Step

\* An append that gives up lost every attempt to another append that
\* committed while it ran; behind the advisory lock none is ever lost.
THEOREM LosesOnlyToOthersHolds == Spec => []LosesOnlyToOthers
  <1>1. Spec => [](ChainInv /\ LosesInv)
    BY InitChainInv, NextChainInv, InitLosesInv, NextLosesInv, PTL DEF Spec
  <1>2. ChainInv /\ LosesInv => LosesOnlyToOthers
    <2> SUFFICES ASSUME ChainInv, LosesInv, NEW c \in Calls
                 PROVE  /\ locking => attempt[c] = 0 /\ pc[c] # "exhausted"
                        /\ pc[c] = "exhausted" => Len(audit_log) - started[c] >= MaxRetries
      BY DEF LosesOnlyToOthers
    <2>1. AttemptsOf(c) /\ (locking => AloneWithHead(c))
      BY DEF LosesInv, AttemptsCounted, LockExcludes
    <2>2. started[c] \in Nat /\ Len(audit_log) \in Nat
      BY DEF ChainInv, TypeOK
    <2> QED
      BY <2>1, <2>2 DEF AttemptsOf, AloneWithHead
  <1> QED
    BY <1>1, <1>2, PTL

-----------------------------------------------------------------------------
(* The file.  A call writes its line once, after its row is committed.     *)

RowInTable(row) == \E j \in 1..Len(audit_log) : audit_log[j] = row

CommittedRow ==
  \A c \in Calls : pc[c] = "committed" => RowInTable(Entry(prev_hash[c], c))

LinesAreRows ==
  \A i \in 1..Len(file) : RowInTable(file[i]) /\ pc[file[i].payload] = "returned"

OneLineEach ==
  \A i, j \in 1..Len(file) : file[i].payload = file[j].payload => i = j

FileInv == CommittedRow /\ LinesAreRows /\ OneLineEach

LEMMA InitFileInv == Init => FileInv
  <1> SUFFICES ASSUME Init
               PROVE  FileInv
    OBVIOUS
  <1>1. Len(file) = 0 /\ \A c \in Calls : pc[c] = "idle"
    BY DEF Init
  <1> QED
    BY <1>1 DEF FileInv, CommittedRow, LinesAreRows, OneLineEach

\* Rows stay where they are.
LEMMA RowsStay ==
  ASSUME TypeOK, [Next]_vars, NEW row, RowInTable(row)
  PROVE  RowInTable(row)'
  <1>1. CASE UNCHANGED audit_log
    BY <1>1 DEF RowInTable
  <1>2. ASSUME NEW c \in Calls, Insert(c)
        PROVE  RowInTable(row)'
    <2>1. \A i \in 1..Len(audit_log) :
            i \in 1..Len(audit_log') /\ audit_log'[i] = audit_log[i]
      <3>1. Len(audit_log) \in Nat
        BY DEF TypeOK
      <3> QED
        BY <1>2, <3>1, InsertEffect DEF Insert
    <2> QED
      BY <2>1 DEF RowInTable
  <1> QED
    BY <1>1, <1>2
    DEF Next, Step, vars, AppendCall, TakeLock, ReadHead, Retry, GiveUp,
        DatabaseError, Emit, SinkError, Crash

LEMMA NextFileInv == TypeOK /\ FileInv /\ [Next]_vars => FileInv'
  <1> SUFFICES ASSUME TypeOK, FileInv, [Next]_vars
               PROVE  FileInv'
    OBVIOUS
  <1>0. file \in Seq(Rows) /\ Len(file) \in Nat
    BY DEF TypeOK, Rows
  <1>1. ASSUME UNCHANGED file,
               \A c \in Calls : pc[c] = "returned" => pc'[c] = "returned",
               \A c \in Calls : pc'[c] = "committed" =>
                 \/ pc[c] = "committed" /\ prev_hash'[c] = prev_hash[c]
                 \/ RowInTable(Entry(prev_hash[c], c))'
        PROVE  FileInv'
    <2>1. \A i \in 1..Len(file) : file[i].payload \in Calls
      <3>1. \A i \in 1..Len(file) : file[i] \in Rows
        BY <1>0
      <3> QED
        BY <3>1 DEF Rows
    <2>2. LinesAreRows'
      <3> SUFFICES ASSUME NEW i \in 1..Len(file)
                   PROVE  RowInTable(file[i])' /\ pc'[file[i].payload] = "returned"
        BY <1>1 DEF LinesAreRows
      <3> PICK row : row = file[i]
        OBVIOUS
      <3>1. RowInTable(row) /\ pc[row.payload] = "returned" /\ row.payload \in Calls
        BY <2>1 DEF FileInv, LinesAreRows
      <3>2. RowInTable(row)'
        BY <3>1, RowsStay
      <3>3. file'[i] = row
        BY <1>1
      <3> QED
        BY <1>1, <3>1, <3>2, <3>3 DEF RowInTable
    <2>3. CommittedRow'
      <3> SUFFICES ASSUME NEW c \in Calls, pc'[c] = "committed"
                   PROVE  RowInTable(Entry(prev_hash[c], c))'
        BY DEF CommittedRow
      <3> PICK row : row = Entry(prev_hash'[c], c)
        OBVIOUS
      <3>1. CASE pc[c] = "committed" /\ prev_hash'[c] = prev_hash[c]
        <4>1. row = Entry(prev_hash[c], c)
          BY <3>1 DEF Entry, Hash
        <4>2. RowInTable(row)
          BY <3>1, <4>1 DEF FileInv, CommittedRow
        <4>3. RowInTable(row)'
          BY <4>2, RowsStay
        <4> QED
          BY <4>3 DEF RowInTable, Entry, Hash
      <3> QED
        BY <1>1, <3>1 DEF RowInTable, Entry, Hash
    <2>4. OneLineEach'
      BY <1>1 DEF FileInv, OneLineEach
    <2> QED
      BY <2>2, <2>3, <2>4 DEF FileInv
  <1>2. ASSUME NEW c \in Calls, Emit(c)
        PROVE  FileInv'
    <2> PICK n, e : n = Len(file) /\ e = Entry(prev_hash[c], c)
      OBVIOUS
    <2>1. /\ pc[c] = "committed" /\ pc'[c] = "returned"
          /\ \A d \in Calls : d # c => pc'[d] = pc[d]
          /\ UNCHANGED <<audit_log, prev_hash>>
      BY <1>2 DEF Emit, GoTo, TypeOK
    <2>2. /\ Len(file') = n + 1
          /\ \A i \in 1..n : file'[i] = file[i]
          /\ file'[n + 1] = e
      <3>1. e \in Rows
        BY EntryTyped DEF TypeOK
      <3> QED
        BY <1>0, <1>2, <3>1 DEF Emit
    <2>3. e.payload = c /\ RowInTable(e)
      BY <2>1 DEF Entry, FileInv, CommittedRow
    <2>4. \A i \in 1..n : file[i].payload \in Calls /\ file[i].payload # c
      <3>1. \A i \in 1..n : file[i] \in Rows
        BY <1>0
      <3> QED
        BY <2>1, <3>1 DEF Rows, FileInv, LinesAreRows
    <2>5. \A i \in 1..n : RowInTable(file[i]) /\ pc'[file[i].payload] = "returned"
      BY <2>1, <2>4 DEF FileInv, LinesAreRows
    <2>6. \A i \in 1..(n + 1) : i \in 1..n \/ i = n + 1
      BY <1>0
    <2>7. LinesAreRows'
      <3> SUFFICES ASSUME NEW i \in 1..(n + 1)
                   PROVE  RowInTable(file'[i]) /\ pc'[file'[i].payload] = "returned"
        BY <2>1, <2>2 DEF LinesAreRows, RowInTable
      <3>1. CASE i \in 1..n
        BY <2>2, <2>5, <3>1
      <3>2. CASE i = n + 1
        BY <2>1, <2>2, <2>3, <3>2
      <3> QED
        BY <2>6, <3>1, <3>2
    <2>8. OneLineEach'
      <3> SUFFICES ASSUME NEW i \in 1..(n + 1), NEW j \in 1..(n + 1),
                          file'[i].payload = file'[j].payload
                   PROVE  i = j
        BY <2>2 DEF OneLineEach
      <3>1. CASE i \in 1..n /\ j \in 1..n
        BY <2>2, <3>1 DEF FileInv, OneLineEach
      <3>2. CASE i = n + 1 \/ j = n + 1
        BY <2>2, <2>3, <2>4, <2>6, <3>2
      <3> QED
        BY <2>6, <3>1, <3>2
    <2>9. CommittedRow'
      BY <2>1 DEF FileInv, CommittedRow, RowInTable, Entry, Hash
    <2> QED
      BY <2>7, <2>8, <2>9 DEF FileInv
  <1>3. ASSUME NEW c \in Calls, Insert(c)
        PROVE  FileInv'
    <2>1. /\ pc[c] = "built" /\ pc'[c] = "committed" /\ UNCHANGED <<file, prev_hash>>
          /\ \A d \in Calls : d # c => pc'[d] = pc[d]
      BY <1>3 DEF Insert, InsertRow, GoTo, TypeOK
    <2>2. RowInTable(Entry(prev_hash[c], c))'
      <3>1. Len(audit_log) + 1 \in 1..Len(audit_log')
        <4>1. Len(audit_log) \in Nat
          BY DEF TypeOK
        <4> QED
          BY <1>3, <4>1, InsertEffect DEF Insert
      <3>2. audit_log'[Len(audit_log) + 1] = Entry(prev_hash[c], c)
        BY <1>3, InsertEffect DEF Insert
      <3> QED
        BY <2>1, <3>1, <3>2 DEF RowInTable, Entry, Hash
    <2> QED
      BY <1>1, <2>1, <2>2
  <1>4. ASSUME NEW c \in Calls, AppendCall(c) \/ TakeLock(c) \/ ReadHead(c) \/ Retry(c)
        PROVE  FileInv'
    BY <1>1, <1>4 DEF AppendCall, TakeLock, ReadHead, Retry, GoTo, TypeOK
  <1>5. ASSUME NEW c \in Calls,
               GiveUp(c) \/ DatabaseError(c) \/ SinkError(c) \/ Crash(c)
        PROVE  FileInv'
    BY <1>1, <1>5 DEF GiveUp, DatabaseError, SinkError, Crash, GoTo, TypeOK, Running
  <1>6. CASE UNCHANGED vars
    BY <1>1, <1>6 DEF vars
  <1> QED
    BY <1>2, <1>3, <1>4, <1>5, <1>6 DEF Next, Step

\* Every line of the append-only file is a committed row, and no row has two.
THEOREM FileMirrorsCommittedHolds == Spec => []FileMirrorsCommitted
  <1>1. Spec => [](TypeOK /\ FileInv)
    BY InitTypeOK, NextTypeOK, InitFileInv, NextFileInv, PTL DEF Spec
  <1>2. FileInv => FileMirrorsCommitted
    BY DEF FileInv, LinesAreRows, OneLineEach, RowInTable, FileMirrorsCommitted
  <1> QED
    BY <1>1, <1>2, PTL

-----------------------------------------------------------------------------
(* The concurrent log implements the atomic one.                           *)

Payloads == [i \in 1..Len(audit_log) |-> audit_log[i].payload]

Outcome(c) ==
  IF RowsOf(c) # {} THEN "logged"
  ELSE IF pc[c] \in Ended THEN "failed" ELSE "open"

Outcomes == [c \in Calls |-> Outcome(c)]

LEMMA PayloadsTyped ==
  ASSUME TypeOK
  PROVE  Payloads \in Seq(Calls) /\ Len(Payloads) = Len(audit_log)
  <1>1. audit_log \in Seq(Rows) /\ Len(audit_log) \in Nat
    BY DEF TypeOK, Rows
  <1>2. \A i \in 1..Len(audit_log) : audit_log[i] \in Rows
    BY <1>1
  <1>3. \A i \in 1..Len(audit_log) : audit_log[i].payload \in Calls
    BY <1>2 DEF Rows
  <1>4. Payloads \in [1..Len(audit_log) -> Calls]
    BY <1>3 DEF Payloads
  <1> QED
    BY <1>1, <1>4

LEMMA InsertIsAdd ==
  ASSUME TypeOK, NEW c \in Calls, InsertRow(c)
  PROVE  Payloads' = Append(Payloads, c)
  <1> PICK n : n = Len(audit_log)
    OBVIOUS
  <1>1. n \in Nat /\ Payloads \in Seq(Calls) /\ Len(Payloads) = n
    BY PayloadsTyped DEF TypeOK
  <1>2. Entry(prev_hash[c], c).payload = c
    BY DEF Entry
  <1>3. /\ Len(audit_log') = n + 1
        /\ \A i \in 1..n : audit_log'[i] = audit_log[i]
        /\ audit_log'[n + 1].payload = c
    BY <1>2, InsertEffect
  <1>4. Payloads' = [i \in 1..(n + 1) |-> audit_log'[i].payload]
    BY <1>3 DEF Payloads
  <1>5. \A i \in 1..n : Payloads[i] = audit_log[i].payload
    BY DEF Payloads
  <1>6. \A i \in 1..(n + 1) : Payloads'[i] = IF i = n + 1 THEN c ELSE Payloads[i]
    BY <1>1, <1>3, <1>4, <1>5
  <1>7. Payloads' \in Seq(Calls) /\ Len(Payloads') = n + 1
    <2>1. \A i \in 1..(n + 1) : audit_log'[i].payload \in Calls
      <3>1. \A i \in 1..n : audit_log'[i].payload \in Calls
        BY <1>1, <1>3, <1>5
      <3> QED
        BY <1>1, <1>3, <3>1
    <2>2. Payloads' \in [1..(n + 1) -> Calls]
      BY <1>4, <2>1
    <2> QED
      BY <1>1, <2>2
  <1>8. /\ Append(Payloads, c) \in Seq(Calls) /\ Len(Append(Payloads, c)) = n + 1
        /\ \A i \in 1..(n + 1) :
             Append(Payloads, c)[i] = IF i = n + 1 THEN c ELSE Payloads[i]
    BY <1>1
  <1> QED
    BY <1>6, <1>7, <1>8, SeqEqual

LEMMA InitAtomic == Init => AtomicLog!Init
  <1> SUFFICES ASSUME Init
               PROVE  Payloads = <<>> /\ Outcomes = [c \in Calls |-> "open"]
    BY DEF AtomicLog!Init, Payloads, Outcomes, Outcome
  <1>1. Len(audit_log) = 0 /\ \A c \in Calls : pc[c] = "idle"
    BY DEF Init
  <1>2. ASSUME NEW c \in Calls
        PROVE  RowsOf(c) = {} /\ pc[c] \notin Ended
    BY <1>1 DEF RowsOf, Ended
  <1> QED
    BY <1>1, <1>2 DEF Payloads, Outcomes, Outcome

\* Only an insertion logs, and only the end of a call without a row fails it.
LEMMA NextAtomic ==
  TypeOK /\ AnswersMatchLog /\ [Next]_vars => [AtomicLog!Next]_(AtomicLog!vars)
  <1> SUFFICES ASSUME TypeOK, AnswersMatchLog, [Next]_vars
               PROVE  \/ UNCHANGED <<Payloads, Outcomes>>
                      \/ \E c \in Calls :
                           /\ Outcomes[c] = "open"
                           /\ \/ /\ Payloads' = Append(Payloads, c)
                                 /\ Outcomes' = [Outcomes EXCEPT ![c] = "logged"]
                              \/ /\ Outcomes' = [Outcomes EXCEPT ![c] = "failed"]
                                 /\ UNCHANGED Payloads
    <2>1. ASSUME NEW c \in Calls, Outcomes[c] = "open", UNCHANGED Payloads,
                 Outcomes' = [Outcomes EXCEPT ![c] = "failed"]
          PROVE  AtomicLog!Next
      <3>1. \A d \in {c} : Outcomes[d] = "open"
        BY <2>1
      <3>2. Outcomes' = [d \in Calls |-> IF d \in {c} THEN "failed" ELSE Outcomes[d]]
        BY <2>1 DEF Outcomes
      <3>3. {c} \in SUBSET Calls
        OBVIOUS
      <3> QED
        BY <2>1, <3>1, <3>2, <3>3
        DEF AtomicLog!Next, AtomicLog!Fail, Payloads, Outcomes, Outcome
    <2>2. ASSUME NEW c \in Calls, Outcomes[c] = "open", Payloads' = Append(Payloads, c),
                 Outcomes' = [Outcomes EXCEPT ![c] = "logged"]
          PROVE  AtomicLog!Next
      BY <2>2 DEF AtomicLog!Next, AtomicLog!Add, Payloads, Outcomes, Outcome
    <2> QED
      BY <2>1, <2>2 DEF AtomicLog!vars, Payloads, Outcomes, Outcome
  <1>1. ASSUME NEW c \in Calls, UNCHANGED audit_log,
               \A d \in Calls : d # c => pc'[d] = pc[d],
               pc[c] \notin Ended, pc[c] # "committed"
        PROVE  \/ UNCHANGED <<Payloads, Outcomes>>
               \/ /\ Outcomes[c] = "open" /\ UNCHANGED Payloads
                  /\ Outcomes' = [Outcomes EXCEPT ![c] = "failed"]
    <2>1. UNCHANGED Payloads /\ \A d \in Calls : RowsOf(d)' = RowsOf(d)
      BY <1>1 DEF Payloads, RowsOf
    <2>2. RowsOf(c) = {}
      BY <1>1 DEF AnswersMatchLog, Ended
    <2>3. \A d \in Calls : d # c => Outcome(d)' = Outcome(d)
      BY <1>1, <2>1 DEF Outcome
    <2>4. Outcome(c) = "open" /\ Outcome(c)' = IF pc'[c] \in Ended THEN "failed" ELSE "open"
      BY <1>1, <2>1, <2>2 DEF Outcome
    <2> QED
      BY <2>1, <2>3, <2>4 DEF Outcomes
  <1>2. ASSUME NEW c \in Calls, UNCHANGED audit_log,
               \A d \in Calls : d # c => pc'[d] = pc[d],
               pc[c] = "committed"
        PROVE  UNCHANGED <<Payloads, Outcomes>>
    <2>1. UNCHANGED Payloads /\ \A d \in Calls : RowsOf(d)' = RowsOf(d)
      BY <1>2 DEF Payloads, RowsOf
    <2>2. RowsOf(c) # {}
      BY <1>2 DEF AnswersMatchLog
    <2>3. \A d \in Calls : Outcome(d)' = Outcome(d)
      BY <1>2, <2>1, <2>2 DEF Outcome
    <2> QED
      BY <2>1, <2>3 DEF Outcomes
  <1>3. ASSUME NEW c \in Calls, Insert(c)
        PROVE  /\ Outcomes[c] = "open"
               /\ Payloads' = Append(Payloads, c)
               /\ Outcomes' = [Outcomes EXCEPT ![c] = "logged"]
    <2>1. /\ \A d \in Calls : d # c => RowsOf(d)' = RowsOf(d)
          /\ RowsOf(c)' # {}
      BY <1>3, RowsAfter DEF Insert
    <2>2. /\ pc[c] = "built" /\ \A d \in Calls : d # c => pc'[d] = pc[d]
      BY <1>3 DEF Insert, InsertRow, GoTo, TypeOK
    <2>3. RowsOf(c) = {} /\ pc[c] \notin Ended
      BY <2>2 DEF AnswersMatchLog, Ended
    <2>4. \A d \in Calls : d # c => Outcome(d)' = Outcome(d)
      BY <2>1, <2>2 DEF Outcome
    <2>5. Outcome(c) = "open" /\ Outcome(c)' = "logged"
      BY <2>1, <2>3 DEF Outcome
    <2>6. Payloads' = Append(Payloads, c)
      BY <1>3, InsertIsAdd DEF Insert
    <2> QED
      BY <2>4, <2>5, <2>6 DEF Outcomes
  <1>4. ASSUME NEW c \in Calls,
               \/ AppendCall(c) \/ TakeLock(c) \/ ReadHead(c) \/ Retry(c)
               \/ GiveUp(c) \/ DatabaseError(c)
        PROVE  /\ UNCHANGED audit_log /\ \A d \in Calls : d # c => pc'[d] = pc[d]
               /\ pc[c] \notin Ended /\ pc[c] # "committed"
    BY <1>4
    DEF AppendCall, TakeLock, ReadHead, Retry, GiveUp, DatabaseError, GoTo, TypeOK, Ended
  <1>5. ASSUME NEW c \in Calls, Emit(c) \/ SinkError(c) \/ Crash(c)
        PROVE  /\ UNCHANGED audit_log /\ \A d \in Calls : d # c => pc'[d] = pc[d]
               /\ pc[c] \notin Ended
    BY <1>5 DEF Emit, SinkError, Crash, GoTo, TypeOK, Ended, Running
  <1>6. CASE UNCHANGED vars
    BY <1>6 DEF vars, Payloads, Outcomes, Outcome, RowsOf
  <1>7. ASSUME NEW c \in Calls, AppendCall(c) \/ Step(c) \/ DatabaseError(c) \/ Crash(c)
        PROVE  \/ UNCHANGED <<Payloads, Outcomes>>
               \/ /\ Outcomes[c] = "open"
                  /\ \/ /\ Payloads' = Append(Payloads, c)
                        /\ Outcomes' = [Outcomes EXCEPT ![c] = "logged"]
                     \/ /\ Outcomes' = [Outcomes EXCEPT ![c] = "failed"]
                        /\ UNCHANGED Payloads
    BY <1>1, <1>2, <1>3, <1>4, <1>5, <1>7 DEF Step
  <1> QED
    BY <1>6, <1>7 DEF Next

\* Appends with all their reads, locks, retries and crashes are atomic: each
\* adds its entry at one instant, once, or fails without a trace.
THEOREM Implements == Spec => ImplementsAppendOnlyLog
  <1>1. Spec => [](TypeOK /\ AnswersMatchLog)
    BY InitTypeOK, NextTypeOK, InitAnswers, NextAnswers, PTL DEF Spec
  <1> QED
    BY <1>1, InitAtomic, NextAtomic, PTL DEF Spec, ImplementsAppendOnlyLog, AtomicLog!Spec

-----------------------------------------------------------------------------
(* Appends end: the safety half.                                           *)

\* On either database no transaction outlives its call.
LEMMA InitLockHeld == Init => LockHeldInTransaction
  BY DEF Init, LockHeldInTransaction

LEMMA NextLockHeld ==
  TypeOK /\ LockExcludes /\ LockHeldInTransaction /\ [Next]_vars => LockHeldInTransaction'
  <1> SUFFICES ASSUME TypeOK, LockExcludes, LockHeldInTransaction, [Next]_vars,
                      lock' # NoCall
               PROVE  locking' /\ pc'[lock'] \in {"locked", "built"}
    BY DEF LockHeldInTransaction
  <1>1. locking' = locking
    BY LockingFixed
  <1>2. ASSUME NEW c \in Calls, AppendCall(c)
        PROVE  locking' /\ pc'[lock'] \in {"locked", "built"}
    BY <1>1, <1>2 DEF AppendCall, GoTo, TypeOK, LockHeldInTransaction
  <1>3. ASSUME NEW c \in Calls, TakeLock(c)
        PROVE  locking' /\ pc'[lock'] \in {"locked", "built"}
    BY <1>1, <1>3 DEF TakeLock, GoTo, TypeOK
  <1>4. ASSUME NEW c \in Calls, ReadHead(c)
        PROVE  locking' /\ pc'[lock'] \in {"locked", "built"}
    BY <1>1, <1>4 DEF ReadHead, GoTo, TypeOK, LockHeldInTransaction
  <1>5. ASSUME NEW c \in Calls, EndTransaction(c), \E l : GoTo(c, l)
        PROVE  locking' /\ pc'[lock'] \in {"locked", "built"}
    BY <1>1, <1>5 DEF EndTransaction, GoTo, TypeOK, LockHeldInTransaction
  <1>6. ASSUME NEW c \in Calls, Emit(c) \/ SinkError(c)
        PROVE  locking' /\ pc'[lock'] \in {"locked", "built"}
    BY <1>1, <1>6 DEF Emit, SinkError, GoTo, TypeOK, LockHeldInTransaction
  <1>7. CASE UNCHANGED vars
    BY <1>7 DEF vars, LockHeldInTransaction
  <1> QED
    BY <1>2, <1>3, <1>4, <1>5, <1>6, <1>7
    DEF Next, Step, Insert, InsertRow, Retry, GiveUp, DatabaseError, Crash

\* The advisory lock never outlives the transaction that took it, however the
\* calls fail or die, and is not taken at all on SQLite.
THEOREM LockIsHeldInTransaction == Spec => []LockHeldInTransaction
  <1>1. Spec => [](ChainInv /\ LosesInv)
    BY InitChainInv, NextChainInv, InitLosesInv, NextLosesInv, PTL DEF Spec
  <1>2. ChainInv /\ LosesInv => TypeOK /\ LockExcludes
    BY DEF ChainInv, LosesInv
  <1> QED
    BY <1>1, <1>2, InitLockHeld, NextLockHeld, PTL DEF Spec

\* What is left depends on where the call is and on its lost attempts.
LEMMA StepsLeftIsNat == TypeOK => \A c \in Calls : StepsLeft(c) \in Nat
  <1> SUFFICES ASSUME TypeOK, NEW c \in Calls
               PROVE  StepsLeft(c) \in Nat
    OBVIOUS
  <1>1. attempt[c] \in 0..(MaxRetries - 1)
    BY DEF TypeOK
  <1> QED
    BY <1>1 DEF StepsLeft

\* A step is nearer to the end in one call, and the others stay where they are.
LEMMA StepIsProgress ==
  ASSUME TypeOK, LosesInv, Next
  PROVE  \E c \in Calls :
           /\ StepsLeft(c)' < StepsLeft(c)
           /\ \A d \in Calls \ {c} : pc'[d] = pc[d] /\ attempt'[d] = attempt[d]
  <1> DEFINE Nearer(c) == StepsLeft(c)' < StepsLeft(c)
             Alone(c)  == \A d \in Calls \ {c} : pc'[d] = pc[d] /\ attempt'[d] = attempt[d]
  <1>1. PICK c \in Calls : AppendCall(c) \/ Step(c) \/ DatabaseError(c) \/ Crash(c)
    BY DEF Next
  <1>2. /\ attempt[c] \in Nat /\ attempt[c] + 1 <= MaxRetries /\ MaxRetries \in Nat
        /\ pc \in [Calls -> {"idle"} \cup Running \cup Ended]
        /\ attempt \in [Calls -> 0..(MaxRetries - 1)]
    BY DEF TypeOK
  <1>3. CASE AppendCall(c)
    <2>1. pc[c] = "idle" /\ pc'[c] = "begin" /\ attempt' = attempt
      BY <1>2, <1>3 DEF AppendCall, GoTo
    <2>2. Nearer(c)
      BY <1>2, <2>1 DEF StepsLeft
    <2> QED
      BY <1>2, <1>3, <2>1, <2>2 DEF AppendCall, GoTo
  <1>4. CASE TakeLock(c)
    <2>1. pc[c] = "begin" /\ pc'[c] = "locked" /\ attempt' = attempt
      BY <1>2, <1>4 DEF TakeLock, GoTo
    <2>2. Nearer(c)
      BY <1>2, <2>1 DEF StepsLeft
    <2> QED
      BY <1>2, <1>4, <2>1, <2>2 DEF TakeLock, GoTo
  <1>5. CASE ReadHead(c)
    <2>1. pc[c] \in {"begin", "locked"} /\ pc'[c] = "built" /\ attempt' = attempt
      BY <1>2, <1>5 DEF ReadHead, GoTo
    <2>2. Nearer(c)
      BY <1>2, <2>1 DEF StepsLeft
    <2> QED
      BY <1>2, <1>5, <2>1, <2>2 DEF ReadHead, GoTo
  <1>6. CASE Insert(c)
    <2>1. pc[c] = "built" /\ pc'[c] = "committed" /\ attempt' = attempt
      BY <1>2, <1>6 DEF Insert, InsertRow, GoTo
    <2>2. Nearer(c)
      BY <1>2, <2>1 DEF StepsLeft
    <2> QED
      BY <1>2, <1>6, <2>1, <2>2 DEF Insert, InsertRow, GoTo
  <1>7. CASE Retry(c)
    <2>1. /\ pc[c] = "built" /\ pc'[c] = "begin"
          /\ attempt'[c] = attempt[c] + 1
      BY <1>2, <1>7 DEF Retry, GoTo
    <2>2. Nearer(c)
      BY <1>2, <2>1 DEF StepsLeft
    <2> QED
      BY <1>2, <1>7, <2>1, <2>2 DEF Retry, GoTo
  <1>8. ASSUME NEW l \in Ended, pc[c] \in Running, GoTo(c, l), attempt' = attempt
        PROVE  Nearer(c) /\ Alone(c)
    <2>1. pc'[c] = l
      BY <1>2, <1>8 DEF GoTo
    <2>2. Nearer(c)
      BY <1>2, <1>8, <2>1 DEF StepsLeft, Running, Ended
    <2> QED
      BY <1>2, <1>8, <2>2 DEF GoTo
  <1>9. CASE GiveUp(c) \/ DatabaseError(c) \/ Crash(c) \/ Emit(c) \/ SinkError(c)
    <2>1. pc[c] \in Running /\ attempt' = attempt /\ \E l \in Ended : GoTo(c, l)
      BY <1>9 DEF GiveUp, DatabaseError, Crash, Emit, SinkError, Running, Ended
    <2> QED
      BY <1>8, <2>1
  <1> QED
    BY <1>1, <1>3, <1>4, <1>5, <1>6, <1>7, <1>9 DEF Step

\* No schedule, no retry and no crash keeps an append from its end: each of its
\* steps uses up one of the at most 4 * MaxRetries + 4 it has.
THEOREM EveryStepIsAlwaysProgress == Spec => EveryStepIsProgress
  <1>1. Spec => [](TypeOK /\ LosesInv)
    <2>1. ChainInv => TypeOK
      BY DEF ChainInv
    <2> QED
      BY InitChainInv, NextChainInv, InitLosesInv, NextLosesInv, <2>1, PTL DEF Spec
  <1>2. ASSUME TypeOK, TypeOK', LosesInv, Next
        PROVE  \E c \in Calls :
                 /\ StepsLeft(c) \in Nat /\ StepsLeft(c)' \in Nat
                 /\ StepsLeft(c)' < StepsLeft(c)
                 /\ \A d \in Calls \ {c} : StepsLeft(d)' = StepsLeft(d)
    <2>1. PICK c \in Calls :
            /\ StepsLeft(c)' < StepsLeft(c)
            /\ \A d \in Calls \ {c} : pc'[d] = pc[d] /\ attempt'[d] = attempt[d]
      BY <1>2, StepIsProgress
    <2>2. \A d \in Calls \ {c} : StepsLeft(d)' = StepsLeft(d)
      BY <2>1 DEF StepsLeft
    <2>3. StepsLeft(c) \in Nat
      BY <1>2, StepsLeftIsNat
    <2>4. StepsLeft(c)' \in Nat
      <3>1. attempt'[c] \in 0..(MaxRetries - 1)
        BY <1>2 DEF TypeOK
      <3> QED
        BY <3>1 DEF StepsLeft
    <2> QED
      BY <2>1, <2>2, <2>3, <2>4
  <1>3. TypeOK /\ TypeOK' /\ LosesInv /\ [Next]_vars =>
          [\E c \in Calls :
             /\ StepsLeft(c) \in Nat /\ StepsLeft(c)' \in Nat
             /\ StepsLeft(c)' < StepsLeft(c)
             /\ \A d \in Calls \ {c} : StepsLeft(d)' = StepsLeft(d)]_vars
    BY <1>2
  <1> QED
    BY <1>1, <1>3, PTL DEF Spec, EveryStepIsProgress
=============================================================================
