------------------------- MODULE PostgresLedgerProofs -------------------------
(***************************************************************************)
(* PostgresLedger for every set of stores and entries and every bound: the *)
(* first part in every environment, the second when nothing writes while a *)
(* flush awaits and no flush fails after its commit took effect.  The last *)
(* part is about TraceLedger, the other chain of rows the platform keeps   *)
(* in PostgreSQL.                                                          *)
(***************************************************************************)
EXTENDS PostgresLedger, TraceLedger, HashChainProofs

\* A step of one store is no step of another: only the ids drawn are shared.
LEMMA OthersStay ==
    ASSUME TypeOK, NEW s \in Stores, StoreStep(s), NEW t \in Stores, t # s
    PROVE  /\ pool'[t] = pool[t] /\ buffer'[t] = buffer[t] /\ last_hash'[t] = last_hash[t]
           /\ pc'[t] = pc[t] /\ txn'[t] = txn[t] /\ stored'[t] = stored[t]
           /\ ids'[t] = ids[t] /\ written'[t] = written[t]
<1> USE DEF TypeOK
<1>1. ASSUME NEW e \in Entries, Write(s, e)
      PROVE  UNCHANGED <<pool[t], buffer[t], last_hash[t], pc[t], txn[t], stored[t], ids[t],
                         written[t]>>
  BY <1>1 DEF Write
<1>2. CASE FlushNothing(s) \/ FlushBegin(s) \/ FlushInsert(s) \/ FlushSendCommit(s)
            \/ FlushClear(s) \/ Close(s)
  BY <1>2 DEF FlushNothing, FlushBegin, FlushInsert, Insert, FlushSendCommit, FlushClear, Close
<1>3. CASE FlushCommit(s) \/ FlushRollback(s) \/ FlushLateFailure(s) \/ Crash(s)
  BY <1>3 DEF FlushCommit, FlushRollback, FlushLateFailure, Crash, Fails, Commit, Abort
<1> QED
  BY <1>1, <1>2, <1>3 DEF StoreStep

\* What a step may do to the rows of its store: insert one more with a new id,
\* commit the transaction, abort it, or nothing.
LEMMA RowsMove ==
    ASSUME TypeOK, NEW s \in Stores, StoreStep(s)
    PROVE  \/ UNCHANGED <<txn, stored, ids, drawn>>
           \/ FlushInsert(s)
           \/ Commit(s) /\ drawn' = drawn
           \/ Abort(s) /\ drawn' = drawn
BY DEF StoreStep, Write, FlushNothing, FlushBegin, FlushSendCommit, FlushClear, Close,
       FlushCommit, FlushRollback, FlushLateFailure, Crash

Typed == TypeOK /\ \A s \in Stores : IdsInv(s)

\* The beginning of a sequence.
LEMMA Beginning ==
    ASSUME NEW S, NEW q \in Seq(S), NEW k \in 0 .. Len(q)
    PROVE  /\ SubSeq(q, 1, k) \in Seq(S) /\ Len(SubSeq(q, 1, k)) = k
           /\ \A n \in 1 .. k : n \in 1 .. Len(q) /\ SubSeq(q, 1, k)[n] = q[n]
<1>1. Len(q) \in Nat
  BY LenProperties
<1>2. \A n \in 1 .. k : n \in 1 .. Len(q) /\ q[n] \in S
  BY <1>1, ElementOfSeq
<1> QED
  BY <1>1, <1>2, SubSeqProperties

\* An aborted transaction takes the ids it drew with it.
LEMMA AbortIds ==
    ASSUME Typed, NEW s \in Stores
    PROVE  LET q == SubSeq(ids[s], 1, Len(stored[s]))
           IN  /\ q \in Seq(Nat) /\ Len(q) = Len(stored[s])
               /\ \A n \in 1 .. Len(stored[s]) : n \in 1 .. Len(ids[s]) /\ q[n] = ids[s][n]
<1>1. /\ ids[s] \in Seq(Nat) /\ Len(ids[s]) \in Nat /\ Len(stored[s]) \in Nat /\ Len(txn[s]) \in Nat
  BY LenProperties DEF Typed, TypeOK
<1>2. Len(ids[s]) = Len(stored[s]) + Len(txn[s])
  BY DEF Typed, IdsInv
<1>3. Len(stored[s]) \in 0 .. Len(ids[s])
  <2>1. ASSUME NEW a \in Nat, NEW b \in Nat
        PROVE  a \in 0 .. a + b
    OBVIOUS
  <2> QED
    BY <1>1, <1>2, <2>1
<1> QED
  BY <1>1, <1>3, Beginning

LEMMA TypedStep ==
    ASSUME Typed, [Next]_vars
    PROVE  Typed'
<1> USE DEF Typed, TypeOK
<1>1. ASSUME NEW s \in Stores, StoreStep(s)
      PROVE  Typed'
  <2>0. /\ \A t \in Stores : Len(ids[t]) \in Nat /\ Len(stored[t]) \in Nat /\ Len(txn[t]) \in Nat
                             /\ Len(buffer[t]) \in Nat
        /\ << >> \in Seq(Rows(Entries)) /\ Len(<< >>) = 0
    BY LenProperties, EmptySeq
  <2> DEFINE MemoryOK ==
                 /\ pool' = pool
                 /\ buffer' \in [Stores -> Seq(Rows(Entries))]
                 /\ last_hash' \in [Stores -> Seq(Entries)]
                 /\ pc' \in [Stores -> Phases] /\ written' \in [Stores -> Seq(Entries)]
                 /\ failures' \in Nat
  <2>1. MemoryOK
    <3>1. ASSUME NEW e \in Entries, Write(s, e)
          PROVE  MemoryOK
      <4>1. Row(e, last_hash[s]) \in Rows(Entries) /\ Hash(e, last_hash[s]) \in Seq(Entries)
        BY RowType
      <4>2. /\ Append(buffer[s], Row(e, last_hash[s])) \in Seq(Rows(Entries))
            /\ Append(written[s], e) \in Seq(Entries)
        BY <4>1, AppendProperties
      <4> QED
        BY <3>1, <4>1, <4>2 DEF Write
    <3>2. CASE FlushNothing(s) \/ FlushBegin(s) \/ FlushInsert(s) \/ FlushSendCommit(s)
                \/ FlushClear(s) \/ Close(s)
      BY <2>0, <3>2 DEF FlushNothing, FlushBegin, FlushInsert, FlushSendCommit, FlushClear, Close,
                        Phases, Flushing
    <3>3. CASE FlushCommit(s) \/ FlushRollback(s) \/ FlushLateFailure(s) \/ Crash(s)
      <4>1. CASE FlushCommit(s) \/ Crash(s)
        BY <2>0, <4>1 DEF FlushCommit, Crash, Phases, Flushing
      <4>2. CASE FlushRollback(s) \/ FlushLateFailure(s)
        <5>1. /\ pool' = pool /\ buffer' = buffer /\ last_hash' = last_hash /\ written' = written
              /\ pc' = [pc EXCEPT ![s] = "idle"] /\ failures' = failures + 1
          BY <4>2 DEF FlushRollback, FlushLateFailure, Fails
        <5> QED
          BY <5>1 DEF Phases
      <4> QED
        BY <3>3, <4>1, <4>2
    <3>4. \/ \E e \in Entries : Write(s, e)
          \/ FlushNothing(s) \/ FlushBegin(s) \/ FlushInsert(s) \/ FlushSendCommit(s)
                \/ FlushClear(s) \/ Close(s)
          \/ FlushCommit(s) \/ FlushRollback(s) \/ FlushLateFailure(s) \/ Crash(s)
      BY <1>1 DEF StoreStep
    <3> QED
      <4> HIDE DEF Typed, TypeOK, MemoryOK
      <4> QED
        BY <3>1, <3>2, <3>3, <3>4
  <2>2. /\ txn' \in [Stores -> Seq(Rows(Entries))] /\ stored' \in [Stores -> Seq(Rows(Entries))]
        /\ ids' \in [Stores -> Seq(Nat)] /\ drawn' \in Nat
        /\ \A t \in Stores : IdsInv(t)'
    <3>0. ASSUME ids'[s] \in Seq(Nat), IdsInv(s)', drawn' \in {drawn, drawn + 1}
          PROVE  \A t \in Stores : IdsInv(t)'
      <4>1. ASSUME NEW t \in Stores, t # s
            PROVE  IdsInv(t)'
        <5>1. /\ ids'[t] = ids[t] /\ stored'[t] = stored[t] /\ txn'[t] = txn[t]
              /\ drawn' >= drawn /\ drawn' \in Nat
          BY <1>1, <3>0, <4>1, OthersStay
        <5>2. /\ Len(ids[t]) = Len(stored[t]) + Len(txn[t])
              /\ \A n \in 1 .. Len(ids[t]) : ids[t][n] \in 1 .. drawn
              /\ \A m, n \in 1 .. Len(ids[t]) : m < n => ids[t][m] < ids[t][n]
          BY DEF IdsInv
        <5>3. \A n \in 1 .. Len(ids[t]) : ids[t][n] \in 1 .. drawn'
          BY <5>1, <5>2
        <5> QED
          BY <5>1, <5>2, <5>3 DEF IdsInv
      <4> QED
        BY <3>0, <4>1
    <3>1. CASE UNCHANGED <<txn, stored, ids, drawn>>
      BY <3>1 DEF IdsInv
    <3>2. CASE FlushInsert(s)
      <4>1. Len(txn[s]) + 1 \in 1 .. Len(buffer[s])
        BY <2>0, <3>2 DEF FlushInsert
      <4>2. buffer[s][Len(txn[s]) + 1] \in Rows(Entries)
        BY <4>1, ElementOfSeq
      <4>3. /\ txn'[s] \in Seq(Rows(Entries)) /\ Len(txn'[s]) = Len(txn[s]) + 1
            /\ txn' \in [Stores -> Seq(Rows(Entries))] /\ stored' = stored
        BY <3>2, <4>2, AppendProperties DEF FlushInsert, Insert
      <4>4. /\ ids'[s] \in Seq(Nat) /\ Len(ids'[s]) = Len(ids[s]) + 1
            /\ ids'[s][Len(ids[s]) + 1] = drawn + 1
            /\ \A n \in 1 .. Len(ids[s]) : ids'[s][n] = ids[s][n]
            /\ ids' \in [Stores -> Seq(Nat)] /\ drawn' = drawn + 1
        BY <3>2, AppendProperties DEF FlushInsert, Insert
      <4>5. /\ \A n \in 1 .. Len(ids[s]) : ids[s][n] \in 1 .. drawn
            /\ \A m, n \in 1 .. Len(ids[s]) : m < n => ids[s][m] < ids[s][n]
            /\ Len(ids[s]) = Len(stored[s]) + Len(txn[s])
        BY DEF IdsInv
      <4>6. IdsInv(s)'
        <5>1. Len(ids'[s]) = Len(stored'[s]) + Len(txn'[s])
          BY <2>0, <4>3, <4>4, <4>5
        <5>0. drawn \in Nat /\ drawn' = drawn + 1
          BY <2>0, <4>4
        <5>2. ASSUME NEW n \in 1 .. Len(ids'[s])
              PROVE  ids'[s][n] \in 1 .. drawn' /\ (n # Len(ids[s]) + 1 => n \in 1 .. Len(ids[s]))
          <6>1. Len(ids[s]) \in Nat /\ (n = Len(ids[s]) + 1 \/ n \in 1 .. Len(ids[s]))
            BY <2>0, <4>4
          <6>2. CASE n \in 1 .. Len(ids[s])
            <7>1. ids'[s][n] = ids[s][n] /\ ids[s][n] \in 1 .. drawn
              BY <4>4, <4>5, <6>2
            <7>2. ids'[s][n] \in 1 .. drawn'
              BY ONLY <5>0, <7>1
            <7> QED
              BY ONLY <6>2, <7>2
          <6>3. CASE n = Len(ids[s]) + 1
            <7>1. ids'[s][n] = drawn + 1
              BY <4>4, <6>3
            <7> QED
              BY ONLY <5>0, <6>3, <7>1
          <6> QED
            BY ONLY <6>1, <6>2, <6>3
        <5>3. ASSUME NEW m \in 1 .. Len(ids'[s]), NEW n \in 1 .. Len(ids'[s]), m < n
              PROVE  ids'[s][m] < ids'[s][n]
          <6>1. m \in 1 .. Len(ids[s])
            BY <2>0, <4>4, <5>3
          <6>2. CASE n \in 1 .. Len(ids[s])
            BY <4>4, <4>5, <5>3, <6>1, <6>2
          <6>3. CASE n = Len(ids[s]) + 1
            <7>1. ids[s][m] \in 1 .. drawn
              BY <4>5, <6>1
            <7>2. ids'[s][m] = ids[s][m] /\ ids'[s][n] = drawn + 1
              BY <4>4, <6>1, <6>3
            <7> QED
              BY ONLY <5>0, <7>1, <7>2
          <6> QED
            BY <5>2, <6>2, <6>3
        <5> QED
          BY <5>1, <5>2, <5>3 DEF IdsInv
      <4> QED
        BY <3>0, <4>3, <4>4, <4>6
    <3>3. CASE Commit(s) /\ drawn' = drawn
      <4>1. /\ stored[s] \o txn[s] \in Seq(Rows(Entries))
            /\ Len(stored[s] \o txn[s]) = Len(stored[s]) + Len(txn[s])
        BY ConcatProperties
      <4>2. /\ stored' = [stored EXCEPT ![s] = stored[s] \o txn[s]]
            /\ txn' = [txn EXCEPT ![s] = << >>] /\ ids' = ids
        BY <3>3 DEF Commit
      <4>3. /\ stored'[s] = stored[s] \o txn[s] /\ txn'[s] = << >>
            /\ stored' \in [Stores -> Seq(Rows(Entries))] /\ txn' \in [Stores -> Seq(Rows(Entries))]
        BY <2>0, <4>1, <4>2
      <4>4. IdsInv(s)'
        BY <2>0, <3>3, <4>1, <4>2, <4>3 DEF IdsInv
      <4> QED
        BY <3>0, <3>3, <4>2, <4>3, <4>4
    <3>4. CASE Abort(s) /\ drawn' = drawn
      <4> DEFINE q == SubSeq(ids[s], 1, Len(stored[s]))
      <4>1. /\ q \in Seq(Nat) /\ Len(q) = Len(stored[s])
            /\ \A n \in 1 .. Len(stored[s]) : n \in 1 .. Len(ids[s]) /\ q[n] = ids[s][n]
        BY AbortIds
      <4>2. /\ stored' = stored /\ txn' = [txn EXCEPT ![s] = << >>]
            /\ ids' = [ids EXCEPT ![s] = q]
        BY <3>4 DEF Abort
      <4> HIDE DEF q
      <4>3. /\ ids'[s] = q /\ txn'[s] = << >>
            /\ txn' \in [Stores -> Seq(Rows(Entries))] /\ ids' \in [Stores -> Seq(Nat)]
        BY <2>0, <4>1, <4>2
      <4>4. IdsInv(s)'
        <5>1. /\ \A n \in 1 .. Len(ids[s]) : ids[s][n] \in 1 .. drawn
              /\ \A m, n \in 1 .. Len(ids[s]) : m < n => ids[s][m] < ids[s][n]
          BY DEF IdsInv
        <5>2. /\ \A n \in 1 .. Len(q) : q[n] \in 1 .. drawn
              /\ \A m, n \in 1 .. Len(q) : m < n => q[m] < q[n]
          <6>1. ASSUME NEW n \in 1 .. Len(q)
                PROVE  n \in 1 .. Len(ids[s]) /\ q[n] = ids[s][n]
            BY <4>1
          <6> QED
            BY <5>1, <6>1
        <5>3. Len(q) = Len(stored[s]) + Len(<< >>)
          BY <2>0, <4>1
        <5> QED
          BY <3>4, <4>2, <4>3, <5>2, <5>3 DEF IdsInv
      <4> QED
        BY <3>0, <3>4, <4>1, <4>2, <4>3, <4>4
    <3> QED
      BY <1>1, <3>1, <3>2, <3>3, <3>4, RowsMove
  <2> QED
    BY <2>1, <2>2
<1>2. CASE UNCHANGED vars
  BY <1>2 DEF vars, IdsInv
<1> QED
  BY <1>1, <1>2 DEF Next

\* The ids of a store's rows grow, as those of BIGSERIAL do.
THEOREM TypedAlways == Spec => []Typed
<1>1. Init => Typed
  <2> SUFFICES ASSUME Init PROVE Typed
    OBVIOUS
  <2>1. << >> \in Seq(Rows(Entries)) /\ << >> \in Seq(Entries) /\ << >> \in Seq(Nat) /\ Len(<< >>) = 0
    BY EmptySeq
  <2> QED
    BY <2>1 DEF Init, Typed, TypeOK, IdsInv, Genesis, Phases
<1> QED
  BY <1>1, TypedStep, PTL DEF Spec

\* Every variable keeps its type: no step of write, flush_async, close or a crash
\* stores anything but rows built by write().
THEOREM TypeCorrect == Spec => []TypeOK
<1>1. Typed => TypeOK
  BY DEF Typed
<1> QED
  BY <1>1, TypedAlways, PTL

-------------------------------------------------------------------------------
\* One more id of the table.
Adds(rows, i) == IF \E s \in Stores : Owns(s, i) THEN Append(rows, RowAt(i)) ELSE rows

\* verify_chain() reads the rows by id: the recursion of TableTo begins with none.
LEMMA TableUnfold ==
    ASSUME drawn \in Nat
    PROVE  TableTo = [i \in 0 .. drawn |-> IF i = 0 THEN << >> ELSE Adds(TableTo[i - 1], i)]
<1> DEFINE Fits(f, k) == f = [i \in 0 .. k |-> IF i = 0 THEN << >> ELSE Adds(f[i - 1], i)]
           Bad == {k \in 1 .. drawn : ~ \E f : Fits(f, k)}
<1>1. TableTo = CHOOSE f : Fits(f, drawn)
  BY DEF TableTo, Adds
<1>2. \E f : Fits(f, 0)
  <2>1. Fits([i \in 0 .. 0 |-> << >>], 0)
    OBVIOUS
  <2> QED
    BY <2>1
<1>3. ASSUME Bad # {}
      PROVE  FALSE
  <2>1. PICK m \in Bad : \A k \in Bad : m <= k
    <3>1. Bad \in SUBSET (1 .. drawn)
      OBVIOUS
    <3> HIDE DEF Bad
    <3> QED
      BY <1>3, <3>1, FirstPosition
  <2>2. m \in 1 .. drawn /\ ~ \E f : Fits(f, m)
    OBVIOUS
  <2>3. \E f : Fits(f, m - 1)
    <3>1. CASE m = 1
      BY <1>2, <3>1
    <3>2. CASE m # 1
      <4>1. m - 1 \in 1 .. drawn /\ ~ (m <= m - 1)
        BY <2>2, <3>2
      <4>2. m - 1 \notin Bad
        BY <2>1, <4>1
      <4> QED
        BY <4>1, <4>2
    <3> QED
      BY <3>1, <3>2
  <2> HIDE DEF Bad
  <2>4. PICK f : Fits(f, m - 1)
    BY <2>3
  <2> DEFINE g == [i \in 0 .. m |-> IF i = m THEN Adds(f[m - 1], m) ELSE f[i]]
             h == [i \in 0 .. m |-> IF i = 0 THEN << >> ELSE Adds(g[i - 1], i)]
  <2>5. ASSUME NEW i \in 0 .. m
        PROVE  g[i] = h[i]
    <3>1. i # 0 => i - 1 \in 0 .. m - 1 /\ g[i - 1] = f[i - 1]
      BY <2>2
    <3>2. i # m => i \in 0 .. m - 1
      BY <2>2
    <3>3. \A u \in 0 .. m - 1 : f[u] = IF u = 0 THEN << >> ELSE Adds(f[u - 1], u)
      BY <2>4
    <3>4. m # 0
      BY <2>2
    <3> QED
      BY <3>1, <3>2, <3>3, <3>4
  <2>6. g = h
    BY <2>5
  <2>7. Fits(g, m)
    BY <2>6
  <2> QED
    BY <2>2, <2>7
<1>4. \E f : Fits(f, drawn)
  <2>1. CASE drawn = 0
    BY <1>2, <2>1
  <2>2. CASE drawn # 0
    <3>1. drawn \in 1 .. drawn
      BY <2>2
    <3>2. drawn \notin Bad
      BY <1>3
    <3> QED
      BY <3>1, <3>2
  <2> QED
    BY <2>1, <2>2
<1> HIDE DEF Fits
<1>5. Fits(TableTo, drawn)
  BY <1>1, <1>4
<1> QED
  BY <1>5 DEF Fits

\* What holds of no rows, and of the rows up to one id when it holds of those before
\* it, holds of the table.
LEMMA TableInduction ==
    ASSUME drawn \in Nat, NEW G,
           << >> \in G[0],
           \A i \in 1 .. drawn : TableTo[i - 1] \in G[i - 1] => Adds(TableTo[i - 1], i) \in G[i]
    PROVE  Table \in G[drawn]
<1> DEFINE Bad == {i \in 1 .. drawn : TableTo[i] \notin G[i]}
<1>1. \A i \in 0 .. drawn : TableTo[i] = IF i = 0 THEN << >> ELSE Adds(TableTo[i - 1], i)
  BY TableUnfold
<1>2. TableTo[0] \in G[0]
  BY <1>1
<1>3. ASSUME Bad # {}
      PROVE  FALSE
  <2>1. PICK m \in Bad : \A k \in Bad : m <= k
    <3>1. Bad \in SUBSET (1 .. drawn)
      OBVIOUS
    <3> HIDE DEF Bad
    <3> QED
      BY <1>3, <3>1, FirstPosition
  <2>2. m \in 1 .. drawn /\ TableTo[m] \notin G[m]
    OBVIOUS
  <2>3. TableTo[m - 1] \in G[m - 1]
    <3>1. CASE m = 1
      BY <1>2, <3>1
    <3>2. CASE m # 1
      <4>1. m - 1 \in 1 .. drawn /\ ~ (m <= m - 1)
        BY <2>2, <3>2
      <4>2. m - 1 \notin Bad
        BY <2>1, <4>1
      <4> QED
        BY <4>1, <4>2
    <3> QED
      BY <3>1, <3>2
  <2>4. TableTo[m] = Adds(TableTo[m - 1], m)
    <3>1. m \in 0 .. drawn /\ m # 0
      BY <2>2
    <3> QED
      BY <1>1, <3>1
  <2> QED
    BY <2>2, <2>3, <2>4
<1>4. CASE drawn = 0
  BY <1>2, <1>4 DEF Table
<1>5. CASE drawn # 0
  <2>1. drawn \in 1 .. drawn
    BY <1>5
  <2>2. drawn \notin Bad
    BY <1>3
  <2> QED
    BY <2>1, <2>2 DEF Table
<1> QED
  BY <1>4, <1>5

\* Every row of the table is one that some store has committed.
LEMMA TableRows ==
    ASSUME Typed
    PROVE  /\ Table \in Seq(Rows(Entries))
           /\ \A k \in 1 .. Len(Table) :
                 \E s \in Stores : \E n \in 1 .. Len(stored[s]) : Table[k] = stored[s][n]
<1> USE DEF Typed, TypeOK
<1> DEFINE Of(r) == \E s \in Stores : \E n \in 1 .. Len(stored[s]) : r = stored[s][n]
           Good == {q \in Seq(Rows(Entries)) : \A k \in 1 .. Len(q) : Of(q[k])}
           G == [i \in 0 .. drawn |-> Good]
<1>1. << >> \in G[0]
  BY EmptySeq
<1>2. ASSUME NEW i \in 1 .. drawn, TableTo[i - 1] \in G[i - 1]
      PROVE  Adds(TableTo[i - 1], i) \in G[i]
  <2> DEFINE q == TableTo[i - 1]
  <2>1. i - 1 \in 0 .. drawn /\ i \in 0 .. drawn
    OBVIOUS
  <2>2. q \in Good
    BY <1>2, <2>1
  <2> HIDE DEF q, Good
  <2>3. CASE ~ \E s \in Stores : Owns(s, i)
    BY <2>1, <2>2, <2>3 DEF Adds, q
  <2>4. CASE \E s \in Stores : Owns(s, i)
    <3> DEFINE s == CHOOSE s \in Stores : Owns(s, i)
               n == CHOOSE n \in DOMAIN stored[s] : ids[s][n] = i
    <3>1. s \in Stores /\ Owns(s, i)
      BY <2>4
    <3> HIDE DEF s
    <3>2. n \in DOMAIN stored[s]
      BY <3>1 DEF Owns
    <3>3. n \in 1 .. Len(stored[s]) /\ stored[s] \in Seq(Rows(Entries))
      BY <3>1, <3>2, LenProperties
    <3>4. RowAt(i) = stored[s][n]
      BY DEF RowAt, s
    <3> HIDE DEF n
    <3>5. RowAt(i) \in Rows(Entries) /\ Of(RowAt(i))
      BY <3>1, <3>3, <3>4, ElementOfSeq
    <3> HIDE DEF Of
    <3>6. Append(q, RowAt(i)) \in Good
      <4>1. q \in Seq(Rows(Entries)) /\ Len(q) \in Nat /\ \A k \in 1 .. Len(q) : Of(q[k])
        BY <2>2, LenProperties DEF Good
      <4>2. /\ Append(q, RowAt(i)) \in Seq(Rows(Entries))
            /\ Len(Append(q, RowAt(i))) = Len(q) + 1
            /\ Append(q, RowAt(i))[Len(q) + 1] = RowAt(i)
            /\ \A k \in 1 .. Len(q) : Append(q, RowAt(i))[k] = q[k]
        BY <3>5, <4>1, AppendProperties
      <4>3. ASSUME NEW k \in 1 .. Len(q) + 1
            PROVE  Of(Append(q, RowAt(i))[k])
        <5>1. k \in 1 .. Len(q) \/ k = Len(q) + 1
          BY <4>1
        <5> QED
          BY <3>5, <4>1, <4>2, <5>1
      <4> QED
        BY <4>2, <4>3 DEF Good
    <3> QED
      BY <2>1, <2>4, <3>6 DEF Adds, q
  <2> QED
    BY <2>3, <2>4
<1>3. drawn \in Nat /\ drawn \in 0 .. drawn
  OBVIOUS
<1>4. Table \in G[drawn]
  <2> HIDE DEF G, Typed, TypeOK
  <2> QED
    BY <1>1, <1>2, <1>3, TableInduction
<1> QED
  BY <1>3, <1>4

\* When one store alone has committed rows, the table is what it has committed.
LEMMA TableOfOne ==
    ASSUME Typed, NEW s \in Stores, OnlyOne(s)
    PROVE  Table = stored[s]
<1> USE DEF Typed, TypeOK
<1> DEFINE q == stored[s]
           K(i) == {k \in 0 .. Len(q) : /\ \A n \in 1 .. k : ids[s][n] <= i
                                        /\ \A n \in k + 1 .. Len(q) : ids[s][n] > i}
           G == [i \in 0 .. drawn |-> {SubSeq(q, 1, k) : k \in K(i)}]
<1>1. /\ q \in Seq(Rows(Entries)) /\ Len(q) \in Nat /\ DOMAIN q = 1 .. Len(q)
      /\ \A n \in 1 .. Len(q) : ids[s][n] \in 1 .. drawn
      /\ \A m, n \in 1 .. Len(q) : m < n => ids[s][m] < ids[s][n]
  <2>1. /\ Len(ids[s]) = Len(q) + Len(txn[s]) /\ Len(q) \in Nat /\ Len(txn[s]) \in Nat
        /\ q \in Seq(Rows(Entries)) /\ DOMAIN q = 1 .. Len(q)
    BY LenProperties DEF IdsInv
  <2>2. ASSUME NEW a \in Nat, NEW b \in Nat, NEW n \in 1 .. a
        PROVE  n \in 1 .. a + b
    OBVIOUS
  <2>3. \A n \in 1 .. Len(q) : n \in 1 .. Len(ids[s])
    BY <2>1, <2>2
  <2> QED
    BY <2>1, <2>3 DEF IdsInv
<1>2. \A t \in Stores, i \in 1 .. drawn : Owns(t, i) => t = s
  BY EmptySeq DEF OnlyOne, Owns
<1> HIDE DEF q
<1>g. drawn \in Nat /\ \A i \in 0 .. drawn : \A r : r \in G[i] <=> \E k \in K(i) : r = SubSeq(q, 1, k)
  OBVIOUS
<1>k. \A i, k : k \in K(i) <=> /\ k \in 0 .. Len(q)
                               /\ \A n \in 1 .. k : ids[s][n] <= i
                               /\ \A n \in k + 1 .. Len(q) : ids[s][n] > i
  OBVIOUS
<1> HIDE DEF G, K
<1>3. << >> \in G[0]
  <2>1. 0 \in K(0) /\ SubSeq(q, 1, 0) = << >>
    <3>1. \A n \in 1 .. 0 : ids[s][n] <= 0
      OBVIOUS
    <3>2. ASSUME NEW n \in 0 + 1 .. Len(q)
          PROVE  ids[s][n] > 0
      <4>1. n \in 1 .. Len(q)
        BY <1>1
      <4>2. ids[s][n] \in 1 .. drawn
        BY <1>1, <4>1
      <4> QED
        BY <1>g, <4>2
    <3>3. 0 \in 0 .. Len(q) /\ SubSeq(q, 1, 0) = << >>
      BY <1>1, SubSeqEmpty
    <3> QED
      BY <1>k, <3>1, <3>2, <3>3
  <2>2. 0 \in 0 .. drawn
    BY <1>g
  <2> QED
    BY <1>g, <2>1, <2>2
<1>4. ASSUME NEW i \in 1 .. drawn, TableTo[i - 1] \in G[i - 1]
      PROVE  Adds(TableTo[i - 1], i) \in G[i]
  <2>1. PICK k \in K(i - 1) : TableTo[i - 1] = SubSeq(q, 1, k)
    <3>1. i - 1 \in 0 .. drawn
      OBVIOUS
    <3> QED
      BY <1>4, <1>g, <3>1
  <2>2. /\ k \in 0 .. Len(q)
        /\ \A n \in 1 .. k : ids[s][n] <= i - 1
        /\ \A n \in k + 1 .. Len(q) : ids[s][n] > i - 1
        /\ i \in 0 .. drawn
    BY <1>k
  <2>3. CASE ~ Owns(s, i)
    <3>1. \A n \in 1 .. Len(q) : ids[s][n] # i
      BY <1>1, <2>3 DEF Owns, q
    <3>2. k \in K(i)
      <4>1. ASSUME NEW n \in 1 .. k
            PROVE  ids[s][n] <= i
        <5>1. n \in 1 .. Len(q)
          BY <1>1, <2>2
        <5> QED
          BY <1>1, <2>2, <5>1
      <4>2. ASSUME NEW n \in k + 1 .. Len(q)
            PROVE  ids[s][n] > i
        <5>1. n \in 1 .. Len(q)
          BY <1>1, <2>2
        <5>2. ids[s][n] \in 1 .. drawn /\ ids[s][n] # i /\ ids[s][n] > i - 1
          BY <1>1, <2>2, <3>1, <5>1
        <5> QED
          BY <5>2
      <4> QED
        BY <1>k, <2>2, <4>1, <4>2
    <3>3. Adds(TableTo[i - 1], i) = TableTo[i - 1]
      BY <1>2, <2>3 DEF Adds
    <3> QED
      BY <1>g, <2>1, <2>2, <3>2, <3>3
  <2>4. CASE Owns(s, i)
    <3>1. PICK n \in 1 .. Len(q) : ids[s][n] = i
      BY <1>1, <2>4 DEF Owns, q
    <3>2. \A m \in 1 .. Len(q) : ids[s][m] = i => m = n
      <4>1. ASSUME NEW m \in 1 .. Len(q), ids[s][m] = i, m # n
            PROVE  FALSE
        <5>1. m < n \/ n < m
          BY <1>1, <4>1
        <5>2. ids[s][m] < ids[s][n] \/ ids[s][n] < ids[s][m]
          BY ONLY <1>1, <3>1, <4>1, <5>1
        <5>3. ids[s][n] \in 1 .. drawn
          BY ONLY <1>1, <3>1
        <5> QED
          BY ONLY <1>g, <3>1, <4>1, <5>2, <5>3
      <4> QED
        BY <4>1
    <3>3. n = k + 1
      <4>1. n \notin 1 .. k
        BY <2>2, <3>1
      <4>2. CASE n > k + 1
        <5>1. k + 1 \in 1 .. Len(q) /\ k + 1 \in k + 1 .. Len(q) /\ k + 1 < n
          BY <1>1, <2>2, <4>2
        <5>2. ids[s][k + 1] \in 1 .. drawn /\ ids[s][k + 1] > i - 1 /\ ids[s][k + 1] < i
          BY <1>1, <2>2, <3>1, <5>1
        <5> QED
          BY <5>2
      <4> QED
        BY <1>1, <2>2, <4>1, <4>2
    <3>4. n \in K(i)
      <4>1. ASSUME NEW m \in 1 .. n
            PROVE  ids[s][m] <= i
        <5>1. CASE m = n
          BY <3>1, <5>1
        <5>2. CASE m # n
          <6>1. m \in 1 .. k
            BY <1>1, <2>2, <3>3, <5>2
          <6>2. m \in 1 .. Len(q)
            BY <1>1, <2>2, <6>1
          <6>3. ids[s][m] \in 1 .. drawn /\ ids[s][m] <= i - 1
            BY <1>1, <2>2, <6>1, <6>2
          <6> QED
            BY <6>3
        <5> QED
          BY <5>1, <5>2
      <4>2. ASSUME NEW m \in n + 1 .. Len(q)
            PROVE  ids[s][m] > i
        <5>1. m \in 1 .. Len(q) /\ n < m
          BY <1>1
        <5>2. ids[s][n] < ids[s][m] /\ ids[s][m] \in 1 .. drawn
          BY <1>1, <5>1
        <5> QED
          BY <3>1, <5>2
      <4>3. n \in 0 .. Len(q)
        BY <1>1
      <4> QED
        BY <1>k, <4>1, <4>2, <4>3
    <3>5. RowAt(i) = q[n]
      <4>1. (CHOOSE t \in Stores : Owns(t, i)) = s
        BY <1>2, <2>4
      <4>2. (CHOOSE m \in DOMAIN stored[s] : ids[s][m] = i) = n
        BY <1>1, <3>1, <3>2 DEF q
      <4> QED
        BY <4>1, <4>2 DEF RowAt, q
    <3>6. Adds(TableTo[i - 1], i) = Append(SubSeq(q, 1, k), q[n])
      BY <2>1, <2>4, <3>5 DEF Adds
    <3>7. Append(SubSeq(q, 1, k), q[n]) = SubSeq(q, 1, n)
      <4>1. SubSeq(q, 1, n) = SubSeq(q, 1, n - 1) \o <<q[n]>>
        BY <1>1, SubSeqRecursiveSecond
      <4>2. n - 1 = k /\ q[n] \in Rows(Entries)
        BY <1>1, <2>2, <3>3, ElementOfSeq
      <4>3. SubSeq(q, 1, k) \in Seq(Rows(Entries))
        BY <1>1, <2>2, Beginning
      <4> QED
        BY <4>1, <4>2, <4>3, AppendIsConcat
    <3> QED
      BY <1>g, <2>2, <3>4, <3>6, <3>7
  <2> QED
    BY <2>3, <2>4
<1>5. Table \in G[drawn]
  <2> HIDE DEF Typed, TypeOK
  <2> QED
    BY <1>g, <1>3, <1>4, TableInduction
<1>6. PICK k \in K(drawn) : Table = SubSeq(q, 1, k)
  <2>1. drawn \in 0 .. drawn
    BY <1>g
  <2> QED
    BY <1>5, <1>g, <2>1
<1>7. k = Len(q)
  <2>1. k \in 0 .. Len(q) /\ \A n \in k + 1 .. Len(q) : ids[s][n] > drawn
    BY <1>k
  <2>2. CASE k < Len(q)
    <3>1. k + 1 \in k + 1 .. Len(q) /\ k + 1 \in 1 .. Len(q)
      BY <1>1, <2>1, <2>2
    <3>2. ids[s][k + 1] \in 1 .. drawn /\ ids[s][k + 1] > drawn
      BY <1>1, <2>1, <3>1
    <3> QED
      BY <1>g, <3>2
  <2>3. Len(q) \in Nat /\ k \in 0 .. Len(q)
    BY <1>1, <2>1
  <2>4. ASSUME NEW a \in Nat, NEW b \in 0 .. a, ~ (b < a)
        PROVE  b = a
    BY <2>4
  <2> QED
    BY <2>2, <2>3, <2>4
<1> QED
  BY <1>1, <1>6, <1>7, SubSeqFull DEF q

-------------------------------------------------------------------------------
AllBegin(rows, w) == \A i \in 1 .. Len(rows) : Begins(rows[i].entry_hash, w)

\* Rows that carry hashes of beginnings of w, joined, longer by one, or beside a
\* longer log.
LEMMA AllBeginFacts ==
    ASSUME NEW w \in Seq(Entries), NEW a \in Seq(Rows(Entries)), NEW b \in Seq(Rows(Entries)),
           AllBegin(a, w), AllBegin(b, w)
    PROVE  /\ AllBegin(<< >>, w)
           /\ AllBegin(a \o b, w)
           /\ \A r \in Rows(Entries) : Begins(r.entry_hash, w) => AllBegin(Append(a, r), w)
           /\ \A e \in Entries : AllBegin(a, Append(w, e))
<1>1. Len(a) \in Nat /\ Len(b) \in Nat
  BY LenProperties
<1>2. AllBegin(<< >>, w)
  BY EmptySeq DEF AllBegin
<1>3. AllBegin(a \o b, w)
  <2>1. /\ Len(a \o b) = Len(a) + Len(b)
        /\ \A i \in 1 .. Len(a) + Len(b) : (a \o b)[i] = IF i <= Len(a) THEN a[i] ELSE b[i - Len(a)]
    BY ConcatProperties
  <2>2. ASSUME NEW i \in 1 .. Len(a) + Len(b)
        PROVE  Begins((a \o b)[i].entry_hash, w)
    <3>1. CASE i <= Len(a)
      <4>1. i \in 1 .. Len(a) /\ (a \o b)[i] = a[i]
        BY <1>1, <2>1, <3>1
      <4> QED
        BY <4>1 DEF AllBegin
    <3>2. CASE ~ (i <= Len(a))
      <4>1. i - Len(a) \in 1 .. Len(b) /\ (a \o b)[i] = b[i - Len(a)]
        BY <1>1, <2>1, <3>2
      <4> QED
        BY <4>1 DEF AllBegin
    <3> QED
      BY <3>1, <3>2
  <2> QED
    BY <2>1, <2>2 DEF AllBegin
<1>4. ASSUME NEW r \in Rows(Entries), Begins(r.entry_hash, w)
      PROVE  AllBegin(Append(a, r), w)
  <2>1. /\ Len(Append(a, r)) = Len(a) + 1 /\ Append(a, r)[Len(a) + 1] = r
        /\ \A i \in 1 .. Len(a) : Append(a, r)[i] = a[i]
    BY AppendProperties
  <2>2. ASSUME NEW i \in 1 .. Len(a) + 1
        PROVE  Begins(Append(a, r)[i].entry_hash, w)
    <3>1. i \in 1 .. Len(a) \/ i = Len(a) + 1
      BY <1>1
    <3> QED
      BY <1>4, <2>1, <3>1 DEF AllBegin
  <2> QED
    BY <2>1, <2>2 DEF AllBegin
<1>5. ASSUME NEW e \in Entries
      PROVE  AllBegin(a, Append(w, e))
  <2>1. ASSUME NEW i \in 1 .. Len(a)
        PROVE  Begins(a[i].entry_hash, Append(w, e))
    <3>1. a[i].entry_hash \in Seq(Entries)
      <4>1. a[i] \in Rows(Entries)
        BY ElementOfSeq
      <4> QED
        BY <4>1 DEF Rows
    <3>2. Begins(a[i].entry_hash, w)
      BY DEF AllBegin
    <3> QED
      BY <3>1, <3>2, BeginsLonger
  <2> QED
    BY <2>1 DEF AllBegin
<1> QED
  BY <1>2, <1>3, <1>4, <1>5

LEMMA HashInvIs ==
    ASSUME NEW s \in Stores
    PROVE  /\ HashInv(s) <=>
                 /\ pc[s] # "crashed" => last_hash[s] = written[s]
                 /\ AllBegin(buffer[s], written[s]) /\ AllBegin(txn[s], written[s])
                 /\ AllBegin(stored[s], written[s])
           /\ HashInv(s)' <=>
                 /\ pc'[s] # "crashed" => last_hash'[s] = written'[s]
                 /\ AllBegin(buffer'[s], written'[s]) /\ AllBegin(txn'[s], written'[s])
                 /\ AllBegin(stored'[s], written'[s])
BY DEF HashInv, HistoryHash, AllBegin, Begins

\* A step moves the hashes of its store, which are beginnings of what was written
\* to it, and chains a new one to the last.
LEMMA HashStep ==
    ASSUME Typed, NEW s \in Stores, StoreStep(s), HashInv(s)
    PROVE  HashInv(s)'
<1> USE DEF Typed, TypeOK
<1> DEFINE w == written[s]
<1>1. /\ w \in Seq(Entries) /\ buffer[s] \in Seq(Rows(Entries)) /\ txn[s] \in Seq(Rows(Entries))
      /\ stored[s] \in Seq(Rows(Entries))
  OBVIOUS
<1>2. /\ pc[s] # "crashed" => last_hash[s] = w
      /\ AllBegin(buffer[s], w) /\ AllBegin(txn[s], w) /\ AllBegin(stored[s], w)
  BY HashInvIs
<1>3. AllBegin(<< >>, w) /\ AllBegin(stored[s] \o txn[s], w)
  BY <1>1, <1>2, AllBeginFacts
<1>4. ASSUME NEW e \in Entries, Write(s, e)
      PROVE  HashInv(s)'
  <2> DEFINE r == Row(e, last_hash[s])
             long == Append(w, e)
  <2>1. /\ pc'[s] = pc[s] /\ txn'[s] = txn[s] /\ stored'[s] = stored[s]
        /\ buffer'[s] = Append(buffer[s], r) /\ last_hash'[s] = Hash(e, last_hash[s])
        /\ written'[s] = long /\ pc[s] # "crashed"
    BY <1>4 DEF Write
  <2>2. long \in Seq(Entries) /\ r \in Rows(Entries) /\ r.entry_hash = long /\ last_hash'[s] = long
    BY <1>2, <2>1, RowType, AppendProperties DEF Hash
  <2>3. AllBegin(buffer[s], long) /\ AllBegin(txn[s], long) /\ AllBegin(stored[s], long)
    BY <1>1, <1>2, AllBeginFacts
  <2>4. Begins(r.entry_hash, long)
    BY <2>2, BeginsLonger
  <2> HIDE DEF r, long, w
  <2>5. AllBegin(Append(buffer[s], r), long)
    BY <1>1, <2>2, <2>3, <2>4, AllBeginFacts
  <2> QED
    BY <2>1, <2>2, <2>3, <2>5, HashInvIs
<1>5. ASSUME written'[s] = w, last_hash'[s] = last_hash[s], pc'[s] # "crashed" => pc[s] # "crashed",
             buffer'[s] \in {buffer[s], << >>}, txn'[s] \in {txn[s], << >>},
             stored'[s] \in {stored[s], stored[s] \o txn[s]}
      PROVE  HashInv(s)'
  BY <1>2, <1>3, <1>5, HashInvIs
<1>6. CASE FlushNothing(s) \/ FlushBegin(s) \/ FlushSendCommit(s) \/ FlushClear(s) \/ Close(s)
  BY <1>5, <1>6 DEF FlushNothing, FlushBegin, FlushSendCommit, FlushClear, Close
<1>7. CASE FlushInsert(s)
  <2> DEFINE r == buffer[s][Len(txn[s]) + 1]
  <2>1. Len(txn[s]) + 1 \in 1 .. Len(buffer[s])
    BY <1>1, <1>7, LenProperties DEF FlushInsert
  <2>2. r \in Rows(Entries) /\ Begins(r.entry_hash, w)
    BY <1>1, <1>2, <2>1, ElementOfSeq DEF AllBegin
  <2>3. /\ txn'[s] = Append(txn[s], r) /\ written'[s] = w /\ last_hash'[s] = last_hash[s]
        /\ pc'[s] = pc[s] /\ buffer'[s] = buffer[s] /\ stored'[s] = stored[s]
    BY <1>7 DEF FlushInsert, Insert
  <2> HIDE DEF r, w
  <2>4. AllBegin(Append(txn[s], r), w)
    BY <1>1, <1>2, <2>2, AllBeginFacts
  <2> QED
    BY <1>2, <2>3, <2>4, HashInvIs
<1>8. CASE FlushCommit(s) \/ FlushRollback(s) \/ FlushLateFailure(s) \/ Crash(s)
  <2>1. /\ written'[s] = w /\ last_hash'[s] = last_hash[s]
        /\ pc'[s] # "crashed" => pc[s] # "crashed"
        /\ buffer'[s] \in {buffer[s], << >>}
    BY <1>8 DEF FlushCommit, FlushRollback, FlushLateFailure, Crash, Fails
  <2>2. Commit(s) \/ Abort(s)
    BY <1>8 DEF FlushCommit, FlushRollback, FlushLateFailure, Crash
  <2>3. txn'[s] = << >> /\ stored'[s] \in {stored[s], stored[s] \o txn[s]}
    BY <2>2 DEF Commit, Abort
  <2> QED
    BY <1>5, <2>1, <2>3
<1> QED
  BY <1>4, <1>6, <1>7, <1>8 DEF StoreStep

\* In every environment, each row carries the hash of the entries written to its
\* store up to the one it records.
THEOREM HashesAreHistories == Spec => [](\A s \in Stores : HashInv(s))
<1>1. Init => \A s \in Stores : HashInv(s)
  BY EmptySeq DEF Init, HashInv, Genesis
<1>2. Typed /\ (\A s \in Stores : HashInv(s)) /\ [Next]_vars => (\A s \in Stores : HashInv(s))'
  <2> SUFFICES ASSUME Typed, \A s \in Stores : HashInv(s), [Next]_vars, NEW t \in Stores
               PROVE  HashInv(t)'
    OBVIOUS
  <2>1. ASSUME NEW s \in Stores, StoreStep(s)
        PROVE  HashInv(t)'
    <3>1. CASE t = s
      BY <2>1, <3>1, HashStep
    <3>2. CASE t # s
      <4>1. /\ buffer'[t] = buffer[t] /\ last_hash'[t] = last_hash[t] /\ pc'[t] = pc[t]
            /\ txn'[t] = txn[t] /\ stored'[t] = stored[t] /\ written'[t] = written[t]
        BY <2>1, <3>2, OthersStay DEF Typed
      <4> QED
        BY <4>1, HashInvIs
    <3> QED
      BY <3>1, <3>2
  <2>2. CASE UNCHANGED vars
    BY <2>2, HashInvIs DEF vars
  <2> QED
    BY <2>1, <2>2 DEF Next
<1> QED
  BY <1>1, <1>2, TypedAlways, PTL DEF Spec

\* With no assumption on the environment and any number of stores: if verify_chain()
\* accepts the table, the table is a prefix of what was written to one store.
THEOREM VerifiedTableIsPrefix == Spec => []VerifiedIsPrefix
<1>1. Typed /\ (\A s \in Stores : HashInv(s)) => VerifiedIsPrefix
  <2> SUFFICES ASSUME Typed, \A s \in Stores : HashInv(s), VerifyChain(Table)
               PROVE  \E s \in Stores :
                          /\ Len(Table) <= Len(written[s])
                          /\ Contents(Table) = SubSeq(written[s], 1, Len(Table))
    BY DEF VerifiedIsPrefix
  <2>1. /\ Table \in Seq(Rows(Entries)) /\ Len(Table) \in Nat
        /\ \A k \in 1 .. Len(Table) :
               \E s \in Stores : \E n \in 1 .. Len(stored[s]) : Table[k] = stored[s][n]
    BY TableRows, LenProperties
  <2>2. \A s \in Stores : written[s] \in Seq(Entries)
    BY DEF Typed, TypeOK
  <2>3. CASE Len(Table) = 0
    <3>1. PICK s \in Stores : TRUE
      BY StoresAssumption
    <3>2. Table = << >>
      BY <2>1, <2>3, EmptySeq
    <3>3. \A k \in 1 .. Len(Table) : Begins(Table[k].entry_hash, written[s])
      BY <2>3
    <3> QED
      BY <2>1, <2>2, <2>3, VerifiedPrefix
  <2>4. CASE Len(Table) # 0
    <3>1. Len(Table) \in 1 .. Len(Table)
      BY <2>1, <2>4
    <3>2. PICK s \in Stores : \E n \in 1 .. Len(stored[s]) : Table[Len(Table)] = stored[s][n]
      BY <2>1, <3>1
    <3>3. Begins(Table[Len(Table)].entry_hash, written[s])
      BY <3>2, HashInvIs DEF AllBegin
    <3> QED
      BY <2>1, <2>2, <3>3, VerifiedPrefix DEF Begins
  <2> QED
    BY <2>3, <2>4
<1> QED
  BY <1>1, TypedAlways, HashesAreHistories, PTL

-------------------------------------------------------------------------------
\* The live stream may be cut anywhere: what is stored of it verifies and
\* records a prefix of what was written.
LEMMA StoredPrefix ==
    ASSUME NEW w, NEW a \in Seq(Rows(Entries)), NEW b \in Seq(Rows(Entries)),
           VerifyChain(a \o b), Contents(a \o b) = w
    PROVE  /\ VerifyChain(a)
           /\ Len(a) \in 0 .. Len(w)
           /\ Contents(a) = SubSeq(w, 1, Len(a))
BY VerifyPrefix, ContentsPrefix

\* A step of one store leaves the invariant of the others alone.
LEMMA OthersKeepInv ==
    ASSUME TypeOK, NEW s \in Stores, StoreStep(s), NEW t \in Stores, t # s, StoreInv(t)
    PROVE  StoreInv(t)'
<1>1. /\ pool'[t] = pool[t] /\ buffer'[t] = buffer[t] /\ last_hash'[t] = last_hash[t]
      /\ pc'[t] = pc[t] /\ txn'[t] = txn[t] /\ stored'[t] = stored[t] /\ written'[t] = written[t]
  BY OthersStay
<1>2. Stream(t)' = Stream(t)
  BY <1>1 DEF Stream
<1> QED
  BY <1>1, <1>2 DEF StoreInv, ChainInv, TxnInv, CrashInv, StdoutInv

LEMMA InitStoreInv ==
    ASSUME Init, NEW s \in Stores
    PROVE  StoreInv(s)
<1> USE DEF Init
<1>1. Stream(s) = << >>
  BY ConcatEmptySeq, EmptySeq DEF Stream
<1>2. DOMAIN << >> = 1 .. 0 /\ Len(<< >>) = 0 /\ << >> \in Seq(Rows(Entries))
  BY EmptySeq, LenProperties
<1>3. VerifyChain(<< >>) /\ TailHash(<< >>) = Genesis
  BY <1>2 DEF VerifyChain, TailHash, PrevHash
<1>4. Contents(<< >>) = << >>
  BY <1>2, ContentsType, EmptySeq
<1>5. ChainInv(s)
  BY <1>1, <1>3, <1>4 DEF ChainInv
<1> QED
  BY <1>5, <1>2 DEF StoreInv, TxnInv, CrashInv, StdoutInv, Flushing

LEMMA StepStoreInv ==
    ASSUME ~WriteDuringFlush, ~LateFailures, TypeOK, NEW s \in Stores, StoreStep(s), StoreInv(s)
    PROVE  StoreInv(s)'
<1> USE DEF TypeOK
<1>0. /\ buffer[s] \in Seq(Rows(Entries)) /\ txn[s] \in Seq(Rows(Entries))
      /\ stored[s] \in Seq(Rows(Entries)) /\ Len(buffer[s]) \in Nat /\ Len(txn[s]) \in Nat
      /\ Len(stored[s]) \in Nat /\ << >> \in Seq(Rows(Entries)) /\ Len(<< >>) = 0
      /\ written[s] \in Seq(Entries) /\ last_hash[s] \in Seq(Entries)
  BY LenProperties, EmptySeq
<1>i. ChainInv(s) /\ TxnInv(s) /\ CrashInv(s) /\ StdoutInv(s)
  BY DEF StoreInv
\* A step that moves neither the stream nor what was written.
<1>k. ASSUME Stream(s)' = Stream(s), last_hash'[s] = last_hash[s], written'[s] = written[s],
             pool'[s] = pool[s], pc[s] # "crashed", pc'[s] # "crashed", TxnInv(s)', StdoutInv(s)'
      PROVE  StoreInv(s)'
  BY <1>i, <1>k DEF StoreInv, ChainInv, CrashInv
<1>1. ASSUME NEW e \in Entries, Write(s, e)
      PROVE  StoreInv(s)'
  <2> DEFINE r == Row(e, last_hash[s])
  <2>0. /\ pc[s] \in {"idle", "closed"} /\ pc'[s] = pc[s] /\ pool'[s] = pool[s]
        /\ txn'[s] = txn[s] /\ stored'[s] = stored[s]
        /\ buffer'[s] = Append(buffer[s], r) /\ last_hash'[s] = Hash(e, last_hash[s])
        /\ written'[s] = Append(written[s], e)
    BY <1>1 DEF Write, Phases, Flushing
  <2>1. r \in Rows(Entries) /\ r.content = e
    BY <1>0, RowType
  <2>2. CASE pool[s]
    <3>1. /\ Stream(s) = stored[s] \o buffer[s]
          /\ Stream(s) \in Seq(Rows(Entries))
          /\ Stream(s)' = stored[s] \o Append(buffer[s], r)
      BY <1>0, <2>0, ConcatProperties DEF Stream
    <3>2. VerifyChain(Stream(s)) /\ TailHash(Stream(s)) = last_hash[s]
          /\ Contents(Stream(s)) = written[s]
      BY <1>i, <2>0, <2>2 DEF ChainInv
    <3> DEFINE old == Stream(s)
               new == Append(old, r)
    <3>3. Stream(s)' = new
      <4>1. <<r>> \in Seq(Rows(Entries)) /\ Append(buffer[s], r) = buffer[s] \o <<r>>
        BY <1>0, <2>1, AppendIsConcat
      <4>2. stored[s] \o (buffer[s] \o <<r>>) = (stored[s] \o buffer[s]) \o <<r>>
        BY <1>0, <4>1, ConcatAssociative
      <4>3. new = old \o <<r>>
        BY <2>1, <3>1, AppendIsConcat
      <4> HIDE DEF r
      <4> QED
        BY <3>1, <4>1, <4>2, <4>3
    <3>4. VerifyChain(new) /\ TailHash(new) = Hash(e, last_hash[s])
      BY <1>0, <3>1, <3>2, VerifyAppend
    <3>5. Contents(new) = Append(written[s], e)
      BY <2>1, <3>1, <3>2, ContentsAppend
    <3>6. ChainInv(s)'
      <4> HIDE DEF new
      <4> QED
        BY <2>0, <3>3, <3>4, <3>5 DEF ChainInv
    <3> QED
      BY <1>i, <2>0, <2>2, <3>6 DEF StoreInv, TxnInv, CrashInv, StdoutInv
  <2>3. CASE ~pool[s]
    BY <1>i, <2>0, <2>3 DEF StoreInv, ChainInv, TxnInv, CrashInv, StdoutInv
  <2> QED
    BY <1>0, <2>2, <2>3
<1>2. CASE FlushNothing(s)
  <2>1. /\ pc[s] = "idle" /\ pc'[s] = pc[s] /\ pool'[s] = pool[s] /\ txn'[s] = txn[s]
        /\ stored'[s] = stored[s] /\ last_hash'[s] = last_hash[s] /\ written'[s] = written[s]
        /\ buffer'[s] = << >> /\ (pool[s] => buffer'[s] = buffer[s])
    BY <1>2 DEF FlushNothing
  <2>2. TxnInv(s)' /\ StdoutInv(s)'
    BY <1>i, <2>1 DEF TxnInv, StdoutInv
  <2>3. CASE pool[s]
    <3>1. Stream(s)' = Stream(s)
      BY <2>1, <2>3 DEF Stream
    <3> QED
      BY <1>k, <2>1, <2>2, <3>1
  <2>4. CASE ~pool[s]
    BY <2>1, <2>2, <2>4 DEF StoreInv, ChainInv, CrashInv
  <2> QED
    BY <2>3, <2>4
<1>3. CASE FlushBegin(s)
  <2>1. /\ pc[s] = "idle" /\ pc'[s] = "inserting" /\ pool'[s] = pool[s] /\ pool[s]
        /\ txn'[s] = txn[s] /\ buffer'[s] = buffer[s]
        /\ stored'[s] = stored[s] /\ last_hash'[s] = last_hash[s] /\ written'[s] = written[s]
    BY <1>3 DEF FlushBegin
  <2>2. Stream(s)' = Stream(s)
    BY <2>1 DEF Stream
  <2>3. TxnInv(s)' /\ StdoutInv(s)'
    BY <1>0, <1>i, <2>1 DEF TxnInv, StdoutInv
  <2> QED
    BY <1>k, <2>1, <2>2, <2>3
<1>4. CASE FlushInsert(s)
  <2> DEFINE b == buffer[s][Len(txn[s]) + 1]
  <2>1. /\ pc[s] = "inserting" /\ pc'[s] = pc[s] /\ pool'[s] = pool[s] /\ buffer'[s] = buffer[s]
        /\ stored'[s] = stored[s] /\ last_hash'[s] = last_hash[s] /\ written'[s] = written[s]
        /\ Len(txn[s]) < Len(buffer[s]) /\ txn'[s] = Append(txn[s], b)
    BY <1>4 DEF FlushInsert, Insert
  <2>2. Stream(s)' = Stream(s)
    BY <2>1 DEF Stream
  <2>3. b \in Rows(Entries)
    BY <1>0, <2>1, ElementOfSeq
  <2>4. /\ Len(txn'[s]) = Len(txn[s]) + 1
        /\ \A i \in 1 .. Len(txn[s]) : txn'[s][i] = txn[s][i]
        /\ txn'[s][Len(txn[s]) + 1] = b
    BY <1>0, <2>1, <2>3, AppendProperties
  <2>5. TxnInv(s)' /\ StdoutInv(s)'
    <3>1. \A i \in 1 .. Len(txn[s]) : txn[s][i] = buffer[s][i]
      BY <1>i, <2>1 DEF TxnInv
    <3>2. ASSUME NEW i \in 1 .. Len(txn[s]) + 1
          PROVE  txn'[s][i] = buffer[s][i]
      <4>1. i \in 1 .. Len(txn[s]) \/ i = Len(txn[s]) + 1
        BY <1>0
      <4> QED
        BY <2>4, <3>1, <4>1
    <3>3. Len(txn[s]) + 1 <= Len(buffer[s])
      BY <1>0, <2>1
    <3> HIDE DEF b
    <3> QED
      BY <1>i, <2>1, <2>4, <3>2, <3>3 DEF TxnInv, StdoutInv
  <2> QED
    BY <1>k, <2>1, <2>2, <2>5
<1>5. CASE FlushSendCommit(s)
  <2>1. /\ pc[s] = "inserting" /\ pc'[s] = "committing" /\ pool'[s] = pool[s]
        /\ txn'[s] = txn[s] /\ buffer'[s] = buffer[s] /\ Len(txn[s]) = Len(buffer[s])
        /\ stored'[s] = stored[s] /\ last_hash'[s] = last_hash[s] /\ written'[s] = written[s]
    BY <1>5 DEF FlushSendCommit
  <2>2. Stream(s)' = Stream(s)
    BY <2>1 DEF Stream
  <2>3. txn[s] = buffer[s]
    BY <1>0, <1>i, <2>1, SeqEqual DEF TxnInv
  <2>4. TxnInv(s)' /\ StdoutInv(s)'
    BY <1>i, <2>1, <2>3 DEF TxnInv, StdoutInv, Flushing
  <2> QED
    BY <1>k, <2>1, <2>2, <2>4
<1>6. CASE FlushCommit(s)
  <2>1. /\ pc[s] = "committing" /\ pc'[s] = "releasing" /\ pool'[s] = pool[s]
        /\ txn'[s] = << >> /\ buffer'[s] = buffer[s] /\ stored'[s] = stored[s] \o txn[s]
        /\ last_hash'[s] = last_hash[s] /\ written'[s] = written[s]
    BY <1>6 DEF FlushCommit, Commit
  <2>2. Stream(s)' = Stream(s)
    BY <1>i, <2>1 DEF Stream, TxnInv
  <2>3. TxnInv(s)' /\ StdoutInv(s)'
    BY <1>i, <2>1 DEF TxnInv, StdoutInv, Flushing
  <2> QED
    BY <1>k, <2>1, <2>2, <2>3
<1>7. CASE FlushClear(s)
  <2>1. /\ pc[s] = "releasing" /\ pc'[s] = "idle" /\ pool'[s] = pool[s]
        /\ txn'[s] = txn[s] /\ buffer'[s] = << >> /\ stored'[s] = stored[s]
        /\ last_hash'[s] = last_hash[s] /\ written'[s] = written[s]
    BY <1>7 DEF FlushClear
  <2>2. Stream(s)' = Stream(s)
    BY <1>0, <2>1, ConcatEmptySeq DEF Stream
  <2>3. TxnInv(s)' /\ StdoutInv(s)'
    BY <1>i, <2>1 DEF TxnInv, StdoutInv, Flushing
  <2> QED
    BY <1>k, <2>1, <2>2, <2>3
<1>8. CASE FlushRollback(s)
  <2>1. /\ pc[s] \in {"inserting", "committing"} /\ pc'[s] = "idle" /\ pool'[s] = pool[s]
        /\ txn'[s] = << >> /\ buffer'[s] = buffer[s] /\ stored'[s] = stored[s]
        /\ last_hash'[s] = last_hash[s] /\ written'[s] = written[s]
    BY <1>8 DEF FlushRollback, Fails, Abort
  <2>2. Stream(s)' = Stream(s)
    BY <2>1 DEF Stream
  <2>3. TxnInv(s)' /\ StdoutInv(s)'
    BY <1>i, <2>1 DEF TxnInv, StdoutInv, Flushing
  <2> QED
    BY <1>k, <2>1, <2>2, <2>3
<1>9. CASE FlushLateFailure(s)
  BY <1>9 DEF FlushLateFailure
<1>10. CASE Close(s)
  <2>1. /\ pc[s] = "idle" /\ pc'[s] = "closed" /\ pool'[s] = pool[s]
        /\ txn'[s] = txn[s] /\ buffer'[s] = buffer[s] /\ stored'[s] = stored[s]
        /\ last_hash'[s] = last_hash[s] /\ written'[s] = written[s]
    BY <1>10 DEF Close
  <2>2. Stream(s)' = Stream(s)
    BY <2>1 DEF Stream
  <2>3. TxnInv(s)' /\ StdoutInv(s)'
    BY <1>i, <2>1 DEF TxnInv, StdoutInv, Flushing
  <2> QED
    BY <1>k, <2>1, <2>2, <2>3
<1>11. CASE Crash(s)
  <2>1. /\ pc[s] # "crashed" /\ pc'[s] = "crashed" /\ pool'[s] = pool[s] /\ txn'[s] = << >>
        /\ written'[s] = written[s] /\ last_hash'[s] = last_hash[s]
        /\ \/ stored'[s] = stored[s]
           \/ pc[s] = "committing" /\ stored'[s] = stored[s] \o txn[s]
    BY <1>11 DEF Crash, Commit, Abort
  <2> DEFINE w == written[s]
             now == stored'[s]
  <2>2. ASSUME pool[s]
        PROVE  VerifyChain(now) /\ Len(now) \in 0 .. Len(w) /\ Contents(now) = SubSeq(w, 1, Len(now))
    <3>1. VerifyChain(Stream(s)) /\ Contents(Stream(s)) = w
      BY <1>i, <2>1, <2>2 DEF ChainInv
    <3>2. stored[s] \o << >> = stored[s]
      BY <1>0, ConcatEmptySeq
    <3>3. CASE now = stored[s] /\ pc[s] = "releasing"
      <4>1. VerifyChain(stored[s] \o << >>) /\ Contents(stored[s] \o << >>) = w
        BY <3>1, <3>2, <3>3 DEF Stream
      <4> QED
        BY <1>0, <3>3, <4>1, StoredPrefix
    <3>4. CASE now = stored[s] /\ pc[s] # "releasing"
      <4>1. VerifyChain(stored[s] \o buffer[s]) /\ Contents(stored[s] \o buffer[s]) = w
        BY <3>1, <3>4 DEF Stream
      <4> QED
        BY <1>0, <3>4, <4>1, StoredPrefix
    <3>5. CASE pc[s] = "committing" /\ now = stored[s] \o txn[s]
      <4>1. Stream(s) = now /\ now \in Seq(Rows(Entries))
        BY <1>0, <1>i, <3>5, ConcatProperties DEF Stream, TxnInv
      <4> HIDE DEF now, w
      <4>2. now \o << >> = now
        BY <4>1, ConcatEmptySeq
      <4>3. VerifyChain(now \o << >>) /\ Contents(now \o << >>) = w
        BY <3>1, <4>1, <4>2
      <4> QED
        BY <1>0, <4>1, <4>3, StoredPrefix
    <3> QED
      BY <2>1, <3>3, <3>4, <3>5
  <2>3. ~pool[s] => now = << >>
    BY <1>i, <2>1 DEF StdoutInv, Flushing
  <2> HIDE DEF now
  <2>4. CrashInv(s)' /\ StdoutInv(s)'
    BY <2>1, <2>2, <2>3 DEF CrashInv, StdoutInv, Flushing, now
  <2> QED
    BY <2>1, <2>4 DEF StoreInv, ChainInv, TxnInv
<1> QED
  BY <1>1, <1>2, <1>3, <1>4, <1>5, <1>6, <1>7, <1>8, <1>9, <1>10, <1>11 DEF StoreStep

\* The inductive invariant: for each store, the committed and queued rows are one
\* verifying chain of everything written to it.
THEOREM Inductive ==
    ASSUME ~WriteDuringFlush, ~LateFailures
    PROVE  Spec => []IInv
<1>1. Init => \A s \in Stores : StoreInv(s)
  BY InitStoreInv
<1>2. Typed /\ (\A s \in Stores : StoreInv(s)) /\ [Next]_vars => (\A s \in Stores : StoreInv(s))'
  <2> SUFFICES ASSUME Typed, \A s \in Stores : StoreInv(s), [Next]_vars, NEW t \in Stores
               PROVE  StoreInv(t)'
    OBVIOUS
  <2>1. ASSUME NEW s \in Stores, StoreStep(s)
        PROVE  StoreInv(t)'
    BY <2>1, StepStoreInv, OthersKeepInv DEF Typed
  <2>2. CASE UNCHANGED vars
    BY <2>2 DEF vars, StoreInv, ChainInv, TxnInv, CrashInv, StdoutInv, Stream
  <2> QED
    BY <2>1, <2>2 DEF Next
<1>3. Typed /\ (\A s \in Stores : StoreInv(s)) => IInv
  BY DEF Typed, IInv
<1> QED
  BY <1>1, <1>2, <1>3, TypedAlways, PTL DEF Spec

\* verify_chain() accepts what the flushes of one store committed, whatever failed
\* or crashed, as long as no other store of the run has committed rows.
THEOREM StoredChainVerifies ==
    ASSUME ~WriteDuringFlush, ~LateFailures
    PROVE  Spec => []ChainVerifies
<1>1. IInv => ChainVerifies
  <2> SUFFICES ASSUME IInv, NEW s \in Stores, pool[s], OnlyOne(s)
               PROVE  VerifyChain(Table)
    BY DEF ChainVerifies
  <2>1. Table = stored[s]
    BY TableOfOne DEF IInv, Typed
  <2>2. ChainInv(s) /\ CrashInv(s)
    BY DEF IInv, StoreInv
  <2>3. stored[s] \in Seq(Rows(Entries)) /\ buffer[s] \in Seq(Rows(Entries))
    BY DEF IInv, TypeOK
  <2>4. VerifyChain(stored[s])
    <3>1. CASE pc[s] = "crashed"
      BY <2>2, <3>1 DEF CrashInv
    <3>2. CASE pc[s] = "releasing"
      BY <2>2, <3>2 DEF ChainInv, Stream
    <3>3. CASE pc[s] \notin {"crashed", "releasing"}
      BY <2>2, <2>3, <3>3, VerifyPrefix DEF ChainInv, Stream
    <3> QED
      BY <3>1, <3>2, <3>3
  <2> QED
    BY <2>1, <2>4
<1> QED
  BY <1>1, Inductive, PTL

\* The rows a store has committed followed by those it has queued are exactly what
\* write() was given.
THEOREM NothingRecordedIsLost ==
    ASSUME ~WriteDuringFlush, ~LateFailures
    PROVE  Spec => []NothingLost
<1>1. IInv => NothingLost
  BY DEF IInv, StoreInv, ChainInv, NothingLost
<1> QED
  BY <1>1, Inductive, PTL

-------------------------------------------------------------------------------

\* A commit makes a longer prefix of the log durable.
LEMMA CommitPersists ==
    ASSUME ~WriteDuringFlush, ~LateFailures, IInv, NEW s \in Stores, pool[s],
           pc[s] = "committing", stored' = [stored EXCEPT ![s] = @ \o txn[s]],
           written' = written
    PROVE  [Log!Next]_<<written, Durable>>
<1>0. /\ stored \in [Stores -> Seq(Rows(Entries))] /\ stored[s] \in Seq(Rows(Entries))
      /\ buffer[s] \in Seq(Rows(Entries)) /\ written[s] \in Seq(Entries)
      /\ ChainInv(s) /\ TxnInv(s)
  BY DEF IInv, TypeOK, StoreInv
<1>1. /\ txn[s] = buffer[s] /\ Stream(s) = stored[s] \o buffer[s]
      /\ Contents(Stream(s)) = written[s]
  BY <1>0 DEF TxnInv, ChainInv, Stream
<1>2. /\ stored' = [stored EXCEPT ![s] = Stream(s)]
      /\ Durable' = [Durable EXCEPT ![s] = written[s]]
  <2>1. stored' = [stored EXCEPT ![s] = Stream(s)]
    BY <1>1
  <2>2. Durable' = [t \in Stores |-> IF t = s THEN written[s] ELSE Contents(stored[t])]
    BY <1>0, <1>1, <2>1 DEF Durable
  <2> QED
    BY <2>1, <2>2 DEF Durable
<1>3. /\ Durable[s] = Contents(stored[s]) /\ Len(Durable[s]) \in 0 .. Len(written[s])
      /\ Durable[s] = SubSeq(written[s], 1, Len(Durable[s]))
  BY <1>0, <1>1, ContentsPrefix, ContentsType DEF Durable
<1>4. CASE Len(Durable[s]) = Len(written[s])
  <2>1. Durable[s] = written[s]
    BY <1>0, <1>3, <1>4, SubSeqFull
  <2>2. Durable' = Durable
    BY <1>2, <2>1 DEF Durable
  <2> QED
    BY <2>2
<1>5. CASE Len(Durable[s]) # Len(written[s])
  <2>1. Len(written[s]) \in Len(Durable[s]) + 1 .. Len(written[s])
    BY <1>0, <1>3, <1>5, LenProperties
  <2>2. written[s] = SubSeq(written[s], 1, Len(written[s]))
    BY <1>0, SubSeqFull
  <2>3. Log!Persist(s)
    BY <1>2, <2>1, <2>2 DEF Log!Persist
  <2> QED
    BY <2>3 DEF Log!Next
<1> QED
  BY <1>4, <1>5

\* Every step of a store is a step of the append-only log or changes nothing its
\* readers see.
LEMMA StepRefines ==
    ASSUME ~WriteDuringFlush, ~LateFailures, IInv, [Next]_vars
    PROVE  [Log!Next]_<<written, Durable>>
<1>1. ASSUME NEW s \in Stores, StoreStep(s)
      PROVE  [Log!Next]_<<written, Durable>>
  <2>0. pc[s] = "committing" => pool[s]
    BY DEF IInv, StoreInv, StdoutInv, Flushing
  <2>1. ASSUME NEW e \in Entries, Write(s, e)
        PROVE  Log!Next
    BY <2>1 DEF Write, Log!Next, Log!Accept, Durable
  <2>2. CASE FlushCommit(s)
    BY <2>0, <2>2, CommitPersists DEF FlushCommit, Commit
  <2>3. CASE Crash(s)
    <3>1. CASE stored' = stored
      BY <2>3, <3>1 DEF Crash, Durable
    <3>2. CASE stored' # stored
      BY <2>0, <2>3, <3>2, CommitPersists DEF Crash, Commit, Abort
    <3> QED
      BY <3>1, <3>2
  <2>4. CASE FlushNothing(s) \/ FlushBegin(s) \/ FlushInsert(s) \/ FlushSendCommit(s)
              \/ FlushClear(s) \/ FlushRollback(s) \/ Close(s)
    BY <2>4 DEF FlushNothing, FlushBegin, FlushInsert, FlushSendCommit, FlushClear,
                FlushRollback, Abort, Close, Durable
  <2> QED
    BY <1>1, <2>1, <2>2, <2>3, <2>4 DEF StoreStep, FlushLateFailure
<1>2. CASE UNCHANGED vars
  BY <1>2 DEF vars, Durable
<1> QED
  BY <1>1, <1>2 DEF Next

\* The stores implement the append-only log.
THEOREM ImplementsAppendOnlyLog ==
    ASSUME ~WriteDuringFlush, ~LateFailures
    PROVE  Spec => AppendOnly
<1>1. Init => Log!Init
  <2>1. Contents(<< >>) = << >>
    BY ContentsType, EmptySeq
  <2> QED
    BY <2>1 DEF Init, Log!Init, Durable
<1>2. IInv /\ [Next]_vars => [Log!Next]_<<written, Durable>>
  BY StepRefines
<1> QED
  BY <1>1, <1>2, Inductive, PTL DEF Spec, AppendOnly, Log!Spec

-------------------------------------------------------------------------------
(***************************************************************************)
(* The other ledger kept in PostgreSQL: TraceLedger, for every set of      *)
(* entries and every number of them, when one task records: what           *)
(* verify_chain() says of the table, whichever INSERTs fail.  (With two    *)
(* tasks TraceVerifies is false: run TraceLedgerFork.)                     *)
(***************************************************************************)

\* The hash the newest row would be chained to, were it stored now: record() of
\* t has computed it and holds it back until its await returns.
Current(t) == IF trace_pc[t] = "idle" THEN trace_hash ELSE pending[t].entry_hash

\* The last hash is that of all entries, and what was returned its beginnings.
ReturnedInv ==
    /\ Len(returned) = Len(trace_hash)
    /\ \A k \in 1 .. Len(returned) : returned[k] = SubSeq(trace_hash, 1, k)

\* The entry being recorded continues the last hash; without a pool there is none.
PendingInv(t) ==
    /\ trace_pc[t] # "idle" =>
           /\ pending[t] \in Rows(TraceEntries)
           /\ pending[t].entry_hash = Append(trace_hash, pending[t].content)
           /\ pending[t].prev_hash = trace_hash
    /\ database = "none" => trace_table = << >> /\ trace_pc[t] = "idle"

\* Every stored row carries the hash of the entries up to its own, and no INSERT
\* of a reliable database is missing from the chain.
TableInv(t) ==
    /\ \A i \in 1 .. Len(trace_table) : Begins(trace_table[i].entry_hash, Current(t))
    /\ database = "reliable" =>
           /\ VerifyChain(trace_table)
           /\ TailHash(trace_table) = IF trace_pc[t] = "written" THEN pending[t].entry_hash ELSE trace_hash

TraceInv(t) == TraceTypeOK /\ ReturnedInv /\ PendingInv(t) /\ TableInv(t)

\* A row is not the empty value of a task that records nothing.
LEMMA RowIsEntry == ASSUME NEW c, NEW p PROVE Row(c, p) # NoEntry
<1>1. "content" \in DOMAIN Row(c, p)
  BY DEF Row
<1>2. "content" \notin DOMAIN NoEntry
  BY DEF NoEntry
<1> QED
  BY <1>1, <1>2

\* The state is well typed whatever the number of tasks.
THEOREM TraceTypeCorrect == TraceSpec => []TraceTypeOK
<1>1. TraceInit => TraceTypeOK
  BY EmptySeq, CallsAssumption DEF TraceInit, TraceTypeOK, Genesis
<1>2. TraceTypeOK /\ [TraceNext]_traceVars => TraceTypeOK'
  <2> SUFFICES ASSUME TraceTypeOK, [TraceNext]_traceVars
               PROVE  TraceTypeOK'
    OBVIOUS
  <2> USE DEF TraceTypeOK
  <2>1. ASSUME NEW e \in TraceEntries, RecordToStdout(e)
        PROVE  TraceTypeOK'
    <3>1. Hash(e, trace_hash) \in Seq(TraceEntries)
      BY RowType
    <3>2. Append(returned, Hash(e, trace_hash)) \in Seq(Seq(TraceEntries))
      BY <3>1, AppendProperties
    <3> QED
      BY <2>1, <3>1, <3>2, CallsAssumption DEF RecordToStdout
  <2>2. ASSUME NEW t \in Tasks, NEW e \in TraceEntries, RecordBegin(t, e)
        PROVE  TraceTypeOK'
    <3>1. Row(e, trace_hash) \in Rows(TraceEntries) /\ Row(e, trace_hash) # NoEntry
      BY RowType, RowIsEntry
    <3> QED
      BY <2>2, <3>1, CallsAssumption DEF RecordBegin
  <2>3. ASSUME NEW t \in Tasks, WriteToDb(t)
        PROVE  TraceTypeOK'
    <3>1. pending[t] \in Rows(TraceEntries)
      BY <2>3 DEF WriteToDb
    <3>2. Append(trace_table, pending[t]) \in Seq(Rows(TraceEntries))
      BY <3>1, AppendProperties
    <3> QED
      BY <2>3, <3>2 DEF WriteToDb
  <2>4. ASSUME NEW t \in Tasks, WriteFailed(t)
        PROVE  TraceTypeOK'
    BY <2>4 DEF WriteFailed
  <2>5. ASSUME NEW t \in Tasks, RecordEnd(t)
        PROVE  TraceTypeOK'
    <3>1. pending[t] \in Rows(TraceEntries)
      BY <2>5 DEF RecordEnd
    <3>2. pending[t].entry_hash \in Seq(TraceEntries)
      BY <3>1 DEF Rows
    <3>3. Append(returned, pending[t].entry_hash) \in Seq(Seq(TraceEntries))
      BY <3>2, AppendProperties
    <3> QED
      BY <2>5, <3>2, <3>3 DEF RecordEnd
  <2>6. CASE UNCHANGED traceVars
    BY <2>6 DEF traceVars
  <2> QED
    BY <2>1, <2>2, <2>3, <2>4, <2>5, <2>6 DEF TraceNext
<1> QED
  BY <1>1, <1>2, PTL DEF TraceSpec

-------------------------------------------------------------------------------

\* Nothing is recorded yet.
LEMMA TraceBegins == ASSUME NEW t \in Tasks, TraceInit PROVE TraceInv(t)
<1>1. TraceTypeOK
  BY EmptySeq, CallsAssumption DEF TraceInit, TraceTypeOK, Genesis
<1>2. Len(<< >>) = 0 /\ DOMAIN << >> = {}
  BY EmptySeq
<1>3. ReturnedInv /\ PendingInv(t)
  BY <1>2 DEF TraceInit, ReturnedInv, PendingInv, Genesis
<1>4. VerifyChain(<< >>) /\ TailHash(<< >>) = Genesis
  BY <1>2 DEF VerifyChain, TailHash, PrevHash
<1>5. TableInv(t)
  BY <1>2, <1>4 DEF TraceInit, TableInv
<1> QED
  BY <1>1, <1>3, <1>5 DEF TraceInv

\* The chain advances by one entry, which is returned at once.
LEMMA ReturnedAdvances ==
    ASSUME TraceTypeOK, ReturnedInv, NEW e \in TraceEntries, trace_hash' = Append(trace_hash, e),
           returned' = Append(returned, Append(trace_hash, e))
    PROVE  ReturnedInv'
<1>1. /\ trace_hash \in Seq(TraceEntries) /\ returned \in Seq(Seq(TraceEntries))
      /\ Len(trace_hash) \in Nat /\ Len(returned) = Len(trace_hash)
  BY LenProperties DEF TraceTypeOK, ReturnedInv
<1>2. /\ trace_hash' \in Seq(TraceEntries) /\ Len(trace_hash') = Len(trace_hash) + 1
      /\ \A i \in 1 .. Len(trace_hash) : trace_hash'[i] = trace_hash[i]
  BY <1>1, AppendProperties
<1>3. /\ Len(returned') = Len(returned) + 1
      /\ \A k \in 1 .. Len(returned) : returned'[k] = returned[k]
      /\ returned'[Len(returned) + 1] = trace_hash'
  BY <1>1, <1>2, AppendProperties
<1>4. SubSeq(trace_hash', 1, Len(trace_hash')) = trace_hash'
  BY <1>2, SubSeqFull
<1>5. ASSUME NEW k \in 1 .. Len(returned)
      PROVE  returned'[k] = SubSeq(trace_hash', 1, k)
  <2>1. SubSeq(trace_hash, 1, k) = returned[k]
    BY DEF ReturnedInv
  <2>2. /\ returned[k] \in Seq(TraceEntries) /\ Len(returned[k]) = k
        /\ Begins(returned[k], trace_hash)
    <3>1. \A i \in 1 .. k : trace_hash[i] \in TraceEntries
      BY <1>1, ElementOfSeq
    <3>2. SubSeq(trace_hash, 1, k) \in Seq(TraceEntries) /\ Len(SubSeq(trace_hash, 1, k)) = k
      BY <1>1, <3>1, SubSeqProperties
    <3> QED
      BY <1>1, <2>1, <3>2 DEF Begins
  <2>3. Begins(returned[k], trace_hash')
    BY <1>1, <2>2, BeginsLonger
  <2> QED
    BY <1>3, <2>2, <2>3 DEF Begins
<1> QED
  BY <1>1, <1>2, <1>3, <1>4, <1>5 DEF ReturnedInv

\* Every step of the only task keeps the invariant.
LEMMA TraceStays ==
    ASSUME NEW t, Tasks = {t}, TraceInv(t), TraceTypeOK', [TraceNext]_traceVars
    PROVE  TraceInv(t)'
<1> USE DEF TraceInv
<1>0. /\ trace_hash \in Seq(TraceEntries) /\ Len(trace_hash) \in Nat
      /\ trace_table \in Seq(Rows(TraceEntries)) /\ Len(trace_table) \in Nat /\ t \in Tasks
      /\ trace_pc[t] \in {"idle", "writing", "written"}
      /\ \A r \in Rows(TraceEntries) : r.content \in TraceEntries /\ r.entry_hash \in Seq(TraceEntries)
      /\ \A i \in 1 .. Len(trace_table) : trace_table[i] \in Rows(TraceEntries)
  BY LenProperties, ElementOfSeq DEF TraceTypeOK, Rows
<1>1. ASSUME NEW e \in TraceEntries, RecordToStdout(e)
      PROVE  TraceInv(t)'
  <2>1. /\ trace_hash' = Append(trace_hash, e) /\ returned' = Append(returned, trace_hash')
        /\ database = "none" /\ UNCHANGED <<database, trace_pc, pending, trace_table>>
    BY <1>1 DEF RecordToStdout, Hash
  <2>2. ReturnedInv'
    BY <2>1, ReturnedAdvances
  <2>3. trace_table = << >> /\ Len(trace_table) = 0 /\ trace_pc[t] = "idle"
    BY <2>1, EmptySeq DEF PendingInv
  <2>4. PendingInv(t)' /\ TableInv(t)'
    BY <2>1, <2>3 DEF PendingInv, TableInv
  <2> QED
    BY <2>2, <2>4
<1>2. ASSUME NEW e \in TraceEntries, RecordBegin(t, e)
      PROVE  TraceInv(t)'
  <2> DEFINE r == Row(e, trace_hash)
  <2>1. /\ r \in Rows(TraceEntries) /\ r.entry_hash = Append(trace_hash, r.content)
        /\ r.content = e /\ r.prev_hash = trace_hash
    BY <1>0, RowType DEF Row, Hash
  <2> HIDE DEF r
  <2>2. /\ pending'[t] = r /\ trace_pc[t] = "idle" /\ trace_pc'[t] = "writing" /\ database # "none"
        /\ UNCHANGED <<database, trace_hash, trace_table, returned>>
    BY <1>0, <1>2 DEF RecordBegin, TraceTypeOK, r
  <2>3. ReturnedInv' /\ PendingInv(t)'
    BY <2>1, <2>2 DEF ReturnedInv, PendingInv
  <2>4. Current(t) = trace_hash /\ Current(t)' = Append(trace_hash, e)
    BY <2>1, <2>2 DEF Current
  <2>5. \A i \in 1 .. Len(trace_table) : Begins(trace_table[i].entry_hash, Current(t)')
    BY <1>0, <2>4, BeginsLonger DEF TableInv
  <2>6. TableInv(t)'
    BY <2>2, <2>5 DEF TableInv
  <2> QED
    BY <2>3, <2>6
<1>3. CASE WriteToDb(t)
  <2> DEFINE r == pending[t]
  <2>1. /\ trace_pc[t] = "writing" /\ trace_pc'[t] = "written" /\ trace_table' = Append(trace_table, r)
        /\ UNCHANGED <<database, trace_hash, pending, returned>>
    BY <1>0, <1>3 DEF WriteToDb, TraceTypeOK
  <2>2. /\ r \in Rows(TraceEntries) /\ r.entry_hash = Append(trace_hash, r.content)
        /\ r.prev_hash = trace_hash /\ database # "none"
    BY <2>1 DEF PendingInv
  <2>3. ReturnedInv' /\ PendingInv(t)'
    BY <2>1, <2>2 DEF ReturnedInv, PendingInv
  <2>4. Current(t) = r.entry_hash /\ Current(t)' = r.entry_hash
    BY <2>1 DEF Current
  <2>5. /\ Len(trace_table') = Len(trace_table) + 1 /\ trace_table'[Len(trace_table) + 1] = r
        /\ \A i \in 1 .. Len(trace_table) : trace_table'[i] = trace_table[i]
    BY <1>0, <2>1, <2>2, AppendProperties
  <2>6. Begins(r.entry_hash, r.entry_hash)
    BY <1>0, <2>2, BeginsLonger
  <2>7. \A i \in 1 .. Len(trace_table') : Begins(trace_table'[i].entry_hash, Current(t)')
    BY <1>0, <2>4, <2>5, <2>6 DEF TableInv
  <2>8. ASSUME database = "reliable"
        PROVE  VerifyChain(trace_table') /\ TailHash(trace_table') = r.entry_hash
    <3>1. VerifyChain(trace_table) /\ TailHash(trace_table) = trace_hash
      BY <2>1, <2>8 DEF TableInv
    <3>2. r = Row(r.content, trace_hash)
      BY <2>2 DEF Rows, Row, Hash
    <3>3. /\ VerifyChain(Append(trace_table, Row(r.content, TailHash(trace_table))))
          /\ TailHash(Append(trace_table, Row(r.content, TailHash(trace_table)))) =
                 Hash(r.content, TailHash(trace_table))
      BY <1>0, <2>2, <3>1, VerifyAppend
    <3> QED
      BY <2>1, <2>2, <3>1, <3>2, <3>3 DEF Hash
  <2>9. TableInv(t)'
    BY <2>1, <2>7, <2>8 DEF TableInv
  <2> QED
    BY <2>3, <2>9
<1>4. CASE WriteFailed(t)
  <2>1. /\ trace_pc[t] = "writing" /\ trace_pc'[t] = "written" /\ database = "failing"
        /\ UNCHANGED <<database, trace_hash, pending, returned, trace_table>>
    BY <1>0, <1>4 DEF WriteFailed, TraceTypeOK
  <2>2. Current(t)' = Current(t)
    BY <2>1 DEF Current
  <2>3. ReturnedInv' /\ PendingInv(t)' /\ TableInv(t)'
    BY <2>1, <2>2 DEF ReturnedInv, PendingInv, TableInv
  <2> QED
    BY <2>3
<1>5. CASE RecordEnd(t)
  <2>1. /\ trace_pc[t] = "written" /\ trace_pc'[t] = "idle" /\ trace_hash' = pending[t].entry_hash
        /\ returned' = Append(returned, pending[t].entry_hash)
        /\ UNCHANGED <<database, trace_table>>
    BY <1>0, <1>5 DEF RecordEnd, TraceTypeOK
  <2>2. /\ pending[t] \in Rows(TraceEntries) /\ database # "none"
        /\ pending[t].entry_hash = Append(trace_hash, pending[t].content)
    BY <2>1 DEF PendingInv
  <2>3. ReturnedInv'
    BY <1>0, <2>1, <2>2, ReturnedAdvances
  <2>4. PendingInv(t)'
    BY <2>1, <2>2 DEF PendingInv
  <2>5. Current(t)' = Current(t)
    BY <2>1 DEF Current
  <2>6. TableInv(t)'
    BY <2>1, <2>5 DEF TableInv
  <2> QED
    BY <2>3, <2>4, <2>6
<1>6. CASE UNCHANGED traceVars
  <2>1. UNCHANGED <<database, trace_hash, trace_pc, pending, trace_table, returned>>
    BY <1>6 DEF traceVars
  <2>2. ReturnedInv' /\ PendingInv(t)' /\ TableInv(t)'
    BY <2>1 DEF ReturnedInv, PendingInv, TableInv, Current
  <2> QED
    BY <2>2
<1> QED
  BY <1>1, <1>2, <1>3, <1>4, <1>5, <1>6 DEF TraceNext

\* The invariant of a ledger that one task writes to.
LEMMA TraceInductive ==
    ASSUME NEW t, Tasks = {t}
    PROVE  TraceSpec => []TraceInv(t)
<1>1. TraceInit => TraceInv(t)
  BY TraceBegins
<1>2. TraceInv(t) /\ TraceTypeOK' /\ [TraceNext]_traceVars => TraceInv(t)'
  BY TraceStays
<1> QED
  BY <1>1, <1>2, TraceTypeCorrect, PTL DEF TraceSpec

\* verify_chain() accepts every table that one task recorded while no INSERT
\* failed.
THEOREM OneTaskChainVerifies ==
    ASSUME NEW t, Tasks = {t}
    PROVE  TraceSpec => []TraceVerifies
<1>1. TraceInv(t) => TraceVerifies
  BY DEF TraceInv, TableInv, TraceVerifies
<1> QED
  BY <1>1, TraceInductive, PTL

\* A swallowed failure never goes unnoticed: whichever INSERTs failed, a table that
\* verifies holds the first entries recorded, each under the hash returned for it.
THEOREM OneTaskHasNoHole ==
    ASSUME NEW t, Tasks = {t}
    PROVE  TraceSpec => []VerifiedHasNoHole
<1>1. TraceInv(t) => VerifiedHasNoHole
  <2> SUFFICES ASSUME TraceInv(t), VerifyChain(trace_table), NEW k \in DOMAIN trace_table, k \in DOMAIN returned
               PROVE  trace_table[k].entry_hash = returned[k]
    BY DEF VerifiedHasNoHole, TraceInv
  <2>1. /\ trace_table \in Seq(Rows(TraceEntries)) /\ DOMAIN trace_table = 1 .. Len(trace_table)
        /\ DOMAIN returned = 1 .. Len(returned) /\ Len(returned) \in Nat /\ t \in Tasks
        /\ trace_hash \in Seq(TraceEntries) /\ Len(trace_hash) = Len(returned)
    BY LenProperties DEF TraceInv, TraceTypeOK, ReturnedInv
  <2>2. trace_table[k].entry_hash = SubSeq(Contents(trace_table), 1, k)
    BY <2>1, VerifiedHashes
  <2>3. Len(trace_table[k].entry_hash) = k
    <3>1. Contents(trace_table) \in Seq(TraceEntries) /\ Len(Contents(trace_table)) = Len(trace_table)
      BY <2>1, ContentsType
    <3>2. \A i \in 1 .. k : Contents(trace_table)[i] \in TraceEntries
      BY <2>1, <3>1, ElementOfSeq
    <3> QED
      BY <2>1, <2>2, <3>2, SubSeqProperties
  <2>4. trace_table[k].entry_hash = SubSeq(Current(t), 1, k)
    BY <2>1, <2>3 DEF TraceInv, TableInv, Begins
  <2>5. SubSeq(Current(t), 1, k) = SubSeq(trace_hash, 1, k)
    <3>1. CASE trace_pc[t] = "idle"
      BY <3>1 DEF Current
    <3>2. CASE trace_pc[t] # "idle"
      <4>1. Current(t) = Append(trace_hash, pending[t].content) /\ pending[t].content \in TraceEntries
        BY <3>2 DEF Current, TraceInv, PendingInv, Rows
      <4> DEFINE h == SubSeq(trace_hash, 1, k)
      <4>2. h \in Seq(TraceEntries) /\ Len(h) = k /\ Begins(h, trace_hash)
        <5>1. \A i \in 1 .. k : trace_hash[i] \in TraceEntries
          BY <2>1, ElementOfSeq
        <5>2. h \in Seq(TraceEntries) /\ Len(h) = k
          BY <2>1, <5>1, SubSeqProperties
        <5> QED
          BY <2>1, <5>2 DEF Begins
      <4> HIDE DEF h
      <4>3. Begins(h, Current(t))
        BY <2>1, <4>1, <4>2, BeginsLonger
      <4> QED
        BY <4>2, <4>3 DEF Begins, h
    <3> QED
      BY <3>1, <3>2
  <2>6. returned[k] = SubSeq(trace_hash, 1, k)
    BY <2>1 DEF TraceInv, ReturnedInv
  <2> QED
    BY <2>4, <2>5, <2>6
<1> QED
  BY <1>1, TraceInductive, PTL
===============================================================================
