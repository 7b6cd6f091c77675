-------------------------- MODULE AgentEngineProofs --------------------------
(***************************************************************************)
(* AgentEngine over CloudLedger, for any agents, entries and bounds: what  *)
(* verify_chain() accepts is one agent's own log, whatever the agents of a *)
(* run do to each other's rows (RowsInv); a flush to DynamoDB that returns *)
(* has healed what failed ones left behind (HealInv); and a query whose    *)
(* answer calls the chain valid has its whole log in it (QueriesInv).      *)
(***************************************************************************)
EXTENDS AgentEngine, HashChainProofs

\* Rows that carry the hash of some first entries of a log.
Own(log) == {r \in Rows(Entries) : Begins(r.entry_hash, log)}

\* Rows that carry the hash of some first entries of some agent's log.
Stored == {r \in Rows(Entries) : \E a \in Agents : Begins(r.entry_hash, written[a])}

\* Every backend chains to everything its agent wrote, and every row, queued or
\* stored, carries the hash of a beginning of its writer's log.
RowsInv ==
    /\ written \in [Agents -> Seq(Entries)]
    /\ last_hash = written
    /\ buffer \in [Agents -> Seq(Rows(Entries))]
    /\ \A a \in Agents : buffer[a] \in Seq(Own(written[a]))
    /\ table \in [Seqs -> Seq(Stored)]

\* The row that write() makes of entry i of a log.
LogRow(log, i) == Row(log[i], SubSeq(log, 1, i - 1))

\* All that the agent has written is queued.
AllQueued(a) ==
    /\ Len(buffer[a]) = Len(written[a])
    /\ \A i \in 1 .. Len(buffer[a]) : buffer[a][i] = LogRow(written[a], i)

\* A queue holds no more than its agent wrote, an agent writes no more than it
\* may, a flush on its way takes something, to a store that there is, and DynamoDB
\* has stored what it took once all of that is put.
QueueInv ==
    /\ LedgerTypeOK
    /\ put \in [Agents -> SUBSET Nat] /\ rejected \in [Agents -> SUBSET Nat]
    /\ flushed \in [Agents -> Seq(Nat)] /\ batch \in [Agents -> Nat]
    /\ \A a \in Agents :
          /\ Len(written[a]) <= MaxEntries[a]
          /\ Len(buffer[a]) <= Len(written[a])
          /\ pc[a] \in {"sending", "stored", "row_errors"} => connected /\ batch[a] # 0
          /\ pc[a] \in {"idle", "crashed"} => batch[a] = 0
          /\ provider = "aws" => pc[a] # "row_errors"
          /\ provider = "aws" /\ pc[a] = "stored" => put[a] = 1 .. batch[a]
          /\ put[a] # {} => provider = "aws" /\ pc[a] \in {"sending", "stored"}

\* Before the flush that returns, the log is queued, and under a key there is
\* nothing or the row of that position, the row itself once the batch has put it.
Healing(a) ==
    /\ AllQueued(a)
    /\ \A i \in put[a] : table[i - 1] = <<LogRow(written[a], i)>>
    /\ \A s \in Seqs :
          table[s] # << >> =>
              s < Len(written[a]) /\ table[s] = <<LogRow(written[a], s + 1)>>

\* After it the table holds the log.
Healed(a) ==
    /\ buffer[a] = << >>
    /\ \A s \in Seqs :
          table[s] = IF s < Len(written[a]) THEN <<LogRow(written[a], s + 1)>> ELSE << >>

\* DynamoDB and one agent: what its flushes have made of the table.
HealInv ==
    \A a \in Agents :
        provider = "aws" /\ connected /\ pc[a] # "crashed" /\ IsAlone(a)
        => IF flushed[a] = << >> THEN Healing(a) ELSE Healed(a)

\* The row of the agent's last entry is in the table.
LastStored(a) ==
    written[a] # << >> =>
        \E s \in Seqs : \E k \in DOMAIN table[s] : table[s][k].entry_hash = written[a]

\* A query that is not flushed has its whole log queued, and its flush, while which
\* it logs nothing, takes all of it.  Then DynamoDB has taken the queue, BigQuery the
\* last row of it unless it refused the rows.
QueriesInv ==
    \A q \in Queries :
        /\ pc[q] # "crashed"
        /\ phase[q] # "flushing" => pc[q] = "idle"
        /\ pc[q] # "idle" => batch[q] = Len(buffer[q])
        /\ provider = "local" \/ (connected /\ phase[q] \notin {"verifying", "closing", "answered"})
           => AllQueued(q)
        /\ provider = "gcp" /\ pc[q] = "stored" => LastStored(q)
        /\ connected /\ phase[q] = "verifying" =>
              /\ buffer[q] = << >>
              /\ provider = "gcp" => rejected[q] # {} \/ LastStored(q)

-------------------------------------------------------------------------------
(***************************************************************************)
(* The keys of the table                                                   *)
(***************************************************************************)

\* A finite set of numbers has a largest one.  (Among its nonempty subsets
\* without one, a smallest would lose it by losing any element.)
LEMMA MaxExists ==
    ASSUME NEW S, S \subseteq Nat, IsFiniteSet(S), S # {}
    PROVE  Max(S) \in S /\ \A x \in S : x <= Max(S)
<1> DEFINE Top(X) == \E x \in X : \A y \in X : x >= y
           T == {X \in SUBSET S : X # {} /\ ~ Top(X)}
<1>1. FiniteSubsetsOf(S) = SUBSET S
  BY FS_FiniteSubsetsOfFinite
<1>2. IsWellFoundedOn(StrictSubsetOrdering(S), SUBSET S)
  BY <1>1, FS_StrictSubsetOrderingWellFounded
<1>3. ASSUME T # {}
      PROVE  FALSE
  <2>1. T \subseteq SUBSET S
    OBVIOUS
  <2> HIDE DEF T
  <2>2. PICK X \in T : \A Y \in T : ~ (<<Y, X>> \in StrictSubsetOrdering(S))
    BY <1>2, <1>3, <2>1, WFMin, Zenon
  <2>3. X \in SUBSET S /\ X # {} /\ ~ Top(X)
    BY DEF T
  <2>4. PICK x \in X : TRUE
    BY <2>3
  <2> DEFINE Y == X \ {x}
  <2>5. Y \in SUBSET S /\ <<Y, X>> \in StrictSubsetOrdering(S)
    BY <2>3, <2>4 DEF StrictSubsetOrdering
  <2>6. Y = {} \/ Top(Y)
    <3>1. Y \notin T
      BY <2>2, <2>5
    <3> QED
      BY <2>5, <3>1 DEF T
  <2>7. CASE Y = {}
    <3>1. \A y \in X : x >= y
      BY <2>3, <2>4, <2>7
    <3> QED
      BY <2>3, <2>4, <3>1
  <2>8. CASE Top(Y)
    <3>1. PICK z \in Y : \A y \in Y : z >= y
      BY <2>8
    <3>2. x \in Nat /\ z \in Nat /\ z \in X
      BY <2>3, <2>4, <3>1
    <3>3. CASE z >= x
      <4>1. \A y \in X : z >= y
        BY <3>1, <3>3
      <4> QED
        BY <2>3, <3>2, <4>1
    <3>4. CASE ~ (z >= x)
      <4>1. \A y \in X : x >= y
        BY <2>3, <3>1, <3>2, <3>4
      <4> QED
        BY <2>3, <2>4, <4>1
    <3> QED
      BY <3>3, <3>4
  <2> QED
    BY <2>6, <2>7, <2>8
<1>4. Top(S)
  BY <1>3
<1>5. Max(S) \in S /\ \A x \in S : Max(S) >= x
  BY <1>4 DEF Max
<1> QED
  BY <1>5

\* The keys run from 0 to the most entries an agent writes.
LEMMA KeysAreNumbers ==
    \E n \in Nat : /\ n > 0 /\ Seqs = 0 .. n - 1 /\ Cardinality(Seqs) = n
                 /\ \A a \in Agents : MaxEntries[a] <= n
<1> DEFINE S == {MaxEntries[a] : a \in Agents}
           n == Max(S)
<1>1. S \subseteq Nat \ {0} /\ S # {}
  BY BoundsAssumption
<1>2. IsFiniteSet(S)
  <2> DEFINE f == [a \in Agents |-> MaxEntries[a]]
  <2>1. S = {f[a] : a \in Agents} /\ f \in [Agents -> S]
    OBVIOUS
  <2>2. f \in Surjection(Agents, S)
    BY <2>1 DEF Surjection
  <2> HIDE DEF f, S
  <2> QED
    BY <2>2, BoundsAssumption, FS_Surjection
<1>6. \A a \in Agents : MaxEntries[a] \in S
  OBVIOUS
<1> HIDE DEF S
<1>3. n \in Nat \ {0} /\ \A x \in S : x <= n
  BY <1>1, <1>2, MaxExists
<1>4. Seqs = 0 .. n - 1
  BY DEF Seqs, S
<1> HIDE DEF n
<1>5. Cardinality(0 .. n - 1) = n
  BY <1>3, FS_Interval
<1> QED
  BY <1>3, <1>4, <1>5, <1>6

-------------------------------------------------------------------------------
(***************************************************************************)
(* What the query of verify_chain() reads                                  *)
(***************************************************************************)

\* The rows under key s in any order, followed by those of the keys after it.
ScansAt(s, rests) ==
    {Ordered(table[s], p) \o rest : p \in Orders(Len(table[s])), rest \in rests}

\* A query reads the keys one after the other: the recursion of ScansFrom ends
\* with the last key.
LEMMA ScansUnfold ==
    LET N == Cardinality(Seqs)
    IN  ScansFrom = [s \in 0 .. N |->
                        IF s = N THEN {<< >>} ELSE ScansAt(s, ScansFrom[s + 1])]
<1> DEFINE N == Cardinality(Seqs)
           Fits(f, k) == f = [s \in k .. N |->
                                 IF s = N THEN {<< >>} ELSE ScansAt(s, f[s + 1])]
           Bad == {j \in 1 .. N : ~ \E f : Fits(f, N - j)}
<1>1. N \in Nat
  BY KeysAreNumbers
<1>2. ScansFrom = CHOOSE f : f = [s \in 0 .. N |->
                                     IF s = N THEN {<< >>} ELSE ScansAt(s, f[s + 1])]
  BY DEF ScansFrom, ScansAt
<1> HIDE DEF N
<1>3. \E f : Fits(f, N)
  <2>1. Fits([s \in N .. N |-> {<< >>}], N)
    BY <1>1
  <2> QED
    BY <2>1
<1>4. ASSUME Bad # {}
      PROVE  FALSE
  <2>1. PICK m \in Bad : \A k \in Bad : m <= k
    <3>1. Bad \in SUBSET (1 .. N)
      OBVIOUS
    <3> HIDE DEF Bad
    <3> QED
      BY <1>1, <1>4, <3>1, FirstPosition
  <2>2. m \in 1 .. N /\ ~ \E f : Fits(f, N - m)
    OBVIOUS
  <2>3. \E f : Fits(f, N - (m - 1))
    <3>1. CASE m = 1
      <4>1. N - (m - 1) = N
        BY <1>1, <3>1
      <4> QED
        BY <1>3, <4>1
    <3>2. CASE m # 1
      <4>1. m - 1 \in 1 .. N /\ ~ (m <= m - 1)
        BY <1>1, <2>2, <3>2
      <4>2. m - 1 \notin Bad
        BY <2>1, <4>1
      <4> QED
        BY <4>1, <4>2
    <3> QED
      BY <3>1, <3>2
  <2> HIDE DEF Bad
  <2> DEFINE k == N - m
  <2>4. k \in 0 .. N - 1 /\ N - (m - 1) = k + 1
    BY <1>1, <2>2
  <2> HIDE DEF k
  <2>5. PICK f : Fits(f, k + 1)
    BY <2>3, <2>4
  <2> DEFINE g == [s \in k .. N |-> IF s = k THEN ScansAt(k, f[k + 1]) ELSE f[s]]
             h == [s \in k .. N |-> IF s = N THEN {<< >>} ELSE ScansAt(s, g[s + 1])]
  <2>6. ASSUME NEW s \in k .. N
        PROVE  g[s] = h[s]
    <3>1. s # N => s + 1 \in k + 1 .. N /\ g[s + 1] = f[s + 1]
      BY <1>1, <2>4
    <3>2. s # k => s \in k + 1 .. N
      BY <1>1, <2>4
    <3>4. \A u \in k + 1 .. N : f[u] = IF u = N THEN {<< >>} ELSE ScansAt(u, f[u + 1])
      BY <2>5
    <3>3. k # N
      BY <1>1, <2>4
    <3> QED
      BY <3>1, <3>2, <3>3, <3>4
  <2>7. g = h
    BY <2>6
  <2>8. Fits(g, k)
    BY <2>7
  <2> QED
    BY <2>2, <2>8 DEF k
<1>5. \E f : Fits(f, 0)
  <2>1. CASE N = 0
    BY <1>3, <2>1
  <2>2. CASE N # 0
    <3>1. N \in 1 .. N /\ N - N = 0
      BY <1>1, <2>2
    <3>2. N \notin Bad
      BY <1>4
    <3> QED
      BY <3>1, <3>2
  <2> QED
    BY <2>1, <2>2
<1> QED
  BY <1>2, <1>5 DEF N

\* What holds of the empty reading after the last key, and of the reading from one
\* key when it holds of the reading from the next, holds of the whole reading.
LEMMA ScansInduction ==
    ASSUME NEW G,
           << >> \in G[Cardinality(Seqs)],
           \A s \in 0 .. Cardinality(Seqs) - 1 :
               ScansFrom[s + 1] \subseteq G[s + 1]
                   => ScansAt(s, ScansFrom[s + 1]) \subseteq G[s]
    PROVE  Scans \subseteq G[0]
<1> DEFINE N == Cardinality(Seqs)
           Bad == {j \in 1 .. N : ~ (ScansFrom[N - j] \subseteq G[N - j])}
<1>1. N \in Nat
  BY KeysAreNumbers
<1>2. \A s \in 0 .. N :
          ScansFrom[s] = IF s = N THEN {<< >>} ELSE ScansAt(s, ScansFrom[s + 1])
  BY ScansUnfold
<1>0. /\ << >> \in G[N]
      /\ \A s \in 0 .. N - 1 :
             ScansFrom[s + 1] \subseteq G[s + 1]
                 => ScansAt(s, ScansFrom[s + 1]) \subseteq G[s]
  OBVIOUS
<1> HIDE DEF N
<1>3. ScansFrom[N] \subseteq G[N]
  <2>1. N \in 0 .. N
    BY <1>1
  <2>2. ScansFrom[N] = {<< >>}
    BY <1>2, <2>1
  <2> QED
    BY <1>0, <2>2
<1>4. ASSUME NEW s \in 0 .. N - 1, ScansFrom[s + 1] \subseteq G[s + 1]
      PROVE  ScansFrom[s] \subseteq G[s]
  <2>1. s \in 0 .. N /\ s # N
    BY <1>1
  <2>2. ScansFrom[s] = ScansAt(s, ScansFrom[s + 1])
    BY <1>2, <2>1
  <2> QED
    BY <1>0, <1>4, <2>2
<1>5. ASSUME Bad # {}
      PROVE  FALSE
  <2>1. PICK m \in Bad : \A k \in Bad : m <= k
    <3>1. Bad \in SUBSET (1 .. N)
      OBVIOUS
    <3> HIDE DEF Bad
    <3> QED
      BY <1>1, <1>5, <3>1, FirstPosition
  <2>2. m \in 1 .. N /\ ~ (ScansFrom[N - m] \subseteq G[N - m])
    OBVIOUS
  <2>3. ScansFrom[N - m + 1] \subseteq G[N - m + 1]
    <3>1. CASE m = 1
      <4>1. N - m + 1 = N
        BY <1>1, <3>1
      <4> QED
        BY <1>3, <4>1
    <3>2. CASE m # 1
      <4>1. m - 1 \in 1 .. N /\ ~ (m <= m - 1)
        BY <1>1, <2>2, <3>2
      <4>2. m - 1 \notin Bad
        BY <2>1, <4>1
      <4>3. N - (m - 1) = N - m + 1
        BY <1>1, <2>2
      <4> QED
        BY <4>1, <4>2, <4>3
    <3> QED
      BY <3>1, <3>2
  <2>4. N - m \in 0 .. N - 1
    BY <1>1, <2>2
  <2> QED
    BY <1>4, <2>2, <2>3, <2>4
<1>6. ScansFrom[0] \subseteq G[0]
  <2>1. CASE N = 0
    BY <1>3, <2>1
  <2>2. CASE N # 0
    <3>1. N \in 1 .. N /\ N - N = 0
      BY <1>1, <2>2
    <3>2. N \notin Bad
      BY <1>5
    <3> QED
      BY <3>1, <3>2
  <2> QED
    BY <2>1, <2>2
<1> QED
  BY <1>6 DEF Scans

\* The rows of one key in some order are rows of that key, every one of them.
LEMMA OrderedRows ==
    ASSUME NEW R, NEW rows \in Seq(R), NEW p \in Orders(Len(rows))
    PROVE  /\ Ordered(rows, p) \in Seq(R)
           /\ Len(Ordered(rows, p)) = Len(rows)
           /\ \A k \in 1 .. Len(rows) :
                  \E i \in 1 .. Len(rows) : Ordered(rows, p)[i] = rows[k]
<1> DEFINE n == Len(rows)
<1>1. n \in Nat /\ \A i \in 1 .. n : rows[i] \in R
  BY LenProperties, ElementOfSeq
<1>2. p \in [1 .. n -> 1 .. n] /\ {p[i] : i \in 1 .. n} = 1 .. n
  BY DEF Orders, FewOrders, OrdersOf
<1>3. Ordered(rows, p) = [i \in 1 .. n |-> rows[p[i]]]
  BY DEF Ordered
<1> HIDE DEF n
<1>4. Ordered(rows, p) \in [1 .. n -> R]
  BY <1>1, <1>2, <1>3
<1>5. Ordered(rows, p) \in Seq(R) /\ Len(Ordered(rows, p)) = n
  BY <1>1, <1>4, SeqDef, LenProperties
<1>6. ASSUME NEW k \in 1 .. n
      PROVE  \E i \in 1 .. n : Ordered(rows, p)[i] = rows[k]
  <2>1. PICK i \in 1 .. n : p[i] = k
    BY <1>2
  <2> QED
    BY <1>3, <2>1
<1> QED
  BY <1>5, <1>6 DEF n

\* What is read are rows of the table in some order, and none is left out.
LEMMA ScansAreRows ==
    ASSUME NEW R, table \in [Seqs -> Seq(R)]
    PROVE  \A rows \in Scans :
               /\ rows \in Seq(R)
               /\ \A s \in Seqs : \A k \in DOMAIN table[s] :
                      \E i \in 1 .. Len(rows) : rows[i] = table[s][k]
<1> DEFINE N == Cardinality(Seqs)
           Has(rows, t, k) == \E i \in 1 .. Len(rows) : rows[i] = table[t][k]
           HasFrom(rows, s) == \A t \in s .. N - 1 : \A k \in 1 .. Len(table[t]) : Has(rows, t, k)
           G == [s \in 0 .. N |-> {rows \in Seq(R) : HasFrom(rows, s)}]
<1>1. N \in Nat /\ Seqs = 0 .. N - 1
  BY KeysAreNumbers
<1>2. \A s \in 0 .. N - 1 :
          table[s] \in Seq(R) /\ DOMAIN table[s] = 1 .. Len(table[s]) /\ Len(table[s]) \in Nat
  <2>1. \A s \in 0 .. N - 1 : table[s] \in Seq(R)
    BY <1>1
  <2> QED
    BY <2>1, LenProperties
<1>3. << >> \in G[N]
  <2>1. N \in 0 .. N /\ N .. N - 1 = {}
    BY <1>1
  <2>2. << >> \in Seq(R)
    BY EmptySeq
  <2> HIDE DEF N, Has
  <2> QED
    BY <2>1, <2>2
<1>4. ASSUME NEW s \in 0 .. N - 1, ScansFrom[s + 1] \subseteq G[s + 1],
             NEW rows \in ScansAt(s, ScansFrom[s + 1])
      PROVE  rows \in G[s]
  <2>1. PICK p \in Orders(Len(table[s])), rest \in ScansFrom[s + 1] :
            rows = Ordered(table[s], p) \o rest
    <3> HIDE DEF G, N
    <3> QED
      BY SMTT(30) DEF ScansAt
  <2> DEFINE first == Ordered(table[s], p)
  <2>2. /\ first \in Seq(R) /\ Len(first) = Len(table[s])
        /\ \A k \in 1 .. Len(table[s]) : \E i \in 1 .. Len(table[s]) : first[i] = table[s][k]
    BY <1>2, OrderedRows
  <2> HIDE DEF first
  <2>3. s + 1 \in 0 .. N /\ s \in 0 .. N
    BY <1>1
  <2>4. rest \in Seq(R) /\ HasFrom(rest, s + 1)
    <3>1. rest \in G[s + 1]
      BY <1>4, <2>1
    <3> HIDE DEF HasFrom, N
    <3> QED
      BY <2>3, <3>1
  <2>5. /\ rows \in Seq(R) /\ Len(rows) = Len(first) + Len(rest)
        /\ Len(first) \in Nat /\ Len(rest) \in Nat
        /\ \A i \in 1 .. Len(first) : rows[i] = first[i]
        /\ \A i \in 1 .. Len(rest) : rows[Len(first) + i] = rest[i]
    <3>1. rows = first \o rest
      BY <2>1 DEF first
    <3>2. /\ rows \in Seq(R) /\ Len(rows) = Len(first) + Len(rest)
          /\ \A i \in 1 .. Len(first) + Len(rest) :
                rows[i] = IF i <= Len(first) THEN first[i] ELSE rest[i - Len(first)]
      <4>1. first \in Seq(R) /\ rest \in Seq(R)
        BY <2>2, <2>4
      <4> HIDE DEF G, HasFrom, Has, N
      <4> QED
        BY <3>1, <4>1, ConcatProperties
    <3>3. Len(first) \in Nat /\ Len(rest) \in Nat
      BY <2>2, <2>4, LenProperties
    <3>4. ASSUME NEW i \in 1 .. Len(rest)
          PROVE  rows[Len(first) + i] = rest[i]
      <4> DEFINE j == Len(first) + i
      <4>1. j \in 1 .. Len(first) + Len(rest) /\ ~ (j <= Len(first)) /\ j - Len(first) = i
        BY <3>3
      <4> HIDE DEF j
      <4> QED
        BY <3>2, <4>1 DEF j
    <3> QED
      BY <3>2, <3>3, <3>4
  <2>6. ASSUME NEW t \in s .. N - 1, NEW k \in 1 .. Len(table[t])
        PROVE  Has(rows, t, k)
    <3>1. CASE t = s
      <4>1. PICK i \in 1 .. Len(table[s]) : first[i] = table[s][k]
        BY <2>2, <3>1
      <4>2. i \in 1 .. Len(first) /\ i \in 1 .. Len(rows)
        BY <2>2, <2>5, <4>1
      <4> QED
        BY <2>5, <3>1, <4>1, <4>2
    <3>2. CASE t # s
      <4>1. t \in s + 1 .. N - 1
        BY <1>1, <3>2
      <4>2. PICK i \in 1 .. Len(rest) : rest[i] = table[t][k]
        BY <2>4, <4>1
      <4>3. Len(first) + i \in 1 .. Len(rows)
        BY <2>5, <4>2
      <4> QED
        BY <2>5, <4>2, <4>3
    <3> QED
      BY <3>1, <3>2
  <2>7. HasFrom(rows, s)
    BY <2>6
  <2> HIDE DEF HasFrom, N
  <2> QED
    BY <2>3, <2>5, <2>7
<1>5. Scans \subseteq G[0]
  <2> HIDE DEF G
  <2> QED
    BY <1>3, <1>4, ScansInduction
<1>6. 0 \in 0 .. N
  BY <1>1
<1> SUFFICES ASSUME NEW rows \in Scans
             PROVE  rows \in Seq(R) /\ HasFrom(rows, 0)
  BY <1>1, <1>2
<1> HIDE DEF HasFrom, N
<1> QED
  BY <1>5, <1>6

-------------------------------------------------------------------------------
(***************************************************************************)
(* Every row carries the hash of a beginning of its writer's log           *)
(***************************************************************************)

\* What every kind of step needs to know of the rows.
LEMMA RowsTyped ==
    ASSUME RowsInv, NEW a \in Agents
    PROVE  /\ written[a] \in Seq(Entries) /\ last_hash[a] = written[a]
           /\ buffer[a] \in Seq(Rows(Entries)) /\ buffer[a] \in Seq(Own(written[a]))
           /\ Own(written[a]) \subseteq Stored
           /\ \A s \in Seqs : table[s] \in Seq(Stored)
<1>1. Own(written[a]) \subseteq Stored
  BY DEF Own, Stored
<1> QED
  BY <1>1 DEF RowsInv

\* Nothing queued is something of the right kind queued.
LEMMA QueueCleared ==
    ASSUME RowsInv, NEW a \in Agents, UNCHANGED <<written, last_hash>>,
           buffer' = buffer \/ buffer' = [buffer EXCEPT ![a] = << >>],
           table' \in [Seqs -> Seq(Stored)]
    PROVE  RowsInv'
<1>1. Stored' = Stored /\ \A b \in Agents : Own(written[b])' = Own(written[b])
  BY DEF Stored, Own
<1>2. << >> \in Seq(Rows(Entries)) /\ \A b \in Agents : << >> \in Seq(Own(written[b]))
  BY EmptySeq
<1>3. /\ buffer' \in [Agents -> Seq(Rows(Entries))]
      /\ \A b \in Agents : buffer'[b] \in Seq(Own(written[b]))
  BY <1>2 DEF RowsInv
<1> QED
  BY <1>1, <1>3 DEF RowsInv

\* write() chains to the agent's whole log and adds to it.
LEMMA WriteKeepsRows ==
    ASSUME RowsInv, NEW a \in Agents, NEW e \in Entries, Write(a, e)
    PROVE  RowsInv'
<1> DEFINE r == Row(e, last_hash[a])
<1>1. /\ buffer' = [buffer EXCEPT ![a] = Append(@, r)]
      /\ last_hash' = [last_hash EXCEPT ![a] = Append(@, e)]
      /\ written' = [written EXCEPT ![a] = Append(@, e)]
      /\ table' = table
  BY DEF Write, Hash
<1>2. /\ written[a] \in Seq(Entries) /\ last_hash[a] = written[a] /\ last_hash = written
      /\ buffer[a] \in Seq(Rows(Entries)) /\ buffer[a] \in Seq(Own(written[a]))
  BY RowsTyped DEF RowsInv
<1>3. r \in Rows(Entries) /\ r.entry_hash = Append(written[a], e)
  BY <1>2, RowType DEF Hash
<1> HIDE DEF r
<1>4. /\ written' \in [Agents -> Seq(Entries)] /\ last_hash' = written'
      /\ written'[a] = Append(written[a], e)
      /\ \A b \in Agents : b # a => written'[b] = written[b]
  <2>1. Append(written[a], e) \in Seq(Entries)
    BY <1>2, AppendProperties
  <2> QED
    BY <1>1, <1>2, <2>1 DEF RowsInv
<1>5. ASSUME NEW h \in Seq(Entries), NEW b \in Agents, Begins(h, written[b])
      PROVE  Begins(h, written'[b])
  BY <1>2, <1>4, <1>5, BeginsLonger
<1>6. \A b \in Agents : Own(written[b]) \subseteq Own(written'[b])
  BY <1>5 DEF Own, Rows
<1>7. Stored \subseteq Stored'
  BY <1>5 DEF Stored, Rows
<1>8. r \in Own(written'[a])
  <2>1. Begins(Append(written[a], e), Append(written[a], e))
    BY <1>2, BeginsLonger
  <2> QED
    BY <1>3, <1>4, <2>1 DEF Own
<1>9. buffer' \in [Agents -> Seq(Rows(Entries))]
  <2>1. Append(buffer[a], r) \in Seq(Rows(Entries))
    BY <1>2, <1>3, AppendProperties
  <2> QED
    BY <1>1, <2>1 DEF RowsInv
<1>10. \A b \in Agents : buffer'[b] \in Seq(Own(written'[b]))
  <2> SUFFICES ASSUME NEW b \in Agents PROVE buffer'[b] \in Seq(Own(written'[b]))
    OBVIOUS
  <2>1. buffer[b] \in Seq(Own(written'[b]))
    <3>1. buffer[b] \in Seq(Own(written[b]))
      BY DEF RowsInv
    <3> QED
      BY <1>6, <3>1, SeqMonotonic
  <2>2. CASE b = a
    <3>1. Append(buffer[a], r) \in Seq(Own(written'[a]))
      BY <1>8, <2>1, <2>2, AppendProperties
    <3> QED
      BY <1>1, <2>2, <3>1 DEF RowsInv
  <2>3. CASE b # a
    BY <1>1, <2>1, <2>3 DEF RowsInv
  <2> QED
    BY <2>2, <2>3
<1>11. table' \in [Seqs -> Seq(Stored')]
  <2>1. \A s \in Seqs : table[s] \in Seq(Stored')
    <3> SUFFICES ASSUME NEW s \in Seqs PROVE table[s] \in Seq(Stored')
      OBVIOUS
    <3>1. table[s] \in Seq(Stored)
      BY DEF RowsInv
    <3> QED
      BY <1>7, <3>1, SeqMonotonic
  <2>2. table' \in [Seqs -> Seq(Stored)]
    BY <1>1 DEF RowsInv
  <2> QED
    BY <1>1, <2>1, <2>2
<1> QED
  BY <1>4, <1>9, <1>10, <1>11 DEF RowsInv

\* What a thread may take of a queue.
LEMMA TakenIsNumber ==
    ASSUME RowsInv, batch \in [Agents -> Nat], NEW a \in Agents, NEW n \in Taken(a)
    PROVE  n \in Nat /\ batch[a] <= n /\ n <= Len(buffer[a])
<1>1. Len(buffer[a]) \in Nat
  BY LenProperties DEF RowsInv
<1> QED
  BY <1>1 DEF Taken

\* gcp: the rows of a queue are stored under the keys of their positions.
LEMMA InsertStores ==
    ASSUME RowsInv, NEW a \in Agents, NEW n, n <= Len(buffer[a]), n \in Nat
    PROVE  WithRows(a, n) \in [Seqs -> Seq(Stored)]
<1>1. buffer[a] \in Seq(Own(written[a])) /\ Own(written[a]) \subseteq Stored
  BY RowsTyped
<1>2. \E m \in Nat : Seqs = 0 .. m - 1
  BY KeysAreNumbers
<1>3. ASSUME NEW s \in Seqs, s < n
      PROVE  Append(table[s], buffer[a][s + 1]) \in Seq(Stored)
  <2>1. s \in Nat /\ s + 1 \in 1 .. Len(buffer[a])
    BY <1>1, <1>2, <1>3, LenProperties
  <2>2. buffer[a][s + 1] \in Stored
    BY <1>1, <2>1, ElementOfSeq
  <2>3. table[s] \in Seq(Stored)
    BY DEF RowsInv
  <2> QED
    BY <2>2, <2>3, AppendProperties
<1>4. \A s \in Seqs : table[s] \in Seq(Stored)
  BY DEF RowsInv
<1> QED
  BY <1>3, <1>4 DEF WithRows

\* So they are by a thread that does not report back.
LEMMA LeavesStored ==
    ASSUME RowsInv, batch \in [Agents -> Nat], NEW a \in Agents, LeavesRows(a)
    PROVE  table' \in [Seqs -> Seq(Stored)]
<1>1. CASE table' = table
  BY <1>1 DEF RowsInv
<1>2. ASSUME NEW n \in Taken(a), table' = WithRows(a, n)
      PROVE  table' \in [Seqs -> Seq(Stored)]
  BY <1>2, InsertStores, TakenIsNumber
<1> QED
  BY <1>1, <1>2 DEF LeavesRows

\* Whatever a backend's owner or the faults it meets do.
LEMMA LedgerStepKeepsRows ==
    ASSUME RowsInv, batch \in [Agents -> Nat], NEW a \in Agents, LedgerStep(a)
    PROVE  RowsInv'
<1>0. table \in [Seqs -> Seq(Stored)]
  BY DEF RowsInv
<1>1. ASSUME NEW e \in Entries, Write(a, e)
      PROVE  RowsInv'
  BY <1>1, WriteKeepsRows
<1>2. CASE FlushNothing(a)
  <2>1. UNCHANGED <<written, last_hash, table>> /\ buffer' = [buffer EXCEPT ![a] = << >>]
    BY <1>2 DEF FlushNothing
  <2> QED
    BY <1>0, <2>1, QueueCleared
<1>3. CASE FlushBegin(a) \/ FlushSent(a) \/ InsertRejected(a)
  <2>1. UNCHANGED <<written, last_hash, table, buffer>>
    BY <1>3 DEF FlushBegin, FlushSent, InsertRejected
  <2> QED
    BY <1>0, <2>1, QueueCleared
<1>4. CASE FlushPut(a)
  <2>1. PICK i \in DOMAIN buffer[a] : table' = [table EXCEPT ![i - 1] = <<buffer[a][i]>>]
    BY <1>4 DEF FlushPut
  <2>2. buffer[a] \in Seq(Own(written[a])) /\ Own(written[a]) \subseteq Stored
    BY RowsTyped
  <2>3. buffer[a][i] \in Stored
    BY <2>1, <2>2, ElementOfSeq, LenProperties
  <2>4. <<buffer[a][i]>> \in Seq(Stored)
    BY <2>3
  <2>5. table' \in [Seqs -> Seq(Stored)]
    BY <1>0, <2>1, <2>4
  <2>6. UNCHANGED <<written, last_hash, buffer>>
    BY <1>4 DEF FlushPut
  <2> QED
    BY <2>5, <2>6, QueueCleared
<1>5. CASE InsertAccepted(a)
  <2>1. PICK n \in Taken(a) : table' = WithRows(a, n)
    BY <1>5 DEF InsertAccepted
  <2>2. UNCHANGED <<written, last_hash, buffer>>
    BY <1>5 DEF InsertAccepted
  <2>3. table' \in [Seqs -> Seq(Stored)]
    BY <2>1, InsertStores, TakenIsNumber
  <2> QED
    BY <2>2, <2>3, QueueCleared
<1>6. CASE FlushClear(a)
  <2>1. UNCHANGED <<written, last_hash, table>> /\ buffer' = [buffer EXCEPT ![a] = << >>]
    BY <1>6 DEF FlushClear
  <2> QED
    BY <1>0, <2>1, QueueCleared
<1>7. CASE FlushFail(a)
  <2>1. UNCHANGED <<written, last_hash, buffer>> /\ LeavesRows(a)
    BY <1>7 DEF FlushFail
  <2> QED
    BY <2>1, LeavesStored, QueueCleared
<1>8. CASE Crash(a)
  <2>1. /\ UNCHANGED <<written, last_hash>> /\ LeavesRows(a)
        /\ buffer' = [buffer EXCEPT ![a] = << >>]
    BY <1>8 DEF Crash
  <2> QED
    BY <2>1, LeavesStored, QueueCleared
<1> QED
  BY <1>1, <1>2, <1>3, <1>4, <1>5, <1>6, <1>7, <1>8 DEF LedgerStep

\* A query leaves the rows alone, or does with its own backend what any owner may do.
LEMMA QueryMovesLedger ==
    ASSUME NEW q \in Queries, QueryStep(q)
    PROVE  LedgerStep(q) \/ UNCHANGED <<provider, connected, buffer, last_hash, pc, batch,
                                     put, table, written, flushed, rejected>>
<1>1. CASE \/ SetUpModel(q) \/ SetUpBuilders(q) \/ Query(q) \/ Build(q) \/ Invoked(q)
           \/ InvokeRaises(q) \/ Verified(q) \/ Answer(q)
  <2>1. UNCHANGED ledgerVars
    BY <1>1 DEF SetUpModel, SetUpBuilders, Query, Build, Invoked, InvokeRaises, Verified, Answer
  <2> QED
    BY <2>1 DEF ledgerVars
<1>2. CASE Log(q)
  BY <1>2 DEF Log, LedgerStep
<1>3. CASE Flushing(q)
  BY <1>3 DEF Flushing, LedgerStep
<1>4. CASE Flushed(q)
  <2>1. CASE FlushNothing(q) \/ FlushClear(q)
    BY <2>1 DEF LedgerStep
  <2>2. CASE UNCHANGED ledgerVars
    BY <2>2 DEF ledgerVars
  <2> QED
    BY <1>4, <2>1, <2>2 DEF Flushed
<1>5. CASE FlushRaised(q)
  BY <1>5 DEF FlushRaised, LedgerStep
<1>6. CASE VerifyRaised(q)
  BY <1>6 DEF VerifyRaised
<1> QED
  BY <1>1, <1>2, <1>3, <1>4, <1>5, <1>6 DEF QueryStep

\* Rows carry the hashes of beginnings throughout a run.
THEOREM HashesAreBeginnings == Spec => [](RowsInv /\ batch \in [Agents -> Nat])
<1>1. Init => RowsInv /\ batch \in [Agents -> Nat]
  <2> SUFFICES ASSUME Init PROVE RowsInv /\ batch \in [Agents -> Nat]
    OBVIOUS
  <2>1. \A S : << >> \in Seq(S)
    BY EmptySeq
  <2> QED
    BY <2>1 DEF Init, LedgerInit, RowsInv, Genesis
<1>2. RowsInv /\ batch \in [Agents -> Nat] /\ [Next]_vars
          => (RowsInv /\ batch \in [Agents -> Nat])'
  <2> SUFFICES ASSUME RowsInv, batch \in [Agents -> Nat], [Next]_vars
               PROVE  RowsInv' /\ batch' \in [Agents -> Nat]
    OBVIOUS
  <2>1. CASE UNCHANGED <<buffer, last_hash, table, written, batch>>
    BY <2>1, QueueCleared, BoundsAssumption DEF RowsInv
  <2>2. ASSUME NEW a \in Agents, LedgerStep(a)
        PROVE  RowsInv' /\ batch' \in [Agents -> Nat]
    <3>1. Len(buffer[a]) \in Nat /\ \A n \in Taken(a) : n \in Nat
      BY TakenIsNumber, LenProperties DEF RowsInv
    <3>2. batch' \in [Agents -> Nat]
      BY <2>2, <3>1 DEF LedgerStep, Write, FlushNothing, FlushBegin, FlushPut, FlushSent,
         InsertAccepted, InsertRejected, FlushClear, FlushFail, Crash
    <3> QED
      BY <2>2, <3>2, LedgerStepKeepsRows
  <2>3. ASSUME NEW q \in Queries, QueryStep(q)
        PROVE  RowsInv' /\ batch' \in [Agents -> Nat]
    <3>1. LedgerStep(q) \/ UNCHANGED <<buffer, last_hash, table, written, batch>>
      BY <2>3, QueryMovesLedger
    <3> QED
      BY <2>1, <2>2, <3>1, QueriesAssumption
  <2>4. CASE UNCHANGED vars
    BY <2>1, <2>4 DEF vars, ledgerVars
  <2> QED
    BY <2>2, <2>3, <2>4 DEF Next
<1> QED
  BY <1>1, <1>2, PTL DEF Spec

\* verify_chain() never accepts a mix, a gap or a reordering: however the agents of
\* a run overwrite each other, rows are inserted twice or refused, requests fail or
\* agents die, a scan that verifies is the beginning of one agent's own log.
THEOREM VerifiedScanIsOneLog == Spec => []VerifiedIsOneLog
<1>1. RowsInv => VerifiedIsOneLog
  <2> SUFFICES ASSUME RowsInv, NEW rows \in Scans, VerifyChain(rows)
               PROVE  \E a \in Agents : IsPrefix(Contents(rows), written[a])
    BY DEF VerifiedIsOneLog
  <2>1. rows \in Seq(Stored)
    BY ScansAreRows DEF RowsInv
  <2>2. Stored \subseteq Rows(Entries)
    BY DEF Stored
  <2>3. /\ rows \in Seq(Rows(Entries)) /\ Len(rows) \in Nat
        /\ Contents(rows) \in Seq(Entries) /\ Len(Contents(rows)) = Len(rows)
    <3>1. rows \in Seq(Rows(Entries))
      BY <2>1, <2>2, SeqMonotonic
    <3> QED
      BY <3>1, LenProperties, ContentsType
  <2>4. CASE Len(rows) = 0
    <3>1. Contents(rows) = << >>
      BY <2>3, <2>4, EmptySeq
    <3>2. PICK a \in Agents : TRUE
      BY BoundsAssumption
    <3>3. SubSeq(written[a], 1, 0) = << >> /\ SubSeq(<< >>, 1, 0) = << >>
      BY SubSeqEmpty
    <3>4. Len(written[a]) \in Nat /\ Len(<< >>) = 0
      BY LenProperties, EmptySeq DEF RowsInv
    <3> QED
      BY <3>1, <3>3, <3>4 DEF IsPrefix
  <2>5. CASE Len(rows) # 0
    <3>1. /\ rows[Len(rows)].entry_hash = SubSeq(Contents(rows), 1, Len(rows))
          /\ SubSeq(Contents(rows), 1, Len(rows)) = Contents(rows)
      BY <2>3, <2>5, VerifiedHashes, SubSeqFull
    <3>2. rows[Len(rows)] \in Stored
      BY <2>1, <2>3, <2>5, ElementOfSeq
    <3>3. PICK a \in Agents : Begins(Contents(rows), written[a])
      BY <3>1, <3>2 DEF Stored
    <3> QED
      BY <2>3, <3>1, <3>3 DEF Begins, IsPrefix
  <2> QED
    BY <2>3, <2>4, <2>5
<1> QED
  BY <1>1, HashesAreBeginnings, PTL

-------------------------------------------------------------------------------
(***************************************************************************)
(* Queues                                                                  *)
(***************************************************************************)

\* What QueueInv says of one agent.
QueueOf(a) ==
    /\ batch[a] \in 0 .. Len(buffer[a])
    /\ put[a] \subseteq DOMAIN buffer[a]
    /\ rejected[a] \subseteq DOMAIN written[a]
    /\ flushed[a] \in Seq(DOMAIN written[a])
    /\ Len(written[a]) <= MaxEntries[a]
    /\ Len(buffer[a]) <= Len(written[a])
    /\ pc[a] \in {"sending", "stored", "row_errors"} => connected /\ batch[a] # 0
    /\ pc[a] \in {"idle", "crashed"} => batch[a] = 0
    /\ provider = "aws" => pc[a] # "row_errors"
    /\ provider = "aws" /\ pc[a] = "stored" => put[a] = 1 .. batch[a]
    /\ put[a] # {} => provider = "aws" /\ pc[a] \in {"sending", "stored"}

\* Lengths and positions, as the steps need them.
LEMMA QueueTyped ==
    ASSUME RowsInv, QueueInv, NEW a \in Agents
    PROVE  /\ QueueOf(a) /\ MaxEntries[a] \in Nat
           /\ Len(written[a]) \in Nat /\ DOMAIN written[a] = 1 .. Len(written[a])
           /\ Len(buffer[a]) \in Nat /\ DOMAIN buffer[a] = 1 .. Len(buffer[a])
           /\ buffer[a] = << >> <=> Len(buffer[a]) = 0
<1>1. written[a] \in Seq(Entries) /\ buffer[a] \in Seq(Rows(Entries))
  BY RowsTyped
<1> QED
  BY <1>1, LenProperties, EmptySeq, BoundsAssumption DEF QueueInv, QueueOf, LedgerTypeOK

\* A step of one agent leaves the queues of the others, and the table of DynamoDB,
\* as well typed as they were.
LEMMA QueueAssembled ==
    ASSUME RowsInv, QueueInv, NEW a \in Agents, RowsInv', UNCHANGED <<provider, connected>>,
           pc' \in [Agents -> Phases],
           put' \in [Agents -> SUBSET Nat], rejected' \in [Agents -> SUBSET Nat],
           flushed' \in [Agents -> Seq(Nat)], batch' \in [Agents -> Nat], failures' \in 0 .. MaxFailures,
           \A b \in Agents \ {a} :
               /\ buffer'[b] = buffer[b] /\ written'[b] = written[b] /\ pc'[b] = pc[b]
               /\ batch'[b] = batch[b] /\ put'[b] = put[b]
               /\ rejected'[b] = rejected[b] /\ flushed'[b] = flushed[b],
           QueueOf(a)',
           provider = "aws" => \A s \in Seqs : Len(table'[s]) <= 1
    PROVE  QueueInv'
<1>1. ASSUME NEW b \in Agents
      PROVE  QueueOf(b)'
  <2>1. QueueOf(b)
    BY QueueTyped
  <2>2. CASE b = a
    BY <2>2
  <2>3. CASE b # a
    BY <2>1, <2>3 DEF QueueOf
  <2> QED
    BY <2>2, <2>3
<1>2. Stored' \subseteq Rows(Entries)
  BY DEF Stored
<1>3. table' \in [Seqs -> Seq(Rows(Entries))]
  <2>1. table' \in [Seqs -> Seq(Stored')]
    BY DEF RowsInv
  <2>2. \A s \in Seqs : table'[s] \in Seq(Stored')
    BY <2>1
  <2>3. \A s \in Seqs : table'[s] \in Seq(Rows(Entries))
    BY <1>2, <2>2, SeqMonotonic
  <2> QED
    BY <2>1, <2>3
<1>4. LedgerTypeOK'
  BY <1>1, <1>3 DEF LedgerTypeOK, RowsInv, QueueInv, QueueOf
<1> QED
  BY <1>1, <1>4 DEF QueueInv, QueueOf

\* Whatever a backend's owner or the faults it meets do.
LEMMA LedgerStepKeepsQueues ==
    ASSUME RowsInv, QueueInv, NEW a \in Agents, LedgerStep(a)
    PROVE  QueueInv'
<1>0. RowsInv'
  BY LedgerStepKeepsRows DEF QueueInv
<1>a. /\ pc \in [Agents -> Phases] /\ batch \in [Agents -> Nat]
      /\ put \in [Agents -> SUBSET Nat] /\ rejected \in [Agents -> SUBSET Nat]
      /\ flushed \in [Agents -> Seq(Nat)] /\ failures \in 0 .. MaxFailures
      /\ buffer \in [Agents -> Seq(Rows(Entries))] /\ written \in [Agents -> Seq(Entries)]
      /\ provider = "aws" => \A s \in Seqs : Len(table[s]) <= 1
  BY DEF QueueInv, LedgerTypeOK, RowsInv
<1>b. /\ QueueOf(a) /\ MaxEntries[a] \in Nat
      /\ Len(written[a]) \in Nat /\ DOMAIN written[a] = 1 .. Len(written[a])
      /\ Len(buffer[a]) \in Nat /\ DOMAIN buffer[a] = 1 .. Len(buffer[a])
      /\ buffer[a] = << >> <=> Len(buffer[a]) = 0
  BY QueueTyped
<1>c. {} \in SUBSET Nat /\ DOMAIN << >> = {} /\ Len(<< >>) = 0
  BY EmptySeq
<1>1. ASSUME NEW e \in Entries, Write(a, e)
      PROVE  QueueInv'
  <2>1. /\ written'[a] = Append(written[a], e)
        /\ buffer'[a] = Append(buffer[a], Row(e, last_hash[a]))
        /\ Len(written[a]) < MaxEntries[a]
        /\ UNCHANGED <<provider, connected, pc, batch, put, table, flushed, rejected, failures>>
        /\ \A b \in Agents \ {a} : buffer'[b] = buffer[b] /\ written'[b] = written[b]
    BY <1>a, <1>1 DEF Write
  <2>2. Row(e, last_hash[a]) \in Rows(Entries)
    BY RowsTyped, RowType
  <2>3. /\ Len(written'[a]) = Len(written[a]) + 1
        /\ DOMAIN written'[a] = 1 .. Len(written[a]) + 1
    <3>1. written[a] \in Seq(Entries) /\ Append(written[a], e) \in Seq(Entries)
      BY <1>a, AppendProperties
    <3> QED
      BY <2>1, <3>1, AppendProperties, LenProperties
  <2>4. /\ Len(buffer'[a]) = Len(buffer[a]) + 1
        /\ DOMAIN buffer'[a] = 1 .. Len(buffer[a]) + 1
    <3>1. buffer[a] \in Seq(Rows(Entries)) /\ Append(buffer[a], Row(e, last_hash[a])) \in Seq(Rows(Entries))
      BY <1>a, <2>2, AppendProperties
    <3> QED
      BY <2>1, <2>2, <3>1, AppendProperties, LenProperties
  <2>5. flushed[a] \in Seq(DOMAIN written'[a])
    <3>1. DOMAIN written[a] \subseteq DOMAIN written'[a]
      BY <1>b, <2>3
    <3> QED
      BY <1>b, <3>1, SeqMonotonic DEF QueueOf
  <2>6. QueueOf(a)'
    BY <1>b, <2>1, <2>3, <2>4, <2>5 DEF QueueOf
  <2> QED
    BY <1>0, <1>a, <2>1, <2>6, QueueAssembled
<1>2. CASE FlushNothing(a) \/ FlushBegin(a)
  <2>1. /\ UNCHANGED <<provider, connected, put, table, flushed, rejected, failures, written>>
        /\ \A b \in Agents \ {a} :
               buffer'[b] = buffer[b] /\ pc'[b] = pc[b] /\ batch'[b] = batch[b]
        /\ pc' \in [Agents -> Phases] /\ batch' \in [Agents -> Nat]
        /\ \/ /\ pc[a] = "idle" /\ pc'[a] = "idle" /\ buffer'[a] = << >>
              /\ ~ connected \/ buffer[a] = << >>
              /\ batch' = batch
           \/ /\ pc[a] = "idle" /\ pc'[a] = "sending" /\ connected /\ buffer[a] # << >>
              /\ buffer'[a] = buffer[a] /\ batch'[a] = Len(buffer[a])
    BY <1>a, <1>b, <1>2 DEF FlushNothing, FlushBegin, Phases
  <2>2. put[a] = {}
    BY <1>b, <2>1 DEF QueueOf
  <2>3. batch'[a] \in 0 .. Len(buffer'[a])
    BY <1>b, <1>c, <2>1 DEF QueueOf
  <2>4. QueueOf(a)'
    BY <1>b, <1>c, <2>1, <2>2, <2>3 DEF QueueOf
  <2> QED
    BY <1>0, <1>a, <2>1, <2>4, QueueAssembled
<1>3. CASE FlushPut(a)
  <2>0. provider = "aws" /\ pc[a] = "sending"
    BY <1>3 DEF FlushPut
  <2>1. PICK i \in DOMAIN buffer[a] \ put[a] :
            /\ table' = [table EXCEPT ![i - 1] = <<buffer[a][i]>>]
            /\ put' = [put EXCEPT ![a] = @ \cup {i}]
    BY <1>3 DEF FlushPut
  <2>2. UNCHANGED <<provider, connected, buffer, last_hash, pc, batch, written, flushed,
                    rejected, failures>>
    BY <1>3 DEF FlushPut
  <2>3. /\ put'[a] = put[a] \cup {i} /\ put' \in [Agents -> SUBSET Nat]
        /\ \A b \in Agents \ {a} : put'[b] = put[b]
    BY <1>a, <1>b, <2>1
  <2>4. QueueOf(a)'
    BY <1>b, <2>0, <2>1, <2>2, <2>3 DEF QueueOf
  <2>5. provider = "aws" => \A s \in Seqs : Len(table'[s]) <= 1
    <3> SUFFICES ASSUME NEW s \in Seqs PROVE Len(table'[s]) <= 1
      OBVIOUS
    <3>1. Len(<<buffer[a][i]>>) = 1
      OBVIOUS
    <3>2. CASE table'[s] = <<buffer[a][i]>>
      <4>1. Len(table'[s]) = 1
        BY <3>1, <3>2
      <4> QED
        BY <4>1
    <3>3. CASE table'[s] = table[s]
      BY <1>a, <2>0, <3>3
    <3> QED
      BY <2>1, <3>2, <3>3 DEF RowsInv
  <2> QED
    BY <1>0, <1>a, <2>2, <2>3, <2>4, <2>5, QueueAssembled
<1>4. CASE FlushSent(a) \/ InsertAccepted(a) \/ InsertRejected(a)
  <2>1. PICK n \in Taken(a) :
            /\ batch' = [batch EXCEPT ![a] = n]
            /\ FlushSent(a) => put[a] = 1 .. n
    BY <1>4 DEF FlushSent, InsertAccepted, InsertRejected
  <2>2. n \in Nat /\ batch[a] <= n /\ n <= Len(buffer[a])
    BY <1>a, TakenIsNumber
  <2>3. /\ UNCHANGED <<provider, connected, buffer, put, written, flushed, rejected, failures>>
        /\ pc[a] = "sending" /\ pc' \in [Agents -> Phases]
        /\ \A b \in Agents \ {a} : pc'[b] = pc[b]
        /\ \/ provider = "aws" /\ pc'[a] = "stored" /\ FlushSent(a)
           \/ provider = "gcp" /\ pc'[a] \in {"stored", "row_errors"}
        /\ provider = "aws" => table' = table
    BY <1>a, <1>4 DEF FlushSent, InsertAccepted, InsertRejected, Phases
  <2>4. /\ batch'[a] = n /\ batch' \in [Agents -> Nat]
        /\ \A b \in Agents \ {a} : batch'[b] = batch[b]
    BY <1>a, <2>1, <2>2
  <2>5. n # 0
    BY <1>a, <1>b, <2>2, <2>3 DEF QueueOf
  <2>6. QueueOf(a)'
    BY <1>b, <2>1, <2>2, <2>3, <2>4, <2>5 DEF QueueOf
  <2> QED
    BY <1>0, <1>a, <2>3, <2>4, <2>6, QueueAssembled
<1>5. CASE FlushClear(a)
  <2> DEFINE end == Before(a) + batch[a]
             new == Before(a) + 1 .. Before(a) + batch[a]
  <2>1. /\ UNCHANGED <<provider, connected, table, written, failures>>
        /\ pc'[a] = "idle" /\ pc' \in [Agents -> Phases]
        /\ buffer'[a] = << >> /\ put'[a] = {} /\ put' \in [Agents -> SUBSET Nat]
        /\ batch'[a] = 0 /\ batch' \in [Agents -> Nat]
        /\ \A b \in Agents \ {a} : /\ pc'[b] = pc[b] /\ buffer'[b] = buffer[b]
                                   /\ put'[b] = put[b] /\ batch'[b] = batch[b]
        /\ flushed' = [flushed EXCEPT ![a] = Append(@, end)]
        /\ pc[a] \in {"stored", "row_errors"}
        /\ rejected' = rejected \/ rejected' = [rejected EXCEPT ![a] = @ \cup new]
    BY <1>a, <1>5 DEF FlushClear, Phases
  <2>2. end \in DOMAIN written[a] /\ end \in Nat
        /\ new \in SUBSET Nat /\ new \subseteq DOMAIN written[a]
    <3>1. batch[a] \in Nat /\ batch[a] # 0 /\ batch[a] <= Len(buffer[a])
          /\ Len(buffer[a]) <= Len(written[a])
      BY <1>b, <2>1 DEF QueueOf
    <3>2. Before(a) \in Nat /\ Before(a) + Len(buffer[a]) = Len(written[a])
      BY <1>b, <3>1 DEF Before
    <3> QED
      BY <1>b, <3>1, <3>2
  <2> HIDE DEF end, new
  <2>3. /\ rejected' \in [Agents -> SUBSET Nat] /\ rejected'[a] \subseteq DOMAIN written[a]
        /\ \A b \in Agents \ {a} : rejected'[b] = rejected[b]
    <3>1. rejected \in [Agents -> SUBSET Nat] /\ rejected[a] \subseteq DOMAIN written[a]
      BY <1>a, <1>b DEF QueueOf
    <3>2. CASE rejected' = rejected
      BY ONLY <3>1, <3>2
    <3>3. CASE rejected' = [rejected EXCEPT ![a] = @ \cup new]
      <4>1. rejected[a] \cup new \in SUBSET Nat /\ rejected[a] \cup new \subseteq DOMAIN written[a]
        BY ONLY <2>2, <3>1
      <4> QED
        BY ONLY <3>1, <3>3, <4>1
    <3> QED
      BY ONLY <2>1, <3>2, <3>3
  <2>5. /\ flushed' \in [Agents -> Seq(Nat)] /\ flushed'[a] = Append(flushed[a], end)
        /\ \A b \in Agents \ {a} : flushed'[b] = flushed[b]
    <3>1. Append(flushed[a], end) \in Seq(Nat)
      BY <1>a, <2>2, AppendProperties
    <3> QED
      BY <1>a, <2>1, <3>1
  <2>6. flushed'[a] \in Seq(DOMAIN written[a])
    BY <1>b, <2>2, <2>5, AppendProperties DEF QueueOf
  <2>7. QueueOf(a)'
    BY <1>b, <1>c, <2>1, <2>3, <2>6 DEF QueueOf
  <2> QED
    BY <1>0, <1>a, <2>1, <2>3, <2>5, <2>7, QueueAssembled
<1>6. CASE FlushFail(a)
  <2>1. /\ UNCHANGED <<provider, connected, buffer, written, flushed, rejected>>
        /\ pc'[a] = "idle" /\ pc' \in [Agents -> Phases]
        /\ put'[a] = {} /\ put' \in [Agents -> SUBSET Nat]
        /\ batch'[a] = 0 /\ batch' \in [Agents -> Nat]
        /\ \A b \in Agents \ {a} : pc'[b] = pc[b] /\ put'[b] = put[b] /\ batch'[b] = batch[b]
        /\ failures < MaxFailures /\ failures' = failures + 1
        /\ provider = "aws" => table' = table
    BY <1>a, <1>6 DEF FlushFail, LeavesRows, Phases
  <2>2. QueueOf(a)' /\ failures' \in 0 .. MaxFailures
    BY <1>a, <1>b, <2>1, BoundsAssumption DEF QueueOf
  <2> QED
    BY <1>0, <1>a, <2>1, <2>2, QueueAssembled
<1>7. CASE Crash(a)
  <2>1. /\ UNCHANGED <<provider, connected, written, flushed, rejected, failures>>
        /\ pc'[a] = "crashed" /\ pc' \in [Agents -> Phases]
        /\ buffer'[a] = << >> /\ put'[a] = {} /\ put' \in [Agents -> SUBSET Nat]
        /\ batch'[a] = 0 /\ batch' \in [Agents -> Nat]
        /\ \A b \in Agents \ {a} : /\ pc'[b] = pc[b] /\ buffer'[b] = buffer[b]
                                   /\ put'[b] = put[b] /\ batch'[b] = batch[b]
        /\ provider = "aws" => table' = table
    BY <1>a, <1>7 DEF Crash, LeavesRows, Phases
  <2>2. QueueOf(a)'
    BY <1>b, <1>c, <2>1 DEF QueueOf
  <2> QED
    BY <1>0, <1>a, <2>1, <2>2, QueueAssembled
<1> QED
  BY <1>1, <1>2, <1>3, <1>4, <1>5, <1>6, <1>7 DEF LedgerStep

\* Queues stay well typed throughout a run, and so does everything else.
THEOREM TypeCorrect == Spec => [](TypeOK /\ QueueInv)
<1>1. Init => TypeOK /\ QueueInv
  <2> SUFFICES ASSUME Init PROVE TypeOK /\ QueueInv
    OBVIOUS
  <2>1. /\ \A S : << >> \in Seq(S)
        /\ Len(<< >>) = 0 /\ DOMAIN << >> = {}
    BY EmptySeq
  <2>2. LedgerTypeOK /\ QueueInv
    BY <2>1, BoundsAssumption DEF Init, LedgerInit, LedgerTypeOK, QueueInv, Genesis, Phases
  <2> QED
    BY <2>2 DEF Init, TypeOK, QueryPhases
<1>2. RowsInv /\ TypeOK /\ QueueInv /\ [Next]_vars => (TypeOK /\ QueueInv)'
  <2> SUFFICES ASSUME RowsInv, TypeOK, QueueInv, [Next]_vars
               PROVE  TypeOK' /\ QueueInv'
    OBVIOUS
  <2> USE DEF TypeOK
  <2>1. ASSUME UNCHANGED <<provider, connected, buffer, last_hash, pc, batch, put,
                         table, written, flushed, rejected>>, failures' \in 0 .. MaxFailures
        PROVE  QueueInv'
    BY <2>1 DEF QueueInv, LedgerTypeOK
  <2>2. ASSUME NEW q \in Queries, QueryStep(q)
        PROVE  QueueInv'
    <3>1. CASE LedgerStep(q)
      BY <3>1, LedgerStepKeepsQueues, QueriesAssumption
    <3>2. CASE VerifyRaised(q)
      BY <2>1, <3>2, BoundsAssumption DEF VerifyRaised, QueueInv, LedgerTypeOK
    <3>3. CASE UNCHANGED ledgerVars
      BY <2>1, <3>3 DEF ledgerVars, QueueInv, LedgerTypeOK
    <3> QED
      BY <2>2, <3>1, <3>2, <3>3 DEF QueryStep, SetUpModel, SetUpBuilders, Query, Build, Invoked,
          InvokeRaises, Verified, Answer, Log, Flushing, Flushed, FlushRaised, LedgerStep
  <2>3. ASSUME NEW q \in Queries, QueryStep(q)
        PROVE  /\ model' \in {"none", "live", "scripted"} /\ builders' \in BOOLEAN
               /\ phase' \in [Queries -> QueryPhases]
               /\ valid' \in [Queries -> {"none", "true", "false"}]
    <3>1. CASE \/ SetUpModel(q) \/ SetUpBuilders(q) \/ Query(q) \/ Build(q) \/ Invoked(q)
               \/ InvokeRaises(q) \/ VerifyRaised(q) \/ Answer(q)
      BY <3>1 DEF SetUpModel, SetUpBuilders, Query, Build, Invoked, InvokeRaises, VerifyRaised,
                  Answer, SomeModel, Goes, QueryPhases
    <3>2. CASE Log(q) \/ Flushing(q) \/ Flushed(q) \/ FlushRaised(q)
      BY <3>2 DEF Log, Flushing, Flushed, FlushRaised, engineVars, Goes, QueryPhases
    <3>3. CASE Verified(q)
      BY <3>3 DEF Verified, Goes, QueryPhases
    <3> QED
      BY <2>3, <3>1, <3>2, <3>3 DEF QueryStep
  <2>4. ASSUME NEW a \in Agents, LedgerStep(a), UNCHANGED engineVars
        PROVE  TypeOK' /\ QueueInv'
    <3>1. QueueInv'
      BY <2>4, LedgerStepKeepsQueues
    <3> QED
      BY <2>4, <3>1 DEF engineVars, QueueInv
  <2>5. CASE UNCHANGED vars
    <3>1. QueueInv'
      BY <2>1, <2>5 DEF vars, ledgerVars, QueueInv, LedgerTypeOK
    <3> QED
      BY <2>5, <3>1 DEF vars, engineVars, QueueInv
  <2>6. ASSUME NEW q \in Queries, QueryStep(q)
        PROVE  TypeOK' /\ QueueInv'
    BY <2>2, <2>3, <2>6 DEF QueueInv
  <2> QED
    BY <2>4, <2>5, <2>6 DEF Next
<1> QED
  BY <1>1, <1>2, HashesAreBeginnings, PTL DEF Spec

-------------------------------------------------------------------------------
(***************************************************************************)
(* What a flush heals                                                      *)
(***************************************************************************)

\* What write() queues is the row of the new entry, and the rows of the entries
\* before it stay what they were.
LEMMA WriteQueues ==
    ASSUME RowsInv, QueueInv, NEW a \in Agents, NEW e \in Entries, Write(a, e)
    PROVE  /\ Len(written'[a]) = Len(written[a]) + 1
           /\ \A i \in 1 .. Len(written[a]) : LogRow(written'[a], i) = LogRow(written[a], i)
           /\ AllQueued(a) => AllQueued(a)'
<1> DEFINE w == written[a]
           q == buffer[a]
           r == Row(e, w)
<1>1. /\ w \in Seq(Entries) /\ last_hash[a] = w /\ q \in Seq(Rows(Entries))
      /\ Len(w) \in Nat /\ Len(q) \in Nat
  BY RowsTyped, LenProperties
<1>2. written'[a] = Append(w, e) /\ buffer'[a] = Append(q, r)
  BY <1>1 DEF Write, RowsInv
<1>3. r \in Rows(Entries)
  BY <1>1, RowType
<1> HIDE DEF w, q, r
<1>4. /\ Len(Append(w, e)) = Len(w) + 1 /\ Append(w, e)[Len(w) + 1] = e
      /\ \A i \in 1 .. Len(w) : Append(w, e)[i] = w[i]
  BY <1>1, AppendProperties
<1>5. ASSUME NEW i \in 1 .. Len(w)
      PROVE  LogRow(Append(w, e), i) = LogRow(w, i)
  <2>1. i - 1 \in 0 .. Len(w)
    BY <1>1
  <2>2. SubSeq(Append(w, e), 1, i - 1) = SubSeq(w, 1, i - 1)
    BY <1>1, <2>1, BeginningStays
  <2> QED
    BY <1>4, <2>2 DEF LogRow
<1>6. LogRow(Append(w, e), Len(w) + 1) = r
  <2>1. SubSeq(Append(w, e), 1, Len(w)) = w
    <3>1. SubSeq(Append(w, e), 1, Len(w)) = SubSeq(w, 1, Len(w))
      BY <1>1, BeginningStays
    <3> QED
      BY <1>1, <3>1, SubSeqFull
  <2> DEFINE n == Len(w) + 1
  <2>2. n - 1 = Len(w)
    BY <1>1
  <2>3. LogRow(Append(w, e), n) = Row(Append(w, e)[n], SubSeq(Append(w, e), 1, n - 1))
    BY DEF LogRow
  <2> QED
    BY <1>4, <2>1, <2>2, <2>3 DEF r
<1>7. /\ Len(Append(q, r)) = Len(q) + 1 /\ Append(q, r)[Len(q) + 1] = r
      /\ \A i \in 1 .. Len(q) : Append(q, r)[i] = q[i]
  BY <1>1, <1>3, AppendProperties
<1>8. ASSUME Len(q) = Len(w), \A i \in 1 .. Len(q) : q[i] = LogRow(w, i),
             NEW i \in 1 .. Len(q) + 1
      PROVE  Append(q, r)[i] = LogRow(Append(w, e), i)
  <2>1. CASE i = Len(q) + 1
    BY <1>6, <1>7, <1>8, <2>1
  <2>2. CASE i # Len(q) + 1
    <3>1. i \in 1 .. Len(q)
      BY <1>1, <2>2
    <3> QED
      BY <1>5, <1>7, <1>8, <3>1
  <2> QED
    BY <2>1, <2>2
<1>9. AllQueued(a) <=> Len(q) = Len(w) /\ \A i \in 1 .. Len(q) : q[i] = LogRow(w, i)
  BY DEF AllQueued, q, w
<1>10. AllQueued(a)' <=> /\ Len(Append(q, r)) = Len(Append(w, e))
                         /\ \A i \in 1 .. Len(Append(q, r)) :
                                Append(q, r)[i] = LogRow(Append(w, e), i)
  BY <1>2 DEF AllQueued
<1>11. AllQueued(a) => AllQueued(a)'
  BY <1>4, <1>7, <1>8, <1>9, <1>10
<1> QED
  BY <1>2, <1>4, <1>5, <1>11 DEF w

\* With a second flush, or another agent's entry, an agent stops being alone for good.
LEMMA StaysAlone ==
    ASSUME RowsInv, QueueInv, NEW a \in Agents, LedgerStep(a), NEW b \in Agents, IsAlone(b)'
    PROVE  /\ IsAlone(b)
           /\ b = a /\ flushed[a] # << >> => UNCHANGED <<written, flushed>>
           /\ b # a => written'[a] = << >> /\ written[a] = << >>
<1>1. /\ written \in [Agents -> Seq(Entries)] /\ flushed \in [Agents -> Seq(Nat)]
      /\ written[a] \in Seq(Entries) /\ Len(written[a]) \in Nat
      /\ flushed[a] \in Seq(Nat) /\ flushed[a] \in Seq(1 .. Len(written[a]))
  BY QueueTyped DEF RowsInv, QueueInv, QueueOf
<1>2. ASSUME NEW e \in Entries, Write(a, e)
      PROVE  /\ b = a /\ flushed[a] = << >>
             /\ UNCHANGED flushed /\ \A c \in Agents \ {a} : written'[c] = written[c]
  <2>1. /\ UNCHANGED flushed /\ \A c \in Agents \ {a} : written'[c] = written[c]
        /\ written'[a] = Append(written[a], e)
    BY <1>1, <1>2 DEF Write
  <2>2. Len(written'[a]) = Len(written[a]) + 1 /\ written'[a] # << >>
    <3>1. Len(written'[a]) = Len(written[a]) + 1 /\ Len(<< >>) = 0
      BY <1>1, <2>1, AppendProperties
    <3>2. Len(written'[a]) # Len(<< >>)
      BY <1>1, <3>1
    <3> QED
      BY <3>1, <3>2
  <2>3. b = a
    BY <2>2 DEF IsAlone, IsOnly
  <2>4. flushed[a] # <<Len(written[a]) + 1>>
    <3>1. ASSUME flushed[a] = <<Len(written[a]) + 1>>
          PROVE  FALSE
      <4>1. Len(flushed[a]) = 1 /\ flushed[a][1] = Len(written[a]) + 1
        BY <3>1
      <4>2. flushed[a][1] \in 1 .. Len(written[a])
        <5> DEFINE L == 1 .. Len(written[a])
        <5>1. flushed[a] \in Seq(L) /\ 1 \in 1 .. Len(flushed[a])
          BY <1>1, <4>1
        <5> HIDE DEF L
        <5>2. flushed[a][1] \in L
          BY <5>1, ElementOfSeq
        <5> QED
          BY <5>2 DEF L
      <4> QED
        BY <1>1, <4>1, <4>2
    <3> QED
      BY <3>1
  <2> QED
    BY <2>1, <2>2, <2>3, <2>4 DEF IsAlone, IsOnly
<1>3. CASE FlushClear(a)
  <2> DEFINE end == Before(a) + batch[a]
  <2>1. UNCHANGED written /\ flushed'[a] = Append(flushed[a], end)
        /\ \A c \in Agents \ {a} : flushed'[c] = flushed[c]
    BY <1>1, <1>3 DEF FlushClear
  <2>0. end \in Nat
    <3>1. /\ Len(written[a]) \in Nat /\ Len(buffer[a]) \in Nat
          /\ Len(buffer[a]) <= Len(written[a]) /\ batch[a] \in Nat
      BY QueueTyped DEF QueueOf
    <3>2. ASSUME NEW w \in Nat, NEW l \in Nat, NEW n \in Nat, l <= w
          PROVE  w - l + n \in Nat
      BY <3>2
    <3> QED
      BY <3>1, <3>2 DEF Before
  <2> HIDE DEF end
  <2>2. Len(flushed'[a]) = Len(flushed[a]) + 1 /\ Len(flushed[a]) \in Nat
    BY <1>1, <2>0, <2>1, AppendProperties, LenProperties
  <2>3. b = a => flushed[a] = << >>
    <3>1. Len(<<Len(written[a])>>) = 1 /\ Len(<< >>) = 0
      OBVIOUS
    <3>2. b = a => Len(flushed'[a]) <= 1
      BY <2>1, <3>1 DEF IsAlone, IsOnly
    <3>3. b = a => Len(flushed[a]) = 0
      BY <2>2, <3>2
    <3> QED
      BY <1>1, <3>3, EmptySeq
  <2> QED
    BY <2>1, <2>3 DEF IsAlone, IsOnly
<1>4. CASE \/ FlushNothing(a) \/ FlushBegin(a) \/ FlushPut(a) \/ FlushSent(a)
           \/ InsertAccepted(a) \/ InsertRejected(a) \/ FlushFail(a) \/ Crash(a)
  <2>1. UNCHANGED <<written, flushed>>
    BY <1>4 DEF FlushNothing, FlushBegin, FlushPut, FlushSent, InsertAccepted, InsertRejected, FlushFail, Crash
  <2> QED
    BY <2>1 DEF IsAlone, IsOnly
<1>5. ASSUME NEW e \in Entries, Write(a, e)
      PROVE  /\ IsAlone(b)
             /\ b = a /\ flushed[a] # << >> => UNCHANGED <<written, flushed>>
             /\ b # a => written'[a] = << >> /\ written[a] = << >>
  BY <1>2, <1>5 DEF IsAlone, IsOnly
<1> QED
  BY <1>3, <1>4, <1>5 DEF LedgerStep

\* DynamoDB and one agent: every step keeps what HealInv says of the table.
LEMMA LedgerStepHeals ==
    ASSUME RowsInv, QueueInv, HealInv, NEW a \in Agents, LedgerStep(a)
    PROVE  HealInv'
<1> SUFFICES ASSUME NEW b \in Agents, provider' = "aws", connected', pc'[b] # "crashed",
                    IsAlone(b)'
             PROVE  IF flushed'[b] = << >> THEN Healing(b)' ELSE Healed(b)'
  BY DEF HealInv
<1>1. UNCHANGED <<provider, connected>>
  BY DEF LedgerStep, Write, FlushNothing, FlushBegin, FlushPut, FlushSent, InsertAccepted,
         InsertRejected, FlushClear, FlushFail, Crash
<1>2. /\ IsAlone(b)
      /\ b = a /\ flushed[a] # << >> => UNCHANGED <<written, flushed>>
      /\ b # a => written'[a] = << >> /\ written[a] = << >>
  BY StaysAlone
<1>3. /\ QueueOf(a) /\ Len(written[a]) \in Nat /\ Len(buffer[a]) \in Nat
      /\ DOMAIN buffer[a] = 1 .. Len(buffer[a])
      /\ buffer[a] = << >> <=> Len(buffer[a]) = 0
  BY QueueTyped
<1>4. /\ written \in [Agents -> Seq(Entries)] /\ buffer \in [Agents -> Seq(Rows(Entries))]
      /\ pc \in [Agents -> Phases] /\ put \in [Agents -> SUBSET Nat]
      /\ batch \in [Agents -> Nat] /\ flushed \in [Agents -> Seq(Nat)] /\ table \in [Seqs -> Seq(Stored)]
  BY DEF RowsInv, QueueInv, LedgerTypeOK
<1>5. provider = "aws" /\ connected /\ pc[a] # "row_errors"
  BY <1>1, <1>3 DEF QueueOf
<1>6. CASE b # a
  <2>1. written[a] = << >> /\ written'[a] = << >> /\ buffer[a] = << >>
    <3>1. Len(written[a]) = 0
      BY <1>2, <1>6
    <3> QED
      BY <1>2, <1>3, <1>6, <3>1 DEF QueueOf
  <2>2. ASSUME NEW e \in Entries, Write(a, e)
        PROVE  FALSE
    <3>1. written'[a] = Append(written[a], e)
      BY <1>4, <2>2 DEF Write
    <3>2. Len(written'[a]) = Len(written[a]) + 1
      BY <1>4, <3>1, AppendProperties
    <3>3. Len(<< >>) = 0
      OBVIOUS
    <3> QED
      BY <2>1, <3>2, <3>3
  <2>3. ~ FlushPut(a) /\ ~ InsertAccepted(a)
    <3>1. DOMAIN buffer[a] = {}
      BY <2>1
    <3> QED
      BY <1>5, <3>1 DEF FlushPut, InsertAccepted
  <2>4. /\ UNCHANGED table /\ buffer'[b] = buffer[b] /\ written'[b] = written[b]
        /\ pc'[b] = pc[b] /\ put'[b] = put[b] /\ flushed'[b] = flushed[b]
    BY <1>4, <1>5, <1>6, <2>2, <2>3
       DEF LedgerStep, FlushNothing, FlushBegin, FlushSent, InsertRejected, FlushClear,
           FlushFail, Crash, LeavesRows
  <2>5. IF flushed[b] = << >> THEN Healing(b) ELSE Healed(b)
    BY <1>1, <1>2, <2>4 DEF HealInv
  <2> QED
    BY <2>4, <2>5 DEF Healing, Healed, AllQueued
<1>7. CASE b = a
  <2>1. pc[a] # "crashed" => IF flushed[a] = << >> THEN Healing(a) ELSE Healed(a)
    BY <1>2, <1>5, <1>7 DEF HealInv
  <2>2. ASSUME NEW e \in Entries, Write(a, e)
        PROVE  Healing(a)' /\ flushed'[a] = << >>
    <3>1. pc[a] # "crashed" /\ UNCHANGED <<put, table, flushed>>
      BY <2>2 DEF Write
    <3>2. written'[a] # written[a]
      <4>1. Len(written'[a]) = Len(written[a]) + 1
        BY <2>2, WriteQueues
      <4> QED
        BY <1>3, <4>1
    <3>3. flushed[a] = << >> /\ Healing(a)
      BY <1>2, <1>7, <2>1, <3>1, <3>2
    <3>4. AllQueued(a)'
      BY <2>2, <3>3, WriteQueues DEF Healing
    <3>6. ASSUME NEW i \in put[a]
          PROVE  table[i - 1] = <<LogRow(written'[a], i)>>
      <4>1. i \in 1 .. Len(written[a])
        BY <1>3, <3>3 DEF Healing, AllQueued, QueueOf
      <4> QED
        BY <2>2, <3>3, <4>1, WriteQueues DEF Healing
    <3>5. ASSUME NEW s \in Seqs, table[s] # << >>
          PROVE  s < Len(written'[a]) /\ table[s] = <<LogRow(written'[a], s + 1)>>
      <4>1. s < Len(written[a]) /\ table[s] = <<LogRow(written[a], s + 1)>>
        BY <3>3, <3>5 DEF Healing
      <4>2. s \in Nat
        BY KeysAreNumbers
      <4>3. s + 1 \in 1 .. Len(written[a])
        BY <1>3, <4>1, <4>2
      <4> QED
        BY <1>3, <2>2, <4>1, <4>2, <4>3, WriteQueues
    <3> QED
      BY <3>1, <3>3, <3>4, <3>5, <3>6 DEF Healing
  <2>3. CASE FlushNothing(a) \/ FlushBegin(a) \/ FlushSent(a)
    <3>1. /\ UNCHANGED <<put, table, written, flushed>> /\ buffer'[a] = buffer[a]
          /\ pc[a] \in {"idle", "sending"}
      BY <1>4, <1>5, <2>3 DEF FlushNothing, FlushBegin, FlushSent
    <3> QED
      BY <1>7, <2>1, <3>1 DEF Healing, Healed, AllQueued
  <2>4. CASE FlushPut(a)
    <3>1. PICK i \in DOMAIN buffer[a] \ put[a] :
              /\ table' = [table EXCEPT ![i - 1] = <<buffer[a][i]>>]
              /\ put' = [put EXCEPT ![a] = @ \cup {i}]
      BY <2>4 DEF FlushPut
    <3>2. UNCHANGED <<buffer, written, flushed>> /\ pc[a] = "sending"
      BY <2>4 DEF FlushPut
    <3>3. flushed[a] = << >> /\ Healing(a)
      <4>1. buffer[a] # << >>
        BY <1>3, <3>1
      <4> QED
        BY <2>1, <3>2, <4>1 DEF Healed
    <3>4. i \in 1 .. Len(written[a]) /\ buffer[a][i] = LogRow(written[a], i)
      BY <1>3, <3>1, <3>3 DEF Healing, AllQueued
    <3>5. i - 1 \in Seqs /\ i - 1 < Len(written[a]) /\ i - 1 + 1 = i
      <4>1. PICK n \in Nat : Seqs = 0 .. n - 1 /\ \A c \in Agents : MaxEntries[c] <= n
        BY KeysAreNumbers
      <4>2. Len(written[a]) <= MaxEntries[a] /\ MaxEntries[a] \in Nat
        BY <1>3, QueueTyped DEF QueueOf
      <4> QED
        BY <1>3, <3>4, <4>1, <4>2
    <3>6. ASSUME NEW j \in put'[a]
          PROVE  table'[j - 1] = <<LogRow(written[a], j)>>
      <4>1. CASE j = i
        BY <1>4, <3>1, <3>4, <3>5, <4>1
      <4>2. CASE j # i
        <5>1. j \in put[a] /\ j \in Nat
          BY <1>4, <3>1, <3>6, <4>2
        <5>2. j - 1 # i - 1
          BY <3>4, <4>2, <5>1
        <5>3. table[j - 1] = <<LogRow(written[a], j)>>
          BY <3>3, <5>1 DEF Healing
        <5>4. j - 1 \in Seqs
          <6>1. PICK n \in Nat : Seqs = 0 .. n - 1 /\ \A c \in Agents : MaxEntries[c] <= n
            BY KeysAreNumbers
          <6>2. Len(written[a]) <= MaxEntries[a] /\ MaxEntries[a] \in Nat
            BY <1>3, QueueTyped DEF QueueOf
          <6>3. j \in 1 .. Len(buffer[a]) /\ Len(buffer[a]) <= Len(written[a])
            BY <1>3, <5>1 DEF QueueOf
          <6> QED
            BY <1>3, <6>1, <6>2, <6>3
        <5> QED
          BY <1>4, <3>1, <5>2, <5>3, <5>4
      <4> QED
        BY <4>1, <4>2
    <3>7. ASSUME NEW s \in Seqs, table'[s] # << >>
          PROVE  s < Len(written[a]) /\ table'[s] = <<LogRow(written[a], s + 1)>>
      <4>1. CASE s = i - 1
        BY <1>4, <3>1, <3>4, <3>5, <4>1
      <4>2. CASE s # i - 1
        <5>1. table'[s] = table[s]
          BY <1>4, <3>1, <4>2
        <5> QED
          BY <3>3, <3>7, <5>1 DEF Healing
      <4> QED
        BY <4>1, <4>2
    <3>8. Healing(a)'
      BY <3>2, <3>3, <3>6, <3>7 DEF Healing, AllQueued
    <3> QED
      BY <1>7, <3>2, <3>3, <3>8
  <2>5. CASE FlushClear(a)
    <3>1. /\ pc[a] = "stored"
          /\ UNCHANGED <<table, written>> /\ buffer'[a] = << >>
          /\ flushed'[a] = Append(flushed[a], Before(a) + batch[a])
      BY <1>4, <1>5, <2>5 DEF FlushClear
    <3>0. batch[a] # 0 /\ put[a] = 1 .. batch[a] /\ batch[a] \in 0 .. Len(buffer[a])
      BY <1>3, <1>5, <3>1 DEF QueueOf
    <3>2. flushed[a] = << >> /\ Healing(a)
      <4>1. Len(<< >>) = 0
        OBVIOUS
      <4>2. buffer[a] # << >>
        BY <1>3, <3>0, <4>1
      <4> QED
        BY <2>1, <3>1, <4>2 DEF Healed
    <3>a. Before(a) + batch[a] = batch[a]
      BY <1>3, <3>0, <3>2 DEF Healing, AllQueued, Before
    <3>3. flushed'[a] = <<batch[a]>> /\ flushed'[a] # << >>
      BY <3>1, <3>2, <3>a
    <3>b. batch[a] = Len(written[a])
      <4>1. flushed'[a] = <<Len(written[a])>>
        BY <1>7, <3>1, <3>3 DEF IsAlone, IsOnly
      <4> QED
        BY <3>3, <4>1
    <3>4. ASSUME NEW s \in Seqs
          PROVE  table[s] = IF s < Len(written[a]) THEN <<LogRow(written[a], s + 1)>> ELSE << >>
      <4>1. s \in Nat
        BY KeysAreNumbers
      <4>2. CASE s < Len(written[a])
        <5> DEFINE i == s + 1
        <5>1. i \in put[a] /\ i - 1 = s
          BY <1>3, <3>0, <3>b, <4>1, <4>2
        <5> HIDE DEF i
        <5>2. table[i - 1] = <<LogRow(written[a], i)>>
          BY <3>2, <5>1 DEF Healing
        <5> QED
          BY <4>2, <5>1, <5>2 DEF i
      <4>3. CASE ~ (s < Len(written[a]))
        BY <3>2, <4>3 DEF Healing
      <4> QED
        BY <4>2, <4>3
    <3>5. Healed(a)'
      BY <3>1, <3>4 DEF Healed
    <3> QED
      BY <1>7, <3>3, <3>5
  <2>6. CASE FlushFail(a)
    <3>1. /\ UNCHANGED <<table, written, flushed, buffer>> /\ put'[a] = {}
          /\ pc[a] = "sending"
      BY <1>4, <1>5, <2>6 DEF FlushFail, LeavesRows
    <3> QED
      BY <1>7, <2>1, <3>1 DEF Healing, Healed, AllQueued
  <2>7. ~ InsertAccepted(a) /\ ~ InsertRejected(a) /\ ~ Crash(a)
    BY <1>4, <1>5, <1>7 DEF InsertAccepted, InsertRejected, Crash
  <2> QED
    BY <1>7, <2>2, <2>3, <2>4, <2>5, <2>6, <2>7 DEF LedgerStep
<1> QED
  BY <1>6, <1>7

\* The flushes of a lone agent heal the table throughout a run.
THEOREM FlushesKeepHealing == Spec => []HealInv
<1>1. Init => HealInv
  <2> SUFFICES ASSUME Init PROVE HealInv
    OBVIOUS
  <2>1. Len(<< >>) = 0
    OBVIOUS
  <2> QED
    BY <2>1 DEF Init, LedgerInit, HealInv, Healing, AllQueued
<1>2. RowsInv /\ QueueInv /\ HealInv /\ [Next]_vars => HealInv'
  <2> SUFFICES ASSUME RowsInv, QueueInv, HealInv, [Next]_vars PROVE HealInv'
    OBVIOUS
  <2>1. ASSUME UNCHANGED <<provider, connected, buffer, pc, put, table, written, flushed>>
        PROVE  HealInv'
    BY <2>1 DEF HealInv, Healing, Healed, AllQueued, IsAlone, IsOnly
  <2>2. ASSUME NEW a \in Agents, LedgerStep(a)
        PROVE  HealInv'
    BY <2>2, LedgerStepHeals
  <2>3. ASSUME NEW q \in Queries, QueryStep(q)
        PROVE  HealInv'
    <3>1. \/ LedgerStep(q)
          \/ UNCHANGED <<provider, connected, buffer, pc, put, table, written, flushed>>
      BY <2>3, QueryMovesLedger
    <3> QED
      BY <2>1, <2>2, <3>1, QueriesAssumption
  <2>4. CASE UNCHANGED vars
    BY <2>1, <2>4 DEF vars, ledgerVars
  <2> QED
    BY <2>2, <2>3, <2>4 DEF Next
<1> QED
  BY <1>1, <1>2, HashesAreBeginnings, TypeCorrect, PTL DEF Spec

\* A query of a table that holds a log reads the log, whose rows verify.
LEMMA HealedVerifies ==
    ASSUME NEW log \in Seq(Entries), Len(log) <= Cardinality(Seqs),
           \A s \in Seqs : table[s] = IF s < Len(log) THEN <<LogRow(log, s + 1)>> ELSE << >>,
           NEW rows \in Scans
    PROVE  VerifyChain(rows) /\ Contents(rows) = log
<1> DEFINE N == Cardinality(Seqs)
           L == Len(log)
           Rest(s) == [i \in 1 .. L - s |-> LogRow(log, i + s)]
           G == [s \in 0 .. N |-> {Rest(s)}]
<1>1. N \in Nat /\ Seqs = 0 .. N - 1 /\ L \in Nat /\ L <= N /\ DOMAIN log = 1 .. L
  BY KeysAreNumbers, LenProperties
<1>0. \A s \in Seqs : table[s] = IF s < L THEN <<LogRow(log, s + 1)>> ELSE << >>
  OBVIOUS
<1> HIDE DEF L, N
<1>2. \A i \in 1 .. L : LogRow(log, i) \in Rows(Entries) /\ LogRow(log, i).content = log[i]
                        /\ LogRow(log, i).entry_hash = SubSeq(log, 1, i)
  <2> SUFFICES ASSUME NEW i \in 1 .. L
               PROVE  LogRow(log, i) \in Rows(Entries) /\ LogRow(log, i).content = log[i]
                      /\ LogRow(log, i).entry_hash = SubSeq(log, 1, i)
    OBVIOUS
  <2>1. log[i] \in Entries
    BY ElementOfSeq DEF L
  <2>2. SubSeq(log, 1, i - 1) \in Seq(Entries)
    <3>1. \A j \in 1 .. i - 1 : log[j] \in Entries
      BY <1>1, ElementOfSeq DEF L
    <3> QED
      BY <1>1, <3>1, SubSeqProperties
  <2>3. SubSeq(log, 1, i) = Append(SubSeq(log, 1, i - 1), log[i])
    <3>1. SubSeq(log, 1, i) = SubSeq(log, 1, i - 1) \o <<log[i]>>
      BY <1>1, SubSeqRecursiveSecond
    <3> QED
      BY <2>1, <2>2, <3>1, AppendIsConcat
  <2> QED
    BY <2>1, <2>2, <2>3, RowType DEF LogRow, Hash
<1>3. \A s \in 0 .. N : Rest(s) \in Seq(Rows(Entries)) /\ Len(Rest(s)) = IF s < L THEN L - s ELSE 0
  <2> SUFFICES ASSUME NEW s \in 0 .. N
               PROVE  Rest(s) \in Seq(Rows(Entries)) /\ Len(Rest(s)) = IF s < L THEN L - s ELSE 0
    OBVIOUS
  <2> DEFINE n == IF s < L THEN L - s ELSE 0
  <2>1. n \in Nat /\ 1 .. L - s = 1 .. n
    <3>1. CASE s < L
      BY <1>1, <3>1
    <3>2. CASE ~ (s < L)
      <4>1. \A i \in 1 .. L - s : FALSE
        BY <1>1, <3>2
      <4> QED
        BY <3>2, <4>1
    <3> QED
      BY <3>1, <3>2
  <2>2. \A i \in 1 .. n : i + s \in 1 .. L
    <3>1. CASE s < L
      BY <1>1, <3>1
    <3>2. CASE ~ (s < L)
      BY <3>2
    <3> QED
      BY <3>1, <3>2
  <2> HIDE DEF n
  <2>3. Rest(s) \in [1 .. n -> Rows(Entries)]
    BY <1>2, <2>1, <2>2
  <2> HIDE DEF Rest
  <2>4. Rest(s) \in Seq(Rows(Entries)) /\ Len(Rest(s)) = n
    BY <2>1, <2>3, SeqDef, LenProperties
  <2> QED
    BY <2>4 DEF n
<1>4. << >> \in G[N]
  <2>1. N \in 0 .. N
    BY <1>1
  <2>3. Rest(N) \in Seq(Rows(Entries)) /\ Len(Rest(N)) = 0
    <3>1. Rest(N) \in Seq(Rows(Entries)) /\ Len(Rest(N)) = IF N < L THEN L - N ELSE 0
      BY <1>3, <2>1
    <3>2. ~ (N < L)
      BY <1>1
    <3> HIDE DEF Rest
    <3> QED
      BY <3>1, <3>2
  <2> HIDE DEF Rest
  <2>2. Rest(N) = << >>
    BY <2>3, EmptySeq
  <2> QED
    BY <2>1, <2>2
<1>5. ASSUME NEW s \in 0 .. N - 1, ScansFrom[s + 1] \subseteq G[s + 1],
             NEW r \in ScansAt(s, ScansFrom[s + 1])
      PROVE  r \in G[s]
  <2>1. PICK p \in Orders(Len(table[s])), rest \in ScansFrom[s + 1] :
            r = Ordered(table[s], p) \o rest
    <3> HIDE DEF G, N
    <3> QED
      BY SMTT(30) DEF ScansAt
  <2>2. s + 1 \in 0 .. N /\ s \in 0 .. N /\ s \in Seqs
    BY <1>1
  <2>3. rest = Rest(s + 1)
    <3>1. rest \in G[s + 1]
      BY <1>5, <2>1
    <3> HIDE DEF Rest, N
    <3> QED
      BY <2>2, <3>1
  <2>4. /\ Rest(s) \in Seq(Rows(Entries)) /\ Len(Rest(s)) = IF s < L THEN L - s ELSE 0
        /\ rest \in Seq(Rows(Entries)) /\ Len(rest) = IF s + 1 < L THEN L - (s + 1) ELSE 0
    BY <1>3, <2>2, <2>3
  <2>5. CASE s < L
    <3> DEFINE first == LogRow(log, s + 1)
    <3>1. s + 1 \in 1 .. L
      BY <1>1, <2>5
    <3>2. first \in Rows(Entries) /\ table[s] = <<first>>
      BY <1>0, <1>2, <2>2, <2>5, <3>1
    <3> HIDE DEF first
    <3>3. Ordered(table[s], p) = <<first>>
      <4>1. Len(<<first>>) = 1 /\ <<first>> \in Seq(Rows(Entries)) /\ <<first>>[1] = first
        BY <3>2
      <4>2. p \in Orders(Len(<<first>>))
        BY <2>1, <3>2
      <4>3. /\ Ordered(<<first>>, p) \in Seq(Rows(Entries)) /\ Len(Ordered(<<first>>, p)) = 1
            /\ \A k \in 1 .. 1 : \E i \in 1 .. 1 : Ordered(<<first>>, p)[i] = <<first>>[k]
        BY <4>1, <4>2, OrderedRows
      <4>4. Ordered(<<first>>, p)[1] = first
        BY <4>1, <4>3
      <4>5. \A i \in 1 .. 1 : Ordered(<<first>>, p)[i] = <<first>>[i]
        BY <4>1, <4>4
      <4> QED
        BY <3>2, <4>1, <4>3, <4>5, SeqEqual
    <3>4. /\ <<first>> \in Seq(Rows(Entries)) /\ Len(<<first>>) = 1 /\ <<first>>[1] = first
      BY <3>2
    <3>5. /\ r \in Seq(Rows(Entries)) /\ Len(r) = 1 + Len(rest)
          /\ \A i \in 1 .. 1 + Len(rest) : r[i] = IF i <= 1 THEN <<first>>[i] ELSE rest[i - 1]
      BY <2>1, <2>4, <3>3, <3>4, ConcatProperties
    <3>6. Len(r) = L - s /\ Len(rest) = L - (s + 1) /\ Len(Rest(s)) = L - s
      BY <1>1, <2>2, <2>4, <2>5, <3>5
    <3>7. ASSUME NEW i \in 1 .. L - s
          PROVE  r[i] = Rest(s)[i]
      <4>1. CASE i = 1
        <5>1. r[1] = first /\ Rest(s)[1] = LogRow(log, 1 + s) /\ 1 + s = s + 1
          BY <1>1, <2>2, <3>4, <3>5, <3>6, <3>7, <4>1
        <5> QED
          BY <4>1, <5>1 DEF first
      <4>2. CASE i # 1
        <5> DEFINE j == i - 1
        <5>0. L \in Nat /\ s \in Nat /\ i \in 1 .. L - s /\ i # 1 /\ Len(rest) = L - (s + 1)
          BY <1>1, <2>2, <3>6, <4>2
        <5>1. j \in 1 .. L - (s + 1) /\ j + (s + 1) = i + s /\ ~ (i <= 1) /\ i \in 1 .. 1 + Len(rest)
          <6> HIDE DEF Rest, G
          <6> QED
            BY <5>0
        <5> HIDE DEF j
        <5>2. r[i] = rest[j]
          BY <3>5, <5>1 DEF j
        <5>3. rest[j] = LogRow(log, j + (s + 1))
          BY <2>3, <5>1
        <5>4. Rest(s)[i] = LogRow(log, i + s)
          OBVIOUS
        <5> QED
          BY <5>1, <5>2, <5>3, <5>4
      <4> QED
        BY <4>1, <4>2
    <3> HIDE DEF Rest
    <3>8. r = Rest(s)
      BY <2>4, <3>5, <3>6, <3>7, SeqEqual
    <3> QED
      BY <2>2, <3>8
  <2>6. CASE ~ (s < L)
    <3>1. table[s] = << >>
      BY <1>0, <2>2, <2>6
    <3>2. << >> \in Seq(Rows(Entries)) /\ Len(<< >>) = 0
      BY EmptySeq
    <3>3. Ordered(<< >>, p) = << >>
      <4>1. Ordered(<< >>, p) \in Seq(Rows(Entries)) /\ Len(Ordered(<< >>, p)) = 0
        BY <2>1, <3>1, <3>2, OrderedRows
      <4> QED
        BY <4>1, EmptySeq
    <3> HIDE DEF Rest
    <3>4. Len(rest) = 0 /\ Len(Rest(s)) = 0
      BY <1>1, <2>2, <2>4, <2>6
    <3>5. rest = << >> /\ Rest(s) = << >>
      BY <2>4, <3>4, EmptySeq
    <3>6. r = << >>
      BY <2>1, <3>1, <3>2, <3>3, <3>5, ConcatEmptySeq
    <3> QED
      BY <2>2, <3>5, <3>6
  <2> QED
    BY <2>5, <2>6
<1>6. Scans \subseteq G[0]
  <2> HIDE DEF G
  <2> QED
    BY <1>4, <1>5, ScansInduction DEF N
<1>7. rows = Rest(0) /\ 0 \in 0 .. N
  <2>1. 0 \in 0 .. N
    BY <1>1
  <2> HIDE DEF Rest
  <2> QED
    BY <1>6, <2>1
<1>8. rows \in Seq(Rows(Entries)) /\ Len(rows) = L /\ DOMAIN rows = 1 .. L
  <2>1. Rest(0) \in Seq(Rows(Entries)) /\ Len(Rest(0)) = IF 0 < L THEN L - 0 ELSE 0
    BY <1>3, <1>7
  <2> HIDE DEF Rest
  <2>2. rows \in Seq(Rows(Entries)) /\ Len(rows) = L
    BY <1>1, <1>7, <2>1
  <2> QED
    BY <2>2, LenProperties
<1>9. \A i \in 1 .. L : rows[i] = LogRow(log, i)
  <2> SUFFICES ASSUME NEW i \in 1 .. L PROVE rows[i] = LogRow(log, i)
    OBVIOUS
  <2>1. i \in 1 .. L - 0 /\ i + 0 = i
    BY <1>1
  <2> QED
    BY <1>7, <2>1
<1>10. Contents(rows) = log
  <2>1. /\ Contents(rows) \in Seq(Entries) /\ Len(Contents(rows)) = L
        /\ \A i \in 1 .. L : Contents(rows)[i] = rows[i].content
    BY <1>8, ContentsType
  <2>2. \A i \in 1 .. L : Contents(rows)[i] = log[i]
    BY <1>2, <1>9, <2>1
  <2> QED
    BY <2>1, <2>2, SeqEqual DEF L
<1>11. VerifyChain(rows)
  <2> SUFFICES ASSUME NEW i \in 1 .. L
               PROVE  rows[i].entry_hash = Append(PrevHash(rows, i), rows[i].content)
    BY <1>8 DEF VerifyChain, Hash
  <2>1. LogRow(log, i).entry_hash = Append(SubSeq(log, 1, i - 1), log[i])
    BY DEF LogRow, Row, Hash
  <2>2. PrevHash(rows, i) = SubSeq(log, 1, i - 1)
    <3>1. CASE i = 1
      BY <3>1, SubSeqEmpty DEF PrevHash, Genesis
    <3>2. CASE i # 1
      <4>1. i - 1 \in 1 .. L
        BY <1>1, <3>2
      <4> QED
        BY <1>2, <1>9, <3>2, <4>1 DEF PrevHash
    <3> QED
      BY <3>1, <3>2
  <2> QED
    BY <1>2, <1>9, <2>1, <2>2
<1> QED
  BY <1>10, <1>11

\* A lone agent whose flush has returned reads its own log.
LEMMA InvariantsHeal ==
    ASSUME RowsInv, QueueInv, HealInv
    PROVE  FlushHeals
<1> SUFFICES ASSUME NEW a \in Agents,
                    provider = "aws", connected, pc[a] # "crashed",
                    IsAlone(a), buffer[a] = << >>, NEW rows \in Scans
             PROVE  VerifyChain(rows) /\ Contents(rows) = written[a]
  BY DEF FlushHeals
<1>1. /\ written[a] \in Seq(Entries) /\ Len(written[a]) \in Nat
      /\ Len(written[a]) <= Cardinality(Seqs)
  <2>1. /\ Len(written[a]) \in Nat /\ MaxEntries[a] \in Nat
        /\ Len(written[a]) <= MaxEntries[a]
    BY QueueTyped DEF QueueOf
  <2> QED
    BY <2>1, KeysAreNumbers DEF RowsInv
<1>2. \A s \in Seqs :
          table[s] = IF s < Len(written[a]) THEN <<LogRow(written[a], s + 1)>> ELSE << >>
  <2>1. CASE flushed[a] # << >>
    BY <2>1 DEF HealInv, Healed
  <2>2. CASE flushed[a] = << >>
    <3>1. Healing(a)
      BY <2>2 DEF HealInv
    <3>2. Len(written[a]) = 0
      <4>1. Len(buffer[a]) = 0
        BY EmptySeq
      <4> QED
        BY <3>1, <4>1 DEF Healing, AllQueued
    <3>3. \A s \in Seqs : s \in Nat
      BY KeysAreNumbers
    <3> QED
      BY <3>1, <3>2, <3>3 DEF Healing
  <2> QED
    BY <2>1, <2>2
<1> QED
  BY <1>1, <1>2, HealedVerifies

\* DynamoDB, one agent, one flush: when the flush returns having taken the whole log,
\* what was logged while it waited included, whatever failed attempts left behind is
\* healed, and the table is that log, in order.
THEOREM FlushesHeal == Spec => []FlushHeals
BY InvariantsHeal, HashesAreBeginnings, TypeCorrect, FlushesKeepHealing, PTL

-------------------------------------------------------------------------------
(***************************************************************************)
(* What an answer that calls the chain valid means                         *)
(***************************************************************************)

\* What QueriesInv says of one query.
QueryOf(q) ==
    /\ pc[q] # "crashed"
    /\ phase[q] # "flushing" => pc[q] = "idle"
    /\ pc[q] # "idle" => batch[q] = Len(buffer[q])
    /\ provider = "local" \/ (connected /\ phase[q] \notin {"verifying", "closing", "answered"})
       => AllQueued(q)
    /\ provider = "gcp" /\ pc[q] = "stored" => LastStored(q)
    /\ connected /\ phase[q] = "verifying" =>
          /\ buffer[q] = << >>
          /\ provider = "gcp" => rejected[q] # {} \/ LastStored(q)

\* BigQuery: a row that is stored stays.
LEMMA LastStays ==
    ASSUME RowsInv, NEW q \in Agents, LastStored(q), written'[q] = written[q],
           NEW b \in Agents, NEW n \in Nat, n <= Len(buffer[b]),
           table' = table \/ table' = WithRows(b, n)
    PROVE  LastStored(q)'
<1> SUFFICES ASSUME written[q] # << >>
             PROVE  \E s \in Seqs : \E k \in DOMAIN table'[s] :
                        table'[s][k].entry_hash = written[q]
  BY DEF LastStored
<1>0. PICK s \in Seqs : \E k \in DOMAIN table[s] : table[s][k].entry_hash = written[q]
  BY DEF LastStored
<1>1. PICK k \in DOMAIN table[s] : table[s][k].entry_hash = written[q]
  BY <1>0
<1>2. CASE table' = table
  BY <1>1, <1>2
<1>3. CASE table' = WithRows(b, n)
  <2>1. table[s] \in Seq(Stored) /\ DOMAIN table[s] = 1 .. Len(table[s]) /\ Len(table[s]) \in Nat
    <3>1. table[s] \in Seq(Stored)
      BY DEF RowsInv
    <3> QED
      BY <3>1, LenProperties
  <2>2. CASE s < n
    <3> DEFINE r == buffer[b][s + 1]
    <3>1. table'[s] = Append(table[s], r)
      BY <1>3, <2>2 DEF WithRows
    <3>2. r \in Stored
      <4>1. s \in Nat /\ buffer[b] \in Seq(Own(written[b])) /\ Own(written[b]) \subseteq Stored
        BY RowsTyped, KeysAreNumbers
      <4>2. Len(buffer[b]) \in Nat
        BY <4>1, LenProperties
      <4>3. s + 1 \in 1 .. Len(buffer[b])
        BY <2>2, <4>1, <4>2
      <4> QED
        BY <4>1, <4>3, ElementOfSeq
    <3> HIDE DEF r
    <3>3. /\ Append(table[s], r) \in Seq(Stored) /\ Len(Append(table[s], r)) = Len(table[s]) + 1
          /\ Append(table[s], r)[k] = table[s][k]
      BY <1>1, <2>1, <3>2, AppendProperties
    <3>4. k \in DOMAIN Append(table[s], r)
      BY <1>1, <2>1, <3>3, LenProperties
    <3> QED
      BY <1>1, <3>1, <3>3, <3>4
  <2>3. CASE ~ (s < n)
    <3>1. table'[s] = table[s]
      BY <1>3, <2>3 DEF WithRows
    <3> QED
      BY <1>1, <3>1
  <2> QED
    BY <2>2, <2>3
<1> QED
  BY <1>2, <1>3

\* BigQuery: an insert that is accepted stores the row of the last entry.
LEMMA AcceptedStores ==
    ASSUME RowsInv, QueueInv, NEW a \in Agents, AllQueued(a),
           table' = WithRows(a, Len(buffer[a])), written'[a] = written[a]
    PROVE  LastStored(a)'
<1> DEFINE w == written[a]
           L == Len(w)
<1> SUFFICES ASSUME w # << >>
             PROVE  \E s \in Seqs : \E k \in DOMAIN table'[s] : table'[s][k].entry_hash = w
  BY DEF LastStored
<1>1. /\ w \in Seq(Entries) /\ L \in Nat /\ L # 0 /\ L <= MaxEntries[a] /\ MaxEntries[a] \in Nat
      /\ Len(buffer[a]) = L /\ buffer[a] \in Seq(Own(w)) /\ Own(w) \subseteq Stored
  BY QueueTyped, RowsTyped, EmptySeq DEF QueueOf, AllQueued
<1> DEFINE s == L - 1
<1>2. s \in Seqs /\ s < L /\ s + 1 = L /\ L \in 1 .. L
  BY <1>1, KeysAreNumbers
<1>3. buffer[a][L] = LogRow(w, L) /\ LogRow(w, L) \in Stored
  <2>1. buffer[a][L] = LogRow(w, L)
    BY <1>1, <1>2 DEF AllQueued
  <2>2. buffer[a][L] \in Own(w)
    BY <1>1, <1>2, ElementOfSeq
  <2> QED
    BY <1>1, <2>1, <2>2
<1>4. LogRow(w, L).entry_hash = w
  <2>1. SubSeq(w, 1, L) = SubSeq(w, 1, L - 1) \o <<w[L]>> /\ SubSeq(w, 1, L) = w
    BY <1>1, <1>2, SubSeqRecursiveSecond, SubSeqFull
  <2>2. w[L] \in Entries /\ SubSeq(w, 1, L - 1) \in Seq(Entries)
    <3>1. \A i \in 1 .. L : w[i] \in Entries
      BY <1>1, ElementOfSeq
    <3>2. \A i \in 1 .. L - 1 : w[i] \in Entries
      BY <1>1, <3>1
    <3>3. L - 1 \in Nat /\ L - 1 <= L
      BY <1>1
    <3> HIDE DEF w, L, s
    <3> QED
      BY <1>1, <1>2, <3>1, <3>2, <3>3, SubSeqProperties
  <2>3. SubSeq(w, 1, L - 1) \o <<w[L]>> = Append(SubSeq(w, 1, L - 1), w[L])
    BY <2>2, AppendIsConcat
  <2> QED
    BY <2>1, <2>3 DEF LogRow, Row, Hash
<1>5. table'[s] = Append(table[s], LogRow(w, L))
  BY <1>1, <1>2, <1>3 DEF WithRows
<1> HIDE DEF w, L, s
<1>6. table[s] \in Seq(Stored) /\ Len(table[s]) \in Nat
  <2>1. table[s] \in Seq(Stored)
    BY <1>2 DEF RowsInv
  <2> QED
    BY <2>1, LenProperties
<1> DEFINE k == Len(table[s]) + 1
<1>7. k \in DOMAIN table'[s] /\ table'[s][k] = LogRow(w, L)
  <2>1. /\ Append(table[s], LogRow(w, L)) \in Seq(Stored)
        /\ Len(Append(table[s], LogRow(w, L))) = k
        /\ Append(table[s], LogRow(w, L))[k] = LogRow(w, L)
    BY <1>3, <1>6, AppendProperties
  <2>2. k \in 1 .. k
    BY <1>6
  <2> QED
    BY <1>5, <2>1, <2>2, LenProperties
<1> QED
  BY <1>2, <1>4, <1>7

\* What the owner of another backend does takes nothing from a query.
LEMMA OthersLeaveQueries ==
    ASSUME RowsInv, QueueInv, NEW q \in Queries, QueryOf(q), phase'[q] = phase[q],
           NEW a \in Agents, a # q, LedgerStep(a)
    PROVE  QueryOf(q)'
<1>1. q \in Agents
  BY QueriesAssumption
<1>2. /\ UNCHANGED <<provider, connected>>
      /\ pc'[q] = pc[q] /\ buffer'[q] = buffer[q] /\ written'[q] = written[q]
      /\ rejected'[q] = rejected[q] /\ batch'[q] = batch[q]
      /\ provider = "aws" \/ table' = table \/ \E n \in Taken(a) : table' = WithRows(a, n)
  <2>1. /\ pc \in [Agents -> Phases] /\ rejected \in [Agents -> SUBSET Nat]
        /\ batch \in [Agents -> Nat]
        /\ buffer \in [Agents -> Seq(Rows(Entries))] /\ written \in [Agents -> Seq(Entries)]
    BY DEF QueueInv, LedgerTypeOK
  <2> QED
    BY <1>1, <2>1 DEF LedgerStep, Write, FlushNothing, FlushBegin, FlushPut, FlushSent,
       InsertAccepted, InsertRejected, FlushClear, FlushFail, Crash, LeavesRows
<1>3. AllQueued(q) => AllQueued(q)'
  BY <1>2 DEF AllQueued
<1>4. provider # "aws" => (LastStored(q) => LastStored(q)')
  <2>1. \A n \in Taken(a) : n \in Nat /\ n <= Len(buffer[a])
    BY TakenIsNumber DEF QueueInv
  <2>2. Len(buffer[a]) \in Nat
    BY QueueTyped
  <2> QED
    BY <1>1, <1>2, <2>1, <2>2, LastStays
<1> QED
  BY <1>2, <1>3, <1>4 DEF QueryOf

\* A query's own steps: it queues its log, and hands all of it over.
LEMMA QueryKeepsItself ==
    ASSUME RowsInv, TypeOK, QueueInv, NEW q \in Queries, QueryOf(q), QueryStep(q)
    PROVE  QueryOf(q)'
<1>1. /\ q \in Agents /\ QueueOf(q) /\ phase \in [Queries -> QueryPhases]
      /\ pc \in [Agents -> Phases] /\ rejected \in [Agents -> SUBSET Nat]
      /\ batch \in [Agents -> Nat]
      /\ buffer \in [Agents -> Seq(Rows(Entries))] /\ written \in [Agents -> Seq(Entries)]
      /\ provider = "local" => ~ connected
      /\ Len(written[q]) \in Nat /\ DOMAIN written[q] = 1 .. Len(written[q])
      /\ Len(buffer[q]) \in Nat /\ (buffer[q] = << >> <=> Len(buffer[q]) = 0)
  BY QueriesAssumption, QueueTyped DEF QueueInv, LedgerTypeOK, TypeOK
<1>2. CASE \/ SetUpModel(q) \/ SetUpBuilders(q) \/ Query(q) \/ Build(q) \/ Invoked(q)
           \/ InvokeRaises(q) \/ Verified(q) \/ VerifyRaised(q) \/ Answer(q)
  <2>1. UNCHANGED <<provider, connected, pc, batch, buffer, written, rejected, table>>
    BY <1>2 DEF SetUpModel, SetUpBuilders, Query, Build, Invoked, InvokeRaises, Verified,
                VerifyRaised, Answer, ledgerVars
  <2>2. /\ phase'[q] # "verifying"
        /\ \/ phase[q] \notin {"verifying", "closing", "answered"}
           \/ phase'[q] \in {"closing", "answered"}
        /\ phase[q] # "flushing"
    BY <1>1, <1>2 DEF SetUpModel, SetUpBuilders, Query, Build, Invoked, InvokeRaises, Verified,
                VerifyRaised, Answer, Goes
  <2> QED
    BY <2>1, <2>2 DEF QueryOf, AllQueued, LastStored
<1>3. CASE Log(q)
  <2>1. PICK e \in Entries : Write(q, e)
    BY <1>3 DEF Log
  <2>2. /\ phase' = phase /\ phase[q] = "running" /\ pc'[q] = "idle"
        /\ UNCHANGED <<provider, connected>>
    BY <1>1, <1>3, <2>1 DEF Log, Write, QueryOf, engineVars
  <2>3. AllQueued(q) => AllQueued(q)'
    BY <1>1, <2>1, WriteQueues
  <2> QED
    BY <2>2, <2>3 DEF QueryOf
<1>4. CASE Flushing(q)
  <2>1. /\ UNCHANGED <<provider, connected, buffer, written, phase>> /\ phase[q] = "flushing"
        /\ pc'[q] \in Phases \ {"crashed"} /\ connected
    BY <1>1, <1>4 DEF Flushing, FlushBegin, FlushPut, FlushSent, InsertAccepted, InsertRejected,
                engineVars, Phases, QueueOf
  <2>2. AllQueued(q) /\ AllQueued(q)'
    BY <2>1 DEF QueryOf, AllQueued
  <2>3. ASSUME pc[q] # "idle"
        PROVE  \A n \in Taken(q) : n = Len(buffer[q])
    BY <1>1, <2>3 DEF Taken, QueryOf
  <2>4. batch'[q] = Len(buffer[q])
    <3>1. CASE FlushBegin(q)
      BY <1>1, <3>1 DEF FlushBegin
    <3>2. CASE FlushPut(q)
      BY <3>2 DEF FlushPut, QueryOf
    <3>3. CASE FlushSent(q) \/ InsertAccepted(q) \/ InsertRejected(q)
      BY <1>1, <2>3, <3>3 DEF FlushSent, InsertAccepted, InsertRejected
    <3> QED
      BY <1>4, <3>1, <3>2, <3>3 DEF Flushing
  <2>5. provider = "gcp" /\ pc'[q] = "stored" => LastStored(q)'
    <3>1. provider = "gcp" /\ pc'[q] = "stored" => InsertAccepted(q)
      BY <1>1, <1>4 DEF Flushing, FlushBegin, FlushPut, FlushSent, InsertRejected
    <3>2. InsertAccepted(q) => table' = WithRows(q, Len(buffer[q]))
      BY <2>3 DEF InsertAccepted
    <3> QED
      BY <1>1, <2>1, <2>2, <3>1, <3>2, AcceptedStores
  <2> QED
    BY <2>1, <2>2, <2>4, <2>5 DEF QueryOf
<1>5. CASE Flushed(q)
  <2>1. phase[q] = "flushing" /\ phase'[q] = "verifying" /\ UNCHANGED <<provider, connected>>
    BY <1>1, <1>5 DEF Flushed, Goes, FlushNothing, FlushClear, ledgerVars
  <2>2. CASE provider = "local"
    <3>1. UNCHANGED ledgerVars
      BY <1>1, <1>5, <2>2 DEF Flushed, FlushNothing, FlushClear, QueueOf
    <3>2. UNCHANGED <<provider, connected, pc, batch, buffer, written, table>> /\ ~ connected
      BY <1>1, <2>2, <3>1 DEF ledgerVars
    <3>4. pc[q] = "idle"
      BY <1>1, <3>2 DEF QueueOf, QueryOf, Phases
    <3>3. (AllQueued(q) => AllQueued(q)') /\ (LastStored(q) => LastStored(q)')
      BY <3>2 DEF AllQueued, LastStored
    <3> QED
      BY <2>1, <2>2, <3>2, <3>3, <3>4 DEF QueryOf
  <2>3. CASE FlushNothing(q)
    <3>1. /\ buffer'[q] = << >> /\ UNCHANGED <<pc, table, written, rejected>> /\ pc[q] = "idle"
          /\ provider # "local" /\ (~ connected \/ buffer[q] = << >>)
      BY <1>1, <2>3 DEF FlushNothing
    <3>2. connected => LastStored(q)'
      <4>1. connected => Len(written[q]) = 0
        BY <1>1, <2>1, <3>1 DEF QueryOf, AllQueued
      <4>2. Len(written[q]) = 0 => written[q] = << >>
        BY <1>1, EmptySeq
      <4> QED
        BY <3>1, <4>1, <4>2 DEF LastStored
    <3> QED
      BY <2>1, <3>1, <3>2 DEF QueryOf
  <2>4. CASE FlushClear(q) /\ provider # "local"
    <3>1. /\ buffer'[q] = << >> /\ UNCHANGED <<table, written>> /\ pc'[q] = "idle"
          /\ pc[q] \in {"stored", "row_errors"}
          /\ rejected' = IF pc[q] = "row_errors"
                         THEN [rejected EXCEPT
                                   ![q] = @ \cup (Before(q) + 1 .. Before(q) + batch[q])]
                         ELSE rejected
      BY <1>1, <2>4 DEF FlushClear
    <3>2. provider = "gcp" /\ pc[q] = "stored" => LastStored(q)'
      BY <3>1 DEF QueryOf, LastStored
    <3>3. pc[q] = "row_errors" => rejected'[q] # {}
      <4>1. SUFFICES ASSUME pc[q] = "row_errors" PROVE rejected'[q] # {}
        OBVIOUS
      <4> DEFINE new == Before(q) + 1 .. Before(q) + batch[q]
      <4>2. batch[q] # 0 /\ batch[q] \in Nat /\ Before(q) \in Nat
        BY <1>1, <4>1 DEF QueueOf, Before
      <4>3. Before(q) + 1 \in new
        BY <4>2
      <4>5. new \in SUBSET Nat
        BY <4>2
      <4> HIDE DEF new
      <4>4. rejected'[q] = rejected[q] \cup new
        BY <1>1, <3>1, <4>1 DEF new
      <4> QED
        BY <4>3, <4>4
    <3> QED
      BY <2>1, <2>4, <3>1, <3>2, <3>3 DEF QueryOf
  <2> QED
    BY <1>5, <2>2, <2>3, <2>4 DEF Flushed
<1>6. CASE FlushRaised(q)
  <2>1. /\ phase'[q] = "closing" /\ pc'[q] = "idle" /\ UNCHANGED <<provider, connected>>
        /\ pc[q] = "sending"
    BY <1>1, <1>6 DEF FlushRaised, FlushFail, Goes
  <2>2. provider # "local"
    BY <1>1, <2>1 DEF QueueOf
  <2> QED
    BY <2>1, <2>2 DEF QueryOf
<1> QED
  BY <1>2, <1>3, <1>4, <1>5, <1>6 DEF QueryStep

\* Queries hand their whole log over throughout a run.
THEOREM QueriesHandOver == Spec => []QueriesInv
<1>1. QueriesInv <=> \A q \in Queries : QueryOf(q)
  BY DEF QueriesInv, QueryOf
<1>2. Init => QueriesInv
  <2> SUFFICES ASSUME Init, NEW q \in Queries PROVE QueryOf(q)
    BY <1>1
  <2>1. Len(<< >>) = 0
    OBVIOUS
  <2> QED
    BY <2>1, QueriesAssumption DEF Init, LedgerInit, QueryOf, AllQueued
<1>3. RowsInv /\ TypeOK /\ QueueInv /\ QueriesInv /\ [Next]_vars => QueriesInv'
  <2> SUFFICES ASSUME RowsInv, TypeOK, QueueInv, QueriesInv, [Next]_vars, NEW q \in Queries
               PROVE  QueryOf(q)'
    BY DEF QueriesInv, QueryOf
  <2>1. QueryOf(q) /\ q \in Agents /\ phase \in [Queries -> QueryPhases]
    BY <1>1, QueriesAssumption DEF TypeOK
  <2>2. ASSUME UNCHANGED <<provider, connected, pc, batch, buffer, written, rejected, table>>,
               phase'[q] = phase[q]
        PROVE  QueryOf(q)'
    BY <2>1, <2>2 DEF QueryOf, AllQueued, LastStored
  <2>3. ASSUME NEW r \in Queries, QueryStep(r)
        PROVE  QueryOf(q)'
    <3>1. CASE r = q
      BY <2>1, <2>3, <3>1, QueryKeepsItself
    <3>2. CASE r # q
      <4>1. phase'[q] = phase[q]
        BY <2>1, <2>3, <3>2 DEF QueryStep, SetUpModel, SetUpBuilders, Query, Build, Log, Invoked,
           InvokeRaises, Flushing, Flushed, FlushRaised, Verified, VerifyRaised, Answer, Goes,
           engineVars
      <4>2. \/ LedgerStep(r)
            \/ UNCHANGED <<provider, connected, pc, batch, buffer, written, rejected, table>>
        BY <2>3, QueryMovesLedger
      <4> QED
        BY <2>1, <2>2, <3>2, <4>1, <4>2, OthersLeaveQueries, QueriesAssumption
    <3> QED
      BY <3>1, <3>2
  <2>4. ASSUME NEW a \in Agents \ Queries, LedgerStep(a), UNCHANGED engineVars
        PROVE  QueryOf(q)'
    <3>1. a # q /\ phase'[q] = phase[q]
      BY <2>4 DEF engineVars
    <3> QED
      BY <2>1, <2>4, <3>1, OthersLeaveQueries
  <2>5. CASE UNCHANGED vars
    BY <2>2, <2>5 DEF vars, ledgerVars, engineVars
  <2> QED
    BY <2>3, <2>4, <2>5 DEF Next
<1> QED
  BY <1>2, <1>3, HashesAreBeginnings, TypeCorrect, PTL DEF Spec

\* A verified list of rows with a row that carries the hash of a log begins with the log.
LEMMA VerifiedHoldsLog ==
    ASSUME NEW rows \in Seq(Rows(Entries)), VerifyChain(rows), NEW log \in Seq(Entries),
           NEW i \in 1 .. Len(rows), rows[i].entry_hash = log
    PROVE  IsPrefix(log, Contents(rows))
<1> DEFINE C == Contents(rows)
<1>1. /\ C \in Seq(Entries) /\ Len(C) = Len(rows) /\ Len(rows) \in Nat
      /\ log = SubSeq(C, 1, i)
  BY LenProperties, ContentsType, VerifiedHashes
<1> HIDE DEF C
<1>2. \A j \in 1 .. i : C[j] \in Entries
  BY <1>1, ElementOfSeq
<1>3. Len(log) = i
  BY <1>1, <1>2, SubSeqProperties
<1>4. SubSeq(log, 1, Len(log)) = log
  BY SubSeqFull
<1> QED
  BY <1>1, <1>3, <1>4 DEF IsPrefix, C

\* When a verification turns a query's answer to valid, the query's log is behind it.
LEMMA VerifiedAnswer ==
    ASSUME RowsInv, TypeOK, QueueInv, HealInv, QueriesInv, [Next]_vars, NEW q \in Queries,
           valid[q] = "none", valid'[q] = "true", connected \/ provider = "local",
           rejected[q] = {}, provider = "aws" => IsAlone(q)
    PROVE  \E rows \in IF provider = "local" THEN {buffer[q]} ELSE Scans :
               VerifyChain(rows) /\ IsPrefix(written[q], Contents(rows))
<1>1. valid \in [Queries -> {"none", "true", "false"}] /\ q \in Agents
      /\ provider \in {"aws", "gcp", "local"}
  BY QueriesAssumption DEF TypeOK, LedgerTypeOK
<1>2. Verified(q)
  <2>1. ASSUME NEW r \in Queries, QueryStep(r)
        PROVE  Verified(q)
    BY <1>1, <2>1 DEF QueryStep, SetUpModel, SetUpBuilders, Query, Build, Log, Invoked,
       InvokeRaises, Flushing, Flushed, FlushRaised, Verified, VerifyRaised, Answer, engineVars
  <2>2. ~ UNCHANGED engineVars /\ ~ UNCHANGED vars
    BY DEF engineVars, vars
  <2> QED
    BY <2>1, <2>2 DEF Next
<1>3. phase[q] = "verifying" /\ UNCHANGED ledgerVars
  BY <1>2 DEF Verified
<1>4. PICK rows \in IF provider = "local" THEN {buffer[q]}
                    ELSE IF connected THEN Scans ELSE {<< >>} : VerifyChain(rows)
  <2>1. PICK rows \in IF provider = "local" THEN {buffer[q]}
                      ELSE IF connected THEN Scans ELSE {<< >>} :
                 valid' = [valid EXCEPT ![q] = IF VerifyChain(rows) THEN "true" ELSE "false"]
    BY <1>2 DEF Verified
  <2>2. VerifyChain(rows)
    BY <1>1, <2>1
  <2> QED
    BY <2>2
<1>5. /\ written[q] \in Seq(Entries) /\ buffer[q] \in Seq(Rows(Entries))
      /\ Len(written[q]) \in Nat /\ (Len(written[q]) = 0 => written[q] = << >>)
  BY <1>1, RowsTyped, LenProperties, EmptySeq
<1>6. ASSUME Contents(rows) = written[q]
      PROVE  IsPrefix(written[q], Contents(rows))
  BY <1>5, <1>6 DEF IsPrefix
<1>7. CASE provider = "local"
  <2>1. rows = buffer[q] /\ AllQueued(q)
    BY <1>4, <1>7 DEF QueriesInv
  <2>2. /\ Contents(rows) \in Seq(Entries) /\ Len(Contents(rows)) = Len(rows)
        /\ \A i \in 1 .. Len(rows) : Contents(rows)[i] = rows[i].content
    BY <1>5, <2>1, ContentsType
  <2>3. \A i \in 1 .. Len(rows) : rows[i].content = written[q][i]
    <3>1. \A i \in 1 .. Len(rows) : rows[i] = LogRow(written[q], i)
      BY <2>1 DEF AllQueued
    <3>2. \A log, i : LogRow(log, i).content = log[i]
      BY DEF LogRow, Row
    <3> QED
      BY <3>1, <3>2
  <2>4. Contents(rows) = written[q]
    BY <1>5, <2>1, <2>2, <2>3, SeqEqual DEF AllQueued
  <2> QED
    BY <1>4, <1>6, <1>7, <2>1, <2>4
<1>8. CASE provider = "aws"
  <2>1. rows \in Scans /\ connected /\ IsAlone(q)
    BY <1>4, <1>8
  <2>2. buffer[q] = << >> /\ pc[q] # "crashed"
    BY <1>3, <2>1 DEF QueriesInv
  <2>3. Contents(rows) = written[q]
    BY <1>1, <1>8, <2>1, <2>2, InvariantsHeal DEF FlushHeals
  <2> QED
    BY <1>4, <1>6, <1>8, <2>1, <2>3
<1>9. CASE provider = "gcp"
  <2>1. rows \in Scans /\ connected
    BY <1>4, <1>9
  <2>2. LastStored(q)
    BY <1>3, <1>9, <2>1 DEF QueriesInv
  <2>3. /\ rows \in Seq(Rows(Entries))
        /\ \A s \in Seqs : \A k \in DOMAIN table[s] :
               \E i \in 1 .. Len(rows) : rows[i] = table[s][k]
    <3>1. /\ rows \in Seq(Stored)
          /\ \A s \in Seqs : \A k \in DOMAIN table[s] :
                 \E i \in 1 .. Len(rows) : rows[i] = table[s][k]
      BY <2>1, ScansAreRows DEF RowsInv
    <3>2. Stored \subseteq Rows(Entries)
      BY DEF Stored
    <3> QED
      BY <3>1, <3>2, SeqMonotonic
  <2>4. CASE written[q] # << >>
    <3>1. PICK i \in 1 .. Len(rows) : rows[i].entry_hash = written[q]
      BY <2>2, <2>3, <2>4 DEF LastStored
    <3>2. IsPrefix(written[q], Contents(rows))
      BY <1>4, <1>5, <2>3, <3>1, VerifiedHoldsLog
    <3> QED
      BY <1>4, <1>9, <2>1, <3>2
  <2>5. CASE written[q] = << >>
    <3>1. Len(Contents(rows)) \in Nat
      BY <2>3, ContentsType, LenProperties
    <3>2. SubSeq(<< >>, 1, 0) = << >> /\ SubSeq(Contents(rows), 1, 0) = << >> /\ Len(<< >>) = 0
      BY SubSeqEmpty
    <3>3. IsPrefix(written[q], Contents(rows))
      BY <2>5, <3>1, <3>2 DEF IsPrefix
    <3> QED
      BY <1>4, <1>9, <2>1, <3>3
  <2> QED
    BY <2>4, <2>5
<1> QED
  BY <1>1, <1>7, <1>8, <1>9

\* A container's answer that calls the chain valid means, where there is a store that
\* took the rows and, in DynamoDB, nobody else wrote to the run, that the run begins
\* with the query's own log, complete and in order.
THEOREM ValidMeansWholeLog == Spec => ValidHasWholeLog
<1> DEFINE Whole(q) ==
        /\ valid[q] = "none" /\ valid'[q] = "true"
        /\ connected \/ provider = "local"
        /\ rejected[q] = {}
        /\ provider = "aws" => IsAlone(q)
        => \E rows \in IF provider = "local" THEN {buffer[q]} ELSE Scans :
               VerifyChain(rows) /\ IsPrefix(written[q], Contents(rows))
<1>1. RowsInv /\ TypeOK /\ QueueInv /\ HealInv /\ QueriesInv /\ [Next]_vars
          => \A q \in Queries : Whole(q)
  BY VerifiedAnswer
<1>2. Spec => [][\A q \in Queries : Whole(q)]_vars
  <2> HIDE DEF Whole
  <2> QED
    BY <1>1, HashesAreBeginnings, TypeCorrect, FlushesKeepHealing, QueriesHandOver, PTL DEF Spec
<1>3. Spec => []TypeOK
  BY TypeCorrect, PTL
<1> QED
  BY <1>2, <1>3 DEF ValidHasWholeLog

===============================================================================
