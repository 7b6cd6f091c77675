--------------------------- MODULE HashChainProofs ---------------------------
(***************************************************************************)
(* Facts about the hash chain that the proofs about the audit stores cite. *)
(***************************************************************************)
EXTENDS HashChain, SequenceTheorems, FiniteSetTheorems, TLAPS

\* A row built by write() has the columns of a stored row.
LEMMA RowType ==
    ASSUME NEW S, NEW c \in S, NEW p \in Seq(S)
    PROVE  /\ Row(c, p) \in Rows(S)
           /\ Row(c, p).content = c
           /\ Row(c, p).entry_hash = Hash(c, p)
           /\ Hash(c, p) \in Seq(S)
BY AppendProperties DEF Row, Rows, Hash

\* The contents of a list of rows are a list of as many contents.
LEMMA ContentsType ==
    ASSUME NEW S, NEW rows \in Seq(Rows(S))
    PROVE  /\ Contents(rows) \in Seq(S)
           /\ Len(Contents(rows)) = Len(rows)
           /\ \A i \in 1 .. Len(rows) : Contents(rows)[i] = rows[i].content
<1>1. DOMAIN rows = 1 .. Len(rows) /\ Len(rows) \in Nat
  BY LenProperties
<1>2. \A i \in 1 .. Len(rows) : rows[i].content \in S
  <2>1. \A i \in 1 .. Len(rows) : rows[i] \in Rows(S)
    BY ElementOfSeq
  <2> QED
    BY <2>1 DEF Rows
<1>3. Contents(rows) \in [1 .. Len(rows) -> S]
  BY <1>1, <1>2 DEF Contents
<1>4. Contents(rows) \in Seq(S)
  BY <1>1, <1>3, SeqDef
<1> QED
  BY <1>1, <1>3, <1>4, LenProperties DEF Contents

\* Storing one more row records one more content.
LEMMA ContentsAppend ==
    ASSUME NEW S, NEW rows \in Seq(Rows(S)), NEW r \in Rows(S)
    PROVE  Contents(Append(rows, r)) = Append(Contents(rows), r.content)
<1> DEFINE rr == Append(rows, r)
<1>1. /\ rr \in Seq(Rows(S)) /\ Len(rr) = Len(rows) + 1
      /\ rr[Len(rows) + 1] = r
      /\ \A i \in 1 .. Len(rows) : rr[i] = rows[i]
  BY AppendProperties
<1>2. /\ Contents(rows) \in Seq(S) /\ Len(Contents(rows)) = Len(rows)
      /\ \A i \in 1 .. Len(rows) : Contents(rows)[i] = rows[i].content
  BY ContentsType
<1>3. /\ Contents(rr) \in Seq(S) /\ Len(Contents(rr)) = Len(rows) + 1
      /\ \A i \in 1 .. Len(rows) + 1 : Contents(rr)[i] = rr[i].content
  BY <1>1, ContentsType
<1>4. r.content \in S
  BY DEF Rows
<1> DEFINE cc == Append(Contents(rows), r.content)
<1>5. /\ cc \in Seq(S) /\ Len(cc) = Len(rows) + 1
      /\ cc[Len(rows) + 1] = r.content
      /\ \A i \in 1 .. Len(rows) : cc[i] = rows[i].content
  BY <1>2, <1>4, AppendProperties
<1>6. Len(rows) \in Nat
  BY LenProperties
<1>7. \A i \in 1 .. Len(rows) + 1 : Contents(rr)[i] = cc[i]
  BY <1>1, <1>3, <1>5, <1>6
<1> HIDE DEF rr, cc
<1> QED
  BY <1>3, <1>5, <1>7, SeqEqual DEF rr, cc

\* A chain that verifies still does when a writer that chained to its tail adds
\* a row, and the hash the writer then holds is the tail of the longer chain.
LEMMA VerifyAppend ==
    ASSUME NEW S, NEW rows \in Seq(Rows(S)), NEW c \in S,
           TailHash(rows) \in Seq(S), VerifyChain(rows)
    PROVE  /\ VerifyChain(Append(rows, Row(c, TailHash(rows))))
           /\ TailHash(Append(rows, Row(c, TailHash(rows)))) = Hash(c, TailHash(rows))
<1> DEFINE r == Row(c, TailHash(rows))
           rr == Append(rows, r)
<1>1. r \in Rows(S) /\ r.content = c /\ r.entry_hash = Hash(c, TailHash(rows))
  BY RowType
<1> HIDE DEF r
<1>2. /\ rr \in Seq(Rows(S)) /\ Len(rr) = Len(rows) + 1
      /\ rr[Len(rows) + 1] = r
      /\ \A i \in 1 .. Len(rows) : rr[i] = rows[i]
  BY <1>1, AppendProperties
<1>3. Len(rows) \in Nat /\ DOMAIN rows = 1 .. Len(rows) /\ DOMAIN rr = 1 .. Len(rows) + 1
  BY <1>2, LenProperties
<1> HIDE DEF rr
<1>4. \A i \in 1 .. Len(rows) + 1 : PrevHash(rr, i) = PrevHash(rows, i)
  BY <1>2, <1>3 DEF PrevHash
<1>5. VerifyChain(rr)
  BY <1>1, <1>2, <1>3, <1>4 DEF VerifyChain, TailHash
<1>6. TailHash(rr) = Hash(c, TailHash(rows))
  BY <1>1, <1>2, <1>3 DEF TailHash, PrevHash
<1> QED
  BY <1>5, <1>6 DEF rr, r

\* What is stored before a crash or between two flushes verifies by itself.
LEMMA VerifyPrefix ==
    ASSUME NEW S, NEW a \in Seq(Rows(S)), NEW b \in Seq(Rows(S)), VerifyChain(a \o b)
    PROVE  VerifyChain(a)
<1>1. /\ Len(a) \in Nat /\ DOMAIN a = 1 .. Len(a) /\ Len(b) \in Nat
      /\ a \o b \in Seq(Rows(S)) /\ Len(a \o b) = Len(a) + Len(b)
      /\ \A i \in 1 .. Len(a) : (a \o b)[i] = a[i]
  BY ConcatProperties, LenProperties
<1>2. DOMAIN (a \o b) = 1 .. Len(a) + Len(b)
  BY <1>1, LenProperties
<1>3. \A i \in 1 .. Len(a) : PrevHash(a \o b, i) = PrevHash(a, i)
  BY <1>1 DEF PrevHash
<1> QED
  BY <1>1, <1>2, <1>3 DEF VerifyChain

\* The contents of a stored prefix are a prefix of the contents.
LEMMA ContentsPrefix ==
    ASSUME NEW S, NEW a \in Seq(Rows(S)), NEW b \in Seq(Rows(S))
    PROVE  /\ Contents(a) = SubSeq(Contents(a \o b), 1, Len(a))
           /\ Len(a) \in 0 .. Len(Contents(a \o b))
<1> DEFINE ab == a \o b
<1>1. /\ Len(a) \in Nat /\ Len(b) \in Nat
      /\ ab \in Seq(Rows(S)) /\ Len(ab) = Len(a) + Len(b)
      /\ \A i \in 1 .. Len(a) : ab[i] = a[i]
  BY ConcatProperties, LenProperties
<1> HIDE DEF ab
<1>2. /\ Contents(ab) \in Seq(S) /\ Len(Contents(ab)) = Len(a) + Len(b)
      /\ \A i \in 1 .. Len(a) : Contents(ab)[i] = a[i].content
  <2>1. /\ Contents(ab) \in Seq(S) /\ Len(Contents(ab)) = Len(ab)
        /\ \A i \in 1 .. Len(ab) : Contents(ab)[i] = ab[i].content
    BY <1>1, ContentsType
  <2> QED
    BY <1>1, <2>1
<1>3. \A i \in 1 .. Len(a) : Contents(ab)[i] \in S
  BY <1>1, <1>2, ElementOfSeq
<1> DEFINE p == SubSeq(Contents(ab), 1, Len(a))
<1>4. /\ p \in Seq(S) /\ Len(p) = Len(a)
      /\ \A i \in 1 .. Len(a) : p[i] = Contents(ab)[i]
  BY <1>1, <1>3, SubSeqProperties
<1> HIDE DEF p
<1>5. /\ Contents(a) \in Seq(S) /\ Len(Contents(a)) = Len(a)
      /\ \A i \in 1 .. Len(a) : Contents(a)[i] = a[i].content
  BY ContentsType
<1>6. Contents(a) = p
  BY <1>2, <1>4, <1>5, SeqEqual
<1> QED
  BY <1>1, <1>2, <1>6 DEF p, ab

------------------------------------------------------------------------------

\* Every nonempty set of positions has a first one.  The induction over rows
\* below is a search for the first row that breaks the claim.  (Strict inclusion
\* of the intervals 1..k is well founded, so one of them is minimal.)
LEMMA FirstPosition ==
    ASSUME NEW n \in Nat, NEW B \in SUBSET (1 .. n), B # {}
    PROVE  \E m \in B : \A k \in B : m <= k
<1> DEFINE S == 1 .. n
           T == {1 .. k : k \in B}
<1>1. IsFiniteSet(S)
  BY FS_Interval
<1>2. IsWellFoundedOn(StrictSubsetOrdering(S), FiniteSubsetsOf(S))
  BY FS_StrictSubsetOrderingWellFounded
<1>3. FiniteSubsetsOf(S) = SUBSET S
  BY <1>1, FS_FiniteSubsetsOfFinite
<1>4. T \subseteq SUBSET S /\ T # {}
  <2>1. ASSUME NEW k \in B
        PROVE  1 .. k \in SUBSET S
    OBVIOUS
  <2>2. PICK b \in B : TRUE
    OBVIOUS
  <2>3. 1 .. b \in T
    OBVIOUS
  <2> QED
    BY <2>1, <2>3
<1> HIDE DEF S, T
<1>5. PICK I \in T : \A J \in T : ~ (<<J, I>> \in StrictSubsetOrdering(S))
  BY <1>2, <1>3, <1>4, WFMin
<1>6. PICK m \in B : I = 1 .. m
  BY DEF T
<1>7. ASSUME NEW k \in B, k < m
      PROVE  FALSE
  <2>1. 1 .. k \in T
    BY DEF T
  <2>2. 1 .. k \subseteq I /\ m \in I /\ m \notin 1 .. k
    BY <1>6, <1>7
  <2>3. <<1 .. k, I>> \in StrictSubsetOrdering(S)
    BY <1>4, <2>1, <2>2 DEF StrictSubsetOrdering
  <2> QED
    BY <1>5, <2>1, <2>3
<1> QED
  BY <1>7

\* A verifying chain carries its whole history: the hash of every row is the
\* hash of the contents up to and including that row.
LEMMA VerifiedHashes ==
    ASSUME NEW S, NEW rows \in Seq(Rows(S)), VerifyChain(rows)
    PROVE  \A i \in 1 .. Len(rows) : rows[i].entry_hash = SubSeq(Contents(rows), 1, i)
<1> DEFINE C == Contents(rows)
           Bad == {i \in 1 .. Len(rows) : rows[i].entry_hash # SubSeq(C, 1, i)}
<1>1. /\ Len(rows) \in Nat /\ DOMAIN rows = 1 .. Len(rows)
      /\ C \in Seq(S) /\ Len(C) = Len(rows)
      /\ \A i \in 1 .. Len(rows) : C[i] = rows[i].content
  BY LenProperties, ContentsType
<1>2. ASSUME Bad # {}
      PROVE  FALSE
  <2>1. PICK m \in Bad : \A k \in Bad : m <= k
    <3>1. Bad \in SUBSET (1 .. Len(rows))
      OBVIOUS
    <3> HIDE DEF Bad
    <3> QED
      BY <1>1, <1>2, <3>1, FirstPosition
  <2>2. m \in 1 .. Len(rows) /\ rows[m].entry_hash = Append(PrevHash(rows, m), C[m])
    BY <1>1 DEF VerifyChain, Hash
  <2> HIDE DEF C
  <2>3. SubSeq(C, 1, m) = SubSeq(C, 1, m - 1) \o <<C[m]>>
    BY <1>1, <2>2, SubSeqRecursiveSecond
  <2>4. C[m] \in S
    BY <1>1, <2>2, ElementOfSeq
  <2>5. SubSeq(C, 1, m - 1) \in Seq(S)
    <3>1. \A i \in 1 .. m - 1 : C[i] \in S
      BY <1>1, <2>2, ElementOfSeq
    <3> QED
      BY <1>1, <2>2, <3>1, SubSeqProperties
  <2>6. SubSeq(C, 1, m) = Append(SubSeq(C, 1, m - 1), C[m])
    BY <2>3, <2>4, <2>5, AppendIsConcat
  <2>7. PrevHash(rows, m) = SubSeq(C, 1, m - 1)
    <3>1. CASE m = 1
      BY <3>1, SubSeqEmpty DEF PrevHash, Genesis
    <3>2. CASE m # 1
      <4>1. m - 1 \in 1 .. Len(rows) /\ m - 1 \notin Bad
        BY <1>1, <2>1, <2>2, <3>2
      <4> QED
        BY <3>2, <4>1 DEF PrevHash
    <3> QED
      BY <3>1, <3>2
  <2> QED
    BY <2>2, <2>6, <2>7
<1> QED
  BY <1>2

\* Tamper evidence: two verifying chains whose last hashes
\* agree record the same contents, so no hashed column of any row can differ.
THEOREM SameTailSameContents ==
    ASSUME NEW S, NEW a \in Seq(Rows(S)), NEW b \in Seq(Rows(S)),
           VerifyChain(a), VerifyChain(b), TailHash(a) = TailHash(b)
    PROVE  Contents(a) = Contents(b)
<1>1. ASSUME NEW r \in Seq(Rows(S)), VerifyChain(r)
      PROVE  TailHash(r) = Contents(r)
  <2>1. Len(r) \in Nat /\ Contents(r) \in Seq(S) /\ Len(Contents(r)) = Len(r)
    BY LenProperties, ContentsType
  <2>2. CASE Len(r) = 0
    <3>1. Contents(r) = << >>
      BY <2>1, <2>2, EmptySeq
    <3> QED
      BY <2>2, <3>1 DEF TailHash, PrevHash, Genesis
  <2>3. CASE Len(r) # 0
    <3>1. r[Len(r)].entry_hash = SubSeq(Contents(r), 1, Len(r))
      BY <1>1, <2>1, <2>3, VerifiedHashes
    <3>2. SubSeq(Contents(r), 1, Len(r)) = Contents(r)
      BY <2>1, SubSeqFull
    <3> QED
      BY <2>1, <2>3, <3>1, <3>2 DEF TailHash, PrevHash
  <2> QED
    BY <2>2, <2>3
<1> QED
  BY <1>1

\* h is the hash of the first entries of w.
Begins(h, w) == Len(h) <= Len(w) /\ h = SubSeq(w, 1, Len(h))

\* A beginning of a list stays one when the list grows.
LEMMA BeginningStays ==
    ASSUME NEW S, NEW w \in Seq(S), NEW e \in S, NEW n \in 0 .. Len(w)
    PROVE  SubSeq(Append(w, e), 1, n) = SubSeq(w, 1, n)
<1> DEFINE long == Append(w, e)
<1>1. /\ Len(w) \in Nat /\ long \in Seq(S) /\ Len(long) = Len(w) + 1
      /\ \A i \in 1 .. Len(w) : long[i] = w[i]
  BY AppendProperties, LenProperties
<1> HIDE DEF long
<1>2. \A i \in 1 .. n : w[i] \in S /\ long[i] = w[i]
  BY <1>1, ElementOfSeq
<1>3. /\ SubSeq(w, 1, n) \in Seq(S) /\ Len(SubSeq(w, 1, n)) = n
      /\ \A i \in 1 .. n : SubSeq(w, 1, n)[i] = w[i]
  BY <1>1, <1>2, SubSeqProperties
<1>4. /\ SubSeq(long, 1, n) \in Seq(S) /\ Len(SubSeq(long, 1, n)) = n
      /\ \A i \in 1 .. n : SubSeq(long, 1, n)[i] = long[i]
  BY <1>1, <1>2, SubSeqProperties
<1>5. SubSeq(long, 1, n) = SubSeq(w, 1, n)
  BY <1>2, <1>3, <1>4, SeqEqual
<1> QED
  BY <1>5 DEF long

\* A hash stays the hash of a beginning when more is written.
LEMMA BeginsLonger ==
    ASSUME NEW S, NEW w \in Seq(S), NEW e \in S, NEW h \in Seq(S)
    PROVE  /\ Begins(w, w)
           /\ Begins(h, w) => Begins(h, Append(w, e))
           /\ Begins(Append(w, e), Append(w, e))
<1> DEFINE long == Append(w, e)
<1>1. /\ Len(w) \in Nat /\ Len(h) \in Nat /\ long \in Seq(S) /\ Len(long) = Len(w) + 1
  BY AppendProperties, LenProperties
<1>2. ASSUME NEW n \in 0 .. Len(w)
      PROVE  SubSeq(long, 1, n) = SubSeq(w, 1, n)
  BY BeginningStays
<1> HIDE DEF long
<1>3. SubSeq(w, 1, Len(w)) = w /\ SubSeq(long, 1, Len(long)) = long
  BY <1>1, SubSeqFull
<1> QED
  BY <1>1, <1>2, <1>3 DEF Begins, long

\* Loss evidence: if the last row's hash is the hash of a prefix of what was
\* written, a table that verifies records exactly that prefix.
LEMMA VerifiedPrefix ==
    ASSUME NEW S, NEW w \in Seq(S), NEW rows \in Seq(Rows(S)), VerifyChain(rows),
           Len(rows) # 0 =>
               /\ Len(rows[Len(rows)].entry_hash) <= Len(w)
               /\ rows[Len(rows)].entry_hash =
                      SubSeq(w, 1, Len(rows[Len(rows)].entry_hash))
    PROVE  /\ Len(rows) <= Len(w)
           /\ Contents(rows) = SubSeq(w, 1, Len(rows))
<1>1. /\ Len(rows) \in Nat /\ Len(w) \in Nat
      /\ Contents(rows) \in Seq(S) /\ Len(Contents(rows)) = Len(rows)
  BY LenProperties, ContentsType
<1>2. CASE Len(rows) = 0
  <2>1. Contents(rows) = << >> /\ SubSeq(w, 1, 0) = << >>
    BY <1>1, <1>2, EmptySeq, SubSeqEmpty
  <2> QED
    BY <1>1, <1>2, <2>1
<1>3. CASE Len(rows) # 0
  <2>1. rows[Len(rows)].entry_hash = SubSeq(Contents(rows), 1, Len(rows))
    BY <1>1, <1>3, VerifiedHashes
  <2>2. SubSeq(Contents(rows), 1, Len(rows)) = Contents(rows)
    BY <1>1, SubSeqFull
  <2> DEFINE last == rows[Len(rows)].entry_hash
  <2>3. /\ last = Contents(rows) /\ Len(last) = Len(rows)
        /\ Len(last) <= Len(w) /\ last = SubSeq(w, 1, Len(last))
    BY <1>1, <1>3, <2>1, <2>2
  <2> QED
    BY <2>3
<1> QED
  BY <1>2, <1>3
==============================================================================
