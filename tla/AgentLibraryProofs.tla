-------------------------- MODULE AgentLibraryProofs --------------------------
(***************************************************************************)
(* Theorems about AgentLibrary: files of any length and targets of any     *)
(* size, any number of agents, files, spellings and edits, and any table   *)
(* of types.                                                               *)
(***************************************************************************)
EXTENDS AgentLibrary, FiniteSetTheorems, SequenceTheorems, TLAPS

\* The three parts begin in their own first states, and a step is one of each or leaves
\* it as it is.
LEMMA PartsBegin ==
    Init => ToolsInit /\ Call /\ cutting \in BOOLEAN /\ ClassifyCall
            /\ gathering \in BOOLEAN /\ (gathering \/ repo = {})
BY DEF Init, ToolsIdle, ChunkerIdle, ClassifierIdle

LEMMA PartsStep ==
    [Next]_vars => [ToolsStep]_writeVars /\ [ChunkStep]_chunkVars /\ [ClassifyStep]_repoVars
BY DEF Next, vars

-------------------------------------------------------------------------------
(***************************************************************************)
(* The chunker.  A chunk that is closed at a boundary hands over to the    *)
(* next one there, so what has to be remembered of the past is where the   *)
(* last chunk began and at which boundary it was closed.                   *)
(***************************************************************************)

\* The boundaries ascend, and lie among the lines that were scanned.
BoundariesAscend ==
    /\ Len(boundaries) <= scanned
    /\ \A i \in 1 .. Len(boundaries) : boundaries[i] < scanned
    /\ \A i, j \in 1 .. Len(boundaries) : i < j => boundaries[i] < boundaries[j]

Newest == chunks[Len(chunks)]

\* A chunk begins after its predecessor began and no later than it ended, and goes on
\* after its end.
Follows(next, prev) ==
    /\ prev.start_line < next.start_line
    /\ next.start_line <= prev.end_line + 1
    /\ next.end_line > prev.end_line

CutsAtDefinitions(chunk) ==
    boundaries # << >> =>
        /\ chunk.start_line = 1 \/ IsBoundary(chunk.start_line - 1)
        /\ chunk.end_line = total \/ IsBoundary(chunk.end_line)

\* The chunks made so far lose no line and repeat no chunk.
ChunksLaid ==
    /\ chunks # << >> => chunks[1].start_line = 1
    /\ \A k \in 2 .. Len(chunks) : Follows(chunks[k], chunks[k - 1])
    /\ \A k \in 1 .. Len(chunks) : CutsAtDefinitions(chunks[k])

\* The newest chunk was closed at boundary m; only at the last one may it be empty.
ClosedAt(m) ==
    /\ chunk_start = boundaries[m] /\ Newest.end_line = EndOf(m)
    /\ m < Len(boundaries) => Newest.start_line <= chunk_start
    /\ at = Len(boundaries) => m = Len(boundaries)

\* What the loops rely on.
LoopInv ==
    IF ~Scanned THEN chunks = << >> /\ at = 0 /\ chunk_start = 0
    ELSE IF boundaries = << >>
         THEN at <= total
              /\ IF chunks = << >> THEN at = 0
                 ELSE Newest.end_line = at /\ Newest.start_line <= at
         ELSE at <= Len(boundaries)
              /\ IF chunks = << >> THEN chunk_start = 0 /\ at < Len(boundaries)
                 ELSE \E m \in 1 .. at : ClosedAt(m)

ChunkInv ==
    /\ ChunkTypeOK /\ BoundariesAscend /\ ChunksLaid
    /\ IF cutting THEN LoopInv ELSE chunks # << >> => Newest.end_line = total

LEMMA ChunksBegin == ASSUME Call, cutting \in BOOLEAN PROVE ChunkInv
<1>1. Len(<< >>) = 0 /\ << >> \in Seq(Chunks) /\ << >> \in Seq(0 .. total - 1)
  BY EmptySeq
<1>2. ChunkTypeOK
  BY <1>1, ChunkerAssumption DEF Call, ChunkTypeOK
<1>3. BoundariesAscend /\ ChunksLaid
  BY <1>1 DEF Call, BoundariesAscend, ChunksLaid
<1>4. LoopInv /\ chunks = << >>
  BY <1>2, ChunkerAssumption DEF Call, LoopInv, Scanned, ChunkTypeOK
<1> QED
  BY <1>2, <1>3, <1>4 DEF ChunkInv

\* One more chunk, in its place.
LEMMA ChunkAdded ==
    ASSUME ChunkTypeOK, ChunksLaid, NEW chunk \in Chunks,
           chunks' = Append(chunks, chunk), boundaries' = boundaries, total' = total,
           IF chunks = << >> THEN chunk.start_line = 1 ELSE Follows(chunk, Newest),
           CutsAtDefinitions(chunk)
    PROVE  /\ ChunksLaid' /\ chunks' \in Seq(Chunks)
           /\ chunks' # << >> /\ Newest' = chunk
<1> DEFINE n == Len(chunks)
<1>1. n \in Nat /\ chunks \in Seq(Chunks) /\ (chunks = << >> <=> n = 0)
  BY LenProperties, EmptySeq DEF ChunkTypeOK
<1>2. /\ chunks' \in Seq(Chunks) /\ Len(chunks') = n + 1 /\ chunks'[n + 1] = chunk
      /\ \A k \in 1 .. n : chunks'[k] = chunks[k]
  BY <1>1, AppendProperties
<1>3. chunks' # << >> /\ Newest' = chunk
  BY <1>1, <1>2, EmptySeq DEF Newest
<1>4. chunks'[1].start_line = 1
  BY <1>1, <1>2 DEF ChunksLaid
<1>5. ASSUME NEW k \in 2 .. n + 1 PROVE Follows(chunks'[k], chunks'[k - 1])
  <2>1. CASE k <= n
    BY <1>1, <1>2, <2>1 DEF ChunksLaid
  <2>2. CASE k = n + 1
    BY <1>1, <1>2, <2>2 DEF Newest
  <2> QED
    BY <1>1, <2>1, <2>2
<1>6. ASSUME NEW k \in 1 .. n + 1 PROVE CutsAtDefinitions(chunks'[k])
  <2>1. CASE k <= n
    BY <1>1, <1>2, <2>1 DEF ChunksLaid
  <2>2. CASE k = n + 1
    BY <1>1, <1>2, <2>2
  <2> QED
    BY <1>1, <2>1, <2>2
<1>7. \A c : CutsAtDefinitions(c) => CutsAtDefinitions(c)'
  BY DEF CutsAtDefinitions, IsBoundary
<1>8. ChunksLaid'
  BY <1>2, <1>4, <1>5, <1>6, <1>7 DEF ChunksLaid, Follows, CutsAtDefinitions, IsBoundary
<1> QED
  BY <1>2, <1>3, <1>8

LEMMA ChunkType ==
    ASSUME ChunkTypeOK, NEW start \in 0 .. total - 1, NEW end \in 0 .. total
    PROVE  /\ Chunk(start, end) \in Chunks
           /\ Chunk(start, end).start_line = start + 1 /\ Chunk(start, end).end_line = end
<1>1. start \in Int /\ end \in Int /\ total \in 1 .. MaxTotal /\ 0 <= start /\ start < total
  BY ChunkerAssumption DEF ChunkTypeOK
<1>2. start + 1 \in 1 .. MaxTotal /\ end \in 0 .. MaxTotal
  BY <1>1, ChunkerAssumption
<1>3. (IF start > OVERLAP_LINES THEN start - OVERLAP_LINES ELSE 0) + 1 \in 1 .. MaxTotal
  BY <1>1, ChunkerAssumption
<1> QED
  BY <1>2, <1>3 DEF Chunk, Chunks

LEMMA WholeStep == ASSUME ChunkInv, ReturnWhole PROVE ChunkInv'
<1> DEFINE whole == [start_line |-> 1, end_line |-> total, from |-> 1]
<1> USE DEF ReturnWhole, Done, fileVars, scanVars
<1>1. ChunkTypeOK /\ BoundariesAscend /\ LoopInv /\ chunks = << >> /\ chunks' = <<whole>>
  BY DEF ChunkInv, LoopInv, Scanned
<1>2. whole \in Chunks
  BY <1>1, ChunkerAssumption DEF ChunkTypeOK, Chunks
<1>3. Len(chunks') = 1 /\ chunks'[1] = whole /\ chunks' \in Seq(Chunks)
  BY <1>1, <1>2
<1>4. ChunkTypeOK' /\ BoundariesAscend'
  BY <1>1, <1>3 DEF ChunkTypeOK, BoundariesAscend
<1>5. ChunksLaid'
  BY <1>3 DEF ChunksLaid, CutsAtDefinitions
<1>6. Newest'.end_line = total
  BY <1>3 DEF Newest
<1> QED
  BY <1>4, <1>5, <1>6 DEF ChunkInv

LEMMA ScanStep == ASSUME ChunkInv, Scan PROVE ChunkInv'
<1> USE DEF Scan, fileVars
<1>1. /\ ChunkTypeOK /\ BoundariesAscend /\ chunks = << >> /\ at = 0 /\ chunk_start = 0
      /\ total \in Nat /\ scanned \in Nat /\ scanned < total
  BY ChunkerAssumption DEF ChunkInv, LoopInv, Scanned, ChunkTypeOK
<1>2. scanned \in 0 .. total - 1 /\ boundaries \in Seq(0 .. total - 1) /\ Len(boundaries) \in Nat
  BY <1>1, LenProperties DEF ChunkTypeOK
<1>3. CASE boundaries' = boundaries
  <2>1. ChunkTypeOK' /\ BoundariesAscend'
    BY <1>1, <1>2, <1>3 DEF ChunkTypeOK, BoundariesAscend
  <2> QED
    BY <1>1, <1>2, <1>3, <2>1, LenProperties, EmptySeq
       DEF ChunkInv, ChunksLaid, LoopInv, Scanned, needs_chunking
<1>4. CASE boundaries' = Append(boundaries, scanned)
  <2>1. /\ boundaries' \in Seq(0 .. total - 1) /\ Len(boundaries') = Len(boundaries) + 1
        /\ boundaries'[Len(boundaries) + 1] = scanned
        /\ \A i \in 1 .. Len(boundaries) : boundaries'[i] = boundaries[i]
    BY <1>2, <1>4, AppendProperties
  <2>2. \A i \in 1 .. Len(boundaries) : boundaries[i] \in Int /\ boundaries[i] < scanned
    BY <1>1, <1>2 DEF BoundariesAscend
  <2>3. BoundariesAscend'
    <3>1. Len(boundaries') <= scanned'
      BY <1>1, <1>2, <2>1 DEF BoundariesAscend
    <3>2. \A i \in 1 .. Len(boundaries') : i \in 1 .. Len(boundaries) \/ i = Len(boundaries) + 1
      BY <1>2, <2>1
    <3>3. \A i \in 1 .. Len(boundaries') : boundaries'[i] < scanned'
      BY <1>1, <2>1, <2>2, <3>2
    <3>4. ASSUME NEW i \in 1 .. Len(boundaries'), NEW j \in 1 .. Len(boundaries'), i < j
          PROVE  boundaries'[i] < boundaries'[j]
      <4>1. i \in 1 .. Len(boundaries)
        BY <1>2, <2>1, <3>4
      <4> QED
        BY <1>1, <2>1, <2>2, <3>2, <3>4, <4>1 DEF BoundariesAscend
    <3> QED
      BY <3>1, <3>3, <3>4 DEF BoundariesAscend
  <2>4. ChunkTypeOK' /\ boundaries' # << >>
    BY <1>1, <1>2, <2>1, EmptySeq DEF ChunkTypeOK
  <2> QED
    BY <1>1, <1>2, <2>1, <2>3, <2>4, EmptySeq
       DEF ChunkInv, ChunksLaid, LoopInv, Scanned, needs_chunking
<1> QED
  BY <1>3, <1>4

LEMMA FixedSizeStep == ASSUME ChunkInv, FixedSize PROVE ChunkInv'
<1> DEFINE end == IF at + target < total THEN at + target ELSE total
<1> USE DEF fileVars, scanVars
<1>1. /\ ChunkTypeOK /\ BoundariesAscend /\ ChunksLaid /\ boundaries = << >> /\ Scanned /\ cutting
      /\ UNCHANGED <<fileVars, scanVars, chunk_start>>
  BY DEF ChunkInv, FixedSize
<1>2. /\ at \in Nat /\ total \in Nat /\ total >= 1 /\ at <= total /\ target \in Nat /\ target >= 1
      /\ IF chunks = << >> THEN at = 0 ELSE Newest.end_line = at /\ Newest.start_line <= at
  BY <1>1, ChunkerAssumption DEF ChunkInv, LoopInv, ChunkTypeOK
<1>3. CASE at < total
  <2>1. chunks' = Append(chunks, Chunk(at, end)) /\ at' = end /\ cutting' = cutting
    BY <1>3 DEF FixedSize
  <2>2. at \in 0 .. total - 1 /\ end \in 0 .. total /\ at < end
    BY <1>2, <1>3
  <2> HIDE DEF end
  <2> DEFINE chunk == Chunk(at, end)
  <2>3. chunk \in Chunks /\ chunk.start_line = at + 1 /\ chunk.end_line = end
    BY <1>1, <2>2, ChunkType
  <2> HIDE DEF chunk
  <2>4. IF chunks = << >> THEN chunk.start_line = 1 ELSE Follows(chunk, Newest)
    <3>1. CASE chunks # << >>
      <4>1. Newest \in Chunks
        BY <1>1, <3>1, EmptySeq, LenProperties DEF Newest, ChunkTypeOK
      <4> QED
        BY <1>2, <2>2, <2>3, <3>1, <4>1 DEF Follows, Chunks
    <3> QED
      BY <1>2, <2>3, <3>1
  <2>5. ChunksLaid' /\ chunks' \in Seq(Chunks) /\ chunks' # << >> /\ Newest' = chunk
    <3>1. chunks' = Append(chunks, chunk)
      BY <2>1 DEF chunk
    <3>2. CutsAtDefinitions(chunk)
      BY <1>1 DEF CutsAtDefinitions
    <3> QED
      BY <1>1, <2>3, <2>4, <3>1, <3>2, ChunkAdded
  <2>6. ChunkTypeOK' /\ BoundariesAscend'
    BY <1>1, <2>1, <2>2, <2>5, ChunkerAssumption DEF ChunkTypeOK, BoundariesAscend
  <2>7. LoopInv' /\ cutting'
    BY <1>1, <1>2, <2>1, <2>2, <2>3, <2>5 DEF LoopInv, Scanned, needs_chunking
  <2> QED
    BY <2>5, <2>6, <2>7 DEF ChunkInv
<1>4. CASE ~(at < total)
  <2>1. chunks' = chunks /\ at' = at /\ cutting' = FALSE
    BY <1>4 DEF FixedSize, Done
  <2>2. chunks # << >> /\ Newest.end_line = total
    BY <1>2, <1>4
  <2>3. ChunkTypeOK' /\ BoundariesAscend' /\ ChunksLaid' /\ Newest' = Newest
    BY <1>1, <2>1 DEF ChunkTypeOK, BoundariesAscend, ChunksLaid, CutsAtDefinitions, IsBoundary, Newest
  <2> QED
    BY <1>1, <2>1, <2>2, <2>3 DEF ChunkInv
<1> QED
  BY <1>3, <1>4

\* Where a chunk closed at boundary i ends.
LEMMA EndOfType ==
    ASSUME ChunkTypeOK, BoundariesAscend, Scanned, NEW i \in 1 .. Len(boundaries)
    PROVE  /\ boundaries[i] \in 0 .. total - 1 /\ EndOf(i) \in 0 .. total
           /\ boundaries[i] < EndOf(i) /\ (EndOf(i) = total \/ IsBoundary(EndOf(i)))
           /\ \A m \in 1 .. i - 1 : EndOf(m) <= boundaries[i]
<1>1. /\ boundaries \in Seq(0 .. total - 1) /\ Len(boundaries) \in Nat /\ total \in Nat
      /\ DOMAIN boundaries = 1 .. Len(boundaries)
      /\ \A j \in 1 .. Len(boundaries) : boundaries[j] \in 0 .. total - 1
  BY ChunkerAssumption, LenProperties DEF ChunkTypeOK
<1>2. \A j \in 1 .. Len(boundaries) : EndOf(j) = IF j < Len(boundaries) THEN boundaries[j + 1] ELSE total
  BY DEF EndOf
<1>3. ASSUME NEW m \in 1 .. i - 1 PROVE EndOf(m) <= boundaries[i]
  <2>1. /\ m \in 1 .. Len(boundaries) /\ m < Len(boundaries)
        /\ m + 1 \in 1 .. Len(boundaries) /\ (m + 1 = i \/ m + 1 < i)
    BY <1>1
  <2>2. EndOf(m) = boundaries[m + 1]
    BY <1>2, <2>1
  <2>3. boundaries[m + 1] \in Int /\ boundaries[i] \in Int
    BY <1>1, <2>1
  <2>4. m + 1 < i => boundaries[m + 1] < boundaries[i]
    BY <2>1 DEF BoundariesAscend
  <2> QED
    BY <2>1, <2>2, <2>3, <2>4
<1>4. /\ EndOf(i) \in 0 .. total /\ boundaries[i] < EndOf(i)
      /\ EndOf(i) = total \/ IsBoundary(EndOf(i))
  <2>1. CASE i < Len(boundaries)
    <3>1. i + 1 \in 1 .. Len(boundaries) /\ i < i + 1
      BY <1>1, <2>1
    <3>2. EndOf(i) = boundaries[i + 1] /\ boundaries[i + 1] \in 0 .. total - 1
      BY <1>1, <1>2, <2>1, <3>1
    <3>3. boundaries[i] < boundaries[i + 1]
      BY <3>1 DEF BoundariesAscend
    <3>4. IsBoundary(boundaries[i + 1])
      BY <1>1, <3>1 DEF IsBoundary
    <3> QED
      BY <1>1, <3>2, <3>3, <3>4
  <2>2. CASE ~(i < Len(boundaries))
    <3>1. EndOf(i) = total /\ boundaries[i] \in 0 .. total - 1
      BY <1>1, <1>2, <2>2
    <3> QED
      BY <1>1, <3>1
  <2> QED
    BY <2>1, <2>2
<1> QED
  BY <1>1, <1>3, <1>4

LEMMA VisitStep == ASSUME ChunkInv, Visit PROVE ChunkInv'
<1> PICK i : i = at + 1
  OBVIOUS
<1> DEFINE chunk == Chunk(chunk_start, EndOf(i))
<1> USE DEF fileVars, scanVars
<1>1. /\ ChunkTypeOK /\ BoundariesAscend /\ ChunksLaid /\ LoopInv /\ Scanned /\ cutting
      /\ boundaries # << >> /\ at < Len(boundaries) /\ at' = i
      /\ UNCHANGED <<fileVars, scanVars, cutting>>
  BY EmptySeq DEF ChunkInv, Visit, ChunkTypeOK
<1>2. /\ at \in Nat /\ Len(boundaries) \in Nat /\ total \in Nat /\ target \in Nat /\ target >= 1
      /\ chunk_start \in 0 .. total /\ scanned = total /\ Len(boundaries) <= total /\ total <= MaxTotal
      /\ DOMAIN boundaries = 1 .. Len(boundaries)
  BY <1>1, ChunkerAssumption, LenProperties DEF ChunkTypeOK, Scanned, BoundariesAscend
<1>3. i \in 1 .. Len(boundaries) /\ at' \in 0 .. MaxTotal /\ at' <= Len(boundaries)
  <2>1. at \in Nat /\ i = at + 1 /\ at' = i /\ at < Len(boundaries)
    BY <1>1, <1>2
  <2>2. Len(boundaries) \in Nat /\ MaxTotal \in Nat /\ Len(boundaries) <= MaxTotal
    BY <1>2, ChunkerAssumption
  <2> QED
    BY <2>1, <2>2
<1>4. chunks # << >> => \E m \in 1 .. at : ClosedAt(m)
  BY <1>1 DEF LoopInv
<1>5. chunk_start = 0 \/ \E m \in 1 .. Len(boundaries) : chunk_start = boundaries[m]
  <2>1. \A m \in 1 .. at : m \in 1 .. Len(boundaries)
    BY <1>1, <1>2
  <2>2. chunks = << >> => chunk_start = 0
    BY <1>1 DEF LoopInv
  <2> QED
    BY <1>4, <2>1, <2>2 DEF ClosedAt
<1>6. BoundariesAscend' /\ \A m \in 1 .. Len(boundaries) : EndOf(m)' = EndOf(m)
  BY <1>1 DEF BoundariesAscend, EndOf
<1>7. CASE boundaries[i] - chunk_start >= target \/ i = Len(boundaries)
  <2>1. chunks' = Append(chunks, chunk) /\ chunk_start' = boundaries[i]
    BY <1>7 DEF Visit
  <2>2. /\ boundaries[i] \in 0 .. total - 1 /\ EndOf(i) \in 0 .. total
        /\ boundaries[i] < EndOf(i) /\ (EndOf(i) = total \/ IsBoundary(EndOf(i)))
        /\ \A m \in 1 .. i - 1 : EndOf(m) <= boundaries[i]
    BY <1>1, <1>3, EndOfType
  <2>3. chunk_start \in 0 .. total - 1
    BY <1>1, <1>2, <1>5, <2>2, EndOfType
  <2>4. chunk \in Chunks /\ chunk.start_line = chunk_start + 1 /\ chunk.end_line = EndOf(i)
    BY <1>1, <2>2, <2>3, ChunkType
  <2> HIDE DEF chunk
  <2>5. IF chunks = << >> THEN chunk.start_line = 1 ELSE Follows(chunk, Newest)
    <3>1. CASE chunks # << >>
      <4>1. PICK m \in 1 .. at : ClosedAt(m)
        BY <1>4, <3>1
      <4>2. m \in 1 .. i - 1 /\ m < Len(boundaries) /\ m \in 1 .. Len(boundaries)
        BY <1>2, <1>3
      <4>3. Newest.end_line = EndOf(m) /\ Newest.start_line <= chunk_start /\ chunk_start = boundaries[m]
        BY <4>1, <4>2 DEF ClosedAt
      <4>4. boundaries[m] < EndOf(m) /\ EndOf(m) \in 0 .. total /\ EndOf(m) <= boundaries[i]
        BY <1>1, <2>2, <4>2, EndOfType
      <4>5. Newest \in Chunks
        BY <1>1, <3>1, EmptySeq, LenProperties DEF Newest, ChunkTypeOK
      <4>6. Newest.start_line \in Int
        BY <4>5, ChunkerAssumption DEF Chunks
      <4> QED
        BY <1>2, <2>2, <2>3, <2>4, <3>1, <4>3, <4>4, <4>6 DEF Follows
    <3>2. CASE chunks = << >>
      BY <1>1, <2>4, <3>2 DEF LoopInv
    <3> QED
      BY <3>1, <3>2
  <2>6. CutsAtDefinitions(chunk)
    BY <1>2, <1>5, <2>2, <2>3, <2>4 DEF CutsAtDefinitions, IsBoundary
  <2>7. ChunksLaid' /\ chunks' \in Seq(Chunks) /\ chunks' # << >> /\ Newest' = chunk
    BY <1>1, <2>1, <2>4, <2>5, <2>6, ChunkAdded
  <2>8. ChunkTypeOK'
    BY <1>1, <1>2, <1>3, <2>1, <2>2, <2>7 DEF ChunkTypeOK
  <2>9. ClosedAt(i)'
    <3>1. i < Len(boundaries) => chunk_start + 1 <= boundaries[i]
      <4>1. i < Len(boundaries) => boundaries[i] - chunk_start >= target
        BY <1>3, <1>7
      <4>2. boundaries[i] \in Int /\ chunk_start \in Int /\ target \in Int /\ target >= 1
        BY <1>2, <2>2
      <4> QED
        BY <4>1, <4>2
    <3> QED
      BY <1>1, <1>2, <1>3, <1>6, <2>1, <2>4, <2>7, <3>1 DEF ClosedAt
  <2>10. LoopInv'
    <3>1. i \in 1 .. at'
      BY <1>1, <1>2
    <3>2. boundaries' # << >> /\ Scanned'
      BY <1>1 DEF Scanned, needs_chunking
    <3>3. at' <= Len(boundaries')
      BY <1>1, <1>3
    <3>4. \E m \in 1 .. at' : ClosedAt(m)'
      BY <2>9, <3>1
    <3> QED
      BY <2>7, <3>2, <3>3, <3>4 DEF LoopInv
  <2> QED
    BY <1>1, <1>6, <2>7, <2>8, <2>10 DEF ChunkInv
<1>8. CASE ~(boundaries[i] - chunk_start >= target \/ i = Len(boundaries))
  <2>1. chunks' = chunks /\ chunk_start' = chunk_start /\ i < Len(boundaries)
    <3>1. chunks' = chunks /\ chunk_start' = chunk_start
      BY <1>8 DEF Visit
    <3>2. i # Len(boundaries)
      BY <1>8
    <3>3. Len(boundaries) \in Nat
      BY <1>2
    <3>4. i < Len(boundaries)
      BY <1>3, <3>2, <3>3
    <3> QED
      BY <3>1, <3>4
  <2>2. ChunkTypeOK' /\ ChunksLaid'
    BY <1>1, <1>3, <2>1 DEF ChunkTypeOK, ChunksLaid, CutsAtDefinitions, IsBoundary
  <2>3. chunks # << >> => \E m \in 1 .. at' : ClosedAt(m)'
    <3>1. SUFFICES ASSUME chunks # << >> PROVE \E m \in 1 .. at' : ClosedAt(m)'
      OBVIOUS
    <3>2. PICK m \in 1 .. at : ClosedAt(m)
      BY <1>4, <3>1
    <3> DEFINE n == Len(boundaries)
    <3>3. at \in Nat /\ n \in Nat /\ at' = at + 1 /\ at + 1 < n
      BY <1>1, <1>2, <2>1
    <3>4. m \in 1 .. at' /\ m \in 1 .. Len(boundaries) /\ at' # Len(boundaries)
      <4> HIDE DEF n
      <4>1. m \in 1 .. at' /\ m \in 1 .. n /\ at' # n
        BY <3>3
      <4> QED
        BY <4>1 DEF n
    <3>5. ClosedAt(m)'
      BY <1>1, <1>6, <2>1, <3>2, <3>4 DEF ClosedAt, Newest
    <3> QED
      BY <3>4, <3>5
  <2>4. LoopInv'
    BY <1>1, <1>2, <1>3, <2>1, <2>3 DEF LoopInv, Scanned, needs_chunking
  <2> QED
    BY <1>1, <1>6, <2>2, <2>4 DEF ChunkInv
<1> QED
  BY <1>7, <1>8

\* The loop has closed a chunk at the last boundary, so nothing is left of the file.
LEMMA ReturnStep == ASSUME ChunkInv, ReturnChunks PROVE ChunkInv'
<1> USE DEF fileVars, scanVars
<1>1. /\ ChunkTypeOK /\ BoundariesAscend /\ ChunksLaid /\ LoopInv /\ Scanned
      /\ boundaries # << >> /\ at = Len(boundaries) /\ cutting' = FALSE
      /\ UNCHANGED <<fileVars, scanVars, at, chunk_start>>
  BY DEF ChunkInv, ReturnChunks, Done
<1>2. total \in Nat /\ Len(boundaries) \in Nat
  BY <1>1, ChunkerAssumption, LenProperties DEF ChunkTypeOK
<1>3. chunks # << >> /\ \E m \in 1 .. at : ClosedAt(m)
  BY <1>1, <1>2 DEF LoopInv
<1>4. Newest.end_line = total
  BY <1>1, <1>2, <1>3 DEF ClosedAt, EndOf
<1>5. chunks' = chunks
  BY <1>2, <1>3, <1>4 DEF ReturnChunks, Newest
<1>6. ChunkTypeOK' /\ BoundariesAscend' /\ ChunksLaid' /\ Newest' = Newest
  BY <1>1, <1>5 DEF ChunkTypeOK, BoundariesAscend, ChunksLaid, CutsAtDefinitions, IsBoundary, Newest
<1> QED
  BY <1>1, <1>4, <1>6 DEF ChunkInv

\* ChunksCoverFile: for a file of any length, chunk_file returns chunks that begin with
\* its first line, end with its last, leave out none in between, repeat none, and cut at
\* definitions only, if it has any.
THEOREM ChunksAreTheFile == Spec => []ChunksCoverFile
<1>1. Init => ChunkInv
  BY PartsBegin, ChunksBegin
<1>2. ChunkInv /\ [Next]_vars => ChunkInv'
  <2> SUFFICES ASSUME ChunkInv, [ChunkStep]_chunkVars PROVE ChunkInv'
    BY PartsStep
  <2>1. CASE UNCHANGED chunkVars
    BY <2>1 DEF chunkVars, fileVars, scanVars, ChunkInv, ChunkTypeOK, BoundariesAscend, ChunksLaid,
                CutsAtDefinitions, IsBoundary, LoopInv, Scanned, needs_chunking, Newest, ClosedAt, EndOf
  <2> QED
    BY <2>1, WholeStep, ScanStep, FixedSizeStep, VisitStep, ReturnStep DEF ChunkStep
<1>3. ChunkInv => ChunksCoverFile
  <2> SUFFICES ASSUME ChunkInv PROVE ChunksCoverFile
    OBVIOUS
  <2>1. ChunkTypeOK /\ ChunksLaid /\ DOMAIN chunks = 1 .. Len(chunks)
    BY LenProperties DEF ChunkInv, ChunkTypeOK
  <2>2. ~cutting /\ chunks # << >> => Newest.end_line = total
    BY DEF ChunkInv
  <2> QED
    BY <2>1, <2>2 DEF ChunksCoverFile, ChunksLaid, Follows, CutsAtDefinitions, Newest
<1> QED
  BY <1>1, <1>2, <1>3, PTL DEF Spec

-------------------------------------------------------------------------------
(***************************************************************************)
(* The classifier.  The loop that determines the winner keeps the best of  *)
(* the types it has been through; the files it looks at are all that count *)
(* unless the listing was cut off, and at the cap it is not cut off before *)
(* the last of them.                                                       *)
(***************************************************************************)

\* The type at i clears its threshold on some files.
ClearsOn(i, files) == Score(Types[i], files) >= Types[i].confidence_threshold

\* On some files the type at w comes before the one at i: it has the higher score, or in a
\* tie the higher threshold, or in a tie on both the earlier row of the table.
Betters(w, i, files) ==
    \/ Score(Types[i], files) < Score(Types[w], files)
    \/ /\ Score(Types[i], files) = Score(Types[w], files)
       /\ \/ Types[i].confidence_threshold < Types[w].confidence_threshold
          \/ /\ Types[i].confidence_threshold = Types[w].confidence_threshold
             /\ w <= i

\* No type up to n that clears its threshold on some files is better than the one at w.
BestUpTo(n, w, files) == \A i \in 1 .. n : ClearsOn(i, files) => Betters(w, i, files)

WinsAt(w) ==
    /\ winner = [type |-> Types[w].codebase_type, score |-> Score(Types[w], all_files),
                 threshold |-> Types[w].confidence_threshold]
    /\ ClearsOn(w, all_files) /\ BestUpTo(considered, w, all_files)

WinnerInv ==
    IF winner.type = "none"
    THEN winner = NoWinner /\ \A i \in 1 .. considered : ~ClearsOn(i, all_files)
    ELSE \E w \in 1 .. considered : WinsAt(w)

ListingInv ==
    /\ all_files = {f \in listed : ~is_ignored(f)}
    /\ IF gathering THEN considered = 0 /\ codebase_type = "unknown"
       ELSE listed = repo \/ Capped(all_files)
    /\ codebase_type # "unknown" => considered = Len(Types) /\ codebase_type = winner.type

RepoInv == RepoTypeOK /\ ListingInv /\ WinnerInv

\* Every type of the table has a score, and a threshold above zero.
LEMMA ScoreType ==
    ASSUME NEW i \in 1 .. Len(Types), NEW files
    PROVE  /\ Score(Types[i], files) \in Nat /\ Types[i].confidence_threshold \in Nat \ {0}
           /\ Types[i].codebase_type \in TypeNames /\ Types[i].codebase_type \notin {"none", "unknown"}
<1> DEFINE sig == Types[i]
<1>1. i \in DOMAIN Types /\ sig \in Signatures
  BY ClassifierAssumption, LenProperties
<1>2. \A signals : IsFiniteSet(signals) => Found(signals, files) \in Nat
  <2>1. ASSUME NEW signals, IsFiniteSet(signals) PROVE Found(signals, files) \in Nat
    <3> DEFINE found == {s \in signals : \E f \in files : s \in f.signals}
    <3>1. IsFiniteSet(found)
      BY <2>1, FS_Subset
    <3>2. Cardinality(found) \in Nat
      BY <3>1, FS_CardinalityType
    <3> QED
      BY <3>2 DEF Found
  <2> QED
    BY <2>1
<1>3. Cardinality(sig.files_required) \in Nat
  BY <1>1, ClassifierAssumption, FS_CardinalityType
<1>4. /\ Found(sig.files_any_of, files) \in Nat /\ Found(sig.content_patterns, files) \in Nat
      /\ Found(sig.dir_patterns, files) \in Nat /\ Found(sig.infra_markers, files) \in Nat
  BY <1>1, <1>2, ClassifierAssumption
<1>5. Score(sig, files) \in Nat
  <2>1. \A a, b, c, d, e \in Nat : 30 * a + 10 * b + 15 * c + 10 * d + 20 * e \in Nat
    OBVIOUS
  <2> HIDE DEF sig
  <2>2. 30 * Cardinality(sig.files_required)
           + 10 * Found(sig.files_any_of, files) + 15 * Found(sig.content_patterns, files)
           + 10 * Found(sig.dir_patterns, files) + 20 * Found(sig.infra_markers, files) \in Nat
    BY <1>3, <1>4, <2>1
  <2> QED
    BY <2>2 DEF Score
<1> QED
  BY <1>1, <1>5 DEF Signatures, TypeNames

LEMMA ClassifierBegins ==
    ASSUME ClassifyCall, gathering \in BOOLEAN, gathering \/ repo = {} PROVE RepoInv
<1>1. Len(Types) \in Nat
  BY ClassifierAssumption, LenProperties
<1>2. RepoTypeOK
  BY <1>1 DEF ClassifyCall, RepoTypeOK, NoWinner
<1>3. ListingInv
  BY DEF ClassifyCall, ListingInv
<1>4. WinnerInv
  BY DEF ClassifyCall, WinnerInv, NoWinner
<1> QED
  BY <1>2, <1>3, <1>4 DEF RepoInv

LEMMA GatherStep == ASSUME RepoInv, Gather PROVE RepoInv'
<1>1. considered = 0 /\ winner = NoWinner /\ codebase_type = "unknown" /\ considered' = 0 /\ winner' = NoWinner
  BY DEF RepoInv, ListingInv, WinnerInv, Gather, RepoTypeOK
<1>2. PICK f \in repo \ listed :
          /\ listed' = listed \cup {f}
          /\ all_files' = IF is_ignored(f) THEN all_files ELSE all_files \cup {f}
  BY DEF Gather
<1>3. all_files' = {g \in listed' : ~is_ignored(g)}
  BY <1>2 DEF RepoInv, ListingInv
<1>4. RepoTypeOK' /\ ListingInv'
  BY <1>1, <1>2, <1>3 DEF RepoInv, RepoTypeOK, ListingInv, Gather, Capped, is_ignored
<1>5. WinnerInv'
  BY <1>1 DEF WinnerInv, NoWinner
<1> QED
  BY <1>4, <1>5 DEF RepoInv

LEMMA ListingEndsStep == ASSUME RepoInv, ListingEnds PROVE RepoInv'
BY DEF RepoInv, RepoTypeOK, ListingInv, WinnerInv, ListingEnds, fileSets, WinsAt, BestUpTo, Betters, ClearsOn,
       is_ignored, Capped

LEMMA ConsiderStep == ASSUME RepoInv, Consider PROVE RepoInv'
<1> PICK n : n = considered + 1
  OBVIOUS
<1> DEFINE sig == Types[n]
           score == Score(sig, all_files)
           best == [type |-> sig.codebase_type, score |-> score, threshold |-> sig.confidence_threshold]
<1>1. /\ RepoTypeOK /\ ListingInv /\ WinnerInv /\ considered' = n
      /\ ~gathering /\ considered < Len(Types)
      /\ UNCHANGED <<fileSets, codebase_type, gathering>>
      /\ winner' = IF score >= sig.confidence_threshold /\ Beats(sig, score) THEN best ELSE winner
  BY DEF RepoInv, Consider
<1>2. Len(Types) \in Nat /\ considered \in Nat
  BY <1>1, ClassifierAssumption, LenProperties DEF RepoTypeOK
<1>3. n \in 1 .. Len(Types) /\ \A i \in 1 .. n : i \in 1 .. considered \/ i = n
  BY <1>1, <1>2
<1>4. \A i \in 1 .. considered : i \in 1 .. Len(Types) /\ i \in 1 .. n
  BY <1>1, <1>2
<1>5. n \in 1 .. n
  BY <1>2
<1>6. \A i \in 1 .. Len(Types) :
          /\ Score(Types[i], all_files) \in Nat /\ Types[i].confidence_threshold \in Nat \ {0}
          /\ Types[i].codebase_type \in TypeNames /\ Types[i].codebase_type # "none"
  BY ScoreType
<1>7. ListingInv'
  BY <1>1 DEF ListingInv, fileSets, Capped
<1>8. RepoTypeOK'
  <2>1. best \in [type : TypeNames \cup {"none"}, score : Nat, threshold : Nat]
    BY <1>3, <1>6
  <2> HIDE DEF best, score, sig
  <2>2. winner' \in [type : TypeNames \cup {"none"}, score : Nat, threshold : Nat]
    BY <1>1, <2>1 DEF RepoTypeOK
  <2>3. n \in 0 .. Len(Types)
    BY <1>2, <1>3
  <2> QED
    BY <1>1, <2>2, <2>3 DEF RepoTypeOK, fileSets
<1>9. WinnerInv'
  <2>1. all_files' = all_files
    BY <1>1 DEF fileSets
  <2>2. ClearsOn(n, all_files) <=> score >= sig.confidence_threshold
    BY DEF ClearsOn
  <2>3. CASE ClearsOn(n, all_files) /\ Beats(sig, score)
    <3>1. winner' = best
      BY <1>1, <2>2, <2>3
    <3>2. ASSUME NEW i \in 1 .. considered, ClearsOn(i, all_files)
          PROVE  \/ Score(Types[i], all_files) < score
                 \/ /\ Score(Types[i], all_files) = score
                    /\ Types[i].confidence_threshold < sig.confidence_threshold
      <4>1. PICK w \in 1 .. considered : WinsAt(w)
        BY <1>1, <3>2 DEF WinnerInv
      <4>2. /\ winner.score = Score(Types[w], all_files)
            /\ winner.threshold = Types[w].confidence_threshold
        BY <4>1 DEF WinsAt
      <4>3. \/ Score(Types[i], all_files) < winner.score
            \/ /\ Score(Types[i], all_files) = winner.score
               /\ \/ Types[i].confidence_threshold < winner.threshold
                  \/ Types[i].confidence_threshold = winner.threshold
        BY <3>2, <4>1, <4>2 DEF WinsAt, BestUpTo, Betters
      <4>4. \/ score > winner.score
            \/ score = winner.score /\ sig.confidence_threshold > winner.threshold
        BY <2>3 DEF Beats
      <4>5. /\ score \in Nat /\ sig.confidence_threshold \in Nat
            /\ Score(Types[i], all_files) \in Nat /\ Types[i].confidence_threshold \in Nat
            /\ winner.score \in Nat /\ winner.threshold \in Nat
        BY <1>3, <1>4, <1>6, <4>2
      <4> HIDE DEF score, sig
      <4> QED
        BY <4>3, <4>4, <4>5
    <3>3. BestUpTo(n, n, all_files)
      <4>1. n <= n
        BY <1>2
      <4> QED
        BY <1>3, <3>2, <4>1 DEF BestUpTo, Betters
    <3>4. WinsAt(n)'
      BY <1>1, <2>1, <2>3, <3>1, <3>3 DEF WinsAt
    <3>5. winner'.type # "none"
      BY <1>3, <1>6, <3>1
    <3> QED
      BY <1>1, <1>5, <3>4, <3>5 DEF WinnerInv
  <2>4. CASE ~(ClearsOn(n, all_files) /\ Beats(sig, score))
    <3>1. winner' = winner
      BY <1>1, <2>2, <2>4
    <3>2. CASE winner.type = "none"
      <4>1. winner = NoWinner /\ \A i \in 1 .. considered : ~ClearsOn(i, all_files)
        BY <1>1, <3>2 DEF WinnerInv
      <4>2. ~ClearsOn(n, all_files)
        <5>1. score \in Nat /\ sig.confidence_threshold \in Nat \ {0}
          BY <1>3, <1>6
        <5>2. ClearsOn(n, all_files) => Beats(sig, score)
          BY <2>2, <4>1, <5>1 DEF Beats, NoWinner
        <5> QED
          BY <2>4, <5>2
      <4> QED
        BY <1>1, <1>3, <2>1, <3>1, <3>2, <4>1, <4>2 DEF WinnerInv
    <3>3. CASE winner.type # "none"
      <4>1. PICK w \in 1 .. considered : WinsAt(w)
        BY <1>1, <3>3 DEF WinnerInv
      <4>2. /\ winner.score = Score(Types[w], all_files)
            /\ winner.threshold = Types[w].confidence_threshold
        BY <4>1 DEF WinsAt
      <4>3. /\ score \in Nat /\ sig.confidence_threshold \in Nat
            /\ winner.score \in Nat /\ winner.threshold \in Nat
        BY <1>3, <1>4, <1>6, <4>2
      <4>4. ClearsOn(n, all_files) =>
                \/ score < winner.score
                \/ score = winner.score /\ sig.confidence_threshold <= winner.threshold
        <5>1. ClearsOn(n, all_files) =>
                  /\ ~(score > winner.score)
                  /\ ~(score = winner.score /\ sig.confidence_threshold > winner.threshold)
          BY <2>4 DEF Beats
        <5> HIDE DEF score, sig
        <5> QED
          BY <4>3, <5>1
      <4>5. BestUpTo(n, w, all_files)
        <5>1. ASSUME NEW i \in 1 .. considered, ClearsOn(i, all_files)
              PROVE  Betters(w, i, all_files)
          BY <4>1, <5>1 DEF WinsAt, BestUpTo, Betters
        <5>2. ClearsOn(n, all_files) => Betters(w, n, all_files)
          <6>1. w <= n
            BY <1>2
          <6>2. ASSUME ClearsOn(n, all_files) PROVE Betters(w, n, all_files)
            <7>1. \/ score < winner.score
                  \/ score = winner.score /\ sig.confidence_threshold < winner.threshold
                  \/ score = winner.score /\ sig.confidence_threshold = winner.threshold
              <8> HIDE DEF score, sig
              <8> QED
                BY <4>3, <4>4, <6>2
            <7> QED
              BY <4>2, <6>1, <7>1 DEF Betters
          <6> QED
            BY <6>2
        <5> QED
          BY <1>3, <5>1, <5>2 DEF BestUpTo
      <4>6. WinsAt(w)'
        BY <1>1, <2>1, <3>1, <4>1, <4>5 DEF WinsAt
      <4>7. w \in 1 .. n
        BY <1>4
      <4> QED
        BY <1>1, <3>1, <3>3, <4>6, <4>7 DEF WinnerInv
    <3> QED
      BY <3>2, <3>3
  <2> QED
    BY <2>3, <2>4
<1> QED
  BY <1>7, <1>8, <1>9 DEF RepoInv

LEMMA ClassifyDone == ASSUME RepoInv, Classify PROVE RepoInv'
<1>1. RepoTypeOK' /\ ListingInv'
  BY DEF RepoInv, RepoTypeOK, ListingInv, Classify, fileSets, Capped
<1>2. WinnerInv'
  BY DEF RepoInv, Classify, fileSets, WinnerInv, WinsAt, BestUpTo, Betters, ClearsOn
<1> QED
  BY <1>1, <1>2 DEF RepoInv

\* At the cap or below it, all files that count have been gathered.
LEMMA AllFilesGathered ==
    ASSUME RepoTypeOK, ListingInv, ~gathering,
           Cardinality({f \in repo : ~is_ignored(f)}) <= MAX_FILES_TO_SCAN
    PROVE  all_files = {f \in repo : ~is_ignored(f)}
<1> DEFINE files == {f \in repo : ~is_ignored(f)}
<1>1. CASE listed = repo
  BY <1>1 DEF ListingInv
<1>2. CASE Capped(all_files)
  <2>1. IsFiniteSet(files)
    <3>1. files \in SUBSET RepoFiles /\ IsFiniteSet(RepoFiles)
      BY ClassifierAssumption DEF RepoTypeOK
    <3> QED
      BY <3>1, FS_Subset
  <2>2. all_files \in SUBSET files
    BY DEF RepoTypeOK, ListingInv
  <2>3. /\ IsFiniteSet(all_files) /\ Cardinality(all_files) <= Cardinality(files)
        /\ Cardinality(all_files) = Cardinality(files) => all_files = files
    <3> HIDE DEF files
    <3> QED
      BY <2>1, <2>2, FS_Subset
  <2>4. Cardinality(all_files) \in Nat /\ Cardinality(files) \in Nat
    BY <2>1, <2>3, FS_CardinalityType
  <2> QED
    BY <1>2, <2>3, <2>4, ClassifierAssumption DEF Capped
<1> QED
  BY <1>1, <1>2 DEF ListingInv

\* ClassificationReproducible: classify_repo's answer for a repository that fits the cap
\* is the one row of the table that its files single out, whatever the order they are
\* listed in: types that tie on score and threshold are told apart by their rows.
THEOREM SameRepoSameType == Spec => []ClassificationReproducible
<1>1. Init => RepoInv
  BY PartsBegin, ClassifierBegins
<1>2. RepoInv /\ [Next]_vars => RepoInv'
  <2> SUFFICES ASSUME RepoInv, [ClassifyStep]_repoVars PROVE RepoInv'
    BY PartsStep
  <2>1. CASE UNCHANGED repoVars
    BY <2>1 DEF repoVars, fileSets, RepoInv, RepoTypeOK, ListingInv, Capped, WinnerInv, WinsAt, BestUpTo, Betters, ClearsOn
  <2> QED
    BY <2>1, GatherStep, ListingEndsStep, ConsiderStep, ClassifyDone DEF ClassifyStep
<1>3. RepoInv => ClassificationReproducible
  <2> SUFFICES ASSUME RepoInv PROVE ClassificationReproducible
    OBVIOUS
  <2> DEFINE files == {f \in repo : ~is_ignored(f)}
  <2>1. RepoTypeOK /\ ListingInv /\ WinnerInv /\ DOMAIN Types = 1 .. Len(Types)
    BY ClassifierAssumption, LenProperties DEF RepoInv
  <2>2. ASSUME codebase_type # "unknown", Cardinality(files) <= MAX_FILES_TO_SCAN
        PROVE  /\ codebase_type = "none" => \A i \in DOMAIN Types : ~ClearsOn(i, files)
               /\ codebase_type # "none" =>
                     \E w \in DOMAIN Types :
                         /\ Types[w].codebase_type = codebase_type /\ ClearsOn(w, files)
                         /\ BestUpTo(Len(Types), w, files)
    <3>1. considered = Len(Types) /\ codebase_type = winner.type /\ ~gathering
      BY <2>1, <2>2 DEF ListingInv
    <3>2. all_files = files
      BY <2>1, <2>2, <3>1, AllFilesGathered
    <3> HIDE DEF files
    <3>3. codebase_type = "none" => \A i \in DOMAIN Types : ~ClearsOn(i, files)
      BY <2>1, <3>1, <3>2 DEF WinnerInv
    <3>4. ASSUME codebase_type # "none"
          PROVE  \E w \in DOMAIN Types :
                     /\ Types[w].codebase_type = codebase_type /\ ClearsOn(w, files)
                     /\ BestUpTo(Len(Types), w, files)
      <4>1. PICK w \in 1 .. considered : WinsAt(w)
        BY <2>1, <3>1, <3>4 DEF WinnerInv
      <4> QED
        BY <2>1, <3>1, <3>2, <4>1 DEF WinsAt
    <3> QED
      BY <3>3, <3>4
  <2> QED
    BY <2>1, <2>2 DEF ClassificationReproducible, ClearsOn, BestUpTo, Betters
<1> QED
  BY <1>1, <1>2, <1>3, PTL DEF Spec

-------------------------------------------------------------------------------
(***************************************************************************)
(* The file tools: their types.                                            *)
(***************************************************************************)

LEMMA CallKinds ==
    ASSUME NEW k \in Calls
    PROVE  /\ k.tool \in {"write_file", "apply_patch", "other"} /\ k # NoCall
           /\ k.tool = "write_file" => k.name \in Names /\ k.piece \in Pieces
           /\ k.tool = "apply_patch" => k.edits \in Seq(Edits)
<1>1. k \in WriteCalls \/ k \in PatchCalls \/ k \in OtherCalls
  BY FileAssumption
<1>2. NoCall.tool = "none"
  BY DEF NoCall
<1> QED
  BY <1>1, <1>2 DEF WriteCalls, PatchCalls, OtherCalls

\* A call that is running.
LEMMA RunningCall ==
    ASSUME FilesTypeOK, NEW c \in Callers
    PROVE  /\ call[c] = NoCall => call[c].tool = "none"
           /\ call[c].tool = "write_file" => call[c] # NoCall /\ call[c].name \in Names /\ call[c].piece \in Pieces
           /\ call[c].tool = "apply_patch" => call[c] # NoCall /\ call[c].edits \in Seq(Edits)
<1>1. call[c] \in Calls \/ call[c] = NoCall
  BY DEF FilesTypeOK
<1>2. NoCall.tool = "none"
  BY DEF NoCall
<1> QED
  BY <1>1, <1>2, CallKinds

\* What is kept of the calls, the guards and the history, apart from the files.
SessionOK ==
    /\ flags \in FlagSets /\ rooted \in BOOLEAN
    /\ call \in [Callers -> Calls \cup {NoCall}]
    /\ left \in [Callers -> Seq(Edits)] /\ working \in [Callers -> SUBSET Entries]
    /\ todo \in [Callers -> Seq(Names)]
    /\ \A c \in Callers :
           call[c] = NoCall => left[c] = << >> /\ working[c] = {} /\ todo[c] = << >>
    /\ outcome \in [result : {"none", "ok", "refused", "failed", "denied", "raised"}, wrote : SUBSET Files]
    /\ wrote \in [Callers -> SUBSET Files]
    /\ disturbed \in [Callers -> BOOLEAN] /\ raced \in BOOLEAN
    /\ patched \subseteq Pieces

FilesOK ==
    /\ links \in [Names -> Files]
    /\ exists \subseteq Files /\ disk \in [Files -> SUBSET Pieces]
    /\ \A f \in Files \ exists : disk[f] = {}

ToolsTypeOK == SessionOK /\ FilesOK

LEMMA TypeParts == ToolsTypeOK => FilesTypeOK
BY DEF ToolsTypeOK, SessionOK, FilesOK, FilesTypeOK

LEMMA ToolsBegin == ASSUME ToolsInit PROVE ToolsTypeOK
<1>1. << >> \in Seq(Edits) /\ << >> \in Seq(Names)
  BY EmptySeq
<1>2. SessionOK
  BY <1>1, FileAssumption DEF ToolsInit, SessionOK, NoOutcome
<1>3. FilesOK
  BY FileAssumption DEF ToolsInit, FilesOK
<1> QED
  BY <1>2, <1>3 DEF ToolsTypeOK

LEMMA PutsType ==
    ASSUME FilesOK, NEW n \in Names, NEW content \in SUBSET Pieces, Puts(n, content)
    PROVE  FilesOK'
BY DEF FilesOK, Puts

LEMMA EndsType ==
    ASSUME SessionOK, NEW c \in Callers, NEW files \in SUBSET Files,
           NEW r \in {"ok", "refused", "failed", "denied", "raised"},
           Ends(c, r, files), patched' \subseteq Pieces
    PROVE  SessionOK'
<1>1. << >> \in Seq(Edits) /\ << >> \in Seq(Names)
  BY EmptySeq
<1>2. /\ call' \in [Callers -> Calls \cup {NoCall}]
      /\ left' \in [Callers -> Seq(Edits)] /\ working' \in [Callers -> SUBSET Entries]
      /\ todo' \in [Callers -> Seq(Names)]
  BY <1>1 DEF SessionOK, Ends, Over
<1>3. \A d \in Callers :
          call'[d] = NoCall => left'[d] = << >> /\ working'[d] = {} /\ todo'[d] = << >>
  BY DEF SessionOK, Ends, Over
<1>4. outcome' \in [result : {"none", "ok", "refused", "failed", "denied", "raised"}, wrote : SUBSET Files]
  BY DEF SessionOK, Ends, Over
<1>5. wrote' \in [Callers -> SUBSET Files]
  BY DEF SessionOK, Ends, Touches
<1>6. disturbed' \in [Callers -> BOOLEAN]
  <2>1. \A d \in Callers : (IF d = c THEN disturbed[c] /\ ~TRUE
                            ELSE disturbed[d] \/ files \cap FilesOf(d) # {}) \in BOOLEAN
    BY DEF SessionOK
  <2> QED
    BY <2>1 DEF Ends, Touches
<1> QED
  BY <1>2, <1>3, <1>4, <1>5, <1>6 DEF SessionOK, Ends, Touches

\* The working copy of a file holds pieces, and so does what an edit makes of it.
LEMMA CopyType ==
    ASSUME ToolsTypeOK, NEW c \in Callers, NEW n \in Names
    PROVE  /\ CopyOf(c, n) \in SUBSET Pieces
           /\ Read(c, n) => \E e \in working[c] : e.name = n /\ CopyOf(c, n) = e.content
<1>1. working[c] \subseteq Entries /\ disk[links[n]] \in SUBSET Pieces
  BY DEF ToolsTypeOK, SessionOK, FilesOK
<1>2. CASE Read(c, n)
  <2> DEFINE e == CHOOSE e \in working[c] : e.name = n
  <2>1. e \in working[c] /\ e.name = n
    BY <1>2 DEF Read
  <2>2. CopyOf(c, n) = e.content
    BY <1>2 DEF CopyOf
  <2> QED
    BY <1>1, <2>1, <2>2 DEF Entries
<1>3. CASE ~Read(c, n)
  BY <1>1, <1>3 DEF CopyOf
<1> QED
  BY <1>2, <1>3

\* An edit that is left has a name and a piece, and the others are left after it.
LEMMA HeadOfLeft ==
    ASSUME ToolsTypeOK, NEW c \in Callers, left[c] # << >>
    PROVE  /\ Head(left[c]) \in Edits /\ Head(left[c]).name \in Names /\ Head(left[c]).piece \in Pieces
           /\ Tail(left[c]) \in Seq(Edits)
<1>1. left[c] \in Seq(Edits)
  BY DEF ToolsTypeOK, SessionOK
<1>2. Head(left[c]) \in Edits /\ Tail(left[c]) \in Seq(Edits)
  BY <1>1, HeadTailProperties
<1> QED
  BY <1>2 DEF Edits

LEMMA HeadOfTodo ==
    ASSUME ToolsTypeOK, NEW c \in Callers, todo[c] # << >>
    PROVE  Head(todo[c]) \in Names /\ Tail(todo[c]) \in Seq(Names)
BY HeadTailProperties DEF ToolsTypeOK, SessionOK

\* The step of a call, and one that puts a content into a file as it ends or goes on.
CallStep(c) == ToolStep(c) \/ \E k \in Calls : Stopped(c, k) \/ Started(c, k) \/ Passed(c, k)

LEMMA WriteErrorType ==
    ASSUME ToolsTypeOK, NEW c \in Callers, NEW n \in Names, WriteError(c, n), UNCHANGED patched
    PROVE  ToolsTypeOK'
<1>1. links[n] \in Files /\ SessionOK /\ FilesOK /\ patched \subseteq Pieces
  BY DEF ToolsTypeOK, FilesOK, SessionOK
<1>2. CASE UNCHANGED fsVars /\ Ends(c, "failed", {})
  <2>1. SessionOK'
    BY <1>1, <1>2, EndsType
  <2> QED
    BY <1>1, <1>2, <2>1 DEF ToolsTypeOK, FilesOK, fsVars
<1>3. CASE Puts(n, {}) /\ Ends(c, "failed", {links[n]})
  <2>1. SessionOK'
    BY <1>1, <1>3, EndsType
  <2> QED
    BY <1>1, <1>3, <2>1, PutsType DEF ToolsTypeOK
<1> QED
  BY <1>2, <1>3 DEF WriteError

\* The state is well typed after every step of the tools.
LEMMA ToolsTypeStep == ASSUME ToolsTypeOK, [ToolsStep]_writeVars PROVE ToolsTypeOK'
<1>0. /\ FilesTypeOK /\ SessionOK /\ FilesOK
      /\ << >> \in Seq(Edits) /\ << >> \in Seq(Names)
  BY TypeParts, EmptySeq DEF ToolsTypeOK
<1>1. ASSUME NEW c \in Callers, NEW k \in Calls, Stopped(c, k) \/ Passed(c, k)
      PROVE  ToolsTypeOK'
  <2>1. BeforeTool(flags, ViewOf(k)) = "deny" \/ BeforeTool(flags, ViewOf(k)) # "deny"
    OBVIOUS
  <2>2. PICK r \in {"ok", "denied", "raised"} : Ends(c, r, {}) /\ UNCHANGED <<fsVars, patched>>
    BY <1>1, <2>1 DEF Stopped, Passed
  <2>3. SessionOK'
    BY <1>0, <2>2, EndsType DEF SessionOK
  <2> QED
    BY <1>0, <2>2, <2>3 DEF ToolsTypeOK, FilesOK, fsVars
<1>2. ASSUME NEW c \in Callers, NEW k \in Calls, Started(c, k)
      PROVE  ToolsTypeOK'
  <2>1. k # NoCall /\ (IF k.tool = "apply_patch" THEN k.edits ELSE << >>) \in Seq(Edits)
    BY <1>0, CallKinds
  <2>2. call' = [call EXCEPT ![c] = k] /\ outcome' = NoOutcome
    BY <1>2 DEF Started
  <2>3. left' \in [Callers -> Seq(Edits)] /\ \A d \in Callers : d # c => left'[d] = left[d]
    BY <1>0, <1>2, <2>1 DEF Started, SessionOK
  <2>4. SessionOK'
    BY <1>0, <1>2, <2>1, <2>2, <2>3 DEF Started, SessionOK, history, NoOutcome
  <2> QED
    BY <1>0, <1>2, <2>4 DEF ToolsTypeOK, FilesOK, Started, fsVars
<1>3. ASSUME NEW c \in Callers, WriteRefused(c) \/ EditRefused(c) \/ PatchDone(c)
      PROVE  ToolsTypeOK'
  <2>1. PICK r \in {"ok", "refused"} : Ends(c, r, {}) /\ UNCHANGED <<fsVars, patched>>
    BY <1>3 DEF WriteRefused, EditRefused, PatchDone
  <2>2. SessionOK'
    <3>1. SessionOK /\ patched' \subseteq Pieces
      BY <1>0, <2>1 DEF SessionOK
    <3>2. {} \in SUBSET Files /\ r \in {"ok", "refused", "failed", "denied", "raised"}
      OBVIOUS
    <3> QED
      BY <2>1, <3>1, <3>2, EndsType
  <2> QED
    BY <1>0, <2>1, <2>2 DEF ToolsTypeOK, FilesOK, fsVars
<1>4. ASSUME NEW c \in Callers, WriteChecked(c)
      PROVE  ToolsTypeOK'
  <2>1. call[c] # NoCall /\ <<call[c].name>> \in Seq(Names)
    BY <1>0, <1>4, RunningCall DEF WriteChecked
  <2>2. todo' \in [Callers -> Seq(Names)] /\ \A d \in Callers : d # c => todo'[d] = todo[d]
    BY <1>0, <1>4, <2>1 DEF WriteChecked, SessionOK
  <2>3. SessionOK'
    BY <1>0, <1>4, <2>1, <2>2 DEF WriteChecked, GoesOn, SessionOK, history, NoOutcome
  <2> QED
    BY <1>0, <1>4, <2>3 DEF ToolsTypeOK, FilesOK, WriteChecked, fsVars
<1>5. ASSUME NEW c \in Callers, WriteDone(c)
      PROVE  ToolsTypeOK'
  <2>1. call[c].name \in Names /\ call[c].piece \in Pieces
    BY <1>0, <1>5, RunningCall DEF WriteDone
  <2>2. links[call[c].name] \in Files
    BY <1>0, <2>1 DEF FilesOK
  <2>3. SessionOK'
    BY <1>0, <1>5, <2>2, EndsType DEF WriteDone, SessionOK
  <2>4. FilesOK'
    BY <1>0, <1>5, <2>1, PutsType DEF WriteDone
  <2> QED
    BY <2>3, <2>4 DEF ToolsTypeOK
<1>6. ASSUME NEW c \in Callers, WriteFails(c)
      PROVE  ToolsTypeOK'
  BY <1>0, <1>6, RunningCall, WriteErrorType DEF WriteFails
<1>7. ASSUME NEW c \in Callers, EditApplied(c)
      PROVE  ToolsTypeOK'
  <2> DEFINE e == Head(left[c])
  <2>1. e \in Edits /\ e.name \in Names /\ e.piece \in Pieces /\ Tail(left[c]) \in Seq(Edits)
    BY <1>7, HeadOfLeft DEF EditApplied, Validating
  <2> HIDE DEF e
  <2>2. call[c] # NoCall
    BY <1>0, <1>7, RunningCall DEF EditApplied, Validating
  <2>3. Edited(c, e) \in SUBSET Entries
    <3>1. CopyOf(c, e.name) \cup {e.piece} \in SUBSET Pieces
      BY <2>1, CopyType
    <3>2. [name |-> e.name, content |-> CopyOf(c, e.name) \cup {e.piece}] \in Entries
      BY <2>1, <3>1 DEF Entries
    <3> QED
      BY <1>0, <3>2 DEF Edited, SessionOK
  <2>4. Append(todo[c], e.name) \in Seq(Names) /\ todo[c] \in Seq(Names)
    BY <1>0, <2>1, AppendProperties DEF SessionOK
  <2>5. /\ working' = [working EXCEPT ![c] = Edited(c, e)]
        /\ todo' = [todo EXCEPT ![c] = IF Read(c, e.name) THEN @ ELSE Append(@, e.name)]
        /\ left' = [left EXCEPT ![c] = Tail(@)]
        /\ GoesOn /\ UNCHANGED <<fsVars, history>>
    BY <1>7 DEF EditApplied, e
  <2>6. /\ working' \in [Callers -> SUBSET Entries] /\ left' \in [Callers -> Seq(Edits)]
        /\ todo' \in [Callers -> Seq(Names)]
        /\ \A d \in Callers : d # c => working'[d] = working[d] /\ left'[d] = left[d] /\ todo'[d] = todo[d]
    BY <1>0, <2>1, <2>3, <2>4, <2>5 DEF SessionOK
  <2>7. SessionOK'
    BY <1>0, <2>2, <2>5, <2>6 DEF GoesOn, SessionOK, history, NoOutcome
  <2> QED
    BY <1>0, <2>5, <2>7 DEF ToolsTypeOK, FilesOK, fsVars
<1>8. ASSUME NEW c \in Callers, PatchWrites(c)
      PROVE  ToolsTypeOK'
  <2> DEFINE n == Head(todo[c])
  <2>1. n \in Names /\ Tail(todo[c]) \in Seq(Names) /\ todo[c] # << >>
    BY <1>8, HeadOfTodo DEF PatchWrites
  <2> HIDE DEF n
  <2>2. CopyOf(c, n) \in SUBSET Pieces /\ links[n] \in Files
    BY <1>0, <2>1, CopyType DEF FilesOK
  <2>3. /\ Puts(n, CopyOf(c, n)) /\ Touches(c, {links[n]}, FALSE)
        /\ patched' = patched \cup CopyOf(c, n) /\ todo' = [todo EXCEPT ![c] = Tail(@)]
        /\ GoesOn /\ UNCHANGED <<left, working>>
    BY <1>8 DEF PatchWrites, n
  <2>4. FilesOK'
    BY <1>0, <2>1, <2>2, <2>3, PutsType
  <2>5. todo' \in [Callers -> Seq(Names)] /\ \A d \in Callers : d # c => todo'[d] = todo[d]
    BY <1>0, <2>1, <2>3 DEF SessionOK
  <2>6. wrote' \in [Callers -> SUBSET Files]
    BY <1>0, <2>2, <2>3 DEF SessionOK, Touches
  <2>7. disturbed' \in [Callers -> BOOLEAN]
    <3>1. \A d \in Callers : (IF d = c THEN disturbed[c] /\ ~FALSE
                              ELSE disturbed[d] \/ {links[n]} \cap FilesOf(d) # {}) \in BOOLEAN
      BY <1>0 DEF SessionOK
    <3> QED
      BY <2>3, <3>1 DEF Touches
  <2>8. call[c] # NoCall
    BY <1>0, <1>8, RunningCall DEF PatchWrites, Writing
  <2>9. SessionOK'
    BY <1>0, <2>2, <2>3, <2>5, <2>6, <2>7, <2>8 DEF SessionOK, GoesOn, Touches, NoOutcome
  <2> QED
    BY <2>4, <2>9 DEF ToolsTypeOK
<1>9. ASSUME NEW c \in Callers, PatchFails(c)
      PROVE  ToolsTypeOK'
  BY <1>0, <1>9, HeadOfTodo, WriteErrorType DEF PatchFails
<1>10. ASSUME NEW n \in Relinked, NEW f \in Files, Relink(n, f)
       PROVE  ToolsTypeOK'
  <2>1. FilesOK'
    BY <1>0, <1>10 DEF Relink, FilesOK
  <2>2. disturbed' \in [Callers -> BOOLEAN] /\ raced' \in BOOLEAN
    BY <1>0, <1>10 DEF Relink, SessionOK
  <2>3. SessionOK'
    BY <1>0, <1>10, <2>2 DEF Relink, SessionOK, GoesOn, NoOutcome
  <2> QED
    BY <2>1, <2>3 DEF ToolsTypeOK
<1>11. CASE UNCHANGED writeVars
  BY <1>0, <1>11 DEF writeVars, fsVars, toolVars, history, ToolsTypeOK, SessionOK, FilesOK
<1> QED
  BY <1>1, <1>2, <1>3, <1>4, <1>5, <1>6, <1>7, <1>8, <1>9, <1>10, <1>11 DEF ToolsStep, ToolStep

-------------------------------------------------------------------------------
(***************************************************************************)
(* The file tools: what a step of one call does to the files and to the    *)
(* other calls.                                                            *)
(***************************************************************************)

LEMMA ElementsOf ==
    ASSUME NEW S, NEW s \in Seq(S)
    PROVE  /\ s = << >> <=> ToSet(s) = {}
           /\ s # << >> => ToSet(s) = {Head(s)} \cup ToSet(Tail(s))
           /\ \A x \in S : ToSet(Append(s, x)) = ToSet(s) \cup {x}
<1>1. Len(s) \in Nat /\ DOMAIN s = 1 .. Len(s) /\ (s = << >> <=> Len(s) = 0)
  BY LenProperties, EmptySeq
<1>2. s = << >> <=> ToSet(s) = {}
  <2>1. CASE s = << >>
    <3>1. DOMAIN s = {}
      BY <1>1, <2>1
    <3> QED
      BY <2>1, <3>1 DEF ToSet
  <2>2. CASE s # << >>
    <3>1. 1 \in DOMAIN s
      BY <1>1, <2>2
    <3> QED
      BY <2>2, <3>1 DEF ToSet
  <2> QED
    BY <2>1, <2>2
<1>3. ASSUME s # << >> PROVE ToSet(s) = {Head(s)} \cup ToSet(Tail(s))
  <2>1. /\ Tail(s) \in Seq(S) /\ Len(Tail(s)) = Len(s) - 1 /\ Head(s) = s[1]
        /\ \A i \in 1 .. Len(Tail(s)) : Tail(s)[i] = s[i + 1]
    BY <1>3, HeadTailProperties
  <2>2. DOMAIN Tail(s) = 1 .. Len(s) - 1
    BY <2>1, LenProperties
  <2>3. ASSUME NEW i \in 1 .. Len(s) PROVE s[i] \in {Head(s)} \cup ToSet(Tail(s))
    <3>1. CASE i = 1
      BY <2>1, <3>1
    <3>2. CASE i # 1
      <4>1. i - 1 \in 1 .. Len(s) - 1 /\ (i - 1) + 1 = i
        BY <1>1, <3>2
      <4>2. Tail(s)[i - 1] = s[i]
        BY <2>1, <4>1
      <4> QED
        BY <2>2, <4>1, <4>2 DEF ToSet
    <3> QED
      BY <3>1, <3>2
  <2>4. ASSUME NEW i \in 1 .. Len(s) - 1 PROVE Tail(s)[i] \in ToSet(s)
    <3>1. i + 1 \in 1 .. Len(s) /\ Tail(s)[i] = s[i + 1]
      BY <1>1, <2>1
    <3> QED
      BY <1>1, <3>1 DEF ToSet
  <2>5. Head(s) \in ToSet(s)
    BY <1>1, <1>3, <2>1 DEF ToSet
  <2> QED
    BY <1>1, <2>2, <2>3, <2>4, <2>5 DEF ToSet
<1>4. ASSUME NEW x \in S PROVE ToSet(Append(s, x)) = ToSet(s) \cup {x}
  <2> DEFINE a == Append(s, x)
  <2>1. /\ a \in Seq(S) /\ Len(a) = Len(s) + 1 /\ a[Len(s) + 1] = x
        /\ \A i \in 1 .. Len(s) : a[i] = s[i]
    BY AppendProperties
  <2>2. DOMAIN a = 1 .. Len(s) + 1
    BY <2>1, LenProperties
  <2> HIDE DEF a
  <2>3. \A i \in 1 .. Len(s) + 1 : i \in 1 .. Len(s) \/ i = Len(s) + 1
    BY <1>1
  <2>4. \A i \in 1 .. Len(s) : i \in 1 .. Len(s) + 1
    BY <1>1
  <2>5. Len(s) + 1 \in 1 .. Len(s) + 1
    BY <1>1
  <2>6. ToSet(a) = ToSet(s) \cup {x}
    BY <1>1, <2>1, <2>2, <2>3, <2>4, <2>5 DEF ToSet
  <2> QED
    BY <2>6 DEF a
<1> QED
  BY <1>2, <1>3, <1>4

\* A call writes through spellings it has checked only; what write_file writes was
\* reviewed; and nothing has been written before apply_patch begins to write.
CallInv(c) ==
    /\ call[c].tool = "write_file" =>
           /\ todo[c] = << >> \/ todo[c] = <<call[c].name>>
           /\ "codegen" \in flags => KindOf[call[c].piece] = "safe"
    /\ ToSet(todo[c]) \subseteq Checked(c)
    /\ ~raced => \A n \in Checked(c) : links[n] \in Sandbox
    /\ ~Writing(c) => wrote[c] = {}

\* A step of c leaves the files alone, or puts reviewed or patched content into a file
\* whose spelling it has checked, and so disturbs the other calls on that file.
PutsThrough(c, n, content) ==
    /\ disk' = [disk EXCEPT ![links[n]] = content]
    /\ "codegen" \in flags => \A p \in content : KindOf[p] = "safe" \/ p \in patched'
    /\ \A d \in Callers \ {c} : disturbed'[d] = (disturbed[d] \/ links[n] \in FilesOf(d))

Footprint(c) ==
    /\ UNCHANGED <<flags, rooted, links, raced>> /\ patched \subseteq patched'
    /\ \A d \in Callers \ {c} :
           /\ call'[d] = call[d] /\ left'[d] = left[d] /\ working'[d] = working[d]
           /\ todo'[d] = todo[d] /\ wrote'[d] = wrote[d]
    /\ \/ disk' = disk /\ \A d \in Callers \ {c} : disturbed'[d] = disturbed[d]
       \/ \E n \in Checked(c) \cap Names, content \in SUBSET Pieces : PutsThrough(c, n, content)

LEMMA EndsFrame ==
    ASSUME ToolsTypeOK, NEW c \in Callers, NEW r, NEW files, Ends(c, r, files)
    PROVE  /\ UNCHANGED <<flags, rooted, raced>>
           /\ \A d \in Callers \ {c} :
                  /\ call'[d] = call[d] /\ left'[d] = left[d] /\ working'[d] = working[d]
                  /\ todo'[d] = todo[d] /\ wrote'[d] = wrote[d]
                  /\ disturbed'[d] = (disturbed[d] \/ files \cap FilesOf(d) # {})
           /\ call'[c] = NoCall /\ left'[c] = << >> /\ working'[c] = {} /\ todo'[c] = << >>
           /\ wrote'[c] = {} /\ outcome' = [result |-> r, wrote |-> wrote[c] \cup files]
BY DEF ToolsTypeOK, SessionOK, Ends, Over, Touches

\* The step that ends a call without having written anything.
LEMMA EndsAlone ==
    ASSUME ToolsTypeOK, NEW c \in Callers, NEW r, Ends(c, r, {}), UNCHANGED <<fsVars, patched>>
    PROVE  Footprint(c)
<1>1. \A d \in Callers \ {c} : disturbed'[d] = disturbed[d]
  <2>1. \A d \in Callers : disturbed[d] \in BOOLEAN
    BY DEF ToolsTypeOK, SessionOK
  <2>2. \A d \in Callers \ {c} : disturbed'[d] = (disturbed[d] \/ {} \cap FilesOf(d) # {})
    BY EndsFrame
  <2> QED
    BY <2>1, <2>2
<1> QED
  BY <1>1, EndsFrame DEF Footprint, fsVars

\* The step that ends a call having written a file.
LEMMA EndsWriting ==
    ASSUME ToolsTypeOK, NEW c \in Callers, NEW r, NEW n \in Checked(c) \cap Names,
           NEW content \in SUBSET Pieces, Puts(n, content), Ends(c, r, {links[n]}), UNCHANGED patched,
           "codegen" \in flags => \A p \in content : KindOf[p] = "safe" \/ p \in patched
    PROVE  Footprint(c)
<1>1. \A d \in Callers \ {c} : disturbed'[d] = (disturbed[d] \/ links[n] \in FilesOf(d))
  <2>1. \A d \in Callers \ {c} : disturbed'[d] = (disturbed[d] \/ {links[n]} \cap FilesOf(d) # {})
    BY EndsFrame
  <2>2. \A d \in Callers : {links[n]} \cap FilesOf(d) # {} <=> links[n] \in FilesOf(d)
    OBVIOUS
  <2>3. \A d \in Callers \ {c} : disturbed'[d] \in BOOLEAN
    BY <2>1 DEF ToolsTypeOK, SessionOK
  <2> QED
    BY <2>1, <2>2, <2>3
<1>2. PutsThrough(c, n, content)
  BY <1>1 DEF PutsThrough, Puts
<1> QED
  BY <1>2, EndsFrame DEF Footprint, Puts

LEMMA WriteErrorFootprint ==
    ASSUME ToolsTypeOK, NEW c \in Callers, NEW n \in Checked(c) \cap Names, WriteError(c, n), UNCHANGED patched
    PROVE  Footprint(c)
<1>1. CASE UNCHANGED fsVars /\ Ends(c, "failed", {})
  BY <1>1, EndsAlone
<1>2. CASE Puts(n, {}) /\ Ends(c, "failed", {links[n]})
  BY <1>2, EndsWriting
<1> QED
  BY <1>1, <1>2 DEF WriteError

LEMMA NextSpelling ==
    ASSUME ToolsTypeOK, NEW c \in Callers, CallInv(c), todo[c] # << >>
    PROVE  /\ Head(todo[c]) \in Checked(c) \cap Names
           /\ call[c].tool = "write_file" => call[c].name = Head(todo[c])
<1>1. Head(todo[c]) \in Names /\ todo[c] \in Seq(Names)
  BY HeadOfTodo DEF ToolsTypeOK, SessionOK
<1>2. Head(todo[c]) \in ToSet(todo[c])
  BY <1>1, ElementsOf
<1> QED
  BY <1>1, <1>2 DEF CallInv

LEMMA StepFootprint ==
    ASSUME ToolsTypeOK, NEW c \in Callers, CallInv(c), CallStep(c)
    PROVE  Footprint(c)
<1>0. SessionOK /\ FilesOK /\ FilesTypeOK
  BY TypeParts DEF ToolsTypeOK
<1>1. ASSUME NEW k \in Calls, Stopped(c, k) \/ Passed(c, k) PROVE Footprint(c)
  <2>1. PICK r : Ends(c, r, {}) /\ UNCHANGED <<fsVars, patched>>
    BY <1>1 DEF Stopped, Passed
  <2> QED
    BY <2>1, EndsAlone
<1>2. ASSUME NEW k \in Calls, Started(c, k) PROVE Footprint(c)
  BY <1>0, <1>2 DEF Started, Footprint, SessionOK, fsVars, history
<1>3. CASE WriteRefused(c) \/ EditRefused(c) \/ PatchDone(c)
  <2>1. PICK r : Ends(c, r, {}) /\ UNCHANGED <<fsVars, patched>>
    BY <1>3 DEF WriteRefused, EditRefused, PatchDone
  <2> QED
    BY <2>1, EndsAlone
<1>4. CASE WriteChecked(c)
  BY <1>0, <1>4 DEF WriteChecked, GoesOn, Footprint, SessionOK, fsVars, history
<1>5. CASE WriteDone(c)
  <2>1. call[c].name \in Checked(c) \cap Names /\ {call[c].piece} \in SUBSET Pieces
    BY <1>0, <1>5, NextSpelling, RunningCall DEF WriteDone
  <2>2. "codegen" \in flags => KindOf[call[c].piece] = "safe"
    BY <1>5 DEF CallInv, WriteDone
  <2>3. Puts(call[c].name, {call[c].piece}) /\ Ends(c, "ok", {links[call[c].name]}) /\ UNCHANGED patched
    BY <1>5 DEF WriteDone
  <2> QED
    BY <2>1, <2>2, <2>3, EndsWriting
<1>6. CASE WriteFails(c)
  <2>1. call[c].name \in Checked(c) \cap Names
    BY <1>0, <1>6, NextSpelling DEF WriteFails
  <2> QED
    BY <1>6, <2>1, WriteErrorFootprint DEF WriteFails
<1>7. CASE EditApplied(c)
  BY <1>0, <1>7 DEF EditApplied, GoesOn, Footprint, SessionOK, fsVars, history
<1>8. CASE PatchWrites(c)
  <2> DEFINE n == Head(todo[c])
  <2>1. n \in Checked(c) \cap Names
    BY <1>8, NextSpelling DEF PatchWrites
  <2>2. CopyOf(c, n) \in SUBSET Pieces
    BY <2>1, CopyType
  <2>3. /\ Puts(n, CopyOf(c, n)) /\ Touches(c, {links[n]}, FALSE)
        /\ patched' = patched \cup CopyOf(c, n) /\ todo' = [todo EXCEPT ![c] = Tail(@)]
        /\ GoesOn /\ UNCHANGED <<left, working>>
    BY <1>8 DEF PatchWrites
  <2> HIDE DEF n
  <2>4. \A d \in Callers \ {c} : disturbed'[d] = (disturbed[d] \/ links[n] \in FilesOf(d))
    <3>1. \A d \in Callers \ {c} : disturbed'[d] = (disturbed[d] \/ {links[n]} \cap FilesOf(d) # {})
      BY <2>3 DEF Touches
    <3>2. \A d \in Callers : {links[n]} \cap FilesOf(d) # {} <=> links[n] \in FilesOf(d)
      OBVIOUS
    <3>3. \A d \in Callers \ {c} : disturbed'[d] \in BOOLEAN
      BY <1>0, <3>1 DEF SessionOK
    <3> QED
      BY <3>1, <3>2, <3>3
  <2>5. PutsThrough(c, n, CopyOf(c, n))
    BY <2>3, <2>4 DEF PutsThrough, Puts
  <2>6. \A d \in Callers \ {c} : todo'[d] = todo[d] /\ wrote'[d] = wrote[d]
    BY <1>0, <2>3 DEF SessionOK, Touches
  <2> QED
    BY <2>1, <2>2, <2>3, <2>5, <2>6 DEF Footprint, GoesOn, Touches, Puts
<1>9. CASE PatchFails(c)
  BY <1>9, NextSpelling, WriteErrorFootprint DEF PatchFails
<1> QED
  BY <1>1, <1>2, <1>3, <1>4, <1>5, <1>6, <1>7, <1>8, <1>9 DEF CallStep, ToolStep

\* Nothing is outside of the sandbox unless a spelling was relinked after its check.
OutsideUntouched == ~raced => \A f \in Files \ Sandbox : disk[f] = {}

\* A refused or denied call wrote nothing.
RefusedWroteNothing == outcome.result \in {"denied", "raised", "refused"} => outcome.wrote = {}

LEMMA FilesKept ==
    ASSUME ToolsTypeOK, NEW c \in Callers, CallInv(c), Footprint(c),
           OutsideUntouched, ReviewedUnlessPatched
    PROVE  OutsideUntouched' /\ ReviewedUnlessPatched'
<1>0. UNCHANGED <<flags, links, raced>> /\ patched \subseteq patched' /\ disk \in [Files -> SUBSET Pieces]
  BY DEF Footprint, ToolsTypeOK, FilesOK
<1>1. CASE disk' = disk
  BY <1>0, <1>1 DEF OutsideUntouched, ReviewedUnlessPatched
<1>2. ASSUME NEW n \in Checked(c) \cap Names, NEW content \in SUBSET Pieces, PutsThrough(c, n, content)
      PROVE  OutsideUntouched' /\ ReviewedUnlessPatched'
  <2>1. \A f \in Files : disk'[f] = IF f = links[n] THEN content ELSE disk[f]
    BY <1>0, <1>2 DEF PutsThrough
  <2>2. ~raced => links[n] \in Sandbox
    BY DEF CallInv
  <2>3. OutsideUntouched'
    BY <1>0, <2>1, <2>2 DEF OutsideUntouched
  <2>4. "codegen" \in flags => \A p \in content : KindOf[p] = "safe" \/ p \in patched'
    BY <1>2 DEF PutsThrough
  <2>5. ReviewedUnlessPatched'
    BY <1>0, <2>1, <2>4 DEF ReviewedUnlessPatched
  <2> QED
    BY <2>3, <2>5
<1> QED
  BY <1>1, <1>2 DEF Footprint

-------------------------------------------------------------------------------
(***************************************************************************)
(* The file tools: a batch of edits.                                       *)
(***************************************************************************)

Batch(c) == ToSet(call[c].edits)

\* The batch spells one file in two ways.
Aliased(c) == \E d, e \in Batch(c) : d.name # e.name /\ links[d.name] = links[e.name]

\* Every edit of the batch is left or made in the one working copy of its file, which
\* belongs to an edit of the batch and is still to be written or, once all edits are
\* made, is what the file contains.
Unmade(c, e) == e \in ToSet(left[c])
Made(c, e) == \E w \in working[c] : w.name = e.name /\ e.piece \in w.content
Unwritten(c, w) == w.name \in ToSet(todo[c])
Written(c, w) == left[c] = << >> /\ (~disturbed[c] /\ ~Aliased(c) => disk[links[w.name]] = w.content)

BatchInv(c) ==
    call[c].tool = "apply_patch" =>
        /\ ToSet(left[c]) \subseteq Batch(c)
        /\ \A e \in Batch(c) : Unmade(c, e) \/ Made(c, e)
        /\ \A v, w \in working[c] : v.name = w.name => v = w
        /\ \A w \in working[c] : \E e \in Batch(c) : e.name = w.name
        /\ \A w \in working[c] : Unwritten(c, w) \/ Written(c, w)

LEMMA NothingLeft == ToSet(<< >>) = {}
BY ElementsOf, EmptySeq

LEMMA IdleCall ==
    ASSUME NEW c, call[c] = NoCall, left[c] = << >>, working[c] = {}, todo[c] = << >>, wrote[c] = {}
    PROVE  CallInv(c) /\ BatchInv(c)
<1>1. call[c].tool = "none"
  BY DEF NoCall
<1>2. Checked(c) = {}
  BY <1>1 DEF Checked
<1> QED
  BY <1>1, <1>2, NothingLeft DEF CallInv, BatchInv

\* The call of c is over.
LEMMA EndedCall ==
    ASSUME ToolsTypeOK, NEW c \in Callers, NEW r, NEW files, Ends(c, r, files)
    PROVE  CallInv(c)' /\ BatchInv(c)'
<1>1. call'[c] = NoCall /\ left'[c] = << >> /\ working'[c] = {} /\ todo'[c] = << >> /\ wrote'[c] = {}
  BY EndsFrame
<1>2. call'[c].tool = "none"
  BY <1>1 DEF NoCall
<1>3. Checked(c)' = {}
  BY <1>1, <1>2 DEF Checked
<1> QED
  BY <1>1, <1>2, <1>3, NothingLeft DEF CallInv, BatchInv, Writing

\* Another call's step.
LEMMA OtherCallKept ==
    ASSUME ToolsTypeOK, NEW c \in Callers, NEW d \in Callers \ {c}, Footprint(c),
           CallInv(d), BatchInv(d)
    PROVE  CallInv(d)' /\ BatchInv(d)'
<1>1. /\ UNCHANGED <<flags, links, raced>>
      /\ call'[d] = call[d] /\ left'[d] = left[d] /\ working'[d] = working[d]
      /\ todo'[d] = todo[d] /\ wrote'[d] = wrote[d]
  BY DEF Footprint
<1>2. Checked(d)' = Checked(d) /\ Writing(d)' = Writing(d) /\ Batch(d)' = Batch(d)
  BY <1>1 DEF Checked, Writing, Batch
<1>3. CallInv(d)'
  BY <1>1, <1>2 DEF CallInv
<1>4. Aliased(d)' = Aliased(d)
  BY <1>1, <1>2 DEF Aliased
<1>5. ASSUME call[d].tool = "apply_patch", NEW w \in working[d], Written(d, w)
      PROVE  Written(d, w)'
  <2>1. w.name \in Checked(d)
    BY <1>5 DEF Checked
  <2>2. CASE disk' = disk /\ disturbed'[d] = disturbed[d]
    BY <1>1, <1>4, <1>5, <2>2 DEF Written
  <2>3. ASSUME NEW n \in Checked(c) \cap Names, NEW content \in SUBSET Pieces, PutsThrough(c, n, content)
        PROVE  Written(d, w)'
    <3>1. disk' = [disk EXCEPT ![links[n]] = content]
          /\ disturbed'[d] = (disturbed[d] \/ links[n] \in FilesOf(d))
      BY <2>3 DEF PutsThrough
    <3>2. CASE links[n] = links[w.name]
      <4>1. disturbed'[d]
        BY <2>1, <3>1, <3>2 DEF FilesOf
      <4> QED
        BY <1>1, <1>5, <4>1 DEF Written
    <3>3. CASE links[n] # links[w.name]
      <4>1. disk'[links[w.name]] = disk[links[w.name]]
        BY <3>1, <3>3
      <4>2. ~disturbed'[d] => ~disturbed[d]
        BY <3>1
      <4> QED
        BY <1>1, <1>4, <1>5, <4>1, <4>2 DEF Written
    <3> QED
      BY <3>2, <3>3
  <2> QED
    BY <2>2, <2>3 DEF Footprint
<1>6. BatchInv(d)'
  BY <1>1, <1>2, <1>5 DEF BatchInv, Unmade, Made, Unwritten
<1> QED
  BY <1>3, <1>6

\* A relink.
LEMMA RelinkKept ==
    ASSUME ToolsTypeOK, NEW n \in Relinked, NEW f \in Files, Relink(n, f), NEW d \in Callers,
           CallInv(d), BatchInv(d)
    PROVE  CallInv(d)' /\ BatchInv(d)'
<1>1. /\ call' = call /\ left' = left /\ working' = working /\ todo' = todo /\ wrote' = wrote
      /\ flags' = flags /\ disk' = disk /\ links' = [links EXCEPT ![n] = f]
      /\ raced' = (raced \/ \E c \in Callers : n \in Checked(c))
      /\ disturbed'[d] = (disturbed[d] \/ n \in Checked(d))
  BY DEF Relink, GoesOn
<1>2. Checked(d)' = Checked(d) /\ Writing(d)' = Writing(d) /\ Batch(d)' = Batch(d)
  BY <1>1 DEF Checked, Writing, Batch
<1>3. \A m : m # n => links'[m] = links[m]
  BY <1>1
<1>4. CallInv(d)'
  <2>1. ~raced' => \A m \in Checked(d) : links'[m] \in Sandbox
    BY <1>1, <1>3 DEF CallInv
  <2> QED
    BY <1>1, <1>2, <2>1 DEF CallInv
<1>5. ASSUME call[d].tool = "apply_patch", NEW w \in working[d], Written(d, w)
      PROVE  Written(d, w)'
  <2>1. \A v \in working[d] : v.name \in Checked(d)
    BY <1>5 DEF Checked
  <2>2. CASE n \in Checked(d)
    BY <1>1, <1>5, <2>2 DEF Written
  <2>3. CASE n \notin Checked(d)
    <3>1. \A e \in Batch(d) : \E v \in working[d] : v.name = e.name
      BY <1>5, NothingLeft DEF BatchInv, Written, Unmade, Made
    <3>2. \A e \in Batch(d) : links'[e.name] = links[e.name]
      BY <1>3, <2>1, <2>3, <3>1
    <3>3. Aliased(d)' <=> Aliased(d)
      BY <1>2, <3>2 DEF Aliased
    <3>4. links'[w.name] = links[w.name] /\ (disturbed'[d] <=> disturbed[d])
      BY <1>1, <1>3, <2>1, <2>3
    <3> QED
      BY <1>1, <1>5, <3>3, <3>4 DEF Written
  <2> QED
    BY <2>2, <2>3
<1>6. BatchInv(d)'
  BY <1>1, <1>2, <1>5 DEF BatchInv, Unmade, Made, Unwritten
<1> QED
  BY <1>4, <1>6

\* Of the seven guards, some are the first.
LEMMA FirstGuard ==
    ASSUME NEW S \in SUBSET (1 .. 7), S # {}
    PROVE  \E i \in S : \A j \in S : i <= j
<1> DEFINE Least(i) == \A j \in S : i <= j
<1>1. \A j \in S : j \in {1, 2, 3, 4, 5, 6, 7}
  OBVIOUS
<1>2. CASE 1 \in S
  <2>1. Least(1)
    BY <1>1, <1>2
  <2> QED
    BY <1>2, <2>1
<1>3. CASE 1 \notin S /\ 2 \in S
  <2>1. Least(2)
    BY <1>1, <1>3
  <2> QED
    BY <1>3, <2>1
<1>4. CASE 1 \notin S /\ 2 \notin S /\ 3 \in S
  <2>1. Least(3)
    BY <1>1, <1>4
  <2> QED
    BY <1>4, <2>1
<1>5. CASE 1 \notin S /\ 2 \notin S /\ 3 \notin S /\ 4 \in S
  <2>1. Least(4)
    BY <1>1, <1>5
  <2> QED
    BY <1>5, <2>1
<1>6. CASE 1 \notin S /\ 2 \notin S /\ 3 \notin S /\ 4 \notin S /\ 5 \in S
  <2>1. Least(5)
    BY <1>1, <1>6
  <2> QED
    BY <1>6, <2>1
<1>7. CASE 1 \notin S /\ 2 \notin S /\ 3 \notin S /\ 4 \notin S /\ 5 \notin S /\ 6 \in S
  <2>1. Least(6)
    BY <1>1, <1>7
  <2> QED
    BY <1>7, <2>1
<1>8. CASE 1 \notin S /\ 2 \notin S /\ 3 \notin S /\ 4 \notin S /\ 5 \notin S /\ 6 \notin S /\ 7 \in S
  <2>1. Least(7)
    BY <1>1, <1>8
  <2> QED
    BY <1>8, <2>1
<1> QED
  BY <1>1, <1>2, <1>3, <1>4, <1>5, <1>6, <1>7, <1>8

\* The code guard, when it is on, lets only safe code through: the first guard that
\* does not allow a call decides, and it is asked before or is the first.
LEMMA GuardAllows ==
    ASSUME NEW v, BeforeTool(flags, v) = "allow", "codegen" \in flags
    PROVE  CheckCode(v) = "allow"
<1> DEFINE chain == Chain(v)
           stops == {i \in DOMAIN chain : chain[i].flag \in flags /\ chain[i].verdict # "allow"}
           first == CHOOSE i \in stops : \A j \in stops : i <= j
<1>1. DOMAIN chain = 1 .. 7 /\ chain[3] = [flag |-> "codegen", verdict |-> CheckCode(v)]
  BY DEF Chain
<1>2. BeforeTool(flags, v) = IF stops = {} THEN "allow" ELSE chain[first].verdict
  BY DEF BeforeTool
<1>3. stops # {} => chain[first].verdict # "allow"
  <2>1. stops \in SUBSET (1 .. 7) /\ \A i \in stops : chain[i].verdict # "allow"
    BY <1>1
  <2> HIDE DEF stops, chain
  <2>2. stops # {} => \E i \in stops : \A j \in stops : i <= j
    BY <2>1, FirstGuard
  <2> QED
    BY <2>1, <2>2
<1>4. stops = {}
  <2> HIDE DEF stops, chain, first
  <2> QED
    BY <1>2, <1>3
<1> QED
  BY <1>1, <1>4

LEMMA StartedCall ==
    ASSUME ToolsTypeOK, NEW c \in Callers, NEW k \in Calls, Started(c, k), CallInv(c)
    PROVE  CallInv(c)' /\ BatchInv(c)'
<1>0. FilesTypeOK /\ SessionOK
  BY TypeParts DEF ToolsTypeOK
<1>1. /\ call[c] = NoCall /\ call'[c] = k
      /\ left'[c] = IF k.tool = "apply_patch" THEN k.edits ELSE << >>
      /\ working'[c] = {} /\ todo'[c] = << >> /\ wrote'[c] = wrote[c]
      /\ flags' = flags /\ BeforeTool(flags, ViewOf(k)) = "allow" /\ k.tool # "other"
  BY <1>0 DEF Started, SessionOK, history
<1>2. wrote[c] = {}
  <2>1. call[c].tool = "none"
    BY <1>0, <1>1, RunningCall
  <2> QED
    BY <2>1 DEF CallInv, Writing
<1>3. k.tool = "write_file" /\ "codegen" \in flags => KindOf[k.piece] = "safe"
  <2> SUFFICES ASSUME k.tool = "write_file", "codegen" \in flags PROVE KindOf[k.piece] = "safe"
    OBVIOUS
  <2>1. ViewOf(k).body = KindOf[k.piece]
    BY DEF ViewOf, EmptyView
  <2>2. CheckCode(ViewOf(k)) = "allow"
    BY <1>1, GuardAllows
  <2>3. KindOf[k.piece] \in {"safe", "unsafe", "unparsable"}
    BY CallKinds, FileAssumption
  <2> QED
    BY <2>1, <2>2, <2>3 DEF CheckCode, Unless
<1>4. Checked(c)' = {}
  BY <1>1, NothingLeft DEF Checked
<1>5. CallInv(c)'
  BY <1>1, <1>2, <1>3, <1>4, NothingLeft DEF CallInv
<1>6. BatchInv(c)'
  BY <1>1 DEF BatchInv, Batch, Unmade
<1> QED
  BY <1>5, <1>6

LEMMA CheckedCall ==
    ASSUME ToolsTypeOK, NEW c \in Callers, WriteChecked(c), CallInv(c)
    PROVE  CallInv(c)' /\ BatchInv(c)'
<1>0. FilesTypeOK /\ SessionOK
  BY TypeParts DEF ToolsTypeOK
<1>1. /\ call' = call /\ call[c].tool = "write_file" /\ WithinSandbox(call[c].name)
      /\ todo'[c] = <<call[c].name>> /\ UNCHANGED <<flags, links, raced, wrote, left>>
  BY <1>0 DEF WriteChecked, GoesOn, fsVars, history, SessionOK
<1>2. ToSet(<<call[c].name>>) = {call[c].name}
  <2>1. call[c].name \in Names /\ << >> \in Seq(Names)
    BY <1>0, <1>1, RunningCall, EmptySeq
  <2>2. <<call[c].name>> = Append(<< >>, call[c].name)
    OBVIOUS
  <2>3. ToSet(Append(<< >>, call[c].name)) = ToSet(<< >>) \cup {call[c].name}
    BY <2>1, ElementsOf
  <2> QED
    BY <2>2, <2>3, NothingLeft
<1>3. Checked(c)' = {call[c].name}
  BY <1>1, <1>2 DEF Checked
<1>4. CallInv(c)'
  BY <1>1, <1>2, <1>3 DEF CallInv, WithinSandbox, Writing
<1>5. BatchInv(c)'
  BY <1>1 DEF BatchInv
<1> QED
  BY <1>4, <1>5

LEMMA AppliedEdit ==
    ASSUME ToolsTypeOK, NEW c \in Callers, EditApplied(c), CallInv(c), BatchInv(c)
    PROVE  CallInv(c)' /\ BatchInv(c)'
<1>0. FilesTypeOK /\ SessionOK
  BY TypeParts DEF ToolsTypeOK
<1> PICK e : e = Head(left[c])
  OBVIOUS
<1> DEFINE new == [name |-> e.name, content |-> CopyOf(c, e.name) \cup {e.piece}]
<1>1. /\ call' = call /\ call[c].tool = "apply_patch" /\ left[c] # << >> /\ WithinSandbox(e.name)
      /\ working'[c] = Edited(c, e) /\ left'[c] = Tail(left[c])
      /\ todo'[c] = IF Read(c, e.name) THEN todo[c] ELSE Append(todo[c], e.name)
      /\ UNCHANGED <<flags, links, disk, raced, wrote, disturbed>>
  BY <1>0 DEF EditApplied, Validating, Applies, GoesOn, fsVars, history, SessionOK
<1>2. e \in Edits /\ e.name \in Names
  BY <1>1, HeadOfLeft
<1>3. ToSet(left[c]) = {e} \cup ToSet(left'[c])
  <2>1. left[c] \in Seq(Edits)
    BY <1>0 DEF SessionOK
  <2> QED
    BY <1>1, <2>1, ElementsOf
<1>4. working'[c] = {w \in working[c] : w.name # e.name} \cup {new}
  BY <1>1 DEF Edited
<1>5. /\ Read(c, e.name) => ToSet(todo'[c]) = ToSet(todo[c])
      /\ ~Read(c, e.name) => ToSet(todo'[c]) = ToSet(todo[c]) \cup {e.name}
  <2>1. todo[c] \in Seq(Names)
    BY <1>0 DEF SessionOK
  <2> QED
    BY <1>1, <1>2, <2>1, ElementsOf
<1>6. /\ Checked(c) = {w.name : w \in working[c]} /\ Checked(c)' = {w.name : w \in working'[c]}
      /\ Checked(c)' = Checked(c) \cup {e.name}
  <2>1. Checked(c) = {w.name : w \in working[c]} /\ Checked(c)' = {w.name : w \in working'[c]}
    BY <1>1 DEF Checked
  <2>2. new.name = e.name
    OBVIOUS
  <2> HIDE DEF new
  <2>3. \A w \in working[c] : w.name = e.name \/ w \in working'[c]
    BY <1>4
  <2>4. {w.name : w \in working'[c]} = {w.name : w \in working[c]} \cup {e.name}
    BY <1>4, <2>2, <2>3
  <2> QED
    BY <2>1, <2>4
<1>7. CallInv(c)'
  <2>1. ToSet(todo'[c]) \subseteq Checked(c)'
    BY <1>5, <1>6 DEF CallInv
  <2>2. wrote'[c] = {}
    BY <1>1 DEF CallInv, Writing
  <2>3. ~raced' => \A n \in Checked(c)' : links'[n] \in Sandbox
    BY <1>1, <1>6 DEF CallInv, WithinSandbox
  <2> QED
    BY <1>1, <2>1, <2>2, <2>3 DEF CallInv
<1>8. Batch(c)' = Batch(c) /\ e \in Batch(c)
  BY <1>1, <1>3 DEF Batch, BatchInv
<1>9. \A w \in working[c] : w.name \in ToSet(todo[c])
  BY <1>1 DEF BatchInv, Unwritten, Written
<1>10. \A w \in working'[c] : w.name \in ToSet(todo'[c])
  <2>1. Read(c, e.name) => e.name \in ToSet(todo[c])
    BY <1>9 DEF Read
  <2>2. e.name \in ToSet(todo'[c]) /\ ToSet(todo[c]) \subseteq ToSet(todo'[c])
    BY <1>5, <2>1
  <2> QED
    BY <1>4, <1>9, <2>2
<1>11. ASSUME NEW d \in Batch(c) PROVE Unmade(c, d)' \/ Made(c, d)'
  <2>1. CASE d = e
    <3>1. new \in working'[c] /\ new.name = d.name /\ d.piece \in new.content
      BY <1>4, <2>1
    <3> HIDE DEF new
    <3> QED
      BY <3>1 DEF Made
  <2>2. CASE d # e /\ Unmade(c, d)
    BY <1>3, <2>2 DEF Unmade
  <2>3. CASE d # e /\ ~Unmade(c, d)
    <3>1. PICK w \in working[c] : w.name = d.name /\ d.piece \in w.content
      BY <1>1, <2>3 DEF BatchInv, Made
    <3>2. CASE w.name # e.name
      BY <1>4, <3>1, <3>2 DEF Made
    <3>3. CASE w.name = e.name
      <4>1. CopyOf(c, e.name) = w.content
        <5>1. PICK v \in working[c] : v.name = e.name /\ CopyOf(c, e.name) = v.content
          BY <1>2, <3>1, <3>3, CopyType DEF Read
        <5> QED
          BY <1>1, <3>1, <3>3, <5>1 DEF BatchInv
      <4>2. new \in working'[c] /\ new.name = d.name /\ d.piece \in new.content
        BY <1>4, <3>1, <3>3, <4>1
      <4> HIDE DEF new
      <4> QED
        BY <4>2 DEF Made
    <3> QED
      BY <3>2, <3>3
  <2> QED
    BY <2>1, <2>2, <2>3
<1>12. \A v, w \in working'[c] : v.name = w.name => v = w
  <2>1. new.name = e.name
    OBVIOUS
  <2>2. \A v, w \in working[c] : v.name = w.name => v = w
    BY <1>1 DEF BatchInv
  <2> HIDE DEF new
  <2> QED
    BY <1>4, <2>1, <2>2
<1>13. \A w \in working'[c] : \E d \in Batch(c) : d.name = w.name
  BY <1>1, <1>4, <1>8 DEF BatchInv
<1>14. ToSet(left'[c]) \subseteq Batch(c)
  BY <1>1, <1>3 DEF BatchInv
<1>15. BatchInv(c)'
  BY <1>8, <1>10, <1>11, <1>12, <1>13, <1>14 DEF BatchInv, Unwritten
<1> QED
  BY <1>7, <1>15

LEMMA WrittenPatch ==
    ASSUME ToolsTypeOK, NEW c \in Callers, PatchWrites(c), CallInv(c), BatchInv(c)
    PROVE  CallInv(c)' /\ BatchInv(c)'
<1>0. FilesTypeOK /\ SessionOK /\ FilesOK
  BY TypeParts DEF ToolsTypeOK
<1> PICK n : n = Head(todo[c])
  OBVIOUS
<1>1. /\ call' = call /\ call[c].tool = "apply_patch" /\ left[c] = << >> /\ todo[c] # << >>
      /\ disk' = [disk EXCEPT ![links[n]] = CopyOf(c, n)]
      /\ todo'[c] = Tail(todo[c])
      /\ UNCHANGED <<flags, links, raced, left, working>>
      /\ disturbed'[c] = (disturbed[c] /\ ~FALSE)
  BY <1>0 DEF PatchWrites, Writing, GoesOn, Puts, Touches, SessionOK
<1>2. n \in Checked(c) /\ n \in Names /\ links[n] \in Files
  BY <1>0, <1>1, NextSpelling DEF FilesOK
<1>3. ToSet(todo[c]) = {n} \cup ToSet(todo'[c])
  <2>1. todo[c] \in Seq(Names)
    BY <1>0 DEF SessionOK
  <2> QED
    BY <1>1, <2>1, ElementsOf
<1>4. Checked(c)' = Checked(c) /\ Writing(c)' /\ Batch(c)' = Batch(c) /\ Aliased(c)' = Aliased(c)
  BY <1>1 DEF Checked, Writing, Batch, Aliased
<1>5. CallInv(c)'
  BY <1>1, <1>3, <1>4 DEF CallInv
<1>6. ASSUME NEW w \in working[c] PROVE Unwritten(c, w)' \/ Written(c, w)'
  <2>1. CASE w.name = n
    <3>1. CopyOf(c, n) = w.content
      <4>1. PICK v \in working[c] : v.name = n /\ CopyOf(c, n) = v.content
        BY <1>2, <2>1, CopyType DEF Read
      <4> QED
        BY <1>1, <2>1, <4>1 DEF BatchInv
    <3>2. disk'[links'[w.name]] = w.content
      BY <1>0, <1>1, <1>2, <2>1, <3>1 DEF FilesOK
    <3> QED
      BY <1>1, <3>2 DEF Written
  <2>2. CASE w.name # n /\ Unwritten(c, w)
    BY <1>3, <2>2 DEF Unwritten
  <2>3. CASE w.name # n /\ ~Unwritten(c, w)
    <3>1. Written(c, w)
      BY <1>1, <2>3 DEF BatchInv
    <3>2. ~Aliased(c) => links[w.name] # links[n]
      <4>1. PICK d \in Batch(c) : d.name = w.name
        BY <1>1 DEF BatchInv
      <4>2. PICK v \in working[c] : v.name = n
        BY <1>1, <1>2 DEF Checked
      <4>3. PICK e \in Batch(c) : e.name = n
        BY <1>1, <4>2 DEF BatchInv
      <4> QED
        BY <2>3, <4>1, <4>3 DEF Aliased
    <3>3. ~Aliased(c) => disk'[links'[w.name]] = disk[links[w.name]]
      BY <1>1, <3>2
    <3>4. disturbed'[c] <=> disturbed[c]
      BY <1>0, <1>1 DEF SessionOK
    <3> QED
      BY <1>1, <1>4, <3>1, <3>3, <3>4 DEF Written
  <2> QED
    BY <2>1, <2>2, <2>3
<1>7. BatchInv(c)'
  BY <1>1, <1>4, <1>6 DEF BatchInv, Unmade, Made
<1> QED
  BY <1>5, <1>7

\* The call's own step.
LEMMA OwnCallKept ==
    ASSUME ToolsTypeOK, NEW c \in Callers, CallStep(c), CallInv(c), BatchInv(c), RefusedWroteNothing
    PROVE  CallInv(c)' /\ BatchInv(c)' /\ RefusedWroteNothing'
<1>0. FilesTypeOK
  BY TypeParts
<1>1. ASSUME NEW r, Ends(c, r, {}),
             r \in {"denied", "raised", "refused"} => ~Writing(c)
      PROVE  CallInv(c)' /\ BatchInv(c)' /\ RefusedWroteNothing'
  <2>1. outcome' = [result |-> r, wrote |-> wrote[c]]
    BY <1>1 DEF Ends, Over
  <2>2. r \in {"denied", "raised", "refused"} => wrote[c] = {}
    BY <1>1 DEF CallInv
  <2> QED
    BY <1>1, <2>1, <2>2, EndedCall DEF RefusedWroteNothing
<1>2. ASSUME NEW files, NEW r \in {"ok", "failed"}, Ends(c, r, files)
      PROVE  CallInv(c)' /\ BatchInv(c)' /\ RefusedWroteNothing'
  <2>1. outcome' = [result |-> r, wrote |-> wrote[c] \cup files]
    BY <1>2, EndsFrame
  <2> QED
    BY <1>2, <2>1, EndedCall DEF RefusedWroteNothing
<1>3. ASSUME NEW k \in Calls, Stopped(c, k) \/ Passed(c, k)
      PROVE  CallInv(c)' /\ BatchInv(c)' /\ RefusedWroteNothing'
  <2>1. PICK r : Ends(c, r, {})
    BY <1>3 DEF Stopped, Passed
  <2>2. call[c].tool = "none"
    BY <1>0, <1>3, RunningCall DEF Stopped, Passed
  <2> QED
    BY <1>1, <2>1, <2>2 DEF Writing
<1>4. ASSUME NEW k \in Calls, Started(c, k)
      PROVE  CallInv(c)' /\ BatchInv(c)' /\ RefusedWroteNothing'
  <2>1. outcome' = NoOutcome
    BY <1>4 DEF Started
  <2> QED
    BY <1>4, <2>1, StartedCall DEF RefusedWroteNothing, NoOutcome
<1>5. CASE WriteRefused(c) \/ EditRefused(c)
  <2>1. Ends(c, "refused", {}) /\ ~Writing(c)
    BY <1>5 DEF WriteRefused, EditRefused, Validating, Writing
  <2> QED
    BY <1>1, <2>1
<1>6. CASE WriteDone(c) \/ WriteFails(c) \/ PatchFails(c) \/ PatchDone(c)
  <2>1. PICK r, files : r \in {"ok", "failed"} /\ Ends(c, r, files)
    BY <1>6 DEF WriteDone, WriteFails, PatchFails, PatchDone, WriteError
  <2> QED
    BY <1>2, <2>1
<1>7. CASE WriteChecked(c) \/ EditApplied(c) \/ PatchWrites(c)
  <2>1. outcome' = NoOutcome
    BY <1>7 DEF WriteChecked, EditApplied, PatchWrites, GoesOn
  <2>2. RefusedWroteNothing'
    BY <2>1 DEF RefusedWroteNothing, NoOutcome
  <2> QED
    BY <1>7, <2>2, CheckedCall, AppliedEdit, WrittenPatch
<1> QED
  BY <1>3, <1>4, <1>5, <1>6, <1>7 DEF CallStep, ToolStep

ToolsInv ==
    /\ ToolsTypeOK /\ OutsideUntouched /\ ReviewedUnlessPatched /\ RefusedWroteNothing
    /\ \A c \in Callers : CallInv(c) /\ BatchInv(c)

LEMMA ToolsInvBegins == ASSUME ToolsInit PROVE ToolsInv
<1>1. ToolsTypeOK
  BY ToolsBegin
<1>2. OutsideUntouched /\ ReviewedUnlessPatched /\ RefusedWroteNothing
  BY FileAssumption DEF ToolsInit, OutsideUntouched, ReviewedUnlessPatched, RefusedWroteNothing, NoOutcome
<1>3. \A c \in Callers : CallInv(c) /\ BatchInv(c)
  BY IdleCall DEF ToolsInit
<1> QED
  BY <1>1, <1>2, <1>3 DEF ToolsInv

LEMMA ToolsInvKept == ASSUME ToolsInv, [ToolsStep]_writeVars PROVE ToolsInv'
<1>1. ToolsTypeOK /\ ToolsTypeOK'
  BY ToolsTypeStep DEF ToolsInv
<1>2. ASSUME NEW c \in Callers, CallStep(c) PROVE ToolsInv'
  <2>1. Footprint(c)
    BY <1>1, <1>2, StepFootprint DEF ToolsInv
  <2>2. OutsideUntouched' /\ ReviewedUnlessPatched'
    BY <1>1, <2>1, FilesKept DEF ToolsInv
  <2>3. CallInv(c)' /\ BatchInv(c)' /\ RefusedWroteNothing'
    BY <1>1, <1>2, OwnCallKept DEF ToolsInv
  <2>4. \A d \in Callers \ {c} : CallInv(d)' /\ BatchInv(d)'
    BY <1>1, <2>1, OtherCallKept DEF ToolsInv
  <2> QED
    BY <1>1, <2>2, <2>3, <2>4 DEF ToolsInv
<1>3. ASSUME NEW n \in Relinked, NEW f \in Files, Relink(n, f) PROVE ToolsInv'
  <2>1. \A d \in Callers : CallInv(d)' /\ BatchInv(d)'
    BY <1>1, <1>3, RelinkKept DEF ToolsInv
  <2>2. OutsideUntouched' /\ ReviewedUnlessPatched' /\ RefusedWroteNothing'
    BY <1>3 DEF ToolsInv, Relink, GoesOn, OutsideUntouched, ReviewedUnlessPatched, RefusedWroteNothing, NoOutcome
  <2> QED
    BY <1>1, <2>1, <2>2 DEF ToolsInv
<1>4. CASE UNCHANGED writeVars
  <2>1. OutsideUntouched' /\ ReviewedUnlessPatched' /\ RefusedWroteNothing'
    BY <1>4 DEF writeVars, fsVars, history, ToolsInv, OutsideUntouched, ReviewedUnlessPatched, RefusedWroteNothing
  <2>2. \A c \in Callers : CallInv(c)' /\ BatchInv(c)'
    BY <1>4 DEF writeVars, fsVars, toolVars, history, ToolsInv, CallInv, Checked, Writing, BatchInv, Batch,
                Unmade, Made, Unwritten, Written, Aliased
  <2> QED
    BY <1>1, <2>1, <2>2 DEF ToolsInv
<1> QED
  BY <1>2, <1>3, <1>4 DEF ToolsStep, CallStep

LEMMA ToolsInvHolds == Spec => []ToolsInv
<1>1. Init => ToolsInv
  BY PartsBegin, ToolsInvBegins
<1>2. ToolsInv /\ [Next]_vars => ToolsInv'
  BY PartsStep, ToolsInvKept
<1> QED
  BY <1>1, <1>2, PTL DEF Spec

\* SandboxHolds: whatever agents there are, and whichever calls they make at the same
\* time, write_file and apply_patch write nothing outside their sandbox as long as no
\* spelling is relinked between the check of its path and the write.
THEOREM WritesStayInside == Spec => []SandboxHolds
<1>1. ToolsInv => SandboxHolds
  BY TypeParts DEF ToolsInv, OutsideUntouched, SandboxHolds
<1> QED
  BY <1>1, ToolsInvHolds, PTL

\* ReviewedUnlessPatched: with the code review on, what is in any file is code the guard
\* has found safe or a piece that an edit of apply_patch has put there.
THEOREM UnreviewedCodeIsPatched == Spec => []ReviewedUnlessPatched
<1>1. ToolsInv => ReviewedUnlessPatched
  BY DEF ToolsInv
<1> QED
  BY <1>1, ToolsInvHolds, PTL

\* PatchIsAllOrNothing: a refused or denied call has written nothing, and when apply_patch
\* is about to report success, every edit of a batch of any length is on disk, unless
\* another writer or a relink disturbed it or the batch spells one file in two ways.
THEOREM PatchesAreWhole == Spec => []PatchIsAllOrNothing
<1>1. ToolsInv => PatchIsAllOrNothing
  <2> SUFFICES ASSUME ToolsInv PROVE PatchIsAllOrNothing
    OBVIOUS
  <2>1. ASSUME NEW c \in Callers, Writing(c), todo[c] = << >>, ~disturbed[c], ~Aliased(c),
               NEW e \in Batch(c)
        PROVE  e.piece \in disk[links[e.name]]
    <3>1. BatchInv(c) /\ call[c].tool = "apply_patch" /\ left[c] = << >>
      BY <2>1 DEF ToolsInv, Writing
    <3>2. PICK w \in working[c] : w.name = e.name /\ e.piece \in w.content
      BY <3>1, NothingLeft DEF BatchInv, Unmade, Made
    <3>3. disk[links[w.name]] = w.content
      BY <2>1, <3>1, NothingLeft DEF BatchInv, Unwritten, Written
    <3> QED
      BY <3>2, <3>3
  <2> QED
    BY <2>1 DEF ToolsInv, RefusedWroteNothing, PatchIsAllOrNothing, Batch, Aliased
<1> QED
  BY <1>1, ToolsInvHolds, PTL
===============================================================================
