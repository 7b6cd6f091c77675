------------------------------- MODULE Chunker -------------------------------
(***************************************************************************)
(* chunk_file (payload_agents/_lib/chunker.py): a large source file is cut *)
(* at the lines where a function or a class begins, each chunk with some   *)
(* lines of context before it.  A file is its number of lines and the      *)
(* boundaries the language's pattern finds, as indices from 0; the lines   *)
(* of a chunk are numbered from 1.                                         *)
(***************************************************************************)
EXTENDS Integers, Sequences

CONSTANTS
    MaxTotal,       \* bound: lines of a file
    MAX_LINES,      \* a file of at most so many lines, and not too wide, stays whole
    OVERLAP_LINES,  \* lines of context
    Targets         \* values of target_chunk_lines

\* With a target of 0 the fixed-size loop would not advance.
ASSUME ChunkerAssumption ==
    /\ MaxTotal \in Nat \ {0} /\ MAX_LINES \in Nat /\ OVERLAP_LINES \in Nat
    /\ Targets # {} /\ Targets \subseteq Nat \ {0}

VARIABLES
    total,          \* lines of the file
    wide,           \* it has more than MAX_CHARS characters
    target,         \* target_chunk_lines
    scanned,        \* lines the pattern was matched with
    boundaries,     \* indices of the lines that begin a definition
    at,             \* the loop's position: in boundaries, or the next fixed start
    chunk_start,    \* index of the first line that is in no finished chunk's share
    chunks,         \* the chunks made
    cutting         \* the loop is running

fileVars == <<total, wide, target>>
scanVars == <<scanned, boundaries>>
chunkVars == <<fileVars, scanVars, at, chunk_start, chunks, cutting>>

Chunks == [start_line : 1 .. MaxTotal, end_line : 0 .. MaxTotal, from : 1 .. MaxTotal]

ChunkTypeOK ==
    /\ total \in 1 .. MaxTotal /\ wide \in BOOLEAN /\ target \in Targets
    /\ scanned \in 0 .. total /\ boundaries \in Seq(0 .. total - 1)
    /\ at \in 0 .. MaxTotal /\ chunk_start \in 0 .. total
    /\ chunks \in Seq(Chunks) /\ cutting \in BOOLEAN

\* chunk_file(text, language, target_chunk_lines) is called.
Call ==
    /\ total \in 1 .. MaxTotal /\ wide \in BOOLEAN /\ target \in Targets
    /\ scanned = 0 /\ boundaries = << >>
    /\ at = 0 /\ chunk_start = 0 /\ chunks = << >>

needs_chunking == total > MAX_LINES \/ wide

\* The file is to be cut, and its boundaries are known.
Scanned == needs_chunking /\ scanned = total

\* The chunk of the lines with indices in start .. end - 1, and its context.
Chunk(start, end) ==
    [start_line |-> start + 1, end_line |-> end,
     from |-> (IF start > OVERLAP_LINES THEN start - OVERLAP_LINES ELSE 0) + 1]

Done == cutting' = FALSE

ReturnWhole ==
    /\ cutting /\ ~needs_chunking
    /\ chunks' = <<[start_line |-> 1, end_line |-> total, from |-> 1]>>
    /\ Done
    /\ UNCHANGED <<fileVars, scanVars, at, chunk_start>>

\* The language's pattern is matched with the next line, which is whatever it is.
Scan ==
    /\ cutting /\ needs_chunking /\ scanned < total
    /\ boundaries' \in {boundaries, Append(boundaries, scanned)}
    /\ scanned' = scanned + 1
    /\ UNCHANGED <<fileVars, at, chunk_start, chunks, cutting>>

\* One round of _fixed_size_chunks, for a file without boundaries.
FixedSize ==
    /\ cutting /\ Scanned /\ boundaries = << >>
    /\ IF at < total
       THEN LET end == IF at + target < total THEN at + target ELSE total
            IN  /\ chunks' = Append(chunks, Chunk(at, end))
                /\ at' = end
                /\ UNCHANGED cutting
       ELSE Done /\ UNCHANGED <<chunks, at>>
    /\ UNCHANGED <<fileVars, scanVars, chunk_start>>

\* Mutant of EndOf: the chunk ends where the boundary begins.
EndOfAtBoundary(i) == boundaries[i]

\* A chunk closed at boundary i takes in that definition too.
EndOf(i) == IF i < Len(boundaries) THEN boundaries[i + 1] ELSE total

\* The loop at its next boundary: a chunk is closed when it is long enough, or at the
\* last boundary; the next one begins at this boundary again.
Visit ==
    /\ cutting /\ Scanned /\ at < Len(boundaries)
    /\ LET i == at + 1
           boundary == boundaries[i]
       IN  IF boundary - chunk_start >= target \/ i = Len(boundaries)
           THEN /\ chunks' = Append(chunks, Chunk(chunk_start, EndOf(i)))
                /\ chunk_start' = boundary
           ELSE UNCHANGED <<chunks, chunk_start>>
    /\ at' = at + 1
    /\ UNCHANGED <<fileVars, scanVars, cutting>>

\* After the loop, what is left of the file.
ReturnChunks ==
    /\ cutting /\ Scanned /\ boundaries # << >> /\ at = Len(boundaries)
    /\ chunks' = IF chunk_start < total /\ (chunks = << >> \/ chunks[Len(chunks)].end_line < total)
                 THEN Append(chunks, Chunk(chunk_start, total)) ELSE chunks
    /\ Done
    /\ UNCHANGED <<fileVars, scanVars, at, chunk_start>>

ChunkStep == ReturnWhole \/ Scan \/ FixedSize \/ Visit \/ ReturnChunks

-------------------------------------------------------------------------------
(***************************************************************************)
(* Properties                                                              *)
(***************************************************************************)

IsBoundary(index) == \E i \in DOMAIN boundaries : boundaries[i] = index

\* The state is well typed, and the chunks chunk_file returns lose no line and repeat
\* no chunk: they begin with the first line and end with the last, each begins after
\* its predecessor began and no later than it ended; and they cut at definitions
\* only, if the file has any.
ChunksCoverFile ==
    /\ ChunkTypeOK
    /\ ~cutting /\ chunks # << >> =>
        /\ chunks[1].start_line = 1 /\ chunks[Len(chunks)].end_line = total
        /\ \A k \in 2 .. Len(chunks) :
              /\ chunks[k - 1].start_line < chunks[k].start_line
              /\ chunks[k].start_line <= chunks[k - 1].end_line + 1
              /\ chunks[k].end_line > chunks[k - 1].end_line
        /\ boundaries # << >> =>
              \A k \in DOMAIN chunks :
                 /\ chunks[k].start_line = 1 \/ IsBoundary(chunks[k].start_line - 1)
                 /\ chunks[k].end_line = total \/ IsBoundary(chunks[k].end_line)
===============================================================================
