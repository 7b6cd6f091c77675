------------------------------ MODULE HashChain ------------------------------
(***************************************************************************)
(* The SHA-256 hash chain that every audit store of the platform keeps:    *)
(* each row holds the hash of its own content joined to the hash of the    *)
(* row before it, and verify_chain re-derives every hash from the stored   *)
(* columns.                                                                *)
(*                                                                         *)
(* A hash is represented by the sequence of contents that were fed into    *)
(* it, oldest first.  Two hashes are then equal exactly when the same      *)
(* contents were chained in the same order: SHA-256 without collisions.    *)
(* A content stands for the tuple of hashed columns (run_id, module_id,    *)
(* agent_type, action, outcome, attempt); the columns that are not hashed  *)
(* are left out.                                                           *)
(***************************************************************************)
EXTENDS Naturals, Sequences

\* _GENESIS_HASH: the hash nothing has been chained to yet.
Genesis == << >>

\* Mutant of Hash: the previous hash is left out of the digest.
HashIgnoresPrev(content, prev) == <<content>>

\* _compute_hash(..., prev): one content chained to the previous hash.
Hash(content, prev) == Append(prev, content)

\* Mutant of Row: the row is stored without the hash it was chained to.
RowWithoutPrev(content, prev) ==
    [content |-> content, entry_hash |-> Hash(content, prev)]

\* One stored row: the hashed content and its two hash columns.
Row(content, prev) ==
    [content |-> content, entry_hash |-> Hash(content, prev), prev_hash |-> prev]

Rows(S) == [content : S, entry_hash : Seq(S), prev_hash : Seq(S)]

\* The hash the verifier holds when it reaches row i: the stored entry_hash of
\* the row before it.
PrevHash(rows, i) == IF i = 1 THEN Genesis ELSE rows[i - 1].entry_hash

\* The hash a writer that had stored exactly these rows would chain to next.
TailHash(rows) == PrevHash(rows, Len(rows) + 1)

\* verify_chain of the persistent stores; the prev_hash column is not read:
\* every entry_hash is the hash of the row's content and the hash before it.
VerifyChain(rows) ==
    \A i \in DOMAIN rows : rows[i].entry_hash = Hash(rows[i].content, PrevHash(rows, i))

\* The hashed contents of the rows, in order.
Contents(rows) == [i \in DOMAIN rows |-> rows[i].content]
==============================================================================
