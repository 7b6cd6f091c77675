------------------------------ MODULE CloudLedger ------------------------------
(***************************************************************************)
(* DynamoDbHashChainBackend (cloud_adapters/aws/audit.py) and              *)
(* BigQueryHashChainBackend (cloud_adapters/gcp/audit.py), one backend per *)
(* agent, all storing rows of one run_id.  The two differ only in what     *)
(* their worker thread does.  _write_all puts items whose sort key         *)
(* entry_seq is the index in the queue: a put replaces the item with the   *)
(* same key, the items of one batch (25) arrive in any order, and a batch  *)
(* that fails leaves any part of itself behind.  _insert_all makes one     *)
(* streaming insert: it stores all the rows, or reports row errors, which  *)
(* are only logged, and stores none, or raises before or after the rows    *)
(* were stored; two rows may have the same entry_seq.                      *)
(* Both iterate the live queue in a thread that flush_async awaits: other  *)
(* tasks go on writing, an entry they queue is still taken while the       *)
(* thread iterates and is not afterwards, and the clear that follows drops *)
(* what was not taken.                                                     *)
(* LocalHashChainBackend (cloud_adapters/local/audit.py) queues alike and  *)
(* never writes out: its flush_async does nothing, the queue is the ledger.*)
(***************************************************************************)
EXTENDS HashChain, FiniteSets, SequencesExt

CONSTANTS
    Agents,         \* the agents of the run
    Entries,        \* hashed contents an audit entry can have
    MaxEntries,     \* bound: entries each agent writes
    MaxFailures     \* bound: requests that raise in one behaviour

ASSUME BoundsAssumption ==
    /\ IsFiniteSet(Agents) /\ Agents # {}
    /\ MaxEntries \in [Agents -> Nat \ {0}] /\ MaxFailures \in Nat

VARIABLES
    provider,   \* "aws", "gcp" or "local": the backend the deployment selected
    connected,  \* is there a client (else stdout mode)
    buffer,     \* _buffer of each backend
    last_hash,  \* _last_hash of each backend
    pc,         \* where flush_async of each backend is
    batch,      \* how much of the queue the running flush has taken, so far at least
    put,        \* aws: positions of the queue already put by the running batch
    table,      \* rows of the run_id, by entry_seq
    written,    \* history: contents each agent wrote
    flushed,    \* history: for each flush that returned, where in the log its rows end
    rejected,   \* history: positions of the log in requests with row errors
    failures    \* history: requests that raised, bounded by MaxFailures

ledgerVars == <<provider, connected, buffer, last_hash, pc, batch, put, table, written,
          flushed, rejected, failures>>

Phases == {"idle", "sending", "stored", "row_errors", "crashed"}

\* The entry_seq values a queue can give its rows.
Seqs == 0 .. Max({MaxEntries[a] : a \in Agents}) - 1

LedgerTypeOK ==
    /\ provider \in {"aws", "gcp", "local"} /\ connected \in BOOLEAN
    /\ provider = "local" => ~connected
    /\ buffer \in [Agents -> Seq(Rows(Entries))]
    /\ last_hash \in [Agents -> Seq(Entries)]
    /\ pc \in [Agents -> Phases]
    /\ table \in [Seqs -> Seq(Rows(Entries))]
    /\ provider = "aws" => \A s \in Seqs : Len(table[s]) <= 1
    /\ written \in [Agents -> Seq(Entries)]
    /\ \A a \in Agents :
          /\ batch[a] \in 0 .. Len(buffer[a])
          /\ put[a] \subseteq DOMAIN buffer[a]
          /\ rejected[a] \subseteq DOMAIN written[a]
          /\ flushed[a] \in Seq(DOMAIN written[a])
    /\ failures \in 0 .. MaxFailures

\* create(): no client without the package, its configuration, or when the
\* client cannot be built.
LedgerInit ==
    /\ provider \in {"aws", "gcp", "local"} /\ connected \in BOOLEAN
    /\ provider = "local" => ~connected
    /\ buffer = [a \in Agents |-> << >>]
    /\ last_hash = [a \in Agents |-> Genesis]
    /\ pc = [a \in Agents |-> "idle"]
    /\ batch = [a \in Agents |-> 0]
    /\ put = [a \in Agents |-> {}]
    /\ table = [s \in Seqs |-> << >>]
    /\ written = [a \in Agents |-> << >>]
    /\ flushed = [a \in Agents |-> << >>]
    /\ rejected = [a \in Agents |-> {}]
    /\ failures = 0

\* write(entry): hash, queue, advance the chain, whether or not a flush is waiting.
Write(a, e) ==
    /\ pc[a] # "crashed"
    /\ Len(written[a]) < MaxEntries[a]
    /\ buffer' = [buffer EXCEPT ![a] = Append(@, Row(e, last_hash[a]))]
    /\ last_hash' = [last_hash EXCEPT ![a] = Hash(e, @)]
    /\ written' = [written EXCEPT ![a] = Append(@, e)]
    /\ UNCHANGED <<provider, connected, pc, batch, put, table, flushed, rejected, failures>>

\* flush_async() with no client or nothing queued: forget the queue.
FlushNothing(a) ==
    /\ provider # "local" /\ pc[a] = "idle"
    /\ ~connected \/ buffer[a] = << >>
    /\ buffer' = [buffer EXCEPT ![a] = << >>]
    /\ UNCHANGED <<provider, connected, last_hash, pc, batch, put, table, written, flushed,
                   rejected, failures>>

\* flush_async(): the worker thread starts, and will take at least what is queued.
FlushBegin(a) ==
    /\ pc[a] = "idle"
    /\ connected /\ buffer[a] # << >>
    /\ pc' = [pc EXCEPT ![a] = "sending"]
    /\ batch' = [batch EXCEPT ![a] = Len(buffer[a])]
    /\ UNCHANGED <<provider, connected, buffer, last_hash, put, table, written, flushed,
                   rejected, failures>>

\* How much of the queue the thread may take: it meets the end of the queue as it was
\* when the thread started, or after a write since.
Taken(a) == batch[a] .. Len(buffer[a])

\* aws: one item of the batch reaches the table under the key of its position.
FlushPut(a) ==
    /\ provider = "aws" /\ pc[a] = "sending"
    /\ \E i \in DOMAIN buffer[a] \ put[a] :
          /\ table' = [table EXCEPT ![i - 1] = <<buffer[a][i]>>]
          /\ put' = [put EXCEPT ![a] = @ \cup {i}]
    /\ UNCHANGED <<provider, connected, buffer, last_hash, pc, batch, written, flushed,
                   rejected, failures>>

\* aws: the loop has met the end of the queue and its items are all put.
FlushSent(a) ==
    /\ provider = "aws" /\ pc[a] = "sending"
    /\ \E n \in Taken(a) :
          /\ put[a] = 1 .. n
          /\ batch' = [batch EXCEPT ![a] = n]
    /\ pc' = [pc EXCEPT ![a] = "stored"]
    /\ UNCHANGED <<provider, connected, buffer, last_hash, put, table, written, flushed,
                   rejected, failures>>

\* gcp: the table with the first n of the queue inserted, numbered from 0.
WithRows(a, n) ==
    [s \in Seqs |-> IF s < n THEN Append(table[s], buffer[a][s + 1]) ELSE table[s]]

\* gcp: the rows are stored and the call reports no error.
InsertAccepted(a) ==
    /\ provider = "gcp" /\ pc[a] = "sending"
    /\ \E n \in Taken(a) :
          /\ table' = WithRows(a, n)
          /\ batch' = [batch EXCEPT ![a] = n]
    /\ pc' = [pc EXCEPT ![a] = "stored"]
    /\ UNCHANGED <<provider, connected, buffer, last_hash, put, written, flushed, rejected,
                   failures>>

\* gcp: the call returns row errors, which are only logged.
InsertRejected(a) ==
    /\ provider = "gcp" /\ pc[a] = "sending"
    /\ \E n \in Taken(a) : batch' = [batch EXCEPT ![a] = n]
    /\ pc' = [pc EXCEPT ![a] = "row_errors"]
    /\ UNCHANGED <<provider, connected, buffer, last_hash, put, table, written, flushed,
                   rejected, failures>>

\* How much of the log came before the queue.
Before(a) == Len(written[a]) - Len(buffer[a])

\* flush_async() goes on: self._buffer.clear(), with whatever was queued meanwhile.
FlushClear(a) ==
    /\ pc[a] \in {"stored", "row_errors"}
    /\ pc' = [pc EXCEPT ![a] = "idle"]
    /\ buffer' = [buffer EXCEPT ![a] = << >>]
    /\ batch' = [batch EXCEPT ![a] = 0]
    /\ put' = [put EXCEPT ![a] = {}]
    /\ flushed' = [flushed EXCEPT ![a] = Append(@, Before(a) + batch[a])]
    /\ rejected' = IF pc[a] = "row_errors"
                   THEN [rejected EXCEPT ![a] = @ \cup (Before(a) + 1 .. Before(a) + batch[a])]
                   ELSE rejected
    /\ UNCHANGED <<provider, connected, last_hash, table, written, failures>>

\* What a thread that does not report back leaves in the table: an aws batch what
\* was put, a gcp request its rows or nothing.
LeavesRows(a) ==
    \/ table' = table
    \/ provider = "gcp" /\ pc[a] = "sending" /\ \E n \in Taken(a) : table' = WithRows(a, n)

\* Mutant of FlushFail: the queue is cleared all the same.
FlushFailClears(a) ==
    /\ pc[a] = "sending"
    /\ failures < MaxFailures
    /\ LeavesRows(a)
    /\ pc' = [pc EXCEPT ![a] = "idle"]
    /\ buffer' = [buffer EXCEPT ![a] = << >>]
    /\ batch' = [batch EXCEPT ![a] = 0]
    /\ put' = [put EXCEPT ![a] = {}]
    /\ failures' = failures + 1
    /\ UNCHANGED <<provider, connected, last_hash, written, flushed, rejected>>

\* The thread raises; the queue is kept.
FlushFail(a) ==
    /\ pc[a] = "sending"
    /\ failures < MaxFailures
    /\ LeavesRows(a)
    /\ pc' = [pc EXCEPT ![a] = "idle"]
    /\ batch' = [batch EXCEPT ![a] = 0]
    /\ put' = [put EXCEPT ![a] = {}]
    /\ failures' = failures + 1
    /\ UNCHANGED <<provider, connected, buffer, last_hash, written, flushed, rejected>>

\* The agent's process dies, possibly with its gcp request already accepted:
\* its queue is gone, what was stored stays.
Crash(a) ==
    /\ pc[a] # "crashed"
    /\ LeavesRows(a)
    /\ pc' = [pc EXCEPT ![a] = "crashed"]
    /\ buffer' = [buffer EXCEPT ![a] = << >>]
    /\ batch' = [batch EXCEPT ![a] = 0]
    /\ put' = [put EXCEPT ![a] = {}]
    /\ UNCHANGED <<provider, connected, last_hash, written, flushed, rejected, failures>>

\* What the owner of a backend may do, with the faults it may meet.
LedgerStep(a) ==
    \/ \E e \in Entries : Write(a, e)
    \/ FlushNothing(a)
    \/ FlushBegin(a)
    \/ FlushPut(a)
    \/ FlushSent(a)
    \/ InsertAccepted(a)
    \/ InsertRejected(a)
    \/ FlushClear(a)
    \/ FlushFail(a)
    \/ Crash(a)

-------------------------------------------------------------------------------
(***************************************************************************)
(* Properties                                                              *)
(***************************************************************************)

\* The orders n rows can come in, written out once for as many as
\* a key mostly has.
OrdersOf(n) == {p \in [1 .. n -> 1 .. n] : {p[i] : i \in 1 .. n} = 1 .. n}
FewOrders == [n \in 0 .. Cardinality(Agents) * Cardinality(Seqs) |-> {p : p \in OrdersOf(n)}]
Orders(n) == IF n \in DOMAIN FewOrders THEN FewOrders[n] ELSE OrdersOf(n)

\* The rows under one entry_seq, in one of their orders.
Ordered(rows, p) == [i \in 1 .. Len(rows) |-> rows[p[i]]]

\* The rows whose entry_seq is at least s, in every order the query of
\* verify_chain() can give: ascending entry_seq, equal ones in any order.
ScansFrom[s \in 0 .. Cardinality(Seqs)] ==
    IF s = Cardinality(Seqs) THEN {<< >>}
    ELSE {Ordered(table[s], p) \o rest :
              p \in Orders(Len(table[s])), rest \in ScansFrom[s + 1]}

Scans == ScansFrom[0]

\* Is a the only agent that has written to the run?  Otherwise DynamoDB items
\* overwrite each other.
IsOnly(a) == \A b \in Agents \ {a} : written[b] = << >>

\* Has it written nothing, besides, since a flush took its rows?  What it writes
\* while the flush waits is dropped, and what it writes later overwrites items again.
IsAlone(a) ==
    /\ IsOnly(a)
    /\ flushed[a] \in {<< >>, <<Len(written[a])>>}

\* DynamoDB, one agent, one flush that takes all of its log, entries queued while
\* it iterates included: the flush that returns has healed whatever failed attempts
\* left behind.  With nothing queued, the table is the agent's whole log, in order,
\* and verifies.
FlushHeals ==
    \A a \in Agents :
        /\ provider = "aws" /\ connected /\ pc[a] # "crashed"
        /\ IsAlone(a) /\ buffer[a] = << >>
        => \A rows \in Scans : VerifyChain(rows) /\ Contents(rows) = written[a]

\* A scan that verifies is the beginning of one agent's own log: however the
\* agents of the run overwrite each other, rows are inserted twice or refused,
\* requests fail or agents die, verify_chain() never accepts a mix, a gap or a
\* reordering of their entries.
VerifiedIsOneLog ==
    \A rows \in Scans :
        VerifyChain(rows) => \E a \in Agents : IsPrefix(Contents(rows), written[a])
===============================================================================
