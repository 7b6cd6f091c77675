---------------------------- MODULE PostgresLedger ----------------------------
(***************************************************************************)
(* PostgresHashChainBackend (cloud_adapters/azure/audit.py): the audit     *)
(* stores of one run_id in trace_ledger.  Each agent of the run opens a    *)
(* store of its own, and so does each process restarted under the run_id;  *)
(* each starts its chain at the genesis hash.  write() is synchronous and  *)
(* only queues; flush_async() is a coroutine that inserts the queue inside *)
(* one transaction and empties the queue afterwards.  Every await of       *)
(* flush_async is a point where another task of the event loop may write,  *)
(* another store may be active, the connection may fail or the process may *)
(* die, so each is a step of its own.                                      *)
(***************************************************************************)
EXTENDS HashChain

CONSTANTS
    Stores,             \* the backend objects opened for the run_id
    Entries,            \* hashed contents an audit entry can have
    MaxEntries,         \* bound: entries written through each store
    MaxFailures,        \* bound: failed flushes in one behaviour
    WriteDuringFlush,   \* may another task write while a flush awaits?
    LateFailures        \* may a flush fail after its commit took effect?

ASSUME StoresAssumption == Stores # {}
ASSUME BoundsAssumption == MaxEntries \in [Stores -> Nat] /\ MaxFailures \in Nat
ASSUME EnvironmentAssumption == WriteDuringFlush \in BOOLEAN /\ LateFailures \in BOOLEAN

VARIABLES
    pool,       \* has the store a connection pool (else stdout mode)
    buffer,     \* _buffer: rows queued and not yet known to be stored
    last_hash,  \* _last_hash
    pc,         \* where flush_async is, or "idle" / "closed" / "crashed"
    txn,        \* rows inserted by the open transaction
    stored,     \* rows of the run the store has committed to trace_ledger
    ids,        \* the ids of its committed rows, then of those of its transaction
    drawn,      \* how many ids trace_ledger has handed out (BIGSERIAL)
    written,    \* history: contents passed to write(), in order
    failures    \* history: failed flushes, bounded by MaxFailures

vars == <<pool, buffer, last_hash, pc, txn, stored, ids, drawn, written, failures>>

Flushing == {"inserting", "committing", "releasing"}
Phases == Flushing \cup {"idle", "closed", "crashed"}

TypeOK ==
    /\ pool \in [Stores -> BOOLEAN]
    /\ buffer \in [Stores -> Seq(Rows(Entries))]
    /\ last_hash \in [Stores -> Seq(Entries)]
    /\ pc \in [Stores -> Phases]
    /\ txn \in [Stores -> Seq(Rows(Entries))]
    /\ stored \in [Stores -> Seq(Rows(Entries))]
    /\ ids \in [Stores -> Seq(Nat)]
    /\ drawn \in Nat
    /\ written \in [Stores -> Seq(Entries)]
    /\ failures \in Nat

\* create(), for each store: the pool is missing without a DSN, without
\* asyncpg, or when create_pool raised.
Init ==
    /\ pool \in [Stores -> BOOLEAN]
    /\ buffer = [s \in Stores |-> << >>] /\ last_hash = [s \in Stores |-> Genesis]
    /\ pc = [s \in Stores |-> "idle"] /\ txn = [s \in Stores |-> << >>]
    /\ stored = [s \in Stores |-> << >>] /\ ids = [s \in Stores |-> << >>]
    /\ drawn = 0
    /\ written = [s \in Stores |-> << >>]
    /\ failures = 0

\* Mutant of Write: the chain is not advanced, every row chains to the same hash.
WriteKeepsLastHash(s, e) ==
    /\ pc[s] # "crashed"
    /\ pc[s] \in Flushing => WriteDuringFlush
    /\ Len(written[s]) < MaxEntries[s]
    /\ buffer' = [buffer EXCEPT ![s] = Append(@, Row(e, last_hash[s]))]
    /\ written' = [written EXCEPT ![s] = Append(@, e)]
    /\ UNCHANGED <<pool, last_hash, pc, txn, stored, ids, drawn, failures>>

\* write(entry): hash, queue, advance the chain.  Runs to completion: there is
\* no await in it.
Write(s, e) ==
    /\ pc[s] # "crashed"
    /\ pc[s] \in Flushing => WriteDuringFlush
    /\ Len(written[s]) < MaxEntries[s]
    /\ buffer' = [buffer EXCEPT ![s] = Append(@, Row(e, last_hash[s]))]
    /\ last_hash' = [last_hash EXCEPT ![s] = Hash(e, @)]
    /\ written' = [written EXCEPT ![s] = Append(@, e)]
    /\ UNCHANGED <<pool, pc, txn, stored, ids, drawn, failures>>

\* flush_async() with no pool or nothing queued: forget the queue.
FlushNothing(s) ==
    /\ pc[s] = "idle"
    /\ ~pool[s] \/ buffer[s] = << >>
    /\ buffer' = [buffer EXCEPT ![s] = << >>]
    /\ UNCHANGED <<pool, last_hash, pc, txn, stored, ids, drawn, written, failures>>

\* flush_async(): acquire a connection and open the transaction.
FlushBegin(s) ==
    /\ pc[s] = "idle"
    /\ pool[s] /\ buffer[s] # << >>
    /\ pc' = [pc EXCEPT ![s] = "inserting"]
    /\ UNCHANGED <<pool, buffer, last_hash, txn, stored, ids, drawn, written, failures>>

\* The next queued row is inserted; its id is the next of the sequence.
Insert(s) ==
    /\ txn' = [txn EXCEPT ![s] = Append(@, buffer[s][Len(@) + 1])]
    /\ ids' = [ids EXCEPT ![s] = Append(@, drawn + 1)]
    /\ drawn' = drawn + 1

\* Mutant of FlushInsert: off by one, the last queued row is never inserted.
FlushInsertStopsEarly(s) ==
    /\ pc[s] = "inserting"
    /\ Len(txn[s]) + 1 < Len(buffer[s])
    /\ Insert(s)
    /\ UNCHANGED <<pool, buffer, last_hash, pc, stored, written, failures>>

\* One turn of `for entry, ... in self._buffer`: the loop iterates over the
\* live list, so it also reaches rows queued since it began.
FlushInsert(s) ==
    /\ pc[s] = "inserting"
    /\ Len(txn[s]) < Len(buffer[s])
    /\ Insert(s)
    /\ UNCHANGED <<pool, buffer, last_hash, pc, stored, written, failures>>

\* The loop is exhausted; COMMIT is sent and awaited.
FlushSendCommit(s) ==
    /\ pc[s] = "inserting"
    /\ Len(txn[s]) = Len(buffer[s])
    /\ pc' = [pc EXCEPT ![s] = "committing"]
    /\ UNCHANGED <<pool, buffer, last_hash, txn, stored, ids, drawn, written, failures>>

\* The open transaction takes effect.
Commit(s) ==
    /\ stored' = [stored EXCEPT ![s] = @ \o txn[s]]
    /\ txn' = [txn EXCEPT ![s] = << >>]
    /\ UNCHANGED ids

\* The open transaction has no effect; the ids it drew are not used again.
Abort(s) ==
    /\ txn' = [txn EXCEPT ![s] = << >>]
    /\ ids' = [ids EXCEPT ![s] = SubSeq(@, 1, Len(stored[s]))]
    /\ UNCHANGED stored

\* COMMIT is acknowledged; the connection goes back to the pool (an await).
FlushCommit(s) ==
    /\ pc[s] = "committing"
    /\ Commit(s)
    /\ pc' = [pc EXCEPT ![s] = "releasing"]
    /\ UNCHANGED <<pool, buffer, last_hash, drawn, written, failures>>

\* self._buffer.clear() and return.
FlushClear(s) ==
    /\ pc[s] = "releasing"
    /\ buffer' = [buffer EXCEPT ![s] = << >>]
    /\ pc' = [pc EXCEPT ![s] = "idle"]
    /\ UNCHANGED <<pool, last_hash, txn, stored, ids, drawn, written, failures>>

\* flush_async() raises.
Fails(s) ==
    /\ failures < MaxFailures
    /\ failures' = failures + 1
    /\ pc' = [pc EXCEPT ![s] = "idle"]

\* Mutant of FlushRollback: the clear sits in a finally block.
FlushRollbackClears(s) ==
    /\ pc[s] \in {"inserting", "committing"}
    /\ Fails(s) /\ Abort(s)
    /\ buffer' = [buffer EXCEPT ![s] = << >>]
    /\ UNCHANGED <<pool, last_hash, drawn, written>>

\* Mutant of FlushRollback: every INSERT commits on its own.
FlushRollbackKeepsRows(s) ==
    /\ pc[s] \in {"inserting", "committing"}
    /\ Fails(s) /\ Commit(s)
    /\ UNCHANGED <<pool, buffer, last_hash, drawn, written>>

\* An INSERT or the COMMIT raises: the transaction rolls back and the
\* exception leaves flush_async before the clear, so the queue is kept.
FlushRollback(s) ==
    /\ pc[s] \in {"inserting", "committing"}
    /\ Fails(s) /\ Abort(s)
    /\ UNCHANGED <<pool, buffer, last_hash, drawn, written>>

\* The transaction took effect but flush_async raised all the same: the COMMIT
\* acknowledgement was lost, or the release was cancelled.
FlushLateFailure(s) ==
    /\ LateFailures
    /\ pc[s] \in {"committing", "releasing"}
    /\ Fails(s) /\ Commit(s)
    /\ UNCHANGED <<pool, buffer, last_hash, drawn, written>>

\* close(): the runner is done with this backend, flushed or not.
Close(s) ==
    /\ pc[s] = "idle"
    /\ pc' = [pc EXCEPT ![s] = "closed"]
    /\ UNCHANGED <<pool, buffer, last_hash, txn, stored, ids, drawn, written, failures>>

\* The store's process dies: its memory is gone, and the server aborts an open
\* transaction unless its COMMIT was already on the way.  A process restarted
\* under the same run_id goes on with another store.
Crash(s) ==
    /\ pc[s] # "crashed"
    /\ pc' = [pc EXCEPT ![s] = "crashed"]
    /\ \/ Abort(s)
       \/ pc[s] = "committing" /\ Commit(s)
    /\ buffer' = [buffer EXCEPT ![s] = << >>]
    /\ UNCHANGED <<pool, last_hash, drawn, written, failures>>

FlushStep(s) == FlushInsert(s) \/ FlushSendCommit(s) \/ FlushCommit(s) \/ FlushClear(s)

StoreStep(s) ==
    \/ \E e \in Entries : Write(s, e)
    \/ FlushNothing(s)
    \/ FlushBegin(s)
    \/ FlushInsert(s)
    \/ FlushSendCommit(s)
    \/ FlushCommit(s)
    \/ FlushClear(s)
    \/ FlushRollback(s)
    \/ FlushLateFailure(s)
    \/ Close(s)
    \/ Crash(s)

Next == \E s \in Stores : StoreStep(s)

Spec == Init /\ [][Next]_vars

-------------------------------------------------------------------------------
(***************************************************************************)
(* What verify_chain() reads, and the properties.                          *)
(***************************************************************************)

\* SELECT * ... WHERE run_id = $1 ORDER BY id: the committed rows of all stores,
\* up to id i.  Rows of flushes that overlap in time may alternate.
Owns(s, i) == \E n \in DOMAIN stored[s] : ids[s][n] = i

RowAt(i) ==
    LET s == CHOOSE s \in Stores : Owns(s, i)
    IN  stored[s][CHOOSE n \in DOMAIN stored[s] : ids[s][n] = i]

TableTo[i \in 0 .. drawn] ==
    IF i = 0 THEN << >>
    ELSE IF \E s \in Stores : Owns(s, i) THEN Append(TableTo[i - 1], RowAt(i))
    ELSE TableTo[i - 1]

Table == TableTo[drawn]

\* Has no other store of the run anything in the table?
OnlyOne(s) == \A t \in Stores \ {s} : stored[t] = << >>

\* verify_chain() answers True on what one store has committed, at every moment:
\* after any number of flushes, failed flushes and retries, and after a crash.
\* It may answer False as soon as a second store of the run has committed rows,
\* for each store begins a chain of its own.
ChainVerifies == \A s \in Stores : pool[s] /\ OnlyOne(s) => VerifyChain(Table)

\* What the operator is told: verify_chain() answers True on an untouched run.
RunVerifies == (\A s \in Stores : pool[s]) => VerifyChain(Table)

\* The rows of a live store: those stored and those queued behind them.
\* Between the commit and the clear the queue repeats what is stored.
Stream(s) == IF pc[s] = "releasing" THEN stored[s] ELSE stored[s] \o buffer[s]

\* Nothing recorded is dropped, repeated or reordered on its way to the table:
\* as long as the process lives, the rows a store has committed followed by
\* those it has queued are exactly what was written to it.
NothingLost ==
    \A s \in Stores : pool[s] /\ pc[s] # "crashed" => Contents(Stream(s)) = written[s]

\* A table that verifies is a prefix of what was written to one of the stores:
\* whatever the environment and the other stores do, an entry that was dropped,
\* repeated or overtaken on the way, or a second chain in the run, makes
\* verify_chain() answer False.
VerifiedIsPrefix ==
    VerifyChain(Table) =>
        \E s \in Stores :
            /\ Len(Table) <= Len(written[s])
            /\ Contents(Table) = SubSeq(written[s], 1, Len(Table))

\* The durable rows of each store as the contents they record.
Durable == [s \in Stores |-> Contents(stored[s])]

\* The stores implement the append-only log: a reader of the rows of one sees a
\* growing prefix of what was written to it, across failures and crashes.
Log == INSTANCE AppendOnlyLog WITH Writers <- Stores, log <- written, durable <- Durable
AppendOnly == Log!Spec

\* A flush that was started comes to an end: every queued row is inserted, or
\* the flush failed, or the process died.
FlushEnds ==
    \A s \in Stores : (pc[s] = "inserting") ~> (pc[s] \in {"idle", "closed", "crashed"})

\* Why these hold: the stream of stored and queued rows is one verifying chain
\* of everything written, whose last hash is the one the next write chains to;
\* the open transaction is a prefix of the queue; without a pool nothing is ever
\* stored; and the ids of a store's rows grow.
ChainInv(s) ==
    pool[s] /\ pc[s] # "crashed" =>
        /\ VerifyChain(Stream(s))
        /\ TailHash(Stream(s)) = last_hash[s]
        /\ Contents(Stream(s)) = written[s]

TxnInv(s) ==
    /\ pc[s] = "inserting" =>
         /\ Len(txn[s]) <= Len(buffer[s])
         /\ \A i \in 1 .. Len(txn[s]) : txn[s][i] = buffer[s][i]
    /\ pc[s] = "committing" => txn[s] = buffer[s]
    /\ pc[s] \notin {"inserting", "committing"} => txn[s] = << >>

CrashInv(s) ==
    pool[s] /\ pc[s] = "crashed" =>
        /\ VerifyChain(stored[s])
        /\ Len(stored[s]) \in 0 .. Len(written[s])
        /\ Contents(stored[s]) = SubSeq(written[s], 1, Len(stored[s]))

StdoutInv(s) == ~pool[s] => stored[s] = << >> /\ pc[s] \notin Flushing

StoreInv(s) == ChainInv(s) /\ TxnInv(s) /\ CrashInv(s) /\ StdoutInv(s)

IdsInv(s) ==
    /\ Len(ids[s]) = Len(stored[s]) + Len(txn[s])
    /\ \A n \in 1 .. Len(ids[s]) : ids[s][n] \in 1 .. drawn
    /\ \A m, n \in 1 .. Len(ids[s]) : m < n => ids[s][m] < ids[s][n]

IInv == TypeOK /\ \A s \in Stores : StoreInv(s) /\ IdsInv(s)

\* Why a verified table is a prefix, in every environment: each row, wherever
\* it is, carries the hash of what its store had been given when it was queued.
HistoryHash(s, row) ==
    /\ Len(row.entry_hash) <= Len(written[s])
    /\ row.entry_hash = SubSeq(written[s], 1, Len(row.entry_hash))

HashInv(s) ==
    /\ pc[s] # "crashed" => last_hash[s] = written[s]
    /\ \A i \in 1 .. Len(buffer[s]) : HistoryHash(s, buffer[s][i])
    /\ \A i \in 1 .. Len(txn[s]) : HistoryHash(s, txn[s][i])
    /\ \A i \in 1 .. Len(stored[s]) : HistoryHash(s, stored[s][i])
===============================================================================
