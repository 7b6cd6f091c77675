----------------------------- MODULE TraceLedger -----------------------------
(***************************************************************************)
(* TraceLedger (core/trace_ledger.py): the unbuffered ledger of one run.   *)
(* record() reads _last_hash, awaits the INSERT, and advances _last_hash   *)
(* only afterwards, whether or not the INSERT succeeded: _write_to_db logs *)
(* an exception and returns.  Several tasks of the event loop may be       *)
(* inside record() at once.                                                *)
(***************************************************************************)
EXTENDS HashChain, FiniteSets

CONSTANTS
    Tasks,          \* tasks that call record()
    TraceEntries,   \* hashed contents an entry can have
    MaxCalls        \* bound: calls of record() in one behaviour

ASSUME CallsAssumption == MaxCalls \in Nat

VARIABLES
    database,       \* "none" (no connection pool: stdout mode), or one whose INSERTs
                    \* never fail ("reliable") or may fail ("failing")
    trace_hash,     \* _last_hash
    trace_pc,       \* where record() of each task is
    pending,        \* the entry each task's record() has built
    trace_table,    \* rows of this run in trace_ledger, by id
    calls,          \* history: calls of record(), bounded by MaxCalls
    returned        \* history: hashes record() returned, in order

traceVars == <<database, trace_hash, trace_pc, pending, trace_table, calls, returned>>

NoEntry == << >>

TraceTypeOK ==
    /\ database \in {"none", "reliable", "failing"}
    /\ trace_hash \in Seq(TraceEntries)
    /\ trace_pc \in [Tasks -> {"idle", "writing", "written"}]
    /\ pending \in [Tasks -> Rows(TraceEntries) \cup {NoEntry}]
    /\ \A t \in Tasks : (pending[t] = NoEntry) <=> (trace_pc[t] = "idle")
    /\ trace_table \in Seq(Rows(TraceEntries))
    /\ calls \in 0 .. MaxCalls
    /\ returned \in Seq(Seq(TraceEntries))

\* create(): no pool without asyncpg, without a DSN, or when create_pool raised.
TraceInit ==
    /\ database \in {"none", "reliable", "failing"}
    /\ trace_hash = Genesis
    /\ trace_pc = [t \in Tasks |-> "idle"]
    /\ pending = [t \in Tasks |-> NoEntry]
    /\ trace_table = << >>
    /\ calls = 0
    /\ returned = << >>

\* record() without a pool: stdout is the ledger, nothing is awaited.
RecordToStdout(e) ==
    /\ database = "none"
    /\ calls < MaxCalls
    /\ trace_hash' = Hash(e, trace_hash)
    /\ calls' = calls + 1
    /\ returned' = Append(returned, Hash(e, trace_hash))
    /\ UNCHANGED <<database, trace_pc, pending, trace_table>>

\* record() up to its await: the entry is chained to the hash read now.
RecordBegin(t, e) ==
    /\ database # "none"
    /\ trace_pc[t] = "idle"
    /\ calls < MaxCalls
    /\ pending' = [pending EXCEPT ![t] = Row(e, trace_hash)]
    /\ trace_pc' = [trace_pc EXCEPT ![t] = "writing"]
    /\ calls' = calls + 1
    /\ UNCHANGED <<database, trace_hash, trace_table, returned>>

\* Mutant of WriteToDb: the INSERT is retried and stores the row a second time.
WriteToDbTwice(t) ==
    /\ trace_pc[t] = "writing"
    /\ trace_table' = Append(Append(trace_table, pending[t]), pending[t])
    /\ trace_pc' = [trace_pc EXCEPT ![t] = "written"]
    /\ UNCHANGED <<database, trace_hash, pending, calls, returned>>

\* _write_to_db: the INSERT is stored.
WriteToDb(t) ==
    /\ trace_pc[t] = "writing"
    /\ trace_table' = Append(trace_table, pending[t])
    /\ trace_pc' = [trace_pc EXCEPT ![t] = "written"]
    /\ UNCHANGED <<database, trace_hash, pending, calls, returned>>

\* _write_to_db: acquire or execute raised; the error is logged.
WriteFailed(t) ==
    /\ database = "failing"
    /\ trace_pc[t] = "writing"
    /\ trace_pc' = [trace_pc EXCEPT ![t] = "written"]
    /\ UNCHANGED <<database, trace_hash, pending, trace_table, calls, returned>>

\* record() after its await: advance the chain and return the hash.
RecordEnd(t) ==
    /\ trace_pc[t] = "written"
    /\ trace_hash' = pending[t].entry_hash
    /\ returned' = Append(returned, pending[t].entry_hash)
    /\ pending' = [pending EXCEPT ![t] = NoEntry]
    /\ trace_pc' = [trace_pc EXCEPT ![t] = "idle"]
    /\ UNCHANGED <<database, trace_table, calls>>

TraceNext ==
    \/ \E e \in TraceEntries : RecordToStdout(e)
    \/ \E t \in Tasks, e \in TraceEntries : RecordBegin(t, e)
    \/ \E t \in Tasks : WriteToDb(t) \/ WriteFailed(t) \/ RecordEnd(t)

TraceSpec == TraceInit /\ [][TraceNext]_traceVars

-------------------------------------------------------------------------------
(***************************************************************************)
(* Properties                                                              *)
(***************************************************************************)

\* verify_chain() answers True on a table nobody has tampered with, as long as
\* the database fails no INSERT.
TraceVerifies == database = "reliable" => VerifyChain(trace_table)

\* The state is well typed, and verify_chain() answers False whenever a swallowed
\* failure has left a hole: a table that verifies holds the first entries that were
\* recorded, each under the hash that was returned for it.
VerifiedHasNoHole ==
    /\ TraceTypeOK
    /\ VerifyChain(trace_table) =>
          \A k \in DOMAIN trace_table :
              k \in DOMAIN returned => trace_table[k].entry_hash = returned[k]
===============================================================================
