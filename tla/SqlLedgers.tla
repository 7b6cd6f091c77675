------------------------------ MODULE SqlLedgers ------------------------------
(***************************************************************************)
(* The two ledgers that are kept in the table trace_ledger: the audit      *)
(* stores of a run (cloud_adapters/azure/audit.py) and the unbuffered      *)
(* ledger of core/trace_ledger.py.  Nothing in the repository opens both   *)
(* for one run: a behaviour is about one, and the other stays as it is.    *)
(***************************************************************************)
EXTENDS PostgresLedger, TraceLedger

VARIABLE kept   \* which of the ledgers the behaviour is about

sqlVars == <<kept, vars, traceVars>>

SqlInit ==
    \/ kept = "stores" /\ Init /\ TraceInit /\ database = "none"
    \/ kept = "trace" /\ TraceInit /\ Init /\ pool = [s \in Stores |-> FALSE]

SqlNext ==
    /\ \/ kept = "stores" /\ Next /\ UNCHANGED traceVars
       \/ kept = "trace" /\ TraceNext /\ UNCHANGED vars
    /\ UNCHANGED kept

\* The event loop keeps resuming a coroutine whose await has completed: the steps of
\* each store's flush are taken.  The properties of the trace are safety.
SqlSpec ==
    /\ SqlInit /\ [][SqlNext]_sqlVars
    /\ \A s \in Stores :
           WF_sqlVars(kept = "stores" /\ FlushStep(s) /\ UNCHANGED <<kept, traceVars>>)
===============================================================================
