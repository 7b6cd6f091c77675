---------------------------- MODULE MCSqlLedgers ----------------------------
(* Model-checking instances of SqlLedgers: the stores of MCPostgresLedger,    *)
(* and a trace ledger with one task, or two that record at once.              *)
EXTENDS SqlLedgers, MCPostgresLedger

CONSTANTS t1, t2
=============================================================================
