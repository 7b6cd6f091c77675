--------------------------- MODULE MCPostgresLedger ---------------------------
(* Model-checking instance of PostgresLedger: two stores of one run, two       *)
(* distinct contents, so that a reordering shows, and enough entries in one    *)
(* store for two flushes of which one has two rows.                            *)
EXTENDS PostgresLedger

CONSTANTS agent, other, allow, deny

RunStores == {agent, other}
EntriesOf == [s \in RunStores |-> IF s = agent THEN 3 ELSE 1]
===============================================================================
