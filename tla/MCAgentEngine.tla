----------------------------- MODULE MCAgentEngine -----------------------------
(* Model-checking instance of AgentEngine and CloudLedger: an agent that owns *)
(* its ledger, a query and its retry, all with the same run_id.               *)
EXTENDS AgentEngine

CONSTANTS finops, query, retry, allow, deny

RunOwners == {finops, query, retry}
EntriesOf == [a \in RunOwners |-> IF a = finops THEN 2 ELSE 1]

\* No action tells the contents apart.
Symmetry == Permutations({allow, deny})
================================================================================
