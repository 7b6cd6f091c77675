------------------------------ MODULE AgentEngine ------------------------------
(***************************************************************************)
(* GalaxyAgentEngineApp (cloud_adapters/gcp/agent_engine.py): a container  *)
(* that answers each query with a governed bundle of its own, then flushes *)
(* and verifies the bundle's ledger and reports in the answer whether the  *)
(* chain is valid.  The run_id may be the client's, so a query, its retry  *)
(* and agents that own their ledger elsewhere may store rows of one run.   *)
(***************************************************************************)
EXTENDS CloudLedger

CONSTANT Queries        \* the agents that answer a query in the container

ASSUME QueriesAssumption == Queries \subseteq Agents

VARIABLES
    model,      \* _model of the app: none yet, a live client or the scripted one
    builders,   \* _builders is filled
    phase,      \* how far each query is
    valid       \* ledger_chain_valid of each answer

engineVars == <<model, builders, phase, valid>>
vars == <<ledgerVars, engineVars>>

QueryPhases == {"new", "wiring", "building", "running", "flushing", "verifying", "closing",
                "answered", "raised"}

TypeOK ==
    /\ LedgerTypeOK
    /\ model \in {"none", "live", "scripted"} /\ builders \in BOOLEAN
    /\ phase \in [Queries -> QueryPhases]
    /\ valid \in [Queries -> {"none", "true", "false"}]

-------------------------------------------------------------------------------
(* set_up().                                                               *)

\* build_gemini_model: Vertex for a project, else the developer API for a key, through
\* langchain_google_genai; its predecessor serves a project only.
GeminiModel(project, key, genai, vertexai, fallback) ==
    CASE genai /\ project -> "vertex"
      [] genai /\ key /\ ~project -> "developer"
      [] ~genai /\ vertexai /\ project -> "vertex"
      [] OTHER -> IF fallback THEN "scripted" ELSE "raise"

\* The app passes no key and always a fallback.
SomeModel ==
    \E project, genai, vertexai \in BOOLEAN :
        model' = IF GeminiModel(project, FALSE, genai, vertexai, TRUE) = "scripted"
                 THEN "scripted" ELSE "live"

\* Agent Engine calls set_up() when the container starts; an app made without it is
\* set up by its first query.
Init ==
    /\ LedgerInit
    /\ \/ model = "none" /\ builders = FALSE
       \/ model \in {"live", "scripted"} /\ builders = TRUE
    /\ phase = [q \in Queries |-> "new"]
    /\ valid = [q \in Queries |-> "none"]

Goes(q, p) == phase' = [phase EXCEPT ![q] = p]

\* query() finds no model: set_up() makes one, and wires the builders next.
SetUpModel(q) ==
    /\ phase[q] = "new" /\ model = "none"
    /\ SomeModel
    /\ Goes(q, "wiring")
    /\ UNCHANGED <<ledgerVars, builders, valid>>

SetUpBuilders(q) ==
    /\ phase[q] = "wiring"
    /\ builders' = TRUE
    /\ Goes(q, "building")
    /\ UNCHANGED <<ledgerVars, model, valid>>

\* query() finds a model: the agent is one of the builders', or unknown.  It is unknown
\* too while another thread is between the two steps of set_up().
Query(q) ==
    /\ phase[q] = "new" /\ model # "none"
    /\ \/ builders /\ Goes(q, "building")
       \/ Goes(q, "raised")
    /\ UNCHANGED <<ledgerVars, model, builders, valid>>

-------------------------------------------------------------------------------
(* _run().                                                                 *)

\* The builder returns the bundle, or raises.
Build(q) ==
    /\ phase[q] = "building"
    /\ Goes(q, "running") \/ Goes(q, "raised")
    /\ UNCHANGED <<ledgerVars, model, builders, valid>>

\* The run logs its entries as it goes.  The bundle is the query's own: nothing is
\* logged to its ledger once invoke() has returned.
Log(q) ==
    /\ phase[q] = "running"
    /\ \E e \in Entries : Write(q, e)
    /\ UNCHANGED engineVars

\* bundle.invoke() returns, or GovernanceViolation becomes part of the answer.  What
\* else it raises, the live model's errors among it, leaves the ledger as it is.
Invoked(q) ==
    /\ phase[q] = "running"
    /\ Goes(q, "flushing")
    /\ UNCHANGED <<ledgerVars, model, builders, valid>>

InvokeRaises(q) ==
    /\ phase[q] = "running" /\ model = "live"
    /\ Goes(q, "raised")
    /\ UNCHANGED <<ledgerVars, model, builders, valid>>

\* flush_async() on its way.
Flushing(q) ==
    /\ phase[q] = "flushing"
    /\ \/ FlushBegin(q) \/ FlushPut(q) \/ FlushSent(q)
       \/ InsertAccepted(q) \/ InsertRejected(q)
    /\ UNCHANGED engineVars

\* flush_async() returns; the local backend's does nothing.
Flushed(q) ==
    /\ phase[q] = "flushing"
    /\ \/ FlushNothing(q) \/ FlushClear(q)
       \/ provider = "local" /\ UNCHANGED ledgerVars
    /\ Goes(q, "verifying")
    /\ UNCHANGED <<model, builders, valid>>

\* Mutant of FlushRaised: the chain is verified all the same.
FlushRaisedVerifying(q) ==
    /\ phase[q] = "flushing" /\ FlushFail(q)
    /\ Goes(q, "verifying")
    /\ UNCHANGED <<model, builders, valid>>

\* It raises: the failure is logged, and chain_valid stays None.
FlushRaised(q) ==
    /\ phase[q] = "flushing" /\ FlushFail(q)
    /\ Goes(q, "closing")
    /\ UNCHANGED <<model, builders, valid>>

\* verify_chain() returns: without a client there is nothing to verify, the local
\* backend verifies its queue, the others what their query reads.
Verified(q) ==
    /\ phase[q] = "verifying"
    /\ \E rows \in IF provider = "local" THEN {buffer[q]}
                   ELSE IF connected THEN Scans ELSE {<< >>} :
           valid' = [valid EXCEPT ![q] = IF VerifyChain(rows) THEN "true" ELSE "false"]
    /\ Goes(q, "closing")
    /\ UNCHANGED <<ledgerVars, model, builders>>

VerifyRaised(q) ==
    /\ phase[q] = "verifying" /\ connected /\ failures < MaxFailures
    /\ failures' = failures + 1
    /\ Goes(q, "closing")
    /\ UNCHANGED <<provider, connected, buffer, last_hash, pc, batch, put, table, written,
                   flushed, rejected, model, builders, valid>>

\* close(), whose errors are dropped, and the answer.
Answer(q) ==
    /\ phase[q] = "closing"
    /\ Goes(q, "answered")
    /\ UNCHANGED <<ledgerVars, model, builders, valid>>

QueryStep(q) ==
    \/ SetUpModel(q) \/ SetUpBuilders(q) \/ Query(q) \/ Build(q)
    \/ Log(q) \/ Invoked(q) \/ InvokeRaises(q)
    \/ Flushing(q) \/ Flushed(q) \/ FlushRaised(q)
    \/ Verified(q) \/ VerifyRaised(q) \/ Answer(q)

Next ==
    \/ \E q \in Queries : QueryStep(q)
    \/ \E a \in Agents \ Queries : LedgerStep(a) /\ UNCHANGED engineVars

Spec == Init /\ [][Next]_vars

-------------------------------------------------------------------------------
(***************************************************************************)
(* Properties                                                              *)
(***************************************************************************)

\* The state is well typed, and an answer that calls the chain valid means that the
\* run begins with the query's own log, complete and in order: not with that of a
\* retry or of another agent, nor with what a failed flush left behind.  It means
\* nothing without a client, nor when BigQuery refused the rows, which flush_async
\* only logs; and in DynamoDB only while nobody else writes to the run, for items
\* overwrite each other there.
ValidHasWholeLog ==
    /\ []TypeOK
    /\ [][\A q \in Queries :
            /\ valid[q] = "none" /\ valid'[q] = "true"
            /\ connected \/ provider = "local"
            /\ rejected[q] = {}
            /\ provider = "aws" => IsAlone(q)
            => \E rows \in IF provider = "local" THEN {buffer[q]} ELSE Scans :
                   VerifyChain(rows) /\ IsPrefix(written[q], Contents(rows))]_vars
================================================================================
