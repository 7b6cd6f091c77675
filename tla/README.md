# Formal models of the Galaxy agent-governance platform

The repository puts LLM agents of several frameworks and clouds under one
governance layer: guards around every model and tool call, authorization of
agent-to-agent calls and data reads, a floor under every agent's configuration,
and hash-chained audit ledgers that are to show afterwards what happened.  This
directory holds TLA+ models of that layer, the TLC runs that check them on small
instances, and proofs checked by TLAPS.

`PROJECT.json` maps every definition to the lines it stands for, and lists the
runs, the mutants, the hazards and the findings.

## 1. The system

| component | state it keeps | operations | hard behaviour |
|---|---|---|---|
| audit stores (`cloud_adapters/{azure,aws,gcp,local}/audit.py`) | a queue of rows, the last hash, a table | `write` (synchronous), `flush_async` (awaits), `verify_chain`, `close` | writers between the awaits of a flush, failed and half-failed flushes, lost acknowledgements, several stores of one run, crashes and the stores of restarted processes |
| trace ledger (`core/trace_ledger.py`) | last hash, a table | `record`, `verify_chain` | the last hash is read before an await and written after it; failures are swallowed |
| agent engine (`cloud_adapters/gcp/agent_engine.py`) | a model, the builders, a ledger per query | `set_up`, `query` | the flush at the end of a query fails and the answer goes out; queries overlap with `set_up` and with each other |
| guard pipeline (`governance/pipeline.py`, `governance/extensions/*`) | circuit breakers, guard lists | `before_model`, `after_model`, `before_tool`, `after_tool`, `on_tool_error` | the order of the checks, what is logged before a raise |
| framework adapters (`payload_agents/{raw,langgraph,pydantic}`) | the conversation of a run | `invoke` | parallel tool calls, answers of the hooks that are used or dropped, messages that cannot be edited, guards that break off, iteration limits |
| Agent Framework middleware (`cloud_adapters/azure/maf`) | a context window per agent, the archive | a chain of `process` | runs of one agent share its window; `finally` blocks that raise; audit backends that fail |
| agent build (`payload_agents/_base.py`, `*/_runner.py`, `core/provider_factory.py`) | the ledger it opens | `build_agent`, `close` | steps that raise after the ledger is open |
| secrets, identity, gateways (`core/secrets.py`, `cloud_adapters/*/{secrets,identity,gateway}.py`) | a cached key and its time | `get_api_key`, `invalidate`, `resolve` | expiry, outages, stale fallbacks, keys of the store refused while it is down |
| agent-to-agent calls (`a2a/`) | one audit log per agent | `a2a_call` | nested calls, raising, hanging and cancelled handlers and replies that are none, two authorization layers |
| configuration (`payload_agents/config.py`, `governance/floor.py`, `governance/policy_registry.py`) | YAML files, a cache per process, an exported registry | load, clamp to the floor, export, look up | files that change under caches, files that do not resolve |
| chokepoints (`cloud_adapters/aws/infra/lambda/*`, `governance/enforcement_core.py`) | a registry cached per instance | model request, data request, A2A authorization | stale and missing registries |
| data access (`governance/extensions/data_{fgac,classification,drift}.py`, `cloud_adapters/aws/data_fgac.py`) | a baseline file, registered filters | `authorize`, `read`, `scoped_query`, `register_data_cells_filter`, `record_access` | read-modify-write of one file by several agents; three enforcements of one decision |
| sweep guards (`governance/extensions/*_guard.py`) | none that a later call reads | one check per tool call | guards that read different arguments of one call, guards that raise |
| file tools, chunker, classifier (`payload_agents/_lib`) | files | `write_file`, `apply_patch`, `chunk_file`, `classify_repo` | check and use of a path, a batch of edits of which one write fails, boundaries, a listing that is cut off |
| tracing, reports, demo scripts | none that a later step reads | | |

How they interact: an adapter calls the hooks of its pipeline around its
model and tool calls; the pipeline logs to a `GovernanceAuditLogger` whose
backends include the audit store of the selected cloud; the caller of an agent
flushes the store at the end of a run.  Adapters and A2A handlers run in the tasks
of one event loop, so everything between two `await`s is atomic and every `await`
is a point where other tasks run.  The configuration reaches the pipeline through
the cache of its process and the chokepoints through the exported registry.

What makes each component correct:

* stores and ledger: what is recorded is stored once and in order; `verify_chain`
  answers True on what one store has stored, and what verifies really is
  (a prefix of) what was recorded through one store, however many the run has; an answer that calls a chain valid has the whole
  log of its query behind it;
* pipeline, adapters and middleware: nothing the guards block reaches the model, the
  tools or the caller, the trail and the verdict agree, what the trail reports was
  done, and what is allocated for a run is released;
* A2A: the sender's log tells every call once and truthfully, no handler runs that
  is not authorized, none outlives the call that awaits it;
* configuration and chokepoints: no tier ever acts on a policy below the floor,
  or for an identity without one;
* build and secrets: an open ledger has an owner, a late key is served in an outage
  only, one that came from the store and was refused does not come out of the cache or the
  store again, and the cache finds back to the store;
* library: writes stay in the sandbox, a patch is all or nothing, chunks lose no line,
  a classification is the one the files and the table single out, in whatever order they
  are listed.

## 2. The modules

| module | models | in terms of |
|---|---|---|
| `HashChain` | `_compute_hash`, a stored row, `verify_chain` | a hash *is* the sequence of contents it was computed over: equal hashes, equal histories |
| `AppendOnlyLog` | nothing: the abstract specification of audit stores | for each writer a growing log and a prefix of it that is durable |
| `PostgresLedger` | `PostgresHashChainBackend`, the stores of one `run_id` | `buffer`, `last_hash`, `pool` are the fields of each store; `pc` is the await its `flush_async` is at, `txn` its open transaction, `stored` its committed rows; `ids` are the numbers its inserts drew from the `BIGSERIAL`, and `Table` is what `ORDER BY id` makes of the rows of all stores |
| `CloudLedger` | `DynamoDbHashChainBackend` and `BigQueryHashChainBackend`, one store per agent, and the list of the local one | `provider` selects the backend; `table` holds the rows stored under each `entry_seq`: at most one on DynamoDB, any number on BigQuery; `batch` is how much of the live queue the thread has taken |
| `AgentEngine` | `GalaxyAgentEngineApp` | extends `CloudLedger`: queries are agents whose writes and flushes belong to their `phase` |
| `TraceLedger` | `TraceLedger` | `trace_pc` and `pending` of every task inside `record` |
| `GuardPipeline` | the five hooks and the capture of reasoning traces | operators from a text or call to the entries logged; a text is the set of marks the detectors find and its size |
| `GovernedRun` | the loops of the three adapters around the hooks | `pc`, the conversation with, for each message, whether LangGraph can redact it, the stage of each tool call of a reply, one breaker per tool |
| `MafRun` | the middleware chain of the fourth adapter | a run is guarded and dispatched in one step and unwound in another; `window` is the agent's allocation, `trail` the archive per run |
| `SecretCache` | the four secret providers | `_cached_key`, the age of `_fetched_at`, the call that waits for the store; `late` and `silence` are histories |
| `AgentBuild` | the factories, the NHI registry, the gateways | extends `SecretCache`: `step` and `ledger` of each factory call, one record per cloud provider |
| `A2ADispatch` | `a2a_call` and `authorize_recipient` | the calls so far with their parents, the log of each agent |
| `GovernanceFloor` | `apply_floor` | configurations as records, `Clamped` on an ordered scale |
| `ModelProxy` | `handler` of the model proxy and the checks it calls | operators from a policy, a prompt and a reply to what is sent and returned |
| `PolicyDistribution` | loading, caching, exporting, looking up; the proxies, the broker and the dispatcher | a policy in each place it can be stale in |
| `DataScope` | `authorize`, the classification catalog, `InProcessEnforcer`, the generated query and the data-cells filter | a label is its classification, a policy the classifications it permits |
| `DataAccess` | `read` with `record_access` and the JSON baseline file; queries and filters registered in the store | `pc` is where a reader is between its four accesses to the file; `history` holds what each agent did, for the baseline to be compared with |
| `ToolGuards` | the sweep guards `_register_sweep_guards` adds | operators from what a call shows each guard to a verdict |
| `FileTools` | `write_file` and `apply_patch` behind those guards | a file is the set of pieces written to it; a call advances edit by edit and write by write |
| `Chunker`, `RepoClassifier` | `chunk_file`, `classify_repo` | the scan for boundaries line by line, boundaries as indices; a repository as a set of files with their signals, the table of types row by row |
| `SqlLedgers`, `FrameworkRuns` | `PostgresLedger` with `TraceLedger`, `GovernedRun` with `MafRun` | a behaviour is about one of the two and leaves the other idle: an agent is built for one framework, and nothing opens both ledgers for one run |
| `AgentLibrary` | `FileTools` with its guards, `Chunker` and `RepoClassifier` as one specification | they share no state: a behaviour is about one of them and leaves the others idle |
| `...Proofs` | the theorems about the module of that name, `PostgresLedgerProofs` also those about `TraceLedger`, `AgentEngineProofs` those about `CloudLedger`, `GovernedRunProofs` those about `MafRun`, `PolicyDistributionProofs` those about `GovernanceFloor` and `ModelProxy`; `AuthorizationProofs` is about both authorizations, `A2ADispatch` and `DataScope` with `DataAccess` | lemmas over several modules: `HashChainProofs` |
| `MC...` | instances for TLC | |

`PostgresLedger`, `CloudLedger` and `TraceLedger` extend `HashChain`; `PostgresLedger`
instantiates `AppendOnlyLog` for its refinement; `AgentEngine` extends `CloudLedger`,
`AgentBuild` extends `SecretCache`, `GovernedRun` extends `GuardPipeline`,
`PolicyDistribution` extends `ModelProxy` and that `GovernanceFloor`, `DataAccess`
extends `DataScope`, `FileTools` extends `ToolGuards`, `AgentLibrary` all of the library, `SqlLedgers` and
`FrameworkRuns` the two modules each they bring together.  The
names of `TraceLedger`, `MafRun` and `DataAccess` that another module uses too have a prefix
(`TraceNext`, `MafNext`, `DataNext`), so that one module can prove about both.

Abstractions that hold everywhere: SHA-256 has no collisions; the contents of an
entry are model values that stand for the hashed columns; log lines, spans and
formatted reasons are left out; a guard's detector is reduced to the mark it
looks for, because the properties tell apart only what was found and what was
done about it.

What a deployment chooses once is either a constant (`WriteDuringFlush`,
`LateFailures`) or a variable that `Init` chooses and no action changes
(`provider`, `connected`, `pool`, `database`, `framework`, `cred_mode`, `broker`, `guards`,
`flags`, `kind`, `gateway`), so that one run covers every choice and a property names
the choices it holds for.

`FileTools` joins two parts that the code leaves to its deployments to join: the file
tools are tools of the Agent Framework, the sweep guards belong to `before_tool`, and no
factory in the repository builds an agent with both.  The guards' docstrings name these
tools, and the model shows what they make of them.

## 3. The runs

Bounds are constants (`MaxEntries`, `MaxFailures`, `MaxRuns`, `MaxIters`, `MaxMessages`,
`MaxCalls`, `MaxEdits`, `MaxReads`, `MaxKey`, `MaxTotal`) that appear in the guards.  Deadlock is not
checked, because at its bounds a system has nothing left to do.  Where a module has other
invariants, its type invariant is a conjunct of one of them.

**Stores.**  Two contents, and two stores of the run: three entries through one let its
flush happen twice with rows on both sides of a failure, with two failures a retry itself can
fail, and one entry through the other is enough for a second chain in the table.  A process
that crashes and is started again under its `run_id` is a store that crashes and another that
goes on.

* `SqlLedgers`: without writers during a flush and without late failures the
  table verifies as long as one store only has rows in it, nothing given to a live store is
  lost, the stores implement `AppendOnlyLog`, and a flush ends.  And the trace ledger: four
  calls of one task, without a database, with a reliable one and with a failing one.
* `PostgresLedgerAnyEnvironment`: in every environment a table that verifies is a
  prefix of what was written to one store: the run can fail to verify, but not verify wrongly.
* `PostgresLedgerTwoStores` (violation): with two stores an untouched run fails to verify.
* `AgentEngine`: an agent with a ledger of its own, a query and its retry share a run;
  one request fails, and `set_up` happens before or during the queries.  The agent goes on
  logging while its flush waits for the thread.  One flush of
  DynamoDB that takes the whole log is idempotent and heals; two stores, or two flushes, of
  one run overwrite each other, and still a scan that verifies is the log of one store, in
  whatever order BigQuery returns rows of equal `entry_seq`.  `ledger_chain_valid` is true
  only over the query's whole log, unless there was no client, BigQuery refused rows, or
  somebody else wrote to the same run on DynamoDB: there it means nothing.
* `TraceLedgerFork` (violation): two tasks that record at once fork the trace's chain.

**Runs of an agent.**  Prompts, replies and results of every kind the guards tell
apart, replies of up to two calls, two model calls, a window of three tokens that a
prompt and two results can overrun, a threshold of two failures, and for the raw
loop three runs over the same breakers: a failure ends its run, so three runs are
the fewest in which a circuit could let one failure too many through.  A text with a
credential comes in a message LangGraph can redact and in one it cannot, and one call has
an argument a sweep guard breaks off on.

* `FrameworkRuns`: the three adapters, in both credential modes.  `AdapterContracts` says
  what only some of them guarantee: the raw loop masks, cuts failing tools off and stops
  on unsafe results; LangGraph redacts the messages it can edit and stops on unsafe results;
  Pydantic AI never executes part of a refused reply.
  And the Agent Framework: two runs of one agent, up to two messages each, under each subset
  of the three guards.  Two runs suffice for one to release the window of the other.
* `GovernedRunUnredacted` (violation): what the trail calls redacted is sent as it is by the
  adapters that drop the answer of `before_model`.

**Building agents.**  A factory of the Agent Framework, which raises where the gateway
raises, one of LangGraph, which swallows it, and a client; two versions of the key and a
time to live of two ticks, so that a key can be fresh, old and late.

* `AgentBuild`: Azure, AWS, the local provider and an unknown one (GCP's record differs
  from AWS's in names only).  Each provider decides which ids are found, whether the key is
  needed without a gateway, and which ledger is opened.

**Agent-to-agent calls.**  Three calls nest two deep and interleave with another
conversation; one agent has no recipients and one no configuration.

* `A2ADispatch`: with and without the broker, handlers reply with any of the four statuses,
  raise, hang, are cancelled, or return what is no `A2AResponse`.  A reply entry is a denial
  for a denied call and for a handler that reports a timeout.  Without it most calls pass, and two calls are enough to nest.

**Configuration and proxies.**  One file below and one above a floor in the middle of every
scale; two edits, so that a cache can be two versions behind and a file can break and
come back.  Three prompts and three replies stand on either side of each check: an
injection at the floor's threshold and one below it, a credential in a tool result, a
prompt that is within the budget only once masked, a secret and personal data in an
answer, a pattern beside a harmless text, a tool on both lists.

* `PolicyDistribution`: every tier, at every version it can hold, the broker and the
  dispatcher included, and everything the model proxy sends and returns.

**Data reads.**  Two readers, three reads and two agents: a policy that clears an agent
for some columns, one above its clearance, one that nobody classified and one its scope
always masks; a row filter that lists values and one that lists none; an agent without a
policy.  A baseline needs two accesses, and its window holds two, so the third read is
scored against a baseline and pushes a sample out.

* `DataAccess`: recordings overlap, fail before or in the write, and die there; the file may
  be absent, empty, torn, an older dictionary, or unreadable for one access.  Whatever happens, a baseline is one of
  accesses its agent made, so nobody is quarantined for what another did or before
  the minimum of accesses, and every read returns exactly what its decision allows,
  enforced on rows, by a query, or by a filter registered earlier.
  Nothing is lost either as long as no two recordings overlap, none fails or dies, and each
  can read the file.

**The agents' library.**

* `AgentLibrary`: two agents, two files in the sandbox and one outside, two spellings of
  which one is relinked, patches that touch one file by two names or with a malformed
  edit, and for every guard a call it denies or raises on; files of up to eight lines with
  every set of boundaries and targets on either side of their number; every repository of
  seven files, with a cap of four and types that tie on score and threshold.  `SandboxHolds`,
  `PatchIsAllOrNothing` and `ReviewedUnlessPatched` exclude what cannot be had: a relink
  between check and write, another writer, one file under two names, and code that comes
  in a patch.

### What the code does and a document says otherwise

Three runs end in a violation, and `PROJECT.json` quotes the line each contradicts:

* `TraceLedgerFork`: two tasks inside `record` fork the chain (`core/trace_ledger.py:144`);
* `PostgresLedgerTwoStores`: each agent of a run opens a store whose chain starts at the
  genesis hash, and `verify_chain` reads them all as one chain
  (`cloud_adapters/azure/audit.py:140`), so its `False` need not mean that a row was modified;
* `GovernedRunUnredacted`: the raw loop (`payload_agents/raw/_runner.py:100`) and the Pydantic
  AI adapter drop the answer of `before_model` and send unredacted what the trail calls redacted.

Modelling showed more, which the models contain as behaviour and the properties
exclude by name:

* an entry written while `flush_async` of the PostgreSQL store awaits, after its loop has
  taken the last row, is cleared with the queue and lost, and the rows after it no longer chain
  (`WriteDuringFlush` in `PostgresLedger`), where `cloud_adapters/azure/audit.py:44` speaks
  of a backend that "queues writes for an async worker";
* `flush_async` of DynamoDB and BigQuery clears with its queue what was logged after the
  thread met the queue's end (`cloud_adapters/aws/audit.py:124`, `gcp/audit.py:133`), so that
  entry is never stored, where `docs/architecture-framework-aws.md:569` says "Every decision
  is written and hash-chained" (`IsAlone` in `CloudLedger`);
* LangGraph scans contents made of blocks and redacts strings only
  (`payload_agents/langgraph/_guard.py:99`), so a credential in a block is logged as redacted and
  sent (`editable` in `GovernedRun`);
* a commit that took effect and failed for the client is stored again by the next
  flush, and the table no longer verifies (`LateFailures` there);
* on DynamoDB a second flush or a second store of a run overwrites the first, where
  `docs/architecture.md:175` says "append-only" and correlates agents by `run_id`;
* rows that BigQuery refuses are logged and dropped from the queue
  (`cloud_adapters/gcp/audit.py:133`; `rejected` in `CloudLedger`);
* the Pydantic AI adapter calls neither `after_tool` nor `on_tool_error`, so its results
  are not scanned and its failures open no circuit, where `governance/pipeline.py:283`
  says that adapters call it;
* the LangGraph adapter drops the text that `after_model` masked, where
  `governance/pipeline.py:239` asks for its use;
* the Agent Framework's redactor reads the last message only, where
  `docs/observability-governance-showcase.md` (4.3) has it scan every message, and logs a
  redaction of a message whose text it could not set; a `record_usage` that raises in a
  `finally` skips the release of the window and the audit entry; windows are kept per
  agent, so the end of one run releases that of another; a budget entry says "allow"
  also after the call raised;
* `_base.build_agent` logs an undefined name after it has opened the ledger
  (`payload_agents/_base.py:161`), so that it always raises and the pool stays open
  (`lost` in `AgentBuild`);
* `invalidate()` is to be called on a 401 (`cloud_adapters/aws/secrets.py:102`), and nothing
  in the repository calls it; the raw and Pydantic factories pass no secret provider, so
  each call of theirs asks the store; Azure's provider caches an empty value;
* a query that meets the engine between its two assignments in `set_up` is refused as
  "unknown agent", and a run that ends in anything but a `GovernanceViolation` is neither
  flushed nor closed (`cloud_adapters/gcp/agent_engine.py`);
* a call whose task is cancelled, or whose handler returns no `A2AResponse`
  (`a2a/dispatcher.py:164`), logs its dispatch and no reply, where
  `tests/test_a2a_envelope.py:7` counts exactly two events per hop; a handler that reports a
  timeout is logged as a denial (line 171), and nothing reads the deadline that
  `payload_agents/config.py:50` names;
* without a broker an empty allow-list counts as none (`a2a/dispatcher.py:97`), so an agent
  with an empty list may call everybody, where `payload_agents/config/rogue.yaml:20` says
  that any dispatch is denied;
* baselines survive cold starts, says `governance/extensions/data_drift.py:14`; a process that
  dies between truncating the file and writing it takes those of all agents with it, and
  so does a reader that meets the empty file, or whose reading of it fails for any reason
  (`data_drift.py:74` catches every exception), and writes it back;
* drift quarantines nobody: `governance/extensions/data_fgac.py:191` drops the risk that
  `record_access` returns for its caller to act on (`data_drift.py:149`);
* a policy whose `max_classification` is misspelt is cleared up to RESTRICTED
  (`data_classification.py:107`), by the default that line 44 calls fail-closed;
* a row filter with no permitted value leaves no row in `InProcessEnforcer` and all of them
  in the query and the data-cells filter of `cloud_adapters/aws/data_fgac.py:82`; a second
  filter of an agent and table is refused, whatever its columns; and the filter registered
  for a denied decision has no column and admits every row (line 120), so
  `ReturnedIsInScope` holds a filter to the rows it shows something of;
* a data proxy deployed without a registry passes every request on
  (`cloud_adapters/aws/infra/lambda/data_proxy.py:90`);
* a tool on both of an agent's lists passes the agent's own pipeline, which gets the
  allow-list only (`payload_agents/raw/_runner.py:169`); the model proxy refuses it;
* the `edits` of `apply_patch` are under no key that a sweep guard reads, though docstrings
  of the guards name it; text that is not Python is denied, where
  `governance/pipeline.py:408` promises that a flag "never breaks an unrelated tool call";
  a number that does not parse raises out of `before_tool`, unlogged, and ends the run;
* a batch that spells one file in two ways loses the edits of one of them and reports
  success (`payload_agents/_lib/file_tools.py:155`);
* more files than the cap make the classification depend on the listing's order; a
  Dockerfile is of no text type, so its content pattern never matches in it; a chunk takes
  in the definition the next chunk begins with, and a target of 0 never ends.

### Fairness

Safety properties assume none.  `SqlLedgers` assumes weak fairness of the steps of each
store's started flush: the event loop resumes a coroutine whose await has completed, and
an await of the driver completes or raises.  `FrameworkRuns` assumes it of the
steps of a run: model and tools return or raise.  No code bounds them, so this
is an assumption about the environment.  `A2ADispatch` assumes that a handler returns or
raises, or breaks its call, unless it hangs, and says of every call that it ends unless one below it hangs.
`DataAccess` assumes that the steps of a read follow each other as long as its process
lives: they are one synchronous call.  `AgentBuild` assumes that a factory goes on (it is a
coroutine of a running loop), that time passes, and that the client keeps asking; that the
store stays up in the end is the premise of `KeyRecovers`.

## 4. The proofs

For every set of entries and every bound:

* `TypeCorrect`: `TypeOK` is an invariant of `PostgresLedger`, for any number of stores.
* `Inductive`: `IInv` is one, assuming `~WriteDuringFlush` and `~LateFailures`.
  `ChainVerifies` is not inductive: whether the next commit verifies depends on
  the queue, and on which part of it the open transaction holds.  `IInv`
  says of each store that its stream (what it stored followed by its queue, or what it stored
  alone between the commit and the clear) is one verifying chain of everything written to it,
  that the stream's last hash is its `last_hash`, and that its transaction is a prefix of its
  queue.  And the ids of its rows grow and were drawn, so that the table, if no other store has
  rows in it, is what the store has stored.
* `StoredChainVerifies` and `NothingRecordedIsLost` follow from it, and
  `ImplementsAppendOnlyLog` from it and the lemma that each step maps to a
  step or a stutter (`StepRefines`).  The premise of the first, that one store only has
  rows in the table, is needed: `PostgresLedgerTwoStores` violates the rest.
* `HashesAreHistories` and `VerifiedTableIsPrefix` hold in every environment and with any number
  of stores: each row, wherever it is, carries the hash of what its store had been given when
  it was queued.  A table that verifies ends in the hash of one row, and all its rows are in
  that hash, so `VerifiedPrefix` makes it a prefix of what that row's store was given.
* `HashChainProofs` holds the facts about chains: appending a row that is chained to
  the tail keeps a table verifying, a prefix of a verifying table verifies, and two
  verifying tables with the same tail have the same contents.

For any number of entries and failures (the last part of `PostgresLedgerProofs`):
`TraceTypeCorrect`, `OneTaskChainVerifies` and `OneTaskHasNoHole`, the last two for one task.
That is their premise and not a convenience: with two tasks both are false, as
`TraceLedgerFork` shows.  The invariant (`TraceInv`) relates the table to the hashes `record`
has returned and to the call that is inside its await.

For any agents, queries, entries and bounds (`AgentEngineProofs`); the agents are finitely many
and at least one, for a scan goes through the keys of the table, which stop at the longest
queue:

* `VerifiedScanIsOneLog`.  Each row, queued or stored, carries the hash of a beginning
  of its agent's log, and every backend's last hash is its whole log (`RowsInv`).  A scan that
  verifies ends in some row's hash, so `VerifiedPrefix` makes it a beginning of that row's log.
* `FlushesHeal`.  That the table is the log after a flush is not inductive: a failed
  attempt has put part of the batch, in any order, and the retry puts it again; and the
  queue grows while the thread iterates it.  The premise is that the flush took the whole log;
  what it did not take is dropped.  `HealInv`
  says that until the flush that returns, the whole log is queued and each key is free or
  holds the row of that very position, because `entry_seq` is the position in the queue; so the
  retry puts each row where the failed attempt had (`Healing`), and after it no row is
  missing (`Healed`).  A table with one row under each key has one scan, its rows in order
  (`ScansAreRows`, `OrderedRows`), by induction over the keys from the last to the first
  (`ScansInduction`).
* `ValidMeansWholeLog`, an action property.  A query that has not been flushed has its whole
  log queued, and when it comes to `verify_chain` the queue is empty and, on BigQuery, the row of
  the last entry is stored unless rows were refused (`QueriesInv`).  A scan that verifies and
  contains that row holds the log up to it (`VerifiedHoldsLog`), whatever others have
  inserted.  On DynamoDB an item can be replaced, and the answer rests on `FlushesHeal`.
* `TypeCorrect`, with bounds on the queues and on what may be on its way (`QueueInv`): a flush
  has taken no more than is queued, and each of the positions it has put is one of the queue's.

For any agents, registry and number of calls (`AuthorizationProofs`): `AuthorizedHandlers`,
`EveryHopLoggedTwice` and `HandlersAreAwaited`.  They are inductive together, with one more
fact, that a call is younger than the call whose handler makes it: the cancellation of a call
ends what is below it, and nothing else.  A call that breaks on what its handler returned is
left with its dispatch, like a cancelled one.

For any readers, agents, catalog, policies, rows, window and minimum (`AuthorizationProofs`):

* `BaselinesAreEarned` and `QuarantinesAreEarned`.  What a reader writes back it has loaded
  earlier, while others recorded.  `EarnedInv` says that every baseline, in the file or in the
  locals of a reader on its way there, is one of some accesses of its agent; that is kept by an
  overwrite, because an agent's history only grows.
* `BaselinesAreComplete`.  As long as recordings neither overlap nor fail nor misread, the file and the
  locals of the one that is recording together hold what every agent did (`CompleteInv`): the
  file is behind by one access while the new baseline is in a local, and is empty while the
  dictionary is.
* `ReadsStayInScope`.  What a reader was given is in the scope of its request, because a column
  is allowed only where the agent's clearance has its label (`AllowedIsCleared`); and a
  registered filter is that of a decision somebody asked for (`FiltersAreDecisions`).  The
  first form of the property, that each row a filter admits passes the row filter, could not be
  proved and is false: see the filter of a denied decision above.

For any messages, tools, texts, window, threshold and number of iterations
(`GovernedRunProofs`): `RequestsAreScreened`, `VerdictMatchesTrail` and
`AdaptersKeepContracts`, in all three adapters and both credential modes.  The first is not
inductive: what was sent stays screened only while the conversation it came from grows by
texts the window still has room for, and the adapters guard different parts of it.  `RunInv`
adds what each adapter knows at each stage of a reply (`RawInv`, `PydanticInv`), what the
trail says at each stage (`TrailInv`), and which texts are masked, redacted and safe by then
(`SpeechInv`).  The window makes sums of sizes necessary: a sum bounds its terms and grows
with them (`TotalBoundsAll`, `TotalIsMonotone`), by induction over the prefixes of the
conversation, as a set of positions that has no least element.  A text of size 0 is empty
and has no marks (`Texts`): otherwise joining texts could hide what the empty ones say.

For any set of messages and runs and every subset of the guards (the last part of
`GovernedRunProofs`): `LastMessagesAreScreened`, `TrailsExplainRuns` and `WindowsHaveRuns`.  The guards
run in the step that dispatches a run and its `finally` blocks in another, between which other
runs of the agent go on; so `MafInv` adds what is on record of a run that waits for the
model, an allowed toolkit entry and no budget entry (`WaitingInv`), and that a usage is lost
only by a run that is over (`LostInv`).

For any agents, frameworks, sharing of the provider, key versions and time to live
(`AgentBuildProofs`): `OpenLedgersAreOwned`, `ServedKeysAreCurrent` and `RefusedKeysStayGone`.
The first is inductive.  For the second, a cached key was held by the store no longer ago
than its age says, because the clock is read before the request is sent (`FetchedInTime`);
for the third, an action property, what came out of the store is no newer than the
store's key, and refused keys are older and out of the cache (`RefusedIsPast`).

For every configuration and every floor (`PolicyDistributionProofs`): `apply_floor` returns
the loosest configuration that is as strict as both (`FloorIsMeet`), reports a field
exactly when it changed it (`ReportsAreExact`), and reports nothing the second time
(`ClampedIsSilent`).  The arguments rest on one fact: the looseness of a value on a scale is
its index there, so the clamped value is the one of the smaller index.

For every prompt, reply and policy: `NothingForbiddenPasses`.  What passes a
configuration's checks is within that configuration (`SentIsWithin`, `ReturnedIsWithin`), and what
is within a configuration is within every weaker one (`WithinIsMonotone`).  The first part
needs that the proxy's severity ranks and the floor's scale, two tables in two files, order
the severities alike (`RanksFollowScale`).

For every set of agents, files, tools and instances, every floor and any number of
edits: `TypeCorrect`, `FloorHoldsEverywhere`, `ServedOnlyWithinPolicy` and
`FloorEnforcedEverywhere`.  The last two are not inductive: an answer's tools are within a
file, and what it sent within the floor, only if its policy is known to come from a file.
`PolicyInv` says that every policy, wherever it stands, is some file resolved; what `apply_floor` does to a file gives the rest.
The assumptions are those of the modules: files are well-formed configurations, and the
markers for missing policies are not policies themselves.

For any agents, files, spellings, pieces and batches (`AgentLibraryProofs`): `WritesStayInside`,
`UnreviewedCodeIsPatched` and `PatchesAreWhole`.  What a step of a call does to the files and to
the other calls is one lemma (`StepFootprint`): it leaves the files alone, or puts content
that was reviewed or patched through a spelling it has checked, and disturbs whoever has
checked a spelling of the same file.  `CallInv` says what a call has checked and not written,
`BatchInv` that each edit of a batch is left or made in the one working copy of its file, and
that a working copy is still to be written or is what the file contains.  The last part
needs the two exceptions of the property: an alias in the batch, or a relink between two of its
writes, and a later write replaces an earlier one.

For a file of any length, any target and overlap: `ChunksAreTheFile`.  `LoopInv` remembers the
boundary at which the newest chunk was closed (`ClosedAt`).  From it follows that a chunk is
closed at the last boundary in every case, so that the code after the loop, which would
return what is left of the file, never finds anything left (`ReturnStep`).

For any table of types with thresholds above zero, and any finite repository:
`SameRepoSameType`.  The winner so far comes before every other type considered that clears its
threshold (`BestUpTo`), by score, then by threshold, then by its row (`Betters`), and a
listing that stops at the cap has missed nothing if no more files than that count
(`AllFilesGathered`).  A threshold of zero would be cleared by a score of zero, which is not
above the score the loop begins with; the table has none.

So every safety property that a run checks and nothing contradicts is a theorem, action
properties and the refinement included.  Only model-checked is liveness (`FlushEnds`, `RunEnds`,
`EveryDispatchAnswered`, `ReadsReturn`, `KeyRecovers`): it rests on fairness, and so on
ENABLED, of which the prover knows nothing.

## 5. What is not modelled

* The guards that no pipeline registers (rate limit, reversibility, transparency,
  constraint graph, MCP session, signer, gateway and screen, escalation, content quality):
  `governance/pipeline.py:408` leaves them to a demo script, and what state they have is
  kept by `agent_os`, which is not part of the repository.
* Conversions between message formats, request signing, spans and log files, reports, the
  complexity scorer, demo scripts, deployment scripts and infrastructure files, the one
  call of the AWS orchestrator.  `PROJECT.json` gives the reason per component.
* The Cedar authorizer and the policies of `agent_os` behind a label.  The entropy of a
  baseline is a logarithm, so whether it is high is a free choice once there are tables
  enough.
* The model proxy looks at texts only: arguments of earlier tool calls and the other fields
  of a request are outside of its checks and of `FloorEnforced`.  A credential that is one
  only across two blocks is detected in the joined text and not masked in either; marks
  belong to one block here.
* The texts of a message are those its adapter reads out of it.  A bare string inside a
  LangChain list of blocks is not read by `_model_input_text`, so no guard sees it; such a
  message is none of the model's.
* A key that was refused is followed as one of the store's; the same value in an environment
  variable, which a fallback reads, would be served again.
* The tamper evidence of the ledgers is modelled as far as the program's own steps can
  disturb a chain; what an outside edit of each column would do is not.  Nor is the crash
  of the agent engine's container; crashes of the stores' processes are.
* A classification reads its files once they are listed; they are taken not to change.

## 6. Plan

All components with state of their own that the repository contains are modelled, and their
safety properties are proved.  What remains is outside of both: the liveness properties stay
with TLC, and section 5 lists what is left out of the models.  When the code changes, the lines
in `PROJECT.json` say which definitions are concerned; a run is the cheap test of a changed
definition, and the proof modules cite it by name where an argument depends on it.
