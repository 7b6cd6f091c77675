----------------------------- MODULE AgentBuild -----------------------------
(***************************************************************************)
(* Building governed agents in one process: the factories of the           *)
(* frameworks (payload_agents/_base.py, langgraph/_runner.py and           *)
(* raw/_runner.py, whose twin is pydantic/_runner.py), the NHI registry    *)
(* and the identity providers, the LLM gateways with the key they fetch    *)
(* through SecretCache, and the ledger each agent opens.  A factory runs   *)
(* on the event loop without suspending, except where Postgres is          *)
(* connected.  A client of the process keeps asking for the key.           *)
(***************************************************************************)
EXTENDS SecretCache

CONSTANTS
    Agents,         \* the agents built, one factory call each
    FrameworkOf,    \* the framework of each: "maf", "langgraph" or "raw"
    Providers,      \* values of CLOUD_PROVIDER that a process may start with
    Sharing,        \* agents built with the shared secret provider
    Client          \* other code that asks for the key

ASSUME FactoryAssumption ==
    /\ FrameworkOf \in [Agents -> {"maf", "langgraph", "raw"}]
    /\ Providers \subseteq {"azure", "aws", "gcp", "local", "unknown"}
    /\ Sharing \subseteq {a \in Agents : FrameworkOf[a] # "raw"}
    /\ Client \notin Agents /\ Callers = Agents \cup {Client}

VARIABLES
    provider,   \* CLOUD_PROVIDER
    gateway,    \* the managed gateway's endpoint is configured
    step,       \* how far each factory is
    mode,       \* the egress its bundle is labelled with
    ledger,     \* its audit backend
    refused     \* history: keys of the store a 401 was answered to

buildSettings == <<provider, gateway>>
buildVars == <<step, mode, ledger, refused>>
vars == <<cacheVars, buildSettings, buildVars>>

Steps == {"new", "identified", "awaiting", "resolved", "opening", "built", "raised", "lost",
          "closed"}

TypeOK ==
    /\ CacheTypeOK
    /\ provider \in Providers /\ gateway \in BOOLEAN
    /\ step \in [Agents -> Steps]
    /\ mode \in [Agents -> {"none", "gateway", "direct", "offline", "refused"}]
    /\ ledger \in [Agents -> {"none", "open", "stdout", "closed"}]
    /\ refused \subseteq Keys
    /\ \A a \in Agents : step[a] = "awaiting" <=> (fetch.waiting /\ fetch.by = a)

\* Where an agent's id is found: NHI_CLIENT_ID_<TYPE> has it, or the naming convention
\* and an account or project do, which AWS and GCP turn into an id when
\* NHI_DERIVE_FROM_CONVENTION is set.  Azure's lookup in Entra finds nothing yet.
IdSources == {"env", "convention", "nowhere"}
AwsIds == {"env", "convention"}
GcpIds == {"env", "convention"}
AzureIds == {"env"}
LocalIds == {"env"}

\* What each provider package binds: its secret provider, the ids it finds, whether
\* its gateway needs a key even without a managed endpoint, and its ledger.
AwsProvider == [secrets |-> "aws", ids |-> AwsIds, direct_key |-> FALSE, ledger |-> "dynamodb"]
GcpProvider == [secrets |-> "gcp", ids |-> GcpIds, direct_key |-> FALSE, ledger |-> "bigquery"]
AzureProvider == [secrets |-> "azure", ids |-> AzureIds, direct_key |-> TRUE, ledger |-> "postgres"]
LocalProvider == [secrets |-> "env", ids |-> LocalIds, direct_key |-> FALSE, ledger |-> "memory"]

\* get_provider: any other name raises.
CloudProvider ==
    [aws |-> AwsProvider, gcp |-> GcpProvider, azure |-> AzureProvider, local |-> LocalProvider]
Known(p) == p \in DOMAIN CloudProvider

Init ==
    /\ CacheInit
    /\ provider \in Providers
    /\ kind = IF Known(provider) THEN CloudProvider[provider].secrets ELSE "env"
    /\ gateway \in BOOLEAN /\ (gateway => provider \in {"azure", "aws", "gcp"})
    /\ step = [a \in Agents |-> "new"]
    /\ mode = [a \in Agents |-> "none"]
    /\ ledger = [a \in Agents |-> "none"]
    /\ refused = {}

---------------------------------------------------------------------------
(* Who may run: the loop belongs to one factory from its call to its       *)
(* await, which only asyncpg.create_pool really is.                        *)

OnPostgres(a) ==
    FrameworkOf[a] = "maf" \/ (Known(provider) /\ CloudProvider[provider].ledger = "postgres")
Suspended(a) ==
    \/ step[a] \in {"new", "built", "raised", "lost", "closed"}
    \/ step[a] = "opening" /\ OnPostgres(a)
LoopIsFree == ~fetch.waiting /\ \A a \in Agents : Suspended(a)
Runs(a) == \A b \in Agents \ {a} : Suspended(b)

Fails(a) == step' = [step EXCEPT ![a] = "raised"]
Goes(a, s) == step' = [step EXCEPT ![a] = s]

\* NHIRegistry._resolve_client_id: the provider's answer, else the environment's,
\* also when there is no such provider.
ResolvesClientId(p, id) == (Known(p) /\ id \in CloudProvider[p].ids) \/ id = "env"

\* Mutant of Identify: the ledger is opened first.
IdentifyOpening(a) ==
    /\ LoopIsFree /\ step[a] = "new"
    /\ \E id \in IdSources :
           Goes(a, IF ResolvesClientId(provider, id) THEN "identified" ELSE "raised")
    /\ ledger' = [ledger EXCEPT ![a] = "open"]
    /\ UNCHANGED <<cacheVars, buildSettings, mode, refused>>

\* NHIRegistry.get: an agent without an id is not built.
Identify(a) ==
    /\ LoopIsFree /\ step[a] = "new"
    /\ \E id \in IdSources :
           Goes(a, IF ResolvesClientId(provider, id) THEN "identified" ELSE "raised")
    /\ UNCHANGED <<cacheVars, buildSettings, mode, ledger, refused>>

\* _load_prompt and _validate_tool_allowlist, which only _base's factory calls, and
\* calls first.
PromptOrToolsRefused(a) ==
    /\ LoopIsFree /\ step[a] = "new" /\ FrameworkOf[a] = "maf"
    /\ Fails(a)
    /\ UNCHANGED <<cacheVars, buildSettings, mode, ledger, refused>>

\* An exception of the gateway ends _base's factory; the other factories swallow it
\* and label the agent.
EgressRaises(a) ==
    IF FrameworkOf[a] = "maf"
    THEN Fails(a) /\ UNCHANGED mode
    ELSE Goes(a, "resolved") /\ mode' = [mode EXCEPT ![a] = "refused"]

EgressResolved(a, m) ==
    Goes(a, "resolved") /\ mode' = [mode EXCEPT ![a] = m]

\* llm_gateway().resolve(): direct Bedrock and Vertex are signed with the agent's
\* own credentials, direct Azure OpenAI still takes a key.
NeedsKey == Known(provider) /\ (gateway \/ CloudProvider[provider].direct_key)

ResolveWithoutKey(a) ==
    /\ Runs(a) /\ step[a] = "identified" /\ ~NeedsKey
    /\ CASE ~Known(provider) -> EgressRaises(a)
         [] provider = "local" -> EgressResolved(a, "offline")
         [] OTHER -> EgressResolved(a, "direct")
    /\ UNCHANGED <<cacheVars, buildSettings, ledger, refused>>

Fresh(a) == a \notin Sharing

AskForKey(a) ==
    /\ Runs(a) /\ step[a] = "identified" /\ NeedsKey
    /\ AskStore(a, Fresh(a))
    /\ Goes(a, "awaiting")
    /\ UNCHANGED <<buildSettings, mode, ledger, refused>>

\* Without a gateway os.environ["AZURE_OPENAI_ENDPOINT"] is read after the key, and
\* may not be there.
KeyReturned(a) ==
    /\ Runs(a) /\ NeedsKey
    /\ step[a] = "awaiting" \/ (step[a] = "identified" /\ ~fetch.waiting)
    /\ Returns(a, Fresh(a))
    /\ \/ /\ served'.from = "raised" \/ ~gateway
          /\ EgressRaises(a)
       \/ /\ served'.from # "raised"
          /\ EgressResolved(a, IF gateway THEN "gateway" ELSE "direct")
    /\ UNCHANGED <<buildSettings, ledger, refused>>

\* audit_backend(): an unknown provider raises here at last.
OpenLedger(a) ==
    /\ Runs(a) /\ step[a] = "resolved"
    /\ Goes(a, IF Known(provider) THEN "opening" ELSE "raised")
    /\ UNCHANGED <<cacheVars, buildSettings, mode, ledger, refused>>

\* What comes after the ledger is open may raise and leave it to nobody: a catalog or a
\* guard's configuration that does not load, a tool that the framework refuses.  _base
\* logs a name it never bound, and always raises.
Bundled(a) ==
    \/ FrameworkOf[a] # "maf" /\ Goes(a, "built") /\ UNCHANGED mode
    \/ Goes(a, "lost") /\ mode' = [mode EXCEPT ![a] = "none"]

\* create() swallows a failed connection.
LedgerOpened(a) ==
    /\ Runs(a) /\ ~fetch.waiting /\ step[a] = "opening"
    /\ \E l \in IF CloudProvider[provider].ledger = "memory" /\ ~OnPostgres(a) THEN {"open"} ELSE {"open", "stdout"} :
           ledger' = [ledger EXCEPT ![a] = l]
    /\ Bundled(a)
    /\ UNCHANGED <<cacheVars, buildSettings, refused>>

\* The caller owns the bundle and closes its ledger.
CloseLedger(a) ==
    /\ LoopIsFree /\ step[a] = "built"
    /\ Goes(a, "closed") /\ ledger' = [ledger EXCEPT ![a] = "closed"]
    /\ mode' = [mode EXCEPT ![a] = "none"]
    /\ UNCHANGED <<cacheVars, buildSettings, refused>>

---------------------------------------------------------------------------
(* The client of the shared provider, and the world.                       *)

ClientAsks ==
    /\ LoopIsFree /\ AskStore(Client, FALSE)
    /\ UNCHANGED <<buildSettings, buildVars>>

ClientIsAnswered ==
    /\ \A a \in Agents : Suspended(a)
    /\ Returns(Client, FALSE)
    /\ UNCHANGED <<buildSettings, buildVars>>

\* A 401: the key served is not the store's any more.
ClientIsRefused ==
    /\ LoopIsFree /\ served.key = cachedKey /\ served.key # store
    /\ Invalidate
    /\ refused' = IF served.from = "store" THEN refused \cup {served.key} ELSE refused
    /\ UNCHANGED <<buildSettings, step, mode, ledger>>

World == (Rotate \/ Outage \/ Tick) /\ UNCHANGED <<buildSettings, buildVars>>

Factory(a) ==
    \/ Identify(a) \/ PromptOrToolsRefused(a) \/ ResolveWithoutKey(a) \/ AskForKey(a) \/ KeyReturned(a)
    \/ OpenLedger(a) \/ LedgerOpened(a)

ClientCalls == ClientAsks \/ ClientIsAnswered

Next ==
    \/ \E a \in Agents : Factory(a) \/ CloseLedger(a)
    \/ ClientCalls \/ ClientIsRefused
    \/ World

\* A factory that has the loop goes on; a request is answered or fails; time passes;
\* the client is one that keeps asking.
Fairness ==
    /\ \A a \in Agents : WF_vars(Factory(a))
    /\ WF_vars(ClientCalls)
    /\ WF_vars(Tick /\ UNCHANGED <<buildSettings, buildVars>>)

Spec == Init /\ [][Next]_vars
LiveSpec == Spec /\ Fairness

---------------------------------------------------------------------------
(* Properties.                                                             *)

\* What get_api_key returns is current: the store held the key less than a time to
\* live ago, or the variable stood in for a store that had given nothing for less
\* than that, or the store failed in this very call.
KeyIsCurrent == served.late => served.outage

\* invalidate() drops a refused key for good: with the store down it is not served
\* as the stale fallback either.
RefusedKeyIsGone ==
    [][served' # served => ~(served'.from = "store" /\ served'.key \in refused)]_vars

\* The state is well typed, and a factory that gives up over its prompt, its
\* identity, its key, its endpoint or its provider has opened no ledger: one that is
\* open is a built agent's, or that of a factory that raised after opening it.
LedgersHaveOwners ==
    /\ TypeOK
    /\ \A a \in Agents : ledger[a] = "open" => step[a] \in {"built", "lost"}

\* After outages and rotations the cache finds back to the store: if the store stays
\* up, what a client that keeps asking has cached is the store's own key.
KeyRecovers ==
    (<>[](storeUp /\ client /\ store # NoKey)) => <>[](cachedKey = store)
============================================================================
