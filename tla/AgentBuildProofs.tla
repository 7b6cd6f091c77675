--------------------------- MODULE AgentBuildProofs ---------------------------
(***************************************************************************)
(* Theorems about AgentBuild, for every set of agents, assignment of       *)
(* frameworks, sharing of the secret provider, number of key versions and  *)
(* time to live: the state is well typed and an open ledger has an owner,  *)
(* a late key is served in an outage only, and a refused key never again.  *)
(***************************************************************************)
EXTENDS AgentBuild, TLAPS

-------------------------------------------------------------------------------
(***************************************************************************)
(* The clock                                                               *)
(***************************************************************************)

\* An age that grows stays in its range, does not shrink, and keeps its order with
\* another one.
LEMMA AgedIsMonotone ==
    /\ \A t \in Ages : Aged(t) \in Ages /\ t <= Aged(t)
    /\ \A s, t \in Ages : s <= t => Aged(s) <= Aged(t)
BY TimeAssumption DEF Aged, Ages

-------------------------------------------------------------------------------
(***************************************************************************)
(* The cache: types                                                        *)
(***************************************************************************)

\* What get_api_key returns or raises leaves the cache well typed, and nothing waits.
LEMMA ReturnsType ==
    ASSUME CacheTypeOK, NEW c, NEW fresh \in BOOLEAN, Returns(c, fresh)
    PROVE  CacheTypeOK' /\ fetch' = NoFetch /\ served'.from \in {"store", "env", "raised"}
<1>0. /\ NoKey \in 0 .. MaxKey /\ 0 \in Ages /\ Nothing \in Replies
      /\ NoFetch \in Fetches /\ ~NoFetch.waiting
  BY TimeAssumption DEF NoKey, Ages, Fetches, NoFetch, Nothing, Replies
<1>1. \A key \in 0 .. MaxKey, from \in {"store", "env"} : IsLate(key, from) \in BOOLEAN
  <2> SUFFICES ASSUME NEW key \in 0 .. MaxKey, NEW from \in {"store", "env"}
               PROVE  IsLate(key, from) \in BOOLEAN
    OBVIOUS
  <2>1. CASE from = "env"
    <3>1. silence \in Nat /\ TTL \in Nat
      BY TimeAssumption DEF CacheTypeOK, Ages
    <3>2. (silence >= TTL) \in BOOLEAN
      BY <3>1
    <3> QED BY <2>1, <3>2 DEF IsLate
  <2>2. CASE from # "env"
    BY <2>2 DEF IsLate
  <2> QED BY <2>1, <2>2
<1>2. ~fetch.waiting => fetch = NoFetch
  BY DEF CacheTypeOK, Fetches
<1>3. ASSUME NEW since \in Ages, NEW f \in BOOLEAN, Fallback(since, f)
      PROVE  /\ cachedKey' \in 0 .. MaxKey /\ age' \in Ages /\ cachedFrom' \in {"store", "env"}
             /\ silence' \in Ages /\ served' \in Replies
  <2>1. silence' \in Ages
    BY <1>3, <1>0 DEF Fallback, CacheTypeOK
  <2>2. CASE envKey # NoKey
    <3>1. /\ Cache(envKey, "env", since, f)
          /\ served' = [key |-> envKey, from |-> "env", outage |-> FALSE, late |-> FALSE]
      BY <1>3, <2>2 DEF Fallback
    <3>2. served' \in Replies
      BY <3>1 DEF CacheTypeOK, Replies
    <3> QED BY <3>1, <3>2, <2>1, <1>3 DEF Cache, CacheTypeOK
  <2>3. CASE envKey = NoKey
    <3>1. served' = Nothing /\ UNCHANGED <<cachedKey, age, cachedFrom>>
      BY <1>3, <2>3 DEF Fallback
    <3> QED BY <3>1, <2>1, <1>0 DEF CacheTypeOK
  <2> QED BY <2>2, <2>3
<1>4. CASE ~fresh /\ CacheHit(c)
  <2>1. IsLate(cachedKey, cachedFrom) \in BOOLEAN
    BY <1>1 DEF CacheTypeOK
  <2>2. served' \in Replies
    BY <1>4, <2>1 DEF CacheHit, CacheTypeOK, Replies
  <2>3. served'.from \in {"store", "env", "raised"}
    BY <2>2 DEF Replies
  <2> QED BY <1>4, <2>2, <2>3, <1>2 DEF CacheHit, CacheTypeOK, settings, storeVars
<1>5. CASE AskEnvironment(c, fresh)
  <2>1. Fallback(0, fresh) /\ ~fetch.waiting /\ UNCHANGED <<settings, storeVars, fetch, elapsed>>
    BY <1>5 DEF AskEnvironment
  <2>2. served' \in Replies /\ served'.from \in {"store", "env", "raised"}
    BY <2>1, <1>3, <1>0 DEF Replies
  <2> QED BY <2>1, <2>2, <1>0, <1>2, <1>3 DEF CacheTypeOK, settings, storeVars
<1>6. CASE fetch.waiting /\ fetch.fresh = fresh /\ StoreAnswers(c)
  <2>1. elapsed \in Ages /\ fetch.fresh \in BOOLEAN
    BY <1>6 DEF CacheTypeOK
  <2>2. /\ cachedKey' \in 0 .. MaxKey /\ age' \in Ages /\ cachedFrom' \in {"store", "env"}
        /\ silence' \in Ages /\ served' \in Replies
    <3>1. CASE store = NoKey /\ kind # "azure"
      BY <1>6, <3>1, <1>3, <2>1 DEF StoreAnswers
    <3>2. CASE store # NoKey \/ kind = "azure"
      <4>1. /\ Cache(store, "store", elapsed, fetch.fresh) /\ silence' = silence
            /\ served' = [key |-> store, from |-> "store", outage |-> FALSE, late |-> FALSE]
        BY <1>6, <3>2 DEF StoreAnswers
      <4> QED BY <4>1, <2>1 DEF Cache, CacheTypeOK, Replies
    <3> QED BY <3>1, <3>2
  <2>3. fetch' = NoFetch /\ elapsed' = 0 /\ UNCHANGED <<settings, storeVars>>
    BY <1>6 DEF StoreAnswers
  <2>4. served'.from \in {"store", "env", "raised"}
    BY <2>2 DEF Replies
  <2> QED BY <2>2, <2>3, <2>4, <1>0 DEF CacheTypeOK, settings, storeVars
<1>7. CASE fetch.waiting /\ fetch.fresh = fresh /\ StoreFails(c)
  <2>1. elapsed \in Ages /\ fetch.fresh \in BOOLEAN
    BY <1>7 DEF CacheTypeOK
  <2>2. /\ cachedKey' \in 0 .. MaxKey /\ age' \in Ages /\ cachedFrom' \in {"store", "env"}
        /\ silence' \in Ages /\ served' \in Replies
    <3>1. IsLate(cachedKey, cachedFrom) \in BOOLEAN
      BY <1>1 DEF CacheTypeOK
    <3>2. CASE cachedKey # NoKey /\ ~fetch.fresh
      <4>1. /\ served' = [key |-> cachedKey, from |-> cachedFrom, outage |-> TRUE,
                          late |-> IsLate(cachedKey, cachedFrom)]
            /\ silence' = 0 /\ UNCHANGED <<cachedKey, age, cachedFrom>>
        BY <1>7, <3>2 DEF StoreFails
      <4>2. served' \in Replies
        BY <4>1, <3>1 DEF Replies, CacheTypeOK
      <4> QED BY <4>1, <4>2, <1>0 DEF CacheTypeOK
    <3>3. CASE cachedKey = NoKey \/ fetch.fresh
      BY <1>7, <3>3, <1>3, <2>1 DEF StoreFails
    <3> QED BY <3>2, <3>3
  <2>3. fetch' = NoFetch /\ elapsed' = 0 /\ UNCHANGED <<settings, storeVars>>
    BY <1>7 DEF StoreFails
  <2>4. served'.from \in {"store", "env", "raised"}
    BY <2>2 DEF Replies
  <2> QED BY <2>2, <2>3, <2>4, <1>0 DEF CacheTypeOK, settings, storeVars
<1> QED BY <1>4, <1>5, <1>6, <1>7 DEF Returns

\* A request to the store leaves the cache well typed and waits for its caller.
LEMMA AskStoreType ==
    ASSUME CacheTypeOK, NEW c \in Callers, NEW fresh \in BOOLEAN, AskStore(c, fresh)
    PROVE  CacheTypeOK' /\ fetch'.waiting /\ fetch'.by = c
<1>1. fetch' \in Fetches /\ fetch'.waiting /\ fetch'.by = c
  BY DEF AskStore, Fetches
<1>2. 0 \in Ages /\ Nothing \in Replies
  BY TimeAssumption DEF Ages, NoKey, Nothing, Replies
<1> QED BY <1>1, <1>2 DEF AskStore, CacheTypeOK, settings, storeVars

\* So do an invalidation and the steps of the store and of time, which leave the
\* request that waits alone.
LEMMA OtherCacheStepsType ==
    ASSUME CacheTypeOK, Invalidate \/ Rotate \/ Outage \/ Tick
    PROVE  CacheTypeOK' /\ fetch' = fetch
<1>0. NoKey \in 0 .. MaxKey /\ 0 \in Ages /\ TTL \in Ages /\ Nothing \in Replies
  BY TimeAssumption DEF NoKey, Ages, Nothing, Replies
<1>1. CASE Invalidate
  BY <1>1, <1>0 DEF Invalidate, CacheTypeOK, settings, storeVars
<1>2. CASE Rotate
  <2>1. store + 1 \in Keys /\ store + 1 \in 0 .. MaxKey
    BY <1>2, TimeAssumption DEF Rotate, CacheTypeOK, Keys
  <2>2. lag' \in [Keys -> Ages]
    BY <1>2, <2>1, <1>0 DEF Rotate, CacheTypeOK
  <2> QED BY <1>2, <2>1, <2>2 DEF Rotate, CacheTypeOK, settings
<1>3. CASE Outage
  BY <1>3 DEF Outage, StoreGoes, StoreComes, CacheTypeOK, settings
<1>4. CASE Tick
  <2>1. lag' \in [Keys -> Ages]
    BY <1>4, <1>0, AgedIsMonotone DEF Tick, CacheTypeOK
  <2>2. {age', elapsed', silence'} \subseteq Ages
    BY <1>4, <1>0, AgedIsMonotone DEF Tick, CacheTypeOK
  <2> QED BY <1>4, <2>1, <2>2 DEF Tick, CacheTypeOK, settings
<1> QED BY <1>1, <1>2, <1>3, <1>4

-------------------------------------------------------------------------------
(***************************************************************************)
(* The factories: types and ledgers                                        *)
(***************************************************************************)

\* LedgersHaveOwners is inductive as it stands, its type invariant with it.
LEMMA OwnersStart == Init => LedgersHaveOwners
<1> SUFFICES ASSUME Init PROVE LedgersHaveOwners
  OBVIOUS
<1>1. CacheTypeOK
  <2>1. /\ {NoKey, 1} \subseteq 0 .. MaxKey /\ 0 \in Ages /\ TTL \in Ages
        /\ NoFetch \in Fetches /\ ~NoFetch.waiting /\ Nothing \in Replies
    BY TimeAssumption DEF NoKey, Ages, Fetches, NoFetch, Nothing, Replies
  <2>2. lag \in [Keys -> Ages]
    BY <2>1 DEF Init, CacheInit
  <2>3. kind \in {"env", "aws", "gcp", "azure"} /\ client \in BOOLEAN /\ (kind = "env" => ~client)
    BY DEF Init, CacheInit
  <2> QED BY <2>1, <2>2, <2>3 DEF Init, CacheInit, CacheTypeOK
<1>2. /\ provider \in Providers /\ gateway \in BOOLEAN /\ step \in [Agents -> Steps]
      /\ mode \in [Agents -> {"none", "gateway", "direct", "offline", "refused"}]
      /\ ledger \in [Agents -> {"none", "open", "stdout", "closed"}]
      /\ refused \subseteq Keys
  BY DEF Init, Steps
<1>3. \A a \in Agents : step[a] # "awaiting" /\ ledger[a] = "none" /\ ~fetch.waiting
  BY DEF Init, CacheInit, NoFetch
<1> QED BY <1>1, <1>2, <1>3 DEF LedgersHaveOwners, TypeOK

\* Every step of the specification keeps the types and the owners.
LEMMA OwnersStay == LedgersHaveOwners /\ [Next]_vars => LedgersHaveOwners'
<1> SUFFICES ASSUME LedgersHaveOwners, [Next]_vars PROVE LedgersHaveOwners'
  OBVIOUS
<1> DEFINE Frame ==
        /\ provider \in Providers /\ gateway \in BOOLEAN /\ step \in [Agents -> Steps]
        /\ mode \in [Agents -> {"none", "gateway", "direct", "offline", "refused"}]
        /\ ledger \in [Agents -> {"none", "open", "stdout", "closed"}]
        /\ refused \subseteq Keys
    Waits == \A a \in Agents : step[a] = "awaiting" <=> (fetch.waiting /\ fetch.by = a)
    Owned == \A a \in Agents : ledger[a] = "open" => step[a] \in {"built", "lost"}
<1>0. CacheTypeOK /\ Frame /\ Waits /\ Owned
  BY DEF LedgersHaveOwners, TypeOK
<1>q. CacheTypeOK' /\ Frame' /\ Waits' /\ Owned' => LedgersHaveOwners'
  BY DEF LedgersHaveOwners, TypeOK
<1>1. ASSUME NEW a \in Agents, Identify(a) \/ PromptOrToolsRefused(a) PROVE LedgersHaveOwners'
  <2>1. CacheTypeOK'
    BY <1>1, <1>0 DEF Identify, PromptOrToolsRefused, cacheVars, CacheTypeOK
  <2>2. /\ UNCHANGED <<provider, gateway, mode, ledger, refused, fetch>> /\ step[a] = "new"
        /\ \E s \in {"identified", "raised"} : step' = [step EXCEPT ![a] = s]
    BY <1>1 DEF Identify, PromptOrToolsRefused, cacheVars, buildSettings, Goes, Fails
  <2>3. Frame' /\ Waits' /\ Owned'
    BY <2>2, <1>0 DEF Steps
  <2> QED BY <2>1, <2>3, <1>q
<1>2. ASSUME NEW a \in Agents, ResolveWithoutKey(a) PROVE LedgersHaveOwners'
  <2>1. CacheTypeOK'
    BY <1>2, <1>0 DEF ResolveWithoutKey, cacheVars, CacheTypeOK
  <2>2. /\ UNCHANGED <<provider, gateway, ledger, refused, fetch>> /\ step[a] = "identified"
        /\ \E s \in {"resolved", "raised"} : step' = [step EXCEPT ![a] = s]
        /\ mode' \in [Agents -> {"none", "gateway", "direct", "offline", "refused"}]
    BY <1>2, <1>0 DEF ResolveWithoutKey, cacheVars, buildSettings, Goes, Fails,
                      EgressRaises, EgressResolved
  <2>3. Frame' /\ Waits' /\ Owned'
    BY <2>2, <1>0 DEF Steps
  <2> QED BY <2>1, <2>3, <1>q
<1>3. ASSUME NEW a \in Agents, AskForKey(a) PROVE LedgersHaveOwners'
  <2>1. a \in Callers /\ Fresh(a) \in BOOLEAN /\ AskStore(a, Fresh(a))
    BY <1>3, FactoryAssumption DEF AskForKey, Fresh
  <2>2. CacheTypeOK' /\ fetch'.waiting /\ fetch'.by = a
    BY <2>1, <1>0, AskStoreType
  <2>3. /\ UNCHANGED <<provider, gateway, mode, ledger, refused>> /\ step[a] = "identified"
        /\ step' = [step EXCEPT ![a] = "awaiting"] /\ ~fetch.waiting
    BY <1>3 DEF AskForKey, AskStore, buildSettings, Goes
  <2>4. Frame' /\ Waits' /\ Owned'
    BY <2>2, <2>3, <1>0 DEF Steps
  <2> QED BY <2>2, <2>4, <1>q
<1>4. ASSUME NEW a \in Agents, KeyReturned(a) PROVE LedgersHaveOwners'
  <2>1. Fresh(a) \in BOOLEAN /\ Returns(a, Fresh(a))
    BY <1>4 DEF KeyReturned, Fresh
  <2>2. CacheTypeOK' /\ fetch' = NoFetch
    BY <2>1, <1>0, ReturnsType
  <2>3. /\ UNCHANGED <<provider, gateway, ledger, refused>>
        /\ step[a] \in {"identified", "awaiting"} /\ (~fetch.waiting \/ fetch.by = a)
        /\ \E s \in {"resolved", "raised"} : step' = [step EXCEPT ![a] = s]
        /\ mode' \in [Agents -> {"none", "gateway", "direct", "offline", "refused"}]
    BY <1>4, <1>0 DEF KeyReturned, buildSettings, Goes, Fails, EgressRaises, EgressResolved
  <2>4. ~fetch'.waiting
    BY <2>2 DEF NoFetch
  <2>5. Frame' /\ Waits' /\ Owned'
    BY <2>3, <2>4, <1>0 DEF Steps
  <2> QED BY <2>2, <2>5, <1>q
<1>5. ASSUME NEW a \in Agents, OpenLedger(a) \/ LedgerOpened(a) PROVE LedgersHaveOwners'
  <2>1. CacheTypeOK' /\ UNCHANGED <<provider, gateway, refused, fetch>>
    BY <1>5, <1>0 DEF OpenLedger, LedgerOpened, cacheVars, buildSettings, CacheTypeOK
  <2>2. CASE OpenLedger(a)
    <3>1. /\ step[a] = "resolved" /\ UNCHANGED <<mode, ledger>>
          /\ \E s \in {"opening", "raised"} : step' = [step EXCEPT ![a] = s]
      BY <2>2 DEF OpenLedger, Goes
    <3> QED BY <3>1, <2>1, <1>0, <1>q DEF Steps
  <2>3. CASE LedgerOpened(a)
    <3>1. /\ step[a] = "opening"
          /\ \E l \in {"open", "stdout"} : ledger' = [ledger EXCEPT ![a] = l]
          /\ \E s \in {"built", "lost"} : step' = [step EXCEPT ![a] = s]
          /\ mode' \in [Agents -> {"none", "gateway", "direct", "offline", "refused"}]
      BY <2>3, <1>0 DEF LedgerOpened, Bundled, Goes
    <3> QED BY <3>1, <2>1, <1>0, <1>q DEF Steps
  <2> QED BY <1>5, <2>2, <2>3
<1>6. ASSUME NEW a \in Agents, CloseLedger(a) PROVE LedgersHaveOwners'
  <2>1. CacheTypeOK' /\ UNCHANGED <<provider, gateway, refused, fetch>>
    BY <1>6, <1>0 DEF CloseLedger, cacheVars, buildSettings, CacheTypeOK
  <2>2. /\ step[a] = "built" /\ step' = [step EXCEPT ![a] = "closed"]
        /\ ledger' = [ledger EXCEPT ![a] = "closed"] /\ mode' = [mode EXCEPT ![a] = "none"]
    BY <1>6 DEF CloseLedger, Goes
  <2>3. Frame' /\ Waits' /\ Owned'
    BY <2>1, <2>2, <1>0 DEF Steps
  <2> QED BY <2>1, <2>3, <1>q
<1>7. ASSUME ClientCalls PROVE LedgersHaveOwners'
  <2>0. /\ UNCHANGED <<provider, gateway, step, mode, ledger, refused>>
        /\ Client \in Callers /\ Client \notin Agents
    BY <1>7, FactoryAssumption DEF ClientCalls, ClientAsks, ClientIsAnswered, buildSettings, buildVars
  <2>1. CASE ClientAsks
    <3>1. CacheTypeOK' /\ fetch'.by = Client /\ ~fetch.waiting
      BY <2>1, <2>0, <1>0, AskStoreType DEF ClientAsks, AskStore
    <3> QED BY <3>1, <2>0, <1>0, <1>q
  <2>2. CASE ClientIsAnswered
    <3>1. CacheTypeOK' /\ fetch' = NoFetch
      BY <2>2, <1>0, ReturnsType DEF ClientIsAnswered
    <3>2. \A a \in Agents : step[a] # "awaiting" /\ ~fetch'.waiting
      BY <2>2, <3>1 DEF ClientIsAnswered, Suspended, NoFetch
    <3> QED BY <3>1, <3>2, <2>0, <1>0, <1>q
  <2> QED BY <1>7, <2>1, <2>2 DEF ClientCalls
<1>8. CASE ClientIsRefused
  <2>1. CacheTypeOK' /\ fetch' = fetch
    BY <1>8, <1>0, OtherCacheStepsType DEF ClientIsRefused
  <2>2. refused' \subseteq Keys
    <3>1. served.key \in Keys
      BY <1>8, <1>0, TimeAssumption DEF ClientIsRefused, Invalidate, CacheTypeOK, Keys, NoKey
    <3> QED BY <3>1, <1>8, <1>0 DEF ClientIsRefused
  <2> QED BY <1>8, <2>1, <2>2, <1>0, <1>q DEF ClientIsRefused, buildSettings
<1>9. CASE World
  <2>1. CacheTypeOK' /\ fetch' = fetch
    BY <1>9, <1>0, OtherCacheStepsType DEF World
  <2> QED BY <1>9, <2>1, <1>0, <1>q DEF World, buildSettings, buildVars
<1>10. CASE UNCHANGED vars
  BY <1>10, <1>0, <1>q DEF vars, cacheVars, buildSettings, buildVars, CacheTypeOK
<1> QED
  BY <1>1, <1>2, <1>3, <1>4, <1>5, <1>6, <1>7, <1>8, <1>9, <1>10 DEF Next, Factory

\* A factory that gives up over its prompt, identity, key, endpoint or provider has
\* opened no ledger (LedgersHaveOwners), in well-typed states: the ledger is opened by
\* the last step that can raise but one, audit_backend() in _base.py and the runners.
THEOREM OpenLedgersAreOwned == Spec => []LedgersHaveOwners
BY OwnersStart, OwnersStay, PTL DEF Spec

-------------------------------------------------------------------------------
(***************************************************************************)
(* The age of a key                                                        *)
(***************************************************************************)

\* What keeps a cache hit current, in every state: a cached key is no older than its
\* time of fetching says, since whoever sends a request reads the clock first.  The
\* key of the store is held now.
FetchedInTime ==
    /\ store # NoKey => lag[store] = 0
    /\ cachedKey # NoKey =>
           IF cachedFrom = "env" THEN silence <= age ELSE lag[cachedKey] <= age

CurrencyInv == LedgersHaveOwners /\ FetchedInTime /\ KeyIsCurrent

\* An answer of get_api_key keeps the cached key in time, and is itself late in an
\* outage only.
LEMMA ReturnsCurrent ==
    ASSUME CacheTypeOK, FetchedInTime, KeyIsCurrent, NEW c, NEW fresh \in BOOLEAN, Returns(c, fresh)
    PROVE  FetchedInTime' /\ KeyIsCurrent'
<1>0. UNCHANGED <<store, lag>> /\ {age, elapsed, silence} \subseteq Nat /\ NoKey = 0
  BY TimeAssumption DEF Returns, CacheHit, AskEnvironment, StoreAnswers, StoreFails, storeVars,
                        CacheTypeOK, Ages, NoKey
<1>1. \A k \in Keys : lag[k] \in Nat
  BY TimeAssumption DEF CacheTypeOK, Ages
<1>2. cachedKey # NoKey => cachedKey \in Keys
  BY TimeAssumption DEF CacheTypeOK, Keys, NoKey
<1>3. ASSUME NEW since \in Nat, NEW f \in BOOLEAN, Fallback(since, f)
      PROVE  FetchedInTime' /\ KeyIsCurrent'
  <2>1. CASE f
    BY <1>3, <2>1, <1>0 DEF Fallback, Cache, FetchedInTime, KeyIsCurrent, Nothing
  <2>2. CASE ~f
    BY <1>3, <2>2, <1>0 DEF Fallback, Cache, FetchedInTime, KeyIsCurrent, Nothing
  <2> QED BY <2>1, <2>2
<1>4. CASE ~fresh /\ CacheHit(c)
  <2>1. ~IsLate(cachedKey, cachedFrom)
    BY <1>4, <1>0, <1>1, <1>2, TimeAssumption DEF CacheHit, IsHit, IsLate, FetchedInTime, CacheTypeOK
  <2> QED BY <1>4, <1>0, <2>1 DEF CacheHit, FetchedInTime, KeyIsCurrent
<1>5. CASE AskEnvironment(c, fresh)
  BY <1>5, <1>3 DEF AskEnvironment
<1>6. CASE fetch.waiting /\ fetch.fresh = fresh /\ StoreAnswers(c)
  <2>1. elapsed \in Nat
    BY <1>0
  <2>2. CASE store = NoKey /\ kind # "azure"
    BY <1>6, <1>3, <2>1, <2>2 DEF StoreAnswers
  <2>3. CASE store # NoKey \/ kind = "azure"
    <3>1. /\ Cache(store, "store", elapsed, fetch.fresh) /\ silence' = silence
          /\ served' = [key |-> store, from |-> "store", outage |-> FALSE, late |-> FALSE]
      BY <1>6, <2>3 DEF StoreAnswers
    <3> QED BY <3>1, <1>0 DEF Cache, FetchedInTime, KeyIsCurrent
  <2> QED BY <2>2, <2>3
<1>7. CASE fetch.waiting /\ fetch.fresh = fresh /\ StoreFails(c)
  <2>1. CASE cachedKey # NoKey /\ ~fetch.fresh
    BY <1>7, <2>1, <1>0 DEF StoreFails, FetchedInTime, KeyIsCurrent
  <2>2. CASE cachedKey = NoKey \/ fetch.fresh
    BY <1>7, <2>2, <1>0, <1>3 DEF StoreFails
  <2> QED BY <2>1, <2>2
<1> QED BY <1>4, <1>5, <1>6, <1>7 DEF Returns

\* Every step keeps it: time passes for the key and for its age alike.
LEMMA CurrencyStays == CurrencyInv /\ [Next]_vars => CurrencyInv'
<1> SUFFICES ASSUME CurrencyInv, [Next]_vars PROVE FetchedInTime' /\ KeyIsCurrent'
  BY OwnersStay DEF CurrencyInv
<1>0. CacheTypeOK /\ FetchedInTime /\ KeyIsCurrent
  BY DEF CurrencyInv, LedgersHaveOwners, TypeOK
<1>1. ASSUME UNCHANGED cacheVars PROVE FetchedInTime' /\ KeyIsCurrent'
  BY <1>1, <1>0 DEF cacheVars, FetchedInTime, KeyIsCurrent
<1>2. ASSUME NEW c, NEW fresh, AskStore(c, fresh) PROVE FetchedInTime' /\ KeyIsCurrent'
  BY <1>2, <1>0 DEF AskStore, storeVars, FetchedInTime, KeyIsCurrent, Nothing
<1>3. ASSUME NEW c, NEW fresh \in BOOLEAN, Returns(c, fresh) PROVE FetchedInTime' /\ KeyIsCurrent'
  BY <1>3, <1>0, ReturnsCurrent
<1>4. ASSUME Invalidate PROVE FetchedInTime' /\ KeyIsCurrent'
  BY <1>4, <1>0 DEF Invalidate, storeVars, FetchedInTime, KeyIsCurrent, Nothing
<1>5. ASSUME Rotate PROVE FetchedInTime' /\ KeyIsCurrent'
  <2>1. store + 1 \in Keys /\ lag' = [lag EXCEPT ![store + 1] = 0] /\ age \in Nat
    BY <1>5, <1>0, TimeAssumption DEF Rotate, CacheTypeOK, Keys, Ages
  <2>2. lag'[store + 1] = 0 /\ \A k \in Keys : k # store + 1 => lag'[k] = lag[k]
    BY <2>1, <1>0 DEF CacheTypeOK
  <2>3. cachedKey # NoKey => cachedKey \in Keys
    BY <1>0, TimeAssumption DEF CacheTypeOK, Keys, NoKey
  <2> QED BY <1>5, <1>0, <2>1, <2>2, <2>3 DEF Rotate, FetchedInTime, KeyIsCurrent
<1>6. ASSUME Outage PROVE FetchedInTime' /\ KeyIsCurrent'
  BY <1>6, <1>0 DEF Outage, FetchedInTime, KeyIsCurrent
<1>7. ASSUME Tick PROVE FetchedInTime' /\ KeyIsCurrent'
  <2>1. {age, silence} \subseteq Ages /\ Ages \subseteq Nat /\ \A k \in Keys : lag[k] \in Ages
    BY <1>0, TimeAssumption DEF CacheTypeOK, Ages
  <2>2. /\ age' = Aged(age) /\ silence' = Aged(silence)
        /\ \A k \in Keys : lag'[k] = IF k = store THEN 0 ELSE Aged(lag[k])
        /\ UNCHANGED <<store, cachedKey, cachedFrom, served>>
    BY <1>7 DEF Tick
  <2>3. (store # NoKey => store \in Keys) /\ (cachedKey # NoKey => cachedKey \in Keys)
    BY <1>0, TimeAssumption DEF CacheTypeOK, Keys, NoKey
  <2>4. Aged(age) \in Nat
    BY <2>1, AgedIsMonotone
  <2>5. (store # NoKey => lag'[store] = 0) /\ KeyIsCurrent'
    BY <2>2, <2>3, <1>0 DEF KeyIsCurrent
  <2>6. ASSUME cachedKey # NoKey, cachedFrom = "env" PROVE silence' <= age'
    BY <2>6, <2>1, <2>2, <1>0, AgedIsMonotone DEF FetchedInTime
  <2>7. ASSUME cachedKey # NoKey, cachedFrom # "env" PROVE lag'[cachedKey] <= age'
    <3>1. cachedKey \in Keys /\ lag[cachedKey] \in Ages /\ lag[cachedKey] <= age
      BY <2>7, <2>1, <2>3, <1>0 DEF FetchedInTime
    <3>2. Aged(lag[cachedKey]) <= Aged(age)
      <4>1. age \in Ages
        BY <2>1
      <4> QED BY <3>1, <4>1, AgedIsMonotone
    <3>3. 0 <= Aged(age)
      BY <2>4
    <3> QED BY <3>1, <3>2, <3>3, <2>2
  <2> QED BY <2>2, <2>5, <2>6, <2>7 DEF FetchedInTime
<1>8. \A a \in Agents : Fresh(a) \in BOOLEAN
  BY DEF Fresh
<1>9. ASSUME NEW a \in Agents, Factory(a) \/ CloseLedger(a) PROVE FetchedInTime' /\ KeyIsCurrent'
  BY <1>9, <1>1, <1>2, <1>3, <1>8
     DEF Factory, Identify, PromptOrToolsRefused, ResolveWithoutKey, AskForKey, KeyReturned,
         OpenLedger, LedgerOpened, CloseLedger
<1>10. CASE ClientCalls
  BY <1>10, <1>2, <1>3 DEF ClientCalls, ClientAsks, ClientIsAnswered
<1>11. CASE ClientIsRefused
  BY <1>11, <1>4 DEF ClientIsRefused
<1>12. CASE World
  BY <1>12, <1>5, <1>6, <1>7 DEF World
<1>13. CASE UNCHANGED vars
  BY <1>13, <1>1 DEF vars
<1> QED BY <1>9, <1>10, <1>11, <1>12, <1>13 DEF Next

\* What get_api_key returns is late in an outage only (KeyIsCurrent): a hit is served
\* before the time to live is over, counted from before the request was sent.
THEOREM ServedKeysAreCurrent == Spec => []KeyIsCurrent
<1>1. Init => CurrencyInv
  <2>1. Init => FetchedInTime /\ KeyIsCurrent
    BY TimeAssumption DEF Init, CacheInit, FetchedInTime, KeyIsCurrent, Nothing, NoKey, Keys
  <2> QED BY <2>1, OwnersStart DEF CurrencyInv
<1>2. CurrencyInv => KeyIsCurrent
  BY DEF CurrencyInv
<1> QED BY <1>1, <1>2, CurrencyStays, PTL DEF Spec

-------------------------------------------------------------------------------
(***************************************************************************)
(* Refused keys                                                            *)
(***************************************************************************)

\* Where a key that came from the store can still be: it is no newer than the store's,
\* and the refused ones are older and out of the cache.
RefusedIsPast ==
    /\ served.from = "store" => served.key <= store
    /\ cachedFrom = "store" => cachedKey <= store /\ cachedKey \notin refused
    /\ \A k \in refused : k < store

RefusalInv == LedgersHaveOwners /\ RefusedIsPast

\* An answer that comes from the store, or from the cache and once from the store, is
\* no refused key.
LEMMA ReturnsNoRefused ==
    ASSUME CacheTypeOK, refused \subseteq Keys, RefusedIsPast, refused' = refused,
           NEW c, NEW fresh \in BOOLEAN, Returns(c, fresh)
    PROVE  RefusedIsPast' /\ ~(served'.from = "store" /\ served'.key \in refused)
<1>0. /\ UNCHANGED <<store, refused>>
      /\ store \in Nat /\ store \notin refused /\ \A k \in refused : k < store
  BY TimeAssumption DEF Returns, CacheHit, AskEnvironment, StoreAnswers, StoreFails, storeVars,
                        CacheTypeOK, RefusedIsPast, Keys
<1>1. ASSUME NEW since, NEW f, Fallback(since, f)
      PROVE  RefusedIsPast' /\ ~(served'.from = "store" /\ served'.key \in refused)
  BY <1>1, <1>0 DEF Fallback, Cache, RefusedIsPast, Nothing
<1>2. CASE ~fresh /\ CacheHit(c)
  BY <1>2, <1>0 DEF CacheHit, RefusedIsPast
<1>3. CASE AskEnvironment(c, fresh)
  BY <1>3, <1>1 DEF AskEnvironment
<1>4. CASE fetch.waiting /\ fetch.fresh = fresh /\ StoreAnswers(c)
  <2>1. CASE store = NoKey /\ kind # "azure"
    BY <1>4, <1>1, <2>1 DEF StoreAnswers
  <2>2. CASE store # NoKey \/ kind = "azure"
    <3>1. /\ Cache(store, "store", elapsed, fetch.fresh)
          /\ served' = [key |-> store, from |-> "store", outage |-> FALSE, late |-> FALSE]
      BY <1>4, <2>2 DEF StoreAnswers
    <3> QED BY <3>1, <1>0 DEF Cache, RefusedIsPast
  <2> QED BY <2>1, <2>2
<1>5. CASE fetch.waiting /\ fetch.fresh = fresh /\ StoreFails(c)
  <2>1. CASE cachedKey # NoKey /\ ~fetch.fresh
    BY <1>5, <2>1, <1>0 DEF StoreFails, RefusedIsPast
  <2>2. CASE cachedKey = NoKey \/ fetch.fresh
    BY <1>5, <2>2, <1>1 DEF StoreFails
  <2> QED BY <2>1, <2>2
<1> QED BY <1>2, <1>3, <1>4, <1>5 DEF Returns

\* Every step keeps it, and gives no refused key out of the store or the cache.
LEMMA RefusalStays ==
    RefusalInv /\ [Next]_vars =>
        /\ RefusalInv'
        /\ served' # served => ~(served'.from = "store" /\ served'.key \in refused)
<1> DEFINE Kept == served' # served => ~(served'.from = "store" /\ served'.key \in refused)
<1> SUFFICES ASSUME RefusalInv, [Next]_vars PROVE RefusedIsPast' /\ Kept
  BY OwnersStay DEF RefusalInv
<1>0. CacheTypeOK /\ refused \subseteq Keys /\ RefusedIsPast
  BY DEF RefusalInv, LedgersHaveOwners, TypeOK
<1>1. ASSUME UNCHANGED <<cacheVars, refused>> PROVE RefusedIsPast' /\ Kept
  BY <1>1, <1>0 DEF cacheVars, RefusedIsPast
<1>2. ASSUME NEW c, NEW fresh, AskStore(c, fresh), UNCHANGED refused PROVE RefusedIsPast' /\ Kept
  BY <1>2, <1>0 DEF AskStore, storeVars, RefusedIsPast, Nothing
<1>3. ASSUME NEW c, NEW fresh \in BOOLEAN, Returns(c, fresh), UNCHANGED refused
      PROVE  RefusedIsPast' /\ Kept
  BY <1>3, <1>0, ReturnsNoRefused
<1>4. CASE ClientIsRefused
  <2>1. /\ cachedFrom' = "env" /\ served' = Nothing /\ store' = store /\ served.key # store
        /\ refused' = IF served.from = "store" THEN refused \cup {served.key} ELSE refused
    BY <1>4 DEF ClientIsRefused, Invalidate, storeVars
  <2>2. served.from = "store" => served.key < store
    BY <2>1, <1>0, TimeAssumption DEF RefusedIsPast, CacheTypeOK, Replies
  <2> QED BY <2>1, <2>2, <1>0 DEF RefusedIsPast, Nothing
<1>5. CASE World
  <2>1. CASE Rotate
    <3>1. store' = store + 1 /\ UNCHANGED <<cachedKey, cachedFrom, served, refused>>
      BY <1>5, <2>1 DEF World, Rotate, buildVars
    <3>2. {store, cachedKey, served.key} \subseteq Nat /\ refused \subseteq Nat
      BY <1>0, TimeAssumption DEF CacheTypeOK, Replies, Keys
    <3> QED BY <3>1, <3>2, <1>0 DEF RefusedIsPast
  <2>2. CASE Outage \/ Tick
    BY <1>5, <2>2, <1>0 DEF World, Outage, Tick, buildVars, RefusedIsPast
  <2> QED BY <1>5, <2>1, <2>2 DEF World
<1>6. \A a \in Agents : Fresh(a) \in BOOLEAN
  BY DEF Fresh
<1>7. ASSUME NEW a \in Agents, Factory(a) \/ CloseLedger(a) PROVE RefusedIsPast' /\ Kept
  BY <1>7, <1>1, <1>2, <1>3, <1>6
     DEF Factory, Identify, PromptOrToolsRefused, ResolveWithoutKey, AskForKey, KeyReturned,
         OpenLedger, LedgerOpened, CloseLedger
<1>8. CASE ClientCalls
  BY <1>8, <1>2, <1>3 DEF ClientCalls, ClientAsks, ClientIsAnswered, buildVars
<1>9. CASE UNCHANGED vars
  BY <1>9, <1>1 DEF vars, buildVars
<1> QED BY <1>4, <1>5, <1>7, <1>8, <1>9 DEF Next

\* A key that was refused is never served again as the store's (RefusedKeyIsGone):
\* invalidate() takes it out of the cache, and the store has gone on.
THEOREM RefusedKeysStayGone == Spec => RefusedKeyIsGone
<1>1. Init => RefusalInv
  <2>1. Init => RefusedIsPast
    BY DEF Init, CacheInit, RefusedIsPast, Nothing
  <2> QED BY <2>1, OwnersStart DEF RefusalInv
<1>2. RefusalInv /\ [Next]_vars =>
          [served' # served => ~(served'.from = "store" /\ served'.key \in refused)]_vars
  BY RefusalStays
<1>3. RefusalInv /\ [Next]_vars => RefusalInv'
  BY RefusalStays
<1> QED BY <1>1, <1>2, <1>3, PTL DEF Spec, RefusedKeyIsGone
===============================================================================
