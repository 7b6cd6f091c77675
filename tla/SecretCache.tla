---------------------------- MODULE SecretCache ----------------------------
(***************************************************************************)
(* The secret providers (core/secrets.py and cloud_adapters/*/secrets.py): *)
(* a key cached for a time to live in front of a secret store, whose value *)
(* is rotated and which may be unreachable, with an environment variable   *)
(* behind both.  get_api_key() is synchronous: while it waits for the      *)
(* store its event loop does nothing else, but time passes and the store   *)
(* changes.  `shared' calls go through one provider object; a `fresh' call *)
(* goes through an object made for it, whose cache is empty.  Times are    *)
(* ages that saturate at TTL.                                              *)
(***************************************************************************)
EXTENDS Naturals

CONSTANTS
    Callers,    \* code that calls get_api_key()
    MaxKey,     \* bound: versions the secret goes through
    TTL         \* _TTL_SECONDS, in ticks

ASSUME TimeAssumption == MaxKey \in Nat \ {0} /\ TTL \in Nat \ {0}

VARIABLES
    kind,       \* whose provider it is: "env", "aws", "gcp" or "azure"
    client,     \* its SDK client could be made (and GCP knows its project)
    envKey,     \* the environment variable: a version of the key, or NoKey
    store,      \* the secret store's value; NoKey is an empty one
    storeUp,    \* the store answers
    cachedKey,  \* _cached_key
    age,        \* time since _fetched_at
    fetch,      \* the get_api_key() that waits for the store
    elapsed,    \* time since that call read its clock
    served,     \* what the last get_api_key() did, until the next one asks
    cachedFrom, \* history: where cachedKey came from
    lag,        \* history: per version, time since the store held it
    silence     \* history: time since a shared call got nothing from the store

cacheVars == <<kind, client, envKey, store, storeUp, cachedKey, age, fetch,
               elapsed, served, cachedFrom, lag, silence>>
settings == <<kind, client, envKey>>
storeVars == <<store, storeUp, lag>>

NoKey == 0
Keys == 1 .. MaxKey
Ages == 0 .. TTL
NoFetch == [waiting |-> FALSE]
Fetches == [waiting : {TRUE}, by : Callers, fresh : BOOLEAN] \cup {NoFetch}
Aged(t) == IF t < TTL THEN t + 1 ELSE t

\* The key returned, where it came from, whether the store failed in this call, and
\* whether the key is late: the store held it, or last gave nothing in the case of
\* the variable's key, a time to live ago or longer.
Nothing == [key |-> NoKey, from |-> "raised", outage |-> FALSE, late |-> FALSE]
Replies == [key : 0 .. MaxKey, from : {"store", "env", "raised"},
            outage : BOOLEAN, late : BOOLEAN]

CacheTypeOK ==
    /\ kind \in {"env", "aws", "gcp", "azure"} /\ client \in BOOLEAN
    /\ (kind = "env" => ~client)
    /\ {envKey, store, cachedKey} \subseteq 0 .. MaxKey
    /\ storeUp \in BOOLEAN
    /\ {age, elapsed, silence} \subseteq Ages
    /\ fetch \in Fetches /\ (fetch.waiting => client)
    /\ served \in Replies
    /\ cachedFrom \in {"store", "env"}
    /\ lag \in [Keys -> Ages]

\* A provider starts with an empty cache; whether its client could be made and
\* what the environment holds is settled when the process starts.
CacheInit ==
    /\ kind \in {"env", "aws", "gcp", "azure"} /\ client \in BOOLEAN
    /\ (kind = "env" => ~client)
    /\ envKey \in {NoKey, 1}
    /\ store \in {NoKey, 1} /\ storeUp \in BOOLEAN
    /\ cachedKey = NoKey /\ age = TTL /\ cachedFrom = "env"
    /\ fetch = NoFetch /\ elapsed = 0
    /\ served = Nothing
    /\ lag = [k \in Keys |-> IF k = store THEN 0 ELSE TTL]
    /\ silence = TTL

---------------------------------------------------------------------------
(* get_api_key().                                                          *)

IsLate(key, from) ==
    IF from = "env" THEN silence >= TTL ELSE key # NoKey /\ lag[key] >= TTL

\* Mutant of IsHit: a hit whatever the age of the key.
IsHitForever == cachedKey # NoKey

\* _cached_key and now - _fetched_at < _TTL_SECONDS
IsHit == cachedKey # NoKey /\ age < TTL

CacheHit(c) ==
    /\ ~fetch.waiting /\ IsHit
    /\ served' = [key |-> cachedKey, from |-> cachedFrom, outage |-> FALSE,
                  late |-> IsLate(cachedKey, cachedFrom)]
    /\ UNCHANGED <<settings, storeVars, cachedKey, age, fetch, elapsed, cachedFrom, silence>>

\* The request to the store is sent; `now' was read before.
AskStore(c, fresh) ==
    /\ ~fetch.waiting /\ client /\ (fresh \/ ~IsHit)
    /\ fetch' = [waiting |-> TRUE, by |-> c, fresh |-> fresh]
    /\ elapsed' = 0 /\ served' = Nothing
    /\ UNCHANGED <<settings, storeVars, cachedKey, age, cachedFrom, silence>>

\* `_cached_key = key; _fetched_at = now; return key': an object made for the call
\* is dropped after it.
Cache(key, from, since, fresh) ==
    IF fresh THEN UNCHANGED <<cachedKey, age, cachedFrom>>
             ELSE cachedKey' = key /\ age' = since /\ cachedFrom' = from

\* The environment variable, cached as if it had been fetched, or EnvironmentError.
Fallback(since, fresh) ==
    /\ silence' = IF fresh THEN silence ELSE 0
    /\ IF envKey # NoKey
       THEN /\ served' = [key |-> envKey, from |-> "env", outage |-> FALSE, late |-> FALSE]
            /\ Cache(envKey, "env", since, fresh)
       ELSE served' = Nothing /\ UNCHANGED <<cachedKey, age, cachedFrom>>

\* Without a client the environment is all there is.
AskEnvironment(c, fresh) ==
    /\ ~fetch.waiting /\ ~client /\ (fresh \/ ~IsHit)
    /\ Fallback(0, fresh)
    /\ UNCHANGED <<settings, storeVars, fetch, elapsed>>

\* The store answers.  Azure's provider takes whatever value it got, the others fall
\* through when it is empty.
StoreAnswers(c) ==
    /\ fetch.waiting /\ fetch.by = c /\ storeUp
    /\ fetch' = NoFetch /\ elapsed' = 0
    /\ \/ /\ store # NoKey \/ kind = "azure"
          /\ served' = [key |-> store, from |-> "store", outage |-> FALSE, late |-> FALSE]
          /\ Cache(store, "store", elapsed, fetch.fresh)
          /\ UNCHANGED silence
       \/ /\ store = NoKey /\ kind # "azure"
          /\ Fallback(elapsed, fetch.fresh)
    /\ UNCHANGED <<settings, storeVars>>

\* Mutant of StoreFails: the stale key counts as fetched now.
StoreFailsRenewing(c) ==
    /\ fetch.waiting /\ fetch.by = c /\ ~storeUp
    /\ fetch' = NoFetch /\ elapsed' = 0
    /\ cachedKey # NoKey /\ ~fetch.fresh
    /\ served' = [key |-> cachedKey, from |-> cachedFrom, outage |-> TRUE,
                  late |-> IsLate(cachedKey, cachedFrom)]
    /\ Cache(cachedKey, cachedFrom, elapsed, FALSE)
    /\ UNCHANGED <<settings, storeVars, silence>>

\* The request fails.  A key already cached is returned however old it is, and
\* _fetched_at stays: the next call asks the store again.
StoreFails(c) ==
    /\ fetch.waiting /\ fetch.by = c /\ ~storeUp
    /\ fetch' = NoFetch /\ elapsed' = 0
    /\ \/ /\ cachedKey # NoKey /\ ~fetch.fresh
          /\ served' = [key |-> cachedKey, from |-> cachedFrom, outage |-> TRUE,
                        late |-> IsLate(cachedKey, cachedFrom)]
          /\ silence' = 0
          /\ UNCHANGED <<cachedKey, age, cachedFrom>>
       \/ /\ cachedKey = NoKey \/ fetch.fresh
          /\ Fallback(elapsed, fetch.fresh)
    /\ UNCHANGED <<settings, storeVars>>

\* A get_api_key() of c returns or raises; served' is what it did.
Returns(c, fresh) ==
    \/ ~fresh /\ CacheHit(c)
    \/ AskEnvironment(c, fresh)
    \/ fetch.waiting /\ fetch.fresh = fresh /\ (StoreAnswers(c) \/ StoreFails(c))

\* Mutant of Invalidate: only the time is reset.
InvalidateTime ==
    /\ ~fetch.waiting /\ cachedKey # NoKey
    /\ age' = TTL /\ served' = Nothing
    /\ UNCHANGED <<settings, storeVars, fetch, elapsed, silence, cachedKey, cachedFrom>>

\* invalidate(), which its docstring wants called on a 401.
Invalidate ==
    /\ ~fetch.waiting /\ cachedKey # NoKey
    /\ cachedKey' = NoKey /\ age' = TTL /\ cachedFrom' = "env"
    /\ served' = Nothing
    /\ UNCHANGED <<settings, storeVars, fetch, elapsed, silence>>

---------------------------------------------------------------------------
(* The secret store and time.                                              *)

Rotate ==
    /\ store < MaxKey
    /\ store' = store + 1
    /\ lag' = [lag EXCEPT ![store + 1] = 0]
    /\ UNCHANGED <<settings, storeUp, cachedKey, age, fetch, elapsed, served, cachedFrom, silence>>

StoreGoes == storeUp /\ storeUp' = FALSE
StoreComes == ~storeUp /\ storeUp' = TRUE
Outage ==
    /\ StoreGoes \/ StoreComes
    /\ UNCHANGED <<settings, store, lag, cachedKey, age, fetch, elapsed, served, cachedFrom, silence>>

Tick ==
    /\ age' = Aged(age) /\ silence' = Aged(silence)
    /\ elapsed' = IF fetch.waiting THEN Aged(elapsed) ELSE 0
    /\ lag' = [k \in Keys |-> IF k = store THEN 0 ELSE Aged(lag[k])]
    /\ UNCHANGED <<settings, store, storeUp, cachedKey, fetch, served, cachedFrom>>
============================================================================
