-------------------------- MODULE PolicyDistribution --------------------------
(***************************************************************************)
(* How a governance policy gets from an agent's YAML file to the places    *)
(* that act on it: load_agent_config and its per-process cache             *)
(* (payload_agents/config.py), resolve_policy and export_registry          *)
(* (governance/policy_registry.py), and the registry that every Lambda     *)
(* instance of the model proxy, the data proxy and the A2A broker caches   *)
(* for its lifetime (cloud_adapters/aws/infra/lambda).  Files change while *)
(* processes and instances live on, so each tier may act on a version of   *)
(* its own; the dispatcher inside a process reads the file each time.      *)
(***************************************************************************)
EXTENDS ModelProxy

CONSTANTS
    Agents,         \* KNOWN_AGENT_TYPES
    Unknown,        \* an identity that no file and no registry mentions
    Files,          \* contents a per-agent file may have
    Broken,         \* a file that is missing or fails validation
    Floor,          \* DEFAULT_FLOOR
    Instances,      \* Lambda instances of the proxies
    NHIs,           \* x-nhi-id of a request
    AllowedNHIs,    \* GOV_ALLOWED_NHI of the model proxy; NHIs when it is unset
    Empty,          \* {}: the registry of an instance that found none
    MaxEdits        \* bound: edits of files in one behaviour

ASSUME FilesAssumption == Files \subseteq Policies /\ Floor \in Configs
ASSUME MarkersAssumption ==
    /\ {Broken, None, Empty} \cap (Policies \cup [Agents -> Policies \cup {None}]) = {}
    /\ Broken # None /\ None # Empty /\ Unknown \notin Agents
ASSUME EditsAssumption == MaxEdits \in Nat

VARIABLES
    file,       \* the YAML file of each agent
    process,    \* _config_cache of each agent's process
    artifact,   \* the exported registry the proxies are deployed with
    cache,      \* _registry_cache of each instance
    answer,     \* the last request a proxy answered
    edits       \* history: edits made, bounded by MaxEdits

vars == <<file, process, artifact, cache, answer, edits>>

Registries == [Agents -> Policies \cup {None}]
Answers ==
    [kind : {"model", "data", "a2a"}, who : Agents \cup {Unknown}, policy : Policies \cup {None},
     recipient : Recipients \cup {None},
     verdict : {"forbidden", "rejected", "blocked", "failed", "served", "mediated"},
     sent : PromptShapes \cup {None}, returned : ReplyShapes \cup {None}]

TypeOK ==
    /\ file \in [Agents -> Files \cup {Broken}]
    /\ process \in [Agents -> Policies \cup {None}]
    /\ artifact \in Registries \cup {None}
    /\ cache \in [Instances -> Registries \cup {None, Empty}]
    /\ answer \in Answers \cup {None}
    /\ edits \in 0 .. MaxEdits

Init ==
    /\ file \in [Agents -> Files \cup {Broken}]
    /\ process = [a \in Agents |-> None]
    /\ artifact = None
    /\ cache = [i \in Instances |-> None]
    /\ answer = None /\ edits = 0

\* A developer edits, breaks or deletes an agent's file.
EditFile(a) ==
    /\ edits < MaxEdits
    /\ \E c \in Files \cup {Broken} : c # file[a] /\ file' = [file EXCEPT ![a] = c]
    /\ edits' = edits + 1
    /\ UNCHANGED <<process, artifact, cache, answer>>

-------------------------------------------------------------------------------
\* Mutant of Resolved: the floor is applied by one of the two tiers only.
ResolvedUnfloored(content) == content

\* load_agent_config of a file that validates: the floor is applied before
\* anything else sees the configuration.
Resolved(content) ==
    [content EXCEPT !.governance = ApplyFloor(content.governance, Floor)]

\* build_agent: the configuration is loaded once per process; ConfigError when
\* the file is broken leaves the agent unbuilt.
BuildAgent(a) ==
    /\ process[a] = None /\ file[a] # Broken
    /\ process' = [process EXCEPT ![a] = Resolved(file[a])]
    /\ UNCHANGED <<file, artifact, cache, answer, edits>>

\* The process ends, and its cache with it.
ProcessExits(a) ==
    /\ process[a] # None
    /\ process' = [process EXCEPT ![a] = None]
    /\ UNCHANGED <<file, artifact, cache, answer, edits>>

\* Mutant of ExportRegistry: a file that does not resolve is exported as it is.
ExportEveryFile ==
    /\ artifact' = [a \in Agents |-> IF file[a] = Broken THEN Broken ELSE Resolved(file[a])]
    /\ UNCHANGED <<file, process, cache, answer, edits>>

\* export_registry, and its deployment: agents whose file does not resolve are
\* left out.
ExportRegistry ==
    /\ artifact' = [a \in Agents |-> IF file[a] = Broken THEN None ELSE Resolved(file[a])]
    /\ UNCHANGED <<file, process, cache, answer, edits>>

\* _registry(): the first request an instance serves loads the registry it was
\* deployed with, or {} when there is none.
LoadRegistry(i) ==
    /\ cache[i] = None
    /\ cache' = [cache EXCEPT ![i] = IF artifact = None THEN Empty ELSE artifact]
    /\ UNCHANGED <<file, process, artifact, answer, edits>>

\* The platform replaces an instance.
Recycle(i) ==
    /\ cache[i] # None
    /\ cache' = [cache EXCEPT ![i] = None]
    /\ UNCHANGED <<file, process, artifact, answer, edits>>

\* policy_for(registry, identity): None for an identity it does not know.
PolicyFor(registry, who) ==
    IF registry = Empty \/ who = Unknown THEN None ELSE registry[who]

\* What a proxy answered, and under which policy.
Answer(kind, who, policy, outcome) ==
    [kind |-> kind, who |-> who, policy |-> policy, recipient |-> None, verdict |-> outcome.verdict,
     sent |-> outcome.sent, returned |-> outcome.returned]

\* resolve: GOV_ALLOWED_NHI before the registry.
Resolve(registry, who, nhi) ==
    IF nhi \in AllowedNHIs THEN PolicyFor(registry, who) ELSE None

\* handler of the model proxy, over the registry its instance has cached.
ModelRequest(i, who) ==
    /\ cache[i] # None
    /\ \E nhi \in NHIs, prompt \in Prompts \cup {Malformed}, reply \in Replies \cup {Raises} :
          LET policy == Resolve(cache[i], who, nhi)
          IN  answer' = Answer("model", who, policy, Handled(policy, prompt, reply))
    /\ UNCHANGED <<file, process, artifact, cache, edits>>

\* handler of the data proxy, up to the mediator's read: no policy is 403, unless
\* the registry is {}; then 400 for a malformed body.
DataRequest(i, who) ==
    /\ cache[i] # None
    /\ LET policy == PolicyFor(cache[i], who)
       IN  \E verdict \in IF policy = None /\ cache[i] # Empty THEN {"forbidden"}
                           ELSE {"rejected", "mediated"} :
             answer' = Answer("data", who, policy, Outcome(verdict, None, None))
    /\ UNCHANGED <<file, process, artifact, cache, edits>>

\* Mutant of AuthorizeRecipient: an empty list allows everybody.
AuthorizeRecipientUnlisted(policy, recipient) ==
    policy # None /\ (policy.recipients = {} \/ recipient \in policy.recipients)

\* authorize_recipient: a sender without a policy may dispatch to nobody.
AuthorizeRecipient(policy, recipient) == policy # None /\ recipient \in policy.recipients

\* The answer to a dispatch; a body without a sender or a recipient is rejected.
Dispatch(who, policy, recipient) ==
    \E verdict \in {"rejected", IF AuthorizeRecipient(policy, recipient) THEN "served"
                                ELSE "forbidden"} :
        answer' = [Answer("a2a", who, policy, Outcome(verdict, None, None))
                      EXCEPT !.recipient = recipient]

\* handler of the broker, over the registry its instance has cached.
BrokerRequest(i, who) ==
    /\ cache[i] # None
    /\ \E recipient \in Recipients : Dispatch(who, PolicyFor(cache[i], who), recipient)
    /\ UNCHANGED <<file, process, artifact, cache, edits>>

\* The dispatcher of the sender's own process resolves the policy from the file as it
\* is now, whatever the process was built with; a file that does not load denies.
DispatchInProcess(a) ==
    /\ \E recipient \in Recipients :
          Dispatch(a, IF file[a] = Broken THEN None ELSE Resolved(file[a]), recipient)
    /\ UNCHANGED <<file, process, artifact, cache, edits>>

Next ==
    \/ \E a \in Agents : EditFile(a) \/ BuildAgent(a) \/ ProcessExits(a) \/ DispatchInProcess(a)
    \/ ExportRegistry
    \/ \E i \in Instances :
          \/ LoadRegistry(i)
          \/ Recycle(i)
          \/ \E who \in Agents \cup {Unknown} :
                ModelRequest(i, who) \/ DataRequest(i, who) \/ BrokerRequest(i, who)

Spec == Init /\ [][Next]_vars

-------------------------------------------------------------------------------
(***************************************************************************)
(* Properties                                                              *)
(***************************************************************************)

Sound(policy) == policy # None => AtLeastAsStrict(policy.governance, Floor)

\* Whatever the files say and however stale a cache is, no tier ever acts on a
\* configuration that is weaker than the floor: not the process that built the
\* agent, not the exported registry, not an instance, not an answer given.
FloorHolds ==
    /\ \A a \in Agents : Sound(process[a])
    /\ artifact # None => \A a \in Agents : Sound(artifact[a])
    /\ \A i \in Instances : cache[i] \notin {None, Empty} =>
          \A a \in Agents : Sound(cache[i][a])
    /\ answer # None => Sound(answer.policy)

\* The model proxy and both tiers of the A2A authorization serve nobody whose file could
\* not be resolved, the proxies' at the export they were deployed with: no tool call is
\* returned that the file does not allow, and no dispatch permitted that it does not list.
ServedIsWithinPolicy ==
    answer # None /\ answer.verdict = "served" =>
        /\ answer.who \in Agents
        /\ \E c \in Files :
              /\ answer.policy = Resolved(c)
              /\ answer.kind = "model" =>
                    \A call \in answer.returned.calls : call.tool \in c.allowed \ c.denied
              /\ answer.kind = "a2a" => answer.recipient \in c.recipients

\* Whatever version of the policy an instance acts on, what it sends to the model
\* and what it returns from it have nothing in them that the floor forbids: not
\* in a prompt that was masked, not beside a block that was, not in a reply to a
\* prompt that passed.
FloorEnforced ==
    answer # None =>
        /\ answer.sent # None => PromptWithin(answer.sent, Floor)
        /\ answer.returned # None => ReplyWithin(answer.returned, Floor)
===============================================================================
