------------------------ MODULE PolicyDistributionProofs ------------------------
(***************************************************************************)
(* Three results, each resting on the one before: what apply_floor does to *)
(* any configuration under any floor; that a proxy whose policy is at      *)
(* least as strict as a floor lets nothing through that the floor forbids; *)
(* and that along every behaviour, for every set of agents, files, tools,  *)
(* prompts, replies and instances and any number of edits, every tier      *)
(* holds policies of that kind only.                                       *)
(***************************************************************************)
EXTENDS PolicyDistribution, TLAPS

-------------------------------------------------------------------------------
(***************************************************************************)
(* The floor, for any configuration                                        *)
(***************************************************************************)

\* The looseness of a value that is on a scale is its index there.
LEMMA LoosenessIsIndex ==
    ASSUME NEW scale, NEW value, \E i \in DOMAIN scale : scale[i] = value
    PROVE  /\ Looseness(scale, value) \in DOMAIN scale
           /\ scale[Looseness(scale, value)] = value
BY DEF Looseness

\* The two scales of the floor: every value the code accepts is on its scale.
LEMMA LoosenessIsNat ==
    /\ \A m \in Modes : Looseness(ModeScale, m) \in Nat
    /\ \A t \in Thresholds : Looseness(ThresholdScale, t) \in Nat
<1>1. DOMAIN ModeScale \subseteq Nat /\ DOMAIN ThresholdScale \subseteq Nat
  BY DEF ModeScale, ThresholdScale
<1>2. ASSUME NEW m \in Modes PROVE Looseness(ModeScale, m) \in Nat
  <2>1. \E i \in DOMAIN ModeScale : ModeScale[i] = m
    BY DEF Modes
  <2> QED BY <2>1, <1>1, LoosenessIsIndex
<1>3. ASSUME NEW t \in Thresholds PROVE Looseness(ThresholdScale, t) \in Nat
  <2>1. \E i \in DOMAIN ThresholdScale : ThresholdScale[i] = t
    BY DEF Thresholds
  <2> QED BY <2>1, <1>1, LoosenessIsIndex
<1> QED BY <1>2, <1>3

\* A clamped setting is one of the two it was made from, and the stricter one.
LEMMA ClampedIsStricter ==
    ASSUME NEW scale, NEW value, NEW limit,
           Looseness(scale, value) \in Nat, Looseness(scale, limit) \in Nat
    PROVE  /\ Clamped(scale, value, limit) \in {value, limit}
           /\ Looseness(scale, Clamped(scale, value, limit)) <= Looseness(scale, value)
           /\ Looseness(scale, Clamped(scale, value, limit)) <= Looseness(scale, limit)
<1>1. CASE Looseness(scale, value) > Looseness(scale, limit)
  BY <1>1, Clamped(scale, value, limit) = limit DEF Clamped
<1>2. CASE ~(Looseness(scale, value) > Looseness(scale, limit))
  BY <1>2, Clamped(scale, value, limit) = value DEF Clamped
<1> QED BY <1>1, <1>2

\* apply_floor returns a configuration.
LEMMA ApplyFloorType ==
    ASSUME NEW config \in Configs, NEW floor \in Configs
    PROVE  ApplyFloor(config, floor) \in Configs
<1>1. Clamped(ModeScale, config.credential_mode, floor.credential_mode) \in Modes
  BY DEF Clamped, Configs
<1>2. Clamped(ThresholdScale, config.threshold, floor.threshold) \in Thresholds
  BY DEF Clamped, Configs
<1> QED BY <1>1, <1>2 DEF ApplyFloor, Configs

\* apply_floor never weakens: the result is as strict as the floor in every
\* field, and as strict as what the developer wrote.
THEOREM FloorIsRespected ==
    ASSUME NEW config \in Configs, NEW floor \in Configs
    PROVE  /\ AtLeastAsStrict(ApplyFloor(config, floor), floor)
           /\ AtLeastAsStrict(ApplyFloor(config, floor), config)
<1> DEFINE mode == Clamped(ModeScale, config.credential_mode, floor.credential_mode)
           threshold == Clamped(ThresholdScale, config.threshold, floor.threshold)
<1>1. /\ Looseness(ModeScale, mode) <= Looseness(ModeScale, config.credential_mode)
      /\ Looseness(ModeScale, mode) <= Looseness(ModeScale, floor.credential_mode)
  BY LoosenessIsNat, ClampedIsStricter DEF Configs
<1>2. /\ Looseness(ThresholdScale, threshold) <= Looseness(ThresholdScale, config.threshold)
      /\ Looseness(ThresholdScale, threshold) <= Looseness(ThresholdScale, floor.threshold)
  BY LoosenessIsNat, ClampedIsStricter DEF Configs
<1>3. config.budget \in Nat /\ floor.budget \in Nat
  BY DEF Configs
<1> HIDE DEF mode, threshold
<1>4. ApplyFloor(config, floor) =
        [guards |-> config.guards \cup floor.guards, credential_mode |-> mode,
         threshold |-> threshold,
         budget |-> IF config.budget > floor.budget THEN floor.budget ELSE config.budget,
         patterns |-> config.patterns \cup floor.patterns]
  BY DEF ApplyFloor, mode, threshold
<1> QED BY <1>1, <1>2, <1>3, <1>4 DEF AtLeastAsStrict

\* apply_floor never tightens more than it must: any configuration that is as
\* strict as the file and as the floor is as strict as the result.
THEOREM FloorIsMeet ==
    ASSUME NEW config \in Configs, NEW floor \in Configs
    PROVE  IsMeet(ApplyFloor(config, floor), config, floor, Configs)
<1>1. ASSUME NEW d \in Configs, AtLeastAsStrict(d, config), AtLeastAsStrict(d, floor)
      PROVE  AtLeastAsStrict(d, ApplyFloor(config, floor))
  <2> DEFINE mode == Clamped(ModeScale, config.credential_mode, floor.credential_mode)
             threshold == Clamped(ThresholdScale, config.threshold, floor.threshold)
  <2>1. Looseness(ModeScale, d.credential_mode) <= Looseness(ModeScale, mode)
    BY <1>1 DEF AtLeastAsStrict, Clamped
  <2>2. Looseness(ThresholdScale, d.threshold) <= Looseness(ThresholdScale, threshold)
    BY <1>1 DEF AtLeastAsStrict, Clamped
  <2> HIDE DEF mode, threshold
  <2>3. ApplyFloor(config, floor) =
          [guards |-> config.guards \cup floor.guards, credential_mode |-> mode,
           threshold |-> threshold,
           budget |-> IF config.budget > floor.budget THEN floor.budget ELSE config.budget,
           patterns |-> config.patterns \cup floor.patterns]
    BY DEF ApplyFloor, mode, threshold
  <2> QED BY <1>1, <2>1, <2>2, <2>3 DEF AtLeastAsStrict
<1> QED BY <1>1, FloorIsRespected DEF IsMeet

\* The report is exact: a field is reported as a FloorViolation if and only if
\* the result differs from what the developer wrote in that field.
THEOREM ReportsAreExact ==
    ASSUME NEW config \in Configs, NEW floor \in Configs, NEW field \in DOMAIN config
    PROVE  field \in Violations(config, floor) <=> ApplyFloor(config, floor)[field] # config[field]
<1>1. field \in {"guards", "credential_mode", "threshold", "budget", "patterns"}
  BY DEF Configs
<1>2. CASE field = "guards"
  BY <1>2 DEF Violations, ApplyFloor
<1>3. CASE field = "patterns"
  BY <1>3 DEF Violations, ApplyFloor
<1>4. CASE field = "budget"
  BY <1>4 DEF Violations, ApplyFloor, Configs
<1>5. CASE field = "credential_mode"
  <2>1. Looseness(ModeScale, config.credential_mode) \in Nat
    BY LoosenessIsNat DEF Configs
  <2>2. Clamped(ModeScale, config.credential_mode, floor.credential_mode) # config.credential_mode
          <=> Looseness(ModeScale, config.credential_mode)
                > Looseness(ModeScale, floor.credential_mode)
    BY <2>1 DEF Clamped
  <2> QED BY <1>5, <2>2 DEF Violations, ApplyFloor
<1>6. CASE field = "threshold"
  <2>1. Looseness(ThresholdScale, config.threshold) \in Nat
    BY LoosenessIsNat DEF Configs
  <2>2. Clamped(ThresholdScale, config.threshold, floor.threshold) # config.threshold
          <=> Looseness(ThresholdScale, config.threshold)
                > Looseness(ThresholdScale, floor.threshold)
    BY <2>1 DEF Clamped
  <2> QED BY <1>6, <2>2 DEF Violations, ApplyFloor
<1> QED BY <1>1, <1>2, <1>3, <1>4, <1>5, <1>6

\* Loading a configuration that was clamped before reports nothing.
THEOREM ClampedIsSilent ==
    ASSUME NEW config \in Configs, NEW floor \in Configs
    PROVE  Violations(ApplyFloor(config, floor), floor) = {}
<1> DEFINE c == ApplyFloor(config, floor)
<1>1. AtLeastAsStrict(c, floor) /\ c \in Configs
  BY FloorIsRespected, ApplyFloorType
<1>2. /\ Looseness(ModeScale, c.credential_mode) \in Nat
      /\ Looseness(ModeScale, floor.credential_mode) \in Nat
      /\ Looseness(ThresholdScale, c.threshold) \in Nat
      /\ Looseness(ThresholdScale, floor.threshold) \in Nat
      /\ c.budget \in Nat /\ floor.budget \in Nat
  BY <1>1, LoosenessIsNat DEF Configs
<1> HIDE DEF c
<1>3. Violations(c, floor) = {}
  BY <1>1, <1>2 DEF AtLeastAsStrict, Violations
<1> QED BY <1>3 DEF c

-------------------------------------------------------------------------------
(***************************************************************************)
(* One request, under any policy                                           *)
(***************************************************************************)

\* The place of every threshold on the floor's scale.
LEMMA ThresholdPlaces ==
    /\ Thresholds = {"medium", "high", "critical"}
    /\ Looseness(ThresholdScale, "medium") = 1
    /\ Looseness(ThresholdScale, "high") = 2
    /\ Looseness(ThresholdScale, "critical") = 3
<1>1. /\ DOMAIN ThresholdScale = {1, 2, 3}
      /\ ThresholdScale[1] = "medium" /\ ThresholdScale[2] = "high"
      /\ ThresholdScale[3] = "critical"
  BY DEF ThresholdScale
<1>2. \A t \in {"medium", "high", "critical"} : \E i \in DOMAIN ThresholdScale : ThresholdScale[i] = t
  BY <1>1
<1>3. \A t \in {"medium", "high", "critical"} :
          /\ Looseness(ThresholdScale, t) \in {1, 2, 3}
          /\ ThresholdScale[Looseness(ThresholdScale, t)] = t
  BY <1>1, <1>2, LoosenessIsIndex
<1>4. Thresholds = {"medium", "high", "critical"}
  BY <1>1 DEF Thresholds
<1> QED BY <1>1, <1>3, <1>4

\* The severity ranks of enforcement_core and the looseness scale of the floor,
\* two tables in two files, order the severities alike.
LEMMA RanksFollowScale ==
    \A s, t \in Thresholds :
        SeverityRank[s] >= SeverityRank[t]
            <=> Looseness(ThresholdScale, s) >= Looseness(ThresholdScale, t)
<1>1. SeverityRank["medium"] = 0 /\ SeverityRank["high"] = 1 /\ SeverityRank["critical"] = 2
  BY DEF SeverityRank
<1> QED BY <1>1, ThresholdPlaces

\* What is sent is a prompt, and is within the configuration it was checked by.
LEMMA SentIsWithin ==
    ASSUME NEW prompt \in PromptShapes, NEW config \in Configs, ~InputBlocked(prompt, config)
    PROVE  Sent(prompt, config) \in PromptShapes /\ PromptWithin(Sent(prompt, config), config)
<1> DEFINE sent == Sent(prompt, config)
<1>1. sent \in PromptShapes
  BY DEF Sent, RedactMessages, RedactCredentials, PromptShapes, Marks
<1>2. \A b \in Blocks : sent.blocks[b].injection = prompt.blocks[b].injection
  BY DEF Sent, RedactMessages, RedactCredentials, PromptShapes, Marks
<1>3. "enable_prompt_injection_guard" \in config.guards =>
          \A b \in Blocks : \A severity \in sent.blocks[b].injection :
              Looseness(ThresholdScale, severity) < Looseness(ThresholdScale, config.threshold)
  <2> SUFFICES ASSUME "enable_prompt_injection_guard" \in config.guards,
                      NEW b \in Blocks, NEW severity \in sent.blocks[b].injection
               PROVE  Looseness(ThresholdScale, severity)
                          < Looseness(ThresholdScale, config.threshold)
    OBVIOUS
  <2>1. severity \in Thresholds /\ config.threshold \in Thresholds
    BY <1>2 DEF PromptShapes, Marks, Configs
  <2>2. ~(SeverityRank[severity] >= SeverityRank[config.threshold])
    BY <1>2 DEF InputBlocked, InjectionIn
  <2>3. ~(Looseness(ThresholdScale, severity) >= Looseness(ThresholdScale, config.threshold))
    BY <2>1, <2>2, RanksFollowScale
  <2>4. /\ Looseness(ThresholdScale, severity) \in Nat
        /\ Looseness(ThresholdScale, config.threshold) \in Nat
    BY <2>1, LoosenessIsNat
  <2> QED BY <2>3, <2>4
<1>4. "enable_credential_redactor" \in config.guards =>
          \A b \in Blocks : ~sent.blocks[b].credential
  <2>1. CASE Masks(config)
    BY <2>1 DEF Sent, RedactMessages, RedactCredentials, PromptShapes, Marks
  <2>2. CASE ~Masks(config)
    BY <2>2 DEF Masks, Sent, InputBlocked, CredentialIn
  <2> QED BY <2>1, <2>2
<1>5. "enable_context_budget" \in config.guards => sent.tokens <= config.budget
  <2>1. sent.tokens = IF Masks(config) THEN prompt.masked ELSE prompt.tokens
    BY DEF Sent, RedactMessages, PromptShapes
  <2>2. sent.tokens \in Nat /\ config.budget \in Nat \ {0}
    BY <1>1 DEF PromptShapes, Configs
  <2> QED BY <2>1, <2>2 DEF InputBlocked, OverBudget
<1> QED BY <1>1, <1>3, <1>4, <1>5 DEF PromptWithin

\* What is returned is a reply, and is within the policy it was checked by.
LEMMA ReturnedIsWithin ==
    ASSUME NEW reply \in ReplyShapes, NEW policy \in Policies, ~ReplyBlocked(reply, policy)
    PROVE  /\ Returned(reply) \in ReplyShapes
           /\ ReplyWithin(Returned(reply), policy.governance)
           /\ \A call \in Returned(reply).calls : call.tool \in policy.allowed \ policy.denied
<1>1. \A text \in Marks : RedactPii(text) \in Marks
  BY DEF RedactPii, Marks
<1>2. /\ Returned(reply).calls = reply.calls
      /\ Returned(reply).texts = {RedactPii(text) : text \in reply.texts}
  BY DEF Returned, ReplyShapes
<1>3. Returned(reply) \in ReplyShapes
  BY <1>1 DEF Returned, ReplyShapes
<1>4. ASSUME NEW text \in reply.texts
      PROVE  /\ ~RedactPii(text).credential /\ ~RedactPii(text).pii
             /\ RedactPii(text).patterns \cap policy.governance.patterns = {}
  <2>1. text \in Marks
    BY DEF ReplyShapes
  <2> QED BY <2>1 DEF RedactPii, Marks, ReplyBlocked, OutputBlocked
<1>5. ASSUME NEW call \in reply.calls
      PROVE  /\ call.tool \in policy.allowed \ policy.denied
             /\ call.patterns \cap policy.governance.patterns = {}
  BY DEF ReplyBlocked, PlanBlocked
<1> QED BY <1>2, <1>3, <1>4, <1>5 DEF ReplyWithin

\* What is within a configuration is within every weaker one.
LEMMA WithinIsMonotone ==
    ASSUME NEW config \in Configs, NEW floor \in Configs, AtLeastAsStrict(config, floor)
    PROVE  /\ \A prompt \in PromptShapes : PromptWithin(prompt, config) => PromptWithin(prompt, floor)
           /\ \A reply \in ReplyShapes : ReplyWithin(reply, config) => ReplyWithin(reply, floor)
<1>1. ASSUME NEW prompt \in PromptShapes, PromptWithin(prompt, config)
      PROVE  PromptWithin(prompt, floor)
  <2>1. config.guards \in SUBSET Toggles /\ floor.guards \subseteq config.guards
    BY DEF AtLeastAsStrict, Configs
  <2>2. /\ prompt.tokens \in Nat /\ config.budget \in Nat /\ floor.budget \in Nat
        /\ config.budget <= floor.budget
    BY DEF AtLeastAsStrict, Configs, PromptShapes
  <2>3. /\ Looseness(ThresholdScale, config.threshold) \in Nat
        /\ Looseness(ThresholdScale, floor.threshold) \in Nat
        /\ Looseness(ThresholdScale, config.threshold) <= Looseness(ThresholdScale, floor.threshold)
    BY LoosenessIsNat DEF AtLeastAsStrict, Configs
  <2>4. ASSUME NEW b \in Blocks, NEW severity \in prompt.blocks[b].injection
        PROVE  Looseness(ThresholdScale, severity) \in Nat
    <3>1. severity \in Thresholds
      BY DEF PromptShapes, Marks
    <3> QED BY <3>1, LoosenessIsNat
  <2>5. "enable_prompt_injection_guard" \in floor.guards =>
          \A b \in Blocks : \A severity \in prompt.blocks[b].injection :
              Looseness(ThresholdScale, severity) < Looseness(ThresholdScale, floor.threshold)
    BY <1>1, <2>1, <2>3, <2>4 DEF PromptWithin
  <2> QED BY <1>1, <2>1, <2>2, <2>5 DEF PromptWithin
<1>2. ASSUME NEW reply \in ReplyShapes, ReplyWithin(reply, config)
      PROVE  ReplyWithin(reply, floor)
  BY <1>2 DEF ReplyWithin, AtLeastAsStrict
<1> QED BY <1>1, <1>2

\* Whatever the prompt and the reply, a proxy whose policy is at least as strict
\* as a floor sends to the model and returns from it nothing the floor forbids,
\* and no call of a tool that the policy does not allow.
THEOREM NothingForbiddenPasses ==
    ASSUME NEW floor \in Configs, NEW policy \in Policies \cup {None},
           policy # None => AtLeastAsStrict(policy.governance, floor),
           NEW prompt \in Prompts \cup {Malformed}, NEW reply \in Replies \cup {Raises},
           NEW outcome, outcome = Handled(policy, prompt, reply)
    PROVE  /\ outcome \in [verdict : {"forbidden", "rejected", "blocked", "failed", "served"},
                           sent : PromptShapes \cup {None}, returned : ReplyShapes \cup {None}]
           /\ outcome.sent # None => PromptWithin(outcome.sent, floor)
           /\ outcome.returned # None => ReplyWithin(outcome.returned, floor)
           /\ outcome.verdict = "served" =>
                  /\ policy # None
                  /\ \A call \in outcome.returned.calls : call.tool \in policy.allowed \ policy.denied
<1>1. CASE policy = None \/ prompt = Malformed
  BY <1>1 DEF Handled, Outcome
<1>2. CASE policy # None /\ prompt # Malformed /\ InputBlocked(prompt, policy.governance)
  BY <1>2 DEF Handled, Outcome
<1>3. CASE policy # None /\ prompt # Malformed /\ ~InputBlocked(prompt, policy.governance)
  <2> DEFINE sent == Sent(prompt, policy.governance)
  <2>1. policy.governance \in Configs /\ prompt \in PromptShapes
    BY <1>3, RequestsAssumption DEF Policies
  <2>2. sent \in PromptShapes /\ PromptWithin(sent, floor)
    BY <1>3, <2>1, SentIsWithin, WithinIsMonotone
  <2> HIDE DEF sent
  <2>3. CASE reply = Raises
    <3>1. outcome = [verdict |-> "failed", sent |-> sent, returned |-> None]
      BY <1>3, <2>3 DEF Handled, Outcome, sent
    <3> QED BY <3>1, <2>2
  <2>4. CASE reply # Raises /\ ReplyBlocked(reply, policy)
    <3>1. outcome = [verdict |-> "blocked", sent |-> sent, returned |-> None]
      BY <1>3, <2>4 DEF Handled, Outcome, sent
    <3> QED BY <3>1, <2>2
  <2>5. CASE reply # Raises /\ ~ReplyBlocked(reply, policy)
    <3>1. outcome = [verdict |-> "served", sent |-> sent, returned |-> Returned(reply)]
      BY <1>3, <2>5 DEF Handled, Outcome, sent
    <3>2. reply \in ReplyShapes /\ policy \in Policies
      BY <1>3, <2>5, RequestsAssumption
    <3>3. /\ Returned(reply) \in ReplyShapes /\ ReplyWithin(Returned(reply), floor)
          /\ \A call \in Returned(reply).calls : call.tool \in policy.allowed \ policy.denied
      BY <1>3, <2>1, <2>5, <3>2, ReturnedIsWithin, WithinIsMonotone
    <3> QED BY <3>1, <3>3, <2>2, <1>3
  <2> QED BY <2>3, <2>4, <2>5
<1> QED BY <1>1, <1>2, <1>3

-------------------------------------------------------------------------------
(***************************************************************************)
(* Every behaviour                                                         *)
(***************************************************************************)

\* Where policies and markers may stand.
Shapes ==
    /\ file \in [Agents -> Files \cup {Broken}]
    /\ process \in [Agents -> Policies \cup {None}]
    /\ artifact \in Registries \cup {None}
    /\ cache \in [Instances -> Registries \cup {None, Empty}]
    /\ answer \in Answers \cup {None}

\* A policy is a file as load_agent_config resolves it.
FromFile(policy) == policy # None => \E c \in Files : policy = Resolved(c)

\* The inductive invariant: every tier holds resolved files, and an answer was
\* given by one of them.  It says nothing of how the tiers' versions compare.
PolicyInv ==
    /\ Shapes
    /\ \A a \in Agents : FromFile(process[a])
    /\ artifact # None => \A a \in Agents : FromFile(artifact[a])
    /\ \A i \in Instances : cache[i] \notin {None, Empty} =>
          \A a \in Agents : FromFile(cache[i][a])
    /\ answer # None => FromFile(answer.policy)
    /\ ServedIsWithinPolicy
    /\ FloorEnforced

\* What load_agent_config hands out is a configuration no weaker than the
\* floor, with the tools of the file.
LEMMA ResolvedIsSound ==
    ASSUME NEW content \in Files
    PROVE  /\ Resolved(content) \in Policies /\ Sound(Resolved(content))
           /\ Resolved(content).allowed = content.allowed
           /\ Resolved(content).denied = content.denied
           /\ Resolved(content).recipients = content.recipients
<1>1. content \in Policies /\ content.governance \in Configs /\ Floor \in Configs
  BY FilesAssumption DEF Policies
<1>2. /\ ApplyFloor(content.governance, Floor) \in Configs
      /\ AtLeastAsStrict(ApplyFloor(content.governance, Floor), Floor)
  BY <1>1, ApplyFloorType, FloorIsRespected
<1>3. Resolved(content) \in Policies
  BY <1>1, <1>2 DEF Resolved, Policies
<1>4. /\ Resolved(content).governance = ApplyFloor(content.governance, Floor)
      /\ Resolved(content).allowed = content.allowed
      /\ Resolved(content).denied = content.denied
      /\ Resolved(content).recipients = content.recipients
  BY <1>1 DEF Resolved, Policies
<1> QED BY <1>2, <1>3, <1>4 DEF Sound

\* So is every policy that was resolved from a file.
LEMMA FromFileIsSound ==
    ASSUME NEW policy, FromFile(policy)
    PROVE  Sound(policy)
<1>1. CASE policy = None
  BY <1>1 DEF Sound
<1>2. CASE policy # None
  BY <1>2, ResolvedIsSound DEF FromFile
<1> QED BY <1>1, <1>2

\* No agent has been built, exported or answered for.
LEMMA InitHolds == Init => PolicyInv
BY DEF Init, PolicyInv, Shapes, FromFile, ServedIsWithinPolicy, FloorEnforced

\* A policy read from a cache is a resolved file, or none; it is none for an
\* identity that no file is about.
LEMMA CachedPolicy ==
    ASSUME PolicyInv, NEW i \in Instances, NEW who \in Agents \cup {Unknown}, cache[i] # None
    PROVE  /\ PolicyFor(cache[i], who) \in Policies \cup {None}
           /\ FromFile(PolicyFor(cache[i], who))
           /\ PolicyFor(cache[i], who) # None => who \in Agents
<1>1. CASE cache[i] = Empty \/ who = Unknown
  BY <1>1 DEF PolicyFor, FromFile
<1>2. CASE cache[i] # Empty /\ who # Unknown
  <2>1. cache[i] \in Registries /\ who \in Agents
    BY <1>2 DEF PolicyInv, Shapes
  <2>2. PolicyFor(cache[i], who) = cache[i][who]
    BY <1>2 DEF PolicyFor
  <2> QED BY <2>1, <2>2, <1>2 DEF Registries, PolicyInv
<1> QED BY <1>1, <1>2

\* An answer keeps the invariant when it was given by a resolved file.
LEMMA AnswerHolds ==
    ASSUME PolicyInv, UNCHANGED <<file, process, artifact, cache>>,
           answer' \in Answers, FromFile(answer'.policy),
           answer'.verdict = "served" =>
               /\ answer'.who \in Agents
               /\ answer'.policy # None
               /\ answer'.kind = "model" =>
                      \A call \in answer'.returned.calls :
                          call.tool \in answer'.policy.allowed \ answer'.policy.denied
               /\ answer'.kind = "a2a" => answer'.recipient \in answer'.policy.recipients,
           answer'.sent # None => PromptWithin(answer'.sent, Floor),
           answer'.returned # None => ReplyWithin(answer'.returned, Floor)
    PROVE  PolicyInv'
<1>1. ServedIsWithinPolicy'
  <2> SUFFICES ASSUME answer'.verdict = "served"
               PROVE  /\ answer'.who \in Agents
                      /\ \E c \in Files :
                            /\ answer'.policy = Resolved(c)
                            /\ answer'.kind = "model" =>
                                  \A call \in answer'.returned.calls :
                                      call.tool \in c.allowed \ c.denied
                            /\ answer'.kind = "a2a" => answer'.recipient \in c.recipients
    BY DEF ServedIsWithinPolicy, Resolved
  <2>1. PICK c \in Files : answer'.policy = Resolved(c)
    BY DEF FromFile
  <2>2. /\ answer'.policy.allowed = c.allowed /\ answer'.policy.denied = c.denied
        /\ answer'.policy.recipients = c.recipients
    BY <2>1, ResolvedIsSound
  <2> QED BY <2>1, <2>2
<1>2. Shapes'
  BY DEF PolicyInv, Shapes
<1>3. FloorEnforced'
  BY DEF FloorEnforced
<1> QED BY <1>1, <1>2, <1>3 DEF PolicyInv, FromFile

\* The answer to a dispatch is one that AnswerHolds asks for.
LEMMA DispatchHolds ==
    ASSUME PolicyInv, UNCHANGED <<file, process, artifact, cache>>,
           NEW who \in Agents \cup {Unknown}, NEW policy \in Policies \cup {None},
           FromFile(policy), policy # None => who \in Agents,
           NEW recipient \in Recipients, Dispatch(who, policy, recipient)
    PROVE  PolicyInv'
<1>1. PICK verdict \in {"rejected", IF AuthorizeRecipient(policy, recipient) THEN "served"
                                    ELSE "forbidden"} :
         answer' = [kind |-> "a2a", who |-> who, policy |-> policy, recipient |-> recipient,
                    verdict |-> verdict, sent |-> None, returned |-> None]
  BY DEF Dispatch, Answer, Outcome
<1>2. /\ answer' \in Answers /\ FromFile(answer'.policy)
      /\ answer'.sent = None /\ answer'.returned = None
  BY <1>1 DEF Answers
<1>3. answer'.verdict = "served" =>
          /\ answer'.who \in Agents /\ answer'.policy # None /\ answer'.kind = "a2a"
          /\ answer'.recipient \in answer'.policy.recipients
  BY <1>1 DEF AuthorizeRecipient
<1> QED BY <1>2, <1>3, AnswerHolds

\* Every step keeps the invariant.
LEMMA StepHolds == PolicyInv /\ [Next]_vars => PolicyInv'
<1> SUFFICES ASSUME PolicyInv, [Next]_vars PROVE PolicyInv'
  OBVIOUS
<1> USE DEF PolicyInv, Shapes
<1>1. ASSUME NEW a \in Agents, EditFile(a) PROVE PolicyInv'
  BY <1>1 DEF EditFile, FromFile, ServedIsWithinPolicy, FloorEnforced
<1>2. ASSUME NEW a \in Agents, BuildAgent(a) PROVE PolicyInv'
  <2>1. file[a] \in Files
    BY <1>2 DEF BuildAgent
  <2>2. Resolved(file[a]) \in Policies
    BY <2>1, ResolvedIsSound
  <2>3. Shapes'
    BY <1>2, <2>2 DEF BuildAgent
  <2>4. \A b \in Agents : FromFile(process'[b])
    BY <1>2, <2>1 DEF BuildAgent, FromFile
  <2> QED BY <1>2, <2>3, <2>4 DEF BuildAgent, FromFile, ServedIsWithinPolicy, FloorEnforced
<1>3. ASSUME NEW a \in Agents, ProcessExits(a) PROVE PolicyInv'
  BY <1>3 DEF ProcessExits, FromFile, ServedIsWithinPolicy, FloorEnforced
<1>4. CASE ExportRegistry
  <2>1. ASSUME NEW a \in Agents
        PROVE  artifact'[a] \in Policies \cup {None} /\ FromFile(artifact'[a])
    <3>1. CASE file[a] = Broken
      BY <1>4, <3>1 DEF ExportRegistry, FromFile
    <3>2. CASE file[a] # Broken
      <4>1. artifact'[a] = Resolved(file[a]) /\ file[a] \in Files
        BY <1>4, <3>2 DEF ExportRegistry
      <4> QED BY <4>1, ResolvedIsSound DEF FromFile
    <3> QED BY <3>1, <3>2
  <2>2. artifact' \in Registries
    BY <1>4, <2>1 DEF ExportRegistry, Registries
  <2> QED BY <1>4, <2>1, <2>2 DEF ExportRegistry, FromFile, ServedIsWithinPolicy, FloorEnforced
<1>5. ASSUME NEW i \in Instances, LoadRegistry(i) PROVE PolicyInv'
  <2>1. Shapes'
    BY <1>5 DEF LoadRegistry
  <2> QED BY <1>5, <2>1 DEF LoadRegistry, FromFile, ServedIsWithinPolicy, FloorEnforced
<1>6. ASSUME NEW i \in Instances, Recycle(i) PROVE PolicyInv'
  BY <1>6 DEF Recycle, FromFile, ServedIsWithinPolicy, FloorEnforced
<1>7. ASSUME NEW i \in Instances, NEW who \in Agents \cup {Unknown}, ModelRequest(i, who)
      PROVE  PolicyInv'
  <2>1. PICK nhi \in NHIs, prompt \in Prompts \cup {Malformed}, reply \in Replies \cup {Raises} :
          LET policy == Resolve(cache[i], who, nhi)
          IN  answer' = Answer("model", who, policy, Handled(policy, prompt, reply))
    BY <1>7 DEF ModelRequest
  <2> DEFINE policy == Resolve(cache[i], who, nhi)
             outcome == Handled(policy, prompt, reply)
  <2>2. policy \in Policies \cup {None} /\ FromFile(policy) /\ (policy # None => who \in Agents)
    BY <1>7, CachedPolicy DEF ModelRequest, Resolve, FromFile
  <2>3. answer' = Answer("model", who, policy, outcome)
    BY <2>1
  <2> HIDE DEF policy
  <2>4. policy # None => AtLeastAsStrict(policy.governance, Floor)
    BY <2>2, FromFileIsSound DEF Sound
  <2>5. Floor \in Configs
    BY FilesAssumption
  <2>6. /\ outcome \in [verdict : {"forbidden", "rejected", "blocked", "failed", "served"},
                        sent : PromptShapes \cup {None}, returned : ReplyShapes \cup {None}]
        /\ outcome.sent # None => PromptWithin(outcome.sent, Floor)
        /\ outcome.returned # None => ReplyWithin(outcome.returned, Floor)
        /\ outcome.verdict = "served" =>
               /\ policy # None
               /\ \A call \in outcome.returned.calls : call.tool \in policy.allowed \ policy.denied
    BY <2>2, <2>4, <2>5, NothingForbiddenPasses
  <2> HIDE DEF outcome
  <2>7. answer' \in Answers /\ answer'.who = who /\ answer'.policy = policy
        /\ answer'.verdict = outcome.verdict /\ answer'.sent = outcome.sent
        /\ answer'.returned = outcome.returned /\ answer'.kind = "model"
    BY <2>2, <2>3, <2>6 DEF Answers, Answer
  <2>8. UNCHANGED <<file, process, artifact, cache>>
    BY <1>7 DEF ModelRequest
  <2> QED BY <2>2, <2>6, <2>7, <2>8, AnswerHolds
<1>8. ASSUME NEW i \in Instances, NEW who \in Agents \cup {Unknown}, DataRequest(i, who)
      PROVE  PolicyInv'
  <2> DEFINE policy == PolicyFor(cache[i], who)
  <2>1. policy \in Policies \cup {None} /\ FromFile(policy)
    BY <1>8, CachedPolicy DEF DataRequest
  <2>2. PICK verdict \in {"forbidden", "rejected", "mediated"} :
          answer' = [kind |-> "data", who |-> who, policy |-> policy, recipient |-> None,
                     verdict |-> verdict, sent |-> None, returned |-> None]
    BY <1>8 DEF DataRequest, Answer, Outcome
  <2> HIDE DEF policy
  <2>3. /\ answer' \in Answers /\ FromFile(answer'.policy) /\ answer'.verdict # "served"
        /\ answer'.sent = None /\ answer'.returned = None
    BY <2>1, <2>2 DEF Answers
  <2>4. UNCHANGED <<file, process, artifact, cache>>
    BY <1>8 DEF DataRequest
  <2> QED BY <2>3, <2>4, AnswerHolds
<1>9. ASSUME NEW i \in Instances, NEW who \in Agents \cup {Unknown}, BrokerRequest(i, who)
      PROVE  PolicyInv'
  <2> DEFINE policy == PolicyFor(cache[i], who)
  <2>1. policy \in Policies \cup {None} /\ FromFile(policy) /\ (policy # None => who \in Agents)
    BY <1>9, CachedPolicy DEF BrokerRequest
  <2>2. PICK recipient \in Recipients : Dispatch(who, policy, recipient)
    BY <1>9 DEF BrokerRequest
  <2> HIDE DEF policy
  <2>3. UNCHANGED <<file, process, artifact, cache>>
    BY <1>9 DEF BrokerRequest
  <2> QED BY <2>1, <2>2, <2>3, DispatchHolds
<1>10. ASSUME NEW a \in Agents, DispatchInProcess(a) PROVE PolicyInv'
  <2> DEFINE policy == IF file[a] = Broken THEN None ELSE Resolved(file[a])
  <2>1. policy \in Policies \cup {None} /\ FromFile(policy)
    BY ResolvedIsSound DEF FromFile
  <2>2. PICK recipient \in Recipients : Dispatch(a, policy, recipient)
    BY <1>10 DEF DispatchInProcess
  <2> HIDE DEF policy
  <2>3. UNCHANGED <<file, process, artifact, cache>>
    BY <1>10 DEF DispatchInProcess
  <2> QED BY <2>1, <2>2, <2>3, DispatchHolds
<1>11. CASE UNCHANGED vars
  BY <1>11 DEF vars, FromFile, ServedIsWithinPolicy, FloorEnforced
<1> QED BY <1>1, <1>2, <1>3, <1>4, <1>5, <1>6, <1>7, <1>8, <1>9, <1>10, <1>11 DEF Next

\* Along every behaviour.
LEMMA Inductive == Spec => []PolicyInv
<1> QED BY InitHolds, StepHolds, PTL DEF Spec

\* However files change and whatever each process and each proxy instance still
\* caches, no tier acts on a configuration weaker than the floor.
THEOREM FloorHoldsEverywhere == Spec => []FloorHolds
<1>1. PolicyInv => FloorHolds
  BY FromFileIsSound DEF PolicyInv, FloorHolds
<1> QED BY <1>1, Inductive, PTL

\* The model proxy, the broker and the dispatcher serve nobody but an agent whose file
\* was resolved, and neither a tool plan nor a dispatch outside of what that file allows.
THEOREM ServedOnlyWithinPolicy == Spec => []ServedIsWithinPolicy
<1>1. PolicyInv => ServedIsWithinPolicy
  BY DEF PolicyInv
<1> QED BY <1>1, Inductive, PTL

\* Nothing that the floor forbids is sent to the model or returned from it,
\* whatever version of its policy an instance of the proxy acts on.
THEOREM FloorEnforcedEverywhere == Spec => []FloorEnforced
<1>1. PolicyInv => FloorEnforced
  BY DEF PolicyInv
<1> QED BY <1>1, Inductive, PTL

\* Every tier holds what it may hold, and no more edits were made than the bound allows.
THEOREM TypeCorrect == Spec => []TypeOK
<1>1. Init => TypeOK
  BY EditsAssumption DEF Init, TypeOK
<1>2. TypeOK /\ PolicyInv /\ PolicyInv' /\ [Next]_vars => TypeOK'
  <2> SUFFICES ASSUME TypeOK, PolicyInv', [Next]_vars PROVE TypeOK'
    OBVIOUS
  <2>1. edits' \in 0 .. MaxEdits
    <3>1. ASSUME NEW a \in Agents, EditFile(a) PROVE edits' \in 0 .. MaxEdits
      BY <3>1, EditsAssumption DEF EditFile, TypeOK
    <3>2. CASE UNCHANGED edits
      BY <3>2 DEF TypeOK
    <3> QED BY <3>1, <3>2 DEF Next, vars, BuildAgent, ProcessExits, DispatchInProcess,
                  ExportRegistry, LoadRegistry, Recycle, ModelRequest, DataRequest, BrokerRequest
  <2> QED BY <2>1 DEF TypeOK, PolicyInv, Shapes
<1> QED BY <1>1, <1>2, Inductive, PTL DEF Spec
===============================================================================
