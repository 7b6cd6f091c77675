--------------------------- MODULE GovernanceFloor ---------------------------
(***************************************************************************)
(* The governance floor (governance/floor.py): every per-agent             *)
(* configuration is passed through apply_floor, which clamps each field in *)
(* the restrictive direction and reports the fields it had to clamp.       *)
(*                                                                         *)
(* A configuration and a floor have the same shape here: the guards that   *)
(* are on (that must be on), the two ordered settings, the token budget    *)
(* (its ceiling) and the blocked patterns (the mandatory ones).  The list  *)
(* of patterns is a set: its order is never looked at.                     *)
(***************************************************************************)
EXTENDS Naturals, Sequences

CONSTANTS
    Toggles,    \* the enable_* fields of GovernanceConfig the floor knows
    Patterns    \* blocked patterns

\* _CREDENTIAL_MODE_LOOSENESS and _BLOCK_THRESHOLD_LOOSENESS, strictest first.
ModeScale == <<"deny", "redact">>
ThresholdScale == <<"medium", "high", "critical">>

Modes == {ModeScale[i] : i \in DOMAIN ModeScale}
Thresholds == {ThresholdScale[i] : i \in DOMAIN ThresholdScale}

Configs == [guards : SUBSET Toggles, credential_mode : Modes, threshold : Thresholds,
            budget : Nat \ {0}, patterns : SUBSET Patterns]

\* _looseness(scale, value): the index of the value; an unknown one is loosest.
Looseness(scale, value) ==
    IF \E i \in DOMAIN scale : scale[i] = value
    THEN CHOOSE i \in DOMAIN scale : scale[i] = value
    ELSE Len(scale) + 1

\* A setting on an ordered scale: the limit replaces anything looser.
Clamped(scale, value, limit) ==
    IF Looseness(scale, value) > Looseness(scale, limit) THEN limit ELSE value

\* apply_floor(governance, floor): the clamped configuration.
ApplyFloor(config, floor) ==
    [guards          |-> config.guards \cup floor.guards,
     credential_mode |-> Clamped(ModeScale, config.credential_mode, floor.credential_mode),
     threshold       |-> Clamped(ThresholdScale, config.threshold, floor.threshold),
     budget          |-> IF config.budget > floor.budget THEN floor.budget ELSE config.budget,
     patterns        |-> config.patterns \cup floor.patterns]

\* apply_floor(governance, floor): the fields reported as FloorViolation.
Violations(config, floor) ==
    {v \in {"guards"} : ~(floor.guards \subseteq config.guards)}
    \cup {v \in {"credential_mode"} : Looseness(ModeScale, config.credential_mode)
                                        > Looseness(ModeScale, floor.credential_mode)}
    \cup {v \in {"threshold"} : Looseness(ThresholdScale, config.threshold)
                                        > Looseness(ThresholdScale, floor.threshold)}
    \cup {v \in {"budget"} : config.budget > floor.budget}
    \cup {v \in {"patterns"} : ~(floor.patterns \subseteq config.patterns)}

-------------------------------------------------------------------------------
(***************************************************************************)
(* What the clamping is to achieve                                         *)
(***************************************************************************)

\* One configuration is at least as strict as another in every field.
AtLeastAsStrict(c, d) ==
    /\ d.guards \subseteq c.guards
    /\ Looseness(ModeScale, c.credential_mode) <= Looseness(ModeScale, d.credential_mode)
    /\ Looseness(ThresholdScale, c.threshold) <= Looseness(ThresholdScale, d.threshold)
    /\ c.budget <= d.budget
    /\ d.patterns \subseteq c.patterns

\* c is the loosest configuration of a set that is as strict as both a and b.
IsMeet(c, a, b, S) ==
    /\ AtLeastAsStrict(c, a) /\ AtLeastAsStrict(c, b)
    /\ \A d \in S : AtLeastAsStrict(d, a) /\ AtLeastAsStrict(d, b) => AtLeastAsStrict(d, c)
===============================================================================
