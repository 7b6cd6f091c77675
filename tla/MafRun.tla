------------------------------- MODULE MafRun -------------------------------
(***************************************************************************)
(* The governance stack of the Microsoft Agent Framework                   *)
(* (cloud_adapters/azure/maf): runs of one agent go through its injection, *)
(* credential and budget guards and then through the toolkit's middleware  *)
(* to the model.  The guards are coroutines around the next one's: up to   *)
(* the model nothing suspends, so a run is guarded and dispatched in one   *)
(* step and unwound in another, and runs of the agent interleave while     *)
(* they wait for the model.  They share the agent's context window.        *)
(***************************************************************************)
EXTENDS Naturals, Sequences, FiniteSets, SequencesExt

CONSTANTS
    Runs,       \* calls of agent.run()
    Messages,   \* the messages they carry
    MaxMessages \* bound: messages of one run

\* A message has marks the detectors find, a size that fits the window or not, and a
\* shape: `plain' when its text can be set, `parts' when only its contents can,
\* `frozen' when nothing can.  `tail' says that a secret sits in a later content.
AllMessages == [marks : SUBSET {"attack", "suspect", "secret"}, big : BOOLEAN,
                shape : {"plain", "parts", "frozen"}, tail : BOOLEAN]

ASSUME MessageAssumption == Messages \subseteq AllMessages /\ MaxMessages \in Nat

VARIABLES
    guards,     \* which of its guards the agent's configuration builds
    mode,       \* credential_mode
    state,      \* where each run is
    sent,       \* the messages the model was called with
    window,     \* the agent has a window in the scheduler
    trail,      \* each run's entries in the archive
    unrecorded  \* history: runs whose record_usage raised

mafVars == <<guards, mode, state, sent, window, trail, unrecorded>>

ArchiveEntry(check, decision) == [check |-> check, decision |-> decision]
ArchiveEntries == [check : {"injection", "credential", "budget", "toolkit"},
                   decision : {"allow", "audit", "deny"}]

MafTypeOK ==
    /\ guards \subseteq {"injection", "credential", "budget"}
    /\ mode \in {"redact", "deny"}
    /\ state \in [Runs -> {"new", "dispatched", "over"}]
    /\ sent \in [Runs -> Seq(AllMessages)]
    /\ window \in BOOLEAN
    /\ trail \in [Runs -> Seq(ArchiveEntries)]
    /\ unrecorded \subseteq Runs
    /\ \A r \in Runs : state[r] = "new" => trail[r] = << >> /\ sent[r] = << >>
    /\ window => "budget" \in guards

\* build_governance_stack: the guards the configuration asks for, in this order, with
\* a scheduler of the agent's own.
MafInit ==
    /\ guards \in SUBSET {"injection", "credential", "budget"}
    /\ mode \in {"redact", "deny"}
    /\ state = [r \in Runs |-> "new"]
    /\ sent = [r \in Runs |-> << >>]
    /\ window = FALSE
    /\ trail = [r \in Runs |-> << >>]
    /\ unrecorded = {}

---------------------------------------------------------------------------
(* The audit logger: every backend is written to and none stops another.   *)

\* The backends ahead of the archive, which may raise.
Fallible == {"stdout", "otel"}

\* Mutant of Archived: the first backend that fails ends the loop.
ArchivedUnlessFailing(entries, failing) == IF failing = {} THEN entries ELSE << >>

\* What reaches the archive, the last of the backends, when others fail.
Archived(entries, failing) == entries

\* _CompatAuditLogger.log(entry), and log(event_type=..., outcome=...) of the toolkit.
Log(r, entries) ==
    \E failing \in SUBSET Fallible :
        trail' = [trail EXCEPT ![r] = @ \o Archived(entries, failing)]

---------------------------------------------------------------------------
(* What the guards make of the messages.                                   *)

\* Mutant of LastMessage: the first message.
FirstMessage(msgs) == Head(msgs)

\* Only the last message is looked at.
LastMessage(msgs) == Last(msgs)

Has(msgs, mark) == msgs # << >> /\ mark \in LastMessage(msgs).marks

\* PromptInjectionGuardMiddleware: an attack is at or above the threshold, a suspect
\* below it; without a message nothing is logged.
InjectionVerdict(msgs) ==
    IF "injection" \notin guards \/ msgs = << >> THEN << >>
    ELSE <<ArchiveEntry("injection", CASE Has(msgs, "attack") -> "deny"
                                [] Has(msgs, "suspect") /\ ~Has(msgs, "attack") -> "audit"
                                [] OTHER -> "allow")>>

\* CredentialRedactorGuardMiddleware: only a finding is logged.
CredentialVerdict(msgs) ==
    IF "credential" \notin guards \/ ~Has(msgs, "secret") THEN << >>
    ELSE <<ArchiveEntry("credential", IF mode = "deny" THEN "deny" ELSE "audit")>>

\* The cleaned text is set on the message, or on the first content that takes it; a
\* later content keeps its own, and a frozen message stays as it is.
Redacted(m) ==
    IF m.shape = "plain" \/ (m.shape = "parts" /\ ~m.tail)
    THEN [m EXCEPT !.marks = @ \ {"secret"}] ELSE m

\* The messages as the model gets them.
Cleaned(msgs) ==
    IF "credential" \in guards /\ Has(msgs, "secret")
    THEN [msgs EXCEPT ![Len(msgs)] = Redacted(@)] ELSE msgs

\* The estimate is over all messages.
TooBig(msgs) == \E i \in DOMAIN msgs : msgs[i].big

Denied(entries) == \E i \in DOMAIN entries : entries[i].decision = "deny"

\* Up to the first denial, which raises MiddlewareTermination.
Screened(msgs) ==
    IF Denied(InjectionVerdict(msgs)) THEN InjectionVerdict(msgs)
    ELSE InjectionVerdict(msgs) \o CredentialVerdict(msgs)

Over(r) == state' = [state EXCEPT ![r] = "over"]

\* _audit_deny of the budget guard, after what the guards ahead of it logged.
AuditDeny(r, msgs) == Log(r, Screened(msgs) \o <<ArchiveEntry("budget", "deny")>>)

---------------------------------------------------------------------------
(* A run up to the model.                                                  *)

\* A guard ahead of the budget's terminates it.
ScreenedOut(r, msgs) ==
    /\ state[r] = "new" /\ Denied(Screened(msgs))
    /\ Over(r) /\ Log(r, Screened(msgs))
    /\ UNCHANGED <<guards, mode, sent, window, unrecorded>>

\* scheduler.allocate raises BudgetExceeded, for what the agent already holds.
BudgetExhausted(r, msgs) ==
    /\ state[r] = "new" /\ ~Denied(Screened(msgs))
    /\ "budget" \in guards /\ window
    /\ Over(r) /\ AuditDeny(r, msgs)
    /\ UNCHANGED <<guards, mode, sent, window, unrecorded>>

\* Mutant of PromptTooBig: the window is not released.
PromptTooBigKept(r, msgs) ==
    /\ state[r] = "new" /\ ~Denied(Screened(msgs))
    /\ "budget" \in guards /\ TooBig(msgs)
    /\ window' = TRUE
    /\ Over(r) /\ AuditDeny(r, msgs)
    /\ UNCHANGED <<guards, mode, sent, unrecorded>>

\* The window is allocated and too small: denied and released, with it the window a
\* run of the same agent may be using.
PromptTooBig(r, msgs) ==
    /\ state[r] = "new" /\ ~Denied(Screened(msgs))
    /\ "budget" \in guards /\ TooBig(msgs)
    /\ window' = FALSE
    /\ Over(r) /\ AuditDeny(r, msgs)
    /\ UNCHANGED <<guards, mode, sent, unrecorded>>

Fits(msgs) == "budget" \in guards => ~TooBig(msgs)

\* The toolkit lets the run through, and the model is called.
Dispatch(r, msgs) ==
    /\ state[r] = "new" /\ ~Denied(Screened(msgs)) /\ Fits(msgs)
    /\ window' = ("budget" \in guards)
    /\ state' = [state EXCEPT ![r] = "dispatched"]
    /\ sent' = [sent EXCEPT ![r] = Cleaned(msgs)]
    /\ Log(r, Screened(msgs) \o <<ArchiveEntry("toolkit", "allow")>>)
    /\ UNCHANGED <<guards, mode, unrecorded>>

---------------------------------------------------------------------------
(* The budget guard's finally, whether call_next() returned, raised or was *)
(* cancelled.                                                              *)

NoWindow(r, entries) ==
    /\ "budget" \notin guards
    /\ Log(r, entries)
    /\ UNCHANGED <<window, unrecorded>>

\* Usage is recorded, the agent's window released, and the call logged as allowed.
Accounted(r, entries) ==
    /\ "budget" \in guards
    /\ window' = FALSE
    /\ Log(r, entries \o <<ArchiveEntry("budget", "allow")>>)
    /\ UNCHANGED unrecorded

\* record_usage itself raises: neither the release nor the entry is reached.
Unaccounted(r, entries, held) ==
    /\ "budget" \in guards
    /\ window' = held
    /\ Log(r, entries)
    /\ unrecorded' = unrecorded \cup {r}

Unwind(r, entries, held) ==
    NoWindow(r, entries) \/ Accounted(r, entries) \/ Unaccounted(r, entries, held)

\* A rule, the allow-list or the rogue detector of the toolkit denies the run before
\* the model is called.
ToolkitDenies(r, msgs) ==
    /\ state[r] = "new" /\ ~Denied(Screened(msgs)) /\ Fits(msgs)
    /\ Over(r)
    /\ Unwind(r, Screened(msgs) \o <<ArchiveEntry("toolkit", "deny")>>, TRUE)
    /\ UNCHANGED <<guards, mode, sent>>

\* The model answers, and the toolkit closes its pair of entries, or the call fails or
\* is cancelled.
ModelReturns(r) ==
    /\ state[r] = "dispatched" /\ Over(r)
    /\ \E closed \in {<< >>, <<ArchiveEntry("toolkit", "allow")>>} : Unwind(r, closed, window)
    /\ UNCHANGED <<guards, mode, sent>>

Requests == UNION {[1 .. n -> Messages] : n \in 0 .. MaxMessages}

Begin(r, msgs) ==
    \/ ScreenedOut(r, msgs) \/ BudgetExhausted(r, msgs) \/ PromptTooBig(r, msgs)
    \/ ToolkitDenies(r, msgs) \/ Dispatch(r, msgs)

MafNext == \E r \in Runs : ModelReturns(r) \/ \E msgs \in Requests : Begin(r, msgs)

MafSpec == MafInit /\ [][MafNext]_mafVars

---------------------------------------------------------------------------
(* Properties.                                                             *)

Count(entries, check) == Cardinality({i \in DOMAIN entries : entries[i].check = check})
DeniedBy(entries, check) == ArchiveEntry(check, "deny") \in Range(entries)

\* What the model is called with has a last message that the configured guards let
\* through: no attack, and no secret in deny mode or where the text could be cleaned.
LastMessageScreened ==
    \A r \in Runs : sent[r] # << >> =>
        LET last == Last(sent[r])
        IN  /\ "injection" \in guards => "attack" \notin last.marks
            /\ "credential" \in guards /\ "secret" \in last.marks =>
                   mode = "redact" /\ Redacted(last) = last

\* The three guards deny at most once and then the model was not called, and a run that
\* passed them has one allowing budget entry, unless its usage could not be recorded.
Explained(r) ==
    LET guardDenied == \E c \in {"injection", "credential", "budget"} : DeniedBy(trail[r], c)
    IN  /\ guardDenied => /\ Last(trail[r]).decision = "deny"
                          /\ sent[r] = << >> /\ Count(trail[r], "toolkit") = 0
        /\ ~guardDenied =>
               /\ Count(trail[r], "toolkit") > 0
               /\ Count(trail[r], "budget") =
                      IF "budget" \in guards /\ r \notin unrecorded THEN 1 ELSE 0

\* The archive tells what became of a run, whichever other backend failed.
TrailExplainsRun == \A r \in Runs : state[r] = "over" => Explained(r)

\* The state is well typed, and a window outlives the runs that wait for the model
\* only if a usage could not be recorded: then the agent holds it with nobody to
\* release it.
WindowHasRun ==
    /\ MafTypeOK
    /\ window => (\E r \in Runs : state[r] = "dispatched") \/ unrecorded # {}
=============================================================================
