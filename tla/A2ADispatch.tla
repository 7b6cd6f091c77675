------------------------------ MODULE A2ADispatch ------------------------------
(***************************************************************************)
(* Agent-to-agent calls (a2a/dispatcher.py, a2a/envelope.py, and the       *)
(* recipient authorization of governance/policy_registry.py).  a2a_call    *)
(* authorizes the recipient, logs the dispatch in the sender's audit log,  *)
(* awaits the recipient's handler and logs the reply.  A handler may call  *)
(* further agents while it runs, and several conversations share one       *)
(* event loop, so the entries of different calls interleave in one log.    *)
(*                                                                         *)
(* An envelope that fails validate() raises before anything is logged: it  *)
(* leaves no trace in this state.                                          *)
(***************************************************************************)
EXTENDS Naturals, Sequences

CONSTANTS
    Agents,         \* agent types
    Registered,     \* the agents that have a per-agent configuration
    Recipients,     \* allowed_recipients of each registered agent
    None,           \* no allow-list passed to a2a_call; no parent call
    AllowLists,     \* the allow-lists a sender may pass besides its own
    MaxCalls,       \* bound: a2a_call invocations in one behaviour
    MaxUnbrokered   \* bound: the same without the broker, where most calls pass

ASSUME RegistryAssumption ==
    /\ Registered \subseteq Agents
    /\ Recipients \in [Registered -> SUBSET Agents]
    /\ AllowLists \subseteq SUBSET Agents
    /\ MaxCalls \in Nat /\ MaxUnbrokered \in 0 .. MaxCalls

VARIABLES
    broker,     \* whether GOV_A2A_BROKER_ENDPOINT is set, which no step changes
    calls,      \* the calls made so far, in the order of their dispatch entries
    hung,       \* the calls whose handler will never return
    audit       \* GovernanceAuditLogger of each agent

vars == <<broker, calls, hung, audit>>

Ids == DOMAIN calls

\* A2AStatus, and what a call without a reply is: its handler runs, or the call ended
\* before it could log one.
Statuses == {"ok", "denied", "error", "timeout"}
Unanswered == {"running", "cancelled", "broken"}

CallEntry(event, c, decision) == [event |-> event, call |-> c, decision |-> decision]
Call(sender, recipient, parent, state) ==
    [sender |-> sender, recipient |-> recipient, parent |-> parent, state |-> state]

TypeOK ==
    /\ broker \in BOOLEAN
    /\ calls \in Seq([sender : Agents, recipient : Agents, parent : Nat \cup {None},
                      state : Statuses \cup Unanswered])
    /\ Len(calls) <= MaxCalls
    /\ hung \subseteq Ids
    /\ audit \in [Agents -> Seq([event : {"dispatch", "reply"}, call : Ids,
                                 decision : {"allow", "deny", "block"}])]

Init ==
    /\ broker \in BOOLEAN
    /\ calls = << >> /\ hung = {} /\ audit = [a \in Agents |-> << >>]

-------------------------------------------------------------------------------
\* authorize_recipient: an agent without a policy may dispatch to nobody.
Authorized(sender, recipient) ==
    sender \in Registered /\ recipient \in Recipients[sender]

\* Mutant of Permitted: the list of the caller replaces the broker.
PermittedByList(sender, recipient, list) ==
    IF list \in {None, {}} THEN broker => Authorized(sender, recipient) ELSE recipient \in list

\* The two checks of a2a_call.  An empty list counts as no list.
Permitted(sender, recipient, list) ==
    /\ broker => Authorized(sender, recipient)
    /\ list \notin {None, {}} => recipient \in list

\* The list a caller passes: the one of its own configuration, where it has
\* one, or another.
PassedLists(sender) ==
    AllowLists \cup IF sender \in Registered THEN {Recipients[sender]} ELSE {None}

\* Mutant of Waiting: an answered call is waited for all the same.
WaitingForAnswered(c) == \E d \in Ids : calls[d].parent = c

\* A handler awaits the calls it makes one after the other.
Waiting(c) == \E d \in Ids : calls[d].parent = c /\ calls[d].state = "running"

\* Who may make a call: an agent of its own accord, or the recipient of a call
\* while it handles it.
MayCall(sender, parent) ==
    /\ Len(calls) < IF broker THEN MaxCalls ELSE MaxUnbrokered
    /\ parent # None => /\ calls[parent].state = "running" /\ ~Waiting(parent)
                        /\ parent \notin hung
                        /\ sender = calls[parent].recipient

\* Mutant of CallDenied: only the dispatch of a denied call is logged.
CallDeniedUnanswered(sender, recipient, parent) ==
    LET c == Len(calls) + 1
    IN  /\ MayCall(sender, parent)
        /\ \E list \in PassedLists(sender) : ~Permitted(sender, recipient, list)
        /\ calls' = Append(calls, Call(sender, recipient, parent, "denied"))
        /\ audit' = [audit EXCEPT ![sender] = Append(@, CallEntry("dispatch", c, "deny"))]
        /\ UNCHANGED <<broker, hung>>

\* a2a_call denies: both entries are logged and the handler never runs.
CallDenied(sender, recipient, parent) ==
    LET c == Len(calls) + 1
    IN  /\ MayCall(sender, parent)
        /\ \E list \in PassedLists(sender) : ~Permitted(sender, recipient, list)
        /\ calls' = Append(calls, Call(sender, recipient, parent, "denied"))
        /\ audit' = [audit EXCEPT ![sender] =
                        @ \o <<CallEntry("dispatch", c, "deny"), CallEntry("reply", c, "deny")>>]
        /\ UNCHANGED <<broker, hung>>

\* a2a_call dispatches: logged, and the handler starts.
CallDispatched(sender, recipient, parent) ==
    /\ MayCall(sender, parent)
    /\ \E list \in PassedLists(sender) : Permitted(sender, recipient, list)
    /\ calls' = Append(calls, Call(sender, recipient, parent, "running"))
    /\ audit' = [audit EXCEPT ![sender] =
                    Append(@, CallEntry("dispatch", Len(calls) + 1, "allow"))]
    /\ UNCHANGED <<broker, hung>>

\* The decision logged for a reply.
Decision(status) == CASE status = "ok" -> "allow" [] status = "error" -> "block"
                      [] OTHER -> "deny"

\* What a2a_call does once the handler is over.
Answered(c, status) ==
    /\ calls' = [calls EXCEPT ![c].state = status]
    /\ audit' = [audit EXCEPT ![calls[c].sender] =
                    Append(@, CallEntry("reply", c, Decision(status)))]
    /\ UNCHANGED <<broker, hung>>

MayFinish(c) == calls[c].state = "running" /\ ~Waiting(c) /\ c \notin hung

\* The handler returns an A2AResponse, with any of the statuses.
HandlerReplies(c) == MayFinish(c) /\ \E status \in Statuses : Answered(c, status)

\* The handler raises, an error of its own or one of a call it made: the reply
\* is an error, logged before the exception goes on to the caller.
HandlerRaises(c) == MayFinish(c) /\ Answered(c, "error")

\* The handler returns something that is no A2AResponse: filling in the latency raises
\* past the try, before the reply is logged, and on to the caller.
HandlerBreaks(c) ==
    /\ MayFinish(c)
    /\ calls' = [calls EXCEPT ![c].state = "broken"]
    /\ UNCHANGED <<broker, hung, audit>>

\* The handler awaits something that never comes.
HandlerHangs(c) ==
    /\ MayFinish(c)
    /\ hung' = hung \cup {c}
    /\ UNCHANGED <<broker, calls, audit>>

\* The call a conversation began with.
Root == LET root[c \in Ids] == IF calls[c].parent = None THEN c ELSE root[calls[c].parent]
        IN  root

\* Mutant of Cancelled: only the first call of the conversation ends.
CancelledAlone(root) ==
    /\ calls[root].parent = None /\ calls[root].state = "running"
    /\ calls' = [calls EXCEPT ![root].state = "cancelled"]
    /\ UNCHANGED <<broker, hung, audit>>

\* The task of a conversation is cancelled: CancelledError leaves every a2a_call
\* of it, none of which catches it.
Cancelled(root) ==
    /\ calls[root].parent = None /\ calls[root].state = "running"
    /\ calls' = [c \in Ids |-> IF Root[c] = root /\ calls[c].state = "running"
                               THEN [calls[c] EXCEPT !.state = "cancelled"] ELSE calls[c]]
    /\ UNCHANGED <<broker, hung, audit>>

NewCall ==
    \E sender, recipient \in Agents, parent \in Ids \cup {None} :
        \/ CallDenied(sender, recipient, parent)
        \/ CallDispatched(sender, recipient, parent)

Next ==
    \/ NewCall
    \/ \E c \in Ids :
          \/ HandlerReplies(c)
          \/ HandlerRaises(c)
          \/ HandlerBreaks(c)
          \/ HandlerHangs(c)
          \/ Cancelled(c)

Spec == Init /\ [][Next]_vars

\* The event loop resumes every handler that is able to go on.
FairSpec == Spec /\ \A c \in 1 .. MaxCalls :
               WF_vars(c \in Ids /\ (HandlerReplies(c) \/ HandlerRaises(c) \/ HandlerBreaks(c)))

-------------------------------------------------------------------------------
(***************************************************************************)
(* Properties                                                              *)
(***************************************************************************)

\* Where the log of its sender speaks of a call, and what it says there.
Hop(c) == {i \in DOMAIN audit[calls[c].sender] : audit[calls[c].sender][i].call = c}
Said(c, i) == audit[calls[c].sender][i]

\* Every call that was answered left exactly two entries in the log of its
\* sender, the dispatch and then the reply, and the pair tells how it went:
\* refused at its dispatch, or let through and then answered with the status the
\* caller got, of which a denial and a timeout are told apart by nothing.  A call
\* that runs, hangs, was cancelled or broke off left its dispatch and no reply.
TwoEntriesPerHop ==
    \A c \in Ids :
        IF calls[c].state \in Statuses
        THEN \E i, j \in Hop(c) :
                /\ Hop(c) = {i, j} /\ i < j
                /\ Said(c, i).event = "dispatch" /\ Said(c, j).event = "reply"
                /\ Said(c, j).decision = "deny"  <=> calls[c].state \in {"denied", "timeout"}
                /\ Said(c, j).decision = "block" <=> calls[c].state = "error"
                /\ Said(c, i).decision = "deny" => calls[c].state = "denied"
        ELSE \E i \in Hop(c) :
                Hop(c) = {i} /\ Said(c, i).event = "dispatch" /\ Said(c, i).decision = "allow"

\* No handler goes on once the call that awaits it is over, however it ended.
NothingRunsUnawaited ==
    \A c \in Ids : calls[c].state = "running" /\ calls[c].parent # None =>
        calls[calls[c].parent].state = "running"

\* The state is well typed, and with the broker set no list a sender passes starts a
\* handler that the registry does not allow, along every chain of nested calls.
HandlersAuthorized ==
    /\ TypeOK
    /\ broker => \A c \in Ids : \A i \in Hop(c) :
          Said(c, i).event = "dispatch" /\ Said(c, i).decision = "allow" =>
              Authorized(calls[c].sender, calls[c].recipient)

\* The calls whose handler hangs, or awaits one that does.
Stuck ==
    LET stuck[c \in Ids] ==
            \/ c \in hung
            \/ \E d \in Ids : calls[d].parent = c /\ calls[d].state = "running" /\ stuck[d]
    IN  {c \in Ids : stuck[c]}

\* A dispatched call is answered, breaks off or is cancelled, unless a handler hangs that it
\* awaits, through however many further calls.
EveryDispatchAnswered ==
    \A c \in 1 .. MaxCalls :
        (c \in Ids /\ calls[c].state = "running")
            ~> (c \in Ids /\ (calls[c].state # "running" \/ c \in Stuck))
===============================================================================
