-------------------------- MODULE AuthorizationProofs --------------------------
(***************************************************************************)
(* What an agent may reach, and what is kept of it.  The calls it makes to *)
(* other agents: every call tells its story in its sender's log, only      *)
(* authorized handlers run behind the broker, and none outlives the call   *)
(* awaiting it.  The data it reads: no row leaves its scope, and the       *)
(* baselines of its reads are those of what it read.                       *)
(***************************************************************************)
EXTENDS A2ADispatch, DataAccess, FiniteSetTheorems, WellFoundedInduction, SequenceTheorems, TLAPS

CallRecords == [sender : Agents, recipient : Agents, parent : Nat \cup {None},
                state : Statuses \cup Unanswered]
Entries(n) == [event : {"dispatch", "reply"}, call : 1 .. n,
               decision : {"allow", "deny", "block"}]

\* A call is made after the one whose handler makes it.
ParentsPrecede == \A c \in Ids : calls[c].parent = None \/ calls[c].parent \in 1 .. c - 1

IInv == HandlersAuthorized /\ TwoEntriesPerHop /\ ParentsPrecede /\ NothingRunsUnawaited

\* Every nonempty set of positions has a first one.  (Strict
\* inclusion of the intervals 1..k is well founded, so one of them is minimal.)
LEMMA FirstPosition ==
    ASSUME NEW n \in Nat, NEW B \in SUBSET (1 .. n), B # {}
    PROVE  \E m \in B : \A k \in B : m <= k
<1> DEFINE S == 1 .. n
           T == {1 .. k : k \in B}
<1>1. IsFiniteSet(S)
  BY FS_Interval
<1>2. IsWellFoundedOn(StrictSubsetOrdering(S), FiniteSubsetsOf(S))
  BY FS_StrictSubsetOrderingWellFounded
<1>3. FiniteSubsetsOf(S) = SUBSET S
  BY <1>1, FS_FiniteSubsetsOfFinite
<1>4. T \subseteq SUBSET S /\ T # {}
  <2>1. ASSUME NEW k \in B
        PROVE  1 .. k \in SUBSET S
    OBVIOUS
  <2>2. PICK b \in B : TRUE
    OBVIOUS
  <2>3. 1 .. b \in T
    OBVIOUS
  <2> QED
    BY <2>1, <2>3
<1> HIDE DEF S, T
<1>5. PICK I \in T : \A J \in T : ~ (<<J, I>> \in StrictSubsetOrdering(S))
  BY <1>2, <1>3, <1>4, WFMin
<1>6. PICK m \in B : I = 1 .. m
  BY DEF T
<1>7. ASSUME NEW k \in B, k < m
      PROVE  FALSE
  <2>1. 1 .. k \in T
    BY DEF T
  <2>2. 1 .. k \subseteq I /\ m \in I /\ m \notin 1 .. k
    BY <1>6, <1>7
  <2>3. <<1 .. k, I>> \in StrictSubsetOrdering(S)
    BY <1>4, <2>1, <2>2 DEF StrictSubsetOrdering
  <2> QED
    BY <1>5, <2>1, <2>3
<1> QED
  BY <1>7

-------------------------------------------------------------------------------
(***************************************************************************)
(* One more entry in a log                                                 *)
(***************************************************************************)

\* Where a log speaks of call c.
At(log, c) == {i \in DOMAIN log : log[i].call = c}

\* An appended entry keeps the earlier ones where they are, and adds its own
\* position to what the log says of its call.
LEMMA EntryAppended ==
    ASSUME NEW S, NEW log \in Seq(S), NEW e \in S
    PROVE  /\ Append(log, e) \in Seq(S)
           /\ Len(log) \in Nat /\ Len(Append(log, e)) = Len(log) + 1
           /\ \A i \in DOMAIN log : Append(log, e)[i] = log[i] /\ i < Len(log) + 1
           /\ Append(log, e)[Len(log) + 1] = e
           /\ \A c : At(Append(log, e), c) =
                     At(log, c) \cup (IF e.call = c THEN {Len(log) + 1} ELSE {})
<1> DEFINE long == Append(log, e)
<1>1. /\ long \in Seq(S) /\ Len(long) = Len(log) + 1 /\ Len(log) \in Nat
      /\ long[Len(log) + 1] = e
      /\ \A i \in 1 .. Len(log) : long[i] = log[i]
  BY AppendProperties, LenProperties
<1>2. DOMAIN log = 1 .. Len(log) /\ DOMAIN long = 1 .. Len(log) + 1
  BY <1>1, LenProperties
<1> HIDE DEF long
<1>3. ASSUME NEW c
      PROVE  At(long, c) = At(log, c) \cup (IF e.call = c THEN {Len(log) + 1} ELSE {})
  <2>1. ASSUME NEW i
        PROVE  i \in At(long, c) <=>
                   i \in At(log, c) \cup (IF e.call = c THEN {Len(log) + 1} ELSE {})
    BY <1>1, <1>2 DEF At
  <2> QED
    BY <2>1
<1> QED
  BY <1>1, <1>2, <1>3 DEF long

\* A log speaks of its own positions only.
LEMMA AtIsPosition ==
    ASSUME NEW log, NEW c
    PROVE  At(log, c) \subseteq DOMAIN log /\ \A i \in At(log, c) : log[i].call = c
BY DEF At

\* TypeOK, with the sets of records named.
LEMMA Typed ==
    ASSUME TypeOK
    PROVE  /\ calls \in Seq(CallRecords) /\ Len(calls) \in Nat /\ Ids = 1 .. Len(calls)
           /\ audit \in [Agents -> Seq(Entries(Len(calls)))]
           /\ \A c \in Ids : calls[c] \in CallRecords /\ calls[c].sender \in Agents
<1>1. calls \in Seq(CallRecords)
  BY DEF TypeOK, CallRecords
<1>2. Len(calls) \in Nat /\ Ids = 1 .. Len(calls)
  BY <1>1, LenProperties DEF Ids
<1>3. audit \in [Agents -> Seq(Entries(Len(calls)))]
  BY <1>2 DEF TypeOK, Entries
<1>4. \A c \in Ids : calls[c] \in CallRecords
  BY <1>1, <1>2, ElementOfSeq
<1> QED
  BY <1>1, <1>2, <1>3, <1>4 DEF CallRecords

\* The entries of a shorter list of calls are entries of a longer one.
LEMMA EntriesGrow ==
    ASSUME NEW n \in Nat, NEW log \in Seq(Entries(n))
    PROVE  log \in Seq(Entries(n + 1))
<1>1. Entries(n) \subseteq Entries(n + 1)
  BY DEF Entries
<1>2. /\ Len(log) \in Nat
      /\ \A i \in 1 .. Len(log) : log[i] \in Entries(n)
      /\ log \in [1 .. Len(log) -> Entries(n)]
  BY ElementOfSeq, LenProperties, SeqDef
<1>3. log \in [1 .. Len(log) -> Entries(n + 1)]
  BY <1>1, <1>2
<1> QED
  BY <1>2, <1>3, SeqDef

-------------------------------------------------------------------------------
(***************************************************************************)
(* A call is made                                                          *)
(***************************************************************************)

\* What one more call does to the list of calls, whoever makes it.
LEMMA CallAdded ==
    ASSUME TypeOK, NEW r \in CallRecords, Len(calls) < MaxCalls,
           calls' = Append(calls, r)
    PROVE  /\ calls' \in Seq(CallRecords) /\ Len(calls') = Len(calls) + 1
           /\ Len(calls') <= MaxCalls
           /\ Ids' = Ids \cup {Len(calls) + 1} /\ Len(calls) + 1 \notin Ids
           /\ calls'[Len(calls) + 1] = r
           /\ \A c \in Ids : calls'[c] = calls[c]
<1>1. calls \in Seq(CallRecords) /\ Len(calls) \in Nat /\ Ids = 1 .. Len(calls)
  BY Typed
<1>2. /\ calls' \in Seq(CallRecords) /\ Len(calls') = Len(calls) + 1
      /\ calls'[Len(calls) + 1] = r
      /\ \A c \in 1 .. Len(calls) : calls'[c] = calls[c]
  BY <1>1, AppendProperties
<1>3. Ids' = 1 .. Len(calls')
  BY <1>2, LenProperties DEF Ids
<1>4. Len(calls') <= MaxCalls
  BY <1>1, <1>2, RegistryAssumption
<1> QED
  BY <1>1, <1>2, <1>3, <1>4

-------------------------------------------------------------------------------
(***************************************************************************)
(* What one log says of one call                                           *)
(***************************************************************************)

\* The two entries of a call that is over, and the one of a call that is not.
Told(log, c, state) ==
    IF state \in Statuses
    THEN \E i, j \in At(log, c) :
            /\ At(log, c) = {i, j} /\ i < j
            /\ log[i].event = "dispatch" /\ log[j].event = "reply"
            /\ log[j].decision = "deny"  <=> state \in {"denied", "timeout"}
            /\ log[j].decision = "block" <=> state = "error"
            /\ log[i].decision = "deny" => state = "denied"
    ELSE \E i \in At(log, c) :
            At(log, c) = {i} /\ log[i].event = "dispatch" /\ log[i].decision = "allow"

\* Whatever the log lets through is authorized.
LetThrough(log, c, sender, recipient) ==
    \A i \in At(log, c) :
        log[i].event = "dispatch" /\ log[i].decision = "allow" => Authorized(sender, recipient)

\* The invariants, log by log.
AllTold == \A c \in Ids : Told(audit[calls[c].sender], c, calls[c].state)
AllAuthorized ==
    broker => \A c \in Ids : LetThrough(audit[calls[c].sender], c,
                                        calls[c].sender, calls[c].recipient)

\* The two invariants about the logs speak of one log and one call at a time.
LEMMA LogByLog ==
    /\ TwoEntriesPerHop <=> AllTold
    /\ HandlersAuthorized <=> TypeOK /\ AllAuthorized
BY DEF TwoEntriesPerHop, HandlersAuthorized, AllTold, AllAuthorized, Told, LetThrough, Hop,
       Said, At

\* An entry about another call changes nothing of what is said about this one.
LEMMA OtherCallLogged ==
    ASSUME NEW S, NEW log \in Seq(S), NEW e \in S, NEW c, e.call # c,
           NEW state, NEW s, NEW r
    PROVE  /\ Told(log, c, state) => Told(Append(log, e), c, state)
           /\ LetThrough(log, c, s, r) => LetThrough(Append(log, e), c, s, r)
<1> DEFINE long == Append(log, e)
<1>1. /\ At(long, c) = At(log, c)
      /\ \A i \in DOMAIN log : long[i] = log[i]
  <2>1. At(long, c) = At(log, c) \cup (IF e.call = c THEN {Len(log) + 1} ELSE {})
    BY EntryAppended
  <2>2. At(long, c) = At(log, c) \cup {}
    BY <2>1
  <2> HIDE DEF long
  <2> QED
    BY <2>2, EntryAppended DEF long
<1>2. At(log, c) \subseteq DOMAIN log
  BY AtIsPosition
<1> HIDE DEF long
<1>3. \A i \in At(log, c) : long[i] = log[i]
  BY <1>1, <1>2
<1>4. Told(log, c, state) => Told(long, c, state)
  BY <1>1, <1>3 DEF Told
<1>5. LetThrough(log, c, s, r) => LetThrough(long, c, s, r)
  BY <1>1, <1>3 DEF LetThrough
<1> QED
  BY <1>4, <1>5 DEF long

\* The dispatch of a call that the log does not speak of yet.
LEMMA DispatchLogged ==
    ASSUME NEW S, NEW log \in Seq(S), NEW c, At(log, c) = {},
           CallEntry("dispatch", c, "allow") \in S, NEW s, NEW r
    PROVE  /\ Told(Append(log, CallEntry("dispatch", c, "allow")), c, "running")
           /\ Authorized(s, r) =>
                  LetThrough(Append(log, CallEntry("dispatch", c, "allow")), c, s, r)
<1> DEFINE e == CallEntry("dispatch", c, "allow")
           long == Append(log, e)
<1>1. e.call = c /\ e.event = "dispatch" /\ e.decision = "allow"
  BY DEF CallEntry
<1> HIDE DEF e
<1>2. At(long, c) = {Len(log) + 1} /\ long[Len(log) + 1] = e
  BY <1>1, EntryAppended DEF e
<1> HIDE DEF long
<1>3. Told(long, c, "running")
  BY <1>1, <1>2 DEF Told, Statuses
<1>4. Authorized(s, r) => LetThrough(long, c, s, r)
  BY <1>1, <1>2 DEF LetThrough
<1> QED
  BY <1>3, <1>4 DEF long, e

\* Both entries of a call that is refused.
LEMMA DenialLogged ==
    ASSUME NEW S, NEW log \in Seq(S), NEW c, At(log, c) = {}, NEW s, NEW r,
           CallEntry("dispatch", c, "deny") \in S, CallEntry("reply", c, "deny") \in S
    PROVE  LET long == Append(Append(log, CallEntry("dispatch", c, "deny")),
                              CallEntry("reply", c, "deny"))
           IN  Told(long, c, "denied") /\ LetThrough(long, c, s, r)
<1> DEFINE d == CallEntry("dispatch", c, "deny")
           e == CallEntry("reply", c, "deny")
           mid == Append(log, d)
           long == Append(mid, e)
<1>1. /\ d.call = c /\ d.event = "dispatch" /\ d.decision = "deny"
      /\ e.call = c /\ e.event = "reply" /\ e.decision = "deny"
  BY DEF CallEntry
<1>2. d \in S /\ e \in S
  OBVIOUS
<1> HIDE DEF d, e
<1>3. /\ mid \in Seq(S) /\ At(mid, c) = {Len(log) + 1} /\ mid[Len(log) + 1] = d
      /\ Len(mid) = Len(log) + 1 /\ Len(log) \in Nat
  BY <1>1, <1>2, EntryAppended
<1> HIDE DEF mid
<1>4. /\ At(long, c) = {Len(log) + 1, Len(mid) + 1} /\ long[Len(mid) + 1] = e
      /\ long[Len(log) + 1] = d
  <2>1. /\ At(long, c) = At(mid, c) \cup {Len(mid) + 1}
        /\ long[Len(mid) + 1] = e
        /\ \A i \in DOMAIN mid : long[i] = mid[i]
    BY <1>1, <1>2, <1>3, EntryAppended
  <2>2. Len(log) + 1 \in DOMAIN mid
    BY <1>3, AtIsPosition
  <2> QED
    BY <1>3, <2>1, <2>2
<1> HIDE DEF long
<1>5. Told(long, c, "denied")
  BY <1>1, <1>3, <1>4 DEF Told, Statuses
<1>6. LetThrough(long, c, s, r)
  BY <1>1, <1>4 DEF LetThrough
<1> QED
  BY <1>5, <1>6 DEF long, mid, d, e

\* The reply to a call whose handler runs.
LEMMA ReplyLogged ==
    ASSUME NEW S, NEW log \in Seq(S), NEW c, Told(log, c, "running"),
           NEW status \in Statuses, NEW s, NEW r,
           CallEntry("reply", c, Decision(status)) \in S
    PROVE  LET long == Append(log, CallEntry("reply", c, Decision(status)))
           IN  /\ Told(long, c, status)
               /\ LetThrough(log, c, s, r) => LetThrough(long, c, s, r)
<1> DEFINE e == CallEntry("reply", c, Decision(status))
           long == Append(log, e)
<1>1. e.call = c /\ e.event = "reply" /\ e.decision = Decision(status)
  BY DEF CallEntry
<1>2. e \in S
  OBVIOUS
<1> HIDE DEF e
<1>3. PICK i \in At(log, c) :
          At(log, c) = {i} /\ log[i].event = "dispatch" /\ log[i].decision = "allow"
  BY DEF Told, Statuses
<1>4. /\ At(long, c) = At(log, c) \cup {Len(log) + 1}
      /\ long[Len(log) + 1] = e /\ Len(log) \in Nat
      /\ \A k \in DOMAIN log : long[k] = log[k] /\ k < Len(log) + 1
  BY <1>1, <1>2, EntryAppended
<1>5. i \in DOMAIN log
  BY AtIsPosition
<1> HIDE DEF long
<1>6. At(long, c) = {i, Len(log) + 1} /\ i < Len(log) + 1 /\ long[i] = log[i]
  BY <1>3, <1>4, <1>5
<1>7. /\ Decision(status) = "deny" <=> status \in {"denied", "timeout"}
      /\ Decision(status) = "block" <=> status = "error"
  BY DEF Decision, Statuses
<1>8. Told(long, c, status)
  BY <1>1, <1>3, <1>4, <1>6, <1>7 DEF Told
<1>9. LetThrough(log, c, s, r) => LetThrough(long, c, s, r)
  BY <1>1, <1>3, <1>4, <1>6 DEF LetThrough
<1> QED
  BY <1>8, <1>9 DEF long, e

-------------------------------------------------------------------------------
(***************************************************************************)
(* A call is made, whether it is refused or let through                    *)
(***************************************************************************)

\* One more call, whose entries are the only thing new in its sender's log.
LEMMA NewCallStep ==
    ASSUME IInv, NEW sender \in Agents, NEW recipient \in Agents,
           NEW parent \in Ids \cup {None}, MayCall(sender, parent),
           NEW state \in {"denied", "running"},
           NEW log \in Seq(Entries(Len(calls) + 1)),
           calls' = Append(calls, Call(sender, recipient, parent, state)),
           audit' = [audit EXCEPT ![sender] = log],
           UNCHANGED <<broker, hung>>,
           \A c \in Ids : \A st, s, r :
               /\ Told(audit[sender], c, st) => Told(log, c, st)
               /\ LetThrough(audit[sender], c, s, r) => LetThrough(log, c, s, r),
           Told(log, Len(calls) + 1, state),
           broker => LetThrough(log, Len(calls) + 1, sender, recipient)
    PROVE  IInv'
<1> DEFINE n == Len(calls) + 1
           record == Call(sender, recipient, parent, state)
<1>1. TypeOK
  BY DEF IInv, HandlersAuthorized
<1>2. /\ calls \in Seq(CallRecords) /\ Len(calls) \in Nat /\ Ids = 1 .. Len(calls)
      /\ audit \in [Agents -> Seq(Entries(Len(calls)))]
      /\ \A c \in Ids : calls[c] \in CallRecords /\ calls[c].sender \in Agents
  BY <1>1, Typed
<1>3. /\ record \in CallRecords
      /\ record.sender = sender /\ record.recipient = recipient
      /\ record.parent = parent /\ record.state = state
  <2>1. parent \in Nat \cup {None}
    BY <1>2
  <2> QED
    BY <2>1 DEF Call, CallRecords, Statuses, Unanswered
<1>4. Len(calls) < MaxCalls
  BY <1>2, RegistryAssumption DEF MayCall
<1> HIDE DEF record
<1>5. /\ calls' \in Seq(CallRecords) /\ Len(calls') = n /\ Len(calls') <= MaxCalls
      /\ Ids' = Ids \cup {n} /\ n \notin Ids /\ Ids' = 1 .. n
      /\ calls'[n] = record
      /\ \A c \in Ids : calls'[c] = calls[c]
  <2>1. calls' = Append(calls, record)
    BY DEF record
  <2>2. /\ calls' \in Seq(CallRecords) /\ Len(calls') = n /\ Len(calls') <= MaxCalls
        /\ Ids' = Ids \cup {n} /\ n \notin Ids
        /\ calls'[n] = record
        /\ \A c \in Ids : calls'[c] = calls[c]
    BY <1>1, <1>3, <1>4, <2>1, CallAdded
  <2> QED
    BY <1>2, <2>2
<1>6. /\ audit' \in [Agents -> Seq(Entries(n))] /\ audit'[sender] = log
      /\ \A a \in Agents : a # sender => audit'[a] = audit[a]
  <2>1. \A a \in Agents : audit[a] \in Seq(Entries(n))
    BY <1>2, EntriesGrow
  <2> QED
    BY <1>2, <2>1
<1>7. TypeOK'
  <2>1. audit' \in [Agents -> Seq([event : {"dispatch", "reply"}, call : Ids',
                                   decision : {"allow", "deny", "block"}])]
    BY <1>5, <1>6 DEF Entries
  <2>2. hung' \subseteq Ids'
    BY <1>1, <1>5 DEF TypeOK
  <2>3. broker' \in BOOLEAN
    BY <1>1 DEF TypeOK
  <2> QED
    BY <1>5, <2>1, <2>2, <2>3 DEF TypeOK, CallRecords
<1>8. \A c \in Ids : /\ calls'[c] = calls[c]
                     /\ Told(audit[calls[c].sender], c, calls[c].state) =>
                            Told(audit'[calls[c].sender], c, calls[c].state)
                     /\ LetThrough(audit[calls[c].sender], c, calls[c].sender, calls[c].recipient) =>
                            LetThrough(audit'[calls[c].sender], c, calls[c].sender, calls[c].recipient)
  BY <1>2, <1>5, <1>6
<1>9. TwoEntriesPerHop'
  <2>1. \A c \in Ids : Told(audit[calls[c].sender], c, calls[c].state)
    BY LogByLog DEF IInv, AllTold, AllAuthorized
  <2>2. \A c \in Ids' : Told(audit'[calls'[c].sender], c, calls'[c].state)
    BY <1>3, <1>5, <1>6, <1>8, <2>1
  <2>3. (TwoEntriesPerHop <=> AllTold)'
    BY LogByLog, PTL
  <2> QED
    BY <2>2, <2>3 DEF AllTold, AllAuthorized
<1>10. HandlersAuthorized'
  <2>1. broker => \A c \in Ids : LetThrough(audit[calls[c].sender], c,
                                            calls[c].sender, calls[c].recipient)
    BY LogByLog DEF IInv, AllTold, AllAuthorized
  <2>2. broker => \A c \in Ids' : LetThrough(audit'[calls'[c].sender], c,
                                             calls'[c].sender, calls'[c].recipient)
    BY <1>3, <1>5, <1>6, <1>8, <2>1
  <2>3. (HandlersAuthorized <=> TypeOK /\ AllAuthorized)'
    BY LogByLog, PTL
  <2> QED
    BY <1>7, <2>2, <2>3 DEF AllAuthorized
<1>11. ParentsPrecede'
  <2>1. \A c \in Ids : calls[c].parent = None \/ calls[c].parent \in 1 .. c - 1
    BY DEF IInv, ParentsPrecede
  <2>2. parent = None \/ parent \in 1 .. n - 1
    BY <1>2
  <2>3. \A c \in Ids' : calls'[c].parent = None \/ calls'[c].parent \in 1 .. c - 1
    BY <1>3, <1>5, <2>1, <2>2
  <2> QED
    BY <2>3 DEF ParentsPrecede
<1>12. NothingRunsUnawaited'
  <2>1. ASSUME NEW c \in Ids, calls[c].parent # None
        PROVE  calls[c].parent \in Ids
    BY <1>2, <2>1 DEF IInv, ParentsPrecede
  <2>2. \A c \in Ids : calls[c].state = "running" /\ calls[c].parent # None =>
                           calls[calls[c].parent].state = "running"
    BY DEF IInv, NothingRunsUnawaited
  <2>3. parent # None => parent \in Ids /\ calls[parent].state = "running"
    BY DEF MayCall
  <2>4. \A c \in Ids' : calls'[c].state = "running" /\ calls'[c].parent # None =>
                            calls'[calls'[c].parent].state = "running"
    BY <1>3, <1>5, <2>1, <2>2, <2>3
  <2> QED
    BY <2>4 DEF NothingRunsUnawaited
<1> QED
  BY <1>9, <1>10, <1>11, <1>12 DEF IInv

\* A log does not speak of a call that was not made yet, and stays a log of the
\* longer list of calls.
LEMMA NothingSaidYet ==
    ASSUME TypeOK, NEW a \in Agents
    PROVE  /\ audit[a] \in Seq(Entries(Len(calls) + 1))
           /\ At(audit[a], Len(calls) + 1) = {}
<1>1. audit[a] \in Seq(Entries(Len(calls))) /\ Len(calls) \in Nat
  BY Typed
<1>2. \A i \in DOMAIN audit[a] : audit[a][i] \in Entries(Len(calls))
  BY <1>1, ElementOfSeq, LenProperties
<1>3. \A i \in DOMAIN audit[a] : audit[a][i].call # Len(calls) + 1
  BY <1>1, <1>2 DEF Entries
<1> QED
  BY <1>1, <1>3, EntriesGrow DEF At

\* A refused call keeps the invariant.
LEMMA CallDeniedStep ==
    ASSUME IInv, NEW sender \in Agents, NEW recipient \in Agents,
           NEW parent \in Ids \cup {None}, CallDenied(sender, recipient, parent)
    PROVE  IInv'
<1> DEFINE n == Len(calls) + 1
           d == CallEntry("dispatch", n, "deny")
           e == CallEntry("reply", n, "deny")
           mid == Append(audit[sender], d)
           log == Append(mid, e)
<1>1. TypeOK /\ Len(calls) \in Nat
  BY Typed DEF IInv, HandlersAuthorized
<1>2. d \in Entries(n) /\ e \in Entries(n) /\ d.call = n /\ e.call = n
  BY <1>1 DEF Entries, CallEntry
<1>3. audit[sender] \in Seq(Entries(n)) /\ At(audit[sender], n) = {}
  BY <1>1, NothingSaidYet
<1>4. mid \in Seq(Entries(n)) /\ log \in Seq(Entries(n))
  BY <1>2, <1>3, EntryAppended
<1>5. audit[sender] \o <<d, e>> = log
  BY <1>2, <1>3
<1>6. \A st, s, r : \A c \in Ids :
          /\ Told(audit[sender], c, st) => Told(log, c, st)
          /\ LetThrough(audit[sender], c, s, r) => LetThrough(log, c, s, r)
  <2>1. SUFFICES ASSUME NEW st, NEW s, NEW r, NEW c \in Ids
        PROVE  /\ Told(audit[sender], c, st) => Told(log, c, st)
               /\ LetThrough(audit[sender], c, s, r) => LetThrough(log, c, s, r)
    OBVIOUS
  <2>2. d.call # c /\ e.call # c
    BY <1>1, <1>2, Typed
  <2> HIDE DEF d, e, mid
  <2>3. /\ Told(audit[sender], c, st) => Told(mid, c, st)
        /\ LetThrough(audit[sender], c, s, r) => LetThrough(mid, c, s, r)
    BY <1>2, <1>3, <2>2, OtherCallLogged DEF mid
  <2>4. /\ Told(mid, c, st) => Told(log, c, st)
        /\ LetThrough(mid, c, s, r) => LetThrough(log, c, s, r)
    BY <1>2, <1>4, <2>2, OtherCallLogged
  <2> QED
    BY <2>3, <2>4
<1>7. Told(log, n, "denied") /\ LetThrough(log, n, sender, recipient)
  BY <1>2, <1>3, DenialLogged
<1>8. /\ calls' = Append(calls, Call(sender, recipient, parent, "denied"))
      /\ audit' = [audit EXCEPT ![sender] = log]
      /\ UNCHANGED <<broker, hung>> /\ MayCall(sender, parent)
  BY <1>5 DEF CallDenied
<1> HIDE DEF log
<1> QED
  BY <1>4, <1>6, <1>7, <1>8, NewCallStep

\* A call that is let through keeps the invariant: behind the broker its sender
\* is authorized.
LEMMA CallDispatchedStep ==
    ASSUME IInv, NEW sender \in Agents, NEW recipient \in Agents,
           NEW parent \in Ids \cup {None}, CallDispatched(sender, recipient, parent)
    PROVE  IInv'
<1> DEFINE n == Len(calls) + 1
           d == CallEntry("dispatch", n, "allow")
           log == Append(audit[sender], d)
<1>1. TypeOK /\ Len(calls) \in Nat
  BY Typed DEF IInv, HandlersAuthorized
<1>2. d \in Entries(n) /\ d.call = n
  BY <1>1 DEF Entries, CallEntry
<1>3. audit[sender] \in Seq(Entries(n)) /\ At(audit[sender], n) = {}
  BY <1>1, NothingSaidYet
<1>4. log \in Seq(Entries(n))
  BY <1>2, <1>3, EntryAppended
<1>5. \A st, s, r : \A c \in Ids :
          /\ Told(audit[sender], c, st) => Told(log, c, st)
          /\ LetThrough(audit[sender], c, s, r) => LetThrough(log, c, s, r)
  <2>1. \A c \in Ids : d.call # c
    BY <1>1, <1>2, Typed
  <2> HIDE DEF d
  <2> QED
    BY <1>2, <1>3, <2>1, OtherCallLogged
<1>6. broker => Authorized(sender, recipient)
  BY DEF CallDispatched, Permitted
<1>7. Told(log, n, "running") /\ (broker => LetThrough(log, n, sender, recipient))
  BY <1>2, <1>3, <1>6, DispatchLogged
<1>8. /\ calls' = Append(calls, Call(sender, recipient, parent, "running"))
      /\ audit' = [audit EXCEPT ![sender] = log]
      /\ UNCHANGED <<broker, hung>> /\ MayCall(sender, parent)
  BY DEF CallDispatched
<1> HIDE DEF log
<1> QED
  BY <1>4, <1>5, <1>7, <1>8, NewCallStep

-------------------------------------------------------------------------------
(***************************************************************************)
(* A call comes to its end                                                 *)
(***************************************************************************)

\* What keeps the type invariant when a call only changes its state.
LEMMA StatesChanged ==
    ASSUME TypeOK, DOMAIN calls' = Ids, UNCHANGED <<broker, hung>>,
           \A c \in Ids : calls'[c] \in CallRecords,
           audit' \in [Agents -> Seq(Entries(Len(calls)))],
           calls' = [c \in Ids |-> calls'[c]]
    PROVE  TypeOK' /\ Ids' = Ids
<1>1. Len(calls) \in Nat /\ Ids = 1 .. Len(calls)
  BY Typed
<1>2. calls' \in Seq(CallRecords) /\ Len(calls') = Len(calls)
  <2>1. calls' \in [1 .. Len(calls) -> CallRecords]
    BY <1>1
  <2>2. calls' \in Seq(CallRecords)
    BY <1>1, <2>1, SeqDef
  <2> QED
    BY <1>1, <2>2, LenProperties
<1>3. Ids' = Ids
  BY DEF Ids
<1> QED
  BY <1>1, <1>2, <1>3 DEF TypeOK, CallRecords, Entries

\* The handler of a running call is over and its reply is logged: that call is
\* answered, and no call it was waiting for goes on.
LEMMA AnsweredStep ==
    ASSUME IInv, NEW c \in Ids, MayFinish(c), NEW status \in Statuses, Answered(c, status)
    PROVE  IInv'
<1> DEFINE e == CallEntry("reply", c, Decision(status))
           sender == calls[c].sender
           log == Append(audit[sender], e)
<1>1. TypeOK
  BY DEF IInv, HandlersAuthorized
<1>2. /\ calls \in Seq(CallRecords) /\ Len(calls) \in Nat /\ Ids = 1 .. Len(calls)
      /\ audit \in [Agents -> Seq(Entries(Len(calls)))]
      /\ \A d \in Ids : calls[d] \in CallRecords /\ calls[d].sender \in Agents
  BY <1>1, Typed
<1>3. Decision(status) \in {"allow", "deny", "block"}
  <2>1. status = "ok" \/ status = "error" \/ status = "denied" \/ status = "timeout"
    BY DEF Statuses
  <2> QED
    BY <2>1 DEF Decision
<1>4. e \in Entries(Len(calls)) /\ e.call = c
  BY <1>2, <1>3 DEF Entries, CallEntry
<1>5. sender \in Agents /\ audit[sender] \in Seq(Entries(Len(calls)))
  BY <1>2
<1>6. log \in Seq(Entries(Len(calls)))
  BY <1>4, <1>5, EntryAppended
<1>7. /\ calls' = [calls EXCEPT ![c].state = status]
      /\ audit' = [audit EXCEPT ![sender] = log]
      /\ UNCHANGED <<broker, hung>>
  BY DEF Answered
<1> HIDE DEF e, log
<1>8. /\ DOMAIN calls' = Ids /\ calls' = [d \in Ids |-> calls'[d]]
      /\ \A d \in Ids : d # c => calls'[d] = calls[d]
      /\ calls'[c] = [calls[c] EXCEPT !.state = status]
  BY <1>2, <1>7 DEF Ids
<1>9. /\ \A d \in Ids : /\ calls'[d] \in CallRecords /\ calls'[d].sender = calls[d].sender
                        /\ calls'[d].recipient = calls[d].recipient
                        /\ calls'[d].parent = calls[d].parent
                        /\ d # c => calls'[d].state = calls[d].state
      /\ calls'[c].state = status
  <2>1. calls[c] \in CallRecords
    BY <1>2
  <2>2. /\ calls'[c] \in CallRecords /\ calls'[c].sender = calls[c].sender
        /\ calls'[c].recipient = calls[c].recipient
        /\ calls'[c].parent = calls[c].parent /\ calls'[c].state = status
    BY <1>8, <2>1 DEF CallRecords
  <2> QED
    BY <1>2, <1>8, <2>2
<1>10. /\ audit' \in [Agents -> Seq(Entries(Len(calls)))] /\ audit'[sender] = log
       /\ \A a \in Agents : a # sender => audit'[a] = audit[a]
  BY <1>2, <1>5, <1>6, <1>7
<1>11. TypeOK' /\ Ids' = Ids
  BY <1>1, <1>7, <1>8, <1>9, <1>10, StatesChanged
<1>12. calls[c].state = "running" /\ ~ Waiting(c)
  BY DEF MayFinish
<1>13. ASSUME NEW d \in Ids
       PROVE  /\ Told(audit[calls[d].sender], d, calls[d].state) =>
                     Told(audit'[calls[d].sender], d, calls'[d].state)
              /\ LetThrough(audit[calls[d].sender], d, calls[d].sender, calls[d].recipient) =>
                     LetThrough(audit'[calls[d].sender], d, calls[d].sender, calls[d].recipient)
  <2>1. CASE d = c
    <3>1. Told(audit[sender], c, "running") =>
              /\ Told(log, c, status)
              /\ LetThrough(audit[sender], c, sender, calls[c].recipient) =>
                     LetThrough(log, c, sender, calls[c].recipient)
      BY <1>4, <1>5, ReplyLogged DEF e, log
    <3>2. Told(audit[calls[c].sender], c, calls[c].state)
      BY LogByLog DEF IInv, AllTold, AllAuthorized
    <3> QED
      BY <1>9, <1>10, <1>12, <2>1, <3>1, <3>2
  <2>2. CASE d # c /\ calls[d].sender = sender
    <3>1. \A st, s, r : /\ Told(audit[sender], d, st) => Told(log, d, st)
                        /\ LetThrough(audit[sender], d, s, r) => LetThrough(log, d, s, r)
      BY <1>4, <1>5, <2>2, OtherCallLogged DEF log
    <3> QED
      BY <1>9, <1>10, <2>2, <3>1
  <2>3. CASE d # c /\ calls[d].sender # sender
    BY <1>2, <1>9, <1>10, <2>3
  <2> QED
    BY <2>1, <2>2, <2>3
<1>14. TwoEntriesPerHop'
  <2>1. \A d \in Ids : Told(audit[calls[d].sender], d, calls[d].state)
    BY LogByLog DEF IInv, AllTold, AllAuthorized
  <2>2. \A d \in Ids' : Told(audit'[calls'[d].sender], d, calls'[d].state)
    BY <1>9, <1>11, <1>13, <2>1
  <2>3. (TwoEntriesPerHop <=> AllTold)'
    BY LogByLog, PTL
  <2> QED
    BY <2>2, <2>3 DEF AllTold, AllAuthorized
<1>15. HandlersAuthorized'
  <2>1. broker => \A d \in Ids : LetThrough(audit[calls[d].sender], d,
                                            calls[d].sender, calls[d].recipient)
    BY LogByLog DEF IInv, AllTold, AllAuthorized
  <2>2. broker' => \A d \in Ids' : LetThrough(audit'[calls'[d].sender], d,
                                              calls'[d].sender, calls'[d].recipient)
    BY <1>7, <1>9, <1>11, <1>13, <2>1
  <2>3. (HandlersAuthorized <=> TypeOK /\ AllAuthorized)'
    BY LogByLog, PTL
  <2> QED
    BY <1>11, <2>2, <2>3 DEF AllAuthorized
<1>16. ParentsPrecede'
  BY <1>9, <1>11 DEF IInv, ParentsPrecede
<1>17. NothingRunsUnawaited'
  <2>1. ASSUME NEW d \in Ids, calls'[d].state = "running", calls'[d].parent # None
        PROVE  calls'[calls'[d].parent].state = "running"
    <3>1. d # c
      BY <1>9, <2>1 DEF Statuses
    <3>2. /\ calls[d].state = "running" /\ calls[d].parent # None
          /\ calls'[d].parent = calls[d].parent
      BY <1>9, <2>1, <3>1
    <3>3. calls[d].parent \in Ids /\ calls[calls[d].parent].state = "running"
      BY <1>2, <3>2 DEF IInv, ParentsPrecede, NothingRunsUnawaited
    <3>4. calls[d].parent # c
      BY <1>12, <3>2 DEF Waiting
    <3> QED
      BY <1>9, <3>2, <3>3, <3>4
  <2> QED
    BY <1>11, <2>1 DEF NothingRunsUnawaited
<1> QED
  BY <1>14, <1>15, <1>16, <1>17 DEF IInv

\* The result of a handler breaks its call off: the log keeps the dispatch alone, and no
\* call the handler made goes on.
LEMMA BreaksStep ==
    ASSUME IInv, NEW c \in Ids, HandlerBreaks(c)
    PROVE  IInv'
<1>1. TypeOK
  BY DEF IInv, HandlersAuthorized
<1>2. /\ Ids = 1 .. Len(calls) /\ Len(calls) \in Nat
      /\ audit \in [Agents -> Seq(Entries(Len(calls)))]
      /\ \A d \in Ids : calls[d] \in CallRecords /\ calls[d].sender \in Agents
  BY <1>1, Typed
<1>3. /\ calls[c].state = "running" /\ ~Waiting(c)
      /\ calls' = [calls EXCEPT ![c].state = "broken"]
      /\ UNCHANGED <<broker, hung, audit>>
  BY DEF HandlerBreaks, MayFinish
<1>4. /\ DOMAIN calls' = Ids /\ calls' = [d \in Ids |-> calls'[d]]
      /\ \A d \in Ids : d # c => calls'[d] = calls[d]
      /\ calls'[c] = [calls[c] EXCEPT !.state = "broken"]
  BY <1>2, <1>3 DEF Ids
<1>5. /\ \A d \in Ids : /\ calls'[d] \in CallRecords /\ calls'[d].sender = calls[d].sender
                        /\ calls'[d].recipient = calls[d].recipient
                        /\ calls'[d].parent = calls[d].parent
                        /\ d # c => calls'[d].state = calls[d].state
      /\ calls'[c].state = "broken"
  <2>1. calls[c] \in CallRecords
    BY <1>2
  <2>2. /\ calls'[c] \in CallRecords /\ calls'[c].sender = calls[c].sender
        /\ calls'[c].recipient = calls[c].recipient
        /\ calls'[c].parent = calls[c].parent /\ calls'[c].state = "broken"
    BY <1>4, <2>1 DEF CallRecords, Unanswered
  <2> QED
    BY <1>2, <1>4, <2>2
<1>6. TypeOK' /\ Ids' = Ids
  <2>1. audit' \in [Agents -> Seq(Entries(Len(calls)))]
    BY <1>2, <1>3
  <2>2. \A d \in Ids : calls'[d] \in CallRecords
    BY <1>5
  <2> QED
    BY <1>1, <1>3, <1>4, <2>1, <2>2, StatesChanged
<1>7. \A d \in Ids : Told(audit[calls[d].sender], d, calls[d].state) =>
                         Told(audit[calls[d].sender], d, calls'[d].state)
  <2>1. \A log, d : Told(log, d, "running") => Told(log, d, "broken")
    BY DEF Told, Statuses
  <2> QED
    BY <1>3, <1>5, <2>1
<1>8. AllTold' /\ AllAuthorized'
  <2>1. AllTold /\ AllAuthorized
    BY LogByLog DEF IInv
  <2>2. AllTold'
    BY <1>3, <1>5, <1>6, <1>7, <2>1 DEF AllTold
  <2>3. AllAuthorized'
    BY <1>3, <1>5, <1>6, <2>1 DEF AllAuthorized
  <2> QED
    BY <2>2, <2>3
<1>9. TwoEntriesPerHop' /\ HandlersAuthorized'
  <2>1. (TwoEntriesPerHop <=> AllTold)' /\ (HandlersAuthorized <=> TypeOK /\ AllAuthorized)'
    BY LogByLog, PTL
  <2> QED
    BY <1>6, <1>8, <2>1
<1>10. ParentsPrecede'
  BY <1>5, <1>6 DEF IInv, ParentsPrecede
<1>11. NothingRunsUnawaited'
  <2>1. ASSUME NEW d \in Ids, calls'[d].state = "running", calls'[d].parent # None
        PROVE  calls'[calls'[d].parent].state = "running"
    <3>1. /\ calls[d].state = "running" /\ calls[d].parent # None
          /\ calls'[d].parent = calls[d].parent
      BY <1>5, <2>1
    <3>2. calls[d].parent \in Ids /\ calls[calls[d].parent].state = "running"
      BY <1>2, <3>1 DEF IInv, ParentsPrecede, NothingRunsUnawaited
    <3>3. calls[d].parent # c
      BY <1>3, <3>1 DEF Waiting
    <3> QED
      BY <1>5, <3>1, <3>2, <3>3
  <2> QED
    BY <1>6, <2>1 DEF NothingRunsUnawaited
<1> QED
  BY <1>9, <1>10, <1>11 DEF IInv

\* A handler that hangs changes nothing the invariant speaks of.
LEMMA HangsStep ==
    ASSUME IInv, NEW c \in Ids, HandlerHangs(c)
    PROVE  IInv'
<1>1. UNCHANGED <<broker, calls, audit>> /\ hung' = hung \cup {c}
  BY DEF HandlerHangs
<1>2. TypeOK' /\ Ids' = Ids
  BY <1>1 DEF IInv, HandlersAuthorized, TypeOK, Ids
<1>3. UNCHANGED <<AllTold, AllAuthorized>>
  BY <1>1 DEF AllTold, AllAuthorized, Ids
<1>4. (TwoEntriesPerHop <=> AllTold)' /\ (HandlersAuthorized <=> TypeOK /\ AllAuthorized)'
  BY LogByLog, PTL
<1>5. TwoEntriesPerHop' /\ HandlersAuthorized'
  BY <1>2, <1>3, <1>4, LogByLog DEF IInv
<1>6. ParentsPrecede' /\ NothingRunsUnawaited'
  BY <1>1 DEF IInv, ParentsPrecede, NothingRunsUnawaited, Ids
<1> QED
  BY <1>5, <1>6 DEF IInv

-------------------------------------------------------------------------------
(***************************************************************************)
(* A conversation is cancelled                                             *)
(***************************************************************************)

\* The walk to the first call of a conversation ends: a call comes after the one
\* whose handler makes it, so the recursion of Root is well founded.  (The first
\* call at which no such function existed would be one past those it exists for.)
LEMMA RootUnfolds ==
    ASSUME IInv
    PROVE  Root = [c \in Ids |-> IF calls[c].parent = None THEN c ELSE Root[calls[c].parent]]
<1> DEFINE Fits(f, n) ==
               f = [c \in 1 .. n |-> IF calls[c].parent = None THEN c ELSE f[calls[c].parent]]
           N == Len(calls)
           Bad == {n \in 1 .. N : ~ \E f : Fits(f, n)}
<1>1. N \in Nat /\ Ids = 1 .. N
  BY Typed DEF IInv, HandlersAuthorized
<1>2. \A c \in Ids : calls[c].parent # None => calls[c].parent \in 1 .. c - 1
  BY DEF IInv, ParentsPrecede
<1>3. \E f : Fits(f, 0)
  <2>1. Fits([c \in 1 .. 0 |-> c], 0)
    OBVIOUS
  <2> QED
    BY <2>1
<1> HIDE DEF N
<1>4. ASSUME Bad # {}
      PROVE  FALSE
  <2>1. PICK m \in Bad : \A k \in Bad : m <= k
    <3>1. Bad \in SUBSET (1 .. N)
      OBVIOUS
    <3> HIDE DEF Bad
    <3> QED
      BY <1>1, <1>4, <3>1, FirstPosition
  <2>2. m \in 1 .. N /\ ~ \E f : Fits(f, m)
    OBVIOUS
  <2>3. \E f : Fits(f, m - 1)
    <3>1. CASE m = 1
      BY <1>3, <3>1
    <3>2. CASE m # 1
      <4>1. m - 1 \in 1 .. N /\ m - 1 \notin Bad
        BY <1>1, <2>1, <2>2, <3>2
      <4> QED
        BY <4>1
    <3> QED
      BY <3>1, <3>2
  <2> HIDE DEF Bad
  <2>4. PICK f : Fits(f, m - 1)
    BY <2>3
  <2> DEFINE p(c) == calls[c].parent
             g == [c \in 1 .. m |-> IF c \in 1 .. m - 1 THEN f[c]
                                    ELSE IF p(c) = None THEN c ELSE f[p(c)]]
             h == [c \in 1 .. m |-> IF p(c) = None THEN c ELSE g[p(c)]]
  <2>5. ASSUME NEW c \in 1 .. m
        PROVE  g[c] = h[c]
    <3>1. p(c) # None => p(c) \in 1 .. c - 1
      BY <1>1, <1>2, <2>2
    <3>2. p(c) # None => p(c) \in 1 .. m - 1 /\ p(c) \in 1 .. m
      BY <1>1, <2>2, <3>1
    <3>3. p(c) # None => g[p(c)] = f[p(c)]
      BY <3>2
    <3>4. c \in 1 .. m - 1 => f[c] = IF p(c) = None THEN c ELSE f[p(c)]
      BY <2>4
    <3> QED
      BY <3>3, <3>4
  <2>6. g = h
    BY <2>5
  <2>7. Fits(g, m)
    BY <2>6
  <2> QED
    BY <2>2, <2>7
<1>5. \E f : Fits(f, N)
  <2>1. CASE N = 0
    BY <1>3, <2>1
  <2>2. CASE N # 0
    BY <1>1, <1>4, <2>2
  <2> QED
    BY <2>1, <2>2
<1>6. \E f : f = [c \in Ids |-> IF calls[c].parent = None THEN c ELSE f[calls[c].parent]]
  BY <1>1, <1>5
<1> QED
  BY <1>6 DEF Root

\* Cancelling a conversation ends a call only together with every call it waits
\* for: a call has the root of the call whose handler made it.
LEMMA CancelledStep ==
    ASSUME IInv, NEW root \in Ids, Cancelled(root)
    PROVE  IInv'
<1>1. TypeOK
  BY DEF IInv, HandlersAuthorized
<1>2. /\ Ids = 1 .. Len(calls) /\ Len(calls) \in Nat
      /\ audit \in [Agents -> Seq(Entries(Len(calls)))]
      /\ \A c \in Ids : calls[c] \in CallRecords /\ calls[c].sender \in Agents
  BY <1>1, Typed
<1> DEFINE Ends(c) == Root[c] = root /\ calls[c].state = "running"
<1>3. /\ UNCHANGED <<broker, hung, audit>>
      /\ calls' = [c \in Ids |-> IF Ends(c) THEN [calls[c] EXCEPT !.state = "cancelled"]
                                 ELSE calls[c]]
  BY DEF Cancelled
<1> HIDE DEF Ends
<1>4. /\ DOMAIN calls' = Ids /\ calls' = [c \in Ids |-> calls'[c]]
      /\ \A c \in Ids : calls'[c] = IF Ends(c) THEN [calls[c] EXCEPT !.state = "cancelled"]
                                    ELSE calls[c]
  BY <1>3
<1>5. \A c \in Ids :
          /\ calls'[c] \in CallRecords /\ calls'[c].sender = calls[c].sender
          /\ calls'[c].recipient = calls[c].recipient
          /\ calls'[c].parent = calls[c].parent
          /\ calls'[c].state = IF Ends(c) THEN "cancelled" ELSE calls[c].state
  <2>1. SUFFICES ASSUME NEW c \in Ids
        PROVE  /\ calls'[c] \in CallRecords /\ calls'[c].sender = calls[c].sender
               /\ calls'[c].recipient = calls[c].recipient
               /\ calls'[c].parent = calls[c].parent
               /\ calls'[c].state = IF Ends(c) THEN "cancelled" ELSE calls[c].state
    OBVIOUS
  <2>2. calls[c] \in CallRecords
    BY <1>2
  <2>3. calls'[c] = IF Ends(c) THEN [calls[c] EXCEPT !.state = "cancelled"] ELSE calls[c]
    BY <1>4
  <2> QED
    BY <2>2, <2>3 DEF CallRecords, Unanswered
<1>6. TypeOK' /\ Ids' = Ids
  <2>1. audit' \in [Agents -> Seq(Entries(Len(calls)))]
    BY <1>2, <1>3
  <2>2. \A c \in Ids : calls'[c] \in CallRecords
    BY <1>5
  <2> QED
    BY <1>1, <1>3, <1>4, <2>1, <2>2, StatesChanged
<1>7. \A c \in Ids : Told(audit[calls[c].sender], c, calls[c].state) =>
                         Told(audit[calls[c].sender], c, calls'[c].state)
  <2>1. ASSUME NEW c \in Ids, Ends(c)
        PROVE  calls[c].state = "running" /\ calls'[c].state = "cancelled"
    BY <1>5, <2>1 DEF Ends
  <2>2. \A log, c : Told(log, c, "running") => Told(log, c, "cancelled")
    BY DEF Told, Statuses
  <2> QED
    BY <1>5, <2>1, <2>2
<1>8. AllTold' /\ AllAuthorized'
  <2>1. AllTold /\ AllAuthorized
    BY LogByLog DEF IInv
  <2>2. AllTold'
    BY <1>3, <1>5, <1>6, <1>7, <2>1 DEF AllTold
  <2>3. AllAuthorized'
    BY <1>3, <1>5, <1>6, <2>1 DEF AllAuthorized
  <2> QED
    BY <2>2, <2>3
<1>9. TwoEntriesPerHop' /\ HandlersAuthorized'
  <2>1. (TwoEntriesPerHop <=> AllTold)' /\ (HandlersAuthorized <=> TypeOK /\ AllAuthorized)'
    BY LogByLog, PTL
  <2> QED
    BY <1>6, <1>8, <2>1
<1>10. ParentsPrecede'
  BY <1>5, <1>6 DEF IInv, ParentsPrecede
<1>11. NothingRunsUnawaited'
  <2>1. ASSUME NEW c \in Ids, calls'[c].state = "running", calls'[c].parent # None
        PROVE  calls'[calls'[c].parent].state = "running"
    <3>1. /\ ~ Ends(c) /\ calls[c].state = "running" /\ calls[c].parent # None
          /\ calls'[c].parent = calls[c].parent
      BY <1>5, <2>1
    <3>2. calls[c].parent \in Ids /\ calls[calls[c].parent].state = "running"
      BY <1>2, <3>1 DEF IInv, ParentsPrecede, NothingRunsUnawaited
    <3>3. Root[c] = Root[calls[c].parent]
      BY <3>1, RootUnfolds
    <3>4. ~ Ends(calls[c].parent)
      BY <3>1, <3>3 DEF Ends
    <3> QED
      BY <1>5, <3>1, <3>2, <3>4
  <2> QED
    BY <1>6, <2>1 DEF NothingRunsUnawaited
<1> QED
  BY <1>9, <1>10, <1>11 DEF IInv

-------------------------------------------------------------------------------
(***************************************************************************)
(* The theorem                                                             *)
(***************************************************************************)

\* Every step keeps the invariant.
LEMMA StepKeepsIInv ==
    ASSUME IInv, [Next]_vars
    PROVE  IInv'
<1>1. CASE NewCall
  <2>1. PICK sender \in Agents, recipient \in Agents, parent \in Ids \cup {None} :
            CallDenied(sender, recipient, parent) \/ CallDispatched(sender, recipient, parent)
    BY <1>1 DEF NewCall
  <2> QED
    BY <2>1, CallDeniedStep, CallDispatchedStep
<1>2. ASSUME NEW c \in Ids, HandlerReplies(c)
      PROVE  IInv'
  BY <1>2, AnsweredStep DEF HandlerReplies
<1>3. ASSUME NEW c \in Ids, HandlerRaises(c)
      PROVE  IInv'
  <2>1. "error" \in Statuses
    BY DEF Statuses
  <2> QED
    BY <1>3, <2>1, AnsweredStep DEF HandlerRaises
<1>4. ASSUME NEW c \in Ids, HandlerHangs(c)
      PROVE  IInv'
  BY <1>4, HangsStep
<1>5. ASSUME NEW c \in Ids, Cancelled(c)
      PROVE  IInv'
  BY <1>5, CancelledStep
<1>7. ASSUME NEW c \in Ids, HandlerBreaks(c)
      PROVE  IInv'
  BY <1>7, BreaksStep
<1>6. CASE UNCHANGED vars
  <2>1. UNCHANGED <<broker, calls, hung, audit>>
    BY <1>6 DEF vars
  <2>2. TypeOK' /\ AllTold' /\ AllAuthorized'
    BY <2>1, LogByLog DEF IInv, TypeOK, AllTold, AllAuthorized, Ids
  <2>3. (TwoEntriesPerHop <=> AllTold)' /\ (HandlersAuthorized <=> TypeOK /\ AllAuthorized)'
    BY LogByLog, PTL
  <2>4. ParentsPrecede' /\ NothingRunsUnawaited'
    BY <2>1 DEF IInv, ParentsPrecede, NothingRunsUnawaited, Ids
  <2> QED
    BY <2>2, <2>3, <2>4 DEF IInv
<1> QED
  BY <1>1, <1>2, <1>3, <1>4, <1>5, <1>6, <1>7 DEF Next

\* The invariant holds initially, when no call was made.
LEMMA InitIInv == Init => IInv
<1> SUFFICES ASSUME Init PROVE IInv
  OBVIOUS
<1>1. calls = << >> /\ hung = {} /\ broker \in BOOLEAN /\ audit = [a \in Agents |-> << >>]
  BY DEF Init
<1>2. Ids = {} /\ Len(calls) = 0
  <2>1. DOMAIN calls = 1 .. Len(calls) /\ Len(calls) = 0
    BY <1>1, EmptySeq, LenProperties
  <2> QED
    BY <2>1 DEF Ids
<1>3. TypeOK
  <2>1. calls \in Seq([sender : Agents, recipient : Agents, parent : Nat \cup {None},
                       state : Statuses \cup Unanswered])
    BY <1>1, EmptySeq
  <2>2. \A a \in Agents : audit[a] \in Seq([event : {"dispatch", "reply"}, call : Ids,
                                            decision : {"allow", "deny", "block"}])
    BY <1>1, EmptySeq
  <2>3. Len(calls) <= MaxCalls
    BY <1>2, RegistryAssumption
  <2> QED
    BY <1>1, <1>2, <2>1, <2>2, <2>3 DEF TypeOK
<1> QED
  BY <1>2, <1>3 DEF IInv, HandlersAuthorized, TwoEntriesPerHop, ParentsPrecede,
                    NothingRunsUnawaited

\* The invariant of the dispatcher.
LEMMA DispatchInvariant == Spec => []IInv
<1>1. IInv /\ [Next]_vars => IInv'
  BY StepKeepsIInv
<1> QED
  BY <1>1, InitIInv, PTL DEF Spec

\* With the broker set no list a sender passes starts a handler the registry does
\* not allow, along every chain of nested calls of any length; and the state
\* stays well typed.
THEOREM AuthorizedHandlers == Spec => []HandlersAuthorized
<1>1. IInv => HandlersAuthorized
  BY DEF IInv
<1> QED
  BY <1>1, DispatchInvariant, PTL

\* Every call answered with any status left its dispatch and its reply in its sender's
\* log and nothing else, however the entries of other calls interleave with them; a call
\* that is cancelled, or breaks on what its handler returned, left its dispatch alone.
THEOREM EveryHopLoggedTwice == Spec => []TwoEntriesPerHop
<1>1. IInv => TwoEntriesPerHop
  BY DEF IInv
<1> QED
  BY <1>1, DispatchInvariant, PTL

\* No handler goes on once the call that awaits it is answered, has raised or was
\* cancelled, however deep the conversation that is cancelled.
THEOREM HandlersAreAwaited == Spec => []NothingRunsUnawaited
<1>1. IInv => NothingRunsUnawaited
  BY DEF IInv
<1> QED
  BY <1>1, DispatchInvariant, PTL

-------------------------------------------------------------------------------
(***************************************************************************)
(* The baseline of one access more                                         *)
(***************************************************************************)

\* A nonempty set of sensitivities has a maximum.
LEMMA MaxOfLevels ==
    ASSUME NEW S, S \subseteq Levels, S # {}
    PROVE  Max(S) \in S /\ \A y \in S : Max(S) >= y
<1>1. \E x \in S : \A y \in S : x >= y
    <2>1. PICK y \in S : TRUE OBVIOUS
    <2>2. \A x \in Levels : x \in 0 .. 4 BY DEF Levels
    <2>3. CASE 4 \in S BY <2>2, <2>3
    <2>4. CASE 4 \notin S /\ 3 \in S BY <2>2, <2>4
    <2>5. CASE 4 \notin S /\ 3 \notin S /\ 2 \in S BY <2>2, <2>5
    <2>6. CASE 4 \notin S /\ 3 \notin S /\ 2 \notin S /\ 1 \in S BY <2>2, <2>6
    <2>7. CASE 4 \notin S /\ 3 \notin S /\ 2 \notin S /\ 1 \notin S BY <2>1, <2>2, <2>7
    <2> QED BY <2>3, <2>4, <2>5, <2>6, <2>7
<1> QED BY <1>1 DEF Max

\* The maximum of one sensitivity more is the greater one of the two.
LEMMA MaxOfOneMore ==
    ASSUME NEW S, S \subseteq Levels, S # {}, NEW x \in Levels
    PROVE  Max(S \cup {x}) = IF x > Max(S) THEN x ELSE Max(S)
<1>1. Max(S) \in S /\ \A y \in S : Max(S) >= y BY MaxOfLevels
<1>2. Max(S \cup {x}) \in S \cup {x} /\ \A y \in S \cup {x} : Max(S \cup {x}) >= y
    <2>1. S \cup {x} \subseteq Levels /\ S \cup {x} # {} OBVIOUS
    <2> QED BY <2>1, MaxOfLevels
<1>3. Levels \subseteq Nat BY DEF Levels
<1> DEFINE m == Max(S)
           m2 == Max(S \cup {x})
<1>4. m \in Nat /\ m2 \in Nat /\ m2 >= x /\ m2 >= m BY <1>1, <1>2, <1>3
<1>5. m2 = x \/ m >= m2 BY <1>1, <1>2
<1> HIDE DEF m, m2
<1>6. x \in Nat BY <1>3
<1>7. m2 = IF x > m THEN x ELSE m BY <1>4, <1>5, <1>6
<1> QED BY <1>7 DEF m, m2

\* Positions of one access more: the count of those with some property grows by one if
\* the new one has it.
LEMMA CountOfOneMore ==
    ASSUME NEW n \in Nat, NEW S, S \subseteq 1 .. n
    PROVE  Cardinality(S) \in Nat /\ Cardinality(S \cup {n + 1}) = Cardinality(S) + 1
<1>1. IsFiniteSet(S)
    <2>1. IsFiniteSet(1 .. n) BY FS_Interval
    <2> QED BY <2>1, FS_Subset
<1>2. n + 1 \notin S OBVIOUS
<1> QED BY <1>1, <1>2, FS_AddElement, FS_CardinalityType

\* The baseline of an agent that has done nothing is the one it starts with.
LEMMA NothingIsFresh == BaselineOf(<< >>) = Fresh
<1> DEFINE s == << >>
<1>1. Len(s) = 0 /\ 1 .. 0 = {} OBVIOUS
<1>2. (IF 0 > Window THEN Window ELSE 0) = 0 BY ConfigAssumption
<1>3. [i \in 1 .. 0 |-> s[0 - 0 + i].columns_read] = << >> OBVIOUS
<1>4. \A t \in Tables : {i \in 1 .. 0 : s[i].table = t} = {} OBVIOUS
<1>5. {i \in 1 .. 0 : s[i].denied} = {} OBVIOUS
<1>6. {s[i].sensitivity : i \in 1 .. 0} \cup {0} = {0} OBVIOUS
<1>7. Max({0}) = 0 BY MaxOfLevels DEF Levels
<1>8. Cardinality({}) = 0 BY FS_EmptySet
<1>9. [t \in Tables |-> Cardinality({i \in 1 .. 0 : s[i].table = t})] = [t \in Tables |-> 0]
    BY <1>4, <1>8
<1> HIDE DEF s
<1> QED BY <1>1, <1>2, <1>3, <1>5, <1>6, <1>7, <1>8, <1>9 DEF BaselineOf, Fresh, s

\* What baselines are made of.
LEMMA BaselineOfType ==
    ASSUME NEW s \in Seq(Accesses)
    PROVE  BaselineOf(s) \in Baselines
<1> DEFINE n == Len(s)
           kept == IF n > Window THEN Window ELSE n
           samples == [i \in 1 .. kept |-> s[n - kept + i].columns_read]
           Of(t) == {i \in 1 .. n : s[i].table = t}
           refused == {i \in 1 .. n : s[i].denied}
           levels == {s[i].sensitivity : i \in 1 .. n} \cup {0}
<1>1. n \in Nat /\ kept \in 0 .. n BY ConfigAssumption
<1>2. \A i \in 1 .. n : s[i] \in Accesses OBVIOUS
<1>3. samples \in Seq(Nat)
    <2>1. \A i \in 1 .. kept : n - kept + i \in 1 .. n BY <1>1
    <2>2. \A i \in 1 .. kept : s[n - kept + i].columns_read \in Nat BY <1>2, <2>1 DEF Accesses
    <2>3. samples \in [1 .. kept -> Nat] BY <2>2
    <2>4. kept \in Nat BY <1>1
    <2> HIDE DEF kept, samples
    <2> QED BY <2>3, <2>4, SeqDef
<1>4. \A t \in Tables : Cardinality(Of(t)) \in Nat
    <2> TAKE t \in Tables
    <2>1. Of(t) \subseteq 1 .. n OBVIOUS
    <2> QED BY <1>1, <2>1, CountOfOneMore
<1>5. Cardinality(refused) \in Nat
    <2>1. refused \subseteq 1 .. n OBVIOUS
    <2> QED BY <1>1, <2>1, CountOfOneMore
<1>6. Max(levels) \in Nat
    <2>1. levels \subseteq Levels /\ levels # {} BY <1>2 DEF Accesses, Levels
    <2> HIDE DEF levels
    <2>2. Max(levels) \in Levels BY <2>1, MaxOfLevels
    <2> QED BY <2>2 DEF Levels
<1>7. BaselineOf(s) = [samples |-> samples, tables |-> [t \in Tables |-> Cardinality(Of(t))],
                       max_sensitivity_seen |-> Max(levels), access_count |-> n,
                       denied_count |-> Cardinality(refused)]
    BY DEF BaselineOf
<1> HIDE DEF n, samples, Of, refused, levels
<1> QED BY <1>1, <1>3, <1>4, <1>5, <1>6, <1>7 DEF Baselines

\* update, then put: the baseline of the accesses so far, updated with an access, is
\* the baseline of one access more.
LEMMA UpdatedIsOneMore ==
    ASSUME NEW s \in Seq(Accesses), NEW x \in Accesses
    PROVE  Updated(BaselineOf(s), x) = BaselineOf(Append(s, x))
<1> DEFINE n == Len(s)
           s2 == Append(s, x)
           Kept(k) == IF k > Window THEN Window ELSE k
           Samples(q, k) == [i \in 1 .. Kept(k) |-> q[k - Kept(k) + i].columns_read]
           Of(q, k, t) == {i \in 1 .. k : q[i].table = t}
           Refused(q, k) == {i \in 1 .. k : q[i].denied}
           Seen(q, k) == {q[i].sensitivity : i \in 1 .. k} \cup {0}
           old == Samples(s, n)
           longer == Append(old, x.columns_read)
<1>1. n \in Nat /\ Kept(n) \in 0 .. n /\ Window \in Nat \ {0} BY ConfigAssumption
<1>2. s2 \in Seq(Accesses) /\ Len(s2) = n + 1 /\ s2[n + 1] = x BY AppendProperties
<1>3. \A i \in 1 .. n : s2[i] = s[i] BY AppendProperties
<1>4. \A i \in 1 .. n : s[i] \in Accesses OBVIOUS
<1>5. (IF Len(longer) > Window THEN Tail(longer) ELSE longer) = Samples(s2, n + 1)
    <2>1. old \in [1 .. Kept(n) -> Nat]
        <3>1. \A i \in 1 .. Kept(n) : n - Kept(n) + i \in 1 .. n BY <1>1
        <3> HIDE DEF Kept
        <3> QED BY <3>1, <1>4 DEF Accesses
    <2>2. old \in Seq(Nat) /\ Len(old) = Kept(n)
        <3> HIDE DEF Kept, Samples
        <3> QED BY <1>1, <2>1, SeqDef, LenProperties
    <2>3. x.columns_read \in Nat BY DEF Accesses
    <2>4. longer \in Seq(Nat) /\ Len(longer) = Kept(n) + 1 /\ longer[Kept(n) + 1] = x.columns_read
          /\ \A i \in 1 .. Kept(n) : longer[i] = s[n - Kept(n) + i].columns_read
        <3>1. \A i \in 1 .. Kept(n) : old[i] = s[n - Kept(n) + i].columns_read OBVIOUS
        <3> HIDE DEF Samples, Kept
        <3> QED BY <2>2, <2>3, <3>1, AppendProperties
    <2>5. CASE n >= Window
        <3> DEFINE k == n + 1
        <3>1. Kept(n) = Window /\ Kept(k) = Window BY <1>1, <2>5
        <3>2. Tail(longer) \in Seq(Nat) /\ Len(Tail(longer)) = Window
              /\ \A i \in 1 .. Window : Tail(longer)[i] = longer[i + 1]
            <4> HIDE DEF longer
            <4> QED BY <1>1, <2>4, <3>1, HeadTailProperties
        <3>3. \A i \in 1 .. Window : Tail(longer)[i] = s2[(n + 1) - Window + i].columns_read
            <4> TAKE i \in 1 .. Window
            <4>1. CASE i = Window
                <5>1. (n + 1) - Window + i = n + 1 /\ i + 1 = Window + 1 BY <1>1, <4>1
                <5> QED BY <1>2, <2>4, <3>1, <3>2, <5>1
            <4>2. CASE i # Window
                <5>1. i + 1 \in 1 .. Window /\ (n + 1) - Window + i \in 1 .. n
                      /\ n - Window + (i + 1) = (n + 1) - Window + i
                    BY <1>1, <2>5, <4>2
                <5> HIDE DEF longer, s2
                <5>2. Tail(longer)[i] = longer[i + 1] BY <3>2
                <5>3. longer[i + 1] = s[n - Kept(n) + (i + 1)].columns_read BY <2>4, <3>1, <5>1
                <5>4. s2[(n + 1) - Window + i] = s[(n + 1) - Window + i] BY <1>3, <5>1
                <5> HIDE DEF Kept
                <5> QED BY <3>1, <5>1, <5>2, <5>3, <5>4
            <4> QED BY <4>1, <4>2
        <3>4. Tail(longer) = [i \in 1 .. Window |-> s2[k - Window + i].columns_read]
            <4>1. DOMAIN Tail(longer) = 1 .. Window
                <5> HIDE DEF longer
                <5> QED BY <3>2, LenProperties
            <4>2. Tail(longer) = [i \in 1 .. Window |-> Tail(longer)[i]]
                <5>1. \A q \in Seq(Nat) : q = [i \in DOMAIN q |-> q[i]] OBVIOUS
                <5> HIDE DEF longer
                <5> QED BY <3>2, <4>1, <5>1
            <4>3. \A i \in 1 .. Window : (n + 1) - Window + i = k - Window + i OBVIOUS
            <4> HIDE DEF longer, s2, k
            <4>4. \A i \in 1 .. Window : Tail(longer)[i] = s2[k - Window + i].columns_read
                BY <3>3, <4>3
            <4> QED BY <4>2, <4>4
        <3>5. Len(longer) > Window BY <1>1, <2>4, <3>1
        <3>6. Samples(s2, k) = [i \in 1 .. Window |-> s2[k - Window + i].columns_read]
            <4> HIDE DEF s2, Kept, k
            <4> QED BY <3>1
        <3> QED BY <3>4, <3>5, <3>6
    <2>6. CASE n < Window
        <3>1. Kept(n) = n /\ Kept(n + 1) = n + 1 BY <1>1, <2>6
        <3>2. ~(Len(longer) > Window) BY <1>1, <2>4, <2>6, <3>1
        <3>3. \A i \in 1 .. n + 1 : longer[i] = s2[i].columns_read
            <4> TAKE i \in 1 .. n + 1
            <4>1. CASE i = n + 1 BY <1>2, <2>4, <3>1, <4>1
            <4>2. CASE i # n + 1
                <5>1. i \in 1 .. n /\ n - n + i = i BY <1>1, <4>2
                <5> HIDE DEF longer, s2
                <5> QED BY <1>3, <2>4, <3>1, <5>1
            <4> QED BY <4>1, <4>2
        <3>4. longer = [i \in 1 .. n + 1 |-> s2[i].columns_read]
            <4>1. DOMAIN longer = 1 .. n + 1
                <5> HIDE DEF longer
                <5> QED BY <1>1, <2>4, <3>1, LenProperties
            <4>2. longer = [i \in 1 .. n + 1 |-> longer[i]]
                <5> HIDE DEF longer
                <5> QED BY <2>4, <4>1
            <4> HIDE DEF longer, s2
            <4> QED BY <3>3, <4>2
        <3>5. \A i \in 1 .. n + 1 : (n + 1) - (n + 1) + i = i BY <1>1
        <3>6. Samples(s2, n + 1) = [i \in 1 .. n + 1 |-> s2[i].columns_read]
            <4> HIDE DEF s2, Kept
            <4> QED BY <3>1, <3>5
        <3> QED BY <3>2, <3>4, <3>6
    <2> HIDE DEF longer, Samples
    <2> QED BY <1>1, <2>5, <2>6
<1>6. \A t \in Tables : Cardinality(Of(s2, n + 1, t))
                           = Cardinality(Of(s, n, t)) + IF x.table = t THEN 1 ELSE 0
    <2> TAKE t \in Tables
    <2>1. Of(s, n, t) \subseteq 1 .. n OBVIOUS
    <2>2. Cardinality(Of(s, n, t)) \in Nat
          /\ Cardinality(Of(s, n, t) \cup {n + 1}) = Cardinality(Of(s, n, t)) + 1
        BY <1>1, <2>1, CountOfOneMore
    <2>3. Of(s2, n + 1, t) = IF x.table = t THEN Of(s, n, t) \cup {n + 1} ELSE Of(s, n, t)
        <3> HIDE DEF s2
        <3> QED BY <1>1, <1>2, <1>3
    <2> HIDE DEF Of
    <2> QED BY <2>2, <2>3
<1>7. Cardinality(Refused(s2, n + 1)) = Cardinality(Refused(s, n)) + IF x.denied THEN 1 ELSE 0
    <2>1. Refused(s, n) \subseteq 1 .. n OBVIOUS
    <2>2. Cardinality(Refused(s, n)) \in Nat
          /\ Cardinality(Refused(s, n) \cup {n + 1}) = Cardinality(Refused(s, n)) + 1
        BY <1>1, <2>1, CountOfOneMore
    <2>3. Refused(s2, n + 1) = IF x.denied THEN Refused(s, n) \cup {n + 1} ELSE Refused(s, n)
        <3>1. \A i \in 1 .. n + 1 : i \in Refused(s2, n + 1) <=> s2[i].denied OBVIOUS
        <3>2. \A i \in 1 .. n : i \in Refused(s, n) <=> s[i].denied OBVIOUS
        <3>3. Refused(s2, n + 1) \subseteq 1 .. n + 1 OBVIOUS
        <3>4. 1 .. n + 1 = (1 .. n) \cup {n + 1} BY <1>1
        <3> HIDE DEF s2, Refused
        <3>5. \A i \in 1 .. n : i \in Refused(s2, n + 1) <=> i \in Refused(s, n)
            BY <1>3, <3>1, <3>2, <3>4
        <3>6. n + 1 \in Refused(s2, n + 1) <=> x.denied BY <1>2, <3>1, <3>4
        <3>7. \A i : i \in Refused(s2, n + 1) <=> i \in Refused(s, n) \/ (i = n + 1 /\ x.denied)
            <4>1. n + 1 \notin 1 .. n BY <1>1
            <4>2. Refused(s, n) \subseteq 1 .. n BY <2>1
            <4> HIDE DEF n
            <4> QED BY <3>3, <3>4, <3>5, <3>6, <4>1, <4>2
        <3> QED BY <3>7
    <2> HIDE DEF Refused
    <2> QED BY <2>2, <2>3
<1>8. Max(Seen(s2, n + 1)) = IF x.sensitivity > Max(Seen(s, n)) THEN x.sensitivity
                             ELSE Max(Seen(s, n))
    <2>1. Seen(s, n) \subseteq Levels /\ Seen(s, n) # {} BY <1>4 DEF Accesses, Levels
    <2>2. Seen(s2, n + 1) = Seen(s, n) \cup {x.sensitivity}
        <3>1. 1 .. n + 1 = (1 .. n) \cup {n + 1} BY <1>1
        <3> HIDE DEF s2
        <3> QED BY <1>2, <1>3, <3>1
    <2>3. x.sensitivity \in Levels BY DEF Accesses
    <2> HIDE DEF Seen
    <2> QED BY <2>1, <2>2, <2>3, MaxOfOneMore
<1>9. x.table \in Tables BY DEF Accesses
<1>10. BaselineOf(s) = [samples |-> old, tables |-> [t \in Tables |-> Cardinality(Of(s, n, t))],
                        max_sensitivity_seen |-> Max(Seen(s, n)), access_count |-> n,
                        denied_count |-> Cardinality(Refused(s, n))]
    BY DEF BaselineOf
<1>11. BaselineOf(s2) = [samples |-> Samples(s2, n + 1),
                         tables |-> [t \in Tables |-> Cardinality(Of(s2, n + 1, t))],
                         max_sensitivity_seen |-> Max(Seen(s2, n + 1)), access_count |-> n + 1,
                         denied_count |-> Cardinality(Refused(s2, n + 1))]
    <2> HIDE DEF s2
    <2> QED BY <1>2 DEF BaselineOf
<1>12. [[t \in Tables |-> Cardinality(Of(s, n, t))] EXCEPT ![x.table] = @ + 1]
           = [t \in Tables |-> Cardinality(Of(s2, n + 1, t))]
    <2>1. \A t \in Tables : Cardinality(Of(s, n, t)) \in Nat
        <3> TAKE t \in Tables
        <3>1. Of(s, n, t) \subseteq 1 .. n OBVIOUS
        <3> QED BY <1>1, <3>1, CountOfOneMore
    <2> HIDE DEF Of, s2, n
    <2> QED BY <1>6, <1>9, <2>1
<1>13. Cardinality(Refused(s, n)) \in Nat
    <2>1. Refused(s, n) \subseteq 1 .. n OBVIOUS
    <2> QED BY <1>1, <2>1, CountOfOneMore
<1> DEFINE tables == [t \in Tables |-> Cardinality(Of(s, n, t))]
           seen == Max(Seen(s, n))
           refused == Cardinality(Refused(s, n))
<1> HIDE DEF n, s2, Kept, Samples, Of, Refused, Seen, old, tables, seen, refused
<1>14. Updated(BaselineOf(s), x)
           = [samples |-> IF Len(longer) > Window THEN Tail(longer) ELSE longer,
              tables |-> [tables EXCEPT ![x.table] = @ + 1],
              max_sensitivity_seen |-> IF x.sensitivity > seen THEN x.sensitivity ELSE seen,
              access_count |-> n + 1,
              denied_count |-> refused + IF x.denied THEN 1 ELSE 0]
    <2>1. BaselineOf(s) = [samples |-> old, tables |-> tables, max_sensitivity_seen |-> seen,
                           access_count |-> n, denied_count |-> refused]
        BY <1>10 DEF tables, seen, refused
    <2>2. /\ BaselineOf(s).samples = old /\ BaselineOf(s).tables = tables
          /\ BaselineOf(s).max_sensitivity_seen = seen /\ BaselineOf(s).access_count = n
          /\ BaselineOf(s).denied_count = refused
        BY <2>1
    <2> QED BY <2>2 DEF Updated
<1> QED BY <1>5, <1>7, <1>8, <1>11, <1>12, <1>14 DEF s2, tables, seen, refused

\* What is recorded of a read is an access.
LEMMA AccessType ==
    ASSUME NEW q \in Requests
    PROVE  Access(q) \in Accesses
<1> DEFINE decision == Authorize(q.agent, q.table, q.columns)
           labels == {LabelFor(q.table, c) : c \in q.columns} \cup {0}
<1>1. q.agent \in AgentTypes /\ q.table \in Tables /\ q.columns \subseteq Columns
    BY RequestsAssumption
<1>2. Cardinality(decision.allowed) \in Nat
    <2>1. decision.allowed \subseteq Columns BY <1>1 DEF Authorize
    <2>2. IsFiniteSet(decision.allowed) BY <2>1, CatalogAssumption, FS_Subset
    <2> QED BY <2>2, FS_CardinalityType
<1>3. decision.denied \in BOOLEAN BY DEF Authorize
<1>4. MaxSensitivity(q.table, q.columns) \in Levels
    <2>1. \A c \in q.columns : LabelFor(q.table, c) \in Levels
        BY <1>1, CatalogAssumption DEF WellFormedCatalog, LabelFor, Levels, Restricted
    <2>2. labels \subseteq Levels /\ labels # {} BY <2>1 DEF Levels
    <2>3. Max(labels) \in Levels
        <3> HIDE DEF labels
        <3> QED BY <2>2, MaxOfLevels
    <2> QED BY <2>3 DEF MaxSensitivity
<1> HIDE DEF decision
<1> QED BY <1>1, <1>2, <1>3, <1>4 DEF Access, Accesses, decision

\* The accesses that a pick selects, in order.
LEMMA PickedType ==
    ASSUME NEW h \in Seq(Accesses), NEW n \in 0 .. Len(h), NEW pick \in [1 .. n -> 1 .. Len(h)]
    PROVE  LET picked == [i \in 1 .. n |-> h[pick[i]]]
           IN  picked \in Seq(Accesses) /\ Len(picked) = n
<1> DEFINE picked == [i \in 1 .. n |-> h[pick[i]]]
<1>1. \A i \in 1 .. n : h[pick[i]] \in Accesses OBVIOUS
<1>2. picked \in [1 .. n -> Accesses] BY <1>1
<1>3. n \in Nat OBVIOUS
<1> HIDE DEF picked
<1>4. picked \in Seq(Accesses) BY <1>2, <1>3, SeqDef
<1>5. Len(picked) = n BY <1>2, <1>3, <1>4, LenProperties
<1> QED BY <1>4, <1>5 DEF picked

\* What an earned baseline counts is no more than its agent did.
LEMMA EarnedType ==
    ASSUME NEW h \in Seq(Accesses), NEW b, Earned(b, h)
    PROVE  b \in Baselines /\ b.access_count <= Len(h)
<1>1. PICK n \in 0 .. Len(h) : \E pick \in [1 .. n -> 1 .. Len(h)] :
                                   b = BaselineOf([i \in 1 .. n |-> h[pick[i]]])
    BY DEF Earned
<1>2. PICK pick \in [1 .. n -> 1 .. Len(h)] : b = BaselineOf([i \in 1 .. n |-> h[pick[i]]])
    BY <1>1
<1> DEFINE picked == [i \in 1 .. n |-> h[pick[i]]]
<1>3. picked \in Seq(Accesses) /\ Len(picked) = n BY PickedType
<1>4. b = BaselineOf(picked) BY <1>2
<1> HIDE DEF picked
<1>5. b \in Baselines BY <1>3, <1>4, BaselineOfType
<1>6. b.access_count = n BY <1>3, <1>4 DEF BaselineOf
<1> QED BY <1>5, <1>6

\* The baseline of an agent that is not on file is that of none of its accesses.
LEMMA FreshIsEarned ==
    ASSUME NEW h \in Seq(Accesses)
    PROVE  Earned(Fresh, h)
<1> DEFINE pick == [i \in 1 .. 0 |-> i]
<1>1. pick \in [1 .. 0 -> 1 .. Len(h)] /\ \A i, j \in 1 .. 0 : i < j => pick[i] < pick[j] OBVIOUS
<1>2. [i \in 1 .. 0 |-> h[pick[i]]] = << >> OBVIOUS
<1>3. Fresh = BaselineOf([i \in 1 .. 0 |-> h[pick[i]]]) BY <1>2, NothingIsFresh
<1>4. 0 \in 0 .. Len(h) OBVIOUS
<1> HIDE DEF pick
<1> QED BY <1>1, <1>3, <1>4 DEF Earned

\* What was earned stays earned when the agent does more.
LEMMA EarnedLater ==
    ASSUME NEW h \in Seq(Accesses), NEW x \in Accesses, NEW b, Earned(b, h)
    PROVE  Earned(b, Append(h, x))
<1>0. PICK n \in 0 .. Len(h) : \E pick \in [1 .. n -> 1 .. Len(h)] :
          /\ \A i, j \in 1 .. n : i < j => pick[i] < pick[j]
          /\ b = BaselineOf([i \in 1 .. n |-> h[pick[i]]])
    BY DEF Earned
<1>1. PICK pick \in [1 .. n -> 1 .. Len(h)] :
          /\ \A i, j \in 1 .. n : i < j => pick[i] < pick[j]
          /\ b = BaselineOf([i \in 1 .. n |-> h[pick[i]]])
    BY <1>0
<1> DEFINE h2 == Append(h, x)
<1>2. Len(h2) = Len(h) + 1 /\ \A k \in 1 .. Len(h) : h2[k] = h[k] BY AppendProperties
<1>3. n \in 0 .. Len(h2) /\ pick \in [1 .. n -> 1 .. Len(h2)] BY <1>2
<1>4. [i \in 1 .. n |-> h2[pick[i]]] = [i \in 1 .. n |-> h[pick[i]]] BY <1>2
<1> HIDE DEF h2
<1> QED BY <1>1, <1>3, <1>4 DEF Earned, h2

\* An earned baseline, updated with the next access, is earned.
LEMMA EarnedUpdated ==
    ASSUME NEW h \in Seq(Accesses), NEW x \in Accesses, NEW b, Earned(b, h)
    PROVE  Earned(Updated(b, x), Append(h, x))
<1>0. PICK n \in 0 .. Len(h) : \E pick \in [1 .. n -> 1 .. Len(h)] :
          /\ \A i, j \in 1 .. n : i < j => pick[i] < pick[j]
          /\ b = BaselineOf([i \in 1 .. n |-> h[pick[i]]])
    BY DEF Earned
<1>1. PICK pick \in [1 .. n -> 1 .. Len(h)] :
          /\ \A i, j \in 1 .. n : i < j => pick[i] < pick[j]
          /\ b = BaselineOf([i \in 1 .. n |-> h[pick[i]]])
    BY <1>0
<1> DEFINE h2 == Append(h, x)
           picked == [i \in 1 .. n |-> h[pick[i]]]
           pick2 == [i \in 1 .. n + 1 |-> IF i = n + 1 THEN Len(h) + 1 ELSE pick[i]]
           picked2 == [i \in 1 .. n + 1 |-> h2[pick2[i]]]
<1>2. Len(h2) = Len(h) + 1 /\ h2[Len(h) + 1] = x /\ \A k \in 1 .. Len(h) : h2[k] = h[k]
    BY AppendProperties
<1>3. n + 1 \in 0 .. Len(h2) /\ pick2 \in [1 .. n + 1 -> 1 .. Len(h2)]
    <2> HIDE DEF h2
    <2> QED BY <1>2
<1>4. \A i, j \in 1 .. n + 1 : i < j => pick2[i] < pick2[j]
    <2> TAKE i, j \in 1 .. n + 1
    <2> HAVE i < j
    <2>1. i \in 1 .. n /\ pick2[i] = pick[i] /\ pick[i] \in 1 .. Len(h) OBVIOUS
    <2>2. CASE j = n + 1 BY <2>1, <2>2
    <2>3. CASE j # n + 1 BY <1>1, <2>1, <2>3
    <2> QED BY <2>2, <2>3
<1>5. picked \in Seq(Accesses) /\ Len(picked) = n BY PickedType
<1>6. picked2 = Append(picked, x)
    <2>1. Append(picked, x) \in Seq(Accesses) /\ Len(Append(picked, x)) = n + 1
          /\ Append(picked, x)[n + 1] = x /\ \A i \in 1 .. n : Append(picked, x)[i] = picked[i]
        <3> HIDE DEF picked
        <3> QED BY <1>5, AppendProperties
    <2>2. \A i \in 1 .. n + 1 : picked2[i] = Append(picked, x)[i]
        <3> TAKE i \in 1 .. n + 1
        <3>1. CASE i = n + 1
            <4> HIDE DEF h2
            <4> QED BY <1>2, <2>1, <3>1
        <3>2. CASE i # n + 1
            <4>1. i \in 1 .. n BY <3>2
            <4>2. picked2[i] = h2[pick[i]] BY <3>2
            <4>3. pick[i] \in 1 .. Len(h) BY <4>1
            <4>4. picked[i] = h[pick[i]] BY <4>1
            <4> HIDE DEF h2, picked, picked2
            <4> QED BY <1>2, <2>1, <4>1, <4>2, <4>3, <4>4
        <3> QED BY <3>1, <3>2
    <2>3. DOMAIN Append(picked, x) = 1 .. n + 1
        <3> HIDE DEF picked
        <3> QED BY <2>1, LenProperties
    <2>4. Append(picked, x) = [i \in 1 .. n + 1 |-> Append(picked, x)[i]]
        <3>1. \A q \in Seq(Accesses) : q = [i \in DOMAIN q |-> q[i]] OBVIOUS
        <3> HIDE DEF picked
        <3> QED BY <2>1, <2>3, <3>1
    <2>5. picked2 = [i \in 1 .. n + 1 |-> picked2[i]] OBVIOUS
    <2> HIDE DEF picked, picked2
    <2> QED BY <2>2, <2>4, <2>5
<1>7. Updated(b, x) = BaselineOf(picked2)
    <2>1. b = BaselineOf(picked) BY <1>1
    <2> HIDE DEF picked, picked2
    <2> QED BY <1>5, <1>6, <2>1, UpdatedIsOneMore
<1> HIDE DEF h2, pick2
<1> QED BY <1>3, <1>4, <1>7 DEF Earned, h2

\* An agent that has done too little to have a baseline is not to be quarantined: the
\* signals that need none do not weigh enough.
LEMMA QuarantineNeedsBaseline ==
    ASSUME NEW b, NEW x, NEW erratic \in ErraticEntropy(Updated(b, x)), ~Established(b)
    PROVE  ~Quarantine(Signals(b, x) \cup erratic)
<1> DEFINE S == Signals(b, x) \cup erratic
<1>1. S \subseteq {"high_denial_rate", "erratic_entropy"} BY DEF Signals, ErraticEntropy
<1>2. "volume_spike" \notin S /\ "new_table" \notin S /\ "sensitivity_escalation" \notin S
    BY <1>1
<1> HIDE DEF S
<1>3. Points(S, "volume_spike") = 0 /\ Points(S, "new_table") = 0
      /\ Points(S, "sensitivity_escalation") = 0
    BY <1>2 DEF Points
<1>4. Points(S, "erratic_entropy") \in {0, 20} /\ Points(S, "high_denial_rate") \in {0, 25}
    BY DEF Points, Weight
<1>5. ~(Score(S) >= 60) BY <1>3, <1>4 DEF Score
<1> QED BY <1>5 DEF Quarantine, S

-------------------------------------------------------------------------------
(***************************************************************************)
(* Reading data leaves true baselines behind and shows no more than the    *)
(* decision allows                                                         *)
(***************************************************************************)

\* A read that is under way has arguments, and has returned nothing yet.
ReadUnderWay ==
    \A r \in Readers : pc[r] # "idle" => request[r] \in Requests /\ returned[r] = Nothing

\* Every baseline of a dictionary is that of some accesses of its agent.
AllEarned(d) == IsDictionary(d) /\ \A a \in DOMAIN d : Earned(d[a], history[a])

\* The baselines on file are earned, and so are those on their way into it.
EarnedInv ==
    /\ file \notin {Missing, Empty, Torn} => AllEarned(file)
    /\ \A r \in Readers :
          /\ pc[r] = "load" => Earned(baseline[r], history[request[r].agent])
          /\ pc[r] \in {"open", "write"} => AllEarned(data[r])

\* Recordings that neither overlap nor fail hold between them what every agent did:
\* in the file, or in the locals of the one that is about to write it.
CompleteInv ==
    ~disturbed =>
        /\ \A r, s \in Readers : r # s /\ pc[r] \in Recording => pc[s] \notin Recording
        /\ (\A r \in Readers : pc[r] \notin {"load", "open", "write"}) =>
              \A a \in AgentTypes : Held(Loaded, a) = BaselineOf(history[a])
        /\ \A r \in Readers :
              /\ pc[r] = "load" =>
                    /\ baseline[r] = BaselineOf(history[request[r].agent])
                    /\ \A a \in AgentTypes \ {request[r].agent} :
                          Held(Loaded, a) = BaselineOf(history[a])
              /\ pc[r] \in {"open", "write"} =>
                    \A a \in AgentTypes : Held(data[r], a) = BaselineOf(history[a])
              /\ pc[r] = "write" => file = Empty

\* A registered filter is that of a decision somebody asked for.
FiltersAreDecisions ==
    \A f \in filters : \E q \in Requests :
        f = [name |-> <<q.agent, q.table>>,
             scope |-> DataCellsFilter(q.agent, Authorize(q.agent, q.table, q.columns))]

DataInv == DataTypeOK /\ ReadUnderWay /\ EarnedInv

\* What the file is taken for, read or unreadable, is a dictionary of earned baselines.
LEMMA LoadsAreEarned ==
    ASSUME DataInv, NEW d \in Loads
    PROVE  AllEarned(d)
<1>1. CASE d = NoBaselines
    <2>1. d = [a \in {} |-> Fresh] BY <1>1 DEF NoBaselines
    <2>2. [a \in {} |-> Fresh] \in [{} -> Baselines] /\ {} \in SUBSET AgentTypes OBVIOUS
    <2> QED BY <2>1, <2>2 DEF AllEarned, IsDictionary
<1>2. CASE d = file /\ file \notin {Missing, Empty, Torn} BY <1>2 DEF DataInv, EarnedInv
<1> QED BY <1>1, <1>2 DEF Loads, Loaded

\* What an agent has in a dictionary of earned baselines is an earned one.
LEMMA HeldIsEarned ==
    ASSUME DataTypeOK, NEW d, AllEarned(d), NEW a \in AgentTypes
    PROVE  Earned(Held(d, a), history[a])
<1>1. history[a] \in Seq(Accesses) BY DEF DataTypeOK
<1> QED BY <1>1, FreshIsEarned DEF AllEarned, Held

\* A dictionary stays one of earned baselines if its agents' histories grow by an access
\* of one of them, or not at all.
LEMMA AllEarnedLater ==
    ASSUME DataTypeOK, NEW d, AllEarned(d), NEW a \in AgentTypes, NEW x \in Accesses,
           history' = history \/ history' = [history EXCEPT ![a] = Append(@, x)]
    PROVE  IsDictionary(d) /\ \A c \in DOMAIN d : Earned(d[c], history'[c])
<1>1. \A c \in AgentTypes : history[c] \in Seq(Accesses) BY DEF DataTypeOK
<1>2. DOMAIN d \subseteq AgentTypes BY DEF AllEarned, IsDictionary
<1>3. \A c \in DOMAIN d : Earned(d[c], history[c]) => Earned(d[c], history'[c])
    <2> SUFFICES ASSUME NEW c \in DOMAIN d, Earned(d[c], history[c])
                 PROVE  Earned(d[c], history'[c])
        OBVIOUS
    <2>1. history'[c] = history[c] \/ history'[c] = Append(history[c], x)
        BY <1>2 DEF DataTypeOK
    <2> QED BY <1>1, <1>2, <2>1, EarnedLater
<1> QED BY <1>3 DEF AllEarned

\* What GetBaseline does, for the lemmas that follow.
LEMMA GetBaselineEffect ==
    ASSUME DataInv, NEW r \in Readers, GetBaseline(r)
    PROVE  LET a == request[r].agent
               x == Access(request[r])
           IN  /\ a \in AgentTypes /\ x \in Accesses
               /\ history' = [history EXCEPT ![a] = Append(@, x)]
               /\ \E d \in Loads :
                     LET b == Held(d, a)
                     IN  /\ Earned(b, history[a])
                         /\ baseline' = [baseline EXCEPT ![r] = Updated(b, x)]
                         /\ Earned(Updated(b, x), history'[a])
                         /\ \E erratic \in ErraticEntropy(Updated(b, x)) :
                               risk' = [agent |-> a, before |-> Len(history[a]),
                                        quarantine |-> Quarantine(Signals(b, x) \cup erratic)]
                         /\ ~disturbed' => d = Loaded
<1> DEFINE a == request[r].agent
           x == Access(request[r])
<1>1. request[r] \in Requests /\ DataTypeOK BY DEF DataInv, ReadUnderWay, GetBaseline
<1>2. a \in AgentTypes /\ x \in Accesses BY <1>1, RequestsAssumption, AccessType
<1>3. PICK d \in Loads :
          /\ baseline' = [baseline EXCEPT ![r] = Updated(Held(d, a), x)]
          /\ history' = [history EXCEPT ![a] = Append(@, x)]
          /\ \E erratic \in ErraticEntropy(Updated(Held(d, a), x)) :
                risk' = [agent |-> a, before |-> Len(history[a]),
                         quarantine |-> Quarantine(Signals(Held(d, a), x) \cup erratic)]
          /\ disturbed' = (disturbed \/ d # Loaded)
    BY DEF GetBaseline
<1> DEFINE b == Held(d, a)
<1>4. Earned(b, history[a])
    <2> HIDE DEF a
    <2> QED BY <1>1, <1>2, LoadsAreEarned, HeldIsEarned
<1>5. history[a] \in Seq(Accesses) /\ history'[a] = Append(history[a], x)
    BY <1>1, <1>2, <1>3 DEF DataTypeOK
<1> HIDE DEF a, x, b
<1>6. Earned(Updated(b, x), Append(history[a], x)) BY <1>2, <1>4, <1>5, EarnedUpdated
<1>7. Earned(Updated(b, x), history'[a]) /\ (~disturbed' => d = Loaded) BY <1>3, <1>5, <1>6
<1> QED BY <1>2, <1>3, <1>4, <1>7 DEF a, x, b

\* put: what it is about to write are earned baselines.
LEMMA LoadAllEffect ==
    ASSUME DataInv, NEW r \in Readers, LoadAll(r)
    PROVE  LET a == request[r].agent
           IN  /\ a \in AgentTypes
               /\ AllEarned(data'[r])
               /\ ~disturbed' => \A c \in AgentTypes :
                     Held(data'[r], c) = IF c = a THEN baseline[r] ELSE Held(Loaded, c)
<1> DEFINE a == request[r].agent
<1>0. PICK e \in Loads :
          /\ data' = [data EXCEPT ![r] = [c \in DOMAIN e \cup {a} |->
                                            IF c = a THEN baseline[r] ELSE e[c]]]
          /\ disturbed' = (disturbed \/ e # Loaded)
    BY DEF LoadAll
<1> DEFINE S == DOMAIN e \cup {a}
           d == [c \in S |-> IF c = a THEN baseline[r] ELSE e[c]]
<1>1. request[r] \in Requests /\ DataTypeOK BY DEF DataInv, ReadUnderWay, LoadAll
<1>2. a \in AgentTypes BY <1>1, RequestsAssumption
<1>3. data'[r] = d BY <1>0, <1>1 DEF DataTypeOK, OfReaders
<1>4. AllEarned(e) BY LoadsAreEarned
<1>5. Earned(baseline[r], history[a]) BY DEF DataInv, EarnedInv, LoadAll
<1>6. \A c \in S : c \in AgentTypes /\ Earned(d[c], history[c])
    BY <1>2, <1>4, <1>5 DEF AllEarned, IsDictionary
<1>7. \A c \in S : d[c] \in Baselines
    <2>1. \A c \in AgentTypes : history[c] \in Seq(Accesses) BY <1>1 DEF DataTypeOK
    <2> HIDE DEF d, S
    <2> QED BY <1>6, <2>1, EarnedType
<1>8. AllEarned(d)
    <2>1. d \in [S -> Baselines] /\ S \in SUBSET AgentTypes BY <1>6, <1>7
    <2>2. IsDictionary(d)
        <3> HIDE DEF d, S
        <3> QED BY <2>1 DEF IsDictionary
    <2>3. DOMAIN d = S OBVIOUS
    <2> HIDE DEF d, S
    <2> QED BY <1>6, <2>2, <2>3 DEF AllEarned
<1>9. \A c \in AgentTypes : Held(d, c) = IF c = a THEN baseline[r] ELSE Held(e, c)
    BY DEF Held
<1> HIDE DEF d
<1>10. ~disturbed' => e = Loaded BY <1>0
<1> QED BY <1>2, <1>3, <1>8, <1>9, <1>10

\* The state is well typed.
LEMMA DataTypeStep ==
    ASSUME DataInv, [DataNext]_dataVars
    PROVE  DataTypeOK'
<1> USE DEF DataInv
<1>1. CASE UNCHANGED dataVars BY <1>1 DEF dataVars, DataTypeOK, OfReaders
<1> SUFFICES ASSUME NEW r \in Readers, ReadBegin(r) \/ Step(r) \/ Crash(r)
             PROVE  DataTypeOK'
    BY <1>1 DEF DataNext
<1>2. CASE ReadBegin(r)
    <2>1. PICK q \in Requests : request' = [request EXCEPT ![r] = q] BY <1>2 DEF ReadBegin
    <2>2. reads' \in 0 .. MaxReads BY <1>2, ConfigAssumption DEF ReadBegin, DataTypeOK
    <2>3. disturbed' \in BOOLEAN BY <1>2 DEF ReadBegin, DataTypeOK, Overlaps
    <2> QED BY <1>2, <2>1, <2>2, <2>3 DEF ReadBegin, DataTypeOK, Recording, OfReaders
<1>3. CASE GetBaseline(r)
    <2> DEFINE a == request[r].agent
               x == Access(request[r])
    <2>0. PICK d \in Loads : baseline' = [baseline EXCEPT ![r] = Updated(Held(d, a), x)]
                             /\ Earned(Updated(Held(d, a), x), history'[a])
        BY <1>3, GetBaselineEffect
    <2> DEFINE b == Updated(Held(d, a), x)
    <2>1. a \in AgentTypes /\ x \in Accesses /\ baseline' = [baseline EXCEPT ![r] = b]
          /\ history' = [history EXCEPT ![a] = Append(@, x)] /\ Earned(b, history'[a])
        BY <1>3, <2>0, GetBaselineEffect
    <2> HIDE DEF a, x, b
    <2>2. history[a] \in Seq(Accesses) BY <2>1 DEF DataTypeOK
    <2>3. Append(history[a], x) \in Seq(Accesses) BY <2>1, <2>2, AppendProperties
    <2>4. history' \in [AgentTypes -> Seq(Accesses)] BY <2>1, <2>3 DEF DataTypeOK
    <2>5. b \in Baselines BY <2>1, <2>4, EarnedType
    <2>6. baseline' \in [Readers -> Baselines \cup {Nothing}] BY <2>1, <2>5 DEF DataTypeOK
    <2>7. disturbed' \in BOOLEAN BY <1>3 DEF GetBaseline, DataTypeOK
    <2> QED BY <1>3, <2>4, <2>6, <2>7 DEF GetBaseline, DataTypeOK, Recording, OfReaders
<1>4. CASE LoadAll(r)
    <2>1. IsDictionary(data'[r]) BY <1>4, LoadAllEffect DEF AllEarned
    <2>2. OfReaders(data') /\ \A s \in Readers \ {r} : data'[s] = data[s]
        BY <1>4 DEF LoadAll, DataTypeOK, OfReaders
    <2>3. \A s \in Readers : data'[s] = Nothing \/ IsDictionary(data'[s])
        BY <2>1, <2>2 DEF DataTypeOK
    <2>4. disturbed' \in BOOLEAN BY <1>4 DEF LoadAll, DataTypeOK
    <2> QED BY <1>4, <2>2, <2>3, <2>4 DEF LoadAll, DataTypeOK, Recording, OfReaders
<1>5. CASE OpenFile(r) BY <1>5 DEF OpenFile, DataTypeOK, Recording, OfReaders
<1>6. CASE WriteFile(r)
    <2>1. IsDictionary(data[r]) BY <1>6 DEF WriteFile, EarnedInv, AllEarned
    <2> QED BY <1>6, <2>1 DEF WriteFile, Forget, DataTypeOK, Recording, OfReaders
<1>7. CASE RecordFails(r)
    BY <1>7 DEF RecordFails, Forget, DataTypeOK, Recording, OfReaders
<1>8. CASE Apply(r) BY <1>8 DEF Apply, DataTypeOK, OfReaders
<1>9. CASE QueryStore(r) BY <1>9 DEF QueryStore, DataTypeOK, OfReaders
<1>10. CASE RegisterFilter(r) BY <1>10 DEF RegisterFilter, DataTypeOK, OfReaders
<1>11. CASE Crash(r) BY <1>11 DEF Crash, Forget, DataTypeOK, OfReaders
<1> QED BY <1>2, <1>3, <1>4, <1>5, <1>6, <1>7, <1>8, <1>9, <1>10, <1>11 DEF Step

\* A read under way has its arguments.
LEMMA ReadUnderWayStep ==
    ASSUME DataInv, [DataNext]_dataVars
    PROVE  ReadUnderWay'
<1> USE DEF DataInv, ReadUnderWay
<1>1. CASE UNCHANGED dataVars BY <1>1 DEF dataVars
<1> SUFFICES ASSUME NEW r \in Readers, ReadBegin(r) \/ Step(r) \/ Crash(r)
             PROVE  ReadUnderWay'
    BY <1>1 DEF DataNext
<1>2. CASE ReadBegin(r)
    <2>1. PICK q \in Requests : request' = [request EXCEPT ![r] = q] BY <1>2 DEF ReadBegin
    <2> QED BY <1>2, <2>1 DEF ReadBegin, DataTypeOK, OfReaders
<1>3. CASE GetBaseline(r) \/ LoadAll(r) \/ OpenFile(r) \/ WriteFile(r) \/ RecordFails(r)
    <2>1. /\ request' = request /\ returned' = returned
          /\ pc[r] \in Recording
          /\ \E p \in Recording \cup {"apply"} : pc' = [pc EXCEPT ![r] = p]
        BY <1>3 DEF GetBaseline, LoadAll, OpenFile, WriteFile, RecordFails, Recording
    <2>2. \A s \in Readers : pc'[s] # "idle" => pc[s] # "idle"
        BY <2>1 DEF DataTypeOK, Recording
    <2> QED BY <2>1, <2>2
<1>4. CASE Apply(r) \/ QueryStore(r) \/ RegisterFilter(r)
    BY <1>4 DEF Apply, QueryStore, RegisterFilter, DataTypeOK, OfReaders
<1>5. CASE Crash(r) BY <1>5 DEF Crash, DataTypeOK
<1> QED BY <1>2, <1>3, <1>4, <1>5 DEF Step

\* Recordings may race, fail and die: the file and what is about to be written to it are
\* earned baselines.
LEMMA EarnedStep ==
    ASSUME DataInv, [DataNext]_dataVars
    PROVE  EarnedInv'
<1> DEFINE Same == UNCHANGED history
<1>0. DataTypeOK /\ EarnedInv BY DEF DataInv
<1>1. CASE UNCHANGED dataVars BY <1>0, <1>1 DEF dataVars, EarnedInv, AllEarned
<1> SUFFICES ASSUME NEW r \in Readers, ReadBegin(r) \/ Step(r) \/ Crash(r)
             PROVE  EarnedInv'
    BY <1>1 DEF DataNext
<1>2. CASE ReadBegin(r)
    <2>1. PICK q \in Requests : request' = [request EXCEPT ![r] = q] BY <1>2 DEF ReadBegin
    <2>2. \A s \in Readers : pc'[s] \in {"load", "open", "write"} =>
              pc'[s] = pc[s] /\ request'[s] = request[s]
        BY <1>0, <1>2, <2>1 DEF ReadBegin, DataTypeOK
    <2> QED BY <1>0, <1>2, <2>2 DEF ReadBegin, EarnedInv, AllEarned
<1>3. CASE GetBaseline(r)
    <2> DEFINE a == request[r].agent
               x == Access(request[r])
    <2>0. PICK d \in Loads : baseline' = [baseline EXCEPT ![r] = Updated(Held(d, a), x)]
                             /\ Earned(Updated(Held(d, a), x), history'[a])
        BY <1>3, GetBaselineEffect
    <2> DEFINE b == Updated(Held(d, a), x)
    <2>1. a \in AgentTypes /\ x \in Accesses /\ baseline' = [baseline EXCEPT ![r] = b]
          /\ history' = [history EXCEPT ![a] = Append(@, x)] /\ Earned(b, history'[a])
        BY <1>3, <2>0, GetBaselineEffect
    <2>2. UNCHANGED <<file, request, data>> /\ pc' = [pc EXCEPT ![r] = "load"]
        BY <1>3 DEF GetBaseline
    <2>3. request'[r].agent = a BY <2>2
    <2> HIDE DEF a, x, b
    <2>4. file \notin {Missing, Empty, Torn} =>
              IsDictionary(file) /\ \A c \in DOMAIN file : Earned(file[c], history'[c])
        BY <1>0, <2>1, AllEarnedLater DEF EarnedInv
    <2>5. ASSUME NEW s \in Readers, pc'[s] = "load"
          PROVE  Earned(baseline'[s], history'[request'[s].agent])
        <3>1. CASE s = r BY <1>0, <2>1, <2>3, <3>1 DEF DataTypeOK
        <3>2. CASE s # r
            <4> DEFINE c == request[s].agent
            <4>1. pc[s] = "load" /\ baseline'[s] = baseline[s] /\ request'[s] = request[s]
                BY <1>0, <2>1, <2>2, <2>5, <3>2 DEF DataTypeOK
            <4>2. Earned(baseline[s], history[c]) BY <1>0, <4>1 DEF EarnedInv
            <4>3. c \in AgentTypes BY <4>1, RequestsAssumption DEF DataInv, ReadUnderWay
            <4> HIDE DEF c
            <4>4. history[c] \in Seq(Accesses) BY <1>0, <4>3 DEF DataTypeOK
            <4>5. history'[c] = history[c] \/ history'[c] = Append(history[c], x)
                BY <1>0, <2>1, <4>3 DEF DataTypeOK
            <4>6. Earned(baseline[s], history'[c]) BY <2>1, <4>2, <4>4, <4>5, EarnedLater
            <4> QED BY <4>1, <4>6 DEF c
        <3> QED BY <3>1, <3>2
    <2>6. ASSUME NEW s \in Readers, pc'[s] \in {"open", "write"}
          PROVE  AllEarned(data[s])'
        <3>1. pc[s] \in {"open", "write"} /\ data'[s] = data[s]
            BY <1>0, <2>2, <2>6 DEF DataTypeOK
        <3> DEFINE w == data[s]
        <3>2. AllEarned(w) BY <1>0, <3>1 DEF EarnedInv
        <3>3. w' = w BY <2>2
        <3> HIDE DEF w
        <3>4. IsDictionary(w) /\ \A c \in DOMAIN w : Earned(w[c], history'[c])
            BY <1>0, <2>1, <3>2, AllEarnedLater
        <3>5. AllEarned(w)' BY <3>3, <3>4 DEF AllEarned
        <3> QED BY <3>5 DEF w
    <2>7. file' = file BY <2>2
    <2> QED BY <2>4, <2>5, <2>6, <2>7 DEF EarnedInv, AllEarned
<1>4. CASE LoadAll(r)
    <2>1. AllEarned(data'[r]) BY <1>4, LoadAllEffect
    <2>2. \A s \in Readers \ {r} : data'[s] = data[s] /\ pc'[s] = pc[s]
        BY <1>0, <1>4 DEF LoadAll, DataTypeOK, OfReaders
    <2>3. pc'[r] = "open" BY <1>0, <1>4 DEF LoadAll, DataTypeOK
    <2> QED BY <1>0, <1>4, <2>1, <2>2, <2>3 DEF LoadAll, EarnedInv, AllEarned
<1>5. CASE OpenFile(r)
    BY <1>0, <1>5 DEF OpenFile, EarnedInv, AllEarned, DataTypeOK
<1>6. CASE WriteFile(r)
    <2>1. AllEarned(data[r]) BY <1>0, <1>6 DEF WriteFile, EarnedInv
    <2>2. \A s \in Readers : pc'[s] \in {"load", "open", "write"} =>
              pc'[s] = pc[s] /\ baseline'[s] = baseline[s] /\ data'[s] = data[s]
        BY <1>0, <1>6 DEF WriteFile, Forget, DataTypeOK, OfReaders
    <2>3. file' \in {data[r], Torn} /\ UNCHANGED <<request, history>> BY <1>6 DEF WriteFile
    <2> QED BY <1>0, <2>1, <2>2, <2>3 DEF EarnedInv, AllEarned
<1>7. CASE RecordFails(r) \/ Crash(r)
    <2>1. \A s \in Readers : pc'[s] \in {"load", "open", "write"} =>
              pc'[s] = pc[s] /\ baseline'[s] = baseline[s] /\ data'[s] = data[s]
        BY <1>0, <1>7 DEF RecordFails, Crash, Forget, DataTypeOK, OfReaders
    <2>2. file' \in {file, Torn} /\ UNCHANGED <<request, history>>
        BY <1>7 DEF RecordFails, Crash
    <2> QED BY <1>0, <2>1, <2>2 DEF EarnedInv, AllEarned
<1>8. CASE Apply(r) \/ QueryStore(r) \/ RegisterFilter(r)
    <2>1. \A s \in Readers : pc'[s] \in {"load", "open", "write"} => pc'[s] = pc[s]
        BY <1>0, <1>8 DEF Apply, QueryStore, RegisterFilter, DataTypeOK
    <2>2. UNCHANGED <<file, request, baseline, data, history>>
        BY <1>8 DEF Apply, QueryStore, RegisterFilter
    <2> QED BY <1>0, <2>1, <2>2 DEF EarnedInv, AllEarned
<1> QED BY <1>2, <1>3, <1>4, <1>5, <1>6, <1>7, <1>8 DEF Step

\* The inductive invariant.
LEMMA DataInvariant == DataSpec => []DataInv
<1>1. DataInit => DataInv
    <2> SUFFICES ASSUME DataInit PROVE DataInv OBVIOUS
    <2>1. DataTypeOK
        <3>1. history \in [AgentTypes -> Seq(Accesses)] /\ reads \in 0 .. MaxReads
            BY ConfigAssumption DEF DataInit
        <3>2. OfReaders(data) /\ OfReaders(returned) /\ \A r \in Readers : data[r] = Nothing
            BY DEF DataInit, OfReaders
        <3>3. disturbed \in BOOLEAN BY DEF DataInit
        <3> QED BY <3>1, <3>2, <3>3 DEF DataInit, DataTypeOK
    <2>2. ReadUnderWay /\ EarnedInv BY DEF DataInit, ReadUnderWay, EarnedInv
    <2> QED BY <2>1, <2>2 DEF DataInv
<1>2. DataInv /\ [DataNext]_dataVars => DataInv'
    BY DataTypeStep, ReadUnderWayStep, EarnedStep DEF DataInv
<1> QED BY <1>1, <1>2, PTL DEF DataSpec

\* DataAccessDriftDetector over a baseline store that other processes write: whatever
\* overlaps, fails or dies, a baseline on file is that of some accesses of its agent.
THEOREM BaselinesAreEarned == DataSpec => []BaselineIsEarned
<1>1. DataInv => BaselineIsEarned BY DEF DataInv, EarnedInv, AllEarned, BaselineIsEarned
<1> QED BY <1>1, DataInvariant, PTL

\* record_access scores an access against what is on file of its agent, which counts no
\* more than the agent did: without min_samples accesses nothing is quarantined.
THEOREM QuarantinesAreEarned == DataSpec => []QuarantineIsEarned
<1>1. DataInit => QuarantineIsEarned BY DEF DataInit, QuarantineIsEarned
<1>2. DataInv /\ QuarantineIsEarned /\ [DataNext]_dataVars => QuarantineIsEarned'
    <2> SUFFICES ASSUME DataInv, QuarantineIsEarned, [DataNext]_dataVars
                 PROVE  QuarantineIsEarned'
        OBVIOUS
    <2>1. CASE UNCHANGED risk BY <2>1 DEF QuarantineIsEarned
    <2>2. ASSUME NEW r \in Readers, GetBaseline(r)
          PROVE  QuarantineIsEarned'
        <3> DEFINE a == request[r].agent
                   x == Access(request[r])
        <3>0. PICK d \in Loads :
                  /\ Earned(Held(d, a), history[a])
                  /\ \E erratic \in ErraticEntropy(Updated(Held(d, a), x)) :
                        risk' = [agent |-> a, before |-> Len(history[a]),
                                 quarantine |-> Quarantine(Signals(Held(d, a), x) \cup erratic)]
            BY <2>2, GetBaselineEffect
        <3> DEFINE b == Held(d, a)
        <3>1. a \in AgentTypes /\ x \in Accesses /\ Earned(b, history[a])
            BY <2>2, <3>0, GetBaselineEffect
        <3>2. PICK erratic \in ErraticEntropy(Updated(b, x)) :
                  risk' = [agent |-> a, before |-> Len(history[a]),
                           quarantine |-> Quarantine(Signals(b, x) \cup erratic)]
            BY <3>0
        <3> HIDE DEF a, x, b
        <3>3. history[a] \in Seq(Accesses) BY <3>1 DEF DataInv, DataTypeOK
        <3>4. b.access_count \in Nat /\ b.access_count <= Len(history[a])
            BY <3>1, <3>3, EarnedType DEF Baselines
        <3>5. risk'.before = Len(history[a])
              /\ risk'.quarantine = Quarantine(Signals(b, x) \cup erratic)
            BY <3>2
        <3>6. risk'.quarantine => b.access_count >= MinSamples
            BY <3>5, QuarantineNeedsBaseline DEF Established
        <3>7. Len(history[a]) \in Nat BY <3>3
        <3>8. risk'.quarantine => risk'.before >= MinSamples
            BY <3>4, <3>5, <3>6, <3>7, ConfigAssumption
        <3> QED BY <3>8 DEF QuarantineIsEarned
    <2>3. ASSUME NEW r \in Readers, ReadBegin(r) \/ Step(r) \/ Crash(r)
          PROVE  UNCHANGED risk \/ GetBaseline(r)
        BY <2>3 DEF ReadBegin, Step, Crash, LoadAll, OpenFile, WriteFile, RecordFails, Apply,
                    QueryStore, RegisterFilter
    <2> QED BY <2>1, <2>2, <2>3 DEF DataNext, dataVars
<1> QED BY <1>1, <1>2, DataInvariant, PTL DEF DataSpec

-------------------------------------------------------------------------------
(***************************************************************************)
(* Recordings that do not disturb each other lose nothing                  *)
(***************************************************************************)

\* A recording that is neither overlapped nor broken off carries every baseline from
\* the file to the file.
LEMMA CompleteStep ==
    ASSUME DataInv, CompleteInv, [DataNext]_dataVars
    PROVE  CompleteInv'
<1> DEFINE Full(d) == \A a \in AgentTypes : Held(d, a) = BaselineOf(history[a])
<1>0. DataTypeOK BY DEF DataInv
<1>1. CASE UNCHANGED dataVars BY <1>1 DEF dataVars, CompleteInv, Loaded
<1> SUFFICES ASSUME NEW r \in Readers, ReadBegin(r) \/ Step(r) \/ Crash(r), ~disturbed'
             PROVE  CompleteInv'
    BY <1>1 DEF DataNext, CompleteInv
<1>2. ~disturbed
    BY DEF ReadBegin, Step, Crash, GetBaseline, LoadAll, OpenFile, WriteFile, RecordFails,
           Apply, QueryStore, RegisterFilter
<1>3. \A s \in Readers \ {r} : pc'[s] = pc[s]
    BY <1>0 DEF ReadBegin, Step, Crash, GetBaseline, LoadAll, OpenFile, WriteFile, RecordFails,
                Apply, QueryStore, RegisterFilter, DataTypeOK
<1>4. \A s \in Readers \ {r} : pc[r] \in Recording => pc[s] \notin Recording
    BY <1>2 DEF CompleteInv
<1>5. CASE ReadBegin(r)
    <2>1. PICK q \in Requests : request' = [request EXCEPT ![r] = q] BY <1>5 DEF ReadBegin
    <2>2. pc[r] = "idle" /\ pc'[r] = "get" /\ UNCHANGED <<file, baseline, data, history>>
        BY <1>0, <1>5 DEF ReadBegin, DataTypeOK
    <2>3. \A s \in Readers \ {r} : pc[s] \notin Recording BY <1>5 DEF ReadBegin, Overlaps
    <2>4. \A s \in Readers : pc[s] \notin {"load", "open", "write"}
        BY <2>2, <2>3 DEF Recording
    <2>5. \A s \in Readers : pc'[s] \notin {"load", "open", "write"}
        BY <1>3, <2>2, <2>4
    <2>6. Full(Loaded) BY <1>2, <2>4 DEF CompleteInv
    <2>7. Full(Loaded)' BY <2>2, <2>6 DEF Loaded, Full
    <2> QED BY <1>3, <2>3, <2>5, <2>7 DEF CompleteInv
<1>6. CASE GetBaseline(r)
    <2> DEFINE a == request[r].agent
               x == Access(request[r])
               b == Held(Loaded, a)
    <2>0. \E d \in Loads : /\ baseline' = [baseline EXCEPT ![r] = Updated(Held(d, a), x)]
                           /\ ~disturbed' => d = Loaded
        BY <1>6, GetBaselineEffect
    <2>1. a \in AgentTypes /\ x \in Accesses
          /\ baseline' = [baseline EXCEPT ![r] = Updated(b, x)]
          /\ history' = [history EXCEPT ![a] = Append(@, x)]
        BY <1>6, <2>0, GetBaselineEffect
    <2>2. pc[r] = "get" /\ pc'[r] = "load" /\ UNCHANGED <<file, request, data>>
        BY <1>0, <1>6 DEF GetBaseline, DataTypeOK
    <2>3. \A s \in Readers \ {r} : pc'[s] \notin Recording
        BY <1>3, <1>4, <2>2 DEF Recording
    <2>4. Full(Loaded)
        <3>1. \A s \in Readers : pc[s] \notin {"load", "open", "write"}
            BY <1>4, <2>2 DEF Recording
        <3> QED BY <1>2, <3>1 DEF CompleteInv
    <2>5. history[a] \in Seq(Accesses) /\ history'[a] = Append(history[a], x)
        BY <1>0, <2>1 DEF DataTypeOK
    <2>6. b = BaselineOf(history[a]) BY <2>1, <2>4
    <2>7. request'[r].agent = a BY <2>2
    <2> HIDE DEF a, x, b
    <2>8. baseline'[r] = BaselineOf(history'[a])
        BY <1>0, <2>1, <2>5, <2>6, UpdatedIsOneMore DEF DataTypeOK
    <2>9. \A c \in AgentTypes \ {a} : Held(Loaded, c)' = BaselineOf(history'[c])
        BY <1>0, <2>1, <2>2, <2>4 DEF DataTypeOK, Loaded, Held
    <2>10. \A s \in Readers \ {r} : pc'[s] \notin {"load", "open", "write"}
        BY <2>3 DEF Recording
    <2> QED BY <2>2, <2>3, <2>7, <2>8, <2>9, <2>10 DEF CompleteInv
<1>7. CASE LoadAll(r)
    <2> DEFINE a == request[r].agent
    <2>1. pc[r] = "load" /\ pc'[r] = "open" /\ UNCHANGED <<file, request, baseline, history>>
        BY <1>0, <1>7 DEF LoadAll, DataTypeOK
    <2>2. \A c \in AgentTypes :
              Held(data'[r], c) = IF c = a THEN baseline[r] ELSE Held(Loaded, c)
        BY <1>7, LoadAllEffect
    <2>3. baseline[r] = BaselineOf(history[a])
          /\ \A c \in AgentTypes \ {a} : Held(Loaded, c) = BaselineOf(history[c])
        BY <1>2, <2>1 DEF CompleteInv
    <2>4. \A c \in AgentTypes : Held(data'[r], c) = BaselineOf(history'[c])
        BY <2>1, <2>2, <2>3
    <2>5. \A s \in Readers \ {r} : pc'[s] \notin Recording
        BY <1>3, <1>4, <2>1 DEF Recording
    <2>6. \A s \in Readers \ {r} : pc'[s] \notin {"load", "open", "write"}
        BY <2>5 DEF Recording
    <2> QED BY <2>1, <2>4, <2>5, <2>6 DEF CompleteInv
<1>8. CASE OpenFile(r)
    <2>1. pc[r] = "open" /\ pc'[r] = "write" /\ file' = Empty
          /\ UNCHANGED <<request, baseline, data, history>>
        BY <1>0, <1>8 DEF OpenFile, DataTypeOK
    <2>2. Full(data[r]) BY <1>2, <2>1 DEF CompleteInv
    <2>3. Full(data[r])' BY <2>1, <2>2
    <2>4. \A s \in Readers \ {r} : pc'[s] \notin Recording
        BY <1>3, <1>4, <2>1 DEF Recording
    <2>5. \A s \in Readers \ {r} : pc'[s] \notin {"load", "open", "write"}
        BY <2>4 DEF Recording
    <2> QED BY <2>1, <2>3, <2>4, <2>5 DEF CompleteInv
<1>9. CASE WriteFile(r)
    <2>1. pc[r] = "write" /\ pc'[r] = "apply" /\ history' = history
        BY <1>0, <1>9 DEF WriteFile, DataTypeOK
    <2>2. file = Empty /\ Full(data[r]) BY <1>2, <2>1 DEF CompleteInv
    <2>3. file' = data[r] BY <1>9, <2>2 DEF WriteFile
    <2>4. IsDictionary(data[r]) BY <2>1 DEF DataInv, EarnedInv, AllEarned
    <2>5. Loaded' = data[r] BY <2>3, <2>4, FileAssumption DEF Loaded
    <2>6. Full(Loaded)' BY <2>1, <2>2, <2>5 DEF Held
    <2>7. \A s \in Readers : pc'[s] \notin Recording
        BY <1>3, <1>4, <2>1 DEF Recording
    <2>8. \A s \in Readers : pc'[s] \notin {"load", "open", "write"} BY <2>7 DEF Recording
    <2> QED BY <2>6, <2>7, <2>8 DEF CompleteInv
<1>11. CASE Apply(r) \/ QueryStore(r) \/ RegisterFilter(r) \/ Crash(r) \/ RecordFails(r)
    <2>1. pc[r] \in {"get", "apply"} /\ pc'[r] \in {"idle", "apply"}
        BY <1>0, <1>11 DEF Apply, QueryStore, RegisterFilter, Crash, RecordFails, DataTypeOK, Recording
    <2>2. UNCHANGED <<file, request, history>>
        BY <1>11, <2>1 DEF Apply, QueryStore, RegisterFilter, Crash, RecordFails
    <2>3. \A s \in Readers \ {r} : baseline'[s] = baseline[s] /\ data'[s] = data[s]
        BY <1>0, <1>11 DEF Apply, QueryStore, RegisterFilter, Crash, RecordFails, Forget,
                          DataTypeOK, OfReaders
    <2>4. \A s \in Readers : pc'[s] \in Recording => s # r /\ pc[s] \in Recording
        BY <1>3, <2>1 DEF Recording
    <2>5. \A s, t \in Readers : s # t /\ pc'[s] \in Recording => pc'[t] \notin Recording
        BY <1>2, <2>4 DEF CompleteInv
    <2>6. (\A s \in Readers : pc'[s] \notin {"load", "open", "write"}) => Full(Loaded)'
        <3> SUFFICES ASSUME \A s \in Readers : pc'[s] \notin {"load", "open", "write"}
                     PROVE  Full(Loaded)'
            OBVIOUS
        <3>1. \A s \in Readers : pc[s] \notin {"load", "open", "write"} BY <1>3, <2>1
        <3>2. Full(Loaded) BY <1>2, <3>1 DEF CompleteInv
        <3> QED BY <2>2, <3>2 DEF Loaded, Held
    <2>7. ASSUME NEW s \in Readers, pc'[s] \in {"load", "open", "write"}
          PROVE  s # r /\ pc'[s] = pc[s] /\ baseline'[s] = baseline[s] /\ data'[s] = data[s]
        BY <1>3, <2>1, <2>3, <2>7
    <2>8. Loaded' = Loaded BY <2>2 DEF Loaded
    <2>9. \A s \in Readers :
              /\ pc'[s] = "load" =>
                    /\ baseline'[s] = BaselineOf(history'[request'[s].agent])
                    /\ \A a \in AgentTypes \ {request'[s].agent} :
                          Held(Loaded', a) = BaselineOf(history'[a])
              /\ pc'[s] \in {"open", "write"} =>
                    \A a \in AgentTypes : Held(data'[s], a) = BaselineOf(history'[a])
              /\ pc'[s] = "write" => file' = Empty
        BY <1>2, <2>2, <2>7, <2>8 DEF CompleteInv
    <2> QED BY <2>5, <2>6, <2>9 DEF CompleteInv, Held
<1> QED BY <1>5, <1>6, <1>7, <1>8, <1>9, <1>11 DEF Step

\* JsonFileBaselineStore: put writes back what it loaded, so that as long as recordings
\* do not overlap, fail or die, and none takes a file it cannot read for an empty one,
\* the file tells of every agent all it did.
THEOREM BaselinesAreComplete == DataSpec => []BaselineIsComplete
<1>1. DataInit => CompleteInv
    <2> SUFFICES ASSUME DataInit PROVE CompleteInv OBVIOUS
    <2>1. \A r \in Readers : pc[r] = "idle" BY DEF DataInit
    <2>2. Loaded = [a \in {} |-> Fresh] BY DEF DataInit, Loaded, NoBaselines
    <2>3. \A a \in AgentTypes : Held(Loaded, a) = Fresh BY <2>2 DEF Held
    <2>4. \A a \in AgentTypes : BaselineOf(history[a]) = Fresh BY NothingIsFresh DEF DataInit
    <2> QED BY <2>1, <2>3, <2>4 DEF CompleteInv, Recording
<1>2. DataInv /\ CompleteInv /\ [DataNext]_dataVars => CompleteInv' BY CompleteStep
<1>3. CompleteInv => BaselineIsComplete
    <2> SUFFICES ASSUME CompleteInv, ~disturbed, \A r \in Readers : pc[r] \notin Recording
                 PROVE  \A a \in AgentTypes : Held(Loaded, a) = BaselineOf(history[a])
        BY DEF BaselineIsComplete
    <2>1. \A r \in Readers : pc[r] \notin {"load", "open", "write"} BY DEF Recording
    <2> QED BY <2>1 DEF CompleteInv
<1> QED BY <1>1, <1>2, <1>3, DataInvariant, PTL DEF DataSpec

-------------------------------------------------------------------------------
(***************************************************************************)
(* What a decision lets through                                            *)
(***************************************************************************)

\* authorize: a column that comes out in clear was asked for, and the agent is cleared
\* for its label or, where there is none, for what is restricted.
LEMMA AllowedIsCleared ==
    ASSUME NEW a, NEW t, NEW columns, NEW c \in Authorize(a, t, columns).allowed
    PROVE  /\ ~Authorize(a, t, columns).denied
           /\ c \in columns \ AlwaysMasked[a]
           /\ IF c \in DOMAIN Labels[t] THEN Labels[t][c] \in Clearance[a]
              ELSE Restricted \in Clearance[a]
<1>1. ~(Clearance[a] = Denied) BY DEF Authorize
<1>2. ~Authorize(a, t, columns).denied BY <1>1 DEF Authorize
<1>3. c \in columns /\ Permits(a, LabelFor(t, c)) /\ c \notin AlwaysMasked[a]
    BY <1>1 DEF Authorize
<1> QED BY <1>2, <1>3 DEF Permits, LabelFor

\* InProcessEnforcer on rows already fetched.
LEMMA EnforcedInScope ==
    ASSUME NEW a, NEW t, NEW columns,
           NEW row \in Enforced(a, Authorize(a, t, columns), Rows[t])
    PROVE  InScope(row, a, t, columns, RowFilter[a])
<1> DEFINE decision == Authorize(a, t, columns)
<1>1. PICK stored \in Rows[t] :
          PassesRowFilter(stored, RowFilter[a]) /\ row = Projected(stored, decision)
    BY DEF Enforced
<1>2. ASSUME NEW c \in DOMAIN row
      PROVE  \/ row[c] = Mask
             \/ c \in decision.allowed /\ row[c] = stored[c]
    <2> HIDE DEF decision
    <2>1. c \in DOMAIN stored \cap (decision.allowed \cup decision.masked) BY <1>1, <1>2 DEF Projected
    <2>2. row[c] = IF c \in decision.masked THEN Mask ELSE stored[c] BY <1>1, <2>1 DEF Projected
    <2> QED BY <2>1, <2>2
<1> QED BY <1>1, <1>2, AllowedIsCleared DEF InScope

\* The SELECT of scoped_query.
LEMMA QueriedInScope ==
    ASSUME NEW a, NEW t, NEW columns,
           NEW row \in ScopedQuery(a, Authorize(a, t, columns), Rows[t])
    PROVE  InScope(row, a, t, columns, Clause(RowFilter[a]))
<1> DEFINE decision == Authorize(a, t, columns)
           filter == Clause(RowFilter[a])
           asked == decision.allowed \cup decision.masked
<1>1. PICK stored \in Rows[t] :
          /\ \A c \in DOMAIN filter : stored[c] \in filter[c]
          /\ row = [c \in asked |-> IF c \in decision.masked THEN Mask ELSE stored[c]]
    <2> HIDE DEF decision, filter
    <2> QED BY DEF ScopedQuery, decision, filter
<1>2. PassesRowFilter(stored, filter) BY <1>1 DEF PassesRowFilter
<1>3. ASSUME NEW c \in DOMAIN row
      PROVE  \/ row[c] = Mask
             \/ c \in decision.allowed /\ row[c] = stored[c]
    <2> HIDE DEF decision
    <2>1. c \in asked BY <1>1, <1>3
    <2>2. row[c] = IF c \in decision.masked THEN Mask ELSE stored[c] BY <1>1, <2>1
    <2> QED BY <2>1, <2>2
<1> QED BY <1>2, <1>3, AllowedIsCleared DEF InScope

\* A registered data-cells filter, whichever engine reads through it.
LEMMA FilteredInScope ==
    ASSUME NEW a, NEW t, NEW columns, columns \subseteq Columns,
           NEW row \in ThroughFilter(DataCellsFilter(a, Authorize(a, t, columns)), Rows[t]),
           DOMAIN row # {}
    PROVE  InScope(row, a, t, Columns, Clause(RowFilter[a]))
<1> DEFINE decision == Authorize(a, t, columns)
           f == DataCellsFilter(a, decision)
<1>1. PICK stored \in Rows[t] :
          /\ PassesRowFilter(stored, f.rows)
          /\ row = [c \in f.columns \cap DOMAIN stored |-> stored[c]]
    <2> HIDE DEF f
    <2> QED BY DEF ThroughFilter, f
<1>2. f.columns = decision.allowed BY DEF DataCellsFilter
<1> HIDE DEF f
<1>3. \A c \in DOMAIN row : c \in decision.allowed /\ row[c] = stored[c] BY <1>1, <1>2
<1>4. ~decision.denied BY <1>3, AllowedIsCleared
<1>5. f.rows = Clause(RowFilter[a])
    <2> HIDE DEF decision
    <2> QED BY <1>4 DEF DataCellsFilter, f
<1>6. \A c \in DOMAIN row : c \in Columns \ AlwaysMasked[a]
                              /\ IF c \in DOMAIN Labels[t] THEN Labels[t][c] \in Clearance[a]
                                 ELSE Restricted \in Clearance[a]
    BY <1>3, AllowedIsCleared
<1> QED BY <1>1, <1>3, <1>5, <1>6 DEF InScope

\* What a reader was given is within the scope of what it asked for.
ReaderInScope(r) ==
    returned[r] # Nothing =>
        \A row \in returned[r] :
            InScope(row, request[r].agent, request[r].table, request[r].columns,
                    IF outcome[r] = "queried" THEN Clause(RowFilter[request[r].agent])
                    ELSE RowFilter[request[r].agent])

LEMMA ReaderInScopeStep ==
    ASSUME DataInv, \A r \in Readers : ReaderInScope(r), [DataNext]_dataVars
    PROVE  \A r \in Readers : ReaderInScope(r)'
<1>0. DataTypeOK /\ ReadUnderWay BY DEF DataInv
<1>1. CASE UNCHANGED <<returned, request, outcome>> BY <1>1 DEF ReaderInScope
<1> SUFFICES ASSUME NEW r \in Readers, ReadBegin(r) \/ Step(r) \/ Crash(r)
             PROVE  \A s \in Readers : ReaderInScope(s)'
    BY <1>1 DEF DataNext, dataVars
<1>2. \A s \in Readers \ {r} : returned'[s] = returned[s] /\ request'[s] = request[s]
                                  /\ outcome'[s] = outcome[s]
    BY <1>0 DEF ReadBegin, Step, Crash, GetBaseline, LoadAll, OpenFile, WriteFile, RecordFails,
                Apply, QueryStore, RegisterFilter, DataTypeOK, OfReaders
<1>3. \A s \in Readers \ {r} : ReaderInScope(s)' BY <1>2 DEF ReaderInScope
<1>4. ReaderInScope(r)'
    <2>1. CASE returned'[r] = Nothing BY <2>1 DEF ReaderInScope
    <2>2. CASE ReadBegin(r)
        <3>1. returned'[r] = Nothing BY <1>0, <2>2 DEF ReadBegin, DataTypeOK, OfReaders
        <3> QED BY <2>1, <3>1
    <2>3. CASE GetBaseline(r) \/ LoadAll(r) \/ OpenFile(r) \/ WriteFile(r) \/ RecordFails(r)
               \/ RegisterFilter(r) \/ Crash(r)
        <3>1. returned' = returned /\ pc[r] # "idle"
            BY <2>3 DEF GetBaseline, LoadAll, OpenFile, WriteFile, RecordFails, RegisterFilter, Crash,
                        Recording
        <3> QED BY <1>0, <2>1, <3>1 DEF ReadUnderWay
    <2>4. CASE Apply(r)
        <3> DEFINE q == request[r]
        <3>1. returned'[r] = Enforced(q.agent, Authorize(q.agent, q.table, q.columns), Rows[q.table])
              /\ request' = request /\ outcome'[r] = "returned"
            BY <1>0, <2>4 DEF Apply, DataTypeOK, OfReaders
        <3> HIDE DEF q
        <3>2. \A row \in returned'[r] :
                  InScope(row, q.agent, q.table, q.columns, RowFilter[q.agent])
            BY <3>1, EnforcedInScope
        <3> QED BY <3>1, <3>2 DEF ReaderInScope, q
    <2>5. CASE QueryStore(r)
        <3> DEFINE q == request[r]
        <3>1. \/ returned'[r] = Nothing
              \/ returned'[r] = ScopedQuery(q.agent, Authorize(q.agent, q.table, q.columns), Rows[q.table])
            BY <1>0, <2>5 DEF QueryStore, DataTypeOK, OfReaders
        <3>2. request' = request /\ outcome'[r] = "queried"
            BY <1>0, <2>5 DEF QueryStore, DataTypeOK
        <3> HIDE DEF q
        <3>3. returned'[r] # Nothing => \A row \in returned'[r] :
                  InScope(row, q.agent, q.table, q.columns, Clause(RowFilter[q.agent]))
            BY <3>1, QueriedInScope
        <3> QED BY <3>2, <3>3 DEF ReaderInScope, q
    <2> QED BY <2>2, <2>3, <2>4, <2>5 DEF Step
<1> QED BY <1>3, <1>4

LEMMA FiltersStep ==
    ASSUME DataInv, FiltersAreDecisions, [DataNext]_dataVars
    PROVE  FiltersAreDecisions'
<1>1. CASE UNCHANGED filters BY <1>1 DEF FiltersAreDecisions
<1>2. ASSUME NEW r \in Readers, RegisterFilter(r)
      PROVE  FiltersAreDecisions'
    <2> DEFINE q == request[r]
               f == [name |-> <<q.agent, q.table>>,
                     scope |-> DataCellsFilter(q.agent, Authorize(q.agent, q.table, q.columns))]
    <2>1. q \in Requests BY <1>2 DEF DataInv, ReadUnderWay, RegisterFilter
    <2>2. filters' \subseteq filters \cup {f} BY <1>2 DEF RegisterFilter
    <2> QED BY <2>1, <2>2 DEF FiltersAreDecisions
<1>3. ASSUME NEW r \in Readers, ReadBegin(r) \/ Step(r) \/ Crash(r)
      PROVE  UNCHANGED filters \/ RegisterFilter(r)
    BY <1>3 DEF ReadBegin, Step, Crash, GetBaseline, LoadAll, OpenFile, WriteFile, RecordFails,
                Apply, QueryStore
<1> QED BY <1>1, <1>2, <1>3 DEF DataNext, dataVars

\* DataAccessMediator and the AWS enforcer: whichever way a decision is enforced, no row
\* shows an agent more than its policy clears it for.
THEOREM ReadsStayInScope == DataSpec => []ReturnedIsInScope
<1> DEFINE Returned == \A r \in Readers : ReaderInScope(r)
<1>1. DataInit => Returned /\ FiltersAreDecisions
    BY DEF DataInit, ReaderInScope, FiltersAreDecisions
<1>2. DataInv /\ Returned /\ [DataNext]_dataVars => Returned' BY ReaderInScopeStep
<1>3. DataInv /\ FiltersAreDecisions /\ [DataNext]_dataVars => FiltersAreDecisions' BY FiltersStep
<1>4. Returned /\ FiltersAreDecisions => ReturnedIsInScope
    <2> SUFFICES ASSUME Returned, FiltersAreDecisions PROVE ReturnedIsInScope OBVIOUS
    <2>1. ASSUME NEW f \in filters, NEW row \in ThroughFilter(f.scope, Rows[f.name[2]]),
                 DOMAIN row # {}
          PROVE  InScope(row, f.name[1], f.name[2], Columns, Clause(RowFilter[f.name[1]]))
        <3>1. PICK q \in Requests :
                  f = [name |-> <<q.agent, q.table>>,
                       scope |-> DataCellsFilter(q.agent, Authorize(q.agent, q.table, q.columns))]
            BY DEF FiltersAreDecisions
        <3>2. f.name[1] = q.agent /\ f.name[2] = q.table
              /\ f.scope = DataCellsFilter(q.agent, Authorize(q.agent, q.table, q.columns))
            BY <3>1
        <3>3. q.columns \subseteq Columns BY RequestsAssumption
        <3> QED BY <2>1, <3>2, <3>3, FilteredInScope
    <2> QED BY <2>1 DEF ReturnedIsInScope, ReaderInScope
<1> HIDE DEF Returned
<1> QED BY <1>1, <1>2, <1>3, <1>4, DataInvariant, PTL DEF DataSpec
================================================================================
