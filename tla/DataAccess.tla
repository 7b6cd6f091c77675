------------------------------ MODULE DataAccess ------------------------------
(***************************************************************************)
(* Data reads and the baselines they leave behind: DataAccessMediator.read *)
(* with a DataAccessDriftDetector over a JsonFileBaselineStore             *)
(* (governance/extensions/data_fgac.py, data_drift.py).  The baselines of  *)
(* all agents are one JSON file at a path that several processes may       *)
(* share.  record_access reads the file, reads it again, truncates it and  *)
(* writes it with nothing held in between, so each of these is a step of   *)
(* its process.  A recording that fails is logged and swallowed.           *)
(***************************************************************************)
EXTENDS DataScope, Integers, SequencesExt

CONSTANTS
    Readers,        \* processes that read data
    Requests,       \* reads an agent may ask for
    Rows,           \* the rows of each table
    MinSamples,     \* DriftConfig.min_samples
    ZThreshold,     \* DriftConfig.z_threshold
    Window,         \* DriftConfig.window
    MinTables,      \* DriftConfig.entropy_min_tables
    DenialPercent,  \* DriftConfig.denial_rate_threshold, in percent
    Missing, Empty, Torn,   \* a file that is absent, truncated, not JSON
    Nothing,        \* nothing returned or recommended yet
    MaxReads        \* bound: reads in one behaviour

ASSUME RequestsAssumption ==
    Requests \subseteq [agent : AgentTypes, table : Tables, columns : SUBSET Columns]
ASSUME ConfigAssumption ==
    MinSamples \in Nat \ {0} /\ Window \in Nat \ {0} /\ MaxReads \in Nat

VARIABLES
    file,       \* the JSON file: baselines by agent, Missing, Empty or Torn
    pc,         \* where read() is
    request,    \* its arguments
    baseline,   \* b of record_access
    data,       \* data of put
    outcome,    \* how the last read of each reader ended
    returned,   \* the rows it returned, or Nothing
    filters,    \* the data-cells filters registered, by agent and table
    risk,       \* history: the last risk that was scored, or Nothing
    history,    \* history: the accesses recorded for each agent, in order
    disturbed,  \* history: did recordings overlap, fail, find the file unreadable or die?
    reads       \* history: reads begun, bounded by MaxReads

dataVars == <<file, pc, request, baseline, data, outcome, returned, filters, risk, history, disturbed, reads>>

Recording == {"get", "load", "open", "write"}

\* What is recorded of a read.
Accesses == [table : Tables, columns_read : Nat, sensitivity : Levels, denied : BOOLEAN]

Baselines == [samples : Seq(Nat), tables : [Tables -> Nat], max_sensitivity_seen : Nat,
              access_count : Nat, denied_count : Nat]

\* The baseline of an agent that has none.
Fresh == [samples |-> << >>, tables |-> [t \in Tables |-> 0], max_sensitivity_seen |-> 0,
          access_count |-> 0, denied_count |-> 0]

IsDictionary(d) == \E S \in SUBSET AgentTypes : d \in [S -> Baselines]

\* A file that does not parse is told apart from one that does.
ASSUME FileAssumption == \A f \in {Missing, Empty, Torn} : ~IsDictionary(f)

\* Does every reader have one?
OfReaders(f) == f = [r \in Readers |-> f[r]]

DataTypeOK ==
    /\ file \in {Missing, Empty, Torn} \/ IsDictionary(file)
    /\ pc \in [Readers -> Recording \cup {"idle", "apply"}]
    /\ request \in [Readers -> Requests \cup {Nothing}]
    /\ baseline \in [Readers -> Baselines \cup {Nothing}]
    /\ OfReaders(data) /\ \A r \in Readers : data[r] = Nothing \/ IsDictionary(data[r])
    /\ outcome \in [Readers -> {"none", "returned", "queried", "registered", "died"}]
    /\ OfReaders(returned)
    /\ history \in [AgentTypes -> Seq(Accesses)]
    /\ disturbed \in BOOLEAN /\ reads \in 0 .. MaxReads

DataInit ==
    /\ file = Missing
    /\ pc = [r \in Readers |-> "idle"] /\ request = [r \in Readers |-> Nothing]
    /\ baseline = [r \in Readers |-> Nothing] /\ data = [r \in Readers |-> Nothing]
    /\ outcome = [r \in Readers |-> "none"] /\ returned = [r \in Readers |-> Nothing]
    /\ filters = {}
    /\ risk = Nothing
    /\ history = [a \in AgentTypes |-> << >>]
    /\ disturbed = FALSE /\ reads = 0

-------------------------------------------------------------------------------
(***************************************************************************)
(* record_access: scoring and updating a baseline                          *)
(***************************************************************************)

\* What is recorded of a read: columns_read, max_sensitivity and denied.
Access(q) ==
    LET decision == Authorize(q.agent, q.table, q.columns)
    IN  [table |-> q.table, columns_read |-> Cardinality(decision.allowed),
         sensitivity |-> MaxSensitivity(q.table, q.columns), denied |-> decision.denied]

Total(samples) == FoldSeq(LAMBDA x, y : x + y, 0, samples)

\* (columns_read - mean) / pstdev > z_threshold, multiplied out; a deviation of
\* zero makes any increase a spike.
VolumeSpike(b, columns) ==
    LET n == Len(b.samples)
        above == n * columns - Total(b.samples)
        spread == n * Total([i \in 1 .. n |-> b.samples[i] * b.samples[i]])
                    - Total(b.samples) * Total(b.samples)
    IN  n >= 2 /\ above > 0 /\ above * above > ZThreshold * ZThreshold * spread

\* Mutant of Established: the signals need no baseline.
EstablishedAtOnce(b) == b.access_count >= 0

\* min_samples accesses make a baseline.
Established(b) == b.access_count >= MinSamples

\* The signals of an access against the baseline before it.
Signals(b, x) ==
    {s \in {"volume_spike"} : Established(b) /\ VolumeSpike(b, x.columns_read)}
    \cup {s \in {"new_table"} : Established(b) /\ b.tables[x.table] = 0}
    \cup {s \in {"sensitivity_escalation"} :
             Established(b) /\ x.sensitivity > b.max_sensitivity_seen}
    \cup {s \in {"high_denial_rate"} :
             x.denied /\ 100 * (b.denied_count + 1) > DenialPercent * (b.access_count + 1)}

\* Mutant of Updated: a denied access counts as one that was not denied.
UpdatedUndenied(b, x) ==
    LET samples == Append(b.samples, x.columns_read)
    IN  [samples |-> IF Len(samples) > Window THEN Tail(samples) ELSE samples,
         tables |-> [b.tables EXCEPT ![x.table] = @ + 1],
         max_sensitivity_seen |-> IF x.sensitivity > b.max_sensitivity_seen THEN x.sensitivity
                                  ELSE b.max_sensitivity_seen,
         access_count |-> b.access_count + 1,
         denied_count |-> b.denied_count]

\* The baseline after an access; it has at most one sample too many.
Updated(b, x) ==
    LET samples == Append(b.samples, x.columns_read)
    IN  [samples |-> IF Len(samples) > Window THEN Tail(samples) ELSE samples,
         tables |-> [b.tables EXCEPT ![x.table] = @ + 1],
         max_sensitivity_seen |-> IF x.sensitivity > b.max_sensitivity_seen THEN x.sensitivity
                                  ELSE b.max_sensitivity_seen,
         access_count |-> b.access_count + 1,
         denied_count |-> b.denied_count + IF x.denied THEN 1 ELSE 0]

\* Entropy is a logarithm: whether it is high may be either once there are
\* tables enough.
ErraticEntropy(b) ==
    {{}} \cup {s \in {{"erratic_entropy"}} :
                 Cardinality({t \in Tables : b.tables[t] > 0}) >= MinTables}

\* _WEIGHTS and _score, in hundredths; the sum is not clamped, quarantine does
\* not look above its threshold.
Weight == [volume_spike |-> 35, new_table |-> 20, sensitivity_escalation |-> 40,
           erratic_entropy |-> 20, high_denial_rate |-> 25]
Points(signals, s) == IF s \in signals THEN Weight[s] ELSE 0
Score(signals) ==
    Points(signals, "volume_spike") + Points(signals, "new_table")
        + Points(signals, "sensitivity_escalation") + Points(signals, "erratic_entropy")
        + Points(signals, "high_denial_rate")
Quarantine(signals) == Score(signals) >= 60

-------------------------------------------------------------------------------
(***************************************************************************)
(* The steps of a read                                                     *)
(***************************************************************************)

NoBaselines == [a \in {} |-> Fresh]

\* _load: a file that is missing or does not parse is an empty dictionary.
Loaded == IF file \in {Missing, Empty, Torn} THEN NoBaselines ELSE file

\* So is one that cannot be read just now: every exception is caught.
Loads == {Loaded, NoBaselines}

\* get: an agent that is not in the dictionary starts afresh.
Held(d, a) == IF a \in DOMAIN d THEN d[a] ELSE Fresh

\* The locals of record_access end with it.
Forget(r) == baseline' = [baseline EXCEPT ![r] = Nothing] /\ data' = [data EXCEPT ![r] = Nothing]

\* Is some other recording under way?
Overlaps(r) == \E s \in Readers \ {r} : pc[s] \in Recording

\* read(): authorize decides and goes on to record what it decided.
ReadBegin(r) ==
    /\ pc[r] = "idle" /\ reads < MaxReads
    /\ \E q \in Requests : request' = [request EXCEPT ![r] = q]
    /\ pc' = [pc EXCEPT ![r] = "get"]
    /\ outcome' = [outcome EXCEPT ![r] = "none"]
    /\ returned' = [returned EXCEPT ![r] = Nothing]
    /\ reads' = reads + 1
    /\ disturbed' = (disturbed \/ Overlaps(r))
    /\ UNCHANGED <<file, baseline, data, filters, risk, history>>

\* record_access: get, score, update; the entropy is that of the updated baseline.
GetBaseline(r) ==
    /\ pc[r] = "get"
    /\ \E d \in Loads :
          LET a == request[r].agent
              x == Access(request[r])
              b == Held(d, a)
          IN  /\ baseline' = [baseline EXCEPT ![r] = Updated(b, x)]
              /\ history' = [history EXCEPT ![a] = Append(@, x)]
              /\ \E erratic \in ErraticEntropy(Updated(b, x)) :
                    risk' = [agent |-> a, before |-> Len(history[a]),
                             quarantine |-> Quarantine(Signals(b, x) \cup erratic)]
              /\ disturbed' = (disturbed \/ d # Loaded)
    /\ pc' = [pc EXCEPT ![r] = "load"]
    /\ UNCHANGED <<file, request, data, outcome, returned, filters, reads>>

\* Mutant of LoadAll: the other agents' baselines are not carried over.
LoadOwn(r) ==
    /\ pc[r] = "load"
    /\ data' = [data EXCEPT ![r] = [a \in {request[r].agent} |-> baseline[r]]]
    /\ pc' = [pc EXCEPT ![r] = "open"]
    /\ UNCHANGED <<file, request, baseline, outcome, returned, filters, risk, history, disturbed, reads>>

\* put: load the whole file and replace one key.
LoadAll(r) ==
    /\ pc[r] = "load"
    /\ \E d \in Loads :
          /\ data' = [data EXCEPT ![r] =
                        [a \in DOMAIN d \cup {request[r].agent} |->
                            IF a = request[r].agent THEN baseline[r] ELSE d[a]]]
          /\ disturbed' = (disturbed \/ d # Loaded)
    /\ pc' = [pc EXCEPT ![r] = "open"]
    /\ UNCHANGED <<file, request, baseline, outcome, returned, filters, risk, history, reads>>

\* write_text opens the file and truncates it.
OpenFile(r) ==
    /\ pc[r] = "open"
    /\ file' = Empty
    /\ pc' = [pc EXCEPT ![r] = "write"]
    /\ UNCHANGED <<request, baseline, data, outcome, returned, filters, risk, history, disturbed, reads>>

\* write_text writes.  Over what another writer wrote in the meantime it leaves
\* that one's tail standing, if that was longer.
WriteFile(r) ==
    /\ pc[r] = "write"
    /\ file' \in IF file = Empty THEN {data[r]} ELSE {data[r], Torn}
    /\ pc' = [pc EXCEPT ![r] = "apply"]
    /\ Forget(r)
    /\ UNCHANGED <<request, outcome, returned, filters, risk, history, disturbed, reads>>

\* Mutant of RecordFails: the exception leaves read().
RecordRaises(r) ==
    /\ pc[r] \in Recording
    /\ pc' = [pc EXCEPT ![r] = "idle"]
    /\ outcome' = [outcome EXCEPT ![r] = "raised"]
    /\ file' \in IF pc[r] = "write" THEN {file, Torn} ELSE {file}
    /\ disturbed' = (disturbed \/ pc[r] # "get")
    /\ Forget(r)
    /\ UNCHANGED <<request, returned, filters, risk, history, reads>>

\* stat, mkdir, open or write raises; _record logs it and the read goes on.
RecordFails(r) ==
    /\ pc[r] \in Recording
    /\ pc' = [pc EXCEPT ![r] = "apply"]
    /\ file' \in IF pc[r] = "write" THEN {file, Torn} ELSE {file}
    /\ disturbed' = (disturbed \/ pc[r] # "get")
    /\ Forget(r)
    /\ UNCHANGED <<request, outcome, returned, filters, risk, history, reads>>

\* The enforcer applies the decision, and read() returns.
Apply(r) ==
    /\ pc[r] = "apply"
    /\ LET q == request[r]
       IN  returned' = [returned EXCEPT
                          ![r] = Enforced(q.agent, Authorize(q.agent, q.table, q.columns), Rows[q.table])]
    /\ outcome' = [outcome EXCEPT ![r] = "returned"]
    /\ pc' = [pc EXCEPT ![r] = "idle"]
    /\ UNCHANGED <<file, request, baseline, data, filters, risk, history, disturbed, reads>>

\* The caller of authorize() reads through the store instead: scoped_query raises
\* PermissionError for a denied decision, and nothing is returned.
QueryStore(r) ==
    /\ pc[r] = "apply"
    /\ LET q == request[r]
           decision == Authorize(q.agent, q.table, q.columns)
       IN  returned' = [returned EXCEPT
                          ![r] = IF decision.denied THEN Nothing
                                 ELSE ScopedQuery(q.agent, decision, Rows[q.table])]
    /\ outcome' = [outcome EXCEPT ![r] = "queried"]
    /\ pc' = [pc EXCEPT ![r] = "idle"]
    /\ UNCHANGED <<file, request, baseline, data, filters, risk, history, disturbed, reads>>

\* register_data_cells_filter.  A filter is named by agent and table: the store
\* refuses a second one of the name, whatever its columns.
RegisterFilter(r) ==
    /\ pc[r] = "apply"
    /\ LET q == request[r]
           name == <<q.agent, q.table>>
       IN  filters' = IF \E f \in filters : f.name = name THEN filters
                      ELSE filters \cup
                             {[name |-> name,
                               scope |-> DataCellsFilter(q.agent,
                                                         Authorize(q.agent, q.table, q.columns))]}
    /\ outcome' = [outcome EXCEPT ![r] = "registered"]
    /\ pc' = [pc EXCEPT ![r] = "idle"]
    /\ UNCHANGED <<file, request, baseline, data, returned, risk, history, disturbed, reads>>

\* The process dies; what it wrote of the file stays.
Crash(r) ==
    /\ pc[r] # "idle"
    /\ pc' = [pc EXCEPT ![r] = "idle"]
    /\ outcome' = [outcome EXCEPT ![r] = "died"]
    /\ file' \in IF pc[r] = "write" THEN {file, Torn} ELSE {file}
    /\ disturbed' = (disturbed \/ pc[r] \in Recording \ {"get"})
    /\ Forget(r)
    /\ UNCHANGED <<request, returned, filters, risk, history, reads>>

Step(r) ==
    \/ GetBaseline(r) \/ LoadAll(r) \/ OpenFile(r) \/ WriteFile(r)
    \/ RecordFails(r) \/ Apply(r) \/ QueryStore(r) \/ RegisterFilter(r)

DataNext == \E r \in Readers : ReadBegin(r) \/ Step(r) \/ Crash(r)

\* The steps of a read follow each other unless its process dies.
DataSpec == DataInit /\ [][DataNext]_dataVars /\ \A r \in Readers : WF_dataVars(Step(r))

-------------------------------------------------------------------------------
(***************************************************************************)
(* Properties                                                              *)
(***************************************************************************)

\* The baseline that a sequence of accesses amounts to; its samples are the last
\* ones that fit the window.
BaselineOf(accesses) ==
    LET n == Len(accesses)
        kept == IF n > Window THEN Window ELSE n
    IN  [samples |-> [i \in 1 .. kept |-> accesses[n - kept + i].columns_read],
         tables |-> [t \in Tables |-> Cardinality({i \in 1 .. n : accesses[i].table = t})],
         max_sensitivity_seen |-> Max({accesses[i].sensitivity : i \in 1 .. n} \cup {0}),
         access_count |-> n,
         denied_count |-> Cardinality({i \in 1 .. n : accesses[i].denied})]

\* Is it the baseline of some of the accesses of a history, in their order?
Earned(b, h) ==
    \E n \in 0 .. Len(h) : \E pick \in [1 .. n -> 1 .. Len(h)] :
        /\ \A i, j \in 1 .. n : i < j => pick[i] < pick[j]
        /\ b = BaselineOf([i \in 1 .. n |-> h[pick[i]]])

\* The state is well typed, and however recordings race, fail, misread and die, a baseline on
\* file never says more of an agent than what the agent did: it is the baseline of
\* some of its accesses.
BaselineIsEarned ==
    /\ DataTypeOK
    /\ file \notin {Missing, Empty, Torn} => \A a \in DOMAIN file : Earned(file[a], history[a])

\* As long as recordings do not overlap, fail or die on the way, and read the file when
\* it is there, nothing is lost either: between two of them every agent's baseline is
\* that of all it did.
BaselineIsComplete ==
    ~disturbed /\ (\A r \in Readers : pc[r] \notin Recording) =>
        \A a \in AgentTypes : Held(Loaded, a) = BaselineOf(history[a])

\* Quarantine is recommended of nobody who has done less than it takes to have a
\* baseline, whatever the signals are and whoever wrote the file.
QuarantineIsEarned == risk # Nothing /\ risk.quarantine => risk.before >= MinSamples

\* Is a row no more than one of the table's rows, within a filter, with a clear
\* value only in columns that were asked for and that the agent is cleared for by
\* name, or that it may read although nobody classified them?
InScope(row, a, t, columns, filter) ==
    \E stored \in Rows[t] :
        /\ PassesRowFilter(stored, filter)
        /\ \A c \in DOMAIN row :
              \/ row[c] = Mask
              \/ /\ c \in columns \ AlwaysMasked[a] /\ row[c] = stored[c]
                 /\ IF c \in DOMAIN Labels[t] THEN Labels[t][c] \in Clearance[a]
                    ELSE Restricted \in Clearance[a]

\* However a decision is enforced, on fetched rows, by the query that the store runs
\* or by the filter it holds for every engine, no row leaves the agent's scope.  A
\* filter that names no value for a column keeps rows back only in-process, and the
\* filter registered for a denied decision lets every row through without a column of
\* it: what a filter is held to is the rows it shows something of.
ReturnedIsInScope ==
    /\ \A r \in Readers : returned[r] # Nothing =>
          LET a == request[r].agent
              filter == IF outcome[r] = "queried" THEN Clause(RowFilter[a]) ELSE RowFilter[a]
          IN  \A row \in returned[r] : InScope(row, a, request[r].table, request[r].columns, filter)
    /\ \A f \in filters : \A row \in ThroughFilter(f.scope, Rows[f.name[2]]) :
          LET a == f.name[1]
          IN  DOMAIN row # {} => InScope(row, a, f.name[2], Columns, Clause(RowFilter[a]))

\* "drift must never break a data read": a read that was begun returns, whatever
\* becomes of its recording, unless its process dies.
ReadsReturn ==
    \A r \in Readers : (pc[r] # "idle") ~> (pc[r] = "idle" /\ outcome[r] \in {"returned", "queried", "registered", "died"})
===============================================================================
