------------------------------ MODULE DataScope ------------------------------
(***************************************************************************)
(* What one data read is allowed to see: DataAccessMediator.authorize and  *)
(* InProcessEnforcer (governance/extensions/data_fgac.py) over the         *)
(* classification catalog (data_classification.py).  Whether a policy      *)
(* permits a label is decided by agent_os; a label is reduced to its       *)
(* classification, and a policy to the classifications it permits.  The    *)
(* decision is enforced on rows already fetched or by the store            *)
(* (AwsLakeFormationEnforcer, cloud_adapters/aws/data_fgac.py).            *)
(***************************************************************************)
EXTENDS Naturals, FiniteSets, FiniteSetsExt

CONSTANTS
    AgentTypes,     \* agent types
    Tables,         \* dataset.table
    Columns,        \* columns of all tables
    Values,         \* values of a cell
    Mask,           \* _MASK
    Denied,         \* no policy, the request is out of scope
    Labels,         \* classification of the columns the catalog names, by table
    Clearance,      \* classifications each agent's policies permit, or Denied
    AlwaysMasked,   \* masked_columns of each agent's enforcement scope
    RowFilter       \* row_filter of each agent's enforcement scope

\* DataClassification: PUBLIC is 0, RESTRICTED 3, TOP_SECRET 4.
Levels == 0 .. 4
Restricted == 3

\* What from_dict makes of a file.
WellFormedCatalog ==
    /\ \A t \in Tables : /\ DOMAIN Labels[t] \subseteq Columns
                        /\ \A c \in DOMAIN Labels[t] : Labels[t][c] \in Levels
    /\ \A a \in AgentTypes : Clearance[a] = Denied \/ Clearance[a] \subseteq Levels
    /\ \A a \in AgentTypes : AlwaysMasked[a] \subseteq Columns /\ DOMAIN RowFilter[a] \subseteq Columns

ASSUME CatalogAssumption == WellFormedCatalog /\ Mask \notin Values /\ IsFiniteSet(Columns)

\* Mutant of LabelFor: a column nobody classified is public.
LabelForOpen(t, c) == IF c \in DOMAIN Labels[t] THEN Labels[t][c] ELSE 0

\* label_for: a column the catalog does not name is restricted.
LabelFor(t, c) == IF c \in DOMAIN Labels[t] THEN Labels[t][c] ELSE Restricted

\* DataAccessEvaluator.evaluate of agent_os.
Permits(a, level) == level \in Clearance[a]

\* authorize: no policy denies the request, a column is masked unless the policy
\* permits its label and the scope does not mask it always.
Authorize(a, t, columns) ==
    IF Clearance[a] = Denied
    THEN [denied |-> TRUE, allowed |-> {}, masked |-> {}]
    ELSE LET masked == {c \in columns : ~Permits(a, LabelFor(t, c)) \/ c \in AlwaysMasked[a]}
         IN  [denied |-> FALSE, allowed |-> columns \ masked, masked |-> masked]

\* _passes_row_filter: a filtered column that the row does not have filters nothing.
PassesRowFilter(row, filter) ==
    \A c \in DOMAIN filter : c \in DOMAIN row => row[c] \in filter[c]

\* A row as InProcessEnforcer projects it: columns that are neither allowed nor
\* masked are dropped.
Projected(row, decision) ==
    [c \in DOMAIN row \cap (decision.allowed \cup decision.masked) |->
        IF c \in decision.masked THEN Mask ELSE row[c]]

\* InProcessEnforcer.apply; the row filter belongs to the decision.
Enforced(a, decision, rows) ==
    IF decision.denied THEN {}
    ELSE {Projected(row, decision) : row \in {r \in rows : PassesRowFilter(r, RowFilter[a])}}

\* The WHERE clause of a decision: a column that no value is allowed for is left
\* out of it, though in-process such a filter lets no row through.
Clause(filter) == [c \in {c \in DOMAIN filter : filter[c] # {}} |-> filter[c]]

\* What the SELECT of scoped_query returns.  A masked column is a literal, so the
\* table need not have it; the query fails if the table lacks another column.  Asked
\* for no column it selects a literal, here a row that shows nothing.
ScopedQuery(a, decision, rows) ==
    LET filter == Clause(RowFilter[a])
        columns == decision.allowed \cup decision.masked
    IN  IF \E row \in rows : ~(decision.allowed \cup DOMAIN filter \subseteq DOMAIN row) THEN {}
        ELSE {[c \in columns |-> IF c \in decision.masked THEN Mask ELSE row[c]] :
                 row \in {row \in rows : \A c \in DOMAIN filter : row[c] \in filter[c]}}

\* The data-cells filter registered for a decision, denied or not: the columns it
\* includes and the rows it lets through.
DataCellsFilter(a, decision) ==
    [columns |-> decision.allowed,
     rows |-> IF decision.denied THEN [c \in {} |-> {}] ELSE Clause(RowFilter[a])]

\* What any engine returns through such a filter.
ThroughFilter(f, rows) ==
    {[c \in f.columns \cap DOMAIN row |-> row[c]] :
        row \in {row \in rows : PassesRowFilter(row, f.rows)}}

\* _record: the highest classification asked for, allowed or not.
MaxSensitivity(t, columns) == Max({LabelFor(t, c) : c \in columns} \cup {0})
===============================================================================
