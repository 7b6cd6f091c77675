---------------------------- MODULE RepoClassifier ----------------------------
(***************************************************************************)
(* classify_repo (payload_agents/_lib/repo_classifier.py): the files of a  *)
(* repository are gathered up to a cap, in whatever order the file system  *)
(* lists them, each type of codebase is scored by the signals found, and   *)
(* the best one that clears its own threshold wins.  Scores are in         *)
(* hundredths.                                                             *)
(***************************************************************************)
EXTENDS Naturals, FiniteSets, Sequences

CONSTANTS
    Types,              \* _TYPES: the signals of each type, in the order of the table
    RepoFiles,          \* files a repository may have, with the signals each carries
    MAX_FILES_TO_SCAN

\* A row of the table; "none" and "unknown" are no types.
Signatures ==
    [codebase_type : STRING \ {"none", "unknown"}, files_required : SUBSET STRING,
     files_any_of : SUBSET STRING, content_patterns : SUBSET STRING,
     dir_patterns : SUBSET STRING, infra_markers : SUBSET STRING,
     confidence_threshold : Nat \ {0}]

\* A file has a name, may be under an ignored directory, matches globs, lies in
\* directories; a readable file of a text type has contents, and infrastructure
\* markers too if it is of one of four types.
ASSUME ClassifierAssumption ==
    /\ MAX_FILES_TO_SCAN \in Nat \ {0}
    /\ Types \in Seq(Signatures)
    /\ \A i \in DOMAIN Types :
          /\ IsFiniteSet(Types[i].files_required) /\ IsFiniteSet(Types[i].files_any_of)
          /\ IsFiniteSet(Types[i].content_patterns) /\ IsFiniteSet(Types[i].dir_patterns)
          /\ IsFiniteSet(Types[i].infra_markers)
    /\ IsFiniteSet(RepoFiles)
    /\ RepoFiles \subseteq [name : STRING, ignored : BOOLEAN, signals : SUBSET STRING]

VARIABLES
    repo,           \* the files under the root
    listed,         \* those that rglob has yielded
    all_files,      \* those that were gathered
    codebase_type,  \* the answer: a type, "none", or "unknown" before it is given
    gathering,      \* the loop over the files is running
    considered,     \* types the loop that determines the winner has been through
    winner          \* winner_type, winner_score and winner_threshold

fileSets == <<repo, listed, all_files>>
repoVars == <<fileSets, codebase_type, gathering, considered, winner>>

TypeNames == {Types[i].codebase_type : i \in DOMAIN Types}
NoWinner == [type |-> "none", score |-> 0, threshold |-> 0]

RepoTypeOK ==
    /\ repo \subseteq RepoFiles /\ listed \subseteq repo /\ all_files \subseteq listed
    /\ codebase_type \in TypeNames \cup {"none", "unknown"}
    /\ gathering \in BOOLEAN
    /\ considered \in 0 .. Len(Types)
    /\ winner \in [type : TypeNames \cup {"none"}, score : Nat, threshold : Nat]

ClassifyCall ==
    /\ repo \in SUBSET RepoFiles
    /\ listed = {} /\ all_files = {} /\ codebase_type = "unknown"
    /\ considered = 0 /\ winner = NoWinner

is_ignored(f) == f.ignored

Capped(files) == Cardinality(files) >= MAX_FILES_TO_SCAN

\* The next path of root.rglob("*"), until the cap is reached.
Gather ==
    /\ gathering
    /\ \E f \in repo \ listed :
          /\ listed' = listed \cup {f}
          /\ all_files' = IF is_ignored(f) THEN all_files ELSE all_files \cup {f}
    /\ gathering' = ~Capped(all_files')
    /\ UNCHANGED <<repo, codebase_type, considered, winner>>

\* There is no further path.
ListingEnds ==
    /\ gathering /\ listed = repo
    /\ gathering' = FALSE
    /\ UNCHANGED <<fileSets, codebase_type, considered, winner>>

\* How many of some signals any of the files carries.
Found(signals, files) ==
    Cardinality({s \in signals : \E f \in files : s \in f.signals})

\* A type whose required files are not all there scores nothing.
Score(sig, files) ==
    IF \E req \in sig.files_required : \A f \in files : f.name # req THEN 0
    ELSE 30 * Cardinality(sig.files_required)
         + 10 * Found(sig.files_any_of, files) + 15 * Found(sig.content_patterns, files)
         + 10 * Found(sig.dir_patterns, files) + 20 * Found(sig.infra_markers, files)

\* Mutant of Beats: a type that ties on the score and on the threshold wins too.
BeatsOrTies(sig, score) ==
    \/ score > winner.score
    \/ score = winner.score /\ sig.confidence_threshold >= winner.threshold

\* A higher score wins, in a tie the higher threshold.
Beats(sig, score) ==
    \/ score > winner.score
    \/ score = winner.score /\ sig.confidence_threshold > winner.threshold

\* The loop that determines the winner, at its next type.
Consider ==
    /\ ~gathering /\ considered < Len(Types)
    /\ LET sig == Types[considered + 1]
           score == Score(sig, all_files)
       IN  winner' = IF score >= sig.confidence_threshold /\ Beats(sig, score)
                     THEN [type |-> sig.codebase_type, score |-> score,
                           threshold |-> sig.confidence_threshold]
                     ELSE winner
    /\ considered' = considered + 1
    /\ UNCHANGED <<fileSets, codebase_type, gathering>>

Classify ==
    /\ codebase_type = "unknown" /\ ~gathering /\ considered = Len(Types)
    /\ codebase_type' = winner.type
    /\ UNCHANGED <<fileSets, gathering, considered, winner>>

ClassifyStep == Gather \/ ListingEnds \/ Consider \/ Classify

-------------------------------------------------------------------------------
(***************************************************************************)
(* Properties                                                              *)
(***************************************************************************)

\* The state is well typed; and "deterministic", "fully reproducible": as long as the
\* files that count are no more than the cap, the answer depends on the repository
\* and the table and not on the order the files are listed in.  It is the type of the
\* one row that clears its threshold on all the files and that no other such row
\* betters: none has more signals, none as many and a higher threshold, and none that
\* is its equal in both stands before it; "none" means that no row clears.
ClassificationReproducible ==
    LET files == {f \in repo : ~is_ignored(f)}
        Clears(sig) == Score(sig, files) >= sig.confidence_threshold
    IN  RepoTypeOK /\ (codebase_type # "unknown" /\ Cardinality(files) <= MAX_FILES_TO_SCAN =>
            IF codebase_type = "none" THEN \A i \in DOMAIN Types : ~Clears(Types[i])
            ELSE \E w \in DOMAIN Types :
                    /\ Types[w].codebase_type = codebase_type /\ Clears(Types[w])
                    /\ \A i \in DOMAIN Types :
                          Clears(Types[i]) =>
                              \/ Score(Types[i], files) < Score(Types[w], files)
                              \/ /\ Score(Types[i], files) = Score(Types[w], files)
                                 /\ \/ Types[i].confidence_threshold < Types[w].confidence_threshold
                                    \/ /\ Types[i].confidence_threshold = Types[w].confidence_threshold
                                       /\ w <= i)
===============================================================================
