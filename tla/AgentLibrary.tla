----------------------------- MODULE AgentLibrary -----------------------------
(***************************************************************************)
(* The library of the agents (payload_agents/_lib): the sandboxed write    *)
(* tools, the chunking of a source file and the classification of a        *)
(* repository.  They share no state: a behaviour is agents using the       *)
(* tools, or one call of either analysis, and what the others would use    *)
(* stays as it is.                                                         *)
(***************************************************************************)
EXTENDS FileTools, Chunker, RepoClassifier

VARIABLE part   \* which part of the library the behaviour is about

vars == <<part, writeVars, chunkVars, repoVars>>

\* One first state of each part, for the behaviours that are about another one.
ToolsIdle ==
    ToolsInit /\ <<flags, rooted, links>> = CHOOSE x \in FlagSets \X {TRUE} \X [Names -> Sandbox] : TRUE
ChunkerIdle ==
    Call /\ cutting = FALSE /\ total = 1 /\ wide = FALSE /\ target = CHOOSE t \in Targets : TRUE
ClassifierIdle ==
    ClassifyCall /\ repo = {} /\ gathering = FALSE

Init ==
    \/ part = "tools" /\ ToolsInit /\ ChunkerIdle /\ ClassifierIdle
    \/ part = "chunker" /\ Call /\ cutting = TRUE /\ ToolsIdle /\ ClassifierIdle
    \/ part = "classifier" /\ ClassifyCall /\ gathering = TRUE /\ ToolsIdle /\ ChunkerIdle

Next ==
    /\ \/ part = "tools" /\ ToolsStep /\ UNCHANGED <<chunkVars, repoVars>>
       \/ part = "chunker" /\ ChunkStep /\ UNCHANGED <<writeVars, repoVars>>
       \/ part = "classifier" /\ ClassifyStep /\ UNCHANGED <<writeVars, chunkVars>>
    /\ UNCHANGED part

Spec == Init /\ [][Next]_vars
===============================================================================
