---------------------------- MODULE MCAgentBuild ----------------------------
(* Model-checking instance of AgentBuild: one agent of the Agent Framework and *)
(* one of LangGraph that share a secret provider, or not.                      *)
EXTENDS AgentBuild

CONSTANTS maf, graph, client_
BuiltAgents == {maf, graph}
KeyCallers == BuiltAgents \cup {client_}
Frameworks == [a \in BuiltAgents |-> IF a = maf THEN "maf" ELSE "langgraph"]
=============================================================================
