---------------------------- MODULE FrameworkRuns ----------------------------
(***************************************************************************)
(* The runs of an agent in all four frameworks: three adapters around the  *)
(* guard pipeline (GovernedRun), and the Agent Framework with middleware   *)
(* of its own (MafRun).  An agent is built for one framework: a behaviour  *)
(* is about that one, and the rest stays as it is.                         *)
(***************************************************************************)
EXTENDS GovernedRun, MafRun

VARIABLE built  \* what the agent was built on: "pipeline" or "middleware"

frameworkVars == <<built, vars, mafVars>>

FrameworkInit ==
    \/ /\ built = "pipeline" /\ Init
       /\ MafInit /\ guards = {} /\ mode = "deny"
    \/ /\ built = "middleware" /\ MafInit
       /\ Init /\ framework = "raw" /\ cred_mode = "deny"

FrameworkNext ==
    /\ \/ built = "pipeline" /\ Next /\ UNCHANGED mafVars
       \/ built = "middleware" /\ MafNext /\ UNCHANGED vars
    /\ UNCHANGED built

\* A run goes on until it ends: the model and the tools answer or raise, which
\* no adapter bounds by a timeout of its own.  The middleware's properties are safety.
FrameworkSpec ==
    /\ FrameworkInit /\ [][FrameworkNext]_frameworkVars
    /\ WF_frameworkVars(built = "pipeline" /\ RunStep /\ UNCHANGED <<built, mafVars>>)
===============================================================================
