---------------------------- MODULE MCA2ADispatch ----------------------------
(* Instance of A2ADispatch: the registry shape of payload_agents/config.   *)
EXTENDS A2ADispatch
CONSTANTS FinOps, Auditor, Rogue, Ghost
\* finops.yaml lists the Auditor; the Auditor is given a recipient here so that
\* calls nest two deep; rogue.yaml lists nobody; the ghost has no file.
MCRegistered == {FinOps, Auditor, Rogue}
MCRecipients == [a \in MCRegistered |-> IF a = FinOps THEN {Auditor}
                                        ELSE IF a = Auditor THEN {Rogue} ELSE {}]
\* A sender may also pass a list its configuration does not have.
MCAllowLists == {{Rogue}}
===============================================================================
