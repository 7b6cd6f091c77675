----------------------------- MODULE MCDataAccess -----------------------------
(* Instance of DataAccess: an agent with a policy and one without, a table  *)
(* within clearance with a column nobody classified, and one above it.      *)
EXTENDS DataAccess
CONSTANTS FinOps, Rogue, r1, r2
MCLabels == [billing |-> [region |-> 1, email |-> 2], employees |-> [salary |-> 4]]
MCClearance == (FinOps :> {0, 1, 2}) @@ (Rogue :> Denied)
MCAlwaysMasked == (FinOps :> {"email"}) @@ (Rogue :> {})
MCRowFilter == (FinOps :> [region |-> {"us"}, salary |-> {}]) @@ (Rogue :> [region |-> {"apac"}])
MCRows ==
    [billing |-> {[region |-> "us", email |-> "x", tax |-> "x"],
                  [region |-> "eu", email |-> "x", tax |-> "y"]},
     employees |-> {[region |-> "us", salary |-> "x"]}]
MCRequests ==
    {[agent |-> FinOps, table |-> "billing", columns |-> {"region", "email", "tax"}],
     [agent |-> FinOps, table |-> "employees", columns |-> {"salary"}],
     [agent |-> Rogue, table |-> "billing", columns |-> {"region"}]}
===============================================================================
