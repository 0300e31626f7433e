----------------------------- MODULE MCDiscovery -----------------------------
(* Discovery on two addresses, and the search for a file on three routers     *)
(* that are connected in a triangle, the smallest network with a cycle.  They *)
(* share no state: `moving` says which of the two takes the steps of a        *)
(* behaviour.  The clock of router z is one unit ahead of the others', and a  *)
(* query can wait on its connection for longer than it counts as a duplicate. *)
EXTENDS Discovery, FileSearch

VARIABLE moving

MCConnections == {{"x", "y"}, {"y", "z"}, {"x", "z"}}
MCUptime == [r \in Routers |-> IF r = "z" THEN 1 ELSE 0]

MCInit == moving \in {"discovery", "search"} /\ Init /\ SearchInit

MCNext ==
    \/ moving = "discovery" /\ Next /\ UNCHANGED <<moving, searchVars>>
    \/ moving = "search" /\ SearchNext /\ UNCHANGED <<moving, vars>>

\* the fairness of FairSpec and of FairSearchSpec
MCSpec ==
    /\ MCInit /\ [][MCNext]_<<moving, vars, searchVars>>
    /\ WF_<<moving, vars, searchVars>>(moving = "discovery" /\ UNCHANGED <<moving, searchVars>>
                                       /\ (Tick \/ \E n \in Nodes : Steps(n)))
    /\ WF_<<moving, vars, searchVars>>(moving = "search" /\ UNCHANGED <<moving, vars>>
                                       /\ Deliver)
=============================================================================
