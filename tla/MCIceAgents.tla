---------------------------- MODULE MCIceAgents -----------------------------
(***************************************************************************)
(* Two agents and two pairs of the same foundation, so that the second     *)
(* pair is frozen at first.  No two pairs have the same priority, and the  *)
(* cast to TInt leaves their order as it is.                               *)
(***************************************************************************)
EXTENDS IceAgents

MCFoundation == [p \in Pair |-> "host"]
MCTieBreaker == [a |-> 1, b |-> 2]
MCPriority == [a |-> <<6, 4>>, b |-> <<6, 5>>]

MCRoles(ra, rb) == [a |-> ra, b |-> rb]
Agreed == MCRoles("controlling", "controlled")
Conflict == {MCRoles(role, role) : role \in Role}

\* All arrives; one pair does not work; neither, and the roles are in conflict;
\* one pair does not work and the callbacks of one agent are late
MCSetting ==
    [role : {Agreed}, broken : {{}, {1}, {2}}, delayed : {{}}]
    \cup [role : Conflict, broken : {{1}, {2}}, delayed : {{}}]
    \cup [role : {Agreed}, broken : {{2}}, delayed : {{"a"}, {"b"}}]
=============================================================================
