-------------------------- MODULE MCSlottedAccess --------------------------
(* An instance of AgentMedia for TLC: on the slots, two agents, one of     *)
(* which is asked for fewer decisions; devices of one kind in a run.       *)
EXTENDS AgentMedia, TLC

MCAgents == {0, 1}
MCAP == 2
MCSlots == 0 :> 2 @@ 1 :> 1
MCKinds == {[d \in MCAgents |-> k] : k \in {"agent", "aloha", "csma", "qcsma"}}
=============================================================================
