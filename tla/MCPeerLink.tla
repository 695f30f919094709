----------------------------- MODULE MCPeerLink -----------------------------
(* Instances of PeerLink for TLC.                                          *)
EXTENDS PeerLink

(* The two standard graphs; a line given as an edge list, with an edge     *)
(* repeated from its other end and a node in none; and a line whose ends   *)
(* exchange before its middle does.                                        *)
MCTopologies == {[kind |-> "ring"], [kind |-> "full"],
                 [kind |-> "custom", list |-> << <<2, 1>>, <<0, 1>>, <<1, 2>> >>],
                 [kind |-> "custom", list |-> << <<2, 3>>, <<0, 1>>, <<1, 2>> >>]}

(* The same --steps in every terminal, and one terminal given fewer.       *)
MCStepLimits == {[n \in Nodes |-> 2], [n \in Nodes |-> IF n = 0 THEN 1 ELSE 2]}
=============================================================================
