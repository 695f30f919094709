----------------------------- MODULE MCTcpStar -----------------------------
(* Instances of TcpStar for TLC: the same --steps for everybody, and one   *)
(* client that is asked for fewer; every payload good, one client's first  *)
(* not, one client's last not, or nobody's first.                          *)
EXTENDS TcpStar

MCClients == 0..2
MCStepLimits == {[k \in MCClients |-> 2], [k \in MCClients |-> IF k = 0 THEN 1 ELSE 2]}
MCSpoilings == {{}, {<<0, 1>>}, {<<2, 2>>}, MCClients \X {1}}
MCMayCrash == {1}
=============================================================================
