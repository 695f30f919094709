--------------------------- MODULE MCLinkBringUp ---------------------------
(* The link files and sweeps for TLC.                                       *)
EXTENDS LinkBringUp

(* Both carriers surveyed, both pinned, so that a sink may come to listen   *)
(* without a survey, and the data carrier pinned and its band not named.    *)
MCLinks == {[data |-> 0, ack |-> 0, surveys |-> Boxes],
            [data |-> 40, ack |-> 60, surveys |-> Boxes],
            [data |-> 40, ack |-> 0, surveys |-> {"source"}]}

(* A sweep measured at every point but those of power Failed.               *)
Failed == 99
Measured(powers) ==
  SelectSeq([i \in DOMAIN powers |-> [at |-> i, db |-> powers[i]]],
            LAMBDA row : row.db # Failed)

MCSweeps == {Measured(<<0, 0, 9, 0, 9>>), Measured(<<0, 9, 0, Failed, 1, 9, 1>>)}
MCNoise == {None, 10}
MCPeaks == {15, 30}
=============================================================================
