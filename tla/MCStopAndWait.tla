--------------------------- MODULE MCStopAndWait ---------------------------
(* Instances of StopAndWait for TLC: the constants are in the .cfg files.  *)
EXTENDS StopAndWait
=============================================================================
