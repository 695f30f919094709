--------------------------- MODULE MCModemThreads ---------------------------
(* Every role of the modem process, with one or two of the stages of the   *)
(* single-carrier receiver that only hand blocks on standing for them all. *)
EXTENDS ModemThreads

MCLeftOut == [r \in AllRoles |->
  CASE r = "sink" -> {"AGC", "CFO", "phase_offset"}
    [] r = "collect" -> {"match_filter", "channel_eq"}
    [] r = "demand" -> {"pulse_shaping"}
    [] OTHER -> {}]
=============================================================================
