-------------------------- MODULE ReliableTransfer --------------------------
(***************************************************************************)
(* What the stop-and-wait link promises, whatever the radio does: a chunk  *)
(* is confirmed to the sender only after the receiver holds it, and a run  *)
(* is reported as a success only when every chunk has been confirmed.      *)
(* Delivery may outrun confirmation for ever: a lost acknowledgement       *)
(* leaves a delivered chunk unconfirmed.                                   *)
(***************************************************************************)
CONSTANT Chunks

VARIABLES delivered,   \* chunks the receiver holds
          confirmed,   \* chunks the sender knows the receiver holds
          verdict      \* what the sender has reported of the run

vars == <<delivered, confirmed, verdict>>

Verdicts == {"pending", "success", "partial", "aborted"}

Init == /\ delivered = {}
        /\ confirmed = {}
        /\ verdict = "pending"

Deliver(c) == /\ c \notin delivered
              /\ delivered' = delivered \cup {c}
              /\ UNCHANGED <<confirmed, verdict>>

Confirm(c) == /\ verdict = "pending"
              /\ c \in delivered \ confirmed
              /\ confirmed' = confirmed \cup {c}
              /\ UNCHANGED <<delivered, verdict>>

Conclude(v) == /\ verdict = "pending"
               /\ v # "pending"
               /\ v = "success" => confirmed = Chunks
               /\ v = "partial" => confirmed # Chunks
               /\ verdict' = v
               /\ UNCHANGED <<delivered, confirmed>>

Next == \/ \E c \in Chunks : Deliver(c) \/ Confirm(c)
        \/ \E v \in Verdicts : Conclude(v)

Spec == Init /\ [][Next]_vars
=============================================================================
