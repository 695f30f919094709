----------------------------- MODULE MCPrograms -----------------------------
(* The two families of programs that start radio processes and live with   *)
(* what becomes of them, one or the other in an execution: the federated   *)
(* rounds (FederatedRounds) and the fires of the random access programs    *)
(* (WarmFires).                                                            *)
EXTENDS FederatedRounds, WarmFires

MCKinds == {"compressed", "full", "mock", "sgd"}
MCVariants == {"mock", "logical", "physical", "single", "agent", "ber"}

-----------------------------------------------------------------------------
(* The family that is not run has ended.                                   *)
NoFires ==
  /\ variant = "mock" /\ pc = "ended" /\ t = 0
  /\ queue = [a \in Radios |-> 0] /\ delivered = [a \in Radios |-> 0]
  /\ flags = {} /\ res = [a \in Radios |-> "none"]
  /\ source = [a \in Radios |-> "closed"] /\ again = FALSE
  /\ ackIn = [a \in Radios |-> <<>>]
  /\ station = "down" /\ backlog = <<>> /\ guest = NoOne /\ sinkDone = FALSE
  /\ fifo = <<>> /\ crashes = 0 /\ sent = {} /\ heard = {} /\ credits = {}
  /\ carried = {} /\ dropped = {}

NoRounds ==
  /\ kind = "mock" /\ up = "radio" /\ down = "radio" /\ clients = 1 /\ near = {1}
  /\ long = FALSE /\ spc = "ended" /\ sround = 0 /\ turn = 1 /\ deltas = {}
  /\ model = <<>> /\ cpc = [c \in ClientIds |-> "ended"]
  /\ cround = [c \in ClientIds |-> 0] /\ cmodel = [c \in ClientIds |-> <<>>]
  /\ src = [p \in Nodes |-> "off"] /\ sink = [p \in Nodes |-> "off"]
  /\ peer = [p \in Nodes |-> p] /\ file = [p \in Nodes |-> <<>>]
  /\ netUp = [c \in ClientIds |-> <<>>] /\ netDown = [c \in ClientIds |-> <<>>]
  /\ greeting = [c \in ClientIds |-> "none"]
  /\ lost = {}

MCInit == (RoundsInit /\ NoFires) \/ (FiresInit /\ NoRounds)
MCNext == (RoundsNext /\ UNCHANGED firesVars) \/ (FiresNext /\ UNCHANGED roundsVars)
MCSpec == MCInit /\ [][MCNext]_<<roundsVars, firesVars>> /\ Fairness /\ FiresFairness

-----------------------------------------------------------------------------
(* The federated programs end unless something was lost for good, and of   *)
(* the fires every one reports, every epoch is booked, the program ends.   *)
EveryProgramEnds == EndsUnlessLost /\ ProgramEnds
=============================================================================
