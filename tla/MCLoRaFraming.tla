--------------------------- MODULE MCLoRaFraming ---------------------------
(* Instances of LoRaFraming and LoRaExchange for TLC, one or the other in  *)
(* an execution: the fragments of messages, and what the ends of a link    *)
(* make of messages of one fragment.                                       *)
EXTENDS LoRaFraming, LoRaExchange, TLC

MCSenders == {0, 1}
MCReceivers == {2, 3}

(* Two pairs within hearing of each other: messages of two and one         *)
(* fragments on one, a message of two fragments on the other.              *)
TwoPairs == 0 :> 2 @@ 1 :> 3
PairsFragments == 0 :> <<2, 1>> @@ 1 :> <<2>>

(* Two neighbours of one node, a message of two fragments each.  With these*)
(* in the configuration ReturnedIsOneMessage is violated: the Reassembler  *)
(* does not look at who sent a fragment.                                   *)
OneReceiver == {2}
BothToOne == 0 :> 2 @@ 1 :> 2
NeighboursFragments == 0 :> <<2>> @@ 1 :> <<2>>

-----------------------------------------------------------------------------
(* The one that is not run is over: nobody sends, nobody listens.          *)
NoMessages ==
  /\ phase = [s \in Senders |-> "idle"]
  /\ msg = [s \in Senders |-> 1] /\ frag = [s \in Senders |-> 0]
  /\ tries = [s \in Senders |-> 0] /\ sent = {}
  /\ asm = [r \in Receivers |-> Fresh] /\ out = [r \in Receivers |-> <<>>]
  /\ cutShort = {} /\ heard = [n \in Nodes |-> <<>>]

NoExchange ==
  /\ layout = "pair" /\ far = FALSE /\ peer = [n \in Stations |-> 0]
  /\ stage = [n \in Stations |-> "done"] /\ attempt = [n \in Stations |-> 0]
  /\ id = [n \in Stations |-> 0] /\ hold = [n \in Stations |-> 0]
  /\ inbox = [n \in Stations |-> <<>>] /\ answers = <<>> /\ vain = 0

MCInit == (FramingInit /\ NoExchange) \/ (ExchangeInit /\ NoMessages)
MCNext == (FramingNext /\ UNCHANGED exchangeVars) \/ (ExchangeNext /\ UNCHANGED framingVars)
MCSpec == MCInit /\ [][MCNext]_<<framingVars, exchangeVars>>
=============================================================================
