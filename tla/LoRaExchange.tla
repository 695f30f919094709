---------------------------- MODULE LoRaExchange ----------------------------
(***************************************************************************)
(* One end of a LoRa link per process (drivers/lora/python/lora_driver.py, *)
(* LoRaLink.step): the initiator sends and listens, the responder listens  *)
(* and answers, a relay between them forwards and carries the answer back. *)
(* Messages of one fragment each, by framing.py's stop-and-wait, over any  *)
(* of the three attachments of lora_radio.py: a radio keeps what it hears  *)
(* until the next recv, whoever waits for what by then.                    *)
(*                                                                         *)
(* A request and its answer are the number of the round they are about;    *)
(* the frames do not say it.  Whether send_message succeeded is not looked *)
(* at.  Any deadline may pass at any moment of its wait.                   *)
(***************************************************************************)
EXTENDS Naturals, Sequences, FiniteSets

CONSTANTS
  Rounds,         \* rounds the initiator's application wants
  SendAttempts,   \* max_attempts
  Patience,       \* bound: listenings and messages in vain
  RadioCap        \* bound: frames a radio holds; beyond it they are not heard

VARIABLES
  layout,    \* "pair": 0 and 1; "chain": 0, 1 the relay, 2
  far,       \* nodes 0 and 2 do not hear one another
  peer,      \* whom each node answers or asks
  stage,     \* "send", "await", "listen", "done"; a relay also "onSend",
             \* "onAwait", "back" before and after its listening for the answer
  attempt, id,
  hold,      \* what the node's application would produce: the round it is about
  inbox,
  answers,   \* initiator: what each round adopted; 0 for nothing
  vain       \* listenings, and messages' last attempts, that were in vain

exchangeVars == <<layout, far, peer, stage, attempt, id, hold, inbox, answers, vain>>
place == <<layout, far, peer>>

Stations == 0..2
Role(n) == CASE n = 0 -> "tx"
             [] n = 1 -> IF layout = "pair" THEN "rx" ELSE "relay"
             [] OTHER -> IF layout = "pair" THEN "absent" ELSE "rx"

(* Operators named X_... are X with a plausible slip of the programmer; no *)
(* specification uses them.                                                *)

(* The other end by default: node 2, whatever its neighbour, answers 0.    *)
DefaultPeer(n) == IF n < 2 THEN 1 - n ELSE 0

ExchangeInit ==
  /\ layout \in {"pair", "chain"} /\ far \in BOOLEAN
  /\ peer \in {[n \in Stations |-> DefaultPeer(n)],
               [n \in Stations |-> IF n = 2 THEN 1 ELSE DefaultPeer(n)]}
  /\ layout = "pair" => ~far /\ peer[2] = 0
  /\ stage = [n \in Stations |-> CASE Role(n) = "tx" -> IF Rounds = 0 THEN "done" ELSE "send"
                             [] Role(n) = "absent" -> "done"
                             [] OTHER -> "listen"]
  /\ attempt = [n \in Stations |-> 0] /\ id = [n \in Stations |-> 0]
  /\ hold = [n \in Stations |-> IF n = 0 THEN 1 ELSE 0]
  /\ inbox = [n \in Stations |-> <<>>]
  /\ answers = <<>> /\ vain = 0

Hears(m, n) == m # n /\ stage[m] # "done" /\ ~(far /\ {m, n} = {0, 2})

(* SimMedium.carry, or the air: any radio in reach hears the frame, or not.*)
Carry(f, n, after) ==
  \E ears \in SUBSET {m \in Stations : /\ Hears(m, n) /\ f.dst = m
                                    /\ Len(after[m]) < RadioCap} :
    inbox' = [m \in Stations |-> IF m \in ears THEN Append(after[m], f) ELSE after[m]]
Taken(n) == [inbox EXCEPT ![n] = Tail(@)]

-----------------------------------------------------------------------------
To(n) == IF Role(n) = "relay" /\ stage[n] = "onSend" THEN n + 1 ELSE peer[n]
AfterSend(n) == CASE stage[n] = "onAwait" -> "back" [] OTHER -> "listen"

Number(n) == (id[n] + 1) % 256

SendFrame(n) ==
  /\ stage[n] \in {"send", "onSend"}
  /\ Carry([kind |-> "data", src |-> n, dst |-> To(n), id |-> Number(n),
                about |-> hold[n]], n, inbox)
  /\ stage' = [stage EXCEPT ![n] = IF @ = "send" THEN "await" ELSE "onAwait"]
  /\ UNCHANGED <<place, attempt, id, hold, answers, vain>>

(* send_message returns; the next message has the next number.             *)
SendReturns(n) ==
  /\ stage' = [stage EXCEPT ![n] = AfterSend(n)]
  /\ attempt' = [attempt EXCEPT ![n] = 0]
  /\ id' = [id EXCEPT ![n] = Number(n)]

(* _await_ack: whatever else is in the radio is dropped.                   *)
IsAckOf(f, n) == f.kind = "ack" /\ f.id = Number(n)
Flushed_SetAside(n) == Append(Tail(inbox[n]), Head(inbox[n]))
Flushed(n) == Tail(inbox[n])

AwaitAck(n) ==
  /\ stage[n] \in {"await", "onAwait"} /\ inbox[n] # <<>>
  /\ IF IsAckOf(Head(inbox[n]), n)
     THEN SendReturns(n) /\ inbox' = Taken(n)
     ELSE inbox' = [inbox EXCEPT ![n] = Flushed(n)] /\ UNCHANGED <<stage, attempt, id>>
  /\ UNCHANGED <<place, hold, answers, vain>>

AwaitExpires(n) ==
  /\ stage[n] \in {"await", "onAwait"}
  /\ IF attempt[n] + 1 = SendAttempts
     THEN vain < Patience /\ SendReturns(n) /\ vain' = vain + 1
     ELSE /\ attempt' = [attempt EXCEPT ![n] = @ + 1]
          /\ stage' = [stage EXCEPT ![n] = IF @ = "await" THEN "send" ELSE "onSend"]
          /\ UNCHANGED <<id, vain>>
  /\ UNCHANGED <<place, hold, inbox, answers>>

-----------------------------------------------------------------------------
(* recv_message has returned a message about "what", or nothing (0), and   *)
(* the rest of step(): consume, produce.                                   *)
Concluded(n, what) ==
  CASE Role(n) = "tx" ->
         /\ answers' = Append(answers, what)
         /\ hold' = [hold EXCEPT ![n] = @ + 1]
         /\ stage' = [stage EXCEPT ![n] = IF Len(answers) + 1 = Rounds THEN "done" ELSE "send"]
    [] Role(n) = "rx" ->
         /\ hold' = [hold EXCEPT ![n] = IF what = 0 THEN @ ELSE what]
         /\ stage' = [stage EXCEPT ![n] = IF hold'[n] = 0 THEN "listen" ELSE "send"]
         /\ UNCHANGED answers
    [] Role(n) = "relay" /\ stage[n] = "listen" ->
         /\ hold' = [hold EXCEPT ![n] = IF what = 0 THEN @ ELSE what]
         /\ stage' = [stage EXCEPT ![n] = IF hold'[n] = 0 THEN "back" ELSE "onSend"]
         /\ UNCHANGED answers
    [] OTHER ->
         /\ hold' = [hold EXCEPT ![n] = IF what = 0 THEN @ ELSE what]
         /\ stage' = [stage EXCEPT ![n] = IF what = 0 THEN "listen" ELSE "send"]
         /\ UNCHANGED answers

Recv(n) ==
  /\ stage[n] \in {"listen", "back"} /\ inbox[n] # <<>>
  /\ LET f == Head(inbox[n]) IN
       IF f.kind = "data"
       THEN /\ Carry([kind |-> "ack", src |-> n, dst |-> f.src, id |-> f.id], n, Taken(n))
            /\ Concluded(n, f.about)
       ELSE inbox' = Taken(n) /\ UNCHANGED <<stage, hold, answers>>
  /\ UNCHANGED <<place, attempt, id, vain>>

RecvExpires(n) ==
  /\ stage[n] \in {"listen", "back"}
  /\ vain < Patience
  /\ Concluded(n, 0)
  /\ vain' = vain + 1
  /\ UNCHANGED <<place, attempt, id, inbox>>

Step(n) == SendFrame(n) \/ AwaitAck(n) \/ AwaitExpires(n) \/ Recv(n) \/ RecvExpires(n)

ExchangeNext == \E n \in Stations : Step(n)
ExchangeSpec == ExchangeInit /\ [][ExchangeNext]_exchangeVars

-----------------------------------------------------------------------------
(* Nothing in an answer says which round it is of; yet where it comes back *)
(* the way the request went, and as long as nobody has listened in vain    *)
(* nor given a message up, what the initiator adopts in a round is the     *)
(* answer to that round's own request, whatever frames and                 *)
(* acknowledgements were lost, sent again or heard too late.  Between two  *)
(* nodes, whatever was in vain, answers never go back.                     *)
AnswersInStep ==
  \A r \in DOMAIN answers :
    /\ vain = 0 /\ (layout = "chain" => peer[2] = 1) => answers[r] = r
    /\ layout = "pair" /\ answers[r] # 0 => \A q \in 1..r : answers[q] <= answers[r]
=============================================================================
