---------------------------- MODULE LoRaFraming ----------------------------
(***************************************************************************)
(* Messages of any size over LoRa (drivers/lora/python/framing.py):        *)
(* send_message cuts a message in fragments and pushes each with           *)
(* stop-and-wait, recv_message collects fragments and acknowledges every   *)
(* one it is addressed, and both share the air with other pairs.           *)
(*                                                                         *)
(* The air is a broadcast: any node that is not transmitting may hear a    *)
(* frame, or may not, and keeps it in its radio until its next recv().     *)
(* Deadlines may pass at any moment of a wait.  A payload is represented   *)
(* by the message it is a piece of, <<sender, number>>.                    *)
(***************************************************************************)
EXTENDS Naturals, Sequences, FiniteSets, Functions

CONSTANTS
  Senders,      \* nodes that send, one message after the other
  Receivers,    \* nodes that sit in recv_message, one call after the other
  Dest,         \* the receiver each sender addresses
  Fragments,    \* per sender: for each of its messages, how many fragments
  MaxAttempts,  \* max_attempts of send_message
  InboxCap      \* bound: frames a radio holds; beyond it they are not heard

ASSUME LoRaFramingAssumption ==
  /\ Senders \cap Receivers = {}
  /\ Dest \in [Senders -> Receivers]
  /\ DOMAIN Fragments = Senders
  /\ \A s \in Senders : Fragments[s] \in Seq(Nat \ {0})
  /\ MaxAttempts \in Nat \ {0} /\ InboxCap \in Nat \ {0}

VARIABLES
  (* send_message *)
  phase,     \* "send", "await", "idle" (nothing left to send)
  msg,       \* number of the message in hand, from 1
  frag,      \* idx
  tries,     \* attempt: transmissions of this fragment that were not ACKed
  sent,      \* messages send_message returned True for
  (* recv_message *)
  asm,       \* the Reassembler: [id, of, parts]
  out,       \* the messages returned, each as the set of its pieces' origins
  cutShort,  \* messages some of whose pieces were in hand at the deadline
  (* radios *)
  heard      \* frames each node has heard and not yet taken

senderVars == <<phase, msg, frag, tries, sent>>
receiverVars == <<asm, out, cutShort>>
framingVars == <<senderVars, receiverVars, heard>>

Nodes == Senders \cup Receivers

(* Operators named X_... are X with a plausible slip of the programmer;    *)
(* no specification uses them.                                             *)

(* self.msg_id = (self.msg_id + 1) & 0xFF before each message.             *)
WireId(m) == m % 256

Fresh == [id |-> 256, of |-> 0, parts |-> <<>>]   \* 256: no message yet

FramingInit ==
  /\ phase = [s \in Senders |-> IF Fragments[s] = <<>> THEN "idle" ELSE "send"]
  /\ msg = [s \in Senders |-> 1]
  /\ frag = [s \in Senders |-> 0]
  /\ tries = [s \in Senders |-> 0]
  /\ sent = {}
  /\ asm = [r \in Receivers |-> Fresh]
  /\ out = [r \in Receivers |-> <<>>]
  /\ cutShort = {}
  /\ heard = [n \in Nodes |-> <<>>]

(* for_me: a node drops what is addressed to others.                       *)
ForMe_Promiscuous(f, n) == TRUE
ForMe(f, n) == f.dst = n

(* Only these frames can make a difference to n: recv_message wants data,  *)
(* _await_ack acknowledgements, and both what is for them.                 *)
Wanted(f, n) == /\ ForMe(f, n)
                /\ f.kind = IF n \in Senders THEN "ack" ELSE "data"

(* radio.send: the frame joins what each other node has heard, or is lost  *)
(* to it.  "after" is what is left of the radios when the sender took its  *)
(* own frame from them.                                                    *)
Broadcast(f, n, after) ==
  \E ears \in SUBSET {m \in Nodes \ {n} : Wanted(f, m) /\ Len(after[m]) < InboxCap} :
    heard' = [m \in Nodes |-> IF m \in ears THEN Append(after[m], f) ELSE after[m]]

-----------------------------------------------------------------------------
Data(s) == [kind |-> "data", src |-> s, dst |-> Dest[s], id |-> WireId(msg[s]),
            idx |-> frag[s], of |-> Fragments[s][msg[s]], piece |-> <<s, msg[s]>>]

Transmit(s) ==
  /\ phase[s] = "send"
  /\ Broadcast(Data(s), s, heard)
  /\ phase' = [phase EXCEPT ![s] = "await"]
  /\ UNCHANGED <<msg, frag, tries, sent, receiverVars>>

(* send_message returns; the caller goes on to its next message.           *)
Return(s, delivered) ==
  /\ sent' = IF delivered THEN sent \cup {<<s, msg[s]>>} ELSE sent
  /\ frag' = [frag EXCEPT ![s] = 0]
  /\ tries' = [tries EXCEPT ![s] = 0]
  /\ IF msg[s] < Len(Fragments[s])
       THEN /\ msg' = [msg EXCEPT ![s] = @ + 1]
            /\ phase' = [phase EXCEPT ![s] = "send"]
       ELSE /\ phase' = [phase EXCEPT ![s] = "idle"]
            /\ UNCHANGED msg

More(s) == frag[s] + 1 < Fragments[s][msg[s]]

(* The fragment is acknowledged: the next one, or the end.                 *)
NextFragment(s) ==
  IF More(s)
    THEN /\ frag' = [frag EXCEPT ![s] = @ + 1]
         /\ tries' = [tries EXCEPT ![s] = 0]
         /\ phase' = [phase EXCEPT ![s] = "send"]
         /\ UNCHANGED <<msg, sent>>
    ELSE Return(s, TRUE)

Matches_AnyFragment(a, s) == a.id = WireId(msg[s])
Matches(a, s) == a.id = WireId(msg[s]) /\ a.idx = frag[s]

(* _await_ack takes one frame; any but the ACK it wants is dropped.        *)
PollAck(s) ==
  /\ phase[s] = "await" /\ heard[s] # <<>>
  /\ heard' = [heard EXCEPT ![s] = Tail(@)]
  /\ IF Matches(Head(heard[s]), s)
       THEN NextFragment(s)
       ELSE UNCHANGED senderVars
  /\ UNCHANGED receiverVars

Failed(t) == t + 1

Exhausted(s) == Failed(tries[s]) >= MaxAttempts

(* The ACK timeout: once more, or the message is given up.                 *)
AckTimeout(s) ==
  /\ phase[s] = "await"
  /\ IF Exhausted(s)
       THEN Return(s, FALSE)
       ELSE /\ tries' = [tries EXCEPT ![s] = Failed(@)]
            /\ phase' = [phase EXCEPT ![s] = "send"]
            /\ UNCHANGED <<msg, frag, sent>>
  /\ UNCHANGED <<receiverVars, heard>>

-----------------------------------------------------------------------------
Ack(f, r) == [kind |-> "ack", src |-> r, dst |-> f.src, id |-> f.id, idx |-> f.idx]

(* Reassembler.add: a new message supersedes the old.                      *)
Supersedes(a, f) == a.id # f.id
Add(a, f) ==
  LET old == IF Supersedes(a, f) THEN <<>> ELSE a.parts
  IN  [id |-> f.id, of |-> f.of,
       parts |-> [i \in DOMAIN old \cup {f.idx} |-> IF i = f.idx THEN f.piece ELSE old[i]]]

Complete(a) == Cardinality(DOMAIN a.parts) >= a.of

Afresh(a) == Fresh

(* The payloads joined in order; an index that is not there is a KeyError, *)
(* which ends the process: nothing is received after it.                   *)
Raised == {}
Joined(a) == IF 0..(a.of - 1) \subseteq DOMAIN a.parts
               THEN {a.parts[i] : i \in 0..(a.of - 1)} ELSE Raised

(* recv_message takes one fragment: acknowledge it, add it, return the     *)
(* message it completes.  The next call starts with a Reassembler afresh.  *)
Receive(r) ==
  /\ heard[r] # <<>> /\ Raised \notin Range(out[r])
  /\ LET f == Head(heard[r])
         a == Add(asm[r], f)
     IN  /\ Broadcast(Ack(f, r), r, [heard EXCEPT ![r] = Tail(@)])
         /\ IF Complete(a)
              THEN /\ out' = [out EXCEPT ![r] = Append(@, Joined(a))]
                   /\ asm' = [asm EXCEPT ![r] = Afresh(a)]
              ELSE /\ asm' = [asm EXCEPT ![r] = a]
                   /\ UNCHANGED out
  /\ UNCHANGED <<cutShort, senderVars>>

(* The deadline of recv_message passes: what was collected is thrown away. *)
RecvTimeout(r) ==
  /\ asm[r] # Fresh
  /\ asm' = [asm EXCEPT ![r] = Fresh]
  /\ cutShort' = cutShort \cup Range(asm[r].parts)
  /\ UNCHANGED <<out, senderVars, heard>>

SenderStep(s) == Transmit(s) \/ PollAck(s) \/ AckTimeout(s)

FramingNext ==
  \/ \E s \in Senders : SenderStep(s)
  \/ \E r \in Receivers : Receive(r) \/ RecvTimeout(r)

FramingSpec == FramingInit /\ [][FramingNext]_framingVars
-----------------------------------------------------------------------------
(* A Reassembler collects fragments of ONE message: what recv_message      *)
(* returns was never put together from two, and putting it together never  *)
(* fails, although a fragment carries only an 8-bit message number and     *)
(* earlier ones may have been abandoned.                                   *)
ReturnedIsOneMessage ==
  \A r \in Receivers : \A i \in DOMAIN out[r] : Cardinality(out[r][i]) = 1

(* When send_message returns True, recv_message has returned the message   *)
(* -- unless its own deadline fell between two fragments, when both were   *)
(* acknowledged and neither call completes.                                *)
TrueMeansReturned ==
  \A m \in sent \ cutShort :
    \E i \in DOMAIN out[Dest[m[1]]] : out[Dest[m[1]]][i] = {m}

(* A transfer is whole or it is not: what recv_message returns is one      *)
(* message (ReturnedIsOneMessage), and True from send_message means that it*)
(* was returned (TrueMeansReturned).                                       *)
TransfersAreWhole == ReturnedIsOneMessage /\ TrueMeansReturned
=============================================================================
