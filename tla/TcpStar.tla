------------------------------ MODULE TcpStar ------------------------------
(***************************************************************************)
(* The star over TCP (phy_link.py, class TcpStar): a hub that averages and *)
(* its clients, every one a process of its own.  A client's step sends one *)
(* payload on a new connection and waits on it for the answer; a round of  *)
(* the hub collects, mixes once and answers everybody it collected from.   *)
(*                                                                         *)
(* A payload is the pair <<client, step>> it was produced in.  One that    *)
(* does not unpack or is not finite, the model of a client that diverged,  *)
(* is collected and answered like any other, but not averaged.  An answer  *)
(* tells the payloads averaged in it, and those it is the answer to.  The  *)
(* connection a client opened in its step r is open as long as the client  *)
(* waits in that step.                                                     *)
(***************************************************************************)
EXTENDS Naturals, Sequences, FiniteSets

CONSTANTS
  Clients,     \* client indices at the hub
  StepLimits,  \* per-client --steps considered: from Clients to Nat
  Spoilings,   \* sets of payloads that cannot be used, to be considered
  MayCrash     \* clients that may be killed, at most one in a behaviour

ASSUME TcpStarAssumption ==
  /\ IsFiniteSet(Clients) /\ Clients # {}
  /\ StepLimits \subseteq [Clients -> Nat \ {0}]
  /\ Spoilings \subseteq SUBSET (Clients \X Nat)
  /\ MayCrash \subseteq Clients

VARIABLES
  (* clients *)
  steps,    \* --steps of each client
  unusable, \* payloads that _safe_unpack refuses
  phase,    \* "work", "wait", "bye" (in close()), "gone"
  round,    \* steps begun
  reply,    \* the answer on the open connection; NoReply before it
  verdict,  \* "running", "done", "failed", "crashed"
  told,     \* _said_done
  (* the hub *)
  hub,      \* "down", "collect", "answer", "closed", "quit", "failed"
  queue,    \* the hub's listen queue: frames by order of connection
  live,     \* _live
  waiting,  \* payloads of the round, by order of arrival (and connections)
  mix,      \* the answer that produce() gave in this round
  (* history *)
  late      \* clients that gave up on an answer while the hub was at work

given == <<steps, unusable>>
clientVars == <<given, phase, round, reply, verdict, told>>
hubVars == <<hub, live, waiting, mix>>
vars == <<clientVars, hubVars, queue, late>>

Payload == Clients \X Nat
NoReply == {}  \* an answer that has arrived is the set of that one answer
Answer == [of : SUBSET Payload, to : SUBSET Payload]
Empty == [of |-> {}, to |-> {}]  \* the zero-length answer of a hub that is done

HubUp == hub \in {"collect", "answer"}

Frame == [kind : {"model", "cut", "bye"}, src : Clients, step : Nat]

Init ==
  /\ steps \in StepLimits
  /\ unusable \in Spoilings
  /\ phase = [k \in Clients |-> "work"]
  /\ round = [k \in Clients |-> 0]
  /\ reply = [k \in Clients |-> NoReply]
  /\ verdict = [k \in Clients |-> "running"]
  /\ told = [k \in Clients |-> FALSE]
  /\ hub = "down"
  /\ queue = <<>>
  /\ live = Clients
  /\ waiting = <<>>
  /\ mix = Empty
  /\ late = {}

-----------------------------------------------------------------------------
(* Clients.  Operators named X_... are X with a plausible slip of the      *)
(* programmer; no specification uses them.                                 *)

(* step(): produce, connect, send.                                         *)
Submit(k) ==
  /\ phase[k] = "work" /\ round[k] < steps[k] /\ HubUp
  /\ round' = [round EXCEPT ![k] = @ + 1]
  /\ queue' = Append(queue, [kind |-> "model", src |-> k, step |-> round[k] + 1])
  /\ phase' = [phase EXCEPT ![k] = "wait"]
  /\ UNCHANGED <<given, reply, verdict, told, hubVars, late>>

(* The answer has arrived: consume it if it can be used, report, on to the *)
(* next step.                                                              *)
Consume(k) ==
  /\ phase[k] = "wait" /\ reply[k] # NoReply
  /\ reply' = [reply EXCEPT ![k] = NoReply]
  /\ phase' = [phase EXCEPT ![k] = "work"]
  /\ UNCHANGED <<given, round, verdict, told, hubVars, queue, late>>

(* The main loop has done its --steps.                                     *)
Retire(k) ==
  /\ phase[k] = "work" /\ round[k] = steps[k]
  /\ verdict' = [verdict EXCEPT ![k] = "done"]
  /\ phase' = [phase EXCEPT ![k] = "bye"]
  /\ UNCHANGED <<given, round, reply, told, hubVars, queue, late>>

(* _dial gives up after 120 s: the hub is not up yet, or no longer.        *)
NoHub(k) ==
  /\ phase[k] = "work" /\ round[k] < steps[k] /\ ~HubUp
  /\ verdict' = [verdict EXCEPT ![k] = "failed"]
  /\ phase' = [phase EXCEPT ![k] = "bye"]
  /\ UNCHANGED <<given, round, reply, told, hubVars, queue, late>>

(* A payload not yet read may have been sent only in part.                 *)
PerhapsCut(k) ==
  \/ UNCHANGED queue
  \/ \E i \in DOMAIN queue :
       /\ queue[i].src = k /\ queue[i].kind = "model"
       /\ queue' = [queue EXCEPT ![i].kind = "cut"]

(* The connection dies without an answer: the hub closed it, or the 10 s   *)
(* that create_connection leaves as the socket's timeout ran out, in recv  *)
(* or still in sendall.                                                    *)
NoAnswer(k) ==
  /\ phase[k] = "wait" /\ reply[k] = NoReply
  /\ verdict' = [verdict EXCEPT ![k] = "failed"]
  /\ phase' = [phase EXCEPT ![k] = "bye"]
  /\ late' = IF HubUp THEN late \cup {k} ELSE late
  /\ PerhapsCut(k)
  /\ UNCHANGED <<given, round, reply, told, hubVars>>

Bye(k) == Append(queue, [kind |-> "bye", src |-> k, step |-> round[k]])

(* close(): say goodbye unless the hub cannot be reached.                  *)
Leave(k) ==
  /\ phase[k] = "bye"
  /\ phase' = [phase EXCEPT ![k] = "gone"]
  /\ IF HubUp
       THEN queue' = Bye(k) /\ told' = [told EXCEPT ![k] = TRUE]
       ELSE UNCHANGED <<queue, told>>
  /\ UNCHANGED <<given, round, reply, verdict, hubVars, late>>

(* Killed: its connections close, nobody is told.                          *)
Crash(k) ==
  /\ k \in MayCrash /\ phase[k] # "gone"
  /\ \A j \in Clients : verdict[j] # "crashed"
  /\ verdict' = [verdict EXCEPT ![k] = "crashed"]
  /\ phase' = [phase EXCEPT ![k] = "gone"]
  /\ PerhapsCut(k)
  /\ UNCHANGED <<given, round, reply, told, hubVars, late>>

-----------------------------------------------------------------------------
(* The hub.                                                                *)

HubStart ==
  /\ hub = "down"
  /\ hub' = "collect"
  /\ UNCHANGED <<clientVars, live, waiting, mix, queue, late>>

(* while self._live and len(waiting) < len(self._live)                     *)
Collecting_OneShort == live # {} /\ Len(waiting) + 1 < Cardinality(live)
Collecting == live # {} /\ Len(waiting) < Cardinality(live)

Forget_Never(k) == live
Forget(k) == live \ {k}

CutOff_IsGone(k) == Forget(k)
CutOff(k) == live

HubAccept ==
  /\ hub = "collect" /\ Collecting /\ queue # <<>>
  /\ queue' = Tail(queue)
  /\ LET f == Head(queue)
     IN  \/ /\ f.kind = "cut"
            /\ live' = CutOff(f.src)
            /\ UNCHANGED waiting
         \/ /\ f.kind = "bye"
            /\ live' = Forget(f.src)
            /\ UNCHANGED waiting
         \/ /\ f.kind = "model"
            /\ waiting' = Append(waiting, <<f.src, f.step>>)
            /\ UNCHANGED live
  /\ UNCHANGED <<clientVars, hub, mix, late>>

(* Nobody connected within round_timeout: the hub gives up.                *)
HubTimeout ==
  /\ hub = "collect" /\ Collecting /\ queue = <<>>
  /\ hub' = "failed"
  /\ UNCHANGED <<clientVars, live, waiting, mix, queue, late>>

Collection_AllButLast == {waiting[i] : i \in 1..(Len(waiting) - 1)}
Collection == {waiting[i] : i \in DOMAIN waiting}

(* What the application is given of the round: the payloads that unpack.   *)
Mixed == Collection \ unusable

(* The round is complete: mix once, then answer; no payload, no client.    *)
(* The connection of a payload that did not unpack is answered with the    *)
(* others.  A server application that is done, or has nothing to average,  *)
(* produces nothing, and the answer is the empty frame.                    *)
HubMix ==
  /\ hub = "collect" /\ ~Collecting
  /\ \/ waiting = <<>> /\ hub' = "closed" /\ UNCHANGED mix
     \/ waiting # <<>> /\ hub' = "answer" /\ mix' \in {[of |-> Mixed, to |-> Collection], Empty}
  /\ UNCHANGED <<clientVars, live, waiting, queue, late>>

(* Answer the next connection; a client that no longer waits is skipped.   *)
HubAnswer ==
  /\ hub = "answer" /\ waiting # <<>>
  /\ waiting' = Tail(waiting)
  /\ LET k == Head(waiting)[1]
     IN  reply' = [reply EXCEPT ![k] =
                     IF phase[k] = "wait" /\ round[k] = Head(waiting)[2] THEN {mix} ELSE @]
  /\ UNCHANGED <<given, phase, round, verdict, told, hub, live, mix, queue, late>>

(* Everybody is answered: next round, or the end if there was no answer.   *)
HubNext ==
  /\ hub = "answer" /\ waiting = <<>>
  /\ hub' = IF mix = Empty THEN "quit" ELSE "collect"
  /\ mix' = Empty
  /\ UNCHANGED <<clientVars, live, waiting, queue, late>>

-----------------------------------------------------------------------------
ClientProgress(k) ==
  Submit(k) \/ Consume(k) \/ Retire(k) \/ NoHub(k) \/ NoAnswer(k) \/ Leave(k)

HubProgress == HubStart \/ HubAccept \/ HubMix \/ HubAnswer \/ HubNext

Next == \/ \E k \in Clients : ClientProgress(k) \/ Crash(k)
        \/ HubProgress \/ HubTimeout

Spec == Init /\ [][Next]_vars
FairSpec == Spec /\ WF_vars(HubProgress)
                 /\ \A k \in Clients : WF_vars(ClientProgress(k))

-----------------------------------------------------------------------------
(* Every variable ranges over what the code can store in it, and a round   *)
(* never collects more payloads than it has clients.                       *)
TypeOK ==
  /\ steps \in [Clients -> Nat]
  /\ unusable \subseteq Payload
  /\ phase \in [Clients -> {"work", "wait", "bye", "gone"}]
  /\ round \in [Clients -> Nat]
  /\ reply \in [Clients -> SUBSET Answer]
  /\ verdict \in [Clients -> {"running", "done", "failed", "crashed"}]
  /\ told \in [Clients -> BOOLEAN]
  /\ hub \in {"down", "collect", "answer", "closed", "quit", "failed"}
  /\ queue \in Seq(Frame)
  /\ live \subseteq Clients
  /\ waiting \in Seq(Payload) /\ Len(waiting) <= Cardinality(Clients)
  /\ mix \in Answer
  /\ late \subseteq Clients

(* An answer with a model in it is the answer to the very payload its      *)
(* receiver sent in this step, and averages the payloads of that one round *)
(* of the hub, no more and no fewer than could be used: a client whose own *)
(* payload was spoilt gets the mean of those it shared the round with.     *)
AnswerIsOfMyRound ==
  \A k \in Clients : \A m \in reply[k] :
    m # Empty => <<k, round[k]>> \in m.to /\ m.of = m.to \ unusable

(* "ONE ROUND = the server collects one payload from EVERY live client":   *)
(* nobody is averaged twice, whoever left during the round, and as long as *)
(* no client has given up on an answer nobody is left out of the average   *)
(* whose payload of that round could be used.                              *)
FullRoundUnlessLate ==
  /\ \A p, q \in mix.of : p[1] = q[1] => p = q
  /\ late = {} /\ hub = "answer" /\ mix # Empty =>
       \A k \in live : \E p \in mix.to : p[1] = k /\ (p \in mix.of \/ p \in unusable)

(* The hub ends its run only when every client has ended its own and said  *)
(* so: a broken connection or a client that never started is not a         *)
(* goodbye.                                                                *)
HubOutlivesClients ==
  hub = "closed" => \A k \in Clients : phase[k] = "gone" /\ told[k]

Ended == /\ hub \in {"closed", "quit", "failed"}
         /\ \A k \in Clients : phase[k] = "gone"

(* Both ends terminate on their own, without the hub's round_timeout and   *)
(* whatever the numbers of steps, unless a client is killed or leaves      *)
(* before the hub is there to be told.                                     *)
EndsUnlessAbandoned ==
  <>(Ended \/ (HubUp /\ \E k \in live : phase[k] = "gone" /\ ~told[k]))
=============================================================================
