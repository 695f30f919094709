----------------------------- MODULE RelayChain -----------------------------
(***************************************************************************)
(* A chain client - relays - server, every node a process of its own and   *)
(* every hop over its own medium (phy_link.py: TcpStar and RadioRoundTrip  *)
(* at the two ends, RadioRoundTrip and ChainRelay in the middle; run_algo's*)
(* main loop around all of them), running the fl algorithm.                *)
(*                                                                         *)
(* Node 0 is the client and node Last the server; hop i joins node i - 1   *)
(* to node i.  Over a "tcp" hop the request goes out on a new connection   *)
(* and the answer comes back on it.  Over a "wireless" hop the request goes*)
(* over the air as one ARQ session, and the answer is fetched from a socket*)
(* that is opened for that one answer.                                     *)
(*                                                                         *)
(* A payload is [by, of]: who computed it and in which round of the client.*)
(* One that is destroyed, or not finite, is Unusable.                      *)
(***************************************************************************)
EXTENDS Naturals, Sequences, FiniteSets

CONSTANTS
  Last,      \* the server's position; 1 for no relay
  Media,     \* assignments of a medium to every hop considered
  MaxSteps,  \* --steps of the client
  MayCrash   \* nodes that may be killed, at most one in a behaviour

ASSUME RelayChainAssumption ==
  /\ Last \in Nat \ {0} /\ MaxSteps \in Nat
  /\ Media \subseteq [1..Last -> {"tcp", "wireless"}]
  /\ MayCrash \subseteq 0..Last

VARIABLES
  medium,   \* of each hop
  pc,       \* what each node is at
  verdict,  \* how its main loop ended
  told,     \* it said goodbye to the next node
  queue,    \* listen queue of a node whose upstream hop is tcp
  caller,   \* round of the connection a node holds open to its upstream
  input,    \* the request a node has read
  held,     \* what its application would send: fwd of a relay, buf of the server
  answer,   \* what came back on the connection to the next node
  round,    \* steps the client has begun
  adopted,  \* what the client consumed last, and in which round
  spoiled   \* rounds in which a payload was unusable or there was none

nodeVars == <<pc, verdict, told>>
dataVars == <<input, held, answer>>
vars == <<medium, nodeVars, queue, caller, dataVars, round, adopted, spoiled>>

Nodes == 0..Last
Client == 0
Relays == 1..(Last - 1)
Server == Last

Nothing == [by |-> "nobody", of |-> 0]   \* None: no array at all
Unusable == [by |-> "noise", of |-> 0]
Silent == [by |-> "silence", of |-> 0]   \* no answer on the connection yet
Usable(v) == v.by \in {"client", "server"}

Tcp(hop) == medium[hop] = "tcp"
TcpUp(i) == i # Client /\ Tcp(i)
TcpDown(i) == i # Server /\ Tcp(i + 1)

(* A listener is bound from the constructor to close().                     *)
Listens(i) == TcpUp(i) /\ pc[i] \notin {"off", "gone"}

Waits(i) == pc[i] = "await" /\ answer[i] = Silent

Init ==
  /\ medium \in Media
  /\ pc = [i \in Nodes |-> "off"]
  /\ verdict = [i \in Nodes |-> "running"]
  /\ told = [i \in Nodes |-> FALSE]
  /\ queue = [i \in Nodes |-> <<>>]
  /\ caller = [i \in Nodes |-> 0]
  /\ input = [i \in Nodes |-> Nothing]
  /\ held = [i \in Nodes |-> Nothing]
  /\ answer = [i \in Nodes |-> Silent]
  /\ round = 0
  /\ adopted = [in |-> 0, value |-> Nothing]
  /\ spoiled = {}

Go(i, to) == pc' = [pc EXCEPT ![i] = to]

(* An exception leaves the main loop for its finally clause.                *)
Fail(i) ==
  /\ Go(i, "bye")
  /\ verdict' = [verdict EXCEPT ![i] = "failed"]

Stop(i) ==
  /\ Go(i, "bye")
  /\ verdict' = [verdict EXCEPT ![i] = "done"]

Start(i) ==
  /\ pc[i] = "off"
  /\ Go(i, IF i = Client THEN "work" ELSE "recv")
  /\ UNCHANGED <<medium, verdict, told, queue, caller, dataVars, round, adopted,
                 spoiled>>

-----------------------------------------------------------------------------
(* The client's application, and the main loop's --steps.                   *)

Produce ==
  /\ pc[Client] = "work" /\ round < MaxSteps
  /\ round' = round + 1
  /\ \/ /\ held' = [held EXCEPT ![Client] = [by |-> "client", of |-> round + 1]]
        /\ UNCHANGED spoiled
     \/ /\ held' = [held EXCEPT ![Client] = Unusable]
        /\ spoiled' = spoiled \cup {round + 1}
  /\ Go(Client, "send")
  /\ UNCHANGED <<medium, verdict, told, queue, caller, input, answer, adopted>>

Retire ==
  /\ pc[Client] = "work" /\ round = MaxSteps
  /\ Stop(Client)
  /\ UNCHANGED <<medium, told, queue, caller, dataVars, round, adopted, spoiled>>

(* An unusable answer is not adopted.                                       *)
Adopt ==
  /\ pc[Client] = "got"
  /\ adopted' = IF Usable(answer[Client])
                THEN [in |-> round, value |-> answer[Client]] ELSE adopted
  /\ answer' = [answer EXCEPT ![Client] = Silent]
  /\ Go(Client, "work")
  /\ UNCHANGED <<medium, verdict, told, queue, caller, input, held, round, spoiled>>

-----------------------------------------------------------------------------
(* Towards the server, over tcp.                                            *)

SendTcp(i) ==
  /\ pc[i] = "send" /\ TcpDown(i) /\ Listens(i + 1)
  /\ queue' = [queue EXCEPT ![i + 1] =
                 Append(@, [kind |-> "model", from |-> round, value |-> held[i]])]
  /\ Go(i, "await")
  /\ UNCHANGED <<medium, verdict, told, caller, dataVars, round, adopted, spoiled>>

(* _dial gave up after 120 s.                                               *)
NoNextHop(i) ==
  /\ pc[i] = "send" /\ TcpDown(i) /\ ~Listens(i + 1)
  /\ Fail(i)
  /\ UNCHANGED <<medium, told, queue, caller, dataVars, round, adopted, spoiled>>

(* What a node that stops waiting has sent may have been sent only in part. *)
PerhapsCut(i) ==
  \/ UNCHANGED queue
  \/ /\ TcpDown(i)
     /\ \E k \in DOMAIN queue[i + 1] :
          /\ queue[i + 1][k].kind = "model"
          /\ queue' = [queue EXCEPT ![i + 1][k].kind = "cut"]

(* The 10 s that create_connection leaves on the socket ran out, or the     *)
(* other end is gone.                                                       *)
NoAnswer(i) ==
  /\ Waits(i)
  /\ Fail(i)
  /\ PerhapsCut(i)
  /\ UNCHANGED <<medium, told, caller, dataVars, round, adopted, spoiled>>

Answered(i) ==
  /\ pc[i] = "await" /\ answer[i] # Silent
  /\ Go(i, "got")
  /\ UNCHANGED <<medium, verdict, told, queue, caller, dataVars, round, adopted,
                 spoiled>>

(* As if a frame that breaks off were read as a goodbye.                    *)
Accept_CutIsBye(i) ==
  /\ pc[i] = "recv" /\ TcpUp(i) /\ queue[i] # <<>>
  /\ queue' = [queue EXCEPT ![i] = Tail(@)]
  /\ LET f == Head(queue[i])
     IN  \/ /\ f.kind = "model"
            /\ input' = [input EXCEPT ![i] = f.value]
            /\ caller' = [caller EXCEPT ![i] = f.from]
            /\ Go(i, "mix") /\ UNCHANGED verdict
         \/ f.kind # "model" /\ Stop(i) /\ UNCHANGED <<input, caller>>
  /\ UNCHANGED <<medium, told, held, answer, round, adopted, spoiled>>

(* The next connection in the queue: a request, a goodbye, or a frame that  *)
(* breaks off, which the hub skips and a relay does not survive.            *)
Accept(i) ==
  /\ pc[i] = "recv" /\ TcpUp(i) /\ queue[i] # <<>>
  /\ queue' = [queue EXCEPT ![i] = Tail(@)]
  /\ LET f == Head(queue[i])
     IN  \/ /\ f.kind = "model"
            /\ input' = [input EXCEPT ![i] = f.value]
            /\ caller' = [caller EXCEPT ![i] = f.from]
            /\ Go(i, "mix") /\ UNCHANGED verdict
         \/ /\ f.kind = "bye" /\ Stop(i) /\ UNCHANGED <<input, caller>>
         \/ /\ f.kind = "cut" /\ UNCHANGED <<input, caller>>
            /\ IF i = Server THEN UNCHANGED <<pc, verdict>> ELSE Fail(i)
  /\ UNCHANGED <<medium, told, held, answer, round, adopted, spoiled>>

(* As if a relay's listener had no timeout.                                 *)
NoCaller_HubOnly(i) ==
  /\ pc[i] = "recv" /\ TcpUp(i) /\ queue[i] = <<>>
  /\ i = Server
  /\ Fail(i)
  /\ UNCHANGED <<medium, told, queue, caller, dataVars, round, adopted, spoiled>>

(* round_timeout: nobody connected for 600 s.                               *)
NoCaller(i) ==
  /\ pc[i] = "recv" /\ TcpUp(i) /\ queue[i] = <<>>
  /\ Fail(i)
  /\ UNCHANGED <<medium, told, queue, caller, dataVars, round, adopted, spoiled>>

-----------------------------------------------------------------------------
(* Towards the server, over the air: one ARQ session, which the sender ends *)
(* without being told whether it was heard, or whether chunks are missing.  *)

SendHeard(i) ==
  /\ pc[i] = "send" /\ i # Server /\ ~TcpDown(i)
  /\ pc[i + 1] = "recv"
  /\ \/ /\ input' = [input EXCEPT ![i + 1] = held[i]]
        /\ UNCHANGED spoiled
     \/ /\ input' = [input EXCEPT ![i + 1] = Unusable]
        /\ spoiled' = spoiled \cup {round}
  /\ caller' = [caller EXCEPT ![i + 1] = round]
  /\ pc' = [pc EXCEPT ![i] = "ask", ![i + 1] = "mix"]
  /\ UNCHANGED <<medium, verdict, told, queue, held, answer, round, adopted>>

SendUnheard(i) ==
  /\ pc[i] = "send" /\ i # Server /\ ~TcpDown(i)
  /\ Go(i, "ask")
  /\ UNCHANGED <<medium, verdict, told, queue, caller, dataVars, round, adopted,
                 spoiled>>

(* _tcp_connect: 50 attempts of 0.2 s at a socket that is there only while  *)
(* the next node serves its answer.                                         *)
NeverUp(i) ==
  /\ pc[i] = "ask" /\ pc[i + 1] # "serve"
  /\ Fail(i)
  /\ UNCHANGED <<medium, told, queue, caller, dataVars, round, adopted, spoiled>>

(* _tcp_serve_once: accept() has no timeout.                                *)
HandOver(i) ==
  /\ i # Client /\ pc[i] = "serve" /\ ~TcpUp(i)
  /\ pc[i - 1] = "ask"
  /\ answer' = [answer EXCEPT ![i - 1] = held[i]]
  /\ pc' = [pc EXCEPT ![i - 1] = "got", ![i] = "recv"]
  /\ held' = [held EXCEPT ![i] = IF i = Server THEN Nothing ELSE @]
  /\ UNCHANGED <<medium, verdict, told, queue, caller, input, round, adopted, spoiled>>

-----------------------------------------------------------------------------
(* A relay holds what it last consumed, in either direction, and forwards   *)
(* that: what could not be unpacked is not consumed.  With nothing to send  *)
(* it packs one zero, which the declared shape refuses.                     *)
Keeps(i, v) == IF Usable(v) THEN v ELSE held[i]

Forward(i) ==
  /\ i \in Relays /\ pc[i] = "mix"
  /\ held' = [held EXCEPT ![i] = Keeps(i, input[i])]
  /\ IF Keeps(i, input[i]) = Nothing THEN Fail(i) ELSE Go(i, "send") /\ UNCHANGED verdict
  /\ UNCHANGED <<medium, told, queue, caller, input, answer, round, adopted, spoiled>>

(* As if a relay did not consume what comes back.                           *)
Return_Request(i) ==
  /\ i \in Relays /\ pc[i] = "got"
  /\ answer' = [answer EXCEPT ![i] = Silent]
  /\ Go(i, "serve")
  /\ UNCHANGED <<medium, verdict, told, queue, caller, input, held, round, adopted,
                 spoiled>>

Return(i) ==
  /\ i \in Relays /\ pc[i] = "got"
  /\ held' = [held EXCEPT ![i] = Keeps(i, answer[i])]
  /\ answer' = [answer EXCEPT ![i] = Silent]
  /\ Go(i, "serve")
  /\ UNCHANGED <<medium, verdict, told, queue, caller, input, round, adopted, spoiled>>

(* The server averages what it could read.  With nothing in its buffer it   *)
(* has nothing to say: over tcp that is an empty frame and the end of its   *)
(* run, after the air the same zero that a relay cannot send.               *)
Mix ==
  /\ pc[Server] = "mix"
  /\ IF Usable(input[Server])
     THEN /\ \/ /\ held' = [held EXCEPT ![Server] =
                             [by |-> "server", of |-> input[Server].of]]
                /\ UNCHANGED spoiled
             \/ /\ held' = [held EXCEPT ![Server] = Unusable]
                /\ spoiled' = spoiled \cup {round}
          /\ Go(Server, "serve") /\ UNCHANGED verdict
     ELSE /\ held' = [held EXCEPT ![Server] = Nothing]
          /\ spoiled' = spoiled \cup {round}
          /\ IF Tcp(Server) THEN Go(Server, "serve") /\ UNCHANGED verdict ELSE Fail(Server)
  /\ UNCHANGED <<medium, told, queue, caller, input, answer, round, adopted>>

(* The answer goes back on the connection the request came in on; whoever   *)
(* has closed it is not there to read it.  A relay may learn that from the  *)
(* send, which it does not survive.                                         *)
Reply(i) ==
  /\ pc[i] = "serve" /\ TcpUp(i)
  /\ LET up == i - 1
         there == Waits(up) /\ round = caller[i]
     IN  /\ answer' = IF there THEN [answer EXCEPT ![up] = held[i]] ELSE answer
         /\ \/ /\ ~(i = Server /\ held[i] = Nothing)
               /\ Go(i, "recv") /\ UNCHANGED verdict
            \/ i = Server /\ held[i] = Nothing /\ Stop(i)
            \/ i # Server /\ ~there /\ Fail(i)
  /\ held' = [held EXCEPT ![i] = IF i = Server THEN Nothing ELSE @]
  /\ UNCHANGED <<medium, told, queue, caller, input, round, adopted, spoiled>>

-----------------------------------------------------------------------------
(* close(): the node after a tcp hop is told, if it can be reached.         *)
Bye(i) == Append(queue[i + 1], [kind |-> "bye", from |-> round, value |-> Nothing])

Leave(i) ==
  /\ pc[i] = "bye"
  /\ Go(i, "gone")
  /\ IF TcpDown(i) /\ Listens(i + 1)
     THEN queue' = [queue EXCEPT ![i + 1] = Bye(i), ![i] = <<>>]
          /\ told' = [told EXCEPT ![i] = TRUE]
     ELSE queue' = [queue EXCEPT ![i] = <<>>] /\ UNCHANGED told
  /\ UNCHANGED <<medium, verdict, caller, dataVars, round, adopted, spoiled>>

Crash(i) ==
  /\ i \in MayCrash /\ pc[i] \notin {"off", "gone"}
  /\ \A j \in Nodes : verdict[j] # "crashed"
  /\ verdict' = [verdict EXCEPT ![i] = "crashed"]
  /\ Go(i, "gone")
  /\ IF Waits(i) THEN PerhapsCut(i) ELSE UNCHANGED queue
  /\ UNCHANGED <<medium, told, caller, dataVars, round, adopted, spoiled>>

NodeStep(i) ==
  \/ Start(i) \/ SendTcp(i) \/ NoNextHop(i) \/ NoAnswer(i) \/ Answered(i)
  \/ Accept(i) \/ NoCaller(i) \/ SendHeard(i) \/ SendUnheard(i) \/ NeverUp(i)
  \/ HandOver(i) \/ Forward(i) \/ Return(i) \/ Reply(i) \/ Leave(i)

ClientStep == Produce \/ Retire \/ Adopt

Next == \/ ClientStep \/ Mix
        \/ \E i \in Nodes : NodeStep(i) \/ Crash(i)

(* Every process that can go on does, and every timer runs out.             *)
Spec == Init /\ [][Next]_vars
FairSpec == Spec /\ WF_vars(ClientStep) /\ WF_vars(Mix)
                 /\ \A i \in Nodes : WF_vars(NodeStep(i))

-----------------------------------------------------------------------------
(* What the client adopts in a round is what the server computed from the   *)
(* very request of that round: no relay hands it an earlier answer, or its  *)
(* own request back -- unless a payload of that very round could not be     *)
(* used: then a relay sends on what it still holds.  The round after is     *)
(* clean again.                                                             *)
AdoptsItsAnswerUnlessSpoiled ==
  adopted.in > 0 /\ adopted.in \notin spoiled =>
    adopted.value = [by |-> "server", of |-> adopted.in]

(* A node ends its run as done only when the node before it said goodbye and*)
(* every request that node had made was read first: a failure, a silence or *)
(* a frame that breaks off upstream never passes for the end of the run.  A *)
(* server that had nothing to say has ended the run itself.                 *)
DoneAfterUpstream ==
  \A i \in Nodes \ {Client} :
     verdict[i] = "done" /\ ~(i = Server /\ spoiled # {}) =>
        told[i - 1] /\ queue[i] = <<>>

(* Over tcp the whole chain comes to an end on its own, whoever fails or is *)
(* killed; what can stay for ever is a node behind a hop over the air, which*)
(* waits to be spoken to or to be asked for its answer.                     *)
EndsUnlessOnAir ==
  <>(\A i \in Nodes : \/ pc[i] = "gone"
                      \/ i # Client /\ ~Tcp(i) /\ pc[i] \in {"recv", "serve"})
=============================================================================
