------------------------------ MODULE PeerLink ------------------------------
(***************************************************************************)
(* Decentralised nodes over TCP (phy_link.py, class PeerLink, link="tcp"): *)
(* every node is its own process, derives the same edge list and walks it  *)
(* once per round, exchanging its payload with the other end of each of    *)
(* its edges; there is no coordinator.                                     *)
(*                                                                         *)
(* A payload is represented by the round in which its sender produced it.  *)
(* Each frame travels on a connection of its own, so "pending" is the      *)
(* listen queue of a node: connections in the order they were made.  A     *)
(* frame that fits the socket buffers is sent without the receiver's help; *)
(* one that does not keeps sendall() blocked until it is read.             *)
(***************************************************************************)
EXTENDS Naturals, Sequences, FiniteSets

CONSTANTS
  N,           \* --agents
  Topologies,  \* values of --topology considered
  StepLimits,  \* per-node --steps considered: functions from Nodes to Nat
  MayGiveUp    \* may the 120 s of connect_timeout pass before a peer is up?

Nodes == 0..(N - 1)

ASSUME PeerLinkAssumption ==
  /\ N \in Nat \ {0, 1}
  /\ StepLimits \subseteq [Nodes -> Nat]
  /\ MayGiveUp \in BOOLEAN

-----------------------------------------------------------------------------
(* Operators named X_... are X with a plausible slip of the programmer;    *)
(* no specification uses them.                                             *)

(* gossip_edges: a topology is [kind |-> "ring"], [kind |-> "full"] or     *)
(* [kind |-> "custom", list |-> sequence of pairs].                        *)

Ring == IF N = 2 THEN << <<0, 1>> >>
        ELSE [k \in 1..N |-> <<k - 1, k % N>>]

(* Every pair once, in lexicographic order.                                *)
Pairs == {e \in Nodes \X Nodes : e[1] < e[2]}
Before(e, f) == e[1] < f[1] \/ (e[1] = f[1] /\ e[2] < f[2])
Full == [k \in 1..Cardinality(Pairs) |->
           CHOOSE e \in Pairs : Cardinality({f \in Pairs : Before(f, e)}) = k - 1]

(* The given edges, smaller end first, without the repeated ones.          *)
Key(e) == IF e[1] < e[2] THEN e ELSE <<e[2], e[1]>>
FirstTimes(list) ==
  {k \in DOMAIN list : \A j \in 1..(k - 1) : Key(list[j]) # Key(list[k])}
Custom(list) ==
  LET kept == FirstTimes(list)
  IN  [k \in 1..Cardinality(kept) |->
         Key(list[CHOOSE i \in kept : Cardinality({j \in kept : j < i}) = k - 1])]

GossipEdges(t) == CASE t.kind = "ring"   -> Ring
                    [] t.kind = "full"   -> Full
                    [] t.kind = "custom" -> Custom(t.list)

(* No node is its own neighbour and no pair is listed twice: the ring and  *)
(* the full graph are made so, and a list is refused or cleaned.           *)
Simple(list) ==
  /\ list \in Seq(Nodes \X Nodes)
  /\ \A i \in DOMAIN list : list[i][1] # list[i][2]
  /\ \A i, j \in DOMAIN list :
       {list[i][1], list[i][2]} = {list[j][1], list[j][2]} => i = j

ASSUME SimpleGraphs == \A t \in Topologies : Simple(GossipEdges(t))

-----------------------------------------------------------------------------
VARIABLES
  edges,    \* self.edges, the same in every process
  steps,    \* how many rounds each process was asked for
  fits,     \* do the frames fit the socket buffers?
  phase,    \* per node: see Phases
  round,    \* rounds begun by the node (n of the main loop, plus one)
  pos,      \* index in edges of the exchange the node is in
  got,      \* what _recv returned in this exchange: at most one frame
  heard,    \* history: frames consumed in this round
  pending,  \* listen queue of the node: frames by order of connection
  inbox     \* _inbox[n][p]: frames accepted while waiting for somebody else

vars == <<edges, steps, fits, phase, round, pos, got, heard, pending, inbox>>

Phases == {"down",      \* the process has not bound its port yet
           "ready",     \* between two rounds
           "send",      \* in _send: connecting
           "sending",   \* in _send: in sendall
           "recv",      \* in _recv
           "closed",    \* main loop over, listener closed
           "failed"}    \* an exception ended the process

Listening(n) == phase[n] \notin {"down", "closed", "failed"}

Turns(n) == {i \in DOMAIN edges : n \in {edges[i][1], edges[i][2]}}
Peer(n) == IF edges[pos[n]][1] = n THEN edges[pos[n]][2] ELSE edges[pos[n]][1]

SpeaksFirst_Never(n, i) == FALSE
SpeaksFirst(n, i) == edges[i][1] = n

Init ==
  /\ \E t \in Topologies : edges = GossipEdges(t)
  /\ steps \in StepLimits
  /\ fits \in BOOLEAN
  /\ phase = [n \in Nodes |-> "down"]
  /\ round = [n \in Nodes |-> 0]
  /\ pos = [n \in Nodes |-> 0]
  /\ got = [n \in Nodes |-> {}]
  /\ heard = [n \in Nodes |-> {}]
  /\ pending = [n \in Nodes |-> <<>>]
  /\ inbox = [n \in Nodes |-> [p \in Nodes |-> <<>>]]

(* The constructor: bind and listen.                                       *)
Start(n) ==
  /\ phase[n] = "down"
  /\ phase' = [phase EXCEPT ![n] = "ready"]
  /\ UNCHANGED <<edges, steps, fits, round, pos, got, heard, pending, inbox>>

(* The for loop of step(): on to the node's next edge after i, or out.     *)
Proceed(n, i) ==
  LET later == {j \in Turns(n) : j > i}
  IN  \/ /\ later = {}
         /\ phase' = [phase EXCEPT ![n] = "ready"]
         /\ pos' = [pos EXCEPT ![n] = 0]
      \/ \E j \in later :
           /\ \A k \in later : j <= k
           /\ phase' = [phase EXCEPT ![n] =
                          IF SpeaksFirst(n, j) THEN "send" ELSE "recv"]
           /\ pos' = [pos EXCEPT ![n] = j]

(* step() produces the round's payload and walks to its first edge.        *)
Begin(n) ==
  /\ phase[n] = "ready" /\ round[n] < steps[n]
  /\ round' = [round EXCEPT ![n] = @ + 1]
  /\ heard' = [heard EXCEPT ![n] = {}]
  /\ Proceed(n, 0)
  /\ UNCHANGED <<edges, steps, fits, got, pending, inbox>>

(* The main loop is over: link.close().  What is left in the listen queue  *)
(* of a node that no longer listens will never be read.                    *)
Close(n) ==
  /\ phase[n] = "ready" /\ round[n] = steps[n]
  /\ phase' = [phase EXCEPT ![n] = "closed"]
  /\ UNCHANGED <<edges, steps, fits, round, pos, got, heard, pending, inbox>>

(* create_connection succeeds as soon as the peer listens.                 *)
Connect(n) ==
  /\ phase[n] = "send" /\ Listening(Peer(n))
  /\ pending' = [pending EXCEPT ![Peer(n)] = Append(@, <<n, round[n]>>)]
  /\ phase' = [phase EXCEPT ![n] = "sending"]
  /\ UNCHANGED <<edges, steps, fits, round, pos, got, heard, inbox>>

(* The end of an exchange: consume what arrived, on to the next edge.      *)
Finish(n, frames) ==
  /\ heard' = [heard EXCEPT ![n] = @ \cup frames]
  /\ got' = [got EXCEPT ![n] = {}]
  /\ Proceed(n, pos[n])

CutShort == 0   \* rounds count from 1

Unread(n) == \E k \in DOMAIN pending[Peer(n)] :
               pending[Peer(n)][k] = <<n, round[n]>>

(* sendall returns: the frame is buffered, or the peer has read it.        *)
Sent(n) ==
  /\ phase[n] = "sending" /\ (fits \/ ~Unread(n))
  /\ IF SpeaksFirst(n, pos[n])
       THEN /\ phase' = [phase EXCEPT ![n] = "recv"]
            /\ UNCHANGED <<pos, got, heard>>
       ELSE Finish(n, got[n])
  /\ UNCHANGED <<edges, steps, fits, round, pending, inbox>>

(* _recv_tcp(pid) has a frame of pid to return.                            *)
Deliver(n, frame) ==
  IF SpeaksFirst(n, pos[n])
    THEN Finish(n, {frame})
    ELSE /\ got' = [got EXCEPT ![n] = {frame}]
         /\ phase' = [phase EXCEPT ![n] = "send"]
         /\ UNCHANGED <<pos, heard>>

Popped(s) == Tail(s)

(* A frame of the awaited peer was buffered earlier.                       *)
TakeBuffered(n) ==
  /\ phase[n] = "recv" /\ inbox[n][Peer(n)] # <<>>
  /\ Deliver(n, Head(inbox[n][Peer(n)]))
  /\ inbox' = [inbox EXCEPT ![n][Peer(n)] = Popped(@)]
  /\ UNCHANGED <<edges, steps, fits, round, pending>>

Awaited_Anyone(n, src) == TRUE
Awaited(n, src) == src = Peer(n)

(* accept() and read the next connection: returned if it is the awaited    *)
(* peer's, buffered under its sender's id otherwise; a frame cut short     *)
(* ends the process ("peer closed").                                       *)
Accept(n) ==
  /\ phase[n] = "recv" /\ inbox[n][Peer(n)] = <<>>
  /\ pending[n] # <<>>
  /\ pending' = [pending EXCEPT ![n] = Tail(@)]
  /\ LET frame == Head(pending[n])
     IN  \/ /\ frame[2] = CutShort
            /\ phase' = [phase EXCEPT ![n] = "failed"]
            /\ UNCHANGED <<pos, got, heard, inbox>>
         \/ /\ frame[2] # CutShort /\ Awaited(n, frame[1])
            /\ Deliver(n, frame)
            /\ UNCHANGED inbox
         \/ /\ frame[2] # CutShort /\ ~Awaited(n, frame[1])
            /\ inbox' = [inbox EXCEPT ![n][frame[1]] = Append(@, frame)]
            /\ UNCHANGED <<phase, pos, got, heard>>
  /\ UNCHANGED <<edges, steps, fits, round>>

(* "node ... never came up": connect_timeout is over.  A peer that has     *)
(* stopped listening never comes back, so there it always ends that way.   *)
GiveUp(n) ==
  /\ phase[n] = "send" /\ ~Listening(Peer(n))
  /\ phase[Peer(n)] = "down" => MayGiveUp
  /\ phase' = [phase EXCEPT ![n] = "failed"]
  /\ UNCHANGED <<edges, steps, fits, round, pos, got, heard, pending, inbox>>

(* sendall fails: the peer ended, or has not read the frame within the 5 s *)
(* that create_connection leaves as the socket's timeout.  The peer will   *)
(* find a frame cut short.                                                 *)
SendBreaks(n) ==
  /\ phase[n] = "sending" /\ ~fits /\ Unread(n)
  /\ phase' = [phase EXCEPT ![n] = "failed"]
  /\ pending' = [pending EXCEPT ![Peer(n)] =
                   [k \in DOMAIN @ |-> IF @[k][1] = n THEN <<n, CutShort>> ELSE @[k]]]
  /\ UNCHANGED <<edges, steps, fits, round, pos, got, heard, inbox>>

(* What the process does when it is given the processor and the network    *)
(* answers.  A timeout that beats an answer is not among them.             *)
Progress(n) == \/ Start(n) \/ Begin(n) \/ Close(n)
               \/ Connect(n) \/ Sent(n) \/ TakeBuffered(n) \/ Accept(n)

Next == \E n \in Nodes : Progress(n) \/ GiveUp(n) \/ SendBreaks(n)

Spec == Init /\ [][Next]_vars
FairSpec == Spec /\ \A n \in Nodes : WF_vars(Progress(n))

-----------------------------------------------------------------------------
Uniform == \A n, p \in Nodes : steps[n] = steps[p]

(* With the same --steps everywhere, every node finishes its rounds, in    *)
(* any graph and with frames of any size, unless a timeout ends one of     *)
(* them: no order of the exchanges leaves two nodes waiting on each other. *)
EveryoneFinishes ==
  Uniform => <>(\/ \A n \in Nodes : phase[n] = "closed"
                \/ \E n \in Nodes : phase[n] = "failed")

(* The exchanges implement synchronous gossip: a node consumes, in each    *)
(* round, one payload of each neighbour and that neighbour's of the same   *)
(* round, whoever runs ahead and in whatever order connections arrive.     *)
Gossip == INSTANCE SyncGossip WITH
  Nodes <- Nodes,
  links <- {{edges[i][1], edges[i][2]} : i \in DOMAIN edges},
  status <- [n \in Nodes |-> IF phase[n] \in {"closed", "failed"}
                               THEN phase[n] ELSE "up"]
PromiseKept == Gossip!Spec
=============================================================================
