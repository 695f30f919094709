-------------------------- MODULE InProcessRunners --------------------------
(***************************************************************************)
(* All nodes of an experiment in one process, a channel between them       *)
(* (phy_link.py: run_loopback, run_chain, run_gossip, run_slotted): the fl *)
(* algorithm over a request and its answer, directly or through relays, the*)
(* dl algorithm over a graph, and marl_multi's agents over a slotted       *)
(* medium.  What a channel does to one payload is the only thing that is   *)
(* not the program's own decision.                                         *)
(*                                                                         *)
(* A payload is [by, of, state]: who computed it, in which round (of the   *)
(* server: from the very request of which round, or 0), and whether it is  *)
(* what was computed.  "garbled" has wrong bits and is still finite        *)
(* numbers, "misshapen" has them in the header, so that it is an array of  *)
(* another size, and "diverged" was not finite to begin with.              *)
(***************************************************************************)
EXTENDS Naturals, Sequences, SequencesExt

CONSTANTS
  N,         \* nodes: --agents, or --relays + 2
  Channels,  \* subset of {"ideal", "pyphy", "lora"}
  Graphs,    \* --topology values considered: [kind, listed]
  Steps,     \* --steps
  QMax       \* marl_multi's Q_MAX

Nodes == 0..(N - 1)
First == 0
Final == N - 1

VARIABLES
  runner,    \* "loopback", "chain", "gossip", "slotted"
  channel,
  edges,     \* of the gossip
  stable,    \* every model stays finite
  pc,        \* what the runner does next
  step,      \* t + 1
  at,        \* who holds the payload, or the next node to produce
  payload,   \* in hand; of every node in a gossip round
  ok,        \* of the round trip so far
  pos,       \* gossip: [edge, back], the transfer that is next
  held,      \* applications: buf of the server and of the peers, fwd of a relay
  model,     \* what the client holds: the answer it consumed last
  told,      \* senders told TRUE in this step, <<sender, receiver>> in a gossip
  stats,     \* delivered, lost, hops, collisions, idle
  agent      \* slotted: [queue, txs, delivered, collisions] of each agent

setup == <<runner, channel, edges, stable>>
appVars == <<held, model, agent>>
vars == <<setup, pc, step, at, payload, ok, pos, appVars, told, stats>>

None == [by |-> N, of |-> 0, state |-> "none"]

(* Operators named X_... are X with a plausible slip of the programmer; no *)
(* specification uses them.                                                *)

-----------------------------------------------------------------------------
(* channel.transfer and _safe_unpack: what the receiver can use, and crc_ok.*)
(* The modem reports crc_ok when no bit is wrong; a LoRa packet that is not *)
(* right never arrives.                                                     *)
Whole(v) == [msg |-> IF v.state = "diverged" THEN None ELSE v, crc |-> TRUE]
Nothing == [msg |-> None, crc |-> FALSE]
Spoilt(v, how) == [msg |-> [v EXCEPT !.state = how], crc |-> FALSE]

Carry(v) ==
  CASE channel = "ideal" -> {Whole(v)}
    [] channel = "lora"  -> {Whole(v), Nothing}
    [] channel = "pyphy" ->
         {Whole(v), Nothing, Spoilt(v, "garbled"), Spoilt(v, "misshapen")}

(* gossip_edges: every edge once, however often and whichever way round a   *)
(* custom list names it, in the order of its first mention.                *)
Tidied(listed) ==
  LET Low(e) == IF e[1] < e[2] THEN e ELSE <<e[2], e[1]>>
  IN  FoldLeft(LAMBDA kept, e : IF Contains(kept, Low(e)) THEN kept ELSE Append(kept, Low(e)),
               <<>>, listed)

Edges(graph) ==
  CASE graph.kind = "ring" ->
         IF N = 2 THEN << <<0, 1>> >> ELSE [k \in 1..N |-> <<k - 1, k % N>>]
    [] graph.kind = "full" ->
         SetToSortSeq({e \in Nodes \X Nodes : e[1] < e[2]},
                      LAMBDA e, f : e[1] < f[1] \/ (e[1] = f[1] /\ e[2] < f[2]))
    [] graph.kind = "custom" -> Tidied(graph.listed)

(* What a node that trains or averages hands out.                          *)
Model(n, t) == [by |-> n, of |-> t, state |-> "exact"]
Trained(n, t) == {Model(n, t)} \cup
                 (IF stable THEN {} ELSE {[Model(n, t) EXCEPT !.state = "diverged"]})

Usable(v) == v # None

Init ==
  /\ runner \in {"loopback", "chain", "gossip", "slotted"}
  /\ channel \in Channels /\ stable \in BOOLEAN
  /\ edges \in IF runner = "gossip" THEN {Edges(g) : g \in Graphs} ELSE {<<>>}
  /\ pc = "produce" /\ step = 0 /\ at = First
  /\ payload = [n \in Nodes |-> None]
  /\ ok = TRUE
  /\ pos = [edge |-> 1, back |-> FALSE]
  /\ held = [n \in Nodes |-> {}]
  /\ model = None
  /\ told = {}
  /\ stats = [delivered |-> 0, lost |-> 0, hops |-> 0, collisions |-> 0, idle |-> 0]
  /\ agent = [n \in Nodes |-> [queue |-> 0, txs |-> 0, delivered |-> 0, collisions |-> 0]]

(* An exception in an application ends the run for every node.             *)
Raise == pc' = "failed"

Count(field, n) == [stats EXCEPT ![field] = @ + n]
Bit(b) == IF b THEN 1 ELSE 0

(* Right so far: every hop of both legs must have been.                    *)
SoFar(crc) == ok /\ crc

Right(r) == r.crc /\ Usable(r.msg)

RoundTrip == runner \in {"loopback", "chain"}
Target == IF runner = "loopback" THEN Final ELSE at + 1
Source == IF runner = "loopback" THEN First ELSE at - 1

-----------------------------------------------------------------------------
(* run_loopback and run_chain: the client trains and asks.                 *)
Ask ==
  /\ RoundTrip /\ pc = "produce"
  /\ IF step = Steps
     THEN /\ pc' = "end"
          /\ UNCHANGED <<step, at, payload, ok, told>>
     ELSE /\ step' = step + 1
          /\ \E v \in Trained(First, step + 1) : payload' = [payload EXCEPT ![First] = v]
          /\ at' = First /\ ok' = TRUE /\ told' = {}
          /\ pc' = "out"
  /\ UNCHANGED <<setup, pos, appVars, stats>>

(* on_result, and the round's count.                                       *)
Conclude(verdict, hops) ==
  /\ told' = IF verdict THEN {First} ELSE {}
  /\ stats' = [stats EXCEPT !.delivered = @ + Bit(verdict), !.hops = @ + hops]
  /\ pc' = "produce"

(* A hop away from the client.  What arrives is consumed whether or not it *)
(* is right, and a relay hands on what it consumed; its declared shape is  *)
(* checked when it does.                                                   *)
HopOut ==
  /\ RoundTrip /\ pc = "out"
  /\ \E r \in Carry(payload[at]) :
       IF Usable(r.msg)
       THEN /\ held' = [held EXCEPT ![Target] = {r.msg}]
            /\ ok' = SoFar(r.crc)
            /\ at' = Target
            /\ payload' = [payload EXCEPT ![Target] = r.msg]
            /\ IF r.msg.state = "misshapen"
               THEN Raise
               ELSE pc' = IF Target = Final THEN "answer" ELSE "out"
            /\ stats' = Count("hops", 1)
            /\ UNCHANGED told
       ELSE /\ Conclude(FALSE, 1)
            /\ UNCHANGED <<held, ok, at, payload>>
  /\ UNCHANGED <<setup, step, pos, model, agent>>

(* The server averages what it holds and starts over.                      *)
Answer ==
  /\ RoundTrip /\ pc = "answer"
  /\ LET of == IF held[Final] = {Model(First, step)} THEN step ELSE 0
     IN  \E v \in Trained(Final, of) : payload' = [payload EXCEPT ![Final] = v]
  /\ held' = [held EXCEPT ![Final] = {}]
  /\ pc' = "back"
  /\ UNCHANGED <<setup, step, at, ok, pos, model, agent, told, stats>>

(* run_chain does not fetch the last hop of an answer that is already not  *)
(* right; run_loopback has its client consume whatever it can use.         *)
Fetched(sofar) == runner = "loopback" \/ sofar

HopBack ==
  /\ RoundTrip /\ pc = "back"
  /\ IF Source = First /\ ~Fetched(ok)
     THEN /\ Conclude(FALSE, 0)
          /\ UNCHANGED <<held, model, ok, at, payload>>
     ELSE \E r \in Carry(payload[at]) :
       IF ~Usable(r.msg)
       THEN /\ Conclude(FALSE, 1)
            /\ UNCHANGED <<held, model, ok, at, payload>>
       ELSE /\ at' = Source
            /\ ok' = SoFar(r.crc)
            /\ IF Source = First
               THEN /\ UNCHANGED <<held, payload>>
                    /\ IF r.msg.state = "misshapen"
                       THEN Raise /\ stats' = Count("hops", 1) /\ UNCHANGED <<told, model>>
                       ELSE model' = r.msg /\ Conclude(ok', 1)
               ELSE /\ held' = [held EXCEPT ![Source] = {r.msg}]
                    /\ payload' = [payload EXCEPT ![Source] = r.msg]
                    /\ stats' = Count("hops", 1)
                    /\ IF r.msg.state = "misshapen" THEN Raise ELSE UNCHANGED pc
                    /\ UNCHANGED <<model, told>>
  /\ UNCHANGED <<setup, step, pos, agent>>

-----------------------------------------------------------------------------
(* run_gossip: every peer mixes in what it holds, trains and hands out     *)
(* before any of them sends.  Arrays of different sizes do not mix.        *)
Kept_Buf(n) == held[n]
Kept(n) == {}

Mix ==
  /\ runner = "gossip" /\ pc = "produce"
  /\ at = First => step < Steps
  /\ IF at = First
     THEN step' = step + 1 /\ told' = {}
     ELSE UNCHANGED <<step, told>>
  /\ IF \E v \in held[at] : v.state = "misshapen"
     THEN Raise /\ UNCHANGED <<payload, held, at, pos>>
     ELSE /\ \E v \in Trained(at, step') : payload' = [payload EXCEPT ![at] = v]
          /\ held' = [held EXCEPT ![at] = Kept(at)]
          /\ IF at < Final
             THEN at' = at + 1 /\ UNCHANGED <<pc, pos>>
             ELSE at' = First /\ pc' = "send" /\ pos' = [edge |-> 1, back |-> FALSE]
  /\ UNCHANGED <<setup, ok, model, agent, stats>>

GossipDone ==
  /\ runner = "gossip" /\ pc = "produce" /\ at = First /\ step = Steps
  /\ pc' = "end"
  /\ UNCHANGED <<setup, step, at, payload, ok, pos, appVars, told, stats>>

(* Both directions of an edge, one after the other.                        *)
From == edges[pos.edge][IF pos.back THEN 2 ELSE 1]
To == edges[pos.edge][IF pos.back THEN 1 ELSE 2]

Onwards ==
  /\ pos' = IF pos.back THEN [edge |-> pos.edge + 1, back |-> FALSE]
            ELSE [pos EXCEPT !.back = TRUE]
  /\ pc' = IF pos.back /\ pos.edge = Len(edges) THEN "produce" ELSE "send"

Exchange ==
  /\ runner = "gossip" /\ pc = "send"
  /\ \E r \in Carry(payload[From]) :
       LET right == Right(r)
       IN  /\ held' = IF Usable(r.msg) THEN [held EXCEPT ![To] = @ \cup {r.msg}] ELSE held
           /\ told' = IF right THEN told \cup {<<From, To>>} ELSE told
           /\ stats' = [stats EXCEPT !.hops = @ + 1, !.delivered = @ + Bit(right),
                                     !.lost = @ + Bit(~right)]
  /\ Onwards
  /\ UNCHANGED <<setup, step, at, payload, ok, model, agent>>

-----------------------------------------------------------------------------
(* run_slotted: every agent draws its arrivals and decides.                *)
Decide ==
  /\ runner = "slotted" /\ pc = "produce"
  /\ at = First => step < Steps
  /\ IF at = First
     THEN step' = step + 1 /\ told' = {}
     ELSE UNCHANGED <<step, told>>
  /\ \E k \in 0..QMax, tx \in BOOLEAN :
       LET q == Min({agent[at].queue + k, QMax})
           sends == tx /\ q > 0
       IN  /\ agent' = [agent EXCEPT ![at].queue = q, ![at].txs = @ + Bit(sends)]
           /\ payload' = [payload EXCEPT ![at] =
                IF sends THEN Model(at, step') ELSE None]
  /\ IF at < Final THEN at' = at + 1 /\ UNCHANGED pc ELSE at' = First /\ pc' = "send"
  /\ UNCHANGED <<setup, ok, pos, held, model, stats>>

SlotsDone ==
  /\ runner = "slotted" /\ pc = "produce" /\ at = First /\ step = Steps
  /\ pc' = "end"
  /\ UNCHANGED <<setup, step, at, payload, ok, pos, appVars, told, stats>>

Senders == {n \in Nodes : payload[n] # None}

(* An agent's on_result: it knows only whether its own burst was answered. *)
Learns(n, acked) ==
  CASE n \in Senders /\ acked ->
         [agent[n] EXCEPT !.queue = @ - 1, !.delivered = @ + 1]
    [] n \in Senders /\ ~acked -> [agent[n] EXCEPT !.collisions = @ + 1]
    [] n \notin Senders -> agent[n]

(* Who hears that its burst got through: the one that was alone.           *)
Heard == IF Cardinality(Senders) = 1
         THEN {IF r.crc THEN Senders ELSE {} : r \in Carry(payload[Max(Senders)])}
         ELSE {{}}

Slot ==
  /\ runner = "slotted" /\ pc = "send"
  /\ \E acked \in Heard :
       /\ told' = acked
       /\ agent' = [n \in Nodes |-> Learns(n, n \in acked)]
       /\ stats' = [stats EXCEPT !.delivered = @ + Cardinality(acked),
                                 !.hops = @ + Bit(Cardinality(Senders) = 1),
                                 !.collisions = @ + Bit(Cardinality(Senders) > 1),
                                 !.idle = @ + Bit(Senders = {})]
  /\ pc' = "produce"
  /\ payload' = [n \in Nodes |-> None]
  /\ UNCHANGED <<setup, step, at, ok, pos, held, model>>

Next == \/ Ask \/ HopOut \/ Answer \/ HopBack
        \/ Mix \/ GossipDone \/ Exchange
        \/ Decide \/ SlotsDone \/ Slot

Spec == Init /\ [][Next]_vars

-----------------------------------------------------------------------------
(* A client is told TRUE only for a whole exchange: the server averaged    *)
(* exactly what the client sent in this very round, and the client consumed*)
(* exactly what the server made of it, however many hops there were.       *)
RoundTripTrue ==
  RoundTrip /\ told # {} => model = Model(Final, step)

(* Over a channel that loses nothing, and as long as the models stay       *)
(* finite, a gossip in one process keeps the promise that the peers in     *)
(* processes of their own keep over TCP.                                   *)
Promised == runner = "gossip" /\ channel = "ideal" /\ stable

Promise == INSTANCE SyncGossip WITH
  links <- IF Promised THEN {{edges[k][1], edges[k][2]} : k \in DOMAIN edges} ELSE {},
  round <- [n \in Nodes |-> IF Promised THEN payload[n].of ELSE 0],
  heard <- [n \in Nodes |-> IF Promised THEN {<<v.by, v.of>> : v \in held[n]} ELSE {}],
  status <- [n \in Nodes |-> "up"]

PromiseKept == Promise!Spec
=============================================================================
