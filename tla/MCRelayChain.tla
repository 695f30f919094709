---------------------------- MODULE MCRelayChain ----------------------------
(* The two forms of the runs with more than two nodes, one or the other in *)
(* an execution: a chain of processes (RelayChain), with a client, two     *)
(* relays and a server over every mixture of media, and all nodes in one   *)
(* process (InProcessRunners, its variables named p_... here).             *)
EXTENDS RelayChain

MCLast == 3
MCMedia == [1..MCLast -> {"tcp", "wireless"}]
MCMayCrash == 0..MCLast

VARIABLES p_runner, p_channel, p_edges, p_stable, p_pc, p_step, p_at, p_payload,
          p_ok, p_pos, p_held, p_model, p_told, p_stats, p_agent

inOne == <<p_runner, p_channel, p_edges, p_stable, p_pc, p_step, p_at, p_payload,
           p_ok, p_pos, p_held, p_model, p_told, p_stats, p_agent>>

(* Three nodes: the two graphs with a name, and a line whose edges are     *)
(* listed backwards and twice.                                             *)
Line == << <<1, 0>>, <<1, 2>>, <<2, 1>> >>
MCGraphs == {[kind |-> k, listed |-> <<>>] : k \in {"ring", "full"}}
            \cup {[kind |-> "custom", listed |-> Line]}

One == INSTANCE InProcessRunners WITH
  N <- 3, Steps <- 2, QMax <- 2, Channels <- {"ideal", "pyphy", "lora"},
  Graphs <- MCGraphs,
  runner <- p_runner, channel <- p_channel, edges <- p_edges, stable <- p_stable,
  pc <- p_pc, step <- p_step, at <- p_at, payload <- p_payload, ok <- p_ok,
  pos <- p_pos, held <- p_held, model <- p_model, told <- p_told,
  stats <- p_stats, agent <- p_agent

-----------------------------------------------------------------------------
(* The form that is not run has ended.                                     *)
NoProcess ==
  /\ p_runner = "slotted" /\ p_channel = "ideal" /\ p_edges = <<>> /\ p_stable = TRUE
  /\ p_pc = "end" /\ p_step = 2 /\ p_at = 0 /\ p_ok = TRUE
  /\ p_payload = [n \in One!Nodes |-> One!None] /\ p_pos = [edge |-> 1, back |-> FALSE]
  /\ p_held = [n \in One!Nodes |-> {}] /\ p_model = One!None /\ p_told = {}
  /\ p_stats = [delivered |-> 0, lost |-> 0, hops |-> 0, collisions |-> 0, idle |-> 0]
  /\ p_agent = [n \in One!Nodes |->
                  [queue |-> 0, txs |-> 0, delivered |-> 0, collisions |-> 0]]

NoChain ==
  /\ medium = [h \in 1..Last |-> "tcp"]
  /\ pc = [i \in Nodes |-> "gone"] /\ verdict = [i \in Nodes |-> "done"]
  /\ told = [i \in Nodes |-> i # Server] /\ queue = [i \in Nodes |-> <<>>]
  /\ caller = [i \in Nodes |-> 0] /\ input = [i \in Nodes |-> Nothing]
  /\ held = [i \in Nodes |-> Nothing] /\ answer = [i \in Nodes |-> Silent]
  /\ round = 0 /\ adopted = [in |-> 0, value |-> Nothing] /\ spoiled = {}

MCInit == (Init /\ NoProcess) \/ (One!Init /\ NoChain)
MCNext == (Next /\ UNCHANGED inOne) \/ (One!Next /\ UNCHANGED vars)
Fair == WF_vars(ClientStep) /\ WF_vars(Mix) /\ \A i \in Nodes : WF_vars(NodeStep(i))
MCSpec == MCInit /\ [][MCNext]_<<vars, inOne>> /\ Fair

-----------------------------------------------------------------------------
(* The nodes of one process: a gossip over a channel that loses nothing    *)
(* keeps the promise of the peers in processes of their own (SyncGossip),  *)
(* and a client that is told TRUE adopted the answer to its own request.   *)
InOneProcess == One!PromiseKept /\ []One!RoundTripTrue
=============================================================================
