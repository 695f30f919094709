--------------------------- MODULE FederatedRounds ---------------------------
(***************************************************************************)
(* Federated averaging with one process per node (algorithms/fl/fl.py) and *)
(* distributed SGD between a worker and its mirror (mnist_sgd_over_sdr.py).*)
(* Every exchange of a round is a call: a radio transfer by a source_arq   *)
(* and a sink_arq process started for it (_send, _recv), or a frame on the *)
(* TCP model link (NetServer, NetClient), per direction.                   *)
(*                                                                         *)
(*   "compressed"  every client sends its delta, the server applies the    *)
(*                 mean and sends that mean to every client                *)
(*   "full"        client by client, the server sends its model and takes  *)
(*                 the trained one; then it averages                       *)
(*   "mock"        run_mock: the same rounds in one process                *)
(*   "sgd"         the worker applies its update and sends it              *)
(*                                                                         *)
(* A model is the sequence of the aggregates applied to the common initial *)
(* one; an aggregate is the set of contributions averaged, each with its   *)
(* author and the number of aggregates in the model it was trained on.     *)
(*                                                                         *)
(* The radio frames carry neither an author nor the round's number (the    *)
(* number in the payload is not looked at), a sink serves whichever source *)
(* connects first, the exit status of a transfer is ignored, and nobody's  *)
(* wait has a limit except a source's for its connection (18 s).  The      *)
(* server listens before a client starts (its own start is not modelled).  *)
(*                                                                         *)
(* The specification is RoundsSpec and the names of the model are its own, *)
(* so that a module of proofs can extend it next to another star.          *)
(***************************************************************************)
EXTENDS Naturals, Sequences, FiniteSets, SequencesExt

CONSTANTS
  K,        \* most clients considered
  Rounds,   \* --rounds
  Kinds,    \* programs considered
  Deaths    \* bound: clients that die

ASSUME FederatedRoundsAssumption ==
  /\ K \in Nat \ {0} /\ Rounds \in Nat /\ Deaths \in Nat
  /\ Kinds \subseteq {"compressed", "full", "mock", "sgd"}

ClientIds == 1..K
Server == 0
Nodes == {Server} \cup ClientIds

VARIABLES
  kind, up, down,   \* the program; "radio" or "net" per direction
  clients,          \* --clients
  near,             \* the clients on the machine the server's --ack-host names
  long,             \* a model frame needs more than 255 chunks
  (* the server *)
  spc,      \* "hello", "up", "down", "ended", "raised"
  sround, turn,     \* round, and the client of this iteration
  deltas,   \* contributions of this round
  model,
  (* the clients *)
  cpc,      \* "hello", "up", "down", "ended", "raised", "dead"
  cround, cmodel,
  (* the transfers *)
  src,      \* "off", "connect", "send", "deaf": its connection was reset
  sink,     \* "off", "listen", "accept", "session", "grace"
  peer,     \* whom a sink serves
  file,     \* what its session received
  netUp, netDown,   \* frames on the model link, per client
  greeting, \* a client's connection: "none", "open", "hello" when its HELLO is
            \* sent, "cut" when it was closed before
  (* history *)
  lost      \* nodes that died, gave up, or whose connection was reset

served   == <<kind, up, down, clients, near, long>>
server   == <<spc, sround, turn, deltas, model>>
client   == <<cpc, cround, cmodel>>
transfer == <<src, sink, peer, file>>
net      == <<netUp, netDown, greeting>>
roundsVars == <<served, server, client, transfer, net, lost>>

OverNet == "net" \in {up, down}
Users == 1..clients

(* Operators named X_... are X with a plausible slip of the programmer; no *)
(* specification uses them.                                                *)

First == CASE kind = "full" -> "down" [] kind = "mock" -> "mock" [] OTHER -> "up"

RoundsInit ==
  /\ kind \in Kinds
  /\ up \in {"radio", "net"} /\ down \in {"radio", "net"}
  /\ kind \in {"sgd", "mock"} => up = "radio" /\ down = "radio"
  /\ clients \in IF kind = "sgd" THEN {1} ELSE ClientIds
  /\ near \in {{1}, Users}
  /\ long \in IF kind \in {"full", "compressed"} THEN BOOLEAN ELSE {FALSE}
  /\ spc = (IF OverNet THEN "hello" ELSE First)
  /\ sround = 0 /\ turn = 1 /\ deltas = {} /\ model = <<>>
  /\ cpc = [c \in ClientIds |-> IF c \notin Users THEN "ended"
                               ELSE IF OverNet THEN "hello" ELSE First]
  /\ cround = [c \in ClientIds |-> 0] /\ cmodel = [c \in ClientIds |-> <<>>]
  /\ src = [p \in Nodes |-> "off"] /\ sink = [p \in Nodes |-> "off"]
  /\ peer = [p \in Nodes |-> p] /\ file = [p \in Nodes |-> <<>>]
  /\ netUp = [c \in ClientIds |-> <<>>] /\ netDown = [c \in ClientIds |-> <<>>]
  /\ greeting = [c \in ClientIds |-> "none"]
  /\ lost = {}

-----------------------------------------------------------------------------
(* What a node contributes, and where the round goes next.                 *)
Own(c) == [by |-> c, base |-> Len(cmodel[c]) - (IF kind = "sgd" THEN 1 ELSE 0)]
Garbled == [by |-> Server, base |-> 0]

ClientEndsRound(c) ==
  /\ cround' = [cround EXCEPT ![c] = @ + 1]
  /\ cpc' = [cpc EXCEPT ![c] = IF cround[c] + 1 = Rounds THEN "ended" ELSE First]

(* A client's delta is up: it waits for the aggregate.  A trained model or *)
(* an SGD update ends its round.                                           *)
SentUp_Hasty(c) == ClientEndsRound(c)
SentUp(c) ==
  IF kind = "compressed" THEN cpc' = [cpc EXCEPT ![c] = "down"] /\ UNCHANGED cround
  ELSE ClientEndsRound(c)

(* deserialize, then _set_flat, or apply_sparse on the model without the   *)
(* client's own delta.                                                     *)
Base_Trained(c) == Append(cmodel[c], {Own(c)})
Base(c) == cmodel[c]

GotDown(c, got) ==
  /\ cmodel' = [cmodel EXCEPT ![c] = IF kind = "full" THEN got ELSE Base(c) \o got]
  /\ IF kind = "full" THEN cpc' = [cpc EXCEPT ![c] = "up"] /\ UNCHANGED cround
     ELSE ClientEndsRound(c)

(* The frame for the clients: the model, or the exact aggregate.           *)
DownFrame == IF kind = "full" THEN model ELSE <<Last(model)>>

ServerEndsRound ==
  /\ sround' = sround + 1 /\ turn' = 1
  /\ spc' = IF sround + 1 = Rounds THEN "ended" ELSE First

GotUp(delta) ==
  LET all == deltas \cup {delta}
      done == turn = clients
  IN  IF ~done
      THEN /\ deltas' = all /\ turn' = turn + 1
           /\ spc' = First
           /\ UNCHANGED <<model, sround>>
      ELSE /\ deltas' = {} /\ model' = Append(model, all)
           /\ IF kind = "compressed"
              THEN turn' = 1 /\ spc' = "down" /\ UNCHANGED sround
              ELSE ServerEndsRound

SentDown ==
  /\ CASE kind = "full" -> spc' = "up" /\ UNCHANGED <<turn, sround>>
       [] kind # "full" /\ turn = clients -> ServerEndsRound
       [] OTHER -> turn' = turn + 1 /\ UNCHANGED <<spc, sround>>
  /\ UNCHANGED <<deltas, model>>

(* A process that has not ended.                                           *)
Live(p) == IF p = Server THEN spc \notin {"ended", "raised"}
           ELSE cpc[p] \notin {"ended", "raised", "dead"}

-----------------------------------------------------------------------------
(* The TCP model link.                                                     *)
ClientRaises(c) ==
  /\ cpc' = [cpc EXCEPT ![c] = "raised"]
  /\ UNCHANGED <<served, server, cround, cmodel, transfer, net, lost>>

Closed_Never == FALSE
Closed == spc \in {"ended", "raised"}

(* create_connection, refused once the server has gone.                    *)
Dials(c) ==
  /\ cpc[c] = "hello" /\ greeting[c] = "none"
  /\ \/ /\ ~Closed
        /\ greeting' = [greeting EXCEPT ![c] = "open"]
        /\ UNCHANGED <<served, server, client, transfer, netUp, netDown, lost>>
     \/ Closed /\ ClientRaises(c)

Hello(c) ==
  /\ cpc[c] = "hello" /\ greeting[c] = "open"
  /\ cpc' = [cpc EXCEPT ![c] = First]
  /\ greeting' = [greeting EXCEPT ![c] = "hello"]
  /\ UNCHANGED <<served, server, cround, cmodel, transfer, netUp, netDown, lost>>

(* Whatever raises ends the server, and with it the model link.            *)
ServerRaises ==
  /\ spc' = "raised"
  /\ UNCHANGED <<served, sround, turn, deltas, model, client, transfer, net, lost>>

(* accept() has no limit: wait_all is over when every client's HELLO is    *)
(* there, also that of a client that died since, or by an exception when a *)
(* connection closes without one.                                          *)
WaitAll ==
  /\ spc = "hello"
  /\ \/ /\ \A c \in Users : greeting[c] = "hello"
        /\ spc' = First
        /\ UNCHANGED <<served, sround, turn, deltas, model, client, transfer, net, lost>>
     \/ /\ \E c \in Users : greeting[c] = "cut"
        /\ ServerRaises

NetSendUp(c) ==
  /\ cpc[c] = "up" /\ up = "net"
  /\ \/ /\ netUp' = [netUp EXCEPT ![c] = Append(@, Own(c))]
        /\ SentUp(c)
        /\ UNCHANGED <<served, server, cmodel, transfer, netDown, greeting, lost>>
     \/ ~Live(Server) /\ ClientRaises(c)

NetRecvDown(c) ==
  /\ cpc[c] = "down" /\ down = "net"
  /\ \/ /\ netDown[c] # <<>>
        /\ netDown' = [netDown EXCEPT ![c] = Tail(@)]
        /\ GotDown(c, Head(netDown[c]))
        /\ UNCHANGED <<served, server, transfer, netUp, greeting, lost>>
     \/ Closed /\ ClientRaises(c)

NetRecvUp ==
  /\ spc = "up" /\ up = "net"
  /\ \/ /\ netUp[turn] # <<>>
        /\ netUp' = [netUp EXCEPT ![turn] = Tail(@)]
        /\ GotUp(Head(netUp[turn]))
        /\ UNCHANGED <<served, client, transfer, netDown, greeting, lost>>
     \/ ~Live(turn) /\ cpc[turn] # "ended" /\ ServerRaises

NetSendDown ==
  /\ spc = "down" /\ down = "net"
  /\ \/ /\ netDown' = [netDown EXCEPT ![turn] = Append(@, DownFrame)]
        /\ SentDown
        /\ UNCHANGED <<served, client, transfer, netUp, greeting, lost>>
     \/ ~Live(turn) /\ ServerRaises

-----------------------------------------------------------------------------
(* A radio transfer: _recv starts a sink_arq, _send a source_arq.          *)
Waits(p) == Live(p) /\ IF p = Server THEN spc = "up" /\ up = "radio"
                       ELSE cpc[p] = "down" /\ down = "radio"
Sends(p) == Live(p) /\ IF p = Server THEN spc = "down" /\ down = "radio"
                       ELSE cpc[p] = "up" /\ up = "radio"
Onwards(p) == IF p = Server
              THEN SentDown /\ UNCHANGED client
              ELSE SentUp(p) /\ UNCHANGED <<cmodel, server>>
TooLong(p) == long /\ (kind = "full" \/ p = Server)

(* The port may be in use by the sink of another client of the machine:    *)
(* then no file is written, and open() raises.                             *)
Neighbour(p) == \E q \in near \ {p, Server} : p \in near /\ sink[q] # "off"

StartSink(p) ==
  /\ Waits(p) /\ sink[p] = "off"
  /\ IF Neighbour(p)
     THEN /\ lost' = lost \cup {p}
          /\ cpc' = [cpc EXCEPT ![p] = "raised"] /\ UNCHANGED sink
     ELSE sink' = [sink EXCEPT ![p] = "listen"] /\ UNCHANGED <<cpc, lost>>
  /\ UNCHANGED <<served, server, cround, cmodel, src, peer, file, net>>

(* An SGD update is applied before it is sent.                             *)
StartSource(p) ==
  /\ Sends(p) /\ src[p] = "off"
  /\ src' = [src EXCEPT ![p] = "connect"]
  /\ cmodel' = IF kind = "sgd"
               THEN [cmodel EXCEPT ![p] = Append(@, {[by |-> p, base |-> Len(@)]})]
               ELSE cmodel
  /\ UNCHANGED <<served, server, cpc, cround, sink, peer, file, net, lost>>

Reaches(p, q) == IF p = Server THEN q \in near ELSE q = Server

(* accept_one: the first connection is the session's; one completed before *)
(* the listening socket is closed is reset, and its source does not notice.*)
Connect(p, q) ==
  /\ src[p] = "connect" /\ ~TooLong(p) /\ Reaches(p, q)
  /\ CASE sink[q] = "listen" ->
            /\ sink' = [sink EXCEPT ![q] = "accept"] /\ peer' = [peer EXCEPT ![q] = p]
            /\ src' = [src EXCEPT ![p] = "send"] /\ UNCHANGED lost
       [] sink[q] = "accept" ->
            /\ src' = [src EXCEPT ![p] = "deaf"] /\ lost' = lost \cup {p}
            /\ UNCHANGED <<sink, peer>>
       [] OTHER -> FALSE
  /\ UNCHANGED <<served, server, client, file, net>>

Accept(q) ==
  /\ sink[q] = "accept"
  /\ sink' = [sink EXCEPT ![q] = "session"]
  /\ UNCHANGED <<served, server, client, src, peer, file, net, lost>>

(* Every chunk has been decoded and acknowledged.  Chunks have no author:  *)
(* those of a source whose connection was reset count as well.             *)
Content(p) == IF p = Server THEN DownFrame ELSE Own(p)
Deliver(p, q) ==
  /\ src[p] = "send" /\ sink[q] = "session" /\ peer[q] = p
  /\ src' = [src EXCEPT ![p] = "off"]
  /\ sink' = [sink EXCEPT ![q] = "grace"]
  /\ \E got \in {Content(p)} \cup (IF q = Server /\ \E o \in Users : src[o] = "deaf"
                                           THEN {Garbled} ELSE {}) :
       file' = [file EXCEPT ![q] = got]
  /\ Onwards(p)
  /\ UNCHANGED <<served, peer, net, lost>>

(* The grace is over, the file is written and read.                        *)
SinkEnds(q) ==
  /\ sink[q] = "grace"
  /\ sink' = [sink EXCEPT ![q] = "off"] /\ file' = [file EXCEPT ![q] = <<>>]
  /\ IF q = Server THEN GotUp(file[q]) /\ UNCHANGED client
     ELSE GotDown(q, file[q]) /\ UNCHANGED server
  /\ UNCHANGED <<served, src, peer, net, lost>>

(* source_arq gives up: refused for 18 s, a payload of too many chunks, or *)
(* --max-attempts timeouts on a chunk.  The program goes on as if sent.    *)
Refused(p) ==
  /\ src[p] = "connect"
  /\ TooLong(p) \/ ~\E q \in Nodes : Reaches(p, q) /\ sink[q] \in {"listen", "accept"}
GivesUp(p) ==
  /\ Refused(p) \/ src[p] \in {"send", "deaf"}
  /\ src' = [src EXCEPT ![p] = "off"]
  /\ lost' = lost \cup {p}
  /\ Onwards(p)
  /\ UNCHANGED <<served, sink, peer, file, net>>

-----------------------------------------------------------------------------
(* A client dies: its sockets and its radio process with it.               *)
Dies(c) ==
  /\ c \in Users /\ Live(c) /\ kind # "mock"
  /\ Cardinality({d \in ClientIds : cpc[d] = "dead"}) < Deaths
  /\ cpc' = [cpc EXCEPT ![c] = "dead"]
  /\ src' = [src EXCEPT ![c] = "off"] /\ sink' = [sink EXCEPT ![c] = "off"]
  /\ greeting' = [greeting EXCEPT ![c] = IF @ = "open" THEN "cut" ELSE @]
  /\ lost' = lost \cup {c}
  /\ UNCHANGED <<served, server, cround, cmodel, peer, file, netUp, netDown>>

(* run_mock: a round is one iteration of its loop.                         *)
MockRound ==
  /\ kind = "mock" /\ spc = "mock"
  /\ model' = Append(model, {Own(c) : c \in Users})
  /\ cmodel' = [c \in ClientIds |-> model']
  /\ sround' = sround + 1 /\ cround' = [c \in ClientIds |-> sround + 1]
  /\ IF sround + 1 = Rounds
     THEN spc' = "ended" /\ cpc' = [c \in ClientIds |-> "ended"]
     ELSE UNCHANGED <<spc, cpc>>
  /\ UNCHANGED <<served, turn, deltas, transfer, net, lost>>

ServerNet == WaitAll \/ NetRecvUp \/ NetSendDown
ClientNet(c) == Dials(c) \/ Hello(c) \/ NetSendUp(c) \/ NetRecvDown(c)
Radio(p) == \/ StartSink(p) \/ StartSource(p) \/ Accept(p) \/ SinkEnds(p)
            \/ \E q \in Nodes : Connect(p, q) \/ Deliver(p, q)

RoundsNext == \/ ServerNet \/ MockRound
              \/ \E c \in Users : ClientNet(c) \/ Dies(c)
              \/ \E p \in Users \cup {Server} : Radio(p) \/ GivesUp(p)

(* Processes run, and a chunk sent again and again is decoded in the end.  *)
Fairness ==
  /\ WF_roundsVars(ServerNet) /\ WF_roundsVars(MockRound)
  /\ \A c \in ClientIds : WF_roundsVars(ClientNet(c))
  /\ \A p \in Nodes : WF_roundsVars(Radio(p)) /\ WF_roundsVars(GivesUp(p) /\ Refused(p))

RoundsSpec == RoundsInit /\ [][RoundsNext]_roundsVars /\ Fairness

-----------------------------------------------------------------------------
(* With more than one client a radio downlink reaches the ones at the one  *)
(* --ack-host only: another client's frame goes there too, or nowhere.     *)
Misdirected == down = "radio" /\ clients > 1 /\ kind \in {"compressed", "full"}

(* Every aggregate of fl.py is the mean of one contribution of each client,*)
(* trained on the model of that very round, whoever's transfer the server  *)
(* took for whose and whatever was lost -- although no frame says whose or *)
(* which round's it is.  Only a connection reset after it was completed    *)
(* lets the chunks of two clients mix.  An SGD mirror is only promised it  *)
(* while no transfer is given up, and nothing is where a downlink may be   *)
(* misdirected.                                                            *)
FairMean ==
  (kind # "sgd" \/ lost = {}) /\ ~Misdirected =>
    \A i \in DOMAIN model : \/ model[i] = {[by |-> c, base |-> i - 1] : c \in Users}
                           \/ Garbled \in model[i]

(* The mirrors agree: a client's model is the server's, or the one before. *)
(* The SGD worker, who applies its update first, is ahead by the one in    *)
(* flight and the one the server's sink still holds back (its grace) at    *)
(* most, unless a transfer was given up.                                   *)
Behind(c) == /\ IsPrefix(cmodel[c], model)
             /\ Len(model) <= Len(cmodel[c]) + 1
MirrorsAgree ==
  CASE kind = "sgd" -> lost = {} => /\ IsPrefix(model, cmodel[1])
                                    /\ Len(cmodel[1]) <= Len(model) + 2
    [] Misdirected -> TRUE
    [] OTHER -> \A c \in Users : Behind(c)

(* Both: every aggregate is fair and every mirror has it.                  *)
RoundsAgree == FairMean /\ MirrorsAgree

(* fl.py's comment on the aggregate: server and clients apply the same one,*)
(* the mirrors track the server exactly.                                   *)
TrackTheServer ==
  kind = "compressed" => \A c \in Users : IsPrefix(cmodel[c], model)

(* The server's accept() waits for a client that died before it connected, *)
(* and every other client for the server.                                  *)
NeverCame(c) == cpc[c] = "dead" /\ greeting[c] = "none"

(* Everybody ends -- also when a client dies, between connecting and its   *)
(* HELLO or at any time after it, as long as both directions are on the    *)
(* model link.  One that dies before it has connected is waited for        *)
(* without limit.  Over the radio nobody's wait has a limit: one           *)
(* transfer given up, one connection reset or one client dead, and the     *)
(* others may wait for ever, as the client of a misdirected frame does.    *)
EndsUnlessLost ==
  <>(\/ ~Live(Server) /\ \A c \in Users : ~Live(c)
     \/ "radio" \in {up, down} /\ lost # {}
     \/ \E c \in Users : NeverCame(c)
     \/ Misdirected)
=============================================================================
