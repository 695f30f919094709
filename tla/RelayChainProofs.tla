-------------------------- MODULE RelayChainProofs --------------------------
(***************************************************************************)
(* Proofs about RelayChain for chains of any length over any media: its    *)
(* typing, that no node takes a failure upstream for the end of the run,   *)
(* and that the client adopts the answer to its own request: behind a node *)
(* that has not passed its request on nothing moves, so whoever is busy is *)
(* busy with the one request of the round.                                 *)
(***************************************************************************)
EXTENDS RelayChain, TLAPS

Payloads == [by : {"nobody", "noise", "silence", "client", "server"}, of : Nat]
Frames == [kind : {"model", "bye", "cut"}, from : Nat, value : Payloads]
Places == {"off", "work", "send", "await", "ask", "got", "recv", "mix", "serve",
           "bye", "gone"}

TypeOK ==
  /\ medium \in [1..Last -> {"tcp", "wireless"}]
  /\ pc \in [Nodes -> Places]
  /\ verdict \in [Nodes -> {"running", "done", "failed", "crashed"}]
  /\ told \in [Nodes -> BOOLEAN]
  /\ queue \in [Nodes -> Seq(Frames)]
  /\ caller \in [Nodes -> Nat]
  /\ input \in [Nodes -> Payloads]
  /\ held \in [Nodes -> Payloads]
  /\ answer \in [Nodes -> Payloads]
  /\ round \in Nat
  /\ adopted \in [in : Nat, value : Payloads]
  /\ spoiled \in SUBSET Nat

(* A goodbye is a node's last word; in a queue it comes last.               *)
ToldIsGone == \A i \in Nodes : told[i] => pc[i] = "gone"

ByeIsLast(s, said) == \A k \in DOMAIN s : s[k].kind = "bye" => k = Len(s) /\ said

ByesAreLast == \A i \in Nodes \ {Client} : ByeIsLast(queue[i], told[i - 1])

(* A server with nothing to say has missed a payload.                       *)
EmptyHandedIsSpoiled ==
  pc[Server] = "serve" /\ held[Server] = Nothing => spoiled # {}

IInv == /\ TypeOK
        /\ ToldIsGone /\ ByesAreLast /\ EmptyHandedIsSpoiled /\ DoneAfterUpstream

-----------------------------------------------------------------------------
LEMMA Constants ==
  /\ Last \in Nat \ {0} /\ Nodes = 0..Last /\ Server \in Nodes /\ Client \in Nodes
  /\ Server # Client /\ Nothing \in Payloads /\ Unusable \in Payloads
  /\ Silent \in Payloads
  /\ \A i \in Nodes : i # Server => i + 1 \in Nodes /\ i + 1 # Client
  /\ \A i \in Nodes : i # Client => i - 1 \in Nodes /\ i - 1 # Server /\ (i - 1) + 1 = i
  /\ \A i \in Relays : i \in Nodes /\ i # Client /\ i # Server
BY RelayChainAssumption
   DEF Nodes, Server, Client, Relays, Nothing, Unusable, Silent, Payloads

(* The queue of a node after a frame was read, added or cut short.          *)
LEMMA ByeRead ==
  ASSUME NEW s \in Seq(Frames), NEW said \in BOOLEAN, s # <<>>, ByeIsLast(s, said)
  PROVE  /\ Head(s) \in Frames /\ Tail(s) \in Seq(Frames)
         /\ ByeIsLast(Tail(s), said)
         /\ Head(s).kind = "bye" => said /\ Tail(s) = <<>>
<1> DEFINE t == Tail(s)
<1>1. /\ t \in Seq(Frames) /\ DOMAIN t = 1..(Len(s) - 1) /\ DOMAIN s = 1..Len(s)
      /\ Len(t) = Len(s) - 1 /\ \A k \in DOMAIN t : t[k] = s[k + 1]
      /\ Head(s) = s[1] /\ Len(s) \in Nat \ {0} /\ Head(s) \in Frames
  OBVIOUS
<1>2. ByeIsLast(t, said)
  BY <1>1 DEF ByeIsLast
<1>3. Head(s).kind = "bye" => said /\ Len(t) = 0
  BY <1>1 DEF ByeIsLast
<1> QED BY <1>1, <1>2, <1>3

LEMMA ByeAdded ==
  ASSUME NEW s \in Seq(Frames), NEW f \in Frames, NEW said \in BOOLEAN,
         ByeIsLast(s, FALSE), f.kind = "bye" => said
  PROVE  Append(s, f) \in Seq(Frames) /\ ByeIsLast(Append(s, f), said)
<1> DEFINE t == Append(s, f)
<1>1. /\ t \in Seq(Frames) /\ DOMAIN t = 1..(Len(s) + 1) /\ DOMAIN s = 1..Len(s)
      /\ Len(t) = Len(s) + 1 /\ Len(s) \in Nat
      /\ \A k \in DOMAIN s : t[k] = s[k]
      /\ t[Len(s) + 1] = f
  OBVIOUS
<1>2. ASSUME NEW k \in DOMAIN t, t[k].kind = "bye" PROVE k = Len(t) /\ said
  <2>1. CASE k \in DOMAIN s
    BY <1>1, <1>2, <2>1 DEF ByeIsLast
  <2>2. CASE k = Len(s) + 1
    BY <1>1, <1>2, <2>2
  <2> QED BY <1>1, <2>1, <2>2
<1> QED BY <1>1, <1>2 DEF ByeIsLast

LEMMA CutFrame ==
  ASSUME NEW s \in Seq(Frames), NEW k \in DOMAIN s
  PROVE  LET t == [s EXCEPT ![k] = [@ EXCEPT !.kind = "cut"]]
         IN  /\ t \in Seq(Frames)
             /\ \A said \in BOOLEAN : ByeIsLast(s, said) => ByeIsLast(t, said)
<1> DEFINE f == [s[k] EXCEPT !.kind = "cut"]
           t == [s EXCEPT ![k] = f]
<1>1. s[k] \in Frames /\ DOMAIN s = 1..Len(s) /\ Len(s) \in Nat
  OBVIOUS
<1>2. f \in Frames /\ f.kind = "cut"
  BY <1>1 DEF Frames
<1> HIDE DEF f
<1>3. t \in [1..Len(s) -> Frames]
  BY <1>1, <1>2
<1>4. t \in Seq(Frames) /\ Len(t) = Len(s) /\ DOMAIN t = DOMAIN s
  BY <1>1, <1>3
<1>5. \A said \in BOOLEAN : ByeIsLast(s, said) => ByeIsLast(t, said)
  BY <1>1, <1>2, <1>4 DEF ByeIsLast
<1> QED BY <1>4, <1>5 DEF f

-----------------------------------------------------------------------------
(* Typing.  A piece cut off a frame leaves a frame.                         *)
LEMMA CutTyped ==
  ASSUME TypeOK, NEW i \in Nodes, PerhapsCut(i)
  PROVE  queue' \in [Nodes -> Seq(Frames)]
<1>1. CASE UNCHANGED queue
  BY <1>1 DEF TypeOK
<1>2. CASE ~UNCHANGED queue
  <2>1. PICK k \in DOMAIN queue[i + 1] :
          /\ TcpDown(i)
          /\ queue' = [queue EXCEPT ![i + 1][k].kind = "cut"]
    BY <1>2 DEF PerhapsCut
  <2>2. i + 1 \in Nodes /\ queue[i + 1] \in Seq(Frames)
    BY <2>1, Constants DEF TcpDown, TypeOK
  <2> DEFINE t == [queue[i + 1] EXCEPT ![k] = [@ EXCEPT !.kind = "cut"]]
  <2>4. t \in Seq(Frames)
    BY <2>2, CutFrame
  <2>5. queue' = [queue EXCEPT ![i + 1] = t]
    BY <2>1, <2>2 DEF TypeOK
  <2> HIDE DEF t
  <2> QED BY <2>2, <2>4, <2>5 DEF TypeOK
<1> QED BY <1>1, <1>2

LEMMA TypedStart == ASSUME TypeOK, NEW i \in Nodes, Start(i) \/ NoCaller(i) \/ NoNextHop(i)
                                   \/ Answered(i) \/ NeverUp(i)
                    PROVE  TypeOK'
BY DEF Start, NoCaller, NoNextHop, Answered, NeverUp, TypeOK, Go, Fail, Places, dataVars

LEMMA TypedClient == ASSUME TypeOK, ClientStep PROVE TypeOK'
<1>1. CASE Produce
  <2>1. /\ \E v \in Payloads : held' = [held EXCEPT ![Client] = v]
        /\ round' \in Nat /\ spoiled' \in SUBSET Nat
    <3>1. [by |-> "client", of |-> round + 1] \in Payloads /\ round + 1 \in Nat
      BY DEF TypeOK, Payloads
    <3> QED BY <1>1, <3>1, Constants DEF Produce, TypeOK
  <2>2. held' \in [Nodes -> Payloads]
    BY <2>1 DEF TypeOK
  <2> QED BY <1>1, <2>1, <2>2 DEF Produce, TypeOK, Go, Places
<1>2. CASE Retire
  BY <1>2 DEF Retire, Stop, TypeOK, Go, Places, dataVars
<1>3. CASE Adopt
  BY <1>3, Constants DEF Adopt, TypeOK, Go, Places
<1> QED BY <1>1, <1>2, <1>3 DEF ClientStep

LEMMA TypedMix == ASSUME TypeOK, Mix PROVE TypeOK'
<1>1. [by |-> "server", of |-> input[Server].of] \in Payloads
  BY Constants DEF TypeOK, Payloads
<1>2. /\ \E v \in Payloads : held' = [held EXCEPT ![Server] = v]
      /\ spoiled' \in {spoiled, spoiled \cup {round}}
      /\ \E to \in {"serve", "bye"} : Go(Server, to)
      /\ verdict' \in {verdict, [verdict EXCEPT ![Server] = "failed"]}
  BY <1>1, Constants DEF Mix, Fail
<1>3. held' \in [Nodes -> Payloads]
  BY <1>2 DEF TypeOK
<1>4. spoiled' \in SUBSET Nat
  BY <1>2 DEF TypeOK
<1>5. pc' \in [Nodes -> Places]
  BY <1>2 DEF TypeOK, Go, Places
<1>6. verdict' \in [Nodes -> {"running", "done", "failed", "crashed"}]
  BY <1>2 DEF TypeOK
<1> QED BY <1>3, <1>4, <1>5, <1>6 DEF Mix, TypeOK

LEMMA TypedSend ==
  ASSUME TypeOK, NEW i \in Nodes, SendTcp(i) \/ SendHeard(i) \/ SendUnheard(i)
  PROVE  TypeOK'
<1>1. CASE SendTcp(i)
  <2> DEFINE f == [kind |-> "model", from |-> round, value |-> held[i]]
  <2>1. f \in Frames /\ i + 1 \in Nodes
    BY <1>1, Constants DEF SendTcp, TcpDown, TypeOK, Frames
  <2>2. queue' = [queue EXCEPT ![i + 1] = Append(queue[i + 1], f)]
    BY <1>1 DEF SendTcp
  <2> HIDE DEF f
  <2>3. queue' \in [Nodes -> Seq(Frames)]
    BY <2>1, <2>2 DEF TypeOK
  <2> QED BY <1>1, <2>3 DEF SendTcp, TypeOK, Go, Places, dataVars
<1>2. CASE SendHeard(i)
  <2>1. i + 1 \in Nodes
    BY <1>2, Constants DEF SendHeard
  <2>2. \E v \in Payloads : input' = [input EXCEPT ![i + 1] = v]
    BY <1>2, Constants DEF SendHeard, TypeOK
  <2>3. input' \in [Nodes -> Payloads] /\ caller' \in [Nodes -> Nat]
    BY <1>2, <2>1, <2>2 DEF SendHeard, TypeOK
  <2>4. pc' \in [Nodes -> Places] /\ spoiled' \in SUBSET Nat
    BY <1>2, <2>1 DEF SendHeard, TypeOK, Places
  <2> QED BY <1>2, <2>3, <2>4 DEF SendHeard, TypeOK
<1>3. CASE SendUnheard(i)
  BY <1>3 DEF SendUnheard, TypeOK, Go, Places, dataVars
<1> QED BY <1>1, <1>2, <1>3

LEMMA TypedRelay ==
  ASSUME TypeOK, NEW i \in Nodes, Forward(i) \/ Return(i) \/ HandOver(i) \/ Reply(i)
  PROVE  TypeOK'
<1>1. CASE Forward(i)
  <2>1. Keeps(i, input[i]) \in Payloads
    BY DEF Keeps, TypeOK
  <2> QED BY <1>1, <2>1 DEF Forward, Fail, TypeOK, Go, Places
<1>2. CASE Return(i)
  <2>1. Keeps(i, answer[i]) \in Payloads
    BY DEF Keeps, TypeOK
  <2> QED BY <1>2, <2>1, Constants DEF Return, TypeOK, Go, Places
<1>3. CASE HandOver(i)
  <2>1. i - 1 \in Nodes
    BY <1>3, Constants DEF HandOver
  <2> QED BY <1>3, <2>1, Constants DEF HandOver, TypeOK, Places
<1>4. CASE Reply(i)
  <2>1. i - 1 \in Nodes
    BY <1>4, Constants DEF Reply, TcpUp
  <2>2. /\ answer' \in {answer, [answer EXCEPT ![i - 1] = held[i]]}
        /\ held' \in {held, [held EXCEPT ![i] = Nothing]}
        /\ \E to \in {"recv", "bye"} : Go(i, to)
        /\ verdict' \in {verdict, [verdict EXCEPT ![i] = "done"],
                         [verdict EXCEPT ![i] = "failed"]}
    BY <1>4 DEF Reply, Stop, Fail, TypeOK
  <2>3. /\ answer' \in [Nodes -> Payloads] /\ held' \in [Nodes -> Payloads]
        /\ verdict' \in [Nodes -> {"running", "done", "failed", "crashed"}]
    <3>1. answer \in [Nodes -> Payloads] /\ held \in [Nodes -> Payloads] /\ Nothing \in Payloads
      BY Constants DEF TypeOK
    <3>2. answer' \in [Nodes -> Payloads] /\ held' \in [Nodes -> Payloads]
      BY <2>1, <2>2, <3>1
    <3>3. verdict' \in [Nodes -> {"running", "done", "failed", "crashed"}]
      BY <2>2 DEF TypeOK
    <3> QED BY <3>2, <3>3
  <2>4. pc' \in [Nodes -> Places]
    BY <2>2 DEF Go, TypeOK, Places
  <2>5. UNCHANGED <<medium, told, queue, caller, input, round, adopted, spoiled>>
    BY <1>4 DEF Reply
  <2> QED BY <2>3, <2>4, <2>5 DEF TypeOK
<1> QED BY <1>1, <1>2, <1>3, <1>4

LEMMA TypedEnd ==
  ASSUME TypeOK, NEW i \in Nodes, Accept(i) \/ NoAnswer(i) \/ Leave(i) \/ Crash(i)
  PROVE  TypeOK'
<1>1. CASE Accept(i)
  <2> DEFINE f == Head(queue[i])
  <2>1. queue[i] \in Seq(Frames) /\ queue[i] # <<>>
    BY <1>1 DEF Accept, TypeOK
  <2>2. f \in Frames /\ Tail(queue[i]) \in Seq(Frames)
    BY <2>1
  <2>3. f.value \in Payloads /\ f.from \in Nat
    BY <2>2 DEF Frames
  <2>4. /\ input' \in {input, [input EXCEPT ![i] = f.value]}
        /\ caller' \in {caller, [caller EXCEPT ![i] = f.from]}
        /\ pc' \in {pc, [pc EXCEPT ![i] = "mix"], [pc EXCEPT ![i] = "bye"]}
        /\ verdict' \in {verdict, [verdict EXCEPT ![i] = "done"],
                         [verdict EXCEPT ![i] = "failed"]}
        /\ queue' = [queue EXCEPT ![i] = Tail(queue[i])]
    BY <1>1 DEF Accept, Stop, Fail, Go
  <2> HIDE DEF f
  <2>5. input' \in [Nodes -> Payloads] /\ caller' \in [Nodes -> Nat]
    BY <2>3, <2>4 DEF TypeOK
  <2>6. /\ pc' \in [Nodes -> Places]
        /\ verdict' \in [Nodes -> {"running", "done", "failed", "crashed"}]
    BY <2>4 DEF TypeOK, Places
  <2>7. queue' \in [Nodes -> Seq(Frames)]
    BY <2>2, <2>4 DEF TypeOK
  <2> QED BY <1>1, <2>5, <2>6, <2>7 DEF Accept, TypeOK
<1>2. CASE NoAnswer(i)
  BY <1>2, CutTyped DEF NoAnswer, Fail, TypeOK, Go, Places, dataVars
<1>3. CASE Leave(i)
  <2> DEFINE f == [kind |-> "bye", from |-> round, value |-> Nothing]
  <2>1. f \in Frames
    BY Constants DEF Frames, TypeOK
  <2>2. queue' \in [Nodes -> Seq(Frames)] /\ told' \in [Nodes -> BOOLEAN]
    <3>1. <<>> \in Seq(Frames)
      OBVIOUS
    <3>2. CASE TcpDown(i) /\ Listens(i + 1)
      <4>1. queue[i + 1] \in Seq(Frames)
        BY <3>2, Constants DEF TypeOK, TcpDown
      <4>2. Bye(i) = Append(queue[i + 1], f)
        BY DEF Bye
      <4> HIDE DEF f
      <4>3. Bye(i) \in Seq(Frames)
        BY <2>1, <4>1, <4>2
      <4>4. /\ queue' = [queue EXCEPT ![i + 1] = Bye(i), ![i] = <<>>]
            /\ told' = [told EXCEPT ![i] = TRUE]
        BY <1>3, <3>2 DEF Leave
      <4> QED BY <3>1, <4>3, <4>4 DEF TypeOK
    <3>3. CASE ~(TcpDown(i) /\ Listens(i + 1))
      <4>1. queue' = [queue EXCEPT ![i] = <<>>] /\ UNCHANGED told
        BY <1>3, <3>3 DEF Leave
      <4> QED BY <3>1, <4>1 DEF TypeOK
    <3> QED BY <3>2, <3>3
  <2>3. pc' \in [Nodes -> Places]
    BY <1>3 DEF Leave, Go, TypeOK, Places
  <2> QED BY <1>3, <2>2, <2>3 DEF Leave, TypeOK, dataVars
<1>4. CASE Crash(i)
  <2>1. queue' \in [Nodes -> Seq(Frames)]
    BY <1>4, CutTyped DEF Crash, TypeOK
  <2> QED BY <1>4, <2>1 DEF Crash, TypeOK, Go, Places, dataVars
<1> QED BY <1>1, <1>2, <1>3, <1>4

LEMMA TypeStep == TypeOK /\ [Next]_vars => TypeOK'
<1> SUFFICES ASSUME TypeOK, [Next]_vars PROVE TypeOK'
  OBVIOUS
<1>1. CASE UNCHANGED vars
  BY <1>1 DEF TypeOK, vars, nodeVars, dataVars
<1>2. CASE Next
  BY <1>2, TypedStart, TypedClient, TypedMix, TypedSend, TypedRelay, TypedEnd
     DEF Next, NodeStep
<1> QED BY <1>1, <1>2

-----------------------------------------------------------------------------
(* Safety.  A step that neither sends, reads nor ends as done.              *)
NoneReturns == \A i \in Nodes : pc[i] = "gone" => pc'[i] = "gone"
NoneDone == \A i \in Nodes \ {Client} : verdict'[i] = "done" => verdict[i] = "done"

LEMMA QuietStep ==
  ASSUME IInv, TypeOK', UNCHANGED <<queue, told>>, NoneReturns, NoneDone,
         spoiled \subseteq spoiled', EmptyHandedIsSpoiled'
  PROVE  IInv'
<1>1. ToldIsGone'
  BY DEF IInv, ToldIsGone, NoneReturns
<1>2. ByesAreLast'
  BY DEF IInv, ByesAreLast, ByeIsLast
<1>3. DoneAfterUpstream'
  BY DEF IInv, DoneAfterUpstream, NoneDone
<1> QED BY <1>1, <1>2, <1>3 DEF IInv

(* A step that changes the queue of m.                                      *)
LEMMA QueueStep ==
  ASSUME IInv, TypeOK', NEW m \in Nodes \ {Client}, UNCHANGED <<told, spoiled>>,
         NoneReturns, EmptyHandedIsSpoiled',
         \A i \in Nodes \ {Client, m} :
            queue'[i] = queue[i] /\ (verdict'[i] = "done" => verdict[i] = "done"),
         ByeIsLast(queue'[m], told[m - 1]),
         verdict'[m] = "done" /\ ~(m = Server /\ spoiled # {}) =>
            told[m - 1] /\ queue'[m] = <<>>
  PROVE  IInv'
<1>1. ToldIsGone'
  BY DEF IInv, ToldIsGone, NoneReturns
<1>2. ByesAreLast'
  <2> SUFFICES ASSUME NEW i \in Nodes \ {Client}
               PROVE  ByeIsLast(queue'[i], told[i - 1])
    BY DEF ByesAreLast, ByeIsLast
  <2>1. CASE i = m
    BY <2>1
  <2>2. CASE i # m
    BY <2>2 DEF IInv, ByesAreLast
  <2> QED BY <2>1, <2>2
<1>3. DoneAfterUpstream'
  BY DEF IInv, DoneAfterUpstream
<1> QED BY <1>1, <1>2, <1>3 DEF IInv

(* The server's hands, in a step that does not fill them.                   *)
LEMMA SameHands ==
  ASSUME IInv, spoiled \subseteq spoiled',
         pc'[Server] = "serve" => pc[Server] = "serve" /\ held'[Server] = held[Server]
  PROVE  EmptyHandedIsSpoiled'
BY DEF IInv, EmptyHandedIsSpoiled

LEMMA QuietActions ==
  ASSUME IInv, TypeOK', NEW i \in Nodes,
         \/ Start(i) \/ NoCaller(i) \/ NoNextHop(i) \/ Answered(i) \/ NeverUp(i)
         \/ SendUnheard(i) \/ Forward(i) \/ Return(i)
  PROVE  IInv'
<1>1. /\ UNCHANGED <<queue, told>> /\ spoiled \subseteq spoiled'
      /\ pc[i] # "gone" /\ \E to \in Places : Go(i, to)
      /\ verdict' \in {verdict, [verdict EXCEPT ![i] = "failed"]}
  BY DEF Start, NoCaller, NoNextHop, Answered, NeverUp, SendUnheard, Forward, Return,
         Fail, Go, Places
<1>2. NoneReturns /\ NoneDone
  <2>1. /\ pc \in [Nodes -> Places]
        /\ verdict \in [Nodes -> {"running", "done", "failed", "crashed"}]
    BY DEF IInv, TypeOK
  <2>2. NoneReturns
    BY <1>1, <2>1 DEF NoneReturns, Go
  <2>3. NoneDone
    BY <1>1, <2>1 DEF NoneDone
  <2> QED BY <2>2, <2>3
<1>3. pc'[Server] = "serve" => pc[Server] = "serve" /\ held'[Server] = held[Server]
  <2>1. CASE Forward(i) \/ Return(i)
    <3>1. i # Server
      BY <2>1, Constants DEF Forward, Return
    <3>2. pc'[Server] = pc[Server]
      BY <1>1, <3>1 DEF Go
    <3>3. held \in [Nodes -> Payloads] /\ Server \in Nodes
      BY Constants DEF IInv, TypeOK
    <3>4. \E v : held' = [held EXCEPT ![i] = v]
      BY <2>1 DEF Forward, Return
    <3>5. held'[Server] = held[Server]
      BY <3>1, <3>3, <3>4
    <3> QED BY <3>2, <3>5
  <2>2. CASE ~(Forward(i) \/ Return(i))
    <3>1. held' = held
      BY <2>2 DEF Start, NoCaller, NoNextHop, Answered, NeverUp, SendUnheard, dataVars
    <3>2. \E to \in Places \ {"serve"} : Go(i, to)
      BY <2>2 DEF Start, NoCaller, NoNextHop, Answered, NeverUp, SendUnheard, Fail, Go,
                  Places
    <3> QED BY <3>1, <3>2, Constants DEF Go, IInv, TypeOK
  <2> QED BY <2>1, <2>2
<1> QED BY <1>1, <1>2, <1>3, SameHands, QuietStep

LEMMA ClientActions ==
  ASSUME IInv, TypeOK', ClientStep
  PROVE  IInv'
<1>1. /\ UNCHANGED <<queue, told>> /\ spoiled \subseteq spoiled'
      /\ pc[Client] # "gone" /\ \E to \in Places : Go(Client, to)
      /\ held'[Server] = held[Server]
      /\ \A i \in Nodes \ {Client} : verdict'[i] = verdict[i]
  <2>1. CASE Produce
    <3>1. held'[Server] = held[Server]
      BY <2>1, Constants DEF Produce, IInv, TypeOK
    <3> QED BY <2>1, <3>1 DEF Produce, Go, Places
  <2>2. CASE Retire
    BY <2>2, Constants DEF Retire, Stop, Go, Places, dataVars, IInv, TypeOK
  <2>3. CASE Adopt
    BY <2>3 DEF Adopt, Go, Places
  <2> QED BY <2>1, <2>2, <2>3 DEF ClientStep
<1>2. NoneReturns /\ NoneDone
  BY <1>1 DEF NoneReturns, NoneDone, Go, IInv, TypeOK
<1>3. pc'[Server] = pc[Server]
  BY <1>1, Constants DEF Go, IInv, TypeOK
<1> QED BY <1>1, <1>2, <1>3, SameHands, QuietStep

LEMMA OverTheAir ==
  ASSUME IInv, TypeOK', NEW i \in Nodes, SendHeard(i) \/ HandOver(i)
  PROVE  IInv'
<1>1. PICK j \in Nodes : \E to, too \in {"ask", "mix", "got", "recv"} :
        /\ pc[i] # "gone" /\ pc[j] # "gone"
        /\ pc' = [[pc EXCEPT ![i] = to] EXCEPT ![j] = too]
  <2>1. CASE SendHeard(i)
    <3>1. /\ i + 1 \in Nodes /\ pc[i] = "send" /\ pc[i + 1] = "recv"
          /\ pc' = [[pc EXCEPT ![i] = "ask"] EXCEPT ![i + 1] = "mix"]
      BY <2>1, Constants DEF SendHeard
    <3> QED BY <3>1
  <2>2. CASE HandOver(i)
    <3>1. /\ i - 1 \in Nodes /\ pc[i] = "serve" /\ pc[i - 1] = "ask" /\ i # i - 1
          /\ pc' = [[pc EXCEPT ![i - 1] = "got"] EXCEPT ![i] = "recv"]
      BY <2>2, Constants DEF HandOver
    <3>2. pc' = [[pc EXCEPT ![i] = "recv"] EXCEPT ![i - 1] = "got"]
      BY <3>1 DEF IInv, TypeOK
    <3> QED BY <3>1, <3>2
  <2> QED BY <2>1, <2>2
<1>2. NoneReturns
  BY <1>1 DEF NoneReturns, IInv, TypeOK
<1>3. NoneDone /\ UNCHANGED <<queue, told>> /\ spoiled \subseteq spoiled'
  BY DEF NoneDone, SendHeard, HandOver
<1>4. pc'[Server] = "serve" => pc[Server] = "serve" /\ held'[Server] = held[Server]
  <2>1. CASE SendHeard(i)
    <3>1. /\ pc' = [pc EXCEPT ![i] = "ask", ![i + 1] = "mix"] /\ i + 1 \in Nodes
          /\ held' = held /\ i + 1 # i
      BY <2>1, Constants DEF SendHeard
    <3>2. /\ pc'[i] = "ask" /\ pc'[i + 1] = "mix"
          /\ \A k \in Nodes \ {i, i + 1} : pc'[k] = pc[k]
      BY <3>1 DEF IInv, TypeOK
    <3> QED BY <3>1, <3>2, Constants
  <2>2. CASE HandOver(i)
    <3>1. pc' = [pc EXCEPT ![i - 1] = "got", ![i] = "recv"] /\ i - 1 \in Nodes
      BY <2>2, Constants DEF HandOver
    <3>2. pc'[i] = "recv" /\ \A k \in Nodes \ {i, i - 1} : pc'[k] = pc[k]
      BY <3>1 DEF IInv, TypeOK
    <3>3. i - 1 # Server
      BY <2>2, Constants DEF HandOver
    <3>4. pc'[Server] = "serve" => pc[Server] = "serve" /\ Server # i
      BY <3>2, <3>3, Constants
    <3>5. Server # i => held'[Server] = held[Server]
      BY <2>2, Constants DEF HandOver, IInv, TypeOK
    <3> QED BY <3>4, <3>5
  <2> QED BY <2>1, <2>2
<1> QED BY <1>2, <1>3, <1>4, SameHands, QuietStep

(* The server has nothing to say only if it could not read a request.       *)
LEMMA MixAction ==
  ASSUME IInv, TypeOK', Mix
  PROVE  IInv'
<1>1. /\ UNCHANGED <<queue, told>> /\ spoiled \subseteq spoiled'
      /\ pc[Server] # "gone" /\ \E to \in Places : Go(Server, to)
      /\ verdict' \in {verdict, [verdict EXCEPT ![Server] = "failed"]}
  BY DEF Mix, Fail, Go, Places
<1>2. NoneReturns /\ NoneDone
  <2>1. pc \in [Nodes -> Places] /\ pc' = [pc EXCEPT ![Server] = pc'[Server]]
    BY <1>1 DEF Go, IInv, TypeOK
  <2>2. verdict \in [Nodes -> {"running", "done", "failed", "crashed"}]
    BY DEF IInv, TypeOK
  <2>3. NoneReturns
    BY <1>1, <2>1 DEF NoneReturns
  <2>4. NoneDone
    BY <1>1, <2>2, Constants DEF NoneDone
  <2> QED BY <2>3, <2>4
<1>3. EmptyHandedIsSpoiled'
  <2>1. CASE spoiled' = spoiled \cup {round}
    BY <2>1 DEF EmptyHandedIsSpoiled
  <2>2. CASE spoiled' # spoiled \cup {round}
    <3>1. held' = [held EXCEPT ![Server] = [by |-> "server", of |-> input[Server].of]]
      BY <2>2 DEF Mix
    <3>2. held'[Server].by = "server"
      BY <3>1, Constants DEF IInv, TypeOK
    <3> QED BY <3>2 DEF EmptyHandedIsSpoiled, Nothing
  <2> QED BY <2>1, <2>2
<1> QED BY <1>1, <1>2, <1>3, QuietStep

(* A payload is sent by a node that has not left.                           *)
LEMMA SendAction ==
  ASSUME IInv, TypeOK', NEW i \in Nodes, SendTcp(i)
  PROVE  IInv'
<1> DEFINE f == [kind |-> "model", from |-> round, value |-> held[i]]
           m == i + 1
<1>1. m \in Nodes \ {Client} /\ m - 1 = i /\ pc[i] = "send"
  BY Constants DEF SendTcp, TcpDown
<1>2. told[i] = FALSE /\ f \in Frames /\ queue[m] \in Seq(Frames)
  BY <1>1 DEF IInv, TypeOK, ToldIsGone, Frames
<1>3. ByeIsLast(queue[m], FALSE)
  BY <1>1, <1>2 DEF IInv, ByesAreLast
<1>4. queue' = [queue EXCEPT ![m] = Append(queue[m], f)] /\ f.kind = "model"
  BY DEF SendTcp
<1>5. UNCHANGED <<told, spoiled, verdict, held>> /\ Go(i, "await")
  BY DEF SendTcp, dataVars
<1> HIDE DEF f, m
<1>6. ByeIsLast(queue'[m], told[m - 1])
  <2>1. ByeIsLast(Append(queue[m], f), FALSE)
    BY <1>2, <1>3, <1>4, ByeAdded
  <2> QED BY <1>1, <1>2, <1>4, <2>1 DEF IInv, TypeOK
<1>7. NoneReturns
  BY <1>1, <1>5 DEF NoneReturns, Go, IInv, TypeOK
<1>8. EmptyHandedIsSpoiled'
  <2>1. pc'[Server] = "serve" => pc[Server] = "serve" /\ held'[Server] = held[Server]
    BY <1>5, Constants DEF Go, IInv, TypeOK
  <2> QED BY <1>5, <2>1, SameHands
<1>9. \A j \in Nodes \ {Client, m} :
        queue'[j] = queue[j] /\ (verdict'[j] = "done" => verdict[j] = "done")
  BY <1>4, <1>5 DEF IInv, TypeOK
<1>10. verdict'[m] = "done" => m = Server /\ spoiled # {}
  BY <1>1, <1>2, <1>5 DEF IInv, DoneAfterUpstream
<1> QED BY <1>1, <1>5, <1>6, <1>7, <1>8, <1>9, <1>10, QueueStep

(* A node stops waiting, and what it sent may be left in part.              *)
LEMMA CutAction ==
  ASSUME IInv, TypeOK', NEW i \in Nodes, pc[i] # "gone", PerhapsCut(i),
         UNCHANGED <<told, spoiled, held>>, \E to \in {"bye", "gone"} : Go(i, to),
         NoneDone
  PROVE  IInv'
<1>1. NoneReturns
  BY DEF NoneReturns, Go, IInv, TypeOK
<1>2. EmptyHandedIsSpoiled'
  <2>1. pc'[Server] = "serve" => pc[Server] = "serve" /\ held'[Server] = held[Server]
    BY Constants DEF Go, IInv, TypeOK
  <2> QED BY <2>1, SameHands
<1>3. CASE UNCHANGED queue
  BY <1>1, <1>2, <1>3, QuietStep
<1>4. CASE ~UNCHANGED queue
  <2> DEFINE m == i + 1
  <2>1. m \in Nodes \ {Client} /\ m - 1 = i
    BY <1>4, Constants DEF PerhapsCut, TcpDown
  <2>2. PICK k \in DOMAIN queue[m] : queue' = [queue EXCEPT ![m][k].kind = "cut"]
    BY <1>4 DEF PerhapsCut
  <2> DEFINE t == [queue[m] EXCEPT ![k] = [@ EXCEPT !.kind = "cut"]]
  <2> HIDE DEF m
  <2>3. queue[m] \in Seq(Frames) /\ told[m - 1] = FALSE /\ ByeIsLast(queue[m], told[m - 1])
    BY <2>1 DEF IInv, TypeOK, ToldIsGone, ByesAreLast
  <2>4. ByeIsLast(t, told[m - 1])
    BY <2>3, CutFrame
  <2>5. queue'[m] = t /\ \A j \in Nodes \ {m} : queue'[j] = queue[j]
    BY <2>1, <2>2 DEF IInv, TypeOK
  <2> HIDE DEF t
  <2>6. verdict'[m] = "done" => m = Server /\ spoiled # {}
    BY <2>1, <2>3 DEF IInv, DoneAfterUpstream, NoneDone
  <2> QED BY <1>1, <1>2, <2>1, <2>4, <2>5, <2>6, QueueStep DEF NoneDone
<1> QED BY <1>3, <1>4

LEMMA StopsWaiting ==
  ASSUME IInv, TypeOK', NEW i \in Nodes, NoAnswer(i) \/ Crash(i)
  PROVE  IInv'
<1>1. CASE NoAnswer(i)
  BY <1>1, CutAction DEF NoAnswer, Waits, Fail, NoneDone, IInv, TypeOK, dataVars
<1>2. CASE Crash(i)
  BY <1>2, CutAction DEF Crash, PerhapsCut, NoneDone, IInv, TypeOK, dataVars
<1> QED BY <1>1, <1>2

(* A goodbye that is read is the last frame and was said.                   *)
LEMMA AcceptAction ==
  ASSUME IInv, TypeOK', NEW i \in Nodes, Accept(i)
  PROVE  IInv'
<1> DEFINE f == Head(queue[i])
<1>1. i \in Nodes \ {Client} /\ pc[i] = "recv" /\ queue[i] # <<>>
  BY DEF Accept, TcpUp
<1>2. queue[i] \in Seq(Frames) /\ told[i - 1] \in BOOLEAN
      /\ ByeIsLast(queue[i], told[i - 1])
  BY <1>1, Constants DEF IInv, TypeOK, ByesAreLast
<1>3. /\ ByeIsLast(Tail(queue[i]), told[i - 1])
      /\ f.kind = "bye" => told[i - 1] /\ Tail(queue[i]) = <<>>
  BY <1>1, <1>2, ByeRead
<1>4. /\ queue' = [queue EXCEPT ![i] = Tail(queue[i])]
      /\ UNCHANGED <<told, spoiled, held>>
      /\ pc' \in {pc, [pc EXCEPT ![i] = "mix"], [pc EXCEPT ![i] = "bye"]}
      /\ \/ verdict' \in {verdict, [verdict EXCEPT ![i] = "failed"]}
         \/ f.kind = "bye" /\ verdict' = [verdict EXCEPT ![i] = "done"]
  BY DEF Accept, Stop, Fail, Go
<1> HIDE DEF f
<1>5. NoneReturns
  BY <1>1, <1>4 DEF NoneReturns, IInv, TypeOK
<1>6. EmptyHandedIsSpoiled'
  <2>1. pc'[Server] = "serve" => pc[Server] = "serve" /\ held'[Server] = held[Server]
    <3>1. pc' = pc \/ (pc'[i] # "serve" /\ \A k \in Nodes \ {i} : pc'[k] = pc[k])
      BY <1>4 DEF IInv, TypeOK
    <3> QED BY <1>4, <3>1, Constants
  <2> QED BY <1>4, <2>1, SameHands
<1>7. queue'[i] = Tail(queue[i]) /\ \A j \in Nodes \ {i} : queue'[j] = queue[j]
  BY <1>4 DEF IInv, TypeOK
<1>8. \A j \in Nodes \ {i} : verdict'[j] = verdict[j]
  BY <1>4 DEF IInv, TypeOK
<1>9. verdict'[i] = "done" /\ ~(i = Server /\ spoiled # {}) =>
        told[i - 1] /\ queue'[i] = <<>>
  <2>1. CASE f.kind = "bye"
    BY <1>3, <1>7, <2>1
  <2>2. CASE f.kind # "bye"
    <3>1. verdict'[i] = "done" => verdict[i] = "done"
      BY <1>4, <2>2 DEF IInv, TypeOK
    <3>2. verdict[i] = "done" /\ ~(i = Server /\ spoiled # {}) => queue[i] = <<>>
      BY <1>1 DEF IInv, DoneAfterUpstream
    <3> QED BY <1>1, <3>1, <3>2
  <2> QED BY <2>1, <2>2
<1> QED BY <1>1, <1>3, <1>4, <1>5, <1>6, <1>7, <1>8, <1>9, QueueStep

(* Only a server that missed a payload has nothing to answer.               *)
LEMMA ReplyAction ==
  ASSUME IInv, TypeOK', NEW i \in Nodes, Reply(i)
  PROVE  IInv'
<1>1. /\ UNCHANGED <<queue, told, spoiled>> /\ pc[i] = "serve" /\ i # Client
      /\ \E to \in {"recv", "bye"} : Go(i, to)
      /\ \/ verdict' \in {verdict, [verdict EXCEPT ![i] = "failed"]}
         \/ /\ i = Server /\ held[i] = Nothing
            /\ verdict' = [verdict EXCEPT ![i] = "done"]
  BY DEF Reply, TcpUp, Stop, Fail, Go
<1>2. NoneReturns
  BY <1>1 DEF NoneReturns, Go, IInv, TypeOK
<1>3. ToldIsGone' /\ ByesAreLast'
  BY <1>1, <1>2 DEF IInv, ToldIsGone, ByesAreLast, ByeIsLast, NoneReturns
<1>4. EmptyHandedIsSpoiled'
  <2>1. CASE i = Server
    BY <1>1, <2>1, Constants DEF EmptyHandedIsSpoiled, Go, IInv, TypeOK
  <2>2. CASE i # Server
    <3>1. pc'[Server] = pc[Server] /\ held'[Server] = held[Server]
      BY <1>1, <2>2, Constants DEF Reply, Go, IInv, TypeOK
    <3> QED BY <1>1, <3>1, SameHands
  <2> QED BY <2>1, <2>2
<1>5. DoneAfterUpstream'
  <2>1. CASE verdict' \in {verdict, [verdict EXCEPT ![i] = "failed"]}
    BY <1>1, <2>1 DEF IInv, DoneAfterUpstream, TypeOK
  <2>2. CASE verdict' \notin {verdict, [verdict EXCEPT ![i] = "failed"]}
    <3>1. i = Server /\ spoiled # {} /\ verdict' = [verdict EXCEPT ![i] = "done"]
      BY <1>1, <2>2 DEF IInv, EmptyHandedIsSpoiled
    <3> QED BY <1>1, <3>1 DEF IInv, DoneAfterUpstream, TypeOK
  <2> QED BY <2>1, <2>2
<1> QED BY <1>3, <1>4, <1>5 DEF IInv

(* The last word, to a node that cannot have ended as done before it.       *)
LEMMA LeaveAction ==
  ASSUME IInv, TypeOK', NEW i \in Nodes, Leave(i)
  PROVE  IInv'
<1>1. pc[i] = "bye" /\ Go(i, "gone") /\ UNCHANGED <<verdict, spoiled, held>>
  BY DEF Leave, dataVars
<1>2. NoneReturns /\ pc'[i] = "gone" /\ told[i] = FALSE
  BY <1>1 DEF NoneReturns, Go, IInv, TypeOK, ToldIsGone
<1>3. EmptyHandedIsSpoiled'
  <2>1. pc'[Server] = "serve" => pc[Server] = "serve" /\ held'[Server] = held[Server]
    BY <1>1, Constants DEF Go, IInv, TypeOK
  <2> QED BY <1>1, <2>1, SameHands
<1>4. \A j \in Nodes \ {i} : told'[j] = told[j]
  BY DEF Leave, IInv, TypeOK
<1>5. ToldIsGone'
  BY <1>2, <1>4 DEF IInv, ToldIsGone, NoneReturns
<1>6. ASSUME NEW j \in Nodes \ {Client}
      PROVE  /\ ByeIsLast(queue'[j], told'[j - 1])
             /\ verdict'[j] = "done" /\ ~(j = Server /\ spoiled' # {}) =>
                  told'[j - 1] /\ queue'[j] = <<>>
  <2>1. /\ j - 1 \in Nodes /\ (j - 1) + 1 = j
        /\ queue[j] \in Seq(Frames) /\ told[j - 1] \in BOOLEAN
        /\ ByeIsLast(queue[j], told[j - 1])
        /\ verdict[j] = "done" /\ ~(j = Server /\ spoiled # {}) =>
             told[j - 1] /\ queue[j] = <<>>
    BY <1>6, Constants DEF IInv, TypeOK, ByesAreLast, DoneAfterUpstream
  <2>2. CASE j = i
    <3>1. queue'[j] = <<>> /\ told'[j - 1] = told[j - 1]
      BY <1>4, <2>1, <2>2, Constants DEF Leave, IInv, TypeOK, TcpDown
    <3> QED BY <1>1, <2>1, <3>1 DEF ByeIsLast
  <2>3. CASE j - 1 = i /\ TcpDown(i) /\ Listens(i + 1)
    <3> DEFINE f == [kind |-> "bye", from |-> round, value |-> Nothing]
    <3>1. f \in Frames /\ f.kind = "bye"
      BY Constants DEF Frames, IInv, TypeOK
    <3>2. queue'[j] = Append(queue[j], f) /\ told'[i] = TRUE
      BY <2>1, <2>3, Constants DEF Leave, Bye, IInv, TypeOK
    <3> HIDE DEF f
    <3>3. ByeIsLast(queue'[j], TRUE)
      BY <1>2, <2>1, <2>3, <3>1, <3>2, ByeAdded
    <3> QED BY <1>1, <1>2, <2>1, <2>3, <3>2, <3>3
  <2>4. CASE j # i /\ ~(j - 1 = i /\ TcpDown(i) /\ Listens(i + 1))
    <3>1. queue'[j] = queue[j] /\ told'[j - 1] = told[j - 1]
      <4>1. CASE TcpDown(i) /\ Listens(i + 1)
        <5>1. /\ queue' = [queue EXCEPT ![i + 1] = Bye(i), ![i] = <<>>]
              /\ told' = [told EXCEPT ![i] = TRUE]
          BY <4>1 DEF Leave
        <5>2. j # i /\ j - 1 # i /\ j # i + 1
          <6>1. j # i /\ j - 1 # i
            BY <2>4, <4>1
          <6>2. j \in Nat /\ i \in Nat
            BY Constants
          <6> QED BY <6>1, <6>2
        <5> QED BY <2>1, <5>1, <5>2 DEF IInv, TypeOK
      <4>2. CASE ~(TcpDown(i) /\ Listens(i + 1))
        <5>1. queue' = [queue EXCEPT ![i] = <<>>] /\ told' = told
          BY <4>2 DEF Leave
        <5> QED BY <2>1, <2>4, <5>1 DEF IInv, TypeOK
      <4> QED BY <4>1, <4>2
    <3> QED BY <1>1, <2>1, <3>1
  <2> QED BY <2>2, <2>3, <2>4
<1>7. ByesAreLast'
  BY <1>6 DEF ByesAreLast, ByeIsLast
<1>8. DoneAfterUpstream'
  BY <1>6 DEF DoneAfterUpstream
<1> QED BY <1>3, <1>5, <1>7, <1>8 DEF IInv

-----------------------------------------------------------------------------
LEMMA Inductive == IInv /\ [Next]_vars => IInv'
<1> SUFFICES ASSUME IInv, [Next]_vars PROVE IInv'
  OBVIOUS
<1>1. TypeOK'
  BY TypeStep DEF IInv
<1>2. CASE UNCHANGED vars
  BY <1>2 DEF IInv, TypeOK, ToldIsGone, ByesAreLast, ByeIsLast, EmptyHandedIsSpoiled,
              DoneAfterUpstream, vars, nodeVars, dataVars
<1>3. CASE Next
  BY <1>1, <1>3, QuietActions, ClientActions, OverTheAir, MixAction, SendAction,
     StopsWaiting, AcceptAction, ReplyAction, LeaveAction DEF Next, NodeStep
<1> QED BY <1>2, <1>3

LEMMA Start0 == Init => IInv
<1> SUFFICES ASSUME Init PROVE IInv
  OBVIOUS
<1>1. <<>> \in Seq(Frames)
  OBVIOUS
<1>2. TypeOK
  BY <1>1, Constants, RelayChainAssumption DEF Init, TypeOK, Places
<1> QED
  BY <1>2, Constants DEF Init, IInv, ToldIsGone, ByesAreLast, ByeIsLast,
                         EmptyHandedIsSpoiled, DoneAfterUpstream

(* What each node of a chain holds is what its type says.                   *)
THEOREM Typing == Spec => []TypeOK
<1>1. IInv => TypeOK
  BY DEF IInv
<1> QED BY <1>1, Start0, Inductive, PTL DEF Spec

(* A relay or server (phy_link.py) ends as done only after its upstream has *)
(* said goodbye and everything it sent was read; failures, silences and     *)
(* frames that break off do not pass for the end, in a chain of any length. *)
THEOREM FailuresAreNotGoodbyes == Spec => []DoneAfterUpstream
<1>1. IInv => DoneAfterUpstream
  BY DEF IInv
<1> QED BY <1>1, Start0, Inductive, PTL DEF Spec

-----------------------------------------------------------------------------
(* The wave of a round: the client's request goes down the chain, node by  *)
(* node, and the server's answer comes back up.                            *)
Request == [by |-> "client", of |-> round]
Answer == [by |-> "server", of |-> round]
Clean == round \notin spoiled

Busy(j) == pc[j] \in {"mix", "send", "await", "ask", "got", "serve"}
NoModel(s) == \A k \in DOMAIN s : s[k].kind # "model"
Quiet(j) == ~Busy(j) /\ NoModel(queue[j])

(* The request of i is out, or it has given up on the answer.              *)
Asking(i) == pc[i] \in {"ask", "bye", "gone"} \/ Waits(i)

(* Nothing moves behind a node that is not asking.                         *)
WaveInv == \A i, j \in Nodes : i < j /\ ~Asking(i) => Quiet(j)

(* Whoever is busy is so with the one request of this round.               *)
BusyInv ==
  \A j \in Nodes \ {Client} : Busy(j) => caller[j] = round /\ NoModel(queue[j])

Fresh(f) == f.kind = "model" => f.from = round /\ (Clean => f.value = Request)

Single(s) ==
  \A k, m \in DOMAIN s : s[k].kind = "model" /\ s[m].kind = "model" => k = m

QueueInv ==
  \A j \in Nodes \ {Client} :
     Single(queue[j]) /\ \A k \in DOMAIN queue[j] : Fresh(queue[j][k])

(* What is on its way up and down in a round without unusable payloads.    *)
Carried(i) ==
  /\ pc[i] \in {"send", "await", "ask"} => held[i] = Request
  /\ pc[i] = "mix" => input[i] = Request
  /\ pc[i] = "serve" => held[i] = Answer
  /\ pc[i] = "got" \/ (pc[i] = "await" /\ ~Waits(i)) => answer[i] = Answer

DataInv ==
  /\ \A i \in Nodes : pc[i] \notin {"await", "got", "bye", "gone"} => answer[i] = Silent
  /\ pc[Server] \notin {"send", "await", "ask", "got"}
  /\ pc[Client] \notin {"recv", "mix", "serve"}
  /\ Clean => \A i \in Nodes : Carried(i)

WInv == WaveInv /\ BusyInv /\ QueueInv /\ DataInv /\ AdoptsItsAnswerUnlessSpoiled

(* Reading a frame, cutting one short or adding a goodbye adds no request. *)
Shrinks(s, t) ==
  /\ NoModel(s) => NoModel(t)
  /\ Single(s) => Single(t)
  /\ (\A k \in DOMAIN s : Fresh(s[k])) => \A k \in DOMAIN t : Fresh(t[k])

LEMMA FrameRead ==
  ASSUME NEW s \in Seq(Frames), s # <<>>
  PROVE  /\ Shrinks(s, Tail(s)) /\ Head(s) = s[1] /\ 1 \in DOMAIN s
         /\ Single(s) /\ Head(s).kind = "model" => NoModel(Tail(s))
<1> DEFINE t == Tail(s)
<1>1. /\ DOMAIN t = 1..(Len(s) - 1) /\ DOMAIN s = 1..Len(s) /\ Len(s) \in Nat \ {0}
      /\ \A k \in DOMAIN t : t[k] = s[k + 1] /\ k + 1 \in DOMAIN s /\ k + 1 # 1
      /\ \A k, m \in DOMAIN t : k + 1 = m + 1 => k = m
      /\ Head(s) = s[1]
  OBVIOUS
<1> HIDE DEF t
<1>2. NoModel(s) => NoModel(t)
  BY <1>1 DEF NoModel
<1>3. Single(s) => Single(t)
  BY <1>1 DEF Single
<1>4. (\A k \in DOMAIN s : Fresh(s[k])) => \A k \in DOMAIN t : Fresh(t[k])
  BY <1>1
<1>5. 1 \in DOMAIN s
  BY <1>1
<1>6. Single(s) /\ Head(s).kind = "model" => NoModel(t)
  BY <1>1, <1>5 DEF NoModel, Single
<1> QED BY <1>1, <1>2, <1>3, <1>4, <1>5, <1>6 DEF Shrinks, t

LEMMA FrameAdded ==
  ASSUME NEW s \in Seq(Frames), NEW f \in Frames, Fresh(f)
  PROVE  /\ f.kind # "model" => Shrinks(s, Append(s, f))
         /\ NoModel(s) => Single(Append(s, f))
         /\ (\A k \in DOMAIN s : Fresh(s[k])) =>
              \A k \in DOMAIN Append(s, f) : Fresh(Append(s, f)[k])
<1> DEFINE t == Append(s, f)
<1>1. /\ DOMAIN t = DOMAIN s \cup {Len(s) + 1}
      /\ \A k \in DOMAIN s : t[k] = s[k]
      /\ t[Len(s) + 1] = f
  OBVIOUS
<1> HIDE DEF t
<1>2. f.kind # "model" /\ NoModel(s) => NoModel(t)
  BY <1>1 DEF NoModel
<1>3. f.kind # "model" /\ Single(s) => Single(t)
  BY <1>1 DEF Single
<1>4. NoModel(s) => Single(t)
  BY <1>1 DEF NoModel, Single
<1>5. (\A k \in DOMAIN s : Fresh(s[k])) => \A k \in DOMAIN t : Fresh(t[k])
  BY <1>1
<1> QED BY <1>2, <1>3, <1>4, <1>5 DEF Shrinks, t

LEMMA FrameCut ==
  ASSUME NEW s \in Seq(Frames), NEW k \in DOMAIN s
  PROVE  Shrinks(s, [s EXCEPT ![k] = [@ EXCEPT !.kind = "cut"]])
<1> DEFINE f == [s[k] EXCEPT !.kind = "cut"]
           t == [s EXCEPT ![k] = f]
<1>1. f.kind = "cut"
  BY DEF Frames
<1> HIDE DEF f
<1>2. /\ DOMAIN t = DOMAIN s /\ t[k] = f
      /\ \A l \in DOMAIN s \ {k} : t[l] = s[l]
  OBVIOUS
<1> HIDE DEF t
<1>3. NoModel(s) => NoModel(t)
  BY <1>1, <1>2 DEF NoModel
<1>4. Single(s) => Single(t)
  BY <1>1, <1>2 DEF Single
<1>5. (\A l \in DOMAIN s : Fresh(s[l])) => \A l \in DOMAIN t : Fresh(t[l])
  BY <1>1, <1>2 DEF Fresh
<1> QED BY <1>3, <1>4, <1>5 DEF Shrinks, f, t

LEMMA Unchanged == \A s : Shrinks(s, s)
BY DEF Shrinks

(* A step of one node that sends nothing, neither starts to ask nor gets   *)
(* its answer, and takes on nothing.                                       *)
LEMMA Moves ==
  ASSUME TypeOK, TypeOK', WaveInv, BusyInv, QueueInv, NEW i \in Nodes, NEW to \in Places,
         pc' = [pc EXCEPT ![i] = to], UNCHANGED <<caller, round>>,
         spoiled \subseteq spoiled',
         \A j \in Nodes \ {Client} : Shrinks(queue[j], queue'[j]),
         \A n \in Nodes \ {i} : answer'[n] = answer[n],
         ~Asking(i)' => ~Asking(i), Busy(i)' => Busy(i) \/ i = Client
  PROVE  WaveInv' /\ BusyInv' /\ QueueInv'
<1>1. /\ pc'[i] = to /\ \A n \in Nodes \ {i} : pc'[n] = pc[n]
  BY DEF TypeOK
<1>2. \A n \in Nodes : ~Asking(n)' => ~Asking(n)
  BY <1>1 DEF Asking, Waits
<1>3. \A n \in Nodes \ {Client} : Busy(n)' => Busy(n)
  BY <1>1 DEF Busy
<1>4. \A n \in Nodes \ {Client} : NoModel(queue[n]) => NoModel(queue'[n])
  BY DEF Shrinks
<1>5. WaveInv'
  <2>1. ASSUME NEW m \in Nodes, NEW j \in Nodes, m < j, ~Asking(m)' PROVE Quiet(j)'
    <3>1. j # Client /\ Quiet(j)
      BY <1>2, <2>1, Constants DEF WaveInv, Client
    <3> QED BY <1>3, <1>4, <3>1 DEF Quiet
  <2> QED BY <2>1 DEF WaveInv
<1>6. BusyInv'
  BY <1>3, <1>4 DEF BusyInv
<1>7. QueueInv'
  <2>1. \A f : Fresh(f) => Fresh(f)'
    BY DEF Fresh, Clean, Request
  <2> QED BY <2>1 DEF QueueInv, Shrinks
<1> QED BY <1>5, <1>6, <1>7

Restful == {"bye", "gone"}

(* Whatever has not changed still carries what it carried.                 *)
LEMMA DataKept ==
  ASSUME TypeOK, DataInv, UNCHANGED round, spoiled \subseteq spoiled', NEW C \in SUBSET Nodes,
         \A n \in Nodes \ C : /\ pc'[n] = pc[n] /\ held'[n] = held[n]
                              /\ input'[n] = input[n] /\ answer'[n] = answer[n],
         \A n \in C : pc'[n] \notin {"await", "got", "bye", "gone"} => answer'[n] = Silent,
         Server \in C => pc'[Server] \notin {"send", "await", "ask", "got"},
         Client \in C => pc'[Client] \notin {"recv", "mix", "serve"},
         Clean => \A n \in C : Carried(n)'
  PROVE  DataInv'
<1>1. Clean' => Clean
  BY DEF Clean
<1>2. ASSUME NEW n \in Nodes \ C, Clean' PROVE Carried(n)'
  <2>1. Carried(n) /\ Request' = Request /\ Answer' = Answer
    BY <1>1, <1>2 DEF DataInv, Request, Answer
  <2>2. Waits(n)' <=> Waits(n)
    BY <1>2 DEF Waits
  <2> QED BY <1>2, <2>1, <2>2 DEF Carried
<1>3. Clean' => \A n \in Nodes : Carried(n)'
  BY <1>1, <1>2
<1> QED BY <1>3, Constants DEF DataInv

(* A node that gives up or ends its run.                                   *)
LEMMA Falls ==
  ASSUME TypeOK, TypeOK', WInv, NEW i \in Nodes, NEW to \in Restful,
         pc' = [pc EXCEPT ![i] = to], UNCHANGED <<caller, round, answer, adopted>>,
         \A n \in Nodes \ {i} : held'[n] = held[n] /\ input'[n] = input[n],
         spoiled \subseteq spoiled',
         \A j \in Nodes \ {Client} : Shrinks(queue[j], queue'[j])
  PROVE  WInv'
<1>1. to \in Places /\ pc'[i] = to /\ Asking(i)' /\ ~Busy(i)'
  BY DEF Restful, Places, Asking, Busy, TypeOK
<1>2. WaveInv' /\ BusyInv' /\ QueueInv'
  BY <1>1, Moves DEF WInv
<1>3. Carried(i)'
  BY <1>1 DEF Carried, Restful
<1>4. \A n \in Nodes \ {i} : pc'[n] = pc[n]
  BY DEF TypeOK
<1>5. DataInv'
  <2> DEFINE C == {i}
  <2>1. /\ C \in SUBSET Nodes /\ DataInv /\ \A n \in C : n = i
        /\ \A n \in Nodes \ C : n \in Nodes \ {i}
    BY DEF WInv
  <2> HIDE DEF C
  <2>2. /\ \A n \in Nodes \ C : /\ pc'[n] = pc[n] /\ held'[n] = held[n]
                                /\ input'[n] = input[n] /\ answer'[n] = answer[n]
        /\ \A n \in C : pc'[n] \in Restful /\ Carried(n)'
    BY <1>1, <1>3, <1>4, <2>1
  <2> QED BY <2>1, <2>2, DataKept DEF Restful
<1>6. AdoptsItsAnswerUnlessSpoiled'
  BY DEF WInv, AdoptsItsAnswerUnlessSpoiled
<1> QED BY <1>2, <1>5, <1>6 DEF WInv

LEMMA CutShrinks ==
  ASSUME TypeOK, NEW i \in Nodes, PerhapsCut(i)
  PROVE  \A j \in Nodes : Shrinks(queue[j], queue'[j])
<1>1. CASE UNCHANGED queue
  BY <1>1, Unchanged
<1>2. CASE ~UNCHANGED queue
  <2>1. PICK k \in DOMAIN queue[i + 1] :
          TcpDown(i) /\ queue' = [queue EXCEPT ![i + 1][k].kind = "cut"]
    BY <1>2 DEF PerhapsCut
  <2>2. i + 1 \in Nodes /\ queue[i + 1] \in Seq(Frames)
    BY <2>1, Constants DEF TcpDown, TypeOK
  <2> DEFINE t == [queue[i + 1] EXCEPT ![k] = [@ EXCEPT !.kind = "cut"]]
  <2>3. queue' = [queue EXCEPT ![i + 1] = t]
    BY <2>1, <2>2 DEF TypeOK
  <2>4. Shrinks(queue[i + 1], t)
    BY <2>2, FrameCut
  <2> HIDE DEF t
  <2>5. ASSUME NEW j \in Nodes PROVE Shrinks(queue[j], queue'[j])
    <3>1. CASE j = i + 1
      BY <2>2, <2>3, <2>4, <3>1 DEF TypeOK
    <3>2. CASE j # i + 1
      BY <2>3, <3>2, Unchanged DEF TypeOK
    <3> QED BY <3>1, <3>2
  <2> QED BY <2>5
<1> QED BY <1>1, <1>2

LEMMA WaveFalls ==
  ASSUME TypeOK, TypeOK', WInv, NEW i \in Nodes,
         NoNextHop(i) \/ NoAnswer(i) \/ NoCaller(i) \/ NeverUp(i) \/ Leave(i) \/ Crash(i)
  PROVE  WInv'
<1>1. /\ Go(i, "bye") \/ Go(i, "gone")
      /\ UNCHANGED <<caller, round, dataVars, adopted, spoiled>>
  BY DEF NoNextHop, NoAnswer, NoCaller, NeverUp, Leave, Crash, Fail
<1>2. \A j \in Nodes : Shrinks(queue[j], queue'[j])
  <2>1. CASE NoAnswer(i) \/ Crash(i)
    BY <2>1, CutShrinks, Unchanged DEF NoAnswer, Crash
  <2>2. CASE NoNextHop(i) \/ NoCaller(i) \/ NeverUp(i)
    BY <2>2, Unchanged DEF NoNextHop, NoCaller, NeverUp
  <2>3. CASE Leave(i)
    <3> DEFINE f == [kind |-> "bye", from |-> round, value |-> Nothing]
               t == Append(queue[i + 1], f)
    <3>1. f \in Frames /\ Fresh(f) /\ f.kind # "model"
      BY Constants DEF TypeOK, Frames, Fresh
    <3>2. i # Server => Shrinks(queue[i + 1], t)
      BY <3>1, FrameAdded, Constants DEF TypeOK
    <3>3. \A s : Shrinks(s, <<>>)
      BY DEF Shrinks, NoModel, Single
    <3>4. \/ queue' = [queue EXCEPT ![i] = <<>>]
          \/ i # Server /\ queue' = [queue EXCEPT ![i + 1] = t, ![i] = <<>>]
      BY <2>3 DEF Leave, Bye, TcpDown
    <3> HIDE DEF t
    <3>5. ASSUME NEW j \in Nodes
          PROVE  \/ queue'[j] = queue[j] \/ queue'[j] = <<>>
                 \/ i # Server /\ j = i + 1 /\ queue'[j] = t
      <4>1. DOMAIN queue = Nodes /\ (i # Server => i + 1 # i)
        BY Constants DEF TypeOK
      <4>2. CASE queue' = [queue EXCEPT ![i] = <<>>]
        BY <4>1, <4>2
      <4>3. CASE i # Server /\ queue' = [queue EXCEPT ![i + 1] = t, ![i] = <<>>]
        BY <4>1, <4>3
      <4> QED BY <3>4, <4>2, <4>3
    <3>6. ASSUME NEW j \in Nodes PROVE Shrinks(queue[j], queue'[j])
      <4>1. CASE queue'[j] = queue[j]
        BY <4>1, Unchanged
      <4> QED BY <3>2, <3>3, <3>5, <4>1
    <3> QED BY <3>6
  <2> QED BY <2>1, <2>2, <2>3
<1>3. PICK to \in Restful : pc' = [pc EXCEPT ![i] = to]
  BY <1>1 DEF Go, Restful
<1>4. UNCHANGED <<caller, round, held, input, answer, adopted, spoiled>>
  BY <1>1 DEF dataVars
<1> QED BY <1>2, <1>3, <1>4, Falls, Constants

(* A step of one node that keeps the wave where it is.                     *)
LEMMA Steps ==
  ASSUME TypeOK, TypeOK', WInv, NEW i \in Nodes, NEW to \in Places,
         pc' = [pc EXCEPT ![i] = to], UNCHANGED <<caller, round, adopted, queue>>,
         spoiled \subseteq spoiled',
         \A n \in Nodes \ {i} : /\ held'[n] = held[n]
                                /\ input'[n] = input[n] /\ answer'[n] = answer[n],
         ~Asking(i)' => ~Asking(i), Busy(i)' => Busy(i) \/ i = Client,
         to \notin {"await", "got", "bye", "gone"} => answer'[i] = Silent,
         i = Server => to \notin {"send", "await", "ask", "got"},
         i = Client => to \notin {"recv", "mix", "serve"},
         Clean' => Carried(i)'
  PROVE  WInv'
<1>1. WaveInv' /\ BusyInv' /\ QueueInv'
  BY Moves, Unchanged DEF WInv
<1>2. pc'[i] = to /\ \A n \in Nodes \ {i} : pc'[n] = pc[n]
  BY DEF TypeOK
<1>3. \A n \in Nodes \ {i} : Clean' => Carried(n)'
  <2>1. ASSUME NEW n \in Nodes \ {i}, Clean' PROVE Carried(n)'
    <3>1. Carried(n) /\ Request' = Request /\ Answer' = Answer
      BY <2>1 DEF WInv, DataInv, Clean, Request, Answer
    <3>2. (Waits(n)' <=> Waits(n)) /\ pc'[n] = pc[n] /\ held'[n] = held[n]
          /\ input'[n] = input[n] /\ answer'[n] = answer[n]
      BY <1>2, <2>1 DEF Waits
    <3> QED BY <3>1, <3>2 DEF Carried
  <2> QED BY <2>1
<1>4. DataInv'
  BY <1>2, <1>3, Constants DEF WInv, DataInv
<1>5. AdoptsItsAnswerUnlessSpoiled'
  BY DEF WInv, AdoptsItsAnswerUnlessSpoiled
<1> QED BY <1>1, <1>4, <1>5 DEF WInv

LEMMA WaveMoves ==
  ASSUME TypeOK, TypeOK', WInv, NEW i \in Nodes,
         Start(i) \/ SendUnheard(i) \/ Answered(i)
  PROVE  WInv'
<1>1. /\ UNCHANGED <<caller, round, held, input, answer, adopted, spoiled, queue>>
      /\ (Clean <=> Clean') /\ Request' = Request /\ Answer' = Answer
  BY DEF Start, SendUnheard, Answered, dataVars, Clean, Request, Answer
<1>2. CASE Start(i)
  <2>1. PICK to \in {"work", "recv"} : pc' = [pc EXCEPT ![i] = to]
                                       /\ (to = "work" <=> i = Client)
    BY <1>2 DEF Start, Go
  <2>2. /\ pc[i] = "off" /\ to \in Places /\ pc'[i] = to
    BY <1>2, <2>1 DEF Start, TypeOK, Places
  <2>3. /\ ~Asking(i) /\ ~Busy(i)' /\ answer[i] = Silent /\ Carried(i)'
    BY <2>1, <2>2 DEF Asking, Waits, Busy, Carried, WInv, DataInv
  <2> QED BY <1>1, <2>1, <2>2, <2>3, Steps, Constants
<1>3. CASE SendUnheard(i)
  <2>1. /\ pc[i] = "send" /\ pc' = [pc EXCEPT ![i] = "ask"] /\ i # Server
        /\ pc'[i] = "ask" /\ "ask" \in Places
    BY <1>3 DEF SendUnheard, Go, TypeOK, Places
  <2>2. /\ Asking(i)' /\ Busy(i) /\ answer[i] = Silent
        /\ (Clean' => Carried(i)')
    BY <1>1, <2>1 DEF Asking, Waits, Busy, Carried, WInv, DataInv
  <2> QED BY <1>1, <2>1, <2>2, Steps, Constants
<1>4. CASE Answered(i)
  <2>1. /\ pc[i] = "await" /\ answer[i] # Silent /\ pc' = [pc EXCEPT ![i] = "got"]
        /\ pc'[i] = "got" /\ "got" \in Places /\ i # Server
    BY <1>4 DEF Answered, Go, TypeOK, Places, WInv, DataInv
  <2>2. /\ ~Asking(i) /\ Busy(i) /\ (Clean' => Carried(i)')
    BY <1>1, <2>1 DEF Asking, Waits, Busy, Carried, WInv, DataInv
  <2> QED BY <1>1, <2>1, <2>2, Steps, Constants
<1> QED BY <1>2, <1>3, <1>4

LEMMA WaveForward == ASSUME TypeOK, TypeOK', WInv, NEW i \in Nodes, Forward(i) PROVE WInv'
<1>1. /\ i \in Relays /\ i # Client /\ i # Server /\ pc[i] = "mix"
      /\ held'[i] = Keeps(i, input[i])
      /\ \A n \in Nodes \ {i} : held'[n] = held[n]
      /\ UNCHANGED <<caller, round, input, answer, adopted, spoiled, queue>>
      /\ (Clean <=> Clean') /\ Request' = Request
  BY Constants DEF Forward, TypeOK, Clean, Request
<1>2. CASE Fail(i)
  <2>1. pc' = [pc EXCEPT ![i] = "bye"] /\ "bye" \in Restful
    BY <1>2 DEF Fail, Go, Restful
  <2> QED BY <1>1, <2>1, Falls, Unchanged
<1>3. CASE Go(i, "send")
  <2>1. pc' = [pc EXCEPT ![i] = "send"] /\ pc'[i] = "send" /\ "send" \in Places
    BY <1>3 DEF Go, TypeOK, Places
  <2>2. ~Asking(i) /\ Busy(i) /\ answer[i] = Silent
    BY <1>1 DEF Asking, Waits, Busy, WInv, DataInv
  <2>3. Clean' => Carried(i)'
    <3>1. Clean => input[i] = Request /\ Usable(input[i])
      BY <1>1 DEF WInv, DataInv, Carried, Request, Usable
    <3> QED BY <1>1, <2>1, <3>1 DEF Carried, Keeps, Waits
  <2> QED BY <1>1, <2>1, <2>2, <2>3, Steps, Constants
<1> QED BY <1>2, <1>3 DEF Forward

LEMMA WaveReturn == ASSUME TypeOK, TypeOK', WInv, NEW i \in Nodes, Return(i) PROVE WInv'
<1>1. /\ i \in Relays /\ i # Client /\ i # Server /\ pc[i] = "got"
      /\ pc' = [pc EXCEPT ![i] = "serve"] /\ pc'[i] = "serve" /\ "serve" \in Places
      /\ held'[i] = Keeps(i, answer[i]) /\ answer'[i] = Silent
      /\ \A n \in Nodes \ {i} : held'[n] = held[n] /\ answer'[n] = answer[n]
      /\ UNCHANGED <<caller, round, input, adopted, spoiled, queue>>
      /\ (Clean <=> Clean') /\ Answer' = Answer
  BY Constants DEF Return, TypeOK, Clean, Answer, Go, Places
<1>2. ~Asking(i) /\ Busy(i)
  BY <1>1 DEF Asking, Waits, Busy
<1>3. Clean' => Carried(i)'
  <2>1. Clean => answer[i] = Answer /\ Usable(answer[i])
    BY <1>1 DEF WInv, DataInv, Carried, Answer, Usable
  <2> QED BY <1>1, <2>1 DEF Carried, Keeps, Waits
<1> QED BY <1>1, <1>2, <1>3, Steps, Constants

LEMMA WaveMix == ASSUME TypeOK, TypeOK', WInv, Mix PROVE WInv'
<1>1. /\ pc[Server] = "mix" /\ Server # Client /\ Server \in Nodes
      /\ \A n \in Nodes \ {Server} : held'[n] = held[n]
      /\ UNCHANGED <<caller, round, input, answer, adopted, queue>>
      /\ spoiled \subseteq spoiled' /\ Answer' = Answer
      /\ (Clean' => Usable(input[Server])
                    /\ held'[Server] = [by |-> "server", of |-> input[Server].of])
      /\ (Clean' => Clean)
  BY Constants DEF Mix, TypeOK, Clean, Answer
<1>2. CASE Fail(Server)
  <2>1. pc' = [pc EXCEPT ![Server] = "bye"] /\ "bye" \in Restful
    BY <1>2 DEF Fail, Go, Restful
  <2> QED BY <1>1, <2>1, Falls, Unchanged
<1>3. CASE Go(Server, "serve")
  <2>1. /\ pc' = [pc EXCEPT ![Server] = "serve"] /\ pc'[Server] = "serve"
        /\ "serve" \in Places
    BY <1>1, <1>3 DEF Go, TypeOK, Places
  <2>2. ~Asking(Server) /\ Busy(Server) /\ answer[Server] = Silent
    BY <1>1 DEF Asking, Waits, Busy, WInv, DataInv
  <2>3. Clean' => Carried(Server)'
    <3>1. Clean => input[Server] = Request /\ input[Server].of = round
      BY <1>1 DEF WInv, DataInv, Carried, Request
    <3>2. Clean' => held'[Server] = Answer
      BY <1>1, <3>1 DEF Answer
    <3> QED BY <1>1, <2>1, <3>2 DEF Carried, Waits
  <2> QED BY <1>1, <2>1, <2>2, <2>3, Steps, Constants
<1> QED BY <1>2, <1>3 DEF Mix

LEMMA WaveClient == ASSUME TypeOK, TypeOK', WInv, Retire \/ Adopt PROVE WInv'
<1>1. CASE Retire
  <2>1. /\ pc' = [pc EXCEPT ![Client] = "bye"] /\ "bye" \in Restful
        /\ UNCHANGED <<caller, round, held, input, answer, adopted, spoiled, queue>>
    BY <1>1 DEF Retire, Stop, Go, dataVars, Restful
  <2> QED BY <2>1, Falls, Unchanged, Constants
<1>2. CASE Adopt
  <2>1. /\ pc[Client] = "got" /\ pc' = [pc EXCEPT ![Client] = "work"]
        /\ pc'[Client] = "work" /\ "work" \in Places
        /\ answer'[Client] = Silent /\ \A n \in Nodes \ {Client} : answer'[n] = answer[n]
        /\ UNCHANGED <<caller, round, held, input, spoiled, queue>>
    BY <1>2, Constants DEF Adopt, Go, TypeOK, Places
  <2>2. ~Asking(Client) /\ ~Busy(Client)' /\ Carried(Client)'
    BY <2>1 DEF Asking, Waits, Busy, Carried
  <2>3. AdoptsItsAnswerUnlessSpoiled'
    <3>1. CASE Usable(answer[Client])
      <4>1. adopted' = [in |-> round, value |-> answer[Client]]
        BY <1>2, <3>1 DEF Adopt
      <4>2. Clean => answer[Client] = Answer
        BY <2>1, Constants DEF WInv, DataInv, Carried
      <4> QED BY <2>1, <4>1, <4>2 DEF AdoptsItsAnswerUnlessSpoiled, Clean, Answer
    <3>2. CASE ~Usable(answer[Client])
      BY <1>2, <2>1, <3>2 DEF Adopt, AdoptsItsAnswerUnlessSpoiled, WInv
    <3> QED BY <3>1, <3>2
  <2>4. WaveInv' /\ BusyInv' /\ QueueInv'
    BY <2>1, <2>2, Moves, Unchanged, Constants DEF WInv
  <2>5. DataInv'
    <3>1. \A n \in Nodes \ {Client} : /\ pc'[n] = pc[n] /\ held'[n] = held[n]
                                      /\ input'[n] = input[n] /\ answer'[n] = answer[n]
      BY <2>1 DEF TypeOK
    <3> DEFINE C == {Client}
    <3>2. C \in SUBSET Nodes /\ (\A n \in C : n = Client) /\ DataInv
          /\ \A n \in Nodes \ C : n \in Nodes \ {Client}
      BY Constants DEF WInv
    <3> HIDE DEF C
    <3>3. /\ \A n \in Nodes \ C : /\ pc'[n] = pc[n] /\ held'[n] = held[n]
                                  /\ input'[n] = input[n] /\ answer'[n] = answer[n]
          /\ \A n \in C : pc'[n] = "work" /\ Carried(n)' /\ answer'[n] = Silent
          /\ Server \notin C
      BY <2>1, <2>2, <3>1, <3>2, Constants
    <3> QED BY <2>1, <3>2, <3>3, DataKept
  <2> QED BY <2>3, <2>4, <2>5 DEF WInv
<1> QED BY <1>1, <1>2

LEMMA WaveProduce == ASSUME TypeOK, TypeOK', WInv, Produce PROVE WInv'
<1>1. /\ pc[Client] = "work" /\ pc' = [pc EXCEPT ![Client] = "send"] /\ pc'[Client] = "send"
      /\ \A n \in Nodes \ {Client} : pc'[n] = pc[n] /\ held'[n] = held[n]
      /\ round' = round + 1 /\ spoiled \subseteq spoiled'
      /\ UNCHANGED <<caller, queue, input, answer, adopted>>
      /\ answer[Client] = Silent
      /\ Clean' => held'[Client] = Request'
  <2>1. /\ pc[Client] = "work" /\ pc' = [pc EXCEPT ![Client] = "send"]
        /\ round' = round + 1 /\ UNCHANGED <<caller, queue, input, answer, adopted>>
    BY DEF Produce, Go
  <2>2. \/ /\ held' = [held EXCEPT ![Client] = [by |-> "client", of |-> round + 1]]
           /\ spoiled' = spoiled
        \/ /\ held' = [held EXCEPT ![Client] = Unusable]
           /\ spoiled' = spoiled \cup {round + 1}
    BY DEF Produce
  <2>3. Clean' => held'[Client] = Request'
    BY <2>1, <2>2, Constants DEF TypeOK, Clean, Request
  <2>4. answer[Client] = Silent
    BY <2>1, Constants DEF WInv, DataInv
  <2> QED BY <2>1, <2>2, <2>3, <2>4, Constants DEF TypeOK
<1>2. \A j \in Nodes \ {Client} : Quiet(j) /\ ~Busy(j)' /\ Quiet(j)'
  <2>1. ASSUME NEW j \in Nodes \ {Client} PROVE Quiet(j)
    <3>1. ~Asking(Client) /\ Client < j
      BY <1>1, Constants DEF Asking, Waits, Client
    <3> QED BY <3>1, Constants DEF WInv, WaveInv
  <2> QED BY <1>1, <2>1 DEF Quiet, Busy
<1>3. WaveInv'
  BY <1>2, Constants DEF WaveInv, Client
<1>4. BusyInv'
  BY <1>2 DEF BusyInv
<1>5. QueueInv'
  <2>1. \A j \in Nodes \ {Client} : \A k \in DOMAIN queue[j] : queue[j][k].kind # "model"
    BY <1>2 DEF Quiet, NoModel
  <2> QED BY <1>1, <2>1 DEF QueueInv, Single, Fresh
<1>6. DataInv'
  <2>1. Clean' => Carried(Client)'
    BY <1>1 DEF Carried
  <2>2. \A n \in Nodes \ {Client} : Carried(n)'
    BY <1>2 DEF Carried, Busy
  <2>3. pc'[Server] = pc[Server]
    BY <1>1, Constants
  <2>4. \A n \in Nodes : pc'[n] \notin {"await", "got", "bye", "gone"} => answer'[n] = Silent
    BY <1>1 DEF WInv, DataInv
  <2> QED BY <1>1, <2>1, <2>2, <2>3, <2>4 DEF WInv, DataInv
<1>7. AdoptsItsAnswerUnlessSpoiled'
  BY <1>1 DEF WInv, AdoptsItsAnswerUnlessSpoiled
<1> QED BY <1>3, <1>4, <1>5, <1>6, <1>7 DEF WInv

LEMMA WaveSendTcp == ASSUME TypeOK, TypeOK', WInv, NEW i \in Nodes, SendTcp(i) PROVE WInv'
<1> DEFINE f == [kind |-> "model", from |-> round, value |-> held[i]]
           t == Append(queue[i + 1], f)
<1>1. /\ pc[i] = "send" /\ i # Server /\ i + 1 \in Nodes \ {Client}
      /\ pc' = [pc EXCEPT ![i] = "await"] /\ pc'[i] = "await"
      /\ \A n \in Nodes \ {i} : pc'[n] = pc[n]
      /\ queue'[i + 1] = t /\ \A n \in Nodes \ {i + 1} : queue'[n] = queue[n]
      /\ UNCHANGED <<caller, held, input, answer, round, adopted, spoiled>>
      /\ answer[i] = Silent /\ Asking(i)' /\ ~Asking(i) /\ Busy(i)
      /\ (Clean => held[i] = Request)
      /\ queue[i + 1] \in Seq(Frames)
  <2>1. /\ pc[i] = "send" /\ i # Server /\ i + 1 \in Nodes \ {Client}
        /\ pc' = [pc EXCEPT ![i] = "await"] /\ queue' = [queue EXCEPT ![i + 1] = t]
        /\ UNCHANGED <<caller, held, input, answer, round, adopted, spoiled>>
    BY Constants DEF SendTcp, Go, TcpDown, dataVars
  <2>2. pc \in [Nodes -> Places] /\ queue \in [Nodes -> Seq(Frames)]
    BY DEF TypeOK
  <2>3. answer[i] = Silent /\ (Clean => held[i] = Request)
    BY <2>1 DEF WInv, DataInv, Carried
  <2>4. pc'[i] = "await" /\ \A n \in Nodes \ {i} : pc'[n] = pc[n]
    BY <2>1, <2>2
  <2>5. Asking(i)' /\ ~Asking(i) /\ Busy(i)
    BY <2>1, <2>3, <2>4 DEF Asking, Waits, Busy
  <2>6. /\ queue'[i + 1] = t /\ \A n \in Nodes \ {i + 1} : queue'[n] = queue[n]
        /\ queue[i + 1] \in Seq(Frames)
    BY <2>1, <2>2
  <2> QED BY <2>1, <2>3, <2>4, <2>5, <2>6
<1>2. f \in Frames /\ Fresh(f)
  BY <1>1 DEF TypeOK, Frames, Fresh
<1>3. Quiet(i + 1)
  BY <1>1, Constants DEF WInv, WaveInv
<1>4. Single(t) /\ \A k \in DOMAIN t : Fresh(t[k])
  BY <1>1, <1>2, <1>3, FrameAdded DEF Quiet, WInv, QueueInv
<1> HIDE DEF t
<1>5. WaveInv'
  <2>1. ASSUME NEW m \in Nodes, NEW j \in Nodes, m < j, ~Asking(m)' PROVE Quiet(j)'
    <3>1. m # i /\ ~Asking(m)
      BY <1>1, <2>1 DEF Asking, Waits
    <3>2. ~(m < i)
      BY <1>1, <2>1, <3>1 DEF WInv, WaveInv, Quiet
    <3>3. j # i /\ j # i + 1 /\ Quiet(j)
      BY <2>1, <3>1, <3>2, Constants DEF WInv, WaveInv
    <3> QED BY <1>1, <3>3 DEF Quiet, Busy
  <2> QED BY <2>1 DEF WaveInv
<1>6. BusyInv'
  <2>1. ASSUME NEW j \in Nodes \ {Client}, Busy(j)'
        PROVE  caller'[j] = round' /\ NoModel(queue'[j])
    <3>1. Busy(j)
      BY <1>1, <2>1 DEF Busy
    <3>2. j # i + 1
      BY <1>3, <3>1 DEF Quiet
    <3> QED BY <1>1, <3>1, <3>2 DEF WInv, BusyInv
  <2> QED BY <2>1 DEF BusyInv
<1>7. QueueInv'
  <2>1. \A g : Fresh(g) <=> Fresh(g)'
    BY <1>1 DEF Fresh, Clean, Request
  <2> QED BY <1>1, <1>4, <2>1 DEF WInv, QueueInv
<1>8. Carried(i)' \/ ~Clean
  BY <1>1 DEF Carried, Waits, Request
<1>9. DataInv'
  <2> DEFINE C == {i}
  <2>1. C \in SUBSET Nodes /\ (\A n \in C : n = i) /\ Server \notin C /\ DataInv
        /\ \A n \in Nodes \ C : n \in Nodes \ {i}
    BY <1>1 DEF WInv
  <2> HIDE DEF C
  <2>2. /\ \A n \in Nodes \ C : /\ pc'[n] = pc[n] /\ held'[n] = held[n]
                                /\ input'[n] = input[n] /\ answer'[n] = answer[n]
        /\ \A n \in C : pc'[n] = "await"
        /\ Clean => \A n \in C : Carried(n)'
    BY <1>1, <1>8, <2>1
  <2> QED BY <1>1, <2>1, <2>2, DataKept
<1>10. AdoptsItsAnswerUnlessSpoiled'
  BY <1>1 DEF WInv, AdoptsItsAnswerUnlessSpoiled
<1> QED BY <1>5, <1>6, <1>7, <1>9, <1>10 DEF WInv

LEMMA WaveSendHeard == ASSUME TypeOK, TypeOK', WInv, NEW i \in Nodes, SendHeard(i) PROVE WInv'
<1>1. /\ i # Server /\ i + 1 \in Nodes \ {Client} /\ i + 1 # i /\ i \in Nat
      /\ pc[i] = "send" /\ pc[i + 1] = "recv" /\ pc'[i] = "ask" /\ pc'[i + 1] = "mix"
      /\ \A n \in Nodes \ {i, i + 1} : pc'[n] = pc[n]
      /\ \A n \in Nodes \ {i + 1} : input'[n] = input[n] /\ caller'[n] = caller[n]
      /\ caller'[i + 1] = round
      /\ spoiled \subseteq spoiled' /\ (Clean' => Clean /\ input'[i + 1] = held[i])
      /\ UNCHANGED <<queue, held, answer, round, adopted>>
      /\ Request' = Request
  <2>1. /\ i # Server /\ pc[i] = "send" /\ pc[i + 1] = "recv"
        /\ pc' = [pc EXCEPT ![i] = "ask", ![i + 1] = "mix"]
        /\ caller' = [caller EXCEPT ![i + 1] = round]
        /\ UNCHANGED <<queue, held, answer, round, adopted>>
    BY DEF SendHeard
  <2>2. i + 1 \in Nodes \ {Client} /\ i + 1 # i /\ i \in Nat
    BY <2>1, Constants
  <2>3. \/ input' = [input EXCEPT ![i + 1] = held[i]] /\ spoiled' = spoiled
        \/ input' = [input EXCEPT ![i + 1] = Unusable] /\ spoiled' = spoiled \cup {round}
    BY DEF SendHeard
  <2> QED BY <2>1, <2>2, <2>3 DEF TypeOK, Clean, Request
<1>2. /\ answer[i] = Silent /\ answer[i + 1] = Silent /\ Asking(i)' /\ ~Asking(i) /\ Busy(i)
      /\ ~Asking(i + 1)
      /\ (Clean => held[i] = Request)
  BY <1>1 DEF WInv, DataInv, Carried, Asking, Waits, Busy
<1>3. Quiet(i + 1)
  BY <1>1, <1>2 DEF WInv, WaveInv
<1>4. WaveInv'
  <2>1. ASSUME NEW m \in Nodes, NEW j \in Nodes, m < j, ~Asking(m)' PROVE Quiet(j)'
    <3>1. m # i /\ ~Asking(m)
      <4>1. CASE m = i + 1
        BY <1>1, <1>2, <4>1
      <4>2. CASE m # i + 1
        BY <1>1, <1>2, <2>1, <4>2 DEF Asking, Waits
      <4> QED BY <4>1, <4>2
    <3>2. ~(m < i)
      BY <1>2, <3>1 DEF WInv, WaveInv, Quiet
    <3>3. j # i /\ j # i + 1 /\ Quiet(j)
      BY <2>1, <3>1, <3>2, Constants DEF WInv, WaveInv
    <3> QED BY <1>1, <3>3 DEF Quiet, Busy
  <2> QED BY <2>1 DEF WaveInv
<1>5. BusyInv'
  <2>1. ASSUME NEW j \in Nodes \ {Client}, Busy(j)'
        PROVE  caller'[j] = round' /\ NoModel(queue'[j])
    <3>1. CASE j = i + 1
      BY <1>1, <1>3, <3>1 DEF Quiet
    <3>2. CASE j # i + 1
      <4>1. Busy(j)
        BY <1>1, <1>2, <2>1, <3>2 DEF Busy
      <4> QED BY <1>1, <3>2, <4>1 DEF WInv, BusyInv
    <3> QED BY <3>1, <3>2
  <2> QED BY <2>1 DEF BusyInv
<1>6. QueueInv'
  <2>1. \A g : Fresh(g) => Fresh(g)'
    BY <1>1 DEF Fresh
  <2> QED BY <1>1, <2>1 DEF WInv, QueueInv
<1>7. Clean' => Carried(i)' /\ Carried(i + 1)'
  BY <1>1, <1>2 DEF Carried, Waits
<1>8. DataInv'
  <2>1. /\ \A n \in Nodes : pc'[n] \notin {"await", "got", "bye", "gone"} => answer'[n] = Silent
        /\ pc'[Server] \notin {"send", "await", "ask", "got"}
        /\ pc'[Client] \notin {"recv", "mix", "serve"}
    BY <1>1, <1>2, Constants DEF WInv, DataInv
  <2>2. ASSUME Clean', NEW n \in Nodes \ {i, i + 1} PROVE Carried(n)'
    <3>1. Carried(n) /\ Answer' = Answer
      BY <1>1, <2>2 DEF WInv, DataInv, Answer
    <3>2. (Waits(n)' <=> Waits(n)) /\ pc'[n] = pc[n] /\ held'[n] = held[n]
          /\ input'[n] = input[n] /\ answer'[n] = answer[n]
      BY <1>1, <2>2 DEF Waits
    <3> QED BY <1>1, <3>1, <3>2 DEF Carried
  <2> QED BY <1>7, <2>1, <2>2 DEF DataInv
<1>9. AdoptsItsAnswerUnlessSpoiled'
  BY <1>1 DEF WInv, AdoptsItsAnswerUnlessSpoiled
<1> QED BY <1>4, <1>5, <1>6, <1>8, <1>9 DEF WInv

LEMMA WaveAccept == ASSUME TypeOK, TypeOK', WInv, NEW i \in Nodes, Accept(i) PROVE WInv'
<1> DEFINE s == queue[i]
           f == Head(s)
           t == Tail(s)
<1>1. /\ i # Client /\ pc[i] = "recv" /\ s \in Seq(Frames) /\ s # <<>>
      /\ queue'[i] = t /\ \A n \in Nodes \ {i} : queue'[n] = queue[n]
      /\ UNCHANGED <<held, answer, round, adopted, spoiled>>
      /\ answer[i] = Silent /\ ~Asking(i)
  BY DEF Accept, TcpUp, TypeOK, WInv, DataInv, Asking, Waits
<1>2. /\ Shrinks(s, t) /\ f = s[1] /\ 1 \in DOMAIN s
      /\ Single(s) /\ f.kind = "model" => NoModel(t)
  BY <1>1, FrameRead
<1>3. \A j \in Nodes : Shrinks(queue[j], queue'[j])
  BY <1>1, <1>2, Unchanged
<1>4. Single(s) /\ Fresh(f)
  BY <1>1, <1>2 DEF WInv, QueueInv
<1>5. \/ /\ f.kind = "model" /\ Go(i, "mix")
         /\ input' = [input EXCEPT ![i] = f.value] /\ caller' = [caller EXCEPT ![i] = f.from]
      \/ /\ Go(i, "bye") \/ pc' = pc
         /\ UNCHANGED <<input, caller>>
  BY DEF Accept, Stop, Fail
<1> HIDE DEF s, f, t
<1>6. CASE UNCHANGED <<input, caller>> /\ Go(i, "bye")
  <2>1. "bye" \in Restful /\ pc' = [pc EXCEPT ![i] = "bye"]
    BY <1>6 DEF Go, Restful
  <2> QED BY <1>1, <1>3, <1>6, <2>1, Falls
<1>7. CASE UNCHANGED <<input, caller, pc>>
  <2>1. pc' = [pc EXCEPT ![i] = pc[i]] /\ pc[i] \in Places
    BY <1>7 DEF TypeOK
  <2>2. (Asking(i)' <=> Asking(i)) /\ (Busy(i)' <=> Busy(i))
    BY <1>1, <1>7 DEF Asking, Waits, Busy
  <2>3. WaveInv' /\ BusyInv' /\ QueueInv'
    BY <1>1, <1>3, <1>7, <2>1, <2>2, Moves DEF WInv
  <2>4. DataInv' /\ AdoptsItsAnswerUnlessSpoiled'
    BY <1>1, <1>7 DEF WInv, DataInv, AdoptsItsAnswerUnlessSpoiled, Clean, Carried, Waits,
                      Request, Answer
  <2> QED BY <2>3, <2>4 DEF WInv
<1>8. CASE /\ f.kind = "model" /\ Go(i, "mix")
           /\ input' = [input EXCEPT ![i] = f.value] /\ caller' = [caller EXCEPT ![i] = f.from]
  <2>1. /\ pc'[i] = "mix" /\ \A n \in Nodes \ {i} : pc'[n] = pc[n]
        /\ input'[i] = f.value /\ \A n \in Nodes \ {i} : input'[n] = input[n]
        /\ caller'[i] = round /\ \A n \in Nodes \ {i} : caller'[n] = caller[n]
        /\ (Clean => f.value = Request) /\ NoModel(t) /\ ~NoModel(s)
    BY <1>2, <1>4, <1>8 DEF Go, TypeOK, Fresh, NoModel
  <2>2. WaveInv'
    <3>1. ASSUME NEW m \in Nodes, NEW j \in Nodes, m < j, ~Asking(m)' PROVE Quiet(j)'
      <4>1. ~Asking(m)
        BY <1>1, <2>1, <3>1 DEF Asking, Waits
      <4>2. Quiet(j)
        BY <3>1, <4>1 DEF WInv, WaveInv
      <4>3. j # i
        BY <2>1, <4>2 DEF Quiet, s
      <4> QED BY <1>1, <2>1, <4>2, <4>3 DEF Quiet, Busy
    <3> QED BY <3>1 DEF WaveInv
  <2>3. BusyInv'
    <3>1. ASSUME NEW j \in Nodes \ {Client}, Busy(j)'
          PROVE  caller'[j] = round' /\ NoModel(queue'[j])
      <4>1. CASE j = i
        BY <1>1, <2>1, <4>1
      <4>2. CASE j # i
        BY <1>1, <2>1, <3>1, <4>2 DEF Busy, WInv, BusyInv
      <4> QED BY <4>1, <4>2
    <3> QED BY <3>1 DEF BusyInv
  <2>4. QueueInv'
    <3>1. \A g : Fresh(g) <=> Fresh(g)'
      BY <1>1 DEF Fresh, Clean, Request
    <3> QED BY <1>3, <3>1 DEF WInv, QueueInv, Shrinks
  <2>5. Clean => Carried(i)'
    BY <1>1, <2>1 DEF Carried, Waits, Request
  <2>6. DataInv'
    <3> DEFINE C == {i}
    <3>1. C \in SUBSET Nodes /\ (\A n \in C : n = i) /\ DataInv
          /\ \A n \in Nodes \ C : n \in Nodes \ {i}
      BY DEF WInv
    <3> HIDE DEF C
    <3>2. /\ \A n \in Nodes \ C : /\ pc'[n] = pc[n] /\ held'[n] = held[n]
                                  /\ input'[n] = input[n] /\ answer'[n] = answer[n]
          /\ \A n \in C : pc'[n] = "mix" /\ answer'[n] = Silent
          /\ Clean => \A n \in C : Carried(n)'
          /\ Client \notin C
      BY <1>1, <2>1, <2>5, <3>1
    <3> QED BY <1>1, <3>1, <3>2, DataKept
  <2>7. AdoptsItsAnswerUnlessSpoiled'
    BY <1>1 DEF WInv, AdoptsItsAnswerUnlessSpoiled
  <2> QED BY <2>2, <2>3, <2>4, <2>6, <2>7 DEF WInv
<1> QED BY <1>5, <1>6, <1>7, <1>8

(* The answer reaches the node that waits for it, or asks.                 *)
LEMMA Delivers ==
  ASSUME TypeOK, TypeOK', WInv, NEW i \in Nodes \ {Client}, pc[i] = "serve",
         NEW to \in {"recv", "bye"},
         pc'[i] = to, answer'[i - 1] = held[i],
         \/ pc[i - 1] = "ask" /\ pc'[i - 1] = "got"
         \/ Waits(i - 1) /\ pc'[i - 1] = "await",
         \A n \in Nodes \ {i, i - 1} : pc'[n] = pc[n],
         \A n \in Nodes \ {i - 1} : answer'[n] = answer[n],
         \A n \in Nodes \ {i} : held'[n] = held[n],
         UNCHANGED <<input, caller, round, adopted, spoiled, queue>>
  PROVE  WInv'
<1>1. /\ i - 1 \in Nodes /\ i - 1 # Server /\ i - 1 # i /\ i \in Nat
      /\ Busy(i) /\ Busy(i - 1) /\ ~Asking(i) /\ ~Busy(i)' /\ Busy(i - 1)'
      /\ answer[i] = Silent
  BY Constants DEF Busy, Asking, Waits, WInv, DataInv
<1>2. WaveInv'
  <2>1. ASSUME NEW m \in Nodes, NEW j \in Nodes, m < j, ~Asking(m)' PROVE Quiet(j)'
    <3>1. CASE m = i \/ m = i - 1
      <4>1. CASE j = i
        BY <1>1, <4>1 DEF Quiet, WInv, BusyInv
      <4>2. CASE j # i
        <5>1. i < j
          BY <1>1, <2>1, <3>1, <4>2, Constants
        <5>2. Quiet(j) /\ j # i - 1
          BY <1>1, <5>1, Constants DEF WInv, WaveInv
        <5> QED BY <4>2, <5>2 DEF Quiet, Busy
      <4> QED BY <4>1, <4>2
    <3>2. CASE m # i /\ m # i - 1
      <4>1. ~Asking(m)
        BY <2>1, <3>2 DEF Asking, Waits
      <4>2. Quiet(j)
        BY <2>1, <4>1 DEF WInv, WaveInv
      <4>3. j # i /\ j # i - 1
        BY <1>1, <4>2 DEF Quiet
      <4> QED BY <4>2, <4>3 DEF Quiet, Busy
    <3> QED BY <3>1, <3>2
  <2> QED BY <2>1 DEF WaveInv
<1>3. BusyInv'
  <2>1. ASSUME NEW j \in Nodes \ {Client}, Busy(j)' PROVE Busy(j)
    BY <1>1, <2>1 DEF Busy
  <2> QED BY <2>1 DEF WInv, BusyInv
<1>4. QueueInv'
  <2>1. \A g : Fresh(g) <=> Fresh(g)'
    BY DEF Fresh, Clean, Request
  <2> QED BY <2>1 DEF WInv, QueueInv
<1>5. Clean => Carried(i)' /\ Carried(i - 1)'
  <2>1. Clean => held[i] = Answer /\ Answer' = Answer /\ Request' = Request
    BY DEF WInv, DataInv, Carried, Answer, Request
  <2>2. Clean /\ pc[i - 1] = "await" => held[i - 1] = Request
    BY <1>1 DEF WInv, DataInv, Carried
  <2>3. Carried(i)'
    BY DEF Carried, Waits
  <2>4. ASSUME Clean PROVE Carried(i - 1)'
    <3>1. CASE pc'[i - 1] = "got"
      BY <2>1, <2>4, <3>1 DEF Carried, Waits
    <3>2. CASE pc'[i - 1] = "await" /\ pc[i - 1] = "await"
      BY <1>1, <2>1, <2>2, <2>4, <3>2 DEF Carried, Waits
    <3> QED BY <3>1, <3>2 DEF Waits
  <2> QED BY <2>3, <2>4
<1>6. DataInv'
  <2> DEFINE C == {i, i - 1}
  <2>1. C \in SUBSET Nodes /\ (\A n \in C : n = i \/ n = i - 1) /\ DataInv
        /\ \A n \in Nodes \ C : n \in Nodes \ {i, i - 1}
    BY <1>1 DEF WInv
  <2> HIDE DEF C
  <2>2. /\ \A n \in Nodes \ C : /\ pc'[n] = pc[n] /\ held'[n] = held[n]
                                /\ input'[n] = input[n] /\ answer'[n] = answer[n]
        /\ \A n \in C : pc'[n] \notin {"await", "got", "bye", "gone"} => answer'[n] = Silent
        /\ Clean => \A n \in C : Carried(n)'
        /\ (Server \in C => pc'[Server] = to) /\ (Client \in C => Client = i - 1)
        /\ pc'[i - 1] \in {"got", "await"}
    BY <1>1, <1>5, <2>1
  <2> QED BY <2>1, <2>2, DataKept
<1>7. AdoptsItsAnswerUnlessSpoiled'
  BY DEF WInv, AdoptsItsAnswerUnlessSpoiled
<1> QED BY <1>2, <1>3, <1>4, <1>6, <1>7 DEF WInv

LEMMA WaveHandOver == ASSUME TypeOK, TypeOK', WInv, NEW i \in Nodes, HandOver(i) PROVE WInv'
<1>1. /\ i \in Nodes \ {Client} /\ pc[i] = "serve" /\ pc[i - 1] = "ask"
      /\ pc' = [pc EXCEPT ![i - 1] = "got", ![i] = "recv"]
      /\ answer' = [answer EXCEPT ![i - 1] = held[i]]
      /\ \E v : held' = [held EXCEPT ![i] = v]
      /\ UNCHANGED <<input, caller, round, adopted, spoiled, queue>>
  BY DEF HandOver
<1>2. i - 1 \in Nodes /\ i - 1 # i
  BY <1>1, Constants
<1>3. /\ pc'[i - 1] = "got" /\ pc'[i] = "recv" /\ answer'[i - 1] = held[i]
      /\ \A n \in Nodes \ {i, i - 1} : pc'[n] = pc[n]
      /\ \A n \in Nodes \ {i - 1} : answer'[n] = answer[n]
      /\ \A n \in Nodes \ {i} : held'[n] = held[n]
  BY <1>1, <1>2 DEF TypeOK
<1> QED BY <1>1, <1>3, Delivers

LEMMA WaveReply == ASSUME TypeOK, TypeOK', WInv, NEW i \in Nodes, Reply(i) PROVE WInv'
<1> DEFINE there == Waits(i - 1) /\ round = caller[i]
<1>1. /\ i \in Nodes \ {Client} /\ pc[i] = "serve" /\ i - 1 \in Nodes /\ i - 1 # i
      /\ \A n \in Nodes \ {i} : held'[n] = held[n]
      /\ UNCHANGED <<input, caller, round, adopted, spoiled, queue>>
      /\ answer' = IF there THEN [answer EXCEPT ![i - 1] = held[i]] ELSE answer
      /\ Go(i, "recv") \/ Go(i, "bye")
  <2>1. pc[i] = "serve" /\ i # Client /\ UNCHANGED <<input, caller, round, adopted, spoiled, queue>>
    BY DEF Reply, TcpUp
  <2>2. answer' = IF there THEN [answer EXCEPT ![i - 1] = held[i]] ELSE answer
    BY DEF Reply
  <2>3. Go(i, "recv") \/ Go(i, "bye")
    BY DEF Reply, Stop, Fail
  <2>4. held' = [held EXCEPT ![i] = IF i = Server THEN Nothing ELSE held[i]]
    BY DEF Reply
  <2> HIDE DEF there
  <2>5. \A n \in Nodes \ {i} : held'[n] = held[n]
    BY <2>4 DEF TypeOK
  <2>6. i - 1 \in Nodes /\ i - 1 # i
    BY <2>1, Constants
  <2> QED BY <2>1, <2>2, <2>3, <2>5, <2>6
<1>2. CASE there
  <2>1. PICK to \in {"recv", "bye"} : Go(i, to)
    BY <1>1
  <2>2. /\ pc'[i] = to /\ \A n \in Nodes \ {i} : pc'[n] = pc[n]
        /\ answer'[i - 1] = held[i] /\ \A n \in Nodes \ {i - 1} : answer'[n] = answer[n]
    BY <1>1, <1>2, <2>1 DEF Go, TypeOK
  <2>3. Waits(i - 1) /\ pc'[i - 1] = "await"
    BY <1>1, <1>2, <2>2 DEF Waits
  <2> QED BY <1>1, <2>2, <2>3, Delivers
<1>3. CASE ~there
  <2>1. answer' = answer /\ ~Asking(i) /\ Busy(i) /\ answer[i] = Silent
    BY <1>1, <1>3 DEF Asking, Waits, Busy, WInv, DataInv
  <2> HIDE DEF there
  <2>2. CASE Go(i, "recv")
    <3>1. /\ pc' = [pc EXCEPT ![i] = "recv"] /\ "recv" \in Places /\ pc'[i] = "recv"
      BY <2>2 DEF Go, Places, TypeOK
    <3>2. Carried(i)'
      BY <3>1 DEF Carried, Waits
    <3> QED BY <1>1, <2>1, <3>1, <3>2, Steps
  <2>3. CASE Go(i, "bye")
    <3>1. pc' = [pc EXCEPT ![i] = "bye"] /\ "bye" \in Restful
      BY <2>3 DEF Go, Restful
    <3> QED BY <1>1, <2>1, <3>1, Falls, Unchanged
  <2> QED BY <1>1, <2>2, <2>3
<1> QED BY <1>2, <1>3

LEMMA WaveStep == TypeOK /\ TypeOK' /\ WInv /\ [Next]_vars => WInv'
<1> SUFFICES ASSUME TypeOK, TypeOK', WInv, [Next]_vars PROVE WInv'
  OBVIOUS
<1>1. CASE ClientStep
  BY <1>1, WaveProduce, WaveClient DEF ClientStep
<1>2. CASE Mix
  BY <1>2, WaveMix
<1>3. ASSUME NEW i \in Nodes, NodeStep(i) \/ Crash(i) PROVE WInv'
  BY <1>3, WaveMoves, WaveFalls, WaveForward, WaveReturn, WaveSendTcp, WaveSendHeard,
     WaveAccept, WaveHandOver, WaveReply DEF NodeStep
<1>4. CASE UNCHANGED vars
  <2>1. UNCHANGED <<pc, queue, caller, input, held, answer, round, adopted, spoiled>>
    BY <1>4 DEF vars, nodeVars, dataVars
  <2>2. \A n : (Asking(n)' <=> Asking(n)) /\ (Waits(n)' <=> Waits(n))
    BY <2>1 DEF Asking, Waits
  <2>3. WaveInv' /\ BusyInv'
    BY <2>1, <2>2 DEF WInv, WaveInv, BusyInv, Quiet, Busy
  <2>4. QueueInv'
    BY <2>1 DEF WInv, QueueInv, Fresh, Clean, Request
  <2>5. DataInv'
    BY <2>1, <2>2 DEF WInv, DataInv, Carried, Clean, Request, Answer
  <2>6. AdoptsItsAnswerUnlessSpoiled'
    BY <2>1 DEF WInv, AdoptsItsAnswerUnlessSpoiled
  <2> QED BY <2>3, <2>4, <2>5, <2>6 DEF WInv
<1> QED BY <1>1, <1>2, <1>3, <1>4 DEF Next

(* Whatever the length of the chain, its media and the failures on it: in  *)
(* a round that no payload was lost in, the client adopts the server's     *)
(* answer to its own request of that round.                                *)
THEOREM AdoptsOwnAnswer == Spec => []AdoptsItsAnswerUnlessSpoiled
<1>1. Init => WInv
  BY Constants DEF Init, WInv, WaveInv, BusyInv, QueueInv, DataInv, Quiet, Busy, NoModel, Single,
         Carried, Asking, Waits, AdoptsItsAnswerUnlessSpoiled
<1>2. WInv => AdoptsItsAnswerUnlessSpoiled
  BY DEF WInv
<1> QED BY <1>1, <1>2, WaveStep, Typing, PTL DEF Spec
=============================================================================
