--------------------------- MODULE TcpStarProofs ---------------------------
(***************************************************************************)
(* Proofs about the two stars of a server and its clients: the hub of      *)
(* TcpStar, and from FInv on the federated programs (FederatedRounds).     *)
(*                                                                         *)
(* TcpStar, for any number of clients and steps.  Three lines              *)
(* of argument share the type invariant: what the hub answers (a mix stays *)
(* the mix of everybody still to be answered in the round), whom the hub   *)
(* may forget (only a client whose goodbye it has read, and a goodbye is   *)
(* the last thing a client does), and whom a round counts (one payload     *)
(* from each of its live clients).                                         *)
(***************************************************************************)
EXTENDS TcpStar, FederatedRounds, FiniteSetTheorems, TLAPS

(* Between two steps a client holds no answer.                             *)
NothingLeftOver == \A k \in Clients : phase[k] = "work" => reply[k] = NoReply

(* The hub has an answer to everybody it still has to answer, averaging    *)
(* what could be used of the round.                                        *)
OwedAreMixed ==
  hub = "answer" /\ mix # Empty => /\ mix.of = mix.to \ unusable
                                  /\ \A i \in 1..Len(waiting) : waiting[i] \in mix.to

(* A goodbye in the listen queue was the last act of its sender.           *)
GoodbyesAreLast ==
  \A i \in 1..Len(queue) :
    queue[i].kind = "bye" => phase[queue[i].src] = "gone" /\ told[queue[i].src]

(* Whoever is no longer live has said goodbye.                             *)
ForgottenHaveLeft ==
  \A k \in Clients : k \notin live => phase[k] = "gone" /\ told[k]

ClosedWithNobody == hub = "closed" => live = {}

AInv == TypeOK /\ AnswerIsOfMyRound /\ NothingLeftOver /\ OwedAreMixed
HInv == TypeOK /\ GoodbyesAreLast /\ ForgottenHaveLeft /\ ClosedWithNobody

-----------------------------------------------------------------------------
(* The listen queue stays a sequence of frames.                            *)
LEMMA PerhapsCutType ==
  ASSUME TypeOK, NEW k \in Clients, PerhapsCut(k)
  PROVE  queue' \in Seq(Frame)
<1>1. CASE UNCHANGED queue
  BY <1>1 DEF TypeOK
<1>2. ASSUME NEW i \in DOMAIN queue, queue[i].src = k,
             queue' = [queue EXCEPT ![i].kind = "cut"]
      PROVE  queue' \in Seq(Frame)
  <2>1. queue[i] \in Frame /\ i \in 1..Len(queue)
    BY DEF TypeOK
  <2>2. [queue[i] EXCEPT !.kind = "cut"] \in Frame
    BY <2>1 DEF Frame
  <2>3. queue' = [queue EXCEPT ![i] = [queue[i] EXCEPT !.kind = "cut"]]
    BY <1>2
  <2> QED BY <2>1, <2>2, <2>3 DEF TypeOK
<1> QED BY <1>1, <1>2 DEF PerhapsCut

(* While the hub collects there is room for one more payload.              *)
LEMMA RoomToCollect ==
  ASSUME TypeOK, Collecting
  PROVE  Len(waiting) + 1 <= Cardinality(Clients)
<1>1. /\ Cardinality(live) <= Cardinality(Clients)
      /\ Cardinality(live) \in Nat /\ Cardinality(Clients) \in Nat
  BY TcpStarAssumption, FS_Subset, FS_CardinalityType DEF TypeOK
<1> QED BY <1>1 DEF TypeOK, Collecting

LEMMA TypeInit == Init => TypeOK
<1> SUFFICES ASSUME Init PROVE TypeOK
  OBVIOUS
<1>1. Cardinality(Clients) \in Nat
  BY TcpStarAssumption, FS_CardinalityType
<1>2. steps \in [Clients -> Nat] /\ unusable \subseteq Payload
  BY TcpStarAssumption DEF Init, Payload
<1>3. queue \in Seq(Frame) /\ waiting \in Seq(Payload) /\ Len(waiting) = 0
  BY DEF Init
<1> QED BY <1>1, <1>2, <1>3 DEF Init, TypeOK, NoReply, Empty, Answer

LEMMA TypeStep == TypeOK /\ [Next]_vars => TypeOK'
<1> SUFFICES ASSUME TypeOK, [Next]_vars PROVE TypeOK'
  OBVIOUS
<1> USE DEF given, clientVars, hubVars, vars
<1>1. ASSUME NEW k \in Clients, Submit(k) PROVE TypeOK'
  <2>1. [kind |-> "model", src |-> k, step |-> round[k] + 1] \in Frame
    BY DEF TypeOK, Frame
  <2>2. queue' \in Seq(Frame)
    BY <1>1, <2>1 DEF TypeOK, Submit
  <2> QED BY <1>1, <2>2 DEF TypeOK, Submit
<1>2. ASSUME NEW k \in Clients, Consume(k) PROVE TypeOK'
  BY <1>2 DEF TypeOK, Consume, NoReply
<1>3. ASSUME NEW k \in Clients, Retire(k) PROVE TypeOK'
  BY <1>3 DEF TypeOK, Retire
<1>4. ASSUME NEW k \in Clients, NoHub(k) PROVE TypeOK'
  BY <1>4 DEF TypeOK, NoHub
<1>5. ASSUME NEW k \in Clients, NoAnswer(k) PROVE TypeOK'
  <2>1. queue' \in Seq(Frame)
    BY <1>5, PerhapsCutType DEF NoAnswer
  <2>2. late' \subseteq Clients
    BY <1>5 DEF TypeOK, NoAnswer
  <2> QED BY <1>5, <2>1, <2>2 DEF TypeOK, NoAnswer
<1>6. ASSUME NEW k \in Clients, Leave(k) PROVE TypeOK'
  <2>1. [kind |-> "bye", src |-> k, step |-> round[k]] \in Frame
    BY DEF TypeOK, Frame
  <2>2. queue' \in Seq(Frame)
    <3>1. CASE HubUp
      <4>1. queue' = Append(queue, [kind |-> "bye", src |-> k, step |-> round[k]])
        BY <1>6, <3>1 DEF Leave, Bye
      <4> QED BY <2>1, <4>1 DEF TypeOK
    <3>2. CASE ~HubUp
      BY <1>6, <3>2 DEF TypeOK, Leave
    <3> QED BY <3>1, <3>2
  <2>3. told' \in [Clients -> BOOLEAN]
    BY <1>6 DEF TypeOK, Leave
  <2> QED BY <1>6, <2>2, <2>3 DEF TypeOK, Leave
<1>7. ASSUME NEW k \in Clients, Crash(k) PROVE TypeOK'
  <2>1. queue' \in Seq(Frame)
    BY <1>7, PerhapsCutType DEF Crash
  <2> QED BY <1>7, <2>1 DEF TypeOK, Crash
<1>8. CASE HubStart
  BY <1>8 DEF TypeOK, HubStart
<1>9. CASE HubAccept
  <2>1. queue' \in Seq(Frame) /\ Head(queue) \in Frame
    BY <1>9 DEF TypeOK, HubAccept
  <2>2. live' \subseteq Clients
    BY <1>9 DEF TypeOK, HubAccept, CutOff, Forget
  <2>3. waiting' \in Seq(Payload) /\ Len(waiting') <= Cardinality(Clients)
    <3>1. CASE UNCHANGED waiting
      BY <3>1 DEF TypeOK
    <3>2. CASE waiting' = Append(waiting, <<Head(queue).src, Head(queue).step>>)
      <4>1. <<Head(queue).src, Head(queue).step>> \in Payload
        BY <2>1 DEF Frame, Payload
      <4>2. Len(waiting') = Len(waiting) + 1
        BY <3>2 DEF TypeOK
      <4> QED BY <1>9, <3>2, <4>1, <4>2, RoomToCollect DEF TypeOK, HubAccept
    <3> QED BY <1>9, <3>1, <3>2 DEF HubAccept
  <2> QED BY <1>9, <2>1, <2>2, <2>3 DEF TypeOK, HubAccept
<1>10. CASE HubTimeout
  BY <1>10 DEF TypeOK, HubTimeout
<1>11. CASE HubMix
  <2>1. Collection \subseteq Payload /\ Mixed \subseteq Payload
    BY DEF TypeOK, Mixed, Collection
  <2>2. [of |-> Mixed, to |-> Collection] \in Answer /\ Empty \in Answer
    BY <2>1 DEF Answer, Empty
  <2>3. mix' \in Answer
    BY <1>11, <2>2 DEF TypeOK, HubMix
  <2> QED BY <1>11, <2>3 DEF TypeOK, HubMix
<1>12. CASE HubAnswer
  <2>1. waiting' \in Seq(Payload) /\ Len(waiting') <= Len(waiting)
    BY <1>12 DEF TypeOK, HubAnswer
  <2>2. Cardinality(Clients) \in Nat
    BY TcpStarAssumption, FS_CardinalityType
  <2>3. reply' \in [Clients -> SUBSET Answer]
    <3>1. Head(waiting) \in Payload
      BY <1>12 DEF TypeOK, HubAnswer
    <3>2. Head(waiting)[1] \in Clients
      BY <3>1 DEF Payload
    <3>3. {mix} \in SUBSET Answer
      BY DEF TypeOK
    <3>4. PICK a \in SUBSET Answer :
            reply' = [reply EXCEPT ![Head(waiting)[1]] = a]
      <4>1. CASE /\ phase[Head(waiting)[1]] = "wait"
                 /\ round[Head(waiting)[1]] = Head(waiting)[2]
        BY <1>12, <3>3, <4>1 DEF HubAnswer
      <4>2. CASE ~ (/\ phase[Head(waiting)[1]] = "wait"
                    /\ round[Head(waiting)[1]] = Head(waiting)[2])
        <5>1. reply[Head(waiting)[1]] \in SUBSET Answer
          BY <3>2 DEF TypeOK
        <5>2. reply' = [reply EXCEPT ![Head(waiting)[1]] = reply[Head(waiting)[1]]]
          BY <1>12, <4>2 DEF HubAnswer
        <5> QED BY <5>1, <5>2
      <4> QED BY <4>1, <4>2
    <3> QED BY <3>2, <3>4 DEF TypeOK
  <2> QED BY <1>12, <2>1, <2>2, <2>3 DEF TypeOK, HubAnswer
<1>13. CASE HubNext
  BY <1>13 DEF TypeOK, HubNext, Empty, Answer
<1>14. CASE UNCHANGED vars
  BY <1>14 DEF TypeOK
<1> QED
  BY <1>1, <1>2, <1>3, <1>4, <1>5, <1>6, <1>7, <1>8, <1>9, <1>10, <1>11, <1>12,
     <1>13, <1>14 DEF Next, ClientProgress, HubProgress

(* Clients and hub stay well typed for any number of clients; in           *)
(* particular no round collects more payloads than there are clients.      *)
THEOREM Typing == Spec => []TypeOK
  BY TypeInit, TypeStep, PTL DEF Spec
-----------------------------------------------------------------------------
(* What the hub answers.  Only five actions touch what AInv relates: the   *)
(* beginning and the end of a client's wait, the mix, the answer, and the  *)
(* end of the round.                                                       *)
LEMMA AnswerInit == Init => AInv
  BY TypeInit DEF Init, AInv, AnswerIsOfMyRound, NothingLeftOver, OwedAreMixed, NoReply

(* Steps that leave the hub alone, and rounds and answers, keep AInv.      *)
LEMMA AnswerFrame ==
  ASSUME AInv, TypeOK', UNCHANGED <<given, hub, waiting, mix, reply, round>>,
         \A k \in Clients : phase'[k] = "work" => phase[k] = "work"
  PROVE  AInv'
  BY DEF given, AInv, AnswerIsOfMyRound, NothingLeftOver, OwedAreMixed

LEMMA AnswerStep == AInv /\ [Next]_vars => AInv'
<1> SUFFICES ASSUME AInv, [Next]_vars PROVE AInv'
  OBVIOUS
<1> USE DEF given, clientVars, hubVars, vars
<1>t. TypeOK /\ TypeOK'
  BY TypeStep DEF AInv
<1>1. ASSUME NEW k \in Clients, Submit(k) PROVE AInv'
  <2>1. reply[k] = NoReply
    BY <1>1 DEF AInv, NothingLeftOver, Submit
  <2>2. \A j \in Clients : j # k => round'[j] = round[j]
    BY <1>1, <1>t DEF TypeOK, Submit
  <2>3. AnswerIsOfMyRound'
    BY <1>1, <2>1, <2>2 DEF AInv, AnswerIsOfMyRound, NoReply, Submit
  <2>4. NothingLeftOver'
    BY <1>1, <1>t DEF TypeOK, AInv, NothingLeftOver, Submit
  <2>5. OwedAreMixed'
    BY <1>1 DEF AInv, OwedAreMixed, Submit
  <2> QED BY <1>t, <2>3, <2>4, <2>5 DEF AInv
<1>2. ASSUME NEW k \in Clients, Consume(k) PROVE AInv'
  <2>1. \A j \in Clients : /\ reply'[j] = IF j = k THEN NoReply ELSE reply[j]
                           /\ j # k => phase'[j] = phase[j]
    BY <1>2, <1>t DEF TypeOK, Consume
  <2>2. AnswerIsOfMyRound'
    BY <1>2, <2>1 DEF AInv, AnswerIsOfMyRound, NoReply, Consume
  <2>3. NothingLeftOver'
    BY <1>2, <2>1 DEF AInv, NothingLeftOver
  <2>4. OwedAreMixed'
    BY <1>2 DEF AInv, OwedAreMixed, Consume
  <2> QED BY <1>t, <2>2, <2>3, <2>4 DEF AInv
<1>3. ASSUME NEW k \in Clients, Retire(k) \/ NoHub(k) PROVE AInv'
  BY <1>3, <1>t, AnswerFrame DEF TypeOK, Retire, NoHub
<1>4. ASSUME NEW k \in Clients, NoAnswer(k) PROVE AInv'
  BY <1>4, <1>t, AnswerFrame DEF TypeOK, NoAnswer
<1>5. ASSUME NEW k \in Clients, Leave(k) PROVE AInv'
  BY <1>5, <1>t, AnswerFrame DEF TypeOK, Leave
<1>6. ASSUME NEW k \in Clients, Crash(k) PROVE AInv'
  BY <1>6, <1>t, AnswerFrame DEF TypeOK, Crash
<1>7. CASE HubStart \/ HubAccept \/ HubTimeout
  <2>1. hub' # "answer" /\ UNCHANGED <<unusable, reply, round, phase>>
    BY <1>7 DEF HubStart, HubAccept, HubTimeout
  <2> QED BY <1>t, <2>1 DEF AInv, AnswerIsOfMyRound, NothingLeftOver, OwedAreMixed
<1>8. CASE HubMix
  <2>1. UNCHANGED <<unusable, reply, round, phase, waiting>>
    BY <1>8 DEF HubMix
  <2>2. OwedAreMixed'
    <3>1. \A i \in 1..Len(waiting) : waiting[i] \in Collection
      <4>1. waiting \in Seq(Payload)
        BY <1>t DEF TypeOK
      <4>2. DOMAIN waiting = 1..Len(waiting)
        BY <4>1
      <4> QED BY <4>2 DEF Collection
    <3>2. Mixed = Collection \ unusable
      BY DEF Mixed
    <3> QED BY <1>8, <2>1, <3>1, <3>2 DEF HubMix, OwedAreMixed
  <2> QED BY <1>t, <2>1, <2>2 DEF AInv, AnswerIsOfMyRound, NothingLeftOver
<1>9. CASE HubAnswer
  <2> DEFINE k == Head(waiting)[1]
             waits == phase[k] = "wait" /\ round[k] = Head(waiting)[2]
  <2>1. /\ waiting \in Seq(Payload) /\ waiting # <<>> /\ hub = "answer"
        /\ UNCHANGED <<unusable, hub, mix, phase, round>>
        /\ waiting' = Tail(waiting)
    BY <1>9, <1>t DEF TypeOK, HubAnswer
  <2>2. /\ Head(waiting) = waiting[1] /\ 1 \in 1..Len(waiting)
        /\ Head(waiting) \in Payload
    BY <2>1
  <2>3. k \in Clients /\ Head(waiting) = <<k, Head(waiting)[2]>>
    BY <2>2 DEF Payload
  <2>4. OwedAreMixed'
    <3>1. \A i \in 1..Len(Tail(waiting)) :
            i + 1 \in 1..Len(waiting) /\ Tail(waiting)[i] = waiting[i + 1]
      BY <2>1
    <3> QED BY <2>1, <3>1 DEF AInv, OwedAreMixed
  <2>5. mix # Empty => /\ <<k, Head(waiting)[2]>> \in mix.to
                       /\ mix.of = mix.to \ unusable
    BY <2>1, <2>2, <2>3 DEF AInv, OwedAreMixed
  <2>6. CASE waits
    <3>1. reply' = [reply EXCEPT ![k] = {mix}]
      BY <1>9, <2>6 DEF HubAnswer
    <3>2. reply \in [Clients -> SUBSET Answer]
      BY <1>t DEF TypeOK
    <3>3. \A j \in Clients : reply'[j] = IF j = k THEN {mix} ELSE reply[j]
      BY <2>3, <3>1, <3>2
    <3>4. AnswerIsOfMyRound'
      BY <2>1, <2>5, <2>6, <3>3 DEF AInv, AnswerIsOfMyRound
    <3>5. NothingLeftOver'
      BY <2>1, <2>6, <3>3 DEF AInv, NothingLeftOver
    <3> QED BY <1>t, <2>4, <3>4, <3>5 DEF AInv
  <2>7. CASE ~waits
    <3>1. reply' = [reply EXCEPT ![k] = reply[k]]
      BY <1>9, <2>7 DEF HubAnswer
    <3>2. reply' = reply
      BY <1>t, <3>1 DEF TypeOK
    <3> QED BY <1>t, <2>1, <2>4, <3>2 DEF AInv, AnswerIsOfMyRound, NothingLeftOver
  <2> QED BY <2>6, <2>7
<1>10. CASE HubNext
  <2>1. hub' # "answer" /\ UNCHANGED <<unusable, reply, round, phase>>
    BY <1>10 DEF HubNext
  <2> QED BY <1>t, <2>1 DEF AInv, AnswerIsOfMyRound, NothingLeftOver, OwedAreMixed
<1>11. CASE UNCHANGED vars
  BY <1>11, <1>t, AnswerFrame
<1> QED
  BY <1>1, <1>2, <1>3, <1>4, <1>5, <1>6, <1>7, <1>8, <1>9, <1>10, <1>11
     DEF Next, ClientProgress, HubProgress

(* An answer with a model in it answers the payload its receiver sent in   *)
(* the very step in which it waits for it, and averages all the payloads   *)
(* of that round that could be used and no other (TcpStar.step, both       *)
(* roles): however many clients, whatever times out, is killed or spoilt.  *)
THEOREM AnswersMatchRounds == Spec => []AnswerIsOfMyRound
<1>1. AInv => AnswerIsOfMyRound
  BY DEF AInv
<1> QED BY <1>1, AnswerInit, AnswerStep, PTL DEF Spec

-----------------------------------------------------------------------------
(* Whom the hub may forget.                                                *)
LEMMA LeaveInit == Init => HInv
  BY TypeInit DEF Init, HInv, GoodbyesAreLast, ForgottenHaveLeft, ClosedWithNobody

(* A cut payload is no goodbye.                                            *)
LEMMA PerhapsCutByes ==
  ASSUME TypeOK, NEW k \in Clients, PerhapsCut(k)
  PROVE  /\ Len(queue') = Len(queue)
         /\ \A i \in 1..Len(queue') :
              queue'[i].kind = "bye" => queue[i].kind = "bye" /\ queue'[i].src = queue[i].src
<1>1. CASE UNCHANGED queue
  BY <1>1
<1>2. ASSUME NEW i \in DOMAIN queue, queue[i].src = k,
             queue' = [queue EXCEPT ![i].kind = "cut"]
      PROVE  /\ Len(queue') = Len(queue)
             /\ \A n \in 1..Len(queue') :
                  queue'[n].kind = "bye" => queue[n].kind = "bye" /\ queue'[n].src = queue[n].src
  <2>1. queue \in Seq(Frame) /\ i \in 1..Len(queue) /\ queue[i] \in Frame
    BY DEF TypeOK
  <2>2. queue' = [queue EXCEPT ![i] = [queue[i] EXCEPT !.kind = "cut"]]
    BY <1>2
  <2>3. [queue[i] EXCEPT !.kind = "cut"].kind = "cut"
    BY <2>1 DEF Frame
  <2>4. Len(queue') = Len(queue)
    BY <2>1, <2>2
  <2>5. \A n \in 1..Len(queue) : n # i => queue'[n] = queue[n]
    BY <2>1, <2>2
  <2>6. queue'[i].kind = "cut"
    BY <2>1, <2>2, <2>3
  <2> QED BY <2>4, <2>5, <2>6
<1> QED BY <1>1, <1>2 DEF PerhapsCut

(* Whoever has left stays gone, and what it has told stays told: a step in *)
(* which the queue gains no goodbye and nobody is forgotten keeps HInv.    *)
LEMMA LeaveFrame ==
  ASSUME HInv, TypeOK', live' = live, hub' = "closed" => live = {},
         \A k \in Clients : phase[k] = "gone" /\ told[k] => phase'[k] = "gone" /\ told'[k],
         Len(queue') = Len(queue),
         \A i \in 1..Len(queue') :
           queue'[i].kind = "bye" => queue[i].kind = "bye" /\ queue'[i].src = queue[i].src
  PROVE  HInv'
<1>1. \A i \in 1..Len(queue) : queue[i].src \in Clients
  <2>1. queue \in Seq(Frame)
    BY DEF HInv, TypeOK
  <2>2. \A i \in 1..Len(queue) : queue[i] \in Frame
    BY <2>1
  <2> QED BY <2>2 DEF Frame
<1>2. GoodbyesAreLast'
  BY <1>1 DEF HInv, GoodbyesAreLast
<1>3. ForgottenHaveLeft' /\ ClosedWithNobody'
  BY DEF HInv, ForgottenHaveLeft, ClosedWithNobody
<1> QED BY <1>2, <1>3 DEF HInv

(* The queue gains a frame that is no goodbye, or that of a client gone.   *)
LEMMA LeaveAppend ==
  ASSUME HInv, TypeOK', UNCHANGED <<hub, live>>,
         \A k \in Clients : phase[k] = "gone" /\ told[k] => phase'[k] = "gone" /\ told'[k],
         NEW f \in Frame, queue' = Append(queue, f),
         f.kind = "bye" => phase'[f.src] = "gone" /\ told'[f.src]
  PROVE  HInv'
<1>1. queue \in Seq(Frame)
  BY DEF HInv, TypeOK
<1>2. \A i \in 1..Len(queue) : queue[i].src \in Clients
  <2>1. \A i \in 1..Len(queue) : queue[i] \in Frame
    BY <1>1
  <2> QED BY <2>1 DEF Frame
<1>3. \A i \in 1..Len(queue') :
        IF i = Len(queue) + 1 THEN queue'[i] = f
                              ELSE i \in 1..Len(queue) /\ queue'[i] = queue[i]
  BY <1>1
<1>4. GoodbyesAreLast'
  BY <1>2, <1>3 DEF HInv, GoodbyesAreLast
<1>5. ForgottenHaveLeft' /\ ClosedWithNobody'
  BY DEF HInv, ForgottenHaveLeft, ClosedWithNobody
<1> QED BY <1>4, <1>5 DEF HInv

LEMMA LeaveStep == HInv /\ [Next]_vars => HInv'
<1> SUFFICES ASSUME HInv, [Next]_vars PROVE HInv'
  OBVIOUS
<1> USE DEF clientVars, hubVars, vars
<1>t. TypeOK /\ TypeOK'
  BY TypeStep DEF HInv
<1>c. hub = "closed" => live = {}
  BY DEF HInv, ClosedWithNobody
<1>1. ASSUME NEW k \in Clients, Submit(k) PROVE HInv'
  <2> DEFINE f == [kind |-> "model", src |-> k, step |-> round[k] + 1]
  <2>1. f \in Frame /\ f.kind # "bye" /\ queue' = Append(queue, f)
    BY <1>1, <1>t DEF TypeOK, Frame, Submit
  <2>2. UNCHANGED <<hub, live, told>>
    BY <1>1 DEF Submit
  <2>3. \A j \in Clients : phase[j] = "gone" => phase'[j] = "gone"
    BY <1>1, <1>t DEF TypeOK, Submit
  <2> HIDE DEF f
  <2> QED BY <1>t, <2>1, <2>2, <2>3, LeaveAppend
<1>2. ASSUME NEW k \in Clients, Consume(k) \/ Retire(k) \/ NoHub(k) PROVE HInv'
  <2>1. UNCHANGED <<hub, live, told, queue>>
    BY <1>2 DEF Consume, Retire, NoHub
  <2>2. \A j \in Clients : phase[j] = "gone" => phase'[j] = "gone"
    BY <1>2, <1>t DEF TypeOK, Consume, Retire, NoHub
  <2> QED BY <1>t, <1>c, <2>1, <2>2, LeaveFrame
<1>3. ASSUME NEW k \in Clients, NoAnswer(k) \/ Crash(k) PROVE HInv'
  <2>1. UNCHANGED <<hub, live, told>> /\ PerhapsCut(k)
    BY <1>3 DEF NoAnswer, Crash
  <2>2. \A j \in Clients : phase[j] = "gone" => phase'[j] = "gone"
    BY <1>3, <1>t DEF TypeOK, NoAnswer, Crash
  <2>3. /\ Len(queue') = Len(queue)
        /\ \A i \in 1..Len(queue') :
             queue'[i].kind = "bye" => queue[i].kind = "bye" /\ queue'[i].src = queue[i].src
    BY <1>t, <2>1, PerhapsCutByes
  <2> QED BY <1>t, <1>c, <2>1, <2>2, <2>3, LeaveFrame
<1>4. ASSUME NEW k \in Clients, Leave(k) PROVE HInv'
  <2> DEFINE f == [kind |-> "bye", src |-> k, step |-> round[k]]
  <2>1. UNCHANGED <<hub, live>>
    BY <1>4 DEF Leave
  <2>2. \A j \in Clients : phase[j] = "gone" /\ told[j] => phase'[j] = "gone" /\ told'[j]
    BY <1>4, <1>t DEF TypeOK, Leave
  <2>3. CASE HubUp
    <3>1. f \in Frame /\ f.src = k /\ queue' = Append(queue, f)
      BY <1>4, <1>t, <2>3 DEF TypeOK, Frame, Leave, Bye
    <3>2. phase'[k] = "gone" /\ told'[k]
      BY <1>4, <1>t, <2>3 DEF TypeOK, Leave
    <3> HIDE DEF f
    <3> QED BY <1>t, <2>1, <2>2, <3>1, <3>2, LeaveAppend
  <2>4. CASE ~HubUp
    <3>1. UNCHANGED queue
      BY <1>4, <2>4 DEF Leave
    <3> QED BY <1>t, <1>c, <2>1, <2>2, <3>1, LeaveFrame
  <2> QED BY <2>3, <2>4
<1>5. CASE HubStart \/ HubTimeout \/ HubAnswer \/ HubNext
  <2>1. UNCHANGED <<live, queue, phase, told>> /\ hub' # "closed"
    BY <1>5 DEF HubStart, HubTimeout, HubAnswer, HubNext
  <2> QED BY <1>t, <2>1, LeaveFrame
<1>6. CASE HubAccept
  <2>1. /\ queue \in Seq(Frame) /\ queue # <<>> /\ queue' = Tail(queue)
        /\ UNCHANGED <<phase, told, hub>> /\ hub = "collect"
    BY <1>6, <1>t DEF TypeOK, HubAccept
  <2>2. GoodbyesAreLast'
    <3>1. \A i \in 1..Len(Tail(queue)) :
            i + 1 \in 1..Len(queue) /\ Tail(queue)[i] = queue[i + 1]
      BY <2>1
    <3> QED BY <2>1, <3>1 DEF HInv, GoodbyesAreLast
  <2>3. Head(queue) = queue[1] /\ 1 \in 1..Len(queue)
    BY <2>1
  <2>4. live' = live \/ (Head(queue).kind = "bye" /\ live' = live \ {Head(queue).src})
    BY <1>6 DEF HubAccept, CutOff, Forget
  <2>5. ForgottenHaveLeft'
    BY <2>1, <2>3, <2>4 DEF HInv, GoodbyesAreLast, ForgottenHaveLeft
  <2>6. ClosedWithNobody'
    BY <2>1 DEF ClosedWithNobody
  <2> QED BY <1>t, <2>2, <2>5, <2>6 DEF HInv
<1>7. CASE HubMix
  <2>1. UNCHANGED <<live, queue, phase, told>>
    BY <1>7 DEF HubMix
  <2>2. hub' = "closed" => live = {}
    <3> SUFFICES ASSUME hub' = "closed", live # {} PROVE FALSE
      OBVIOUS
    <3>1. IsFiniteSet(live) /\ Cardinality(live) \in Nat
      BY <1>t, TcpStarAssumption, FS_Subset, FS_CardinalityType DEF TypeOK
    <3>2. Cardinality(live) # 0
      BY <3>1, FS_EmptySet
    <3>3. Len(waiting) = 0 /\ ~(Len(waiting) < Cardinality(live))
      BY <1>7 DEF HubMix, Collecting
    <3> QED BY <3>1, <3>2, <3>3
  <2> QED BY <1>t, <2>1, <2>2, LeaveFrame
<1>8. CASE UNCHANGED vars
  BY <1>8, <1>t, <1>c, LeaveFrame
<1> QED
  BY <1>1, <1>2, <1>3, <1>4, <1>5, <1>6, <1>7, <1>8
     DEF Next, ClientProgress, HubProgress

(* The hub ends its run only when every client has ended its own and has   *)
(* said so (TcpStar.step rx, close): no broken connection, late client or  *)
(* empty round makes it leave anybody behind.                              *)
THEOREM HubStaysForEveryone == Spec => []HubOutlivesClients
<1>1. HInv => HubOutlivesClients
  BY DEF HInv, ForgottenHaveLeft, ClosedWithNobody, HubOutlivesClients
<1> QED BY <1>1, LeaveInit, LeaveStep, PTL DEF Spec

-----------------------------------------------------------------------------
(* Who is in the mix.  A payload is pending from the step that sends it    *)
(* until the hub answers it; a client has at most one.                     *)
Asks(k) == \E i \in 1..Len(queue) : queue[i].kind = "model" /\ queue[i].src = k
Counted(k) == \E i \in 1..Len(waiting) : waiting[i][1] = k
Pending(k) == Asks(k) \/ Counted(k)

OneAsked ==
  \A i, j \in 1..Len(queue) :
    queue[i].kind = "model" /\ queue[j].kind = "model" /\ queue[i].src = queue[j].src
      => i = j
OneCounted ==
  \A i, j \in 1..Len(waiting) : waiting[i][1] = waiting[j][1] => i = j
NotBoth == \A k \in Clients : ~(Asks(k) /\ Counted(k))

(* A client with a pending payload is in that step, or through.            *)
PendingIsOpen ==
  \A k \in Clients :
    Pending(k) => phase[k] # "work" /\ (phase[k] = "wait" => reply[k] = NoReply)

(* If nobody gave up, it is still waiting, or was killed.                  *)
PendingInTime ==
  late = {} /\ HubUp => \A k \in Clients : Pending(k) => phase[k] # "bye" /\ ~told[k]

ToldIsGone == \A k \in Clients : told[k] => phase[k] = "gone"
DownIsIdle == hub = "down" => queue = <<>> /\ waiting = <<>>

RInv == /\ AInv /\ HInv /\ OneAsked /\ OneCounted /\ NotBoth /\ PendingIsOpen
        /\ PendingInTime /\ ToldIsGone /\ DownIsIdle /\ FullRoundUnlessLate

LEMMA RoundInit == Init => RInv
<1> SUFFICES ASSUME Init PROVE RInv
  OBVIOUS
<1>1. queue = <<>> /\ waiting = <<>> /\ Len(queue) = 0 /\ Len(waiting) = 0
  BY DEF Init
<1>2. \A k \in Clients : ~Pending(k)
  BY <1>1 DEF Pending, Asks, Counted
<1>3. OneAsked /\ OneCounted /\ NotBoth
  BY <1>1 DEF OneAsked, OneCounted, NotBoth, Asks, Counted
<1>4. PendingIsOpen /\ PendingInTime
  BY <1>2 DEF PendingIsOpen, PendingInTime
<1> QED
  BY <1>1, <1>3, <1>4, AnswerInit, LeaveInit
     DEF Init, RInv, ToldIsGone, DownIsIdle, FullRoundUnlessLate, Empty

(* A payload may be cut, none is added.                                    *)
LEMMA PerhapsCutModels ==
  ASSUME TypeOK, NEW k \in Clients, PerhapsCut(k)
  PROVE  /\ Len(queue') = Len(queue)
         /\ \A i \in 1..Len(queue) :
              queue'[i].kind = "model" => queue[i].kind = "model" /\ queue'[i].src = queue[i].src
<1>1. CASE UNCHANGED queue
  BY <1>1
<1>2. ASSUME NEW i \in DOMAIN queue, queue[i].src = k,
             queue' = [queue EXCEPT ![i].kind = "cut"]
      PROVE  /\ Len(queue') = Len(queue)
             /\ \A n \in 1..Len(queue) :
                  queue'[n].kind = "model" => queue[n].kind = "model" /\ queue'[n].src = queue[n].src
  <2>1. queue \in Seq(Frame) /\ i \in 1..Len(queue) /\ queue[i] \in Frame
    BY DEF TypeOK
  <2>2. queue' = [queue EXCEPT ![i] = [queue[i] EXCEPT !.kind = "cut"]]
    BY <1>2
  <2>3. [queue[i] EXCEPT !.kind = "cut"].kind = "cut"
    BY <2>1 DEF Frame
  <2>4. Len(queue') = Len(queue)
    BY <2>1, <2>2
  <2>5. \A n \in 1..Len(queue) : n # i => queue'[n] = queue[n]
    BY <2>1, <2>2
  <2>6. queue'[i].kind = "cut"
    BY <2>1, <2>2, <2>3
  <2> QED BY <2>4, <2>5, <2>6
<1> QED BY <1>1, <1>2 DEF PerhapsCut

(* A step that makes nothing pending keeps one payload each.               *)
LEMMA OneEachFrame ==
  ASSUME TypeOK, OneAsked, OneCounted, NotBoth, UNCHANGED waiting, Len(queue') = Len(queue),
         \A i \in 1..Len(queue) :
           queue'[i].kind = "model" => queue[i].kind = "model" /\ queue'[i].src = queue[i].src
  PROVE  /\ OneAsked' /\ OneCounted' /\ NotBoth'
         /\ \A k \in Clients : Pending(k)' => Pending(k)
<1>1. OneAsked' /\ OneCounted'
  BY DEF OneAsked, OneCounted
<1>2. \A k \in Clients : (Asks(k)' => Asks(k)) /\ (Counted(k)' <=> Counted(k))
  BY DEF Asks, Counted
<1> QED BY <1>1, <1>2 DEF NotBoth, Pending

(* The mix and whom it is compared with stay as they are.                  *)
LEMMA SameRound ==
  ASSUME FullRoundUnlessLate, UNCHANGED <<given, hub, mix, live>>, late \subseteq late'
  PROVE  FullRoundUnlessLate'
BY DEF given, FullRoundUnlessLate

(* One payload each from no fewer than are live: one from everybody live.  *)
LEMMA EveryoneCounted ==
  ASSUME TypeOK, OneCounted, ~Collecting, \A k \in Clients : Counted(k) => k \in live
  PROVE  \A k \in live : Counted(k)
<1>1. /\ waiting \in Seq(Payload) /\ Len(waiting) \in Nat
      /\ \A i \in 1..Len(waiting) : waiting[i][1] \in Clients
  BY DEF TypeOK, Payload
<1>2. IsFiniteSet(live) /\ Cardinality(live) \in Nat
  BY TcpStarAssumption, FS_Subset, FS_CardinalityType DEF TypeOK
<1>3. CASE live = {}
  BY <1>3
<1>4. CASE live # {}
  <2> DEFINE f == [i \in 1..Len(waiting) |-> waiting[i][1]]
  <2>1. \A i \in 1..Len(waiting) : waiting[i][1] \in live
    BY <1>1 DEF Counted
  <2>2. f \in Injection(1..Len(waiting), live)
    BY <2>1 DEF OneCounted, Injection, IsInjective
  <2>3. Cardinality(1..Len(waiting)) = Len(waiting)
    BY <1>1, FS_Interval
  <2> HIDE DEF f
  <2>4. Cardinality(1..Len(waiting)) <= Cardinality(live)
    BY <1>2, <2>2, FS_Injection
  <2>5. Cardinality(1..Len(waiting)) = Cardinality(live)
    BY <1>1, <1>2, <1>4, <2>3, <2>4 DEF Collecting
  <2>6. f \in Surjection(1..Len(waiting), live)
    BY <1>2, <2>2, <2>5, FS_Injection
  <2>7. \A k \in live : \E i \in 1..Len(waiting) : f[i] = k
    BY <2>6 DEF Surjection
  <2> QED BY <2>7 DEF f, Counted
<1> QED BY <1>3, <1>4

(* Steps of a client that send no payload.                                 *)
LEMMA RoundClient ==
  ASSUME RInv, AInv', HInv', NEW k \in Clients, UNCHANGED <<given, hub, mix, live, waiting>>,
         Len(queue') = Len(queue),
         \A i \in 1..Len(queue) :
           queue'[i].kind = "model" => queue[i].kind = "model" /\ queue'[i].src = queue[i].src,
         \A j \in Clients :
           j # k => phase'[j] = phase[j] /\ reply'[j] = reply[j] /\ told'[j] = told[j],
         late \subseteq late', HubUp \/ late' = late,
         told'[k] => phase'[k] = "gone",
         Pending(k) => /\ phase'[k] \in {"bye", "gone"}
                       /\ late' = {} /\ HubUp => phase'[k] # "bye" /\ ~told'[k],
         hub = "down" => queue' = queue
  PROVE  RInv'
<1>1. TypeOK /\ OneAsked /\ OneCounted /\ NotBoth
  BY DEF RInv, HInv
<1>2. /\ OneAsked' /\ OneCounted' /\ NotBoth'
      /\ \A j \in Clients : Pending(j)' => Pending(j)
  BY <1>1, OneEachFrame
<1>3. PendingIsOpen'
  BY <1>2 DEF RInv, PendingIsOpen
<1>4. PendingInTime'
  BY <1>2 DEF RInv, PendingInTime, HubUp
<1>5. ToldIsGone' /\ DownIsIdle'
  BY DEF RInv, ToldIsGone, DownIsIdle
<1>6. FullRoundUnlessLate'
  BY SameRound DEF RInv
<1> QED BY <1>2, <1>3, <1>4, <1>5, <1>6 DEF RInv

(* What a frame appended to the listen queue makes pending.                *)
LEMMA OneEachAppend ==
  ASSUME RInv, NEW f \in Frame, queue' = Append(queue, f), UNCHANGED waiting,
         f.kind = "model" => ~Pending(f.src)
  PROVE  /\ OneAsked' /\ OneCounted' /\ NotBoth'
         /\ \A k \in Clients : Pending(k)' => Pending(k) \/ (f.kind = "model" /\ k = f.src)
<1>1. queue \in Seq(Frame)
  BY DEF RInv, HInv, TypeOK
<1>2. \A i \in 1..Len(queue') :
        IF i = Len(queue) + 1 THEN queue'[i] = f
                              ELSE i \in 1..Len(queue) /\ queue'[i] = queue[i]
  BY <1>1
<1>3. OneAsked /\ OneCounted /\ NotBoth
  BY DEF RInv
<1>4. OneAsked'
  BY <1>2, <1>3 DEF OneAsked, Pending, Asks
<1>5. OneCounted' /\ \A k \in Clients : Counted(k)' <=> Counted(k)
  BY <1>3 DEF OneCounted, Counted
<1>6. \A k \in Clients : Asks(k)' => Asks(k) \/ (f.kind = "model" /\ k = f.src)
  BY <1>2 DEF Asks
<1>7. NotBoth'
  BY <1>3, <1>5, <1>6 DEF NotBoth, Pending
<1> QED BY <1>4, <1>5, <1>6, <1>7 DEF Pending

LEMMA RoundSubmit ==
  ASSUME RInv, AInv', HInv', NEW k \in Clients, Submit(k)
  PROVE  RInv'
<1> DEFINE f == [kind |-> "model", src |-> k, step |-> round[k] + 1]
<1>1. TypeOK /\ TypeOK'
  BY DEF RInv, HInv
<1>2. f \in Frame /\ f.kind = "model" /\ f.src = k /\ queue' = Append(queue, f)
  BY <1>1 DEF TypeOK, Frame, Submit
<1>3. /\ UNCHANGED <<given, hub, live, mix, waiting, late, reply, told>> /\ HubUp
      /\ phase[k] = "work" /\ phase'[k] = "wait"
      /\ \A j \in Clients : j # k => phase'[j] = phase[j]
  BY <1>1 DEF TypeOK, Submit, hubVars
<1>4. ~Pending(k) /\ ~told[k]
  BY <1>3 DEF RInv, PendingIsOpen, ToldIsGone
<1> HIDE DEF f
<1>5. /\ OneAsked' /\ OneCounted' /\ NotBoth'
      /\ \A j \in Clients : Pending(j)' => Pending(j) \/ j = k
  BY <1>2, <1>3, <1>4, OneEachAppend
<1>6. reply[k] = NoReply
  BY <1>3 DEF RInv, AInv, NothingLeftOver
<1>7. PendingIsOpen' /\ PendingInTime'
  BY <1>3, <1>4, <1>5, <1>6 DEF RInv, PendingIsOpen, PendingInTime, HubUp
<1>8. ToldIsGone' /\ DownIsIdle'
  BY <1>3, <1>4 DEF RInv, ToldIsGone, DownIsIdle, HubUp
<1>9. FullRoundUnlessLate'
  BY <1>3, SameRound DEF RInv
<1> QED BY <1>5, <1>7, <1>8, <1>9 DEF RInv

LEMMA RoundLeave ==
  ASSUME RInv, AInv', HInv', NEW k \in Clients, Leave(k)
  PROVE  RInv'
<1> DEFINE f == [kind |-> "bye", src |-> k, step |-> round[k]]
<1>1. TypeOK /\ TypeOK'
  BY DEF RInv, HInv
<1>2. /\ UNCHANGED <<given, hub, live, mix, waiting, late, reply>>
      /\ phase[k] = "bye" /\ phase'[k] = "gone"
      /\ \A j \in Clients : j # k => phase'[j] = phase[j] /\ told'[j] = told[j]
  BY <1>1 DEF TypeOK, Leave, hubVars
<1>3. CASE ~HubUp
  <2>1. UNCHANGED <<queue, told>>
    BY <1>3 DEF Leave
  <2> QED BY <1>2, <1>3, <2>1, RoundClient
<1>4. CASE HubUp
  <2>1. f \in Frame /\ f.kind = "bye" /\ queue' = Append(queue, f)
    BY <1>1, <1>4 DEF TypeOK, Frame, Leave, Bye
  <2> HIDE DEF f
  <2>2. /\ OneAsked' /\ OneCounted' /\ NotBoth'
        /\ \A j \in Clients : Pending(j)' => Pending(j)
    BY <1>2, <2>1, OneEachAppend
  <2>3. PendingIsOpen'
    BY <1>2, <2>2 DEF RInv, PendingIsOpen
  <2>4. PendingInTime'
    BY <1>2, <1>4, <2>2 DEF RInv, PendingInTime, HubUp
  <2>5. ToldIsGone' /\ DownIsIdle'
    BY <1>2, <1>4 DEF RInv, ToldIsGone, DownIsIdle, HubUp
  <2>6. FullRoundUnlessLate'
    BY <1>2, SameRound DEF RInv
  <2> QED BY <2>2, <2>3, <2>4, <2>5, <2>6 DEF RInv
<1> QED BY <1>3, <1>4

(* The head of the listen queue leaves it, for the round or for good.      *)
LEMMA RoundAccept ==
  ASSUME RInv, AInv', HInv', HubAccept
  PROVE  RInv'
<1>1. TypeOK
  BY DEF RInv, HInv
<1>2. /\ queue \in Seq(Frame) /\ queue # <<>> /\ queue' = Tail(queue)
      /\ waiting \in Seq(Payload)
      /\ hub = "collect" /\ UNCHANGED <<given, hub, mix, late, phase, reply, told>>
  BY <1>1 DEF TypeOK, HubAccept, clientVars
<1>3. /\ Head(queue) = queue[1] /\ 1 \in 1..Len(queue) /\ queue[1] \in Frame
      /\ \A i \in 1..Len(queue') :
           i + 1 \in 1..Len(queue) /\ i + 1 # 1 /\ queue'[i] = queue[i + 1]
  BY <1>2
<1>4. OneAsked /\ OneCounted /\ NotBoth
  BY DEF RInv
<1>5. OneAsked'
  <2> SUFFICES ASSUME NEW i \in 1..Len(queue'), NEW j \in 1..Len(queue'),
                      queue'[i].kind = "model", queue'[j].kind = "model",
                      queue'[i].src = queue'[j].src
               PROVE  i = j
    BY DEF OneAsked
  <2>1. i + 1 = j + 1
    BY <1>3, <1>4 DEF OneAsked
  <2> QED BY <1>2, <2>1
<1>6. \A k \in Clients : Asks(k)' => Asks(k)
  BY <1>3 DEF Asks
<1>7. /\ OneCounted' /\ NotBoth'
      /\ \A k \in Clients : Pending(k)' => Pending(k)
  <2>1. CASE UNCHANGED waiting
    <3>1. \A k \in Clients : Counted(k)' <=> Counted(k)
      BY <2>1 DEF Counted
    <3> QED BY <1>4, <1>6, <2>1, <3>1 DEF OneCounted, NotBoth, Pending
  <2>2. CASE /\ Head(queue).kind = "model"
             /\ waiting' = Append(waiting, <<Head(queue).src, Head(queue).step>>)
    <3>0. PICK c : c = Head(queue).src
      OBVIOUS
    <3>1. \A i \in 1..Len(waiting') :
            IF i = Len(waiting) + 1
              THEN waiting'[i][1] = c
              ELSE i \in 1..Len(waiting) /\ waiting'[i] = waiting[i]
      BY <1>2, <2>2, <3>0
    <3>2. c \in Clients /\ Asks(c)
      BY <1>3, <2>2, <3>0 DEF Asks, Frame
    <3>3. ~Asks(c)'
      BY <1>3, <1>4, <2>2, <3>0 DEF Asks, OneAsked
    <3>4. ~Counted(c)
      BY <1>4, <3>2 DEF NotBoth
    <3>5. \A k \in Clients : Counted(k)' => Counted(k) \/ k = c
      BY <3>1 DEF Counted
    <3>6. OneCounted'
      BY <1>4, <3>1, <3>4 DEF OneCounted, Counted
    <3>7. NotBoth'
      BY <1>4, <1>6, <3>3, <3>5 DEF NotBoth
    <3> QED BY <1>6, <3>2, <3>5, <3>6, <3>7 DEF Pending
  <2> QED BY <2>1, <2>2 DEF HubAccept
<1>8. PendingIsOpen' /\ PendingInTime'
  BY <1>2, <1>7 DEF RInv, PendingIsOpen, PendingInTime, HubUp
<1>9. ToldIsGone' /\ DownIsIdle'
  BY <1>2 DEF RInv, ToldIsGone, DownIsIdle
<1>10. FullRoundUnlessLate'
  BY <1>2 DEF RInv, FullRoundUnlessLate
<1> QED BY <1>5, <1>7, <1>8, <1>9, <1>10 DEF RInv

(* The mix takes one payload from every client that is live.               *)
LEMMA RoundMix ==
  ASSUME RInv, AInv', HInv', HubMix
  PROVE  RInv'
<1>1. TypeOK /\ OneCounted
  BY DEF RInv, HInv
<1>2. /\ waiting \in Seq(Payload) /\ hub = "collect" /\ ~Collecting
      /\ UNCHANGED <<given, queue, waiting, live, late, phase, reply, told>>
  BY <1>1 DEF TypeOK, HubMix, clientVars
<1>3. OneAsked' /\ OneCounted' /\ NotBoth' /\ \A k \in Clients : Pending(k)' <=> Pending(k)
  BY <1>2 DEF RInv, OneAsked, OneCounted, NotBoth, Pending, Asks, Counted
<1>4. PendingIsOpen' /\ PendingInTime'
  BY <1>2, <1>3 DEF RInv, PendingIsOpen, PendingInTime, HubUp
<1>5. ToldIsGone' /\ DownIsIdle'
  BY <1>2 DEF RInv, ToldIsGone, DownIsIdle, HubMix
<1>6. FullRoundUnlessLate'
  <2>1. CASE hub' = "closed" /\ UNCHANGED mix
    BY <2>1 DEF RInv, FullRoundUnlessLate
  <2>2. CASE mix' = Empty
    BY <2>2 DEF FullRoundUnlessLate, Empty
  <2>3. CASE mix' = [of |-> Mixed, to |-> Collection]
    <3>1. DOMAIN waiting = 1..Len(waiting)
      BY <1>2
    <3>2. \A p, q \in Mixed : p[1] = q[1] => p = q
      BY <1>1, <3>1 DEF Mixed, Collection, OneCounted
    <3>3. ASSUME late = {} PROVE \A k \in live : Counted(k)
      <4>1. \A k \in Clients : Counted(k) => ~told[k]
        BY <1>2, <3>3 DEF RInv, PendingInTime, Pending, HubUp
      <4>2. \A k \in Clients : Counted(k) => k \in live
        BY <4>1 DEF RInv, HInv, ForgottenHaveLeft
      <4> QED BY <1>1, <1>2, <4>2, EveryoneCounted
    <3>4. late = {} => \A k \in live : \E p \in Collection : p[1] = k
      BY <3>1, <3>3 DEF Collection, Counted
    <3>5. \A p \in Collection : p \in Mixed \/ p \in unusable
      BY DEF Mixed
    <3>6. mix'.of = Mixed /\ mix'.to = Collection /\ unusable' = unusable
      BY <1>2, <2>3 DEF given
    <3>7. late' = late /\ live' = live
      BY <1>2
    <3> QED BY <3>2, <3>4, <3>5, <3>6, <3>7 DEF FullRoundUnlessLate
  <2> QED BY <2>1, <2>2, <2>3 DEF HubMix
<1> QED BY <1>3, <1>4, <1>5, <1>6 DEF RInv

(* A client that is answered has nothing pending.                          *)
LEMMA RoundAnswer ==
  ASSUME RInv, AInv', HInv', HubAnswer
  PROVE  RInv'
<1>0. PICK c : c = Head(waiting)[1]
  OBVIOUS
<1>1. TypeOK /\ OneAsked /\ OneCounted /\ NotBoth
  BY DEF RInv, HInv
<1>2. /\ waiting \in Seq(Payload) /\ waiting # <<>> /\ waiting' = Tail(waiting)
      /\ hub = "answer" /\ UNCHANGED <<given, hub, live, mix, queue, late, phase, told>>
  BY <1>1 DEF TypeOK, HubAnswer
<1>3. /\ Head(waiting) = waiting[1] /\ 1 \in 1..Len(waiting) /\ waiting[1] \in Payload
      /\ \A i \in 1..Len(waiting') :
           i + 1 \in 1..Len(waiting) /\ i + 1 # 1 /\ waiting'[i] = waiting[i + 1]
  BY <1>2
<1>4. c \in Clients /\ Counted(c)
  BY <1>0, <1>3 DEF Payload, Counted
<1>5. OneCounted'
  <2> SUFFICES ASSUME NEW i \in 1..Len(waiting'), NEW j \in 1..Len(waiting'),
                      waiting'[i][1] = waiting'[j][1]
               PROVE  i = j
    BY DEF OneCounted
  <2>1. i + 1 \in 1..Len(waiting) /\ j + 1 \in 1..Len(waiting)
    BY <1>3
  <2>2. waiting[i + 1][1] = waiting[j + 1][1]
    BY <1>3
  <2>3. i + 1 = j + 1
    BY <1>1, <2>1, <2>2 DEF OneCounted
  <2> QED BY <2>3
<1>6. /\ ~Counted(c)'
      /\ \A k \in Clients : (Counted(k)' => Counted(k)) /\ (Asks(k)' <=> Asks(k))
  <2>1. ~Counted(c)'
    BY <1>0, <1>1, <1>3 DEF OneCounted, Counted
  <2> QED BY <1>2, <1>3, <2>1 DEF Counted, Asks
<1>7. /\ ~Pending(c)'
      /\ \A k \in Clients : Pending(k)' => Pending(k)
  BY <1>1, <1>4, <1>6 DEF NotBoth, Pending
<1>8. \A k \in Clients : k # c => reply'[k] = reply[k]
  BY <1>0, <1>1 DEF TypeOK, HubAnswer
<1>9. OneAsked' /\ NotBoth'
  BY <1>1, <1>2, <1>6 DEF OneAsked, NotBoth
<1>10. PendingIsOpen' /\ PendingInTime'
  BY <1>2, <1>7, <1>8 DEF RInv, PendingIsOpen, PendingInTime, HubUp
<1>11. ToldIsGone' /\ DownIsIdle'
  BY <1>2 DEF RInv, ToldIsGone, DownIsIdle
<1>12. FullRoundUnlessLate'
  BY <1>2, SameRound DEF RInv
<1> QED BY <1>5, <1>9, <1>10, <1>11, <1>12 DEF RInv

LEMMA RoundStep == RInv /\ [Next]_vars => RInv'
<1> SUFFICES ASSUME RInv, [Next]_vars PROVE RInv'
  OBVIOUS
<1>t. TypeOK /\ AInv' /\ HInv'
  BY AnswerStep, LeaveStep DEF RInv, HInv
<1>1. ASSUME NEW k \in Clients, Submit(k) PROVE RInv'
  BY <1>1, <1>t, RoundSubmit
<1>2. ASSUME NEW k \in Clients, Consume(k) PROVE RInv'
  <2>1. ~Pending(k)
    BY <1>2 DEF RInv, PendingIsOpen, Consume
  <2>2. ~told[k]
    BY <1>2 DEF RInv, ToldIsGone, Consume
  <2> QED BY <1>2, <1>t, <2>1, <2>2, RoundClient DEF TypeOK, Consume, hubVars
<1>3. ASSUME NEW k \in Clients, Retire(k) \/ NoHub(k) PROVE RInv'
  <2>1. phase[k] = "work" /\ UNCHANGED <<given, reply, told, hubVars, queue, late>>
    BY <1>3 DEF Retire, NoHub
  <2>2. \A j \in Clients : j # k => phase'[j] = phase[j]
    BY <1>3, <1>t DEF TypeOK, Retire, NoHub
  <2>3. ~Pending(k) /\ ~told[k]
    BY <2>1 DEF RInv, PendingIsOpen, ToldIsGone
  <2> QED BY <1>t, <2>1, <2>2, <2>3, RoundClient DEF hubVars
<1>4. ASSUME NEW k \in Clients, NoAnswer(k) PROVE RInv'
  <2>1. /\ phase[k] = "wait" /\ phase'[k] = "bye" /\ PerhapsCut(k)
        /\ UNCHANGED <<given, reply, told, hubVars>>
        /\ late' = IF HubUp THEN late \cup {k} ELSE late
        /\ \A j \in Clients : j # k => phase'[j] = phase[j]
    BY <1>4, <1>t DEF TypeOK, NoAnswer
  <2>2. /\ Len(queue') = Len(queue)
        /\ \A i \in 1..Len(queue) :
             queue'[i].kind = "model" => queue[i].kind = "model" /\ queue'[i].src = queue[i].src
    BY <1>t, <2>1, PerhapsCutModels
  <2>3. ~told[k]
    BY <2>1 DEF RInv, ToldIsGone
  <2>4. hub = "down" => queue' = queue
    BY <2>1 DEF RInv, DownIsIdle, PerhapsCut
  <2> QED BY <1>t, <2>1, <2>2, <2>3, <2>4, RoundClient DEF hubVars
<1>5. ASSUME NEW k \in Clients, Leave(k) PROVE RInv'
  BY <1>5, <1>t, RoundLeave
<1>6. ASSUME NEW k \in Clients, Crash(k) PROVE RInv'
  <2>1. /\ phase[k] # "gone" /\ phase'[k] = "gone" /\ PerhapsCut(k)
        /\ UNCHANGED <<given, reply, told, hubVars, late>>
        /\ \A j \in Clients : j # k => phase'[j] = phase[j]
    BY <1>6, <1>t DEF TypeOK, Crash
  <2>2. /\ Len(queue') = Len(queue)
        /\ \A i \in 1..Len(queue) :
             queue'[i].kind = "model" => queue[i].kind = "model" /\ queue'[i].src = queue[i].src
    BY <1>t, <2>1, PerhapsCutModels
  <2>3. ~told[k]
    BY <2>1 DEF RInv, ToldIsGone
  <2>4. hub = "down" => queue' = queue
    BY <2>1 DEF RInv, DownIsIdle, PerhapsCut
  <2> QED BY <1>t, <2>1, <2>2, <2>3, <2>4, RoundClient DEF hubVars
<1>7. CASE HubStart \/ HubTimeout \/ HubNext \/ UNCHANGED vars
  <2>1. UNCHANGED <<queue, waiting, live, late, phase, reply, told>>
    BY <1>7 DEF HubStart, HubTimeout, HubNext, vars, clientVars, hubVars
  <2>2. /\ OneAsked' /\ OneCounted' /\ NotBoth'
        /\ \A k \in Clients : Pending(k)' <=> Pending(k)
    BY <2>1 DEF RInv, OneAsked, OneCounted, NotBoth, Pending, Asks, Counted
  <2>3. PendingIsOpen' /\ ToldIsGone'
    BY <2>1, <2>2 DEF RInv, PendingIsOpen, ToldIsGone
  <2>4. hub = "down" => \A k \in Clients : ~Pending(k)
    <3>1. ASSUME hub = "down" PROVE Len(queue) = 0 /\ Len(waiting) = 0
      BY <3>1 DEF RInv, DownIsIdle
    <3> QED BY <3>1 DEF Pending, Asks, Counted
  <2>5. PendingInTime'
    <3>1. HubUp' => HubUp \/ hub = "down"
      BY <1>7 DEF HubStart, HubTimeout, HubNext, HubUp, vars, hubVars
    <3> QED BY <2>1, <2>2, <2>4, <3>1 DEF RInv, PendingInTime
  <2>6. DownIsIdle'
    BY <1>7 DEF RInv, DownIsIdle, HubStart, HubTimeout, HubNext, vars, hubVars
  <2>7. FullRoundUnlessLate'
    BY <1>7 DEF RInv, FullRoundUnlessLate, HubStart, HubTimeout, HubNext, Empty,
                vars, given, clientVars, hubVars
  <2> QED BY <1>t, <2>2, <2>3, <2>5, <2>6, <2>7 DEF RInv
<1>8. CASE HubAccept
  BY <1>8, <1>t, RoundAccept
<1>9. CASE HubMix
  BY <1>9, <1>t, RoundMix
<1>10. CASE HubAnswer
  BY <1>10, <1>t, RoundAnswer
<1> QED
  BY <1>1, <1>2, <1>3, <1>4, <1>5, <1>6, <1>7, <1>8, <1>9, <1>10
     DEF Next, ClientProgress, HubProgress

(* A round of the hub (TcpStar.step rx) averages nobody twice, and as long *)
(* as no client has given up on an answer it has a payload from everybody  *)
(* live and leaves out only what could not be used: the number of payloads *)
(* the code counts stands for one from each client.                        *)
THEOREM RoundsAreFull == Spec => []FullRoundUnlessLate
<1>1. RInv => FullRoundUnlessLate
  BY DEF RInv
<1> QED BY <1>1, RoundInit, RoundStep, PTL DEF Spec

-----------------------------------------------------------------------------
(* The federated programs, for any number of clients and rounds.  Where    *)
(* everybody may be (CInv) is common to the four programs; the sequences   *)
(* of aggregates are compared program by program.                          *)
SourceStates == {"off", "connect", "send", "deaf"}
SinkStates == {"off", "listen", "accept", "session", "grace"}
ServerStates == {"hello", "up", "down", "mock", "ended", "raised"}

(* Where everybody may be, whatever the program.                           *)
ControlOK ==
  /\ K \in Nat /\ kind \in {"compressed", "full", "mock", "sgd"}
  /\ up \in {"radio", "net"} /\ down \in {"radio", "net"}
  /\ clients \in ClientIds /\ near \in {{1}, Users} /\ turn \in Users
  /\ spc \in ServerStates /\ cpc \in [ClientIds -> ServerStates \cup {"dead"}]
  /\ src \in [Nodes -> SourceStates] /\ sink \in [Nodes -> SinkStates]
  /\ DOMAIN peer = Nodes /\ DOMAIN file = Nodes
  /\ DOMAIN netUp = ClientIds /\ DOMAIN netDown = ClientIds /\ DOMAIN cmodel = ClientIds

ProgramFits ==
  /\ kind \in {"mock", "sgd"} => up = "radio" /\ down = "radio"
  /\ kind = "mock" => /\ spc \in {"mock", "ended"}
                      /\ \A c \in ClientIds : cpc[c] \in {"mock", "ended"}
  /\ kind = "sgd" => /\ clients = 1 /\ spc \in {"up", "ended"}
                     /\ \A c \in ClientIds : cpc[c] \notin {"down", "hello"}

(* A radio process runs in the part of its node's round that starts it, and*)
(* a session is with somebody who reaches it.                              *)
TransfersFit ==
  /\ \A c \in ClientIds : /\ src[c] # "off" => cpc[c] = "up" /\ up = "radio"
                          /\ sink[c] # "off" => cpc[c] = "down" /\ down = "radio"
  /\ src[Server] # "off" => spc = "down" /\ down = "radio"
  /\ sink[Server] # "off" => spc = "up" /\ up = "radio"
  /\ \A q \in Nodes : sink[q] \in {"accept", "session"} => Reaches(peer[q], q)

CInv == ControlOK /\ ProgramFits /\ TransfersFit

-----------------------------------------------------------------------------
LEMMA NodeFacts ==
  ASSUME ControlOK
  PROVE  /\ Users \subseteq ClientIds /\ ClientIds \subseteq Nodes
         /\ Server \in Nodes
         /\ Server \notin ClientIds /\ near \subseteq Users /\ 1 \in Users
         /\ ClientIds \subseteq Nat /\ clients \in Nat /\ clients >= 1
         /\ \A p \in Nodes : p = Server \/ p \in ClientIds
<1>1. K \in Nat /\ clients \in 1..K
  BY DEF ControlOK, ClientIds
<1> QED BY <1>1 DEF ControlOK, Users, ClientIds, Nodes, Server

LEMMA FirstIs ==
  ASSUME kind \in {"compressed", "full", "mock", "sgd"}
  PROVE  /\ kind \in {"compressed", "sgd"} => First = "up"
         /\ kind = "full" => First = "down"
         /\ kind = "mock" => First = "mock"
BY DEF First

(* Where the server goes on.                                               *)
LEMMA GotUpControl ==
  ASSUME ControlOK, spc = "up", kind # "mock", NEW d, GotUp(d)
  PROVE  /\ turn' \in 1..clients /\ spc' \in {"up", "down", "ended"}
         /\ kind = "sgd" => spc' \in {"up", "ended"}
<1>1. clients \in Nat /\ clients >= 1 /\ turn \in 1..clients
  BY NodeFacts DEF ControlOK, Users
<1>2. First \in {"up", "down"} /\ (kind = "sgd" => First = "up")
  BY FirstIs DEF ControlOK
<1>3. CASE turn # clients
  <2>1. turn' = turn + 1 /\ spc' = First
    BY <1>3 DEF GotUp
  <2> QED BY <1>1, <1>2, <1>3, <2>1
<1>4. CASE turn = clients /\ kind = "compressed"
  <2>1. turn' = 1 /\ spc' = "down"
    BY <1>4 DEF GotUp
  <2> QED BY <1>1, <1>4, <2>1
<1>5. CASE turn = clients /\ kind # "compressed"
  <2>1. turn' = 1 /\ spc' \in {"ended", First}
    BY <1>5 DEF GotUp, ServerEndsRound
  <2> QED BY <1>1, <1>2, <2>1
<1> QED BY <1>3, <1>4, <1>5

LEMMA SentDownControl ==
  ASSUME ControlOK, spc = "down", kind # "mock", SentDown
  PROVE  turn' \in 1..clients /\ spc' \in {"up", "down", "ended"}
<1>1. clients \in Nat /\ clients >= 1 /\ turn \in 1..clients
  BY NodeFacts DEF ControlOK, Users
<1>2. First \in {"up", "down"}
  BY FirstIs DEF ControlOK
<1>3. CASE kind = "full"
  BY <1>1, <1>3 DEF SentDown
<1>4. CASE kind # "full" /\ turn = clients
  <2>1. turn' = 1 /\ spc' \in {"ended", First}
    BY <1>4 DEF SentDown, ServerEndsRound
  <2> QED BY <1>1, <1>2, <2>1
<1>5. CASE kind # "full" /\ turn # clients
  <2>1. turn' = turn + 1 /\ spc' = spc
    BY <1>5 DEF SentDown
  <2> QED BY <1>1, <1>5, <2>1
<1> QED BY <1>3, <1>4, <1>5

(* Where a client goes on.                                                 *)
LEMMA SentUpControl ==
  ASSUME ControlOK, kind # "mock", NEW c \in ClientIds, SentUp(c)
  PROVE  \E s \in {"up", "down", "ended"} :
           /\ cpc' = [cpc EXCEPT ![c] = s]
           /\ kind = "sgd" => s # "down"
           /\ kind # "sgd" => s # "up"
<1>1. /\ kind = "sgd" => First = "up"
      /\ kind = "full" => First = "down"
  BY FirstIs DEF ControlOK
<1>2. CASE kind = "compressed"
  BY <1>2 DEF SentUp
<1>3. CASE kind # "compressed"
  <2>1. cpc' = [cpc EXCEPT ![c] = "ended"] \/ cpc' = [cpc EXCEPT ![c] = First]
    BY <1>3 DEF SentUp, ClientEndsRound
  <2> QED BY <1>1, <1>3, <2>1 DEF ControlOK
<1> QED BY <1>2, <1>3

LEMMA GotDownControl ==
  ASSUME ControlOK, kind \in {"compressed", "full"}, NEW c \in ClientIds, NEW g, GotDown(c, g)
  PROVE  \E s \in {"up", "ended"} : cpc' = [cpc EXCEPT ![c] = s]
<1>1. kind = "compressed" => First = "up"
  BY FirstIs
<1>2. CASE kind = "full"
  BY <1>2 DEF GotDown
<1>3. CASE kind # "full"
  <2>1. cpc' = [cpc EXCEPT ![c] = "ended"] \/ cpc' = [cpc EXCEPT ![c] = First]
    BY <1>3 DEF GotDown, ClientEndsRound
  <2> QED BY <1>1, <1>3, <2>1
<1> QED BY <1>2, <1>3

-----------------------------------------------------------------------------
(* The control of every action.                                            *)
LEMMA NamesStay ==
  ASSUME UNCHANGED served
  PROVE  Users' = Users /\ ClientIds' = ClientIds /\ Nodes' = Nodes
BY DEF served, Users, ClientIds, Nodes

LEMMA WaitAllControl == ASSUME CInv, WaitAll PROVE CInv'
<1> USE DEF CInv
<1>1. First \in {"up", "down"} /\ kind \notin {"mock", "sgd"}
  BY FirstIs DEF WaitAll, ProgramFits, ControlOK
<1>2. /\ spc = "hello" /\ spc' \in {First, "raised"}
      /\ UNCHANGED <<served, turn, cpc, cmodel, src, sink, peer, file, netUp, netDown>>
  BY DEF WaitAll, ServerRaises, client, transfer, net
<1>3. ControlOK'
  BY <1>1, <1>2 DEF ControlOK, served, Users, ClientIds, Nodes, ServerStates
<1>4. ProgramFits'
  BY <1>1, <1>2 DEF ProgramFits, served, ClientIds
<1>5. TransfersFit'
  BY <1>1, <1>2 DEF TransfersFit, served, ClientIds, Nodes, Reaches
<1> QED BY <1>3, <1>4, <1>5

LEMMA NetRecvUpControl == ASSUME CInv, NetRecvUp PROVE CInv'
<1> USE DEF CInv
<1>1. /\ spc = "up" /\ up = "net" /\ kind \notin {"mock", "sgd"}
      /\ src[Server] = "off" /\ sink[Server] = "off"
  BY DEF NetRecvUp, ProgramFits, TransfersFit
<1>2. /\ UNCHANGED <<served, cpc, cmodel, src, sink, peer, file, netDown>>
      /\ turn' \in 1..clients /\ spc' \in {"up", "down", "ended", "raised"}
      /\ DOMAIN netUp' = DOMAIN netUp
  <2>1. CASE ServerRaises
    BY <2>1 DEF ServerRaises, client, transfer, net, ControlOK, Users
  <2>2. CASE ~ServerRaises
    <3>1. /\ GotUp(Head(netUp[turn]))
          /\ UNCHANGED <<served, client, transfer, netDown>>
          /\ netUp' = [netUp EXCEPT ![turn] = Tail(@)]
      BY <2>2 DEF NetRecvUp
    <3> QED BY <1>1, <3>1, GotUpControl DEF client, transfer
  <2> QED BY <2>1, <2>2
<1>3. ControlOK'
  BY <1>1, <1>2 DEF ControlOK, served, Users, ClientIds, Nodes, ServerStates
<1>4. ProgramFits'
  BY <1>1, <1>2 DEF ProgramFits, served, ClientIds
<1>5. TransfersFit'
  BY <1>1, <1>2 DEF TransfersFit, served, ClientIds, Nodes, Reaches
<1> QED BY <1>3, <1>4, <1>5

LEMMA NetSendDownControl == ASSUME CInv, NetSendDown PROVE CInv'
<1> USE DEF CInv
<1>1. /\ spc = "down" /\ down = "net" /\ kind \notin {"mock", "sgd"}
      /\ src[Server] = "off" /\ sink[Server] = "off"
  BY DEF NetSendDown, ProgramFits, TransfersFit
<1>2. /\ UNCHANGED <<served, cpc, cmodel, src, sink, peer, file, netUp>>
      /\ turn' \in 1..clients /\ spc' \in {"up", "down", "ended", "raised"}
      /\ DOMAIN netDown' = DOMAIN netDown
  <2>1. CASE ServerRaises
    BY <2>1 DEF ServerRaises, client, transfer, net, ControlOK, Users
  <2>2. CASE ~ServerRaises
    <3>1. SentDown /\ UNCHANGED <<served, client, transfer, netUp>>
          /\ netDown' = [netDown EXCEPT ![turn] = Append(@, DownFrame)]
      BY <2>2 DEF NetSendDown
    <3> QED BY <1>1, <3>1, SentDownControl DEF client, transfer
  <2> QED BY <2>1, <2>2
<1>3. ControlOK'
  BY <1>1, <1>2 DEF ControlOK, served, Users, ClientIds, Nodes, ServerStates
<1>4. ProgramFits'
  BY <1>1, <1>2 DEF ProgramFits, served, ClientIds
<1>5. TransfersFit'
  BY <1>1, <1>2 DEF TransfersFit, served, ClientIds, Nodes, Reaches
<1> QED BY <1>3, <1>4, <1>5

LEMMA MockRoundControl == ASSUME CInv, MockRound PROVE CInv'
<1> USE DEF CInv
<1>1. /\ kind = "mock" /\ spc = "mock" /\ spc' \in {"mock", "ended"}
      /\ UNCHANGED <<served, turn, src, sink, peer, file, netUp, netDown>>
      /\ cpc' = cpc \/ cpc' = [c \in ClientIds |-> "ended"]
      /\ DOMAIN cmodel' = ClientIds
  BY DEF MockRound, transfer, net
<1>2. /\ \A p \in Nodes : src[p] = "off" /\ sink[p] = "off"
  BY <1>1, NodeFacts DEF ProgramFits, TransfersFit
<1>3. ControlOK'
  BY <1>1 DEF ControlOK, served, Users, ClientIds, Nodes, ServerStates
<1>4. ProgramFits'
  BY <1>1 DEF ProgramFits, served, ClientIds
<1>5. TransfersFit'
  BY <1>1, <1>2, NodeFacts DEF TransfersFit, served, ClientIds, Nodes, Reaches
<1> QED BY <1>3, <1>4, <1>5

(* A client goes on, its own transfer over.                                *)
ClientMoves(c, s) ==
  /\ c \in ClientIds /\ cpc' = [cpc EXCEPT ![c] = s]
  /\ s \in ServerStates \cup {"dead"}
  /\ kind # "mock" /\ (kind = "sgd" => s \notin {"down", "hello"})
  /\ src' \in [Nodes -> SourceStates] /\ sink' \in [Nodes -> SinkStates]
  /\ \A p \in Nodes : /\ src'[p] \in {src[p], "off"}
                      /\ sink'[p] = sink[p] \/ sink'[p] \notin {"accept", "session"}
                      /\ sink[p] = "off" => sink'[p] = "off"
  /\ src'[c] = "off" /\ sink'[c] = "off"
  /\ UNCHANGED <<served, spc, turn, peer>>
  /\ DOMAIN file' = Nodes /\ DOMAIN cmodel' = ClientIds
  /\ DOMAIN netUp' = ClientIds /\ DOMAIN netDown' = ClientIds

LEMMA ClientMovesControl ==
  ASSUME CInv, NEW c, NEW s, ClientMoves(c, s) PROVE CInv'
<1> USE DEF CInv
<1>1. /\ c \in ClientIds /\ ClientIds \subseteq Nodes
      /\ \A d \in ClientIds : d # c => cpc'[d] = cpc[d]
      /\ cpc'[c] = s
  BY NodeFacts DEF ClientMoves, ControlOK
<1>2. cpc' \in [ClientIds -> ServerStates \cup {"dead"}]
  BY <1>1 DEF ClientMoves, ControlOK
<1>3. ControlOK'
  BY <1>2 DEF ClientMoves, ControlOK, served, Users, ClientIds, Nodes
<1>4. ProgramFits'
  BY <1>1, NamesStay DEF ClientMoves, ProgramFits, served
<1>5. TransfersFit'
  <2>1. /\ UNCHANGED <<up, down, near, spc, peer>>
        /\ ClientIds' = ClientIds /\ Nodes' = Nodes
    BY NamesStay DEF ClientMoves, served
  <2>2. ASSUME NEW d \in ClientIds
        PROVE  /\ src'[d] # "off" => cpc'[d] = "up" /\ up = "radio"
               /\ sink'[d] # "off" => cpc'[d] = "down" /\ down = "radio"
    BY <1>1 DEF ClientMoves, TransfersFit
  <2>3. /\ src'[Server] # "off" => spc = "down" /\ down = "radio"
        /\ sink'[Server] # "off" => spc = "up" /\ up = "radio"
    BY NodeFacts DEF ClientMoves, TransfersFit
  <2>4. ASSUME NEW q \in Nodes, sink'[q] \in {"accept", "session"}
        PROVE  Reaches(peer[q], q)
    BY <2>4 DEF ClientMoves, TransfersFit
  <2> QED BY <2>1, <2>2, <2>3, <2>4 DEF TransfersFit, Reaches
<1> QED BY <1>3, <1>4, <1>5

LEMMA DialsControl ==
  ASSUME CInv, NEW c \in Users, Dials(c)
  PROVE  ClientMoves(c, "hello") \/ ClientMoves(c, "raised")
<1>1. cpc[c] = "hello" /\ c \in ClientIds /\ c \in Nodes
  BY NodeFacts DEF Dials, CInv
<1>2. kind \notin {"mock", "sgd"} /\ src[c] = "off" /\ sink[c] = "off"
  BY <1>1 DEF CInv, ProgramFits, TransfersFit
<1>3. PICK s \in {"hello", "raised"} : cpc' = [cpc EXCEPT ![c] = s]
  <2>1. cpc = [cpc EXCEPT ![c] = "hello"]
    BY <1>1 DEF CInv, ControlOK
  <2> QED BY <2>1 DEF Dials, ClientRaises, client
<1>4. UNCHANGED <<served, spc, turn, cmodel, src, sink, peer, file, netUp, netDown>>
  BY DEF Dials, ClientRaises, client, transfer, net, server
<1>5. ClientMoves(c, s)
  BY <1>1, <1>2, <1>3, <1>4 DEF ClientMoves, CInv, ControlOK, ServerStates
<1> QED BY <1>5

LEMMA HelloControl ==
  ASSUME CInv, NEW c \in Users, Hello(c)
  PROVE ClientMoves(c, First) /\ First \in {"up", "down"}
<1>1. cpc[c] = "hello" /\ c \in ClientIds /\ c \in Nodes
  BY NodeFacts DEF Hello, CInv
<1>2. First \in {"up", "down"}
  BY <1>1, FirstIs DEF CInv, ProgramFits, ControlOK
<1>3. kind \notin {"mock", "sgd"} /\ src[c] = "off" /\ sink[c] = "off"
  BY <1>1 DEF CInv, ProgramFits, TransfersFit
<1>4. /\ cpc' = [cpc EXCEPT ![c] = First]
      /\ UNCHANGED <<served, spc, turn, cmodel, src, sink, peer, file, netUp, netDown>>
  BY DEF Hello, transfer, net, server
<1> QED BY <1>1, <1>2, <1>3, <1>4 DEF ClientMoves, CInv, ControlOK, ServerStates

LEMMA NetSendUpControl ==
  ASSUME CInv, NEW c \in Users, NetSendUp(c)
  PROVE  \E s \in {"down", "ended", "raised"} : ClientMoves(c, s)
<1>1. cpc[c] = "up" /\ up = "net" /\ c \in ClientIds /\ c \in Nodes
  BY NodeFacts DEF NetSendUp, CInv
<1>2. kind \notin {"mock", "sgd"} /\ src[c] = "off" /\ sink[c] = "off"
  BY <1>1 DEF CInv, ProgramFits, TransfersFit
<1>3. PICK s \in {"down", "ended", "raised"} : cpc' = [cpc EXCEPT ![c] = s]
  BY <1>1, <1>2, SentUpControl DEF NetSendUp, ClientRaises, CInv
<1>4. /\ UNCHANGED <<served, spc, turn, cmodel, src, sink, peer, file, netDown>>
      /\ DOMAIN netUp' = DOMAIN netUp
  BY DEF NetSendUp, ClientRaises, transfer, net, server
<1>5. ClientMoves(c, s)
  BY <1>1, <1>2, <1>3, <1>4 DEF ClientMoves, CInv, ControlOK, ServerStates
<1> QED BY <1>5

LEMMA NetRecvDownControl ==
  ASSUME CInv, NEW c \in Users, NetRecvDown(c)
  PROVE  \E s \in {"up", "ended", "raised"} : ClientMoves(c, s)
<1>1. cpc[c] = "down" /\ down = "net" /\ c \in ClientIds /\ c \in Nodes
  BY NodeFacts DEF NetRecvDown, CInv
<1>2. kind \notin {"mock", "sgd"} /\ src[c] = "off" /\ sink[c] = "off"
  BY <1>1 DEF CInv, ProgramFits, TransfersFit
<1>3. PICK s \in {"up", "ended", "raised"} : cpc' = [cpc EXCEPT ![c] = s]
  BY <1>1, <1>2, GotDownControl DEF NetRecvDown, ClientRaises, CInv, ControlOK
<1>4. /\ UNCHANGED <<served, spc, turn, src, sink, peer, file, netUp>>
      /\ DOMAIN netDown' = DOMAIN netDown /\ DOMAIN cmodel' = DOMAIN cmodel
  BY DEF NetRecvDown, ClientRaises, GotDown, transfer, net, server
<1>5. ClientMoves(c, s)
  BY <1>1, <1>2, <1>3, <1>4 DEF ClientMoves, CInv, ControlOK, ServerStates
<1> QED BY <1>5

LEMMA DiesControl ==
  ASSUME CInv, NEW c \in Users, Dies(c) PROVE ClientMoves(c, "dead")
<1>1. c \in ClientIds /\ c \in Nodes /\ kind # "mock"
  BY NodeFacts DEF Dies, CInv
<1>2. /\ cpc' = [cpc EXCEPT ![c] = "dead"]
      /\ src' = [src EXCEPT ![c] = "off"] /\ sink' = [sink EXCEPT ![c] = "off"]
      /\ UNCHANGED <<served, spc, turn, cmodel, peer, file, netUp, netDown>>
  BY DEF Dies, server, net
<1> QED BY <1>1, <1>2 DEF ClientMoves, CInv, ControlOK, SourceStates, SinkStates

(* A radio process starts, connects or accepts; nobody moves.              *)
RadioMoves ==
  /\ UNCHANGED <<served, spc, turn, cpc, file, netUp, netDown>>
  /\ src' \in [Nodes -> SourceStates] /\ sink' \in [Nodes -> SinkStates]
  /\ DOMAIN peer' = Nodes /\ DOMAIN cmodel' = ClientIds
  /\ \A p \in Nodes : /\ src'[p] # "off" => src[p] # "off" \/ Sends(p)
                      /\ sink'[p] # "off" => sink[p] # "off" \/ Waits(p)
                      /\ sink'[p] = "grace" <=> sink[p] = "grace"
                      /\ sink'[p] \in {"accept", "session"} => Reaches(peer'[p], p)

LEMMA RadioMovesControl == ASSUME CInv, RadioMoves PROVE CInv'
<1> USE DEF CInv
<1>0. UNCHANGED <<kind, up, down, clients, near, long, spc, turn, cpc, file, netUp, netDown>>
      /\ Users' = Users /\ ClientIds' = ClientIds /\ Nodes' = Nodes
  BY NamesStay DEF RadioMoves, served
<1>1. ControlOK'
  BY <1>0 DEF RadioMoves, ControlOK
<1>2. ProgramFits'
  BY <1>0 DEF ProgramFits
<1>3. TransfersFit'
  <2>1. ASSUME NEW c \in ClientIds
        PROVE  /\ src'[c] # "off" => cpc[c] = "up" /\ up = "radio"
               /\ sink'[c] # "off" => cpc[c] = "down" /\ down = "radio"
    BY NodeFacts DEF RadioMoves, TransfersFit, Sends, Waits
  <2>2. /\ src'[Server] # "off" => spc = "down" /\ down = "radio"
        /\ sink'[Server] # "off" => spc = "up" /\ up = "radio"
    BY NodeFacts DEF RadioMoves, TransfersFit, Sends, Waits
  <2>3. \A q \in Nodes : sink'[q] \in {"accept", "session"} => Reaches(peer'[q], q)
    BY DEF RadioMoves
  <2> QED BY <1>0, <2>1, <2>2, <2>3 DEF TransfersFit, Reaches
<1> QED BY <1>1, <1>2, <1>3

LEMMA StartSinkControl ==
  ASSUME CInv, NEW p \in Users \cup {Server}, StartSink(p)
  PROVE  RadioMoves \/ (p \in Users /\ ClientMoves(p, "raised"))
<1>1. p \in Nodes /\ (p # Server => p \in Users /\ p \in ClientIds)
  BY NodeFacts DEF CInv
<1>2. CASE Neighbour(p)
  <2>1. p # Server
    BY <1>2, NodeFacts DEF Neighbour, CInv
  <2>2. /\ cpc' = [cpc EXCEPT ![p] = "raised"] /\ sink[p] = "off" /\ cpc[p] = "down"
        /\ UNCHANGED <<served, spc, turn, cmodel, src, sink, peer, file, netUp, netDown>>
    BY <1>2, <2>1 DEF StartSink, Waits, server, net
  <2>3. src[p] = "off" /\ kind \notin {"mock", "sgd"}
    BY <1>1, <2>1, <2>2 DEF CInv, ProgramFits, TransfersFit
  <2>4. ClientMoves(p, "raised")
    BY <1>1, <2>1, <2>2, <2>3 DEF ClientMoves, CInv, ControlOK, ServerStates
  <2> QED BY <1>1, <2>1, <2>4
<1>3. CASE ~Neighbour(p)
  <2>1. /\ sink' = [sink EXCEPT ![p] = "listen"] /\ Waits(p) /\ sink[p] = "off"
        /\ UNCHANGED <<served, spc, turn, cpc, cmodel, src, peer, file, netUp, netDown>>
    BY <1>3 DEF StartSink, server, net
  <2>2. sink' \in [Nodes -> SinkStates]
    BY <2>1 DEF CInv, ControlOK, SinkStates
  <2>3. \A q \in Nodes : sink'[q] = IF q = p THEN "listen" ELSE sink[q]
    BY <2>1 DEF CInv, ControlOK
  <2>4. RadioMoves
    BY <2>1, <2>2, <2>3 DEF RadioMoves, CInv, ControlOK, TransfersFit
  <2> QED BY <2>4
<1> QED BY <1>2, <1>3

LEMMA StartSourceControl ==
  ASSUME CInv, NEW p \in Users \cup {Server}, StartSource(p)
  PROVE  RadioMoves
<1>1. p \in Nodes
  BY NodeFacts DEF CInv
<1>2. /\ src' = [src EXCEPT ![p] = "connect"] /\ Sends(p)
      /\ UNCHANGED <<served, spc, turn, cpc, sink, peer, file, netUp, netDown>>
      /\ DOMAIN cmodel' = DOMAIN cmodel
  BY DEF StartSource, server, net
<1>3. src' \in [Nodes -> SourceStates] /\ \A q \in Nodes : q # p => src'[q] = src[q]
  BY <1>2 DEF CInv, ControlOK, SourceStates
<1> QED BY <1>2, <1>3 DEF RadioMoves, CInv, ControlOK, TransfersFit

LEMMA ConnectControl ==
  ASSUME CInv, NEW p \in Users \cup {Server}, NEW q \in Nodes, Connect(p, q)
  PROVE  RadioMoves
<1>1. p \in Nodes
  BY NodeFacts DEF CInv
<1>2. /\ src[p] = "connect" /\ Reaches(p, q)
      /\ UNCHANGED <<served, spc, turn, cpc, cmodel, file, netUp, netDown>>
  BY DEF Connect, server, client, net
<1>3. CASE sink[q] = "listen"
  <2>1. /\ sink' = [sink EXCEPT ![q] = "accept"] /\ peer' = [peer EXCEPT ![q] = p]
        /\ src' = [src EXCEPT ![p] = "send"]
    BY <1>3 DEF Connect
  <2>2. /\ src' \in [Nodes -> SourceStates] /\ sink' \in [Nodes -> SinkStates]
        /\ \A r \in Nodes : /\ r # p => src'[r] = src[r]
                            /\ r # q => sink'[r] = sink[r] /\ peer'[r] = peer[r]
        /\ sink'[q] = "accept" /\ peer'[q] = p /\ DOMAIN peer' = Nodes
    BY <1>1, <2>1 DEF CInv, ControlOK, SourceStates, SinkStates
  <2> QED BY <1>2, <1>3, <2>2 DEF RadioMoves, CInv, ControlOK, TransfersFit
<1>4. CASE sink[q] # "listen"
  <2>1. src' = [src EXCEPT ![p] = "deaf"] /\ UNCHANGED <<sink, peer>>
    BY <1>4 DEF Connect
  <2>2. /\ src' \in [Nodes -> SourceStates]
        /\ \A r \in Nodes : r # p => src'[r] = src[r]
    BY <1>1, <2>1 DEF CInv, ControlOK, SourceStates
  <2> QED BY <1>2, <2>1, <2>2 DEF RadioMoves, CInv, ControlOK, TransfersFit
<1> QED BY <1>3, <1>4

LEMMA AcceptControl ==
  ASSUME CInv, NEW p \in Users \cup {Server}, Accept(p)
  PROVE  RadioMoves
<1>1. p \in Nodes
  BY NodeFacts DEF CInv
<1>2. /\ sink[p] = "accept" /\ sink' = [sink EXCEPT ![p] = "session"]
      /\ UNCHANGED <<served, spc, turn, cpc, cmodel, src, peer, file, netUp, netDown>>
  BY DEF Accept, server, client, net
<1>3. sink' \in [Nodes -> SinkStates] /\ \A q \in Nodes : q # p => sink'[q] = sink[q]
  BY <1>2 DEF CInv, ControlOK, SinkStates
<1> QED BY <1>1, <1>2, <1>3 DEF RadioMoves, CInv, ControlOK, TransfersFit

-----------------------------------------------------------------------------
(* The server goes on, its own transfer over.                              *)
ServerMoves(s, t) ==
  /\ s \in ServerStates /\ t \in 1..clients /\ spc' = s /\ turn' = t
  /\ kind # "mock" /\ (kind = "sgd" => s \in {"up", "ended"})
  /\ src' \in [Nodes -> SourceStates] /\ sink' \in [Nodes -> SinkStates]
  /\ \A p \in ClientIds : /\ src'[p] = src[p]
                          /\ sink'[p] = sink[p] \/ sink'[p] \notin {"accept", "session"}
                          /\ sink[p] = "off" => sink'[p] = "off"
  /\ src'[Server] = "off" /\ sink'[Server] = "off"
  /\ UNCHANGED <<served, cpc, peer, cmodel, netUp, netDown>> /\ DOMAIN file' = Nodes

LEMMA ServerMovesControl ==
  ASSUME CInv, NEW s, NEW t, ServerMoves(s, t) PROVE CInv'
<1> USE DEF CInv
<1>0. /\ UNCHANGED <<kind, up, down, clients, near, long, cpc, peer, netUp, netDown, cmodel>>
      /\ Users' = Users /\ ClientIds' = ClientIds /\ Nodes' = Nodes
  BY NamesStay DEF ServerMoves, served
<1>1. ControlOK'
  BY <1>0 DEF ServerMoves, ControlOK, Users
<1>2. ProgramFits'
  BY <1>0 DEF ServerMoves, ProgramFits
<1>3. TransfersFit'
  <2>1. ASSUME NEW c \in ClientIds
        PROVE  /\ src'[c] # "off" => cpc[c] = "up" /\ up = "radio"
               /\ sink'[c] # "off" => cpc[c] = "down" /\ down = "radio"
    BY DEF ServerMoves, TransfersFit
  <2>2. ASSUME NEW q \in Nodes, sink'[q] \in {"accept", "session"}
        PROVE  Reaches(peer[q], q)
    BY <2>2, NodeFacts DEF ServerMoves, TransfersFit
  <2> QED BY <1>0, <2>1, <2>2 DEF ServerMoves, TransfersFit, Reaches
<1> QED BY <1>1, <1>2, <1>3

(* Who sends in the program's radio transfers.                             *)
LEMMA SourceFacts ==
  ASSUME CInv, NEW p \in Nodes, src[p] # "off"
  PROVE  /\ kind # "mock"
         /\ p \in ClientIds => cpc[p] = "up" /\ sink[p] = "off" /\ up = "radio"
         /\ p = Server => /\ spc = "down" /\ sink[Server] = "off" /\ down = "radio"
                          /\ kind # "sgd"
BY NodeFacts DEF CInv, TransfersFit, ProgramFits

LEMMA SinkFacts ==
  ASSUME CInv, NEW p \in Nodes, sink[p] # "off"
  PROVE  /\ kind # "mock"
         /\ p \in ClientIds => /\ cpc[p] = "down" /\ src[p] = "off" /\ down = "radio"
                               /\ kind # "sgd"
         /\ p = Server => spc = "up" /\ src[Server] = "off" /\ up = "radio"
BY NodeFacts DEF CInv, TransfersFit, ProgramFits

LEMMA UploadControl ==
  ASSUME CInv, NEW p \in Users, NEW q \in Nodes, Deliver(p, q)
  PROVE  q = Server /\ \E s \in {"up", "down", "ended"} : ClientMoves(p, s)
<1>1. /\ src[p] = "send" /\ sink[q] = "session" /\ peer[q] = p
      /\ src' = [src EXCEPT ![p] = "off"] /\ sink' = [sink EXCEPT ![q] = "grace"]
      /\ DOMAIN file' = DOMAIN file
      /\ UNCHANGED <<served, peer, netUp, netDown>>
  BY DEF Deliver, net
<1>2. p \in ClientIds /\ p \in Nodes /\ p # Server
  BY NodeFacts DEF CInv
<1>3. q = Server
  BY <1>1, <1>2 DEF CInv, TransfersFit, Reaches
<1>4. SentUp(p) /\ UNCHANGED <<cmodel, spc, turn>>
  BY <1>2 DEF Deliver, Onwards, server
<1>5. cpc[p] = "up" /\ sink[p] = "off" /\ kind # "mock"
  BY <1>1, <1>2, SourceFacts
<1>6. PICK s \in {"up", "down", "ended"} : /\ cpc' = [cpc EXCEPT ![p] = s]
                                           /\ (kind = "sgd" => s # "down")
  BY <1>2, <1>4, <1>5, SentUpControl DEF CInv
<1>7. ClientMoves(p, s)
  BY <1>1, <1>2, <1>3, <1>4, <1>5, <1>6
     DEF ClientMoves, CInv, ControlOK, ServerStates, SourceStates, SinkStates
<1> QED BY <1>3, <1>7

LEMMA DownloadControl ==
  ASSUME CInv, NEW q \in Nodes, Deliver(Server, q)
  PROVE  /\ q \in Users /\ q \in near
         /\ \E s \in {"up", "down", "ended"}, t \in 1..clients : ServerMoves(s, t)
<1>1. /\ src[Server] = "send" /\ sink[q] = "session" /\ peer[q] = Server
      /\ src' = [src EXCEPT ![Server] = "off"] /\ sink' = [sink EXCEPT ![q] = "grace"]
      /\ DOMAIN file' = DOMAIN file
      /\ UNCHANGED <<served, peer, netUp, netDown>>
  BY DEF Deliver, net
<1>2. /\ q \in near /\ q \in Users
      /\ q \in ClientIds /\ Server \in Nodes /\ q # Server
      /\ ClientIds \subseteq Nodes /\ Server \notin ClientIds
  BY <1>1, NodeFacts DEF CInv, TransfersFit, Reaches
<1>3. SentDown /\ UNCHANGED <<cpc, cmodel>>
  BY DEF Deliver, Onwards, client
<1>4. spc = "down" /\ sink[Server] = "off" /\ kind \notin {"mock", "sgd"}
  BY <1>1, <1>2, SourceFacts
<1>5. turn' \in 1..clients /\ spc' \in {"up", "down", "ended"}
  BY <1>3, <1>4, SentDownControl DEF CInv
<1>6. ServerMoves(spc', turn')
  BY <1>1, <1>2, <1>3, <1>4, <1>5
     DEF ServerMoves, CInv, ControlOK, ServerStates, SourceStates, SinkStates
<1> QED BY <1>2, <1>5, <1>6

LEMMA ServerSinkEndsControl ==
  ASSUME CInv, SinkEnds(Server)
  PROVE  \E s \in {"up", "down", "ended"}, t \in 1..clients : ServerMoves(s, t)
<1>1. /\ sink[Server] = "grace" /\ sink' = [sink EXCEPT ![Server] = "off"]
      /\ GotUp(file[Server]) /\ DOMAIN file' = DOMAIN file
      /\ UNCHANGED <<served, cpc, cmodel, src, peer, netUp, netDown>>
  BY DEF SinkEnds, client, net
<1>2. Server \in Nodes /\ ClientIds \subseteq Nodes /\ Server \notin ClientIds
  BY NodeFacts DEF CInv
<1>3. spc = "up" /\ src[Server] = "off" /\ kind # "mock"
  BY <1>1, <1>2, SinkFacts
<1>4. turn' \in 1..clients /\ spc' \in {"up", "down", "ended"}
      /\ (kind = "sgd" => spc' \in {"up", "ended"})
  BY <1>1, <1>3, GotUpControl DEF CInv
<1>5. ServerMoves(spc', turn')
  BY <1>1, <1>2, <1>3, <1>4 DEF ServerMoves, CInv, ControlOK, ServerStates, SinkStates
<1> QED BY <1>4, <1>5

LEMMA ClientSinkEndsControl ==
  ASSUME CInv, NEW c \in Users, SinkEnds(c)
  PROVE  \E s \in {"up", "ended"} : ClientMoves(c, s)
<1>1. c \in ClientIds /\ c \in Nodes /\ c # Server
  BY NodeFacts DEF CInv
<1>2. /\ sink[c] = "grace" /\ sink' = [sink EXCEPT ![c] = "off"]
      /\ GotDown(c, file[c]) /\ DOMAIN file' = DOMAIN file
      /\ UNCHANGED <<served, spc, turn, src, peer, netUp, netDown>>
  BY <1>1 DEF SinkEnds, server, net
<1>3. cpc[c] = "down" /\ src[c] = "off" /\ kind \notin {"mock", "sgd"}
  BY <1>1, <1>2, SinkFacts
<1>4. PICK s \in {"up", "ended"} : cpc' = [cpc EXCEPT ![c] = s]
  BY <1>1, <1>2, <1>3, GotDownControl DEF CInv, ControlOK
<1>5. DOMAIN cmodel' = DOMAIN cmodel
  BY <1>2 DEF GotDown
<1>6. ClientMoves(c, s)
  BY <1>1, <1>2, <1>3, <1>4, <1>5 DEF ClientMoves, CInv, ControlOK, ServerStates, SinkStates
<1> QED BY <1>6

LEMMA GivesUpControl ==
  ASSUME CInv, NEW p \in Users \cup {Server}, GivesUp(p)
  PROVE  \/ p \in Users /\ \E s \in {"up", "down", "ended"} : ClientMoves(p, s)
         \/ p = Server /\ \E s \in {"up", "down", "ended"}, t \in 1..clients : ServerMoves(s, t)
<1>1. /\ p \in Nodes /\ Server \in Nodes
      /\ ClientIds \subseteq Nodes /\ Server \notin ClientIds
      /\ (p # Server => p \in Users /\ p \in ClientIds)
  BY NodeFacts DEF CInv
<1>2. /\ src[p] # "off" /\ src' = [src EXCEPT ![p] = "off"]
      /\ UNCHANGED <<served, sink, peer, file, netUp, netDown>>
  BY DEF GivesUp, Refused, net
<1>3. CASE p = Server
  <2>1. SentDown /\ UNCHANGED <<cpc, cmodel>>
    BY <1>3 DEF GivesUp, Onwards, client
  <2>2. spc = "down" /\ sink[Server] = "off" /\ kind \notin {"mock", "sgd"}
    BY <1>1, <1>2, <1>3, SourceFacts
  <2>3. turn' \in 1..clients /\ spc' \in {"up", "down", "ended"}
    BY <2>1, <2>2, SentDownControl DEF CInv
  <2>4. ServerMoves(spc', turn')
    BY <1>1, <1>2, <1>3, <2>1, <2>2, <2>3
       DEF ServerMoves, CInv, ControlOK, ServerStates, SourceStates
  <2> QED BY <1>3, <2>3, <2>4
<1>4. CASE p # Server
  <2>1. SentUp(p) /\ UNCHANGED <<cmodel, spc, turn>>
    BY <1>4 DEF GivesUp, Onwards, server
  <2>2. cpc[p] = "up" /\ sink[p] = "off" /\ kind # "mock"
    BY <1>1, <1>2, <1>4, SourceFacts
  <2>3. PICK s \in {"up", "down", "ended"} : /\ cpc' = [cpc EXCEPT ![p] = s]
                                             /\ (kind = "sgd" => s # "down")
    BY <1>1, <1>4, <2>1, <2>2, SentUpControl DEF CInv
  <2>4. ClientMoves(p, s)
    BY <1>1, <1>2, <1>4, <2>1, <2>2, <2>3
       DEF ClientMoves, CInv, ControlOK, ServerStates, SourceStates
  <2> QED BY <1>1, <1>4, <2>4
<1> QED BY <1>3, <1>4

LEMMA ControlInit == RoundsInit => CInv
<1> HAVE RoundsInit
<1>1. kind \in {"compressed", "full", "mock", "sgd"} /\ clients \in ClientIds /\ clients \in Nat
      /\ clients >= 1
  BY FederatedRoundsAssumption DEF RoundsInit, ClientIds
<1>2. First \in {"up", "down", "mock"} /\ (kind = "mock" <=> First = "mock")
      /\ (kind = "sgd" => First = "up")
  BY <1>1, FirstIs
<1>3. ControlOK
  BY <1>1, <1>2, FederatedRoundsAssumption
     DEF RoundsInit, ControlOK, Users, ServerStates, SourceStates, SinkStates
<1>4. ProgramFits
  BY <1>1, <1>2 DEF RoundsInit, ProgramFits, OverNet
<1>5. TransfersFit
  BY <1>3, NodeFacts DEF RoundsInit, TransfersFit
<1> QED BY <1>3, <1>4, <1>5 DEF CInv

LEMMA ControlNext == CInv /\ [RoundsNext]_roundsVars => CInv'
<1> SUFFICES ASSUME CInv, [RoundsNext]_roundsVars PROVE CInv'
  OBVIOUS
<1> USE ServerMovesControl, ClientMovesControl, RadioMovesControl
<1>1. CASE UNCHANGED roundsVars
  <2>1. UNCHANGED <<served, spc, turn, cpc, cmodel, src, sink, peer, file, netUp, netDown>>
    BY <1>1 DEF roundsVars, server, client, transfer, net
  <2> QED BY <2>1 DEF RadioMoves, CInv, ControlOK, TransfersFit
<1>2. CASE ServerNet
  BY <1>2, WaitAllControl, NetRecvUpControl, NetSendDownControl DEF ServerNet
<1>3. CASE MockRound
  BY <1>3, MockRoundControl
<1>4. ASSUME NEW c \in Users, ClientNet(c) PROVE CInv'
  BY <1>4, DialsControl, HelloControl, NetSendUpControl, NetRecvDownControl DEF ClientNet
<1>5. ASSUME NEW c \in Users, Dies(c) PROVE CInv'
  BY <1>5, DiesControl
<1>6. ASSUME NEW p \in Users \cup {Server}, Radio(p) PROVE CInv'
  <2>1. CASE StartSink(p) \/ StartSource(p) \/ Accept(p)
    BY <2>1, StartSinkControl, StartSourceControl, AcceptControl
  <2>2. CASE SinkEnds(p)
    BY <2>2, ServerSinkEndsControl, ClientSinkEndsControl
  <2>3. ASSUME NEW q \in Nodes, Connect(p, q) PROVE CInv'
    BY <2>3, ConnectControl
  <2>4. ASSUME NEW q \in Nodes, Deliver(p, q) PROVE CInv'
    BY <2>4, UploadControl, DownloadControl
  <2> QED BY <1>6, <2>1, <2>2, <2>3, <2>4 DEF Radio
<1>7. ASSUME NEW p \in Users \cup {Server}, GivesUp(p) PROVE CInv'
  BY <1>7, GivesUpControl
<1> QED BY <1>1, <1>2, <1>3, <1>4, <1>5, <1>6, <1>7 DEF RoundsNext

(* A client is through with wait_all once its HELLO is sent.               *)
GInv == /\ DOMAIN greeting = ClientIds
        /\ \A c \in ClientIds : greeting[c] = "hello" => cpc[c] # "hello"

LEMMA GreetingInit == RoundsInit => GInv
BY DEF RoundsInit, GInv

(* Nobody returns to its HELLO.                                            *)
LEMMA NobodyReturns ==
  ASSUME CInv, [RoundsNext]_roundsVars, NEW c \in ClientIds, cpc'[c] = "hello"
  PROVE  cpc[c] = "hello"
<1>0. First # "hello"
  BY FirstIs DEF CInv, ControlOK
<1>1. DOMAIN cpc = ClientIds /\ cpc = [x \in ClientIds |-> cpc[x]]
  BY DEF CInv, ControlOK
<1>2. CASE UNCHANGED cpc
  BY <1>2
<1>3. ASSUME NEW d, NEW s, s # "hello", cpc' = [cpc EXCEPT ![d] = s]
      PROVE  cpc[c] = "hello"
  BY <1>1, <1>3
<1>4. ASSUME NEW d, SentUp(d) \/ ClientEndsRound(d) PROVE cpc[c] = "hello"
  <2>1. \E s : s # "hello" /\ cpc' = [cpc EXCEPT ![d] = s]
    BY <1>0, <1>4 DEF SentUp, ClientEndsRound
  <2> QED BY <1>3, <2>1
<1>5. ASSUME NEW d, NEW got, GotDown(d, got) PROVE cpc[c] = "hello"
  <2>1. cpc' = [cpc EXCEPT ![d] = "up"] \/ ClientEndsRound(d)
    BY <1>5 DEF GotDown
  <2> QED BY <1>3, <1>4, <2>1
<1>6. ASSUME NEW d, ClientRaises(d) PROVE cpc[c] = "hello"
  BY <1>3, <1>6 DEF ClientRaises
<1>7. CASE ServerNet \/ UNCHANGED roundsVars
  BY <1>2, <1>7 DEF ServerNet, WaitAll, NetRecvUp, NetSendDown, ServerRaises, client,
                    roundsVars
<1>8. CASE MockRound
  <2>1. UNCHANGED cpc \/ cpc' = [d \in ClientIds |-> "ended"]
    BY <1>8 DEF MockRound
  <2> QED BY <1>2, <2>1
<1>9. ASSUME NEW d \in Users, ClientNet(d) \/ Dies(d) PROVE cpc[c] = "hello"
  <2>1. CASE Dials(d)
    BY <1>2, <1>6, <2>1 DEF Dials, client
  <2>2. CASE Hello(d) \/ Dies(d)
    BY <1>0, <1>3, <2>2 DEF Hello, Dies
  <2>3. CASE NetSendUp(d)
    BY <1>4, <1>6, <2>3 DEF NetSendUp
  <2>4. CASE NetRecvDown(d)
    BY <1>5, <1>6, <2>4 DEF NetRecvDown
  <2> QED BY <1>9, <2>1, <2>2, <2>3, <2>4 DEF ClientNet
<1>10. ASSUME NEW p, Onwards(p) PROVE cpc[c] = "hello"
  BY <1>2, <1>4, <1>10 DEF Onwards, client
<1>11. ASSUME NEW p, Radio(p) \/ GivesUp(p) PROVE cpc[c] = "hello"
  <2>1. CASE StartSink(p)
    BY <1>2, <1>3, <2>1 DEF StartSink
  <2>2. CASE StartSource(p) \/ Accept(p) \/ \E q \in Nodes : Connect(p, q)
    BY <1>2, <2>2 DEF StartSource, Accept, Connect, client
  <2>3. CASE SinkEnds(p)
    BY <1>2, <1>5, <2>3 DEF SinkEnds, client
  <2>4. CASE GivesUp(p) \/ \E q \in Nodes : Deliver(p, q)
    BY <1>10, <2>4 DEF GivesUp, Deliver
  <2> QED BY <1>11, <2>1, <2>2, <2>3, <2>4 DEF Radio
<1> QED BY <1>7, <1>8, <1>9, <1>11 DEF RoundsNext

LEMMA GreetingNext == CInv /\ GInv /\ [RoundsNext]_roundsVars => GInv'
<1> SUFFICES ASSUME CInv, GInv, [RoundsNext]_roundsVars PROVE GInv'
  OBVIOUS
<1>1. First # "hello" /\ Users \subseteq ClientIds
  BY NodeFacts, FirstIs DEF CInv, ControlOK
<1>2. ClientIds' = ClientIds
  BY DEF ClientIds
<1>3. CASE UNCHANGED greeting
  BY <1>2, <1>3, NobodyReturns DEF GInv
<1>4. ASSUME NEW c \in Users, Hello(c) PROVE GInv'
  <2>1. greeting' = [greeting EXCEPT ![c] = "hello"] /\ cpc' = [cpc EXCEPT ![c] = First]
    BY <1>4 DEF Hello
  <2> QED BY <1>1, <1>2, <2>1, NobodyReturns DEF GInv, CInv, ControlOK
<1>5. ASSUME NEW c \in Users, Dials(c) \/ Dies(c) PROVE GInv'
  <2>1. \A d \in ClientIds : greeting'[d] = "hello" => greeting[d] = "hello"
    BY <1>3, <1>5 DEF Dials, Dies, ClientRaises, net, GInv
  <2>2. DOMAIN greeting' = DOMAIN greeting
    BY <1>5 DEF Dials, Dies, ClientRaises, net
  <2> QED BY <1>2, <2>1, <2>2, NobodyReturns DEF GInv
<1>6. \/ UNCHANGED greeting
      \/ \E c \in Users : Hello(c) \/ Dials(c) \/ Dies(c)
  BY DEF RoundsNext, roundsVars, ServerNet, WaitAll, NetRecvUp, NetSendDown, MockRound,
         ClientNet, NetSendUp, NetRecvDown, Radio, StartSink, StartSource, Accept, SinkEnds,
         Connect, Deliver, GivesUp, ServerRaises, ClientRaises, net
<1> QED BY <1>3, <1>4, <1>5, <1>6

LEMMA ServedStays == [RoundsNext]_roundsVars => UNCHANGED served
BY DEF RoundsNext, roundsVars, ServerNet, WaitAll, NetRecvUp, NetSendDown,
       MockRound, ClientNet, Dials, Hello, NetSendUp, NetRecvDown, Dies,
       Radio, StartSink, StartSource, Accept, SinkEnds, Connect,
       Deliver, GivesUp, ServerRaises, ClientRaises

LEMMA LostGrows == [RoundsNext]_roundsVars => lost \subseteq lost'
BY DEF RoundsNext, roundsVars, ServerNet, WaitAll, NetRecvUp, NetSendDown,
       MockRound, ClientNet, Dials, Hello, NetSendUp, NetRecvDown, Dies,
       Radio, StartSink, StartSource, Accept, SinkEnds, Connect,
       Deliver, GivesUp, ServerRaises, ClientRaises

-----------------------------------------------------------------------------
(* In one process (run_mock) nothing can come between.                     *)
Item == [by : Nat, base : Nat]
Models == Seq(SUBSET Item)

LEMMA Appended ==
  ASSUME NEW s \in Models, NEW e \in SUBSET Item
  PROVE  /\ Append(s, e) \in Models /\ Len(s) \in Nat /\ Len(Append(s, e)) = Len(s) + 1
         /\ \A i \in 1..Len(s) : Append(s, e)[i] = s[i]
         /\ Append(s, e)[Len(s) + 1] = e /\ Append(s, e) # <<>>
BY DEF Models

MockInv ==
  /\ model \in Models
  /\ \A c \in ClientIds : cmodel[c] = model
  /\ \A i \in 1..Len(model) : model[i] = {[by |-> c, base |-> i - 1] : c \in Users}

MInv == kind = "mock" => MockInv

LEMMA OnlyMockRounds ==
  ASSUME CInv, kind = "mock", RoundsNext PROVE MockRound
<1>1. /\ spc \in {"mock", "ended"} /\ \A c \in ClientIds : cpc[c] \in {"mock", "ended"}
      /\ \A p \in Nodes : src[p] = "off" /\ sink[p] = "off"
  BY NodeFacts DEF CInv, ProgramFits, TransfersFit
<1>2. Users \subseteq ClientIds /\ ClientIds \subseteq Nodes /\ Server \in Nodes
  BY NodeFacts DEF CInv
<1>3. ~ServerNet
  BY <1>1 DEF ServerNet, WaitAll, NetRecvUp, NetSendDown
<1>4. ASSUME NEW c \in Users PROVE ~ClientNet(c) /\ ~Dies(c)
  BY <1>1, <1>2 DEF ClientNet, Dials, Hello, NetSendUp, NetRecvDown, Dies
<1>5. ASSUME NEW p \in Users \cup {Server} PROVE ~Radio(p) /\ ~GivesUp(p)
  <2>1. /\ p \in Nodes /\ src[p] = "off" /\ sink[p] = "off"
        /\ (p # Server => p \in ClientIds)
    BY <1>1, <1>2
  <2>2. ~Sends(p) /\ ~Waits(p)
    BY <1>1, <2>1 DEF Sends, Waits
  <2> QED BY <2>1, <2>2 DEF Radio, StartSink, StartSource, Accept, SinkEnds,
                            Connect, Deliver,
             GivesUp, Refused
<1> QED BY <1>3, <1>4, <1>5 DEF RoundsNext

LEMMA MockInit == RoundsInit => MInv
BY DEF RoundsInit, MInv, MockInv, Models

LEMMA MockNext == CInv /\ MInv /\ [RoundsNext]_roundsVars => MInv'
<1> SUFFICES ASSUME CInv, MockInv, kind = "mock", [RoundsNext]_roundsVars PROVE MInv'
  BY ServedStays DEF MInv, served
<1>1. CASE UNCHANGED roundsVars
  BY <1>1 DEF roundsVars, served, server, client, MInv, MockInv, Users, ClientIds
<1>2. CASE RoundsNext
  <2>1. MockRound
    BY <1>2, OnlyMockRounds
  <2>2. /\ model' = Append(model, {Own(c) : c \in Users}) /\ UNCHANGED <<kind, clients>>
        /\ cmodel' = [c \in ClientIds |-> model']
    BY <2>1 DEF MockRound, served
  <2>3. \A c \in Users : c \in ClientIds /\ c \in Nat
    BY NodeFacts DEF CInv
  <2>4. Len(model) \in Nat /\ \A c \in Users : Own(c) = [by |-> c, base |-> Len(model)]
    BY <2>3 DEF Own, MockInv, Models
  <2>5. {Own(c) : c \in Users} = {[by |-> c, base |-> Len(model)] : c \in Users}
    BY <2>4
  <2>6. {Own(c) : c \in Users} \in SUBSET Item /\ Len(model) \in Nat
    BY <2>3, <2>4 DEF Item
  <2>7. /\ model' \in Models /\ Len(model') = Len(model) + 1
        /\ \A i \in 1..Len(model) : model'[i] = model[i]
        /\ model'[Len(model) + 1] = {Own(c) : c \in Users}
    BY <2>2, <2>6, Appended DEF MockInv
  <2>8. ASSUME NEW i \in 1..Len(model')
        PROVE  model'[i] = {[by |-> c, base |-> i - 1] : c \in Users}
    <3>1. CASE i \in 1..Len(model)
      BY <2>7, <3>1 DEF MockInv
    <3>2. CASE i = Len(model) + 1
      BY <2>5, <2>6, <2>7, <3>2
    <3> QED BY <2>6, <2>7, <3>1, <3>2
  <2>9. Users' = Users /\ ClientIds' = ClientIds
    BY <2>2 DEF Users, ClientIds
  <2> QED BY <2>2, <2>7, <2>8, <2>9 DEF MInv, MockInv
<1> QED BY <1>1, <1>2

-----------------------------------------------------------------------------
(* The worker and its mirror: both models are the same sequence of the     *)
(* worker's updates, the worker's longer by the one its source has and the *)
(* one the server's sink still holds back.                                 *)
Update(i) == {[by |-> 1, base |-> i - 1]}
InGrace == sink[Server] = "grace"
Sending == src[1] # "off"

SgdInv ==
  /\ model \in Models /\ cmodel[1] \in Models /\ deltas = {}
  /\ \A i \in 1..Len(model) : model[i] = Update(i)
  /\ \A i \in 1..Len(cmodel[1]) : cmodel[1][i] = Update(i)
  /\ Len(cmodel[1]) = Len(model) + (IF Sending THEN 1 ELSE 0) + (IF InGrace THEN 1 ELSE 0)
  /\ InGrace => file[Server] = [by |-> 1, base |-> Len(model)]

WInv == kind = "sgd" /\ lost = {} => SgdInv

LEMMA NextUpdate == \A n \in Nat : Update(n + 1) = {[by |-> 1, base |-> n]}
<1> SUFFICES ASSUME NEW n \in Nat PROVE Update(n + 1) = {[by |-> 1, base |-> n]}
  OBVIOUS
<1>1. n + 1 - 1 = n
  OBVIOUS
<1> QED BY <1>1 DEF Update

LEMMA SgdFacts ==
  ASSUME CInv, kind = "sgd"
  PROVE  /\ Users = {1} /\ Nodes # {} /\ 1 \in ClientIds /\ 1 \in Nodes
         /\ Server \in Nodes
         /\ clients = 1 /\ turn = 1
         /\ \A c \in ClientIds : sink[c] = "off"
         /\ src[Server] = "off" /\ spc \notin {"hello", "down", "mock"}
         /\ up = "radio" /\ down = "radio" /\ cpc[1] \notin {"down", "hello"}
BY NodeFacts DEF CInv, ControlOK, ProgramFits, TransfersFit, Users

(* The worker's side of its transfer: what grows is the worker's model.    *)
LEMMA WorkerApplies ==
  ASSUME CInv, SgdInv, kind = "sgd", StartSource(1)
  PROVE  SgdInv'
<1>1. /\ src[1] = "off" /\ src' = [src EXCEPT ![1] = "connect"]
      /\ cmodel' = [cmodel EXCEPT ![1] = Append(@, {[by |-> 1, base |-> Len(@)]})]
      /\ UNCHANGED <<model, deltas, sink, file>>
  BY DEF StartSource, server
<1>2. 1 \in ClientIds /\ 1 \in Nodes /\ 1 \in DOMAIN cmodel /\ 1 \in DOMAIN src
  BY SgdFacts DEF CInv, ControlOK
<1>3. src'[1] = "connect" /\ cmodel'[1] = Append(cmodel[1], {[by |-> 1, base |-> Len(cmodel[1])]})
  BY <1>1, <1>2
<1>4. cmodel[1] \in Models /\ Len(cmodel[1]) \in Nat
      /\ {[by |-> 1, base |-> Len(cmodel[1])]} \in SUBSET Item
  <2>1. cmodel[1] \in Models
    BY DEF SgdInv
  <2>2. Len(cmodel[1]) \in Nat
    BY <2>1 DEF Models
  <2> QED BY <2>1, <2>2 DEF Item
<1>5. /\ cmodel'[1] \in Models /\ Len(cmodel'[1]) = Len(cmodel[1]) + 1
      /\ \A i \in 1..Len(cmodel[1]) : cmodel'[1][i] = cmodel[1][i]
      /\ cmodel'[1][Len(cmodel[1]) + 1] = Update(Len(cmodel[1]) + 1)
  <2>1. Update(Len(cmodel[1]) + 1) = {[by |-> 1, base |-> Len(cmodel[1])]}
    BY <1>4, NextUpdate
  <2>2. PICK e \in SUBSET Item : e = {[by |-> 1, base |-> Len(cmodel[1])]}
    BY <1>4
  <2>3. cmodel'[1] = Append(cmodel[1], e) /\ cmodel[1] \in Models
    BY <1>3, <1>4, <2>2
  <2>4. Update(Len(cmodel[1]) + 1) = e
    BY <2>1, <2>2
  <2> QED BY <2>3, <2>4, Appended
<1>6. ASSUME NEW i \in 1..Len(cmodel'[1]) PROVE cmodel'[1][i] = Update(i)
  <2>1. CASE i \in 1..Len(cmodel[1])
    BY <1>5, <2>1 DEF SgdInv
  <2>2. CASE i = Len(cmodel[1]) + 1
    BY <1>5, <2>2
  <2> QED BY <1>4, <1>5, <2>1, <2>2
<1>7. InGrace' = InGrace /\ Sending' /\ ~Sending
  BY <1>1, <1>3 DEF InGrace, Sending
<1>8. Len(model) \in Nat
  BY DEF SgdInv
<1>9. Len(cmodel'[1]) = Len(model') + (IF Sending' THEN 1 ELSE 0) + (IF InGrace' THEN 1 ELSE 0)
  BY <1>1, <1>4, <1>5, <1>7, <1>8 DEF SgdInv
<1> QED BY <1>1, <1>5, <1>6, <1>7, <1>9 DEF SgdInv, Update

LEMMA WorkerDelivers ==
  ASSUME CInv, SgdInv, kind = "sgd", NEW q \in Nodes, Deliver(1, q)
  PROVE  SgdInv'
<1>1. q = Server /\ UNCHANGED <<model, deltas, cmodel>>
  BY UploadControl, SgdFacts DEF Deliver, Onwards, Server, server
<1>2. /\ src[1] = "send" /\ sink[Server] = "session"
      /\ src' = [src EXCEPT ![1] = "off"] /\ sink' = [sink EXCEPT ![Server] = "grace"]
  BY <1>1 DEF Deliver
<1>3. 1 \in DOMAIN src /\ Server \in DOMAIN sink /\ Server \in DOMAIN file
  BY SgdFacts DEF CInv, ControlOK
<1>4. Sending /\ ~InGrace /\ ~Sending' /\ InGrace'
  BY <1>2, <1>3 DEF Sending, InGrace
<1>5. Len(cmodel[1]) = Len(model) + 1 /\ Len(model) \in Nat
  BY <1>4 DEF SgdInv
<1>6. file'[Server] = Own(1)
  <2>1. ~\E o \in Users : src[o] = "deaf"
    BY <1>2, SgdFacts
  <2>2. PICK got \in {Content(1)} : file' = [file EXCEPT ![Server] = got]
    BY <1>1, <2>1 DEF Deliver
  <2> QED BY <1>3, <2>2 DEF Content, Server
<1>7. file'[Server] = [by |-> 1, base |-> Len(model)]
  BY <1>5, <1>6 DEF Own
<1> QED BY <1>1, <1>4, <1>5, <1>7 DEF SgdInv, Update

(* The mirror takes what its sink held back.                               *)
LEMMA MirrorApplies ==
  ASSUME CInv, SgdInv, kind = "sgd", SinkEnds(Server)
  PROVE  SgdInv'
<1>1. /\ sink[Server] = "grace" /\ sink' = [sink EXCEPT ![Server] = "off"]
      /\ GotUp(file[Server]) /\ UNCHANGED <<cmodel, src>>
  BY DEF SinkEnds, client
<1>2. InGrace /\ ~InGrace' /\ Sending' = Sending
  BY <1>1, SgdFacts DEF InGrace, Sending, CInv, ControlOK
<1>3. deltas' = {} /\ model' = Append(model, deltas \cup {file[Server]})
  BY <1>1, SgdFacts DEF GotUp
<1>4. Len(model) \in Nat /\ deltas \cup {file[Server]} = {[by |-> 1, base |-> Len(model)]}
  BY <1>2 DEF SgdInv, Models
<1>5. {[by |-> 1, base |-> Len(model)]} \in SUBSET Item
  BY <1>4 DEF Item
<1>6. /\ model' \in Models /\ Len(model') = Len(model) + 1
      /\ \A i \in 1..Len(model) : model'[i] = model[i]
      /\ model'[Len(model) + 1] = Update(Len(model) + 1)
  <2>1. PICK e \in SUBSET Item : e = {[by |-> 1, base |-> Len(model)]}
    BY <1>5
  <2>2. model' = Append(model, e) /\ model \in Models /\ Update(Len(model) + 1) = e
    BY <1>3, <1>4, <2>1, NextUpdate DEF SgdInv
  <2> QED BY <2>2, Appended
<1>7. ASSUME NEW i \in 1..Len(model') PROVE model'[i] = Update(i)
  <2>1. CASE i \in 1..Len(model)
    BY <1>6, <2>1 DEF SgdInv
  <2>2. CASE i = Len(model) + 1
    BY <1>6, <2>2
  <2> QED BY <1>4, <1>6, <2>1, <2>2
<1>8. Len(cmodel[1]) = Len(model') + (IF Sending' THEN 1 ELSE 0) + (IF InGrace' THEN 1 ELSE 0)
  BY <1>2, <1>4, <1>6 DEF SgdInv
<1> QED BY <1>1, <1>2, <1>3, <1>6, <1>7, <1>8 DEF SgdInv, Update

LEMMA SgdInit == RoundsInit => WInv
<1> HAVE RoundsInit
<1> SUFFICES ASSUME kind = "sgd" PROVE SgdInv
  BY DEF WInv
<1>1. 1 \in ClientIds /\ 1 \in Nodes /\ Server \in Nodes
  BY ControlInit, SgdFacts
<1>2. cmodel[1] = <<>> /\ model = <<>> /\ deltas = {} /\ ~Sending /\ ~InGrace
  BY <1>1 DEF RoundsInit, Sending, InGrace
<1> QED BY <1>2 DEF SgdInv, Models

LEMMA SgdNext == CInv /\ WInv /\ [RoundsNext]_roundsVars => WInv'
<1> SUFFICES ASSUME CInv, SgdInv, kind = "sgd", lost = {}, [RoundsNext]_roundsVars, lost' = {}
             PROVE SgdInv'
  BY ServedStays, LostGrows DEF WInv, served
<1>0. /\ Users = {1} /\ 1 \in Nodes /\ Server \in Nodes /\ src[Server] = "off"
      /\ spc \notin {"hello", "down", "mock"} /\ cpc[1] \notin {"down", "hello"}
      /\ up = "radio" /\ down = "radio" /\ sink[1] = "off" /\ 1 # Server
  BY SgdFacts DEF Server
<1>1. /\ SgdInv /\ UNCHANGED <<model, cmodel, deltas, file>>
      /\ Sending' = Sending /\ InGrace' = InGrace
      => SgdInv'
  <2> SUFFICES ASSUME UNCHANGED <<model, cmodel, deltas, file>>, Sending' = Sending,
                      InGrace' = InGrace
               PROVE  SgdInv'
    OBVIOUS
  <2>1. /\ Len(cmodel'[1]) = Len(model') + (IF Sending' THEN 1 ELSE 0) + (IF InGrace' THEN 1 ELSE 0)
        /\ InGrace' => file'[Server] = [by |-> 1, base |-> Len(model')]
    BY DEF SgdInv
  <2>2. /\ model' \in Models /\ cmodel'[1] \in Models /\ deltas' = {}
        /\ \A i \in 1..Len(model') : model'[i] = Update(i)
        /\ \A i \in 1..Len(cmodel'[1]) : cmodel'[1][i] = Update(i)
    BY DEF SgdInv
  <2> QED BY <2>1, <2>2 DEF SgdInv, Update
<1>2. CASE UNCHANGED roundsVars
  BY <1>1, <1>2 DEF roundsVars, server, client, transfer, Sending, InGrace
<1>3. ~ServerNet /\ ~MockRound /\ ~ClientNet(1) /\ ~Dies(1)
  BY <1>0 DEF ServerNet, WaitAll, NetRecvUp, NetSendDown, MockRound,
              ClientNet, Dials, Hello, NetSendUp,
              NetRecvDown, Dies
<1>4. ASSUME NEW p \in {1, Server} PROVE ~GivesUp(p)
  BY DEF GivesUp
<1>5. ASSUME NEW p \in {1, Server}, Radio(p) PROVE SgdInv'
  <2>1. CASE StartSource(p)
    BY <1>0, <2>1, WorkerApplies DEF StartSource, Sends
  <2>2. CASE SinkEnds(p)
    BY <1>0, <2>2, MirrorApplies DEF SinkEnds
  <2>3. ASSUME NEW q \in Nodes, Deliver(p, q) PROVE SgdInv'
    BY <1>0, <2>3, WorkerDelivers DEF Deliver
  <2>4. CASE StartSink(p)
    <3>1. sink' = [sink EXCEPT ![p] = "listen"] /\ p = Server /\ sink[p] = "off"
      BY <1>0, <2>4 DEF StartSink, Waits
    <3>2. UNCHANGED <<model, cmodel, deltas, file, src>>
      <4>1. ~Neighbour(p)
        BY <2>4 DEF StartSink
      <4> QED BY <2>4, <4>1 DEF StartSink, server
    <3>3. Sending' = Sending /\ InGrace' = InGrace
      BY <1>0, <3>1, <3>2 DEF Sending, InGrace, CInv, ControlOK
    <3> QED BY <1>1, <3>2, <3>3
  <2>5. CASE Accept(p)
    <3>1. /\ sink[p] = "accept" /\ sink' = [sink EXCEPT ![p] = "session"]
          /\ UNCHANGED <<model, cmodel, deltas, file, src>>
      BY <2>5 DEF Accept, server, client
    <3>2. Sending' = Sending /\ InGrace' = InGrace
      BY <1>0, <3>1 DEF Sending, InGrace, CInv, ControlOK
    <3> QED BY <1>1, <3>1, <3>2
  <2>6. ASSUME NEW q \in Nodes, Connect(p, q) PROVE SgdInv'
    <3>1. /\ src[p] = "connect" /\ src' = [src EXCEPT ![p] = "send"]
          /\ sink[q] = "listen" /\ sink' = [sink EXCEPT ![q] = "accept"]
          /\ UNCHANGED <<model, cmodel, deltas, file>>
      BY <2>6 DEF Connect, server, client
    <3>2. Sending' = Sending /\ InGrace' = InGrace
      BY <1>0, <3>1 DEF Sending, InGrace, CInv, ControlOK
    <3> QED BY <1>1, <3>1, <3>2
  <2> QED BY <1>5, <2>1, <2>2, <2>3, <2>4, <2>5, <2>6 DEF Radio
<1> QED BY <1>0, <1>2, <1>3, <1>4, <1>5 DEF RoundsNext

-----------------------------------------------------------------------------
(* fl.py over the modem.  What a client has on its way up or down, and     *)
(* when it has done its part of the round the server collects.             *)
Mine(c) == [by |-> c, base |-> Len(model)]
Held == IF InGrace THEN 1 ELSE 0
Items == deltas \cup (IF InGrace THEN {file[Server]} ELSE {})
Carries(c) == cpc[c] \in {"up", "hello"} \/ netUp[c] # <<>>
Coming(c) == netDown[c] # <<>> \/ sink[c] = "grace"
Even(c) == cmodel[c] = model
Late(c) == model # <<>> /\ model = Append(cmodel[c], Last(model))
Done(c) == /\ Even(c) /\ ~Carries(c) /\ ~Coming(c)
           /\ Mine(c) \in Items \/ Garbled \in Items
Gathering == spc \in {"hello", "up"} \/ (kind = "full" /\ spc = "down")

DataOK == model \in Models /\ cmodel \in [ClientIds -> Models]

Starts == spc = "hello" => model = <<>> /\ turn = 1 /\ deltas = {}

Followers == \A c \in Users : /\ Even(c) \/ Late(c)
                              /\ cpc[c] \in {"up", "hello"} => Even(c)
                              /\ cpc[c] = "hello" => spc \in {"hello", "raised"}

OnTheWayDown == \A c \in Users : /\ Coming(c) => ~Carries(c) /\ (kind = "compressed" => Late(c))
                                 /\ netDown[c] # <<>> => down = "net" /\ netDown[c] = <<DownFrame>>
                                 /\ sink[c] = "grace" => file[c] = DownFrame

OnTheWayUp == \A c \in Users : netUp[c] # <<>> => /\ netUp[c] = <<Mine(c)>> /\ Even(c)
                                                  /\ cpc[c] \notin {"up", "hello"}

(* Whose contributions the server has, although it cannot know.            *)
Contributed(S) == /\ S \subseteq Users /\ Cardinality(S) = turn - 1 + Held
                  /\ \A c \in S : Done(c)
                  /\ kind = "full" => S = 1..(turn - 1 + Held)
Collected == Gathering => /\ Items \subseteq {Mine(c) : c \in Users} \cup {Garbled}
                          /\ \E S : Contributed(S)

Spreading == kind = "compressed" /\ spc = "down" =>
  /\ model # <<>> /\ deltas = {}
  /\ \A c \in Users : c >= turn => Late(c) /\ ~Carries(c) /\ ~Coming(c)

OneAtATime == kind = "full" =>
  \A c \in Users : cpc[c] = "up" \/ netUp[c] # <<>> \/ Coming(c)
                   => c = turn /\ spc \notin {"hello", "down"}

Fair(i) == model[i] = {[by |-> c, base |-> i - 1] : c \in Users} \/ Garbled \in model[i]
AllFair == \A i \in 1..Len(model) : Fair(i)

RoundInv == /\ DataOK /\ Starts /\ Followers /\ OnTheWayDown /\ OnTheWayUp
            /\ Collected /\ Spreading /\ OneAtATime /\ AllFair

Plain == kind \in {"compressed", "full"} /\ ~Misdirected
PInv == Plain => RoundInv

LEMMA PlainInit == RoundsInit => PInv
<1> HAVE RoundsInit
<1> SUFFICES ASSUME Plain PROVE RoundInv
  BY DEF PInv
<1>0. CInv
  BY ControlInit
<1>1. /\ model = <<>> /\ turn = 1 /\ deltas = {} /\ ~InGrace
      /\ \A c \in ClientIds : /\ cmodel[c] = <<>> /\ netUp[c] = <<>> /\ netDown[c] = <<>>
                              /\ sink[c] = "off"
      /\ cmodel \in [ClientIds -> {<<>>}]
  BY <1>0, NodeFacts DEF RoundsInit, InGrace, CInv
<1>2. Users \subseteq ClientIds
  BY <1>0, NodeFacts DEF CInv
<1>3. kind \in {"compressed", "full"} /\ First = (IF kind = "full" THEN "down" ELSE "up")
  BY FirstIs DEF Plain
<1>4. spc = (IF OverNet THEN "hello" ELSE First)
      /\ \A c \in Users : cpc[c] = (IF OverNet THEN "hello" ELSE First)
  BY <1>2 DEF RoundsInit
<1>5. DataOK /\ Starts
  <2>1. <<>> \in Models
    BY DEF Models
  <2> QED BY <1>1, <2>1 DEF DataOK, Starts
<1>6. Followers /\ OnTheWayUp /\ OnTheWayDown
  BY <1>1, <1>2, <1>3, <1>4 DEF Followers, OnTheWayUp, OnTheWayDown, Even, Coming
<1>7. OneAtATime /\ Spreading
  BY <1>1, <1>2, <1>3, <1>4 DEF OneAtATime, Spreading, Coming
<1>8. Collected
  <2>1. Cardinality({}) = 0 /\ 1..(turn - 1 + Held) = {} /\ turn - 1 + Held = 0
    BY <1>1, FS_EmptySet DEF Held
  <2>2. Contributed({}) /\ Items = {}
    BY <1>1, <2>1 DEF Contributed, Items
  <2> QED BY <2>2 DEF Collected
<1>9. AllFair
  BY <1>1 DEF AllFair
<1> QED BY <1>5, <1>6, <1>7, <1>8, <1>9 DEF RoundInv

(* A client that falls back -- it moves on to wait, stops, gives up or has *)
(* only started a radio process -- disturbs nothing.                       *)
FallsBack ==
  /\ UNCHANGED <<served, spc, turn, deltas, model, cmodel, netUp, netDown>>
  /\ \A c \in Users : /\ cpc'[c] \in {"up", "hello"} => cpc[c] \in {"up", "hello"}
                      /\ cpc'[c] = "hello" => cpc[c] = "hello"
                      /\ cpc'[c] = "up" /\ kind = "full" => cpc[c] = "up"
                      /\ sink'[c] = "grace" => sink[c] = "grace"
                      /\ file'[c] = file[c]
  /\ sink'[Server] = "grace" <=> sink[Server] = "grace"
  /\ file'[Server] = file[Server]

LEMMA FallingBackIsSafe ==
  ASSUME RoundInv, FallsBack PROVE RoundInv'
<1>1. /\ UNCHANGED <<kind, down, clients, spc, turn, deltas, model, cmodel, netUp, netDown>>
      /\ Users' = Users /\ ClientIds' = ClientIds /\ DownFrame' = DownFrame
      /\ InGrace' = InGrace /\ Gathering' = Gathering
  BY NamesStay DEF FallsBack, served, DownFrame, InGrace, Gathering
<1>2. Items' = Items /\ Held' = Held
  BY <1>1 DEF Items, Held, FallsBack
<1>3. \A c \in Users : /\ Even(c)' = Even(c) /\ Late(c)' = Late(c) /\ Mine(c)' = Mine(c)
                       /\ Carries(c)' => Carries(c)
                       /\ Coming(c)' => Coming(c)
  BY <1>1 DEF FallsBack, Even, Late, Mine, Carries, Coming
<1>4. DataOK' /\ Starts'
  BY <1>1 DEF RoundInv, DataOK, Starts
<1>5. Followers'
  BY <1>1, <1>3 DEF RoundInv, Followers, FallsBack
<1>6. OnTheWayDown'
  BY <1>1, <1>3 DEF RoundInv, OnTheWayDown, FallsBack
<1>7. OnTheWayUp'
  BY <1>1, <1>3 DEF RoundInv, OnTheWayUp, FallsBack
<1>8. Collected'
  <2>1. ASSUME NEW S, Contributed(S) PROVE Contributed(S)'
    <3>1. \A c \in S : Done(c)'
      BY <1>1, <1>2, <1>3, <2>1 DEF Contributed, Done, Garbled
    <3> QED BY <1>1, <1>2, <2>1, <3>1 DEF Contributed
  <2>2. {Mine(c) : c \in Users}' = {Mine(c) : c \in Users}
    BY <1>1, <1>3
  <2> QED BY <1>1, <1>2, <2>1, <2>2 DEF RoundInv, Collected, Garbled
<1>9. Spreading'
  BY <1>1, <1>3 DEF RoundInv, Spreading
<1>10. OneAtATime'
  BY <1>1, <1>3 DEF RoundInv, OneAtATime, FallsBack
<1>11. AllFair'
  BY <1>1 DEF RoundInv, AllFair, Fair, Garbled
<1> QED BY <1>4, <1>5, <1>6, <1>7, <1>8, <1>9, <1>10, <1>11 DEF RoundInv

-----------------------------------------------------------------------------
(* The server stops, or starts its first round.                            *)
OnlyTheServer(s) ==
  spc' = s /\ UNCHANGED <<served, turn, deltas, model, client, transfer, net>>

LEMMA ServerOnly ==
  ASSUME RoundInv, NEW s, OnlyTheServer(s),
         s \in {"up", "down", "raised"},
         s \in {"up", "down"} => s = First /\ spc = "hello" /\ \A c \in Users : cpc[c] # "hello",
         kind \in {"compressed", "full"}
  PROVE  RoundInv'
<1>1. /\ UNCHANGED <<kind, down, clients, turn, deltas, model, cmodel>>
      /\ UNCHANGED <<netUp, netDown, cpc, sink, file>>
      /\ Users' = Users /\ ClientIds' = ClientIds /\ DownFrame' = DownFrame /\ spc' = s
      /\ InGrace' = InGrace /\ Items' = Items /\ Held' = Held
  BY NamesStay DEF OnlyTheServer, served, client, transfer, net, DownFrame,
                   InGrace, Items, Held
<1>2. \A c \in Users : /\ Even(c)' = Even(c) /\ Late(c)' = Late(c) /\ Mine(c)' = Mine(c)
                       /\ Carries(c)' = Carries(c) /\ Coming(c)' = Coming(c)
                       /\ Done(c)' = Done(c)
  BY <1>1 DEF Even, Late, Mine, Carries, Coming, Done, Garbled
<1>3. \A c \in Users : cpc[c] = "hello" => s = "raised"
  OBVIOUS
<1>4. DataOK' /\ Starts' /\ Followers' /\ OnTheWayDown' /\ OnTheWayUp'
  BY <1>1, <1>2, <1>3 DEF RoundInv, DataOK, Starts, Followers, OnTheWayDown, OnTheWayUp
<1>5. Collected'
  <2>1. ASSUME NEW S, Contributed(S) PROVE Contributed(S)'
    BY <1>1, <1>2, <2>1 DEF Contributed
  <2>2. {Mine(c) : c \in Users}' = {Mine(c) : c \in Users}
    BY <1>1, <1>2
  <2>3. Gathering' => Gathering
    BY <1>1 DEF Gathering
  <2> QED BY <1>1, <1>2, <2>1, <2>2, <2>3 DEF RoundInv, Collected, Garbled
<1>6. Spreading'
  BY <1>1, <1>2, FirstIs DEF RoundInv, Spreading
<1>7. OneAtATime'
  BY <1>1, <1>2 DEF RoundInv, OneAtATime
<1>8. AllFair'
  BY <1>1 DEF RoundInv, AllFair, Fair, Garbled
<1> QED BY <1>4, <1>5, <1>6, <1>7, <1>8 DEF RoundInv

-----------------------------------------------------------------------------
(* A client's contribution leaves on the model link.                       *)
LEMMA OwnIsMine ==
  ASSUME CInv, RoundInv, kind \in {"compressed", "full"}, NEW c \in Users, cpc[c] = "up"
  PROVE  /\ Own(c) = Mine(c) /\ Even(c) /\ netUp[c] = <<>> /\ Carries(c) /\ ~Coming(c)
         /\ Len(model) \in Nat
<1>1. Even(c) /\ netUp[c] = <<>> /\ Carries(c) /\ ~Coming(c)
  BY DEF RoundInv, Followers, OnTheWayUp, OnTheWayDown, Carries
<1>2. Len(model) \in Nat
  BY DEF RoundInv, DataOK, Models
<1>3. Own(c) = Mine(c)
  BY <1>1, <1>2 DEF Own, Mine, Even
<1> QED BY <1>1, <1>2, <1>3

LEMMA UploadOnTheLink ==
  ASSUME CInv, RoundInv, kind \in {"compressed", "full"},
         NEW c \in Users, cpc[c] = "up", NEW s \in {"down", "ended"},
         cpc' = [cpc EXCEPT ![c] = s], netUp' = [netUp EXCEPT ![c] = Append(@, Own(c))],
         UNCHANGED <<served, server, cmodel, transfer, netDown>>
  PROVE  RoundInv'
<1>1. /\ UNCHANGED <<kind, down, clients, spc, turn, deltas, model, cmodel, netDown, sink, file>>
      /\ Users' = Users /\ ClientIds' = ClientIds /\ DownFrame' = DownFrame
      /\ InGrace' = InGrace /\ Items' = Items /\ Held' = Held /\ Gathering' = Gathering
  BY NamesStay DEF served, server, transfer, DownFrame, InGrace, Items, Held,
                   Gathering
<1>2. Own(c) = Mine(c) /\ Even(c) /\ netUp[c] = <<>> /\ Carries(c) /\ ~Coming(c)
  BY OwnIsMine
<1>3. /\ cpc'[c] = s /\ netUp'[c] = <<Mine(c)>>
      /\ \A d \in Users : d # c => cpc'[d] = cpc[d] /\ netUp'[d] = netUp[d]
  <2>1. c \in ClientIds /\ Users \subseteq ClientIds
    BY NodeFacts DEF CInv
  <2> QED BY <1>2, <2>1 DEF CInv, ControlOK
<1>4. \A d \in Users : /\ Even(d)' = Even(d) /\ Late(d)' = Late(d) /\ Mine(d)' = Mine(d)
                       /\ Coming(d)' = Coming(d)
                       /\ d # c => Carries(d)' = Carries(d)
  BY <1>1, <1>3 DEF Even, Late, Mine, Carries, Coming
<1>5. DataOK' /\ Starts'
  BY <1>1 DEF RoundInv, DataOK, Starts
<1>6. Followers'
  BY <1>1, <1>3, <1>4 DEF RoundInv, Followers
<1>7. OnTheWayDown'
  BY <1>1, <1>2, <1>3, <1>4 DEF RoundInv, OnTheWayDown
<1>8. OnTheWayUp'
  BY <1>1, <1>2, <1>3, <1>4 DEF RoundInv, OnTheWayUp
<1>9. Collected'
  <2>1. ASSUME NEW S, Contributed(S) PROVE Contributed(S)'
    <3>1. c \notin S /\ S \subseteq Users
      BY <1>2, <2>1 DEF Contributed, Done
    <3>2. \A d \in S : Done(d)'
      BY <1>1, <1>4, <2>1, <3>1 DEF Contributed, Done, Garbled
    <3> QED BY <1>1, <2>1, <3>2 DEF Contributed
  <2>2. {Mine(d) : d \in Users}' = {Mine(d) : d \in Users}
    BY <1>1, <1>4
  <2> QED BY <1>1, <2>1, <2>2 DEF RoundInv, Collected, Garbled
<1>10. Spreading'
  BY <1>1, <1>2, <1>4 DEF RoundInv, Spreading
<1>11. OneAtATime'
  BY <1>1, <1>3, <1>4 DEF RoundInv, OneAtATime
<1>12. AllFair'
  BY <1>1 DEF RoundInv, AllFair, Fair, Garbled
<1> QED BY <1>5, <1>6, <1>7, <1>8, <1>9, <1>10, <1>11, <1>12 DEF RoundInv

(* ... or is in the file of the server's sink.                             *)
LEMMA UploadOverTheAir ==
  ASSUME CInv, RoundInv, kind \in {"compressed", "full"},
         NEW c \in Users, cpc[c] = "up", NEW s \in {"down", "ended"},
         cpc' = [cpc EXCEPT ![c] = s], spc = "up",
         sink[Server] = "session", sink' = [sink EXCEPT ![Server] = "grace"],
         NEW got \in {Own(c), Garbled}, file' = [file EXCEPT ![Server] = got],
         UNCHANGED <<served, server, cmodel, net>>
  PROVE  RoundInv'
<1>0. /\ c \in ClientIds /\ Users \subseteq ClientIds /\ ClientIds \subseteq Nodes
      /\ Server \in Nodes /\ Server \notin ClientIds
  BY NodeFacts DEF CInv
<1>1. /\ UNCHANGED <<kind, down, clients, spc, turn, deltas, model, cmodel, netUp, netDown>>
      /\ Users' = Users /\ ClientIds' = ClientIds /\ DownFrame' = DownFrame
      /\ Gathering' = Gathering
  BY NamesStay DEF served, server, net, DownFrame, Gathering
<1>2. Own(c) = Mine(c) /\ Even(c) /\ netUp[c] = <<>> /\ Carries(c) /\ ~Coming(c)
  BY OwnIsMine
<1>3. /\ cpc'[c] = s /\ \A d \in Users : d # c => cpc'[d] = cpc[d]
      /\ \A d \in Users : sink'[d] = sink[d] /\ file'[d] = file[d]
      /\ sink'[Server] = "grace" /\ file'[Server] = got
  BY <1>0 DEF CInv, ControlOK
<1>4. \A d \in Users : /\ Even(d)' = Even(d) /\ Late(d)' = Late(d) /\ Mine(d)' = Mine(d)
                       /\ Coming(d)' = Coming(d)
                       /\ d # c => Carries(d)' = Carries(d)
  BY <1>1, <1>3 DEF Even, Late, Mine, Carries, Coming
<1>5. ~Carries(c)'
  BY <1>1, <1>2, <1>3 DEF Carries
<1>6. Items = deltas /\ Items' = deltas \cup {got} /\ Held = 0 /\ Held' = 1
  BY <1>1, <1>3 DEF Items, Held, InGrace
<1>7. DataOK' /\ Starts'
  BY <1>1 DEF RoundInv, DataOK, Starts
<1>8. Followers'
  BY <1>1, <1>3, <1>4 DEF RoundInv, Followers
<1>9. OnTheWayDown'
  BY <1>1, <1>3, <1>4, <1>5 DEF RoundInv, OnTheWayDown
<1>10. OnTheWayUp'
  BY <1>1, <1>2, <1>3, <1>4 DEF RoundInv, OnTheWayUp
<1>11. Collected'
  <2>0. Gathering
    BY DEF Gathering
  <2>1. PICK S : Contributed(S)
    BY <2>0 DEF RoundInv, Collected
  <2>2. c \notin S /\ S \subseteq Users
    BY <1>2, <2>1 DEF Contributed, Done
  <2>3. turn \in Nat /\ turn >= 1 /\ (kind = "full" => c = turn)
    BY NodeFacts DEF CInv, ControlOK, Users, RoundInv, OneAtATime
  <2>4. Cardinality(S \cup {c}) = turn
    <3>1. IsFiniteSet(Users)
      BY FS_Interval, NodeFacts DEF CInv, Users
    <3>2. IsFiniteSet(S)
      BY <2>2, <3>1, FS_Subset
    <3>3. Cardinality(S \cup {c}) = Cardinality(S) + 1
      BY <2>2, <3>2, FS_AddElement
    <3>4. Cardinality(S) = turn - 1
      BY <1>6, <2>1, <2>3 DEF Contributed
    <3> QED BY <2>3, <3>3, <3>4
  <2>5. ASSUME NEW d \in S \cup {c} PROVE Done(d)'
    <3>1. CASE d = c
      <4>1. Mine(c)' \in Items' \/ Garbled' \in Items'
        BY <1>2, <1>4, <1>6 DEF Garbled
      <4> QED BY <1>2, <1>4, <1>5, <3>1, <4>1 DEF Done
    <3>2. CASE d # c
      BY <1>4, <1>6, <2>1, <2>2, <3>2 DEF Contributed, Done, Garbled
    <3> QED BY <3>1, <3>2
  <2>6. kind = "full" => S \cup {c} = 1..turn
    BY <1>6, <2>1, <2>3 DEF Contributed
  <2>7. turn' - 1 + Held' = turn
    BY <1>1, <1>6, <2>3
  <2>8. Contributed(S \cup {c})'
    BY <1>1, <2>2, <2>4, <2>5, <2>6, <2>7 DEF Contributed
  <2>9. {Mine(d) : d \in Users}' = {Mine(d) : d \in Users}
    BY <1>1, <1>4
  <2>10. Items' \subseteq {Mine(d) : d \in Users} \cup {Garbled}
    BY <1>2, <1>6, <2>0 DEF RoundInv, Collected
  <2> QED BY <2>8, <2>9, <2>10 DEF Collected, Garbled
<1>12. Spreading'
  BY <1>1 DEF Spreading
<1>13. OneAtATime'
  BY <1>1, <1>3, <1>4 DEF RoundInv, OneAtATime
<1>14. AllFair'
  BY <1>1 DEF RoundInv, AllFair, Fair, Garbled
<1> QED BY <1>7, <1>8, <1>9, <1>10, <1>11, <1>12, <1>13, <1>14 DEF RoundInv

-----------------------------------------------------------------------------
(* What was on its way to a client arrives: the client is even with the    *)
(* server again.                                                           *)
Arrives(c, s) ==
  /\ cpc' = [cpc EXCEPT ![c] = s] /\ GotDown(c, DownFrame)
  /\ ~Coming(c)' /\ netUp' = netUp
  /\ \A d \in Users : d # c => /\ netDown'[d] = netDown[d] /\ sink'[d] = sink[d]
                               /\ file'[d] = file[d]
  /\ sink'[Server] = sink[Server] /\ file'[Server] = file[Server]
  /\ UNCHANGED <<served, server>>

LEMMA ArrivingEvens ==
  ASSUME CInv, RoundInv, kind \in {"compressed", "full"}, NEW c \in Users, Coming(c),
         NEW s \in {"up", "ended"}, Arrives(c, s)
  PROVE  RoundInv'
<1>0. /\ c \in ClientIds /\ Users \subseteq ClientIds
      /\ Server \in Nodes /\ Server \notin ClientIds
  BY NodeFacts DEF CInv
<1>1. /\ UNCHANGED <<kind, down, clients, spc, turn, deltas, model, netUp>>
      /\ Users' = Users /\ ClientIds' = ClientIds /\ DownFrame' = DownFrame
      /\ Gathering' = Gathering
      /\ InGrace' = InGrace /\ Items' = Items /\ Held' = Held
  BY NamesStay DEF Arrives, served, server, DownFrame, Gathering, InGrace, Items, Held
<1>2. ~Carries(c) /\ (kind = "compressed" => Late(c)) /\ netUp[c] = <<>>
  BY DEF RoundInv, OnTheWayDown, Carries
<1>3. cmodel'[c] = model
  <2>1. CASE kind = "full"
    BY <1>0, <2>1 DEF Arrives, GotDown, DownFrame, CInv, ControlOK
  <2>2. CASE kind = "compressed"
    <3>1. cmodel'[c] = cmodel[c] \o <<Last(model)>>
      BY <1>0, <2>2 DEF Arrives, GotDown, DownFrame, Base, CInv, ControlOK
    <3>2. cmodel[c] \in Models /\ model \in Models /\ model # <<>>
      BY <1>0, <1>2, <2>2 DEF RoundInv, DataOK, Late
    <3>3. cmodel[c] \o <<Last(model)>> = Append(cmodel[c], Last(model))
      BY <3>2 DEF Models
    <3> QED BY <1>2, <2>2, <3>1, <3>3 DEF Late
  <2> QED BY <2>1, <2>2
<1>4. /\ cpc'[c] = s
      /\ \A d \in ClientIds : d # c => cpc'[d] = cpc[d] /\ cmodel'[d] = cmodel[d]
      /\ DOMAIN cmodel' = ClientIds /\ cmodel' = [cmodel EXCEPT ![c] = cmodel'[c]]
  BY <1>0 DEF Arrives, GotDown, CInv, ControlOK
<1>5. \A d \in Users : /\ Mine(d)' = Mine(d)
                       /\ d # c => /\ Even(d)' = Even(d) /\ Late(d)' = Late(d)
                                   /\ Coming(d)' = Coming(d) /\ Carries(d)' = Carries(d)
  BY <1>0, <1>1, <1>4 DEF Even, Late, Mine, Carries, Coming, Arrives
<1>6. Even(c)' /\ ~Coming(c)'
  BY <1>1, <1>3 DEF Even, Arrives
<1>7. DataOK' /\ Starts'
  <2>1. model \in Models /\ cmodel \in [ClientIds -> Models]
    BY DEF RoundInv, DataOK
  <2>2. cmodel' \in [ClientIds -> Models]
    BY <1>3, <1>4, <2>1
  <2> QED BY <1>1, <2>1, <2>2 DEF RoundInv, DataOK, Starts
<1>8. Followers'
  BY <1>0, <1>1, <1>4, <1>5, <1>6 DEF RoundInv, Followers
<1>9. OnTheWayDown'
  <2> SUFFICES ASSUME NEW d \in Users
               PROVE  /\ Coming(d)' => ~Carries(d)' /\ (kind' = "compressed" => Late(d)')
                      /\ netDown'[d] # <<>> => down' = "net" /\ netDown'[d] = <<DownFrame'>>
                      /\ sink'[d] = "grace" => file'[d] = DownFrame'
    BY <1>1 DEF OnTheWayDown
  <2>1. CASE d = c
    BY <1>6, <2>1 DEF Coming
  <2>2. CASE d # c
    BY <1>1, <1>5, <2>2 DEF RoundInv, OnTheWayDown, Arrives
  <2> QED BY <2>1, <2>2
<1>10. OnTheWayUp'
  BY <1>0, <1>1, <1>2, <1>4, <1>5 DEF RoundInv, OnTheWayUp
<1>11. Collected'
  <2>1. ASSUME NEW S, Contributed(S) PROVE Contributed(S)'
    <3>1. c \notin S /\ S \subseteq Users
      BY <2>1 DEF Contributed, Done
    <3>2. \A d \in S : Done(d)'
      BY <1>1, <1>5, <2>1, <3>1 DEF Contributed, Done, Garbled
    <3> QED BY <1>1, <2>1, <3>2 DEF Contributed
  <2>2. {Mine(d) : d \in Users}' = {Mine(d) : d \in Users}
    BY <1>1, <1>5
  <2> QED BY <1>1, <2>1, <2>2 DEF RoundInv, Collected, Garbled
<1>12. Spreading'
  BY <1>1, <1>5 DEF RoundInv, Spreading
<1>13. OneAtATime'
  BY <1>0, <1>1, <1>4, <1>5 DEF RoundInv, OneAtATime, Arrives, Carries
<1>14. AllFair'
  BY <1>1 DEF RoundInv, AllFair, Fair, Garbled
<1> QED BY <1>7, <1>8, <1>9, <1>10, <1>11, <1>12, <1>13, <1>14 DEF RoundInv

-----------------------------------------------------------------------------
(* The server sends a client the frame, on the link or over the air, or    *)
(* goes on without: nobody is served twice in a round.                     *)
Serves ==
  /\ SentDown /\ UNCHANGED <<served, cpc, cmodel, netUp>>
  /\ \A d \in Users : d # turn => /\ netDown'[d] = netDown[d] /\ sink'[d] = sink[d]
                                  /\ file'[d] = file[d]
  /\ netDown'[turn] # <<>> => down = "net" /\ netDown'[turn] = <<DownFrame>>
  /\ sink'[turn] = "grace" => file'[turn] = DownFrame
  /\ sink'[Server] # "grace" /\ sink[Server] # "grace"

LEMMA ServingIsSafe ==
  ASSUME CInv, RoundInv, kind \in {"compressed", "full"}, spc = "down", Serves
  PROVE  RoundInv'
<1>0. /\ Users \subseteq ClientIds /\ Server \in Nodes /\ turn \in Users
      /\ turn \in Nat /\ turn >= 1 /\ clients \in Nat /\ clients >= 1 /\ Users = 1..clients
  BY NodeFacts DEF CInv, ControlOK, Users
<1>1. /\ UNCHANGED <<kind, down, clients, deltas, model, cpc, cmodel, netUp>>
      /\ Users' = Users /\ ClientIds' = ClientIds /\ DownFrame' = DownFrame
      /\ ~InGrace /\ ~InGrace' /\ Items = deltas /\ Items' = deltas /\ Held = 0 /\ Held' = 0
  BY NamesStay DEF Serves, SentDown, served, DownFrame, InGrace, Items, Held
<1>2. \A d \in Users : /\ Even(d)' = Even(d) /\ Late(d)' = Late(d) /\ Mine(d)' = Mine(d)
                       /\ Carries(d)' = Carries(d)
                       /\ d # turn => Coming(d)' = Coming(d)
  BY <1>1 DEF Even, Late, Mine, Carries, Coming, Serves
<1>3. ~Carries(turn) /\ ~Coming(turn) /\ (kind = "compressed" => Late(turn))
  <2>1. CASE kind = "compressed"
    BY <1>0, <2>1 DEF RoundInv, Spreading
  <2>2. CASE kind = "full"
    BY <1>0, <2>2 DEF RoundInv, OneAtATime, Followers, Carries
  <2> QED BY <2>1, <2>2
<1>4. spc' # "hello" /\ \A c \in Users : cpc[c] # "hello"
  <2>1. First # "hello"
    BY FirstIs
  <2>2. spc' # "hello"
    BY <2>1 DEF Serves, SentDown, ServerEndsRound
  <2> QED BY <2>2 DEF RoundInv, Followers
<1>5. DataOK' /\ Starts' /\ Followers'
  BY <1>1, <1>2, <1>4 DEF RoundInv, DataOK, Starts, Followers
<1>6. OnTheWayUp'
  BY <1>1, <1>2 DEF RoundInv, OnTheWayUp
<1>7. OnTheWayDown'
  <2> SUFFICES ASSUME NEW d \in Users
               PROVE  /\ Coming(d)' => ~Carries(d)' /\ (kind' = "compressed" => Late(d)')
                      /\ netDown'[d] # <<>> => down' = "net" /\ netDown'[d] = <<DownFrame'>>
                      /\ sink'[d] = "grace" => file'[d] = DownFrame'
    BY <1>1 DEF OnTheWayDown
  <2>1. CASE d = turn
    BY <1>0, <1>1, <1>2, <1>3, <2>1 DEF Serves
  <2>2. CASE d # turn
    BY <1>1, <1>2, <2>2 DEF RoundInv, OnTheWayDown, Serves
  <2> QED BY <2>1, <2>2
<1>8. {Mine(d) : d \in Users}' = {Mine(d) : d \in Users}
  BY <1>1, <1>2
<1>9. CASE kind = "full"
  <2>1. spc' = "up" /\ turn' = turn
    BY <1>9 DEF Serves, SentDown
  <2>2. Collected'
    <3>1. PICK S : Contributed(S)
      BY <1>9 DEF RoundInv, Collected, Gathering
    <3>2. turn \notin S /\ S \subseteq Users
      BY <1>0, <1>1, <1>9, <3>1 DEF Contributed
    <3>3. \A d \in S : Done(d)'
      BY <1>1, <1>2, <3>1, <3>2 DEF Contributed, Done, Garbled
    <3>4. Contributed(S)'
      BY <1>1, <2>1, <3>1, <3>3 DEF Contributed
    <3> QED BY <1>1, <1>8, <1>9, <3>4 DEF RoundInv, Collected, Gathering, Garbled
  <2>3. OneAtATime'
    <3> SUFFICES ASSUME NEW d \in Users, cpc'[d] = "up" \/ netUp'[d] # <<>> \/ Coming(d)'
                 PROVE  d = turn
      BY <1>1, <2>1 DEF OneAtATime
    <3> QED BY <1>1, <1>2, <1>9 DEF RoundInv, OneAtATime
  <2>4. Spreading'
    BY <1>1, <1>9 DEF Spreading
  <2>5. AllFair'
    BY <1>1 DEF RoundInv, AllFair, Fair, Garbled
  <2> QED BY <1>5, <1>6, <1>7, <2>2, <2>3, <2>4, <2>5 DEF RoundInv
<1>10. CASE kind = "compressed"
  <2>1. deltas = {} /\ model # <<>>
    BY <1>10 DEF RoundInv, Spreading
  <2>2. \/ turn = clients /\ turn' = 1 /\ spc' \in {"ended", "up"}
        \/ turn # clients /\ turn' = turn + 1 /\ spc' = "down"
    <3>1. First = "up"
      BY <1>10, FirstIs
    <3> QED BY <1>10, <3>1 DEF Serves, SentDown, ServerEndsRound
  <2>3. Collected'
    <3> SUFFICES ASSUME Gathering' PROVE Collected'
      BY DEF Collected
    <3>1. turn' = 1
      BY <1>1, <1>10, <2>2 DEF Gathering
    <3>2. turn' - 1 + Held' = 0 /\ Cardinality({}) = 0
      BY <1>1, <3>1, FS_EmptySet
    <3>3. Contributed({})'
      BY <1>1, <1>10, <3>2 DEF Contributed
    <3> QED BY <1>1, <2>1, <3>3 DEF Collected
  <2>4. Spreading'
    <3> SUFFICES ASSUME spc' = "down", NEW d \in Users, d >= turn'
                 PROVE  Late(d)' /\ ~Carries(d)' /\ ~Coming(d)'
      BY <1>1, <2>1 DEF Spreading
    <3>1. d >= turn /\ d # turn
      BY <1>0, <2>2
    <3> QED BY <1>2, <1>10, <3>1 DEF RoundInv, Spreading
  <2>5. OneAtATime'
    BY <1>1, <1>10 DEF OneAtATime
  <2>6. AllFair'
    BY <1>1 DEF RoundInv, AllFair, Fair, Garbled
  <2> QED BY <1>5, <1>6, <1>7, <2>3, <2>4, <2>5, <2>6 DEF RoundInv
<1> QED BY <1>9, <1>10

-----------------------------------------------------------------------------
(* The server takes one more contribution, T the clients whose ones it has *)
(* then.  If that is everybody the mean is the one of this very round.     *)
Takes(delta, T) ==
  LET all == deltas \cup {delta}
  IN  /\ spc = "up" /\ GotUp(delta) /\ UNCHANGED <<served, cpc, cmodel, netDown>>
      /\ \A d \in Users : /\ netUp'[d] \in {netUp[d], <<>>}
                          /\ sink'[d] = sink[d] /\ file'[d] = file[d]
      /\ sink'[Server] # "grace"
      /\ T \subseteq Users /\ Cardinality(T) = turn /\ (kind = "full" => T = 1..turn)
      /\ \A c \in T : /\ Even(c) /\ ~Carries(c)' /\ ~Coming(c)
                      /\ Mine(c) \in all \/ Garbled \in all
      /\ all \subseteq {Mine(c) : c \in Users} \cup {Garbled}

LEMMA TakingFacts ==
  ASSUME CInv, RoundInv, NEW delta, NEW T, Takes(delta, T)
  PROVE  /\ UNCHANGED <<kind, down, clients, cpc, cmodel, netDown>>
         /\ Users' = Users /\ ClientIds' = ClientIds /\ spc' # "hello"
         /\ ~InGrace' /\ Items' = deltas' /\ Held' = 0
         /\ \A d \in Users : /\ Coming(d)' = Coming(d) /\ (Carries(d)' => Carries(d))
                             /\ netUp'[d] # <<>> => netUp'[d] = netUp[d]
                             /\ cpc[d] # "hello"
         /\ turn \in Nat /\ turn >= 1 /\ clients \in Nat /\ Users = 1..clients
         /\ Cardinality({}) = 0
<1>1. /\ UNCHANGED <<kind, down, clients, cpc, cmodel, netDown>>
      /\ Users' = Users /\ ClientIds' = ClientIds
      /\ ~InGrace' /\ Items' = deltas' /\ Held' = 0
  BY NamesStay DEF Takes, served, InGrace, Items, Held
<1>2. spc' # "hello"
  <2>1. First # "hello"
    BY FirstIs DEF CInv, ControlOK
  <2> QED BY <2>1 DEF Takes, GotUp, ServerEndsRound
<1>3. \A d \in Users : /\ Coming(d)' = Coming(d) /\ (Carries(d)' => Carries(d))
                       /\ netUp'[d] # <<>> => netUp'[d] = netUp[d]
                       /\ cpc[d] # "hello"
  BY <1>1 DEF Takes, Coming, Carries, RoundInv, Followers
<1>4. turn \in Nat /\ turn >= 1 /\ clients \in Nat /\ Users = 1..clients
  BY NodeFacts DEF CInv, ControlOK, Users
<1> QED BY <1>1, <1>2, <1>3, <1>4, FS_EmptySet

LEMMA TakingOneMore ==
  ASSUME CInv, RoundInv, kind \in {"compressed", "full"}, NEW delta, NEW T, Takes(delta, T),
         turn # clients
  PROVE  RoundInv'
<1>1. /\ deltas' = deltas \cup {delta} /\ turn' = turn + 1 /\ spc' = First
      /\ UNCHANGED model
  BY DEF Takes, GotUp
<1>2. /\ UNCHANGED <<kind, down, clients, cpc, cmodel, netDown>>
      /\ Users' = Users /\ ClientIds' = ClientIds /\ DownFrame' = DownFrame
      /\ spc' # "hello"
      /\ ~InGrace' /\ Items' = deltas' /\ Held' = 0
      /\ turn \in Nat /\ turn >= 1 /\ clients \in Nat /\ Users = 1..clients
  BY <1>1, TakingFacts DEF DownFrame
<1>3. \A d \in Users : /\ Even(d)' = Even(d) /\ Late(d)' = Late(d) /\ Mine(d)' = Mine(d)
                       /\ Coming(d)' = Coming(d) /\ (Carries(d)' => Carries(d))
                       /\ netUp'[d] # <<>> => netUp'[d] = netUp[d]
                       /\ cpc[d] # "hello"
  BY <1>1, <1>2, TakingFacts DEF Even, Late, Mine
<1>4. DataOK' /\ Starts' /\ Followers'
  BY <1>1, <1>2, <1>3 DEF RoundInv, DataOK, Starts, Followers
<1>5. OnTheWayDown'
  BY <1>1, <1>2, <1>3 DEF RoundInv, OnTheWayDown, Takes
<1>6. OnTheWayUp'
  BY <1>1, <1>2, <1>3 DEF RoundInv, OnTheWayUp
<1>7. Collected'
  <2>1. {Mine(d) : d \in Users}' = {Mine(d) : d \in Users}
    BY <1>2, <1>3
  <2>2. \A c \in T : Done(c)'
    BY <1>1, <1>2, <1>3 DEF Takes, Done, Garbled
  <2>3. turn' - 1 + Held' = turn
    BY <1>1, <1>2
  <2>4. T \subseteq Users /\ Cardinality(T) = turn /\ (kind = "full" => T = 1..turn)
    BY DEF Takes
  <2>5. Contributed(T)'
    BY <1>2, <2>2, <2>3, <2>4 DEF Contributed
  <2> QED BY <1>1, <1>2, <2>1, <2>5 DEF Collected, Takes, Garbled
<1>8. Spreading'
  BY <1>1, <1>2, FirstIs DEF Spreading
<1>9. OneAtATime'
  <2> SUFFICES ASSUME kind = "full", NEW d \in Users,
                      cpc[d] = "up" \/ netUp'[d] # <<>> \/ Coming(d)
               PROVE  FALSE
    BY <1>2, <1>3 DEF OneAtATime
  <2>1. d = turn
    BY <1>3 DEF RoundInv, OneAtATime
  <2>2. d \in T
    BY <1>2, <2>1 DEF Takes
  <2>3. ~Carries(d)' /\ ~Coming(d)
    BY <2>2 DEF Takes
  <2> QED BY <1>2, <2>3 DEF Carries
<1>10. AllFair'
  BY <1>1, <1>2 DEF RoundInv, AllFair, Fair, Garbled
<1> QED BY <1>4, <1>5, <1>6, <1>7, <1>8, <1>9, <1>10 DEF RoundInv

LEMMA TakingTheLast ==
  ASSUME CInv, RoundInv, kind \in {"compressed", "full"}, NEW delta, NEW T, Takes(delta, T),
         turn = clients
  PROVE  RoundInv'
<1> DEFINE all == deltas \cup {delta}
<1>1. /\ deltas' = {} /\ turn' = 1 /\ model' = Append(model, all)
      /\ kind = "compressed" => spc' = "down"
      /\ kind = "full" => spc' \in {"ended", "down"}
  BY FirstIs DEF Takes, GotUp, ServerEndsRound
<1>2. /\ UNCHANGED <<kind, down, clients, cpc, cmodel, netDown>>
      /\ Users' = Users /\ ClientIds' = ClientIds /\ spc' # "hello"
      /\ ~InGrace' /\ Items' = deltas' /\ Held' = 0
      /\ turn \in Nat /\ turn >= 1 /\ clients \in Nat /\ Users = 1..clients
      /\ Cardinality({}) = 0
  BY TakingFacts
<1>3. T = Users
  <2>1. IsFiniteSet(Users) /\ Cardinality(Users) = clients
    <3>1. /\ IsFiniteSet(1..clients)
          /\ Cardinality(1..clients) = IF 1 > clients THEN 0 ELSE clients - 1 + 1
      BY <1>2, FS_Interval
    <3> QED BY <1>2, <3>1
  <2>2. T \subseteq Users /\ Cardinality(T) = Cardinality(Users)
    BY <2>1 DEF Takes
  <2> QED BY <2>1, <2>2, FS_Subset
<1>4. \A d \in Users : /\ Even(d) /\ ~Carries(d)' /\ ~Coming(d)' /\ cpc[d] \notin {"up", "hello"}
                       /\ netUp'[d] = <<>> /\ (Mine(d) \in all \/ Garbled \in all)
  BY <1>2, <1>3, TakingFacts DEF Takes, Carries
<1> HIDE DEF all
<1>5. model \in Models /\ all \in SUBSET Item /\ Len(model) \in Nat
  <2>1. model \in Models
    BY DEF RoundInv, DataOK
  <2>2. Len(model) \in Nat
    BY <2>1 DEF Models
  <2>3. all \subseteq {Mine(c) : c \in Users} \cup {Garbled}
    BY DEF Takes, all
  <2>4. Users \subseteq Nat /\ Server \in Nat
    BY <1>2 DEF Server
  <2>5. \A c \in Users : Mine(c) \in Item
    BY <2>2, <2>4 DEF Mine, Item
  <2>6. Garbled \in Item
    BY <2>4 DEF Garbled, Item
  <2> QED BY <2>1, <2>2, <2>3, <2>5, <2>6
<1>6. /\ model' \in Models /\ Len(model') = Len(model) + 1 /\ model' # <<>>
      /\ \A i \in 1..Len(model) : model'[i] = model[i]
      /\ model'[Len(model) + 1] = all
  BY <1>1, <1>5, Appended
<1>7. \A d \in Users : Late(d)'
  <2>1. Last(model') = all
    BY <1>6 DEF Last
  <2>2. \A d \in Users : cmodel'[d] = model
    BY <1>2, <1>4 DEF Even
  <2> QED BY <1>1, <1>6, <2>1, <2>2 DEF Late
<1>8. DataOK' /\ Starts' /\ Followers'
  BY <1>2, <1>4, <1>6, <1>7 DEF RoundInv, DataOK, Starts, Followers
<1>9. OnTheWayDown' /\ OnTheWayUp'
  BY <1>2, <1>4 DEF OnTheWayDown, OnTheWayUp, Coming
<1>10. Collected'
  <2> SUFFICES ASSUME Gathering' PROVE Collected'
    BY DEF Collected
  <2>1. turn' - 1 + Held' = 0 /\ 1..(turn' - 1 + Held') = {}
    BY <1>1, <1>2
  <2>2. Contributed({})'
    BY <1>2, <2>1 DEF Contributed
  <2> QED BY <1>1, <1>2, <2>2 DEF Collected
<1>11. Spreading' /\ OneAtATime'
  BY <1>1, <1>2, <1>4, <1>6, <1>7 DEF Spreading, OneAtATime
<1>12. AllFair'
  <2>1. model'[Len(model) + 1] = {[by |-> c, base |-> Len(model)] : c \in Users} \/ Garbled \in all
    <3> SUFFICES ASSUME Garbled \notin all
                 PROVE  all = {Mine(c) : c \in Users}
      BY <1>6 DEF Mine
    <3>1. all \subseteq {Mine(c) : c \in Users} \cup {Garbled}
      BY DEF Takes, all
    <3> QED BY <1>4, <3>1
  <2> SUFFICES ASSUME NEW i \in 1..Len(model') PROVE Fair(i)'
    BY DEF AllFair
  <2>2. CASE i \in 1..Len(model)
    BY <1>2, <1>6, <2>2 DEF RoundInv, AllFair, Fair, Garbled
  <2>3. CASE i = Len(model) + 1
    <3>1. i - 1 = Len(model)
      BY <1>5, <2>3
    <3> QED BY <1>2, <1>6, <2>1, <2>3, <3>1 DEF Fair, Garbled
  <2>4. i \in 1..Len(model) \/ i = Len(model) + 1
    BY <1>5, <1>6
  <2> QED BY <2>2, <2>3, <2>4
<1> QED BY <1>8, <1>9, <1>10, <1>11, <1>12 DEF RoundInv

-----------------------------------------------------------------------------
(* Every action is one of these, or none of the rounds' business.          *)
LEMMA StoppingFallsBack ==
  ASSUME CInv, NEW c \in Users, NEW s \in {"down", "ended", "raised", "dead"},
         cpc' = [cpc EXCEPT ![c] = s],
         UNCHANGED <<served, server, cmodel, sink, file, net>>
  PROVE  FallsBack
<1>1. \A d \in Users : cpc'[d] = cpc[d] \/ cpc'[d] = s
  BY NodeFacts DEF CInv, ControlOK
<1> QED BY <1>1 DEF FallsBack, server, net

LEMMA RadioFallsBack ==
  ASSUME CInv, kind # "sgd", NEW p \in Users \cup {Server},
         \/ StartSink(p) \/ StartSource(p) \/ Accept(p)
         \/ \E q \in Nodes : Connect(p, q)
  PROVE  FallsBack
<1>0. /\ Users \subseteq ClientIds /\ ClientIds \subseteq Nodes
      /\ Server \in Nodes
      /\ p \in Nodes
  BY NodeFacts DEF CInv
<1>1. CASE RadioMoves /\ UNCHANGED <<server, cmodel>>
  BY <1>0, <1>1 DEF RadioMoves, FallsBack, server
<1>2. CASE StartSink(p)
  <2>1. CASE RadioMoves
    BY <1>1, <1>2, <2>1 DEF StartSink, server
  <2>2. CASE p \in Users /\ ClientMoves(p, "raised")
    <3>1. UNCHANGED <<served, server, cmodel, file, net>>
      BY <1>2 DEF StartSink, ClientMoves, server
    <3>2. \A d \in Users : cpc'[d] = cpc[d] \/ cpc'[d] = "raised"
      BY <1>0, <2>2 DEF ClientMoves, CInv, ControlOK
    <3>3. sink' = sink \/ sink' = [sink EXCEPT ![p] = "listen"]
      BY <1>2 DEF StartSink
    <3>4. /\ sink[p] = "off"
          /\ \A q \in Nodes : sink'[q] = sink[q] \/ (q = p /\ sink'[q] = "listen")
      BY <1>0, <1>2, <3>3 DEF StartSink, CInv, ControlOK
    <3> QED BY <1>0, <3>1, <3>2, <3>4 DEF FallsBack, server, net
  <2> QED BY <1>2, <2>1, <2>2, StartSinkControl
<1>3. CASE StartSource(p)
  BY <1>1, <1>3, StartSourceControl DEF StartSource
<1>4. CASE Accept(p)
  BY <1>1, <1>4, AcceptControl DEF Accept, client
<1>5. ASSUME NEW q \in Nodes, Connect(p, q) PROVE FallsBack
  BY <1>1, <1>5, ConnectControl DEF Connect, client
<1> QED BY <1>2, <1>3, <1>4, <1>5

LEMMA SentUpFallsBack ==
  ASSUME CInv, kind \in {"compressed", "full"}, NEW c \in ClientIds, SentUp(c)
  PROVE  \E s \in {"down", "ended"} : cpc' = [cpc EXCEPT ![c] = s]
BY SentUpControl DEF CInv

(* The server takes what the client whose turn it is sent on the link ...  *)
LEMMA TakesFromTheLink ==
  ASSUME CInv, RoundInv, kind \in {"compressed", "full"},
         spc = "up", up = "net", netUp[turn] # <<>>,
         netUp' = [netUp EXCEPT ![turn] = Tail(@)], GotUp(Head(netUp[turn])),
         UNCHANGED <<served, client, transfer, netDown>>
  PROVE  \E delta, T : Takes(delta, T)
<1>0. /\ Users \subseteq ClientIds /\ turn \in Users /\ turn \in Nat /\ turn >= 1
      /\ clients \in Nat /\ Users = 1..clients
      /\ UNCHANGED <<cpc, cmodel, sink, file>> /\ sink[Server] = "off"
  BY NodeFacts DEF CInv, ControlOK, TransfersFit, Users, client, transfer
<1>t. PICK t \in Users : t = turn
  BY <1>0
<1>1. /\ netUp[t] = <<Mine(t)>> /\ Even(t) /\ cpc[t] \notin {"up", "hello"}
      /\ Carries(t) /\ ~Coming(t)
  BY <1>0, <1>t DEF RoundInv, OnTheWayUp, OnTheWayDown, Carries
<1>2. /\ netUp'[t] = <<>> /\ \A d \in Users : d # t => netUp'[d] = netUp[d]
      /\ Head(netUp[t]) = Mine(t)
  BY <1>0, <1>t, <1>1 DEF CInv, ControlOK
<1>3. ~InGrace /\ Items = deltas /\ Held = 0
  BY <1>0 DEF InGrace, Items, Held
<1>4. PICK S : Contributed(S) /\ Items \subseteq {Mine(c) : c \in Users} \cup {Garbled}
  BY DEF RoundInv, Collected, Gathering
<1>5. t \notin S /\ S \subseteq Users
  BY <1>1, <1>4 DEF Contributed, Done
<1>6. Cardinality(S \cup {t}) = turn
  <2>0. IsFiniteSet(Users)
    BY <1>0, FS_Interval
  <2>1. IsFiniteSet(S)
    BY <1>5, <2>0, FS_Subset
  <2>2. Cardinality(S \cup {t}) = Cardinality(S) + 1
    BY <1>5, <2>1, FS_AddElement
  <2>3. Cardinality(S) = turn - 1
    BY <1>0, <1>3, <1>4 DEF Contributed
  <2> QED BY <1>0, <2>2, <2>3
<1>7. ~Carries(t)'
  BY <1>0, <1>1, <1>2 DEF Carries
<1>8. ASSUME NEW c \in S \cup {t}
      PROVE  /\ Even(c) /\ ~Carries(c)' /\ ~Coming(c)
             /\ Mine(c) \in deltas \cup {Mine(t)} \/ Garbled \in deltas \cup {Mine(t)}
  <2>1. CASE c = t
    BY <1>1, <1>7, <2>1
  <2>2. CASE c # t
    <3>1. Done(c) /\ c \in Users
      BY <1>4, <1>5, <2>2 DEF Contributed
    <3>2. ~Carries(c)'
      BY <1>0, <1>2, <2>2, <3>1 DEF Done, Carries
    <3> QED BY <1>3, <3>1, <3>2 DEF Done
  <2> QED BY <2>1, <2>2
<1>9. kind = "full" => S \cup {t} = 1..turn
  BY <1>0, <1>t, <1>3, <1>4 DEF Contributed
<1>10. Takes(Mine(t), S \cup {t})
  BY <1>0, <1>t, <1>2, <1>3, <1>4, <1>5, <1>6, <1>8, <1>9 DEF Takes
<1> QED BY <1>10

(* ... or what its sink has held back.                                     *)
LEMMA TakesFromTheAir ==
  ASSUME CInv, RoundInv, kind \in {"compressed", "full"}, SinkEnds(Server)
  PROVE  \E delta, T : Takes(delta, T)
<1>0. /\ Users \subseteq ClientIds /\ ClientIds \subseteq Nodes
      /\ Server \in Nodes /\ Server \notin ClientIds
      /\ turn \in Nat /\ turn >= 1
  BY NodeFacts DEF CInv, ControlOK, Users
<1>1. /\ sink[Server] = "grace" /\ sink' = [sink EXCEPT ![Server] = "off"]
      /\ file' = [file EXCEPT ![Server] = <<>>] /\ GotUp(file[Server])
      /\ UNCHANGED <<served, cpc, cmodel, netUp, netDown>>
  BY DEF SinkEnds, client, net
<1>2. /\ spc = "up" /\ sink'[Server] # "grace"
      /\ \A d \in Users : sink'[d] = sink[d] /\ file'[d] = file[d]
  BY <1>0, <1>1, SinkFacts DEF CInv, ControlOK
<1>3. InGrace /\ Held = 1 /\ Items = deltas \cup {file[Server]}
  BY <1>1 DEF InGrace, Held, Items
<1>4. PICK S : Contributed(S) /\ Items \subseteq {Mine(c) : c \in Users} \cup {Garbled}
  BY <1>2 DEF RoundInv, Collected, Gathering
<1>5. turn - 1 + Held = turn
  BY <1>0, <1>3
<1>6. ASSUME NEW c \in S
      PROVE  /\ Even(c) /\ ~Carries(c)' /\ ~Coming(c)
             /\ Mine(c) \in Items \/ Garbled \in Items
  BY <1>1, <1>4 DEF Contributed, Done, Carries
<1>7. Takes(file[Server], S)
  BY <1>1, <1>2, <1>3, <1>4, <1>5, <1>6 DEF Takes, Contributed
<1> QED BY <1>7

LEMMA ServesOnTheLink ==
  ASSUME CInv, RoundInv, kind \in {"compressed", "full"}, spc = "down", down = "net", SentDown,
         netDown' = [netDown EXCEPT ![turn] = Append(@, DownFrame)],
         UNCHANGED <<served, client, transfer, netUp>>
  PROVE  Serves
<1>. turn \in Nat /\ turn >= turn
  BY NodeFacts DEF CInv, ControlOK, Users
<1>0. /\ Users \subseteq ClientIds /\ turn \in Users
      /\ UNCHANGED <<cpc, cmodel, sink, file>>
      /\ sink[Server] = "off" /\ \A c \in Users : sink[c] = "off"
  BY NodeFacts DEF CInv, ControlOK, TransfersFit, Users, client, transfer
<1>1. netDown[turn] = <<>>
  BY <1>0 DEF RoundInv, Spreading, OneAtATime, Coming
<1>2. /\ netDown'[turn] = <<DownFrame>>
      /\ \A d \in Users : d # turn => netDown'[d] = netDown[d]
  BY <1>0, <1>1 DEF CInv, ControlOK
<1> QED BY <1>0, <1>2 DEF Serves

LEMMA ServesOverTheAir ==
  ASSUME CInv, RoundInv, Plain, NEW q \in Nodes, Deliver(Server, q)
  PROVE  Serves /\ spc = "down"
<1>1. /\ q \in Users /\ src[Server] # "off" /\ Server \in Nodes
      /\ Server \notin ClientIds
      /\ Users \subseteq ClientIds /\ ClientIds \subseteq Nodes
      /\ turn \in 1..clients /\ clients \in Nat
  BY DownloadControl, NodeFacts DEF Deliver, CInv, ControlOK, Users
<1>2. spc = "down" /\ sink[Server] = "off" /\ down = "radio"
  BY <1>1, SourceFacts
<1>3. q = turn /\ clients = 1
  BY <1>1, <1>2 DEF Plain, Misdirected, Users
<1>4. /\ sink' = [sink EXCEPT ![q] = "grace"] /\ SentDown
      /\ UNCHANGED <<served, cpc, cmodel, netUp, netDown>>
  BY DEF Deliver, Onwards, client, net
<1>5. file' = [file EXCEPT ![q] = DownFrame]
  <2>1. q # Server
    BY <1>1
  <2> QED BY <2>1 DEF Deliver, Content
<1>6. /\ file'[turn] = DownFrame /\ sink'[Server] = "off"
      /\ \A d \in Users : d = turn
  BY <1>1, <1>2, <1>3, <1>4, <1>5 DEF CInv, ControlOK, Users
<1>7. netDown[turn] # <<>> => down = "net"
  BY <1>1, <1>3 DEF RoundInv, OnTheWayDown
<1> QED BY <1>2, <1>4, <1>6, <1>7 DEF Serves

LEMMA GivesUpServing ==
  ASSUME CInv, RoundInv, kind \in {"compressed", "full"}, GivesUp(Server)
  PROVE  Serves /\ spc = "down"
<1>1. /\ src[Server] # "off" /\ Server \in Nodes /\ turn \in Users
  BY NodeFacts DEF GivesUp, Refused, CInv, ControlOK
<1>2. spc = "down" /\ sink[Server] = "off"
  BY <1>1, SourceFacts
<1>3. SentDown /\ UNCHANGED <<served, cpc, cmodel, netUp, netDown, sink, file>>
  BY DEF GivesUp, Onwards, client, net
<1> QED BY <1>1, <1>2, <1>3 DEF Serves, RoundInv, OnTheWayDown

LEMMA TakingIsSafe ==
  ASSUME CInv, RoundInv, kind \in {"compressed", "full"}, \E delta, T : Takes(delta, T)
  PROVE  RoundInv'
BY TakingOneMore, TakingTheLast

LEMMA PlainNext == CInv /\ GInv /\ PInv /\ [RoundsNext]_roundsVars => PInv'
<1> SUFFICES ASSUME CInv, GInv, RoundInv, Plain, [RoundsNext]_roundsVars PROVE RoundInv'
  <2>1. [RoundsNext]_roundsVars => Plain' = Plain
    BY ServedStays DEF Plain, Misdirected, served
  <2> QED BY <2>1 DEF PInv
<1>0. /\ kind \in {"compressed", "full"} /\ Users \subseteq ClientIds
      /\ ClientIds \subseteq Nodes
      /\ Server \in Nodes /\ Server \notin ClientIds
  BY NodeFacts DEF CInv, Plain
<1>1. CASE UNCHANGED roundsVars
  <2>1. FallsBack
    BY <1>1 DEF roundsVars, server, client, transfer, net, FallsBack
  <2> QED BY <2>1, FallingBackIsSafe
<1>2. CASE WaitAll
  <2>1. CASE ServerRaises
    <3>1. OnlyTheServer("raised")
      BY <2>1 DEF ServerRaises, OnlyTheServer
    <3> QED BY <1>0, <3>1, ServerOnly
  <2>2. CASE ~ServerRaises
    <3>1. OnlyTheServer(First) /\ First \in {"up", "down"} /\ spc = "hello"
      BY <1>0, <1>2, <2>2, FirstIs DEF WaitAll, OnlyTheServer
    <3>2. \A c \in Users : cpc[c] # "hello"
      BY <1>0, <1>2, <2>2 DEF WaitAll, GInv
    <3> QED BY <1>0, <3>1, <3>2, ServerOnly
  <2> QED BY <2>1, <2>2
<1>3. CASE NetRecvUp
  <2>1. CASE ServerRaises
    <3>1. OnlyTheServer("raised")
      BY <1>3, <2>1 DEF NetRecvUp, ServerRaises, OnlyTheServer
    <3> QED BY <1>0, <3>1, ServerOnly
  <2>2. CASE ~ServerRaises
    BY <1>0, <1>3, <2>2, TakesFromTheLink, TakingIsSafe DEF NetRecvUp
  <2> QED BY <2>1, <2>2
<1>4. CASE NetSendDown
  <2>1. CASE ServerRaises
    <3>1. OnlyTheServer("raised")
      BY <1>4, <2>1 DEF NetSendDown, ServerRaises, OnlyTheServer
    <3> QED BY <1>0, <3>1, ServerOnly
  <2>2. CASE ~ServerRaises
    BY <1>0, <1>4, <2>2, ServesOnTheLink, ServingIsSafe DEF NetSendDown
  <2> QED BY <2>1, <2>2
<1>5. CASE MockRound
  BY <1>0, <1>5 DEF MockRound
<1>6. ASSUME NEW c \in Users, Hello(c) \/ Dials(c) PROVE RoundInv'
  <2>1. PICK s \in {First, "hello", "raised"} :
          \A d \in Users : cpc'[d] = IF d = c THEN s ELSE cpc[d]
    BY <1>0, <1>6 DEF Hello, Dials, ClientRaises, client, CInv, ControlOK
  <2>2. cpc[c] = "hello" /\ UNCHANGED <<served, server, cmodel, transfer, netUp, netDown>>
    BY <1>6 DEF Hello, Dials, ClientRaises, client, net
  <2>3. First # "hello" /\ (kind = "full" => First = "down")
    BY <1>0, FirstIs
  <2>4. FallsBack
    BY <2>1, <2>2, <2>3 DEF FallsBack, server, transfer, net
  <2> QED BY <2>4, FallingBackIsSafe
<1>7. ASSUME NEW c \in Users, NetSendUp(c) PROVE RoundInv'
  <2>1. CASE ClientRaises(c)
    <3>1. FallsBack
      BY <2>1, StoppingFallsBack DEF ClientRaises, transfer
    <3> QED BY <3>1, FallingBackIsSafe
  <2>2. CASE ~ClientRaises(c)
    <3>1. PICK s \in {"down", "ended"} : cpc' = [cpc EXCEPT ![c] = s]
      BY <1>0, <1>7, <2>2, SentUpFallsBack DEF NetSendUp
    <3> QED BY <1>0, <1>7, <2>2, <3>1, UploadOnTheLink DEF NetSendUp
  <2> QED BY <2>1, <2>2
<1>8. ASSUME NEW c \in Users, NetRecvDown(c) PROVE RoundInv'
  <2>1. CASE ClientRaises(c)
    <3>1. FallsBack
      BY <2>1, StoppingFallsBack DEF ClientRaises, transfer
    <3> QED BY <3>1, FallingBackIsSafe
  <2>2. CASE ~ClientRaises(c)
    <3>1. /\ netDown[c] # <<>> /\ netDown' = [netDown EXCEPT ![c] = Tail(@)] /\ down = "net"
          /\ GotDown(c, Head(netDown[c]))
          /\ UNCHANGED <<served, server, sink, file, netUp>>
      BY <1>8, <2>2 DEF NetRecvDown, transfer
    <3>2. netDown[c] = <<DownFrame>> /\ Coming(c) /\ sink[c] = "off"
      BY <1>0, <3>1 DEF RoundInv, OnTheWayDown, Coming, CInv, TransfersFit
    <3>3. netDown'[c] = <<>> /\ \A d \in Users : d # c => netDown'[d] = netDown[d]
      BY <1>0, <3>1, <3>2 DEF CInv, ControlOK
    <3>4. PICK s \in {"up", "ended"} : cpc' = [cpc EXCEPT ![c] = s]
      BY <1>0, <3>1, GotDownControl DEF CInv
    <3>5. Arrives(c, s)
      BY <3>1, <3>2, <3>3, <3>4 DEF Arrives, Coming
    <3> QED BY <1>0, <3>2, <3>5, ArrivingEvens
  <2> QED BY <2>1, <2>2
<1>9. ASSUME NEW c \in Users, Dies(c) PROVE RoundInv'
  <2>1. /\ cpc' = [cpc EXCEPT ![c] = "dead"] /\ sink' = [sink EXCEPT ![c] = "off"]
        /\ UNCHANGED <<served, server, cmodel, file, netUp, netDown>>
    BY <1>9 DEF Dies
  <2>2. /\ \A d \in Users : /\ cpc'[d] = cpc[d] \/ cpc'[d] = "dead"
                            /\ sink'[d] = sink[d] \/ sink'[d] = "off"
        /\ sink'[Server] = sink[Server]
    BY <1>0, <2>1 DEF CInv, ControlOK
  <2>3. FallsBack
    BY <2>1, <2>2 DEF FallsBack, server, net
  <2> QED BY <2>3, FallingBackIsSafe
<1>10. ASSUME NEW p \in Users \cup {Server}, Radio(p) PROVE RoundInv'
  <2>1. CASE StartSink(p) \/ StartSource(p) \/ Accept(p) \/ \E q \in Nodes : Connect(p, q)
    BY <1>0, <2>1, RadioFallsBack, FallingBackIsSafe
  <2>2. ASSUME p \in Users, NEW q \in Nodes, Deliver(p, q) PROVE RoundInv'
    <3>1. q = Server
      BY <2>2, UploadControl
    <3>2. /\ src[p] # "off" /\ sink[Server] = "session"
          /\ sink' = [sink EXCEPT ![Server] = "grace"]
          /\ UNCHANGED <<served, server, cmodel, net>> /\ SentUp(p)
      BY <1>0, <2>2, <3>1 DEF Deliver, Onwards
    <3>3. cpc[p] = "up" /\ spc = "up"
      BY <1>0, <2>2, <3>2, SourceFacts, SinkFacts
    <3>4. PICK s \in {"down", "ended"} : cpc' = [cpc EXCEPT ![p] = s]
      BY <1>0, <2>2, <3>2, SentUpFallsBack
    <3>5. PICK got \in {Own(p), Garbled} : file' = [file EXCEPT ![Server] = got]
      BY <1>0, <2>2, <3>1 DEF Deliver, Content
    <3> QED BY <1>0, <2>2, <3>2, <3>3, <3>4, <3>5, UploadOverTheAir
  <2>3. ASSUME p = Server, NEW q \in Nodes, Deliver(p, q) PROVE RoundInv'
    BY <1>0, <2>3, ServesOverTheAir, ServingIsSafe
  <2>4. CASE p \in Users /\ SinkEnds(p)
    <3>1. /\ sink[p] = "grace" /\ sink' = [sink EXCEPT ![p] = "off"]
          /\ file' = [file EXCEPT ![p] = <<>>] /\ GotDown(p, file[p])
          /\ UNCHANGED <<served, server, netUp, netDown>>
      BY <1>0, <2>4 DEF SinkEnds, net
    <3>2. Coming(p) /\ file[p] = DownFrame /\ down = "radio" /\ netDown[p] = <<>>
      BY <1>0, <2>4, <3>1, SinkFacts DEF RoundInv, OnTheWayDown, Coming
    <3>3. /\ sink'[p] = "off" /\ sink'[Server] = sink[Server]
          /\ file'[Server] = file[Server]
          /\ \A d \in Users : d # p => sink'[d] = sink[d] /\ file'[d] = file[d]
      BY <1>0, <2>4, <3>1 DEF CInv, ControlOK
    <3>4. PICK s \in {"up", "ended"} : cpc' = [cpc EXCEPT ![p] = s]
      BY <1>0, <2>4, <3>1, GotDownControl DEF CInv
    <3>5. Arrives(p, s)
      BY <3>1, <3>2, <3>3, <3>4 DEF Arrives, Coming
    <3> QED BY <1>0, <2>4, <3>2, <3>5, ArrivingEvens
  <2>5. CASE p = Server /\ SinkEnds(p)
    BY <1>0, <2>5, TakesFromTheAir, TakingIsSafe
  <2> QED BY <1>10, <2>1, <2>2, <2>3, <2>4, <2>5 DEF Radio
<1>11. ASSUME NEW p \in Users \cup {Server}, GivesUp(p) PROVE RoundInv'
  <2>1. CASE p = Server
    BY <1>0, <1>11, <2>1, GivesUpServing, ServingIsSafe
  <2>2. CASE p \in Users
    <3>1. SentUp(p) /\ UNCHANGED <<served, server, cmodel, sink, file, net>>
      BY <1>0, <1>11, <2>2 DEF GivesUp, Onwards
    <3>2. PICK s \in {"down", "ended"} : cpc' = [cpc EXCEPT ![p] = s]
      BY <1>0, <2>2, <3>1, SentUpFallsBack
    <3>3. FallsBack
      BY <2>2, <3>1, <3>2, StoppingFallsBack
    <3> QED BY <3>3, FallingBackIsSafe
  <2> QED BY <2>1, <2>2
<1> QED BY <1>1, <1>2, <1>3, <1>4, <1>5, <1>6, <1>7, <1>8, <1>9, <1>10, <1>11
        DEF RoundsNext, ServerNet, ClientNet

-----------------------------------------------------------------------------
FInv == CInv /\ GInv /\ MInv /\ WInv /\ PInv

LEMMA PrefixFromElements ==
  ASSUME NEW s \in Models, NEW t \in Models, Len(s) <= Len(t),
         \A i \in 1..Len(s) : s[i] = t[i]
  PROVE  IsPrefix(s, t)
<1>1. Len(s) \in Nat /\ Len(t) \in Nat
  BY DEF Models
<1>2. SubSeq(s, 1, Len(s)) = s
  BY DEF Models
<1>3. /\ SubSeq(t, 1, Len(s)) \in Models /\ Len(SubSeq(t, 1, Len(s))) = Len(s)
      /\ \A i \in 1..Len(s) : SubSeq(t, 1, Len(s))[i] = t[i]
  BY <1>1 DEF Models
<1>4. SubSeq(t, 1, Len(s)) = s
  BY <1>3 DEF Models
<1> QED BY <1>2, <1>4 DEF IsPrefix

LEMMA EvenOrLateIsBehind ==
  ASSUME NEW c, model \in Models, cmodel[c] \in Models, Even(c) \/ Late(c)
  PROVE  Behind(c)
<1>1. Len(model) \in Nat /\ Len(cmodel[c]) \in Nat
  BY DEF Models
<1>2. CASE Even(c)
  <2>1. IsPrefix(cmodel[c], model)
    <3>1. IsPrefix(model, model)
      BY <1>1, PrefixFromElements
    <3> QED BY <1>2, <3>1 DEF Even
  <2> QED BY <1>1, <1>2, <2>1 DEF Behind, Even
<1>3. CASE Late(c)
  <2>1. Len(model) \in 1..Len(model)
    BY <1>1, <1>3 DEF Late, Models
  <2>2. PICK e \in SUBSET Item : e = Last(model)
    BY <2>1 DEF Last, Models
  <2>3. model = Append(cmodel[c], e)
    BY <1>3, <2>2 DEF Late
  <2>4. /\ Len(model) = Len(cmodel[c]) + 1
        /\ \A i \in 1..Len(cmodel[c]) : model[i] = cmodel[c][i]
    BY <2>3, Appended
  <2>5. IsPrefix(cmodel[c], model)
    BY <1>1, <2>4, PrefixFromElements
  <2> QED BY <1>1, <2>4, <2>5 DEF Behind
<1> QED BY <1>2, <1>3

LEMMA RoundsFollow == FInv => RoundsAgree
<1> SUFFICES ASSUME FInv PROVE RoundsAgree
  OBVIOUS
<1>0. kind \in {"compressed", "full", "mock", "sgd"} /\ Users \subseteq ClientIds
  BY NodeFacts DEF FInv, CInv, ControlOK
<1>1. CASE kind = "mock"
  <2>1. MockInv
    BY <1>1 DEF FInv, MInv
  <2>2. FairMean
    BY <2>1 DEF FairMean, MockInv, Models
  <2>3. \A c \in Users : Behind(c)
    BY <1>0, <2>1, EvenOrLateIsBehind DEF MockInv, Even
  <2> QED BY <1>1, <2>2, <2>3 DEF RoundsAgree, MirrorsAgree
<1>2. CASE kind = "sgd"
  <2> SUFFICES ASSUME lost = {}
               PROVE  /\ \A i \in DOMAIN model :
                            model[i] = {[by |-> c, base |-> i - 1] : c \in Users}
                      /\ IsPrefix(model, cmodel[1])
                      /\ Len(cmodel[1]) <= Len(model) + 2
    BY <1>2 DEF RoundsAgree, MirrorsAgree, FairMean
  <2>1. SgdInv
    BY <1>2 DEF FInv, WInv
  <2>2. model \in Models /\ cmodel[1] \in Models /\ Len(model) \in Nat
    BY <2>1 DEF SgdInv, Models
  <2>3. Len(model) <= Len(cmodel[1]) /\ Len(cmodel[1]) <= Len(model) + 2
    <3>1. PICK a \in {0, 1}, b \in {0, 1} : Len(cmodel[1]) = Len(model) + a + b
      BY <2>1 DEF SgdInv
    <3> QED BY <2>2, <3>1
  <2>4. \A i \in 1..Len(model) : model[i] = Update(i) /\ cmodel[1][i] = Update(i)
    <3>1. Len(cmodel[1]) \in Nat /\ \A i \in 1..Len(cmodel[1]) : cmodel[1][i] = Update(i)
      <4>1. Len(cmodel[1]) \in Nat
        BY <2>2 DEF Models
      <4> QED BY <2>1, <4>1 DEF SgdInv
    <3>2. \A i \in 1..Len(model) : i \in 1..Len(cmodel[1])
      BY <2>2, <2>3, <3>1
    <3>3. \A i \in 1..Len(model) : model[i] = Update(i)
      BY <2>1 DEF SgdInv
    <3> QED BY <3>1, <3>2, <3>3
  <2>5. IsPrefix(model, cmodel[1])
    BY <2>2, <2>3, <2>4, PrefixFromElements
  <2>6. Users = {1}
    BY <1>2, SgdFacts DEF FInv
  <2>7. \A i \in DOMAIN model : model[i] = {[by |-> c, base |-> i - 1] : c \in Users}
    BY <2>2, <2>4, <2>6 DEF Update, Models
  <2> QED BY <2>3, <2>5, <2>7
<1>3. CASE Plain
  <2>1. RoundInv
    BY <1>3 DEF FInv, PInv
  <2>2. FairMean
    BY <2>1 DEF FairMean, RoundInv, AllFair, Fair, DataOK, Models
  <2>3. \A c \in Users : Behind(c)
    BY <1>0, <2>1, EvenOrLateIsBehind DEF RoundInv, DataOK, Followers
  <2> QED BY <1>3, <2>2, <2>3 DEF RoundsAgree, MirrorsAgree, Plain
<1>4. CASE Misdirected
  BY <1>4 DEF RoundsAgree, FairMean, MirrorsAgree, Misdirected
<1> QED BY <1>0, <1>1, <1>2, <1>3, <1>4 DEF Plain

(* Over any number of clients and rounds, each direction over the air or   *)
(* on the model link, whoever dies and whatever transfer is lost or reset: *)
(* every aggregate the server of fl.py applies is the mean of one          *)
(* contribution of each client, trained on the model of that round, and    *)
(* every client's model is the server's or the one before; the SGD mirror  *)
(* follows its worker while no transfer is given up.  (With the exceptions *)
(* RoundsAgree names: two clients' chunks mixed, a misdirected downlink.)   *)
THEOREM AggregatesAreFair == RoundsSpec => []RoundsAgree
<1>1. RoundsInit => FInv
  BY ControlInit, GreetingInit, MockInit, SgdInit, PlainInit DEF FInv
<1>2. FInv /\ [RoundsNext]_roundsVars => FInv'
  BY ControlNext, GreetingNext, MockNext, SgdNext, PlainNext DEF FInv
<1> QED BY <1>1, <1>2, RoundsFollow, PTL DEF RoundsSpec
=============================================================================
