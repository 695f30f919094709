------------------------- MODULE StopAndWaitProofs -------------------------
(***************************************************************************)
(* Proofs about StopAndWait for every message length, attempt limit, grace *)
(* and queue bound.  The inductive invariant says that an acknowledgement  *)
(* never runs ahead of the sink's map and ties the source's local count of *)
(* abandoned chunks to its table of ACKed ones as long as nobody has       *)
(* interrupted it.                                                         *)
(***************************************************************************)
EXTENDS StopAndWait, SequenceTheorems, FiniteSetTheorems, TLAPS

(* Every acknowledgement on its way, and every tick, is for a chunk held.  *)
AcksAreTruthful ==
  /\ \A i \in 1..Len(acks) : acks[i] \in got
  /\ \A c \in Chunks : ok[c] => c \in got

(* Where the worker can be, and who may have cleared running_.             *)
LoopShape ==
  /\ pc \in {"tx", "wait"} => idx < NumChunks
  /\ pc \in {"publish", "flag", "end"} /\ ~srcStop => idx = NumChunks
  /\ srcDone => pc = "end"
  /\ ~running /\ ~srcStop => srcDone

(* The count of abandoned chunks is 0 exactly when all chunks so far are   *)
(* ticked, and it is published before done_ is raised.                     *)
CountShape ==
  /\ ~srcStop /\ failed = 0 => \A c \in Chunks : c < idx => ok[c]
  /\ ~srcStop /\ failed # 0 => \E c \in Chunks : c < idx /\ ~ok[c]
  /\ pc \in {"flag", "end"} => unacked = failed
  /\ result # "none" => pc = "end"
  /\ result = "acked" => unacked = 0
  /\ result = "unacked" => unacked # 0

(* A chunk not yet closed is not ticked.                                   *)
PendingChunk == \A c \in Chunks : ok[c] => c < idx

IInv == TypeOK /\ AcksAreTruthful /\ LoopShape /\ CountShape /\ PendingChunk

-----------------------------------------------------------------------------
LEMMA TypeInit == Init => TypeOK
<1> SUFFICES ASSUME Init PROVE TypeOK
  OBVIOUS
<1>1. air \in Seq(Chunks) /\ acks \in Seq(Chunks)
  BY DEF Init
<1>2. ok \in [Chunks -> BOOLEAN]
  BY DEF Init
<1>3. pc \in {"tx", "wait", "publish", "flag", "end"} /\ idx \in 0..NumChunks
  BY StopAndWaitAssumption DEF Init
<1> QED
  BY <1>1, <1>2, <1>3 DEF Init, TypeOK

(* NextChunk, the shared tail of a poll and of a give-up, keeps the types  *)
(* of what it assigns.                                                     *)
LEMMA NextChunkType ==
  ASSUME TypeOK, pc = "wait", idx < NumChunks, NEW b \in BOOLEAN, NextChunk(b)
  PROVE  /\ pc' \in {"tx", "publish"}
         /\ idx' \in 0..NumChunks
         /\ tries' \in Nat
         /\ ok' \in [Chunks -> BOOLEAN]
  BY StopAndWaitAssumption DEF TypeOK, NextChunk, More, Chunks

LEMMA TypeStep == TypeOK /\ LoopShape /\ [Next]_vars => TypeOK'
<1> SUFFICES ASSUME TypeOK, LoopShape, [Next]_vars PROVE TypeOK'
  OBVIOUS
<1> USE StopAndWaitAssumption DEF vars, srcVars, mainVars, sinkVars
<1>1. CASE SrcTransmit
  <2>1. idx \in Chunks /\ tries' \in Nat
    BY <1>1 DEF TypeOK, LoopShape, SrcTransmit, Chunks, Bump
  <2>2. air' \in Seq(Chunks)
    <3>1. air \in Seq(Chunks)
      BY DEF TypeOK
    <3>2. air' = air \/ air' = Append(air, idx)
      BY <1>1 DEF SrcTransmit
    <3> QED BY <2>1, <3>1, <3>2
  <2>3. misses' \in Nat
    BY <1>1 DEF TypeOK, SrcTransmit, CountMiss
  <2> QED BY <1>1, <2>1, <2>2, <2>3 DEF TypeOK, SrcTransmit
<1>2. CASE SrcPollAck
  <2>1. acks' \in Seq(Chunks)
    BY <1>2 DEF TypeOK, SrcPollAck
  <2>2. CASE IsMyAck(Head(acks))
    BY <1>2, <2>1, <2>2, NextChunkType DEF TypeOK, LoopShape, SrcPollAck
  <2>3. CASE ~IsMyAck(Head(acks))
    BY <1>2, <2>1, <2>3 DEF TypeOK, SrcPollAck
  <2> QED BY <2>2, <2>3
<1>3. CASE SrcTimeout
  <2>1. graceLeft' \in Nat
    BY <1>3 DEF TypeOK, SrcTimeout
  <2>2. CASE Exhausted
    <3>1. NextChunk(FALSE) /\ pc = "wait" /\ idx < NumChunks
      BY <1>3, <2>2 DEF LoopShape, SrcTimeout
    <3>2. failed' \in Nat
      BY <1>3, <2>2 DEF TypeOK, SrcTimeout, GiveUp
    <3> QED BY <1>3, <2>1, <3>1, <3>2, NextChunkType DEF TypeOK, SrcTimeout
  <2>3. CASE ~Exhausted
    BY <1>3, <2>1, <2>3 DEF TypeOK, SrcTimeout
  <2> QED BY <2>2, <2>3
<1>4. CASE SrcUnwind      BY <1>4 DEF TypeOK, SrcUnwind
<1>5. CASE SrcPublish     BY <1>5 DEF TypeOK, SrcPublish, Store
<1>6. CASE SrcFlag        BY <1>6 DEF TypeOK, SrcFlag
<1>7. CASE SrcMainStop    BY <1>7 DEF TypeOK, SrcMainStop
<1>8. CASE SrcMainReport  BY <1>8 DEF TypeOK, SrcMainReport
<1>9. CASE SinkReceive
  <2>1. Head(air) \in Chunks /\ air' \in Seq(Chunks)
    BY <1>9 DEF TypeOK, SinkReceive
  <2>2. acks' \in Seq(Chunks)
    <3>1. acks' = acks \/ acks' = Append(acks, Head(air))
      BY <1>9 DEF SinkReceive, SendAck
    <3>2. acks \in Seq(Chunks)
      BY DEF TypeOK
    <3>3. Append(acks, Head(air)) \in Seq(Chunks)
      BY <2>1, <3>2, AppendProperties
    <3> QED BY <3>1, <3>2, <3>3
  <2>5. misses' \in Nat
    <3>1. UNCHANGED misses \/ CountMiss(sinkDone')
      BY <1>9 DEF SinkReceive, SendAck
    <3>2. CountMiss(sinkDone') => misses' \in {misses, misses + 1}
      BY DEF CountMiss
    <3> QED BY <3>1, <3>2 DEF TypeOK
  <2>3. got' \in SUBSET Chunks
    BY <1>9, <2>1 DEF TypeOK, SinkReceive, Keep
  <2>4. sinkDone' \in BOOLEAN
    BY <1>9 DEF TypeOK, SinkReceive
  <2> QED BY <1>9, <2>1, <2>2, <2>3, <2>4, <2>5 DEF TypeOK, SinkReceive
<1>10. CASE SinkHold      BY <1>10 DEF TypeOK, SinkHold, Farewell
<1>11. CASE SinkLeave     BY <1>11 DEF TypeOK, SinkLeave
<1>12. CASE SrcInterrupt  BY <1>12 DEF TypeOK, SrcInterrupt
<1>13. CASE SinkInterrupt BY <1>13 DEF TypeOK, SinkInterrupt
<1>14. CASE UNCHANGED vars BY <1>14 DEF TypeOK
<1> QED
  BY <1>1, <1>2, <1>3, <1>4, <1>5, <1>6, <1>7, <1>8, <1>9, <1>10, <1>11, <1>12,
     <1>13, <1>14 DEF Next, Source, Main, Sink

-----------------------------------------------------------------------------
LEMMA TruthStep ==
  TypeOK /\ AcksAreTruthful /\ LoopShape /\ [Next]_vars => AcksAreTruthful'
<1> SUFFICES ASSUME TypeOK, AcksAreTruthful, LoopShape, [Next]_vars
             PROVE  AcksAreTruthful'
  OBVIOUS
<1>1. CASE SrcPollAck
  <2>1. \A i \in 1..Len(acks') : acks'[i] \in got'
    <3>1. acks' = Tail(acks) /\ acks # <<>> /\ got' = got
      BY <1>1 DEF SrcPollAck, sinkVars
    <3>2. acks \in Seq(Chunks)
      BY DEF TypeOK
    <3>3. \A i \in 1..Len(Tail(acks)) : i + 1 \in 1..Len(acks) /\ Tail(acks)[i] = acks[i + 1]
      BY <3>1, <3>2
    <3> QED BY <3>1, <3>3 DEF AcksAreTruthful
  <2>2. \A c \in Chunks : ok'[c] => c \in got'
    <3>1. CASE Head(acks) = idx
      <4>1. ok' = [ok EXCEPT ![idx] = TRUE] /\ got' = got
        BY <1>1, <3>1 DEF SrcPollAck, IsMyAck, NextChunk, sinkVars
      <4>2. idx \in got
        BY <1>1, <3>1 DEF SrcPollAck, AcksAreTruthful, TypeOK
      <4> QED BY <4>1, <4>2 DEF AcksAreTruthful, TypeOK
    <3>2. CASE Head(acks) # idx
      BY <1>1, <3>2 DEF SrcPollAck, IsMyAck, AcksAreTruthful, sinkVars
    <3> QED BY <3>1, <3>2
  <2> QED BY <2>1, <2>2 DEF AcksAreTruthful
<1>2. CASE SrcTimeout
  <2>1. acks' = acks /\ got' = got
    BY <1>2 DEF SrcTimeout
  <2>2. \A c \in Chunks : ok'[c] => ok[c]
    BY <1>2 DEF SrcTimeout, NextChunk, TypeOK
  <2> QED BY <2>1, <2>2 DEF AcksAreTruthful
<1>3. CASE SinkReceive
  <2>1. got' = got \cup {Head(air)} /\ ok' = ok
    BY <1>3 DEF SinkReceive, Keep, srcVars
  <2>2. acks' = acks \/ acks' = Append(acks, Head(air))
    BY <1>3 DEF SinkReceive, SendAck
  <2>3. \A i \in 1..Len(acks') : acks'[i] \in got'
    <3>1. acks \in Seq(Chunks) /\ Head(air) \in Chunks
      BY <1>3 DEF TypeOK, SinkReceive
    <3>2. \A i \in 1..Len(acks) : acks[i] \in got'
      BY <2>1 DEF AcksAreTruthful
    <3>3. CASE acks' = Append(acks, Head(air))
      <4>1. /\ Len(acks') = Len(acks) + 1 /\ acks'[Len(acks) + 1] = Head(air)
            /\ \A i \in 1..Len(acks) : acks'[i] = acks[i]
        BY <3>1, <3>3, AppendProperties
      <4>2. \A i \in 1..Len(acks') : i \in 1..Len(acks) \/ i = Len(acks) + 1
        BY <3>1, <4>1, LenProperties
      <4> QED BY <2>1, <3>2, <4>1, <4>2
    <3> QED BY <2>2, <3>2, <3>3
  <2> QED BY <2>1, <2>3 DEF AcksAreTruthful
<1>4. CASE UNCHANGED <<acks, ok, got>>
  BY <1>4 DEF AcksAreTruthful
<1> QED
  BY <1>1, <1>2, <1>3, <1>4
  DEF Next, Source, Main, Sink, SrcTransmit, SrcUnwind, SrcPublish, SrcFlag,
      SrcMainStop, SrcMainReport, SrcInterrupt, SinkHold, SinkLeave, SinkInterrupt,
      vars, srcVars, mainVars, sinkVars

LEMMA LoopStep == TypeOK /\ LoopShape /\ [Next]_vars => LoopShape'
<1> SUFFICES ASSUME TypeOK, LoopShape, [Next]_vars PROVE LoopShape'
  OBVIOUS
<1> USE StopAndWaitAssumption DEF LoopShape
<1>1. ASSUME NEW b \in BOOLEAN, NextChunk(b), pc = "wait",
             UNCHANGED <<srcDone, running, srcStop>>
      PROVE  LoopShape'
  BY <1>1 DEF NextChunk, More, TypeOK
<1>2. CASE SrcTransmit    BY <1>2 DEF SrcTransmit, mainVars
<1>3. CASE SrcPollAck     BY <1>1, <1>3 DEF SrcPollAck, mainVars
<1>4. CASE SrcTimeout     BY <1>1, <1>4 DEF SrcTimeout, mainVars
<1>5. CASE SrcUnwind      BY <1>5 DEF SrcUnwind, mainVars
<1>6. CASE SrcPublish     BY <1>6 DEF SrcPublish, mainVars
<1>7. CASE SrcFlag        BY <1>7 DEF SrcFlag, mainVars
<1>8. CASE SrcMainStop    BY <1>8 DEF SrcMainStop, mainVars
<1>9. CASE SrcInterrupt   BY <1>9 DEF SrcInterrupt, srcVars
<1>10. CASE UNCHANGED <<srcVars, srcStop>>  BY <1>10 DEF srcVars
<1> QED
  BY <1>2, <1>3, <1>4, <1>5, <1>6, <1>7, <1>8, <1>9, <1>10
  DEF Next, Source, Main, Sink, SrcMainReport, SinkReceive, SinkHold, SinkLeave,
      SinkInterrupt, vars, mainVars

LEMMA CountStep == TypeOK /\ LoopShape /\ CountShape /\ [Next]_vars => CountShape'
<1> SUFFICES ASSUME TypeOK, LoopShape, CountShape, [Next]_vars PROVE CountShape'
  OBVIOUS
<1> USE StopAndWaitAssumption DEF CountShape
<1>1. CASE SrcPollAck
  <2>1. CASE Head(acks) = idx
    <3>1. NextChunk(TRUE) /\ UNCHANGED <<failed, unacked, srcStop, result>> /\ pc = "wait"
      BY <1>1, <2>1 DEF SrcPollAck, IsMyAck, mainVars
    <3>2. idx' = idx + 1 /\ ok' = [ok EXCEPT ![idx] = TRUE] /\ pc' \in {"tx", "publish"}
      BY <3>1 DEF NextChunk
    <3> QED BY <3>1, <3>2 DEF TypeOK, Chunks
  <2>2. CASE Head(acks) # idx
    BY <1>1, <2>2 DEF SrcPollAck, IsMyAck, mainVars
  <2> QED BY <2>1, <2>2
<1>2. CASE SrcTimeout
  <2>1. CASE Exhausted
    <3>1. NextChunk(FALSE) /\ UNCHANGED <<unacked, srcStop, result>> /\ pc = "wait"
      BY <1>2, <2>1 DEF SrcTimeout, mainVars
    <3>2. failed' = failed + 1
      BY <1>2, <2>1 DEF SrcTimeout, GiveUp
    <3>3. idx' = idx + 1 /\ ok' = [ok EXCEPT ![idx] = FALSE] /\ pc' \in {"tx", "publish"}
      BY <3>1 DEF NextChunk
    <3>4. idx \in Chunks
      BY <3>1 DEF LoopShape, TypeOK, Chunks
    <3>5. ~ok'[idx] /\ idx < idx'
      BY <3>3, <3>4 DEF TypeOK
    <3> QED BY <3>1, <3>2, <3>3, <3>4, <3>5 DEF TypeOK
  <2>2. CASE ~Exhausted
    BY <1>2, <2>2 DEF SrcTimeout, mainVars
  <2> QED BY <2>1, <2>2
<1>3. CASE SrcUnwind
  <2>1. srcStop
    BY <1>3 DEF SrcUnwind, LoopShape, TypeOK
  <2> QED BY <1>3, <2>1 DEF SrcUnwind, mainVars
<1>4. CASE SrcPublish     BY <1>4 DEF SrcPublish, Store, mainVars
<1>5. CASE SrcFlag        BY <1>5 DEF SrcFlag, mainVars
<1>6. CASE SrcMainStop    BY <1>6 DEF SrcMainStop, mainVars
<1>7. CASE SrcMainReport  BY <1>7 DEF SrcMainReport, srcVars
<1>8. CASE SrcInterrupt   BY <1>8 DEF SrcInterrupt, srcVars
<1>9. CASE SrcTransmit    BY <1>9 DEF SrcTransmit, mainVars
<1>10. CASE UNCHANGED <<srcVars, mainVars>>  BY <1>10 DEF srcVars, mainVars
<1> QED
  BY <1>1, <1>2, <1>3, <1>4, <1>5, <1>6, <1>7, <1>8, <1>9, <1>10
  DEF Next, Source, Main, Sink, SinkReceive, SinkHold, SinkLeave, SinkInterrupt, vars

LEMMA PendingStep == TypeOK /\ PendingChunk /\ [Next]_vars => PendingChunk'
<1> SUFFICES ASSUME TypeOK, PendingChunk, [Next]_vars PROVE PendingChunk'
  OBVIOUS
<1>1. ASSUME NEW b \in BOOLEAN, NextChunk(b) PROVE PendingChunk'
  <2>1. idx' = idx + 1 /\ ok' = [ok EXCEPT ![idx] = b]
    BY <1>1 DEF NextChunk
  <2>2. \A c \in Chunks : c \in Nat /\ (ok'[c] => ok[c] \/ c = idx)
    BY <2>1, StopAndWaitAssumption DEF TypeOK, Chunks
  <2> QED BY <2>1, <2>2 DEF PendingChunk, TypeOK
<1>2. CASE UNCHANGED <<idx, ok>>
  BY <1>2 DEF PendingChunk
<1>3. CASE SrcPollAck \/ SrcTimeout
  BY <1>1, <1>2, <1>3 DEF SrcPollAck, SrcTimeout
<1> QED
  BY <1>2, <1>3
  DEF Next, Source, Main, Sink, SrcTransmit, SrcUnwind, SrcPublish, SrcFlag,
      SrcMainStop, SrcMainReport, SrcInterrupt, SinkReceive, SinkHold, SinkLeave,
      SinkInterrupt, vars, srcVars

-----------------------------------------------------------------------------
(* Every value of every variable stays in its type, for every message      *)
(* length the header can carry and every attempt limit (SOURCE, SINK).     *)
THEOREM Typing == Spec => []TypeOK
<1>1. Init => TypeOK /\ LoopShape
  BY TypeInit, StopAndWaitAssumption DEF Init, LoopShape
<1>2. TypeOK /\ LoopShape /\ [Next]_vars => (TypeOK /\ LoopShape)'
  BY TypeStep, LoopStep
<1> QED BY <1>1, <1>2, PTL DEF Spec

LEMMA Invariance == Spec => []IInv
<1>1. Init => IInv
  <2>1. Init => AcksAreTruthful
    BY DEF Init, AcksAreTruthful
  <2>2. Init => LoopShape /\ CountShape
    BY StopAndWaitAssumption DEF Init, LoopShape, CountShape, Chunks
  <2>3. Init => PendingChunk
    BY DEF Init, PendingChunk
  <2> QED BY <2>1, <2>2, <2>3, TypeInit DEF IInv
<1>2. IInv /\ [Next]_vars => IInv'
  BY TypeStep, TruthStep, LoopStep, CountStep, PendingStep DEF IInv
<1> QED BY <1>1, <1>2, PTL DEF Spec

(* SOURCE ticks a chunk off only when SINK's map has it.                   *)
THEOREM AcknowledgedIsHeld == Spec => []AckedChunksAreHeld
<1>1. IInv => AckedChunksAreHeld
  BY DEF IInv, AcksAreTruthful, AckedChunksAreHeld
<1> QED BY <1>1, Invariance, PTL

(* "RESULT acked=1" of an uninterrupted source means that the sink holds   *)
(* the whole message.                                                      *)
THEOREM SuccessIsTruthful == Spec => []SuccessIsDelivery
<1>1. IInv => SuccessIsDelivery
  <2> SUFFICES ASSUME IInv, result = "acked", ~srcStop PROVE got = Chunks
    BY DEF SuccessIsDelivery
  <2>1. failed = 0 /\ idx = NumChunks
    BY DEF IInv, CountShape, LoopShape, TypeOK
  <2>2. \A c \in Chunks : ok[c]
    BY <2>1, StopAndWaitAssumption DEF IInv, CountShape, Chunks
  <2> QED BY <2>2 DEF IInv, AcksAreTruthful, TypeOK
<1> QED BY <1>1, Invariance, PTL

-----------------------------------------------------------------------------
LEMMA ReportStep ==
  ASSUME IInv, SrcMainReport
  PROVE  /\ Verdict = "pending"
         /\ Verdict' \in {"success", "partial", "aborted"}
         /\ Verdict' = "success" => {c \in Chunks : ok[c]} = Chunks
         /\ Verdict' = "partial" => {c \in Chunks : ok[c]} # Chunks
<1>1. Verdict = "pending"
  BY DEF SrcMainReport, Verdict
<1>2. result' \in {"acked", "unacked"} /\ srcStop' = srcStop /\ srcStop \in BOOLEAN
  BY DEF SrcMainReport, IInv, TypeOK
<1>3. unacked = failed /\ pc = "end"
  BY DEF SrcMainReport, IInv, CountShape
<1>4. CASE srcStop
  <2>1. Verdict' = "aborted"
    BY <1>2, <1>4 DEF Verdict
  <2> QED BY <1>1, <2>1
<1>5. CASE ~srcStop /\ failed = 0
  <2>1. Verdict' = "success"
    BY <1>2, <1>3, <1>5 DEF SrcMainReport, Verdict
  <2>2. \A c \in Chunks : ok[c]
    BY <1>3, <1>5, StopAndWaitAssumption DEF IInv, CountShape, LoopShape, Chunks
  <2> QED BY <1>1, <2>1, <2>2
<1>6. CASE ~srcStop /\ failed # 0
  <2>1. Verdict' = "partial"
    BY <1>2, <1>3, <1>6 DEF SrcMainReport, Verdict
  <2>2. \E c \in Chunks : ~ok[c]
    BY <1>6 DEF IInv, CountShape
  <2> QED BY <1>1, <2>1, <2>2
<1> QED BY <1>2, <1>4, <1>5, <1>6

(* The stop-and-wait link implements ReliableTransfer: each step of the    *)
(* detailed protocol delivers a chunk, confirms a delivered one, concludes *)
(* with a verdict the confirmations justify, or is invisible to the layer  *)
(* above.                                                                  *)
THEOREM Refinement == Spec => PromiseKept
<1>1. Init => Promise!Init
  BY DEF Init, Promise!Init, Verdict
<1>2. IInv /\ [Next]_vars => [Promise!Next]_(Promise!vars)
  <2> SUFFICES ASSUME IInv, [Next]_vars PROVE [Promise!Next]_(Promise!vars)
    OBVIOUS
  <2> USE DEF Promise!Next, Promise!vars
  <2>1. CASE SinkReceive
    <3>1. Head(air) \in Chunks
      BY <2>1 DEF SinkReceive, IInv, TypeOK
    <3>2. got' = got \cup {Head(air)} /\ ok' = ok /\ Verdict' = Verdict
      BY <2>1 DEF SinkReceive, Keep, srcVars, mainVars, Verdict
    <3>3. CASE Head(air) \in got
      BY <3>2, <3>3
    <3>4. CASE Head(air) \notin got
      BY <3>1, <3>2, <3>4 DEF Promise!Deliver
    <3> QED BY <3>3, <3>4
  <2>2. CASE SrcPollAck
    <3>1. UNCHANGED <<got, result, srcStop>> /\ pc = "wait"
      BY <2>2 DEF SrcPollAck, mainVars, sinkVars
    <3>2. Verdict = "pending" /\ Verdict' = Verdict
      BY <3>1 DEF Verdict, IInv, CountShape
    <3>3. CASE Head(acks) = idx
      <4>1. ok' = [ok EXCEPT ![idx] = TRUE]
        BY <2>2, <3>3 DEF SrcPollAck, IsMyAck, NextChunk
      <4>2. idx \in Chunks /\ idx \in got
        BY <2>2, <3>3 DEF SrcPollAck, IInv, TypeOK, AcksAreTruthful
      <4>3. {c \in Chunks : ok'[c]} = {c \in Chunks : ok[c]} \cup {idx}
        BY <4>1, <4>2 DEF IInv, TypeOK
      <4>4. CASE ok[idx]
        BY <3>1, <3>2, <4>2, <4>3, <4>4
      <4>5. CASE ~ok[idx]
        BY <3>1, <3>2, <4>2, <4>3, <4>5 DEF Promise!Confirm
      <4> QED BY <4>4, <4>5
    <3>4. CASE Head(acks) # idx
      BY <2>2, <3>1, <3>2, <3>4 DEF SrcPollAck, IsMyAck
    <3> QED BY <3>3, <3>4
  <2>3. CASE SrcTimeout
    <3>1. UNCHANGED <<got, result, srcStop>>
      BY <2>3 DEF SrcTimeout, mainVars
    <3>2. Verdict' = Verdict
      BY <3>1 DEF Verdict
    <3>3. {c \in Chunks : ok'[c]} = {c \in Chunks : ok[c]}
      <4>1. CASE Exhausted
        <5>1. ok' = [ok EXCEPT ![idx] = FALSE] /\ pc = "wait"
          BY <2>3, <4>1 DEF SrcTimeout, NextChunk
        <5>2. idx \in Chunks /\ ~ok[idx]
          BY <5>1, StopAndWaitAssumption DEF IInv, PendingChunk, LoopShape, TypeOK, Chunks
        <5>3. \A c \in Chunks : ok'[c] <=> ok[c]
          BY <5>1, <5>2 DEF IInv, TypeOK
        <5> QED BY <5>3
      <4>2. CASE ~Exhausted
        BY <2>3, <4>2 DEF SrcTimeout
      <4> QED BY <4>1, <4>2
    <3> QED BY <3>1, <3>2, <3>3
  <2>4. CASE SrcMainReport
    <3>1. UNCHANGED <<got, ok>>
      BY <2>4 DEF SrcMainReport, srcVars, sinkVars
    <3>2. Promise!Conclude(Verdict')
      BY <2>4, <3>1, ReportStep DEF Promise!Conclude
    <3>3. Verdict' \in Promise!Verdicts
      BY <2>4, ReportStep DEF Promise!Verdicts
    <3> QED BY <3>2, <3>3
  <2>5. CASE SrcInterrupt
    <3>1. UNCHANGED <<got, ok>> /\ Verdict' = Verdict
      BY <2>5 DEF SrcInterrupt, srcVars, sinkVars, Verdict
    <3> QED BY <3>1
  <2>6. CASE UNCHANGED <<got, ok, result, srcStop>>
    BY <2>6 DEF Verdict
  <2> QED
    BY <2>1, <2>2, <2>3, <2>4, <2>5, <2>6
    DEF Next, Source, Main, Sink, SrcTransmit, SrcUnwind, SrcPublish, SrcFlag,
        SrcMainStop, SinkHold, SinkLeave, SinkInterrupt, vars, srcVars, mainVars, sinkVars
<1> QED BY <1>1, <1>2, Invariance, PTL DEF Spec, PromiseKept, Promise!Spec

-----------------------------------------------------------------------------
(* The farewell sleep.  Frames arrive in the order they were sent, so      *)
(* nothing on its way is of an earlier chunk than one the sink holds.      *)
InOrder ==
  /\ \A c \in got : c <= idx /\ \A i \in 1..Len(air) : c <= air[i]
  /\ \A i \in 1..Len(air) : air[i] <= idx
  /\ \A i, j \in 1..Len(air) : i <= j => air[i] <= air[j]

(* The sink is complete when it holds every chunk, it only holds on when   *)
(* it is complete, and the source gets past the last chunk by its ACK or   *)
(* by its last attempt.                                                    *)
Completion ==
  /\ NumChunks > 0 => (sinkDone <=> got = Chunks)
  /\ sinkPc = "grace" => sinkDone
  /\ idx = NumChunks /\ NumChunks > 0 => ok[NumChunks - 1] \/ Exhausted

LastAcked == \E i \in 1..Len(acks) : acks[i] = NumChunks - 1
LastClosed == ok[NumChunks - 1] \/ LastAcked \/ Exhausted

(* A complete sink whose source may still need it.                         *)
Owing ==
  sinkDone /\ NumChunks > 0 /\ ~srcStop /\ ~LastClosed /\ misses <= GraceTimeouts

(* The timeouts of the source that the farewell sleep has spanned so far.  *)
Spent == IF sinkPc = "listening" THEN 0 ELSE GraceTimeouts - graceLeft

ToTransmit == IF pc = "tx" THEN 1 ELSE 0

(* Every one of them was followed by a transmission that is still to be    *)
(* made, on its way, or lost (or its ACK was), and one more was lost when  *)
(* the sink became complete.                                               *)
LossesAddUp ==
  /\ graceLeft <= GraceTimeouts
  /\ Owing => misses + Len(air) + ToTransmit >= 1 + Spent

FInv == IInv /\ InOrder /\ Completion /\ LossesAddUp /\ GraceClosesLastChunk

LEMMA FareInit == Init => InOrder /\ Completion /\ LossesAddUp /\ GraceClosesLastChunk
  BY StopAndWaitAssumption
  DEF Init, InOrder, Completion, LossesAddUp, GraceClosesLastChunk, Owing, Chunks

(* Only a transmission appends to the air, a frame of the chunk in hand,   *)
(* and the chunk in hand never goes back.                                  *)
LEMMA OrderStep == IInv /\ InOrder /\ [Next]_vars => InOrder'
<1> SUFFICES ASSUME IInv, InOrder, [Next]_vars PROVE InOrder'
  OBVIOUS
<1>0. /\ idx \in Nat /\ air \in Seq(Chunks) /\ got \subseteq Chunks /\ Chunks \subseteq Nat
      /\ \A i \in 1..Len(air) : air[i] \in Nat
  BY StopAndWaitAssumption DEF IInv, TypeOK, Chunks
<1>1. CASE UNCHANGED <<got, air>> /\ idx' \in {idx, idx + 1}
  BY <1>0, <1>1 DEF InOrder
<1>2. CASE SrcTransmit
  <2>1. got' = got /\ idx' = idx /\ idx \in Chunks
    BY <1>2, StopAndWaitAssumption DEF SrcTransmit, sinkVars, IInv, LoopShape, TypeOK, Chunks
  <2>2. CASE air' = Append(air, idx)
    <3>1. /\ Len(air') = Len(air) + 1 /\ air'[Len(air) + 1] = idx
          /\ \A i \in 1..Len(air) : air'[i] = air[i]
      BY <1>0, <2>1, <2>2, AppendProperties
    <3>2. Len(air) \in Nat
      BY <1>0, LenProperties
    <3>3. \A i \in 1..Len(air') : i \in 1..Len(air) \/ i = Len(air) + 1
      BY <3>1, <3>2
    <3>4. \A i \in 1..Len(air') : air'[i] <= idx'
      BY <1>0, <2>1, <3>1, <3>3 DEF InOrder
    <3>5. \A c \in got' : c <= idx' /\ \A i \in 1..Len(air') : c <= air'[i]
      BY <1>0, <2>1, <3>1, <3>3 DEF InOrder
    <3>6. \A i, j \in 1..Len(air') : i <= j => air'[i] <= air'[j]
      <4> SUFFICES ASSUME NEW i \in 1..Len(air'), NEW j \in 1..Len(air'), i <= j
                   PROVE  air'[i] <= air'[j]
        OBVIOUS
      <4>1. CASE j \in 1..Len(air)
        <5>1. i \in 1..Len(air)
          BY <3>2, <3>3, <4>1
        <5> QED BY <3>1, <4>1, <5>1 DEF InOrder
      <4>2. CASE j = Len(air) + 1
        BY <2>1, <3>1, <3>4, <4>2
      <4> QED BY <3>3, <4>1, <4>2
    <3> QED BY <3>4, <3>5, <3>6 DEF InOrder
  <2>3. CASE air' = air
    BY <2>1, <2>3 DEF InOrder
  <2> QED BY <1>2, <2>2, <2>3 DEF SrcTransmit
<1>3. CASE SinkReceive
  <2>1. /\ air # <<>> /\ air' = Tail(air) /\ got' = got \cup {Head(air)} /\ idx' = idx
    BY <1>3 DEF SinkReceive, Keep, srcVars
  <2>2. /\ Head(air) = air[1] /\ 1 \in 1..Len(air) /\ Len(air') = Len(air) - 1
        /\ \A i \in 1..Len(air') : i + 1 \in 1..Len(air) /\ air'[i] = air[i + 1]
    BY <1>0, <2>1
  <2>3. ASSUME NEW i \in 1..Len(air') PROVE air'[i] <= idx /\ air[1] <= air'[i]
    <3>1. i + 1 \in 1..Len(air) /\ air'[i] = air[i + 1] /\ 1 <= i + 1
      BY <2>2
    <3> QED BY <2>2, <3>1 DEF InOrder
  <2>4. \A c \in got' : c <= idx /\ \A i \in 1..Len(air') : c <= air'[i]
    BY <1>0, <2>1, <2>2, <2>3 DEF InOrder
  <2>5. ASSUME NEW i \in 1..Len(air'), NEW j \in 1..Len(air'), i <= j
        PROVE  air'[i] <= air'[j]
    <3>1. i + 1 <= j + 1
      BY <1>0, <2>5
    <3> QED BY <2>2, <3>1 DEF InOrder
  <2> QED BY <2>1, <2>3, <2>4, <2>5 DEF InOrder
<1>4. CASE SrcPollAck \/ SrcTimeout
  BY <1>1, <1>4 DEF SrcPollAck, SrcTimeout, NextChunk, sinkVars
<1> QED
  BY <1>1, <1>2, <1>3, <1>4
  DEF Next, Source, Main, Sink, SrcUnwind, SrcPublish, SrcFlag, SrcMainStop,
      SrcMainReport, SrcInterrupt, SinkHold, SinkLeave, SinkInterrupt, vars, srcVars,
      sinkVars

(* Once the sink is complete the source is at the last chunk or past it.   *)
LEMMA AtTheLast ==
  ASSUME IInv, InOrder, Completion, sinkDone, NumChunks > 0
  PROVE  /\ idx \in {NumChunks - 1, NumChunks} /\ NumChunks - 1 \in Chunks
         /\ \A i \in 1..Len(air) : air[i] = NumChunks - 1
         /\ ~More
<1>1. NumChunks - 1 \in got /\ idx \in 0..NumChunks /\ air \in Seq(Chunks)
  BY StopAndWaitAssumption DEF Completion, Chunks, IInv, TypeOK
<1>2. NumChunks - 1 <= idx /\ \A i \in 1..Len(air) : NumChunks - 1 <= air[i]
  BY <1>1 DEF InOrder
<1>3. \A i \in 1..Len(air) : air[i] \in Chunks
  BY <1>1
<1> QED BY <1>1, <1>2, <1>3, StopAndWaitAssumption DEF Chunks, More

LEMMA CompletionStep == FInv /\ [Next]_vars => Completion'
<1> SUFFICES ASSUME FInv, [Next]_vars PROVE Completion'
  OBVIOUS
<1> USE DEF FInv
<1>1. NumChunks > 0 => (sinkDone' <=> got' = Chunks)
  <2>1. CASE SinkReceive
    <3>1. got' \subseteq Chunks /\ got \subseteq got'
      BY <2>1 DEF SinkReceive, Keep, IInv, TypeOK
    <3>2. IsFiniteSet(Chunks) /\ Cardinality(Chunks) = NumChunks
      BY FS_Interval, StopAndWaitAssumption DEF Chunks
    <3>3. Cardinality(got') = NumChunks <=> got' = Chunks
      BY <3>1, <3>2, FS_Subset
    <3>4. sinkDone' = (sinkDone \/ Cardinality(got') = NumChunks)
      BY <2>1 DEF SinkReceive
    <3> QED BY <3>1, <3>3, <3>4 DEF Completion
  <2>2. CASE UNCHANGED <<sinkDone, got>>
    BY <2>2 DEF Completion
  <2> QED
    BY <2>1, <2>2
    DEF Next, Source, Main, Sink, SrcTransmit, SrcPollAck, SrcTimeout, SrcUnwind,
        SrcPublish, SrcFlag, SrcMainStop, SrcMainReport, SrcInterrupt, SinkHold,
        SinkLeave, SinkInterrupt, vars, sinkVars
<1>2. sinkPc' = "grace" => sinkDone'
  BY DEF Completion, Next, Source, Main, Sink, SrcTransmit, SrcPollAck, SrcTimeout,
         SrcUnwind, SrcPublish, SrcFlag, SrcMainStop, SrcMainReport, SrcInterrupt,
         SinkReceive, SinkHold, SinkLeave, SinkInterrupt, vars, sinkVars
<1>3. idx' = NumChunks /\ NumChunks > 0 => ok'[NumChunks - 1] \/ Exhausted'
  <2> SUFFICES ASSUME idx' = NumChunks, NumChunks > 0
               PROVE  ok'[NumChunks - 1] \/ Exhausted'
    OBVIOUS
  <2>0. ok \in [Chunks -> BOOLEAN] /\ NumChunks - 1 \in Chunks /\ NumChunks \in Nat
        /\ idx \in Nat
    BY StopAndWaitAssumption DEF IInv, TypeOK, Chunks
  <2>1. ASSUME NEW b \in BOOLEAN, NextChunk(b), b \/ Exhausted PROVE ok'[NumChunks - 1] \/ Exhausted'
    <3>1. idx = NumChunks - 1 /\ ~More /\ ok' = [ok EXCEPT ![idx] = b]
      BY <2>0, <2>1 DEF NextChunk, More
    <3>2. tries' = tries
      BY <2>1, <3>1 DEF NextChunk
    <3> QED BY <2>0, <2>1, <3>1, <3>2 DEF Exhausted
  <2>2. CASE UNCHANGED <<idx, ok, tries>>
    BY <2>2 DEF Completion, Exhausted
  <2>3. CASE SrcTransmit
    <3>1. idx < NumChunks /\ idx' = idx
      BY <2>3 DEF SrcTransmit, IInv, LoopShape
    <3> QED BY <2>0, <3>1
  <2>4. CASE SrcPollAck \/ SrcTimeout
    BY <2>1, <2>2, <2>4 DEF SrcPollAck, SrcTimeout
  <2> QED
    BY <2>2, <2>3, <2>4
    DEF Next, Source, Main, Sink, SrcUnwind, SrcPublish, SrcFlag, SrcMainStop,
        SrcMainReport, SrcInterrupt, SinkReceive, SinkHold, SinkLeave, SinkInterrupt,
        vars, srcVars
<1> QED BY <1>1, <1>2, <1>3 DEF Completion

(* What is settled about the last chunk stays settled.                     *)
LEMMA ClosedStays ==
  ASSUME FInv, [Next]_vars, sinkDone, NumChunks > 0, LastClosed
  PROVE  LastClosed'
<1>0. /\ IInv /\ idx \in {NumChunks - 1, NumChunks} /\ NumChunks - 1 \in Chunks /\ ~More
      /\ ok \in [Chunks -> BOOLEAN] /\ acks \in Seq(Chunks) /\ tries \in Nat /\ idx \in Nat
      /\ NumChunks \in Nat /\ MaxAttempts \in Nat
  BY AtTheLast, StopAndWaitAssumption DEF FInv, IInv, TypeOK
<1>1. CASE SrcPollAck
  <2>1. acks # <<>> /\ acks' = Tail(acks) /\ tries' = tries
    BY <1>0, <1>1 DEF SrcPollAck, NextChunk
  <2>2. CASE ok[NumChunks - 1]
    BY <1>0, <1>1, <2>2 DEF SrcPollAck, NextChunk, LastClosed
  <2>3. CASE Exhausted
    BY <2>1, <2>3 DEF LastClosed, Exhausted
  <2>4. CASE LastAcked
    <3>1. PICK i \in 1..Len(acks) : acks[i] = NumChunks - 1
      BY <2>4 DEF LastAcked
    <3>2. CASE i = 1
      <4>1. Head(acks) = NumChunks - 1 /\ idx = NumChunks - 1
        BY <1>0, <1>1, <2>1, <3>1, <3>2 DEF SrcPollAck, IInv, LoopShape
      <4>2. ok' = [ok EXCEPT ![idx] = TRUE]
        BY <1>1, <4>1 DEF SrcPollAck, IsMyAck, NextChunk
      <4> QED BY <1>0, <4>1, <4>2 DEF LastClosed
    <3>3. CASE i # 1
      <4>1. i - 1 \in 1..Len(acks') /\ acks'[i - 1] = acks[i]
        BY <1>0, <2>1, <3>1, <3>3
      <4> QED BY <3>1, <4>1 DEF LastClosed, LastAcked
    <3> QED BY <3>2, <3>3
  <2> QED BY <2>2, <2>3, <2>4 DEF LastClosed
<1>2. CASE SrcTimeout
  <2>1. acks' = acks /\ tries' = tries
    BY <1>0, <1>2 DEF SrcTimeout, NextChunk
  <2>2. Exhausted \/ ok' = ok
    BY <1>2 DEF SrcTimeout
  <2> QED BY <2>1, <2>2 DEF LastClosed, LastAcked, Exhausted
<1>3. CASE SrcTransmit
  <2>1. UNCHANGED <<ok, acks>> /\ (Exhausted => Exhausted')
    BY <1>0, <1>3 DEF SrcTransmit, Exhausted, Bump
  <2> QED BY <2>1 DEF LastClosed, LastAcked
<1>4. CASE SinkReceive
  <2>1. UNCHANGED <<ok, tries>>
    BY <1>4 DEF SinkReceive, srcVars
  <2>2. LastAcked => LastAcked'
    <3>1. CASE acks' = Append(acks, Head(air))
      <4> SUFFICES ASSUME NEW i \in 1..Len(acks), acks[i] = NumChunks - 1 PROVE LastAcked'
        BY DEF LastAcked
      <4>1. Head(air) \in Chunks
        BY <1>4 DEF SinkReceive, IInv, FInv, TypeOK
      <4>2. i \in 1..Len(acks') /\ acks'[i] = acks[i]
        BY <1>0, <3>1, <4>1, AppendProperties
      <4> QED BY <4>2 DEF LastAcked
    <3> QED BY <1>4, <3>1 DEF SinkReceive, SendAck, LastAcked
  <2> QED BY <2>1, <2>2 DEF LastClosed, Exhausted
<1>5. CASE UNCHANGED <<ok, acks, tries>>
  BY <1>5 DEF LastClosed, LastAcked, Exhausted
<1> QED
  BY <1>1, <1>2, <1>3, <1>4, <1>5
  DEF Next, Source, Main, Sink, SrcUnwind, SrcPublish, SrcFlag, SrcMainStop,
      SrcMainReport, SrcInterrupt, SinkHold, SinkLeave, SinkInterrupt, vars, srcVars

(* Who may still need the sink is at the last chunk.                       *)
LEMMA OwingIsSending ==
  ASSUME FInv, Owing
  PROVE  idx = NumChunks - 1 /\ pc \in {"tx", "wait"} /\ running
         /\ \A i \in 1..Len(air) : air[i] = NumChunks - 1
<1>1. idx \in {NumChunks - 1, NumChunks} /\ \A i \in 1..Len(air) : air[i] = NumChunks - 1
  BY AtTheLast DEF FInv, Owing
<1>2. idx # NumChunks
  BY DEF FInv, Completion, Owing, LastClosed
<1>3. pc \in {"tx", "wait"} /\ running
  BY <1>2 DEF FInv, Owing, IInv, LoopShape, TypeOK
<1> QED BY <1>1, <1>2, <1>3

(* The frame that completes the sink is of the last chunk.                 *)
LEMMA LastArrives ==
  ASSUME FInv, Completion', SinkReceive, ~sinkDone, sinkDone', NumChunks > 0
  PROVE  Head(air) = NumChunks - 1
<1>1. /\ got' = got \cup {Head(air)} /\ got' = Chunks /\ got # Chunks
      /\ Head(air) \in Chunks /\ 1 \in 1..Len(air) /\ Head(air) = air[1]
      /\ NumChunks - 1 \in Chunks
  BY StopAndWaitAssumption
  DEF SinkReceive, Keep, Completion, FInv, IInv, TypeOK, Chunks
<1>2. NumChunks - 1 \in got => NumChunks - 1 <= Head(air)
  BY <1>1 DEF FInv, InOrder
<1> QED BY <1>1, <1>2, StopAndWaitAssumption DEF Chunks

(* The last chunk arrives and no ACK of it is on its way: the ACK was lost. *)
LEMMA NotAcked ==
  ASSUME FInv, SinkReceive, Head(air) = NumChunks - 1, ~LastClosed'
  PROVE  CountMiss(sinkDone')
<1>1. acks \in Seq(Chunks) /\ Head(air) \in Chunks
  BY DEF FInv, IInv, TypeOK, SinkReceive
<1>2. CASE acks' = Append(acks, Head(air))
  <2>1. Len(acks) + 1 \in 1..Len(acks') /\ acks'[Len(acks) + 1] = Head(air)
    BY <1>1, <1>2, AppendProperties, LenProperties
  <2> QED BY <2>1 DEF LastClosed, LastAcked
<1> QED BY <1>2 DEF SinkReceive, SendAck

LEMMA MissesGrow ==
  ASSUME TypeOK, [Next]_vars
  PROVE  misses <= misses'
<1>1. misses \in Nat
  BY DEF TypeOK
<1>2. CASE UNCHANGED misses \/ CountMiss(sinkDone) \/ CountMiss(sinkDone')
  BY <1>1, <1>2 DEF CountMiss
<1> QED
  BY <1>2
  DEF Next, Source, Main, Sink, SrcTransmit, SrcPollAck, SrcTimeout, SrcUnwind,
      SrcPublish, SrcFlag, SrcMainStop, SrcMainReport, SrcInterrupt, SinkReceive, SendAck,
      SinkHold, SinkLeave, SinkInterrupt, vars

LEMMA InterruptStays ==
  ASSUME [Next]_vars, srcStop
  PROVE  srcStop'
BY DEF Next, Source, Main, Sink, SrcTransmit, SrcPollAck, SrcTimeout, SrcUnwind, SrcPublish,
       SrcFlag, SrcMainStop, SrcMainReport, SrcInterrupt, SinkReceive, SinkHold, SinkLeave,
       SinkInterrupt, vars, mainVars

LEMMA LossesStep ==
  ASSUME FInv, Completion', TypeOK', [Next]_vars
  PROVE  LossesAddUp'
<1>0. /\ graceLeft \in Nat /\ misses \in Nat /\ Len(air) \in Nat /\ GraceTimeouts \in Nat
      /\ graceLeft <= GraceTimeouts /\ IInv /\ air \in Seq(Chunks) /\ Len(air') \in Nat
      /\ pc \in {"tx", "wait", "publish", "flag", "end"} /\ misses' \in Nat
  BY StopAndWaitAssumption DEF FInv, IInv, TypeOK, LossesAddUp
<1>1. graceLeft' \in Nat /\ graceLeft' <= GraceTimeouts
  <2>1. graceLeft' = graceLeft \/ SrcTimeout \/ SinkHold
    BY DEF Next, Source, Main, Sink, SrcTransmit, SrcPollAck, SrcUnwind, SrcPublish,
           SrcFlag, SrcMainStop, SrcMainReport, SrcInterrupt, SinkReceive, SinkLeave,
           SinkInterrupt, vars, sinkVars
  <2>2. CASE graceLeft' = graceLeft
    BY <1>0, <2>2
  <2>3. CASE SrcTimeout
    <3>1. graceLeft' = IF sinkPc = "grace" /\ graceLeft > 0 THEN graceLeft - 1 ELSE graceLeft
      BY <2>3 DEF SrcTimeout
    <3> QED BY <1>0, <3>1
  <2>4. CASE SinkHold
    BY <1>0, <2>4 DEF SinkHold, Farewell
  <2> QED BY <2>1, <2>2, <2>3, <2>4
<1> DEFINE Sum == misses + Len(air) + ToTransmit
<1>2. ASSUME Owing' PROVE Sum' >= 1 + Spent'
  <2>1. CASE ~sinkDone
    <3>1. SinkReceive /\ sinkPc' = sinkPc
      BY <1>2, <2>1
      DEF Owing, Next, Source, Main, Sink, SrcTransmit, SrcPollAck, SrcTimeout, SrcUnwind,
          SrcPublish, SrcFlag, SrcMainStop, SrcMainReport, SrcInterrupt, SinkReceive,
          SinkHold, SinkLeave, SinkInterrupt, vars, sinkVars
    <3>2. sinkPc = "listening"
      BY <2>1, <3>1 DEF SinkReceive, FInv, IInv, TypeOK, Completion
    <3>3. Head(air) = NumChunks - 1
      BY LastArrives, <1>2, <2>1, <3>1 DEF Owing
    <3>4. CountMiss(sinkDone')
      BY NotAcked, <1>2, <3>1, <3>3 DEF Owing
    <3>5. misses' >= 1
      BY <1>0, <1>2, <3>4 DEF CountMiss, Owing
    <3> QED BY <1>0, <3>1, <3>2, <3>5 DEF Spent, ToTransmit
  <2>2. CASE sinkDone /\ ~Owing
    <3>1. misses <= GraceTimeouts /\ ~srcStop
      BY <1>0, <1>2, MissesGrow, InterruptStays DEF Owing, IInv
    <3>2. LastClosed
      BY <1>2, <2>2, <3>1 DEF Owing
    <3> QED BY <1>2, <2>2, <3>2, ClosedStays DEF Owing
  <2>3. CASE Owing
    <3>0. /\ Sum >= 1 + Spent /\ sinkDone /\ idx = NumChunks - 1 /\ pc \in {"tx", "wait"}
          /\ running /\ \A i \in 1..Len(air) : air[i] = NumChunks - 1
          /\ ~Exhausted /\ misses <= GraceTimeouts
      BY <2>3, OwingIsSending DEF FInv, LossesAddUp, Owing, LastClosed
    <3>1. CASE SrcTransmit
      <4>1. /\ pc = "tx" /\ pc' = "wait" /\ Spent' = Spent
            /\ \/ air' = Append(air, idx) /\ misses' = misses
               \/ air' = air /\ CountMiss(sinkDone)
        BY <3>1 DEF SrcTransmit, sinkVars, Spent
      <4>2. misses' + Len(air') = misses + Len(air) + 1
        BY <1>0, <3>0, <4>1 DEF CountMiss
      <4>3. misses' + Len(air') + 0 = misses + Len(air) + 1
        BY <1>0, <4>2
      <4> QED BY <3>0, <4>1, <4>3 DEF ToTransmit
    <3>2. CASE SrcPollAck
      <4>1. ~IsMyAck(Head(acks))
        <5> SUFFICES ASSUME IsMyAck(Head(acks)) PROVE FALSE
          OBVIOUS
        <5>1. ok' = [ok EXCEPT ![NumChunks - 1] = TRUE]
          BY <3>0, <3>2 DEF SrcPollAck, NextChunk
        <5>2. ok'[NumChunks - 1]
          BY <2>3, <5>1, StopAndWaitAssumption DEF Owing, IInv, FInv, TypeOK, Chunks
        <5> QED BY <1>2, <5>2 DEF Owing, LastClosed
      <4> QED BY <3>0, <3>2, <4>1 DEF SrcPollAck, sinkVars, Spent, ToTransmit
    <3>3. CASE SrcTimeout
      <4>1. /\ pc = "wait" /\ pc' = "tx" /\ misses' = misses /\ air' = air
            /\ sinkPc' = sinkPc
            /\ graceLeft' = IF sinkPc = "grace" /\ graceLeft > 0 THEN graceLeft - 1
                            ELSE graceLeft
        BY <3>0, <3>3 DEF SrcTimeout
      <4>2. Spent' <= Spent + 1
        BY <1>0, <4>1 DEF Spent
      <4>3. ToTransmit = 0 /\ ToTransmit' = 1 /\ Spent \in Nat /\ Spent' \in Nat
        BY <1>0, <1>1, <4>1 DEF ToTransmit, Spent
      <4> HIDE DEF ToTransmit, Spent
      <4> QED BY <1>0, <3>0, <4>1, <4>2, <4>3
    <3>4. CASE SinkReceive
      <4>1. Head(air) = NumChunks - 1 /\ Len(air') = Len(air) - 1
        BY <1>0, <3>0, <3>4 DEF SinkReceive
      <4>2. misses' = misses + 1
        BY <1>2, <3>0, <3>4, <4>1, NotAcked DEF CountMiss, Owing
      <4>3. ToTransmit' = ToTransmit /\ Spent' = Spent /\ ToTransmit \in Nat
        BY <3>4 DEF SinkReceive, srcVars, ToTransmit, Spent
      <4>4. Spent \in Nat
        BY <1>0 DEF Spent
      <4> HIDE DEF ToTransmit, Spent
      <4> QED BY <1>0, <3>0, <4>1, <4>2, <4>3, <4>4
    <3>5. CASE SinkHold
      <4>1. Spent' = 0 /\ Spent = 0
        BY <1>0, <3>5 DEF SinkHold, Farewell, Spent
      <4>2. Sum' = Sum
        BY <3>5 DEF SinkHold, srcVars, ToTransmit
      <4> HIDE DEF Sum
      <4> QED BY <3>0, <4>1, <4>2
    <3>6. CASE SinkLeave
      <4>1. Sum' = Sum /\ Spent' = Spent
        BY <3>6 DEF SinkLeave, srcVars, ToTransmit, Spent
      <4> QED BY <3>0, <4>1
    <3>7. CASE UNCHANGED <<misses, air, pc, sinkPc, graceLeft>>
      BY <3>0, <3>7 DEF ToTransmit, Spent
    <3> QED
      BY <3>0, <3>1, <3>2, <3>3, <3>4, <3>5, <3>6, <3>7
      DEF Next, Source, Main, Sink, SrcUnwind, SrcPublish, SrcFlag, SrcMainStop,
          SrcMainReport, SrcInterrupt, SinkInterrupt, vars, srcVars, sinkVars
  <2> QED BY <2>1, <2>2, <2>3 DEF Owing
<1> QED BY <1>1, <1>2 DEF LossesAddUp

LEMMA GraceStep ==
  ASSUME FInv, TypeOK', Completion', LossesAddUp', [Next]_vars
  PROVE  GraceClosesLastChunk'
<1> SUFFICES ASSUME Owing', sinkPc' = "stopped" PROVE FALSE
  BY DEF GraceClosesLastChunk, Owing, LastClosed, LastAcked
<1>0. /\ misses \in Nat /\ GraceTimeouts \in Nat /\ IInv
      /\ pc \in {"tx", "wait", "publish", "flag", "end"} /\ misses' \in Nat
  BY StopAndWaitAssumption DEF FInv, IInv, TypeOK
<1>1. CASE SinkLeave
  <2>1. UNCHANGED <<pc, air, misses, graceLeft, sinkDone, idx, ok, acks, tries, srcStop>>
    BY <1>1 DEF SinkLeave, srcVars, mainVars
  <2>2. Owing /\ pc' \in {"tx", "wait"}
    <3>1. Owing
      BY <2>1 DEF Owing, LastClosed, LastAcked, Exhausted
    <3> QED BY <2>1, <3>1, OwingIsSending
  <2>3. graceLeft = 0 /\ pc = "wait" /\ Len(air) = 0
    BY <1>1, <2>1, <2>2 DEF SinkLeave
  <2>4. misses' >= 1 + GraceTimeouts
    BY <1>0, <2>1, <2>3 DEF LossesAddUp, Spent, ToTransmit
  <2> QED BY <1>0, <2>4 DEF Owing
<1>2. CASE SinkInterrupt
  BY <1>2 DEF SinkInterrupt, Owing
<1>3. CASE sinkPc = "stopped"
  <2>1. sinkDone
    BY <1>3
    DEF Owing, Next, Source, Main, Sink, SrcTransmit, SrcPollAck, SrcTimeout, SrcUnwind,
        SrcPublish, SrcFlag, SrcMainStop, SrcMainReport, SrcInterrupt, SinkReceive,
        SinkHold, SinkLeave, SinkInterrupt, vars, sinkVars
  <2>2. misses <= GraceTimeouts /\ ~srcStop
    BY <1>0, MissesGrow, InterruptStays DEF Owing, IInv
  <2>3. LastClosed
    BY <1>3, <2>1, <2>2 DEF FInv, GraceClosesLastChunk, LastClosed, LastAcked, Owing
  <2> QED BY <2>1, <2>3, ClosedStays DEF Owing
<1> QED
  BY <1>1, <1>2, <1>3
  DEF Next, Source, Main, Sink, SrcTransmit, SrcPollAck, SrcTimeout, SrcUnwind,
      SrcPublish, SrcFlag, SrcMainStop, SrcMainReport, SrcInterrupt, SinkReceive,
      SinkHold, vars, sinkVars

(* SINK's farewell sleep is long enough: unless more is lost than it has   *)
(* source timeouts, the source can still close its last chunk.             *)
THEOREM FarewellSuffices == Spec => []GraceClosesLastChunk
<1>1. Init => InOrder /\ Completion /\ LossesAddUp /\ GraceClosesLastChunk
  BY FareInit
<1>2. FInv /\ IInv' /\ [Next]_vars =>
        (InOrder /\ Completion /\ LossesAddUp /\ GraceClosesLastChunk)'
  <2> SUFFICES ASSUME FInv, IInv', [Next]_vars
               PROVE  (InOrder /\ Completion /\ LossesAddUp /\ GraceClosesLastChunk)'
    OBVIOUS
  <2>1. TypeOK' /\ Completion' /\ InOrder'
    BY CompletionStep, OrderStep DEF FInv, IInv
  <2>2. LossesAddUp'
    BY <2>1, LossesStep
  <2> QED BY <2>1, <2>2, GraceStep
<1> QED BY <1>1, <1>2, Invariance, PTL DEF Spec, FInv
=============================================================================
