---------------------------- MODULE StopAndWait ----------------------------
(***************************************************************************)
(* The stop-and-wait ARQ of the radio (ACQ_stop_and_wait.hpp): SOURCE's    *)
(* worker thread, SINK's worker thread, the main() loops that own them and *)
(* the acknowledgement link between them.                                  *)
(*                                                                         *)
(* Data and acknowledgements queue in order (the modem's FIFOs, or a TCP   *)
(* stream).  A burst that never decodes and one whose CRC fails are the    *)
(* same thing to both ends, so a loss is decided when it is sent.  Time    *)
(* appears only as the order of events: a deadline may expire at any       *)
(* moment of the wait, with or without an acknowledgement on its way.      *)
(***************************************************************************)
EXTENDS Naturals, Sequences, FiniteSets

CONSTANTS
  NumChunks,      \* chunks of the message (main() refuses more than 255)
  MaxAttempts,    \* --max-attempts; 0 retries for ever
  GraceTimeouts,  \* source timeouts the sink's farewell sleep spans
  AckMayBeLost,   \* TRUE for RfAckLink, FALSE for TcpAckLink
  QueueCap        \* bound: frames (and ACKs) in flight; beyond it one is lost

ASSUME StopAndWaitAssumption ==
  /\ NumChunks \in 0..255
  /\ MaxAttempts \in Nat
  /\ GraceTimeouts \in Nat
  /\ AckMayBeLost \in BOOLEAN
  /\ QueueCap \in Nat \ {0}

Chunks == 0..(NumChunks - 1)

VARIABLES
  (* SOURCE worker *)
  pc,          \* "tx", "wait", "publish", "flag", "end"
  idx,         \* chunk being sent; NumChunks once the loop is over
  tries,       \* transmissions of that chunk
  ok,          \* ok_per
  failed,      \* the worker's local count of abandoned chunks
  unacked,     \* failed_
  srcDone,     \* done_
  running,     \* running_
  (* SOURCE's main() *)
  srcStop,     \* global_stop_signal of the transmitting process
  result,      \* what "RESULT acked=" prints
  (* link *)
  air,         \* chunk numbers on their way to the sink
  acks,        \* chunk numbers on their way back
  (* SINK worker and its main() *)
  got,         \* keys of chunks_
  sinkDone,    \* done_
  sinkPc,      \* "listening", "grace", "stopped"
  sinkStop,    \* global_stop_signal of the receiving process
  graceLeft,   \* source timeouts the farewell sleep still has to span
  misses       \* history: losses since the sink was complete

srcVars  == <<pc, idx, tries, ok, failed, unacked, srcDone, running>>
mainVars == <<srcStop, result>>
sinkVars == <<got, sinkDone, sinkPc, sinkStop, graceLeft>>
vars == <<srcVars, mainVars, air, acks, sinkVars, misses>>

Init ==
  /\ pc = IF NumChunks = 0 THEN "publish" ELSE "tx"
  /\ idx = 0 /\ tries = 0
  /\ ok = [c \in Chunks |-> FALSE]
  /\ failed = 0 /\ unacked = 0
  /\ srcDone = FALSE /\ running = TRUE
  /\ srcStop = FALSE /\ result = "none"
  /\ air = <<>> /\ acks = <<>>
  /\ got = {} /\ sinkDone = FALSE
  /\ sinkPc = "listening" /\ sinkStop = FALSE
  /\ graceLeft = 0 /\ misses = 0

-----------------------------------------------------------------------------
(* Operators named X_... are X with a plausible slip of the programmer;    *)
(* no specification uses them.                                             *)

(* Without a limit the attempt counter is never read, so it is not kept.   *)
Bump_PerTransmission(t) == 1
Bump(t) == IF MaxAttempts = 0 THEN 1 ELSE t + 1

Exhausted == MaxAttempts > 0 /\ tries >= MaxAttempts

IsMyAck_AnyAck(a) == TRUE
IsMyAck(a) == a = idx

GiveUp_Uncounted == UNCHANGED failed
GiveUp == failed' = failed + 1

More == idx + 1 < NumChunks

Store == unacked' = failed

(* Losses are counted (up to the ones the farewell sleep must survive, and *)
(* one more) from the moment the sink is complete.                         *)
CountMiss(complete) ==
  misses' = IF complete /\ misses <= GraceTimeouts THEN misses + 1 ELSE misses

(* The for loop advances; tries starts again with the next chunk.          *)
NextChunk(acked) ==
  /\ ok' = [ok EXCEPT ![idx] = acked]
  /\ idx' = idx + 1
  /\ IF More THEN pc' = "tx" /\ tries' = 0
             ELSE pc' = "publish" /\ UNCHANGED tries

SrcTransmit ==
  /\ pc = "tx" /\ running
  /\ tries' = Bump(tries)
  /\ pc' = "wait"
  /\ \/ /\ Len(air) < QueueCap
        /\ air' = Append(air, idx)
        /\ UNCHANGED misses
     \/ /\ UNCHANGED air
        /\ CountMiss(sinkDone)
  /\ UNCHANGED <<idx, ok, failed, unacked, srcDone, running, mainVars, acks, sinkVars>>

(* poll_ack: an acknowledgement of another chunk is stale and ignored.     *)
SrcPollAck ==
  /\ pc = "wait" /\ running
  /\ acks # <<>>
  /\ acks' = Tail(acks)
  /\ IF IsMyAck(Head(acks)) THEN NextChunk(TRUE)
                            ELSE UNCHANGED <<pc, idx, tries, ok>>
  /\ UNCHANGED <<failed, unacked, srcDone, running, mainVars, air, sinkVars, misses>>

(* The deadline passes without the acknowledgement having been polled.     *)
SrcTimeout ==
  /\ pc = "wait" /\ running
  /\ IF Exhausted THEN GiveUp /\ NextChunk(FALSE)
                  ELSE pc' = "tx" /\ UNCHANGED <<idx, tries, ok, failed>>
  /\ graceLeft' = IF sinkPc = "grace" /\ graceLeft > 0 THEN graceLeft - 1 ELSE graceLeft
  /\ UNCHANGED <<unacked, srcDone, running, mainVars, air, acks,
                 got, sinkDone, sinkPc, sinkStop, misses>>

(* running_ was cleared: both loops fall through.  The chunk in hand is    *)
(* counted as failed only if this was its last attempt.                    *)
SrcUnwind ==
  /\ pc \in {"tx", "wait"} /\ ~running
  /\ failed' = IF pc = "wait" /\ Exhausted THEN failed + 1 ELSE failed
  /\ pc' = "publish"
  /\ UNCHANGED <<idx, tries, ok, unacked, srcDone, running, mainVars, air, acks,
                 sinkVars, misses>>

SrcPublish ==
  /\ pc = "publish"
  /\ Store
  /\ pc' = "flag"
  /\ UNCHANGED <<idx, tries, ok, failed, srcDone, running, mainVars, air, acks,
                 sinkVars, misses>>

SrcFlag ==
  /\ pc = "flag"
  /\ srcDone' = TRUE
  /\ pc' = "end"
  /\ UNCHANGED <<idx, tries, ok, failed, unacked, running, mainVars, air, acks,
                 sinkVars, misses>>

(* main(): leave the wait loop and call SOURCE::stop().                    *)
SrcMainStop ==
  /\ srcDone \/ srcStop
  /\ running
  /\ running' = FALSE
  /\ UNCHANGED <<pc, idx, tries, ok, failed, unacked, srcDone, mainVars, air, acks,
                 sinkVars, misses>>

(* stop() has joined the worker: "RESULT acked=" from unacked().           *)
SrcMainReport ==
  /\ ~running /\ pc = "end" /\ result = "none"
  /\ result' = IF unacked = 0 THEN "acked" ELSE "unacked"
  /\ UNCHANGED <<srcVars, srcStop, air, acks, sinkVars, misses>>

SrcInterrupt ==
  /\ ~srcStop /\ result = "none"
  /\ srcStop' = TRUE
  /\ UNCHANGED <<srcVars, result, air, acks, sinkVars, misses>>

-----------------------------------------------------------------------------
Keep_AckFirst(c) == got' \in {got, got \cup {c}}
Keep(c) == got' = got \cup {c}

(* RfAckLink may lose the ACK burst, TcpAckLink's stream may not.          *)
SendAck(c) ==
  \/ /\ Len(acks) < QueueCap
     /\ acks' = Append(acks, c)
     /\ UNCHANGED misses
  \/ /\ AckMayBeLost
     /\ UNCHANGED acks
     /\ CountMiss(sinkDone')

Farewell_Short == 0
Farewell == GraceTimeouts

(* A CRC-clean frame: the chunk is kept, the ACK goes out whether or not   *)
(* the chunk is a duplicate, and completion is judged by the map's size.   *)
SinkReceive ==
  /\ sinkPc # "stopped"
  /\ air # <<>>
  /\ air' = Tail(air)
  /\ Keep(Head(air))
  /\ sinkDone' = (sinkDone \/ Cardinality(got') = NumChunks)
  /\ SendAck(Head(air))
  /\ UNCHANGED <<srcVars, mainVars, sinkPc, sinkStop, graceLeft>>

(* main() sees done() and starts the farewell sleep.                       *)
SinkHold ==
  /\ sinkPc = "listening" /\ sinkDone
  /\ sinkPc' = "grace"
  /\ graceLeft' = Farewell
  /\ UNCHANGED <<srcVars, mainVars, air, acks, got, sinkDone, sinkStop, misses>>

(* The sleep ends: the source has timed out GraceTimeouts times within it, *)
(* and the margin let the last retransmission arrive, or the source is     *)
(* not sending any more.                                                   *)
SinkLeave ==
  /\ sinkPc = "grace"
  /\ \/ graceLeft = 0 /\ pc # "tx" /\ air = <<>>
     \/ pc \notin {"tx", "wait"}
  /\ sinkPc' = "stopped"
  /\ UNCHANGED <<srcVars, mainVars, air, acks, got, sinkDone, sinkStop,
                 graceLeft, misses>>

(* Ctrl-C ends the wait for done(); an incomplete sink has no grace.       *)
SinkInterrupt ==
  /\ sinkPc = "listening" /\ ~sinkDone
  /\ sinkStop' = TRUE
  /\ sinkPc' = "stopped"
  /\ UNCHANGED <<srcVars, mainVars, air, acks, got, sinkDone, graceLeft, misses>>

-----------------------------------------------------------------------------
Source == SrcTransmit \/ SrcPollAck \/ SrcTimeout \/ SrcUnwind \/ SrcPublish \/ SrcFlag
Main   == SrcMainStop \/ SrcMainReport
Sink   == SinkReceive \/ SinkHold \/ SinkLeave

Next == Source \/ Main \/ Sink \/ SrcInterrupt \/ SinkInterrupt

Spec == Init /\ [][Next]_vars

(* Threads are scheduled and deadlines expire; nothing is assumed of the   *)
(* radio, and nobody has to press Ctrl-C.                                  *)
FairSpec == Spec /\ WF_vars(Source) /\ WF_vars(Main)

-----------------------------------------------------------------------------
TypeOK ==
  /\ pc \in {"tx", "wait", "publish", "flag", "end"}
  /\ idx \in 0..NumChunks
  /\ tries \in Nat
  /\ ok \in [Chunks -> BOOLEAN]
  /\ failed \in Nat /\ unacked \in Nat
  /\ srcDone \in BOOLEAN /\ running \in BOOLEAN
  /\ srcStop \in BOOLEAN /\ result \in {"none", "acked", "unacked"}
  /\ air \in Seq(Chunks) /\ acks \in Seq(Chunks)
  /\ got \in SUBSET Chunks /\ sinkDone \in BOOLEAN
  /\ sinkPc \in {"listening", "grace", "stopped"} /\ sinkStop \in BOOLEAN
  /\ graceLeft \in Nat /\ misses \in Nat

(* A chunk the source ticks off as ACKed is a chunk the sink holds: the    *)
(* ACK carries only a chunk number, so a stale or repeated one must never  *)
(* be taken for the chunk in hand.                                         *)
AckedChunksAreHeld == \A c \in Chunks : ok[c] => c \in got

(* "unacked(): 0 => full success" when nobody interrupted the source: the  *)
(* sink then holds the whole message.                                      *)
SuccessIsDelivery == result = "acked" /\ ~srcStop => got = Chunks

(* The farewell sleep: if no more frames and ACKs are lost after the sink  *)
(* is complete than the sleep spans source timeouts, the source learns of  *)
(* the last chunk before the sink is gone, unless it spent its attempts.   *)
GraceClosesLastChunk ==
  sinkPc = "stopped" /\ sinkDone /\ NumChunks > 0 /\ ~srcStop
    /\ misses <= GraceTimeouts
    => \/ ok[NumChunks - 1]
       \/ \E i \in 1..Len(acks) : acks[i] = NumChunks - 1
       \/ Exhausted

(* "Prevents a dead reverse link from hanging the run": with a limit on    *)
(* the attempts the source finishes and reports whatever the link does.    *)
SourceReports == <>(result # "none")

-----------------------------------------------------------------------------
(* The promise to the layer above.                                         *)
Verdict == CASE result = "none" -> "pending"
             [] result # "none" /\ srcStop -> "aborted"
             [] result = "acked" /\ ~srcStop -> "success"
             [] result = "unacked" /\ ~srcStop -> "partial"

Promise == INSTANCE ReliableTransfer WITH
             delivered <- got,
             confirmed <- {c \in Chunks : ok[c]},
             verdict   <- Verdict

PromiseKept == Promise!Spec
=============================================================================
