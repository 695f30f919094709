---------------------------- MODULE ModemThreads ----------------------------
(* The threads inside one modem process and the main() that starts and     *)
(* stops them: a line of stages joined by FIFOs, each a loop that pops,    *)
(* works and pushes until DrainGate lets it go.  A transmitter's line ends *)
(* in transmit_thread, a receiver's begins with receive_thread and ends in *)
(* the FIFOs of bits and of soft decisions, which main() or SINK reads.    *)
(*                                                                         *)
(* A block is the number of its burst; samples and symbols are left out.   *)
(* What the radio and the signal do to a block - it is invalid, cut short, *)
(* not detected, not aligned, decoded with errors - is a choice.           *)
EXTENDS Integers, Sequences, FiniteSets

CONSTANTS
  Roles,      \* of the process: a subset of AllRoles
  NumChunks,  \* chunks of the message
  Reps,       \* --tx-reps; lines on stdin for the on-demand transmitter
  MaxBursts,  \* bursts on the air while a receiver runs (bound)
  Parts,      \* pieces in which send() may take a burst
  MaxErrors,  \* MAX_CONSECUTIVE_ERRORS of transmit_thread
  MaxFaults,  \* faults of the radio (bound)
  Sessions,   \* sessions of SINK (bound)
  LeftOut     \* by role: stages that hand every block on, not in this instance

Framed   == {"burst", "demand"}          \* through the whole line
Raw      == {"tone", "lora"}             \* transmit_samples(): straight to the last stage
Sending  == Framed \cup Raw
AllRoles == Sending \cup {"collect", "sink"}
Passing  == {"pulse_shaping", "AGC", "match_filter", "CFO", "phase_offset", "channel_eq"}

ASSUME ModemAssumption ==
  /\ Roles \subseteq AllRoles /\ LeftOut \in [AllRoles -> SUBSET Passing]
  /\ {NumChunks, Reps, MaxBursts, Parts, MaxErrors, Sessions} \subseteq Nat \ {0}
  /\ MaxFaults \in Nat

VARIABLES
  role, wave,   \* of the process: what it is for; "single" or "ofdm"
  main,         \* where main() is
  n,            \* bursts queued by main(), or on the air so far
  lines,        \* lines read by the on-demand transmitter
  ctrlC,        \* the user raised global_stop_signal
  stop,         \* stop() has raised stop_flag_, and with it the signal
  (* the stages *)
  q,            \* q[k]: the FIFO stage k pops from; the last one holds bits
  hand,         \* hand[k]: the block stage k works on; 0 when at the loop's head
  alive,        \* stages whose thread has not returned
  (* transmit_thread *)
  radio, left,  \* "idle", "check", "send", "eob"; pieces not sent yet
  errors,       \* consecutive_errors
  air,          \* what went on the air: [id, whole]
  (* receive_thread and what reads the receiver's line *)
  recv,         \* receive_thread runs
  half,         \* the demodulator has pushed the bits of its block, not the LLRs
  made,         \* blocks of bits pushed so far
  llrs,         \* rx_llr_fifo
  got, gotAny,  \* chunks verified; a burst was popped
  sink, running,\* SINK: "off", "listen", "wait"; its running_
  dec,          \* the bits it decoded last, and the LLRs it used; 0 for none
  sessions,
  (* history *)
  faults,       \* what the radio did
  late,         \* a sleep of main() was over before the line had done its work
  airAtStop,    \* bursts on the air when stop() was called
  gaveUp        \* waits for LLRs that SINK ended without them

mainVars == <<role, wave, main, n, lines>>
txVars   == <<radio, left, errors, air>>
rxVars   == <<recv, half, made, llrs>>
reader   == <<got, gotAny, sink, running, dec, sessions>>
history  == <<faults, late, airAtStop, gaveUp>>
vars == <<mainVars, ctrlC, stop, q, hand, alive, txVars, rxVars, reader, history>>

-----------------------------------------------------------------------------
(* The stages each pipeline starts, in order.                              *)
TxLine(w) == IF w = "ofdm" THEN <<"ofdm_modulation", "transmit">>
             ELSE <<"modulation", "pulse_shaping", "transmit">>

RxLine(w) == IF w = "ofdm" THEN <<"detection", "AGC", "ofdm_demodulation">>
             ELSE <<"detection", "AGC", "match_filter", "TimeSync", "CFO",
                    "phase_offset", "channel_eq", "demodulation">>

(* Those of an instance: the line of its role without the stages left out. *)
Line == [r \in AllRoles |-> [w \in {"single", "ofdm"} |->
  LET line == IF r \in Sending THEN TxLine(w) ELSE RxLine(w)
      kept == {i \in DOMAIN line : line[i] \notin LeftOut[r]}
      place(k) == CHOOSE i \in kept : Cardinality({j \in kept : j <= i}) = k
  IN  [k \in 1..Cardinality(kept) |-> line[place(k)]]]]

Stages == Line[role][wave]
End    == Len(Stages)
Bits   == End + 1                       \* rx_bits_fifo
All    == IF role = "demand" THEN NumChunks * lines ELSE NumChunks * Reps

(* start(): every FIFO empty, every thread launched.                       *)
Init ==
  /\ role \in Roles /\ wave \in {"single", "ofdm"}
  /\ main = (CASE role = "demand" -> "line" [] role = "collect" -> "collect"
               [] role = "sink" -> "accept" [] OTHER -> "queue")
  /\ n = 0 /\ lines = 0 /\ ctrlC = FALSE /\ stop = FALSE
  /\ q = [k \in 1..Bits |-> <<>>] /\ hand = [k \in 1..End |-> 0] /\ alive = 1..End
  /\ radio = "idle" /\ left = 0 /\ errors = 0 /\ air = <<>>
  /\ recv = (role \notin Sending) /\ half = FALSE /\ made = 0 /\ llrs = <<>>
  /\ got = {} /\ gotAny = FALSE /\ sink = "off" /\ running = FALSE
  /\ dec = [bits |-> 0, llr |-> 0] /\ sessions = 0
  /\ faults = 0 /\ late = FALSE /\ airAtStop = 0 /\ gaveUp = 0

(* Operators named X_... are X with a plausible slip of the programmer; no *)
(* specification uses them.                                                *)

-----------------------------------------------------------------------------
(* A thread at the head of its loop.  After stop_flag_ it goes on as long  *)
(* as there is something to drain; its grace may be over whenever it looks.*)
Pop(k) ==
  /\ k \in alive /\ hand[k] = 0 /\ q[k] # <<>>
  /\ hand' = [hand EXCEPT ![k] = Head(q[k])]
  /\ q' = [q EXCEPT ![k] = Tail(@)]
  /\ IF role \in Sending /\ k = End THEN radio' = "check" /\ left' = Parts
     ELSE UNCHANGED <<radio, left>>
  /\ UNCHANGED <<mainVars, ctrlC, stop, alive, errors, air, rxVars, reader, history>>

Leave(k) ==
  /\ k \in alive /\ hand[k] = 0 /\ stop
  /\ alive' = alive \ {k}
  /\ UNCHANGED <<mainVars, ctrlC, stop, q, hand, txVars, rxVars, reader, history>>

(* A stage at work on a block hands it on, or has nothing to hand on.  Every*)
(* stage but the last has a next FIFO.                                     *)
Working(k, s) == k \in alive /\ Stages[k] = s /\ hand[k] # 0

HandOn(k) ==
  /\ k # End
  /\ q' = [q EXCEPT ![k + 1] = Append(@, hand[k])]
  /\ hand' = [hand EXCEPT ![k] = 0]
  /\ UNCHANGED <<mainVars, ctrlC, stop, alive, txVars, rxVars, reader, history>>

DropBlock(k) ==
  /\ hand' = [hand EXCEPT ![k] = 0]
  /\ UNCHANGED <<mainVars, ctrlC, stop, q, alive, txVars, rxVars, reader, history>>

modulation_thread(k)           == Working(k, "modulation") /\ HandOn(k)
ofdm_modulation_thread(k)      == Working(k, "ofdm_modulation") /\ HandOn(k)
pulse_shaping_filter_thread(k) == Working(k, "pulse_shaping") /\ HandOn(k)
EnergyDetection_thread(k)      == Working(k, "detection") /\ (HandOn(k) \/ DropBlock(k))
AGC_thread(k)                  == Working(k, "AGC") /\ HandOn(k)
match_filter_thread(k)         == Working(k, "match_filter") /\ HandOn(k)
TimeSync_thread(k)             == Working(k, "TimeSync") /\ (HandOn(k) \/ DropBlock(k))
CFO_correction_thread(k)       == Working(k, "CFO") /\ HandOn(k)
phase_offset_thread(k)         == Working(k, "phase_offset") /\ HandOn(k)
channel_eq_thread(k)           == Working(k, "channel_eq") /\ HandOn(k)

(* Demodulation pushes the bits, right or wrong, and then, for soft FEC,   *)
(* one block of LLRs, whatever the block held.                             *)
PushBits(k) ==
  /\ ~half /\ made' = made + 1
  /\ \E ok \in BOOLEAN :
       q' = [q EXCEPT ![Bits] = Append(@, [at |-> made + 1, id |-> hand[k], ok |-> ok])]
  /\ IF role = "sink" THEN half' = TRUE /\ hand' = hand
     ELSE half' = FALSE /\ hand' = [hand EXCEPT ![k] = 0]
  /\ UNCHANGED <<mainVars, ctrlC, stop, alive, txVars, recv, llrs, reader, history>>

\* nothing is pushed for a block without soft decisions
PushLlrs_NotAlways(k) ==
  /\ half /\ half' = FALSE
  /\ llrs' \in {llrs, Append(llrs, made)}
  /\ hand' = [hand EXCEPT ![k] = 0]
  /\ UNCHANGED <<mainVars, ctrlC, stop, q, alive, txVars, recv, made, reader, history>>

PushLlrs(k) ==
  /\ half /\ half' = FALSE
  /\ llrs' = Append(llrs, made)
  /\ hand' = [hand EXCEPT ![k] = 0]
  /\ UNCHANGED <<mainVars, ctrlC, stop, q, alive, txVars, recv, made, reader, history>>

demodulation_thread(k) ==
  Working(k, "demodulation") /\ (PushBits(k) \/ PushLlrs(k))

ofdm_demodulation_thread(k) ==
  Working(k, "ofdm_demodulation") /\ (PushBits(k) \/ PushLlrs(k) \/ (~half /\ DropBlock(k)))

TxStage(k) ==
  modulation_thread(k) \/ ofdm_modulation_thread(k) \/ pulse_shaping_filter_thread(k)

RxStage(k) ==
  \/ EnergyDetection_thread(k) \/ AGC_thread(k) \/ match_filter_thread(k)
  \/ TimeSync_thread(k) \/ CFO_correction_thread(k) \/ phase_offset_thread(k)
  \/ channel_eq_thread(k) \/ demodulation_thread(k) \/ ofdm_demodulation_thread(k)

Stage(k) == \/ Pop(k) \/ Leave(k)
            \/ role \in Sending /\ TxStage(k)
            \/ role \notin Sending /\ RxStage(k)

-----------------------------------------------------------------------------
(* transmit_thread.  A block that does not validate is skipped; too many   *)
(* in a row and the thread returns.  A valid one is given to send() piece  *)
(* by piece until it is out, send() fails, or stop_flag_ is seen.          *)
Radio(here) == role \in Sending /\ End \in alive /\ radio = here

SkipInvalid ==
  /\ Radio("check") /\ left = Parts /\ faults < MaxFaults
  /\ faults' = faults + 1 /\ errors' = errors + 1
  /\ alive' = IF errors + 1 >= MaxErrors THEN alive \ {End} ELSE alive
  /\ radio' = "idle" /\ left' = 0 /\ hand' = [hand EXCEPT ![End] = 0]
  /\ UNCHANGED <<mainVars, ctrlC, stop, q, air, rxVars, reader, late, airAtStop, gaveUp>>

\* the loop does not look at stop_sign
SendOrEnd_DeafToStop ==
  /\ Radio("check")
  /\ radio' = IF left > 0 THEN "send" ELSE "eob"
  /\ errors' = 0
  /\ UNCHANGED <<mainVars, ctrlC, stop, q, hand, alive, left, air, rxVars, reader, history>>

SendOrEnd ==
  /\ Radio("check")
  /\ radio' = IF left > 0 /\ ~stop THEN "send" ELSE "eob"
  /\ errors' = 0
  /\ UNCHANGED <<mainVars, ctrlC, stop, q, hand, alive, left, air, rxVars, reader, history>>

SendReturns ==
  /\ Radio("send")
  /\ \/ /\ left' = 0 /\ radio' = "check" /\ UNCHANGED faults
     \/ /\ left > 1 /\ left' = left - 1 /\ radio' = "check" /\ UNCHANGED faults
     \/ /\ faults < MaxFaults /\ faults' = faults + 1
        /\ radio' = "eob" /\ UNCHANGED left
  /\ UNCHANGED <<mainVars, ctrlC, stop, q, hand, alive, errors, air, rxVars, reader,
                 late, airAtStop, gaveUp>>

EndOfBurst ==
  /\ Radio("eob")
  /\ air' = IF left = Parts THEN air
            ELSE Append(air, [id |-> hand[End], whole |-> left = 0])
  /\ radio' = "idle" /\ left' = 0 /\ hand' = [hand EXCEPT ![End] = 0]
  /\ UNCHANGED <<mainVars, ctrlC, stop, q, alive, errors, rxVars, reader, history>>

(* receive_thread.  A burst on the air is in the samples it pushes, or was *)
(* lost (an overflow, a collision).  After ten timeouts in a row it stops  *)
(* by itself; any other error is thrown, which ends the process.           *)
Receive ==
  /\ recv /\ ~stop /\ n < MaxBursts
  /\ n' = n + 1
  /\ \/ q' = [q EXCEPT ![1] = Append(@, n + 1)]
     \/ UNCHANGED q
  /\ UNCHANGED <<role, wave, main, lines, ctrlC, stop, hand, alive, txVars, rxVars,
                 reader, history>>

ReceiveReturns ==
  /\ recv
  /\ \/ stop /\ UNCHANGED faults
     \/ faults < MaxFaults /\ faults' = faults + 1
  /\ recv' = FALSE
  /\ UNCHANGED <<mainVars, ctrlC, stop, q, hand, alive, txVars, half, made, llrs, reader,
                 late, airAtStop, gaveUp>>

\* its memory goes with it; what is on the air stays there
ProcessDies ==
  /\ main' = "aborted" /\ n' = 0 /\ lines' = 0 /\ alive' = {}
  /\ q' = [k \in 1..Bits |-> <<>>] /\ hand' = [k \in 1..End |-> 0]
  /\ radio' = "idle" /\ left' = 0 /\ errors' = 0
  /\ recv' = FALSE /\ half' = FALSE /\ made' = 0 /\ llrs' = <<>>
  /\ got' = {} /\ gotAny' = FALSE /\ sink' = "off" /\ running' = FALSE
  /\ dec' = [bits |-> 0, llr |-> 0] /\ sessions' = 0
  /\ UNCHANGED <<role, wave, ctrlC, stop, air, late, airAtStop, gaveUp>>

ReceiveThrows ==
  /\ recv /\ ~stop /\ faults < MaxFaults
  /\ faults' = faults + 1 /\ ProcessDies

-----------------------------------------------------------------------------
(* main() of the transmitters: queue the chunks of every repetition, or of *)
(* every line; give the line time; ask whether the last FIFO is empty.     *)
MainOnly == UNCHANGED <<role, wave, ctrlC, hand, alive, txVars, rxVars, reader,
                        faults, gaveUp>>

ReadLine ==
  /\ main = "line"
  /\ \/ lines < Reps /\ ~ctrlC /\ lines' = lines + 1 /\ main' = "queue"
     \/ lines' = lines /\ main' = "stop"            \* EOF, or a line after Ctrl-C
  /\ UNCHANGED <<n, stop, q, late, airAtStop>> /\ MainOnly

Queue ==
  /\ main = "queue" /\ n < All /\ ~ctrlC
  /\ n' = n + 1
  /\ LET first == IF role \in Raw THEN End ELSE 1
     IN  q' = [q EXCEPT ![first] = Append(@, n + 1)]
  /\ UNCHANGED <<main, lines, stop, late, airAtStop>> /\ MainOnly

\* no time for the final burst to drain
QueueDone_NoSettling ==
  /\ main = "queue" /\ (n = All \/ ctrlC)
  /\ main' = CASE role = "lora" -> "pending" [] role = "demand" -> "settle" [] OTHER -> "stop"
  /\ UNCHANGED <<n, lines, stop, q, late, airAtStop>> /\ MainOnly

QueueDone ==
  /\ main = "queue" /\ (n = All \/ ctrlC)
  /\ main' = IF role = "lora" THEN "pending" ELSE "settle"
  /\ UNCHANGED <<n, lines, stop, q, late, airAtStop>> /\ MainOnly

Idle(k) == q[k] = <<>> /\ hand[k] = 0

tx_pending == Len(q[End])

(* The sleep is over: 50 ms for the stages before the last, 1 s for all.   *)
SettleDone ==
  /\ main = "settle"
  /\ main' = IF role = "demand" THEN "pending" ELSE "stop"
  /\ late' = (late \/ \E k \in 1..(IF role = "demand" THEN End - 1 ELSE End) : ~Idle(k))
  /\ UNCHANGED <<n, lines, stop, q, airAtStop>> /\ MainOnly

(* The on-demand transmitter prints SENT when nothing is pending, after    *)
(* a second at most; the LoRa transmitter waits as long as it takes.       *)
PendingDone ==
  /\ main = "pending"
  /\ \/ tx_pending = 0 \/ ctrlC \/ role = "demand"
  /\ late' = (late \/ (role = "demand" /\ tx_pending > 0 /\ ~ctrlC))
  /\ main' = IF role = "demand" THEN "line" ELSE "stop"
  /\ UNCHANGED <<n, lines, stop, q, airAtStop>> /\ MainOnly

\* only the global signal is raised, which no stage looks at
Stop_SignalOnly ==
  /\ main = "stop" /\ main' = "join"
  /\ airAtStop' = Len(air)
  /\ UNCHANGED <<n, lines, stop, q, late>> /\ MainOnly

(* PHYSICAL_LAYER::stop(): raise the flag and the signal, join every       *)
(* thread.                                                                 *)
Stop ==
  /\ main = "stop" /\ main' = "join"
  /\ stop' = TRUE /\ airAtStop' = Len(air)
  /\ UNCHANGED <<n, lines, q, late>> /\ MainOnly

Joined ==
  /\ main = "join" /\ alive = {} /\ ~recv
  /\ main' = "ended"
  /\ UNCHANGED <<n, lines, stop, q, late, airAtStop>> /\ MainOnly

-----------------------------------------------------------------------------
(* main() of the one-way receiver: a chunk counts when its CRC is right.   *)
(* It ends with the last missing chunk, or when nothing came for a while   *)
(* after the first burst.                                                  *)
Chunk(id) == (id - 1) % NumChunks
Popped == q' = [q EXCEPT ![Bits] = Tail(@)]

Collect ==
  /\ main = "collect" /\ ~ctrlC /\ q[Bits] # <<>> /\ Popped
  /\ gotAny' = TRUE
  /\ LET b == Head(q[Bits])
     IN  got' = IF b.ok THEN got \cup {Chunk(b.id)} ELSE got
  /\ \/ main' = "collect"                          \* something is missing, or
     \/ Cardinality(got') = NumChunks /\ main' = "stop"  \* --stop-on-complete
  /\ UNCHANGED <<role, wave, n, lines, ctrlC, stop, hand, alive, txVars, rxVars,
                 sink, running, dec, sessions, history>>

CollectEnds ==
  /\ main = "collect"
  /\ ctrlC \/ (gotAny /\ q[Bits] = <<>>)
  /\ main' = "stop"
  /\ UNCHANGED <<n, lines, stop, q, late, airAtStop>> /\ MainOnly

(* main() of the acknowledging receiver: a SINK for every session, stopped *)
(* when it is done, when its time is up or with Ctrl-C.  accept() and      *)
(* getline() are begun again after a signal: only a source, or a line,     *)
(* lets a process that waits in one of them see the first Ctrl-C.          *)
SinkOnly == UNCHANGED <<role, wave, n, lines, ctrlC, stop, hand, alive, txVars, recv,
                        half, made, got, gotAny, faults, late, airAtStop>>

SessionBegins ==
  /\ main = "accept" /\ sessions < Sessions
  /\ main' = "session" /\ sessions' = sessions + 1
  /\ sink' = "listen" /\ running' = TRUE
  /\ UNCHANGED <<q, llrs, dec, gaveUp>> /\ SinkOnly

SessionStops ==
  /\ main = "session" /\ main' = "sinkJoin"
  /\ running' = FALSE
  /\ UNCHANGED <<q, llrs, sink, dec, sessions, gaveUp>> /\ SinkOnly

SinkJoined ==
  /\ main = "sinkJoin" /\ sink = "off"
  /\ main' \in {"stop"} \cup (IF ctrlC THEN {} ELSE {"accept"})   \* --serve-forever
  /\ UNCHANGED <<q, llrs, sink, running, dec, sessions, gaveUp>> /\ SinkOnly

(* SINK::run() with soft decisions: pop a block of bits, then wait for its *)
(* LLRs - 200 ms at most, and not once running_ is down - and decode.      *)
SinkPops ==
  /\ sink = "listen" /\ running /\ q[Bits] # <<>> /\ Popped
  /\ sink' = "wait" /\ dec' = [bits |-> Head(q[Bits]).at, llr |-> 0]
  /\ UNCHANGED <<main, llrs, running, sessions, gaveUp>> /\ SinkOnly

SinkDecodesSoft ==
  /\ sink = "wait" /\ running /\ llrs # <<>>
  /\ dec' = [dec EXCEPT !.llr = Head(llrs)] /\ llrs' = Tail(llrs)
  /\ sink' = "listen"
  /\ UNCHANGED <<main, q, running, sessions, gaveUp>> /\ SinkOnly

SinkDecodesHard ==
  /\ sink = "wait" /\ (~running \/ llrs = <<>>)
  /\ sink' = "listen" /\ gaveUp' = gaveUp + 1
  /\ UNCHANGED <<main, q, llrs, running, dec, sessions>> /\ SinkOnly

SinkReturns ==
  /\ sink = "listen" /\ ~running /\ sink' = "off"
  /\ UNCHANGED <<main, q, llrs, running, dec, sessions, gaveUp>> /\ SinkOnly

(* The first Ctrl-C raises global_stop_signal; one that finds it raised, by*)
(* an earlier one or by stop(), ends the process.                          *)
global_stop_signal == ctrlC \/ stop

CtrlC ==
  /\ ~global_stop_signal /\ main \notin {"ended", "aborted"} /\ ctrlC' = TRUE
  /\ UNCHANGED <<mainVars, stop, q, hand, alive, txVars, rxVars, reader, history>>

SecondCtrlC ==
  /\ global_stop_signal /\ main \notin {"ended", "aborted"}
  /\ ProcessDies /\ UNCHANGED faults

-----------------------------------------------------------------------------
Transmit == SkipInvalid \/ SendOrEnd \/ SendReturns \/ EndOfBurst
Main == Queue \/ QueueDone \/ SettleDone \/ PendingDone \/ Stop \/ Joined
SinkRuns == SinkPops \/ SinkDecodesSoft \/ SinkDecodesHard \/ SinkReturns

Next ==
  \/ \E k \in 1..End : Stage(k)
  \/ Transmit \/ Receive \/ ReceiveReturns \/ ReceiveThrows
  \/ ReadLine \/ Main \/ Collect \/ CollectEnds
  \/ SessionBegins \/ SessionStops \/ SinkJoined \/ SinkRuns
  \/ CtrlC \/ SecondCtrlC

(* Some thread goes on as long as one can: send() and recv() return within *)
(* their timeouts and sleeps end.  (A burst is a finite amount of work, so *)
(* it is not needed of every thread by itself.)  Nothing is assumed of the *)
(* radio, the air, the caller's lines, Ctrl-C, or of how long a session is.*)
Threads ==
  \/ \E k \in 1..End : Stage(k)
  \/ Transmit \/ (stop /\ ReceiveReturns) \/ Main
  \/ Collect \/ CollectEnds \/ (ctrlC /\ SessionStops) \/ SinkJoined \/ SinkRuns
Fairness == WF_vars(Threads)

Spec == Init /\ [][Next]_vars
FairSpec == Spec /\ Fairness

-----------------------------------------------------------------------------
TypeOK ==
  /\ role \in Roles /\ n \in Nat /\ alive \subseteq 1..End
  /\ DOMAIN q = 1..Bits /\ DOMAIN hand = 1..End
  /\ radio \in {"idle", "check", "send", "eob"} /\ left \in 0..Parts
  /\ sink \in {"off", "listen", "wait"} /\ {ctrlC, stop, running, half} \subseteq BOOLEAN

(* What was queued by a transmitter that was left alone - no Ctrl-C, no    *)
(* fault of the radio, no sleep that was too short - is on the air, whole  *)
(* and in order, when its process ends.  Those that ask for an empty FIFO  *)
(* instead of sleeping may still hold the last burst when they call stop().*)
(* Likewise SENT: every burst of the lines so far is on the air but for the*)
(* one transmit_thread may still have in hand.                             *)
Asking  == role \in {"lora", "demand"}
AtEase  == role \in Sending /\ ~ctrlC /\ main # "aborted" /\ ~late /\ faults = 0
LessOne == IF Asking THEN n - 1 ELSE n
EveryBurstLeaves ==
  /\ AtEase /\ main = "ended" =>
       /\ Len(air) >= LessOne
       /\ \A i \in 1..Len(air) : air[i].id = i /\ (air[i].whole \/ (Asking /\ i = n))
  /\ AtEase /\ main = "line" => Len(air) >= LessOne

(* stop() silences the transmitter although the stages before it go on     *)
(* draining into its FIFO: at most the burst it has already begun is still *)
(* on the air, and without a fault no other burst is ever cut.             *)
QuietAfterStop ==
  /\ stop => Len(air) <= airAtStop + 1
  /\ faults = 0 => \A i \in 1..Len(air) : air[i].whole \/ i = Len(air)

(* The soft decisions SINK decodes with are those of its bits, off by      *)
(* exactly the waits it ever gave up, in this session or an earlier one.   *)
SoftLag == dec.llr # 0 /\ sink = "listen" /\ running => dec.bits - dec.llr = gaveUp

(* The process ends: a transmitter by itself, a one-way receiver once it   *)
(* has popped a burst, and each after stop() or Ctrl-C.  Exempt is one that*)
(* waits for its caller's line or a source's connection, and the LoRa      *)
(* transmitter when transmit_thread has given up with bursts in its FIFO.  *)
Over    == main \in {"ended", "aborted"}
Blocked == main \in {"line", "accept"} /\ ~stop
Given   == role = "lora" /\ main = "pending" /\ End \notin alive /\ ~ctrlC
ModemEnds ==
  /\ (stop \/ gotAny) ~> Over
  /\ (ctrlC \/ role \in Sending) ~> (Over \/ Blocked \/ Given)
=============================================================================
