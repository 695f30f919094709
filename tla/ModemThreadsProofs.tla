------------------------- MODULE ModemThreadsProofs -------------------------
(***************************************************************************)
(* Three proofs for every role of the process, any number of bursts, pieces*)
(* and faults, and whichever stages are there:                             *)
(*  - stop() silences the transmitter.  Only transmit_thread reaches the   *)
(*    air, so the argument is about the burst it has in hand: begun, it may*)
(*    still be appended to the air; not begun, it is dropped as soon as    *)
(*    stop_flag_ is seen;                                                  *)
(*  - the soft decisions of SINK are off by the waits it gave up: both     *)
(*    FIFOs hold the blocks in the order of the demodulator, and the proof *)
(*    counts what was taken from either;                                   *)
(*  - what a transmitter left alone was given is on the air when it ends:  *)
(*    every stage has a count of the bursts that passed it, and the FIFO   *)
(*    before it holds exactly the next ones, in order.                     *)
(***************************************************************************)
EXTENDS ModemThreads, FiniteSetTheorems, TLAPS

Typed ==
  /\ \E S : air \in Seq(S)
  /\ radio \in {"idle", "check", "send", "eob"} /\ left \in 0..Parts
  /\ airAtStop \in Nat /\ faults \in Nat

(* A piece of the burst in hand is out, or is on its way.                  *)
Begun == radio = "send" \/ (radio \in {"check", "eob"} /\ left < Parts)

AtMostOneMore == stop => Len(air) <= airAtStop + (IF Begun THEN 0 ELSE 1)

(* Only stop() cuts a burst, and the one it cut is the last.               *)
CutByStop ==
  faults = 0 =>
    /\ \A i \in 1..Len(air) : air[i].whole \/ (i = Len(air) /\ stop /\ ~Begun)
    /\ radio = "eob" /\ left # 0 => stop

QInv == Typed /\ AtMostOneMore /\ CutByStop

txState == <<radio, left, air, stop, airAtStop, faults>>

-----------------------------------------------------------------------------
LEMMA SeqGrows ==
  ASSUME NEW S, NEW s \in Seq(S), NEW e
  PROVE  /\ Append(s, e) \in Seq(S \cup {e})
         /\ Len(Append(s, e)) = Len(s) + 1
         /\ \A i \in 1..Len(s) : Append(s, e)[i] = s[i]
         /\ Append(s, e)[Len(s) + 1] = e
<1>1. s \in Seq(S \cup {e})
  OBVIOUS
<1> QED BY <1>1

LEMMA QuietInit == Init => QInv
<1> SUFFICES ASSUME Init PROVE QInv
  OBVIOUS
<1>1. air = <<>> /\ Len(air) = 0 /\ air \in Seq({})
  BY DEF Init
<1>2. radio = "idle" /\ left = 0 /\ airAtStop = 0 /\ faults = 0 /\ stop = FALSE
  BY DEF Init
<1> QED BY <1>1, <1>2, ModemAssumption DEF QInv, Typed, AtMostOneMore, CutByStop, Begun

LEMMA QuietFrame == QInv /\ UNCHANGED txState => QInv'
BY DEF QInv, Typed, AtMostOneMore, CutByStop, Begun, txState

(* The burst in hand comes to its end: what is out of it is on the air.    *)
LEMMA EndOfBurstKeeps ==
  ASSUME QInv, EndOfBurst
  PROVE  QInv'
<1>1. /\ radio = "eob" /\ radio' = "idle" /\ left' = 0
      /\ UNCHANGED <<stop, airAtStop, faults>>
  BY DEF EndOfBurst, Radio, history
<1>2. CASE left = Parts
  <2>1. air' = air
    BY <1>2 DEF EndOfBurst
  <2> QED BY <1>1, <1>2, <2>1 DEF QInv, Typed, AtMostOneMore, CutByStop, Begun
<1>3. CASE left # Parts
  <2> DEFINE e == [id |-> hand[End], whole |-> left = 0]
  <2>1. air' = Append(air, e) /\ e.whole = (left = 0)
    BY <1>3 DEF EndOfBurst
  <2>2. PICK S : air \in Seq(S)
    BY DEF QInv, Typed
  <2> HIDE DEF e
  <2>3. /\ air' \in Seq(S \cup {e}) /\ Len(air') = Len(air) + 1 /\ Len(air) \in Nat
        /\ \A i \in 1..Len(air) : air'[i] = air[i]
        /\ air'[Len(air) + 1] = e
    BY <2>1, <2>2, SeqGrows
  <2>4. Begun /\ ~Begun' /\ left \in 0..Parts /\ Parts \in Nat
    BY <1>1, <1>3, ModemAssumption DEF Begun, QInv, Typed
  <2>5. Typed'
    BY <1>1, <2>3, <2>4 DEF QInv, Typed
  <2>6. AtMostOneMore'
    BY <1>1, <2>3, <2>4 DEF QInv, Typed, AtMostOneMore
  <2>7. CutByStop'
    <3> SUFFICES ASSUME faults = 0, NEW i \in 1..Len(air')
                 PROVE  air'[i].whole \/ (i = Len(air') /\ stop' /\ ~Begun')
      BY <1>1 DEF CutByStop
    <3>1. CASE i \in 1..Len(air)
      <4>1. air[i].whole
        BY <2>4, <3>1 DEF QInv, CutByStop
      <4> QED BY <2>3, <3>1, <4>1
    <3>2. CASE i = Len(air) + 1
      <4>1. left = 0 \/ stop
        BY <1>1 DEF QInv, CutByStop
      <4> QED BY <1>1, <2>1, <2>3, <2>4, <3>2, <4>1
    <3> QED BY <2>3, <3>1, <3>2
  <2> QED BY <2>5, <2>6, <2>7 DEF QInv
<1> QED BY <1>2, <1>3

LEMMA TransmitKeeps ==
  ASSUME QInv, Transmit
  PROVE  QInv'
<1>0. Parts \in Nat \ {0} /\ \E S : Len(air) \in Nat /\ air \in Seq(S)
  BY ModemAssumption DEF QInv, Typed
<1>1. CASE SkipInvalid
  <2>1. /\ radio' = "idle" /\ left' = 0 /\ faults' = faults + 1
        /\ UNCHANGED <<air, stop, airAtStop>>
    BY <1>1 DEF SkipInvalid
  <2> QED BY <1>0, <2>1 DEF QInv, Typed, AtMostOneMore, CutByStop, Begun
<1>2. CASE SendOrEnd
  <2>1. /\ radio = "check" /\ radio' = IF left > 0 /\ ~stop THEN "send" ELSE "eob"
        /\ UNCHANGED <<left, air, stop, airAtStop, faults>>
    BY <1>2 DEF SendOrEnd, Radio, history
  <2> QED BY <1>0, <2>1 DEF QInv, Typed, AtMostOneMore, CutByStop, Begun
<1>3. CASE SendReturns
  <2>1. /\ radio = "send" /\ UNCHANGED <<air, stop, airAtStop>>
        /\ \/ left' = 0 /\ radio' = "check" /\ faults' = faults
           \/ left > 1 /\ left' = left - 1 /\ radio' = "check" /\ faults' = faults
           \/ faults' = faults + 1 /\ radio' = "eob" /\ left' = left
    BY <1>3 DEF SendReturns, Radio
  <2> QED BY <1>0, <2>1 DEF QInv, Typed, AtMostOneMore, CutByStop, Begun
<1>4. CASE EndOfBurst
  BY <1>4, EndOfBurstKeeps
<1> QED BY <1>1, <1>2, <1>3, <1>4 DEF Transmit

(* A burst that was only popped has not begun.                             *)
LEMMA StageKeeps ==
  ASSUME QInv, NEW k \in 1..End, Stage(k)
  PROVE  QInv'
<1>0. Parts \in Nat \ {0} /\ \E S : Len(air) \in Nat /\ air \in Seq(S)
  BY ModemAssumption DEF QInv, Typed
<1>1. CASE Pop(k)
  <2>1. /\ UNCHANGED <<air, stop, airAtStop, faults>>
        /\ \/ radio' = "check" /\ left' = Parts
           \/ UNCHANGED <<radio, left>>
    BY <1>1 DEF Pop, history
  <2> QED BY <1>0, <2>1 DEF QInv, Typed, AtMostOneMore, CutByStop, Begun
<1>2. CASE ~Pop(k)
  <2>1. Leave(k) => UNCHANGED txState
    BY DEF Leave, txState, txVars, history
  <2>2. HandOn(k) \/ DropBlock(k) \/ PushBits(k) \/ PushLlrs(k) => UNCHANGED txState
    BY DEF HandOn, DropBlock, PushBits, PushLlrs, txState, txVars, history
  <2>3. Leave(k) \/ HandOn(k) \/ DropBlock(k) \/ PushBits(k) \/ PushLlrs(k)
    BY <1>2 DEF Stage, TxStage, RxStage, modulation_thread, ofdm_modulation_thread,
       pulse_shaping_filter_thread, EnergyDetection_thread, AGC_thread,
       match_filter_thread, TimeSync_thread, CFO_correction_thread,
       phase_offset_thread, channel_eq_thread, demodulation_thread,
       ofdm_demodulation_thread
  <2> QED BY <2>1, <2>2, <2>3, QuietFrame
<1> QED BY <1>1, <1>2

(* Every other fault leaves the transmitter as it is, or ends the process. *)
LEMMA FaultKeeps ==
  ASSUME QInv, ReceiveReturns \/ ReceiveThrows \/ SecondCtrlC
  PROVE  QInv'
<1>0. Parts \in Nat \ {0} /\ \E S : Len(air) \in Nat /\ air \in Seq(S)
  BY ModemAssumption DEF QInv, Typed
<1>1. UNCHANGED <<air, stop, airAtStop>> /\ faults' \in {faults, faults + 1}
  BY DEF ReceiveReturns, ReceiveThrows, SecondCtrlC, ProcessDies, txVars
<1>2. UNCHANGED <<radio, left>> \/ (radio' = "idle" /\ left' = 0)
  BY DEF ReceiveReturns, ReceiveThrows, SecondCtrlC, ProcessDies, txVars
<1> QED BY <1>0, <1>1, <1>2 DEF QInv, Typed, AtMostOneMore, CutByStop, Begun

LEMMA MainKeeps ==
  ASSUME QInv, ReadLine \/ Main \/ CollectEnds
  PROVE  QInv'
<1>0. Parts \in Nat \ {0} /\ \E S : Len(air) \in Nat /\ air \in Seq(S)
  BY ModemAssumption DEF QInv, Typed
<1>1. CASE Stop
  <2>1. /\ stop' = TRUE /\ airAtStop' = Len(air)
        /\ UNCHANGED <<radio, left, air, faults>>
    BY <1>1 DEF Stop, MainOnly, txVars
  <2> QED BY <1>0, <2>1 DEF QInv, Typed, AtMostOneMore, CutByStop, Begun
<1>2. CASE ~Stop
  <2>1. ReadLine \/ Queue \/ QueueDone \/ SettleDone \/ PendingDone \/ Joined \/ CollectEnds
    BY <1>2 DEF Main
  <2>2. UNCHANGED txState
    BY <2>1 DEF ReadLine, Queue, QueueDone, SettleDone, PendingDone, Joined, CollectEnds,
       MainOnly, txState, txVars
  <2> QED BY <2>2, QuietFrame
<1> QED BY <1>1, <1>2

LEMMA QuietStep == QInv /\ [Next]_vars => QInv'
<1> SUFFICES ASSUME QInv, [Next]_vars PROVE QInv'
  OBVIOUS
<1>1. CASE \E k \in 1..End : Stage(k)
  BY <1>1, StageKeeps
<1>2. CASE Transmit
  BY <1>2, TransmitKeeps
<1>3. CASE ReceiveReturns \/ ReceiveThrows \/ SecondCtrlC
  BY <1>3, FaultKeeps
<1>4. CASE ReadLine \/ Main \/ CollectEnds
  BY <1>4, MainKeeps
<1>5. CASE Receive \/ Collect \/ CtrlC
  BY <1>5, QuietFrame DEF Receive, Collect, CtrlC, txState, txVars, history
<1>6. CASE SessionBegins \/ SessionStops \/ SinkJoined
  BY <1>6, QuietFrame DEF SessionBegins, SessionStops, SinkJoined, SinkOnly, txState, txVars
<1>7. CASE SinkRuns
  BY <1>7, QuietFrame DEF SinkRuns, SinkPops, SinkDecodesSoft, SinkDecodesHard,
     SinkReturns, SinkOnly, txState, txVars
<1>8. CASE UNCHANGED vars
  BY <1>8, QuietFrame DEF vars, txState, txVars, history
<1> QED BY <1>1, <1>2, <1>3, <1>4, <1>5, <1>6, <1>7, <1>8 DEF Next

(* After PHYSICAL_LAYER::stop() at most the burst that transmit_thread had *)
(* already begun reaches the air, and without a fault of the radio no other*)
(* burst is ever cut, whatever the stages before it still hand on.         *)
THEOREM StopSilences == Spec => []QuietAfterStop
<1>1. QInv => QuietAfterStop
  <2> SUFFICES ASSUME QInv PROVE QuietAfterStop
    OBVIOUS
  <2>1. \E S : Len(air) \in Nat /\ air \in Seq(S)
    BY DEF QInv, Typed
  <2> QED BY <2>1 DEF QInv, Typed, AtMostOneMore, CutByStop, QuietAfterStop
<1> QED BY <1>1, QuietInit, QuietStep, PTL DEF Spec

-----------------------------------------------------------------------------
(* Every line has at least the stage that is never left out.               *)
LEMMA LineIsThere ==
  ASSUME NEW r \in AllRoles, NEW w \in {"single", "ofdm"}
  PROVE  Len(Line[r][w]) \in Nat \ {0}
<1> DEFINE line == IF r \in Sending THEN TxLine(w) ELSE RxLine(w)
           kept == {i \in DOMAIN line : line[i] \notin LeftOut[r]}
           place(k) == CHOOSE i \in kept : Cardinality({j \in kept : j <= i}) = k
<1>1. Line[r][w] = [k \in 1..Cardinality(kept) |-> line[place(k)]]
  BY DEF Line
<1>2. /\ \E last \in DOMAIN line :
           line[last] \in {"transmit", "demodulation", "ofdm_demodulation"}
      /\ DOMAIN line = 1..Len(line) /\ Len(line) \in Nat
  <2>1. CASE r \in Sending /\ w = "ofdm"
    <3>1. line = <<"ofdm_modulation", "transmit">>
      BY <2>1 DEF TxLine
    <3> QED BY <3>1
  <2>2. CASE r \in Sending /\ w # "ofdm"
    <3>1. line = <<"modulation", "pulse_shaping", "transmit">>
      BY <2>2 DEF TxLine
    <3> QED BY <3>1
  <2>3. CASE r \notin Sending /\ w = "ofdm"
    <3>1. line = <<"detection", "AGC", "ofdm_demodulation">>
      BY <2>3 DEF RxLine
    <3> QED BY <3>1
  <2>4. CASE r \notin Sending /\ w # "ofdm"
    <3>1. line = <<"detection", "AGC", "match_filter", "TimeSync", "CFO",
                   "phase_offset", "channel_eq", "demodulation">>
      BY <2>4 DEF RxLine
    <3> QED BY <3>1
  <2> QED BY <2>1, <2>2, <2>3, <2>4
<1>3. LeftOut[r] \subseteq Passing
  BY ModemAssumption
<1>5. IsFiniteSet(kept)
  <2>1. kept \subseteq 1..Len(line) /\ IsFiniteSet(1..Len(line))
    <3> HIDE DEF line
    <3> QED BY <1>2, FS_Interval
  <2> QED BY <2>1, FS_Subset
<1>6. kept # {}
  BY <1>2, <1>3 DEF Passing
<1>7. Cardinality(kept) \in Nat \ {0}
  BY <1>5, <1>6, FS_CardinalityType, FS_EmptySet
<1> HIDE DEF kept
<1>8. Len([k \in 1..Cardinality(kept) |-> line[place(k)]]) = Cardinality(kept)
  BY <1>7
<1> QED BY <1>1, <1>7, <1>8

Formed == role \in AllRoles /\ wave \in {"single", "ofdm"} /\ DOMAIN q = 1..Bits

LEMMA Form ==
  ASSUME Formed
  PROVE  /\ End \in Nat \ {0} /\ Bits = End + 1 /\ Bits \notin 1..End /\ Bits # 1
         /\ Bits \in DOMAIN q /\ 1 \in 1..End /\ \A k \in 1..End : k \in DOMAIN q
<1>1. End \in Nat \ {0}
  BY LineIsThere DEF Formed, End, Stages
<1> QED BY <1>1 DEF Formed, Bits

-----------------------------------------------------------------------------
(* Where SINK is in the bits and in the soft decisions: both are numbered  *)
(* by the demodulator's blocks, taken in order, and the wait for the soft  *)
(* decisions of a block is given up or brings the oldest there are.        *)
popped == made - Len(q[Bits])
owed == IF half THEN 1 ELSE 0
consumed == made - owed - Len(llrs)

Formal ==
  /\ Formed /\ (\E S : q[Bits] \in Seq(S)) /\ llrs \in Seq(Nat)
  /\ made \in Nat /\ gaveUp \in Nat /\ half \in BOOLEAN
  /\ dec \in [bits : Nat, llr : Nat]

Elsewhere ==
  role # "sink" => sink = "off" /\ main \notin {"accept", "session", "sinkJoin"}

Readers ==
  /\ main = "aborted" \/ main = "accept" => sink = "off"
  /\ role = "sink" => main # "collect"

InStep ==
  /\ popped = consumed + gaveUp + (IF sink = "wait" THEN 1 ELSE 0)
  /\ dec.bits = popped
  /\ dec.llr # 0 => dec.llr = consumed /\ sink # "wait"
  /\ \A i \in 1..Len(q[Bits]) : q[Bits][i].at = popped + i
  /\ \A i \in 1..Len(llrs) : llrs[i] = consumed + i

SoftInv ==
  Formal /\ Elsewhere /\ Readers /\ (role = "sink" /\ main # "aborted" => InStep)

LEMMA Counts ==
  ASSUME Formal
  PROVE  /\ popped \in Int /\ consumed \in Int /\ owed \in {0, 1} /\ gaveUp \in Nat
         /\ Len(q[Bits]) \in Nat /\ Len(llrs) \in Nat /\ made \in Nat
         /\ dec.bits \in Nat /\ dec.llr \in Nat
<1>1. owed \in {0, 1}
  BY DEF owed
<1> QED BY <1>1 DEF Formal, popped, consumed

LEMMA SeqShrinks ==
  ASSUME NEW S, NEW s \in Seq(S), s # <<>>
  PROVE  /\ Tail(s) \in Seq(S) /\ Len(Tail(s)) = Len(s) - 1 /\ Len(s) \in Nat \ {0}
         /\ \A i \in 1..(Len(s) - 1) : Tail(s)[i] = s[i + 1]
         /\ Head(s) = s[1] /\ Head(s) \in S
OBVIOUS

LEMMA SoftStart == Init => SoftInv
<1> SUFFICES ASSUME Init PROVE SoftInv
  OBVIOUS
<1>1. /\ role \in AllRoles /\ wave \in {"single", "ofdm"} /\ DOMAIN q = 1..Bits
      /\ made = 0 /\ gaveUp = 0 /\ half = FALSE /\ dec = [bits |-> 0, llr |-> 0]
      /\ llrs = <<>> /\ llrs \in Seq(Nat) /\ Len(llrs) = 0 /\ sink = "off"
  BY ModemAssumption DEF Init
<1>2. q[Bits] = <<>> /\ q[Bits] \in Seq(Nat) /\ Len(q[Bits]) = 0
  <2>1. Bits \in 1..Bits
    BY <1>1, Form DEF Formed
  <2> QED BY <2>1 DEF Init
<1>3. Elsewhere /\ Readers
  BY <1>1 DEF Init, Elsewhere, Readers
<1>4. Formal
  BY <1>1, <1>2 DEF Formal, Formed
<1>5. InStep
  <2>0. made = 0 /\ Len(q[Bits]) = 0
    BY <1>1, <1>2
  <2>1. popped = 0
    BY <2>0 DEF popped
  <2>2. owed = 0 /\ Len(llrs) = 0
    BY <1>1 DEF owed
  <2>3. consumed = 0
    BY <2>0, <2>2 DEF consumed
  <2> QED BY <1>1, <1>2, <2>1, <2>3 DEF InStep
<1> QED BY <1>3, <1>4, <1>5 DEF SoftInv

(* Main moves between places where no SINK is begun.                       *)
MainGoes ==
  \/ main' = main
  \/ /\ main \in {"queue", "settle", "pending", "line", "stop", "join", "collect"}
     /\ main' \in {"queue", "settle", "pending", "line", "stop", "join", "ended"}

LEMMA SoftFrame ==
  ASSUME SoftInv, MainGoes, DOMAIN q' = DOMAIN q, q'[Bits] = q[Bits],
         UNCHANGED <<role, wave, sink, dec, made, half, llrs, gaveUp>>
  PROVE  SoftInv'
<1>1. Bits' = Bits
  BY DEF Bits, End, Stages
<1>2. Formal'
  BY <1>1 DEF SoftInv, Formal, Formed
<1>3. Elsewhere' /\ Readers'
  BY DEF SoftInv, Elsewhere, Readers, MainGoes
<1>4. popped' = popped /\ consumed' = consumed
  BY <1>1 DEF popped, consumed, owed
<1>5. InStep => InStep'
  BY <1>1, <1>4 DEF InStep
<1>6. main' # "aborted" => main # "aborted"
  BY DEF MainGoes
<1> QED BY <1>2, <1>3, <1>5, <1>6 DEF SoftInv

LEMMA SoftPushBits ==
  ASSUME SoftInv, NEW k \in 1..End, PushBits(k)
  PROVE  SoftInv'
<1> DEFINE s == q[Bits]
<1>1. PICK e : e.at = made + 1 /\ q' = [q EXCEPT ![Bits] = Append(s, e)]
  <2>1. PICK ok \in BOOLEAN :
          q' = [q EXCEPT ![Bits] = Append(@, [at |-> made + 1, id |-> hand[k], ok |-> ok])]
    BY DEF PushBits
  <2> DEFINE f == [at |-> made + 1, id |-> hand[k], ok |-> ok]
  <2>2. f.at = made + 1 /\ q' = [q EXCEPT ![Bits] = Append(s, f)]
    BY <2>1
  <2> QED BY <2>2
<1>2. /\ UNCHANGED <<role, wave, main, sink, dec, llrs, gaveUp>>
      /\ ~half /\ made' = made + 1 /\ half' = (role = "sink")
  BY DEF PushBits, mainVars, reader, history, SoftInv, Formal
<1>3. Bits' = Bits /\ Formed
  BY <1>2 DEF Bits, End, Stages, SoftInv, Formal
<1>4. PICK S : s \in Seq(S)
  BY DEF SoftInv, Formal
<1>5. /\ q'[Bits] \in Seq(S \cup {e}) /\ Len(q'[Bits]) = Len(s) + 1
      /\ \A i \in 1..Len(s) : q'[Bits][i] = s[i]
      /\ q'[Bits][Len(s) + 1] = e /\ DOMAIN q' = DOMAIN q /\ Len(s) \in Nat
  <2>1. q'[Bits] = Append(s, e) /\ DOMAIN q' = DOMAIN q
    BY <1>1, <1>3, Form
  <2> QED BY <1>4, <2>1, SeqGrows
<1> HIDE DEF s
<1>6. Formal'
  BY <1>2, <1>3, <1>5 DEF SoftInv, Formal, Formed
<1>7. Elsewhere' /\ Readers'
  BY <1>2 DEF SoftInv, Elsewhere, Readers
<1>8. role = "sink" /\ InStep => InStep'
  <2> SUFFICES ASSUME role = "sink", InStep PROVE InStep'
    OBVIOUS
  <2>1. /\ popped = made - Len(s) /\ popped' = popped /\ consumed' = consumed
        /\ made \in Nat
    <3>1. made \in Nat /\ Len(llrs) \in Nat
      BY DEF SoftInv, Formal
    <3>2. /\ made' = made + 1 /\ llrs' = llrs
          /\ Len(q'[Bits']) = Len(s) + 1 /\ Len(s) \in Nat
      BY <1>2, <1>3, <1>5
    <3>3. popped = made - Len(s)
      BY DEF popped, s
    <3>4. popped' = made + 1 - (Len(s) + 1)
      <4>1. popped' = made' - Len(q'[Bits'])
        BY DEF popped
      <4> QED BY <3>1, <3>2, <4>1
    <3>5. owed = 0
      BY <1>2 DEF owed
    <3>6. owed' = 1
      BY <1>2 DEF owed
    <3>7. consumed = made - 0 - Len(llrs) /\ consumed' = made + 1 - 1 - Len(llrs)
      BY <3>1, <3>2, <3>5, <3>6 DEF consumed
    <3> QED BY <3>1, <3>2, <3>3, <3>4, <3>7
  <2>2. ASSUME NEW i \in 1..Len(q'[Bits]) PROVE q'[Bits][i].at = popped' + i
    <3>1. CASE i \in 1..Len(s)
      BY <1>5, <2>1, <3>1 DEF InStep, s
    <3>2. CASE i = Len(s) + 1
      BY <1>1, <1>5, <2>1, <3>2
    <3> QED BY <1>5, <2>2, <3>1, <3>2
  <2> QED BY <1>2, <1>3, <2>1, <2>2 DEF InStep
<1> QED BY <1>2, <1>6, <1>7, <1>8 DEF SoftInv

LEMMA SoftPushLlrs ==
  ASSUME SoftInv, NEW k \in 1..End, PushLlrs(k)
  PROVE  SoftInv'
<1>1. /\ UNCHANGED <<role, wave, main, q, sink, dec, made, gaveUp>>
      /\ half /\ half' = FALSE /\ llrs' = Append(llrs, made)
      /\ Bits' = Bits /\ llrs \in Seq(Nat) /\ made \in Nat
  BY DEF PushLlrs, mainVars, reader, history, Bits, End, Stages, SoftInv, Formal
<1>2. /\ llrs' \in Seq(Nat) /\ Len(llrs') = Len(llrs) + 1 /\ Len(llrs) \in Nat
      /\ \A i \in 1..Len(llrs) : llrs'[i] = llrs[i]
      /\ llrs'[Len(llrs) + 1] = made
  BY <1>1
<1>3. Formal' /\ Elsewhere' /\ Readers'
  BY <1>1, <1>2 DEF SoftInv, Formal, Formed, Elsewhere, Readers
<1>4. InStep => InStep'
  <2> SUFFICES ASSUME InStep PROVE InStep'
    OBVIOUS
  <2>0. owed = 1 /\ owed' = 0
    BY <1>1 DEF owed
  <2>1. popped' = popped /\ consumed = made - 1 - Len(llrs) /\ consumed' = consumed
    BY <1>1, <1>2, <2>0 DEF popped, consumed
  <2>2. ASSUME NEW i \in 1..Len(llrs') PROVE llrs'[i] = consumed' + i
    <3>1. CASE i \in 1..Len(llrs)
      BY <1>2, <2>1, <3>1 DEF InStep
    <3>2. CASE i = Len(llrs) + 1
      BY <1>1, <1>2, <2>1, <3>2
    <3> QED BY <1>2, <2>2, <3>1, <3>2
  <2> QED BY <1>1, <2>1, <2>2 DEF InStep
<1> QED BY <1>1, <1>3, <1>4 DEF SoftInv

LEMMA SoftStage ==
  ASSUME SoftInv, NEW k \in 1..End, Stage(k)
  PROVE  SoftInv'
<1>0. Formed
  BY DEF SoftInv, Formal
<1>1. CASE Pop(k)
  <2>1. UNCHANGED <<role, wave, main, sink, dec, made, half, llrs, gaveUp>>
    BY <1>1 DEF Pop, mainVars, rxVars, reader, history
  <2>2. q' = [q EXCEPT ![k] = Tail(@)] /\ k # Bits
    BY <1>0, <1>1, Form DEF Pop
  <2>3. DOMAIN q' = DOMAIN q /\ q'[Bits] = q[Bits]
    BY <1>0, <2>2, Form
  <2> QED BY <2>1, <2>3, SoftFrame DEF MainGoes
<1>2. CASE HandOn(k)
  <2>1. UNCHANGED <<role, wave, main, sink, dec, made, half, llrs, gaveUp>>
    BY <1>2 DEF HandOn, mainVars, rxVars, reader, history
  <2>2. q' = [q EXCEPT ![k + 1] = Append(@, hand[k])] /\ k + 1 # Bits
    BY <1>0, <1>2, Form DEF HandOn
  <2>3. DOMAIN q' = DOMAIN q /\ q'[Bits] = q[Bits]
    BY <1>0, <2>2, Form
  <2> QED BY <2>1, <2>3, SoftFrame DEF MainGoes
<1>3. CASE Leave(k) \/ DropBlock(k)
  <2>1. UNCHANGED <<role, wave, main, q, sink, dec, made, half, llrs, gaveUp>>
    BY <1>3 DEF Leave, DropBlock, mainVars, rxVars, reader, history
  <2> QED BY <2>1, SoftFrame DEF MainGoes
<1>4. CASE PushBits(k) \/ PushLlrs(k)
  BY <1>4, SoftPushBits, SoftPushLlrs
<1>5. Pop(k) \/ Leave(k) \/ HandOn(k) \/ DropBlock(k) \/ PushBits(k) \/ PushLlrs(k)
  BY DEF Stage, TxStage, RxStage, modulation_thread, ofdm_modulation_thread,
     pulse_shaping_filter_thread, EnergyDetection_thread, AGC_thread,
     match_filter_thread, TimeSync_thread, CFO_correction_thread,
     phase_offset_thread, channel_eq_thread, demodulation_thread, ofdm_demodulation_thread
<1> QED BY <1>1, <1>2, <1>3, <1>4, <1>5

LEMMA SoftMain ==
  ASSUME SoftInv,
         \/ Transmit \/ Receive \/ ReceiveReturns \/ ReadLine \/ Main \/ CollectEnds
         \/ CtrlC
  PROVE  SoftInv'
<1>0. Formed
  BY DEF SoftInv, Formal
<1>1. CASE Transmit \/ ReceiveReturns \/ CtrlC
  <2>1. UNCHANGED <<role, wave, main, q, sink, dec, made, half, llrs, gaveUp>>
    BY <1>1 DEF Transmit, SkipInvalid, SendOrEnd, SendReturns, EndOfBurst, ReceiveReturns,
       CtrlC, mainVars, rxVars, reader, history
  <2> QED BY <2>1, SoftFrame DEF MainGoes
<1>2. CASE Receive
  <2>1. UNCHANGED <<role, wave, main, sink, dec, made, half, llrs, gaveUp>>
    BY <1>2 DEF Receive, rxVars, reader, history
  <2>2. q' = [q EXCEPT ![1] = Append(@, n + 1)] \/ q' = q
    BY <1>2 DEF Receive
  <2>3. DOMAIN q' = DOMAIN q /\ q'[Bits] = q[Bits]
    BY <1>0, <2>2, Form
  <2> QED BY <2>1, <2>3, SoftFrame DEF MainGoes
<1>3. CASE Queue
  <2>1. UNCHANGED <<role, wave, main, sink, dec, made, half, llrs, gaveUp>>
    BY <1>3 DEF Queue, MainOnly, rxVars, reader
  <2>2. \E first \in {1, End} : q' = [q EXCEPT ![first] = Append(@, n + 1)]
    BY <1>3 DEF Queue
  <2>3. DOMAIN q' = DOMAIN q /\ q'[Bits] = q[Bits]
    BY <1>0, <2>2, Form
  <2> QED BY <2>1, <2>3, SoftFrame DEF MainGoes
<1>4. CASE ReadLine \/ QueueDone \/ SettleDone \/ PendingDone \/ Stop \/ Joined \/ CollectEnds
  <2>1. UNCHANGED <<role, wave, q, sink, dec, made, half, llrs, gaveUp>>
    BY <1>4 DEF ReadLine, QueueDone, SettleDone, PendingDone, Stop, Joined, CollectEnds,
       MainOnly, rxVars, reader
  <2>2. MainGoes
    BY <1>4 DEF ReadLine, QueueDone, SettleDone, PendingDone, Stop, Joined, CollectEnds,
       MainGoes
  <2> QED BY <2>1, <2>2, SoftFrame
<1> QED BY <1>1, <1>2, <1>3, <1>4 DEF Main

(* SINK's own steps move between "off" and "listen" with nothing consumed, *)
(* or take the next of either.                                             *)
LEMMA SoftSession ==
  ASSUME SoftInv, SessionBegins \/ SessionStops \/ SinkJoined \/ SinkReturns
  PROVE  SoftInv'
<1>1. /\ UNCHANGED <<role, wave, q, dec, made, half, llrs, gaveUp>>
      /\ main # "aborted" \/ sink = "listen"
      /\ sink' # "wait" \/ sink' = sink
  BY DEF SessionBegins, SessionStops, SinkJoined, SinkReturns, SinkOnly
<1>2. Bits' = Bits
  BY <1>1 DEF Bits, End, Stages
<1>3. Formal'
  BY <1>1, <1>2 DEF SoftInv, Formal, Formed
<1>4. sink = "wait" => sink' = "wait"
  BY DEF SessionBegins, SessionStops, SinkJoined, SinkReturns, SoftInv, Readers
<1>5. Elsewhere' /\ Readers'
  <2>1. CASE SessionBegins \/ SessionStops
    BY <1>1, <2>1 DEF SoftInv, Elsewhere, Readers, SessionBegins, SessionStops, SinkOnly
  <2>2. CASE SinkJoined
    BY <1>1, <2>2 DEF SoftInv, Elsewhere, Readers, SinkJoined, SinkOnly
  <2>3. CASE SinkReturns
    BY <1>1, <2>3 DEF SoftInv, Elsewhere, Readers, SinkReturns, SinkOnly
  <2> QED BY <2>1, <2>2, <2>3
<1>6. popped' = popped /\ consumed' = consumed
  BY <1>1, <1>2 DEF popped, consumed, owed
<1>7. main # "aborted"
  BY <1>1 DEF SoftInv, Readers
<1>8. InStep => InStep'
  BY <1>1, <1>2, <1>4, <1>6 DEF InStep
<1> QED BY <1>1, <1>3, <1>5, <1>7, <1>8 DEF SoftInv

LEMMA SoftPops == ASSUME SoftInv, SinkPops PROVE SoftInv'
<1> DEFINE s == q[Bits]
<1>1. /\ UNCHANGED <<role, wave, main, made, half, llrs, gaveUp>>
      /\ sink = "listen" /\ sink' = "wait" /\ s # <<>>
      /\ q' = [q EXCEPT ![Bits] = Tail(s)]
      /\ dec' = [bits |-> Head(s).at, llr |-> 0]
  BY DEF SinkPops, SinkOnly, Popped
<1>2. role = "sink" /\ main # "aborted" /\ InStep
  BY <1>1 DEF SoftInv, Elsewhere, Readers
<1>3. Bits' = Bits /\ Formed
  BY <1>1 DEF Bits, End, Stages, SoftInv, Formal
<1>4. PICK S : s \in Seq(S)
  BY DEF SoftInv, Formal
<1>5. /\ q'[Bits] \in Seq(S) /\ Len(q'[Bits]) = Len(s) - 1 /\ Len(s) \in Nat \ {0}
      /\ \A i \in 1..(Len(s) - 1) : q'[Bits][i] = s[i + 1]
      /\ Head(s) = s[1] /\ DOMAIN q' = DOMAIN q
  <2>1. q'[Bits] = Tail(s) /\ DOMAIN q' = DOMAIN q
    BY <1>1, <1>3, Form
  <2>2. s # <<>>
    BY <1>1
  <2> HIDE DEF s
  <2> QED BY <1>4, <2>1, <2>2, SeqShrinks
<1>6. /\ popped = made - Len(s) /\ made \in Nat /\ Len(llrs) \in Nat /\ gaveUp \in Nat
      /\ owed \in {0, 1}
  BY DEF popped, s, SoftInv, Formal, owed
<1>7. /\ popped' = popped + 1 /\ consumed' = consumed
      /\ consumed = made - owed - Len(llrs)
  <2>1. popped' = made' - Len(q'[Bits']) /\ made' = made /\ owed' = owed
    BY <1>1 DEF popped, owed
  <2>2. popped' = popped + 1
    <3>1. Bits' = Bits
      BY <1>3
    <3> HIDE DEF s
    <3>2. Len(q'[Bits']) = Len(s) - 1 /\ Len(s) \in Nat
      BY <1>5, <3>1
    <3>3. popped = made - Len(s) /\ made \in Nat
      BY <1>6
    <3>4. popped' = made - (Len(s) - 1)
      BY <2>1, <3>2
    <3> QED BY <3>2, <3>3, <3>4
  <2> QED BY <1>1, <2>1, <2>2 DEF consumed
<1>8. Head(s).at = popped + 1
  BY <1>2, <1>5 DEF InStep, s
<1> HIDE DEF s
<1>9. popped + 1 \in Nat
  BY <1>2, Counts DEF InStep, SoftInv
<1>10. Formal'
  BY <1>1, <1>3, <1>5, <1>8, <1>9 DEF SoftInv, Formal, Formed
<1>11. Elsewhere' /\ Readers'
  BY <1>1, <1>2 DEF SoftInv, Elsewhere, Readers
<1>12. InStep'
  <2>1. popped' = consumed' + gaveUp' + 1 /\ dec'.bits = popped' /\ dec'.llr = 0
    <3>1. popped = consumed + gaveUp
      BY <1>1, <1>2, <1>6, <1>7 DEF InStep
    <3> QED BY <1>1, <1>6, <1>7, <1>8, <3>1
  <2>2. ASSUME NEW i \in 1..Len(q'[Bits]) PROVE q'[Bits][i].at = popped' + i
    <3>1. i + 1 \in 1..Len(s) /\ q'[Bits][i] = s[i + 1]
      BY <1>5
    <3>2. s[i + 1].at = popped + (i + 1)
      BY <1>2, <3>1 DEF InStep, s
    <3> QED BY <1>5, <1>6, <1>7, <3>1, <3>2
  <2> QED BY <1>1, <1>2, <1>3, <1>7, <2>1, <2>2 DEF InStep
<1> QED BY <1>10, <1>11, <1>12 DEF SoftInv

LEMMA SoftDecodes == ASSUME SoftInv, SinkDecodesSoft \/ SinkDecodesHard PROVE SoftInv'
<1>1. /\ UNCHANGED <<role, wave, main, q, made, half>>
      /\ sink = "wait" /\ sink' = "listen" /\ dec'.bits = dec.bits
  BY DEF SinkDecodesSoft, SinkDecodesHard, SinkOnly, SoftInv, Formal
<1>2. role = "sink" /\ main # "aborted" /\ InStep
  BY <1>1 DEF SoftInv, Elsewhere, Readers
<1>3. Bits' = Bits /\ popped' = popped /\ owed' = owed /\ owed \in {0, 1}
  BY <1>1 DEF Bits, End, Stages, popped, owed
<1>4. /\ made \in Nat /\ gaveUp \in Nat /\ llrs \in Seq(Nat) /\ Len(llrs) \in Nat
      /\ consumed = made - owed - Len(llrs) /\ dec.llr \in Nat /\ dec.bits \in Nat
  BY DEF SoftInv, Formal, consumed
<1>5. popped = consumed + gaveUp + 1 /\ dec.bits = popped /\ dec.llr = 0
  BY <1>1, <1>2 DEF InStep
<1>6. CASE SinkDecodesSoft
  <2>1. /\ llrs # <<>> /\ llrs' = Tail(llrs) /\ gaveUp' = gaveUp
        /\ dec' = [dec EXCEPT !.llr = Head(llrs)]
    BY <1>6 DEF SinkDecodesSoft
  <2>2. /\ llrs' \in Seq(Nat) /\ Len(llrs') = Len(llrs) - 1 /\ Len(llrs) \in Nat \ {0}
        /\ \A i \in 1..(Len(llrs) - 1) : llrs'[i] = llrs[i + 1]
        /\ Head(llrs) = llrs[1] /\ Head(llrs) \in Nat
    BY <1>4, <2>1
  <2>3. Head(llrs) = consumed + 1
    BY <1>2, <2>2 DEF InStep
  <2>4. consumed' = consumed + 1
    <3>1. consumed' = made' - owed' - Len(llrs')
      BY DEF consumed
    <3> QED BY <1>1, <1>3, <1>4, <2>2, <3>1
  <2>5. Formal' /\ dec'.llr = consumed'
    BY <1>1, <1>3, <1>4, <2>1, <2>2, <2>3, <2>4 DEF SoftInv, Formal, Formed
  <2>6. ASSUME NEW i \in 1..Len(llrs') PROVE llrs'[i] = consumed' + i
    <3>1. i + 1 \in 1..Len(llrs) /\ llrs'[i] = llrs[i + 1]
      BY <2>2
    <3>2. llrs[i + 1] = consumed + (i + 1)
      BY <1>2, <3>1 DEF InStep
    <3> QED BY <1>4, <2>2, <2>4, <3>1, <3>2
  <2>7. popped' = consumed' + gaveUp'
    BY <1>3, <1>4, <1>5, <2>1, <2>4
  <2>8. InStep'
    BY <1>1, <1>2, <1>3, <1>4, <1>5, <2>5, <2>6, <2>7 DEF InStep
  <2> QED BY <1>1, <1>2, <2>5, <2>8 DEF SoftInv, Elsewhere, Readers
<1>7. CASE SinkDecodesHard
  <2>1. gaveUp' = gaveUp + 1 /\ dec' = dec /\ llrs' = llrs
    BY <1>7 DEF SinkDecodesHard
  <2>2. consumed' = consumed
    BY <1>1, <1>3, <2>1 DEF consumed
  <2>3. popped' = consumed' + gaveUp'
    BY <1>3, <1>4, <1>5, <2>1, <2>2
  <2>4. Formal'
    BY <1>1, <1>3, <1>4, <2>1 DEF SoftInv, Formal, Formed
  <2>5. /\ \A m \in 1..Len(q[Bits]) : q[Bits][m].at = popped + m
        /\ \A m \in 1..Len(llrs) : llrs[m] = consumed + m
    BY <1>2 DEF InStep
  <2>6. /\ \A m \in 1..Len(q'[Bits']) : q'[Bits'][m].at = popped' + m
        /\ \A m \in 1..Len(llrs') : llrs'[m] = consumed' + m
    BY <1>1, <1>3, <2>1, <2>2, <2>5
  <2>7. dec'.bits = popped' /\ dec'.llr = 0
    BY <1>3, <1>5, <2>1
  <2>8. popped' \in Int /\ consumed' \in Int /\ gaveUp' \in Nat
    <3>1. popped \in Int /\ consumed \in Int
      BY Counts DEF SoftInv
    <3> QED BY <1>3, <1>4, <2>1, <2>2, <3>1
  <2>9. InStep'
    BY <1>1, <2>3, <2>6, <2>7, <2>8 DEF InStep
  <2> QED BY <1>1, <1>2, <2>4, <2>9 DEF SoftInv, Elsewhere, Readers
<1> QED BY <1>6, <1>7

LEMMA SoftDies == ASSUME SoftInv, ReceiveThrows \/ SecondCtrlC PROVE SoftInv'
<1>1. ProcessDies
  BY DEF ReceiveThrows, SecondCtrlC
<1>2. /\ UNCHANGED <<role, wave, gaveUp>> /\ main' = "aborted" /\ sink' = "off"
      /\ made' = 0 /\ half' = FALSE /\ llrs' = <<>> /\ dec' = [bits |-> 0, llr |-> 0]
      /\ q' = [k \in 1..Bits |-> <<>>]
  BY <1>1 DEF ProcessDies
<1>3. Bits' = Bits /\ Formed
  BY <1>2 DEF Bits, End, Stages, SoftInv, Formal
<1>4. q'[Bits] = <<>> /\ q'[Bits] \in Seq(Nat) /\ llrs' \in Seq(Nat) /\ DOMAIN q' = 1..Bits
  BY <1>2, <1>3, Form DEF Formed
<1>5. Formal'
  BY <1>2, <1>3, <1>4 DEF SoftInv, Formal, Formed
<1> QED BY <1>2, <1>5 DEF SoftInv, Elsewhere, Readers

LEMMA SoftCollect == ASSUME SoftInv, Collect PROVE SoftInv'
<1>1. /\ UNCHANGED <<role, wave, sink, dec, made, half, llrs, gaveUp>>
      /\ main = "collect" /\ main' \in {"collect", "stop"} /\ q[Bits] # <<>>
      /\ q' = [q EXCEPT ![Bits] = Tail(q[Bits])]
  BY DEF Collect, Popped, rxVars, history
<1>2. role # "sink" /\ Formed
  BY <1>1 DEF SoftInv, Readers, Formal
<1>3. Bits' = Bits
  BY <1>1 DEF Bits, End, Stages
<1>4. PICK S : q[Bits] \in Seq(S)
  BY DEF SoftInv, Formal
<1>5. DOMAIN q' = DOMAIN q /\ q'[Bits] = Tail(q[Bits])
  BY <1>1, <1>2, Form
<1>6. Tail(q[Bits]) \in Seq(S)
  BY <1>1, <1>4
<1>7. Formal'
  BY <1>1, <1>3, <1>5, <1>6 DEF SoftInv, Formal, Formed
<1> QED BY <1>1, <1>2, <1>7 DEF SoftInv, Elsewhere, Readers

LEMMA SoftStep == SoftInv /\ [Next]_vars => SoftInv'
<1> SUFFICES ASSUME SoftInv, [Next]_vars PROVE SoftInv'
  OBVIOUS
<1>1. CASE \E k \in 1..End : Stage(k)
  BY <1>1, SoftStage
<1>2. CASE Transmit \/ Receive \/ ReceiveReturns \/ ReadLine \/ Main \/ CollectEnds \/ CtrlC
  BY <1>2, SoftMain
<1>3. CASE SessionBegins \/ SessionStops \/ SinkJoined
  BY <1>3, SoftSession
<1>4. CASE SinkRuns
  BY <1>4, SoftSession, SoftPops, SoftDecodes DEF SinkRuns
<1>5. CASE ReceiveThrows \/ SecondCtrlC
  BY <1>5, SoftDies
<1>6. CASE Collect
  BY <1>6, SoftCollect
<1>7. CASE UNCHANGED vars
  BY <1>7, SoftFrame DEF vars, mainVars, rxVars, reader, history, MainGoes
<1> QED BY <1>1, <1>2, <1>3, <1>4, <1>5, <1>6, <1>7 DEF Next

(* However many sessions, faults and blocks there are: the soft decisions  *)
(* that SINK::run() decodes with are off from its bits by exactly the waits*)
(* it gave up before; nothing else moves the two FIFOs apart.              *)
THEOREM SoftDecisionsLag == Spec => []SoftLag
<1>1. SoftInv => SoftLag
  <2> SUFFICES ASSUME SoftInv, dec.llr # 0, sink = "listen", running
               PROVE  dec.bits - dec.llr = gaveUp
    BY DEF SoftLag
  <2>1. role = "sink" /\ main # "aborted" /\ InStep
    BY DEF SoftInv, Elsewhere, Readers
  <2>2. dec.llr = consumed /\ dec.bits = popped /\ popped = consumed + gaveUp
    BY <2>1, Counts DEF InStep, SoftInv
  <2> QED BY <2>2, Counts DEF SoftInv
<1> QED BY <1>1, SoftStart, SoftStep, PTL DEF Spec

-----------------------------------------------------------------------------
(* A transmitter left alone: out[k] bursts have passed stage k, and what is*)
(* in its hand and in its FIFO are the next ones, in order.                *)
Held(k) == IF hand[k] = 0 THEN 0 ELSE 1

Between(out, k) ==
  /\ out[k - 1] = out[k] + Held(k) + Len(q[k])
  /\ hand[k] # 0 => hand[k] = out[k] + 1
  /\ \A i \in 1..Len(q[k]) : q[k][i] = out[k] + Held(k) + i

Flow(out) ==
  /\ out[0] = n /\ out[End] = Len(air)
  /\ \A k \in 1..End : Between(out, k)
  /\ \A j, l \in 0..End :
       j <= l /\ (\A k \in (j + 1)..l : Idle(k)) => out[j] = out[l]

FrontIdle == \A k \in 1..End : k # End => Idle(k)

Bursts ==
  DOMAIN hand = 1..End /\ \A k \in 1..End : hand[k] \in Nat /\ q[k] \in Seq(Nat)

Route ==
  /\ main \in {"line", "queue", "settle", "pending", "stop", "join", "ended"}
  /\ main = "line" => role = "demand"
  /\ main = "pending" => Asking
  /\ main = "settle" => role # "lora"
  /\ stop = (main \in {"join", "ended"})
  /\ recv = FALSE

InHand ==
  /\ radio = "idle" <=> hand[End] = 0
  /\ ~stop /\ radio = "eob" => left = 0

OnAir ==
  \A i \in 1..Len(air) : air[i].id = i /\ (air[i].whole \/ (stop /\ Asking /\ i = n))

Drained ==
  /\ role \in Raw => FrontIdle
  /\ main = "pending" \/ main \in {"line", "stop", "join", "ended"} => FrontIdle
  /\ main \in {"line", "stop", "join", "ended"} =>
       q[End] = <<>> /\ (~Asking => hand[End] = 0)

Silenced ==
  stop => /\ Len(air) \in {LessOne, n}
          /\ hand[End] # 0 => Len(air) = n - 1 /\ hand[End] = n

Leaves ==
  /\ n \in Nat /\ Bursts /\ Route /\ InHand /\ OnAir /\ Drained /\ Silenced
  /\ ~stop => \E out \in [0..End -> Nat] : Flow(out)

LInv == AtEase => Leaves

(* t is s with e at its end; or s without its head.                        *)
Grows(s, t, e) ==
  /\ t \in Seq(Nat) /\ Len(t) = Len(s) + 1 /\ Len(s) \in Nat
  /\ \A i \in 1..Len(s) : t[i] = s[i]
  /\ t[Len(s) + 1] = e

Behead(s, t) ==
  /\ t \in Seq(Nat) /\ Len(s) = Len(t) + 1 /\ Len(t) \in Nat
  /\ \A i \in 1..Len(t) : t[i] = s[i + 1]

LEMMA QueueMoves ==
  ASSUME NEW s \in Seq(Nat)
  PROVE  /\ \A e \in Nat : Grows(s, Append(s, e), e)
         /\ s # <<>> => Behead(s, Tail(s)) /\ Head(s) = s[1] /\ Head(s) \in Nat
<1>1. ASSUME NEW e \in Nat PROVE Grows(s, Append(s, e), e)
  BY DEF Grows
<1>2. ASSUME s # <<>> PROVE Behead(s, Tail(s)) /\ Head(s) = s[1] /\ Head(s) \in Nat
  BY <1>2, SeqShrinks DEF Behead
<1> QED BY <1>1, <1>2

LEMMA FlowFrame ==
  ASSUME NEW out, Flow(out), UNCHANGED <<role, wave, n, hand, q>>, Len(air') = Len(air)
  PROVE  Flow(out)'
<1>1. End' = End
  BY DEF End, Stages
<1> QED BY <1>1 DEF Flow, Between, Held, Idle

(* A burst enters at the first stage that is used.                         *)
LEMMA FlowEnters ==
  ASSUME Formed, Bursts, n \in Nat, UNCHANGED <<role, wave, hand, air>>, n' = n + 1,
         NEW out \in [0..End -> Nat], Flow(out),
         NEW first \in 1..End, \A k \in 1..End : k < first => Idle(k),
         Grows(q[first], q'[first], n + 1),
         \A k \in 1..End : k # first => q'[k] = q[k]
  PROVE  \E new \in [0..End' -> Nat] : Flow(new)'
<1>0. PICK new : new = [k \in 0..End |-> IF k < first THEN n + 1 ELSE out[k]]
  OBVIOUS
<1>1. End' = End /\ End \in Nat \ {0}
  BY Form DEF End, Stages
<1>2. \A k \in 1..End : Held(k)' = Held(k)
  BY DEF Held
<1>3. /\ Len(q'[first]) = Len(q[first]) + 1 /\ Len(q[first]) \in Nat
      /\ \A i \in 1..Len(q[first]) : q'[first][i] = q[first][i]
      /\ q'[first][Len(q[first]) + 1] = n + 1
  BY DEF Grows
<1>4. /\ new \in [0..End -> Nat]
      /\ \A k \in 0..End : k < first => new[k] = n + 1
      /\ \A k \in 0..End : ~(k < first) => new[k] = out[k]
  BY <1>0, <1>1
<1>5. \A k \in 0..End : k < first => out[k] = n
  <2>1. ASSUME NEW k \in 0..End, k < first PROVE out[k] = n
    <3>1. \A m \in (0 + 1)..k : Idle(m)
      BY <1>1, <2>1
    <3> QED BY <1>1, <2>1, <3>1 DEF Flow
  <2> QED BY <2>1
<1>6. new[0] = n' /\ new[End] = Len(air')
  BY <1>1, <1>4 DEF Flow
<1>7. ASSUME NEW k \in 1..End PROVE Between(new, k)'
  <2>1. Between(out, k) /\ k \in Nat /\ k - 1 \in 0..End /\ k \in 0..End
    BY <1>1 DEF Flow
  <2>2. CASE k < first
    <3>1. /\ new[k] = n + 1 /\ new[k - 1] = n + 1 /\ k # first
          /\ q[k] = <<>> /\ hand[k] = 0
      BY <1>1, <1>4, <2>1, <2>2 DEF Idle
    <3>2. q'[k] = <<>> /\ hand'[k] = 0 /\ Held(k)' = 0 /\ Len(q'[k]) = 0
      BY <1>2, <3>1 DEF Held
    <3>3. new[k - 1] = new[k] + Held(k)' + Len(q'[k])
      BY <3>1, <3>2
    <3>4. ASSUME NEW i \in 1..Len(q'[k]) PROVE q'[k][i] = new[k] + Held(k)' + i
      BY <3>2, <3>4
    <3>5. ~(hand'[k] # 0)
      BY <3>2
    <3> QED BY <3>3, <3>4, <3>5 DEF Between
  <2>3. CASE k = first
    <3>1. /\ new[k - 1] = n + 1 /\ out[k - 1] = n /\ new[k] = out[k]
      <4>1. k - 1 < first /\ ~(k < first)
        BY <2>1, <2>3
      <4> QED BY <1>4, <1>5, <2>1, <4>1
    <3>2. /\ out[k] \in Nat /\ Held(k) \in {0, 1} /\ Held(k)' = Held(k)
          /\ Len(q[k]) \in Nat /\ Len(q'[k]) = Len(q[k]) + 1
          /\ n = out[k] + Held(k) + Len(q[k])
      BY <1>2, <1>3, <2>1, <2>3, <3>1 DEF Between, Held
    <3>3. ASSUME NEW i \in 1..Len(q'[k]) PROVE q'[k][i] = new[k] + Held(k)' + i
      <4>1. CASE i \in 1..Len(q[k])
        <5>1. q'[k][i] = q[k][i]
          BY <1>3, <2>3, <4>1
        <5>2. q[k][i] = out[k] + Held(k) + i
          BY <2>1, <4>1 DEF Between
        <5> QED BY <3>1, <3>2, <5>1, <5>2
      <4>2. CASE i = Len(q[k]) + 1
        <5>1. q'[k][i] = n + 1
          BY <1>3, <2>3, <4>2
        <5>2. \A a, b, c \in Nat : (a + b + c) + 1 = a + b + (c + 1)
          OBVIOUS
        <5>3. n + 1 = out[k] + Held(k) + (Len(q[k]) + 1)
          BY <3>2, <5>2
        <5> QED BY <3>1, <3>2, <4>2, <5>1, <5>3
      <4>3. i \in Nat /\ (i <= Len(q[k]) \/ i = Len(q[k]) + 1) /\ 1 <= i
        BY <3>2, <3>3
      <4> QED BY <3>2, <4>1, <4>2, <4>3
    <3>4. n + 1 = new[k] + Held(k)' + Len(q'[k])
      BY <3>1, <3>2
    <3>5. hand'[k] # 0 => hand'[k] = new[k] + 1
      BY <2>1, <3>1 DEF Between
    <3> QED BY <3>1, <3>3, <3>4, <3>5 DEF Between
  <2>4. CASE k > first
    <3>1. new[k] = out[k] /\ new[k - 1] = out[k - 1] /\ q'[k] = q[k] /\ Held(k)' = Held(k)
      BY <1>1, <1>2, <1>4, <2>1, <2>4
    <3> QED BY <2>1, <3>1 DEF Between
  <2> QED BY <1>1, <2>2, <2>3, <2>4
<1>8. ASSUME NEW j \in 0..End, NEW l \in 0..End, j <= l, \A k \in (j + 1)..l : Idle(k)'
      PROVE  new[j] = new[l]
  <2>1. ~Idle(first)'
    <3>1. Len(q'[first]) # 0 /\ Len(<<>>) = 0
      BY <1>3
    <3> QED BY <3>1 DEF Idle
  <2>2. l < first \/ ~(j < first)
    BY <1>1, <1>8, <2>1
  <2>3. CASE l < first
    BY <1>1, <1>4, <1>8, <2>3
  <2>4. CASE ~(j < first)
    <3>1. new[j] = out[j] /\ new[l] = out[l]
      BY <1>1, <1>4, <1>8, <2>4
    <3>2. \A k \in (j + 1)..l : Idle(k)
      BY <1>1, <1>2, <1>8, <2>4 DEF Idle
    <3> QED BY <1>8, <3>1, <3>2 DEF Flow
  <2> QED BY <2>2, <2>3, <2>4
<1>9. Flow(new)'
  BY <1>1, <1>6, <1>7, <1>8 DEF Flow
<1> QED BY <1>1, <1>4, <1>9

(* A stage takes the next burst from its FIFO.                             *)
LEMMA FlowPops ==
  ASSUME Formed, UNCHANGED <<role, wave, n>>, Len(air') = Len(air),
         NEW out \in [0..End -> Nat], Flow(out),
         NEW k \in 1..End, hand[k] = 0, q[k] # <<>>, Behead(q[k], q'[k]),
         hand'[k] = q[k][1],
         \A m \in 1..End : m # k => q'[m] = q[m] /\ hand'[m] = hand[m]
  PROVE  Flow(out)'
<1>1. End' = End /\ End \in Nat \ {0}
  BY Form DEF End, Stages
<1>2. /\ Len(q[k]) = Len(q'[k]) + 1 /\ Len(q'[k]) \in Nat
      /\ \A i \in 1..Len(q'[k]) : q'[k][i] = q[k][i + 1]
  BY DEF Behead
<1>3. Between(out, k) /\ k \in 0..End /\ out[k] \in Nat /\ k - 1 \in 0..End /\ Held(k) = 0
  BY <1>1 DEF Flow, Held
<1>4. 1 \in 1..Len(q[k]) /\ hand'[k] = out[k] + 1
  <2>1. 1 \in 1..Len(q[k])
    BY <1>2
  <2>2. q[k][1] = out[k] + 0 + 1
    BY <1>3, <2>1 DEF Between
  <2> QED BY <1>3, <2>1, <2>2
<1>5. Held(k)' = 1
  BY <1>3, <1>4 DEF Held
<1>6. Between(out, k)'
  <2>1. out[k - 1] = out[k] + 0 + Len(q[k])
    BY <1>3 DEF Between
  <2>2. out[k - 1] = out[k] + Held(k)' + Len(q'[k])
    <3>1. out[k - 1] = out[k] + 0 + (Len(q'[k]) + 1)
      BY <1>2, <2>1
    <3>2. \A a, b \in Nat : b + 0 + (a + 1) = b + 1 + a
      OBVIOUS
    <3>3. out[k - 1] = out[k] + 1 + Len(q'[k])
      BY <1>2, <1>3, <3>1, <3>2
    <3> QED BY <1>5, <3>3
  <2>3. ASSUME NEW i \in 1..Len(q'[k]) PROVE q'[k][i] = out[k] + Held(k)' + i
    <3>1. i + 1 \in 1..Len(q[k]) /\ q'[k][i] = q[k][i + 1]
      BY <1>2
    <3>2. q[k][i + 1] = out[k] + 0 + (i + 1)
      BY <1>3, <3>1 DEF Between
    <3> QED BY <1>3, <1>5, <3>1, <3>2
  <2>4. hand'[k] # 0 => hand'[k] = out[k] + 1
    BY <1>4
  <2> QED BY <2>2, <2>3, <2>4 DEF Between
<1>7. ASSUME NEW m \in 1..End, m # k PROVE Between(out, m)'
  <2>1. Between(out, m) /\ q'[m] = q[m] /\ hand'[m] = hand[m]
    BY <1>7 DEF Flow
  <2> QED BY <2>1 DEF Between, Held
<1>8. \A m \in 1..End : Idle(m)' => Idle(m)
  <2>1. hand'[k] # 0
    BY <1>3, <1>4
  <2>2. ASSUME NEW m \in 1..End, Idle(m)' PROVE Idle(m)
    <3>1. m # k
      BY <2>1, <2>2 DEF Idle
    <3> QED BY <2>2, <3>1 DEF Idle
  <2> QED BY <2>2
<1>9. ASSUME NEW j \in 0..End, NEW l \in 0..End, j <= l, \A m \in (j + 1)..l : Idle(m)'
      PROVE  out[j] = out[l]
  <2>1. \A m \in (j + 1)..l : m \in 1..End
    BY <1>1
  <2> QED BY <1>8, <1>9, <2>1 DEF Flow
<1>10. out[0] = n' /\ out[End] = Len(air')
  BY DEF Flow
<1> QED BY <1>1, <1>6, <1>7, <1>9, <1>10 DEF Flow

(* A stage is done with a burst: the next one has it, or the air.          *)
LEMMA FlowPasses ==
  ASSUME Formed, UNCHANGED <<role, wave, n>>,
         NEW out \in [0..End -> Nat], Flow(out),
         NEW k \in 1..End, hand[k] # 0, hand'[k] = 0,
         \A m \in 1..End : m # k => hand'[m] = hand[m],
         \A m \in 1..End : m # k + 1 => q'[m] = q[m],
         \/ k # End /\ Grows(q[k + 1], q'[k + 1], hand[k]) /\ Len(air') = Len(air)
         \/ k = End /\ Len(air') = Len(air) + 1
  PROVE  \E new \in [0..End' -> Nat] : Flow(new)'
<1>0. PICK new : new = [out EXCEPT ![k] = @ + 1]
  OBVIOUS
<1>1. End' = End /\ End \in Nat \ {0}
  BY Form DEF End, Stages
<1>2. /\ new \in [0..End -> Nat] /\ new[k] = out[k] + 1
      /\ \A m \in 0..End : m # k => new[m] = out[m]
  BY <1>0, <1>1
<1>3. /\ Between(out, k) /\ k \in 0..End /\ out[k] \in Nat /\ k - 1 \in 0..End /\ k \in Nat
      /\ out[k - 1] \in Nat /\ k - 1 # k
  BY <1>1 DEF Flow
<1>4. Held(k) = 1 /\ Held(k)' = 0 /\ hand[k] = out[k] + 1
  BY <1>3 DEF Held, Between
<1>5. new[0] = n' /\ new[End] = Len(air')
  <2>1. new[0] = out[0] /\ out[0] = n /\ out[End] = Len(air)
    BY <1>1, <1>2 DEF Flow
  <2>2. CASE k = End
    BY <1>2, <2>1, <2>2, <1>1
  <2>3. CASE k # End
    BY <1>1, <1>2, <2>1, <2>3
  <2> QED BY <2>2, <2>3
<1>6. Between(new, k)'
  <2>1. q'[k] = q[k] /\ new[k - 1] = out[k - 1]
    BY <1>2, <1>3
  <2>2. out[k - 1] = out[k] + 1 + Len(q[k]) /\ Len(q[k]) \in Nat
    BY <1>3, <1>4 DEF Between
  <2>3. new[k - 1] = new[k] + Held(k)' + Len(q'[k])
    <3>1. new[k - 1] = out[k] + 1 + Len(q[k]) /\ new[k] = out[k] + 1 /\ Len(q'[k]) = Len(q[k])
      BY <1>2, <2>1, <2>2
    <3> QED BY <1>3, <1>4, <2>2, <3>1
  <2>4. ASSUME NEW i \in 1..Len(q'[k]) PROVE q'[k][i] = new[k] + Held(k)' + i
    <3>1. q'[k][i] = out[k] + 1 + i
      BY <1>3, <1>4, <2>1 DEF Between
    <3> QED BY <1>2, <1>3, <1>4, <3>1
  <2> QED BY <2>3, <2>4 DEF Between
<1>7. ASSUME NEW m \in 1..End, m # k PROVE Between(new, m)'
  <2>1. /\ Between(out, m) /\ m - 1 \in 0..End /\ m \in 0..End /\ new[m] = out[m]
        /\ Held(m)' = Held(m) /\ Held(m) \in {0, 1} /\ hand'[m] = hand[m]
        /\ out[m] \in Nat /\ out[m - 1] \in Nat
    BY <1>1, <1>2, <1>7 DEF Flow, Held
  <2>2. CASE m # k + 1
    <3>1. q'[m] = q[m] /\ m - 1 # k /\ new[m - 1] = out[m - 1]
      BY <1>2, <1>3, <2>1, <2>2
    <3> QED BY <2>1, <3>1 DEF Between
  <2>3. CASE m = k + 1
    <3>1. m - 1 = k /\ new[m - 1] = out[m - 1] + 1 /\ k # End
      BY <1>2, <1>3, <1>1, <2>3
    <3>2. /\ Len(q'[m]) = Len(q[m]) + 1 /\ Len(q[m]) \in Nat
          /\ \A i \in 1..Len(q[m]) : q'[m][i] = q[m][i]
          /\ q'[m][Len(q[m]) + 1] = hand[k]
      BY <2>3, <3>1 DEF Grows
    <3>3. out[m - 1] = out[m] + Held(m) + Len(q[m])
      BY <2>1 DEF Between
    <3>4. new[m - 1] = new[m] + Held(m)' + Len(q'[m])
      BY <2>1, <3>1, <3>2, <3>3
    <3>5. ASSUME NEW i \in 1..Len(q'[m]) PROVE q'[m][i] = new[m] + Held(m)' + i
      <4>1. CASE i \in 1..Len(q[m])
        <5>1. q'[m][i] = q[m][i] /\ q[m][i] = out[m] + Held(m) + i
          BY <2>1, <3>2, <4>1 DEF Between
        <5> QED BY <2>1, <5>1
      <4>2. CASE i = Len(q[m]) + 1
        <5>1. q'[m][i] = out[m - 1] + 1
          BY <1>4, <3>1, <3>2, <4>2
        <5>2. \A a, b, c \in Nat : (a + b + c) + 1 = a + b + (c + 1)
          OBVIOUS
        <5>3. out[m - 1] + 1 = out[m] + Held(m) + (Len(q[m]) + 1)
          BY <2>1, <3>2, <3>3, <5>2
        <5> QED BY <2>1, <4>2, <5>1, <5>3
      <4>3. i \in Nat /\ (i <= Len(q[m]) \/ i = Len(q[m]) + 1) /\ 1 <= i
        BY <3>2, <3>5
      <4> QED BY <3>2, <4>1, <4>2, <4>3
    <3>6. hand'[m] # 0 => hand'[m] = new[m] + 1
      BY <2>1 DEF Between
    <3> QED BY <3>4, <3>5, <3>6 DEF Between
  <2> QED BY <2>2, <2>3
<1>8. ASSUME NEW j \in 0..End, NEW l \in 0..End, j <= l, \A m \in (j + 1)..l : Idle(m)'
      PROVE  new[j] = new[l]
  <2>0. \A m \in (j + 1)..l : m \in 1..End
    BY <1>1
  <2>1. ASSUME k # End PROVE ~Idle(k + 1)'
    <3>1. Len(q'[k + 1]) # 0 /\ Len(<<>>) = 0
      BY <2>1 DEF Grows
    <3> QED BY <3>1 DEF Idle
  <2>2. \A m \in 1..End : m # k /\ Idle(m)' => Idle(m)
    <3>1. ASSUME NEW m \in 1..End, m # k, Idle(m)' PROVE Idle(m)
      <4>1. m # k + 1
        BY <1>1, <2>1, <3>1
      <4> QED BY <3>1, <4>1 DEF Idle
    <3> QED BY <3>1
  <2>3. CASE j = l
    BY <2>3
  <2>4. CASE l = k /\ j < k
    <3>1. Idle(k)' /\ q[k] = <<>>
      <4>1. k \in (j + 1)..l /\ q'[k] = q[k]
        BY <1>3, <2>4
      <4> QED BY <1>8, <4>1 DEF Idle
    <3>2. out[k - 1] = out[k] + 1
      <4>1. out[k - 1] = out[k] + 1 + Len(q[k]) /\ Len(q[k]) = 0
        BY <1>3, <1>4, <3>1 DEF Between
      <4> QED BY <1>3, <4>1
    <3>3. \A m \in (j + 1)..(k - 1) : m \in (j + 1)..l /\ m # k
      BY <1>3, <2>4
    <3>4. \A m \in (j + 1)..(k - 1) : Idle(m)
      BY <1>8, <2>0, <2>2, <3>3
    <3>5. out[j] = out[k - 1]
      <4>1. j <= k - 1
        BY <1>3, <2>4
      <4> QED BY <1>3, <3>4, <4>1 DEF Flow
    <3> QED BY <1>2, <1>3, <2>4, <3>2, <3>5
  <2>5. CASE j # l /\ ~(l = k /\ j < k)
    <3>1. ~(j <= k /\ k + 1 <= l)
      <4>1. SUFFICES ASSUME j <= k, k + 1 <= l PROVE FALSE
        OBVIOUS
      <4>2. k # End /\ k + 1 \in (j + 1)..l
        BY <1>1, <1>3, <4>1
      <4> QED BY <1>8, <2>1, <4>2
    <3>2. j # k /\ l # k
      BY <1>1, <1>3, <1>8, <2>5, <3>1
    <3>3. \A m \in (j + 1)..l : m # k
      BY <1>1, <1>3, <1>8, <3>1, <3>2
    <3>4. \A m \in (j + 1)..l : Idle(m)
      BY <1>8, <2>0, <2>2, <3>3
    <3> QED BY <1>2, <1>8, <3>2, <3>4 DEF Flow
  <2> QED BY <1>1, <1>3, <1>8, <2>3, <2>4, <2>5
<1>9. Flow(new)'
  BY <1>1, <1>5, <1>6, <1>7, <1>8 DEF Flow
<1> QED BY <1>1, <1>2, <1>9

-----------------------------------------------------------------------------
(* The steps of a transmitter that is left alone.                          *)
LEMMA LeavesFrame ==
  ASSUME Leaves, UNCHANGED <<role, wave, n, q, hand, air, stop>>, Route', InHand', Drained'
  PROVE  Leaves'
<1>1. End' = End
  BY DEF End, Stages
<1>2. Bursts' /\ OnAir' /\ Silenced'
  BY <1>1 DEF Leaves, Bursts, OnAir, Silenced, LessOne, Asking
<1>3. ASSUME ~stop PROVE \E out \in [0..End' -> Nat] : Flow(out)'
  BY <1>1, <1>3, FlowFrame DEF Leaves
<1> QED BY <1>2, <1>3 DEF Leaves

(* While main() does not queue: it sleeps until the line has done its work,*)
(* or until it sees the last FIFO empty with nothing left before it.       *)
LEMMA LeavesMain ==
  ASSUME Formed, AtEase, AtEase', Leaves,
         ReadLine \/ QueueDone \/ SettleDone \/ PendingDone \/ Joined
  PROVE  Leaves'
<1>1. /\ UNCHANGED <<role, wave, n, q, hand, air, stop, radio, left, recv>>
      /\ role \in Sending /\ ~ctrlC /\ ~late'
  BY DEF ReadLine, QueueDone, SettleDone, PendingDone, Joined, MainOnly, txVars, rxVars,
     AtEase
<1>2. End' = End /\ InHand'
  BY <1>1 DEF End, Stages, Leaves, InHand
<1>3. FrontIdle' <=> FrontIdle
  BY <1>1, <1>2 DEF FrontIdle, Idle
<1>4. CASE ReadLine
  <2>1. main = "line" /\ main' \in {"queue", "stop"}
    BY <1>4 DEF ReadLine
  <2>2. Route' /\ Drained'
    BY <1>1, <1>2, <1>3, <2>1 DEF Leaves, Route, Drained, Asking
  <2> QED BY <1>1, <1>2, <2>2, LeavesFrame
<1>5. CASE QueueDone
  <2>1. main = "queue" /\ main' = IF role = "lora" THEN "pending" ELSE "settle"
    BY <1>5 DEF QueueDone
  <2>2. Route' /\ Drained'
    BY <1>1, <1>2, <1>3, <2>1 DEF Leaves, Route, Drained, Asking, Raw
  <2> QED BY <1>1, <1>2, <2>2, LeavesFrame
<1>6. CASE SettleDone
  <2>1. main = "settle" /\ main' = IF role = "demand" THEN "pending" ELSE "stop"
    BY <1>6 DEF SettleDone
  <2>2. \A k \in 1..(IF role = "demand" THEN End - 1 ELSE End) : Idle(k)
    BY <1>1, <1>6 DEF SettleDone
  <2>3. End \in Nat \ {0}
    BY Form
  <2>4. FrontIdle /\ (role # "demand" => q[End] = <<>> /\ hand[End] = 0)
    <3>1. CASE role = "demand"
      <4>1. \A k \in 1..End : k # End => k \in 1..(End - 1)
        BY <2>3
      <4> QED BY <2>2, <3>1, <4>1 DEF FrontIdle
    <3>2. CASE role # "demand"
      BY <2>2, <2>3, <3>2 DEF FrontIdle, Idle
    <3> QED BY <3>1, <3>2
  <2>5. Route' /\ Drained'
    BY <1>1, <1>2, <1>3, <2>1, <2>4 DEF Leaves, Route, Drained, Asking
  <2> QED BY <1>1, <1>2, <2>5, LeavesFrame
<1>7. CASE PendingDone
  <2>1. main = "pending" /\ main' = IF role = "demand" THEN "line" ELSE "stop"
    BY <1>7 DEF PendingDone
  <2>2. FrontIdle /\ Asking
    BY <2>1 DEF Leaves, Drained, Route
  <2>3. q[End] \in Seq(Nat)
    BY Form DEF Leaves, Bursts
  <2>4. tx_pending = 0
    <3>1. tx_pending = 0 \/ role = "demand"
      BY <1>1, <1>7 DEF PendingDone
    <3>2. ~(role = "demand" /\ tx_pending > 0)
      BY <1>1, <1>7 DEF PendingDone
    <3>3. tx_pending \in Nat
      BY <2>3 DEF tx_pending
    <3> QED BY <3>1, <3>2, <3>3
  <2>5. q[End] = <<>>
    BY <2>3, <2>4 DEF tx_pending
  <2>6. Route' /\ Drained'
    BY <1>1, <1>2, <1>3, <2>1, <2>2, <2>5 DEF Leaves, Route, Drained, Asking
  <2> QED BY <1>1, <1>2, <2>6, LeavesFrame
<1>8. CASE Joined
  <2>1. main = "join" /\ main' = "ended"
    BY <1>8 DEF Joined
  <2>2. Route' /\ Drained'
    BY <1>1, <1>2, <1>3, <2>1 DEF Leaves, Route, Drained, Asking
  <2> QED BY <1>1, <1>2, <2>2, LeavesFrame
<1> QED BY <1>4, <1>5, <1>6, <1>7, <1>8

(* With nothing before the last stage and nothing in its FIFO, what is not *)
(* on the air is the burst transmit_thread has in hand.                    *)
LEMMA LastInHand ==
  ASSUME Formed, Bursts, n \in Nat, NEW out \in [0..End -> Nat], Flow(out), FrontIdle,
         q[End] = <<>>
  PROVE  n = Len(air) + Held(End) /\ (hand[End] # 0 => hand[End] = n) /\ Len(air) \in Nat
<1>1. End \in Nat \ {0} /\ End \in 1..End /\ 0 \in 0..End /\ End - 1 \in 0..End /\ 0 <= End - 1
  BY Form
<1>2. \A k \in (0 + 1)..(End - 1) : Idle(k)
  BY <1>1 DEF FrontIdle
<1>3. out[0] = out[End - 1]
  BY <1>1, <1>2 DEF Flow
<1>4. out[0] = n /\ out[End] = Len(air) /\ Between(out, End)
  BY <1>1 DEF Flow
<1>5. out[End] \in Nat /\ Len(q[End]) = 0 /\ Held(End) \in {0, 1}
  BY <1>1 DEF Held
<1>6. out[End - 1] = out[End] + Held(End) + Len(q[End])
  BY <1>4 DEF Between
<1>7. n = Len(air) + Held(End)
  <2>1. n = Len(air) + Held(End) + 0
    BY <1>3, <1>4, <1>5, <1>6
  <2>2. \A a, b \in Nat : a + b + 0 = a + b
    OBVIOUS
  <2> QED BY <1>4, <1>5, <2>1, <2>2
<1>8. hand[End] # 0 => hand[End] = Len(air) + 1 /\ Held(End) = 1
  BY <1>4 DEF Between, Held
<1> QED BY <1>4, <1>5, <1>7, <1>8

LEMMA LeavesStop ==
  ASSUME Formed, AtEase, Leaves, Stop
  PROVE  Leaves'
<1>1. /\ UNCHANGED <<role, wave, n, q, hand, air, radio, left, recv>>
      /\ main = "stop" /\ main' = "join" /\ stop' = TRUE /\ ~stop
  BY DEF Stop, MainOnly, txVars, rxVars, Leaves, Route
<1>2. End' = End /\ InHand' /\ Bursts' /\ OnAir'
  BY <1>1 DEF End, Stages, Leaves, InHand, Bursts, OnAir
<1>3. FrontIdle /\ q[End] = <<>> /\ (~Asking => hand[End] = 0)
  BY <1>1 DEF Leaves, Drained
<1>4. Route' /\ Drained'
  BY <1>1, <1>2, <1>3 DEF Leaves, Route, Drained, Asking, FrontIdle, Idle
<1>5. n = Len(air) + Held(End) /\ (hand[End] # 0 => hand[End] = n) /\ Len(air) \in Nat
  BY <1>1, <1>3, LastInHand DEF Leaves
<1>6. n \in Nat
  BY DEF Leaves
<1>7. hand[End] # 0 => Len(air) = n - 1 /\ hand[End] = n /\ Asking
  BY <1>3, <1>5, <1>6 DEF Held
<1>8. hand[End] = 0 => Len(air) = n
  BY <1>5, <1>6 DEF Held
<1>9. Len(air) \in {LessOne, n}
  BY <1>7, <1>8 DEF LessOne
<1>10. Silenced'
  BY <1>1, <1>2, <1>7, <1>9 DEF Silenced, LessOne, Asking
<1> QED BY <1>1, <1>2, <1>4, <1>6, <1>10 DEF Leaves

(* main() queues the next burst.                                           *)
LEMMA LeavesQueue ==
  ASSUME Formed, AtEase, Leaves, Queue
  PROVE  Leaves'
<1> DEFINE first == IF role \in Raw THEN End ELSE 1
<1>1. /\ UNCHANGED <<role, wave, hand, air, radio, left, recv, stop, main>>
      /\ main = "queue" /\ ~stop /\ n' = n + 1 /\ n \in Nat
      /\ q' = [q EXCEPT ![first] = Append(@, n + 1)]
  BY DEF Queue, MainOnly, txVars, rxVars, Leaves, Route
<1>2. End' = End /\ End \in Nat \ {0} /\ first \in 1..End
  BY <1>1, Form DEF End, Stages
<1>3. /\ q[first] \in Seq(Nat) /\ first \in DOMAIN q
      /\ \A k \in 1..End : k # first => q'[k] = q[k]
      /\ q'[first] = Append(q[first], n + 1)
  BY <1>1, <1>2, Form DEF Leaves, Bursts
<1>4. FrontIdle \/ first = 1
  BY <1>1 DEF Leaves, Drained
<1>5. \A k \in 1..End : k < first => Idle(k)
  BY <1>2, <1>4 DEF FrontIdle
<1>6. role \in Raw => first = End
  OBVIOUS
<1> HIDE DEF first
<1>7. Grows(q[first], q'[first], n + 1) /\ q'[first] \in Seq(Nat)
  BY <1>1, <1>3, QueueMoves DEF Grows
<1>8. \E new \in [0..End' -> Nat] : Flow(new)'
  <2>1. PICK out \in [0..End -> Nat] : Flow(out)
    BY <1>1 DEF Leaves
  <2>2. \A k \in 1..End : k # first => q'[k] = q[k]
    BY <1>3
  <2> HIDE DEF Flow
  <2> QED BY <1>1, <1>2, <1>5, <1>7, <2>1, <2>2, FlowEnters DEF Leaves
<1>9. Bursts'
  BY <1>1, <1>2, <1>3, <1>7 DEF Leaves, Bursts
<1>10. FrontIdle /\ first = End => FrontIdle'
  BY <1>1, <1>2, <1>3 DEF FrontIdle, Idle
<1>11. Drained' /\ Route' /\ InHand' /\ OnAir' /\ Silenced'
  BY <1>1, <1>2, <1>6, <1>10 DEF Leaves, Drained, Route, InHand, OnAir, Silenced, Asking
<1> QED BY <1>1, <1>8, <1>9, <1>11 DEF Leaves

(* A stage takes the next burst; after stop() there is none.               *)
LEMMA LeavesPop ==
  ASSUME QInv, Formed, AtEase, Leaves, NEW k \in 1..End, Pop(k)
  PROVE  Leaves'
<1>1. /\ UNCHANGED <<role, wave, n, main, stop, air, recv>>
      /\ hand[k] = 0 /\ q[k] # <<>>
      /\ hand' = [hand EXCEPT ![k] = Head(q[k])] /\ q' = [q EXCEPT ![k] = Tail(@)]
  BY DEF Pop, mainVars, rxVars
<1>2. End' = End /\ End \in 1..End /\ DOMAIN hand = 1..End /\ k \in DOMAIN q
      /\ q[k] \in Seq(Nat)
  BY <1>1, Form DEF End, Stages, Leaves, Bursts
<1>3. /\ \A m \in 1..End : m # k => q'[m] = q[m] /\ hand'[m] = hand[m]
      /\ q'[k] = Tail(q[k]) /\ hand'[k] = Head(q[k]) /\ DOMAIN hand' = 1..End
  BY <1>1, <1>2
<1>4. Behead(q[k], q'[k]) /\ hand'[k] = q[k][1] /\ hand'[k] \in Nat
  BY <1>1, <1>2, <1>3, QueueMoves
<1>5. k # End => ~FrontIdle
  BY <1>1 DEF FrontIdle, Idle
<1>6. main \notin {"line", "stop", "join", "ended"} /\ ~stop
  BY <1>1, <1>5 DEF Leaves, Drained, Route
<1>7. PICK out \in [0..End -> Nat] : Flow(out)
  BY <1>6 DEF Leaves
<1>8. Flow(out)'
  BY <1>1, <1>3, <1>4, <1>7, FlowPops
<1>9. hand'[k] # 0
  <2>0. k \in 0..End
    BY <1>2
  <2>1. Between(out, k) /\ out[k] \in Nat
    BY <1>7, <2>0 DEF Flow
  <2>2. Held(k) = 0 /\ Len(q[k]) \in Nat \ {0}
    BY <1>1, <1>2 DEF Held
  <2>3. q[k][1] = out[k] + 0 + 1
    <3>1. 1 \in 1..Len(q[k])
      BY <2>2
    <3> QED BY <2>1, <2>2, <3>1 DEF Between
  <2> QED BY <1>4, <2>1, <2>3
<1>10. Bursts'
  BY <1>2, <1>3, <1>4 DEF Leaves, Bursts, Behead
<1>11. FrontIdle => FrontIdle'
  BY <1>2, <1>3, <1>5 DEF FrontIdle, Idle
<1>12. Route' /\ OnAir' /\ Silenced' /\ Drained'
  BY <1>1, <1>2, <1>6, <1>11 DEF Leaves, Route, OnAir, Silenced, Drained, Asking
<1>13. InHand'
  <2>1. CASE k = End
    BY <1>1, <1>6, <1>9, <1>2, <2>1 DEF Pop, AtEase, InHand
  <2>2. CASE k # End
    BY <1>1, <1>2, <1>3, <2>2 DEF Pop, Leaves, InHand
  <2> QED BY <2>1, <2>2
<1> QED BY <1>1, <1>2, <1>7, <1>8, <1>10, <1>12, <1>13 DEF Leaves

LEMMA LeavesHandOn ==
  ASSUME Formed, AtEase, Leaves, NEW k \in 1..End, hand[k] # 0, HandOn(k)
  PROVE  Leaves'
<1>1. /\ UNCHANGED <<role, wave, n, main, stop, air, recv, radio, left>>
      /\ k # End /\ hand' = [hand EXCEPT ![k] = 0]
      /\ q' = [q EXCEPT ![k + 1] = Append(@, hand[k])]
  BY DEF HandOn, mainVars, txVars, rxVars
<1>2. /\ End' = End /\ End \in 1..End /\ DOMAIN hand = 1..End /\ k + 1 \in 1..End
      /\ k + 1 \in DOMAIN q /\ hand[k] \in Nat /\ q[k + 1] \in Seq(Nat)
  BY <1>1, Form DEF End, Stages, Leaves, Bursts
<1>3. /\ \A m \in 1..End : m # k => hand'[m] = hand[m]
      /\ \A m \in 1..End : m # k + 1 => q'[m] = q[m]
      /\ q'[k + 1] = Append(q[k + 1], hand[k]) /\ hand'[k] = 0 /\ DOMAIN hand' = 1..End
  BY <1>1, <1>2
<1>4. Grows(q[k + 1], q'[k + 1], hand[k])
  BY <1>2, <1>3, QueueMoves
<1>5. ~FrontIdle
  BY <1>1 DEF FrontIdle, Idle
<1>6. main \notin {"line", "pending", "stop", "join", "ended"} /\ ~stop /\ role \notin Raw
  BY <1>5 DEF Leaves, Drained, Route
<1>7. PICK out \in [0..End -> Nat] : Flow(out)
  BY <1>6 DEF Leaves
<1>8. \E new \in [0..End' -> Nat] : Flow(new)'
  BY <1>1, <1>3, <1>4, <1>7, FlowPasses
<1>9. Bursts'
  <2>1. q'[k + 1] \in Seq(Nat)
    BY <1>4 DEF Grows
  <2>2. \A m \in 1..End : hand[m] \in Nat /\ q[m] \in Seq(Nat)
    BY DEF Leaves, Bursts
  <2>3. ASSUME NEW m \in 1..End PROVE hand'[m] \in Nat /\ q'[m] \in Seq(Nat)
    <3>1. hand'[m] \in Nat
      BY <1>3, <2>2
    <3>2. q'[m] \in Seq(Nat)
      BY <1>3, <2>1, <2>2
    <3> QED BY <3>1, <3>2
  <2> QED BY <1>2, <1>3, <2>3 DEF Bursts
<1>10. Route' /\ OnAir' /\ Silenced' /\ Drained' /\ InHand'
  BY <1>1, <1>2, <1>3, <1>6 DEF Leaves, Route, OnAir, Silenced, Drained, InHand, Asking
<1> QED BY <1>1, <1>8, <1>9, <1>10 DEF Leaves

LEMMA LeavesStage ==
  ASSUME QInv, Formed, AtEase, Leaves, NEW k \in 1..End, Stage(k)
  PROVE  Leaves'
<1>1. role \in Sending
  BY DEF AtEase
<1>2. Pop(k) \/ Leave(k) \/ (hand[k] # 0 /\ HandOn(k))
  BY <1>1 DEF Stage, TxStage, modulation_thread, ofdm_modulation_thread,
     pulse_shaping_filter_thread, Working
<1>3. CASE Leave(k)
  <2>1. UNCHANGED <<role, wave, n, q, hand, air, stop, main, recv, radio, left>>
    BY <1>3 DEF Leave, mainVars, txVars, rxVars
  <2>2. End' = End
    BY <2>1 DEF End, Stages
  <2>3. Route' /\ InHand' /\ Drained'
    BY <2>1, <2>2 DEF Leaves, Route, InHand, Drained, Asking, FrontIdle, Idle
  <2> QED BY <2>1, <2>3, LeavesFrame
<1> QED BY <1>2, <1>3, LeavesPop, LeavesHandOn

(* transmit_thread, until its burst is out or stop_flag_ cuts it.          *)
LEMMA LeavesSends ==
  ASSUME QInv, Formed, AtEase, AtEase', Leaves, SendOrEnd \/ SendReturns
  PROVE  Leaves'
<1>1. /\ UNCHANGED <<role, wave, n, q, hand, air, stop, main, recv>>
      /\ radio # "idle" /\ radio' # "idle"
  BY DEF SendOrEnd, SendReturns, Radio, mainVars, rxVars
<1>2. End' = End
  BY <1>1 DEF End, Stages
<1>3. Route' /\ Drained'
  BY <1>1, <1>2 DEF Leaves, Route, Drained, Asking, FrontIdle, Idle
<1>4. ~stop' /\ radio' = "eob" => left' = 0
  <2>1. CASE SendOrEnd
    <3>1. left \in Nat /\ left' = left
      BY <2>1, ModemAssumption DEF QInv, Typed, SendOrEnd
    <3>2. ~stop' /\ radio' = "eob" => ~(left > 0)
      BY <1>1, <2>1 DEF SendOrEnd
    <3> QED BY <3>1, <3>2
  <2>2. CASE SendReturns
    <3>1. faults \in Nat /\ faults = 0 /\ faults' = 0
      BY DEF AtEase, QInv, Typed
    <3> QED BY <2>2, <3>1 DEF SendReturns
  <2> QED BY <2>1, <2>2
<1>5. InHand'
  BY <1>1, <1>2, <1>4 DEF Leaves, InHand
<1> QED BY <1>1, <1>3, <1>5, LeavesFrame

LEMMA LeavesEnd ==
  ASSUME QInv, Formed, AtEase, Leaves, EndOfBurst
  PROVE  Leaves'
<1>1. /\ UNCHANGED <<role, wave, n, q, stop, main, recv>>
      /\ radio = "eob" /\ radio' = "idle" /\ left' = 0
      /\ hand' = [hand EXCEPT ![End] = 0]
      /\ air' = IF left = Parts THEN air
                ELSE Append(air, [id |-> hand[End], whole |-> left = 0])
  BY DEF EndOfBurst, Radio, mainVars, rxVars
<1>2. /\ End' = End /\ End \in 1..End /\ DOMAIN hand = 1..End
      /\ hand[End] # 0 /\ hand[End] \in Nat /\ n \in Nat
  <2>1. End' = End
    BY <1>1 DEF End, Stages
  <2>2. End \in 1..End
    <3>1. End \in Nat \ {0}
      BY Form
    <3> QED BY <3>1
  <2>3. DOMAIN hand = 1..End /\ hand[End] \in Nat /\ n \in Nat
    BY <2>2 DEF Leaves, Bursts
  <2>4. hand[End] # 0
    BY <1>1 DEF Leaves, InHand
  <2> QED BY <2>1, <2>2, <2>3, <2>4
<1>3. /\ \A m \in 1..End : m # End => hand'[m] = hand[m]
      /\ hand'[End] = 0 /\ DOMAIN hand' = 1..End
  BY <1>1, <1>2
<1>4. Bursts' /\ InHand' /\ Route' /\ Drained'
  BY <1>1, <1>2, <1>3 DEF Leaves, Bursts, InHand, Route, Drained, Asking, FrontIdle, Idle
<1>5. PICK S : air \in Seq(S)
  BY DEF QInv, Typed
<1> DEFINE b == [id |-> hand[End], whole |-> left = 0]
<1>6. /\ Len(Append(air, b)) = Len(air) + 1 /\ Len(air) \in Nat
      /\ \A i \in 1..Len(air) : Append(air, b)[i] = air[i]
      /\ Append(air, b)[Len(air) + 1] = b
  BY <1>5, SeqGrows
<1>7. CASE ~stop
  <2>1. left = 0 /\ Parts # 0
    BY <1>1, <1>7, ModemAssumption DEF Leaves, InHand
  <2>2. air' = Append(air, b) /\ b.id = hand[End] /\ b.whole
    BY <1>1, <2>1
  <2>3. PICK out \in [0..End -> Nat] : Flow(out)
    BY <1>7 DEF Leaves
  <2>4. hand[End] = Len(air) + 1
    BY <1>2, <2>3 DEF Flow, Between
  <2>5. Len(air') = Len(air) + 1
    BY <1>6, <2>2
  <2>6. OnAir'
    <3>1. ASSUME NEW i \in 1..Len(air') PROVE air'[i].id = i /\ air'[i].whole
      <4>1. CASE i \in 1..Len(air)
        BY <1>6, <1>7, <2>2, <4>1 DEF Leaves, OnAir
      <4>2. CASE i = Len(air) + 1
        BY <1>6, <2>2, <2>4, <4>2
      <4> QED BY <1>6, <2>5, <3>1, <4>1, <4>2
    <3> QED BY <3>1 DEF OnAir
  <2>7. \E new \in [0..End' -> Nat] : Flow(new)'
    <3>1. \A m \in 1..End : m # End + 1 => q'[m] = q[m]
      BY <1>1
    <3> QED BY <1>1, <1>2, <1>3, <2>3, <2>5, <3>1, FlowPasses
  <2>8. Silenced'
    BY <1>1, <1>7 DEF Silenced
  <2> QED BY <1>1, <1>2, <1>4, <2>6, <2>7, <2>8 DEF Leaves
<1>8. CASE stop
  <2>1. /\ Len(air) = n - 1 /\ hand[End] = n
        /\ Asking
    BY <1>1, <1>2, <1>8 DEF Leaves, Silenced, Drained, Route
  <2>2. LessOne' = n - 1 /\ Asking'
    BY <1>1, <2>1 DEF LessOne, Asking
  <2>3. CASE air' = air
    <3>1. OnAir'
      BY <1>1, <1>8, <2>2, <2>3 DEF Leaves, OnAir, Asking
    <3>2. Silenced'
      BY <1>1, <1>2, <1>3, <2>1, <2>2, <2>3 DEF Silenced
    <3> QED BY <1>1, <1>2, <1>4, <1>8, <3>1, <3>2 DEF Leaves
  <2>4. CASE air' = Append(air, b)
    <3>1. Len(air') = n /\ b.id = n
      BY <1>2, <1>6, <2>1, <2>4
    <3>2. ASSUME NEW i \in 1..Len(air')
          PROVE  air'[i].id = i /\ (air'[i].whole \/ (stop /\ Asking /\ i = n))
      <4>1. CASE i \in 1..Len(air)
        BY <1>6, <2>4, <4>1 DEF Leaves, OnAir
      <4>2. CASE i = n
        <5>1. air'[i] = b
          BY <1>2, <1>6, <2>1, <2>4, <4>2
        <5> QED BY <1>8, <2>1, <3>1, <4>2, <5>1
      <4> QED BY <1>2, <1>6, <2>1, <3>1, <3>2, <4>1, <4>2
    <3>3. OnAir'
      BY <1>1, <2>1, <2>2, <3>2 DEF OnAir
    <3>4. Silenced'
      BY <1>1, <1>2, <1>3, <2>2, <3>1 DEF Silenced
    <3> QED BY <1>1, <1>2, <1>4, <1>8, <3>3, <3>4 DEF Leaves
  <2> QED BY <1>1, <2>3, <2>4
<1>9. stop \in BOOLEAN
  BY DEF Leaves, Route
<1> QED BY <1>7, <1>8, <1>9

LEMMA LeavesStart == Init => LInv
<1> SUFFICES ASSUME Init, AtEase PROVE Leaves
  BY DEF LInv
<1>1. /\ role \in AllRoles /\ role \in Sending /\ wave \in {"single", "ofdm"}
      /\ q = [k \in 1..Bits |-> <<>>] /\ hand = [k \in 1..End |-> 0]
      /\ n = 0 /\ air = <<>> /\ stop = FALSE /\ radio = "idle" /\ left = 0 /\ recv = FALSE
      /\ main = IF role = "demand" THEN "line" ELSE "queue"
  BY ModemAssumption DEF Init, AtEase, Sending, Framed, Raw
<1>2. Formed
  BY <1>1 DEF Formed
<1>3. /\ End \in Nat \ {0} /\ End \in 1..End /\ DOMAIN hand = 1..End
      /\ \A k \in 1..End : q[k] = <<>> /\ hand[k] = 0 /\ Idle(k)
  BY <1>1, <1>2, Form DEF Idle
<1>4. Len(air) = 0 /\ 1..Len(air) = {}
  BY <1>1
<1>5. Bursts /\ Route /\ InHand /\ OnAir /\ Drained /\ Silenced
  <2>1. Bursts
    <3>1. <<>> \in Seq(Nat) /\ 0 \in Nat
      OBVIOUS
    <3> QED BY <1>3, <3>1 DEF Bursts
  <2>2. /\ n = 0 /\ stop = FALSE /\ radio = "idle" /\ left = 0 /\ recv = FALSE
        /\ main = IF role = "demand" THEN "line" ELSE "queue"
    BY <1>1
  <2>3. Route
    <3>1. main \in {"line", "queue"} /\ (main = "line" => role = "demand")
      BY <2>2
    <3>2. (main \in {"join", "ended"}) = FALSE
      BY <3>1
    <3> QED BY <2>2, <3>1, <3>2 DEF Route
  <2>4. InHand /\ OnAir
    BY <1>3, <1>4, <2>2 DEF InHand, OnAir
  <2>5. FrontIdle
    BY <1>3 DEF FrontIdle
  <2>6. Drained /\ Silenced
    BY <1>3, <2>2, <2>5 DEF Drained, Silenced, Asking
  <2> QED BY <2>1, <2>3, <2>4, <2>6
<1>6. \E out \in [0..End -> Nat] : Flow(out)
  <2>1. PICK out : out = [k \in 0..End |-> 0]
    OBVIOUS
  <2>2. out \in [0..End -> Nat] /\ \A k \in 0..End : out[k] = 0
    BY <2>1
  <2>3. ASSUME NEW k \in 1..End PROVE Between(out, k)
    <3>1. /\ k - 1 \in 0..End /\ k \in 0..End /\ Held(k) = 0 /\ Len(q[k]) = 0
          /\ 1..Len(q[k]) = {} /\ hand[k] = 0
      BY <1>3 DEF Held
    <3> QED BY <2>2, <3>1 DEF Between
  <2>4. 0 \in 0..End /\ End \in 0..End
    BY <1>3
  <2> QED BY <1>1, <1>4, <2>2, <2>3, <2>4 DEF Flow
<1> QED BY <1>1, <1>5, <1>6 DEF Leaves

(* What a transmitter never does, and what ends its being left alone.      *)
LEMMA LeavesElsewhere ==
  ASSUME SoftInv, QInv, AtEase, AtEase', Leaves, Next
  PROVE  \/ \E k \in 1..End : Stage(k)
         \/ SendOrEnd \/ SendReturns \/ EndOfBurst
         \/ ReadLine \/ QueueDone \/ SettleDone \/ PendingDone \/ Joined \/ Stop \/ Queue
<1>1. role \in Sending /\ faults = 0 /\ faults' = 0 /\ ~ctrlC /\ ~ctrlC' /\ ~recv /\ sink = "off"
  BY DEF AtEase, Leaves, Route, SoftInv, Elsewhere, Sending, Framed, Raw
<1>2. main \notin {"collect", "accept", "session", "sinkJoin"}
  BY DEF Leaves, Route
<1>3. ~SkipInvalid /\ ~Receive /\ ~ReceiveReturns /\ ~ReceiveThrows
  BY <1>1 DEF SkipInvalid, Receive, ReceiveReturns, ReceiveThrows
<1>4. ~Collect /\ ~CollectEnds /\ ~SessionBegins /\ ~SessionStops /\ ~SinkJoined /\ ~SinkRuns
  BY <1>1, <1>2 DEF Collect, CollectEnds, SessionBegins, SessionStops, SinkJoined, SinkRuns,
     SinkPops, SinkDecodesSoft, SinkDecodesHard, SinkReturns
<1>5. ~CtrlC /\ ~SecondCtrlC
  BY <1>1 DEF CtrlC, SecondCtrlC, ProcessDies, AtEase
<1> QED BY <1>3, <1>4, <1>5 DEF Next, Transmit, Main

(* No step begins to leave a transmitter alone.                            *)
LEMMA EaseIsLost ==
  ASSUME SoftInv, QInv, [Next]_vars, AtEase'
  PROVE  AtEase
<1>1. /\ faults \in Nat /\ faults' >= faults /\ role' = role
      /\ (ctrlC => ctrlC') /\ (late => late') /\ (main = "aborted" => main' = "aborted")
  <2>1. faults \in Nat
    BY DEF QInv, Typed
  <2>2. CASE \E k \in 1..End : Stage(k)
    <3>1. PICK k \in 1..End : Stage(k)
      BY <2>2
    <3>2. UNCHANGED <<role, main, ctrlC, late, faults>>
      BY <3>1 DEF Stage, TxStage, RxStage, Pop, Leave, HandOn, DropBlock, PushBits, PushLlrs,
         modulation_thread, ofdm_modulation_thread, pulse_shaping_filter_thread,
         EnergyDetection_thread, AGC_thread, match_filter_thread, TimeSync_thread,
         CFO_correction_thread, phase_offset_thread, channel_eq_thread,
         demodulation_thread, ofdm_demodulation_thread, mainVars, history
    <3> QED BY <2>1, <3>2
  <2>3. CASE Transmit \/ Receive \/ ReceiveReturns
    BY <2>1, <2>3 DEF Transmit, SkipInvalid, SendOrEnd, SendReturns, EndOfBurst, Receive,
       ReceiveReturns, mainVars, history
  <2>4. CASE ReadLine \/ Main \/ CollectEnds
    <3>1. UNCHANGED <<role, ctrlC, faults>> /\ main # "aborted"
      BY <2>4 DEF ReadLine, Main, Queue, QueueDone, SettleDone, PendingDone, Stop, Joined,
         CollectEnds, MainOnly
    <3>2. CASE SettleDone
      <4>1. late => late'
        BY <3>2 DEF SettleDone
      <4> QED BY <2>1, <3>1, <4>1
    <3>3. CASE PendingDone
      <4>1. late => late'
        BY <3>3 DEF PendingDone
      <4> QED BY <2>1, <3>1, <4>1
    <3>4. CASE ReadLine \/ Queue \/ QueueDone \/ Stop \/ Joined \/ CollectEnds
      <4>1. late' = late
        BY <3>4 DEF ReadLine, Queue, QueueDone, Stop, Joined, CollectEnds
      <4> QED BY <2>1, <3>1, <4>1
    <3> QED BY <2>4, <3>2, <3>3, <3>4 DEF Main
  <2>5. CASE Collect \/ SessionBegins \/ SessionStops \/ SinkJoined \/ SinkRuns
    BY <2>1, <2>5 DEF Collect, SessionBegins, SessionStops, SinkJoined, SinkRuns, SinkPops,
       SinkDecodesSoft, SinkDecodesHard, SinkReturns, SinkOnly, history
  <2>6. CASE ReceiveThrows \/ CtrlC \/ SecondCtrlC
    BY <2>1, <2>6 DEF ReceiveThrows, CtrlC, SecondCtrlC, ProcessDies, mainVars, history
  <2>7. CASE UNCHANGED vars
    BY <2>1, <2>7 DEF vars, mainVars, history
  <2> QED BY <2>2, <2>3, <2>4, <2>5, <2>6, <2>7 DEF Next
<1> QED BY <1>1 DEF AtEase

LEMMA LeavesStep == QInv /\ SoftInv /\ LInv /\ [Next]_vars => LInv'
<1> SUFFICES ASSUME QInv, SoftInv, LInv, [Next]_vars, AtEase' PROVE Leaves'
  BY DEF LInv
<1>1. AtEase /\ Leaves /\ Formed
  BY EaseIsLost DEF LInv, SoftInv, Formal
<1>2. CASE Next
  BY <1>1, <1>2, LeavesElsewhere, LeavesStage, LeavesSends, LeavesEnd, LeavesMain, LeavesStop,
     LeavesQueue
<1>3. CASE UNCHANGED vars
  <2>1. UNCHANGED <<role, wave, n, q, hand, air, stop, main, recv, radio, left>>
    BY <1>3 DEF vars, mainVars, txVars, rxVars
  <2>2. End' = End
    BY <2>1 DEF End, Stages
  <2>3. Route' /\ InHand' /\ Drained'
    BY <1>1, <2>1, <2>2 DEF Leaves, Route, InHand, Drained, Asking, FrontIdle, Idle
  <2> QED BY <1>1, <2>1, <2>3, LeavesFrame
<1> QED BY <1>2, <1>3

(* However many stages, bursts and pieces there are: a transmitter left    *)
(* alone has put what it queued on the air, whole and in order, when its   *)
(* process ends or it has printed SENT, but for the burst that the process *)
(* which only asks for an empty FIFO may still have in hand.               *)
THEOREM EveryBurstGoesOut == Spec => []EveryBurstLeaves
<1>1. QInv /\ SoftInv /\ LInv => EveryBurstLeaves
  <2> SUFFICES ASSUME QInv, SoftInv, AtEase, Leaves PROVE EveryBurstLeaves
    BY DEF LInv, EveryBurstLeaves
  <2>1. n \in Nat /\ LessOne \in {n - 1, n}
    BY DEF Leaves, LessOne
  <2>2. ASSUME main = "ended"
        PROVE  /\ Len(air) >= LessOne
               /\ \A i \in 1..Len(air) : air[i].id = i /\ (air[i].whole \/ (Asking /\ i = n))
    <3>1. stop
      BY <2>2 DEF Leaves, Route
    <3>2. Len(air) \in {LessOne, n} /\ OnAir
      BY <3>1 DEF Leaves, Silenced
    <3> QED BY <2>1, <3>2 DEF OnAir
  <2>3. ASSUME main = "line" PROVE Len(air) >= LessOne
    <3>1. ~stop /\ FrontIdle /\ q[End] = <<>> /\ Formed /\ Asking
      BY <2>3 DEF Leaves, Route, Drained, Asking, SoftInv, Formal
    <3>2. n = Len(air) + Held(End) /\ Len(air) \in Nat
      BY <3>1, LastInHand DEF Leaves
    <3>3. LessOne = n - 1 /\ Held(End) \in {0, 1}
      BY <3>1 DEF LessOne, Held
    <3> QED BY <2>1, <3>2, <3>3
  <2> QED BY <2>2, <2>3 DEF EveryBurstLeaves
<1> QED BY <1>1, QuietInit, QuietStep, SoftStart, SoftStep, LeavesStart, LeavesStep, PTL DEF Spec
=============================================================================
