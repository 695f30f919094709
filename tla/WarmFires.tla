------------------------------ MODULE WarmFires ------------------------------
(***************************************************************************)
(* Random access with one real burst per decision.  An access point runs   *)
(* one sink_arq --serve-forever process (marl_phy.py AccessPoint) and      *)
(* serves one source after another; every agent fires a single packet on   *)
(* demand: out of a warm source_arq --on-demand process (WarmSource.fire), *)
(* or of a process of its own per packet (transmit_once).  A fire connects *)
(* for its ACK, sends, and is TRUE when an ACK comes back.                 *)
(*                                                                         *)
(* On top of it run, by variant:                                           *)
(*   "mock"      MultiAgentRAEnv over MockMultiChannel, without radios     *)
(*   "logical"   MultiAgentRAEnv over MultiRealChannel, physical=False     *)
(*   "physical"  the same, physical=True: colliding agents really fire     *)
(*   "single"    RealChannelEnv over RealChannel, one agent                *)
(*   "agent"     marl_phy.py agent: transmit_once, again and again         *)
(*   "ber"       ber_probe: the same, and a failed fire is passed over     *)
(*                                                                         *)
(* Time is the order of events, except that a session (5 s, and 6.5 s after*)
(* its packet) outlasts its source (2 s), and that a cold source tries to  *)
(* connect for longer (18 s) than any session lasts.                       *)
(***************************************************************************)
EXTENDS Naturals, Sequences, FiniteSets, SequencesExt

CONSTANTS
  N,          \* agents with a radio each; the one-agent programs use one
  Variants,   \* programs considered
  Epochs,     \* num_S, --attempts
  QCap,       \* Q_max
  Crashes     \* bound: processes that die unasked

ASSUME FiresAssumption ==
  /\ N \in Nat \ {0} /\ Epochs \in Nat /\ QCap \in Nat /\ Crashes \in Nat
  /\ Variants \subseteq {"mock", "logical", "physical", "single", "agent", "ber"}

Radios == 1..N
NoOne == 0

VARIABLES
  variant,
  (* the program *)
  pc,         \* "step", "fires", "ended", "raised"
  t,          \* slots, or fires, so far
  queue, delivered,
  flags,      \* tx_flags: who transmits in this slot
  res,        \* outcome of each fire: "none", "yes", "no", "error"
  (* the sources *)
  source,     \* "idle", "connect", "tx", "wait", "dead", "closed"
  again,      \* transmit_once has used its second attempt
  ackIn,      \* ACKs on a source's connection
  (* the access point *)
  station,    \* "listen", "session", "grace", "down"
  backlog,    \* connections the kernel holds, oldest first
  guest,      \* whose connection the session has; NoOne when it was closed
  sinkDone,   \* done_ of the session's SINK
  fifo,       \* the receiver's FIFOs: bursts not lost and not yet popped
  crashes,
  (* history *)
  sent,       \* a burst of this slot has left the agent
  heard,      \* bursts ever popped and acknowledged
  credits,    \* fires that came out TRUE of an ACK: whose, in which epoch, of
              \* which burst, and what excuses a burst that is not its own
  carried,    \* bursts that had already been sent when the session began
  dropped     \* agents whose connection was reset by close(srv) in this slot

envVars     == <<queue, delivered>>
sourceVars  == <<source, again, ackIn>>
stationVars == <<station, backlog, guest, sinkDone>>
history     == <<heard, carried, dropped>>
firesVars == <<variant, pc, t, envVars, flags, res, sourceVars, stationVars, fifo,
               crashes, sent, credits, history>>

Cold == variant \in {"agent", "ber"}      \* a process and a radio start per fire
Players == IF variant \in {"mock", "logical", "physical"} THEN Radios ELSE {1}

FiresInit ==
  /\ variant \in Variants
  /\ pc = "step" /\ t = 0
  /\ queue = [a \in Radios |-> 1]
  /\ delivered = [a \in Radios |-> 0]
  /\ flags = {} /\ res = [a \in Radios |-> "none"]
  /\ source = [a \in Radios |-> "idle"] /\ again = FALSE
  /\ ackIn = [a \in Radios |-> <<>>]
  /\ station = "listen" /\ backlog = <<>> /\ guest = NoOne /\ sinkDone = FALSE
  /\ fifo = <<>> /\ crashes = 0
  /\ sent = {} /\ credits = {}
  /\ heard = {} /\ carried = {} /\ dropped = {}

(* Operators named X_... are X with a plausible slip of the programmer; no *)
(* specification uses them.                                                *)

-----------------------------------------------------------------------------
(* One decision epoch: arrivals, decisions, and who really fires.  Two or  *)
(* more transmitters are a collision nobody fires in, unless physical.     *)
Fired(who) ==
  CASE variant = "mock" -> {}
    [] variant = "logical" /\ Cardinality(who) # 1 -> {}
    [] OTHER -> who

Step ==
  /\ pc = "step" /\ t < Epochs
  /\ \E come \in SUBSET Players, chosen \in SUBSET Players :
       LET q == [a \in Radios |-> IF a \in come /\ queue[a] < QCap THEN queue[a] + 1
                                  ELSE queue[a]]
           who == IF Cold THEN Players ELSE {a \in chosen : q[a] > 0}
           real == Fired(who)
       IN  /\ Cold => come = {} /\ chosen = {}
           /\ queue' = q
           /\ flags' = who
           /\ source' = [a \in Radios |-> IF a \in real /\ source[a] # "dead" THEN "connect"
                                       ELSE source[a]]
           /\ \E lucky \in IF variant = "mock" THEN BOOLEAN ELSE {FALSE} :
                res' = [a \in Radios |->
                  CASE a \in real /\ source[a] = "dead" -> "error"
                    [] a \in who \ real -> IF lucky /\ who = {a} THEN "yes" ELSE "no"
                    [] OTHER -> "none"]
  /\ pc' = "fires" /\ again' = FALSE
  /\ UNCHANGED <<variant, t, delivered, ackIn, stationVars, fifo, crashes, credits, sent,
                 history>>

-----------------------------------------------------------------------------
(* A fire: main.cpp, source_arq on demand, and WarmSource.fire reading up  *)
(* to its RESULT line.                                                     *)
Unread(a) == <<>>

(* The connection is gone, on both sides and from the kernel's queue, with *)
(* what was not read from it.                                              *)
HangsUp(a) ==
  /\ \/ a \notin ToSet(backlog) /\ UNCHANGED backlog
     \/ \E i \in DOMAIN backlog : backlog[i] = a /\ backlog' = RemoveAt(backlog, i)
  /\ guest' = IF guest = a THEN NoOne ELSE guest
  /\ ackIn' = [ackIn EXCEPT ![a] = Unread(a)]

Finish(a, verdict) ==
  /\ source' = [source EXCEPT ![a] = "idle"]
  /\ res' = [res EXCEPT ![a] = verdict]
  /\ HangsUp(a)
  /\ UNCHANGED <<station, sinkDone>>

programVars == <<variant, pc, t, envVars, flags>>

(* The kernel completes the connection while the access point listens,     *)
(* whether or not the access point accepts it.                             *)
Dial(a) ==
  /\ source[a] = "connect" /\ station = "listen" /\ Len(backlog) < 2
  /\ backlog' = Append(backlog, a)
  /\ source' = [source EXCEPT ![a] = "tx"]
  /\ UNCHANGED <<programVars, res, again, ackIn, station, guest, sinkDone, fifo, crashes, sent,
                 credits, history>>

(* Sixty refused attempts: RESULT acked=0, or no result line at all.       *)
Patience_Endless == FALSE
Patience == IF Cold THEN station = "down" ELSE station # "listen" \/ Len(backlog) = 2

DialFails(a) ==
  /\ source[a] = "connect" /\ Patience
  /\ Finish(a, IF Cold THEN "error" ELSE "no")
  /\ UNCHANGED <<programVars, again, fifo, crashes, sent, credits, history>>

(* A cold source may find its radio not yet released: one more attempt.    *)
DeviceBusy(a) ==
  /\ Cold /\ source[a] = "connect"
  /\ IF again
     THEN Finish(a, "error") /\ UNCHANGED again
     ELSE again' = TRUE /\ UNCHANGED <<source, res, ackIn, stationVars>>
  /\ UNCHANGED <<programVars, fifo, crashes, sent, credits, history>>

Transmit(a) ==
  /\ source[a] = "tx"
  /\ \/ UNCHANGED fifo
     \/ station # "down" /\ fifo' = Append(fifo, [by |-> a, slot |-> t])
  /\ sent' = sent \cup {a}
  /\ source' = [source EXCEPT ![a] = "wait"]
  /\ UNCHANGED <<programVars, res, again, ackIn, stationVars, crashes, credits, history>>

(* The one chunk's number is 0 in every packet, so any ACK is its ACK.     *)
PollAck(a) ==
  /\ source[a] = "wait" /\ ackIn[a] # <<>>
  /\ LET burst == Head(ackIn[a]) IN
       credits' = credits \cup {[to |-> a, at |-> t, burst |-> burst,
                                 old |-> burst \in carried, reset |-> burst.by \in dropped]}
  /\ Finish(a, "yes")
  /\ UNCHANGED <<programVars, again, fifo, crashes, sent, history>>

(* --max-attempts 1: the first timeout is the last.                        *)
Verdict == "no"

Timeout(a) ==
  /\ source[a] = "wait"
  /\ Finish(a, Verdict)
  /\ UNCHANGED <<programVars, again, fifo, crashes, sent, credits, history>>

-----------------------------------------------------------------------------
(* accept_one takes the oldest connection and closes the listening socket: *)
(* a connection still in its queue is reset.                               *)
AcceptOne ==
  /\ station = "listen" /\ backlog # <<>>
  /\ guest' = Head(backlog)
  /\ dropped' = dropped \cup ToSet(Tail(backlog))
  /\ backlog' = <<>> /\ station' = "session" /\ sinkDone' = FALSE
  /\ carried' = ToSet(fifo)
  /\ UNCHANGED <<programVars, res, sourceVars, fifo, crashes, sent, credits, heard>>

(* SINK::run: every good frame is acknowledged, on whatever connection the *)
(* session has.                                                            *)
Popped_Kept == fifo
Popped == Tail(fifo)

SinkPop ==
  /\ station \in {"session", "grace"} /\ fifo # <<>>
  /\ fifo' = Popped
  /\ heard' = heard \cup {Head(fifo)}
  /\ ackIn' = IF guest = NoOne THEN ackIn
             ELSE [ackIn EXCEPT ![guest] = Append(@, Head(fifo))]
  /\ sinkDone' = TRUE
  /\ UNCHANGED <<programVars, res, source, again, station, backlog, guest, crashes, sent, credits,
                 carried, dropped>>

(* The session is over once its packet is here -- then it lingers to       *)
(* acknowledge a retransmission -- or five seconds have passed.  Either way*)
(* its source has left by then.                                            *)
Cap == ~sinkDone

Recycle ==
  /\ guest' = NoOne /\ sinkDone' = FALSE /\ station' = "listen"
  /\ UNCHANGED <<backlog, fifo, programVars, res, sourceVars, crashes, sent, credits, history>>

SessionDone ==
  /\ station = "session" /\ sinkDone
  /\ station' = "grace"
  /\ UNCHANGED <<backlog, guest, sinkDone, programVars, res, sourceVars, fifo, crashes, sent,
                 credits, history>>

SessionCap == station = "session" /\ Cap /\ guest = NoOne /\ Recycle
GraceOver  == station = "grace" /\ guest = NoOne /\ Recycle

-----------------------------------------------------------------------------
(* A process dies unasked: its sockets close with it.                      *)
SourceDies(a) ==
  /\ crashes < Crashes /\ ~Cold /\ variant # "mock" /\ source[a] \notin {"dead", "closed"}
  /\ source' = [source EXCEPT ![a] = "dead"]
  /\ res' = IF source[a] = "idle" THEN res ELSE [res EXCEPT ![a] = "error"]
  /\ HangsUp(a)
  /\ crashes' = crashes + 1
  /\ UNCHANGED <<programVars, again, station, sinkDone, fifo, sent, credits, history>>

ApDies ==
  /\ crashes < Crashes /\ station # "down" /\ variant # "mock"
  /\ station' = "down" /\ fifo' = <<>> /\ backlog' = <<>>
  /\ guest' = NoOne /\ sinkDone' = FALSE
  /\ crashes' = crashes + 1
  /\ UNCHANGED <<programVars, res, sourceVars, sent, credits, history>>

-----------------------------------------------------------------------------
(* The epoch's books, once every fire has reported.  An exception is a     *)
(* False in the threads of a physical collision, is passed over by         *)
(* ber_probe, and else, as that of a lone physical fire, is the end.       *)
Reported == \A a \in Fired(flags) : res[a] \in {"yes", "no", "error"}
Got == {a \in flags : res[a] = "yes"}

Caught == variant = "ber" \/ (variant = "physical" /\ Cardinality(flags) >= 2)

Settle ==
  /\ pc = "fires" /\ Reported
  /\ IF ~Caught /\ \E a \in flags : res[a] = "error"
     THEN /\ pc' = "raised"
          /\ UNCHANGED <<t, queue, delivered>>
     ELSE /\ pc' = "step" /\ t' = t + 1
          /\ delivered' = [a \in Radios |-> delivered[a] + (IF a \in Got THEN 1 ELSE 0)]
          /\ queue' = [a \in Radios |->
                         IF a \in Got /\ ~Cold THEN queue[a] - 1 ELSE queue[a]]
  /\ flags' = {} /\ res' = [a \in Radios |-> "none"] /\ sent' = {} /\ dropped' = {}
  /\ UNCHANGED <<variant, sourceVars, stationVars, fifo, crashes, credits, heard, carried>>

(* close(): end of file on its stdin, or a kill after two seconds.         *)
Close ==
  /\ \/ pc = "step" /\ t = Epochs /\ pc' = "ended"
     \/ pc = "raised" /\ (\E a \in Radios : source[a] # "closed") /\ UNCHANGED pc
  /\ source' = [a \in Radios |-> "closed"]
  /\ UNCHANGED <<variant, t, envVars, flags, res, again, ackIn, stationVars, fifo, crashes, sent,
                 credits, history>>

Source(a) == \/ Dial(a) \/ DialFails(a) \/ DeviceBusy(a) \/ Transmit(a)
             \/ PollAck(a) \/ Timeout(a)
AccessPoint == AcceptOne \/ SinkPop \/ SessionDone \/ SessionCap \/ GraceOver
Program == Step \/ Settle \/ Close

FiresNext ==
  \/ Program \/ AccessPoint
  \/ \E a \in Radios : Source(a) \/ SourceDies(a)
  \/ ApDies

(* Processes and threads keep running; what the air does is not promised.  *)
FiresFairness ==
  /\ WF_firesVars(Program) /\ WF_firesVars(AccessPoint)
  /\ \A a \in Radios : WF_firesVars(Source(a))

FiresSpec == FiresInit /\ [][FiresNext]_firesVars /\ FiresFairness

-----------------------------------------------------------------------------
(* The books of the program against the decodes of the access point: what  *)
(* an agent has delivered is the number of its fires that an ACK made TRUE,*)
(* each ACK was for a burst decoded, and none for the burst of another     *)
(* one, over all sessions, whoever the ACK reached: a session that inherits*)
(* a burst, a reset connection or a late answer never makes two successes  *)
(* of one.                                                                 *)
OneDecodePerSuccess ==
  variant # "mock" =>
    /\ \A a \in Radios : delivered[a] = Cardinality({c \in credits : c.to = a /\ c.at < t})
    /\ \A c \in credits : c.burst \in heard
    /\ \A c, d \in credits : c.burst = d.burst => c = d

(* A fire that is TRUE was made so by its own burst, or by one that was    *)
(* already sent when its session began (main.cpp starts a SINK on the old  *)
(* FIFO), or by that of an agent whose connection the access point reset   *)
(* in this epoch and who sent all the same.  Nothing else makes it TRUE:   *)
(* the frames carry no name.                                               *)
TrueIsOwnBurst ==
  \A c \in credits :
    \/ c.old
    \/ c.burst.slot = c.at /\ (c.burst.by = c.to \/ c.reset)

(* Both together: what a fire's TRUE is worth.                             *)
TrueIsEarned == OneDecodePerSuccess /\ TrueIsOwnBurst

(* Whatever the air loses and whichever process dies, every fire reports,  *)
(* every epoch is booked and the program ends with its transmitters closed.*)
ProgramEnds == <>(pc \in {"ended", "raised"} /\ \A a \in Radios : source[a] = "closed")
=============================================================================
