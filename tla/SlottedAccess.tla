--------------------------- MODULE SlottedAccess ---------------------------
(***************************************************************************)
(* Slotted random access with several agents (marl_multi): the slot clock  *)
(* (slot_sync.py), the access point that decodes bursts and arbitrates     *)
(* each slot (ap_multi.py), and the agents that transmit, or not, once per *)
(* tick and wait for an ACK (agent_node.py).  Every arrow between them is  *)
(* a TCP stream or a burst on the air; each of the three is a process of   *)
(* its own and the access point has a thread per connection and one that   *)
(* reads the decoder.                                                      *)
(*                                                                         *)
(* The clock sends every tick to every connection, so what a member has    *)
(* not read yet is "next[m] .. slot - 1".  The agents' policy is any.      *)
(***************************************************************************)
EXTENDS Naturals, FiniteSets

CONSTANTS
  Agents,    \* agent ids
  AP,        \* the access point, which joins the clock like an agent
  Slots,     \* --slots: decisions each agent takes, per agent
  MaxTicks   \* bound: the coordinator is stopped after so many ticks

ASSUME SlottedAccessAssumption ==
  /\ IsFiniteSet(Agents) /\ Agents # {} /\ AP \notin Agents
  /\ Slots \in [Agents -> Nat \ {0}] /\ MaxTicks \in Nat

Members == Agents \cup {AP}

VARIABLES
  (* the clock *)
  clock,       \* "barrier" (wait_all), "ticking", "closed"
  slot,        \* ticks broadcast so far
  conns,       \* members connected to the clock
  next,        \* per member: the first tick it has not read
  (* the agents *)
  phase,       \* "hello", "join", "slot", "burst", "wait", "done", "dead"
  left,        \* decisions still to take
  at,          \* the tick acted on
  fires,       \* bursts fired
  since,       \* ticks broadcast when the wait for the ACK began
  (* the access point *)
  ap,          \* "agents" (wait_all), "join", "slots", "gone"
  registered,  \* keys of _conns
  started,     \* prev is not None
  intents,     \* _intents
  decoded,     \* _decoded
  (* in between *)
  txs,         \* 'TX' lines of an agent not read yet
  acks,        \* 'ACK' lines to an agent not read yet
  air,         \* bursts <<agent, fire>> the decoder will still report
  (* history *)
  reported,    \* bursts the decoder reported
  wins         \* <<agent, tick, fire>> for which fire() returned True

clockVars == <<clock, slot, conns>>
agentVars == <<phase, left, at, fires, since>>
apVars == <<ap, registered, started, intents, decoded>>
netVars == <<txs, acks, air>>
vars == <<clockVars, next, agentVars, apVars, netVars, reported, wins>>

NoTick == MaxTicks   \* wait_slot() returned None: the clock is closed

Init ==
  /\ clock = "barrier" /\ slot = 0 /\ conns = {}
  /\ next = [m \in Members |-> 0]
  /\ phase = [a \in Agents |-> "hello"]
  /\ left = Slots
  /\ at = [a \in Agents |-> NoTick]
  /\ fires = [a \in Agents |-> 0]
  /\ since = [a \in Agents |-> 0]
  /\ ap = "agents" /\ registered = {} /\ started = FALSE
  /\ intents = {} /\ decoded = {}
  /\ txs = [a \in Agents |-> 0]
  /\ acks = [a \in Agents |-> 0]
  /\ air = {}
  /\ reported = {} /\ wins = {}

-----------------------------------------------------------------------------
(* The clock.  Operators named X_... are X with a plausible slip of the    *)
(* programmer; no specification uses them.                                 *)

(* wait_all counts connections, whoever they are from.                     *)
ClockStart ==
  /\ clock = "barrier" /\ Cardinality(conns) >= Cardinality(Agents)
  /\ clock' = "ticking"
  /\ UNCHANGED <<slot, conns, next, agentVars, apVars, netVars, reported, wins>>

ClockTick ==
  /\ clock = "ticking" /\ slot < MaxTicks
  /\ slot' = slot + 1
  /\ UNCHANGED <<clock, conns, next, agentVars, apVars, netVars, reported, wins>>

(* The 120 s of wait_all are over: the coordinator ends.                   *)
ClockAbort ==
  /\ clock = "barrier" /\ Cardinality(conns) < Cardinality(Agents)
  /\ clock' = "closed"
  /\ UNCHANGED <<slot, conns, next, agentVars, apVars, netVars, reported, wins>>

(* Ctrl-C.                                                                 *)
ClockClose ==
  /\ clock = "ticking"
  /\ clock' = "closed"
  /\ UNCHANGED <<slot, conns, next, agentVars, apVars, netVars, reported, wins>>

FirstTick == slot   \* a new connection is sent the ticks from now on

(* SlotClient's constructor; a clock that is gone refuses the connection.  *)
Connect(m) ==
  /\ clock # "closed"
  /\ conns' = conns \cup {m}
  /\ next' = [next EXCEPT ![m] = FirstTick]
  /\ UNCHANGED <<clock, slot>>

(* wait_slot: the oldest unread tick, whatever the time is; None once the  *)
(* clock is closed and everything is read.                                 *)
WaitSlot(m, k) ==
  \/ /\ next[m] < slot /\ k = next[m]
     /\ next' = [next EXCEPT ![m] = @ + 1]
  \/ /\ next[m] = slot /\ clock = "closed" /\ k = NoTick
     /\ UNCHANGED next

-----------------------------------------------------------------------------
(* An agent.                                                               *)

(* AgentAckClient's constructor: HELLO to the access point.                *)
Hello(a) ==
  /\ phase[a] = "hello"
  /\ phase' = [phase EXCEPT ![a] = IF ap = "gone" THEN "dead" ELSE "join"]
  /\ UNCHANGED <<clockVars, next, left, at, fires, since, apVars, netVars, reported, wins>>

Join(a) ==
  /\ phase[a] = "join"
  /\ \/ /\ Connect(a)
        /\ phase' = [phase EXCEPT ![a] = "slot"]
     \/ /\ clock = "closed"
        /\ phase' = [phase EXCEPT ![a] = "dead"]
        /\ UNCHANGED <<clockVars, next>>
  /\ UNCHANGED <<left, at, fires, since, apVars, netVars, reported, wins>>

(* A turn of run_agent is over.                                            *)
Turn(a) ==
  /\ left' = [left EXCEPT ![a] = @ - 1]
  /\ phase' = [phase EXCEPT ![a] = IF left[a] = 1 THEN "done" ELSE "slot"]
  /\ at' = [at EXCEPT ![a] = NoTick]
  /\ since' = [since EXCEPT ![a] = 0]

(* The agent wakes up for a tick and decides not to transmit.              *)
Defer(a) ==
  /\ phase[a] = "slot"
  /\ \E k \in 0..MaxTicks : WaitSlot(a, k)
  /\ Turn(a)
  /\ UNCHANGED <<clockVars, fires, apVars, netVars, reported, wins>>

Drained(a) == 0

(* ... or to transmit: fire() drains old ACKs and announces its intent.    *)
Fire(a) ==
  /\ phase[a] = "slot"
  /\ \E k \in 0..MaxTicks : WaitSlot(a, k) /\ at' = [at EXCEPT ![a] = k]
  /\ acks' = [acks EXCEPT ![a] = Drained(a)]
  /\ txs' = [txs EXCEPT ![a] = IF ap = "gone" THEN @ ELSE @ + 1]
  /\ fires' = [fires EXCEPT ![a] = @ + 1]
  /\ phase' = [phase EXCEPT ![a] = "burst"]
  /\ UNCHANGED <<clockVars, left, since, apVars, air, reported, wins>>

(* _transmit_once: the burst is sent, and decodes some time later or never *)
(* (noise, a collision, no decoder).                                       *)
Burst(a) ==
  /\ phase[a] = "burst"
  /\ \/ UNCHANGED air
     \/ ap # "gone" /\ air' = air \cup {<<a, fires[a]>>}
  /\ phase' = [phase EXCEPT ![a] = "wait"]
  /\ since' = [since EXCEPT ![a] = slot]
  /\ UNCHANGED <<clockVars, next, left, at, fires, apVars, txs, acks, reported, wins>>

(* One recv() takes every ACK that is there.                               *)
Acked(a) ==
  /\ phase[a] = "wait" /\ acks[a] > 0
  /\ acks' = [acks EXCEPT ![a] = 0]
  /\ wins' = wins \cup {<<a, at[a], fires[a]>>}
  /\ Turn(a)
  /\ UNCHANGED <<clockVars, next, fires, apVars, txs, air, reported>>

(* The wait spans 1.2 slots, or a whole second if that is longer.          *)
Expired_Never(a) == FALSE
Expired(a) == clock = "closed" \/ slot > since[a]

(* No ACK in time, or the access point has closed the connection.          *)
NotAcked(a) ==
  /\ phase[a] = "wait" /\ acks[a] = 0
  /\ Expired(a) \/ ap = "gone"
  /\ Turn(a)
  /\ UNCHANGED <<clockVars, next, fires, apVars, netVars, reported, wins>>

-----------------------------------------------------------------------------
(* The access point.                                                       *)

(* _accept_loop: the HELLO of an agent is read.                            *)
Register(a) ==
  /\ ap = "agents" /\ phase[a] # "hello" /\ a \notin registered
  /\ registered' = registered \cup {a}
  /\ UNCHANGED <<clockVars, next, agentVars, ap, started, intents, decoded, netVars,
                 reported, wins>>

Everyone_OneShort == Cardinality(registered) + 1 >= Cardinality(Agents)
Everyone == registered = Agents

(* The process ends: its connections and its decoder end with it.          *)
ApEnds ==
  /\ ap' = "gone" /\ registered' = {} /\ started' = FALSE
  /\ intents' = {} /\ decoded' = {}
  /\ txs' = [a \in Agents |-> 0] /\ air' = {}

(* wait_all is over: on to the slots, or out.                              *)
ApServe ==
  /\ ap = "agents"
  /\ \/ /\ Everyone
        /\ ap' = "join"
        /\ UNCHANGED <<registered, started, intents, decoded, txs, air>>
     \/ ~Everyone /\ ApEnds
  /\ UNCHANGED <<clockVars, next, agentVars, acks, reported, wins>>

ApJoin ==
  /\ ap = "join"
  /\ \/ /\ Connect(AP)
        /\ ap' = "slots"
        /\ UNCHANGED <<registered, started, intents, decoded, txs, air>>
     \/ clock = "closed" /\ ApEnds /\ UNCHANGED <<clockVars, next>>
  /\ UNCHANGED <<agentVars, acks, reported, wins>>

(* _reader: a 'TX' line is noted for the slot in hand.                     *)
NoteIntent(a) ==
  /\ a \in registered /\ ap # "gone" /\ txs[a] > 0
  /\ txs' = [txs EXCEPT ![a] = @ - 1]
  /\ intents' = intents \cup {a}
  /\ UNCHANGED <<clockVars, next, agentVars, ap, registered, started, decoded, acks, air,
                 reported, wins>>

(* The decoder thread, which serve() starts before it joins the clock,     *)
(* reports a burst of an agent.                                            *)
Decode(b) ==
  /\ b \in air /\ ap \in {"join", "slots"}
  /\ air' = air \ {b}
  /\ decoded' = decoded \cup {b[1]}
  /\ reported' = reported \cup {b}
  /\ UNCHANGED <<clockVars, next, agentVars, ap, registered, started, intents, txs, acks, wins>>

(* Alone in the slot and decoded.                                          *)
Winners == IF Cardinality(intents) = 1 THEN intents \cap decoded ELSE {}

Reset_Kept(s) == s
Reset(s) == {}

(* _arbitrate: the slot that just ended is decided, the sets start afresh. *)
Arbitrate ==
  /\ acks' = [a \in Agents |->
                IF a \in Winners /\ phase[a] \notin {"done", "dead"}
                  THEN acks[a] + 1 ELSE acks[a]]
  /\ intents' = {}
  /\ decoded' = Reset(decoded)

(* A tick ends the slot before it; the first one ends nothing.             *)
ApTick ==
  /\ ap = "slots"
  /\ \E k \in 0..(MaxTicks - 1) : WaitSlot(AP, k)
  /\ started' = TRUE
  /\ IF started THEN Arbitrate ELSE UNCHANGED <<acks, intents, decoded>>
  /\ UNCHANGED <<clockVars, agentVars, ap, registered, txs, air, reported, wins>>

(* "slot clock closed -- stopping": every connection is closed.            *)
ApStop ==
  /\ ap = "slots" /\ WaitSlot(AP, NoTick)
  /\ ApEnds
  /\ UNCHANGED <<clockVars, agentVars, acks, reported, wins>>

-----------------------------------------------------------------------------
AgentStep(a) == \/ Hello(a) \/ Join(a) \/ Defer(a) \/ Fire(a) \/ Burst(a)
                \/ Acked(a) \/ NotAcked(a)
ClockStep == ClockStart \/ ClockAbort \/ ClockTick \/ (slot = MaxTicks /\ ClockClose)
ApStep == ApServe \/ ApJoin \/ ApTick \/ ApStop

Next == \/ \E a \in Agents : AgentStep(a) \/ Register(a) \/ NoteIntent(a)
        \/ ClockStep \/ ClockClose
        \/ ApStep
        \/ \E b \in air : Decode(b)

Spec == Init /\ [][Next]_vars
Fairness == WF_vars(ClockStep) /\ \A a \in Agents : WF_vars(AgentStep(a))

-----------------------------------------------------------------------------
(* Before the first tick every agent is known to the access point or its   *)
(* HELLO is on the way there, although the two barriers do not know of     *)
(* each other and the clock takes the access point for an agent: nobody is *)
(* left out because the slots began without it.                            *)
NoTickBeforeHello == slot > 0 => \A a \in Agents : phase[a] # "hello"

(* An agent never counts more deliveries than bursts of its were decoded,  *)
(* however late ACKs, intents and decoder reports arrive: a delivery may   *)
(* be booked on the wrong burst, but none is invented.                     *)
DeliveriesAreDecodes ==
  \A a \in Agents : Cardinality({w \in wins : w[1] = a})
                      <= Cardinality({b \in reported : b[1] = a})

(* An agent takes all its decisions and ends, whatever is lost and whoever *)
(* stops: the waits of agent, access point and clock form no circle that   *)
(* no timeout breaks.                                                      *)
AgentsEnd == <>(\A a \in Agents : phase[a] \in {"done", "dead"})

=============================================================================
