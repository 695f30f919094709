------------------------ MODULE SlottedAccessProofs ------------------------
(***************************************************************************)
(* Proofs about the slotted access, for any set of agents, any number of   *)
(* decisions each, and any number of ticks: nobody is left out when the    *)
(* slots begin, and no delivery is invented; and about what stands in for  *)
(* it: the simulated network has one voice and teaches with what is of the *)
(* episode, the mock medium answers about the slot it was asked about.  And*)
(* about the fires of the programs without slots: what a TRUE is worth.    *)
(***************************************************************************)
EXTENDS AgentMedia, WarmFires, Integers, FiniteSetTheorems, SequenceTheorems,
        TLAPS

Greeted(a) == phase[a] # "hello"

(* The clock may take the access point for an agent, but the access point  *)
(* comes only when it has everybody's HELLO.                               *)
RegisteredGreeted == registered \subseteq {a \in Agents : Greeted(a)}
JoinedGreeted == \A a \in Agents : a \in conns => Greeted(a)
ApIsLast == ap = "join" \/ AP \in conns => \A a \in Agents : Greeted(a)
TickingGreeted == clock = "ticking" \/ slot > 0 => \A a \in Agents : Greeted(a)

BarrierInv ==
  /\ phase \in [Agents -> {"hello", "join", "slot", "burst", "wait", "done", "dead"}]
  /\ slot \in Nat /\ conns \subseteq Members
  /\ ap \in {"agents", "join", "slots", "gone"}
  /\ RegisteredGreeted /\ JoinedGreeted /\ ApIsLast /\ TickingGreeted

barrierVars == <<clock, slot, conns, phase, ap, registered>>

(* What the barriers say does not change with anything else.               *)
LEMMA BarrierFrame ==
  ASSUME BarrierInv, UNCHANGED barrierVars
  PROVE  BarrierInv'
BY DEF BarrierInv, barrierVars, RegisteredGreeted, JoinedGreeted, ApIsLast,
       TickingGreeted, Greeted

(* An agent that goes on from its HELLO never says it again.               *)
LEMMA AgentKeepsBarrier ==
  ASSUME BarrierInv, NEW a \in Agents, AgentStep(a)
  PROVE  BarrierInv'
<1>1. /\ UNCHANGED <<clock, slot, ap, registered>>
      /\ conns' \in {conns, conns \cup {a}}
      /\ \E s \in {"join", "slot", "burst", "wait", "done", "dead"} :
           phase' = [phase EXCEPT ![a] = s]
  <2>1. CASE Hello(a)
    BY <2>1 DEF Hello, clockVars, apVars
  <2>2. CASE Join(a)
    BY <2>2 DEF Join, Connect, clockVars, apVars
  <2>3. CASE Defer(a) \/ Acked(a) \/ NotAcked(a)
    BY <2>3 DEF Defer, Acked, NotAcked, Turn, clockVars, apVars
  <2>4. CASE Fire(a) \/ Burst(a)
    BY <2>4 DEF Fire, Burst, clockVars, apVars
  <2> QED BY <2>1, <2>2, <2>3, <2>4 DEF AgentStep
<1>2. phase' \in [Agents -> {"hello", "join", "slot", "burst", "wait", "done", "dead"}]
  BY <1>1 DEF BarrierInv
<1>3. \A b \in Agents : Greeted(b) => Greeted(b)'
  BY <1>1 DEF BarrierInv, Greeted
<1>4. Greeted(a)' /\ a # AP /\ a \in Members
  BY <1>1, SlottedAccessAssumption DEF BarrierInv, Greeted, Members
<1>5. conns' \subseteq Members /\ RegisteredGreeted' /\ JoinedGreeted'
  BY <1>1, <1>3, <1>4 DEF BarrierInv, RegisteredGreeted, JoinedGreeted, Greeted
<1>6. ApIsLast' /\ TickingGreeted'
  BY <1>1, <1>3, <1>4 DEF BarrierInv, ApIsLast, TickingGreeted
<1> QED BY <1>1, <1>2, <1>5, <1>6 DEF BarrierInv

(* The clock starts with as many connections as there are agents: they are *)
(* the agents', or one is the access point's.                              *)
LEMMA EnoughIsEveryone ==
  ASSUME BarrierInv, Cardinality(conns) >= Cardinality(Agents)
  PROVE  \A a \in Agents : Greeted(a)
<1>1. CASE AP \in conns
  BY <1>1 DEF BarrierInv, ApIsLast
<1>2. CASE AP \notin conns
  <2>1. conns \subseteq Agents
    BY <1>2 DEF BarrierInv, Members
  <2>2. IsFiniteSet(conns) /\ Cardinality(conns) <= Cardinality(Agents)
        /\ (Cardinality(conns) = Cardinality(Agents) => conns = Agents)
    BY <2>1, FS_Subset, SlottedAccessAssumption
  <2>3. Cardinality(conns) \in Nat /\ Cardinality(Agents) \in Nat
    BY <2>2, FS_CardinalityType, SlottedAccessAssumption
  <2>4. conns = Agents
    BY <2>2, <2>3
  <2> QED BY <2>4 DEF BarrierInv, JoinedGreeted
<1> QED BY <1>1, <1>2

LEMMA ClockKeepsBarrier ==
  ASSUME BarrierInv, ClockStep \/ ClockClose
  PROVE  BarrierInv'
<1>1. CASE ClockStart
  <2>1. \A a \in Agents : Greeted(a)
    BY <1>1, EnoughIsEveryone DEF ClockStart
  <2> QED
    BY <1>1, <2>1 DEF ClockStart, BarrierInv, RegisteredGreeted, JoinedGreeted, ApIsLast,
                      TickingGreeted, Greeted, agentVars, apVars
<1>2. CASE ClockTick \/ ClockAbort \/ ClockClose
  BY <1>2 DEF ClockTick, ClockAbort, ClockClose, BarrierInv, RegisteredGreeted,
              JoinedGreeted, ApIsLast, TickingGreeted, Greeted, agentVars, apVars
<1> QED BY <1>1, <1>2 DEF ClockStep

LEMMA ApKeepsBarrier ==
  ASSUME BarrierInv, ApStep
  PROVE  BarrierInv'
<1>1. CASE ApServe
  <2>1. ap' \in {"join", "gone"} /\ (ap' = "join" => registered = Agents)
        /\ (registered' = registered \/ registered' = {})
        /\ UNCHANGED <<clock, slot, conns, phase>>
    BY <1>1 DEF ApServe, ApEnds, Everyone, clockVars, agentVars
  <2> QED
    BY <2>1 DEF BarrierInv, RegisteredGreeted, JoinedGreeted, ApIsLast, TickingGreeted,
                Greeted
<1>2. CASE ApJoin
  <2>1. ap = "join" /\ ap' \in {"slots", "gone"}
        /\ (registered' = registered \/ registered' = {})
        /\ conns' \in {conns, conns \cup {AP}}
        /\ UNCHANGED <<clock, slot, phase>>
    BY <1>2 DEF ApJoin, ApEnds, Connect, clockVars, agentVars
  <2> QED
    BY <2>1, SlottedAccessAssumption
       DEF BarrierInv, RegisteredGreeted, JoinedGreeted, ApIsLast, TickingGreeted,
           Greeted, Members
<1>3. CASE ApTick
  BY <1>3, BarrierFrame DEF ApTick, barrierVars, clockVars, agentVars
<1>4. CASE ApStop
  <2>1. ap' = "gone" /\ registered' = {} /\ UNCHANGED <<clock, slot, conns, phase>>
    BY <1>4 DEF ApStop, ApEnds, clockVars, agentVars
  <2> QED
    BY <2>1 DEF BarrierInv, RegisteredGreeted, JoinedGreeted, ApIsLast, TickingGreeted,
                Greeted
<1> QED BY <1>1, <1>2, <1>3, <1>4 DEF ApStep

LEMMA BarrierStep == BarrierInv /\ [Next]_vars => BarrierInv'
<1> SUFFICES ASSUME BarrierInv, [Next]_vars PROVE BarrierInv'
  OBVIOUS
<1>1. CASE \E a \in Agents : AgentStep(a)
  BY <1>1, AgentKeepsBarrier
<1>2. CASE \E a \in Agents : Register(a)
  BY <1>2 DEF Register, BarrierInv, RegisteredGreeted, JoinedGreeted, ApIsLast,
              TickingGreeted, Greeted, clockVars, agentVars
<1>3. CASE (\E a \in Agents : NoteIntent(a)) \/ (\E b \in air : Decode(b)) \/ UNCHANGED vars
  BY <1>3, BarrierFrame DEF NoteIntent, Decode, vars, barrierVars, clockVars, agentVars,
                            apVars
<1>4. CASE ClockStep \/ ClockClose
  BY <1>4, ClockKeepsBarrier
<1>5. CASE ApStep
  BY <1>5, ApKeepsBarrier
<1> QED BY <1>1, <1>2, <1>3, <1>4, <1>5 DEF Next

(* Before the first tick every agent has said HELLO to the access point:   *)
(* the barriers of the clock (slot_sync.py) and of the access point        *)
(* (ap_multi.py), which do not know of each other, leave nobody out.       *)
THEOREM NobodyLeftOut == Spec => []NoTickBeforeHello
<1>1. Init => BarrierInv
  BY DEF Init, BarrierInv, RegisteredGreeted, JoinedGreeted, ApIsLast, TickingGreeted,
         Members
<1>2. BarrierInv => NoTickBeforeHello
  BY DEF BarrierInv, TickingGreeted, NoTickBeforeHello, Greeted
<1> QED BY <1>1, <1>2, BarrierStep, PTL DEF Spec

-----------------------------------------------------------------------------
(* The books: an agent's wins, its unread ACKs and the report the access   *)
(* point has not yet used are never more than the bursts reported.         *)
Wins(a) == {w \in wins : w[1] = a}
Reports(a) == {b \in reported : b[1] = a}
InHand(a) == IF a \in decoded THEN 1 ELSE 0

Books ==
  \A a \in Agents :
    /\ IsFiniteSet(Wins(a)) /\ IsFiniteSet(Reports(a))
    /\ Cardinality(Wins(a)) + acks[a] + InHand(a) <= Cardinality(Reports(a))

(* A burst is reported once: it leaves the air when it is, and the bursts  *)
(* of an agent are numbered.                                               *)
Numbered ==
  /\ \A b \in air \cup reported :
       \E a \in Agents, k \in Nat :
         b = <<a, k>> /\ k <= fires[a] /\ (phase[a] = "burst" => k < fires[a])
  /\ air \cap reported = {}

BooksInv ==
  /\ DOMAIN phase = Agents
  /\ acks \in [Agents -> Nat] /\ fires \in [Agents -> Nat]
  /\ Books /\ Numbered

booksVars == <<wins, reported, acks, decoded, air, fires, phase>>

LEMMA BooksFrame ==
  ASSUME BooksInv, UNCHANGED booksVars
  PROVE  BooksInv'
BY DEF BooksInv, booksVars, Books, Wins, Reports, InHand, Numbered

LEMMA BooksTypes ==
  ASSUME BooksInv, NEW a \in Agents
  PROVE  /\ Cardinality(Wins(a)) \in Nat /\ Cardinality(Reports(a)) \in Nat
         /\ acks[a] \in Nat /\ InHand(a) \in Nat /\ fires[a] \in Nat
<1>1. IsFiniteSet(Wins(a)) /\ IsFiniteSet(Reports(a))
  BY DEF BooksInv, Books
<1> QED BY <1>1, FS_CardinalityType DEF BooksInv, InHand

(* Whatever is taken off the books keeps them: fewer ACKs, no report in    *)
(* hand, fewer bursts on the air, and agents that end or start their turn. *)
LEMMA LessKeepsBooks ==
  ASSUME BooksInv, UNCHANGED <<wins, reported, fires>>,
         acks' \in [Agents -> Nat], \A a \in Agents : acks'[a] <= acks[a],
         decoded' \subseteq decoded, air' \subseteq air,
         DOMAIN phase' = Agents,
         \A a \in Agents : phase'[a] = "burst" => phase[a] = "burst"
  PROVE  BooksInv'
<1>1. Books'
  <2> SUFFICES ASSUME NEW a \in Agents
               PROVE  (/\ IsFiniteSet(Wins(a)) /\ IsFiniteSet(Reports(a))
                       /\ Cardinality(Wins(a)) + acks[a] + InHand(a)
                            <= Cardinality(Reports(a)))'
    BY DEF Books
  <2>1. Wins(a)' = Wins(a) /\ Reports(a)' = Reports(a)
    BY DEF Wins, Reports
  <2>2. InHand(a)' \in Nat /\ InHand(a)' <= InHand(a)
    BY DEF InHand
  <2>3. acks'[a] \in Nat /\ acks'[a] <= acks[a]
    OBVIOUS
  <2>4. Cardinality(Wins(a)) + acks[a] + InHand(a) <= Cardinality(Reports(a))
        /\ IsFiniteSet(Wins(a)) /\ IsFiniteSet(Reports(a))
    BY DEF BooksInv, Books
  <2>5. Cardinality(Wins(a)) + acks'[a] + InHand(a)' <= Cardinality(Reports(a))
    BY <2>2, <2>3, <2>4, BooksTypes
  <2> QED BY <2>1, <2>4, <2>5
<1>2. Numbered'
  BY DEF BooksInv, Numbered
<1> QED BY <1>1, <1>2 DEF BooksInv

LEMMA AgentKeepsBooks ==
  ASSUME BooksInv, NEW a \in Agents, AgentStep(a)
  PROVE  BooksInv'
<1>1. CASE Hello(a) \/ Join(a) \/ Defer(a) \/ NotAcked(a)
  <2>1. UNCHANGED <<wins, reported, acks, decoded, air, fires>>
    BY <1>1 DEF Hello, Join, Defer, NotAcked, Turn, apVars, netVars
  <2>2. DOMAIN phase' = Agents /\ \A b \in Agents : phase'[b] = "burst" => phase[b] = "burst"
    BY <1>1 DEF Hello, Join, Defer, NotAcked, Turn, BooksInv
  <2>3. acks' \in [Agents -> Nat] /\ \A b \in Agents : acks'[b] <= acks[b]
    BY <2>1 DEF BooksInv
  <2> QED BY <2>1, <2>2, <2>3, LessKeepsBooks
<1>2. CASE Fire(a)
  <2>1. /\ UNCHANGED <<wins, reported, decoded, air>>
        /\ acks' = [acks EXCEPT ![a] = 0] /\ fires' = [fires EXCEPT ![a] = @ + 1]
        /\ phase' = [phase EXCEPT ![a] = "burst"]
    BY <1>2 DEF Fire, Drained, apVars
  <2>2. Books'
    <3> SUFFICES ASSUME NEW b \in Agents
                 PROVE  (/\ IsFiniteSet(Wins(b)) /\ IsFiniteSet(Reports(b))
                         /\ Cardinality(Wins(b)) + acks[b] + InHand(b)
                              <= Cardinality(Reports(b)))'
      BY DEF Books
    <3>1. Wins(b)' = Wins(b) /\ Reports(b)' = Reports(b) /\ InHand(b)' = InHand(b)
      BY <2>1 DEF Wins, Reports, InHand
    <3>2. acks'[b] \in Nat /\ acks'[b] <= acks[b]
      BY <2>1 DEF BooksInv
    <3>3. Cardinality(Wins(b)) + acks[b] + InHand(b) <= Cardinality(Reports(b))
          /\ IsFiniteSet(Wins(b)) /\ IsFiniteSet(Reports(b))
      BY DEF BooksInv, Books
    <3>4. Cardinality(Wins(b)) + acks'[b] + InHand(b) <= Cardinality(Reports(b))
      BY <3>2, <3>3, BooksTypes
    <3> QED BY <3>1, <3>3, <3>4
  <2>3. Numbered'
    <3> SUFFICES ASSUME NEW b \in air \cup reported
                 PROVE  \E c \in Agents, k \in Nat :
                          /\ b = <<c, k>> /\ k <= fires'[c]
                          /\ phase'[c] = "burst" => k < fires'[c]
      BY <2>1 DEF BooksInv, Numbered
    <3>1. PICK c \in Agents, k \in Nat : /\ b = <<c, k>> /\ k <= fires[c]
                                         /\ phase[c] = "burst" => k < fires[c]
      BY DEF BooksInv, Numbered
    <3>2. k <= fires'[c] /\ (phase'[c] = "burst" => k < fires'[c])
      BY <2>1, <3>1, BooksTypes DEF BooksInv
    <3> QED BY <3>1, <3>2
  <2> QED BY <2>1, <2>2, <2>3 DEF BooksInv
<1>3. CASE Burst(a)
  <2>1. /\ UNCHANGED <<wins, reported, decoded, acks, fires>>
        /\ air' = air \/ air' = air \cup {<<a, fires[a]>>}
        /\ phase[a] = "burst" /\ phase' = [phase EXCEPT ![a] = "wait"]
    BY <1>3 DEF Burst, apVars
  <2>2. Books'
    BY <2>1 DEF BooksInv, Books, Wins, Reports, InHand
  <2>3. <<a, fires[a]>> \notin reported
    BY <2>1, BooksTypes DEF BooksInv, Numbered
  <2>4. Numbered'
    <3>1. \A b \in air \cup reported :
            \E c \in Agents, k \in Nat :
              /\ b = <<c, k>> /\ k <= fires'[c]
              /\ phase'[c] = "burst" => k < fires'[c]
      BY <2>1 DEF BooksInv, Numbered
    <3>2. fires[a] \in Nat /\ fires[a] <= fires'[a] /\ phase'[a] # "burst"
      BY <2>1, BooksTypes DEF BooksInv
    <3> QED BY <2>1, <2>3, <3>1, <3>2 DEF BooksInv, Numbered
  <2> QED BY <2>1, <2>2, <2>4 DEF BooksInv
<1>4. CASE Acked(a)
  <2> DEFINE w == <<a, at[a], fires[a]>>
  <2>1. /\ acks[a] > 0 /\ acks' = [acks EXCEPT ![a] = 0]
        /\ wins' = wins \cup {w}
        /\ UNCHANGED <<fires, decoded, air, reported>>
        /\ DOMAIN phase' = Agents /\ \A b \in Agents : phase'[b] = "burst" => phase[b] = "burst"
    BY <1>4 DEF Acked, Turn, apVars, BooksInv
  <2>2. Books'
    <3> SUFFICES ASSUME NEW b \in Agents
                 PROVE  (/\ IsFiniteSet(Wins(b)) /\ IsFiniteSet(Reports(b))
                         /\ Cardinality(Wins(b)) + acks[b] + InHand(b)
                              <= Cardinality(Reports(b)))'
      BY DEF Books
    <3>1. Reports(b)' = Reports(b) /\ InHand(b)' = InHand(b)
      BY <2>1 DEF Reports, InHand
    <3>2. /\ IsFiniteSet(Wins(b)) /\ IsFiniteSet(Reports(b))
          /\ Cardinality(Wins(b)) + acks[b] + InHand(b) <= Cardinality(Reports(b))
      BY DEF BooksInv, Books
    <3>3. CASE b # a
      <4>1. Wins(b)' = Wins(b) /\ acks'[b] = acks[b]
        BY <2>1, <3>3 DEF Wins, BooksInv
      <4> QED BY <3>1, <3>2, <4>1
    <3>4. CASE b = a
      <4>1. Wins(b)' = Wins(b) \cup {w} /\ acks'[b] = 0
        BY <2>1, <3>4 DEF Wins, BooksInv
      <4>2. IsFiniteSet(Wins(b)') /\ Cardinality(Wins(b)') \in Nat
            /\ Cardinality(Wins(b)') <= Cardinality(Wins(b)) + 1
        <5>1. IsFiniteSet(Wins(b) \cup {w})
              /\ Cardinality(Wins(b) \cup {w})
                   = IF w \in Wins(b) THEN Cardinality(Wins(b)) ELSE Cardinality(Wins(b)) + 1
          BY <3>2, FS_AddElement
        <5> QED BY <4>1, <5>1, BooksTypes
      <4>3. Cardinality(Wins(b)') + acks'[b] + InHand(b) <= Cardinality(Reports(b))
        BY <2>1, <3>2, <3>4, <4>1, <4>2, BooksTypes
      <4> QED BY <3>1, <3>2, <4>2, <4>3
    <3> QED BY <3>3, <3>4
  <2>3. Numbered'
    BY <2>1 DEF BooksInv, Numbered
  <2>4. acks' \in [Agents -> Nat]
    BY <2>1 DEF BooksInv
  <2> QED BY <2>1, <2>2, <2>3, <2>4 DEF BooksInv
<1> QED BY <1>1, <1>2, <1>3, <1>4 DEF AgentStep

(* Arbitration turns the report it has in hand into at most one ACK.       *)
LEMMA ArbitrateKeepsBooks ==
  ASSUME BooksInv, Arbitrate, UNCHANGED <<wins, reported, air, fires, phase>>
  PROVE  BooksInv'
<1>1. decoded' = {} /\ \A a \in Agents :
        acks'[a] = acks[a] \/ (a \in decoded /\ acks'[a] = acks[a] + 1)
  BY DEF Arbitrate, Winners, Reset
<1>2. acks' \in [Agents -> Nat]
  BY DEF Arbitrate, BooksInv
<1>3. Books'
  <2> SUFFICES ASSUME NEW a \in Agents
               PROVE  (/\ IsFiniteSet(Wins(a)) /\ IsFiniteSet(Reports(a))
                       /\ Cardinality(Wins(a)) + acks[a] + InHand(a)
                            <= Cardinality(Reports(a)))'
    BY DEF Books
  <2>1. Wins(a)' = Wins(a) /\ Reports(a)' = Reports(a) /\ InHand(a)' = 0
    BY <1>1 DEF Wins, Reports, InHand
  <2>2. /\ IsFiniteSet(Wins(a)) /\ IsFiniteSet(Reports(a))
        /\ Cardinality(Wins(a)) + acks[a] + InHand(a) <= Cardinality(Reports(a))
    BY DEF BooksInv, Books
  <2>3. acks'[a] \in Nat /\ acks'[a] <= acks[a] + InHand(a)
    BY <1>1, <1>2, BooksTypes DEF InHand
  <2>4. Cardinality(Wins(a)) + acks'[a] + 0 <= Cardinality(Reports(a))
    BY <2>2, <2>3, BooksTypes
  <2> QED BY <2>1, <2>2, <2>4
<1>4. Numbered'
  BY DEF BooksInv, Numbered
<1> QED BY <1>2, <1>3, <1>4 DEF BooksInv

LEMMA DecodeKeepsBooks ==
  ASSUME BooksInv, NEW b \in air, Decode(b)
  PROVE  BooksInv'
<1>1. /\ air' = air \ {b} /\ decoded' = decoded \cup {b[1]}
      /\ reported' = reported \cup {b} /\ UNCHANGED <<wins, acks, fires, phase>>
  BY DEF Decode, agentVars
<1>2. b \notin reported
  BY DEF BooksInv, Numbered
<1>3. Books'
  <2> SUFFICES ASSUME NEW a \in Agents
               PROVE  (/\ IsFiniteSet(Wins(a)) /\ IsFiniteSet(Reports(a))
                       /\ Cardinality(Wins(a)) + acks[a] + InHand(a)
                            <= Cardinality(Reports(a)))'
    BY DEF Books
  <2>1. /\ IsFiniteSet(Wins(a)) /\ IsFiniteSet(Reports(a))
        /\ Cardinality(Wins(a)) + acks[a] + InHand(a) <= Cardinality(Reports(a))
        /\ Wins(a)' = Wins(a)
    BY <1>1 DEF BooksInv, Books, Wins
  <2>2. CASE b[1] # a
    <3>1. Reports(a)' = Reports(a) /\ InHand(a)' = InHand(a)
      BY <1>1, <2>2 DEF Reports, InHand
    <3> QED BY <1>1, <2>1, <3>1
  <2>3. CASE b[1] = a
    <3>1. Reports(a)' = Reports(a) \cup {b} /\ b \notin Reports(a)
          /\ InHand(a)' = 1 /\ InHand(a)' <= InHand(a) + 1
      BY <1>1, <1>2, <2>3 DEF Reports, InHand
    <3>2. IsFiniteSet(Reports(a)') /\ Cardinality(Reports(a)') = Cardinality(Reports(a)) + 1
      BY <2>1, <3>1, FS_AddElement
    <3>3. Cardinality(Wins(a)) + acks[a] + InHand(a)' <= Cardinality(Reports(a)')
      BY <2>1, <3>1, <3>2, BooksTypes
    <3> QED BY <1>1, <2>1, <3>2, <3>3
  <2> QED BY <2>2, <2>3
<1>4. Numbered'
  BY <1>1 DEF BooksInv, Numbered
<1> QED BY <1>1, <1>3, <1>4 DEF BooksInv

LEMMA ApKeepsBooks ==
  ASSUME BooksInv, ApStep
  PROVE  BooksInv'
<1>1. CASE ApServe \/ ApJoin \/ ApStop
  <2>1. /\ UNCHANGED <<wins, reported, acks, fires, phase>>
        /\ decoded' \subseteq decoded /\ air' \subseteq air
    BY <1>1 DEF ApServe, ApJoin, ApStop, ApEnds, agentVars
  <2>2. acks' \in [Agents -> Nat] /\ \A a \in Agents : acks'[a] <= acks[a]
    BY <2>1 DEF BooksInv
  <2>3. DOMAIN phase' = Agents
    BY <2>1 DEF BooksInv
  <2> QED BY <2>1, <2>2, <2>3, LessKeepsBooks
<1>2. CASE ApTick
  <2>1. UNCHANGED <<wins, reported, air, fires, phase>>
        /\ (Arbitrate \/ UNCHANGED <<acks, decoded>>)
    BY <1>2 DEF ApTick, agentVars
  <2> QED BY <2>1, ArbitrateKeepsBooks, BooksFrame DEF booksVars
<1> QED BY <1>1, <1>2 DEF ApStep

LEMMA BooksStep == BooksInv /\ [Next]_vars => BooksInv'
<1> SUFFICES ASSUME BooksInv, [Next]_vars PROVE BooksInv'
  OBVIOUS
<1>1. CASE \E a \in Agents : AgentStep(a)
  BY <1>1, AgentKeepsBooks
<1>2. CASE (\E a \in Agents : Register(a) \/ NoteIntent(a)) \/ UNCHANGED vars
  BY <1>2, BooksFrame DEF Register, NoteIntent, vars, booksVars, agentVars, apVars, netVars
<1>3. CASE \E b \in air : Decode(b)
  BY <1>3, DecodeKeepsBooks
<1>4. CASE ClockStep \/ ClockClose
  BY <1>4, BooksFrame DEF ClockStep, ClockStart, ClockTick, ClockAbort, ClockClose,
                          booksVars, agentVars, apVars, netVars
<1>5. CASE ApStep
  BY <1>5, ApKeepsBooks
<1> QED BY <1>1, <1>2, <1>3, <1>4, <1>5 DEF Next

(* An agent never counts more deliveries (agent_node.py) than the access   *)
(* point decoded bursts of its (ap_multi.py), however late ACKs, intents   *)
(* and reports of the decoder are.                                         *)
THEOREM NoneInvented == Spec => []DeliveriesAreDecodes
<1>1. Init => BooksInv
  <2> SUFFICES ASSUME Init PROVE BooksInv
    OBVIOUS
  <2>1. \A a \in Agents : Wins(a) = {} /\ Reports(a) = {} /\ InHand(a) = 0 /\ acks[a] = 0
    BY DEF Init, Wins, Reports, InHand
  <2>2. Books
    BY <2>1, FS_EmptySet DEF Books
  <2> QED BY <2>2 DEF Init, BooksInv, Numbered
<1>2. BooksInv => DeliveriesAreDecodes
  <2> SUFFICES ASSUME BooksInv, NEW a \in Agents
               PROVE  Cardinality(Wins(a)) <= Cardinality(Reports(a))
    BY DEF DeliveriesAreDecodes, Wins, Reports
  <2>1. Cardinality(Wins(a)) + acks[a] + InHand(a) <= Cardinality(Reports(a))
    BY DEF BooksInv, Books
  <2> QED BY <2>1, BooksTypes
<1> QED BY <1>1, <1>2, BooksStep, PTL DEF Spec

-----------------------------------------------------------------------------
(* The simulated network.                                                  *)

AirTypes ==
  /\ s_kind \in [Agents -> {"agent", "aloha", "csma", "qcsma"}]
  /\ s_t_flag \in [Agents -> BOOLEAN] /\ s_ack_flag \in [Agents -> BOOLEAN]
  /\ s_backoff_flag \in [Agents -> BOOLEAN] /\ s_ch_usage \in BOOLEAN
  /\ s_t_counter \in [Agents -> Nat] /\ s_ack_counter \in [Agents -> Nat]
  /\ s_cca_counter \in [Agents -> Nat] /\ s_queue \in [Agents -> Int]
  /\ s_phase \in {"arrive", "channel", "device", "act", "learn", "settle", "over"}

(* Counters run only for what goes on, and from the channel's step on      *)
(* that of a transmission has begun.                                       *)
AtRest ==
  \A d \in Agents : /\ ~s_t_flag[d] => s_t_counter[d] = 0
                    /\ ~s_ack_flag[d] => s_ack_counter[d] = 0
Begun == s_phase \in {"device", "act"} => \A d \in Agents : s_t_flag[d] => s_t_counter[d] > 0

(* Who can be heard: in the channel from the step after the first on, and  *)
(* with the ACK after the SIFS.                                            *)
Sounds(d) == \/ s_t_flag[d] /\ s_t_counter[d] > 0
             \/ s_ack_flag[d] /\ s_ack_counter[d] > SIFS
InUse == s_phase = "device" /\ (\E d \in Agents : Sounds(d)) => s_ch_usage

(* Nobody has sensed silence, or backs off, while somebody is heard; nor   *)
(* for longer than an ACK has been waited for.                             *)
Silenced ==
  s_phase # "device" /\ (\E d \in Agents : Sounds(d))
    => \A e \in Agents : s_cca_counter[e] = 0 /\ ~s_backoff_flag[e]
Deferred ==
  \A d, e \in Agents : s_ack_flag[d] =>
    /\ ~s_backoff_flag[e] /\ s_cca_counter[e] <= s_ack_counter[d]
    /\ s_phase = "device" => s_cca_counter[e] < s_ack_counter[d]

(* Only who has a packet senses the channel.                               *)
HasPacket ==
  \A d \in Agents : s_cca_counter[d] > 0 \/ s_backoff_flag[d] => s_queue[d] > 0

OneVoiceInv ==
  /\ AirTypes /\ AtRest /\ Begun /\ InUse /\ Silenced /\ Deferred /\ HasPacket
  /\ Sim!OneVoice

(* What an agent has of its batch is of this episode.                      *)
BatchInv ==
  /\ s_episode \in Nat /\ s_algorithm \in {"a2c", "dppo", "ctde"}
  /\ s_samples_collected \in [Agents -> 0..(NumB - 1)]
  /\ s_update \in [Agents -> BOOLEAN]
  /\ s_rows \in [Agents -> [1..NumB -> Nat]]
  /\ \A a \in Agents : \A i \in 1..NumB :
       s_update[a] \/ i <= s_samples_collected[a] => s_rows[a][i] = s_episode
  /\ Sim!LearnsThisEpisode

simAir ==
  <<s_kind, s_phase, s_ch_usage, s_cca_counter, s_backoff_flag, s_t_flag, s_t_counter, s_ack_flag,
    s_ack_counter, s_queue>>

(* What the settings are like, from the assumption.                        *)
LEMMA Settings ==
  /\ Agents \subseteq Nat /\ IsFiniteSet(Agents)
  /\ SIFS \in Nat /\ DIFS \in Nat /\ SIFS < DIFS
  /\ TLen \in Nat /\ TLen > 0 /\ ACK \in Nat /\ ACK > 0 /\ NumB \in Nat /\ NumB > 0
  /\ NumE \in Nat
  /\ Algorithms \subseteq {"a2c", "dppo", "ctde"}
  /\ Kinds \subseteq [Agents -> {"agent", "aloha", "csma", "qcsma"}]
BY AgentMediaAssumption, SlottedAccessAssumption
   DEF AgentMediaAssumption, SlottedAccessAssumption, Sim!Configured

LEMMA SimCounts == \A S : Sim!Cardinality(S) = Cardinality(S)
BY DEF Sim!Cardinality, Cardinality

(* Nothing else changes what is in the air.                                *)
LEMMA AirFrame ==
  ASSUME OneVoiceInv, UNCHANGED simAir
  PROVE  OneVoiceInv'
<1>1. AirTypes' /\ AtRest' /\ Begun'
  BY DEF OneVoiceInv, simAir, AirTypes, AtRest, Begun
<1>2. \A d : Sounds(d)' <=> Sounds(d)
  BY DEF simAir, Sounds
<1>3. InUse' /\ Silenced'
  BY <1>2 DEF OneVoiceInv, simAir, InUse, Silenced
<1>4. Deferred' /\ HasPacket'
  BY DEF OneVoiceInv, simAir, Deferred, HasPacket
<1>5. Sim!OneVoice'
  BY DEF OneVoiceInv, simAir, Sim!OneVoice, Sim!AssertsHold
<1> QED BY <1>1, <1>3, <1>4, <1>5 DEF OneVoiceInv

(* An arrival only lengthens a queue.                                      *)
LEMMA ArriveKeepsVoice ==
  ASSUME OneVoiceInv, Sim!Arrive
  PROVE  OneVoiceInv'
<1>1. /\ s_phase = "arrive" /\ s_phase' = "channel"
      /\ UNCHANGED <<s_kind, s_ch_usage, s_cca_counter, s_backoff_flag, s_t_flag, s_t_counter,
                     s_ack_flag, s_ack_counter>>
  BY DEF Sim!Arrive, Sim!run, Sim!backoff, Sim!air
<1>2. s_queue' \in [Agents -> Int] /\ \A d \in Agents : s_queue'[d] >= s_queue[d]
  BY DEF OneVoiceInv, AirTypes, Sim!Arrive
<1>3. AirTypes' /\ AtRest' /\ Begun'
  BY <1>1, <1>2 DEF OneVoiceInv, AirTypes, AtRest, Begun
<1>4. \A d : Sounds(d)' <=> Sounds(d)
  BY <1>1 DEF Sounds
<1>5. InUse' /\ Silenced' /\ Deferred'
  <2>1. InUse' /\ Silenced'
    BY <1>1, <1>4 DEF OneVoiceInv, InUse, Silenced
  <2>2. Deferred'
    BY <1>1 DEF OneVoiceInv, Deferred
  <2> QED BY <2>1, <2>2
<1>6. \A d \in Agents : s_queue[d] > 0 => s_queue'[d] > 0
  BY <1>2 DEF OneVoiceInv, AirTypes
<1>7. HasPacket'
  BY <1>1, <1>6 DEF OneVoiceInv, HasPacket
<1>8. Sim!OneVoice'
  BY <1>1, <1>6 DEF OneVoiceInv, Sim!OneVoice, Sim!AssertsHold
<1> QED BY <1>3, <1>5, <1>7, <1>8 DEF OneVoiceInv

(* The counters move together, and whoever is heard makes the channel used.*)
LEMMA ChannelKeepsVoice ==
  ASSUME OneVoiceInv, Sim!UpdateChannel
  PROVE  OneVoiceInv'
<1>1. /\ s_phase = "channel" /\ s_phase' = "device"
      /\ UNCHANGED <<s_kind, s_cca_counter, s_backoff_flag, s_t_flag, s_ack_flag, s_queue>>
  BY DEF Sim!UpdateChannel, Sim!run, Sim!backoff
<1>2. /\ s_t_counter' \in [Agents -> Nat]
      /\ \A d \in Agents :
           s_t_counter'[d] = IF s_t_flag[d] THEN s_t_counter[d] + 1 ELSE s_t_counter[d]
  BY DEF OneVoiceInv, AirTypes, Sim!UpdateChannel
<1>3. \A d \in Agents : s_ack_flag[d] => ~s_t_flag[d]
  BY DEF OneVoiceInv, Sim!OneVoice, Sim!AssertsHold
<1>4. /\ s_ack_counter' \in [Agents -> Nat]
      /\ \A d \in Agents :
           s_ack_counter'[d] = IF s_ack_flag[d] THEN s_ack_counter[d] + 1 ELSE s_ack_counter[d]
  BY <1>3 DEF OneVoiceInv, AirTypes, Sim!UpdateChannel
<1>5. /\ s_ch_usage' \in BOOLEAN
      /\ \A d \in Agents : s_t_flag[d] \/ (s_ack_flag[d] /\ s_ack_counter'[d] > SIFS)
           => s_ch_usage'
  BY DEF OneVoiceInv, AirTypes, Sim!UpdateChannel
<1>6. AirTypes'
  BY <1>1, <1>2, <1>4, <1>5 DEF OneVoiceInv, AirTypes
<1>7. AtRest' /\ Begun'
  <2>1. \A d \in Agents : s_t_flag[d] => s_t_counter'[d] > 0
    BY <1>2 DEF OneVoiceInv, AirTypes
  <2>2. \A d \in Agents : /\ ~s_t_flag[d] => s_t_counter'[d] = 0
                          /\ ~s_ack_flag[d] => s_ack_counter'[d] = 0
    BY <1>2, <1>4 DEF OneVoiceInv, AtRest
  <2> QED BY <1>1, <2>1, <2>2 DEF AtRest, Begun
<1>8. InUse'
  BY <1>1, <1>5 DEF InUse, Sounds
<1>9. Silenced'
  BY <1>1 DEF Silenced
<1>10. Deferred'
  <2> SUFFICES ASSUME NEW d \in Agents, NEW e \in Agents, s_ack_flag[d]
               PROVE  ~s_backoff_flag[e] /\ s_cca_counter[e] < s_ack_counter'[d]
    BY <1>1, <1>4, <1>6 DEF Deferred, AirTypes
  <2>1. ~s_backoff_flag[e] /\ s_cca_counter[e] <= s_ack_counter[d]
    BY DEF OneVoiceInv, Deferred
  <2>2. s_ack_counter'[d] = s_ack_counter[d] + 1
    BY <1>4
  <2>3. s_ack_counter[d] \in Nat /\ s_cca_counter[e] \in Nat
    BY DEF OneVoiceInv, AirTypes
  <2> QED BY <2>1, <2>2, <2>3
<1>11. HasPacket'
  BY <1>1 DEF OneVoiceInv, HasPacket
<1>12. Sim!OneVoice'
  <2>1. Sim!AssertsHold'
    BY <1>1, <1>2, <1>4 DEF OneVoiceInv, Sim!OneVoice, Sim!AssertsHold
  <2>2. \A d, e \in Agents : s_t_flag[d] /\ s_t_flag[e] => s_t_counter'[d] = s_t_counter'[e]
    BY <1>2 DEF OneVoiceInv, Sim!OneVoice
  <2> QED BY <1>1, <2>1, <2>2 DEF OneVoiceInv, Sim!OneVoice
<1> QED BY <1>6, <1>7, <1>8, <1>9, <1>10, <1>11, <1>12 DEF OneVoiceInv

(* Who senses a used channel starts over.                                  *)
LEMMA DeviceKeepsVoice ==
  ASSUME OneVoiceInv, Sim!UpdateDevice
  PROVE  OneVoiceInv'
<1>1. /\ s_phase = "device" /\ s_phase' = "act"
      /\ UNCHANGED <<s_kind, s_ch_usage, s_t_flag, s_t_counter, s_ack_flag, s_ack_counter, s_queue>>
  BY DEF Sim!UpdateDevice, Sim!run, Sim!air
<1>2. /\ s_backoff_flag' \in [Agents -> BOOLEAN]
      /\ \A d \in Agents : s_backoff_flag'[d] <=> s_backoff_flag[d] /\ ~s_ch_usage
  BY DEF OneVoiceInv, AirTypes, Sim!UpdateDevice, Sim!StillBacksOff
<1>3. /\ s_cca_counter' \in [Agents -> Nat]
      /\ \A d \in Agents :
           s_cca_counter'[d] = IF s_ch_usage \/ s_backoff_flag[d] THEN 0
                               ELSE IF s_queue[d] > 0 THEN s_cca_counter[d] + 1
                               ELSE s_cca_counter[d]
  BY DEF OneVoiceInv, AirTypes, Sim!UpdateDevice
<1>4. AirTypes' /\ AtRest' /\ Begun' /\ InUse'
  BY <1>1, <1>2, <1>3 DEF OneVoiceInv, AirTypes, AtRest, Begun, InUse
<1>5. \A d : Sounds(d)' <=> Sounds(d)
  BY <1>1 DEF Sounds
<1>6. Silenced'
  <2>1. (\E d \in Agents : Sounds(d)) => s_ch_usage
    BY <1>1 DEF OneVoiceInv, InUse
  <2> QED BY <1>2, <1>3, <1>5, <2>1 DEF Silenced
<1>7. Deferred'
  <2> SUFFICES ASSUME NEW d \in Agents, NEW e \in Agents, s_ack_flag[d]
               PROVE  ~s_backoff_flag'[e] /\ s_cca_counter'[e] <= s_ack_counter[d]
    BY <1>1 DEF Deferred
  <2>1. ~s_backoff_flag[e] /\ s_cca_counter[e] < s_ack_counter[d]
    BY <1>1 DEF OneVoiceInv, Deferred
  <2>2. s_ack_counter[d] \in Nat /\ s_cca_counter[e] \in Nat
    BY DEF OneVoiceInv, AirTypes
  <2>3. s_cca_counter'[e] <= s_cca_counter[e] + 1
    BY <1>3, <2>2
  <2> QED BY <1>2, <1>3, <2>1, <2>2, <2>3
<1>8. HasPacket'
  <2> SUFFICES ASSUME NEW d \in Agents, s_cca_counter'[d] > 0 \/ s_backoff_flag'[d]
               PROVE  s_queue[d] > 0
    BY <1>1 DEF HasPacket
  <2>1. CASE s_backoff_flag'[d]
    BY <1>2, <2>1 DEF OneVoiceInv, HasPacket
  <2>2. CASE s_cca_counter'[d] > 0
    BY <1>3, <2>2 DEF OneVoiceInv, HasPacket
  <2> QED BY <2>1, <2>2
<1>9. Sim!OneVoice'
  BY <1>1 DEF OneVoiceInv, Sim!OneVoice, Sim!AssertsHold
<1> QED BY <1>4, <1>6, <1>7, <1>8, <1>9 DEF OneVoiceInv

(* While anybody is in the channel or waits for an ACK, nobody decides.    *)
LEMMA NobodyDecides ==
  ASSUME OneVoiceInv, s_phase = "act", NEW d \in Agents, s_t_flag[d] \/ s_ack_flag[d]
  PROVE  \A e \in Agents : ~Sim!Decides(e) /\ ~Sim!BackedOff(e)
<1> USE DEF OneVoiceInv
<1> SUFFICES ASSUME NEW e \in Agents
             PROVE  s_cca_counter[e] # DIFS /\ ~s_backoff_flag[e]
  BY DEF Sim!Decides, Sim!BackedOff
<1>1. s_cca_counter[e] \in Nat /\ s_ack_counter[d] \in Nat
  BY DEF AirTypes
<1>2. CASE Sounds(d)
  <2>1. s_cca_counter[e] = 0 /\ ~s_backoff_flag[e]
    BY <1>2 DEF Silenced
  <2> QED BY <2>1, Settings
<1>3. CASE ~Sounds(d)
  <2>1. s_ack_flag[d] /\ ~(s_ack_counter[d] > SIFS)
    BY <1>3 DEF Sounds, Begun
  <2>2. ~s_backoff_flag[e] /\ s_cca_counter[e] <= s_ack_counter[d]
    BY <2>1 DEF Deferred
  <2> QED BY <2>1, <2>2, <1>1, Settings
<1> QED BY <1>2, <1>3

(* Who decides has a packet, and sets out with a counter at rest.          *)
LEMMA ActKeepsVoice ==
  ASSUME OneVoiceInv, Sim!Act
  PROVE  OneVoiceInv'
<1>1. /\ s_phase = "act" /\ s_phase' = "learn"
      /\ UNCHANGED <<s_kind, s_ch_usage, s_t_counter, s_ack_flag, s_ack_counter, s_queue>>
  BY DEF Sim!Act, Sim!run
<1>2. /\ s_t_flag' \in [Agents -> BOOLEAN]
      /\ \A d \in Agents : s_t_flag[d] /\ ~Sim!Decides(d) => s_t_flag'[d]
      /\ \A d \in Agents : s_t_flag'[d] => \/ s_t_flag[d]
                                           \/ Sim!Decides(d) \/ Sim!BackedOff(d)
  <2>1. PICK coin \in [Agents -> BOOLEAN], draw \in [Agents -> 0..2 * CWMax] :
          s_t_flag' = [d \in Agents |->
            IF Sim!Decides(d) THEN Sim!Goes(d, coin[d], draw[d])
            ELSE s_t_flag[d] \/ (Sim!BackedOff(d) /\ Sim!GoesNow(d, coin[d]))]
    BY DEF Sim!Act
  <2>2. \A d \in Agents : Sim!Goes(d, coin[d], draw[d]) \in BOOLEAN
    BY DEF Sim!Goes, OneVoiceInv, AirTypes
  <2> QED BY <2>1, <2>2 DEF OneVoiceInv, AirTypes
<1>3. /\ s_backoff_flag' \in [Agents -> BOOLEAN]
      /\ \A d \in Agents : s_backoff_flag'[d] => s_backoff_flag[d] \/ Sim!Decides(d)
  BY DEF Sim!Act, OneVoiceInv, AirTypes
<1>4. /\ s_cca_counter' \in [Agents -> Nat]
      /\ \A d \in Agents : s_cca_counter'[d] \in {0, s_cca_counter[d]}
  BY DEF Sim!Act, OneVoiceInv, AirTypes
<1>5. AirTypes'
  BY <1>1, <1>2, <1>3, <1>4 DEF OneVoiceInv, AirTypes
<1>6. CASE \E d \in Agents : s_t_flag[d] \/ s_ack_flag[d]
  <2>1. \A e \in Agents : ~Sim!Decides(e) /\ ~Sim!BackedOff(e)
    BY <1>1, <1>6, NobodyDecides
  <2>2. \A e \in Agents : /\ s_t_flag'[e] <=> s_t_flag[e]
                          /\ s_backoff_flag'[e] => s_backoff_flag[e]
    BY <1>2, <1>3, <2>1 DEF OneVoiceInv, AirTypes
  <2>3. \A d \in Agents : Sounds(d)' <=> Sounds(d)
    BY <1>1, <2>2 DEF Sounds
  <2>4. AtRest' /\ Begun' /\ InUse'
    BY <1>1, <2>2 DEF OneVoiceInv, AtRest, Begun, InUse
  <2>5. Silenced'
    BY <1>1, <1>4, <2>2, <2>3 DEF OneVoiceInv, Silenced
  <2>6. Deferred'
    <3> SUFFICES ASSUME NEW d \in Agents, NEW e \in Agents, s_ack_flag[d]
                 PROVE  ~s_backoff_flag'[e] /\ s_cca_counter'[e] <= s_ack_counter[d]
      BY <1>1 DEF Deferred
    <3>1. ~s_backoff_flag[e] /\ s_cca_counter[e] <= s_ack_counter[d]
      BY DEF OneVoiceInv, Deferred
    <3>2. s_ack_counter[d] \in Nat
      BY DEF OneVoiceInv, AirTypes
    <3> QED BY <1>4, <2>2, <3>1, <3>2
  <2>7. HasPacket'
    BY <1>1, <1>4, <2>2 DEF OneVoiceInv, HasPacket
  <2>8. Sim!OneVoice'
    BY <1>1, <2>2 DEF OneVoiceInv, Sim!OneVoice, Sim!AssertsHold
  <2> QED BY <1>5, <2>4, <2>5, <2>6, <2>7, <2>8 DEF OneVoiceInv
<1>7. CASE \A d \in Agents : ~s_t_flag[d] /\ ~s_ack_flag[d]
  <2>1. \A d \in Agents : s_t_counter[d] = 0 /\ s_ack_counter[d] = 0 /\ ~Sounds(d)'
    BY <1>1, <1>7 DEF OneVoiceInv, AtRest, Sounds
  <2>2. AtRest' /\ Begun' /\ InUse' /\ Silenced' /\ Deferred'
    BY <1>1, <1>7, <2>1 DEF AtRest, Begun, InUse, Silenced, Deferred
  <2>3. \A d \in Agents : Sim!Decides(d) \/ Sim!BackedOff(d) => s_queue[d] > 0
    <3> SUFFICES ASSUME NEW d \in Agents, Sim!Decides(d) \/ Sim!BackedOff(d)
                 PROVE  s_cca_counter[d] > 0 \/ s_backoff_flag[d]
      BY DEF OneVoiceInv, HasPacket
    <3> QED BY Settings DEF Sim!Decides, Sim!BackedOff
  <2>4. HasPacket'
    BY <1>1, <1>3, <1>4, <2>3 DEF OneVoiceInv, HasPacket
  <2>5. \A d \in Agents : s_t_flag'[d] => s_queue[d] > 0
    BY <1>2, <1>7, <2>3
  <2>6. Sim!OneVoice'
    BY <1>1, <1>7, <2>1, <2>5 DEF Sim!OneVoice, Sim!AssertsHold
  <2> QED BY <1>5, <2>2, <2>4, <2>6 DEF OneVoiceInv
<1> QED BY <1>6, <1>7

LEMMA LearnKeepsVoice ==
  ASSUME OneVoiceInv, Sim!Learn
  PROVE  OneVoiceInv'
<1>1. /\ s_phase = "learn" /\ s_phase' = "settle"
      /\ UNCHANGED <<s_kind, s_ch_usage, s_cca_counter, s_backoff_flag, s_t_flag, s_t_counter,
                     s_ack_flag, s_ack_counter, s_queue>>
  BY DEF Sim!Learn, Sim!run, Sim!backoff, Sim!air
<1>2. \A d : Sounds(d)' <=> Sounds(d)
  BY <1>1 DEF Sounds
<1>3. AirTypes' /\ AtRest' /\ Begun'
  BY <1>1 DEF OneVoiceInv, AirTypes, AtRest, Begun
<1>4. InUse' /\ Silenced'
  BY <1>1, <1>2 DEF OneVoiceInv, InUse, Silenced
<1>5. Deferred' /\ HasPacket'
  BY <1>1 DEF OneVoiceInv, Deferred, HasPacket
<1>6. Sim!OneVoice'
  BY <1>1 DEF OneVoiceInv, Sim!OneVoice, Sim!AssertsHold
<1> QED BY <1>3, <1>4, <1>5, <1>6 DEF OneVoiceInv

(* Two who transmit at the same time are a collision.                      *)
LEMMA TwoCollide ==
  ASSUME NEW d \in Agents, NEW e \in Agents, d # e, s_t_flag[d], s_t_flag[e]
  PROVE  Sim!Collision
<1>1. IsFiniteSet(Sim!Talkers) /\ {d, e} \subseteq Sim!Talkers
  BY Settings, FS_Subset DEF Sim!Talkers
<1>2. IsFiniteSet({d, e}) /\ Cardinality({d, e}) = 2
  <2>1. IsFiniteSet({d}) /\ Cardinality({d}) = 1
    BY FS_Singleton
  <2>2. {d, e} = {d} \cup {e} /\ e \notin {d}
    OBVIOUS
  <2> QED BY <2>1, <2>2, FS_AddElement
<1>3. Cardinality({d, e}) <= Cardinality(Sim!Talkers)
  BY <1>1, FS_Subset
<1>4. Cardinality(Sim!Talkers) \in Nat
  BY <1>1, FS_CardinalityType
<1>5. Cardinality(Sim!Talkers) > 1
  BY <1>2, <1>3, <1>4
<1> QED BY <1>5, SimCounts DEF Sim!Collision

(* Transmissions end together, and one alone is followed by its ACK.       *)
LEMMA SettleKeepsVoice ==
  ASSUME OneVoiceInv, Sim!CheckCollision
  PROVE  OneVoiceInv'
<1> USE DEF OneVoiceInv
<1>1. /\ s_phase = "settle" /\ s_phase' \in {"arrive", "over"}
      /\ UNCHANGED <<s_kind, s_cca_counter, s_backoff_flag>>
  BY DEF Sim!CheckCollision, Sim!backoff
<1>2. /\ s_t_flag' \in [Agents -> BOOLEAN]
      /\ \A d \in Agents : s_t_flag'[d] <=> s_t_flag[d] /\ ~Sim!Ends(d)
  BY DEF Sim!CheckCollision, AirTypes
<1>3. /\ s_t_counter' \in [Agents -> Nat]
      /\ \A d \in Agents : s_t_counter'[d] = IF Sim!Ends(d) THEN 0 ELSE s_t_counter[d]
  BY DEF Sim!CheckCollision, AirTypes
<1>4. \A d \in Agents :
        Sim!Served(d) => s_ack_flag[d] /\ ~s_t_flag[d] /\ s_ack_counter[d] > SIFS
  <2> SUFFICES ASSUME NEW d \in Agents, Sim!Served(d)
               PROVE  s_ack_flag[d] /\ ~s_t_flag[d] /\ s_ack_counter[d] > SIFS
    OBVIOUS
  <2>1. s_ack_counter[d] > SIFS /\ s_ack_counter[d] # 0
    BY Settings DEF Sim!Served
  <2>2. ~s_t_flag[d]
    BY <2>1 DEF Sim!OneVoice, Sim!AssertsHold
  <2> QED BY <2>1, <2>2 DEF Sim!Served, Sim!Expects, Sim!Ends
<1>5. /\ s_ack_flag' \in [Agents -> BOOLEAN]
      /\ \A d \in Agents : s_ack_flag'[d] =>
           \/ s_ack_flag[d] /\ ~s_t_flag[d] /\ ~Sim!Served(d)
           \/ Sim!Ends(d) /\ ~Sim!Collision
      /\ \A d \in Agents : s_ack_flag[d] /\ ~s_ack_flag'[d] => Sim!Served(d)
  <2>1. s_ack_flag' = [d \in Agents |-> Sim!Expects(d) /\ ~Sim!Served(d)]
    BY DEF Sim!CheckCollision
  <2>2. \A d \in Agents : Sim!Expects(d) =
                          IF Sim!Ends(d) THEN ~Sim!Collision ELSE s_ack_flag[d]
    BY DEF Sim!Expects
  <2>3. \A d \in Agents : s_ack_flag[d] => ~s_t_flag[d] /\ ~Sim!Ends(d)
    BY DEF Sim!OneVoice, Sim!AssertsHold, Sim!Ends
  <2> QED BY <2>1, <2>2, <2>3 DEF AirTypes
<1>6. /\ s_ack_counter' \in [Agents -> Nat]
      /\ \A d \in Agents :
           s_ack_counter'[d] = IF Sim!Served(d) THEN 0 ELSE s_ack_counter[d]
  BY DEF Sim!CheckCollision, AirTypes
<1>7. /\ s_queue' \in [Agents -> Int]
      /\ \A d \in Agents :
           s_queue'[d] = IF Sim!Served(d) THEN s_queue[d] - 1 ELSE s_queue[d]
  BY DEF Sim!CheckCollision, AirTypes
<1>8. AirTypes'
  <2>1. s_ch_usage' \in BOOLEAN
    BY DEF Sim!CheckCollision
  <2> QED BY <1>1, <1>2, <1>3, <1>5, <1>6, <1>7, <2>1 DEF AirTypes
<1>9. \A d \in Agents : Sim!Ends(d) => s_t_flag[d] /\ s_t_counter[d] = TLen
  BY DEF Sim!Ends
<1>10. \A d \in Agents : s_t_flag[d] => ~s_ack_flag[d] /\ s_ack_counter[d] = 0
  BY DEF Sim!OneVoice, Sim!AssertsHold
<1>11. \A d \in Agents : Sim!Ends(d) => s_ack_counter'[d] = 0
  BY <1>4, <1>6, <1>9, <1>10
<1>12. AtRest' /\ Begun' /\ InUse'
  <2>1. \A d \in Agents : ~s_t_flag'[d] => s_t_counter'[d] = 0
    BY <1>2, <1>3 DEF AtRest
  <2>2. \A d \in Agents : ~s_ack_flag'[d] => s_ack_counter'[d] = 0
    BY <1>5, <1>6 DEF AtRest
  <2> QED BY <1>1, <2>1, <2>2 DEF AtRest, Begun, InUse
<1>13. \A d \in Agents : Sounds(d)' => Sounds(d)
  <2> SUFFICES ASSUME NEW d \in Agents, Sounds(d)'
               PROVE  Sounds(d)
    OBVIOUS
  <2>1. CASE s_t_flag'[d] /\ s_t_counter'[d] > 0
    BY <1>2, <1>3, <2>1 DEF Sounds
  <2>2. CASE s_ack_flag'[d] /\ s_ack_counter'[d] > SIFS
    <3>1. ~Sim!Ends(d)
      BY <1>11, <2>2, Settings
    <3> QED BY <1>5, <1>6, <2>2, <3>1 DEF Sounds
  <2> QED BY <2>1, <2>2 DEF Sounds
<1>14. Silenced'
  BY <1>1, <1>13 DEF Silenced
<1>15. Deferred'
  <2> SUFFICES ASSUME NEW d \in Agents, NEW e \in Agents, s_ack_flag'[d]
               PROVE  ~s_backoff_flag[e] /\ s_cca_counter[e] <= s_ack_counter'[d]
    BY <1>1 DEF Deferred
  <2>1. CASE s_ack_flag[d] /\ ~Sim!Served(d)
    BY <1>6, <2>1 DEF Deferred
  <2>2. CASE Sim!Ends(d)
    <3>1. Sounds(d)
      BY <1>9, <2>2, Settings DEF Sounds
    <3>2. s_cca_counter[e] = 0 /\ ~s_backoff_flag[e]
      BY <1>1, <3>1 DEF Silenced
    <3> QED BY <1>11, <2>2, <3>2
  <2> QED BY <1>5, <2>1, <2>2
<1>16. HasPacket'
  <2> SUFFICES ASSUME NEW d \in Agents, s_cca_counter[d] > 0 \/ s_backoff_flag[d]
               PROVE  s_queue'[d] > 0
    BY <1>1 DEF HasPacket
  <2>1. ~Sim!Served(d)
    <3> SUFFICES ASSUME Sim!Served(d) PROVE FALSE
      OBVIOUS
    <3>1. Sounds(d)
      BY <1>4 DEF Sounds
    <3>2. s_cca_counter[d] = 0 /\ ~s_backoff_flag[d]
      BY <1>1, <3>1 DEF Silenced
    <3> QED BY <3>2
  <2> QED BY <1>7, <2>1 DEF HasPacket
<1>17. Sim!OneVoice'
  <2>1. \A d \in Agents : s_t_flag'[d] => ~s_ack_flag'[d] /\ s_ack_counter'[d] = 0
    BY <1>2, <1>4, <1>5, <1>6, <1>10
  <2>2. \A d \in Agents : s_ack_flag'[d] => ~s_t_flag'[d] /\ s_t_counter'[d] = 0
    BY <1>2, <1>3, <1>5 DEF AtRest
  <2>3. \A d, e \in Agents : s_t_flag'[d] /\ s_t_flag'[e] => s_t_counter'[d] = s_t_counter'[e]
    BY <1>2, <1>3 DEF Sim!OneVoice
  <2>4. ASSUME NEW d \in Agents, NEW e \in Agents, s_ack_flag'[d], d # e
        PROVE  ~s_t_flag'[e] /\ ~s_ack_flag'[e]
    <3>1. CASE s_ack_flag[d]
      <4>1. ~s_t_flag[e] /\ ~s_ack_flag[e]
        BY <2>4, <3>1 DEF Sim!OneVoice
      <4> QED BY <1>2, <1>5, <1>9, <4>1
    <3>2. CASE Sim!Ends(d) /\ ~Sim!Collision
      <4>1. ~s_t_flag[e]
        BY <1>9, <2>4, <3>2, TwoCollide
      <4>2. ~s_ack_flag[e]
        BY <1>9, <2>4, <3>2 DEF Sim!OneVoice
      <4> QED BY <1>2, <1>5, <1>9, <4>1, <4>2
    <3> QED BY <1>5, <2>4, <3>1, <3>2
  <2>5. \A d \in Agents : s_t_flag'[d] \/ s_ack_flag'[d] => s_queue'[d] > 0
    <3>1. \A d \in Agents : s_t_flag'[d] \/ s_ack_flag'[d] => ~Sim!Served(d)
      BY <1>2, <1>4, <1>5, <1>9
    <3>2. \A d \in Agents : s_t_flag'[d] \/ s_ack_flag'[d] => s_t_flag[d] \/ s_ack_flag[d]
      BY <1>2, <1>5, <1>9
    <3> QED BY <1>7, <3>1, <3>2 DEF Sim!OneVoice
  <2> QED BY <2>1, <2>2, <2>3, <2>4, <2>5 DEF Sim!OneVoice, Sim!AssertsHold
<1> QED BY <1>8, <1>12, <1>14, <1>15, <1>16, <1>17

(* An episode begins with nothing in the air; so does what is not run.     *)
AirIsSilent ==
  /\ s_phase \in {"arrive", "over"} /\ s_ch_usage = FALSE
  /\ s_t_flag = Sim!All(FALSE) /\ s_ack_flag = Sim!All(FALSE)
  /\ s_backoff_flag = Sim!All(FALSE) /\ s_t_counter = Sim!All(0)
  /\ s_ack_counter = Sim!All(0) /\ s_cca_counter = Sim!All(0)
  /\ s_queue \in [Agents -> Int]
  /\ s_kind \in [Agents -> {"agent", "aloha", "csma", "qcsma"}]

LEMMA SilenceIsOneVoice == AirIsSilent => OneVoiceInv
<1> SUFFICES ASSUME AirIsSilent PROVE OneVoiceInv
  OBVIOUS
<1>1. \A d \in Agents : /\ s_t_flag[d] = FALSE /\ s_ack_flag[d] = FALSE
                        /\ s_backoff_flag[d] = FALSE
                        /\ s_t_counter[d] = 0 /\ s_ack_counter[d] = 0 /\ s_cca_counter[d] = 0
  BY DEF AirIsSilent, Sim!All
<1>2. AirTypes
  BY DEF AirIsSilent, Sim!All, AirTypes
<1>3. \A d \in Agents : ~Sounds(d)
  BY <1>1 DEF Sounds
<1>4. AtRest /\ Begun /\ InUse /\ Silenced
  BY <1>1, <1>3 DEF AirIsSilent, AtRest, Begun, InUse, Silenced
<1>5. Deferred
  BY <1>1 DEF Deferred
<1>6. HasPacket
  <2>1. \A d \in Agents : ~(s_cca_counter[d] > 0)
    BY <1>1
  <2>2. \A d \in Agents : ~s_backoff_flag[d]
    BY <1>1
  <2> QED BY <2>1, <2>2 DEF HasPacket
<1>7. Sim!OneVoice
  BY <1>1 DEF Sim!OneVoice, Sim!AssertsHold
<1> QED BY <1>2, <1>4, <1>5, <1>6, <1>7 DEF OneVoiceInv

LEMMA EpisodeKeepsVoice ==
  ASSUME OneVoiceInv, Sim!NextEpisode
  PROVE  OneVoiceInv'
<1>1. /\ s_phase' = "arrive" /\ s_ch_usage' = FALSE
      /\ s_t_flag' = Sim!All(FALSE) /\ s_ack_flag' = Sim!All(FALSE)
      /\ s_backoff_flag' = Sim!All(FALSE) /\ s_t_counter' = Sim!All(0)
      /\ s_ack_counter' = Sim!All(0) /\ s_cca_counter' = Sim!All(0)
      /\ s_queue' = Sim!All(1) /\ s_kind' = s_kind
  BY DEF Sim!NextEpisode, Sim!Reset
<1>2. \A d \in Agents : /\ s_t_flag'[d] = FALSE /\ s_ack_flag'[d] = FALSE
                        /\ s_backoff_flag'[d] = FALSE
                        /\ s_t_counter'[d] = 0 /\ s_ack_counter'[d] = 0
                        /\ s_cca_counter'[d] = 0
  BY <1>1 DEF Sim!All
<1>3. AirTypes'
  <2>1. /\ s_t_flag' \in [Agents -> BOOLEAN] /\ s_ack_flag' \in [Agents -> BOOLEAN]
        /\ s_backoff_flag' \in [Agents -> BOOLEAN] /\ s_ch_usage' \in BOOLEAN
    BY <1>1 DEF Sim!All
  <2>2. /\ s_t_counter' \in [Agents -> Nat] /\ s_ack_counter' \in [Agents -> Nat]
        /\ s_cca_counter' \in [Agents -> Nat] /\ s_queue' \in [Agents -> Int]
    BY <1>1 DEF Sim!All
  <2> QED BY <1>1, <2>1, <2>2 DEF OneVoiceInv, AirTypes
<1>4. \A d \in Agents : ~Sounds(d)'
  BY <1>2 DEF Sounds
<1>5. AtRest' /\ Begun' /\ InUse' /\ Silenced'
  BY <1>1, <1>2, <1>4 DEF AtRest, Begun, InUse, Silenced
<1>6. Deferred'
  BY <1>2 DEF Deferred
<1>7. HasPacket'
  <2>1. \A d \in Agents : ~(s_cca_counter'[d] > 0)
    BY <1>2
  <2>2. \A d \in Agents : ~s_backoff_flag'[d]
    BY <1>2
  <2> QED BY <2>1, <2>2 DEF HasPacket
<1>8. Sim!OneVoice'
  BY <1>2 DEF Sim!OneVoice, Sim!AssertsHold
<1> QED BY <1>3, <1>5, <1>6, <1>7, <1>8 DEF OneVoiceInv

LEMMA VoiceStep == OneVoiceInv /\ [MediaNext]_<<vars, medium, sim>> => OneVoiceInv'
<1> SUFFICES ASSUME OneVoiceInv, [MediaNext]_<<vars, medium, sim>>
             PROVE  OneVoiceInv'
  OBVIOUS
<1>1. CASE Sim!Next
  BY <1>1, ArriveKeepsVoice, ChannelKeepsVoice, DeviceKeepsVoice, ActKeepsVoice,
     LearnKeepsVoice, SettleKeepsVoice, EpisodeKeepsVoice DEF Sim!Next
<1>2. CASE UNCHANGED sim
  <2>1. UNCHANGED simAir
    BY <1>2 DEF sim, simAir
  <2> QED BY <2>1, AirFrame
<1> QED BY <1>1, <1>2 DEF MediaNext

LEMMA VoiceInit == MediaInit => OneVoiceInv
<1> SUFFICES ASSUME Sim!Init \/ NoSim PROVE AirIsSilent
  BY SilenceIsOneVoice DEF MediaInit
<1>1. CASE Sim!Init
  BY <1>1, Settings DEF Sim!Init, Sim!Chosen, Sim!All, AirIsSilent
<1>2. CASE NoSim
  BY <1>2 DEF NoSim, Sim!All, AirIsSilent
<1> QED BY <1>1, <1>2

simBatch == <<s_episode, s_algorithm, s_samples_collected, s_update, s_rows, s_lesson>>

LEMMA BatchFrame ==
  ASSUME BatchInv, UNCHANGED simBatch
  PROVE  BatchInv'
BY DEF BatchInv, simBatch, Sim!LearnsThisEpisode

(* A sample is filed behind those of this episode; a full batch, and only  *)
(* a full one, is offered for an update.                                   *)
LEMMA CollectKeepsBatch ==
  ASSUME BatchInv, Sim!Act
  PROVE  BatchInv'
<1> USE DEF BatchInv
<1>1. Sim!Collect /\ UNCHANGED <<s_episode, s_algorithm>>
  BY DEF Sim!Act, Sim!run
<1>2. s_lesson' = s_lesson
  BY <1>1 DEF Sim!Collect
<1> DEFINE filled(d) == Sim!Samples(d) /\ s_samples_collected[d] + 1 = NumB
<1>3. /\ s_rows' = [d \in Agents |->
           IF Sim!Samples(d)
             THEN [s_rows[d] EXCEPT ![s_samples_collected[d] + 1] = s_episode]
             ELSE s_rows[d]]
      /\ s_samples_collected' = [d \in Agents |->
           IF filled(d) THEN 0
           ELSE IF Sim!Samples(d) THEN s_samples_collected[d] + 1 ELSE s_samples_collected[d]]
      /\ s_update' = [d \in Agents |-> s_update[d] \/ filled(d)]
  BY <1>1 DEF Sim!Collect
<1> HIDE DEF filled
<1>4. \A d \in Agents : s_samples_collected[d] \in 0..(NumB - 1) /\ NumB \in Nat
  BY Settings
<1>5. s_samples_collected' \in [Agents -> 0..(NumB - 1)]
  <2>1. \A d \in Agents : s_samples_collected'[d] \in 0..(NumB - 1)
    BY <1>3, <1>4, Settings DEF filled
  <2> QED BY <1>3, <2>1
<1>6. s_update' \in [Agents -> BOOLEAN] /\ s_rows' \in [Agents -> [1..NumB -> Nat]]
  <2>1. \A d \in Agents : filled(d) \in BOOLEAN
    BY DEF filled, Sim!Samples
  <2>2. s_update' \in [Agents -> BOOLEAN]
    BY <1>3, <2>1
  <2> QED BY <1>3, <2>2
<1>7. ASSUME NEW a \in Agents, NEW i \in 1..NumB,
             s_update'[a] \/ i <= s_samples_collected'[a]
      PROVE  s_rows'[a][i] = s_episode
  <2>1. CASE ~Sim!Samples(a)
    <3>1. ~filled(a)
      BY <2>1 DEF filled
    <3>2. s_update'[a] = s_update[a]
      BY <1>3, <3>1
    <3>3. /\ s_rows'[a] = s_rows[a]
          /\ s_samples_collected'[a] = s_samples_collected[a]
      BY <1>3, <2>1, <3>1
    <3> QED BY <1>7, <3>2, <3>3
  <2>2. CASE Sim!Samples(a)
    <3>1. s_rows'[a] = [s_rows[a] EXCEPT ![s_samples_collected[a] + 1] = s_episode]
      BY <1>3, <2>2
    <3>2. s_update[a] \/ i <= s_samples_collected[a] + 1
      <4>1. CASE filled(a)
        BY <1>4, <4>1 DEF filled
      <4>2. CASE ~filled(a)
        <5>1. s_samples_collected'[a] = s_samples_collected[a] + 1
          BY <1>3, <2>2, <4>2
        <5>2. s_update'[a] = s_update[a]
          BY <1>3, <4>2
        <5> QED BY <1>7, <5>1, <5>2
      <4> QED BY <4>1, <4>2
    <3>3. CASE i = s_samples_collected[a] + 1
      BY <3>1, <3>3
    <3>4. CASE i # s_samples_collected[a] + 1
      <4>1. s_rows'[a][i] = s_rows[a][i]
        BY <3>1, <3>4
      <4>2. s_update[a] \/ i <= s_samples_collected[a]
        BY <1>4, <3>2, <3>4
      <4> QED BY <4>1, <4>2
    <3> QED BY <3>3, <3>4
  <2> QED BY <2>1, <2>2
<1>8. Sim!LearnsThisEpisode'
  BY <1>1, <1>2 DEF Sim!LearnsThisEpisode
<1> QED BY <1>1, <1>5, <1>6, <1>7, <1>8

(* Nobody is taught by others than the agents.                             *)
LEMMA TeachersLearn ==
  ASSUME BatchInv, NEW a \in Agents
  PROVE  Sim!TeachersOf(a) \subseteq Sim!Learners
<1>1. s_algorithm \in {"a2c", "dppo", "ctde"}
  BY DEF BatchInv
<1> QED BY <1>1 DEF Sim!TeachersOf, Sim!Neighbours, Sim!GaeOf, Sim!Critic

LEMMA LearnKeepsBatch ==
  ASSUME BatchInv, Sim!Learn
  PROVE  BatchInv'
<1> USE DEF BatchInv
<1>1. UNCHANGED <<s_episode, s_algorithm, s_samples_collected, s_rows>>
  BY DEF Sim!Learn, Sim!run
<1>2. CASE UNCHANGED <<s_lesson, s_update>>
  BY <1>1, <1>2, BatchFrame DEF simBatch
<1>3. CASE /\ \A a \in Sim!Learners : s_update[a]
           /\ s_lesson' = [d \in Agents |->
                            IF d \in Sim!Learners THEN Sim!Lesson(d) ELSE {}]
           /\ s_update' = [d \in Agents |-> s_update[d] /\ d \notin Sim!Learners]
  <2>1. ASSUME NEW a \in Agents PROVE Sim!Lesson(a) \subseteq {s_episode}
    <3>1. ASSUME NEW b \in Sim!TeachersOf(a) PROVE Sim!BatchOf(b) \subseteq {s_episode}
      <4>1. b \in Sim!Learners
        BY TeachersLearn
      <4>2. b \in Agents /\ s_update[b]
        BY <1>3, <4>1 DEF Sim!Learners
      <4> QED BY <4>2 DEF Sim!BatchOf
    <3> QED BY <3>1 DEF Sim!Lesson
  <2>2. Sim!LearnsThisEpisode'
    BY <1>1, <1>3, <2>1 DEF Sim!LearnsThisEpisode
  <2>3. s_update' \in [Agents -> BOOLEAN]
    BY <1>3
  <2>4. \A a \in Agents : s_update'[a] => s_update[a]
    BY <1>3
  <2> QED BY <1>1, <2>2, <2>3, <2>4
<1> QED BY <1>2, <1>3 DEF Sim!Learn

(* A new episode begins with no sample.                                    *)
LEMMA EpisodeKeepsBatch ==
  ASSUME BatchInv, Sim!NextEpisode
  PROVE  BatchInv'
<1> USE DEF BatchInv
<1>1. /\ s_episode' = s_episode + 1 /\ UNCHANGED <<s_algorithm, s_rows>>
      /\ s_samples_collected' = Sim!All(0) /\ s_update' = Sim!All(FALSE)
      /\ s_lesson' = Sim!All({})
  BY DEF Sim!NextEpisode, Sim!Reset, Sim!ResetBatch
<1>2. \A a \in Agents : s_samples_collected'[a] = 0
  BY <1>1 DEF Sim!All
<1>3. \A a \in Agents : ~s_update'[a]
  BY <1>1 DEF Sim!All
<1>4. Sim!LearnsThisEpisode'
  BY <1>1 DEF Sim!All, Sim!LearnsThisEpisode
<1>5. s_samples_collected' \in [Agents -> 0..(NumB - 1)] /\ s_update' \in [Agents -> BOOLEAN]
  BY <1>1, Settings DEF Sim!All
<1>6. \A a \in Agents : \A i \in 1..NumB : ~(i <= s_samples_collected'[a])
  BY <1>2, Settings
<1>7. \A a \in Agents : \A i \in 1..NumB :
        s_update'[a] \/ i <= s_samples_collected'[a] => s_rows'[a][i] = s_episode'
  BY <1>3, <1>6
<1>8. s_episode' \in Nat
  BY <1>1
<1> QED BY <1>1, <1>4, <1>5, <1>7, <1>8

LEMMA BatchStep == BatchInv /\ [MediaNext]_<<vars, medium, sim>> => BatchInv'
<1> SUFFICES ASSUME BatchInv, [MediaNext]_<<vars, medium, sim>>
             PROVE  BatchInv'
  OBVIOUS
<1>1. CASE Sim!Next
  <2>1. CASE Sim!Arrive \/ Sim!UpdateChannel \/ Sim!UpdateDevice \/ Sim!CheckCollision
    <3>1. UNCHANGED simBatch
      BY <2>1 DEF Sim!Arrive, Sim!UpdateChannel, Sim!UpdateDevice, Sim!CheckCollision,
                  Sim!run, Sim!batch, simBatch
    <3> QED BY <3>1, BatchFrame
  <2> QED BY <1>1, <2>1, CollectKeepsBatch, LearnKeepsBatch, EpisodeKeepsBatch DEF Sim!Next
<1>2. CASE UNCHANGED sim
  <2>1. UNCHANGED simBatch
    BY <1>2 DEF sim, simBatch
  <2> QED BY <2>1, BatchFrame
<1> QED BY <1>1, <1>2 DEF MediaNext

LEMMA BatchInit == MediaInit => BatchInv
<1> SUFFICES ASSUME Sim!Init \/ NoSim PROVE BatchInv
  BY DEF MediaInit
<1>1. /\ s_samples_collected = Sim!All(0) /\ s_update = Sim!All(FALSE)
      /\ s_rows = Sim!All([i \in 1..NumB |-> 0]) /\ s_lesson = Sim!All({})
  BY DEF Sim!Init, NoSim
<1>2. s_episode \in Nat /\ s_algorithm \in {"a2c", "dppo", "ctde"}
  <2>1. s_episode \in {1, NumE} /\ s_algorithm \in Algorithms \cup {"a2c"}
    BY DEF Sim!Init, Sim!Chosen, NoSim
  <2>2. s_episode \in Nat
    BY <2>1, Settings
  <2>3. s_algorithm \in {"a2c", "dppo", "ctde"}
    <3>1. Algorithms \subseteq {"a2c", "dppo", "ctde"}
      BY Settings
    <3> QED BY <2>1, <3>1
  <2> QED BY <2>2, <2>3
<1>3. \A a \in Agents : s_samples_collected[a] = 0
  BY <1>1 DEF Sim!All
<1>4. \A a \in Agents : ~s_update[a]
  BY <1>1 DEF Sim!All
<1>5. \A a \in Agents : \A i \in 1..NumB : ~(i <= s_samples_collected[a])
  BY <1>3, Settings
<1>6. Sim!LearnsThisEpisode
  BY <1>1 DEF Sim!All, Sim!LearnsThisEpisode
<1>7. /\ s_samples_collected \in [Agents -> 0..(NumB - 1)] /\ s_update \in [Agents -> BOOLEAN]
      /\ s_rows \in [Agents -> [1..NumB -> Nat]]
  BY <1>1, Settings DEF Sim!All
<1> QED BY <1>2, <1>4, <1>5, <1>6, <1>7 DEF BatchInv

(* An update of the training programs is made of samples of its own        *)
(* episode only (marl_ra.py).                                              *)
THEOREM LessonsAreCurrent == MediaSpec => []LearnsThisEpisode
<1>1. BatchInv => LearnsThisEpisode
  BY DEF BatchInv, LearnsThisEpisode
<1> QED BY <1>1, BatchInit, BatchStep, PTL DEF MediaSpec

-----------------------------------------------------------------------------
(* The mock medium.                                                        *)

(* How often an agent's thread has been through the barrier: the last time *)
(* may not have been answered, or its answer not been heard.               *)
Passed(a) ==
  m_told[a] + (IF m_reply[a] = {} THEN 0 ELSE 1)
            + (IF m_thread[a] \in {"out", "answer"} THEN 1 ELSE 0)

(* A killed agent whose last request has been dealt with: its thread never *)
(* comes to the barrier again.                                             *)
Gone(a) == /\ m_agent[a] = "killed" /\ m_request[a] = "none" /\ m_reply[a] = {}
           /\ m_thread[a] \in {"read", "ended"}

Asked(a) == m_agent[a] \in {"ask", "killed"}
FiresNow(a) == m_told[a] + 1 \in m_fired[a]
FiredWith(a) == {b \in Agents \ {a} : m_told[a] + 1 \in m_fired[b]}
RightFor(a, r) == /\ r.busy <=> FiredWith(a) # {}
                  /\ r.delivered => FiredWith(a) = {} /\ FiresNow(a)

MediumTypes ==
  /\ m_agent \in [Agents -> {"off", "think", "ask", "done", "closed", "killed"}]
  /\ m_fired \in [Agents -> SUBSET Nat] /\ m_told \in [Agents -> Nat]
  /\ m_thread \in [Agents -> {"none", "read", "enter", "wait", "out", "answer", "ended"}]
  /\ m_request \in [Agents -> {"none", "quiet", "transmit"}]
  /\ m_reply \in [Agents -> SUBSET [delivered : BOOLEAN, busy : BOOLEAN]]
  /\ DOMAIN m_acts \subseteq Agents

(* Nobody who may come again is a slot ahead of another.                   *)
SameSlot == \A a, b \in Agents : Gone(a) \/ Gone(b) \/ Passed(a) = Passed(b)

(* Where a request is: not made yet, on the line, noted, through the       *)
(* barrier, answered.                                                      *)
Unasked(a) ==
  /\ m_fired[a] \subseteq 1..(m_told[a] + 1)
  /\ m_agent[a] \in {"off", "think", "done"} =>
       /\ m_fired[a] \subseteq 1..m_told[a]
       /\ m_reply[a] = {} /\ m_thread[a] \in {"none", "read", "ended"}
       /\ m_agent[a] = "think" => m_thread[a] = "read"
OnTheLine(a) ==
  m_request[a] # "none" => /\ Asked(a) /\ m_reply[a] = {} /\ m_thread[a] = "read"
                           /\ m_request[a] = "transmit" <=> FiresNow(a)
Noted(a) ==
  m_thread[a] \in {"enter", "wait"} =>
    /\ Asked(a) /\ m_request[a] = "none" /\ m_reply[a] = {}
    /\ a \in DOMAIN m_acts /\ (m_acts[a] <=> FiresNow(a))
Resolved(a) ==
  m_thread[a] \in {"out", "answer"} =>
    /\ Asked(a) /\ m_request[a] = "none" /\ m_reply[a] = {}
    /\ m_result[a] \in [delivered : BOOLEAN, busy : BOOLEAN] /\ RightFor(a, m_result[a])
Replied(a) ==
  \A r \in m_reply[a] : /\ Asked(a) /\ m_request[a] = "none" /\ RightFor(a, r)
                        /\ m_thread[a] \in {"read", "ended"}
                        /\ m_agent[a] = "ask" => m_thread[a] = "read"

RequestIs(a) == Unasked(a) /\ OnTheLine(a) /\ Noted(a) /\ Resolved(a) /\ Replied(a)
SlotInv == MediumTypes /\ SameSlot /\ \A a \in Agents : RequestIs(a)

(* An answer is under way.                                                 *)
Pending(a) == m_reply[a] # {} \/ m_thread[a] \in {"out", "answer"}

(* Nothing is done to the others, nor in the slot of an answer of theirs.  *)
Elsewhere(a) ==
  \A b \in Agents \ {a} :
    /\ m_agent'[b] = m_agent[b] /\ m_fired'[b] = m_fired[b] /\ m_told'[b] = m_told[b]
    /\ m_thread'[b] = m_thread[b] /\ m_request'[b] = m_request[b]
    /\ m_reply'[b] = m_reply[b] /\ m_result'[b] = m_result[b]
    /\ b \in DOMAIN m_acts => b \in DOMAIN m_acts' /\ m_acts'[b] = m_acts[b]
    /\ Pending(b) => (m_told[b] + 1 \in m_fired'[a] <=> m_told[b] + 1 \in m_fired[a])

LEMMA OthersKeepTheirs ==
  ASSUME SlotInv, NEW a \in Agents, Elsewhere(a), NEW b \in Agents \ {a}
  PROVE  /\ RequestIs(b)' /\ Passed(b)' = Passed(b) /\ Gone(b)' = Gone(b)
<1>1. /\ m_agent'[b] = m_agent[b] /\ m_fired'[b] = m_fired[b] /\ m_told'[b] = m_told[b]
      /\ m_thread'[b] = m_thread[b] /\ m_request'[b] = m_request[b]
      /\ m_reply'[b] = m_reply[b] /\ m_result'[b] = m_result[b]
  BY DEF Elsewhere
<1>2. b \in DOMAIN m_acts => b \in DOMAIN m_acts' /\ m_acts'[b] = m_acts[b]
  BY DEF Elsewhere
<1>3. Passed(b)' = Passed(b) /\ Gone(b)' = Gone(b)
  BY <1>1 DEF Passed, Gone
<1>4. RequestIs(b)
  BY DEF SlotInv
<1>5. Asked(b)' = Asked(b) /\ FiresNow(b)' = FiresNow(b)
  BY <1>1 DEF Asked, FiresNow
<1>6. Unasked(b)' /\ OnTheLine(b)' /\ Noted(b)'
  <2>1. Unasked(b)'
    BY <1>1, <1>4 DEF RequestIs, Unasked
  <2>2. OnTheLine(b)'
    BY <1>1, <1>4, <1>5 DEF RequestIs, OnTheLine
  <2>3. Noted(b)'
    BY <1>1, <1>2, <1>4, <1>5 DEF RequestIs, Noted
  <2> QED BY <2>1, <2>2, <2>3
<1>7. Pending(b) => FiredWith(b)' = FiredWith(b)
  <2> SUFFICES ASSUME Pending(b), NEW c \in Agents \ {b}
               PROVE  m_told[b] + 1 \in m_fired'[c] <=> m_told[b] + 1 \in m_fired[c]
    BY <1>1 DEF FiredWith
  <2>1. CASE c = a
    BY <2>1 DEF Elsewhere
  <2>2. CASE c # a
    BY <2>2 DEF Elsewhere
  <2> QED BY <2>1, <2>2
<1>8. Pending(b) => \A r : RightFor(b, r)' = RightFor(b, r)
  BY <1>5, <1>7 DEF RightFor
<1>9. Resolved(b)'
  BY <1>1, <1>4, <1>5, <1>8 DEF RequestIs, Resolved, Pending
<1>10. Replied(b)'
  BY <1>1, <1>4, <1>5, <1>8 DEF RequestIs, Replied, Pending
<1> QED BY <1>3, <1>6, <1>9, <1>10 DEF RequestIs

(* What one agent or its thread does is its own affair, if it goes through *)
(* the barrier no more often than before.                                  *)
LEMMA OwnStep ==
  ASSUME SlotInv, NEW a \in Agents, Elsewhere(a), MediumTypes', RequestIs(a)',
         Passed(a)' = Passed(a) \/ Gone(a)', Gone(a) => Gone(a)'
  PROVE  SlotInv'
<1>1. \A b \in Agents \ {a} : RequestIs(b)' /\ Passed(b)' = Passed(b) /\ Gone(b)' = Gone(b)
  BY OthersKeepTheirs
<1>2. SameSlot'
  <2> SUFFICES ASSUME NEW b \in Agents, NEW c \in Agents, ~Gone(b)', ~Gone(c)'
               PROVE  Passed(b)' = Passed(c)'
    BY DEF SameSlot
  <2>1. ~Gone(b) /\ ~Gone(c) /\ Passed(b)' = Passed(b) /\ Passed(c)' = Passed(c)
    BY <1>1
  <2> QED BY <2>1 DEF SlotInv, SameSlot
<1> QED BY <1>1, <1>2 DEF SlotInv

(* Without a new slot or answer, an answer is right as long as it was.     *)
LEMMA StaysRight ==
  ASSUME SlotInv, NEW a \in Agents, UNCHANGED m_fired, m_told'[a] = m_told[a]
  PROVE  /\ FiresNow(a)' = FiresNow(a) /\ \A r : RightFor(a, r)' = RightFor(a, r)
BY DEF FiresNow, FiredWith, RightFor

LEMMA ConnectKeepsSlot ==
  ASSUME SlotInv, NEW a \in Agents, Medium!Connect(a)
  PROVE  SlotInv'
<1>1. /\ m_agent[a] = "off" /\ m_agent' = [m_agent EXCEPT ![a] = "think"]
      /\ m_thread' = [m_thread EXCEPT ![a] = "read"]
      /\ UNCHANGED <<m_fired, m_told, m_request, m_reply, m_acts, m_result>>
  BY DEF Medium!Connect
<1>2. MediumTypes /\ RequestIs(a)
  BY DEF SlotInv
<1>3. MediumTypes'
  BY <1>1, <1>2 DEF MediumTypes
<1>4. Elsewhere(a)
  BY <1>1, <1>2 DEF Elsewhere, MediumTypes
<1>5. m_agent'[a] = "think" /\ m_thread'[a] = "read"
  BY <1>1, <1>2 DEF MediumTypes
<1>6. m_reply[a] = {} /\ m_request[a] = "none" /\ m_thread[a] \in {"none", "read", "ended"}
      /\ m_fired[a] \subseteq 1..m_told[a] /\ m_fired[a] \subseteq 1..(m_told[a] + 1)
  BY <1>1, <1>2 DEF MediumTypes, RequestIs, Unasked, OnTheLine, Asked
<1>7. RequestIs(a)'
  BY <1>1, <1>5, <1>6 DEF RequestIs, Unasked, OnTheLine, Noted, Resolved, Replied
<1>8. Passed(a)' = Passed(a) /\ ~Gone(a)
  BY <1>1, <1>5, <1>6 DEF Passed, Gone
<1> QED BY <1>3, <1>4, <1>7, <1>8, OwnStep

(* A new request is for the slot after the last answer of all: whose       *)
(* answer is under way, that one is of the slot before.                    *)
LEMMA DecideKeepsSlot ==
  ASSUME SlotInv, NEW a \in Agents, Medium!Decide(a)
  PROVE  SlotInv'
<1>1. PICK tx \in BOOLEAN :
        /\ m_agent[a] = "think" /\ m_agent' = [m_agent EXCEPT ![a] = "ask"]
        /\ m_request' = [m_request EXCEPT ![a] = IF tx THEN "transmit" ELSE "quiet"]
        /\ m_fired' = [m_fired EXCEPT ![a] = IF tx THEN @ \cup {m_told[a] + 1} ELSE @]
        /\ UNCHANGED <<m_told, m_thread, m_reply, m_acts, m_result>>
  BY DEF Medium!Decide
<1>2. MediumTypes /\ RequestIs(a)
  BY DEF SlotInv
<1>3. m_told[a] \in Nat /\ m_fired[a] \subseteq Nat
  BY <1>2 DEF MediumTypes
<1>4. /\ m_agent'[a] = "ask" /\ m_request'[a] = IF tx THEN "transmit" ELSE "quiet"
      /\ m_fired'[a] = IF tx THEN m_fired[a] \cup {m_told[a] + 1} ELSE m_fired[a]
  BY <1>1, <1>2 DEF MediumTypes
<1>5. MediumTypes'
  <2>1. m_fired' \in [Agents -> SUBSET Nat]
    BY <1>1, <1>2, <1>3 DEF MediumTypes
  <2>2. /\ m_agent' \in [Agents -> {"off", "think", "ask", "done", "closed", "killed"}]
        /\ m_request' \in [Agents -> {"none", "quiet", "transmit"}]
    BY <1>1, <1>2 DEF MediumTypes
  <2> QED BY <1>1, <1>2, <2>1, <2>2 DEF MediumTypes
<1>6. /\ m_fired[a] \subseteq 1..m_told[a] /\ m_reply[a] = {} /\ m_thread[a] = "read"
      /\ m_request[a] = "none"
  BY <1>1, <1>2 DEF RequestIs, Unasked, OnTheLine, Asked
<1>7. Passed(a) = m_told[a] /\ Passed(a)' = m_told[a] /\ ~Gone(a)
  BY <1>1, <1>3, <1>6 DEF Passed, Gone
<1>8. ASSUME NEW b \in Agents \ {a}, Pending(b)
      PROVE  m_told[b] + 1 \in m_fired'[a] <=> m_told[b] + 1 \in m_fired[a]
  <2>1. ~Gone(b)
    BY <1>8 DEF Pending, Gone
  <2>2. Passed(b) = m_told[a]
    BY <1>7, <2>1 DEF SlotInv, SameSlot
  <2>3. m_told[b] \in Nat
    BY <1>2 DEF MediumTypes
  <2>4. Passed(b) > m_told[b]
    BY <1>8, <2>3 DEF Pending, Passed
  <2>5. m_told[b] + 1 # m_told[a] + 1
    BY <1>3, <2>2, <2>3, <2>4
  <2> QED BY <1>4, <2>5
<1>9. Elsewhere(a)
  <2>1. \A b \in Agents \ {a} : /\ m_agent'[b] = m_agent[b] /\ m_fired'[b] = m_fired[b]
                                /\ m_request'[b] = m_request[b]
    BY <1>1, <1>2 DEF MediumTypes
  <2> QED BY <1>1, <1>8, <2>1 DEF Elsewhere
<1>10. RequestIs(a)'
  <2>1. Unasked(a)'
    <3>1. m_fired'[a] \subseteq 1..(m_told[a] + 1)
      BY <1>3, <1>4, <1>6
    <3> QED BY <1>1, <1>4, <3>1 DEF Unasked
  <2>2. m_request'[a] = "transmit" <=> FiresNow(a)'
    <3>1. m_told[a] + 1 \notin m_fired[a]
      BY <1>3, <1>6
    <3> QED BY <1>1, <1>4, <3>1 DEF FiresNow
  <2>3. OnTheLine(a)'
    BY <1>1, <1>4, <1>6, <2>2 DEF OnTheLine, Asked
  <2>4. Noted(a)' /\ Resolved(a)' /\ Replied(a)'
    BY <1>1, <1>6 DEF Noted, Resolved, Replied
  <2> QED BY <2>1, <2>3, <2>4 DEF RequestIs
<1> QED BY <1>5, <1>7, <1>9, <1>10, OwnStep

(* The agent thinks of nothing more, is gone, or hears that it is closed.  *)
LEMMA LastStepKeepsSlot ==
  ASSUME SlotInv, NEW a \in Agents,
         Medium!Finish(a) \/ Medium!Closed(a) \/ Medium!Kill(a)
  PROVE  SlotInv'
<1>1. PICK s \in {"done", "closed", "killed"} :
        /\ m_agent' = [m_agent EXCEPT ![a] = s]
        /\ s = "done" => m_agent[a] = "think"
        /\ s = "closed" => /\ m_agent[a] = "ask" /\ m_reply[a] = {}
                           /\ m_thread[a] = "ended"
        /\ s = "killed" => m_agent[a] \in {"think", "ask"}
        /\ UNCHANGED <<m_fired, m_told, m_thread, m_request, m_reply, m_acts, m_result>>
  BY DEF Medium!Finish, Medium!Closed, Medium!Kill, Medium!Silence
<1>2. MediumTypes /\ RequestIs(a)
  BY DEF SlotInv
<1>3. MediumTypes' /\ m_agent'[a] = s
  BY <1>1, <1>2 DEF MediumTypes
<1>4. Elsewhere(a)
  BY <1>1, <1>2 DEF Elsewhere, MediumTypes
<1>5. FiresNow(a)' = FiresNow(a) /\ \A r : RightFor(a, r)' = RightFor(a, r)
  BY <1>1, StaysRight
<1>6. Unasked(a)'
  <2>1. s = "done" => /\ m_fired[a] \subseteq 1..m_told[a] /\ m_reply[a] = {}
                      /\ m_thread[a] = "read"
    BY <1>1, <1>2 DEF RequestIs, Unasked
  <2>2. m_fired[a] \subseteq 1..(m_told[a] + 1)
    BY <1>2 DEF RequestIs, Unasked
  <2> QED BY <1>1, <1>3, <2>1, <2>2 DEF Unasked
<1>7. m_request[a] # "none" \/ m_thread[a] \in {"enter", "wait", "out", "answer"}
        => s = "killed"
  BY <1>1, <1>2 DEF RequestIs, Unasked, OnTheLine, Asked
<1>8. OnTheLine(a)' /\ Noted(a)'
  BY <1>1, <1>2, <1>3, <1>5, <1>7 DEF RequestIs, OnTheLine, Noted, Asked
<1>9. Resolved(a)'
  BY <1>1, <1>2, <1>3, <1>5, <1>7 DEF RequestIs, Resolved, Asked
<1>10. m_reply[a] # {} => s = "killed"
  BY <1>1, <1>2 DEF RequestIs, Unasked
<1>11. Replied(a)'
  BY <1>1, <1>2, <1>3, <1>5, <1>10 DEF RequestIs, Replied, Asked
<1>12. Passed(a)' = Passed(a) /\ ~Gone(a)
  BY <1>1 DEF Passed, Gone
<1>13. RequestIs(a)'
  BY <1>6, <1>8, <1>9, <1>11 DEF RequestIs
<1> QED BY <1>3, <1>4, <1>12, <1>13, OwnStep

(* The slot of an answer that is heard is over.                            *)
LEMMA HearKeepsSlot ==
  ASSUME SlotInv, NEW a \in Agents, Medium!Hear(a)
  PROVE  SlotInv'
<1>1. /\ m_agent[a] = "ask" /\ m_agent' = [m_agent EXCEPT ![a] = "think"]
      /\ m_told' = [m_told EXCEPT ![a] = @ + 1]
      /\ m_reply[a] # {} /\ m_reply' = [m_reply EXCEPT ![a] = {}]
      /\ UNCHANGED <<m_fired, m_thread, m_request, m_acts, m_result>>
  BY DEF Medium!Hear, Medium!Silence
<1>2. MediumTypes /\ RequestIs(a)
  BY DEF SlotInv
<1>3. MediumTypes'
  BY <1>1, <1>2 DEF MediumTypes
<1>4. /\ m_agent'[a] = "think" /\ m_told'[a] = m_told[a] + 1 /\ m_reply'[a] = {}
      /\ m_told[a] \in Nat
  BY <1>1, <1>2 DEF MediumTypes
<1>5. Elsewhere(a)
  BY <1>1, <1>2 DEF Elsewhere, MediumTypes
<1>6. m_thread[a] = "read" /\ m_request[a] = "none"
  BY <1>1, <1>2 DEF RequestIs, Replied
<1>7. Unasked(a)'
  <2>1. m_fired[a] \subseteq 1..(m_told[a] + 1)
    BY <1>2 DEF RequestIs, Unasked
  <2>2. m_fired'[a] \subseteq 1..m_told'[a] /\ m_fired'[a] \subseteq 1..(m_told'[a] + 1)
    BY <1>1, <1>4, <2>1
  <2> QED BY <1>1, <1>4, <1>6, <2>2 DEF Unasked
<1>8. RequestIs(a)'
  BY <1>1, <1>4, <1>6, <1>7 DEF RequestIs, OnTheLine, Noted, Resolved, Replied
<1>9. Passed(a)' = Passed(a) /\ ~Gone(a)
  BY <1>1, <1>4, <1>6 DEF Passed, Gone
<1> QED BY <1>3, <1>5, <1>8, <1>9, OwnStep

(* The thread's own steps: end of file, the way out, the broken barrier.   *)
LEMMA ThreadKeepsSlot ==
  ASSUME SlotInv, NEW a \in Agents,
         Medium!EndOfFile(a) \/ Medium!Leave(a) \/ Medium!BrokenOut(a)
  PROVE  SlotInv'
<1>1. PICK s \in {"ended", "answer"} :
        /\ m_thread' = [m_thread EXCEPT ![a] = s]
        /\ s = "answer" => m_thread[a] = "out"
        /\ s = "ended" => \/ /\ m_thread[a] = "read" /\ m_request[a] = "none"
                             /\ m_agent[a] \in {"done", "closed", "killed"}
                          \/ m_thread[a] \in {"enter", "wait"}
        /\ UNCHANGED <<m_agent, m_fired, m_told, m_request, m_reply, m_acts, m_result>>
  BY DEF Medium!EndOfFile, Medium!Leave, Medium!BrokenOut
<1>2. MediumTypes /\ RequestIs(a)
  BY DEF SlotInv
<1>3. MediumTypes' /\ m_thread'[a] = s
  BY <1>1, <1>2 DEF MediumTypes
<1>4. Elsewhere(a)
  BY <1>1, <1>2 DEF Elsewhere, MediumTypes
<1>5. FiresNow(a)' = FiresNow(a) /\ \A r : RightFor(a, r)' = RightFor(a, r)
  BY <1>1, StaysRight
<1>6. m_request[a] = "none"
  BY <1>1, <1>2 DEF RequestIs, Noted, Resolved
<1>7. s = "answer" \/ m_thread[a] \in {"enter", "wait"} => Asked(a) /\ m_reply[a] = {}
  BY <1>1, <1>2 DEF RequestIs, Noted, Resolved
<1>8. Unasked(a)'
  <2>1. m_agent[a] # "think"
    BY <1>1, <1>2, <1>7 DEF Asked
  <2>2. m_agent[a] \in {"off", "done"} => s = "ended"
    BY <1>1, <1>7 DEF Asked
  <2> QED BY <1>1, <1>2, <1>3, <2>1, <2>2 DEF RequestIs, Unasked
<1>9. OnTheLine(a)' /\ Noted(a)'
  BY <1>1, <1>3, <1>6 DEF OnTheLine, Noted
<1>10. Resolved(a)'
  BY <1>1, <1>2, <1>3, <1>5 DEF RequestIs, Resolved, Asked
<1>11. Replied(a)'
  <2>1. m_reply[a] # {} => s = "ended" /\ m_agent[a] # "ask"
    BY <1>1, <1>7
  <2> QED BY <1>1, <1>2, <1>3, <1>5, <2>1 DEF RequestIs, Replied, Asked
<1>12. Passed(a)' = Passed(a)
  BY <1>1, <1>3 DEF Passed
<1>13. Gone(a) => Gone(a)'
  BY <1>1, <1>3 DEF Gone
<1>14. RequestIs(a)'
  BY <1>8, <1>9, <1>10, <1>11 DEF RequestIs
<1> QED BY <1>3, <1>4, <1>12, <1>13, <1>14, OwnStep

LEMMA NoteKeepsSlot ==
  ASSUME SlotInv, NEW a \in Agents, Medium!NoteAct(a)
  PROVE  SlotInv'
<1>1. /\ m_thread[a] = "read" /\ m_request[a] # "none"
      /\ m_acts' = [b \in DOMAIN m_acts \cup {a} |->
                      IF b = a THEN m_request[a] = "transmit" ELSE m_acts[b]]
      /\ m_request' = [m_request EXCEPT ![a] = "none"]
      /\ m_thread' = [m_thread EXCEPT ![a] = "enter"]
      /\ UNCHANGED <<m_agent, m_fired, m_told, m_reply, m_result>>
  BY DEF Medium!NoteAct
<1>2. MediumTypes /\ RequestIs(a)
  BY DEF SlotInv
<1>3. DOMAIN m_acts' = DOMAIN m_acts \cup {a} /\ m_acts'[a] = (m_request[a] = "transmit")
      /\ \A b \in DOMAIN m_acts : b # a => m_acts'[b] = m_acts[b]
  BY <1>1
<1>4. MediumTypes'
  BY <1>1, <1>2, <1>3 DEF MediumTypes
<1>5. m_thread'[a] = "enter" /\ m_request'[a] = "none"
  BY <1>1, <1>2 DEF MediumTypes
<1>6. Elsewhere(a)
  <2>1. \A b \in Agents \ {a} : m_thread'[b] = m_thread[b] /\ m_request'[b] = m_request[b]
    BY <1>1, <1>2 DEF MediumTypes
  <2> QED BY <1>1, <1>3, <2>1 DEF Elsewhere
<1>7. /\ Asked(a) /\ m_reply[a] = {}
      /\ m_request[a] = "transmit" <=> FiresNow(a)
  BY <1>1, <1>2 DEF RequestIs, OnTheLine
<1>8. Asked(a)' /\ FiresNow(a)' = FiresNow(a)
  BY <1>1, <1>7 DEF Asked, FiresNow
<1>9. Unasked(a)'
  BY <1>1, <1>2, <1>7 DEF RequestIs, Unasked, Asked
<1>10. Noted(a)'
  <2>1. m_acts'[a] <=> FiresNow(a)'
    BY <1>3, <1>7, <1>8
  <2>2. m_reply'[a] = {} /\ a \in DOMAIN m_acts'
    BY <1>1, <1>3, <1>7
  <2> QED BY <1>5, <1>8, <2>1, <2>2 DEF Noted
<1>11. OnTheLine(a)' /\ Resolved(a)' /\ Replied(a)'
  BY <1>1, <1>5, <1>7 DEF OnTheLine, Resolved, Replied
<1>12. Passed(a)' = Passed(a) /\ ~Gone(a)
  BY <1>1, <1>5 DEF Passed, Gone
<1>13. RequestIs(a)'
  BY <1>9, <1>10, <1>11 DEF RequestIs
<1> QED BY <1>4, <1>6, <1>12, <1>13, OwnStep

(* The answer is the one resolved, or there is nobody to hear it.          *)
LEMMA AnswerKeepsSlot ==
  ASSUME SlotInv, NEW a \in Agents, Medium!Answer(a)
  PROVE  SlotInv'
<1>1. /\ m_thread[a] = "answer"
      /\ UNCHANGED <<m_agent, m_fired, m_told, m_request, m_acts, m_result>>
  BY DEF Medium!Answer
<1>2. MediumTypes /\ RequestIs(a)
  BY DEF SlotInv
<1>3. /\ Asked(a) /\ m_request[a] = "none" /\ m_reply[a] = {}
      /\ m_result[a] \in [delivered : BOOLEAN, busy : BOOLEAN] /\ RightFor(a, m_result[a])
  BY <1>1, <1>2 DEF RequestIs, Resolved
<1>4. FiresNow(a)' = FiresNow(a) /\ \A r : RightFor(a, r)' = RightFor(a, r)
  BY <1>1, StaysRight
<1>5. Passed(a) = m_told[a] + 1 /\ m_told[a] \in Nat
  BY <1>1, <1>2, <1>3 DEF Passed, MediumTypes
<1>6. CASE m_agent[a] = "killed"
  <2>1. PICK s \in {"read", "ended"} :
          m_thread' = [m_thread EXCEPT ![a] = s] /\ UNCHANGED m_reply
    BY <1>6 DEF Medium!Answer
  <2>2. MediumTypes' /\ m_thread'[a] = s
    BY <1>1, <1>2, <2>1 DEF MediumTypes
  <2>3. Elsewhere(a)
    BY <1>1, <1>2, <2>1 DEF Elsewhere, MediumTypes
  <2>4. Gone(a)' /\ ~Gone(a)
    BY <1>1, <1>3, <1>6, <2>1, <2>2 DEF Gone
  <2>5. RequestIs(a)'
    BY <1>1, <1>2, <1>3, <1>6, <2>1, <2>2
       DEF RequestIs, Unasked, OnTheLine, Noted, Resolved, Replied
  <2> QED BY <2>2, <2>3, <2>4, <2>5, OwnStep
<1>7. CASE m_agent[a] # "killed"
  <2>1. /\ m_thread' = [m_thread EXCEPT ![a] = "read"]
        /\ m_reply' = [m_reply EXCEPT ![a] = {m_result[a]}]
    BY <1>7 DEF Medium!Answer
  <2>2. MediumTypes' /\ m_thread'[a] = "read" /\ m_reply'[a] = {m_result[a]}
    BY <1>1, <1>2, <1>3, <2>1 DEF MediumTypes
  <2>3. Elsewhere(a)
    BY <1>1, <1>2, <2>1 DEF Elsewhere, MediumTypes
  <2>4. Passed(a)' = Passed(a) /\ ~Gone(a)
    BY <1>1, <1>5, <2>2 DEF Passed, Gone
  <2>5. Asked(a)' /\ m_agent[a] = "ask"
    BY <1>1, <1>3, <1>7 DEF Asked
  <2>6. Replied(a)'
    BY <1>1, <1>3, <1>4, <2>2, <2>5 DEF Replied
  <2>7. Unasked(a)'
    BY <1>1, <1>2, <2>5 DEF RequestIs, Unasked
  <2>8. OnTheLine(a)' /\ Noted(a)' /\ Resolved(a)'
    BY <1>1, <1>3, <2>2 DEF OnTheLine, Noted, Resolved
  <2>9. RequestIs(a)'
    BY <2>6, <2>7, <2>8 DEF RequestIs
  <2> QED BY <2>2, <2>3, <2>4, <2>9, OwnStep
<1> QED BY <1>6, <1>7

(* The barrier is full when all have come.                                 *)
LEMMA FullIsEveryone ==
  ASSUME NEW s \in SUBSET Agents, Medium!Full(s)
  PROVE  s = Agents
<1>1. Medium!Cardinality(s) = Cardinality(s)
      /\ Medium!Cardinality(Agents) = Cardinality(Agents)
  BY DEF Medium!Cardinality, Cardinality
<1> QED BY <1>1, FS_Subset, Settings DEF Medium!Full

(* The last to come finds the act of everybody, for the same slot.         *)
LEMMA ResolveKeepsSlot ==
  ASSUME SlotInv, NEW a \in Agents, Medium!Enter(a), Medium!Full(Medium!Waiting \cup {a})
  PROVE  SlotInv'
<1>1. /\ m_thread[a] = "enter" /\ Medium!Resolve
      /\ m_thread' = [b \in Agents |->
                        IF b \in Medium!Waiting \cup {a} THEN "out" ELSE m_thread[b]]
      /\ UNCHANGED <<m_agent, m_fired, m_told, m_request, m_reply>>
  BY DEF Medium!Enter
<1>2. Medium!Waiting \cup {a} = Agents
  BY FullIsEveryone DEF Medium!Waiting
<1>3. \A b \in Agents : m_thread[b] \in {"enter", "wait"} /\ m_thread'[b] = "out"
  BY <1>1, <1>2 DEF Medium!Waiting
<1>4. MediumTypes /\ \A b \in Agents : RequestIs(b)
  BY DEF SlotInv
<1>5. \A b \in Agents : /\ Asked(b) /\ m_request[b] = "none" /\ m_reply[b] = {}
                        /\ b \in DOMAIN m_acts /\ (m_acts[b] <=> FiresNow(b))
  BY <1>3, <1>4 DEF RequestIs, Noted
<1>6. \A b \in Agents : /\ m_told[b] \in Nat /\ ~Gone(b) /\ ~Gone(b)'
                        /\ Passed(b) = m_told[b] /\ Passed(b)' = m_told[b] + 1
  BY <1>1, <1>3, <1>4, <1>5 DEF MediumTypes, Gone, Passed
<1>7. \A b, c \in Agents : m_told[b] = m_told[c]
  BY <1>6 DEF SlotInv, SameSlot
<1>8. DOMAIN m_acts = Agents
  BY <1>4, <1>5 DEF MediumTypes
<1>9. Medium!Transmitters = {b \in Agents : FiresNow(b)}
  BY <1>5, <1>8 DEF Medium!Transmitters
<1>10. PICK lucky \in BOOLEAN :
         m_result' = [b \in Agents |->
           [delivered |-> Medium!Transmitters = {b} /\ lucky,
            busy |-> \E c \in Medium!Transmitters : c # b]]
  BY <1>1 DEF Medium!Resolve
<1>11. ASSUME NEW b \in Agents
       PROVE  /\ m_result'[b] \in [delivered : BOOLEAN, busy : BOOLEAN]
              /\ RightFor(b, m_result'[b])
  <2>1. m_result'[b] = [delivered |-> Medium!Transmitters = {b} /\ lucky,
                        busy |-> \E c \in Medium!Transmitters : c # b]
    BY <1>10
  <2>2. FiredWith(b) = Medium!Transmitters \ {b}
    BY <1>7, <1>9 DEF FiredWith, FiresNow
  <2>3. m_result'[b].busy <=> FiredWith(b) # {}
    BY <2>1, <2>2
  <2>4. m_result'[b].delivered => FiredWith(b) = {} /\ FiresNow(b)
    <3>1. m_result'[b].delivered => Medium!Transmitters = {b}
      <4>1. m_result'[b].delivered = (Medium!Transmitters = {b} /\ lucky)
        BY <2>1
      <4> QED BY <4>1
    <3>2. Medium!Transmitters = {b} => FiredWith(b) = {} /\ b \in Medium!Transmitters
      BY <2>2
    <3> QED BY <1>9, <3>1, <3>2
  <2> QED BY <2>1, <2>3, <2>4 DEF RightFor
<1>12. MediumTypes'
  <2>1. DOMAIN m_acts' = {}
    BY <1>1 DEF Medium!Resolve
  <2> QED BY <1>1, <1>3, <1>4, <2>1 DEF MediumTypes
<1>13. SameSlot'
  BY <1>6, <1>7 DEF SameSlot
<1>14. ASSUME NEW b \in Agents PROVE RequestIs(b)'
  <2>1. FiresNow(b)' = FiresNow(b) /\ \A r : RightFor(b, r)' = RightFor(b, r)
    BY <1>1, StaysRight
  <2>2. Unasked(b)'
    <3>1. m_agent[b] \in {"ask", "killed"}
      BY <1>5 DEF Asked
    <3> QED BY <1>1, <1>4, <3>1 DEF RequestIs, Unasked
  <2>3. OnTheLine(b)' /\ Noted(b)' /\ Replied(b)'
    BY <1>1, <1>3, <1>5 DEF OnTheLine, Noted, Replied
  <2>4. Resolved(b)'
    BY <1>1, <1>5, <1>11, <2>1 DEF Resolved, Asked
  <2> QED BY <2>2, <2>3, <2>4 DEF RequestIs
<1> QED BY <1>12, <1>13, <1>14 DEF SlotInv

(* Who is not the last waits.                                              *)
LEMMA WaitKeepsSlot ==
  ASSUME SlotInv, NEW a \in Agents, Medium!Enter(a), ~Medium!Full(Medium!Waiting \cup {a})
  PROVE  SlotInv'
<1>1. /\ m_thread[a] = "enter" /\ m_thread' = [m_thread EXCEPT ![a] = "wait"]
      /\ UNCHANGED <<m_agent, m_fired, m_told, m_request, m_reply, m_acts, m_result>>
  BY DEF Medium!Enter
<1>2. MediumTypes /\ RequestIs(a)
  BY DEF SlotInv
<1>3. MediumTypes' /\ m_thread'[a] = "wait"
  BY <1>1, <1>2 DEF MediumTypes
<1>4. Elsewhere(a)
  BY <1>1, <1>2 DEF Elsewhere, MediumTypes
<1>5. FiresNow(a)' = FiresNow(a)
  BY <1>1, StaysRight
<1>6. Noted(a)
  BY <1>2 DEF RequestIs
<1>7. Asked(a) /\ m_request[a] = "none" /\ m_reply[a] = {}
  BY <1>1, <1>6 DEF Noted
<1>8. Unasked(a)' /\ OnTheLine(a)' /\ Resolved(a)' /\ Replied(a)'
  BY <1>1, <1>2, <1>3, <1>7 DEF RequestIs, Unasked, OnTheLine, Resolved, Replied, Asked
<1>9. Noted(a)'
  BY <1>1, <1>3, <1>5, <1>6 DEF Noted, Asked
<1>10. Passed(a)' = Passed(a) /\ ~Gone(a)
  BY <1>1, <1>3 DEF Passed, Gone
<1>11. RequestIs(a)'
  BY <1>8, <1>9 DEF RequestIs
<1> QED BY <1>3, <1>4, <1>10, <1>11, OwnStep

mediumData ==
  <<m_agent, m_fired, m_told, m_thread, m_request, m_reply, m_acts, m_result>>

LEMMA SlotFrame ==
  ASSUME SlotInv, UNCHANGED mediumData
  PROVE  SlotInv'
<1> USE DEF mediumData
<1>1. MediumTypes'
  BY DEF SlotInv, MediumTypes
<1>2. \A a \in Agents : Passed(a)' = Passed(a) /\ Gone(a)' = Gone(a)
  BY DEF Passed, Gone
<1>3. SameSlot'
  BY <1>2 DEF SlotInv, SameSlot
<1>4. ASSUME NEW a \in Agents PROVE RequestIs(a)'
  <2>1. RequestIs(a)
    BY DEF SlotInv
  <2>2. FiresNow(a)' = FiresNow(a) /\ \A r : RightFor(a, r)' = RightFor(a, r)
    BY StaysRight
  <2>3. Unasked(a)' /\ OnTheLine(a)' /\ Noted(a)'
    BY <2>1, <2>2 DEF RequestIs, Unasked, OnTheLine, Noted, Asked
  <2>4. Resolved(a)' /\ Replied(a)'
    BY <2>1, <2>2 DEF RequestIs, Resolved, Replied, Asked
  <2> QED BY <2>3, <2>4 DEF RequestIs
<1> QED BY <1>1, <1>3, <1>4 DEF SlotInv

LEMMA SlotStep == SlotInv /\ [MediaNext]_<<vars, medium, sim>> => SlotInv'
<1> SUFFICES ASSUME SlotInv, [MediaNext]_<<vars, medium, sim>>
             PROVE  SlotInv'
  OBVIOUS
<1>1. CASE Medium!Next
  <2>1. CASE Medium!Breaks
    <3>1. UNCHANGED mediumData
      BY <2>1 DEF Medium!Breaks, Medium!Break, mediumData
    <3> QED BY <3>1, SlotFrame
  <2>2. ASSUME NEW a \in Agents,
               Medium!Connect(a) \/ Medium!Kill(a) \/ Medium!Asks(a) \/ Medium!Serves(a)
        PROVE  SlotInv'
    BY <2>2, ConnectKeepsSlot, DecideKeepsSlot, LastStepKeepsSlot, HearKeepsSlot,
       ThreadKeepsSlot, NoteKeepsSlot, AnswerKeepsSlot, ResolveKeepsSlot, WaitKeepsSlot
       DEF Medium!Asks, Medium!Serves
  <2> QED BY <1>1, <2>1, <2>2 DEF Medium!Next
<1>2. CASE UNCHANGED medium
  <2>1. UNCHANGED mediumData
    BY <1>2 DEF medium, mediumData
  <2> QED BY <2>1, SlotFrame
<1> QED BY <1>1, <1>2 DEF MediaNext

LEMMA SlotInit == MediaInit => SlotInv
<1> SUFFICES ASSUME Medium!Init \/ NoMedium PROVE SlotInv
  BY DEF MediaInit
<1>1. /\ m_agent \in [Agents -> {"off", "closed"}] /\ m_fired = [a \in Agents |-> {}]
      /\ m_told = [a \in Agents |-> 0] /\ m_thread \in [Agents -> {"none", "ended"}]
      /\ m_request = [a \in Agents |-> "none"] /\ m_reply = [a \in Agents |-> {}]
      /\ DOMAIN m_acts = {}
  <2>1. CASE Medium!Init
    BY <2>1 DEF Medium!Init, Medium!Silence
  <2>2. CASE NoMedium
    BY <2>2 DEF NoMedium, Medium!Silence
  <2> QED BY <2>1, <2>2
<1>2. MediumTypes
  BY <1>1 DEF MediumTypes
<1>3. ASSUME NEW a \in Agents
      PROVE  /\ m_agent[a] \in {"off", "closed"} /\ m_fired[a] = {} /\ m_told[a] = 0
             /\ m_thread[a] \in {"none", "ended"} /\ m_request[a] = "none" /\ m_reply[a] = {}
  BY <1>1
<1>4. \A a \in Agents : Passed(a) = 0
  BY <1>3 DEF Passed
<1>5. ASSUME NEW a \in Agents PROVE RequestIs(a)
  BY <1>3 DEF RequestIs, Unasked, OnTheLine, Noted, Resolved, Replied
<1> QED BY <1>2, <1>4, <1>5 DEF SlotInv, SameSlot

LEMMA AnswersAreRight == SlotInv => Medium!AnswersOfTheSlot
BY DEF SlotInv, RequestIs, Replied, RightFor, FiredWith, FiresNow, Medium!AnswersOfTheSlot

(* In the simulated network one voice is heard at a time                   *)
(* (marl_network.py), and the mock medium's answers are of the slot that   *)
(* was asked about (mock_medium.py).                                       *)
THEOREM StandInsBehave == MediaSpec => []MediaBehave
<1>1. MediaInit => OneVoiceInv /\ SlotInv
  BY VoiceInit, SlotInit
<1>2. OneVoiceInv /\ SlotInv /\ [MediaNext]_<<vars, medium, sim>> => OneVoiceInv' /\ SlotInv'
  BY VoiceStep, SlotStep
<1>3. OneVoiceInv /\ SlotInv => MediaBehave
  BY AnswersAreRight DEF OneVoiceInv, MediaBehave
<1> QED BY <1>1, <1>2, <1>3, PTL DEF MediaSpec

-----------------------------------------------------------------------------
(* The fires of the warm radios.                                           *)
Bursts == [by : Radios, slot : Nat]
Joined(a) == source[a] \in {"tx", "wait"}
Firing(a) == source[a] \in {"connect", "tx", "wait"}

FiresTyped ==
  /\ variant \in Variants
  /\ pc \in {"step", "fires", "ended", "raised"} /\ t \in Nat
  /\ delivered \in [Radios -> Nat] /\ flags \subseteq Radios
  /\ res \in [Radios -> {"none", "yes", "no", "error"}]
  /\ source \in [Radios -> {"idle", "connect", "tx", "wait", "dead", "closed"}]
  /\ ackIn \in [Radios -> Seq(Bursts)]
  /\ station \in {"listen", "session", "grace", "down"}
  /\ backlog \in Seq(Radios) /\ guest \in Radios \cup {NoOne}
  /\ fifo \in Seq(Bursts) /\ heard \subseteq Bursts
  /\ IsFiniteSet(credits)
  /\ \A c \in credits : c.to \in Radios /\ c.at \in Nat

(* Only who is to fire in this epoch, and has not reported, is at it.      *)
FiringNow ==
  /\ \A a \in Radios : Firing(a) => pc = "fires" /\ a \in Fired(flags) /\ res[a] = "none"
  /\ \A a \in Radios : source[a] \in {"connect", "tx"} => a \notin sent
  /\ pc = "step" => sent = {}

(* A source that is past connecting is in the kernel's queue, or the       *)
(* session's, or was reset.                                                *)
Connected ==
  /\ \A i \in DOMAIN backlog : Joined(backlog[i])
  /\ \A i, j \in DOMAIN backlog : backlog[i] = backlog[j] => i = j
  /\ guest # NoOne => Joined(guest) /\ station \in {"session", "grace"}
  /\ station # "listen" => backlog = <<>>
  /\ \A a \in Radios : Joined(a) =>
       a = guest \/ a \in dropped \/ station = "down" \/ \E i \in DOMAIN backlog : backlog[i] = a

(* What would make a fire of a's TRUE by right.                            *)
Excused(b, a) == b \in carried \/ (b.slot = t /\ (b.by = a \/ b.by \in dropped))

AcksExcused ==
  /\ \A a \in Radios : ackIn[a] # <<>> => Joined(a) /\ (guest = a \/ station = "down")
  /\ \A a \in Radios : \A i \in DOMAIN ackIn[a] : Excused(ackIn[a][i], a)
  /\ guest # NoOne => \A i \in DOMAIN fifo : Excused(fifo[i], guest)

Dated(b) == b.slot <= t /\ (pc \in {"step", "fires"} /\ b.slot = t => b.by \in sent)

(* A burst is in one place only: in the FIFO, decoded, and once decoded on *)
(* the way to one source or credited to one fire.                          *)
DecodedOnce ==
  /\ \A i, j \in DOMAIN fifo : fifo[i] = fifo[j] => i = j
  /\ \A i \in DOMAIN fifo : fifo[i] \notin heard /\ Dated(fifo[i])
  /\ \A b \in heard : Dated(b)
  /\ \A a \in Radios : \A i \in DOMAIN ackIn[a] : ackIn[a][i] \in heard
  /\ \A a, d \in Radios : \A i \in DOMAIN ackIn[a], j \in DOMAIN ackIn[d] :
       ackIn[a][i] = ackIn[d][j] => a = d /\ i = j
  /\ \A c \in credits : c.burst \in heard
  /\ \A c \in credits : \A a \in Radios : \A i \in DOMAIN ackIn[a] : ackIn[a][i] # c.burst
  /\ \A c, d \in credits : c.burst = d.burst => c = d

Credited(a) == \E c \in credits : c.to = a /\ c.at = t
Earned(a) == {c \in credits : c.to = a /\ c.at < t}

(* The epoch's TRUEs are credits not yet booked.                           *)
FireBooks ==
  /\ \A c \in credits : c.at <= t /\ (pc = "step" => c.at < t)
  /\ \A c, d \in credits : c.to = d.to /\ c.at = d.at => c = d
  /\ variant # "mock" =>
       /\ pc = "fires" => \A a \in Radios : (a \in flags /\ res[a] = "yes") <=> Credited(a)
       /\ \A a \in Radios : delivered[a] = Cardinality(Earned(a))

FiresInv == /\ FiresTyped /\ FiringNow /\ Connected /\ AcksExcused /\ DecodedOnce
            /\ FireBooks /\ TrueIsOwnBurst

-----------------------------------------------------------------------------
LEMMA FiresInvEarns == FiresInv => TrueIsEarned
BY DEF FiresInv, DecodedOnce, FireBooks, Earned, TrueIsEarned, OneDecodePerSuccess

LEMMA FiresInitInv == FiresInit => FiresInv
<1> HAVE FiresInit
<1> USE DEF FiresInit
<1>1. FiresTyped
  <2>1. IsFiniteSet({})
    BY FS_EmptySet
  <2> QED BY <2>1, FiresAssumption DEF FiresTyped, Radios, NoOne, Bursts
<1>2. FiringNow /\ Connected /\ AcksExcused
  BY DEF FiringNow, Connected, AcksExcused, Firing, Joined, NoOne
<1>3. DecodedOnce
  BY DEF DecodedOnce
<1>4. FireBooks
  <2>1. \A a \in Radios : Earned(a) = {}
    BY DEF Earned
  <2>2. Cardinality({}) = 0
    BY FS_EmptySet
  <2> QED BY <2>1, <2>2 DEF FireBooks, Credited
<1> QED BY <1>1, <1>2, <1>3, <1>4 DEF FiresInv, TrueIsOwnBurst

LEMMA SeqDomain ==
  ASSUME NEW S, NEW s \in Seq(S)
  PROVE  DOMAIN s = 1..Len(s) /\ Len(s) \in Nat /\ \A i \in DOMAIN s : i \in Int
<1>1. DOMAIN s = 1..Len(s) /\ Len(s) \in Nat
  BY LenProperties
<1> QED BY <1>1

(* What two sequences make, one after the other.                           *)
LEMMA Joins ==
  ASSUME NEW S, NEW front \in Seq(S), NEW back \in Seq(S)
  PROVE  /\ front \o back \in Seq(S)
         /\ Len(front \o back) = Len(front) + Len(back)
         /\ \A j \in 1 .. Len(front) + Len(back) :
               (front \o back)[j] = IF j <= Len(front) THEN front[j] ELSE back[j - Len(front)]
BY ConcatProperties

(* How many are before and after the i-th of n; and numbering without it.  *)
LEMMA AroundOne ==
  ASSUME NEW n \in Int, NEW i \in Int, NEW before, NEW after, before = i - 1, after = n - i
  PROVE  before + after = n - 1
OBVIOUS

LEMMA SkipOne ==
  ASSUME NEW i \in Int, NEW l \in Int, NEW j \in Int,
         (IF l < i THEN l ELSE l + 1) = (IF j < i THEN j ELSE j + 1)
  PROVE  l = j
OBVIOUS

(* What is left of a sequence when one of it goes.                         *)
LEMMA RemoveAtLeaves ==
  ASSUME NEW S, NEW s \in Seq(S), NEW i \in DOMAIN s
  PROVE  /\ RemoveAt(s, i) \in Seq(S)
         /\ \A j \in DOMAIN RemoveAt(s, i) :
              \E k \in DOMAIN s \ {i} : k = (IF j < i THEN j ELSE j + 1) /\ RemoveAt(s, i)[j] = s[k]
         /\ \A k \in DOMAIN s \ {i} : \E j \in DOMAIN RemoveAt(s, i) : RemoveAt(s, i)[j] = s[k]
<1>n. PICK n \in Nat : n = Len(s)
  OBVIOUS
<1>0. n \in Nat /\ i \in 1..n /\ DOMAIN s = 1..n
  BY <1>n
<1>f. PICK front : front = SubSeq(s, 1, i - 1)
  OBVIOUS
<1>b. PICK back : back = SubSeq(s, i + 1, n)
  OBVIOUS
<1>1. front \in Seq(S) /\ Len(front) = i - 1 /\ \A j \in 1..(i - 1) : front[j] = s[j]
  <2>1. \A j \in 1..(i - 1) : s[j] \in S
    BY <1>0
  <2>2. 1 \in Int /\ i - 1 \in Int
    BY <1>0
  <2>3. /\ SubSeq(s, 1, i - 1) \in Seq(S)
        /\ Len(SubSeq(s, 1, i - 1)) = IF 1 <= i - 1 THEN (i - 1) - 1 + 1 ELSE 0
        /\ \A j \in 1..((i - 1) - 1 + 1) : SubSeq(s, 1, i - 1)[j] = s[1 + j - 1]
    BY <2>1, <2>2, SubSeqProperties
  <2> QED BY <2>3, <1>0, <1>f
<1>2. back \in Seq(S) /\ Len(back) = n - i /\ \A j \in 1..(n - i) : back[j] = s[i + j]
  <2>1. \A j \in (i + 1)..n : s[j] \in S
    BY <1>0
  <2>2. i + 1 \in Int /\ n \in Int
    BY <1>0
  <2>3. /\ SubSeq(s, i + 1, n) \in Seq(S)
        /\ Len(SubSeq(s, i + 1, n)) = IF i + 1 <= n THEN n - (i + 1) + 1 ELSE 0
        /\ \A j \in 1..(n - (i + 1) + 1) : SubSeq(s, i + 1, n)[j] = s[(i + 1) + j - 1]
    BY <2>1, <2>2, SubSeqProperties
  <2> QED BY <2>3, <1>0, <1>b
<1>r. PICK r : r = front \o back
  OBVIOUS
<1>3. r = RemoveAt(s, i)
  BY <1>n, <1>f, <1>b, <1>r DEF RemoveAt
<1>4. /\ r \in Seq(S) /\ Len(r) = n - 1 /\ DOMAIN r = 1..(n - 1)
      /\ \A j \in 1..(n - 1) : r[j] = IF j <= i - 1 THEN front[j] ELSE back[j - (i - 1)]
  <2>1. /\ front \o back \in Seq(S)
        /\ Len(front \o back) = Len(front) + Len(back)
        /\ \A j \in 1 .. Len(front) + Len(back) :
              (front \o back)[j] = IF j <= Len(front) THEN front[j] ELSE back[j - Len(front)]
    <3>1. front \in Seq(S) /\ back \in Seq(S)
      BY <1>1, <1>2
    <3> QED BY <3>1, Joins
  <2>2. Len(front) + Len(back) = n - 1
    <3>1. i \in Int /\ n \in Int
      BY <1>0
    <3>2. Len(front) = i - 1 /\ Len(back) = n - i
      BY <1>1, <1>2
    <3> QED BY <3>1, <3>2, AroundOne
  <2>3. r \in Seq(S) /\ Len(r) = n - 1
    BY <2>1, <2>2, <1>r
  <2>4. DOMAIN r = 1..(n - 1)
    <3>1. DOMAIN r = 1..Len(r)
      BY <2>3, LenProperties
    <3> QED BY <2>3, <3>1
  <2> QED BY <2>1, <2>2, <2>3, <2>4, <1>1, <1>r
<1>5. ASSUME NEW j \in 1..(n - 1), j < i PROVE r[j] = s[j]
  <2>1. j \in 1..(i - 1) /\ j <= i - 1
    BY <1>0, <1>5
  <2> QED BY <2>1, <1>1, <1>4
<1>6. ASSUME NEW j \in 1..(n - 1), ~(j < i) PROVE r[j] = s[j + 1]
  <2>1. j \in Int /\ i \in Int /\ n \in Int /\ i <= j /\ j <= n - 1 /\ 1 <= i
    BY <1>0, <1>6
  <2>2. ~(j <= i - 1) /\ j - (i - 1) \in 1..(n - i)
    BY <2>1
  <2>3. i + (j - (i - 1)) = j + 1
    BY <2>1
  <2> QED BY <2>2, <2>3, <1>2, <1>4
<1>7. ASSUME NEW j \in 1..(n - 1)
      PROVE  \E k \in 1..n \ {i} : k = (IF j < i THEN j ELSE j + 1) /\ r[j] = s[k]
  <2>1. CASE j < i
    BY <2>1, <1>0, <1>5
  <2>2. CASE ~(j < i)
    <3>1. j + 1 \in 1..n \ {i}
      BY <2>2, <1>0
    <3> QED BY <3>1, <2>2, <1>6
  <2> QED BY <2>1, <2>2
<1>8. ASSUME NEW k \in 1..n \ {i} PROVE \E j \in 1..(n - 1) : r[j] = s[k]
  <2>1. CASE k < i
    <3>1. k \in 1..(n - 1)
      BY <2>1, <1>0
    <3> QED BY <3>1, <2>1, <1>5
  <2>2. CASE k > i
    <3>1. k - 1 \in 1..(n - 1) /\ ~(k - 1 < i) /\ (k - 1) + 1 = k
      BY <2>2, <1>0
    <3> QED BY <3>1, <1>6
  <2>3. k < i \/ k > i
    BY <1>0
  <2> QED BY <2>1, <2>2, <2>3
<1>9. /\ r \in Seq(S)
      /\ \A j \in DOMAIN r : \E k \in DOMAIN s \ {i} : k = (IF j < i THEN j ELSE j + 1) /\ r[j] = s[k]
      /\ \A k \in DOMAIN s \ {i} : \E j \in DOMAIN r : r[j] = s[k]
  <2>1. \A j \in DOMAIN r :
          \E k \in DOMAIN s \ {i} : k = (IF j < i THEN j ELSE j + 1) /\ r[j] = s[k]
    <3> TAKE j \in DOMAIN r
    <3>1. j \in 1..(n - 1)
      BY <1>4
    <3> QED BY <3>1, <1>0, <1>7, Zenon
  <2>2. \A k \in DOMAIN s \ {i} : \E j \in DOMAIN r : r[j] = s[k]
    <3> TAKE k \in DOMAIN s \ {i}
    <3>1. k \in 1..n \ {i}
      BY <1>0
    <3> QED BY <3>1, <1>4, <1>8, Zenon
  <2> QED BY <2>1, <2>2, <1>4
<1> QED BY <1>3, <1>9

(* Every source that leaves: its connection goes with it, and nothing else *)
(* about connections and acknowledgements changes.                         *)
LEMMA LeavesConnected ==
  ASSUME FiresTyped, Connected, AcksExcused, NEW a \in Radios, HangsUp(a),
         NEW s \in {"idle", "dead"}, source' = [source EXCEPT ![a] = s],
         UNCHANGED <<t, station, fifo, carried, dropped>>
  PROVE  /\ backlog' \in Seq(Radios) /\ guest' \in Radios \cup {NoOne}
         /\ ackIn' \in [Radios -> Seq(Bursts)]
         /\ ackIn' = [ackIn EXCEPT ![a] = <<>>]
         /\ Connected' /\ AcksExcused'
<1> USE DEF FiresTyped
<1>1. /\ ackIn' = [ackIn EXCEPT ![a] = <<>>] /\ guest' = IF guest = a THEN NoOne ELSE guest
      /\ guest' \in Radios \cup {NoOne}
  BY DEF HangsUp, Unread
<1>2. ackIn' \in [Radios -> Seq(Bursts)] /\ ackIn'[a] = <<>>
      /\ \A x \in Radios \ {a} : ackIn'[x] = ackIn[x]
  BY <1>1
<1>3. ~Joined(a)' /\ \A x \in Radios \ {a} : Joined(x)' <=> Joined(x)
  BY DEF Joined
<1>4. /\ backlog' \in Seq(Radios)
      /\ \A j \in DOMAIN backlog' : backlog'[j] # a
      /\ \A j \in DOMAIN backlog' : \E k \in DOMAIN backlog : backlog'[j] = backlog[k]
      /\ \A k \in DOMAIN backlog : backlog[k] # a => \E j \in DOMAIN backlog' : backlog'[j] = backlog[k]
      /\ \A i, j \in DOMAIN backlog' : backlog'[i] = backlog'[j] => i = j
      /\ backlog = <<>> => backlog' = <<>>
  <2>1. CASE a \notin ToSet(backlog) /\ UNCHANGED backlog
    BY <2>1 DEF ToSet, Connected
  <2>2. ASSUME NEW i \in DOMAIN backlog, backlog[i] = a, backlog' = RemoveAt(backlog, i)
        PROVE  <1>4
    <3>1. /\ backlog' \in Seq(Radios)
          /\ \A j \in DOMAIN backlog' :
               \E k \in DOMAIN backlog \ {i} :
                  k = (IF j < i THEN j ELSE j + 1) /\ backlog'[j] = backlog[k]
          /\ \A k \in DOMAIN backlog \ {i} : \E j \in DOMAIN backlog' : backlog'[j] = backlog[k]
      BY <2>2, RemoveAtLeaves
    <3>2. \A k, l \in DOMAIN backlog : backlog[k] = backlog[l] => k = l
      BY DEF Connected
    <3>3. \A j \in DOMAIN backlog' : backlog'[j] # a
      BY <3>1, <3>2, <2>2
    <3>4. \A k \in DOMAIN backlog : backlog[k] # a => \E j \in DOMAIN backlog' : backlog'[j] = backlog[k]
      BY <3>1, <2>2
    <3>5. ASSUME NEW l \in DOMAIN backlog', NEW j \in DOMAIN backlog', backlog'[l] = backlog'[j]
          PROVE  l = j
      <4>1. PICK k \in DOMAIN backlog \ {i} : k = (IF l < i THEN l ELSE l + 1) /\ backlog'[l] = backlog[k]
        BY <3>1
      <4>2. PICK m \in DOMAIN backlog \ {i} : m = (IF j < i THEN j ELSE j + 1) /\ backlog'[j] = backlog[m]
        BY <3>1
      <4>3. k = m
        BY <3>5, <4>1, <4>2, <3>2
      <4>4. l \in Int /\ j \in Int /\ i \in Int
        <5>1. backlog \in Seq(Radios) /\ backlog' \in Seq(Radios)
          BY <3>1
        <5>2. \A q \in DOMAIN backlog : q \in Int
          BY <5>1, SeqDomain
        <5>3. \A q \in DOMAIN backlog' : q \in Int
          BY <5>1, SeqDomain
        <5> QED BY <5>2, <5>3
      <4>5. (IF l < i THEN l ELSE l + 1) = (IF j < i THEN j ELSE j + 1)
        BY <4>1, <4>2, <4>3
      <4> QED BY <4>4, <4>5, SkipOne
    <3>6. backlog # <<>>
      OBVIOUS
    <3> QED BY <3>1, <3>3, <3>4, <3>5, <3>6
  <2> QED BY <2>1, <2>2 DEF HangsUp
<1>5. Connected'
  <2>1. \A i \in DOMAIN backlog' : Joined(backlog[i])'
    <3> TAKE i \in DOMAIN backlog'
    <3>1. backlog'[i] \in Radios \ {a}
      BY <1>4
    <3>2. Joined(backlog'[i])
      BY <1>4 DEF Connected
    <3> PICK x \in Radios \ {a} : x = backlog'[i]
      BY <3>1
    <3>3. Joined(x)'
      BY <3>2, <1>3
    <3> QED BY <3>3 DEF Joined
  <2>2. guest' # NoOne => Joined(guest)' /\ station' \in {"session", "grace"}
    <3> SUFFICES ASSUME guest' # NoOne PROVE Joined(guest)' /\ station' \in {"session", "grace"}
      OBVIOUS
    <3>1. guest' = guest /\ guest # a /\ guest # NoOne /\ guest \in Radios
      BY <1>1
    <3>2. Joined(guest) /\ station \in {"session", "grace"}
      BY <3>1 DEF Connected
    <3> QED BY <3>1, <3>2 DEF Joined
  <2>3. station' # "listen" => backlog' = <<>>
    BY <1>4 DEF Connected
  <2>4. ASSUME NEW x \in Radios, Joined(x)'
        PROVE  x = guest' \/ x \in dropped' \/ station' = "down" \/ \E i \in DOMAIN backlog' : backlog'[i] = x
    <3>1. x # a /\ Joined(x)
      BY <2>4, <1>3
    <3>2. x = guest \/ x \in dropped \/ station = "down" \/ \E i \in DOMAIN backlog : backlog[i] = x
      BY <3>1 DEF Connected
    <3> QED BY <3>1, <3>2, <1>1, <1>4
  <2> QED BY <2>1, <2>2, <2>3, <2>4, <1>4 DEF Connected
<1>6. AcksExcused'
  <2>1. \A b, x : Excused(b, x)' <=> Excused(b, x)
    BY DEF Excused
  <2>2. ASSUME NEW x \in Radios, ackIn'[x] # <<>>
        PROVE  Joined(x)' /\ (guest' = x \/ station' = "down")
    <3>1. x # a
      BY <2>2, <1>2
    <3> QED BY <2>2, <3>1, <1>1, <1>2, <1>3 DEF AcksExcused
  <2>3. ASSUME NEW x \in Radios, NEW i \in DOMAIN ackIn'[x] PROVE Excused(ackIn'[x][i], x)
    <3>1. x # a
      BY <2>3, <1>2
    <3> QED BY <2>3, <3>1, <1>2 DEF AcksExcused
  <2>4. guest' # NoOne => \A i \in DOMAIN fifo' : Excused(fifo'[i], guest')
    BY <1>1 DEF AcksExcused
  <2>5. \A x \in Radios : \A i \in DOMAIN ackIn'[x] : Excused(ackIn[x][i], x)'
    BY <2>1, <2>3 DEF Excused
  <2>6. guest' # NoOne => \A i \in DOMAIN fifo' : Excused(fifo[i], guest)'
    BY <2>4 DEF Excused
  <2> QED BY <2>2, <2>5, <2>6 DEF AcksExcused
<1> QED BY <1>1, <1>2, <1>4, <1>5, <1>6

LEMMA FiredAreFlagged ==
  ASSUME FiresTyped PROVE Fired(flags) \subseteq flags /\ (variant = "mock" => Fired(flags) = {})
BY DEF Fired

LEMMA LeavesFiring ==
  ASSUME FiresTyped, FiringNow, NEW a \in Radios, NEW s \in {"idle", "dead"},
         source' = [source EXCEPT ![a] = s], UNCHANGED <<variant, pc, flags, sent>>,
         \A x \in Radios \ {a} : res'[x] = res[x]
  PROVE  FiringNow'
<1>1. \A x \in Radios \ {a} : source'[x] = source[x]
  BY DEF FiresTyped
<1>2. source'[a] \notin {"connect", "tx", "wait"}
  BY DEF FiresTyped
<1>3. Fired(flags)' = Fired(flags)
  BY DEF Fired
<1>4. \A x \in Radios : Firing(x)' => x # a /\ Firing(x)
  BY <1>1, <1>2 DEF Firing
<1> QED BY <1>1, <1>2, <1>3, <1>4 DEF FiringNow

(* Where decoded bursts are does not change when a connection goes, but for*)
(* the one credited.                                                       *)
LEMMA LeavesDecoded ==
  ASSUME FiresTyped, DecodedOnce, NEW a \in Radios, ackIn' = [ackIn EXCEPT ![a] = <<>>],
         UNCHANGED <<fifo, heard, pc, t, sent>>,
         \/ credits' = credits
         \/ ackIn[a] # <<>> /\ \E c : c.burst = ackIn[a][1] /\ credits' = credits \cup {c}
  PROVE  DecodedOnce'
<1>1. ackIn'[a] = <<>> /\ \A x \in Radios \ {a} : ackIn'[x] = ackIn[x]
  BY DEF FiresTyped
<1>2. \A b : Dated(b)' <=> Dated(b)
  BY DEF Dated
<1>3. /\ \A i, j \in DOMAIN fifo' : fifo'[i] = fifo'[j] => i = j
      /\ \A i \in DOMAIN fifo' : fifo'[i] \notin heard' /\ Dated(fifo[i])'
      /\ \A b \in heard' : Dated(b)'
  BY <1>2 DEF DecodedOnce
<1>4. \A x \in Radios : \A i \in DOMAIN ackIn'[x] : x # a
  BY <1>1
<1>5. /\ \A x \in Radios : \A i \in DOMAIN ackIn'[x] : ackIn'[x][i] \in heard'
      /\ \A x, d \in Radios : \A i \in DOMAIN ackIn'[x], j \in DOMAIN ackIn'[d] :
           ackIn'[x][i] = ackIn'[d][j] => x = d /\ i = j
  BY <1>1, <1>4 DEF DecodedOnce
<1>6. CASE credits' = credits
  BY <1>1, <1>3, <1>4, <1>5, <1>6 DEF DecodedOnce
<1>7. CASE ackIn[a] # <<>> /\ \E c : c.burst = ackIn[a][1] /\ credits' = credits \cup {c}
  <2>1. 1 \in DOMAIN ackIn[a]
    BY <1>7 DEF FiresTyped
  <2> PICK c : c.burst = ackIn[a][1] /\ credits' = credits \cup {c}
    BY <1>7
  <2>2. c.burst \in heard /\ \A d \in credits : d.burst # c.burst
    BY <2>1 DEF DecodedOnce
  <2>3. \A x \in Radios : \A i \in DOMAIN ackIn'[x] : ackIn'[x][i] # c.burst
    BY <2>1, <1>1, <1>4 DEF DecodedOnce
  <2>4. \A d \in credits' : d.burst \in heard'
    BY <2>2 DEF DecodedOnce
  <2>5. \A d \in credits' : \A x \in Radios : \A i \in DOMAIN ackIn'[x] : ackIn'[x][i] # d.burst
    BY <2>3, <1>1, <1>4 DEF DecodedOnce
  <2>6. \A d, e \in credits' : d.burst = e.burst => d = e
    BY <2>2 DEF DecodedOnce
  <2> QED BY <1>3, <1>5, <2>4, <2>5, <2>6 DEF DecodedOnce
<1> QED BY <1>6, <1>7

LEMMA DecodedFrame ==
  ASSUME FiresTyped, DecodedOnce, UNCHANGED <<fifo, heard, ackIn, credits>>,
         \A b \in Bursts : Dated(b) => Dated(b)'
  PROVE  DecodedOnce'
<1>1. \A i \in DOMAIN fifo : fifo[i] \in Bursts /\ Dated(fifo[i])
  BY DEF FiresTyped, DecodedOnce
<1>2. \A i \in DOMAIN fifo' : fifo'[i] \notin heard' /\ Dated(fifo[i])'
  <2> TAKE i \in DOMAIN fifo'
  <2> PICK b \in Bursts : b = fifo[i]
    BY <1>1
  <2>1. Dated(b)'
    BY <1>1
  <2>2. Dated(fifo[i])'
    BY <2>1 DEF Dated
  <2> QED BY <2>2 DEF DecodedOnce
<1>3. \A b \in heard' : Dated(b)'
  BY DEF FiresTyped, DecodedOnce
<1> QED BY <1>2, <1>3 DEF DecodedOnce

LEMMA FireBooksFrame ==
  ASSUME FireBooks, UNCHANGED <<variant, pc, t, delivered, flags, credits>>,
         \A x \in Radios : res'[x] = "yes" <=> res[x] = "yes"
  PROVE  FireBooks'
<1>1. \A x : Credited(x)' <=> Credited(x)
  BY DEF Credited
<1>2. \A x : Earned(x)' = Earned(x)
  BY DEF Earned
<1> QED BY <1>1, <1>2 DEF FireBooks

(* A source leaves with a verdict that is not TRUE, or dies.               *)
LEMMA LeavesInv ==
  ASSUME FiresInv, NEW a \in Radios, HangsUp(a),
         NEW s \in {"idle", "dead"}, source' = [source EXCEPT ![a] = s],
         \/ UNCHANGED res /\ ~Firing(a)
         \/ Firing(a) /\ res' \in {[res EXCEPT ![a] = "no"], [res EXCEPT ![a] = "error"]},
         UNCHANGED <<variant, pc, t, delivered, flags, station, fifo, sent, credits, history>>
  PROVE  FiresInv'
<1> USE DEF FiresInv
<1>0. UNCHANGED <<heard, carried, dropped>>
  BY DEF history
<1>1. /\ backlog' \in Seq(Radios) /\ guest' \in Radios \cup {NoOne}
      /\ ackIn' \in [Radios -> Seq(Bursts)]
      /\ ackIn' = [ackIn EXCEPT ![a] = <<>>]
      /\ Connected' /\ AcksExcused'
  BY <1>0, LeavesConnected
<1>2. /\ res' \in [Radios -> {"none", "yes", "no", "error"}]
      /\ \A x \in Radios \ {a} : res'[x] = res[x]
      /\ res'[a] = "yes" <=> res[a] = "yes"
  BY DEF FiresTyped, FiringNow
<1>3. FiresTyped'
  BY <1>0, <1>1, <1>2 DEF FiresTyped
<1>4. FiringNow'
  BY <1>2, LeavesFiring
<1>5. DecodedOnce'
  BY <1>0, <1>1, LeavesDecoded
<1>6. FireBooks'
  BY <1>2, FireBooksFrame
<1>7. TrueIsOwnBurst'
  BY DEF TrueIsOwnBurst
<1> QED BY <1>1, <1>3, <1>4, <1>5, <1>6, <1>7

-----------------------------------------------------------------------------
LEMMA DialInv == FiresInv /\ (\E a \in Radios : Dial(a)) => FiresInv'
<1> SUFFICES ASSUME FiresInv, NEW a \in Radios, Dial(a) PROVE FiresInv'
  OBVIOUS
<1> USE DEF FiresInv
<1>0. /\ source[a] = "connect" /\ station = "listen"
      /\ backlog' = Append(backlog, a) /\ source' = [source EXCEPT ![a] = "tx"]
      /\ UNCHANGED <<variant, pc, t, delivered, flags, res, ackIn, station, guest, fifo, sent,
                     credits, heard, carried, dropped>>
  BY DEF Dial, programVars, envVars, history
<1>1. \A x \in Radios : x # a => source'[x] = source[x]
  BY <1>0 DEF FiresTyped
<1>2. source'[a] = "tx"
  BY <1>0 DEF FiresTyped
<1>3. backlog' \in Seq(Radios) /\ Len(backlog') = Len(backlog) + 1
      /\ (\A i \in DOMAIN backlog : i \in DOMAIN backlog' /\ backlog'[i] = backlog[i])
      /\ Len(backlog) + 1 \in DOMAIN backlog' /\ backlog'[Len(backlog) + 1] = a
      /\ \A i \in DOMAIN backlog' : i = Len(backlog) + 1 \/ i \in DOMAIN backlog
  BY <1>0 DEF FiresTyped
<1>4. FiresTyped'
  BY <1>0, <1>3 DEF FiresTyped
<1>5. FiringNow'
  <2>1. Fired(flags)' = Fired(flags)
    BY <1>0 DEF Fired
  <2>2. \A x \in Radios : Firing(x)' <=> Firing(x)
    BY <1>0, <1>1, <1>2 DEF Firing
  <2> QED BY <2>1, <2>2, <1>0, <1>1 DEF FiringNow
<1>6. \A x \in Radios : Joined(x)' <=> Joined(x) \/ x = a
  BY <1>1, <1>2 DEF Joined
<1>7. Connected'
  <2>1. \A i \in DOMAIN backlog : backlog[i] \in Radios \ {a}
    BY <1>0 DEF Connected, Joined, FiresTyped
  <2>2. ASSUME NEW i \in DOMAIN backlog' PROVE Joined(backlog[i])'
    <3>1. backlog'[i] \in Radios /\ (backlog'[i] = a \/ Joined(backlog'[i]))
      <4>1. CASE i \in DOMAIN backlog
        <5>1. backlog'[i] = backlog[i] /\ backlog[i] \in Radios
          BY <4>1, <1>3 DEF FiresTyped
        <5>2. Joined(backlog[i])
          BY <4>1 DEF Connected
        <5> QED BY <5>1, <5>2
      <4>2. CASE i = Len(backlog) + 1
        BY <4>2, <1>3
      <4> QED BY <4>1, <4>2, <1>3
    <3> PICK x \in Radios : x = backlog'[i]
      BY <3>1
    <3>2. Joined(x)'
      BY <3>1, <1>6
    <3> QED BY <3>2 DEF Joined
  <2>3. \A i, j \in DOMAIN backlog' : backlog'[i] = backlog'[j] => i = j
    BY <1>3, <2>1 DEF Connected
  <2>4. guest' # NoOne => Joined(guest)' /\ station' \in {"session", "grace"}
    BY <1>0, <1>1 DEF Connected, Joined, FiresTyped
  <2>5. ASSUME NEW x \in Radios, Joined(x)'
        PROVE  x = guest' \/ x \in dropped' \/ station' = "down" \/ \E i \in DOMAIN backlog' : backlog'[i] = x
    <3>1. CASE x = a
      BY <3>1, <1>3
    <3>2. CASE x # a
      BY <3>2, <2>5, <1>0, <1>3, <1>6 DEF Connected
    <3> QED BY <3>1, <3>2
  <2> QED BY <2>2, <2>3, <2>4, <2>5, <1>0 DEF Connected
<1>8. AcksExcused'
  <2>1. \A b, x : Excused(b, x)' <=> Excused(b, x)
    BY <1>0 DEF Excused
  <2>2. \A x \in Radios : ackIn'[x] # <<>> => Joined(x)' /\ (guest' = x \/ station' = "down")
    BY <1>0, <1>6 DEF AcksExcused
  <2>3. \A x \in Radios : \A i \in DOMAIN ackIn'[x] : Excused(ackIn[x][i], x)'
    BY <1>0, <2>1 DEF AcksExcused, Excused
  <2>4. guest' # NoOne => \A i \in DOMAIN fifo' : Excused(fifo[i], guest)'
    BY <1>0 DEF AcksExcused, Excused
  <2> QED BY <2>2, <2>3, <2>4 DEF AcksExcused
<1>9. DecodedOnce'
  BY <1>0, DecodedFrame DEF Dated
<1>10. FireBooks'
  BY <1>0, FireBooksFrame
<1> QED BY <1>0, <1>4, <1>5, <1>7, <1>8, <1>9, <1>10 DEF TrueIsOwnBurst

LEMMA TransmitInv == FiresInv /\ (\E a \in Radios : Transmit(a)) => FiresInv'
<1> SUFFICES ASSUME FiresInv, NEW a \in Radios, Transmit(a) PROVE FiresInv'
  OBVIOUS
<1> USE DEF FiresInv
<1>0. /\ source[a] = "tx" /\ source' = [source EXCEPT ![a] = "wait"] /\ sent' = sent \cup {a}
      /\ UNCHANGED <<variant, pc, t, delivered, flags, res, ackIn, station, backlog, guest,
                     credits, heard, carried, dropped>>
  BY DEF Transmit, programVars, envVars, stationVars, history
<1> PICK b : b = [by |-> a, slot |-> t]
  OBVIOUS
<1>1. b \in Bursts
  BY DEF FiresTyped, Bursts
<1>2. fifo' = fifo \/ (station # "down" /\ fifo' = Append(fifo, b))
  BY DEF Transmit
<1>3. fifo' \in Seq(Bursts)
  <2>1. fifo \in Seq(Bursts)
    BY DEF FiresTyped
  <2>2. Append(fifo, b) \in Seq(Bursts)
    BY <2>1, <1>1, AppendProperties
  <2> QED BY <2>1, <2>2, <1>2
<1>4. \A x \in Radios : x # a => source'[x] = source[x]
  BY <1>0 DEF FiresTyped
<1>5. source'[a] = "wait"
  BY <1>0 DEF FiresTyped
<1>6. \A x \in Radios : (Joined(x)' <=> Joined(x)) /\ (Firing(x)' <=> Firing(x))
  BY <1>0, <1>4, <1>5 DEF Joined, Firing
<1>7. FiresTyped'
  BY <1>0, <1>3 DEF FiresTyped
<1>8. FiringNow'
  <2>1. Fired(flags)' = Fired(flags)
    BY <1>0 DEF Fired
  <2>2. pc = "fires" /\ a \notin sent
    BY <1>0 DEF FiringNow, Firing
  <2>3. \A x \in Radios : source'[x] \in {"connect", "tx"} => x # a /\ source[x] \in {"connect", "tx"}
    BY <1>4, <1>5
  <2> QED BY <2>1, <2>2, <2>3, <1>0, <1>6 DEF FiringNow
<1>9. Connected'
  <2>1. ASSUME NEW i \in DOMAIN backlog' PROVE Joined(backlog[i])'
    <3>1. backlog'[i] \in Radios /\ Joined(backlog'[i])
      BY <1>0 DEF Connected, FiresTyped
    <3> PICK x \in Radios : x = backlog'[i]
      BY <3>1
    <3>2. Joined(x)'
      BY <3>1, <1>6
    <3> QED BY <3>2 DEF Joined
  <2>2. guest' # NoOne => Joined(guest)' /\ station' \in {"session", "grace"}
    BY <1>0, <1>4, <1>5 DEF Connected, Joined, FiresTyped
  <2> QED BY <2>1, <2>2, <1>0, <1>6 DEF Connected
<1>10. \A c, x : Excused(c, x)' <=> Excused(c, x)
  BY <1>0 DEF Excused
<1>11. guest' # NoOne => \A i \in DOMAIN fifo' : Excused(fifo[i], guest)'
  <2> SUFFICES ASSUME guest # NoOne, NEW i \in DOMAIN fifo' PROVE Excused(fifo'[i], guest')
    BY <1>0 DEF Excused
  <2>1. \A j \in DOMAIN fifo : Excused(fifo[j], guest)
    BY DEF AcksExcused
  <2>2. CASE fifo' = fifo
    BY <2>1, <2>2, <1>0 DEF Excused
  <2>3. CASE fifo' = Append(fifo, b)
    <3>1. Excused(b, guest)
      <4>1. backlog = <<>> /\ station # "down"
        BY DEF Connected
      <4>2. Joined(a)
        BY <1>0 DEF Joined
      <4>3. a = guest \/ a \in dropped
        BY <4>1, <4>2 DEF Connected
      <4> QED BY <4>3 DEF Excused
    <3>2. fifo'[i] = b \/ (i \in DOMAIN fifo /\ fifo'[i] = fifo[i])
      BY <2>3, <1>1 DEF FiresTyped
    <3> QED BY <3>1, <3>2, <2>1, <1>0 DEF Excused
  <2> QED BY <2>2, <2>3, <1>2
<1>12. AcksExcused'
  <2>1. \A x \in Radios : ackIn'[x] # <<>> => Joined(x)' /\ (guest' = x \/ station' = "down")
    BY <1>0, <1>6 DEF AcksExcused
  <2>2. \A x \in Radios : \A i \in DOMAIN ackIn'[x] : Excused(ackIn[x][i], x)'
    BY <1>0 DEF AcksExcused, Excused
  <2> QED BY <2>1, <2>2, <1>11 DEF AcksExcused
<1>13. DecodedOnce'
  <2>1. \A c \in Bursts : Dated(c) => Dated(c)'
    BY <1>0 DEF Dated
  <2>2. CASE fifo' = fifo
    BY <2>1, <2>2, <1>0, DecodedFrame
  <2>3. CASE fifo' = Append(fifo, b)
    <3>1. Dated(b)' /\ ~Dated(b)
      <4>1. pc = "fires" /\ a \notin sent
        BY <1>0 DEF FiringNow, Firing
      <4> QED BY <4>1, <1>0 DEF Dated, FiresTyped
    <3>2. b \notin heard /\ \A i \in DOMAIN fifo : fifo[i] # b
      BY <3>1 DEF DecodedOnce
    <3>3. /\ DOMAIN fifo' = 1..(Len(fifo) + 1) /\ DOMAIN fifo = 1..Len(fifo) /\ Len(fifo) \in Nat
          /\ fifo'[Len(fifo) + 1] = b
          /\ \A i \in DOMAIN fifo : fifo'[i] = fifo[i]
      BY <2>3, <1>1 DEF FiresTyped
    <3>4. \A i \in DOMAIN fifo' : i = Len(fifo) + 1 \/ i \in DOMAIN fifo
      BY <3>3
    <3>5. \A i, j \in DOMAIN fifo' : fifo'[i] = fifo'[j] => i = j
      BY <3>2, <3>3, <3>4 DEF DecodedOnce
    <3>6. \A i \in DOMAIN fifo' : fifo'[i] \notin heard'
      BY <3>2, <3>3, <3>4, <1>0 DEF DecodedOnce
    <3>7. ASSUME NEW i \in DOMAIN fifo' PROVE Dated(fifo[i])'
      <4>1. CASE i \in DOMAIN fifo
        <5> PICK c \in Bursts : c = fifo[i]
          BY <4>1 DEF FiresTyped
        <5>1. Dated(c)'
          BY <4>1, <2>1 DEF DecodedOnce
        <5> QED BY <5>1, <4>1, <3>3 DEF Dated
      <4>2. CASE i = Len(fifo) + 1
        BY <4>2, <3>1, <3>3 DEF Dated
      <4> QED BY <4>1, <4>2, <3>4
    <3>8. \A c \in heard' : Dated(c)'
      BY <1>0, <2>1 DEF DecodedOnce, FiresTyped
    <3> QED BY <3>5, <3>6, <3>7, <3>8, <1>0 DEF DecodedOnce
  <2> QED BY <2>2, <2>3, <1>2
<1>14. FireBooks'
  BY <1>0, FireBooksFrame
<1> QED BY <1>0, <1>7, <1>8, <1>9, <1>12, <1>13, <1>14 DEF TrueIsOwnBurst

(* The fire that an ACK makes TRUE.                                        *)
LEMMA PollAckInv == FiresInv /\ (\E a \in Radios : PollAck(a)) => FiresInv'
<1> SUFFICES ASSUME FiresInv, NEW a \in Radios, PollAck(a) PROVE FiresInv'
  OBVIOUS
<1> USE DEF FiresInv
<1> PICK b : b = Head(ackIn[a])
  OBVIOUS
<1> PICK c : c = [to |-> a, at |-> t, burst |-> b, old |-> b \in carried,
                  reset |-> b.by \in dropped]
  OBVIOUS
<1>0. /\ source[a] = "wait" /\ ackIn[a] # <<>>
      /\ credits' = credits \cup {c}
      /\ HangsUp(a)
      /\ source' = [source EXCEPT ![a] = "idle"] /\ res' = [res EXCEPT ![a] = "yes"]
      /\ UNCHANGED <<variant, pc, t, delivered, flags, station, fifo, sent, heard, carried, dropped>>
  BY DEF PollAck, Finish, programVars, envVars, history
<1>1. /\ backlog' \in Seq(Radios) /\ guest' \in Radios \cup {NoOne}
      /\ ackIn' \in [Radios -> Seq(Bursts)]
      /\ ackIn' = [ackIn EXCEPT ![a] = <<>>]
      /\ Connected' /\ AcksExcused'
  BY <1>0, LeavesConnected
<1>2. 1 \in DOMAIN ackIn[a] /\ b = ackIn[a][1]
  BY <1>0 DEF FiresTyped
<1>3. pc = "fires" /\ a \in flags /\ variant # "mock" /\ res[a] = "none"
  BY <1>0, FiredAreFlagged DEF FiringNow, Firing
<1>4. FiresTyped'
  <2>1. IsFiniteSet(credits')
    BY <1>0, FS_AddElement DEF FiresTyped
  <2>2. \A d \in credits' : d.to \in Radios /\ d.at \in Nat
    BY <1>0 DEF FiresTyped
  <2>3. res' \in [Radios -> {"none", "yes", "no", "error"}]
    BY <1>0 DEF FiresTyped
  <2>4. source' \in [Radios -> {"idle", "connect", "tx", "wait", "dead", "closed"}]
    BY <1>0 DEF FiresTyped
  <2> QED BY <2>1, <2>2, <2>3, <2>4, <1>0, <1>1 DEF FiresTyped
<1>5. FiringNow'
  BY <1>0, LeavesFiring DEF FiresTyped
<1>6. DecodedOnce'
  <2>1. c.burst = ackIn[a][1]
    BY <1>2
  <2> QED BY <2>1, <1>0, <1>1, LeavesDecoded
<1>7. \A d \in credits : ~(d.to = a /\ d.at = t)
  BY <1>3 DEF FireBooks, Credited
<1>8. FireBooks'
  <2>1. \A d \in credits' : d.at <= t' /\ (pc' = "step" => d.at < t')
    BY <1>0, <1>3 DEF FireBooks, FiresTyped
  <2>2. \A d, e \in credits' : d.to = e.to /\ d.at = e.at => d = e
    BY <1>0, <1>7 DEF FireBooks
  <2>3. \A x \in Radios : Credited(x)' <=> Credited(x) \/ x = a
    BY <1>0 DEF Credited
  <2>4. \A x \in Radios : (x \in flags' /\ res'[x] = "yes") <=> (x \in flags /\ res[x] = "yes") \/ x = a
    BY <1>0, <1>3 DEF FiresTyped
  <2>5. \A x \in Radios : Earned(x)' = Earned(x)
    <3>1. ~(c.at < t)
      BY DEF FiresTyped
    <3> QED BY <3>1, <1>0 DEF Earned
  <2> QED BY <2>1, <2>2, <2>3, <2>4, <2>5, <1>0, <1>3 DEF FireBooks
<1>9. TrueIsOwnBurst'
  <2>1. Excused(b, a)
    BY <1>2 DEF AcksExcused
  <2>2. c.old \/ (c.burst.slot = c.at /\ (c.burst.by = c.to \/ c.reset))
    BY <2>1 DEF Excused
  <2> QED BY <2>2, <1>0 DEF TrueIsOwnBurst
<1> QED BY <1>1, <1>4, <1>5, <1>6, <1>8, <1>9

(* The verdicts that are not TRUE, the second attempt, and the deaths.     *)
LEMMA SourceInv ==
  FiresInv /\ (\E a \in Radios : Source(a) \/ SourceDies(a)) => FiresInv'
<1> SUFFICES ASSUME FiresInv, NEW a \in Radios, Source(a) \/ SourceDies(a) PROVE FiresInv'
  OBVIOUS
<1>1. ASSUME Firing(a), NEW v \in {"no", "error"}, Finish(a, v),
             UNCHANGED <<programVars, fifo, sent, credits, history>>
      PROVE  FiresInv'
  BY <1>1, LeavesInv DEF Finish, programVars, envVars
<1>2. CASE DialFails(a)
  BY <1>2, <1>1 DEF DialFails, Firing
<1>3. CASE Timeout(a)
  BY <1>3, <1>1 DEF Timeout, Verdict, Firing
<1>4. CASE DeviceBusy(a)
  <2>1. CASE again
    BY <1>4, <2>1, <1>1 DEF DeviceBusy, Firing
  <2>2. CASE ~again
    <3>1. UNCHANGED <<variant, pc, t, delivered, flags, res, source, ackIn, station, backlog, guest,
                      fifo, sent, credits, heard, carried, dropped>>
      BY <1>4, <2>2 DEF DeviceBusy, programVars, envVars, stationVars, history
    <3>2. FiresTyped' /\ FiringNow' /\ Connected' /\ AcksExcused' /\ TrueIsOwnBurst'
      BY <3>1 DEF FiresInv, FiresTyped, FiringNow, Connected, AcksExcused, Excused, TrueIsOwnBurst,
                  Firing, Fired, Joined
    <3>3. DecodedOnce'
      BY <3>1, DecodedFrame DEF FiresInv, Dated
    <3>4. FireBooks'
      BY <3>1, FireBooksFrame DEF FiresInv
    <3> QED BY <3>2, <3>3, <3>4 DEF FiresInv
  <2> QED BY <2>1, <2>2
<1>5. CASE SourceDies(a)
  <2>1. source[a] = "idle" \/ Firing(a)
    BY <1>5 DEF SourceDies, Firing, FiresInv, FiresTyped
  <2>2. /\ HangsUp(a) /\ source' = [source EXCEPT ![a] = "dead"]
        /\ res' = IF source[a] = "idle" THEN res ELSE [res EXCEPT ![a] = "error"]
        /\ UNCHANGED <<variant, pc, t, delivered, flags, station, fifo, sent, credits, history>>
    BY <1>5 DEF SourceDies, programVars, envVars
  <2>3. source[a] = "idle" => ~Firing(a)
    BY DEF Firing
  <2>4. Firing(a) => source[a] # "idle"
    BY DEF Firing
  <2> QED BY <2>1, <2>2, <2>3, <2>4, LeavesInv
<1> QED BY <1>2, <1>3, <1>4, <1>5, DialInv, TransmitInv, PollAckInv DEF Source

-----------------------------------------------------------------------------
LEMMA AcceptInv == FiresInv /\ AcceptOne => FiresInv'
<1> SUFFICES ASSUME FiresInv, AcceptOne PROVE FiresInv'
  OBVIOUS
<1> USE DEF FiresInv
<1>0. /\ station = "listen" /\ backlog # <<>> /\ guest' = Head(backlog)
      /\ dropped' = dropped \cup ToSet(Tail(backlog))
      /\ backlog' = <<>> /\ station' = "session" /\ carried' = ToSet(fifo)
      /\ UNCHANGED <<variant, pc, t, delivered, flags, res, source, ackIn, fifo, sent, credits, heard>>
  BY DEF AcceptOne, programVars, envVars, sourceVars
<1>1. /\ 1 \in DOMAIN backlog /\ guest' = backlog[1] /\ guest' \in Radios
      /\ \A i \in DOMAIN backlog : i = 1 \/ backlog[i] \in ToSet(Tail(backlog))
  <2>1. /\ Tail(backlog) \in Seq(Radios) /\ Len(Tail(backlog)) = Len(backlog) - 1
        /\ \A i \in 1..Len(Tail(backlog)) : Tail(backlog)[i] = backlog[i + 1]
    BY <1>0, HeadTailProperties DEF FiresTyped
  <2>2. backlog \in Seq(Radios) /\ DOMAIN backlog = 1..Len(backlog) /\ Len(backlog) \in Nat
    BY SeqDomain DEF FiresTyped
  <2>3. Len(backlog) >= 1
    BY <2>2, <1>0
  <2>4. guest' = backlog[1]
    BY <1>0, <2>2
  <2>5. DOMAIN Tail(backlog) = 1..(Len(backlog) - 1)
    BY <2>1
  <2>6. ASSUME NEW i \in DOMAIN backlog, i # 1 PROVE backlog[i] \in ToSet(Tail(backlog))
    <3>1. i - 1 \in 1..(Len(backlog) - 1) /\ (i - 1) + 1 = i
      BY <2>2, <2>6
    <3>2. Tail(backlog)[i - 1] = backlog[i]
      BY <2>1, <3>1
    <3> QED BY <3>1, <3>2, <2>5 DEF ToSet
  <2> QED BY <2>2, <2>3, <2>4, <2>6
<1>2. guest = NoOne /\ \A x \in Radios : ackIn[x] = <<>>
  <2>1. guest = NoOne
    BY <1>0 DEF Connected
  <2>2. \A x \in Radios : x # NoOne
    BY DEF Radios, NoOne
  <2> QED BY <2>1, <2>2, <1>0 DEF AcksExcused, FiresTyped
<1>3. \A x \in Radios : (Joined(x)' <=> Joined(x)) /\ (Firing(x)' <=> Firing(x))
  BY <1>0 DEF Joined, Firing
<1>4. FiresTyped'
  BY <1>0, <1>1 DEF FiresTyped
<1>5. FiringNow'
  BY <1>0, <1>3 DEF FiringNow, Fired
<1>6. Connected'
  <2>1. Joined(guest)'
    <3>1. Joined(backlog[1])
      BY <1>1 DEF Connected
    <3> QED BY <3>1, <1>0, <1>1 DEF Joined
  <2>2. ASSUME NEW x \in Radios, Joined(x)' PROVE x = guest' \/ x \in dropped'
    <3>1. x \in dropped \/ \E i \in DOMAIN backlog : backlog[i] = x
      <4>1. x # NoOne
        BY DEF Radios, NoOne
      <4> QED BY <4>1, <2>2, <1>0, <1>2, <1>3 DEF Connected
    <3> QED BY <3>1, <1>0, <1>1
  <2> QED BY <2>1, <2>2, <1>0 DEF Connected
<1>7. AcksExcused'
  <2>1. \A x \in Radios : ackIn'[x] = <<>>
    BY <1>0, <1>2
  <2>2. \A i \in DOMAIN fifo' : Excused(fifo[i], guest)'
    BY <1>0 DEF Excused, ToSet
  <2> QED BY <2>1, <2>2 DEF AcksExcused
<1>8. DecodedOnce'
  BY <1>0, DecodedFrame DEF Dated
<1>9. FireBooks'
  BY <1>0, FireBooksFrame
<1> QED BY <1>0, <1>4, <1>5, <1>6, <1>7, <1>8, <1>9 DEF TrueIsOwnBurst

(* A burst decoded and acknowledged, on whatever connection there is.      *)
LEMMA SinkPopInv == FiresInv /\ SinkPop => FiresInv'
<1> SUFFICES ASSUME FiresInv, SinkPop PROVE FiresInv'
  OBVIOUS
<1> USE DEF FiresInv
<1> PICK b : b = Head(fifo)
  OBVIOUS
<1>0. /\ station \in {"session", "grace"} /\ fifo # <<>> /\ fifo' = Tail(fifo)
      /\ heard' = heard \cup {b}
      /\ ackIn' = IF guest = NoOne THEN ackIn ELSE [ackIn EXCEPT ![guest] = Append(@, b)]
      /\ UNCHANGED <<variant, pc, t, delivered, flags, res, source, station, backlog, guest, sent,
                     credits, carried, dropped>>
  BY DEF SinkPop, Popped, programVars, envVars
<1>1. /\ b \in Bursts /\ 1 \in DOMAIN fifo /\ b = fifo[1] /\ fifo' \in Seq(Bursts)
      /\ \A i \in DOMAIN fifo' : i + 1 \in DOMAIN fifo /\ i + 1 # 1 /\ fifo'[i] = fifo[i + 1]
      /\ \A i \in DOMAIN fifo' : i \in Int
  <2>1. fifo \in Seq(Bursts) /\ DOMAIN fifo = 1..Len(fifo) /\ Len(fifo) \in Nat
    BY SeqDomain DEF FiresTyped
  <2>2. /\ Head(fifo) \in Bursts /\ Tail(fifo) \in Seq(Bursts) /\ Len(Tail(fifo)) = Len(fifo) - 1
        /\ \A i \in 1..Len(Tail(fifo)) : Tail(fifo)[i] = fifo[i + 1]
    BY <2>1, <1>0, HeadTailProperties
  <2>3. DOMAIN fifo' = 1..(Len(fifo) - 1)
    BY <2>2, <1>0
  <2>4. Len(fifo) >= 1 /\ b = fifo[1]
    BY <2>1, <1>0
  <2>5. \A i \in 1..(Len(fifo) - 1) : i + 1 \in 1..Len(fifo) /\ i + 1 # 1
    BY <2>1
  <2> QED BY <2>1, <2>2, <2>3, <2>4, <2>5, <1>0
<1>2. /\ ackIn' \in [Radios -> Seq(Bursts)]
      /\ \A x \in Radios : x # guest => ackIn'[x] = ackIn[x]
      /\ \A x \in Radios : x = guest => ackIn'[x] = Append(ackIn[x], b)
  <2>1. \A x \in Radios : x # NoOne
    BY DEF Radios, NoOne
  <2>2. \A x \in Radios : Append(ackIn[x], b) \in Seq(Bursts)
    BY <1>1, AppendProperties DEF FiresTyped
  <2> QED BY <2>1, <2>2, <1>0 DEF FiresTyped
<1>3. \A x \in Radios : \A i \in DOMAIN ackIn'[x] :
        \/ i \in DOMAIN ackIn[x] /\ ackIn'[x][i] = ackIn[x][i]
        \/ x = guest /\ i = Len(ackIn[x]) + 1 /\ ackIn'[x][i] = b
  <2> TAKE x \in Radios
  <2>1. CASE x # guest
    BY <2>1, <1>2
  <2>2. CASE x = guest
    <3>1. ackIn[x] \in Seq(Bursts)
      BY DEF FiresTyped
    <3>2. \A i \in DOMAIN Append(ackIn[x], b) :
            \/ i \in DOMAIN ackIn[x] /\ Append(ackIn[x], b)[i] = ackIn[x][i]
            \/ i = Len(ackIn[x]) + 1 /\ Append(ackIn[x], b)[i] = b
      BY <3>1, <1>1
    <3> QED BY <3>2, <2>2, <1>2
  <2> QED BY <2>1, <2>2
<1>4. FiresTyped'
  BY <1>0, <1>1, <1>2 DEF FiresTyped
<1>5. \A x : (Joined(x)' <=> Joined(x)) /\ (Firing(x)' <=> Firing(x))
  BY <1>0 DEF Joined, Firing
<1>6. FiringNow'
  BY <1>0, <1>5 DEF FiringNow, Fired
<1>7. Connected'
  BY <1>0 DEF Connected, Joined
<1>8. AcksExcused'
  <2>1. \A c, x : Excused(c, x)' <=> Excused(c, x)
    BY <1>0 DEF Excused
  <2>2. \A i \in DOMAIN fifo' : guest # NoOne => Excused(fifo'[i], guest)
    BY <1>1 DEF AcksExcused
  <2>3. guest \in Radios => Excused(b, guest)
    <3>1. \A x \in Radios : x # NoOne
      BY DEF Radios, NoOne
    <3> QED BY <3>1, <1>1 DEF AcksExcused
  <2>4. \A x \in Radios : \A i \in DOMAIN ackIn'[x] : Excused(ackIn'[x][i], x)
    BY <2>3, <1>3 DEF AcksExcused
  <2>5. ASSUME NEW x \in Radios, ackIn'[x] # <<>> PROVE Joined(x)' /\ (guest' = x \/ station' = "down")
    <3>1. CASE x = guest
      <4>1. guest # NoOne
        BY <3>1 DEF Radios, NoOne
      <4> QED BY <4>1, <3>1, <1>0, <1>5 DEF Connected
    <3>2. CASE x # guest
      BY <3>2, <2>5, <1>0, <1>2, <1>5 DEF AcksExcused
    <3> QED BY <3>1, <3>2
  <2>6. \A x \in Radios : \A i \in DOMAIN ackIn'[x] : Excused(ackIn[x][i], x)'
    BY <2>4, <1>0 DEF Excused
  <2>7. guest' # NoOne => \A i \in DOMAIN fifo' : Excused(fifo[i], guest)'
    BY <2>2, <1>0 DEF Excused
  <2> QED BY <2>5, <2>6, <2>7 DEF AcksExcused
<1>9. DecodedOnce'
  <2>1. \A c : Dated(c)' <=> Dated(c)
    BY <1>0 DEF Dated
  <2>2. b \notin heard /\ Dated(b)
    BY <1>1 DEF DecodedOnce
  <2>3. \A i, j \in DOMAIN fifo' : fifo'[i] = fifo'[j] => i = j
    <3> TAKE i, j \in DOMAIN fifo'
    <3> HAVE fifo'[i] = fifo'[j]
    <3>1. i + 1 = j + 1
      BY <1>1 DEF DecodedOnce
    <3> QED BY <3>1, <1>1
  <2>4. \A i \in DOMAIN fifo' : fifo'[i] # b /\ fifo'[i] \notin heard /\ Dated(fifo'[i])
    BY <1>1 DEF DecodedOnce
  <2>5. \A i \in DOMAIN fifo' : fifo'[i] \notin heard' /\ Dated(fifo[i])'
    BY <2>4, <1>0 DEF Dated
  <2>6. \A c \in heard' : Dated(c)'
    BY <2>1, <2>2, <1>0 DEF DecodedOnce
  <2>7. \A x \in Radios : \A i \in DOMAIN ackIn'[x] : ackIn'[x][i] \in heard'
    BY <1>0, <1>3 DEF DecodedOnce
  <2>8. \A x \in Radios : \A i \in DOMAIN ackIn[x] : ackIn[x][i] # b
    BY <2>2 DEF DecodedOnce
  <2>9. \A x, d \in Radios : \A i \in DOMAIN ackIn'[x], j \in DOMAIN ackIn'[d] :
          ackIn'[x][i] = ackIn'[d][j] => x = d /\ i = j
    BY <2>8, <1>3 DEF DecodedOnce
  <2>10. \A c \in credits' : c.burst \in heard' /\ c.burst # b
    BY <2>2, <1>0 DEF DecodedOnce
  <2>11. \A c \in credits' : \A x \in Radios : \A i \in DOMAIN ackIn'[x] : ackIn'[x][i] # c.burst
    BY <2>10, <1>0, <1>3 DEF DecodedOnce
  <2>12. \A c, d \in credits' : c.burst = d.burst => c = d
    BY <1>0 DEF DecodedOnce
  <2> QED BY <2>3, <2>5, <2>6, <2>7, <2>9, <2>10, <2>11, <2>12 DEF DecodedOnce
<1>10. FireBooks'
  BY <1>0, FireBooksFrame
<1> QED BY <1>0, <1>4, <1>6, <1>7, <1>8, <1>9, <1>10 DEF TrueIsOwnBurst

(* Between sessions, and the access point's end.                           *)
LEMMA StationTurnsInv ==
  FiresInv /\ (SessionDone \/ SessionCap \/ GraceOver \/ ApDies) => FiresInv'
<1> SUFFICES ASSUME FiresInv, SessionDone \/ SessionCap \/ GraceOver \/ ApDies PROVE FiresInv'
  OBVIOUS
<1> USE DEF FiresInv
<1>1. UNCHANGED <<variant, pc, t, delivered, flags, res, source, ackIn, sent, credits,
                  heard, carried, dropped>>
  BY DEF SessionDone, SessionCap, GraceOver, Recycle, ApDies, programVars, envVars, sourceVars, history
<1>2. \A x : (Joined(x)' <=> Joined(x)) /\ (Firing(x)' <=> Firing(x))
  BY <1>1 DEF Joined, Firing
<1>3. FiringNow'
  BY <1>1, <1>2 DEF FiringNow, Fired
<1>4. FireBooks' /\ TrueIsOwnBurst'
  BY <1>1, FireBooksFrame DEF TrueIsOwnBurst
<1>5. \A c, x : Excused(c, x)' <=> Excused(c, x)
  BY <1>1 DEF Excused
<1>6. CASE SessionDone \/ SessionCap \/ GraceOver
  <2>1. /\ UNCHANGED <<backlog, guest, fifo>> /\ station \in {"session", "grace"}
        /\ station' = "grace" \/ (station' = "listen" /\ guest = NoOne)
    BY <1>6 DEF SessionDone, SessionCap, GraceOver, Recycle
  <2>2. FiresTyped'
    BY <1>1, <2>1 DEF FiresTyped
  <2>3. Connected'
    BY <1>1, <2>1 DEF Connected, Joined
  <2>4. AcksExcused'
    <3>1. \A x \in Radios : ackIn'[x] # <<>> => Joined(x)' /\ (guest' = x \/ station' = "down")
      BY <1>1, <1>2, <2>1 DEF AcksExcused
    <3>2. \A x \in Radios : \A i \in DOMAIN ackIn'[x] : Excused(ackIn[x][i], x)'
      BY <1>1 DEF AcksExcused, Excused
    <3>3. guest' # NoOne => \A i \in DOMAIN fifo' : Excused(fifo[i], guest)'
      BY <1>1, <2>1 DEF AcksExcused, Excused
    <3> QED BY <3>1, <3>2, <3>3 DEF AcksExcused
  <2>5. DecodedOnce'
    BY <1>1, <2>1, DecodedFrame DEF Dated
  <2> QED BY <1>3, <1>4, <2>2, <2>3, <2>4, <2>5
<1>7. CASE ApDies
  <2>1. station' = "down" /\ fifo' = <<>> /\ backlog' = <<>> /\ guest' = NoOne
    BY <1>7 DEF ApDies
  <2>2. FiresTyped'
    BY <1>1, <2>1 DEF FiresTyped
  <2>3. Connected'
    BY <2>1 DEF Connected
  <2>4. AcksExcused'
    <3>1. \A x \in Radios : \A i \in DOMAIN ackIn'[x] : Excused(ackIn[x][i], x)'
      BY <1>1 DEF AcksExcused, Excused
    <3> QED BY <3>1, <1>1, <1>2, <2>1 DEF AcksExcused
  <2>5. DecodedOnce'
    <3>1. \A b : Dated(b)' <=> Dated(b)
      BY <1>1 DEF Dated
    <3> QED BY <3>1, <1>1, <2>1 DEF DecodedOnce
  <2> QED BY <1>3, <1>4, <2>2, <2>3, <2>4, <2>5
<1> QED BY <1>6, <1>7

-----------------------------------------------------------------------------
(* While nobody fires, no connection is open and no ACK is on the way.     *)
LEMMA QuietTurn ==
  ASSUME FiresInv, \A a \in Radios : ~Firing(a),
         \A a \in Radios : ~Joined(a)', UNCHANGED <<station, backlog, guest, ackIn, fifo>>
  PROVE  Connected' /\ AcksExcused'
<1> USE DEF FiresInv
<1>1. \A a \in Radios : ~Joined(a)
  BY DEF Firing, Joined
<1>2. \A i \in DOMAIN backlog : FALSE
  BY <1>1 DEF Connected, FiresTyped
<1>3. guest = NoOne
  BY <1>1 DEF Connected, FiresTyped
<1>4. \A a \in Radios : ackIn[a] = <<>>
  BY <1>1 DEF AcksExcused, FiresTyped
<1> QED BY <1>2, <1>3, <1>4 DEF Connected, AcksExcused

LEMMA StepInv == FiresInv /\ Step => FiresInv'
<1> SUFFICES ASSUME FiresInv, Step PROVE FiresInv'
  OBVIOUS
<1> USE DEF FiresInv
<1>0. /\ pc = "step" /\ pc' = "fires"
      /\ UNCHANGED <<variant, t, delivered, ackIn, station, backlog, guest, fifo, credits, sent,
                     heard, carried, dropped>>
  BY DEF Step, stationVars, history
<1>1. PICK who \in SUBSET Radios, lucky \in BOOLEAN :
        /\ flags' = who /\ (variant # "mock" => ~lucky)
        /\ source' = [a \in Radios |-> IF a \in Fired(who) /\ source[a] # "dead" THEN "connect"
                                       ELSE source[a]]
        /\ res' = [a \in Radios |->
             CASE a \in Fired(who) /\ source[a] = "dead" -> "error"
               [] a \in who \ Fired(who) -> IF lucky /\ who = {a} THEN "yes" ELSE "no"
               [] OTHER -> "none"]
  <2>1. Players \subseteq Radios
    BY FiresAssumption DEF Players, Radios
  <2>2. PICK come \in SUBSET Players, chosen \in SUBSET Players :
          LET q == [a \in Radios |-> IF a \in come /\ queue[a] < QCap THEN queue[a] + 1
                                     ELSE queue[a]]
              who == IF Cold THEN Players ELSE {a \in chosen : q[a] > 0}
              real == Fired(who)
          IN  /\ flags' = who
              /\ source' = [a \in Radios |-> IF a \in real /\ source[a] # "dead" THEN "connect"
                                             ELSE source[a]]
              /\ \E lucky \in IF variant = "mock" THEN BOOLEAN ELSE {FALSE} :
                   res' = [a \in Radios |->
                     CASE a \in real /\ source[a] = "dead" -> "error"
                       [] a \in who \ real -> IF lucky /\ who = {a} THEN "yes" ELSE "no"
                       [] OTHER -> "none"]
    BY Zenon DEF Step
  <2> PICK q : q = [a \in Radios |-> IF a \in come /\ queue[a] < QCap THEN queue[a] + 1
                                     ELSE queue[a]]
    OBVIOUS
  <2> PICK who : who = IF Cold THEN Players ELSE {a \in chosen : q[a] > 0}
    OBVIOUS
  <2>3. /\ flags' = who
        /\ source' = [a \in Radios |-> IF a \in Fired(who) /\ source[a] # "dead" THEN "connect"
                                       ELSE source[a]]
        /\ \E lucky \in IF variant = "mock" THEN BOOLEAN ELSE {FALSE} :
             res' = [a \in Radios |->
               CASE a \in Fired(who) /\ source[a] = "dead" -> "error"
                 [] a \in who \ Fired(who) -> IF lucky /\ who = {a} THEN "yes" ELSE "no"
                 [] OTHER -> "none"]
    BY <2>2, Zenon
  <2>4. who \in SUBSET Radios
    BY <2>1
  <2> PICK lucky \in IF variant = "mock" THEN BOOLEAN ELSE {FALSE} :
             res' = [a \in Radios |->
               CASE a \in Fired(who) /\ source[a] = "dead" -> "error"
                 [] a \in who \ Fired(who) -> IF lucky /\ who = {a} THEN "yes" ELSE "no"
                 [] OTHER -> "none"]
    BY <2>3
  <2>5. lucky \in BOOLEAN /\ (variant # "mock" => ~lucky)
    OBVIOUS
  <2> QED BY <2>3, <2>4, <2>5, Zenon
<1>2. \A a \in Radios : ~Firing(a)
  BY <1>0 DEF FiringNow
<1>3. \A a \in Radios : source'[a] = "connect" \/ source'[a] = source[a]
  BY <1>1
<1>4. \A a \in Radios : source'[a] = "connect" => a \in Fired(who) /\ source[a] # "dead"
  BY <1>1, <1>2 DEF Firing
<1>5. Fired(flags)' = Fired(who)
  BY <1>0, <1>1 DEF Fired
<1>6. \A a \in Radios : ~Joined(a)' /\ (Firing(a)' => source'[a] = "connect")
  BY <1>2, <1>3 DEF Joined, Firing
<1>7. FiresTyped'
  BY <1>0, <1>1 DEF FiresTyped
<1>8. FiringNow'
  <2>1. \A a \in Radios : a \in Fired(who) /\ source[a] # "dead" => res'[a] = "none"
    BY <1>1
  <2> QED BY <2>1, <1>0, <1>4, <1>5, <1>6 DEF FiringNow
<1>9. Connected' /\ AcksExcused'
  BY <1>0, <1>2, <1>6, QuietTurn
<1>10. DecodedOnce'
  BY <1>0, DecodedFrame DEF Dated
<1>11. FireBooks'
  <2>1. \A x : Earned(x)' = Earned(x)
    BY <1>0 DEF Earned
  <2>2. variant # "mock" => \A a \in Radios : res'[a] # "yes"
    BY <1>1
  <2>3. \A a \in Radios : ~Credited(a)'
    BY <1>0 DEF Credited, FireBooks, FiresTyped
  <2> QED BY <2>1, <2>2, <2>3, <1>0 DEF FireBooks
<1> QED BY <1>0, <1>7, <1>8, <1>9, <1>10, <1>11 DEF TrueIsOwnBurst

(* The books: what is added is what was credited in this epoch.            *)
LEMMA SettleInv == FiresInv /\ Settle => FiresInv'
<1> SUFFICES ASSUME FiresInv, Settle PROVE FiresInv'
  OBVIOUS
<1> USE DEF FiresInv
<1>0. /\ pc = "fires" /\ Reported
      /\ flags' = {} /\ res' = [a \in Radios |-> "none"] /\ sent' = {} /\ dropped' = {}
      /\ UNCHANGED <<variant, source, ackIn, station, backlog, guest, fifo, credits, heard, carried>>
  BY DEF Settle, sourceVars, stationVars
<1>1. \/ pc' = "raised" /\ UNCHANGED <<t, delivered>>
      \/ /\ pc' = "step" /\ t' = t + 1
         /\ delivered' = [a \in Radios |-> delivered[a] + (IF a \in Got THEN 1 ELSE 0)]
  BY DEF Settle
<1>2. \A a \in Radios : ~Firing(a)
  BY <1>0 DEF Reported, FiringNow
<1>3. \A a \in Radios : ~Firing(a)' /\ ~Joined(a)'
  BY <1>0, <1>2 DEF Firing, Joined
<1>4. FiresTyped'
  <2>1. CASE UNCHANGED <<t, delivered>>
    BY <2>1, <1>0, <1>1 DEF FiresTyped
  <2>2. CASE /\ pc' = "step" /\ t' = t + 1
             /\ delivered' = [a \in Radios |-> delivered[a] + (IF a \in Got THEN 1 ELSE 0)]
    <3>1. \A a \in Radios : delivered[a] + (IF a \in Got THEN 1 ELSE 0) \in Nat
      <4> TAKE a \in Radios
      <4> PICK n \in Nat : n = delivered[a]
        BY DEF FiresTyped
      <4>1. n + (IF a \in Got THEN 1 ELSE 0) \in Nat
        OBVIOUS
      <4> QED BY <4>1
    <3>2. delivered' \in [Radios -> Nat]
      BY <3>1, <2>2
    <3>3. t' \in Nat
      BY <2>2 DEF FiresTyped
    <3> QED BY <3>2, <3>3, <2>2, <1>0 DEF FiresTyped
  <2> QED BY <2>1, <2>2, <1>1
<1>5. FiringNow'
  BY <1>0, <1>3 DEF FiringNow
<1>6. Connected' /\ AcksExcused'
  BY <1>0, <1>2, <1>3, QuietTurn
<1>7. DecodedOnce'
  <2>1. \A b \in Bursts : Dated(b) => Dated(b)'
    BY <1>1 DEF Dated, Bursts, FiresTyped
  <2> QED BY <2>1, <1>0, DecodedFrame
<1>8. FireBooks'
  <2>1. CASE pc' = "raised" /\ UNCHANGED <<t, delivered>>
    <3>1. \A x : Earned(x)' = Earned(x)
      BY <1>0, <2>1 DEF Earned
    <3> QED BY <3>1, <1>0, <2>1 DEF FireBooks
  <2>2. CASE /\ pc' = "step" /\ t' = t + 1
             /\ delivered' = [a \in Radios |-> delivered[a] + (IF a \in Got THEN 1 ELSE 0)]
    <3>1. \A c \in credits : c.at \in Nat /\ c.at <= t /\ c.at < t + 1
      BY DEF FireBooks, FiresTyped
    <3>2. ASSUME variant # "mock", NEW a \in Radios
          PROVE  delivered'[a] = Cardinality(Earned(a)')
      <4>1. delivered[a] = Cardinality(Earned(a)) /\ ((a \in Got) <=> Credited(a))
        BY <3>2, <1>0 DEF FireBooks, Got
      <4>2. Earned(a)' = {c \in credits : c.to = a /\ c.at < t + 1}
        BY <1>0, <2>2 DEF Earned
      <4>3. CASE Credited(a)
        <5>1. PICK c \in credits : c.to = a /\ c.at = t
          BY <4>3 DEF Credited
        <5>2. \A d \in credits : d.to = a /\ d.at = t => d = c
          BY <5>1 DEF FireBooks
        <5>3. c \notin Earned(a)
          BY <5>1 DEF Earned, FiresTyped
        <5>4. \A d \in credits : d.at < t + 1 <=> d.at < t \/ d.at = t
          BY <3>1 DEF FiresTyped
        <5>5. Earned(a)' = Earned(a) \cup {c}
          BY <5>1, <5>2, <5>4, <4>2 DEF Earned
        <5>6. IsFiniteSet(Earned(a))
          BY FS_Subset DEF Earned, FiresTyped
        <5>7. Cardinality(Earned(a) \cup {c}) = Cardinality(Earned(a)) + 1
          BY <5>3, <5>6, FS_AddElement
        <5>8. delivered'[a] = delivered[a] + 1
          BY <4>1, <4>3, <2>2
        <5> QED BY <5>5, <5>7, <5>8, <4>1
      <4>4. CASE ~Credited(a)
        <5>1. \A d \in credits : d.to = a => (d.at < t + 1 <=> d.at < t)
          BY <4>4, <3>1 DEF Credited, FiresTyped
        <5>2. Earned(a)' = Earned(a)
          BY <5>1, <4>2 DEF Earned
        <5>3. delivered'[a] = delivered[a]
          BY <4>1, <4>4, <2>2 DEF FiresTyped
        <5> QED BY <5>2, <5>3, <4>1
      <4> QED BY <4>3, <4>4
    <3>3. \A c \in credits' : c.at <= t' /\ c.at < t'
      BY <3>1, <1>0, <2>2 DEF FiresTyped
    <3>4. \A c, d \in credits' : c.to = d.to /\ c.at = d.at => c = d
      BY <1>0 DEF FireBooks
    <3>5. variant' = variant /\ pc' # "fires"
      BY <1>0, <2>2
    <3>6. variant # "mock" => \A a \in Radios : delivered'[a] = Cardinality(Earned(a)')
      BY <3>2
    <3> QED BY <3>3, <3>4, <3>5, <3>6 DEF FireBooks
  <2> QED BY <2>1, <2>2, <1>1
<1> QED BY <1>0, <1>4, <1>5, <1>6, <1>7, <1>8 DEF TrueIsOwnBurst

LEMMA CloseInv == FiresInv /\ Close => FiresInv'
<1> SUFFICES ASSUME FiresInv, Close PROVE FiresInv'
  OBVIOUS
<1> USE DEF FiresInv
<1>0. /\ pc \in {"step", "raised"} /\ pc' \in {"ended", "raised"}
      /\ source' = [a \in Radios |-> "closed"]
      /\ UNCHANGED <<variant, t, delivered, flags, res, ackIn, station, backlog, guest, fifo, sent,
                     credits, heard, carried, dropped>>
  BY DEF Close, envVars, stationVars, history
<1>1. \A a \in Radios : ~Firing(a)
  BY <1>0 DEF FiringNow
<1>2. \A a \in Radios : ~Firing(a)' /\ ~Joined(a)' /\ source'[a] = "closed"
  BY <1>0 DEF Firing, Joined
<1>3. FiresTyped'
  BY <1>0 DEF FiresTyped
<1>4. FiringNow'
  BY <1>0, <1>2 DEF FiringNow
<1>5. Connected' /\ AcksExcused'
  BY <1>0, <1>1, <1>2, QuietTurn
<1>6. DecodedOnce'
  BY <1>0, DecodedFrame DEF Dated
<1>7. FireBooks'
  <2>1. \A x : Earned(x)' = Earned(x)
    BY <1>0 DEF Earned
  <2> QED BY <2>1, <1>0 DEF FireBooks
<1> QED BY <1>0, <1>3, <1>4, <1>5, <1>6, <1>7 DEF TrueIsOwnBurst

LEMMA FiresInvStep == FiresInv /\ [FiresNext]_firesVars => FiresInv'
<1> SUFFICES ASSUME FiresInv, [FiresNext]_firesVars PROVE FiresInv'
  OBVIOUS
<1>1. CASE UNCHANGED firesVars
  <2>1. UNCHANGED <<variant, pc, t, delivered, flags, res, source, ackIn, station, backlog, guest,
                    fifo, sent, credits, heard, carried, dropped>>
    BY <1>1 DEF firesVars, envVars, sourceVars, stationVars, history
  <2>2. FiresTyped' /\ FiringNow' /\ Connected' /\ AcksExcused' /\ TrueIsOwnBurst'
    BY <2>1 DEF FiresInv, FiresTyped, FiringNow, Connected, AcksExcused, Excused, TrueIsOwnBurst,
                Firing, Fired, Joined
  <2>3. DecodedOnce'
    BY <2>1, DecodedFrame DEF FiresInv, Dated
  <2>4. FireBooks'
    BY <2>1, FireBooksFrame DEF FiresInv
  <2> QED BY <2>2, <2>3, <2>4 DEF FiresInv
<1> QED BY <1>1, SourceInv, AcceptInv, SinkPopInv, StationTurnsInv, StepInv, SettleInv, CloseInv
        DEF FiresNext, Program, AccessPoint

(* What a fire's TRUE is worth, for any number of agents, of epochs and of *)
(* deaths and under any of the programs: what an agent has delivered is the*)
(* number of its fires that an ACK made TRUE, no two of them are owed to   *)
(* one decoded burst, and each is owed to the agent's own burst of the     *)
(* epoch, to one that its session inherited, or to that of an agent whose  *)
(* connection was reset in the epoch.                                      *)
THEOREM FiresAreEarned == FiresSpec => []TrueIsEarned
<1>1. FiresSpec => []FiresInv
  BY FiresInitInv, FiresInvStep, PTL DEF FiresSpec
<1> QED BY <1>1, FiresInvEarns, PTL
==============================================================================
