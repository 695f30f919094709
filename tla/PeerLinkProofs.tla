--------------------------- MODULE PeerLinkProofs ---------------------------
(***************************************************************************)
(* Proof that the peers keep the promise of SyncGossip, for any number of  *)
(* nodes, any graph, any --steps, and with timeouts striking anywhere.     *)
(*                                                                         *)
(* The argument goes edge by edge.  Sent(n, i) and Taken(n, i) count the   *)
(* frames n has sent and has taken over edge i since it started.  What n   *)
(* has sent and its peer p has not taken is at most one frame, and it is   *)
(* the next one p wants: the first speaker sends its next frame only after *)
(* it took the second's answer, and the second answers only what it took.  *)
(***************************************************************************)
EXTENDS PeerLink, Integers, TLAPS

Frames == Nodes \X Nat

Other(n, i) == IF edges[i][1] = n THEN edges[i][2] ELSE edges[i][1]

TypeOK ==
  /\ Simple(edges) /\ steps \in [Nodes -> Nat] /\ fits \in BOOLEAN
  /\ phase \in [Nodes -> Phases]
  /\ round \in [Nodes -> Nat] /\ pos \in [Nodes -> Nat]
  /\ got \in [Nodes -> SUBSET Frames] /\ heard \in [Nodes -> SUBSET Frames]
  /\ pending \in [Nodes -> Seq(Frames)]
  /\ inbox \in [Nodes -> [Nodes -> Seq(Frames)]]

-----------------------------------------------------------------------------
(* A node by itself: where it is in its walk and what it holds.            *)
Mine(n) == IF got[n] = {} THEN TRUE
           ELSE ~SpeaksFirst(n, pos[n]) /\ got[n] = {<<Peer(n), round[n]>>}

Walks(n) ==
  /\ phase[n] \in {"down", "ready", "closed"} => pos[n] = 0 /\ got[n] = {}
  /\ phase[n] \in {"send", "sending", "recv", "failed"} =>
       pos[n] \in Turns(n) /\ round[n] > 0
  /\ phase[n] = "down" => round[n] = 0
  /\ phase[n] = "recv" => got[n] = {}
  /\ phase[n] \in {"send", "sending"} => (got[n] = {} <=> SpeaksFirst(n, pos[n]))
  /\ Mine(n)

(* Has n finished the exchange of edge i in its round?                     *)
Done(n, i) == pos[n] = 0 \/ i < pos[n]

Finished(n, i) == IF Done(n, i) THEN round[n] ELSE round[n] - 1

HasSent(n) == IF SpeaksFirst(n, pos[n]) THEN phase[n] \in {"sending", "recv"}
              ELSE phase[n] = "sending"

Sends(n, i) == Finished(n, i) + (IF pos[n] = i /\ HasSent(n) THEN 1 ELSE 0)
Takes(n, i) == Finished(n, i) + (IF pos[n] = i /\ got[n] # {} THEN 1 ELSE 0)

-----------------------------------------------------------------------------
(* What is on its way from one node to another.                            *)
NoneOf(s, n) == \A k \in DOMAIN s : s[k][1] # n
OnlyOne(s, n, r) ==
  \E k \in DOMAIN s : s[k] = <<n, r>> /\ \A j \in DOMAIN s : j # k => s[j][1] # n

Empty(n, p) == NoneOf(pending[p], n) /\ inbox[p][n] = <<>>
Carries(n, p, r) ==
  \/ OnlyOne(pending[p], n, r) /\ inbox[p][n] = <<>>
  \/ NoneOf(pending[p], n) /\ inbox[p][n] = << <<n, r>> >> /\ r # CutShort

InStep(n, p, i) ==
  \/ Sends(n, i) = Takes(p, i) /\ Empty(n, p)
  \/ Sends(n, i) = Takes(p, i) + 1 /\ Carries(n, p, Sends(n, i))

(* What a node that failed has left behind: its last frame, or part of it. *)
LeftOver(n, p, i) ==
  /\ Takes(p, i) <= round[n]
  /\ \/ Empty(n, p)
     \/ Carries(n, p, CutShort)
     \/ Takes(p, i) < round[n] /\ Carries(n, p, Takes(p, i) + 1)

Link(n, p, i) == IF phase[n] = "failed" THEN LeftOver(n, p, i) ELSE InStep(n, p, i)

Links == \A n \in Nodes : \A i \in Turns(n) : Link(n, Other(n, i), i)

(* What a node has consumed in its round.                                  *)
Consumed(n) ==
  round[n] > 0 =>
    heard[n] = {<<Other(n, i), round[n]>> : i \in {j \in Turns(n) : Done(n, j)}}

IInv == /\ TypeOK
        /\ \A n \in Nodes : Walks(n) /\ Consumed(n)
        /\ Links

-----------------------------------------------------------------------------
(* Queues.                                                                 *)
LEMMA QueueAppend ==
  ASSUME NEW s \in Seq(Frames), NEW m \in Nodes, NEW r \in Nat
  PROVE  /\ Append(s, <<m, r>>) \in Seq(Frames)
         /\ NoneOf(s, m) => OnlyOne(Append(s, <<m, r>>), m, r)
         /\ \A n : n # m /\ NoneOf(s, n) => NoneOf(Append(s, <<m, r>>), n)
         /\ \A n, x : n # m /\ OnlyOne(s, n, x) => OnlyOne(Append(s, <<m, r>>), n, x)
<1> DEFINE t == Append(s, <<m, r>>)
<1>1. /\ t \in Seq(Frames) /\ DOMAIN t = 1..(Len(s) + 1) /\ DOMAIN s = 1..Len(s)
      /\ \A k \in DOMAIN s : t[k] = s[k]
      /\ t[Len(s) + 1] = <<m, r>> /\ Len(s) \in Nat
  BY DEF Frames
<1> HIDE DEF t
<1>2. NoneOf(s, m) => OnlyOne(t, m, r)
  <2> SUFFICES ASSUME NoneOf(s, m) PROVE OnlyOne(t, m, r)
    OBVIOUS
  <2>1. Len(s) + 1 \in DOMAIN t /\ t[Len(s) + 1] = <<m, r>>
    BY <1>1
  <2>2. \A j \in DOMAIN t : j # Len(s) + 1 => t[j][1] # m
    BY <1>1 DEF NoneOf
  <2> QED BY <2>1, <2>2 DEF OnlyOne
<1>3. ASSUME NEW n, n # m, NoneOf(s, n) PROVE NoneOf(t, n)
  BY <1>1, <1>3 DEF NoneOf
<1>4. ASSUME NEW n, NEW x, n # m, OnlyOne(s, n, x) PROVE OnlyOne(t, n, x)
  <2>1. PICK k \in DOMAIN s : s[k] = <<n, x>> /\ \A j \in DOMAIN s : j # k => s[j][1] # n
    BY <1>4 DEF OnlyOne
  <2>2. k \in DOMAIN t /\ t[k] = <<n, x>> /\ \A j \in DOMAIN t : j # k => t[j][1] # n
    BY <1>1, <1>4, <2>1
  <2> QED BY <2>2 DEF OnlyOne
<1> QED BY <1>1, <1>2, <1>3, <1>4 DEF t

LEMMA QueueTail ==
  ASSUME NEW s \in Seq(Frames), s # <<>>
  PROVE  /\ Tail(s) \in Seq(Frames) /\ Head(s) \in Frames
         /\ \A n : NoneOf(s, n) => NoneOf(Tail(s), n) /\ Head(s)[1] # n
         /\ \A n, x : OnlyOne(s, n, x) =>
              IF Head(s)[1] = n THEN Head(s) = <<n, x>> /\ NoneOf(Tail(s), n)
              ELSE OnlyOne(Tail(s), n, x)
<1> DEFINE t == Tail(s)
<1>1. /\ t \in Seq(Frames) /\ DOMAIN t = 1..(Len(s) - 1) /\ DOMAIN s = 1..Len(s)
      /\ \A k \in DOMAIN t : t[k] = s[k + 1]
      /\ Head(s) = s[1] /\ Len(s) \in Nat \ {0} /\ Head(s) \in Frames
  OBVIOUS
<1> HIDE DEF t
<1>2. ASSUME NEW n, NoneOf(s, n) PROVE NoneOf(t, n) /\ Head(s)[1] # n
  BY <1>1, <1>2 DEF NoneOf
<1>3. ASSUME NEW n, NEW x, OnlyOne(s, n, x)
      PROVE  IF Head(s)[1] = n THEN Head(s) = <<n, x>> /\ NoneOf(t, n)
             ELSE OnlyOne(t, n, x)
  <2>1. PICK k \in DOMAIN s : s[k] = <<n, x>> /\ \A j \in DOMAIN s : j # k => s[j][1] # n
    BY <1>3 DEF OnlyOne
  <2>2. CASE k = 1
    BY <1>1, <2>1, <2>2 DEF NoneOf
  <2>3. CASE k # 1
    <3>1. k - 1 \in DOMAIN t /\ t[k - 1] = <<n, x>> /\ Head(s)[1] # n
      BY <1>1, <2>1, <2>3
    <3>2. \A j \in DOMAIN t : j # k - 1 => t[j][1] # n
      BY <1>1, <2>1
    <3> QED BY <3>1, <3>2 DEF OnlyOne
  <2> QED BY <2>2, <2>3
<1> QED BY <1>1, <1>2, <1>3 DEF t

(* A send that breaks leaves part of the frame in its place.               *)
LEMMA QueueCut ==
  ASSUME NEW s \in Seq(Frames), NEW m \in Nodes
  PROVE  LET t == [k \in DOMAIN s |-> IF s[k][1] = m THEN <<m, CutShort>> ELSE s[k]]
         IN  /\ t \in Seq(Frames)
             /\ \A x : OnlyOne(s, m, x) => OnlyOne(t, m, CutShort)
             /\ \A n : n # m /\ NoneOf(s, n) => NoneOf(t, n)
             /\ \A n, x : n # m /\ OnlyOne(s, n, x) => OnlyOne(t, n, x)
<1> DEFINE t == [k \in DOMAIN s |-> IF s[k][1] = m THEN <<m, CutShort>> ELSE s[k]]
<1>1. /\ DOMAIN t = DOMAIN s
      /\ \A k \in DOMAIN s : t[k] = IF s[k][1] = m THEN <<m, CutShort>> ELSE s[k]
  OBVIOUS
<1>2. t \in Seq(Frames)
  <2>1. DOMAIN s = 1..Len(s) /\ Len(s) \in Nat
    OBVIOUS
  <2>2. \A k \in DOMAIN s : t[k] \in Frames
    BY DEF Frames, CutShort
  <2> QED BY <2>1, <2>2
<1> HIDE DEF t
<1>3. ASSUME NEW x, OnlyOne(s, m, x) PROVE OnlyOne(t, m, CutShort)
  BY <1>1, <1>3 DEF OnlyOne
<1>4. ASSUME NEW n, n # m, NoneOf(s, n) PROVE NoneOf(t, n)
  BY <1>1, <1>4 DEF NoneOf
<1>5. ASSUME NEW n, NEW x, n # m, OnlyOne(s, n, x) PROVE OnlyOne(t, n, x)
  <2>1. PICK k \in DOMAIN s : s[k] = <<n, x>> /\ \A j \in DOMAIN s : j # k => s[j][1] # n
    BY <1>5 DEF OnlyOne
  <2>2. k \in DOMAIN t /\ t[k] = <<n, x>> /\ \A j \in DOMAIN t : j # k => t[j][1] # n
    BY <1>1, <1>5, <2>1
  <2> QED BY <2>2 DEF OnlyOne
<1> QED BY <1>2, <1>3, <1>4, <1>5 DEF t

-----------------------------------------------------------------------------
(* Edges.                                                                  *)
LEMMA EdgeEnds ==
  ASSUME TypeOK, NEW n \in Nodes, NEW i \in Turns(n)
  PROVE  /\ i \in DOMAIN edges /\ i \in Nat \ {0}
         /\ Other(n, i) \in Nodes /\ Other(n, i) # n
         /\ i \in Turns(Other(n, i)) /\ Other(Other(n, i), i) = n
         /\ SpeaksFirst(Other(n, i), i) <=> ~SpeaksFirst(n, i)
<1>1. i \in DOMAIN edges /\ edges \in Seq(Nodes \X Nodes) /\ edges[i][1] # edges[i][2]
  BY DEF Turns, TypeOK, Simple
<1>2. i \in Nat \ {0} /\ edges[i] \in Nodes \X Nodes
  BY <1>1
<1>3. n \in {edges[i][1], edges[i][2]}
  BY DEF Turns
<1> QED BY <1>1, <1>2, <1>3 DEF Turns, Other, SpeaksFirst

LEMMA OneEdge ==
  ASSUME TypeOK, NEW n \in Nodes, NEW i \in Turns(n), NEW j \in Turns(n),
         Other(n, i) = Other(n, j)
  PROVE  i = j
<1>1. {edges[i][1], edges[i][2]} = {n, Other(n, i)}
  BY DEF Turns, Other
<1>2. {edges[j][1], edges[j][2]} = {n, Other(n, j)}
  BY DEF Turns, Other
<1>3. i \in DOMAIN edges /\ j \in DOMAIN edges
  BY EdgeEnds
<1>4. {edges[i][1], edges[i][2]} = {edges[j][1], edges[j][2]}
  BY <1>1, <1>2
<1> QED BY <1>3, <1>4 DEF TypeOK, Simple

(* What the counts are, as far as the walk of a node goes.                 *)
LEMMA Counts ==
  ASSUME TypeOK, NEW n \in Nodes, Walks(n), NEW i \in Turns(n)
  PROVE  /\ Finished(n, i) \in Nat /\ Sends(n, i) \in Nat /\ Takes(n, i) \in Nat
         /\ Sends(n, i) <= round[n] /\ Takes(n, i) <= round[n]
         /\ pos[n] = i => Finished(n, i) = round[n] - 1
<1>1. round[n] \in Nat /\ pos[n] \in Nat /\ i \in Nat \ {0}
  BY EdgeEnds DEF TypeOK
<1>2. pos[n] # 0 => round[n] > 0
  BY DEF Walks, TypeOK, Phases
<1> QED BY <1>1, <1>2 DEF Finished, Sends, Takes, Done

(* A node whose own variables stay has the same counts.                    *)
SameAt(n) == /\ phase'[n] = phase[n] /\ pos'[n] = pos[n]
             /\ round'[n] = round[n] /\ got'[n] = got[n]

LEMMA SameCounts ==
  ASSUME NEW n, SameAt(n), UNCHANGED edges
  PROVE  /\ Turns(n)' = Turns(n) /\ Peer(n)' = Peer(n)
         /\ \A i : /\ Sends(n, i)' = Sends(n, i) /\ Takes(n, i)' = Takes(n, i)
                   /\ Other(n, i)' = Other(n, i) /\ Done(n, i)' = Done(n, i)
                   /\ SpeaksFirst(n, i)' = SpeaksFirst(n, i)
         /\ Walks(n) => Walks(n)'
BY DEF SameAt, Turns, Peer, Sends, Takes, Other, Done, SpeaksFirst, Finished, HasSent,
       Walks, Mine

(* The walk goes on: after edge i comes the next of the node's edges.      *)
LEMMA Walking ==
  ASSUME TypeOK, NEW n \in Nodes, NEW i \in Nat, Proceed(n, i), UNCHANGED edges
  PROVE  /\ \A j \in Turns(n) : Done(n, j)' <=> j <= i
         /\ \A p \in Nodes \ {n} : phase'[p] = phase[p] /\ pos'[p] = pos[p]
         /\ phase' \in [Nodes -> Phases] /\ pos' \in [Nodes -> Nat]
         /\ \/ phase'[n] = "ready" /\ pos'[n] = 0
            \/ /\ phase'[n] = "send" /\ pos'[n] \in Turns(n) /\ pos'[n] > i
               /\ SpeaksFirst(n, pos'[n])
            \/ /\ phase'[n] = "recv" /\ pos'[n] \in Turns(n) /\ pos'[n] > i
               /\ ~SpeaksFirst(n, pos'[n])
<1> DEFINE later == {j \in Turns(n) : j > i}
<1>1. \A j \in Turns(n) : j \in Nat \ {0}
  BY EdgeEnds
<1>2. CASE /\ later = {}
           /\ phase' = [phase EXCEPT ![n] = "ready"]
           /\ pos' = [pos EXCEPT ![n] = 0]
  BY <1>1, <1>2 DEF TypeOK, Done, Phases
<1>3. CASE \E j \in later :
             /\ \A k \in later : j <= k
             /\ phase' = [phase EXCEPT ![n] = IF SpeaksFirst(n, j) THEN "send" ELSE "recv"]
             /\ pos' = [pos EXCEPT ![n] = j]
  <2>1. PICK j \in later :
          /\ \A k \in later : j <= k
          /\ phase' = [phase EXCEPT ![n] = IF SpeaksFirst(n, j) THEN "send" ELSE "recv"]
          /\ pos' = [pos EXCEPT ![n] = j]
    BY <1>3
  <2>2. j \in Turns(n) /\ j \in Nat \ {0} /\ j > i /\ pos'[n] = j
    BY <1>1, <2>1 DEF TypeOK
  <2>3. \A k \in Turns(n) : Done(n, k)' <=> k <= i
    <3> SUFFICES ASSUME NEW k \in Turns(n) PROVE k < j <=> k <= i
      BY <1>1, <2>2 DEF Done
    <3>1. k > i => j <= k
      BY <2>1
    <3> QED BY <1>1, <2>2, <3>1
  <2>4. phase' \in [Nodes -> Phases] /\ pos' \in [Nodes -> Nat]
    BY <2>1, <2>2 DEF TypeOK, Phases
  <2> QED BY <2>1, <2>2, <2>3, <2>4 DEF TypeOK
<1> QED BY <1>2, <1>3 DEF Proceed

LEMMA Pace ==
  ASSUME TypeOK, NEW n \in Nodes, Walks(n), NEW i \in Turns(n)
  PROVE  IF SpeaksFirst(n, i)
         THEN Takes(n, i) <= Sends(n, i) /\ Sends(n, i) <= Takes(n, i) + 1
         ELSE Sends(n, i) <= Takes(n, i) /\ Takes(n, i) <= Sends(n, i) + 1
<1>1. Finished(n, i) \in Nat
  BY Counts
<1>2. CASE pos[n] # i
  BY <1>1, <1>2 DEF Sends, Takes
<1>3. CASE pos[n] = i
  <2>1. phase[n] \in {"send", "sending", "recv", "failed"}
    BY <1>3, EdgeEnds DEF Walks, TypeOK, Phases
  <2>2. CASE SpeaksFirst(n, i)
    <3>1. got[n] = {}
      BY <1>3, <2>2 DEF Walks, Mine
    <3> QED BY <1>1, <1>3, <2>2, <3>1 DEF Sends, Takes
  <2>3. CASE ~SpeaksFirst(n, i)
    <3>1. HasSent(n) => got[n] # {}
      BY <1>3, <2>3 DEF HasSent, Walks
    <3> QED BY <1>1, <1>3, <2>3, <3>1 DEF Sends, Takes
  <2> QED BY <2>2, <2>3
<1> QED BY <1>2, <1>3

(* Finishing an exchange: it counts as sent and taken, the others stay.    *)
LEMMA Finishing ==
  ASSUME TypeOK, NEW m \in Nodes, Walks(m), pos[m] \in Turns(m), round[m] > 0,
         Proceed(m, pos[m]), got'[m] = {}, UNCHANGED <<edges, round>>
  PROVE  /\ Walks(m)'
         /\ \A j \in Turns(m) :
              /\ Sends(m, j)' = IF j = pos[m] THEN round[m] ELSE Sends(m, j)
              /\ Takes(m, j)' = IF j = pos[m] THEN round[m] ELSE Takes(m, j)
<1>1. pos[m] \in Nat \ {0} /\ round[m] \in Nat
  BY EdgeEnds DEF TypeOK
<1>2. /\ \A j \in Turns(m) : Done(m, j)' <=> j <= pos[m]
      /\ \/ phase'[m] = "ready" /\ pos'[m] = 0
         \/ /\ phase'[m] = "send" /\ pos'[m] \in Turns(m) /\ pos'[m] > pos[m]
            /\ SpeaksFirst(m, pos'[m])
         \/ /\ phase'[m] = "recv" /\ pos'[m] \in Turns(m) /\ pos'[m] > pos[m]
            /\ ~SpeaksFirst(m, pos'[m])
  BY <1>1, Walking
<1>3. Walks(m)'
  BY <1>1, <1>2 DEF Walks, Mine, Turns, SpeaksFirst
<1>4. ~HasSent(m)' \/ pos'[m] = 0
  BY <1>2 DEF HasSent, SpeaksFirst
<1>5. ASSUME NEW j \in Turns(m)
      PROVE  /\ Sends(m, j)' = IF j = pos[m] THEN round[m] ELSE Sends(m, j)
             /\ Takes(m, j)' = IF j = pos[m] THEN round[m] ELSE Takes(m, j)
  <2>1. j \in Nat \ {0} /\ pos'[m] # pos[m]
    BY <1>1, <1>2, EdgeEnds
  <2>2. Sends(m, j)' = Finished(m, j)' /\ Takes(m, j)' = Finished(m, j)'
    <3>1. ~(pos'[m] = j /\ HasSent(m)') /\ Finished(m, j)' \in Int
      BY <1>1, <1>4, <2>1 DEF Finished
    <3> QED BY <3>1 DEF Sends, Takes
  <2>3. CASE j = pos[m]
    BY <1>2, <2>2, <2>3, <1>1 DEF Finished
  <2>4. CASE j # pos[m]
    <3>1. Done(m, j)' <=> Done(m, j)
      BY <1>1, <1>2, <2>1, <2>4 DEF Done
    <3>2. Finished(m, j)' = Finished(m, j) /\ Finished(m, j) \in Int
      BY <3>1, <1>1 DEF Finished
    <3> QED BY <2>2, <2>4, <3>2 DEF Sends, Takes
  <2> QED BY <2>3, <2>4
<1> QED BY <1>3, <1>5

-----------------------------------------------------------------------------
(* A step of m: what it leaves alone, and what is left to show.            *)
Alone(m) ==
  /\ UNCHANGED edges
  /\ \A n \in Nodes \ {m} : SameAt(n) /\ heard'[n] = heard[n]

LEMMA StepOf ==
  ASSUME IInv, NEW m \in Nodes, Alone(m), TypeOK', Walks(m)', Consumed(m)',
         \A n, p \in Nodes : \A i \in Turns(n) : p = Other(n, i) => Link(n, p, i)'
  PROVE  IInv'
<1>1. ASSUME NEW n \in Nodes \ {m} PROVE Walks(n)' /\ Consumed(n)'
  <2>1. SameAt(n) /\ heard'[n] = heard[n] /\ Walks(n) /\ Consumed(n)
    BY DEF Alone, IInv
  <2>2. UNCHANGED edges
    BY DEF Alone
  <2>3. Walks(n)'
    BY <2>1, <2>2, SameCounts
  <2>4. Consumed(n)'
    BY <2>1, <2>2 DEF Consumed, SameAt, Turns, Other, Done
  <2> QED BY <2>3, <2>4
<1>2. Links'
  <2> SUFFICES ASSUME NEW n \in Nodes, NEW i \in Turns(n)
               PROVE  Link(n, Other(n, i), i)'
    BY DEF Links, Turns, Alone
  <2> DEFINE p == Other(n, i)
  <2>1. p \in Nodes /\ p' = p
    BY EdgeEnds DEF Other, Alone, IInv
  <2> HIDE DEF p
  <2>2. p = Other(n, i)
    BY DEF p
  <2>3. Link(n, p, i)'
    BY <2>1, <2>2
  <2> QED BY <2>1, <2>3 DEF p
<1> QED BY <1>1, <1>2 DEF IInv

(* A link whose counts stay, and whose frame, if any, stays on its way.    *)
LEMMA LinkKept ==
  ASSUME IInv, NEW m \in Nodes, Alone(m), TypeOK',
         round[m] <= round'[m],
         NEW n \in Nodes, NEW p \in Nodes, NEW i \in Turns(n), p = Other(n, i),
         n = m => (phase'[m] = "failed" <=> phase[m] = "failed"),
         n = m => Sends(m, i)' = Sends(m, i),
         p = m => Takes(m, i)' = Takes(m, i),
         Empty(n, p) => Empty(n, p)',
         \A x \in Nat : Carries(n, p, x) => Carries(n, p, x)'
  PROVE  Link(n, p, i)'
<1>1. i \in Turns(p) /\ Link(n, p, i)
  BY EdgeEnds DEF IInv, Links
<1>2. Sends(n, i)' = Sends(n, i) /\ Takes(p, i)' = Takes(p, i)
  BY SameCounts DEF Alone
<1>3. Takes(p, i) \in Nat /\ Sends(n, i) \in Nat
  BY <1>1, Counts DEF IInv
<1>4. /\ round[n] \in Nat /\ round'[n] \in Nat /\ round[n] <= round'[n]
      /\ phase'[n] = "failed" <=> phase[n] = "failed"
  <2>1. round[n] \in Nat /\ round'[n] \in Nat
    BY DEF IInv, TypeOK
  <2>2. n # m => round'[n] = round[n] /\ phase'[n] = phase[n]
    BY DEF Alone, SameAt
  <2> QED BY <2>1, <2>2
<1>5. CASE phase[n] = "failed"
  <2>1. Takes(p, i)' <= round'[n]
    BY <1>1, <1>2, <1>3, <1>4, <1>5 DEF Link, LeftOver
  <2>2. CASE Empty(n, p)
    BY <2>1, <2>2, <1>4, <1>5 DEF Link, LeftOver
  <2>3. CASE Carries(n, p, CutShort)
    <3>1. Carries(n, p, CutShort)'
      BY <2>3 DEF CutShort
    <3> QED BY <2>1, <3>1, <1>4, <1>5 DEF Link, LeftOver
  <2>4. CASE Takes(p, i) < round[n] /\ Carries(n, p, Takes(p, i) + 1)
    <3> DEFINE x == Takes(p, i) + 1
    <3>1. x \in Nat /\ x' = x /\ Takes(p, i)' < round'[n]
      BY <1>2, <1>3, <1>4, <2>4
    <3> HIDE DEF x
    <3>2. Carries(n, p, x)'
      BY <3>1, <2>4 DEF x, Carries
    <3>3. (Carries(n, p, Takes(p, i) + 1))'
      BY <3>2 DEF x
    <3> QED BY <2>1, <3>1, <3>3, <1>4, <1>5 DEF Link, LeftOver
  <2> QED BY <1>1, <1>5, <2>2, <2>3, <2>4 DEF Link, LeftOver
<1>6. CASE phase[n] # "failed"
  <2>1. CASE Sends(n, i) = Takes(p, i) /\ Empty(n, p)
    BY <2>1, <1>2, <1>4, <1>6 DEF Link, InStep
  <2>2. CASE Sends(n, i) = Takes(p, i) + 1 /\ Carries(n, p, Sends(n, i))
    <3> DEFINE x == Sends(n, i)
    <3>1. x \in Nat /\ x' = x
      BY <1>2, <1>3
    <3> HIDE DEF x
    <3>2. Carries(n, p, x)'
      BY <3>1, <2>2 DEF x, Carries
    <3>3. (Carries(n, p, Sends(n, i)))'
      BY <3>2 DEF x
    <3> QED BY <2>2, <3>3, <1>2, <1>4, <1>6 DEF Link, InStep
  <2> QED BY <1>1, <1>6, <2>1, <2>2 DEF Link, InStep
<1> QED BY <1>5, <1>6

(* A step that sends and takes nothing.                                    *)
LEMMA QuietStep ==
  ASSUME IInv, NEW m \in Nodes, Alone(m), UNCHANGED <<edges, pending, inbox>>,
         TypeOK', Walks(m)', Consumed(m)',
         round[m] <= round'[m], phase'[m] = "failed" <=> phase[m] = "failed",
         \A j \in Turns(m) : Sends(m, j)' = Sends(m, j) /\ Takes(m, j)' = Takes(m, j)
  PROVE  IInv'
<1>1. ASSUME NEW n \in Nodes, NEW p \in Nodes, NEW i \in Turns(n), p = Other(n, i)
      PROVE  Link(n, p, i)'
  <2>1. i \in Turns(p)
    BY <1>1, EdgeEnds DEF IInv
  <2>2. /\ n = m => Sends(m, i)' = Sends(m, i)
        /\ p = m => Takes(m, i)' = Takes(m, i)
    BY <1>1, <2>1
  <2>3. /\ Empty(n, p) => Empty(n, p)'
        /\ \A x \in Nat : Carries(n, p, x) => Carries(n, p, x)'
    BY DEF Empty, Carries
  <2> QED BY <1>1, <2>2, <2>3, LinkKept
<1> QED BY <1>1, StepOf

(* A node that fails keeps its counts of what it took.                     *)
LEMMA LinkFails ==
  ASSUME IInv, NEW m \in Nodes, Alone(m), phase[m] # "failed", phase'[m] = "failed",
         round'[m] = round[m],
         NEW p \in Nodes, NEW i \in Turns(m), p = Other(m, i),
         Empty(m, p) => Empty(m, p)',
         \A x \in Nat : Carries(m, p, x) => Carries(m, p, x)' \/ Carries(m, p, CutShort)'
  PROVE  Link(m, p, i)'
<1>1. i \in Turns(p) /\ p # m /\ InStep(m, p, i)
  BY EdgeEnds DEF IInv, Links, Link
<1>2. Takes(p, i)' = Takes(p, i) /\ Takes(p, i) \in Nat
  BY <1>1, SameCounts, Counts DEF Alone, IInv
<1>3. Sends(m, i) \in Nat /\ Sends(m, i) <= round[m] /\ round[m] \in Nat
  BY Counts DEF IInv, TypeOK
<1>4. CASE Sends(m, i) = Takes(p, i) /\ Empty(m, p)
  BY <1>2, <1>3, <1>4 DEF Link, LeftOver
<1>5. CASE Sends(m, i) = Takes(p, i) + 1 /\ Carries(m, p, Sends(m, i))
  <2> DEFINE x == Takes(p, i) + 1
  <2>1. x \in Nat /\ x' = x /\ Takes(p, i)' < round'[m] /\ Sends(m, i) = x
    BY <1>2, <1>3, <1>5
  <2> HIDE DEF x
  <2>2. Carries(m, p, x)' \/ Carries(m, p, CutShort)'
    BY <2>1, <1>5
  <2>3. (Carries(m, p, Takes(p, i) + 1))' \/ Carries(m, p, CutShort)'
    BY <2>2 DEF x
  <2> QED BY <1>2, <1>3, <2>1, <2>3 DEF Link, LeftOver
<1> QED BY <1>1, <1>4, <1>5 DEF InStep

-----------------------------------------------------------------------------
(* The actions, one by one.                                                *)
LEMMA StartStep ==
  ASSUME IInv, NEW m \in Nodes, Start(m) PROVE IInv'
<1>1. TypeOK' /\ Alone(m)
  BY DEF IInv, TypeOK, Start, Alone, SameAt, Phases
<1>2. Walks(m)' /\ phase[m] = "down" /\ phase'[m] = "ready"
  BY DEF IInv, TypeOK, Start, Walks, Mine, Turns
<1>3. Consumed(m)'
  BY DEF IInv, Start, Consumed, Turns, Other, Done
<1>4. \A j \in Turns(m) : Sends(m, j)' = Sends(m, j) /\ Takes(m, j)' = Takes(m, j)
  BY <1>2 DEF Start, Sends, Takes, Finished, Done, HasSent, SpeaksFirst
<1>5. round[m] <= round'[m]
  BY DEF IInv, TypeOK, Start
<1> QED BY <1>1, <1>2, <1>3, <1>4, <1>5, QuietStep DEF Start

LEMMA CloseStep ==
  ASSUME IInv, NEW m \in Nodes, Close(m) PROVE IInv'
<1>1. TypeOK' /\ Alone(m)
  BY DEF IInv, TypeOK, Close, Alone, SameAt, Phases
<1>2. Walks(m)' /\ phase[m] = "ready" /\ phase'[m] = "closed"
  BY DEF IInv, TypeOK, Close, Walks, Mine, Turns
<1>3. Consumed(m)'
  BY DEF IInv, Close, Consumed, Turns, Other, Done
<1>4. \A j \in Turns(m) : Sends(m, j)' = Sends(m, j) /\ Takes(m, j)' = Takes(m, j)
  BY <1>2 DEF Close, Sends, Takes, Finished, Done, HasSent, SpeaksFirst
<1>5. round[m] <= round'[m]
  BY DEF IInv, TypeOK, Close
<1> QED BY <1>1, <1>2, <1>3, <1>4, <1>5, QuietStep DEF Close

LEMMA BeginStep ==
  ASSUME IInv, NEW m \in Nodes, Begin(m) PROVE IInv'
<1> USE DEF IInv
<1>1. /\ phase[m] = "ready" /\ pos[m] = 0 /\ got[m] = {} /\ round[m] \in Nat
      /\ round' = [round EXCEPT ![m] = @ + 1] /\ round'[m] = round[m] + 1
      /\ heard' = [heard EXCEPT ![m] = {}] /\ Proceed(m, 0)
      /\ UNCHANGED <<edges, steps, fits, got, pending, inbox>>
  BY DEF TypeOK, Begin, Walks
<1>2. /\ \A j \in Turns(m) : Done(m, j)' <=> j <= 0
      /\ \A p \in Nodes \ {m} : phase'[p] = phase[p] /\ pos'[p] = pos[p]
      /\ phase' \in [Nodes -> Phases] /\ pos' \in [Nodes -> Nat]
      /\ \/ phase'[m] = "ready" /\ pos'[m] = 0
         \/ /\ phase'[m] = "send" /\ pos'[m] \in Turns(m) /\ pos'[m] > 0
            /\ SpeaksFirst(m, pos'[m])
         \/ /\ phase'[m] = "recv" /\ pos'[m] \in Turns(m) /\ pos'[m] > 0
            /\ ~SpeaksFirst(m, pos'[m])
  BY <1>1, Walking
<1>3. TypeOK'
  <2>1. round' \in [Nodes -> Nat]
    BY <1>1 DEF TypeOK
  <2>2. heard' \in [Nodes -> SUBSET Frames]
    BY <1>1 DEF TypeOK
  <2> QED BY <1>1, <1>2, <2>1, <2>2 DEF TypeOK
<1>4. Alone(m)
  BY <1>1, <1>2 DEF Alone, SameAt, TypeOK
<1>5. Walks(m)'
  BY <1>1, <1>2 DEF Walks, Mine, Turns, SpeaksFirst
<1>6. \A j \in Turns(m) : ~Done(m, j)' /\ j \in Nat \ {0}
  BY <1>2, EdgeEnds
<1>7. Consumed(m)'
  <2>1. heard'[m] = {}
    BY <1>1 DEF TypeOK
  <2>2. {j \in Turns(m) : Done(m, j)}' = {}
    BY <1>1, <1>6 DEF Turns
  <2> QED BY <2>1, <2>2 DEF Consumed
<1>8. ASSUME NEW j \in Turns(m)
      PROVE  Sends(m, j)' = Sends(m, j) /\ Takes(m, j)' = Takes(m, j)
  <2>1. Sends(m, j) = round[m] /\ Takes(m, j) = round[m]
    BY <1>1, <1>6 DEF Sends, Takes, Finished, Done
  <2>2. Finished(m, j)' = round[m]
    BY <1>1, <1>6 DEF Finished
  <2>3. ~HasSent(m)' \/ pos'[m] # j
    BY <1>1, <1>2, <1>6 DEF HasSent, SpeaksFirst
  <2> QED BY <1>1, <2>1, <2>2, <2>3 DEF Sends, Takes
<1>9. round[m] <= round'[m]
  BY <1>1
<1>10. phase'[m] # "failed" /\ phase[m] # "failed"
  BY <1>1, <1>2
<1> QED BY <1>1, <1>3, <1>4, <1>5, <1>7, <1>8, <1>9, <1>10, QuietStep

(* The end of an exchange, with the frame it was for.                      *)
LEMMA Consuming ==
  ASSUME IInv, NEW m \in Nodes, pos[m] \in Turns(m), round[m] > 0,
         Finish(m, {<<Peer(m), round[m]>>}), UNCHANGED <<edges, steps, fits, round>>
  PROVE  /\ phase' \in [Nodes -> Phases] /\ pos' \in [Nodes -> Nat]
         /\ got' \in [Nodes -> SUBSET Frames] /\ heard' \in [Nodes -> SUBSET Frames]
         /\ Alone(m) /\ Walks(m)' /\ Consumed(m)' /\ phase'[m] # "failed"
         /\ \A j \in Turns(m) :
              /\ Sends(m, j)' = IF j = pos[m] THEN round[m] ELSE Sends(m, j)
              /\ Takes(m, j)' = IF j = pos[m] THEN round[m] ELSE Takes(m, j)
<1> DEFINE frame == <<Other(m, pos[m]), round[m]>>
<1>1. /\ TypeOK /\ Walks(m) /\ Consumed(m) /\ pos[m] \in Nat /\ round[m] \in Nat
      /\ Other(m, pos[m]) \in Nodes /\ frame = <<Peer(m), round[m]>> /\ frame \in Frames
  BY EdgeEnds DEF IInv, TypeOK, Peer, Other, Frames
<1>2. /\ got' = [got EXCEPT ![m] = {}] /\ heard' = [heard EXCEPT ![m] = @ \cup {frame}]
      /\ Proceed(m, pos[m])
  BY <1>1 DEF Finish
<1>3. /\ got' \in [Nodes -> SUBSET Frames] /\ got'[m] = {}
      /\ heard' \in [Nodes -> SUBSET Frames] /\ heard'[m] = heard[m] \cup {frame}
      /\ \A n \in Nodes \ {m} : got'[n] = got[n] /\ heard'[n] = heard[n]
  BY <1>1, <1>2 DEF TypeOK
<1>4. /\ \A j \in Turns(m) : Done(m, j)' <=> j <= pos[m]
      /\ \A n \in Nodes \ {m} : phase'[n] = phase[n] /\ pos'[n] = pos[n]
      /\ phase' \in [Nodes -> Phases] /\ pos' \in [Nodes -> Nat]
      /\ phase'[m] \in {"ready", "send", "recv"}
  BY <1>1, <1>2, Walking
<1>5. Alone(m)
  BY <1>3, <1>4 DEF Alone, SameAt
<1>6. /\ Walks(m)'
      /\ \A j \in Turns(m) :
           /\ Sends(m, j)' = IF j = pos[m] THEN round[m] ELSE Sends(m, j)
           /\ Takes(m, j)' = IF j = pos[m] THEN round[m] ELSE Takes(m, j)
  BY <1>1, <1>2, <1>3, Finishing
<1>7. Consumed(m)'
  <2>1. \A j \in Turns(m) : j \in Nat \ {0}
    BY <1>1, EdgeEnds
  <2>2. \A j \in Turns(m) : Done(m, j)' <=> Done(m, j) \/ j = pos[m]
    BY <1>1, <1>4, <2>1 DEF Done
  <2>3. heard[m] = {<<Other(m, i), round[m]>> : i \in {j \in Turns(m) : Done(m, j)}}
    BY <1>1 DEF Consumed
  <2>4. heard'[m] = {<<Other(m, i), round[m]>> : i \in {j \in Turns(m) : Done(m, j)'}}
    BY <1>3, <2>2, <2>3
  <2>5. Turns(m)' = Turns(m) /\ round' = round /\ \A i : Other(m, i)' = Other(m, i)
    BY DEF Turns, Other
  <2> QED BY <2>4, <2>5 DEF Consumed
<1> QED BY <1>3, <1>4, <1>5, <1>6, <1>7

(* The exchange the node is in, in phases with one.                        *)
LEMMA InExchange ==
  ASSUME IInv, NEW m \in Nodes, phase[m] \in {"send", "sending", "recv"}
  PROVE  /\ TypeOK /\ Walks(m) /\ Consumed(m)
         /\ pos[m] \in Turns(m) /\ pos[m] \in Nat \ {0} /\ round[m] \in Nat \ {0}
         /\ Peer(m) = Other(m, pos[m]) /\ Peer(m) \in Nodes /\ Peer(m) # m
         /\ pos[m] \in Turns(Peer(m)) /\ Other(Peer(m), pos[m]) = m
         /\ Finished(m, pos[m]) = round[m] - 1
<1>1. TypeOK /\ Walks(m) /\ Consumed(m) /\ pos[m] \in Turns(m) /\ round[m] \in Nat \ {0}
  BY DEF IInv, Walks, TypeOK
<1>2. Peer(m) = Other(m, pos[m])
  BY DEF Peer, Other
<1> QED BY <1>1, <1>2, EdgeEnds, Counts

LEMMA SentStep ==
  ASSUME IInv, NEW m \in Nodes, Sent(m) PROVE IInv'
<1>1. phase[m] = "sending" /\ UNCHANGED <<edges, steps, fits, round, pending, inbox>>
  BY DEF Sent
<1>2. /\ TypeOK /\ Walks(m) /\ Consumed(m) /\ pos[m] \in Turns(m)
      /\ round[m] \in Nat \ {0} /\ Peer(m) = Other(m, pos[m])
      /\ Finished(m, pos[m]) = round[m] - 1
  BY <1>1, InExchange
<1>3. CASE SpeaksFirst(m, pos[m])
  <2>1. phase' = [phase EXCEPT ![m] = "recv"] /\ UNCHANGED <<pos, got, heard>>
    BY <1>3 DEF Sent
  <2>2. phase'[m] = "recv" /\ got[m] = {}
    BY <1>1, <1>2, <1>3, <2>1 DEF TypeOK, Walks
  <2>3. TypeOK' /\ Alone(m)
    BY <1>1, <1>2, <2>1 DEF TypeOK, Alone, SameAt, Phases
  <2>4. Walks(m)'
    BY <1>1, <1>2, <1>3, <2>1, <2>2 DEF Walks, Mine, Turns, SpeaksFirst
  <2>5. Consumed(m)'
    BY <1>1, <1>2, <2>1 DEF Consumed, Turns, Other, Done
  <2>6. \A j \in Turns(m) : Sends(m, j)' = Sends(m, j) /\ Takes(m, j)' = Takes(m, j)
    BY <1>1, <1>3, <2>1, <2>2 DEF Sends, Takes, Finished, Done, HasSent, SpeaksFirst
  <2> QED BY <1>1, <1>2, <2>2, <2>3, <2>4, <2>5, <2>6, QuietStep
<1>4. CASE ~SpeaksFirst(m, pos[m])
  <2>1. got[m] = {<<Peer(m), round[m]>>}
    BY <1>1, <1>2, <1>4 DEF Walks, Mine
  <2>2. Finish(m, {<<Peer(m), round[m]>>})
    BY <1>4, <2>1 DEF Sent
  <2>3. /\ phase' \in [Nodes -> Phases] /\ pos' \in [Nodes -> Nat]
        /\ got' \in [Nodes -> SUBSET Frames] /\ heard' \in [Nodes -> SUBSET Frames]
        /\ Alone(m) /\ Walks(m)' /\ Consumed(m)' /\ phase'[m] # "failed"
        /\ \A j \in Turns(m) :
             /\ Sends(m, j)' = IF j = pos[m] THEN round[m] ELSE Sends(m, j)
             /\ Takes(m, j)' = IF j = pos[m] THEN round[m] ELSE Takes(m, j)
    BY <1>1, <1>2, <2>2, Consuming
  <2>4. TypeOK'
    BY <1>1, <1>2, <2>3 DEF TypeOK
  <2>5. Sends(m, pos[m]) = round[m] /\ Takes(m, pos[m]) = round[m]
    BY <1>1, <1>2, <1>4, <2>1 DEF Sends, Takes, HasSent
  <2> QED BY <1>1, <1>2, <2>3, <2>4, <2>5, QuietStep
<1> QED BY <1>3, <1>4

(* A node that may send has had its previous frame taken.                  *)
LEMMA SendingClear ==
  ASSUME IInv, NEW m \in Nodes, phase[m] = "send", phase[Peer(m)] # "failed"
  PROVE  /\ Empty(m, Peer(m))
         /\ Sends(m, pos[m]) = round[m] - 1 /\ Takes(Peer(m), pos[m]) = round[m] - 1
<1> DEFINE q == Peer(m)
           i == pos[m]
<1>1. /\ TypeOK /\ Walks(m) /\ i \in Turns(m) /\ round[m] \in Nat \ {0}
      /\ q = Other(m, i) /\ q \in Nodes /\ i \in Turns(q) /\ Other(q, i) = m
      /\ Finished(m, i) = round[m] - 1 /\ Walks(q)
  BY InExchange DEF IInv
<1>2. InStep(m, q, i) /\ InStep(q, m, i)
  BY <1>1 DEF IInv, Links, Link
<1>3. /\ Sends(m, i) = round[m] - 1
      /\ Takes(m, i) = IF SpeaksFirst(m, i) THEN round[m] - 1 ELSE round[m]
  BY <1>1 DEF Sends, Takes, HasSent, Walks
<1>4. Sends(q, i) \in Nat /\ Takes(q, i) \in Nat /\ Takes(m, i) <= Sends(q, i)
  BY <1>1, <1>2, Counts DEF InStep
<1>5. IF SpeaksFirst(m, i) THEN Sends(q, i) <= Takes(q, i)
      ELSE Sends(q, i) <= Takes(q, i) + 1
  BY <1>1, Pace, EdgeEnds
<1>6. round[m] - 1 <= Takes(q, i)
  BY <1>1, <1>3, <1>4, <1>5
<1> QED BY <1>1, <1>2, <1>3, <1>4, <1>6 DEF InStep

LEMMA ConnectStep ==
  ASSUME IInv, NEW m \in Nodes, Connect(m) PROVE IInv'
<1> DEFINE q == Peer(m)
<1>1. /\ phase[m] = "send" /\ phase[q] # "failed"
      /\ pending' = [pending EXCEPT ![q] = Append(@, <<m, round[m]>>)]
      /\ phase' = [phase EXCEPT ![m] = "sending"]
      /\ UNCHANGED <<edges, steps, fits, round, pos, got, heard, inbox>>
  BY DEF Connect, Listening
<1>2. /\ TypeOK /\ Walks(m) /\ Consumed(m) /\ pos[m] \in Turns(m)
      /\ round[m] \in Nat \ {0} /\ q = Other(m, pos[m]) /\ q \in Nodes /\ q # m
      /\ Finished(m, pos[m]) = round[m] - 1
  BY <1>1, InExchange
<1>3. /\ Empty(m, q) /\ Sends(m, pos[m]) = round[m] - 1 /\ Takes(q, pos[m]) = round[m] - 1
  BY <1>1, SendingClear
<1> HIDE DEF q
<1>4. pending[q] \in Seq(Frames) /\ phase'[m] = "sending"
  BY <1>1, <1>2 DEF TypeOK
<1>5. /\ Append(pending[q], <<m, round[m]>>) \in Seq(Frames)
      /\ pending'[q] = Append(pending[q], <<m, round[m]>>)
      /\ \A p \in Nodes \ {q} : pending'[p] = pending[p]
  BY <1>1, <1>2, <1>4, QueueAppend DEF TypeOK
<1>6. TypeOK' /\ Alone(m)
  <2>1. pending' \in [Nodes -> Seq(Frames)]
    BY <1>1, <1>2, <1>5 DEF TypeOK
  <2> QED BY <1>1, <1>2, <2>1 DEF TypeOK, Alone, SameAt, Phases
<1>7. Walks(m)' /\ Consumed(m)'
  BY <1>1, <1>2, <1>4 DEF Walks, Mine, Peer, Turns, SpeaksFirst, Consumed, Other, Done
<1>8. /\ \A j \in Turns(m) \ {pos[m]} : Sends(m, j)' = Sends(m, j)
      /\ \A j \in Turns(m) : Takes(m, j)' = Takes(m, j)
      /\ \A j \in Turns(m) : j = pos[m] => Sends(m, j)' = round[m]
  <2>1. HasSent(m)' /\ ~HasSent(m)
    BY <1>1, <1>4 DEF HasSent, SpeaksFirst
  <2>2. \A j : Finished(m, j)' = Finished(m, j)
    BY <1>1 DEF Finished, Done
  <2> QED BY <1>1, <1>2, <2>1, <2>2 DEF Sends, Takes
<1>9. ASSUME NEW n \in Nodes, NEW p \in Nodes, NEW i \in Turns(n), p = Other(n, i)
      PROVE  Link(n, p, i)'
  <2>1. i \in Turns(p)
    BY <1>2, <1>9, EdgeEnds
  <2>2. CASE n = m /\ i = pos[m]
    <3>1. p = q /\ p # m /\ Takes(p, i) = round[m] - 1
      BY <1>2, <1>3, <1>9, <2>2
    <3>2. Takes(p, i)' = Takes(p, i)
      BY <1>6, <3>1, SameCounts DEF Alone
    <3>3. OnlyOne(pending'[p], m, round[m]) /\ inbox'[p][m] = <<>>
      <4>1. NoneOf(pending[q], m) /\ inbox[q][m] = <<>>
        BY <1>3 DEF Empty
      <4>2. OnlyOne(Append(pending[q], <<m, round[m]>>), m, round[m])
        BY <1>1, <1>2, <1>4, <4>1, QueueAppend
      <4>3. inbox' = inbox
        BY <1>1
      <4> QED BY <1>5, <3>1, <4>1, <4>2, <4>3
    <3>4. Sends(m, i)' = round[m] /\ Takes(p, i)' + 1 = round[m]
      BY <1>2, <1>8, <2>2, <3>1, <3>2
    <3>5. Carries(m, p, round[m])'
      BY <1>1, <3>3 DEF Carries
    <3>6. (Carries(m, p, Sends(m, i)))'
      BY <1>1, <3>4, <3>5 DEF Carries
    <3>7. (InStep(m, p, i))'
      BY <3>4, <3>6 DEF InStep
    <3> QED BY <1>4, <2>2, <3>7 DEF Link
  <2>3. CASE ~(n = m /\ i = pos[m])
    <3>1. p = q => n # m
      BY <1>2, <1>9, <2>3, OneEdge
    <3>2. /\ Empty(n, p) => Empty(n, p)'
          /\ \A x \in Nat : Carries(n, p, x) => Carries(n, p, x)'
      <4>1. CASE p # q
        BY <1>1, <1>5, <1>9, <4>1 DEF Empty, Carries
      <4>2. CASE p = q
        <5>1. /\ NoneOf(pending[p], n) => NoneOf(pending'[p], n)
              /\ \A x \in Nat : OnlyOne(pending[p], n, x) => OnlyOne(pending'[p], n, x)
          <6> DEFINE s == pending[p]
                     t == pending'[p]
                     r == round[m]
          <6>1. n # m /\ t = Append(s, <<m, r>>) /\ s \in Seq(Frames) /\ r \in Nat
            BY <1>2, <1>4, <1>5, <3>1, <4>2
          <6> HIDE DEF s, t, r
          <6>2. /\ NoneOf(s, n) => NoneOf(t, n)
                /\ \A x \in Nat : OnlyOne(s, n, x) => OnlyOne(t, n, x)
            BY <6>1, QueueAppend
          <6> QED BY <6>2 DEF s, t, r
        <5> QED BY <1>1, <5>1 DEF Empty, Carries
      <4> QED BY <4>1, <4>2
    <3>3. /\ n = m => Sends(m, i)' = Sends(m, i)
          /\ p = m => Takes(m, i)' = Takes(m, i)
      BY <1>8, <1>9, <2>1, <2>3
    <3>4. round[m] <= round'[m] /\ (phase'[m] = "failed" <=> phase[m] = "failed")
      BY <1>1, <1>2, <1>4
    <3> QED BY <1>6, <1>9, <3>2, <3>3, <3>4, LinkKept
  <2> QED BY <2>2, <2>3
<1> QED BY <1>6, <1>7, <1>9, StepOf

(* What has come from the peer a node waits for is that peer's frame of    *)
(* the same round, unless it was cut short.                                *)
LEMMA ExpectedFrame ==
  ASSUME IInv, NEW m \in Nodes, phase[m] = "recv", NEW q \in Nodes, q = Peer(m),
         ~Empty(q, m)
  PROVE  /\ Takes(m, pos[m]) = round[m] - 1
         /\ \/ phase[q] = "failed" /\ Carries(q, m, CutShort)
            \/ /\ Carries(q, m, round[m])
               /\ phase[q] = "failed" => round[m] <= round[q]
               /\ phase[q] # "failed" => Sends(q, pos[m]) = round[m]
<1> DEFINE i == pos[m]
<1>1. /\ TypeOK /\ Walks(m) /\ i \in Turns(q) /\ Other(q, i) = m
      /\ round[m] \in Nat \ {0} /\ Finished(m, i) = round[m] - 1
  BY InExchange
<1>2. Takes(m, i) = round[m] - 1
  BY <1>1 DEF Takes, Walks
<1>3. Link(q, m, i) /\ round[q] \in Nat
  BY <1>1 DEF IInv, Links, TypeOK
<1>4. CASE phase[q] = "failed"
  <2>1. Carries(q, m, CutShort) \/ (Takes(m, i) < round[q] /\ Carries(q, m, Takes(m, i) + 1))
    BY <1>3, <1>4 DEF Link, LeftOver
  <2>2. Takes(m, i) + 1 = round[m]
    BY <1>1, <1>2
  <2> QED BY <1>1, <1>2, <1>3, <1>4, <2>1, <2>2
<1>5. CASE phase[q] # "failed"
  <2>1. Sends(q, i) = Takes(m, i) + 1 /\ Carries(q, m, Sends(q, i))
    BY <1>3, <1>5 DEF Link, InStep
  <2>2. Takes(m, i) + 1 = round[m]
    BY <1>1, <1>2
  <2> QED BY <1>2, <1>5, <2>1, <2>2
<1> QED BY <1>4, <1>5

(* Taking that frame.                                                      *)
LEMMA Receiving ==
  ASSUME IInv, NEW m \in Nodes, phase[m] = "recv", NEW q \in Nodes, q = Peer(m),
         phase[q] = "failed" => round[m] <= round[q],
         phase[q] # "failed" => Sends(q, pos[m]) = round[m],
         Deliver(m, <<q, round[m]>>), UNCHANGED <<edges, steps, fits, round>>,
         pending' \in [Nodes -> Seq(Frames)],
         inbox' \in [Nodes -> [Nodes -> Seq(Frames)]],
         Empty(q, m)',
         \A n, p \in Nodes : ~(n = q /\ p = m) =>
            /\ Empty(n, p) => Empty(n, p)'
            /\ \A x \in Nat : Carries(n, p, x) => Carries(n, p, x)'
  PROVE  IInv'
<1>1. /\ TypeOK /\ Walks(m) /\ Consumed(m) /\ pos[m] \in Turns(m)
      /\ round[m] \in Nat \ {0} /\ q = Other(m, pos[m]) /\ q # m
      /\ Finished(m, pos[m]) = round[m] - 1 /\ got[m] = {}
  BY InExchange DEF Walks
<1>2. /\ TypeOK' /\ Alone(m) /\ Walks(m)' /\ Consumed(m)' /\ phase'[m] # "failed"
      /\ \A j \in Turns(m) :
           /\ Sends(m, j)' = Sends(m, j)
           /\ Takes(m, j)' = IF j = pos[m] THEN round[m] ELSE Takes(m, j)
  <2>1. CASE SpeaksFirst(m, pos[m])
    <3>1. Finish(m, {<<Peer(m), round[m]>>})
      BY <2>1 DEF Deliver
    <3>2. /\ phase' \in [Nodes -> Phases] /\ pos' \in [Nodes -> Nat]
          /\ got' \in [Nodes -> SUBSET Frames] /\ heard' \in [Nodes -> SUBSET Frames]
          /\ Alone(m) /\ Walks(m)' /\ Consumed(m)' /\ phase'[m] # "failed"
          /\ \A j \in Turns(m) :
               /\ Sends(m, j)' = IF j = pos[m] THEN round[m] ELSE Sends(m, j)
               /\ Takes(m, j)' = IF j = pos[m] THEN round[m] ELSE Takes(m, j)
      <4>1. round[m] > 0
        BY <1>1
      <4> QED BY <1>1, <3>1, <4>1, Consuming
    <3>3. TypeOK'
      BY <1>1, <3>2 DEF TypeOK
    <3>4. Sends(m, pos[m]) = round[m]
      BY <1>1, <2>1 DEF Sends, HasSent
    <3> QED BY <3>2, <3>3, <3>4
  <2>2. CASE ~SpeaksFirst(m, pos[m])
    <3>1. /\ got' = [got EXCEPT ![m] = {<<q, round[m]>>}]
          /\ phase' = [phase EXCEPT ![m] = "send"] /\ UNCHANGED <<pos, heard>>
      BY <2>2 DEF Deliver
    <3>2. got'[m] = {<<q, round[m]>>} /\ phase'[m] = "send" /\ <<q, round[m]>> \in Frames
      BY <1>1, <3>1 DEF TypeOK, Frames
    <3>3. TypeOK'
      <4>1. got' \in [Nodes -> SUBSET Frames] /\ phase' \in [Nodes -> Phases]
        BY <1>1, <3>1, <3>2 DEF TypeOK, Phases
      <4> QED BY <1>1, <3>1, <4>1 DEF TypeOK
    <3>4. Alone(m)
      BY <1>1, <3>1 DEF Alone, SameAt, TypeOK
    <3>5. Walks(m)'
      <4>1. Peer(m)' = q
        BY <3>1 DEF Peer
      <4> QED BY <1>1, <2>2, <3>1, <3>2, <4>1 DEF Walks, Mine, Turns, SpeaksFirst
    <3>6. Consumed(m)'
      BY <1>1, <3>1 DEF Consumed, Turns, Other, Done
    <3>7. \A j \in Turns(m) : Finished(m, j)' = Finished(m, j)
      BY <3>1 DEF Finished, Done
    <3>8. ~HasSent(m)' /\ ~HasSent(m)
      BY <2>2, <3>1, <3>2 DEF HasSent, SpeaksFirst
    <3>9. \A j \in Turns(m) :
            /\ Sends(m, j)' = Sends(m, j)
            /\ Takes(m, j)' = IF j = pos[m] THEN round[m] ELSE Takes(m, j)
      <4> TAKE j \in Turns(m)
      <4>1. Sends(m, j)' = Sends(m, j)
        BY <3>7, <3>8 DEF Sends
      <4>2. CASE j = pos[m]
        <5>1. Takes(m, j)' = Finished(m, j) + 1
          BY <3>1, <3>2, <3>7, <4>2 DEF Takes
        <5> QED BY <1>1, <4>1, <4>2, <5>1
      <4>3. CASE j # pos[m]
        BY <3>1, <3>7, <4>1, <4>3 DEF Takes
      <4> QED BY <4>2, <4>3
    <3> QED BY <3>2, <3>3, <3>4, <3>5, <3>6, <3>9
  <2> QED BY <2>1, <2>2
<1>3. ASSUME NEW n \in Nodes, NEW p \in Nodes, NEW i \in Turns(n), p = Other(n, i)
      PROVE  Link(n, p, i)'
  <2>1. i \in Turns(p) /\ Other(p, i) = n
    BY <1>1, <1>3, EdgeEnds
  <2>2. CASE n = q /\ p = m
    <3>1. i = pos[m]
      BY <1>1, <2>1, <2>2, OneEdge
    <3>2. Takes(p, i)' = round[m] /\ Sends(n, i)' = Sends(n, i) /\ phase'[n] = phase[n]
      BY <1>1, <1>2, <2>1, <2>2, <3>1, SameCounts DEF Alone, SameAt
    <3>3. CASE phase[n] = "failed"
      BY <1>1, <2>2, <3>2, <3>3 DEF Link, LeftOver
    <3>4. CASE phase[n] # "failed"
      BY <1>1, <2>2, <3>1, <3>2, <3>4 DEF Link, InStep
    <3> QED BY <3>3, <3>4
  <2>3. CASE ~(n = q /\ p = m)
    <3>1. p = m => i # pos[m]
      BY <1>1, <2>1, <2>3
    <3>2. /\ n = m => Sends(m, i)' = Sends(m, i)
          /\ p = m => Takes(m, i)' = Takes(m, i)
      BY <1>2, <1>3, <2>1, <3>1
    <3>3. /\ Empty(n, p) => Empty(n, p)'
          /\ \A x \in Nat : Carries(n, p, x) => Carries(n, p, x)'
      BY <2>3
    <3>4. round[m] <= round'[m] /\ (phase'[m] = "failed" <=> phase[m] = "failed")
      <4>1. phase'[m] # "failed" /\ phase[m] # "failed" /\ round'[m] = round[m]
        BY <1>2
      <4>2. round[m] <= round[m]
        <5>1. \A x \in Nat \ {0} : x <= x
          OBVIOUS
        <5> QED BY <1>1, <5>1
      <4> QED BY <4>1, <4>2
    <3> QED BY <1>2, <1>3, <3>2, <3>3, <3>4, LinkKept
  <2> QED BY <2>2, <2>3
<1> QED BY <1>2, <1>3, StepOf

LEMMA TakeBufferedStep ==
  ASSUME IInv, NEW m \in Nodes, TakeBuffered(m) PROVE IInv'
<1>1. PICK q \in Nodes : q = Peer(m)
  BY InExchange DEF TakeBuffered
<1>2. /\ phase[m] = "recv" /\ inbox[m][q] # <<>> /\ Deliver(m, Head(inbox[m][q]))
      /\ inbox' = [inbox EXCEPT ![m][q] = Popped(@)]
      /\ UNCHANGED <<edges, steps, fits, round, pending>>
  BY <1>1 DEF TakeBuffered
<1>3. TypeOK /\ round[m] \in Nat
  BY DEF IInv, TypeOK
<1>4. ~Empty(q, m)
  BY <1>2 DEF Empty
<1>5. /\ NoneOf(pending[m], q) /\ inbox[m][q] = << <<q, round[m]>> >>
      /\ phase[q] = "failed" => round[m] <= round[q]
      /\ phase[q] # "failed" => Sends(q, pos[m]) = round[m]
  BY <1>1, <1>2, <1>4, ExpectedFrame DEF Carries
<1>6. Head(inbox[m][q]) = <<q, round[m]>> /\ Popped(inbox[m][q]) = <<>>
  BY <1>5 DEF Popped
<1>7. /\ inbox' \in [Nodes -> [Nodes -> Seq(Frames)]] /\ inbox'[m][q] = <<>>
      /\ \A n, p \in Nodes : ~(n = q /\ p = m) => inbox'[p][n] = inbox[p][n]
  BY <1>2, <1>3, <1>6 DEF TypeOK
<1>8. Empty(q, m)'
  BY <1>2, <1>5, <1>7 DEF Empty
<1>9. \A n, p \in Nodes : ~(n = q /\ p = m) =>
        /\ Empty(n, p) => Empty(n, p)'
        /\ \A x \in Nat : Carries(n, p, x) => Carries(n, p, x)'
  BY <1>2, <1>7 DEF Empty, Carries
<1>10. pending' \in [Nodes -> Seq(Frames)] /\ Deliver(m, <<q, round[m]>>)
  BY <1>2, <1>3, <1>6 DEF TypeOK
<1>11. UNCHANGED <<edges, steps, fits, round>> /\ phase[m] = "recv"
  BY <1>2
<1> QED BY <1>1, <1>5, <1>7, <1>8, <1>9, <1>10, <1>11, Receiving

(* The first connection of the listen queue.                               *)
LEMMA Accepting ==
  ASSUME TypeOK, NEW m \in Nodes, pending[m] # <<>>,
         pending' = [pending EXCEPT ![m] = Tail(@)]
  PROVE  \E src \in Nodes, r \in Nat :
           /\ Head(pending[m]) = <<src, r>>
           /\ pending' \in [Nodes -> Seq(Frames)]
           /\ \A p \in Nodes \ {m} : pending'[p] = pending[p]
           /\ ~NoneOf(pending[m], src)
           /\ \A n : NoneOf(pending[m], n) => NoneOf(pending'[m], n)
           /\ \A n, x : OnlyOne(pending[m], n, x) =>
                IF src = n THEN x = r /\ NoneOf(pending'[m], n)
                ELSE OnlyOne(pending'[m], n, x)
<1> DEFINE s == pending[m]
           t == pending'[m]
<1>1. /\ s \in Seq(Frames) /\ s # <<>> /\ t = Tail(s)
      /\ \A p \in Nodes \ {m} : pending'[p] = pending[p]
  BY DEF TypeOK
<1>2. pending' \in [Nodes -> Seq(Frames)]
  BY <1>1, QueueTail DEF TypeOK
<1> HIDE DEF s, t
<1>3. PICK src \in Nodes, r \in Nat : Head(s) = <<src, r>>
  BY <1>1, QueueTail DEF Frames
<1>4. \A n : NoneOf(s, n) => NoneOf(t, n) /\ src # n
  BY <1>1, <1>3, QueueTail
<1>5. ASSUME NEW n, NEW x, OnlyOne(s, n, x)
      PROVE  IF src = n THEN x = r /\ NoneOf(t, n) ELSE OnlyOne(t, n, x)
  <2>1. IF Head(s)[1] = n THEN Head(s) = <<n, x>> /\ NoneOf(t, n) ELSE OnlyOne(t, n, x)
    BY <1>1, <1>5, QueueTail
  <2> QED BY <1>3, <2>1
<1> QED BY <1>1, <1>2, <1>3, <1>4, <1>5 DEF s, t

LEMMA PairUpdate ==
  ASSUME NEW S, NEW T, NEW f \in [S -> [S -> T]], NEW a \in S, NEW b \in S, NEW v \in T,
         NEW g, g = [f EXCEPT ![a][b] = v]
  PROVE  /\ g \in [S -> [S -> T]] /\ g[a][b] = v
         /\ \A n, p \in S : ~(n = b /\ p = a) => g[p][n] = f[p][n]
OBVIOUS

(* It carries the frame awaited.                                           *)
LEMMA AcceptAwaited ==
  ASSUME IInv, NEW m \in Nodes, phase[m] = "recv", pending[m] # <<>>,
         pending' = [pending EXCEPT ![m] = Tail(@)],
         Head(pending[m])[2] # CutShort, Head(pending[m])[1] = Peer(m),
         Deliver(m, Head(pending[m])), UNCHANGED <<edges, steps, fits, round, inbox>>
  PROVE  IInv'
<1>1. TypeOK
  BY DEF IInv
<1>2. PICK q \in Nodes, r \in Nat :
           /\ Head(pending[m]) = <<q, r>>
           /\ pending' \in [Nodes -> Seq(Frames)]
           /\ \A p \in Nodes \ {m} : pending'[p] = pending[p]
           /\ ~NoneOf(pending[m], q)
           /\ \A n : NoneOf(pending[m], n) => NoneOf(pending'[m], n)
           /\ \A n, x : OnlyOne(pending[m], n, x) =>
                IF q = n THEN x = r /\ NoneOf(pending'[m], n)
                ELSE OnlyOne(pending'[m], n, x)
  BY <1>1, Accepting
<1>3. q = Peer(m) /\ r # CutShort
  BY <1>2
<1>4. ~Empty(q, m) /\ \A x : Carries(q, m, x) => /\ x = r /\ inbox[m][q] = <<>>
                                                 /\ NoneOf(pending'[m], q)
  BY <1>2 DEF Empty, Carries
<1>5. /\ r = round[m] /\ inbox[m][q] = <<>> /\ NoneOf(pending'[m], q)
      /\ phase[q] = "failed" => round[m] <= round[q]
      /\ phase[q] # "failed" => Sends(q, pos[m]) = round[m]
  BY <1>3, <1>4, ExpectedFrame
<1>6. Deliver(m, <<q, round[m]>>)
  BY <1>2, <1>5
<1>7. Empty(q, m)'
  BY <1>5 DEF Empty
<1>8. ASSUME NEW n \in Nodes, NEW p \in Nodes, ~(n = q /\ p = m)
      PROVE  /\ Empty(n, p) => Empty(n, p)'
             /\ \A x \in Nat : Carries(n, p, x) => Carries(n, p, x)'
  <2>1. CASE p # m
    BY <1>2, <2>1 DEF Empty, Carries
  <2>2. CASE p = m
    <3>1. /\ NoneOf(pending[p], n) => NoneOf(pending'[p], n)
          /\ \A x : OnlyOne(pending[p], n, x) => OnlyOne(pending'[p], n, x)
      BY <1>2, <1>8, <2>2
    <3>2. Empty(n, p) => Empty(n, p)'
      BY <1>2, <1>8, <2>2, <3>1 DEF Empty
    <3>3. \A x \in Nat : Carries(n, p, x) => Carries(n, p, x)'
      BY <1>2, <1>8, <2>2, <3>1 DEF Carries
    <3> QED BY <3>2, <3>3
  <2> QED BY <2>1, <2>2
<1>9. inbox' \in [Nodes -> [Nodes -> Seq(Frames)]] /\ UNCHANGED <<edges, steps, fits, round>>
  BY <1>1 DEF TypeOK
<1>10. pending' \in [Nodes -> Seq(Frames)] /\ q \in Nodes /\ q = Peer(m)
  BY <1>2, <1>3
<1>11. /\ phase[q] = "failed" => round[m] <= round[q]
       /\ phase[q] # "failed" => Sends(q, pos[m]) = round[m]
  BY <1>5
<1> QED BY <1>6, <1>7, <1>8, <1>9, <1>10, <1>11, Receiving

(* It is somebody else's: kept for later.                                  *)
LEMMA AcceptBuffered ==
  ASSUME IInv, NEW m \in Nodes, phase[m] = "recv", pending[m] # <<>>,
         pending' = [pending EXCEPT ![m] = Tail(@)],
         NEW q \in Nodes, NEW r \in Nat, Head(pending[m]) = <<q, r>>, r # CutShort,
         inbox' = [inbox EXCEPT ![m][q] = Append(inbox[m][q], <<q, r>>)],
         UNCHANGED <<edges, steps, fits, round, phase, pos, got, heard>>
  PROVE  IInv'
<1>1. TypeOK /\ Walks(m) /\ Consumed(m)
  BY DEF IInv
<1>2. /\ pending' \in [Nodes -> Seq(Frames)]
      /\ \A p \in Nodes \ {m} : pending'[p] = pending[p]
      /\ ~NoneOf(pending[m], q)
      /\ \A n : NoneOf(pending[m], n) => NoneOf(pending'[m], n)
      /\ \A n, x : OnlyOne(pending[m], n, x) =>
           IF q = n THEN x = r /\ NoneOf(pending'[m], n)
           ELSE OnlyOne(pending'[m], n, x)
  <2>1. PICK src \in Nodes, x0 \in Nat :
           /\ Head(pending[m]) = <<src, x0>>
           /\ pending' \in [Nodes -> Seq(Frames)]
           /\ \A p \in Nodes \ {m} : pending'[p] = pending[p]
           /\ ~NoneOf(pending[m], src)
           /\ \A n : NoneOf(pending[m], n) => NoneOf(pending'[m], n)
           /\ \A n, x : OnlyOne(pending[m], n, x) =>
                IF src = n THEN x = x0 /\ NoneOf(pending'[m], n)
                ELSE OnlyOne(pending'[m], n, x)
    BY <1>1, Accepting
  <2>2. <<src, x0>> = <<q, r>>
    BY <2>1
  <2>3. src = q /\ x0 = r
    BY <2>2
  <2> QED BY <2>1, <2>3
<1>4. /\ inbox' \in [Nodes -> [Nodes -> Seq(Frames)]]
      /\ inbox'[m][q] = Append(inbox[m][q], <<q, r>>)
      /\ \A n, p \in Nodes : ~(n = q /\ p = m) => inbox'[p][n] = inbox[p][n]
  <2>1. inbox \in [Nodes -> [Nodes -> Seq(Frames)]] /\ <<q, r>> \in Frames
    BY <1>1 DEF TypeOK, Frames
  <2>2. Append(inbox[m][q], <<q, r>>) \in Seq(Frames)
    BY <2>1
  <2> QED BY <2>1, <2>2, PairUpdate
<1>5. TypeOK' /\ Alone(m)
  BY <1>1, <1>2, <1>4 DEF TypeOK, Alone, SameAt
<1>6. Walks(m)' /\ Consumed(m)'
  BY <1>1 DEF Walks, Mine, Peer, Turns, SpeaksFirst, Consumed, Other, Done
<1>7. ASSUME NEW n \in Nodes, NEW p \in Nodes
      PROVE  /\ Empty(n, p) => Empty(n, p)'
             /\ \A x \in Nat : Carries(n, p, x) => Carries(n, p, x)'
  <2>1. CASE p # m
    BY <1>2, <1>4, <2>1 DEF Empty, Carries
  <2>2. CASE p = m /\ n # q
    <3>1. /\ NoneOf(pending[p], n) => NoneOf(pending'[p], n)
          /\ \A x : OnlyOne(pending[p], n, x) => OnlyOne(pending'[p], n, x)
      BY <1>2, <2>2
    <3>2. inbox'[p][n] = inbox[p][n]
      BY <1>4, <2>2
    <3> QED BY <3>1, <3>2 DEF Empty, Carries
  <2>3. CASE p = m /\ n = q
    <3>1. ~Empty(n, p)
      BY <1>2, <2>3 DEF Empty
    <3>2. ASSUME NEW x \in Nat, Carries(n, p, x) PROVE Carries(n, p, x)'
      <4>1. OnlyOne(pending[m], q, x) /\ inbox[m][q] = <<>>
        BY <1>2, <2>3, <3>2 DEF Carries
      <4>2. x = r /\ NoneOf(pending'[m], q) /\ inbox'[m][q] = << <<q, r>> >>
        BY <1>2, <1>4, <4>1
      <4> QED BY <2>3, <4>2 DEF Carries
    <3> QED BY <3>1, <3>2
  <2> QED BY <2>1, <2>2, <2>3
<1>8. ASSUME NEW n \in Nodes, NEW p \in Nodes, NEW i \in Turns(n), p = Other(n, i)
      PROVE  Link(n, p, i)'
  <2>1. Sends(m, i)' = Sends(m, i) /\ Takes(m, i)' = Takes(m, i)
    BY DEF Sends, Takes, Finished, Done, HasSent, SpeaksFirst
  <2>2. round[m] <= round'[m]
    BY <1>1 DEF TypeOK
  <2>3. /\ Empty(n, p) => Empty(n, p)'
        /\ \A x \in Nat : Carries(n, p, x) => Carries(n, p, x)'
    BY <1>7
  <2> QED BY <1>5, <1>8, <2>1, <2>2, <2>3, LinkKept
<1> QED BY <1>5, <1>6, <1>8, StepOf

(* It is cut short: its sender has failed already, and so does the reader. *)
LEMMA AcceptCut ==
  ASSUME IInv, NEW m \in Nodes, phase[m] = "recv", pending[m] # <<>>,
         pending' = [pending EXCEPT ![m] = Tail(@)],
         Head(pending[m])[2] = CutShort, phase' = [phase EXCEPT ![m] = "failed"],
         UNCHANGED <<edges, steps, fits, round, pos, got, heard, inbox>>
  PROVE  IInv'
<1>1. /\ TypeOK /\ Walks(m) /\ Consumed(m) /\ pos[m] \in Turns(m)
      /\ round[m] \in Nat \ {0} /\ phase'[m] = "failed"
  BY InExchange DEF TypeOK
<1>2. PICK q \in Nodes, r \in Nat :
           /\ Head(pending[m]) = <<q, r>>
           /\ pending' \in [Nodes -> Seq(Frames)]
           /\ \A p \in Nodes \ {m} : pending'[p] = pending[p]
           /\ ~NoneOf(pending[m], q)
           /\ \A n : NoneOf(pending[m], n) => NoneOf(pending'[m], n)
           /\ \A n, x : OnlyOne(pending[m], n, x) =>
                IF q = n THEN x = r /\ NoneOf(pending'[m], n)
                ELSE OnlyOne(pending'[m], n, x)
  BY <1>1, Accepting
<1>3. r = CutShort
  BY <1>2
<1>4. TypeOK' /\ Alone(m)
  BY <1>1, <1>2 DEF TypeOK, Alone, SameAt, Phases
<1>5. Walks(m)' /\ Consumed(m)'
  BY <1>1 DEF Walks, Mine, Peer, Turns, SpeaksFirst, Consumed, Other, Done
<1>6. ASSUME NEW n \in Nodes, NEW p \in Nodes, ~(n = q /\ p = m)
      PROVE  /\ Empty(n, p) => Empty(n, p)'
             /\ \A x \in Nat : Carries(n, p, x) => Carries(n, p, x)'
  <2>1. CASE p # m
    BY <1>2, <2>1 DEF Empty, Carries
  <2>2. CASE p = m
    <3>1. /\ NoneOf(pending[p], n) => NoneOf(pending'[p], n)
          /\ \A x : OnlyOne(pending[p], n, x) => OnlyOne(pending'[p], n, x)
      BY <1>2, <1>6, <2>2
    <3> QED BY <3>1 DEF Empty, Carries
  <2> QED BY <2>1, <2>2
<1>7. ASSUME NEW n \in Nodes, NEW p \in Nodes, NEW i \in Turns(n), p = Other(n, i)
      PROVE  Link(n, p, i)'
  <2>1. p # n /\ i \in Turns(p)
    BY <1>1, <1>7, EdgeEnds
  <2>2. Takes(m, i)' = Takes(m, i)
    BY DEF Takes, Finished, Done
  <2>3. CASE n = m
    <3>1. /\ Empty(m, p) => Empty(m, p)'
          /\ \A x \in Nat : Carries(m, p, x) => Carries(m, p, x)' \/ Carries(m, p, CutShort)'
      BY <1>6, <2>1, <2>3
    <3>2. phase[m] # "failed" /\ round'[m] = round[m]
      OBVIOUS
    <3> QED BY <1>1, <1>4, <1>7, <2>3, <3>1, <3>2, LinkFails
  <2>4. CASE n # m /\ ~(n = q /\ p = m)
    <3>1. round[m] <= round'[m]
      BY <1>1
    <3> QED BY <1>4, <1>6, <1>7, <2>2, <2>4, <3>1, LinkKept
  <2>5. CASE n = q /\ p = m
    <3>1. Link(q, m, i) /\ Takes(m, i) \in Nat
      BY <1>1, <1>7, <2>1, <2>5, Counts DEF IInv, Links
    <3>2. ~Empty(q, m)
      BY <1>2 DEF Empty
    <3>3. \A x : Carries(q, m, x) => x = CutShort /\ NoneOf(pending'[m], q)
                                     /\ inbox[m][q] = <<>>
      BY <1>2, <1>3 DEF Carries
    <3>4. phase[q] = "failed"
      <4> SUFFICES ASSUME phase[q] # "failed" PROVE FALSE
        OBVIOUS
      <4>1. Sends(q, i) = Takes(m, i) + 1 /\ Carries(q, m, Sends(q, i))
        BY <3>1, <3>2 DEF Link, InStep
      <4>2. Takes(m, i) + 1 = CutShort
        BY <3>3, <4>1
      <4> QED BY <3>1, <4>2 DEF CutShort
    <3>5. Takes(m, i) <= round[q] /\ \E x : Carries(q, m, x)
      BY <3>1, <3>2, <3>4 DEF Link, LeftOver
    <3>6. Empty(q, m)'
      BY <3>3, <3>5 DEF Empty
    <3>7. phase'[q] = "failed" /\ round' = round
      BY <1>1, <2>1, <2>5, <3>4 DEF TypeOK
    <3>8. LeftOver(q, m, i)'
      BY <2>2, <3>5, <3>6, <3>7 DEF LeftOver
    <3> QED BY <2>5, <3>7, <3>8 DEF Link
  <2> QED BY <2>3, <2>4, <2>5
<1> QED BY <1>4, <1>5, <1>7, StepOf

LEMMA AcceptStep ==
  ASSUME IInv, NEW m \in Nodes, Accept(m) PROVE IInv'
<1> DEFINE f == Head(pending[m])
<1>1. /\ phase[m] = "recv" /\ pending[m] # <<>>
      /\ pending' = [pending EXCEPT ![m] = Tail(@)]
      /\ UNCHANGED <<edges, steps, fits, round>>
  BY DEF Accept
<1>2. PICK q \in Nodes, r \in Nat : f = <<q, r>>
  <2>1. pending[m] \in Seq(Frames)
    BY DEF IInv, TypeOK
  <2>2. f \in Frames
    BY <1>1, <2>1, QueueTail
  <2> QED BY <2>2 DEF Frames
<1>3. \/ /\ f[2] = CutShort
         /\ phase' = [phase EXCEPT ![m] = "failed"]
         /\ UNCHANGED <<pos, got, heard, inbox>>
      \/ /\ f[2] # CutShort /\ f[1] = Peer(m)
         /\ Deliver(m, f)
         /\ UNCHANGED inbox
      \/ /\ f[2] # CutShort
         /\ inbox' = [inbox EXCEPT ![m][f[1]] = Append(@, f)]
         /\ UNCHANGED <<phase, pos, got, heard>>
  BY DEF Accept, Awaited
<1>4. CASE /\ f[2] = CutShort
           /\ phase' = [phase EXCEPT ![m] = "failed"]
           /\ UNCHANGED <<pos, got, heard, inbox>>
  BY <1>1, <1>4, AcceptCut
<1>5. CASE /\ f[2] # CutShort /\ f[1] = Peer(m)
           /\ Deliver(m, f)
           /\ UNCHANGED inbox
  BY <1>1, <1>5, AcceptAwaited
<1>6. CASE /\ f[2] # CutShort
           /\ inbox' = [inbox EXCEPT ![m][f[1]] = Append(@, f)]
           /\ UNCHANGED <<phase, pos, got, heard>>
  <2>1. UNCHANGED <<edges, steps, fits, round, phase, pos, got, heard>>
    BY <1>1, <1>6
  <2> HIDE DEF f
  <2>2. f[1] = q /\ f[2] = r
    BY <1>2
  <2>3. r # CutShort /\ inbox' = [inbox EXCEPT ![m][q] = Append(inbox[m][q], <<q, r>>)]
    BY <1>2, <1>6, <2>2
  <2>4. Head(pending[m]) = <<q, r>>
    BY <1>2 DEF f
  <2> QED BY <1>1, <2>1, <2>3, <2>4, AcceptBuffered
<1> QED BY <1>3, <1>4, <1>5, <1>6

LEMMA GiveUpStep ==
  ASSUME IInv, NEW m \in Nodes, GiveUp(m) PROVE IInv'
<1>1. /\ phase[m] = "send" /\ phase' = [phase EXCEPT ![m] = "failed"]
      /\ UNCHANGED <<edges, steps, fits, round, pos, got, heard, pending, inbox>>
  BY DEF GiveUp
<1>2. /\ TypeOK /\ Walks(m) /\ Consumed(m) /\ pos[m] \in Turns(m)
      /\ round[m] \in Nat \ {0} /\ phase'[m] = "failed"
  BY <1>1, InExchange DEF TypeOK
<1>3. TypeOK' /\ Alone(m)
  BY <1>1, <1>2 DEF TypeOK, Alone, SameAt, Phases
<1>4. Walks(m)' /\ Consumed(m)'
  BY <1>1, <1>2 DEF Walks, Mine, Peer, Turns, SpeaksFirst, Consumed, Other, Done
<1>5. ASSUME NEW n \in Nodes, NEW p \in Nodes, NEW i \in Turns(n), p = Other(n, i)
      PROVE  Link(n, p, i)'
  <2>1. /\ Empty(n, p) => Empty(n, p)'
        /\ \A x \in Nat : Carries(n, p, x) => Carries(n, p, x)'
    BY <1>1 DEF Empty, Carries
  <2>2. Takes(m, i)' = Takes(m, i)
    BY <1>1 DEF Takes, Finished, Done
  <2>3. round[m] <= round'[m] /\ round'[m] = round[m]
    BY <1>1, <1>2
  <2>4. CASE n = m
    BY <1>1, <1>2, <1>3, <1>5, <2>1, <2>3, <2>4, LinkFails
  <2>5. CASE n # m
    BY <1>3, <1>5, <2>1, <2>2, <2>3, <2>5, LinkKept
  <2> QED BY <2>4, <2>5
<1> QED BY <1>3, <1>4, <1>5, StepOf

LEMMA SendBreaksStep ==
  ASSUME IInv, NEW m \in Nodes, SendBreaks(m) PROVE IInv'
<1>1. PICK q \in Nodes : q = Peer(m)
  BY InExchange DEF SendBreaks
<1> DEFINE Cut(s) == [k \in DOMAIN s |-> IF s[k][1] = m THEN <<m, CutShort>> ELSE s[k]]
           s == pending[q]
           t == pending'[q]
<1>2. /\ phase[m] = "sending" /\ phase' = [phase EXCEPT ![m] = "failed"]
      /\ pending' = [pending EXCEPT ![q] = Cut(@)]
      /\ ~NoneOf(s, m)
      /\ UNCHANGED <<edges, steps, fits, round, pos, got, heard, inbox>>
  BY <1>1 DEF SendBreaks, Unread, NoneOf
<1>3. /\ TypeOK /\ Walks(m) /\ Consumed(m) /\ pos[m] \in Turns(m) /\ q = Other(m, pos[m])
      /\ round[m] \in Nat \ {0} /\ phase'[m] = "failed" /\ q # m
  BY <1>1, <1>2, InExchange DEF TypeOK
<1>4. /\ s \in Seq(Frames) /\ t = Cut(s)
      /\ \A p \in Nodes \ {q} : pending'[p] = pending[p]
  BY <1>2, <1>3 DEF TypeOK
<1> HIDE DEF s, t
<1>5. /\ t \in Seq(Frames)
      /\ \A x : OnlyOne(s, m, x) => OnlyOne(t, m, CutShort)
      /\ \A n : n # m /\ NoneOf(s, n) => NoneOf(t, n)
      /\ \A n, x : n # m /\ OnlyOne(s, n, x) => OnlyOne(t, n, x)
  BY <1>4, QueueCut
<1>6. TypeOK' /\ Alone(m)
  <2>1. pending' \in [Nodes -> Seq(Frames)]
    BY <1>2, <1>3, <1>5 DEF TypeOK, t
  <2> QED BY <1>2, <1>3, <2>1 DEF TypeOK, Alone, SameAt, Phases
<1>7. Walks(m)' /\ Consumed(m)'
  BY <1>2, <1>3 DEF Walks, Mine, Peer, Turns, SpeaksFirst, Consumed, Other, Done
<1>8. ASSUME NEW n \in Nodes, NEW p \in Nodes, ~(n = m /\ p = q)
      PROVE  /\ Empty(n, p) => Empty(n, p)'
             /\ \A x \in Nat : Carries(n, p, x) => Carries(n, p, x)'
  <2>1. CASE p # q
    BY <1>2, <1>4, <2>1 DEF Empty, Carries
  <2>2. CASE p = q
    <3>1. /\ NoneOf(pending[p], n) => NoneOf(pending'[p], n)
          /\ \A x : OnlyOne(pending[p], n, x) => OnlyOne(pending'[p], n, x)
      BY <1>5, <1>8, <2>2 DEF s, t
    <3> QED BY <1>2, <3>1 DEF Empty, Carries
  <2> QED BY <2>1, <2>2
<1>9. /\ ~Empty(m, q)
      /\ \A x \in Nat : Carries(m, q, x) => Carries(m, q, CutShort)'
  <2>1. ~Empty(m, q)
    BY <1>2 DEF Empty, s
  <2>2. ASSUME NEW x \in Nat, Carries(m, q, x) PROVE Carries(m, q, CutShort)'
    <3>1. OnlyOne(s, m, x) /\ inbox[q][m] = <<>>
      BY <1>2, <2>2 DEF Carries, s
    <3>2. OnlyOne(pending'[q], m, CutShort)
      BY <1>5, <3>1 DEF t
    <3> QED BY <1>2, <3>1, <3>2 DEF Carries
  <2> QED BY <2>1, <2>2
<1>10. ASSUME NEW n \in Nodes, NEW p \in Nodes, NEW i \in Turns(n), p = Other(n, i)
       PROVE  Link(n, p, i)'
  <2>1. Takes(m, i)' = Takes(m, i)
    BY <1>2 DEF Takes, Finished, Done
  <2>2. round[m] <= round'[m] /\ round'[m] = round[m]
    BY <1>2, <1>3
  <2>3. CASE n = m
    <3>1. /\ Empty(m, p) => Empty(m, p)'
          /\ \A x \in Nat : Carries(m, p, x) => Carries(m, p, x)' \/ Carries(m, p, CutShort)'
      BY <1>8, <1>9
    <3> QED BY <1>2, <1>3, <1>6, <1>10, <2>2, <2>3, <3>1, LinkFails
  <2>4. CASE n # m
    BY <1>6, <1>8, <1>10, <2>1, <2>2, <2>4, LinkKept
  <2> QED BY <2>3, <2>4
<1> QED BY <1>6, <1>7, <1>10, StepOf

-----------------------------------------------------------------------------
(* The invariant.                                                          *)
LEMMA Start0 == Init => IInv
<1> SUFFICES ASSUME Init PROVE IInv
  OBVIOUS
<1>1. TypeOK
  <2>1. Simple(edges)
    BY SimpleGraphs DEF Init
  <2>2. steps \in [Nodes -> Nat]
    BY PeerLinkAssumption DEF Init
  <2> QED BY <2>1, <2>2 DEF Init, TypeOK, Phases
<1>2. \A n \in Nodes : Walks(n) /\ Consumed(n)
  BY DEF Init, Walks, Consumed, Mine
<1>3. Links
  <2> SUFFICES ASSUME NEW n \in Nodes, NEW i \in Turns(n) PROVE Link(n, Other(n, i), i)
    BY DEF Links
  <2>1. /\ Other(n, i) \in Nodes /\ i \in Nat \ {0}
    BY <1>1, EdgeEnds
  <2>2. Sends(n, i) = 0 /\ Takes(Other(n, i), i) = 0
    BY <2>1 DEF Init, Sends, Takes, Finished, Done
  <2>3. Empty(n, Other(n, i))
    BY <2>1 DEF Init, Empty, NoneOf
  <2> QED BY <2>2, <2>3 DEF Init, Link, InStep
<1> QED BY <1>1, <1>2, <1>3 DEF IInv

LEMMA Inductive == IInv /\ [Next]_vars => IInv'
<1> SUFFICES ASSUME IInv, [Next]_vars PROVE IInv'
  OBVIOUS
<1>1. CASE UNCHANGED vars
  <2>1. UNCHANGED <<edges, steps, fits, phase, round, pos, got, heard, pending, inbox>>
    BY <1>1 DEF vars
  <2>2. PICK m \in Nodes : TRUE
    BY PeerLinkAssumption DEF Nodes
  <2>3. TypeOK' /\ Alone(m) /\ SameAt(m)
    BY <2>1 DEF IInv, TypeOK, Alone, SameAt
  <2>4. Walks(m) /\ Consumed(m) /\ round[m] <= round'[m]
    BY <2>1 DEF IInv, TypeOK
  <2>5. Consumed(m)'
    BY <2>1, <2>4 DEF Consumed, Turns, Other, Done
  <2>6. /\ Walks(m)'
        /\ \A j \in Turns(m) : Sends(m, j)' = Sends(m, j) /\ Takes(m, j)' = Takes(m, j)
    BY <2>1, <2>3, <2>4, SameCounts
  <2> QED BY <2>1, <2>3, <2>4, <2>5, <2>6, QuietStep
<1>2. CASE Next
  BY <1>2, StartStep, BeginStep, CloseStep, ConnectStep, SentStep, TakeBufferedStep,
     AcceptStep, GiveUpStep, SendBreaksStep DEF Next, Progress
<1> QED BY <1>1, <1>2

THEOREM Invariance == Spec => []IInv
BY Start0, Inductive, PTL DEF Spec

-----------------------------------------------------------------------------
(* The steps, as steps of synchronous gossip.                              *)
LEMMA NeighboursAre ==
  ASSUME TypeOK, NEW n \in Nodes
  PROVE  Gossip!Neighbours(n) = {Other(n, i) : i \in Turns(n)}
<1>1. ASSUME NEW i \in Turns(n) PROVE Other(n, i) \in Gossip!Neighbours(n)
  <2>1. /\ i \in DOMAIN edges /\ Other(n, i) \in Nodes /\ Other(n, i) # n
        /\ {n, Other(n, i)} = {edges[i][1], edges[i][2]}
    BY EdgeEnds DEF Other, Turns
  <2> QED BY <2>1 DEF Gossip!Neighbours, Links
<1>2. ASSUME NEW p \in Gossip!Neighbours(n) PROVE \E i \in Turns(n) : p = Other(n, i)
  <2>1. p # n /\ \E i \in DOMAIN edges : {n, p} = {edges[i][1], edges[i][2]}
    BY DEF Gossip!Neighbours, Links
  <2>2. PICK i \in DOMAIN edges : {n, p} = {edges[i][1], edges[i][2]}
    BY <2>1
  <2>3. i \in Turns(n) /\ p = Other(n, i)
    BY <2>1, <2>2 DEF Turns, Other
  <2> QED BY <2>3
<1> QED BY <1>1, <1>2

(* Between two rounds a node has heard all its neighbours.                 *)
LEMMA BetweenRounds ==
  ASSUME IInv, NEW m \in Nodes, phase[m] = "ready"
  PROVE  round[m] = 0 \/ Gossip!Finished(m)
<1> SUFFICES ASSUME round[m] # 0 PROVE Gossip!Finished(m)
  OBVIOUS
<1>1. TypeOK /\ Walks(m) /\ Consumed(m) /\ round[m] \in Nat /\ pos[m] = 0
  BY DEF IInv, TypeOK, Walks
<1>2. round[m] > 0 /\ \A j \in Turns(m) : Done(m, j)
  BY <1>1 DEF Done
<1>3. heard[m] = {<<Other(m, i), round[m]>> : i \in Turns(m)}
  BY <1>1, <1>2 DEF Consumed
<1>4. Gossip!Neighbours(m) = {Other(m, i) : i \in Turns(m)}
  BY <1>1, NeighboursAre
<1> QED BY <1>3, <1>4 DEF Gossip!Finished

LEMMA Hearing ==
  ASSUME IInv, NEW m \in Nodes, phase[m] \in {"sending", "recv"},
         Finish(m, {<<Peer(m), round[m]>>}), UNCHANGED <<edges, steps, fits, round>>,
         round[m] <= round[Peer(m)]
  PROVE  Gossip!Hear(m, Peer(m))
<1>1. /\ TypeOK /\ Walks(m) /\ Consumed(m) /\ pos[m] \in Turns(m)
      /\ pos[m] \in Nat \ {0} /\ round[m] \in Nat \ {0}
      /\ Peer(m) = Other(m, pos[m]) /\ Peer(m) \in Nodes
  BY InExchange
<1>2. Peer(m) \in Gossip!Neighbours(m)
  BY <1>1, NeighboursAre
<1>3. <<Peer(m), round[m]>> \notin heard[m]
  <2> SUFFICES ASSUME <<Peer(m), round[m]>> \in heard[m] PROVE FALSE
    OBVIOUS
  <2>1. heard[m] = {<<Other(m, i), round[m]>> : i \in {j \in Turns(m) : Done(m, j)}}
    BY <1>1 DEF Consumed
  <2>2. PICK i \in Turns(m) : Done(m, i) /\ Peer(m) = Other(m, i)
    BY <2>1
  <2>3. i = pos[m]
    BY <1>1, <2>2, OneEdge
  <2> QED BY <1>1, <2>2, <2>3 DEF Done
<1>4. /\ heard' = [heard EXCEPT ![m] = @ \cup {<<Peer(m), round[m]>>}]
      /\ Proceed(m, pos[m])
  BY DEF Finish
<1>5. /\ \A n \in Nodes \ {m} : phase'[n] = phase[n]
      /\ phase'[m] \in {"ready", "send", "recv"}
  BY <1>1, <1>4, Walking
<1>6. [n \in Nodes |-> IF phase'[n] \in {"closed", "failed"} THEN phase'[n] ELSE "up"]
        = [n \in Nodes |-> IF phase[n] \in {"closed", "failed"} THEN phase[n] ELSE "up"]
  BY <1>5
<1>7. 0 < round[m]
  BY <1>1
<1> QED BY <1>2, <1>3, <1>4, <1>6, <1>7 DEF Gossip!Hear, Links

(* A node that holds its peer's frame is not ahead of its peer.            *)
LEMMA NotAhead ==
  ASSUME IInv, NEW m \in Nodes, phase[m] \in {"send", "sending", "recv"},
         Takes(m, pos[m]) = round[m]
  PROVE  round[m] <= round[Peer(m)]
<1> DEFINE q == Peer(m)
<1>1. /\ TypeOK /\ pos[m] \in Turns(q) /\ Other(q, pos[m]) = m /\ q \in Nodes
      /\ round[m] \in Nat
  BY InExchange
<1>2. /\ Link(q, m, pos[m]) /\ Sends(q, pos[m]) \in Nat /\ Sends(q, pos[m]) <= round[q]
      /\ round[q] \in Nat
  BY <1>1, Counts DEF IInv, Links, TypeOK
<1> QED BY <1>1, <1>2 DEF Link, InStep, LeftOver

LEMMA AwaitedFrame ==
  ASSUME IInv, NEW m \in Nodes, phase[m] = "recv", NEW q \in Nodes, q = Peer(m),
         ~Empty(q, m), ~Carries(q, m, CutShort)
  PROVE  Carries(q, m, round[m]) /\ round[m] <= round[q]
<1>1. /\ Carries(q, m, round[m])
      /\ phase[q] = "failed" => round[m] <= round[q]
      /\ phase[q] # "failed" => Sends(q, pos[m]) = round[m]
  BY ExpectedFrame
<1>2. TypeOK /\ Walks(q) /\ pos[m] \in Turns(q)
  BY InExchange DEF IInv
<1>3. Sends(q, pos[m]) <= round[q]
  BY <1>2, Counts
<1> QED BY <1>1, <1>3

(* The abstract status of the nodes.                                       *)
Up(ph) == [n \in Nodes |-> IF ph[n] \in {"closed", "failed"} THEN ph[n] ELSE "up"]

LEMMA LeavesUp ==
  ASSUME TypeOK, NEW m \in Nodes, NEW x, phase' = [phase EXCEPT ![m] = x],
         phase[m] \notin {"closed", "failed"}, x \in {"closed", "failed"}
  PROVE  Up(phase)[m] = "up" /\ Up(phase') = [Up(phase) EXCEPT ![m] = x]
BY DEF TypeOK, Up

LEMMA StaysUp ==
  ASSUME IInv, NEW m \in Nodes, phase[m] \in {"down", "send", "sending", "recv"},
         NEW x \in {"ready", "send", "sending", "recv"}, phase' = [phase EXCEPT ![m] = x]
  PROVE  Up(phase') = Up(phase)
BY DEF IInv, TypeOK, Up

LEMMA Silent ==
  ASSUME UNCHANGED <<edges, round, heard>>, Up(phase') = Up(phase)
  PROVE  UNCHANGED Gossip!vars
BY DEF Gossip!vars, Up

LEMMA FailStep ==
  ASSUME IInv, NEW m \in Nodes, phase[m] \notin {"closed", "failed"},
         phase' = [phase EXCEPT ![m] = "failed"], UNCHANGED <<edges, round, heard>>
  PROVE  Gossip!Fail(m)
<1>1. Up(phase)[m] = "up" /\ Up(phase') = [Up(phase) EXCEPT ![m] = "failed"]
  BY LeavesUp DEF IInv
<1> QED BY <1>1 DEF Gossip!Fail, Up

(* Taking a frame: the first speaker has then heard, the second is about   *)
(* to answer.                                                              *)
LEMMA DeliverStep ==
  ASSUME IInv, NEW m \in Nodes, phase[m] = "recv", round[m] <= round[Peer(m)],
         Deliver(m, <<Peer(m), round[m]>>), UNCHANGED <<edges, steps, fits, round>>
  PROVE  Gossip!Hear(m, Peer(m)) \/ UNCHANGED Gossip!vars
<1>1. CASE SpeaksFirst(m, pos[m])
  BY <1>1, Hearing DEF Deliver
<1>2. CASE ~SpeaksFirst(m, pos[m])
  <2>1. phase' = [phase EXCEPT ![m] = "send"] /\ UNCHANGED heard
    BY <1>2 DEF Deliver
  <2>2. Up(phase') = Up(phase)
    BY <2>1, StaysUp
  <2> QED BY <2>1, <2>2, Silent
<1> QED BY <1>1, <1>2

LEMMA StepSimulation == IInv /\ [Next]_vars => [Gossip!Next]_(Gossip!vars)
<1> SUFFICES ASSUME IInv, [Next]_vars PROVE Gossip!Next \/ UNCHANGED Gossip!vars
  OBVIOUS
<1> USE DEF IInv
<1>1. CASE UNCHANGED vars
  BY <1>1 DEF vars, Gossip!vars
<1>2. ASSUME NEW m \in Nodes, Start(m) PROVE UNCHANGED Gossip!vars
  <2>1. Up(phase') = Up(phase)
    BY <1>2, StaysUp DEF Start
  <2> QED BY <1>2, <2>1, Silent DEF Start
<1>3. ASSUME NEW m \in Nodes, Begin(m) PROVE Gossip!Enter(m)
  <2>1. /\ phase[m] = "ready" /\ round' = [round EXCEPT ![m] = @ + 1]
        /\ heard' = [heard EXCEPT ![m] = {}] /\ Proceed(m, 0) /\ UNCHANGED edges
    BY <1>3 DEF Begin
  <2>2. round[m] = 0 \/ Gossip!Finished(m)
    BY <2>1, BetweenRounds
  <2>3. /\ \A n \in Nodes \ {m} : phase'[n] = phase[n]
        /\ phase'[m] \in {"ready", "send", "recv"}
    BY <2>1, Walking
  <2>4. Up(phase') = Up(phase) /\ Up(phase)[m] = "up"
    BY <2>1, <2>3 DEF Up
  <2> QED BY <2>1, <2>2, <2>4 DEF Gossip!Enter, Up
<1>4. ASSUME NEW m \in Nodes, Close(m) PROVE Gossip!Stop(m)
  <2>1. /\ phase[m] = "ready" /\ phase' = [phase EXCEPT ![m] = "closed"]
        /\ UNCHANGED <<edges, round, heard>>
    BY <1>4 DEF Close
  <2>2. Up(phase)[m] = "up" /\ Up(phase') = [Up(phase) EXCEPT ![m] = "closed"]
    BY <2>1, LeavesUp
  <2>3. round[m] = 0 \/ Gossip!Finished(m)
    BY <2>1, BetweenRounds
  <2> QED BY <2>1, <2>2, <2>3 DEF Gossip!Stop, Up
<1>5. ASSUME NEW m \in Nodes, Connect(m) PROVE UNCHANGED Gossip!vars
  <2>1. Up(phase') = Up(phase)
    BY <1>5, StaysUp DEF Connect
  <2> QED BY <1>5, <2>1, Silent DEF Connect
<1>6. ASSUME NEW m \in Nodes, Sent(m)
      PROVE  Gossip!Hear(m, Peer(m)) \/ UNCHANGED Gossip!vars
  <2>1. phase[m] = "sending" /\ UNCHANGED <<edges, steps, fits, round>>
    BY <1>6 DEF Sent
  <2>2. CASE SpeaksFirst(m, pos[m])
    <3>1. phase' = [phase EXCEPT ![m] = "recv"] /\ UNCHANGED heard
      BY <1>6, <2>2 DEF Sent
    <3>2. Up(phase') = Up(phase)
      BY <2>1, <3>1, StaysUp
    <3> QED BY <2>1, <3>1, <3>2, Silent
  <2>3. CASE ~SpeaksFirst(m, pos[m])
    <3>1. /\ Walks(m) /\ round[m] \in Nat \ {0} /\ Finished(m, pos[m]) = round[m] - 1
      BY <2>1, InExchange
    <3>2. got[m] = {<<Peer(m), round[m]>>}
      BY <2>1, <2>3, <3>1 DEF Walks, Mine
    <3>3. Takes(m, pos[m]) = round[m]
      BY <3>1, <3>2 DEF Takes
    <3>4. Finish(m, {<<Peer(m), round[m]>>})
      BY <1>6, <2>3, <3>2 DEF Sent
    <3>5. round[m] <= round[Peer(m)]
      BY <2>1, <3>3, NotAhead
    <3> QED BY <2>1, <3>4, <3>5, Hearing
  <2> QED BY <2>2, <2>3
<1>7. ASSUME NEW m \in Nodes, TakeBuffered(m)
      PROVE  Gossip!Hear(m, Peer(m)) \/ UNCHANGED Gossip!vars
  <2>1. PICK q \in Nodes : q = Peer(m)
    BY <1>7, InExchange DEF TakeBuffered
  <2>2. /\ phase[m] = "recv" /\ inbox[m][q] # <<>> /\ Deliver(m, Head(inbox[m][q]))
        /\ UNCHANGED <<edges, steps, fits, round>>
    BY <1>7, <2>1 DEF TakeBuffered
  <2>3. ~Empty(q, m) /\ ~Carries(q, m, CutShort)
    BY <2>2 DEF Empty, Carries
  <2>4. Carries(q, m, round[m]) /\ round[m] <= round[q]
    BY <2>1, <2>2, <2>3, AwaitedFrame
  <2>5. Head(inbox[m][q]) = <<q, round[m]>>
    BY <2>2, <2>4 DEF Carries
  <2> QED BY <2>1, <2>2, <2>4, <2>5, DeliverStep
<1>8. ASSUME NEW m \in Nodes, Accept(m)
      PROVE  Gossip!Hear(m, Peer(m)) \/ Gossip!Fail(m) \/ UNCHANGED Gossip!vars
  <2> DEFINE f == Head(pending[m])
  <2>1. /\ phase[m] = "recv" /\ pending[m] # <<>> /\ pending[m] \in Seq(Frames)
        /\ UNCHANGED <<edges, steps, fits, round>>
    BY <1>8 DEF Accept, TypeOK
  <2>2. CASE /\ phase' = [phase EXCEPT ![m] = "failed"]
             /\ UNCHANGED heard
    BY <2>1, <2>2, FailStep
  <2>3. CASE f[2] # CutShort /\ f[1] = Peer(m) /\ Deliver(m, f)
    <3>1. PICK q \in Nodes : q = Peer(m)
      BY <2>1, InExchange
    <3>2. /\ f \in Frames
          /\ \A n : NoneOf(pending[m], n) => f[1] # n
          /\ \A x : OnlyOne(pending[m], q, x) /\ f[1] = q => f = <<q, x>>
      BY <2>1, QueueTail
    <3> HIDE DEF f
    <3>3. ~Empty(q, m)
      BY <2>3, <3>1, <3>2 DEF Empty
    <3>4. \A x : Carries(q, m, x) => f = <<q, x>>
      BY <2>3, <3>1, <3>2 DEF Carries
    <3>5. ~Carries(q, m, CutShort)
      BY <2>3, <3>4
    <3>6. Carries(q, m, round[m]) /\ round[m] <= round[q]
      BY <2>1, <3>1, <3>3, <3>5, AwaitedFrame
    <3>7. Deliver(m, <<Peer(m), round[m]>>)
      BY <2>3, <3>1, <3>4, <3>6
    <3> QED BY <2>1, <3>1, <3>6, <3>7, DeliverStep
  <2>4. CASE UNCHANGED <<phase, heard>>
    BY <2>1, <2>4, Silent
  <2> QED BY <1>8, <2>2, <2>3, <2>4 DEF Accept, Awaited
<1>9. ASSUME NEW m \in Nodes, GiveUp(m) \/ SendBreaks(m) PROVE Gossip!Fail(m)
  <2>1. /\ phase[m] \in {"send", "sending"} /\ phase' = [phase EXCEPT ![m] = "failed"]
        /\ UNCHANGED <<edges, round, heard>>
    BY <1>9 DEF GiveUp, SendBreaks
  <2> QED BY <2>1, FailStep
<1>10. ASSUME NEW m \in Nodes, \/ Gossip!Enter(m) \/ Gossip!Stop(m) \/ Gossip!Fail(m)
                               \/ Peer(m) \in Nodes /\ Gossip!Hear(m, Peer(m))
       PROVE  Gossip!Next
  BY <1>10 DEF Gossip!Next
<1>11. ASSUME NEW m \in Nodes, Sent(m) \/ TakeBuffered(m) \/ Accept(m)
       PROVE  Peer(m) \in Nodes
  BY <1>11, InExchange DEF Sent, TakeBuffered, Accept
<1>12. CASE Next
  <2>1. PICK m \in Nodes : Progress(m) \/ GiveUp(m) \/ SendBreaks(m)
    BY <1>12 DEF Next
  <2> QED BY <2>1, <1>2, <1>3, <1>4, <1>5, <1>6, <1>7, <1>8, <1>9, <1>10, <1>11
          DEF Progress
<1> QED BY <1>1, <1>12

LEMMA InitSimulation == Init => Gossip!Init
<1> SUFFICES ASSUME Init PROVE Gossip!Init
  OBVIOUS
<1>1. Simple(edges)
  BY SimpleGraphs DEF Init
<1>2. \A i \in DOMAIN edges : edges[i][1] \in Nodes /\ edges[i][2] \in Nodes
  BY <1>1 DEF Simple
<1>3. {{edges[i][1], edges[i][2]} : i \in DOMAIN edges}
        \in SUBSET {{n, p} : n \in Nodes, p \in Nodes}
  BY <1>2
<1> QED BY <1>3 DEF Init, Gossip!Init

(* PeerLink keeps the promise of SyncGossip: for any number of nodes, any  *)
(* simple graph, any --steps, frames of any size and timeouts anywhere, a  *)
(* node's every round takes in one payload of each neighbour, of that      *)
(* neighbour's same round.                                                 *)
THEOREM PeersKeepPromise == Spec => PromiseKept
<1>1. Init => Gossip!Init
  BY InitSimulation
<1>2. IInv /\ [Next]_vars => [Gossip!Next]_(Gossip!vars)
  BY StepSimulation
<1> QED BY <1>1, <1>2, Invariance, PTL DEF Spec, PromiseKept, Gossip!Spec

-----------------------------------------------------------------------------
(* What follows from the promise, whoever keeps it: nothing of PeerLink is *)
(* used here but the names of its variables.                               *)
Wires == {{edges[i][1], edges[i][2]} : i \in DOMAIN edges}

GTyped == round \in [Nodes -> Nat] /\ heard \in [Nodes -> SUBSET (Nodes \X Nat)]

(* What a node has heard was produced in a round its neighbour did enter.  *)
HeardExists == \A n, p \in Nodes, k \in Nat : <<p, k>> \in heard[n] => k <= round[p]

GInv == GTyped /\ HeardExists /\ Gossip!NeighboursInStep

LEMMA GossipInit == Gossip!Init => GInv
  BY DEF Gossip!Init, GInv, GTyped, HeardExists, Gossip!NeighboursInStep, Gossip!Neighbours, Wires

(* A node that enters a round leaves nobody behind by more than one: it has*)
(* heard each neighbour in the round it finished, and is itself no further *)
(* behind the others than before.                                          *)
LEMMA EnterKeeps ==
  ASSUME GInv, NEW n \in Nodes, Gossip!Enter(n)
  PROVE  GInv'
<1>1. /\ round' = [round EXCEPT ![n] = @ + 1] /\ heard' = [heard EXCEPT ![n] = {}]
      /\ Wires' = Wires /\ (round[n] = 0 \/ Gossip!Finished(n))
  BY DEF Gossip!Enter, Wires
<1>2. GTyped'
  BY <1>1 DEF GInv, GTyped
<1>3. \A m \in Nodes : round'[m] \in Nat /\ round[m] <= round'[m]
  BY <1>1 DEF GInv, GTyped
<1>4. HeardExists'
  BY <1>1, <1>3 DEF GInv, GTyped, HeardExists
<1>5. \A p \in Gossip!Neighbours(n) : p \in Nodes /\ p # n /\ round[n] <= round[p]
  <2> SUFFICES ASSUME NEW p \in Gossip!Neighbours(n) PROVE p \in Nodes /\ p # n /\ round[n] <= round[p]
    OBVIOUS
  <2>1. p \in Nodes /\ p # n
    BY DEF Gossip!Neighbours, Wires
  <2>2. CASE round[n] = 0
    BY <2>1, <2>2 DEF GInv, GTyped
  <2>3. CASE Gossip!Finished(n)
    <3>1. <<p, round[n]>> \in heard[n]
      BY <2>3 DEF Gossip!Finished
    <3>2. round[n] \in Nat
      BY DEF GInv, GTyped
    <3> QED BY <2>1, <3>1, <3>2 DEF GInv, HeardExists
  <2> QED BY <1>1, <2>1, <2>2, <2>3
<1>6. Gossip!NeighboursInStep'
  <2> SUFFICES ASSUME NEW m \in Nodes, NEW p \in Gossip!Neighbours(m)'
               PROVE  round'[m] <= round'[p] + 1
    BY DEF Gossip!NeighboursInStep
  <2>1. p \in Gossip!Neighbours(m) /\ p \in Nodes
    BY <1>1 DEF Gossip!Neighbours, Wires
  <2>2. CASE m = n
    BY <1>1, <1>3, <1>5, <2>1, <2>2 DEF GInv, GTyped
  <2>3. CASE m # n
    <3>1. round'[m] = round[m] /\ round[m] <= round[p] + 1
      BY <1>1, <2>1, <2>3 DEF GInv, GTyped, Gossip!NeighboursInStep
    <3> QED BY <1>3, <2>1, <3>1 DEF GInv, GTyped
  <2> QED BY <2>2, <2>3
<1> QED BY <1>2, <1>4, <1>6 DEF GInv

LEMMA HearKeeps ==
  ASSUME GInv, NEW n \in Nodes, NEW p \in Nodes, Gossip!Hear(n, p)
  PROVE  GInv'
<1>1. /\ round[n] <= round[p] /\ heard' = [heard EXCEPT ![n] = @ \cup {<<p, round[n]>>}]
      /\ Wires' = Wires /\ round' = round
  BY DEF Gossip!Hear, Wires
<1>2. GTyped'
  BY <1>1 DEF GInv, GTyped
<1>3. HeardExists'
  BY <1>1 DEF GInv, GTyped, HeardExists
<1>4. Gossip!NeighboursInStep'
  BY <1>1 DEF GInv, Gossip!NeighboursInStep, Gossip!Neighbours, Wires
<1> QED BY <1>2, <1>3, <1>4 DEF GInv

LEMMA GossipStep == GInv /\ [Gossip!Next]_(Gossip!vars) => GInv'
<1> SUFFICES ASSUME GInv, [Gossip!Next]_(Gossip!vars) PROVE GInv'
  OBVIOUS
<1>1. CASE UNCHANGED <<Wires, round, heard>>
  BY <1>1 DEF GInv, GTyped, HeardExists, Gossip!NeighboursInStep, Gossip!Neighbours, Wires
<1>2. ASSUME NEW n \in Nodes, Gossip!Enter(n) PROVE GInv'
  BY <1>2, EnterKeeps
<1>3. ASSUME NEW n \in Nodes, NEW p \in Nodes, Gossip!Hear(n, p) PROVE GInv'
  BY <1>3, HearKeeps
<1>4. ASSUME NEW n \in Nodes, Gossip!Stop(n) \/ Gossip!Fail(n) PROVE GInv'
  BY <1>1, <1>4 DEF Gossip!Stop, Gossip!Fail, Wires
<1>5. CASE UNCHANGED Gossip!vars
  BY <1>1, <1>5 DEF Gossip!vars, Wires
<1> QED BY <1>2, <1>3, <1>4, <1>5 DEF Gossip!Next

(* The two ends of an edge are never more than one round apart             *)
(* (phy_link.py PeerLink.step, run_gossip), for every set of nodes.        *)
THEOREM PromiseKeepsStep == Gossip!Spec => []Gossip!NeighboursInStep
<1>1. GInv => Gossip!NeighboursInStep
  BY DEF GInv
<1> QED BY <1>1, GossipInit, GossipStep, PTL DEF Gossip!Spec

(* The two ends of an edge of PeerLink are never more than one round apart *)
(* (phy_link.py PeerLink.step): it keeps the promise.                      *)
THEOREM PeersInStep == Spec => []Gossip!NeighboursInStep
BY PeersKeepPromise, PromiseKeepsStep, PTL DEF PromiseKept
=============================================================================
