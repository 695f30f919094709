--------------------------- MODULE GatewayProofs ---------------------------
(***************************************************************************)
(* Proofs about the layers of LoRa, each on its own.  Gateway, for any     *)
(* boards, jobs and choices: jobs borrow boards as BoardLending promises,  *)
(* no board loses its owner's settings unreported, and a fresh cache tells *)
(* the truth about free boards.  LoRaFraming, for any pairs of nodes and   *)
(* any messages: a transfer is whole or it is not.  LoRaExchange, for any  *)
(* number of rounds, attempts and frames a radio holds: answers are in     *)
(* step with requests.                                                     *)
(***************************************************************************)
EXTENDS Gateway, LoRaFraming, LoRaExchange, Integers, FiniteSetTheorems, SequenceTheorems,
  TLAPS

(* What has been noted of some of the boards.                              *)
Partial(S) == UNION {[D -> S] : D \in SUBSET Boards}

Answers == Roles \cup {NoRole}
Status == [role : Roles, own : BOOLEAN]

TypeOK ==
  /\ firmware \in [Boards -> Answers] /\ own \in [Boards -> BOOLEAN]
  /\ busy \in [Boards -> Jobs \cup {Nobody}]
  /\ cache \in [Boards -> Answers] /\ fresh \in BOOLEAN
  /\ pc \in [Jobs -> Stages]
  /\ todo \in [Jobs -> SUBSET Boards]
  /\ found \in [Jobs -> Partial(Answers)]
  /\ ends \in Wishes
  /\ swap \in [Jobs -> SUBSET Boards]
  /\ saved \in [Jobs -> Partial(Status)]
  /\ agent \in [Jobs -> [Roles -> {"off", "starting", "running", "ended", "refused"}]]
  /\ deaths \in Nat
  /\ away \in SUBSET Boards /\ lost \in SUBSET Boards
  /\ crossed \in SUBSET Jobs /\ tainted \in BOOLEAN

-----------------------------------------------------------------------------
LEMMA NothingNoted == ASSUME NEW S PROVE NoSaved \in Partial(S) /\ DOMAIN NoSaved = {}
<1>1. NoSaved \in [{} -> S]
  BY DEF NoSaved
<1> QED BY <1>1 DEF Partial

LEMMA Noted ==
  ASSUME NEW S, NEW f \in Partial(S)
  PROVE  DOMAIN f \in SUBSET Boards /\ f \in [DOMAIN f -> S] /\ (DOMAIN f = {} => f = NoSaved)
<1>1. PICK D \in SUBSET Boards : f \in [D -> S]
  BY DEF Partial
<1>2. DOMAIN f = D
  BY <1>1
<1>3. ASSUME D = {} PROVE f = NoSaved
  <2>1. f = [b \in D |-> f[b]]
    BY <1>1
  <2> QED BY <1>3, <2>1 DEF NoSaved
<1> QED BY <1>1, <1>2, <1>3

LEMMA NoteAdded ==
  ASSUME NEW S, NEW f \in Partial(S), NEW b \in Boards, NEW s \in S,
         NEW g, g = [c \in DOMAIN f \cup {b} |-> IF c = b THEN s ELSE f[c]]
  PROVE  /\ g \in Partial(S) /\ DOMAIN g = DOMAIN f \cup {b}
         /\ g[b] = s /\ \A c \in DOMAIN f : c # b => g[c] = f[c]
<1>1. DOMAIN f \in SUBSET Boards /\ f \in [DOMAIN f -> S]
  BY Noted
<1>2. g \in [DOMAIN f \cup {b} -> S]
  BY <1>1
<1>3. g \in Partial(S)
  BY <1>1, <1>2 DEF Partial
<1> QED BY <1>3

LEMMA NoteDropped ==
  ASSUME NEW S, NEW f \in Partial(S), NEW b, NEW g, g = Restrict(f, DOMAIN f \ {b})
  PROVE  /\ g \in Partial(S) /\ DOMAIN g = DOMAIN f \ {b}
         /\ \A c \in DOMAIN g : g[c] = f[c]
<1>1. DOMAIN f \in SUBSET Boards /\ f \in [DOMAIN f -> S]
  BY Noted
<1>2. g \in [DOMAIN f \ {b} -> S]
  BY <1>1 DEF Restrict
<1>3. g \in Partial(S)
  BY <1>1, <1>2 DEF Partial
<1> QED BY <1>3 DEF Restrict

(* The two boards of a job are boards, and two.                            *)
LEMMA TwoEnds ==
  ASSUME TypeOK, NEW j \in Jobs
  PROVE  /\ ends[j]["tx"] \in Boards /\ ends[j]["rx"] \in Boards
         /\ ends[j]["tx"] # ends[j]["rx"]
         /\ \A e \in Roles : ends[j][e] \in Boards
         /\ \A b : Want(j, b) \in Roles
         /\ Ends(j) \subseteq Boards
<1>1. ends[j] \in {w \in [Roles -> Boards] : w["tx"] # w["rx"]}
  BY GatewayAssumption DEF TypeOK
<1> QED BY <1>1 DEF Roles, Want, Ends

LEMMA TypedRequest ==
  ASSUME TypeOK, NEW q \in Jobs, RequestStep(q)
  PROVE  TypeOK'
<1> USE DEF boardVars, fleetVars, listVars, jobVars, history
<1>1. CASE List(q)
  <2>1. pc' \in [Jobs -> Stages]
    BY <1>1 DEF List, Goto, TypeOK, Stages
  <2>2. todo' \in [Jobs -> SUBSET Boards]
    <3>1. {b \in Boards : busy[b] = Nobody} \in SUBSET Boards
      OBVIOUS
    <3> QED BY <1>1, <3>1 DEF List, TypeOK
  <2> QED BY <1>1, <2>1, <2>2 DEF List, TypeOK
<1>2. ASSUME NEW b \in Boards, Probe(q, b) PROVE TypeOK'
  <2>1. PICK answer \in {NoRole} \cup IF Held(b) THEN {} ELSE {firmware[b]} :
          found' = [found EXCEPT ![q] = [c \in DOMAIN @ \cup {b} |->
                                           IF c = b THEN answer ELSE @[c]]]
    BY <1>2 DEF Probe
  <2>2. answer \in Answers /\ found[q] \in Partial(Answers)
    BY DEF TypeOK, Answers
  <2>3. [c \in DOMAIN found[q] \cup {b} |-> IF c = b THEN answer ELSE found[q][c]]
          \in Partial(Answers)
    BY <2>2, NoteAdded
  <2>4. found' \in [Jobs -> Partial(Answers)]
    BY <2>1, <2>3 DEF TypeOK
  <2>5. todo' \in [Jobs -> SUBSET Boards]
    BY <1>2 DEF Probe, TypeOK
  <2> QED BY <1>2, <2>4, <2>5 DEF Probe, TypeOK
<1>3. CASE Update(q)
  <2>1. pc' \in [Jobs -> Stages]
    BY <1>3 DEF Update, Goto, TypeOK, Stages
  <2>2. found' \in [Jobs -> Partial(Answers)]
    BY <1>3, NothingNoted DEF Update, TypeOK
  <2>3. cache' \in [Boards -> Answers]
    <3>1. \A b \in DOMAIN found[q] : found[q][b] \in Answers
      BY Noted DEF TypeOK
    <3> QED BY <1>3, <3>1 DEF Update, TypeOK
  <2>4. fresh' \in BOOLEAN /\ tainted' \in BOOLEAN /\ crossed' \in SUBSET Jobs
    BY <1>3 DEF Update, TypeOK
  <2> QED BY <1>3, <2>1, <2>2, <2>3, <2>4 DEF Update, TypeOK
<1> QED BY <1>1, <1>2, <1>3 DEF RequestStep

LEMMA TypedGoto ==
  ASSUME TypeOK, NEW j \in Jobs, NEW s \in Stages, Goto(j, s)
  PROVE  pc' \in [Jobs -> Stages]
BY DEF TypeOK, Goto

LEMMA TypedFlash ==
  ASSUME TypeOK, NEW b \in Boards, NEW r \in Answers, Flashed(b, r)
  PROVE  firmware' \in [Boards -> Answers] /\ own' \in [Boards -> BOOLEAN]
BY DEF TypeOK, Flashed

LEMMA TypedFlashFailed ==
  ASSUME TypeOK, NEW b \in Boards, NEW r \in Roles, FlashFailed(b, r)
  PROVE  firmware' \in [Boards -> Answers] /\ own' \in [Boards -> BOOLEAN]
BY TypedFlash DEF FlashFailed, Answers, boardVars, TypeOK

LEMMA TypedSave ==
  ASSUME TypeOK, NEW j \in Jobs, NEW b \in Boards, Want(j, b) \in Roles,
         NEW here, NEW load \in Stages, NEW next \in Stages,
         Save(j, b, here, load, next) \/ Load(j, b, here, next)
  PROVE  TypeOK'
<1> USE DEF boardVars, fleetVars, listVars, jobVars, history
<1>0. "close" \in Stages
  BY DEF Stages
<1>1. CASE Save(j, b, here, load, next)
  <2>1. pc' \in [Jobs -> Stages]
    BY <1>0, <1>1, TypedGoto DEF Save, Abort
  <2>2. saved' \in [Jobs -> Partial(Status)]
    <3>1. CASE UNCHANGED saved
      BY <3>1 DEF TypeOK
    <3>2. CASE /\ firmware[b] # NoRole
               /\ saved' = [saved EXCEPT ![j] = [c \in DOMAIN @ \cup {b} |->
                       IF c = b THEN [role |-> firmware[b], own |-> own[b]] ELSE @[c]]]
      <4>1. [role |-> firmware[b], own |-> own[b]] \in Status
        BY <3>2 DEF Status, TypeOK, Answers
      <4>2. PICK st \in Status : st = [role |-> firmware[b], own |-> own[b]]
        BY <4>1
      <4>3. PICK f \in Partial(Status) : f = saved[j]
        BY DEF TypeOK
      <4>4. PICK g : g = [c \in DOMAIN f \cup {b} |-> IF c = b THEN st ELSE f[c]]
        OBVIOUS
      <4>5. g \in Partial(Status)
        BY <4>4, NoteAdded
      <4>6. saved' = [saved EXCEPT ![j] = g]
        BY <3>2, <4>2, <4>3, <4>4
      <4> QED BY <4>5, <4>6 DEF TypeOK
    <3> QED BY <1>1, <3>1, <3>2 DEF Save
  <2> QED BY <1>1, <2>1, <2>2 DEF Save, TypeOK
<1>2. CASE Load(j, b, here, next)
  <2>1. pc' \in [Jobs -> Stages]
    BY <1>0, <1>2, TypedGoto DEF Load, Abort
  <2>2. firmware' \in [Boards -> Answers] /\ own' \in [Boards -> BOOLEAN]
    BY <1>2, TypedFlash, TypedFlashFailed DEF Load, Answers
  <2> QED BY <1>2, <2>1, <2>2 DEF Load, TypeOK
<1> QED BY <1>1, <1>2

LEMMA TypedHome ==
  ASSUME TypeOK, NEW j \in Jobs, FlashHome(j) \/ Apply(j),
         pc[j] = "apply" => NextHome(j) \in DOMAIN saved[j]
  PROVE  TypeOK'
<1> DEFINE b == NextHome(j)
<1> USE DEF boardVars, fleetVars, listVars, jobVars, history
<1>1. b \in Boards /\ Home[b] \in Roles /\ saved[j] \in Partial(Status)
  BY TwoEnds, GatewayAssumption DEF NextHome, TypeOK
<1>2. \A ok : Handled(j, b, ok) \in Partial(Status)
  BY <1>1, NoteDropped DEF Handled
<1>3. pc' \in [Jobs -> Stages]
  BY DEF FlashHome, Apply, Goto, TypeOK, Stages
<1>4. saved' \in [Jobs -> Partial(Status)] /\ lost' \in SUBSET Boards
  <2>1. /\ saved' = saved \/ \E ok \in BOOLEAN : saved' = [saved EXCEPT ![j] = Handled(j, b, ok)]
        /\ lost' = lost \/ lost' = lost \cup {b}
    BY DEF FlashHome, Apply, NotRestored
  <2>2. lost \in SUBSET Boards /\ saved \in [Jobs -> Partial(Status)]
    BY DEF TypeOK
  <2>3. lost' \in SUBSET Boards
    BY <1>1, <2>1, <2>2
  <2>4. saved' \in [Jobs -> Partial(Status)]
    BY <1>2, <2>1, <2>2
  <2> QED BY <2>3, <2>4
<1>5. CASE FlashHome(j)
  <2>1. firmware' \in [Boards -> Answers] /\ own' \in [Boards -> BOOLEAN]
    BY <1>1, <1>5, TypedFlash, TypedFlashFailed DEF FlashHome, Answers
  <2>2. away' \in SUBSET Boards
    BY <1>1, <1>5 DEF FlashHome, TypeOK
  <2> QED BY <1>3, <1>4, <1>5, <2>1, <2>2 DEF FlashHome, TypeOK
<1>6. CASE Apply(j)
  <2>1. own' \in [Boards -> BOOLEAN]
    <3>1. CASE UNCHANGED own
      BY <3>1 DEF TypeOK
    <3>2. CASE own' = [own EXCEPT ![b] = saved[j][b].own]
      <4>1. saved[j][b] \in Status
        BY <1>1, <1>6, Noted DEF Apply
      <4> QED BY <3>2, <4>1 DEF TypeOK, Status
    <3> QED BY <1>6, <3>1, <3>2 DEF Apply
  <2> QED BY <1>3, <1>4, <1>6, <2>1 DEF Apply, TypeOK
<1> QED BY <1>5, <1>6

LEMMA TypedJob ==
  ASSUME TypeOK, NEW j \in Jobs, JobStep(j) \/ CutOff(j),
         pc[j] = "apply" => NextHome(j) \in DOMAIN saved[j]
  PROVE  TypeOK'
<1> USE DEF boardVars, fleetVars, listVars, jobVars, history
<1>0. /\ {"claim", "rejected", "saveRx", "loadRx", "saveTx", "loadTx", "listen", "await", "check",
          "sending", "close", "home", "expire", "ended"} \subseteq Stages
      /\ \A b : Want(j, b) \in Roles
      /\ ends[j]["rx"] \in Boards /\ ends[j]["tx"] \in Boards
  BY TwoEnds DEF Stages
<1>1. CASE Validate(j)
  <2>1. swap' \in [Jobs -> SUBSET Boards]
    <3>1. {b \in Ends(j) : NeedsSwap(j, b)} \in SUBSET Boards
      BY TwoEnds
    <3> QED BY <1>1, <3>1 DEF Validate, TypeOK
  <2>2. pc' \in [Jobs -> Stages]
    BY <1>0, <1>1, TypedGoto DEF Validate
  <2> QED BY <1>1, <2>1, <2>2 DEF Validate, TypeOK
<1>2. CASE Claim(j)
  <2>1. busy' \in [Boards -> Jobs \cup {Nobody}]
    BY <1>2 DEF Claim, TypeOK
  <2>2. pc' \in [Jobs -> Stages]
    BY <1>0, <1>2, TypedGoto DEF Claim
  <2> QED BY <1>2, <2>1, <2>2 DEF Claim, TypeOK
<1>3. CASE \/ Save(j, ends[j]["rx"], "saveRx", "loadRx", "saveTx")
           \/ Load(j, ends[j]["rx"], "loadRx", "saveTx")
  BY <1>0, <1>3, TypedSave
<1>4. CASE \/ Save(j, ends[j]["tx"], "saveTx", "loadTx", "listen")
           \/ Load(j, ends[j]["tx"], "loadTx", "listen")
  BY <1>0, <1>4, TypedSave
<1>5. CASE Listen(j) \/ Await(j) \/ Check(j) \/ Sent(j) \/ CutOff(j)
  <2>1. pc' \in [Jobs -> Stages]
    BY <1>0, <1>5, TypedGoto DEF Listen, Await, Check, Sent, CutOff, Abort
  <2>2. agent' \in [Jobs -> [Roles -> {"off", "starting", "running", "ended", "refused"}]]
    <3>1. agent' = agent \/ \E e \in Roles : agent' = [agent EXCEPT ![j][e] = "starting"]
      BY <1>5 DEF Listen, Await, Check, Sent, CutOff, Run, Roles
    <3>2. agent \in [Jobs -> [Roles -> {"off", "starting", "running", "ended", "refused"}]]
      BY DEF TypeOK
    <3> QED BY <3>1, <3>2
  <2>3. UNCHANGED <<firmware, own, busy, cache, fresh, todo, found, ends, swap, saved, deaths,
                    away, lost, crossed, tainted>>
    BY <1>5 DEF Listen, Await, Check, Sent, CutOff
  <2> QED BY <2>1, <2>2, <2>3 DEF TypeOK
<1>6. CASE Close(j)
  <2> DEFINE left == {e \in Roles : agent[j][e] = "running"}
  <2>1. pc' \in [Jobs -> Stages]
    BY <1>0, <1>6, TypedGoto DEF Close
  <2>2. agent' \in [Jobs -> [Roles -> {"off", "starting", "running", "ended", "refused"}]]
    BY <1>6 DEF Close, TypeOK
  <2>3. lost' \in SUBSET Boards
    <3>1. {ends[j][e] : e \in left} \subseteq Boards
      BY TwoEnds
    <3> QED BY <1>6, <3>1 DEF Close, TypeOK
  <2> QED BY <1>6, <2>1, <2>2, <2>3 DEF Close, TypeOK
<1>7. CASE FlashHome(j) \/ Apply(j)
  BY <1>7, TypedHome
<1>8. CASE Release(j)
  <2>1. pc' \in [Jobs -> Stages]
    BY <1>0, <1>8, TypedGoto DEF Release
  <2>2. busy' \in [Boards -> Jobs \cup {Nobody}]
    BY <1>8 DEF Release, TypeOK
  <2> QED BY <1>8, <2>1, <2>2 DEF Release, TypeOK
<1>9. CASE Finish(j)
  <2>1. pc' \in [Jobs -> Stages]
    BY <1>0, <1>9, TypedGoto DEF Finish
  <2> QED BY <1>9, <2>1 DEF Finish, Aged, TypeOK
<1> QED
  BY <1>1, <1>2, <1>3, <1>4, <1>5, <1>6, <1>7, <1>8, <1>9 DEF JobStep

LEMMA TypedAgent ==
  ASSUME TypeOK, NEW j \in Jobs, NEW e \in Roles, AgentStep(j, e)
  PROVE  TypeOK'
<1> USE DEF boardVars, fleetVars, listVars, jobVars, history
<1>1. agent' \in [Jobs -> [Roles -> {"off", "starting", "running", "ended", "refused"}]]
  <2>1. PICK to \in {"running", "refused", "ended"} : agent' = [agent EXCEPT ![j][e] = to]
    BY DEF AgentStep, AgentRuns, AgentRefuses, AgentEnds, AgentSets
  <2> QED BY <2>1 DEF TypeOK
<1>2. ends[j][e] \in Boards
  BY TwoEnds
<1>3. own' \in [Boards -> BOOLEAN] /\ lost' \in SUBSET Boards
  BY <1>2 DEF AgentStep, AgentRuns, AgentRefuses, AgentEnds, TypeOK
<1> QED BY <1>1, <1>3 DEF AgentStep, AgentRuns, AgentRefuses, AgentEnds, TypeOK

LEMMA TypedGateway ==
  ASSUME TypeOK, Expire \/ Die \/ UNCHANGED vars
  PROVE  TypeOK'
<1> USE DEF boardVars, fleetVars, listVars, jobVars, history, vars
<1>1. CASE Expire
  BY <1>1 DEF Expire, TypeOK
<1>2. CASE Die
  <2>1. pc' \in [Jobs -> Stages]
    BY <1>2 DEF Die, TypeOK, Stages
  <2>2. found' \in [Jobs -> Partial(Answers)] /\ saved' \in [Jobs -> Partial(Status)]
    BY <1>2, NothingNoted DEF Die
  <2>3. /\ busy' \in [Boards -> Jobs \cup {Nobody}] /\ cache' \in [Boards -> Answers]
        /\ todo' \in [Jobs -> SUBSET Boards]
    BY <1>2 DEF Die, Answers
  <2>4. deaths' \in Nat /\ fresh' \in BOOLEAN
    <3>1. deaths \in Nat
      BY DEF TypeOK
    <3>2. deaths' = deaths + 1 /\ fresh' = FALSE
      BY <1>2 DEF Die
    <3>3. deaths + 1 \in Nat
      BY <3>1
    <3> QED BY <3>2, <3>3
  <2>5. /\ away' \in SUBSET Boards /\ lost' \in SUBSET Boards
        /\ crossed' \in SUBSET Jobs /\ tainted' \in BOOLEAN
    BY <1>2 DEF Die, TypeOK
  <2>6. UNCHANGED <<firmware, own, ends, swap, agent>>
    BY <1>2 DEF Die
  <2> QED BY <2>1, <2>2, <2>3, <2>4, <2>5, <2>6 DEF TypeOK
<1>3. CASE UNCHANGED vars
  BY <1>3 DEF TypeOK
<1> QED BY <1>1, <1>2, <1>3

-----------------------------------------------------------------------------
(* Whose board it is, and what is owed to it.  A job has exactly its two   *)
(* boards, from its claim until it has taken home what it noted.           *)
Working(j) ==
  pc[j] \in {"saveRx", "loadRx", "saveTx", "loadTx", "listen", "await", "check", "sending",
             "close", "home", "apply"}

ClaimsMatch ==
  \A j \in Jobs, b \in Boards : busy[b] = j <=> Working(j) /\ b \in Ends(j)

(* A board is noted before it is touched, once, and until it is handled.   *)
NotesFollowStages ==
  \A j \in Jobs :
    /\ DOMAIN saved[j] \subseteq Ends(j)
    /\ ~Working(j) \/ pc[j] = "saveRx" => DOMAIN saved[j] = {}
    /\ pc[j] \in {"loadRx", "saveTx"} => ends[j]["tx"] \notin DOMAIN saved[j]
    /\ pc[j] = "loadRx" => ends[j]["rx"] \in DOMAIN saved[j]
    /\ pc[j] = "loadTx" => ends[j]["tx"] \in DOMAIN saved[j]
    /\ pc[j] = "apply" => NextHome(j) \in DOMAIN saved[j]

AppliedAtHome ==
  \A j \in Jobs : pc[j] = "apply" => firmware[NextHome(j)] = Home[NextHome(j)]

InHand(b) == \E j \in Jobs : b \in DOMAIN saved[j]

AwayKnown == \A b \in Boards : firmware[b] # Home[b] => b \in away \/ InHand(b)
LostKnown == \A b \in Boards : ~own[b] => b \in lost \/ InHand(b)
AwayIsLost == away \subseteq lost

(* What was noted of a board is worth putting back, or was reported.       *)
NotesAreTrue ==
  \A j \in Jobs : \A b \in DOMAIN saved[j] :
    b \notin lost => saved[j][b].own /\ saved[j][b].role = Home[b]

LInv == /\ TypeOK /\ ClaimsMatch /\ NotesFollowStages /\ AppliedAtHome
        /\ AwayKnown /\ LostKnown /\ AwayIsLost /\ NotesAreTrue

LEMMA LendInit == Init => LInv
<1> SUFFICES ASSUME Init PROVE LInv
  OBVIOUS
<1>1. found \in [Jobs -> Partial(Answers)] /\ saved \in [Jobs -> Partial(Status)]
  BY NothingNoted DEF Init
<1>2. TypeOK
  <2>1. /\ firmware \in [Boards -> Answers] /\ own \in [Boards -> BOOLEAN]
        /\ busy \in [Boards -> Jobs \cup {Nobody}] /\ cache \in [Boards -> Answers]
    BY GatewayAssumption DEF Init, Answers
  <2>2. /\ pc \in [Jobs -> Stages] /\ todo \in [Jobs -> SUBSET Boards]
        /\ ends \in Wishes /\ swap \in [Jobs -> SUBSET Boards]
    BY DEF Init, Stages
  <2>3. agent \in [Jobs -> [Roles -> {"off", "starting", "running", "ended", "refused"}]]
    BY DEF Init
  <2>4. fresh \in BOOLEAN /\ tainted \in BOOLEAN
    BY DEF Init
  <2>5. away \in SUBSET Boards /\ lost \in SUBSET Boards /\ crossed \in SUBSET Jobs
    BY DEF Init
  <2>6. deaths \in Nat
    BY DEF Init
  <2> QED BY <1>1, <2>1, <2>2, <2>3, <2>4, <2>5, <2>6 DEF TypeOK
<1>3. \A j \in Jobs : pc[j] = "new" /\ ~Working(j) /\ DOMAIN saved[j] = {}
  BY NothingNoted DEF Init, Working
<1>4. ClaimsMatch
  BY <1>3, GatewayAssumption DEF Init, ClaimsMatch
<1> QED
  BY <1>2, <1>3, <1>4, GatewayAssumption
     DEF Init, LInv, NotesFollowStages, AppliedAtHome, AwayKnown, LostKnown, AwayIsLost,
         NotesAreTrue

(* A noted board is in the hands of the job that noted it, and of no other.*)
LEMMA NotedIsMine ==
  ASSUME LInv, NEW j \in Jobs, NEW b \in DOMAIN saved[j]
  PROVE  /\ b \in Boards /\ b \in Ends(j) /\ busy[b] = j /\ Working(j) /\ InHand(b)
         /\ \A k \in Jobs : k # j => b \notin DOMAIN saved[k]
<1>1. \A k \in Jobs : b \in DOMAIN saved[k] => b \in Boards /\ b \in Ends(k) /\ Working(k) /\ busy[b] = k
  BY TwoEnds DEF LInv, NotesFollowStages, ClaimsMatch
<1> QED BY <1>1 DEF InHand

(* A board nobody has noted has what its owner gave it, or is reported.    *)
LEMMA NotInHand ==
  ASSUME LInv, NEW b \in Boards, \A k \in Jobs : b \notin DOMAIN saved[k], b \notin lost
  PROVE  own[b] /\ firmware[b] = Home[b]
BY DEF LInv, AwayKnown, LostKnown, AwayIsLost, InHand

(* Steps that touch neither boards nor notes nor claims.                   *)
LEMMA LendFrame ==
  ASSUME LInv, TypeOK', UNCHANGED <<firmware, busy, ends, saved, away>>, lost \subseteq lost',
         \A b \in Boards : ~own'[b] => ~own[b] \/ b \in lost',
         \A j \in Jobs :
           /\ Working(j)' <=> Working(j)
           /\ pc'[j] # pc[j] =>
                pc'[j] \notin {"saveRx", "loadRx", "saveTx", "loadTx", "apply"}
  PROVE  LInv'
<1>1. /\ \A j \in Jobs : Ends(j)' = Ends(j) /\ NextHome(j)' = NextHome(j)
      /\ \A b \in Boards : InHand(b)' <=> InHand(b)
  BY DEF Ends, NextHome, InHand
<1>2. ClaimsMatch'
  BY <1>1 DEF LInv, ClaimsMatch
<1>3. NotesFollowStages' /\ AppliedAtHome'
  BY <1>1 DEF LInv, NotesFollowStages, AppliedAtHome
<1>4. AwayKnown' /\ LostKnown' /\ AwayIsLost'
  BY <1>1 DEF LInv, AwayKnown, LostKnown, AwayIsLost
<1>5. NotesAreTrue'
  BY DEF LInv, NotesAreTrue
<1> QED BY <1>2, <1>3, <1>4, <1>5 DEF LInv

LEMMA LendClaim ==
  ASSUME LInv, TypeOK', NEW j \in Jobs, Claim(j)
  PROVE  LInv'
<1>1. TypeOK
  BY DEF LInv
<1>2. /\ pc[j] = "claim" /\ \A k \in Jobs : k # j => pc'[k] = pc[k]
      /\ UNCHANGED <<firmware, own, ends, saved, away, lost>>
      /\ \A k \in Jobs : Ends(k)' = Ends(k)
  BY <1>1 DEF Claim, Goto, TypeOK, boardVars, jobVars, history, Ends
<1>3. CASE pc' = [pc EXCEPT ![j] = "rejected"] /\ UNCHANGED busy
  <2>1. pc'[j] = "rejected"
    BY <1>1, <1>3 DEF TypeOK
  <2>2. \A k \in Jobs : Working(k)' <=> Working(k)
    BY <1>2, <2>1 DEF Working
  <2> QED BY <1>2, <1>3, <2>1, <2>2, LendFrame
<1>4. CASE /\ \A b \in Ends(j) : busy[b] = Nobody
           /\ busy' = [b \in Boards |-> IF b \in Ends(j) THEN j ELSE busy[b]]
           /\ Goto(j, "saveRx")
  <2>1. pc'[j] = "saveRx"
    BY <1>1, <1>4 DEF Goto, TypeOK
  <2>2. Working(j)' /\ ~Working(j) /\ \A k \in Jobs : k # j => (Working(k)' <=> Working(k))
    BY <1>2, <2>1 DEF Working
  <2>3. ClaimsMatch'
    <3> SUFFICES ASSUME NEW k \in Jobs, NEW b \in Boards
                 PROVE  busy'[b] = k <=> Working(k)' /\ b \in Ends(k)
      BY <1>2 DEF ClaimsMatch
    <3>1. busy[b] = k <=> Working(k) /\ b \in Ends(k)
      BY DEF LInv, ClaimsMatch
    <3>2. Nobody # k
      BY GatewayAssumption
    <3>3. CASE b \in Ends(j)
      BY <1>4, <2>2, <3>1, <3>2, <3>3
    <3>4. CASE b \notin Ends(j)
      BY <1>4, <2>2, <3>1, <3>4
    <3> QED BY <3>3, <3>4
  <2>4. DOMAIN saved[j] = {}
    BY <2>2 DEF LInv, NotesFollowStages
  <2>5. \A k \in Jobs : NextHome(k)' = NextHome(k)
    BY <1>2 DEF NextHome
  <2>6. NotesFollowStages' /\ AppliedAtHome'
    BY <1>2, <2>1, <2>2, <2>4, <2>5 DEF LInv, NotesFollowStages, AppliedAtHome
  <2>7. AwayKnown' /\ LostKnown' /\ AwayIsLost' /\ NotesAreTrue'
    BY <1>2 DEF LInv, AwayKnown, LostKnown, AwayIsLost, NotesAreTrue, InHand
  <2> QED BY <2>3, <2>6, <2>7 DEF LInv
<1> QED BY <1>3, <1>4 DEF Claim, Goto

LEMMA LendRelease ==
  ASSUME LInv, TypeOK', NEW j \in Jobs, Release(j)
  PROVE  LInv'
<1>1. TypeOK
  BY DEF LInv
<1>2. /\ pc[j] = "home" /\ pc'[j] = "expire" /\ \A k \in Jobs : k # j => pc'[k] = pc[k]
      /\ UNCHANGED <<firmware, own, ends, saved, away, lost>>
      /\ \A k \in Jobs : Ends(k)' = Ends(k) /\ NextHome(k)' = NextHome(k)
      /\ busy' = [b \in Boards |-> IF b \in Ends(j) THEN Nobody ELSE busy[b]]
  BY <1>1 DEF Release, Goto, TypeOK, boardVars, jobVars, history, Ends, NextHome, Returned
<1>3. DOMAIN saved[j] = {}
  BY NothingNoted DEF Release, Homed
<1>4. ~Working(j)' /\ Working(j) /\ \A k \in Jobs : k # j => (Working(k)' <=> Working(k))
  BY <1>2 DEF Working
<1>5. ClaimsMatch'
  <2> SUFFICES ASSUME NEW k \in Jobs, NEW b \in Boards
               PROVE  busy'[b] = k <=> Working(k)' /\ b \in Ends(k)
    BY <1>2 DEF ClaimsMatch
  <2>1. /\ busy[b] = k <=> Working(k) /\ b \in Ends(k)
        /\ busy[b] = j <=> Working(j) /\ b \in Ends(j)
    BY DEF LInv, ClaimsMatch
  <2>2. Nobody # k
    BY GatewayAssumption
  <2>3. CASE b \in Ends(j)
    BY <1>2, <1>4, <2>1, <2>2, <2>3
  <2>4. CASE b \notin Ends(j)
    BY <1>2, <1>4, <2>1, <2>4
  <2> QED BY <2>3, <2>4
<1>6. NotesFollowStages' /\ AppliedAtHome'
  BY <1>2, <1>3, <1>4 DEF LInv, NotesFollowStages, AppliedAtHome
<1>7. AwayKnown' /\ LostKnown' /\ AwayIsLost' /\ NotesAreTrue'
  BY <1>2 DEF LInv, AwayKnown, LostKnown, AwayIsLost, NotesAreTrue, InHand
<1> QED BY <1>5, <1>6, <1>7 DEF LInv

(* The gateway is killed: what it knows of its boards is on the page.      *)
LEMMA LendDie ==
  ASSUME LInv, TypeOK', Die
  PROVE  LInv'
<1>1. TypeOK
  BY DEF LInv
<1>2. /\ UNCHANGED <<firmware, own, ends>>
      /\ away' = away \cup {b \in Boards : firmware[b] # Home[b]}
      /\ lost' = lost \cup {b \in Boards : busy[b] # Nobody}
      /\ \A b \in Boards : busy'[b] = Nobody
      /\ \A k \in Jobs : saved'[k] = NoSaved
      /\ \A k \in Jobs : pc'[k] = IF pc[k] \in AtRest THEN pc[k] ELSE "gone"
  BY <1>1 DEF Die, TypeOK, boardVars
<1>3. \A k \in Jobs : ~Working(k)' /\ DOMAIN saved'[k] = {}
  BY <1>2, NothingNoted DEF Working, AtRest
<1>4. ClaimsMatch'
  BY <1>2, <1>3, GatewayAssumption DEF ClaimsMatch
<1>5. NotesFollowStages' /\ AppliedAtHome' /\ NotesAreTrue'
  BY <1>3 DEF NotesFollowStages, AppliedAtHome, NotesAreTrue, Working
<1>6. \A b \in Boards : InHand(b) => b \in lost'
  <2>1. \A b \in Boards : InHand(b) => busy[b] \in Jobs
    BY NotedIsMine DEF InHand
  <2> QED BY <1>2, <2>1, GatewayAssumption
<1>7. AwayKnown' /\ LostKnown'
  BY <1>2, <1>6 DEF LInv, AwayKnown, LostKnown
<1>8. AwayIsLost'
  BY <1>2, <1>6 DEF LInv, AwayKnown, AwayIsLost
<1> QED BY <1>4, <1>5, <1>7, <1>8 DEF LInv

(* The stages at which board b of job j is noted, and then loaded.         *)
Turn(j, b, here, load, next) ==
  \/ b = ends[j]["rx"] /\ here = "saveRx" /\ load = "loadRx" /\ next = "saveTx"
  \/ b = ends[j]["tx"] /\ here = "saveTx" /\ load = "loadTx" /\ next = "listen"

LEMMA LendSave ==
  ASSUME LInv, TypeOK', NEW j \in Jobs, NEW b \in Boards, NEW here, NEW load, NEW next,
         Turn(j, b, here, load, next), Save(j, b, here, load, next)
  PROVE  LInv'
<1>1. TypeOK /\ b \in Ends(j)
  BY DEF LInv, Turn, Ends
<1>2. /\ pc[j] = here /\ UNCHANGED <<firmware, own, busy, ends, away, lost>>
      /\ \A k \in Jobs : k # j => pc'[k] = pc[k] /\ saved'[k] = saved[k]
      /\ pc'[j] \in {load, next, "close"}
  BY <1>1 DEF Save, Abort, Goto, TypeOK, boardVars, fleetVars, history
<1>3. b \notin DOMAIN saved[j]
  BY <1>2 DEF LInv, NotesFollowStages, Turn
<1>4. /\ Working(j)' /\ Working(j) /\ pc'[j] # "apply"
      /\ \A k \in Jobs : k # j => (Working(k)' <=> Working(k))
  BY <1>2 DEF Turn, Working
<1>5. \A k \in Jobs : Ends(k)' = Ends(k) /\ (k # j => NextHome(k)' = NextHome(k))
  BY <1>2 DEF Ends, NextHome
<1>6. ClaimsMatch'
  BY <1>2, <1>4, <1>5 DEF LInv, ClaimsMatch
<1>7. AppliedAtHome'
  BY <1>2, <1>4, <1>5 DEF LInv, AppliedAtHome
<1>8. CASE saved' = saved /\ pc'[j] \in {next, "close"}
  <2>1. NotesFollowStages'
    BY <1>1, <1>2, <1>3, <1>4, <1>5, <1>8, TwoEnds DEF LInv, NotesFollowStages, Turn
  <2>2. AwayKnown' /\ LostKnown' /\ AwayIsLost' /\ NotesAreTrue'
    BY <1>2, <1>8 DEF LInv, AwayKnown, LostKnown, AwayIsLost, NotesAreTrue, InHand
  <2> QED BY <1>6, <1>7, <2>1, <2>2 DEF LInv
<1>9. ASSUME firmware[b] # NoRole,
             saved' = [saved EXCEPT ![j] = [c \in DOMAIN @ \cup {b} |->
                         IF c = b THEN [role |-> firmware[b], own |-> own[b]] ELSE @[c]]]
      PROVE  LInv'
  <2>1. /\ DOMAIN saved'[j] = DOMAIN saved[j] \cup {b}
        /\ saved'[j][b] = [role |-> firmware[b], own |-> own[b]]
        /\ \A c \in DOMAIN saved[j] : c # b => saved'[j][c] = saved[j][c]
    BY <1>1, <1>9 DEF TypeOK
  <2>2. NotesFollowStages'
    BY <1>1, <1>2, <1>4, <1>5, <2>1, TwoEnds DEF LInv, NotesFollowStages, Turn
  <2>3. \A c \in Boards : InHand(c) => InHand(c)'
    BY <1>2, <2>1 DEF InHand
  <2>4. AwayKnown' /\ LostKnown' /\ AwayIsLost'
    BY <1>2, <2>3 DEF LInv, AwayKnown, LostKnown, AwayIsLost
  <2>5. b \notin lost => own[b] /\ firmware[b] = Home[b]
    <3>1. \A k \in Jobs : b \notin DOMAIN saved[k]
      <4>1. busy[b] = j
        BY <1>1, <1>4 DEF LInv, ClaimsMatch
      <4> QED BY <1>3, <4>1, NotedIsMine
    <3> QED BY <3>1, NotInHand
  <2>6. NotesAreTrue'
    BY <1>2, <2>1, <2>5 DEF LInv, NotesAreTrue
  <2> QED BY <1>6, <1>7, <2>2, <2>4, <2>6 DEF LInv
<1> QED
  <2>1. pc' = [pc EXCEPT ![j] = next] => pc'[j] = next
    BY <1>1 DEF TypeOK
  <2>2. pc' = [pc EXCEPT ![j] = "close"] => pc'[j] = "close"
    BY <1>1 DEF TypeOK
  <2> QED BY <1>8, <1>9, <2>1, <2>2 DEF Save, Goto, Abort

(* A load changes a board that is noted, and its firmware and settings.    *)
LEMMA Loaded ==
  ASSUME TypeOK, NEW b \in Boards, NEW r, Flashed(b, r) \/ FlashFailed(b, r)
  PROVE  \A c \in Boards : c # b => firmware'[c] = firmware[c] /\ own'[c] = own[c]
BY DEF TypeOK, Flashed, FlashFailed, boardVars

LEMMA LendLoad ==
  ASSUME LInv, TypeOK', NEW j \in Jobs, NEW b \in Boards, NEW here, NEW load, NEW next,
         Turn(j, b, here, load, next), Load(j, b, load, next)
  PROVE  LInv'
<1>1. TypeOK
  BY DEF LInv
<1>2. /\ pc[j] = load /\ UNCHANGED <<busy, ends, saved, away, lost>>
      /\ \A k \in Jobs : k # j => pc'[k] = pc[k]
      /\ pc'[j] \in {next, "close"}
      /\ Flashed(b, Want(j, b)) \/ FlashFailed(b, Want(j, b))
  BY <1>1 DEF Load, Abort, Goto, TypeOK, fleetVars, history
<1>3. b \in DOMAIN saved[j]
  BY <1>2 DEF LInv, NotesFollowStages, Turn
<1>4. /\ Working(j)' /\ pc'[j] # "apply"
      /\ \A k \in Jobs : Working(k)' <=> Working(k)
  BY <1>2 DEF Turn, Working
<1>5. /\ \A k \in Jobs : Ends(k)' = Ends(k) /\ NextHome(k)' = NextHome(k)
      /\ \A c \in Boards : InHand(c)' <=> InHand(c)
  BY <1>2 DEF Ends, NextHome, InHand
<1>6. \A c \in Boards : c # b => firmware'[c] = firmware[c] /\ own'[c] = own[c]
  BY <1>1, <1>2, Loaded
<1>7. ClaimsMatch'
  BY <1>2, <1>4, <1>5 DEF LInv, ClaimsMatch
<1>8. NotesFollowStages'
  BY <1>2, <1>4, <1>5 DEF LInv, NotesFollowStages, Turn
<1>9. AppliedAtHome'
  <2>1. \A k \in Jobs : k # j /\ pc[k] = "apply" => NextHome(k) # b /\ NextHome(k) \in Boards
    BY <1>3, NotedIsMine DEF LInv, NotesFollowStages
  <2> QED BY <1>2, <1>4, <1>5, <1>6, <2>1 DEF LInv, AppliedAtHome
<1>10. AwayKnown' /\ LostKnown' /\ AwayIsLost' /\ NotesAreTrue'
  <2>1. InHand(b)
    BY <1>3 DEF InHand
  <2> QED BY <1>2, <1>5, <1>6, <2>1 DEF LInv, AwayKnown, LostKnown, AwayIsLost, NotesAreTrue
<1> QED BY <1>7, <1>8, <1>9, <1>10 DEF LInv

(* The next board to be handled was noted.                                 *)
LEMMA NextIsNoted ==
  ASSUME LInv, NEW j \in Jobs, saved[j] # NoSaved
  PROVE  NextHome(j) \in DOMAIN saved[j]
<1>1. saved[j] \in Partial(Status)
  BY DEF LInv, TypeOK
<1>2. DOMAIN saved[j] # {}
  BY <1>1, Noted
<1>3. DOMAIN saved[j] \subseteq {ends[j]["tx"], ends[j]["rx"]}
  BY DEF LInv, NotesFollowStages, Ends
<1> QED BY <1>2, <1>3 DEF NextHome

(* A board is handled: nobody has it in hand any more.                     *)
LEMMA BoardHandled ==
  ASSUME LInv, NEW j \in Jobs, NEW b \in DOMAIN saved[j], NEW ok,
         saved' = [saved EXCEPT ![j] = Handled(j, b, ok)]
  PROVE  /\ DOMAIN saved'[j] = DOMAIN saved[j] \ {b}
         /\ \A c \in DOMAIN saved'[j] : saved'[j][c] = saved[j][c]
         /\ \A k \in Jobs : k # j => saved'[k] = saved[k]
         /\ \A c \in Boards : c # b /\ InHand(c) => InHand(c)'
<1>1. /\ saved'[j] = Handled(j, b, ok)
      /\ \A k \in Jobs : k # j => saved'[k] = saved[k]
  BY DEF LInv, TypeOK
<1>2. /\ DOMAIN saved'[j] = DOMAIN saved[j] \ {b}
      /\ \A c \in DOMAIN saved'[j] : saved'[j][c] = saved[j][c]
  BY <1>1 DEF Handled, Restrict
<1> QED BY <1>1, <1>2 DEF InHand

LEMMA LendHome ==
  ASSUME LInv, TypeOK', NEW j \in Jobs, FlashHome(j)
  PROVE  LInv'
<1>1. TypeOK
  BY DEF LInv
<1>2. PICK b \in DOMAIN saved[j] : b = NextHome(j)
  BY NextIsNoted DEF FlashHome
<1>3. /\ b \in Boards /\ b \in Ends(j) /\ Working(j)
      /\ \A k \in Jobs : k # j => b \notin DOMAIN saved[k]
  BY NotedIsMine
<1>4. /\ pc[j] = "home" /\ UNCHANGED <<busy, ends>>
      /\ \A k \in Jobs : k # j => pc'[k] = pc[k] /\ saved'[k] = saved[k]
      /\ \A k \in Jobs : Ends(k)' = Ends(k) /\ (k # j => NextHome(k)' = NextHome(k))
  BY <1>1 DEF FlashHome, NotRestored, Goto, TypeOK, fleetVars, Ends, NextHome
<1>5. \A c \in Boards : c # b => firmware'[c] = firmware[c] /\ own'[c] = own[c]
  BY <1>1, <1>2, <1>3, Loaded DEF FlashHome
<1>6. \A k \in Jobs : k # j /\ pc[k] = "apply" => NextHome(k) # b /\ NextHome(k) \in Boards
  BY <1>3, NotedIsMine DEF LInv, NotesFollowStages
<1>7. CASE /\ Flashed(b, Home[b]) /\ away' = away \ {b} /\ HadOwn(j, b) /\ Goto(j, "apply")
           /\ UNCHANGED <<saved, lost>>
  <2>1. pc'[j] = "apply" /\ NextHome(j)' = b /\ firmware'[b] = Home[b]
    BY <1>1, <1>2, <1>3, <1>4, <1>7 DEF Goto, TypeOK, NextHome, Flashed
  <2>2. \A k \in Jobs : Working(k)' <=> Working(k)
    BY <1>3, <1>4, <2>1 DEF Working
  <2>3. ClaimsMatch' /\ NotesFollowStages'
    BY <1>2, <1>4, <1>7, <2>1, <2>2 DEF LInv, ClaimsMatch, NotesFollowStages
  <2>4. AppliedAtHome'
    BY <1>4, <1>5, <1>6, <2>1 DEF LInv, AppliedAtHome
  <2>5. InHand(b)' /\ \A c \in Boards : InHand(c)' <=> InHand(c)
    BY <1>7 DEF InHand
  <2>6. AwayKnown' /\ LostKnown' /\ AwayIsLost' /\ NotesAreTrue'
    BY <1>5, <1>7, <2>1, <2>5 DEF LInv, AwayKnown, LostKnown, AwayIsLost, NotesAreTrue
  <2> QED BY <2>3, <2>4, <2>6 DEF LInv
<1>8. ASSUME UNCHANGED pc, NEW ok \in BOOLEAN,
             saved' = [saved EXCEPT ![j] = Handled(j, b, ok)],
             \/ /\ firmware'[b] = Home[b] /\ away' = away \ {b} /\ lost' = lost
                /\ ~HadOwn(j, b)
             \/ lost' = lost \cup {b} /\ away' = away \cup {b}
      PROVE  LInv'
  <2>1. /\ DOMAIN saved'[j] = DOMAIN saved[j] \ {b}
        /\ \A c \in DOMAIN saved'[j] : saved'[j][c] = saved[j][c]
        /\ \A c \in Boards : c # b /\ InHand(c) => InHand(c)'
    BY <1>8, BoardHandled
  <2>2. \A k \in Jobs : Working(k)' <=> Working(k)
    BY <1>8 DEF Working
  <2>3. ClaimsMatch'
    BY <1>4, <2>2 DEF LInv, ClaimsMatch
  <2>4. NotesFollowStages'
    BY <1>3, <1>4, <1>8, <2>1, <2>2 DEF LInv, NotesFollowStages
  <2>5. AppliedAtHome'
    BY <1>4, <1>5, <1>6, <1>8 DEF LInv, AppliedAtHome
  <2>6. b \in lost'
    BY <1>8 DEF LInv, NotesAreTrue, HadOwn
  <2>7. AwayKnown'
    BY <1>5, <1>8, <2>1 DEF LInv, AwayKnown
  <2>8. LostKnown' /\ AwayIsLost'
    BY <1>5, <1>8, <2>1, <2>6 DEF LInv, LostKnown, AwayIsLost
  <2>9. NotesAreTrue'
    BY <1>4, <1>8, <2>1 DEF LInv, NotesAreTrue
  <2> QED BY <2>3, <2>4, <2>5, <2>7, <2>8, <2>9 DEF LInv
<1>9. \/ /\ Flashed(b, Home[b]) /\ away' = away \ {b} /\ HadOwn(j, b) /\ Goto(j, "apply")
         /\ UNCHANGED <<saved, lost>>
      \/ /\ Flashed(b, Home[b]) /\ away' = away \ {b} /\ ~HadOwn(j, b)
         /\ saved' = [saved EXCEPT ![j] = Handled(j, b, TRUE)]
         /\ UNCHANGED <<pc, lost>>
      \/ /\ saved' = [saved EXCEPT ![j] = Handled(j, b, FALSE)]
         /\ lost' = lost \cup {b} /\ away' = away \cup {b} /\ UNCHANGED pc
  BY <1>2 DEF FlashHome, NotRestored
<1>10. Flashed(b, Home[b]) => firmware'[b] = Home[b]
  BY <1>1, <1>3 DEF Flashed, TypeOK
<1> QED BY <1>7, <1>8, <1>9, <1>10

LEMMA LendApply ==
  ASSUME LInv, TypeOK', NEW j \in Jobs, Apply(j)
  PROVE  LInv'
<1>1. TypeOK
  BY DEF LInv
<1>2. PICK b \in DOMAIN saved[j] : b = NextHome(j)
  BY DEF LInv, NotesFollowStages, Apply
<1>3. b \in Boards /\ Working(j) /\ firmware[b] = Home[b]
  BY <1>2, NotedIsMine DEF LInv, AppliedAtHome, Apply
<1>4. /\ UNCHANGED <<firmware, busy, ends, away>> /\ pc'[j] = "home"
      /\ \A k \in Jobs : k # j => pc'[k] = pc[k]
  BY <1>1 DEF Apply, Goto, TypeOK, fleetVars
<1>5. PICK ok \in BOOLEAN : saved' = [saved EXCEPT ![j] = Handled(j, b, ok)]
  BY <1>2 DEF Apply, NotRestored
<1>6. /\ DOMAIN saved'[j] = DOMAIN saved[j] \ {b}
      /\ \A c \in DOMAIN saved'[j] : saved'[j][c] = saved[j][c]
      /\ \A k \in Jobs : k # j => saved'[k] = saved[k]
      /\ \A c \in Boards : c # b /\ InHand(c) => InHand(c)'
  BY <1>5, BoardHandled
<1>7. /\ \A k \in Jobs : Working(k)' <=> Working(k)
      /\ \A k \in Jobs : Ends(k)' = Ends(k) /\ (k # j => NextHome(k)' = NextHome(k))
  BY <1>3, <1>4, <1>6 DEF Working, Ends, NextHome
<1>8. /\ \A c \in Boards : c # b => own'[c] = own[c]
      /\ lost \subseteq lost' /\ (~own'[b] => b \in lost')
  <2>1. CASE own' = [own EXCEPT ![b] = saved[j][b].own] /\ UNCHANGED lost
    <3>1. /\ own'[b] = saved[j][b].own
          /\ \A c \in Boards : c # b => own'[c] = own[c]
      BY <1>1, <1>3, <2>1 DEF TypeOK
    <3>2. b \notin lost => saved[j][b].own
      BY DEF LInv, NotesAreTrue
    <3> QED BY <2>1, <3>1, <3>2
  <2>2. CASE NotRestored(j, b) /\ UNCHANGED own
    BY <2>2 DEF NotRestored
  <2> QED BY <1>2, <2>1, <2>2 DEF Apply
<1>9. ClaimsMatch' /\ NotesFollowStages'
  BY <1>4, <1>6, <1>7 DEF LInv, ClaimsMatch, NotesFollowStages
<1>10. AppliedAtHome'
  BY <1>4, <1>7 DEF LInv, AppliedAtHome
<1>11. AwayKnown' /\ LostKnown' /\ AwayIsLost'
  BY <1>3, <1>4, <1>6, <1>8 DEF LInv, AwayKnown, LostKnown, AwayIsLost
<1>12. NotesAreTrue'
  BY <1>6, <1>8 DEF LInv, NotesAreTrue
<1> QED BY <1>9, <1>10, <1>11, <1>12 DEF LInv

(* The steps of a job that do not touch its boards.                        *)
LEMMA LendQuiet ==
  ASSUME LInv, TypeOK', NEW j \in Jobs,
         \/ RequestStep(j) \/ Validate(j) \/ Listen(j) \/ Await(j) \/ Check(j)
         \/ Sent(j) \/ CutOff(j) \/ Close(j) \/ Finish(j)
  PROVE  LInv'
<1> USE DEF boardVars, fleetVars, listVars, jobVars, history
<1>1. TypeOK
  BY DEF LInv
<1>2. UNCHANGED <<firmware, own, busy, ends, saved, away>> /\ lost \subseteq lost'
  BY DEF RequestStep, List, Probe, Update, Validate, Listen, Await, Check, Sent, CutOff,
         Close, Finish
<1>3. /\ \A k \in Jobs : k # j => pc'[k] = pc[k]
      /\ \/ pc'[j] = pc[j]
         \/ /\ pc[j] \in {"new", "page", "probe", "validate", "expire"}
            /\ pc'[j] \in {"new", "page", "probe", "validate", "claim", "rejected", "ended"}
         \/ /\ pc[j] \in {"listen", "await", "check", "sending", "close"}
            /\ pc'[j] \in {"await", "check", "sending", "close", "home"}
  <2>1. CASE RequestStep(j)
    BY <1>1, <2>1 DEF RequestStep, List, Probe, Update, Listing, Goto, TypeOK
  <2>2. CASE Validate(j) \/ Finish(j)
    BY <1>1, <2>2 DEF Validate, Finish, Goto, TypeOK
  <2>3. CASE Listen(j) \/ Await(j) \/ Check(j)
    BY <1>1, <2>3 DEF Listen, Await, Check, Abort, Goto, TypeOK
  <2>4. CASE Sent(j) \/ CutOff(j) \/ Close(j)
    BY <1>1, <2>4 DEF Sent, CutOff, Close, Goto, TypeOK
  <2> QED BY <2>1, <2>2, <2>3, <2>4
<1>4. \A k \in Jobs :
        /\ Working(k)' <=> Working(k)
        /\ pc'[k] # pc[k] => pc'[k] \notin {"saveRx", "loadRx", "saveTx", "loadTx", "apply"}
  BY <1>3 DEF Working
<1> QED BY <1>2, <1>4, LendFrame

LEMMA LendAgent ==
  ASSUME LInv, TypeOK', NEW j \in Jobs, NEW e \in Roles, AgentStep(j, e)
  PROVE  LInv'
<1>1. TypeOK
  BY DEF LInv
<1>2. UNCHANGED <<firmware, busy, ends, saved, away, pc>> /\ lost \subseteq lost'
  BY DEF AgentStep, AgentRuns, AgentRefuses, AgentEnds, boardVars, fleetVars, history
<1>3. \A b \in Boards : ~own'[b] => ~own[b] \/ b \in lost'
  BY <1>1 DEF AgentStep, AgentRuns, AgentRefuses, AgentEnds, boardVars, TypeOK
<1>4. \A k \in Jobs : Working(k)' <=> Working(k)
  BY <1>2 DEF Working
<1> QED BY <1>2, <1>3, <1>4, LendFrame

LEMMA LendStep == LInv /\ [Next]_vars => LInv'
<1> SUFFICES ASSUME LInv, [Next]_vars PROVE LInv'
  OBVIOUS
<1>t. TypeOK /\ \A j \in Jobs : pc[j] = "apply" => NextHome(j) \in DOMAIN saved[j]
  BY DEF LInv, NotesFollowStages
<1>1. ASSUME NEW j \in Jobs, RequestStep(j) PROVE LInv'
  BY <1>1, <1>t, TypedRequest, LendQuiet
<1>2. ASSUME NEW j \in Jobs, JobStep(j) \/ CutOff(j) PROVE LInv'
  <2>1. TypeOK' /\ ends[j]["rx"] \in Boards /\ ends[j]["tx"] \in Boards
    BY <1>2, <1>t, TypedJob, TwoEnds
  <2>2. CASE \/ Validate(j) \/ Listen(j) \/ Await(j) \/ Check(j) \/ Sent(j) \/ CutOff(j)
             \/ Close(j) \/ Finish(j)
    BY <2>1, <2>2, LendQuiet
  <2>3. CASE Claim(j)
    BY <2>1, <2>3, LendClaim
  <2>4. CASE \/ Save(j, ends[j]["rx"], "saveRx", "loadRx", "saveTx")
             \/ Save(j, ends[j]["tx"], "saveTx", "loadTx", "listen")
    BY <2>1, <2>4, LendSave DEF Turn
  <2>5. CASE Load(j, ends[j]["rx"], "loadRx", "saveTx")
    <3>1. Turn(j, ends[j]["rx"], "saveRx", "loadRx", "saveTx")
      BY DEF Turn
    <3> QED BY <2>1, <2>5, <3>1, LendLoad
  <2>6. CASE Load(j, ends[j]["tx"], "loadTx", "listen")
    <3>1. Turn(j, ends[j]["tx"], "saveTx", "loadTx", "listen")
      BY DEF Turn
    <3> QED BY <2>1, <2>6, <3>1, LendLoad
  <2>7. CASE FlashHome(j)
    BY <2>1, <2>7, LendHome
  <2>8. CASE Apply(j)
    BY <2>1, <2>8, LendApply
  <2>9. CASE Release(j)
    BY <2>1, <2>9, LendRelease
  <2> QED
    BY <1>2, <2>2, <2>3, <2>4, <2>5, <2>6, <2>7, <2>8, <2>9 DEF JobStep
<1>3. ASSUME NEW j \in Jobs, NEW e \in Roles, AgentStep(j, e) PROVE LInv'
  BY <1>3, <1>t, TypedAgent, LendAgent
<1>4. CASE Die
  BY <1>4, <1>t, TypedGateway, LendDie
<1>5. CASE Expire \/ UNCHANGED vars
  <2>1. UNCHANGED <<firmware, own, busy, ends, saved, away, lost, pc>>
    BY <1>5 DEF Expire, vars, boardVars, fleetVars, jobVars, history
  <2>2. \A k \in Jobs : Working(k)' <=> Working(k)
    BY <2>1 DEF Working
  <2> QED BY <1>5, <1>t, <2>1, <2>2, TypedGateway, LendFrame
<1> QED BY <1>1, <1>2, <1>3, <1>4, <1>5 DEF Next

LEMMA Lends == Spec => []LInv
  BY LendInit, LendStep, PTL DEF Spec

(* A board nobody has claimed (gateway.py, run_job and its finally clause) *)
(* has its owner's settings, or their loss is in a log or an error: for    *)
(* any boards and jobs, whatever fails, is cut off or killed, and wherever *)
(* agents outlive their jobs.                                              *)
THEOREM BoardsKeepSettings == Spec => []SettingsKeptOrReported
<1>1. LInv => SettingsKeptOrReported
  <2> SUFFICES ASSUME LInv, NEW b \in Boards, busy[b] = Nobody PROVE own[b] \/ b \in lost
    BY DEF SettingsKeptOrReported
  <2>1. \A j \in Jobs : b \notin DOMAIN saved[j]
    BY NotedIsMine, GatewayAssumption
  <2> QED BY <2>1, NotInHand
<1> QED BY <1>1, Lends, PTL

-----------------------------------------------------------------------------
(* Whose firmware it runs: every step is one of BoardLending or none.      *)
AtHome == {b \in Boards : firmware[b] = Home[b]}

LEMMA LendingInit == Init => Lending!Init
BY DEF Init, Lending!Init

(* A load, tried by a job that has the board, is the promise's Load.       *)
LEMMA LoadIsLoad ==
  ASSUME LInv, NEW j \in Jobs, NEW b \in Boards, busy[b] = j, NEW r,
         UNCHANGED busy, Flashed(b, r) \/ FlashFailed(b, r),
         \/ away' \in {away, away \cup {b}}
         \/ away' = away \ {b} /\ firmware'[b] = Home[b]
  PROVE  Lending!Load(b)
<1>1. TypeOK
  BY DEF LInv
<1>2. \A c \in Boards : c # b => firmware'[c] = firmware[c]
  BY <1>1, Loaded
<1>3. ~Lending!Free(b)
  BY GatewayAssumption DEF Lending!Free
<1>4. CASE firmware'[b] = Home[b]
  <2>1. AtHome' = AtHome \cup {b}
    BY <1>2, <1>4 DEF AtHome
  <2> QED BY <1>3, <2>1 DEF Lending!Load, AtHome
<1>5. CASE firmware'[b] # Home[b]
  <2>1. AtHome' = AtHome \ {b}
    BY <1>2, <1>5 DEF AtHome
  <2> QED BY <1>3, <1>5, <2>1 DEF Lending!Load, AtHome
<1> QED BY <1>4, <1>5

LEMMA LendingStep == LInv /\ [Next]_vars => [Lending!Next]_(Lending!vars)
<1> SUFFICES ASSUME LInv, [Next]_vars PROVE [Lending!Next]_(Lending!vars)
  OBVIOUS
<1> USE DEF boardVars, fleetVars, listVars, jobVars, history
<1>t. TypeOK
  BY DEF LInv
<1>s. ASSUME UNCHANGED <<firmware, busy, away>> PROVE UNCHANGED Lending!vars
  BY <1>s DEF Lending!vars
<1>1. ASSUME NEW j \in Jobs, RequestStep(j) PROVE UNCHANGED Lending!vars
  BY <1>1, <1>s DEF RequestStep, List, Probe, Update
<1>2. ASSUME NEW j \in Jobs, JobStep(j) \/ CutOff(j)
      PROVE  Lending!Next \/ UNCHANGED Lending!vars
  <2>1. /\ ends[j]["rx"] \in Boards /\ ends[j]["tx"] \in Boards
        /\ Ends(j) = {ends[j]["tx"], ends[j]["rx"]} /\ Ends(j) \subseteq Boards
    BY <1>t, TwoEnds DEF Ends
  <2>2. Working(j) => \A b \in Ends(j) : busy[b] = j
    BY <2>1 DEF LInv, ClaimsMatch
  <2>3. CASE \/ Validate(j) \/ Listen(j) \/ Await(j) \/ Check(j) \/ Sent(j) \/ CutOff(j)
             \/ Close(j) \/ Finish(j) \/ Apply(j)
             \/ Save(j, ends[j]["rx"], "saveRx", "loadRx", "saveTx")
             \/ Save(j, ends[j]["tx"], "saveTx", "loadTx", "listen")
    BY <1>s, <2>3 DEF Validate, Listen, Await, Check, Sent, CutOff, Close, Finish, Apply, Save
  <2>4. CASE Claim(j)
    <3>1. CASE UNCHANGED busy
      BY <1>s, <2>4, <3>1 DEF Claim
    <3>2. CASE /\ \A b \in Ends(j) : busy[b] = Nobody
               /\ busy' = [b \in Boards |-> IF b \in Ends(j) THEN j ELSE busy[b]]
      <4>1. \A b \in Boards : busy[b] # j
        BY <2>4 DEF Claim, LInv, ClaimsMatch, Working
      <4>2. Lending!Lend(j, {ends[j]["tx"], ends[j]["rx"]})
        BY <2>1, <2>4, <3>2, <4>1 DEF Lending!Lend, Lending!Free, Claim
      <4> QED BY <2>1, <4>2 DEF Lending!Next
    <3> QED BY <2>4, <3>1, <3>2 DEF Claim
  <2>5. ASSUME NEW b \in Ends(j), NEW here, NEW next, Load(j, b, here, next), Working(j)
        PROVE  Lending!Next
    <3>1. Lending!Load(b)
      BY <2>1, <2>2, <2>5, LoadIsLoad DEF Load
    <3> QED BY <2>1, <3>1 DEF Lending!Next
  <2>6. CASE FlashHome(j)
    <3>1. PICK b \in DOMAIN saved[j] : b = NextHome(j)
      BY <2>6, NextIsNoted DEF FlashHome
    <3>2. b \in Boards /\ busy[b] = j
      BY NotedIsMine
    <3>3. /\ UNCHANGED busy
          /\ Flashed(b, Home[b]) \/ FlashFailed(b, Home[b])
          /\ \/ Flashed(b, Home[b]) /\ away' = away \ {b}
             \/ away' = away \cup {b}
      BY <2>6, <3>1 DEF FlashHome
    <3>4. Flashed(b, Home[b]) => firmware'[b] = Home[b]
      BY <1>t, <3>2 DEF Flashed, TypeOK
    <3>5. Lending!Load(b)
      BY <3>2, <3>3, <3>4, LoadIsLoad
    <3> QED BY <3>2, <3>5 DEF Lending!Next
  <2>7. CASE Release(j)
    <3>1. Working(j) /\ saved[j] = NoSaved
      BY <2>7 DEF Release, Homed, Working
    <3>2. \A b \in Boards : busy[b] = j <=> b \in Ends(j)
      BY <3>1 DEF LInv, ClaimsMatch
    <3>3. \A b \in Boards : busy[b] = j => b \in AtHome \cup away
      <4>1. \A b \in Boards : busy[b] = j => ~InHand(b)
        BY <3>1, NothingNoted, NotedIsMine DEF InHand
      <4> QED BY <4>1 DEF LInv, AwayKnown, AtHome
    <3>4. busy' = [b \in Boards |-> IF busy[b] = j THEN Nobody ELSE busy[b]]
      BY <2>7, <3>2 DEF Release, Returned
    <3>5. Lending!Return(j)
      BY <2>1, <2>7, <3>2, <3>3, <3>4 DEF Lending!Return, Release, AtHome
    <3> QED BY <3>5 DEF Lending!Next
  <2> QED
    BY <1>2, <2>1, <2>3, <2>4, <2>5, <2>6, <2>7 DEF JobStep, Load, Working
<1>3. ASSUME NEW j \in Jobs, NEW e \in Roles, AgentStep(j, e) PROVE UNCHANGED Lending!vars
  BY <1>3, <1>s DEF AgentStep, AgentRuns, AgentRefuses, AgentEnds
<1>4. CASE Die
  <2>1. /\ busy' = [b \in Boards |-> Nobody] /\ UNCHANGED firmware
        /\ away' = away \cup {b \in Boards : firmware[b] # Home[b]}
    BY <1>4 DEF Die
  <2>2. {b \in Boards : firmware[b] # Home[b]} = Boards \ AtHome
    BY DEF AtHome
  <2>3. Lending!BreakDown
    BY <2>1, <2>2 DEF Lending!BreakDown, AtHome
  <2> QED BY <2>3 DEF Lending!Next
<1>5. CASE Expire \/ UNCHANGED vars
  BY <1>5, <1>s DEF Expire, vars
<1> QED BY <1>1, <1>2, <1>3, <1>4, <1>5 DEF Next

(* The gateway (Fleet and run_job) lends its boards as BoardLending        *)
(* promises, for any boards, jobs and choices: both boards at once, nobody *)
(* loads firmware on a board that is not lent to it, and a board comes     *)
(* back with its own firmware or with somebody told that it has not.       *)
THEOREM LendsAsPromised == Spec => PromiseKept
BY LendingInit, LendingStep, Lends, PTL DEF Spec, PromiseKept, Lending!Spec

-----------------------------------------------------------------------------
(* What the cache says.  A board is settled when nobody has it and the job *)
(* that had it last has expired the cache; it becomes settled only then.   *)
Settled(b) ==
  busy[b] = Nobody /\ \A j \in Jobs : pc[j] = "expire" => b \notin Ends(j)

Correct(b, answer) == answer \in {firmware[b], NoRole}

(* A listing has the board's firmware, or is going to ask for it.          *)
Asked(q, b) ==
  b \in todo[q] \/ (b \in DOMAIN found[q] /\ Correct(b, found[q][b]))

(* A listing that no job's end has crossed asks every settled board.       *)
ListsAreTrue ==
  \A q \in Jobs : Listing(q) /\ q \notin crossed =>
    \A b \in Boards : Settled(b) =>
      Asked(q, b)

CInv == LInv /\ ListsAreTrue /\ CacheIsTrue

LEMMA CacheInit == Init => CInv
BY LendInit DEF Init, CInv, ListsAreTrue, CacheIsTrue, Listing

(* Steps that settle no board and write neither cache nor listing.         *)
LEMMA CacheFrame ==
  ASSUME CInv, LInv', UNCHANGED <<cache, tainted, todo, found, crossed>>, fresh' => fresh,
         \A q \in Jobs : Listing(q)' => Listing(q),
         \A b \in Boards : Settled(b)' => Settled(b) /\ firmware'[b] = firmware[b]
  PROVE  CInv'
<1>1. ListsAreTrue'
  BY DEF CInv, ListsAreTrue, Asked, Correct
<1>2. CacheIsTrue'
  BY DEF CInv, CacheIsTrue, Settled
<1> QED BY <1>1, <1>2 DEF CInv

LEMMA CacheRequest ==
  ASSUME CInv, LInv', NEW q \in Jobs, RequestStep(q)
  PROVE  CInv'
<1> USE DEF boardVars, fleetVars, listVars, jobVars, history
<1>1. TypeOK
  BY DEF CInv, LInv
<1>2. /\ UNCHANGED <<firmware, busy, ends>>
      /\ \A k \in Jobs : k # q => pc'[k] = pc[k] /\ todo'[k] = todo[k] /\ found'[k] = found[k]
      /\ pc[q] # "expire" /\ pc'[q] # "expire"
  <2>1. CASE List(q)
    BY <1>1, <2>1 DEF List, Goto, TypeOK
  <2>2. ASSUME NEW b \in Boards, Probe(q, b) PROVE <1>2
    BY <1>1, <2>2 DEF Probe, Listing, TypeOK
  <2>3. CASE Update(q)
    BY <1>1, <2>3 DEF Update, Listing, Goto, TypeOK
  <2> QED BY <2>1, <2>2, <2>3 DEF RequestStep
<1>3. \A b \in Boards : Settled(b)' <=> Settled(b)
  BY <1>2 DEF Settled, Ends
<1>4. \A k \in Jobs : k # q => (Listing(k)' <=> Listing(k))
  BY <1>2 DEF Listing
<1>5. CASE List(q)
  <2>1. UNCHANGED <<cache, fresh, tainted, crossed>>
    BY <1>5 DEF List
  <2>2. Listing(q)' => todo'[q] = {b \in Boards : busy[b] = Nobody}
    BY <1>1, <1>5 DEF List, Listing, Goto, TypeOK
  <2>3. ListsAreTrue'
    <3> SUFFICES ASSUME NEW k \in Jobs, Listing(k)', k \notin crossed,
                        NEW b \in Boards, Settled(b)
                 PROVE  Asked(k, b)'
      BY <1>3, <2>1 DEF ListsAreTrue
    <3>1. CASE k = q
      BY <2>2, <3>1 DEF Settled, Asked
    <3>2. CASE k # q
      BY <1>2, <1>4, <3>2 DEF CInv, ListsAreTrue, Asked, Correct
    <3> QED BY <3>1, <3>2
  <2>4. CacheIsTrue'
    BY <1>2, <1>3, <2>1 DEF CInv, CacheIsTrue, Settled
  <2> QED BY <2>3, <2>4 DEF CInv
<1>6. ASSUME NEW b \in Boards, Probe(q, b) PROVE CInv'
  <2>1. /\ UNCHANGED <<cache, fresh, tainted, crossed, pc>> /\ Listing(q)
        /\ todo'[q] = todo[q] \ {b}
    BY <1>1, <1>6 DEF Probe, TypeOK
  <2>2. PICK answer \in {NoRole} \cup IF Held(b) THEN {} ELSE {firmware[b]} :
          found' = [found EXCEPT ![q] = [c \in DOMAIN @ \cup {b} |->
                                           IF c = b THEN answer ELSE @[c]]]
    BY <1>6 DEF Probe
  <2>3. /\ DOMAIN found'[q] = DOMAIN found[q] \cup {b} /\ found'[q][b] = answer
        /\ \A c \in DOMAIN found[q] : c # b => found'[q][c] = found[q][c]
    BY <1>1, <2>2 DEF TypeOK
  <2>4. Correct(b, answer)
    BY <2>2 DEF Correct
  <2>5. ListsAreTrue'
    <3> SUFFICES ASSUME NEW k \in Jobs, Listing(k), k \notin crossed,
                        NEW c \in Boards, Settled(c)
                 PROVE  Asked(k, c)'
      BY <1>3, <2>1 DEF ListsAreTrue, Listing
    <3>1. CASE k = q /\ c = b
      BY <1>2, <2>3, <2>4, <3>1 DEF Asked, Correct
    <3>2. CASE k = q /\ c # b
      BY <1>2, <2>1, <2>3, <3>2 DEF CInv, ListsAreTrue, Asked, Correct
    <3>3. CASE k # q
      BY <1>2, <3>3 DEF CInv, ListsAreTrue, Asked, Correct
    <3> QED BY <3>1, <3>2, <3>3
  <2>6. CacheIsTrue'
    BY <1>2, <1>3, <2>1 DEF CInv, CacheIsTrue, Settled
  <2> QED BY <2>5, <2>6 DEF CInv
<1>7. CASE Update(q)
  <2>1. /\ todo[q] = {} /\ Listing(q)
        /\ cache' = [b \in Boards |-> IF b \in DOMAIN found[q] THEN found[q][b] ELSE cache[b]]
        /\ tainted' = (q \in crossed) /\ crossed' = crossed \ {q}
    BY <1>7 DEF Update
  <2>2. ~Listing(q)'
    BY <1>1, <1>7 DEF Update, Goto, Listing, TypeOK
  <2>3. ListsAreTrue'
    <3> SUFFICES ASSUME NEW k \in Jobs, k # q, Listing(k), k \notin crossed,
                        NEW b \in Boards, Settled(b)
                 PROVE  Asked(k, b)'
      BY <1>3, <1>4, <2>1, <2>2 DEF ListsAreTrue
    <3> QED BY <1>2 DEF CInv, ListsAreTrue, Asked, Correct
  <2>4. CacheIsTrue'
    <3> SUFFICES ASSUME q \notin crossed, NEW b \in Boards, Settled(b)
                 PROVE  Correct(b, cache'[b])
      BY <1>2, <1>3, <2>1 DEF CacheIsTrue, Settled, Correct
    <3> QED BY <2>1 DEF CInv, ListsAreTrue, Asked, Correct
  <2> QED BY <2>3, <2>4 DEF CInv
<1> QED BY <1>5, <1>6, <1>7 DEF RequestStep

(* A job's steps change only boards that are not settled; when it expires  *)
(* the cache its boards may settle, and every listing is crossed.          *)
LEMMA CacheJob ==
  ASSUME CInv, LInv', NEW j \in Jobs, JobStep(j) \/ CutOff(j)
  PROVE  CInv'
<1> USE DEF boardVars, fleetVars, listVars, jobVars, history
<1>1. TypeOK /\ LInv
  BY DEF CInv, LInv
<1>2. Working(j) => \A b \in Ends(j) : ~Settled(b)
  BY <1>1, TwoEnds, GatewayAssumption DEF LInv, ClaimsMatch, Settled
<1>3. CASE Finish(j)
  <2>1. fresh' = FALSE /\ crossed' = crossed \cup {q \in Jobs : Listing(q)}
    BY <1>3 DEF Finish, Aged
  <2>2. \A q \in Jobs : Listing(q)' => Listing(q)
    BY <1>1, <1>3 DEF Finish, Goto, Listing, TypeOK
  <2> QED BY <2>1, <2>2 DEF CInv, ListsAreTrue, CacheIsTrue
<1>4. ASSUME ~Finish(j) PROVE CInv'
  <2>1. UNCHANGED <<cache, fresh, tainted, todo, found, crossed, ends>>
    BY <1>4 DEF JobStep, CutOff, Validate, Claim, Save, Load, Listen, Await, Check, Sent,
                Close, FlashHome, Apply, Release
  <2>2. /\ pc[j] # "expire" /\ ~Listing(j)' /\ \A k \in Jobs : k # j => pc'[k] = pc[k]
    <3>1. CASE Validate(j) \/ Claim(j) \/ Release(j)
      BY <1>1, <3>1 DEF Validate, Claim, Release, Goto, Listing, TypeOK
    <3>2. CASE Listen(j) \/ Await(j) \/ Check(j) \/ Sent(j) \/ CutOff(j) \/ Close(j)
      BY <1>1, <3>2 DEF Listen, Await, Check, Sent, CutOff, Close, Abort, Goto, Listing, TypeOK
    <3>3. CASE FlashHome(j) \/ Apply(j)
      BY <1>1, <3>3 DEF FlashHome, Apply, Goto, Listing, TypeOK
    <3>4. CASE \/ Save(j, ends[j]["rx"], "saveRx", "loadRx", "saveTx")
               \/ Load(j, ends[j]["rx"], "loadRx", "saveTx")
               \/ Save(j, ends[j]["tx"], "saveTx", "loadTx", "listen")
               \/ Load(j, ends[j]["tx"], "loadTx", "listen")
      BY <1>1, <3>4 DEF Save, Load, Abort, Goto, Listing, TypeOK
    <3> QED BY <1>4, <3>1, <3>2, <3>3, <3>4 DEF JobStep
  <2>3. \A q \in Jobs : Listing(q)' => Listing(q)
    BY <2>2 DEF Listing
  <2>4. \A b \in Boards : Settled(b)' => Settled(b)
    <3> SUFFICES ASSUME NEW b \in Boards, Settled(b)' PROVE Settled(b)
      OBVIOUS
    <3>1. \A k \in Jobs : pc[k] = "expire" => b \notin Ends(k)
      BY <2>1, <2>2 DEF Settled, Ends
    <3>2. CASE Release(j)
      <4>1. pc'[j] = "expire" /\ \A c \in Boards : c \notin Ends(j) => busy'[c] = busy[c]
        BY <1>1, <3>2 DEF Release, Goto, Returned, TypeOK
      <4>2. b \notin Ends(j)
        BY <2>1, <4>1 DEF Settled, Ends
      <4> QED BY <3>1, <4>1, <4>2 DEF Settled
    <3>3. CASE Claim(j)
      <4>1. busy[b] = busy'[b] \/ busy'[b] = j
        BY <3>3 DEF Claim
      <4> QED BY <3>1, <4>1, GatewayAssumption DEF Settled
    <3>4. CASE ~Release(j) /\ ~Claim(j)
      <4>1. UNCHANGED busy
        BY <1>4, <3>4 DEF JobStep, CutOff, Validate, Save, Load, Listen, Await, Check, Sent,
                          Close, FlashHome, Apply
      <4> QED BY <3>1, <4>1 DEF Settled
    <3> QED BY <3>2, <3>3, <3>4
  <2>5. \A b \in Boards : Settled(b) => firmware'[b] = firmware[b]
    <3>1. CASE UNCHANGED firmware
      BY <3>1
    <3>2. ASSUME NEW b \in Ends(j), NEW r, Flashed(b, r) \/ FlashFailed(b, r), Working(j)
          PROVE  \A c \in Boards : Settled(c) => firmware'[c] = firmware[c]
      BY <1>1, <1>2, <3>2, TwoEnds, Loaded
    <3>3. CASE FlashHome(j)
      <4>1. PICK b \in DOMAIN saved[j] : b = NextHome(j)
        BY <1>1, <3>3, NextIsNoted DEF FlashHome
      <4>2. b \in Ends(j) /\ Working(j)
        BY <1>1, NotedIsMine
      <4>3. Flashed(b, Home[b]) \/ FlashFailed(b, Home[b])
        BY <3>3, <4>1 DEF FlashHome
      <4> QED BY <3>2, <4>2, <4>3
    <3>4. CASE \/ Load(j, ends[j]["rx"], "loadRx", "saveTx")
               \/ Load(j, ends[j]["tx"], "loadTx", "listen")
      <4>1. Working(j) /\ ends[j]["rx"] \in Ends(j) /\ ends[j]["tx"] \in Ends(j)
        BY <3>4 DEF Load, Working, Ends
      <4>2. PICK b \in Ends(j) : Flashed(b, Want(j, b)) \/ FlashFailed(b, Want(j, b))
        BY <3>4, <4>1 DEF Load
      <4> QED BY <3>2, <4>1, <4>2
    <3>5. CASE ~FlashHome(j) /\ ~Load(j, ends[j]["rx"], "loadRx", "saveTx")
               /\ ~Load(j, ends[j]["tx"], "loadTx", "listen")
      <4>1. UNCHANGED firmware
        BY <1>4, <3>5 DEF JobStep, CutOff, Validate, Claim, Save, Listen, Await, Check, Sent,
                          Close, Apply, Release
      <4> QED BY <4>1
    <3> QED BY <3>3, <3>4, <3>5
  <2> QED BY <2>1, <2>3, <2>4, <2>5, CacheFrame
<1> QED BY <1>3, <1>4

LEMMA CacheStep == CInv /\ [Next]_vars => CInv'
<1> SUFFICES ASSUME CInv, [Next]_vars PROVE CInv'
  OBVIOUS
<1> USE DEF boardVars, fleetVars, listVars, jobVars, history
<1>t. TypeOK /\ LInv'
  BY LendStep DEF CInv, LInv
<1>1. ASSUME NEW q \in Jobs, RequestStep(q) PROVE CInv'
  BY <1>1, <1>t, CacheRequest
<1>2. ASSUME NEW j \in Jobs, JobStep(j) \/ CutOff(j) PROVE CInv'
  BY <1>2, <1>t, CacheJob
<1>3. CASE \/ \E j \in Jobs, e \in Roles : AgentStep(j, e)
           \/ Expire \/ UNCHANGED vars
  <2>1. UNCHANGED <<cache, tainted, todo, found, crossed, pc, busy, ends, firmware>>
        /\ (fresh' => fresh)
    BY <1>3 DEF AgentStep, AgentRuns, AgentRefuses, AgentEnds, Expire, vars
  <2>2. /\ \A q \in Jobs : Listing(q)' <=> Listing(q)
        /\ \A b \in Boards : Settled(b)' <=> Settled(b)
    BY <2>1 DEF Listing, Settled, Ends
  <2> QED BY <1>t, <2>1, <2>2, CacheFrame
<1>4. CASE Die
  <2>1. fresh' = FALSE
    BY <1>4 DEF Die
  <2>2. \A q \in Jobs : ~Listing(q)'
    BY <1>4 DEF Die, Listing, AtRest
  <2> QED BY <1>t, <2>1, <2>2 DEF CInv, ListsAreTrue, CacheIsTrue
<1> QED BY <1>1, <1>2, <1>3, <1>4 DEF Next

(* What a fresh cache of the gateway (Fleet.list, Fleet.release, run_job)  *)
(* says of a free board is what the board runs, however listings, jobs and *)
(* restarts overlap: but for listings a job's end has crossed, which the   *)
(* code lets write a cache that is already out of date.                    *)
THEOREM CacheTellsTruth == Spec => []CacheIsTrue
<1>1. CInv => CacheIsTrue
  BY DEF CInv
<1> QED BY <1>1, CacheInit, CacheStep, PTL DEF Spec

-----------------------------------------------------------------------------
(* LoRaFraming.  The frames, by what they are of: fragment i of message k  *)
(* of sender s, and its acknowledgement.                                   *)
DataFrame(s, k, i) ==
  [kind |-> "data", src |-> s, dst |-> Dest[s], id |-> WireId(k), idx |-> i,
   of |-> Fragments[s][k], piece |-> <<s, k>>]
AckFrame(s, k, i) ==
  [kind |-> "ack", src |-> Dest[s], dst |-> s, id |-> WireId(k), idx |-> i]

DataFrames == {DataFrame(s, k, i) : s \in Senders, k \in Nat, i \in Nat}
AckFrames == {AckFrame(s, k, i) : s \in Senders, k \in Nat, i \in Nat}
Whole == {{<<s, k>>} : s \in Senders, k \in Nat}

(* Nobody shares a receiver, and a message number comes once.              *)
Apart == /\ \A s, t \in Senders : Dest[s] = Dest[t] => s = t
         /\ \A s \in Senders : Len(Fragments[s]) <= 256

FramesTyped ==
  /\ phase \in [Senders -> {"send", "await", "idle"}] /\ msg \in [Senders -> Nat]
  /\ frag \in [Senders -> Nat] /\ tries \in [Senders -> Nat]
  /\ DOMAIN heard = Nodes /\ \A s \in Senders : heard[s] \in Seq(AckFrames)
  /\ \A r \in Receivers : heard[r] \in Seq(DataFrames)
  /\ out \in [Receivers -> Seq(Whole)] /\ DOMAIN asm = Receivers

(* What a queue of frames holds, and that no message overtakes another.    *)
In(q) == {q[i] : i \in 1..Len(q)}
InOrder(q) == \A i, j \in 1..Len(q) : i <= j => q[i].piece[2] <= q[j].piece[2]

Sending(s) == IF phase[s] = "idle" THEN frag[s] = 0
              ELSE msg[s] \in 1..Len(Fragments[s]) /\ frag[s] < Fragments[s][msg[s]]

(* Fragments of the messages begun, in their order.                        *)
IsData(f, s) == \E k \in 1..Len(Fragments[s]), i \in Nat :
                  k <= msg[s] /\ i < Fragments[s][k] /\ f = DataFrame(s, k, i)
HeardInOrder(r) == /\ heard[r] # <<>> => \E s \in Senders : Dest[s] = r
            /\ InOrder(heard[r])
            /\ \A s \in Senders : Dest[s] = r => \A f \in In(heard[r]) : IsData(f, s)

(* A Reassembler holds some fragments, not all, of one message, and what   *)
(* the radio has heard since is not of an earlier one.                     *)
Collects(r, s, k) ==
  /\ Dest[s] = r /\ k \in 1..Len(Fragments[s]) /\ k <= msg[s]
  /\ asm[r].id = WireId(k) /\ asm[r].of = Fragments[s][k]
  /\ DOMAIN asm[r].parts \subseteq 0..(Fragments[s][k] - 1)
  /\ DOMAIN asm[r].parts # {} /\ ~Complete(asm[r])
  /\ \A i \in DOMAIN asm[r].parts : asm[r].parts[i] = <<s, k>>
  /\ \A f \in In(heard[r]) : k <= f.piece[2]
OneAtHand(r) == asm[r] = Fresh \/ \E s \in Senders, k \in Nat : Collects(r, s, k)

(* The message was returned, or a deadline has cut it short; or at least   *)
(* fragment i of it is in hand.                                            *)
Done(s, k) == \/ <<s, k>> \in cutShort
              \/ \E j \in DOMAIN out[Dest[s]] : out[Dest[s]][j] = {<<s, k>>}
Got(s, k, i) == \/ Done(s, k)
                \/ asm[Dest[s]].id = WireId(k) /\ i \in DOMAIN asm[Dest[s]].parts

(* An acknowledgement of the message in hand tells the truth.              *)
IsAck(f, s) == \E k \in 1..Len(Fragments[s]), i \in Nat :
                 /\ k <= msg[s] /\ i < Fragments[s][k] /\ f = AckFrame(s, k, i)
                 /\ k = msg[s] => Got(s, k, i)
Acked(s) == /\ \A f \in In(heard[s]) : IsAck(f, s)
            /\ \A i \in 0..(frag[s] - 1) : Got(s, msg[s], i)

Told == \A m \in sent : m[1] \in Senders /\ m = <<m[1], m[2]>> /\ Done(m[1], m[2])

TransferInv == /\ FramesTyped /\ Told
               /\ \A s \in Senders : Sending(s) /\ Acked(s)
               /\ \A r \in Receivers : HeardInOrder(r) /\ OneAtHand(r)

-----------------------------------------------------------------------------
LEMMA FrameTail ==
  ASSUME NEW S, NEW q \in Seq(S), q # <<>>
  PROVE  /\ Tail(q) \in Seq(S) /\ Head(q) \in In(q) /\ Head(q) \in S
         /\ In(Tail(q)) \subseteq In(q)
         /\ InOrder(q) => /\ InOrder(Tail(q))
                          /\ \A f \in In(Tail(q)) : Head(q).piece[2] <= f.piece[2]
<1>1. /\ Tail(q) \in Seq(S) /\ Len(q) \in Nat \ {0} /\ Len(Tail(q)) = Len(q) - 1
      /\ Head(q) = q[1] /\ \A i \in 1..Len(Tail(q)) : Tail(q)[i] = q[i + 1]
  OBVIOUS
<1>2. \A i \in 1..Len(Tail(q)) : i + 1 \in 1..Len(q)
  BY <1>1
<1>3. 1 \in 1..Len(q) /\ q[1] \in S
  BY <1>1
<1>4. In(Tail(q)) \subseteq In(q) /\ Head(q) \in In(q)
  BY <1>1, <1>2, <1>3 DEF In
<1>5. ASSUME InOrder(q) PROVE InOrder(Tail(q))
  <2> SUFFICES ASSUME NEW i \in 1..Len(Tail(q)), NEW j \in 1..Len(Tail(q)), i <= j
               PROVE  Tail(q)[i].piece[2] <= Tail(q)[j].piece[2]
    BY DEF InOrder
  <2>1. i + 1 \in 1..Len(q) /\ j + 1 \in 1..Len(q) /\ i + 1 <= j + 1
    BY <1>2
  <2> QED BY <2>1, <1>1, <1>5 DEF InOrder
<1>6. ASSUME InOrder(q), NEW f \in In(Tail(q)) PROVE Head(q).piece[2] <= f.piece[2]
  <2>1. PICK i \in 1..Len(Tail(q)) : f = Tail(q)[i]
    BY DEF In
  <2>2. i + 1 \in 1..Len(q) /\ 1 <= i + 1 /\ f = q[i + 1]
    BY <2>1, <1>1, <1>2
  <2> QED BY <2>2, <1>1, <1>3, <1>6 DEF InOrder
<1> QED BY <1>1, <1>3, <1>4, <1>5, <1>6

LEMMA FrameAdded ==
  ASSUME NEW S, NEW q \in Seq(S), NEW e \in S
  PROVE  Append(q, e) \in Seq(S)
OBVIOUS

LEMMA FrameAppend ==
  ASSUME NEW S, NEW q \in Seq(S), NEW e \in S
  PROVE  /\ Append(q, e) \in Seq(S) /\ In(Append(q, e)) = In(q) \cup {e}
         /\ Append(q, e) # <<>>
         /\ /\ InOrder(q) /\ e.piece[2] \in Nat
            /\ \A f \in In(q) : f.piece[2] <= e.piece[2]
            => InOrder(Append(q, e))
<1> DEFINE p == Append(q, e)
<1>1. /\ p \in Seq(S) /\ Len(q) \in Nat /\ Len(p) = Len(q) + 1 /\ p[Len(q) + 1] = e
      /\ \A i \in 1..Len(q) : p[i] = q[i]
  OBVIOUS
<1>2. 1..Len(p) = 1..Len(q) \cup {Len(q) + 1} /\ p # <<>>
  BY <1>1
<1>3. In(p) = In(q) \cup {e}
  BY <1>1, <1>2 DEF In
<1>4. ASSUME InOrder(q), e.piece[2] \in Nat, \A f \in In(q) : f.piece[2] <= e.piece[2]
      PROVE  InOrder(p)
  <2> HIDE DEF p
  <2> SUFFICES ASSUME NEW i \in 1..Len(p), NEW j \in 1..Len(p), i <= j
               PROVE  p[i].piece[2] <= p[j].piece[2]
    BY DEF InOrder
  <2>1. CASE i \in 1..Len(q) /\ j \in 1..Len(q)
    BY <2>1, <1>1, <1>4 DEF InOrder
  <2>2. CASE i \in 1..Len(q) /\ j = Len(q) + 1
    <3>1. q[i] \in In(q)
      BY <2>2 DEF In
    <3> QED BY <2>2, <3>1, <1>1, <1>4
  <2>3. CASE i = Len(q) + 1
    <3>1. j = Len(q) + 1
      BY <2>3, <1>1
    <3>2. p[i] = e /\ p[j] = e
      BY <2>3, <3>1, <1>1
    <3> QED BY <3>2, <1>4
  <2> QED BY <1>2, <2>1, <2>2, <2>3
<1> QED BY <1>1, <1>2, <1>3, <1>4

(* Among 256 messages in a row, a number is that of one.                   *)
LEMMA NumbersDiffer ==
  ASSUME Apart, NEW s \in Senders, NEW k \in 1..Len(Fragments[s]),
         NEW m \in 1..Len(Fragments[s]), WireId(k) = WireId(m)
  PROVE  k = m
<1>1. k \in 1..256 /\ m \in 1..256
  <2>1. Len(Fragments[s]) <= 256 /\ Len(Fragments[s]) \in Nat
    BY LoRaFramingAssumption DEF Apart
  <2> QED BY <2>1
<1> QED BY <1>1 DEF WireId

LEMMA FragmentsAre ==
  ASSUME NEW s \in Senders
  PROVE  /\ Len(Fragments[s]) \in Nat /\ s \in Nodes /\ Dest[s] \in Receivers
         /\ Dest[s] \in Nodes /\ s \notin Receivers /\ Dest[s] \notin Senders
         /\ \A k \in 1..Len(Fragments[s]) : k \in Nat /\ Fragments[s][k] \in Nat \ {0}
BY LoRaFramingAssumption DEF Nodes

(* Who hears a frame, and that it is for them.                             *)
LEMMA WhoHears ==
  ASSUME NEW f, NEW n, NEW after, Broadcast(f, n, after)
  PROVE  /\ DOMAIN heard' = Nodes
         /\ \A m \in Nodes : \/ heard'[m] = after[m]
                             \/ Wanted(f, m) /\ heard'[m] = Append(after[m], f)
BY DEF Broadcast

LEMMA TransferInit == FramingInit => TransferInv
<1> HAVE FramingInit
<1>1. \A s \in Senders : Fragments[s] # <<>> => /\ 1 \in 1..Len(Fragments[s])
                                                /\ 0 < Fragments[s][1]
  <2> SUFFICES ASSUME NEW s \in Senders, Fragments[s] # <<>>
               PROVE  1 \in 1..Len(Fragments[s]) /\ 0 < Fragments[s][1]
    OBVIOUS
  <2>1. Fragments[s] \in Seq(Nat \ {0})
    BY LoRaFramingAssumption
  <2>2. 1 \in 1..Len(Fragments[s]) /\ Fragments[s][1] \in Nat \ {0}
    BY <2>1
  <2> QED BY <2>2
<1>2. FramesTyped
  BY DEF FramingInit, FramesTyped, Nodes
<1>3. Told
  BY DEF FramingInit, Told
<1>4. ASSUME NEW s \in Senders PROVE Sending(s) /\ Acked(s)
  <2>1. heard[s] = <<>> /\ frag[s] = 0 /\ msg[s] = 1
    BY <1>4 DEF FramingInit, Nodes
  <2>2. In(heard[s]) = {} /\ 0..(frag[s] - 1) = {}
    BY <2>1 DEF In
  <2>3. Sending(s)
    BY <1>1, <1>4, <2>1 DEF FramingInit, Sending
  <2> QED BY <2>2, <2>3 DEF Acked
<1>5. ASSUME NEW r \in Receivers PROVE HeardInOrder(r) /\ OneAtHand(r)
  <2>1. heard[r] = <<>> /\ asm[r] = Fresh
    BY <1>5 DEF FramingInit, Nodes
  <2>2. In(heard[r]) = {} /\ InOrder(heard[r])
    BY <2>1 DEF In, InOrder
  <2> QED BY <2>1, <2>2 DEF HeardInOrder, OneAtHand
<1> QED BY <1>2, <1>3, <1>4, <1>5 DEF TransferInv

(* What a step of a sender other than a transmission does: it may take a   *)
(* frame from its own radio, it may go on to the next fragment if it knows *)
(* of this one, or to its next message.                                    *)
GoesOn(s) ==
  /\ UNCHANGED receiverVars
  /\ \/ heard' = heard
     \/ heard[s] # <<>> /\ heard' = [heard EXCEPT ![s] = Tail(@)]
  /\ \A t \in Senders \ {s} : UNCHANGED <<phase[t], msg[t], frag[t]>>
  /\ phase' \in [Senders -> {"send", "await", "idle"}]
  /\ msg' \in [Senders -> Nat] /\ frag' \in [Senders -> Nat]
  /\ tries' \in [Senders -> Nat]
  /\ msg'[s] \in {msg[s], msg[s] + 1} /\ Sending(s)'
  /\ \A i \in 0..(frag'[s] - 1) : msg'[s] = msg[s] /\ Got(s, msg[s], i)
  /\ \A m \in sent' \ sent : m = <<s, msg[s]>> /\ Done(s, msg[s])

LEMMA SenderGoesOn ==
  ASSUME TransferInv, NEW s \in Senders, GoesOn(s)
  PROVE  TransferInv'
<1>0. /\ DOMAIN heard' = Nodes
      /\ \A n \in Nodes \ {s} : heard'[n] = heard[n]
      /\ heard'[s] \in Seq(AckFrames) /\ In(heard'[s]) \subseteq In(heard[s])
  <2>1. heard[s] \in Seq(AckFrames) /\ s \in Nodes /\ DOMAIN heard = Nodes
    BY FragmentsAre DEF TransferInv, FramesTyped
  <2>2. CASE heard' = heard
    BY <2>1, <2>2
  <2>3. CASE heard[s] # <<>> /\ heard' = [heard EXCEPT ![s] = Tail(@)]
    <3>1. heard'[s] = Tail(heard[s])
      BY <2>1, <2>3
    <3> QED BY <2>1, <2>3, <3>1, FrameTail
  <2> QED BY <2>2, <2>3 DEF GoesOn
<1>1. asm' = asm /\ out' = out /\ cutShort' = cutShort
  BY DEF GoesOn, receiverVars
<1>2. \A t, k : Done(t, k)' = Done(t, k) /\ \A i : Got(t, k, i)' = Got(t, k, i)
  BY <1>1 DEF Done, Got
<1>3. \A t \in Senders : /\ msg[t] \in Nat /\ msg'[t] \in Nat /\ msg[t] <= msg'[t]
                         /\ t # s => msg'[t] = msg[t] /\ frag'[t] = frag[t]
  <2>1. \A t \in Senders : msg[t] \in Nat /\ msg'[t] \in Nat
    BY DEF TransferInv, FramesTyped, GoesOn
  <2> QED BY <2>1 DEF GoesOn
<1>4. FramesTyped'
  <2>1. \A t \in Senders : heard'[t] \in Seq(AckFrames)
    BY <1>0, FragmentsAre DEF TransferInv, FramesTyped
  <2>2. \A r \in Receivers : heard'[r] \in Seq(DataFrames)
    <3>1. \A r \in Receivers : r \in Nodes \ {s}
      BY FragmentsAre DEF Nodes
    <3> QED BY <1>0, <3>1 DEF TransferInv, FramesTyped
  <2>3. out' \in [Receivers -> Seq(Whole)] /\ DOMAIN asm' = Receivers
    BY <1>1 DEF TransferInv, FramesTyped
  <2> QED BY <1>0, <2>1, <2>2, <2>3 DEF FramesTyped, GoesOn
<1>5. Told'
  BY <1>2 DEF TransferInv, Told, GoesOn
<1>6. ASSUME NEW t \in Senders PROVE Sending(t)' /\ Acked(t)'
  <2>1. Sending(t)'
    BY <1>6 DEF GoesOn, TransferInv, Sending
  <2>2. In(heard'[t]) \subseteq In(heard[t])
    BY <1>0, <1>6, FragmentsAre
  <2>3. ASSUME NEW f \in In(heard'[t]) PROVE IsAck(f, t)'
    <3>1. PICK k \in 1..Len(Fragments[t]), i \in Nat :
            /\ k <= msg[t] /\ i < Fragments[t][k] /\ f = AckFrame(t, k, i)
            /\ k = msg[t] => Got(t, k, i)
      BY <2>2, <2>3, <1>6 DEF TransferInv, Acked, IsAck
    <3>2. k <= msg'[t] /\ (k = msg'[t] => k = msg[t])
      BY <1>3, <3>1, <1>6, FragmentsAre
    <3> QED BY <3>1, <3>2, <1>2 DEF IsAck
  <2>4. ASSUME NEW i \in 0..(frag'[t] - 1) PROVE Got(t, msg[t], i)'
    <3>1. msg'[t] = msg[t] /\ Got(t, msg[t], i)
      BY <2>4, <1>3, <1>6 DEF GoesOn, TransferInv, Acked
    <3> QED BY <3>1, <1>1 DEF Got, Done
  <2> QED BY <2>1, <2>3, <2>4 DEF Acked, In
<1>7. ASSUME NEW r \in Receivers PROVE HeardInOrder(r)' /\ OneAtHand(r)'
  <2>1. heard'[r] = heard[r] /\ asm'[r] = asm[r]
    BY <1>0, <1>1, <1>7, FragmentsAre DEF Nodes
  <2>2. \A t \in Senders : \A f : IsData(f, t) => IsData(f, t)'
    <3> SUFFICES ASSUME NEW t \in Senders, NEW f, IsData(f, t) PROVE IsData(f, t)'
      OBVIOUS
    <3>1. PICK k \in 1..Len(Fragments[t]), i \in Nat :
            k <= msg[t] /\ i < Fragments[t][k] /\ f = DataFrame(t, k, i)
      BY DEF IsData
    <3>2. k <= msg'[t]
      BY <3>1, <1>3, FragmentsAre
    <3> QED BY <3>1, <3>2 DEF IsData
  <2>3. HeardInOrder(r)'
    BY <2>1, <2>2, <1>7 DEF TransferInv, HeardInOrder
  <2>4. \A t \in Senders, k \in Nat : Collects(r, t, k) => Collects(r, t, k)'
    <3> SUFFICES ASSUME NEW t \in Senders, NEW k \in Nat, Collects(r, t, k)
                 PROVE  Collects(r, t, k)'
      OBVIOUS
    <3>1. k <= msg'[t]
      BY <1>3 DEF Collects
    <3> QED BY <3>1, <2>1 DEF Collects
  <2> QED BY <2>1, <2>3, <2>4, <1>7 DEF TransferInv, OneAtHand
<1> QED BY <1>4, <1>5, <1>6, <1>7 DEF TransferInv

LEMMA ReturnGoesOn ==
  ASSUME TransferInv, NEW s \in Senders, phase[s] # "idle", NEW d \in BOOLEAN,
         Return(s, d), d => Done(s, msg[s]), UNCHANGED receiverVars,
         \/ heard' = heard
         \/ heard[s] # <<>> /\ heard' = [heard EXCEPT ![s] = Tail(@)]
  PROVE  GoesOn(s)
<1>1. /\ phase \in [Senders -> {"send", "await", "idle"}] /\ msg \in [Senders -> Nat]
      /\ frag \in [Senders -> Nat] /\ tries \in [Senders -> Nat]
      /\ msg[s] \in 1..Len(Fragments[s])
  BY DEF TransferInv, FramesTyped, Sending
<1>2. frag' = [frag EXCEPT ![s] = 0] /\ tries' = [tries EXCEPT ![s] = 0]
  BY DEF Return
<1>3. frag'[s] = 0 /\ 0..(frag'[s] - 1) = {}
  BY <1>1, <1>2
<1>4. \A m \in sent' \ sent : m = <<s, msg[s]>> /\ Done(s, msg[s])
  BY DEF Return
<1>5. CASE /\ msg[s] < Len(Fragments[s]) /\ msg' = [msg EXCEPT ![s] = @ + 1]
           /\ phase' = [phase EXCEPT ![s] = "send"]
  <2>1. msg[s] + 1 \in 1..Len(Fragments[s]) /\ 0 < Fragments[s][msg[s] + 1]
    <3>1. msg[s] + 1 \in 1..Len(Fragments[s])
      BY <1>1, <1>5, FragmentsAre
    <3> QED BY <3>1, FragmentsAre
  <2>2. msg'[s] = msg[s] + 1 /\ phase'[s] = "send"
    BY <1>1, <1>5
  <2>3. Sending(s)'
    BY <1>3, <2>1, <2>2 DEF Sending
  <2> QED BY <1>1, <1>2, <1>3, <1>4, <1>5, <2>2, <2>3 DEF GoesOn
<1>6. CASE phase' = [phase EXCEPT ![s] = "idle"] /\ UNCHANGED msg
  <2>1. Sending(s)'
    BY <1>1, <1>3, <1>6 DEF Sending
  <2> QED BY <1>1, <1>2, <1>3, <1>4, <1>6, <2>1 DEF GoesOn
<1> QED BY <1>5, <1>6 DEF Return

(* Who has every fragment acknowledged has had the message returned, or a  *)
(* deadline cut it short: a Reassembler does not hold all of one.          *)
LEMMA AllGotIsDone ==
  ASSUME Apart, TransferInv, NEW s \in Senders, NEW k \in 1..Len(Fragments[s]),
         \A i \in 0..(Fragments[s][k] - 1) : Got(s, k, i)
  PROVE  Done(s, k)
<1> SUFFICES ASSUME ~Done(s, k) PROVE FALSE
  OBVIOUS
<1> DEFINE r == Dest[s]
           n == Fragments[s][k]
<1>1. n \in Nat \ {0} /\ 0 \in 0..(n - 1) /\ r \in Receivers
  BY FragmentsAre
<1>2. \A i \in 0..(n - 1) : asm[r].id = WireId(k) /\ i \in DOMAIN asm[r].parts
  BY DEF Got
<1>3. asm[r] # Fresh
  BY <1>1, <1>2 DEF Fresh
<1>4. PICK t \in Senders, m \in Nat : Collects(r, t, m)
  BY <1>1, <1>3 DEF TransferInv, OneAtHand
<1>5. t = s
  BY <1>4 DEF Collects, Apart
<1>6. m = k
  BY <1>1, <1>2, <1>4, <1>5, NumbersDiffer DEF Collects
<1>7. DOMAIN asm[r].parts = 0..(n - 1) /\ ~Complete(asm[r]) /\ asm[r].of = n
  BY <1>2, <1>4, <1>5, <1>6 DEF Collects
<1>8. Cardinality(0..(n - 1)) = n
  <2>1. 0 \in Int /\ n - 1 \in Int
    BY <1>1
  <2>2. Cardinality(0..(n - 1)) = IF 0 > n - 1 THEN 0 ELSE (n - 1) - 0 + 1
    BY <2>1, FS_Interval
  <2> QED BY <1>1, <2>2
<1> QED BY <1>1, <1>7, <1>8 DEF Complete

LEMMA TransferPollAck ==
  ASSUME Apart, TransferInv, NEW s \in Senders, PollAck(s)
  PROVE  TransferInv'
<1> SUFFICES GoesOn(s)
  BY SenderGoesOn
<1>1. /\ phase \in [Senders -> {"send", "await", "idle"}] /\ msg \in [Senders -> Nat]
      /\ frag \in [Senders -> Nat] /\ tries \in [Senders -> Nat]
      /\ msg[s] \in 1..Len(Fragments[s]) /\ frag[s] < Fragments[s][msg[s]]
      /\ Fragments[s][msg[s]] \in Nat
  BY FragmentsAre DEF TransferInv, FramesTyped, Sending, PollAck
<1>2. /\ heard[s] # <<>> /\ heard' = [heard EXCEPT ![s] = Tail(@)]
      /\ UNCHANGED receiverVars /\ phase[s] = "await"
  BY DEF PollAck
<1>3. CASE UNCHANGED senderVars
  <2>1. UNCHANGED <<phase, msg, frag, tries, sent>>
    BY <1>3 DEF senderVars
  <2> QED BY <1>1, <1>2, <2>1 DEF GoesOn, TransferInv, Acked, Sending
<1>4. CASE Matches(Head(heard[s]), s) /\ NextFragment(s)
  <2>1. IsAck(Head(heard[s]), s)
    <3>1. heard[s] \in Seq(AckFrames)
      BY DEF TransferInv, FramesTyped
    <3>2. Head(heard[s]) \in In(heard[s])
      BY <1>2, <3>1, FrameTail
    <3> QED BY <3>2 DEF TransferInv, Acked
  <2>2. PICK k \in 1..Len(Fragments[s]), i \in Nat :
          Head(heard[s]) = AckFrame(s, k, i) /\ (k = msg[s] => Got(s, k, i))
    BY <2>1 DEF IsAck
  <2>3. WireId(k) = WireId(msg[s]) /\ i = frag[s]
    BY <1>4, <2>2 DEF Matches, AckFrame
  <2>4. Got(s, msg[s], frag[s])
    BY <1>1, <2>2, <2>3, NumbersDiffer
  <2>5. ASSUME NEW j \in 0..frag[s] PROVE Got(s, msg[s], j)
    <3>1. j = frag[s] \/ j \in 0..(frag[s] - 1)
      BY <1>1
    <3> QED BY <2>4, <3>1 DEF TransferInv, Acked
  <2>6. CASE More(s)
    <3>1. /\ frag' = [frag EXCEPT ![s] = @ + 1] /\ tries' = [tries EXCEPT ![s] = 0]
          /\ phase' = [phase EXCEPT ![s] = "send"] /\ UNCHANGED <<msg, sent>>
      BY <1>4, <2>6 DEF NextFragment
    <3>2. frag'[s] = frag[s] + 1 /\ 0..(frag'[s] - 1) = 0..frag[s]
      BY <1>1, <3>1
    <3>3. Sending(s)'
      BY <1>1, <2>6, <3>1, <3>2 DEF Sending, More
    <3> QED BY <1>1, <1>2, <2>5, <3>1, <3>2, <3>3 DEF GoesOn
  <2>7. CASE ~More(s)
    <3>1. Fragments[s][msg[s]] - 1 = frag[s]
      <4>1. PICK n \in Nat, j \in Nat : n = Fragments[s][msg[s]] /\ j = frag[s]
        BY <1>1
      <4>2. j < n /\ ~(j + 1 < n)
        BY <1>1, <2>7, <4>1 DEF More
      <4>3. n - 1 = j
        BY <4>2
      <4> QED BY <4>1, <4>3
    <3>2. Done(s, msg[s])
      BY <1>1, <2>5, <3>1, AllGotIsDone
    <3> QED BY <1>2, <1>4, <2>7, <3>2, ReturnGoesOn DEF NextFragment
  <2> QED BY <2>6, <2>7
<1> QED BY <1>3, <1>4 DEF PollAck

LEMMA TransferAckTimeout ==
  ASSUME TransferInv, NEW s \in Senders, AckTimeout(s)
  PROVE  TransferInv'
<1> SUFFICES GoesOn(s)
  BY SenderGoesOn
<1>1. UNCHANGED receiverVars /\ heard' = heard /\ phase[s] = "await"
  BY DEF AckTimeout
<1>2. CASE Return(s, FALSE)
  BY <1>1, <1>2, ReturnGoesOn
<1>3. CASE /\ tries' = [tries EXCEPT ![s] = Failed(@)]
           /\ phase' = [phase EXCEPT ![s] = "send"] /\ UNCHANGED <<msg, frag, sent>>
  <2>1. /\ phase \in [Senders -> {"send", "await", "idle"}] /\ msg \in [Senders -> Nat]
        /\ frag \in [Senders -> Nat] /\ tries \in [Senders -> Nat]
    BY DEF TransferInv, FramesTyped
  <2>2. Sending(s)'
    BY <1>1, <1>3, <2>1 DEF TransferInv, Sending
  <2> QED BY <1>1, <1>3, <2>1, <2>2 DEF GoesOn, TransferInv, Acked, Failed
<1> QED BY <1>2, <1>3 DEF AckTimeout

(* A step of a receiver leaves the senders alone: it keeps the invariant if*)
(* it takes back nothing they know of and acknowledges what it has.        *)
LEMMA ReceiverGoesOn ==
  ASSUME TransferInv, UNCHANGED senderVars, FramesTyped',
         \A t \in Senders : \A k : Done(t, k) => Done(t, k)',
         \A t \in Senders, i \in Nat :
           msg[t] \in 1..Len(Fragments[t]) /\ Got(t, msg[t], i) => Got(t, msg[t], i)',
         \A t \in Senders : \A f \in In(heard'[t]) : f \in In(heard[t]) \/ IsAck(f, t)',
         \A r \in Receivers : HeardInOrder(r)' /\ OneAtHand(r)'
  PROVE  TransferInv'
<1>1. UNCHANGED <<phase, msg, frag, tries, sent>>
  BY DEF senderVars
<1>2. Told'
  BY <1>1 DEF TransferInv, Told
<1>3. ASSUME NEW t \in Senders PROVE Sending(t)' /\ Acked(t)'
  <2>1. Sending(t)'
    BY <1>1, <1>3 DEF TransferInv, Sending
  <2>2. ASSUME NEW f \in In(heard'[t]) PROVE IsAck(f, t)'
    <3>1. CASE f \in In(heard[t])
      <4>1. PICK k \in 1..Len(Fragments[t]), i \in Nat :
              /\ k <= msg[t] /\ i < Fragments[t][k] /\ f = AckFrame(t, k, i)
              /\ k = msg[t] => Got(t, k, i)
        BY <3>1, <1>3 DEF TransferInv, Acked, IsAck
      <4>2. k = msg'[t] => Got(t, k, i)'
        BY <4>1, <1>1, <1>3
      <4> QED BY <4>1, <4>2, <1>1 DEF IsAck
    <3> QED BY <3>1, <2>2, <1>3
  <2>3. ASSUME NEW i \in 0..(frag[t] - 1) PROVE Got(t, msg[t], i)'
    <3>1. frag[t] \in Nat /\ i \in Nat /\ frag[t] # 0 /\ Got(t, msg[t], i)
      BY <2>3, <1>3 DEF TransferInv, FramesTyped, Acked
    <3>2. msg[t] \in 1..Len(Fragments[t])
      BY <3>1, <1>3 DEF TransferInv, Sending
    <3> QED BY <3>1, <3>2, <1>3
  <2> QED BY <1>1, <2>1, <2>2, <2>3 DEF Acked, In
<1> QED BY <1>2, <1>3 DEF TransferInv

(* Some of one message is in hand, and it is the only one it can be.       *)
LEMMA HandHolds ==
  ASSUME Apart, TransferInv, NEW s \in Senders, NEW k \in 1..Len(Fragments[s]),
         asm[Dest[s]].id = WireId(k), DOMAIN asm[Dest[s]].parts # {}
  PROVE  Collects(Dest[s], s, k)
<1>1. Dest[s] \in Receivers /\ asm[Dest[s]] # Fresh
  BY FragmentsAre DEF Fresh
<1>2. PICK t \in Senders, m \in Nat : Collects(Dest[s], t, m)
  BY <1>1 DEF TransferInv, OneAtHand
<1>3. t = s
  BY <1>2 DEF Collects, Apart
<1>4. m = k
  BY <1>2, <1>3, NumbersDiffer DEF Collects
<1> QED BY <1>2, <1>3, <1>4

LEMMA TransferRecvTimeout ==
  ASSUME Apart, TransferInv, NEW r \in Receivers, RecvTimeout(r)
  PROVE  TransferInv'
<1>1. /\ asm' = [asm EXCEPT ![r] = Fresh] /\ cutShort' = cutShort \cup Range(asm[r].parts)
      /\ UNCHANGED <<out, senderVars, heard>> /\ DOMAIN asm = Receivers
  BY DEF RecvTimeout, TransferInv, FramesTyped
<1>2. FramesTyped'
  BY <1>1 DEF TransferInv, FramesTyped, senderVars
<1>3. \A t \in Senders : \A k : Done(t, k) => Done(t, k)'
  BY <1>1 DEF Done
<1>4. ASSUME NEW t \in Senders, NEW i \in Nat, msg[t] \in 1..Len(Fragments[t]),
             Got(t, msg[t], i)
      PROVE  Got(t, msg[t], i)'
  <2>1. CASE Done(t, msg[t])
    <3>1. Done(t, msg[t])'
      BY <1>1, <2>1 DEF Done, senderVars
    <3> QED BY <3>1 DEF Got
  <2>2. CASE asm[Dest[t]].id = WireId(msg[t]) /\ i \in DOMAIN asm[Dest[t]].parts
    <3>1. Collects(Dest[t], t, msg[t])
      BY <1>4, <2>2, HandHolds
    <3>2. CASE Dest[t] = r
      <4>1. <<t, msg[t]>> \in Range(asm[r].parts)
        BY <2>2, <3>1, <3>2 DEF Collects, Range
      <4> QED BY <4>1, <1>1 DEF Got, Done, senderVars
    <3>3. CASE Dest[t] # r
      <4>1. asm'[Dest[t]] = asm[Dest[t]]
        BY <1>1, <3>3
      <4> QED BY <4>1, <2>2, <1>1 DEF Got, senderVars
    <3> QED BY <3>2, <3>3
  <2> QED BY <1>4, <2>1, <2>2 DEF Got
<1>5. ASSUME NEW q \in Receivers PROVE HeardInOrder(q)' /\ OneAtHand(q)'
  <2>1. HeardInOrder(q)'
    <3>1. HeardInOrder(q)
      BY <1>5 DEF TransferInv
    <3>2. heard' = heard /\ msg' = msg
      BY <1>1 DEF senderVars
    <3>3. \A f, t : IsData(f, t)' <=> IsData(f, t)
      BY <3>2 DEF IsData
    <3> QED BY <3>1, <3>2, <3>3 DEF HeardInOrder
  <2>2. CASE q = r
    BY <1>1, <2>1, <2>2 DEF OneAtHand
  <2>3. CASE q # r
    <3>1. asm'[q] = asm[q]
      BY <1>1, <2>3
    <3>2. \A t \in Senders, k \in Nat : Collects(q, t, k) => Collects(q, t, k)'
      BY <3>1, <1>1 DEF Collects, senderVars
    <3> QED BY <1>5, <2>1, <3>1, <3>2 DEF TransferInv, OneAtHand
  <2> QED BY <2>2, <2>3
<1>6. UNCHANGED senderVars /\ heard' = heard
  BY <1>1
<1> QED BY <1>2, <1>3, <1>4, <1>5, <1>6, ReceiverGoesOn

LEMMA TransferTransmit ==
  ASSUME Apart, TransferInv, NEW s \in Senders, Transmit(s)
  PROVE  TransferInv'
<1>0. PICK d : d = DataFrame(s, msg[s], frag[s])
  OBVIOUS
<1>1. /\ phase' = [phase EXCEPT ![s] = "await"] /\ phase[s] = "send"
      /\ UNCHANGED <<msg, frag, tries, sent>> /\ UNCHANGED <<asm, out, cutShort>>
      /\ Broadcast(d, s, heard)
  BY <1>0 DEF Transmit, receiverVars, Data, DataFrame
<1>2. /\ phase \in [Senders -> {"send", "await", "idle"}] /\ msg \in [Senders -> Nat]
      /\ frag \in [Senders -> Nat] /\ tries \in [Senders -> Nat]
      /\ msg[s] \in 1..Len(Fragments[s]) /\ frag[s] < Fragments[s][msg[s]]
  BY <1>1 DEF TransferInv, FramesTyped, Sending
<1>3. d \in DataFrames /\ d.piece[2] = msg[s] /\ d.dst = Dest[s] /\ d.kind = "data"
  <2>1. msg[s] \in Nat /\ frag[s] \in Nat
    BY <1>2
  <2>2. d \in DataFrames
    BY <1>0, <2>1 DEF DataFrames
  <2> QED BY <1>0, <2>2 DEF DataFrame
<1>4. IsData(d, s)
  <2>1. msg[s] \in Nat /\ frag[s] \in Nat /\ msg[s] <= msg[s]
    BY <1>2
  <2> QED BY <1>0, <1>2, <2>1 DEF IsData
<1>5. /\ DOMAIN heard' = Nodes /\ \A t \in Senders : heard'[t] = heard[t]
      /\ \A r \in Receivers : \/ heard'[r] = heard[r]
                              \/ r = Dest[s] /\ heard'[r] = Append(heard[r], d)
  <2>1. \A m \in Nodes : \/ heard'[m] = heard[m]
                         \/ Wanted(d, m) /\ heard'[m] = Append(heard[m], d)
    BY <1>1, WhoHears
  <2>2. DOMAIN heard' = Nodes
    BY <1>1, WhoHears
  <2>3. \A m \in Nodes : Wanted(d, m) => m = Dest[s] /\ m \notin Senders
    BY <1>3 DEF Wanted, ForMe
  <2> QED BY <2>1, <2>2, <2>3 DEF Nodes
<1>6. FramesTyped'
  <2>1. ASSUME NEW r \in Receivers PROVE heard'[r] \in Seq(DataFrames)
    <3>1. heard[r] \in Seq(DataFrames)
      BY <2>1 DEF TransferInv, FramesTyped
    <3>2. Append(heard[r], d) \in Seq(DataFrames)
      BY <1>3, <3>1, FrameAdded
    <3>3. heard'[r] = heard[r] \/ heard'[r] = Append(heard[r], d)
      BY <1>5, <2>1
    <3> QED BY <3>1, <3>2, <3>3
  <2>2. \A t \in Senders : heard'[t] \in Seq(AckFrames)
    BY <1>5 DEF TransferInv, FramesTyped
  <2>3. phase' \in [Senders -> {"send", "await", "idle"}]
    BY <1>1, <1>2
  <2> QED BY <1>1, <1>2, <1>5, <2>1, <2>2, <2>3 DEF TransferInv, FramesTyped
<1>7. Told'
  BY <1>1 DEF TransferInv, Told, Done
<1>8. ASSUME NEW t \in Senders PROVE Sending(t)' /\ Acked(t)'
  <2>1. Sending(t)'
    BY <1>1, <1>2, <1>8 DEF TransferInv, Sending
  <2>2. heard'[t] = heard[t] /\ Acked(t)
    BY <1>5, <1>8 DEF TransferInv
  <2>3. \A k, i : Got(t, k, i) => Got(t, k, i)'
    BY <1>1 DEF Got, Done
  <2>4. ASSUME NEW f \in In(heard[t]) PROVE IsAck(f, t)'
    <3>1. PICK k \in 1..Len(Fragments[t]), i \in Nat :
            /\ k <= msg[t] /\ i < Fragments[t][k] /\ f = AckFrame(t, k, i)
            /\ k = msg[t] => Got(t, k, i)
      BY <2>2, <2>4 DEF Acked, IsAck
    <3>2. k = msg'[t] => Got(t, k, i)'
      BY <1>1, <2>3, <3>1
    <3> QED BY <1>1, <3>1, <3>2 DEF IsAck
  <2>5. \A i \in 0..(frag'[t] - 1) : Got(t, msg[t], i)'
    BY <1>1, <2>2, <2>3 DEF Acked
  <2> QED BY <1>1, <2>1, <2>2, <2>4, <2>5 DEF Acked, In
<1>9. ASSUME NEW r \in Receivers PROVE HeardInOrder(r)' /\ OneAtHand(r)'
  <2>0. \A t \in Senders : \A f : IsData(f, t) => IsData(f, t)'
    BY <1>1 DEF IsData
  <2>1. CASE heard'[r] = heard[r]
    <3>1. HeardInOrder(r)'
      BY <1>9, <2>0, <2>1 DEF TransferInv, HeardInOrder, In, InOrder
    <3>2. \A t \in Senders, k \in Nat : Collects(r, t, k) => Collects(r, t, k)'
      BY <1>1, <2>1 DEF Collects, In
    <3> QED BY <1>1, <1>9, <3>1, <3>2 DEF TransferInv, OneAtHand
  <2>2. CASE r = Dest[s] /\ heard'[r] = Append(heard[r], d)
    <3>1. heard[r] \in Seq(DataFrames) /\ InOrder(heard[r]) /\ msg[s] \in Nat
      BY <1>2, <1>9 DEF TransferInv, FramesTyped, HeardInOrder
    <3>2. ASSUME NEW f \in In(heard[r]) PROVE IsData(f, s) /\ f.piece[2] <= msg[s]
      <4>1. IsData(f, s)
        BY <1>9, <2>2, <3>2 DEF TransferInv, HeardInOrder
      <4>2. PICK k \in 1..Len(Fragments[s]), i \in Nat : /\ k <= msg[s]
                                                         /\ f = DataFrame(s, k, i)
        BY <4>1 DEF IsData
      <4> QED BY <4>1, <4>2 DEF DataFrame
    <3>3. In(heard'[r]) = In(heard[r]) \cup {d} /\ InOrder(heard'[r]) /\ heard'[r] # <<>>
      BY <1>3, <2>2, <3>1, <3>2, FrameAppend
    <3>4. \A t \in Senders : Dest[t] = r => t = s
      BY <2>2 DEF Apart
    <3>5. \A f \in In(heard'[r]) : IsData(f, s)'
      BY <1>4, <2>0, <3>2, <3>3
    <3>6. HeardInOrder(r)'
      BY <2>2, <3>3, <3>4, <3>5 DEF HeardInOrder, In, InOrder
    <3>7. ASSUME NEW t \in Senders, NEW k \in Nat, Collects(r, t, k) PROVE Collects(r, t, k)'
      <4>1. t = s /\ k <= msg[s]
        BY <3>4, <3>7 DEF Collects
      <4>2. \A f \in In(heard'[r]) : k <= f.piece[2]
        BY <1>3, <3>3, <3>7, <4>1 DEF Collects
      <4> QED BY <1>1, <3>7, <4>2 DEF Collects, In
    <3> QED BY <1>1, <1>9, <3>6, <3>7 DEF TransferInv, OneAtHand
  <2> QED BY <1>5, <1>9, <2>1, <2>2
<1> QED BY <1>6, <1>7, <1>8, <1>9 DEF TransferInv

(* Putting together what is complete gives the message its pieces are of.  *)
LEMMA CompleteIsWhole ==
  ASSUME NEW a, NEW n \in Nat \ {0}, NEW x, a.of = n, Complete(a),
         DOMAIN a.parts \subseteq 0..(n - 1), \A j \in DOMAIN a.parts : a.parts[j] = x
  PROVE  Joined(a) = {x}
<1>1. Cardinality(0..(n - 1)) = n /\ IsFiniteSet(0..(n - 1))
  <2>1. 0 \in Int /\ n - 1 \in Int
    OBVIOUS
  <2>2. /\ IsFiniteSet(0..(n - 1))
        /\ Cardinality(0..(n - 1)) = IF 0 > n - 1 THEN 0 ELSE (n - 1) - 0 + 1
    BY <2>1, FS_Interval
  <2> QED BY <2>2
<1>2. IsFiniteSet(DOMAIN a.parts) /\ Cardinality(DOMAIN a.parts) \in Nat
  BY <1>1, FS_Subset, FS_CardinalityType
<1>3. DOMAIN a.parts = 0..(n - 1)
  <2>1. /\ Cardinality(DOMAIN a.parts) <= n
        /\ Cardinality(DOMAIN a.parts) = n => DOMAIN a.parts = 0..(n - 1)
    BY <1>1, FS_Subset
  <2> QED BY <1>2, <2>1 DEF Complete
<1>4. 0 \in 0..(n - 1)
  OBVIOUS
<1> QED BY <1>3, <1>4 DEF Joined

(* One fragment taken: what the Reassembler holds then.                    *)
LEMMA AddIs ==
  ASSUME Apart, TransferInv, NEW s \in Senders, NEW k \in 1..Len(Fragments[s]),
         NEW i \in Nat, i < Fragments[s][k]
  PROVE  LET a == Add(asm[Dest[s]], DataFrame(s, k, i))
             held == asm[Dest[s]]
         IN  /\ a.id = WireId(k) /\ a.of = Fragments[s][k] /\ i \in DOMAIN a.parts
             /\ DOMAIN a.parts \subseteq 0..(Fragments[s][k] - 1)
             /\ \A j \in DOMAIN a.parts : a.parts[j] = <<s, k>>
             /\ held.id = WireId(k) => DOMAIN held.parts \subseteq DOMAIN a.parts
<1>1. PICK f : f = DataFrame(s, k, i)
  OBVIOUS
<1>2. f.id = WireId(k) /\ f.of = Fragments[s][k] /\ f.idx = i /\ f.piece = <<s, k>>
  BY <1>1 DEF DataFrame
<1>3. PICK old : old = IF Supersedes(asm[Dest[s]], f) THEN <<>> ELSE asm[Dest[s]].parts
  OBVIOUS
<1>4. DOMAIN old \subseteq 0..(Fragments[s][k] - 1) /\ \A j \in DOMAIN old : old[j] = <<s, k>>
  <2>1. CASE DOMAIN old = {}
    BY <2>1
  <2>2. CASE DOMAIN old # {}
    <3>1. old = asm[Dest[s]].parts /\ asm[Dest[s]].id = WireId(k)
      BY <1>2, <1>3, <2>2 DEF Supersedes
    <3>2. Collects(Dest[s], s, k)
      BY <2>2, <3>1, HandHolds
    <3> QED BY <3>1, <3>2 DEF Collects
  <2> QED BY <2>1, <2>2
<1>5. Add(asm[Dest[s]], f) =
        [id |-> WireId(k), of |-> Fragments[s][k],
         parts |-> [j \in DOMAIN old \cup {i} |-> IF j = i THEN <<s, k>> ELSE old[j]]]
  BY <1>2, <1>3 DEF Add
<1>6. i \in 0..(Fragments[s][k] - 1)
  BY FragmentsAre
<1>7. asm[Dest[s]].id = WireId(k) => DOMAIN asm[Dest[s]].parts = DOMAIN old
  BY <1>2, <1>3 DEF Supersedes
<1> QED BY <1>1, <1>4, <1>5, <1>6, <1>7

LEMMA TransferReceive ==
  ASSUME Apart, TransferInv, NEW r \in Receivers, Receive(r)
  PROVE  TransferInv'
<1>1. PICK f : f = Head(heard[r])
  OBVIOUS
<1>2. PICK a : a = Add(asm[r], f)
  OBVIOUS
<1>3. /\ heard[r] # <<>> /\ Broadcast(Ack(f, r), r, [heard EXCEPT ![r] = Tail(@)])
      /\ UNCHANGED <<cutShort, senderVars>>
      /\ \/ /\ Complete(a) /\ out' = [out EXCEPT ![r] = Append(@, Joined(a))]
            /\ asm' = [asm EXCEPT ![r] = Fresh]
         \/ ~Complete(a) /\ asm' = [asm EXCEPT ![r] = a] /\ out' = out
  BY <1>1, <1>2 DEF Receive, Afresh
<1>4. UNCHANGED <<phase, msg, frag, tries, sent>>
  BY <1>3 DEF senderVars
<1>5. /\ heard[r] \in Seq(DataFrames) /\ out \in [Receivers -> Seq(Whole)]
      /\ DOMAIN asm = Receivers /\ DOMAIN heard = Nodes /\ HeardInOrder(r) /\ r \in Nodes
  BY DEF TransferInv, FramesTyped, Nodes
<1>6. /\ Tail(heard[r]) \in Seq(DataFrames) /\ f \in In(heard[r])
      /\ In(Tail(heard[r])) \subseteq In(heard[r]) /\ InOrder(Tail(heard[r]))
      /\ \A g \in In(Tail(heard[r])) : f.piece[2] <= g.piece[2]
  BY <1>1, <1>3, <1>5, FrameTail DEF HeardInOrder
<1>7. PICK s \in Senders : Dest[s] = r /\ IsData(f, s)
  BY <1>3, <1>5, <1>6 DEF HeardInOrder
<1>8. PICK k \in 1..Len(Fragments[s]), i \in Nat :
        k <= msg[s] /\ i < Fragments[s][k] /\ f = DataFrame(s, k, i)
  BY <1>7 DEF IsData
<1>9. /\ a.id = WireId(k) /\ a.of = Fragments[s][k] /\ i \in DOMAIN a.parts
      /\ DOMAIN a.parts \subseteq 0..(Fragments[s][k] - 1)
      /\ \A j \in DOMAIN a.parts : a.parts[j] = <<s, k>>
      /\ asm[r].id = WireId(k) => DOMAIN asm[r].parts \subseteq DOMAIN a.parts
  BY <1>2, <1>7, <1>8, AddIs
<1>10. PICK n \in Nat \ {0} : n = Fragments[s][k]
  BY FragmentsAre
<1>11. Complete(a) => Joined(a) = {<<s, k>>}
  BY <1>9, <1>10, CompleteIsWhole
<1>12. \A t \in Senders : Dest[t] = r => t = s
  BY <1>7 DEF Apart
<1>13. /\ DOMAIN heard' = Nodes /\ heard'[r] = Tail(heard[r])
       /\ \A q \in Receivers \ {r} : heard'[q] = heard[q]
       /\ \A t \in Senders : \/ heard'[t] = heard[t]
                             \/ t = s /\ heard'[t] = Append(heard[t], AckFrame(s, k, i))
  <2>1. PICK e : e = AckFrame(s, k, i)
    OBVIOUS
  <2>2. Ack(f, r) = e /\ e.dst = s
    BY <1>7, <1>8, <2>1 DEF Ack, AckFrame, DataFrame
  <2>3. PICK rest : rest = [heard EXCEPT ![r] = Tail(@)]
    OBVIOUS
  <2>4. DOMAIN heard' = Nodes
    BY <1>3, <2>2, <2>3, WhoHears
  <2>5. \A m \in Nodes : \/ heard'[m] = rest[m]
                         \/ Wanted(e, m) /\ heard'[m] = Append(rest[m], e)
    BY <1>3, <2>2, <2>3, WhoHears
  <2>6. \A m \in Nodes : Wanted(e, m) => m = s /\ m \notin Receivers
    BY <2>2, FragmentsAre DEF Wanted, ForMe
  <2>7. rest[r] = Tail(heard[r]) /\ \A m \in Nodes \ {r} : rest[m] = heard[m]
    BY <1>5, <2>3
  <2>8. \A t \in Senders : t \in Nodes \ {r}
    BY FragmentsAre
  <2> QED BY <1>5, <2>1, <2>4, <2>5, <2>6, <2>7, <2>8 DEF Nodes
<1>14. \A t \in Senders : \A m : Done(t, m) => Done(t, m)'
  <2> SUFFICES ASSUME NEW t \in Senders, NEW m, Done(t, m) PROVE Done(t, m)'
    OBVIOUS
  <2>1. CASE <<t, m>> \in cutShort
    BY <1>3, <2>1 DEF Done
  <2>2. CASE \E j \in DOMAIN out[Dest[t]] : out[Dest[t]][j] = {<<t, m>>}
    <3>1. PICK j \in DOMAIN out[Dest[t]] : out[Dest[t]][j] = {<<t, m>>}
      BY <2>2
    <3>2. CASE out'[Dest[t]] = out[Dest[t]]
      BY <3>1, <3>2 DEF Done
    <3>3. CASE Dest[t] = r /\ out'[r] = Append(out[r], Joined(a))
      <4>1. out[r] \in Seq(Whole)
        BY <1>5
      <4>2. j \in DOMAIN out'[r] /\ out'[r][j] = out[r][j]
        BY <3>1, <3>3, <4>1
      <4> QED BY <3>1, <3>3, <4>2 DEF Done
    <3> QED BY <1>3, <1>5, <3>2, <3>3, FragmentsAre
  <2> QED BY <2>1, <2>2 DEF Done
<1>15. Complete(a) => Done(s, k)'
  <2> SUFFICES ASSUME Complete(a) PROVE Done(s, k)'
    OBVIOUS
  <2>1. out[r] \in Seq(Whole) /\ out'[r] = Append(out[r], {<<s, k>>})
    BY <1>3, <1>5, <1>11
  <2>2. Len(out[r]) + 1 \in DOMAIN out'[r] /\ out'[r][Len(out[r]) + 1] = {<<s, k>>}
    BY <2>1
  <2> QED BY <1>7, <2>2 DEF Done
<1>16. \A j \in DOMAIN a.parts : Got(s, k, j)'
  <2>1. CASE Complete(a)
    BY <1>15, <2>1 DEF Got
  <2>2. CASE ~Complete(a)
    <3>1. asm'[r] = a
      BY <1>3, <1>5, <2>2
    <3> QED BY <1>7, <1>9, <3>1 DEF Got
  <2> QED BY <2>1, <2>2
<1>17. ASSUME NEW t \in Senders, NEW j \in Nat, msg[t] \in 1..Len(Fragments[t]),
              Got(t, msg[t], j)
       PROVE  Got(t, msg[t], j)'
  <2>1. CASE Done(t, msg[t])
    <3>1. Done(t, msg[t])'
      BY <1>4, <1>14, <2>1 DEF Done
    <3> QED BY <3>1 DEF Got
  <2>2. CASE asm[Dest[t]].id = WireId(msg[t]) /\ j \in DOMAIN asm[Dest[t]].parts
    <3>1. CASE Dest[t] = r
      <4>1. t = s /\ Collects(r, s, msg[s])
        BY <1>12, <1>17, <2>2, <3>1, HandHolds
      <4>2. msg[s] <= f.piece[2] /\ f.piece[2] = k
        BY <1>6, <1>8, <4>1 DEF Collects, DataFrame
      <4>3. msg[s] = k
        BY <1>8, <1>17, <4>1, <4>2, FragmentsAre
      <4>4. Got(s, k, j)'
        BY <1>9, <1>16, <2>2, <3>1, <4>1, <4>3
      <4> QED BY <1>4, <4>1, <4>3, <4>4 DEF Got, Done
    <3>2. CASE Dest[t] # r
      <4>1. asm'[Dest[t]] = asm[Dest[t]]
        BY <1>3, <1>5, <3>2, FragmentsAre
      <4> QED BY <1>4, <2>2, <4>1 DEF Got
    <3> QED BY <3>1, <3>2
  <2> QED BY <1>17, <2>1, <2>2 DEF Got
<1>18. AckFrame(s, k, i) \in AckFrames
  <2>1. k \in Nat
    BY FragmentsAre
  <2> QED BY <2>1 DEF AckFrames
<1>19. ASSUME NEW t \in Senders, NEW g \in In(heard'[t])
       PROVE  g \in In(heard[t]) \/ IsAck(g, t)'
  <2>1. CASE heard'[t] = heard[t]
    BY <2>1, <1>19
  <2>2. CASE t = s /\ heard'[t] = Append(heard[t], AckFrame(s, k, i))
    <3>1. heard[s] \in Seq(AckFrames)
      BY DEF TransferInv, FramesTyped
    <3>2. g \in In(heard[t]) \/ g = AckFrame(s, k, i)
      BY <1>19, <1>18, <2>2, <3>1, FrameAppend
    <3>3. IsAck(AckFrame(s, k, i), s)'
      BY <1>4, <1>8, <1>9, <1>16 DEF IsAck
    <3> QED BY <2>2, <3>2, <3>3 DEF IsAck
  <2> QED BY <1>13, <1>19, <2>1, <2>2
<1>20. FramesTyped'
  <2>1. \A t \in Senders : heard'[t] \in Seq(AckFrames)
    <3> SUFFICES ASSUME NEW t \in Senders PROVE heard'[t] \in Seq(AckFrames)
      OBVIOUS
    <3>1. heard[t] \in Seq(AckFrames)
      BY DEF TransferInv, FramesTyped
    <3>2. CASE heard'[t] = heard[t]
      BY <3>1, <3>2
    <3>3. CASE heard'[t] = Append(heard[t], AckFrame(s, k, i))
      BY <1>18, <3>1, <3>3, FrameAppend
    <3> QED BY <1>13, <3>2, <3>3
  <2>2. \A q \in Receivers : heard'[q] \in Seq(DataFrames)
    BY <1>6, <1>13 DEF TransferInv, FramesTyped
  <2>3. out' \in [Receivers -> Seq(Whole)]
    <3>1. CASE out' = out
      BY <1>5, <3>1
    <3>2. CASE Complete(a) /\ out' = [out EXCEPT ![r] = Append(@, Joined(a))]
      <4>1. Joined(a) \in Whole
        BY <1>11, <3>2, FragmentsAre DEF Whole
      <4>2. Append(out[r], Joined(a)) \in Seq(Whole)
        BY <1>5, <4>1
      <4> QED BY <1>5, <3>2, <4>2
    <3> QED BY <1>3, <3>1, <3>2
  <2>4. DOMAIN asm' = Receivers
    BY <1>3, <1>5
  <2> QED BY <1>4, <1>13, <2>1, <2>2, <2>3, <2>4 DEF TransferInv, FramesTyped
<1>21. ASSUME NEW q \in Receivers PROVE HeardInOrder(q)' /\ OneAtHand(q)'
  <2>0. \A t \in Senders : \A g : IsData(g, t) => IsData(g, t)'
    BY <1>4 DEF IsData
  <2>1. CASE q # r
    <3>1. heard'[q] = heard[q] /\ asm'[q] = asm[q]
      BY <1>3, <1>5, <1>13, <1>21, <2>1
    <3>2. HeardInOrder(q)'
      BY <1>21, <2>0, <3>1 DEF TransferInv, HeardInOrder, In, InOrder
    <3>3. \A t \in Senders, m \in Nat : Collects(q, t, m) => Collects(q, t, m)'
      BY <1>4, <3>1 DEF Collects, In
    <3> QED BY <1>21, <3>1, <3>2, <3>3 DEF TransferInv, OneAtHand
  <2>2. CASE q = r
    <3>1. \A g \in In(heard'[r]) : IsData(g, s)'
      BY <1>5, <1>6, <1>7, <1>13, <2>0 DEF HeardInOrder
    <3>2. HeardInOrder(r)'
      BY <1>6, <1>7, <1>12, <1>13, <3>1 DEF HeardInOrder, In, InOrder
    <3>3. CASE Complete(a)
      <4>1. asm'[r] = Fresh
        BY <1>3, <1>5, <3>3
      <4> QED BY <2>2, <3>2, <4>1 DEF OneAtHand
    <3>4. CASE ~Complete(a)
      <4>1. asm'[r] = a
        BY <1>3, <1>5, <3>4
      <4>2. \A g \in In(heard'[r]) : k <= g.piece[2]
        BY <1>6, <1>8, <1>13 DEF DataFrame
      <4>3. Collects(r, s, k)'
        BY <1>4, <1>7, <1>8, <1>9, <3>4, <4>1, <4>2 DEF Collects, In, Complete
      <4> QED BY <2>2, <3>2, <4>3, FragmentsAre DEF OneAtHand
    <3> QED BY <2>2, <3>2, <3>3, <3>4
  <2> QED BY <2>1, <2>2
<1>22. UNCHANGED senderVars
  BY <1>3
<1> QED BY <1>14, <1>17, <1>19, <1>20, <1>21, <1>22, ReceiverGoesOn

LEMMA TransferStep ==
  ASSUME Apart, TransferInv, [FramingNext]_framingVars
  PROVE  TransferInv'
<1>1. ASSUME NEW s \in Senders, SenderStep(s) PROVE TransferInv'
  BY <1>1, TransferTransmit, TransferPollAck, TransferAckTimeout DEF SenderStep
<1>2. ASSUME NEW r \in Receivers, Receive(r) \/ RecvTimeout(r) PROVE TransferInv'
  BY <1>2, TransferReceive, TransferRecvTimeout
<1>3. CASE UNCHANGED framingVars
  <2>1. /\ UNCHANGED <<phase, msg, frag, tries, sent>>
        /\ UNCHANGED <<asm, out, cutShort>> /\ UNCHANGED heard
    BY <1>3 DEF framingVars, senderVars, receiverVars
  <2>2. FramesTyped'
    BY <2>1 DEF TransferInv, FramesTyped
  <2>3. /\ \A t \in Senders : \A k : Done(t, k) => Done(t, k)'
        /\ \A t \in Senders, i \in Nat : Got(t, msg[t], i) => Got(t, msg[t], i)'
    BY <2>1 DEF Done, Got
  <2>4. \A t \in Senders : \A f \in In(heard'[t]) : f \in In(heard[t])
    BY <2>1
  <2>5. ASSUME NEW r \in Receivers PROVE HeardInOrder(r)' /\ OneAtHand(r)'
    <3>1. \A t \in Senders : \A f : IsData(f, t) => IsData(f, t)'
      BY <2>1 DEF IsData
    <3>2. HeardInOrder(r)'
      BY <2>1, <2>5, <3>1 DEF TransferInv, HeardInOrder, In, InOrder
    <3>3. \A t \in Senders, k \in Nat : Collects(r, t, k) => Collects(r, t, k)'
      BY <2>1 DEF Collects, In
    <3> QED BY <2>1, <2>5, <3>2, <3>3 DEF TransferInv, OneAtHand
  <2>6. UNCHANGED senderVars
    BY <2>1 DEF senderVars
  <2> QED BY <2>2, <2>3, <2>4, <2>5, <2>6, ReceiverGoesOn
<1> QED BY <1>1, <1>2, <1>3 DEF FramingNext

LEMMA TransferInvIsWhole == TransferInv => TransfersAreWhole
<1> HAVE TransferInv
<1>1. ReturnedIsOneMessage
  <2> SUFFICES ASSUME NEW r \in Receivers, NEW i \in DOMAIN out[r]
               PROVE  Cardinality(out[r][i]) = 1
    BY DEF ReturnedIsOneMessage
  <2>1. out[r] \in Seq(Whole)
    BY DEF TransferInv, FramesTyped
  <2>2. out[r][i] \in Whole
    BY <2>1
  <2>3. PICK s \in Senders, k \in Nat : out[r][i] = {<<s, k>>}
    BY <2>2 DEF Whole
  <2> QED BY <2>3, FS_Singleton
<1>2. TrueMeansReturned
  <2> SUFFICES ASSUME NEW m \in sent \ cutShort
               PROVE  \E i \in DOMAIN out[Dest[m[1]]] : out[Dest[m[1]]][i] = {m}
    BY DEF TrueMeansReturned
  <2>1. m = <<m[1], m[2]>> /\ Done(m[1], m[2]) /\ m \notin cutShort
    BY DEF TransferInv, Told
  <2>2. \E j \in DOMAIN out[Dest[m[1]]] : out[Dest[m[1]]][j] = {<<m[1], m[2]>>}
    BY <2>1 DEF Done
  <2> QED BY <2>1, <2>2
<1> QED BY <1>1, <1>2 DEF TransfersAreWhole

(* While no two senders address one receiver and none sends more than 256  *)
(* messages (WireId), a transfer is whole or it is not, in spite of lost   *)
(* frames, repeated fragments and deadlines at any moment.                 *)
THEOREM TransfersStayWhole ==
  ASSUME Apart PROVE FramingSpec => []TransfersAreWhole
<1>1. FramingInit => TransferInv
  BY TransferInit
<1>2. TransferInv /\ [FramingNext]_framingVars => TransferInv'
  BY Apart, TransferStep
<1>3. TransferInv => TransfersAreWhole
  BY TransferInvIsWhole
<1> QED BY <1>1, <1>2, <1>3, PTL DEF FramingSpec

-----------------------------------------------------------------------------
Asks == [kind : {"data"}, src : Stations, dst : Stations, id : 0..255, about : Nat \ {0}]
Acks == [kind : {"ack"}, src : Stations, dst : Stations, id : 0..255]
Frames == Asks \cup Acks
StageNames == {"send", "await", "onSend", "onAwait", "back", "listen", "done"}

ExchangeTypes ==
  /\ layout \in {"pair", "chain"} /\ peer \in [Stations -> Stations]
  /\ stage \in [Stations -> StageNames]
  /\ id \in [Stations -> 0..255] /\ hold \in [Stations -> Nat]
  /\ inbox \in [Stations -> Seq(Frames)]
  /\ \A n \in Stations : \A i \in DOMAIN inbox[n] : inbox[n][i].src # n
  /\ answers \in Seq(Nat) /\ vain \in Nat

(* What each role can be at, and that what it sends it holds.              *)
Posts ==
  /\ stage[0] \in {"send", "await", "listen", "done"}
  /\ stage[1] \in {"send", "await", "listen"}
                  \cup (IF layout = "pair" THEN {} ELSE {"onSend", "onAwait", "back"})
  /\ stage[2] \in IF layout = "pair" THEN {"done"} ELSE {"send", "await", "listen"}
  /\ peer[0] = 1 /\ peer[1] = 0 /\ peer[2] \in {0, 1}
  /\ \A n \in Stations : stage[n] \in {"send", "await", "onSend", "onAwait"} => hold[n] >= 1
  /\ stage[0] # "done" => hold[0] = Len(answers) + 1

Placed == ExchangeTypes /\ Posts

-----------------------------------------------------------------------------
LEMMA ThreeStations ==
  0 \in Stations /\ 1 \in Stations /\ 2 \in Stations /\ \A n \in Stations : n = 0 \/ n = 1 \/ n = 2
BY DEF Stations

(* A node that sends, or was sending, goes on to a place its role has.     *)
LEMMA Posted ==
  ASSUME ExchangeTypes, Posts, NEW n \in Stations, NEW s,
         stage' = [stage EXCEPT ![n] = s], UNCHANGED <<layout, peer, hold, answers>>,
         \/ stage[n] = "send" /\ s = "await"
         \/ stage[n] = "onSend" /\ s = "onAwait"
         \/ stage[n] = "await" /\ s \in {"send", "listen"}
         \/ stage[n] = "onAwait" /\ s \in {"onSend", "back"}
  PROVE  Posts'
<1>1. stage'[n] = s /\ \A m \in Stations : m # n => stage'[m] = stage[m]
  BY DEF ExchangeTypes
<1>2. \A m \in Stations :
         stage'[m] \in {"send", "await", "onSend", "onAwait"} => hold'[m] >= 1
  BY <1>1 DEF Posts
<1>3. CASE n = 0
  <2>1. stage'[1] = stage[1] /\ stage'[2] = stage[2] /\ stage'[0] = s /\ stage[0] # "done"
    BY <1>1, <1>3, ThreeStations
  <2> QED BY <1>2, <1>3, <2>1 DEF Posts
<1>4. CASE n = 1
  <2>1. stage'[0] = stage[0] /\ stage'[2] = stage[2] /\ stage'[1] = s
    BY <1>1, <1>4, ThreeStations
  <2> QED BY <1>2, <1>4, <2>1 DEF Posts
<1>5. CASE n = 2
  <2>1. stage'[0] = stage[0] /\ stage'[1] = stage[1] /\ stage'[2] = s
    BY <1>1, <1>5, ThreeStations
  <2> QED BY <1>2, <1>5, <2>1 DEF Posts
<1> QED BY <1>3, <1>4, <1>5, ThreeStations

LEMMA Dropped ==
  ASSUME NEW S, NEW s \in Seq(S), s # <<>>
  PROVE  /\ 1 \in DOMAIN s /\ Head(s) = s[1] /\ s[1] \in S /\ Tail(s) \in Seq(S)
         /\ \A i \in DOMAIN Tail(s) : i \in Int /\ i >= 1 /\ i + 1 \in DOMAIN s /\ Tail(s)[i] = s[i + 1]
<1>1. /\ Len(s) \in Nat /\ Len(s) # 0 /\ DOMAIN s = 1 .. Len(s)
  BY EmptySeq, LenProperties
<1>2. /\ Tail(s) \in Seq(S) /\ Head(s) \in S
      /\ Len(Tail(s)) = Len(s) - 1 /\ \A i \in 1 .. Len(Tail(s)) : Tail(s)[i] = s[i + 1]
  BY HeadTailProperties
<1>3. DOMAIN Tail(s) = 1 .. Len(Tail(s))
  BY <1>2, LenProperties
<1>4. Head(s) = s[1]
  BY HeadTailProperties
<1> QED BY <1>1, <1>2, <1>3, <1>4

LEMMA Added ==
  ASSUME NEW S, NEW s \in Seq(S), NEW f \in S
  PROVE  /\ Append(s, f) \in Seq(S)
         /\ \A i \in DOMAIN Append(s, f) :
              i \in Int /\ (\/ i \in DOMAIN s /\ Append(s, f)[i] = s[i]
                            \/ i = Len(s) + 1 /\ Append(s, f)[i] = f)
         /\ \A i \in DOMAIN s : i \in Int /\ i <= Len(s)
<1>1. Len(s) \in Nat /\ DOMAIN s = 1 .. Len(s)
  BY LenProperties
<1>2. /\ Append(s, f) \in Seq(S) /\ Len(Append(s, f)) = Len(s) + 1
      /\ \A i \in 1 .. Len(s) : Append(s, f)[i] = s[i]
      /\ Append(s, f)[Len(s) + 1] = f
  BY AppendProperties
<1>3. DOMAIN Append(s, f) = 1 .. Len(Append(s, f))
  BY <1>2, LenProperties
<1> QED BY <1>1, <1>2, <1>3

(* A frame on the air is heard by the one it is meant for, or by nobody.   *)
LEMMA Carried ==
  ASSUME NEW after \in [Stations -> Seq(Frames)], NEW f \in Frames, NEW n,
         Carry(f, n, after)
  PROVE  \/ inbox' = after
         \/ /\ f.dst \in Stations /\ f.dst # n
            /\ inbox' = [after EXCEPT ![f.dst] = Append(after[f.dst], f)]
<1>1. PICK ears \in SUBSET {m \in Stations : /\ Hears(m, n) /\ f.dst = m
                                    /\ Len(after[m]) < RadioCap} :
    inbox' = [m \in Stations |-> IF m \in ears THEN Append(after[m], f) ELSE after[m]]
  BY DEF Carry
<1>2. CASE f.dst \in ears
  <2>1. f.dst \in Stations /\ f.dst # n
    BY <1>2 DEF Hears
  <2>2. \A m \in Stations : m \in ears <=> m = f.dst
    BY <1>2
  <2> QED BY <1>1, <2>1, <2>2
<1>3. CASE f.dst \notin ears
  <2>1. \A m \in Stations : m \notin ears
    BY <1>3
  <2>2. inbox' = [m \in Stations |-> after[m]]
    BY <1>1, <2>1
  <2> QED BY <2>2
<1> QED BY <1>2, <1>3

LEMMA FrameKinds ==
  ASSUME NEW f \in Frames
  PROVE  /\ f.src \in Stations /\ f.dst \in Stations /\ f.id \in 0 .. 255
         /\ f.kind \in {"data", "ack"}
         /\ f.kind = "data" => f.about \in Nat /\ f.about >= 1
BY DEF Frames, Asks, Acks

(* The radios, after one of them lost its first frame or none did, and one *)
(* of them heard a frame or none did.                                      *)
LEMMA CarriedTypes ==
  ASSUME NEW after \in [Stations -> Seq(Frames)], NEW f \in Frames, NEW n \in Stations,
         f.src = n, Carry(f, n, after),
         \A m \in Stations : \A i \in DOMAIN after[m] : after[m][i].src # m
  PROVE  /\ inbox' \in [Stations -> Seq(Frames)]
         /\ \A m \in Stations : \A i \in DOMAIN inbox'[m] : inbox'[m][i].src # m
<1>1. CASE inbox' = after
  BY <1>1
<1>2. CASE /\ f.dst \in Stations /\ f.dst # n
           /\ inbox' = [after EXCEPT ![f.dst] = Append(after[f.dst], f)]
  <2>1. after[f.dst] \in Seq(Frames)
    BY <1>2
  <2>2. /\ Append(after[f.dst], f) \in Seq(Frames)
        /\ \A i \in DOMAIN Append(after[f.dst], f) :
              \/ i \in DOMAIN after[f.dst] /\ Append(after[f.dst], f)[i] = after[f.dst][i]
              \/ Append(after[f.dst], f)[i] = f
    BY <2>1, Added
  <2>3. inbox' \in [Stations -> Seq(Frames)]
    BY <1>2, <2>2
  <2>4. ASSUME NEW m \in Stations, NEW i \in DOMAIN inbox'[m] PROVE inbox'[m][i].src # m
    <3>1. CASE m = f.dst
      BY <1>2, <2>2, <3>1
    <3>2. CASE m # f.dst
      BY <1>2, <3>2
    <3> QED BY <3>1, <3>2
  <2> QED BY <2>3, <2>4
<1> QED BY <1>1, <1>2, Carried

LEMMA TakenTypes ==
  ASSUME ExchangeTypes, NEW n \in Stations, inbox[n] # <<>>
  PROVE  /\ Taken(n) \in [Stations -> Seq(Frames)]
         /\ Head(inbox[n]) \in Frames /\ Head(inbox[n]) = inbox[n][1] /\ 1 \in DOMAIN inbox[n]
         /\ Head(inbox[n]).src # n
         /\ \A m \in Stations : \A i \in DOMAIN Taken(n)[m] : Taken(n)[m][i].src # m
<1>1. inbox[n] \in Seq(Frames)
  BY DEF ExchangeTypes
<1>2. /\ 1 \in DOMAIN inbox[n] /\ Head(inbox[n]) = inbox[n][1] /\ inbox[n][1] \in Frames
      /\ Tail(inbox[n]) \in Seq(Frames)
      /\ \A i \in DOMAIN Tail(inbox[n]) : i + 1 \in DOMAIN inbox[n]
                                          /\ Tail(inbox[n])[i] = inbox[n][i + 1]
  BY <1>1, Dropped
<1>3. \A m \in Stations : Taken(n)[m] = IF m = n THEN Tail(inbox[n]) ELSE inbox[m]
  BY DEF Taken, ExchangeTypes
<1>4. Taken(n) \in [Stations -> Seq(Frames)]
  BY <1>2 DEF Taken, ExchangeTypes
<1>5. inbox[n][1].src # n
  BY <1>2 DEF ExchangeTypes
<1>6. ASSUME NEW m \in Stations, NEW i \in DOMAIN Taken(n)[m] PROVE Taken(n)[m][i].src # m
  <2>1. CASE m = n
    <3>1. i \in DOMAIN Tail(inbox[n]) /\ Taken(n)[m][i] = Tail(inbox[n])[i]
      BY <1>3, <2>1
    <3>2. i + 1 \in DOMAIN inbox[n] /\ Taken(n)[m][i] = inbox[n][i + 1]
      BY <1>2, <3>1
    <3> QED BY <2>1, <3>2 DEF ExchangeTypes
  <2>2. CASE m # n
    BY <1>3, <2>2 DEF ExchangeTypes
  <2> QED BY <2>1, <2>2
<1> QED BY <1>2, <1>4, <1>5, <1>6

-----------------------------------------------------------------------------
LEMMA PlacedAtFirst == ASSUME ExchangeInit PROVE Placed
<1>1. ExchangeTypes
  <2>1. /\ layout \in {"pair", "chain"} /\ peer \in [Stations -> Stations]
        /\ id \in [Stations -> 0..255] /\ hold \in [Stations -> Nat]
        /\ answers \in Seq(Nat) /\ vain \in Nat
    BY DEF ExchangeInit, Stations, DefaultPeer
  <2>2. stage \in [Stations -> StageNames]
    BY DEF ExchangeInit, Stations, Role, StageNames
  <2>3. inbox \in [Stations -> Seq(Frames)] /\ \A n \in Stations : inbox[n] = <<>>
    BY EmptySeq DEF ExchangeInit
  <2> QED BY <2>1, <2>2, <2>3 DEF ExchangeTypes
<1>2. /\ stage[0] \in {"send", "done"} /\ stage[1] = "listen"
      /\ stage[2] = IF layout = "pair" THEN "done" ELSE "listen"
  BY DEF ExchangeInit, Stations, Role
<1>3. /\ peer[0] = 1 /\ peer[1] = 0 /\ peer[2] \in {0, 1}
      /\ hold[0] = 1 /\ Len(answers) = 0
  BY DEF ExchangeInit, Stations, DefaultPeer
<1> QED BY <1>1, <1>2, <1>3 DEF Placed, Posts, Stations

(* Who a message goes to is a neighbour.                                   *)
LEMMA ToNeighbour ==
  ASSUME Placed, NEW n \in Stations, stage[n] \in {"send", "onSend"}
  PROVE  /\ To(n) \in Stations /\ To(n) # n
         /\ n \in {0, 2} /\ (layout = "chain" => peer[2] = 1) => To(n) = 1 /\ stage[n] = "send"
         /\ n = 1 => To(n) = IF stage[1] = "send" THEN 0 ELSE 2
BY DEF Placed, Posts, ExchangeTypes, Stations, To, Role

LEMMA NumberRange ==
  ASSUME Placed, NEW n \in Stations
  PROVE  Number(n) \in 0 .. 255 /\ Number(n) # id[n]
<1>1. id[n] \in 0 .. 255
  BY DEF Placed, ExchangeTypes
<1>2. PICK k \in 0 .. 255 : id[n] = k
  BY <1>1
<1>3. (k + 1) % 256 \in 0 .. 255 /\ (k + 1) % 256 # k
  <2>1. CASE k = 255
    BY <2>1
  <2>2. CASE k < 255
    <3>1. k + 1 \in 0 .. 255 /\ k + 1 < 256
      BY <2>2
    <3>2. (k + 1) % 256 = k + 1
      BY <3>1
    <3> QED BY <3>1, <3>2
  <2> QED BY <2>1, <2>2
<1> QED BY <1>2, <1>3 DEF Number

(* What a station sends, and to whom.                                      *)
Sentence(n) == [kind |-> "data", src |-> n, dst |-> To(n), id |-> Number(n), about |-> hold[n]]

LEMMA SentenceIsFrame ==
  ASSUME Placed, NEW n \in Stations, stage[n] \in {"send", "onSend"}
  PROVE  Sentence(n) \in Frames
<1>1. hold[n] \in Nat \ {0}
  BY DEF Placed, ExchangeTypes, Posts
<1> QED BY <1>1, ToNeighbour, NumberRange DEF Sentence, Frames, Asks

LEMMA PlacedSendFrame ==
  ASSUME Placed, NEW n \in Stations, SendFrame(n)
  PROVE  Placed'
<1>0. ExchangeTypes /\ Posts /\ stage[n] \in {"send", "onSend"}
  BY DEF Placed, SendFrame
<1>1. Carry(Sentence(n), n, inbox)
  BY DEF SendFrame, Sentence
<1>2. /\ Sentence(n) \in Frames /\ Sentence(n).src = n
  BY <1>0, SentenceIsFrame DEF Sentence
<1>3. /\ inbox' \in [Stations -> Seq(Frames)]
      /\ \A m \in Stations : \A i \in DOMAIN inbox'[m] : inbox'[m][i].src # m
  BY <1>0, <1>1, <1>2, CarriedTypes DEF ExchangeTypes
<1>4. /\ stage' = [stage EXCEPT ![n] = IF stage[n] = "send" THEN "await" ELSE "onAwait"]
      /\ UNCHANGED <<layout, far, peer, id, hold, answers, vain>>
  BY DEF SendFrame, place
<1>5. ExchangeTypes'
  BY <1>0, <1>3, <1>4 DEF ExchangeTypes, StageNames
<1>6. Posts'
  <2>1. PICK s : s = IF stage[n] = "send" THEN "await" ELSE "onAwait"
    OBVIOUS
  <2>2. stage' = [stage EXCEPT ![n] = s] /\ UNCHANGED <<layout, peer, hold, answers>>
    BY <1>4, <2>1
  <2>3. (stage[n] = "send" /\ s = "await") \/ (stage[n] = "onSend" /\ s = "onAwait")
    BY <1>0, <2>1
  <2> QED BY <1>0, <2>2, <2>3, Posted
<1> QED BY <1>5, <1>6 DEF Placed

LEMMA PlacedReturns ==
  ASSUME Placed, NEW n \in Stations, SendReturns(n), stage[n] \in {"await", "onAwait"},
         UNCHANGED <<layout, far, peer, hold, answers>>,
         vain' \in Nat, inbox' \in [Stations -> Seq(Frames)],
         \A m \in Stations : \A i \in DOMAIN inbox'[m] : inbox'[m][i].src # m
  PROVE  Placed'
<1>0. ExchangeTypes /\ Posts
  BY DEF Placed
<1>1. /\ stage' = [stage EXCEPT ![n] = IF stage[n] = "onAwait" THEN "back" ELSE "listen"]
      /\ id' = [id EXCEPT ![n] = Number(n)]
  BY DEF SendReturns, AfterSend
<1>2. id' \in [Stations -> 0..255] /\ stage' \in [Stations -> StageNames]
  BY <1>0, <1>1, NumberRange DEF ExchangeTypes, StageNames
<1>3. ExchangeTypes'
  BY <1>0, <1>2 DEF ExchangeTypes
<1>4. Posts'
  <2>1. PICK s : s = IF stage[n] = "onAwait" THEN "back" ELSE "listen"
    OBVIOUS
  <2>2. stage' = [stage EXCEPT ![n] = s] /\ UNCHANGED <<layout, peer, hold, answers>>
    BY <1>1, <2>1
  <2>3. (stage[n] = "await" /\ s = "listen") \/ (stage[n] = "onAwait" /\ s = "back")
    BY <2>1
  <2> QED BY <1>0, <2>2, <2>3, Posted
<1> QED BY <1>3, <1>4 DEF Placed

LEMMA PlacedAwaitAck ==
  ASSUME Placed, NEW n \in Stations, AwaitAck(n)
  PROVE  Placed'
<1>0. ExchangeTypes /\ Posts /\ stage[n] \in {"await", "onAwait"} /\ inbox[n] # <<>>
  BY DEF Placed, AwaitAck
<1>1. /\ UNCHANGED <<layout, far, peer, hold, answers, vain>>
      /\ inbox' = Taken(n)
  BY DEF AwaitAck, place, Flushed, Taken
<1>2. /\ inbox' \in [Stations -> Seq(Frames)]
      /\ \A m \in Stations : \A i \in DOMAIN inbox'[m] : inbox'[m][i].src # m
  BY <1>0, <1>1, TakenTypes
<1>3. CASE SendReturns(n)
  BY <1>0, <1>1, <1>2, <1>3, PlacedReturns DEF ExchangeTypes
<1>4. CASE UNCHANGED <<stage, attempt, id>>
  BY <1>0, <1>1, <1>2, <1>4 DEF Placed, ExchangeTypes, Posts
<1> QED BY <1>3, <1>4 DEF AwaitAck

LEMMA PlacedAwaitExpires ==
  ASSUME Placed, NEW n \in Stations, AwaitExpires(n)
  PROVE  Placed'
<1>0. ExchangeTypes /\ Posts /\ stage[n] \in {"await", "onAwait"}
  BY DEF Placed, AwaitExpires
<1>1. UNCHANGED <<layout, far, peer, hold, inbox, answers>>
  BY DEF AwaitExpires, place
<1>2. CASE SendReturns(n) /\ vain' = vain + 1
  <2>1. /\ vain' \in Nat /\ inbox' \in [Stations -> Seq(Frames)]
        /\ \A m \in Stations : \A i \in DOMAIN inbox'[m] : inbox'[m][i].src # m
    BY <1>0, <1>1, <1>2 DEF ExchangeTypes
  <2> QED BY <1>0, <1>1, <1>2, <2>1, PlacedReturns
<1>3. CASE /\ stage' = [stage EXCEPT ![n] = IF @ = "await" THEN "send" ELSE "onSend"]
           /\ UNCHANGED <<id, vain>>
  <2>1. ExchangeTypes'
    BY <1>0, <1>1, <1>3 DEF ExchangeTypes, StageNames
  <2>2. Posts'
    <3>1. PICK s : s = IF stage[n] = "await" THEN "send" ELSE "onSend"
      OBVIOUS
    <3>2. stage' = [stage EXCEPT ![n] = s] /\ UNCHANGED <<layout, peer, hold, answers>>
      BY <1>1, <1>3, <3>1
    <3>3. (stage[n] = "await" /\ s = "send") \/ (stage[n] = "onAwait" /\ s = "onSend")
      BY <1>0, <3>1
    <3> QED BY <1>0, <3>2, <3>3, Posted
  <2> QED BY <2>1, <2>2 DEF Placed
<1> QED BY <1>2, <1>3 DEF AwaitExpires

(* What a listening that ends makes of the station.                        *)
LEMMA PlacedConcluded ==
  ASSUME Placed, NEW n \in Stations, NEW what \in Nat, Concluded(n, what),
         stage[n] \in {"listen", "back"},
         UNCHANGED <<layout, far, peer, id>>,
         vain' \in Nat, inbox' \in [Stations -> Seq(Frames)],
         \A m \in Stations : \A i \in DOMAIN inbox'[m] : inbox'[m][i].src # m
  PROVE  Placed'
<1>0. ExchangeTypes /\ Posts
  BY DEF Placed
<1>1. CASE n = 0
  <2>1. /\ answers' = Append(answers, what) /\ hold' = [hold EXCEPT ![0] = hold[0] + 1]
        /\ stage' = [stage EXCEPT ![0] = IF Len(answers) + 1 = Rounds THEN "done" ELSE "send"]
    BY <1>1 DEF Concluded, Role
  <2>2. answers' \in Seq(Nat) /\ Len(answers') = Len(answers) + 1 /\ Len(answers) \in Nat
    BY <1>0, <2>1, AppendProperties, LenProperties DEF ExchangeTypes
  <2>3. ExchangeTypes'
    <3>1. hold' \in [Stations -> Nat] /\ stage' \in [Stations -> StageNames]
      <4>1. 0 \in Stations /\ hold[0] \in Nat /\ hold[0] + 1 \in Nat
        BY <1>0, ThreeStations DEF ExchangeTypes
      <4> QED BY <1>0, <2>1, <4>1 DEF ExchangeTypes, StageNames
    <3> QED BY <1>0, <2>2, <3>1 DEF ExchangeTypes
  <2>4. stage[0] = "listen" /\ hold[0] = Len(answers) + 1
    BY <1>0, <1>1 DEF Posts
  <2>5. /\ hold'[0] = Len(answers') + 1 /\ hold'[1] = hold[1] /\ hold'[2] = hold[2]
        /\ stage'[0] \in {"send", "done"} /\ stage'[1] = stage[1] /\ stage'[2] = stage[2]
    BY <1>0, <2>1, <2>2, <2>4, ThreeStations DEF ExchangeTypes
  <2>6. Posts'
    BY <1>0, <2>2, <2>5 DEF Posts, Stations
  <2> QED BY <2>3, <2>6 DEF Placed
<1>2. CASE n # 0
  <2>1. /\ hold' = [hold EXCEPT ![n] = IF what = 0 THEN hold[n] ELSE what]
        /\ UNCHANGED answers
    BY <1>0, <1>2 DEF Concluded, Role, Posts, Stations
  <2>2. hold' \in [Stations -> Nat] /\ hold'[n] = IF what = 0 THEN hold[n] ELSE what
    BY <1>0, <2>1 DEF ExchangeTypes
  <2>3. PICK s \in StageNames :
          /\ stage' = [stage EXCEPT ![n] = s]
          /\ s \in {"send", "onSend", "listen", "back"}
          /\ s \in {"send", "onSend"} => hold'[n] >= 1
          /\ s \in {"onSend", "back"} => n = 1 /\ layout = "chain"
    <3>1. CASE Role(n) = "rx"
      BY <1>0, <2>2, <3>1 DEF Concluded, StageNames, ExchangeTypes
    <3>2. CASE Role(n) = "relay" /\ stage[n] = "listen"
      <4>1. n = 1 /\ layout = "chain"
        BY <1>0, <1>2, <3>2 DEF Role, Stations, ExchangeTypes
      <4> QED BY <1>0, <2>2, <3>2, <4>1 DEF Concluded, StageNames, ExchangeTypes
    <3>3. CASE Role(n) = "relay" /\ stage[n] # "listen"
      BY <1>0, <2>2, <3>3 DEF Concluded, StageNames, ExchangeTypes
    <3> QED BY <1>0, <1>2, <3>1, <3>2, <3>3 DEF Role, Posts, Stations
  <2>4. ExchangeTypes'
    BY <1>0, <2>1, <2>2, <2>3 DEF ExchangeTypes
  <2>5. /\ \A m \in Stations : m # n => stage'[m] = stage[m] /\ hold'[m] = hold[m]
        /\ stage'[n] = s
    BY <1>0, <2>1, <2>3 DEF ExchangeTypes
  <2>6. Posts'
    <3>1. n = 2 => layout # "pair"
      BY <1>0 DEF Posts
    <3>2. \A m \in Stations :
             stage'[m] \in {"send", "await", "onSend", "onAwait"} => hold'[m] >= 1
      BY <1>0, <2>3, <2>5 DEF Posts
    <3>3. stage'[0] = stage[0] /\ hold'[0] = hold[0]
      BY <1>2, <2>5, ThreeStations
    <3>4. \A m \in {1, 2} : m # n => stage'[m] = stage[m]
      BY <2>5, ThreeStations
    <3>5. n = 1 \/ n = 2
      BY <1>2, ThreeStations
    <3>6. /\ stage'[1] \in {"send", "await", "listen"}
                        \cup (IF layout = "pair" THEN {} ELSE {"onSend", "onAwait", "back"})
          /\ stage'[2] \in IF layout = "pair" THEN {"done"} ELSE {"send", "await", "listen"}
      BY <1>0, <2>3, <2>5, <3>1, <3>4, <3>5 DEF Posts
    <3> QED BY <1>0, <2>1, <3>2, <3>3, <3>6 DEF Posts
  <2> QED BY <2>4, <2>6 DEF Placed
<1> QED BY <1>1, <1>2

(* The acknowledgement of a frame.                                         *)
AckTo(n, f) == [kind |-> "ack", src |-> n, dst |-> f.src, id |-> f.id]

LEMMA PlacedRecv ==
  ASSUME Placed, NEW n \in Stations, Recv(n)
  PROVE  Placed'
<1>0. ExchangeTypes /\ Posts /\ stage[n] \in {"listen", "back"} /\ inbox[n] # <<>>
  BY DEF Placed, Recv
<1>1. UNCHANGED <<layout, far, peer, id, vain>>
  BY DEF Recv, place
<1>2. PICK f \in Frames : f = Head(inbox[n])
  BY <1>0, TakenTypes
<1>3. /\ Taken(n) \in [Stations -> Seq(Frames)]
      /\ \A m \in Stations : \A i \in DOMAIN Taken(n)[m] : Taken(n)[m][i].src # m
  BY <1>0, TakenTypes
<1>4. CASE f.kind = "data"
  <2>1. Carry(AckTo(n, f), n, Taken(n)) /\ Concluded(n, f.about)
    BY <1>2, <1>4 DEF Recv, AckTo
  <2>2. AckTo(n, f) \in Frames /\ AckTo(n, f).src = n /\ f.about \in Nat
    BY <1>4, FrameKinds DEF AckTo, Frames, Acks
  <2>3. /\ inbox' \in [Stations -> Seq(Frames)]
        /\ \A m \in Stations : \A i \in DOMAIN inbox'[m] : inbox'[m][i].src # m
    BY <1>3, <2>1, <2>2, CarriedTypes
  <2> QED BY <1>0, <1>1, <2>1, <2>2, <2>3, PlacedConcluded DEF ExchangeTypes
<1>5. CASE f.kind # "data"
  <2>1. inbox' = Taken(n) /\ UNCHANGED <<stage, hold, answers>>
    BY <1>2, <1>5 DEF Recv
  <2> QED BY <1>0, <1>1, <1>3, <2>1 DEF Placed, ExchangeTypes, Posts
<1> QED BY <1>4, <1>5

LEMMA PlacedRecvExpires ==
  ASSUME Placed, NEW n \in Stations, RecvExpires(n)
  PROVE  Placed'
<1>1. /\ stage[n] \in {"listen", "back"} /\ Concluded(n, 0) /\ vain' = vain + 1
      /\ UNCHANGED <<layout, far, peer, id, inbox>>
  BY DEF RecvExpires, place
<1>2. /\ vain' \in Nat /\ inbox' \in [Stations -> Seq(Frames)]
      /\ \A m \in Stations : \A i \in DOMAIN inbox'[m] : inbox'[m][i].src # m
  BY <1>1 DEF Placed, ExchangeTypes
<1> QED BY <1>1, <1>2, PlacedConcluded

LEMMA PlacedStep ==
  ASSUME Placed, [ExchangeNext]_exchangeVars
  PROVE  Placed'
<1>1. ASSUME NEW n \in Stations, Step(n) PROVE Placed'
  BY <1>1, PlacedSendFrame, PlacedAwaitAck, PlacedAwaitExpires, PlacedRecv, PlacedRecvExpires
     DEF Step
<1>2. CASE UNCHANGED exchangeVars
  BY <1>2 DEF exchangeVars, Placed, ExchangeTypes, Posts
<1> QED BY <1>1, <1>2 DEF ExchangeNext

(* The ends of the path, and its middle, 1.                                *)
Tips == {0, 2}
Saying(e) == stage[e] \in {"send", "await"}
Towards(e) == stage[1] \in (IF e = 0 THEN {"send", "await"} ELSE {"onSend", "onAwait"})
DataAt(n, i) == inbox[n][i].kind = "data"
AckAt(n, i) == inbox[n][i].kind = "ack"
From(e, i) == DataAt(1, i) /\ inbox[1][i].src = e
IsItsAck(e, i) == AckAt(e, i) /\ inbox[e][i].id = Number(e)

(* An end has the acknowledgement of its last message, or its radio does.  *)
Assured(e) == \/ stage[e] = "listen"
              \/ Saying(e) /\ \E i \in DOMAIN inbox[e] : IsItsAck(e, i)
Current(e, i) == Towards(e) /\ inbox[e][i].id = Number(1) /\ inbox[e][i].about = hold[1]

(* An end that listens has in its radio only its last message's            *)
(* acknowledgements, and what the middle is sending it now; one that sends *)
(* may also hold old frames, but none after its acknowledgement.           *)
Listens(e) == stage[e] = "listen" => \A i \in DOMAIN inbox[e] :
  (AckAt(e, i) => inbox[e][i].id = id[e]) /\ (DataAt(e, i) => Current(e, i))
Awaits(e) == Saying(e) =>
  /\ \A i \in DOMAIN inbox[e] : AckAt(e, i) => inbox[e][i].id \in {id[e], Number(e)}
  /\ \A i, j \in DOMAIN inbox[e] : i < j /\ IsItsAck(e, i) =>
       (AckAt(e, j) => IsItsAck(e, j)) /\ (DataAt(e, j) => Current(e, j))
AtEnd(e) ==
  /\ \A i \in DOMAIN inbox[e] : inbox[e][i].src = 1
  /\ Listens(e) /\ Awaits(e)

(* What the middle still hears of an end is the end's last message, or its *)
(* last two while it sends; once the end is assured, only the last.        *)
ToldBefore(e) == stage[e] = "listen" => \A i \in DOMAIN inbox[1] :
  From(e, i) => inbox[1][i].id = id[e] /\ inbox[1][i].about = hold[e]
Tells(e) == Saying(e) =>
  /\ \A i \in DOMAIN inbox[1] : From(e, i) =>
       /\ inbox[1][i].id \in {id[e], Number(e)}
       /\ inbox[1][i].id = Number(e) => inbox[1][i].about = hold[e]
       /\ Assured(e) => inbox[1][i].id = Number(e)
  /\ \A i, j \in DOMAIN inbox[1] : i < j /\ From(e, i) /\ From(e, j) =>
       (inbox[1][i].id = Number(e) => inbox[1][j].id = Number(e))

(* The middle holds one acknowledgement at most: of what it is sending, by *)
(* an end that has turned to send meanwhile.  Of end 2, which answers with *)
(* what it was asked, it hears nothing else from then on.                  *)
AckedBy(e, i) ==
  /\ Towards(e) /\ inbox[1][i].id = Number(1) /\ ~Assured(e)
  /\ e = 2 => /\ Saying(2) /\ hold[2] = hold[1]
              /\ \A j \in DOMAIN inbox[1] : i < j /\ From(2, j) => inbox[1][j].about = hold[1]
AckInMiddle ==
  /\ \A i, j \in DOMAIN inbox[1] : AckAt(1, i) /\ AckAt(1, j) => i = j
  /\ \A i \in DOMAIN inbox[1] : AckAt(1, i) => AckedBy(0, i) \/ AckedBy(2, i)

(* Listening for the answer, it hears the answer and nothing else.         *)
Back == stage[1] = "back" =>
  /\ Saying(2) /\ ~Assured(2) /\ hold[2] = hold[1]
  /\ \A i \in DOMAIN inbox[1] : From(2, i) => inbox[1][i].about = hold[1]

(* Once the initiator is assured of its request, the middle serves it.     *)
Serves == Assured(0) => hold[1] = hold[0] /\ stage[1] # "listen"
InRound == \A r \in DOMAIN answers : answers[r] = r

Followed == /\ AtEnd(0) /\ AtEnd(2) /\ ToldBefore(0) /\ ToldBefore(2) /\ Tells(0) /\ Tells(2)
            /\ AckInMiddle /\ Back /\ Serves

(* What a step makes of a radio: d of its frames are gone, and a frame of F*)
(* has been heard after them, or nothing.                                  *)
Turned(n, d, F) ==
  \A i \in DOMAIN inbox'[n] :
    /\ i \in Int /\ i >= 1
    /\ \/ i + d \in DOMAIN inbox[n] /\ inbox'[n][i] = inbox[n][i + d]
       \/ inbox'[n][i] \in F /\ \A j \in DOMAIN inbox'[n] : j <= i

SaidByMiddle(f) == f.kind = "data" /\ f.src = 1 /\ f.id = Number(1) /\ f.about = hold[1]

(* Nobody's part changes; what is heard is said again.                     *)
LEMMA SaidAgain ==
  ASSUME Followed, UNCHANGED <<id, hold>>,
         NEW F0, NEW F1, NEW F2, NEW d0 \in {0, 1}, NEW d1 \in {0, 1}, NEW d2 \in {0, 1},
         Turned(0, d0, F0), Turned(1, d1, F1), Turned(2, d2, F2),
         \A f \in F0 : Towards(0) /\ SaidByMiddle(f), \A f \in F2 : Towards(2) /\ SaidByMiddle(f),
         \A f \in F1 : /\ f.kind = "data" /\ f.src \in Tips /\ Saying(f.src)
                       /\ f.id = Number(f.src) /\ f.about = hold[f.src],
         \A e \in Tips : /\ Saying(e)' <=> Saying(e)
                         /\ stage'[e] = "listen" <=> stage[e] = "listen"
                         /\ Towards(e)' <=> Towards(e),
         stage'[1] = "back" <=> stage[1] = "back",
         stage'[1] = "listen" <=> stage[1] = "listen"
  PROVE  Followed'
<1>0. \A n \in Stations : Number(n)' = Number(n)
  BY DEF Number
<1>1. ASSUME NEW e \in Tips, NEW d \in {0, 1}, NEW F, Turned(e, d, F),
             \A f \in F : Towards(e) /\ SaidByMiddle(f),
             AtEnd(e), Tells(e), ToldBefore(e)
      PROVE  AtEnd(e)' /\ Tells(e)' /\ ToldBefore(e)' /\ (Assured(e)' => Assured(e))
  <2>1. Assured(e)' => Assured(e)
    BY <1>0, <1>1 DEF Assured, Turned, SaidByMiddle, IsItsAck, AckAt, Tips, Stations
  <2>2. \A i \in DOMAIN inbox'[e] : inbox'[e][i].src = 1
    BY <1>1 DEF AtEnd, Turned, SaidByMiddle
  <2>3. Listens(e)'
    BY <1>0, <1>1 DEF AtEnd, Listens, Turned, AckAt, DataAt, Current, SaidByMiddle, Tips, Stations
  <2>4. Awaits(e)'
    BY <1>0, <1>1 DEF AtEnd, Awaits, Turned, IsItsAck, AckAt, DataAt, Current, SaidByMiddle, Tips, Stations
  <2>5. ToldBefore(e)'
    BY <1>0, <1>1 DEF ToldBefore, Turned, From, DataAt, Tips, Stations, Saying
  <2>6. Tells(e)'
    BY <1>0, <1>1, <2>1 DEF Tells, Turned, From, DataAt, Tips, Stations
  <2> QED BY <2>1, <2>2, <2>3, <2>4, <2>5, <2>6 DEF AtEnd
<1>2. AckInMiddle'
  <2>0. \A i \in DOMAIN inbox'[1] : AckAt(1, i)' =>
           /\ i \in Int /\ i + d1 \in DOMAIN inbox[1] /\ AckAt(1, i + d1)
           /\ inbox'[1][i] = inbox[1][i + d1]
    BY DEF Turned, AckAt
  <2>1. \A i, j \in DOMAIN inbox'[1] : AckAt(1, i)' /\ AckAt(1, j)' => i = j
    BY <2>0 DEF Followed, AckInMiddle
  <2>2. ASSUME NEW i \in DOMAIN inbox'[1], AckAt(1, i)' PROVE AckedBy(0, i)' \/ AckedBy(2, i)'
    <3>1. \A e \in Tips : Assured(e)' => Assured(e)
      BY <1>1 DEF Followed, Tips
    <3>2. AckedBy(0, i + d1) => AckedBy(0, i)'
      BY <1>0, <2>0, <2>2, <3>1 DEF AckedBy, Tips, Stations
    <3>3. ASSUME AckedBy(2, i + d1) PROVE AckedBy(2, i)'
      <4>1. \A j \in DOMAIN inbox'[1] : i < j /\ From(2, j)' => inbox'[1][j].about = hold[1]
        BY <2>0, <2>2, <3>3 DEF AckedBy, Turned, From, DataAt
      <4> QED BY <1>0, <2>0, <2>2, <3>1, <3>3, <4>1 DEF AckedBy, Tips, Stations
    <3>4. AckedBy(0, i + d1) \/ AckedBy(2, i + d1)
      BY <2>0, <2>2 DEF Followed, AckInMiddle
    <3> QED BY <3>2, <3>3, <3>4
  <2> QED BY <2>1, <2>2 DEF AckInMiddle
<1>3. Back'
  BY <1>0, <1>1 DEF Followed, Back, Turned, From, DataAt, Tips, Stations
<1>4. Serves'
  BY <1>1 DEF Followed, Serves, Tips
<1> QED BY <1>1, <1>2, <1>3, <1>4 DEF Followed, Tips

(* An end takes what the middle was sending it, and turns to send; the     *)
(* middle may hear the acknowledgement.                                    *)
LEMMA EndTakes ==
  ASSUME Placed, Followed, NEW e \in Tips, UNCHANGED <<id>>, UNCHANGED <<layout>>,
         stage[e] = "listen", stage'[e] \in {"send", "done"},
         1 \in DOMAIN inbox[e], DataAt(e, 1),
         e = 2 => stage'[2] = "send" /\ hold'[2] = inbox[2][1].about,
         \A n \in Stations : n # e => stage'[n] = stage[n] /\ hold'[n] = hold[n],
         NEW F1, Turned(1, 0, F1), Turned(e, 1, {}), Turned(2 - e, 0, {}),
         \A f \in F1 : f.kind = "ack" /\ f.id = inbox[e][1].id
  PROVE  Followed'
<1>0. /\ \A n \in Stations : Number(n)' = Number(n)
      /\ \A n \in Stations : Number(n) # id[n]
  BY NumberRange DEF Number
<1>1. Current(e, 1) /\ Assured(e)
  BY DEF Followed, AtEnd, Listens, Tips, Assured
<1>2. ~Assured(e)'
  BY <1>0 DEF Assured, Saying, Followed, AtEnd, Listens, Turned, IsItsAck, AckAt, Tips, Stations
<1>3. AtEnd(e)'
  <2>1. \A i \in DOMAIN inbox'[e] : inbox'[e][i].src = 1
    BY DEF Followed, AtEnd, Turned, Tips
  <2>2. Listens(e)'
    BY DEF Listens
  <2>3. Awaits(e)'
    BY <1>0, <1>2 DEF Awaits, Assured, Followed, AtEnd, Listens, Turned, IsItsAck, AckAt, Tips, Stations
  <2> QED BY <2>1, <2>2, <2>3 DEF AtEnd
<1>4. ToldBefore(e)' /\ Tells(e)'
  <2>1. ToldBefore(e)'
    BY DEF ToldBefore
  <2>2. Tells(e)'
    BY <1>0, <1>2 DEF Tells, Followed, ToldBefore, Turned, From, DataAt, Tips, Stations
  <2> QED BY <2>1, <2>2
<1>5. PICK d \in Tips : d = 2 - e
  BY DEF Tips
<1>6. d # e /\ d \in Stations /\ 1 \in Stations /\ e \in Stations
  BY <1>5 DEF Tips, Stations
<1>7. /\ stage'[d] = stage[d] /\ hold'[d] = hold[d] /\ stage'[1] = stage[1] /\ hold'[1] = hold[1]
      /\ Turned(d, 0, {}) /\ (Saying(d)' <=> Saying(d)) /\ (Towards(d)' <=> Towards(d))
      /\ (Towards(e)' <=> Towards(e)) /\ Number(1)' = Number(1) /\ Number(d)' = Number(d)
  BY <1>0, <1>5, <1>6 DEF Tips, Saying, Towards
<1>8. Assured(d)' => Assured(d)
  BY <1>7 DEF Assured, Turned, IsItsAck, AckAt
<1>9. AtEnd(d)' /\ ToldBefore(d)' /\ Tells(d)'
  <2>1. \A i \in DOMAIN inbox'[d] : inbox'[d][i].src = 1
    BY <1>7 DEF Followed, AtEnd, Turned, Tips
  <2>2. Listens(d)'
    <3>1. \A i \in DOMAIN inbox'[d] : i \in DOMAIN inbox[d] /\ inbox'[d][i] = inbox[d][i]
      BY <1>7 DEF Turned
    <3>2. Listens(d)
      BY DEF Followed, AtEnd, Tips
    <3>3. \A i : Current(d, i) /\ inbox'[d][i] = inbox[d][i] => Current(d, i)'
      BY <1>7 DEF Current
    <3> QED BY <1>7, <3>1, <3>2, <3>3 DEF Listens, AckAt, DataAt
  <2>3. Awaits(d)'
    BY <1>7 DEF Followed, AtEnd, Awaits, Turned, IsItsAck, AckAt, DataAt, Current, Tips, Towards
  <2>4. \A i \in DOMAIN inbox'[1] : From(d, i)' => 
           i \in DOMAIN inbox[1] /\ From(d, i) /\ inbox'[1][i] = inbox[1][i]
    BY DEF Turned, From, DataAt
  <2>5. ToldBefore(d)'
    BY <1>7, <2>4 DEF Followed, ToldBefore, Tips
  <2>6. Tells(d)'
    BY <1>7, <1>8, <2>4 DEF Followed, Tells, Tips
  <2> QED BY <2>1, <2>2, <2>3, <2>5, <2>6 DEF AtEnd
<1>10. AckInMiddle'
  <2>1. \A i \in DOMAIN inbox[1] : ~AckAt(1, i)
    BY <1>1 DEF Followed, AckInMiddle, AckedBy, Current, Towards, Tips
  <2>2. \A i \in DOMAIN inbox'[1] : AckAt(1, i)' =>
           /\ i \in Int /\ \A j \in DOMAIN inbox'[1] : j <= i
           /\ inbox'[1][i].id = Number(1)'
    BY <1>1, <1>7, <2>1 DEF Turned, AckAt, Current
  <2>3. \A i \in DOMAIN inbox'[1] : i \in Int
    BY DEF Turned
  <2>4. \A i \in DOMAIN inbox'[1] : AckAt(1, i)' => AckedBy(e, i)'
    BY <1>1, <1>2, <1>7, <2>2, <2>3 DEF AckedBy, Current, Saying, Tips
  <2> QED BY <2>2, <2>3, <2>4 DEF AckInMiddle, Tips
<1>11. Back'
  BY <1>1, <1>7 DEF Back, Current, Towards
<1>12. Serves'
  BY <1>2, <1>5, <1>7, <1>8 DEF Serves, Followed, Tips
<1> QED BY <1>3, <1>4, <1>5, <1>6, <1>9, <1>10, <1>11, <1>12 DEF Followed, Tips

(* The middle takes a message of an end, and turns to send it on; the end  *)
(* may hear the acknowledgement.                                           *)
LEMMA MiddleTakes ==
  ASSUME Placed, Followed, NEW e \in Tips, UNCHANGED <<id>>,
         stage[1] \in {"listen", "back"}, 
         stage'[1] \in {"send", "await", "onSend", "onAwait"},
         1 \in DOMAIN inbox[1], From(e, 1), hold'[1] = inbox[1][1].about,
         \A n \in Tips : stage'[n] = stage[n] /\ hold'[n] = hold[n],
         NEW F, Turned(1, 1, {}), Turned(e, 0, F), Turned(2 - e, 0, {}),
         \A f \in F : f.kind = "ack" /\ f.src = 1 /\ f.id = inbox[1][1].id
  PROVE  Followed'
<1>0. /\ \A n \in Stations : Number(n)' = Number(n)
      /\ \A n \in Stations : Number(n) # id[n]
  BY NumberRange DEF Number
<1>1. PICK d \in Tips : d = 2 - e
  BY DEF Tips
<1>2. /\ d # e /\ d \in Stations /\ 1 \in Stations /\ e \in Stations /\ e # 1 /\ d # 1
      /\ Tips = {d, e}
  BY <1>1 DEF Tips, Stations
<1>3. \A n \in Tips : /\ ~Towards(n) /\ (Saying(n)' <=> Saying(n))
                      /\ \A i : ~Current(n, i)
  BY DEF Towards, Saying, Tips, Current
<1>4. Turned(d, 0, {})
  BY <1>1
<1>5. \A i \in DOMAIN inbox'[1] : /\ i \in Int /\ i >= 1 /\ i + 1 \in DOMAIN inbox[1]
                                  /\ inbox'[1][i] = inbox[1][i + 1]
  BY DEF Turned
<1>6. Assured(d)' => Assured(d)
  BY <1>0, <1>2, <1>3, <1>4 DEF Assured, Turned, IsItsAck, AckAt
<1>7. Assured(e)' => Assured(e) \/ (Saying(e) /\ inbox[1][1].id = Number(e))
  <2>1. ASSUME NEW i \in DOMAIN inbox'[e], IsItsAck(e, i)'
        PROVE  (i \in DOMAIN inbox[e] /\ IsItsAck(e, i)) \/ inbox[1][1].id = Number(e)
    BY <1>0, <1>2, <2>1 DEF Turned, IsItsAck, AckAt
  <2>2. Saying(e)' => Saying(e)
    BY <1>3
  <2>3. CASE stage'[e] = "listen"
    <3>1. stage[e] = "listen"
      BY <1>2, <2>3
    <3> QED BY <3>1 DEF Assured
  <2>4. CASE Saying(e)' /\ \E i \in DOMAIN inbox'[e] : IsItsAck(e, i)'
    <3>1. PICK i \in DOMAIN inbox'[e] : IsItsAck(e, i)'
      BY <2>4
    <3>2. (i \in DOMAIN inbox[e] /\ IsItsAck(e, i)) \/ inbox[1][1].id = Number(e)
      BY <2>1, <3>1
    <3> QED BY <2>2, <2>4, <3>2 DEF Assured
  <2> QED BY <2>3, <2>4 DEF Assured
<1>8. AtEnd(d)'
  BY <1>0, <1>2, <1>3, <1>4 DEF Followed, AtEnd, Listens, Awaits, Turned, IsItsAck, AckAt, DataAt, Tips
<1>9. AtEnd(e)'
  <2>1. \A i \in DOMAIN inbox'[e] : inbox'[e][i].src = 1
    BY DEF Followed, AtEnd, Turned, Tips
  <2>2. Listens(e)'
    BY <1>0, <1>2, <1>3 DEF Followed, AtEnd, Listens, ToldBefore, Turned, AckAt, DataAt, Tips
  <2>3. Awaits(e)'
    BY <1>0, <1>2, <1>3 
       DEF Followed, AtEnd, Awaits, Tells, Assured, Turned, IsItsAck, AckAt, DataAt, Tips
  <2> QED BY <2>1, <2>2, <2>3 DEF AtEnd
<1>10. ASSUME NEW n \in Tips PROVE ToldBefore(n)' /\ Tells(n)'
  <2>1. ToldBefore(n)'
    BY <1>5 DEF Followed, ToldBefore, From, DataAt, Tips
  <2>2. Tells(n)'
    <3>1. ASSUME Assured(n)', Saying(n)', NEW i \in DOMAIN inbox'[1], From(n, i)'
          PROVE  inbox'[1][i].id = Number(n)'
      <4>1. /\ i + 1 \in DOMAIN inbox[1] /\ From(n, i + 1) /\ inbox'[1][i] = inbox[1][i + 1]
            /\ i \in Int /\ i >= 1 /\ 1 < i + 1 /\ Saying(n) /\ Number(n)' = Number(n)
            /\ Tells(n)
        BY <1>0, <1>3, <1>5, <3>1 DEF From, DataAt, Followed, Tips, Stations
      <4>2. CASE Assured(n)
        BY <4>1, <4>2 DEF Tells
      <4>3. CASE ~Assured(n)
        <5>1. n = e /\ inbox[1][1].id = Number(n)
          BY <1>2, <1>6, <1>7, <3>1, <4>3
        <5> QED BY <4>1, <5>1 DEF Tells
      <4> QED BY <4>2, <4>3
    <3>2. Tells(n) /\ Number(n)' = Number(n)
      BY <1>0 DEF Followed, Tips, Stations
    <3>3. \A i \in DOMAIN inbox'[1] : From(n, i)' <=> From(n, i + 1)
      BY <1>5 DEF From, DataAt
    <3>4. \A i \in DOMAIN inbox'[1] : Saying(n)' /\ From(n, i)' =>
             /\ inbox'[1][i].id \in {id'[n], Number(n)'}
             /\ inbox'[1][i].id = Number(n)' => inbox'[1][i].about = hold'[n]
      BY <1>3, <1>5, <3>2, <3>3 DEF Tells
    <3>5. \A i, j \in DOMAIN inbox'[1] : Saying(n)' /\ i < j /\ From(n, i)' /\ From(n, j)' =>
             (inbox'[1][i].id = Number(n)' => inbox'[1][j].id = Number(n)')
      BY <1>3, <1>5, <3>2, <3>3 DEF Tells
    <3> QED BY <3>1, <3>4, <3>5 DEF Tells
  <2> QED BY <2>1, <2>2
<1>11. AckInMiddle'
  <2>1. \A i \in DOMAIN inbox[1] : ~AckAt(1, i)
    BY <1>3 DEF Followed, AckInMiddle, AckedBy, Tips
  <2>2. \A i \in DOMAIN inbox'[1] : ~AckAt(1, i)'
    BY <1>5, <2>1 DEF AckAt
  <2> QED BY <2>2 DEF AckInMiddle
<1>12. Back'
  BY DEF Back
<1>13. Serves'
  <2>1. SUFFICES ASSUME Assured(0)' PROVE hold'[1] = hold'[0]
    BY DEF Serves
  <2>2. hold'[0] = hold[0] /\ hold'[1] = inbox[1][1].about
    BY DEF Tips
  <2>3. CASE e = 0 /\ stage[0] = "listen"
    BY <2>2, <2>3 DEF Followed, ToldBefore
  <2>4. CASE e = 0 /\ stage[0] # "listen"
    <3>1. Saying(0)
      BY <1>3, <2>1, <2>4 DEF Assured, Tips
    <3>2. inbox[1][1].id = Number(0)
      BY <1>7, <2>1, <2>4, <3>1 DEF Followed, Tells
    <3> QED BY <2>2, <2>4, <3>1, <3>2 DEF Followed, Tells
  <2>5. CASE e = 2
    <3>1. Assured(0)
      BY <1>1, <1>6, <2>1, <2>5
    <3>2. hold[1] = hold[0] /\ stage[1] = "back"
      BY <3>1 DEF Followed, Serves
    <3> QED BY <2>2, <2>5, <3>2 DEF Followed, Back
  <2> QED BY <2>3, <2>4, <2>5 DEF Tips
<1> QED BY <1>2, <1>8, <1>9, <1>10, <1>11, <1>12, <1>13 DEF Followed, Tips


(* An end has the acknowledgement it was waiting for.                      *)
LEMMA EndAcked ==
  ASSUME Placed, Followed, NEW e \in Tips, UNCHANGED <<hold>>,
         stage[e] = "await", stage'[e] = "listen", id' = [id EXCEPT ![e] = Number(e)],
         1 \in DOMAIN inbox[e], IsItsAck(e, 1),
         \A n \in Stations : n # e => stage'[n] = stage[n],
         Turned(1, 0, {}), Turned(e, 1, {}), Turned(2 - e, 0, {})
  PROVE  Followed'
<1>1. PICK d \in Tips : d = 2 - e
  BY DEF Tips
<1>2. /\ d # e /\ d \in Stations /\ 1 \in Stations /\ e \in Stations /\ e # 1 /\ d # 1
      /\ Tips = {d, e} /\ Turned(d, 0, {})
  BY <1>1 DEF Tips, Stations
<1>3. /\ id'[e] = Number(e) /\ id'[d] = id[d] /\ id'[1] = id[1]
  BY <1>2 DEF Placed, ExchangeTypes
<1>4. Number(d)' = Number(d) /\ Number(1)' = Number(1)
  BY <1>3 DEF Number
<1>5. /\ stage'[d] = stage[d] /\ stage'[1] = stage[1] /\ (Saying(d)' <=> Saying(d))
      /\ \A n : Towards(n)' <=> Towards(n)
      /\ Saying(e) /\ Assured(e) /\ ~Saying(e)'
  BY <1>2 DEF Saying, Towards, Assured
<1>6. Assured(d)' => Assured(d)
  BY <1>2, <1>4, <1>5 DEF Assured, Turned, IsItsAck, AckAt
<1>7. AtEnd(e)'
  <2>1. \A i \in DOMAIN inbox'[e] :
           i \in Int /\ 1 < i + 1 /\ i + 1 \in DOMAIN inbox[e] /\ inbox'[e][i] = inbox[e][i + 1]
    BY DEF Turned
  <2>2. AtEnd(e)
    BY DEF Followed, Tips
  <2>3. \A i \in DOMAIN inbox'[e] : inbox'[e][i].src = 1
    BY <2>1, <2>2 DEF AtEnd
  <2>4. Awaits(e)'
    BY <1>5 DEF Awaits
  <2>5. \A i \in DOMAIN inbox'[e] : AckAt(e, i)' => inbox'[e][i].id = id'[e]
    BY <1>3, <1>5, <2>1, <2>2 DEF AtEnd, Awaits, IsItsAck, AckAt
  <2>6. \A i \in DOMAIN inbox'[e] : DataAt(e, i)' => Current(e, i)'
    BY <1>4, <1>5, <2>1, <2>2 DEF AtEnd, Awaits, Current, DataAt
  <2> QED BY <2>3, <2>4, <2>5, <2>6 DEF AtEnd, Listens
<1>8. AtEnd(d)'
  <2>1. \A i \in DOMAIN inbox'[d] :
           i \in Int /\ i \in DOMAIN inbox[d] /\ inbox'[d][i] = inbox[d][i]
    BY <1>2 DEF Turned
  <2>2. AtEnd(d)
    BY DEF Followed, Tips
  <2>3. \A i \in DOMAIN inbox'[d] : Current(d, i) => Current(d, i)'
    BY <1>4, <1>5, <2>1 DEF Current
  <2>4. Listens(d)'
    BY <1>3, <1>5, <2>1, <2>2, <2>3 DEF AtEnd, Listens, AckAt, DataAt
  <2>5. Awaits(d)'
    BY <1>3, <1>4, <1>5, <2>1, <2>2, <2>3 DEF AtEnd, Awaits, AckAt, DataAt, IsItsAck
  <2> QED BY <2>1, <2>2, <2>4, <2>5 DEF AtEnd
<1>9. \A i \in DOMAIN inbox'[1] :
           i \in Int /\ i \in DOMAIN inbox[1] /\ inbox'[1][i] = inbox[1][i]
  BY DEF Turned
<1>10. ToldBefore(d)' /\ Tells(d)'
  <2>1. ToldBefore(d) /\ Tells(d)
    BY DEF Followed, Tips
  <2>2. ToldBefore(d)'
    BY <1>3, <1>5, <1>9, <2>1 DEF ToldBefore, From, DataAt
  <2>3. Tells(d)'
    BY <1>3, <1>4, <1>5, <1>6, <1>9, <2>1 DEF Tells, From, DataAt
  <2> QED BY <2>2, <2>3
<1>11. ToldBefore(e)' /\ Tells(e)'
  <2>1. Tells(e)
    BY DEF Followed, Tips
  <2> QED BY <1>3, <1>5, <1>9, <2>1 DEF ToldBefore, Tells, From, DataAt
<1>12. AckInMiddle'
  <2>1. \A i \in DOMAIN inbox'[1] : AckAt(1, i)' => AckAt(1, i)
    BY <1>9 DEF AckAt
  <2>2. \A i \in DOMAIN inbox'[1] : ~AckedBy(e, i)
    BY <1>5 DEF AckedBy
  <2>3. ASSUME NEW i \in DOMAIN inbox'[1], AckedBy(d, i) PROVE AckedBy(d, i)'
    BY <1>4, <1>5, <1>6, <1>9, <2>3 DEF AckedBy, From, DataAt
  <2> QED BY <1>2, <1>9, <2>1, <2>2, <2>3 DEF Followed, AckInMiddle, Tips
<1>13. Back'
  <2>1. CASE e = 2
    BY <1>5, <2>1 DEF Followed, Back
  <2>2. CASE e # 2
    <3>1. d = 2
      BY <1>2, <2>2 DEF Tips
    <3> QED BY <1>5, <1>6, <1>9, <3>1 DEF Followed, Back, From, DataAt
  <2> QED BY <2>1, <2>2
<1>14. Serves'
  <2>1. Assured(0)' => Assured(0)
    BY <1>2, <1>5, <1>6 DEF Tips
  <2> QED BY <1>2, <1>5, <2>1 DEF Followed, Serves
<1> QED BY <1>2, <1>7, <1>8, <1>10, <1>11, <1>12, <1>13, <1>14 DEF Followed, Tips

(* The middle has the acknowledgement it was waiting for.                  *)
LEMMA MiddleAcked ==
  ASSUME Placed, Followed, UNCHANGED <<hold>>,
         stage'[1] = IF stage[1] = "onAwait" THEN "back" ELSE "listen",
         stage[1] \in {"await", "onAwait"}, id' = [id EXCEPT ![1] = Number(1)],
         1 \in DOMAIN inbox[1], AckAt(1, 1),
         \A n \in Tips : stage'[n] = stage[n],
         Turned(1, 1, {}), Turned(0, 0, {}), Turned(2, 0, {})
  PROVE  Followed'
<1>1. PICK e \in Tips : AckedBy(e, 1)
  BY DEF Followed, AckInMiddle, Tips
<1>2. PICK d \in Tips : d = 2 - e
  BY DEF Tips
<1>3. /\ d # e /\ d \in Stations /\ 1 \in Stations /\ e \in Stations /\ e # 1 /\ d # 1
      /\ Tips = {d, e} /\ Turned(d, 0, {}) /\ Turned(e, 0, {})
  BY <1>2 DEF Tips, Stations
<1>4. /\ Towards(e) /\ ~Towards(d) /\ ~Assured(e) /\ \A n : ~Towards(n)'
      /\ stage'[1] = IF e = 0 THEN "listen" ELSE "back"
  BY <1>1, <1>3 DEF AckedBy, Towards, Tips
<1>5. \A n \in Tips : /\ id'[n] = id[n] /\ Number(n)' = Number(n) /\ stage'[n] = stage[n]
                      /\ (Saying(n)' <=> Saying(n))
  BY DEF Placed, ExchangeTypes, Tips, Stations, Number, Saying
<1>6. ASSUME NEW n \in Tips PROVE Assured(n)' => Assured(n)
  <2>1. Turned(n, 0, {})
    BY <1>3
  <2> QED BY <1>5, <2>1 DEF Assured, Turned, IsItsAck, AckAt
<1>7. ASSUME NEW n \in Tips PROVE AtEnd(n)'
  <2>1. \A i \in DOMAIN inbox'[n] :
           i \in Int /\ i \in DOMAIN inbox[n] /\ inbox'[n][i] = inbox[n][i]
    BY <1>3 DEF Turned
  <2>2. AtEnd(n)
    BY DEF Followed, Tips
  <2>3. /\ stage[n] = "listen" => n = d
        /\ Saying(n) /\ n # d => \A i \in DOMAIN inbox[n] : ~IsItsAck(n, i)
        /\ \A i : ~Current(d, i)
    BY <1>3, <1>4 DEF Assured, Current
  <2>4. Listens(n)'
    BY <1>5, <2>1, <2>2, <2>3 DEF AtEnd, Listens, AckAt, DataAt
  <2>5. Awaits(n)'
    BY <1>5, <2>1, <2>2, <2>3 DEF AtEnd, Awaits, AckAt, DataAt, IsItsAck
  <2> QED BY <2>1, <2>2, <2>4, <2>5 DEF AtEnd
<1>8. \A i \in DOMAIN inbox'[1] :
           i \in Int /\ 1 < i + 1 /\ i + 1 \in DOMAIN inbox[1] /\ inbox'[1][i] = inbox[1][i + 1]
  BY DEF Turned
<1>9. ASSUME NEW n \in Tips PROVE ToldBefore(n)' /\ Tells(n)'
  <2>1. ToldBefore(n) /\ Tells(n)
    BY DEF Followed, Tips
  <2>2. ToldBefore(n)'
    BY <1>5, <1>8, <2>1 DEF ToldBefore, From, DataAt
  <2>3. Tells(n)'
    BY <1>5, <1>6, <1>8, <2>1 DEF Tells, From, DataAt
  <2> QED BY <2>2, <2>3
<1>10. AckInMiddle'
  <2>1. \A i \in DOMAIN inbox[1] : AckAt(1, i) => i = 1
    BY DEF Followed, AckInMiddle
  <2>2. \A i \in DOMAIN inbox'[1] : ~AckAt(1, i)'
    BY <1>8, <2>1 DEF AckAt
  <2> QED BY <2>2 DEF AckInMiddle
<1>11. Back'
  <2>1. CASE e = 0
    BY <1>4, <2>1 DEF Back
  <2>2. CASE e = 2
    <3>1. /\ Saying(2)' /\ ~Assured(2)' /\ hold'[2] = hold'[1]
      BY <1>1, <1>4, <1>5, <1>6, <2>2 DEF AckedBy, Tips
    <3>2. \A i \in DOMAIN inbox'[1] : From(2, i)' => inbox'[1][i].about = hold'[1]
      BY <1>1, <1>8, <2>2 DEF AckedBy, From, DataAt
    <3> QED BY <3>1, <3>2 DEF Back
  <2> QED BY <2>1, <2>2 DEF Tips
<1>12. Serves'
  <2>1. Assured(0)' => Assured(0)
    BY <1>6 DEF Tips
  <2>2. CASE e = 0
    BY <1>4, <2>1, <2>2 DEF Serves
  <2>3. CASE e = 2
    BY <1>4, <2>1, <2>3 DEF Followed, Serves
  <2> QED BY <2>2, <2>3 DEF Tips
<1> QED BY <1>7, <1>9, <1>10, <1>11, <1>12 DEF Followed, Tips

-----------------------------------------------------------------------------
(* The four things a step can make of the radios.                          *)
LEMMA UnturnedRadio ==
  ASSUME ExchangeTypes, NEW n \in Stations, inbox'[n] = inbox[n]
  PROVE  Turned(n, 0, {})
<1>1. inbox[n] \in Seq(Frames)
  BY DEF ExchangeTypes
<1>2. \A i \in DOMAIN inbox[n] : i \in Int /\ i >= 1 /\ i + 0 = i
  BY <1>1, LenProperties
<1> QED BY <1>2 DEF Turned

LEMMA TakenRadio ==
  ASSUME ExchangeTypes, NEW n \in Stations, inbox[n] # <<>>, inbox'[n] = Tail(inbox[n])
  PROVE  Turned(n, 1, {})
<1>1. inbox[n] \in Seq(Frames)
  BY DEF ExchangeTypes
<1>2. \A i \in DOMAIN Tail(inbox[n]) :
        i \in Int /\ i >= 1 /\ i + 1 \in DOMAIN inbox[n] /\ Tail(inbox[n])[i] = inbox[n][i + 1]
  BY <1>1, Dropped
<1> QED BY <1>2 DEF Turned

LEMMA HearingRadio ==
  ASSUME ExchangeTypes, NEW n \in Stations, NEW f \in Frames, inbox'[n] = Append(inbox[n], f)
  PROVE  Turned(n, 0, {f})
<1>1. inbox[n] \in Seq(Frames)
  BY DEF ExchangeTypes
<1>2. /\ Append(inbox[n], f) \in Seq(Frames)
      /\ Len(inbox[n]) \in Nat
      /\ \A i \in DOMAIN Append(inbox[n], f) :
           i \in Int /\ (\/ i \in DOMAIN inbox[n] /\ Append(inbox[n], f)[i] = inbox[n][i]
                         \/ i = Len(inbox[n]) + 1 /\ Append(inbox[n], f)[i] = f)
      /\ \A i \in DOMAIN inbox[n] : i \in Int /\ i <= Len(inbox[n])
  BY <1>1, Added, LenProperties
<1>3. \A i \in DOMAIN Append(inbox[n], f) : i >= 1 /\ i + 0 = i
  BY <1>2, LenProperties
<1>4. \A i \in DOMAIN Append(inbox[n], f) : i <= Len(inbox[n]) + 1
  BY <1>2
<1> QED BY <1>2, <1>3, <1>4 DEF Turned

LEMMA MoreTurned ==
  ASSUME NEW n, NEW d, NEW F, NEW G, Turned(n, d, F), F \subseteq G
  PROVE  Turned(n, d, G)
BY DEF Turned

(* A station's radio after its own step, and the others' radios.           *)
LEMMA CarriedTurns ==
  ASSUME ExchangeTypes, NEW n \in Stations, NEW f \in Frames, Carry(f, n, inbox)
  PROVE  /\ Turned(n, 0, {})
         /\ \A m \in Stations : Turned(m, 0, IF m = f.dst THEN {f} ELSE {})
<1>0. inbox \in [Stations -> Seq(Frames)]
  BY DEF ExchangeTypes
<1>1. \/ inbox' = inbox
      \/ /\ f.dst \in Stations /\ f.dst # n
         /\ inbox' = [inbox EXCEPT ![f.dst] = Append(inbox[f.dst], f)]
  BY <1>0, Carried
<1>2. ASSUME NEW m \in Stations
      PROVE  inbox'[m] = inbox[m] \/ (m = f.dst /\ m # n /\ inbox'[m] = Append(inbox[m], f))
  <2>1. CASE m = f.dst
    BY <1>0, <1>1, <2>1
  <2>2. CASE m # f.dst
    BY <1>0, <1>1, <2>2
  <2> QED BY <2>1, <2>2
<1>3. ASSUME NEW m \in Stations PROVE Turned(m, 0, IF m = f.dst THEN {f} ELSE {})
  <2>1. CASE inbox'[m] = inbox[m]
    BY <2>1, UnturnedRadio, MoreTurned
  <2>2. CASE m = f.dst /\ inbox'[m] = Append(inbox[m], f)
    BY <2>2, HearingRadio
  <2> QED BY <1>2, <2>1, <2>2
<1>4. inbox'[n] = inbox[n]
  BY <1>2
<1> QED BY <1>3, <1>4, UnturnedRadio

LEMMA TakenTurns ==
  ASSUME ExchangeTypes, NEW n \in Stations, inbox[n] # <<>>,
         NEW f \in Frames, Carry(f, n, Taken(n))
  PROVE  /\ Turned(n, 1, {})
         /\ \A m \in Stations : m # n => Turned(m, 0, IF m = f.dst THEN {f} ELSE {})
<1>0. inbox \in [Stations -> Seq(Frames)] /\ Taken(n) \in [Stations -> Seq(Frames)]
  BY TakenTypes DEF ExchangeTypes
<1>1. \/ inbox' = Taken(n)
      \/ /\ f.dst \in Stations /\ f.dst # n
         /\ inbox' = [Taken(n) EXCEPT ![f.dst] = Append(Taken(n)[f.dst], f)]
  BY <1>0, Carried
<1>2. \A m \in Stations : Taken(n)[m] = IF m = n THEN Tail(inbox[n]) ELSE inbox[m]
  BY <1>0 DEF Taken
<1>3. inbox'[n] = Tail(inbox[n])
  BY <1>0, <1>1, <1>2
<1>4. ASSUME NEW m \in Stations, m # n
      PROVE  inbox'[m] = inbox[m] \/ (m = f.dst /\ inbox'[m] = Append(inbox[m], f))
  <2>0. Taken(n)[m] = inbox[m]
    BY <1>2, <1>4
  <2>1. CASE m = f.dst
    BY <1>0, <1>1, <2>0, <2>1
  <2>2. CASE m # f.dst
    BY <1>0, <1>1, <2>0, <2>2
  <2> QED BY <2>1, <2>2
<1>5. ASSUME NEW m \in Stations, m # n PROVE Turned(m, 0, IF m = f.dst THEN {f} ELSE {})
  <2>1. CASE inbox'[m] = inbox[m]
    BY <2>1, UnturnedRadio, MoreTurned
  <2>2. CASE m = f.dst /\ inbox'[m] = Append(inbox[m], f)
    BY <2>2, HearingRadio
  <2> QED BY <1>4, <1>5, <2>1, <2>2
<1> QED BY <1>3, <1>5, TakenRadio

LEMMA DroppedTurns ==
  ASSUME ExchangeTypes, NEW n \in Stations, inbox[n] # <<>>, inbox' = Taken(n)
  PROVE  Turned(n, 1, {}) /\ \A m \in Stations : m # n => Turned(m, 0, {})
<1>1. \A m \in Stations : inbox'[m] = IF m = n THEN Tail(inbox[n]) ELSE inbox[m]
  BY DEF Taken, ExchangeTypes
<1> QED BY <1>1, TakenRadio, UnturnedRadio

-----------------------------------------------------------------------------
(* The answer comes back the way the request went.                         *)
Straight == layout = "chain" => peer[2] = 1

LEMMA FollowedSendFrame ==
  ASSUME Placed, Followed, Straight, NEW n \in Stations, SendFrame(n)
  PROVE  Followed'
<1>0. ExchangeTypes /\ Posts /\ stage[n] \in {"send", "onSend"}
  BY DEF Placed, SendFrame
<1>1. PICK f \in Frames : f = Sentence(n)
  BY <1>0, SentenceIsFrame
<1>2. /\ f.kind = "data" /\ f.src = n /\ f.dst = To(n) /\ f.id = Number(n) /\ f.about = hold[n]
  BY <1>1 DEF Sentence
<1>3. \A m \in Stations : Turned(m, 0, IF m = To(n) THEN {f} ELSE {})
  <2>1. Carry(f, n, inbox)
    BY <1>1 DEF SendFrame, Sentence
  <2> QED BY <1>0, <1>2, <2>1, CarriedTurns
<1>4. /\ stage' = [stage EXCEPT ![n] = IF stage[n] = "send" THEN "await" ELSE "onAwait"]
      /\ UNCHANGED <<id, hold>>
  BY DEF SendFrame
<1>5. /\ \A e \in Tips : /\ Saying(e)' <=> Saying(e)
                         /\ stage'[e] = "listen" <=> stage[e] = "listen"
                         /\ Towards(e)' <=> Towards(e)
      /\ stage'[1] = "back" <=> stage[1] = "back"
      /\ stage'[1] = "listen" <=> stage[1] = "listen"
  BY <1>0, <1>4 DEF ExchangeTypes, Posts, Tips, Stations, Saying, Towards
<1>6. CASE n \in Tips
  <2>1. To(n) = 1 /\ Saying(n)
    BY <1>0, <1>6, ToNeighbour DEF Tips, Straight, Saying
  <2>2. Turned(0, 0, {}) /\ Turned(1, 0, {f}) /\ Turned(2, 0, {})
    BY <1>3, <2>1 DEF Stations
  <2> QED BY <1>2, <1>4, <1>5, <1>6, <2>1, <2>2, SaidAgain
<1>7. CASE n = 1
  <2>1. Turned(1, 0, {})
    BY <1>0, <1>3, <1>7, ToNeighbour DEF Stations
  <2>2. CASE stage[1] = "send"
    <3>1. To(n) = 0 /\ Towards(0)
      BY <1>0, <1>7, <2>2, ToNeighbour DEF Towards
    <3>2. Turned(0, 0, {f}) /\ Turned(2, 0, {})
      BY <1>3, <3>1 DEF Stations
    <3> QED BY <1>2, <1>4, <1>5, <1>7, <2>1, <3>1, <3>2, SaidAgain DEF SaidByMiddle
  <2>3. CASE stage[1] # "send"
    <3>1. To(n) = 2 /\ Towards(2)
      BY <1>0, <1>7, <2>3, ToNeighbour DEF Towards
    <3>2. Turned(0, 0, {}) /\ Turned(2, 0, {f})
      BY <1>3, <3>1 DEF Stations
    <3> QED BY <1>2, <1>4, <1>5, <1>7, <2>1, <3>1, <3>2, SaidAgain DEF SaidByMiddle
  <2> QED BY <2>2, <2>3
<1> QED BY <1>6, <1>7 DEF Stations, Tips

LEMMA NothingSaid ==
  ASSUME Followed, UNCHANGED <<id, hold>>,
         NEW d0 \in {0, 1}, NEW d1 \in {0, 1}, NEW d2 \in {0, 1},
         Turned(0, d0, {}), Turned(1, d1, {}), Turned(2, d2, {}),
         \A e \in Tips : /\ Saying(e)' <=> Saying(e)
                         /\ stage'[e] = "listen" <=> stage[e] = "listen"
                         /\ Towards(e)' <=> Towards(e),
         stage'[1] = "back" <=> stage[1] = "back",
         stage'[1] = "listen" <=> stage[1] = "listen"
  PROVE  Followed'
BY SaidAgain

(* A frame that is of no use is dropped, or a deadline passes.             *)
LEMMA FollowedDropping ==
  ASSUME Placed, Followed, NEW n \in Stations, inbox[n] # <<>>, inbox' = Taken(n),
         UNCHANGED <<id, hold, stage>>
  PROVE  Followed'
<1>1. Turned(n, 1, {}) /\ \A m \in Stations : m # n => Turned(m, 0, {})
  BY DroppedTurns DEF Placed
<1>3. /\ \A e \in Tips : /\ Saying(e)' <=> Saying(e)
                         /\ stage'[e] = "listen" <=> stage[e] = "listen"
                         /\ Towards(e)' <=> Towards(e)
      /\ stage'[1] = "back" <=> stage[1] = "back"
      /\ stage'[1] = "listen" <=> stage[1] = "listen"
  BY DEF Saying, Towards
<1>4. CASE n = 0
  <2>1. Turned(0, 1, {}) /\ Turned(1, 0, {}) /\ Turned(2, 0, {})
    BY <1>1, <1>4 DEF Stations
  <2> QED BY <1>3, <2>1, NothingSaid
<1>5. CASE n = 1
  <2>1. Turned(0, 0, {}) /\ Turned(1, 1, {}) /\ Turned(2, 0, {})
    BY <1>1, <1>5 DEF Stations
  <2> QED BY <1>3, <2>1, NothingSaid
<1>6. CASE n = 2
  <2>1. Turned(0, 0, {}) /\ Turned(1, 0, {}) /\ Turned(2, 1, {})
    BY <1>1, <1>6 DEF Stations
  <2> QED BY <1>3, <2>1, NothingSaid
<1> QED BY <1>4, <1>5, <1>6 DEF Stations

LEMMA FollowedAwaitAck ==
  ASSUME Placed, Followed, NEW n \in Stations, AwaitAck(n)
  PROVE  Followed'
<1>0. ExchangeTypes /\ Posts /\ stage[n] \in {"await", "onAwait"} /\ inbox[n] # <<>>
  BY DEF Placed, AwaitAck
<1>1. UNCHANGED hold /\ inbox' = Taken(n)
  BY DEF AwaitAck, Flushed, Taken
<1>2. CASE ~IsAckOf(Head(inbox[n]), n)
  <2>1. UNCHANGED <<id, stage>>
    BY <1>2 DEF AwaitAck
  <2> QED BY <1>0, <1>1, <2>1, FollowedDropping
<1>3. CASE IsAckOf(Head(inbox[n]), n)
  <2>1. /\ stage' = [stage EXCEPT ![n] = IF stage[n] = "onAwait" THEN "back" ELSE "listen"]
        /\ id' = [id EXCEPT ![n] = Number(n)]
    BY <1>3 DEF AwaitAck, SendReturns, AfterSend
  <2>2. /\ 1 \in DOMAIN inbox[n] /\ inbox[n][1].kind = "ack" /\ inbox[n][1].id = Number(n)
    BY <1>0, <1>3, TakenTypes DEF IsAckOf
  <2>3. Turned(n, 1, {}) /\ \A m \in Stations : m # n => Turned(m, 0, {})
    BY <1>0, <1>1, DroppedTurns
  <2>4. CASE n \in Tips
    <3>1. stage[n] = "await" /\ stage'[n] = "listen" /\ IsItsAck(n, 1)
      BY <1>0, <2>1, <2>2, <2>4 DEF Posts, ExchangeTypes, Tips, IsItsAck, AckAt
    <3>2. \A m \in Stations : m # n => stage'[m] = stage[m]
      BY <1>0, <2>1 DEF ExchangeTypes
    <3>3. Turned(1, 0, {}) /\ Turned(2 - n, 0, {})
      BY <2>3, <2>4 DEF Tips, Stations
    <3> QED BY <1>1, <2>1, <2>2, <2>3, <2>4, <3>1, <3>2, <3>3, EndAcked
  <2>5. CASE n = 1
    <3>1. /\ stage'[1] = IF stage[1] = "onAwait" THEN "back" ELSE "listen"
          /\ \A m \in Tips : stage'[m] = stage[m]
      BY <1>0, <2>1, <2>5 DEF ExchangeTypes, Tips, Stations
    <3>2. Turned(1, 1, {}) /\ Turned(0, 0, {}) /\ Turned(2, 0, {}) /\ AckAt(1, 1)
      BY <2>2, <2>3, <2>5 DEF Stations, AckAt
    <3> QED BY <1>0, <1>1, <2>1, <2>2, <2>5, <3>1, <3>2, MiddleAcked
  <2> QED BY <2>4, <2>5 DEF Stations, Tips
<1> QED BY <1>2, <1>3

LEMMA FollowedAwaitExpires ==
  ASSUME Placed, Followed, vain = 0, vain' = 0, NEW n \in Stations, AwaitExpires(n)
  PROVE  Followed'
<1>0. ExchangeTypes /\ Posts /\ stage[n] \in {"await", "onAwait"}
  BY DEF Placed, AwaitExpires
<1>1. /\ stage' = [stage EXCEPT ![n] = IF stage[n] = "await" THEN "send" ELSE "onSend"]
      /\ UNCHANGED <<id, hold, inbox>>
  BY DEF AwaitExpires
<1>2. /\ \A e \in Tips : /\ Saying(e)' <=> Saying(e)
                         /\ stage'[e] = "listen" <=> stage[e] = "listen"
                         /\ Towards(e)' <=> Towards(e)
      /\ stage'[1] = "back" <=> stage[1] = "back"
      /\ stage'[1] = "listen" <=> stage[1] = "listen"
  BY <1>0, <1>1 DEF ExchangeTypes, Posts, Tips, Stations, Saying, Towards
<1>3. Turned(0, 0, {}) /\ Turned(1, 0, {}) /\ Turned(2, 0, {})
  BY <1>0, <1>1, UnturnedRadio DEF Stations
<1> QED BY <1>1, <1>2, <1>3, SaidAgain

LEMMA FollowedRecv ==
  ASSUME Placed, Followed, InRound, NEW n \in Stations, Recv(n)
  PROVE  Followed' /\ InRound'
<1>0. ExchangeTypes /\ Posts /\ stage[n] \in {"listen", "back"} /\ inbox[n] # <<>>
  BY DEF Placed, Recv
<1>1. UNCHANGED <<id, layout>>
  BY DEF Recv, place
<1>2. PICK f \in Frames : /\ f = Head(inbox[n]) /\ 1 \in DOMAIN inbox[n] /\ f = inbox[n][1]
                          /\ f.src # n
  BY <1>0, TakenTypes
<1>3. CASE f.kind # "data"
  <2>1. inbox' = Taken(n) /\ UNCHANGED <<stage, hold, answers>>
    BY <1>2, <1>3 DEF Recv
  <2>2. Followed'
    BY <1>0, <1>1, <2>1, FollowedDropping
  <2> QED BY <2>1, <2>2 DEF InRound
<1>4. CASE f.kind = "data"
  <2>1. Concluded(n, f.about) /\ f.about \in Nat /\ f.about # 0 /\ f.src \in Stations
    BY <1>2, <1>4, FrameKinds DEF Recv
  <2>2. PICK a \in Frames : a = AckTo(n, f)
    BY <1>4, FrameKinds DEF AckTo, Frames, Acks
  <2>3. a.kind = "ack" /\ a.src = n /\ a.dst = f.src /\ a.id = f.id
    BY <2>2 DEF AckTo
  <2>4. /\ Turned(n, 1, {})
        /\ \A m \in Stations : m # n => Turned(m, 0, IF m = f.src THEN {a} ELSE {})
    <3>1. Carry(a, n, Taken(n))
      BY <1>2, <1>4, <2>2 DEF Recv, AckTo
    <3> QED BY <1>0, <2>3, <3>1, TakenTurns
  <2>5. CASE n \in Tips
    <3>1. stage[n] = "listen" /\ DataAt(n, 1) /\ f.src = 1 /\ Current(n, 1)
      BY <1>0, <1>2, <1>4, <2>5 DEF Posts, Tips, DataAt, Followed, AtEnd, Listens
    <3>2. Turned(1, 0, {a}) /\ Turned(2 - n, 0, {})
      BY <2>4, <2>5, <3>1 DEF Tips, Stations
    <3>3. /\ \A m \in Stations : m # n => stage'[m] = stage[m] /\ hold'[m] = hold[m]
          /\ stage'[n] \in {"send", "done"}
          /\ n = 2 => /\ stage'[2] = "send" /\ hold'[2] = f.about /\ answers' = answers
          /\ n = 0 => answers' = Append(answers, f.about)
      <4>1. CASE n = 0
        BY <1>0, <2>1, <4>1 DEF Concluded, Role, ExchangeTypes
      <4>2. CASE n = 2
        <5>1. Role(2) = "rx"
          BY <1>0, <3>1, <4>2 DEF Role, Posts
        <5> QED BY <1>0, <2>1, <4>2, <5>1 DEF Concluded, ExchangeTypes
      <4> QED BY <2>5, <4>1, <4>2 DEF Tips
    <3>4. Followed'
      <4>1. \A g \in {a} : g.kind = "ack" /\ g.id = inbox[n][1].id
        BY <1>2, <2>3
      <4> QED BY <1>1, <1>2, <2>4, <2>5, <3>1, <3>2, <3>3, <4>1, EndTakes
    <3>5. InRound'
      <4>1. CASE n = 0
        <5>1. f.about = hold[0] /\ hold[0] = Len(answers) + 1
          BY <1>0, <1>2, <3>1, <4>1 DEF Followed, Serves, Assured, Current, Posts
        <5>2. answers \in Seq(Nat)
          BY <1>0 DEF ExchangeTypes
        <5>3. \A r \in DOMAIN Append(answers, f.about) :
                 \/ r \in DOMAIN answers /\ Append(answers, f.about)[r] = answers[r]
                 \/ r = Len(answers) + 1 /\ Append(answers, f.about)[r] = f.about
          BY <2>1, <5>2, Added
        <5> QED BY <3>3, <4>1, <5>1, <5>3 DEF InRound
      <4>2. CASE n = 2
        BY <3>3, <4>2 DEF InRound
      <4> QED BY <2>5, <4>1, <4>2 DEF Tips
    <3> QED BY <3>4, <3>5
  <2>6. CASE n = 1
    <3>1. PICK e \in Tips : e = f.src
      BY <1>2, <2>1, <2>6 DEF Tips, Stations
    <3>2. From(e, 1)
      BY <1>2, <1>4, <2>6, <3>1 DEF From, DataAt
    <3>3. Turned(e, 0, {a}) /\ Turned(2 - e, 0, {}) /\ Turned(1, 1, {})
      BY <2>4, <2>6, <3>1 DEF Tips, Stations
    <3>4. /\ \A m \in Stations : m # 1 => stage'[m] = stage[m] /\ hold'[m] = hold[m]
          /\ stage'[1] \in {"send", "onSend"} /\ hold'[1] = f.about /\ answers' = answers
      <4>1. hold' = [hold EXCEPT ![1] = f.about] /\ hold'[1] = f.about /\ answers' = answers
        BY <1>0, <2>1, <2>6 DEF Concluded, Role, ExchangeTypes, Stations
      <4>2. PICK s \in {"send", "onSend"} : stage' = [stage EXCEPT ![1] = s]
        BY <1>0, <2>1, <2>6, <4>1 DEF Concluded, Role
      <4> QED BY <1>0, <4>1, <4>2 DEF ExchangeTypes, Stations
    <3>5. Followed'
      <4>1. \A g \in {a} : g.kind = "ack" /\ g.src = 1 /\ g.id = inbox[1][1].id
        BY <1>2, <2>3, <2>6
      <4>2. \A m \in Tips : stage'[m] = stage[m] /\ hold'[m] = hold[m]
        BY <3>4 DEF Tips, Stations
      <4>3. /\ 1 \in DOMAIN inbox[1] /\ stage[1] \in {"listen", "back"}
            /\ hold'[1] = inbox[1][1].about /\ stage'[1] \in {"send", "await", "onSend", "onAwait"}
        BY <1>0, <1>2, <2>6, <3>4
      <4> QED BY <1>1, <3>2, <3>3, <4>1, <4>2, <4>3, MiddleTakes
    <3> QED BY <3>4, <3>5 DEF InRound
  <2> QED BY <2>5, <2>6 DEF Stations, Tips
<1> QED BY <1>3, <1>4

LEMMA FollowedAtFirst == ASSUME ExchangeInit PROVE Followed /\ InRound /\ vain = 0
<1>1. /\ inbox = [n \in Stations |-> <<>>] /\ answers = <<>> /\ vain = 0
      /\ stage[0] \in {"send", "done"} /\ stage[1] = "listen"
      /\ stage[2] \in {"listen", "done"}
      /\ hold[0] = 1 /\ hold[1] = 0
  BY DEF ExchangeInit, Stations, Role
<1>2. \A n \in Stations : DOMAIN inbox[n] = {}
  BY <1>1, EmptySeq
<1>3. DOMAIN answers = {}
  BY <1>1
<1>4. ~Assured(0)
  BY <1>1, <1>2 DEF Assured, Stations
<1>5. \A e \in Tips : AtEnd(e) /\ ToldBefore(e) /\ Tells(e)
  BY <1>2 DEF Tips, Stations, AtEnd, ToldBefore, Tells, Listens, Awaits
<1>6. AckInMiddle /\ Back /\ Serves
  BY <1>1, <1>2, <1>4 DEF AckInMiddle, Back, Serves, Stations
<1> QED BY <1>1, <1>3, <1>5, <1>6 DEF Followed, InRound, Tips

(* As long as nothing has been in vain.                                    *)
Served == vain = 0 /\ Straight => Followed /\ InRound

LEMMA ServedStep ==
  ASSUME Placed, Served, [ExchangeNext]_exchangeVars
  PROVE  Served'
<1>1. SUFFICES ASSUME vain' = 0, Straight' PROVE Followed' /\ InRound'
  BY DEF Served
<1>2. ASSUME NEW n \in Stations, Step(n) PROVE Followed' /\ InRound'
  <2>1. vain \in Nat
    BY DEF Placed, ExchangeTypes
  <2>2. /\ vain' = vain \/ vain' = vain + 1
        /\ UNCHANGED <<layout, peer>>
    BY <1>2 DEF Step, SendFrame, AwaitAck, AwaitExpires, Recv, RecvExpires, place
  <2>3. vain = 0 /\ Straight /\ Followed /\ InRound
    BY <1>1, <2>1, <2>2 DEF Straight, Served
  <2>4. CASE Recv(n)
    BY <2>3, <2>4, FollowedRecv
  <2>5. CASE RecvExpires(n)
    BY <1>1, <2>3, <2>5 DEF RecvExpires
  <2>6. CASE SendFrame(n) \/ AwaitAck(n) \/ AwaitExpires(n)
    <3>1. Followed'
      BY <1>1, <2>3, <2>6, FollowedSendFrame, FollowedAwaitAck, FollowedAwaitExpires
    <3>2. answers' = answers
      BY <2>6 DEF SendFrame, AwaitAck, AwaitExpires
    <3> QED BY <2>3, <3>1, <3>2 DEF InRound
  <2> QED BY <1>2, <2>4, <2>5, <2>6 DEF Step
<1>3. CASE UNCHANGED exchangeVars
  <2>1. /\ Followed /\ InRound /\ UNCHANGED <<id, hold, stage, inbox, answers>>
    BY <1>1, <1>3 DEF exchangeVars, Straight, Served
  <2>2. Turned(0, 0, {}) /\ Turned(1, 0, {}) /\ Turned(2, 0, {})
    BY <2>1, UnturnedRadio DEF Placed, Stations
  <2>3. /\ \A e \in Tips : /\ Saying(e)' <=> Saying(e)
                           /\ stage'[e] = "listen" <=> stage[e] = "listen"
                           /\ Towards(e)' <=> Towards(e)
        /\ stage'[1] = "back" <=> stage[1] = "back"
        /\ stage'[1] = "listen" <=> stage[1] = "listen"
    BY <2>1 DEF Saying, Towards
  <2>4. Followed'
    BY <2>1, <2>2, <2>3, SaidAgain
  <2> QED BY <2>1, <2>4 DEF InRound
<1> QED BY <1>2, <1>3 DEF ExchangeNext

-----------------------------------------------------------------------------
(* Between two nodes, what is on its way is in the order of the rounds:    *)
(* what was adopted, what the answerer has said, what it holds, what it    *)
(* has not taken yet, what the asker holds.                                *)
Sorted(n) == \A i, j \in DOMAIN inbox[n] :
  i < j /\ DataAt(n, i) /\ DataAt(n, j) => inbox[n][i].about <= inbox[n][j].about
Requests == \A i \in DOMAIN inbox[1] :
  DataAt(1, i) => hold[1] <= inbox[1][i].about /\ inbox[1][i].about <= hold[0]
Replies == \A i \in DOMAIN inbox[0] : DataAt(0, i) =>
  /\ inbox[0][i].about <= hold[1]
  /\ \A q \in DOMAIN answers : answers[q] <= inbox[0][i].about
NeverBack == \A r \in DOMAIN answers : answers[r] # 0 => \A q \in 1 .. r : answers[q] <= answers[r]

Ordered == /\ hold[1] <= hold[0] /\ Sorted(0) /\ Sorted(1) /\ Requests /\ Replies
           /\ \A q \in DOMAIN answers : answers[q] <= hold[1]
           /\ NeverBack

LEMMA OrderedMoves ==
  ASSUME Placed, Ordered, UNCHANGED <<hold, answers>>,
         NEW d0 \in {0, 1}, NEW d1 \in {0, 1}, NEW F0, NEW F1,
         Turned(0, d0, F0), Turned(1, d1, F1),
         \A f \in F0 : f.kind = "data" => f.about = hold[1],
         \A f \in F1 : f.kind = "data" => f.about = hold[0]
  PROVE  Ordered'
<1>0. hold[0] \in Nat /\ hold[1] \in Nat
  BY DEF Placed, ExchangeTypes, Stations
<1>1. Sorted(1)' /\ Requests'
  <2>1. Requests'
    BY <1>0 DEF Ordered, Requests, Turned, DataAt
  <2>2. Sorted(1)'
    BY <1>0 DEF Ordered, Sorted, Requests, Turned, DataAt
  <2> QED BY <2>1, <2>2
<1>2. Sorted(0)' /\ Replies'
  <2>1. Replies'
    BY <1>0 DEF Ordered, Replies, Turned, DataAt
  <2>2. Sorted(0)'
    BY <1>0 DEF Ordered, Sorted, Replies, Turned, DataAt
  <2> QED BY <2>1, <2>2
<1> QED BY <1>1, <1>2 DEF Ordered, NeverBack

LEMMA RadioTypes ==
  ASSUME Placed, NEW n \in Stations, NEW i \in DOMAIN inbox[n]
  PROVE  i \in Int /\ i >= 1 /\ (DataAt(n, i) => inbox[n][i].about \in Nat)
<1>1. inbox[n] \in Seq(Frames)
  BY DEF Placed, ExchangeTypes
<1>2. i \in 1 .. Len(inbox[n]) /\ Len(inbox[n]) \in Nat /\ inbox[n][i] \in Frames
  BY <1>1, LenProperties
<1> QED BY <1>2, FrameKinds DEF DataAt

(* The answerer takes a message: its radio's other messages are no older.  *)
LEMMA OrderedTake ==
  ASSUME Placed, Ordered, UNCHANGED answers, hold'[0] = hold[0],
         1 \in DOMAIN inbox[1], DataAt(1, 1), hold'[1] = inbox[1][1].about,
         NEW F0, Turned(0, 0, F0), Turned(1, 1, {}), \A f \in F0 : f.kind # "data"
  PROVE  Ordered'
<1>0. /\ hold[0] \in Nat /\ hold[1] \in Nat /\ hold'[1] \in Nat
      /\ hold[1] <= hold'[1] /\ hold'[1] <= hold'[0]
  <2>1. hold[0] \in Nat /\ hold[1] \in Nat
    BY DEF Placed, ExchangeTypes, Stations
  <2>2. inbox[1][1].about \in Nat
    <3>1. 1 \in Stations
      BY DEF Stations
    <3> QED BY <3>1, RadioTypes
  <2>3. hold[1] <= inbox[1][1].about /\ inbox[1][1].about <= hold[0]
    BY DEF Ordered, Requests
  <2> QED BY <2>1, <2>2, <2>3
<1>1. \A i \in DOMAIN inbox'[1] :
         i \in Int /\ 1 < i + 1 /\ i + 1 \in DOMAIN inbox[1] /\ inbox'[1][i] = inbox[1][i + 1]
  BY DEF Turned
<1>2. \A i \in DOMAIN inbox'[0] : DataAt(0, i)' =>
         i \in Int /\ i \in DOMAIN inbox[0] /\ DataAt(0, i) /\ inbox'[0][i] = inbox[0][i]
  BY DEF Turned, DataAt
<1>3. Requests'
  BY <1>0, <1>1 DEF Ordered, Requests, Sorted, DataAt
<1>4. Sorted(1)'
  BY <1>1 DEF Ordered, Sorted, DataAt
<1>5. Sorted(0)'
  BY <1>2 DEF Ordered, Sorted
<1>6. Replies'
  <2>1. \A i \in DOMAIN inbox[0] : DataAt(0, i) => inbox[0][i].about \in Nat
    BY RadioTypes DEF Stations
  <2> QED BY <1>0, <1>2, <2>1 DEF Ordered, Replies
<1>7. \A q \in DOMAIN answers' : answers'[q] <= hold'[1]
  <2>1. \A q \in DOMAIN answers : answers[q] \in Nat
    BY LenProperties DEF Placed, ExchangeTypes
  <2> QED BY <1>0, <2>1 DEF Ordered
<1> QED BY <1>0, <1>3, <1>4, <1>5, <1>6, <1>7 DEF Ordered, NeverBack

(* The asker adopts what it has heard, or nothing.                         *)
LEMMA OrderedAdopt ==
  ASSUME Placed, Ordered, NEW what \in Nat, answers' = Append(answers, what),
         hold'[0] = hold[0] + 1, hold'[1] = hold[1],
         NEW d \in {0, 1}, NEW F1, Turned(0, d, {}), Turned(1, 0, F1),
         \A f \in F1 : f.kind # "data",
         what # 0 => d = 1 /\ 1 \in DOMAIN inbox[0] /\ DataAt(0, 1) /\ what = inbox[0][1].about
  PROVE  Ordered'
<1>0. /\ hold[0] \in Nat /\ hold[1] \in Nat /\ answers \in Seq(Nat)
      /\ Len(answers) \in Nat /\ DOMAIN answers = 1 .. Len(answers)
      /\ \A q \in DOMAIN answers : answers[q] \in Nat
  <2>1. hold[0] \in Nat /\ hold[1] \in Nat /\ answers \in Seq(Nat)
    BY DEF Placed, ExchangeTypes, Stations
  <2>2. /\ Len(answers) \in Nat /\ DOMAIN answers = 1 .. Len(answers)
        /\ \A q \in 1 .. Len(answers) : answers[q] \in Nat
    BY <2>1, LenProperties
  <2> QED BY <2>1, <2>2
<1>1. /\ answers' \in Seq(Nat) /\ Len(answers') = Len(answers) + 1
      /\ DOMAIN answers' = 1 .. Len(answers) + 1
      /\ \A q \in 1 .. Len(answers) : answers'[q] = answers[q]
      /\ answers'[Len(answers) + 1] = what
  BY <1>0, AppendProperties, LenProperties
<1>2. \A i \in DOMAIN inbox[0] : DataAt(0, i) => i \in Int /\ i >= 1 /\ inbox[0][i].about \in Nat
  BY RadioTypes DEF Stations
<1>3. \A i \in DOMAIN inbox'[0] :
         /\ i \in Int /\ i >= 1 /\ i + d \in DOMAIN inbox[0] /\ inbox'[0][i] = inbox[0][i + d]
         /\ d = 1 => 1 < i + d
  BY DEF Turned
<1>4. /\ what <= hold[1]
      /\ \A i \in DOMAIN inbox'[0] : DataAt(0, i)' => what <= inbox'[0][i].about
      /\ \A q \in DOMAIN answers : what # 0 => answers[q] <= what
  <2>1. CASE what = 0
    BY <1>0, <1>2, <1>3, <2>1 DEF DataAt
  <2>2. CASE what # 0
    BY <1>0, <1>2, <1>3, <2>2 DEF Ordered, Replies, Sorted, DataAt
  <2> QED BY <2>1, <2>2
<1>5. \A i \in DOMAIN inbox'[1] : DataAt(1, i)' =>
         i \in Int /\ i \in DOMAIN inbox[1] /\ DataAt(1, i) /\ inbox'[1][i] = inbox[1][i]
  BY DEF Turned, DataAt
<1>6. Requests'
  <2>1. \A i \in DOMAIN inbox[1] : DataAt(1, i) => inbox[1][i].about \in Nat
    BY RadioTypes DEF Stations
  <2> QED BY <1>0, <1>5, <2>1 DEF Ordered, Requests
<1>7. Sorted(1)'
  BY <1>5 DEF Ordered, Sorted
<1>8. Sorted(0)'
  BY <1>3 DEF Ordered, Sorted, DataAt
<1>9. Replies'
  <2>1. ASSUME NEW i \in DOMAIN inbox'[0], DataAt(0, i)', NEW q \in DOMAIN answers'
        PROVE  inbox'[0][i].about <= hold'[1] /\ answers'[q] <= inbox'[0][i].about
    <3>1. /\ i + d \in DOMAIN inbox[0] /\ DataAt(0, i + d) /\ inbox'[0][i] = inbox[0][i + d]
      BY <1>3, <2>1 DEF DataAt
    <3>2. CASE q = Len(answers) + 1
      BY <1>1, <1>4, <2>1, <3>1, <3>2 DEF Ordered, Replies
    <3>3. CASE q # Len(answers) + 1
      <4>1. q \in DOMAIN answers /\ answers'[q] = answers[q]
        BY <1>0, <1>1, <2>1, <3>3
      <4> QED BY <3>1, <4>1 DEF Ordered, Replies
    <3> QED BY <3>2, <3>3
  <2>2. Len(answers) + 1 \in DOMAIN answers'
    BY <1>0, <1>1
  <2> QED BY <2>1, <2>2 DEF Replies
<1>10. \A q \in DOMAIN answers' : answers'[q] <= hold'[1]
  BY <1>0, <1>1, <1>4 DEF Ordered
<1>11. NeverBack'
  <2>1. ASSUME NEW r \in DOMAIN answers', answers'[r] # 0, NEW q \in 1 .. r
        PROVE  answers'[q] <= answers'[r]
    <3>1. CASE r = Len(answers) + 1
      BY <1>0, <1>1, <1>4, <2>1, <3>1
    <3>2. CASE r # Len(answers) + 1
      <4>1. r \in DOMAIN answers /\ q \in DOMAIN answers
        BY <1>0, <1>1, <2>1, <3>2
      <4> QED BY <1>0, <1>1, <2>1, <4>1 DEF Ordered, NeverBack
    <3> QED BY <3>1, <3>2
  <2> QED BY <2>1 DEF NeverBack
<1>12. hold'[1] <= hold'[0]
  BY <1>0 DEF Ordered
<1> QED BY <1>6, <1>7, <1>8, <1>9, <1>10, <1>11, <1>12 DEF Ordered

LEMMA OrderedStep ==
  ASSUME Placed, layout = "pair" => Ordered, [ExchangeNext]_exchangeVars
  PROVE  layout' = "pair" => Ordered'
<1>0. ExchangeTypes /\ Posts
  BY DEF Placed
<1>1. SUFFICES ASSUME layout' = "pair" PROVE Ordered'
  OBVIOUS
<1>2. layout = "pair" /\ Ordered
  BY <1>1 DEF ExchangeNext, Step, SendFrame, AwaitAck, AwaitExpires, Recv, RecvExpires, place,
     exchangeVars
<1>3. /\ stage[2] = "done" /\ stage[1] \in {"send", "await", "listen"}
      /\ peer[0] = 1 /\ peer[1] = 0 /\ Role(0) = "tx" /\ Role(1) = "rx"
  BY <1>0, <1>2 DEF Posts, Role
<1>4. ASSUME NEW n \in {0, 1}, SendFrame(n) PROVE Ordered'
  <2>1. stage[n] = "send" /\ n \in Stations /\ To(n) = 1 - n /\ UNCHANGED <<hold, answers>>
    BY <1>0, <1>3, <1>4 DEF SendFrame, To, Posts, Stations
  <2>2. PICK f \in Frames : f = Sentence(n)
    BY <2>1, SentenceIsFrame
  <2>3. f.about = hold[n] /\ f.dst = 1 - n
    BY <2>1, <2>2 DEF Sentence
  <2>4. \A m \in Stations : Turned(m, 0, IF m = f.dst THEN {f} ELSE {})
    <3>1. Carry(f, n, inbox)
      BY <1>4, <2>2 DEF SendFrame, Sentence
    <3> QED BY <1>0, <2>1, <3>1, CarriedTurns
  <2>5. CASE n = 0
    <3>1. Turned(0, 0, {}) /\ Turned(1, 0, {f})
      BY <2>3, <2>4, <2>5 DEF Stations
    <3> QED BY <1>2, <2>1, <2>3, <2>5, <3>1, OrderedMoves
  <2>6. CASE n = 1
    <3>1. Turned(0, 0, {f}) /\ Turned(1, 0, {})
      BY <2>3, <2>4, <2>6 DEF Stations
    <3> QED BY <1>2, <2>1, <2>3, <2>6, <3>1, OrderedMoves
  <2> QED BY <2>5, <2>6
<1>5. ASSUME NEW n \in {0, 1}, inbox[n] # <<>>, inbox' = Taken(n), UNCHANGED <<hold, answers>>
      PROVE  Ordered'
  <2>1. \A m \in {0, 1} : Turned(m, IF m = n THEN 1 ELSE 0, {})
    BY <1>0, <1>5, DroppedTurns DEF Stations
  <2>2. CASE n = 0
    <3>1. Turned(0, 1, {}) /\ Turned(1, 0, {})
      BY <2>1, <2>2
    <3> QED BY <1>2, <1>5, <3>1, OrderedMoves
  <2>3. CASE n = 1
    <3>1. Turned(0, 0, {}) /\ Turned(1, 1, {})
      BY <2>1, <2>3
    <3> QED BY <1>2, <1>5, <3>1, OrderedMoves
  <2> QED BY <2>2, <2>3
<1>6. ASSUME UNCHANGED <<inbox, hold, answers>> PROVE Ordered'
  <2>1. Turned(0, 0, {}) /\ Turned(1, 0, {})
    BY <1>0, <1>6, UnturnedRadio DEF Stations
  <2> QED BY <1>2, <1>6, <2>1, OrderedMoves
<1>7. ASSUME NEW n \in {0, 1}, AwaitAck(n) PROVE Ordered'
  <2>1. inbox[n] # <<>> /\ inbox' = Taken(n) /\ UNCHANGED <<hold, answers>>
    BY <1>7 DEF AwaitAck, Flushed, Taken
  <2> QED BY <1>5, <2>1
<1>8. ASSUME NEW n \in {0, 1}, AwaitExpires(n) PROVE Ordered'
  BY <1>6, <1>8 DEF AwaitExpires
<1>9. ASSUME NEW n \in {0, 1}, RecvExpires(n) PROVE Ordered'
  <2>1. Concluded(n, 0) /\ inbox' = inbox
    BY <1>9 DEF RecvExpires
  <2>2. CASE n = 0
    <3>1. answers' = Append(answers, 0) /\ hold' = [hold EXCEPT ![0] = hold[0] + 1]
      BY <1>3, <2>1, <2>2 DEF Concluded
    <3>2. hold'[0] = hold[0] + 1 /\ hold'[1] = hold[1]
      BY <1>0, <3>1 DEF ExchangeTypes, Stations
    <3>3. Turned(0, 0, {}) /\ Turned(1, 0, {})
      BY <1>0, <2>1, UnturnedRadio DEF Stations
    <3> QED BY <1>2, <3>1, <3>2, <3>3, OrderedAdopt
  <2>3. CASE n = 1
    <3>1. hold' = hold /\ answers' = answers
      BY <1>0, <1>3, <2>1, <2>3 DEF Concluded, ExchangeTypes
    <3> QED BY <1>6, <2>1, <3>1
  <2> QED BY <2>2, <2>3
<1>10. ASSUME NEW n \in {0, 1}, Recv(n) PROVE Ordered'
  <2>1. inbox[n] # <<>> /\ n \in Stations
    BY <1>10 DEF Recv, Stations
  <2>2. PICK f \in Frames : /\ f = Head(inbox[n]) /\ 1 \in DOMAIN inbox[n] /\ f = inbox[n][1]
                            /\ f.src # n
    BY <1>0, <2>1, TakenTypes
  <2>3. CASE f.kind # "data"
    <3>1. inbox' = Taken(n) /\ UNCHANGED <<hold, answers>>
      BY <1>10, <2>2, <2>3 DEF Recv
    <3> QED BY <1>5, <2>1, <3>1
  <2>4. CASE f.kind = "data"
    <3>1. Concluded(n, f.about) /\ f.about \in Nat /\ f.about # 0 /\ f.src \in Stations
      BY <1>10, <2>2, <2>4, FrameKinds DEF Recv
    <3>2. PICK a \in Frames : a = AckTo(n, f)
      BY <2>1, <2>4, FrameKinds DEF AckTo, Frames, Acks
    <3>3. a.kind = "ack" /\ a.dst = f.src
      BY <3>2 DEF AckTo
    <3>4. /\ Turned(n, 1, {})
          /\ \A m \in Stations : m # n => Turned(m, 0, IF m = f.src THEN {a} ELSE {})
      <4>1. Carry(a, n, Taken(n))
        BY <1>10, <2>2, <2>4, <3>2 DEF Recv, AckTo
      <4> QED BY <1>0, <2>1, <3>3, <4>1, TakenTurns
    <3>5. \A m \in {0, 1} : m # n => Turned(m, 0, {a})
      BY <3>4, MoreTurned DEF Stations
    <3>6. \A g \in {a} : g.kind # "data"
      BY <3>3
    <3>7. CASE n = 0
      <4>1. answers' = Append(answers, f.about) /\ hold' = [hold EXCEPT ![0] = hold[0] + 1]
        BY <1>3, <3>1, <3>7 DEF Concluded
      <4>2. hold'[0] = hold[0] + 1 /\ hold'[1] = hold[1]
        BY <1>0, <4>1 DEF ExchangeTypes, Stations
      <4>3. Turned(0, 1, {}) /\ Turned(1, 0, {a})
        BY <3>4, <3>5, <3>7
      <4>4. 1 \in DOMAIN inbox[0] /\ DataAt(0, 1) /\ f.about = inbox[0][1].about
        BY <2>2, <2>4, <3>7 DEF DataAt
      <4> QED BY <1>2, <3>1, <3>6, <4>1, <4>2, <4>3, <4>4, OrderedAdopt
    <3>8. CASE n = 1
      <4>1. answers' = answers /\ hold' = [hold EXCEPT ![1] = f.about]
        BY <1>3, <3>1, <3>8 DEF Concluded
      <4>2. hold'[0] = hold[0] /\ hold'[1] = f.about
        BY <1>0, <4>1 DEF ExchangeTypes, Stations
      <4>3. Turned(1, 1, {}) /\ Turned(0, 0, {a})
        BY <3>4, <3>5, <3>8
      <4>4. 1 \in DOMAIN inbox[1] /\ DataAt(1, 1) /\ f.about = inbox[1][1].about
        BY <2>2, <2>4, <3>8 DEF DataAt
      <4> QED BY <1>2, <3>6, <4>1, <4>2, <4>3, <4>4, OrderedTake
    <3> QED BY <3>7, <3>8
  <2> QED BY <2>3, <2>4
<1>11. ~Step(2)
  BY <1>3 DEF Step, SendFrame, AwaitAck, AwaitExpires, Recv, RecvExpires
<1>12. ASSUME ExchangeNext PROVE Ordered'
  <2>1. PICK n \in Stations : Step(n)
    BY <1>12 DEF ExchangeNext
  <2>2. n \in {0, 1}
    BY <1>11, <2>1 DEF Stations
  <2> QED BY <1>4, <1>7, <1>8, <1>9, <1>10, <2>1, <2>2 DEF Step
<1> QED BY <1>6, <1>12 DEF exchangeVars

LEMMA OrderedAtFirst == ASSUME ExchangeInit PROVE Ordered
<1>1. /\ inbox = [n \in Stations |-> <<>>] /\ answers = <<>> /\ hold[0] = 1 /\ hold[1] = 0
  BY DEF ExchangeInit, Stations
<1>2. DOMAIN inbox[0] = {} /\ DOMAIN inbox[1] = {} /\ DOMAIN answers = {}
  BY <1>1, EmptySeq DEF Stations
<1> QED BY <1>1, <1>2 DEF Ordered, Sorted, Requests, Replies, NeverBack

-----------------------------------------------------------------------------
KeepsStep == Placed /\ Served /\ (layout = "pair" => Ordered)

(* As long as nothing was in vain, what the initiator adopts in a round is *)
(* the answer to that round's request, pair or chain, however often frames *)
(* and acknowledgements were lost and said again; and between two nodes    *)
(* answers never go back, whatever was in vain: for any number of rounds,  *)
(* of attempts, of frames a radio holds.                                   *)
THEOREM AnswersKeepStep == ExchangeSpec => []AnswersInStep
<1>1. ExchangeInit => KeepsStep
  BY PlacedAtFirst, FollowedAtFirst, OrderedAtFirst DEF KeepsStep, Served
<1>2. KeepsStep /\ [ExchangeNext]_exchangeVars => KeepsStep'
  BY PlacedStep, ServedStep, OrderedStep DEF KeepsStep
<1>3. KeepsStep => AnswersInStep
  BY DEF KeepsStep, Served, Straight, InRound, Ordered, NeverBack, AnswersInStep
<1> QED BY <1>1, <1>2, <1>3, PTL DEF ExchangeSpec
=============================================================================
