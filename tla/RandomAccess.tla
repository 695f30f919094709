---------------------------- MODULE RandomAccess ----------------------------
(***************************************************************************)
(* The simulated network the random access policies are trained in         *)
(* (marl_ra.py, marl_network.py): devices on one channel, in time steps,   *)
(* with carrier sensing, backoff, transmissions of t_len steps, the silence*)
(* of SIFS and the ACK; and the batches of samples the agents learn from.  *)
(*                                                                         *)
(* One program, one thread: "phase" is the place in the loop of a time     *)
(* step, whose parts each go over all devices.  Policies, draws and        *)
(* arrivals are any; rates, rewards and gradients are left out.  A row of a*)
(* batch is the episode its sample is of.                                  *)
(***************************************************************************)
EXTENDS Integers, FiniteSets

CONSTANTS
  Devices,       \* device ids, which the loops follow
  Kinds,         \* set of [Devices -> "agent", "aloha", "csma", "qcsma"]
  Algorithms,    \* of "a2c", "dppo", "ctde": AC_type and MARL_type
  QMax, TLen, SIFS, DIFS, ACK, CWMin, CWMax,   \* NetworkSettings
  NumS, NumE, NumB                             \* steps, episodes, rows of a batch

(* What the settings are like.                                             *)
Configured ==
  /\ Devices \subseteq Nat /\ IsFiniteSet(Devices)
  /\ Kinds \subseteq [Devices -> {"agent", "aloha", "csma", "qcsma"}]
  /\ Algorithms \subseteq {"a2c", "dppo", "ctde"}
  /\ {QMax, TLen, ACK, CWMin, CWMax, NumS, NumE, NumB} \subseteq Nat \ {0}
  /\ SIFS \in Nat /\ DIFS \in Nat /\ SIFS < DIFS

VARIABLES
  kind, algorithm,
  episode, step, phase,
  ch_usage,                               \* the channel is in use
  cca_counter,                            \* idle steps sensed
  backoff_flag, backoff_time, backoff_counter, CW,
  t_flag, t_counter,                      \* transmitting, for so many steps
  ack_flag, ack_counter,                  \* expecting the ACK, for so many steps
  queue,
  first_action,                           \* nothing decided in this episode yet
  samples_collected, update, rows,        \* an agent's batch
  lesson                                  \* what its last update was made of (history)

run == <<kind, algorithm, episode, step>>
backoff == <<backoff_flag, backoff_time, backoff_counter>>
air == <<t_flag, t_counter, ack_flag, ack_counter>>
batch == <<first_action, samples_collected, update, rows, lesson>>
vars == <<run, phase, ch_usage, cca_counter, backoff, CW, air, queue, batch>>

Learners == {d \in Devices : kind[d] = "agent"}
All(v) == [d \in Devices |-> v]

(* Slip: reset() leaves an agent's batch ready.                         *)
ResetBatch_KeepsUpdate == samples_collected' = All(0) /\ UNCHANGED update

ResetBatch == samples_collected' = All(0) /\ update' = All(FALSE)

(* RA_device.reset() and the episode's own variables.                      *)
Reset ==
  /\ ch_usage' = FALSE /\ cca_counter' = All(0)
  /\ backoff_flag' = All(FALSE) /\ backoff_time' = All(0) /\ backoff_counter' = All(0)
  /\ CW' = All(CWMin)
  /\ t_flag' = All(FALSE) /\ t_counter' = All(0)
  /\ ack_flag' = All(FALSE) /\ ack_counter' = All(0)
  /\ queue' = All(1)
  /\ first_action' = All(TRUE)
  /\ ResetBatch
  /\ step' = 1 /\ phase' = "arrive"
  /\ lesson' = All({})

(* --dev_type, --ac and --marl.                                            *)
Chosen == kind \in Kinds /\ algorithm \in Algorithms

Init ==
  /\ Chosen
  /\ episode = 1 /\ step = 1 /\ phase = "arrive"
  /\ ch_usage = FALSE /\ cca_counter = All(0)
  /\ backoff_flag = All(FALSE) /\ backoff_time = All(0) /\ backoff_counter = All(0)
  /\ CW = All(CWMin)
  /\ t_flag = All(FALSE) /\ t_counter = All(0)
  /\ ack_flag = All(FALSE) /\ ack_counter = All(0)
  /\ queue = All(1)
  /\ first_action = All(TRUE)
  /\ samples_collected = All(0) /\ update = All(FALSE)
  /\ rows = All([i \in 1..NumB |-> 0])
  /\ lesson = All({})

-----------------------------------------------------------------------------
(* generate_pkt(): in each step a packet for some of the devices.          *)
Occurrences == SUBSET Devices

(* A full queue loses it.                                                  *)
Arrive ==
  /\ phase = "arrive" /\ phase' = "channel"
  /\ \E lucky \in Occurrences :
       queue' = [d \in Devices |->
                   IF d \in lucky /\ queue[d] # QMax THEN queue[d] + 1 ELSE queue[d]]
  /\ UNCHANGED <<run, ch_usage, cca_counter, backoff, CW, air, batch>>

(* In use as long as somebody transmits, or is sent an ACK after the SIFS; *)
(* only the end of either takes it back (CheckCollision).                  *)
UpdateChannel ==
  /\ phase = "channel" /\ phase' = "device"
  /\ t_counter' = [d \in Devices |-> IF t_flag[d] THEN t_counter[d] + 1 ELSE t_counter[d]]
  /\ ack_counter' = [d \in Devices |->
       IF ack_flag[d] /\ ~t_flag[d] THEN ack_counter[d] + 1 ELSE ack_counter[d]]
  /\ ch_usage' = (\/ ch_usage
                  \/ \E d \in Devices : t_flag[d] \/ (ack_flag[d] /\ ack_counter'[d] > SIFS))
  /\ UNCHANGED <<run, cca_counter, backoff, CW, t_flag, ack_flag, queue, batch>>

(* Slip: a busy channel leaves the backoff as it is.                    *)
StillBacksOff_Frozen(d) == backoff_flag[d]

(* A busy channel takes back sensing and backoff.                          *)
StillBacksOff(d) == backoff_flag[d] /\ ~ch_usage

UpdateDevice ==
  /\ phase = "device" /\ phase' = "act"
  /\ backoff_flag' = [d \in Devices |-> StillBacksOff(d)]
  /\ backoff_counter' = [d \in Devices |->
       IF ch_usage THEN 0 ELSE IF backoff_flag[d] THEN backoff_counter[d] + 1
       ELSE backoff_counter[d]]
  /\ cca_counter' = [d \in Devices |->
       IF ch_usage \/ backoff_flag[d] THEN 0
       ELSE IF queue[d] > 0 THEN cca_counter[d] + 1 ELSE cca_counter[d]]
  /\ UNCHANGED <<run, ch_usage, backoff_time, CW, air, queue, batch>>

-----------------------------------------------------------------------------
(* A device has sensed an idle channel for DIFS, or its backoff is over.   *)
Decides(d) == cca_counter[d] = DIFS
BackedOff(d) == ~Decides(d) /\ backoff_flag[d] /\ backoff_counter[d] = backoff_time[d]

Draws(d) == kind[d] \in {"csma", "qcsma"}

(* take_action(): a policy or a probability; with a contention window, at  *)
(* once if the draw is what has been waited for, in Q-CSMA by chance.      *)
Goes(d, coin, draw) ==
  CASE kind[d] \in {"agent", "aloha"} -> coin
    [] kind[d] = "csma"  -> backoff_counter[d] = draw
    [] kind[d] = "qcsma" -> backoff_counter[d] = draw /\ coin

Waits(d, draw) == Draws(d) /\ backoff_counter[d] # draw

(* At the end of a backoff.                                                *)
GoesNow(d, coin) == kind[d] = "csma" \/ (kind[d] = "qcsma" /\ coin)

(* An agent's decision completes the sample of the one before.             *)
Samples(d) == Decides(d) /\ kind[d] = "agent" /\ ~first_action[d]

Collect ==
  LET filled(d) == Samples(d) /\ samples_collected[d] + 1 = NumB
  IN  /\ rows' = [d \in Devices |->
           IF Samples(d) THEN [rows[d] EXCEPT ![samples_collected[d] + 1] = episode]
           ELSE rows[d]]
      /\ samples_collected' = [d \in Devices |->
           IF filled(d) THEN 0 ELSE IF Samples(d) THEN samples_collected[d] + 1
           ELSE samples_collected[d]]
      /\ update' = [d \in Devices |-> update[d] \/ filled(d)]
      /\ first_action' = [d \in Devices |-> first_action[d] /\ ~Decides(d)]
      /\ UNCHANGED lesson

Act ==
  /\ phase = "act" /\ phase' = "learn"
  /\ \E coin \in [Devices -> BOOLEAN], draw \in [Devices -> 0..2 * CWMax] :
       /\ \A d \in Devices : IF Decides(d) /\ Draws(d) THEN draw[d] < CW[d] ELSE draw[d] = 0
       /\ \A d \in Devices : ~Decides(d) /\ ~BackedOff(d) => ~coin[d]
       /\ t_flag' = [d \in Devices |->
            IF Decides(d) THEN Goes(d, coin[d], draw[d])
            ELSE t_flag[d] \/ (BackedOff(d) /\ GoesNow(d, coin[d]))]
       /\ backoff_flag' = [d \in Devices |->
            IF Decides(d) THEN backoff_flag[d] \/ Waits(d, draw[d])
            ELSE backoff_flag[d] /\ ~BackedOff(d)]
       /\ backoff_time' = [d \in Devices |->
            IF Decides(d) /\ Draws(d) THEN draw[d]
            ELSE IF BackedOff(d) THEN 0 ELSE backoff_time[d]]
  /\ backoff_counter' = [d \in Devices |-> IF BackedOff(d) THEN 0 ELSE backoff_counter[d]]
  /\ cca_counter' = [d \in Devices |-> IF Decides(d) THEN 0 ELSE cca_counter[d]]
  /\ Collect
  /\ UNCHANGED <<run, ch_usage, CW, t_counter, ack_flag, ack_counter, queue>>

-----------------------------------------------------------------------------
(* compute_gae() goes back over the rows of all agents with one running    *)
(* sum, which nothing resets between them: an agent's advantages are made  *)
(* of the rows of those before it too.                                     *)
GaeOf(a) == {b \in Learners : b <= a}

(* The central critic is asked at the last device's decisions.             *)
Critic == {b \in Learners : \A d \in Devices : d <= b}

(* The consensus graph: a ring on which everybody knows the nearest, half  *)
(* of all, in both directions.                                             *)
Neighbours(a) ==
  LET N == Cardinality(Learners)
  IN  {b \in Learners : \E k \in 0..(N \div 2) : (a + k) % N = b \/ (b + k) % N = a}

(* A2C averages the rewards over that graph; agent_com multiplies the      *)
(* ratios of all.                                                          *)
TeachersOf(a) ==
  CASE algorithm = "a2c"  -> Neighbours(a)
    [] algorithm = "dppo" -> Learners
    [] algorithm = "ctde" -> GaeOf(a) \cup Critic

BatchOf(b) == {rows[b][i] : i \in 1..NumB}
Lesson(a) == UNION {BatchOf(b) : b \in TeachersOf(a)}

(* Once everybody has a batch, everybody is updated from all of them.      *)
Learn ==
  /\ phase = "learn" /\ phase' = "settle"
  /\ IF Learners # {} /\ \A a \in Learners : update[a]
       THEN /\ lesson' = [d \in Devices |-> IF d \in Learners THEN Lesson(d) ELSE {}]
            /\ update' = [d \in Devices |-> update[d] /\ d \notin Learners]
       ELSE UNCHANGED <<lesson, update>>
  /\ UNCHANGED <<run, ch_usage, cca_counter, backoff, CW, air, queue, first_action,
                 samples_collected, rows>>

-----------------------------------------------------------------------------
Talkers == {d \in Devices : t_flag[d]}
Ends(d) == t_flag[d] /\ t_counter[d] = TLen
Collision == Cardinality(Talkers) > 1
Expects(d) == IF Ends(d) THEN ~Collision ELSE ack_flag[d]
Served(d) == Expects(d) /\ ack_counter[d] = SIFS + ACK

(* Who transmits is counted before anybody stops.                          *)
CheckCollision ==
  /\ phase = "settle"
  /\ ch_usage' = (ch_usage /\ \A d \in Devices : ~Ends(d) /\ ~Served(d))
  /\ t_flag' = [d \in Devices |-> t_flag[d] /\ ~Ends(d)]
  /\ t_counter' = [d \in Devices |-> IF Ends(d) THEN 0 ELSE t_counter[d]]
  /\ CW' = [d \in Devices |->
              IF Ends(d) /\ Collision /\ CW[d] < CWMax THEN CW[d] * 2 ELSE CW[d]]
  /\ ack_flag' = [d \in Devices |-> Expects(d) /\ ~Served(d)]
  /\ ack_counter' = [d \in Devices |-> IF Served(d) THEN 0 ELSE ack_counter[d]]
  /\ queue' = [d \in Devices |-> IF Served(d) THEN queue[d] - 1 ELSE queue[d]]
  /\ IF step < NumS THEN step' = step + 1 /\ phase' = "arrive"
                    ELSE step' = step /\ phase' = "over"
  /\ UNCHANGED <<kind, algorithm, episode, cca_counter, backoff, batch>>

(* The next episode; the rows stay.                                        *)
NextEpisode ==
  /\ phase = "over" /\ episode < NumE
  /\ Reset
  /\ episode' = episode + 1
  /\ UNCHANGED <<kind, algorithm, rows>>

Next == Arrive \/ UpdateChannel \/ UpdateDevice \/ Act \/ Learn \/ CheckCollision \/ NextEpisode

Spec == Init /\ [][Next]_vars

-----------------------------------------------------------------------------
(* The asserts of update_channel().                                        *)
AssertsHold ==
  \A d \in Devices :
    /\ t_flag[d] => ~ack_flag[d] /\ ack_counter[d] = 0
    /\ ack_flag[d] => ~t_flag[d] /\ t_counter[d] = 0

(* The channel has one voice: who transmit at the same time began at the   *)
(* same time, so that no collision is seen by some of them only; nobody    *)
(* transmits, or expects an ACK, while another does; and who does either   *)
(* has a packet (marl_network.py, marl_ra.py).                             *)
OneVoice ==
  /\ AssertsHold
  /\ \A d, e \in Devices : t_flag[d] /\ t_flag[e] => t_counter[d] = t_counter[e]
  /\ \A d, e \in Devices : ack_flag[d] /\ d # e => ~t_flag[e] /\ ~ack_flag[e]
  /\ \A d \in Devices : t_flag[d] \/ ack_flag[d] => queue[d] > 0

(* An update is made of samples of this episode, whoever they are of,      *)
(* although batches are kept over episodes and filled at different times   *)
(* (marl_ra.py).                                                           *)
LearnsThisEpisode == \A a \in Devices : lesson[a] \subseteq {episode}
=============================================================================
