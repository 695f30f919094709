----------------------------- MODULE AgentMedia -----------------------------
(***************************************************************************)
(* The agents of the random access programs on the three media they know,  *)
(* one in an execution: slot clock and access point (SlottedAccess), the   *)
(* stand-in for both (MockMedium, its variables named m_... here), and the *)
(* simulated network they are trained in (RandomAccess, s_...).            *)
(***************************************************************************)
EXTENDS SlottedAccess

CONSTANTS
  (* of MockMedium *)
  Steps,
  (* of RandomAccess *)
  Kinds, Algorithms, QMax, TLen, SIFS, DIFS, ACK, CWMin, CWMax, NumS, NumE, NumB

VARIABLES
  m_agent, m_fired, m_told, m_thread, m_request, m_reply, m_acts, m_result,
  m_barrier,
  s_kind, s_algorithm, s_episode, s_step, s_phase, s_ch_usage,
  s_cca_counter, s_backoff_flag, s_backoff_time, s_backoff_counter, s_CW,
  s_t_flag, s_t_counter, s_ack_flag, s_ack_counter, s_queue, s_first_action,
  s_samples_collected, s_update, s_rows, s_lesson

medium == <<m_agent, m_fired, m_told, m_thread, m_request, m_reply, m_acts, m_result, m_barrier>>

sim ==
  <<s_kind, s_algorithm, s_episode, s_step, s_phase, s_ch_usage,
    s_cca_counter, s_backoff_flag, s_backoff_time, s_backoff_counter, s_CW,
    s_t_flag, s_t_counter, s_ack_flag, s_ack_counter, s_queue,
    s_first_action, s_samples_collected, s_update, s_rows, s_lesson>>

Medium == INSTANCE MockMedium WITH
  Ids <- Agents,
  agent <- m_agent, fired <- m_fired, told <- m_told, thread <- m_thread,
  request <- m_request, reply <- m_reply, acts <- m_acts, result <-
  m_result, barrier <- m_barrier

Sim == INSTANCE RandomAccess WITH
  Devices <- Agents,
  kind <- s_kind, algorithm <- s_algorithm, episode <- s_episode, step <-
  s_step, phase <- s_phase, ch_usage <- s_ch_usage, cca_counter <-
  s_cca_counter, backoff_flag <- s_backoff_flag, backoff_time <-
  s_backoff_time, backoff_counter <- s_backoff_counter, CW <- s_CW, t_flag
  <- s_t_flag, t_counter <- s_t_counter, ack_flag <- s_ack_flag, ack_counter
  <- s_ack_counter, queue <- s_queue, first_action <- s_first_action,
  samples_collected <- s_samples_collected, update <- s_update, rows <-
  s_rows, lesson <- s_lesson

ASSUME AgentMediaAssumption == Sim!Configured

-----------------------------------------------------------------------------
(* What is not run is over.                                                *)
NoSlots ==
  /\ clock = "closed" /\ slot = MaxTicks /\ conns = {}
  /\ next = [m \in Members |-> slot]
  /\ phase = [a \in Agents |-> "dead"]
  /\ left = Slots /\ at = [a \in Agents |-> NoTick]
  /\ fires = [a \in Agents |-> 0] /\ since = [a \in Agents |-> 0]
  /\ ap = "gone" /\ registered = {} /\ started = FALSE /\ intents = {} /\ decoded = {}
  /\ txs = [a \in Agents |-> 0] /\ acks = [a \in Agents |-> 0] /\ air = {}
  /\ reported = {} /\ wins = {}

NoMedium ==
  /\ m_agent = [a \in Agents |-> "closed"]
  /\ m_fired = [a \in Agents |-> {}] /\ m_told = [a \in Agents |-> 0]
  /\ m_thread = [a \in Agents |-> "ended"]
  /\ m_request = [a \in Agents |-> "none"]
  /\ m_reply = [a \in Agents |-> Medium!Silence]
  /\ m_acts = <<>> /\ m_result = <<>> /\ m_barrier = "broken"

NoSim ==
  /\ s_kind = [d \in Agents |-> "agent"] /\ s_algorithm = "a2c"
  /\ s_episode = NumE /\ s_step = NumS /\ s_phase = "over"
  /\ s_ch_usage = FALSE /\ s_cca_counter = Sim!All(0)
  /\ s_backoff_flag = Sim!All(FALSE) /\ s_backoff_time = Sim!All(0)
  /\ s_backoff_counter = Sim!All(0) /\ s_CW = Sim!All(1)
  /\ s_t_flag = Sim!All(FALSE) /\ s_t_counter = Sim!All(0)
  /\ s_ack_flag = Sim!All(FALSE) /\ s_ack_counter = Sim!All(0)
  /\ s_queue = Sim!All(0) /\ s_first_action = Sim!All(TRUE)
  /\ s_samples_collected = Sim!All(0) /\ s_update = Sim!All(FALSE)
  /\ s_rows = Sim!All([i \in 1..NumB |-> 0]) /\ s_lesson = Sim!All({})

MediaInit == \/ Init /\ NoMedium /\ NoSim
             \/ Medium!Init /\ NoSlots /\ NoSim
             \/ Sim!Init /\ NoSlots /\ NoMedium
MediaNext == \/ Next /\ UNCHANGED <<medium, sim>>
             \/ Medium!Next /\ UNCHANGED <<vars, sim>>
             \/ Sim!Next /\ UNCHANGED <<vars, medium>>
MediaSpec == MediaInit /\ [][MediaNext]_<<vars, medium, sim>>

(* As each of them has it; the simulated network need not go on.           *)
MediaFairSpec == MediaSpec /\ Fairness /\ Medium!Fairness

-----------------------------------------------------------------------------
(* The media that stand in for a radio behave like one: in the simulated   *)
(* network one voice is heard at a time (marl_network.py), and the mock    *)
(* medium's answers are of the slot that was asked about (mock_medium.py). *)
MediaBehave == Sim!OneVoice /\ Medium!AnswersOfTheSlot

(* An update is made of samples of its own episode (marl_ra.py).           *)
LearnsThisEpisode == Sim!LearnsThisEpisode

(* An agent on the slots takes all its decisions and ends, and one on the  *)
(* mock medium is answered or told that it is closed (agent_node.py).      *)
EveryAgentEnds == AgentsEnd /\ Medium!NobodyAsksForEver
=============================================================================
