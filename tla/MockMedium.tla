----------------------------- MODULE MockMedium -----------------------------
(***************************************************************************)
(* The stand-in for channel and access point (mock_medium.py): a server    *)
(* with a thread per connection, which meet at a barrier once per slot;    *)
(* and the agents that ask it (agent_node.py --mock).  The agents' policy  *)
(* and the luck of a burst are any.                                        *)
(*                                                                         *)
(* threading.Barrier fills until the last party arrives, who runs the      *)
(* action and lets all out; nobody enters before all have left.  A wait of *)
(* more than its timeout breaks it for good.                               *)
(***************************************************************************)
EXTENDS Naturals, FiniteSets

CONSTANTS
  Ids,     \* --id of the agents, one each
  Steps    \* --slots

VARIABLES
  agent,    \* "off", "think", "ask", "done", "closed", "killed"
  fired,    \* per agent: the slots it transmitted in, of those it asked about
  told,     \* answers heard
  thread,   \* "none", "read", "enter", "wait", "out", "answer", "ended"
  request,  \* lines to the server: "none", "quiet", "transmit"
  reply,    \* lines to the agent: the answer, if any
  acts, result,
  barrier   \* "filling", "draining", "broken"

vars == <<agent, fired, told, thread, request, reply, acts, result, barrier>>

Silence == {}

Init ==
  /\ agent = [a \in Ids |-> "off"]
  /\ fired = [a \in Ids |-> {}] /\ told = [a \in Ids |-> 0]
  /\ thread = [a \in Ids |-> "none"]
  /\ request = [a \in Ids |-> "none"] /\ reply = [a \in Ids |-> Silence]
  /\ acts = [a \in {} |-> FALSE]
  /\ result = [a \in {} |-> [delivered |-> FALSE, busy |-> FALSE]]
  /\ barrier = "filling"

-----------------------------------------------------------------------------
(* The agents.                                                             *)

(* The server accepts as many as there are agents, and starts a thread.    *)
Connect(a) ==
  /\ agent[a] = "off"
  /\ agent' = [agent EXCEPT ![a] = "think"]
  /\ thread' = [thread EXCEPT ![a] = "read"]
  /\ UNCHANGED <<fired, told, request, reply, acts, result, barrier>>

(* step(): one line for the slot, whatever became of the server's thread.  *)
Decide(a) ==
  /\ agent[a] = "think" /\ told[a] < Steps
  /\ agent' = [agent EXCEPT ![a] = "ask"]
  /\ \E tx \in BOOLEAN :
       /\ request' = [request EXCEPT ![a] = IF tx THEN "transmit" ELSE "quiet"]
       /\ fired' = [fired EXCEPT ![a] = IF tx THEN @ \cup {told[a] + 1} ELSE @]
  /\ UNCHANGED <<told, thread, reply, acts, result, barrier>>

Finish(a) ==
  /\ agent[a] = "think" /\ told[a] = Steps
  /\ agent' = [agent EXCEPT ![a] = "done"]
  /\ UNCHANGED <<fired, told, thread, request, reply, acts, result, barrier>>

Hear(a) ==
  /\ agent[a] = "ask" /\ reply[a] # Silence
  /\ agent' = [agent EXCEPT ![a] = "think"]
  /\ told' = [told EXCEPT ![a] = @ + 1]
  /\ reply' = [reply EXCEPT ![a] = Silence]
  /\ UNCHANGED <<fired, thread, request, acts, result, barrier>>

(* An empty line: the server has closed the connection.                    *)
Closed(a) ==
  /\ agent[a] = "ask" /\ reply[a] = Silence /\ thread[a] = "ended"
  /\ agent' = [agent EXCEPT ![a] = "closed"]
  /\ UNCHANGED <<fired, told, thread, request, reply, acts, result, barrier>>

Kill(a) ==
  /\ agent[a] \in {"think", "ask"}
  /\ agent' = [agent EXCEPT ![a] = "killed"]
  /\ UNCHANGED <<fired, told, thread, request, reply, acts, result, barrier>>

-----------------------------------------------------------------------------
(* _client(), the thread of a connection.                                  *)
EndOfFile(a) ==
  /\ thread[a] = "read" /\ request[a] = "none"
  /\ agent[a] \in {"done", "closed", "killed"}
  /\ thread' = [thread EXCEPT ![a] = "ended"]
  /\ UNCHANGED <<agent, fired, told, request, reply, acts, result, barrier>>

(* A line is read and its act noted, under the lock.                       *)
NoteAct(a) ==
  /\ thread[a] = "read" /\ request[a] # "none"
  /\ acts' = [b \in DOMAIN acts \cup {a} |->
                IF b = a THEN request[a] = "transmit" ELSE acts[b]]
  /\ request' = [request EXCEPT ![a] = "none"]
  /\ thread' = [thread EXCEPT ![a] = "enter"]
  /\ UNCHANGED <<agent, fired, told, reply, result, barrier>>

Waiting == {a \in Ids : thread[a] = "wait"}

(* Slip: the barrier is one party short.                                   *)
Full_OneShort(s) == Cardinality(s) + 1 >= Cardinality(Ids)
Full(s) == Cardinality(s) = Cardinality(Ids)

(* _resolve(): one transmitter alone may be delivered; busy is what the    *)
(* others make of the channel.                                             *)
Transmitters == {a \in DOMAIN acts : acts[a]}
Resolve ==
  /\ \E lucky \in BOOLEAN :
       result' = [a \in Ids |->
         [delivered |-> Transmitters = {a} /\ lucky,
          busy |-> \E b \in Transmitters : b # a]]
  /\ acts' = [a \in {} |-> FALSE]

(* wait(): in, unless the last slot's are still on their way out; the last *)
(* to arrive lets everybody out.                                           *)
Enter(a) ==
  /\ thread[a] = "enter" /\ barrier = "filling"
  /\ IF Full(Waiting \cup {a})
       THEN /\ Resolve
            /\ thread' = [b \in Ids |-> IF b \in Waiting \cup {a} THEN "out" ELSE thread[b]]
            /\ barrier' = "draining"
       ELSE /\ thread' = [thread EXCEPT ![a] = "wait"]
            /\ UNCHANGED <<acts, result, barrier>>
  /\ UNCHANGED <<agent, fired, told, request, reply>>

(* The last out opens it again.                                            *)
Leave(a) ==
  /\ thread[a] = "out"
  /\ thread' = [thread EXCEPT ![a] = "answer"]
  /\ barrier' = IF \A b \in Ids \ {a} : thread[b] # "out" THEN "filling" ELSE barrier
  /\ UNCHANGED <<agent, fired, told, request, reply, acts, result>>

(* The 60 seconds of a wait are over.                                      *)
Break(a) ==
  /\ thread[a] = "wait" /\ barrier = "filling"
  /\ barrier' = "broken"
  /\ UNCHANGED <<agent, fired, told, thread, request, reply, acts, result>>

(* Who waits at a broken barrier, or comes to it, closes its connection.   *)
BrokenOut(a) ==
  /\ thread[a] \in {"enter", "wait"} /\ barrier = "broken"
  /\ thread' = [thread EXCEPT ![a] = "ended"]
  /\ UNCHANGED <<agent, fired, told, request, reply, acts, result, barrier>>

(* _result is read after the barrier, without the lock.  Nobody may be     *)
(* there to hear: the write fails, or the next read ends.                  *)
Answer(a) ==
  /\ thread[a] = "answer"
  /\ IF agent[a] = "killed"
       THEN /\ thread' \in {[thread EXCEPT ![a] = s] : s \in {"read", "ended"}}
            /\ UNCHANGED reply
       ELSE /\ thread' = [thread EXCEPT ![a] = "read"]
            /\ reply' = [reply EXCEPT ![a] = {result[a]}]
  /\ UNCHANGED <<agent, fired, told, request, acts, result, barrier>>

-----------------------------------------------------------------------------
Asks(a) == Decide(a) \/ Finish(a) \/ Hear(a) \/ Closed(a)
Serves(a) == \/ NoteAct(a) \/ EndOfFile(a) \/ Enter(a) \/ Leave(a) \/ BrokenOut(a)
             \/ Answer(a)
Breaks == \E a \in Ids : Break(a)

Next == Breaks \/ \E a \in Ids : Connect(a) \/ Kill(a) \/ Asks(a) \/ Serves(a)

(* Whoever does not connect, and nothing else, is left to chance.          *)
Fairness ==
  WF_vars(Breaks) /\ \A a \in Ids : WF_vars(Asks(a)) /\ WF_vars(Serves(a))

Spec == Init /\ [][Next]_vars /\ Fairness

-----------------------------------------------------------------------------
(* An answer is of the slot its agent asked about: it says busy if another *)
(* agent transmitted in that slot, delivered only to one who was alone in  *)
(* it - although results are read without the lock, after the barrier, and *)
(* a fast agent's next request may be noted before the slow ones have      *)
(* theirs (mock_medium.py).                                                *)
AnswersOfTheSlot ==
  \A a \in Ids : \A r \in reply[a] :
    LET others == {b \in Ids \ {a} : told[a] + 1 \in fired[b]}
    IN  /\ r.busy <=> others # {}
        /\ r.delivered => others = {} /\ told[a] + 1 \in fired[a]

(* Every agent that asked is answered or told that the medium is closed,   *)
(* whoever is missing, slower, ends or is killed (mock_medium.py).         *)
NobodyAsksForEver ==
  \A a \in Ids : [](agent[a] = "ask" => <>(agent[a] # "ask"))
=============================================================================
