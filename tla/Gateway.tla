------------------------------ MODULE Gateway ------------------------------
(***************************************************************************)
(* The LoRa gateway (drivers/lora/gateway): requests that look at the      *)
(* boards and submit jobs, job threads that lend two boards, reflash them  *)
(* where their firmware is for the other role, run an agent on each and    *)
(* take them home, and the agents on the Pis (pi_agent.py).                *)
(*                                                                         *)
(* A short agent run (STATUS, flash, apply) is one step that may fail: no  *)
(* connection, no answer, the port held by another agent.  The long ones,  *)
(* rx and tx, hold the board's port from their start to their end, and may *)
(* outlive their connection.                                               *)
(***************************************************************************)
EXTENDS Naturals, FiniteSets, Functions

CONSTANTS
  Boards,     \* the Pis of the tailnet this gateway may touch
  Home,       \* the firmware each board belongs to, "tx" or "rx"
  Swappable,  \* boards in FLASHABLE, if there is a firmware folder
  Jobs,       \* users of the page, who load it and submit one job each
  Wishes,     \* the [tx, rx] boards they choose: functions on Jobs
  Nobody,     \* no job
  MaxDeaths   \* bound: how often the gateway is killed and started again

Roles == {"tx", "rx"}
NoRole == "none"   \* no answer to STATUS, or no entry in the cache

ASSUME GatewayAssumption ==
  /\ Home \in [Boards -> Roles]
  /\ Swappable \subseteq Boards
  /\ Nobody \notin Jobs
  /\ Wishes \subseteq [Jobs -> {w \in [Roles -> Boards] : w["tx"] # w["rx"]}]
  /\ MaxDeaths \in Nat

VARIABLES
  (* the boards *)
  firmware,   \* what each board runs; NoRole after a load that failed
  own,        \* TRUE: the board has its owner's settings, or the agent on
              \* it is going to put them back
  (* Fleet *)
  busy,       \* job the board is claimed for, or Nobody
  cache,      \* role of each board in the cache
  fresh,      \* is the cache younger than its ttl?
  (* requests *)
  pc,         \* per job, from its user's first request: see Stages
  todo,       \* boards still to be probed by this list()
  found,      \* res: what its probes have seen
  (* jobs *)
  ends,       \* the boards chosen: [tx, rx] -> Boards
  swap,       \* spec["swap"]
  saved,      \* per board still to be taken home: [role, own] at its STATUS
  agent,      \* [tx, rx] -> "off", "starting", "running", "ended", "refused"
  deaths,
  (* history *)
  away,       \* boards whose wrong firmware has been reported
  lost,       \* boards whose lost settings have been reported
  crossed,    \* listings in flight while a job expired the cache
  tainted     \* was the cache written last by one of those?

boardVars == <<firmware, own>>
fleetVars == <<busy, cache, fresh>>
listVars  == <<todo, found>>
jobVars   == <<ends, swap, saved, agent>>
history   == <<away, lost, crossed, tainted>>
vars == <<boardVars, fleetVars, pc, listVars, jobVars, deaths, history>>

Stages == {"new", "page", "probe", "validate", "claim", "saveRx", "loadRx", "saveTx",
           "loadTx", "listen", "await", "check", "sending", "close", "home", "apply", "release", "expire",
           "ended", "rejected", "gone"}
AtRest == {"new", "ended", "rejected", "gone"}

NoSaved == [b \in {} |-> NoRole]

Init ==
  /\ firmware = Home
  /\ own = [b \in Boards |-> TRUE]
  /\ busy = [b \in Boards |-> Nobody]
  /\ cache = [b \in Boards |-> NoRole] /\ fresh = FALSE
  /\ pc = [q \in Jobs |-> "new"]
  /\ todo = [q \in Jobs |-> {}] /\ found = [q \in Jobs |-> NoSaved]
  /\ ends \in Wishes
  /\ swap = [j \in Jobs |-> {}] /\ saved = [j \in Jobs |-> NoSaved]
  /\ agent = [j \in Jobs |-> [e \in Roles |-> "off"]]
  /\ deaths = 0
  /\ away = {} /\ lost = {} /\ crossed = {} /\ tainted = FALSE

Ends(j) == {ends[j]["tx"], ends[j]["rx"]}
Want(j, b) == IF b = ends[j]["tx"] THEN "tx" ELSE "rx"

(* The port of b is open in an agent.                                      *)
Held(b) == \E j \in Jobs, e \in Roles : agent[j][e] = "running" /\ ends[j][e] = b

Listing(q) == pc[q] \in {"page", "probe"}

Goto(q, stage) == pc' = [pc EXCEPT ![q] = stage]

-----------------------------------------------------------------------------
(* Requests.  Operators named X_... are X with a plausible slip of the     *)
(* programmer; no specification uses them.                                 *)

(* list(), for the page (which may ask for a refresh) or for a submission  *)
(* (which takes the cache as it is while it is fresh): what to probe is    *)
(* decided without the lock.                                               *)
List(q) ==
  /\ pc[q] = "new"
  /\ \/ /\ todo' = [todo EXCEPT ![q] = {b \in Boards : busy[b] = Nobody}]
        /\ Goto(q, "page") \/ (~fresh /\ Goto(q, "probe"))
     \/ /\ fresh
        /\ Goto(q, "validate")
        /\ UNCHANGED todo
  /\ UNCHANGED <<boardVars, fleetVars, found, jobVars, deaths, history>>

(* A probe thread asks one board, which may have been claimed since.       *)
Probe(q, b) ==
  /\ Listing(q) /\ b \in todo[q]
  /\ todo' = [todo EXCEPT ![q] = @ \ {b}]
  /\ \E answer \in {NoRole} \cup IF Held(b) THEN {} ELSE {firmware[b]} :
       found' = [found EXCEPT ![q] = [c \in DOMAIN @ \cup {b} |->
                                        IF c = b THEN answer ELSE @[c]]]
  /\ UNCHANGED <<boardVars, fleetVars, pc, jobVars, deaths, history>>

(* All probes are in: cache.update(res), cache_t = now.                    *)
Update(q) ==
  /\ Listing(q) /\ todo[q] = {}
  /\ cache' = [b \in Boards |-> IF b \in DOMAIN found[q] THEN found[q][b] ELSE cache[b]]
  /\ fresh' = TRUE
  /\ found' = [found EXCEPT ![q] = NoSaved]
  /\ Goto(q, IF pc[q] = "probe" THEN "validate" ELSE "new")
  /\ tainted' = (q \in crossed)
  /\ crossed' = crossed \ {q}
  /\ UNCHANGED <<boardVars, busy, todo, jobVars, deaths, away, lost>>

(* 60 s pass.                                                              *)
Expire ==
  /\ fresh
  /\ fresh' = FALSE
  /\ UNCHANGED <<boardVars, busy, cache, pc, listVars, jobVars, deaths, history>>

CanSwap(b) == b \in Swappable

NeedsSwap(j, b) == CanSwap(b) /\ (cache[b] # Want(j, b) \/ cache[b] # Home[b])

(* validate(): on the roles in the cache.                                  *)
Validate(j) ==
  /\ pc[j] = "validate"
  /\ \/ /\ \A b \in Ends(j) : cache[b] \in Roles /\ (cache[b] = Want(j, b) \/ CanSwap(b))
        /\ swap' = [swap EXCEPT ![j] = {b \in Ends(j) : NeedsSwap(j, b)}]
        /\ Goto(j, "claim")
     \/ /\ \E b \in Ends(j) : \/ cache[b] \notin Roles
                              \/ cache[b] # Want(j, b) /\ ~CanSwap(b)
        /\ Goto(j, "rejected")
        /\ UNCHANGED swap
  /\ UNCHANGED <<boardVars, fleetVars, listVars, ends, saved, agent,
                 deaths, history>>

(* submit(): claim both boards, or answer "busy with another job".         *)
Claim(j) ==
  /\ pc[j] = "claim"
  /\ \/ /\ \A b \in Ends(j) : busy[b] = Nobody
        /\ busy' = [b \in Boards |-> IF b \in Ends(j) THEN j ELSE busy[b]]
        /\ Goto(j, "saveRx")
     \/ /\ \E b \in Ends(j) : busy[b] # Nobody
        /\ Goto(j, "rejected")
        /\ UNCHANGED busy
  /\ UNCHANGED <<boardVars, cache, fresh, listVars, jobVars, deaths, history>>

-----------------------------------------------------------------------------
(* The job thread.                                                         *)

(* An exception: on to the finally clause.                                 *)
Abort(j) == Goto(j, "close")

(* read_status: "the gateway saves its STATUS" before it touches a board.  *)
Save(j, b, here, load, next) ==
  /\ pc[j] = here
  /\ \/ /\ b \notin swap[j]
        /\ Goto(j, next)
        /\ UNCHANGED saved
     \/ /\ b \in swap[j] /\ firmware[b] # NoRole /\ ~Held(b)
        /\ saved' = [saved EXCEPT ![j] = [c \in DOMAIN @ \cup {b} |->
                       IF c = b THEN [role |-> firmware[b], own |-> own[b]] ELSE @[c]]]
        /\ Goto(j, IF firmware[b] # Want(j, b) THEN load ELSE next)
     \/ /\ b \in swap[j]
        /\ Abort(j)
        /\ UNCHANGED saved
  /\ UNCHANGED <<boardVars, fleetVars, listVars, ends, swap, agent,
                 deaths, history>>

(* flash: refused, or failed half way, or done; settings do not survive.   *)
Flashed(b, role) ==
  /\ ~Held(b)
  /\ firmware' = [firmware EXCEPT ![b] = role]
  /\ own' = [own EXCEPT ![b] = FALSE]

FlashFailed(b, role) ==
  \/ UNCHANGED boardVars
  \/ \E r \in {role, NoRole} : Flashed(b, r)

Load(j, b, here, next) ==
  /\ pc[j] = here
  /\ \/ /\ Flashed(b, Want(j, b))
        /\ Goto(j, next)
     \/ /\ FlashFailed(b, Want(j, b))
        /\ Abort(j)
  /\ UNCHANGED <<fleetVars, listVars, ends, swap, saved, agent, deaths,
                 history>>

Run(j, e) == agent' = [agent EXCEPT ![j][e] = "starting"]

Listen(j) ==
  /\ pc[j] = "listen"
  /\ Run(j, "rx")
  /\ Goto(j, "await")
  /\ UNCHANGED <<boardVars, fleetVars, listVars, ends, swap, saved,
                 deaths, history>>

(* ready.wait(25), and a "ready" in the receiver's log.                    *)
Await(j) ==
  /\ pc[j] = "await"
  /\ \/ /\ agent[j]["rx"] \in {"running", "ended"}
        /\ Goto(j, "check")
     \/ /\ agent[j]["rx"] \in {"starting", "refused"}
        /\ Abort(j)
  /\ UNCHANGED <<boardVars, fleetVars, listVars, ends, swap, saved, agent,
                 deaths, history>>

(* The transmitter starts, unless the Stop button has been pressed by now; *)
(* pressed later it is one of the ways in which the agent ends.            *)
Check(j) ==
  /\ pc[j] = "check"
  /\ \/ Run(j, "tx") /\ Goto(j, "sending")
     \/ Goto(j, "close") /\ UNCHANGED agent
  /\ UNCHANGED <<boardVars, fleetVars, listVars, ends, swap, saved, deaths, history>>

(* pump() has read the transmitter's output to its end.                    *)
Sent(j) ==
  /\ pc[j] = "sending" /\ agent[j]["tx"] \in {"ended", "refused"}
  /\ Goto(j, "close")
  /\ UNCHANGED <<boardVars, fleetVars, listVars, jobVars, deaths, history>>

(* The connection to the transmitter's Pi breaks.                          *)
CutOff(j) ==
  /\ pc[j] = "sending" /\ agent[j]["tx"] \in {"starting", "running"}
  /\ Goto(j, "close")
  /\ UNCHANGED <<boardVars, fleetVars, listVars, jobVars, deaths, history>>

(* The agents are told to stop and given 30 and 15 s to put their boards'  *)
(* settings back; then their connections are killed, and the log of one    *)
(* that is left behind has no "restored" in it.                            *)
Close(j) ==
  /\ pc[j] = "close"
  /\ LET left == {e \in Roles : agent[j][e] = "running"}
     IN  /\ lost' = lost \cup {ends[j][e] : e \in left}
         /\ agent' = [agent EXCEPT ![j] = [e \in Roles |->
                                             IF e \in left THEN "running" ELSE "off"]]
  /\ Goto(j, "home")
  /\ UNCHANGED <<boardVars, fleetVars, listVars, ends, swap, saved, deaths, away, crossed,
                 tainted>>

(* "for name, st in saved.items()": the receiver's board first.            *)
NextHome(j) == IF ends[j]["rx"] \in DOMAIN saved[j] THEN ends[j]["rx"] ELSE ends[j]["tx"]

Handled_OnlyIfHome(j, b, ok) == IF ok THEN Restrict(saved[j], DOMAIN saved[j] \ {b}) ELSE saved[j]
Handled(j, b, ok) == Restrict(saved[j], DOMAIN saved[j] \ {b})

(* A failure is reported; the other board is next all the same.            *)
NotRestored(j, b) ==
  /\ saved' = [saved EXCEPT ![j] = Handled(j, b, FALSE)]
  /\ lost' = lost \cup {b}

(* A board found away from home has no settings of its own to be put back. *)
HadOwn_Never(j, b) == FALSE
HadOwn(j, b) == saved[j][b].role = Home[b]

FlashHome(j) ==
  /\ pc[j] = "home" /\ saved[j] # NoSaved
  /\ LET b == NextHome(j)
     IN  \/ /\ Flashed(b, Home[b])
            /\ away' = away \ {b}
            /\ \/ /\ HadOwn(j, b)
                  /\ Goto(j, "apply")
                  /\ UNCHANGED <<saved, lost>>
               \/ /\ ~HadOwn(j, b)
                  /\ saved' = [saved EXCEPT ![j] = Handled(j, b, TRUE)]
                  /\ UNCHANGED <<pc, lost>>
         \/ /\ FlashFailed(b, Home[b])
            /\ NotRestored(j, b)
            /\ away' = away \cup {b}
            /\ UNCHANGED pc
  /\ UNCHANGED <<fleetVars, listVars, ends, swap, agent, deaths,
                 crossed, tainted>>

(* apply: the settings of the STATUS before the job, or a report that they *)
(* are not all back.                                                       *)
Apply(j) ==
  /\ pc[j] = "apply"
  /\ LET b == NextHome(j)
     IN  \/ /\ ~Held(b)
            /\ own' = [own EXCEPT ![b] = saved[j][b].own]
            /\ saved' = [saved EXCEPT ![j] = Handled(j, b, TRUE)]
            /\ UNCHANGED lost
         \/ NotRestored(j, b) /\ UNCHANGED own
  /\ Goto(j, "home")
  /\ UNCHANGED <<firmware, fleetVars, listVars, ends, swap, agent, deaths, away,
                 crossed, tainted>>

Homed_FirstOnly(j) == ends[j]["rx"] \notin DOMAIN saved[j]
Homed(j) == saved[j] = NoSaved

Returned(j) == Ends(j)

Release(j) ==
  /\ pc[j] = "home" /\ Homed(j)
  /\ busy' = [b \in Boards |-> IF b \in Returned(j) THEN Nobody ELSE busy[b]]
  /\ Goto(j, "expire")
  /\ UNCHANGED <<boardVars, cache, fresh, listVars, jobVars, deaths, history>>

Aged_Kept == fresh
Aged == FALSE

(* cache_t = 0: "roles may have changed: ask the boards again".            *)
Finish(j) ==
  /\ pc[j] = "expire"
  /\ fresh' = Aged
  /\ crossed' = crossed \cup {q \in Jobs : Listing(q)}
  /\ Goto(j, "ended")
  /\ UNCHANGED <<boardVars, busy, cache, listVars, jobVars, deaths, away, lost, tainted>>

-----------------------------------------------------------------------------
(* The agents.                                                             *)

AgentSets(j, e, to) == agent' = [agent EXCEPT ![j][e] = to]

(* The port is free and the firmware is the one for this role.             *)
AgentRuns(j, e) ==
  /\ agent[j][e] = "starting"
  /\ ~Held(ends[j][e]) /\ firmware[ends[j][e]] = e
  /\ AgentSets(j, e, "running")
  /\ UNCHANGED <<boardVars, fleetVars, pc, listVars, ends, swap, saved,
                 deaths, history>>

(* It is not, or the Pi cannot be reached.                                 *)
AgentRefuses(j, e) ==
  /\ agent[j][e] = "starting"
  /\ AgentSets(j, e, "refused")
  /\ UNCHANGED <<boardVars, fleetVars, pc, listVars, ends, swap, saved, deaths, history>>

(* Stopped, at the end of its input or its time, or on an error: the       *)
(* settings are put back, which may fail and is then in the log.           *)
AgentEnds(j, e) ==
  /\ agent[j][e] = "running"
  /\ AgentSets(j, e, "ended")
  /\ \/ UNCHANGED <<own, lost>>
     \/ /\ own' = [own EXCEPT ![ends[j][e]] = FALSE]
        /\ lost' = lost \cup {ends[j][e]}
  /\ UNCHANGED <<firmware, fleetVars, pc, listVars, ends, swap, saved,
                 deaths, away, crossed, tainted>>

-----------------------------------------------------------------------------
(* The gateway is killed and started again: the agents find the end of     *)
(* their input, the page shows which boards are not at home.               *)
Die ==
  /\ deaths < MaxDeaths
  /\ deaths' = deaths + 1
  /\ busy' = [b \in Boards |-> Nobody]
  /\ cache' = [b \in Boards |-> NoRole] /\ fresh' = FALSE
  /\ pc' = [q \in Jobs |-> IF pc[q] \in AtRest THEN pc[q] ELSE "gone"]
  /\ todo' = [q \in Jobs |-> {}] /\ found' = [q \in Jobs |-> NoSaved]
  /\ saved' = [j \in Jobs |-> NoSaved]
  /\ away' = away \cup {b \in Boards : firmware[b] # Home[b]}
  /\ lost' = lost \cup {b \in Boards : busy[b] # Nobody}
  /\ crossed' = {} /\ tainted' = FALSE
  /\ UNCHANGED <<boardVars, ends, swap, agent>>

RequestStep(q) == List(q) \/ (\E b \in Boards : Probe(q, b)) \/ Update(q)

JobStep(j) ==
  \/ Validate(j) \/ Claim(j)
  \/ Save(j, ends[j]["rx"], "saveRx", "loadRx", "saveTx") \/ Load(j, ends[j]["rx"], "loadRx", "saveTx")
  \/ Save(j, ends[j]["tx"], "saveTx", "loadTx", "listen") \/ Load(j, ends[j]["tx"], "loadTx", "listen")
  \/ Listen(j) \/ Await(j) \/ Check(j) \/ Sent(j)
  \/ Close(j) \/ FlashHome(j) \/ Apply(j) \/ Release(j) \/ Finish(j)

AgentStep(j, e) == AgentRuns(j, e) \/ AgentRefuses(j, e) \/ AgentEnds(j, e)

Next ==
  \/ \E q \in Jobs : RequestStep(q)
  \/ \E j \in Jobs : \/ JobStep(j) \/ CutOff(j)
                     \/ \E e \in Roles : AgentStep(j, e)
  \/ Expire \/ Die

Spec == Init /\ [][Next]_vars

(* Threads run, and a transmitter ends: its run has a limit of its own.    *)
(* Nothing is asked of the receiver.                                       *)
FairSpec == /\ Spec
            /\ \A j \in Jobs : WF_vars(JobStep(j)) /\ WF_vars(AgentStep(j, "tx"))

-----------------------------------------------------------------------------
(* "Leave it as you found it": a board that nobody has claimed has its     *)
(* owner's settings, or a log or an error says that it may not, on every   *)
(* way out of every job and for agents that outlive theirs.                *)
SettingsKeptOrReported ==
  \A b \in Boards : busy[b] = Nobody => own[b] \/ b \in lost

(* The cache is written by listings that take seconds and expired by jobs  *)
(* that end meanwhile.  What it says of a free board, while it is fresh,   *)
(* is what the board runs, but for the listing that a job's end crossed    *)
(* and the moment between a job's release and its expiry of the cache.     *)
CacheIsTrue ==
  fresh /\ ~tainted =>
    \A b \in Boards :
      busy[b] = Nobody /\ (\A j \in Jobs : pc[j] = "expire" => b \notin Ends(j))
        => cache[b] \in {firmware[b], NoRole}

(* A job that claimed its boards gives them back, whatever fails on its    *)
(* way: no step waits for a board, an agent or a report that never comes.  *)
JobsGiveBack ==
  \A j \in Jobs : (\E b \in Boards : busy[b] = j) ~> (\A b \in Boards : busy[b] # j)

(* Jobs borrow boards as BoardLending promises.                            *)
Lending == INSTANCE BoardLending WITH
  borrower <- busy,
  atHome   <- {b \in Boards : firmware[b] = Home[b]},
  told     <- away
PromiseKept == Lending!Spec
=============================================================================
