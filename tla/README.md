# UnionLabs: a TLA+ model of its protocols

UnionLabs runs learning and communication experiments over software radios
(USRP), LoRa modules and plain TCP. An application has two calls, `produce()`
and `consume()`; everything else answers three questions: what is exchanged
(`deploy/workspace/algorithms`), over which physical layer (`drivers/`), and
which part of the network this process plays (`union/`). One process may hold
all parts (loopback, chain, gossip, multi) or one part each (tx, rx, relay,
peer, server, client).

This directory models what holds the parts together: who sends what when, what
happens when a burst or an acknowledgement is lost, a deadline passes first, a
process starts late, stops early or is killed; how every node of an experiment
comes by the carriers and ports on which it must meet the others; and how the
threads of one radio process start, hand blocks on and stop. What is computed from
the samples is left out; a burst decodes or it does not.

Sources are named relative to the repository root; `PROJECT.json` ("map")
gives the lines behind every definition.

## Inventory

| component | state | operations | hard because | correct when |
|---|---|---|---|---|
| ARQ of the radio: `SOURCE`, `SINK` (`drivers/usrp/include/ACQ_stop_and_wait.hpp`), `main.cpp` | chunk and attempt in hand, `ok_per`, `failed_`, `done_`, `running_`; `chunks_` | transmit, poll ACK, time out, give up, receive, stop, report | three threads and two processes, both directions lossy, timeouts, Ctrl-C | an ACKed chunk is held, a success is a delivery, the source always reports |
| ACK link (`ack_transport.hpp`, `net.hpp`) | ACK queue or stream | `send_ack`, `poll_ack`, connect, accept | late and repeated ACKs, a reset connection | (part of the ARQ and of the programs) |
| modem process (`physical_layer.hpp`, `FIFO.hpp`, `transceiver.cpp`, `main.cpp`) | a FIFO per stage, `stop_flag_`, the burst in `transmit_thread` | start, queue, drain, stop, Ctrl-C | ten threads, sleeps, two signals, faults of the radio | what was queued leaves, stop silences, bits and soft decisions match, the process ends |
| warm sessions (`main.cpp`, `marl_phy.py`, `real_channel.py`, `marl_env.py`) | modem and FIFOs kept over sessions, one ACK connection | connect, fire, session, re-accept | frames of an earlier session, colliding agents, exceptions | TRUE is earned, every fire reports |
| federated programs (`fl.py`, `mnist_sgd_over_sdr.py`) | round, deltas, mirrors; a process per transfer | send, receive, average, apply | frames without an author or a round, exit status ignored | means are fair, mirrors agree |
| signal processing (`modulator.cpp`, `synchronization.cpp`, ...) | samples, filters | modulate, detect, decode | numeric | its loops are in the modem process |
| `PeerLink` (`union/phy_link.py`) | edges, listen queue, `_inbox` | `step`, `_send`, `_recv`, `close` | no coordinator, nodes at different rounds, blocking sends | synchronous gossip, no deadlock |
| `TcpStar` (`union/phy_link.py`) | `_live`, waiting connections | server round, client step, goodbye | clients leave, time out, are killed in mid-round | full rounds, matching answers, both ends terminate |
| `RadioRoundTrip`, `ChainRelay` (`union/phy_link.py`) | a process per burst, TCP for the way back | `step` of tx, rx, relay | deadlines of two hops nested in each other | replies match requests, failures are not goodbyes |
| runners in one process (`union/phy_link.py`) | the applications | sequential loops | what a channel does to a payload, stale buffers | TRUE is a whole exchange; gossip is synchronous |
| LoRa framing (`drivers/lora/python/framing.py`) | fragment, attempt; Reassembler | `send_message`, `recv_message` | a broadcast medium shared with others, one byte of message number | messages whole, and True only if returned |
| `LoRaLink`, `LoRaChannel` (`lora_driver.py`) | message number, peer | `step` of tx, rx, relay | replies say nothing of their requests | replies match requests |
| gateway (`drivers/lora/gateway/gateway.py`, `pi_agent.py`) | `busy`, inventory cache, jobs | list, claim, run, stop, restore | job threads, probe threads, HTTP threads | a board serves one job and goes home, or somebody is told |
| firmware (`lora_phy.ino`) | one command loop | | | (seen as the medium) |
| slot clock (`marl_multi/slot_sync.py`) | connections, slot | barrier, tick, `wait_slot` | start order, ticks queue in sockets | nobody is left out |
| access point (`marl_multi/ap_multi.py`) | registered, intents, decoded | register, note, decode, arbitrate | reader, decoder and slot threads | collisions lose, deliveries are real |
| agent (`marl_multi/agent_node.py`) | decisions left, burst | wait, fire, wait for ACK | acts on old ticks, late ACKs | ends; counts what was delivered |
| configuration (`topology.py`, `topology_radio.py`, `phy_profile.py`, `run_algo.py`, `node_ports.py`) | wiring file, survey records, a node's settings | parse, refuse, resolve | no two nodes talk before they run; five sources for one number | ends tune alike, dial what is bound, typed values win |
| bring-up (`auto_link.sh`, `calibration.sh`, `prepare_phy.py`, `calibrate_sync.py`, `link_setup.py`, `calibration_plan.py`) | `link-state.json`, plan, ready flag, profile | survey, publish, gate, calibrate, launch | two boxes, files without locks, kills | the boxes tune together, thresholds are earned |
| main loop (`union/run_algo.py`) | steps done | `step` until `--steps` or None, `close` | | part of the links above |
| survey folder (`prepare_phy.py`) | surveys, lists of frequencies and drafts in folders shared by boxes and people | measure, publish, supersede, draft, verify | runs on several boxes, people edit drafts, kills in mid-publication | a surveyed path keeps a survey, edits stay |
| node records (`discover-node.py`) | heartbeat files in a folder shared with people | beat, reap, bye | anybody may reap, names are shared and change, reaping is by name | the inventory settles on the sessions that run, people's files stay |
| mock medium (`marl_multi/mock_medium.py`) | acts and results of a slot, a barrier of threads | note, wait, resolve, answer | results are read after the barrier, agents end or die | answers are of the slot asked about, nobody asks for ever |
| simulated network (`marl_ra.py`, `marl_network.py`) | channel in use, each device's counters and flags, batches | arrive, sense, back off, send, ACK, collect, learn | devices change a channel each sees for itself; batches outlive their episode | one voice at a time, updates from the episode's own samples |
| learners (`marl_learning.py`, ...) | parameters | numeric | | payloads here |

Components call each other in one direction: the main loop calls `step()` of a
link, a link calls the application and a driver, a driver starts a modem process
that runs the ARQ. Processes meet only through TCP connections, the air and
files (surveys, `link-state.json`, the calibration plan and its flag, node
records); threads of one process share the members named above.

`PROJECT.json` lists the hazards of this code with the line where each bites and
the properties that would show it going wrong.

## Modules

| module | models | run |
|---|---|---|
| `ReliableTransfer` | what the ARQ promises: delivered, then confirmed, then reported | (target) |
| `StopAndWait` | SOURCE and SINK workers, both `main()`s, the ACK link | `arq` |
| `StopAndWaitProofs` | typing, the three safety properties and the refinement of the above | |
| `ModemThreads` | the threads of one modem process in each role, `main()`, signals | `modem` |
| `ModemThreadsProofs` | stop() silences the transmitter, bursts leave in order, soft decisions lag by a known number | |
| `WarmFires` | on-demand sources and a serve-forever sink under the random access programs | `programs` |
| `FederatedRounds` | rounds of `fl.py` and of the two-ended SGD over both kinds of link | `programs`, `rounds_track` |
| `SyncGossip` | what a decentralised round promises | (target) |
| `PeerLink` | `gossip_edges` and `PeerLink` over TCP | `peers` |
| `PeerLinkProofs` | `PeerLink` implements `SyncGossip`, which keeps neighbours in step | |
| `TcpStar` | hub and clients of `TcpStar` | `star` |
| `TcpStarProofs` | typing and the three safety properties of `TcpStar`; and of the other star, `FederatedRounds`, that its rounds agree | |
| `RelayChain` | a chain of processes, each hop over TCP or the air | `chain` |
| `RelayChainProofs` | in a chain of any length, a failure is not taken for the end of the run, and a client adopts its own answer | |
| `InProcessRunners` | loopback, chain, gossip and slotted runs in one process | `chain` |
| `LoRaFraming` | `send_message`, `recv_message`, the shared medium | `lora` |
| `LoRaExchange` | `LoRaLink.step` of initiator, responder and relay | `lora` |
| `SlottedAccess` | slot clock, access point, agents | `slots` |
| `SlottedAccessProofs` | its two safety properties, those of the two stand-ins below, and what a fire of `WarmFires` is worth | |
| `MockMedium` | `mock_medium.py` and the agents that ask it | `slots` |
| `RandomAccess` | `marl_ra.py`: medium access of the simulated devices, and whose samples teach whom | `slots` |
| `AgentMedia` | the agents on any of these three media, one in an execution | `slots` |
| `BoardLending` | what the gateway promises of the boards it lends | (target) |
| `Gateway` | `Fleet`, `validate`, `run_job`, the agents on the Pis | `gateway` |
| `GatewayProofs` | `Gateway` implements `BoardLending`; its two safety properties; and of the layers below, that transfers are whole (`LoRaFraming`) and answers in step (`LoRaExchange`) | |
| `Surveys` | which survey record answers a question, and what is taken from it | `settings` |
| `Wiring` | `topology.py`: a wiring file read or refused | `settings` |
| `ModemCommand` | `topology_radio.py`: a node of it as a modem command | `settings` |
| `NodeSettings` | every node of an experiment resolving its settings by hand, at its own time | `settings` |
| `NodeRecords` | `discover-node.py`: sessions that publish themselves and reap each other's records | `settings` |
| `SurveyFolder` | `prepare_phy.py`: runs that publish surveys, supersede each other's, and draft topologies | `settings` |
| `SurveyFolderProofs` | a surveyed path keeps a survey, people's edits stay; two boxes brought up use the same carriers | |
| `BandSurvey` | quiet stretches of a sweep, thresholds from noise and from a log | `bringup` |
| `LinkBringUp` | `auto_link.sh` on both boxes over their shared files | `bringup` |
| `MC...` | values of the constants for TLC; five of them are sums | |

Five MC modules are sums of systems that have nothing to do with each other:
`MCRelayChain` (`RelayChain` and `InProcessRunners`), `MCPrograms`
(`FederatedRounds` and `WarmFires`), `MCLoRaFraming` (`LoRaFraming` and
`LoRaExchange`), `MCNodeSettings` (`NodeSettings`, `NodeRecords` and
`SurveyFolder`) and `MCSlottedAccess`, whose sum is the module `AgentMedia`
(`SlottedAccess`, `MockMedium` and `RandomAccess`). An execution chooses one at the start, holds the others in their
final state and runs that one; properties of each are checked over all. A sum
pairs the levels or the forms of one question and adds no interleaving:
its states are those of the one and those of the other.

Operators named `X_Something`, next to an operator `X`, are that operator with
a plausible slip of the programmer. No specification uses them; putting one in
the place of `X` makes the run's property fail, which shows that the property
says something of that code.

### StopAndWait

One message of `NumChunks` chunks. `pc` is the place of SOURCE's worker in its
loops: `tx` (about to transmit chunk `idx`), `wait` (in the poll loop of that
attempt), `publish` and `flag` (the last two stores, separately, because
`main()` reads the two atomics while they happen), `end`. `tries` is the attempt
number, `ok` is `ok_per`, `failed` the local count, `unacked` and `srcDone` the
atomics `failed_` and `done_`. `SrcMainStop` and `SrcMainReport` are `main()`:
leave the wait loop, `stop()` (clears `running_`, joins), print `RESULT`.
`SrcUnwind` is what the loops do when `running_` is cleared under them.

The sink is `SinkReceive` (decode, keep the chunk, ACK it even if it is a
duplicate, judge completion by the number of keys), `SinkHold` and `SinkLeave`
(the farewell sleep), `SinkInterrupt`. `air` and `acks` are the two queues. A
loss is decided at the moment of sending; TCP (`AckMayBeLost = FALSE`) loses
none. Only an attempt limit bounds `tries`; without one (`MaxAttempts = 0`) the
counter is not kept because nothing reads it.

Time: a deadline may pass at any moment of its wait. The one place where the
length of a wait matters is the farewell sleep, `max(2000, 2*timeout + 500)` ms:
it is counted in source timeouts (`GraceTimeouts`, two), and its margin of half
a second lets a retransmission of the last of them arrive.

### ModemThreads

The inside of one process. `Stages` is the line of stages the pipelines start
(single carrier or OFDM), `q[k]` the FIFO stage k pops from, `hand[k]` the block it
works on, `alive` the stages whose thread has not returned: `DrainGate` lets a
stage go once `stop_flag_` is up and its FIFO is empty. A block is the number of
its burst; that it is invalid, cut short, not detected or decoded with errors is a
choice of the stage where it happens. `transmit_thread` is four places
(`radio`), because stop() and the radio's errors are looked at between the
pieces of one burst; `air` is what it put out. `main` is where `main()` is, in
six roles: a one-way burst or LoRa transmitter or tone, the on-demand transmitter,
a one-way receiver, and SINK with its sessions. A sleep of `main()` may be over
before the line has done its work (`late`): how long a burst takes to modulate is
not the program's to say. The soft decisions are a FIFO of their own (`llrs`)
that SINK waits for with a deadline; `gaveUp` counts the waits that ended
without them. `std::signal` restarts the system call it interrupts, so the first
Ctrl-C ends no `accept()` and no `getline()`; the second one aborts, and so does a
first one while `stop()` is joining, which has raised `global_stop_signal` itself.

### WarmFires

One `sink_arq --serve-forever` and a source per agent. `source[a]` is that source's
place from its connection to its result, `station` the sink's (`accept`, session,
grace), `fifo` what its receiver still holds of any session, `backlog` the
connections the kernel has accepted, `guest` whose connection the session has,
`ackIn[a]` what a source will read. A fire is TRUE, FALSE or an exception; `Settle`
is the epoch's books in each of the six programs, and the end of a program whose
`fire()` raised outside of a `try` (`Caught` says in which it is in one: alone in an
epoch it is not, under `physical` either). `credits` is history: which burst's
ACK made which fire TRUE. Time is order, but for two facts of the constants: a session
outlasts its source, and a cold source's connection attempts outlast a session.

### FederatedRounds

A round is written as the code writes it: `turn` is whose transfer the server
expects, `src[p]` and `sink[p]` the two processes a node may have running, `peer`
whom a source reached, `file` what a finished sink has on disk. On the model link a client first connects and sends
its HELLO (`Dials`, `Hello`), and the server accepts until all have (`WaitAll`): a
client that is killed in between makes it raise, one that is killed before leaves
it in `accept()`. A model is the
sequence of aggregates applied to it, an aggregate the set of contributions it
averages: floating-point averaging is not modelled and what went into it is all
the properties tell apart.

### PeerLink and SyncGossip

A node is a process: `down` until its constructor has bound the port, `ready`
between rounds, `send`/`sending`/`recv` inside an exchange, `closed`, `failed`.
`Begin` is `step()` up to its first edge (it produces the payload of the round);
`Connect`, `Sent`, `TakeBuffered`, `Accept` are the parts of `_send_tcp` and
`_recv_tcp`; `Finish` consumes and goes on to the next edge, as the code's loop
does, in the same action. Every frame has a connection of its own, so the listen
queue is the sequence `pending`. A payload is `<<sender, round>>`. Frames
that do not fit the socket buffers (`fits = FALSE`) keep `sendall` blocked until
they are read, or until the 5 s left on the socket by `create_connection` are
over: then the sender fails and the peer finds a frame cut short.
`Custom`, `Ring` and `Full` are the three kinds of edge list.

### TcpStar

A client's connection of step r lives as long as it waits in that step, so
the hub's list of connections is the sequence `waiting` of `<<client, step>>`.
`HubAccept` has a disjunct per kind of frame: a payload, a goodbye (`bye`), a
connection that breaks in mid-frame (`cut`). `HubMix` and `HubAnswer` are apart
because clients may leave in between. A payload that `_safe_unpack` refuses
(`unusable`, chosen once and for all in `Init`) is read and answered like the others
but left out of the average, so an answer is two sets: the payloads it averages
(`of`) and those it goes out for (`to`). `NoAnswer` is the end of a client's 10 s
of patience or a connection that the hub closed; `Crash` is a kill.
An answer that has arrived at the client's socket is `reply`.

### RelayChain and InProcessRunners

In `RelayChain` node 0 is the client, node `Last` the server, and hop i joins
i - 1 to i. `queue[i]` is the listen queue of a TCP hop; over the air a request is
one ARQ session (`SendHeard`, `SendUnheard`) and the answer is fetched from a
socket the receiver opens for it (`HandOver`), without a limit on `accept()`.
`held` is what an application would send: a relay that read nothing usable sends
on what it still holds. `spoiled` are the rounds of which a payload was
unusable. `verdict` is how the main loop ended: done, failed, crashed.

In `InProcessRunners` a payload is who computed it, in which round and in what
shape it arrived; `Carry` is what a channel does to one, and `Ask` to `HopBack`,
`Mix` and `Exchange`, `Decide` and `Slot` are the loops of the four runners.

### LoRaFraming and LoRaExchange

Senders run `send_message` for each message of their list, receivers sit in
`recv_message`. Every frame sent may or may not be heard by every other node
that wants it; what is heard stays in the node's radio until it is taken.
Deadlines (of an attempt, of a receive call) may pass at any moment. A fragment
carries the message number modulo 256 and its index; its origin is carried
along so that properties can say whose it was, the code never reads it.

`LoRaExchange` is one level up: messages of one fragment, and what
`LoRaLink.step` does with them. `hold` is the round its application's next
`produce()` would be about, `peer` whom a node answers: fixed, or whoever it heard
last. A step neither looks at whether its send succeeded nor says which request
its answer is for. `Rounds`, `SendAttempts` and `RadioCap` are 3, 2 and 2 in the run;
`vain` counts the listenings that heard nothing and the messages given up.

### SlottedAccess

The clock's start barrier counts connections, `Cardinality(conns)`, and the
access point connects to it like an agent, as in the code. Ticks are broadcast
into sockets: `next[m]` is the oldest tick that member m has not read. An agent
announces itself to the access point (`Hello`), joins the clock (`Join`), then
decides, once per tick read, to defer or to transmit (`Fire`, `Burst`), and waits
for an ACK (`Acked`) or for its timeout (`NotAcked`, not before the clock has
moved, if it is running). The access point registers agents, waits for all of
them, joins the clock, notes intents as its reader threads find them, decodes
whenever a burst is ready, and arbitrates on each tick it reads. Both servers
are assumed to listen before the agents connect: a refused first connection ends
an agent before anything of the protocol has happened.

### MockMedium

A connection is its server thread (`thread[a]`), its lines under way (`request`,
`reply`) and its agent. `barrier` is `threading.Barrier`: filling, draining (nobody
enters before all of the last slot have left) or broken for good by a wait of
60 s, which may pass at any moment of a wait. The last thread to arrive resolves the
slot. `fired[a]` and `told[a]` are history: the slots a transmitted in, and how many
answers it has had.

### RandomAccess

The program is one loop, so `phase` is the place in a time step: `Arrive`,
`UpdateChannel`, `UpdateDevice`, `Act` (with the samples an agent's decision
completes), `Learn`, `CheckCollision`; each goes over all devices, as the functions of
`marl_network.py` do. A decision of a policy and a draw from the contention window are
any. A row of a batch is the episode its sample is of, a lesson the set of episodes
an update learnt from: `TeachersOf` says whose rows go into it, by the consensus graph,
the product of ratios or the running sum of `compute_gae`.

### Gateway

A board is what it runs (`firmware`) and whether its owner's settings are on it
(`own`); an agent that is at work on a board and will put the settings back in its
`finally` counts as if they were, until its end shows whether it could. A
request and the job it leads to are one `pc`: a user loads the page any number
of times (`List`, `Probe` per thread, `Update`), then submits (`Validate`, `Claim`),
and the job's thread goes on from there. `Save` and `Load` are the loop before
the run, `Listen` to `CutOff` the run, `Close` to `Finish` the `finally` clause,
whose steps are apart because requests and other jobs come in between. `Abort` is
an exception, which every step that talks to a Pi may raise.

A short agent run (STATUS, flash, apply) is one step: refused or unreachable,
half way, or done; a load may land and be taken for failed. A long one is
`agent[j][e]`; it holds the serial port while it runs, and `Close` may leave it
behind. The Stop button is the choice in `Check` and an early end of the
transmitter. `Die` kills the gateway and starts it again: jobs are forgotten,
agents find the end of their input.

`away` and `lost` record what somebody has been told (a job's error, its log,
`boards_restored`; after a restart, the roles on the page): a report counts from
the moment it is made. `crossed` and `tainted` mark the inventories that a job's
end overtook; the code has no such mark, and `CacheIsTrue` says that the cache
errs only there.

### Surveys, Wiring, ModemCommand, NodeSettings

These are the pure functions of the configuration, composed by the one thing that
is not pure: every node is launched by hand, with its own flags, at its own
time (`Launch`, `ApplyProfile`, `Wire`, `Settle`, or `RunModem`), while surveys are
published (`Publish`) and a draft is completed (`Fill`). `Topology(raw)` is the file
parsed or `Refused`; `conf[n]` the namespace a node's process ends up with, with
the sets of names that were typed and that came from a survey, as the code asks.
`read[n]` is what a node read, so that a property can speak of two nodes that
read the same. Numbers of carriers and ports are small and real (MHz, 5700);
names, paths and serials are values nothing looks into.

### NodeRecords

`pc[s]` is the place of a session in `beat()`: `probe`, `write`, `list`, `gc` with
the names it has still to look at (`todo`), `unlink` with the name it has judged
(`doomed`), `sleep`. `files` is the settings folder by name: a record and who wrote
it, a file of people (`authored`), or one that does not parse (`garbled`). A
session's name is its radio's serial, or its host's if the probe finds none, so
two sessions may share a name and one may change its own. Of time only one thing
is kept: whether a heartbeat (or the mtime of what does not parse) is older than
`--gc` (`Ages`); for the record of a session that goes on this is a fault, of a
beat that comes late or of clocks that differ. A write is whole or not at all:
`write_atomic` renames.

### SurveyFolder

`pc[p]` is the place of a run of `prepare_phy.py` in its work on one radio:
`measure`, `record` (one instant for the record and its name), `list` the earlier
surveys of the path, `replace` the new one in, `remove` those listed, one by one,
`look` whether the draft is there, `draft`, `verify`. These are apart because a second
run, a person with an editor and a kill come in between. A survey's name is its path
and the second (`Name`); what a sweep concludes is `BandSurvey`'s, here one of `Sweeps`.
Three modes: one radio, `--all` (a run per radio, in which a failure ends that radio's
only) and `--topology-only`. `published`, `taken`, `clashed`, `raced` are
history: what the two properties exempt is named by what happened, two surveys of one
path in one second, two runs at one draft at once.

### BandSurvey and LinkBringUp

`BandSurvey` is `quiet_regions`, the saved options, the draft's two carriers, and
the thresholds from noise (`NoiseThreshold`) and from both ends (`LinkThreshold`),
over a sweep and a receiver's log. A row of a sweep is a point and its power; a
point that failed has no row, so that a stretch may span it, as in the code. A
square root is the integer one.
`LinkBringUp` runs `auto_link.sh` on both boxes: `at[b]` is the line of the script,
a Python call by call where it touches a shared file. `link-state.json` is
truncated, then written (`OpenState`, `WriteState`), from what was read earlier
(`mine`); the plan goes through one `.tmp` of a fixed name (`OpenPlan`, `DumpPlan`,
`RenamePlan`); the ready flag has an age (`Age`). `Filed(b)` is whose survey `phy_profile.find`
answers with, a box's own or, failing that, the only one there is; it is asked anew
each time, so what a calibration goes by (`Adopt`) and what it writes into
(`EndListening`) may be two. `Halt` closes the terminal.

## Runs

| run | instance | shows |
|---|---|---|
| `arq` | 3 chunks, 4 attempts, 3 frames in flight, losses both ways, interruptions of both | `AckedChunksAreHeld`, `SuccessIsDelivery`, `GraceClosesLastChunk`, refinement of `ReliableTransfer` (`PromiseKept`), `SourceReports` |
| `modem` | 2 chunks twice or 2 lines, 2 bursts received, bursts in 2 pieces, 2 faults, 2 sessions, every role, both waveforms | `EveryBurstLeaves`, `QuietAfterStop`, `SoftLag`, `ModemEnds` |
| `programs` | up to 3 clients, 2 rounds, each direction over either link, one client dying; or 2 agents, 2 epochs, six programs, one process dying | `RoundsAgree` (`FairMean` and `MirrorsAgree`), `TrueIsEarned`, `EveryProgramEnds` (of `FederatedRounds`, `EndsUnlessLost`; of `WarmFires`, `ProgramEnds`) |
| `peers` | 4 nodes, ring, full graph, two edge lists, equal and unequal `--steps` up to 2, both frame sizes, late starts | refinement of `SyncGossip` (`PromiseKept`), `EveryoneFinishes` |
| `star` | 3 clients, equal and unequal `--steps` up to 2, one may be killed, four choices of unusable payloads | `AnswerIsOfMyRound`, `FullRoundUnlessLate`, `HubOutlivesClients`, `EndsUnlessAbandoned` |
| `chain` | client, 2 relays and server over all 8 mixtures of media, 2 rounds, any one node killed; or the four runners, 3 nodes, 3 channels, 2 steps | `AdoptsItsAnswerUnlessSpoiled`, `DoneAfterUpstream`, `EndsUnlessOnAir`; of the runners `InOneProcess`: refinement of `SyncGossip` by the gossip runner, and a chain's round trip returns what its nodes made of it |
| `lora` | 2 pairs in hearing of each other, messages of 2 and 1 fragments, 2 attempts; or a pair or chain of 3, 3 rounds | `TransfersAreWhole` (`ReturnedIsOneMessage` and `TrueMeansReturned`); `AnswersInStep` |
| `slots` | 2 agents (2 and 1 decisions), access point, 3 ticks; or 2 agents, 2 slots on the mock medium, each of them killed, missing or late; or 2 devices of each kind, 2 episodes of 12 steps, batches of 2 | `NoTickBeforeHello`, `DeliveriesAreDecodes`; `MediaBehave` (of `RandomAccess`, `OneVoice`; of `MockMedium`, `AnswersOfTheSlot`), `LearnsThisEpisode`; `EveryAgentEnds` (`AgentsEnd`; of `MockMedium`, `NobodyAsksForEver`) |
| `gateway` | 2 users with a job each, 2 boards of opposite kinds that may both be swapped, one job that swaps both and one that fits, the gateway killed once | `SettingsKeptOrReported`, `CacheIsTrue`, refinement of `BoardLending` (`PromiseKept`), `JobsGiveBack` |
| `settings` | 13 wiring files, surveys before and during the launches, several command lines per node; or 3 sessions of the inventory, two of one radio, a file of people, one fault; or 2 of 3 runs of `prepare_phy.py` over 2 radios, 2 seconds, one fault or kill, drafts edited at any moment | `ResolvesRight`: `EndsMeet` (`CarriersMirror` and `PortsMeet`) and `IntentOutranksMeasurement`; `InventorySettles`; `PathKeepsSurvey`, `EditsSurvive` |
| `bringup` | 3 link files, 2 sweeps, 2 noise levels, 2 peaks, a log of 4 lines, two starts, kills at any step | `TunedTogether`, `MeasuresRight` (`SurveyFindsTheWidest` and, of each calibration, `ThresholdIsEarned`), `EveryRunEnds` |
| `rounds_track` | 2 clients, nobody dies | a violation of `TrackTheServer`, see below |

`TypeOK` of each module is a definition for the reader and the proofs; no run
spends time on it where a theorem or a stronger property covers it.

Why these sizes are enough to be worth running:

- `arq`: an ACK can be stale by one chunk, by two, and repeated; the first,
  a middle and the last chunk differ; four attempts are more than the two the
  farewell sleep spans, so both endings of the last chunk occur.
- `modem`: two bursts make an order, two pieces a burst that can be cut, two
  faults a fault after a fault, and `MaxErrors = 2` the end of `transmit_thread`
  within them. `LeftOut` leaves out, per role, stages that pop a block and push it
  on: with one or two of them left, a block can be in a stage, between stages and
  behind another one, which is all more of them add. The stages that drop blocks or
  touch two FIFOs are all there.
- `programs`: three clients are the smallest number in which the chunks of two
  mix while a third is right, and a transfer meant for one can reach either of
  the others; the second round shows what the first left behind. Two agents and two
  epochs are what it takes to inherit a burst from oneself and from another.
- `peers`: four nodes are the smallest number with a circle of waits longer than
  a triangle and with two edges that do not touch; two rounds are the smallest
  number in which a neighbour can be ahead; the edge lists hold a repeated edge,
  a node without edges and an order that is not along the line.
- `star`: with three clients one can be late, one killed and one alive in the
  same round; the second round shows what the first left over. No payload, one,
  all of the first round, or one in each is unusable.
- `chain`: two relays give a hop between two relays, each of both media on either
  side; in the second round a relay holds an answer of the first.
- `lora`: fragments of two and ACKs of two exchanges are in the air at once,
  and a multi-fragment message is followed by another of the same sender.
  `InboxCap` bounds what a radio holds; further frames are not heard, which is
  one of the outcomes the medium has anyway. In the exchange, three rounds let an
  answer be late by one and by two, and `Patience` is one wait in vain, the
  smallest number that can put two nodes out of step.
- `slots`: a decision of one agent, or an intent or ACK of it, can be a whole
  slot late with the other agent acting in the meantime, and the clock can end
  before, during and after a wait. Two threads are enough for a fast and a slow one
  at the barrier, two slots for an answer of one in the other. The times of the
  simulated network keep their order (SIFS < DIFS < SIFS + ACK, CW from 1 to 4):
  two devices collide, transmit and back off across each other, and 12 steps hold
  a transmission, its ACK and another decision of both.
- `gateway`: the job that swaps needs what the other one leaves behind and the
  other way round; a page load of either user overlaps the other's job; one kill
  leaves boards away from home for the job that comes after it.
- `settings`: a file for each of the shipped shapes, and for each way to give a
  carrier: one number, a list, a quoted number, a blank, none. Of three sessions one
  can hold a stale judgement about the second while a third shares the name; the
  one fault is a late beat, a missed radio, a failed write or a file left unreadable.
  Two runs at a time are all it takes to list, replace and remove across each other
  (the proof has no bound), two seconds to tell a survey from its successor and to have two in
  one; the radio that two of them share has an earlier survey of each of two bands.
- `bringup`: the sweeps hold a stretch at either edge, one in the middle, two of
  equal width, one that spans a failed point and one too many for the list; four
  lines of log are two bursts that pass, the weaker one first or last, or one with a stranger's
  peak or a refused burst before or after it; with both carriers pinned a sink without a survey comes to
  listen before or after the source has published one. Two starts are one of each
  box, or one box started over what it left behind.

The bounds put in by the models are `QueueCap`, `InboxCap`, `Patience`,
`MaxTicks`, `MaxClock`, `MaxDeaths`, `Deaths`, `MaxBursts`, `MaxFaults`, `Sessions`,
`LogLimit` and `MaxRuns`; `NumChunks`, `Reps`, `Rounds`, `Slots`, `MaxSteps` and
`Steps`, `NumE` and `NumS` are arguments or settings of the programs, and `MaxErrors` and `MaxAttempts` constants
of the code, made small. At a queue's bound a frame is lost (losing it is always
possible). `CHECK_DEADLOCK FALSE` stands in every configuration because all of
these systems end.

### Where the code and its own words differ

One run expects a violation, `rounds_track`: `fl.py:14` says that all nodes "init from the
same seed and apply the same aggregate -> stay synchronized". With the downlink
over the radio and two clients, the server starts a transfer per client without
saying for whom, all of them reach the one `--ack-host`, and nothing in the frame
says which round it is of: one client applies the same aggregate twice and the
other waits for ever.

The properties that hold are stated so that they survive what the code does
otherwise. Reading and checking showed, besides:

*ARQ and modem.* `unacked()` says "0 => full success"; a Ctrl-C in mid-chunk
leaves it at 0 with chunks never acknowledged (`ACQ_stop_and_wait.hpp:56`). `SENT`
is printed when the last FIFO is empty, while `transmit_thread` still holds the
last burst; a comment at `main.cpp:1199` says the caller then fires "only after
this one is transmitted", and an end of input right after it can cut that burst.
After ten invalid blocks `transmit_thread` returns and the LoRa transmitter waits
for ever on `tx_pending()`. The first Ctrl-C does not end a process in `accept()`
or `getline()`. `receive_thread` gives up after ten timeouts and the process goes
on deaf. A wait for soft decisions that is given up leaves the two FIFOs one
apart for all later sessions (`SoftLag` says by how much), where the comment at
`ACQ_stop_and_wait.hpp:257` has them in lockstep. In a one-way receiver, messages of
different lengths can mix, and the soft FIFO is never read.

*Random access and federated rounds.* A burst of an earlier session is
acknowledged to the next. After each success the next fire finds the access point
in its grace (6.5 s) for longer than it is willing to wait (6 s). With
`physical=True` the single ACK connection serialises the agents, or acknowledges a
reset agent's burst to another. `SenseStream.latest()` returns its last value after
its process died. A late ACK after `fire()`'s drain is counted (`ap_multi.py:383`);
two agents that transmit in one slot may both be acknowledged, an intent late
in a socket being judged a slot later (`slot_sync.py:5`). A payload of more than 255
chunks makes `source_arq` exit, `.run()` does not look, and the peer waits for
ever. A connection reset at the wrong moment mixes chunks of two clients into
one delta. An SGD worker whose connection is given up applies an update its mirror
never sees. Two clients with the same `--client-id` never complete `wait_all`, whose `timeout` is
not used: a client that died before it connected keeps the server and all the others
waiting (`EndsUnlessLost` exempts it).

*Learning.* An agent whose batch is full goes on overwriting its rows until all are
full (`marl_ra.py:389`), so that the rows `compute_gae` walks back over need not be in
order, and its running sum is not reset between agents; `done` is the one of the step
before. Rows of one index are of different moments, though ratios are multiplied and
rewards averaged index by index. A contention window that has doubled stays so
until the episode ends. `BF.consensus` (`marl_ra.py:221`) does not exist; it is only
reached with an update interval below the number of episodes. A2C with `--marl 1` has no
critic to update. On the mock medium two agents with one `--id` are one
transmitter, and an agent that starts again finds its place taken.

*Star, chain and runners.* "One payload from EVERY live client" fails a client
that ran out of its 10 s, and one whose payload cannot be unpacked: it is left out of
the average without a word and answered with the others', which it adopts
(`phy_link.py:1116`). A relay that got nothing usable sends on what it holds.
`run_chain` counts a round delivered when a relay's `produce()` is None, and
`_safe_unpack(buf, spec)` does not use `spec`.

*LoRa.* The Reassembler "collects fragments of one message" (`framing.py:86`) but
tells messages apart by their number, not by their sender (`framing.py:94`), and
all senders number alike. Two that address one node at the same time, as nodes 0
and 1 of three `PeerLink`s with `link="lora"` do on the full graph, have their
fragments joined into one message: with the constants `OneReceiver`, `BothToOne` and
`NeighboursFragments` of `MCLoRaFraming`, TLC finds it in eight states. Senders that
share no receiver are safe (`TransfersStayWhole`). A server with two clients always answers
node 1; a relay's way back has no fixed peer; an initiator whose send failed
listens all the same and may adopt the previous reply.

*Configuration.* A `defaults.freq_mhz` other than 915 counts as typed and makes
per-side carriers be skipped. A list there is resolved by every node against its
own radio, where the comment at `run_algo.py:302` says they agree by construction.
A relay dials its next hop's default port plus one. `ack: tcp` or `none` strips
the sides off the nodes and gets a relay's file refused. Two nodes disagree on a
candidate list when a survey is filed under a serial and the peer named by
address. A typed `det-mult` with a hyphen loses to a survey. With a topology, the
surveyed gate is never applied and `warn_unpinned_carrier` is silent.
`topologies/README.md` says `down: wireless` is refused; it is honoured.

*Inventory.* The first `beat()` is outside the `try`: a record that another session
reaps between this one's `listdir` and its `getmtime` (`discover-node.py:146`) ends
a session that was about to start, where the comment at line 216 has a transient
failure end no heartbeat. A file of people that does not parse, `link.json` with
a typo, is reaped after `--gc` like a record, although records are written whole;
`InventorySettles` says what is safe, files that were always readable.

*Surveys.* "Nothing is superseded that a later run could still have used"
(`prepare_phy.py:643`), but the list of frequencies beside a survey is named by the second
alone, so that two radios surveyed in one second share it; and two surveys of one
path in one second share a name, which the second to be published takes over and a run that had
listed the first removes (`PathKeepsSurvey` exempts them). Two radios that are
surveyed under one `--node` share a path if their channels and connectors do, and
one's survey supersedes the other's. `--all` does not hand `--force` on to the runs
it starts. The draft is looked for before it is written: two runs that both found
none write it one over the other, and an edit in between is lost (`EditsSurvive`).

*Bring-up.* `link-state.json` is read, changed and written without a lock: an
update can be lost and a box be launched without `--rx-freq`, where a comment in
`link_setup.py` says that a live run cannot get there. A file left from another day
opens the gate. Both boxes write the plan through one temporary file, so that a
rename can fail. The flag is raised before the receiver runs and survives it by
ten minutes; it is read twice, so that a transmitter may start on the default
carrier. When the sink's own sweep failed and the source's survey is the only one on
file, `phy_profile.find` answers with that (`phy_profile.py:353`): the sink's receiver goes by the
source's noise, and the threshold it measures is written into the source's survey, though
`calibration_rx.sh:86` calls itself "the follow-up measurement on the same signal
path". A point that cannot be measured is skipped, and the stretches beside it count
as contiguous (`freq_survey.py:66`). `noise_acq` may put the threshold above the preamble's own score, "no
quiet region found" cannot be reached, and a calibration that runs out of time is
satisfied with one good burst.

## Fairness

Weak fairness of a process's own steps: an operating system schedules threads and
deadlines expire.

- `StopAndWait`: the source's worker and its `main()`. Nothing of the sink, of
  the radio, or of the user: `SourceReports` must hold against a dead link.
- `ModemThreads`: one condition over all threads together. The work of a
  behaviour is finite (each block passes each stage once), so that some thread
  going on is enough for all to finish; nothing of the radio, the air, the
  caller's lines or Ctrl-C. A receiver's deadline is taken to be set.
- `WarmFires`, `FederatedRounds`: the program, the access point or server, and each
  source and sink; a chunk sent again and again is decoded in the end, because a
  client that is never heard is not what these programs are about, and
  `EndsUnlessLost` exempts what is given up. Deaths and what the air does are not
  fair.
- `PeerLink`: each node's progress. Timeouts (`GiveUp`, `SendBreaks`) are not
  fair: `EveryoneFinishes` says what happens when none of them strikes. It is
  stated for equal `--steps`, because a node that stops early rightly fails its
  neighbours, and `accept()` has no deadline, so a node whose neighbour failed
  waits for ever; "unless some node failed" is as much as the code gives.
- `TcpStar`: the hub without its `round_timeout`, each client with its own
  timeouts; kills are not fair.
- `RelayChain`: the client, the server's mixing and each node, with its timers.
  Kills are not fair.
- `SlottedAccess`: the clock up to its limit, and the agents. The access point
  need not do anything: an agent must end without it.
- `MockMedium`: the agents that have connected, the server's threads and the 60 s of
  their wait. Connecting and being killed are not fair.
- `Gateway`: the threads of the jobs, and the transmitter's agent, whose run has a
  count and a limit of its own (`HARD_MAX_S`), read by a loop that polls the
  clock. The receiver's agent may hang: every wait for it has a limit. Kills, cut
  connections and the age of the cache are not fair.
- `NodeRecords`: each session's next step while it lives, and time for records
  nobody refreshes. Starts, kills and faults are not fair; a session may stay down.
- `LinkBringUp`: each box's script; every wait in it has a limit. What a receiver
  hears, edits of the link file, kills and restarts are not fair.

## Proofs

The assumptions on the constants are those named in the modules; TLC evaluates
them in the runs. The inductive invariants were checked with TLC as well.

`StopAndWaitProofs` (all values of `NumChunks`, `MaxAttempts`, `GraceTimeouts`,
`AckMayBeLost`, `QueueCap` allowed by `StopAndWaitAssumption`):

- `Typing`: `Spec => []TypeOK`.
- `AcknowledgedIsHeld`: `Spec => []AckedChunksAreHeld`. Not inductive alone: a
  chunk is ticked on an ACK, so every ACK on its way must be of a chunk the sink
  holds (`AcksAreTruthful`), and the chunk in hand must be a chunk (`LoopShape`:
  where the worker may be for each `idx`, and who may have cleared `running_`).
- `SuccessIsTruthful`: `Spec => []SuccessIsDelivery`. Needs, in addition, that as
  long as nobody interrupted, `failed` is 0 exactly when every chunk below `idx` is
  ticked, and that what `main()` reads is the final count (`CountShape`).
  From there `RESULT acked=1` gives `ok[c]` for all chunks, and
  `AckedChunksAreHeld` the delivery.
- `Refinement`: `Spec => PromiseKept`. Initial states map to initial states; each
  action maps to `Deliver`, `Confirm`, `Conclude` or a stutter under the
  invariant above and `PendingChunk`: a chunk not yet closed is not ticked, so
  that a poll confirms it for the first time.
- `FarewellSuffices`: `Spec => []GraceClosesLastChunk`. An argument by counting.
  Frames arrive in the order they were sent (`InOrder`), so nothing on its way is
  of an earlier chunk than one the sink holds; a complete sink has had the last one
  (`Completion`); and from then on the source's timeouts since that chunk was first
  sent, the frames in the air and the one about to be sent are always one more than
  the timeouts the farewell sleep has spanned (`LossesAddUp`). At the end of the
  sleep there have been `GraceTimeouts` of them, which is what the invariant says.

`TcpStarProofs` (any finite non-empty set of clients, any `--steps`):

- `Typing`: with the bound on `waiting`, which needs that the number of
  collected payloads is below that of live clients while collecting.
- `AnswersMatchRounds`: `Spec => []AnswerIsOfMyRound`. The invariant adds that
  everybody the hub still has to answer is one the answer goes out for (`OwedAreMixed`),
  that the average is of those but the unusable ones, and that a
  client between two steps holds no answer (`NothingLeftOver`), so that none
  outlives the step it belongs to.
- `HubStaysForEveryone`: `Spec => []HubOutlivesClients`. The invariant: a goodbye
  in the queue is its sender's last frame (`GoodbyesAreLast`), who is not
  live has left and said so (`ForgottenHaveLeft`), and a closed hub has nobody
  live (`ClosedWithNobody`).
- `RoundsAreFull`: `Spec => []FullRoundUnlessLate`. The hub compares the number of
  payloads with the number of live clients; that this means one from each needs
  that a client never has two pending (`OneAsked`, `OneCounted`, `NotBoth`), because it sends
  one per step and leaves the step only answered or for good (`PendingIsOpen`);
  and, if nobody gave up, that whoever has one pending has not said goodbye and is
  therefore still live (`PendingInTime`). The payloads of the round are then an
  injection into the live clients, from at least as many, hence onto them.

The same module has the other star, the server and the clients of `fl.py`
(`FederatedRounds`, any number of clients, rounds and deaths):

- `AggregatesAreFair`: `RoundsSpec => []RoundsAgree`, which is `FairMean` and
  `MirrorsAgree`. That the server only counts, and that its count means one
  contribution of everybody, rests on who can be where at all (`CInv`): a radio process
  runs only in the part of its node's round that starts it, its session is with
  somebody it reaches, and who has sent its HELLO does not come back to it (`GInv`). Over that each program has its own invariant.
  - In the mock program only the single step of a round can happen.
  - In the SGD program, as long as nothing is lost, both models are the same sequence
    of updates, the worker's longer by what its source still has and what the
    server's sink holds back (`SgdInv`).
  - In the compressed and the full program a client is even with the server or one
    aggregate behind; what is under way to a client is the frame it lacks, what is
    under way from it was trained on the server's present model, and it never has
    both (`OnTheWayUp`, `OnTheWayDown`). The contributions collected are those of a
    set of as many clients as the server has counted, each of them even and with
    nothing under way (`Contributed`), so a full count is everybody. In the full
    program, moreover, only the client whose turn it is is active (`OneAtATime`).

`RelayChainProofs` (chains of any length, any media, any `--steps`, any node killed):

- `Typing`, and `FailuresAreNotGoodbyes`: `Spec => []DoneAfterUpstream`. The
  invariant: who has said goodbye is gone (`ToldIsGone`); a goodbye in a queue is
  its last frame and was really said (`ByesAreLast`), although frames behind which
  the sender failed are cut short; and a server that has nothing to answer has
  missed a payload (`EmptyHandedIsSpoiled`), the one exception the property makes.
- `AdoptsOwnAnswer`: `Spec => []AdoptsItsAnswerUnlessSpoiled`. A round is a wave: behind
  a node that is not asking (its request is not out, nor has it given up on the
  answer) nobody is busy and no request is queued (`WaveInv`). So
  whoever is busy is busy with the one request of the round (`BusyInv`), which is
  once in a queue (`QueueInv`), and in a round in which nothing was unusable what goes
  down is the client's request and what comes up the server's answer
  (`DataInv`). Every action is a move that keeps the wave in order, except those that
  advance it: sending, accepting, answering.

`ModemThreadsProofs` (any roles, stages, bursts, pieces, faults):

- `StopSilences`: `Spec => []QuietAfterStop`. Only `transmit_thread` reaches the
  air, so the invariant is about the burst it has in hand. Once stop() has been
  called, a burst it has begun (`Begun`: a piece is out, or passed the check) may
  still be added to the air and one it has not begun may not (`AtMostOneMore`);
  and as long as the radio has had no fault, a burst that was cut is the last
  one, cut by stop() (`CutByStop`). Every other action leaves those variables
  alone, but for stop() itself, which sets the mark they are compared with.
- `SoftDecisionsLag`: `Spec => []SoftLag`. The bits and the soft decisions of a block
  are pushed one after the other by one thread; the invariant (`SoftInv`) counts what
  was ever pushed to each FIFO, what was taken and what is owed to waits that were
  given up (`Counts`), and says who may be about to take (`Readers`). The two FIFOs
  hold the same blocks but for those numbers, in the demodulator's order.
- `EveryBurstGoesOut`: `Spec => []EveryBurstLeaves`. As long as nobody stopped it and
  the radio had no fault, each stage of the transmitter has passed on the first `n`
  blocks, for an `n` of its own, and the FIFO between two stages holds those from one
  number to the other, in order (`Flow`); a stage that has ended leaves nothing
  behind it (`Drained`). When `transmit_thread` has ended, its number is the caller's.

`PeerLinkProofs` (any number of nodes, any edge lists, any `--steps`, frames that fit
or not, timeouts anywhere). The one assumption, `SimpleGraphs`, is that no pair of
an edge list is listed twice and no node is its own neighbour: `gossip_edges`
builds the ring and the full graph so, refuses self-loops and drops repetitions.

- `PeersKeepPromise`: `Spec => PromiseKept`, the refinement of `SyncGossip`. The
  invariant is about one direction of one edge: the frames n has sent on it minus
  those p has taken is 0 or 1, and a frame that is on its way, in p's listen
  queue or in its buffer, is n's only one and of the round p wants next (`InStep`); if
  n failed, what it left behind is one frame or a piece of one, and nobody takes
  the piece for a payload (`LeftOver`). That difference stays below 2 because a
  node that has sent on an edge does not send there again before it has
  received, which is where it stands in its walk over the edges (`Walks`); and what it
  has heard is exactly what the edges it has passed brought (`Consumed`). With this,
  `Begin` is `Enter`, taking a payload is `Hear`, the end of the loop is `Stop` or
  `Fail`, and all other actions stutter.
- `PromiseKeepsStep`: the abstract round keeps the two ends of an edge within one
  round of each other. The gossip runner is model-checked to implement it (`chain`).
- `PeersInStep`: by the two above, the ends of an edge of `PeerLink` are never more than
  one round apart.

`SlottedAccessProofs` (any finite set of agents, any number of decisions, any limit):

- `NobodyLeftOut`: `Spec => []NoTickBeforeHello`. The clock ticks when it has as
  many connections as there are agents; one of these may be the access point's.
  But that one joins only after it has heard every HELLO (`ApIsLast`), and an agent
  joins only after its own (`JoinedGreeted`); so either it is there and everybody has
  greeted, or the connections are the agents' and are all of them
  (by cardinality), each of which has greeted (`TickingGreeted`).
- `NoneInvented`: `Spec => []DeliveriesAreDecodes`. Per agent, the deliveries it has
  counted, the ACKs it has not read, and the reports of the decoder still queued
  or in hand are together at most the bursts decoded (`BooksInv`).

The same module has the proofs about the stand-ins, as theorems of `MediaSpec`
(`AgentMediaAssumption`: the devices are numbers, SIFS < DIFS, lengths and batches
of at least 1):

- `StandInsBehave`: `MediaSpec => []MediaBehave`, two invariants side by side. In the
  simulated network (`OneVoiceInv`), whoever can be heard, in the channel from the
  second step of its transmission on or with an ACK after the SIFS, has taken back
  everybody's sensing and backoff (`InUse`, `Silenced`); and while an ACK is
  awaited, but not heard yet, nobody has sensed silence for longer than that
  (`Deferred`), so that nobody reaches DIFS before the SIFS is over. A decision is
  therefore taken only when nothing is in the air, and those taken together begin
  together. In the mock medium (`SlotInv`), every agent's thread has been through the
  barrier equally often, but for those that were killed and come no more (`SameSlot`);
  a request stays the one of its agent's next slot from the line to the note
  (`OnTheLine`, `Noted`), and what an agent transmits later is not of a slot
  another's answer is still under way for (`Elsewhere`).
- `LessonsAreCurrent`: `MediaSpec => []LearnsThisEpisode`. Rows are kept over episodes;
  those below `samples_collected`, or all of them once `update` is set, are of this
  one (`BatchInv`), and an update waits for every agent's.

And about the programs without slots, `WarmFires` (any number of agents, epochs and
deaths, any of the six programs):

- `FiresAreEarned`: `FiresSpec => []TrueIsEarned`. Frames and ACKs carry no name, so the
  invariant is about where a burst can be: in the FIFO, or decoded and then on the way to
  at most one source or credited to at most one fire (`DecodedOnce`); an agent sends
  one per epoch (`Dated`). Whoever is past connecting is in the kernel's queue, is
  the session's guest or was reset (`Connected`), so that during a session only the
  guest and those reset can add to the FIFO; what was there before is what the session
  inherits. Every ACK that can reach a source is then of one of the three kinds
  (`AcksExcused`), and a source takes its connection, with what was not read, along when
  it leaves (`LeavesConnected`). Between epochs nobody fires, and nothing is on its way
  (`FiringNow`, `QuietTurn`). The books follow: what `Settle` adds to an agent's
  deliveries is its credit of the epoch, of which there is at most one (`FireBooks`).

`GatewayProofs` (any boards, any jobs and choices of boards, any number of restarts).
One invariant carries the first two theorems: a job has exactly its two boards
from its claim to its release (`ClaimsMatch`); it notes a board before it
touches it, once, and lets go of the note only when the board was handled
(`NotesFollowStages`, `AppliedAtHome`); and a board that runs the wrong firmware, or
has lost its settings, is noted or reported (`AwayKnown`, `LostKnown`). Since a
board that is found away from home was left there by somebody who reported it
(`AwayIsLost`), what is noted is worth putting back or known to be lost
(`NotesAreTrue`), which is what makes it right not to put it back.

- `LendsAsPromised`: `Spec => PromiseKept`, the refinement of `BoardLending`. A claim
  is `Lend`, every load `Load`, the release `Return` (nothing is noted any more, so
  its boards are at home or reported), a death `BreakDown`; the rest stutters.
- `BoardsKeepSettings`: `Spec => []SettingsKeptOrReported`.
- `CacheTellsTruth`: `Spec => []CacheIsTrue`. A board is settled when nobody has it
  and the job that had it last has expired the cache. A listing that no job's end
  has crossed has every settled board still to ask or right (`ListsAreTrue`): boards become
  settled only in the step that expires the cache and crosses every listing, and a
  settled board does not change its firmware.

The same module has the layer below, `LoRaFraming` (any senders and receivers, any
messages of any number of fragments, any number of attempts):

- `TransfersStayWhole`: `FramingSpec => []TransfersAreWhole`, under the hypothesis
  `Apart`: no two senders address one receiver, which is needed (see *LoRa* above),
  and none sends more than 256 messages, after which a number comes again (`WireId`)
  and what was left of a message given up may meet its namesake. A pair of
  `LoRaLink`s is of that shape, each direction by itself, for its first 256
  messages. The invariant is one of order: what a receiver has heard is in the order
  of the messages and none of it is earlier than what it collects (`HeardInOrder`,
  `Collects`), so that a new number never brings back an old message; a Reassembler
  holds some, not all, of one message (`OneAtHand`); and an ACK of the message in
  hand tells the truth: its fragment is held, or the message was returned or cut
  short (`Acked`, `Told`).

And the level above, `LoRaExchange` (any number of rounds and attempts, any number of
frames a radio holds):

- `AnswersKeepStep`: `ExchangeSpec => []AnswersInStep`, without a hypothesis. Nothing in
  a frame names the round, so the invariant is about what each radio can still hold. Of
  an end the middle hears the last message, or the last two while the end sends, the
  newer after the older; once the end has its acknowledgement, or its radio does
  (`Assured`), only the last (`ToldBefore`, `Tells`). An end that listens holds what the middle is
  sending it now and nothing older, for `_await_ack` drops what came before the
  acknowledgement (`Listens`, `Awaits`): this is the conjunct that an
  `_await_ack` keeping such frames breaks. The middle holds at most one acknowledgement, and
  by then its end is answering (`AckInMiddle`); so where it listens for an answer it hears
  only the answer to what it holds (`Back`), and it holds the initiator's request from the
  acknowledgement of it to the answer (`Serves`). Numbers modulo 256 suffice for any
  number of rounds, since only a message's number and the last one's ever meet
  (`NumberRange`). All this holds while nothing was in vain and answers come back the way of
  the requests (`Served`); between two nodes a second invariant needs neither: answers
  adopted, replies under way, what the answerer holds, requests under way and what the
  asker holds are in the order of the rounds (`Ordered`).

`SurveyFolderProofs` (any runs in any mode, any radios, sweeps, earlier surveys and
faults):

- `PathsStaySurveyed`: `Spec => []PathKeepsSurvey`. That a path has a survey is not
  inductive: the one it has may be on the list of a run about to remove it. The
  invariant is that it has one on nobody's list (`PathHasSpared`): the one published last,
  since a run lists before it replaces. That needs a name that is to be published to be
  new, on no list and no other run's (`UnpublishedAreNew`), which every name is that was
  never taken (`NamesAreTaken`), and removals to stay within the path (`RemovesItsOwn`).
- `EditsStay`: `Spec => EditsSurvive`. A run that is about to write a draft that exists was
  forced, was raced, or that draft is not yet edited because it was not there when the run
  looked; the invariant (`NothingToLose`, `WritesItsTarget`) carries this from the look to the
  write.
- `BoxesTuneTogether`: `BringUpSpec => []TunedTogether`, for any contents of `link.json`, any
  sweeps, noise, scores and number of starts. Two unlocked updates of `link-state.json` may
  lose one another, so what the file holds is not inductive. While each box was started at
  most once (`FirstRuns`), what is known of a carrier anywhere (in the file, in a box's
  memory between its read and its write, in a tuned radio) was said by the box that surveys
  it (`OwnerSaidIt`) and is one value (`Only`), so that a lost update loses a carrier and
  never brings back another; and a box past the gate saw both carriers when no writer was
  left to drop one (`GatesKnow`). A box started again may have surveyed another carrier,
  and all that is kept then is that a pinned carrier is the one used (`PinsHold`).

Only model-checked: all liveness properties (fairness and ENABLED are beyond the
prover); `InOneProcess`, what the runners in one process keep (the proof of the
refinement of `SyncGossip` is about `PeerLink`, not about the gossip runner); and
two invariants about what a fold over data computes: `ResolvesRight` (layers of
settings merged in order) and `MeasuresRight` (the widest stretches of a sweep, a
threshold from the lines of a log). Proving these two needs induction over data.

## Not modelled

- Signal processing and everything numeric: floating-point over sample streams, of
  which a finite model says nothing. The loops around it are in `ModemThreads`.
- The LoRa firmware: one loop; what is seen of it is in `LoRaFraming`.
- Rewards, rates and the wireless channel of the simulated network.
- `PeerLink` over wireless and LoRa, the access point's mode without a slot clock.
- Of the gateway: the numbers of a run and its summary, the online flags of the
  tailnet, a load that goes on after it was reported failed, and the window between
  an agent's look for holders of a port and its opening it.
- Of the configuration: gains, filters, file formats, messages; loading of
  applications; deployment scripts.
- Of the inventory: what a record says of its node.

`PROJECT.json` gives the reason for each component.

## Plan

Done: the ARQ under every radio role and the process around it, warm sessions and
the programs that live on them, all TCP topologies, chains and in-process
runners, LoRa framing and links, slotted access, the gateway's boards,
configuration, bring-up and the inventory of nodes.

1. `PeerLink` over the air, with a burst per frame as in `RelayChain`.
