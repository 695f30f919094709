----------------------------- MODULE NodeRecords -----------------------------
(***************************************************************************)
(* The inventory of live nodes (deploy/workspace/discover-node.py): every  *)
(* session publishes a record of itself in the shared settings folder, at  *)
(* every beat writes it anew, and reaps the records nobody refreshes.      *)
(*                                                                         *)
(* A record is named by the serial of the session's radio, or by its host  *)
(* if the probe finds no radio; so several sessions may write one name.    *)
(* Time is what "old" says of a file: its heartbeat (its mtime, if it does *)
(* not parse) is more than --gc seconds before the reader's clock.         *)
(***************************************************************************)
EXTENDS Naturals, FiniteSets

CONSTANTS
  Sessions,   \* processes of discover-node.py, over the life of the folder
  Serial,     \* [Sessions -> the serial of the radio the session can see]
  Host,       \* [Sessions -> the name its record has without a radio]
  Once,       \* the sessions run by hand with --once
  Authored,   \* .json files of the folder that people write
  MaxFaults   \* bound on failed probes, failed writes and late beats

Names == {Serial[s] : s \in Sessions} \cup {Host[s] : s \in Sessions} \cup Authored

Nobody == "nobody"
Nowhere == "nowhere"

VARIABLES
  files,   \* the settings folder, by name
  pc,      \* place of the session in beat()
  beats,   \* has it been through its first beat?
  mine,    \* mypath[0]
  todo,    \* names of listdir() that gc has still to look at
  doomed,  \* the name gc has judged and will unlink
  faults,
  spoilt   \* files of people that were unreadable at some time (history)

vars == <<files, pc, beats, mine, todo, doomed, faults, spoilt>>

Absent == [kind |-> "absent", by |-> Nobody, old |-> FALSE]
Record(s) == [kind |-> "record", by |-> s, old |-> FALSE]

Init ==
  /\ files = [n \in Names |-> IF n \in Authored
                                THEN [kind |-> "authored", by |-> Nobody, old |-> TRUE]
                                ELSE Absent]
  /\ pc = [s \in Sessions |-> "off"]
  /\ beats = [s \in Sessions |-> FALSE]
  /\ mine = [s \in Sessions |-> Nowhere]
  /\ todo = [s \in Sessions |-> {}]
  /\ doomed = [s \in Sessions |-> Nowhere]
  /\ faults = 0
  /\ spoilt = {}

Alive(s) == pc[s] \notin {"off", "ended"}

Start(s) ==
  /\ pc[s] = "off"
  /\ pc' = [pc EXCEPT ![s] = "probe"]
  /\ UNCHANGED <<files, beats, mine, todo, doomed, faults, spoilt>>

(* node_key: the probe finds the radio, or it does not (not attached yet,  *)
(* uhd_find_devices over its time).                                        *)
Fault == faults < MaxFaults /\ faults' = faults + 1
Probed(s, n) == \/ n = Serial[s] /\ UNCHANGED faults
                \/ n = Host[s] /\ Host[s] # Serial[s] /\ Fault

(* The record under the old name goes before the new one is written.       *)
Probe(s, n) ==
  /\ pc[s] = "probe" /\ Probed(s, n)
  /\ files' = IF mine[s] \in Names \ {n} THEN [files EXCEPT ![mine[s]] = Absent] ELSE files
  /\ mine' = [mine EXCEPT ![s] = n]
  /\ pc' = [pc EXCEPT ![s] = "write"]
  /\ UNCHANGED <<beats, todo, doomed, spoilt>>

(* An exception out of beat(): swallowed by the loop, fatal the first time.*)
Raise(s) == pc' = [pc EXCEPT ![s] = IF beats[s] THEN "sleep" ELSE "ended"]

(* write_atomic: whole or not at all; the temporary file that a kill may   *)
(* leave is no .json, and nobody reads it.                                 *)
WriteFails(s) ==
  /\ pc[s] = "write" /\ Fault
  /\ Raise(s)
  /\ UNCHANGED <<files, beats, mine, todo, doomed, spoilt>>

Write(s) ==
  /\ pc[s] = "write"
  /\ files' = [files EXCEPT ![mine[s]] = Record(s)]
  /\ pc' = [pc EXCEPT ![s] = "list"]
  /\ UNCHANGED <<beats, mine, todo, doomed, faults, spoilt>>

(* gc: the names first, then one file after the other.                     *)
List(s) ==
  /\ pc[s] = "list"
  /\ todo' = [todo EXCEPT ![s] = {n \in Names : files[n].kind # "absent"} \ {mine[s]}]
  /\ pc' = [pc EXCEPT ![s] = "gc"]
  /\ UNCHANGED <<files, beats, mine, doomed, faults, spoilt>>

(* A file without a heartbeat is nobody's record; one that does not parse  *)
(* has its mtime for a heartbeat.                                          *)
Stale_NoHeartbeat(file) == file.old
Stale(file) == file.kind # "authored" /\ file.old

(* Read and judged; a file that is gone by now has no mtime either, and    *)
(* that exception nobody catches here.                                     *)
Judge(s, n) ==
  /\ pc[s] = "gc" /\ n \in todo[s]
  /\ IF files[n].kind = "absent"
       THEN Raise(s) /\ todo' = [todo EXCEPT ![s] = {}] /\ UNCHANGED doomed
       ELSE /\ todo' = [todo EXCEPT ![s] = @ \ {n}]
            /\ IF Stale(files[n])
                 THEN /\ pc' = [pc EXCEPT ![s] = "unlink"]
                      /\ doomed' = [doomed EXCEPT ![s] = n]
                 ELSE UNCHANGED <<pc, doomed>>
  /\ UNCHANGED <<files, beats, mine, faults, spoilt>>

(* By name: whatever is there now.                                         *)
Unlink(s) ==
  /\ pc[s] = "unlink"
  /\ files' = [files EXCEPT ![doomed[s]] = Absent]
  /\ doomed' = [doomed EXCEPT ![s] = Nowhere]
  /\ pc' = [pc EXCEPT ![s] = "gc"]
  /\ UNCHANGED <<beats, mine, todo, faults, spoilt>>

BeatOver(s) ==
  /\ pc[s] = "gc" /\ todo[s] = {}
  /\ pc' = [pc EXCEPT ![s] = IF s \in Once THEN "ended" ELSE "sleep"]
  /\ beats' = [beats EXCEPT ![s] = TRUE]
  /\ UNCHANGED <<files, mine, todo, doomed, faults, spoilt>>

Wake(s) ==
  /\ pc[s] = "sleep"
  /\ pc' = [pc EXCEPT ![s] = "probe"]
  /\ UNCHANGED <<files, beats, mine, todo, doomed, faults, spoilt>>

Quit(s) ==
  /\ pc' = [pc EXCEPT ![s] = "ended"]
  /\ todo' = [todo EXCEPT ![s] = {}]
  /\ doomed' = [doomed EXCEPT ![s] = Nowhere]
  /\ UNCHANGED <<beats, mine, faults, spoilt>>

(* bye(), the handler of SIGTERM and SIGINT, installed after the first beat*)
(* of a daemon.  What it interrupts is not cleaned up.                     *)
Bye(s) ==
  /\ Alive(s) /\ beats[s]
  /\ files' = [files EXCEPT ![mine[s]] = Absent]
  /\ Quit(s)

Kill(s) == Alive(s) /\ Quit(s) /\ UNCHANGED files

(* Time.  A record ages when it is not refreshed; that of a live session   *)
(* only if the session is held up, or two clocks are far apart.            *)
Refreshed(n) == /\ files[n].kind = "record"
                /\ Alive(files[n].by) /\ mine[files[n].by] = n

Ages(n) ==
  /\ files[n].kind \in {"record", "garbled"} /\ ~files[n].old
  /\ IF Refreshed(n) THEN Fault ELSE UNCHANGED faults
  /\ files' = [files EXCEPT ![n].old = TRUE]
  /\ UNCHANGED <<pc, beats, mine, todo, doomed, spoilt>>

(* People edit the files that are theirs, and may leave them unreadable.   *)
Edit(n) ==
  /\ n \in Authored
  /\ \E kind \in {"authored", "garbled"} :
       /\ files' = [files EXCEPT ![n] = [kind |-> kind, by |-> Nobody, old |-> FALSE]]
       /\ spoilt' = IF kind = "garbled" THEN spoilt \cup {n} ELSE spoilt
  /\ Fault
  /\ UNCHANGED <<pc, beats, mine, todo, doomed>>

Beat(s) == \/ \E n \in Names : Probe(s, n) \/ Judge(s, n)
           \/ WriteFails(s) \/ Write(s)
           \/ List(s) \/ Unlink(s) \/ BeatOver(s) \/ Wake(s)

Next == \/ \E s \in Sessions : Start(s) \/ Beat(s) \/ Bye(s) \/ Kill(s)
        \/ \E n \in Names : Ages(n) \/ Edit(n)

(* A live process goes on, and time passes for what nobody refreshes.      *)
Fairness == /\ \A s \in Sessions : WF_vars(Beat(s))
            /\ \A n \in Names : WF_vars(~Refreshed(n) /\ Ages(n))

Spec == Init /\ [][Next]_vars /\ Fairness

-----------------------------------------------------------------------------
Running(s) == Alive(s) /\ beats[s]
Listed(s) == pc[s] \in {"probe", "write"} \/ files[mine[s]].kind = "record"

(* The inventory tells the truth: every session that runs is listed, no     *)
(* other is, and no file of people is gone that was always readable.        *)
Truthful ==
  /\ \A s \in Sessions : Running(s) => Listed(s)
  /\ \A n \in Names : files[n].kind = "record" => Refreshed(n)
  /\ \A n \in Authored \ spoilt : files[n].kind = "authored"

(* Whatever was killed, shared a name, came late, missed its radio or was   *)
(* reaped between two steps, the folder settles on the truth as long as a   *)
(* session runs (discover-node.py: the docstring of gc, the comments of     *)
(* beat and of bye).                                                        *)
InventorySettles == <>[]((\E s \in Sessions : Running(s)) => Truthful)
=============================================================================
