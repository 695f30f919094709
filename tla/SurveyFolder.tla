---------------------------- MODULE SurveyFolder ----------------------------
(***************************************************************************)
(* The shared folder of band surveys, and who writes it: runs of           *)
(* prepare_phy.py on any box.  A run measures a radio and publishes what it*)
(* found: the record, which supersedes the earlier ones of the same signal *)
(* path, the list of frequencies, a draft of a topology for people to edit;*)
(* and reads the record back as the launchers will.                        *)
(*                                                                         *)
(* A file name is a base and the second in which the survey ended; base is *)
(* <<key, band, path>>: the node's name, the antenna, and the RF channel   *)
(* with its connector.  A write is whole or not at all (the .tmp a kill may*)
(* leave ends in no .json).  What a sweep concludes is BandSurvey's.       *)
(***************************************************************************)
EXTENDS Surveys

CONSTANTS
  Preparers,  \* runs of prepare_phy.py
  Asked,      \* [Preparers -> [mode, force, write, node]]
  Plans,      \* set of [Preparers -> the radios the run is for, a sequence]
  HostKeys,   \* [Preparers -> what the resolver calls the host: site, serials, host]
  Sweeps,     \* options a sweep may end with, best first
  Prior,      \* surveys in the folder at first
  MaxClock,   \* bound on the seconds that pass
  MaxFaults   \* bound on what fails or is killed

Nobody == [class |-> "", serial |-> "", addr |-> "", band |-> "", path |-> ""]
Unmeasured == [key |-> "", args |-> "", serial |-> "", band |-> "", path |-> "",
               at |-> 0, options |-> <<>>, use |-> 1, gate |-> 0]
NoName == <<"", 0>>
Devices == UNION {ToSet(plan[p]) : plan \in Plans, p \in Preparers}

VARIABLES
  clock,     \* the second
  files,     \* the surveys in searching/
  freqs,     \* the lists of frequencies beside them, by the second
  drafts,    \* the drafts in topologies/
  pc,        \* place of each run
  todo,      \* radios it has not begun
  radio,     \* the radio it is at
  found,     \* what it has measured, then the record
  doomed,    \* names superseded, not yet removed
  target,    \* the draft it has settled to write
  verdict,   \* what reading the record back said
  faults,
  published, \* bases a survey was ever published for (history)
  taken,     \* names of surveys ever taken (history)
  clashed,   \* bases with two surveys of the same second (history)
  raced      \* drafts two runs had settled to write at once (history)

shared == <<clock, files, freqs, drafts>>
run == <<pc, todo, radio, found, doomed, target, verdict>>
history == <<published, taken, clashed, raced>>
vars == <<shared, run, faults, history>>

Base(s) == <<s.key, s.band, s.path>>
Name(s) == <<Base(s), s.at>>

-----------------------------------------------------------------------------
(* classify(): a B210 is named by its serial, an X310 by its address, the  *)
(* rest by whichever it has.                                               *)
Identity(dev) ==
  IF dev.class = "b210" \/ (dev.class = "n210" /\ dev.addr = "")
  THEN dev.serial ELSE dev.addr

(* Under --all each radio is filed under its own name; otherwise under     *)
(* --node, or the node's stable key.                                       *)
Key(p) ==
  IF Asked[p].mode = "all" /\ Identity(radio[p]) # ""
  THEN Identity(radio[p]) ELSE Asked[p].node

(* --force is not handed on to the runs that --all starts.                 *)
Forced(p) == Asked[p].force /\ Asked[p].mode # "all"

(* resolve_serial(): the radio of this identity may answer or not.         *)
Answers(ident) == {dev.serial : dev \in {d \in Devices : Identity(d) = ident}}

Serials(dev) == IF Identity(dev) = dev.serial THEN {dev.serial} ELSE {dev.serial, ""}

Record(p, serial) ==
  [key |-> Key(p), args |-> Identity(radio[p]), serial |-> serial,
   band |-> radio[p].band, path |-> radio[p].path, at |-> clock,
   options |-> found[p].options, use |-> 1, gate |-> 0]

Init ==
  /\ clock = 1
  /\ files = Prior /\ freqs = {} /\ drafts = {}
  /\ pc = [p \in Preparers |-> "next"]
  /\ todo \in Plans
  /\ radio = [p \in Preparers |-> Nobody]
  /\ found = [p \in Preparers |-> Unmeasured]
  /\ doomed = [p \in Preparers |-> {}]
  /\ target = [p \in Preparers |-> NoName]
  /\ verdict = [p \in Preparers |-> ""]
  /\ faults = 0
  /\ published = {Base(s) : s \in Prior}
  /\ taken = {Name(s) : s \in Prior}
  /\ clashed = {} /\ raced = {}

Fault == faults < MaxFaults /\ faults' = faults + 1

Goto(p, place) == pc' = [pc EXCEPT ![p] = place]

-----------------------------------------------------------------------------
(* The next radio; --topology-only has none to touch.                      *)
Begin(p) ==
  /\ pc[p] = "next" /\ todo[p] # <<>>
  /\ radio' = [radio EXCEPT ![p] = Head(todo[p])]
  /\ todo' = [todo EXCEPT ![p] = Tail(@)]
  /\ Goto(p, IF Asked[p].mode = "topology" THEN "pick" ELSE "measure")
  /\ UNCHANGED <<shared, found, doomed, target, verdict, faults, history>>

(* A radio that fails ends its own run; under --all the rest goes on.      *)
Fails(p) ==
  /\ pc[p] = "measure"
  /\ Goto(p, "next")
  /\ Fault
  /\ UNCHANGED <<shared, todo, radio, found, doomed, target, verdict, history>>

(* Sweep, dwell, the detector's floor and its peaks on noise.              *)
Measure(p) ==
  /\ pc[p] = "measure"
  /\ \E options \in Sweeps :
       found' = [found EXCEPT ![p] = [Unmeasured EXCEPT !.options = options]]
  /\ Goto(p, IF Asked[p].write THEN "record" ELSE "next")
  /\ UNCHANGED <<shared, todo, radio, doomed, target, verdict, faults, history>>

(* One instant for the record and for its name.                            *)
Take(p) ==
  /\ pc[p] = "record"
  /\ \E serial \in Serials(radio[p]) :
       LET s == Record(p, serial)
       IN  /\ found' = [found EXCEPT ![p] = s]
           /\ taken' = taken \cup {Name(s)}
           /\ clashed' = IF Name(s) \in taken THEN clashed \cup {Base(s)} ELSE clashed
  /\ Goto(p, "list")
  /\ UNCHANGED <<shared, todo, radio, doomed, target, verdict, published, raced, faults>>

(* Mutated: the glob has the key alone.                                    *)
Superseded_AnyPath(p) ==
  {Name(s) : s \in {f \in files : f.key = found[p].key}} \ {Name(found[p])}

(* The earlier surveys of the path, all but one of the very same name.     *)
Superseded(p) ==
  {Name(s) : s \in {f \in files : Base(f) = Base(found[p])}} \ {Name(found[p])}

List(p) ==
  /\ pc[p] = "list"
  /\ doomed' = [doomed EXCEPT ![p] = Superseded(p)]
  /\ Goto(p, "replace")
  /\ UNCHANGED <<shared, todo, radio, found, target, verdict, faults, history>>

Without(names) == {f \in files : Name(f) \notin names}

Replace(p) ==
  /\ pc[p] = "replace"
  /\ files' = Without({Name(found[p])}) \cup {found[p]}
  /\ published' = published \cup {Base(found[p])}
  /\ Goto(p, "remove")
  /\ UNCHANGED <<clock, freqs, drafts, todo, radio, found, doomed, target, verdict, taken, clashed, raced, faults>>

(* By name, whatever it holds now; one that is gone is passed over, and so *)
(* is one that cannot be removed.                                          *)
Supersede(p, name) ==
  /\ pc[p] = "remove" /\ name \in doomed[p]
  /\ \/ files' = Without({name}) /\ UNCHANGED faults
     \/ UNCHANGED files /\ Fault
  /\ doomed' = [doomed EXCEPT ![p] = @ \ {name}]
  /\ UNCHANGED <<clock, freqs, drafts, pc, todo, radio, found, target, verdict, history>>

(* Named by the second alone, so that two radios may share it.  A failure  *)
(* costs the list and nothing else.                                        *)
Frequencies(p) ==
  /\ pc[p] = "remove" /\ doomed[p] = {}
  /\ LET list == [at |-> found[p].at, args |-> found[p].args,
                  carriers |-> {found[p].options[i].carrier : i \in DOMAIN found[p].options}]
     IN  \/ freqs' = {f \in freqs : f.at # list.at} \cup {list} /\ UNCHANGED faults
         \/ UNCHANGED freqs /\ Fault
  /\ Goto(p, "look")
  /\ UNCHANGED <<clock, files, drafts, todo, radio, found, doomed, target, verdict, history>>

(* --topology-only: the newest survey of this radio that is there.         *)
Saved(p) == {f \in files : Identity(radio[p]) \in {"", f.args}}

Pick(p) ==
  /\ pc[p] = "pick"
  /\ IF Saved(p) = {}
       THEN Goto(p, "next") /\ UNCHANGED found
       ELSE /\ Goto(p, "look")
            /\ \E s \in Saved(p) : /\ \A t \in Saved(p) : t.at <= s.at
                                   /\ found' = [found EXCEPT ![p] = s]
  /\ UNCHANGED <<shared, todo, radio, doomed, target, verdict, faults, history>>

(* The recommended carrier first; the reply has the runner-up, if any.     *)
Ranked(s) ==
  <<s.options[s.use]>> \o SelectSeq(s.options, LAMBDA o : o # s.options[s.use])

DraftOf(s, id) ==
  [id |-> id, at |-> s.at, edited |-> FALSE,
   data |-> s.options[s.use].carrier,
   ack |-> IF Len(s.options) > 1 THEN Ranked(s)[2].carrier ELSE 0]

(* What an address belongs to differs from box to box: the draft has the   *)
(* serial, if the radio tells it now.                                      *)
DraftNames(p) ==
  {<<id, found[p].at>> : id \in {found[p].args} \cup Answers(found[p].args)}

DraftName(d) == <<d.id, d.at>>

(* Mutated: looks for the draft beside the surveys.                        *)
Exists_InSearching(name) == name \in {<<f.key, f.at>> : f \in files}

Exists(name) == name \in {DraftName(d) : d \in drafts}

(* What comes after the draft, written or not.                             *)
AfterDraft(p) == Goto(p, IF Asked[p].mode = "topology" THEN "next" ELSE "verify")

(* An existing draft is somebody's work, and is refused before the write.  *)
Refuse(p, name) ==
  /\ pc[p] = "look" /\ name \in DraftNames(p)
  /\ Exists(name) /\ ~Forced(p)
  /\ AfterDraft(p)
  /\ UNCHANGED <<shared, todo, radio, found, doomed, target, verdict, faults, history>>

Look(p, name) ==
  /\ pc[p] = "look" /\ name \in DraftNames(p)
  /\ ~Exists(name) \/ Forced(p)
  /\ target' = [target EXCEPT ![p] = name]
  /\ raced' = raced \cup {target[q] : q \in {q \in Preparers : pc[q] = "draft"
                                                             /\ target[q] = name}}
  /\ Goto(p, "draft")
  /\ UNCHANGED <<shared, todo, radio, found, doomed, verdict, published, taken, clashed, faults>>

WriteDraft(p) ==
  /\ pc[p] = "draft"
  /\ drafts' = {d \in drafts : DraftName(d) # target[p]}
                 \cup {DraftOf(found[p], target[p][1])}
  /\ AfterDraft(p)
  /\ UNCHANGED <<clock, files, freqs, todo, radio, found, doomed, target, verdict, faults, history>>

(* A draft that cannot be written costs nothing else.                      *)
DraftFails(p) ==
  /\ pc[p] = "draft"
  /\ AfterDraft(p)
  /\ Fault
  /\ UNCHANGED <<shared, todo, radio, found, doomed, target, verdict, history>>

(* The record as the launchers will look for it.                           *)
ReadBack(p) ==
  Find(files, HostKeys[p],
       [band |-> found[p].band, path |-> found[p].path, args |-> found[p].args,
        near |-> found[p].options[1].carrier])

Verify(p) ==
  /\ pc[p] = "verify"
  /\ verdict' = [verdict EXCEPT ![p] =
       CASE ~Found(ReadBack(p)) -> "nothing"
         [] Found(ReadBack(p)) /\ Name(ReadBack(p)) = Name(found[p]) -> "verified"
         [] OTHER -> "another"]
  /\ Goto(p, "next")
  /\ UNCHANGED <<shared, todo, radio, found, doomed, target, faults, history>>

(* The terminal is closed, at any place.                                   *)
Kill(p) ==
  /\ pc[p] # "gone" /\ (pc[p] = "next" => todo[p] # <<>>)
  /\ Goto(p, "gone")
  /\ Fault
  /\ UNCHANGED <<shared, todo, radio, found, doomed, target, verdict, history>>

Prepare(p) ==
  \/ Begin(p) \/ Fails(p) \/ Measure(p) \/ Take(p) \/ List(p) \/ Replace(p)
  \/ \E name \in doomed[p] : Supersede(p, name)
  \/ Frequencies(p) \/ Pick(p)
  \/ \E name \in DraftNames(p) : Refuse(p, name) \/ Look(p, name)
  \/ WriteDraft(p) \/ DraftFails(p) \/ Verify(p) \/ Kill(p)

-----------------------------------------------------------------------------
(* Somebody fills in a draft.                                              *)
Edit(d) ==
  /\ d \in drafts /\ ~d.edited
  /\ drafts' = (drafts \ {d}) \cup {[d EXCEPT !.edited = TRUE]}
  /\ UNCHANGED <<clock, files, freqs, run, faults, history>>

Tick ==
  /\ clock < MaxClock /\ clock' = clock + 1
  /\ UNCHANGED <<files, freqs, drafts, run, faults, history>>

Next == (\E p \in Preparers : Prepare(p)) \/ (\E d \in drafts : Edit(d)) \/ Tick

Spec == Init /\ [][Next]_vars

-----------------------------------------------------------------------------
(* A signal path that ever had a survey published has one in the folder,   *)
(* whoever publishes, removes or is killed at the same time                *)
(* (prepare_phy.py publish_profile), unless two surveys of the path were   *)
(* taken in one second and share a name.                                   *)
PathKeepsSurvey ==
  \A b \in published \ clashed : \E f \in files : Base(f) = b

(* What people filled into a draft goes only by --force                    *)
(* (prepare_phy.py publish_topology_draft), or if two runs had settled to  *)
(* write that draft at the same time.                                      *)
EditsSurvive ==
  [][\A d \in drafts : d.edited /\ d \notin drafts' =>
       \/ DraftName(d) \in raced
       \/ \E p \in Preparers : Forced(p) /\ pc[p] = "draft" /\ target[p] = DraftName(d)]_vars
=============================================================================
