---------------------------- MODULE LinkBringUp ----------------------------
(***************************************************************************)
(* auto_link.sh on the two boxes of a radio link, the source and the sink, *)
(* which share nothing but files: link-state.json (link_setup.py), the     *)
(* calibration plan and the receiver's ready flag (calibration_plan.py,    *)
(* calibration.sh), and the surveys.                                       *)
(*                                                                         *)
(* The source sends data and hears the acknowledgement, the sink the other *)
(* way round.  Each box surveys what it hears, publishes the carrier of    *)
(* that direction, waits until both are known, measures the data link's    *)
(* threshold together with the other box, and starts its radio.            *)
(*                                                                         *)
(* Files are written and read in steps: link-state.json is opened and so   *)
(* emptied before it is written, the plan goes through one temporary file  *)
(* whose name both boxes use.                                              *)
(***************************************************************************)
EXTENDS BandSurvey

CONSTANTS
  Links,      \* contents of link.json considered
  BandSweeps, \* what a sweep of a band may show
  NoiseP95,   \* what the noise listened to after a sweep may score
  Peaks,      \* what a burst of the other box may score
  LogLimit,   \* lines of the receiver's log
  MaxRuns     \* times auto_link.sh is started, on both boxes together

ASSUME LinkBringUpAssumption ==
  /\ Links \subseteq [data : Nat, ack : Nat, surveys : SUBSET {"source", "sink"}]
  /\ LogLimit \in Nat /\ MaxRuns \in Nat

VARIABLES
  link,       \* link.json: a pinned carrier per direction, or None to survey
              \* it, and the boxes whose receive band it names
  at, runs,   \* where each box is; times it has been started
  sweep,      \* the sweep a box has just made
  profile,    \* the survey on file for each box's radio
  state,      \* link-state.json, Torn while it is empty or unreadable
  mine,       \* what a box is about to write there
  tmp, plan,  \* the plan's temporary file and the plan: a carrier, or no file
  carrier,    \* data carrier a box works with while it calibrates
  ready,      \* the receiver's flag: the carrier it named, and whether recent
  noise,      \* p95 of the noise that the sink's receiver goes by
  log,        \* the sink's receiver log
  tuned       \* carriers each box's radio was started with

linkFiles == <<state, tmp, plan, ready>>
bringUpVars == <<link, at, runs, sweep, profile, state, mine, tmp, plan, carrier,
                 ready, noise, log, tuned>>
heard == <<noise, log>>

Boxes == {"source", "sink"}
Directions == {"data", "ack"}

RxDirection(b) == IF b = "sink" THEN "data" ELSE "ack"
Far(b) == CHOOSE c \in Boxes : c # b

NoProfile == [options |-> <<>>, p95 |-> None, sync |-> None, measured |-> FALSE]
NoCarriers == [data |-> None, ack |-> None]
Torn == [data |-> None, ack |-> None, torn |-> TRUE]
NoFile == [exists |-> FALSE]
File(content) == [exists |-> TRUE, carrier |-> content]
Partial == [exists |-> TRUE, torn |-> TRUE]
NoFlag == [up |-> FALSE]

(* read_state(): what cannot be read is as good as nothing.                 *)
ReadState == [d \in Directions |-> state[d]]

Pinned(d) == link[d]

(* As if the file outranked link.json.                                      *)
Resolved_FileFirst(d) == IF state[d] # None THEN state[d] ELSE Pinned(d)

Resolved(d) == IF Pinned(d) # None THEN Pinned(d) ELSE state[d]

FreqsReady == \A d \in Directions : Resolved(d) # None

BringUpInit ==
  /\ link \in Links
  /\ at = [b \in Boxes |-> "idle"] /\ runs = [b \in Boxes |-> 0]
  /\ sweep = <<>>
  /\ profile = [b \in Boxes |-> NoProfile]
  /\ state = NoCarriers
  /\ mine = [b \in Boxes |-> NoCarriers]
  /\ tmp = NoFile /\ plan = NoFile
  /\ carrier = [b \in Boxes |-> None]
  /\ ready = NoFlag
  /\ noise = None /\ log = <<>>
  /\ tuned = [b \in Boxes |-> NoCarriers]

Go(b, to) == at' = [at EXCEPT ![b] = to]

(* The operator types ./auto_link.sh, again if the radio was stopped.       *)
Start(b) ==
  /\ at[b] \in {"idle", "launched", "stopped"}
  /\ runs["source"] + runs["sink"] < MaxRuns
  /\ Go(b, "survey")
  /\ runs' = [runs EXCEPT ![b] = @ + 1]
  /\ tuned' = [tuned EXCEPT ![b] = NoCarriers]
  /\ UNCHANGED <<link, sweep, profile, mine, carrier, heard, linkFiles>>

(* While no radio is up link.json may be edited; link-state.json stays.     *)
EditLink ==
  /\ \A b \in Boxes : at[b] \in {"idle", "stopped"}
  /\ link' \in Links \ {link}
  /\ UNCHANGED <<at, runs, sweep, profile, mine, carrier, heard, tuned, linkFiles>>

-----------------------------------------------------------------------------
(* prepare.sh.  A sweep that fails leaves the survey on file as it was.     *)

Sweep(b) ==
  /\ at[b] = "survey"
  /\ \/ /\ b \in link.surveys /\ sweep = <<>>
        /\ sweep' \in BandSweeps
        /\ Go(b, "file")
     \/ Go(b, "publish") /\ UNCHANGED sweep
  /\ UNCHANGED <<link, runs, profile, mine, carrier, heard, tuned, linkFiles>>

Survey(rows, p95) ==
  [options |-> Options(rows), p95 |-> p95, measured |-> p95 # None,
   sync |-> IF p95 = None THEN 15 ELSE NoiseThreshold(p95)]

(* publish_profile(): it replaces the earlier survey of the same path.      *)
PublishProfile(b) ==
  /\ at[b] = "file"
  /\ \E p95 \in NoiseP95 :
       profile' = [profile EXCEPT ![b] = Survey(sweep, p95)]
  /\ sweep' = <<>>
  /\ Go(b, "publish")
  /\ UNCHANGED <<link, runs, mine, carrier, heard, tuned, linkFiles>>

-----------------------------------------------------------------------------
(* link_setup.py --publish-freq, --wait-freqs.                              *)

(* find(): whose survey this box is given, its own radio's or, when that is *)
(* the only one on file, the other's.                                       *)
Filed(b) == IF profile[b] # NoProfile THEN b ELSE Far(b)

SurveyedCarrier(b) ==
  LET options == profile[Filed(b)].options
  IN  IF options = <<>> THEN None ELSE options[1].carrier

Publishes(b) ==
  LET d == RxDirection(b)
  IN  IF Pinned(d) # None THEN Pinned(d) ELSE SurveyedCarrier(b)

(* publish_rx_freq() and the reading half of write_state().                 *)
ReadForUpdate(b) ==
  /\ at[b] = "publish"
  /\ IF Publishes(b) = None
     THEN Go(b, "gate") /\ UNCHANGED mine
     ELSE /\ mine' = [mine EXCEPT ![b] =
                       [ReadState EXCEPT ![RxDirection(b)] = Publishes(b)]]
          /\ Go(b, "open")
  /\ UNCHANGED <<link, runs, sweep, profile, carrier, heard, tuned, linkFiles>>

OpenState(b) ==
  /\ at[b] = "open"
  /\ state' = Torn
  /\ Go(b, "write")
  /\ UNCHANGED <<link, runs, sweep, profile, mine, carrier, heard, tuned, tmp, plan,
                 ready>>

(* If the other box has written in between, its text is overwritten from    *)
(* the front, and the end of a longer one stays behind.                     *)
WriteState(b) ==
  /\ at[b] = "write"
  /\ \/ state' = mine[b]
     \/ state # Torn /\ mine[b] # state /\ state' = Torn
  /\ mine' = [mine EXCEPT ![b] = NoCarriers]
  /\ Go(b, "gate")
  /\ UNCHANGED <<link, runs, sweep, profile, carrier, heard, tuned, tmp, plan, ready>>

PassGate(b) ==
  /\ at[b] = "gate" /\ FreqsReady
  /\ Go(b, "settled")
  /\ UNCHANGED <<link, runs, sweep, profile, mine, carrier, heard, tuned, linkFiles>>

(* --wait-timeout.                                                          *)
GiveUp(b) ==
  /\ at[b] = "gate" /\ ~FreqsReady
  /\ Go(b, "stopped")
  /\ UNCHANGED <<link, runs, sweep, profile, mine, carrier, heard, tuned, linkFiles>>

(* The carriers are read once more, for the plan.                           *)
Settle(b) ==
  /\ at[b] = "settled"
  /\ carrier' = [carrier EXCEPT ![b] = Resolved("data")]
  /\ Go(b, "author")
  /\ UNCHANGED <<link, runs, sweep, profile, mine, heard, tuned, linkFiles>>

-----------------------------------------------------------------------------
(* calibration_plan.py --write: write_plan().                               *)

OpenPlan(b) ==
  /\ at[b] = "author"
  /\ tmp' = Partial
  /\ Go(b, "dump")
  /\ UNCHANGED <<link, runs, sweep, profile, mine, carrier, heard, tuned, state, plan,
                 ready>>

(* Once the other box has renamed the file, this goes into the plan itself. *)
DumpPlan(b) ==
  /\ at[b] = "dump"
  /\ IF tmp.exists
     THEN tmp' = File(carrier[b]) /\ UNCHANGED plan
     ELSE plan' = File(carrier[b]) /\ UNCHANGED tmp
  /\ Go(b, "rename")
  /\ UNCHANGED <<link, runs, sweep, profile, mine, carrier, heard, tuned, state, ready>>

(* A rename that finds nothing ends auto_link.sh.                           *)
RenamePlan(b) ==
  /\ at[b] = "rename"
  /\ IF tmp.exists
     THEN plan' = tmp /\ tmp' = NoFile /\ Go(b, "calibrate")
     ELSE Go(b, "stopped") /\ UNCHANGED <<plan, tmp>>
  /\ UNCHANGED <<link, runs, sweep, profile, mine, carrier, heard, tuned, state, ready>>

-----------------------------------------------------------------------------
(* calibration.sh.  A plan that cannot be read names nobody's radio.        *)

Default == 1   \* 915 MHz, which no sweep recommends

ReadPlan(b) ==
  /\ at[b] = "calibrate"
  /\ IF plan = Partial
     THEN Go(b, "emit") /\ carrier' = [carrier EXCEPT ![b] = None]
     ELSE /\ carrier' = [carrier EXCEPT ![b] = plan.carrier]
          /\ Go(b, IF b = "sink" THEN "mark" ELSE "seek")
  /\ UNCHANGED <<link, runs, sweep, profile, mine, heard, tuned, linkFiles>>

(* A receiver that is given no survey makes one first, if the plan names    *)
(* its band.                                                                *)
SurveyFirst ==
  /\ at["sink"] = "mark"
  /\ profile[Filed("sink")] = NoProfile /\ "sink" \in link.surveys
  /\ \E rows \in BandSweeps, p95 \in NoiseP95 :
       profile' = [profile EXCEPT !["sink"] = Survey(rows, p95)]
  /\ UNCHANGED <<link, at, runs, sweep, mine, carrier, heard, tuned, linkFiles>>

(* resolve_freq_hz() and mark_ready(), before the receiver is started.      *)
MarkReady ==
  LET own == SurveyedCarrier("sink")
      c == IF carrier["sink"] # None THEN carrier["sink"]
           ELSE IF own # None THEN own ELSE Default
  IN  /\ at["sink"] = "mark"
      /\ carrier' = [carrier EXCEPT !["sink"] = c]
      /\ ready' = [up |-> TRUE, carrier |-> c, fresh |-> TRUE]
      /\ Go("sink", "adopt")
      /\ UNCHANGED <<link, runs, sweep, profile, mine, heard, tuned, state, tmp, plan>>

(* calibration_rx.sh: the noise of the survey that it is given now.         *)
Adopt ==
  /\ at["sink"] = "adopt"
  /\ noise' = profile[Filed("sink")].p95
  /\ Go("sink", "listen")
  /\ UNCHANGED <<link, runs, sweep, profile, mine, carrier, log, tuned, linkFiles>>

(* The flag of a receiver that is no longer there is 600 s old.             *)
Age ==
  /\ ready.up /\ at["sink"] \notin {"adopt", "listen"}
  /\ ready' = [ready EXCEPT !.fresh = FALSE]
  /\ UNCHANGED <<link, at, runs, sweep, profile, mine, carrier, heard, tuned, state,
                 tmp, plan>>

Fresh == ready.up /\ ready.fresh

(* wait_for_rx, then read_ready() for the carrier to send on.               *)
SeeReady ==
  /\ at["source"] = "seek" /\ Fresh
  /\ Go("source", "found")
  /\ UNCHANGED <<link, runs, sweep, profile, mine, carrier, heard, tuned, linkFiles>>

(* As if it took a flag, an old one, to give up on.                         *)
NeverReady_OnlyStale ==
  /\ at["source"] = "seek" /\ ready.up /\ ~ready.fresh
  /\ carrier' = [carrier EXCEPT !["source"] = None]
  /\ Go("source", "emit")
  /\ UNCHANGED <<link, runs, sweep, profile, mine, heard, tuned, linkFiles>>

NeverReady ==
  /\ at["source"] = "seek" /\ ~Fresh
  /\ carrier' = [carrier EXCEPT !["source"] = None]
  /\ Go("source", "emit")
  /\ UNCHANGED <<link, runs, sweep, profile, mine, heard, tuned, linkFiles>>

Transmit ==
  /\ at["source"] = "found"
  /\ carrier' = [carrier EXCEPT !["source"] =
                   IF Fresh THEN ready.carrier ELSE Default]
  /\ Go("source", "send")
  /\ UNCHANGED <<link, runs, sweep, profile, mine, heard, tuned, linkFiles>>

Sent ==
  /\ at["source"] = "send"
  /\ carrier' = [carrier EXCEPT !["source"] = None]
  /\ Go("source", "emit")
  /\ UNCHANGED <<link, runs, sweep, profile, mine, heard, tuned, linkFiles>>

(* One more line of the receiver's log.  Noise and strangers score too, but *)
(* only a burst of the source, heard on its carrier, can pass its check.    *)
Heard == at["source"] = "send" /\ carrier["source"] = carrier["sink"]
Strange == 20

Line(kind, score, real) == [kind |-> kind, score |-> score, real |-> real]

Hear ==
  /\ at["sink"] = "listen" /\ Len(log) < LogLimit
  /\ \/ \E p \in Peaks : /\ Heard /\ p >= Gate(noise)
                         /\ log' = Append(log, Line("peak", p, TRUE))
     \/ log' = Append(log, Line("peak", Strange, FALSE))
     \/ /\ log # <<>> /\ log[Len(log)].kind = "peak"
        /\ \/ log' = Append(log, Line("rejected", 0, FALSE))
           \/ /\ log[Len(log)].real
              /\ log' = Append(log, Line("ok", 0, FALSE))
  /\ UNCHANGED <<link, at, runs, sweep, profile, mine, carrier, noise, tuned,
                 linkFiles>>

(* follow() ends with enough good bursts or at its timeout; a threshold, if *)
(* there is one, goes into the survey that this box is given by then.       *)
EndListening ==
  LET survey == profile[Filed("sink")]
      result == LinkThreshold(noise, Parse(log))
  IN  /\ at["sink"] = "listen"
      /\ IF result = None
         THEN Go("sink", "emit") /\ UNCHANGED profile
         ELSE /\ Go("sink", "clear")
              /\ profile' = IF survey = NoProfile THEN profile
                            ELSE [profile EXCEPT ![Filed("sink")] =
                                    [survey EXCEPT !.sync = result, !.measured = TRUE]]
      /\ UNCHANGED <<link, runs, sweep, mine, carrier, heard, tuned, linkFiles>>

(* clear_ready(), which a calibration that failed does not come to.         *)
ClearReady ==
  /\ at["sink"] = "clear"
  /\ ready' = NoFlag
  /\ Go("sink", "emit")
  /\ UNCHANGED <<link, runs, sweep, profile, mine, carrier, heard, tuned, state, tmp,
                 plan>>

-----------------------------------------------------------------------------
(* radio_cmd() reads the carriers a last time; one that is not known leaves *)
(* its flag out.                                                            *)
Launch(b) ==
  /\ at[b] = "emit"
  /\ tuned' = [tuned EXCEPT ![b] = [d \in Directions |-> Resolved(d)]]
  /\ carrier' = [carrier EXCEPT ![b] = None]
  /\ noise' = IF b = "sink" THEN None ELSE noise
  /\ log' = IF b = "sink" THEN <<>> ELSE log
  /\ Go(b, "launched")
  /\ UNCHANGED <<link, runs, sweep, profile, mine, linkFiles>>

(* The terminal is closed, the pod goes away.                               *)
Halt(b) ==
  /\ at[b] \notin {"idle", "launched", "stopped"}
  /\ Go(b, "stopped")
  /\ sweep' = IF at[b] = "file" THEN <<>> ELSE sweep
  /\ mine' = [mine EXCEPT ![b] = NoCarriers]
  /\ carrier' = [carrier EXCEPT ![b] = None]
  /\ noise' = IF b = "sink" THEN None ELSE noise
  /\ log' = IF b = "sink" THEN <<>> ELSE log
  /\ UNCHANGED <<link, runs, profile, tuned, linkFiles>>

BoxStep(b) ==
  \/ Sweep(b) \/ PublishProfile(b) \/ ReadForUpdate(b) \/ OpenState(b)
  \/ WriteState(b) \/ PassGate(b) \/ GiveUp(b) \/ Settle(b) \/ OpenPlan(b)
  \/ DumpPlan(b) \/ RenamePlan(b) \/ ReadPlan(b) \/ Launch(b)

SinkStep == BoxStep("sink") \/ SurveyFirst \/ MarkReady \/ Adopt \/ EndListening \/ ClearReady
SourceStep == BoxStep("source") \/ SeeReady \/ NeverReady \/ Transmit \/ Sent

BringUpNext == \/ SinkStep \/ SourceStep \/ Hear \/ Age \/ EditLink
               \/ \E b \in Boxes : Start(b) \/ Halt(b)

(* The scripts of both boxes go on, and every wait in them is bounded.      *)
BringUpSpec == BringUpInit /\ [][BringUpNext]_bringUpVars
BringUpFairSpec == BringUpSpec /\ WF_bringUpVars(SinkStep) /\ WF_bringUpVars(SourceStep)

-----------------------------------------------------------------------------
Launched(b) == at[b] = "launched"

BothUp == \A b \in Boxes : Launched(b)
Apart(d) == /\ tuned["source"][d] # tuned["sink"][d]
            /\ \A b \in Boxes : tuned[b][d] # None

(* So it is where each box was started once, over a workspace that held no  *)
(* carriers, however their steps and writes interleave; and both carriers   *)
(* are then known where none is pinned.  (With one of them pinned the gate  *)
(* may open before the other box has written, and a box may be started      *)
(* without a carrier.)  And in every run a carrier that link.json pins is   *)
(* the one used, whatever the state file holds from another day.            *)
TunedTogether ==
  /\ BothUp /\ (\A b \in Boxes : runs[b] = 1) =>
       \A d \in Directions :
         /\ ~Apart(d)
         /\ (\A e \in Directions : Pinned(e) = None) =>
              \A b \in Boxes : tuned[b][d] # None
  /\ \A b \in Boxes, d \in Directions :
       Launched(b) /\ Pinned(d) # None => tuned[b][d] = Pinned(d)

(* What a survey saves of a sweep: stretches in which every point that was  *)
(* measured is quiet and which end where the next one measured is not, none *)
(* left out unless the list is full, the first of them as wide as any; and  *)
(* the draft's two carriers differ.                                         *)
Stretches(rows) ==
  {ab \in (DOMAIN rows) \X (DOMAIN rows) :
     /\ ab[1] <= ab[2]
     /\ \A i \in ab[1]..ab[2] : Quiet(rows, i)
     /\ ~Quiet(rows, ab[1] - 1) /\ ~Quiet(rows, ab[2] + 1)}

Width(rows, ab) == rows[ab[2]].at - rows[ab[1]].at

SurveyFindsTheWidest ==
  sweep # <<>> =>
    LET found == Options(sweep)
        saved == {<<found[i].lo, found[i].hi>> : i \in DOMAIN found}
        all   == Stretches(sweep)
    IN  /\ saved \subseteq {<<2 * sweep[ab[1]].at, 2 * sweep[ab[2]].at>> : ab \in all}
        /\ Len(found) = Min({MaxOptions, Cardinality(all)}) /\ Len(found) > 0
        /\ \A ab \in all : 2 * Width(sweep, ab) <= found[1].hi - found[1].lo
        /\ Draft(found).ack # Draft(found).data

(* A threshold that a calibration writes down as measured was earned: each  *)
(* burst that passed was the source's own, on the carrier the sink listened *)
(* on; the threshold leaves the weakest of them a fifth, clears the noise   *)
(* the receiver went by by 1.3, and is 0.6 of the weakest when it knew of   *)
(* none.  (Whose survey that noise is from, and whose the threshold goes    *)
(* into, is not said: through find() either may be the other box's.)        *)
Passed == {i \in DOMAIN log : /\ i < Len(log) /\ log[i].kind = "peak"
                              /\ log[i + 1].kind = "ok"}

Calibrated(b) == /\ at["sink"] = "listen" /\ at'["sink"] = "clear"
                 /\ profile'[b] # profile[b]

ThresholdIsEarned ==
  \A b \in Boxes :
    Calibrated(b) =>
      LET sync    == profile'[b].sync
          weakest == Min({log[i].score : i \in Passed})
      IN  /\ Passed # {} /\ \A i \in Passed : log[i].real
          /\ 10 * sync <= 8 * weakest
          /\ 10 * sync + 9 >= IF noise = None THEN 6 * weakest ELSE 13 * noise

(* Both together: what the bring-up measures is what it writes down.        *)
MeasuresRight == []SurveyFindsTheWidest /\ [][ThresholdIsEarned]_bringUpVars

(* Whatever the other box does, a box that is started comes to rest again:  *)
(* it launches its radio or stops.                                          *)
EveryRunEnds == \A b \in Boxes : []<>(at[b] \in {"idle", "launched", "stopped"})
=============================================================================
