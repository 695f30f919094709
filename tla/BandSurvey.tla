----------------------------- MODULE BandSurvey -----------------------------
(***************************************************************************)
(* What a survey of one receive band concludes, and what a calibration     *)
(* adds to it: prepare_phy.py (quiet_regions, noise_acq, the saved options *)
(* and the two carriers of the topology draft) and calibrate_sync.py       *)
(* (parse, compute).                                                       *)
(*                                                                         *)
(* A sweep is the sequence of its rows: the place of a point in the band,  *)
(* counted in steps, and the power measured there, in dB above some level. *)
(* A point that could not be measured has no row, so that the rows beside  *)
(* it are neighbours.  Carriers are counted in half steps, so that the     *)
(* middle of two points is a number.  Correlation peaks and thresholds are *)
(* counted in units.                                                       *)
(***************************************************************************)
EXTENDS Naturals, Sequences, FiniteSets, FiniteSetsExt, SequencesExt

CONSTANTS
  Margin,       \* dB above the floor that still count as quiet
  MaxOptions,   \* --max-options
  LinkWidth     \* half steps the default link needs

ASSUME BandSurveyAssumption ==
  /\ Margin \in Nat /\ LinkWidth \in Nat
  /\ MaxOptions \in Nat \ {0}

None == 0   \* no carrier, no threshold, no measurement

(* The lower quartile of the powers.                                        *)
Powers(rows) == [i \in DOMAIN rows |-> rows[i].db]

Floor(rows) == SortSeq(Powers(rows), <)[(Len(rows) \div 4) + 1]

Quiet(rows, i) == i \in DOMAIN rows /\ rows[i].db <= Floor(rows) + Margin

(* One pass over the rows: a quiet one extends the run that the row before  *)
(* it belongs to, wherever in the band that is, or begins one.              *)
Runs(rows) ==
  LET Scan(runs, i) ==
        IF ~Quiet(rows, i) THEN runs
        ELSE IF Quiet(rows, i - 1) THEN [runs EXCEPT ![Len(runs)][2] = i]
        ELSE Append(runs, <<i, i>>)
  IN  FoldLeft(Scan, <<>>, [i \in DOMAIN rows |-> i])

(* The mean power of a run, to a tenth of a dB.                             *)
RegionFloor(rows, a, b) ==
  (20 * FoldLeft(+, 0, SubSeq(Powers(rows), a, b)) + (b - a + 1)) \div (2 * (b - a + 1))

Region(rows, a, b) ==
  LET lo == rows[a].at
      hi == rows[b].at
  IN  [lo |-> 2 * lo, hi |-> 2 * hi, carrier |-> lo + hi,
       floor |-> RegionFloor(rows, a, b), fits |-> 2 * (hi - lo) >= LinkWidth]

(* The widest first, of equal ones the quieter, of those the lower.         *)
Better(r, s) ==
  \/ r.hi - r.lo > s.hi - s.lo
  \/ /\ r.hi - r.lo = s.hi - s.lo
     /\ r.floor < s.floor \/ (r.floor = s.floor /\ r.lo < s.lo)

(* The regions a survey saves; the first is the one it recommends.          *)
Options(rows) ==
  LET runs   == Runs(rows)
      ranked == SortSeq([i \in DOMAIN runs |-> Region(rows, runs[i][1], runs[i][2])],
                        Better)
  IN  SubSeq(ranked, 1, Min({MaxOptions, Len(ranked)}))

(* The topology draft: data on the recommended carrier, the reply on the    *)
(* runner-up, left blank when there is none.                                *)
Draft(options) ==
  [data |-> options[1].carrier,
   ack  |-> IF Len(options) > 1 THEN options[2].carrier ELSE None]

-----------------------------------------------------------------------------
(* The threshold from noise alone: between the noise's own peaks and a real *)
(* preamble's, which scores 31.                                             *)
Preamble == 31

Root == [n \in Nat |-> CHOOSE r \in 0..n : r * r <= n /\ (r + 1) * (r + 1) > n]

NoiseThreshold(p95) ==
  Max({Min({(Preamble * 8) \div 10, Root[p95 * Preamble]}), (13 * p95) \div 10})

(* The gate of a calibration's receiver: what scores less is not reported.  *)
Gate(p95) == IF p95 = None THEN 5 ELSE Max({(13 * p95) \div 10, 3})

(* As if a verdict went to the first peak that has none yet.                *)
Parse_First(log) ==
  LET Line(acc, l) ==
        IF l.kind = "peak"
        THEN [acc EXCEPT !.pending = IF @ = None THEN l.score ELSE @]
        ELSE IF acc.pending # None /\ l.kind = "ok"
             THEN [good |-> Append(acc.good, acc.pending), pending |-> None]
             ELSE [acc EXCEPT !.pending = None]
  IN  FoldLeft(Line, [good |-> <<>>, pending |-> None], log).good

(* The receiver's log: a peak for every burst it detected, then the verdict *)
(* on that burst, if it came to one.  Only a peak that is followed by its   *)
(* own good verdict counts.                                                 *)
Parse(log) ==
  LET Line(acc, l) ==
        IF l.kind = "peak"
        THEN [acc EXCEPT !.pending = l.score]
        ELSE IF acc.pending # None /\ l.kind = "ok"
             THEN [good |-> Append(acc.good, acc.pending), pending |-> None]
             ELSE [acc EXCEPT !.pending = None]
  IN  FoldLeft(Line, [good |-> <<>>, pending |-> None], log).good

(* The threshold from both ends: the geometric mean of the noise and the    *)
(* weakest good peak, kept 1.3 above the one and under 0.8 of the other;    *)
(* none when these leave no room.                                           *)
Between ==
  [p95 \in Nat, weakest \in Nat |->
    LET low  == (13 * p95) \div 10
        high == (8 * weakest) \div 10
    IN  IF low > high THEN None
        ELSE Min({Max({Root[p95 * weakest], low}), high})]

(* Silence makes no threshold; without a survey there is one end only.      *)
LinkThreshold(p95, good) ==
  CASE good = <<>>                -> None
    [] good # <<>> /\ p95 = None  -> (6 * Min(ToSet(good))) \div 10
    [] good # <<>> /\ p95 # None  -> Between[p95, Min(ToSet(good))]
=============================================================================
