------------------------------ MODULE Surveys ------------------------------
(***************************************************************************)
(* The survey records of union/phy_profile.py: which measurement answers a *)
(* question about a radio, and what is taken from it.  A record is what    *)
(* prepare_phy publishes into the shared workspace:                        *)
(*                                                                         *)
(*   key     the name it is filed under          at       when it was taken*)
(*   args    the identity it was addressed by    serial   the radio's own  *)
(*   band, path  the antenna and the RF channel with its connector         *)
(*   options usable carriers, each [carrier, lo, hi], best first; use is   *)
(*           the index recommended;  gate  the detector threshold          *)
(*                                                                         *)
(* "" stands for a field the record or the caller does not mention, 0 for  *)
(* a carrier nobody names.                                                 *)
(***************************************************************************)
EXTENDS Naturals, Sequences, FiniteSets, FiniteSetsExt, SequencesExt

NoSurvey == [key |-> ""]

Found(s) == s # NoSurvey

(* What a caller may know of the setup it asks about. *)
Anything == [band |-> "", path |-> "", args |-> "", near |-> 0]

(* A record that does not mention a field cannot contradict it; a radio     *)
(* answers to the identity it was addressed by and to its serial.           *)
Keeps(s, field, value) ==
    CASE value = "" -> TRUE
      [] field = "band" -> s.band \in {"", value}
      [] field = "path" -> s.path \in {"", value}
      [] OTHER -> s.args \in {"", value} \/ s.serial = value

SignalPath(s) == <<s.band, s.path>>

Newest(hits) ==
    CHOOSE s \in hits : \A t \in hits : t.at <= s.at

Covers(s, mhz) ==
    \E i \in DOMAIN s.options : s.options[i].lo <= mhz /\ mhz <= s.options[i].hi

(* Re-surveys of one signal path are history, and the newest wins; different*)
(* paths are an ambiguity only a carrier inside exactly one of them settles.*)
OneOf(hits, near) ==
    LET covering == {s \in hits : Covers(s, near)}
    IN  CASE hits = {} -> NoSurvey
          [] hits # {} /\ Cardinality({SignalPath(s) : s \in hits}) = 1
               -> Newest(hits)
          [] OTHER -> IF near # 0 /\ Cardinality(covering) = 1
                      THEN CHOOSE s \in covering : TRUE
                      ELSE NoSurvey

(* The keys tried, most specific first: the radio named, then this host's.  *)
Keys(hostKeys, args) ==
    IF args = "" THEN hostKeys
    ELSE <<args>> \o SelectSeq(hostKeys, LAMBDA k : k # args)

Idents(s) == {s.key, s.serial, s.args} \ {""}

(* find(): the first key with any record decides, even when the rest of the *)
(* question then rejects all of them; only when no key has a record is one  *)
(* looked for by what the records say of themselves.                        *)
Find(surveys, hostKeys, q) ==
    LET keys     == Keys(hostKeys, q.args)
        filed(k) == {s \in surveys : s.key = k}
        hit      == SelectInSeq(keys, LAMBDA k : filed(k) # {})
        fits(s)  == Keeps(s, "band", q.band) /\ Keeps(s, "path", q.path)
        byRecord == {s \in surveys : /\ q.args \in {""} \cup Idents(s)
                                     /\ fits(s)}
    IN  IF hit # 0
        THEN OneOf({s \in filed(keys[hit]) : fits(s) /\ Keeps(s, "args", q.args)},
                   q.near)
        ELSE IF byRecord # {} /\ <<q.band, q.path, q.args>> # <<"", "", "">>
             THEN OneOf(byRecord, q.near)
             ELSE IF Cardinality(surveys) = 1
                  THEN CHOOSE s \in surveys : TRUE
                  ELSE NoSurvey

(* pick_candidate() with nothing named: the recommended option, or the last.*)
Recommended(s) == s.options[Min({s.use, Len(s.options)})]

(* choose_candidate(): the first carrier of the list this radio measured as *)
(* usable; the first of the list when nothing was measured; 0 when the      *)
(* measurement rules all of them out.                                       *)
RuledOut == 0

ChooseCandidate(surveys, hostKeys, list, q) ==
    LET s      == Find(surveys, hostKeys, [q EXCEPT !.near = 0])
        usable == SelectSeq(list, LAMBDA c : Covers(s, c))
    IN  CASE ~Found(s) -> list[1]
          [] Found(s) /\ s.options = <<>> -> list[1]
          [] OTHER -> IF usable = <<>> THEN RuledOut ELSE usable[1]
=============================================================================
