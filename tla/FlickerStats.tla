---------------------------- MODULE FlickerStats ----------------------------
(***************************************************************************)
(* What a flicker note says about the minute before it                     *)
(* (pika/webapp/app/services/observation_service.py): the numbers computed *)
(* from the stored intervals and events, and the sentences made of them.   *)
(*                                                                         *)
(* A row is an interval: its time t, its Vrms v, and the sizes lo and hi   *)
(* of its lower and upper peak, as the Vrms of a sine with that peak.      *)
(* Times are in intervals.  The median is kept doubled, so that the mean   *)
(* of two values stays whole; rounding of what is shown is left out.       *)
(***************************************************************************)
EXTENDS Integers, Sequences, SequencesExt, FiniteSetsExt

CONSTANTS
    Window,         \* WINDOW_S
    SagLine,        \* sag_log_v
    Brief, Long,    \* 0.5 s and 2 s, between which a television drops out
    ChartCap,       \* most points of a chart, 2000 in the code
    DefaultBucket   \* the interval assumed of a single row, 200 ms

ASSUME StatsAssumption ==
    /\ Window \in Nat \ {0} /\ SagLine \in Nat /\ ChartCap \in Nat \ {0}
    /\ Brief \in Nat \ {0} /\ Long \in Nat /\ Brief <= Long
    /\ DefaultBucket \in Nat \ {0}

(* The elements of s at the places P, in their order.                      *)
Picked(s, P) ==
    LET Nth(j) == CHOOSE i \in P : Cardinality({k \in P : k <= i}) = j
    IN  [j \in 1..Cardinality(P) |-> s[Nth(j)]]

(* s in rising order: its j-th element is the one with j elements up to it. *)
Sorted(s) ==
    LET UpTo(i) == {k \in DOMAIN s : s[k] < s[i] \/ (s[k] = s[i] /\ k <= i)}
    IN  [j \in 1..Len(s) |-> s[CHOOSE i \in DOMAIN s : Cardinality(UpTo(i)) = j]]

ValuesOf(rows) == [i \in DOMAIN rows |-> rows[i].v]

-----------------------------------------------------------------------------
(* Numbers.                                                                *)

(* _bucket_ns: the upper median of the positive distances.                 *)
BucketOf(rows) ==
    LET steps == [i \in 1..Len(rows) - 1 |-> rows[i + 1].t - rows[i].t]
        deltas == Picked(steps, {i \in DOMAIN steps : steps[i] > 0})
    IN  IF deltas = <<>> THEN DefaultBucket ELSE Sorted(deltas)[Len(deltas) \div 2 + 1]

(* Twice the _median.                                                      *)
Median2(rows) ==
    LET s == Sorted(ValuesOf(rows))
        mid == Len(s) \div 2
    IN  IF Len(s) % 2 = 1 THEN 2 * s[mid + 1] ELSE s[mid] + s[mid + 1]

(* The stretches of flagged rows without a hole of more than two buckets.  *)
Runs(rows, flagged, bucket) ==
    {r \in flagged \X flagged :
        /\ r[1] <= r[2]
        /\ r[1]..r[2] \subseteq flagged
        /\ \A k \in r[1]..r[2] - 1 : rows[k + 1].t - rows[k].t <= 2 * bucket}

\* mutant of LongestRun: the last interval's own length forgotten
LongestRunShort(rows, flagged, bucket) ==
    Max({0} \cup {rows[r[2]].t - rows[r[1]].t : r \in Runs(rows, flagged, bucket)})

(* _longest_run: the length of the longest stretch, 0 if there is none.    *)
LongestRun(rows, flagged, bucket) ==
    Max({0} \cup {rows[r[2]].t - rows[r[1]].t + bucket : r \in Runs(rows, flagged, bucket)})

(* _notch: the row whose smaller peak is furthest below its Vrms, if by more
   than NOTCH_FRACTION allows; 0 if there is none.                         *)
Notch(rows) ==
    LET Sided(i) == Min({rows[i].lo, rows[i].hi})
        Lopsided == {i \in DOMAIN rows : Sided(i) > 0 /\ Sided(i) * 100 < rows[i].v * 85}
        Deeper(i, j) == Sided(i) * rows[j].v < Sided(j) * rows[i].v
    IN  IF Lopsided = {} THEN 0
        ELSE Min({i \in Lopsided : \A j \in Lopsided : ~Deeper(j, i)})

(* _chart_intervals: at most ChartCap points, each for a bucket of rows.   *)
ChartIntervals(rows) ==
    LET n == Len(rows)
        per == (n + ChartCap - 1) \div ChartCap
        Part(b) == SubSeq(rows, (b - 1) * per + 1, Min({b * per, n}))
        Of(part) == [t |-> Last(part).t,
                     v |-> FoldSeq(LAMBDA r, sum : r.v + sum, 0, part) \div Len(part),
                     lo |-> Max({r.lo : r \in Range(part)}),
                     hi |-> Max({r.hi : r \in Range(part)})]
    IN  IF n <= ChartCap THEN rows
        ELSE [b \in 1..(n + per - 1) \div per |-> Of(Part(b))]

(* The numbers for a note made at time at, from the rows and the events of
   the minute before it.                                                   *)
Stats(at, rows, events) ==
    LET none == [events |-> events, count |-> 0, coverage |-> "none", rows |-> <<>>, lowRun |-> 0]
        bucket == BucketOf(rows)
        median2 == Median2(rows)
        Low == {i \in DOMAIN rows : rows[i].v * 200 <= median2 * 99}
        High == {i \in DOMAIN rows : rows[i].v * 200 >= median2 * 101}
        full == Head(rows).t <= at - Window + bucket /\ Last(rows).t >= at - bucket
    IN  IF rows = <<>> THEN none
        ELSE [events |-> events, count |-> Len(rows), rows |-> rows,
              coverage |-> IF full THEN "full" ELSE "partial",
              median2 |-> median2,
              low |-> Min(Range(ValuesOf(rows))),
              high |-> Max(Range(ValuesOf(rows))),
              lowRun |-> LongestRun(rows, Low, bucket),
              highRun |-> LongestRun(rows, High, bucket),
              notch |-> Notch(rows)]

(* correlate: the same from all that is stored.                            *)
InWindow(at, stored) == Picked(stored, {i \in DOMAIN stored : stored[i].t \in at - Window..at})
Correlate(at, stored, logged) ==
    Stats(at, InWindow(at, stored), {e \in logged : e \in at - Window..at})

-----------------------------------------------------------------------------
(* Sentences.                                                              *)

Sentences ==
    {"events", "no event", "location", "no trend", "lowest", "highest", "partly covered",
     "reached the sag line", "stayed above the sag line", "like a dropout", "slow change",
     "longer than a blank", "shorter than a blank", "mute may be held", "did not move",
     "unresolved", "away from the mains", "notch", "can dim lamps", "barely moved",
     "picture was gone"}

Say(sentence, when) == IF when THEN {sentence} ELSE {}

(* build_summary: which sentences are said.                                *)
Summary(note, s) ==
    LET tv == note.kind # "lights"
        run == s.lowRun
        DeeperThan(pct) ==
            s.median2 # 0 /\ (s.median2 - 2 * s.low) * 100 >= pct * s.median2
    IN  Say("events", s.events # {}) \cup Say("no event", s.events = {}) \cup {"location"} \cup
        IF s.count = 0 THEN {"no trend"}
        ELSE {"lowest", "highest"}
             \cup Say("partly covered", s.coverage = "partial")
             \cup Say("reached the sag line", s.events = {} /\ s.low <= SagLine)
             \cup Say("stayed above the sag line", s.events = {} /\ s.low > SagLine)
             \cup Say("like a dropout", run \in Brief..Long)
             \cup Say("slow change", run > Long /\ ~DeeperThan(3))
             \cup Say("longer than a blank", run > Long /\ DeeperThan(3))
             \cup Say("shorter than a blank", run \in 1..Brief - 1)
             \cup Say("mute may be held", run \in 1..Brief - 1 /\ tv)
             \cup Say("did not move", run = 0 /\ tv)
             \cup Say("unresolved", run = 0 /\ tv /\ note.tv_count = "several")
             \cup Say("away from the mains", run = 0 /\ tv /\ note.tv_count = "one")
             \cup Say("notch", s.notch # 0)
             \cup Say("can dim lamps", note.kind # "tv" /\ DeeperThan(2))
             \cup Say("barely moved", note.kind = "lights" /\ ~DeeperThan(1) /\ run = 0)
             \cup Say("picture was gone", tv /\ run >= Brief)
=============================================================================
