----------------------------- MODULE EventPages -----------------------------
(***************************************************************************)
(* index.bin as the pages and tools read it: the list of recent events,    *)
(* the search by time (pika/webapp/app/services/event_service.py), the     *)
(* professional-review flag computed at every reading (review_policy.py)   *)
(* and the validator (pika/datalogger/validate_data.py), against a         *)
(* datalogger that records anomalies, may be replaced by one with longer   *)
(* records, loses power in the middle of a record, has its clock stepped   *)
(* and its thresholds changed.                                             *)
(*                                                                         *)
(* The file is a sequence of cells; a cell knows its event and its place   *)
(* in the record, so that a reader that is out of step shows.  Voltages    *)
(* are in tenths of a volt, as stored records are rounded, percentages in  *)
(* tenths of a percent, times in seconds.                                  *)
(***************************************************************************)
EXTENDS Integers, Sequences, SequencesExt, FiniteSetsExt

CONSTANTS
    SizeV2, SizeV3,     \* cells of a record, 47 and 51 bytes in the code
    PageLimit,          \* limit of get_recent_events
    CaptureLimit,       \* length at which a capture is forced to end, 30 s
    Cooldown,           \* time after an event in which none begins
    MaxEventsBytes,     \* size at which events.bin is rotated
    Settings,           \* [nominal, sag, swell] the user can choose
    Voltages,           \* extreme RMS values of anomalies
    Lengths,            \* how long anomalies last
    MaxEvents,          \* bound: records written
    MaxSteps,           \* bound: settings of the clock
    MaxTears            \* bound: records cut short

ASSUME PagesAssumption ==
    /\ SizeV2 \in Nat \ {0} /\ SizeV3 \in Nat /\ SizeV2 < SizeV3 /\ PageLimit \in Nat
    /\ CaptureLimit \in Nat \ {0} /\ Cooldown \in Nat
    /\ MaxEventsBytes \in Nat
    /\ MaxEvents \in Nat /\ MaxSteps \in Nat /\ MaxTears \in Nat
    /\ Voltages \subseteq Nat /\ Lengths \subseteq Nat \ {0}
    /\ Settings \subseteq [nominal : Nat \ {0}, sag : Nat, swell : Nat]

VARIABLES
    index,      \* index.bin
    format,     \* size of the records the installed datalogger writes
    events,     \* size of events.bin
    clock,
    settings,   \* in pika.yaml, in the datalogger and in the web application
    log,        \* every record written
    steps, tears

vars == <<index, format, events, clock, settings, log, steps, tears>>

Cell == [e : 1..MaxEvents, k : 1..SizeV3]
Record == [format : {SizeV2, SizeV3}, ts : Nat, type : {"SAG", "SWELL"},
           extreme : Nat, dur : Nat \ {0}, start : Int, off : Nat]

TypeOK ==
    /\ index \in Seq(Cell)
    /\ format \in {SizeV2, SizeV3}
    /\ events \in Nat /\ clock \in Nat
    /\ settings \in Settings
    /\ log \in Seq(Record) /\ Len(log) <= MaxEvents
    /\ steps \in 0..MaxSteps /\ tears \in 0..MaxTears

-----------------------------------------------------------------------------
(* Professional review.                                                    *)

Defaults == [interruption |-> 100, deepSag |-> 700, damagingSwell |-> 1200,
             sustained |-> 60, rangeLow |-> -133, rangeHigh |-> 58]

(* _policy_from_config: what pika.yaml sets in its review section.         *)
Policy(review) ==
    [key \in DOMAIN Defaults |-> IF key \in DOMAIN review THEN review[key] ELSE Defaults[key]]

(* pct_of_nominal, compared without division.                              *)
AtMost(v, pct, nominal) == v * 1000 <= pct * nominal
AtLeast(v, pct, nominal) == v * 1000 >= pct * nominal

\* mutant of Review: the comparison with the duration reversed
ReviewShort(type, v, dur, site, policy) ==
    LET nominal == IF site <= 0 THEN 1200 ELSE site
    IN  IF AtMost(v, policy.interruption, nominal) THEN "interruption"
        ELSE IF type = "SAG" /\ AtMost(v, policy.deepSag, nominal) THEN "deep sag"
        ELSE IF type = "SWELL" /\ AtLeast(v, policy.damagingSwell, nominal) THEN "damaging swell"
        ELSE IF /\ dur <= policy.sustained
                /\ \/ AtMost(v, 1000 + policy.rangeLow, nominal)
                   \/ AtLeast(v, 1000 + policy.rangeHigh, nominal)
        THEN "sustained" ELSE "none"

(* evaluate_event_review: the first rule that applies.                     *)
Review(type, v, dur, site, policy) ==
    LET nominal == IF site <= 0 THEN 1200 ELSE site
    IN  IF AtMost(v, policy.interruption, nominal) THEN "interruption"
        ELSE IF type = "SAG" /\ AtMost(v, policy.deepSag, nominal) THEN "deep sag"
        ELSE IF type = "SWELL" /\ AtLeast(v, policy.damagingSwell, nominal) THEN "damaging swell"
        ELSE IF /\ dur >= policy.sustained
                /\ \/ AtMost(v, 1000 + policy.rangeLow, nominal)
                   \/ AtLeast(v, 1000 + policy.rangeHigh, nominal)
        THEN "sustained" ELSE "none"

-----------------------------------------------------------------------------
(* Reading the index.                                                      *)

(* _detect_index_format: the record size, from the size of the file alone. *)
Detected(f) ==
    IF Len(f) % SizeV3 # 0 /\ Len(f) % SizeV2 = 0 THEN SizeV2 ELSE SizeV3

Count(f) == Len(f) \div Detected(f)

(* _unpack_record of the i-th record: what was written, or, out of step with
   the writer, numbers that were no record's.                              *)
Garbage == [format |-> 0]
Unpack(f, i) ==
    LET size == Detected(f)
        first == f[(i - 1) * size + 1]
    IN  IF /\ log[first.e].format = size
           /\ \A k \in 1..size : f[(i - 1) * size + k] = [e |-> first.e, k |-> k]
        THEN log[first.e] ELSE Garbage

Genuine(r) == r # Garbage

\* mutant of Recent: the first records of the file
RecentFirst(f) ==
    LET n == Min({PageLimit, Count(f)})
    IN  Reverse([i \in 1..n |-> Unpack(f, i)])

(* get_recent_events                                                       *)
Recent(f) ==
    LET n == Min({PageLimit, Count(f)})
    IN  Reverse([i \in 1..n |-> Unpack(f, Count(f) - n + i)])

(* The records rec at the places P by their time, those of one time in their
   order in the file.                                                      *)
ByTime(rec, P) ==
    LET UpTo(i) == {j \in P : rec[j].ts < rec[i].ts \/ (rec[j].ts = rec[i].ts /\ j <= i)}
    IN  [r \in 1..Cardinality(P) |-> rec[CHOOSE i \in P : Cardinality(UpTo(i)) = r]]

(* events_between: every record is looked at, whatever the order of times. *)
Between(f, from, to) ==
    LET rec == [i \in 1..Count(f) |-> Unpack(f, i)]
    IN  ByTime(rec, {i \in DOMAIN rec : Genuine(rec[i]) /\ rec[i].ts \in from..to})

\* mutant of ValidIndex: the end of the waveform before and not after it
ValidIndexEnd(f) ==
    LET rec == [i \in 1..Count(f) |-> Unpack(f, i)]
        EndOf(i) == IF i > 1 THEN rec[i - 1].off ELSE events
    IN  \/ f = <<>>
        \/ /\ Len(f) % Detected(f) = 0
           /\ \A i \in DOMAIN rec : Genuine(rec[i])
           /\ \A i \in 2..Count(f) : rec[i - 1].ts <= rec[i].ts /\ rec[i - 1].off < rec[i].off
           /\ \A i \in DOMAIN rec : rec[i].ts + rec[i].dur <= rec[i].start + EndOf(i) - rec[i].off

(* validate_event_index: whole records, times that do not fall, offsets that
   rise and lie within events.bin, each event within its waveform.  That a
   time is plausible and ns_per_sample not 0 is true of what was written,
   and asked here only in that a record is not torn from two.              *)
ValidIndex(f) ==
    LET rec == [i \in 1..Count(f) |-> Unpack(f, i)]
        EndOf(i) == IF i < Count(f) THEN rec[i + 1].off ELSE events
    IN  \/ f = <<>>
        \/ /\ Len(f) % Detected(f) = 0
           /\ \A i \in DOMAIN rec : Genuine(rec[i])
           /\ \A i \in 2..Count(f) : rec[i - 1].ts <= rec[i].ts /\ rec[i - 1].off < rec[i].off
           /\ \A i \in DOMAIN rec :
                 /\ rec[i].off < events
                 /\ rec[i].start <= rec[i].ts
                 /\ rec[i].ts + rec[i].dur <= rec[i].start + EndOf(i) - rec[i].off

-----------------------------------------------------------------------------
(* The datalogger, as the pages see it.                                    *)

Init ==
    /\ index = <<>> /\ format \in {SizeV2, SizeV3}
    /\ events = 0 /\ clock = 1
    /\ settings \in Settings
    /\ log = <<>> /\ steps = 0 /\ tears = 0

TypeOf(v) ==
    IF AtMost(v, 1000 - settings.sag, settings.nominal) THEN "SAG"
    ELSE IF AtLeast(v, 1000 + settings.swell, settings.nominal) THEN "SWELL"
    ELSE "none"

\* mutant of Pieces: the cooldown forgotten
PiecesNoCooldown(lasted) ==
    LET n == (lasted + CaptureLimit - 1) \div CaptureLimit
    IN  [i \in 1..n |-> LET since == (i - 1) * (CaptureLimit + Cooldown)
                        IN  [at |-> clock + since, dur |-> Min({CaptureLimit, lasted - since})]]

(* The records an anomaly leaves: a capture is forced to end at the limit,
   and what is left after the cooldown is the next event (EventCapture).   *)
Pieces(lasted) ==
    LET n == (lasted + CaptureLimit + Cooldown - 1) \div (CaptureLimit + Cooldown)
    IN  [i \in 1..n |-> LET since == (i - 1) * (CaptureLimit + Cooldown)
                        IN  [at |-> clock + since, dur |-> Min({CaptureLimit, lasted - since})]]

(* maybe_rotate: events.bin begins anew once it has its size; 0 is none.   *)
Rotated(size) == IF MaxEventsBytes > 0 /\ size >= MaxEventsBytes THEN 0 ELSE size

(* Where the waveforms of the pieces begin in events.bin, each a second
   longer than its piece at either end.                                    *)
Offsets(pieces) ==
    LET OffOf[i \in 1..Len(pieces)] ==
            IF i = 1 THEN events ELSE Rotated(OffOf[i - 1] + pieces[i - 1].dur + 2)
    IN  OffOf

(* A record for every piece, and its waveform.                             *)
Anomaly(v, lasted) ==
    LET pieces == Pieces(lasted)
        n == Len(pieces)
        off == Offsets(pieces)
    IN  /\ TypeOf(v) # "none"
        /\ Len(log) + n <= MaxEvents
        /\ log' = log \o [i \in 1..n |->
                [format |-> format, ts |-> pieces[i].at, type |-> TypeOf(v), extreme |-> v,
                 dur |-> pieces[i].dur, start |-> pieces[i].at - 1, off |-> off[i]]]
        /\ index' = index \o [j \in 1..n * format |->
                [e |-> Len(log) + 1 + (j - 1) \div format, k |-> 1 + ((j - 1) % format)]]
        /\ events' = Rotated(off[n] + pieces[n].dur + 2)
        /\ clock' = clock + lasted + Cooldown
        /\ UNCHANGED <<format, settings, steps, tears>>

(* The last record written is cut short, with its end missing.             *)
Tear ==
    /\ tears < MaxTears
    /\ index # <<>>
    /\ \E k \in 1..Last(index).k - 1 : index' = SubSeq(index, 1, Len(index) - k)
    /\ tears' = tears + 1
    /\ UNCHANGED <<format, events, clock, settings, log, steps>>

(* The datalogger is replaced by one that writes the newer record.         *)
Upgrade ==
    /\ format = SizeV2
    /\ format' = SizeV3
    /\ UNCHANGED <<index, events, clock, settings, log, steps, tears>>

(* update_anomalies_config, the restart included.                          *)
ChangeSettings ==
    /\ settings' \in Settings
    /\ UNCHANGED <<index, format, events, clock, log, steps, tears>>

StepClock ==
    /\ steps < MaxSteps
    /\ clock' = 1
    /\ steps' = steps + 1
    /\ UNCHANGED <<index, format, events, settings, log, tears>>

Next ==
    \/ \E v \in Voltages, lasted \in Lengths : Anomaly(v, lasted)
    \/ Tear \/ Upgrade \/ ChangeSettings \/ StepClock

Spec == Init /\ [][Next]_vars

-----------------------------------------------------------------------------
(* What must hold.                                                         *)

(* A file of whole records of one format, which its size tells.            *)
Clean ==
    /\ tears = 0
    /\ \A i \in DOMAIN log : log[i].format = Detected(index)

(* The list of recent events shows the newest records, newest first, and the
   search by time every event in its window in order of time, also after the
   clock was set back (get_recent_events, events_between).                 *)
ListingsComplete ==
    Clean =>
        /\ Recent(index) = Reverse(SubSeq(log, Max({1, Len(log) - PageLimit + 1}), Len(log)))
        /\ \A from, to \in {log[i].ts : i \in DOMAIN log} :
              LET found == Between(index, from, to)
              IN  /\ Range(found) = {r \in Range(log) : r.ts \in from..to}
                  /\ \A i, j \in DOMAIN found : i < j => found[i].ts <= found[j].ts

(* The table of docs/adrs/0003-ieee-1159-sag-swell-detection.md, lines 39-44,
   in volts at 120 V, and the nominals at which an event as far or further off
   for as long or longer than one that is flagged is flagged too.          *)
Durations == Lengths \cup {Defaults.sustained - 1, Defaults.sustained}
FlaggedBy(type, v, d, n, policy) == Review(type, v, d, n, policy) # "none"
Flagged(type, v, d, n) == FlaggedBy(type, v, d, n, Policy(<<>>))
Stricter == Policy([sustained |-> 30])
TableHolds ==
    \A type \in {"SAG", "SWELL"}, v \in Voltages, d \in Durations :
        Flagged(type, v, d, 1200) <=>
           \/ v <= 120
           \/ type = "SAG" /\ v <= 840
           \/ type = "SWELL" /\ v >= 1440
           \/ d >= 60 /\ (v <= 1040 \/ v >= 1270)
Monotone ==
    {n \in {s.nominal : s \in Settings} :
        \A v, w \in Voltages, d, e \in Durations :
            d <= e =>
               /\ w <= v /\ v <= n /\ Flagged("SAG", v, d, n) => Flagged("SAG", w, e, n)
               /\ n <= v /\ v <= w /\ Flagged("SWELL", v, d, n) => Flagged("SWELL", w, e, n)
               /\ \A type \in {"SAG", "SWELL"} :
                     Flagged(type, v, d, n) => FlaggedBy(type, v, d, n, Stricter)}

(* The review flag is the published table, and at the nominal the user chose
   a worse event is never less flagged, nor any event by a review section in
   pika.yaml that shortens the sustained duration (evaluate_event_review).  *)
ReviewIsTable == TableHolds /\ settings.nominal \in Monotone

(* The validator passes every file written without a rotation, a step of the
   clock back, or a change of format; and what it passes the page lists as
   recorded, each event with a waveform of its own (validate_event_index). *)
Unrotated ==
    \A i \in DOMAIN log :
        log[i].off + log[i].dur + 2 = IF i < Len(log) THEN log[i + 1].off ELSE events
ValidatorAgrees ==
    /\ Clean /\ steps = 0 /\ Unrotated => ValidIndex(index)
    /\ ValidIndex(index) =>
          LET page == Recent(index)
          IN  /\ \A i \in DOMAIN page : Genuine(page[i])
              /\ \A i \in 2..Len(page) :
                    /\ page[i].ts <= page[i - 1].ts
                    /\ page[i].off + page[i].dur + 1 <= page[i - 1].off
=============================================================================
