---------------------------- MODULE EventCapture ----------------------------
(***************************************************************************)
(* How the processor thread turns samples into recorded events: the sag    *)
(* and swell detector (pika/datalogger/src/anomaly_detector.c), the window *)
(* that captures the waveform around an event (event_window.c) and the     *)
(* loop that drives both, sample by sample and block by block (main.c).    *)
(*                                                                         *)
(* A sample is represented by what the detector makes of it: "normal",     *)
(* "sag" or "swell" against the thresholds (anomaly_detector.c:250-260).   *)
(* Times and durations are counted in samples, one sample period apart.    *)
(* Each C structure is a record, each C function an operator on it.        *)
(***************************************************************************)
EXTENDS Naturals

CONSTANTS
    BlockLen,       \* samples per block
    WarmUp,         \* samples until the RMS ring is full and learning over
    MinSag, MinSwell,       \* *_min_duration_samples
    CoolSag, CoolSwell,     \* *_cooldown_ns, in samples
    Pre,            \* pre_sec, in samples
    Post,           \* post_samples_total
    MaxEvent,       \* max_event_samples: 30 s of samples
    Slack,          \* 0.1 s, in samples
    Margin,         \* 128 samples more
    SaveLimit,      \* save_ready_event skips a longer capture (500000)
    MaxDur          \* bound: current_duration stops counting here

ASSUME ConfigAssumption ==
    /\ {BlockLen, MinSag, MinSwell, MaxEvent} \subseteq Nat \ {0}
    /\ {WarmUp, CoolSag, CoolSwell, Pre, Post, Slack, Margin, SaveLimit} \subseteq Nat
    /\ Margin >= 2
(* No decision of the code tells two durations above all limits apart.     *)
ASSUME BoundAssumption ==
    /\ MaxDur \in Nat
    /\ MaxDur > MaxEvent /\ MaxDur > MinSag /\ MaxDur > MinSwell

Type == {"sag", "swell"}
MinDuration == [t \in Type |-> IF t = "sag" THEN MinSag ELSE MinSwell]
Cooldown == [t \in Type |-> IF t = "sag" THEN CoolSag ELSE CoolSwell]

VARIABLES
    ad,     \* the detector: anomaly_detector_t
    ew,     \* the window: event_window_t
    i,      \* samples of the current block already processed
    note,   \* what the detector last reported
    saved,  \* the record last written to the event index
    fate    \* what became of the last capture

vars == <<ad, ew, i, note, saved, fate>>

None == [kind |-> "none", type |-> "none", dur |-> 0]
Event == [kind : {"none", "started", "completed", "aborted"},
          type : Type \cup {"none"}, dur : Nat]
Shorter(a, b) == IF a < b THEN a ELSE b

-----------------------------------------------------------------------------
(* anomaly_detector.c                                                      *)

AdInit == [warm |-> WarmUp, type |-> "none", dur |-> 0, since |-> Cooldown]

\* one sample later, counted up to the end of each type's cooldown
Later(a) ==
    [a EXCEPT !.since = [t \in Type |-> Shorter(a.since[t] + 1, Cooldown[t])]]

\* finish_event_sample
Finish(a) ==
    [ad |-> [a EXCEPT !.since[a.type] = 0, !.type = "none", !.dur = 0],
     note |-> [kind |-> IF a.dur >= MinDuration[a.type] THEN "completed" ELSE "aborted",
               type |-> a.type, dur |-> a.dur]]

\* the start of an event, unless its type is cooling down
Start(a, class) ==
    IF a.since[class] < Cooldown[class]
    THEN [ad |-> a, note |-> None]
    ELSE [ad |-> [a EXCEPT !.type = class, !.dur = 1],
          note |-> [kind |-> "started", type |-> class, dur |-> 0]]

\* anomaly_detector_process_sample
ProcessSample(before, class) ==
    LET a == Later(before) IN
    CASE a.warm > 0 -> [ad |-> [a EXCEPT !.warm = @ - 1], note |-> None]
      [] a.warm = 0 /\ a.type = "none" /\ class = "normal" ->
            [ad |-> a, note |-> None]
      [] a.warm = 0 /\ a.type = "none" /\ class \in Type -> Start(a, class)
      [] a.warm = 0 /\ a.type \in Type /\ class = a.type ->
            [ad |-> [a EXCEPT !.dur = Shorter(@ + 1, MaxDur)], note |-> None]
      [] a.warm = 0 /\ a.type \in Type /\ class # a.type -> Finish(a)

-----------------------------------------------------------------------------
(* event_window.c                                                          *)

PreCapacity == Pre + Slack + 1
CaptureCapacity == Pre + MaxEvent + Post + 2 * Slack + Margin

EwInit ==
    [state |-> "idle", ready |-> FALSE, skip |-> FALSE, event |-> None,
     pre |-> 0, count |-> 0, preAtStart |-> 0, postLeft |-> Post, maxHit |-> FALSE]

\* capture_append: a full buffer drops the sample
CaptureAppend(w) == [w EXCEPT !.count = Shorter(@ + 1, CaptureCapacity)]

\* mutant of PrePush: the count runs past the buffer
PrePushUnbounded(w) == [w EXCEPT !.pre = @ + 1]

PrePush(w) == [w EXCEPT !.pre = Shorter(@ + 1, PreCapacity)]

\* mutant of Advance: no limit on the length of an event
AdvanceNoLimit(w) ==
    CASE w.state = "capturing" -> w
      [] w.state = "post" ->
            LET left == IF w.skip \/ w.postLeft = 0 THEN w.postLeft ELSE w.postLeft - 1
            IN  [w EXCEPT !.skip = FALSE, !.postLeft = left,
                          !.ready = @ \/ left = 0,
                          !.state = IF left = 0 THEN "idle" ELSE "post"]

\* the state of event_window_push_sample after the sample is stored
Advance(w) ==
    CASE w.state = "capturing" ->
            [w EXCEPT !.maxHit = @ \/ w.count - w.preAtStart >= MaxEvent]
      [] w.state = "post" ->
            LET left == IF w.skip \/ w.postLeft = 0 THEN w.postLeft ELSE w.postLeft - 1
            IN  [w EXCEPT !.skip = FALSE, !.postLeft = left,
                          !.ready = @ \/ left = 0,
                          !.state = IF left = 0 THEN "idle" ELSE "post"]

PushSample(w) ==
    IF w.state = "idle" THEN PrePush(w) ELSE Advance(CaptureAppend(PrePush(w)))

\* event_window_on_start: ignored while busy
OnStart(w, event) ==
    IF w.state # "idle" \/ w.ready
    THEN w
    ELSE LET n == Shorter(w.pre, CaptureCapacity)
         IN  [w EXCEPT !.event = event, !.count = n, !.preAtStart = n,
                       !.maxHit = FALSE, !.state = "capturing"]

\* mutant of OnEnd: the sample that ended the event counts as a post sample
OnEndNoSkip(w, event) ==
    IF w.state # "capturing"
    THEN w
    ELSE [w EXCEPT !.event = event, !.state = "post", !.postLeft = Post,
                   !.skip = FALSE, !.maxHit = FALSE]

\* event_window_on_end: ignored unless capturing
OnEnd(w, event) ==
    IF w.state # "capturing"
    THEN w
    ELSE [w EXCEPT !.event = event, !.state = "post", !.postLeft = Post,
                   !.skip = TRUE, !.maxHit = FALSE]

\* mutant of Abort: the state is not reset
AbortKeepsState(w) ==
    IF w.state = "idle" /\ ~w.ready
    THEN w
    ELSE [w EXCEPT !.ready = FALSE, !.count = 0, !.maxHit = FALSE,
                   !.postLeft = Post, !.skip = FALSE, !.event = None]

\* event_window_abort
Abort(w) ==
    IF w.state = "idle" /\ ~w.ready
    THEN w
    ELSE [w EXCEPT !.state = "idle", !.ready = FALSE, !.count = 0, !.maxHit = FALSE,
                   !.postLeft = Post, !.skip = FALSE, !.event = None]

\* event_window_poll_ready
Polled(w) == [w EXCEPT !.ready = FALSE, !.count = 0]

Busy(w) == w.state # "idle" \/ w.ready
Completed(w) == w.state = "post" \/ w.ready

-----------------------------------------------------------------------------
(* processor_thread_func and save_ready_event, main.c                      *)

Detector == [warm : 0..WarmUp, type : Type \cup {"none"}, dur : 0..MaxDur,
             since : [Type -> Nat]]
Window == [state : {"idle", "capturing", "post"}, ready : BOOLEAN, skip : BOOLEAN,
           event : Event, pre : 0..PreCapacity, count : 0..CaptureCapacity,
           preAtStart : 0..PreCapacity, postLeft : 0..Post, maxHit : BOOLEAN]

TypeOK ==
    /\ ad \in Detector
    /\ ew \in Window
    /\ i \in 0..BlockLen
    /\ note \in Event
    /\ saved \in [type : Type \cup {"none"}, dur : Nat, count : Nat, pre : Nat]
    /\ fate \in {"none", "saved", "discarded", "cancelled", "tooLarge"}

Init ==
    /\ ad = AdInit
    /\ ew = EwInit
    /\ i = 0
    /\ note = None
    /\ saved = [type |-> "none", dur |-> 0, count |-> 0, pre |-> 0]
    /\ fate = "none"

\* mutant of Notify: a discarded event ends its capture like any other
NotifyAbortEnds(w, n) ==
    CASE n.kind = "started" -> OnStart(w, n)
      [] n.kind \in {"completed", "aborted"} -> OnEnd(w, n)
      [] n.kind = "none" -> w

\* mutant of Notify: the end of an event does not reach the window
NotifyNoEnd(w, n) ==
    CASE n.kind = "started" -> OnStart(w, n)
      [] n.kind = "aborted" -> Abort(w)
      [] n.kind \in {"completed", "none"} -> w

\* what the window does with the detector's notification
Notify(w, n) ==
    CASE n.kind = "started" -> OnStart(w, n)
      [] n.kind = "completed" -> OnEnd(w, n)
      [] n.kind = "aborted" -> Abort(w)
      [] n.kind = "none" -> w

\* the limit on an event's length: the detector is made to end its event, or
\* the capture is closed with what the window knows
ForceEnd(a, w) ==
    IF a.type # "none"
    THEN [ad |-> Finish(a).ad, ew |-> OnEnd(w, Finish(a).note)]
    ELSE [ad |-> a, ew |-> OnEnd(w, [w.event EXCEPT !.dur = w.count - w.preAtStart])]

\* one sample through detector and window
Sample(class) ==
    LET seen == ProcessSample(ad, class)
        pushed == PushSample(Notify(ew, seen.note))
        taken == [pushed EXCEPT !.maxHit = FALSE]   \* event_window_consume_max_hit
        forced == ForceEnd(seen.ad, taken)
    IN
    /\ i < BlockLen
    /\ ad' = IF pushed.maxHit THEN forced.ad ELSE seen.ad
    /\ ew' = IF pushed.maxHit THEN forced.ew ELSE taken
    /\ i' = i + 1
    /\ note' = seen.note
    /\ fate' = IF seen.note.kind = "aborted" /\ Busy(ew)
               THEN IF Completed(ew) THEN "cancelled" ELSE "discarded"
               ELSE fate
    /\ UNCHANGED saved

\* the end of a block: save_ready_event
EndBlock ==
    /\ i = BlockLen
    /\ i' = 0
    /\ IF ~ew.ready
       THEN UNCHANGED <<ew, saved, fate>>
       ELSE /\ ew' = Polled(ew)
            /\ IF ew.count > SaveLimit
               THEN fate' = "tooLarge" /\ UNCHANGED saved
               ELSE /\ fate' = "saved"
                    /\ saved' = [type |-> ew.event.type, dur |-> ew.event.dur,
                                 count |-> ew.count, pre |-> ew.preAtStart]
    /\ UNCHANGED <<ad, note>>

Next == (\E class \in Type \cup {"normal"} : Sample(class)) \/ EndBlock

Spec == Init /\ [][Next]_vars

(* Samples keep coming and the processor thread keeps processing them.     *)
FairSpec == Spec /\ WF_vars(Next)

-----------------------------------------------------------------------------
(* Properties.                                                             *)

(* While the window captures, it is the detector's event it captures, and  *)
(* not one sample of it is missing: ignored starts and ends, forced ends   *)
(* and aborts never leave the two out of step.                             *)
InStep ==
    ew.state = "capturing" =>
        /\ ad.type = ew.event.type
        /\ ew.count = ew.preAtStart + ad.dur
        /\ ad.dur \in 1 .. MaxEvent - 1

(* A capture holds the whole event: the samples before it, each of its     *)
(* own, the one that ended it and Post more (the 128-sample margin of      *)
(* event_window_init suffices whatever the configuration).                 *)
SavedWhole ==
    saved.type # "none" => saved.count = saved.pre + saved.dur + 1 + Post

(* An event below its type's minimum duration is "started then discarded"  *)
(* (anomaly_detector.h:14), although a capture is begun before the         *)
(* duration is known and cancelled, closed or forced by different paths.   *)
(* One exception is stored below its minimum: an event forced to end at    *)
(* the limit on its length, where the configured minimum is longer than    *)
(* the limit (main.py:751-754 admits 60 s, the limit is 30 s).             *)
SavedLongEnough ==
    saved.type # "none" /\ saved.dur < MinDuration[saved.type] =>
        saved.dur = MaxEvent /\ MinDuration[saved.type] > MaxEvent

(* The limit on an event's length always finds the detector in the event,  *)
(* so that "[the] duration and extreme RMS are written" (ADR-0003:54-55)   *)
(* and the fallback of main.c:315-323 is never needed.                     *)
ForceFindsEvent ==
    \A class \in Type \cup {"normal"} :
        LET seen == ProcessSample(ad, class)
        IN  PushSample(Notify(ew, seen.note)).maxHit => seen.ad.type # "none"

(* The inductive invariant behind the three: what a detector a and a       *)
(* window w have in common between two samples.                            *)
WholeEvent(e) ==
    /\ e.type \in Type /\ e.dur \in 1..MaxEvent
    /\ e.dur >= MinDuration[e.type] \/ e.dur = MaxEvent
IdleWindow(w) ==
    /\ w.state = "idle" /\ ~w.maxHit
    /\ w.ready => /\ WholeEvent(w.event)
                  /\ w.count = w.preAtStart + w.event.dur + 1 + Post
CapturingWindow(a, w) ==
    /\ w.state = "capturing" /\ ~w.maxHit /\ ~w.ready
    /\ a.type \in Type /\ a.type = w.event.type
    /\ a.dur < MaxEvent
    /\ w.count = w.preAtStart + a.dur
PostWindow(w) ==
    /\ w.state = "post" /\ ~w.maxHit /\ ~w.ready
    /\ WholeEvent(w.event)
    /\ w.skip => w.postLeft = Post /\ w.count = w.preAtStart + w.event.dur
    /\ ~w.skip => /\ w.postLeft > 0
                  /\ w.count + w.postLeft = w.preAtStart + w.event.dur + 1 + Post
Linked(a, w) ==
    /\ a.warm > 0 => a.type = "none"
    /\ a.type \in Type => a.dur >= 1
    /\ IdleWindow(w) \/ CapturingWindow(a, w) \/ PostWindow(w)
IInv ==
    /\ TypeOK
    /\ Linked(ad, ew)
    /\ saved.type # "none" => WholeEvent(saved)
    /\ SavedWhole

(* Every capture ends, also of an anomaly that never does: the window is   *)
(* ready for the next event again and again.                               *)
CaptureEnds == []<>~Busy(ew)

-----------------------------------------------------------------------------
(* What the documents say.                                                 *)

(* "Cancel an in-progress capture without saving (short event discarded)"  *)
(* (event_window.h:55): the capture cancelled is the short event's, never  *)
(* that of an event that completed before it.                              *)
OnlyShortEventsCancelled == fate # "cancelled"
=============================================================================
