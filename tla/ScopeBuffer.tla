---------------------------- MODULE ScopeBuffer ----------------------------
(***************************************************************************)
(* The buffer of live samples in shared memory: written by the datalogger  *)
(* (pika/datalogger/src/scope_buffer.c), read without a lock by the web    *)
(* application for the oscilloscope (shared_memory.py) and for the health  *)
(* of the datalogger (get_health_snapshot in main.py).                     *)
(*                                                                         *)
(* A sample is its number and the run of the datalogger it belongs to.     *)
(* total_samples has 64 bits on a 32-bit processor, so that its two words  *)
(* are stored and loaded one after the other.  The processor has a single  *)
(* core; steps of the two processes interleave but are not reordered.      *)
(***************************************************************************)
EXTENDS Integers, Sequences, FiniteSetsExt, Functions

CONSTANTS
    Capacity,       \* SCOPE_CAPACITY
    Word,           \* values of a word of total_samples, 2^32
    Blocks,         \* sizes of blocks pushed
    Windows,        \* numbers of samples a page asks for
    MaxPoints,      \* points sent to a page, 2000
    Timeout,        \* _scope_liveness_timeout_s at the rate in use
    MaxSamples, MaxRuns, MaxTime    \* bounds

ASSUME ScopeAssumption ==
    /\ Capacity \in Nat \ {0} /\ Word \in Nat \ {0} /\ Word % Capacity = 0
    /\ Blocks \subseteq 1..Capacity /\ Windows \subseteq Nat \ {0}
    /\ MaxPoints \in Nat \ {0} /\ Timeout \in Nat \ {0}
    /\ MaxSamples \in Nat /\ MaxRuns \in Nat /\ MaxTime \in Nat

VARIABLES
    data, lo, hi,   \* the shared memory: samples, words of total_samples
    run, alive,     \* runs of the datalogger so far, whether one is on
    wr,             \* its scope_buffer_push: [pc, block, done]
    count,          \* samples published in this run
    connected,      \* the web application has the memory mapped
    rd,             \* its get_window
    now, pushed,    \* the time, and when samples were last published
    health          \* what get_health_snapshot keeps and last told

scopeVars == <<data, lo, hi>>
writerVars == <<run, alive, wr, count, pushed>>
vars == <<data, lo, hi, run, alive, wr, count, connected, rd, now, pushed, health>>

Never == -1
Sample == [run : 0..MaxRuns, n : 0..MaxSamples]
NoHealth == [total |-> Never, at |-> Never, told |-> FALSE, first |-> Never, polled |-> Never,
             gap |-> 0, pushed |-> Never, run |-> 0, atRun |-> 0, seen |-> 0, far |-> FALSE]
Resting == [pc |-> "rest"]

TypeOK ==
    /\ data \in [0..Capacity - 1 -> Sample]
    /\ lo \in 0..Word - 1 /\ hi \in Nat
    /\ run \in 0..MaxRuns /\ alive \in BOOLEAN /\ count \in 0..MaxSamples
    /\ wr.pc \in {"rest", "copy", "low", "high"}
    /\ wr.pc # "rest" => wr.block \in Blocks /\ wr.done \in 0..wr.block
    /\ wr.pc # "high" => hi * Word + lo = count
    /\ connected \in BOOLEAN /\ now \in 0..MaxTime /\ pushed \in Never..now

Init ==
    /\ data = [i \in 0..Capacity - 1 |-> [run |-> 0, n |-> 0]]
    /\ lo = 0 /\ hi = 0 /\ run = 0 /\ alive = FALSE /\ wr = Resting /\ count = 0
    /\ connected = FALSE /\ rd = Resting
    /\ now = 0 /\ pushed = Never /\ health = NoHealth

-----------------------------------------------------------------------------
(* The datalogger.                                                         *)

(* scope_buffer_init: the memory is created or kept, the total is reset and
   the samples of an earlier run stay.                                     *)
Start ==
    /\ ~alive /\ run < MaxRuns
    /\ alive' = TRUE /\ run' = run + 1 /\ count' = 0
    /\ lo' = 0 /\ hi' = 0
    /\ UNCHANGED <<data, wr, connected, rd, now, pushed, health>>

Stop ==
    /\ alive
    /\ alive' = FALSE /\ wr' = Resting
    /\ lo' = lo /\ hi' = IF wr.pc = "high" THEN hi + 1 ELSE hi
    /\ UNCHANGED <<data, run, count, connected, rd, now, pushed, health>>

Push(block) ==
    /\ alive /\ wr.pc = "rest"
    /\ count + block <= MaxSamples
    /\ wr' = [pc |-> "copy", block |-> block, done |-> 0]
    /\ UNCHANGED <<scopeVars, run, alive, count, connected, rd, now, pushed, health>>

(* scope_buffer_push copies a sample, on one side of the wrap or the other. *)
Place(n) == (n - 1) % Capacity
Copy ==
    LET n == count + wr.done + 1
    IN  /\ wr.pc = "copy"
        /\ data' = [data EXCEPT ![Place(n)] = [run |-> run, n |-> n]]
        /\ wr' = [wr EXCEPT !.done = @ + 1, !.pc = IF wr.done + 1 = wr.block THEN "low" ELSE "copy"]
        /\ UNCHANGED <<lo, hi, run, alive, count, connected, rd, now, pushed, health>>

\* mutant of StoreLow: the carry is lost
StoreLowOnly ==
    /\ wr.pc = "low"
    /\ lo' = (lo + wr.block) % Word
    /\ wr' = Resting
    /\ count' = count + wr.block
    /\ pushed' = now
    /\ UNCHANGED <<data, hi, run, alive, connected, rd, now, health>>

(* total_samples += num_samples_per_channel: the low word, and on a carry
   the high word after it.                                                 *)
StoreLow ==
    /\ wr.pc = "low"
    /\ lo' = (lo + wr.block) % Word
    /\ wr' = IF lo + wr.block >= Word THEN [wr EXCEPT !.pc = "high"] ELSE Resting
    /\ count' = count + wr.block
    /\ pushed' = now
    /\ UNCHANGED <<data, hi, run, alive, connected, rd, now, health>>

StoreHigh ==
    /\ wr.pc = "high"
    /\ hi' = hi + 1
    /\ wr' = Resting
    /\ UNCHANGED <<data, lo, run, alive, count, connected, rd, now, pushed, health>>

-----------------------------------------------------------------------------
(* The oscilloscope.                                                       *)

(* connect: at the start of the web application, and by get_window as long
   as there was no memory to map.                                          *)
Connect ==
    /\ ~connected /\ run > 0
    /\ connected' = TRUE
    /\ UNCHANGED <<scopeVars, writerVars, rd, now, health>>

(* get_window loads the words of the total in either order; since and run
   tell what was published when it began, and by which run.                *)
LoadWord(window) ==
    /\ connected /\ rd.pc = "rest"
    /\ \E first \in {"lo", "hi"} :
          rd' = [pc |-> "load", window |-> window, first |-> first,
                 word |-> IF first = "lo" THEN lo ELSE hi, since |-> count, run |-> run]
    /\ UNCHANGED <<scopeVars, writerVars, connected, now, health>>

\* mutant of Requested: samples that have not arrived are read as well
RequestedAll(window, total) == Min({window, Capacity})

(* The samples asked for, those that fit and those that there are.         *)
Requested(window, total) == Min({window, Capacity, total})

LoadOther ==
    LET total == IF rd.first = "lo" THEN hi * Word + rd.word ELSE rd.word * Word + lo
        req == Requested(rd.window, total)
        head == total % Capacity
        order == [i \in 1..req |-> (head - req + Capacity + i - 1) % Capacity]
    IN  /\ rd.pc = "load"
        /\ rd' = IF total = 0 THEN Resting
                 ELSE [pc |-> "copy", window |-> rd.window, since |-> rd.since, run |-> rd.run,
                       until |-> count, order |-> order, got |-> <<>>]
        /\ UNCHANGED <<scopeVars, writerVars, connected, now, health>>

(* The slices data_view[...], sample by sample.                            *)
Slice ==
    /\ rd.pc = "copy" /\ Len(rd.got) < Len(rd.order)
    /\ rd' = [rd EXCEPT !.got = Append(@, data[rd.order[Len(@) + 1]])]
    /\ UNCHANGED <<scopeVars, writerVars, connected, now, health>>

(* What is sent: every stride-th sample.                                   *)
Strided(got) ==
    LET stride == IF Len(got) > MaxPoints THEN Len(got) \div MaxPoints ELSE 1
    IN  [i \in 1..(Len(got) + stride - 1) \div stride |-> got[(i - 1) * stride + 1]]

Sending == rd.pc = "copy" /\ Len(rd.got) = Len(rd.order)
Send ==
    /\ Sending
    /\ rd' = Resting
    /\ UNCHANGED <<scopeVars, writerVars, connected, now, health>>

-----------------------------------------------------------------------------
(* The health of the datalogger.                                           *)

(* _scope_liveness_timeout_s, in ms, for blocks of 128 samples: a block may
   take 12.8 s to fill.                                                    *)
LivenessTimeoutMs(rate) ==
    IF rate <= 0 THEN 30000 ELSE Max({15000, 320000 \div rate + 5000})

\* mutant of Looked: the time of the last progress is not kept
LookedAlways(total) ==
    LET gap == IF health.polled = Never THEN 0 ELSE now - health.polled
    IN  [total |-> total, at |-> now, told |-> total > 0,
         first |-> IF health.first = Never THEN now ELSE health.first,
         polled |-> now, gap |-> Max({health.gap, gap}), pushed |-> pushed,
         run |-> run, atRun |-> run, seen |-> count, far |-> FALSE]

(* get_health_snapshot: running if the total moved at a look that is not
   older than the timeout.  What follows first is noted for the property
   only: looks, the longest pause between two, runs, and whether a word of
   samples came since the last look that saw the total move.               *)
Looked(total) ==
    LET moved == health.total # total
        gap == IF health.polled = Never THEN 0 ELSE now - health.polled
        at == IF moved THEN now ELSE health.at
        seen == IF moved THEN count ELSE health.seen
    IN  [total |-> total, at |-> at, told |-> total > 0 /\ now - at < Timeout,
         first |-> IF health.first = Never THEN now ELSE health.first,
         polled |-> now, gap |-> Max({health.gap, gap}), pushed |-> pushed,
         run |-> run, atRun |-> IF moved THEN run ELSE health.atRun,
         seen |-> seen, far |-> count - seen >= Word]

(* The handlers run one at a time, so never within a get_window.           *)
Look ==
    /\ connected /\ rd.pc = "rest"
    /\ health' = Looked(hi * Word + lo)
    /\ UNCHANGED <<scopeVars, writerVars, connected, rd, now>>

(* The web application is restarted and forgets.                           *)
Forget ==
    /\ connected /\ rd.pc = "rest"
    /\ connected' = FALSE /\ health' = NoHealth
    /\ UNCHANGED <<scopeVars, writerVars, rd, now>>

(* Time passes, but not between the stores of the two words.               *)
Tick ==
    /\ now < MaxTime /\ wr.pc # "high"
    /\ now' = now + 1
    /\ UNCHANGED <<scopeVars, writerVars, connected, rd, health>>

Next ==
    \/ Start \/ Stop \/ (\E block \in Blocks : Push(block))
    \/ Copy \/ StoreLow \/ StoreHigh
    \/ Connect \/ (\E window \in Windows : LoadWord(window))
    \/ LoadOther \/ Slice \/ Send
    \/ Look \/ Forget \/ Tick

Spec == Init /\ [][Next]_vars

-----------------------------------------------------------------------------
(* What must hold.                                                         *)

(* A page is sent samples that were taken one after the other, up to a total
   published while it read it, also where the two words of the total do not
   belong together; all it asked for as long as the low word has not wrapped.
   Only when the writer comes round to what is read, or is restarted, may
   samples be mixed (get_window, scope_buffer_push).                       *)
WindowWhole ==
    LET req == Len(rd.order)
        lapped == \E s \in Range(data) : s.run = run /\ s.n > rd.since - req + Capacity
    IN  Sending /\ rd.run = run /\ ~lapped =>
            \E last \in rd.since..rd.until :
                /\ Strided(rd.got) = Strided([i \in 1..req |-> [run |-> run, n |-> last - req + i]])
                /\ count < Word => req = Min({rd.window, Capacity, last})

(* A datalogger that was seen to move is not called running for longer than
   the timeout and the longest pause between two looks after its last
   samples; and what is called not running has sent none for the timeout,
   unless it came to the same total again: after a restart, or where a word
   of samples passed without a look and its carry is still to be stored
   (get_health_snapshot).                                                  *)
HealthTells ==
    LET silent == health.polled - health.pushed
    IN  /\ health.told /\ health.at # health.first => silent < Timeout + health.gap
        /\ ~health.told /\ health.total > 0 /\ health.run = health.atRun /\ ~health.far =>
              silent >= Timeout
=============================================================================
