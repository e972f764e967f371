------------------------------ MODULE PruRing ------------------------------
(***************************************************************************)
(* The sample ring in the PRU's Shared RAM: the firmware's acquisition     *)
(* loop that fills it (pika/pru/src/pru_main.c) and the reader thread of   *)
(* the datalogger that empties it (shm_reader_poll in                      *)
(* pika/datalogger/src/shm_reader.c, reader_thread_func in main.c).        *)
(*                                                                         *)
(* The two run on different processors and share no lock: every store of   *)
(* the firmware to a descriptor field, to a sample and to the header, and  *)
(* every load of the reader that its decisions rest on, is a step.  The    *)
(* firmware never waits for the reader.                                    *)
(*                                                                         *)
(* A sample (one frame of eight channels) is represented by the number of  *)
(* the block it was taken for, 1 being the first since the firmware        *)
(* started and 0 whatever the memory held before.                          *)
(***************************************************************************)
EXTENDS Integers, Sequences

CONSTANTS
    NumBlocks,      \* header->num_blocks
    BlockSize,      \* header->block_size
    CountMod,       \* sample_count overflows after this many blocks
    Period,         \* sample_period_cycles, in cycles; 0 is free run
    MinWork,        \* what a conversion and its reading take, in cycles,
    MaxWork,        \* at least and at most
    MaxLoop,        \* what the loop takes outside the time it measures, at most,
    MaxPublish,     \* and what it takes when it publishes a block as well
    TimeoutCycles,  \* what a failed conversion takes
    CcntMax,        \* the PRU cycle counter saturates here
    MaxBlocks,      \* bound: blocks acquired
    MaxTimeouts     \* bound: failed conversions

ASSUME GeometryAssumption ==
    /\ NumBlocks \in Nat \ {0}
    /\ BlockSize \in Nat \ {0}
    /\ CountMod \in Nat
    /\ CountMod > NumBlocks
    /\ CountMod % NumBlocks = 0
ASSUME TimeAssumption ==
    /\ Period \in Nat
    /\ MinWork \in Nat /\ MaxWork \in Nat /\ MinWork <= MaxWork
    /\ MaxLoop \in Nat /\ MaxPublish \in Nat /\ MaxLoop <= MaxPublish
    /\ TimeoutCycles \in Nat
    /\ CcntMax \in Nat
ASSUME BoundAssumption == MaxBlocks \in Nat \ {0} /\ MaxTimeouts \in Nat

Blk == 0 .. NumBlocks - 1
SampleIdx == 1..BlockSize
Gen == 0..MaxBlocks
Unset == -1     \* UINT32_MAX in last_completed_blocks

VARIABLES
    (* Shared RAM *)
    desc,           \* the descriptor of each ring slot
    samples,        \* the payload of each ring slot
    sampleCount,    \* header->sample_count, in samples
    writeIdx,       \* header->write_block_idx
    errorFlags,     \* header->error_flags is non-zero
    (* the firmware *)
    pruAt,          \* where its loop is
    smp,            \* smp_in_blk
    now,            \* time, in PRU cycles
    (* the reader thread *)
    readAt,         \* where it is
    last,           \* last_completed_blocks
    next,           \* next_completed_blocks of the poll under way
    size,           \* data_size, in samples
    buf,            \* temp_buf
    copied,         \* samples already copied into it
    nextCycles,     \* next_block_cycles, or Unset before have_block_time
    taken,          \* the blocks handed to ring_buffer_push so far
    (* what happened, for the properties *)
    gen,            \* the block being filled
    began,          \* when each block's first conversion was triggered
    timeouts,       \* failed conversions
    lapped          \* a slot was reused before the reader was done with it

header == <<sampleCount, writeIdx, errorFlags>>
pru == <<pruAt, smp, now>>
reader == <<readAt, last, next, size, buf, copied, nextCycles, taken>>
ghosts == <<gen, began, timeouts, lapped>>
vars == <<desc, samples, header, pru, reader, ghosts>>

Descriptor == [ts : Nat, num : 0..BlockSize, complete : BOOLEAN, period : {0, Period}]
Payload == [SampleIdx -> Gen]

TypeOK ==
    /\ desc \in [Blk -> Descriptor]
    /\ samples \in [Blk -> Payload]
    /\ sampleCount \in 0 .. CountMod * BlockSize - 1
    /\ writeIdx \in Blk
    /\ errorFlags \in BOOLEAN
    /\ pruAt \in {"trigger", "clearNum", "clearFlags", "store", "setNum",
                  "setFlags", "setIndex", "setCount"}
    /\ smp \in 0..BlockSize
    /\ now \in Nat
    /\ readAt \in {"idle", "flags", "num", "size", "desc", "data", "push"}
    /\ last \in 0 .. CountMod - 1 \cup {Unset}
    /\ next \in 0..CountMod
    /\ size \in 0..BlockSize
    /\ buf \in [desc : Descriptor, data : Payload]
    /\ copied \in 0..BlockSize
    /\ nextCycles \in Nat \cup {Unset}
    /\ taken \in Seq([stamp : Nat, num : 0..BlockSize, data : Payload])
    /\ gen \in 1 .. MaxBlocks + 1
    /\ began \in [1..MaxBlocks -> Nat]
    /\ timeouts \in 0..MaxTimeouts
    /\ lapped \in BOOLEAN

-----------------------------------------------------------------------------
(* The firmware has published its header (pru_main.c:60-113).  It cleared  *)
(* slot 0 only: another slot may still hold a complete block of an earlier *)
(* run.                                                                    *)

ClearDesc == [ts |-> 0, num |-> 0, complete |-> FALSE, period |-> 0]
OldDesc == [ts |-> 0, num |-> BlockSize, complete |-> TRUE, period |-> Period]
OldData == [i \in SampleIdx |-> 0]

Init ==
    /\ desc \in {d \in [Blk -> {ClearDesc, OldDesc}] : d[0] = ClearDesc}
    /\ samples = [b \in Blk |-> OldData]
    /\ sampleCount = 0 /\ writeIdx = 0 /\ errorFlags = FALSE
    /\ pruAt = "trigger" /\ smp = 0 /\ now = 0
    /\ readAt = "idle" /\ last = Unset /\ next = 0 /\ size = 0 /\ copied = 0
    /\ buf = [desc |-> ClearDesc, data |-> OldData]
    /\ nextCycles = Unset
    /\ taken = <<>>
    /\ gen = 1 /\ began = [g \in 1..MaxBlocks |-> 0]
    /\ timeouts = 0 /\ lapped = FALSE

-----------------------------------------------------------------------------
(* What both sides compute.                                                *)

Completed == sampleCount \div BlockSize
\* mutant of SlotOf: the slot after the block's
SlotOfNext(n) == n % NumBlocks

SlotOf(n) == (n - 1) % NumBlocks

\* published blocks the reader still wants, the one it is copying included
Pending == IF last = Unset THEN 0 ELSE (Completed - last) % CountMod
Copying == readAt \in {"size", "desc", "data"}
Held == Pending + (IF Copying THEN 1 ELSE 0)

-----------------------------------------------------------------------------
(* The firmware's loop, pru_main.c:126-231.                                *)

\* ccnt_read: the cycle counter, which saturates
Ccnt(t) == IF t < CcntMax THEN t ELSE CcntMax

\* mutant of Delay: the remaining cycles taken for turns of the delay loop
DelayTurns(elapsed) == IF elapsed < Period THEN 2 * (Period - elapsed) ELSE 0

\* the cycles waited after a sample: delay_cycles_runtime takes two a turn
Delay(elapsed) == IF elapsed < Period THEN 2 * ((Period - elapsed) \div 2) ELSE 0

\* one sample, from its conversion to the start of the next: only what lies
\* between the two reads of the counter is measured
SampleTime ==
    \E work \in MinWork..MaxWork,
       over \in 0 .. (IF smp + 1 < BlockSize THEN MaxLoop ELSE MaxPublish) :
        now' = now + work + Delay(Ccnt(now + work) - Ccnt(now)) + over

\* adc_trigger_and_wait succeeds
Trigger ==
    /\ pruAt = "trigger"
    /\ gen <= MaxBlocks
    /\ pruAt' = IF smp = 0 THEN "clearNum" ELSE "store"
    /\ UNCHANGED <<desc, samples, header, smp, now, reader, ghosts>>

\* adc_trigger_and_wait finds BUSY stuck: the error is flagged and the loop
\* goes on
Timeout ==
    /\ pruAt = "trigger"
    /\ gen <= MaxBlocks
    /\ timeouts < MaxTimeouts
    /\ errorFlags' = TRUE
    /\ timeouts' = timeouts + 1
    /\ now' = now + TimeoutCycles
    /\ UNCHANGED <<desc, samples, sampleCount, writeIdx, pruAt, smp, reader,
                   gen, began, lapped>>

\* the first sample of a block: the time stamp and num_samples
ClearNum ==
    /\ pruAt = "clearNum"
    /\ desc' = [desc EXCEPT ![writeIdx].ts = Ccnt(now),
                            ![writeIdx].num = 0]
    /\ pruAt' = "clearFlags"
    /\ began' = [began EXCEPT ![gen] = now]
    /\ lapped' = (lapped \/ Held >= NumBlocks)
    /\ UNCHANGED <<samples, header, smp, now, reader, gen, timeouts>>

\* flags and period_cycles
ClearFlags ==
    /\ pruAt = "clearFlags"
    /\ desc' = [desc EXCEPT ![writeIdx].complete = FALSE, ![writeIdx].period = 0]
    /\ pruAt' = "store"
    /\ UNCHANGED <<samples, header, smp, now, reader, ghosts>>

\* mutant of Store: the block is closed one sample early
StoreShort ==
    /\ pruAt = "store"
    /\ samples' = [samples EXCEPT ![writeIdx][smp + 1] = gen]
    /\ smp' = smp + 1
    /\ SampleTime
    /\ pruAt' = IF smp + 2 >= BlockSize THEN "setNum" ELSE "trigger"
    /\ UNCHANGED <<desc, header, reader, ghosts>>

\* the channels of one sample, and the pacing delay
Store ==
    /\ pruAt = "store"
    /\ samples' = [samples EXCEPT ![writeIdx][smp + 1] = gen]
    /\ smp' = smp + 1
    /\ SampleTime
    /\ pruAt' = IF smp + 1 >= BlockSize THEN "setNum" ELSE "trigger"
    /\ UNCHANGED <<desc, header, reader, ghosts>>

SetNum ==
    /\ pruAt = "setNum"
    /\ desc' = [desc EXCEPT ![writeIdx].period = Period, ![writeIdx].num = smp]
    /\ pruAt' = "setFlags"
    /\ UNCHANGED <<samples, header, smp, now, reader, ghosts>>

SetFlags ==
    /\ pruAt = "setFlags"
    /\ desc' = [desc EXCEPT ![writeIdx].complete = TRUE]
    /\ pruAt' = "setIndex"
    /\ UNCHANGED <<samples, header, smp, now, reader, ghosts>>

\* mutant of SetIndex: the index goes one slot too far
SetIndexFar ==
    /\ pruAt = "setIndex"
    /\ writeIdx' = IF writeIdx >= NumBlocks THEN 0 ELSE writeIdx + 1
    /\ smp' = 0
    /\ pruAt' = "setCount"
    /\ UNCHANGED <<desc, samples, sampleCount, errorFlags, now, reader, ghosts>>

SetIndex ==
    /\ pruAt = "setIndex"
    /\ writeIdx' = IF writeIdx + 1 >= NumBlocks THEN 0 ELSE writeIdx + 1
    /\ smp' = 0
    /\ pruAt' = "setCount"
    /\ UNCHANGED <<desc, samples, sampleCount, errorFlags, now, reader, ghosts>>

\* only now is the block announced to the reader
SetCount ==
    /\ pruAt = "setCount"
    /\ sampleCount' = (sampleCount + BlockSize) % (CountMod * BlockSize)
    /\ gen' = gen + 1
    /\ pruAt' = "trigger"
    /\ UNCHANGED <<desc, samples, writeIdx, errorFlags, smp, now, reader,
                   began, timeouts, lapped>>

Pru == Trigger \/ Timeout \/ ClearNum \/ ClearFlags \/ Store
          \/ SetNum \/ SetFlags \/ SetIndex \/ SetCount

-----------------------------------------------------------------------------
(* shm_reader_poll, up to the test of the descriptor: one read of          *)
(* sample_count decides (shm_reader.c:358-416).                            *)

\* the first poll only notes where the firmware is
PollFirst ==
    /\ readAt = "idle"
    /\ last = Unset
    /\ last' = Completed
    /\ UNCHANGED <<desc, samples, header, pru, readAt, next, size, buf, copied,
                   nextCycles, taken, ghosts>>

\* nothing new: NULL, and the thread sleeps
PollNothing ==
    /\ readAt = "idle"
    /\ Completed = last
    /\ UNCHANGED vars

\* the count went back: adopt it, skipping what is in the ring
PollResync ==
    /\ readAt = "idle"
    /\ last # Unset
    /\ Completed < last
    /\ last' = Completed
    /\ UNCHANGED <<desc, samples, header, pru, readAt, next, size, buf, copied,
                   nextCycles, taken, ghosts>>

\* mutant of PollReady: a full ring is taken for an overrun
PollReadyEager ==
    /\ readAt = "idle"
    /\ last # Unset
    /\ Completed > last
    /\ IF Completed - last >= NumBlocks
       THEN last' = Completed - 1 /\ next' = Completed
       ELSE last' = last /\ next' = last + 1
    /\ readAt' = "flags"
    /\ UNCHANGED <<desc, samples, header, pru, size, buf, copied, nextCycles,
                   taken, ghosts>>

\* the next block, or the latest when more are pending than the ring holds
PollReady ==
    /\ readAt = "idle"
    /\ last # Unset
    /\ Completed > last
    /\ IF Completed - last > NumBlocks
       THEN last' = Completed - 1 /\ next' = Completed
       ELSE last' = last /\ next' = last + 1
    /\ readAt' = "flags"
    /\ UNCHANGED <<desc, samples, header, pru, size, buf, copied, nextCycles,
                   taken, ghosts>>

(* The descriptor's tests (shm_reader.c:433-455), and the reader thread's  *)
(* copy of the block and its stamp (main.c:64-92).                         *)

\* mutant of CheckFlags: the test inverted
CheckFlagsInverted ==
    /\ readAt = "flags"
    /\ readAt' = IF desc[SlotOf(next)].complete THEN "idle" ELSE "num"
    /\ UNCHANGED <<desc, samples, header, pru, last, next, size, buf, copied,
                   nextCycles, taken, ghosts>>

CheckFlags ==
    /\ readAt = "flags"
    /\ readAt' = IF desc[SlotOf(next)].complete THEN "num" ELSE "idle"
    /\ UNCHANGED <<desc, samples, header, pru, last, next, size, buf, copied,
                   nextCycles, taken, ghosts>>

\* mutant of CheckNum: the block accepted is not noted in last
CheckNumUncommitted ==
    /\ readAt = "num"
    /\ IF desc[SlotOf(next)].num \in 1..BlockSize
       THEN readAt' = "size"
       ELSE readAt' = "idle"
    /\ UNCHANGED <<desc, samples, header, pru, last, next, size, buf, copied,
                   nextCycles, taken, ghosts>>

CheckNum ==
    /\ readAt = "num"
    /\ IF desc[SlotOf(next)].num \in 1..BlockSize
       THEN readAt' = "size" /\ last' = next
       ELSE readAt' = "idle" /\ last' = last
    /\ UNCHANGED <<desc, samples, header, pru, next, size, buf, copied,
                   nextCycles, taken, ghosts>>

ReadSize ==
    /\ readAt = "size"
    /\ size' = desc[SlotOf(next)].num
    /\ readAt' = "desc"
    /\ UNCHANGED <<desc, samples, header, pru, last, next, buf, copied,
                   nextCycles, taken, ghosts>>

CopyDesc ==
    /\ readAt = "desc"
    /\ buf' = [buf EXCEPT !.desc = desc[SlotOf(next)]]
    /\ copied' = 0
    /\ readAt' = IF size = 0 THEN "push" ELSE "data"
    /\ UNCHANGED <<desc, samples, header, pru, last, next, size, nextCycles,
                   taken, ghosts>>

CopySample ==
    /\ readAt = "data"
    /\ buf' = [buf EXCEPT !.data[copied + 1] = samples[SlotOf(next)][copied + 1]]
    /\ copied' = copied + 1
    /\ readAt' = IF copied + 1 = size THEN "push" ELSE "data"
    /\ UNCHANGED <<desc, samples, header, pru, last, next, size, nextCycles,
                   taken, ghosts>>

\* the stamp of the block: the first one's cycle count, then what the blocks
\* taken since amount to
Stamp == IF nextCycles = Unset THEN buf.desc.ts ELSE nextCycles

\* ring_buffer_push; what it returns changes nothing here
Push ==
    /\ readAt = "push"
    /\ taken' = Append(taken, [stamp |-> Stamp, num |-> buf.desc.num, data |-> buf.data])
    /\ nextCycles' = Stamp + buf.desc.num * buf.desc.period
    /\ readAt' = "idle"
    /\ UNCHANGED <<desc, samples, header, pru, last, next, size, buf, copied, ghosts>>

Reader == PollFirst \/ PollNothing \/ PollResync \/ PollReady \/ CheckFlags
            \/ CheckNum \/ ReadSize \/ CopyDesc \/ CopySample \/ Push

Next == Pru \/ Reader

Spec == Init /\ [][Next]_vars

(* The reader thread loops for as long as the process runs, the firmware   *)
(* for ever; a conversion need not ever succeed again.                     *)
FairSpec ==
    /\ Spec
    /\ WF_vars(Reader)
    /\ WF_vars(ClearNum \/ ClearFlags \/ Store \/ SetNum \/ SetFlags \/ SetIndex \/ SetCount)

-----------------------------------------------------------------------------
(* Properties.                                                             *)

Whole(data) == \A i \in SampleIdx : data[i] = data[1]
Wrapped == gen > CountMod
BlockOf(b) == b.data[1]
Intact(b) == b.num = BlockSize /\ Whole(b.data) /\ BlockOf(b) # 0
Rising == \A i \in 2..Len(taken) : BlockOf(taken[i]) > BlockOf(taken[i - 1])

(* A slot that passes both tests of shm_reader_poll holds one whole block, *)
(* at any moment: the order of the stores in pru_main.c:154-222 never lets *)
(* a complete descriptor stand over a payload under construction.          *)
CompleteMeansWhole ==
    \A b \in Blk : desc[b].complete /\ desc[b].num # 0 =>
        desc[b].num = BlockSize /\ Whole(samples[b])

(* As long as the reader is done with a slot before the firmware comes     *)
(* round to it, every block it takes is one the firmware took, whole.      *)
TakenWholeUnlessLapped ==
    ~lapped => \A i \in DOMAIN taken : Intact(taken[i])

(* ... and it takes each block once, in order, without a gap, up to the    *)
(* overflow of sample_count.                                               *)
NoGapUnlessLapped ==
    ~lapped /\ ~Wrapped =>
        \A i \in 2..Len(taken) : BlockOf(taken[i]) = BlockOf(taken[i - 1]) + 1

(* ... and never an old block again, even across the overflow.             *)
RisingUnlessLapped == ~lapped => Rising

(* The time line the reader thread builds from num_samples * period_cycles *)
(* (main.c:75-81) against the time the samples were taken at: it runs      *)
(* ahead of it by a cycle per sample at most, the one that the halving of  *)
(* the delay loses, and behind by what the loop takes outside the time it  *)
(* measures and by failed conversions.  Once the counter has saturated the *)
(* firmware measures nothing and waits the whole period after the work;    *)
(* where the work does not fit the period, in free run above all, it is    *)
(* not made up for: the time line falls behind by the work as well.        *)
Slack == IF MaxWork <= Period /\ now <= CcntMax THEN MaxPublish ELSE MaxWork + MaxPublish
InPace(n, behind) == -n <= behind /\ behind <= n * Slack + timeouts * TimeoutCycles
KeepsPace ==
    \A i \in DOMAIN taken :
        LET first == taken[1]
            real == began[BlockOf(taken[i])] - began[BlockOf(first)]
        IN InPace((BlockOf(taken[i]) - BlockOf(first)) * BlockSize,
                  real - (taken[i].stamp - first.stamp))
KeepsPaceUnlessLost == ~lapped /\ ~Wrapped => KeepsPace

(* A block published after the reader's first poll is taken in the end, if *)
(* the firmware never laps the reader and the count has not overflowed: no *)
(* poll leaves it stuck.                                                   *)
Takes(g) == \E i \in DOMAIN taken : BlockOf(taken[i]) = g
PublishedIsTaken ==
    \A g \in 1..MaxBlocks :
        (last # Unset /\ last < g /\ gen > g) ~> (Takes(g) \/ lapped \/ Wrapped)
=============================================================================
