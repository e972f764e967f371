------------------------------ MODULE SpscRing ------------------------------
(***************************************************************************)
(* The lock-free ring between the reader thread (producer) and the         *)
(* processor thread (consumer) of the datalogger,                          *)
(* pika/datalogger/src/ring_buffer.c.                                      *)
(*                                                                         *)
(* Each thread's call is split at its accesses to shared memory: the       *)
(* acquire load of the other side's index (with the test that follows it), *)
(* the words of the memcpy one by one, and the release store of its own    *)
(* index.  A thread's own index is only written by itself, so its relaxed  *)
(* load is not a step of its own.  Release/acquire order makes the copied  *)
(* words visible before the index that publishes them, which is what the   *)
(* interleaving of the steps below assumes.                                *)
(***************************************************************************)
EXTENDS Naturals, Sequences

CONSTANTS
    Capacity,   \* rb->capacity: slots, one of which always stays empty
    Width,      \* rb->element_size, in words
    Word,       \* the values of a word
    Nothing     \* a pop that returned false

ASSUME CapacityAssumption == Capacity \in Nat /\ Capacity >= 2
ASSUME WidthAssumption == Width \in Nat \ {0}
ASSUME NothingAssumption == Nothing \notin [1..Width -> Word]

Slot == 0 .. Capacity - 1
Element == [1..Width -> Word]

VARIABLES
    head,       \* rb->head, the slot the consumer reads next
    tail,       \* rb->tail, the slot the producer writes next
    data,       \* rb->data
    pushAt,     \* where the producer is in ring_buffer_push
    src,        \* its argument
    copiedIn,   \* words of src already in the slot
    pushed,     \* what its last call returned
    popAt,      \* where the consumer is in ring_buffer_pop
    dest,       \* the consumer's buffer
    copiedOut,  \* words of the slot already in dest
    popped      \* what its last call returned

shared == <<head, tail, data>>
producer == <<pushAt, src, copiedIn, pushed>>
consumer == <<popAt, dest, copiedOut, popped>>
ringVars == <<shared, producer, consumer>>

RingTypeOK ==
    /\ head \in Slot
    /\ tail \in Slot
    /\ data \in [Slot -> Element]
    /\ pushAt \in {"idle", "copy", "publish"}
    /\ src \in Element
    /\ copiedIn \in 0..Width
    /\ pushed \in {"none", "ok", "full"}
    /\ popAt \in {"idle", "copy", "release"}
    /\ dest \in Element
    /\ copiedOut \in 0..Width
    /\ popped \in Element \cup {Nothing}

-----------------------------------------------------------------------------
(* Index arithmetic.                                                       *)

\* mutant of Succ: the wrap forgotten
SuccNoWrap(i) == i + 1

Succ(i) == (i + 1) % Capacity

\* ring_buffer_count of given index values
Count(h, t) == IF t >= h THEN t - h ELSE Capacity - (h - t)

\* mutant of Full: a push that never finds the ring full
NeverFull(h, t) == FALSE

\* the test of ring_buffer_push and that of ring_buffer_pop
Full(h, t) == Succ(t) = h
Empty(h, t) == h = t

\* malloc leaves the slots, and the stack the buffers, with any contents
RingInit ==
    /\ head = 0
    /\ tail = 0
    /\ data \in [Slot -> Element]
    /\ pushAt = "idle" /\ copiedIn = 0 /\ pushed = "none"
    /\ src \in Element
    /\ popAt = "idle" /\ copiedOut = 0 /\ popped = Nothing
    /\ dest \in Element

-----------------------------------------------------------------------------
(* ring_buffer_push, called by the reader thread.                          *)

\* the call, up to a return of false
PushFull(e) ==
    /\ pushAt = "idle"
    /\ Full(head, tail)
    /\ src' = e
    /\ pushed' = "full"
    /\ UNCHANGED <<shared, pushAt, copiedIn, consumer>>

\* the call, past the test for a full ring
PushBegin(e) ==
    /\ pushAt = "idle"
    /\ ~Full(head, tail)
    /\ src' = e
    /\ pushAt' = "copy"
    /\ copiedIn' = 0
    /\ UNCHANGED <<shared, pushed, consumer>>

\* mutant of PushCopy: the memcpy one word short
PushCopyShort ==
    /\ pushAt = "copy"
    /\ data' = [data EXCEPT ![tail][copiedIn + 1] = src[copiedIn + 1]]
    /\ copiedIn' = copiedIn + 1
    /\ pushAt' = IF copiedIn + 2 >= Width THEN "publish" ELSE "copy"
    /\ UNCHANGED <<head, tail, src, pushed, consumer>>

\* one word of the memcpy into the slot
PushCopy ==
    /\ pushAt = "copy"
    /\ data' = [data EXCEPT ![tail][copiedIn + 1] = src[copiedIn + 1]]
    /\ copiedIn' = copiedIn + 1
    /\ pushAt' = IF copiedIn + 1 = Width THEN "publish" ELSE "copy"
    /\ UNCHANGED <<head, tail, src, pushed, consumer>>

\* the release store of the tail, and the return of true
PushPublish ==
    /\ pushAt = "publish"
    /\ tail' = Succ(tail)
    /\ pushAt' = "idle"
    /\ pushed' = "ok"
    /\ UNCHANGED <<head, data, src, copiedIn, consumer>>

-----------------------------------------------------------------------------
(* ring_buffer_pop, called by the processor thread.                        *)

\* the call, up to a return of false
PopEmpty ==
    /\ popAt = "idle"
    /\ Empty(head, tail)
    /\ popped' = Nothing
    /\ UNCHANGED <<shared, popAt, dest, copiedOut, producer>>

\* the call, past the test for an empty ring
PopBegin ==
    /\ popAt = "idle"
    /\ ~Empty(head, tail)
    /\ popAt' = "copy"
    /\ copiedOut' = 0
    /\ UNCHANGED <<shared, dest, popped, producer>>

\* one word of the memcpy out of the slot
PopCopy ==
    /\ popAt = "copy"
    /\ dest' = [dest EXCEPT ![copiedOut + 1] = data[head][copiedOut + 1]]
    /\ copiedOut' = copiedOut + 1
    /\ popAt' = IF copiedOut + 1 = Width THEN "release" ELSE "copy"
    /\ UNCHANGED <<shared, popped, producer>>

\* mutant of PopRelease: the new head computed and not stored
PopReleaseLost ==
    /\ popAt = "release"
    /\ popAt' = "idle"
    /\ popped' = dest
    /\ UNCHANGED <<head, tail, data, dest, copiedOut, producer>>

\* the release store of the head, and the return of true
PopRelease ==
    /\ popAt = "release"
    /\ head' = Succ(head)
    /\ popAt' = "idle"
    /\ popped' = dest
    /\ UNCHANGED <<tail, data, dest, copiedOut, producer>>

-----------------------------------------------------------------------------
Producer ==
    \/ \E e \in Element : PushFull(e) \/ PushBegin(e)
    \/ PushCopy
    \/ PushPublish

Consumer == PopEmpty \/ PopBegin \/ PopCopy \/ PopRelease

RingNext == Producer \/ Consumer

RingSpec == RingInit /\ [][RingNext]_ringVars

(* The processor thread loops on ring_buffer_pop for as long as the        *)
(* process runs (main.c:249-250), and a push under way is finished: no     *)
(* fairness on starting a push.                                            *)
FairRingSpec ==
    /\ RingSpec
    /\ WF_ringVars(Consumer)
    /\ WF_ringVars(PushCopy \/ PushPublish)

-----------------------------------------------------------------------------
(* Properties.                                                             *)

(* The two memcpys of ring_buffer.c:36 and :51 never touch the same slot   *)
(* at once: the slot of an unpublished push is not the one being read.     *)
NoSlotRace ==
    ~(pushAt # "idle" /\ popAt # "idle" /\ head = tail)

(* The inductive invariant: why the two threads never meet in a slot, and  *)
(* what each memcpy has copied so far.                                     *)
RoomInv == pushAt # "idle" => ~Full(head, tail)
ItemInv == popAt # "idle" => ~Empty(head, tail)
CopyInInv ==
    /\ pushAt = "copy" => copiedIn < Width
    /\ pushAt = "publish" => copiedIn = Width
    /\ pushAt # "idle" => \A w \in 1..copiedIn : data[tail][w] = src[w]
CopyOutInv ==
    /\ popAt = "copy" => copiedOut < Width
    /\ popAt = "release" => copiedOut = Width
    /\ popAt # "idle" => \A w \in 1..copiedOut : dest[w] = data[head][w]
RingInv == RingTypeOK /\ RoomInv /\ ItemInv /\ CopyInInv /\ CopyOutInv

(* What the ring holds, oldest first: the slots from head up to tail.      *)
At(h, i) == (h + i - 1) % Capacity
queue == [i \in 1..Count(head, tail) |-> data[At(head, i)]]

Fifo == INSTANCE BoundedFifo WITH Room <- Capacity - 1,
                                  pushing <- pushAt # "idle"

(* The ring is a bounded queue: the very elements given to ring_buffer_push*)
(* are popped, whole, each once and in that order; a push is refused only  *)
(* of a ring with Capacity - 1 elements, a pop only of an empty one.       *)
ImplementsFifo == Fifo!Spec

(* An element in the ring is popped in the end, however the producer is    *)
(* scheduled: what the processor thread's polling loop relies on.          *)
ElementsArePopped ==
    \A h \in Slot : (head = h /\ ~Empty(head, tail)) ~> (head = Succ(h))
=============================================================================
