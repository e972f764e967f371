--------------------------- MODULE ProcessorProofs ---------------------------
(***************************************************************************)
(* The two parts the processor thread of the datalogger rests on: the ring *)
(* it takes the blocks of samples from, and the detector and window it     *)
(* gives every sample to.                                                  *)
(*                                                                         *)
(* SpscRing, for every capacity and element size: the two threads never    *)
(* touch one slot at once, and the ring implements the bounded FIFO.       *)
(*                                                                         *)
(* EventCapture, for every configuration: the window never captures        *)
(* anything but the detector's current event, no capture is ever           *)
(* truncated, and what is saved is a whole event with its surroundings.    *)
(***************************************************************************)
EXTENDS SpscRing, EventCapture, SequenceTheorems, TLAPS


-----------------------------------------------------------------------------
(* Index arithmetic.                                                       *)

(* The wrapping increment of an index stays in the ring.                   *)
LEMMA SuccFact ==
    ASSUME NEW j \in Slot
    PROVE  /\ Succ(j) \in Slot
           /\ Succ(j) = IF j + 1 = Capacity THEN 0 ELSE j + 1
<1>1. j \in Nat /\ j < Capacity /\ j + 1 <= Capacity
  BY CapacityAssumption DEF Slot
<1>2. (j + 1) % Capacity = IF j + 1 < Capacity THEN j + 1 ELSE j + 1 - Capacity
  BY <1>1, CapacityAssumption
<1>. QED BY <1>1, <1>2, CapacityAssumption DEF Slot, Succ

(* How a push and a pop change the number of elements.                     *)
LEMMA CountFact ==
    ASSUME NEW h \in Slot, NEW t \in Slot
    PROVE  /\ Count(h, t) \in 0 .. Capacity - 1
           /\ Count(h, t) = 0 <=> Empty(h, t)
           /\ Count(h, t) = Capacity - 1 <=> Full(h, t)
           /\ ~Full(h, t) => Count(h, Succ(t)) = Count(h, t) + 1
           /\ ~Empty(h, t) => Count(Succ(h), t) = Count(h, t) - 1
<1>1. /\ h \in Nat /\ h < Capacity
      /\ t \in Nat /\ t < Capacity
      /\ Capacity \in Nat /\ Capacity >= 2
  BY CapacityAssumption DEF Slot
<1>2. /\ Succ(h) = IF h + 1 = Capacity THEN 0 ELSE h + 1
      /\ Succ(t) = IF t + 1 = Capacity THEN 0 ELSE t + 1
  BY SuccFact
<1>. QED BY <1>1, <1>2 DEF Count, Empty, Full

(* The i-th oldest element's slot: never the one at the tail, and the one  *)
(* after the newest is the one at the tail.                                *)
LEMMA AtFact ==
    ASSUME NEW h \in Slot, NEW t \in Slot
    PROVE  /\ \A j \in 1..Count(h, t) : At(h, j) \in Slot /\ At(h, j) # t
           /\ At(h, Count(h, t) + 1) = t
           /\ At(h, 1) = h
           /\ ~Empty(h, t) =>
                 \A j \in 1 .. Count(h, t) - 1 : At(Succ(h), j) = At(h, j + 1)
<1>1. /\ h \in Nat /\ h < Capacity
      /\ t \in Nat /\ t < Capacity
      /\ Capacity \in Nat /\ Capacity >= 2
  BY CapacityAssumption DEF Slot
<1>2. ASSUME NEW k \in Slot, NEW j \in 1..Capacity
      PROVE  At(k, j) = IF k + j <= Capacity THEN k + j - 1
                                             ELSE k + j - 1 - Capacity
  <2>1. /\ k \in Nat /\ k < Capacity
        /\ j \in Nat /\ 1 <= j /\ j <= Capacity
    BY <1>1, <1>2 DEF Slot
  <2>2. (k + j - 1) % Capacity
          = IF k + j - 1 < Capacity THEN k + j - 1 ELSE k + j - 1 - Capacity
    BY <2>1, <1>1
  <2>. QED BY <2>1, <2>2, <1>1 DEF At
<1>3. Count(h, t) \in 0 .. Capacity - 1
  BY CountFact
<1>4. ASSUME NEW j \in 1..Count(h, t)
      PROVE  At(h, j) \in Slot /\ At(h, j) # t
  <2>1. j \in 1..Capacity
    BY <1>1, <1>3
  <2>. QED BY <1>1, <1>2, <1>3, <2>1 DEF Slot, Count
<1>5. At(h, Count(h, t) + 1) = t
  <2>1. Count(h, t) + 1 \in 1..Capacity
    BY <1>1, <1>3
  <2>. QED BY <1>1, <1>2, <2>1 DEF Count
<1>6. At(h, 1) = h
  <2>1. 1 \in 1..Capacity
    BY <1>1
  <2>. QED BY <1>1, <1>2, <2>1
<1>7. ASSUME ~Empty(h, t), NEW j \in 1 .. Count(h, t) - 1
      PROVE  At(Succ(h), j) = At(h, j + 1)
  <2>1. j \in 1..Capacity /\ j + 1 \in 1..Capacity
    BY <1>1, <1>3
  <2>2. Succ(h) \in Slot /\ Succ(h) = IF h + 1 = Capacity THEN 0 ELSE h + 1
    BY SuccFact
  <2>. QED BY <1>1, <1>2, <2>1, <2>2
<1>. QED BY <1>4, <1>5, <1>6, <1>7

-----------------------------------------------------------------------------
(* The inductive invariant.                                                *)

(* It holds initially: both threads are outside their calls.               *)
LEMMA InitRing == RingInit => RingInv
<1>. SUFFICES ASSUME RingInit PROVE RingInv
  OBVIOUS
<1>1. RingTypeOK
  BY CapacityAssumption, WidthAssumption DEF RingInit, RingTypeOK, Slot
<1>2. RoomInv /\ ItemInv /\ CopyInInv /\ CopyOutInv
  BY DEF RingInit, RoomInv, ItemInv, CopyInInv, CopyOutInv
<1>. QED BY <1>1, <1>2 DEF RingInv

(* A step of the producer preserves it: the slot it fills is not the one   *)
(* the consumer reads, because the ring it found room in only gets emptier.*)
LEMMA ProducerInv == RingInv /\ Producer => RingInv'
<1>. SUFFICES ASSUME RingInv, Producer PROVE RingInv'
  OBVIOUS
<1>. USE DEF RingInv
<1>1. CASE \E e \in Element : PushFull(e)
  BY <1>1 DEF PushFull, RingTypeOK, RoomInv, ItemInv, CopyInInv, CopyOutInv,
              shared, consumer
<1>2. CASE \E e \in Element : PushBegin(e)
  BY <1>2, WidthAssumption
     DEF PushBegin, RingTypeOK, RoomInv, ItemInv, CopyInInv, CopyOutInv,
         shared, consumer
<1>3. CASE PushCopy
  <2>1. /\ copiedIn \in 0 .. Width - 1 /\ copiedIn + 1 \in 1..Width
        /\ tail \in Slot /\ head \in Slot
        /\ data \in [Slot -> Element] /\ src \in Element
    BY <1>3, WidthAssumption DEF PushCopy, RingTypeOK, CopyInInv
  <2>2. /\ data'[tail] = [data[tail] EXCEPT ![copiedIn + 1] = src[copiedIn + 1]]
        /\ \A s \in Slot \ {tail} : data'[s] = data[s]
        /\ data' \in [Slot -> Element]
    BY <1>3, <2>1 DEF PushCopy, Element
  <2>3. RingTypeOK'
    BY <1>3, <2>1, <2>2 DEF PushCopy, RingTypeOK, consumer
  <2>4. RoomInv' /\ ItemInv'
    BY <1>3 DEF PushCopy, RoomInv, ItemInv, consumer
  <2>5. CopyInInv'
    BY <1>3, <2>1, <2>2, WidthAssumption DEF PushCopy, CopyInInv, Element
  <2>6. CopyOutInv'
    <3>1. popAt # "idle" => data'[head] = data[head]
      BY <2>1, <2>2 DEF ItemInv, Empty
    <3>. QED BY <1>3, <3>1 DEF PushCopy, CopyOutInv, consumer
  <2>. QED BY <2>3, <2>4, <2>5, <2>6
<1>4. CASE PushPublish
  <2>1. tail \in Slot /\ Succ(tail) \in Slot /\ Succ(tail) # head
    BY <1>4, SuccFact DEF PushPublish, RingTypeOK, RoomInv, Full
  <2>. QED BY <1>4, <2>1
         DEF PushPublish, RingTypeOK, RoomInv, ItemInv, CopyInInv, CopyOutInv,
             Empty, consumer
<1>. QED BY <1>1, <1>2, <1>3, <1>4 DEF Producer

(* So does a step of the consumer.                                         *)
LEMMA ConsumerInv == RingInv /\ Consumer => RingInv'
<1>. SUFFICES ASSUME RingInv, Consumer PROVE RingInv'
  OBVIOUS
<1>. USE DEF RingInv
<1>1. CASE PopEmpty
  BY <1>1 DEF PopEmpty, RingTypeOK, RoomInv, ItemInv, CopyInInv, CopyOutInv,
              shared, producer
<1>2. CASE PopBegin
  BY <1>2, WidthAssumption
     DEF PopBegin, RingTypeOK, RoomInv, ItemInv, CopyInInv, CopyOutInv,
         shared, producer
<1>3. CASE PopCopy
  <2>1. /\ copiedOut \in 0 .. Width - 1 /\ copiedOut + 1 \in 1..Width
        /\ head \in Slot
        /\ data[head] \in Element /\ dest \in Element
    BY <1>3, WidthAssumption DEF PopCopy, RingTypeOK, CopyOutInv
  <2>2. /\ dest' \in Element
        /\ \A w \in 1..Width : dest'[w] = IF w = copiedOut + 1
                                            THEN data[head][w] ELSE dest[w]
    BY <1>3, <2>1 DEF PopCopy, Element
  <2>3. RingTypeOK'
    BY <1>3, <2>1, <2>2 DEF PopCopy, RingTypeOK, shared, producer
  <2>4. RoomInv' /\ ItemInv' /\ CopyInInv'
    BY <1>3 DEF PopCopy, RoomInv, ItemInv, CopyInInv, shared, producer
  <2>5. CopyOutInv'
    BY <1>3, <2>1, <2>2, WidthAssumption DEF PopCopy, CopyOutInv, shared
  <2>. QED BY <2>3, <2>4, <2>5
<1>4. CASE PopRelease
  <2>1. /\ head \in Slot /\ tail \in Slot
        /\ Succ(head) \in Slot /\ Succ(tail) \in Slot
    BY SuccFact DEF RingTypeOK
  <2>2. head # tail => Succ(head) # Succ(tail)
    BY <2>1, SuccFact, CapacityAssumption DEF Slot
  <2>3. RingTypeOK'
    BY <1>4, <2>1 DEF PopRelease, RingTypeOK, producer
  <2>4. RoomInv'
    BY <1>4, <2>2 DEF PopRelease, RoomInv, ItemInv, Full, Empty, producer
  <2>5. ItemInv' /\ CopyInInv' /\ CopyOutInv'
    BY <1>4 DEF PopRelease, ItemInv, CopyInInv, CopyOutInv, producer
  <2>. QED BY <2>3, <2>4, <2>5
<1>. QED BY <1>1, <1>2, <1>3, <1>4 DEF Consumer

THEOREM RingInvariance == RingSpec => []RingInv
<1>1. RingInv /\ UNCHANGED ringVars => RingInv'
  BY DEF RingInv, RingTypeOK, RoomInv, ItemInv, CopyInInv, CopyOutInv, Slot, Element,
         Full, Empty, Succ, ringVars, shared, producer, consumer
<1>2. RingInv /\ [RingNext]_ringVars => RingInv'
  BY <1>1, ProducerInv, ConsumerInv DEF RingNext
<1>. QED BY InitRing, <1>2, PTL DEF RingSpec

(* Every variable keeps its type: ring_buffer.c never leaves its storage.  *)
THEOREM RingTypeCorrect == RingSpec => []RingTypeOK
<1>1. RingInv => RingTypeOK
  BY DEF RingInv
<1>. QED BY <1>1, RingInvariance, PTL

(* The memcpy of a push (ring_buffer.c:36) and that of a pop (:51) are     *)
(* never in one slot at the same time.                                     *)
THEOREM RaceFree == RingSpec => []NoSlotRace
<1>1. RingInv => NoSlotRace
  BY DEF RingInv, ItemInv, NoSlotRace, Empty
<1>. QED BY <1>1, RingInvariance, PTL

-----------------------------------------------------------------------------
(* The ring implements the bounded FIFO.                                   *)

(* The ends of a sequence, as functions.                                   *)
LEMMA AppendTail ==
    ASSUME NEW S, NEW q \in Seq(S), NEW e \in S
    PROVE  /\ Append(q, e)
                 = [j \in 1 .. Len(q) + 1 |-> IF j <= Len(q) THEN q[j] ELSE e]
           /\ q # <<>> => /\ Head(q) = q[1]
                          /\ Tail(q) = [j \in 1 .. Len(q) - 1 |-> q[j + 1]]
<1>. DEFINE a == [j \in 1 .. Len(q) + 1 |-> IF j <= Len(q) THEN q[j] ELSE e]
            r == [j \in 1 .. Len(q) - 1 |-> q[j + 1]]
<1>1. Append(q, e) = a
  <2>1. /\ Append(q, e) \in Seq(S)
        /\ Len(Append(q, e)) = Len(q) + 1
        /\ \A j \in 1 .. Len(q) : Append(q, e)[j] = q[j]
        /\ Append(q, e)[Len(q) + 1] = e
    BY AppendProperties
  <2>2. Len(q) \in Nat
    OBVIOUS
  <2>3. Append(q, e) \in [1 .. Len(q) + 1 -> S]
    BY <2>1, LenProperties
  <2>4. \A j \in 1 .. Len(q) + 1 :
          Append(q, e)[j] = IF j <= Len(q) THEN q[j] ELSE e
    BY <2>1, <2>2
  <2>. QED BY <2>3, <2>4
<1>2. ASSUME q # <<>>
      PROVE  Head(q) = q[1] /\ Tail(q) = r
  <2>1. /\ Tail(q) \in Seq(S)
        /\ Len(Tail(q)) = Len(q) - 1
        /\ \A j \in 1 .. Len(Tail(q)) : Tail(q)[j] = q[j + 1]
    BY <1>2, HeadTailProperties
  <2>2. Tail(q) \in [1 .. Len(q) - 1 -> S]
    BY <2>1, LenProperties
  <2>3. Tail(q) = r
    BY <2>1, <2>2
  <2>. QED BY <2>3
<1>. QED BY <1>1, <1>2

(* What the mapped queue is: a sequence of elements of the ring's length.  *)
LEMMA QueueType ==
    ASSUME RingInv
    PROVE  /\ queue \in Seq(Element)
           /\ Len(queue) = Count(head, tail)
           /\ \A j \in 1..Count(head, tail) : queue[j] = data[At(head, j)]
<1>1. head \in Slot /\ tail \in Slot /\ data \in [Slot -> Element]
  BY DEF RingInv, RingTypeOK
<1>2. Count(head, tail) \in Nat
  BY <1>1, CountFact, CapacityAssumption
<1>3. \A j \in 1..Count(head, tail) : data[At(head, j)] \in Element
  BY <1>1, AtFact
<1>. QED BY <1>2, <1>3 DEF queue

(* Filling the free slot at the tail leaves the queue as it is.            *)
LEMMA QueueKept ==
    ASSUME RingInv, UNCHANGED <<head, tail>>,
           \A s \in Slot \ {tail} : data'[s] = data[s]
    PROVE  queue' = queue
<1>1. head \in Slot /\ tail \in Slot
  BY DEF RingInv, RingTypeOK
<1>2. \A j \in 1..Count(head, tail) : data'[At(head, j)] = data[At(head, j)]
  BY <1>1, AtFact
<1>3. queue' = [j \in 1..Count(head, tail) |-> data'[At(head, j)]]
  BY DEF queue, Count, At
<1>. QED BY <1>2, <1>3 DEF queue

(* The release store of the tail appends the element pushed.               *)
LEMMA PublishIsPush ==
    ASSUME RingInv, PushPublish
    PROVE  Fifo!Push
<1>. DEFINE n == Count(head, tail)
<1>1. /\ head \in Slot /\ tail \in Slot /\ ~Full(head, tail)
      /\ data \in [Slot -> Element] /\ src \in Element
      /\ data[tail] = src
  BY DEF RingInv, RingTypeOK, RoomInv, CopyInInv, PushPublish, Element
<1>2. n \in Nat /\ n < Capacity - 1 /\ Count(head, Succ(tail)) = n + 1
  BY <1>1, CountFact, CapacityAssumption
<1>3. queue' = [j \in 1 .. n + 1 |-> data[At(head, j)]]
  BY <1>2 DEF queue, PushPublish, Count, At
<1>4. At(head, n + 1) = tail
  BY <1>1, AtFact
<1>5. queue \in Seq(Element) /\ Len(queue) = n
      /\ \A j \in 1..n : queue[j] = data[At(head, j)]
  BY QueueType
<1>6. queue' = Append(queue, src)
  <2>1. Append(queue, src)
          = [j \in 1 .. n + 1 |-> IF j <= n THEN queue[j] ELSE src]
    BY <1>1, <1>5, AppendTail
  <2>2. \A j \in 1 .. n + 1 :
          data[At(head, j)] = IF j <= n THEN queue[j] ELSE src
    BY <1>1, <1>2, <1>4, <1>5
  <2>. QED BY <1>3, <2>1, <2>2
<1>. QED BY <1>2, <1>5, <1>6 DEF PushPublish, Fifo!Push, consumer

(* The release store of the head removes the element returned.             *)
LEMMA ReleaseIsPop ==
    ASSUME RingInv, PopRelease
    PROVE  Fifo!Pop
<1>. DEFINE n == Count(head, tail)
<1>1. /\ head \in Slot /\ tail \in Slot /\ ~Empty(head, tail)
      /\ data \in [Slot -> Element]
      /\ dest = data[head]
  BY DEF RingInv, RingTypeOK, ItemInv, CopyOutInv, PopRelease, Element
<1>2. n \in Nat /\ n # 0 /\ Count(Succ(head), tail) = n - 1
  BY <1>1, CountFact, CapacityAssumption
<1>3. queue' = [j \in 1 .. n - 1 |-> data[At(Succ(head), j)]]
  BY <1>2 DEF queue, PopRelease, Count, At
<1>4. At(head, 1) = head
      /\ \A j \in 1 .. n - 1 : At(Succ(head), j) = At(head, j + 1)
  BY <1>1, AtFact
<1>5. queue \in Seq(Element) /\ Len(queue) = n
      /\ \A j \in 1..n : queue[j] = data[At(head, j)]
  BY QueueType
<1>6. queue # <<>> /\ Head(queue) = dest /\ queue' = Tail(queue)
  <2>1. queue # <<>>
    BY <1>2, <1>5
  <2>2. Head(queue) = queue[1]
        /\ Tail(queue) = [j \in 1 .. n - 1 |-> queue[j + 1]]
    BY <1>1, <1>5, <2>1, AppendTail
  <2>3. queue[1] = dest
    BY <1>1, <1>2, <1>4, <1>5
  <2>4. \A j \in 1 .. n - 1 : data[At(Succ(head), j)] = queue[j + 1]
    BY <1>2, <1>4, <1>5
  <2>. QED BY <1>3, <2>1, <2>2, <2>3, <2>4
<1>. QED BY <1>6 DEF PopRelease, Fifo!Pop, producer

(* Each step of a thread is an operation of the FIFO, or invisible.        *)
LEMMA StepSimulation == RingInv /\ [RingNext]_ringVars => [Fifo!Next]_(Fifo!vars)
<1>. SUFFICES ASSUME RingInv, [RingNext]_ringVars PROVE [Fifo!Next]_(Fifo!vars)
  OBVIOUS
<1>. USE DEF Fifo!Next, Fifo!vars
<1>1. CASE \E e \in Element : PushFull(e)
  <2>1. head \in Slot /\ tail \in Slot /\ Full(head, tail)
    BY <1>1 DEF PushFull, RingInv, RingTypeOK
  <2>2. Len(queue) = Capacity - 1
    BY <2>1, CountFact, QueueType
  <2>3. queue' = queue
    BY <1>1, QueueKept DEF PushFull, shared
  <2>. QED BY <1>1, <2>2, <2>3 DEF PushFull, Fifo!Refuse, consumer
<1>2. CASE \E e \in Element : PushBegin(e)
  <2>1. head \in Slot /\ tail \in Slot /\ ~Full(head, tail)
    BY <1>2 DEF PushBegin, RingInv, RingTypeOK
  <2>2. Len(queue) < Capacity - 1
    BY <2>1, CountFact, QueueType, CapacityAssumption
  <2>3. queue' = queue
    BY <1>2, QueueKept DEF PushBegin, shared
  <2>. QED BY <1>2, <2>2, <2>3 DEF PushBegin, Fifo!Call, consumer
<1>3. CASE PushCopy
  <2>1. \A s \in Slot \ {tail} : data'[s] = data[s]
    BY <1>3 DEF PushCopy, RingInv, RingTypeOK
  <2>. QED BY <1>3, <2>1, QueueKept DEF PushCopy, consumer
<1>4. CASE PushPublish
  BY <1>4, PublishIsPush
<1>5. CASE PopEmpty
  <2>1. head \in Slot /\ tail \in Slot /\ Empty(head, tail)
    BY <1>5 DEF PopEmpty, RingInv, RingTypeOK
  <2>2. queue \in Seq(Element) /\ Len(queue) = 0
    BY <2>1, CountFact, QueueType
  <2>3. queue' = queue
    BY <1>5, QueueKept DEF PopEmpty, shared
  <2>. QED BY <1>5, <2>2, <2>3 DEF PopEmpty, Fifo!PopNothing, producer
<1>6. CASE PopBegin
  BY <1>6, QueueKept DEF PopBegin, shared, producer
<1>7. CASE PopCopy
  BY <1>7, QueueKept DEF PopCopy, shared, producer
<1>8. CASE PopRelease
  BY <1>8, ReleaseIsPop
<1>9. CASE UNCHANGED ringVars
  BY <1>9, QueueKept DEF ringVars, shared, producer, consumer
<1>. QED
  BY <1>1, <1>2, <1>3, <1>4, <1>5, <1>6, <1>7, <1>8, <1>9
  DEF RingNext, Producer, Consumer

(* The empty ring is the empty FIFO.                                       *)
LEMMA InitSimulation == RingInit => Fifo!Init
<1>. SUFFICES ASSUME RingInit PROVE Fifo!Init
  OBVIOUS
<1>1. queue = <<>>
  BY DEF RingInit, queue, Count
<1>. QED BY <1>1 DEF RingInit, Fifo!Init

(* The ring is a bounded FIFO of Capacity - 1 elements: every element      *)
(* popped is one pushed, whole, once and in order; a push fails only of a  *)
(* full ring and a pop only of an empty one (ring_buffer.h:33-45).         *)
THEOREM Refinement == RingSpec => ImplementsFifo
<1>. QED BY RingInvariance, InitSimulation, StepSimulation, PTL
         DEF RingSpec, ImplementsFifo, Fifo!Spec


-----------------------------------------------------------------------------
(* The detector.                                                           *)

(* Ending an event reports it and leaves no event.                         *)
LEMMA FinishFact ==
    ASSUME NEW a \in Detector, a.type \in Type
    PROVE  /\ Finish(a).ad \in Detector
           /\ Finish(a).ad.type = "none"
           /\ Finish(a).ad.warm = a.warm
           /\ Finish(a).note \in Event
           /\ Finish(a).note.kind \in {"completed", "aborted"}
           /\ Finish(a).note.type = a.type
           /\ Finish(a).note.dur = a.dur
           /\ Finish(a).note.kind = "completed" => a.dur >= MinDuration[a.type]
<1>. DEFINE n == Finish(a).note
            b == Finish(a).ad
<1>1. /\ a = [warm |-> a.warm, type |-> a.type, dur |-> a.dur, since |-> a.since]
      /\ a.warm \in 0..WarmUp /\ a.dur \in 0..MaxDur /\ a.since \in [Type -> Nat]
  BY DEF Detector
<1>2. n = [kind |-> IF a.dur >= MinDuration[a.type] THEN "completed" ELSE "aborted",
           type |-> a.type, dur |-> a.dur]
  BY DEF Finish
<1>3. b = [a EXCEPT !.since = [a.since EXCEPT ![a.type] = 0], !.type = "none", !.dur = 0]
  BY <1>1 DEF Finish
<1>4. [a.since EXCEPT ![a.type] = 0] \in [Type -> Nat]
  BY <1>1
<1>5. b \in Detector /\ b.type = "none" /\ b.warm = a.warm
  <2>. DEFINE c == [a.since EXCEPT ![a.type] = 0]
  <2>. HIDE DEF c
  <2>1. b = [warm |-> a.warm, type |-> "none", dur |-> 0, since |-> c]
    BY <1>1, <1>3 DEF c
  <2>2. c \in [Type -> Nat]
    BY <1>4 DEF c
  <2>. QED BY <1>1, <2>1, <2>2, BoundAssumption DEF Detector
<1>6. n \in Event /\ n.kind \in {"completed", "aborted"} /\ n.type = a.type /\ n.dur = a.dur
  BY <1>1, <1>2, BoundAssumption DEF Event
<1>7. n.kind = "completed" => a.dur >= MinDuration[a.type]
  BY <1>2
<1>. QED BY <1>5, <1>6, <1>7

(* What one sample does to a detector b, by the notification in r.         *)
Processed(b, r) ==
    /\ r.ad \in Detector
    /\ r.note \in Event
    /\ r.ad.warm > 0 => r.ad.type = "none"
    /\ r.note.kind = "none" =>
          /\ r.ad.type = b.type
          /\ b.type \in Type => r.ad.dur = Shorter(b.dur + 1, MaxDur)
    /\ r.note.kind = "started" =>
          /\ b.type = "none"
          /\ r.ad.type \in Type
          /\ r.ad.type = r.note.type
          /\ r.ad.dur = 1
    /\ r.note.kind \in {"completed", "aborted"} =>
          /\ b.type \in Type
          /\ r.ad.type = "none"
          /\ r.note.type = b.type
          /\ r.note.dur = b.dur
          /\ r.note.kind = "completed" => b.dur >= MinDuration[b.type]
LEMMA ProcessFact ==
    ASSUME NEW b \in Detector, NEW class \in Type \cup {"normal"},
           b.warm > 0 => b.type = "none"
    PROVE  Processed(b, ProcessSample(b, class))
<1>. DEFINE a == Later(b)
            r == ProcessSample(b, class)
<1>1. /\ a \in Detector
      /\ a.warm = b.warm /\ a.type = b.type /\ a.dur = b.dur
  BY ConfigAssumption DEF Later, Detector, Shorter, Cooldown, Type
<1>2. None \in Event /\ None.kind = "none" /\ "none" \notin Type
  BY DEF None, Event, Type
<1>3. ASSUME a.warm > 0 PROVE Processed(b, r)
  <2>. DEFINE c == [a EXCEPT !.warm = @ - 1]
  <2>1. r.ad = c /\ r.note = None
    BY <1>1, <1>3 DEF ProcessSample, Detector
  <2>2. c \in Detector /\ c.type = a.type
    BY <1>1, <1>3, ConfigAssumption DEF Detector
  <2>3. a.type = "none"
    BY <1>1, <1>3
  <2>. HIDE DEF c, r
  <2>. QED BY <1>1, <1>2, <2>1, <2>2, <2>3 DEF Processed
<1>4. ASSUME a.warm = 0 /\ a.type = "none" /\ class = "normal" PROVE Processed(b, r)
  <2>1. r.ad = a /\ r.note = None
    BY <1>1, <1>4, <1>2 DEF ProcessSample, Type
  <2>. HIDE DEF r
  <2>. QED BY <1>1, <1>2, <1>4, <2>1 DEF Processed
<1>5. ASSUME a.warm = 0 /\ a.type = "none" /\ class \in Type PROVE Processed(b, r)
  <2>1. r = Start(a, class)
    BY <1>1, <1>5 DEF ProcessSample, Type
  <2>2. ASSUME a.since[class] < Cooldown[class] PROVE Processed(b, r)
    <3>1. r.ad = a /\ r.note = None
      BY <2>1, <2>2 DEF Start
    <3>. HIDE DEF r
    <3>. QED BY <1>1, <1>2, <1>5, <3>1 DEF Processed
  <2>3. ASSUME ~(a.since[class] < Cooldown[class]) PROVE Processed(b, r)
    <3>. DEFINE c == [a EXCEPT !.type = class, !.dur = 1]
                n == [kind |-> "started", type |-> class, dur |-> 0]
    <3>1. r.ad = c /\ r.note = n
      BY <2>1, <2>3 DEF Start
    <3>2. 1 \in 0..MaxDur
      BY ConfigAssumption, BoundAssumption
    <3>3. c \in Detector /\ c.warm = a.warm /\ c.type = class /\ c.dur = 1
      BY <1>1, <1>5, <3>2 DEF Detector
    <3>4. n \in Event /\ n.kind = "started" /\ n.type = class
      BY <1>5 DEF Event
    <3>. HIDE DEF r, c, n
    <3>. QED BY <1>1, <1>2, <1>5, <3>1, <3>3, <3>4 DEF Processed
  <2>. QED BY <2>2, <2>3
<1>6. ASSUME a.warm = 0 /\ a.type \in Type /\ class = a.type PROVE Processed(b, r)
  <2>. DEFINE c == [a EXCEPT !.dur = Shorter(@ + 1, MaxDur)]
  <2>1. r.ad = c /\ r.note = None
    BY <1>1, <1>2, <1>6 DEF ProcessSample
  <2>2. a.dur \in 0..MaxDur /\ Shorter(a.dur + 1, MaxDur) \in 0..MaxDur
    BY <1>1, BoundAssumption DEF Shorter, Detector
  <2>3. c \in Detector /\ c.warm = a.warm /\ c.type = a.type
        /\ c.dur = Shorter(a.dur + 1, MaxDur)
    BY <1>1, <2>2 DEF Detector
  <2>. HIDE DEF c, r
  <2>. QED BY <1>1, <1>2, <1>6, <2>1, <2>3 DEF Processed
<1>7. ASSUME a.warm = 0 /\ a.type \in Type /\ class # a.type PROVE Processed(b, r)
  <2>1. r = Finish(a)
    BY <1>1, <1>7 DEF ProcessSample, Type
  <2>. HIDE DEF r
  <2>. QED BY <1>1, <1>7, <2>1, FinishFact DEF Detector, Processed
<1>8. a.warm \in Nat /\ a.type \in Type \cup {"none"}
  BY <1>1, ConfigAssumption DEF Detector
<1>. QED BY <1>2, <1>3, <1>4, <1>5, <1>6, <1>7, <1>8

-----------------------------------------------------------------------------
(* The window.                                                             *)

(* The buffers are large enough for any event the limit lets through.      *)
LEMMA Capacities ==
    /\ PreCapacity \in Nat \ {0}
    /\ CaptureCapacity \in Nat
    /\ PreCapacity + MaxEvent + 1 + Post <= CaptureCapacity
BY ConfigAssumption DEF PreCapacity, CaptureCapacity

(* A sample pushed into an idle window only enters the pre-event buffer.   *)
LEMMA PushIdle ==
    ASSUME NEW w \in Window, w.state = "idle"
    PROVE  /\ PushSample(w) \in Window
           /\ \E n \in 0..PreCapacity : PushSample(w) = [w EXCEPT !.pre = n]
<1>1. w.pre \in 0..PreCapacity /\ Shorter(w.pre + 1, PreCapacity) \in 0..PreCapacity
  BY Capacities DEF Window, Shorter
<1>2. PushSample(w) = [w EXCEPT !.pre = Shorter(w.pre + 1, PreCapacity)]
  BY DEF PushSample, PrePush
<1>. QED BY <1>1, <1>2 DEF Window

(* Otherwise it is also appended to the capture, which has room for it.    *)
LEMMA PushBusy ==
    ASSUME NEW w \in Window, w.state # "idle", w.count < CaptureCapacity
    PROVE  \E n \in 0..PreCapacity :
             /\ PushSample(w) = Advance([w EXCEPT !.pre = n, !.count = w.count + 1])
             /\ [w EXCEPT !.pre = n, !.count = w.count + 1] \in Window
<1>1. /\ w.pre \in 0..PreCapacity /\ Shorter(w.pre + 1, PreCapacity) \in 0..PreCapacity
      /\ w.count \in Nat /\ Shorter(w.count + 1, CaptureCapacity) = w.count + 1
      /\ w.count + 1 \in 0..CaptureCapacity
  BY Capacities DEF Window, Shorter
<1>. DEFINE n == Shorter(w.pre + 1, PreCapacity)
<1>2. PushSample(w) = Advance([w EXCEPT !.pre = n, !.count = w.count + 1])
  BY <1>1 DEF PushSample, PrePush, CaptureAppend, Window
<1>3. [w EXCEPT !.pre = n, !.count = w.count + 1] \in Window
  BY <1>1 DEF Window
<1>. QED BY <1>1, <1>2, <1>3

(* While the window captures, an appended sample of the event may reach    *)
(* the limit.                                                              *)
LEMMA PushCapturing ==
    ASSUME NEW w \in Window, w.state = "capturing", ~w.maxHit, ~w.ready,
           NEW d \in 1..MaxEvent, w.count = w.preAtStart + d - 1
    PROVE  LET p == PushSample(w) IN
           /\ p \in Window
           /\ p.state = "capturing" /\ ~p.ready
           /\ p.event = w.event /\ p.preAtStart = w.preAtStart
           /\ p.count = w.preAtStart + d
           /\ p.maxHit <=> d = MaxEvent
<1>. DEFINE p == PushSample(w)
<1>1. /\ w.preAtStart \in 0..PreCapacity /\ w.count \in Nat
      /\ w.count < CaptureCapacity
      /\ MaxEvent \in Nat /\ Post \in Nat
  BY Capacities, ConfigAssumption DEF Window
<1>2. PICK n \in 0..PreCapacity :
        /\ p = Advance([w EXCEPT !.pre = n, !.count = w.count + 1])
        /\ [w EXCEPT !.pre = n, !.count = w.count + 1] \in Window
  BY <1>1, PushBusy
<1>. DEFINE v == [w EXCEPT !.pre = n, !.count = w.count + 1]
<1>3. /\ v \in Window /\ v.state = "capturing" /\ ~v.maxHit /\ ~v.ready
      /\ v.event = w.event /\ v.preAtStart = w.preAtStart
      /\ v.count = w.preAtStart + d
  BY <1>1, <1>2 DEF Window
<1>4. p = [v EXCEPT !.maxHit = v.maxHit \/ v.count - v.preAtStart >= MaxEvent]
  BY <1>2, <1>3 DEF Advance
<1>5. v.count - v.preAtStart = d
  BY <1>1, <1>3
<1>. HIDE DEF v
<1>6. CASE d = MaxEvent
  <2>1. v.count - v.preAtStart >= MaxEvent
    BY <1>1, <1>5, <1>6
  <2>2. p = [v EXCEPT !.maxHit = TRUE]
    BY <1>4, <2>1
  <2>. QED BY <1>1, <1>3, <1>6, <2>2 DEF Window
<1>7. CASE d # MaxEvent
  <2>1. ~(v.count - v.preAtStart >= MaxEvent)
    BY <1>1, <1>5, <1>7
  <2>2. v.maxHit = FALSE
    BY <1>3 DEF Window
  <2>3. p = [v EXCEPT !.maxHit = FALSE]
    BY <1>4, <2>1, <2>2
  <2>. QED BY <1>1, <1>3, <1>7, <2>3 DEF Window
<1>. QED BY <1>6, <1>7

(* After the event: the sample that ended it is skipped, the others count  *)
(* down to the end of the capture, which then holds the whole event.       *)
LEMMA PushPost ==
    ASSUME NEW w \in Window, PostWindow(w)
    PROVE  LET p == PushSample(w) IN p \in Window /\ (PostWindow(p) \/ IdleWindow(p))
<1>. DEFINE p == PushSample(w)
<1>1. /\ w.preAtStart \in 0..PreCapacity /\ w.count \in Nat
      /\ w.postLeft \in 0..Post /\ w.skip \in BOOLEAN
      /\ MaxEvent \in Nat /\ Post \in Nat /\ w.event.dur \in 1..MaxEvent
      /\ w.event \in Event
  BY Capacities, ConfigAssumption DEF Window, PostWindow, WholeEvent
<1>2. w.count < CaptureCapacity
  BY <1>1, Capacities DEF PostWindow
<1>3. PICK n \in 0..PreCapacity :
        /\ p = Advance([w EXCEPT !.pre = n, !.count = w.count + 1])
        /\ [w EXCEPT !.pre = n, !.count = w.count + 1] \in Window
  BY <1>2, PushBusy DEF PostWindow
<1>. DEFINE v == [w EXCEPT !.pre = n, !.count = w.count + 1]
<1>4. /\ v \in Window /\ v.state = "post" /\ ~v.maxHit /\ v.ready = FALSE
      /\ v.event = w.event /\ v.preAtStart = w.preAtStart
      /\ v.skip = w.skip /\ v.postLeft = w.postLeft
      /\ v.count = w.count + 1
  BY <1>1, <1>3 DEF Window, PostWindow
<1>. DEFINE left == IF v.skip \/ v.postLeft = 0 THEN v.postLeft ELSE v.postLeft - 1
<1>5. p = [v EXCEPT !.skip = FALSE, !.postLeft = left,
                    !.ready = v.ready \/ left = 0,
                    !.state = IF left = 0 THEN "idle" ELSE "post"]
  BY <1>3, <1>4 DEF Advance
<1>6. /\ left \in 0..Post
      /\ v.count + left = v.preAtStart + v.event.dur + 1 + Post
  BY <1>1, <1>4 DEF PostWindow
<1>. HIDE DEF v, left
<1>7. CASE left = 0
  <2>1. p = [v EXCEPT !.skip = FALSE, !.postLeft = 0, !.ready = TRUE,
                      !.state = "idle"]
    BY <1>5, <1>7
  <2>2. /\ p.state = "idle" /\ p.ready = TRUE /\ p.maxHit = v.maxHit
        /\ p.event = v.event /\ p.count = v.count /\ p.preAtStart = v.preAtStart
    BY <1>4, <2>1 DEF Window
  <2>3. p \in Window
    BY <1>4, <1>6, <1>7, <2>1 DEF Window
  <2>4. p.count = p.preAtStart + p.event.dur + 1 + Post
    BY <1>1, <1>4, <1>6, <1>7, <2>2
  <2>. QED BY <1>4, <2>2, <2>3, <2>4 DEF IdleWindow, PostWindow
<1>8. CASE left # 0
  <2>1. p = [v EXCEPT !.skip = FALSE, !.postLeft = left, !.ready = FALSE,
                      !.state = "post"]
    BY <1>4, <1>5, <1>8
  <2>2. /\ p.state = "post" /\ p.ready = FALSE /\ p.maxHit = v.maxHit
        /\ p.skip = FALSE /\ p.postLeft = left
        /\ p.event = v.event /\ p.count = v.count /\ p.preAtStart = v.preAtStart
    BY <1>4, <2>1 DEF Window
  <2>3. p \in Window
    BY <1>4, <1>6, <2>1 DEF Window
  <2>4. p.postLeft > 0
    BY <1>1, <1>6, <1>8, <2>2
  <2>. QED BY <1>4, <1>6, <2>2, <2>3, <2>4 DEF PostWindow
<1>. QED BY <1>7, <1>8

(* The end of the event being captured starts the count of post samples.   *)
LEMMA OnEndFact ==
    ASSUME NEW w \in Window, w.state = "capturing", ~w.ready,
           NEW e \in Event, WholeEvent(e), w.count = w.preAtStart + e.dur
    PROVE  OnEnd(w, e) \in Window /\ PostWindow(OnEnd(w, e))
<1>. DEFINE v == OnEnd(w, e)
<1>1. v = [w EXCEPT !.event = e, !.state = "post", !.postLeft = Post,
                    !.skip = TRUE, !.maxHit = FALSE]
  BY DEF OnEnd
<1>2. Post \in 0..Post
  BY ConfigAssumption
<1>3. v \in Window
  BY <1>1, <1>2 DEF Window
<1>4. /\ v.state = "post" /\ v.maxHit = FALSE /\ v.ready = w.ready
      /\ v.skip = TRUE /\ v.postLeft = Post
      /\ v.event = e /\ v.count = w.count /\ v.preAtStart = w.preAtStart
  BY <1>1 DEF Window
<1>5. PostWindow(v)
  <2>. HIDE DEF v
  <2>. QED BY <1>4 DEF PostWindow
<1>. QED BY <1>3, <1>5

-----------------------------------------------------------------------------
(* One sample through both.                                                *)

(* The notification leaves the window idle, after its event, or one sample *)
(* short of the event the detector is in.                                  *)
Notified(a, w) ==
    \/ IdleWindow(w)
    \/ PostWindow(w)
    \/ /\ w.state = "capturing" /\ ~w.maxHit /\ ~w.ready
       /\ a.type \in Type /\ a.type = w.event.type
       /\ a.dur \in 1..MaxEvent
       /\ w.count = w.preAtStart + a.dur - 1
LEMMA NotifyFact ==
    ASSUME NEW b \in Detector, NEW w \in Window, Linked(b, w),
           NEW r, Processed(b, r)
    PROVE  Notify(w, r.note) \in Window /\ Notified(r.ad, Notify(w, r.note))
<1>. DEFINE n == r.note
            v == Notify(w, n)
<1>. USE DEF Processed
<1>1. /\ n \in Event /\ n.kind \in {"none", "started", "completed", "aborted"}
      /\ b.dur \in Nat /\ MaxEvent \in Nat \ {0} /\ Post \in Nat
      /\ MaxDur \in Nat /\ MaxEvent < MaxDur /\ "none" \notin Type
  BY ConfigAssumption, BoundAssumption DEF Event, Detector, Type
<1>2. /\ w.state \in {"idle", "capturing", "post"} /\ w.pre \in 0..PreCapacity
      /\ w.preAtStart \in 0..PreCapacity /\ w.count \in Nat
      /\ w.ready \in BOOLEAN
  BY Capacities DEF Window
<1>3. ASSUME n.kind = "none" PROVE v \in Window /\ Notified(r.ad, v)
  <2>1. v = w
    BY <1>3 DEF Notify
  <2>2. CASE CapturingWindow(b, w)
    BY <1>1, <1>2, <1>3, <2>1, <2>2 DEF Notified, CapturingWindow, Linked, Shorter
  <2>3. CASE IdleWindow(w) \/ PostWindow(w)
    BY <2>1, <2>3 DEF Notified
  <2>. QED BY <2>2, <2>3 DEF Linked
<1>4. ASSUME n.kind = "started" PROVE v \in Window /\ Notified(r.ad, v)
  <2>1. v = OnStart(w, n)
    BY <1>4 DEF Notify
  <2>2. CASE w.state # "idle" \/ w.ready
    <3>1. v = w
      BY <2>1, <2>2 DEF OnStart
    <3>2. ~CapturingWindow(b, w)
      BY <1>1, <1>4 DEF CapturingWindow
    <3>. QED BY <3>1, <3>2 DEF Notified, Linked
  <2>3. CASE ~(w.state # "idle" \/ w.ready)
    <3>1. Shorter(w.pre, CaptureCapacity) = w.pre
      BY <1>1, <1>2, Capacities DEF Shorter
    <3>2. v = [w EXCEPT !.event = n, !.count = w.pre, !.preAtStart = w.pre,
                        !.maxHit = FALSE, !.state = "capturing"]
      BY <2>1, <2>3, <3>1 DEF OnStart
    <3>3. w.pre \in 0..CaptureCapacity
      BY <1>1, <1>2, Capacities
    <3>4. v \in Window
      BY <1>1, <1>2, <3>2, <3>3 DEF Window
    <3>5. /\ v.state = "capturing" /\ v.maxHit = FALSE /\ v.ready = w.ready
          /\ v.event = n /\ v.count = w.pre /\ v.preAtStart = w.pre
      BY <3>2 DEF Window
    <3>6. 1 \in 1..MaxEvent /\ w.pre = w.pre + 1 - 1
      BY <1>1, <1>2
    <3>. HIDE DEF v
    <3>. QED BY <1>4, <2>3, <3>4, <3>5, <3>6 DEF Notified
  <2>. QED BY <2>2, <2>3
<1>5. ASSUME n.kind = "completed" PROVE v \in Window /\ Notified(r.ad, v)
  <2>1. v = OnEnd(w, n)
    BY <1>5 DEF Notify
  <2>2. CASE w.state # "capturing"
    BY <2>1, <2>2 DEF OnEnd, Notified, Linked, CapturingWindow
  <2>3. CASE w.state = "capturing"
    <3>1. CapturingWindow(b, w)
      BY <2>3 DEF Linked, IdleWindow, PostWindow
    <3>2. WholeEvent(n) /\ w.count = w.preAtStart + n.dur /\ ~w.ready
      BY <1>1, <1>5, <3>1 DEF CapturingWindow, WholeEvent, Linked
    <3>. QED BY <1>1, <2>1, <2>3, <3>2, OnEndFact DEF Notified
  <2>. QED BY <2>2, <2>3
<1>6. ASSUME n.kind = "aborted" PROVE v \in Window /\ Notified(r.ad, v)
  <2>1. v = Abort(w)
    BY <1>6 DEF Notify
  <2>2. CASE w.state = "idle" /\ ~w.ready
    BY <2>1, <2>2 DEF Abort, Notified, Linked, CapturingWindow, PostWindow
  <2>3. CASE ~(w.state = "idle" /\ ~w.ready)
    <3>1. v = [w EXCEPT !.state = "idle", !.ready = FALSE, !.count = 0,
                        !.maxHit = FALSE, !.postLeft = Post, !.skip = FALSE,
                        !.event = None]
      BY <2>1, <2>3 DEF Abort
    <3>2. None \in Event /\ 0 \in 0..CaptureCapacity /\ Post \in 0..Post
      BY <1>1, Capacities DEF None, Event
    <3>3. v \in Window
      <4>. DEFINE m == None
      <4>. HIDE DEF m
      <4>1. v = [state |-> "idle", ready |-> FALSE, skip |-> FALSE, event |-> m,
                 pre |-> w.pre, count |-> 0, preAtStart |-> w.preAtStart,
                 postLeft |-> Post, maxHit |-> FALSE]
        BY <3>1 DEF m, Window
      <4>2. m \in Event
        BY <3>2 DEF m
      <4>. QED BY <1>2, <3>2, <4>1, <4>2 DEF Window
    <3>4. v.state = "idle" /\ v.maxHit = FALSE /\ v.ready = FALSE
      BY <3>1 DEF Window
    <3>. HIDE DEF v
    <3>. QED BY <3>3, <3>4 DEF Notified, IdleWindow
  <2>. QED BY <2>2, <2>3
<1>. QED BY <1>1, <1>3, <1>4, <1>5, <1>6


(* Afterwards an event of the detector has at least one sample.            *)
LEMMA ProcessedFact ==
    ASSUME NEW b \in Detector, NEW w, Linked(b, w), NEW r, Processed(b, r)
    PROVE  /\ r.ad \in Detector /\ r.note \in Event
           /\ r.ad.warm > 0 => r.ad.type = "none"
           /\ r.ad.type \in Type => r.ad.dur >= 1
<1>1. /\ b.dur \in Nat /\ MaxDur \in Nat \ {0} /\ "none" \notin Type
      /\ b.type \in Type => b.dur >= 1
  BY BoundAssumption, ConfigAssumption DEF Detector, Linked, Type
<1>2. r.note.kind \in {"none", "started", "completed", "aborted"}
  BY DEF Processed, Event
<1>3. b.type \in Type => Shorter(b.dur + 1, MaxDur) >= 1
  BY <1>1 DEF Shorter
<1>4. r.ad.type \in Type => r.ad.dur >= 1
  <2>1. CASE r.note.kind = "none"
    BY <1>3, <2>1 DEF Processed
  <2>2. CASE r.note.kind = "started"
    BY <2>2 DEF Processed
  <2>3. CASE r.note.kind \in {"completed", "aborted"}
    BY <1>1, <2>3 DEF Processed
  <2>. QED BY <1>2, <2>1, <2>2, <2>3
<1>. QED BY <1>4 DEF Processed

(* Pushing the sample brings the window back in line with the detector, or *)
(* to the limit with the detector still in the event.                      *)
Pushed(a, p) ==
    \/ Linked(a, p) /\ ~p.maxHit
    \/ /\ p.maxHit /\ p.state = "capturing" /\ ~p.ready
       /\ a.type \in Type /\ a.dur = MaxEvent
       /\ p.count = p.preAtStart + a.dur
LEMMA PushFact ==
    ASSUME NEW a \in Detector, NEW w \in Window, Notified(a, w),
           a.warm > 0 => a.type = "none", a.type \in Type => a.dur >= 1
    PROVE  PushSample(w) \in Window /\ Pushed(a, PushSample(w))
<1>1. CASE IdleWindow(w)
  <2>1. /\ PushSample(w) \in Window
        /\ \E n \in 0..PreCapacity : PushSample(w) = [w EXCEPT !.pre = n]
    BY <1>1, PushIdle DEF IdleWindow
  <2>2. IdleWindow(PushSample(w))
    BY <1>1, <2>1 DEF IdleWindow, Window
  <2>. QED BY <2>1, <2>2 DEF Pushed, Linked, IdleWindow
<1>2. CASE PostWindow(w)
  BY <1>2, PushPost DEF Pushed, Linked, IdleWindow, PostWindow
<1>3. CASE ~IdleWindow(w) /\ ~PostWindow(w)
  <2>. DEFINE p == PushSample(w)
  <2>1. /\ w.state = "capturing" /\ ~w.maxHit /\ ~w.ready
        /\ a.type \in Type /\ a.type = w.event.type
        /\ a.dur \in 1..MaxEvent
        /\ w.count = w.preAtStart + a.dur - 1
    BY <1>3 DEF Notified
  <2>2. /\ p \in Window /\ p.state = "capturing" /\ ~p.ready
        /\ p.event = w.event /\ p.preAtStart = w.preAtStart
        /\ p.count = w.preAtStart + a.dur
        /\ p.maxHit <=> a.dur = MaxEvent
    BY <2>1, PushCapturing
  <2>. HIDE DEF p
  <2>3. a.dur < MaxEvent \/ a.dur = MaxEvent
    BY <2>1, ConfigAssumption
  <2>4. ASSUME p.maxHit PROVE Pushed(a, p)
    BY <2>1, <2>2, <2>4 DEF Pushed
  <2>5. ASSUME ~p.maxHit PROVE Pushed(a, p)
    <3>1. CapturingWindow(a, p)
      BY <2>1, <2>2, <2>3, <2>5 DEF CapturingWindow
    <3>. QED BY <2>1, <2>2, <2>5, <3>1, ConfigAssumption DEF Linked, Pushed
  <2>. QED BY <2>2, <2>4, <2>5 DEF p
<1>. QED BY <1>1, <1>2, <1>3


-----------------------------------------------------------------------------
(* The invariant.                                                          *)

LEMMA InitInv == Init => IInv
<1>. SUFFICES ASSUME Init PROVE IInv
  OBVIOUS
<1>1. ad \in Detector /\ ad.type = "none"
  BY ConfigAssumption, BoundAssumption DEF Init, AdInit, Detector, Cooldown, Type
<1>2. ew \in Window /\ IdleWindow(ew)
  BY ConfigAssumption, Capacities DEF Init, EwInit, Window, None, Event, IdleWindow
<1>3. i \in 0..BlockLen /\ note \in Event /\ fate = "none"
  BY ConfigAssumption DEF Init, None, Event
<1>4. saved = [type |-> "none", dur |-> 0, count |-> 0, pre |-> 0]
  BY DEF Init
<1>. QED BY <1>1, <1>2, <1>3, <1>4 DEF IInv, TypeOK, Linked, SavedWhole, Type

(* One sample: the detector processes it, the window is told, stores it,   *)
(* and at the limit the detector's event is ended by force.                *)
LEMMA SampleInv ==
    ASSUME IInv, NEW class \in Type \cup {"normal"}, Sample(class)
    PROVE  IInv'
<1>. DEFINE seen == ProcessSample(ad, class)
            told == Notify(ew, seen.note)
            after == PushSample(told)
            taken == [after EXCEPT !.maxHit = FALSE]
            forced == ForceEnd(seen.ad, taken)
<1>1. /\ ad \in Detector /\ ew \in Window /\ Linked(ad, ew)
      /\ i \in 0..BlockLen /\ BlockLen \in Nat
  BY ConfigAssumption DEF IInv, TypeOK
<1>2. Processed(ad, seen)
  BY <1>1, ProcessFact DEF Linked
<1>3. told \in Window /\ Notified(seen.ad, told)
  BY <1>1, <1>2, NotifyFact
<1>4. /\ seen.ad \in Detector /\ seen.note \in Event
      /\ seen.ad.warm > 0 => seen.ad.type = "none"
      /\ seen.ad.type \in Type => seen.ad.dur >= 1
  BY <1>1, <1>2, ProcessedFact
<1>5. after \in Window /\ Pushed(seen.ad, after)
  BY <1>3, <1>4, PushFact
<1>6. /\ i' = i + 1 /\ i < BlockLen /\ note' = seen.note /\ saved' = saved
      /\ fate' \in {"cancelled", "discarded", fate}
      /\ ad' = IF after.maxHit THEN forced.ad ELSE seen.ad
      /\ ew' = IF after.maxHit THEN forced.ew ELSE taken
  BY DEF Sample
<1>. HIDE DEF seen, told, after
<1>7. taken \in Window /\ ~taken.maxHit
  BY <1>5 DEF Window
<1>8. ad' \in Detector /\ ew' \in Window /\ Linked(ad', ew')
  <2>1. CASE ~after.maxHit
    <3>1. Linked(seen.ad, after)
      BY <1>5, <2>1 DEF Pushed
    <3>2. taken = after
      BY <1>5, <2>1 DEF Window
    <3>. QED BY <1>4, <1>5, <1>6, <2>1, <3>1, <3>2
  <2>2. CASE after.maxHit
    <3>. DEFINE f == Finish(seen.ad)
    <3>1. /\ after.state = "capturing" /\ ~after.ready
          /\ seen.ad.type \in Type /\ seen.ad.dur = MaxEvent
          /\ after.count = after.preAtStart + seen.ad.dur
      BY <1>5, <2>2 DEF Pushed, Linked, IdleWindow, CapturingWindow, PostWindow
    <3>2. /\ f.ad \in Detector /\ f.ad.type = "none" /\ f.ad.warm = seen.ad.warm
          /\ f.note \in Event /\ f.note.type = seen.ad.type
          /\ f.note.dur = seen.ad.dur
      BY <1>4, <3>1, FinishFact
    <3>3. forced.ad = f.ad /\ forced.ew = OnEnd(taken, f.note)
      BY <3>1 DEF ForceEnd, Type
    <3>. HIDE DEF f
    <3>4. taken.state = "capturing" /\ ~taken.ready
          /\ taken.count = taken.preAtStart + f.note.dur
      BY <1>5, <3>1, <3>2 DEF Window
    <3>5. WholeEvent(f.note)
      BY <3>1, <3>2, ConfigAssumption DEF WholeEvent
    <3>6. forced.ew \in Window /\ PostWindow(forced.ew)
      <4>. HIDE DEF taken
      <4>. QED BY <1>7, <3>2, <3>3, <3>4, <3>5, OnEndFact
    <3>7. Linked(forced.ad, forced.ew)
      BY <3>2, <3>3, <3>6 DEF Linked, Type
    <3>. QED BY <1>6, <2>2, <3>2, <3>3, <3>6, <3>7
  <2>. QED BY <2>1, <2>2
<1>9. i' \in 0..BlockLen /\ note' \in Event /\ saved' = saved
      /\ fate' \in {"none", "saved", "discarded", "cancelled", "tooLarge"}
  BY <1>1, <1>4, <1>6 DEF IInv, TypeOK
<1>. QED BY <1>8, <1>9 DEF IInv, TypeOK, SavedWhole, WholeEvent


(* The end of a block: a finished capture is saved, or is too large.       *)
LEMMA EndBlockInv ==
    ASSUME IInv, EndBlock
    PROVE  IInv'
<1>1. /\ i' = 0 /\ ad' = ad /\ note' = note /\ 0 \in 0..BlockLen
      /\ ad \in Detector /\ ew \in Window /\ Linked(ad, ew) /\ note \in Event
      /\ fate \in {"none", "saved", "discarded", "cancelled", "tooLarge"}
      /\ saved \in [type : Type \cup {"none"}, dur : Nat, count : Nat, pre : Nat]
  BY ConfigAssumption DEF EndBlock, IInv, TypeOK
<1>2. CASE ~ew.ready
  <2>1. ew' = ew /\ saved' = saved /\ fate' = fate
    BY <1>2 DEF EndBlock
  <2>. QED BY <1>1, <2>1 DEF IInv, TypeOK, SavedWhole
<1>3. CASE ew.ready
  <2>1. WholeEvent(ew.event) /\ IdleWindow(ew)
    BY <1>1, <1>3 DEF Linked, IdleWindow, CapturingWindow, PostWindow
  <2>2. ew' = [ew EXCEPT !.ready = FALSE, !.count = 0]
    BY <1>3 DEF EndBlock, Polled
  <2>3. ew' \in Window /\ Linked(ad', ew')
    <3>0. 0 \in 0..CaptureCapacity
      BY Capacities
    <3>1. ew' \in Window
      BY <1>1, <2>2, <3>0 DEF Window
    <3>2. IdleWindow(ew')
      BY <1>1, <2>1, <2>2 DEF Window, IdleWindow
    <3>. QED BY <1>1, <3>1, <3>2 DEF Linked
  <2>4. CASE ew.count > SaveLimit
    <3>1. saved' = saved /\ fate' = "tooLarge"
      BY <1>3, <2>4 DEF EndBlock
    <3>. QED BY <1>1, <2>3, <3>1 DEF IInv, TypeOK, SavedWhole
  <2>5. CASE ~(ew.count > SaveLimit)
    <3>. DEFINE s == [type |-> ew.event.type, dur |-> ew.event.dur,
                      count |-> ew.count, pre |-> ew.preAtStart]
    <3>1. saved' = s /\ fate' = "saved"
      BY <1>3, <2>5 DEF EndBlock
    <3>2. /\ ew.event \in Event /\ ew.count \in Nat /\ ew.preAtStart \in Nat
          /\ ew.count = ew.preAtStart + ew.event.dur + 1 + Post
      BY <1>1, <1>3, <2>1, Capacities DEF Window, IdleWindow
    <3>3. /\ s \in [type : Type \cup {"none"}, dur : Nat, count : Nat, pre : Nat]
          /\ s.type = ew.event.type /\ s.dur = ew.event.dur
          /\ s.count = s.pre + s.dur + 1 + Post
      BY <3>2 DEF Event
    <3>. HIDE DEF s
    <3>4. WholeEvent(s)
      BY <2>1, <3>3 DEF WholeEvent
    <3>5. TypeOK'
      BY <1>1, <2>3, <3>1, <3>3 DEF TypeOK
    <3>6. SavedWhole'
      BY <3>1, <3>3 DEF SavedWhole
    <3>7. (saved.type # "none" => WholeEvent(saved))'
      BY <3>1, <3>4 DEF WholeEvent
    <3>. QED BY <2>3, <3>5, <3>6, <3>7 DEF IInv
  <2>. QED BY <2>4, <2>5
<1>. QED BY <1>2, <1>3

LEMMA StutterInv ==
    ASSUME IInv, UNCHANGED vars
    PROVE  IInv'
BY DEF IInv, TypeOK, SavedWhole, WholeEvent, vars

(* Detector and window stay linked, and what was saved was whole.          *)
THEOREM Invariance == Spec => []IInv
<1>1. IInv /\ [Next]_vars => IInv'
  BY SampleInv, EndBlockInv, StutterInv DEF Next
<1>. QED BY InitInv, <1>1, PTL DEF Spec

-----------------------------------------------------------------------------
(* What follows from it.                                                   *)

(* Detector and window are always of their types; in particular neither    *)
(* buffer of event_window.c ever holds more samples than its capacity.     *)
THEOREM TypeCorrect == Spec => []TypeOK
<1>1. IInv => TypeOK
  BY DEF IInv
<1>. QED BY Invariance, <1>1, PTL

(* Whatever the limits, cooldowns and window lengths, a capture is always  *)
(* of the event the detector is in, and holds every sample of it.          *)
THEOREM CaptureInStep == Spec => []InStep
<1>1. IInv => InStep
  <2>. SUFFICES ASSUME IInv, ew.state = "capturing" PROVE InStep
    BY DEF InStep
  <2>1. CapturingWindow(ad, ew) /\ ad.dur >= 1
    BY DEF IInv, Linked, IdleWindow, PostWindow, CapturingWindow
  <2>2. ad.dur \in Nat /\ MaxEvent \in Nat
    BY ConfigAssumption, BoundAssumption DEF IInv, TypeOK, Detector
  <2>. QED BY <2>1, <2>2 DEF InStep, CapturingWindow
<1>. QED BY Invariance, <1>1, PTL

(* Whatever the configuration, a saved capture is the pre-event samples,   *)
(* the whole event, the sample that ended it and all the post-event ones:  *)
(* the capture buffer that event_window_init allocates never truncates it. *)
THEOREM NeverTruncated == Spec => []SavedWhole
<1>1. IInv => SavedWhole
  BY DEF IInv
<1>. QED BY Invariance, <1>1, PTL

(* The length limit always finds the detector in its event.                *)
THEOREM LimitFindsEvent == Spec => []ForceFindsEvent
<1>1. IInv => ForceFindsEvent
  <2>. SUFFICES ASSUME IInv, NEW class \in Type \cup {"normal"},
                       PushSample(Notify(ew, ProcessSample(ad, class).note)).maxHit
                PROVE  ProcessSample(ad, class).ad.type # "none"
    BY DEF ForceFindsEvent
  <2>. DEFINE seen == ProcessSample(ad, class)
              told == Notify(ew, seen.note)
              after == PushSample(told)
  <2>1. ad \in Detector /\ ew \in Window /\ Linked(ad, ew)
    BY DEF IInv, TypeOK
  <2>2. Processed(ad, seen)
    BY <2>1, ProcessFact DEF Linked
  <2>3. told \in Window /\ Notified(seen.ad, told)
    BY <2>1, <2>2, NotifyFact
  <2>4. /\ seen.ad \in Detector
        /\ seen.ad.warm > 0 => seen.ad.type = "none"
        /\ seen.ad.type \in Type => seen.ad.dur >= 1
    BY <2>1, <2>2, ProcessedFact
  <2>5. Pushed(seen.ad, after)
    BY <2>3, <2>4, PushFact
  <2>6. seen.ad.type \in Type
    BY <2>5 DEF Pushed
  <2>. QED BY <2>6 DEF Type
<1>. QED BY Invariance, <1>1, PTL

(* Whatever the configuration, an event shorter than its type's minimum is *)
(* stored only if it was forced to end at the limit on its length and the  *)
(* minimum is longer than the limit.                                       *)
THEOREM LongEnough == Spec => []SavedLongEnough
<1>1. IInv => SavedLongEnough
  <2>. SUFFICES ASSUME IInv, saved.type # "none", saved.dur < MinDuration[saved.type]
                PROVE  saved.dur = MaxEvent /\ MinDuration[saved.type] > MaxEvent
    BY DEF SavedLongEnough
  <2>1. WholeEvent(saved)
    BY DEF IInv
  <2>2. MinDuration[saved.type] \in Nat
    BY <2>1, ConfigAssumption DEF WholeEvent, MinDuration
  <2>3. saved.dur = MaxEvent
    BY <2>1, <2>2 DEF WholeEvent
  <2>. QED BY <2>2, <2>3
<1>. QED BY Invariance, <1>1, PTL
=============================================================================
