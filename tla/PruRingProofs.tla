--------------------------- MODULE PruRingProofs ---------------------------
(***************************************************************************)
(* For every geometry of the ring, every count at which sample_count       *)
(* overflows and any number of blocks and failed conversions: what a slot  *)
(* marked complete holds, and what the reader takes as long as the         *)
(* firmware does not lap it.                                               *)
(*                                                                         *)
(* sample_count is a number modulo CountMod and says nothing of which      *)
(* block is meant.  The invariant counts blocks from the firmware's side   *)
(* instead: the block gen is being filled, Top is the last one closed, and *)
(* Cur the last one the reader has committed to, Pending blocks behind.    *)
(***************************************************************************)
EXTENDS PruRing, TLAPS

-----------------------------------------------------------------------------
(* The inductive invariant.                                                *)

Copied == {"desc", "data", "push"}
Committed == Copied \cup {"size"}

(* A block is under way in the slot writeIdx; or it is closed and not yet
   announced.                                                              *)
Writing == pruAt \notin {"trigger", "clearNum", "setCount"} \/ smp > 0
Unpublished == IF Writing \/ pruAt = "setCount" THEN 1 ELSE 0
Ahead == IF pruAt = "setCount" THEN 1 ELSE 0
Top == gen - 1 + Ahead
Cur == gen - 1 - Pending

(* Where the firmware is determines how many samples of its block there are. *)
FirmwareInv ==
    /\ pruAt \in {"trigger", "store"} => smp < BlockSize
    /\ pruAt \in {"clearNum", "clearFlags", "setCount"} => smp = 0
    /\ pruAt \in {"setNum", "setFlags", "setIndex"} => smp = BlockSize
    /\ pruAt # "trigger" \/ smp > 0 => gen <= MaxBlocks

(* The slot being filled is not complete before the block is whole.        *)
FillInv ==
    /\ Writing => \A i \in 1..smp : samples[writeIdx][i] = gen
    /\ pruAt = "clearFlags" => desc[writeIdx].num = 0
    /\ pruAt \in {"store", "setNum", "setFlags"} \/ (pruAt = "trigger" /\ smp > 0) =>
          ~desc[writeIdx].complete
    /\ pruAt \in {"setFlags", "setIndex"} =>
          desc[writeIdx].num = BlockSize /\ desc[writeIdx].period = Period
    /\ pruAt = "setIndex" => desc[writeIdx].complete

(* How many blocks ago slot b was closed, and what it holds since.         *)
Back(b) == IF b < writeIdx THEN writeIdx - 1 - b ELSE writeIdx - 1 - b + NumBlocks
HoldsBlock(b, g) ==
    /\ desc[b].complete /\ desc[b].num = BlockSize /\ desc[b].period = Period
    /\ \A i \in SampleIdx : samples[b][i] = g
SlotsInv ==
    \A b \in Blk :
        (b # writeIdx \/ ~Writing) /\ Top - Back(b) >= 1 => HoldsBlock(b, Top - Back(b))

(* The count announced, and the index of the slot that goes with it.       *)
CountInv ==
    /\ Completed \in 0..CountMod - 1
    /\ sampleCount = BlockSize * Completed
    /\ writeIdx = (Completed + Ahead) % NumBlocks
    /\ Completed <= gen - 1
    /\ ~Wrapped => Completed = gen - 1

(* The reader asks for the block after the last it committed to.           *)
ReaderInv ==
    /\ readAt \in {"flags", "num"} => last # Unset /\ next = last + 1
    /\ readAt \in Committed => last = next
    /\ readAt # "idle" => next \in 1..CountMod - 1
    /\ readAt = "data" => copied < size
    /\ last = Unset => readAt = "idle"
    /\ (taken = <<>>) <=> (nextCycles = Unset)
    /\ last = Unset => taken = <<>>

(* Not lapped, the block the reader wants is in its slot: no more blocks are
   pending than the ring has slots for, the one being filled included.     *)
WantedInv ==
    /\ Held + Unpublished <= NumBlocks
    /\ readAt \in {"flags", "num"} => Pending >= 1
    /\ Pending <= gen - 1

(* ... and what is copied so far is that block.                            *)
CopyInv ==
    /\ readAt \in Committed => Cur >= 1
    /\ readAt \in Copied => size = BlockSize
    /\ readAt \in {"data", "push"} =>
          /\ buf.desc.num = BlockSize /\ buf.desc.period = Period
          /\ \A i \in 1..copied : buf.data[i] = Cur
    /\ readAt = "push" => copied = BlockSize

(* ... and what was taken are whole blocks in order, all before the block
   committed to.                                                           *)
Newest == BlockOf(taken[Len(taken)])
Due == IF readAt \in Committed THEN Cur - 1 ELSE Cur
NoGap == \A i \in 2..Len(taken) : BlockOf(taken[i]) = BlockOf(taken[i - 1]) + 1
TakenInv ==
    /\ \A i \in DOMAIN taken : Intact(taken[i])
    /\ Rising
    /\ \A i \in DOMAIN taken : BlockOf(taken[i]) <= Due
    /\ ~Wrapped => NoGap
    /\ ~Wrapped /\ taken # <<>> => Newest = Due

(* The reader's stamps are as far apart as the blocks; the firmware's time
   keeps pace with the samples, from the start of any block to that of a later
   one and to now.                                                         *)
BlockTime == BlockSize * Period
FirstOf(g) == (g - 1) * BlockSize
Done == Top * BlockSize + smp
Begun == {g \in 1..MaxBlocks : g <= Top \/ (g = gen /\ Writing)}
\* n samples in t cycles, with k failed conversions among them
Fits(n, t, s, k) ==
    -n <= t - n * Period /\ t - n * Period <= n * s + k * TimeoutCycles
ClockInv ==
    /\ \A g \in Begun : Fits(Done - FirstOf(g), now - began[g], Slack, timeouts)
    /\ \A g, h \in Begun : g <= h =>
          Fits(FirstOf(h) - FirstOf(g), began[h] - began[g], Slack, timeouts)
StampInv ==
    /\ \A i \in DOMAIN taken :
          taken[i].stamp - taken[1].stamp = (BlockOf(taken[i]) - BlockOf(taken[1])) * BlockTime
    /\ taken # <<>> => nextCycles = taken[Len(taken)].stamp + BlockTime
    /\ \A i \in DOMAIN taken : BlockOf(taken[1]) <= BlockOf(taken[i])

SlotInv == FirmwareInv /\ FillInv /\ SlotsInv /\ CountInv /\ CompleteMeansWhole
IInv ==
    /\ TypeOK /\ SlotInv /\ ReaderInv
    /\ ~lapped => WantedInv /\ CopyInv /\ TakenInv
    /\ ClockInv
    /\ ~lapped /\ ~Wrapped => StampInv

-----------------------------------------------------------------------------
(* Arithmetic of counts and slots.                                         *)

LEMMA DivMod ==
    ASSUME NEW a \in Int, NEW n \in Nat \ {0}
    PROVE  a \div n \in Int /\ a % n \in 0..n - 1 /\ a = n * (a \div n) + (a % n)
OBVIOUS

LEMMA Euclid ==
    ASSUME NEW n \in Nat \ {0}, NEW q \in Int, NEW r \in 0..n - 1
    PROVE  (n * q + r) % n = r /\ (n * q + r) \div n = q
<1>. DEFINE a == n * q + r
            p == a \div n
            s == a % n
<1>1. a \in Int /\ p \in Int /\ s \in 0..n - 1 /\ n * q + r = n * p + s
  <2>1. n * q \in Int
    OBVIOUS
  <2>2. a \in Int
    BY <2>1
  <2>. QED BY <2>2, DivMod
<1>. HIDE DEF p, s
<1>2. n * (q - p) = s - r
  BY <1>1
<1>3. ASSUME q - p >= 1 PROVE FALSE
  <2>1. n * (q - p) >= n
    BY <1>1, <1>3
  <2>. QED BY <2>1, <1>2, <1>1
<1>4. ASSUME q - p <= -1 PROVE FALSE
  <2>1. n * (q - p) <= -n
    BY <1>1, <1>4
  <2>. QED BY <2>1, <1>2, <1>1
<1>5. q = p
  BY <1>1, <1>3, <1>4
<1>. QED BY <1>5, <1>1 DEF p, s

LEMMA DivExact ==
    ASSUME NEW n \in Nat \ {0}, NEW q \in Int
    PROVE  (n * q) \div n = q
<1>. DEFINE r == 0
<1>1. r \in 0..n - 1 /\ n * q \in Int /\ n * q + r = n * q
  OBVIOUS
<1>. HIDE DEF r
<1>2. (n * q + r) \div n = q
  BY <1>1, Euclid
<1>. QED BY <1>1, <1>2

(* A step of one, and of up to a whole turn, modulo n.                     *)
LEMMA ModTurn ==
    ASSUME NEW n \in Nat \ {0}, NEW l \in Nat, NEW d \in 0..n
    PROVE  (l + d) % n = IF (l % n) + d < n THEN (l % n) + d ELSE (l % n) + d - n
<1>. DEFINE q == l \div n
            r == l % n
<1>1. q \in Int /\ r \in 0..n - 1 /\ l = n * q + r
  BY DivMod
<1>. HIDE DEF q, r
<1>2. CASE r + d < n
  <2>1. l + d = n * q + (r + d) /\ r + d \in 0..n - 1
    BY <1>1, <1>2
  <2>2. (n * q + (r + d)) % n = r + d
    BY <1>1, <2>1, Euclid
  <2>. QED BY <2>1, <2>2, <1>2 DEF r
<1>3. CASE r + d >= n
  <2>1. n * (q + 1) = n * q + n
    BY <1>1
  <2>2. l + d = n * (q + 1) + (r + d - n) /\ r + d - n \in 0..n - 1 /\ q + 1 \in Int
    BY <1>1, <1>3, <2>1
  <2>3. (n * (q + 1) + (r + d - n)) % n = r + d - n
    BY <2>2, Euclid
  <2>. QED BY <1>1, <2>2, <2>3, <1>3 DEF r
<1>. QED BY <1>1, <1>2, <1>3

LEMMA ModDifference ==
    ASSUME NEW n \in Nat \ {0}, NEW c \in 0..n - 1, NEW l \in 0..n - 1
    PROVE  (c - l) % n = IF c >= l THEN c - l ELSE c - l + n
<1>1. CASE c >= l
  <2>1. c - l = n * 0 + (c - l) /\ c - l \in 0..n - 1
    BY <1>1
  <2>. QED BY <2>1, Euclid, <1>1
<1>2. CASE c < l
  <2>1. c - l = n * (-1) + (c - l + n) /\ c - l + n \in 0..n - 1
    BY <1>2
  <2>2. (n * (-1) + (c - l + n)) % n = c - l + n
    BY <2>1, Euclid
  <2>. QED BY <2>1, <2>2, <1>2
<1>. QED BY <1>1, <1>2

(* The count's overflow changes no slot: CountMod is a multiple of NumBlocks. *)
LEMMA ModPeriod ==
    ASSUME NEW c \in Nat
    PROVE  (c + CountMod) % NumBlocks = c % NumBlocks
<1>. DEFINE q == c \div NumBlocks
            r == c % NumBlocks
            k == CountMod \div NumBlocks
<1>1. NumBlocks \in Nat \ {0} /\ CountMod \in Nat /\ CountMod % NumBlocks = 0
  BY GeometryAssumption
<1>2. q \in Int /\ r \in 0..NumBlocks - 1 /\ c = NumBlocks * q + r
  BY <1>1, DivMod
<1>3. k \in Int /\ CountMod = NumBlocks * k
  BY <1>1, DivMod
<1>. HIDE DEF q, r, k
<1>4. NumBlocks * (q + k) = NumBlocks * q + NumBlocks * k
  BY <1>1, <1>2, <1>3
<1>5. c + CountMod = NumBlocks * (q + k) + r /\ q + k \in Int
  BY <1>1, <1>2, <1>3, <1>4
<1>6. (NumBlocks * (q + k) + r) % NumBlocks = r
  BY <1>1, <1>2, <1>5, Euclid
<1>. QED BY <1>5, <1>6 DEF r

(* The slot of the block d blocks before the one that goes to slot w.      *)
LEMMA BackFact ==
    ASSUME NEW n \in Nat \ {0}, NEW l \in Nat, NEW d \in 1..n, NEW w, w = (l + d) % n
    PROVE  d - 1 = IF l % n < w THEN w - 1 - (l % n) ELSE w - 1 - (l % n) + n
<1>1. l % n \in 0..n - 1
  BY DivMod
<1>2. d \in 0..n
  OBVIOUS
<1>3. w = IF (l % n) + d < n THEN (l % n) + d ELSE (l % n) + d - n
  BY <1>2, ModTurn
<1>. QED BY <1>1, <1>3

(* sample_count as SetCount leaves it.                                     *)
LEMMA NextCount ==
    ASSUME CountInv, SetCount
    PROVE  /\ Completed' = IF Completed + 1 = CountMod THEN 0 ELSE Completed + 1
           /\ sampleCount' = BlockSize * Completed'
<1>. DEFINE c == Completed
            m == CountMod * BlockSize
<1>1. c \in 0..CountMod - 1 /\ sampleCount = BlockSize * c
  BY DEF CountInv
<1>2. sampleCount' = (sampleCount + BlockSize) % m
  BY DEF SetCount
<1>. HIDE DEF c
<1>3. m \in Nat \ {0} /\ sampleCount + BlockSize = BlockSize * (c + 1)
  BY <1>1, GeometryAssumption
<1>4. CASE c + 1 = CountMod
  <2>1. sampleCount + BlockSize = m * 1 + 0
    BY <1>1, <1>3, <1>4, GeometryAssumption
  <2>2. sampleCount' = 0
    BY <1>2, <1>3, <2>1, Euclid
  <2>3. sampleCount' = BlockSize * 0 + 0
    BY <2>2, GeometryAssumption
  <2>4. Completed' = 0
    BY <2>3, Euclid, GeometryAssumption DEF Completed
  <2>. QED BY <1>4, <2>2, <2>4, GeometryAssumption DEF c
<1>5. CASE c + 1 # CountMod
  <2>1. c + 1 <= CountMod - 1 /\ c + 1 \in Nat
    BY <1>1, <1>5, GeometryAssumption
  <2>2. BlockSize * (c + 1) <= BlockSize * (CountMod - 1)
    BY <2>1, GeometryAssumption
  <2>3. BlockSize * (CountMod - 1) = m - BlockSize
    BY GeometryAssumption
  <2>4. BlockSize * (c + 1) \in 0..m - 1
    BY <1>3, <2>1, <2>2, <2>3, GeometryAssumption
  <2>5. sampleCount + BlockSize = m * 0 + BlockSize * (c + 1)
    BY <1>3, <2>4
  <2>6. sampleCount' = BlockSize * (c + 1)
    BY <1>2, <1>3, <2>4, <2>5, Euclid
  <2>7. (BlockSize * (c + 1)) \div BlockSize = c + 1
    BY <2>1, DivExact, GeometryAssumption
  <2>8. Completed' = c + 1
    BY <2>6, <2>7 DEF Completed
  <2>. QED BY <1>5, <2>6, <2>8 DEF c
<1>. QED BY <1>4, <1>5

(* What is pending, without modulo.                                        *)
LEMMA PendingFact ==
    ASSUME CountInv, last \in (0..CountMod - 1) \cup {Unset}
    PROVE  /\ last = Unset => Pending = 0
           /\ last # Unset => Pending = IF Completed >= last THEN Completed - last
                                        ELSE Completed - last + CountMod
           /\ Pending \in 0..CountMod - 1
<1>1. Completed \in 0..CountMod - 1 /\ CountMod \in Nat \ {0}
  BY GeometryAssumption DEF CountInv
<1>2. CASE last = Unset
  BY <1>1, <1>2 DEF Pending
<1>3. CASE last # Unset
  <2>1. last \in 0..CountMod - 1
    BY <1>3
  <2>2. Pending = (Completed - last) % CountMod
    BY <1>3 DEF Pending
  <2>3. (Completed - last) % CountMod =
           IF Completed >= last THEN Completed - last ELSE Completed - last + CountMod
    BY <1>1, <2>1, ModDifference
  <2>. QED BY <1>1, <1>3, <2>1, <2>2, <2>3
<1>. QED BY <1>2, <1>3

-----------------------------------------------------------------------------
(* Types.                                                                  *)

LEMMA Geometry ==
    /\ NumBlocks \in Nat /\ NumBlocks >= 1 /\ BlockSize \in Nat /\ BlockSize >= 1
    /\ CountMod \in Nat /\ CountMod > NumBlocks
    /\ Period \in Nat /\ TimeoutCycles \in Nat /\ CcntMax \in Nat
    /\ MaxBlocks \in Nat /\ MaxBlocks >= 1 /\ MaxTimeouts \in Nat
    /\ MinWork \in Nat /\ MaxWork \in Nat /\ MaxLoop \in Nat /\ MaxPublish \in Nat
    /\ MinWork <= MaxWork /\ MaxLoop <= MaxPublish
BY GeometryAssumption, TimeAssumption, BoundAssumption

(* What a sample takes, against the period.                                *)
LEMMA PaceOfSample ==
    ASSUME now \in Nat, SampleTime
    PROVE  /\ now' \in Nat /\ now <= now'
           /\ -1 <= now' - now - Period
           /\ now' - now - Period <= Slack'
<1>. USE Geometry
<1>1. PICK work \in MinWork..MaxWork, over \in 0 .. (IF smp + 1 < BlockSize THEN MaxLoop ELSE MaxPublish) :
          now' = now + work + Delay(Ccnt(now + work) - Ccnt(now)) + over
  BY DEF SampleTime
<1>. DEFINE e == Ccnt(now + work) - Ccnt(now)
            d == Delay(e)
<1>2. work \in Nat /\ work <= MaxWork /\ over \in Nat /\ over <= MaxPublish
  BY <1>1
<1>3. e \in Nat /\ e <= work /\ (now + work <= CcntMax => e = work)
  BY <1>2 DEF Ccnt
<1>. HIDE DEF e
<1>4. d \in Nat /\ Period - 1 <= e + d /\ (e < Period => e + d <= Period) /\ (e >= Period => d = 0)
  <2>1. CASE e < Period
    <3>. DEFINE q == (Period - e) \div 2
    <3>1. q \in Int /\ 2 * q <= Period - e /\ 2 * q >= Period - e - 1 /\ Period - e >= 1
      BY <1>3, <2>1
    <3>2. d = 2 * q
      BY <2>1 DEF Delay
    <3>. HIDE DEF q, d
    <3>. QED BY <1>3, <2>1, <3>1, <3>2
  <2>2. CASE e >= Period
    <3>1. d = 0
      BY <1>3, <2>2 DEF Delay
    <3>. HIDE DEF d
    <3>. QED BY <1>3, <2>2, <3>1
  <2>. QED BY <1>3, <2>1, <2>2
<1>5. now' = now + work + d + over
  BY <1>1 DEF e
<1>. HIDE DEF d
<1>6. now' \in Nat /\ now <= now' /\ -1 <= now' - now - Period
      /\ now' - now - Period <= MaxWork + MaxPublish
  BY <1>2, <1>3, <1>4, <1>5
<1>7. ASSUME MaxWork <= Period, now' <= CcntMax
      PROVE  now' - now - Period <= MaxPublish
  BY <1>2, <1>3, <1>4, <1>5, <1>7
<1>. QED BY <1>6, <1>7 DEF Slack

LEMMA PruType == IInv /\ Pru => TypeOK'
<1>. SUFFICES ASSUME TypeOK, SlotInv, Pru PROVE TypeOK'
  BY DEF IInv
<1>. USE Geometry DEF header, reader, ghosts
<1>1. CASE Trigger
  BY <1>1 DEF Trigger, TypeOK
<1>2. CASE Timeout
  BY <1>2 DEF Timeout, TypeOK
<1>3. CASE ClearNum
  <2>1. gen \in 1..MaxBlocks
    BY <1>3 DEF ClearNum, TypeOK, SlotInv, FirmwareInv
  <2>2. began' \in [1..MaxBlocks -> Nat]
    BY <1>3, <2>1 DEF ClearNum, TypeOK
  <2>3. desc' \in [Blk -> Descriptor]
    <3>. DEFINE ts == Ccnt(now)
                x == [desc[writeIdx] EXCEPT !.ts = ts]
    <3>1. x \in Descriptor
      BY DEF TypeOK, Descriptor, Ccnt
    <3>2. desc' = [desc EXCEPT ![writeIdx] = [x EXCEPT !.num = 0]]
      BY <1>3 DEF ClearNum
    <3>. HIDE DEF x
    <3>3. [x EXCEPT !.num = 0] \in Descriptor
      BY <3>1 DEF Descriptor
    <3>. QED BY <3>2, <3>3 DEF TypeOK
  <2>4. lapped' \in BOOLEAN
    BY <1>3 DEF ClearNum, TypeOK
  <2>. QED BY <1>3, <2>2, <2>3, <2>4 DEF ClearNum, TypeOK
<1>4. CASE ClearFlags
  <2>1. desc' \in [Blk -> Descriptor]
    BY <1>4 DEF ClearFlags, TypeOK, Descriptor
  <2>. QED BY <1>4, <2>1 DEF ClearFlags, TypeOK
<1>5. CASE Store
  <2>1. smp + 1 \in 1..BlockSize /\ gen \in Gen
    BY <1>5 DEF Store, TypeOK, SlotInv, FirmwareInv, Gen
  <2>2. samples' \in [Blk -> Payload]
    BY <1>5, <2>1 DEF Store, TypeOK, Payload, SampleIdx
  <2>3. now' \in Nat
    BY <1>5, PaceOfSample DEF Store, TypeOK
  <2>. QED BY <1>5, <2>1, <2>2, <2>3 DEF Store, TypeOK
<1>6. CASE SetNum
  <2>1. desc' \in [Blk -> Descriptor]
    BY <1>6 DEF SetNum, TypeOK, Descriptor
  <2>. QED BY <1>6, <2>1 DEF SetNum, TypeOK
<1>7. CASE SetFlags
  <2>1. desc' \in [Blk -> Descriptor]
    BY <1>7 DEF SetFlags, TypeOK, Descriptor
  <2>. QED BY <1>7, <2>1 DEF SetFlags, TypeOK
<1>8. CASE SetIndex
  BY <1>8 DEF SetIndex, TypeOK, Blk
<1>9. CASE SetCount
  <2>1. sampleCount' \in 0..CountMod * BlockSize - 1
    <3>. DEFINE m == CountMod * BlockSize
                a == sampleCount + BlockSize
    <3>1. sampleCount \in 0..m - 1 /\ m \in Nat \ {0}
      BY DEF TypeOK
    <3>2. a \in Int /\ sampleCount' = a % m
      BY <1>9, <3>1 DEF SetCount
    <3>. HIDE DEF a, m
    <3>3. a % m \in 0..m - 1
      BY <3>1, <3>2, DivMod
    <3>. QED BY <3>2, <3>3 DEF m
  <2>2. gen <= MaxBlocks
    BY <1>9 DEF SetCount, SlotInv, FirmwareInv
  <2>. QED BY <1>9, <2>1, <2>2 DEF SetCount, TypeOK
<1>. QED BY <1>1, <1>2, <1>3, <1>4, <1>5, <1>6, <1>7, <1>8, <1>9 DEF Pru

LEMMA SlotOfType == ASSUME NEW n \in Int PROVE SlotOf(n) \in Blk
  BY Geometry, DivMod DEF SlotOf, Blk

LEMMA PushType ==
    ASSUME TypeOK
    PROVE  /\ Stamp \in Nat
           /\ Push => nextCycles' \in Nat
           /\ [stamp |-> Stamp, num |-> buf.desc.num, data |-> buf.data]
                 \in [stamp : Nat, num : 0..BlockSize, data : Payload]
<1>1. buf.desc \in Descriptor /\ buf.data \in Payload
  BY DEF TypeOK
<1>2. buf.desc.ts \in Nat /\ buf.desc.num \in 0..BlockSize /\ buf.desc.period \in Nat
  BY <1>1, Geometry DEF Descriptor
<1>3. Stamp \in Nat
  BY <1>2 DEF Stamp, TypeOK
<1>4. Push => nextCycles' \in Nat
  <2>1. buf.desc.num * buf.desc.period \in Nat
    BY <1>2, Geometry
  <2>. QED BY <1>3, <2>1 DEF Push
<1>. QED BY <1>1, <1>2, <1>3, <1>4

LEMMA ReaderType == IInv /\ Reader => TypeOK'
<1>. SUFFICES ASSUME TypeOK, SlotInv, ReaderInv, Reader PROVE TypeOK'
  BY DEF IInv
<1>. USE Geometry DEF header, pru, ghosts
<1>. DEFINE S == SlotOf(next)
<1>0. S \in Blk /\ desc[S] \in Descriptor /\ samples[S] \in Payload
  <2>1. next \in Int
    BY DEF TypeOK
  <2>2. S \in Blk
    BY <2>1, SlotOfType
  <2>. QED BY <2>2 DEF TypeOK
<1>. HIDE DEF S
<1>00. Completed \in 0..CountMod - 1
  BY DEF SlotInv, CountInv
<1>1. CASE PollFirst
  BY <1>00, <1>1 DEF PollFirst, TypeOK
<1>2. CASE PollNothing
  BY <1>2 DEF PollNothing, vars, reader, TypeOK
<1>3. CASE PollResync
  BY <1>00, <1>3 DEF PollResync, TypeOK
<1>4. CASE PollReady
  <2>1. last \in 0..CountMod - 1
    BY <1>4 DEF PollReady, TypeOK
  <2>2. last' \in 0..CountMod - 1 /\ next' \in 0..CountMod
    BY <1>00, <1>4, <2>1 DEF PollReady
  <2>. QED BY <1>4, <2>2 DEF PollReady, TypeOK
<1>5. CASE CheckFlags
  BY <1>5 DEF CheckFlags, TypeOK
<1>6. CASE CheckNum
  <2>1. next \in 0..CountMod - 1
    BY <1>6 DEF CheckNum, ReaderInv
  <2>2. /\ UNCHANGED <<desc, samples, header, pru, next, size, buf, copied, nextCycles, taken, ghosts>>
        /\ last' \in {last, next} /\ readAt' \in {"size", "idle"}
    BY <1>6 DEF CheckNum
  <2>. QED BY <2>1, <2>2 DEF TypeOK
<1>7. CASE ReadSize
  <2>1. desc[S].num \in 0..BlockSize
    BY <1>0 DEF Descriptor
  <2>2. /\ UNCHANGED <<desc, samples, header, pru, last, next, buf, copied, nextCycles, taken, ghosts>>
        /\ size' = desc[S].num /\ readAt' = "desc"
    BY <1>7 DEF ReadSize, S
  <2>. QED BY <2>1, <2>2 DEF TypeOK
<1>8. CASE CopyDesc
  <2>1. buf' \in [desc : Descriptor, data : Payload]
    BY <1>0, <1>8 DEF CopyDesc, TypeOK, S
  <2>2. /\ UNCHANGED <<desc, samples, header, pru, last, next, size, nextCycles, taken, ghosts>>
        /\ copied' = 0 /\ readAt' \in {"push", "data"}
    BY <1>8 DEF CopyDesc
  <2>. QED BY <2>1, <2>2 DEF TypeOK
<1>9. CASE CopySample
  <2>1. copied + 1 \in SampleIdx
    <3>1. readAt = "data" /\ copied \in 0..BlockSize /\ size \in 0..BlockSize
      BY <1>9 DEF CopySample, TypeOK
    <3>2. copied < size
      BY <3>1 DEF ReaderInv
    <3>. QED BY <3>1, <3>2 DEF SampleIdx
  <2>2. [buf.data EXCEPT ![copied + 1] = samples[S][copied + 1]] \in Payload
    BY <1>0, <2>1 DEF TypeOK, Payload
  <2>3. buf' = [buf EXCEPT !.data = [buf.data EXCEPT ![copied + 1] = samples[S][copied + 1]]]
    BY <1>9 DEF CopySample, TypeOK, S
  <2>4. buf' \in [desc : Descriptor, data : Payload]
    BY <2>2, <2>3 DEF TypeOK
  <2>5. /\ UNCHANGED <<desc, samples, header, pru, last, next, size, nextCycles, taken, ghosts>>
        /\ copied' = copied + 1 /\ readAt' \in {"push", "data"}
    BY <1>9 DEF CopySample
  <2>. QED BY <2>1, <2>4, <2>5 DEF TypeOK, SampleIdx
<1>10. CASE Push
  <2>. DEFINE R == [stamp : Nat, num : 0..BlockSize, data : Payload]
              e == [stamp |-> Stamp, num |-> buf.desc.num, data |-> buf.data]
  <2>1. /\ UNCHANGED <<desc, samples, header, pru, last, next, size, buf, copied, ghosts>>
        /\ taken' = Append(taken, e) /\ readAt' = "idle"
    BY <1>10 DEF Push
  <2>2. taken \in Seq(R) /\ e \in R
    BY PushType DEF TypeOK
  <2>. HIDE DEF R, e
  <2>3. taken' \in Seq(R)
    BY <2>1, <2>2
  <2>4. nextCycles' \in Nat
    BY <1>10, PushType
  <2>. QED BY <2>1, <2>3, <2>4 DEF TypeOK, R
<1>. QED BY <1>1, <1>2, <1>3, <1>4, <1>5, <1>6, <1>7, <1>8, <1>9, <1>10 DEF Reader

-----------------------------------------------------------------------------
(* The firmware's side: a slot marked complete holds a whole block.        *)

(* What each store of the firmware leaves in the slot it fills.            *)
LEMMA StoreFact ==
    ASSUME TypeOK
    PROVE  /\ ClearNum => desc'[writeIdx].num = 0
           /\ ClearFlags => desc'[writeIdx].complete = FALSE
           /\ SetNum => /\ desc'[writeIdx].num = smp /\ desc'[writeIdx].period = Period
                        /\ desc'[writeIdx].complete = desc[writeIdx].complete
           /\ SetFlags => /\ desc'[writeIdx].num = desc[writeIdx].num
                          /\ desc'[writeIdx].period = desc[writeIdx].period
                          /\ desc'[writeIdx].complete = TRUE
           /\ Store => \A i \in SampleIdx :
                 samples'[writeIdx][i] = IF i = smp + 1 THEN gen ELSE samples[writeIdx][i]
<1>1. ASSUME ClearNum PROVE desc'[writeIdx].num = 0
  <2>. DEFINE x == [desc[writeIdx] EXCEPT !.ts = Ccnt(now)]
  <2>1. desc' = [desc EXCEPT ![writeIdx] = [x EXCEPT !.num = 0]]
    BY <1>1 DEF ClearNum
  <2>2. x \in Descriptor
    BY Geometry DEF TypeOK, Descriptor, Ccnt
  <2>. HIDE DEF x
  <2>3. [x EXCEPT !.num = 0].num = 0
    BY <2>2 DEF Descriptor
  <2>. QED BY <2>1, <2>3 DEF TypeOK
<1>2. ASSUME ClearFlags PROVE desc'[writeIdx].complete = FALSE
  <2>. DEFINE x == [desc[writeIdx] EXCEPT !.complete = FALSE]
  <2>1. desc' = [desc EXCEPT ![writeIdx] = [x EXCEPT !.period = 0]]
    BY <1>2 DEF ClearFlags
  <2>2. x \in Descriptor /\ x.complete = FALSE
    BY DEF TypeOK, Descriptor
  <2>. HIDE DEF x
  <2>3. [x EXCEPT !.period = 0].complete = FALSE
    BY <2>2 DEF Descriptor
  <2>. QED BY <2>1, <2>3 DEF TypeOK
<1>3. ASSUME SetNum
      PROVE  /\ desc'[writeIdx].num = smp /\ desc'[writeIdx].period = Period
             /\ desc'[writeIdx].complete = desc[writeIdx].complete
  <2>. DEFINE x == [desc[writeIdx] EXCEPT !.period = Period]
              y == [x EXCEPT !.num = smp]
  <2>1. desc' = [desc EXCEPT ![writeIdx] = y]
    BY <1>3 DEF SetNum
  <2>2. x \in Descriptor /\ x.period = Period /\ x.complete = desc[writeIdx].complete
    BY DEF TypeOK, Descriptor
  <2>. HIDE DEF x
  <2>3. y.num = smp /\ y.period = x.period /\ y.complete = x.complete
    BY <2>2 DEF Descriptor
  <2>. HIDE DEF y
  <2>. QED BY <2>1, <2>2, <2>3 DEF TypeOK
<1>4. ASSUME SetFlags
      PROVE  /\ desc'[writeIdx].num = desc[writeIdx].num
             /\ desc'[writeIdx].period = desc[writeIdx].period
             /\ desc'[writeIdx].complete = TRUE
  BY <1>4 DEF SetFlags, TypeOK, Descriptor
<1>5. ASSUME Store, NEW i \in SampleIdx
      PROVE  samples'[writeIdx][i] = IF i = smp + 1 THEN gen ELSE samples[writeIdx][i]
  BY <1>5 DEF Store, TypeOK, Payload
<1>. QED BY <1>1, <1>2, <1>3, <1>4, <1>5

LEMMA OtherSlots ==
    ASSUME TypeOK, Pru, NEW b \in Blk, b # writeIdx
    PROVE  desc'[b] = desc[b] /\ samples'[b] = samples[b]
BY DEF TypeOK, Pru, Trigger, Timeout, ClearNum, ClearFlags, Store, SetNum, SetFlags,
       SetIndex, SetCount

LEMMA FirmwareStep == ASSUME TypeOK, FirmwareInv, Pru PROVE FirmwareInv'
<1>. USE Geometry DEF FirmwareInv, TypeOK
<1>1. CASE Trigger BY <1>1 DEF Trigger, ghosts
<1>2. CASE Timeout BY <1>2 DEF Timeout, ghosts
<1>3. CASE ClearNum BY <1>3 DEF ClearNum
<1>4. CASE ClearFlags
  <2>1. pruAt = "clearFlags" /\ pruAt' = "store" /\ UNCHANGED <<smp, gen>>
    BY <1>4 DEF ClearFlags, ghosts
  <2>. QED BY <2>1
<1>5. CASE Store BY <1>5 DEF Store, ghosts
<1>6. CASE SetNum BY <1>6 DEF SetNum, ghosts
<1>7. CASE SetFlags BY <1>7 DEF SetFlags, ghosts
<1>8. CASE SetIndex BY <1>8 DEF SetIndex, ghosts
<1>9. CASE SetCount BY <1>9 DEF SetCount
<1>. QED BY <1>1, <1>2, <1>3, <1>4, <1>5, <1>6, <1>7, <1>8, <1>9 DEF Pru

LEMMA FillStep == ASSUME TypeOK, FirmwareInv, FillInv, Pru PROVE FillInv'
<1>. USE Geometry DEF FirmwareInv, FillInv, Writing
<1>0. smp \in 0..BlockSize /\ writeIdx \in Blk
  BY DEF TypeOK
<1>1. CASE Trigger BY <1>0, <1>1 DEF Trigger, header, ghosts
<1>2. CASE Timeout BY <1>0, <1>2 DEF Timeout
<1>3. CASE ClearNum BY <1>0, <1>3, StoreFact DEF ClearNum, header
<1>4. CASE ClearFlags BY <1>0, <1>4, StoreFact DEF ClearFlags, header, ghosts
<1>5. CASE Store BY <1>0, <1>5, StoreFact DEF Store, header, ghosts, SampleIdx
<1>6. CASE SetNum BY <1>0, <1>6, StoreFact DEF SetNum, header, ghosts
<1>7. CASE SetFlags BY <1>0, <1>7, StoreFact DEF SetFlags, header, ghosts
<1>8. CASE SetIndex BY <1>0, <1>8 DEF SetIndex, ghosts
<1>9. CASE SetCount BY <1>0, <1>9 DEF SetCount
<1>. QED BY <1>1, <1>2, <1>3, <1>4, <1>5, <1>6, <1>7, <1>8, <1>9 DEF Pru

LEMMA WholeStep == ASSUME TypeOK, FirmwareInv, FillInv, CompleteMeansWhole, Pru
                   PROVE  CompleteMeansWhole'
<1>. SUFFICES ASSUME NEW b \in Blk, (desc[b].complete)', (desc[b].num # 0)'
              PROVE  (desc[b].num = BlockSize /\ Whole(samples[b]))'
  BY DEF CompleteMeansWhole
<1>. USE DEF Whole
<1>0. CASE b # writeIdx
  BY <1>0, OtherSlots DEF CompleteMeansWhole
<1>. SUFFICES ASSUME b = writeIdx PROVE (desc[b].num = BlockSize /\ Whole(samples[b]))'
  BY <1>0
<1>1. CASE desc' = desc /\ samples' = samples
  BY <1>1 DEF CompleteMeansWhole
<1>3. CASE ClearNum BY <1>3, StoreFact
<1>4. CASE ClearFlags BY <1>4, StoreFact
<1>5. CASE Store BY <1>5 DEF Store, FillInv
<1>6. CASE SetNum BY <1>6, StoreFact DEF SetNum, FillInv
<1>7. CASE SetFlags
  <2>1. smp = BlockSize /\ desc[b].num = BlockSize /\ samples' = samples
    BY <1>7 DEF SetFlags, FirmwareInv, FillInv
  <2>2. \A i \in SampleIdx : samples[b][i] = gen
    BY <1>7, <2>1 DEF SetFlags, FillInv, Writing, SampleIdx
  <2>. QED BY <1>7, <2>1, <2>2, StoreFact, Geometry DEF SampleIdx
<1>. QED BY <1>1, <1>3, <1>4, <1>5, <1>6, <1>7 DEF Pru, Trigger, Timeout, SetIndex, SetCount

LEMMA CountStep == ASSUME TypeOK, FirmwareInv, CountInv, Pru PROVE CountInv'
<1>. USE Geometry
<1>0. writeIdx \in Blk /\ Completed \in 0..CountMod - 1 /\ gen \in Nat
  BY DEF TypeOK, CountInv
<1>1. CASE UNCHANGED <<sampleCount, writeIdx, gen>> /\ Ahead' = Ahead
  BY <1>1 DEF CountInv, Completed, Wrapped
<1>2. CASE SetIndex
  <2>1. Ahead = 0 /\ Ahead' = 1 /\ UNCHANGED <<sampleCount, gen>>
    BY <1>2 DEF SetIndex, Ahead, ghosts
  <2>2. writeIdx = Completed % NumBlocks
    BY <1>0, <2>1 DEF CountInv
  <2>3. (Completed + 1) % NumBlocks =
           IF (Completed % NumBlocks) + 1 < NumBlocks THEN (Completed % NumBlocks) + 1
           ELSE (Completed % NumBlocks) + 1 - NumBlocks
    <3>1. 1 \in 0..NumBlocks /\ Completed \in Nat /\ NumBlocks \in Nat \ {0}
      BY <1>0
    <3>. QED BY <3>1, ModTurn
  <2>4. writeIdx' = (Completed + 1) % NumBlocks
    BY <1>0, <1>2, <2>2, <2>3 DEF SetIndex, Blk
  <2>5. Completed' = Completed /\ (Wrapped' <=> Wrapped)
    BY <2>1 DEF Completed, Wrapped
  <2>. QED BY <2>1, <2>4, <2>5 DEF CountInv
<1>3. CASE SetCount
  <2>1. Ahead = 1 /\ Ahead' = 0 /\ gen' = gen + 1 /\ writeIdx' = writeIdx
    BY <1>3 DEF SetCount, Ahead
  <2>2. Completed' = IF Completed + 1 = CountMod THEN 0 ELSE Completed + 1
    BY <1>3, NextCount
  <2>3. sampleCount' = BlockSize * Completed'
    BY <1>3, NextCount
  <2>4. writeIdx = (Completed + 1) % NumBlocks
    BY <2>1 DEF CountInv
  <2>5. writeIdx' = (Completed' + Ahead') % NumBlocks
    <3>1. CASE Completed + 1 = CountMod
      <4>1. 0 % NumBlocks = 0
        BY DivMod, Euclid
      <4>. QED BY <2>1, <2>2, <2>4, <3>1, <4>1, GeometryAssumption
    <3>2. CASE Completed + 1 # CountMod
      <4>1. Completed' + Ahead' = Completed + 1
        BY <1>0, <2>1, <2>2, <3>2
      <4>. QED BY <2>1, <2>4, <4>1
    <3>. QED BY <3>1, <3>2
  <2>6. Completed' \in 0..CountMod - 1 /\ Completed' <= gen' - 1
    BY <1>0, <2>1, <2>2 DEF CountInv
  <2>7. ASSUME ~Wrapped' PROVE Completed' = gen' - 1
    BY <1>0, <2>1, <2>2, <2>7 DEF CountInv, Wrapped
  <2>. QED BY <2>3, <2>5, <2>6, <2>7 DEF CountInv
<1>. QED BY <1>1, <1>2, <1>3 DEF Pru, Trigger, Timeout, ClearNum, ClearFlags, Store, SetNum,
        SetFlags, header, ghosts, Ahead

(* After SetIndex every slot is one block further back, the slot just
   closed, which was NumBlocks - 1 back, excepted.                         *)
LEMMA BackTurns ==
    ASSUME writeIdx \in Blk, SetIndex, NEW b \in Blk
    PROVE  /\ b # writeIdx => Back(b)' = Back(b) + 1
           /\ b = writeIdx => Back(b)' = 0
BY Geometry DEF SetIndex, Back, Blk

LEMMA SlotsStep == ASSUME TypeOK, FirmwareInv, FillInv, SlotsInv, Pru PROVE SlotsInv'
<1>. USE Geometry
<1>. SUFFICES ASSUME NEW b \in Blk, (b # writeIdx \/ ~Writing)', (Top - Back(b) >= 1)'
              PROVE  HoldsBlock(b, Top - Back(b))'
  BY DEF SlotsInv
<1>0. writeIdx \in Blk /\ gen \in Nat
  BY DEF TypeOK
<1>1. CASE Trigger \/ Timeout \/ ClearNum \/ ClearFlags \/ Store \/ SetNum \/ SetFlags
  <2>1. writeIdx' = writeIdx /\ Top' = Top /\ Back(b)' = Back(b)
    BY <1>1 DEF Trigger, Timeout, ClearNum, ClearFlags, Store, SetNum, SetFlags, header, ghosts,
                Top, Ahead, Back
  <2>2. CASE b # writeIdx
    <3>1. HoldsBlock(b, Top - Back(b))
      BY <2>1, <2>2 DEF SlotsInv
    <3>2. desc'[b] = desc[b] /\ samples'[b] = samples[b]
      BY <2>2, OtherSlots
    <3>. QED BY <2>1, <3>1, <3>2 DEF HoldsBlock
  <2>3. CASE b = writeIdx
    <3>1. ~Writing'
      BY <2>1, <2>3
    <3>0. smp \in Nat
      BY DEF TypeOK
    <3>2. ~Writing /\ desc' = desc /\ samples' = samples
      <4>1. CASE Trigger \/ Timeout
        BY <3>0, <3>1, <4>1 DEF Trigger, Timeout, Writing
      <4>2. CASE Store
        BY <3>0, <3>1, <4>2 DEF Store, Writing
      <4>3. CASE ClearNum \/ ClearFlags \/ SetNum \/ SetFlags
        BY <3>1, <4>3 DEF ClearNum, ClearFlags, SetNum, SetFlags, Writing
      <4>. QED BY <1>1, <4>1, <4>2, <4>3
    <3>3. HoldsBlock(b, Top - Back(b))
      BY <2>1, <3>2 DEF SlotsInv
    <3>. QED BY <2>1, <3>2, <3>3 DEF HoldsBlock
  <2>. QED BY <2>2, <2>3
<1>2. CASE SetIndex
  <2>1. Top = gen - 1 /\ Top' = gen /\ desc' = desc /\ samples' = samples
    BY <1>0, <1>2 DEF SetIndex, Top, Ahead, ghosts
  <2>2. CASE b # writeIdx
    <3>1. Back(b)' = Back(b) + 1 /\ Back(b) \in Int
      BY <1>0, <1>2, <2>2, BackTurns DEF Back, Blk
    <3>2. Top' - Back(b)' = Top - Back(b)
      BY <1>0, <2>1, <3>1
    <3>3. HoldsBlock(b, Top - Back(b))
      BY <2>2, <3>2 DEF SlotsInv
    <3>. QED BY <2>1, <3>2, <3>3 DEF HoldsBlock
  <2>3. CASE b = writeIdx
    <3>1. Top' - Back(b)' = gen
      BY <1>0, <1>2, <2>1, <2>3, BackTurns
    <3>2. smp = BlockSize /\ Writing
      BY <1>2 DEF SetIndex, FirmwareInv, Writing
    <3>3. HoldsBlock(b, gen)
      BY <1>2, <2>3, <3>2 DEF SetIndex, FillInv, HoldsBlock, SampleIdx
    <3>. QED BY <2>1, <3>1, <3>3 DEF HoldsBlock
  <2>. QED BY <2>2, <2>3
<1>3. CASE SetCount
  <2>1. ~Writing /\ desc' = desc /\ samples' = samples /\ Top' = Top /\ Back(b)' = Back(b)
    BY <1>0, <1>3 DEF SetCount, FirmwareInv, Writing, Top, Ahead, Back
  <2>2. HoldsBlock(b, Top - Back(b))
    BY <2>1 DEF SlotsInv
  <2>. QED BY <2>1, <2>2 DEF HoldsBlock
<1>. QED BY <1>1, <1>2, <1>3 DEF Pru

LEMMA SlotPru == IInv /\ Pru => SlotInv'
BY FirmwareStep, FillStep, WholeStep, CountStep, SlotsStep DEF IInv, SlotInv

LEMMA SlotReader == SlotInv /\ Reader => SlotInv'
BY DEF SlotInv, FirmwareInv, FillInv, SlotsInv, HoldsBlock, CountInv, CompleteMeansWhole, Whole,
       Writing, Top, Back, Ahead, Completed, Wrapped,
       Reader, PollFirst, PollNothing, PollResync, PollReady, CheckFlags, CheckNum, ReadSize,
       CopyDesc, CopySample, Push, vars, header, pru, ghosts

-----------------------------------------------------------------------------
(* What the reader asks for, and how far behind it is.                     *)

LEMMA ReaderPru == ReaderInv /\ Pru => ReaderInv'
BY DEF ReaderInv, Pru, Trigger, Timeout, ClearNum, ClearFlags, Store, SetNum, SetFlags, SetIndex,
       SetCount, reader

LEMMA ReaderStep == IInv /\ Reader => ReaderInv'
<1>. SUFFICES ASSUME IInv, Reader PROVE ReaderInv'
  OBVIOUS
<1>. USE Geometry DEF ReaderInv, Committed, Copied
<1>0. /\ ReaderInv /\ Completed \in 0..CountMod - 1 /\ size \in 0..BlockSize /\ copied \in 0..BlockSize
      /\ last \in 0..CountMod - 1 \cup {Unset}
  BY DEF IInv, TypeOK, SlotInv, CountInv
<1>1. CASE PollFirst
  BY <1>0, <1>1 DEF PollFirst, Unset
<1>2. CASE PollNothing
  BY <1>0, <1>2 DEF PollNothing, vars, reader
<1>3. CASE PollResync
  BY <1>0, <1>3 DEF PollResync, Unset
<1>4. CASE PollReady
  <2>1. last \in 0..CountMod - 1 /\ Completed > last
    BY <1>0, <1>4 DEF PollReady
  <2>2. next' = last' + 1 /\ last' \in 0..CountMod - 1 /\ next' \in 1..CountMod - 1
    BY <1>0, <1>4, <2>1 DEF PollReady
  <2>3. readAt' = "flags" /\ UNCHANGED <<taken, nextCycles>>
    BY <1>4 DEF PollReady
  <2>4. last' # Unset
    BY <2>2 DEF Unset
  <2>5. (taken = <<>>) <=> (nextCycles = Unset)
    BY <1>0
  <2>. QED BY ONLY <2>2, <2>3, <2>4, <2>5 DEF ReaderInv, Committed, Copied
<1>5. CASE CheckFlags
  BY <1>0, <1>5 DEF CheckFlags
<1>6. CASE CheckNum
  <2>1. /\ readAt = "num" /\ readAt' \in {"size", "idle"} /\ UNCHANGED <<next, taken, nextCycles>>
        /\ last' = (IF readAt' = "size" THEN next ELSE last)
    BY <1>6 DEF CheckNum
  <2>. QED BY ONLY <1>0, <2>1, Geometry DEF ReaderInv, Committed, Copied, Unset
<1>7. CASE ReadSize
  <2>1. readAt = "size" /\ readAt' = "desc" /\ UNCHANGED <<last, next, taken, nextCycles>>
    BY <1>7 DEF ReadSize
  <2>. QED BY ONLY <1>0, <2>1 DEF ReaderInv, Committed, Copied
<1>8. CASE CopyDesc
  <2>1. /\ readAt = "desc" /\ readAt' = (IF size = 0 THEN "push" ELSE "data") /\ copied' = 0
        /\ UNCHANGED <<last, next, size, taken, nextCycles>>
    BY <1>8 DEF CopyDesc
  <2>. QED BY ONLY <1>0, <2>1, Geometry DEF ReaderInv, Committed, Copied
<1>9. CASE CopySample
  <2>1. /\ readAt = "data" /\ readAt' = (IF copied + 1 = size THEN "push" ELSE "data")
        /\ copied' = copied + 1 /\ UNCHANGED <<last, next, size, taken, nextCycles>>
    BY <1>9 DEF CopySample
  <2>. QED BY ONLY <1>0, <2>1, Geometry DEF ReaderInv, Committed, Copied
<1>10. CASE Push
  <2>1. nextCycles' \in Nat
    BY <1>10, PushType DEF IInv
  <2>2. taken' # <<>>
    <3>. DEFINE R == [stamp : Nat, num : 0..BlockSize, data : Payload]
                e == [stamp |-> Stamp, num |-> buf.desc.num, data |-> buf.data]
    <3>1. taken \in Seq(R) /\ e \in R /\ taken' = Append(taken, e)
      BY <1>10, PushType DEF Push, IInv, TypeOK
    <3>. HIDE DEF R, e
    <3>. QED BY ONLY <3>1
  <2>3. readAt = "push" /\ readAt' = "idle" /\ UNCHANGED <<last, next>>
    BY <1>10 DEF Push
  <2>. QED BY ONLY <1>0, <2>1, <2>2, <2>3 DEF ReaderInv, Committed, Copied, Unset
<1>. QED BY <1>1, <1>2, <1>3, <1>4, <1>5, <1>6, <1>7, <1>8, <1>9, <1>10 DEF Reader

(* What a step does to the number of pending blocks.                       *)
LEMMA PendingPru ==
    ASSUME IInv, Pru
    PROVE  /\ last' = last /\ readAt' = readAt /\ (Copying' <=> Copying)
           /\ ~SetCount \/ last = Unset => Pending' = Pending
           /\ SetCount /\ last # Unset /\ Pending + 1 < CountMod => Pending' = Pending + 1
<1>0. last' = last /\ readAt' = readAt
  BY DEF Pru, Trigger, Timeout, ClearNum, ClearFlags, Store, SetNum, SetFlags, SetIndex, SetCount,
         reader
<1>1. ~SetCount => sampleCount' = sampleCount
  BY DEF Pru, Trigger, Timeout, ClearNum, ClearFlags, Store, SetNum, SetFlags, SetIndex, header
<1>2. ~SetCount \/ last = Unset => Pending' = Pending
  BY <1>0, <1>1 DEF Pending, Completed
<1>3. ASSUME SetCount, last # Unset, Pending + 1 < CountMod PROVE Pending' = Pending + 1
  <2>1. last \in 0..CountMod - 1 /\ Completed \in 0..CountMod - 1
    BY <1>3 DEF IInv, TypeOK, SlotInv, CountInv
  <2>2. Pending = IF Completed >= last THEN Completed - last ELSE Completed - last + CountMod
    BY <1>3, <2>1, PendingFact DEF IInv, SlotInv
  <2>3. Completed' = IF Completed + 1 = CountMod THEN 0 ELSE Completed + 1
    BY <1>3, NextCount DEF IInv, SlotInv
  <2>4. Pending' = IF Completed' >= last THEN Completed' - last ELSE Completed' - last + CountMod
    <3>1. Completed' \in 0..CountMod - 1 /\ CountMod \in Nat \ {0}
      BY <2>1, <2>3, Geometry
    <3>2. (Completed' - last) % CountMod =
             IF Completed' >= last THEN Completed' - last ELSE Completed' - last + CountMod
      BY <2>1, <3>1, ModDifference
    <3>. QED BY <1>0, <1>3, <3>2 DEF Pending
  <2>. QED BY <1>3, <2>1, <2>2, <2>3, <2>4, Geometry
<1>. QED BY <1>0, <1>2, <1>3 DEF Copying

LEMMA PendingReader ==
    ASSUME IInv, Reader
    PROVE  /\ UNCHANGED <<gen, lapped, timeouts, sampleCount, writeIdx, pruAt, smp, desc, samples>>
           /\ last' = last => Pending' = Pending
           /\ PollFirst \/ PollResync => Pending' = 0
           /\ CheckNum /\ last' # last /\ Pending >= 1 => Pending' = Pending - 1
<1>0. UNCHANGED <<gen, lapped, timeouts, sampleCount, writeIdx, pruAt, smp, desc, samples>>
  BY DEF Reader, PollFirst, PollNothing, PollResync, PollReady, CheckFlags, CheckNum, ReadSize,
         CopyDesc, CopySample, Push, vars, header, pru, ghosts
<1>1. Completed' = Completed /\ Completed \in 0..CountMod - 1 /\ CountMod \in Nat \ {0}
  BY <1>0, Geometry DEF IInv, SlotInv, CountInv, Completed
<1>2. last' = last => Pending' = Pending
  BY <1>1 DEF Pending
<1>3. ASSUME PollFirst \/ PollResync PROVE Pending' = 0
  <2>1. last' = Completed
    BY <1>3 DEF PollFirst, PollResync
  <2>2. (Completed - last') % CountMod = 0
    BY <1>1, <2>1, ModDifference
  <2>. QED BY <1>1, <2>2 DEF Pending
<1>4. ASSUME CheckNum, last' # last, Pending >= 1 PROVE Pending' = Pending - 1
  <2>1. last # Unset /\ last' = last + 1 /\ last \in 0..CountMod - 1 /\ last' \in 1..CountMod - 1
    BY <1>4 DEF CheckNum, IInv, ReaderInv, TypeOK
  <2>2. Pending = IF Completed >= last THEN Completed - last ELSE Completed - last + CountMod
    BY <2>1, PendingFact DEF IInv, SlotInv
  <2>3. (Completed - last') % CountMod =
             IF Completed >= last' THEN Completed - last' ELSE Completed - last' + CountMod
    BY <1>1, <2>1, ModDifference
  <2>4. Pending' = (Completed - last') % CountMod
    BY <1>1, <2>1 DEF Pending, Unset
  <2>. QED BY <1>1, <1>4, <2>1, <2>2, <2>3, <2>4
<1>. QED BY <1>0, <1>2, <1>3, <1>4

-----------------------------------------------------------------------------
(* Not lapped: the block the reader wants stays in its slot.               *)

LEMMA Bounds ==
    ASSUME IInv
    PROVE  /\ Pending \in 0..CountMod - 1 /\ (last = Unset => Pending = 0)
           /\ gen \in Nat /\ gen >= 1 /\ smp \in 0..BlockSize /\ Unpublished \in {0, 1}
           /\ Completed \in 0..CountMod - 1 /\ Completed <= gen - 1
           /\ (last # Unset => last \in 0..CountMod - 1)
           /\ (last = Unset => readAt = "idle")
BY PendingFact, Geometry DEF IInv, SlotInv, CountInv, TypeOK, Unpublished, ReaderInv

(* The reader never sees more blocks announced than the ring holds, nor the
   count going back before it overflows.                                   *)
LEMMA NoOverrun ==
    ASSUME IInv, ~lapped
    PROVE  /\ PollReady => last' = last /\ next' = last + 1 /\ Pending >= 1
           /\ ~Wrapped => ~PollResync
<1>. USE Geometry
<1>0. WantedInv /\ Pending <= NumBlocks
  BY Bounds DEF IInv, WantedInv, Held
<1>1. ASSUME PollReady PROVE last' = last /\ next' = last + 1 /\ Pending >= 1
  <2>1. last # Unset /\ Completed > last
    BY <1>1 DEF PollReady
  <2>2. Pending = Completed - last
    BY <2>1, Bounds, PendingFact DEF IInv, SlotInv
  <2>. QED BY <1>0, <1>1, <2>1, <2>2, Bounds DEF PollReady
<1>2. ASSUME ~Wrapped, PollResync PROVE FALSE
  <2>1. last # Unset /\ Completed < last
    BY <1>2 DEF PollResync
  <2>2. Pending = Completed - last + CountMod
    BY <2>1, Bounds, PendingFact DEF IInv, SlotInv
  <2>3. Completed = gen - 1
    BY <1>2 DEF IInv, SlotInv, CountInv
  <2>. QED BY <1>0, <2>1, <2>2, <2>3, Bounds DEF WantedInv
<1>. QED BY <1>1, <1>2

LEMMA WantedPru ==
    ASSUME IInv, Pru, ~lapped'
    PROVE  ~lapped /\ WantedInv'
<1>. USE Geometry
<1>0. ~lapped
  BY DEF Pru, Trigger, Timeout, ClearNum, ClearFlags, Store, SetNum, SetFlags, SetIndex, SetCount,
         ghosts, IInv, TypeOK
<1>1. WantedInv /\ FirmwareInv
  BY <1>0 DEF IInv, SlotInv
<1>2. readAt' = readAt /\ (Copying' <=> Copying) /\ last' = last
  BY PendingPru
<1>3. CASE SetCount
  <2>1. Unpublished = 1 /\ Unpublished' = 0 /\ gen' = gen + 1
    BY <1>1, <1>3 DEF SetCount, Unpublished, Writing, FirmwareInv
  <2>2. Pending <= NumBlocks - 1
    BY <1>1, <2>1, Bounds DEF WantedInv, Held
  <2>3. Pending' = IF last = Unset THEN Pending ELSE Pending + 1
    BY <1>3, <2>2, Bounds, PendingPru
  <2>4. Held' + Unpublished' <= NumBlocks
    BY <1>1, <1>2, <2>1, <2>3, Bounds DEF WantedInv, Held
  <2>5. Pending' <= gen' - 1 /\ (readAt' \in {"flags", "num"} => Pending' >= 1)
    BY <1>1, <1>2, <2>1, <2>3, Bounds DEF WantedInv
  <2>. QED BY <1>0, <2>4, <2>5 DEF WantedInv
<1>4. CASE ~SetCount
  <2>1. Pending' = Pending /\ Held' = Held
    BY <1>2, <1>4, PendingPru DEF Held
  <2>2. gen' = gen
    BY <1>4 DEF Pru, Trigger, Timeout, ClearNum, ClearFlags, Store, SetNum, SetFlags, SetIndex,
                ghosts
  <2>3. Held' + Unpublished' <= NumBlocks
    <3>1. CASE ClearNum
      <4>1. Held \in Nat
        BY Bounds DEF Held
      <4>2. Held + 1 <= NumBlocks
        <5>1. lapped' = (lapped \/ Held >= NumBlocks)
          BY <3>1 DEF ClearNum
        <5>2. ~(Held >= NumBlocks)
          BY <5>1
        <5>. QED BY <4>1, <5>2
      <4>3. Unpublished' = 0 \/ Unpublished' = 1
        BY DEF Unpublished
      <4>. QED BY <2>1, <4>1, <4>2, <4>3
    <3>2. CASE ~ClearNum
      <4>0. smp \in Nat
        BY Bounds
      <4>1. Unpublished' = Unpublished
        <5>1. CASE Trigger BY <4>0, <1>1, <5>1 DEF Trigger, Unpublished, Writing, FirmwareInv
        <5>2. CASE Timeout BY <5>2 DEF Timeout, Unpublished, Writing
        <5>3. CASE Store BY <4>0, <5>3 DEF Store, Unpublished, Writing
        <5>4. CASE SetIndex BY <5>4 DEF SetIndex, Unpublished, Writing
        <5>5. CASE ClearFlags \/ SetNum \/ SetFlags
          BY <5>5 DEF ClearFlags, SetNum, SetFlags, Unpublished, Writing
        <5>. QED BY <1>4, <3>2, <5>1, <5>2, <5>3, <5>4, <5>5 DEF Pru
      <4>. QED BY <1>1, <2>1, <4>1 DEF WantedInv
    <3>. QED BY <3>1, <3>2
  <2>4. Pending' <= gen' - 1 /\ (readAt' \in {"flags", "num"} => Pending' >= 1)
    BY <1>1, <1>2, <2>1, <2>2 DEF WantedInv
  <2>. QED BY <1>0, <2>3, <2>4 DEF WantedInv
<1>. QED BY <1>0, <1>3, <1>4

LEMMA WantedReader ==
    ASSUME IInv, Reader, ~lapped
    PROVE  WantedInv'
<1>. USE Geometry
<1>0. WantedInv /\ gen' = gen /\ Unpublished' = Unpublished
  BY PendingReader DEF IInv, Unpublished, Writing
<1>1. CASE PollFirst \/ PollResync
  <2>1. Pending' = 0 /\ readAt' = "idle"
    BY <1>1, PendingReader DEF PollFirst, PollResync
  <2>. QED BY <1>0, <2>1, Bounds DEF WantedInv, Held, Copying
<1>2. CASE PollReady
  <2>1. Pending' = Pending /\ Pending >= 1 /\ readAt = "idle" /\ readAt' = "flags"
    BY <1>2, PendingReader, NoOverrun DEF PollReady
  <2>. QED BY <1>0, <2>1 DEF WantedInv, Held, Copying
<1>3. CASE CheckNum /\ last' # last
  <2>1. readAt = "num" /\ readAt' = "size" /\ Pending >= 1
    BY <1>0, <1>3 DEF CheckNum, WantedInv
  <2>2. Pending' = Pending - 1
    BY <1>3, <2>1, PendingReader
  <2>. QED BY <1>0, <2>1, <2>2, Bounds DEF WantedInv, Held, Copying
<1>4. CASE CheckNum /\ last' = last
  <2>1. readAt = "num" /\ readAt' = "idle"
    BY <1>4 DEF CheckNum, IInv, ReaderInv, TypeOK
  <2>2. Pending' = Pending
    BY <1>4, PendingReader
  <2>. QED BY <1>0, <2>1, <2>2, Bounds DEF WantedInv, Held, Copying
<1>5. CASE PollNothing \/ CheckFlags \/ ReadSize \/ CopyDesc \/ CopySample \/ Push
  <2>1. last' = last /\ (Copying' => Copying) /\ (readAt' \in {"flags", "num"} => readAt \in {"flags", "num"})
    BY <1>5 DEF PollNothing, vars, reader, CheckFlags, ReadSize, CopyDesc, CopySample, Push, Copying
  <2>2. Pending' = Pending
    BY <2>1, PendingReader
  <2>. QED BY <1>0, <2>1, <2>2, Bounds DEF WantedInv, Held
<1>. QED BY <1>1, <1>2, <1>3, <1>4, <1>5 DEF Reader

(* The slot of the block the reader has committed to still holds it.       *)
LEMMA SlotHolds ==
    ASSUME IInv, ~lapped, readAt \in {"size", "desc", "data"}
    PROVE  HoldsBlock(SlotOf(next), Cur)
<1>. USE Geometry
<1>. DEFINE d == Pending + 1 + Ahead
            S == SlotOf(next)
            l == last - 1
<1>0. WantedInv /\ CopyInv /\ SlotsInv /\ CountInv /\ FirmwareInv
  BY DEF IInv, SlotInv
<1>1. last = next /\ last \in 1..CountMod - 1 /\ last # Unset
  BY DEF IInv, ReaderInv, Committed, Copied, Unset
<1>9. Pending = IF Completed >= last THEN Completed - last ELSE Completed - last + CountMod
  BY <1>0, <1>1, PendingFact
<1>2. d \in 1..NumBlocks
  BY <1>0, Bounds DEF WantedInv, Held, Copying, Unpublished, Ahead
<1>3. S = l % NumBlocks /\ S \in Blk
  BY <1>1, SlotOfType DEF SlotOf
<1>4. writeIdx = (l + d) % NumBlocks
  <2>1. CASE Completed >= last
    <3>1. l + d = Completed + Ahead
      BY <1>1, <1>9, <2>1, Bounds DEF Ahead
    <3>. QED BY <1>0, <3>1 DEF CountInv
  <2>2. CASE Completed < last
    <3>1. l + d = Completed + Ahead + CountMod
      BY <1>1, <1>9, <2>2, Bounds DEF Ahead
    <3>2. (Completed + Ahead + CountMod) % NumBlocks = (Completed + Ahead) % NumBlocks
      BY Bounds, ModPeriod DEF Ahead
    <3>. QED BY <1>0, <3>1, <3>2 DEF CountInv
  <2>. QED BY <1>1, <2>1, <2>2, Bounds
<1>5. Back(S) = Pending + Ahead
  <2>1. l \in Nat
    BY <1>1
  <2>2. d - 1 = Back(S)
    BY <1>2, <1>3, <1>4, <2>1, BackFact DEF Back
  <2>. QED BY <2>2, Bounds DEF Ahead
<1>6. Top - Back(S) = Cur
  BY <1>5, Bounds DEF Top, Cur, Ahead
<1>7. S # writeIdx \/ ~Writing
  <2>1. ASSUME S = writeIdx, Writing PROVE FALSE
    <3>1. Ahead = 0 /\ Unpublished = 1
      BY <1>0, <2>1 DEF Ahead, Writing, FirmwareInv, Unpublished
    <3>2. Back(S) = NumBlocks - 1
      BY <1>3, <2>1 DEF Back, Blk
    <3>. QED BY <1>0, <1>5, <3>1, <3>2, Bounds DEF WantedInv, Held, Copying
  <2>. QED BY <2>1
<1>8. Cur >= 1
  BY <1>0 DEF CopyInv, Committed, Copied
<1>. QED BY <1>0, <1>3, <1>6, <1>7, <1>8 DEF SlotsInv

-----------------------------------------------------------------------------
(* Not lapped: what the reader copies and what it has taken.               *)

(* The firmware moves on, the block the reader has committed to stays.     *)
LEMMA CurPru ==
    ASSUME IInv, Pru, ~lapped'
    PROVE  /\ ~lapped /\ UNCHANGED reader /\ gen' >= gen
           /\ last # Unset => Cur' = Cur
           /\ ~Wrapped' => ~Wrapped
<1>. USE Geometry
<1>0. ~lapped /\ WantedInv /\ FirmwareInv
  BY WantedPru DEF IInv, SlotInv
<1>1. UNCHANGED reader /\ (IF SetCount THEN gen' = gen + 1 ELSE gen' = gen)
  BY DEF Pru, Trigger, Timeout, ClearNum, ClearFlags, Store, SetNum, SetFlags, SetIndex, SetCount,
         ghosts
<1>2. gen' >= gen /\ (~Wrapped' => ~Wrapped)
  BY <1>1, Bounds DEF Wrapped
<1>3. ASSUME last # Unset PROVE Cur' = Cur
  <2>1. CASE SetCount
    <3>1. Unpublished = 1
      BY <1>0, <2>1 DEF SetCount, Unpublished
    <3>2. Pending + 1 < CountMod
      BY <1>0, <3>1, Bounds DEF WantedInv, Held
    <3>3. Pending' = Pending + 1
      BY <1>3, <2>1, <3>2, PendingPru
    <3>. QED BY <1>1, <2>1, <3>3, Bounds DEF Cur
  <2>2. CASE ~SetCount
    BY <1>1, <2>2, PendingPru DEF Cur
  <2>. QED BY <2>1, <2>2
<1>. QED BY <1>0, <1>1, <1>2, <1>3

LEMMA CopyPru ==
    ASSUME IInv, Pru, ~lapped'
    PROVE  CopyInv'
<1>1. CopyInv /\ UNCHANGED reader /\ (readAt # "idle" => Cur' = Cur)
  BY CurPru, Bounds DEF IInv
<1>. QED BY <1>1 DEF CopyInv, Committed, Copied, reader

LEMMA CopyReader ==
    ASSUME IInv, Reader, ~lapped
    PROVE  CopyInv'
<1>. USE Geometry DEF Committed, Copied
<1>. DEFINE S == SlotOf(next)
<1>0. CopyInv /\ gen' = gen /\ copied \in 0..BlockSize /\ S \in Blk
  <2>1. next \in Int
    BY DEF IInv, TypeOK
  <2>. QED BY <2>1, PendingReader, SlotOfType DEF IInv, TypeOK
<1>. HIDE DEF S
<1>1. CASE readAt' \notin Committed
  BY <1>1 DEF CopyInv
<1>2. CASE CheckNum /\ readAt' = "size"
  <2>1. readAt = "num" /\ last' = last + 1 /\ last # Unset
    BY <1>2 DEF CheckNum, IInv, ReaderInv
  <2>2. Pending >= 1 /\ Pending <= gen - 1
    BY <2>1 DEF IInv, WantedInv
  <2>3. Pending' = Pending - 1
    BY <1>2, <2>1, <2>2, Bounds, PendingReader
  <2>4. Cur' >= 1
    BY <1>0, <2>2, <2>3, Bounds DEF Cur
  <2>. QED BY <1>2, <2>4 DEF CopyInv
<1>3. ASSUME readAt' \in Committed, ReadSize \/ CopyDesc \/ CopySample
      PROVE  Cur' = Cur /\ Cur >= 1 /\ readAt \in {"size", "desc", "data"}
  <2>1. last' = last /\ readAt \in {"size", "desc", "data"}
    BY <1>3 DEF ReadSize, CopyDesc, CopySample
  <2>2. Pending' = Pending
    BY <2>1, PendingReader
  <2>. QED BY <1>0, <2>1, <2>2 DEF Cur, CopyInv
<1>4. CASE ReadSize
  <2>1. readAt' = "desc" /\ size' = desc[S].num
    BY <1>4 DEF ReadSize, S
  <2>2. Cur' >= 1 /\ readAt \in {"size", "desc", "data"}
    BY <1>3, <1>4, <2>1
  <2>3. size' = BlockSize
    BY <2>1, <2>2, SlotHolds DEF HoldsBlock, S
  <2>. QED BY <2>1, <2>2, <2>3 DEF CopyInv
<1>5. CASE CopyDesc
  <2>1. size = BlockSize /\ readAt' = "data" /\ size' = size /\ copied' = 0
    BY <1>0, <1>5 DEF CopyDesc, CopyInv
  <2>2. Cur' >= 1 /\ readAt \in {"size", "desc", "data"}
    BY <1>3, <1>5, <2>1
  <2>3. desc[S].num = BlockSize /\ desc[S].period = Period
    BY <2>2, SlotHolds DEF HoldsBlock, S
  <2>4. buf'.desc = desc[S]
    BY <1>5 DEF CopyDesc, S, IInv, TypeOK
  <2>. QED BY <2>1, <2>2, <2>3, <2>4 DEF CopyInv
<1>6. CASE CopySample
  <2>1. readAt = "data" /\ size' = size /\ copied' = copied + 1 /\ size = BlockSize
        /\ readAt' = (IF copied + 1 = size THEN "push" ELSE "data") /\ copied < size
    BY <1>0, <1>6 DEF CopySample, CopyInv, IInv, ReaderInv
  <2>2. Cur' = Cur /\ Cur >= 1
    BY <1>3, <1>6, <2>1
  <2>3. copied + 1 \in SampleIdx /\ samples[S][copied + 1] = Cur
    BY <1>0, <2>1, SlotHolds DEF HoldsBlock, S, SampleIdx
  <2>4. [buf.data EXCEPT ![copied + 1] = samples[S][copied + 1]] \in [SampleIdx -> Int]
    BY <1>0, <2>3 DEF IInv, TypeOK, Payload, Gen
  <2>5. buf' = [buf EXCEPT !.data = [buf.data EXCEPT ![copied + 1] = samples[S][copied + 1]]]
    BY <1>6 DEF CopySample, S, IInv, TypeOK
  <2>6. buf'.desc = buf.desc /\ buf'.data = [buf.data EXCEPT ![copied + 1] = samples[S][copied + 1]]
    BY <2>5 DEF IInv, TypeOK
  <2>7. \A i \in 1..copied' : buf'.data[i] = Cur
    <3>1. \A i \in SampleIdx : buf'.data[i] = IF i = copied + 1 THEN Cur ELSE buf.data[i]
      BY <2>3, <2>6 DEF IInv, TypeOK, Payload
    <3>2. \A i \in 1..copied : buf.data[i] = Cur
      BY <1>0, <2>1 DEF CopyInv
    <3>. QED BY <1>0, <2>1, <3>1, <3>2 DEF SampleIdx
  <2>8. buf.desc.num = BlockSize /\ buf.desc.period = Period
    BY <1>0, <2>1 DEF CopyInv
  <2>. QED BY <2>1, <2>2, <2>6, <2>7, <2>8 DEF CopyInv
<1>7. CASE PollNothing
  <2>1. Pending' = Pending /\ UNCHANGED reader
    BY <1>7, PendingReader DEF PollNothing, vars, reader
  <2>. QED BY <1>0, <2>1 DEF CopyInv, Cur, reader
<1>8. CASE readAt' \in Committed /\ (PollFirst \/ PollResync \/ PollReady \/ CheckFlags \/ Push)
  BY <1>8 DEF PollFirst, PollResync, PollReady, CheckFlags, Push
<1>9. CASE readAt' \in Committed /\ CheckNum
  <2>1. readAt' = "size"
    BY <1>9 DEF CheckNum
  <2>. QED BY <1>2, <1>9, <2>1
<1>. QED BY <1>1, <1>4, <1>5, <1>6, <1>7, <1>8, <1>9 DEF Reader

LEMMA TakenPru ==
    ASSUME IInv, Pru, ~lapped'
    PROVE  TakenInv'
<1>1. TakenInv /\ UNCHANGED reader /\ (~Wrapped' => ~Wrapped)
  BY CurPru DEF IInv
<1>2. taken' = taken /\ readAt' = readAt
  BY <1>1 DEF reader
<1>3. CASE taken = <<>>
  BY <1>2, <1>3 DEF TakenInv, Rising, NoGap
<1>4. CASE taken # <<>>
  <2>1. last # Unset
    BY <1>4 DEF IInv, ReaderInv
  <2>2. Due' = Due
    BY <1>2, <2>1, CurPru DEF Due
  <2>. QED BY <1>1, <1>2, <2>2 DEF TakenInv, Rising, NoGap, Newest, BlockOf, Intact, Whole
<1>. QED BY <1>3, <1>4

LEMMA TakenType ==
    ASSUME TypeOK, NEW i \in DOMAIN taken
    PROVE  BlockOf(taken[i]) \in Gen /\ taken[i].stamp \in Nat
<1>1. taken[i] \in [stamp : Nat, num : 0..BlockSize, data : Payload]
  <2>. DEFINE R == [stamp : Nat, num : 0..BlockSize, data : Payload]
  <2>1. taken \in Seq(R)
    BY DEF TypeOK
  <2>. HIDE DEF R
  <2>2. taken[i] \in R
    BY <2>1
  <2>. QED BY <2>2 DEF R
<1>2. taken[i].data \in [SampleIdx -> Gen] /\ 1 \in SampleIdx
  BY <1>1, Geometry DEF Payload, SampleIdx
<1>. QED BY <1>1, <1>2 DEF BlockOf

(* What the reader hands on is the block it committed to, whole.           *)
LEMMA PushFact ==
    ASSUME IInv, Push, ~lapped
    PROVE  \E e :
              /\ Len(taken') = Len(taken) + 1 /\ Len(taken) \in Nat
              /\ taken'[Len(taken) + 1] = e
              /\ \A i \in 1..Len(taken) : taken'[i] = taken[i]
              /\ e.stamp = Stamp /\ Intact(e) /\ BlockOf(e) = Cur /\ Cur \in Nat
              /\ Due = Cur - 1 /\ Due' = Cur
              /\ nextCycles' = Stamp + BlockTime
<1>. USE Geometry DEF Committed, Copied
<1>. DEFINE e == [stamp |-> Stamp, num |-> buf.desc.num, data |-> buf.data]
<1>1. /\ readAt = "push" /\ readAt' = "idle" /\ last' = last
      /\ taken' = Append(taken, e) /\ nextCycles' = Stamp + buf.desc.num * buf.desc.period
  BY DEF Push
<1>2. e \in [stamp : Nat, num : 0..BlockSize, data : Payload]
      /\ taken \in Seq([stamp : Nat, num : 0..BlockSize, data : Payload])
  BY PushType DEF IInv, TypeOK
<1>3. Cur >= 1 /\ buf.desc.num = BlockSize /\ buf.desc.period = Period
      /\ \A i \in SampleIdx : buf.data[i] = Cur
  BY <1>1 DEF IInv, CopyInv, SampleIdx
<1>4. e.stamp = Stamp /\ e.num = BlockSize /\ e.data = buf.data
  BY <1>3
<1>5. BlockOf(e) = Cur /\ Intact(e)
  BY <1>3, <1>4 DEF BlockOf, Intact, Whole, SampleIdx
<1>6. Cur' = Cur /\ Cur \in Nat
  <2>1. Pending' = Pending /\ gen' = gen
    BY <1>1, PendingReader DEF Reader
  <2>. QED BY <1>3, <2>1, Bounds DEF Cur
<1>. HIDE DEF e
<1>7. /\ Len(taken') = Len(taken) + 1 /\ Len(taken) \in Nat
      /\ taken'[Len(taken) + 1] = e
      /\ \A i \in 1..Len(taken) : taken'[i] = taken[i]
  BY <1>1, <1>2
<1>8. Due = Cur - 1 /\ Due' = Cur
  BY <1>1, <1>6 DEF Due
<1>9. nextCycles' = Stamp + BlockTime
  BY <1>1, <1>3 DEF BlockTime
<1>. QED BY <1>4, <1>5, <1>6, <1>7, <1>8, <1>9

LEMMA TakenReader ==
    ASSUME IInv, Reader, ~lapped
    PROVE  TakenInv'
<1>. USE Geometry DEF Committed, Copied
<1>0. TakenInv /\ gen' = gen /\ (Wrapped' <=> Wrapped)
  BY PendingReader DEF IInv, Wrapped
<1>1. CASE taken' = taken
  <2>. SUFFICES ASSUME taken # <<>> PROVE Due' \in Int /\ Due' >= Due /\ (~Wrapped => Due' = Due)
    <3>1. CASE taken = <<>>
      BY <1>1, <3>1 DEF TakenInv, Rising, NoGap
    <3>2. CASE Due' \in Int /\ Due' >= Due /\ (~Wrapped => Due' = Due)
      <4>1. Due \in Int
        BY Bounds DEF Due, Cur
      <4>2. \A i \in DOMAIN taken : BlockOf(taken[i]) \in Int
        BY TakenType, Geometry DEF IInv, Gen
      <4>3. \A i \in DOMAIN taken : BlockOf(taken[i]) <= Due'
        BY <1>0, <3>2, <4>1, <4>2 DEF TakenInv
      <4>4. ~Wrapped => NoGap /\ (taken # <<>> => Newest = Due')
        BY <1>0, <3>2 DEF TakenInv
      <4>5. Rising /\ \A i \in DOMAIN taken : Intact(taken[i])
        BY <1>0 DEF TakenInv
      <4>. QED BY <1>0, <1>1, <4>3, <4>4, <4>5 DEF TakenInv, Rising, NoGap, Newest, BlockOf, Intact, Whole
    <3>. QED BY <3>1, <3>2
  <2>0. last # Unset
    BY DEF IInv, ReaderInv
  <2>1. CASE PollResync
    <3>1. Pending' = 0 /\ readAt = "idle" /\ readAt' = "idle"
      BY <2>1, PendingReader DEF PollResync
    <3>. QED BY <1>0, <2>1, <3>1, Bounds, NoOverrun DEF Due, Cur
  <2>2. CASE CheckNum /\ last' # last
    <3>1. readAt = "num" /\ readAt' = "size"
      BY <2>2 DEF CheckNum
    <3>2. Pending' = Pending - 1
      <4>1. Pending >= 1
        BY <3>1 DEF IInv, WantedInv
      <4>. QED BY <2>2, <4>1, PendingReader
    <3>3. Due = gen - 1 - Pending /\ Due' = gen - 1 - (Pending - 1) - 1
      BY <1>0, <3>1, <3>2 DEF Due, Cur
    <3>. QED BY <3>3, Bounds, SMTT(30)
  <2>3. CASE CheckNum /\ last' = last
    <3>1. readAt = "num" /\ readAt' = "idle"
      BY <2>3 DEF CheckNum, IInv, ReaderInv, TypeOK
    <3>2. Pending' = Pending
      BY <2>3, PendingReader
    <3>. QED BY <1>0, <3>1, <3>2, Bounds DEF Due, Cur
  <2>4. CASE PollNothing \/ PollReady \/ CheckFlags \/ ReadSize \/ CopyDesc \/ CopySample
    <3>1. last' = last /\ (readAt' \in Committed <=> readAt \in Committed)
      BY <2>4, NoOverrun DEF PollNothing, vars, reader, PollReady, CheckFlags, ReadSize, CopyDesc,
                             CopySample
    <3>2. Pending' = Pending
      BY <3>1, PendingReader
    <3>. QED BY <1>0, <3>1, <3>2, Bounds DEF Due, Cur
  <2>5. CASE Push
    <3>1. taken' # taken
      BY <2>5, PushFact
    <3>. QED BY <1>1, <3>1
  <2>6. ~PollFirst
    BY <2>0 DEF PollFirst
  <2>. QED BY <2>1, <2>2, <2>3, <2>4, <2>5, <2>6 DEF Reader
<1>2. CASE Push
  <2>. DEFINE n == Len(taken)
  <2>1. PICK e :
              /\ Len(taken') = n + 1 /\ n \in Nat
              /\ taken'[n + 1] = e
              /\ \A i \in 1..n : taken'[i] = taken[i]
              /\ Intact(e) /\ BlockOf(e) = Cur /\ Cur \in Nat
              /\ Due = Cur - 1 /\ Due' = Cur
    BY <1>2, PushFact
  <2>2. DOMAIN taken = 1..n /\ DOMAIN taken' = 1..n + 1 /\ (taken = <<>> <=> n = 0)
    BY <2>1, ReaderType DEF IInv, TypeOK
  <2>3. \A i \in 1..n : Intact(taken[i]) /\ BlockOf(taken[i]) <= Due /\ BlockOf(taken[i]) \in Int
    BY <1>0, <2>2, TakenType, Geometry DEF TakenInv, IInv, Gen
  <2>. HIDE DEF n
  <2>4. \A i \in 1..n + 1 : Intact(taken'[i]) /\ BlockOf(taken'[i]) <= Due'
    BY <2>1, <2>3
  <2>5. \A i \in 2..n + 1 : BlockOf(taken'[i]) > BlockOf(taken'[i - 1])
    <3>. SUFFICES ASSUME NEW i \in 2..n + 1
                  PROVE  BlockOf(taken'[i]) > BlockOf(taken'[i - 1])
      OBVIOUS
    <3>1. CASE i = n + 1
      <4>1. n \in 1..n /\ i - 1 = n
        BY <2>1, <3>1
      <4>2. taken'[i] = e /\ taken'[i - 1] = taken[n]
        BY <2>1, <3>1, <4>1
      <4>3. BlockOf(taken[n]) <= Cur - 1 /\ BlockOf(taken[n]) \in Int
        BY <2>1, <2>3, <4>1
      <4>. QED BY <2>1, <4>2, <4>3
    <3>2. CASE i \in 2..n
      <4>1. taken'[i] = taken[i] /\ taken'[i - 1] = taken[i - 1]
        BY <2>1, <3>2
      <4>2. BlockOf(taken[i]) > BlockOf(taken[i - 1])
        BY <1>0, <3>2 DEF TakenInv, Rising, n
      <4>. QED BY <4>1, <4>2
    <3>. QED BY <2>1, <3>1, <3>2
  <2>6. ~Wrapped => \A i \in 2..n + 1 : BlockOf(taken'[i]) = BlockOf(taken'[i - 1]) + 1
    <3>. SUFFICES ASSUME ~Wrapped, NEW i \in 2..n + 1
                  PROVE  BlockOf(taken'[i]) = BlockOf(taken'[i - 1]) + 1
      OBVIOUS
    <3>1. CASE i = n + 1
      <4>1. BlockOf(taken[n]) = Due
        BY <1>0, <2>1, <2>2, <3>1 DEF TakenInv, Newest, n
      <4>2. n \in 1..n /\ i - 1 = n
        BY <2>1, <3>1
      <4>3. taken'[i] = e /\ taken'[i - 1] = taken[n]
        BY <2>1, <3>1, <4>2
      <4>. QED BY <2>1, <4>1, <4>3
    <3>2. CASE i \in 2..n
      <4>1. taken'[i] = taken[i] /\ taken'[i - 1] = taken[i - 1]
        BY <2>1, <3>2
      <4>2. BlockOf(taken[i]) = BlockOf(taken[i - 1]) + 1
        BY <1>0, <3>2 DEF TakenInv, NoGap, n
      <4>. QED BY <4>1, <4>2
    <3>. QED BY <2>1, <3>1, <3>2
  <2>7. Newest' = Due'
    BY <2>1 DEF Newest, BlockOf
  <2>. QED BY <1>0, <2>1, <2>2, <2>4, <2>5, <2>6, <2>7
           DEF TakenInv, Rising, NoGap, Newest, BlockOf, Intact, Whole
<1>. QED BY <1>1, <1>2 DEF Reader, PollFirst, PollNothing, PollResync, PollReady, CheckFlags,
        CheckNum, ReadSize, CopyDesc, CopySample, vars, reader

-----------------------------------------------------------------------------
(* Time.                                                                   *)

(* What kept pace still does when the slack or the failed conversions grow; *)
(* one sample more; one failed conversion more.                            *)
LEMMA FitsKept ==
    ASSUME NEW n \in Nat, NEW t \in Int, NEW s \in Nat, NEW s2 \in Nat, NEW k \in Nat, NEW k2 \in Nat,
           Fits(n, t, s, k), s <= s2, k <= k2
    PROVE  Fits(n, t, s2, k2)
<1>. USE Geometry
<1>. DEFINE a == n * Period
            b == n * s
            c == n * s2
            d == k * TimeoutCycles
            e == k2 * TimeoutCycles
<1>1. a \in Int /\ b \in Int /\ c \in Int /\ d \in Int /\ e \in Int
  OBVIOUS
<1>2. b <= c
  <2>1. \A x, y, z \in Nat : x <= y => z * x <= z * y
    OBVIOUS
  <2>. QED BY <2>1
<1>3. d <= e
  <2>1. \A x, y, z \in Nat : x <= y => x * z <= y * z
    OBVIOUS
  <2>. QED BY <2>1
<1>4. -n <= t - a /\ t - a <= b + d
  BY DEF Fits
<1>. HIDE DEF a, b, c, d, e
<1>5. -n <= t - a /\ t - a <= c + e
  BY <1>1, <1>2, <1>3, <1>4
<1>. QED BY <1>5 DEF Fits, a, c, e

LEMMA FitsSample ==
    ASSUME NEW n \in Nat, NEW t \in Int, NEW s \in Nat, NEW k \in Nat, NEW w \in Int,
           Fits(n, t, s, k), -1 <= w - Period, w - Period <= s
    PROVE  Fits(n + 1, t + w, s, k)
<1>. USE Geometry
<1>. DEFINE a == n * Period
            c == n * s
            d == k * TimeoutCycles
<1>1. /\ a \in Int /\ c \in Int /\ d \in Int
      /\ (n + 1) * Period = a + Period /\ (n + 1) * s = c + s
  OBVIOUS
<1>2. -n <= t - a /\ t - a <= c + d
  BY DEF Fits
<1>. HIDE DEF a, c, d
<1>3. -(n + 1) <= (t + w) - (a + Period) /\ (t + w) - (a + Period) <= (c + s) + d
  BY <1>1, <1>2
<1>. QED BY <1>1, <1>3 DEF Fits, d

LEMMA FitsTimeout ==
    ASSUME NEW n \in Nat, NEW t \in Int, NEW s \in Nat, NEW k \in Nat, Fits(n, t, s, k)
    PROVE  Fits(n, t + TimeoutCycles, s, k + 1)
<1>. USE Geometry
<1>. DEFINE a == n * Period
            c == n * s
            d == k * TimeoutCycles
<1>1. a \in Int /\ c \in Int /\ d \in Int /\ (k + 1) * TimeoutCycles = d + TimeoutCycles
  OBVIOUS
<1>2. -n <= t - a /\ t - a <= c + d
  BY DEF Fits
<1>. HIDE DEF a, c, d
<1>3. -n <= (t + TimeoutCycles) - a /\ (t + TimeoutCycles) - a <= c + (d + TimeoutCycles)
  BY <1>1, <1>2
<1>. QED BY <1>1, <1>3 DEF Fits, a, c

LEMMA SlackGrows ==
    ASSUME NEW t, now = t, t \in Nat, now' \in Nat, now <= now'
    PROVE  Slack \in Nat /\ Slack' \in Nat /\ Slack <= Slack'
BY Geometry DEF Slack

(* The sample numbers.                                                     *)
LEMMA FirstOrder ==
    ASSUME NEW g \in Int, NEW h \in Int, g <= h
    PROVE  FirstOf(g) \in Int /\ FirstOf(h) \in Int /\ FirstOf(h) - FirstOf(g) \in Nat
<1>. USE Geometry
<1>1. \A x, y, z \in Int : x <= y /\ z >= 0 => x * z <= y * z
  OBVIOUS
<1>2. FirstOf(g) \in Int /\ FirstOf(h) \in Int
  BY DEF FirstOf
<1>3. FirstOf(g) <= FirstOf(h)
  BY <1>1 DEF FirstOf
<1>. QED BY <1>2, <1>3

LEMMA BegunFact ==
    ASSUME TypeOK, FirmwareInv, NEW g \in Begun
    PROVE  /\ g \in 1..MaxBlocks /\ g <= Top + 1 /\ began[g] \in Nat
           /\ Done \in Int /\ Done - FirstOf(g) \in Nat
<1>. USE Geometry
<1>1. gen \in Nat /\ smp \in 0..BlockSize /\ Top \in Int /\ (Writing => Top = gen - 1)
  BY DEF TypeOK, Top, Ahead, Writing, FirmwareInv
<1>2. g \in 1..MaxBlocks /\ g <= Top + 1 /\ began[g] \in Nat
  BY <1>1 DEF Begun, TypeOK
<1>3. FirstOf(Top + 1) = Top * BlockSize
  BY <1>1 DEF FirstOf
<1>4. FirstOf(Top + 1) - FirstOf(g) \in Nat /\ FirstOf(Top + 1) \in Int /\ FirstOf(g) \in Int
  BY <1>1, <1>2, FirstOrder
<1>5. Done = FirstOf(Top + 1) + smp
  BY <1>3 DEF Done
<1>. QED BY <1>1, <1>2, <1>4, <1>5

(* The pairs of blocks begun keep pace through any step.                   *)
LEMMA PairsKept ==
    ASSUME IInv, now' \in Nat, now <= now', timeouts' \in Nat, timeouts <= timeouts',
           NEW g \in Begun, NEW h \in Begun, g <= h
    PROVE  Fits(FirstOf(h) - FirstOf(g), began[h] - began[g], Slack', timeouts')
<1>1. TypeOK /\ FirmwareInv /\ ClockInv
  BY DEF IInv, SlotInv
<1>2. now \in Nat /\ timeouts \in Nat
  BY <1>1, Geometry DEF TypeOK
<1>3. Slack \in Nat /\ Slack' \in Nat /\ Slack <= Slack'
  BY <1>2, SlackGrows
<1>4. g \in Int /\ h \in Int /\ began[g] \in Nat /\ began[h] \in Nat
  BY <1>1, BegunFact
<1>5. FirstOf(h) - FirstOf(g) \in Nat /\ began[h] - began[g] \in Int
  BY <1>4, FirstOrder
<1>6. Fits(FirstOf(h) - FirstOf(g), began[h] - began[g], Slack, timeouts)
  BY <1>1 DEF ClockInv
<1>. QED BY <1>2, <1>3, <1>5, <1>6, FitsKept

(* A step that begins no block, and how many samples and cycles it adds.   *)
LEMMA ClockFrame ==
    ASSUME IInv, Begun' = Begun, began' = began,
           now' \in Nat, now <= now', timeouts' \in Nat, timeouts <= timeouts',
           \A g \in Begun : Fits(Done' - FirstOf(g), now' - began[g], Slack', timeouts')
    PROVE  ClockInv'
<1>1. \A g, h \in Begun : g <= h =>
          Fits(FirstOf(h) - FirstOf(g), began[h] - began[g], Slack', timeouts')
  BY PairsKept
<1>. QED BY <1>1 DEF ClockInv, FirstOf, Fits

LEMMA ClockPru ==
    ASSUME IInv, Pru
    PROVE  ClockInv'
<1>. USE Geometry
<1>0. TypeOK /\ FirmwareInv /\ ClockInv /\ gen \in Nat /\ smp \in 0..BlockSize /\ now \in Nat
      /\ timeouts \in Nat /\ Top \in Int /\ began \in [1..MaxBlocks -> Nat]
  BY DEF IInv, SlotInv, TypeOK, Top, Ahead
<1>1. \A g \in Begun : /\ Done - FirstOf(g) \in Nat /\ now - began[g] \in Int /\ Done \in Int
                       /\ FirstOf(g) \in Int /\ began[g] \in Int
                       /\ Fits(Done - FirstOf(g), now - began[g], Slack, timeouts)
  <2>. SUFFICES ASSUME NEW g \in Begun
                PROVE  /\ Done - FirstOf(g) \in Nat /\ now - began[g] \in Int /\ Done \in Int
                       /\ FirstOf(g) \in Int /\ began[g] \in Int
                       /\ Fits(Done - FirstOf(g), now - began[g], Slack, timeouts)
    OBVIOUS
  <2>1. Done - FirstOf(g) \in Nat /\ Done \in Int /\ began[g] \in Nat /\ g \in Int
    BY <1>0, BegunFact
  <2>2. FirstOf(g) \in Int
    BY <2>1 DEF FirstOf
  <2>. QED BY <1>0, <2>1, <2>2 DEF ClockInv
<1>2. Slack \in Nat
  BY DEF Slack
<1>3. ASSUME UNCHANGED <<now, timeouts, began>>, Begun' = Begun, Done' = Done
      PROVE  ClockInv'
  <2>1. Slack' = Slack
    BY <1>3 DEF Slack
  <2>2. \A g \in Begun : Fits(Done' - FirstOf(g), now' - began[g], Slack', timeouts')
    BY <1>1, <1>3, <2>1
  <2>. QED BY <1>0, <1>3, <2>2, ClockFrame
<1>4. CASE Trigger \/ ClearFlags \/ SetNum \/ SetFlags
  <2>1. UNCHANGED <<now, smp, gen, began, timeouts>> /\ Top' = Top
    BY <1>4 DEF Trigger, ClearFlags, SetNum, SetFlags, ghosts, Top, Ahead
  <2>2. Writing' = Writing
    BY <1>0, <1>4, <2>1 DEF Trigger, ClearFlags, SetNum, SetFlags, Writing
  <2>3. Begun' = Begun /\ Done' = Done
    BY <2>1, <2>2 DEF Begun, Done
  <2>. QED BY <1>3, <2>1, <2>3
<1>5. CASE SetIndex
  <2>1. /\ UNCHANGED <<now, gen, began, timeouts>> /\ Top = gen - 1 /\ Top' = gen
        /\ smp = BlockSize /\ smp' = 0 /\ Writing /\ ~Writing'
    BY <1>0, <1>5 DEF SetIndex, FirmwareInv, ghosts, Top, Ahead, Writing
  <2>2. (gen - 1) * BlockSize + BlockSize = gen * BlockSize + 0
    BY <1>0
  <2>3. Done' = Done
    BY <2>1, <2>2 DEF Done
  <2>4. Begun' = Begun
    BY <1>0, <2>1 DEF Begun
  <2>. QED BY <1>3, <2>1, <2>3, <2>4
<1>6. CASE SetCount
  <2>1. UNCHANGED <<now, smp, began, timeouts>> /\ Top = gen /\ Top' = Top /\ gen' = gen + 1
        /\ ~Writing' /\ ~Writing
    BY <1>0, <1>6 DEF SetCount, FirmwareInv, Top, Ahead, Writing
  <2>2. Begun' = Begun /\ Done' = Done
    BY <2>1 DEF Begun, Done
  <2>. QED BY <1>3, <2>1, <2>2
<1>7. CASE Timeout
  <2>1. UNCHANGED <<smp, gen, began, pruAt>> /\ now' = now + TimeoutCycles /\ timeouts' = timeouts + 1
    BY <1>7 DEF Timeout
  <2>2. Begun' = Begun /\ Done' = Done
    BY <2>1 DEF Begun, Done, Top, Ahead, Writing
  <2>3. Slack' \in Nat /\ Slack <= Slack' /\ now' \in Nat /\ now <= now' /\ timeouts' \in Nat
    BY <1>0, <2>1, SlackGrows
  <2>4. ASSUME NEW g \in Begun
        PROVE  Fits(Done' - FirstOf(g), now' - began[g], Slack', timeouts')
    <3>. DEFINE n == Done - FirstOf(g)
                t == now - began[g]
    <3>1. n \in Nat /\ t \in Int /\ Fits(n, t, Slack, timeouts)
      BY <1>1
    <3>2. Done' - FirstOf(g) = n /\ now' - began[g] = t + TimeoutCycles
      BY <1>0, <1>1, <2>1, <2>2
    <3>. HIDE DEF n, t
    <3>3. Fits(n, t, Slack', timeouts)
      <4>1. timeouts <= timeouts /\ Slack <= Slack' /\ Slack' \in Nat /\ timeouts \in Nat
        BY <1>0, <2>3
      <4>. QED BY <1>2, <3>1, <4>1, FitsKept, ZenonT(30)
    <3>4. Fits(n, t + TimeoutCycles, Slack', timeouts + 1)
      BY <1>0, <2>3, <3>1, <3>3, FitsTimeout
    <3>. QED BY <2>1, <3>2, <3>4
  <2>. QED BY <1>0, <2>1, <2>2, <2>3, <2>4, ClockFrame
<1>8. CASE Store
  <2>1. /\ UNCHANGED <<gen, began, timeouts>> /\ Top' = Top /\ SampleTime /\ smp' = smp + 1
        /\ Writing /\ Writing'
    BY <1>0, <1>8 DEF Store, ghosts, Top, Ahead, Writing
  <2>2. Begun' = Begun /\ Done' = Done + 1
    BY <1>0, <2>1 DEF Begun, Done
  <2>3. /\ now' \in Nat /\ now <= now' /\ -1 <= now' - now - Period
        /\ now' - now - Period <= Slack'
    BY <1>0, <2>1, PaceOfSample
  <2>4. Slack' \in Nat /\ Slack <= Slack'
    BY <1>0, <2>3, SlackGrows
  <2>5. ASSUME NEW g \in Begun
        PROVE  Fits(Done' - FirstOf(g), now' - began[g], Slack', timeouts')
    <3>. DEFINE n == Done - FirstOf(g)
                t == now - began[g]
                w == now' - now
    <3>1. n \in Nat /\ t \in Int /\ Fits(n, t, Slack, timeouts) /\ w \in Int
          /\ -1 <= w - Period /\ w - Period <= Slack'
      <4>1. w \in Int /\ -1 <= w - Period /\ w - Period <= Slack'
        <5>1. w \in Int
          BY <1>0, <2>3
        <5>2. -1 <= w - Period /\ w - Period <= Slack'
          BY <2>3, Zenon
        <5>. QED BY <5>1, <5>2, Zenon
      <4>. HIDE DEF w
      <4>. QED BY <1>1, <4>1
    <3>2. Done' - FirstOf(g) = n + 1 /\ now' - began[g] = t + w
      <4>1. Done \in Int /\ FirstOf(g) \in Int /\ began[g] \in Int
        BY <1>1
      <4>. HIDE DEF Begun, Done, FirstOf
      <4>. QED BY <1>0, <2>2, <2>3, <4>1
    <3>. HIDE DEF n, t, w
    <3>3. Fits(n, t, Slack', timeouts)
      <4>1. timeouts <= timeouts /\ Slack <= Slack' /\ Slack' \in Nat /\ timeouts \in Nat
        BY <1>0, <2>4
      <4>. QED BY <1>2, <3>1, <4>1, FitsKept, ZenonT(30)
    <3>4. Fits(n + 1, t + w, Slack', timeouts)
      BY <1>0, <2>4, <3>1, <3>3, FitsSample, ZenonT(30)
    <3>. QED BY <2>1, <3>2, <3>4
  <2>. QED BY <1>0, <2>1, <2>2, <2>3, <2>5, ClockFrame
<1>9. CASE ClearNum
  <2>1. /\ UNCHANGED <<now, smp, gen, timeouts>> /\ Top' = Top /\ Top = gen - 1 /\ smp = 0
        /\ began' = [began EXCEPT ![gen] = now] /\ ~Writing /\ Writing' /\ gen \in 1..MaxBlocks
    <3>1. /\ UNCHANGED <<now, smp, gen, timeouts>> /\ pruAt = "clearNum" /\ pruAt' = "clearFlags"
          /\ began' = [began EXCEPT ![gen] = now]
      BY <1>9 DEF ClearNum
    <3>2. smp = 0 /\ gen <= MaxBlocks /\ gen >= 1
      BY <1>0, <3>1 DEF FirmwareInv, TypeOK
    <3>3. Top' = Top /\ Top = gen - 1
      BY <1>0, <3>1 DEF Top, Ahead
    <3>4. ~Writing /\ Writing'
      BY <3>1, <3>2 DEF Writing
    <3>. QED BY <1>0, <3>1, <3>2, <3>3, <3>4
  <2>2. Begun' = Begun \cup {gen} /\ Done' = Done /\ Slack' = Slack
    BY <1>0, <2>1 DEF Begun, Done, Slack
  <2>3. Done = FirstOf(gen)
    BY <1>0, <2>1 DEF Done, FirstOf
  <2>4. \A g \in Begun : g \in Int /\ g < gen /\ began'[g] = began[g]
    BY <1>0, <2>1 DEF Begun
  <2>5. began'[gen] = now
    BY <1>0, <2>1
  <2>6. Fits(0, 0, Slack, timeouts)
    <3>1. 0 * Period = 0 /\ 0 * Slack = 0 /\ timeouts * TimeoutCycles >= 0
      BY <1>0, <1>2
    <3>. QED BY <1>0, <1>2, <3>1 DEF Fits
  <2>7. FirstOf(gen) - FirstOf(gen) = 0 /\ now - now = 0 /\ FirstOf(gen) \in Int
    BY <1>0 DEF FirstOf
  <2>8. \A g \in Begun' : Fits(Done' - FirstOf(g), now' - began'[g], Slack', timeouts')
    BY <1>1, <2>1, <2>2, <2>3, <2>4, <2>5, <2>6, <2>7
  <2>9. ASSUME NEW g \in Begun', NEW h \in Begun', g <= h
        PROVE  Fits(FirstOf(h) - FirstOf(g), began'[h] - began'[g], Slack', timeouts')
    <3>1. CASE h = gen
      BY <2>1, <2>2, <2>3, <2>5, <2>8, <3>1
    <3>2. CASE h # gen
      <4>1. h \in Begun /\ g \in Begun
        BY <1>0, <2>2, <2>4, <2>9, <3>2
      <4>. QED BY <1>0, <2>1, <2>2, <2>4, <2>9, <4>1 DEF ClockInv
    <3>. QED BY <3>1, <3>2
  <2>. QED BY <2>8, <2>9 DEF ClockInv, FirstOf, Fits
<1>. QED BY <1>4, <1>5, <1>6, <1>7, <1>8, <1>9 DEF Pru

LEMMA StampPru ==
    ASSUME IInv, Pru, ~lapped', ~Wrapped'
    PROVE  StampInv'
<1>1. StampInv /\ taken' = taken /\ nextCycles' = nextCycles
  BY CurPru DEF IInv, reader
<1>. QED BY <1>1 DEF StampInv, BlockOf, BlockTime

LEMMA StampReader ==
    ASSUME IInv, Reader, ~lapped, ~Wrapped
    PROVE  StampInv'
<1>. USE Geometry
<1>0. StampInv /\ TakenInv /\ BlockTime \in Nat
  BY DEF IInv, BlockTime
<1>1. CASE taken' = taken /\ nextCycles' = nextCycles
  BY <1>0, <1>1 DEF StampInv, BlockOf, BlockTime
<1>2. CASE Push
  <2>. DEFINE n == Len(taken)
  <2>1. PICK e :
              /\ Len(taken') = n + 1 /\ n \in Nat
              /\ taken'[n + 1] = e
              /\ \A i \in 1..n : taken'[i] = taken[i]
              /\ e.stamp = Stamp /\ BlockOf(e) = Cur /\ Cur \in Nat
              /\ Due = Cur - 1
              /\ nextCycles' = Stamp + BlockTime
    BY <1>2, PushFact
  <2>2. DOMAIN taken = 1..n /\ DOMAIN taken' = 1..n + 1 /\ (taken = <<>> <=> n = 0)
    BY <2>1, ReaderType DEF IInv, TypeOK
  <2>3. \A i \in 1..n : BlockOf(taken[i]) \in Int /\ taken[i].stamp \in Int
    BY <2>2, TakenType DEF IInv, Gen
  <2>4. Stamp \in Nat
    BY PushType DEF IInv
  <2>. HIDE DEF n
  <2>5. (BlockOf(taken'[1]) - BlockOf(taken'[1])) * BlockTime = 0
        /\ taken'[1].stamp - taken'[1].stamp = 0
    <3>1. BlockOf(taken'[1]) \in Int /\ taken'[1].stamp \in Int
      <4>1. CASE n = 0
        BY <2>1, <2>4, <4>1
      <4>2. CASE n > 0
        <5>1. taken'[1] = taken[1] /\ 1 \in 1..n
          BY <2>1, <4>2
        <5>. QED BY <2>3, <5>1
      <4>. QED BY <2>1, <4>1, <4>2
    <3>. QED BY <1>0, <3>1
  <2>6. ASSUME n > 0
        PROVE  Stamp - taken[1].stamp = (Cur - BlockOf(taken[1])) * BlockTime
    <3>. DEFINE a == taken[1].stamp
                b == BlockOf(taken[1])
                s == taken[n].stamp
    <3>1. n \in 1..n /\ 1 \in 1..n /\ taken # <<>>
      BY <2>1, <2>2, <2>6
    <3>2. BlockOf(taken[n]) = Cur - 1
      BY <1>0, <2>1, <3>1 DEF TakenInv, Newest, n
    <3>3. s - a = (Cur - 1 - b) * BlockTime /\ nextCycles = s + BlockTime
      BY <1>0, <2>2, <3>1, <3>2 DEF StampInv, n
    <3>4. nextCycles # Unset
      BY <3>1 DEF IInv, ReaderInv
    <3>5. Stamp = s + BlockTime
      BY <3>3, <3>4 DEF Stamp
    <3>6. a \in Int /\ b \in Int /\ s \in Int
      BY <2>3, <3>1
    <3>. HIDE DEF a, b, s
    <3>7. (Cur - 1 - b) * BlockTime + BlockTime = (Cur - b) * BlockTime
      BY <1>0, <2>1, <3>6
    <3>8. Stamp - a = (s - a) + BlockTime
      BY <1>0, <3>5, <3>6
    <3>9. Stamp - a = (Cur - b) * BlockTime
      BY <3>3, <3>7, <3>8
    <3>. QED BY <3>9 DEF a, b
  <2>7. \A i \in 1..n + 1 : taken'[i].stamp - taken'[1].stamp
                               = (BlockOf(taken'[i]) - BlockOf(taken'[1])) * BlockTime
    <3>. SUFFICES ASSUME NEW i \in 1..n + 1
                  PROVE  taken'[i].stamp - taken'[1].stamp
                            = (BlockOf(taken'[i]) - BlockOf(taken'[1])) * BlockTime
      OBVIOUS
    <3>1. CASE i \in 1..n
      <4>1. taken'[i] = taken[i] /\ taken'[1] = taken[1]
        BY <2>1, <3>1
      <4>. QED BY <1>0, <2>2, <3>1, <4>1 DEF StampInv
    <3>2. CASE i = n + 1 /\ n > 0
      <4>1. taken'[i].stamp = Stamp /\ taken'[1] = taken[1] /\ BlockOf(taken'[i]) = Cur
        BY <2>1, <3>2
      <4>. QED BY <2>6, <3>2, <4>1
    <3>3. CASE i = 1
      BY <2>5, <3>3
    <3>. QED BY <2>1, <3>1, <3>2, <3>3
  <2>8. nextCycles' = taken'[Len(taken')].stamp + BlockTime
    BY <2>1
  <2>9. ASSUME NEW i \in 1..n + 1
        PROVE  BlockOf(taken'[1]) <= BlockOf(taken'[i])
    <3>1. CASE i \in 1..n
      <4>1. taken'[i] = taken[i] /\ taken'[1] = taken[1]
        BY <2>1, <3>1
      <4>. QED BY <1>0, <2>2, <3>1, <4>1 DEF StampInv
    <3>2. CASE i = n + 1 /\ n > 0
      <4>1. taken'[i] = e /\ taken'[1] = taken[1] /\ 1 \in 1..n /\ taken'[n + 1] = e
        BY <2>1, <3>2
      <4>2. BlockOf(taken[1]) <= Due
        BY <1>0, <2>2, <4>1 DEF TakenInv
      <4>3. BlockOf(taken[1]) \in Int
        BY <2>3, <4>1
      <4>. QED BY <2>1, <4>1, <4>2, <4>3
    <3>3. CASE i = 1
      <4>1. BlockOf(taken'[1]) \in Int
        <5>1. CASE n = 0
          BY <2>1, <5>1
        <5>2. CASE n > 0
          <6>1. taken'[1] = taken[1] /\ 1 \in 1..n
            BY <2>1, <5>2
          <6>. QED BY <2>3, <6>1
        <5>. QED BY <2>1, <5>1, <5>2
      <4>. QED BY <3>3, <4>1
    <3>. QED BY <2>1, <3>1, <3>2, <3>3
  <2>. QED BY <2>2, <2>7, <2>8, <2>9 DEF StampInv, BlockOf, BlockTime
<1>. QED BY <1>1, <1>2 DEF Reader, PollFirst, PollNothing, PollResync, PollReady, CheckFlags,
        CheckNum, ReadSize, CopyDesc, CopySample, vars, reader

-----------------------------------------------------------------------------
(* The invariant, and what follows from it.                                *)

LEMMA InitInv == Init => IInv
<1>. SUFFICES ASSUME Init PROVE IInv
  OBVIOUS
<1>. USE Geometry
<1>0. /\ desc \in [Blk -> {ClearDesc, OldDesc}] /\ desc[0] = ClearDesc
      /\ samples = [b \in Blk |-> OldData] /\ sampleCount = 0 /\ writeIdx = 0
      /\ pruAt = "trigger" /\ smp = 0 /\ now = 0 /\ readAt = "idle" /\ last = Unset /\ next = 0
      /\ size = 0 /\ copied = 0 /\ buf = [desc |-> ClearDesc, data |-> OldData]
      /\ nextCycles = Unset /\ taken = <<>> /\ gen = 1 /\ began = [g \in 1..MaxBlocks |-> 0]
      /\ timeouts = 0 /\ lapped = FALSE /\ errorFlags = FALSE
  BY DEF Init
<1>1. ClearDesc \in Descriptor /\ OldDesc \in Descriptor
  BY DEF ClearDesc, OldDesc, Descriptor
<1>2. OldData \in Payload
  BY DEF OldData, Payload, SampleIdx, Gen
<1>3. TypeOK
  <2>1. desc \in [Blk -> Descriptor]
    BY <1>0, <1>1
  <2>2. samples \in [Blk -> Payload]
    BY <1>0, <1>2
  <2>3. buf \in [desc : Descriptor, data : Payload]
    BY <1>0, <1>1, <1>2
  <2>4. CountMod * BlockSize >= 1
    OBVIOUS
  <2>. HIDE DEF ClearDesc, OldDesc
  <2>. QED BY <1>0, <2>1, <2>2, <2>3, <2>4 DEF TypeOK, Blk, Unset
<1>4. Completed = 0
  BY <1>0, DivExact DEF Completed
<1>5. ~Writing /\ Ahead = 0 /\ Unpublished = 0 /\ Top = 0 /\ Pending = 0
  BY <1>0 DEF Writing, Ahead, Unpublished, Top, Pending
<1>6. FirmwareInv /\ FillInv
  BY <1>0, <1>5 DEF FirmwareInv, FillInv
<1>7. SlotsInv
  BY <1>0, <1>5 DEF SlotsInv, Back, Blk
<1>8. CountInv
  <2>1. 0 % NumBlocks = 0
    BY DivMod, Euclid
  <2>. QED BY <1>0, <1>4, <1>5, <2>1 DEF CountInv
<1>9. CompleteMeansWhole
  BY <1>0 DEF CompleteMeansWhole, Whole, OldDesc, ClearDesc, OldData, SampleIdx
<1>10. ReaderInv
  BY <1>0 DEF ReaderInv, Committed, Copied
<1>11. WantedInv /\ CopyInv
  BY <1>0, <1>5 DEF WantedInv, CopyInv, Committed, Copied, Held, Copying
<1>12. TakenInv /\ StampInv
  BY <1>0 DEF TakenInv, StampInv, Rising, NoGap
<1>13. ClockInv
  <2>1. Begun = {}
    BY <1>0, <1>5 DEF Begun
  <2>. QED BY <2>1 DEF ClockInv
<1>. QED BY <1>3, <1>6, <1>7, <1>8, <1>9, <1>10, <1>11, <1>12, <1>13 DEF IInv, SlotInv

LEMMA PruInv == IInv /\ Pru => IInv'
<1>. SUFFICES ASSUME IInv, Pru PROVE IInv'
  OBVIOUS
<1>1. TypeOK' /\ SlotInv' /\ ReaderInv' /\ ClockInv'
  BY PruType, SlotPru, ReaderPru, ClockPru DEF IInv
<1>2. ~lapped' => WantedInv' /\ CopyInv' /\ TakenInv'
  BY WantedPru, CopyPru, TakenPru
<1>3. ~lapped' /\ ~Wrapped' => StampInv'
  BY StampPru
<1>. QED BY <1>1, <1>2, <1>3 DEF IInv

LEMMA ReaderInvStep == IInv /\ Reader => IInv'
<1>. SUFFICES ASSUME IInv, Reader PROVE IInv'
  OBVIOUS
<1>0. lapped' = lapped /\ (Wrapped' <=> Wrapped)
  BY PendingReader DEF Wrapped
<1>1. TypeOK' /\ SlotInv' /\ ReaderInv'
  BY ReaderType, SlotReader, ReaderStep DEF IInv
<1>2. ~lapped => WantedInv' /\ CopyInv' /\ TakenInv'
  BY WantedReader, CopyReader, TakenReader
<1>3. ~lapped /\ ~Wrapped => StampInv'
  BY StampReader
<1>4. ClockInv'
  <2>1. UNCHANGED <<now, smp, pruAt, gen, began, timeouts>>
    BY DEF Reader, PollFirst, PollNothing, PollResync, PollReady, CheckFlags, CheckNum, ReadSize,
           CopyDesc, CopySample, Push, vars, pru, ghosts
  <2>2. ClockInv /\ Slack' = Slack /\ Begun' = Begun /\ Done' = Done
    BY <2>1 DEF IInv, Slack, Begun, Done, Top, Ahead, Writing
  <2>. QED BY <2>1, <2>2 DEF ClockInv, FirstOf, Fits
<1>. QED BY <1>0, <1>1, <1>2, <1>3, <1>4 DEF IInv

LEMMA StutterInv == IInv /\ UNCHANGED vars => IInv'
<1>. SUFFICES ASSUME IInv, UNCHANGED vars PROVE IInv'
  OBVIOUS
<1>. USE DEF vars, header, pru, reader, ghosts
<1>1. TypeOK' /\ ReaderInv'
  <2>1. TypeOK'
    BY DEF IInv, TypeOK
  <2>2. ReaderInv'
    BY DEF IInv, ReaderInv
  <2>. QED BY <2>1, <2>2
<1>2. SlotInv'
  BY DEF IInv, SlotInv, FirmwareInv, FillInv, SlotsInv, HoldsBlock, CountInv, CompleteMeansWhole,
         Whole, Writing, Top, Back, Ahead, Completed, Wrapped
<1>3. ~lapped' => WantedInv' /\ CopyInv'
  BY DEF IInv, WantedInv, CopyInv, Held, Copying, Pending, Completed, Unpublished, Writing, Cur
<1>4. ~lapped' => TakenInv'
  BY DEF IInv, TakenInv, Intact, Whole, BlockOf, Rising, Due, Cur, Pending, Completed, NoGap,
         Newest, Wrapped
<1>5. ClockInv' /\ (~lapped' /\ ~Wrapped' => StampInv')
  <2>1. ClockInv'
    BY DEF IInv, ClockInv, Fits, Slack, Begun, Done, FirstOf, Top, Ahead, Writing
  <2>2. ~lapped' /\ ~Wrapped' => StampInv'
    BY DEF IInv, StampInv, BlockOf, BlockTime, Wrapped
  <2>. QED BY <2>1, <2>2
<1>. QED BY <1>1, <1>2, <1>3, <1>4, <1>5 DEF IInv

LEMMA Invariance == Spec => []IInv
<1>1. IInv /\ [Next]_vars => IInv'
  BY PruInv, ReaderInvStep, StutterInv DEF Next
<1>. QED BY InitInv, <1>1, PTL DEF Spec

(* Every variable keeps its type: no slot index, sample index, block or
   descriptor field leaves its range, on either side.                      *)
THEOREM TypeCorrect == Spec => []TypeOK
<1>1. IInv => TypeOK
  BY DEF IInv
<1>. QED BY <1>1, Invariance, PTL

(* The order of the firmware's stores (pru_main.c:154-222) never lets a
   complete descriptor stand over a payload under construction.            *)
THEOREM CompleteSlotIsWhole == Spec => []CompleteMeansWhole
<1>1. IInv => CompleteMeansWhole
  BY DEF IInv, SlotInv
<1>. QED BY <1>1, Invariance, PTL

(* Not lapped, the reader hands on whole blocks the firmware took.         *)
THEOREM WholeBlocksTaken == Spec => []TakenWholeUnlessLapped
<1>1. IInv => TakenWholeUnlessLapped
  BY DEF IInv, TakenInv, TakenWholeUnlessLapped
<1>. QED BY <1>1, Invariance, PTL

(* Not lapped, it hands on every block once and in order, until the count
   overflows ...                                                           *)
THEOREM NoBlockMissed == Spec => []NoGapUnlessLapped
<1>1. IInv => NoGapUnlessLapped
  BY DEF IInv, TakenInv, NoGap, NoGapUnlessLapped
<1>. QED BY <1>1, Invariance, PTL

(* ... and no block a second time, however often it overflows.             *)
THEOREM NoBlockRepeated == Spec => []RisingUnlessLapped
<1>1. IInv => RisingUnlessLapped
  BY DEF IInv, TakenInv, RisingUnlessLapped
<1>. QED BY <1>1, Invariance, PTL

(* The reader's time line runs ahead of the firmware's time by a cycle per
   sample at most, and falls behind it by no more than what the loop does not
   measure, by failed conversions and, where the counter has saturated or the
   work does not fit the period, by the work.                              *)
THEOREM TimeLineKeepsPace == Spec => []KeepsPaceUnlessLost
<1>1. IInv => KeepsPaceUnlessLost
  <2>. SUFFICES ASSUME IInv, ~lapped, ~Wrapped, NEW i \in DOMAIN taken
                PROVE  InPace((BlockOf(taken[i]) - BlockOf(taken[1])) * BlockSize,
                              began[BlockOf(taken[i])] - began[BlockOf(taken[1])]
                                 - (taken[i].stamp - taken[1].stamp))
    BY DEF KeepsPaceUnlessLost, KeepsPace
  <2>. USE Geometry
  <2>1. /\ TakenInv /\ StampInv /\ ClockInv /\ TypeOK /\ FirmwareInv
        /\ 1 \in DOMAIN taken /\ 1 <= i /\ i \in Nat
    <3>. DEFINE R == [stamp : Nat, num : 0..BlockSize, data : Payload]
    <3>1. taken \in Seq(R)
      BY DEF IInv, TypeOK
    <3>. HIDE DEF R
    <3>2. 1 \in DOMAIN taken /\ 1 <= i /\ i \in Nat
      BY <3>1
    <3>. QED BY <3>2 DEF IInv, SlotInv
  <2>2. ASSUME NEW j \in DOMAIN taken
        PROVE  BlockOf(taken[j]) \in Begun /\ BlockOf(taken[j]) \in Int
    <3>1. BlockOf(taken[j]) \in 1..MaxBlocks
      BY <2>1, TakenType DEF TakenInv, Intact, Gen
    <3>2. BlockOf(taken[j]) <= Due
      BY <2>1 DEF TakenInv
    <3>3. Due \in Int /\ Top \in Int /\ Due <= Top
      BY Bounds DEF Due, Cur, Top, Ahead
    <3>4. BlockOf(taken[j]) <= Top
      BY <3>1, <3>2, <3>3
    <3>. QED BY <3>1, <3>4 DEF Begun
  <2>. DEFINE g == BlockOf(taken[1])
              h == BlockOf(taken[i])
  <2>3. g \in Begun /\ h \in Begun /\ g \in Int /\ h \in Int
    BY <2>1, <2>2
  <2>4. g <= h
    BY <2>1 DEF StampInv
  <2>5. taken[i].stamp - taken[1].stamp = (h - g) * BlockTime
    BY <2>1 DEF StampInv
  <2>6. began[g] \in Int /\ began[h] \in Int
    BY <2>1, <2>3, BegunFact
  <2>. HIDE DEF g, h
  <2>7. Fits(FirstOf(h) - FirstOf(g), began[h] - began[g], Slack, timeouts)
    BY <2>1, <2>3, <2>4 DEF ClockInv
  <2>8. FirstOf(h) - FirstOf(g) = (h - g) * BlockSize
    BY <2>3 DEF FirstOf
  <2>9. ((h - g) * BlockSize) * Period = (h - g) * BlockTime
    BY <2>3 DEF BlockTime
  <2>10. InPace((h - g) * BlockSize, began[h] - began[g] - (h - g) * BlockTime)
    BY <2>7, <2>8, <2>9 DEF Fits, InPace
  <2>. QED BY <2>5, <2>10 DEF g, h
<1>. QED BY <1>1, Invariance, PTL
=============================================================================
