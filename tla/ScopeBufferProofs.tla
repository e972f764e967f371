------------------------- MODULE ScopeBufferProofs -------------------------
(***************************************************************************)
(* For any capacity, word, sizes of blocks and windows, timeout, restarts  *)
(* and pauses: a page is sent the samples it asked for, one after the      *)
(* other, unless the writer came round to them; and what the web           *)
(* application says of the datalogger's health is right.                   *)
(*                                                                         *)
(* The invariant has three parts.  WriterInv: the two words of the total.  *)
(* HealthInv: what was noted at the looks of get_health_snapshot.          *)
(* WindowInv: which samples the memory holds, and for a window under way   *)
(* which samples its places are those of.  A reader that took the low word *)
(* first has the samples up to the total it began with, one that took it   *)
(* last those up to the total it found then; a total that is out by a      *)
(* carry names the same places, as Word is a multiple of Capacity, and is  *)
(* too large only where the writer has come round.                         *)
(***************************************************************************)
EXTENDS ScopeBuffer, SequenceTheorems, TLAPS

-----------------------------------------------------------------------------
(* The inductive invariant.                                                *)

Total == hi * Word + lo

(* A block fits, and is stored whole before the next one; the carry follows
   at once, and a restart finds the datalogger gone.                       *)
WriterInv ==
    /\ wr \in {Resting} \cup [pc : {"copy", "low", "high"}, block : Blocks, done : Nat]
    /\ ~alive => wr = Resting
    /\ wr.pc = "copy" => wr.done < wr.block
    /\ wr.pc = "low" => wr.done = wr.block
    /\ wr.pc \in {"copy", "low"} => count + wr.block <= MaxSamples
    /\ wr.pc = "high" => Total = count - Word /\ pushed = now

(* What is kept of the looks.                                              *)
Looks == [total : Int, at : Int, told : BOOLEAN, first : Int, polled : Int, gap : Nat, pushed : Int,
          run : Int, atRun : Int, seen : Int, far : BOOLEAN]
Polled == health.polled # Never
LooksInv ==
    /\ health \in Looks
    /\ ~Polled => health.total = Never /\ health.first = Never /\ health.at = Never
                  /\ ~health.told
    /\ Polled => health.total \in Nat /\ health.first # Never
    /\ health.polled <= now /\ health.at <= now /\ health.pushed <= pushed
    /\ health.atRun <= run

(* A total that differs from the one last seen has been stored since: unless
   it was reset.                                                           *)
MovedInv == Polled /\ Total # health.total /\ Total > 0 => pushed >= health.polled

(* The last move a look saw is no older than the samples behind it, but for
   the pause between two looks.                                            *)
RecentInv ==
    Polled /\ health.at # health.first /\ health.total > 0 => pushed >= health.at - health.gap

(* Within a run the total seen belongs to what had been pushed when it was
   first seen, its carry stored or not, and nothing was pushed after it as
   long as no more has come.                                               *)
SeenInv ==
    Polled /\ health.atRun = run =>
        /\ health.total \in {health.seen, health.seen - Word}
        /\ health.seen <= count
        /\ health.seen = count => pushed <= health.at

HealthInv == LooksInv /\ MovedInv /\ RecentInv /\ SeenInv /\ HealthTells

ToldInv == TypeOK /\ WriterInv /\ HealthInv

(* No sample of this run in the memory is newer than n.                    *)
UpTo(n) == \A i \in 0..Capacity - 1 : data[i].run = run => data[i].n <= n

(* The samples of this run that the memory has room for are in it, up to the
   last that was copied: one that is not yet published where the datalogger
   copies a block, or died at it.                                          *)
Ahead == IF wr.pc \in {"copy", "low"} THEN wr.done ELSE 0
Copied(c) ==
    /\ c >= count
    /\ alive => c = count + Ahead
    /\ \A n \in 1..c : n > c - Capacity => data[Place(n)] = [run |-> run, n |-> n]
    /\ UpTo(c)
DataInv ==
    /\ \A i \in 0..Capacity - 1 : data[i].run <= run
    /\ \E c \in Nat : Copied(c)

(* The first word that a reader loads.                                     *)
LoadInv ==
    /\ rd.since <= count
    /\ rd.first = "lo" => rd.word = rd.since % Word
    /\ rd.first = "hi" => rd.word * Word <= rd.since

(* The places it reads are those of the samples up to last, and it has read
   them unless the writer came round: as it has where it took the words of
   the total from either side of a carry.                                  *)
Reads(last) ==
    LET req == Len(rd.order)
        whole == UpTo(rd.since - req + Capacity)
    IN  /\ \A i \in 1..req : rd.order[i] = Place(last - req + i)
        /\ whole => req <= last
        /\ count < Word => req = Min({rd.window, Capacity, last})
        /\ whole => \A i \in 1..Len(rd.got) : rd.got[i] = [run |-> run, n |-> last - req + i]
CopyInv ==
    /\ rd.since <= rd.until /\ rd.until <= count
    /\ Len(rd.order) <= Capacity /\ Len(rd.got) <= Len(rd.order)
    /\ \E last \in rd.since..rd.until : Reads(last)

ReaderType ==
    rd \in {Resting}
           \cup [pc : {"load"}, window : Windows, first : {"lo", "hi"}, word : Nat, since : Nat,
                 run : Nat]
           \cup [pc : {"copy"}, window : Windows, since : Nat, run : Nat, until : Nat,
                 order : Seq(0..Capacity - 1), got : Seq(Sample)]
ReaderInv ==
    /\ ReaderType
    /\ rd.pc # "rest" => rd.run <= run
    /\ rd.pc = "load" /\ rd.run = run => LoadInv
    /\ rd.pc = "copy" /\ rd.run = run => CopyInv

WindowInv == DataInv /\ ReaderInv

IInv == ToldInv /\ WindowInv

-----------------------------------------------------------------------------
(* The datalogger.                                                         *)

(* Word is a multiple of Capacity, so a block carries once at most.        *)
LEMMA Fits == Capacity \in Nat /\ Capacity > 0 /\ Word \in Nat /\ Word > 0 /\ Capacity <= Word
<1>1. Capacity \in Nat \ {0} /\ Word \in Nat \ {0} /\ Word % Capacity = 0
  BY ScopeAssumption
<1>2. Word < Capacity => Word % Capacity = Word
  BY ONLY <1>1
<1>. QED BY ONLY <1>1, <1>2

LEMMA Carry ==
    ASSUME NEW c \in Nat, c < 2 * Word
    PROVE  c % Word \in 0..Word - 1 /\ c % Word = IF c >= Word THEN c - Word ELSE c
<1>1. Word \in Nat /\ Word > 0
  BY Fits
<1>2. c % Word = IF c >= Word THEN c - Word ELSE c
  BY <1>1
<1>. QED BY ONLY <1>1, <1>2

LEMMA InitWriter == Init => TypeOK /\ WriterInv
<1>. SUFFICES ASSUME Init PROVE TypeOK /\ WriterInv
  OBVIOUS
<1>. USE DEF Init
<1>0. /\ MaxRuns \in Nat /\ MaxSamples \in Nat /\ MaxTime \in Nat /\ Word \in Nat /\ Word > 0
      /\ Resting.pc = "rest" /\ Never = -1
  BY ScopeAssumption, Fits DEF Resting, Never
<1>1. data \in [0..Capacity - 1 -> Sample]
  BY <1>0 DEF Sample
<1>2. lo \in 0..Word - 1 /\ hi \in Nat /\ hi * Word + lo = count
  BY <1>0
<1>3. wr.pc = "rest"
  BY <1>0
<1>4. pushed \in Never..now /\ now \in 0..MaxTime /\ run \in 0..MaxRuns /\ count \in 0..MaxSamples
  BY <1>0
<1>. QED BY <1>1, <1>2, <1>3, <1>4 DEF TypeOK, WriterInv

(* What the writer's state is at a step of a push.                         *)
LEMMA WriterAt ==
    ASSUME TypeOK, WriterInv, wr.pc \in {"copy", "low", "high"}
    PROVE  /\ wr = [pc |-> wr.pc, block |-> wr.block, done |-> wr.done]
           /\ wr.block \in Blocks /\ wr.block \in 1..Capacity /\ wr.done \in Nat /\ alive
           /\ count \in Nat /\ lo \in 0..Word - 1 /\ hi \in Nat /\ hi * Word \in Nat
<1>1. wr \in [pc : {"copy", "low", "high"}, block : Blocks, done : Nat]
  BY DEF WriterInv, Resting
<1>2. Blocks \subseteq 1..Capacity
  BY ScopeAssumption
<1>3. wr.block \in Blocks /\ wr.done \in Nat
        /\ wr = [pc |-> wr.pc, block |-> wr.block, done |-> wr.done]
  BY <1>1
<1>4. alive
  BY DEF WriterInv, Resting
<1>5. count \in Nat /\ lo \in 0..Word - 1 /\ hi \in Nat
  BY DEF TypeOK
<1>6. hi * Word \in Nat
  BY ONLY <1>5, Fits
<1>. QED BY <1>2, <1>3, <1>4, <1>5, <1>6

LEMMA StartWriter == TypeOK /\ WriterInv /\ Start => TypeOK' /\ WriterInv'
<1>. SUFFICES ASSUME TypeOK, WriterInv, Start PROVE TypeOK' /\ WriterInv'
  OBVIOUS
<1>1. wr = Resting /\ Resting.pc = "rest"
  BY DEF Start, WriterInv, Resting
<1>2. lo' \in 0..Word - 1 /\ hi' \in Nat /\ hi' * Word + lo' = count' /\ count' \in 0..MaxSamples
  BY Fits, ScopeAssumption DEF Start
<1>3. run' \in 0..MaxRuns /\ alive' = TRUE
  BY ScopeAssumption DEF Start, TypeOK
<1>4. UNCHANGED <<data, wr, connected, now, pushed>>
  BY DEF Start
<1>5. TypeOK'
  BY <1>1, <1>2, <1>3, <1>4 DEF TypeOK
<1>6. WriterInv'
  BY <1>1, <1>3, <1>4 DEF WriterInv
<1>. QED BY <1>5, <1>6

LEMMA StopWriter == TypeOK /\ WriterInv /\ Stop => TypeOK' /\ WriterInv' /\ Total' = count
<1>. SUFFICES ASSUME TypeOK, WriterInv, Stop PROVE TypeOK' /\ WriterInv' /\ Total' = count
  OBVIOUS
<1>1. wr' = Resting /\ Resting.pc = "rest" /\ alive' = FALSE /\ lo' = lo
      /\ UNCHANGED <<data, run, count, connected, now, pushed>>
  BY DEF Stop, Resting
<1>2. lo \in 0..Word - 1 /\ hi \in Nat /\ Word \in Nat /\ count \in Nat
  BY Fits DEF TypeOK
<1>3. hi' \in Nat /\ hi' * Word + lo' = count
  <2>1. CASE wr.pc = "high"
    <3>1. hi' = hi + 1 /\ hi * Word + lo = count - Word
      BY <2>1 DEF Stop, WriterInv, Total
    <3>2. (hi + 1) * Word = hi * Word + Word
      BY ONLY <1>2
    <3>. QED BY ONLY <1>1, <1>2, <3>1, <3>2
  <2>2. CASE wr.pc # "high"
    BY <1>1, <1>2, <2>2 DEF Stop, TypeOK
  <2>. QED BY <2>1, <2>2
<1>4. TypeOK'
  BY <1>1, <1>3 DEF TypeOK
<1>5. WriterInv'
  BY <1>1 DEF WriterInv
<1>. QED BY <1>3, <1>4, <1>5 DEF Total

LEMMA PushWriter ==
    ASSUME TypeOK, WriterInv, NEW block \in Blocks, Push(block)
    PROVE  TypeOK' /\ WriterInv'
<1>1. /\ alive /\ count + block <= MaxSamples
      /\ wr' = [pc |-> "copy", block |-> block, done |-> 0] /\ wr.pc = "rest"
      /\ UNCHANGED <<data, lo, hi, run, alive, count, connected, now, pushed>>
  BY DEF Push, scopeVars
<1>2. block \in Nat /\ block > 0
  BY ScopeAssumption
<1>3. wr'.pc = "copy" /\ wr'.block = block /\ wr'.done = 0 /\ 0 \in 0..block
      /\ wr' \in [pc : {"copy", "low", "high"}, block : Blocks, done : Nat]
  BY <1>1, <1>2
<1>4. TypeOK'
  BY <1>1, <1>3 DEF TypeOK
<1>5. WriterInv'
  BY <1>1, <1>2, <1>3 DEF WriterInv
<1>. QED BY <1>4, <1>5

LEMMA CopyWriter == TypeOK /\ WriterInv /\ Copy => TypeOK' /\ WriterInv'
<1>. SUFFICES ASSUME TypeOK, WriterInv, Copy PROVE TypeOK' /\ WriterInv'
  OBVIOUS
<1>. DEFINE b == wr.block
            d == wr.done
            n == count + d + 1
            pc == IF d + 1 = b THEN "low" ELSE "copy"
<1>1. wr.pc = "copy"
  BY DEF Copy
<1>2. /\ wr = [pc |-> "copy", block |-> b, done |-> d] /\ b \in Blocks /\ b \in 1..Capacity
      /\ d \in Nat /\ d < b /\ count + b <= MaxSamples /\ alive /\ count \in Nat
  BY <1>1, WriterAt DEF WriterInv
<1>3. /\ data' = [data EXCEPT ![Place(n)] = [run |-> run, n |-> n]]
      /\ UNCHANGED <<lo, hi, run, alive, count, connected, now, pushed>>
  BY DEF Copy
<1>4. wr' = [pc |-> pc, block |-> b, done |-> d + 1]
  <2>1. wr' = [wr EXCEPT !.done = d + 1, !.pc = pc]
    BY DEF Copy
  <2>. DEFINE e == d + 1
  <2>. HIDE DEF pc, b, e, d
  <2>2. wr' = [wr EXCEPT !.done = e, !.pc = pc]
    BY <2>1 DEF e
  <2>3. wr = [pc |-> "copy", block |-> b, done |-> d]
    BY <1>2
  <2>4. wr' = [pc |-> pc, block |-> b, done |-> e]
    BY ONLY <2>2, <2>3
  <2>. QED BY ONLY <2>4 DEF e
<1>. HIDE DEF b, d
<1>5. wr'.pc = pc /\ wr'.block = b /\ wr'.done = d + 1 /\ pc \in {"low", "copy"}
  BY ONLY <1>4
<1>6. d + 1 \in 0..b /\ d + 1 \in Nat /\ (pc = "copy" => d + 1 < b) /\ (pc = "low" => d + 1 = b)
  BY ONLY <1>2
<1>7. data' \in [0..Capacity - 1 -> Sample]
  <2>1. [run |-> run, n |-> n] \in Sample
    <3>1. n \in 0..MaxSamples
      BY <1>2, ScopeAssumption
    <3>. QED BY <3>1 DEF Sample, TypeOK
  <2>2. data \in [0..Capacity - 1 -> Sample]
    BY DEF TypeOK
  <2>. QED BY <1>3, <2>1, <2>2
<1>8. wr' \in [pc : {"copy", "low", "high"}, block : Blocks, done : Nat]
  BY ONLY <1>2, <1>4, <1>6
<1>. HIDE DEF pc
<1>9. TypeOK'
  BY <1>1, <1>2, <1>3, <1>5, <1>6, <1>7 DEF TypeOK
<1>10. WriterInv'
  BY <1>2, <1>3, <1>5, <1>6, <1>8 DEF WriterInv
<1>. QED BY <1>9, <1>10

(* The low word carries, or the total is the count.                        *)
LEMMA StoreLowWriter ==
    TypeOK /\ WriterInv /\ StoreLow => TypeOK' /\ WriterInv' /\ count' > count /\ pushed' = now
<1>. SUFFICES ASSUME TypeOK, WriterInv, StoreLow
              PROVE  TypeOK' /\ WriterInv' /\ count' > count /\ pushed' = now
  OBVIOUS
<1>. DEFINE b == wr.block
            c == lo + b
<1>1. wr.pc = "low"
  BY DEF StoreLow
<1>2. /\ wr = [pc |-> "low", block |-> b, done |-> wr.done] /\ b \in Blocks /\ b \in 1..Capacity
      /\ count + b <= MaxSamples /\ alive /\ count \in Nat /\ wr.done = b /\ hi * Word \in Nat
      /\ lo \in 0..Word - 1
  BY <1>1, WriterAt DEF WriterInv
<1>3. hi * Word + lo = count
  BY <1>1 DEF TypeOK
<1>4. /\ lo' = c % Word /\ count' = count + b /\ pushed' = now
      /\ wr' = IF c >= Word THEN [wr EXCEPT !.pc = "high"] ELSE Resting
      /\ UNCHANGED <<data, hi, run, alive, connected, now>>
  BY DEF StoreLow
<1>5. lo' \in 0..Word - 1 /\ lo' = IF c >= Word THEN c - Word ELSE c
  <2>1. c \in Nat /\ c < 2 * Word
    BY <1>2, Fits
  <2>. HIDE DEF c
  <2>. QED BY <1>4, <2>1, Carry
<1>6. CASE c >= Word
  <2>1. wr' = [wr EXCEPT !.pc = "high"]
    BY ONLY <1>4, <1>6
  <2>2. wr' = [pc |-> "high", block |-> b, done |-> b]
    <3>. HIDE DEF b
    <3>. QED BY ONLY <2>1, <1>2
  <2>3. hi' * Word + lo' = count' - Word
    <3>. DEFINE h == hi * Word
    <3>1. hi' * Word = h
      BY <1>4
    <3>. HIDE DEF h
    <3>2. h + lo = count
      BY <1>3 DEF h
    <3>. QED BY <1>2, <1>4, <1>5, <1>6, <3>1, <3>2, Fits
  <2>4. wr'.pc = "high" /\ wr'.block = b /\ wr'.done = b /\ b \in Nat
        /\ wr' \in [pc : {"copy", "low", "high"}, block : Blocks, done : Nat]
    BY <1>2, <2>2
  <2>. HIDE DEF b, c
  <2>5. b \in 0..b
    BY <2>4
  <2>6. count' \in 0..MaxSamples /\ count' > count
    <3>1. b \in Nat /\ b > 0 /\ MaxSamples \in Nat
      BY ONLY <1>2, ScopeAssumption
    <3>. QED BY ONLY <1>2, <1>4, <3>1
  <2>7. pushed' \in Never..now' /\ now \in 0..MaxTime
    <3>1. now \in 0..MaxTime /\ now \in Nat
      BY ScopeAssumption DEF TypeOK
    <3>. QED BY ONLY <1>4, <3>1 DEF Never
  <2>8. TypeOK'
    BY <1>2, <1>4, <1>5, <2>4, <2>5, <2>6, <2>7 DEF TypeOK
  <2>9. WriterInv'
    BY <1>2, <1>4, <2>3, <2>4 DEF WriterInv, Total
  <2>. QED BY <1>4, <2>6, <2>8, <2>9
<1>7. CASE c < Word
  <2>1. wr' = Resting /\ Resting.pc = "rest"
    BY <1>2, <1>4, <1>7, Fits DEF Resting
  <2>3. hi' * Word + lo' = count'
    <3>. DEFINE h == hi * Word
    <3>1. hi' * Word = h
      BY <1>4
    <3>. HIDE DEF h
    <3>2. h + lo = count
      BY <1>3 DEF h
    <3>. QED BY <1>2, <1>4, <1>5, <1>7, <3>1, <3>2, Fits
  <2>. HIDE DEF b, c
  <2>6. count' \in 0..MaxSamples /\ count' > count
    <3>1. b \in Nat /\ b > 0 /\ MaxSamples \in Nat
      BY ONLY <1>2, ScopeAssumption
    <3>. QED BY ONLY <1>2, <1>4, <3>1
  <2>7. pushed' \in Never..now' /\ now \in 0..MaxTime
    <3>1. now \in 0..MaxTime /\ now \in Nat
      BY ScopeAssumption DEF TypeOK
    <3>. QED BY ONLY <1>4, <3>1 DEF Never
  <2>8. TypeOK'
    BY <1>2, <1>4, <1>5, <2>1, <2>3, <2>6, <2>7 DEF TypeOK
  <2>9. WriterInv'
    BY <1>2, <1>4, <2>1 DEF WriterInv
  <2>. QED BY <1>4, <2>6, <2>8, <2>9
<1>8. c \in Nat /\ Word \in Nat
  BY <1>2, Fits
<1>. QED BY <1>6, <1>7, <1>8

LEMMA StoreHighWriter == TypeOK /\ WriterInv /\ StoreHigh => TypeOK' /\ WriterInv' /\ Total' = count
<1>. SUFFICES ASSUME TypeOK, WriterInv, StoreHigh PROVE TypeOK' /\ WriterInv' /\ Total' = count
  OBVIOUS
<1>1. /\ wr.pc = "high" /\ hi' = hi + 1 /\ wr' = Resting /\ Resting.pc = "rest"
      /\ UNCHANGED <<data, lo, run, alive, count, connected, now, pushed>>
  BY DEF StoreHigh, Resting
<1>2. lo \in 0..Word - 1 /\ hi \in Nat /\ Word \in Nat /\ count \in Nat
  BY Fits DEF TypeOK
<1>3. hi' \in Nat /\ hi' * Word + lo' = count
  <2>1. hi * Word + lo = count - Word
    BY <1>1 DEF WriterInv, Total
  <2>2. (hi + 1) * Word = hi * Word + Word
    BY ONLY <1>2
  <2>. QED BY ONLY <1>1, <1>2, <2>1, <2>2
<1>4. TypeOK'
  BY <1>1, <1>3 DEF TypeOK
<1>5. WriterInv'
  BY <1>1 DEF WriterInv
<1>. QED BY <1>1, <1>3, <1>4, <1>5 DEF Total

(* The web application writes nothing that the datalogger reads.           *)
LEMMA OthersWriter ==
    ASSUME TypeOK, WriterInv, UNCHANGED <<scopeVars, writerVars>>, connected' \in BOOLEAN,
           UNCHANGED now \/ Tick
    PROVE  TypeOK' /\ WriterInv'
<1>1. UNCHANGED <<data, lo, hi, run, alive, wr, count, pushed>>
  BY DEF scopeVars, writerVars
<1>2. CASE UNCHANGED now
  BY <1>1, <1>2 DEF TypeOK, WriterInv, Total
<1>3. CASE Tick
  <2>1. now' = now + 1 /\ now' \in 0..MaxTime /\ now \in Nat /\ wr.pc # "high"
    BY <1>3, ScopeAssumption DEF Tick, TypeOK
  <2>2. pushed \in Never..now'
    BY <2>1 DEF TypeOK, Never
  <2>3. TypeOK'
    BY <1>1, <2>1, <2>2 DEF TypeOK
  <2>4. WriterInv'
    BY <1>1, <2>1 DEF WriterInv
  <2>. QED BY <2>3, <2>4
<1>. QED BY <1>2, <1>3

-----------------------------------------------------------------------------
(* Remainders.                                                             *)

LEMMA DivMod ==
    ASSUME NEW a \in Int, NEW n \in Nat \ {0}
    PROVE  a \div n \in Int /\ a % n \in 0..n - 1 /\ a = n * (a \div n) + (a % n)
OBVIOUS

LEMMA Euclid ==
    ASSUME NEW n \in Nat \ {0}, NEW q \in Int, NEW r \in 0..n - 1
    PROVE  (n * q + r) % n = r /\ (n * q + r) \div n = q
<1>. DEFINE a == n * q + r
            p == a \div n
            s == a % n
<1>1. a \in Int /\ p \in Int /\ s \in 0..n - 1 /\ n * q + r = n * p + s
  <2>1. n * q \in Int
    OBVIOUS
  <2>2. a \in Int
    BY <2>1
  <2>. QED BY <2>2, DivMod
<1>. HIDE DEF p, s
<1>2. n * (q - p) = s - r
  BY <1>1
<1>3. ASSUME q - p >= 1 PROVE FALSE
  <2>1. n * (q - p) >= n
    BY <1>1, <1>3
  <2>. QED BY <2>1, <1>2, <1>1
<1>4. ASSUME q - p <= -1 PROVE FALSE
  <2>1. n * (q - p) <= -n
    BY <1>1, <1>4
  <2>. QED BY <2>1, <1>2, <1>1
<1>5. q = p
  BY <1>1, <1>3, <1>4
<1>. QED BY <1>5, <1>1 DEF p, s

LEMMA ModAdd ==
    ASSUME NEW n \in Nat \ {0}, NEW a \in Int, NEW d \in Int
    PROVE  ((a % n) + d) % n = (a + d) % n
<1>. DEFINE q == a \div n
            r == a % n
            p == (r + d) \div n
            s == (r + d) % n
<1>1. q \in Int /\ r \in Int /\ a = n * q + r
  BY DivMod
<1>2. p \in Int /\ s \in 0..n - 1 /\ r + d = n * p + s
  <2>1. r + d \in Int
    BY <1>1
  <2>. HIDE DEF r
  <2>. QED BY ONLY <2>1, DivMod
<1>. HIDE DEF q, r, p, s
<1>3. a + d = n * (q + p) + s
  <2>1. n * (q + p) = n * q + n * p
    BY ONLY <1>1, <1>2
  <2>. QED BY ONLY <1>1, <1>2, <2>1
<1>4. (n * (q + p) + s) % n = s
  <2>1. q + p \in Int
    BY ONLY <1>1, <1>2
  <2>. QED BY ONLY <1>2, <2>1, Euclid
<1>5. (a + d) % n = s
  BY ONLY <1>3, <1>4
<1>. QED BY <1>5 DEF s, r

LEMMA ModTurn ==
    ASSUME NEW n \in Nat \ {0}, NEW a \in Int
    PROVE  (a + n) % n = a % n
<1>. DEFINE q == a \div n
            r == a % n
<1>1. q \in Int /\ r \in 0..n - 1 /\ a = n * q + r
  BY DivMod
<1>. HIDE DEF q, r
<1>2. a + n = n * (q + 1) + r
  <2>1. n * (q + 1) = n * q + n
    BY ONLY <1>1
  <2>. QED BY ONLY <1>1, <2>1
<1>3. (n * (q + 1) + r) % n = r
  BY ONLY <1>1, Euclid
<1>4. (a + n) % n = r
  BY ONLY <1>2, <1>3
<1>. QED BY <1>4 DEF r

(* As Word is a multiple of Capacity, the low word tells the place.        *)
LEMMA LowTells ==
    ASSUME NEW h \in Int, NEW l \in Int
    PROVE  (h * Word + l) % Capacity = l % Capacity
<1>. DEFINE k == Word \div Capacity
            q == l \div Capacity
            r == l % Capacity
<1>1. Capacity \in Nat \ {0} /\ Word \in Nat /\ Word % Capacity = 0
  BY ScopeAssumption
<1>2. k \in Int /\ Word = Capacity * k
  <2>1. k \in Int /\ Word = Capacity * k + (Word % Capacity)
    BY ONLY <1>1, DivMod
  <2>. HIDE DEF k
  <2>2. Capacity * k \in Int
    BY ONLY <1>1, <2>1
  <2>. QED BY ONLY <1>1, <2>1, <2>2
<1>3. q \in Int /\ r \in 0..Capacity - 1 /\ l = Capacity * q + r
  BY <1>1, DivMod
<1>. HIDE DEF k, q, r
<1>4. h * Word = Capacity * (h * k) /\ h * k \in Int
  BY ONLY <1>1, <1>2
<1>. DEFINE m == h * k
<1>5. h * Word + l = Capacity * (m + q) + r
  <2>. HIDE DEF m
  <2>1. h * Word = Capacity * m /\ m \in Int
    BY <1>4 DEF m
  <2>2. Capacity * (m + q) = Capacity * m + Capacity * q
    BY ONLY <1>1, <1>3, <2>1
  <2>3. h * Word \in Int /\ Capacity * m \in Int /\ Capacity * q \in Int
    BY ONLY <1>1, <1>3, <2>1
  <2>. QED BY ONLY <1>3, <2>1, <2>2, <2>3
<1>6. (Capacity * (m + q) + r) % Capacity = r
  <2>1. m + q \in Int
    BY <1>3, <1>4
  <2>. HIDE DEF m
  <2>. QED BY ONLY <1>1, <1>3, <2>1, Euclid
<1>7. (h * Word + l) % Capacity = r
  BY ONLY <1>5, <1>6
<1>. QED BY <1>7 DEF r

(* Places, of any number: within a turn no two numbers share one.          *)
LEMMA PlaceType ==
    ASSUME NEW n \in Int
    PROVE  Place(n) \in 0..Capacity - 1
<1>1. Capacity \in Nat \ {0} /\ n - 1 \in Int
  BY ScopeAssumption
<1>. QED BY ONLY <1>1, DivMod DEF Place

LEMMA PlaceApart ==
    ASSUME NEW m \in Int, NEW n \in Int, m < n, n < m + Capacity
    PROVE  Place(m) # Place(n)
<1>. DEFINE p == (m - 1) \div Capacity
            q == (n - 1) \div Capacity
            r == (m - 1) % Capacity
<1>0. Capacity \in Nat \ {0} /\ m \in Int /\ n \in Int /\ m - 1 \in Int /\ n - 1 \in Int
  BY ScopeAssumption
<1>. SUFFICES ASSUME (n - 1) % Capacity = r PROVE FALSE
  BY DEF Place
<1>1. /\ p \in Int /\ r \in Int /\ m - 1 = Capacity * p + r
      /\ q \in Int /\ n - 1 = Capacity * q + r
  BY <1>0, DivMod
<1>. HIDE DEF p, q, r
<1>2. Capacity * (q - p) = n - m
  <2>1. Capacity * (q - p) = Capacity * q - Capacity * p
    BY ONLY <1>0, <1>1
  <2>2. Capacity * q \in Int /\ Capacity * p \in Int
    BY ONLY <1>0, <1>1
  <2>. QED BY ONLY <1>0, <1>1, <2>1, <2>2
<1>3. ASSUME q - p >= 1 PROVE FALSE
  <2>1. Capacity * (q - p) >= Capacity
    BY <1>0, <1>1, <1>3
  <2>. QED BY <1>0, <1>2, <2>1
<1>4. ASSUME q - p <= 0 PROVE FALSE
  <2>1. Capacity * (q - p) <= 0
    BY <1>0, <1>1, <1>4
  <2>. QED BY <1>0, <1>2, <2>1
<1>. QED BY <1>1, <1>3, <1>4

(* The place of the d-th sample after a, from the place a was stored at.   *)
LEMMA PlaceFrom ==
    ASSUME NEW a \in Int, NEW req \in Int, NEW i \in Int
    PROVE  ((a % Capacity) - req + Capacity + i - 1) % Capacity = Place(a - req + i)
<1>. DEFINE d == Capacity + i - req - 1
            e == a + i - req - 1
            b == a % Capacity
<1>1. Capacity \in Nat \ {0} /\ d \in Int /\ e \in Int /\ e + Capacity = a + d
  BY ScopeAssumption
<1>2. b \in Int /\ b - req + Capacity + i - 1 = b + d /\ (a - req + i) - 1 = e
  <2>1. b \in Int
    BY <1>1, DivMod
  <2>. HIDE DEF b
  <2>. QED BY <1>1, <2>1
<1>3. (b + d) % Capacity = (a + d) % Capacity
  <2>. HIDE DEF d
  <2>. QED BY ONLY <1>1, ModAdd
<1>. HIDE DEF b, d, e
<1>4. (e + Capacity) % Capacity = e % Capacity
  BY ONLY <1>1, ModTurn
<1>5. (b - req + Capacity + i - 1) % Capacity = e % Capacity
  BY ONLY <1>1, <1>2, <1>3, <1>4
<1>. QED BY <1>2, <1>5 DEF b, Place

-----------------------------------------------------------------------------
(* The memory.                                                             *)

LEMMA Slots ==
    TypeOK => data \in [0..Capacity - 1 -> Sample] /\ count \in Nat /\ run \in Nat
              /\ \A i \in 0..Capacity - 1 : data[i].run \in Nat /\ data[i].n \in Nat
<1>1. MaxRuns \in Nat /\ MaxSamples \in Nat
  BY ScopeAssumption
<1>. QED BY <1>1 DEF TypeOK, Sample

LEMMA InitData == Init => DataInv
<1>. SUFFICES ASSUME Init PROVE DataInv
  OBVIOUS
<1>1. \A i \in 0..Capacity - 1 : data[i].run = 0 /\ data[i].n = 0
  BY DEF Init
<1>2. run = 0 /\ count = 0 /\ ~alive
  BY DEF Init
<1>3. Copied(0)
  BY <1>1, <1>2 DEF Copied, UpTo
<1>. QED BY <1>1, <1>2, <1>3 DEF DataInv

LEMMA StartData == TypeOK /\ WriterInv /\ DataInv /\ Start => DataInv'
<1>. SUFFICES ASSUME TypeOK, WriterInv, DataInv, Start PROVE DataInv'
  OBVIOUS
<1>1. count' = 0 /\ run' = run + 1 /\ data' = data /\ wr' = Resting /\ Resting.pc = "rest"
  BY DEF Start, WriterInv, Resting
<1>2. \A i \in 0..Capacity - 1 : data[i].run <= run /\ data[i].run \in Nat
  BY Slots DEF DataInv
<1>3. run \in Nat
  BY Slots
<1>4. \A i \in 0..Capacity - 1 : data'[i].run <= run' /\ data'[i].run # run'
  BY <1>1, <1>2, <1>3
<1>5. Ahead' = 0
  BY <1>1 DEF Ahead
<1>6. Copied(0)'
  BY <1>1, <1>4, <1>5 DEF Copied, UpTo
<1>. QED BY <1>4, <1>6 DEF DataInv

(* What stores no sample leaves the memory as it was.                      *)
LEMMA KeptData ==
    ASSUME TypeOK, WriterInv, DataInv, UNCHANGED <<data, run>>,
           count' <= count \/ (alive /\ count' <= count + Ahead),
           alive' => alive /\ count' + Ahead' = count + Ahead,
           count' \in Nat
    PROVE  DataInv'
<1>1. \A i \in 0..Capacity - 1 : data'[i].run <= run'
  BY DEF DataInv
<1>2. PICK c \in Nat : Copied(c)
  BY DEF DataInv
<1>3. c >= count /\ (alive => c = count + Ahead) /\ count \in Nat
  BY <1>2, Slots DEF Copied
<1>4. c >= count'
  BY <1>3
<1>5. alive' => c = count' + Ahead'
  BY <1>3
<1>6. UpTo(c)' /\ \A n \in 1..c : n > c - Capacity => data'[Place(n)] = [run |-> run', n |-> n]
  BY <1>2 DEF Copied, UpTo
<1>7. Copied(c)'
  BY <1>4, <1>5, <1>6 DEF Copied
<1>. QED BY <1>1, <1>7 DEF DataInv

(* A sample is stored on the oldest, and is the newest: what is up to b    *)
(* afterwards was so before.                                               *)
LEMMA CopyData ==
    ASSUME TypeOK, WriterInv, DataInv, Copy
    PROVE  DataInv' /\ \A b \in Int : UpTo(b)' => UpTo(b)
<1>1. wr.pc = "copy" /\ alive /\ count \in Nat /\ wr.done \in Nat /\ Capacity \in Nat
  <2>1. wr.pc = "copy"
    BY DEF Copy
  <2>. QED BY <2>1, WriterAt, ScopeAssumption
<1>2. wr'.pc \in {"copy", "low"} /\ wr'.done = wr.done + 1
  <2>. DEFINE pc == IF wr.done + 1 = wr.block THEN "low" ELSE "copy"
  <2>1. wr' = [wr EXCEPT !.done = wr.done + 1, !.pc = pc]
    BY DEF Copy
  <2>2. wr = [pc |-> wr.pc, block |-> wr.block, done |-> wr.done]
    BY <1>1, WriterAt
  <2>3. pc \in {"copy", "low"}
    OBVIOUS
  <2>. DEFINE x == wr.pc
              y == wr.block
              z == wr.done
  <2>4. wr = [pc |-> x, block |-> y, done |-> z] /\ wr' = [wr EXCEPT !.done = z + 1, !.pc = pc]
    BY <2>1, <2>2
  <2>5. wr'.pc = pc /\ wr'.done = z + 1
    <3>. HIDE DEF x, y, z, pc
    <3>. QED BY ONLY <2>4
  <2>. QED BY <2>3, <2>5
<1>3. Ahead = wr.done /\ Ahead' = wr.done + 1
  BY <1>1, <1>2 DEF Ahead
<1>4. PICK c \in Nat : Copied(c) /\ c = count + wr.done
  BY <1>1, <1>3 DEF DataInv, Copied
<1>. DEFINE n == c + 1
            new == [run |-> run, n |-> n]
<1>5. /\ data' = [data EXCEPT ![Place(n)] = new]
      /\ UNCHANGED <<run, alive, count>>
  BY <1>4 DEF Copy
<1>6. data \in [0..Capacity - 1 -> Sample] /\ Place(n) \in 0..Capacity - 1 /\ c \in Nat
  <2>1. c \in Nat /\ n \in Int
    BY <1>1
  <2>. HIDE DEF n
  <2>. QED BY <2>1, PlaceType, Slots
<1>7. data'[Place(n)] = new /\ \A i \in 0..Capacity - 1 : i # Place(n) => data'[i] = data[i]
  BY ONLY <1>5, <1>6
<1>8. new.n = n /\ new.run = run
  OBVIOUS
<1>. HIDE DEF new
<1>9. \A i \in 0..Capacity - 1 : data'[i].run <= run'
  <2>1. run <= run
    BY Slots
  <2>. QED BY <1>5, <1>7, <1>8, <2>1 DEF DataInv
<1>10. UpTo(c + 1)'
  <2>. SUFFICES ASSUME NEW i \in 0..Capacity - 1, data'[i].run = run
                PROVE  data'[i].n <= c + 1
    BY <1>5 DEF UpTo
  <2>1. CASE i = Place(n)
    BY <2>1, <1>6, <1>7, <1>8
  <2>2. CASE i # Place(n)
    <3>1. data[i].n <= c /\ data[i].n \in Nat
      BY <2>2, <1>4, <1>7, Slots DEF Copied, UpTo
    <3>. QED BY <2>2, <3>1, <1>6, <1>7
  <2>. QED BY <2>1, <2>2
<1>11. \A m \in 1..c + 1 : m > (c + 1) - Capacity =>
                              data'[Place(m)] = [run |-> run', n |-> m]
  <2>. SUFFICES ASSUME NEW m \in 1..c + 1, m > (c + 1) - Capacity
                PROVE  data'[Place(m)] = [run |-> run', n |-> m]
    OBVIOUS
  <2>1. CASE m = n
    BY <2>1, <1>5, <1>7 DEF new
  <2>2. CASE m # n
    <3>1. m \in 1..c /\ m > c - Capacity /\ m < n /\ n < m + Capacity /\ m \in Int /\ n \in Int
      BY <2>2, <1>1, <1>6
    <3>2. Place(m) # Place(n) /\ Place(m) \in 0..Capacity - 1
      <4>. HIDE DEF n
      <4>. QED BY <3>1, PlaceApart, PlaceType
    <3>3. data[Place(m)] = [run |-> run, n |-> m]
      BY <3>1, <1>4 DEF Copied
    <3>. QED BY <3>2, <3>3, <1>5, <1>7
  <2>. QED BY <2>1, <2>2
<1>12. Copied(c + 1)'
  <2>1. c + 1 >= count' /\ c + 1 = count' + Ahead'
    BY <1>1, <1>5, <1>3, <1>4
  <2>. QED BY <1>10, <1>11, <2>1 DEF Copied
<1>13. DataInv'
  BY <1>6, <1>9, <1>12 DEF DataInv
<1>14. ASSUME NEW b \in Int, UpTo(b)' PROVE UpTo(b)
  <2>. SUFFICES ASSUME NEW i \in 0..Capacity - 1, data[i].run = run
                PROVE  data[i].n <= b
    BY DEF UpTo
  <2>1. CASE i = Place(n)
    <3>1. n <= b
      BY <1>5, <1>6, <1>7, <1>8, <1>14 DEF UpTo
    <3>2. data[i].n <= c /\ data[i].n \in Nat
      BY <1>4, Slots DEF Copied, UpTo
    <3>. QED BY <3>1, <3>2, <1>6
  <2>2. CASE i # Place(n)
    BY <2>2, <1>5, <1>7, <1>14 DEF UpTo
  <2>. QED BY <2>1, <2>2
<1>. QED BY <1>13, <1>14

-----------------------------------------------------------------------------
(* The windows.                                                            *)

IsLeast(x, a, b, c) ==
    x \in {a, b, c} /\ x <= a /\ x <= b /\ x <= c

LEMMA Least3 ==
    ASSUME NEW a \in Int, NEW b \in Int, NEW c \in Int
    PROVE  IsLeast(Min({a, b, c}), a, b, c)
<1>. DEFINE S == {a, b, c}
<1>1. \E x \in S : \A y \in S : x <= y
  OBVIOUS
<1>2. Min(S) \in S /\ \A y \in S : Min(S) <= y
  BY <1>1 DEF Min
<1>. QED BY <1>2 DEF IsLeast

(* A multiple of Word that is not above n is not above n but for its low   *)
(* word.                                                                   *)
LEMMA LowOver ==
    ASSUME NEW n \in Nat, NEW w \in Nat, w * Word <= n
    PROVE  /\ w * Word + (n % Word) <= n /\ n % Word \in 0..Word - 1
           /\ n < Word => w = 0 /\ n % Word = n
           /\ (n % Word) % Capacity = n % Capacity
<1>. DEFINE q == n \div Word
            r == n % Word
<1>1. Word \in Nat \ {0}
  BY Fits
<1>2. q \in Int /\ r \in 0..Word - 1 /\ n = Word * q + r
  BY <1>1, DivMod
<1>3. r % Capacity = n % Capacity
  <2>1. (q * Word + r) % Capacity = r % Capacity
    <3>. HIDE DEF q, r
    <3>. QED BY ONLY <1>2, LowTells
  <2>. HIDE DEF q, r
  <2>2. Word * q = q * Word
    BY ONLY <1>1, <1>2
  <2>. QED BY ONLY <1>2, <2>1, <2>2
<1>. HIDE DEF q, r
<1>4. w <= q
  <2>. SUFFICES ASSUME w - q - 1 >= 0 PROVE FALSE
    BY <1>2
  <2>1. Word * (w - q - 1) >= 0
    BY ONLY <1>1, <1>2, w - q - 1 >= 0, w \in Nat
  <2>2. Word * (w - q - 1) = w * Word - Word * q - Word
    BY ONLY <1>1, <1>2, w \in Nat
  <2>3. w * Word \in Int /\ Word * q \in Int
    BY ONLY <1>1, <1>2, w \in Nat
  <2>. QED BY <1>1, <1>2, <2>1, <2>2, <2>3
<1>5. w * Word <= Word * q
  <2>1. Word * (q - w) >= 0
    BY ONLY <1>1, <1>2, <1>4, w \in Nat
  <2>2. Word * (q - w) = Word * q - w * Word
    BY ONLY <1>1, <1>2, w \in Nat
  <2>3. w * Word \in Int /\ Word * q \in Int
    BY ONLY <1>1, <1>2, w \in Nat
  <2>. QED BY ONLY <2>1, <2>2, <2>3
<1>6. w * Word + r <= n
  <2>1. w * Word \in Int /\ Word * q \in Int
    BY ONLY <1>1, <1>2, w \in Nat
  <2>. QED BY ONLY <1>2, <1>5, <2>1
<1>7. ASSUME n < Word PROVE w = 0 /\ r = n
  <2>1. w = 0
    <3>. SUFFICES ASSUME w - 1 >= 0 PROVE FALSE
      OBVIOUS
    <3>1. Word * (w - 1) >= 0
      BY ONLY <1>1, w - 1 >= 0, w \in Nat
    <3>2. Word * (w - 1) = w * Word - Word /\ w * Word \in Int
      BY ONLY <1>1, w \in Nat
    <3>. QED BY <1>1, <1>7, <3>1, <3>2
  <2>2. r = n
    BY <1>1, <1>7 DEF r
  <2>. QED BY <2>1, <2>2
<1>. QED BY <1>2, <1>3, <1>6, <1>7 DEF r

(* The words of the total, apart.                                          *)
LEMMA Words ==
    ASSUME TypeOK, WriterInv
    PROVE  /\ lo = count % Word /\ hi \in Nat /\ lo \in 0..Word - 1 /\ count \in Nat
           /\ hi * Word <= count
<1>1. Word \in Nat \ {0} /\ hi \in Nat /\ lo \in 0..Word - 1 /\ count \in Nat
  BY Fits DEF TypeOK
<1>. DEFINE h == IF wr.pc = "high" THEN hi + 1 ELSE hi
<1>2. h \in Nat /\ h >= hi
  BY <1>1
<1>3. h * Word = IF wr.pc = "high" THEN hi * Word + Word ELSE hi * Word
  BY <1>1
<1>4. h * Word + lo = count
  <2>1. wr.pc = "high" => hi * Word + lo = count - Word
    BY DEF WriterInv, Total
  <2>2. wr.pc # "high" => hi * Word + lo = count
    BY DEF TypeOK
  <2>3. hi * Word \in Int
    BY <1>1
  <2>. DEFINE k == hi * Word
  <2>. HIDE DEF h, k
  <2>4. h * Word = IF wr.pc = "high" THEN k + Word ELSE k
    BY <1>3 DEF k
  <2>5. /\ wr.pc = "high" => k + lo = count - Word
        /\ wr.pc # "high" => k + lo = count
        /\ k \in Int
    BY <2>1, <2>2, <2>3 DEF k
  <2>. QED BY ONLY <1>1, <2>4, <2>5
<1>5. hi * Word <= h * Word
  <2>. HIDE DEF h
  <2>1. Word * (h - hi) >= 0
    BY ONLY <1>1, <1>2
  <2>2. Word * (h - hi) = h * Word - hi * Word /\ h * Word \in Int /\ hi * Word \in Int
    BY ONLY <1>1, <1>2
  <2>. QED BY ONLY <2>1, <2>2
<1>. HIDE DEF h
<1>6. count % Word = lo
  <2>1. Word * h = h * Word
    BY ONLY <1>1, <1>2
  <2>2. (Word * h + lo) % Word = lo
    BY ONLY <1>1, <1>2, Euclid
  <2>. QED BY ONLY <1>4, <2>1, <2>2
<1>7. hi * Word <= count
  <2>1. h * Word \in Int /\ hi * Word \in Int
    BY ONLY <1>1, <1>2
  <2>. QED BY ONLY <1>1, <1>4, <1>5, <2>1
<1>. QED BY <1>1, <1>6, <1>7

LEMMA InitReader == Init => ReaderInv
<1>. QED BY DEF Init, ReaderInv, ReaderType, Resting

(* A window is not disturbed by a new run, which it is no longer of, nor   *)
(* by what the writer does, which can only make more of it too old.        *)
LEMMA KeptReader ==
    ASSUME TypeOK, ReaderInv, rd' = rd, run' \in Nat, run' >= run, count' \in Nat,
           run' = run => count' >= count /\ \A b \in Int : UpTo(b)' => UpTo(b)
    PROVE  ReaderInv'
<1>0. run \in Nat /\ count \in Nat /\ Capacity \in Nat
  BY Slots, ScopeAssumption
<1>1. ReaderType' /\ (rd'.pc # "rest" => rd'.run <= run)
  BY DEF ReaderInv, ReaderType
<1>2. CASE rd.pc = "rest"
  BY <1>1, <1>2 DEF ReaderInv
<1>3. CASE rd.pc # "rest" /\ run' # run
  <2>1. rd.run \in Nat
    BY <1>1, <1>3 DEF ReaderType, Resting
  <2>2. rd'.run <= run' /\ rd'.run # run'
    BY <1>0, <1>1, <1>3, <2>1
  <2>. QED BY <1>1, <2>2 DEF ReaderInv
<1>4. CASE rd.pc = "load" /\ run' = run
  <2>1. rd.since \in Nat
    BY <1>1, <1>4 DEF ReaderType, Resting
  <2>2. rd.run = run => LoadInv'
    BY <1>0, <1>4, <2>1 DEF ReaderInv, LoadInv
  <2>. QED BY <1>1, <1>4, <2>2 DEF ReaderInv
<1>5. CASE rd.pc = "copy" /\ run' = run
  <2>1. rd.since \in Nat /\ rd.until \in Nat /\ rd.order \in Seq(0..Capacity - 1)
    BY <1>1, <1>5 DEF ReaderType, Resting
  <2>2. ASSUME rd.run = run PROVE CopyInv'
    <3>1. CopyInv
      BY <1>5, <2>2 DEF ReaderInv
    <3>2. PICK last \in rd.since..rd.until : Reads(last)
      BY <3>1 DEF CopyInv
    <3>. DEFINE b == rd.since - Len(rd.order) + Capacity
    <3>3. b \in Int
      BY <1>0, <2>1
    <3>4. UpTo(b)' => UpTo(b)
      <4>1. b' = b
        OBVIOUS
      <4>. QED BY <1>5, <3>3, <4>1
    <3>5. Reads(last)'
      <4>1. count' < Word => count < Word
        BY <1>0, <1>5, Fits
      <4>. QED BY <1>5, <3>2, <3>4, <4>1 DEF Reads
    <3>6. rd.until <= count'
      BY <1>0, <1>5, <2>1, <3>1 DEF CopyInv
    <3>. QED BY <3>1, <3>2, <3>5, <3>6 DEF CopyInv
  <2>. QED BY <1>1, <1>5, <2>2 DEF ReaderInv
<1>6. rd.pc \in {"rest", "load", "copy"}
  BY <1>1 DEF ReaderType, Resting
<1>. QED BY <1>2, <1>3, <1>4, <1>5, <1>6

LEMMA LoadWordReader ==
    ASSUME TypeOK, WriterInv, NEW window \in Windows, LoadWord(window)
    PROVE  ReaderInv'
<1>1. PICK first \in {"lo", "hi"} :
          rd' = [pc |-> "load", window |-> window, first |-> first,
                 word |-> IF first = "lo" THEN lo ELSE hi, since |-> count, run |-> run]
  BY DEF LoadWord
<1>2. UNCHANGED <<lo, hi, run, count>>
  BY DEF LoadWord, scopeVars, writerVars
<1>3. lo = count % Word /\ hi \in Nat /\ lo \in Nat /\ count \in Nat /\ hi * Word <= count /\ run \in Nat
  BY Words, Slots
<1>4. ReaderType'
  BY <1>1, <1>3 DEF ReaderType
<1>5. /\ rd'.pc = "load" /\ rd'.first = first /\ rd'.since = count /\ rd'.run = run
      /\ rd'.word = IF first = "lo" THEN lo ELSE hi
  BY <1>1
<1>6. LoadInv'
  BY <1>2, <1>3, <1>5 DEF LoadInv
<1>. QED BY <1>2, <1>3, <1>4, <1>5, <1>6 DEF ReaderInv

(* Where the memory holds as much as there is room for, the samples after  *)
(* n are not all in it unless they have been stored over older ones.       *)
LEMMA Newest ==
    ASSUME TypeOK, DataInv, NEW b \in Int, UpTo(b), b >= 0
    PROVE  count <= b
<1>1. PICK c \in Nat : Copied(c)
  BY DEF DataInv
<1>2. c >= count /\ count \in Nat /\ Capacity \in Nat /\ Capacity > 0
  BY <1>1, Slots, ScopeAssumption DEF Copied
<1>3. CASE c = 0
  BY <1>2, <1>3
<1>4. CASE c > 0
  <2>1. data[Place(c)] = [run |-> run, n |-> c]
    BY <1>1, <1>2, <1>4 DEF Copied
  <2>2. Place(c) \in 0..Capacity - 1
    BY PlaceType
  <2>3. c <= b
    BY <2>1, <2>2 DEF UpTo
  <2>. QED BY <1>2, <2>3
<1>. QED BY <1>3, <1>4

(* What is asked for, and the places it is read from.                      *)
IsRequest(req, window, total) ==
    req = Min({window, Capacity, total}) /\ req \in Nat /\ req <= Capacity /\ req <= total

LEMMA Requests ==
    ASSUME NEW window \in Windows, NEW total \in Nat
    PROVE  IsRequest(Requested(window, total), window, total)
<1>1. window \in Int /\ Capacity \in Int /\ window > 0 /\ Capacity > 0
  BY ScopeAssumption
<1>2. IsLeast(Min({window, Capacity, total}), window, Capacity, total)
  BY <1>1, Least3
<1>. QED BY <1>1, <1>2 DEF IsLeast, IsRequest, Requested

(* The places are those of the samples up to last, whose place the total   *)
(* tells.                                                                  *)
Places(total, req) == [i \in 1..req |-> ((total % Capacity) - req + Capacity + i - 1) % Capacity]
AreUpTo(order, last, req) ==
    /\ order \in Seq(0..Capacity - 1) /\ Len(order) = req
    /\ \A i \in 1..req : order[i] = Place(last - req + i)

LEMMA PlacesUpTo ==
    ASSUME NEW total \in Nat, NEW last \in Nat, total % Capacity = last % Capacity, NEW req \in Nat
    PROVE  AreUpTo(Places(total, req), last, req)
<1>. DEFINE order == Places(total, req)
<1>1. \A i \in 1..req : order[i] = Place(last - req + i)
  <2>. SUFFICES ASSUME NEW i \in 1..req PROVE order[i] = Place(last - req + i)
    OBVIOUS
  <2>1. last \in Int /\ req \in Int /\ i \in Int
    OBVIOUS
  <2>2. ((last % Capacity) - req + Capacity + i - 1) % Capacity = Place(last - req + i)
    BY ONLY <2>1, PlaceFrom
  <2>3. order[i] = ((total % Capacity) - req + Capacity + i - 1) % Capacity
    BY DEF Places
  <2>. QED BY <2>2, <2>3
<1>2. \A i \in 1..req : order[i] \in 0..Capacity - 1
  <2>. SUFFICES ASSUME NEW i \in 1..req PROVE order[i] \in 0..Capacity - 1
    OBVIOUS
  <2>1. last - req + i \in Int
    OBVIOUS
  <2>2. Place(last - req + i) \in 0..Capacity - 1
    BY ONLY <2>1, PlaceType
  <2>. QED BY <1>1, <2>2
<1>3. order \in [1..req -> 0..Capacity - 1]
  BY <1>2 DEF Places
<1>. HIDE DEF order
<1>4. order \in Seq(0..Capacity - 1)
  BY ONLY <1>3, req \in Nat, SeqDef
<1>5. Len(order) = req
  BY ONLY <1>3, req \in Nat
<1>. QED BY <1>1, <1>4, <1>5 DEF AreUpTo, order

LEMMA LoadOtherReader ==
    ASSUME TypeOK, WriterInv, DataInv, ReaderInv, LoadOther
    PROVE  ReaderInv'
<1>. DEFINE total == IF rd.first = "lo" THEN hi * Word + rd.word ELSE rd.word * Word + lo
            req == Requested(rd.window, total)
            order == Places(total, req)
<1>1. rd.pc = "load"
  BY DEF LoadOther
<1>2. /\ rd.window \in Windows /\ rd.first \in {"lo", "hi"} /\ rd.word \in Nat /\ rd.since \in Nat
      /\ rd.run \in Nat /\ rd.run <= run
  BY <1>1 DEF ReaderInv, ReaderType, Resting
<1>3. rd' = IF total = 0 THEN Resting
            ELSE [pc |-> "copy", window |-> rd.window, since |-> rd.since, run |-> rd.run,
                  until |-> count, order |-> order, got |-> <<>>]
  BY DEF LoadOther, Places
<1>4. UNCHANGED <<data, lo, hi, run, count>>
  BY DEF LoadOther, scopeVars, writerVars
<1>5. /\ lo = count % Word /\ hi \in Nat /\ lo \in Nat /\ count \in Nat /\ hi * Word <= count
      /\ Word \in Nat /\ Capacity \in Nat /\ Capacity > 0 /\ Capacity <= Word
  BY Words, Fits
<1>6. total \in Nat
  <2>1. hi * Word \in Nat /\ rd.word * Word \in Nat
    BY ONLY <1>2, <1>5
  <2>2. hi * Word + rd.word \in Nat /\ rd.word * Word + lo \in Nat
    BY ONLY <1>2, <1>5, <2>1
  <2>. QED BY ONLY <2>2
<1>7. IsRequest(req, rd.window, total)
  <2>. HIDE DEF total
  <2>. QED BY <1>2, <1>6, Requests
<1>8. CASE total = 0
  <2>1. rd' = Resting
    BY <1>3, <1>8
  <2>. QED BY <2>1 DEF ReaderInv, ReaderType, Resting
<1>9. CASE total # 0
  <2>. HIDE DEF total, req, order
  <2>1. rd' = [pc |-> "copy", window |-> rd.window, since |-> rd.since, run |-> rd.run,
               until |-> count, order |-> order, got |-> <<>>]
    BY <1>3, <1>9
  <2>2. /\ rd'.pc = "copy" /\ rd'.window = rd.window /\ rd'.since = rd.since /\ rd'.run = rd.run
        /\ rd'.until = count /\ rd'.order = order /\ rd'.got = <<>>
    BY ONLY <2>1
  <2>3. req \in Nat /\ req <= Capacity /\ req <= total
    BY ONLY <1>7 DEF IsRequest
  <2>4. order \in Seq(0..Capacity - 1) /\ Len(order) = req
    <3>1. AreUpTo(Places(total, req), total, req)
      <4>1. total \in Nat /\ req \in Nat /\ total % Capacity = total % Capacity
        BY <1>6, <2>3
      <4>. QED BY ONLY <4>1, PlacesUpTo
    <3>. QED BY ONLY <3>1 DEF order, AreUpTo
  <2>5. ReaderType'
    <3>1. <<>> \in Seq(Sample)
      OBVIOUS
    <3>. QED BY <1>2, <1>5, <2>1, <2>4, <3>1 DEF ReaderType
  <2>6. ASSUME rd.run = run PROVE CopyInv'
    <3>1. LoadInv
      BY <1>1, <2>6 DEF ReaderInv
    <3>2. ASSUME NEW last \in rd.since..count, total % Capacity = last % Capacity,
                 UpTo(rd.since - req + Capacity) => req <= last,
                 count < Word => total = last
          PROVE  CopyInv'
      <4>1. last \in Nat
        BY <1>2, <1>5
      <4>2. \A i \in 1..req : order[i] = Place(last - req + i)
        BY <1>6, <2>3, <3>2, <4>1, PlacesUpTo DEF order, AreUpTo
      <4>3. \A i \in 1..Len(rd'.got) : rd'.got[i] = [run |-> run', n |-> last - req + i]
        BY <2>2
      <4>4. count < Word => req = Min({rd.window, Capacity, last})
        BY <1>7, <3>2 DEF IsRequest
      <4>. DEFINE b == rd.since - req + Capacity
      <4>5. (\A i \in 0..Capacity - 1 : data'[i].run = run' => data'[i].n <= b) => req <= last
        BY <1>4, <3>2 DEF UpTo
      <4>6. rd'.since - Len(rd'.order) + Capacity = b /\ Len(rd'.order) = req
        BY <2>2, <2>4
      <4>. HIDE DEF b
      <4>7. Reads(last)'
        BY ONLY <1>4, <2>2, <4>2, <4>3, <4>4, <4>5, <4>6 DEF Reads, UpTo
      <4>8. Len(rd'.got) = 0 /\ rd'.since <= rd'.until /\ rd'.until <= count' /\ rd.since <= count
        BY <1>2, <1>4, <1>5, <2>2, <3>1 DEF LoadInv
      <4>9. last \in rd'.since..rd'.until /\ Len(rd'.got) <= Len(rd'.order) /\ Len(rd'.order) <= Capacity
        BY <2>2, <2>3, <4>6, <4>8
      <4>. QED BY <4>7, <4>8, <4>9 DEF CopyInv
    <3>3. CASE rd.first = "lo"
      <4>1. total = hi * Word + (rd.since % Word)
        BY <3>1, <3>3 DEF LoadInv, total
      <4>2. rd.since <= count /\ rd.since \in Nat
        BY <1>2, <3>1 DEF LoadInv
      <4>3. total % Capacity = rd.since % Capacity
        <5>. DEFINE l == rd.since % Word
        <5>1. 0 * Word <= rd.since /\ 0 \in Nat
          BY <1>5, <4>2
        <5>2. l % Capacity = rd.since % Capacity /\ l \in Int
          BY ONLY <4>2, <5>1, LowOver
        <5>. HIDE DEF l
        <5>3. (hi * Word + l) % Capacity = l % Capacity
          <6>1. hi \in Int
            BY <1>5
          <6>. QED BY ONLY <5>2, <6>1, LowTells
        <5>. QED BY <4>1, <5>2, <5>3 DEF l
      <4>4. hi = 0 => total <= rd.since /\ (rd.since < Word => total = rd.since)
        <5>1. 0 * Word <= rd.since /\ 0 \in Nat
          BY <1>5, <4>2
        <5>. DEFINE l == rd.since % Word
        <5>2. 0 * Word + l <= rd.since /\ (rd.since < Word => l = rd.since) /\ l \in 0..Word - 1
          BY ONLY <4>2, <5>1, LowOver
        <5>. HIDE DEF l
        <5>3. 0 * Word = 0 /\ (hi = 0 => hi * Word = 0)
          BY <1>5
        <5>. QED BY <1>5, <4>1, <5>2, <5>3 DEF l
      <4>5. hi # 0 => count >= Word
        <5>. SUFFICES ASSUME hi - 1 >= 0 PROVE count >= Word
          BY <1>5
        <5>1. Word * (hi - 1) >= 0
          BY ONLY <1>5, hi - 1 >= 0
        <5>2. Word * (hi - 1) = hi * Word - Word /\ hi * Word \in Int
          BY ONLY <1>5
        <5>. QED BY ONLY <1>5, <5>1, <5>2
      <4>6. ASSUME UpTo(rd.since - req + Capacity) PROVE req <= rd.since
        <5>1. CASE hi = 0
          BY <1>6, <2>3, <4>2, <4>4, <5>1
        <5>2. CASE hi # 0
          <6>. SUFFICES ASSUME req > rd.since PROVE FALSE
            BY <2>3, <4>2
          <6>. DEFINE b == rd.since - req + Capacity
          <6>1. b \in Int /\ b >= 0 /\ b < Capacity
            BY <1>5, <2>3, <4>2
          <6>2. UpTo(b)
            BY <4>6
          <6>. HIDE DEF b
          <6>3. count <= b
            BY <6>1, <6>2, Newest
          <6>. QED BY <1>5, <4>5, <5>2, <6>1, <6>3
        <5>. QED BY <5>1, <5>2
      <4>7. count < Word => total = rd.since
        BY <1>5, <4>2, <4>4, <4>5
      <4>8. rd.since \in rd.since..count
        BY <1>5, <4>2
      <4>. QED BY <3>2, <4>3, <4>6, <4>7, <4>8
    <3>4. CASE rd.first = "hi"
      <4>1. total = rd.word * Word + (count % Word)
        BY <1>5, <3>4 DEF total
      <4>2. rd.since <= count /\ rd.since \in Nat /\ rd.word * Word <= rd.since
        BY <1>2, <3>1, <3>4 DEF LoadInv
      <4>3. rd.word * Word <= count
        <5>1. rd.word * Word \in Int
          BY ONLY <1>2, <1>5
        <5>. QED BY ONLY <1>5, <4>2, <5>1
      <4>4. /\ rd.word * Word + (count % Word) <= count /\ count % Word \in Int
            /\ count < Word => rd.word = 0 /\ count % Word = count
            /\ (count % Word) % Capacity = count % Capacity
        <5>. DEFINE w == rd.word
        <5>1. w \in Nat /\ w * Word <= count /\ count \in Nat /\ Word \in Nat
          BY <1>2, <1>5, <4>3
        <5>. HIDE DEF w
        <5>2. /\ w * Word + (count % Word) <= count /\ count % Word \in 0..Word - 1
              /\ count < Word => w = 0 /\ count % Word = count
              /\ (count % Word) % Capacity = count % Capacity
          BY ONLY <5>1, LowOver
        <5>. QED BY <5>1, <5>2 DEF w
      <4>5. total <= count /\ (count < Word => total = count)
        BY <1>5, <4>1, <4>4
      <4>6. total % Capacity = count % Capacity
        <5>1. (rd.word * Word + (count % Word)) % Capacity = (count % Word) % Capacity
          BY ONLY <1>2, <4>4, LowTells
        <5>. QED BY ONLY <4>1, <4>4, <5>1
      <4>7. req <= count
        BY <1>5, <1>6, <2>3, <4>5
      <4>8. count \in rd.since..count
        BY <1>5, <4>2
      <4>. QED BY <3>2, <4>5, <4>6, <4>7, <4>8
    <3>. QED BY <1>2, <3>3, <3>4
  <2>. QED BY <1>2, <1>4, <2>2, <2>5, <2>6 DEF ReaderInv
<1>. QED BY <1>8, <1>9

(* A place that was not written since holds the sample it is read for.     *)
LEMMA SliceReader ==
    ASSUME TypeOK, DataInv, ReaderInv, Slice
    PROVE  ReaderInv'
<1>. DEFINE k == Len(rd.got) + 1
            s == data[rd.order[k]]
<1>1. rd.pc = "copy" /\ Len(rd.got) < Len(rd.order)
  BY DEF Slice
<1>2. /\ rd = [pc |-> "copy", window |-> rd.window, since |-> rd.since, run |-> rd.run,
               until |-> rd.until, order |-> rd.order, got |-> rd.got]
      /\ rd.window \in Windows /\ rd.since \in Nat /\ rd.run \in Nat /\ rd.until \in Nat
      /\ rd.order \in Seq(0..Capacity - 1) /\ rd.got \in Seq(Sample) /\ rd.run <= run
  BY <1>1 DEF ReaderInv, ReaderType, Resting
<1>3. UNCHANGED <<data, run, count>>
  BY DEF Slice, scopeVars, writerVars
<1>4. /\ rd'.pc = "copy" /\ rd'.window = rd.window /\ rd'.since = rd.since /\ rd'.run = rd.run
      /\ rd'.until = rd.until /\ rd'.order = rd.order /\ rd'.got = Append(rd.got, s)
      /\ rd' = [pc |-> "copy", window |-> rd.window, since |-> rd.since, run |-> rd.run,
                until |-> rd.until, order |-> rd.order, got |-> Append(rd.got, s)]
  <2>. DEFINE w == rd.window
              a == rd.since
              r == rd.run
              u == rd.until
              o == rd.order
              g == rd.got
              h == Append(rd.got, s)
  <2>1. rd = [pc |-> "copy", window |-> w, since |-> a, run |-> r, until |-> u, order |-> o, got |-> g]
        /\ rd' = [rd EXCEPT !.got = h]
    BY <1>2 DEF Slice
  <2>. HIDE DEF w, a, r, u, o, g, h
  <2>2. rd' = [pc |-> "copy", window |-> w, since |-> a, run |-> r, until |-> u, order |-> o, got |-> h]
    BY ONLY <2>1
  <2>3. /\ rd'.pc = "copy" /\ rd'.window = w /\ rd'.since = a /\ rd'.run = r
        /\ rd'.until = u /\ rd'.order = o /\ rd'.got = h
    BY ONLY <2>2
  <2>. QED BY ONLY <2>2, <2>3 DEF w, a, r, u, o, g, h
<1>5. k \in 1..Len(rd.order) /\ rd.order[k] \in 0..Capacity - 1 /\ k \in Nat /\ Len(rd.order) \in Nat
  <2>1. Len(rd.got) \in Nat /\ Len(rd.order) \in Nat
    BY <1>2
  <2>2. k \in 1..Len(rd.order) /\ k \in Nat
    BY ONLY <1>1, <2>1
  <2>. HIDE DEF k
  <2>3. rd.order[k] \in 0..Capacity - 1
    <3>. DEFINE S == 0..Capacity - 1
                o == rd.order
    <3>1. o \in Seq(S) /\ k \in 1..Len(o)
      BY <1>2, <2>2
    <3>. HIDE DEF S, o
    <3>2. o[k] \in S
      BY ONLY <3>1, ElementOfSeq
    <3>. QED BY <3>2 DEF S, o
  <2>. QED BY <2>1, <2>2, <2>3
<1>6. s \in Sample
  BY <1>5 DEF TypeOK
<1>. HIDE DEF s
<1>7. /\ Append(rd.got, s) \in Seq(Sample) /\ Len(Append(rd.got, s)) = k
      /\ \A i \in 1..k : Append(rd.got, s)[i] = IF i = k THEN s ELSE rd.got[i]
  BY ONLY <1>2, <1>6
<1>8. ReaderType'
  BY <1>2, <1>4, <1>7 DEF ReaderType
<1>9. ASSUME rd.run = run PROVE CopyInv'
  <2>1. CopyInv
    BY <1>1, <1>9 DEF ReaderInv
  <2>2. PICK last \in rd.since..rd.until : Reads(last)
    BY <2>1 DEF CopyInv
  <2>. DEFINE req == Len(rd.order)
              b == rd.since - req + Capacity
              n == last - req + k
  <2>3. last \in Nat /\ last <= count /\ last >= rd.since /\ count \in Nat /\ Capacity \in Nat
        /\ req \in Nat /\ req <= Capacity
    <3>1. rd.until <= count /\ count \in Nat /\ Capacity \in Nat
      BY <2>1, Slots, ScopeAssumption DEF CopyInv
    <3>2. req <= Capacity
      BY <2>1 DEF CopyInv
    <3>. HIDE DEF k
    <3>3. last \in Int /\ rd.since <= last /\ last <= rd.until
      BY <1>2, <2>2
    <3>4. rd.since \in Nat /\ rd.until \in Nat /\ req \in Nat
      BY <1>2, <1>5
    <3>. HIDE DEF req
    <3>. QED BY ONLY <3>1, <3>2, <3>3, <3>4
  <2>4. ASSUME UpTo(b) PROVE s = [run |-> run, n |-> n]
    <3>1. req <= last /\ rd.order[k] = Place(n)
      BY <1>5, <2>2, <2>4 DEF Reads
    <3>2. PICK c \in Nat : Copied(c)
      BY DEF DataInv
    <3>3. c >= count
      BY <3>2 DEF Copied
    <3>4. n \in 1..c
      <4>. HIDE DEF k
      <4>. QED BY <1>5, <2>3, <3>1, <3>3
    <3>5. c <= b
      <4>1. data[Place(c)] = [run |-> run, n |-> c] /\ Place(c) \in 0..Capacity - 1
        <5>1. c \in 1..c /\ c > c - Capacity /\ c \in Int
          BY <3>4, <2>3, ScopeAssumption
        <5>. QED BY <3>2, <5>1, PlaceType DEF Copied
      <4>. QED BY <2>4, <4>1 DEF UpTo
    <3>6. n > c - Capacity
      <4>. HIDE DEF k
      <4>1. c <= rd.since - req + Capacity /\ c \in Nat
        BY <3>5
      <4>2. k >= 1 /\ k \in Nat /\ rd.since \in Nat
        BY <1>2, <1>5
      <4>. HIDE DEF req, k
      <4>. QED BY ONLY <2>3, <4>1, <4>2
    <3>7. data[Place(n)] = [run |-> run, n |-> n]
      BY <3>2, <3>4, <3>6 DEF Copied
    <3>. QED BY <3>1, <3>7 DEF s
  <2>5. UpTo(b) => \A i \in 1..k : Append(rd.got, s)[i] = [run |-> run, n |-> last - req + i]
    <3>. SUFFICES ASSUME UpTo(b), NEW i \in 1..k
                  PROVE  Append(rd.got, s)[i] = [run |-> run, n |-> last - req + i]
      OBVIOUS
    <3>1. CASE i = k
      BY <1>7, <2>4, <3>1
    <3>2. CASE i # k
      <4>1. i \in 1..Len(rd.got)
        BY <1>2, <3>2
      <4>. QED BY <1>7, <2>2, <3>2, <4>1 DEF Reads
    <3>. QED BY <3>1, <3>2
  <2>6. (\A i \in 0..Capacity - 1 : data'[i].run = run' => data'[i].n <= b) => UpTo(b)
    BY <1>3 DEF UpTo
  <2>7. rd'.since - Len(rd'.order) + Capacity = b /\ Len(rd'.got) = k
    BY <1>4, <1>7
  <2>8. /\ \A i \in 1..req : rd.order[i] = Place(last - req + i)
        /\ UpTo(b) => req <= last
        /\ count < Word => req = Min({rd.window, Capacity, last})
    BY <2>2 DEF Reads
  <2>. HIDE DEF k, b
  <2>9. Reads(last)'
    BY ONLY <1>3, <1>4, <2>5, <2>6, <2>7, <2>8 DEF Reads, UpTo
  <2>10. Len(rd'.got) <= Len(rd'.order) /\ last \in rd'.since..rd'.until
    BY <1>4, <1>5, <2>7
  <2>. QED BY <1>3, <1>4, <2>1, <2>9, <2>10 DEF CopyInv
<1>. QED BY <1>2, <1>3, <1>4, <1>8, <1>9 DEF ReaderInv

LEMMA InitWindow == Init => WindowInv
<1>. QED BY InitData, InitReader DEF WindowInv

LEMMA StepWindow == TypeOK /\ WriterInv /\ WindowInv /\ [Next]_vars => WindowInv'
<1>. SUFFICES ASSUME TypeOK, WriterInv, WindowInv, [Next]_vars PROVE WindowInv'
  OBVIOUS
<1>0. DataInv /\ ReaderInv /\ run \in Nat /\ count \in Nat
  BY Slots DEF WindowInv
<1>1. ASSUME UNCHANGED <<data, run, rd>>, count' \in Nat, count' >= count PROVE ReaderInv'
  <2>1. \A b \in Int : UpTo(b)' => UpTo(b)
    BY <1>1 DEF UpTo
  <2>. QED BY <1>0, <1>1, <2>1, KeptReader
<1>2. ASSUME UNCHANGED <<data, run, alive, count, wr>> PROVE DataInv'
  <2>1. Ahead' = Ahead
    BY <1>2 DEF Ahead
  <2>. QED BY <1>0, <1>2, <2>1, KeptData
<1>3. CASE Start
  <2>1. run' = run + 1 /\ count' = 0 /\ rd' = rd
    BY <1>3 DEF Start
  <2>2. ReaderInv'
    BY <1>0, <2>1, KeptReader
  <2>. QED BY <1>0, <1>3, <2>2, StartData DEF WindowInv
<1>4. CASE Stop
  <2>1. UNCHANGED <<data, run, count, rd>> /\ ~alive'
    BY <1>4 DEF Stop
  <2>2. DataInv'
    BY <1>0, <2>1, KeptData
  <2>. QED BY <1>0, <1>1, <2>1, <2>2 DEF WindowInv
<1>5. CASE \E block \in Blocks : Push(block)
  <2>1. UNCHANGED <<data, run, alive, count, rd>> /\ wr.pc = "rest"
        /\ wr'.pc = "copy" /\ wr'.done = 0
    BY <1>5 DEF Push, scopeVars
  <2>2. Ahead' = 0 /\ Ahead = 0
    BY <2>1 DEF Ahead
  <2>3. DataInv'
    BY <1>0, <2>1, <2>2, KeptData
  <2>. QED BY <1>0, <1>1, <2>1, <2>3 DEF WindowInv
<1>6. CASE Copy
  <2>1. UNCHANGED <<run, count, rd>>
    BY <1>6 DEF Copy
  <2>2. DataInv' /\ \A b \in Int : UpTo(b)' => UpTo(b)
    BY <1>0, <1>6, CopyData
  <2>3. ReaderInv'
    BY <1>0, <2>1, <2>2, KeptReader
  <2>. QED BY <2>2, <2>3 DEF WindowInv
<1>7. CASE StoreLow
  <2>1. UNCHANGED <<data, run, alive, rd>> /\ count' = count + wr.block /\ wr.pc = "low"
    BY <1>7 DEF StoreLow
  <2>2. wr.done = wr.block /\ wr.block \in Nat /\ alive
        /\ wr = [pc |-> wr.pc, block |-> wr.block, done |-> wr.done]
    <3>1. wr.block \in 1..Capacity /\ wr.done = wr.block
      BY <2>1, WriterAt DEF WriterInv
    <3>. QED BY <2>1, <3>1, WriterAt
  <2>3. wr'.pc \in {"high", "rest"}
    <3>. DEFINE b == wr.block
                d == wr.done
    <3>1. wr = [pc |-> "low", block |-> b, done |-> d]
      BY <2>1, <2>2
    <3>2. wr' = [wr EXCEPT !.pc = "high"] \/ wr' = Resting
      BY <1>7 DEF StoreLow
    <3>. HIDE DEF b, d
    <3>. QED BY ONLY <3>1, <3>2 DEF Resting
  <2>4. Ahead = wr.done /\ Ahead' = 0
    BY <2>1, <2>3 DEF Ahead
  <2>5. count' <= count + Ahead /\ count' + Ahead' = count + Ahead /\ count' \in Nat /\ count' >= count
    BY <1>0, <2>1, <2>2, <2>4
  <2>6. DataInv'
    BY <1>0, <2>1, <2>2, <2>5, KeptData
  <2>. QED BY <1>1, <2>1, <2>5, <2>6 DEF WindowInv
<1>8. CASE StoreHigh
  <2>1. UNCHANGED <<data, run, alive, count, rd>> /\ wr.pc = "high" /\ wr'.pc = "rest"
    BY <1>8 DEF StoreHigh, Resting
  <2>2. Ahead = 0 /\ Ahead' = 0
    BY <2>1 DEF Ahead
  <2>3. DataInv'
    BY <1>0, <2>1, <2>2, KeptData
  <2>. QED BY <1>0, <1>1, <2>1, <2>3 DEF WindowInv
<1>9. CASE Connect \/ Look \/ Forget \/ Tick \/ UNCHANGED vars
  <2>1. UNCHANGED <<data, run, alive, count, wr, rd>>
    BY <1>9 DEF Connect, Look, Forget, Tick, vars, scopeVars, writerVars
  <2>. QED BY <1>0, <1>1, <1>2, <2>1 DEF WindowInv
<1>10. CASE \E window \in Windows : LoadWord(window)
  <2>1. UNCHANGED <<data, run, alive, count, wr>>
    BY <1>10 DEF LoadWord, scopeVars, writerVars
  <2>. QED BY <1>2, <1>10, <2>1, LoadWordReader DEF WindowInv
<1>11. CASE LoadOther
  <2>1. UNCHANGED <<data, run, alive, count, wr>>
    BY <1>11 DEF LoadOther, scopeVars, writerVars
  <2>. QED BY <1>0, <1>2, <1>11, <2>1, LoadOtherReader DEF WindowInv
<1>12. CASE Slice
  <2>1. UNCHANGED <<data, run, alive, count, wr>>
    BY <1>12 DEF Slice, scopeVars, writerVars
  <2>. QED BY <1>0, <1>2, <1>12, <2>1, SliceReader DEF WindowInv
<1>13. CASE Send
  <2>1. UNCHANGED <<data, run, alive, count, wr>> /\ rd' = Resting
    BY <1>13 DEF Send, scopeVars, writerVars
  <2>2. ReaderInv'
    BY <2>1 DEF ReaderInv, ReaderType, Resting
  <2>. QED BY <1>2, <2>1, <2>2 DEF WindowInv
<1>. QED BY <1>3, <1>4, <1>5, <1>6, <1>7, <1>8, <1>9, <1>10, <1>11, <1>12, <1>13 DEF Next

(* What is sent, where the writer has not come round.                      *)
LEMMA WindowSent == TypeOK /\ WindowInv => WindowWhole
<1>. DEFINE req == Len(rd.order)
            b == rd.since - req + Capacity
            lapped == \E s \in Range(data) : s.run = run /\ s.n > b
<1>. SUFFICES ASSUME TypeOK, WindowInv, Sending, rd.run = run, ~lapped
              PROVE  \E last \in rd.since..rd.until :
                        /\ Strided(rd.got) = Strided([i \in 1..req |-> [run |-> run, n |-> last - req + i]])
                        /\ count < Word => req = Min({rd.window, Capacity, last})
  BY DEF WindowWhole
<1>1. rd.pc = "copy" /\ Len(rd.got) = req
  BY DEF Sending
<1>2. rd.got \in Seq(Sample) /\ rd.order \in Seq(0..Capacity - 1) /\ rd.since \in Nat
  BY <1>1 DEF WindowInv, ReaderInv, ReaderType, Resting
<1>3. PICK last \in rd.since..rd.until : Reads(last)
  BY <1>1 DEF WindowInv, ReaderInv, CopyInv
<1>4. b \in Int
  BY <1>2, ScopeAssumption
<1>5. UpTo(b)
  <2>. SUFFICES ASSUME NEW i \in 0..Capacity - 1, data[i].run = run PROVE data[i].n <= b
    BY DEF UpTo
  <2>1. data[i] \in Range(data)
    BY DEF Range, TypeOK
  <2>2. ~(data[i].n > b)
    BY <2>1
  <2>3. data[i].n \in Nat
    BY Slots
  <2>. HIDE DEF b
  <2>. QED BY <1>4, <2>2, <2>3
<1>6. \A i \in 1..req : rd.got[i] = [run |-> run, n |-> last - req + i]
  BY <1>1, <1>3, <1>5 DEF Reads
<1>7. rd.got = [i \in 1..req |-> [run |-> run, n |-> last - req + i]]
  <2>1. rd.got = [i \in 1..req |-> rd.got[i]]
    BY <1>1, <1>2
  <2>. HIDE DEF req
  <2>. QED BY <1>6, <2>1
<1>8. count < Word => req = Min({rd.window, Capacity, last})
  BY <1>3 DEF Reads
<1>. QED BY <1>7, <1>8

-----------------------------------------------------------------------------
(* The looks.                                                              *)

LEMMA Greatest ==
    ASSUME NEW a \in Int, NEW b \in Int
    PROVE  Max({a, b}) = IF a >= b THEN a ELSE b
<1>. DEFINE m == IF a >= b THEN a ELSE b
<1>1. m \in {a, b} /\ \A y \in {a, b} : m >= y
  OBVIOUS
<1>2. \A x \in {a, b} : (\A y \in {a, b} : x >= y) => x = m
  OBVIOUS
<1>. HIDE DEF m
<1>3. Max({a, b}) \in {a, b} /\ \A y \in {a, b} : Max({a, b}) >= y
  BY <1>1, Zenon DEF Max
<1>4. Max({a, b}) = m
  BY ONLY <1>2, <1>3, Zenon
<1>. QED BY <1>4 DEF m

LEMMA Typed ==
    ASSUME TypeOK, WriterInv
    PROVE  /\ now \in Nat /\ pushed \in Int /\ pushed <= now /\ run \in Nat /\ count \in Nat
           /\ Total \in Nat /\ (wr.pc # "high" => Total = count) /\ Total \in {count, count - Word}
           /\ Word \in Nat /\ Word > 0
<1>1. now \in Nat /\ pushed \in Int /\ pushed <= now /\ run \in Nat /\ count \in Nat
  BY ScopeAssumption DEF TypeOK, Never
<1>2. hi \in Nat /\ lo \in Nat /\ Word \in Nat /\ Word > 0
  BY Fits DEF TypeOK
<1>3. Total \in Nat
  BY ONLY <1>2 DEF Total
<1>4. wr.pc # "high" => Total = count
  BY DEF TypeOK, Total
<1>5. wr.pc = "high" => Total = count - Word
  BY DEF WriterInv
<1>. QED BY <1>1, <1>2, <1>3, <1>4, <1>5

LEMMA InitHealth == Init => HealthInv
<1>. SUFFICES ASSUME Init PROVE HealthInv
  OBVIOUS
<1>1. /\ health = NoHealth /\ NoHealth \in Looks /\ NoHealth.polled = Never /\ NoHealth.total = Never
      /\ NoHealth.first = Never /\ NoHealth.at = Never /\ NoHealth.told = FALSE
      /\ NoHealth.pushed = Never /\ NoHealth.atRun = 0
  BY DEF Init, NoHealth, Looks, Never
<1>2. now = 0 /\ pushed = Never /\ run = 0
  BY DEF Init
<1>3. LooksInv
  BY <1>1, <1>2 DEF LooksInv, Polled, Never
<1>4. MovedInv /\ RecentInv /\ SeenInv
  BY <1>1 DEF MovedInv, RecentInv, SeenInv, Polled
<1>5. HealthTells
  BY <1>1 DEF HealthTells, Never
<1>. QED BY <1>3, <1>4, <1>5 DEF HealthInv

(* What a step keeps that is no look.                                      *)
LEMMA NoLook ==
    ASSUME TypeOK, WriterInv, HealthInv, UNCHANGED health,
           run' \in Nat, run <= run', now' \in Nat, now <= now', pushed' = pushed \/ pushed' = now
    PROVE  LooksInv' /\ RecentInv' /\ HealthTells'
<1>1. /\ now \in Nat /\ pushed \in Int /\ pushed <= now /\ run \in Nat
      /\ health \in Looks /\ health.polled <= now /\ health.at <= now /\ health.pushed <= pushed
      /\ health.atRun <= run
  BY Typed DEF HealthInv, LooksInv
<1>2. /\ health.polled \in Int /\ health.at \in Int /\ health.pushed \in Int /\ health.atRun \in Int
      /\ health.gap \in Nat
  BY <1>1 DEF Looks
<1>3. LooksInv'
  BY <1>1, <1>2 DEF HealthInv, LooksInv, Polled
<1>4. RecentInv'
  <2>1. pushed' \in Int /\ pushed' >= pushed
    BY <1>1
  <2>. QED BY <1>1, <1>2, <2>1 DEF HealthInv, RecentInv, Polled
<1>5. HealthTells'
  BY DEF HealthInv, HealthTells
<1>. QED BY <1>3, <1>4, <1>5

LEMMA StartHealth == TypeOK /\ WriterInv /\ HealthInv /\ Start => HealthInv'
<1>. SUFFICES ASSUME TypeOK, WriterInv, HealthInv, Start PROVE HealthInv'
  OBVIOUS
<1>1. /\ UNCHANGED <<health, now, pushed>> /\ run' = run + 1 /\ hi' = 0 /\ lo' = 0
  BY DEF Start
<1>2. run \in Nat /\ now \in Nat /\ Word \in Nat
  BY Typed
<1>3. LooksInv' /\ RecentInv' /\ HealthTells'
  BY <1>1, <1>2, NoLook
<1>4. MovedInv'
  BY <1>1, <1>2 DEF MovedInv, Total
<1>5. SeenInv'
  <2>1. health.atRun \in Int /\ health.atRun <= run
    BY DEF HealthInv, LooksInv, Looks
  <2>. QED BY <1>1, <1>2, <2>1 DEF SeenInv
<1>. QED BY <1>3, <1>4, <1>5 DEF HealthInv

(* The carry is stored at the time of the push.                            *)
LEMMA CarriedHealth ==
    ASSUME TypeOK, WriterInv, HealthInv, UNCHANGED <<health, run, count, now, pushed>>,
           Total' = Total \/ wr.pc = "high"
    PROVE  HealthInv'
<1>1. run \in Nat /\ now \in Nat
  BY Typed
<1>2. LooksInv' /\ RecentInv' /\ HealthTells'
  BY <1>1, NoLook
<1>3. MovedInv'
  <2>1. wr.pc = "high" => pushed = now
    BY DEF WriterInv
  <2>2. health.polled <= now
    BY DEF HealthInv, LooksInv
  <2>. QED BY <2>1, <2>2 DEF HealthInv, MovedInv, Polled
<1>4. SeenInv'
  BY DEF HealthInv, SeenInv, Polled
<1>. QED BY <1>2, <1>3, <1>4 DEF HealthInv

LEMMA StoreLowHealth ==
    ASSUME TypeOK, WriterInv, HealthInv, StoreLow
    PROVE  HealthInv'
<1>1. count' > count /\ pushed' = now /\ UNCHANGED <<health, run, now>>
  BY StoreLowWriter DEF StoreLow
<1>2. /\ run \in Nat /\ now \in Nat /\ count \in Nat /\ count' \in Int
      /\ health.polled <= now /\ health.seen \in Int
  <2>1. count' \in Nat
    BY StoreLowWriter, ScopeAssumption DEF TypeOK
  <2>. QED BY Typed, <2>1 DEF HealthInv, LooksInv, Looks
<1>3. LooksInv' /\ RecentInv' /\ HealthTells'
  BY <1>1, <1>2, NoLook
<1>4. MovedInv'
  BY <1>1, <1>2 DEF MovedInv
<1>5. SeenInv'
  BY <1>1, <1>2 DEF HealthInv, SeenInv, Polled
<1>. QED BY <1>3, <1>4, <1>5 DEF HealthInv

LEMMA TickHealth ==
    ASSUME TypeOK, WriterInv, HealthInv, Tick
    PROVE  HealthInv'
<1>1. now' = now + 1 /\ UNCHANGED <<lo, hi, run, count, pushed, health>>
  BY DEF Tick, scopeVars, writerVars
<1>2. run \in Nat /\ now \in Nat
  BY Typed
<1>3. LooksInv' /\ RecentInv' /\ HealthTells'
  BY <1>1, <1>2, NoLook
<1>4. MovedInv' /\ SeenInv'
  BY <1>1 DEF HealthInv, MovedInv, SeenInv, Polled, Total
<1>. QED BY <1>3, <1>4 DEF HealthInv

LEMMA ForgetHealth ==
    ASSUME TypeOK, WriterInv, HealthInv, Forget
    PROVE  HealthInv'
<1>1. /\ health' = NoHealth /\ NoHealth \in Looks /\ NoHealth.polled = Never
      /\ NoHealth.total = Never /\ NoHealth.pushed = Never /\ NoHealth.atRun = 0
      /\ NoHealth.first = Never /\ NoHealth.at = Never /\ NoHealth.told = FALSE
  BY DEF Forget, NoHealth, Looks, Never
<1>2. now' \in Nat /\ run' \in Nat /\ pushed' \in Never..now'
  BY Typed DEF Forget, TypeOK, writerVars
<1>3. LooksInv'
  BY <1>1, <1>2 DEF LooksInv, Polled, Never
<1>4. MovedInv' /\ RecentInv' /\ SeenInv'
  BY <1>1 DEF MovedInv, RecentInv, SeenInv, Polled
<1>5. HealthTells'
  BY <1>1 DEF HealthTells, Never
<1>. QED BY <1>3, <1>4, <1>5 DEF HealthInv

LEMMA LookHealth ==
    ASSUME TypeOK, WriterInv, HealthInv, Look
    PROVE  HealthInv'
<1>. DEFINE h == health
            T == Total
            moved == h.total # T
            pause == IF h.polled = Never THEN 0 ELSE now - h.polled
            g == Max({h.gap, pause})
            a == IF moved THEN now ELSE h.at
            f == IF h.first = Never THEN now ELSE h.first
            r == IF moved THEN run ELSE h.atRun
            s == IF moved THEN count ELSE h.seen
            told == T > 0 /\ now - a < Timeout
            far == count - s >= Word
<1>1. /\ now \in Nat /\ pushed \in Int /\ pushed <= now /\ run \in Nat /\ count \in Nat
      /\ T \in Nat /\ T \in {count, count - Word} /\ Word \in Nat /\ Word > 0
      /\ Timeout \in Nat /\ Timeout > 0
  BY Typed, ScopeAssumption
<1>2. UNCHANGED <<lo, hi, run, count, now, pushed>>
  BY DEF Look, scopeVars, writerVars
<1>3. health' = [total |-> T, at |-> a, told |-> told, first |-> f, polled |-> now, gap |-> g,
                 pushed |-> pushed, run |-> run, atRun |-> r, seen |-> s, far |-> far]
  BY DEF Look, Looked, Total
<1>4. /\ h.total \in Int /\ h.at \in Int /\ h.first \in Int /\ h.polled \in Int /\ h.gap \in Nat
      /\ h.atRun \in Int /\ h.seen \in Int
      /\ h.polled <= now /\ h.at <= now /\ h.atRun <= run
      /\ (h.polled = Never => h.total = Never /\ h.first = Never)
      /\ (h.polled # Never => h.first # Never)
  BY DEF HealthInv, LooksInv, Polled, Looks
<1>5. h.polled # Never /\ T # h.total /\ T > 0 => pushed >= h.polled
  BY DEF HealthInv, MovedInv, Polled
<1>6. h.polled # Never /\ h.at # h.first /\ h.total > 0 => pushed >= h.at - h.gap
  BY DEF HealthInv, RecentInv, Polled
<1>7. h.polled # Never /\ h.atRun = run =>
        /\ h.total \in {h.seen, h.seen - Word} /\ h.seen <= count
        /\ h.seen = count => pushed <= h.at
  BY DEF HealthInv, SeenInv, Polled
<1>8. pause \in Int /\ g \in Nat /\ g >= h.gap /\ g >= pause
  <2>1. pause \in Int
    BY ONLY <1>1, <1>4
  <2>. HIDE DEF pause
  <2>2. g = IF h.gap >= pause THEN h.gap ELSE pause
    BY <1>4, <2>1, Greatest
  <2>. HIDE DEF g
  <2>. QED BY ONLY <1>4, <2>1, <2>2
<1>. HIDE DEF g, h, T
<1>9. moved \/ h.polled # Never
  BY ONLY <1>1, <1>4 DEF Never
<1>10. a \in Int /\ f \in Int /\ r \in Int /\ s \in Int /\ a <= now /\ r <= run /\ f # Never
  BY ONLY <1>1, <1>4 DEF Never
<1>11. told \in BOOLEAN /\ far \in BOOLEAN
  OBVIOUS
<1>12. T > 0 /\ a # f => pushed >= a - g
  <2>1. CASE moved
    BY ONLY <1>1, <1>4, <1>5, <1>8, <2>1
  <2>2. CASE ~moved
    BY ONLY <1>1, <1>4, <1>6, <1>8, <1>9, <2>2
  <2>. QED BY <2>1, <2>2
<1>13. r = run => /\ T \in {s, s - Word} /\ s <= count
                  /\ s = count => pushed <= a
  <2>1. CASE moved
    BY ONLY <1>1, <2>1
  <2>2. CASE ~moved
    BY ONLY <1>1, <1>7, <1>9, <2>2
  <2>. QED BY <2>1, <2>2
<1>14. told /\ a # f => now - pushed < Timeout + g
  BY ONLY <1>1, <1>8, <1>10, <1>12
<1>15. ~told /\ T > 0 /\ run = r /\ ~far => now - pushed >= Timeout
  <2>. SUFFICES ASSUME ~told, T > 0, run = r, ~far PROVE now - pushed >= Timeout
    OBVIOUS
  <2>1. now - a >= Timeout /\ count - s < Word
    BY <1>1, <1>10
  <2>. HIDE DEF a, s, r, told, far
  <2>2. s = count
    BY <1>1, <1>10, <1>13, <2>1
  <2>3. pushed <= a
    BY <1>13, <2>2
  <2>. QED BY ONLY <1>1, <1>10, <2>1, <2>3
<1>. HIDE DEF a, f, r, s, told, far, moved, pause
<1>16. /\ health'.total = T /\ health'.at = a /\ health'.told = told /\ health'.first = f
       /\ health'.polled = now /\ health'.gap = g /\ health'.pushed = pushed /\ health'.run = run
       /\ health'.atRun = r /\ health'.seen = s /\ health'.far = far
       /\ health' \in Looks
  BY ONLY <1>1, <1>3, <1>8, <1>10, <1>11 DEF Looks
<1>17. now # Never
  BY ONLY <1>1 DEF Never
<1>18. Total' = T
  BY ONLY <1>2 DEF Total, T
<1>19. LooksInv'
  BY ONLY <1>1, <1>2, <1>10, <1>16, <1>17 DEF LooksInv, Polled
<1>20. MovedInv'
  BY ONLY <1>16, <1>18 DEF MovedInv
<1>21. RecentInv'
  BY ONLY <1>2, <1>12, <1>16 DEF RecentInv
<1>22. SeenInv'
  BY ONLY <1>2, <1>13, <1>16 DEF SeenInv
<1>23. HealthTells'
  BY ONLY <1>14, <1>15, <1>16 DEF HealthTells
<1>. QED BY <1>19, <1>20, <1>21, <1>22, <1>23 DEF HealthInv

-----------------------------------------------------------------------------
(* The theorems.                                                           *)

LEMMA InitTold == Init => ToldInv
<1>. QED BY InitWriter, InitHealth DEF ToldInv

LEMMA StepTold == ToldInv /\ [Next]_vars => ToldInv'
<1>. SUFFICES ASSUME ToldInv, [Next]_vars PROVE ToldInv'
  OBVIOUS
<1>1. TypeOK /\ WriterInv /\ HealthInv
  BY DEF ToldInv
<1>2. CASE Start
  BY <1>1, <1>2, StartWriter, StartHealth DEF ToldInv
<1>3. CASE Stop
  <2>1. Total' = Total \/ wr.pc = "high"
    BY <1>1, <1>3, StopWriter, Typed
  <2>2. UNCHANGED <<health, run, count, now, pushed>>
    BY <1>3 DEF Stop
  <2>. QED BY <1>1, <1>3, <2>1, <2>2, StopWriter, CarriedHealth DEF ToldInv
<1>4. CASE \E block \in Blocks : Push(block)
  <2>1. UNCHANGED <<health, run, count, now, pushed, lo, hi>>
    BY <1>4 DEF Push, scopeVars
  <2>2. Total' = Total
    BY <2>1 DEF Total
  <2>. QED BY <1>1, <1>4, <2>1, <2>2, PushWriter, CarriedHealth DEF ToldInv
<1>5. CASE Copy
  <2>1. UNCHANGED <<health, run, count, now, pushed, lo, hi>>
    BY <1>5 DEF Copy
  <2>2. Total' = Total
    BY <2>1 DEF Total
  <2>. QED BY <1>1, <1>5, <2>1, <2>2, CopyWriter, CarriedHealth DEF ToldInv
<1>6. CASE StoreLow
  BY <1>1, <1>6, StoreLowWriter, StoreLowHealth DEF ToldInv
<1>7. CASE StoreHigh
  <2>1. wr.pc = "high" /\ UNCHANGED <<health, run, count, now, pushed>>
    BY <1>7 DEF StoreHigh
  <2>. QED BY <1>1, <1>7, <2>1, StoreHighWriter, CarriedHealth DEF ToldInv
<1>8. CASE \/ Connect \/ (\E window \in Windows : LoadWord(window)) \/ LoadOther \/ Slice \/ Send
           \/ UNCHANGED vars
  <2>1. UNCHANGED <<scopeVars, writerVars, now, health>> /\ connected' \in BOOLEAN
    BY <1>1, <1>8 DEF Connect, LoadWord, LoadOther, Slice, Send, vars, scopeVars, writerVars, TypeOK
  <2>2. UNCHANGED <<health, run, count, now, pushed>> /\ Total' = Total
    BY <2>1 DEF scopeVars, writerVars, Total
  <2>. QED BY <1>1, <2>1, <2>2, OthersWriter, CarriedHealth DEF ToldInv
<1>9. CASE Look
  <2>1. UNCHANGED <<scopeVars, writerVars, now>> /\ connected' \in BOOLEAN
    BY <1>1, <1>9 DEF Look, TypeOK
  <2>. QED BY <1>1, <1>9, <2>1, OthersWriter, LookHealth DEF ToldInv
<1>10. CASE Forget
  <2>1. UNCHANGED <<scopeVars, writerVars, now>> /\ connected' \in BOOLEAN
    BY <1>10 DEF Forget
  <2>. QED BY <1>1, <1>10, <2>1, OthersWriter, ForgetHealth DEF ToldInv
<1>11. CASE Tick
  <2>1. UNCHANGED <<scopeVars, writerVars>> /\ connected' \in BOOLEAN
    BY <1>1, <1>11 DEF Tick, TypeOK
  <2>. QED BY <1>1, <1>11, <2>1, OthersWriter, TickHealth DEF ToldInv
<1>. QED BY <1>2, <1>3, <1>4, <1>5, <1>6, <1>7, <1>8, <1>9, <1>10, <1>11 DEF Next

THEOREM Invariance == Spec => []IInv
<1>1. Init => IInv
  BY InitTold, InitWindow DEF IInv
<1>2. IInv /\ [Next]_vars => IInv'
  BY StepTold, StepWindow DEF IInv, ToldInv
<1>. QED BY <1>1, <1>2, PTL DEF Spec

(* The two words of the total are the samples published in this run, but   *)
(* for a carry between its two stores (scope_buffer.c).                    *)
THEOREM TypeCorrect == Spec => []TypeOK
<1>1. IInv => TypeOK
  BY DEF IInv, ToldInv
<1>. QED BY Invariance, <1>1, PTL

(* A datalogger seen to move is not called running for longer than the     *)
(* timeout and the longest pause between two looks after its last samples, *)
(* and one called not running has sent none for the timeout (main.py:332). *)
THEOREM HealthIsTold == Spec => []HealthTells
<1>1. IInv => HealthTells
  BY DEF IInv, ToldInv, HealthInv
<1>. QED BY Invariance, <1>1, PTL

(* A page is sent samples taken one after the other, whatever of the two   *)
(* words of the total it saw, as long as the writer has not come round to  *)
(* them (shared_memory.py, get_window).                                    *)
THEOREM WindowIsWhole == Spec => []WindowWhole
<1>1. IInv => WindowWhole
  BY WindowSent DEF IInv, ToldInv
<1>. QED BY Invariance, <1>1, PTL
=============================================================================
