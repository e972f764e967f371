-------------------------- MODULE EventPagesProofs --------------------------
(***************************************************************************)
(* Proofs about EventPages: the type invariant, that the listings show     *)
(* every record, that the review is the published table, and that the      *)
(* validator and the listings agree.                                       *)
(*                                                                         *)
(* The reader takes the size of a record from the size of the file, and    *)
(* the place of a record from its number; IndexInv says that as long as    *)
(* no record was cut short and all are of one size, this is where the      *)
(* writer put it.                                                          *)
(***************************************************************************)
EXTENDS EventPages, FiniteSetTheorems, SequenceTheorems, NaturalsInduction, TLAPS

-----------------------------------------------------------------------------
(* The review.                                                             *)

(* The rules with the default policy, as one line of arithmetic each.      *)
LEMMA FlaggedIs ==
    ASSUME NEW type \in {"SAG", "SWELL"}, NEW v \in Nat, NEW d \in Nat, NEW n \in Nat \ {0}
    PROVE  /\ Flagged(type, v, d, n) <=>
                 \/ v * 1000 <= 100 * n
                 \/ type = "SAG" /\ v * 1000 <= 700 * n
                 \/ type = "SWELL" /\ v * 1000 >= 1200 * n
                 \/ d >= 60 /\ (v * 1000 <= 867 * n \/ v * 1000 >= 1058 * n)
           /\ FlaggedBy(type, v, d, n, Stricter) <=>
                 \/ v * 1000 <= 100 * n
                 \/ type = "SAG" /\ v * 1000 <= 700 * n
                 \/ type = "SWELL" /\ v * 1000 >= 1200 * n
                 \/ d >= 30 /\ (v * 1000 <= 867 * n \/ v * 1000 >= 1058 * n)
<1>1. Policy(<<>>) = Defaults
  BY DEF Policy, Defaults
<1>2. /\ Stricter.interruption = 100 /\ Stricter.deepSag = 700 /\ Stricter.damagingSwell = 1200
      /\ Stricter.sustained = 30 /\ Stricter.rangeLow = -133 /\ Stricter.rangeHigh = 58
  BY DEF Stricter, Policy, Defaults
<1>3. ASSUME NEW policy, policy.interruption = 100, policy.deepSag = 700,
             policy.damagingSwell = 1200, policy.rangeLow = -133, policy.rangeHigh = 58
      PROVE  FlaggedBy(type, v, d, n, policy) <=>
                 \/ v * 1000 <= 100 * n
                 \/ type = "SAG" /\ v * 1000 <= 700 * n
                 \/ type = "SWELL" /\ v * 1000 >= 1200 * n
                 \/ d >= policy.sustained /\ (v * 1000 <= 867 * n \/ v * 1000 >= 1058 * n)
  <2>1. /\ AtMost(v, policy.interruption, n) <=> v * 1000 <= 100 * n
        /\ AtMost(v, policy.deepSag, n) <=> v * 1000 <= 700 * n
        /\ AtLeast(v, policy.damagingSwell, n) <=> v * 1000 >= 1200 * n
        /\ AtMost(v, 1000 + policy.rangeLow, n) <=> v * 1000 <= 867 * n
        /\ AtLeast(v, 1000 + policy.rangeHigh, n) <=> v * 1000 >= 1058 * n
    BY <1>3 DEF AtMost, AtLeast
  <2>2. ~(n <= 0)
    OBVIOUS
  <2>. QED  BY <2>1, <2>2 DEF FlaggedBy, Review
<1>4. /\ Defaults.interruption = 100 /\ Defaults.deepSag = 700 /\ Defaults.damagingSwell = 1200
      /\ Defaults.sustained = 60 /\ Defaults.rangeLow = -133 /\ Defaults.rangeHigh = 58
  BY DEF Defaults
<1>. QED  BY <1>1, <1>2, <1>3, <1>4 DEF Flagged

LEMMA DurationsNat == Durations \subseteq Nat
BY PagesAssumption DEF Durations, Defaults

LEMMA TableIs == TableHolds
<1>. SUFFICES ASSUME NEW type \in {"SAG", "SWELL"}, NEW v \in Voltages, NEW d \in Durations
     PROVE  Flagged(type, v, d, 1200) <=>
               \/ v <= 120
               \/ type = "SAG" /\ v <= 840
               \/ type = "SWELL" /\ v >= 1440
               \/ d >= 60 /\ (v <= 1040 \/ v >= 1270)
  BY DEF TableHolds
<1>1. v \in Nat /\ d \in Nat
  BY PagesAssumption, DurationsNat
<1>. QED  BY <1>1, FlaggedIs

LEMMA NominalsMonotone ==
    ASSUME NEW s \in Settings
    PROVE  s.nominal \in Monotone
<1>1. s.nominal \in Nat \ {0} /\ s.nominal \in {t.nominal : t \in Settings}
  BY PagesAssumption
<1>. DEFINE n == s.nominal
<1>2. ASSUME NEW v \in Voltages, NEW w \in Voltages, NEW d \in Durations, NEW e \in Durations, d <= e
      PROVE  /\ w <= v /\ v <= n /\ Flagged("SAG", v, d, n) => Flagged("SAG", w, e, n)
             /\ n <= v /\ v <= w /\ Flagged("SWELL", v, d, n) => Flagged("SWELL", w, e, n)
             /\ \A type \in {"SAG", "SWELL"} :
                   Flagged(type, v, d, n) => FlaggedBy(type, v, d, n, Stricter)
  <2>. HIDE DEF n
  <2>1. v \in Nat /\ w \in Nat /\ d \in Nat /\ e \in Nat /\ n \in Nat \ {0}
    BY <1>1, PagesAssumption, DurationsNat DEF n
  <2>2. w <= v /\ v <= n /\ Flagged("SAG", v, d, n) => Flagged("SAG", w, e, n)
    BY <1>2, <2>1, FlaggedIs
  <2>3. n <= v /\ v <= w /\ Flagged("SWELL", v, d, n) => Flagged("SWELL", w, e, n)
    BY <1>2, <2>1, FlaggedIs
  <2>4. ASSUME NEW type \in {"SAG", "SWELL"}, Flagged(type, v, d, n)
        PROVE  FlaggedBy(type, v, d, n, Stricter)
    BY <2>1, <2>4, FlaggedIs
  <2>. QED  BY <2>2, <2>3, <2>4
<1>. QED  BY <1>1, <1>2 DEF Monotone

-----------------------------------------------------------------------------
(* Small facts.                                                            *)

(* Of a set of naturals that is not empty one is the least.                *)
LEMMA LeastNatural ==
    ASSUME NEW T, T \subseteq Nat, T # {}
    PROVE  \E x \in T : \A y \in T : x <= y
<1>. DEFINE Below == {ss \in Nat \X Nat : ss[1] < ss[2]}
<1>1. IsWellFoundedOn(Below, Nat)
  BY NatLessThanWellFounded DEF OpToRel
<1>2. PICK x \in T : \A y \in T : <<y, x>> \notin Below
  BY <1>1, WFMin
<1>3. \A y \in T : ~(y < x)
  BY <1>2
<1>. QED  BY <1>3

(* Quotient and remainder of a number made of both.                        *)
LEMMA DivMod ==
    ASSUME NEW size \in Nat \ {0}, NEW a \in Nat, NEW b \in 0..size - 1
    PROVE  (a * size + b) \div size = a /\ (a * size + b) % size = b
OBVIOUS

(* A number is made of quotient and remainder.                             *)
LEMMA DivBounds ==
    ASSUME NEW size \in Nat \ {0}, NEW x \in Nat
    PROVE  /\ x \div size \in Nat /\ x % size \in 0..size - 1
           /\ x = size * (x \div size) + (x % size)
<1>. DEFINE q == x \div size
            r == x % size
<1>1. q \in Int /\ r \in 0..size - 1 /\ x = size * q + r
  OBVIOUS
<1>2. ~(q <= -1)
  <2>. HIDE DEF q, r
  <2>1. q <= -1 => size * q <= -size
    BY <1>1
  <2>. QED  BY <1>1, <2>1
<1>. QED  BY <1>1, <1>2

(* The places of the i-th of n pieces of a size are among those of all.    *)
LEMMA PlaceIn ==
    ASSUME NEW size \in Nat \ {0}, NEW n \in Nat, NEW i \in 1..n, NEW k \in 1..size
    PROVE  (i - 1) * size + k \in 1..n * size
<1>1. i * size <= n * size /\ (i - 1) * size >= 0 /\ (i - 1) * size \in Int
  OBVIOUS
<1>2. (i - 1) * size = i * size - size
  OBVIOUS
<1>3. i * size \in Nat /\ n * size \in Nat
  OBVIOUS
<1>. QED  BY <1>1, <1>2, <1>3

(* The places of the i-th of n pieces are before those of the next.        *)
LEMMA PieceOf ==
    ASSUME NEW size \in Nat \ {0}, NEW n \in Nat, NEW j \in 1..n * size
    PROVE  /\ (j - 1) \div size \in 0..n - 1 /\ (j - 1) % size \in 0..size - 1
<1>1. n * size \in Nat /\ j - 1 \in Nat
  OBVIOUS
<1>. DEFINE q == (j - 1) \div size
            r == (j - 1) % size
<1>2. q \in Nat /\ r \in 0..size - 1 /\ j - 1 = size * q + r
  BY <1>1, DivBounds
<1>. HIDE DEF q, r
<1>3. q >= n => size * q >= n * size
  BY <1>2
<1>4. size * q \in Nat
  BY <1>2
<1>5. q < n
  BY <1>1, <1>2, <1>3, <1>4
<1>. QED  BY <1>2, <1>5 DEF q, r

LEMMA MinOfTwo ==
    ASSUME NEW a \in Int, NEW b \in Int
    PROVE  Min({a, b}) \in {a, b} /\ Min({a, b}) <= a /\ Min({a, b}) <= b
<1>1. \E x \in {a, b} : \A y \in {a, b} : x <= y
  OBVIOUS
<1>. QED  BY <1>1 DEF Min

-----------------------------------------------------------------------------
(* The pieces of an anomaly.                                               *)

Piece == [at : Nat, dur : Nat \ {0}]

(* They begin while the anomaly lasts, each no earlier than the one before. *)
LEMMA PiecesAre ==
    ASSUME NEW lasted \in Lengths, clock \in Nat, NEW p, p = Pieces(lasted)
    PROVE  /\ p \in Seq(Piece) /\ Len(p) \in Nat \ {0} /\ DOMAIN p = 1..Len(p)
           /\ \A i \in 1..Len(p) : p[i] \in Piece /\ clock <= p[i].at /\ p[i].at < clock + lasted
           /\ \A i \in 2..Len(p) : p[i - 1].at <= p[i].at
<1>. DEFINE w == CaptureLimit + Cooldown
            n == (lasted + CaptureLimit + Cooldown - 1) \div w
            Since(i) == (i - 1) * w
<1>1. w \in Nat \ {0} /\ lasted \in Nat \ {0} /\ CaptureLimit \in Nat \ {0}
  BY PagesAssumption
<1>2. p = [i \in 1..n |-> [at |-> clock + Since(i), dur |-> Min({CaptureLimit, lasted - Since(i)})]]
  BY DEF Pieces
<1>3. n \in Nat \ {0} /\ n * w <= lasted + w - 1
  <2>1. lasted + CaptureLimit + Cooldown - 1 = lasted + w - 1 /\ lasted + w - 1 \in Nat
    BY <1>1, PagesAssumption
  <2>. DEFINE x == lasted + w - 1
  <2>2. n = x \div w
    BY <2>1
  <2>. HIDE DEF w, n, x
  <2>3. n \in Nat /\ x % w \in 0..w - 1 /\ x = w * n + (x % w)
    BY <1>1, <2>1, <2>2, DivBounds DEF x
  <2>4. w * n \in Nat /\ w * n = n * w
    BY <1>1, <2>3
  <2>5. n # 0
    <3>1. n = 0 => w * n = 0
      BY <1>1
    <3>. QED  BY <1>1, <2>3, <3>1 DEF x
  <2>. QED  BY <1>1, <2>3, <2>4, <2>5 DEF x
<1>4. ASSUME NEW i \in 1..n
      PROVE  Since(i) \in Nat /\ Since(i) < lasted
  <2>. HIDE DEF w, n
  <2>1. i * w <= n * w /\ (i - 1) * w = i * w - w /\ (i - 1) * w \in Nat /\ n * w \in Nat
    BY <1>1, <1>3
  <2>. QED  BY <1>1, <1>3, <2>1
<1>5. ASSUME NEW i \in 1..n
      PROVE  Min({CaptureLimit, lasted - Since(i)}) \in Nat \ {0}
  <2>. DEFINE left == lasted - Since(i)
  <2>1. left \in Nat \ {0} /\ CaptureLimit \in Nat \ {0}
    <3>. HIDE DEF Since
    <3>. QED  BY <1>1, <1>4
  <2>. HIDE DEF left
  <2>2. Min({CaptureLimit, left}) \in {CaptureLimit, left}
    <3>1. CaptureLimit \in Int /\ left \in Int
      BY <2>1
    <3>. QED  BY <3>1, MinOfTwo
  <2>. QED  BY <2>1, <2>2 DEF left
<1>6. ASSUME NEW i \in 2..n
      PROVE  Since(i - 1) <= Since(i)
  <2>. HIDE DEF w, n
  <2>1. (i - 1) * w = (i - 1 - 1) * w + w
    BY <1>1, <1>3
  <2>2. (i - 1 - 1) * w \in Int
    BY <1>1, <1>3
  <2>. QED  BY <1>1, <2>1, <2>2
<1>. HIDE DEF w, n, Since
<1>7. \A i \in 1..n : p[i] \in Piece /\ clock <= p[i].at /\ p[i].at < clock + lasted
  <2>. TAKE i \in 1..n
  <2>1. p[i] = [at |-> clock + Since(i), dur |-> Min({CaptureLimit, lasted - Since(i)})]
    BY <1>2
  <2>. QED  BY <1>1, <1>4, <1>5, <2>1 DEF Piece
<1>8. \A i \in 2..n : p[i - 1].at <= p[i].at
  <2>. TAKE i \in 2..n
  <2>1. p[i].at = clock + Since(i) /\ p[i - 1].at = clock + Since(i - 1)
    BY <1>2, <1>3
  <2>2. Since(i) \in Nat /\ Since(i - 1) \in Nat /\ i \in 1..n /\ i - 1 \in 1..n
    BY <1>3, <1>4
  <2>. QED  BY <1>6, <2>1, <2>2
<1>9. p \in [1..n -> Piece] /\ p \in Seq(Piece) /\ Len(p) = n
  <2>1. p \in [1..n -> Piece]
    BY <1>2, <1>7
  <2>. QED  BY <1>3, <2>1
<1>. QED  BY <1>3, <1>7, <1>8, <1>9

Step(x, dur) == Rotated(x + dur + 2)

LEMMA StepNat ==
    ASSUME NEW x \in Nat, NEW dur \in Nat
    PROVE  Step(x, dur) \in Nat
BY PagesAssumption DEF Step, Rotated

(* The waveforms of the pieces follow one another, but for rotations.      *)
LEMMA OffsetsAre ==
    ASSUME events \in Nat, NEW p \in Seq(Piece), Len(p) \in Nat \ {0}, NEW f, f = Offsets(p)
    PROVE  /\ f \in [1..Len(p) -> Nat] /\ f[1] = events
           /\ \A i \in 2..Len(p) : f[i] = Rotated(f[i - 1] + p[i - 1].dur + 2)
<1>. DEFINE Is(n, g) == g = [i \in 1..n |-> IF i = 1 THEN events ELSE Rotated(g[i - 1] + p[i - 1].dur + 2)]
            Lacks == {n \in Nat : ~\E g : Is(n, g)}
<1>1. Lacks = {}
  <2>. SUFFICES ASSUME Lacks # {} PROVE FALSE
    OBVIOUS
  <2>1. PICK n \in Lacks : \A m \in Lacks : n <= m
    <3>1. Lacks \subseteq Nat
      OBVIOUS
    <3>. HIDE DEF Lacks
    <3>. QED  BY <3>1, LeastNatural
  <2>2. n \in Nat /\ ~\E g : Is(n, g)
    BY <2>1
  <2>3. n # 0
    <3>. DEFINE none == [i \in 1..0 |-> 0]
    <3>1. Is(0, none)
      OBVIOUS
    <3>. HIDE DEF Is
    <3>. QED  BY <2>2, <3>1
  <2>4. PICK g : Is(n - 1, g)
    <3>1. n - 1 \in Nat /\ n - 1 \notin Lacks
      <4>. HIDE DEF Lacks
      <4>1. ~(n <= n - 1) /\ n - 1 \in Nat
        BY <2>2, <2>3
      <4>. QED  BY <2>1, <4>1
    <3>. QED  BY <3>1
  <2>. DEFINE h == [i \in 1..n |-> IF i < n THEN g[i]
                                   ELSE IF n = 1 THEN events ELSE Rotated(g[n - 1] + p[n - 1].dur + 2)]
  <2>5. \A i \in 1..n : h[i] = IF i = 1 THEN events ELSE Rotated(h[i - 1] + p[i - 1].dur + 2)
    <3>. TAKE i \in 1..n
    <3>1. i # 1 => i - 1 \in 1..n /\ i - 1 < n /\ h[i - 1] = g[i - 1]
      BY <2>2
    <3>2. CASE i < n
      <4>1. i \in 1..n - 1 /\ h[i] = g[i]
        BY <2>2, <3>2
      <4>2. g[i] = IF i = 1 THEN events ELSE Rotated(g[i - 1] + p[i - 1].dur + 2)
        BY <2>4, <4>1
      <4>. QED  BY <3>1, <4>1, <4>2
    <3>3. CASE i = n
      BY <2>2, <3>1, <3>3
    <3>. QED  BY <2>2, <3>2, <3>3
  <2>6. h = [i \in 1..n |-> h[i]]
    OBVIOUS
  <2>. HIDE DEF h
  <2>7. Is(n, h)
    BY <2>5, <2>6
  <2>. QED  BY <2>2, <2>7
<1>. DEFINE n == Len(p)
<1>2. f = CHOOSE g : Is(n, g)
  BY DEF Offsets
<1>3. Is(n, f)
  <2>1. \E g : Is(n, g)
    BY <1>1
  <2>. HIDE DEF Is
  <2>. QED  BY <1>2, <2>1
<1>4. \A i \in 1..n : f[i] = IF i = 1 THEN events ELSE Rotated(f[i - 1] + p[i - 1].dur + 2)
  BY <1>3
<1>5. \A i \in 1..n : p[i].dur \in Nat
  <2>1. \A i \in 1..n : p[i] \in Piece
    OBVIOUS
  <2>. QED  BY <2>1 DEF Piece
<1>. DEFINE Bad == {i \in 1..n : f[i] \notin Nat}
<1>6. Bad = {}
  <2>. SUFFICES ASSUME Bad # {} PROVE FALSE
    OBVIOUS
  <2>1. PICK i \in Bad : \A m \in Bad : i <= m
    <3>1. Bad \subseteq Nat
      OBVIOUS
    <3>. HIDE DEF Bad
    <3>. QED  BY <3>1, LeastNatural
  <2>2. i \in 1..n /\ f[i] \notin Nat
    BY <2>1
  <2>3. i # 1
    BY <1>4, <2>2
  <2>4. i - 1 \in 1..n /\ f[i - 1] \in Nat
    <3>1. i - 1 \in 1..n /\ ~(i <= i - 1)
      BY <2>2, <2>3
    <3>2. i - 1 \notin Bad
      BY <2>1, <3>1
    <3>. QED  BY <3>1, <3>2
  <2>5. f[i] = Step(f[i - 1], p[i - 1].dur)
    BY <1>4, <2>2, <2>3 DEF Step
  <2>. QED  BY <1>5, <2>2, <2>4, <2>5, StepNat
<1>7. f = [i \in 1..n |-> f[i]]
  BY <1>3
<1>8. f \in [1..n -> Nat]
  <2>1. \A i \in 1..n : f[i] \in Nat
    BY <1>6
  <2>. QED  BY <1>7, <2>1
<1>. HIDE DEF Is, Lacks, Bad
<1>. QED  BY <1>4, <1>8

-----------------------------------------------------------------------------
(* What an anomaly adds.                                                   *)

NewCell(j) == [e |-> Len(log) + 1 + (j - 1) \div format, k |-> 1 + ((j - 1) % format)]

(* n records new, with their cells.                                        *)
Adds(n, new) ==
    /\ n \in Nat \ {0} /\ new \in Seq(Record) /\ Len(new) = n /\ Len(log) + n <= MaxEvents
    /\ \A i \in 1..n : /\ new[i].format = format /\ new[i].start = new[i].ts - 1
                       /\ clock <= new[i].ts /\ new[i].ts < clock'
    /\ \A i \in 2..n : new[i - 1].ts <= new[i].ts
    /\ log' = log \o new
    /\ index' = index \o [j \in 1..n * format |-> NewCell(j)]

LEMMA AnomalyAdds ==
    ASSUME TypeOK, NEW v \in Voltages, NEW lasted \in Lengths, Anomaly(v, lasted)
    PROVE  /\ \E n, new : Adds(n, new)
           /\ events' \in Nat /\ clock' \in Nat /\ UNCHANGED <<format, settings, steps, tears>>
<1>. DEFINE p == Pieces(lasted)
            n == Len(p)
            off == Offsets(p)
            RecordOf(i) == [format |-> format, ts |-> p[i].at, type |-> TypeOf(v), extreme |-> v,
                            dur |-> p[i].dur, start |-> p[i].at - 1, off |-> off[i]]
            new == [i \in 1..n |-> RecordOf(i)]
<1>1. /\ TypeOf(v) # "none" /\ Len(log) + n <= MaxEvents
      /\ log' = log \o new
      /\ index' = index \o [j \in 1..n * format |-> NewCell(j)]
      /\ events' = Rotated(off[n] + p[n].dur + 2)
      /\ clock' = clock + lasted + Cooldown
      /\ UNCHANGED <<format, settings, steps, tears>>
  BY DEF Anomaly, NewCell
<1>2. clock \in Nat /\ events \in Nat /\ format \in {SizeV2, SizeV3} /\ v \in Nat
      /\ lasted \in Nat \ {0} /\ Cooldown \in Nat
  BY PagesAssumption DEF TypeOK
<1>. HIDE DEF p
<1>3. /\ p \in Seq(Piece) /\ n \in Nat \ {0}
      /\ \A i \in 1..n : p[i] \in Piece /\ clock <= p[i].at /\ p[i].at < clock + lasted
      /\ \A i \in 2..n : p[i - 1].at <= p[i].at
  BY <1>2, PiecesAre DEF p
<1>. HIDE DEF off
<1>4. off \in [1..n -> Nat]
  BY <1>2, <1>3, OffsetsAre DEF off
<1>. HIDE DEF n
<1>5. TypeOf(v) \in {"SAG", "SWELL"}
  BY <1>1 DEF TypeOf
<1>6. \A i \in 1..n : new[i] = RecordOf(i) /\ p[i].at \in Nat /\ p[i].dur \in Nat \ {0}
  BY <1>3 DEF Piece
<1>7. \A i \in 1..n : RecordOf(i) \in Record
  BY <1>2, <1>4, <1>5, <1>6 DEF Record
<1>8. new \in Seq(Record) /\ Len(new) = n
  <2>. HIDE DEF RecordOf
  <2>1. new \in [1..n -> Record]
    BY <1>7
  <2>. QED  BY <1>3, <2>1
<1>. HIDE DEF new
<1>9. \A i \in 1..n : /\ new[i].format = format /\ new[i].start = new[i].ts - 1
                      /\ clock <= new[i].ts /\ new[i].ts < clock'
  <2>. TAKE i \in 1..n
  <2>0. new[i] = RecordOf(i) /\ p[i].at \in Nat
    <3>. HIDE DEF RecordOf
    <3>. QED  BY <1>6
  <2>1. new[i].format = format /\ new[i].start = p[i].at - 1 /\ new[i].ts = p[i].at
    BY <2>0
  <2>2. clock <= p[i].at /\ p[i].at < clock + lasted
    BY <1>3
  <2>. HIDE DEF RecordOf
  <2>. QED  BY <1>1, <1>2, <2>0, <2>1, <2>2
<1>10. \A i \in 2..n : new[i - 1].ts <= new[i].ts
  <2>. TAKE i \in 2..n
  <2>1. i \in 1..n /\ i - 1 \in 1..n
    BY <1>3
  <2>2. \A m \in 1..n : new[m].ts = p[m].at
    <3>. TAKE m \in 1..n
    <3>1. new[m] = RecordOf(m)
      <4>. HIDE DEF RecordOf
      <4>. QED  BY <1>6
    <3>. QED  BY <3>1
  <2>. HIDE DEF RecordOf
  <2>. QED  BY <1>3, <2>1, <2>2
<1>. HIDE DEF RecordOf
<1>11. Adds(n, new)
  BY <1>1, <1>3, <1>8, <1>9, <1>10 DEF Adds
<1>12. events' \in Nat
  <2>1. off[n] \in Nat /\ p[n].dur \in Nat
    BY <1>3, <1>4, <1>6
  <2>2. events' = Step(off[n], p[n].dur)
    BY <1>1 DEF Step
  <2>. QED  BY <2>1, <2>2, StepNat
<1>. QED  BY <1>1, <1>2, <1>11, <1>12

(* The cells of new records.                                               *)
LEMMA NewCells ==
    ASSUME TypeOK, NEW n \in Nat \ {0}, Len(log) + n <= MaxEvents, NEW j \in 1..n * format
    PROVE  NewCell(j) \in Cell /\ NewCell(j).e \in Len(log) + 1..Len(log) + n
<1>1. format \in Nat \ {0} /\ format <= SizeV3 /\ Len(log) \in Nat /\ SizeV3 \in Nat
  BY PagesAssumption DEF TypeOK
<1>2. (j - 1) \div format \in 0..n - 1 /\ (j - 1) % format \in 0..format - 1
  BY <1>1, PieceOf
<1>. DEFINE q == (j - 1) \div format
            r == (j - 1) % format
<1>3. NewCell(j) = [e |-> Len(log) + 1 + q, k |-> 1 + r]
  BY DEF NewCell
<1>. HIDE DEF q, r
<1>4. Len(log) + 1 + q \in 1..MaxEvents /\ 1 + r \in 1..SizeV3 /\ q \in 0..n - 1
  BY <1>1, <1>2, PagesAssumption DEF q, r
<1>. QED  BY <1>1, <1>3, <1>4 DEF Cell

(* What joining two sequences gives.                                       *)
Joined(a, b, ab, S) ==
    /\ ab \in Seq(S) /\ Len(ab) = Len(a) + Len(b)
    /\ \A i \in 1..Len(a) : ab[i] = a[i]
    /\ \A i \in 1..Len(b) : ab[Len(a) + i] = b[i]

LEMMA ConcatIs ==
    ASSUME NEW S, NEW a \in Seq(S), NEW b \in Seq(S)
    PROVE  Joined(a, b, a \o b, S)
<1>1. /\ a \o b \in Seq(S) /\ Len(a \o b) = Len(a) + Len(b)
      /\ \A i \in 1..Len(a) + Len(b) : (a \o b)[i] = IF i <= Len(a) THEN a[i] ELSE b[i - Len(a)]
  BY ConcatProperties
<1>2. Len(a) \in Nat /\ Len(b) \in Nat
  OBVIOUS
<1>3. ASSUME NEW i \in 1..Len(a)
      PROVE  (a \o b)[i] = a[i]
  <2>1. i \in 1..Len(a) + Len(b) /\ i <= Len(a)
    BY <1>2
  <2>. QED  BY <1>1, <2>1
<1>4. ASSUME NEW i \in 1..Len(b)
      PROVE  (a \o b)[Len(a) + i] = b[i]
  <2>1. Len(a) + i \in 1..Len(a) + Len(b) /\ ~(Len(a) + i <= Len(a)) /\ Len(a) + i - Len(a) = i
    BY <1>2
  <2>. QED  BY <1>1, <2>1
<1>. QED  BY <1>1, <1>3, <1>4 DEF Joined

(* The same, as what a log of l and an index of c become.                  *)
Added(n, new, l, c) ==
    /\ l \in Nat /\ c \in Nat /\ n \in Nat \ {0} /\ format \in Nat \ {0}
    /\ log' \in Seq(Record) /\ Len(log') = l + n
    /\ DOMAIN log = 1..l /\ DOMAIN log' = 1..l + n
    /\ \A i \in 1..l : log'[i] = log[i]
    /\ \A i \in 1..n : log'[l + i] = new[i]
    /\ index' \in Seq(Cell) /\ Len(index') = c + n * format
    /\ DOMAIN index = 1..c /\ DOMAIN index' = 1..c + n * format
    /\ \A j \in 1..c : index'[j] = index[j]
    /\ \A j \in 1..n * format : index'[c + j] = NewCell(j)

LEMMA AddedIs ==
    ASSUME TypeOK, NEW n, NEW new, Adds(n, new), NEW l, l = Len(log), NEW c, c = Len(index)
    PROVE  Added(n, new, l, c)
<1>1. /\ log \in Seq(Record) /\ index \in Seq(Cell) /\ l \in Nat /\ c \in Nat
      /\ format \in Nat \ {0}
  BY PagesAssumption DEF TypeOK
<1>2. /\ n \in Nat \ {0} /\ new \in Seq(Record) /\ Len(new) = n /\ l + n <= MaxEvents
      /\ log' = log \o new
      /\ index' = index \o [j \in 1..n * format |-> NewCell(j)]
  BY DEF Adds
<1>. DEFINE cells == [j \in 1..n * format |-> NewCell(j)]
<1>3. n * format \in Nat
  BY <1>1, <1>2
<1>4. cells \in Seq(Cell) /\ Len(cells) = n * format /\ \A j \in 1..n * format : cells[j] = NewCell(j)
  <2>1. cells \in [1..n * format -> Cell]
    BY <1>2, NewCells
  <2>. QED  BY <1>3, <2>1
<1>. HIDE DEF cells
<1>5. index' = index \o cells
  BY <1>2 DEF cells
<1>6. /\ log' \in Seq(Record) /\ Len(log') = l + n /\ \A i \in 1..l : log'[i] = log[i]
      /\ \A i \in 1..n : log'[l + i] = new[i]
  <2>1. Joined(log, new, log \o new, Record)
    BY <1>1, <1>2, ConcatIs
  <2>. QED  BY <1>2, <2>1 DEF Joined
<1>7. /\ index' \in Seq(Cell) /\ Len(index') = c + n * format /\ \A j \in 1..c : index'[j] = index[j]
      /\ \A j \in 1..n * format : index'[c + j] = cells[j]
  <2>1. Joined(index, cells, index', Cell)
    BY <1>1, <1>4, <1>5, ConcatIs
  <2>. DEFINE nf == Len(cells)
  <2>2. nf = n * format
    BY <1>4
  <2>3. index' \in Seq(Cell) /\ Len(index') = c + nf
    BY <2>1 DEF Joined
  <2>4. \A j \in 1..c : index'[j] = index[j]
    BY <2>1 DEF Joined
  <2>5. \A j \in 1..nf : index'[c + j] = cells[j]
    BY <2>1 DEF Joined
  <2>. HIDE DEF nf
  <2>6. \A j \in 1..n * format : index'[c + j] = cells[j]
    BY <2>2, <2>5, Zenon
  <2>7. Len(index') = c + n * format
    BY <2>2, <2>3
  <2>. QED  BY <2>3, <2>4, <2>6, <2>7, Zenon
<1>8. DOMAIN log = 1..l /\ DOMAIN log' = 1..l + n /\ DOMAIN index = 1..c /\ DOMAIN index' = 1..c + n * format
  BY <1>1, <1>6, <1>7
<1>9. \A j \in 1..n * format : index'[c + j] = NewCell(j)
  BY <1>4, <1>7, Zenon
<1>. QED  BY <1>1, <1>2, <1>6, <1>7, <1>8, <1>9, Zenon DEF Added

(* What a record cut short leaves.                                         *)
LEMMA TearIs ==
    ASSUME TypeOK, Tear
    PROVE  /\ index' \in Seq(Cell) /\ \A j \in DOMAIN index' : j \in DOMAIN index /\ index'[j] = index[j]
           /\ tears' = tears + 1 /\ tears < MaxTears
           /\ UNCHANGED <<format, events, clock, settings, log, steps>>
<1>1. PICK k \in 1..Last(index).k - 1 : index' = SubSeq(index, 1, Len(index) - k)
  BY DEF Tear
<1>2. index \in Seq(Cell) /\ Len(index) \in Nat /\ index # <<>>
  BY DEF TypeOK, Tear
<1>3. k \in Nat
  OBVIOUS
<1>. DEFINE m == Len(index) - k
<1>4. CASE m >= 0
  <2>1. m \in 0..Len(index)
    BY <1>2, <1>3, <1>4
  <2>2. /\ index' \in Seq(Cell) /\ Len(index') = m /\ \A j \in 1..m : index'[j] = index[j]
    <3>. HIDE DEF m
    <3>1. index' = SubSeq(index, 1, m)
      BY <1>1 DEF m
    <3>. QED  BY <1>2, <2>1, <3>1, SubSeqProperties
  <2>. QED  BY <1>2, <2>1, <2>2 DEF Tear
<1>5. CASE m < 0
  <2>1. index' = <<>>
    <3>. HIDE DEF m
    <3>1. index' = SubSeq(index, 1, m) /\ m \in Int
      BY <1>1, <1>2, <1>3 DEF m
    <3>. QED  BY <1>5, <3>1
  <2>2. index' \in Seq(Cell) /\ DOMAIN index' = {}
    BY <2>1
  <2>. QED  BY <2>2 DEF Tear
<1>. QED  BY <1>2, <1>3, <1>4, <1>5

-----------------------------------------------------------------------------
(* The invariant.                                                          *)

(* Every cell is of a record that was written.                             *)
CellInv == \A j \in DOMAIN index : index[j].e \in DOMAIN log
(* A waveform begins a second before its event.                            *)
StartInv == \A i \in DOMAIN log : log[i].start = log[i].ts - 1
(* As long as no record was cut short and all are of one format, the i-th
   has the i-th place.                                                     *)
Whole(f, n, size) ==
    /\ Len(f) = n * size
    /\ \A i \in 1..n, k \in 1..size : f[(i - 1) * size + k] = [e |-> i, k |-> k]
IndexInv ==
    tears = 0 => \A size \in {SizeV2, SizeV3} :
        (\A i \in DOMAIN log : log[i].format = size) => Whole(index, Len(log), size)
(* Until the clock is set back, times do not fall.                         *)
TimesInv ==
    steps = 0 => /\ \A i \in 2..Len(log) : log[i - 1].ts <= log[i].ts
                 /\ \A i \in DOMAIN log : log[i].ts < clock
IInv == TypeOK /\ CellInv /\ StartInv /\ IndexInv /\ TimesInv

LEMMA RecordTypes ==
    \A r \in Record : r.ts \in Nat /\ r.dur \in Nat \ {0} /\ r.start \in Int /\ r.off \in Nat
BY DEF Record

LEMMA InvInit == Init => IInv
<1>. SUFFICES ASSUME Init PROVE IInv
  OBVIOUS
<1>1. log = <<>> /\ index = <<>> /\ DOMAIN log = {} /\ DOMAIN index = {} /\ Len(log) = 0 /\ Len(index) = 0
  BY DEF Init
<1>2. TypeOK
  BY <1>1, PagesAssumption DEF Init, TypeOK
<1>3. CellInv /\ StartInv /\ TimesInv
  BY <1>1 DEF CellInv, StartInv, TimesInv
<1>4. IndexInv
  <2>1. \A size \in {SizeV2, SizeV3} : 0 * size = 0
    BY PagesAssumption
  <2>. QED  BY <1>1, <2>1 DEF IndexInv, Whole
<1>. QED  BY <1>2, <1>3, <1>4 DEF IInv

(* An anomaly's records take the next places.                              *)
LEMMA IndexGrows ==
    ASSUME TypeOK, IndexInv, NEW n, NEW new, Adds(n, new), tears' = tears, UNCHANGED format
    PROVE  IndexInv'
<1>. DEFINE l == Len(log)
            c == Len(index)
<1>1. /\ l \in Nat /\ c \in Nat /\ n \in Nat \ {0} /\ format \in Nat \ {0}
      /\ Len(log') = l + n /\ DOMAIN log = 1..l /\ DOMAIN log' = 1..l + n
      /\ \A i \in 1..l : log'[i] = log[i]
      /\ \A i \in 1..n : log'[l + i] = new[i]
      /\ Len(index') = c + n * format
      /\ \A j \in 1..c : index'[j] = index[j]
      /\ \A j \in 1..n * format : index'[c + j] = NewCell(j)
  <2>1. Added(n, new, l, c)
    BY AddedIs
  <2>. HIDE DEF l, c
  <2>. QED  BY <2>1 DEF Added
<1>2. \A i \in 1..n : new[i].format = format
  BY DEF Adds
<1>3. SUFFICES ASSUME tears = 0, NEW size \in {SizeV2, SizeV3},
                      \A i \in 1..l + n : log'[i].format = size
               PROVE  Whole(index', l + n, size)
  BY <1>1 DEF IndexInv
<1>4. size = format
  <2>1. l + 1 \in 1..l + n /\ 1 \in 1..n
    BY <1>1
  <2>2. log'[l + 1] = new[1] /\ new[1].format = format
    BY <1>1, <1>2, <2>1
  <2>. QED  BY <1>3, <2>1, <2>2
<1>5. Whole(index, l, size)
  <2>1. \A i \in 1..l : log[i].format = size
    <3>1. \A i \in 1..l : i \in 1..l + n
      BY <1>1
    <3>. QED  BY <1>1, <1>3, <3>1
  <2>. QED  BY <1>1, <1>3, <2>1 DEF IndexInv
<1>6. c = l * size /\ \A i \in 1..l, k \in 1..size : index[(i - 1) * size + k] = [e |-> i, k |-> k]
  BY <1>5 DEF Whole
<1>. HIDE DEF l, c
<1>7. Len(index') = (l + n) * size
  <2>1. (l + n) * size = l * size + n * size
    BY <1>1, <1>4
  <2>. QED  BY <1>1, <1>4, <1>6, <2>1
<1>8. ASSUME NEW i \in 1..l + n, NEW k \in 1..size
      PROVE  index'[(i - 1) * size + k] = [e |-> i, k |-> k]
  <2>1. CASE i \in 1..l
    <3>1. (i - 1) * size + k \in 1..c
      BY <1>1, <1>4, <1>6, <2>1, PlaceIn
    <3>. QED  BY <1>1, <1>6, <2>1, <3>1
  <2>2. CASE i \notin 1..l
    <3>. DEFINE m == i - l
                j == (m - 1) * size + k
    <3>1. m \in 1..n
      BY <1>1, <2>2
    <3>. HIDE DEF m
    <3>2. j \in 1..n * size
      BY <1>1, <1>4, <3>1, PlaceIn
    <3>3. (i - 1) * size + k = c + j
      <4>1. i - 1 = l + (m - 1)
        BY <1>1 DEF m
      <4>2. (l + (m - 1)) * size = l * size + (m - 1) * size
        BY <1>1, <1>4, <3>1
      <4>3. (m - 1) * size \in Int /\ l * size \in Int
        BY <1>1, <1>4, <3>1
      <4>. QED  BY <1>6, <4>1, <4>2, <4>3
    <3>4. index'[c + j] = NewCell(j)
      <4>. HIDE DEF j
      <4>. QED  BY <1>1, <1>4, <3>2
    <3>5. (j - 1) \div size = m - 1 /\ (j - 1) % size = k - 1
      <4>1. m - 1 \in Nat /\ k - 1 \in 0..size - 1 /\ j - 1 = (m - 1) * size + (k - 1)
        <5>1. (m - 1) * size \in Int
          BY <1>1, <1>4, <3>1
        <5>. QED  BY <1>1, <1>4, <3>1, <5>1
      <4>. HIDE DEF j
      <4>. DEFINE a == m - 1
                  b == k - 1
      <4>2. a \in Nat /\ b \in 0..size - 1 /\ j - 1 = a * size + b
        BY <4>1
      <4>. HIDE DEF a, b
      <4>3. (a * size + b) \div size = a /\ (a * size + b) % size = b
        BY <1>1, <1>4, <4>2, DivMod
      <4>. QED  BY <4>2, <4>3 DEF a, b
    <3>6. NewCell(j) = [e |-> i, k |-> k]
      <4>. HIDE DEF j
      <4>1. NewCell(j) = [e |-> l + 1 + (m - 1), k |-> 1 + (k - 1)]
        BY <1>4, <3>5 DEF NewCell, l
      <4>2. l + 1 + (m - 1) = i /\ 1 + (k - 1) = k
        BY <1>1 DEF m
      <4>. QED  BY <4>1, <4>2
    <3>. QED  BY <3>3, <3>4, <3>6
  <2>. QED  BY <2>1, <2>2
<1>. QED  BY <1>7, <1>8 DEF Whole

LEMMA AnomalyKeeps ==
    ASSUME IInv, NEW v \in Voltages, NEW lasted \in Lengths, Anomaly(v, lasted)
    PROVE  IInv'
<1>. DEFINE l == Len(log)
            c == Len(index)
<1>1. TypeOK /\ CellInv /\ StartInv /\ IndexInv /\ TimesInv
  BY DEF IInv
<1>2. PICK n, new : Adds(n, new)
  BY <1>1, AnomalyAdds
<1>3. events' \in Nat /\ clock' \in Nat /\ UNCHANGED <<format, settings, steps, tears>>
  BY <1>1, AnomalyAdds
<1>4. /\ l \in Nat /\ c \in Nat /\ n \in Nat \ {0} /\ format \in Nat \ {0}
      /\ log' \in Seq(Record) /\ Len(log') = l + n /\ DOMAIN log = 1..l /\ DOMAIN log' = 1..l + n
      /\ \A i \in 1..l : log'[i] = log[i]
      /\ \A i \in 1..n : log'[l + i] = new[i]
      /\ index' \in Seq(Cell) /\ DOMAIN index = 1..c /\ DOMAIN index' = 1..c + n * format
      /\ \A j \in 1..c : index'[j] = index[j]
      /\ \A j \in 1..n * format : index'[c + j] = NewCell(j)
  <2>1. Added(n, new, l, c)
    BY <1>1, <1>2, AddedIs
  <2>. HIDE DEF l, c
  <2>. QED  BY <2>1 DEF Added
<1>5. /\ l + n <= MaxEvents
      /\ \A i \in 1..n : /\ new[i].start = new[i].ts - 1 /\ clock <= new[i].ts /\ new[i].ts < clock'
      /\ \A i \in 2..n : new[i - 1].ts <= new[i].ts
  BY <1>2 DEF Adds
<1>6. TypeOK'
  BY <1>1, <1>3, <1>4, <1>5 DEF TypeOK
<1>7. IndexInv'
  BY <1>1, <1>2, <1>3, IndexGrows
<1>8. CellInv'
  <2>1. \A j \in 1..c : index'[j].e \in 1..l + n
    <3>1. \A j \in 1..c : index[j].e \in 1..l
      BY <1>1, <1>4 DEF CellInv
    <3>. HIDE DEF l, c
    <3>. QED  BY <1>4, <3>1
  <2>2. \A j \in 1..n * format : NewCell(j).e \in l + 1..l + n
    BY <1>1, <1>4, <1>5, NewCells
  <2>. HIDE DEF l, c
  <2>3. ASSUME NEW j \in 1..c + n * format
        PROVE  index'[j].e \in 1..l + n
    <3>1. n * format \in Nat
      BY <1>4
    <3>2. CASE j \in 1..c
      BY <2>1, <3>2
    <3>3. CASE j \notin 1..c
      <4>1. j - c \in 1..n * format /\ c + (j - c) = j
        BY <1>4, <3>1, <3>3
      <4>2. index'[c + (j - c)] = NewCell(j - c)
        BY <1>4, <4>1
      <4>3. index'[j].e \in l + 1..l + n
        BY <2>2, <4>1, <4>2
      <4>. QED  BY <1>4, <4>3
    <3>. QED  BY <3>2, <3>3
  <2>. QED  BY <1>4, <2>3 DEF CellInv
<1>9. \A i \in DOMAIN log' : i \in 1..l \/ (i - l \in 1..n /\ l + (i - l) = i)
  <2>. HIDE DEF l
  <2>. QED  BY <1>4
<1>10. StartInv'
  <2>. SUFFICES ASSUME NEW i \in DOMAIN log' PROVE log'[i].start = log'[i].ts - 1
    BY DEF StartInv
  <2>1. CASE i \in 1..l
    BY <1>1, <1>4, <2>1 DEF StartInv
  <2>2. CASE i - l \in 1..n /\ l + (i - l) = i
    <3>1. log'[i] = new[i - l]
      <4>. HIDE DEF l
      <4>. QED  BY <1>4, <2>2
    <3>. QED  BY <1>5, <2>2, <3>1
  <2>. QED  BY <1>9, <2>1, <2>2
<1>11. TimesInv'
  <2>. SUFFICES ASSUME steps = 0
                PROVE  /\ \A i \in 2..l + n : log'[i - 1].ts <= log'[i].ts
                       /\ \A i \in DOMAIN log' : log'[i].ts < clock'
    BY <1>3, <1>4 DEF TimesInv
  <2>1. /\ \A i \in 2..l : log[i - 1].ts <= log[i].ts
        /\ \A i \in 1..l : log[i].ts < clock /\ log[i].ts \in Nat
    <3>1. \A i \in 1..l : log[i] \in Record
      BY <1>1 DEF TypeOK
    <3>. QED  BY <1>1, <1>3, <1>4, <3>1, RecordTypes DEF TimesInv
  <2>2. \A i \in 1..n : new[i].ts \in Nat
    <3>1. \A i \in 1..n : new[i] \in Record
      BY <1>2 DEF Adds
    <3>. QED  BY <3>1, RecordTypes
  <2>3. clock \in Nat /\ clock <= clock'
    <3>1. 1 \in 1..n
      BY <1>4
    <3>2. clock <= new[1].ts /\ new[1].ts < clock' /\ new[1].ts \in Nat
      BY <1>5, <2>2, <3>1
    <3>. QED  BY <1>1, <1>3, <3>2 DEF TypeOK
  <2>. HIDE DEF l
  <2>4. ASSUME NEW i \in 2..l + n
        PROVE  log'[i - 1].ts <= log'[i].ts
    <3>1. CASE i \in 1..l
      <4>1. i - 1 \in 1..l /\ i \in 2..l
        BY <1>4, <3>1
      <4>. QED  BY <1>4, <2>1, <3>1, <4>1
    <3>2. CASE i = l + 1
      <4>1. i - 1 \in 1..l /\ 1 \in 1..n /\ i - 1 = l
        BY <1>4, <3>2
      <4>2. log'[i - 1] = log[l] /\ log'[i] = new[1] /\ l \in 1..l
        BY <1>4, <3>2, <4>1
      <4>3. log[l].ts < clock /\ clock <= new[1].ts /\ log[l].ts \in Nat /\ new[1].ts \in Nat
        BY <1>5, <2>1, <2>2, <4>1, <4>2
      <4>. QED  BY <2>3, <4>2, <4>3
    <3>3. CASE i > l + 1
      <4>1. i - l \in 2..n /\ i - l \in 1..n /\ i - l - 1 \in 1..n
            /\ l + (i - l) = i /\ l + (i - l - 1) = i - 1
        BY <1>4, <3>3
      <4>2. log'[i] = new[i - l] /\ log'[i - 1] = new[i - l - 1]
        BY <1>4, <4>1
      <4>. QED  BY <1>5, <4>1, <4>2
    <3>. QED  BY <1>4, <3>1, <3>2, <3>3
  <2>5. ASSUME NEW i \in DOMAIN log'
        PROVE  log'[i].ts < clock'
    <3>1. CASE i \in 1..l
      BY <1>3, <1>4, <2>1, <2>3, <3>1
    <3>2. CASE i - l \in 1..n /\ l + (i - l) = i
      <4>1. log'[i] = new[i - l]
        BY <1>4, <3>2
      <4>. QED  BY <1>5, <3>2, <4>1
    <3>. QED  BY <1>9, <3>1, <3>2
  <2>. QED  BY <2>4, <2>5
<1>. QED  BY <1>6, <1>7, <1>8, <1>10, <1>11 DEF IInv

LEMMA InvStep == IInv /\ [Next]_vars => IInv'
<1>. SUFFICES ASSUME IInv, [Next]_vars PROVE IInv'
  OBVIOUS
<1>1. TypeOK /\ CellInv /\ StartInv /\ IndexInv /\ TimesInv
  BY DEF IInv
<1>2. ASSUME NEW v \in Voltages, NEW lasted \in Lengths, Anomaly(v, lasted) PROVE IInv'
  BY <1>2, AnomalyKeeps
<1>3. ASSUME Tear PROVE IInv'
  <2>1. /\ index' \in Seq(Cell) /\ \A j \in DOMAIN index' : j \in DOMAIN index /\ index'[j] = index[j]
        /\ tears' = tears + 1 /\ tears < MaxTears
        /\ UNCHANGED <<format, events, clock, settings, log, steps>>
    BY <1>1, <1>3, TearIs
  <2>2. tears' \in 0..MaxTears /\ tears' # 0
    BY <1>1, <2>1, PagesAssumption DEF TypeOK
  <2>3. TypeOK'
    BY <1>1, <2>1, <2>2 DEF TypeOK
  <2>4. CellInv' /\ StartInv' /\ TimesInv'
    BY <1>1, <2>1 DEF CellInv, StartInv, TimesInv
  <2>5. IndexInv'
    BY <2>2 DEF IndexInv
  <2>. QED  BY <2>3, <2>4, <2>5 DEF IInv
<1>4. ASSUME Upgrade PROVE IInv'
  <2>1. TypeOK'
    BY <1>1, <1>4 DEF Upgrade, TypeOK
  <2>2. CellInv' /\ StartInv' /\ TimesInv' /\ IndexInv'
    BY <1>1, <1>4 DEF Upgrade, CellInv, StartInv, TimesInv, IndexInv
  <2>. QED  BY <2>1, <2>2 DEF IInv
<1>5. ASSUME ChangeSettings PROVE IInv'
  <2>1. TypeOK'
    BY <1>1, <1>5 DEF ChangeSettings, TypeOK
  <2>2. CellInv' /\ StartInv' /\ TimesInv' /\ IndexInv'
    BY <1>1, <1>5 DEF ChangeSettings, CellInv, StartInv, TimesInv, IndexInv
  <2>. QED  BY <2>1, <2>2 DEF IInv
<1>6. ASSUME StepClock PROVE IInv'
  <2>1. steps' \in 0..MaxSteps /\ steps' # 0
    BY <1>1, <1>6, PagesAssumption DEF StepClock, TypeOK
  <2>2. TypeOK'
    BY <1>1, <1>6, <2>1 DEF StepClock, TypeOK
  <2>3. CellInv' /\ StartInv' /\ TimesInv' /\ IndexInv'
    BY <1>1, <1>6, <2>1 DEF StepClock, CellInv, StartInv, TimesInv, IndexInv
  <2>. QED  BY <2>2, <2>3 DEF IInv
<1>7. ASSUME UNCHANGED vars PROVE IInv'
  <2>1. TypeOK'
    BY <1>1, <1>7 DEF vars, TypeOK
  <2>2. CellInv' /\ StartInv' /\ TimesInv' /\ IndexInv'
    BY <1>1, <1>7 DEF vars, CellInv, StartInv, TimesInv, IndexInv
  <2>. QED  BY <2>1, <2>2 DEF IInv
<1>. QED  BY <1>2, <1>3, <1>4, <1>5, <1>6, <1>7 DEF Next

LEMMA InvAlways == Spec => []IInv
BY InvInit, InvStep, PTL DEF Spec

(* Records, offsets, clock and cells keep their ranges, whatever anomalies,
   torn records, upgrades and clock settings come.                         *)
THEOREM TypeCorrect == Spec => []TypeOK
<1>1. IInv => TypeOK
  BY DEF IInv
<1>. QED  BY <1>1, InvAlways, PTL

(* The review flag is the published table at 120 V, and at every nominal the
   user can choose a worse event is never less flagged, nor any event by a
   shorter sustained duration.                                             *)
THEOREM ReviewFollowsTable == Spec => []ReviewIsTable
<1>1. IInv => ReviewIsTable
  <2>1. IInv => settings \in Settings
    BY DEF IInv, TypeOK
  <2>. QED  BY <2>1, TableIs, NominalsMonotone DEF ReviewIsTable
<1>. QED  BY <1>1, InvAlways, PTL

-----------------------------------------------------------------------------
(* What the pages read.                                                    *)

LEMMA MaxOfTwo ==
    ASSUME NEW a \in Int, NEW b \in Int
    PROVE  Max({a, b}) \in {a, b} /\ Max({a, b}) >= a /\ Max({a, b}) >= b
<1>1. \E x \in {a, b} : \A y \in {a, b} : x >= y
  OBVIOUS
<1>. QED  BY <1>1 DEF Max

LEMMA DetectedSize ==
    ASSUME NEW f
    PROVE  Detected(f) \in {SizeV2, SizeV3} /\ Detected(f) \in Nat \ {0}
BY PagesAssumption DEF Detected

(* A clean file is read as it was written.                                 *)
LEMMA CleanReads ==
    ASSUME IInv, Clean
    PROVE  /\ Len(log) \in Nat /\ DOMAIN log = 1..Len(log)
           /\ Count(index) = Len(log) /\ Len(index) % Detected(index) = 0
           /\ \A i \in 1..Len(log) : Unpack(index, i) = log[i] /\ log[i] \in Record /\ Genuine(log[i])
<1>. DEFINE size == Detected(index)
            n == Len(log)
<1>1. size \in {SizeV2, SizeV3} /\ size \in Nat \ {0}
  BY DetectedSize
<1>2. log \in Seq(Record) /\ n \in Nat /\ DOMAIN log = 1..n
  BY DEF IInv, TypeOK
<1>3. tears = 0 /\ \A i \in 1..n : log[i].format = size
  BY <1>2 DEF Clean
<1>4. Len(index) = n * size /\ \A i \in 1..n, k \in 1..size : index[(i - 1) * size + k] = [e |-> i, k |-> k]
  <2>1. Whole(index, n, size)
    BY <1>1, <1>2, <1>3 DEF IInv, IndexInv
  <2>. QED  BY <2>1 DEF Whole
<1>5. Count(index) = n /\ Len(index) % size = 0
  <2>. HIDE DEF size, n
  <2>1. 0 \in 0..size - 1 /\ n * size + 0 = Len(index)
    BY <1>1, <1>2, <1>4
  <2>2. (n * size + 0) \div size = n /\ (n * size + 0) % size = 0
    BY <1>1, <1>2, <2>1, DivMod
  <2>. QED  BY <2>1, <2>2 DEF Count, size
<1>6. ASSUME NEW i \in 1..n
      PROVE  Unpack(index, i) = log[i]
  <2>. HIDE DEF size, n
  <2>1. \A k \in 1..size : index[(i - 1) * size + k] = [e |-> i, k |-> k]
    BY <1>4
  <2>2. index[(i - 1) * size + 1].e = i /\ 1 \in 1..size
    <3>1. 1 \in 1..size
      BY <1>1
    <3>2. index[(i - 1) * size + 1] = [e |-> i, k |-> 1]
      BY <2>1, <3>1, Zenon
    <3>. QED  BY <3>1, <3>2
  <2>3. log[i].format = size
    BY <1>3
  <2>. QED  BY <2>1, <2>2, <2>3 DEF Unpack, size
<1>7. ASSUME NEW i \in 1..n
      PROVE  log[i] \in Record /\ Genuine(log[i])
  <2>1. log[i] \in Record
    BY <1>2
  <2>2. log[i].format # 0
    BY <1>1, <1>3
  <2>3. Garbage.format = 0
    BY DEF Garbage
  <2>. QED  BY <2>1, <2>2, <2>3 DEF Genuine
<1>. QED  BY <1>2, <1>5, <1>6, <1>7

(* The list of a clean file is the last records written, newest first.     *)
LEMMA RecentIs ==
    ASSUME IInv, Clean
    PROVE  Recent(index) = Reverse(SubSeq(log, Max({1, Len(log) - PageLimit + 1}), Len(log)))
<1>. DEFINE N == Len(log)
            n == Min({PageLimit, N})
            m == Max({1, N - PageLimit + 1})
            last == [i \in 1..n |-> Unpack(index, N - n + i)]
            part == SubSeq(log, m, N)
<1>1. N \in Nat /\ Count(index) = N /\ PageLimit \in Nat /\ log \in Seq(Record)
      /\ \A i \in 1..N : Unpack(index, i) = log[i]
  BY CleanReads, PagesAssumption DEF IInv, TypeOK
<1>2. n \in Nat /\ m \in 1..N + 1 /\ N - n + 1 = m
  <2>1. n \in {PageLimit, N} /\ n <= PageLimit /\ n <= N
    <3>. HIDE DEF N
    <3>. QED  BY <1>1, MinOfTwo
  <2>2. m \in {1, N - PageLimit + 1} /\ m >= 1 /\ m >= N - PageLimit + 1
    <3>. DEFINE a == N - PageLimit + 1
    <3>1. a \in Int
      BY <1>1
    <3>. HIDE DEF N, a
    <3>2. Max({1, a}) \in {1, a} /\ Max({1, a}) >= 1 /\ Max({1, a}) >= a
      BY <3>1, MaxOfTwo
    <3>. QED  BY <3>2 DEF a
  <2>. HIDE DEF N, n, m
  <2>. QED  BY <1>1, <2>1, <2>2
<1>3. Recent(index) = Reverse(last)
  BY <1>1 DEF Recent
<1>4. last = part
  <2>1. \A i \in 1..n : last[i] = log[m + i - 1]
    <3>. HIDE DEF N, n, m
    <3>. TAKE i \in 1..n
    <3>1. N - n + i \in 1..N /\ N - n + i = m + i - 1
      BY <1>1, <1>2
    <3>. QED  BY <1>1, <3>1
  <2>2. part \in Seq(Record) /\ Len(part) = n /\ \A i \in 1..n : part[i] = log[m + i - 1]
    <3>. HIDE DEF n, m, N
    <3>1. N \in m - 1..N /\ (m <= N => N - m + 1 = n) /\ (m > N => n = 0) /\ N - m + 1 = n
      BY <1>1, <1>2
    <3>2. m \in Int /\ N \in Int /\ \A i \in m..N : log[i] \in Record
      <4>1. \A i \in 1..N : log[i] \in Record
        BY <1>1 DEF N
      <4>. QED  BY <1>1, <1>2, <4>1
    <3>3. /\ part \in Seq(Record) /\ Len(part) = IF m <= N THEN N - m + 1 ELSE 0
          /\ \A i \in 1..N - m + 1 : part[i] = log[m + i - 1]
      BY <1>1, <3>2, SubSeqProperties
    <3>. QED  BY <1>1, <1>2, <3>1, <3>3
  <2>. HIDE DEF part
  <2>3. part = [i \in 1..n |-> part[i]]
    <3>. HIDE DEF n
    <3>. QED  BY <2>2
  <2>. HIDE DEF n, m, N
  <2>4. \A i \in 1..n : last[i] = part[i]
    BY <2>1, <2>2
  <2>. QED  BY <2>3, <2>4
<1>. HIDE DEF last, part
<1>5. Reverse(last) = Reverse(part)
  BY <1>4
<1>. QED  BY <1>3, <1>5 DEF part, m, N

(* What ByTime returns: the records at the places P, none earlier than the
   one before it.                                                          *)
LEMMA ByTimeIs ==
    ASSUME NEW N \in Nat, NEW P \in SUBSET (1..N), NEW rec, \A i \in P : rec[i].ts \in Int
    PROVE  /\ Cardinality(P) \in Nat
           /\ \E g \in [1..Cardinality(P) -> P] :
                 /\ ByTime(rec, P) = [r \in 1..Cardinality(P) |-> rec[g[r]]]
                 /\ \A p \in P : \E r \in 1..Cardinality(P) : g[r] = p
                 /\ \A r, s \in 1..Cardinality(P) : r < s => rec[g[r]].ts <= rec[g[s]].ts
<1>. DEFINE n == Cardinality(P)
            UpTo(i) == {j \in P : rec[j].ts < rec[i].ts \/ (rec[j].ts = rec[i].ts /\ j <= i)}
            R == [i \in P |-> Cardinality(UpTo(i))]
            g == [r \in 1..n |-> CHOOSE i \in P : Cardinality(UpTo(i)) = r]
<1>0. P \subseteq Nat
  OBVIOUS
<1>1. IsFiniteSet(P) /\ n \in Nat
  <2>1. IsFiniteSet(1..N)
    BY FS_Interval
  <2>2. IsFiniteSet(P)
    BY <2>1, FS_Subset
  <2>. QED  BY <2>2, FS_CardinalityType
<1>2. ASSUME NEW i \in P
      PROVE  IsFiniteSet(UpTo(i)) /\ Cardinality(UpTo(i)) \in 1..n
  <2>0. i \in Nat /\ i <= i
    <3>. HIDE DEF UpTo, R, g, n
    <3>1. i \in Nat
      BY <1>0, Zenon
    <3>. QED  BY <3>1
  <2>1. UpTo(i) \in SUBSET P /\ i \in UpTo(i)
    BY <2>0
  <2>. HIDE DEF UpTo
  <2>2. IsFiniteSet(UpTo(i)) /\ Cardinality(UpTo(i)) <= n
    BY <1>1, <2>1, FS_Subset
  <2>3. Cardinality(UpTo(i)) \in Nat /\ Cardinality(UpTo(i)) # 0
    BY <2>1, <2>2, FS_CardinalityType, FS_EmptySet
  <2>. QED  BY <1>1, <2>2, <2>3
<1>3. ASSUME NEW i \in P, NEW j \in P, j \notin UpTo(i)
      PROVE  Cardinality(UpTo(i)) < Cardinality(UpTo(j))
  <2>1. i \in Nat /\ j \in Nat /\ rec[i].ts \in Int /\ rec[j].ts \in Int
    BY <1>0
  <2>2. rec[i].ts < rec[j].ts \/ (rec[i].ts = rec[j].ts /\ i < j)
    BY <1>3, <2>1
  <2>3. UpTo(i) \in SUBSET UpTo(j)
    <3>1. ASSUME NEW k \in UpTo(i) PROVE k \in UpTo(j)
      <4>1. k \in P /\ k \in Nat /\ rec[k].ts \in Int
        BY <1>0
      <4>. QED  BY <2>1, <2>2, <4>1
    <3>. QED  BY <3>1
  <2>4. j \in UpTo(j)
    BY <2>1
  <2>5. IsFiniteSet(UpTo(j)) /\ Cardinality(UpTo(i)) \in 1..n /\ Cardinality(UpTo(j)) \in 1..n
    <3>. HIDE DEF UpTo, R, g, n
    <3>. QED  BY <1>2, Zenon
  <2>6. Cardinality(UpTo(i)) \in Nat /\ Cardinality(UpTo(j)) \in Nat
    <3>. HIDE DEF UpTo, R, g, n
    <3>1. \A x \in 1..n : x \in Nat
      BY <1>1
    <3>. QED  BY <2>5, <3>1, Zenon
  <2>. HIDE DEF UpTo
  <2>7. /\ Cardinality(UpTo(i)) <= Cardinality(UpTo(j))
        /\ Cardinality(UpTo(i)) # Cardinality(UpTo(j))
    BY <1>3, <2>3, <2>4, <2>5, FS_Subset
  <2>. QED  BY <2>6, <2>7
<1>4. \A i, j \in P : i # j => j \notin UpTo(i) \/ i \notin UpTo(j)
  BY <1>0
<1>5. R \in Injection(P, 1..n)
  <2>. HIDE DEF UpTo
  <2>1. \A i \in P : R[i] = Cardinality(UpTo(i)) /\ R[i] \in 1..n
    BY <1>2
  <2>2. R \in [P -> 1..n]
    BY <2>1
  <2>3. ASSUME NEW i \in P, NEW j \in P, i # j
        PROVE  R[i] # R[j]
    <3>1. R[i] \in Nat /\ R[j] \in Nat
      BY <1>1, <2>1
    <3>. QED  BY <1>3, <1>4, <2>1, <2>3, <3>1
  <2>. HIDE DEF R
  <2>. QED  BY <2>2, <2>3 DEF Injection, IsInjective
<1>6. R \in Surjection(P, 1..n)
  <2>. HIDE DEF R, n
  <2>1. IsFiniteSet(1..n) /\ Cardinality(1..n) = n
    BY <1>1, FS_Interval
  <2>. QED  BY <1>1, <1>5, <2>1, FS_Injection DEF n
<1>7. \A r \in 1..n : \E i \in P : Cardinality(UpTo(i)) = r
  <2>. HIDE DEF UpTo
  <2>1. \A i \in P : R[i] = Cardinality(UpTo(i))
    OBVIOUS
  <2>. HIDE DEF R
  <2>. QED  BY <1>6, <2>1 DEF Surjection
<1>8. \A r \in 1..n : g[r] \in P /\ Cardinality(UpTo(g[r])) = r
  <2>. HIDE DEF UpTo
  <2>. QED  BY <1>7
<1>9. ByTime(rec, P) = [r \in 1..n |-> rec[g[r]]]
  BY DEF ByTime
<1>. HIDE DEF g
<1>10. g \in [1..n -> P]
  <2>. HIDE DEF UpTo
  <2>. QED  BY <1>8 DEF g
<1>11. ASSUME NEW p \in P
       PROVE  \E r \in 1..n : g[r] = p
  <2>. HIDE DEF UpTo
  <2>. DEFINE r == Cardinality(UpTo(p))
  <2>1. r \in 1..n
    BY <1>2
  <2>2. g[r] \in P /\ Cardinality(UpTo(g[r])) = r
    BY <1>8, <2>1
  <2>3. \A i \in P : Cardinality(UpTo(i)) = r => i = p
    <3>. TAKE i \in P
    <3>1. r \in Nat
      BY <2>1
    <3>2. i # p => Cardinality(UpTo(i)) < r \/ r < Cardinality(UpTo(i))
      BY <1>3, <1>4
    <3>. HIDE DEF r
    <3>. QED  BY <3>1, <3>2
  <2>. QED  BY <2>1, <2>2, <2>3
<1>12. ASSUME NEW r \in 1..n, NEW s \in 1..n, r < s
       PROVE  rec[g[r]].ts <= rec[g[s]].ts
  <2>1. g[r] \in P /\ g[s] \in P /\ Cardinality(UpTo(g[r])) = r /\ Cardinality(UpTo(g[s])) = s
    BY <1>8
  <2>2. rec[g[r]].ts \in Int /\ rec[g[s]].ts \in Int
    BY <2>1
  <2>3. rec[g[s]].ts < rec[g[r]].ts => g[r] \notin UpTo(g[s])
    BY <2>2
  <2>. HIDE DEF UpTo
  <2>4. g[r] \notin UpTo(g[s]) => s < r
    BY <1>3, <2>1
  <2>. QED  BY <1>12, <2>2, <2>3, <2>4
<1>. HIDE DEF n
<1>13. /\ n \in Nat
       /\ \E h \in [1..n -> P] :
             /\ ByTime(rec, P) = [r \in 1..n |-> rec[h[r]]]
             /\ \A p \in P : \E r \in 1..n : h[r] = p
             /\ \A r, s \in 1..n : r < s => rec[h[r]].ts <= rec[h[s]].ts
  BY <1>1, <1>9, <1>10, <1>11, <1>12
<1>. QED  BY <1>13 DEF n

(* The search of a clean file finds the records in its window, in order.   *)
LEMMA BetweenIs ==
    ASSUME IInv, Clean, NEW from \in Nat, NEW to \in Nat, NEW found, found = Between(index, from, to)
    PROVE  /\ Range(found) = {r \in Range(log) : r.ts \in from..to}
           /\ \A i, j \in DOMAIN found : i < j => found[i].ts <= found[j].ts
<1>. DEFINE N == Len(log)
            rec == [i \in 1..N |-> Unpack(index, i)]
            P == {i \in DOMAIN rec : Genuine(rec[i]) /\ rec[i].ts \in from..to}
            n == Cardinality(P)
<1>1. /\ N \in Nat /\ DOMAIN log = 1..N /\ Count(index) = N
      /\ \A i \in 1..N : Unpack(index, i) = log[i] /\ log[i] \in Record /\ Genuine(log[i])
  BY CleanReads
<1>2. \A i \in 1..N : rec[i] = log[i] /\ rec[i].ts \in Nat
  <2>. HIDE DEF N
  <2>. QED  BY <1>1, RecordTypes
<1>3. found = ByTime(rec, P)
  BY <1>1 DEF Between
<1>4. P = {i \in 1..N : log[i].ts \in from..to}
  <2>. HIDE DEF N
  <2>. QED  BY <1>1, <1>2
<1>. HIDE DEF rec, N, P
<1>5. P \in SUBSET (1..N) /\ \A i \in P : rec[i].ts \in Int
  BY <1>2, <1>4
<1>6. PICK g \in [1..n -> P] :
         /\ found = [r \in 1..n |-> rec[g[r]]]
         /\ \A p \in P : \E r \in 1..n : g[r] = p
         /\ \A r, s \in 1..n : r < s => rec[g[r]].ts <= rec[g[s]].ts
  <2>1. \E g \in [1..n -> P] :
           /\ ByTime(rec, P) = [r \in 1..n |-> rec[g[r]]]
           /\ \A p \in P : \E r \in 1..n : g[r] = p
           /\ \A r, s \in 1..n : r < s => rec[g[r]].ts <= rec[g[s]].ts
    BY <1>1, <1>5, ByTimeIs, Zenon
  <2>. HIDE DEF n
  <2>. QED  BY <1>3, <2>1
<1>. HIDE DEF n
<1>7. DOMAIN found = 1..n /\ \A r \in 1..n : found[r] = log[g[r]] /\ g[r] \in P /\ g[r] \in 1..N
  BY <1>2, <1>5, <1>6
<1>8. \A i, j \in DOMAIN found : i < j => found[i].ts <= found[j].ts
  BY <1>6, <1>7
<1>9. ASSUME NEW r \in Range(found)
      PROVE  r \in Range(log) /\ r.ts \in from..to
  <2>1. PICK x \in 1..n : r = found[x]
    BY <1>7 DEF Range
  <2>2. g[x] \in P /\ g[x] \in 1..N /\ r = log[g[x]]
    BY <1>7, <2>1
  <2>. QED  BY <1>1, <1>4, <2>2 DEF Range
<1>10. ASSUME NEW r \in Range(log), r.ts \in from..to
       PROVE  r \in Range(found)
  <2>1. PICK i \in 1..N : r = log[i]
    BY <1>1 DEF Range
  <2>2. i \in P
    BY <1>4, <1>10, <2>1
  <2>3. PICK x \in 1..n : g[x] = i
    BY <1>6, <2>2
  <2>4. found[x] = r
    BY <1>7, <2>1, <2>3
  <2>. QED  BY <1>7, <2>4 DEF Range
<1>. QED  BY <1>8, <1>9, <1>10

(* The list of recent events shows the newest records, newest first, and the
   search by time every record in its window in order of time, whatever the
   clock was set to (get_recent_events, events_between).                   *)
THEOREM ListingsShowAll == Spec => []ListingsComplete
<1>1. ASSUME IInv PROVE ListingsComplete
  <2>. SUFFICES ASSUME Clean
       PROVE  /\ Recent(index) = Reverse(SubSeq(log, Max({1, Len(log) - PageLimit + 1}), Len(log)))
              /\ \A from, to \in {log[i].ts : i \in DOMAIN log} :
                    LET found == Between(index, from, to)
                    IN  /\ Range(found) = {r \in Range(log) : r.ts \in from..to}
                        /\ \A i, j \in DOMAIN found : i < j => found[i].ts <= found[j].ts
    BY DEF ListingsComplete
  <2>1. Recent(index) = Reverse(SubSeq(log, Max({1, Len(log) - PageLimit + 1}), Len(log)))
    BY <1>1, RecentIs
  <2>2. {log[i].ts : i \in DOMAIN log} \subseteq Nat
    BY <1>1, CleanReads, RecordTypes
  <2>3. ASSUME NEW from \in {log[i].ts : i \in DOMAIN log}, NEW to \in {log[i].ts : i \in DOMAIN log}
        PROVE  LET found == Between(index, from, to)
               IN  /\ Range(found) = {r \in Range(log) : r.ts \in from..to}
                   /\ \A i, j \in DOMAIN found : i < j => found[i].ts <= found[j].ts
    <3>1. from \in Nat /\ to \in Nat
      BY <2>2, <2>3
    <3>. QED  BY <1>1, <3>1, BetweenIs
  <2>. QED  BY <2>1, <2>3
<1>2. IInv => ListingsComplete
  BY <1>1
<1>. QED  BY <1>2, InvAlways, PTL

-----------------------------------------------------------------------------
(* The validator.                                                          *)

(* As long as events.bin was not rotated, waveforms lie within it.         *)
LEMMA WithinEvents ==
    ASSUME IInv, Unrotated
    PROVE  \A i \in DOMAIN log : log[i].off < events
<1>. DEFINE N == Len(log)
            Far == {d \in 0..N - 1 : ~(log[N - d].off < events)}
<1>1. /\ N \in Nat /\ DOMAIN log = 1..N /\ events \in Nat
      /\ \A i \in 1..N : log[i] \in Record /\ log[i].off \in Nat /\ log[i].dur \in Nat
  <2>1. log \in Seq(Record) /\ N \in Nat /\ DOMAIN log = 1..N /\ events \in Nat
    BY DEF IInv, TypeOK
  <2>2. \A i \in 1..N : log[i] \in Record
    BY <2>1
  <2>. HIDE DEF N
  <2>. QED  BY <2>1, <2>2, RecordTypes
<1>2. \A i \in 1..N : log[i].off + log[i].dur + 2 = IF i < N THEN log[i + 1].off ELSE events
  BY <1>1 DEF Unrotated
<1>. HIDE DEF N
<1>3. Far = {}
  <2>. SUFFICES ASSUME Far # {} PROVE FALSE
    OBVIOUS
  <2>1. PICK d \in Far : \A x \in Far : d <= x
    <3>1. Far \subseteq Nat
      BY <1>1
    <3>. HIDE DEF Far
    <3>. QED  BY <3>1, LeastNatural
  <2>2. d \in 0..N - 1 /\ ~(log[N - d].off < events) /\ N - d \in 1..N
    BY <1>1, <2>1
  <2>3. d # 0
    <3>. SUFFICES ASSUME d = 0 PROVE FALSE
      OBVIOUS
    <3>1. N - d = N /\ N \in 1..N
      BY <1>1, <2>2
    <3>2. log[N].off + log[N].dur + 2 = events
      BY <1>2, <3>1
    <3>. QED  BY <1>1, <2>2, <3>1, <3>2
  <2>4. d - 1 \in 0..N - 1 /\ N - (d - 1) = N - d + 1 /\ N - d < N /\ N - d + 1 \in 1..N
    BY <1>1, <2>2, <2>3
  <2>5. log[N - d + 1].off < events
    <3>1. d - 1 \notin Far
      <4>1. ~(d <= d - 1)
        BY <2>2
      <4>. HIDE DEF Far
      <4>. QED  BY <2>1, <4>1
    <3>. QED  BY <2>4, <3>1
  <2>6. log[N - d].off + log[N - d].dur + 2 = log[N - d + 1].off
    BY <1>2, <2>2, <2>4
  <2>7. /\ log[N - d].off \in Nat /\ log[N - d].dur \in Nat /\ log[N - d + 1].off \in Nat
    BY <1>1, <2>2, <2>4
  <2>. QED  BY <1>1, <2>2, <2>5, <2>6, <2>7
<1>4. ASSUME NEW i \in 1..N
      PROVE  log[i].off < events
  <2>1. N - i \in 0..N - 1 /\ N - (N - i) = i
    BY <1>1
  <2>. QED  BY <1>3, <2>1
<1>. QED  BY <1>1, <1>4

(* A file written without a rotation, a clock set back, a change of format
   and a record cut short passes.                                          *)
LEMMA WrittenPasses ==
    ASSUME IInv, Clean, steps = 0, Unrotated
    PROVE  ValidIndex(index)
<1>. DEFINE N == Len(log)
            rec == [i \in 1..Count(index) |-> Unpack(index, i)]
            EndOf(i) == IF i < Count(index) THEN rec[i + 1].off ELSE events
<1>1. /\ N \in Nat /\ DOMAIN log = 1..N /\ Count(index) = N
      /\ Len(index) % Detected(index) = 0
      /\ \A i \in 1..N : Unpack(index, i) = log[i] /\ log[i] \in Record /\ Genuine(log[i])
  BY CleanReads
<1>2. DOMAIN rec = 1..N /\ \A i \in 1..N : rec[i] = log[i]
  <2>. HIDE DEF N
  <2>. QED  BY <1>1
<1>3. /\ events \in Nat
      /\ \A i \in 2..N : log[i - 1].ts <= log[i].ts
      /\ \A i \in 1..N : log[i].start = log[i].ts - 1
  BY <1>1 DEF IInv, TypeOK, TimesInv, StartInv
<1>4. \A i \in 1..N : /\ log[i].off < events
                      /\ log[i].off + log[i].dur + 2 = IF i < N THEN log[i + 1].off ELSE events
  BY <1>1, WithinEvents DEF Unrotated
<1>. HIDE DEF rec, N
<1>5. \A i \in 1..N : log[i].ts \in Nat /\ log[i].off \in Nat /\ log[i].dur \in Nat
  BY <1>1, RecordTypes
<1>6. ASSUME NEW i \in 2..N
      PROVE  rec[i - 1].ts <= rec[i].ts /\ rec[i - 1].off < rec[i].off
  <2>1. i \in 1..N /\ i - 1 \in 1..N /\ i - 1 < N /\ i - 1 + 1 = i
    BY <1>1
  <2>2. log[i - 1].off + log[i - 1].dur + 2 = log[i].off
    BY <1>4, <2>1
  <2>3. log[i - 1].ts <= log[i].ts
    BY <1>3
  <2>4. log[i - 1].off \in Nat /\ log[i - 1].dur \in Nat /\ log[i].off \in Nat
    BY <1>5, <2>1
  <2>5. rec[i - 1] = log[i - 1] /\ rec[i] = log[i]
    BY <1>2, <2>1
  <2>. QED  BY <2>2, <2>3, <2>4, <2>5
<1>7. ASSUME NEW i \in 1..N
      PROVE  /\ rec[i].off < events /\ rec[i].start <= rec[i].ts
             /\ rec[i].ts + rec[i].dur <= rec[i].start + EndOf(i) - rec[i].off
  <2>1. EndOf(i) = log[i].off + log[i].dur + 2
    <3>1. CASE i < N
      <4>1. i + 1 \in 1..N
        BY <1>1, <3>1
      <4>. QED  BY <1>1, <1>2, <1>4, <3>1, <4>1
    <3>2. CASE ~(i < N)
      BY <1>1, <1>4, <3>2
    <3>. QED  BY <3>1, <3>2
  <2>. HIDE DEF EndOf
  <2>2. rec[i] = log[i] /\ log[i].start = log[i].ts - 1 /\ log[i].off < events
    BY <1>2, <1>3, <1>4
  <2>3. log[i].ts \in Nat /\ log[i].off \in Nat /\ log[i].dur \in Nat
    BY <1>5
  <2>. QED  BY <2>1, <2>2, <2>3
<1>8. \A i \in DOMAIN rec : Genuine(rec[i])
  BY <1>1, <1>2
<1>. QED  BY <1>1, <1>2, <1>6, <1>7, <1>8 DEF ValidIndex, rec

(* What the validator passes is listed as it was recorded.                 *)
LEMMA PassedIsListed ==
    ASSUME IInv, ValidIndex(index), NEW page, page = Recent(index)
    PROVE  /\ \A i \in DOMAIN page : Genuine(page[i])
           /\ \A i \in 2..Len(page) :
                 /\ page[i].ts <= page[i - 1].ts
                 /\ page[i].off + page[i].dur + 1 <= page[i - 1].off
<1>. DEFINE size == Detected(index)
            C == Count(index)
            rec == [i \in 1..C |-> Unpack(index, i)]
            n == Min({PageLimit, C})
            last == [i \in 1..n |-> Unpack(index, C - n + i)]
<1>1. size \in Nat \ {0} /\ index \in Seq(Cell) /\ Len(index) \in Nat
  BY DetectedSize DEF IInv, TypeOK
<1>2. C \in Nat /\ C * size <= Len(index)
  <2>. HIDE DEF size
  <2>1. C = Len(index) \div size
    BY DEF Count, size
  <2>2. C \in Nat /\ Len(index) % size \in 0..size - 1 /\ Len(index) = size * C + (Len(index) % size)
    BY <1>1, <2>1, DivBounds
  <2>. HIDE DEF C
  <2>3. size * C = C * size /\ size * C \in Nat
    BY <1>1, <2>2
  <2>. QED  BY <1>1, <2>2, <2>3
<1>. HIDE DEF C
<1>3. n \in Nat /\ n <= C
  <2>1. n \in {PageLimit, C} /\ n <= C
    <3>1. PageLimit \in Int /\ C \in Int
      BY <1>2, PagesAssumption
    <3>. HIDE DEF rec, last, size
    <3>. QED  BY <3>1, MinOfTwo
  <2>. HIDE DEF n
  <2>. QED  BY <1>2, <2>1, PagesAssumption
<1>. HIDE DEF n
<1>4. Len(page) = n /\ DOMAIN page = 1..n /\ \A i \in 1..n : page[i] = Unpack(index, C - i + 1)
  <2>1. page = Reverse(last)
    BY DEF Recent, n, C
  <2>2. Len(last) = n /\ \A j \in 1..n : last[j] = Unpack(index, C - n + j)
    BY <1>3
  <2>. HIDE DEF last
  <2>3. page = [i \in 1..n |-> last[n - i + 1]]
    BY <2>1, <2>2 DEF Reverse
  <2>4. ASSUME NEW i \in 1..n
        PROVE  page[i] = Unpack(index, C - i + 1)
    <3>1. n - i + 1 \in 1..n /\ C - n + (n - i + 1) = C - i + 1
      BY <1>2, <1>3
    <3>. QED  BY <2>2, <2>3, <3>1
  <2>. QED  BY <1>3, <2>3, <2>4
<1>5. CASE index = <<>>
  <2>1. Len(index) = 0
    BY <1>5
  <2>2. C = 0
    <3>. HIDE DEF size
    <3>1. C > 0 => C * size > 0
      BY <1>1, <1>2
    <3>. QED  BY <1>1, <1>2, <2>1, <3>1
  <2>3. n = 0
    BY <1>3, <2>2
  <2>. QED  BY <1>4, <2>3
<1>6. CASE index # <<>>
  <2>. DEFINE EndOf(i) == IF i < C THEN rec[i + 1].off ELSE events
  <2>1. /\ \A i \in DOMAIN rec : Genuine(rec[i])
        /\ \A i \in 2..C : rec[i - 1].ts <= rec[i].ts /\ rec[i - 1].off < rec[i].off
        /\ \A i \in DOMAIN rec : rec[i].ts + rec[i].dur <= rec[i].start + EndOf(i) - rec[i].off
    BY <1>6 DEF ValidIndex, C
  <2>2. DOMAIN rec = 1..C /\ \A i \in 1..C : rec[i] = Unpack(index, i)
    OBVIOUS
  <2>. HIDE DEF rec
  <2>3. ASSUME NEW i \in 1..C
        PROVE  rec[i] \in Record /\ rec[i].start = rec[i].ts - 1
    <3>. DEFINE x == (i - 1) * size + 1
    <3>1. x \in DOMAIN index
      <4>. HIDE DEF size
      <4>1. 1 \in 1..size
        BY <1>1
      <4>2. x \in 1..C * size
        BY <1>1, <1>2, <4>1, PlaceIn
      <4>3. C * size \in Nat
        BY <1>1, <1>2
      <4>. HIDE DEF x
      <4>. QED  BY <1>1, <1>2, <4>2, <4>3
    <3>. HIDE DEF x
    <3>2. index[x].e \in DOMAIN log
      BY <3>1 DEF IInv, CellInv
    <3>3. Unpack(index, i) = log[index[x].e] \/ Unpack(index, i) = Garbage
      BY DEF Unpack, x
    <3>4. rec[i] = log[index[x].e]
      BY <2>1, <2>2, <3>3 DEF Genuine
    <3>5. log \in Seq(Record) /\ StartInv
      BY DEF IInv, TypeOK
    <3>. QED  BY <3>2, <3>4, <3>5 DEF StartInv
  <2>4. \A i \in 1..C : rec[i].ts \in Nat /\ rec[i].dur \in Nat /\ rec[i].off \in Nat /\ rec[i].start = rec[i].ts - 1
    BY <2>3, RecordTypes
  <2>5. \A i \in 1..n : C - i + 1 \in 1..C /\ page[i] = rec[C - i + 1]
    <3>. TAKE i \in 1..n
    <3>1. C - i + 1 \in 1..C
      BY <1>2, <1>3
    <3>. QED  BY <1>4, <2>2, <3>1
  <2>6. ASSUME NEW i \in 2..n
        PROVE  /\ page[i].ts <= page[i - 1].ts
               /\ page[i].off + page[i].dur + 1 <= page[i - 1].off
    <3>. DEFINE a == C - i + 1
    <3>1. i \in 1..n /\ i - 1 \in 1..n /\ C - (i - 1) + 1 = a + 1
      BY <1>2, <1>3
    <3>2. a \in 1..C /\ a + 1 \in 1..C /\ page[i] = rec[a] /\ page[i - 1] = rec[a + 1]
      BY <2>5, <3>1
    <3>. HIDE DEF a
    <3>3. a < C /\ a + 1 \in 2..C /\ a + 1 - 1 = a
      BY <1>2, <3>2
    <3>4. rec[a].ts <= rec[a + 1].ts
      <4>. DEFINE b == a + 1
      <4>1. b \in 2..C /\ b - 1 = a
        BY <3>2, <3>3
      <4>. HIDE DEF b, EndOf
      <4>2. rec[b - 1].ts <= rec[b].ts
        BY <2>1, <4>1
      <4>. QED  BY <4>1, <4>2 DEF b
    <3>5. rec[a].ts + rec[a].dur <= rec[a].start + rec[a + 1].off - rec[a].off
      BY <2>1, <2>2, <3>2, <3>3
    <3>6. rec[a].off + rec[a].dur + 1 <= rec[a + 1].off
      BY <2>4, <3>2, <3>5
    <3>. QED  BY <3>2, <3>4, <3>6
  <2>7. \A i \in 1..n : Genuine(page[i])
    BY <2>1, <2>2, <2>5
  <2>. QED  BY <1>4, <2>6, <2>7
<1>. QED  BY <1>5, <1>6

(* The validator passes what a datalogger wrote without a rotation, a clock
   set back, a record cut short or a change of format; and what it passes is
   listed as recorded, each event with a waveform of its own
   (validate_event_index, get_recent_events).                              *)
THEOREM ValidatorIsRight == Spec => []ValidatorAgrees
<1>1. ASSUME IInv PROVE ValidatorAgrees
  BY <1>1, WrittenPasses, PassedIsListed DEF ValidatorAgrees
<1>2. IInv => ValidatorAgrees
  BY <1>1
<1>. QED  BY <1>2, InvAlways, PTL
=============================================================================
