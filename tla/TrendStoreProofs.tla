-------------------------- MODULE TrendStoreProofs --------------------------
(***************************************************************************)
(* What is proved of the voltage trend on disk.  The inductive invariant   *)
(* says how the cells of the files and of the stdio buffer lie behind one  *)
(* another in time, and which rows a search that is under way may have:    *)
(* from it follows that a search by time returns what was on disk.  The    *)
(* operators of TrendFormat are recursive functions over offsets: each is  *)
(* shown to obey its equation because every call is for a later offset.    *)
(***************************************************************************)
EXTENDS TrendStore, FiniteSetTheorems, SequenceTheorems, NaturalsInduction, TLAPS

-----------------------------------------------------------------------------
(* Small facts.                                                            *)

(* Of a set of naturals that is not empty one is the least.                *)
LEMMA LeastNatural ==
    ASSUME NEW T, T \subseteq Nat, T # {}
    PROVE  \E x \in T : \A y \in T : x <= y
<1>. DEFINE Below == {ss \in Nat \X Nat : ss[1] < ss[2]}
<1>1. IsWellFoundedOn(Below, Nat)
  BY NatLessThanWellFounded DEF OpToRel
<1>2. PICK x \in T : \A y \in T : <<y, x>> \notin Below
  BY <1>1, WFMin
<1>3. \A y \in T : ~(y < x)
  BY <1>2
<1>. QED  BY <1>3

(* ... and of a bounded one, one is the greatest.                          *)
LEMMA GreatestNatural ==
    ASSUME NEW L \in Nat, NEW T, T \subseteq 0..L, T # {}
    PROVE  \E x \in T : \A y \in T : y <= x
<1>. DEFINE U == {L - x : x \in T}
<1>1. U \subseteq Nat /\ U # {}
  <2>1. \A x \in T : x \in Nat /\ L - x \in Nat
    <3>. SUFFICES ASSUME NEW x \in T PROVE x \in Nat /\ L - x \in Nat
      OBVIOUS
    <3>1. x \in 0..L
      OBVIOUS
    <3>. QED  BY <3>1
  <2>. QED  BY <2>1
<1>2. PICK u \in U : \A v \in U : u <= v
  <2>. HIDE DEF U
  <2>. QED  BY <1>1, LeastNatural
<1>3. PICK x \in T : u = L - x
  OBVIOUS
<1>4. ASSUME NEW y \in T PROVE y <= x
  <2>1. L - y \in U
    OBVIOUS
  <2>2. L - x <= L - y /\ x \in 0..L /\ y \in 0..L
    BY <1>2, <1>3, <2>1
  <2>. QED  BY <2>2
<1>5. \A y \in T : y <= x
  <2>. HIDE DEF U
  <2>. QED  BY <1>4
<1>. QED  BY <1>5

(* Of a set of things with a rank one has the least.                       *)
LEMMA LeastRank ==
    ASSUME NEW T, T # {}, NEW rank, \A x \in T : rank[x] \in Nat
    PROVE  \E x \in T : \A y \in T : rank[x] <= rank[y]
<1>. DEFINE U == {rank[x] : x \in T}
<1>1. U \subseteq Nat /\ U # {}
  OBVIOUS
<1>2. PICK u \in U : \A v \in U : u <= v
  <2>. HIDE DEF U
  <2>. QED  BY <1>1, LeastNatural
<1>3. PICK x \in T : u = rank[x]
  OBVIOUS
<1>4. \A y \in T : rank[y] \in U
  OBVIOUS
<1>. HIDE DEF U
<1>. QED  BY <1>2, <1>3, <1>4

LEMMA MinOf ==
    ASSUME NEW T, T \subseteq Nat, T # {}
    PROVE  Min(T) \in T /\ \A y \in T : Min(T) <= y
<1>1. \E x \in T : \A y \in T : x <= y
  BY LeastNatural
<1>. QED  BY <1>1 DEF Min

LEMMA MinOfTwo ==
    ASSUME NEW a \in Int, NEW b \in Int
    PROVE  Min({a, b}) = IF a <= b THEN a ELSE b
<1>1. \E x \in {a, b} : \A y \in {a, b} : x <= y
  OBVIOUS
<1>2. Min({a, b}) \in {a, b} /\ \A y \in {a, b} : Min({a, b}) <= y
  BY <1>1 DEF Min
<1>. QED  BY <1>2

LEMMA MaxOfTwo ==
    ASSUME NEW a \in Int, NEW b \in Int
    PROVE  Max({a, b}) = IF a >= b THEN a ELSE b
<1>1. \E x \in {a, b} : \A y \in {a, b} : x >= y
  OBVIOUS
<1>2. Max({a, b}) \in {a, b} /\ \A y \in {a, b} : Max({a, b}) >= y
  BY <1>1 DEF Max
<1>. QED  BY <1>2

(* body says what the value at x is, from values at places of smaller rank. *)
Descends(D, S, N, rank, body) ==
    /\ rank \in [D -> 0..N]
    /\ body \in [D \X [D -> S] -> S]
    /\ \A x \in D : \A g, h \in [D -> S] :
          (\A y \in D : rank[y] < rank[x] => g[y] = h[y]) => body[<<x, g>>] = body[<<x, h>>]

Solution(D, S, body, g) ==
    /\ g \in [D -> S]
    /\ \A x \in D : g[x] = body[<<x, g>>]

(* Then there is a function with these values.                             *)
LEMMA Recursion ==
    ASSUME NEW D, NEW S, NEW some \in S, NEW N \in Nat, NEW rank, NEW body,
           Descends(D, S, N, rank, body)
    PROVE  \E g : Solution(D, S, body, g)
<1>. USE DEF Descends
<1>. DEFINE Solves(n, g) == \A x \in D : rank[x] < n => g[x] = body[<<x, g>>]
            Lacks == {n \in Nat : ~\E g \in [D -> S] : Solves(n, g)}
<1>0. \A x \in D : rank[x] \in 0..N
  OBVIOUS
<1>1. Lacks = {}
  <2>. SUFFICES ASSUME Lacks # {} PROVE FALSE
    OBVIOUS
  <2>1. PICK n \in Lacks : \A m \in Lacks : n <= m
    <3>1. Lacks \subseteq Nat
      OBVIOUS
    <3>. HIDE DEF Lacks
    <3>. QED  BY <3>1, LeastNatural
  <2>2. n \in Nat /\ \A g \in [D -> S] : ~Solves(n, g)
    <3>. HIDE DEF Solves
    <3>. QED  BY <2>1
  <2>3. n # 0
    <3>1. Solves(0, [x \in D |-> some])
      BY <1>0
    <3>2. [x \in D |-> some] \in [D -> S]
      OBVIOUS
    <3>. HIDE DEF Solves
    <3>. QED  BY <2>2, <3>1, <3>2
  <2>4. n - 1 \in Nat /\ n - 1 \notin Lacks
    <3>1. n - 1 \in Nat /\ ~(n <= n - 1)
      BY <2>2, <2>3
    <3>. HIDE DEF Lacks
    <3>. QED  BY <2>1, <3>1
  <2>5. PICK g \in [D -> S] : Solves(n - 1, g)
    <3>. HIDE DEF Solves
    <3>. QED  BY <2>4
  <2>. DEFINE h == [x \in D |-> IF rank[x] < n - 1 THEN g[x] ELSE body[<<x, g>>]]
  <2>6. h \in [D -> S]
    OBVIOUS
  <2>7. ASSUME NEW x \in D, rank[x] < n
        PROVE  h[x] = body[<<x, h>>]
    <3>1. \A y \in D : rank[y] < rank[x] => g[y] = h[y]
      <4>. TAKE y \in D
      <4>. HAVE rank[y] < rank[x]
      <4>1. rank[y] < n - 1
        BY <1>0, <2>2, <2>7
      <4>. QED  BY <4>1
    <3>2. body[<<x, g>>] = body[<<x, h>>]
      <4>. HIDE DEF h
      <4>. QED  BY <2>6, <3>1
    <3>3. CASE rank[x] < n - 1
      <4>1. h[x] = g[x] /\ g[x] = body[<<x, g>>]
        BY <2>5, <3>3
      <4>. QED  BY <3>2, <4>1
    <3>4. CASE ~(rank[x] < n - 1)
      <4>1. h[x] = body[<<x, g>>]
        BY <3>4
      <4>. QED  BY <3>2, <4>1
    <3>. QED  BY <3>3, <3>4
  <2>8. Solves(n, h)
    <3>. HIDE DEF h
    <3>. QED  BY <2>7
  <2>. HIDE DEF Solves, h
  <2>. QED  BY <2>2, <2>6, <2>8
<1>2. PICK g \in [D -> S] : Solves(N + 1, g)
  <2>1. N + 1 \in Nat /\ N + 1 \notin Lacks
    <3>. HIDE DEF Lacks
    <3>. QED  BY <1>1
  <2>. HIDE DEF Solves
  <2>. QED  BY <2>1
<1>3. \A x \in D : rank[x] < N + 1
  BY <1>0
<1>. QED  BY <1>2, <1>3 DEF Solution

LEMMA IsSequence ==
    ASSUME NEW n \in Nat, NEW S, NEW s \in [1..n -> S]
    PROVE  s \in Seq(S) /\ Len(s) = n /\ DOMAIN s = 1..n
<1>1. s \in Seq(S)
  BY SeqDef
<1>2. DOMAIN s = 1..n
  OBVIOUS
<1>3. Len(s) \in Nat /\ DOMAIN s = 1..Len(s)
  BY <1>1, LenProperties
<1>. QED  BY <1>1, <1>2, <1>3

-----------------------------------------------------------------------------
(* What the cells of a file have to do with one another.                   *)

Row == [t : Int, cell : Cell]

(* The chunk of a ends before that of b begins; a filler is of no chunk.   *)
Earlier(a, b) == a.n = 0 \/ b.n = 0 \/ a.ts + a.n <= b.ts
Before(a, b) == Earlier(a, b) \/ (a.ts = b.ts /\ a.n = b.n /\ a.k < b.k)
Good(c) == c = Zero \/ (c.ts > 0 /\ c.n > 0 /\ c.k \in 1..Hdr + c.n)

(* Cell i is not the first of its chunk, and the one before it is there.   *)
Follows(f, i) == i > 1 /\ f[i - 1] = [f[i] EXCEPT !.k = f[i].k - 1]

FileInv(f) ==
    /\ f \in Seq(Cell)
    /\ \A i \in DOMAIN f : Good(f[i])
    /\ \A i, j \in DOMAIN f : i < j => Before(f[i], f[j])
    /\ \A i \in DOMAIN f : f[i].k > 1 => Follows(f, i)

Apart(f, g) == \A i \in DOMAIN f, j \in DOMAIN g : Earlier(f[i], g[j])
Over(f, t) == \A i \in DOMAIN f : f[i].ts + f[i].n <= t
Beyond(f, t) == \A i \in DOMAIN f : f[i].n > 0 => t < f[i].ts

LEMMA CellIs ==
    ASSUME NEW f \in Seq(Cell), NEW i \in 1..Len(f)
    PROVE  /\ i \in DOMAIN f /\ f[i] \in Cell
           /\ f[i].ts \in Nat /\ f[i].n \in Nat /\ f[i].k \in Nat
<1>. DOMAIN f = 1..Len(f) /\ f[i] \in Cell
  OBVIOUS
<1>. QED  BY DEF Cell

(* What a header at p says of the cells there.                             *)
LEMMA HeadIs ==
    ASSUME NEW f \in Seq(Cell), NEW p \in Nat \ {0}, ValidHeader(f, p)
    PROVE  /\ p \in 1..Len(f) /\ p \in DOMAIN f /\ p + Hdr - 1 <= Len(f)
           /\ f[p].ts \in Nat /\ f[p].n \in Nat /\ f[p].n > 0 /\ f[p].k = 1
           /\ \A i \in 0..Hdr - 1 :
                 f[p + i].ts = f[p].ts /\ f[p + i].n = f[p].n /\ f[p + i].k = i + 1
           /\ Size(f, p) \in Nat /\ Size(f, p) = Hdr + f[p].n /\ Size(f, p) > Hdr
           /\ LastTime(f, p) \in Nat
<1>. Hdr \in Nat /\ Hdr > 0 /\ Len(f) \in Nat
  BY FormatAssumption
<1>1. p \in 1..Len(f) /\ p + Hdr - 1 <= Len(f) /\ f[p].n > 0
  BY DEF ValidHeader
<1>2. p \in DOMAIN f /\ f[p] \in Cell /\ f[p].ts \in Nat /\ f[p].n \in Nat /\ f[p].k \in Nat
  BY <1>1, CellIs
<1>3. ASSUME NEW i \in 0..Hdr - 1
      PROVE  f[p + i].ts = f[p].ts /\ f[p + i].n = f[p].n /\ f[p + i].k = i + 1
  <2>1. f[p + i] = [f[p] EXCEPT !.k = i + 1]
    BY DEF ValidHeader
  <2>. QED  BY <1>2, <2>1 DEF Cell
<1>4. f[p].k = 1
  <2>1. 0 \in 0..Hdr - 1 /\ p + 0 = p
    OBVIOUS
  <2>2. f[p + 0].k = 0 + 1
    BY <1>3, <2>1
  <2>. QED  BY <2>1, <2>2
<1>5. Size(f, p) = Hdr + f[p].n /\ LastTime(f, p) = f[p].ts + f[p].n - 1
  BY DEF Size, LastTime
<1>6. Size(f, p) \in Nat /\ Size(f, p) > Hdr /\ LastTime(f, p) \in Nat
  BY SMTT(20), <1>1, <1>2, <1>5
<1>. QED  BY <1>1, <1>2, <1>3, <1>4, <1>5, <1>6

LEMMA CompleteIs ==
    ASSUME NEW f \in Seq(Cell), NEW p \in Nat \ {0}, Complete(f, p)
    PROVE  /\ ValidHeader(f, p) /\ p + Size(f, p) - 1 <= Len(f)
           /\ \A j \in 0..Size(f, p) - 1 : p + j \in 1..Len(f)
           /\ p + Size(f, p) \in Nat \ {0}
<1>1. ValidHeader(f, p) /\ p + Size(f, p) - 1 <= Len(f)
  BY DEF Complete
<1>2. Size(f, p) \in Nat /\ Len(f) \in Nat
  BY <1>1, HeadIs
<1>. QED  BY <1>1, <1>2

(* The rows of the chunk at p.                                             *)
LEMMA RowsAre ==
    ASSUME NEW f \in Seq(Cell), NEW p \in Nat \ {0}, Complete(f, p)
    PROVE  /\ Rows(f, p) \in Seq(Row) /\ Len(Rows(f, p)) = f[p].n
           /\ DOMAIN Rows(f, p) = 1..f[p].n
           /\ \A i \in 1..f[p].n :
                 /\ Rows(f, p)[i].t = f[p].ts + i - 1
                 /\ Rows(f, p)[i].cell = f[p + Hdr + i - 1]
                 /\ p + Hdr + i - 1 \in 1..Len(f)
<1>1. /\ f[p].ts \in Nat /\ f[p].n \in Nat /\ Hdr \in Nat
      /\ p + Hdr + f[p].n - 1 <= Len(f) /\ Len(f) \in Nat
  BY SMTT(20), CompleteIs, HeadIs, FormatAssumption
<1>2. ASSUME NEW i \in 1..f[p].n
      PROVE  /\ p + Hdr + i - 1 \in 1..Len(f)
             /\ [t |-> f[p].ts + i - 1, cell |-> f[p + Hdr + i - 1]] \in Row
  <2>1. p + Hdr + i - 1 \in 1..Len(f)
    BY <1>1
  <2>2. f[p + Hdr + i - 1] \in Cell /\ f[p].ts + i - 1 \in Int
    BY SMTT(20), <1>1, <2>1, CellIs
  <2>. QED  BY <2>1, <2>2 DEF Row
<1>3. Rows(f, p) = [i \in 1..f[p].n |-> [t |-> f[p].ts + i - 1, cell |-> f[p + Hdr + i - 1]]]
  BY DEF Rows
<1>4. Rows(f, p) \in [1..f[p].n -> Row]
  BY <1>2, <1>3
<1>5. Rows(f, p) \in Seq(Row) /\ Len(Rows(f, p)) = f[p].n /\ DOMAIN Rows(f, p) = 1..f[p].n
  <2>. DEFINE n == f[p].n
              s == Rows(f, p)
  <2>1. n \in Nat /\ s \in [1..n -> Row]
    BY <1>1, <1>4
  <2>. HIDE DEF n, s
  <2>2. s \in Seq(Row) /\ Len(s) = n /\ DOMAIN s = 1..n
    BY <2>1, IsSequence
  <2>. QED  BY <2>2 DEF n, s
<1>6. \A i \in 1..f[p].n : Rows(f, p)[i].t = f[p].ts + i - 1 /\ Rows(f, p)[i].cell = f[p + Hdr + i - 1]
  BY <1>3
<1>. QED  BY <1>2, <1>5, <1>6

(* The chunks of a file are of later and later times.                      *)
LEMMA HeadsRise ==
    ASSUME NEW f, FileInv(f), NEW p \in Nat \ {0}, NEW q \in Nat \ {0},
           ValidHeader(f, p), ValidHeader(f, q), p < q
    PROVE  f[p].ts + f[p].n <= f[q].ts
<1>1. /\ p \in DOMAIN f /\ q \in DOMAIN f
      /\ f[p].k = 1 /\ f[q].k = 1 /\ f[p].n > 0 /\ f[q].n > 0
      /\ f[p].n \in Nat /\ f[q].n \in Nat /\ f[p].ts \in Nat /\ f[q].ts \in Nat
  BY HeadIs DEF FileInv
<1>2. Before(f[p], f[q])
  BY <1>1 DEF FileInv
<1>. QED  BY <1>1, <1>2 DEF Before, Earlier

(* A whole chunk is its header and its intervals, and nothing else.        *)
LEMMA WholeCells ==
    ASSUME NEW f, FileInv(f), NEW p \in Whole(f)
    PROVE  /\ p \in Nat \ {0} /\ Complete(f, p) /\ ValidHeader(f, p)
           /\ \A j \in 0..Size(f, p) - 1 :
                 f[p + j].ts = f[p].ts /\ f[p + j].n = f[p].n /\ f[p + j].k = j + 1
           /\ \A i \in 1..f[p].n : Genuine(Rows(f, p)[i])
<1>. f \in Seq(Cell) /\ Hdr \in Nat /\ Hdr > 0
  BY FormatAssumption DEF FileInv
<1>1. p \in DOMAIN f /\ Complete(f, p) /\ \A r \in Range(Rows(f, p)) : Genuine(r)
  BY DEF Whole
<1>2. p \in 1..Len(f) /\ p \in Nat \ {0}
  BY <1>1
<1>3. /\ f[p].ts \in Nat /\ f[p].n \in Nat /\ f[p].n > 0 /\ f[p].k = 1
      /\ Size(f, p) = Hdr + f[p].n /\ p + Size(f, p) - 1 <= Len(f) /\ ValidHeader(f, p)
  BY <1>1, <1>2, CompleteIs, HeadIs
<1>4. \A i \in 1..f[p].n : Genuine(Rows(f, p)[i])
  <2>. TAKE i \in 1..f[p].n
  <2>1. Rows(f, p)[i] \in Range(Rows(f, p))
    BY <1>1, <1>2, RowsAre DEF Range
  <2>. QED  BY <1>1, <2>1
<1>5. ASSUME NEW j \in 0..Size(f, p) - 1
      PROVE  f[p + j].ts = f[p].ts /\ f[p + j].n = f[p].n /\ f[p + j].k = j + 1
  <2>1. CASE j <= Hdr - 1
    <3>1. j \in 0..Hdr - 1
      BY <2>1
    <3>. QED  BY <1>2, <1>3, <3>1, HeadIs
  <2>2. CASE j >= Hdr
    <3>1. j - Hdr + 1 \in 1..f[p].n /\ p + Hdr + (j - Hdr + 1) - 1 = p + j /\ p + j \in 1..Len(f)
      <4>1. j \in Int /\ j <= Hdr + f[p].n - 1 /\ Len(f) \in Nat /\ p + (Hdr + f[p].n) - 1 <= Len(f)
        BY <1>3
      <4>2. j - Hdr + 1 \in 1..f[p].n
        BY <1>3, <2>2, <4>1
      <4>3. p + j \in 1..Len(f)
        BY <1>2, <1>3, <2>2, <4>1
      <4>. QED  BY <1>2, <4>1, <4>2, <4>3
    <3>2. /\ Rows(f, p)[j - Hdr + 1].t = f[p].ts + (j - Hdr + 1) - 1
          /\ Rows(f, p)[j - Hdr + 1].cell = f[p + j]
      <4>. DEFINE i == j - Hdr + 1
      <4>1. i \in 1..f[p].n /\ p + Hdr + i - 1 = p + j
        BY <3>1
      <4>. HIDE DEF i
      <4>2. Rows(f, p)[i].t = f[p].ts + i - 1 /\ Rows(f, p)[i].cell = f[p + j]
        <5>1. Rows(f, p)[i].t = f[p].ts + i - 1 /\ Rows(f, p)[i].cell = f[p + Hdr + i - 1]
          BY <1>1, <1>2, <4>1, RowsAre
        <5>. QED  BY <4>1, <5>1
      <4>. QED  BY <4>2 DEF i
    <3>3. f[p + j].k > Hdr /\ f[p + j].ts + f[p + j].k - Hdr - 1 = f[p].ts + (j - Hdr + 1) - 1
      BY <1>4, <3>1, <3>2 DEF Genuine
    <3>4. /\ f[p + j].ts \in Nat /\ f[p + j].n \in Nat /\ f[p + j].k \in Nat
          /\ p \in DOMAIN f /\ p + j \in DOMAIN f
      BY <1>1, <3>1, CellIs
    <3>5. Before(f[p], f[p + j]) /\ Good(f[p + j])
      <4>1. p < p + j
        BY <1>2, <2>2
      <4>. QED  BY <3>4, <4>1 DEF FileInv
    <3>6. f[p + j].n > 0 /\ f[p + j].ts >= 0
      <4>1. f[p + j] # Zero
        BY <3>3 DEF Zero
      <4>. QED  BY <3>4, <3>5, <4>1 DEF Good
    <3>7. ~Earlier(f[p], f[p + j])
      <4>1. f[p + j].ts < f[p].ts + f[p].n
        <5>1. f[p + j].ts <= f[p].ts + (j - Hdr)
          BY SMTT(20), <1>3, <3>3, <3>4
        <5>2. j - Hdr < f[p].n
          BY <1>3
        <5>. QED  BY SMTT(20), <1>3, <3>4, <5>1, <5>2
      <4>2. ~(f[p].ts + f[p].n <= f[p + j].ts)
        BY <1>3, <3>4, <4>1
      <4>. QED  BY <1>3, <3>6, <4>2 DEF Earlier
    <3>8. f[p].ts = f[p + j].ts /\ f[p].n = f[p + j].n
      BY <3>5, <3>7 DEF Before
    <3>9. f[p + j].k = j + 1
      <4>1. \A a, k, m \in Int : a + k - Hdr - 1 = a + (m - Hdr + 1) - 1 => k = m + 1
        OBVIOUS
      <4>2. j \in Int /\ f[p].ts \in Int /\ f[p + j].k \in Int
        BY <1>3, <3>4
      <4>3. f[p].ts + f[p + j].k - Hdr - 1 = f[p].ts + (j - Hdr + 1) - 1
        BY <3>3, <3>8
      <4>. QED  BY <4>1, <4>2, <4>3
    <3>. QED  BY <3>8, <3>9
  <2>. QED  BY <2>1, <2>2
<1>. QED  BY <1>1, <1>2, <1>3, <1>4, <1>5

(* Cells that are those of a chunk are a whole chunk.                      *)
LEMMA WholeIs ==
    ASSUME NEW f, FileInv(f), NEW p \in Nat \ {0}, Complete(f, p),
           \A j \in 0..Size(f, p) - 1 :
              f[p + j].ts = f[p].ts /\ f[p + j].n = f[p].n /\ f[p + j].k = j + 1
    PROVE  p \in Whole(f)
<1>. f \in Seq(Cell) /\ Hdr \in Nat /\ Hdr > 0
  BY FormatAssumption DEF FileInv
<1>1. /\ p \in DOMAIN f /\ f[p].ts \in Nat /\ f[p].n \in Nat
      /\ Size(f, p) = Hdr + f[p].n
  BY CompleteIs, HeadIs
<1>2. ASSUME NEW i \in 1..f[p].n
      PROVE  Genuine(Rows(f, p)[i])
  <2>1. Rows(f, p)[i].t = f[p].ts + i - 1 /\ Rows(f, p)[i].cell = f[p + Hdr + i - 1]
    BY RowsAre
  <2>2. Hdr + i - 1 \in 0..Size(f, p) - 1 /\ p + (Hdr + i - 1) = p + Hdr + i - 1
    BY <1>1
  <2>3. f[p + Hdr + i - 1].ts = f[p].ts /\ f[p + Hdr + i - 1].k = Hdr + i
    BY <1>1, <2>2
  <2>. QED  BY <1>1, <2>1, <2>3 DEF Genuine
<1>3. \A r \in Range(Rows(f, p)) : Genuine(r)
  <2>. TAKE r \in Range(Rows(f, p))
  <2>1. PICK i \in DOMAIN Rows(f, p) : r = Rows(f, p)[i]
    BY DEF Range
  <2>2. i \in 1..f[p].n
    BY RowsAre
  <2>. QED  BY <1>2, <2>1, <2>2
<1>. QED  BY <1>1, <1>3 DEF Whole

(* No header stands inside a whole chunk ...                               *)
LEMMA WholeApart ==
    ASSUME NEW f, FileInv(f), NEW p \in Whole(f), NEW q \in Nat \ {0}, ValidHeader(f, q), p < q
    PROVE  p + Size(f, p) <= q
<1>. SUFFICES ASSUME q < p + Size(f, p) PROVE FALSE
  <2>1. p + Size(f, p) \in Int
    BY WholeCells, HeadIs DEF FileInv
  <2>. QED  BY <2>1
<1>1. p \in Nat \ {0} /\ Size(f, p) \in Nat
  BY WholeCells, HeadIs DEF FileInv
<1>2. q - p \in 0..Size(f, p) - 1 /\ p + (q - p) = q /\ q - p > 0
  BY <1>1
<1>3. f[q].k = q - p + 1
  BY <1>2, WholeCells
<1>4. f[q].k = 1
  BY HeadIs DEF FileInv
<1>. QED  BY <1>2, <1>3, <1>4

(* ... so that none claims the cells of a chunk that no torn one claims.   *)
LEMMA Clear ==
    ASSUME NEW f, FileInv(f), NEW p \in Unclaimed(f, Torn(f)),
           NEW q \in Nat \ {0}, Complete(f, q), q < p
    PROVE  q + Size(f, q) <= p
<1>1. p \in Whole(f) /\ \A h \in Torn(f) : h < p => h + Size(f, h) <= p
  BY DEF Unclaimed
<1>2. q \in DOMAIN f
  BY CompleteIs, HeadIs DEF FileInv
<1>3. CASE q \in Whole(f)
  <2>1. p \in Nat \ {0} /\ ValidHeader(f, p)
    BY <1>1, WholeCells
  <2>. QED  BY <1>3, <2>1, WholeApart
<1>4. CASE q \notin Whole(f)
  BY <1>1, <1>2, <1>4 DEF Torn
<1>. QED  BY <1>3, <1>4

-----------------------------------------------------------------------------
(* The n-th of a finite set of numbers, and the lists made with it.        *)

(* How many of the numbers P come up to each of them counts them.          *)
LEMMA RanksCount ==
    ASSUME NEW P \in SUBSET Int, IsFiniteSet(P), NEW R,
           R = [i \in P |-> Cardinality({k \in P : k <= i})]
    PROVE  /\ Cardinality(P) \in Nat
           /\ \A i \in P : R[i] \in 1..Cardinality(P)
           /\ \A i, j \in P : i < j => R[i] < R[j]
           /\ \A m \in 1..Cardinality(P) : \E i \in P : R[i] = m
<1>. DEFINE UpTo(i) == {k \in P : k <= i}
<1>1. Cardinality(P) \in Nat
  BY FS_CardinalityType
<1>2. ASSUME NEW i \in P
      PROVE  /\ IsFiniteSet(UpTo(i)) /\ Cardinality(UpTo(i)) \in 1..Cardinality(P)
  <2>1. UpTo(i) \in SUBSET P /\ i \in UpTo(i)
    OBVIOUS
  <2>2. IsFiniteSet(UpTo(i)) /\ Cardinality(UpTo(i)) <= Cardinality(P)
    BY <2>1, FS_Subset
  <2>3. Cardinality(UpTo(i)) \in Nat /\ Cardinality(UpTo(i)) # 0
    BY <2>1, <2>2, FS_CardinalityType, FS_EmptySet
  <2>. QED  BY <1>1, <2>2, <2>3
<1>3. ASSUME NEW i \in P, NEW j \in P, i < j
      PROVE  Cardinality(UpTo(i)) < Cardinality(UpTo(j))
  <2>0. i \in Int /\ j \in Int /\ P \subseteq Int
    OBVIOUS
  <2>1. UpTo(i) \in SUBSET UpTo(j)
    <3>1. \A k \in P : k <= i => k <= j
      BY <1>3, <2>0
    <3>. QED  BY <3>1
  <2>5. j \in UpTo(j) /\ j \notin UpTo(i)
    BY <1>3, <2>0
  <2>2. IsFiniteSet(UpTo(j))
    BY <1>2
  <2>3. /\ Cardinality(UpTo(i)) <= Cardinality(UpTo(j))
        /\ Cardinality(UpTo(i)) # Cardinality(UpTo(j))
    BY <2>1, <2>2, <2>5, FS_Subset
  <2>4. Cardinality(UpTo(i)) \in Nat /\ Cardinality(UpTo(j)) \in Nat
    BY <1>2
  <2>. QED  BY <2>3, <2>4
<1>4. \A i \in P : R[i] = Cardinality(UpTo(i))
  OBVIOUS
<1>5. R \in Injection(P, 1..Cardinality(P))
  <2>1. R \in [P -> 1..Cardinality(P)]
    BY <1>2, <1>4
  <2>2. \A i, j \in P : R[i] = R[j] => i = j
    BY <1>2, <1>3, <1>4
  <2>. QED  BY <2>1, <2>2 DEF Injection, IsInjective
<1>6. R \in Surjection(P, 1..Cardinality(P))
  <2>1. IsFiniteSet(1..Cardinality(P)) /\ Cardinality(1..Cardinality(P)) = Cardinality(P)
    BY <1>1, FS_Interval
  <2>. QED  BY <1>5, <2>1, FS_Injection
<1>. QED  BY <1>1, <1>2, <1>3, <1>4, <1>6 DEF Surjection

(* So there is a first, a second and so on, and these are all of them.     *)
Counts(g, P) ==
    /\ g \in [1..Cardinality(P) -> P]
    /\ \A i, j \in 1..Cardinality(P) : i < j => g[i] < g[j]
    /\ \A p \in P : \E j \in 1..Cardinality(P) : g[j] = p

LEMMA InverseCounts ==
    ASSUME NEW P \in SUBSET Int, NEW N \in Nat, N = Cardinality(P), NEW R, NEW g \in [1..N -> P],
           \A i \in P : R[i] \in 1..N,
           \A i, j \in P : i < j => R[i] < R[j],
           \A j \in 1..N : R[g[j]] = j
    PROVE  Counts(g, P)
<1>1. \A i \in P : i \in Int
  OBVIOUS
<1>2. \A i, j \in P : R[i] < R[j] => i < j
  <2>. SUFFICES ASSUME NEW i \in P, NEW j \in P, R[i] < R[j], ~(i < j) PROVE FALSE
    OBVIOUS
  <2>1. i \in Int /\ j \in Int /\ R[i] \in Int /\ R[j] \in Int
    BY <1>1
  <2>2. CASE i = j
    BY <2>1, <2>2
  <2>3. CASE j < i
    <3>1. R[j] < R[i]
      BY <2>3
    <3>. QED  BY <2>1, <3>1
  <2>. QED  BY <2>1, <2>2, <2>3
<1>3. \A i, j \in P : R[i] = R[j] => i = j
  <2>. SUFFICES ASSUME NEW i \in P, NEW j \in P, R[i] = R[j], i # j PROVE FALSE
    OBVIOUS
  <2>1. i < j \/ j < i
    BY <1>1
  <2>2. R[i] < R[j] \/ R[j] < R[i]
    BY <2>1
  <2>3. R[i] \in Int
    BY <1>1
  <2>. QED  BY <2>2, <2>3
<1>4. \A j \in 1..N : g[j] \in P
  OBVIOUS
<1>5. \A i, j \in 1..N : i < j => g[i] < g[j]
  <2>. SUFFICES ASSUME NEW i \in 1..N, NEW j \in 1..N, i < j PROVE g[i] < g[j]
    OBVIOUS
  <2>1. R[g[i]] = i /\ R[g[j]] = j /\ g[i] \in P /\ g[j] \in P
    OBVIOUS
  <2>2. R[g[i]] < R[g[j]]
    BY <2>1
  <2>. QED  BY <1>2, <2>1, <2>2
<1>6. \A p \in P : g[R[p]] = p
  <2>. TAKE p \in P
  <2>1. R[p] \in 1..N /\ R[g[R[p]]] = R[p] /\ g[R[p]] \in P
    OBVIOUS
  <2>. QED  BY <1>3, <2>1
<1>. QED  BY <1>5, <1>6 DEF Counts

LEMMA NthIs ==
    ASSUME NEW P \in SUBSET Int, IsFiniteSet(P), NEW g,
           g = [j \in 1..Cardinality(P) |->
                   CHOOSE i \in P : Cardinality({k \in P : k <= i}) = j]
    PROVE  Counts(g, P) /\ Cardinality(P) \in Nat
<1>. DEFINE N == Cardinality(P)
            R == [i \in P |-> Cardinality({k \in P : k <= i})]
<1>1. /\ N \in Nat
      /\ \A i \in P : R[i] \in 1..N
      /\ \A i, j \in P : i < j => R[i] < R[j]
      /\ \A m \in 1..N : \E i \in P : R[i] = m
  BY RanksCount
<1>2. \A i \in P : R[i] = Cardinality({k \in P : k <= i})
  OBVIOUS
<1>3. \A j \in 1..N : g[j] \in P /\ R[g[j]] = j
  BY <1>1, <1>2
<1>4. g \in [1..N -> P]
  BY <1>3
<1>. HIDE DEF R
<1>. QED  BY <1>1, <1>3, <1>4, InverseCounts

(* The rows w are those of r with times from s to e.                       *)
Keeps(w, r, s, e) ==
    /\ \A j \in DOMAIN w : \E i \in DOMAIN r : w[j] = r[i] /\ r[i].t \in s..e
    /\ \A i \in DOMAIN r : r[i].t \in s..e => \E j \in DOMAIN w : w[j] = r[i]

LEMMA WithinIs ==
    ASSUME NEW r \in Seq(Row), NEW s, NEW e
    PROVE  Within(r, s, e) \in Seq(Row) /\ Keeps(Within(r, s, e), r, s, e)
<1>. DEFINE P == {i \in DOMAIN r : r[i].t \in s..e}
            N == Cardinality(P)
            g == [j \in 1..N |-> CHOOSE i \in P : Cardinality({k \in P : k <= i}) = j]
            w == Within(r, s, e)
<1>1. P \in SUBSET Int /\ IsFiniteSet(P) /\ DOMAIN r = 1..Len(r)
  <2>1. DOMAIN r = 1..Len(r) /\ Len(r) \in Nat
    OBVIOUS
  <2>2. IsFiniteSet(1..Len(r))
    BY <2>1, FS_Interval
  <2>3. P \subseteq 1..Len(r)
    BY <2>1
  <2>4. IsFiniteSet(P)
    <3>. HIDE DEF P
    <3>. QED  BY <2>2, <2>3, FS_Subset
  <2>. QED  BY <2>1, <2>3, <2>4
<1>2. w = [j \in 1..N |-> r[g[j]]]
  BY DEF Within
<1>3. Counts(g, P) /\ N \in Nat
  <2>1. \A h : h = g => Counts(h, P) /\ N \in Nat
    <3>. HIDE DEF P
    <3>. QED  BY <1>1, NthIs
  <2>. QED  BY <2>1
<1>4. \A i \in P : i \in DOMAIN r /\ r[i] \in Row /\ r[i].t \in s..e
  BY <1>1
<1>5. \A i \in DOMAIN r : r[i].t \in s..e => i \in P
  OBVIOUS
<1>. HIDE DEF P, g, w
<1>6. \A j \in 1..N : g[j] \in P /\ w[j] = r[g[j]]
  BY <1>2, <1>3 DEF Counts
<1>7. w \in Seq(Row) /\ DOMAIN w = 1..N
  <2>1. w \in [1..N -> Row]
    BY <1>2, <1>4, <1>6
  <2>. QED  BY <1>3, <2>1, IsSequence
<1>8. \A i \in P : \E j \in DOMAIN w : w[j] = r[i]
  BY <1>3, <1>6, <1>7 DEF Counts
<1>9. Keeps(w, r, s, e)
  BY <1>4, <1>5, <1>6, <1>7, <1>8 DEF Keeps
<1>. QED  BY <1>7, <1>9 DEF w

(* Merged returns a row of every time there is, in rising time.            *)
LEMMA MergedIs ==
    ASSUME NEW r \in Seq(Row)
    PROVE  /\ Merged(r) \in Seq(Row)
           /\ \A i, j \in DOMAIN Merged(r) : i < j => Merged(r)[i].t < Merged(r)[j].t
           /\ \A j \in DOMAIN Merged(r) : \E i \in DOMAIN r : Merged(r)[j] = r[i]
           /\ \A i \in DOMAIN r : \E j \in DOMAIN Merged(r) : Merged(r)[j].t = r[i].t
<1>. DEFINE P == {r[i].t : i \in DOMAIN r}
            N == Cardinality(P)
            g == [j \in 1..N |-> CHOOSE i \in P : Cardinality({k \in P : k <= i}) = j]
            At(t) == {i \in DOMAIN r : r[i].t = t}
            w == Merged(r)
<1>1. DOMAIN r = 1..Len(r) /\ Len(r) \in Nat /\ \A i \in DOMAIN r : r[i] \in Row /\ r[i].t \in Int
  <2>1. DOMAIN r = 1..Len(r) /\ Len(r) \in Nat /\ \A i \in 1..Len(r) : r[i] \in Row
    OBVIOUS
  <2>2. \A x \in Row : x.t \in Int
    BY DEF Row
  <2>. QED  BY <2>1, <2>2
<1>2. P \in SUBSET Int /\ IsFiniteSet(P)
  <2>1. P \subseteq Int
    BY <1>1
  <2>2. IsFiniteSet(DOMAIN r)
    BY <1>1, FS_Interval
  <2>. DEFINE tt == [i \in DOMAIN r |-> r[i].t]
  <2>3. tt \in Surjection(DOMAIN r, P)
    BY DEF Surjection
  <2>4. IsFiniteSet(P)
    <3>. HIDE DEF tt, P
    <3>. QED  BY <2>2, <2>3, FS_Surjection
  <2>. QED  BY <2>1, <2>4
<1>3. w = [j \in 1..N |-> r[Min(At(g[j]))]]
  BY DEF Merged
<1>4. Counts(g, P) /\ N \in Nat
  <2>1. \A h : h = g => Counts(h, P) /\ N \in Nat
    <3>. HIDE DEF P
    <3>. QED  BY <1>2, NthIs
  <2>. QED  BY <2>1
<1>5. ASSUME NEW t \in P
      PROVE  Min(At(t)) \in DOMAIN r /\ r[Min(At(t))] \in Row /\ r[Min(At(t))].t = t
  <2>1. At(t) \subseteq Nat /\ At(t) # {}
    BY <1>1
  <2>2. Min(At(t)) \in At(t)
    <3>. HIDE DEF At
    <3>. QED  BY <2>1, MinOf
  <2>. QED  BY <1>1, <2>2
<1>6. \A i \in DOMAIN r : r[i].t \in P
  OBVIOUS
<1>. HIDE DEF P, g, w, At
<1>7. \A j \in 1..N : g[j] \in P /\ w[j] = r[Min(At(g[j]))]
  BY <1>3, <1>4 DEF Counts
<1>8. \A j \in 1..N : w[j] \in Row /\ w[j].t = g[j] /\ \E i \in DOMAIN r : w[j] = r[i]
  BY <1>5, <1>7
<1>9. w \in Seq(Row) /\ DOMAIN w = 1..N
  <2>1. w \in [1..N -> Row]
    BY <1>3, <1>8
  <2>. QED  BY <1>4, <2>1, IsSequence
<1>10. \A i, j \in 1..N : i < j => w[i].t < w[j].t
  BY <1>4, <1>8 DEF Counts
<1>11. \A i \in DOMAIN r : \E j \in 1..N : w[j].t = r[i].t
  <2>. TAKE i \in DOMAIN r
  <2>1. PICK j \in 1..N : g[j] = r[i].t
    BY <1>4, <1>6 DEF Counts
  <2>. QED  BY <1>8, <2>1
<1>. QED  BY <1>8, <1>9, <1>10, <1>11 DEF w

-----------------------------------------------------------------------------
(* Reading from one chunk to the next.                                     *)

Offsets == Nat \ {0}

LEMMA NextChunkIs ==
    ASSUME NEW f \in Seq(Cell), NEW p \in Nat \ {0}
    PROVE  /\ NextChunk(f, p) \in Nat
           /\ NextChunk(f, p) # 0 =>
                 NextChunk(f, p) \in p..Len(f) /\ Complete(f, NextChunk(f, p))
           /\ \A q \in Nat : q >= p /\ Complete(f, q) /\ f[q].ts \notin Round =>
                 NextChunk(f, p) # 0 /\ NextChunk(f, p) <= q
<1>. DEFINE Found == {q \in p..Len(f) : Complete(f, q) /\ f[q].ts \notin Round}
<1>1. NextChunk(f, p) = IF Found = {} THEN 0 ELSE Min(Found)
  BY DEF NextChunk
<1>2. Found \subseteq Nat
  OBVIOUS
<1>3. Found # {} => Min(Found) \in Found /\ \A q \in Found : Min(Found) <= q
  <2>. HIDE DEF Found
  <2>. QED  BY <1>2, MinOf
<1>4. \A q \in Nat : q >= p /\ Complete(f, q) /\ f[q].ts \notin Round => q \in Found
  <2>. TAKE q \in Nat
  <2>. HAVE q >= p /\ Complete(f, q) /\ f[q].ts \notin Round
  <2>1. q \in Nat \ {0}
    OBVIOUS
  <2>2. q <= Len(f)
    BY <2>1, CompleteIs, HeadIs
  <2>. QED  BY <2>2
<1>5. \A q \in Found : q \in p..Len(f) /\ Complete(f, q) /\ q # 0 /\ q \in Nat
  OBVIOUS
<1>. HIDE DEF Found
<1>6. CASE Found = {}
  BY <1>1, <1>4, <1>6
<1>7. CASE Found # {}
  <2>1. NextChunk(f, p) = Min(Found) /\ NextChunk(f, p) \in Found
    BY <1>1, <1>3, <1>7
  <2>2. NextChunk(f, p) \in p..Len(f) /\ Complete(f, NextChunk(f, p)) /\ NextChunk(f, p) # 0
        /\ NextChunk(f, p) \in Nat
    BY <1>5, <2>1
  <2>3. \A q \in Found : NextChunk(f, p) <= q
    BY <1>3, <1>7, <2>1
  <2>. QED  BY <1>4, <2>2, <2>3
<1>. QED  BY <1>6, <1>7

(* Where _intervals_in_file goes on after p.                               *)
Onward(f, p) == IF Complete(f, p) THEN p + Size(f, p) ELSE NextChunk(f, p + 1)

LEMMA OnwardIs ==
    ASSUME NEW f \in Seq(Cell), NEW p \in Offsets
    PROVE  /\ Onward(f, p) \in Nat
           /\ Onward(f, p) # 0 => Onward(f, p) \in Offsets /\ Onward(f, p) > p
           /\ Complete(f, p) => Onward(f, p) # 0 /\ Onward(f, p) = p + Size(f, p)
<1>. USE DEF Offsets
<1>1. CASE Complete(f, p)
  <2>1. Size(f, p) \in Nat /\ Size(f, p) > Hdr /\ Hdr \in Nat
    BY <1>1, CompleteIs, HeadIs, FormatAssumption
  <2>. QED  BY <1>1, <2>1 DEF Onward
<1>2. CASE ~Complete(f, p)
  <2>1. p + 1 \in Nat \ {0}
    OBVIOUS
  <2>2. NextChunk(f, p + 1) \in Nat /\ (NextChunk(f, p + 1) # 0 => NextChunk(f, p + 1) >= p + 1)
    BY <2>1, NextChunkIs
  <2>. QED  BY <1>2, <2>2 DEF Onward
<1>. QED  BY <1>1, <1>2

(* One step of it, with the rows rest to come.                             *)
RowsStep(f, p, s, e, rest) ==
    IF p + Hdr - 1 > Len(f) THEN <<>>
    ELSE IF ~Complete(f, p) THEN IF Onward(f, p) = 0 THEN <<>> ELSE rest
    ELSE IF LastTime(f, p) < s THEN rest
    ELSE IF f[p].ts > e THEN <<>>
    ELSE Within(Rows(f, p), s, e) \o rest

LEMMA RowsStepType ==
    ASSUME NEW f \in Seq(Cell), NEW p \in Offsets, NEW s, NEW e, NEW rest \in Seq(Row)
    PROVE  RowsStep(f, p, s, e, rest) \in Seq(Row)
<1>1. <<>> \in Seq(Row)
  OBVIOUS
<1>2. Complete(f, p) => Within(Rows(f, p), s, e) \o rest \in Seq(Row)
  <2>. HAVE Complete(f, p)
  <2>1. Rows(f, p) \in Seq(Row)
    BY RowsAre DEF Offsets
  <2>2. Within(Rows(f, p), s, e) \in Seq(Row)
    BY <2>1, WithinIs
  <2>. QED  BY <2>2, ConcatProperties
<1>. QED  BY <1>1, <1>2 DEF RowsStep

LEMMA RowsFromIs ==
    ASSUME NEW f \in Seq(Cell), NEW s, NEW e
    PROVE  \A p \in Offsets :
              /\ RowsFrom(f, p, s, e) \in Seq(Row)
              /\ RowsFrom(f, p, s, e) =
                    RowsStep(f, p, s, e, IF Onward(f, p) = 0 THEN <<>> ELSE RowsFrom(f, Onward(f, p), s, e))
<1>. DEFINE L == Len(f)
            D == Offsets
            rank == [p \in D |-> IF p > L THEN 0 ELSE L + 1 - p]
            rest(g, p) == IF Onward(f, p) = 0 THEN <<>> ELSE g[Onward(f, p)]
            body == [x \in D \X [D -> Seq(Row)] |-> RowsStep(f, x[1], s, e, rest(x[2], x[1]))]
            Def(g) == g = [p \in D |->
                 IF p + Hdr - 1 > Len(f) THEN <<>>
                 ELSE IF ~Complete(f, p)
                      THEN IF NextChunk(f, p + 1) = 0 THEN <<>> ELSE g[NextChunk(f, p + 1)]
                 ELSE IF LastTime(f, p) < s THEN g[p + Size(f, p)]
                 ELSE IF f[p].ts > e THEN <<>>
                 ELSE Within(Rows(f, p), s, e) \o g[p + Size(f, p)]]
<1>1. /\ L \in Nat /\ <<>> \in Seq(Row) /\ Hdr \in Nat /\ Hdr > 0
      /\ rank \in [D -> 0..L]
  BY FormatAssumption DEF Offsets
<1>2. ASSUME NEW g \in [D -> Seq(Row)], NEW p \in D
      PROVE  rest(g, p) \in Seq(Row)
  <2>1. Onward(f, p) # 0 => Onward(f, p) \in D
    BY OnwardIs
  <2>. QED  BY <1>1, <2>1
<1>3. body \in [D \X [D -> Seq(Row)] -> Seq(Row)]
  <2>1. \A x \in D \X [D -> Seq(Row)] : RowsStep(f, x[1], s, e, rest(x[2], x[1])) \in Seq(Row)
    <3>. TAKE x \in D \X [D -> Seq(Row)]
    <3>1. x[1] \in D /\ x[2] \in [D -> Seq(Row)]
      OBVIOUS
    <3>2. rest(x[2], x[1]) \in Seq(Row)
      BY <1>2, <3>1
    <3>. HIDE DEF rest
    <3>. QED  BY <3>1, <3>2, RowsStepType
  <2>. QED  BY <2>1
<1>4. \A g \in [D -> Seq(Row)] : \A p \in D : body[<<p, g>>] = RowsStep(f, p, s, e, rest(g, p))
  <2>. HIDE DEF rest
  <2>. QED  OBVIOUS
<1>5. \A p \in D : \A g, h \in [D -> Seq(Row)] :
         (\A q \in D : rank[q] < rank[p] => g[q] = h[q]) => body[<<p, g>>] = body[<<p, h>>]
  <2>. TAKE p \in D
  <2>. TAKE g, h \in [D -> Seq(Row)]
  <2>. HAVE \A q \in D : rank[q] < rank[p] => g[q] = h[q]
  <2>1. CASE p + Hdr - 1 > Len(f)
    <3>. HIDE DEF body, rest
    <3>. QED  BY <1>4, <2>1 DEF RowsStep
  <2>2. CASE ~(p + Hdr - 1 > Len(f))
    <3>1. p <= L
      BY <1>1, <2>2 DEF Offsets
    <3>2. Onward(f, p) # 0 => Onward(f, p) \in D /\ rank[Onward(f, p)] < rank[p]
      <4>. HAVE Onward(f, p) # 0
      <4>1. Onward(f, p) \in D /\ Onward(f, p) > p
        BY OnwardIs
      <4>2. \A q \in D : q > p => rank[q] < rank[p]
        BY SMTT(20), <1>1, <3>1 DEF Offsets
      <4>. QED  BY <4>1, <4>2
    <3>3. rest(g, p) = rest(h, p)
      BY <3>2
    <3>. HIDE DEF body, rest
    <3>. QED  BY <1>4, <3>3
  <2>. QED  BY <2>1, <2>2
<1>6. PICK g \in [D -> Seq(Row)] : \A p \in D : g[p] = body[<<p, g>>]
  <2>1. <<>> \in Seq(Row) /\ L \in Nat /\ Descends(D, Seq(Row), L, rank, body)
    <3>. HIDE DEF D, rank, body
    <3>. QED  BY <1>1, <1>3, <1>5 DEF Descends
  <2>. HIDE DEF D, rank, body
  <2>2. PICK g : Solution(D, Seq(Row), body, g)
    BY <2>1, Recursion
  <2>. QED  BY <2>2 DEF Solution
<1>7. \A h : Def(h) <=> h = [p \in D |-> RowsStep(f, p, s, e, rest(h, p))]
  <2>. TAKE h
  <2>1. ASSUME NEW p \in D
        PROVE  RowsStep(f, p, s, e, rest(h, p)) =
                 (IF p + Hdr - 1 > Len(f) THEN <<>>
                 ELSE IF ~Complete(f, p)
                      THEN IF NextChunk(f, p + 1) = 0 THEN <<>> ELSE h[NextChunk(f, p + 1)]
                 ELSE IF LastTime(f, p) < s THEN h[p + Size(f, p)]
                 ELSE IF f[p].ts > e THEN <<>>
                 ELSE Within(Rows(f, p), s, e) \o h[p + Size(f, p)])
    <3>1. CASE Complete(f, p)
      <4>1. Onward(f, p) # 0 /\ Onward(f, p) = p + Size(f, p)
        BY <3>1, OnwardIs
      <4>2. rest(h, p) = h[p + Size(f, p)]
        BY <4>1
      <4>. QED  BY <3>1, <4>2 DEF RowsStep
    <3>2. CASE ~Complete(f, p)
      <4>1. Onward(f, p) = NextChunk(f, p + 1)
        BY <3>2 DEF Onward
      <4>. QED  BY <3>2, <4>1 DEF RowsStep
    <3>. QED  BY <3>1, <3>2
  <2>. QED  BY <2>1
<1>8. Def(g)
  <2>1. \A p \in D : g[p] = RowsStep(f, p, s, e, rest(g, p))
    <3>. HIDE DEF body, rest
    <3>. QED  BY <1>4, <1>6
  <2>2. g = [p \in D |-> RowsStep(f, p, s, e, rest(g, p))]
    <3>. HIDE DEF rest
    <3>. QED  BY <2>1
  <2>. HIDE DEF Def
  <2>. QED  BY <1>7, <2>2
<1>. DEFINE from == CHOOSE h : Def(h)
<1>9. Def(from)
  <2>. HIDE DEF Def
  <2>. QED  BY <1>8
<1>10. \A p : RowsFrom(f, p, s, e) = from[p]
  BY DEF RowsFrom, Offsets
<1>11. \A p \in D : from[p] = RowsStep(f, p, s, e, rest(from, p))
  <2>. HIDE DEF Def
  <2>1. from = [p \in D |-> RowsStep(f, p, s, e, rest(from, p))]
    BY <1>7, <1>9
  <2>. HIDE DEF from, rest
  <2>. QED  BY <2>1
<1>. HIDE DEF from, Def
<1>12. \A p \in D : from[p] \in Seq(Row)
  <2>. DEFINE Wrong == {p \in D : from[p] \notin Seq(Row)}
  <2>. SUFFICES ASSUME Wrong # {} PROVE FALSE
    OBVIOUS
  <2>1. \A p \in D : p > L => from[p] \in Seq(Row)
    <3>. TAKE p \in D
    <3>. HAVE p > L
    <3>1. p + Hdr - 1 > Len(f)
      BY <1>1 DEF Offsets
    <3>2. RowsStep(f, p, s, e, rest(from, p)) = <<>>
      BY <3>1 DEF RowsStep
    <3>. QED  BY <1>1, <1>11, <3>2
  <2>2. Wrong \subseteq 0..L
    BY <1>1, <2>1 DEF Offsets
  <2>3. PICK p \in Wrong : \A q \in Wrong : q <= p
    <3>. HIDE DEF Wrong
    <3>. QED  BY <1>1, <2>2, GreatestNatural
  <2>4. Onward(f, p) # 0 => Onward(f, p) \in D /\ Onward(f, p) \notin Wrong
    <3>. HAVE Onward(f, p) # 0
    <3>1. Onward(f, p) \in D /\ Onward(f, p) > p
      BY OnwardIs
    <3>2. Onward(f, p) \in Nat /\ p \in Nat
      BY <3>1 DEF Offsets
    <3>. HIDE DEF Wrong
    <3>. QED  BY <2>3, <3>1, <3>2
  <2>5. rest(from, p) \in Seq(Row)
    BY <1>1, <2>4
  <2>6. from[p] \in Seq(Row)
    <3>. HIDE DEF rest
    <3>. QED  BY <1>11, <2>5, RowsStepType
  <2>. QED  BY <2>6
<1>. QED  BY <1>10, <1>11, <1>12

-----------------------------------------------------------------------------
(* Where a search begins: at the first byte, or at a header of a chunk that
   begins no later than s.                                                 *)
Begins(f, s, x) == x = 1 \/ (x \in Offsets /\ ValidHeader(f, x) /\ f[x].ts <= s)

LEMMA SeekAheadIs ==
    ASSUME NEW f \in Seq(Cell), NEW s \in Nat, NEW start \in Offsets, Begins(f, s, start)
    PROVE  Begins(f, s, SeekAhead(f, s, start))
<1>. DEFINE L == Len(f)
            D == Offsets
            Ahead(q) == NextChunk(f, q + Typical * Stride)
            Stops(q) == Ahead(q) = 0 \/ f[Ahead(q)].ts > s
            rank == [p \in D |-> IF p > L THEN 0 ELSE L + 1 - p]
            body == [x \in D \X [D -> D] |-> IF Stops(x[1]) THEN x[1] ELSE x[2][Ahead(x[1])]]
            Def(g) == g = [q \in D |-> IF Stops(q) THEN q ELSE g[Ahead(q)]]
<1>1. /\ L \in Nat /\ 1 \in D /\ rank \in [D -> 0..L]
      /\ Typical * Stride \in Nat \ {0}
  <2>1. Hdr + Typ \in Nat \ {0} /\ Stride \in Nat \ {0}
    BY FormatAssumption
  <2>2. \A a, b \in Nat \ {0} : a * b \in Nat \ {0}
    OBVIOUS
  <2>3. Typical * Stride \in Nat \ {0}
    BY <2>1, <2>2 DEF Typical
  <2>. QED  BY <2>3 DEF Offsets
<1>2. ASSUME NEW q \in D, ~Stops(q)
      PROVE  /\ Ahead(q) \in D /\ Ahead(q) > q /\ q <= L
             /\ Complete(f, Ahead(q)) /\ f[Ahead(q)].ts <= s
  <2>1. q + Typical * Stride \in Nat \ {0} /\ q + Typical * Stride > q
    BY <1>1 DEF Offsets
  <2>2. /\ Ahead(q) # 0 /\ ~(f[Ahead(q)].ts > s)
        /\ Ahead(q) \in q + Typical * Stride..L /\ Complete(f, Ahead(q)) /\ Ahead(q) \in Nat
    BY <1>2, <2>1, NextChunkIs
  <2>3. Ahead(q) \in D /\ Ahead(q) > q /\ q <= L
    BY <1>1, <2>1, <2>2 DEF Offsets
  <2>4. f[Ahead(q)].ts \in Nat
    BY <2>2, <2>3, CompleteIs, HeadIs DEF Offsets
  <2>. QED  BY <2>2, <2>3, <2>4
<1>. HIDE DEF Ahead
<1>3. body \in [D \X [D -> D] -> D]
  <2>1. \A x \in D \X [D -> D] : (IF Stops(x[1]) THEN x[1] ELSE x[2][Ahead(x[1])]) \in D
    BY <1>2
  <2>. QED  BY <2>1
<1>4. \A g \in [D -> D] : \A q \in D : body[<<q, g>>] = IF Stops(q) THEN q ELSE g[Ahead(q)]
  <2>. HIDE DEF Stops
  <2>. QED  OBVIOUS
<1>5. \A p \in D : \A g, h \in [D -> D] :
         (\A q \in D : rank[q] < rank[p] => g[q] = h[q]) => body[<<p, g>>] = body[<<p, h>>]
  <2>. TAKE p \in D
  <2>. TAKE g, h \in [D -> D]
  <2>. HAVE \A q \in D : rank[q] < rank[p] => g[q] = h[q]
  <2>1. CASE Stops(p)
    <3>. HIDE DEF body, Stops
    <3>. QED  BY <1>4, <2>1
  <2>2. CASE ~Stops(p)
    <3>1. Ahead(p) \in D /\ Ahead(p) > p /\ p <= L
      <4>. HIDE DEF Stops
      <4>. QED  BY <1>2, <2>2
    <3>2. rank[Ahead(p)] < rank[p]
      <4>1. \A q \in D : q \in Nat /\ rank[q] = IF q > L THEN 0 ELSE L + 1 - q
        BY DEF Offsets
      <4>. HIDE DEF rank, D
      <4>. QED  BY <1>1, <3>1, <4>1
    <3>. HIDE DEF body, Stops
    <3>. QED  BY <1>4, <3>1, <3>2
  <2>. QED  BY <2>1, <2>2
<1>6. PICK g : Solution(D, D, body, g)
  <2>1. 1 \in D /\ L \in Nat /\ Descends(D, D, L, rank, body)
    <3>. HIDE DEF D, rank, body
    <3>. QED  BY <1>1, <1>3, <1>5 DEF Descends
  <2>. HIDE DEF D, rank, body
  <2>. QED  BY <2>1, Recursion
<1>7. Def(g)
  <2>1. g \in [D -> D] /\ \A q \in D : g[q] = body[<<q, g>>]
    <3>. HIDE DEF body
    <3>. QED  BY <1>6 DEF Solution
  <2>2. \A q \in D : g[q] = IF Stops(q) THEN q ELSE g[Ahead(q)]
    <3>. HIDE DEF body, Stops
    <3>. QED  BY <1>4, <2>1
  <2>. HIDE DEF Stops
  <2>. QED  BY <2>1, <2>2
<1>. DEFINE seek == CHOOSE h : Def(h)
<1>8. Def(seek)
  <2>. HIDE DEF Def
  <2>. QED  BY <1>7
<1>9. SeekAhead(f, s, start) = seek[start]
  BY DEF SeekAhead, Offsets, Ahead
<1>10. \A q \in D : seek[q] = IF Stops(q) THEN q ELSE seek[Ahead(q)]
  <2>. HIDE DEF seek, Stops
  <2>. QED  BY <1>8
<1>. HIDE DEF seek, Def, rank
<1>. DEFINE Wrong == {q \in D : Begins(f, s, q) /\ ~Begins(f, s, seek[q])}
<1>11. Wrong = {}
  <2>. SUFFICES ASSUME Wrong # {} PROVE FALSE
    OBVIOUS
  <2>1. \A q \in Wrong : ~Stops(q)
    <3>. HIDE DEF Stops
    <3>. QED  BY <1>10
  <2>2. Wrong \subseteq 0..L
    <3>1. \A q \in Wrong : q <= L /\ q \in Nat
      <4>. HIDE DEF Stops
      <4>. QED  BY <1>2, <2>1 DEF Offsets
    <3>. HIDE DEF Wrong
    <3>. QED  BY <1>1, <3>1
  <2>3. PICK q \in Wrong : \A p \in Wrong : p <= q
    <3>. HIDE DEF Wrong
    <3>. QED  BY <1>1, <2>2, GreatestNatural
  <2>4. Ahead(q) \in D /\ Ahead(q) > q /\ Complete(f, Ahead(q)) /\ f[Ahead(q)].ts <= s
    <3>. HIDE DEF Stops
    <3>. QED  BY <1>2, <2>1
  <2>5. Begins(f, s, Ahead(q))
    BY <2>4, CompleteIs DEF Begins, Offsets
  <2>6. Ahead(q) \notin Wrong
    <3>1. Ahead(q) \in Nat /\ q \in Nat
      BY <2>4 DEF Offsets
    <3>. HIDE DEF Wrong
    <3>. QED  BY <2>3, <2>4, <3>1
  <2>7. Begins(f, s, seek[Ahead(q)])
    BY <2>4, <2>5, <2>6
  <2>8. seek[q] = seek[Ahead(q)]
    <3>. HIDE DEF Stops
    <3>. QED  BY <1>10, <2>1
  <2>. QED  BY <2>7, <2>8
<1>. QED  BY <1>9, <1>11

LEMMA SeekUnalignedIs ==
    ASSUME NEW f \in Seq(Cell), NEW s \in Nat
    PROVE  Begins(f, s, SeekUnaligned(f, s))
<1>. DEFINE first == NextChunk(f, 1)
<1>1. 1 \in Nat \ {0}
  OBVIOUS
<1>2. first # 0 => first \in 1..Len(f) /\ Complete(f, first)
  BY <1>1, NextChunkIs
<1>3. CASE first = 0 \/ f[first].ts > s
  BY <1>3 DEF SeekUnaligned, Begins
<1>4. CASE ~(first = 0 \/ f[first].ts > s)
  <2>1. first \in Offsets /\ ValidHeader(f, first) /\ f[first].ts \in Nat
    BY <1>2, <1>4, CompleteIs, HeadIs DEF Offsets
  <2>2. Begins(f, s, first)
    BY <1>4, <2>1 DEF Begins
  <2>3. SeekUnaligned(f, s) = SeekAhead(f, s, first)
    BY <1>4 DEF SeekUnaligned
  <2>. HIDE DEF first
  <2>. QED  BY <2>1, <2>2, <2>3, SeekAheadIs
<1>. QED  BY <1>3, <1>4

(* The binary search: what is left of its lower bound ends before s.       *)
LEMMA HalveIs ==
    ASSUME NEW f \in Seq(Cell), NEW s \in Nat
    PROVE  Begins(f, s, SeekAligned(f, s))
<1>. DEFINE n == Len(f) \div Typical
            At(m) == m * Typical + 1
            D == (0..n) \X (0..n)
            Mid(b) == (b[1] + b[2]) \div 2
            Odd(m) == ~ValidHeader(f, At(m)) \/ f[At(m)].n # Typ
            Early(m) == LastTime(f, At(m)) < s
            Step(b, g) == IF b[1] >= b[2] THEN At(Max({0, b[1] - 1}))
                          ELSE IF Odd(Mid(b)) THEN 1
                          ELSE IF Early(Mid(b)) THEN g[<<Mid(b) + 1, b[2]>>]
                          ELSE g[<<b[1], Mid(b)>>]
            rank == [b \in D |-> IF b[1] >= b[2] THEN 0 ELSE b[2] - b[1]]
            body == [x \in D \X [D -> Offsets] |-> Step(x[1], x[2])]
            Def(g) == g = [b \in D |-> Step(b, g)]
<1>1. /\ n \in Nat /\ Typical \in Nat \ {0} /\ 1 \in Offsets
  <2>1. Typical \in Nat \ {0} /\ Len(f) \in Nat
    BY FormatAssumption DEF Typical
  <2>2. \A a \in Nat, b \in Nat \ {0} : a \div b \in Nat
    OBVIOUS
  <2>. QED  BY <2>1, <2>2 DEF Offsets
<1>2. \A m \in Nat : At(m) \in Offsets
  <2>1. \A a \in Nat, b \in Nat : a * b \in Nat
    OBVIOUS
  <2>2. \A a \in Nat : a + 1 \in Nat \ {0}
    OBVIOUS
  <2>. QED  BY <1>1, <2>1, <2>2 DEF Offsets
<1>. HIDE DEF n, At
<1>3. ASSUME NEW b \in D
      PROVE  /\ b[1] \in 0..n /\ b[2] \in 0..n /\ b = <<b[1], b[2]>>
             /\ b[1] < b[2] =>
                   /\ Mid(b) \in b[1]..b[2] - 1
                   /\ <<Mid(b) + 1, b[2]>> \in D /\ <<b[1], Mid(b)>> \in D
                   /\ rank[<<Mid(b) + 1, b[2]>>] < rank[b] /\ rank[<<b[1], Mid(b)>>] < rank[b]
  <2>1. b[1] \in 0..n /\ b[2] \in 0..n /\ b = <<b[1], b[2]>>
    OBVIOUS
  <2>2. ASSUME b[1] < b[2]
        PROVE  /\ Mid(b) \in b[1]..b[2] - 1
               /\ <<Mid(b) + 1, b[2]>> \in D /\ <<b[1], Mid(b)>> \in D
               /\ rank[<<Mid(b) + 1, b[2]>>] < rank[b] /\ rank[<<b[1], Mid(b)>>] < rank[b]
    <3>1. Mid(b) \in b[1]..b[2] - 1
      BY <1>1, <2>1, <2>2
    <3>. HIDE DEF Mid
    <3>2. <<Mid(b) + 1, b[2]>> \in D /\ <<b[1], Mid(b)>> \in D
      BY <1>1, <2>1, <2>2, <3>1
    <3>3. /\ rank[<<Mid(b) + 1, b[2]>>] = IF Mid(b) + 1 >= b[2] THEN 0 ELSE b[2] - (Mid(b) + 1)
          /\ rank[<<b[1], Mid(b)>>] = IF b[1] >= Mid(b) THEN 0 ELSE Mid(b) - b[1]
          /\ rank[b] = b[2] - b[1]
      BY <1>1, <2>1, <2>2, <3>1, <3>2
    <3>. HIDE DEF rank
    <3>4. rank[<<Mid(b) + 1, b[2]>>] < rank[b] /\ rank[<<b[1], Mid(b)>>] < rank[b]
      <4>1. \A x, y, m \in Nat : x < y /\ m \in x..y - 1 =>
               /\ (IF m + 1 >= y THEN 0 ELSE y - (m + 1)) < y - x
               /\ (IF x >= m THEN 0 ELSE m - x) < y - x
        OBVIOUS
      <4>2. b[1] \in Nat /\ b[2] \in Nat /\ Mid(b) \in Nat
        BY <1>1, <2>1, <3>1
      <4>. QED  BY <2>2, <3>1, <3>3, <4>1, <4>2
    <3>. QED  BY <3>1, <3>2, <3>4
  <2>. QED  BY <2>1, <2>2
<1>. HIDE DEF Mid
<1>4. rank \in [D -> 0..n]
  BY <1>1
<1>5. \A b \in D : Max({0, b[1] - 1}) \in Nat
                   /\ (b[1] > 0 => Max({0, b[1] - 1}) = b[1] - 1)
                   /\ (b[1] = 0 => Max({0, b[1] - 1}) = 0)
  <2>. TAKE b \in D
  <2>1. b[1] \in Nat
    BY <1>1, <1>3
  <2>2. Max({0, b[1] - 1}) = IF 0 >= b[1] - 1 THEN 0 ELSE b[1] - 1
    BY <2>1, MaxOfTwo
  <2>. QED  BY <2>1, <2>2
<1>. HIDE DEF rank
<1>6. \A b \in D : \A g \in [D -> Offsets] : Step(b, g) \in Offsets
  <2>. TAKE b \in D
  <2>. TAKE g \in [D -> Offsets]
  <2>1. b[1] < b[2] => g[<<Mid(b) + 1, b[2]>>] \in Offsets /\ g[<<b[1], Mid(b)>>] \in Offsets
    <3>. HIDE DEF D
    <3>. QED  BY <1>3
  <2>2. b[1] \in Int /\ b[2] \in Int
    BY <1>1, <1>3
  <2>3. At(Max({0, b[1] - 1})) \in Offsets
    BY <1>2, <1>5
  <2>. QED  BY <1>1, <2>1, <2>2, <2>3
<1>7. \A b \in D : \A g, h \in [D -> Offsets] :
         (\A c \in D : rank[c] < rank[b] => g[c] = h[c]) => Step(b, g) = Step(b, h)
  <2>. TAKE b \in D
  <2>. TAKE g, h \in [D -> Offsets]
  <2>. HAVE \A c \in D : rank[c] < rank[b] => g[c] = h[c]
  <2>1. CASE b[1] >= b[2]
    BY <2>1
  <2>2. CASE ~(b[1] >= b[2])
    <3>1. b[1] < b[2]
      BY <1>1, <1>3, <2>2
    <3>2. g[<<Mid(b) + 1, b[2]>>] = h[<<Mid(b) + 1, b[2]>>] /\ g[<<b[1], Mid(b)>>] = h[<<b[1], Mid(b)>>]
      <4>. HIDE DEF D
      <4>. QED  BY <1>3, <3>1
    <3>. QED  BY <3>2
  <2>. QED  BY <2>1, <2>2
<1>8. PICK g : Solution(D, Offsets, body, g)
  <2>1. body \in [D \X [D -> Offsets] -> Offsets]
    <3>1. \A x \in D \X [D -> Offsets] : Step(x[1], x[2]) \in Offsets
      <4>. TAKE x \in D \X [D -> Offsets]
      <4>1. x[1] \in D /\ x[2] \in [D -> Offsets]
        <5>. HIDE DEF D
        <5>. QED  OBVIOUS
      <4>. HIDE DEF Step, D
      <4>. QED  BY <1>6, <4>1
    <3>. HIDE DEF Step, D
    <3>. QED  BY <3>1
  <2>2. \A b \in D : \A h \in [D -> Offsets] : body[<<b, h>>] = Step(b, h)
    <3>. HIDE DEF Step, D
    <3>. QED  OBVIOUS
  <2>3. 1 \in Offsets /\ n \in Nat /\ Descends(D, Offsets, n, rank, body)
    <3>1. \A b \in D : \A g, h \in [D -> Offsets] :
             (\A c \in D : rank[c] < rank[b] => g[c] = h[c]) => body[<<b, g>>] = body[<<b, h>>]
      <4>. HIDE DEF D, Step, body
      <4>. QED  BY <1>7, <2>2
    <3>. HIDE DEF D, Step, body
    <3>. QED  BY <1>1, <1>4, <2>1, <3>1 DEF Descends
  <2>4. PICK g : Solution(D, Offsets, body, g)
    <3>. HIDE DEF D, body
    <3>. QED  BY <2>3, Recursion
  <2>. QED  BY <2>4
<1>9. Def(g)
  <2>1. g \in [D -> Offsets] /\ \A b \in D : g[b] = body[<<b, g>>]
    <3>. HIDE DEF body, D
    <3>. QED  BY <1>8 DEF Solution
  <2>2. \A b \in D : g[b] = Step(b, g)
    <3>. HIDE DEF Step, D
    <3>. QED  BY <2>1
  <2>. HIDE DEF Step, D
  <2>. QED  BY <2>1, <2>2
<1>. DEFINE seek == CHOOSE h : Def(h)
<1>10. Def(seek)
  <2>. HIDE DEF Def
  <2>. QED  BY <1>9
<1>11. SeekAligned(f, s) = seek[<<0, n>>]
  BY DEF SeekAligned, Halve, n, At, Mid
<1>12. ASSUME NEW b \in D
       PROVE  /\ b[1] >= b[2] => seek[b] = At(Max({0, b[1] - 1}))
              /\ b[1] < b[2] /\ Odd(Mid(b)) => seek[b] = 1
              /\ b[1] < b[2] /\ ~Odd(Mid(b)) /\ Early(Mid(b)) => seek[b] = seek[<<Mid(b) + 1, b[2]>>]
              /\ b[1] < b[2] /\ ~Odd(Mid(b)) /\ ~Early(Mid(b)) => seek[b] = seek[<<b[1], Mid(b)>>]
  <2>1. seek[b] = Step(b, seek)
    <3>. HIDE DEF seek, Step, D
    <3>. QED  BY <1>10
  <2>2. b[1] < b[2] => ~(b[1] >= b[2])
    BY <1>1, <1>3
  <2>. HIDE DEF seek, D, Odd, Early
  <2>. QED  BY <2>1, <2>2
<1>. HIDE DEF seek, Def, body
<1>. DEFINE Fine(b) == b[1] = 0 \/ (ValidHeader(f, At(b[1] - 1)) /\ Early(b[1] - 1))
            Wrong == {b \in D : Fine(b) /\ ~Begins(f, s, seek[b])}
<1>13. \A m \in Nat : ValidHeader(f, At(m)) /\ Early(m) => Begins(f, s, At(m))
  <2>. TAKE m \in Nat
  <2>. HAVE ValidHeader(f, At(m)) /\ Early(m)
  <2>1. At(m) \in Offsets
    BY <1>2
  <2>2. f[At(m)].ts \in Nat /\ f[At(m)].n \in Nat /\ f[At(m)].n > 0
    BY <2>1, HeadIs DEF Offsets
  <2>3. f[At(m)].ts <= s
    BY <2>2 DEF LastTime
  <2>. QED  BY <2>1, <2>3 DEF Begins
<1>14. Wrong = {}
  <2>. SUFFICES ASSUME Wrong # {} PROVE FALSE
    OBVIOUS
  <2>1. PICK b \in Wrong : \A c \in Wrong : rank[b] <= rank[c]
    <3>1. \A c \in Wrong : rank[c] \in Nat
      <4>1. \A c \in D : rank[c] \in Nat
        <5>. HIDE DEF D
        <5>. QED  BY <1>1, <1>4
      <4>. QED  BY <4>1
    <3>. HIDE DEF Wrong
    <3>. QED  BY <3>1, LeastRank
  <2>2. b \in D /\ Fine(b) /\ ~Begins(f, s, seek[b]) /\ b[1] \in 0..n /\ b[2] \in 0..n
    BY <1>3
  <2>3. \A c \in D : rank[c] < rank[b] => c \notin Wrong
    <3>1. \A c \in D : rank[c] \in Nat
      <4>. HIDE DEF D
      <4>. QED  BY <1>1, <1>4
    <3>. HIDE DEF Wrong, D
    <3>. QED  BY <2>1, <2>2, <3>1
  <2>4. CASE b[1] >= b[2]
    <3>1. seek[b] = At(Max({0, b[1] - 1}))
      <4>. HIDE DEF D
      <4>. QED  BY <1>12, <2>2, <2>4
    <3>2. CASE b[1] = 0
      <4>1. seek[b] = At(0)
        BY <1>5, <2>2, <3>1, <3>2
      <4>2. At(0) = 1
        BY <1>1 DEF At
      <4>. QED  BY <2>2, <4>1, <4>2 DEF Begins
    <3>3. CASE b[1] > 0
      <4>1. seek[b] = At(b[1] - 1) /\ b[1] - 1 \in Nat
        BY <1>1, <1>5, <2>2, <3>1, <3>3
      <4>2. ValidHeader(f, At(b[1] - 1)) /\ Early(b[1] - 1)
        BY <2>2, <3>3
      <4>. QED  BY <1>13, <2>2, <4>1, <4>2
    <3>. QED  BY <1>1, <2>2, <3>2, <3>3
  <2>5. CASE b[1] < b[2] /\ Odd(Mid(b))
    <3>1. seek[b] = 1
      <4>. HIDE DEF D, Odd
      <4>. QED  BY <1>12, <2>2, <2>5
    <3>. QED  BY <2>2, <3>1 DEF Begins
  <2>6. CASE b[1] < b[2] /\ ~Odd(Mid(b)) /\ Early(Mid(b))
    <3>. DEFINE c == <<Mid(b) + 1, b[2]>>
    <3>1. c \in D /\ rank[c] < rank[b] /\ Mid(b) \in b[1]..b[2] - 1
      <4>. HIDE DEF D
      <4>. QED  BY <1>3, <2>2, <2>6
    <3>2. seek[b] = seek[c]
      <4>. HIDE DEF D, Odd, Early
      <4>. QED  BY <1>12, <2>2, <2>6
    <3>3. Fine(c)
      <4>1. c[1] = Mid(b) + 1 /\ c[1] - 1 = Mid(b)
        BY <1>1, <2>2, <3>1
      <4>2. ValidHeader(f, At(Mid(b)))
        BY <2>6
      <4>. QED  BY <2>6, <4>1, <4>2
    <3>. HIDE DEF c, D, Fine
    <3>. QED  BY <2>2, <2>3, <3>1, <3>2, <3>3
  <2>7. CASE b[1] < b[2] /\ ~Odd(Mid(b)) /\ ~Early(Mid(b))
    <3>. DEFINE c == <<b[1], Mid(b)>>
    <3>1. c \in D /\ rank[c] < rank[b]
      <4>. HIDE DEF D
      <4>. QED  BY <1>3, <2>2, <2>7
    <3>2. seek[b] = seek[c]
      <4>. HIDE DEF D, Odd, Early
      <4>. QED  BY <1>12, <2>2, <2>7
    <3>3. Fine(c)
      <4>1. c[1] = b[1]
        OBVIOUS
      <4>. QED  BY <2>2, <4>1
    <3>. HIDE DEF c, D, Fine
    <3>. QED  BY <2>2, <2>3, <3>1, <3>2, <3>3
  <2>. QED  BY <1>1, <2>2, <2>4, <2>5, <2>6, <2>7
<1>15. <<0, n>> \in D /\ Fine(<<0, n>>)
  BY <1>1
<1>. HIDE DEF D, Fine
<1>. QED  BY <1>11, <1>14, <1>15

LEMMA SeekNearIs ==
    ASSUME NEW f \in Seq(Cell), NEW s \in Nat
    PROVE  Begins(f, s, SeekNear(f, s))
<1>1. Begins(f, s, 1)
  BY DEF Begins
<1>. QED  BY <1>1, SeekUnalignedIs, HalveIs DEF SeekNear

-----------------------------------------------------------------------------
(* What a search of one file returns.                                      *)

FromChunk(f, r) ==
    \E q \in Offsets : Complete(f, q) /\ \E k \in 1..f[q].n : r = Rows(f, q)[k]

Shown(r, t) == \E i \in DOMAIN r : r[i].t = t /\ Genuine(r[i])

(* Every row is of a chunk of the file and in the window.                  *)
AllFrom(f, r, s, e) == \A i \in DOMAIN r : FromChunk(f, r[i]) /\ r[i].t \in s..e

LEMMA RowsStepFrom ==
    ASSUME NEW f \in Seq(Cell), NEW s, NEW e, NEW p \in Offsets,
           NEW rest \in Seq(Row), AllFrom(f, rest, s, e)
    PROVE  AllFrom(f, RowsStep(f, p, s, e, rest), s, e)
<1>1. AllFrom(f, <<>>, s, e)
  BY DEF AllFrom
<1>2. ASSUME Complete(f, p)
      PROVE  AllFrom(f, Within(Rows(f, p), s, e) \o rest, s, e)
  <2>. DEFINE w == Within(Rows(f, p), s, e)
  <2>1. Rows(f, p) \in Seq(Row) /\ DOMAIN Rows(f, p) = 1..f[p].n
    BY <1>2, RowsAre DEF Offsets
  <2>2. w \in Seq(Row) /\ \A j \in DOMAIN w : \E i \in DOMAIN Rows(f, p) :
           w[j] = Rows(f, p)[i] /\ Rows(f, p)[i].t \in s..e
    <3>1. w \in Seq(Row) /\ Keeps(w, Rows(f, p), s, e)
      BY <2>1, WithinIs
    <3>. HIDE DEF w
    <3>. QED  BY <3>1 DEF Keeps
  <2>3. \A j \in 1..Len(w) : FromChunk(f, w[j]) /\ w[j].t \in s..e
    <3>. TAKE j \in 1..Len(w)
    <3>1. PICK i \in 1..f[p].n : w[j] = Rows(f, p)[i] /\ Rows(f, p)[i].t \in s..e
      <4>1. j \in DOMAIN w
        BY <2>2
      <4>. QED  BY <2>1, <2>2, <4>1
    <3>. QED  BY <1>2, <3>1 DEF FromChunk
  <2>4. \A j \in 1..Len(rest) : FromChunk(f, rest[j]) /\ rest[j].t \in s..e
    BY DEF AllFrom
  <2>. HIDE DEF w
  <2>5. /\ DOMAIN (w \o rest) = 1..Len(w) + Len(rest) /\ Len(w) \in Nat /\ Len(rest) \in Nat
        /\ \A i \in 1..Len(w) + Len(rest) :
              (w \o rest)[i] = IF i <= Len(w) THEN w[i] ELSE rest[i - Len(w)]
    BY <2>2, ConcatProperties
  <2>6. AllFrom(f, w \o rest, s, e)
    <3>. SUFFICES ASSUME NEW i \in 1..Len(w) + Len(rest)
                  PROVE  FromChunk(f, (w \o rest)[i]) /\ (w \o rest)[i].t \in s..e
      BY <2>5 DEF AllFrom
    <3>1. CASE i <= Len(w)
      <4>1. i \in 1..Len(w) /\ (w \o rest)[i] = w[i]
        BY <2>5, <3>1
      <4>. QED  BY <2>3, <4>1
    <3>2. CASE i > Len(w)
      <4>1. i - Len(w) \in 1..Len(rest) /\ (w \o rest)[i] = rest[i - Len(w)]
        BY <2>5, <3>2
      <4>. QED  BY <2>4, <4>1
    <3>. QED  BY <2>5, <3>1, <3>2
  <2>. QED  BY <2>6 DEF w
<1>. QED  BY <1>1, <1>2 DEF RowsStep

LEMMA RowsFromFrom ==
    ASSUME NEW f \in Seq(Cell), NEW s, NEW e, NEW p \in Offsets
    PROVE  AllFrom(f, RowsFrom(f, p, s, e), s, e)
<1>. DEFINE Wrong == {x \in Offsets : ~AllFrom(f, RowsFrom(f, x, s, e), s, e)}
            rest(x) == IF Onward(f, x) = 0 THEN <<>> ELSE RowsFrom(f, Onward(f, x), s, e)
<1>. SUFFICES ASSUME Wrong # {} PROVE FALSE
  OBVIOUS
<1>1. \A x \in Offsets : RowsFrom(f, x, s, e) \in Seq(Row)
                      /\ RowsFrom(f, x, s, e) = RowsStep(f, x, s, e, rest(x))
  BY RowsFromIs
<1>2. AllFrom(f, <<>>, s, e) /\ <<>> \in Seq(Row)
  BY DEF AllFrom
<1>3. Wrong \subseteq 0..Len(f) /\ Len(f) \in Nat
  <2>1. \A x \in Offsets : x > Len(f) => AllFrom(f, RowsFrom(f, x, s, e), s, e)
    <3>. TAKE x \in Offsets
    <3>. HAVE x > Len(f)
    <3>1. x + Hdr - 1 > Len(f)
      BY FormatAssumption DEF Offsets
    <3>2. RowsFrom(f, x, s, e) = <<>>
      <4>. HIDE DEF rest
      <4>. QED  BY <1>1, <3>1 DEF RowsStep
    <3>. QED  BY <1>2, <3>2
  <2>. QED  BY <2>1 DEF Offsets
<1>4. PICK x \in Wrong : \A y \in Wrong : y <= x
  <2>. HIDE DEF Wrong
  <2>. QED  BY <1>3, GreatestNatural
<1>5. Onward(f, x) # 0 => Onward(f, x) \in Offsets /\ Onward(f, x) \notin Wrong
  <2>. HAVE Onward(f, x) # 0
  <2>1. Onward(f, x) \in Offsets /\ Onward(f, x) > x
    BY OnwardIs
  <2>2. Onward(f, x) \in Nat /\ x \in Nat
    BY <2>1 DEF Offsets
  <2>. HIDE DEF Wrong
  <2>. QED  BY <1>4, <2>1, <2>2
<1>6. rest(x) \in Seq(Row) /\ AllFrom(f, rest(x), s, e)
  BY <1>1, <1>2, <1>5
<1>7. AllFrom(f, RowsFrom(f, x, s, e), s, e)
  <2>. HIDE DEF rest
  <2>. QED  BY <1>1, <1>6, RowsStepFrom
<1>. QED  BY <1>7

LEMMA InFileFrom ==
    ASSUME NEW f \in Seq(Cell), NEW s \in Nat, NEW e
    PROVE  InFile(f, s, e) \in Seq(Row) /\ AllFrom(f, InFile(f, s, e), s, e)
<1>1. SeekNear(f, s) \in Offsets
  BY SeekNearIs DEF Begins, Offsets
<1>. QED  BY <1>1, RowsFromIs, RowsFromFrom DEF InFile

(* The time and the cell of a row of a chunk.                              *)
LEMMA ChunkRow ==
    ASSUME NEW f, FileInv(f), NEW q \in Offsets, Complete(f, q), NEW k \in 1..f[q].n
    PROVE  /\ Rows(f, q)[k] \in Row
           /\ Rows(f, q)[k].t = f[q].ts + k - 1
           /\ Rows(f, q)[k].t \in f[q].ts..LastTime(f, q)
           /\ f[q].ts + f[q].n > Rows(f, q)[k].t
           /\ q \in DOMAIN f /\ f[q].n > 0 /\ f[q].ts > 0
           /\ f[q].ts \in Nat /\ f[q].n \in Nat /\ Rows(f, q)[k].t \in Int
<1>1. /\ f[q].ts \in Nat /\ f[q].n \in Nat /\ f[q].n > 0 /\ q \in DOMAIN f
      /\ f \in Seq(Cell) /\ f[q].k = 1
  BY CompleteIs, HeadIs DEF FileInv, Offsets
<1>2. Rows(f, q)[k].t = f[q].ts + k - 1 /\ Rows(f, q) \in Seq(Row) /\ DOMAIN Rows(f, q) = 1..f[q].n
  BY <1>1, RowsAre DEF Offsets
<1>3. Rows(f, q)[k] \in Row
  <2>1. \A r \in Seq(Row) : \A i \in DOMAIN r : r[i] \in Row
    OBVIOUS
  <2>. QED  BY <1>2, <2>1
<1>4. f[q].ts > 0
  <2>1. Good(f[q]) /\ f[q] # Zero
    BY <1>1 DEF FileInv, Zero
  <2>. QED  BY <1>1, <2>1 DEF Good
<1>. QED  BY <1>1, <1>2, <1>3, <1>4 DEF LastTime

(* A time is in one chunk only.                                            *)
LEMMA OneChunk ==
    ASSUME NEW f, FileInv(f), NEW p \in Offsets, NEW q \in Offsets,
           Complete(f, p), Complete(f, q),
           NEW t \in Int, t \in f[p].ts..LastTime(f, p), t \in f[q].ts..LastTime(f, q)
    PROVE  p = q
<1>1. /\ ValidHeader(f, p) /\ ValidHeader(f, q) /\ p \in Nat /\ q \in Nat
      /\ f[p].ts \in Nat /\ f[p].n \in Nat /\ f[q].ts \in Nat /\ f[q].n \in Nat
  BY CompleteIs, HeadIs DEF FileInv, Offsets
<1>2. t < f[p].ts + f[p].n /\ t < f[q].ts + f[q].n /\ t >= f[p].ts /\ t >= f[q].ts
  BY <1>1 DEF LastTime
<1>3. CASE p < q
  <2>1. f[p].ts + f[p].n <= f[q].ts
    BY <1>1, <1>3, HeadsRise DEF Offsets
  <2>. QED  BY <1>1, <1>2, <2>1
<1>4. CASE q < p
  <2>1. f[q].ts + f[q].n <= f[p].ts
    BY <1>1, <1>4, HeadsRise DEF Offsets
  <2>. QED  BY <1>1, <1>2, <2>1
<1>. QED  BY <1>1, <1>3, <1>4

(* So that there is one row for a time.                                    *)
LEMMA OneRow ==
    ASSUME NEW f, FileInv(f), NEW a, NEW b, FromChunk(f, a), FromChunk(f, b), a.t = b.t
    PROVE  a = b
<1>1. PICK p \in Offsets : Complete(f, p) /\ \E k \in 1..f[p].n : a = Rows(f, p)[k]
  BY DEF FromChunk
<1>2. PICK i \in 1..f[p].n : a = Rows(f, p)[i]
  BY <1>1
<1>3. PICK q \in Offsets : Complete(f, q) /\ \E k \in 1..f[q].n : b = Rows(f, q)[k]
  BY DEF FromChunk
<1>4. PICK j \in 1..f[q].n : b = Rows(f, q)[j]
  BY <1>3
<1>5. a.t = f[p].ts + i - 1 /\ a.t \in f[p].ts..LastTime(f, p)
  BY <1>1, <1>2, ChunkRow
<1>6. b.t = f[q].ts + j - 1 /\ b.t \in f[q].ts..LastTime(f, q)
  BY <1>3, <1>4, ChunkRow
<1>7. a.t \in Int /\ f[p].ts \in Nat /\ f[p].n \in Nat /\ f[q].ts \in Nat /\ f[q].n \in Nat
  BY <1>1, <1>2, <1>3, <1>4, ChunkRow
<1>8. p = q
  BY <1>1, <1>3, <1>5, <1>6, <1>7, OneChunk
<1>9. i = j
  <2>1. i \in Int /\ j \in Int
    BY <1>7
  <2>2. f[p].ts + i - 1 = f[p].ts + j - 1
    BY <1>5, <1>6, <1>8
  <2>. QED  BY <1>7, <2>1, <2>2
<1>. QED  BY <1>2, <1>4, <1>8, <1>9

(* A row of a recorded time is as recorded.                                *)
LEMMA RecordedGenuine ==
    ASSUME NEW f, FileInv(f), NEW r, FromChunk(f, r), r.t \in Recorded(f)
    PROVE  Genuine(r)
<1>1. PICK p \in Whole(f) : r.t \in f[p].ts..LastTime(f, p)
  BY DEF Recorded, TimesOf
<1>2. p \in Offsets /\ Complete(f, p) /\ \A i \in 1..f[p].n : Genuine(Rows(f, p)[i])
  BY WholeCells DEF Offsets
<1>3. PICK q \in Offsets : Complete(f, q) /\ \E k \in 1..f[q].n : r = Rows(f, q)[k]
  BY DEF FromChunk
<1>4. PICK k \in 1..f[q].n : r = Rows(f, q)[k]
  BY <1>3
<1>5. r.t \in f[q].ts..LastTime(f, q)
  BY <1>3, <1>4, ChunkRow
<1>6. r.t \in Int
  BY <1>3, <1>4, ChunkRow
<1>7. p = q
  BY <1>1, <1>2, <1>3, <1>5, <1>6, OneChunk
<1>. QED  BY <1>2, <1>4, <1>7

-----------------------------------------------------------------------------
(* A search finds what is Findable.                                        *)

LEMMA ShownInConcat ==
    ASSUME NEW u \in Seq(Row), NEW v \in Seq(Row), NEW t, Shown(u, t) \/ Shown(v, t)
    PROVE  Shown(u \o v, t)
<1>1. /\ DOMAIN (u \o v) = 1..Len(u) + Len(v) /\ Len(u) \in Nat /\ Len(v) \in Nat
      /\ DOMAIN u = 1..Len(u) /\ DOMAIN v = 1..Len(v)
      /\ \A i \in 1..Len(u) + Len(v) :
            (u \o v)[i] = IF i <= Len(u) THEN u[i] ELSE v[i - Len(u)]
  BY ConcatProperties
<1>2. CASE Shown(u, t)
  <2>1. PICK i \in DOMAIN u : u[i].t = t /\ Genuine(u[i])
    BY <1>2 DEF Shown
  <2>2. i \in DOMAIN (u \o v) /\ (u \o v)[i] = u[i]
    BY <1>1, <2>1
  <2>. QED  BY <2>1, <2>2 DEF Shown
<1>3. CASE Shown(v, t)
  <2>1. PICK i \in DOMAIN v : v[i].t = t /\ Genuine(v[i])
    BY <1>3 DEF Shown
  <2>2. i + Len(u) \in DOMAIN (u \o v) /\ (u \o v)[i + Len(u)] = v[i]
    <3>1. i + Len(u) \in 1..Len(u) + Len(v) /\ ~(i + Len(u) <= Len(u)) /\ i + Len(u) - Len(u) = i
      BY <1>1, <2>1
    <3>. QED  BY <1>1, <3>1
  <2>. QED  BY <2>1, <2>2 DEF Shown
<1>. QED  BY <1>2, <1>3

(* The search comes to places like this on its way to p, from q on.        *)
OnWay(f, q, p, x) ==
    x \in Offsets /\ x <= p /\ (x <= q \/ x \in Unclaimed(f, Torn(f)))

LEMMA WayStep ==
    ASSUME NEW f, FileInv(f), NEW p \in Unclaimed(f, Torn(f)), NEW q \in Unclaimed(f, Torn(f)),
           q <= p, q = 1 \/ f[q].ts \notin Round,
           \A i \in q..p : \E h \in Unclaimed(f, Torn(f)) : h <= i /\ i < h + Size(f, h),
           NEW x, OnWay(f, q, p, x), x # p
    PROVE  /\ x + Hdr - 1 <= Len(f)
           /\ Onward(f, x) # 0 /\ OnWay(f, q, p, Onward(f, x)) /\ Onward(f, x) > x
           /\ Complete(f, x) => f[x].ts + f[x].n <= f[p].ts
<1>. DEFINE sure == Unclaimed(f, Torn(f))
<1>0. f \in Seq(Cell) /\ Hdr \in Nat /\ Hdr > 0
  BY FormatAssumption DEF FileInv
<1>1. \A h \in sure : /\ h \in Whole(f) /\ h \in Offsets /\ h \in Nat /\ Complete(f, h) /\ ValidHeader(f, h)
                      /\ Size(f, h) \in Nat /\ h + Hdr - 1 <= Len(f)
  BY <1>0, WholeCells, HeadIs DEF Unclaimed, Offsets
<1>2. \A h \in sure : \A y \in Offsets : Complete(f, y) /\ y < h => y + Size(f, y) <= h
  BY Clear DEF Offsets
<1>3. x \in Offsets /\ x \in Nat /\ x < p /\ (x <= q \/ x \in sure)
  BY <1>1 DEF OnWay, Offsets
<1>. HIDE DEF sure
<1>4. x + Hdr - 1 <= Len(f)
  <2>1. p + Hdr - 1 <= Len(f) /\ p \in Nat /\ Len(f) \in Nat
    BY <1>0, <1>1 DEF sure
  <2>. QED  BY <1>0, <1>3, <2>1
<1>5. Complete(f, x) => f[x].ts + f[x].n <= f[p].ts
  <2>1. ValidHeader(f, p) /\ p \in Offsets
    BY <1>1 DEF sure
  <2>. QED  BY <1>0, <1>3, <2>1, CompleteIs, HeadsRise DEF Offsets
<1>6. p \in Nat /\ q \in Nat /\ p \in sure /\ q \in sure
  BY <1>1 DEF sure
<1>7. Onward(f, x) # 0 => Onward(f, x) \in Offsets /\ Onward(f, x) \in Nat /\ Onward(f, x) > x
  BY <1>0, <1>3, OnwardIs DEF Offsets
<1>8. CASE Complete(f, x) /\ x < q
  <2>1. Onward(f, x) # 0 /\ Onward(f, x) = x + Size(f, x)
    BY <1>0, <1>3, <1>8, OnwardIs
  <2>2. Onward(f, x) <= q
    BY <1>2, <1>3, <1>6, <1>8, <2>1
  <2>3. Onward(f, x) <= p
    BY <1>6, <1>7, <2>1, <2>2
  <2>. QED  BY <1>4, <1>5, <1>7, <2>1, <2>2, <2>3 DEF OnWay
<1>9. CASE ~Complete(f, x)
  <2>1. x <= q /\ x # q
    BY <1>1, <1>3, <1>6, <1>9
  <2>2. q # 1 /\ x + 1 <= q /\ x + 1 \in Nat \ {0}
    BY <1>3, <1>6, <2>1 DEF Offsets
  <2>3. Complete(f, q) /\ f[q].ts \notin Round
    BY <1>1, <1>6, <2>2
  <2>4. NextChunk(f, x + 1) # 0 /\ NextChunk(f, x + 1) <= q
    BY <1>0, <1>6, <2>2, <2>3, NextChunkIs
  <2>5. Onward(f, x) # 0 /\ Onward(f, x) <= q
    BY <1>9, <2>4 DEF Onward
  <2>6. Onward(f, x) <= p
    BY <1>6, <1>7, <2>5
  <2>. QED  BY <1>4, <1>5, <1>7, <2>5, <2>6 DEF OnWay
<1>10. CASE Complete(f, x) /\ x >= q
  <2>. DEFINE next == x + Size(f, x)
  <2>1. x \in sure
    BY <1>3, <1>6, <1>10
  <2>2. Onward(f, x) # 0 /\ Onward(f, x) = next /\ next \in Nat
    BY <1>0, <1>3, <1>7, <1>10, OnwardIs
  <2>3. next <= p /\ next >= q
    BY <1>2, <1>3, <1>6, <1>7, <1>10, <2>2
  <2>4. PICK h \in sure : h <= next /\ next < h + Size(f, h)
    <3>1. next \in q..p
      BY <1>6, <2>2, <2>3
    <3>. HIDE DEF next
    <3>. QED  BY <3>1 DEF sure
  <2>5. h \in Nat /\ h \in Offsets /\ Complete(f, h) /\ Size(f, h) \in Nat /\ Size(f, x) \in Nat
    BY <1>1, <2>1
  <2>6. h = next
    <3>1. CASE h < x
      <4>1. h + Size(f, h) <= x
        BY <1>2, <2>1, <2>5, <3>1
      <4>. QED  BY <1>3, <2>4, <2>5, <4>1
    <3>2. CASE h = x
      BY <2>4, <2>5, <3>2
    <3>3. CASE h > x
      <4>1. x + Size(f, x) <= h
        BY <1>2, <1>3, <1>10, <2>5, <3>3
      <4>. QED  BY <2>4, <2>2, <2>5, <4>1
    <3>. QED  BY <1>3, <2>5, <3>1, <3>2, <3>3
  <2>7. OnWay(f, q, p, Onward(f, x))
    BY <1>7, <2>2, <2>3, <2>4, <2>6 DEF OnWay, sure
  <2>. QED  BY <1>4, <1>5, <1>7, <2>2, <2>7
<1>. QED  BY <1>3, <1>6, <1>8, <1>9, <1>10

(* A search by time returns every interval of its window that is in a chunk
   it can find (_intervals_in_file).                                       *)
LEMMA InFileFinds ==
    ASSUME NEW f, FileInv(f), NEW s \in Nat, NEW e \in Nat, NEW t \in s..e, t \in Readable(f)
    PROVE  Shown(InFile(f, s, e), t)
<1>. DEFINE sure == Unclaimed(f, Torn(f))
<1>0. f \in Seq(Cell) /\ Hdr \in Nat /\ Hdr > 0 /\ t \in Int
  BY FormatAssumption DEF FileInv
<1>1. PICK p \in Findable(f, Torn(f)) : t \in f[p].ts..LastTime(f, p)
  BY DEF Readable, TimesOf
<1>2. p \in sure
  BY DEF Findable
<1>3. PICK q \in sure :
         /\ q <= p /\ (q = 1 \/ f[q].ts \notin Round)
         /\ \A i \in q..p : \E h \in sure : h <= i /\ i < h + Size(f, h)
  BY DEF Findable
<1>. HIDE DEF sure
<1>4. \A h \in sure : /\ h \in Whole(f) /\ h \in Offsets /\ h \in Nat /\ Complete(f, h) /\ ValidHeader(f, h)
                      /\ h \in 1..Len(f)
  BY <1>0, WholeCells, HeadIs DEF Unclaimed, Offsets, sure
<1>5. /\ f[p].ts \in Nat /\ f[p].n \in Nat /\ f[p].n > 0 /\ p \in Nat /\ q \in Nat /\ p \in Offsets
      /\ f[p].ts <= t /\ t < f[p].ts + f[p].n /\ LastTime(f, p) = f[p].ts + f[p].n - 1
      /\ Complete(f, p) /\ p + Hdr - 1 <= Len(f) /\ Len(f) \in Nat
  <2>1. /\ f[p].ts \in Nat /\ f[p].n \in Nat /\ f[p].n > 0 /\ p \in Nat /\ q \in Nat /\ p \in Offsets
        /\ Complete(f, p) /\ p + Hdr - 1 <= Len(f) /\ Len(f) \in Nat
    BY <1>0, <1>2, <1>4, HeadIs DEF Offsets
  <2>. QED  BY SMTT(20), <1>0, <1>1, <2>1 DEF LastTime
<1>6. /\ s \in Nat /\ e \in Nat /\ s <= t /\ t <= e
  BY <1>0
<1>. DEFINE rest(x) == IF Onward(f, x) = 0 THEN <<>> ELSE RowsFrom(f, Onward(f, x), s, e)
            Wrong == {x \in Offsets : OnWay(f, q, p, x) /\ ~Shown(RowsFrom(f, x, s, e), t)}
<1>7. \A x \in Offsets : /\ RowsFrom(f, x, s, e) \in Seq(Row)
                         /\ RowsFrom(f, x, s, e) = RowsStep(f, x, s, e, rest(x))
                         /\ rest(x) \in Seq(Row)
  <2>1. \A x \in Offsets : /\ RowsFrom(f, x, s, e) \in Seq(Row)
                           /\ RowsFrom(f, x, s, e) = RowsStep(f, x, s, e, rest(x))
    BY <1>0, RowsFromIs
  <2>2. \A x \in Offsets : rest(x) \in Seq(Row)
    <3>. TAKE x \in Offsets
    <3>1. Onward(f, x) # 0 => Onward(f, x) \in Offsets
      BY <1>0, OnwardIs
    <3>. QED  BY <2>1, <3>1
  <2>. QED  BY <2>1, <2>2
<1>8. Shown(RowsFrom(f, p, s, e), t)
  <2>. DEFINE w == Within(Rows(f, p), s, e)
              k == t - f[p].ts + 1
  <2>1. RowsStep(f, p, s, e, rest(p)) = w \o rest(p)
    <3>1. /\ ~(p + Hdr - 1 > Len(f)) /\ ~(LastTime(f, p) < s) /\ ~(f[p].ts > e)
      <4>1. LastTime(f, p) \in Int /\ LastTime(f, p) >= t
        <5>1. \A a, b, c \in Int : c < a + b => a + b - 1 \in Int /\ a + b - 1 >= c
          OBVIOUS
        <5>. QED  BY <1>0, <1>5, <5>1
      <4>2. ~(LastTime(f, p) < s)
        BY <1>0, <1>6, <4>1
      <4>3. ~(f[p].ts > e)
        BY <1>0, <1>5, <1>6
      <4>4. ~(p + Hdr - 1 > Len(f))
        BY <1>0, <1>5
      <4>. QED  BY <4>2, <4>3, <4>4
    <3>. HIDE DEF rest
    <3>. QED  BY <1>5, <3>1 DEF RowsStep
  <2>2. k \in 1..f[p].n /\ f[p].ts + k - 1 = t
    <3>1. \A a, b, c \in Int : a <= c /\ c < a + b =>
             c - a + 1 \in 1..b /\ a + (c - a + 1) - 1 = c
      OBVIOUS
    <3>2. f[p].ts \in Int /\ f[p].n \in Int /\ t \in Int /\ f[p].ts <= t /\ t < f[p].ts + f[p].n
      BY <1>0, <1>5
    <3>. QED  BY <3>1, <3>2
  <2>3. Rows(f, p) \in Seq(Row) /\ DOMAIN Rows(f, p) = 1..f[p].n /\ Rows(f, p)[k].t = t
    <3>. HIDE DEF k
    <3>. QED  BY <1>0, <1>5, <2>2, RowsAre DEF Offsets
  <2>4. Genuine(Rows(f, p)[k])
    <3>. HIDE DEF k
    <3>. QED  BY <1>2, <1>4, <2>2, WholeCells
  <2>5. w \in Seq(Row) /\ \E j \in DOMAIN w : w[j] = Rows(f, p)[k]
    <3>1. w \in Seq(Row) /\ Keeps(w, Rows(f, p), s, e)
      BY <2>3, WithinIs
    <3>2. k \in DOMAIN Rows(f, p) /\ Rows(f, p)[k].t \in s..e
      <4>. HIDE DEF k
      <4>. QED  BY <2>2, <2>3
    <3>. HIDE DEF k, w
    <3>. QED  BY <3>1, <3>2 DEF Keeps
  <2>6. Shown(w, t)
    <3>. HIDE DEF k, w
    <3>. QED  BY <2>3, <2>4, <2>5 DEF Shown
  <2>. HIDE DEF w, rest
  <2>. QED  BY <1>5, <1>7, <2>1, <2>5, <2>6, ShownInConcat
<1>9. Wrong = {}
  <2>. SUFFICES ASSUME Wrong # {} PROVE FALSE
    OBVIOUS
  <2>1. Wrong \subseteq 0..p
    BY <1>5 DEF OnWay, Offsets
  <2>2. PICK x \in Wrong : \A y \in Wrong : y <= x
    <3>. HIDE DEF Wrong
    <3>. QED  BY <1>5, <2>1, GreatestNatural
  <2>3. x \in Offsets /\ OnWay(f, q, p, x) /\ x # p
    BY <1>8
  <2>4. /\ x + Hdr - 1 <= Len(f)
        /\ Onward(f, x) # 0 /\ OnWay(f, q, p, Onward(f, x)) /\ Onward(f, x) > x
        /\ Complete(f, x) => f[x].ts + f[x].n <= f[p].ts
    BY <1>2, <1>3, <2>3, WayStep DEF sure
  <2>5. Onward(f, x) \in Offsets /\ Onward(f, x) \notin Wrong
    <3>1. Onward(f, x) \in Offsets /\ Onward(f, x) \in Nat /\ x \in Nat
      BY <1>0, <2>3, <2>4, OnwardIs DEF Offsets
    <3>. HIDE DEF Wrong
    <3>. QED  BY <2>2, <2>4, <3>1
  <2>6. Shown(rest(x), t)
    BY <2>4, <2>5
  <2>7. RowsStep(f, x, s, e, rest(x)) = rest(x)
           \/ (Complete(f, x) /\ RowsStep(f, x, s, e, rest(x)) = Within(Rows(f, x), s, e) \o rest(x))
    <3>1. ~(x + Hdr - 1 > Len(f))
      BY <1>0, <1>5, <2>3, <2>4 DEF Offsets
    <3>2. Complete(f, x) => ~(f[x].ts > e)
      <4>. HAVE Complete(f, x)
      <4>1. f[x].ts \in Nat /\ f[x].n \in Nat
        BY <1>0, <2>3, CompleteIs, HeadIs DEF Offsets
      <4>2. f[x].ts + f[x].n <= f[p].ts
        BY <2>4
      <4>3. f[p].ts <= e
        BY <1>0, <1>5, <1>6
      <4>. QED  BY SMTT(20), <1>5, <1>6, <4>1, <4>2, <4>3
    <3>. HIDE DEF rest
    <3>. QED  BY <2>4, <3>1, <3>2 DEF RowsStep
  <2>8. Shown(RowsFrom(f, x, s, e), t)
    <3>1. CASE RowsStep(f, x, s, e, rest(x)) = rest(x)
      <4>. HIDE DEF rest
      <4>. QED  BY <1>7, <2>3, <2>6, <3>1
    <3>2. CASE Complete(f, x) /\ RowsStep(f, x, s, e, rest(x)) = Within(Rows(f, x), s, e) \o rest(x)
      <4>1. Within(Rows(f, x), s, e) \in Seq(Row)
        BY <1>0, <2>3, <3>2, RowsAre, WithinIs DEF Offsets
      <4>. HIDE DEF rest
      <4>. QED  BY <1>7, <2>3, <2>6, <3>2, <4>1, ShownInConcat
    <3>. HIDE DEF rest
    <3>. QED  BY <2>7, <3>1, <3>2
  <2>. QED  BY <2>8
<1>. DEFINE start == SeekNear(f, s)
<1>10. start \in Offsets /\ OnWay(f, q, p, start)
  <2>1. Begins(f, s, start)
    BY <1>0, SeekNearIs
  <2>. HIDE DEF start
  <2>2. CASE start = 1
    <3>1. q >= 1
      BY <1>3, <1>4
    <3>. QED  BY <1>3, <1>5, <2>2, <3>1 DEF OnWay, Offsets
  <2>3. CASE start \in Offsets /\ ValidHeader(f, start) /\ f[start].ts <= s
    <3>1. f[start].ts \in Nat /\ start \in Nat
      BY <1>0, <2>3, HeadIs DEF Offsets
    <3>2. ~(start > p)
      <4>. SUFFICES ASSUME p < start PROVE FALSE
        BY <1>5, <3>1
      <4>1. f[p].ts + f[p].n <= f[start].ts
        BY <1>2, <1>4, <2>3, HeadsRise DEF Offsets
      <4>2. \A a, b, c, d \in Int : a < b /\ b <= c /\ c <= d /\ d <= a => FALSE
        OBVIOUS
      <4>3. s <= t /\ t < f[p].ts + f[p].n /\ f[start].ts <= s
        BY <1>5, <1>6, <2>3
      <4>4. f[p].ts + f[p].n \in Int /\ f[start].ts \in Int
        BY <1>5, <3>1
      <4>. QED  BY <1>0, <1>6, <4>1, <4>2, <4>3, <4>4
    <3>3. start > q => start \in sure
      <4>. HAVE start > q
      <4>1. start \in q..p
        BY <1>5, <3>1, <3>2
      <4>2. PICK h \in sure : h <= start /\ start < h + Size(f, h)
        BY <1>3, <4>1
      <4>3. h \in Whole(f) /\ h \in Nat /\ Size(f, h) \in Nat
        BY <1>0, <1>4, HeadIs DEF Offsets
      <4>4. ~(h < start)
        <5>. SUFFICES ASSUME h < start PROVE FALSE
          OBVIOUS
        <5>1. h + Size(f, h) <= start
          BY <2>3, <4>3, WholeApart DEF Offsets
        <5>. QED  BY <3>1, <4>2, <4>3, <5>1
      <4>. QED  BY <3>1, <4>2, <4>3, <4>4
    <3>. QED  BY <1>5, <2>3, <3>1, <3>2, <3>3 DEF OnWay, sure
  <2>. QED  BY <2>1, <2>2, <2>3 DEF Begins
<1>11. Shown(RowsFrom(f, start, s, e), t)
  <2>. HIDE DEF start
  <2>. QED  BY <1>9, <1>10
<1>. QED  BY <1>11 DEF InFile

-----------------------------------------------------------------------------
(* Files that grow, and files that are cut short.                          *)

LEMMA JoinIs ==
    ASSUME NEW S, NEW f \in Seq(S), NEW g \in Seq(S)
    PROVE  /\ f \o g \in Seq(S) /\ Len(f \o g) = Len(f) + Len(g)
           /\ Len(f) \in Nat /\ Len(g) \in Nat
           /\ DOMAIN f = 1..Len(f) /\ DOMAIN g = 1..Len(g) /\ DOMAIN (f \o g) = 1..Len(f) + Len(g)
           /\ \A i \in 1..Len(f) : (f \o g)[i] = f[i]
           /\ \A i \in 1..Len(g) : (f \o g)[Len(f) + i] = g[i]
           /\ \A i \in Len(f) + 1..Len(f) + Len(g) : i - Len(f) \in 1..Len(g) /\ (f \o g)[i] = g[i - Len(f)]
<1>1. /\ f \o g \in Seq(S) /\ Len(f \o g) = Len(f) + Len(g) /\ Len(f) \in Nat /\ Len(g) \in Nat
      /\ \A i \in 1..Len(f) + Len(g) : (f \o g)[i] = IF i <= Len(f) THEN f[i] ELSE g[i - Len(f)]
  BY ConcatProperties
<1>2. \A i \in 1..Len(f) : (f \o g)[i] = f[i]
  BY <1>1
<1>3. \A i \in 1..Len(g) : (f \o g)[Len(f) + i] = g[i]
  <2>. TAKE i \in 1..Len(g)
  <2>1. Len(f) + i \in 1..Len(f) + Len(g) /\ ~(Len(f) + i <= Len(f)) /\ Len(f) + i - Len(f) = i
    BY <1>1
  <2>. QED  BY <1>1, <2>1
<1>4. \A i \in Len(f) + 1..Len(f) + Len(g) : i - Len(f) \in 1..Len(g) /\ (f \o g)[i] = g[i - Len(f)]
  <2>. TAKE i \in Len(f) + 1..Len(f) + Len(g)
  <2>1. i \in 1..Len(f) + Len(g) /\ ~(i <= Len(f)) /\ i - Len(f) \in 1..Len(g)
    BY <1>1
  <2>. QED  BY <1>1, <2>1
<1>5. DOMAIN f = 1..Len(f) /\ DOMAIN g = 1..Len(g) /\ DOMAIN (f \o g) = 1..Len(f) + Len(g)
  BY <1>1
<1>. QED  BY <1>1, <1>2, <1>3, <1>4, <1>5

(* What is of every cell of f and of every cell of g is of those of both.  *)
LEMMA ConcatCell ==
    ASSUME NEW f \in Seq(Cell), NEW g \in Seq(Cell), NEW i \in DOMAIN (f \o g)
    PROVE  \/ \E j \in DOMAIN f : (f \o g)[i] = f[j]
           \/ \E j \in DOMAIN g : (f \o g)[i] = g[j]
<1>1. i \in 1..Len(f) \/ i \in Len(f) + 1..Len(f) + Len(g)
  BY JoinIs
<1>2. CASE i \in 1..Len(f)
  <2>1. i \in DOMAIN f /\ (f \o g)[i] = f[i]
    BY <1>2, JoinIs
  <2>. QED  BY <2>1
<1>3. CASE i \in Len(f) + 1..Len(f) + Len(g)
  <2>1. i - Len(f) \in DOMAIN g /\ (f \o g)[i] = g[i - Len(f)]
    BY <1>3, JoinIs
  <2>. QED  BY <2>1
<1>. QED  BY <1>1, <1>2, <1>3

LEMMA ConcatApart ==
    ASSUME NEW f \in Seq(Cell), NEW g \in Seq(Cell), NEW h
    PROVE  /\ Apart(f, h) /\ Apart(g, h) => Apart(f \o g, h)
           /\ Apart(h, f) /\ Apart(h, g) => Apart(h, f \o g)
<1>1. ASSUME Apart(f, h), Apart(g, h), NEW i \in DOMAIN (f \o g), NEW j \in DOMAIN h
      PROVE  Earlier((f \o g)[i], h[j])
  BY <1>1, ConcatCell DEF Apart
<1>2. ASSUME Apart(h, f), Apart(h, g), NEW i \in DOMAIN (f \o g), NEW j \in DOMAIN h
      PROVE  Earlier(h[j], (f \o g)[i])
  BY <1>2, ConcatCell DEF Apart
<1>. QED  BY <1>1, <1>2 DEF Apart

LEMMA ConcatTimes ==
    ASSUME NEW f \in Seq(Cell), NEW g \in Seq(Cell), NEW t
    PROVE  /\ Over(f, t) /\ Over(g, t) => Over(f \o g, t)
           /\ Beyond(f, t) /\ Beyond(g, t) => Beyond(f \o g, t)
<1>1. ASSUME Over(f, t), Over(g, t), NEW i \in DOMAIN (f \o g)
      PROVE  (f \o g)[i].ts + (f \o g)[i].n <= t
  BY <1>1, ConcatCell DEF Over
<1>2. ASSUME Beyond(f, t), Beyond(g, t), NEW i \in DOMAIN (f \o g), (f \o g)[i].n > 0
      PROVE  t < (f \o g)[i].ts
  BY <1>2, ConcatCell DEF Beyond
<1>. QED  BY <1>1, <1>2 DEF Over, Beyond

LEMMA FileInvConcat ==
    ASSUME NEW f, NEW g, FileInv(f), FileInv(g), Apart(f, g)
    PROVE  FileInv(f \o g)
<1>. DEFINE h == f \o g
<1>0. f \in Seq(Cell) /\ g \in Seq(Cell)
  BY DEF FileInv
<1>1. /\ h \in Seq(Cell) /\ Len(f) \in Nat /\ Len(g) \in Nat
      /\ DOMAIN f = 1..Len(f) /\ DOMAIN g = 1..Len(g) /\ DOMAIN h = 1..Len(f) + Len(g)
      /\ \A i \in 1..Len(f) : h[i] = f[i]
      /\ \A i \in 1..Len(g) : h[Len(f) + i] = g[i]
      /\ \A i \in Len(f) + 1..Len(f) + Len(g) : i - Len(f) \in 1..Len(g) /\ h[i] = g[i - Len(f)]
  BY <1>0, JoinIs
<1>. HIDE DEF h
<1>2. \A i \in DOMAIN h : i \in 1..Len(f) \/ i \in Len(f) + 1..Len(f) + Len(g)
  BY <1>1
<1>3. \A i \in DOMAIN h : Good(h[i])
  BY <1>1, <1>2 DEF FileInv
<1>4. ASSUME NEW i \in DOMAIN h, NEW j \in DOMAIN h, i < j
      PROVE  Before(h[i], h[j])
  <2>1. CASE j \in 1..Len(f)
    <3>1. i \in 1..Len(f)
      BY <1>1, <1>4, <2>1
    <3>. QED  BY <1>1, <1>4, <2>1, <3>1 DEF FileInv
  <2>2. CASE i \in 1..Len(f) /\ j \in Len(f) + 1..Len(f) + Len(g)
    <3>1. Earlier(f[i], g[j - Len(f)])
      BY <1>1, <2>2 DEF Apart
    <3>. QED  BY <1>1, <2>2, <3>1 DEF Before
  <2>3. CASE i \in Len(f) + 1..Len(f) + Len(g) /\ j \in Len(f) + 1..Len(f) + Len(g)
    <3>1. i - Len(f) \in DOMAIN g /\ j - Len(f) \in DOMAIN g /\ i - Len(f) < j - Len(f)
      BY <1>1, <1>4, <2>3
    <3>2. Before(g[i - Len(f)], g[j - Len(f)])
      BY <3>1 DEF FileInv
    <3>. QED  BY <1>1, <2>3, <3>2
  <2>4. ~(i \in Len(f) + 1..Len(f) + Len(g) /\ j \in 1..Len(f))
    BY <1>1, <1>4
  <2>. QED  BY <1>2, <2>1, <2>2, <2>3, <2>4
<1>5. ASSUME NEW i \in DOMAIN h, h[i].k > 1
      PROVE  Follows(h, i)
  <2>1. CASE i \in 1..Len(f)
    <3>1. f[i].k > 1 /\ i \in DOMAIN f
      BY <1>1, <1>5, <2>1
    <3>2. i > 1 /\ f[i - 1] = [f[i] EXCEPT !.k = f[i].k - 1]
      BY <3>1 DEF FileInv, Follows
    <3>3. i - 1 \in 1..Len(f)
      BY <1>1, <2>1, <3>2
    <3>. QED  BY <1>1, <2>1, <3>2, <3>3 DEF Follows
  <2>2. CASE i \in Len(f) + 1..Len(f) + Len(g)
    <3>. DEFINE m == i - Len(f)
    <3>1. m \in DOMAIN g /\ g[m].k > 1 /\ h[i] = g[m]
      BY <1>1, <1>5, <2>2
    <3>2. m > 1 /\ g[m - 1] = [g[m] EXCEPT !.k = g[m].k - 1]
      BY <3>1 DEF FileInv, Follows
    <3>3. m - 1 \in 1..Len(g) /\ Len(f) + (m - 1) = i - 1 /\ i > 1
      BY SMTT(20), <1>1, <2>2, <3>2
    <3>4. h[i - 1] = g[m - 1]
      BY <1>1, <3>3
    <3>. QED  BY <3>1, <3>2, <3>3, <3>4 DEF Follows
  <2>. QED  BY <1>2, <2>1, <2>2
<1>. QED  BY <1>1, <1>3, <1>4, <1>5 DEF FileInv, h

LEMMA PrefixIs ==
    ASSUME NEW S, NEW f \in Seq(S), NEW k \in 0..Len(f)
    PROVE  /\ SubSeq(f, 1, k) \in Seq(S) /\ Len(SubSeq(f, 1, k)) = k /\ DOMAIN SubSeq(f, 1, k) = 1..k
           /\ \A i \in 1..k : SubSeq(f, 1, k)[i] = f[i] /\ i \in DOMAIN f
<1>1. Len(f) \in Nat /\ DOMAIN f = 1..Len(f) /\ \A i \in 1..Len(f) : f[i] \in S
  OBVIOUS
<1>2. \A i \in 1..k : f[i] \in S /\ i \in DOMAIN f
  BY <1>1
<1>3. /\ SubSeq(f, 1, k) \in Seq(S)
      /\ Len(SubSeq(f, 1, k)) = IF 1 <= k THEN k - 1 + 1 ELSE 0
      /\ \A i \in 1..k - 1 + 1 : SubSeq(f, 1, k)[i] = f[1 + i - 1]
  BY <1>1, <1>2, SubSeqProperties
<1>4. Len(SubSeq(f, 1, k)) = k
  BY <1>1, <1>3
<1>5. DOMAIN SubSeq(f, 1, k) = 1..k
  BY <1>3, <1>4
<1>6. \A i \in 1..k : SubSeq(f, 1, k)[i] = f[i]
  BY <1>1, <1>3
<1>. QED  BY <1>2, <1>3, <1>4, <1>5, <1>6

LEMMA FileInvPrefix ==
    ASSUME NEW f, FileInv(f), NEW k \in 0..Len(f)
    PROVE  FileInv(SubSeq(f, 1, k))
<1>. DEFINE h == SubSeq(f, 1, k)
<1>1. /\ h \in Seq(Cell) /\ DOMAIN h = 1..k /\ k \in Nat /\ f \in Seq(Cell)
      /\ \A i \in 1..k : h[i] = f[i] /\ i \in DOMAIN f
  BY PrefixIs DEF FileInv
<1>. HIDE DEF h
<1>2. \A i \in DOMAIN h : Good(h[i])
  BY <1>1 DEF FileInv
<1>3. \A i, j \in DOMAIN h : i < j => Before(h[i], h[j])
  BY <1>1 DEF FileInv
<1>4. ASSUME NEW i \in DOMAIN h, h[i].k > 1
      PROVE  Follows(h, i)
  <2>1. i > 1 /\ f[i - 1] = [f[i] EXCEPT !.k = f[i].k - 1] /\ h[i] = f[i]
    BY <1>1, <1>4 DEF FileInv, Follows
  <2>2. i - 1 \in 1..k
    BY <1>1, <2>1
  <2>. QED  BY <1>1, <2>1, <2>2 DEF Follows
<1>. QED  BY <1>1, <1>2, <1>3, <1>4 DEF FileInv, h

LEMMA PrefixApart ==
    ASSUME NEW f \in Seq(Cell), NEW k \in 0..Len(f), NEW h, NEW t
    PROVE  /\ Apart(f, h) => Apart(SubSeq(f, 1, k), h)
           /\ Apart(h, f) => Apart(h, SubSeq(f, 1, k))
           /\ Over(f, t) => Over(SubSeq(f, 1, k), t)
           /\ Beyond(f, t) => Beyond(SubSeq(f, 1, k), t)
<1>1. \A i \in DOMAIN SubSeq(f, 1, k) : SubSeq(f, 1, k)[i] = f[i] /\ i \in DOMAIN f
  BY PrefixIs
<1>. QED  BY <1>1 DEF Apart, Over, Beyond

(* The file system's zeros are of no chunk.                                *)
LEMMA ZerosInv ==
    ASSUME NEW j \in Nat
    PROVE  LET z == [i \in 1..j |-> Zero]
           IN  FileInv(z) /\ (\A h : Apart(h, z) /\ Apart(z, h)) /\ (\A t \in Nat : Over(z, t))
<1>. DEFINE z == [i \in 1..j |-> Zero]
<1>1. Zero \in Cell /\ Zero.n = 0 /\ Zero.ts = 0 /\ Zero.k = 0
  BY DEF Zero, Cell
<1>2. z \in [1..j -> Cell] /\ \A i \in 1..j : z[i] = Zero
  BY <1>1
<1>3. z \in Seq(Cell) /\ DOMAIN z = 1..j
  <2>. HIDE DEF z
  <2>. QED  BY <1>2, IsSequence
<1>. HIDE DEF z
<1>4. FileInv(z)
  BY <1>1, <1>2, <1>3 DEF FileInv, Good, Before, Earlier
<1>5. \A h : Apart(h, z) /\ Apart(z, h)
  BY <1>1, <1>2, <1>3 DEF Apart, Earlier
<1>6. \A t \in Nat : Over(z, t)
  BY <1>1, <1>2, <1>3 DEF Over
<1>. QED  BY <1>4, <1>5, <1>6 DEF z

(* The chunk that is written next.                                         *)
LEMMA ChunkInv ==
    ASSUME NEW t \in Nat, t > 0, NEW n \in Nat, n > 0
    PROVE  /\ FileInv(Chunk(t, n)) /\ Over(Chunk(t, n), t + n)
           /\ \A h : Over(h, t) => Apart(h, Chunk(t, n))
           /\ \A u : u < t => Beyond(Chunk(t, n), u)
           /\ DOMAIN Chunk(t, n) = 1..Hdr + n /\ Len(Chunk(t, n)) = Hdr + n
           /\ \A k \in 1..Hdr + n : Chunk(t, n)[k] = [ts |-> t, n |-> n, k |-> k]
<1>. DEFINE c == Chunk(t, n)
            N == Hdr + n
<1>1. Hdr \in Nat /\ N \in Nat
  BY FormatAssumption
<1>2. c = [k \in 1..N |-> [ts |-> t, n |-> n, k |-> k]]
  BY DEF Chunk
<1>3. \A k \in 1..N : c[k] = [ts |-> t, n |-> n, k |-> k] /\ c[k] \in Cell
                   /\ c[k].ts = t /\ c[k].n = n /\ c[k].k = k
  <2>. TAKE k \in 1..N
  <2>1. c[k] = [ts |-> t, n |-> n, k |-> k] /\ k \in Nat
    BY <1>1, <1>2
  <2>. QED  BY <2>1 DEF Cell
<1>4. c \in [1..N -> Cell]
  BY <1>2, <1>3
<1>5. c \in Seq(Cell) /\ DOMAIN c = 1..N /\ Len(c) = N
  <2>. HIDE DEF c, N
  <2>. QED  BY <1>1, <1>4, IsSequence
<1>6. \A i \in DOMAIN c : Good(c[i])
  <2>. TAKE i \in DOMAIN c
  <2>1. c[i].ts = t /\ c[i].n = n /\ c[i].k = i /\ i \in 1..N
    BY <1>3, <1>5
  <2>. QED  BY <2>1 DEF Good
<1>7. \A i, j \in DOMAIN c : i < j => Before(c[i], c[j])
  BY <1>3, <1>5 DEF Before
<1>8. ASSUME NEW i \in DOMAIN c, c[i].k > 1
      PROVE  Follows(c, i)
  <2>1. i > 1 /\ i - 1 \in 1..N /\ c[i].k = i
    BY <1>1, <1>3, <1>5, <1>8
  <2>2. c[i - 1] = [ts |-> t, n |-> n, k |-> i - 1] /\ c[i] = [ts |-> t, n |-> n, k |-> i]
    BY <1>3, <1>5, <2>1
  <2>. QED  BY <2>1, <2>2 DEF Follows
<1>. HIDE DEF c, N
<1>9. FileInv(c)
  BY <1>5, <1>6, <1>7, <1>8 DEF FileInv
<1>10. Over(c, t + n)
  BY <1>3, <1>5 DEF Over
<1>11. \A h : Over(h, t) => Apart(h, c)
  BY <1>3, <1>5 DEF Over, Apart, Earlier
<1>12. \A u : u < t => Beyond(c, u)
  BY <1>3, <1>5 DEF Beyond
<1>. QED  BY <1>3, <1>5, <1>9, <1>10, <1>11, <1>12 DEF c, N

-----------------------------------------------------------------------------
(* What is whole in a file stays so when the file grows, and what is whole
   in the longer file was whole before or is new.                          *)
LEMMA WholeGrown ==
    ASSUME NEW f, NEW g, FileInv(f), FileInv(g), Apart(f, g), NEW p \in Nat \ {0}
    PROVE  /\ p \in Whole(f) => p \in Whole(f \o g)
           /\ p \in Whole(f \o g) /\ p <= Len(f) => p \in Whole(f)
<1>. DEFINE h == f \o g
<1>0. f \in Seq(Cell) /\ g \in Seq(Cell) /\ Hdr \in Nat /\ Hdr > 0
  BY FormatAssumption DEF FileInv
<1>1. /\ h \in Seq(Cell) /\ Len(f) \in Nat /\ Len(g) \in Nat /\ Len(h) = Len(f) + Len(g)
      /\ DOMAIN f = 1..Len(f) /\ DOMAIN g = 1..Len(g) /\ DOMAIN h = 1..Len(f) + Len(g)
      /\ \A i \in 1..Len(f) : h[i] = f[i]
      /\ \A i \in Len(f) + 1..Len(f) + Len(g) : i - Len(f) \in 1..Len(g) /\ h[i] = g[i - Len(f)]
  BY <1>0, JoinIs
<1>2. FileInv(h)
  BY FileInvConcat
<1>. HIDE DEF h
<1>3. ASSUME p \in Whole(f) PROVE p \in Whole(h)
  <2>1. /\ Complete(f, p) /\ ValidHeader(f, p) /\ p \in DOMAIN f
        /\ Size(f, p) \in Nat /\ p + Size(f, p) - 1 <= Len(f) /\ Size(f, p) > Hdr /\ f[p].n > 0
        /\ \A j \in 0..Size(f, p) - 1 :
              f[p + j].ts = f[p].ts /\ f[p + j].n = f[p].n /\ f[p + j].k = j + 1
    BY <1>0, <1>3, WholeCells, CompleteIs, HeadIs
  <2>2. \A j \in 0..Size(f, p) - 1 : p + j \in 1..Len(f)
    BY <1>1, <2>1
  <2>3. h[p] = f[p] /\ Size(h, p) = Size(f, p)
    BY <1>1, <2>1 DEF Size
  <2>4. \A j \in 0..Size(h, p) - 1 : h[p + j] = f[p + j]
    BY <1>1, <2>2, <2>3
  <2>5. \A i \in 0..Hdr - 1 : i \in 0..Size(h, p) - 1
    BY <1>0, <2>1, <2>3
  <2>6. ValidHeader(h, p)
    <3>1. p + Hdr - 1 <= Len(h)
      BY <1>0, <1>1, <2>1
    <3>2. \A i \in 0..Hdr - 1 : h[p + i] = [h[p] EXCEPT !.k = i + 1]
      BY <2>1, <2>3, <2>4, <2>5 DEF ValidHeader
    <3>. QED  BY <2>1, <2>3, <3>1, <3>2 DEF ValidHeader
  <2>7. Complete(h, p)
    BY <1>1, <2>1, <2>3, <2>6 DEF Complete
  <2>8. \A j \in 0..Size(h, p) - 1 :
           h[p + j].ts = h[p].ts /\ h[p + j].n = h[p].n /\ h[p + j].k = j + 1
    BY <2>1, <2>3, <2>4
  <2>. QED  BY <1>2, <2>7, <2>8, WholeIs
<1>4. ASSUME p \in Whole(h), p <= Len(f) PROVE p \in Whole(f)
  <2>1. /\ Complete(h, p) /\ ValidHeader(h, p) /\ p \in 1..Len(f)
        /\ Size(h, p) \in Nat /\ p + Size(h, p) - 1 <= Len(h) /\ Size(h, p) > Hdr
        /\ h[p].n > 0 /\ h[p].n \in Nat /\ h[p].ts \in Nat
        /\ \A j \in 0..Size(h, p) - 1 :
              h[p + j].ts = h[p].ts /\ h[p + j].n = h[p].n /\ h[p + j].k = j + 1
    <3>1. /\ Complete(h, p) /\ ValidHeader(h, p)
          /\ \A j \in 0..Size(h, p) - 1 :
                h[p + j].ts = h[p].ts /\ h[p + j].n = h[p].n /\ h[p + j].k = j + 1
      BY <1>2, <1>4, WholeCells
    <3>2. p + Size(h, p) - 1 <= Len(h)
      BY <3>1 DEF Complete
    <3>3. Size(h, p) \in Nat /\ Size(h, p) > Hdr /\ h[p].n > 0 /\ h[p].n \in Nat /\ h[p].ts \in Nat
      BY <1>1, <3>1, HeadIs
    <3>4. p \in 1..Len(f)
      BY <1>1, <1>4
    <3>. QED  BY <3>1, <3>2, <3>3, <3>4
  <2>2. h[p] = f[p] /\ Size(h, p) = Size(f, p)
    BY <1>1, <2>1 DEF Size
  <2>3. p + Size(h, p) - 1 <= Len(f)
    <3>. SUFFICES ASSUME p + Size(h, p) - 1 > Len(f) PROVE FALSE
      BY <1>1, <2>1
    <3>. DEFINE j == Size(h, p) - 1
                m == p + j - Len(f)
    <3>1. j \in 0..Size(h, p) - 1 /\ p + j \in Len(f) + 1..Len(f) + Len(g)
      <4>1. Size(h, p) \in Nat /\ Size(h, p) > 0 /\ p \in Nat
        BY <1>0, <2>1
      <4>2. j \in 0..Size(h, p) - 1
        BY <4>1
      <4>3. p + j > Len(f) /\ p + j <= Len(f) + Len(g) /\ p + j \in Int
        BY <1>1, <2>1, <4>1
      <4>. QED  BY <1>1, <4>2, <4>3
    <3>2. m \in DOMAIN g /\ h[p + j] = g[m]
      <4>. HIDE DEF j
      <4>. QED  BY <1>1, <3>1
    <3>3. g[m].ts = f[p].ts /\ g[m].n = f[p].n
      <4>. HIDE DEF j, m
      <4>. QED  BY <2>1, <2>2, <3>1, <3>2
    <3>4. Earlier(f[p], g[m])
      <4>. HIDE DEF m
      <4>. QED  BY <1>1, <2>1, <3>2 DEF Apart
    <3>. HIDE DEF m
    <3>. QED  BY <2>1, <2>2, <3>3, <3>4 DEF Earlier
  <2>4. \A j \in 0..Size(f, p) - 1 : p + j \in 1..Len(f) /\ h[p + j] = f[p + j]
    BY <1>1, <2>1, <2>2, <2>3
  <2>5. \A i \in 0..Hdr - 1 : i \in 0..Size(f, p) - 1
    BY <1>0, <2>1, <2>2
  <2>6. ValidHeader(f, p)
    <3>1. p + Hdr - 1 <= Len(f)
      BY <1>0, <1>1, <2>1, <2>3
    <3>2. \A i \in 0..Hdr - 1 : f[p + i] = [f[p] EXCEPT !.k = i + 1]
      BY <2>1, <2>2, <2>4, <2>5 DEF ValidHeader
    <3>. QED  BY <2>1, <2>2, <3>1, <3>2 DEF ValidHeader
  <2>7. Complete(f, p)
    BY <2>2, <2>3, <2>6 DEF Complete
  <2>8. \A j \in 0..Size(f, p) - 1 :
           f[p + j].ts = f[p].ts /\ f[p + j].n = f[p].n /\ f[p + j].k = j + 1
    BY <2>1, <2>2, <2>4
  <2>. QED  BY <2>7, <2>8, WholeIs
<1>. QED  BY <1>3, <1>4 DEF h

(* The times recorded in a file that grew are old or those of the new cells. *)
LEMMA RecordedGrown ==
    ASSUME NEW f, NEW g, FileInv(f), FileInv(g), Apart(f, g),
           NEW t, t \in Recorded(f \o g), Beyond(g, t)
    PROVE  t \in Recorded(f)
<1>. DEFINE h == f \o g
<1>0. f \in Seq(Cell) /\ g \in Seq(Cell) /\ FileInv(h)
  BY FileInvConcat DEF FileInv
<1>1. /\ h \in Seq(Cell) /\ Len(f) \in Nat /\ Len(g) \in Nat /\ DOMAIN h = 1..Len(f) + Len(g)
      /\ DOMAIN g = 1..Len(g)
      /\ \A i \in 1..Len(f) : h[i] = f[i]
      /\ \A i \in Len(f) + 1..Len(f) + Len(g) : i - Len(f) \in 1..Len(g) /\ h[i] = g[i - Len(f)]
  BY <1>0, JoinIs
<1>2. PICK p \in Whole(h) : t \in h[p].ts..LastTime(h, p)
  BY DEF Recorded, TimesOf
<1>. HIDE DEF h
<1>3. p \in 1..Len(f) + Len(g) /\ h[p].n > 0 /\ h[p].ts \in Nat /\ h[p].n \in Nat /\ LastTime(h, p) \in Nat
  BY <1>0, <1>1, <1>2, WholeCells, HeadIs
<1>4. t \in Int /\ h[p].ts <= t
  BY <1>2, <1>3
<1>5. CASE p <= Len(f)
  <2>1. p \in Whole(f) /\ h[p] = f[p]
    BY <1>1, <1>3, <1>5, WholeGrown DEF h
  <2>2. LastTime(h, p) = LastTime(f, p)
    BY <2>1 DEF LastTime
  <2>. QED  BY <1>2, <2>1, <2>2 DEF Recorded, TimesOf
<1>6. CASE p > Len(f)
  <2>1. p - Len(f) \in DOMAIN g /\ h[p] = g[p - Len(f)]
    BY <1>1, <1>3, <1>6
  <2>2. t < h[p].ts
    BY <1>3, <2>1 DEF Beyond
  <2>. QED  BY <1>3, <1>4, <2>2
<1>. QED  BY <1>1, <1>3, <1>5, <1>6

(* What can be found among fewer false headers can be found among these.   *)
LEMMA FindableMore ==
    ASSUME NEW f, NEW g, NEW A, NEW B, Unclaimed(f, A) \subseteq Unclaimed(g, B),
           \A p \in Unclaimed(f, A) : g[p] = f[p]
    PROVE  TimesOf(f, Findable(f, A)) \subseteq TimesOf(g, Findable(g, B))
<1>1. \A p \in Unclaimed(f, A) : Size(g, p) = Size(f, p) /\ LastTime(g, p) = LastTime(f, p)
  BY DEF Size, LastTime
<1>2. Findable(f, A) \subseteq Findable(g, B)
  <2>. SUFFICES ASSUME NEW p \in Findable(f, A) PROVE p \in Findable(g, B)
    OBVIOUS
  <2>1. p \in Unclaimed(f, A)
    BY DEF Findable
  <2>2. PICK q \in Unclaimed(f, A) :
           /\ q <= p /\ (q = 1 \/ f[q].ts \notin Round)
           /\ \A i \in q..p : \E h \in Unclaimed(f, A) : h <= i /\ i < h + Size(f, h)
    BY DEF Findable
  <2>3. q \in Unclaimed(g, B) /\ (q = 1 \/ g[q].ts \notin Round)
    BY <2>2
  <2>4. \A i \in q..p : \E h \in Unclaimed(g, B) : h <= i /\ i < h + Size(g, h)
    <3>. TAKE i \in q..p
    <3>1. PICK h \in Unclaimed(f, A) : h <= i /\ i < h + Size(f, h)
      BY <2>2
    <3>2. Size(g, h) = Size(f, h) /\ h \in Unclaimed(g, B)
      BY <1>1
    <3>. QED  BY <3>1, <3>2
  <2>. QED  BY <2>1, <2>2, <2>3, <2>4 DEF Findable
<1>3. \A p \in Findable(f, A) : g[p] = f[p] /\ LastTime(g, p) = LastTime(f, p)
  BY <1>1 DEF Findable
<1>. QED  BY <1>2, <1>3 DEF TimesOf

LEMMA LastingReadable ==
    ASSUME NEW f, FileInv(f)
    PROVE  Lasting(f) \subseteq Readable(f)
<1>1. Torn(f) \subseteq Cut(f)
  BY DEF Torn, Cut, Complete
<1>2. Unclaimed(f, Cut(f)) \subseteq Unclaimed(f, Torn(f))
  BY <1>1 DEF Unclaimed
<1>. QED  BY <1>2, FindableMore DEF Lasting, Readable

(* What lasts is found whatever is appended.                               *)
LEMMA LastingGrown ==
    ASSUME NEW f, NEW g, FileInv(f), FileInv(g), Apart(f, g)
    PROVE  Lasting(f) \subseteq Lasting(f \o g)
<1>. DEFINE h == f \o g
<1>0. f \in Seq(Cell) /\ g \in Seq(Cell) /\ Hdr \in Nat /\ Hdr > 0 /\ FileInv(h)
  BY FormatAssumption, FileInvConcat DEF FileInv
<1>1. /\ h \in Seq(Cell) /\ Len(f) \in Nat /\ Len(g) \in Nat
      /\ DOMAIN f = 1..Len(f) /\ DOMAIN h = 1..Len(f) + Len(g)
      /\ \A i \in 1..Len(f) : h[i] = f[i]
  BY <1>0, JoinIs
<1>2. \A p \in Whole(f) : p \in Whole(h) /\ h[p] = f[p] /\ p \in 1..Len(f) /\ f[p].k = 1
  <2>. TAKE p \in Whole(f)
  <2>1. p \in Nat \ {0} /\ ValidHeader(f, p)
    BY WholeCells
  <2>2. p \in 1..Len(f) /\ f[p].k = 1
    BY <1>0, <2>1, HeadIs
  <2>. QED  BY <1>1, <2>1, <2>2, WholeGrown
<1>. HIDE DEF h
<1>3. ASSUME NEW p \in Unclaimed(f, Cut(f)), NEW q \in Cut(h), q < p
      PROVE  q + Size(h, q) <= p
  <2>1. p \in Whole(f) /\ p \in 1..Len(f) /\ f[p].k = 1 /\ h[p] = f[p]
    BY <1>2 DEF Unclaimed
  <2>2. q \in Nat \ {0} /\ ValidHeader(h, q) /\ q \notin Whole(h)
    BY <1>1 DEF Cut
  <2>3. \A i \in 0..Hdr - 1 : h[q + i].k = i + 1
    BY <1>1, <2>2, HeadIs
  <2>4. q + Hdr - 1 < p
    <3>. SUFFICES ASSUME q + Hdr - 1 >= p PROVE FALSE
      BY <1>0, <2>1, <2>2
    <3>1. p - q \in 0..Hdr - 1 /\ q + (p - q) = p /\ p - q > 0
      BY <1>0, <1>3, <2>1, <2>2
    <3>2. h[p].k = p - q + 1
      BY <2>3, <3>1
    <3>. QED  BY <2>1, <3>1, <3>2
  <2>5. q \in 1..Len(f) /\ q + Hdr - 1 <= Len(f) /\ h[q] = f[q]
    BY <1>0, <1>1, <2>1, <2>2, <2>4
  <2>6. \A i \in 0..Hdr - 1 : h[q + i] = f[q + i]
    <3>. TAKE i \in 0..Hdr - 1
    <3>1. q + i \in 1..Len(f)
      BY <1>0, <2>2, <2>5
    <3>. QED  BY <1>1, <3>1
  <2>7. ValidHeader(f, q)
    BY <2>2, <2>5, <2>6 DEF ValidHeader
  <2>8. q \notin Whole(f)
    BY <1>2, <2>2
  <2>9. q \in Cut(f)
    BY <1>1, <2>5, <2>7, <2>8 DEF Cut
  <2>10. q + Size(f, q) <= p
    BY <1>3, <2>9 DEF Unclaimed
  <2>. QED  BY <2>5, <2>10 DEF Size
<1>4. Unclaimed(f, Cut(f)) \subseteq Unclaimed(h, Cut(h))
  BY <1>2, <1>3 DEF Unclaimed
<1>5. \A p \in Unclaimed(f, Cut(f)) : h[p] = f[p]
  BY <1>2 DEF Unclaimed
<1>. QED  BY <1>4, <1>5, FindableMore DEF Lasting, h

-----------------------------------------------------------------------------
(* The inductive invariant.                                                *)

(* A row per time.                                                         *)
Single(r) == \A i, j \in DOMAIN r : r[i].t = r[j].t => r[i] = r[j]
Rising(r) == \A i, j \in DOMAIN r : i < j => r[i].t < r[j].t

FilesInv ==
    /\ FileInv(old) /\ FileInv(cur) /\ FileInv(buf)
    /\ Apart(old, cur) /\ Apart(old, buf) /\ Apart(cur, buf)
    /\ Over(old, clock) /\ Over(cur, clock) /\ Over(buf, clock)
    /\ clock > 0

(* A row read is within the window, recorded by now, not among what is still
   to be written, and what was recorded if that is still to be read.       *)
RowInv(r) ==
    /\ r.t \in lo..hi /\ r.t < clock /\ Beyond(buf, r.t)
    /\ Genuine(r) \/ r.t \notin Recorded(old) \cup Recorded(cur)

RowsInv ==
    /\ web # "idle" => \A i \in DOMAIN rows : RowInv(rows[i])
    /\ web = "between" =>
          /\ Single(rows)
          /\ \A i \in DOMAIN rows : Beyond(cur, rows[i].t)
          /\ \A t \in due \cap lo..hi : Shown(rows, t) \/ t \in Lasting(cur)
    /\ web = "done" =>
          /\ \A t \in due \cap lo..hi : Shown(rows, t)
          /\ Rising(rows)

StoreInv == TypeOK /\ FilesInv /\ RowsInv

-----------------------------------------------------------------------------
LEMMA EmptyInv ==
    /\ FileInv(<<>>) /\ Recorded(<<>>) = {}
    /\ \A h : Apart(<<>>, h) /\ Apart(h, <<>>)
    /\ \A t : Over(<<>>, t) /\ Beyond(<<>>, t)
<1>1. <<>> \in Seq(Cell) /\ DOMAIN <<>> = {}
  OBVIOUS
<1>2. Whole(<<>>) = {}
  BY <1>1 DEF Whole
<1>. QED  BY <1>1, <1>2 DEF FileInv, Recorded, TimesOf, Apart, Over, Beyond

(* The clock only makes room.                                              *)
LEMMA OverLater ==
    ASSUME NEW f \in Seq(Cell), NEW t \in Nat, NEW u \in Nat, t <= u, Over(f, t)
    PROVE  Over(f, u)
<1>1. \A i \in DOMAIN f : f[i].ts \in Nat /\ f[i].n \in Nat
  BY CellIs
<1>. QED  BY <1>1 DEF Over

(* A row read from a file is older than what is behind the file.           *)
LEMMA FromOlder ==
    ASSUME NEW f, FileInv(f), NEW r, FromChunk(f, r)
    PROVE  /\ r.t \in Int
           /\ \A t \in Nat : Over(f, t) => r.t < t
           /\ \A g : g \in Seq(Cell) /\ Apart(f, g) => Beyond(g, r.t)
<1>1. PICK q \in Offsets : Complete(f, q) /\ \E k \in 1..f[q].n : r = Rows(f, q)[k]
  BY DEF FromChunk
<1>2. /\ q \in DOMAIN f /\ f[q].n > 0 /\ f[q].ts \in Nat /\ f[q].n \in Nat
      /\ r.t \in Int /\ f[q].ts + f[q].n > r.t
  BY <1>1, ChunkRow
<1>3. ASSUME NEW t \in Nat, Over(f, t) PROVE r.t < t
  BY <1>2, <1>3 DEF Over
<1>4. ASSUME NEW g, g \in Seq(Cell), Apart(f, g) PROVE Beyond(g, r.t)
  <2>. SUFFICES ASSUME NEW i \in DOMAIN g, g[i].n > 0 PROVE r.t < g[i].ts
    BY DEF Beyond
  <2>1. Earlier(f[q], g[i]) /\ g[i].ts \in Nat /\ g[i].n \in Nat
    BY <1>2, <1>4, CellIs DEF Apart
  <2>. QED  BY <1>2, <2>1 DEF Earlier
<1>. QED  BY <1>2, <1>3, <1>4

(* What is beyond a time is not of that time ...                           *)
LEMMA NotRecorded ==
    ASSUME NEW f, FileInv(f), NEW t \in Int, Beyond(f, t)
    PROVE  t \notin Recorded(f)
<1>. SUFFICES ASSUME t \in Recorded(f) PROVE FALSE
  OBVIOUS
<1>1. PICK p \in Whole(f) : t \in f[p].ts..LastTime(f, p)
  BY DEF Recorded, TimesOf
<1>2. p \in DOMAIN f /\ f[p].n > 0 /\ f[p].ts \in Nat /\ LastTime(f, p) \in Nat
  BY <1>1, WholeCells, HeadIs DEF FileInv
<1>. QED  BY <1>1, <1>2 DEF Beyond

(* ... and the rows of the later file are not of the earlier one.          *)
LEMMA FromLater ==
    ASSUME NEW f, NEW g, FileInv(f), FileInv(g), Apart(f, g), NEW r, FromChunk(g, r)
    PROVE  r.t \notin Recorded(f)
<1>. SUFFICES ASSUME r.t \in Recorded(f) PROVE FALSE
  OBVIOUS
<1>1. PICK p \in Whole(f) : r.t \in f[p].ts..LastTime(f, p)
  BY DEF Recorded, TimesOf
<1>2. /\ p \in DOMAIN f /\ f[p].n > 0 /\ f[p].ts \in Nat /\ f[p].n \in Nat
      /\ LastTime(f, p) = f[p].ts + f[p].n - 1
  BY <1>1, WholeCells, HeadIs DEF FileInv, LastTime
<1>3. PICK q \in Offsets : Complete(g, q) /\ \E k \in 1..g[q].n : r = Rows(g, q)[k]
  BY DEF FromChunk
<1>4. /\ q \in DOMAIN g /\ g[q].n > 0 /\ g[q].ts \in Nat /\ g[q].n \in Nat
      /\ r.t \in Int /\ r.t \in g[q].ts..LastTime(g, q) /\ LastTime(g, q) = g[q].ts + g[q].n - 1
  BY <1>3, ChunkRow DEF LastTime
<1>5. Earlier(f[p], g[q])
  BY <1>2, <1>4 DEF Apart
<1>. QED  BY <1>1, <1>2, <1>4, <1>5 DEF Earlier

-----------------------------------------------------------------------------
(* The steps that leave the reader alone.                                  *)

LEMMA RowsKept ==
    ASSUME TypeOK, RowsInv, UNCHANGED reader, clock' \in Nat,
           \A t \in Int : t < clock /\ Beyond(buf, t) =>
              /\ t < clock' /\ Beyond(buf', t)
              /\ t \in Recorded(old') \cup Recorded(cur') => t \in Recorded(old) \cup Recorded(cur)
              /\ Beyond(cur, t) => Beyond(cur', t),
           due' \subseteq due, due' \cap Lasting(cur) \subseteq Lasting(cur')
    PROVE  RowsInv'
<1>1. web' = web /\ lo' = lo /\ hi' = hi /\ rows' = rows
  BY DEF reader
<1>2. \A i \in DOMAIN rows : rows[i].t \in Int
  <2>1. rows \in Seq(Row)
    BY DEF TypeOK, Row
  <2>2. \A i \in DOMAIN rows : rows[i] \in Row
    BY <2>1
  <2>. QED  BY <2>2 DEF Row
<1>3. ASSUME web # "idle", NEW i \in DOMAIN rows
      PROVE  /\ RowInv(rows[i])'
             /\ Beyond(cur, rows[i].t) => Beyond(cur', rows[i].t)
  <2>1. RowInv(rows[i])
    BY <1>3 DEF RowsInv
  <2>. QED  BY <1>1, <1>2, <2>1 DEF RowInv
<1>4. ASSUME web = "between"
      PROVE  /\ Single(rows)
             /\ \A i \in DOMAIN rows : Beyond(cur', rows[i].t)
             /\ \A t \in due' \cap lo..hi : Shown(rows, t) \/ t \in Lasting(cur')
  BY <1>3, <1>4 DEF RowsInv
<1>5. ASSUME web = "done"
      PROVE  (\A t \in due' \cap lo..hi : Shown(rows, t)) /\ Rising(rows)
  BY <1>5 DEF RowsInv
<1>. QED  BY <1>1, <1>3, <1>4, <1>5 DEF RowsInv

(* Appending to decimated.bin what is behind it.                           *)
LEMMA Appended ==
    ASSUME TypeOK, FilesInv, NEW g, FileInv(g), Apart(old, g), Apart(cur, g),
           NEW c \in Nat, clock <= c, Over(g, c)
    PROVE  /\ FileInv(cur \o g) /\ Apart(old, cur \o g)
           /\ Over(old, c) /\ Over(cur \o g, c)
           /\ Lasting(cur) \subseteq Lasting(cur \o g)
           /\ \A t \in Int : Beyond(g, t) =>
                 /\ t \in Recorded(cur \o g) => t \in Recorded(cur)
                 /\ Beyond(cur, t) => Beyond(cur \o g, t)
<1>1. old \in Seq(Cell) /\ cur \in Seq(Cell) /\ g \in Seq(Cell) /\ clock \in Nat
  BY DEF TypeOK, FileInv
<1>2. Over(old, c) /\ Over(cur, c)
  BY <1>1, OverLater DEF FilesInv
<1>3. FileInv(cur) /\ Apart(old, cur)
  BY DEF FilesInv
<1>4. FileInv(cur \o g) /\ Lasting(cur) \subseteq Lasting(cur \o g)
  BY <1>3, FileInvConcat, LastingGrown
<1>5. Apart(old, cur \o g) /\ Over(cur \o g, c)
  BY <1>1, <1>2, <1>3, ConcatApart, ConcatTimes
<1>6. \A t \in Int : Beyond(g, t) =>
                 /\ t \in Recorded(cur \o g) => t \in Recorded(cur)
                 /\ Beyond(cur, t) => Beyond(cur \o g, t)
  BY <1>1, <1>3, RecordedGrown, ConcatTimes
<1>. QED  BY <1>2, <1>4, <1>5, <1>6

(* What the next write has to append.                                      *)
LEMMA Pending ==
    ASSUME TypeOK, FilesInv, NEW n \in Nat, n > 0, NEW g, g = buf \o Chunk(clock, n)
    PROVE  /\ FileInv(g) /\ Apart(old, g) /\ Apart(cur, g) /\ Over(g, clock + n)
           /\ \A t \in Int : t < clock /\ Beyond(buf, t) => Beyond(g, t)
<1>. DEFINE c == Chunk(clock, n)
<1>1. /\ clock \in Nat /\ clock > 0 /\ clock + n \in Nat /\ clock <= clock + n
      /\ FileInv(buf) /\ buf \in Seq(Cell)
      /\ Apart(old, buf) /\ Apart(cur, buf)
      /\ Over(old, clock) /\ Over(cur, clock) /\ Over(buf, clock)
  BY DEF TypeOK, FilesInv
<1>2. /\ FileInv(c) /\ Over(c, clock + n) /\ Apart(old, c) /\ Apart(cur, c) /\ Apart(buf, c)
      /\ \A t : t < clock => Beyond(c, t)
  BY <1>1, ChunkInv
<1>3. c \in Seq(Cell)
  BY <1>2 DEF FileInv
<1>. HIDE DEF c
<1>4. g = buf \o c
  BY DEF c
<1>5. FileInv(g)
  BY <1>1, <1>2, <1>4, FileInvConcat
<1>6. Apart(old, g) /\ Apart(cur, g)
  BY <1>1, <1>2, <1>3, <1>4, ConcatApart
<1>7. Over(buf, clock + n)
  BY <1>1, OverLater
<1>8. Over(g, clock + n)
  BY <1>1, <1>2, <1>3, <1>4, <1>7, ConcatTimes
<1>9. \A t \in Int : t < clock /\ Beyond(buf, t) => Beyond(g, t)
  BY <1>1, <1>2, <1>3, <1>4, ConcatTimes
<1>. QED  BY <1>5, <1>6, <1>8, <1>9

-----------------------------------------------------------------------------
(* One lemma per action.                                                   *)

LEMMA InitInv == Init => StoreInv
<1>. SUFFICES ASSUME Init PROVE StoreInv
  OBVIOUS
<1>1. TypeOK
  <2>1. 0 \in 0..MaxStarts /\ 0 \in 0..MaxTears
    BY StoreAssumption
  <2>2. <<>> \in Seq(Cell) /\ <<>> \in Seq([t : Int, cell : Cell])
    OBVIOUS
  <2>3. {} \subseteq Nat /\ 1 \in Nat /\ 0 \in Nat
    OBVIOUS
  <2>. QED  BY <2>1, <2>2, <2>3 DEF Init, TypeOK
<1>2. FilesInv
  BY EmptyInv DEF Init, FilesInv
<1>3. RowsInv
  BY DEF Init, RowsInv
<1>. QED  BY <1>1, <1>2, <1>3 DEF StoreInv

LEMMA StartInv == StoreInv /\ Start => StoreInv'
<1>. SUFFICES ASSUME StoreInv, Start PROVE StoreInv'
  OBVIOUS
<1>. USE DEF StoreInv
<1>1. clock' \in Nat /\ clock <= clock' /\ clock < clock' /\ clock \in Nat
  BY DEF Start, TypeOK
<1>2. TypeOK'
  <2>1. starts' \in 0..MaxStarts
    BY StoreAssumption DEF Start, TypeOK
  <2>2. /\ logger' = "up" /\ err' = FALSE
        /\ UNCHANGED <<cur, old, buf, web, lo, hi, rows, tears, due>>
    BY DEF Start, files, reader
  <2>. QED  BY <1>1, <2>1, <2>2 DEF TypeOK
<1>3. old' = old /\ cur' = cur /\ buf' = buf /\ due' = due
  BY DEF Start, files
<1>4. Over(old, clock') /\ Over(cur, clock') /\ Over(buf, clock')
  BY <1>1, OverLater DEF TypeOK, FilesInv
<1>5. FilesInv'
  BY <1>1, <1>3, <1>4 DEF FilesInv
<1>6. \A t \in Int : t < clock => t < clock'
  BY <1>1
<1>7. RowsInv'
  BY <1>1, <1>3, <1>6, RowsKept DEF Start
<1>. QED  BY <1>2, <1>5, <1>7

(* What a write does to the files, whatever becomes of it.                 *)
LEMMA WriteInv ==
    ASSUME StoreInv, NEW n \in Nat, n > 0, Write(n), UNCHANGED reader
    PROVE  /\ cur' \in Seq(Cell) /\ old' \in Seq(Cell) /\ buf' \in Seq(Cell)
           /\ err' \in BOOLEAN /\ clock' \in Nat /\ tears' \in 0..MaxTears /\ due' \subseteq Nat
           /\ FilesInv' /\ RowsInv'
<1>. DEFINE g == buf \o Chunk(clock, n)
<1>. USE DEF StoreInv
<1>1. clock \in Nat /\ clock' = clock + n /\ clock' \in Nat /\ clock < clock' /\ clock <= clock' /\ clock' > 0
  BY DEF TypeOK, Write
<1>2. /\ FileInv(g) /\ Apart(old, g) /\ Apart(cur, g) /\ Over(g, clock')
      /\ \A t \in Int : t < clock /\ Beyond(buf, t) => Beyond(g, t)
  BY <1>1, Pending
<1>3. \/ err /\ err' = FALSE /\ buf' = g /\ UNCHANGED <<files, tears, due>>
      \/ ~err /\ buf' = <<>> /\ Rotate(cur \o g) /\ UNCHANGED <<err, tears>>
      \/ /\ ~err /\ tears < MaxTears /\ tears' = tears + 1 /\ err' = TRUE /\ buf' = <<>>
         /\ \E k \in 0..Len(g) - 1 : cur' = cur \o SubSeq(g, 1, k)
         /\ UNCHANGED <<old, due>>
  BY DEF Write
<1>. HIDE DEF g
<1>4. g \in Seq(Cell) /\ Len(g) \in Nat
  BY <1>2 DEF FileInv
<1>5. \A t \in Int : t < clock => t < clock'
  BY <1>1
<1>6. /\ cur \in Seq(Cell) /\ old \in Seq(Cell) /\ err \in BOOLEAN /\ tears \in 0..MaxTears
      /\ due \subseteq Nat
  BY DEF TypeOK
<1>7. CASE err /\ err' = FALSE /\ buf' = g /\ UNCHANGED <<files, tears, due>>
  <2>1. old' = old /\ cur' = cur /\ due' = due /\ tears' = tears
    BY <1>7 DEF files
  <2>2. FilesInv'
    <3>1. Over(old, clock') /\ Over(cur, clock')
      BY <1>1, <1>6, OverLater DEF FilesInv
    <3>. QED  BY <1>1, <1>2, <1>7, <2>1, <3>1 DEF FilesInv
  <2>3. RowsInv'
    BY <1>1, <1>2, <1>5, <1>7, <2>1, RowsKept
  <2>. QED  BY <1>1, <1>4, <1>6, <1>7, <2>1, <2>2, <2>3
<1>8. CASE ~err /\ buf' = <<>> /\ Rotate(cur \o g) /\ UNCHANGED <<err, tears>>
  <2>. DEFINE f == cur \o g
  <2>1. /\ FileInv(f) /\ Apart(old, f) /\ Over(old, clock') /\ Over(f, clock')
        /\ Lasting(cur) \subseteq Lasting(f)
        /\ \A t \in Int : Beyond(g, t) =>
              /\ t \in Recorded(f) => t \in Recorded(cur)
              /\ Beyond(cur, t) => Beyond(f, t)
    BY <1>1, <1>2, Appended
  <2>2. \/ old' = f /\ cur' = <<>> /\ due' = due \ Lasting(cur)
        \/ cur' = f /\ old' = old /\ due' = due
    BY <1>8 DEF Rotate
  <2>. HIDE DEF f
  <2>3. f \in Seq(Cell) /\ FileInv(old)
    BY <2>1 DEF FileInv, FilesInv
  <2>4. FilesInv'
    BY <1>1, <1>8, <2>1, <2>2, <2>3, EmptyInv DEF FilesInv
  <2>5. CASE old' = f /\ cur' = <<>> /\ due' = due \ Lasting(cur)
    <3>1. \A t \in Int : t < clock /\ Beyond(buf, t) =>
              /\ t < clock' /\ Beyond(buf', t)
              /\ t \in Recorded(old') \cup Recorded(cur') => t \in Recorded(old) \cup Recorded(cur)
              /\ Beyond(cur, t) => Beyond(cur', t)
      BY <1>2, <1>5, <1>8, <2>1, <2>5, EmptyInv
    <3>2. due' \subseteq due /\ due' \cap Lasting(cur) \subseteq Lasting(cur')
      BY <2>5
    <3>3. RowsInv'
      BY <1>1, <3>1, <3>2, RowsKept
    <3>4. old' \in Seq(Cell)
      BY <2>3, <2>5
    <3>5. cur' \in Seq(Cell)
      BY <2>5
    <3>6. due' \subseteq Nat
      BY <1>6, <2>5
    <3>7. buf' \in Seq(Cell) /\ err' \in BOOLEAN /\ tears' \in 0..MaxTears
      BY <1>6, <1>8
    <3>. QED  BY <1>1, <2>4, <3>3, <3>4, <3>5, <3>6, <3>7
  <2>6. CASE cur' = f /\ old' = old /\ due' = due
    <3>1. \A t \in Int : t < clock /\ Beyond(buf, t) =>
              /\ t < clock' /\ Beyond(buf', t)
              /\ t \in Recorded(old') \cup Recorded(cur') => t \in Recorded(old) \cup Recorded(cur)
              /\ Beyond(cur, t) => Beyond(cur', t)
      BY <1>2, <1>5, <1>8, <2>1, <2>6, EmptyInv
    <3>2. due' \subseteq due /\ due' \cap Lasting(cur) \subseteq Lasting(cur')
      BY <2>1, <2>6
    <3>3. RowsInv'
      BY <1>1, <3>1, <3>2, RowsKept
    <3>. QED  BY <1>1, <1>6, <1>8, <2>3, <2>4, <2>6, <3>3
  <2>. QED  BY <2>2, <2>5, <2>6
<1>9. CASE /\ ~err /\ tears < MaxTears /\ tears' = tears + 1 /\ err' = TRUE /\ buf' = <<>>
           /\ \E k \in 0..Len(g) - 1 : cur' = cur \o SubSeq(g, 1, k)
           /\ UNCHANGED <<old, due>>
  <2>1. PICK k \in 0..Len(g) - 1 : cur' = cur \o SubSeq(g, 1, k)
    BY <1>9
  <2>2. k \in 0..Len(g)
    BY <1>4
  <2>. DEFINE h == SubSeq(g, 1, k)
              f == cur \o h
  <2>3. /\ FileInv(h) /\ Apart(old, h) /\ Apart(cur, h) /\ Over(h, clock')
        /\ \A t \in Int : t < clock /\ Beyond(buf, t) => Beyond(h, t)
    BY <1>2, <1>4, <2>2, FileInvPrefix, PrefixApart
  <2>. HIDE DEF h
  <2>4. /\ FileInv(f) /\ Apart(old, f) /\ Over(old, clock') /\ Over(f, clock')
        /\ Lasting(cur) \subseteq Lasting(f)
        /\ \A t \in Int : Beyond(h, t) =>
              /\ t \in Recorded(f) => t \in Recorded(cur)
              /\ Beyond(cur, t) => Beyond(f, t)
    BY <1>1, <2>3, Appended
  <2>5. cur' = f /\ old' = old /\ due' = due
    BY <1>9, <2>1 DEF h
  <2>. HIDE DEF f
  <2>6. f \in Seq(Cell) /\ FileInv(old)
    BY <2>4 DEF FileInv, FilesInv
  <2>7. FilesInv'
    BY <1>1, <1>9, <2>4, <2>5, <2>6, EmptyInv DEF FilesInv
  <2>8. \A t \in Int : t < clock /\ Beyond(buf, t) =>
              /\ t < clock' /\ Beyond(buf', t)
              /\ t \in Recorded(old') \cup Recorded(cur') => t \in Recorded(old) \cup Recorded(cur)
              /\ Beyond(cur, t) => Beyond(cur', t)
    BY <1>5, <1>9, <2>3, <2>4, <2>5, EmptyInv
  <2>9. RowsInv'
    BY <1>1, <2>4, <2>5, <2>8, RowsKept
  <2>10. tears' \in 0..MaxTears
    <3>1. tears < MaxTears /\ tears' = tears + 1 /\ tears \in 0..MaxTears /\ MaxTears \in Nat
      BY <1>6, <1>9, StoreAssumption
    <3>. QED  BY <3>1
  <2>11. cur' \in Seq(Cell) /\ old' \in Seq(Cell) /\ due' \subseteq Nat
    BY <1>6, <2>5, <2>6
  <2>12. buf' \in Seq(Cell) /\ err' \in BOOLEAN
    BY <1>9
  <2>. QED  BY <1>1, <2>7, <2>9, <2>10, <2>11, <2>12
<1>. QED  BY <1>3, <1>7, <1>8, <1>9

LEMMA WriteFullInv == StoreInv /\ WriteFull => StoreInv'
<1>. SUFFICES ASSUME StoreInv, WriteFull PROVE StoreInv'
  OBVIOUS
<1>1. Typ \in Nat /\ Typ > 0 /\ Write(Typ) /\ UNCHANGED <<logger, reader, starts>> /\ UNCHANGED reader
  BY FormatAssumption DEF WriteFull
<1>2. /\ cur' \in Seq(Cell) /\ old' \in Seq(Cell) /\ buf' \in Seq(Cell)
      /\ err' \in BOOLEAN /\ clock' \in Nat /\ tears' \in 0..MaxTears /\ due' \subseteq Nat
      /\ FilesInv' /\ RowsInv'
  BY <1>1, WriteInv
<1>3. logger = "up"
  BY DEF WriteFull
<1>4. TypeOK'
  BY <1>1, <1>2, <1>3 DEF StoreInv, TypeOK, reader
<1>. QED  BY <1>2, <1>4 DEF StoreInv

LEMMA WriteLastInv ==
    ASSUME NEW n \in 0..Typ - 1, StoreInv, WriteLast(n)
    PROVE  StoreInv'
<1>1. /\ logger = "up" /\ logger' = "closing" /\ UNCHANGED <<reader, starts>> /\ UNCHANGED reader
      /\ \/ n = 0 /\ UNCHANGED <<files, buf, err, clock, tears, due>>
         \/ n > 0 /\ Write(n)
  BY DEF WriteLast
<1>2. n \in Nat
  BY FormatAssumption
<1>3. CASE n > 0 /\ Write(n)
  <2>1. /\ cur' \in Seq(Cell) /\ old' \in Seq(Cell) /\ buf' \in Seq(Cell)
        /\ err' \in BOOLEAN /\ clock' \in Nat /\ tears' \in 0..MaxTears /\ due' \subseteq Nat
        /\ FilesInv' /\ RowsInv'
    BY <1>1, <1>2, <1>3, WriteInv
  <2>2. TypeOK'
    BY <1>1, <2>1 DEF StoreInv, TypeOK, reader
  <2>. QED  BY <2>1, <2>2 DEF StoreInv
<1>4. CASE n = 0 /\ UNCHANGED <<files, buf, err, clock, tears, due>>
  <2>1. TypeOK'
    BY <1>1, <1>4 DEF StoreInv, TypeOK, reader, files
  <2>2. FilesInv'
    BY <1>4 DEF StoreInv, FilesInv, files
  <2>3. clock' \in Nat
    BY <2>1 DEF TypeOK
  <2>4. old' = old /\ cur' = cur /\ buf' = buf /\ due' = due /\ clock' = clock
    BY <1>4 DEF files
  <2>5. RowsInv'
    BY <1>1, <2>3, <2>4, RowsKept DEF StoreInv
  <2>. QED  BY <2>1, <2>2, <2>5 DEF StoreInv
<1>. QED  BY <1>1, <1>3, <1>4

-----------------------------------------------------------------------------
LEMMA CloseInv == StoreInv /\ Close => StoreInv'
<1>. SUFFICES ASSUME StoreInv, Close PROVE StoreInv'
  OBVIOUS
<1>. USE DEF StoreInv
<1>1. /\ logger' = "down" /\ cur' = cur \o buf /\ buf' = <<>>
      /\ old' = old /\ clock' = clock /\ due' = due /\ UNCHANGED reader
      /\ UNCHANGED <<err, starts, tears>>
  BY DEF Close, ghosts
<1>2. clock \in Nat /\ clock <= clock
  BY DEF TypeOK
<1>3. FileInv(buf) /\ Apart(old, buf) /\ Apart(cur, buf) /\ Over(buf, clock)
  BY DEF FilesInv
<1>. DEFINE f == cur \o buf
<1>4. /\ FileInv(f) /\ Apart(old, f) /\ Over(f, clock)
      /\ Lasting(cur) \subseteq Lasting(f)
      /\ \A t \in Int : Beyond(buf, t) =>
            /\ t \in Recorded(f) => t \in Recorded(cur)
            /\ Beyond(cur, t) => Beyond(f, t)
  BY <1>2, <1>3, Appended
<1>5. cur' = f
  BY <1>1
<1>. HIDE DEF f
<1>6. FilesInv'
  BY <1>1, <1>4, <1>5, EmptyInv DEF FilesInv
<1>7. f \in Seq(Cell)
  BY <1>4 DEF FileInv
<1>8. TypeOK'
  BY <1>1, <1>5, <1>7 DEF TypeOK, reader
<1>9. \A t \in Int : t < clock /\ Beyond(buf, t) =>
          /\ t < clock' /\ Beyond(buf', t)
          /\ t \in Recorded(old') \cup Recorded(cur') => t \in Recorded(old) \cup Recorded(cur)
          /\ Beyond(cur, t) => Beyond(cur', t)
  BY <1>1, <1>4, <1>5, EmptyInv
<1>10. RowsInv'
  BY <1>1, <1>2, <1>4, <1>5, <1>9, RowsKept
<1>. QED  BY <1>6, <1>8, <1>10

LEMMA KillInv == StoreInv /\ Kill => StoreInv'
<1>. SUFFICES ASSUME StoreInv, Kill PROVE StoreInv'
  OBVIOUS
<1>. USE DEF StoreInv
<1>1. /\ logger' = "down" /\ buf' = <<>> /\ cur' = cur
      /\ old' = old /\ clock' = clock /\ due' = due /\ UNCHANGED reader
      /\ UNCHANGED <<err, starts, tears>>
  BY DEF Kill, ghosts, files
<1>2. clock' \in Nat
  BY <1>1 DEF TypeOK
<1>3. FilesInv'
  BY <1>1, EmptyInv DEF FilesInv
<1>4. TypeOK'
  BY <1>1 DEF TypeOK, reader
<1>5. RowsInv'
  BY <1>1, <1>2, EmptyInv, RowsKept
<1>. QED  BY <1>3, <1>4, <1>5

LEMMA PowerFailsInv == StoreInv /\ PowerFails => StoreInv'
<1>. SUFFICES ASSUME StoreInv, PowerFails PROVE StoreInv'
  OBVIOUS
<1>. USE DEF StoreInv
<1>1. /\ logger' = "down" /\ buf' = <<>> /\ tears < MaxTears /\ tears' = tears + 1
      /\ web' = "idle" /\ rows' = <<>> /\ due' = {}
      /\ UNCHANGED <<old, err, clock, lo, hi, starts>>
  BY DEF PowerFails
<1>2. /\ cur \in Seq(Cell) /\ clock \in Nat /\ FileInv(cur) /\ FileInv(old)
      /\ Apart(old, cur) /\ Over(old, clock) /\ Over(cur, clock) /\ clock > 0
  BY DEF TypeOK, FilesInv
<1>3. Len(cur) \in Nat /\ Typical \in Nat
  BY <1>2, FormatAssumption DEF Typical
<1>4. PICK j \in 1..Min({Typical, Len(cur)}) :
         LET kept == SubSeq(cur, 1, Len(cur) - j)
         IN  cur' \in {kept, kept \o [i \in 1..j |-> Zero]}
  BY DEF PowerFails
<1>5. Min({Typical, Len(cur)}) <= Len(cur) /\ Min({Typical, Len(cur)}) \in Int
  BY <1>3, MinOfTwo
<1>6. Len(cur) - j \in 0..Len(cur) /\ j \in Nat
  BY <1>3, <1>5
<1>. DEFINE kept == SubSeq(cur, 1, Len(cur) - j)
            zeros == [i \in 1..j |-> Zero]
<1>7. FileInv(kept) /\ Apart(old, kept) /\ Over(kept, clock)
  BY <1>2, <1>6, FileInvPrefix, PrefixApart
<1>8. FileInv(zeros) /\ (\A h : Apart(h, zeros) /\ Apart(zeros, h)) /\ Over(zeros, clock)
  BY <1>2, <1>6, ZerosInv
<1>9. cur' \in {kept, kept \o zeros}
  BY <1>4
<1>. HIDE DEF kept, zeros
<1>10. kept \in Seq(Cell) /\ zeros \in Seq(Cell) /\ old \in Seq(Cell)
  BY <1>2, <1>7, <1>8 DEF FileInv
<1>11. FileInv(kept \o zeros) /\ Apart(old, kept \o zeros) /\ Over(kept \o zeros, clock)
  BY <1>7, <1>8, <1>10, FileInvConcat, ConcatApart, ConcatTimes
<1>12. FileInv(cur') /\ Apart(old, cur') /\ Over(cur', clock)
  BY <1>7, <1>9, <1>11
<1>13. FilesInv'
  BY <1>1, <1>2, <1>12, EmptyInv DEF FilesInv
<1>14. tears' \in 0..MaxTears
  <2>1. tears \in 0..MaxTears
    BY DEF TypeOK
  <2>. QED  BY <1>1, <2>1, StoreAssumption
<1>15. cur' \in Seq(Cell)
  BY <1>12 DEF FileInv
<1>16. TypeOK'
  BY <1>1, <1>14, <1>15 DEF TypeOK
<1>17. RowsInv'
  BY <1>1 DEF RowsInv
<1>. QED  BY <1>13, <1>16, <1>17

LEMMA ReplyInv == StoreInv /\ Reply => StoreInv'
<1>. SUFFICES ASSUME StoreInv, Reply PROVE StoreInv'
  OBVIOUS
<1>1. /\ web' = "idle" /\ lo' = 0 /\ hi' = 0 /\ rows' = <<>> /\ due' = {}
      /\ UNCHANGED <<cur, old, logger, buf, err, clock, starts, tears>>
  BY DEF Reply, files, writer
<1>2. TypeOK'
  BY <1>1 DEF StoreInv, TypeOK
<1>3. FilesInv'
  BY <1>1 DEF StoreInv, FilesInv
<1>4. RowsInv'
  BY <1>1 DEF RowsInv
<1>. QED  BY <1>2, <1>3, <1>4 DEF StoreInv

-----------------------------------------------------------------------------
LEMMA ReadableTimes ==
    ASSUME NEW f, FileInv(f)
    PROVE  Readable(f) \subseteq Nat /\ Lasting(f) \subseteq Nat
<1>1. \A p \in Whole(f) : f[p].ts \in Nat /\ LastTime(f, p) \in Nat
  <2>. TAKE p \in Whole(f)
  <2>1. p \in Nat \ {0} /\ ValidHeader(f, p)
    BY WholeCells
  <2>. QED  BY <2>1, HeadIs DEF FileInv
<1>2. Findable(f, Torn(f)) \subseteq Whole(f)
  BY DEF Findable, Unclaimed
<1>3. Readable(f) \subseteq Nat
  <2>. SUFFICES ASSUME NEW t \in Readable(f) PROVE t \in Nat
    OBVIOUS
  <2>1. PICK p \in Whole(f) : t \in f[p].ts..LastTime(f, p)
    BY <1>2 DEF Readable, TimesOf
  <2>2. f[p].ts \in Nat /\ LastTime(f, p) \in Nat
    BY <1>1
  <2>. QED  BY <2>1, <2>2
<1>. QED  BY <1>3, LastingReadable

(* The rows of one file: one per time.                                     *)
LEMMA SingleFrom ==
    ASSUME NEW f, FileInv(f), NEW r, NEW s, NEW e, AllFrom(f, r, s, e)
    PROVE  Single(r)
<1>. SUFFICES ASSUME NEW i \in DOMAIN r, NEW j \in DOMAIN r, r[i].t = r[j].t PROVE r[i] = r[j]
  BY DEF Single
<1>1. FromChunk(f, r[i]) /\ FromChunk(f, r[j])
  BY DEF AllFrom
<1>. QED  BY <1>1, OneRow

LEMMA ReadOldInv ==
    ASSUME NEW s \in Nat, NEW e \in Nat, StoreInv, ReadOld(s, e)
    PROVE  StoreInv'
<1>. USE DEF StoreInv
<1>1. /\ web' = "between" /\ lo' = s /\ hi' = e /\ rows' = InFile(old, s, e)
      /\ due' = Readable(old) \cup Lasting(cur)
      /\ UNCHANGED <<cur, old, logger, buf, err, clock, starts, tears>>
  BY DEF ReadOld, files, writer
<1>2. /\ FileInv(old) /\ FileInv(cur) /\ FileInv(buf) /\ Apart(old, cur) /\ Apart(old, buf)
      /\ Over(old, clock) /\ clock \in Nat
      /\ old \in Seq(Cell) /\ cur \in Seq(Cell) /\ buf \in Seq(Cell)
  BY DEF FilesInv, TypeOK
<1>. DEFINE r == InFile(old, s, e)
<1>3. r \in Seq(Row) /\ AllFrom(old, r, s, e)
  BY <1>2, InFileFrom
<1>4. \A t \in Readable(old) : t \in s..e => Shown(r, t)
  BY <1>2, InFileFinds
<1>5. rows' = r
  BY <1>1
<1>. HIDE DEF r
<1>6. due' \subseteq Nat
  BY <1>1, <1>2, ReadableTimes
<1>7. TypeOK'
  <2>1. rows' \in Seq([t : Int, cell : Cell])
    BY <1>3, <1>5 DEF Row
  <2>. QED  BY <1>1, <1>6, <2>1 DEF TypeOK
<1>8. FilesInv'
  BY <1>1 DEF FilesInv
<1>9. Single(r)
  BY <1>2, <1>3, SingleFrom
<1>10. ASSUME NEW i \in DOMAIN r
       PROVE  /\ r[i].t \in s..e /\ r[i].t < clock /\ Beyond(buf, r[i].t) /\ Beyond(cur, r[i].t)
              /\ Genuine(r[i]) \/ r[i].t \notin Recorded(old) \cup Recorded(cur)
  <2>1. FromChunk(old, r[i]) /\ r[i].t \in s..e
    BY <1>3 DEF AllFrom
  <2>2. r[i].t \in Int /\ r[i].t < clock /\ Beyond(buf, r[i].t) /\ Beyond(cur, r[i].t)
    BY <1>2, <2>1, FromOlder
  <2>3. r[i].t \notin Recorded(cur)
    BY <1>2, <2>2, NotRecorded
  <2>4. Genuine(r[i]) \/ r[i].t \notin Recorded(old)
    BY <1>2, <2>1, RecordedGenuine
  <2>. QED  BY <2>1, <2>2, <2>3, <2>4
<1>11. RowsInv'
  <2>1. \A i \in DOMAIN rows' : RowInv(rows[i])'
    BY <1>1, <1>5, <1>10 DEF RowInv
  <2>2. \A t \in due' \cap s..e : Shown(rows', t) \/ t \in Lasting(cur)
    BY <1>1, <1>4, <1>5
  <2>3. Single(rows') /\ \A i \in DOMAIN rows' : Beyond(cur, rows'[i].t)
    BY <1>5, <1>9, <1>10
  <2>4. lo' = s /\ hi' = e /\ web' = "between" /\ cur' = cur
    BY <1>1
  <2>. QED  BY <2>1, <2>2, <2>3, <2>4 DEF RowsInv
<1>. QED  BY <1>7, <1>8, <1>11

(* Rows of the older file, and the rows of the later one behind them.      *)
LEMMA SingleJoined ==
    ASSUME NEW f, FileInv(f), NEW u \in Seq(Row), NEW v \in Seq(Row), NEW s, NEW e,
           Single(u), AllFrom(f, v, s, e), \A i \in DOMAIN u : Beyond(f, u[i].t)
    PROVE  Single(u \o v)
<1>. DEFINE w == u \o v
<1>1. /\ Len(u) \in Nat /\ Len(v) \in Nat
      /\ DOMAIN u = 1..Len(u) /\ DOMAIN v = 1..Len(v) /\ DOMAIN w = 1..Len(u) + Len(v)
      /\ \A i \in 1..Len(u) : w[i] = u[i]
      /\ \A i \in Len(u) + 1..Len(u) + Len(v) : i - Len(u) \in 1..Len(v) /\ w[i] = v[i - Len(u)]
  BY JoinIs
<1>2. Single(v)
  BY SingleFrom
<1>3. ASSUME NEW a \in DOMAIN u, NEW b \in DOMAIN v PROVE u[a].t # v[b].t
  <2>1. FromChunk(f, v[b]) /\ Beyond(f, u[a].t)
    BY DEF AllFrom
  <2>2. PICK q \in Offsets : Complete(f, q) /\ \E k \in 1..f[q].n : v[b] = Rows(f, q)[k]
    BY <2>1 DEF FromChunk
  <2>3. /\ q \in DOMAIN f /\ f[q].n > 0 /\ f[q].ts \in Nat /\ LastTime(f, q) \in Int
        /\ v[b].t \in f[q].ts..LastTime(f, q)
    BY <2>2, ChunkRow DEF LastTime
  <2>4. u[a].t < f[q].ts
    BY <2>1, <2>3 DEF Beyond
  <2>. QED  BY <2>3, <2>4
<1>. HIDE DEF w
<1>. SUFFICES ASSUME NEW i \in DOMAIN w, NEW j \in DOMAIN w, w[i].t = w[j].t PROVE w[i] = w[j]
  BY DEF Single, w
<1>4. CASE i <= Len(u) /\ j <= Len(u)
  BY <1>1, <1>4 DEF Single
<1>5. CASE i > Len(u) /\ j > Len(u)
  <2>1. i \in Len(u) + 1..Len(u) + Len(v) /\ j \in Len(u) + 1..Len(u) + Len(v)
    BY <1>1, <1>5
  <2>2. i - Len(u) \in DOMAIN v /\ w[i] = v[i - Len(u)]
    BY <1>1, <2>1
  <2>3. j - Len(u) \in DOMAIN v /\ w[j] = v[j - Len(u)]
    BY <1>1, <2>1
  <2>. QED  BY <1>2, <2>2, <2>3 DEF Single
<1>6. CASE i <= Len(u) /\ j > Len(u)
  <2>1. i \in DOMAIN u /\ j - Len(u) \in DOMAIN v /\ w[i] = u[i] /\ w[j] = v[j - Len(u)]
    BY <1>1, <1>6
  <2>. QED  BY <1>3, <2>1
<1>7. CASE i > Len(u) /\ j <= Len(u)
  <2>1. j \in DOMAIN u /\ i - Len(u) \in DOMAIN v /\ w[j] = u[j] /\ w[i] = v[i - Len(u)]
    BY <1>1, <1>7
  <2>. QED  BY <1>3, <2>1
<1>8. i \in Int /\ j \in Int
  BY <1>1
<1>. QED  BY <1>1, <1>4, <1>5, <1>6, <1>7, <1>8

LEMMA ReadCurrentInv == StoreInv /\ ReadCurrent => StoreInv'
<1>. SUFFICES ASSUME StoreInv, ReadCurrent PROVE StoreInv'
  OBVIOUS
<1>. USE DEF StoreInv
<1>1. /\ web = "between" /\ web' = "done" /\ rows' = Merged(rows \o InFile(cur, lo, hi))
      /\ UNCHANGED <<cur, old, logger, buf, err, clock, lo, hi, due, starts, tears>>
  BY DEF ReadCurrent, files, writer, ghosts
<1>2. /\ FileInv(old) /\ FileInv(cur) /\ FileInv(buf) /\ Apart(old, cur) /\ Apart(cur, buf)
      /\ Over(cur, clock) /\ clock \in Nat /\ lo \in Nat /\ hi \in Nat
      /\ old \in Seq(Cell) /\ cur \in Seq(Cell) /\ buf \in Seq(Cell) /\ due \subseteq Nat
  BY DEF FilesInv, TypeOK
<1>. DEFINE r == InFile(cur, lo, hi)
            all == rows \o r
            m == Merged(all)
<1>3. r \in Seq(Row) /\ AllFrom(cur, r, lo, hi)
  BY <1>2, InFileFrom
<1>4. rows \in Seq(Row)
  BY DEF TypeOK, Row
<1>5. /\ \A i \in DOMAIN rows : RowInv(rows[i]) /\ Beyond(cur, rows[i].t)
      /\ Single(rows)
      /\ \A t \in due \cap lo..hi : Shown(rows, t) \/ t \in Lasting(cur)
  BY <1>1 DEF RowsInv
<1>6. \A t \in Lasting(cur) : t \in lo..hi => Shown(r, t)
  BY <1>2, InFileFinds, LastingReadable
<1>7. rows' = m
  BY <1>1
<1>. HIDE DEF r
<1>8. Single(all)
  BY <1>2, <1>3, <1>4, <1>5, SingleJoined
<1>9. all \in Seq(Row)
  BY <1>3, <1>4
<1>10. \A t \in due \cap lo..hi : Shown(all, t)
  <2>. TAKE t \in due \cap lo..hi
  <2>1. Shown(rows, t) \/ Shown(r, t)
    BY <1>5, <1>6
  <2>. QED  BY <1>3, <1>4, <2>1, ShownInConcat
<1>11. ASSUME NEW i \in DOMAIN r PROVE RowInv(r[i])
  <2>1. FromChunk(cur, r[i]) /\ r[i].t \in lo..hi
    BY <1>3 DEF AllFrom
  <2>2. r[i].t \in Int /\ r[i].t < clock /\ Beyond(buf, r[i].t)
    BY <1>2, <2>1, FromOlder
  <2>3. r[i].t \notin Recorded(old)
    BY <1>2, <2>1, FromLater
  <2>4. Genuine(r[i]) \/ r[i].t \notin Recorded(cur)
    BY <1>2, <2>1, RecordedGenuine
  <2>. QED  BY <2>1, <2>2, <2>3, <2>4 DEF RowInv
<1>12. \A i \in DOMAIN all : RowInv(all[i])
  <2>. TAKE i \in DOMAIN all
  <2>1. /\ Len(rows) \in Nat /\ Len(r) \in Nat
        /\ DOMAIN rows = 1..Len(rows) /\ DOMAIN r = 1..Len(r) /\ DOMAIN all = 1..Len(rows) + Len(r)
        /\ \A j \in 1..Len(rows) : all[j] = rows[j]
        /\ \A j \in Len(rows) + 1..Len(rows) + Len(r) :
              j - Len(rows) \in 1..Len(r) /\ all[j] = r[j - Len(rows)]
    BY <1>3, <1>4, JoinIs
  <2>. HIDE DEF all
  <2>2. CASE i <= Len(rows)
    BY <1>5, <2>1, <2>2
  <2>3. CASE i > Len(rows)
    <3>1. i - Len(rows) \in DOMAIN r /\ all[i] = r[i - Len(rows)]
      BY <2>1, <2>3
    <3>. QED  BY <1>11, <3>1
  <2>4. i \in Int
    BY <2>1
  <2>. QED  BY <2>1, <2>2, <2>3, <2>4
<1>. HIDE DEF all
<1>13. /\ m \in Seq(Row) /\ Rising(m)
       /\ \A j \in DOMAIN m : \E i \in DOMAIN all : m[j] = all[i]
       /\ \A i \in DOMAIN all : \E j \in DOMAIN m : m[j].t = all[i].t
  BY <1>9, MergedIs DEF Rising
<1>. HIDE DEF m
<1>14. \A t \in due \cap lo..hi : Shown(m, t)
  <2>. TAKE t \in due \cap lo..hi
  <2>1. PICK i \in DOMAIN all : all[i].t = t /\ Genuine(all[i])
    BY <1>10 DEF Shown
  <2>2. PICK j \in DOMAIN m : m[j].t = all[i].t
    BY <1>13
  <2>3. PICK k \in DOMAIN all : m[j] = all[k]
    BY <1>13
  <2>4. all[k] = all[i]
    BY <1>8, <2>2, <2>3 DEF Single
  <2>. QED  BY <2>1, <2>2, <2>3, <2>4 DEF Shown
<1>15. \A j \in DOMAIN m : RowInv(m[j])
  BY <1>12, <1>13
<1>16. TypeOK'
  <2>1. rows' \in Seq([t : Int, cell : Cell])
    BY <1>7, <1>13 DEF Row
  <2>. QED  BY <1>1, <2>1 DEF TypeOK
<1>17. FilesInv'
  BY <1>1 DEF FilesInv
<1>18. RowsInv'
  <2>1. \A i \in DOMAIN rows' : RowInv(rows[i])'
    BY <1>1, <1>7, <1>15 DEF RowInv
  <2>2. (\A t \in due' \cap lo'..hi' : Shown(rows', t)) /\ Rising(rows')
    BY <1>1, <1>7, <1>13, <1>14
  <2>. QED  BY <1>1, <2>1, <2>2 DEF RowsInv
<1>. QED  BY <1>16, <1>17, <1>18

-----------------------------------------------------------------------------
(* Every operation of the datalogger, failed, killed and without power too,
   and every step of a search keeps the files, the buffer and the rows read so
   far what they are described as above.                                   *)
THEOREM Invariant == Spec => []StoreInv
<1>1. StoreInv /\ [Next]_vars => StoreInv'
  <2>. SUFFICES ASSUME StoreInv, [Next]_vars PROVE StoreInv'
    OBVIOUS
  <2>1. CASE Start
    BY <2>1, StartInv
  <2>2. CASE WriteFull
    BY <2>2, WriteFullInv
  <2>3. CASE Close
    BY <2>3, CloseInv
  <2>4. CASE Kill
    BY <2>4, KillInv
  <2>5. CASE PowerFails
    BY <2>5, PowerFailsInv
  <2>6. CASE \E n \in 0..Typ - 1 : WriteLast(n)
    BY <2>6, WriteLastInv
  <2>7. CASE \E s \in 1..MaxTime, span \in Spans : ReadOld(s, s + span)
    <3>1. PICK s \in 1..MaxTime, span \in Spans : ReadOld(s, s + span)
      BY <2>7
    <3>2. s \in Nat /\ s + span \in Nat
      BY StoreAssumption
    <3>. QED  BY <3>1, <3>2, ReadOldInv
  <2>8. CASE ReadCurrent
    BY <2>8, ReadCurrentInv
  <2>9. CASE Reply
    BY <2>9, ReplyInv
  <2>10. CASE UNCHANGED vars
    <3>1. UNCHANGED <<cur, old, logger, buf, err, clock, web, lo, hi, rows, starts, tears, due>>
      BY <2>10 DEF vars, files, writer, reader, ghosts
    <3>2. TypeOK' /\ FilesInv'
      BY <3>1 DEF StoreInv, TypeOK, FilesInv
    <3>3. \A r : RowInv(r) => RowInv(r)'
      BY <3>1 DEF RowInv
    <3>4. RowsInv'
      BY <3>1, <3>3 DEF StoreInv, RowsInv
    <3>. QED  BY <3>2, <3>4 DEF StoreInv
  <2>. QED  BY <2>1, <2>2, <2>3, <2>4, <2>5, <2>6, <2>7, <2>8, <2>9, <2>10 DEF Next
<1>. QED  BY InitInv, <1>1, PTL DEF Spec

(* Files and buffer hold cells, the rows of a search rows, and the datalogger
   and the search are in one of their states.                              *)
THEOREM TypeCorrect == Spec => []TypeOK
<1>1. StoreInv => TypeOK
  BY DEF StoreInv
<1>. QED  BY Invariant, <1>1, PTL

(* A search by time (intervals_between over decimated.bin.old, then
   decimated.bin) returns, with what was recorded for it, every interval of
   its window that was on disk when it began and that no chunk cut short
   hides, whatever was appended, cut short, restarted or rotated meanwhile.  *)
THEOREM AnswerIsComplete == Spec => []AnswerComplete
<1>1. StoreInv => AnswerComplete
  BY DEF StoreInv, RowsInv, AnswerComplete, Shown, Range
<1>. QED  BY Invariant, <1>1, PTL

(* What a search returns is in rising time, each time once, within the
   window, and shows for no time that a file still holds anything but what
   was recorded for it.                                                    *)
THEOREM AnswerIsOrdered == Spec => []AnswerOrdered
<1>1. StoreInv => AnswerOrdered
  BY DEF StoreInv, RowsInv, RowInv, AnswerOrdered, Rising, Range
<1>. QED  BY Invariant, <1>1, PTL

-----------------------------------------------------------------------------
(* The walk over a file, and what the trend page and the tools make of it. *)

Walked == [rows : Seq(Row), lost : BOOLEAN]
Ended == [rows |-> <<>>, lost |-> FALSE]
Lost == [rows |-> <<>>, lost |-> TRUE]
Behind(f, p, rest) == [rows |-> Rows(f, p) \o rest.rows, lost |-> rest.lost]

(* One round of the loop of _parse_from.                                   *)
WalkStep(f, p, rest) ==
    IF p + Hdr - 1 > Len(f) THEN Ended
    ELSE IF ~ValidHeader(f, p) THEN Lost
    ELSE IF ~Complete(f, p) THEN Ended
    ELSE Behind(f, p, rest)

LEMMA WalkStepType ==
    ASSUME NEW f \in Seq(Cell), NEW p \in Offsets, NEW rest \in Walked
    PROVE  WalkStep(f, p, rest) \in Walked
<1>1. Ended \in Walked /\ Lost \in Walked
  <2>1. <<>> \in Seq(Row)
    OBVIOUS
  <2>. QED  BY <2>1 DEF Ended, Lost, Walked
<1>2. ASSUME Complete(f, p) PROVE Behind(f, p, rest) \in Walked
  <2>1. Rows(f, p) \in Seq(Row)
    BY <1>2, RowsAre DEF Offsets
  <2>2. rest.rows \in Seq(Row) /\ rest.lost \in BOOLEAN
    BY DEF Walked
  <2>3. Rows(f, p) \o rest.rows \in Seq(Row)
    BY <2>1, <2>2
  <2>. QED  BY <2>2, <2>3 DEF Walked, Behind
<1>. QED  BY <1>1, <1>2 DEF WalkStep

LEMMA WalkIs ==
    ASSUME NEW f \in Seq(Cell)
    PROVE  \A p \in Offsets :
              /\ Walk(f, p) \in Walked
              /\ Walk(f, p) = WalkStep(f, p, IF Complete(f, p) THEN Walk(f, p + Size(f, p)) ELSE Ended)
<1>. DEFINE D == Offsets
            L == Len(f)
            rank == [p \in D |-> IF p > L THEN 0 ELSE L + 1 - p]
            rest(g, p) == IF Complete(f, p) THEN g[p + Size(f, p)] ELSE Ended
            body == [x \in D \X [D -> Walked] |-> WalkStep(f, x[1], rest(x[2], x[1]))]
            Def(g) == g = [p \in D |->
                 IF p + Hdr - 1 > Len(f) THEN [rows |-> <<>>, lost |-> FALSE]
                 ELSE IF ~ValidHeader(f, p) THEN [rows |-> <<>>, lost |-> TRUE]
                 ELSE IF ~Complete(f, p) THEN [rows |-> <<>>, lost |-> FALSE]
                 ELSE [rows |-> Rows(f, p) \o g[p + Size(f, p)].rows,
                       lost |-> g[p + Size(f, p)].lost]]
<1>1. L \in Nat /\ Ended \in Walked /\ Hdr \in Nat /\ Hdr > 0 /\ rank \in [D -> 0..L]
  <2>1. L \in Nat /\ Hdr \in Nat /\ Hdr > 0
    BY FormatAssumption
  <2>2. <<>> \in Seq(Row)
    OBVIOUS
  <2>3. Ended \in Walked
    BY <2>2 DEF Ended, Walked
  <2>4. rank \in [D -> 0..L]
    BY <2>1 DEF Offsets
  <2>. QED  BY <2>1, <2>3, <2>4
<1>2. ASSUME NEW p \in D, Complete(f, p)
      PROVE  p + Size(f, p) \in D /\ p + Size(f, p) > p
  <2>1. p \in Nat \ {0}
    BY DEF Offsets
  <2>2. Size(f, p) \in Nat /\ Size(f, p) > Hdr
    BY <1>2, <2>1, CompleteIs, HeadIs
  <2>. QED  BY <1>1, <2>1, <2>2 DEF Offsets
<1>3. ASSUME NEW g \in [D -> Walked], NEW p \in D
      PROVE  rest(g, p) \in Walked
  BY <1>1, <1>2
<1>4. body \in [D \X [D -> Walked] -> Walked]
  <2>1. \A x \in D \X [D -> Walked] : WalkStep(f, x[1], rest(x[2], x[1])) \in Walked
    <3>. TAKE x \in D \X [D -> Walked]
    <3>1. x[1] \in D /\ x[2] \in [D -> Walked]
      OBVIOUS
    <3>2. rest(x[2], x[1]) \in Walked
      BY <1>3, <3>1
    <3>. HIDE DEF rest
    <3>. QED  BY <3>1, <3>2, WalkStepType
  <2>. QED  BY <2>1
<1>5. \A g \in [D -> Walked] : \A p \in D : body[<<p, g>>] = WalkStep(f, p, rest(g, p))
  <2>. HIDE DEF rest
  <2>. QED  OBVIOUS
<1>6. \A p \in D : \A g, h \in [D -> Walked] :
         (\A q \in D : rank[q] < rank[p] => g[q] = h[q]) => body[<<p, g>>] = body[<<p, h>>]
  <2>. TAKE p \in D
  <2>. TAKE g, h \in [D -> Walked]
  <2>. HAVE \A q \in D : rank[q] < rank[p] => g[q] = h[q]
  <2>1. rest(g, p) = rest(h, p)
    <3>1. CASE Complete(f, p)
      <4>1. p + Size(f, p) \in D /\ p + Size(f, p) > p
        BY <1>2, <3>1
      <4>2. p <= L
        <5>1. p \in Nat \ {0}
          BY DEF Offsets
        <5>2. p \in 1..Len(f)
          BY <3>1, <5>1, CompleteIs, HeadIs
        <5>. QED  BY <5>2
      <4>3. \A q \in D : q > p => rank[q] < rank[p]
        BY <1>1, <4>2 DEF Offsets
      <4>. QED  BY <3>1, <4>1, <4>3
    <3>2. CASE ~Complete(f, p)
      BY <3>2
    <3>. QED  BY <3>1, <3>2
  <2>. HIDE DEF body, rest
  <2>. QED  BY <1>5, <2>1
<1>7. PICK g \in [D -> Walked] : \A p \in D : g[p] = body[<<p, g>>]
  <2>1. Ended \in Walked /\ L \in Nat /\ Descends(D, Walked, L, rank, body)
    <3>. HIDE DEF D, rank, body
    <3>. QED  BY <1>1, <1>4, <1>6 DEF Descends
  <2>. HIDE DEF D, rank, body
  <2>2. PICK g : Solution(D, Walked, body, g)
    BY <2>1, Recursion
  <2>. QED  BY <2>2 DEF Solution
<1>8. \A h : Def(h) <=> h = [p \in D |-> WalkStep(f, p, rest(h, p))]
  <2>. TAKE h
  <2>1. ASSUME NEW p \in D
        PROVE  WalkStep(f, p, rest(h, p)) =
                 (IF p + Hdr - 1 > Len(f) THEN [rows |-> <<>>, lost |-> FALSE]
                 ELSE IF ~ValidHeader(f, p) THEN [rows |-> <<>>, lost |-> TRUE]
                 ELSE IF ~Complete(f, p) THEN [rows |-> <<>>, lost |-> FALSE]
                 ELSE [rows |-> Rows(f, p) \o h[p + Size(f, p)].rows,
                       lost |-> h[p + Size(f, p)].lost])
    BY DEF WalkStep, Ended, Lost, Behind
  <2>. QED  BY <2>1
<1>9. Def(g)
  <2>1. \A p \in D : g[p] = WalkStep(f, p, rest(g, p))
    <3>. HIDE DEF body, rest
    <3>. QED  BY <1>5, <1>7
  <2>2. g = [p \in D |-> WalkStep(f, p, rest(g, p))]
    <3>. HIDE DEF rest
    <3>. QED  BY <2>1
  <2>. HIDE DEF Def
  <2>. QED  BY <1>8, <2>2
<1>. DEFINE from == CHOOSE h : Def(h)
<1>10. Def(from)
  <2>. HIDE DEF Def
  <2>. QED  BY <1>9
<1>11. \A p : Walk(f, p) = from[p]
  BY DEF Walk, Offsets
<1>12. \A p \in D : from[p] = WalkStep(f, p, rest(from, p))
  <2>. HIDE DEF Def
  <2>1. from = [p \in D |-> WalkStep(f, p, rest(from, p))]
    BY <1>8, <1>10
  <2>. HIDE DEF from, rest
  <2>. QED  BY <2>1
<1>. HIDE DEF from, Def
<1>13. \A p \in D : from[p] \in Walked
  <2>. DEFINE Wrong == {p \in D : from[p] \notin Walked}
  <2>. SUFFICES ASSUME Wrong # {} PROVE FALSE
    OBVIOUS
  <2>1. \A p \in D : ~Complete(f, p) => from[p] \in Walked
    <3>. TAKE p \in D
    <3>. HAVE ~Complete(f, p)
    <3>1. rest(from, p) = Ended
      OBVIOUS
    <3>. HIDE DEF rest
    <3>. QED  BY <1>1, <1>12, <3>1, WalkStepType
  <2>2. Wrong \subseteq 0..L
    <3>. SUFFICES ASSUME NEW p \in Wrong PROVE p \in 0..L
      OBVIOUS
    <3>1. p \in Nat \ {0} /\ Complete(f, p)
      BY <2>1 DEF Offsets
    <3>2. p \in 1..Len(f)
      BY <3>1, CompleteIs, HeadIs
    <3>. QED  BY <3>2
  <2>3. PICK p \in Wrong : \A q \in Wrong : q <= p
    <3>. HIDE DEF Wrong
    <3>. QED  BY <1>1, <2>2, GreatestNatural
  <2>4. Complete(f, p) => p + Size(f, p) \in D /\ p + Size(f, p) \notin Wrong
    <3>. HAVE Complete(f, p)
    <3>1. p + Size(f, p) \in D /\ p + Size(f, p) > p /\ p \in D
      BY <1>2
    <3>2. p + Size(f, p) \in Nat /\ p \in Nat
      BY <3>1 DEF Offsets
    <3>. HIDE DEF Wrong
    <3>. QED  BY <2>3, <3>1, <3>2
  <2>5. rest(from, p) \in Walked
    BY <1>1, <2>4
  <2>6. from[p] \in Walked
    <3>. HIDE DEF rest
    <3>. QED  BY <1>12, <2>5, WalkStepType
  <2>. QED  BY <2>6
<1>. QED  BY <1>11, <1>12, <1>13

(* The last rows of a sequence.                                            *)
Suffix(s, t) ==
    Len(s) <= Len(t) /\ \A i \in 1..Len(s) : s[i] = t[Len(t) - Len(s) + i]

LEMMA LastOfIs ==
    ASSUME NEW s \in Seq(Row), NEW n \in Nat
    PROVE  /\ LastOf(s, n) \in Seq(Row)
           /\ Len(LastOf(s, n)) = IF n <= Len(s) THEN n ELSE Len(s)
           /\ Suffix(LastOf(s, n), s)
<1>. DEFINE L == Len(s)
            a == Max({1, L - n + 1})
<1>1. L \in Nat /\ \A i \in 1..L : s[i] \in Row
  OBVIOUS
<1>2. a = IF n <= L THEN L - n + 1 ELSE 1
  <2>1. a = IF 1 >= L - n + 1 THEN 1 ELSE L - n + 1
    BY <1>1, MaxOfTwo
  <2>. HIDE DEF a, L
  <2>. QED  BY <1>1, <2>1
<1>3. LastOf(s, n) = SubSeq(s, a, L)
  BY DEF LastOf
<1>. HIDE DEF a, L
<1>4. a \in 1..L + 1
  BY <1>1, <1>2
<1>5. \A i \in a..L : s[i] \in Row
  BY <1>1, <1>4
<1>6. /\ SubSeq(s, a, L) \in Seq(Row)
      /\ Len(SubSeq(s, a, L)) = IF a <= L THEN L - a + 1 ELSE 0
      /\ \A i \in 1..L - a + 1 : SubSeq(s, a, L)[i] = s[a + i - 1]
  BY <1>1, <1>4, <1>5, SubSeqProperties
<1>7. Len(SubSeq(s, a, L)) = L - a + 1
  BY <1>1, <1>4, <1>6
<1>8. L - a + 1 = IF n <= L THEN n ELSE L
  BY <1>1, <1>2
<1>9. \A i \in 1..L - a + 1 : SubSeq(s, a, L)[i] = s[L - (L - a + 1) + i]
  <2>1. \A i \in 1..L - a + 1 : L - (L - a + 1) + i = a + i - 1
    BY <1>1, <1>4
  <2>. QED  BY <1>6, <2>1
<1>. DEFINE w == SubSeq(s, a, L)
<1>10. w \in Seq(Row) /\ Len(w) = L - a + 1 /\ \A i \in 1..L - a + 1 : w[i] = s[L - (L - a + 1) + i]
  BY <1>6, <1>7, <1>9
<1>. HIDE DEF w
<1>11. Len(w) <= L /\ \A i \in 1..Len(w) : w[i] = s[L - Len(w) + i]
  BY <1>1, <1>4, <1>10
<1>12. Suffix(w, s)
  BY <1>11 DEF Suffix, L
<1>. QED  BY <1>3, <1>8, <1>10, <1>12 DEF w, L

LEMMA SuffixIsLast ==
    ASSUME NEW s \in Seq(Row), NEW t \in Seq(Row), Suffix(s, t)
    PROVE  s = LastOf(t, Len(s))
<1>1. Len(s) \in Nat /\ Len(t) \in Nat /\ Len(s) <= Len(t)
  BY DEF Suffix
<1>2. /\ LastOf(t, Len(s)) \in Seq(Row) /\ Len(LastOf(t, Len(s))) = Len(s)
      /\ Suffix(LastOf(t, Len(s)), t)
  BY <1>1, LastOfIs
<1>3. \A i \in 1..Len(s) : s[i] = LastOf(t, Len(s))[i]
  BY <1>2 DEF Suffix
<1>. QED  BY <1>2, <1>3, SeqEqual

LEMMA SuffixSuffix ==
    ASSUME NEW s \in Seq(Row), NEW t \in Seq(Row), NEW u \in Seq(Row), Suffix(s, t), Suffix(t, u)
    PROVE  Suffix(s, u)
<1>. DEFINE a == Len(s)
            b == Len(t)
            c == Len(u)
<1>1. a \in Nat /\ b \in Nat /\ c \in Nat /\ a <= b /\ b <= c
  BY DEF Suffix
<1>2. (\A i \in 1..a : s[i] = t[b - a + i]) /\ (\A i \in 1..b : t[i] = u[c - b + i])
  BY DEF Suffix
<1>. HIDE DEF a, b, c
<1>3. \A i \in 1..a : b - a + i \in 1..b /\ c - b + (b - a + i) = c - a + i
  BY <1>1
<1>4. \A i \in 1..a : s[i] = u[c - a + i]
  BY <1>2, <1>3
<1>. QED  BY <1>1, <1>4 DEF Suffix, a, c

LEMMA SuffixOfConcat ==
    ASSUME NEW s \in Seq(Row), NEW t \in Seq(Row)
    PROVE  t \o s \in Seq(Row) /\ Suffix(s, t \o s) /\ Len(t \o s) = Len(t) + Len(s)
<1>1. /\ t \o s \in Seq(Row) /\ Len(t \o s) = Len(t) + Len(s)
      /\ \A i \in 1..Len(t) + Len(s) : (t \o s)[i] = IF i <= Len(t) THEN t[i] ELSE s[i - Len(t)]
  BY ConcatProperties
<1>2. Len(s) \in Nat /\ Len(t) \in Nat
  OBVIOUS
<1>3. \A i \in 1..Len(s) : s[i] = (t \o s)[Len(t) + Len(s) - Len(s) + i]
  <2>. TAKE i \in 1..Len(s)
  <2>1. /\ Len(t) + Len(s) - Len(s) + i \in 1..Len(t) + Len(s)
        /\ ~(Len(t) + Len(s) - Len(s) + i <= Len(t))
        /\ Len(t) + Len(s) - Len(s) + i - Len(t) = i
    BY <1>2
  <2>. QED  BY <1>1, <2>1
<1>. QED  BY <1>1, <1>2, <1>3 DEF Suffix

LEMMA SuffixOfItself ==
    ASSUME NEW s \in Seq(Row)
    PROVE  Suffix(s, s) /\ Suffix(<<>>, s)
<1>1. Len(s) \in Nat
  OBVIOUS
<1>2. \A i \in 1..Len(s) : Len(s) - Len(s) + i = i
  BY <1>1
<1>3. Len(<<>>) = 0
  OBVIOUS
<1>4. \A i \in 1..0 : FALSE
  OBVIOUS
<1>. QED  BY <1>1, <1>2, <1>3, <1>4 DEF Suffix

(* In a sound file every header is on the way from its first byte.         *)
OnTheWalk(f, p) == ~Walk(f, p).lost /\ Suffix(Walk(f, p).rows, Walk(f, 1).rows)

LEMMA WalkTyped ==
    ASSUME NEW f \in Seq(Cell), NEW p \in Offsets
    PROVE  Walk(f, p).rows \in Seq(Row) /\ Walk(f, p).lost \in BOOLEAN
BY WalkIs DEF Walked

LEMMA WalkOn ==
    ASSUME NEW f \in Seq(Cell), NEW p \in Offsets, Complete(f, p)
    PROVE  /\ p + Size(f, p) \in Offsets /\ p + Size(f, p) > p
           /\ Walk(f, p).rows = Rows(f, p) \o Walk(f, p + Size(f, p)).rows
           /\ Walk(f, p).lost = Walk(f, p + Size(f, p)).lost
           /\ Rows(f, p) \in Seq(Row) /\ Len(Rows(f, p)) = f[p].n
           /\ Walk(f, p).rows # <<>>
<1>1. p \in Nat \ {0}
  BY DEF Offsets
<1>2. ValidHeader(f, p) /\ Size(f, p) \in Nat /\ Size(f, p) > Hdr /\ p + Hdr - 1 <= Len(f) /\ f[p].n > 0
  BY <1>1, CompleteIs, HeadIs
<1>3. p + Size(f, p) \in Offsets /\ p + Size(f, p) > p
  BY <1>1, <1>2, FormatAssumption DEF Offsets
<1>4. Walk(f, p) = WalkStep(f, p, Walk(f, p + Size(f, p)))
  BY WalkIs
<1>5. ~(p + Hdr - 1 > Len(f))
  BY <1>1, <1>2, FormatAssumption
<1>6. Walk(f, p) = Behind(f, p, Walk(f, p + Size(f, p)))
  BY <1>2, <1>4, <1>5 DEF WalkStep
<1>7. Rows(f, p) \in Seq(Row) /\ Len(Rows(f, p)) = f[p].n
  BY <1>1, RowsAre
<1>8. /\ Walk(f, p).rows = Rows(f, p) \o Walk(f, p + Size(f, p)).rows
      /\ Walk(f, p).lost = Walk(f, p + Size(f, p)).lost
  BY <1>6 DEF Behind
<1>9. Walk(f, p + Size(f, p)).rows \in Seq(Row)
  BY <1>3, WalkTyped
<1>10. Len(Walk(f, p).rows) = f[p].n + Len(Walk(f, p + Size(f, p)).rows)
  BY <1>7, <1>8, <1>9, SuffixOfConcat
<1>11. Walk(f, p).rows # <<>>
  <2>1. Len(Walk(f, p + Size(f, p)).rows) \in Nat /\ f[p].n \in Nat
    BY <1>1, <1>2, <1>9, HeadIs
  <2>2. Len(<<>>) = 0
    OBVIOUS
  <2>. QED  BY <1>2, <1>10, <2>1, <2>2
<1>. QED  BY <1>3, <1>7, <1>8, <1>11

LEMMA WalkEnds ==
    ASSUME NEW f \in Seq(Cell), NEW p \in Offsets, ~Complete(f, p)
    PROVE  /\ Walk(f, p).rows = <<>>
           /\ Walk(f, p).lost <=> p + Hdr - 1 <= Len(f) /\ ~ValidHeader(f, p)
<1>1. Walk(f, p) = WalkStep(f, p, Ended)
  BY WalkIs
<1>2. p \in Nat /\ Hdr \in Nat /\ Len(f) \in Nat
  BY FormatAssumption DEF Offsets
<1>3. (p + Hdr - 1 > Len(f)) <=> ~(p + Hdr - 1 <= Len(f))
  BY <1>2
<1>. QED  BY <1>1, <1>3 DEF WalkStep, Ended, Lost

LEMMA SoundWalk ==
    ASSUME NEW f \in Seq(Cell), Sound(f), NEW p \in Offsets, ValidHeader(f, p)
    PROVE  OnTheWalk(f, p)
<1>. DEFINE Way == {x \in Offsets : x <= p /\ OnTheWalk(f, x)}
<1>1. /\ ~Walk(f, 1).lost
      /\ \A x, y \in DOMAIN f :
            ValidHeader(f, x) /\ ValidHeader(f, y) /\ x < y => x + Size(f, x) <= y
  BY DEF Sound
<1>2. 1 \in Offsets /\ p \in Nat /\ p >= 1 /\ Len(f) \in Nat /\ Hdr \in Nat
  BY FormatAssumption DEF Offsets
<1>3. 1 \in Way
  <2>1. Walk(f, 1).rows \in Seq(Row)
    BY <1>2, WalkTyped
  <2>2. Suffix(Walk(f, 1).rows, Walk(f, 1).rows)
    BY <2>1, SuffixOfItself
  <2>. QED  BY <1>1, <1>2, <2>2 DEF OnTheWalk
<1>4. PICK x \in Way : \A y \in Way : y <= x
  <2>1. Way \subseteq 0..p
    BY <1>2 DEF Offsets
  <2>. HIDE DEF Way
  <2>. QED  BY <1>2, <1>3, <2>1, GreatestNatural
<1>5. x \in Offsets /\ x \in Nat /\ x <= p /\ ~Walk(f, x).lost
      /\ Suffix(Walk(f, x).rows, Walk(f, 1).rows)
  BY DEF Offsets, OnTheWalk
<1>6. CASE x = p
  BY <1>5, <1>6 DEF OnTheWalk
<1>7. CASE x < p
  <2>1. p \in DOMAIN f /\ p + Hdr - 1 <= Len(f) /\ p \in 1..Len(f)
    BY <1>2, HeadIs DEF Offsets
  <2>2. x + Hdr - 1 <= Len(f)
    BY <1>2, <1>5, <1>7, <2>1
  <2>3. ValidHeader(f, x)
    BY <1>5, <2>2, WalkEnds DEF Complete
  <2>4. x \in DOMAIN f /\ Size(f, x) \in Nat
    BY <1>5, <2>3, HeadIs DEF Offsets
  <2>5. x + Size(f, x) <= p
    BY <1>1, <1>7, <2>1, <2>3, <2>4
  <2>6. Complete(f, x)
    BY <1>2, <1>5, <2>1, <2>3, <2>4, <2>5 DEF Complete
  <2>. DEFINE y == x + Size(f, x)
  <2>7. /\ y \in Offsets /\ y > x
        /\ Walk(f, x).rows = Rows(f, x) \o Walk(f, y).rows
        /\ Walk(f, x).lost = Walk(f, y).lost
        /\ Rows(f, x) \in Seq(Row)
    BY <1>5, <2>6, WalkOn
  <2>. HIDE DEF y
  <2>8. Walk(f, y).rows \in Seq(Row) /\ Walk(f, x).rows \in Seq(Row) /\ Walk(f, 1).rows \in Seq(Row)
    BY <1>2, <1>5, <2>7, WalkTyped
  <2>9. Suffix(Walk(f, y).rows, Walk(f, x).rows)
    BY <2>7, <2>8, SuffixOfConcat
  <2>10. Suffix(Walk(f, y).rows, Walk(f, 1).rows)
    BY <1>5, <2>8, <2>9, SuffixSuffix
  <2>11. y \in Way
    BY <1>5, <2>5, <2>7, <2>10 DEF y, OnTheWalk
  <2>12. y \in Nat
    BY <2>7 DEF Offsets
  <2>. QED  BY <1>4, <1>5, <2>7, <2>11, <2>12
<1>. QED  BY <1>2, <1>5, <1>6, <1>7

(* Arithmetic of division.                                                 *)
Portions(a, d) == (a + d - 1) \div d
LEMMA PortionsAre ==
    ASSUME NEW a \in Nat, NEW d \in Nat \ {0}
    PROVE  /\ Portions(a, d) \in Nat /\ Portions(a, d) * d \in Nat /\ Portions(a, d) * d >= a
           /\ a > 0 => Portions(a, d) >= 1
           /\ (Portions(a, d) - 1) * d < a
           /\ a = 0 => Portions(a, d) = 0
<1>. DEFINE q == Portions(a, d)
            r == (a + d - 1) % d
<1>1. q \in Int /\ r \in 0..d - 1 /\ a + d - 1 = d * q + r
  BY DEF Portions
<1>. HIDE DEF q, r
<1>2. d * q = q * d /\ q * d \in Int
  BY <1>1
<1>3. (q - 1) * d = q * d - d
  BY <1>1
<1>4. q * d >= a /\ (q - 1) * d < a + 1 /\ (q - 1) * d < a
  <2>. DEFINE x == q * d
  <2>1. x \in Int /\ a + d - 1 = x + r /\ (q - 1) * d = x - d
    BY <1>1, <1>2, <1>3
  <2>. HIDE DEF x
  <2>2. x >= a /\ x - d < a
    BY <1>1, <2>1
  <2>. QED  BY <2>1, <2>2 DEF x
<1>5. q <= -1 => q * d <= -d
  BY <1>1
<1>6. q >= 0
  BY <1>1, <1>2, <1>4, <1>5
<1>7. a > 0 => q >= 1
  <2>1. q = 0 => q * d = 0
    OBVIOUS
  <2>. QED  BY <1>1, <1>4, <1>6, <2>1
<1>8. q >= 1 => (q - 1) * d >= 0
  BY <1>1
<1>9. a = 0 => q = 0
  BY <1>1, <1>4, <1>6, <1>8
<1>. QED  BY <1>1, <1>2, <1>4, <1>6, <1>7, <1>9 DEF q

LEMMA Cancel ==
    ASSUME NEW a \in Int, NEW b \in Int, NEW d \in Nat \ {0}
    PROVE  /\ a * d < b * d => a < b
           /\ a <= b => a * d <= b * d
           /\ a * d \in Int /\ (a - 1) * d = a * d - d /\ (a + b) * d = a * d + b * d
           /\ (a - b) * d = a * d - b * d
<1>1. a >= b => a * d >= b * d
  OBVIOUS
<1>2. a * d \in Int /\ b * d \in Int
  OBVIOUS
<1>3. a <= b => a * d <= b * d
  OBVIOUS
<1>4. (a - 1) * d = a * d - d /\ (a + b) * d = a * d + b * d /\ (a - b) * d = a * d - b * d
  OBVIOUS
<1>. QED  BY <1>1, <1>2, <1>3, <1>4

-----------------------------------------------------------------------------
(* The end of the file.                                                    *)

LEMMA ParseIs ==
    ASSUME NEW f \in Seq(Cell), Sound(f), NEW p \in Offsets, NEW cap \in Nat \ {0}
    PROVE  /\ ParseFrom(f, p, cap) \in Seq(Row)
           /\ Suffix(ParseFrom(f, p, cap), Walk(f, 1).rows)
<1>. DEFINE r == Walk(f, p).rows
            all == Walk(f, 1).rows
<1>0. 1 \in Offsets
  BY DEF Offsets
<1>1. r \in Seq(Row) /\ all \in Seq(Row) /\ <<>> \in Seq(Row)
  BY <1>0, WalkTyped
<1>2. Suffix(<<>>, all)
  BY <1>1, SuffixOfItself
<1>3. LastOf(r, cap) \in Seq(Row) /\ Suffix(LastOf(r, cap), r)
      /\ Len(LastOf(r, cap)) = IF cap <= Len(r) THEN cap ELSE Len(r)
  BY <1>1, LastOfIs
<1>4. CASE Walk(f, p).lost
  BY <1>1, <1>2, <1>4 DEF ParseFrom
<1>5. CASE ~Walk(f, p).lost /\ Complete(f, p)
  <2>1. Suffix(r, all)
    BY <1>5, SoundWalk DEF Complete, OnTheWalk
  <2>2. ParseFrom(f, p, cap) = LastOf(r, cap)
    BY <1>5 DEF ParseFrom
  <2>. HIDE DEF r, all
  <2>3. Suffix(LastOf(r, cap), all)
    BY <1>1, <1>3, <2>1, SuffixSuffix
  <2>. QED  BY <1>3, <2>2, <2>3 DEF all
<1>6. CASE ~Walk(f, p).lost /\ ~Complete(f, p)
  <2>1. r = <<>>
    BY <1>6, WalkEnds
  <2>2. ParseFrom(f, p, cap) = LastOf(r, cap)
    BY <1>6 DEF ParseFrom
  <2>. HIDE DEF r, all
  <2>3. Len(r) = 0
    BY <2>1
  <2>4. Len(LastOf(r, cap)) = 0
    BY <1>3, <2>3
  <2>5. LastOf(r, cap) = <<>>
    BY <1>3, <2>4, EmptySeq
  <2>. QED  BY <1>1, <1>2, <2>2, <2>5 DEF all
<1>. QED  BY <1>4, <1>5, <1>6

LEMMA TailStartIs ==
    ASSUME NEW f \in Seq(Cell), NEW cap \in Nat
    PROVE  /\ Typical \in Nat \ {0} /\ TailStart(f, cap) \in Nat
           /\ TailStart(f, cap) - (TailStart(f, cap) % Typical) + 1 \in Offsets
           /\ TailStart(f, cap) + 1 \in Offsets
<1>1. Typ \in Nat \ {0} /\ Typical \in Nat \ {0} /\ Len(f) \in Nat
  BY FormatAssumption DEF Typical
<1>. DEFINE q == Portions(cap, Typ)
            x == Len(f) - (q + 2) * Typical
<1>2. q \in Nat
  BY <1>1, PortionsAre
<1>3. x \in Int
  <2>. HIDE DEF q
  <2>1. (q + 2) * Typical \in Int
    <3>1. q + 2 \in Int
      BY <1>2
    <3>. QED  BY <1>1, <3>1, Cancel
  <2>. QED  BY <1>1, <2>1
<1>4. TailStart(f, cap) = Max({0, x})
  BY DEF TailStart, Portions
<1>. HIDE DEF x
<1>5. TailStart(f, cap) \in Nat
  BY <1>3, <1>4, MaxOfTwo
<1>. DEFINE s == TailStart(f, cap)
<1>. HIDE DEF s
<1>6. s \in Nat
  BY <1>5 DEF s
<1>7. s % Typical \in 0..Typical - 1 /\ s % Typical <= s
  <2>. DEFINE a == s \div Typical
              b == s % Typical
  <2>1. a \in Int /\ b \in 0..Typical - 1 /\ s = Typical * a + b
    BY <1>1, <1>6
  <2>. HIDE DEF a, b
  <2>2. a <= -1 => Typical * a <= -Typical
    BY <1>1, <2>1
  <2>3. a >= 0 => Typical * a >= 0
    BY <1>1, <2>1
  <2>4. Typical * a \in Int
    BY <1>1, <2>1
  <2>. QED  BY <1>1, <1>6, <2>1, <2>2, <2>3, <2>4 DEF b
<1>8. s - (s % Typical) + 1 \in Offsets /\ s + 1 \in Offsets
  BY <1>6, <1>7 DEF Offsets
<1>. QED  BY <1>1, <1>5, <1>8 DEF s

(* In a sound file what is read is the end of what is there.               *)
LEMMA ReadTailIs ==
    ASSUME NEW f \in Seq(Cell), Sound(f), NEW cap \in Nat \ {0}
    PROVE  /\ ReadTail(f, cap) \in Seq(Row)
           /\ Suffix(ReadTail(f, cap), Walk(f, 1).rows)
           /\ Walk(f, 1).rows # <<>> => ReadTail(f, cap) # <<>>
<1>. DEFINE all == Walk(f, 1).rows
            start == TailStart(f, cap)
            p == start - (start % Typical) + 1
            aligned == IF Len(f) % Typical = 0 THEN ParseFrom(f, p, cap) ELSE <<>>
            scanned == ScanAndParse(f, start + 1, cap)
            Fits(r) == r \in Seq(Row) /\ Suffix(r, all)
<1>0. 1 \in Offsets /\ cap \in Nat /\ cap > 0
  BY DEF Offsets
<1>1. all \in Seq(Row) /\ <<>> \in Seq(Row)
  BY <1>0, WalkTyped
<1>2. /\ Typical \in Nat \ {0} /\ start \in Nat
      /\ p \in Offsets /\ start + 1 \in Offsets
  BY <1>0, TailStartIs
<1>3. Fits(<<>>)
  BY <1>1, SuffixOfItself
<1>4. \A x \in Offsets : Fits(ParseFrom(f, x, cap))
  BY ParseIs
<1>5. Fits(aligned)
  <2>. HIDE DEF p, Fits
  <2>. QED  BY <1>2, <1>3, <1>4
<1>6. Fits(scanned)
  <2>. DEFINE Heads == {x \in start + 1..start + 1 + Typical :
                          Complete(f, x) /\ ParseFrom(f, x, cap) # <<>>}
  <2>1. scanned = IF Heads = {} THEN <<>> ELSE ParseFrom(f, Min(Heads), cap)
    BY DEF ScanAndParse
  <2>2. Heads \subseteq Nat /\ Heads \subseteq Offsets
    BY <1>2 DEF Offsets
  <2>. HIDE DEF Heads, Fits, scanned
  <2>3. Heads # {} => Min(Heads) \in Offsets
    BY <2>2, MinOf
  <2>. QED  BY <1>3, <1>4, <2>1, <2>3
<1>7. /\ LastOf(all, cap) \in Seq(Row) /\ Suffix(LastOf(all, cap), all)
      /\ Len(LastOf(all, cap)) = IF cap <= Len(all) THEN cap ELSE Len(all)
  <2>. HIDE DEF all
  <2>. QED  BY <1>0, <1>1, LastOfIs
<1>8. all # <<>> => LastOf(all, cap) # <<>>
  <2>1. HAVE all # <<>>
  <2>2. Len(all) \in Nat \ {0}
    BY <1>1, <2>1, EmptySeq
  <2>3. Len(LastOf(all, cap)) # 0
    <3>. HIDE DEF all
    <3>. QED  BY <1>0, <1>7, <2>2
  <2>4. Len(<<>>) = 0
    OBVIOUS
  <2>. QED  BY <2>3, <2>4
<1>9. ReadTail(f, cap) = IF aligned # <<>> THEN aligned
                         ELSE IF scanned # <<>> THEN scanned ELSE LastOf(all, cap)
  BY DEF ReadTail, WalkAll
<1>10. Fits(LastOf(all, cap))
  BY <1>7
<1>. HIDE DEF aligned, scanned, all
<1>11. Fits(ReadTail(f, cap)) /\ (all # <<>> => ReadTail(f, cap) # <<>>)
  <2>. HIDE DEF Fits
  <2>. QED  BY <1>5, <1>6, <1>8, <1>9, <1>10
<1>. QED  BY <1>11 DEF all

-----------------------------------------------------------------------------
(* The points of the page.                                                 *)

(* The first i of a sequence's portions.                                   *)
Upto(n, w, i) == IF i * w <= n THEN i * w ELSE n

LEMMA PortionEnds ==
    ASSUME NEW n \in Nat, NEW w \in Nat \ {0}, NEW i \in 1..Portions(n, w)
    PROVE  /\ Portions(n, w) \in Nat
           /\ (i - 1) * w \in 0..n /\ Upto(n, w, i) \in (i - 1) * w..n
           /\ Min({i * w, n}) = Upto(n, w, i)
           /\ i < Portions(n, w) => Upto(n, w, i) = i * w
           /\ i = Portions(n, w) => Upto(n, w, i) = n
<1>. DEFINE m == Portions(n, w)
<1>1. m \in Nat /\ m * w \in Nat /\ m * w >= n /\ (m - 1) * w < n
  <2>1. n > 0
    <3>1. n = 0 => Portions(n, w) = 0
      BY PortionsAre
    <3>. QED  BY <3>1
  <2>. QED  BY <2>1, PortionsAre
<1>2. i \in 1..m
  OBVIOUS
<1>. HIDE DEF m
<1>3. i \in Nat /\ i - 1 \in Nat /\ i <= m /\ m - 1 \in Int
  BY <1>1, <1>2
<1>4. i * w \in Int /\ (i - 1) * w = i * w - w /\ (m - 1) * w \in Int
  BY <1>3, Cancel
<1>5. (i - 1) * w <= (m - 1) * w
  <2>1. i - 1 <= m - 1
    BY <1>1, <1>3
  <2>. QED  BY <1>3, <2>1, Cancel
<1>6. (i - 1) * w >= 0
  BY <1>3
<1>7. i < m => i * w <= (m - 1) * w
  <2>1. HAVE i < m
  <2>2. i <= m - 1
    BY <1>1, <1>3, <2>1
  <2>. QED  BY <1>3, <2>2, Cancel
<1>8. Min({i * w, n}) = Upto(n, w, i)
  BY <1>4, MinOfTwo DEF Upto
<1>. DEFINE x == i * w
            y == (i - 1) * w
            z == (m - 1) * w
<1>9. /\ x \in Int /\ y = x - w /\ z \in Int /\ y <= z /\ y >= 0 /\ z < n
      /\ (i < m => x <= z) /\ (i = m => x >= n)
      /\ Upto(n, w, i) = IF x <= n THEN x ELSE n
  BY <1>1, <1>4, <1>5, <1>6, <1>7 DEF Upto
<1>. HIDE DEF x, y, z
<1>10. /\ y \in 0..n /\ Upto(n, w, i) \in y..n
       /\ (i < m => Upto(n, w, i) = x)
       /\ (i = m => Upto(n, w, i) = n)
  BY <1>3, <1>9
<1>. QED  BY <1>1, <1>8, <1>10 DEF x, y, m

Pieces(s, w) ==
    [k \in 1..Portions(Len(s), w) |-> SubSeq(s, (k - 1) * w + 1, Min({k * w, Len(s)}))]

(* Put together again they are the sequence.                               *)
LEMMA Flattened ==
    ASSUME NEW s \in Seq(Row), NEW w \in Nat \ {0}
    PROVE  FlattenSeq(Pieces(s, w)) = s /\ Len(Pieces(s, w)) = Portions(Len(s), w)
<1>. DEFINE n == Len(s)
            b == Pieces(s, w)
            m == Portions(n, w)
            Ahead(i) == SubSeq(s, 1, Upto(n, w, i))
<1>0. n \in Nat /\ n = Len(s)
  OBVIOUS
<1>10. b = [k \in 1..m |-> SubSeq(s, (k - 1) * w + 1, Min({k * w, n}))]
  BY DEF Pieces
<1>. HIDE DEF n, b
<1>1. n \in Nat /\ m \in Nat /\ (n = 0 => m = 0) /\ (n > 0 => m >= 1) /\ n = Len(s)
  BY <1>0, PortionsAre
<1>2. \A i \in 1..m :
         /\ (i - 1) * w \in 0..n /\ Upto(n, w, i) \in (i - 1) * w..n
         /\ b[i] = SubSeq(s, (i - 1) * w + 1, Upto(n, w, i))
         /\ i < m => Upto(n, w, i) = i * w
         /\ i = m => Upto(n, w, i) = n
  <2>. TAKE i \in 1..m
  <2>1. /\ (i - 1) * w \in 0..n /\ Upto(n, w, i) \in (i - 1) * w..n
        /\ Min({i * w, n}) = Upto(n, w, i)
        /\ i < m => Upto(n, w, i) = i * w
        /\ i = m => Upto(n, w, i) = n
    BY <1>0, PortionEnds
  <2>2. b[i] = SubSeq(s, (i - 1) * w + 1, Min({i * w, n}))
    BY <1>10
  <2>. QED  BY <2>1, <2>2
<1>3. b \in Seq(Seq(Row)) /\ Len(b) = m
  <2>1. \A i \in 1..m : b[i] \in Seq(Row)
    <3>. TAKE i \in 1..m
    <3>. DEFINE x == (i - 1) * w + 1
                y == Upto(n, w, i)
    <3>1. x \in Int /\ y \in Int /\ x >= 1 /\ y <= n
      <4>. DEFINE v == (i - 1) * w
      <4>1. v \in 0..n /\ y \in v..n
        BY <1>2
      <4>. HIDE DEF v, y
      <4>2. v + 1 \in Int /\ v + 1 >= 1 /\ y \in Int /\ y <= n
        BY <1>1, <4>1
      <4>. QED  BY <4>2 DEF v
    <3>2. b[i] = SubSeq(s, x, y)
      BY <1>2
    <3>. HIDE DEF x, y
    <3>3. \A j \in x..y : s[j] \in Row
      BY <1>1, <3>1
    <3>. QED  BY <3>1, <3>2, <3>3, SubSeqProperties
  <2>2. b \in [1..m -> Seq(Row)]
    <3>1. DOMAIN b = 1..m /\ b = [k \in DOMAIN b |-> b[k]]
      BY <1>10
    <3>. HIDE DEF m
    <3>. QED  BY <2>1, <3>1
  <2>. HIDE DEF m
  <2>. QED  BY <1>1, <2>2, IsSequence
<1>. HIDE DEF m
<1>4. CASE m = 0
  <2>1. n = 0
    BY <1>1, <1>4
  <2>2. b = <<>> /\ s = <<>>
    <3>1. b = <<>>
      BY <1>3, <1>4, EmptySeq
    <3>2. s = <<>>
      BY <1>1, <2>1, EmptySeq
    <3>. QED  BY <3>1, <3>2
  <2>3. FlattenSeq(b) = b
    BY <1>3, <1>4 DEF FlattenSeq
  <2>. QED  BY <1>3, <2>2, <2>3 DEF m, b, n
<1>5. CASE m > 0
  <2>. DEFINE Body(g, i) == IF i = 1 THEN b[i] ELSE g[i - 1] \o b[i]
              Def(g) == g = [i \in 1..m |-> Body(g, i)]
              own == [i \in 1..m |-> Ahead(i)]
  <2>1. ASSUME NEW g, NEW i \in 1..m, i > 1 => g[i - 1] = Ahead(i - 1)
        PROVE  Body(g, i) = Ahead(i)
    <3>1. CASE i = 1
      <4>1. Body(g, i) = b[1]
        BY <3>1
      <4>2. b[1] = SubSeq(s, (1 - 1) * w + 1, Upto(n, w, 1))
        BY <1>2, <3>1
      <4>3. (1 - 1) * w + 1 = 1
        OBVIOUS
      <4>. QED  BY <3>1, <4>1, <4>2, <4>3
    <3>2. CASE i > 1
      <4>. DEFINE x == (i - 1) * w
                  y == Upto(n, w, i)
      <4>1. i - 1 \in 1..m /\ i - 1 < m
        BY <1>1, <3>2
      <4>2. Upto(n, w, i - 1) = x
        BY <1>2, <4>1
      <4>3. x \in 0..n /\ y \in x..n /\ b[i] = SubSeq(s, x + 1, y)
        BY <1>2
      <4>4. Body(g, i) = SubSeq(s, 1, x) \o SubSeq(s, x + 1, y)
        <5>1. i # 1
          BY <3>2
        <5>2. Body(g, i) = g[i - 1] \o b[i]
          BY <5>1
        <5>3. g[i - 1] = SubSeq(s, 1, x)
          BY <2>1, <3>2, <4>2
        <5>. HIDE DEF x, y, Body
        <5>. QED  BY <4>3, <5>2, <5>3
      <4>. HIDE DEF x, y
      <4>5. 1 \in 1..Len(s) + 1 /\ x \in 1 - 1..Len(s) /\ y \in x..Len(s)
        BY <1>1, <4>3
      <4>6. SubSeq(s, 1, x) \o SubSeq(s, x + 1, y) = SubSeq(s, 1, y)
        BY <4>5, ConcatAdjacentSubSeq
      <4>. QED  BY <4>4, <4>6 DEF y
    <3>3. i = 1 \/ i > 1
      BY <1>1
    <3>. HIDE DEF Body, Ahead
    <3>. QED  BY <3>1, <3>2, <3>3
  <2>2. Def(own)
    <3>1. \A i \in 1..m : Body(own, i) = Ahead(i)
      <4>. TAKE i \in 1..m
      <4>1. i > 1 => own[i - 1] = Ahead(i - 1)
        <5>1. HAVE i > 1
        <5>2. i - 1 \in 1..m
          BY <1>1, <5>1
        <5>. HIDE DEF Ahead
        <5>. QED  BY <5>2
      <4>. HIDE DEF own, Body, Ahead
      <4>. QED  BY <2>1, <4>1
    <3>2. own = [i \in 1..m |-> Body(own, i)]
      <4>. HIDE DEF Body, Ahead
      <4>. QED  BY <3>1
    <3>. QED  BY <3>2
  <2>. DEFINE flatten == CHOOSE g : Def(g)
  <2>3. FlattenSeq(b) = flatten[m]
    <3>1. Len(b) # 0 /\ Len(b) = m
      BY <1>1, <1>3, <1>5
    <3>. QED  BY <3>1 DEF FlattenSeq
  <2>4. Def(flatten)
    <3>. HIDE DEF Def
    <3>. QED  BY <2>2
  <2>. HIDE DEF flatten
  <2>5. \A i \in 1..m : flatten[i] = Body(flatten, i)
    <3>1. flatten = [i \in 1..m |-> Body(flatten, i)]
      BY <2>4
    <3>. HIDE DEF Body
    <3>. QED  BY <3>1
  <2>6. flatten[m] = Ahead(m)
    <3>. DEFINE Wrong == {i \in 1..m : flatten[i] # Ahead(i)}
    <3>1. Wrong = {}
      <4>. SUFFICES ASSUME Wrong # {} PROVE FALSE
        OBVIOUS
      <4>1. Wrong \subseteq Nat
        OBVIOUS
      <4>2. PICK i \in Wrong : \A j \in Wrong : i <= j
        <5>. HIDE DEF Wrong
        <5>. QED  BY <4>1, LeastNatural
      <4>3. i \in 1..m /\ i \in Nat
        OBVIOUS
      <4>4. i > 1 => flatten[i - 1] = Ahead(i - 1)
        <5>1. HAVE i > 1
        <5>2. i - 1 \in 1..m /\ ~(i <= i - 1)
          BY <1>1, <4>3, <5>1
        <5>3. i - 1 \notin Wrong
          <6>. HIDE DEF Wrong
          <6>. QED  BY <4>2, <5>2
        <5>. HIDE DEF Ahead
        <5>. QED  BY <5>2, <5>3
      <4>5. flatten[i] = Ahead(i)
        <5>. HIDE DEF Body, Ahead
        <5>. QED  BY <2>1, <2>5, <4>3, <4>4
      <4>. HIDE DEF Ahead
      <4>. QED  BY <4>5
    <3>2. m \in 1..m
      BY <1>1, <1>5
    <3>. HIDE DEF Ahead
    <3>. QED  BY <3>1, <3>2
  <2>7. Ahead(m) = s
    <3>1. Upto(n, w, m) = Len(s)
      <4>1. m \in 1..m
        BY <1>1, <1>5
      <4>. QED  BY <1>1, <1>2, <4>1
    <3>. QED  BY <3>1, SubSeqFull
  <2>. HIDE DEF Ahead
  <2>. QED  BY <1>3, <2>3, <2>6, <2>7 DEF m, b, n
<1>6. m = 0 \/ m > 0
  BY <1>1
<1>. QED  BY <1>4, <1>5, <1>6

LEMMA BucketsAre ==
    ASSUME NEW s \in Seq(Row), NEW cap \in Nat \ {0}
    PROVE  FlattenSeq(Buckets(s, cap)) = s /\ Len(Buckets(s, cap)) <= cap
<1>. DEFINE n == Len(s)
            w == IF n <= cap THEN 1 ELSE Portions(n, cap)
<1>1. n \in Nat /\ cap \in Nat /\ cap > 0 /\ ~(cap <= 0)
  OBVIOUS
<1>2. w \in Nat \ {0}
  BY <1>1, PortionsAre
<1>3. Buckets(s, cap) = Pieces(s, w)
  BY <1>1 DEF Buckets, Portions, Pieces
<1>4. FlattenSeq(Pieces(s, w)) = s /\ Len(Pieces(s, w)) = Portions(n, w)
  <2>. HIDE DEF w
  <2>. QED  BY <1>2, Flattened
<1>5. Portions(n, w) <= cap
  <2>. DEFINE m == Portions(n, w)
  <2>1. (m \in Nat /\ (m - 1) * w < n) \/ m = 0
    <3>. HIDE DEF n, w
    <3>. QED  BY <1>1, <1>2, PortionsAre
  <2>2. n <= cap * w
    <3>1. CASE n <= cap
      <4>1. w = 1 /\ cap * 1 = cap
        BY <3>1
      <4>. QED  BY <3>1, <4>1
    <3>2. CASE ~(n <= cap)
      <4>1. w = Portions(n, cap)
        BY <3>2
      <4>2. Portions(n, cap) \in Nat /\ Portions(n, cap) * cap >= n
        BY <1>1, PortionsAre
      <4>. DEFINE x == Portions(n, cap)
      <4>3. x \in Nat /\ x * cap >= n /\ w = x
        BY <4>1, <4>2
      <4>. HIDE DEF x, w
      <4>. QED  BY <1>1, <4>3
    <3>. QED  BY <3>1, <3>2
  <2>. HIDE DEF n, w, m
  <2>3. CASE m = 0
    BY <1>1, <2>3 DEF m
  <2>4. CASE m \in Nat /\ (m - 1) * w < n
    <3>1. (m - 1) * w \in Int /\ cap * w \in Int
      BY <1>1, <1>2, <2>4
    <3>2. (m - 1) * w < cap * w
      BY <1>1, <2>2, <2>4, <3>1
    <3>3. m - 1 < cap
      <4>1. m - 1 \in Int /\ cap \in Int
        BY <1>1, <2>4
      <4>. QED  BY <1>2, <3>2, <4>1, Cancel
    <3>. QED  BY <1>1, <2>4, <3>3 DEF m
  <2>. QED  BY <2>1, <2>3, <2>4
<1>. QED  BY <1>3, <1>4, <1>5

-----------------------------------------------------------------------------
(* A file of typical chunks.                                               *)

At(m) == m * Typical + 1

(* Only typical chunks, M of them.                                         *)
Regular(f, M) ==
    /\ f \in Seq(Cell) /\ M \in Nat \ {0} /\ Len(f) = M * Typical
    /\ \A c \in Range(f) : c.n = Typ

LEMMA Multiple ==
    ASSUME NEW d \in Nat \ {0}, NEW m \in Nat
    PROVE  m * d \in Nat /\ (m * d) % d = 0
<1>1. m * d \in Nat
  OBVIOUS
<1>. DEFINE q == (m * d) \div d
            r == (m * d) % d
<1>2. q \in Int /\ r \in 0..d - 1 /\ m * d = d * q + r
  BY <1>1
<1>. HIDE DEF q, r
<1>3. d * (m - q) = r
  BY <1>2
<1>4. m - q >= 1 => d * (m - q) >= d
  BY <1>2
<1>5. m - q <= -1 => d * (m - q) <= -d
  BY <1>2
<1>6. m - q \in Int
  BY <1>2
<1>7. m - q = 0
  BY <1>2, <1>3, <1>4, <1>5, <1>6
<1>8. r = 0
  BY <1>3, <1>7
<1>. QED  BY <1>1, <1>8 DEF r

LEMMA MultipleBack ==
    ASSUME NEW d \in Nat \ {0}, NEW x \in Nat \ {0}, x % d = 0
    PROVE  \E m \in Nat \ {0} : x = m * d
<1>. DEFINE q == x \div d
<1>1. q \in Int /\ x = d * q
  OBVIOUS
<1>. HIDE DEF q
<1>2. q <= 0 => d * q <= 0
  BY <1>1
<1>3. q \in Nat \ {0} /\ x = q * d
  BY <1>1, <1>2
<1>. QED  BY <1>3

LEMMA AtIs ==
    ASSUME NEW m \in Nat
    PROVE  /\ Typical \in Nat \ {0} /\ Typical > Hdr /\ Hdr \in Nat \ {0}
           /\ At(m) \in Offsets /\ At(m) = m * Typical + 1 /\ At(m + 1) = At(m) + Typical
<1>1. Typical \in Nat \ {0} /\ Typical > Hdr /\ Hdr \in Nat \ {0}
  BY FormatAssumption DEF Typical
<1>2. m * Typical \in Nat /\ m \in Int /\ 1 \in Int
  BY <1>1, Multiple
<1>3. (m + 1) * Typical = m * Typical + 1 * Typical
  BY <1>1, <1>2, Cancel
<1>4. 1 * Typical = Typical
  BY <1>1
<1>. QED  BY <1>1, <1>2, <1>3, <1>4 DEF At, Offsets

LEMMA RegularChunk ==
    ASSUME NEW f, NEW M, Regular(f, M), NEW m \in 0..M - 1, OnTheWalk(f, At(m))
    PROVE  /\ Complete(f, At(m)) /\ Size(f, At(m)) = Typical /\ f[At(m)].n = Typ
           /\ At(m) + Size(f, At(m)) = At(m + 1) /\ OnTheWalk(f, At(m + 1))
<1>. DEFINE p == At(m)
<1>1. /\ f \in Seq(Cell) /\ M \in Nat \ {0} /\ Len(f) = M * Typical
      /\ \A c \in Range(f) : c.n = Typ
  BY DEF Regular
<1>2. m \in Nat /\ m + 1 \in Nat /\ m + 1 <= M /\ Len(f) \in Nat
  BY <1>1
<1>3. /\ Typical \in Nat \ {0} /\ Typical > Hdr /\ Hdr \in Nat \ {0}
      /\ p \in Offsets /\ At(m + 1) \in Offsets /\ At(m + 1) = p + Typical
      /\ At(m + 1) = (m + 1) * Typical + 1
  BY <1>2, AtIs
<1>4. (m + 1) * Typical <= M * Typical
  BY <1>1, <1>2, <1>3, Cancel
<1>5. At(m + 1) <= Len(f) + 1
  <2>. DEFINE x == (m + 1) * Typical
              y == M * Typical
  <2>1. x \in Int /\ y \in Int /\ x <= y /\ Len(f) = y /\ At(m + 1) = x + 1
    BY <1>1, <1>2, <1>3, <1>4, Cancel
  <2>. HIDE DEF x, y
  <2>. QED  BY <2>1
<1>. HIDE DEF p
<1>6. p \in Nat /\ p >= 1 /\ p + Typical - 1 <= Len(f) /\ p + Hdr - 1 <= Len(f)
  BY <1>2, <1>3, <1>5 DEF Offsets
<1>7. ~Walk(f, p).lost /\ Suffix(Walk(f, p).rows, Walk(f, 1).rows)
  BY DEF OnTheWalk, p
<1>8. ValidHeader(f, p)
  <2>1. Complete(f, p) => ValidHeader(f, p)
    BY DEF Complete
  <2>. QED  BY <1>1, <1>3, <1>6, <1>7, <2>1, WalkEnds
<1>9. f[p].n = Typ
  <2>1. p \in DOMAIN f
    BY <1>1, <1>3, <1>8, HeadIs DEF Offsets
  <2>2. f[p] \in Range(f)
    BY <2>1 DEF Range
  <2>. QED  BY <1>1, <2>2
<1>10. Size(f, p) = Typical
  BY <1>9 DEF Size, Typical
<1>11. Complete(f, p)
  BY <1>6, <1>8, <1>10 DEF Complete
<1>. DEFINE q == p + Size(f, p)
<1>12. /\ Walk(f, p).rows = Rows(f, p) \o Walk(f, q).rows
       /\ Walk(f, p).lost = Walk(f, q).lost /\ Rows(f, p) \in Seq(Row)
  BY <1>1, <1>3, <1>11, WalkOn
<1>13. q = At(m + 1) /\ q \in Offsets /\ 1 \in Offsets
  BY <1>3, <1>10 DEF Offsets
<1>. HIDE DEF q
<1>14. Walk(f, q).rows \in Seq(Row) /\ Walk(f, p).rows \in Seq(Row) /\ Walk(f, 1).rows \in Seq(Row)
  BY <1>1, <1>3, <1>13, WalkTyped
<1>15. Suffix(Walk(f, q).rows, Walk(f, p).rows)
  BY <1>12, <1>14, SuffixOfConcat
<1>16. Suffix(Walk(f, q).rows, Walk(f, 1).rows)
  BY <1>7, <1>14, <1>15, SuffixSuffix
<1>17. OnTheWalk(f, q)
  BY <1>7, <1>12, <1>16 DEF OnTheWalk
<1>. QED  BY <1>9, <1>10, <1>11, <1>13, <1>17 DEF p, q

LEMMA RegularWalk ==
    ASSUME NEW f, NEW M, Regular(f, M), Sound(f)
    PROVE  \A m \in 0..M :
              /\ OnTheWalk(f, At(m)) /\ Len(Walk(f, At(m)).rows) = (M - m) * Typ
              /\ m < M => Complete(f, At(m))
<1>1. f \in Seq(Cell) /\ M \in Nat \ {0} /\ M \in Nat /\ Len(f) = M * Typical /\ Typ \in Nat \ {0}
  BY FormatAssumption DEF Regular
<1>2. At(0) = 1 /\ 1 \in Offsets
  <2>1. 0 * Typical = 0
    BY FormatAssumption DEF Typical
  <2>. QED  BY <2>1 DEF At, Offsets
<1>3. OnTheWalk(f, At(0))
  <2>1. Suffix(Walk(f, 1).rows, Walk(f, 1).rows)
    BY <1>1, <1>2, WalkTyped, SuffixOfItself
  <2>. QED  BY <1>2, <2>1 DEF OnTheWalk, Sound
<1>4. \A m \in 0..M : OnTheWalk(f, At(m))
  <2>. DEFINE Off == {m \in 0..M : ~OnTheWalk(f, At(m))}
  <2>. SUFFICES ASSUME Off # {} PROVE FALSE
    OBVIOUS
  <2>1. Off \subseteq Nat
    OBVIOUS
  <2>2. PICK m \in Off : \A x \in Off : m <= x
    <3>. HIDE DEF Off
    <3>. QED  BY <2>1, LeastNatural
  <2>3. m \in 0..M /\ m # 0 /\ ~OnTheWalk(f, At(m))
    BY <1>3
  <2>4. m - 1 \in 0..M /\ m - 1 \in 0..M - 1 /\ ~(m <= m - 1) /\ m - 1 + 1 = m
    BY <1>1, <2>3
  <2>5. m - 1 \notin Off
    <3>. HIDE DEF Off
    <3>. QED  BY <2>2, <2>4
  <2>6. OnTheWalk(f, At(m - 1))
    BY <2>4, <2>5
  <2>7. OnTheWalk(f, At(m - 1 + 1))
    BY <2>4, <2>6, RegularChunk
  <2>. QED  BY <2>3, <2>4, <2>7
<1>5. \A m \in 0..M : m < M =>
         Complete(f, At(m)) /\ f[At(m)].n = Typ /\ At(m) + Size(f, At(m)) = At(m + 1)
  <2>. TAKE m \in 0..M
  <2>. HAVE m < M
  <2>1. m \in 0..M - 1
    BY <1>1
  <2>. QED  BY <1>4, <2>1, RegularChunk
<1>6. Len(Walk(f, At(M)).rows) = (M - M) * Typ
  <2>1. At(M) \in Offsets /\ At(M) = M * Typical + 1 /\ Hdr \in Nat \ {0}
    BY <1>1, AtIs
  <2>2. ~Complete(f, At(M))
    <3>. SUFFICES ASSUME Complete(f, At(M)) PROVE FALSE
      OBVIOUS
    <3>1. At(M) \in 1..Len(f)
      BY <1>1, <2>1, CompleteIs, HeadIs DEF Offsets
    <3>2. Len(f) \in Nat /\ At(M) = Len(f) + 1
      BY <1>1, <2>1
    <3>. QED  BY <3>1, <3>2
  <2>3. Walk(f, At(M)).rows = <<>>
    BY <1>1, <2>1, <2>2, WalkEnds
  <2>4. (M - M) * Typ = 0
    BY <1>1
  <2>. QED  BY <2>3, <2>4
<1>7. \A m \in 0..M : Len(Walk(f, At(m)).rows) = (M - m) * Typ
  <2>. DEFINE Off == {m \in 0..M : Len(Walk(f, At(m)).rows) # (M - m) * Typ}
  <2>. SUFFICES ASSUME Off # {} PROVE FALSE
    OBVIOUS
  <2>1. Off \subseteq 0..M
    OBVIOUS
  <2>2. PICK m \in Off : \A x \in Off : x <= m
    <3>. HIDE DEF Off
    <3>. QED  BY <1>1, <2>1, GreatestNatural
  <2>3. m \in 0..M /\ m # M /\ Len(Walk(f, At(m)).rows) # (M - m) * Typ
    BY <1>6
  <2>4. m + 1 \in 0..M /\ m < M /\ ~(m + 1 <= m) /\ m \in Nat
    BY <1>1, <2>3
  <2>5. m + 1 \notin Off
    <3>. HIDE DEF Off
    <3>. QED  BY <2>2, <2>4
  <2>6. Len(Walk(f, At(m + 1)).rows) = (M - (m + 1)) * Typ
    BY <2>4, <2>5
  <2>. HIDE DEF Off
  <2>. DEFINE p == At(m)
  <2>7. Complete(f, p) /\ f[p].n = Typ /\ p + Size(f, p) = At(m + 1)
    BY <1>5, <2>3, <2>4
  <2>8. p \in Offsets /\ At(m + 1) \in Offsets
    BY <2>4, AtIs
  <2>. HIDE DEF p
  <2>9. /\ Walk(f, p).rows = Rows(f, p) \o Walk(f, At(m + 1)).rows
        /\ Rows(f, p) \in Seq(Row) /\ Len(Rows(f, p)) = Typ
        /\ Walk(f, At(m + 1)).rows \in Seq(Row)
    BY <1>1, <2>7, <2>8, WalkOn, WalkTyped
  <2>10. Len(Walk(f, p).rows) = Typ + (M - (m + 1)) * Typ
    BY <2>6, <2>9, SuffixOfConcat
  <2>11. (M - (m + 1)) * Typ = (M - m) * Typ - Typ /\ (M - m) * Typ \in Int
    <3>1. M - m \in Int /\ M - (m + 1) = (M - m) - 1
      BY <1>1, <2>4
    <3>. QED  BY <1>1, <3>1, Cancel
  <2>12. Len(Walk(f, p).rows) = (M - m) * Typ
    BY <1>1, <2>10, <2>11
  <2>. QED  BY <2>3, <2>12 DEF p
<1>. QED  BY <1>4, <1>5, <1>7

(* Of a file of typical chunks as much is read as was asked for.           *)
LEMMA RegularTail ==
    ASSUME NEW f, NEW M, Regular(f, M), Sound(f), NEW cap \in Nat \ {0}
    PROVE  LET all == Walk(f, 1).rows
           IN  Len(ReadTail(f, cap)) = IF cap <= Len(all) THEN cap ELSE Len(all)
<1>. DEFINE all == Walk(f, 1).rows
            c == Portions(cap, Typ)
            m0 == IF M - (c + 2) >= 0 THEN M - (c + 2) ELSE 0
            start == TailStart(f, cap)
<1>1. f \in Seq(Cell) /\ M \in Nat \ {0} /\ Len(f) = M * Typical
  BY DEF Regular
<1>2. Typ \in Nat \ {0} /\ Typical \in Nat \ {0} /\ cap \in Nat /\ 0 \in Nat /\ 0 \in Int
  BY FormatAssumption DEF Typical
<1>3. c \in Nat /\ c * Typ \in Nat /\ c * Typ >= cap
  BY <1>2, PortionsAre
<1>. HIDE DEF c
<1>4. m0 \in 0..M - 1 /\ m0 \in 0..M /\ m0 \in Nat
  BY <1>1, <1>3
<1>5. start = m0 * Typical
  <2>. DEFINE x == Len(f) - (c + 2) * Typical
  <2>1. start = Max({0, x})
    BY DEF TailStart, c, Portions
  <2>2. x = (M - (c + 2)) * Typical /\ x \in Int
    <3>1. M \in Int /\ c + 2 \in Int /\ M - (c + 2) \in Int
      BY <1>1, <1>3
    <3>2. (M - (c + 2)) * Typical = M * Typical - (c + 2) * Typical
      BY <1>2, <3>1, Cancel
    <3>3. (M - (c + 2)) * Typical \in Int
      BY <1>2, <3>1, Cancel
    <3>. QED  BY <1>1, <3>2, <3>3
  <2>. HIDE DEF x
  <2>3. start = IF 0 >= x THEN 0 ELSE x
    BY <2>1, <2>2, MaxOfTwo
  <2>4. CASE M - (c + 2) >= 0
    <3>1. m0 = M - (c + 2) /\ x = m0 * Typical
      BY <2>2, <2>4
    <3>2. x >= 0
      BY <1>2, <1>4, <3>1, Multiple
    <3>3. start = x
      BY <2>2, <2>3, <3>2
    <3>. QED  BY <3>1, <3>3
  <2>5. CASE ~(M - (c + 2) >= 0)
    <3>1. m0 = 0 /\ 0 * Typical = 0
      BY <1>2, <2>5
    <3>2. M - (c + 2) <= 0 /\ M - (c + 2) \in Int
      BY <1>1, <1>3, <2>5
    <3>3. (M - (c + 2)) * Typical <= 0 * Typical
      BY <1>2, <3>2, Cancel
    <3>4. x <= 0
      BY <2>2, <3>1, <3>3
    <3>5. start = 0
      BY <2>2, <2>3, <3>4
    <3>. QED  BY <3>1, <3>5
  <2>. QED  BY <2>4, <2>5
<1>. HIDE DEF m0, start
<1>6. start % Typical = 0 /\ start \in Nat /\ Len(f) % Typical = 0
  BY <1>1, <1>2, <1>4, <1>5, Multiple
<1>7. start - (start % Typical) + 1 = At(m0)
  BY <1>5, <1>6 DEF At
<1>8. /\ OnTheWalk(f, At(m0)) /\ Len(Walk(f, At(m0)).rows) = (M - m0) * Typ
      /\ At(m0) \in Offsets
  BY <1>4, RegularWalk, AtIs
<1>9. Len(all) = M * Typ /\ all \in Seq(Row)
  <2>1. At(0) = 1 /\ 1 \in Offsets /\ 0 \in 0..M
    <3>1. 0 * Typical = 0
      BY <1>2
    <3>. QED  BY <1>1, <3>1 DEF At, Offsets
  <2>2. Len(Walk(f, At(0)).rows) = (M - 0) * Typ
    BY <2>1, RegularWalk
  <2>3. M - 0 = M
    BY <1>1
  <2>. QED  BY <1>1, <2>1, <2>2, <2>3, WalkTyped
<1>. DEFINE r == Walk(f, At(m0)).rows
            parsed == ParseFrom(f, At(m0), cap)
<1>10. r \in Seq(Row) /\ parsed = LastOf(r, cap)
  BY <1>1, <1>8, WalkTyped DEF ParseFrom, OnTheWalk
<1>11. parsed \in Seq(Row) /\ Len(parsed) = IF cap <= Len(r) THEN cap ELSE Len(r)
  <2>. HIDE DEF r, parsed
  <2>. QED  BY <1>2, <1>10, LastOfIs
<1>12. M - m0 >= 1 /\ M - m0 \in Nat
  BY <1>1, <1>4
<1>13. (M - m0) * Typ >= Typ /\ (M - m0) * Typ \in Nat
  <2>1. 1 * Typ <= (M - m0) * Typ
    BY <1>2, <1>12, Cancel
  <2>2. 1 * Typ = Typ /\ (M - m0) * Typ \in Int
    BY <1>2, <1>12, Cancel
  <2>. QED  BY <1>2, <2>1, <2>2
<1>14. parsed # <<>>
  <2>1. Len(r) = (M - m0) * Typ
    BY <1>8
  <2>. HIDE DEF r, parsed
  <2>2. Len(r) \in Nat /\ Len(r) >= 1
    BY <1>2, <1>13, <2>1
  <2>3. Len(parsed) # 0
    BY <1>2, <1>11, <2>2
  <2>4. Len(<<>>) = 0
    OBVIOUS
  <2>. QED  BY <2>3, <2>4
<1>15. ReadTail(f, cap) = parsed
  BY <1>6, <1>7, <1>14 DEF ReadTail, start
<1>16. Len(parsed) = IF cap <= Len(all) THEN cap ELSE Len(all)
  <2>1. Len(r) = (M - m0) * Typ
    BY <1>8
  <2>. HIDE DEF r, parsed, all
  <2>2. CASE m0 = 0
    <3>1. M - m0 = M
      BY <1>1, <2>2
    <3>. QED  BY <1>9, <1>11, <2>1, <3>1
  <2>3. CASE m0 # 0
    <3>1. m0 = M - (c + 2)
      BY <2>3 DEF m0
    <3>2. M - m0 = c + 2 /\ c <= M - m0 /\ M - m0 <= M /\ M - m0 \in Int /\ c \in Int /\ M \in Int
      BY <1>1, <1>3, <1>4, <3>1
    <3>3. c * Typ <= (M - m0) * Typ /\ (M - m0) * Typ <= M * Typ /\ M * Typ \in Int
      BY <1>2, <3>2, Cancel
    <3>. DEFINE x == c * Typ
                y == (M - m0) * Typ
                z == M * Typ
    <3>4. x \in Nat /\ y \in Nat /\ z \in Int /\ cap <= x /\ x <= y /\ y <= z
          /\ Len(r) = y /\ Len(all) = z
      BY <1>3, <1>9, <1>13, <2>1, <3>3
    <3>. HIDE DEF x, y, z
    <3>5. cap <= Len(r) /\ cap <= Len(all)
      BY <1>2, <3>4
    <3>. QED  BY <1>11, <3>5
  <2>. QED  BY <2>2, <2>3
<1>. QED  BY <1>15, <1>16

LEMMA RegularRate ==
    ASSUME NEW f, NEW M, Regular(f, M), Sound(f)
    PROVE  PeekRate(f) = Rate
<1>. DEFINE start == Max({1, Len(f) - Typical + 1})
<1>1. f \in Seq(Cell) /\ M \in Nat \ {0} /\ Len(f) = M * Typical /\ Len(f) \in Nat
  BY DEF Regular
<1>2. M - 1 \in 0..M /\ M - 1 < M /\ M - 1 \in Nat /\ M \in Int
  BY <1>1
<1>3. Complete(f, At(M - 1))
  BY <1>2, RegularWalk
<1>4. /\ At(M - 1) = (M - 1) * Typical + 1 /\ Typical \in Nat \ {0} /\ At(M - 1) \in Offsets
  BY <1>2, AtIs
<1>5. (M - 1) * Typical = M * Typical - Typical
  BY <1>2, <1>4, Cancel
<1>6. At(M - 1) = Len(f) - Typical + 1
  BY <1>1, <1>4, <1>5
<1>7. start = At(M - 1)
  <2>. DEFINE x == Len(f) - Typical + 1
  <2>1. x \in Int /\ x >= 1
    BY <1>1, <1>4, <1>6 DEF Offsets
  <2>2. start = Max({1, x})
    OBVIOUS
  <2>. HIDE DEF x
  <2>3. Max({1, x}) = IF 1 >= x THEN 1 ELSE x
    BY <2>1, MaxOfTwo
  <2>4. start = x
    BY <2>1, <2>2, <2>3
  <2>. QED  BY <1>6, <2>4 DEF x
<1>8. ValidHeader(f, At(M - 1)) /\ At(M - 1) \in 1..Len(f)
  BY <1>1, <1>3, <1>4, HeadIs DEF Complete, Offsets
<1>9. At(M - 1) \in start..Len(f)
  BY <1>7, <1>8
<1>. QED  BY <1>8, <1>9 DEF PeekRate

-----------------------------------------------------------------------------
(* The page.                                                               *)

LEMMA PageIs ==
    ASSUME NEW f \in Seq(Cell), Sound(f), NEW window \in Nat \ {0}, NEW points \in Nat \ {0}
    PROVE  LET all == Walk(f, 1).rows
               page == TrendPage(f, window, points)
               shown == FlattenSeq(page)
           IN  /\ Len(page) <= points
               /\ shown = LastOf(all, Len(shown))
               /\ all # <<>> => shown # <<>>
               /\ (\A c \in Range(f) : c.n = Typ) /\ Len(f) % Typical = 0 =>
                     Len(shown) = Min({window * Rate, Len(all)})
<1>. DEFINE all == Walk(f, 1).rows
            page == TrendPage(f, window, points)
            shown == FlattenSeq(page)
<1>1. 1 \in Offsets /\ Rate \in Nat \ {0} /\ DefaultRate \in Nat \ {0} /\ Typical \in Nat \ {0}
  BY FormatAssumption DEF Offsets, Typical
<1>2. all \in Seq(Row) /\ Len(all) \in Nat
  BY <1>1, WalkTyped
<1>3. window * Rate \in Nat /\ window * Rate >= 1
  BY <1>1
<1>4. CASE f = <<>>
  <2>1. page = <<>> /\ Len(page) = 0
    BY <1>4 DEF TrendPage
  <2>2. shown = <<>>
    BY <2>1 DEF FlattenSeq
  <2>3. all = <<>>
    <3>1. ~Complete(f, 1)
      <4>. SUFFICES ASSUME Complete(f, 1) PROVE FALSE
        OBVIOUS
      <4>1. 1 \in 1..Len(f)
        <5>1. 1 \in Nat \ {0} /\ ValidHeader(f, 1)
          BY DEF Complete
        <5>. QED  BY <5>1, HeadIs
      <4>2. Len(f) = 0
        BY <1>4
      <4>. QED  BY <4>1, <4>2
    <3>. QED  BY <1>1, <3>1, WalkEnds
  <2>4. Len(shown) = 0 /\ Len(all) = 0 /\ shown \in Seq(Row)
    BY <2>2, <2>3
  <2>5. Suffix(shown, all)
    BY <2>2, <2>4, <1>2, SuffixOfItself
  <2>. HIDE DEF shown, all, page
  <2>6. shown = LastOf(all, Len(shown))
    BY <1>2, <2>4, <2>5, SuffixIsLast
  <2>7. Min({window * Rate, Len(all)}) = 0
    <3>. DEFINE x == window * Rate
    <3>1. x \in Int /\ x >= 1
      BY <1>3
    <3>. HIDE DEF x
    <3>2. Min({x, 0}) = 0
      BY <3>1, MinOfTwo
    <3>. QED  BY <2>4, <3>2 DEF x
  <2>. QED  BY <2>1, <2>3, <2>4, <2>6, <2>7 DEF shown, all, page
<1>5. CASE f # <<>>
  <2>. DEFINE cap == Max({1, window * PeekRate(f)})
              r == ReadTail(f, cap)
  <2>1. cap \in Nat \ {0} /\ (PeekRate(f) = Rate => cap = window * Rate)
    <3>1. PeekRate(f) \in Nat \ {0}
      BY <1>1 DEF PeekRate
    <3>. DEFINE x == window * PeekRate(f)
    <3>2. x \in Nat /\ x >= 1
      BY <3>1
    <3>3. cap = Max({1, x})
      OBVIOUS
    <3>. HIDE DEF x
    <3>4. Max({1, x}) = IF 1 >= x THEN 1 ELSE x
      BY <3>2, MaxOfTwo
    <3>5. cap = x
      BY <3>2, <3>3, <3>4
    <3>. HIDE DEF cap
    <3>. QED  BY <3>2, <3>5 DEF x
  <2>2. page = Buckets(r, points)
    BY <1>5 DEF TrendPage
  <2>. HIDE DEF cap
  <2>3. r \in Seq(Row) /\ Suffix(r, all) /\ (all # <<>> => r # <<>>)
    BY <2>1, ReadTailIs
  <2>. HIDE DEF r, page
  <2>4. shown = r /\ Len(page) <= points
    BY <2>2, <2>3, BucketsAre
  <2>5. shown = LastOf(all, Len(shown))
    <3>. HIDE DEF all, shown
    <3>. QED  BY <1>2, <2>3, <2>4, SuffixIsLast
  <2>6. ASSUME \A c \in Range(f) : c.n = Typ, Len(f) % Typical = 0
        PROVE  Len(shown) = Min({window * Rate, Len(all)})
    <3>1. Len(f) \in Nat \ {0}
      BY <1>5, EmptySeq
    <3>2. PICK M \in Nat \ {0} : Len(f) = M * Typical
      BY <1>1, <2>6, <3>1, MultipleBack
    <3>3. Regular(f, M)
      BY <2>6, <3>2 DEF Regular
    <3>4. cap = window * Rate
      BY <2>1, <3>3, RegularRate
    <3>5. Len(r) = IF cap <= Len(all) THEN cap ELSE Len(all)
      BY <2>1, <3>3, RegularTail DEF r
    <3>6. Min({cap, Len(all)}) = IF cap <= Len(all) THEN cap ELSE Len(all)
      BY <1>2, <2>1, MinOfTwo
    <3>. HIDE DEF shown, all
    <3>. QED  BY <2>4, <3>4, <3>5, <3>6
  <2>. QED  BY <2>3, <2>4, <2>5, <2>6 DEF page
<1>. QED  BY <1>4, <1>5

(* Whatever was written, cut short, killed, lost with the power or rotated:
   while no chunk follows one cut short, get_decimated_data shows the newest
   intervals of decimated.bin without a gap, in no more points than asked for,
   and of regular chunks all that the window spans.                        *)
THEOREM PageShowsNewest == Spec => []PageIsNewest
<1>1. TypeOK => PageIsNewest
  <2>. SUFFICES ASSUME TypeOK, Sound(cur), NEW window \in Windows, NEW points \in Points
       PROVE  LET all == Walk(cur, 1).rows
                  page == TrendPage(cur, window, points)
                  shown == FlattenSeq(page)
              IN  /\ Len(page) <= points
                  /\ shown = LastOf(all, Len(shown))
                  /\ all # <<>> => shown # <<>>
                  /\ (\A c \in Range(cur) : c.n = Typ) /\ Len(cur) % Typical = 0 =>
                        Len(shown) = Min({window * Rate, Len(all)})
    BY DEF PageIsNewest
  <2>1. cur \in Seq(Cell) /\ window \in Nat \ {0} /\ points \in Nat \ {0}
    BY StoreAssumption DEF TypeOK
  <2>. QED  BY <2>1, PageIs
<1>. QED  BY TypeCorrect, <1>1, PTL

-----------------------------------------------------------------------------
(* The tools.                                                              *)

LEMMA LastOfAll ==
    ASSUME NEW s \in Seq(Row), NEW n \in Nat, Len(s) <= n
    PROVE  LastOf(s, n) = s
<1>. DEFINE L == Len(s)
            x == L - n + 1
<1>1. L \in Nat /\ x \in Int /\ x <= 1
  OBVIOUS
<1>2. LastOf(s, n) = SubSeq(s, Max({1, x}), L)
  BY DEF LastOf
<1>. HIDE DEF x
<1>3. Max({1, x}) = 1
  BY <1>1, MaxOfTwo
<1>. QED  BY <1>2, <1>3, SubSeqFull

(* The chunk a last cell belongs to.                                       *)
LEMMA LastChunk ==
    ASSUME NEW f, FileInv(f), f # <<>>, Last(f).k = Hdr + Last(f).n
    PROVE  \E q \in Offsets : Complete(f, q) /\ q + Size(f, q) = Len(f) + 1
<1>. DEFINE L == Len(f)
            c == f[L]
<1>1. f \in Seq(Cell) /\ L \in Nat \ {0} /\ DOMAIN f = 1..L /\ L \in DOMAIN f /\ L \in 1..L
  <2>1. f \in Seq(Cell)
    BY DEF FileInv
  <2>2. L \in Nat \ {0}
    BY <2>1, EmptySeq
  <2>. QED  BY <2>1, <2>2
<1>2. c.ts \in Nat /\ c.n \in Nat /\ c.k \in Nat /\ c.k = Hdr + c.n /\ Hdr \in Nat \ {0}
  <2>1. c.ts \in Nat /\ c.n \in Nat /\ c.k \in Nat
    BY <1>1, CellIs
  <2>2. c.k = Hdr + c.n
    BY DEF Last
  <2>. QED  BY <2>1, <2>2, FormatAssumption
<1>3. c.n > 0
  <2>1. c = Zero \/ c.n > 0
    BY <1>1 DEF FileInv, Good
  <2>2. c = Zero => c.k = 0
    BY DEF Zero
  <2>. QED  BY <1>2, <2>1, <2>2
<1>. DEFINE Back(j) == L - j \in 1..L /\ f[L - j].ts = c.ts /\ f[L - j].n = c.n /\ f[L - j].k = c.k - j
<1>4. \A j \in 0..c.k - 1 : Back(j)
  <2>. DEFINE Off == {j \in 0..c.k - 1 : ~Back(j)}
  <2>. SUFFICES ASSUME Off # {} PROVE FALSE
    OBVIOUS
  <2>1. Off \subseteq Nat
    <3>. HIDE DEF Back, c
    <3>. QED  BY <1>2
  <2>2. PICK j \in Off : \A i \in Off : j <= i
    <3>. HIDE DEF Off
    <3>. QED  BY <2>1, LeastNatural
  <2>3. j \in 0..c.k - 1 /\ ~Back(j)
    <3>. HIDE DEF Back, c
    <3>. QED  OBVIOUS
  <2>4. Back(0)
    <3>1. L - 0 = L /\ c.k - 0 = c.k
      BY <1>1, <1>2
    <3>. QED  BY <1>1, <3>1
  <2>5. j \in Nat /\ j # 0 /\ j <= c.k - 1
    <3>. HIDE DEF Back, c
    <3>. QED  BY <1>2, <2>3, <2>4
  <2>6. Back(j - 1)
    <3>1. j - 1 \in 0..c.k - 1 /\ ~(j <= j - 1)
      BY <1>2, <2>5
    <3>2. j - 1 \notin Off
      <4>. HIDE DEF Off
      <4>. QED  BY <2>2, <3>1
    <3>. HIDE DEF Back
    <3>. QED  BY <3>1, <3>2
  <2>. DEFINE i == L - (j - 1)
  <2>7. /\ i \in 1..L /\ i \in DOMAIN f /\ f[i].ts = c.ts /\ f[i].n = c.n
        /\ f[i].k = c.k - (j - 1) /\ i - 1 = L - j
    BY <1>1, <2>5, <2>6
  <2>. HIDE DEF i, c
  <2>8. f[i].k > 1 /\ f[i].k - 1 = c.k - j
    <3>1. \A a, b, x \in Int : b <= a - 1 /\ x = a - (b - 1) => x > 1 /\ x - 1 = a - b
      OBVIOUS
    <3>2. c.k \in Int /\ j \in Int /\ f[i].k = c.k - (j - 1) /\ j <= c.k - 1
      BY <1>2, <2>5, <2>7
    <3>3. c.k - (j - 1) \in Int
      BY <3>2
    <3>. QED  BY <3>1, <3>2, <3>3
  <2>9. i > 1 /\ f[i - 1] = [f[i] EXCEPT !.k = f[i].k - 1]
    BY <2>7, <2>8 DEF FileInv, Follows
  <2>10. f[i] \in Cell
    BY <1>1, <2>7
  <2>11. f[i - 1].ts = c.ts /\ f[i - 1].n = c.n /\ f[i - 1].k = c.k - j
    BY <2>7, <2>8, <2>9, <2>10 DEF Cell
  <2>12. L - j \in 1..L
    BY <1>1, <2>5, <2>7, <2>9
  <2>13. Back(j)
    BY <2>7, <2>11, <2>12
  <2>. QED  BY <2>3, <2>13
<1>. DEFINE q == L - c.k + 1
<1>5. c.k - 1 \in 0..c.k - 1 /\ L - (c.k - 1) = q /\ c.k - 1 >= 0
  <2>. HIDE DEF c
  <2>. QED  BY <1>1, <1>2
<1>6. q \in 1..L /\ q \in Offsets /\ q \in DOMAIN f
  <2>1. q \in 1..L
    BY <1>4, <1>5
  <2>. HIDE DEF q
  <2>. QED  BY <1>1, <2>1 DEF Offsets
<1>7. \A k \in 0..c.k - 1 : f[q + k].ts = c.ts /\ f[q + k].n = c.n /\ f[q + k].k = k + 1 /\ q + k \in 1..L
  <2>. TAKE k \in 0..c.k - 1
  <2>. DEFINE j == c.k - 1 - k
  <2>1. j \in 0..c.k - 1 /\ L - j = q + k /\ c.k - j = k + 1
    <3>. HIDE DEF c
    <3>. QED  BY <1>1, <1>2
  <2>. HIDE DEF j, q
  <2>2. Back(j)
    <3>. HIDE DEF Back
    <3>. QED  BY <1>4, <2>1
  <2>3. /\ f[L - j].ts = c.ts /\ f[L - j].n = c.n /\ f[L - j].k = c.k - j /\ L - j \in 1..L
    BY <2>2
  <2>. HIDE DEF c
  <2>. QED  BY <2>1, <2>3
<1>. HIDE DEF q, c
<1>8. f[q].ts = c.ts /\ f[q].n = c.n /\ f[q].k = 1
  <2>1. q + 0 = q /\ 0 \in 0..c.k - 1
    BY <1>2, <1>6
  <2>2. f[q + 0].ts = c.ts /\ f[q + 0].n = c.n /\ f[q + 0].k = 0 + 1
    BY <1>7, <2>1
  <2>. QED  BY <2>1, <2>2
<1>9. ValidHeader(f, q)
  <2>1. q + Hdr - 1 <= Len(f)
    <3>1. q + (Hdr - 1) \in 1..L
      BY <1>2, <1>3, <1>7
    <3>. QED  BY <1>1, <1>2, <1>6, <3>1
  <2>2. f[q] \in Cell
    BY <1>1, <1>6
  <2>3. ASSUME NEW i \in 0..Hdr - 1
        PROVE  f[q + i] = [f[q] EXCEPT !.k = i + 1]
    <3>1. i \in 0..c.k - 1
      BY <1>2
    <3>2. f[q + i].ts = c.ts /\ f[q + i].n = c.n /\ f[q + i].k = i + 1 /\ q + i \in 1..L
      BY <1>7, <3>1
    <3>3. f[q + i] \in Cell
      BY <1>1, <3>2
    <3>. QED  BY <1>8, <2>2, <3>2, <3>3 DEF Cell
  <2>. QED  BY <1>3, <1>8, <2>1, <2>3 DEF ValidHeader
<1>10. Size(f, q) = c.k
  BY <1>2, <1>8 DEF Size
<1>11. q + Size(f, q) = Len(f) + 1
  BY <1>1, <1>2, <1>5, <1>10 DEF q
<1>12. Complete(f, q)
  BY <1>1, <1>2, <1>6, <1>9, <1>10, <1>11 DEF Complete
<1>. QED  BY <1>6, <1>11, <1>12

(* A sound file that ends with a chunk passes.                             *)
LEMMA SoundPasses ==
    ASSUME NEW f, FileInv(f), Sound(f), Complete(f, 1), Last(f).k = Hdr + Last(f).n
    PROVE  Validates(f)
<1>. DEFINE heads == {p \in DOMAIN f : Complete(f, p)}
<1>1. f \in Seq(Cell) /\ Len(f) \in Nat /\ Hdr \in Nat \ {0} /\ 1 \in Offsets /\ 1 \in Nat \ {0}
  BY FormatAssumption DEF FileInv, Offsets
<1>2. 1 \in DOMAIN f /\ 1 \in 1..Len(f) /\ ValidHeader(f, 1) /\ f[1].n > 0
  BY <1>1, HeadIs DEF Complete
<1>3. f[1].ts > 0
  <2>1. f[1] = Zero \/ f[1].ts > 0
    BY <1>2 DEF FileInv, Good
  <2>2. f[1] = Zero => f[1].n = 0
    BY DEF Zero
  <2>. QED  BY <1>2, <2>1, <2>2
<1>4. PICK q \in Offsets : Complete(f, q) /\ q + Size(f, q) = Len(f) + 1
  <2>1. f # <<>>
    BY <1>2
  <2>. QED  BY <2>1, LastChunk
<1>5. q \in Nat \ {0} /\ ValidHeader(f, q) /\ q \in DOMAIN f /\ Size(f, q) \in Nat /\ q + Hdr - 1 <= Len(f)
  BY <1>1, <1>4, HeadIs DEF Complete, Offsets
<1>6. ASSUME NEW p \in heads
      PROVE  \/ p + Size(f, p) = Len(f) + 1
             \/ p + Size(f, p) \in heads /\ f[p + Size(f, p)].ts > f[p].ts
  <2>. DEFINE end == p + Size(f, p)
  <2>1. p \in DOMAIN f /\ Complete(f, p) /\ p \in 1..Len(f) /\ p \in Offsets /\ p \in Nat \ {0} /\ ValidHeader(f, p)
    BY <1>1 DEF Complete, Offsets
  <2>2. f[p].ts \in Nat /\ f[p].n \in Nat /\ f[p].n > 0 /\ Size(f, p) \in Nat /\ Size(f, p) > 0
    BY <1>1, <2>1, HeadIs
  <2>3. end \in Offsets /\ end > p /\ Walk(f, p).lost = Walk(f, end).lost
    BY <1>1, <2>1, WalkOn
  <2>. HIDE DEF end
  <2>4. ~Walk(f, end).lost
    BY <1>1, <2>1, <2>3, SoundWalk DEF OnTheWalk
  <2>5. end \in Nat /\ p \in Nat /\ q \in Nat
    BY <1>5, <2>1, <2>3 DEF Offsets
  <2>6. CASE p = q
    BY <1>4, <2>6
  <2>7. CASE p > q
    <3>1. q + Size(f, q) <= p
      BY <1>5, <2>1, <2>7 DEF Sound
    <3>. QED  BY <1>1, <1>4, <2>1, <3>1
  <2>8. CASE p < q
    <3>1. end <= q
      BY <1>5, <2>1, <2>8 DEF Sound, end
    <3>2. end + Hdr - 1 <= Len(f)
      BY <1>1, <1>5, <2>5, <3>1
    <3>3. ValidHeader(f, end)
      <4>1. Complete(f, end) => ValidHeader(f, end)
        BY DEF Complete
      <4>. QED  BY <1>1, <2>3, <2>4, <3>2, <4>1, WalkEnds
    <3>4. end \in DOMAIN f /\ Size(f, end) \in Nat /\ f[end].ts \in Nat
      BY <1>1, <2>3, <3>3, HeadIs DEF Offsets
    <3>5. Complete(f, end)
      <4>1. CASE end = q
        BY <1>4, <4>1
      <4>2. CASE end < q
        <5>1. end + Size(f, end) <= q
          BY <1>5, <3>3, <3>4, <4>2 DEF Sound
        <5>2. q <= Len(f)
          BY <1>1, <1>5
        <5>. QED  BY <1>1, <2>5, <3>3, <3>4, <5>1, <5>2 DEF Complete
      <4>. QED  BY <2>5, <3>1, <4>1, <4>2
    <3>6. f[p].ts + f[p].n <= f[end].ts
      BY <2>1, <2>3, <3>3, HeadsRise DEF Offsets
    <3>7. f[end].ts > f[p].ts
      BY <2>2, <3>4, <3>6
    <3>. QED  BY <3>4, <3>5, <3>7 DEF end
  <2>. QED  BY <2>5, <2>6, <2>7, <2>8
<1>7. 1 \in heads
  BY <1>2
<1>8. heads \in SUBSET {p \in DOMAIN f : Complete(f, p)}
  OBVIOUS
<1>. HIDE DEF heads
<1>. QED  BY <1>3, <1>6, <1>7, <1>8 DEF Validates

(* The chunks the validator went through.                                  *)
Passes(f, heads) ==
    /\ heads \subseteq {p \in DOMAIN f : Complete(f, p)}
    /\ 1 \in heads /\ f[1].ts > 0
    /\ \A p \in heads :
          \/ p + Size(f, p) = Len(f) + 1
          \/ p + Size(f, p) \in heads /\ f[p + Size(f, p)].ts > f[p].ts

LEMMA ValidatesIs ==
    ASSUME NEW f, Validates(f)
    PROVE  \E heads : Passes(f, heads)
<1>1. PICK heads \in SUBSET {p \in DOMAIN f : Complete(f, p)} :
        /\ 1 \in heads /\ f[1].ts > 0
        /\ \A p \in heads :
              LET end == p + Size(f, p)
              IN  end = Len(f) + 1 \/ (end \in heads /\ f[end].ts > f[p].ts)
  BY DEF Validates
<1>2. Passes(f, heads)
  BY <1>1 DEF Passes
<1>. QED  BY <1>2

LEMMA HeadOf ==
    ASSUME NEW f \in Seq(Cell), NEW heads, Passes(f, heads), NEW p \in heads
    PROVE  /\ p \in DOMAIN f /\ p \in Offsets /\ p \in 1..Len(f) /\ Complete(f, p) /\ ValidHeader(f, p)
           /\ f[p].ts \in Nat /\ f[p].n \in Nat /\ f[p].n > 0
           /\ p + Size(f, p) \in Offsets /\ p + Size(f, p) > p
           /\ Walk(f, p).rows \in Seq(Row) /\ Walk(f, p + Size(f, p)).rows \in Seq(Row)
           /\ Len(Walk(f, p).rows) = f[p].n + Len(Walk(f, p + Size(f, p)).rows)
           /\ Walk(f, p).lost = Walk(f, p + Size(f, p)).lost
<1>1. p \in DOMAIN f /\ Complete(f, p) /\ p \in 1..Len(f) /\ p \in Nat \ {0} /\ p \in Offsets
  BY DEF Passes, Offsets
<1>2. ValidHeader(f, p) /\ f[p].ts \in Nat /\ f[p].n \in Nat /\ f[p].n > 0
  BY <1>1, HeadIs DEF Complete
<1>. DEFINE end == p + Size(f, p)
<1>3. /\ end \in Offsets /\ end > p
      /\ Walk(f, p).rows = Rows(f, p) \o Walk(f, end).rows
      /\ Walk(f, p).lost = Walk(f, end).lost
      /\ Rows(f, p) \in Seq(Row) /\ Len(Rows(f, p)) = f[p].n
  BY <1>1, WalkOn
<1>. HIDE DEF end
<1>4. Walk(f, p).rows \in Seq(Row) /\ Walk(f, end).rows \in Seq(Row)
  BY <1>1, <1>3, WalkTyped
<1>5. Len(Walk(f, p).rows) = f[p].n + Len(Walk(f, end).rows)
  BY <1>3, <1>4, SuffixOfConcat
<1>. QED  BY <1>1, <1>2, <1>3, <1>4, <1>5 DEF end

LEMMA WalkAtEnd ==
    ASSUME NEW f \in Seq(Cell)
    PROVE  /\ Len(f) + 1 \in Offsets /\ ~Complete(f, Len(f) + 1)
           /\ Walk(f, Len(f) + 1).rows = <<>> /\ ~Walk(f, Len(f) + 1).lost
<1>1. Len(f) \in Nat /\ Len(f) + 1 \in Offsets /\ Hdr \in Nat \ {0}
  BY FormatAssumption DEF Offsets
<1>2. ~(Len(f) + 1 + Hdr - 1 <= Len(f))
  BY <1>1
<1>3. ~Complete(f, Len(f) + 1)
  BY <1>2 DEF Complete, ValidHeader
<1>. QED  BY <1>1, <1>2, <1>3, WalkEnds

(* The walk comes to the end, with fewer rows than there was time.         *)
LEMMA PassedWalk ==
    ASSUME NEW f, FileInv(f), NEW heads, Passes(f, heads), NEW now \in Nat, Over(f, now)
    PROVE  \A p \in heads : ~Walk(f, p).lost /\ f[p].ts + Len(Walk(f, p).rows) <= now
<1>1. f \in Seq(Cell) /\ Len(f) \in Nat
  BY DEF FileInv
<1>. DEFINE Right(p) == ~Walk(f, p).lost /\ f[p].ts + Len(Walk(f, p).rows) <= now
            Wrong == {p \in heads : ~Right(p)}
<1>. SUFFICES ASSUME Wrong # {} PROVE FALSE
  OBVIOUS
<1>2. Wrong \subseteq 0..Len(f)
  <2>1. \A p \in heads : p \in 0..Len(f)
    BY <1>1, HeadOf
  <2>. QED  BY <2>1
<1>3. PICK p \in Wrong : \A x \in Wrong : x <= p
  <2>. HIDE DEF Wrong
  <2>. QED  BY <1>1, <1>2, GreatestNatural
<1>4. p \in heads /\ ~Right(p)
  <2>. HIDE DEF Right
  <2>. QED  BY <1>3
<1>. DEFINE end == p + Size(f, p)
<1>5. /\ p \in DOMAIN f /\ p \in Offsets /\ p \in Nat /\ Complete(f, p) /\ ValidHeader(f, p)
      /\ f[p].ts \in Nat /\ f[p].n \in Nat /\ f[p].n > 0
      /\ end \in Offsets /\ end \in Nat /\ end > p
      /\ Walk(f, p).rows \in Seq(Row) /\ Walk(f, end).rows \in Seq(Row)
      /\ Len(Walk(f, p).rows) = f[p].n + Len(Walk(f, end).rows)
      /\ Walk(f, p).lost = Walk(f, end).lost
  <2>1. \A x \in Offsets : x \in Nat
    BY DEF Offsets
  <2>. QED  BY <1>1, <1>4, <2>1, HeadOf
<1>6. \/ end = Len(f) + 1
      \/ end \in heads /\ f[end].ts > f[p].ts
  BY <1>4 DEF Passes
<1>. HIDE DEF end
<1>7. CASE end = Len(f) + 1
  <2>1. Walk(f, end).rows = <<>> /\ ~Walk(f, end).lost
    BY <1>1, <1>7, WalkAtEnd
  <2>2. Len(Walk(f, end).rows) = 0
    BY <2>1
  <2>3. f[p].ts + f[p].n <= now
    BY <1>5 DEF Over
  <2>4. Len(Walk(f, p).rows) = f[p].n
    BY <1>5, <2>2
  <2>5. Right(p)
    BY <1>5, <2>1, <2>3, <2>4
  <2>. QED  BY <1>4, <2>5
<1>8. CASE end \in heads
  <2>1. ~(end <= p)
    BY <1>5
  <2>2. end \notin Wrong
    <3>. HIDE DEF Wrong
    <3>. QED  BY <1>3, <2>1
  <2>3. ~Walk(f, end).lost /\ f[end].ts + Len(Walk(f, end).rows) <= now
    BY <1>8, <2>2
  <2>4. ValidHeader(f, end) /\ f[end].ts \in Nat
    BY <1>1, <1>8, HeadOf
  <2>5. f[p].ts + f[p].n <= f[end].ts
    BY <1>5, <2>4, HeadsRise DEF Offsets
  <2>6. Len(Walk(f, end).rows) \in Nat
    BY <1>5
  <2>7. f[p].ts + Len(Walk(f, p).rows) <= now
    <3>1. \A a, b, c, d, e \in Int : a + b <= c /\ c + d <= e => a + (b + d) <= e
      OBVIOUS
    <3>2. f[p].ts \in Int /\ f[p].n \in Int /\ f[end].ts \in Int /\ now \in Int
          /\ Len(Walk(f, end).rows) \in Int
      BY <1>5, <2>4, <2>6
    <3>3. f[p].ts + (f[p].n + Len(Walk(f, end).rows)) <= now
      BY <2>3, <2>5, <3>1, <3>2
    <3>. QED  BY <1>5, <3>3
  <2>8. Right(p)
    BY <1>5, <2>3, <2>7
  <2>. QED  BY <1>4, <2>8
<1>. QED  BY <1>6, <1>7, <1>8

-----------------------------------------------------------------------------
(* The inspection, chunk after chunk.                                      *)

Place == [pos : Offsets, total : Nat]
InspectStep(f, last) ==
    IF ~Complete(f, last.pos) THEN last
    ELSE [pos |-> last.pos + Size(f, last.pos), total |-> last.total + f[last.pos].n]

LEMMA InspectStepType ==
    ASSUME NEW f \in Seq(Cell), NEW last \in Place
    PROVE  InspectStep(f, last) \in Place
<1>1. last.pos \in Offsets /\ last.total \in Nat
  BY DEF Place
<1>2. CASE Complete(f, last.pos)
  <2>1. last.pos + Size(f, last.pos) \in Offsets
    BY <1>1, <1>2, WalkOn
  <2>2. f[last.pos].n \in Nat
    BY <1>1, <1>2, HeadIs DEF Complete, Offsets
  <2>3. last.total + f[last.pos].n \in Nat
    BY <1>1, <2>2
  <2>. QED  BY <1>2, <2>1, <2>3 DEF InspectStep, Place
<1>. QED  BY <1>2 DEF InspectStep

LEMMA InspectionIs ==
    ASSUME NEW f \in Seq(Cell), NEW max \in Nat
    PROVE  /\ Inspection(f, max, 0) = [pos |-> 1, total |-> 0]
           /\ \A i \in 0..max : Inspection(f, max, i) \in Place
           /\ \A i \in 1..max : Inspection(f, max, i) = InspectStep(f, Inspection(f, max, i - 1))
<1>. DEFINE D == 0..max
            first == [pos |-> 1, total |-> 0]
            Of(g, i) == IF i = 0 THEN first ELSE InspectStep(f, g[i - 1])
            Def(g) == g = [i \in D |->
                  IF i = 0 THEN [pos |-> 1, total |-> 0]
                  ELSE LET last == g[i - 1]
                       IN  IF ~Complete(f, last.pos) THEN last
                           ELSE [pos |-> last.pos + Size(f, last.pos),
                                 total |-> last.total + f[last.pos].n]]
            rank == [i \in D |-> i]
            body == [x \in D \X [D -> Place] |-> Of(x[2], x[1])]
            after == CHOOSE g : Def(g)
<1>1. first \in Place
  BY DEF Place, Offsets
<1>2. \A i \in D : i # 0 => i - 1 \in D /\ i - 1 < i
  OBVIOUS
<1>3. \A g \in [D -> Place] : \A i \in D : Of(g, i) \in Place
  <2>. TAKE g \in [D -> Place]
  <2>. TAKE i \in D
  <2>. HIDE DEF first, D
  <2>1. i # 0 => g[i - 1] \in Place
    BY <1>2
  <2>. QED  BY <1>1, <2>1, InspectStepType
<1>4. body \in [D \X [D -> Place] -> Place]
  <2>1. \A x \in D \X [D -> Place] : Of(x[2], x[1]) \in Place
    <3>. TAKE x \in D \X [D -> Place]
    <3>1. x[1] \in D /\ x[2] \in [D -> Place]
      OBVIOUS
    <3>. HIDE DEF Of, D
    <3>. QED  BY <1>3, <3>1
  <2>. HIDE DEF Of, D
  <2>. QED  BY <2>1
<1>5. \A g \in [D -> Place] : \A i \in D : body[<<i, g>>] = Of(g, i)
  <2>. HIDE DEF Of, D
  <2>. QED  OBVIOUS
<1>6. \A i \in D : \A g, h \in [D -> Place] :
         (\A j \in D : rank[j] < rank[i] => g[j] = h[j]) => body[<<i, g>>] = body[<<i, h>>]
  <2>. TAKE i \in D
  <2>. TAKE g, h \in [D -> Place]
  <2>. HAVE \A j \in D : rank[j] < rank[i] => g[j] = h[j]
  <2>1. i # 0 => g[i - 1] = h[i - 1]
    <3>1. HAVE i # 0
    <3>2. i - 1 \in D /\ i - 1 < i
      BY <1>2, <3>1
    <3>3. rank[i - 1] = i - 1 /\ rank[i] = i
      BY <3>2
    <3>. HIDE DEF rank, D
    <3>. QED  BY <3>2, <3>3
  <2>2. Of(g, i) = Of(h, i)
    BY <2>1
  <2>. HIDE DEF body, Of
  <2>. QED  BY <1>5, <2>2
<1>7. PICK g \in [D -> Place] : \A i \in D : g[i] = body[<<i, g>>]
  <2>1. rank \in [D -> 0..max]
    OBVIOUS
  <2>. HIDE DEF D, rank, body, first
  <2>2. Descends(D, Place, max, rank, body)
    BY <1>4, <1>6, <2>1 DEF Descends
  <2>3. PICK g : Solution(D, Place, body, g)
    BY <1>1, <2>2, Recursion
  <2>. QED  BY <2>3 DEF Solution
<1>8. \A h : Def(h) <=> h = [i \in D |-> Of(h, i)]
  BY DEF InspectStep
<1>9. Def(g)
  <2>1. \A i \in D : g[i] = Of(g, i)
    <3>. HIDE DEF Of, body, D
    <3>. QED  BY <1>5, <1>7
  <2>2. g = [i \in D |-> Of(g, i)]
    <3>. HIDE DEF Of, D
    <3>. QED  BY <2>1
  <2>. HIDE DEF Def, Of, D
  <2>. QED  BY <1>8, <2>2
<1>10. Def(after)
  <2>. HIDE DEF Def
  <2>. QED  BY <1>9
<1>11. \A i : Inspection(f, max, i) = after[i]
  BY DEF Inspection
<1>. HIDE DEF after, Def
<1>12. \A i \in D : after[i] = Of(after, i)
  <2>1. after = [i \in D |-> Of(after, i)]
    BY <1>8, <1>10
  <2>. HIDE DEF Of, D
  <2>. QED  BY <2>1
<1>13. after[0] = first /\ \A i \in 1..max : after[i] = InspectStep(f, after[i - 1])
  <2>1. 0 \in D /\ \A i \in 1..max : i \in D /\ i # 0
    OBVIOUS
  <2>. HIDE DEF D, first
  <2>. QED  BY <1>12, <2>1
<1>14. \A i \in D : after[i] \in Place
  <2>. DEFINE Wrong == {i \in D : after[i] \notin Place}
  <2>. SUFFICES ASSUME Wrong # {} PROVE FALSE
    OBVIOUS
  <2>1. Wrong \subseteq Nat
    OBVIOUS
  <2>2. PICK i \in Wrong : \A j \in Wrong : i <= j
    <3>. HIDE DEF Wrong
    <3>. QED  BY <2>1, LeastNatural
  <2>3. i \in D /\ after[i] \notin Place /\ i # 0 /\ i \in 1..max
    <3>1. i \in D /\ after[i] \notin Place
      OBVIOUS
    <3>2. i # 0
      <4>. HIDE DEF first
      <4>. QED  BY <1>1, <1>13, <3>1
    <3>. QED  BY <3>1, <3>2
  <2>4. i - 1 \in D /\ ~(i <= i - 1)
    BY <2>3
  <2>5. i - 1 \notin Wrong
    <3>. HIDE DEF Wrong
    <3>. QED  BY <2>2, <2>4
  <2>6. after[i - 1] \in Place
    BY <2>4, <2>5
  <2>. QED  BY <1>13, <2>3, <2>6, InspectStepType
<1>. QED  BY <1>11, <1>13, <1>14

LEMMA InspectedAll ==
    ASSUME NEW f \in Seq(Cell), NEW heads, Passes(f, heads), NEW max \in Nat,
           Len(Walk(f, 1).rows) <= max
    PROVE  Inspected(f, max) = Len(Walk(f, 1).rows)
<1>. DEFINE N == Len(Walk(f, 1).rows)
            after(i) == Inspection(f, max, i)
            On(i, a) == /\ (a.pos \in heads /\ a.total >= i) \/ a.pos = Len(f) + 1
                        /\ a.total + Len(Walk(f, a.pos).rows) = N
<1>1. N \in Nat /\ 1 \in heads
  <2>1. 1 \in Offsets
    BY DEF Offsets
  <2>2. Walk(f, 1).rows \in Seq(Row)
    BY <2>1, WalkTyped
  <2>. QED  BY <2>2 DEF Passes
<1>2. /\ after(0) = [pos |-> 1, total |-> 0]
      /\ \A i \in 0..max : after(i) \in Place
      /\ \A i \in 1..max : after(i) = InspectStep(f, after(i - 1))
  BY InspectionIs
<1>3. On(0, after(0))
  <2>1. after(0).pos = 1 /\ after(0).total = 0
    BY <1>2
  <2>2. 0 + N = N
    BY <1>1
  <2>. QED  BY <1>1, <2>1, <2>2
<1>4. ASSUME NEW i \in Nat, NEW a \in Place, On(i, a)
      PROVE  On(i + 1, InspectStep(f, a))
  <2>. DEFINE b == InspectStep(f, a)
              p == a.pos
              end == p + Size(f, p)
  <2>1. a.total \in Nat /\ p \in Offsets
    BY DEF Place
  <2>2. CASE p = Len(f) + 1
    <3>1. ~Complete(f, p)
      BY <2>2, WalkAtEnd
    <3>2. b = a
      BY <3>1 DEF InspectStep
    <3>. QED  BY <1>4, <2>2, <3>2
  <2>3. CASE p \in heads /\ a.total >= i
    <3>1. /\ Complete(f, p) /\ f[p].n \in Nat /\ f[p].n > 0
          /\ Walk(f, end).rows \in Seq(Row)
          /\ Len(Walk(f, p).rows) = f[p].n + Len(Walk(f, end).rows)
      BY <2>3, HeadOf
    <3>2. b.pos = end /\ b.total = a.total + f[p].n
      BY <3>1 DEF InspectStep
    <3>3. end = Len(f) + 1 \/ end \in heads
      BY <2>3 DEF Passes
    <3>. HIDE DEF b, end
    <3>4. a.total + Len(Walk(f, p).rows) = N
      BY <1>4
    <3>5. b.total >= i + 1 /\ b.total + Len(Walk(f, end).rows) = N
      <4>1. Len(Walk(f, end).rows) \in Nat
        BY <3>1
      <4>. DEFINE x == Len(Walk(f, end).rows)
                  y == f[p].n
      <4>2. x \in Nat /\ y \in Nat /\ y > 0 /\ a.total + (y + x) = N /\ b.total = a.total + y
        BY <3>1, <3>2, <3>4, <4>1
      <4>. HIDE DEF x, y
      <4>3. b.total >= i + 1 /\ b.total + x = N
        BY <1>1, <2>1, <2>3, <4>2
      <4>. QED  BY <4>3 DEF x
    <3>6. On(i + 1, b)
      BY <3>2, <3>3, <3>5
    <3>. QED  BY <3>6 DEF b
  <2>. QED  BY <1>4, <2>2, <2>3
<1>5. \A i \in 0..max : On(i, after(i))
  <2>. DEFINE Wrong == {i \in 0..max : ~On(i, after(i))}
  <2>. SUFFICES ASSUME Wrong # {} PROVE FALSE
    OBVIOUS
  <2>. HIDE DEF On, after
  <2>1. Wrong \subseteq Nat
    OBVIOUS
  <2>2. PICK i \in Wrong : \A j \in Wrong : i <= j
    <3>. HIDE DEF Wrong
    <3>. QED  BY <2>1, LeastNatural
  <2>3. i \in 0..max /\ ~On(i, after(i)) /\ i # 0
    BY <1>3
  <2>4. i - 1 \in 0..max /\ ~(i <= i - 1) /\ i \in 1..max /\ i - 1 \in Nat /\ i - 1 + 1 = i
    BY <2>3
  <2>5. i - 1 \notin Wrong
    <3>. HIDE DEF Wrong
    <3>. QED  BY <2>2, <2>4
  <2>6. On(i - 1, after(i - 1))
    BY <2>4, <2>5
  <2>7. after(i - 1) \in Place /\ after(i) = InspectStep(f, after(i - 1))
    BY <1>2, <2>4
  <2>8. On(i - 1 + 1, InspectStep(f, after(i - 1)))
    BY <1>4, <2>4, <2>6, <2>7
  <2>. QED  BY <2>3, <2>4, <2>7, <2>8
<1>. DEFINE a == after(max)
<1>6. max \in 0..max
  OBVIOUS
<1>7. a \in Place /\ On(max, a) /\ Inspected(f, max) = a.total
  <2>1. a \in Place /\ On(max, a)
    <3>. HIDE DEF On
    <3>. QED  BY <1>2, <1>5, <1>6
  <2>2. Inspected(f, max) = a.total
    BY DEF Inspected
  <2>. QED  BY <2>1, <2>2
<1>. HIDE DEF a
<1>8. a.total \in Nat
  BY <1>7 DEF Place
<1>9. CASE a.pos = Len(f) + 1
  <2>1. Walk(f, a.pos).rows = <<>>
    BY <1>9, WalkAtEnd
  <2>2. Len(Walk(f, a.pos).rows) = 0
    BY <2>1
  <2>3. a.total + 0 = N
    BY <1>7, <2>2
  <2>. QED  BY <1>7, <1>8, <2>3
<1>10. CASE a.pos \in heads /\ a.total >= max
  <2>. DEFINE p == a.pos
              end == p + Size(f, p)
  <2>1. /\ f[p].n \in Nat /\ f[p].n > 0 /\ Walk(f, end).rows \in Seq(Row)
        /\ Len(Walk(f, p).rows) = f[p].n + Len(Walk(f, end).rows)
    BY <1>10, HeadOf
  <2>. DEFINE x == Len(Walk(f, end).rows)
              y == f[p].n
  <2>2. x \in Nat /\ y \in Nat /\ y > 0 /\ Len(Walk(f, p).rows) = y + x
    BY <2>1
  <2>3. a.total + Len(Walk(f, p).rows) = N
    BY <1>7
  <2>. HIDE DEF x, y, p, end
  <2>4. a.total + (y + x) = N
    BY <2>2, <2>3
  <2>5. N <= max
    OBVIOUS
  <2>. HIDE DEF N
  <2>. QED  BY <1>1, <1>8, <1>10, <2>2, <2>4, <2>5
<1>. QED  BY <1>7, <1>9, <1>10

LEMMA InspectedSome ==
    ASSUME NEW f \in Seq(Cell), NEW max \in Nat, Inspected(f, max) > 0
    PROVE  Complete(f, 1)
<1>. SUFFICES ASSUME ~Complete(f, 1) PROVE FALSE
  OBVIOUS
<1>. DEFINE first == [pos |-> 1, total |-> 0]
            Moved == {i \in 0..max : Inspection(f, max, i) # first}
<1>1. /\ Inspection(f, max, 0) = first
      /\ \A i \in 1..max : Inspection(f, max, i) = InspectStep(f, Inspection(f, max, i - 1))
  BY InspectionIs
<1>2. InspectStep(f, first) = first
  <2>1. first.pos = 1
    OBVIOUS
  <2>. HIDE DEF first
  <2>. QED  BY <2>1 DEF InspectStep
<1>3. max \in Moved
  <2>1. Inspected(f, max) = Inspection(f, max, max).total
    BY DEF Inspected
  <2>2. first.total = 0
    OBVIOUS
  <2>3. Inspection(f, max, max) # first
    <3>. HIDE DEF first
    <3>. QED  BY <2>1, <2>2
  <2>. QED  BY <2>3
<1>. HIDE DEF first
<1>4. PICK i \in Moved : \A j \in Moved : i <= j
  <2>1. Moved \subseteq Nat /\ Moved # {}
    BY <1>3
  <2>. HIDE DEF Moved
  <2>. QED  BY <2>1, LeastNatural
<1>5. i \in 0..max /\ Inspection(f, max, i) # first /\ i # 0
  BY <1>1
<1>6. i \in 1..max /\ i - 1 \in 0..max /\ ~(i <= i - 1)
  BY <1>5
<1>7. i - 1 \notin Moved
  <2>. HIDE DEF Moved
  <2>. QED  BY <1>4, <1>6
<1>8. Inspection(f, max, i - 1) = first
  BY <1>6, <1>7
<1>. QED  BY <1>1, <1>2, <1>5, <1>6, <1>8

(* What passes is read in full by a reader that looks at all of it.        *)
LEMMA PassedTail ==
    ASSUME NEW f \in Seq(Cell), NEW heads, Passes(f, heads), NEW cap \in Nat,
           ~Walk(f, 1).lost, Len(Walk(f, 1).rows) <= cap, TailStart(f, cap) = 0
    PROVE  ReadTail(f, cap) = Walk(f, 1).rows
<1>. DEFINE all == Walk(f, 1).rows
            aligned == IF Len(f) % Typical = 0
                       THEN ParseFrom(f, 0 - (0 % Typical) + 1, cap) ELSE <<>>
            scanned == ScanAndParse(f, 0 + 1, cap)
<1>1. /\ 1 \in heads /\ Complete(f, 1) /\ all \in Seq(Row) /\ all # <<>>
      /\ Typical \in Nat \ {0}
  <2>1. 1 \in heads
    BY DEF Passes
  <2>2. Complete(f, 1)
    BY <2>1, HeadOf
  <2>3. all \in Seq(Row) /\ all # <<>>
    BY <2>2, WalkOn, WalkTyped DEF Offsets
  <2>. QED  BY <2>1, <2>2, <2>3, FormatAssumption DEF Typical
<1>2. ParseFrom(f, 1, cap) = all
  <2>1. ParseFrom(f, 1, cap) = LastOf(all, cap)
    BY DEF ParseFrom
  <2>2. LastOf(all, cap) = all
    <3>. HIDE DEF all
    <3>1. Len(all) <= cap
      BY DEF all
    <3>. QED  BY <1>1, <3>1, LastOfAll
  <2>. QED  BY <2>1, <2>2
<1>3. ReadTail(f, cap) = IF aligned # <<>> THEN aligned
                         ELSE IF scanned # <<>> THEN scanned ELSE WalkAll(f, cap)
  BY DEF ReadTail
<1>4. CASE Len(f) % Typical = 0
  <2>1. 0 - (0 % Typical) + 1 = 1
    <3>1. 0 * Typical = 0 /\ (0 * Typical) % Typical = 0
      BY <1>1, Multiple
    <3>2. 0 % Typical = 0
      BY <3>1
    <3>. QED  BY <3>2
  <2>2. aligned = all
    BY <1>2, <1>4, <2>1
  <2>. HIDE DEF aligned, scanned, all
  <2>. QED  BY <1>1, <1>3, <2>2 DEF all
<1>5. CASE Len(f) % Typical # 0
  <2>1. aligned = <<>>
    BY <1>5
  <2>. DEFINE Heads == {p \in 0 + 1..0 + 1 + Typical : Complete(f, p) /\ ParseFrom(f, p, cap) # <<>>}
  <2>2. 1 \in Heads
    <3>1. 1 \in 0 + 1..0 + 1 + Typical
      BY <1>1
    <3>. HIDE DEF all
    <3>. QED  BY <1>1, <1>2, <3>1
  <2>3. Heads \subseteq Nat /\ \A p \in Heads : p >= 1
    BY <1>1
  <2>4. scanned = IF Heads = {} THEN <<>> ELSE ParseFrom(f, Min(Heads), cap)
    BY DEF ScanAndParse
  <2>. HIDE DEF Heads, scanned, aligned
  <2>5. Min(Heads) \in Heads /\ Min(Heads) <= 1
    BY <2>2, <2>3, MinOf
  <2>6. Min(Heads) = 1
    <3>. DEFINE x == Min(Heads)
    <3>1. x \in Nat /\ x >= 1 /\ x <= 1
      BY <2>3, <2>5
    <3>. HIDE DEF x
    <3>2. x = 1
      BY <3>1
    <3>. QED  BY <3>2 DEF x
  <2>7. scanned = all
    BY <1>2, <2>2, <2>4, <2>6
  <2>. HIDE DEF all
  <2>. QED  BY <1>1, <1>3, <2>1, <2>7 DEF all
<1>. QED  BY <1>4, <1>5

-----------------------------------------------------------------------------
(* Time is within its bound, from the first start on.                      *)
InTime == clock = 1 \/ clock <= MaxTime

LEMMA TimeIsBounded == Spec => []InTime
<1>1. Init => InTime
  BY DEF Init, InTime
<1>2. TypeOK /\ InTime /\ [Next]_vars => InTime'
  <2>. SUFFICES ASSUME TypeOK, InTime, [Next]_vars PROVE InTime'
    OBVIOUS
  <2>. USE DEF InTime
  <2>0. clock \in Nat /\ MaxTime \in Nat /\ Typ \in Nat
    BY FormatAssumption, StoreAssumption DEF TypeOK
  <2>1. CASE Start
    BY <2>0, <2>1 DEF Start
  <2>2. CASE WriteFull
    BY <2>0, <2>2 DEF WriteFull, Write
  <2>3. CASE Close
    BY <2>3 DEF Close
  <2>4. CASE Kill
    BY <2>4 DEF Kill
  <2>5. CASE PowerFails
    BY <2>5 DEF PowerFails
  <2>6. CASE \E n \in 0..Typ - 1 : WriteLast(n)
    <3>1. PICK n \in 0..Typ - 1 : WriteLast(n)
      BY <2>6
    <3>. QED  BY <2>0, <3>1 DEF WriteLast, Write
  <2>7. CASE \E s \in 1..MaxTime, span \in Spans : ReadOld(s, s + span)
    BY <2>7 DEF ReadOld, writer
  <2>8. CASE ReadCurrent
    BY <2>8 DEF ReadCurrent, writer
  <2>9. CASE Reply
    BY <2>9 DEF Reply, writer
  <2>10. CASE UNCHANGED vars
    BY <2>10 DEF vars, writer
  <2>. QED  BY <2>1, <2>2, <2>3, <2>4, <2>5, <2>6, <2>7, <2>8, <2>9, <2>10 DEF Next
<1>. QED  BY <1>1, <1>2, TypeCorrect, PTL DEF Spec

(* Whatever was written, cut short, killed, lost with the power or rotated,
   the validator passes a sound file that ends with a chunk, and a file it
   passes is walked to its end, counted in full by inspect_file and shown in
   full by a trend page that looks at all of it.                           *)
THEOREM ToolsSeeTheSame == Spec => []ToolsAgree
<1>1. StoreInv /\ InTime => ToolsAgree
  <2>. SUFFICES ASSUME StoreInv, InTime PROVE ToolsAgree
    OBVIOUS
  <2>1. /\ FileInv(cur) /\ cur \in Seq(Cell) /\ Over(cur, clock) /\ clock \in Nat /\ clock > 0
        /\ MaxTime \in Nat
    BY StoreAssumption DEF StoreInv, TypeOK, FilesInv
  <2>2. ASSUME Sound(cur), Inspected(cur, MaxTime) > 0, Last(cur).k = Hdr + Last(cur).n
        PROVE  Validates(cur)
    <3>1. Complete(cur, 1)
      BY <2>1, <2>2, InspectedSome
    <3>. QED  BY <2>1, <2>2, <3>1, SoundPasses
  <2>3. ASSUME Validates(cur)
        PROVE  /\ ~Walk(cur, 1).lost
               /\ Inspected(cur, MaxTime) = Len(Walk(cur, 1).rows)
               /\ TailStart(cur, MaxTime) = 0 => ReadTail(cur, MaxTime) = Walk(cur, 1).rows
    <3>1. PICK heads : Passes(cur, heads)
      BY <2>3, ValidatesIs
    <3>2. 1 \in heads /\ cur[1].ts > 0
      BY <3>1 DEF Passes
    <3>3. ~Walk(cur, 1).lost /\ cur[1].ts + Len(Walk(cur, 1).rows) <= clock
      BY <2>1, <3>1, <3>2, PassedWalk
    <3>4. cur[1].ts \in Nat /\ Walk(cur, 1).rows \in Seq(Row)
      BY <2>1, <3>1, <3>2, HeadOf
    <3>5. Len(Walk(cur, 1).rows) <= MaxTime
      <4>1. Len(Walk(cur, 1).rows) \in Nat
        BY <3>4
      <4>. QED  BY <2>1, <3>2, <3>3, <3>4, <4>1 DEF InTime
    <3>. QED  BY <2>1, <3>1, <3>3, <3>5, InspectedAll, PassedTail
  <2>. QED  BY <2>2, <2>3 DEF ToolsAgree
<1>. QED  BY Invariant, TimeIsBounded, <1>1, PTL
=============================================================================
