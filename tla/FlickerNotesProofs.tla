------------------------- MODULE FlickerNotesProofs -------------------------
(***************************************************************************)
(* Proofs about FlickerNotes: the type invariant, that acknowledged notes  *)
(* stay, that what is stored with a note is no worse than what its page    *)
(* finds later, and that a note of a minute fully stored shows the line.   *)
(*                                                                         *)
(* The lists the code makes with a filter are Picked: the elements at some *)
(* places, in their order.  PickedIs says what that is; that two such      *)
(* lists are the same is shown by RisingSame, from their elements and from *)
(* an id or a time by which both rise.                                     *)
(***************************************************************************)
EXTENDS FlickerNotes, FiniteSetTheorems, NaturalsInduction, TLAPS

(* Of a set of naturals that is not empty one is the least.                *)
LEMMA LeastNatural ==
    ASSUME NEW T, T \subseteq Nat, T # {}
    PROVE  \E x \in T : \A y \in T : x <= y
<1>. DEFINE Below == {ss \in Nat \X Nat : ss[1] < ss[2]}
<1>1. IsWellFoundedOn(Below, Nat)
  BY NatLessThanWellFounded DEF OpToRel
<1>2. PICK x \in T : \A y \in T : <<y, x>> \notin Below
  BY <1>1, WFMin
<1>3. \A y \in T : ~(y < x)
  BY <1>2
<1>. QED  BY <1>3

(* How many of the places P come up to each of them counts the places.     *)
LEMMA RanksCount ==
    ASSUME NEW n \in Nat, NEW P \in SUBSET (1..n), NEW R,
           R = [i \in P |-> Cardinality({k \in P : k <= i})]
    PROVE  /\ IsFiniteSet(P) /\ Cardinality(P) \in Nat
           /\ \A i \in P : R[i] \in 1..Cardinality(P)
           /\ \A i, j \in P : i < j => R[i] < R[j]
           /\ \A m \in 1..Cardinality(P) : \E i \in P : R[i] = m
<1>. DEFINE UpTo(i) == {k \in P : k <= i}
<1>1. IsFiniteSet(P) /\ Cardinality(P) \in Nat
  <2>1. IsFiniteSet(1..n)
    BY FS_Interval
  <2>2. IsFiniteSet(P)
    BY <2>1, FS_Subset
  <2>. QED  BY <2>2, FS_CardinalityType
<1>2. ASSUME NEW i \in P
      PROVE  /\ IsFiniteSet(UpTo(i)) /\ Cardinality(UpTo(i)) \in 1..Cardinality(P)
  <2>1. UpTo(i) \in SUBSET P /\ i \in UpTo(i)
    OBVIOUS
  <2>2. IsFiniteSet(UpTo(i)) /\ Cardinality(UpTo(i)) <= Cardinality(P)
    BY <1>1, <2>1, FS_Subset
  <2>3. Cardinality(UpTo(i)) \in Nat /\ Cardinality(UpTo(i)) # 0
    BY <2>1, <2>2, FS_CardinalityType, FS_EmptySet
  <2>. QED  BY <1>1, <2>2, <2>3
<1>3. ASSUME NEW i \in P, NEW j \in P, i < j
      PROVE  Cardinality(UpTo(i)) < Cardinality(UpTo(j))
  <2>0. i \in Nat /\ j \in Nat /\ P \subseteq Nat
    OBVIOUS
  <2>1. UpTo(i) \in SUBSET UpTo(j)
    <3>1. \A k \in P : k <= i => k <= j
      BY <1>3, <2>0
    <3>. QED  BY <3>1
  <2>5. j \in UpTo(j) /\ j \notin UpTo(i)
    BY <1>3, <2>0
  <2>2. IsFiniteSet(UpTo(j))
    BY <1>2
  <2>3. /\ Cardinality(UpTo(i)) <= Cardinality(UpTo(j))
        /\ Cardinality(UpTo(i)) # Cardinality(UpTo(j))
    BY <2>1, <2>2, <2>5, FS_Subset
  <2>4. Cardinality(UpTo(i)) \in Nat /\ Cardinality(UpTo(j)) \in Nat
    BY <1>2
  <2>. QED  BY <2>3, <2>4
<1>4. \A i \in P : R[i] = Cardinality(UpTo(i))
  OBVIOUS
<1>5. R \in Injection(P, 1..Cardinality(P))
  <2>1. R \in [P -> 1..Cardinality(P)]
    BY <1>2, <1>4
  <2>2. \A i, j \in P : R[i] = R[j] => i = j
    BY <1>2, <1>3, <1>4
  <2>. QED  BY <2>1, <2>2 DEF Injection, IsInjective
<1>6. R \in Surjection(P, 1..Cardinality(P))
  <2>1. IsFiniteSet(1..Cardinality(P)) /\ Cardinality(1..Cardinality(P)) = Cardinality(P)
    BY <1>1, FS_Interval
  <2>. QED  BY <1>5, <2>1, FS_Injection
<1>. QED  BY <1>1, <1>2, <1>3, <1>4, <1>6 DEF Surjection

(* g leads from the places of r to the places P of s, in their order.      *)
Leads(g, r, s, P) ==
    /\ g \in [1..Cardinality(P) -> P]
    /\ \A i, j \in 1..Cardinality(P) : i < j => g[i] < g[j]
    /\ \A p \in P : \E j \in 1..Cardinality(P) : g[j] = p
    /\ \A j \in 1..Cardinality(P) : r[j] = s[g[j]]

(* What Picked returns: the elements at the places P, in their order.      *)
LEMMA PickedIs ==
    ASSUME NEW n \in Nat, NEW P \in SUBSET (1..n), NEW s
    PROVE  /\ Cardinality(P) \in Nat /\ IsFiniteSet(P)
           /\ Picked(s, P) = [j \in 1..Cardinality(P) |-> Picked(s, P)[j]]
           /\ \E g : Leads(g, Picked(s, P), s, P)
<1>. DEFINE N == Cardinality(P)
            R == [i \in P |-> Cardinality({k \in P : k <= i})]
            g == [j \in 1..N |-> CHOOSE i \in P : Cardinality({k \in P : k <= i}) = j]
<1>1. /\ IsFiniteSet(P) /\ N \in Nat
      /\ \A i \in P : R[i] \in 1..N
      /\ \A i, j \in P : i < j => R[i] < R[j]
      /\ \A m \in 1..N : \E i \in P : R[i] = m
  BY RanksCount
<1>2. Picked(s, P) = [j \in 1..N |-> s[g[j]]]
  BY DEF Picked
<1>3. \A i \in P : R[i] = Cardinality({k \in P : k <= i})
  OBVIOUS
<1>4. \A j \in 1..N : g[j] \in P /\ R[g[j]] = j
  BY <1>1, <1>3
<1>. HIDE DEF R, g
<1>5. g \in [1..N -> P]
  BY <1>4 DEF g
<1>6. ASSUME NEW i \in 1..N, NEW j \in 1..N, i < j
      PROVE  g[i] < g[j]
  <2>1. R[g[i]] < R[g[j]]
    BY <1>1, <1>4, <1>6
  <2>2. g[i] \in P /\ g[j] \in P /\ g[i] \in Nat /\ g[j] \in Nat
    <3>1. P \subseteq Nat
      OBVIOUS
    <3>. QED  BY <1>4, <3>1
  <2>3. R[g[j]] <= R[g[i]] \/ g[i] < g[j]
    <3>1. CASE g[i] = g[j]
      BY <1>1, <1>4, <3>1, <1>6
    <3>2. CASE g[j] < g[i]
      BY <1>1, <2>2, <3>2
    <3>. QED  BY <2>2, <3>1, <3>2
  <2>4. R[g[i]] \in Nat /\ R[g[j]] \in Nat
    BY <1>1, <2>2
  <2>. QED  BY <2>1, <2>3, <2>4
<1>7. ASSUME NEW p \in P
      PROVE  \E j \in 1..N : g[j] = p
  <2>1. R[p] \in 1..N
    BY <1>1
  <2>2. R[g[R[p]]] = R[p] /\ g[R[p]] \in P
    BY <1>4, <2>1
  <2>3. \A i \in P : R[i] = R[p] => i = p
    <3>. TAKE i \in P
    <3>1. i < p => R[i] < R[p]
      BY <1>1
    <3>2. p < i => R[p] < R[i]
      BY <1>1
    <3>3. R[i] \in Nat /\ i \in Nat /\ p \in Nat
      BY <1>1
    <3>. QED  BY <2>1, <3>1, <3>2, <3>3
  <2>. QED  BY <2>1, <2>2, <2>3
<1>8. Leads(g, Picked(s, P), s, P)
  BY <1>2, <1>5, <1>6, <1>7 DEF Leads
<1>. QED  BY <1>1, <1>2, <1>8

(* The first m elements of a rise by their key; each is one of b's first n. *)
RisesBy(key, a, m) ==
    /\ \A i \in 1..m : key[a[i]] \in Int
    /\ \A i, j \in 1..m : i < j => key[a[i]] < key[a[j]]
Among(a, m, b, n) == \A i \in 1..m : \E j \in 1..n : a[i] = b[j]

(* Two rising sequences with the same elements agree as far as one goes.   *)
LEMMA RisingPrefix ==
    ASSUME NEW a, NEW b, NEW key, NEW m \in Nat, NEW n \in Nat,
           RisesBy(key, a, m), RisesBy(key, b, n), Among(a, m, b, n), Among(b, n, a, m)
    PROVE  m <= n /\ \A i \in 1..m : a[i] = b[i]
<1>0. \A j \in 1..n : key[b[j]] \in Int
  BY DEF RisesBy
<1>1. \A i \in 1..m : i <= n /\ a[i] = b[i]
  <2>. DEFINE Bad == {i \in 1..m : ~(i <= n /\ a[i] = b[i])}
  <2>. SUFFICES ASSUME Bad # {} PROVE FALSE
    OBVIOUS
  <2>0. Bad \subseteq Nat
    OBVIOUS
  <2>1. PICK i \in Bad : \A y \in Bad : i <= y
    <3>. HIDE DEF Bad
    <3>. QED  BY <2>0, LeastNatural
  <2>2. i \in 1..m /\ ~(i <= n /\ a[i] = b[i]) /\ \A k \in 1..m : k < i => k <= n /\ a[k] = b[k]
    BY <2>1
  <2>. HIDE DEF Bad
  <2>3. PICK j \in 1..n : a[i] = b[j]
    BY <2>2 DEF Among
  <2>4. ~(j < i)
    <3>. SUFFICES ASSUME j < i PROVE FALSE
      OBVIOUS
    <3>1. j \in 1..m /\ a[j] = b[j] /\ key[a[j]] < key[a[i]]
      BY <2>2 DEF RisesBy
    <3>. QED  BY <1>0, <2>2, <2>3, <3>1
  <2>5. i \in 1..n
    BY <2>2, <2>4
  <2>6. PICK k \in 1..m : b[i] = a[k]
    BY <2>5 DEF Among
  <2>7. ~(k < i)
    <3>. SUFFICES ASSUME k < i PROVE FALSE
      OBVIOUS
    <3>1. k \in 1..n /\ a[k] = b[k] /\ key[b[k]] < key[b[i]]
      BY <2>2, <2>5 DEF RisesBy
    <3>. QED  BY <2>5, <2>6, <3>1, <1>0
  <2>8. key[a[i]] <= key[a[k]]
    BY <2>2, <2>7 DEF RisesBy
  <2>9. i < j
    BY <2>2, <2>3, <2>4, <2>5
  <2>10. key[b[i]] < key[b[j]]
    BY <2>5, <2>9 DEF RisesBy
  <2>. QED  BY <1>0, <2>2, <2>3, <2>5, <2>6, <2>8, <2>10
<1>. QED  BY <1>1

(* Two such sequences are the same.                                        *)
LEMMA RisingSame ==
    ASSUME NEW a, NEW b, NEW key, NEW m \in Nat, NEW n \in Nat,
           RisesBy(key, a, m), RisesBy(key, b, n), Among(a, m, b, n), Among(b, n, a, m)
    PROVE  m = n /\ \A i \in 1..m : a[i] = b[i]
<1>1. m <= n /\ \A i \in 1..m : a[i] = b[i]
  BY RisingPrefix
<1>2. n <= m
  BY RisingPrefix
<1>. QED  BY <1>1, <1>2

-----------------------------------------------------------------------------
(* What a minute of stored intervals gives.                                *)

Minute(at, times) == {t \in times : t \in at - Window..at}
RowOf(l, t) == [t |-> t, v |-> l[t].v, lo |-> l[t].lo, hi |-> l[t].hi]
RowsOf(l, d, at) == InWindow(at, Picked([t \in 1..Len(l) |-> RowOf(l, t)], d))

(* r holds the rows of the intervals W, in order of time.                  *)
RowsIn(r, l, W) ==
    /\ r = [j \in 1..Cardinality(W) |-> r[j]]
    /\ \A j \in 1..Cardinality(W) : r[j].t \in W /\ r[j] = RowOf(l, r[j].t)
    /\ \A i, j \in 1..Cardinality(W) : i < j => r[i].t < r[j].t
    /\ \A t \in W : \E j \in 1..Cardinality(W) : r[j].t = t

(* The rows of a minute are those of its stored intervals.                 *)
LEMMA RowsAre ==
    ASSUME NEW l, Len(l) \in Nat, NEW d \in SUBSET (1..Len(l)), NEW at \in Int
    PROVE  /\ Cardinality(Minute(at, d)) \in Nat /\ IsFiniteSet(Minute(at, d))
           /\ RowsIn(RowsOf(l, d, at), l, Minute(at, d))
<1>. DEFINE r == RowsOf(l, d, at)
            n == Cardinality(Minute(at, d))
            all == [t \in 1..Len(l) |-> RowOf(l, t)]
            S == Picked(all, d)
            N == Cardinality(d)
            P == {i \in 1..N : S[i].t \in at - Window..at}
            M == Cardinality(P)
<1>1. /\ N \in Nat /\ IsFiniteSet(d) /\ S = [j \in 1..N |-> S[j]]
      /\ \E g : Leads(g, S, all, d)
  BY PickedIs
<1>12. PICK g : Leads(g, S, all, d)
  BY <1>1
<1>2. /\ g \in [1..N -> d]
      /\ \A i, j \in 1..N : i < j => g[i] < g[j]
      /\ \A p \in d : \E j \in 1..N : g[j] = p
      /\ \A j \in 1..N : S[j] = all[g[j]]
  BY <1>12 DEF Leads
<1>13. \A t \in 1..Len(l) : all[t] = RowOf(l, t) /\ RowOf(l, t).t = t /\ t \in Nat
  BY DEF RowOf
<1>3. \A j \in 1..N : S[j] = RowOf(l, g[j]) /\ S[j].t = g[j] /\ g[j] \in d /\ g[j] \in Nat
  <2>. HIDE DEF S, N, all
  <2>. QED  BY <1>2, <1>13
<1>4. DOMAIN S = 1..N
  BY <1>1
<1>5. r = Picked(S, P)
  BY <1>4 DEF RowsOf, InWindow
<1>. HIDE DEF S, N
<1>6. /\ M \in Nat /\ r = [j \in 1..M |-> r[j]]
      /\ \E h : Leads(h, r, S, P)
  <2>. P \in SUBSET (1..N)
    OBVIOUS
  <2>. HIDE DEF P, r
  <2>. QED  BY <1>1, <1>5, PickedIs
<1>14. PICK h : Leads(h, r, S, P)
  BY <1>6
<1>7. /\ h \in [1..M -> P]
      /\ \A i, j \in 1..M : i < j => h[i] < h[j]
      /\ \A p \in P : \E j \in 1..M : h[j] = p
      /\ \A j \in 1..M : r[j] = S[h[j]]
  BY <1>14 DEF Leads
<1>. HIDE DEF M, r
<1>8. \A j \in 1..M : /\ h[j] \in 1..N /\ r[j].t = g[h[j]] /\ r[j] = RowOf(l, r[j].t)
                      /\ r[j].t \in Minute(at, d)
  BY <1>3, <1>7 DEF Minute
<1>9. \A i, j \in 1..M : i < j => r[i].t < r[j].t
  BY <1>2, <1>7, <1>8
<1>10. ASSUME NEW t \in Minute(at, d) PROVE \E j \in 1..M : r[j].t = t
  <2>1. t \in d /\ t \in at - Window..at
    BY DEF Minute
  <2>2. PICK i \in 1..N : g[i] = t
    BY <1>2, <2>1
  <2>3. i \in P
    BY <1>3, <2>1, <2>2
  <2>4. PICK j \in 1..M : h[j] = i
    BY <1>7, <2>3
  <2>. QED  BY <1>8, <2>2, <2>4
<1>11. M = n
  <2>. DEFINE f == [j \in 1..M |-> r[j].t]
  <2>1. f \in [1..M -> Minute(at, d)]
    BY <1>8
  <2>2. \A i, j \in 1..M : f[i] = f[j] => i = j
    <3>. SUFFICES ASSUME NEW i \in 1..M, NEW j \in 1..M, r[i].t = r[j].t PROVE i = j
      OBVIOUS
    <3>1. r[i].t \in Nat /\ r[j].t \in Nat
      BY <1>8, <1>3
    <3>2. ~(i < j) /\ ~(j < i)
      BY <1>9, <3>1
    <3>. QED  BY <3>2, <1>6
  <2>3. f \in Injection(1..M, Minute(at, d))
    BY <2>1, <2>2 DEF Injection, IsInjective
  <2>4. f \in Surjection(1..M, Minute(at, d))
    BY <2>1, <1>10 DEF Surjection
  <2>5. ExistsBijection(1..M, Minute(at, d))
    BY <2>3, <2>4 DEF ExistsBijection, Bijection
  <2>. QED  BY <2>5, <1>6, FS_CountingElements
<1>15. IsFiniteSet(Minute(at, d))
  <2>2. Minute(at, d) \in SUBSET d
    BY DEF Minute
  <2>. QED  BY <1>1, <2>2, FS_Subset
<1>16. RowsIn(r, l, Minute(at, d))
  BY <1>6, <1>8, <1>9, <1>10, <1>11 DEF RowsIn
<1>. QED  BY <1>6, <1>11, <1>15, <1>16 DEF r

(* The same minute gives the same rows, however much is stored around it.  *)
LEMMA RowsSame ==
    ASSUME NEW l1, Len(l1) \in Nat, NEW d1 \in SUBSET (1..Len(l1)),
           NEW l2, Len(l2) \in Nat, NEW d2 \in SUBSET (1..Len(l2)), NEW at \in Int,
           Minute(at, d1) = Minute(at, d2),
           \A t \in Minute(at, d1) : l1[t] = l2[t]
    PROVE  RowsOf(l1, d1, at) = RowsOf(l2, d2, at)
<1>. DEFINE r1 == RowsOf(l1, d1, at)
            r2 == RowsOf(l2, d2, at)
            n == Cardinality(Minute(at, d1))
            key == [x \in {r1[j] : j \in 1..n} \cup {r2[j] : j \in 1..n} |-> x.t]
<1>10. n \in Nat /\ RowsIn(r1, l1, Minute(at, d1)) /\ RowsIn(r2, l2, Minute(at, d1))
  BY RowsAre
<1>. HIDE DEF r1, r2
<1>1. /\ n \in Nat /\ r1 = [j \in 1..n |-> r1[j]]
      /\ \A j \in 1..n : r1[j].t \in Minute(at, d1) /\ r1[j] = RowOf(l1, r1[j].t)
      /\ \A i, j \in 1..n : i < j => r1[i].t < r1[j].t
      /\ \A t \in Minute(at, d1) : \E j \in 1..n : r1[j].t = t
  BY <1>10 DEF RowsIn
<1>2. /\ r2 = [j \in 1..n |-> r2[j]]
      /\ \A j \in 1..n : r2[j].t \in Minute(at, d1) /\ r2[j] = RowOf(l2, r2[j].t)
      /\ \A i, j \in 1..n : i < j => r2[i].t < r2[j].t
      /\ \A t \in Minute(at, d1) : \E j \in 1..n : r2[j].t = t
  BY <1>10 DEF RowsIn
<1>. HIDE DEF n
<1>3. \A t \in Minute(at, d1) : t \in Int /\ RowOf(l1, t) = RowOf(l2, t)
  BY DEF RowOf, Minute
<1>4. \A j \in 1..n : key[r1[j]] = r1[j].t /\ key[r2[j]] = r2[j].t
  OBVIOUS
<1>. HIDE DEF key
<1>5. RisesBy(key, r1, n) /\ RisesBy(key, r2, n)
  <2>1. \A j \in 1..n : key[r1[j]] \in Int /\ key[r2[j]] \in Int
    BY <1>1, <1>2, <1>3, <1>4
  <2>2. \A i, j \in 1..n : i < j => key[r1[i]] < key[r1[j]]
    BY <1>1, <1>4
  <2>3. \A i, j \in 1..n : i < j => key[r2[i]] < key[r2[j]]
    BY <1>2, <1>4
  <2>. QED  BY <2>1, <2>2, <2>3 DEF RisesBy
<1>6. Among(r1, n, r2, n)
  <2>. SUFFICES ASSUME NEW i \in 1..n PROVE \E j \in 1..n : r1[i] = r2[j]
    BY DEF Among
  <2>1. PICK j \in 1..n : r2[j].t = r1[i].t
    BY <1>1, <1>2
  <2>. QED  BY <1>1, <1>2, <1>3, <2>1
<1>7. Among(r2, n, r1, n)
  <2>. SUFFICES ASSUME NEW i \in 1..n PROVE \E j \in 1..n : r2[i] = r1[j]
    BY DEF Among
  <2>1. PICK j \in 1..n : r1[j].t = r2[i].t
    BY <1>1, <1>2
  <2>. QED  BY <1>1, <1>2, <1>3, <2>1
<1>8. \A j \in 1..n : r1[j] = r2[j]
  BY <1>1, <1>5, <1>6, <1>7, RisingSame
<1>9. r1 = r2
  BY <1>1, <1>2, <1>8
<1>. QED  BY <1>9 DEF r1, r2

(* low is the least level of the intervals W.                              *)
Lowest(low, l, W) ==
    low \in Nat /\ (\E t \in W : low = l[t].v) /\ (\A t \in W : low <= l[t].v)

(* st are the numbers of the intervals W and the events e.                 *)
NumbersOf(st, l, W, e) ==
    /\ st.events = e
    /\ st.count = Cardinality(W) /\ st.count \in Nat
    /\ W # {} => Lowest(st.low, l, W)

(* What the numbers of a minute are.                                       *)
LEMMA StatsAre ==
    ASSUME NEW l, Len(l) \in Nat, NEW d \in SUBSET (1..Len(l)), NEW at \in Int, NEW e,
           \A t \in 1..Len(l) : l[t].v \in Nat
    PROVE  NumbersOf(Stats(at, RowsOf(l, d, at), e), l, Minute(at, d), e)
<1>. DEFINE r == RowsOf(l, d, at)
            n == Cardinality(Minute(at, d))
            V == Range(ValuesOf(r))
            st == Stats(at, r, e)
<1>6. n \in Nat /\ IsFiniteSet(Minute(at, d)) /\ RowsIn(r, l, Minute(at, d))
  BY RowsAre
<1>1. /\ n \in Nat /\ IsFiniteSet(Minute(at, d)) /\ r = [j \in 1..n |-> r[j]]
      /\ \A j \in 1..n : r[j].t \in Minute(at, d) /\ r[j] = RowOf(l, r[j].t)
      /\ \A t \in Minute(at, d) : \E j \in 1..n : r[j].t = t
  BY <1>6 DEF RowsIn
<1>2. n = 0 <=> Minute(at, d) = {}
  BY <1>1, FS_EmptySet
<1>. HIDE DEF r, n
<1>3. Len(r) = n /\ (r = <<>> <=> n = 0)
  BY <1>1
<1>4. st.events = e /\ st.count = n
  BY <1>3 DEF Stats
<1>7. n # 0 => st.low = Min(V)
  BY <1>3 DEF Stats
<1>. HIDE DEF st
<1>5. ASSUME Minute(at, d) # {} PROVE Lowest(st.low, l, Minute(at, d))
  <2>1. st.low = Min(V)
    BY <1>2, <1>5, <1>7
  <2>2. \A j \in 1..n : r[j].v = l[r[j].t].v
    BY <1>1 DEF RowOf
  <2>3. V = {l[t].v : t \in Minute(at, d)}
    <3>1. V = {r[j].v : j \in 1..n}
      BY <1>1 DEF Range, ValuesOf
    <3>. HIDE DEF V
    <3>2. \A x : x \in V <=> \E t \in Minute(at, d) : x = l[t].v
      BY <1>1, <2>2, <3>1
    <3>. QED  BY <3>2
  <2>. HIDE DEF V
  <2>4. V \subseteq Nat /\ V # {}
    BY <1>5, <2>3 DEF Minute
  <2>5. \E x \in V : \A y \in V : x <= y
    BY <2>4, LeastNatural
  <2>6. Min(V) \in V /\ \A y \in V : Min(V) <= y
    BY <2>5 DEF Min
  <2>. QED  BY <2>1, <2>3, <2>4, <2>6 DEF Lowest
<1>. QED  BY <1>1, <1>4, <1>5 DEF n, r, st, NumbersOf

-----------------------------------------------------------------------------
(* What a note is made of.                                                 *)

(* A body that is not refused makes a note.                                *)
LEMMA ValidatedNote ==
    ASSUME NEW body \in Bodies, now \in Nat, Validate(body) # Refused
    PROVE  /\ Validate(body).at \in Int
           /\ Validate(body).kind \in {"lights", "tv", "both"}
           /\ Validate(body).tv_count \in {"none", "one", "several", "unsure"}
<1>. DEFINE note == [at |-> now + body.at, kind |-> body.kind, tv_count |-> "none"]
            count == Or(body.tv_count, "unsure")
<1>1. now + body.at \in Int
  BY NotesAssumption
<1>2. \/ Validate(body) = note
      \/ /\ Validate(body) = [note EXCEPT !.tv_count = count]
         /\ count \in {"one", "several", "unsure"}
  BY DEF Validate
<1>3. body.kind \in {"lights", "tv", "both"}
  BY DEF Validate
<1>. QED  BY <1>1, <1>2, <1>3

(* What is said is one of the sentences.                                   *)
LEMMA SummaryType ==
    ASSUME NEW note, NEW s
    PROVE  Summary(note, s) \in SUBSET Sentences
<1>1. \A x, when : x \in Sentences => Say(x, when) \in SUBSET Sentences
  BY DEF Say
<1>2. \A A, B : A \in SUBSET Sentences /\ B \in SUBSET Sentences => A \cup B \in SUBSET Sentences
  OBVIOUS
<1>3. /\ "events" \in Sentences /\ "no event" \in Sentences /\ "location" \in Sentences
      /\ "no trend" \in Sentences /\ "lowest" \in Sentences /\ "highest" \in Sentences
      /\ "partly covered" \in Sentences /\ "reached the sag line" \in Sentences
      /\ "stayed above the sag line" \in Sentences /\ "like a dropout" \in Sentences
      /\ "slow change" \in Sentences /\ "longer than a blank" \in Sentences
      /\ "shorter than a blank" \in Sentences /\ "mute may be held" \in Sentences
      /\ "did not move" \in Sentences /\ "unresolved" \in Sentences
      /\ "away from the mains" \in Sentences /\ "notch" \in Sentences
      /\ "can dim lamps" \in Sentences /\ "barely moved" \in Sentences
      /\ "picture was gone" \in Sentences
  BY DEF Sentences
<1>4. \A y, x, when : y \in Say(x, when) => y = x
  BY DEF Say
<1>5. ASSUME NEW y \in Summary(note, s) PROVE y \in Sentences
  <2>. HIDE DEF Sentences
  <2>. QED  BY <1>3, <1>4, <1>5, ZenonT(120) DEF Summary
<1>. QED  BY <1>5

(* What is said depends on what was asked only by the kind and the number
   of sets.                                                                *)
LEMMA SummarySame ==
    ASSUME NEW n1, NEW n2, NEW s, n1.kind = n2.kind, n1.tv_count = n2.tv_count
    PROVE  Summary(n1, s) = Summary(n2, s)
  BY DEF Summary

(* Events are spoken of if there are any.                                  *)
LEMMA SummaryOfEvents ==
    ASSUME NEW note, NEW s
    PROVE  "events" \in Summary(note, s) <=> s.events # {}
  BY DEF Summary, Say

-----------------------------------------------------------------------------
(* Type correctness.                                                       *)

StoredType == [parts : Seq(Part), ended : BOOLEAN]
AckedType == [note : Note, behind : BOOLEAN, found : Nat]

(* What the model's state gives to the lemmas on a minute.                 *)
LEMMA LineFacts ==
    ASSUME TypeOK
    PROVE  /\ now \in Nat /\ disk \in SUBSET (1..Len(line)) /\ evDisk \in SUBSET (1..Len(line))
           /\ \A t \in 1..Len(line) : line[t].v \in Nat
<1>1. \A x \in Levels \cup {Off} : x.v \in Nat
  BY NotesAssumption DEF Off
<1>. QED  BY <1>1 DEF TypeOK, now

(* The numbers of a note are those of its minute's stored intervals.       *)
LEMMA StatsAtIs ==
    ASSUME NEW at
    PROVE  StatsAt(at) = Stats(at, RowsOf(line, disk, at), Minute(at, evDisk))
  BY DEF StatsAt, Correlate, StoredRows, Row, RowOf, RowsOf, Minute, now

(* What is stored with a note has the form of a note.                      *)
LEMMA StoredNote ==
    ASSUME TypeOK, NEW body \in Bodies, Validate(body) # Refused
    PROVE  /\ Stored(Validate(body)) \in Note
           /\ StatsAt(Validate(body).at).count \in Nat
<1>. DEFINE note == Validate(body)
            at == note.at
            s == StatsAt(at)
            M == Minute(at, disk)
<1>1. /\ now \in Nat /\ disk \in SUBSET (1..Len(line)) /\ evDisk \in SUBSET (1..Len(line))
      /\ Len(line) \in Nat /\ \A t \in 1..Len(line) : line[t].v \in Nat
  BY LineFacts DEF now
<1>2. /\ note.at \in Int /\ note.kind \in {"lights", "tv", "both"}
      /\ note.tv_count \in {"none", "one", "several", "unsure"}
  BY <1>1, ValidatedNote
<1>. HIDE DEF note
<1>3. s = Stats(at, RowsOf(line, disk, at), Minute(at, evDisk))
  BY StatsAtIs
<1>4. /\ s.events = Minute(at, evDisk) /\ s.count = Cardinality(M) /\ s.count \in Nat
      /\ M # {} => s.low \in Nat
  <2>1. NumbersOf(s, line, M, Minute(at, evDisk))
    BY <1>1, <1>2, <1>3, StatsAre
  <2>. QED  BY <2>1 DEF NumbersOf, Lowest
<1>5. IsFiniteSet(M) /\ (s.count = 0 <=> M = {})
  BY <1>1, <1>2, <1>4, RowsAre, FS_EmptySet
<1>6. Cardinality(s.events) \in Nat
  BY <1>1, <1>2, <1>4, RowsAre
<1>7. Summary(note, s) \in SUBSET Sentences
  BY SummaryType
<1>8. (IF s.count = 0 THEN 0 ELSE s.low) \in Nat
  BY <1>4, <1>5
<1>9. posted + 1 \in Nat
  BY DEF TypeOK
<1>10. Stored(note) = [id |-> posted + 1, at |-> note.at, kind |-> note.kind,
                       tv_count |-> note.tv_count, summary |-> Summary(note, s),
                       low |-> IF s.count = 0 THEN 0 ELSE s.low,
                       events |-> Cardinality(s.events)]
  BY DEF Stored
<1>. HIDE DEF s
<1>11. Stored(note) \in Note
  BY <1>2, <1>6, <1>7, <1>8, <1>9, <1>10 DEF Note
<1>. QED  BY <1>4, <1>11 DEF note, s

(* An append keeps the file's form.                                        *)
LEMMA AppendedType ==
    ASSUME TypeOK, NEW part \in Part, NEW ended \in BOOLEAN
    PROVE  LET f == Appended(part, ended)
           IN  /\ f \in Seq(StoredType)
               /\ \A i \in DOMAIN f : f[i].parts # <<>> /\ (i < Len(f) => f[i].ended)
<1>. DEFINE f == Appended(part, ended)
            n == Len(file)
            new == [parts |-> <<part>>, ended |-> ended]
<1>1. /\ file \in Seq(StoredType) /\ n \in Nat /\ DOMAIN file = 1..n
      /\ \A i \in 1..n : file[i] \in StoredType
  <2>1. file \in Seq(StoredType)
    BY DEF TypeOK, StoredType
  <2>. QED  BY <2>1
<1>2. \A i \in 1..n : file[i].parts # <<>> /\ (i < n => file[i].ended)
  BY <1>1 DEF TypeOK
<1>. HIDE DEF n
<1>3. CASE Unended
  <2>1. file # <<>> /\ n \in 1..n
    BY <1>1, <1>3 DEF Unended, n
  <2>. DEFINE more == [parts |-> Append(file[n].parts, part), ended |-> ended]
  <2>2. f = [file EXCEPT ![n] = more]
    BY <1>3 DEF Appended, n
  <2>3. more \in StoredType /\ more.parts # <<>>
    <3>1. file[n].parts \in Seq(Part)
      BY <1>1, <2>1 DEF StoredType
    <3>2. Append(file[n].parts, part) \in Seq(Part) /\ Append(file[n].parts, part) # <<>>
      BY <3>1
    <3>. QED  BY <3>2 DEF StoredType
  <2>. HIDE DEF f, more
  <2>4. f \in Seq(StoredType) /\ Len(f) = n /\ DOMAIN f = 1..n
    <3>1. f \in [1..n -> StoredType]
      BY <1>1, <2>2, <2>3
    <3>. QED  BY <1>1, <3>1
  <2>5. \A i \in 1..n : f[i] = IF i = n THEN more ELSE file[i]
    BY <1>1, <2>2
  <2>6. \A i \in 1..n : f[i].parts # <<>> /\ (i < n => f[i].ended)
    BY <1>1, <1>2, <2>3, <2>5
  <2>. QED  BY <2>4, <2>6 DEF f
<1>4. CASE ~Unended
  <2>1. f = Append(file, new)
    BY <1>4 DEF Appended
  <2>2. new \in StoredType /\ new.parts # <<>>
    BY DEF StoredType
  <2>3. n > 0 => file[n].ended
    BY <1>1, <1>4 DEF Unended, Last, n
  <2>. HIDE DEF f, new
  <2>4. f \in Seq(StoredType) /\ Len(f) = n + 1 /\ DOMAIN f = 1..n + 1
    BY <1>1, <2>1, <2>2 DEF n
  <2>5. \A i \in 1..n + 1 : f[i] = IF i = n + 1 THEN new ELSE file[i]
    BY <1>1, <2>1 DEF n
  <2>6. \A i \in 1..n + 1 : f[i].parts # <<>> /\ (i < n + 1 => f[i].ended)
    BY <1>1, <1>2, <2>2, <2>3, <2>5
  <2>. QED  BY <2>4, <2>6 DEF f
<1>. QED  BY <1>3, <1>4

LEMMA TypeInit == Init => TypeOK
  BY NotesAssumption DEF Init, TypeOK, now

(* The time of the oldest stored interval.                                 *)
LEMMA MinInDisk ==
    ASSUME TypeOK, disk # {}
    PROVE  Min(disk) \in disk
<1>1. disk \subseteq Nat
  BY LineFacts
<1>2. \E x \in disk : \A y \in disk : x <= y
  BY <1>1, LeastNatural
<1>. QED  BY <1>2 DEF Min

(* Every step of the datalogger and of the web application.                *)
LEMMA TypeStep ==
    ASSUME TypeOK, [Next]_vars
    PROVE  TypeOK'
<1>1. ASSUME NEW level \in Levels, Measure(level) PROVE TypeOK'
  <2>1. line' \in Seq(Levels \cup {Off}) /\ now' = now + 1 /\ now \in Nat
    BY <1>1 DEF TypeOK, Measure, now
  <2>2. now + 1 \notin mem \cup disk \cup evMem \cup evDisk
    BY <2>1 DEF TypeOK
  <2>3. /\ mem' \cup disk' \cup evMem' \cup evDisk' \cup gone' \subseteq 1..now'
        /\ mem' \cap disk' = {} /\ evMem' \cap evDisk' = {}
    BY <1>1, <2>1, <2>2 DEF TypeOK, Measure
  <2>. QED  BY <1>1, <2>1, <2>3 DEF TypeOK, Measure, noteVars
<1>2. ASSUME Down PROVE TypeOK'
  <2>1. line' \in Seq(Levels \cup {Off}) /\ now' = now + 1 /\ now \in Nat
    BY <1>2 DEF TypeOK, Down, now
  <2>2. /\ mem' \cup disk' \cup evMem' \cup evDisk' \cup gone' \subseteq 1..now'
        /\ mem' \cap disk' = {} /\ evMem' \cap evDisk' = {}
    BY <1>2, <2>1 DEF TypeOK, Down
  <2>. QED  BY <1>2, <2>1, <2>2 DEF TypeOK, Down, noteVars
<1>3. ASSUME FlushChunk PROVE TypeOK'
  BY <1>3 DEF TypeOK, FlushChunk, noteVars, now
<1>4. ASSUME RecordEvent PROVE TypeOK'
  BY <1>4 DEF TypeOK, RecordEvent, noteVars, now
<1>5. ASSUME Rotate PROVE TypeOK'
  <2>1. Min(disk) \in disk
    BY <1>5, MinInDisk DEF Rotate
  <2>. QED  BY <1>5, <2>1 DEF TypeOK, Rotate, noteVars, now
<1>6. ASSUME ClearStorage PROVE TypeOK'
  BY <1>6 DEF TypeOK, ClearStorage, Cleared, now
<1>7. ASSUME NEW body \in Bodies, CreateNote(body) PROVE TypeOK'
  <2>. DEFINE note == Validate(body)
              part == [note |-> Stored(note), whole |-> TRUE]
              ack == [note |-> Stored(note), behind |-> Unended, found |-> StatsAt(note.at).count]
  <2>1. Stored(note) \in Note /\ StatsAt(note.at).count \in Nat
    BY <1>7, StoredNote DEF CreateNote
  <2>2. part \in Part /\ Unended \in BOOLEAN /\ ack \in AckedType
    BY <2>1 DEF Part, AckedType, Unended
  <2>3. /\ posted < MaxNotes /\ posted' = posted + 1 /\ file' = Appended(part, TRUE)
        /\ acked' = Append(acked, ack) /\ UNCHANGED loggerVars
    BY <1>7 DEF CreateNote
  <2>. HIDE DEF part, ack
  <2>4. /\ file' \in Seq(StoredType)
        /\ \A i \in DOMAIN file' : file'[i].parts # <<>> /\ (i < Len(file') => file'[i].ended)
    BY <2>2, <2>3, AppendedType
  <2>5. acked \in Seq(AckedType) /\ Len(acked) <= posted /\ posted \in 0..MaxNotes
    BY DEF TypeOK, AckedType
  <2>6. acked' \in Seq(AckedType) /\ Len(acked') = Len(acked) + 1
    BY <2>2, <2>3, <2>5
  <2>7. Len(acked') <= posted' /\ posted' \in 0..MaxNotes
    BY <2>3, <2>5, <2>6, NotesAssumption
  <2>. QED  BY <2>3, <2>4, <2>6, <2>7 DEF TypeOK, loggerVars, StoredType, AckedType, now
<1>8. ASSUME NEW body \in Bodies, CreateFails(body) PROVE TypeOK'
  <2>. DEFINE note == Validate(body)
  <2>1. Stored(note) \in Note
    BY <1>8, StoredNote DEF CreateFails
  <2>2. PICK whole \in BOOLEAN, ended \in BOOLEAN :
             file' = Appended([note |-> Stored(note), whole |-> whole], ended)
    BY <1>8 DEF CreateFails
  <2>3. [note |-> Stored(note), whole |-> whole] \in Part
    BY <2>1 DEF Part
  <2>4. /\ file' \in Seq(StoredType)
        /\ \A i \in DOMAIN file' : file'[i].parts # <<>> /\ (i < Len(file') => file'[i].ended)
    BY <2>2, <2>3, AppendedType
  <2>5. /\ posted < MaxNotes /\ posted' = posted + 1 /\ acked' = acked /\ UNCHANGED loggerVars
    BY <1>8 DEF CreateFails
  <2>6. Len(acked) <= posted' /\ posted' \in 0..MaxNotes
    BY <2>5, NotesAssumption DEF TypeOK
  <2>. QED  BY <2>4, <2>5, <2>6 DEF TypeOK, loggerVars, StoredType, now
<1>9. ASSUME UNCHANGED vars PROVE TypeOK'
  BY <1>9 DEF TypeOK, vars, now
<1>. QED  BY <1>1, <1>2, <1>3, <1>4, <1>5, <1>6, <1>7, <1>8, <1>9 DEF Next

(* The state keeps its form: an interval is in memory or on the disk and not
   in both, and only the last line of the notes may be unended.            *)
THEOREM TypeCorrect == Spec => []TypeOK
  BY TypeInit, TypeStep, PTL DEF Spec

-----------------------------------------------------------------------------
(* The notes in the file and the notes acknowledged.                       *)

FirstId(f, i) == f[i].parts[1].note.id
Only(note) == [parts |-> <<[note |-> note, whole |-> TRUE]>>, ended |-> TRUE]

(* The first notes of the lines, and the acknowledged notes, rise by their
   ids.  A note acknowledged on a line of its own has that line still; one
   written behind another begins no line.                                  *)
FileInv ==
    /\ \A i \in DOMAIN file : FirstId(file, i) \in 1..posted
    /\ \A i, j \in DOMAIN file : i < j => FirstId(file, i) < FirstId(file, j)
AckedInv ==
    /\ \A k \in DOMAIN acked : acked[k].note.id \in 1..posted
    /\ \A k, m \in DOMAIN acked : k < m => acked[k].note.id < acked[m].note.id
LinesInv ==
    /\ \A k \in DOMAIN acked : ~acked[k].behind =>
          \E i \in DOMAIN file : file[i] = Only(acked[k].note)
    /\ \A k \in DOMAIN acked, i \in DOMAIN file :
          acked[k].behind => acked[k].note.id # FirstId(file, i)
NotesInv == FileInv /\ AckedInv /\ LinesInv

(* What an append leaves alone, and what it adds.                          *)
LEMMA AppendedKeeps ==
    ASSUME TypeOK, NEW part, NEW ended, NEW f, f = Appended(part, ended)
    PROVE  /\ DOMAIN file = 1..Len(file) /\ Len(file) \in Nat
           /\ DOMAIN f = 1..Len(f) /\ Len(f) = IF Unended THEN Len(file) ELSE Len(file) + 1
           /\ \A i \in DOMAIN file : /\ FirstId(f, i) = FirstId(file, i)
                                     /\ file[i].ended => f[i] = file[i]
           /\ ~Unended => f[Len(file) + 1] = [parts |-> <<part>>, ended |-> ended]
<1>. DEFINE n == Len(file)
<1>1. file \in Seq(StoredType) /\ n \in Nat /\ DOMAIN file = 1..n
  <2>1. file \in Seq(StoredType)
    BY DEF TypeOK, StoredType
  <2>. QED  BY <2>1
<1>2. \A i \in 1..n : file[i].parts \in Seq(Part) /\ file[i].parts # <<>>
  <2>1. \A i \in 1..n : file[i].parts # <<>>
    BY <1>1 DEF TypeOK
  <2>2. \A i \in 1..n : file[i] \in StoredType
    BY <1>1
  <2>. QED  BY <2>1, <2>2 DEF StoredType
<1>. HIDE DEF n
<1>3. CASE Unended
  <2>. DEFINE more == [parts |-> Append(file[n].parts, part), ended |-> ended]
  <2>1. n \in 1..n /\ ~file[n].ended
    BY <1>1, <1>3 DEF Unended, Last, n
  <2>2. f = [file EXCEPT ![n] = more]
    BY <1>3 DEF Appended, n
  <2>3. more.parts[1] = file[n].parts[1]
    BY <1>2, <2>1
  <2>. HIDE DEF more
  <2>4. f = [i \in 1..n |-> IF i = n THEN more ELSE file[i]]
    BY <1>1, <2>2
  <2>5. DOMAIN f = 1..n /\ Len(f) = n
    BY <1>1, <2>4
  <2>6. \A i \in 1..n : FirstId(f, i) = FirstId(file, i) /\ (file[i].ended => f[i] = file[i])
    BY <2>1, <2>3, <2>4 DEF FirstId
  <2>. QED  BY <1>1, <1>3, <2>5, <2>6 DEF n
<1>4. CASE ~Unended
  <2>1. f = Append(file, [parts |-> <<part>>, ended |-> ended])
    BY <1>4 DEF Appended
  <2>2. /\ DOMAIN f = 1..n + 1 /\ Len(f) = n + 1
        /\ \A i \in 1..n : f[i] = file[i]
        /\ f[n + 1] = [parts |-> <<part>>, ended |-> ended]
    BY <1>1, <2>1 DEF n
  <2>3. \A i \in 1..n : FirstId(f, i) = FirstId(file, i)
    BY <2>2 DEF FirstId
  <2>. QED  BY <1>1, <1>4, <2>2, <2>3 DEF n
<1>. QED  BY <1>3, <1>4

(* Writing the next note keeps the file rising.                            *)
LEMMA FileRises ==
    ASSUME TypeOK, FileInv, NEW note, note.id = posted + 1, NEW whole, NEW ended,
           NEW f, f = Appended([note |-> note, whole |-> whole], ended)
    PROVE  /\ \A i \in DOMAIN f : FirstId(f, i) \in 1..posted + 1
           /\ \A i, j \in DOMAIN f : i < j => FirstId(f, i) < FirstId(f, j)
<1>. DEFINE part == [note |-> note, whole |-> whole]
            n == Len(file)
<1>1. /\ DOMAIN file = 1..n /\ n \in Nat
      /\ DOMAIN f = 1..Len(f) /\ Len(f) = IF Unended THEN n ELSE n + 1
      /\ \A i \in DOMAIN file : FirstId(f, i) = FirstId(file, i)
      /\ ~Unended => f[n + 1] = [parts |-> <<part>>, ended |-> ended]
  BY AppendedKeeps
<1>2. posted \in Nat
  BY DEF TypeOK
<1>. HIDE DEF n
<1>3. \A i \in 1..n : FirstId(f, i) \in 1..posted
  BY <1>1 DEF FileInv
<1>4. \A i, j \in 1..n : i < j => FirstId(f, i) < FirstId(f, j)
  BY <1>1 DEF FileInv
<1>5. ~Unended => FirstId(f, n + 1) = posted + 1
  BY <1>1 DEF FirstId
<1>. QED  BY <1>1, <1>2, <1>3, <1>4, <1>5

LEMMA StoredId ==
    ASSUME NEW note
    PROVE  Stored(note).id = posted + 1
  BY DEF Stored

LEMMA NotesStep ==
    ASSUME TypeOK, NotesInv, [Next]_vars
    PROVE  NotesInv'
<1>1. ASSUME UNCHANGED <<file, acked, posted>> PROVE NotesInv'
  BY <1>1 DEF NotesInv, FileInv, AckedInv, LinesInv
<1>2. ASSUME NEW body \in Bodies, CreateNote(body) PROVE NotesInv'
  <2>. DEFINE note == Stored(Validate(body))
              part == [note |-> note, whole |-> TRUE]
              ack == [note |-> note, behind |-> Unended, found |-> StatsAt(Validate(body).at).count]
              n == Len(file)
              m == Len(acked)
  <2>1. /\ posted' = posted + 1 /\ file' = Appended(part, TRUE)
        /\ acked' = Append(acked, ack)
    BY <1>2 DEF CreateNote
  <2>2. note.id = posted + 1
    BY StoredId
  <2>. HIDE DEF note
  <2>3. FileInv'
    BY <2>1, <2>2, FileRises DEF NotesInv, FileInv
  <2>4. /\ DOMAIN file = 1..n /\ n \in Nat
        /\ DOMAIN file' = 1..Len(file') /\ Len(file') = IF Unended THEN n ELSE n + 1
        /\ \A i \in DOMAIN file : /\ FirstId(file', i) = FirstId(file, i)
                                  /\ file[i].ended => file'[i] = file[i]
        /\ ~Unended => file'[n + 1] = [parts |-> <<part>>, ended |-> TRUE]
    <3>. HIDE DEF part, ack
    <3>1. PICK ended \in BOOLEAN : ended = TRUE
      OBVIOUS
    <3>2. file' = Appended(part, ended)
      BY <2>1, <3>1
    <3>3. /\ DOMAIN file = 1..n /\ n \in Nat
          /\ DOMAIN file' = 1..Len(file') /\ Len(file') = IF Unended THEN n ELSE n + 1
          /\ \A i \in DOMAIN file : /\ FirstId(file', i) = FirstId(file, i)
                                    /\ file[i].ended => file'[i] = file[i]
          /\ ~Unended => file'[n + 1] = [parts |-> <<part>>, ended |-> ended]
      BY <3>2, AppendedKeeps
    <3>. QED  BY <3>1, <3>3
  <2>5. /\ m \in Nat /\ DOMAIN acked = 1..m /\ DOMAIN acked' = 1..m + 1
        /\ acked'[m + 1] = ack /\ \A k \in 1..m : acked'[k] = acked[k]
    <3>1. acked \in Seq(AckedType)
      BY DEF TypeOK, AckedType
    <3>. QED  BY <2>1, <3>1
  <2>. HIDE DEF n, m, ack
  <2>6. ack.note = note /\ ack.behind = Unended
    BY DEF ack
  <2>7. posted \in Nat
    BY DEF TypeOK
  <2>8. AckedInv'
    <3>1. \A k \in 1..m : acked'[k].note.id \in 1..posted
      BY <2>5 DEF NotesInv, AckedInv
    <3>2. acked'[m + 1].note.id = posted + 1
      BY <2>2, <2>5, <2>6
    <3>3. \A k, l \in 1..m : k < l => acked'[k].note.id < acked'[l].note.id
      BY <2>5 DEF NotesInv, AckedInv
    <3>. QED  BY <2>1, <2>5, <2>7, <3>1, <3>2, <3>3 DEF AckedInv
  <2>9. ASSUME NEW k \in DOMAIN acked', ~acked'[k].behind
        PROVE  \E i \in DOMAIN file' : file'[i] = Only(acked'[k].note)
    <3>1. CASE k = m + 1
      <4>1. ~Unended /\ acked'[k].note = note
        BY <2>5, <2>6, <2>9, <3>1
      <4>2. file'[n + 1] = Only(note) /\ n + 1 \in DOMAIN file'
        BY <2>4, <4>1 DEF Only
      <4>. QED  BY <4>1, <4>2
    <3>2. CASE k \in 1..m
      <4>1. k \in DOMAIN acked /\ acked'[k] = acked[k]
        BY <2>5, <3>2
      <4>2. PICK i \in DOMAIN file : file[i] = Only(acked[k].note)
        BY <2>9, <4>1 DEF NotesInv, LinesInv
      <4>3. file[i].ended
        BY <4>2 DEF Only
      <4>4. file'[i] = file[i] /\ i \in DOMAIN file'
        BY <2>4, <4>3
      <4>. QED  BY <4>1, <4>2, <4>4
    <3>. QED  BY <2>5, <3>1, <3>2
  <2>10. ASSUME NEW k \in DOMAIN acked', NEW i \in DOMAIN file', acked'[k].behind
         PROVE  acked'[k].note.id # FirstId(file', i)
    <3>1. CASE k = m + 1
      <4>1. Unended /\ acked'[k].note.id = posted + 1
        BY <2>2, <2>5, <2>6, <2>10, <3>1
      <4>2. FirstId(file', i) \in 1..posted
        BY <2>4, <4>1 DEF NotesInv, FileInv
      <4>. QED  BY <2>7, <4>1, <4>2
    <3>2. CASE k \in 1..m
      <4>1. k \in DOMAIN acked /\ acked'[k] = acked[k] /\ acked[k].behind
        BY <2>5, <2>10, <3>2
      <4>2. acked[k].note.id \in 1..posted
        BY <4>1 DEF NotesInv, AckedInv
      <4>3. CASE i \in DOMAIN file
        BY <2>4, <4>1, <4>3 DEF NotesInv, LinesInv
      <4>4. CASE i \notin DOMAIN file
        <5>1. ~Unended /\ i = n + 1
          BY <2>4, <4>4
        <5>2. FirstId(file', i) = posted + 1
          BY <2>2, <2>4, <5>1 DEF FirstId
        <5>. QED  BY <2>7, <4>1, <4>2, <5>2
      <4>. QED  BY <4>3, <4>4
    <3>. QED  BY <2>5, <3>1, <3>2
  <2>. QED  BY <2>3, <2>8, <2>9, <2>10 DEF NotesInv, LinesInv
<1>3. ASSUME NEW body \in Bodies, CreateFails(body) PROVE NotesInv'
  <2>. DEFINE note == Stored(Validate(body))
              n == Len(file)
  <2>1. /\ posted' = posted + 1 /\ acked' = acked
        /\ \E whole, ended \in BOOLEAN : file' = Appended([note |-> note, whole |-> whole], ended)
    BY <1>3 DEF CreateFails
  <2>2. PICK whole \in BOOLEAN, ended \in BOOLEAN :
             file' = Appended([note |-> note, whole |-> whole], ended)
    BY <2>1
  <2>3. note.id = posted + 1 /\ posted \in Nat
    BY StoredId DEF TypeOK
  <2>. HIDE DEF note
  <2>4. FileInv'
    BY <2>1, <2>2, <2>3, FileRises DEF NotesInv, FileInv
  <2>5. /\ DOMAIN file = 1..n /\ n \in Nat
        /\ DOMAIN file' = 1..Len(file') /\ Len(file') = IF Unended THEN n ELSE n + 1
        /\ \A i \in DOMAIN file : /\ FirstId(file', i) = FirstId(file, i)
                                  /\ file[i].ended => file'[i] = file[i]
        /\ ~Unended => file'[n + 1] = [parts |-> <<[note |-> note, whole |-> whole]>>, ended |-> ended]
    BY <2>2, AppendedKeeps
  <2>. HIDE DEF n
  <2>6. AckedInv'
    BY <2>1, <2>3 DEF NotesInv, AckedInv
  <2>7. ASSUME NEW k \in DOMAIN acked, ~acked[k].behind
        PROVE  \E i \in DOMAIN file' : file'[i] = Only(acked[k].note)
    <3>1. PICK i \in DOMAIN file : file[i] = Only(acked[k].note)
      BY <2>7 DEF NotesInv, LinesInv
    <3>2. file[i].ended
      BY <3>1 DEF Only
    <3>. QED  BY <2>5, <3>1, <3>2
  <2>8. ASSUME NEW k \in DOMAIN acked, NEW i \in DOMAIN file', acked[k].behind
        PROVE  acked[k].note.id # FirstId(file', i)
    <3>1. acked[k].note.id \in 1..posted
      BY DEF NotesInv, AckedInv
    <3>2. CASE i \in DOMAIN file
      BY <2>5, <2>8, <3>2 DEF NotesInv, LinesInv
    <3>3. CASE i \notin DOMAIN file
      <4>1. ~Unended /\ i = n + 1
        BY <2>5, <3>3
      <4>2. FirstId(file', i) = posted + 1
        BY <2>3, <2>5, <4>1 DEF FirstId
      <4>. QED  BY <2>3, <3>1, <4>2
    <3>. QED  BY <3>2, <3>3
  <2>. QED  BY <2>1, <2>4, <2>6, <2>7, <2>8 DEF NotesInv, LinesInv
<1>4. ASSUME NEW level \in Levels, Measure(level) PROVE NotesInv'
  BY <1>1, <1>4 DEF Measure, noteVars
<1>5. ASSUME Down \/ FlushChunk \/ RecordEvent \/ Rotate PROVE NotesInv'
  BY <1>1, <1>5 DEF Down, FlushChunk, RecordEvent, Rotate, noteVars
<1>6. ASSUME ClearStorage PROVE NotesInv'
  BY <1>1, <1>6 DEF ClearStorage, Cleared
<1>7. ASSUME UNCHANGED vars PROVE NotesInv'
  BY <1>1, <1>7 DEF vars
<1>. QED  BY <1>2, <1>3, <1>4, <1>5, <1>6, <1>7 DEF Next

-----------------------------------------------------------------------------
(* Acknowledged notes stay.                                                *)

(* all is what a reader of the file makes of it: its notes rise by their
   ids, every note acknowledged on a line of its own is among them, and no
   other has the id of an acknowledged one.                                *)
ReadNotes(all) ==
    /\ Len(all) \in Nat /\ DOMAIN all = 1..Len(all)
    /\ all = [j \in 1..Len(all) |-> all[j]]
    /\ \A j \in 1..Len(all) : all[j].id \in 1..posted
    /\ \A i, j \in 1..Len(all) : i < j => all[i].id < all[j].id
    /\ \A k \in DOMAIN acked : ~acked[k].behind => \E j \in 1..Len(all) : all[j] = acked[k].note
    /\ \A j \in 1..Len(all), k \in DOMAIN acked :
          all[j].id = acked[k].note.id => ~acked[k].behind /\ all[j] = acked[k].note

LEMMA ReadAllIs ==
    ASSUME TypeOK, NotesInv
    PROVE  ReadNotes(ReadAll(file))
<1>. DEFINE n == Len(file)
            P == {i \in DOMAIN file : Len(file[i].parts) = 1 /\ file[i].parts[1].whole}
            good == Picked(file, P)
            N == Cardinality(P)
            all == ReadAll(file)
<1>1. n \in Nat /\ DOMAIN file = 1..n
  <2>1. file \in Seq(StoredType)
    BY DEF TypeOK, StoredType
  <2>. QED  BY <2>1
<1>2. P \in SUBSET (1..n)
  BY <1>1
<1>. HIDE DEF P, n
<1>3. /\ N \in Nat /\ good = [j \in 1..N |-> good[j]] /\ \E g : Leads(g, good, file, P)
  BY <1>1, <1>2, PickedIs
<1>4. PICK g : Leads(g, good, file, P)
  BY <1>3
<1>5. /\ g \in [1..N -> P]
      /\ \A i, j \in 1..N : i < j => g[i] < g[j]
      /\ \A p \in P : \E j \in 1..N : g[j] = p
      /\ \A j \in 1..N : good[j] = file[g[j]]
  BY <1>4 DEF Leads
<1>6. all = [j \in DOMAIN good |-> good[j].parts[1].note] /\ DOMAIN good = 1..N
  BY <1>3 DEF ReadAll, P
<1>. HIDE DEF N, good
<1>7. /\ Len(all) = N /\ DOMAIN all = 1..N /\ all = [j \in 1..N |-> all[j]]
      /\ \A j \in 1..N : all[j] = file[g[j]].parts[1].note
  BY <1>3, <1>5, <1>6
<1>. HIDE DEF all
<1>8. \A j \in 1..N : g[j] \in P /\ g[j] \in DOMAIN file /\ all[j].id = FirstId(file, g[j])
  BY <1>1, <1>2, <1>5, <1>7 DEF FirstId
<1>9. \A j \in 1..N : all[j].id \in 1..posted
  BY <1>8 DEF NotesInv, FileInv
<1>10. \A i, j \in 1..N : i < j => all[i].id < all[j].id
  BY <1>5, <1>8 DEF NotesInv, FileInv
<1>11. ASSUME NEW k \in DOMAIN acked, ~acked[k].behind
       PROVE  \E j \in 1..N : all[j] = acked[k].note
  <2>1. PICK i \in DOMAIN file : file[i] = Only(acked[k].note)
    BY <1>11 DEF NotesInv, LinesInv
  <2>2. Len(file[i].parts) = 1 /\ file[i].parts[1].whole /\ file[i].parts[1].note = acked[k].note
    BY <2>1 DEF Only
  <2>3. i \in P
    BY <2>2 DEF P
  <2>4. PICK j \in 1..N : g[j] = i
    BY <1>5, <2>3
  <2>. QED  BY <1>7, <2>2, <2>4
<1>12. ASSUME NEW j \in 1..N, NEW k \in DOMAIN acked, all[j].id = acked[k].note.id
       PROVE  ~acked[k].behind /\ all[j] = acked[k].note
  <2>1. ~acked[k].behind
    BY <1>8, <1>12 DEF NotesInv, LinesInv
  <2>2. PICK m \in 1..N : all[m] = acked[k].note
    BY <1>11, <2>1
  <2>3. all[m].id = all[j].id
    BY <1>12, <2>2
  <2>4. all[m].id \in Nat /\ all[j].id \in Nat
    BY <1>9
  <2>5. m = j
    BY <1>3, <1>10, <2>3, <2>4
  <2>. QED  BY <2>1, <2>2, <2>5
<1>. QED  BY <1>3, <1>7, <1>9, <1>10, <1>11, <1>12 DEF ReadNotes, all

(* The list shows the newest notes, newest first.                          *)
LEMMA ListIs ==
    ASSUME TypeOK, NEW shown, shown = ListNotes(file), NEW all, all = ReadAll(file), ReadNotes(all)
    PROVE  \E n \in 0..Len(all) :
              /\ DOMAIN shown = 1..n /\ (Len(all) > 0 => n > 0)
              /\ \A i \in 1..n : shown[i] = all[Len(all) - i + 1]
<1>. DEFINE N == Len(all)
            from == Max({1, N - ListLimit + 1})
            part == SubSeq(all, from, N)
<1>1. N \in Nat /\ ListLimit \in Nat \ {0}
  BY NotesAssumption DEF ReadNotes
<1>2. from = IF N - ListLimit + 1 > 1 THEN N - ListLimit + 1 ELSE 1
  BY <1>1 DEF Max
<1>3. shown = Reverse(part)
  BY DEF ListNotes
<1>4. from \in 1..N + 1
  BY <1>1, <1>2
<1>5. N > 0 => from <= N
  BY <1>1, <1>2
<1>. HIDE DEF N, from
<1>6. /\ Len(part) = N - from + 1 /\ \A i \in 1..N - from + 1 : part[i] = all[from + i - 1]
  BY <1>1, <1>4
<1>7. shown = [i \in 1..Len(part) |-> part[(Len(part) - i) + 1]]
  BY <1>3 DEF Reverse
<1>. HIDE DEF part
<1>. DEFINE n == N - from + 1
<1>8. n \in 0..N /\ (N > 0 => n > 0) /\ DOMAIN shown = 1..n
  BY <1>1, <1>4, <1>5, <1>6, <1>7
<1>9. ASSUME NEW i \in 1..n PROVE shown[i] = all[N - i + 1]
  <2>1. (n - i) + 1 \in 1..n /\ from + ((n - i) + 1) - 1 = N - i + 1
    BY <1>1, <1>4
  <2>. QED  BY <1>6, <1>7, <2>1
<1>. QED  BY <1>8, <1>9 DEF N

(* The export has a row for every note read.                               *)
LEMMA ExportHas ==
    ASSUME NEW all, all = ReadAll(file), Len(all) \in Nat, NEW j \in 1..Len(all)
    PROVE  LET rows == ExportZip(file).notes
           IN  \E i \in DOMAIN rows : rows[i].note = all[j]
<1>. DEFINE newest == Reverse(all)
            rows == ExportZip(file).notes
            i == Len(all) - j + 1
<1>1. newest = [x \in 1..Len(all) |-> all[(Len(all) - x) + 1]]
  BY DEF Reverse
<1>2. /\ DOMAIN rows = DOMAIN newest
      /\ \A x \in DOMAIN newest : rows[x].note = newest[x]
  BY DEF ExportZip
<1>3. i \in 1..Len(all) /\ (Len(all) - i) + 1 = j
  OBVIOUS
<1>. HIDE DEF rows, newest, i
<1>4. newest[i] = all[j] /\ i \in DOMAIN newest
  BY <1>1, <1>3
<1>. QED  BY <1>2, <1>4 DEF rows

LEMMA NotesStay ==
    ASSUME TypeOK, NotesInv
    PROVE  AcknowledgedStays
<1>. DEFINE ids == {acked[i].note.id : i \in DOMAIN acked}
            C == {i \in DOMAIN acked : ~acked[i].behind}
            clean == Picked(acked, C)
            c == Cardinality(C)
            all == ReadAll(file)
            K == {i \in DOMAIN all : all[i].id \in ids}
            kept == Picked(all, K)
            m == Cardinality(K)
            shown == ListNotes(file)
            rows == ExportZip(file).notes
<1>1. ReadNotes(all)
  BY ReadAllIs
<1>. DEFINE N == Len(all)
<1>. HIDE DEF all
<1>2. /\ N \in Nat /\ DOMAIN all = 1..N
      /\ \A j \in 1..N : all[j].id \in 1..posted
      /\ \A i, j \in 1..N : i < j => all[i].id < all[j].id
      /\ \A k \in DOMAIN acked : ~acked[k].behind => \E j \in 1..N : all[j] = acked[k].note
      /\ \A j \in 1..N, k \in DOMAIN acked :
            all[j].id = acked[k].note.id => ~acked[k].behind /\ all[j] = acked[k].note
  BY <1>1 DEF ReadNotes
<1>. HIDE DEF N
<1>3. Len(acked) \in Nat /\ DOMAIN acked = 1..Len(acked)
  <2>1. acked \in Seq(AckedType)
    BY DEF TypeOK, AckedType
  <2>. QED  BY <2>1
<1>4. /\ \A k \in DOMAIN acked : acked[k].note.id \in 1..posted
      /\ \A k, l \in DOMAIN acked : k < l => acked[k].note.id < acked[l].note.id
  BY DEF NotesInv, AckedInv
<1>5. C \in SUBSET (1..Len(acked)) /\ K \in SUBSET (1..N)
  BY <1>2, <1>3
<1>6. \A k : k \in C <=> k \in DOMAIN acked /\ ~acked[k].behind
  OBVIOUS
<1>7. \A j : j \in K <=> j \in 1..N /\ \E k \in DOMAIN acked : all[j].id = acked[k].note.id
  BY <1>2
<1>. HIDE DEF C, K, ids
<1>8. /\ c \in Nat /\ clean = [j \in 1..c |-> clean[j]] /\ \E g : Leads(g, clean, acked, C)
  BY <1>3, <1>5, PickedIs
<1>9. /\ m \in Nat /\ kept = [j \in 1..m |-> kept[j]] /\ \E h : Leads(h, kept, all, K)
  BY <1>2, <1>5, PickedIs
<1>10. PICK g : Leads(g, clean, acked, C)
  BY <1>8
<1>11. PICK h : Leads(h, kept, all, K)
  BY <1>9
<1>12. /\ \A j \in 1..c : g[j] \in C /\ clean[j] = acked[g[j]]
       /\ \A i, j \in 1..c : i < j => g[i] < g[j]
       /\ \A k \in C : \E j \in 1..c : g[j] = k
  BY <1>10 DEF Leads
<1>13. /\ \A j \in 1..m : h[j] \in K /\ kept[j] = all[h[j]]
       /\ \A i, j \in 1..m : i < j => h[i] < h[j]
       /\ \A k \in K : \E j \in 1..m : h[j] = k
  BY <1>11 DEF Leads
<1>. HIDE DEF clean, kept, c, m
<1>14. kept = [i \in DOMAIN clean |-> clean[i].note]
  <2>. DEFINE a == [j \in 1..c |-> clean[j].note]
              key == [x \in {a[j] : j \in 1..c} \cup {kept[j] : j \in 1..m} |-> x.id]
  <2>1. \A j \in 1..c : a[j] = acked[g[j]].note /\ g[j] \in DOMAIN acked /\ ~acked[g[j]].behind
    BY <1>6, <1>12
  <2>2. /\ \A j \in 1..c : key[a[j]] = a[j].id
        /\ \A j \in 1..m : key[kept[j]] = kept[j].id
    OBVIOUS
  <2>3. DOMAIN a = 1..c
    OBVIOUS
  <2>. HIDE DEF a, key
  <2>4. RisesBy(key, a, c)
    <3>1. \A j \in 1..c : key[a[j]] \in Int
      BY <1>4, <2>1, <2>2
    <3>2. ASSUME NEW i \in 1..c, NEW j \in 1..c, i < j PROVE key[a[i]] < key[a[j]]
      BY <1>4, <1>12, <2>1, <2>2, <3>2
    <3>. QED  BY <3>1, <3>2 DEF RisesBy
  <2>5. RisesBy(key, kept, m)
    <3>1. \A j \in 1..m : h[j] \in 1..N
      BY <1>7, <1>13
    <3>2. \A j \in 1..m : key[kept[j]] \in Int
      BY <1>2, <1>13, <2>2, <3>1
    <3>3. ASSUME NEW i \in 1..m, NEW j \in 1..m, i < j PROVE key[kept[i]] < key[kept[j]]
      BY <1>2, <1>13, <2>2, <3>1, <3>3
    <3>. QED  BY <3>2, <3>3 DEF RisesBy
  <2>6. Among(a, c, kept, m)
    <3>. SUFFICES ASSUME NEW i \in 1..c PROVE \E j \in 1..m : a[i] = kept[j]
      BY DEF Among
    <3>1. PICK x \in 1..N : all[x] = a[i]
      BY <1>2, <2>1
    <3>2. x \in K
      BY <1>7, <2>1, <3>1
    <3>3. PICK j \in 1..m : h[j] = x
      BY <1>13, <3>2
    <3>. QED  BY <1>13, <3>1, <3>3
  <2>7. Among(kept, m, a, c)
    <3>. SUFFICES ASSUME NEW i \in 1..m PROVE \E j \in 1..c : kept[i] = a[j]
      BY DEF Among
    <3>1. h[i] \in 1..N /\ kept[i] = all[h[i]]
      BY <1>7, <1>13
    <3>2. PICK k \in DOMAIN acked : all[h[i]].id = acked[k].note.id
      BY <1>7, <1>13
    <3>3. ~acked[k].behind /\ all[h[i]] = acked[k].note
      BY <1>2, <3>1, <3>2
    <3>4. PICK j \in 1..c : g[j] = k
      BY <1>6, <1>12, <3>3
    <3>. QED  BY <2>1, <3>1, <3>3, <3>4
  <2>8. c = m /\ \A i \in 1..c : a[i] = kept[i]
    BY <1>8, <1>9, <2>4, <2>5, <2>6, <2>7, RisingSame
  <2>9. kept = [j \in 1..c |-> clean[j].note]
    BY <1>9, <2>8 DEF a
  <2>10. DOMAIN clean = 1..c
    BY <1>8
  <2>. QED  BY <2>9, <2>10
<1>15. PICK n \in 0..N :
          /\ DOMAIN shown = 1..n /\ (N > 0 => n > 0)
          /\ \A i \in 1..n : shown[i] = all[N - i + 1]
  BY <1>1, ListIs DEF N, all
<1>. HIDE DEF shown, rows
<1>16. ASSUME clean # <<>>, Last(clean) = Last(acked), Last(acked).note.id = posted
       PROVE  shown[1] = Last(acked).note
  <2>. DEFINE k == Len(acked)
  <2>1. c \in 1..c /\ Last(clean) = clean[c]
    <3>1. c # 0
      BY <1>8, <1>16
    <3>2. Len(clean) = c
      BY <1>8
    <3>. QED  BY <1>8, <3>1, <3>2 DEF Last
  <2>2. g[c] \in DOMAIN acked /\ ~acked[g[c]].behind /\ Last(acked) = acked[g[c]]
    BY <1>6, <1>12, <1>16, <2>1
  <2>3. PICK j \in 1..N : all[j] = Last(acked).note
    BY <1>2, <2>2
  <2>4. all[N].id \in 1..posted /\ all[j].id = posted
    BY <1>2, <1>16, <2>3
  <2>5. posted \in Nat
    BY DEF TypeOK
  <2>6. j = N
    BY <1>2, <2>4, <2>5
  <2>. QED  BY <1>2, <1>15, <2>3, <2>6
<1>17. \A i, j \in DOMAIN shown : i < j => shown[i].id > shown[j].id
  <2>. SUFFICES ASSUME NEW i \in 1..n, NEW j \in 1..n, i < j PROVE shown[i].id > shown[j].id
    BY <1>15
  <2>1. N - j + 1 \in 1..N /\ N - i + 1 \in 1..N /\ N - j + 1 < N - i + 1
    BY <1>2
  <2>2. all[N - j + 1].id < all[N - i + 1].id
    BY <1>2, <2>1
  <2>3. all[N - j + 1].id \in Nat /\ all[N - i + 1].id \in Nat
    BY <1>2, <2>1
  <2>. QED  BY <1>15, <2>2, <2>3
<1>18. ASSUME NEW i \in DOMAIN kept
       PROVE  \E j \in DOMAIN rows : rows[j].note = kept[i]
  <2>1. i \in 1..m
    BY <1>9, <1>18
  <2>2. h[i] \in 1..N /\ kept[i] = all[h[i]]
    BY <1>7, <1>13, <2>1
  <2>. QED  BY <1>2, <2>2, ExportHas DEF rows, all, N
<1>. QED
  BY <1>14, <1>16, <1>17, <1>18 DEF AcknowledgedStays, clean, kept, shown, rows, all, C, K, ids

LEMMA NotesInit == Init => NotesInv
  BY DEF Init, NotesInv, FileInv, AckedInv, LinesInv

(* A note whose posting succeeded is never lost, doubled, changed or moved,
   whatever is cleared, rotated or cut short later (create_note, _append,
   _read_all), but for one written behind another that was cut short.      *)
THEOREM AcknowledgedNotesStay == Spec => []AcknowledgedStays
<1>1. Spec => [](TypeOK /\ NotesInv)
  <2>1. Init => TypeOK /\ NotesInv
    BY TypeInit, NotesInit
  <2>2. TypeOK /\ NotesInv /\ [Next]_vars => (TypeOK /\ NotesInv)'
    BY TypeStep, NotesStep
  <2>. QED  BY <2>1, <2>2, PTL DEF Spec
<1>2. TypeOK /\ NotesInv => AcknowledgedStays
  BY NotesStay
<1>. QED  BY <1>1, <1>2, PTL

-----------------------------------------------------------------------------
(* What is stored with a note, and what its page finds later.              *)

(* The note of a was made of the intervals D and the events E of its minute,
   which are on the disk still or were removed from it.                    *)
MadeOf(a, D, E) ==
    /\ D \subseteq Minute(a.note.at, disk \cup gone)
    /\ E \subseteq Minute(a.note.at, evDisk \cup gone)
    /\ a.found = Cardinality(D) /\ a.note.events = Cardinality(E)
    /\ a.note.summary = Summary(a.note, Stats(a.note.at, RowsOf(line, D, a.note.at), E))
    /\ a.note.low = IF D = {} THEN 0 ELSE Stats(a.note.at, RowsOf(line, D, a.note.at), E).low
FoundInv ==
    \A k \in DOMAIN acked : \E D \in SUBSET (1..now) : \E E \in SUBSET (1..now) : MadeOf(acked[k], D, E)

LEMMA AckedTypes ==
    ASSUME TypeOK
    PROVE  /\ Len(acked) \in Nat /\ DOMAIN acked = 1..Len(acked)
           /\ \A k \in DOMAIN acked : acked[k].note \in Note /\ acked[k].note.at \in Int
                                      /\ acked[k].behind \in BOOLEAN /\ acked[k].found \in Nat
<1>1. acked \in Seq(AckedType)
  BY DEF TypeOK, AckedType
<1>2. \A k \in 1..Len(acked) : acked[k] \in AckedType
  BY <1>1
<1>3. \A k \in 1..Len(acked) : acked[k].note \in Note /\ acked[k].behind \in BOOLEAN /\ acked[k].found \in Nat
  BY <1>2 DEF AckedType
<1>4. \A x \in Note : x.at \in Int
  BY DEF Note
<1>. QED  BY <1>1, <1>3, <1>4

(* Nothing the datalogger does takes from a note what it was made of: the
   line goes on, and what leaves the disk is remembered as gone.           *)
LEMMA MadeOfStays ==
    ASSUME TypeOK, TypeOK', NEW a, a.note.at \in Int, NEW D \in SUBSET (1..now), NEW E,
           MadeOf(a, D, E),
           now <= now', \A t \in 1..now : line'[t] = line[t],
           disk \cup gone \subseteq disk' \cup gone', evDisk \cup gone \subseteq evDisk' \cup gone'
    PROVE  MadeOf(a, D, E)'
<1>. DEFINE at == a.note.at
<1>1. now \in Nat /\ now = Len(line) /\ now' \in Nat /\ now' = Len(line')
  BY DEF TypeOK, now
<1>2. D \in SUBSET (1..Len(line)) /\ D \in SUBSET (1..Len(line'))
  BY <1>1
<1>3. \A t \in Minute(at, D) : line[t] = line'[t]
  BY <1>1 DEF Minute
<1>4. RowsOf(line, D, at) = RowsOf(line', D, at)
  BY <1>1, <1>2, <1>3, RowsSame
<1>5. /\ Minute(at, disk \cup gone) \subseteq Minute(at, disk' \cup gone')
      /\ Minute(at, evDisk \cup gone) \subseteq Minute(at, evDisk' \cup gone')
  BY DEF Minute
<1>. QED  BY <1>4, <1>5 DEF MadeOf, Minute

LEMMA FoundStays ==
    ASSUME TypeOK, TypeOK', FoundInv, acked' = acked,
           now <= now', \A t \in 1..now : line'[t] = line[t],
           disk \cup gone \subseteq disk' \cup gone', evDisk \cup gone \subseteq evDisk' \cup gone'
    PROVE  FoundInv'
<1>. SUFFICES ASSUME NEW k \in DOMAIN acked
              PROVE  \E D \in SUBSET (1..now') : \E E \in SUBSET (1..now') : MadeOf(acked[k], D, E)'
  BY DEF FoundInv
<1>1. acked[k].note.at \in Int
  BY AckedTypes
<1>2. PICK D \in SUBSET (1..now), E \in SUBSET (1..now) : MadeOf(acked[k], D, E)
  BY DEF FoundInv
<1>3. now \in Nat /\ now' \in Nat
  BY DEF TypeOK, now
<1>4. MadeOf(acked[k], D, E)'
  <2>1. PICK a : a = acked[k]
    OBVIOUS
  <2>2. MadeOf(a, D, E)'
    BY <1>1, <1>2, <2>1, MadeOfStays
  <2>. QED  BY <2>1, <2>2
<1>. QED  BY <1>3, <1>4

(* A note just made was made of what its minute has on the disk.           *)
LEMMA JustMade ==
    ASSUME TypeOK, NEW body \in Bodies, Validate(body) # Refused,
           NEW a, a.note = Stored(Validate(body)), a.found = StatsAt(Validate(body).at).count
    PROVE  \E D \in SUBSET (1..now) : \E E \in SUBSET (1..now) : MadeOf(a, D, E)
<1>. DEFINE note == Validate(body)
            at == note.at
            D == Minute(at, disk)
            E == Minute(at, evDisk)
            s == StatsAt(at)
            st == Stats(at, RowsOf(line, D, at), E)
<1>1. /\ now \in Nat /\ disk \in SUBSET (1..Len(line)) /\ evDisk \in SUBSET (1..Len(line))
      /\ Len(line) \in Nat /\ Len(line) = now /\ \A t \in 1..Len(line) : line[t].v \in Nat
  BY LineFacts DEF now
<1>2. at \in Int
  BY <1>1, ValidatedNote
<1>3. s = Stats(at, RowsOf(line, disk, at), E)
  BY StatsAtIs
<1>. HIDE DEF note
<1>4. D \in SUBSET (1..Len(line)) /\ E \in SUBSET (1..Len(line)) /\ Minute(at, D) = D
  BY <1>1 DEF Minute
<1>5. RowsOf(line, D, at) = RowsOf(line, disk, at)
  <2>. HIDE DEF D
  <2>1. Minute(at, D) = Minute(at, disk)
    BY <1>4 DEF D
  <2>. QED  BY <1>1, <1>2, <1>4, <2>1, RowsSame
<1>6. s = st
  BY <1>3, <1>5
<1>7. s.events = E /\ s.count = Cardinality(D)
  <2>1. NumbersOf(Stats(at, RowsOf(line, disk, at), E), line, Minute(at, disk), E)
    BY <1>1, <1>2, StatsAre
  <2>. QED  BY <1>3, <2>1 DEF NumbersOf
<1>8. Cardinality(D) = 0 <=> D = {}
  <2>1. IsFiniteSet(D)
    BY <1>1, <1>2, RowsAre
  <2>. QED  BY <2>1, FS_EmptySet
<1>9. a.note = [id |-> posted + 1, at |-> note.at, kind |-> note.kind,
                tv_count |-> note.tv_count, summary |-> Summary(note, s),
                low |-> IF s.count = 0 THEN 0 ELSE s.low,
                events |-> Cardinality(s.events)]
  BY DEF Stored, note
<1>10. a.found = s.count
  BY DEF note
<1>. HIDE DEF s, D, E, st
<1>11. /\ a.note.at = at /\ a.note.events = Cardinality(E) /\ a.found = Cardinality(D)
       /\ a.note.low = IF D = {} THEN 0 ELSE st.low
  BY <1>6, <1>7, <1>8, <1>9, <1>10
<1>12. a.note.summary = Summary(a.note, st)
  <2>1. a.note.kind = note.kind /\ a.note.tv_count = note.tv_count
        /\ a.note.summary = Summary(note, s)
    BY <1>9
  <2>. QED  BY <1>6, <2>1, SummarySame
<1>13. D \subseteq Minute(at, disk \cup gone) /\ E \subseteq Minute(at, evDisk \cup gone)
  BY DEF D, E, Minute
<1>14. MadeOf(a, D, E)
  BY <1>11, <1>12, <1>13 DEF MadeOf, st
<1>. QED  BY <1>1, <1>4, <1>14

LEMMA FoundStep ==
    ASSUME TypeOK, TypeOK', FoundInv, [Next]_vars
    PROVE  FoundInv'
<1>0. line \in Seq(Levels \cup {Off}) /\ now \in Nat
  BY DEF TypeOK, now
<1>1. ASSUME NEW level \in Levels \cup {Off}, line' = Append(line, level),
             UNCHANGED <<disk, evDisk, gone, noteVars>>
      PROVE  FoundInv'
  <2>1. now <= now' /\ \A t \in 1..now : line'[t] = line[t]
    BY <1>0, <1>1 DEF now
  <2>2. acked' = acked /\ disk' = disk /\ gone' = gone /\ evDisk' = evDisk
    BY <1>1 DEF noteVars
  <2>. QED  BY <2>1, <2>2, FoundStays
<1>2. ASSUME UNCHANGED <<line, acked>>,
             disk \cup gone \subseteq disk' \cup gone', evDisk \cup gone \subseteq evDisk' \cup gone'
      PROVE  FoundInv'
  <2>1. now <= now' /\ \A t \in 1..now : line'[t] = line[t]
    BY <1>0, <1>2 DEF now
  <2>. QED  BY <1>2, <2>1, FoundStays
<1>3. ASSUME NEW level \in Levels, Measure(level) PROVE FoundInv'
  BY <1>1, <1>3 DEF Measure
<1>4. ASSUME Down PROVE FoundInv'
  BY <1>1, <1>4 DEF Down
<1>5. ASSUME FlushChunk PROVE FoundInv'
  BY <1>2, <1>5 DEF FlushChunk, noteVars
<1>6. ASSUME RecordEvent PROVE FoundInv'
  BY <1>2, <1>6 DEF RecordEvent, noteVars
<1>7. ASSUME Rotate PROVE FoundInv'
  BY <1>2, <1>7 DEF Rotate, noteVars
<1>8. ASSUME ClearStorage PROVE FoundInv'
  BY <1>2, <1>8 DEF ClearStorage
<1>9. ASSUME NEW body \in Bodies, CreateFails(body) PROVE FoundInv'
  BY <1>2, <1>9 DEF CreateFails, loggerVars
<1>10. ASSUME UNCHANGED vars PROVE FoundInv'
  BY <1>2, <1>10 DEF vars
<1>11. ASSUME NEW body \in Bodies, CreateNote(body) PROVE FoundInv'
  <2>. DEFINE note == Validate(body)
              ack == [note |-> Stored(note), behind |-> Unended, found |-> StatsAt(note.at).count]
              m == Len(acked)
  <2>1. note # Refused /\ acked' = Append(acked, ack) /\ UNCHANGED <<line, disk, evDisk, gone>>
    BY <1>11 DEF CreateNote, loggerVars
  <2>2. \E D \in SUBSET (1..now) : \E E \in SUBSET (1..now) : MadeOf(ack, D, E)
    <3>1. ack.note = Stored(Validate(body)) /\ ack.found = StatsAt(Validate(body).at).count
      OBVIOUS
    <3>. HIDE DEF ack
    <3>. QED  BY <2>1, <3>1, JustMade
  <2>. HIDE DEF ack, note
  <2>3. now' = now
    BY <2>1 DEF now
  <2>4. /\ m \in Nat /\ DOMAIN acked' = 1..m + 1
        /\ acked'[m + 1] = ack /\ \A k \in 1..m : acked'[k] = acked[k]
    BY <2>1, AckedTypes
  <2>6. ASSUME NEW k \in 1..m + 1
        PROVE  \E D \in SUBSET (1..now) : \E E \in SUBSET (1..now) : MadeOf(acked'[k], D, E)
    <3>1. CASE k = m + 1
      BY <2>2, <2>4, <3>1
    <3>2. CASE k \in 1..m
      BY <2>4, <3>2, AckedTypes DEF FoundInv
    <3>3. k = m + 1 \/ k \in 1..m
      <4>. HIDE DEF m
      <4>. QED  BY <2>4
    <3>. QED  BY <3>1, <3>2, <3>3, Zenon
  <2>7. ASSUME NEW k \in 1..m + 1
        PROVE  \E D \in SUBSET (1..now) : \E E \in SUBSET (1..now) : MadeOf(acked[k], D, E)'
    <3>1. PICK D \in SUBSET (1..now), E \in SUBSET (1..now) : MadeOf(acked'[k], D, E)
      BY <2>6
    <3>2. MadeOf(acked[k], D, E)'
      BY <2>1, <3>1 DEF MadeOf
    <3>. QED  BY <3>2
  <2>. QED  BY <2>3, <2>4, <2>7 DEF FoundInv
<1>. QED  BY <1>3, <1>4, <1>5, <1>6, <1>7, <1>8, <1>9, <1>10, <1>11 DEF Next

(* The page of a note acknowledged on a line of its own shows that note, and
   what is found now.                                                      *)
LEMMA PageIs ==
    ASSUME TypeOK, NotesInv, NEW k \in DOMAIN acked, ~acked[k].behind
    PROVE  LET note == acked[k].note
               page == GetNote(file, note.id)
           IN  /\ page.stats = StatsAt(note.at)
               /\ page.summary = Summary(note, StatsAt(note.at))
<1>. DEFINE note == acked[k].note
            all == ReadAll(file)
            N == Len(all)
            same == {i \in DOMAIN all : all[i].id = note.id}
<1>1. ReadNotes(all)
  BY ReadAllIs
<1>. HIDE DEF all
<1>2. /\ N \in Nat /\ DOMAIN all = 1..N
      /\ \A j \in 1..N : all[j].id \in 1..posted
      /\ \A i, j \in 1..N : i < j => all[i].id < all[j].id
  BY <1>1 DEF ReadNotes
<1>3. PICK j \in 1..N : all[j] = note
  BY <1>1 DEF ReadNotes
<1>. HIDE DEF N
<1>4. ASSUME NEW i \in 1..N, all[i].id = note.id PROVE i = j
  <2>1. all[i].id = all[j].id /\ all[i].id \in Nat
    BY <1>2, <1>3, <1>4
  <2>. QED  BY <1>2, <2>1
<1>5. same = {j}
  BY <1>2, <1>3, <1>4
<1>6. Max(same) = j
  BY <1>2, <1>5 DEF Max
<1>7. all[Max({i \in DOMAIN all : all[i].id = note.id})] = note
  BY <1>3, <1>6
<1>8. /\ GetNote(file, note.id).stats = StatsAt(note.at)
      /\ GetNote(file, note.id).summary = Summary(note, StatsAt(note.at))
  BY <1>7 DEF GetNote, all
<1>. QED  BY <1>8

LEMMA NotesMilder ==
    ASSUME TypeOK, NotesInv, FoundInv
    PROVE  StoredIsMilder
<1>. SUFFICES ASSUME NEW k \in DOMAIN acked, ~acked[k].behind,
                     gone \cap (acked[k].note.at - Window..acked[k].note.at) = {}
              PROVE  LET note == acked[k].note
                         page == GetNote(file, note.id)
                         logged == Cardinality(page.stats.events)
                     IN  /\ note.events <= logged
                         /\ acked[k].found > 0 => page.stats.low <= note.low
                         /\ "events" \in note.summary => "events" \in page.summary
                         /\ page.stats.count = acked[k].found /\ logged = note.events =>
                               /\ page.summary = note.summary
                               /\ note.low = IF acked[k].found = 0 THEN 0 ELSE page.stats.low
  BY DEF StoredIsMilder
<1>. DEFINE note == acked[k].note
            at == note.at
            page == GetNote(file, note.id)
            D2 == Minute(at, disk)
            E2 == Minute(at, evDisk)
            later == Stats(at, RowsOf(line, disk, at), E2)
<1>1. /\ now \in Nat /\ disk \in SUBSET (1..Len(line)) /\ evDisk \in SUBSET (1..Len(line))
      /\ Len(line) \in Nat /\ Len(line) = now /\ \A t \in 1..Len(line) : line[t].v \in Nat
  BY LineFacts DEF now
<1>2. at \in Int
  BY AckedTypes
<1>3. PICK D \in SUBSET (1..now), E \in SUBSET (1..now) : MadeOf(acked[k], D, E)
  BY DEF FoundInv
<1>. DEFINE first == Stats(at, RowsOf(line, D, at), E)
<1>4. /\ D \subseteq Minute(at, disk \cup gone) /\ E \subseteq Minute(at, evDisk \cup gone)
      /\ acked[k].found = Cardinality(D) /\ note.events = Cardinality(E)
      /\ note.summary = Summary(note, first)
      /\ note.low = IF D = {} THEN 0 ELSE first.low
  BY <1>3 DEF MadeOf
<1>5. D \in SUBSET D2 /\ E \in SUBSET E2
  BY <1>4 DEF Minute
<1>6. page.stats = later /\ page.summary = Summary(note, later)
  BY PageIs, StatsAtIs
<1>7. NumbersOf(later, line, D2, E2)
  BY <1>1, <1>2, StatsAre
<1>8. Minute(at, D) = D
  BY <1>4 DEF Minute
<1>9. NumbersOf(first, line, D, E)
  BY <1>1, <1>2, <1>8, StatsAre
<1>10. IsFiniteSet(D2) /\ IsFiniteSet(E2)
  BY <1>1, <1>2, RowsAre
<1>. HIDE DEF note, at, page, D2, E2, later, first
<1>11. /\ IsFiniteSet(D) /\ IsFiniteSet(E)
       /\ Cardinality(E) <= Cardinality(E2)
       /\ Cardinality(D) = Cardinality(D2) => D = D2
       /\ Cardinality(E) = Cardinality(E2) => E = E2
  BY <1>5, <1>10, FS_Subset
<1>12. /\ first.events = E /\ later.events = E2 /\ later.count = Cardinality(D2)
       /\ D # {} => Lowest(first.low, line, D)
       /\ D2 # {} => Lowest(later.low, line, D2)
  BY <1>7, <1>9 DEF NumbersOf
<1>13. Cardinality(D) = 0 <=> D = {}
  BY <1>11, FS_EmptySet
<1>14. Cardinality(D) \in Nat
  BY <1>11, FS_CardinalityType
<1>15. note.events <= Cardinality(page.stats.events)
  BY <1>4, <1>6, <1>11, <1>12
<1>16. ASSUME acked[k].found > 0 PROVE page.stats.low <= note.low
  <2>1. D # {} /\ D2 # {}
    BY <1>4, <1>5, <1>13, <1>14, <1>16
  <2>2. PICK t \in D : first.low = line[t].v
    BY <1>12, <2>1 DEF Lowest
  <2>3. later.low <= line[t].v
    BY <1>5, <1>12, <2>1 DEF Lowest
  <2>. QED  BY <1>4, <1>6, <2>1, <2>2, <2>3
<1>17. ASSUME "events" \in note.summary PROVE "events" \in page.summary
  <2>1. first.events # {}
    BY <1>4, <1>17, SummaryOfEvents
  <2>2. later.events # {}
    BY <1>5, <1>12, <2>1
  <2>. QED  BY <1>6, <2>2, SummaryOfEvents
<1>18. ASSUME page.stats.count = acked[k].found, Cardinality(page.stats.events) = note.events
       PROVE  /\ page.summary = note.summary
              /\ note.low = IF acked[k].found = 0 THEN 0 ELSE page.stats.low
  <2>1. D = D2 /\ E = E2
    BY <1>4, <1>6, <1>11, <1>12, <1>18
  <2>2. RowsOf(line, D, at) = RowsOf(line, disk, at)
    <3>1. Minute(at, D) = Minute(at, disk)
      BY <1>8, <2>1 DEF D2
    <3>2. D \in SUBSET (1..Len(line))
      BY <1>1
    <3>. QED  BY <1>1, <1>2, <3>1, <3>2, RowsSame
  <2>3. first = later
    BY <2>1, <2>2 DEF first, later
  <2>. QED  BY <1>4, <1>6, <1>13, <2>3
<1>. QED  BY <1>15, <1>16, <1>17, <1>18 DEF note, page

LEMMA FoundInit == Init => FoundInv
  BY DEF Init, FoundInv

(* What is stored with a note is no worse than what its page finds later,
   and the same if no more of its minute was found, unless something of that
   minute was removed (create_note, _with_correlation, get_note).          *)
THEOREM StoredNotesMilder == Spec => []StoredIsMilder
<1>. DEFINE Inv == TypeOK /\ NotesInv /\ FoundInv
<1>1. Init => Inv
  BY TypeInit, NotesInit, FoundInit
<1>2. Inv /\ [Next]_vars => Inv'
  BY TypeStep, NotesStep, FoundStep
<1>3. Inv => StoredIsMilder
  BY NotesMilder
<1>. QED  BY <1>1, <1>2, <1>3, PTL DEF Spec

-----------------------------------------------------------------------------
(* Sorting.                                                                *)

(* s has n elements, integers.                                             *)
IntSeq(s, n) == n \in Nat /\ s = [i \in 1..n |-> s[i]] /\ \A i \in 1..n : s[i] \in Int

(* p leads from the places of the rising r to those of s, one to one.      *)
Orders(p, r, s, n) ==
    /\ p \in [1..n -> 1..n]
    /\ \A i, j \in 1..n : p[i] = p[j] => i = j
    /\ \A i \in 1..n : \E j \in 1..n : p[j] = i
    /\ \A j \in 1..n : r[j] = s[p[j]]
    /\ \A i, j \in 1..n : i <= j => r[i] <= r[j]

(* What Sorted returns: the elements of s in rising order.                 *)
LEMMA SortedIs ==
    ASSUME NEW n \in Nat, NEW s, IntSeq(s, n)
    PROVE  /\ Sorted(s) = [j \in 1..n |-> Sorted(s)[j]]
           /\ \E p : Orders(p, Sorted(s), s, n)
<1>. DEFINE UpTo(i) == {k \in 1..n : s[k] < s[i] \/ (s[k] = s[i] /\ k <= i)}
            R == [i \in 1..n |-> Cardinality(UpTo(i))]
            p == [j \in 1..n |-> CHOOSE i \in 1..n : Cardinality(UpTo(i)) = j]
            Behind(i, j) == s[i] < s[j] \/ (s[i] = s[j] /\ i < j)
<1>1. /\ DOMAIN s = 1..n /\ Len(s) = n /\ \A i \in 1..n : s[i] \in Int
  BY DEF IntSeq
<1>2. Sorted(s) = [j \in 1..n |-> s[p[j]]]
  BY <1>1 DEF Sorted
<1>3. IsFiniteSet(1..n) /\ Cardinality(1..n) = n
  BY FS_Interval
<1>4. ASSUME NEW i \in 1..n
      PROVE  IsFiniteSet(UpTo(i)) /\ Cardinality(UpTo(i)) \in 1..n
  <2>1. UpTo(i) \in SUBSET (1..n) /\ i \in UpTo(i)
    OBVIOUS
  <2>2. IsFiniteSet(UpTo(i)) /\ Cardinality(UpTo(i)) <= n
    BY <1>3, <2>1, FS_Subset
  <2>3. Cardinality(UpTo(i)) \in Nat /\ Cardinality(UpTo(i)) # 0
    BY <2>1, <2>2, FS_CardinalityType, FS_EmptySet
  <2>. QED  BY <2>2, <2>3
<1>5. ASSUME NEW i \in 1..n, NEW j \in 1..n, Behind(i, j)
      PROVE  Cardinality(UpTo(i)) < Cardinality(UpTo(j))
  <2>1. UpTo(i) \in SUBSET UpTo(j)
    <3>1. \A k \in 1..n : s[k] < s[i] \/ (s[k] = s[i] /\ k <= i) => s[k] < s[j] \/ (s[k] = s[j] /\ k <= j)
      BY <1>1, <1>5
    <3>. QED  BY <3>1
  <2>2. j \in UpTo(j) /\ j \notin UpTo(i)
    BY <1>1, <1>5
  <2>3. IsFiniteSet(UpTo(j))
    BY <1>4
  <2>4. /\ Cardinality(UpTo(i)) <= Cardinality(UpTo(j))
        /\ Cardinality(UpTo(i)) # Cardinality(UpTo(j))
    BY <2>1, <2>2, <2>3, FS_Subset
  <2>5. Cardinality(UpTo(i)) \in Nat /\ Cardinality(UpTo(j)) \in Nat
    BY <1>4
  <2>. QED  BY <2>4, <2>5
<1>6. \A i \in 1..n : R[i] = Cardinality(UpTo(i)) /\ R[i] \in 1..n
  BY <1>4
<1>7. \A i, j \in 1..n : i = j \/ Behind(i, j) \/ Behind(j, i)
  BY <1>1
<1>8. R \in [1..n -> 1..n]
  BY <1>4
<1>12. \A i \in 1..n : p[i] = CHOOSE k \in 1..n : R[k] = i
  OBVIOUS
<1>13. p = [j \in 1..n |-> p[j]]
  <2>. HIDE DEF UpTo
  <2>. QED  OBVIOUS
<1>14. \A i, j \in 1..n : Behind(i, j) => R[i] < R[j]
  BY <1>5, <1>6
<1>15. \A i, j \in 1..n : ~Behind(i, j) => s[j] <= s[i]
  BY <1>1
<1>. HIDE DEF R, p, UpTo, Behind
<1>9. R \in Injection(1..n, 1..n)
  <2>1. \A i, j \in 1..n : R[i] = R[j] => i = j
    BY <1>6, <1>7, <1>14
  <2>. QED  BY <1>8, <2>1 DEF Injection, IsInjective
<1>10. R \in Surjection(1..n, 1..n)
  BY <1>9, <1>3, FS_Injection
<1>11. \A m \in 1..n : \E i \in 1..n : R[i] = m
  BY <1>10 DEF Surjection
<1>16. \A j \in 1..n : p[j] \in 1..n /\ R[p[j]] = j
  BY <1>11, <1>12
<1>17. p \in [1..n -> 1..n] /\ \A i, j \in 1..n : p[i] = p[j] => i = j
  BY <1>13, <1>16
<1>18. \A i \in 1..n : \E j \in 1..n : p[j] = i
  <2>. TAKE i \in 1..n
  <2>1. R[i] \in 1..n
    BY <1>6
  <2>2. R[p[R[i]]] = R[i] /\ p[R[i]] \in 1..n
    BY <1>16, <2>1
  <2>3. p[R[i]] = i
    BY <1>9, <2>2 DEF Injection, IsInjective
  <2>. QED  BY <2>1, <2>3
<1>19. \A i, j \in 1..n : i <= j => s[p[i]] <= s[p[j]]
  <2>. SUFFICES ASSUME NEW i \in 1..n, NEW j \in 1..n, i <= j PROVE s[p[i]] <= s[p[j]]
    OBVIOUS
  <2>1. ~(R[p[j]] < R[p[i]])
    BY <1>16
  <2>2. ~Behind(p[j], p[i])
    BY <1>14, <1>16, <2>1
  <2>. QED  BY <1>15, <1>16, <2>2
<1>20. \A j \in 1..n : Sorted(s)[j] = s[p[j]]
  BY <1>2
<1>21. Orders(p, Sorted(s), s, n)
  BY <1>17, <1>18, <1>19, <1>20 DEF Orders
<1>22. Sorted(s) = [j \in 1..n |-> Sorted(s)[j]]
  BY <1>2
<1>. QED  BY <1>21, <1>22

(* So of finitely many integers one is the greatest.                       *)
LEMMA GreatestElement ==
    ASSUME NEW n \in Nat \ {0}, NEW s, IntSeq(s, n)
    PROVE  \E i \in 1..n : \A j \in 1..n : s[j] <= s[i]
<1>. DEFINE r == Sorted(s)
<1>1. PICK p : Orders(p, r, s, n)
  BY SortedIs
<1>. HIDE DEF r
<1>4. n \in 1..n
  OBVIOUS
<1>2. p[n] \in 1..n /\ r[n] = s[p[n]]
  BY <1>1, <1>4 DEF Orders
<1>3. ASSUME NEW j \in 1..n PROVE s[j] <= s[p[n]]
  <2>1. PICK k \in 1..n : p[k] = j
    BY <1>1 DEF Orders
  <2>2. r[k] <= r[n] /\ r[k] = s[j]
    <3>1. k <= n
      OBVIOUS
    <3>. QED  BY <1>1, <1>4, <2>1, <3>1 DEF Orders
  <2>. QED  BY <1>2, <2>2
<1>. QED  BY <1>2, <1>3

(* The largest of the elements.                                            *)
LEMMA MaxIs ==
    ASSUME NEW n \in Nat \ {0}, NEW s, IntSeq(s, n), NEW T, T = {s[i] : i \in 1..n}
    PROVE  Max(T) \in T /\ \A x \in T : x <= Max(T)
<1>1. PICK i \in 1..n : \A j \in 1..n : s[j] <= s[i]
  BY GreatestElement
<1>2. \E x \in T : \A y \in T : x >= y
  <2>1. \A j \in 1..n : s[i] >= s[j]
    BY <1>1 DEF IntSeq
  <2>. QED  BY <2>1
<1>3. Max(T) \in T /\ \A y \in T : Max(T) >= y
  BY <1>2 DEF Max
<1>4. T \subseteq Int
  BY DEF IntSeq
<1>. QED  BY <1>3, <1>4

(* More than half of the elements are u: so is what is in the middle.      *)
LEMMA MiddleIs ==
    ASSUME NEW n \in Nat \ {0}, NEW s, IntSeq(s, n), NEW u \in Int,
           NEW k \in 1..n, n <= 2 * k, 2 * k <= n + 2,
           2 * Cardinality({i \in 1..n : s[i] = u}) > n
    PROVE  Sorted(s)[k] = u
<1>. DEFINE r == Sorted(s)
            E == {i \in 1..n : s[i] = u}
            F == {j \in 1..n : r[j] = u}
<1>1. PICK p : Orders(p, r, s, n)
  BY SortedIs
<1>0. \A j \in 1..n : r[j] \in Int
  <2>1. \A j \in 1..n : r[j] = s[p[j]] /\ p[j] \in 1..n
    BY <1>1 DEF Orders
  <2>. QED  BY <2>1 DEF IntSeq
<1>. HIDE DEF r
<1>2. /\ IsFiniteSet(E) /\ IsFiniteSet(F)
      /\ Cardinality(E) \in Nat /\ Cardinality(F) \in Nat
  <2>1. IsFiniteSet(1..n) /\ E \in SUBSET (1..n) /\ F \in SUBSET (1..n)
    BY FS_Interval
  <2>. QED  BY <2>1, FS_Subset, FS_CardinalityType
<1>3. Cardinality(E) <= Cardinality(F)
  <2>. DEFINE h == [j \in F |-> p[j]]
  <2>1. h \in [F -> E]
    BY <1>1 DEF Orders
  <2>2. \A i \in E : \E j \in F : h[j] = i
    <3>. TAKE i \in E
    <3>1. PICK j \in 1..n : p[j] = i
      BY <1>1 DEF Orders
    <3>2. r[j] = s[i]
      BY <1>1, <3>1 DEF Orders
    <3>. QED  BY <3>1, <3>2
  <2>3. h \in Surjection(F, E)
    BY <2>1, <2>2 DEF Surjection
  <2>. HIDE DEF E, F, h
  <2>. QED  BY <1>2, <2>3, FS_Surjection
<1>4. ASSUME r[k] < u PROVE FALSE
  <2>1. F \in SUBSET (k + 1..n)
    <3>. SUFFICES ASSUME NEW j \in 1..n, r[j] = u PROVE j >= k + 1
      OBVIOUS
    <3>1. j <= k => r[j] <= r[k]
      BY <1>1 DEF Orders
    <3>. QED  BY <1>4, <1>0, <3>1
  <2>2. IsFiniteSet(k + 1..n) /\ Cardinality(k + 1..n) = n - k
    <3>1. k + 1 \in Int /\ n \in Int /\ k + 1 <= n + 1 /\ n - (k + 1) + 1 = n - k
      OBVIOUS
    <3>2. Cardinality(k + 1..n) = IF k + 1 > n THEN 0 ELSE n - (k + 1) + 1
      BY <3>1, FS_Interval
    <3>. QED  BY <3>1, <3>2, FS_Interval
  <2>3. Cardinality(F) <= n - k
    <3>. HIDE DEF F
    <3>. QED  BY <2>1, <2>2, FS_Subset
  <2>. HIDE DEF E, F
  <2>. QED  BY <1>2, <1>3, <2>3 DEF E
<1>5. ASSUME u < r[k] PROVE FALSE
  <2>1. F \in SUBSET (1..k - 1)
    <3>. SUFFICES ASSUME NEW j \in 1..n, r[j] = u PROVE j <= k - 1
      OBVIOUS
    <3>1. k <= j => r[k] <= r[j]
      BY <1>1 DEF Orders
    <3>. QED  BY <1>5, <1>0, <3>1
  <2>2. IsFiniteSet(1..k - 1) /\ Cardinality(1..k - 1) = k - 1
    <3>1. k - 1 \in Int /\ k - 1 - 1 + 1 = k - 1 /\ (1 > k - 1 => k - 1 = 0)
      OBVIOUS
    <3>2. Cardinality(1..k - 1) = IF 1 > k - 1 THEN 0 ELSE k - 1 - 1 + 1
      BY <3>1, FS_Interval
    <3>. QED  BY <3>1, <3>2, FS_Interval
  <2>3. Cardinality(F) <= k - 1
    <3>. DEFINE S == 1..k - 1
    <3>1. F \in SUBSET S /\ IsFiniteSet(S) /\ Cardinality(S) = k - 1
      BY <2>1, <2>2
    <3>. HIDE DEF F, S
    <3>2. Cardinality(F) <= Cardinality(S)
      BY <3>1, FS_Subset
    <3>. QED  BY <3>1, <3>2
  <2>. HIDE DEF E, F
  <2>. QED  BY <1>2, <1>3, <2>3 DEF E
<1>. QED  BY <1>0, <1>4, <1>5 DEF r

-----------------------------------------------------------------------------
(* A minute of which every interval is stored.                             *)

(* r holds the n intervals from first on.                                  *)
Filled(r, l, first, n) ==
    /\ n \in Nat \ {0} /\ first \in Nat \ {0}
    /\ r = [j \in 1..n |-> RowOf(l, first + j - 1)]

(* Then the rows of the minute are its intervals, without a hole.          *)
LEMMA FilledMinute ==
    ASSUME NEW l, Len(l) \in Nat, NEW d \in SUBSET (1..Len(l)), NEW at \in 1..Len(l),
           {t \in at - Window..at : t > 0} \subseteq d
    PROVE  \E first \in 1..at :
              /\ {t \in at - Window..at : t > 0} = first..at
              /\ Minute(at, d) = first..at
              /\ Filled(RowsOf(l, d, at), l, first, at - first + 1)
<1>. DEFINE first == IF at - Window >= 1 THEN at - Window ELSE 1
            n == at - first + 1
            r == RowsOf(l, d, at)
<1>1. /\ at \in Nat \ {0} /\ Window \in Nat \ {0} /\ first \in Nat \ {0} /\ first \in 1..at
      /\ n \in Nat \ {0}
  BY StatsAssumption
<1>2. {t \in at - Window..at : t > 0} = first..at
  BY <1>1
<1>3. Minute(at, d) = first..at
  <2>1. \A t \in d : t \in Int /\ t > 0
    OBVIOUS
  <2>2. \A t : t \in Minute(at, d) <=> t \in d /\ t \in at - Window..at
    BY DEF Minute
  <2>3. \A t : t \in Minute(at, d) <=> t \in first..at
    BY <1>2, <2>1, <2>2
  <2>. QED  BY <2>3
<1>4. Cardinality(first..at) = n
  <2>. HIDE DEF first
  <2>1. first \in Int /\ at \in Int /\ ~(first > at)
    BY <1>1
  <2>. QED  BY <2>1, FS_Interval
<1>5. RowsIn(r, l, first..at)
  <2>1. at \in Int
    BY <1>1
  <2>2. RowsIn(RowsOf(l, d, at), l, Minute(at, d))
    BY <2>1, RowsAre
  <2>. QED  BY <1>3, <2>2
<1>. DEFINE a == [j \in 1..n |-> r[j].t]
            b == [j \in 1..n |-> first + j - 1]
            key == [x \in Int |-> x]
<1>6. /\ r = [j \in 1..n |-> r[j]]
      /\ \A j \in 1..n : r[j].t \in first..at /\ r[j] = RowOf(l, r[j].t)
      /\ \A i, j \in 1..n : i < j => r[i].t < r[j].t
      /\ \A t \in first..at : \E j \in 1..n : r[j].t = t
  <2>. HIDE DEF first, n, r
  <2>. QED  BY <1>4, <1>5 DEF RowsIn
<1>. HIDE DEF first, r
<1>7. \A x \in Int : key[x] = x
  OBVIOUS
<1>8. /\ \A j \in 1..n : a[j] = r[j].t /\ a[j] \in Int /\ a[j] \in first..at
      /\ \A j \in 1..n : b[j] = first + j - 1 /\ b[j] \in Int /\ b[j] \in first..at
  BY <1>1, <1>6
<1>. HIDE DEF key, a, b
<1>9. RisesBy(key, a, n)
  BY <1>6, <1>7, <1>8 DEF RisesBy
<1>10. RisesBy(key, b, n)
  <2>1. \A i, j \in 1..n : i < j => b[i] < b[j]
    BY <1>1, <1>8
  <2>. QED  BY <1>7, <1>8, <2>1 DEF RisesBy
<1>11. Among(a, n, b, n)
  <2>. SUFFICES ASSUME NEW i \in 1..n PROVE \E j \in 1..n : a[i] = b[j]
    BY DEF Among
  <2>. DEFINE j == a[i] - first + 1
  <2>1. j \in 1..n /\ first + j - 1 = a[i]
    BY <1>1, <1>8
  <2>. HIDE DEF j
  <2>. QED  BY <1>8, <2>1
<1>12. Among(b, n, a, n)
  <2>. SUFFICES ASSUME NEW i \in 1..n PROVE \E j \in 1..n : b[i] = a[j]
    BY DEF Among
  <2>. QED  BY <1>6, <1>8
<1>13. \A j \in 1..n : a[j] = b[j]
  <2>. HIDE DEF n
  <2>. QED  BY <1>1, <1>9, <1>10, <1>11, <1>12, RisingSame
<1>14. \A j \in 1..n : r[j] = RowOf(l, first + j - 1)
  BY <1>6, <1>8, <1>13
<1>15. r = [j \in 1..n |-> RowOf(l, first + j - 1)]
  <2>. HIDE DEF n
  <2>. QED  BY <1>6, <1>14
<1>. QED  BY <1>1, <1>2, <1>3, <1>15 DEF Filled, r

(* What such rows are.                                                     *)
LEMMA FilledIs ==
    ASSUME NEW l, NEW first, NEW n, NEW r, Filled(r, l, first, n)
    PROVE  /\ n \in Nat \ {0} /\ first \in Nat \ {0}
           /\ r = [j \in 1..n |-> r[j]] /\ DOMAIN r = 1..n /\ Len(r) = n /\ r # <<>>
           /\ \A j \in 1..n : /\ r[j].t = first + j - 1 /\ r[j].v = l[first + j - 1].v
                              /\ r[j].lo = l[first + j - 1].lo
<1>1. n \in Nat \ {0} /\ first \in Nat \ {0} /\ r = [j \in 1..n |-> RowOf(l, first + j - 1)]
  BY DEF Filled
<1>2. \A j \in 1..n : r[j] = RowOf(l, first + j - 1)
  BY <1>1
<1>3. r = [j \in 1..n |-> r[j]] /\ DOMAIN r = 1..n /\ Len(r) = n /\ r # <<>>
  BY <1>1
<1>. QED  BY <1>1, <1>2, <1>3 DEF RowOf

(* The length taken for an interval is positive.                           *)
LEMMA BucketIs ==
    ASSUME NEW n \in Nat \ {0}, NEW r, r = [j \in 1..n |-> r[j]],
           \A j \in 1..n : r[j].t \in Int
    PROVE  BucketOf(r) \in Nat \ {0}
<1>. DEFINE steps == [i \in 1..n - 1 |-> r[i + 1].t - r[i].t]
            P == {i \in 1..n - 1 : steps[i] > 0}
            deltas == Picked(steps, P)
            m == Cardinality(P)
<1>1. Len(r) = n
  OBVIOUS
<1>2. DOMAIN steps = 1..n - 1 /\ \A i \in 1..n - 1 : steps[i] \in Int
  OBVIOUS
<1>3. BucketOf(r) = IF deltas = <<>> THEN DefaultBucket ELSE Sorted(deltas)[Len(deltas) \div 2 + 1]
  BY <1>1, <1>2 DEF BucketOf
<1>4. n - 1 \in Nat /\ P \in SUBSET (1..n - 1)
  OBVIOUS
<1>5. /\ m \in Nat /\ deltas = [j \in 1..m |-> deltas[j]]
      /\ \E g : Leads(g, deltas, steps, P)
  <2>. HIDE DEF steps, P
  <2>. QED  BY <1>4, PickedIs
<1>6. PICK g : Leads(g, deltas, steps, P)
  BY <1>5
<1>7. \A j \in 1..m : deltas[j] \in Nat \ {0}
  <2>1. \A j \in 1..m : g[j] \in P /\ deltas[j] = steps[g[j]]
    BY <1>6 DEF Leads
  <2>2. \A i \in P : steps[i] \in Nat \ {0}
    BY <1>2
  <2>. QED  BY <2>1, <2>2
<1>. HIDE DEF deltas, m, steps, P
<1>8. CASE deltas = <<>>
  BY <1>3, <1>8, StatsAssumption
<1>9. CASE deltas # <<>>
  <2>1. Len(deltas) = m /\ m # 0
    BY <1>5, <1>9
  <2>. DEFINE k == m \div 2 + 1
  <2>2. k \in 1..m
    BY <1>5, <2>1
  <2>3. IntSeq(deltas, m)
    BY <1>5, <1>7 DEF IntSeq
  <2>4. PICK p : Orders(p, Sorted(deltas), deltas, m)
    BY <1>5, <2>3, SortedIs
  <2>. HIDE DEF k
  <2>5. p[k] \in 1..m /\ Sorted(deltas)[k] = deltas[p[k]]
    BY <2>2, <2>4 DEF Orders
  <2>. QED  BY <1>3, <1>7, <1>9, <2>1, <2>5 DEF k
<1>. QED  BY <1>8, <1>9

(* The line was at its usual level for more than half of the minute: so is
   the median.                                                             *)
LEMMA MedianIs ==
    ASSUME NEW l, NEW first, NEW n, NEW r, Filled(r, l, first, n), NEW u \in Int,
           \A j \in 1..n : l[first + j - 1].v \in Int,
           2 * Cardinality({t \in first..first + n - 1 : l[t].v = u}) > n
    PROVE  Median2(r) = 2 * u
<1>. DEFINE s == ValuesOf(r)
            E == {i \in 1..n : s[i] = u}
            H == {t \in first..first + n - 1 : l[t].v = u}
<1>1. /\ n \in Nat \ {0} /\ first \in Nat \ {0} /\ DOMAIN r = 1..n
      /\ \A j \in 1..n : r[j].v = l[first + j - 1].v
  BY FilledIs
<1>2. s = [i \in 1..n |-> r[i].v]
  BY <1>1 DEF ValuesOf
<1>3. s = [i \in 1..n |-> s[i]] /\ \A i \in 1..n : s[i] = l[first + i - 1].v
  BY <1>1, <1>2
<1>. HIDE DEF s
<1>4. IntSeq(s, n)
  BY <1>1, <1>3 DEF IntSeq
<1>5. IsFiniteSet(E) /\ Cardinality(E) \in Nat
  <2>1. IsFiniteSet(1..n) /\ E \in SUBSET (1..n)
    BY <1>1, FS_Interval
  <2>. QED  BY <2>1, FS_Subset, FS_CardinalityType
<1>6. Cardinality(H) <= Cardinality(E) /\ Cardinality(H) \in Nat
  <2>. DEFINE h == [i \in E |-> first + i - 1]
  <2>1. h \in [E -> H]
    BY <1>1, <1>3
  <2>2. \A t \in H : \E i \in E : h[i] = t
    <3>. TAKE t \in H
    <3>. DEFINE i == t - first + 1
    <3>1. i \in 1..n /\ first + i - 1 = t
      BY <1>1
    <3>2. s[i] = l[first + i - 1].v
      BY <1>3, <3>1
    <3>. QED  BY <3>1, <3>2
  <2>3. h \in Surjection(E, H)
    BY <2>1, <2>2 DEF Surjection
  <2>. HIDE DEF E, H, h
  <2>4. IsFiniteSet(H) /\ Cardinality(H) <= Cardinality(E)
    BY <1>5, <2>3, FS_Surjection
  <2>. QED  BY <2>4, FS_CardinalityType
<1>7. 2 * Cardinality(E) > n
  <2>1. 2 * Cardinality(H) > n
    OBVIOUS
  <2>. HIDE DEF E, H
  <2>. QED  BY <1>1, <1>5, <1>6, <2>1
<1>8. \A k \in 1..n : n <= 2 * k /\ 2 * k <= n + 2 => Sorted(s)[k] = u
  BY <1>1, <1>4, <1>7, MiddleIs
<1>9. Len(Sorted(s)) = n
  <2>1. Sorted(s) = [j \in 1..n |-> Sorted(s)[j]]
    BY <1>1, <1>4, SortedIs
  <2>. QED  BY <1>1, <2>1
<1>10. Median2(r) = IF n % 2 = 1 THEN 2 * Sorted(s)[n \div 2 + 1]
                    ELSE Sorted(s)[n \div 2] + Sorted(s)[n \div 2 + 1]
  BY <1>9 DEF Median2, s
<1>11. n \div 2 + 1 \in 1..n /\ n <= 2 * (n \div 2 + 1) /\ 2 * (n \div 2 + 1) <= n + 2
  BY <1>1
<1>12. n % 2 # 1 => n \div 2 \in 1..n /\ n <= 2 * (n \div 2) /\ 2 * (n \div 2) <= n + 2
  BY <1>1
<1>13. Sorted(s)[n \div 2 + 1] = u
  BY <1>8, <1>11
<1>14. n % 2 # 1 => Sorted(s)[n \div 2] = u
  BY <1>8, <1>12
<1>. QED  BY <1>10, <1>13, <1>14

(* Of a bounded set of naturals that is not empty one is the greatest.     *)
LEMMA GreatestNatural ==
    ASSUME NEW L \in Nat, NEW T, T \subseteq 0..L, T # {}
    PROVE  \E x \in T : \A y \in T : y <= x
<1>. DEFINE U == {L - x : x \in T}
<1>1. \A x \in T : x \in Nat /\ L - x \in Nat
  <2>. SUFFICES ASSUME NEW x \in T PROVE x \in Nat /\ L - x \in Nat
    OBVIOUS
  <2>1. x \in 0..L
    OBVIOUS
  <2>. QED  BY <2>1
<1>2. U \subseteq Nat /\ U # {}
  BY <1>1
<1>3. PICK u \in U : \A y \in U : u <= y
  <2>. HIDE DEF U
  <2>. QED  BY <1>2, LeastNatural
<1>4. PICK x \in T : u = L - x
  OBVIOUS
<1>5. \A y \in T : L - x <= L - y
  BY <1>3, <1>4
<1>. QED  BY <1>1, <1>5

(* Within a minute without holes the longest run is 0 if no row is flagged,
   and no shorter than any stretch of flagged rows.                        *)
LEMMA RunIs ==
    ASSUME NEW l, NEW first, NEW n, NEW r, Filled(r, l, first, n),
           NEW F \in SUBSET (1..n), NEW bucket \in Nat \ {0}
    PROVE  /\ LongestRun(r, F, bucket) = 0 <=> F = {}
           /\ \A i, j \in 1..n : i <= j /\ i..j \subseteq F => LongestRun(r, F, bucket) >= j - i + 1
<1>. DEFINE T == {0} \cup {r[x[2]].t - r[x[1]].t + bucket : x \in Runs(r, F, bucket)}
<1>1. n \in Nat \ {0} /\ first \in Nat /\ \A j \in 1..n : r[j].t = first + j - 1
  BY FilledIs
<1>2. \A x \in Runs(r, F, bucket) :
         /\ x[1] \in F /\ x[2] \in F
         /\ r[x[2]].t - r[x[1]].t + bucket \in 1..n + bucket
  <2>. TAKE x \in Runs(r, F, bucket)
  <2>1. x[1] \in F /\ x[2] \in F /\ x[1] <= x[2]
    BY DEF Runs
  <2>2. r[x[1]].t = first + x[1] - 1 /\ r[x[2]].t = first + x[2] - 1 /\ x[1] \in 1..n /\ x[2] \in 1..n
    BY <1>1, <2>1
  <2>. QED  BY <1>1, <2>1, <2>2
<1>3. T \subseteq 0..n + bucket /\ T # {} /\ n + bucket \in Nat
  BY <1>1, <1>2
<1>4. Max(T) \in T /\ \A y \in T : y <= Max(T)
  <2>1. \E x \in T : \A y \in T : y <= x
    <3>. HIDE DEF T
    <3>. QED  BY <1>3, GreatestNatural
  <2>2. \A y \in T : y \in Int
    BY <1>3
  <2>3. \E x \in T : \A y \in T : x >= y
    <3>. HIDE DEF T
    <3>. QED  BY <2>1, <2>2
  <2>4. Max(T) \in T /\ \A y \in T : Max(T) >= y
    <3>. HIDE DEF T
    <3>. QED  BY <2>3 DEF Max
  <2>. HIDE DEF T
  <2>. QED  BY <2>2, <2>4
<1>10. Max(T) \in Int
  <2>1. \A x \in 0..n + bucket : x \in Int
    OBVIOUS
  <2>. HIDE DEF T
  <2>. QED  BY <1>3, <1>4, <2>1
<1>5. LongestRun(r, F, bucket) = Max(T)
  BY DEF LongestRun
<1>6. ASSUME NEW i \in 1..n, NEW j \in 1..n, i <= j, i..j \subseteq F
      PROVE  j - i + bucket \in T
  <2>1. i \in F /\ j \in F
    BY <1>6
  <2>2. \A k \in i..j - 1 : r[k + 1].t - r[k].t <= 2 * bucket
    <3>. TAKE k \in i..j - 1
    <3>1. k \in 1..n /\ k + 1 \in 1..n
      BY <1>1
    <3>2. r[k].t = first + k - 1 /\ r[k + 1].t = first + (k + 1) - 1
      BY <1>1, <3>1
    <3>. QED  BY <1>1, <3>1, <3>2
  <2>3. <<i, j>> \in Runs(r, F, bucket)
    BY <1>6, <2>1, <2>2 DEF Runs
  <2>4. r[j].t - r[i].t + bucket = j - i + bucket
    BY <1>1
  <2>5. r[<<i, j>>[2]].t - r[<<i, j>>[1]].t + bucket = j - i + bucket
    BY <2>4
  <2>. QED  BY <2>3, <2>5
<1>7. ASSUME F = {} PROVE Max(T) = 0
  <2>1. T = {0}
    BY <1>2, <1>7
  <2>. QED  BY <1>4, <2>1
<1>8. ASSUME F # {} PROVE Max(T) # 0
  <2>1. PICK i \in F : TRUE
    BY <1>8
  <2>2. i \in 1..n /\ i <= i /\ i..i \subseteq F
    OBVIOUS
  <2>3. i - i + bucket \in T
    BY <1>6, <2>2
  <2>4. i - i + bucket = bucket
    BY <2>2
  <2>5. bucket <= Max(T)
    <3>. HIDE DEF T
    <3>. QED  BY <1>4, <2>3, <2>4
  <2>. HIDE DEF T
  <2>. QED  BY <1>10, <2>5
<1>9. ASSUME NEW i \in 1..n, NEW j \in 1..n, i <= j, i..j \subseteq F
      PROVE  Max(T) >= j - i + 1
  <2>1. j - i + bucket \in T
    BY <1>6, <1>9
  <2>2. j - i + bucket <= Max(T)
    <3>. HIDE DEF T
    <3>. QED  BY <1>4, <2>1
  <2>. HIDE DEF T
  <2>. QED  BY <1>10, <2>2
<1>. HIDE DEF T
<1>. QED  BY <1>5, <1>7, <1>8, <1>9

(* When the note of a television says that the line did not move.          *)
LEMMA DidNotMove ==
    ASSUME NEW s, s.count # 0
    PROVE  "did not move" \in Summary([kind |-> "tv", tv_count |-> "one"], s) <=> s.lowRun = 0
<1>. DEFINE note == [kind |-> "tv", tv_count |-> "one"]
<1>1. note.kind = "tv" /\ note.tv_count = "one"
  OBVIOUS
<1>2. \A when : "did not move" \in Say("did not move", when) <=> when
  BY DEF Say
<1>3. \A other, when : other # "did not move" => "did not move" \notin Say(other, when)
  BY DEF Say
<1>4. "did not move" \notin {"location"} /\ "did not move" \notin {"lowest", "highest"}
  OBVIOUS
<1>. HIDE DEF note
<1>5. /\ "events" # "did not move" /\ "no event" # "did not move" /\ "partly covered" # "did not move"
      /\ "reached the sag line" # "did not move" /\ "stayed above the sag line" # "did not move"
      /\ "like a dropout" # "did not move" /\ "slow change" # "did not move"
      /\ "longer than a blank" # "did not move" /\ "shorter than a blank" # "did not move"
      /\ "mute may be held" # "did not move" /\ "unresolved" # "did not move"
      /\ "away from the mains" # "did not move" /\ "notch" # "did not move"
      /\ "can dim lamps" # "did not move" /\ "barely moved" # "did not move"
      /\ "picture was gone" # "did not move"
  OBVIOUS
<1>6. "did not move" \in Summary(note, s) <=>
         "did not move" \in Say("did not move", s.lowRun = 0 /\ note.kind # "lights")
  BY <1>3, <1>4, <1>5 DEF Summary
<1>. QED  BY <1>1, <1>2, <1>6 DEF note

(* The least level, as a minimum.                                          *)
LEMMA LowestIsMin ==
    ASSUME NEW low, NEW l, NEW W, Lowest(low, l, W), \A t \in W : l[t].v \in Nat
    PROVE  low = Min({l[t].v : t \in W})
<1>. DEFINE V == {l[t].v : t \in W}
<1>1. low \in V /\ \A y \in V : low <= y
  BY DEF Lowest
<1>2. V \subseteq Nat
  OBVIOUS
<1>. HIDE DEF V
<1>3. Min(V) \in V /\ \A y \in V : Min(V) <= y
  BY <1>1 DEF Min
<1>4. low = Min(V)
  <2>1. low \in Nat /\ Min(V) \in Nat /\ low <= Min(V) /\ Min(V) <= low
    BY <1>1, <1>2, <1>3
  <2>2. \A x, y \in Nat : x <= y /\ y <= x => x = y
    OBVIOUS
  <2>. QED  BY <2>1, <2>2
<1>. QED  BY <1>4 DEF V

-----------------------------------------------------------------------------
(* The chart of a note.                                                    *)

(* How many portions of d there are in a, the last one perhaps smaller.    *)
Portions(a, d) == (a + d - 1) \div d

(* They are just enough.                                                   *)
LEMMA PortionsAre ==
    ASSUME NEW a \in Nat, NEW d \in Nat \ {0}
    PROVE  /\ Portions(a, d) \in Nat /\ Portions(a, d) * d \in Nat /\ Portions(a, d) * d >= a
           /\ a > 0 => Portions(a, d) >= 1
           /\ (Portions(a, d) - 1) * d < a
           /\ a = 0 => Portions(a, d) = 0
<1>. DEFINE q == Portions(a, d)
            r == (a + d - 1) % d
<1>1. q \in Int /\ r \in 0..d - 1 /\ a + d - 1 = d * q + r
  BY DEF Portions
<1>. HIDE DEF q, r
<1>2. d * q = q * d /\ q * d \in Int
  BY <1>1
<1>3. (q - 1) * d = q * d - d
  BY <1>1
<1>4. q * d >= a /\ (q - 1) * d < a + 1 /\ (q - 1) * d < a
  <2>. DEFINE x == q * d
  <2>1. x \in Int /\ a + d - 1 = x + r /\ (q - 1) * d = x - d
    BY <1>1, <1>2, <1>3
  <2>. HIDE DEF x
  <2>2. x >= a /\ x - d < a
    BY <1>1, <2>1
  <2>. QED  BY <2>1, <2>2 DEF x
<1>5. q <= -1 => q * d <= -d
  BY <1>1
<1>6. q >= 0
  BY <1>1, <1>2, <1>4, <1>5
<1>7. a > 0 => q >= 1
  <2>1. q = 0 => q * d = 0
    OBVIOUS
  <2>. QED  BY <1>1, <1>4, <1>6, <2>1
<1>8. q >= 1 => (q - 1) * d >= 0
  BY <1>1
<1>9. a = 0 => q = 0
  BY <1>1, <1>4, <1>6, <1>8
<1>. QED  BY <1>1, <1>2, <1>4, <1>6, <1>7, <1>9 DEF q

(* What is used of products.                                               *)
LEMMA Cancel ==
    ASSUME NEW a \in Int, NEW b \in Int, NEW d \in Nat \ {0}
    PROVE  /\ a * d < b * d => a < b
           /\ a <= b => a * d <= b * d
           /\ a * d \in Int /\ (a - 1) * d = a * d - d /\ (a + b) * d = a * d + b * d
           /\ (a - b) * d = a * d - b * d
<1>1. a >= b => a * d >= b * d
  OBVIOUS
<1>2. a * d \in Int /\ b * d \in Int
  OBVIOUS
<1>3. a <= b => a * d <= b * d
  OBVIOUS
<1>4. (a - 1) * d = a * d - d /\ (a + b) * d = a * d + b * d /\ (a - b) * d = a * d - b * d
  OBVIOUS
<1>. QED  BY <1>1, <1>2, <1>3, <1>4

(* How far the first i portions of n reach.                                *)
Upto(n, w, i) == IF i * w <= n THEN i * w ELSE n

(* The i-th portion of n is from behind the one before up to Upto.         *)
LEMMA PortionEnds ==
    ASSUME NEW n \in Nat \ {0}, NEW w \in Nat \ {0}, NEW i \in 1..Portions(n, w)
    PROVE  /\ (i - 1) * w \in 0..n /\ Upto(n, w, i) \in (i - 1) * w + 1..n
           /\ Min({i * w, n}) = Upto(n, w, i)
           /\ i = Portions(n, w) => Upto(n, w, i) = n
<1>. DEFINE m == Portions(n, w)
            x == i * w
            y == (i - 1) * w
            z == (m - 1) * w
<1>1. m \in Nat /\ m * w >= n /\ z < n /\ m * w \in Int
  BY PortionsAre
<1>2. i \in Nat /\ i >= 1 /\ i <= m
  BY <1>1
<1>3. x \in Int /\ y = x - w /\ z \in Int
  <2>. HIDE DEF m
  <2>. QED  BY <1>1, <1>2, Cancel
<1>4. y <= z
  <2>1. i - 1 <= m - 1 /\ i - 1 \in Int /\ m - 1 \in Int
    BY <1>1, <1>2
  <2>. HIDE DEF m
  <2>. QED  BY <2>1, Cancel
<1>5. y >= 0
  <2>1. 0 <= i - 1 /\ i - 1 \in Int /\ 0 * w = 0
    BY <1>2
  <2>. QED  BY <2>1, Cancel
<1>6. Upto(n, w, i) = IF x <= n THEN x ELSE n
  BY DEF Upto
<1>7. i = m => x >= n
  BY <1>1
<1>8. Min({x, n}) = IF x <= n THEN x ELSE n
  <2>. HIDE DEF x
  <2>1. \A u, v \in Int : Min({u, v}) \in {u, v} /\ Min({u, v}) <= u /\ Min({u, v}) <= v
    <3>. TAKE u, v \in Int
    <3>1. \E a \in {u, v} : \A b \in {u, v} : a <= b
      OBVIOUS
    <3>. QED  BY <3>1 DEF Min
  <2>2. Min({x, n}) \in {x, n} /\ Min({x, n}) <= x /\ Min({x, n}) <= n
    <3>1. x \in Int /\ n \in Int
      BY <1>3
    <3>. QED  BY <2>1, <3>1, Zenon
  <2>. DEFINE y0 == Min({x, n})
  <2>3. y0 \in {x, n} /\ y0 <= x /\ y0 <= n
    BY <2>2
  <2>. HIDE DEF y0
  <2>4. y0 = IF x <= n THEN x ELSE n
    BY <1>3, <2>3
  <2>. QED  BY <2>4 DEF y0
<1>. HIDE DEF x, y, z, m
<1>. QED  BY <1>1, <1>3, <1>4, <1>5, <1>6, <1>7, <1>8 DEF x, y, m

(* Each place is in one of the portions.                                   *)
LEMMA PortionOf ==
    ASSUME NEW n \in Nat \ {0}, NEW w \in Nat \ {0}, NEW k \in 1..n
    PROVE  \E i \in 1..Portions(n, w) : k \in (i - 1) * w + 1..Upto(n, w, i)
<1>. DEFINE i == Portions(k, w)
            m == Portions(n, w)
<1>1. /\ k \in Nat /\ k >= 1 /\ k <= n
      /\ i \in Nat /\ i >= 1 /\ i * w >= k /\ (i - 1) * w < k
      /\ m \in Nat /\ m * w >= n
  <2>1. k \in Nat /\ k >= 1 /\ k <= n /\ k > 0
    OBVIOUS
  <2>2. m \in Nat /\ m * w >= n
    BY PortionsAre
  <2>3. i \in Nat /\ i >= 1 /\ i * w >= k /\ (i - 1) * w < k
    BY <2>1, PortionsAre
  <2>. QED  BY <2>1, <2>2, <2>3
<1>2. i <= m
  <2>1. (i - 1) * w < m * w
    <3>. HIDE DEF i, m
    <3>1. (i - 1) * w \in Int /\ m * w \in Int
      BY <1>1
    <3>. QED  BY <1>1, <3>1
  <2>2. i - 1 \in Int /\ m \in Int
    BY <1>1
  <2>. HIDE DEF i, m
  <2>3. i - 1 < m
    BY <2>1, <2>2, Cancel
  <2>. QED  BY <1>1, <2>3
<1>3. k \in (i - 1) * w + 1..Upto(n, w, i)
  <2>. DEFINE x == i * w
              y == (i - 1) * w
  <2>1. x \in Int /\ y \in Int /\ x >= k /\ y < k /\ Upto(n, w, i) = IF x <= n THEN x ELSE n
    BY <1>1 DEF Upto
  <2>2. k \in y + 1..Upto(n, w, i)
    <3>. HIDE DEF x, y
    <3>. QED  BY <1>1, <2>1
  <2>. QED  BY <2>2
<1>. QED  BY <1>1, <1>2, <1>3

(* Few enough portions.                                                    *)
LEMMA PortionsFit ==
    ASSUME NEW n \in Nat \ {0}, NEW cap \in Nat \ {0}
    PROVE  /\ Portions(n, cap) \in Nat \ {0}
           /\ Portions(n, Portions(n, cap)) \in 1..cap
<1>. DEFINE w == Portions(n, cap)
            m == Portions(n, w)
<1>1. w \in Nat /\ w >= 1 /\ w * cap >= n
  BY PortionsAre
<1>. HIDE DEF w
<1>2. m \in Nat /\ m >= 1 /\ (m - 1) * w < n
  BY <1>1, PortionsAre
<1>. HIDE DEF m
<1>3. cap * w = w * cap /\ cap * w \in Int /\ (m - 1) * w \in Int
  BY <1>1, <1>2
<1>4. (m - 1) * w < cap * w
  <2>. DEFINE x == (m - 1) * w
              y == cap * w
  <2>1. x \in Int /\ y \in Int /\ x < n /\ y >= n
    BY <1>1, <1>2, <1>3
  <2>. HIDE DEF x, y
  <2>2. x < y
    BY <2>1
  <2>. QED  BY <2>2 DEF x, y
<1>5. m - 1 < cap
  BY <1>1, <1>2, <1>4, Cancel
<1>. QED  BY <1>1, <1>2, <1>5 DEF w, m

(* An element that none exceeds is the maximum.                            *)
LEMMA MaximumIs ==
    ASSUME NEW T, NEW m \in T, T \subseteq Int, \A y \in T : y <= m
    PROVE  Max(T) = m
<1>1. \A y \in T : m >= y
  OBVIOUS
<1>2. Max(T) \in T /\ \A y \in T : Max(T) >= y
  BY <1>1 DEF Max
<1>3. \A x, y \in Int : x >= y /\ y >= x => x = y
  OBVIOUS
<1>. QED  BY <1>1, <1>2, <1>3

(* The b-th portion of r.                                                  *)
Portion(r, w, b) == SubSeq(r, (b - 1) * w + 1, Min({b * w, Len(r)}))

(* The points of a longer list: each stands for a portion.                 *)
LEMMA PointsAre ==
    ASSUME NEW r, Len(r) \in Nat \ {0}, Len(r) > ChartCap
    PROVE  LET w == Portions(Len(r), ChartCap)
               c == ChartIntervals(r)
           IN  /\ c = [b \in 1..Portions(Len(r), w) |-> c[b]]
               /\ \A b \in 1..Portions(Len(r), w) :
                     /\ c[b].t = Last(Portion(r, w, b)).t
                     /\ c[b].lo = Max({x.lo : x \in Range(Portion(r, w, b))})
<1>1. ~(Len(r) <= ChartCap)
  BY StatsAssumption
<1>. QED  BY <1>1 DEF ChartIntervals, Portions, Portion

(* However short the chart, it has the highest peak and ends with the last
   interval.                                                               *)
LEMMA ChartIs ==
    ASSUME NEW l, NEW first, NEW n, NEW r, Filled(r, l, first, n),
           \A t \in first..first + n - 1 : l[t].lo \in Nat
    PROVE  LET c == ChartIntervals(r)
           IN  /\ Len(c) <= ChartCap
               /\ Last(c).t = first + n - 1
               /\ Max({x.lo : x \in Range(c)}) = Max({l[t].lo : t \in first..first + n - 1})
<1>. DEFINE c == ChartIntervals(r)
            A == {x.lo : x \in Range(c)}
            B == {l[t].lo : t \in first..first + n - 1}
            s == [j \in 1..n |-> r[j].lo]
<1>1. /\ n \in Nat \ {0} /\ first \in Nat \ {0}
      /\ r = [j \in 1..n |-> r[j]] /\ DOMAIN r = 1..n /\ Len(r) = n
      /\ \A j \in 1..n : r[j].t = first + j - 1 /\ r[j].lo = l[first + j - 1].lo
  BY FilledIs
<1>2. \A j \in 1..n : s[j] = r[j].lo /\ r[j].lo \in Nat
  <2>. TAKE j \in 1..n
  <2>1. first + j - 1 \in first..first + n - 1
    BY <1>1
  <2>. QED  BY <1>1, <2>1
<1>3. B = {r[j].lo : j \in 1..n}
  <2>1. \A t \in first..first + n - 1 : t - first + 1 \in 1..n /\ first + (t - first + 1) - 1 = t
    BY <1>1
  <2>2. \A j \in 1..n : first + j - 1 \in first..first + n - 1
    BY <1>1
  <2>3. \A t \in first..first + n - 1 : \E j \in 1..n : l[t].lo = r[j].lo
    <3>. TAKE t \in first..first + n - 1
    <3>1. r[t - first + 1].lo = l[t].lo
      BY <1>1, <2>1
    <3>. QED  BY <2>1, <3>1
  <2>4. \A j \in 1..n : \E t \in first..first + n - 1 : l[t].lo = r[j].lo
    BY <1>1, <2>2
  <2>. QED  BY <2>3, <2>4
<1>4. PICK top \in 1..n : \A j \in 1..n : r[j].lo <= r[top].lo
  <2>1. IntSeq(s, n)
    <3>1. s = [j \in 1..n |-> s[j]]
      BY <1>2
    <3>. QED  BY <1>1, <1>2, <3>1 DEF IntSeq
  <2>. HIDE DEF s
  <2>2. \E i \in 1..n : \A j \in 1..n : s[j] <= s[i]
    BY <1>1, <2>1, GreatestElement
  <2>. QED  BY <1>2, <2>2
<1>. DEFINE m == r[top].lo
<1>5. m \in B /\ B \subseteq Int /\ \A y \in B : y <= m
  <2>1. \A j \in 1..n : r[j].lo \in Int
    BY <1>2
  <2>. HIDE DEF B, s
  <2>2. m \in B
    BY <1>3
  <2>3. B \subseteq Int
    BY <1>3, <2>1
  <2>4. \A y \in B : y <= m
    BY <1>3, <1>4
  <2>. QED  BY <2>2, <2>3, <2>4
<1>6. Max(B) = m
  <2>. HIDE DEF B, m
  <2>. QED  BY <1>5, MaximumIs
<1>. HIDE DEF s
<1>7. ASSUME m \in A, \A y \in A : y \in Int /\ y <= m
      PROVE  Max(A) = Max(B)
  <2>. HIDE DEF A, B, m
  <2>1. Max(A) = m
    BY <1>7, MaximumIs
  <2>. QED  BY <1>6, <2>1
<1>8. CASE n <= ChartCap
  <2>1. c = r
    BY <1>1, <1>8 DEF ChartIntervals
  <2>2. Last(c).t = first + n - 1
    BY <1>1, <2>1 DEF Last
  <2>3. A = B
    <3>1. Range(r) = {r[j] : j \in 1..n}
      BY <1>1 DEF Range
    <3>2. {x.lo : x \in Range(r)} = {r[j].lo : j \in 1..n}
      BY <3>1
    <3>. HIDE DEF B
    <3>. QED  BY <1>3, <2>1, <3>2
  <2>. QED  BY <1>1, <1>8, <2>1, <2>2, <2>3
<1>9. CASE n > ChartCap
  <2>. DEFINE w == Portions(n, ChartCap)
              N == Portions(n, w)
              P(b) == Portion(r, w, b)
  <2>1. /\ c = [b \in 1..N |-> c[b]]
        /\ \A b \in 1..N : c[b].t = Last(P(b)).t /\ c[b].lo = Max({x.lo : x \in Range(P(b))})
    BY <1>1, <1>9, PointsAre
  <2>2. w \in Nat \ {0} /\ N \in 1..ChartCap
    BY <1>1, StatsAssumption, PortionsFit
  <2>3. ASSUME NEW b \in 1..N
        PROVE  LET a == (b - 1) * w
                   z == Upto(n, w, b)
               IN  /\ a \in Nat /\ z \in a + 1..n
                   /\ b = N => z = n
                   /\ c[b].t = r[z].t
                   /\ c[b].lo \in {r[j].lo : j \in a + 1..z}
                   /\ \A j \in a + 1..z : r[j].lo <= c[b].lo
    <3>. DEFINE a == (b - 1) * w
                z == Upto(n, w, b)
                q == P(b)
                T == {x.lo : x \in Range(q)}
    <3>1. a \in 0..n /\ z \in a + 1..n /\ Min({b * w, n}) = z /\ (b = N => z = n)
      <4>. HIDE DEF w, c
      <4>1. b \in 1..Portions(n, w) /\ n \in Nat \ {0} /\ w \in Nat \ {0}
        BY <1>1, <2>2
      <4>. QED  BY <4>1, PortionEnds, Zenon
    <3>2. q = SubSeq(r, a + 1, z)
      BY <1>1, <3>1 DEF Portion
    <3>3. c[b].t = Last(q).t /\ c[b].lo = Max(T)
      BY <2>1
    <3>. HIDE DEF a, z, w, N, c
    <3>4. q = [k \in 1..z - a |-> r[a + k]]
      <4>1. a + 1 \in Int /\ z \in Int /\ z - (a + 1) + 1 = z - a
        BY <3>1
      <4>2. \A k \in 1..z - a : (a + 1) + k - 1 = a + k
        BY <3>1
      <4>3. q = [k \in 1..z - (a + 1) + 1 |-> r[(a + 1) + k - 1]]
        BY <3>2, <4>1
      <4>. QED  BY <4>1, <4>2, <4>3
    <3>. HIDE DEF q
    <3>5. z - a \in Nat \ {0} /\ Len(q) = z - a /\ DOMAIN q = 1..z - a
      BY <3>1, <3>4
    <3>6. Last(q) = r[z]
      <4>1. z - a \in 1..z - a /\ a + (z - a) = z
        BY <3>1, <3>5
      <4>. QED  BY <3>4, <3>5, <4>1 DEF Last
    <3>. DEFINE h == [k \in 1..z - a |-> r[a + k].lo]
    <3>7. \A k \in 1..z - a : q[k] = r[a + k] /\ a + k \in a + 1..z /\ a + k \in 1..n /\ h[k] = r[a + k].lo /\ h[k] \in Int
      <4>. TAKE k \in 1..z - a
      <4>1. a + k \in a + 1..z /\ a + k \in 1..n
        BY <1>1, <3>1
      <4>. QED  BY <1>2, <3>4, <4>1
    <3>8. T = {h[k] : k \in 1..z - a}
      <4>1. Range(q) = {q[k] : k \in 1..z - a}
        BY <3>5 DEF Range
      <4>. QED  BY <3>7, <4>1
    <3>9. IntSeq(h, z - a)
      <4>1. h = [k \in 1..z - a |-> h[k]]
        BY <3>7
      <4>. QED  BY <3>5, <3>7, <4>1 DEF IntSeq
    <3>10. Max(T) \in T /\ \A x \in T : x <= Max(T)
      <4>. HIDE DEF h, T
      <4>. QED  BY <3>5, <3>8, <3>9, MaxIs
    <3>. DEFINE top1 == Max(T)
    <3>11. top1 \in T /\ c[b].lo = top1 /\ \A x \in T : x <= top1
      BY <3>3, <3>10
    <3>. HIDE DEF top1
    <3>12. top1 \in {r[j].lo : j \in a + 1..z}
      BY <3>7, <3>8, <3>11
    <3>13. ASSUME NEW j \in a + 1..z PROVE r[j].lo <= top1
      <4>1. j - a \in 1..z - a /\ a + (j - a) = j
        BY <3>1
      <4>2. h[j - a] = r[j].lo /\ h[j - a] \in T
        BY <3>7, <3>8, <4>1
      <4>. QED  BY <3>11, <4>2
    <3>14. a \in Nat /\ z \in a + 1..n
      BY <3>1
    <3>. HIDE DEF T, h
    <3>. QED  BY <3>1, <3>3, <3>6, <3>11, <3>12, <3>13, <3>14 DEF a, z, N, w
  <2>. DEFINE From(b) == (b - 1) * w + 1
              To(b) == Upto(n, w, b)
  <2>4. \A b \in 1..N :
           /\ To(b) \in 1..n /\ (b = N => To(b) = n) /\ c[b].t = r[To(b)].t
           /\ \E j \in 1..n : c[b].lo = r[j].lo
           /\ \A j \in From(b)..To(b) : r[j].lo <= c[b].lo
    <3>. TAKE b \in 1..N
    <3>1. /\ (b - 1) * w \in Nat /\ To(b) \in From(b)..n /\ (b = N => To(b) = n)
          /\ c[b].t = r[To(b)].t /\ c[b].lo \in {r[j].lo : j \in From(b)..To(b)}
          /\ \A j \in From(b)..To(b) : r[j].lo <= c[b].lo
      BY <2>3
    <3>. HIDE DEF To, w, N, c
    <3>2. From(b) \in Nat \ {0}
      BY <3>1
    <3>. HIDE DEF From
    <3>3. To(b) \in 1..n /\ \A j \in From(b)..To(b) : j \in 1..n
      BY <1>1, <3>1, <3>2
    <3>. QED  BY <3>1, <3>3
  <2>5. \A k \in 1..n : \E b \in 1..N : k \in From(b)..To(b)
    <3>. HIDE DEF w
    <3>. QED  BY <1>1, <2>2, PortionOf
  <2>. HIDE DEF From, To, N, w, c
  <2>6. Len(c) = N /\ DOMAIN c = 1..N /\ N \in 1..N /\ N <= ChartCap
    BY <2>1, <2>2, StatsAssumption
  <2>7. Last(c).t = first + n - 1
    <3>1. Last(c).t = r[n].t
      BY <2>4, <2>6 DEF Last
    <3>. QED  BY <1>1, <3>1
  <2>8. A = {c[b].lo : b \in 1..N}
    BY <2>6 DEF Range
  <2>9. \A y \in A : y \in Int /\ y <= m
    BY <1>2, <1>4, <2>4, <2>8
  <2>10. m \in A
    <3>1. PICK b \in 1..N : top \in From(b)..To(b)
      BY <2>5
    <3>2. m <= c[b].lo /\ c[b].lo <= m /\ m \in Int /\ c[b].lo \in Int
      BY <1>2, <1>4, <2>4, <3>1
    <3>. DEFINE x == c[b].lo
                y == m
    <3>3. x = y
      <4>1. x \in Int /\ y \in Int /\ x <= y /\ y <= x
        BY <3>2
      <4>. HIDE DEF x, y
      <4>. QED  BY <4>1
    <3>. QED  BY <2>8, <3>3
  <2>. HIDE DEF A, m, B
  <2>11. Max(A) = Max(B)
    BY <1>7, <2>9, <2>10
  <2>. QED  BY <2>6, <2>7, <2>11 DEF A, B, c
<1>. HIDE DEF A, B, c
<1>10. ChartCap \in Nat /\ (n <= ChartCap \/ n > ChartCap)
  BY <1>1, StatsAssumption
<1>. QED  BY <1>8, <1>9, <1>10 DEF A, B, c

(* What the numbers of a minute are of which every interval is stored and
   more than half of which was at level u.                                 *)
LEMMA FilledStats ==
    ASSUME NEW l, NEW first, NEW n, NEW r, Filled(r, l, first, n), NEW at, NEW e, NEW u \in Nat,
           \A t \in first..first + n - 1 : l[t].v \in Nat,
           2 * Cardinality({t \in first..first + n - 1 : l[t].v = u}) > n
    PROVE  LET run == Stats(at, r, e).lowRun
               Low(t) == l[t].v * 100 <= u * 99
           IN  /\ Stats(at, r, e).rows = r
               /\ run = 0 <=> \A t \in first..first + n - 1 : ~Low(t)
               /\ \A i, j \in first..first + n - 1 :
                     i <= j /\ (\A t \in i..j : Low(t)) => run >= j - i + 1
<1>. DEFINE Low(t) == l[t].v * 100 <= u * 99
            W == first..first + n - 1
            F == {i \in DOMAIN r : r[i].v * 200 <= Median2(r) * 99}
            bucket == BucketOf(r)
            run == LongestRun(r, F, bucket)
<1>1. /\ n \in Nat \ {0} /\ first \in Nat \ {0}
      /\ r = [j \in 1..n |-> r[j]] /\ DOMAIN r = 1..n /\ Len(r) = n /\ r # <<>>
      /\ \A j \in 1..n : r[j].t = first + j - 1 /\ r[j].v = l[first + j - 1].v
  BY FilledIs
<1>2. \A j \in 1..n : first + j - 1 \in W /\ l[first + j - 1].v \in Nat
  BY <1>1
<1>3. Median2(r) = 2 * u
  <2>1. \A j \in 1..n : l[first + j - 1].v \in Int
    BY <1>2
  <2>2. u \in Int
    OBVIOUS
  <2>. QED  BY <2>1, <2>2, MedianIs
<1>4. bucket \in Nat \ {0}
  <2>1. \A j \in 1..n : r[j].t \in Int
    BY <1>1
  <2>. QED  BY <1>1, <2>1, BucketIs
<1>5. Stats(at, r, e).rows = r /\ Stats(at, r, e).lowRun = run
  BY <1>1 DEF Stats
<1>6. F \in SUBSET (1..n) /\ \A j \in 1..n : j \in F <=> Low(first + j - 1)
  <2>1. \A v \in Nat : v * 200 <= 2 * u * 99 <=> v * 100 <= u * 99
    OBVIOUS
  <2>2. \A j \in 1..n : r[j].v * 200 <= 2 * u * 99 <=> Low(first + j - 1)
    BY <1>1, <1>2, <2>1
  <2>3. F = {i \in 1..n : r[i].v * 200 <= 2 * u * 99}
    BY <1>1, <1>3
  <2>. HIDE DEF F, Low
  <2>. QED  BY <2>2, <2>3
<1>. HIDE DEF F, bucket
<1>7. /\ run = 0 <=> F = {}
      /\ \A i, j \in 1..n : i <= j /\ i..j \subseteq F => run >= j - i + 1
  <2>1. n \in Nat \ {0} /\ F \in SUBSET (1..n) /\ bucket \in Nat \ {0} /\ Filled(r, l, first, n)
    BY <1>1, <1>4, <1>6
  <2>. QED  BY <2>1, RunIs, Zenon
<1>. HIDE DEF run
<1>8. \A t \in W : t - first + 1 \in 1..n /\ first + (t - first + 1) - 1 = t
  BY <1>1
<1>. HIDE DEF Low
<1>9. \A t \in W : Low(t) <=> t - first + 1 \in F
  <2>. TAKE t \in W
  <2>. DEFINE j == t - first + 1
  <2>1. j \in 1..n /\ first + j - 1 = t
    BY <1>8
  <2>. HIDE DEF j, W
  <2>2. Low(t) <=> j \in F
    BY <1>6, <2>1
  <2>. QED  BY <2>2 DEF j
<1>10. F = {} <=> \A t \in W : ~Low(t)
  <2>1. ASSUME F = {} PROVE \A t \in W : ~Low(t)
    BY <1>9, <2>1
  <2>2. ASSUME F # {} PROVE \E t \in W : Low(t)
    <3>1. PICK j \in F : j \in 1..n
      BY <1>6, <2>2
    <3>. QED  BY <1>2, <1>6, <3>1
  <2>. QED  BY <2>1, <2>2
<1>11. ASSUME NEW i \in W, NEW j \in W, i <= j, \A t \in i..j : Low(t)
       PROVE  run >= j - i + 1
  <2>. DEFINE a == i - first + 1
              b == j - first + 1
  <2>1. a \in 1..n /\ b \in 1..n /\ a <= b /\ b - a = j - i
    BY <1>1, <1>11
  <2>2. \A k \in a..b : k \in F
    <3>. TAKE k \in a..b
    <3>1. k \in 1..n /\ first + k - 1 \in i..j
      BY <1>1
    <3>2. Low(first + k - 1)
      BY <1>11, <3>1
    <3>. QED  BY <1>6, <3>1, <3>2
  <2>. HIDE DEF a, b
  <2>3. run >= b - a + 1
    BY <1>7, <2>1, <2>2
  <2>. QED  BY <2>1, <2>3
<1>. QED  BY <1>5, <1>7, <1>10, <1>11 DEF run, Low, W

(* The levels of the line are numbers.                                     *)
LEMMA LineLows ==
    ASSUME TypeOK
    PROVE  \A t \in 1..Len(line) : line[t].v \in Nat /\ line[t].lo \in Nat
<1>1. \A x \in Levels \cup {Off} : x.v \in Nat /\ x.lo \in Nat
  BY NotesAssumption DEF Off
<1>. QED  BY <1>1 DEF TypeOK, now

-----------------------------------------------------------------------------
(* A note shows the line.                                                  *)

LEMMA TheLineIsShown == TypeOK => NoteShowsTheLine
<1>. SUFFICES ASSUME TypeOK, NEW at \in 1..now,
                     {t \in at - Window..at : t > 0} \subseteq disk,
                     2 * Cardinality({t \in {t \in at - Window..at : t > 0} : line[t].v = Usual})
                        > Cardinality({t \in at - Window..at : t > 0})
              PROVE  LET times == {t \in at - Window..at : t > 0}
                         Dip(i, j) == \A t \in i..j : line[t].v * 100 <= Usual * 99
                         tv == [kind |-> "tv", tv_count |-> "one"]
                         s == StatsAt(at)
                         chart == ChartIntervals(s.rows)
                     IN  /\ s.low = Min({line[t].v : t \in times})
                         /\ "did not move" \in Summary(tv, s) <=> \A t \in times : ~Dip(t, t)
                         /\ \A i, j \in times : i <= j /\ Dip(i, j) => s.lowRun >= j - i + 1
                         /\ Len(chart) <= ChartCap
                         /\ Max({r.lo : r \in Range(chart)}) = Max({line[t].lo : t \in times})
                         /\ Last(chart).t = at
  BY DEF NoteShowsTheLine
<1>. DEFINE times == {t \in at - Window..at : t > 0}
            r == RowsOf(line, disk, at)
            e == Minute(at, evDisk)
            s == StatsAt(at)
            Low(t) == line[t].v * 100 <= Usual * 99
<1>1. /\ now = Len(line) /\ Len(line) \in Nat /\ disk \in SUBSET (1..Len(line))
      /\ at \in 1..Len(line) /\ at \in Nat \ {0} /\ at \in Int
      /\ \A t \in 1..Len(line) : line[t].v \in Nat /\ line[t].lo \in Nat
  BY LineFacts, LineLows DEF now
<1>2. PICK first \in 1..at : /\ times = first..at /\ Minute(at, disk) = first..at
                             /\ Filled(r, line, first, at - first + 1)
  BY <1>1, FilledMinute
<1>. DEFINE n == at - first + 1
<1>3. n \in Nat \ {0} /\ first \in Nat \ {0} /\ first + n - 1 = at
  BY <1>1
<1>4. Cardinality(times) = n
  <2>1. first \in Int /\ ~(first > at)
    BY <1>1
  <2>2. Cardinality(first..at) = at - first + 1
    BY <1>1, <2>1, FS_Interval
  <2>. QED  BY <1>2, <2>2
<1>. HIDE DEF times, r
<1>5. \A t \in first..at : line[t].v \in Nat /\ line[t].lo \in Nat
  <2>1. \A t \in first..at : t \in 1..Len(line)
    BY <1>1
  <2>. QED  BY <1>1, <2>1
<1>6. 2 * Cardinality({t \in first..at : line[t].v = Usual}) > n
  <2>1. 2 * Cardinality({t \in times : line[t].v = Usual}) > Cardinality(times)
    BY DEF times
  <2>. QED  BY <1>2, <1>4, <2>1
<1>7. s = Stats(at, r, e)
  BY StatsAtIs DEF r
<1>. HIDE DEF s, e, n
<1>8. /\ s.rows = r
      /\ s.lowRun = 0 <=> \A t \in first..at : ~Low(t)
      /\ \A i, j \in first..at : i <= j /\ (\A t \in i..j : Low(t)) => s.lowRun >= j - i + 1
  <2>1. Usual \in Nat
    BY NotesAssumption
  <2>2. Filled(r, line, first, n)
    BY <1>2 DEF n
  <2>. DEFINE W == first..first + n - 1
  <2>3. W = first..at
    BY <1>3
  <2>4. (\A t \in W : line[t].v \in Nat) /\ 2 * Cardinality({t \in W : line[t].v = Usual}) > n
    <3>. HIDE DEF W
    <3>. QED  BY <1>5, <1>6, <2>3
  <2>5. /\ Stats(at, r, e).rows = r
        /\ Stats(at, r, e).lowRun = 0 <=> \A t \in W : ~Low(t)
        /\ \A i, j \in W : i <= j /\ (\A t \in i..j : Low(t)) => Stats(at, r, e).lowRun >= j - i + 1
    BY <2>1, <2>2, <2>4, FilledStats, Zenon
  <2>. HIDE DEF W, Low
  <2>. QED  BY <1>7, <2>3, <2>5
<1>9. s.count # 0 /\ Lowest(s.low, line, first..at)
  <2>1. \A t \in 1..Len(line) : line[t].v \in Nat
    BY <1>1
  <2>2. NumbersOf(s, line, Minute(at, disk), e)
    BY <1>1, <1>7, <2>1, StatsAre DEF r
  <2>3. at \in first..at
    BY <1>1
  <2>. QED  BY <1>2, <1>3, <1>4, <2>2, <2>3 DEF NumbersOf
<1>10. s.low = Min({line[t].v : t \in times})
  <2>1. \A t \in first..at : line[t].v \in Nat
    BY <1>5
  <2>. QED  BY <1>2, <1>9, <2>1, LowestIsMin
<1>11. "did not move" \in Summary([kind |-> "tv", tv_count |-> "one"], s) <=> s.lowRun = 0
  BY <1>9, DidNotMove
<1>12. \A t \in times : (\A x \in t..t : Low(x)) <=> Low(t)
  <2>. TAKE t \in times
  <2>1. t \in Int
    BY <1>2
  <2>2. t..t = {t}
    BY <2>1
  <2>. HIDE DEF Low
  <2>. QED  BY <2>2
<1>13. LET c == ChartIntervals(r)
       IN  /\ Len(c) <= ChartCap
           /\ Last(c).t = at
           /\ Max({x.lo : x \in Range(c)}) = Max({line[t].lo : t \in first..at})
  <2>1. Filled(r, line, first, n)
    BY <1>2 DEF n
  <2>2. \A t \in first..first + n - 1 : line[t].lo \in Nat
    BY <1>3, <1>5
  <2>. QED  BY <1>3, <2>1, <2>2, ChartIs
<1>. HIDE DEF Low
<1>14. "did not move" \in Summary([kind |-> "tv", tv_count |-> "one"], s)
          <=> \A t \in times : ~(\A x \in t..t : Low(x))
  BY <1>2, <1>8, <1>11, <1>12
<1>15. \A i, j \in times : i <= j /\ (\A t \in i..j : Low(t)) => s.lowRun >= j - i + 1
  BY <1>2, <1>8
<1>16. /\ Len(ChartIntervals(s.rows)) <= ChartCap
       /\ Max({x.lo : x \in Range(ChartIntervals(s.rows))}) = Max({line[t].lo : t \in times})
       /\ Last(ChartIntervals(s.rows)).t = at
  BY <1>2, <1>8, <1>13
<1>. QED  BY <1>10, <1>14, <1>15, <1>16 DEF times, s, Low

(* Where every interval of the minute before a time is stored, and the line
   was at its usual level for more than half of it, what correlate and
   build_summary say of it is what it did: the lowest value, whether it
   moved, no shorter a dip than there was; and a chart has its highest peak,
   however many intervals a point stands for.                              *)
THEOREM NotesShowTheLine == Spec => []NoteShowsTheLine
<1>. QED  BY TypeCorrect, TheLineIsShown, PTL
=============================================================================
