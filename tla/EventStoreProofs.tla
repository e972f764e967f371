------------------------- MODULE EventStoreProofs -------------------------
(***************************************************************************)
(* For any lengths, size limit, number of events, crashes, restarts and    *)
(* deletions: no process uses a file it has not opened, every index record *)
(* keeps pointing at its own event's samples, a lookup returns the whole   *)
(* waveform of a record that has a next one, and never a deleted event.    *)
(***************************************************************************)
EXTENDS EventStore, SequenceTheorems, TLAPS

-----------------------------------------------------------------------------
(* Files only grow.                                                        *)

(* What is in the files of w is, at the same place, in those of v.         *)
Grown(w, v) ==
    /\ Len(w) <= Len(v)
    /\ \A x \in DOMAIN w :
          /\ Len(w[x]) <= Len(v[x])
          /\ \A s \in 1..Len(w[x]) : v[x][s] = w[x][s]

(* A file is created empty, beside the others.                             *)
LEMMA Created ==
    ASSUME NEW S, NEW w \in Seq(Seq(S))
    PROVE  /\ Append(w, <<>>) \in Seq(Seq(S))
           /\ Len(Append(w, <<>>)) = Len(w) + 1
           /\ Append(w, <<>>)[Len(w) + 1] = <<>>
           /\ Len(Append(w, <<>>)[Len(w) + 1]) = 0
           /\ \A x \in DOMAIN w : Append(w, <<>>)[x] = w[x]
<1>1. <<>> \in Seq(S)
  BY EmptySeq
<1>2. DOMAIN w = 1..Len(w)
  BY LenProperties
<1>3. /\ Append(w, <<>>) \in Seq(Seq(S))
      /\ Len(Append(w, <<>>)) = Len(w) + 1
      /\ \A i \in 1..Len(w) : Append(w, <<>>)[i] = w[i]
      /\ Append(w, <<>>)[Len(w) + 1] = <<>>
  BY <1>1, AppendProperties
<1>. QED BY <1>2, <1>3, EmptySeq

LEMMA CreatedGrows ==
    ASSUME NEW S, NEW w \in Seq(Seq(S))
    PROVE  Grown(w, Append(w, <<>>))
<1>1. \A x \in DOMAIN w : Len(w[x]) \in Nat
  BY LenProperties
<1>2. Len(w) \in Nat
  BY LenProperties
<1>. QED BY <1>1, <1>2, Created DEF Grown

(* A waveform's samples as a sequence.                                     *)
LEMMA Samples ==
    ASSUME NEW e \in Evt, NEW n \in Nat
    PROVE  [s \in 1..n |-> e] \in Seq(Evt) /\ Len([s \in 1..n |-> e]) = n
<1>. DEFINE new == [s \in 1..n |-> e]
<1>1. new \in [1..n -> Evt] /\ DOMAIN new = 1..n
  OBVIOUS
<1>. HIDE DEF new
<1>2. new \in Seq(Evt)
  BY <1>1, SeqDef
<1>3. Len(new) \in Nat /\ 1..Len(new) = 1..n
  BY <1>1, <1>2, LenProperties
<1>4. Len(new) = n
  <2>1. CASE Len(new) < n
    <3>1. n \in 1..n /\ n \notin 1..Len(new)
      BY <1>3, <2>1
    <3>. QED BY <1>3, <3>1
  <2>2. CASE Len(new) > n
    <3>1. Len(new) \in 1..Len(new) /\ Len(new) \notin 1..n
      BY <1>3, <2>2
    <3>. QED BY <1>3, <3>1
  <2>. QED BY <1>3, <2>1, <2>2
<1>. QED BY <1>2, <1>4 DEF new

(* A write extends one file at its end.                                    *)
Extended(w, f, e, n) == [w EXCEPT ![f] = @ \o [s \in 1..n |-> e]]

IsExtension(v, w, f, e, n) ==
    /\ v \in Seq(Seq(Evt))
    /\ Len(v) = Len(w) /\ DOMAIN v = DOMAIN w
    /\ Len(v[f]) = Len(w[f]) + n
    /\ \A s \in 1..Len(w[f]) : v[f][s] = w[f][s]
    /\ \A s \in 1..n : v[f][Len(w[f]) + s] = e
    /\ Grown(w, v)

LEMMA Written ==
    ASSUME NEW w \in Seq(Seq(Evt)), NEW f \in DOMAIN w, NEW e \in Evt, NEW n \in Nat,
           NEW v, v = Extended(w, f, e, n)
    PROVE  IsExtension(v, w, f, e, n)
<1>. DEFINE new == [s \in 1..n |-> e]
            full == w[f] \o new
<1>1. f \in 1..Len(w) /\ DOMAIN w = 1..Len(w) /\ w[f] \in Seq(Evt)
  BY LenProperties, ElementOfSeq
<1>2. new \in Seq(Evt) /\ Len(new) = n
  BY Samples
<1>3. /\ full \in Seq(Evt)
      /\ Len(full) = Len(w[f]) + n
      /\ \A i \in 1 .. Len(w[f]) + n :
            full[i] = IF i <= Len(w[f]) THEN w[f][i] ELSE new[i - Len(w[f])]
  BY <1>1, <1>2, ConcatProperties
<1>4. v = [w EXCEPT ![f] = full]
  BY DEF Extended
<1>5. /\ v \in Seq(Seq(Evt)) /\ Len(v) = Len(w) /\ DOMAIN v = DOMAIN w
      /\ \A j \in DOMAIN w : v[j] = IF j = f THEN full ELSE w[j]
  <2>. HIDE DEF full
  <2>1. f \in 1..Len(w) /\ full \in Seq(Evt) /\ DOMAIN w = 1..Len(w)
    BY <1>1, <1>3
  <2>2. /\ [w EXCEPT ![f] = full] \in Seq(Seq(Evt))
        /\ Len([w EXCEPT ![f] = full]) = Len(w)
        /\ \A j \in 1..Len(w) : [w EXCEPT ![f] = full][j] = IF j = f THEN full ELSE w[j]
    BY <2>1, ExceptSeq
  <2>. QED BY <1>4, <2>1, <2>2, LenProperties
<1>6. Len(w[f]) \in Nat
  BY <1>1, LenProperties
<1>7. /\ \A s \in 1..Len(w[f]) : v[f][s] = w[f][s]
      /\ \A s \in 1..n : v[f][Len(w[f]) + s] = e
      /\ Len(v[f]) = Len(w[f]) + n
  <2>1. v[f] = full
    BY <1>1, <1>5
  <2>2. \A s \in 1..n : new[s] = e
    OBVIOUS
  <2>. HIDE DEF full, new
  <2>3. \A s \in 1..Len(w[f]) : full[s] = w[f][s]
    BY <1>3, <1>6
  <2>4. \A s \in 1..n : full[Len(w[f]) + s] = e
    <3>. TAKE s \in 1..n
    <3>. DEFINE i == Len(w[f]) + s
    <3>1. i \in 1 .. Len(w[f]) + n /\ ~(i <= Len(w[f])) /\ i - Len(w[f]) = s
      BY <1>6
    <3>. HIDE DEF i
    <3>2. full[i] = new[s]
      BY <1>3, <3>1
    <3>. QED BY <2>2, <3>2 DEF i
  <2>. QED BY <1>3, <2>1, <2>3, <2>4
<1>8. Grown(w, v)
  <2>. HIDE DEF full
  <2>1. Len(w) <= Len(v)
    BY <1>5, LenProperties
  <2>. SUFFICES ASSUME NEW x \in DOMAIN w
                PROVE  /\ Len(w[x]) <= Len(v[x])
                       /\ \A s \in 1..Len(w[x]) : v[x][s] = w[x][s]
    BY <2>1 DEF Grown
  <2>2. CASE x = f
    BY <1>6, <1>7, <2>2
  <2>3. CASE x # f
    <3>1. v[x] = w[x] /\ Len(w[x]) \in Nat
      BY <1>1, <1>5, <2>3, LenProperties, ElementOfSeq
    <3>. QED BY <3>1
  <2>. QED BY <2>2, <2>3
<1>. QED BY <1>5, <1>7, <1>8 DEF IsExtension

(* So a record that was right stays right.                                 *)
LEMMA HoldsStays ==
    ASSUME NEW w \in Seq(Seq(Evt)), NEW v \in Seq(Seq(Evt)), Grown(w, v),
           NEW r \in Rec, r.file \in DOMAIN w, Holds(w[r.file], r)
    PROVE  r.file \in DOMAIN v /\ Holds(v[r.file], r)
<1>. DEFINE f == r.file
            o == r.off
            l == r.len
            a == w[f]
            b == v[f]
<1>1. /\ DOMAIN w = 1..Len(w) /\ DOMAIN v = 1..Len(v)
      /\ Len(w) \in Nat /\ Len(v) \in Nat /\ Len(w) <= Len(v)
  BY LenProperties DEF Grown
<1>2. f \in DOMAIN w /\ f \in DOMAIN v
  BY <1>1
<1>3. a \in Seq(Evt) /\ b \in Seq(Evt)
  BY <1>1, <1>2, ElementOfSeq
<1>4. Len(a) \in Nat /\ Len(b) \in Nat
  BY ONLY <1>3, LenProperties
<1>5. o \in Nat /\ l \in Nat
  BY LengthsAssumption DEF Rec
<1>6. Len(a) <= Len(b) /\ \A s \in 1..Len(a) : b[s] = a[s]
  BY <1>2 DEF Grown
<1>7. o + l <= Len(a) /\ \A s \in 1..l : a[o + s] = r.of
  BY DEF Holds
<1>. HIDE DEF f, o, l, a, b
<1>8. o + l <= Len(b)
  BY <1>4, <1>5, <1>6, <1>7
<1>9. \A s \in 1..l : b[o + s] = r.of
  <2>. TAKE s \in 1..l
  <2>1. o + s \in 1..Len(a)
    BY <1>4, <1>5, <1>7
  <2>2. b[o + s] = a[o + s]
    BY ONLY <1>6, <2>1
  <2>. QED BY <1>7, <2>2
<1>. QED BY <1>2, <1>8, <1>9 DEF Holds, f, o, l, b

(* A record appended to an index file.                                     *)
Listed(w, x, r) == [w EXCEPT ![x] = Append(@, r)]

IsListed(v, w, x, r) ==
    /\ v \in Seq(Seq(Rec))
    /\ Len(v) = Len(w) /\ DOMAIN v = DOMAIN w
    /\ \A y \in DOMAIN w \ {x} : v[y] = w[y]
    /\ \A i \in DOMAIN v[x] : v[x][i] = r \/ (i \in DOMAIN w[x] /\ v[x][i] = w[x][i])

LEMMA Indexed ==
    ASSUME NEW w \in Seq(Seq(Rec)), NEW x \in DOMAIN w, NEW r \in Rec,
           NEW v, v = Listed(w, x, r)
    PROVE  IsListed(v, w, x, r)
<1>. DEFINE full == Append(w[x], r)
<1>1. x \in 1..Len(w) /\ DOMAIN w = 1..Len(w) /\ w[x] \in Seq(Rec)
  BY LenProperties, ElementOfSeq
<1>2. /\ full \in Seq(Rec)
      /\ Len(full) = Len(w[x]) + 1
      /\ \A i \in 1..Len(w[x]) : full[i] = w[x][i]
      /\ full[Len(w[x]) + 1] = r
  BY <1>1, AppendProperties
<1>3. /\ Len(w[x]) \in Nat /\ DOMAIN w[x] = 1..Len(w[x])
      /\ DOMAIN full = 1 .. Len(w[x]) + 1
  BY <1>1, <1>2, LenProperties
<1>4. \A i \in DOMAIN full : full[i] = r \/ (i \in DOMAIN w[x] /\ full[i] = w[x][i])
  BY <1>2, <1>3
<1>5. v = [w EXCEPT ![x] = full]
  BY DEF Listed
<1>. HIDE DEF full
<1>6. /\ [w EXCEPT ![x] = full] \in Seq(Seq(Rec))
      /\ Len([w EXCEPT ![x] = full]) = Len(w)
      /\ \A j \in 1..Len(w) : [w EXCEPT ![x] = full][j] = IF j = x THEN full ELSE w[j]
  BY <1>1, <1>2, ExceptSeq
<1>7. v \in Seq(Seq(Rec)) /\ Len(v) = Len(w) /\ DOMAIN v = DOMAIN w
  BY <1>1, <1>5, <1>6, LenProperties
<1>8. v[x] = full /\ \A y \in DOMAIN w \ {x} : v[y] = w[y]
  BY <1>1, <1>5, <1>6
<1>. QED BY <1>4, <1>7, <1>8 DEF IsListed

-----------------------------------------------------------------------------
(* The parts of the invariant that a growing file leaves alone.            *)

LEMMA Contents ==
    ASSUME TypeOK
    PROVE  /\ DOMAIN waves = 1..Len(waves) /\ Len(waves) \in Nat
           /\ DOMAIN recs = 1..Len(recs) /\ Len(recs) \in Nat
           /\ \A x \in DOMAIN waves : waves[x] \in Seq(Evt) /\ Len(waves[x]) \in Nat
           /\ \A x \in DOMAIN recs : \A i \in DOMAIN recs[x] : recs[x][i] \in Rec
<1>1. waves \in Seq(Seq(Evt)) /\ recs \in Seq(Seq(Rec))
  BY DEF TypeOK, FilesTypeOK
<1>2. /\ DOMAIN waves = 1..Len(waves) /\ Len(waves) \in Nat
      /\ DOMAIN recs = 1..Len(recs) /\ Len(recs) \in Nat
  BY <1>1, LenProperties
<1>3. \A x \in DOMAIN waves : waves[x] \in Seq(Evt)
  BY <1>1, <1>2, ElementOfSeq
<1>4. \A x \in DOMAIN recs : recs[x] \in Seq(Rec)
  BY <1>1, <1>2, ElementOfSeq
<1>5. \A x \in DOMAIN recs : \A i \in DOMAIN recs[x] : recs[x][i] \in Rec
  BY <1>4, LenProperties, ElementOfSeq
<1>6. \A x \in DOMAIN waves : Len(waves[x]) \in Nat
  BY <1>3, LenProperties
<1>. QED BY <1>2, <1>3, <1>5, <1>6

LEMMA FilesKept ==
    ASSUME TypeOK, FilesInv, waves' \in Seq(Seq(Evt)), Grown(waves, waves'), recs' = recs
    PROVE  FilesInv'
<1>. SUFFICES ASSUME NEW x \in DOMAIN recs, NEW i \in DOMAIN recs[x]
              PROVE  /\ recs[x][i].file \in DOMAIN waves'
                     /\ Holds(waves'[recs[x][i].file], recs[x][i])
  BY DEF FilesInv, Holds
<1>. DEFINE r == recs[x][i]
<1>1. r \in Rec
  BY Contents
<1>2. r.file \in DOMAIN waves /\ Holds(waves[r.file], r)
  BY DEF FilesInv
<1>3. waves \in Seq(Seq(Evt))
  BY DEF TypeOK, FilesTypeOK
<1>. HIDE DEF r
<1>4. r.file \in DOMAIN waves' /\ Holds(waves'[r.file], r)
  BY <1>1, <1>2, <1>3, HoldsStays
<1>. QED BY <1>4 DEF r

(* What the web application holds open stays.                              *)
LEMMA WebKept ==
    ASSUME TypeOK, WebInv, Len(waves') \in Nat, Len(waves) <= Len(waves'),
           DOMAIN waves' = 1..Len(waves'), UNCHANGED web
    PROVE  WebInv' /\ WebTypeOK'
<1>1. DOMAIN waves = 1..Len(waves) /\ Len(waves) \in Nat
  BY Contents
<1>2. 0..Len(waves) \subseteq 0..Len(waves') /\ DOMAIN waves \subseteq DOMAIN waves'
  BY <1>1
<1>3. answer \in [ok : BOOLEAN, samples : Seq(Evt), rec : Rec \cup {NoRec},
                  next : Rec \cup {NoRec}, file : 0..Len(waves'),
                  asked : Rec \cup {NoRec}]
  BY <1>2 DEF TypeOK, WebTypeOK
<1>4. WebInv'
  BY <1>2 DEF WebInv, web
<1>5. WebTypeOK'
  BY <1>2, <1>3 DEF TypeOK, WebTypeOK, web
<1>. QED BY <1>4, <1>5

-----------------------------------------------------------------------------
(* The datalogger's steps.                                                 *)

LEMMA InitInv == Init => IInv
<1>. SUFFICES ASSUME Init PROVE IInv
  OBVIOUS
<1>1. waves = <<>> /\ recs = <<>> /\ Len(<<>>) = 0
  BY EmptySeq DEF Init
<1>2. waves \in Seq(Seq(Evt)) /\ recs \in Seq(Seq(Rec)) /\ <<>> \in Seq(Evt)
  BY <1>1, EmptySeq
<1>3. DOMAIN recs = {}
  BY <1>1, <1>2, LenProperties
<1>4. FilesTypeOK /\ WriterTypeOK
  BY <1>1, <1>2 DEF Init, FilesTypeOK, WriterTypeOK, NoFile
<1>5. WebTypeOK
  BY <1>1, <1>2 DEF Init, WebTypeOK, NoFile, Failed
<1>6. GhostsTypeOK
  <2>1. orphaned \in BOOLEAN
    BY Zenon DEF Init
  <2>. QED BY <2>1, BoundAssumption DEF Init, GhostsTypeOK
<1>. QED BY <1>3, <1>4, <1>5, <1>6
         DEF Init, IInv, TypeOK, FilesInv, OpenInv, RecInv, WebInv

LEMMA OpenEventsInv == IInv /\ OpenEvents => IInv'
<1>. SUFFICES ASSUME IInv, OpenEvents PROVE IInv'
  OBVIOUS
<1>0. writerAt' = "openIndex" /\ evFd' = events' /\ pos' = Len(waves'[events'])
  BY DEF OpenEvents
<1>. USE DEF IInv
<1>1. waves \in Seq(Seq(Evt)) /\ DOMAIN waves = 1..Len(waves) /\ Len(waves) \in Nat
  BY Contents DEF TypeOK, FilesTypeOK
<1>2. /\ waves' \in Seq(Seq(Evt)) /\ Grown(waves, waves') /\ events' \in DOMAIN waves'
      /\ Len(waves) <= Len(waves')
  <2>1. CASE events # NoFile
    <3>1. waves' = waves /\ events' \in DOMAIN waves
      BY <1>1, <2>1 DEF OpenEvents, TypeOK, FilesTypeOK, NoFile
    <3>2. Grown(waves, waves)
      BY Contents DEF Grown
    <3>. QED BY <1>1, <3>1, <3>2
  <2>2. CASE events = NoFile
    <3>1. waves' = Append(waves, <<>>) /\ events' = Len(waves')
      BY <2>2 DEF OpenEvents
    <3>2. waves' \in Seq(Seq(Evt)) /\ Len(waves') = Len(waves) + 1 /\ Grown(waves, waves')
      BY <1>1, <3>1, Created, CreatedGrows
    <3>3. DOMAIN waves' = 1..Len(waves')
      BY <3>2, LenProperties
    <3>. QED BY <1>1, <3>1, <3>2, <3>3
  <2>. QED BY <2>1, <2>2
<1>3. DOMAIN waves' = 1..Len(waves') /\ Len(waves') \in Nat
  BY <1>2, LenProperties
<1>4. waves'[events'] \in Seq(Evt) /\ Len(waves'[events']) \in Nat
  BY <1>2, <1>3, ElementOfSeq, LenProperties
<1>5. FilesInv'
  <2>1. recs' = recs /\ TypeOK /\ FilesInv
    BY DEF OpenEvents
  <2>2. waves' \in Seq(Seq(Evt)) /\ Grown(waves, waves')
    BY <1>2
  <2>. QED BY ONLY <2>1, <2>2, FilesKept, ZenonT(60)
<1>6. OpenInv' /\ RecInv'
  <2>1. OpenInv'
    BY ONLY <1>0, <1>2, SMTT(60) DEF OpenInv
  <2>2. RecInv'
    BY ONLY <1>0, SMTT(60) DEF RecInv
  <2>. QED BY <2>1, <2>2
<1>. USE DEF OpenEvents
<1>7. WebInv' /\ WebTypeOK'
  BY <1>2, <1>3, WebKept
<1>8. FilesTypeOK' /\ WriterTypeOK'
  <2>1. /\ UNCHANGED <<recs, index, ixFd, counter, rec, left>>
        /\ evFd' = events' /\ pos' \in Nat /\ writerAt' = "openIndex"
    BY <1>4
  <2>. HIDE DEF IInv, OpenEvents
  <2>2. events' \in 0..Len(waves')
    BY <1>2, <1>3
  <2>3. FilesTypeOK'
    BY <1>2, <2>1, <2>2 DEF IInv, TypeOK, FilesTypeOK
  <2>4. WriterTypeOK'
    BY <2>1, <2>2 DEF IInv, TypeOK, WriterTypeOK
  <2>. QED BY <2>3, <2>4
<1>9. GhostsTypeOK'
  BY BoundAssumption DEF TypeOK, GhostsTypeOK
<1>. QED BY <1>5, <1>6, <1>7, <1>8, <1>9 DEF TypeOK

LEMMA OpenIndexInv == IInv /\ OpenIndex => IInv'
<1>. SUFFICES ASSUME IInv, OpenIndex PROVE IInv'
  OBVIOUS
<1>1. TypeOK /\ FilesInv /\ OpenInv /\ RecInv /\ WebInv
  BY DEF IInv
<1>2. /\ UNCHANGED <<waves, events, evFd, pos, rec, left>>
      /\ UNCHANGED web /\ UNCHANGED ghosts
      /\ writerAt = "openIndex" /\ writerAt' = "idle" /\ ixFd' = index' /\ counter' = 0
  BY DEF OpenIndex
<1>3. recs \in Seq(Seq(Rec)) /\ Len(recs) \in Nat /\ DOMAIN recs = 1..Len(recs)
  BY <1>1, Contents DEF TypeOK, FilesTypeOK
<1>4. /\ recs' \in Seq(Seq(Rec)) /\ index' \in DOMAIN recs'
      /\ \A x \in DOMAIN recs' : (x \in DOMAIN recs /\ recs'[x] = recs[x]) \/ DOMAIN recs'[x] = {}
  <2>1. CASE index # NoFile
    BY <1>1, <1>3, <2>1 DEF OpenIndex, TypeOK, FilesTypeOK, NoFile
  <2>2. CASE index = NoFile
    <3>1. recs' = Append(recs, <<>>) /\ index' = Len(recs')
      BY <2>2 DEF OpenIndex
    <3>2. /\ recs' \in Seq(Seq(Rec)) /\ Len(recs') = Len(recs) + 1
          /\ recs'[Len(recs) + 1] = <<>>
          /\ \A x \in DOMAIN recs : recs'[x] = recs[x]
      BY <1>3, <3>1, Created
    <3>3. DOMAIN recs' = 1..Len(recs')
      BY <3>2, LenProperties
    <3>4. DOMAIN recs'[Len(recs) + 1] = {}
      BY <3>2
    <3>. QED BY <1>3, <3>1, <3>2, <3>3, <3>4
  <2>. QED BY <2>1, <2>2
<1>5. DOMAIN recs' = 1..Len(recs') /\ Len(recs') \in Nat
  BY <1>4, LenProperties
<1>6. FilesInv'
  <2>. SUFFICES ASSUME NEW x \in DOMAIN recs', NEW i \in DOMAIN recs'[x]
                PROVE  (/\ recs[x][i].file \in DOMAIN waves
                        /\ Holds(waves[recs[x][i].file], recs[x][i]))'
    BY DEF FilesInv
  <2>1. waves' = waves /\ x \in DOMAIN recs /\ recs'[x] = recs[x] /\ FilesInv
    BY <1>1, <1>2, <1>4
  <2>. QED BY ONLY <2>1 DEF FilesInv, Holds
<1>7. OpenInv' /\ RecInv'
  BY <1>1, <1>2, <1>4 DEF OpenInv, RecInv
<1>8. WebInv' /\ WebTypeOK'
  BY <1>1, <1>2, WebKept, Contents
<1>9. FilesTypeOK' /\ WriterTypeOK' /\ GhostsTypeOK'
  <2>1. index' \in 0..Len(recs')
    BY <1>4, <1>5
  <2>2. FilesTypeOK'
    BY <1>1, <1>2, <1>4, <2>1 DEF TypeOK, FilesTypeOK
  <2>3. WriterTypeOK'
    BY <1>1, <1>2, <2>1 DEF TypeOK, WriterTypeOK
  <2>4. GhostsTypeOK'
    BY <1>1, <1>2 DEF TypeOK, GhostsTypeOK, ghosts
  <2>. QED BY <2>2, <2>3, <2>4
<1>. QED BY <1>6, <1>7, <1>8, <1>9 DEF IInv, TypeOK

LEMMA CrashInv == IInv /\ Crash => IInv'
<1>. SUFFICES ASSUME IInv, Crash PROVE IInv'
  OBVIOUS
<1>1. TypeOK /\ FilesInv /\ WebInv
  BY DEF IInv
<1>2. /\ UNCHANGED <<waves, recs, events, index, recorded, starts, deletes, listable>>
      /\ UNCHANGED web
      /\ writerAt' = "down" /\ evFd' = NoFile /\ ixFd' = NoFile
      /\ pos' = 0 /\ counter' = 0 /\ rec' = NoRec /\ left' = 0
  BY DEF Crash, files
<1>3. FilesInv'
  BY <1>1, <1>2 DEF FilesInv, Holds
<1>4. OpenInv' /\ RecInv'
  BY <1>2 DEF OpenInv, RecInv
<1>5. WebInv' /\ WebTypeOK'
  BY <1>1, <1>2, WebKept, Contents
<1>6. FilesTypeOK' /\ WriterTypeOK'
  BY <1>1, <1>2, Contents DEF TypeOK, FilesTypeOK, WriterTypeOK, NoFile
<1>7. orphaned' \in BOOLEAN
  BY <1>1, Zenon DEF Crash, TypeOK, GhostsTypeOK
<1>8. GhostsTypeOK'
  BY <1>1, <1>2, <1>7 DEF TypeOK, GhostsTypeOK
<1>. QED BY <1>3, <1>4, <1>5, <1>6, <1>8 DEF IInv, TypeOK

LEMMA BeginInv == IInv /\ (\E n \in Lengths : Begin(n)) => IInv'
<1>. SUFFICES ASSUME IInv, NEW n \in Lengths, Begin(n) PROVE IInv'
  OBVIOUS
<1>1. TypeOK /\ FilesInv /\ OpenInv /\ WebInv
  BY DEF IInv
<1>2. /\ UNCHANGED <<waves, recs, events, index, evFd, ixFd, pos, left>>
      /\ UNCHANGED web /\ UNCHANGED <<starts, deletes, listable, orphaned>>
      /\ writerAt = "idle" /\ writerAt' = "body"
      /\ recorded < MaxEvents /\ recorded' = recorded + 1 /\ counter' = counter + 1
      /\ rec' = [id |-> counter, off |-> pos, len |-> n, of |-> recorded + 1, file |-> evFd]
  BY DEF Begin, files
<1>3. recorded + 1 \in Evt
  BY <1>1, <1>2, BoundAssumption DEF Evt, TypeOK, GhostsTypeOK
<1>4. evFd \in Nat /\ pos \in Nat /\ counter \in Nat
  BY <1>1, Contents DEF TypeOK, WriterTypeOK
<1>5. rec' \in Rec
  BY <1>2, <1>3, <1>4 DEF Rec
<1>6. FilesInv'
  BY <1>1, <1>2 DEF FilesInv, Holds
<1>7. OpenInv' /\ RecInv'
  BY <1>1, <1>2, <1>5 DEF OpenInv, RecInv
<1>8. WebInv' /\ WebTypeOK'
  BY <1>1, <1>2, WebKept, Contents
<1>9. FilesTypeOK' /\ WriterTypeOK' /\ GhostsTypeOK'
  <2>1. FilesTypeOK'
    BY <1>1, <1>2 DEF TypeOK, FilesTypeOK
  <2>2. WriterTypeOK'
    BY <1>1, <1>2, <1>4, <1>5 DEF TypeOK, WriterTypeOK
  <2>3. GhostsTypeOK'
    BY <1>1, <1>2, BoundAssumption DEF TypeOK, GhostsTypeOK
  <2>. QED BY <2>1, <2>2, <2>3
<1>. QED BY <1>6, <1>7, <1>8, <1>9 DEF IInv, TypeOK

LEMMA WriteBodyInv == IInv /\ (\E n \in 0..rec.len : WriteBody(n)) => IInv'
<1>. SUFFICES ASSUME IInv, NEW n \in 0..rec.len, WriteBody(n) PROVE IInv'
  OBVIOUS
<1>1. TypeOK /\ FilesInv /\ OpenInv /\ RecInv /\ WebInv
  BY DEF IInv
<1>. DEFINE k == rec.len - n
<1>2. /\ UNCHANGED <<recs, events, index, evFd, ixFd, pos, counter, rec>>
      /\ UNCHANGED web /\ UNCHANGED ghosts
      /\ writerAt = "body" /\ writerAt' = "flushEvents" /\ left' = n
      /\ waves' = Extended(waves, evFd, rec.of, k)
  BY DEF WriteBody, Extended
<1>3. /\ rec \in Rec /\ rec.file = evFd /\ rec.off = pos
      /\ evFd \in DOMAIN waves /\ pos = Len(waves[evFd])
  BY <1>1, <1>2 DEF RecInv, OpenInv
<1>4. rec.of \in Evt /\ rec.len \in Nat /\ n \in Nat /\ k \in Nat
  <2>1. rec.of \in Evt /\ rec.len \in Nat
    BY <1>3, LengthsAssumption DEF Rec
  <2>. QED BY <2>1
<1>5. waves \in Seq(Seq(Evt)) /\ DOMAIN waves = 1..Len(waves) /\ Len(waves) \in Nat
  BY <1>1, Contents DEF TypeOK, FilesTypeOK
<1>. HIDE DEF k
<1>6. /\ waves' \in Seq(Seq(Evt)) /\ Len(waves') = Len(waves) /\ DOMAIN waves' = DOMAIN waves
      /\ Len(waves'[evFd]) = Len(waves[evFd]) + k
      /\ \A s \in 1..k : waves'[evFd][Len(waves[evFd]) + s] = rec.of
      /\ Grown(waves, waves')
  <2>1. IsExtension(waves', waves, evFd, rec.of, k)
    BY <1>2, <1>3, <1>4, <1>5, Written
  <2>. QED BY <2>1 DEF IsExtension
<1>7. FilesInv'
  BY <1>1, <1>2, <1>6, FilesKept
<1>8. OpenInv'
  BY <1>1, <1>2, <1>6 DEF OpenInv
<1>9. RecInv'
  <2>1. left' <= rec.len /\ k = rec.len - left'
    BY <1>2, <1>4 DEF k
  <2>2. Len(waves'[evFd]) = rec.off + (rec.len - left')
    BY <1>3, <1>6, <2>1
  <2>3. \A s \in 1 .. rec.len - left' : waves'[evFd][rec.off + s] = rec.of
    BY <1>3, <1>6, <2>1
  <2>. QED BY <1>2, <1>3, <2>1, <2>2, <2>3 DEF RecInv
<1>10. WebInv' /\ WebTypeOK'
  BY <1>1, <1>2, <1>5, <1>6, WebKept
<1>11. FilesTypeOK' /\ WriterTypeOK' /\ GhostsTypeOK'
  <2>1. FilesTypeOK'
    BY <1>1, <1>2, <1>6 DEF TypeOK, FilesTypeOK
  <2>2. WriterTypeOK'
    BY <1>1, <1>2, <1>4, <1>6 DEF TypeOK, WriterTypeOK
  <2>3. GhostsTypeOK'
    BY <1>1, <1>2 DEF TypeOK, GhostsTypeOK, ghosts
  <2>. QED BY <2>1, <2>2, <2>3
<1>. QED BY <1>7, <1>8, <1>9, <1>10, <1>11 DEF IInv, TypeOK

(* With the flush the whole waveform is where the record says.             *)
LEMMA FlushEventsInv == IInv /\ FlushEvents => IInv'
<1>. SUFFICES ASSUME IInv, FlushEvents PROVE IInv'
  OBVIOUS
<1>1. TypeOK /\ FilesInv /\ OpenInv /\ RecInv /\ WebInv
  BY DEF IInv
<1>2. /\ UNCHANGED <<recs, events, index, evFd, ixFd, counter, rec>>
      /\ UNCHANGED web /\ UNCHANGED ghosts
      /\ writerAt = "flushEvents" /\ writerAt' = "flushIndex"
      /\ left' = 0 /\ pos' = pos + rec.len
      /\ waves' = Extended(waves, evFd, rec.of, left)
  BY DEF FlushEvents, Extended
<1>3. /\ rec \in Rec /\ rec.file = evFd /\ rec.off = pos
      /\ evFd \in DOMAIN waves /\ left <= rec.len
      /\ Len(waves[evFd]) = rec.off + (rec.len - left)
      /\ \A s \in 1 .. rec.len - left : waves[evFd][rec.off + s] = rec.of
  BY <1>1, <1>2 DEF RecInv, OpenInv
<1>4. /\ rec.of \in Evt /\ rec.len \in Nat /\ rec.off \in Nat
      /\ left \in Nat /\ pos \in Nat
  BY <1>1, <1>3, LengthsAssumption DEF Rec, TypeOK, WriterTypeOK
<1>5. waves \in Seq(Seq(Evt)) /\ DOMAIN waves = 1..Len(waves) /\ Len(waves) \in Nat
  BY <1>1, Contents DEF TypeOK, FilesTypeOK
<1>6. /\ waves' \in Seq(Seq(Evt)) /\ Len(waves') = Len(waves) /\ DOMAIN waves' = DOMAIN waves
      /\ Len(waves'[evFd]) = Len(waves[evFd]) + left
      /\ \A s \in 1..Len(waves[evFd]) : waves'[evFd][s] = waves[evFd][s]
      /\ \A s \in 1..left : waves'[evFd][Len(waves[evFd]) + s] = rec.of
      /\ Grown(waves, waves')
  <2>1. IsExtension(waves', waves, evFd, rec.of, left)
    BY <1>2, <1>3, <1>4, <1>5, Written
  <2>. QED BY <2>1 DEF IsExtension
<1>7. FilesInv'
  BY <1>1, <1>2, <1>6, FilesKept
<1>8. OpenInv'
  BY <1>1, <1>2, <1>6 DEF OpenInv
<1>9. RecInv'
  <2>. DEFINE o == rec.off
              l == rec.len
              a == waves[evFd]
              b == waves'[evFd]
  <2>1. /\ o \in Nat /\ l \in Nat /\ left \in 0..l
        /\ Len(a) = o + (l - left) /\ Len(b) = Len(a) + left
        /\ \A s \in 1 .. l - left : a[o + s] = rec.of
        /\ \A s \in 1..Len(a) : b[s] = a[s]
        /\ \A s \in 1..left : b[Len(a) + s] = rec.of
    BY <1>3, <1>4, <1>6
  <2>. HIDE DEF o, l, a, b
  <2>2. Len(b) = o + l
    BY <2>1
  <2>3. \A s \in 1..l : b[o + s] = rec.of
    <3>. TAKE s \in 1..l
    <3>. DEFINE k == o + s
                t == s - (l - left)
    <3>1. CASE s <= l - left
      <4>1. k \in 1..Len(a) /\ s \in 1 .. l - left
        BY <2>1, <3>1
      <4>2. a[k] = rec.of
        BY <2>1, <4>1
      <4>. HIDE DEF k
      <4>3. b[k] = a[k]
        BY <2>1, <4>1
      <4>. QED BY <4>2, <4>3 DEF k
    <3>2. CASE s > l - left
      <4>1. t \in 1..left /\ k = Len(a) + t
        BY <2>1, <3>2
      <4>. HIDE DEF k, t
      <4>2. b[Len(a) + t] = rec.of
        BY <2>1, <4>1
      <4>. QED BY <4>1, <4>2 DEF k
    <3>. QED BY <2>1, <3>1, <3>2
  <2>4. pos' = Len(waves'[evFd])
    BY <1>2, <1>3, <2>2 DEF o, l, b
  <2>5. rec.off + rec.len = Len(waves'[evFd])
    BY <2>2 DEF o, l, b
  <2>6. \A s \in 1..rec.len : waves'[evFd][rec.off + s] = rec.of
    BY <2>3 DEF o, l, b
  <2>7. rec.off + rec.len <= Len(waves'[evFd])
    BY <1>4, <2>5
  <2>8. Holds(waves'[evFd], rec)
    BY <2>6, <2>7 DEF Holds
  <2>9. writerAt' = "flushIndex" /\ rec' = rec /\ evFd' = evFd /\ rec \in Rec /\ rec.file = evFd
    BY <1>2, <1>3
  <2>10. Holds(waves[evFd], rec)'
    BY ONLY <2>8, <2>9, Zenon DEF Holds
  <2>. QED BY ONLY <2>4, <2>9, <2>10 DEF RecInv
<1>10. WebInv' /\ WebTypeOK'
  BY <1>1, <1>2, <1>5, <1>6, WebKept
<1>11. FilesTypeOK' /\ WriterTypeOK' /\ GhostsTypeOK'
  <2>1. FilesTypeOK'
    BY <1>1, <1>2, <1>6 DEF TypeOK, FilesTypeOK
  <2>2. WriterTypeOK'
    <3>1. WriterTypeOK /\ pos' \in Nat /\ Len(waves') = Len(waves)
      BY <1>1, <1>2, <1>4, <1>6 DEF TypeOK
    <3>2. /\ UNCHANGED <<evFd, ixFd, counter, rec, recs>>
          /\ writerAt' = "flushIndex" /\ left' = 0
      BY <1>2
    <3>. QED BY ONLY <3>1, <3>2 DEF WriterTypeOK
  <2>3. GhostsTypeOK'
    BY <1>1, <1>2 DEF TypeOK, GhostsTypeOK, ghosts
  <2>. QED BY <2>1, <2>2, <2>3
<1>. QED BY <1>7, <1>8, <1>9, <1>10, <1>11 DEF IInv, TypeOK

(* And only then the record reaches the index.                             *)
LEMMA FlushIndexInv == IInv /\ FlushIndex => IInv'
<1>. SUFFICES ASSUME IInv, FlushIndex PROVE IInv'
  OBVIOUS
<1>1. TypeOK /\ FilesInv /\ OpenInv /\ RecInv /\ WebInv
  BY DEF IInv
<1>2. /\ UNCHANGED <<waves, events, index, evFd, ixFd, pos, counter, rec, left>>
      /\ UNCHANGED web /\ UNCHANGED <<recorded, starts, deletes, orphaned>>
      /\ writerAt = "flushIndex" /\ writerAt' \in {"rename", "idle"}
      /\ listable' = listable \cup {rec.of}
      /\ recs' = [recs EXCEPT ![ixFd] = Append(@, rec)]
  BY DEF FlushIndex
<1>3. /\ rec \in Rec /\ rec.file = evFd /\ evFd \in DOMAIN waves /\ ixFd \in DOMAIN recs
      /\ pos = Len(waves[evFd]) /\ Holds(waves[evFd], rec)
  BY <1>1, <1>2 DEF RecInv, OpenInv
<1>4. recs \in Seq(Seq(Rec))
  BY <1>1 DEF TypeOK, FilesTypeOK
<1>5. /\ recs' \in Seq(Seq(Rec)) /\ Len(recs') = Len(recs) /\ DOMAIN recs' = DOMAIN recs
      /\ \A x \in DOMAIN recs \ {ixFd} : recs'[x] = recs[x]
      /\ \A i \in DOMAIN recs'[ixFd] :
            recs'[ixFd][i] = rec \/ (i \in DOMAIN recs[ixFd] /\ recs'[ixFd][i] = recs[ixFd][i])
  <2>1. recs' = Listed(recs, ixFd, rec) /\ ixFd \in DOMAIN recs /\ rec \in Rec
    BY <1>2, <1>3 DEF Listed
  <2>2. IsListed(recs', recs, ixFd, rec)
    BY ONLY <1>4, <2>1, Indexed
  <2>. QED BY ONLY <2>2 DEF IsListed
<1>6. FilesInv'
  <2>. SUFFICES ASSUME NEW x \in DOMAIN recs', NEW i \in DOMAIN recs'[x]
                PROVE  (/\ recs[x][i].file \in DOMAIN waves
                        /\ Holds(waves[recs[x][i].file], recs[x][i]))'
    BY DEF FilesInv
  <2>. SUFFICES recs'[x][i].file \in DOMAIN waves /\ Holds(waves[recs'[x][i].file], recs'[x][i])
    BY <1>2 DEF Holds
  <2>1. x \in DOMAIN recs
    BY <1>5
  <2>2. recs'[x][i] = rec \/ (i \in DOMAIN recs[x] /\ recs'[x][i] = recs[x][i])
    BY <1>5
  <2>3. CASE recs'[x][i] = rec
    BY <1>3, <2>3
  <2>4. CASE i \in DOMAIN recs[x] /\ recs'[x][i] = recs[x][i]
    BY <1>1, <2>1, <2>4 DEF FilesInv
  <2>. QED BY <2>2, <2>3, <2>4, ZenonT(60)
<1>7. OpenInv'
  BY <1>1, <1>2, <1>3, <1>5 DEF OpenInv
<1>8. RecInv'
  BY <1>2 DEF RecInv
<1>9. WebInv' /\ WebTypeOK'
  BY <1>1, <1>2, Contents, WebKept
<1>10. FilesTypeOK' /\ WriterTypeOK' /\ GhostsTypeOK'
  <2>1. FilesTypeOK'
    BY <1>1, <1>2, <1>5 DEF TypeOK, FilesTypeOK
  <2>2. WriterTypeOK'
    BY <1>1, <1>2, <1>5 DEF TypeOK, WriterTypeOK
  <2>3. rec.of \in Evt
    BY <1>3 DEF Rec
  <2>4. GhostsTypeOK'
    BY <1>1, <1>2, <2>3 DEF TypeOK, GhostsTypeOK
  <2>. QED BY <2>1, <2>2, <2>4
<1>. QED BY <1>6, <1>7, <1>8, <1>9, <1>10 DEF IInv, TypeOK

LEMMA RenameInv == IInv /\ Rename => IInv'
<1>. SUFFICES ASSUME IInv, Rename PROVE IInv'
  OBVIOUS
<1>1. TypeOK /\ FilesInv /\ OpenInv /\ WebInv
  BY DEF IInv
<1>2. /\ UNCHANGED <<waves, recs, index, ixFd, pos, counter, rec, left>>
      /\ UNCHANGED web /\ UNCHANGED ghosts
      /\ writerAt = "rename" /\ writerAt' = "reopen" /\ events' = NoFile /\ evFd' = NoFile
  BY DEF Rename
<1>3. FilesInv'
  BY <1>1, <1>2 DEF FilesInv, Holds
<1>4. OpenInv' /\ RecInv'
  BY <1>1, <1>2 DEF OpenInv, RecInv
<1>5. WebInv' /\ WebTypeOK'
  BY <1>1, <1>2, Contents, WebKept
<1>6. FilesTypeOK' /\ WriterTypeOK'
  BY <1>1, <1>2, Contents DEF TypeOK, FilesTypeOK, WriterTypeOK, NoFile
<1>7. GhostsTypeOK'
  BY <1>1, <1>2 DEF TypeOK, GhostsTypeOK, ghosts
<1>. QED BY <1>3, <1>4, <1>5, <1>6, <1>7 DEF IInv, TypeOK

LEMMA ReopenInv == IInv /\ Reopen => IInv'
<1>. SUFFICES ASSUME IInv, Reopen PROVE IInv'
  OBVIOUS
<1>1. TypeOK /\ FilesInv /\ OpenInv /\ WebInv
  BY DEF IInv
<1>2. /\ UNCHANGED <<recs, index, ixFd, counter, rec, left>>
      /\ UNCHANGED web /\ UNCHANGED ghosts
      /\ writerAt = "reopen" /\ writerAt' = "idle"
      /\ waves' = Append(waves, <<>>)
      /\ events' = Len(waves') /\ evFd' = Len(waves') /\ pos' = 0
  BY DEF Reopen
<1>3. waves \in Seq(Seq(Evt)) /\ Len(waves) \in Nat
  BY <1>1, Contents DEF TypeOK, FilesTypeOK
<1>4. /\ waves' \in Seq(Seq(Evt)) /\ Len(waves') = Len(waves) + 1
      /\ Len(waves'[Len(waves')]) = 0 /\ Grown(waves, waves')
  BY <1>2, <1>3, Created, CreatedGrows
<1>5. DOMAIN waves' = 1..Len(waves') /\ Len(waves') \in Nat /\ Len(waves) <= Len(waves')
  BY <1>3, <1>4, LenProperties
<1>6. FilesInv'
  BY <1>1, <1>2, <1>4, FilesKept
<1>7. OpenInv' /\ RecInv'
  BY <1>1, <1>2, <1>4, <1>5 DEF OpenInv, RecInv
<1>8. WebInv' /\ WebTypeOK'
  BY <1>1, <1>2, <1>5, WebKept
<1>9. FilesTypeOK' /\ WriterTypeOK' /\ GhostsTypeOK'
  <2>1. FilesTypeOK'
    BY <1>1, <1>2, <1>4, <1>5 DEF TypeOK, FilesTypeOK
  <2>2. WriterTypeOK'
    BY <1>1, <1>2, <1>5 DEF TypeOK, WriterTypeOK
  <2>3. GhostsTypeOK'
    BY <1>1, <1>2 DEF TypeOK, GhostsTypeOK, ghosts
  <2>. QED BY <2>1, <2>2, <2>3
<1>. QED BY <1>6, <1>7, <1>8, <1>9 DEF IInv, TypeOK

-----------------------------------------------------------------------------
(* The web application's steps.  They write neither file, so only what it  *)
(* holds itself is to be shown.                                            *)

LEMMA WebSide ==
    ASSUME IInv, WebInv', WebTypeOK', events' \in {events, NoFile}, index' \in {index, NoFile},
           UNCHANGED <<waves, recs>>, UNCHANGED writer, GhostsTypeOK'
    PROVE  IInv'
<1>1. TypeOK /\ FilesInv /\ OpenInv /\ RecInv
  BY DEF IInv
<1>2. UNCHANGED <<writerAt, evFd, ixFd, pos, counter, rec, left>>
  BY DEF writer
<1>3. FilesInv'
  BY <1>1 DEF FilesInv, Holds
<1>4. OpenInv'
  BY <1>1, <1>2 DEF OpenInv
<1>5. RecInv'
  BY <1>1, <1>2 DEF RecInv, Holds
<1>6. FilesTypeOK'
  BY <1>1, Contents, SMTT(60) DEF TypeOK, FilesTypeOK, NoFile
<1>7. WriterTypeOK'
  BY <1>1, <1>2 DEF TypeOK, WriterTypeOK
<1>. QED BY <1>3, <1>4, <1>5, <1>6, <1>7 DEF IInv, TypeOK

LEMMA AskInv == IInv /\ Ask => IInv'
<1>. SUFFICES ASSUME IInv, Ask PROVE IInv'
  OBVIOUS
<1>1. TypeOK /\ WebInv
  BY DEF IInv
<1>2. UNCHANGED files /\ UNCHANGED writer /\ UNCHANGED ghosts
      /\ UNCHANGED <<webAt, found, next, evRd, amount, answer>>
  BY DEF Ask
<1>3. index \in DOMAIN recs /\ \E i \in DOMAIN recs[index] : asked' = recs[index][i]
  BY <1>1, Contents DEF Ask, TypeOK, FilesTypeOK, NoFile
<1>4. asked' \in Rec
  BY <1>1, <1>3, Contents
<1>5. WebInv' /\ WebTypeOK' /\ GhostsTypeOK'
  <2>1. WebInv'
    BY <1>1, <1>2 DEF WebInv, files
  <2>2. WebTypeOK'
    BY <1>1, <1>2, <1>4 DEF TypeOK, WebTypeOK, files
  <2>3. GhostsTypeOK'
    BY <1>1, <1>2 DEF TypeOK, GhostsTypeOK, ghosts
  <2>. QED BY <2>1, <2>2, <2>3
<1>. QED BY <1>2, <1>5, WebSide DEF files

Answer == [ok : BOOLEAN, samples : Seq(Evt), rec : Rec \cup {NoRec},
           next : Rec \cup {NoRec}, file : 0..Len(waves), asked : Rec \cup {NoRec}]

LEMMA FailedType == TypeOK => Failed \in Answer
<1>. SUFFICES ASSUME TypeOK PROVE Failed \in Answer
  OBVIOUS
<1>1. <<>> \in Seq(Evt)
  BY EmptySeq
<1>2. NoFile \in 0..Len(waves)
  BY Contents DEF NoFile
<1>. QED BY <1>1, <1>2 DEF Failed, Answer

LEMMA ReturnInv ==
    ASSUME IInv, NEW a \in Answer, Return(a),
           UNCHANGED files, UNCHANGED writer, UNCHANGED ghosts
    PROVE  IInv'
<1>1. TypeOK
  BY DEF IInv
<1>2. /\ answer' = a /\ asked' = NoRec /\ found' = NoRec /\ next' = NoRec
      /\ evRd' = NoFile /\ amount' = 0 /\ webAt' = "idle"
  BY DEF Return
<1>3. UNCHANGED <<waves, recs, events, index>>
  BY DEF files
<1>4. WebInv'
  BY <1>2 DEF WebInv
<1>5. WebTypeOK'
  <2>1. evRd' \in 0..Len(waves)
    BY <1>1, <1>2, Contents DEF NoFile
  <2>. QED BY <1>2, <1>3, <2>1 DEF WebTypeOK, Answer
<1>6. GhostsTypeOK'
  BY <1>1 DEF TypeOK, GhostsTypeOK, ghosts
<1>. QED BY <1>3, <1>4, <1>5, <1>6, WebSide

LEMMA ScanInv == IInv /\ Scan => IInv'
<1>. SUFFICES ASSUME IInv, Scan PROVE IInv'
  OBVIOUS
<1>1. TypeOK /\ WebInv
  BY DEF IInv
<1>2. UNCHANGED files /\ UNCHANGED writer /\ UNCHANGED ghosts
  BY DEF Scan
<1>3. CASE Return(Failed)
  BY <1>1, <1>2, <1>3, FailedType, ReturnInv
<1>4. CASE /\ index # NoFile
           /\ \E i \in Matches :
                 /\ found' = recs[index][i]
                 /\ next' = IF i < Len(recs[index]) THEN recs[index][i + 1] ELSE NoRec
                 /\ webAt' = "open"
                 /\ UNCHANGED <<asked, evRd, amount, answer>>
  <2>1. PICK i \in Matches :
                 /\ found' = recs[index][i]
                 /\ next' = IF i < Len(recs[index]) THEN recs[index][i + 1] ELSE NoRec
                 /\ webAt' = "open"
                 /\ UNCHANGED <<asked, evRd, amount, answer>>
    BY <1>4
  <2>2. index \in DOMAIN recs /\ recs \in Seq(Seq(Rec))
    BY <1>1, <1>4, Contents DEF TypeOK, FilesTypeOK, NoFile
  <2>3. recs[index] \in Seq(Rec)
    BY <2>2, LenProperties, ElementOfSeq
  <2>4. DOMAIN recs[index] = 1..Len(recs[index]) /\ Len(recs[index]) \in Nat
    BY <2>3, LenProperties
  <2>5. i \in DOMAIN recs[index]
    BY DEF Matches
  <2>6. found' \in Rec
    BY <1>1, <2>1, <2>2, <2>5, Contents
  <2>7. next' \in Rec \cup {NoRec}
    <3>1. CASE i < Len(recs[index])
      <4>1. i + 1 \in DOMAIN recs[index]
        BY <2>4, <2>5, <3>1
      <4>. QED BY <1>1, <2>1, <2>2, <3>1, <4>1, Contents
    <3>2. CASE ~(i < Len(recs[index]))
      BY <2>1, <3>2
    <3>. QED BY <3>1, <3>2
  <2>8. WebInv' /\ WebTypeOK' /\ GhostsTypeOK'
    <3>1. WebInv'
      BY <2>1, <2>6 DEF WebInv
    <3>2. WebTypeOK'
      BY <1>1, <1>2, <2>1, <2>6, <2>7 DEF TypeOK, WebTypeOK, files
    <3>3. GhostsTypeOK'
      BY <1>1, <1>2 DEF TypeOK, GhostsTypeOK, ghosts
    <3>. QED BY <3>1, <3>2, <3>3
  <2>. QED BY <1>2, <2>8, WebSide DEF files
<1>. QED BY <1>3, <1>4 DEF Scan

LEMMA OpenFileInv == IInv /\ Open => IInv'
<1>. SUFFICES ASSUME IInv, Open PROVE IInv'
  OBVIOUS
<1>1. TypeOK /\ WebInv
  BY DEF IInv
<1>2. UNCHANGED files /\ UNCHANGED writer /\ UNCHANGED ghosts /\ webAt = "open"
  BY DEF Open
<1>3. CASE events = NoFile
  BY <1>1, <1>2, <1>3, FailedType, ReturnInv DEF Open
<1>4. CASE events # NoFile
  <2>1. /\ evRd' = events /\ webAt' = "size"
        /\ UNCHANGED <<asked, found, next, amount, answer>>
    BY <1>4 DEF Open
  <2>2. events \in DOMAIN waves /\ events \in 0..Len(waves)
    BY <1>1, <1>4, Contents DEF TypeOK, FilesTypeOK, NoFile
  <2>3. WebInv'
    BY <1>1, <1>2, <2>1, <2>2 DEF WebInv, files
  <2>4. WebTypeOK'
    BY <1>1, <1>2, <2>1, <2>2 DEF TypeOK, WebTypeOK, files
  <2>5. GhostsTypeOK'
    BY <1>1, <1>2 DEF TypeOK, GhostsTypeOK, ghosts
  <2>. QED BY <1>2, <2>3, <2>4, <2>5, WebSide DEF files
<1>. QED BY <1>3, <1>4

LEMMA SizeInv == IInv /\ Size => IInv'
<1>. SUFFICES ASSUME IInv, Size PROVE IInv'
  OBVIOUS
<1>1. TypeOK /\ WebInv
  BY DEF IInv
<1>2. /\ UNCHANGED files /\ UNCHANGED writer /\ UNCHANGED ghosts
      /\ UNCHANGED <<asked, found, next, evRd, answer>>
      /\ webAt = "size" /\ webAt' = "read"
      /\ amount' = (IF next # NoRec THEN next.off ELSE Len(waves[evRd])) - found.off
  BY DEF Size
<1>3. found \in Rec /\ evRd \in DOMAIN waves /\ Len(waves[evRd]) \in Nat
  BY <1>1, <1>2, Contents DEF WebInv
<1>4. amount' \in Int
  <2>1. found.off \in Nat
    BY <1>3 DEF Rec
  <2>2. next # NoRec => next.off \in Nat
    BY <1>1 DEF TypeOK, WebTypeOK, Rec
  <2>. QED BY <1>2, <1>3, <2>1, <2>2
<1>5. WebInv'
  BY <1>2, <1>3 DEF WebInv, files
<1>6. WebTypeOK'
  BY <1>1, <1>2, <1>4 DEF TypeOK, WebTypeOK, files
<1>7. GhostsTypeOK'
  BY <1>1, <1>2 DEF TypeOK, GhostsTypeOK, ghosts
<1>. QED BY <1>2, <1>5, <1>6, <1>7, WebSide DEF files

LEMMA ReadInv == IInv /\ Read => IInv'
<1>. SUFFICES ASSUME IInv, Read PROVE IInv'
  OBVIOUS
<1>1. TypeOK /\ WebInv
  BY DEF IInv
<1>2. UNCHANGED files /\ UNCHANGED writer /\ UNCHANGED ghosts /\ webAt = "read"
  BY DEF Read
<1>. DEFINE m == found.off + 1
            n == found.off + amount
            part == SubSeq(waves[evRd], m, n)
            a == [ok |-> TRUE, asked |-> asked, rec |-> found, next |-> next, file |-> evRd,
                  samples |-> part]
<1>3. CASE amount >= 0 /\ Len(waves[evRd]) >= n
  <2>1. found \in Rec /\ evRd \in DOMAIN waves /\ waves[evRd] \in Seq(Evt)
    BY <1>1, <1>2, Contents DEF WebInv
  <2>2. /\ found.off \in Nat /\ amount \in Int /\ Len(waves[evRd]) \in Nat
        /\ m \in Int /\ n \in Int
    BY <1>1, <2>1, LenProperties DEF Rec, TypeOK, WebTypeOK
  <2>3. \A i \in m..n : waves[evRd][i] \in Evt
    <3>1. \A i \in m..n : i \in 1..Len(waves[evRd])
      BY <1>3, <2>2
    <3>. QED BY <2>1, <3>1, ElementOfSeq
  <2>4. part \in Seq(Evt)
    <3>. HIDE DEF m, n
    <3>. QED BY <2>2, <2>3, SubSeqProperties
  <2>5. a \in Answer
    <3>. HIDE DEF part
    <3>. QED BY <1>1, <2>4 DEF Answer, TypeOK, WebTypeOK
  <2>6. Return(a)
    BY <1>3 DEF Read
  <2>. HIDE DEF a
  <2>. QED BY <1>2, <2>5, <2>6, ReturnInv
<1>4. CASE ~(amount >= 0 /\ Len(waves[evRd]) >= n)
  <2>1. Return(Failed)
    BY <1>4 DEF Read
  <2>. QED BY <1>1, <1>2, <2>1, FailedType, ReturnInv
<1>. QED BY <1>3, <1>4

LEMMA DeleteInv == IInv /\ (DeleteEvents \/ DeleteIndex) => IInv'
<1>. SUFFICES ASSUME IInv, DeleteEvents \/ DeleteIndex PROVE IInv'
  OBVIOUS
<1>1. TypeOK /\ WebInv
  BY DEF IInv
<1>2. /\ UNCHANGED <<waves, recs>> /\ UNCHANGED writer
      /\ UNCHANGED <<asked, found, next, evRd, amount, answer, recorded, starts, orphaned>>
      /\ events' \in {events, NoFile} /\ index' \in {index, NoFile}
      /\ webAt' \in {"idle", "deleteIndex"} /\ listable' \in {listable, {}}
  BY DEF DeleteEvents, DeleteIndex
<1>3. deletes' \in 0..MaxDeletes
  BY <1>1, BoundAssumption DEF DeleteEvents, DeleteIndex, TypeOK, GhostsTypeOK
<1>4. WebInv'
  BY <1>2 DEF WebInv
<1>5. WebTypeOK'
  BY <1>1, <1>2 DEF TypeOK, WebTypeOK
<1>6. GhostsTypeOK'
  BY <1>1, <1>2, <1>3 DEF TypeOK, GhostsTypeOK
<1>. QED BY <1>2, <1>4, <1>5, <1>6, WebSide

-----------------------------------------------------------------------------
(* The theorems.                                                           *)

(* No step, of either process or a crash, breaks the invariant.            *)
LEMMA StepInv == IInv /\ [Next]_vars => IInv'
<1>. SUFFICES ASSUME IInv, [Next]_vars PROVE IInv'
  OBVIOUS
<1>1. CASE Writer
  BY <1>1, OpenEventsInv, OpenIndexInv, CrashInv, BeginInv, WriteBodyInv, FlushEventsInv,
     FlushIndexInv, RenameInv, ReopenInv DEF Writer
<1>2. CASE Web
  BY <1>2, AskInv, ScanInv, OpenFileInv, SizeInv, ReadInv, DeleteInv DEF Web
<1>3. CASE UNCHANGED vars
  BY <1>3 DEF vars, files, writer, web, ghosts, IInv, TypeOK, FilesTypeOK, WriterTypeOK,
     WebTypeOK, GhostsTypeOK, FilesInv, OpenInv, RecInv, WebInv, Holds
<1>. QED BY <1>1, <1>2, <1>3 DEF Next

THEOREM Invariance == Spec => []IInv
<1>. QED BY InitInv, StepInv, PTL DEF Spec

(* Neither process ever uses a file it has not opened (writer.c:139-257,   *)
(* event_service.py:233).                                                  *)
THEOREM TypeCorrect == Spec => []TypeOK
<1>1. IInv => TypeOK
  BY DEF IInv
<1>. QED BY Invariance, <1>1, PTL

(* Every index record points at its own event's samples, whole and in the  *)
(* file it was written for, through crashes, restarts, rotations and       *)
(* deletions (writer.c:238-257).                                           *)
THEOREM RecordsHold == Spec => []WaveformStays
<1>1. IInv => WaveformStays
  <2>. SUFFICES ASSUME IInv, NEW x \in DOMAIN recs, NEW r \in Records(x)
                PROVE  Holds(waves[r.file], r)
    BY DEF WaveformStays
  <2>1. x # NoFile
    BY Contents DEF IInv, NoFile
  <2>2. PICK i \in DOMAIN recs[x] : r = recs[x][i]
    BY <2>1 DEF Records
  <2>. QED BY <2>2 DEF IInv, FilesInv
<1>. QED BY Invariance, <1>1, PTL

-----------------------------------------------------------------------------
(* What a lookup answers.  A waveform's length is stored nowhere, so the   *)
(* invariant is about the records of one index file side by side.          *)

(* A name stands for the newest file or for none, and the datalogger writes
   to the newest.                                                          *)
NewestInv ==
    /\ events \in {NoFile, Len(waves)} /\ index \in {NoFile, Len(recs)}
    /\ writerAt \notin {"down", "reopen"} => evFd = Len(waves)
    /\ writerAt \notin {"down", "openIndex"} => ixFd = Len(recs)

(* In an index file a record begins where the one before it ended, if both
   are of one events file: so the lookup can take its length from the two. *)
Chained(r, n) == r.file = n.file /\ ~orphaned => n.off = r.off + r.len
ChainInv ==
    \A x \in DOMAIN recs : \A i \in DOMAIN recs[x] :
        i + 1 \in DOMAIN recs[x] => Chained(recs[x][i], recs[x][i + 1])

(* ... and so will the next record: the last one of the newest index file
   ends where the newest events file does, the event being written aside.  *)
End == IF writerAt \in {"flushEvents", "flushIndex"} THEN rec.off ELSE Len(waves[Len(waves)])
LastInv ==
    /\ \A x \in DOMAIN recs : \A i \in DOMAIN recs[x] :
          /\ x = Len(recs) /\ i = Len(recs[x])
          /\ recs[x][i].file = Len(waves)
          /\ ~orphaned
          => recs[x][i].off + recs[x][i].len = End
    /\ writerAt = "flushIndex" => left = 0 /\ pos = rec.off + rec.len

(* What a lookup has found is an event nobody deleted, and is where its
   record says.                                                            *)
ListedInv == index # NoFile => \A i \in DOMAIN recs[index] : recs[index][i].of \in listable
LookupInv ==
    /\ webAt \in {"open", "size", "read"} =>
          /\ found.file \in DOMAIN waves /\ Holds(waves[found.file], found)
          /\ found.of \in listable
          /\ next # NoRec => Chained(found, next)
    /\ webAt = "read" /\ next # NoRec => amount = next.off - found.off

AnswerInv ==
    /\ NewestInv /\ ChainInv /\ LastInv /\ ListedInv /\ LookupInv
    /\ ClosedIsWhole

(* What the datalogger's steps have in common.                             *)
LEMMA WriterGrows ==
    ASSUME IInv, Writer
    PROVE  /\ waves' \in Seq(Seq(Evt)) /\ Grown(waves, waves') /\ Len(waves) <= Len(waves')
           /\ Len(waves) \in Nat /\ Len(waves') \in Nat
           /\ UNCHANGED web /\ listable \subseteq listable' /\ (orphaned => orphaned')
<1>1. TypeOK /\ OpenInv /\ RecInv /\ waves \in Seq(Seq(Evt)) /\ Len(waves) \in Nat
      /\ DOMAIN waves = 1..Len(waves)
  BY Contents DEF IInv, TypeOK, FilesTypeOK
<1>2. Grown(waves, waves)
  BY <1>1, Contents DEF Grown
<1>3. UNCHANGED web /\ listable \subseteq listable' /\ (orphaned => orphaned')
  <2>. USE DEF Writer, OpenEvents, OpenIndex, Crash, Begin, WriteBody, FlushEvents, FlushIndex,
               Rename, Reopen, ghosts
  <2>1. UNCHANGED web /\ listable \subseteq listable'
    OBVIOUS
  <2>2. ASSUME Crash PROVE orphaned => orphaned'
    BY <2>2, Zenon
  <2>3. ASSUME ~Crash PROVE orphaned' = orphaned
    BY <2>3
  <2>. QED BY <2>1, <2>2, <2>3
<1>. SUFFICES waves' \in Seq(Seq(Evt)) /\ Grown(waves, waves')
  <2>1. Len(waves) <= Len(waves') /\ Len(waves') \in Nat
    BY <1>1, LenProperties DEF Grown
  <2>. QED BY <1>1, <1>3, <2>1
<1>4. CASE waves' = waves
  BY <1>1, <1>2, <1>4
<1>5. CASE waves' = Append(waves, <<>>)
  BY <1>1, <1>5, Created, CreatedGrows
<1>6. CASE /\ writerAt \in {"body", "flushEvents"}
           /\ \E n \in Nat : waves' = Extended(waves, evFd, rec.of, n)
  <2>1. rec \in Rec /\ evFd \in DOMAIN waves
    BY <1>1, <1>6 DEF RecInv, OpenInv
  <2>2. PICK n \in Nat : waves' = Extended(waves, evFd, rec.of, n)
    BY <1>6
  <2>3. rec.of \in Evt
    BY <2>1 DEF Rec
  <2>4. IsExtension(waves', waves, evFd, rec.of, n)
    BY <1>1, <2>1, <2>2, <2>3, Written
  <2>. QED BY <2>4 DEF IsExtension
<1>7. CASE \E n \in 0..rec.len : WriteBody(n)
  <2>1. PICK n \in 0..rec.len : WriteBody(n)
    BY <1>7
  <2>2. writerAt = "body" /\ waves' = Extended(waves, evFd, rec.of, rec.len - n)
    BY <2>1 DEF WriteBody, Extended
  <2>3. rec.len \in Nat
    BY <1>1, <2>2, LengthsAssumption DEF RecInv, Rec
  <2>4. rec.len - n \in Nat
    BY <2>3
  <2>. QED BY <1>6, <2>2, <2>4
<1>8. CASE FlushEvents
  <2>1. writerAt = "flushEvents" /\ waves' = Extended(waves, evFd, rec.of, left) /\ left \in Nat
    BY <1>1, <1>8 DEF FlushEvents, Extended, TypeOK, WriterTypeOK
  <2>. QED BY <1>6, <2>1
<1>9. CASE \/ OpenEvents \/ OpenIndex \/ Crash \/ (\E n \in Lengths : Begin(n))
           \/ FlushIndex \/ Rename \/ Reopen
  BY <1>4, <1>5, <1>9 DEF OpenEvents, OpenIndex, Crash, Begin, FlushIndex, Rename, Reopen, files
<1>. QED BY <1>7, <1>8, <1>9 DEF Writer

(* A write leaves the number of files as it is.                            *)
LEMMA WritesLength ==
    ASSUME IInv, FlushEvents \/ \E n \in 0..rec.len : WriteBody(n)
    PROVE  Len(waves') = Len(waves)
<1>1. DOMAIN waves' = DOMAIN waves
  BY Zenon DEF FlushEvents, WriteBody
<1>2. waves \in Seq(Seq(Evt)) /\ waves' \in Seq(Seq(Evt))
  BY WriterGrows DEF Writer, IInv, TypeOK, FilesTypeOK
<1>3. Len(waves) \in Nat /\ Len(waves') \in Nat /\ 1..Len(waves) = 1..Len(waves')
  BY <1>1, <1>2, LenProperties
<1>. QED BY <1>3

LEMMA NewestWriter ==
    ASSUME IInv, NewestInv, Writer
    PROVE  NewestInv'
<1>0. waves \in Seq(Seq(Evt)) /\ recs \in Seq(Seq(Rec)) /\ Len(waves) \in Nat /\ Len(recs) \in Nat
  <2>1. waves \in Seq(Seq(Evt)) /\ recs \in Seq(Seq(Rec))
    BY DEF IInv, TypeOK, FilesTypeOK
  <2>. QED BY ONLY <2>1, LenProperties
<1>. USE DEF NewestInv, NoFile
<1>1. CASE OpenEvents BY <1>1 DEF OpenEvents
<1>2. CASE OpenIndex BY <1>2 DEF OpenIndex
<1>3. CASE Crash BY <1>3 DEF Crash, files
<1>4. CASE \E n \in Lengths : Begin(n) BY <1>4 DEF Begin, files
<1>5. CASE \E n \in 0..rec.len : WriteBody(n)
  BY <1>5, WritesLength DEF WriteBody
<1>6. CASE FlushEvents
  BY <1>6, WritesLength DEF FlushEvents
<1>7. CASE FlushIndex
  <2>1. ixFd \in DOMAIN recs /\ rec \in Rec /\ writerAt = "flushIndex" /\ recs' = Listed(recs, ixFd, rec)
    BY <1>7 DEF FlushIndex, Listed, IInv, OpenInv, RecInv
  <2>2. Len(recs') = Len(recs)
    BY <1>0, <2>1, Indexed DEF IsListed
  <2>. QED BY <1>7, <2>1, <2>2 DEF FlushIndex
<1>8. CASE Rename BY <1>8 DEF Rename
<1>9. CASE Reopen BY <1>9 DEF Reopen
<1>. QED BY <1>1, <1>2, <1>3, <1>4, <1>5, <1>6, <1>7, <1>8, <1>9 DEF Writer

(* The record flushed comes after those of the newest index file.          *)
LEMMA FlushedRecord ==
    ASSUME IInv, NewestInv, FlushIndex
    PROVE  /\ ixFd \in DOMAIN recs /\ ixFd = Len(recs) /\ evFd = Len(waves) /\ rec \in Rec
           /\ rec.file = evFd /\ writerAt = "flushIndex"
           /\ Len(recs[ixFd]) \in Nat /\ DOMAIN recs[ixFd] = 1..Len(recs[ixFd])
           /\ DOMAIN recs' = DOMAIN recs /\ Len(recs') = Len(recs)
           /\ \A x \in DOMAIN recs \ {ixFd} : recs'[x] = recs[x]
           /\ DOMAIN recs'[ixFd] = 1 .. Len(recs[ixFd]) + 1
           /\ Len(recs'[ixFd]) = Len(recs[ixFd]) + 1
           /\ recs'[ixFd][Len(recs[ixFd]) + 1] = rec
           /\ \A i \in DOMAIN recs[ixFd] : recs'[ixFd][i] = recs[ixFd][i]
<1>1. ixFd \in DOMAIN recs /\ rec \in Rec /\ writerAt = "flushIndex" /\ rec.file = evFd
      /\ recs' = [recs EXCEPT ![ixFd] = Append(@, rec)]
  BY DEF FlushIndex, IInv, OpenInv, RecInv
<1>2. ixFd = Len(recs) /\ evFd = Len(waves)
  BY <1>1 DEF NewestInv
<1>3. recs \in Seq(Seq(Rec)) /\ DOMAIN recs = 1..Len(recs)
  BY Contents DEF IInv, TypeOK, FilesTypeOK
<1>4. recs' = Listed(recs, ixFd, rec)
  BY <1>1 DEF Listed
<1>5. IsListed(recs', recs, ixFd, rec)
  BY ONLY <1>1, <1>3, <1>4, Indexed
<1>. DEFINE f == recs[ixFd]
<1>6. f \in Seq(Rec)
  BY <1>1, <1>3, ElementOfSeq
<1>7. recs'[ixFd] = Append(f, rec)
  BY <1>1
<1>. HIDE DEF f
<1>8. /\ Append(f, rec) \in Seq(Rec) /\ Len(Append(f, rec)) = Len(f) + 1
      /\ \A i \in 1..Len(f) : Append(f, rec)[i] = f[i]
      /\ Append(f, rec)[Len(f) + 1] = rec
  BY <1>1, <1>6, AppendProperties
<1>9. Len(f) \in Nat /\ DOMAIN f = 1..Len(f) /\ DOMAIN Append(f, rec) = 1..Len(f) + 1
  BY <1>6, <1>8, LenProperties
<1>10. /\ DOMAIN recs' = DOMAIN recs /\ Len(recs') = Len(recs)
       /\ \A x \in DOMAIN recs \ {ixFd} : recs'[x] = recs[x]
  BY <1>5 DEF IsListed
<1>11. /\ DOMAIN recs'[ixFd] = 1..Len(f) + 1 /\ Len(recs'[ixFd]) = Len(f) + 1
       /\ recs'[ixFd][Len(f) + 1] = rec
       /\ \A i \in DOMAIN f : recs'[ixFd][i] = f[i]
  BY <1>7, <1>8, <1>9
<1>. QED BY ONLY <1>1, <1>2, <1>9, <1>10, <1>11 DEF f

(* The other steps of the datalogger write no record.                      *)
LEMMA RecordsKept ==
    ASSUME IInv, Writer, ~FlushIndex
    PROVE  /\ UNCHANGED <<listable>>
           /\ DOMAIN recs' = 1..Len(recs') /\ Len(recs') \in Nat /\ Len(recs) <= Len(recs')
           /\ \A x \in DOMAIN recs' : \A i \in DOMAIN recs'[x] :
                 x \in DOMAIN recs /\ recs'[x] = recs[x]
           /\ writerAt = "flushIndex" => recs' = recs
<1>1. recs \in Seq(Seq(Rec)) /\ DOMAIN recs = 1..Len(recs) /\ Len(recs) \in Nat
  BY Contents DEF IInv, TypeOK, FilesTypeOK
<1>2. listable' = listable
  BY DEF Writer, OpenEvents, OpenIndex, Crash, Begin, WriteBody, FlushEvents, Rename, Reopen, ghosts
<1>3. CASE recs' = recs
  <2>1. DOMAIN recs' = 1..Len(recs') /\ Len(recs') \in Nat /\ Len(recs) <= Len(recs')
    BY <1>1, <1>3
  <2>2. \A x \in DOMAIN recs' : \A i \in DOMAIN recs'[x] : x \in DOMAIN recs /\ recs'[x] = recs[x]
    BY <1>3
  <2>. QED BY <1>2, <1>3, <2>1, <2>2
<1>4. CASE recs' # recs
  <2>1. recs' = Append(recs, <<>>) /\ writerAt # "flushIndex"
    BY <1>4 DEF Writer, OpenEvents, OpenIndex, Crash, Begin, WriteBody, FlushEvents, Rename, Reopen,
                files
  <2>2. /\ recs' \in Seq(Seq(Rec)) /\ Len(recs') = Len(recs) + 1
        /\ recs'[Len(recs) + 1] = <<>>
        /\ \A x \in DOMAIN recs : recs'[x] = recs[x]
    BY <1>1, <2>1, Created
  <2>3. DOMAIN recs' = 1..Len(recs')
    BY <2>2, LenProperties
  <2>4. DOMAIN recs'[Len(recs) + 1] = {}
    BY <2>2
  <2>5. ASSUME NEW x \in DOMAIN recs', NEW i \in DOMAIN recs'[x]
        PROVE  x \in DOMAIN recs /\ recs'[x] = recs[x]
    <3>1. x \in 1 .. Len(recs) + 1
      BY ONLY <2>2, <2>3, <2>5
    <3>2. x # Len(recs) + 1
      BY ONLY <2>4, <2>5
    <3>3. x \in 1..Len(recs)
      BY ONLY <1>1, <3>1, <3>2
    <3>. QED BY ONLY <1>1, <2>2, <3>3
  <2>6. Len(recs) <= Len(recs') /\ Len(recs') \in Nat
    BY ONLY <1>1, <2>2
  <2>. QED BY <1>2, <2>1, <2>3, <2>5, <2>6
<1>. QED BY <1>3, <1>4

LEMMA ChainWriter ==
    ASSUME IInv, NewestInv, ChainInv, LastInv, Writer
    PROVE  ChainInv'
<1>0. orphaned => orphaned'
  BY WriterGrows
<1>. SUFFICES ASSUME NEW x \in DOMAIN recs', NEW i \in DOMAIN recs'[x], i + 1 \in DOMAIN recs'[x]
              PROVE  Chained(recs[x][i], recs[x][i + 1])'
  BY DEF ChainInv
<1>1. CASE ~FlushIndex
  <2>1. x \in DOMAIN recs /\ recs'[x] = recs[x]
    BY <1>1, RecordsKept
  <2>2. Chained(recs[x][i], recs[x][i + 1])
    BY <2>1 DEF ChainInv
  <2>. QED BY <1>0, <2>1, <2>2 DEF Chained
<1>2. CASE FlushIndex
  <2>. DEFINE n == Len(recs[ixFd])
  <2>0. UNCHANGED <<waves, orphaned>>
    BY <1>2 DEF FlushIndex
  <2>1. CASE x # ixFd
    <3>1. x \in DOMAIN recs /\ recs'[x] = recs[x]
      BY <1>2, <2>1, FlushedRecord
    <3>2. Chained(recs[x][i], recs[x][i + 1])
      BY <3>1 DEF ChainInv
    <3>. QED BY <1>0, <3>1, <3>2 DEF Chained
  <2>2. CASE x = ixFd /\ i + 1 # n + 1
    <3>1. n \in Nat /\ DOMAIN recs[x] = 1..n /\ DOMAIN recs'[x] = 1..n + 1 /\ x \in DOMAIN recs
      BY <1>2, <2>2, FlushedRecord
    <3>2. i \in DOMAIN recs[x] /\ i + 1 \in DOMAIN recs[x]
      BY <2>2, <3>1
    <3>3. recs'[x][i] = recs[x][i] /\ recs'[x][i + 1] = recs[x][i + 1]
      BY <1>2, <2>2, <3>2, FlushedRecord
    <3>4. Chained(recs[x][i], recs[x][i + 1])
      BY <3>1, <3>2 DEF ChainInv
    <3>. QED BY <1>0, <3>3, <3>4 DEF Chained
  <2>3. CASE x = ixFd /\ i + 1 = n + 1
    <3>1. n \in Nat /\ DOMAIN recs[x] = 1..n /\ DOMAIN recs'[x] = 1..n + 1 /\ x \in DOMAIN recs
      BY <1>2, <2>3, FlushedRecord
    <3>2. i = n /\ i \in DOMAIN recs[x]
      BY <2>3, <3>1
    <3>3. recs'[x][i] = recs[x][i] /\ recs'[x][i + 1] = rec
      BY <1>2, <2>3, <3>2, FlushedRecord
    <3>4. recs[x][i].file = Len(waves) /\ ~orphaned => recs[x][i].off + recs[x][i].len = rec.off
      BY <1>2, <2>3, <3>1, <3>2, FlushedRecord DEF LastInv, End
    <3>5. rec.file = Len(waves)
      BY <1>2, FlushedRecord
    <3>. QED BY <2>0, <3>3, <3>4, <3>5 DEF Chained
  <2>. QED BY <2>1, <2>2, <2>3
<1>. QED BY <1>1, <1>2

LEMMA ListedWriter ==
    ASSUME IInv, NewestInv, ListedInv, Writer
    PROVE  ListedInv'
<1>. USE DEF NoFile
<1>0. index \in 0..Len(recs) /\ DOMAIN recs = 1..Len(recs) /\ Len(recs) \in Nat
  BY Contents DEF IInv, TypeOK, FilesTypeOK
<1>. SUFFICES ASSUME index' # NoFile, NEW i \in DOMAIN recs'[index']
              PROVE  recs'[index'][i].of \in listable'
  BY DEF ListedInv
<1>1. CASE ~FlushIndex
  <2>0. index' \in DOMAIN recs'
    <3>1. FilesTypeOK'
      BY StepInv DEF Next, IInv, TypeOK
    <3>. QED BY <1>1, <3>1, RecordsKept DEF FilesTypeOK
  <2>1. index' \in DOMAIN recs /\ recs'[index'] = recs[index']
    BY <1>1, <2>0, RecordsKept
  <2>2. index' = index
    <3>1. CASE OpenIndex /\ index = NoFile
      <4>1. index' = Len(recs') /\ recs' = Append(recs, <<>>)
        BY <3>1 DEF OpenIndex
      <4>2. Len(recs') = Len(recs) + 1
        BY <1>0, <4>1, Contents, Created DEF IInv, TypeOK, FilesTypeOK
      <4>3. index' \notin DOMAIN recs
        BY ONLY <1>0, <4>1, <4>2
      <4>. QED BY <2>1, <4>3
    <3>2. CASE ~(OpenIndex /\ index = NoFile)
      BY <1>1, <3>2 DEF Writer, OpenEvents, OpenIndex, Crash, Begin, WriteBody, FlushEvents, Rename,
                        Reopen, files
    <3>. QED BY <3>1, <3>2
  <2>. QED BY <1>1, <2>1, <2>2, RecordsKept DEF ListedInv
<1>2. CASE FlushIndex
  <2>1. index' = index /\ listable' = listable \cup {rec.of}
    BY <1>2 DEF FlushIndex
  <2>2. index = ixFd
    BY <1>2, <2>1, FlushedRecord DEF NewestInv
  <2>. DEFINE n == Len(recs[ixFd])
  <2>3. /\ n \in Nat /\ DOMAIN recs[ixFd] = 1..n /\ i \in 1..n + 1
        /\ recs'[ixFd][n + 1] = rec /\ \A j \in DOMAIN recs[ixFd] : recs'[ixFd][j] = recs[ixFd][j]
    BY <1>2, <2>1, <2>2, FlushedRecord
  <2>. HIDE DEF n
  <2>4. CASE i = n + 1
    BY <2>1, <2>2, <2>3, <2>4
  <2>5. CASE i \in 1..n
    BY <2>1, <2>2, <2>3, <2>5 DEF ListedInv
  <2>. QED BY <2>3, <2>4, <2>5
<1>. QED BY <1>1, <1>2

LEMMA LastWriter ==
    ASSUME IInv, NewestInv, LastInv, Writer
    PROVE  LastInv'
<1>0. /\ waves' \in Seq(Seq(Evt)) /\ Len(waves) <= Len(waves') /\ (orphaned => orphaned')
      /\ Len(waves) \in Nat /\ Len(waves') \in Nat
      /\ DOMAIN waves = 1..Len(waves) /\ DOMAIN recs = 1..Len(recs) /\ Len(recs) \in Nat
  <2>1. waves \in Seq(Seq(Evt)) /\ recs \in Seq(Seq(Rec))
    BY DEF IInv, TypeOK, FilesTypeOK
  <2>. QED BY WriterGrows, <2>1, LenProperties
<1>1. ASSUME ~FlushIndex,
             NEW x \in DOMAIN recs', NEW i \in DOMAIN recs'[x],
             x = Len(recs'), i = Len(recs'[x]), recs'[x][i].file = Len(waves'), ~orphaned'
      PROVE  recs'[x][i].off + recs'[x][i].len = End'
  <2>1. /\ x \in DOMAIN recs /\ recs'[x] = recs[x]
        /\ Len(recs') \in Nat /\ Len(recs) <= Len(recs')
    BY <1>1, RecordsKept
  <2>2. x = Len(recs)
    BY ONLY <1>0, <1>1, <2>1
  <2>3. recs[x][i].file \in DOMAIN waves
    BY <1>1, <2>1 DEF IInv, FilesInv
  <2>4. Len(waves') = Len(waves)
    BY ONLY <1>0, <1>1, <2>1, <2>3
  <2>5. recs[x][i].off + recs[x][i].len = End
    BY <1>0, <1>1, <2>1, <2>2, <2>4 DEF LastInv
  <2>6. End' = End
    <3>1. waves' # Append(waves, <<>>)
      BY <1>0, <2>4, Contents, Created DEF IInv, TypeOK, FilesTypeOK
    <3>2. CASE OpenEvents
      BY <3>1, <3>2 DEF OpenEvents, End
    <3>3. CASE OpenIndex
      BY <3>3 DEF OpenIndex, End
    <3>4. CASE Crash
      <4>1. UNCHANGED waves /\ writerAt' = "down"
            /\ ~(writerAt \in {"flushEvents", "flushIndex"} /\ left < rec.len)
        BY <1>1, <3>4 DEF Crash, files
      <4>2. writerAt = "flushEvents" \/ writerAt = "flushIndex" =>
            rec \in Rec /\ rec.len \in Nat /\ rec.len > 0 /\ rec.off \in Nat
        <5>1. writerAt = "flushEvents" \/ writerAt = "flushIndex" => rec \in Rec
          BY DEF IInv, RecInv
        <5>2. ASSUME rec \in Rec PROVE rec.len \in Nat /\ rec.len > 0 /\ rec.off \in Nat
          <6>1. rec.len \in Lengths /\ rec.off \in Nat
            BY <5>2 DEF Rec
          <6>2. rec.len \in Nat \ {0}
            BY ONLY <6>1, LengthsAssumption, Zenon
          <6>. QED BY ONLY <6>1, <6>2
        <5>. QED BY ONLY <5>1, <5>2
      <4>3. CASE writerAt = "flushIndex"
        BY <4>1, <4>2, <4>3 DEF LastInv
      <4>4. CASE writerAt = "flushEvents"
        <5>1. left <= rec.len /\ Len(waves[evFd]) = rec.off + (rec.len - left) /\ left \in Nat
          BY <4>4 DEF IInv, RecInv, TypeOK, WriterTypeOK
        <5>2. left = rec.len
          BY <4>1, <4>2, <4>4, <5>1
        <5>3. Len(waves[evFd]) = rec.off /\ evFd = Len(waves)
          BY <4>2, <4>4, <5>1, <5>2 DEF NewestInv
        <5>. QED BY <4>1, <4>4, <5>3 DEF End
      <4>5. CASE writerAt \notin {"flushEvents", "flushIndex"}
        BY <4>1, <4>5 DEF End
      <4>. QED BY <4>3, <4>4, <4>5
    <3>5. CASE \E n \in Lengths : Begin(n)
      BY <3>5 DEF Begin, files, End
    <3>6. CASE \E n \in 0..rec.len : WriteBody(n)
      <4>1. writerAt = "body" /\ writerAt' = "flushEvents" /\ rec' = rec
        BY <3>6 DEF WriteBody
      <4>2. Len(waves[evFd]) = rec.off /\ evFd = Len(waves)
        BY <4>1 DEF IInv, OpenInv, RecInv, NewestInv
      <4>. QED BY <4>1, <4>2 DEF End
    <3>7. CASE FlushEvents
      BY <3>7 DEF FlushEvents, End
    <3>8. CASE Rename
      BY <3>8 DEF Rename, End
    <3>9. CASE Reopen
      BY <3>1, <3>9 DEF Reopen
    <3>. QED BY <1>1, <3>2, <3>3, <3>4, <3>5, <3>6, <3>7, <3>8, <3>9 DEF Writer
  <2>. QED BY <2>1, <2>5, <2>6
<1>2. ASSUME FlushIndex,
             NEW x \in DOMAIN recs', NEW i \in DOMAIN recs'[x],
             x = Len(recs'), i = Len(recs'[x]), recs'[x][i].file = Len(waves'), ~orphaned'
      PROVE  recs'[x][i].off + recs'[x][i].len = End'
  <2>1. recs'[x][i] = rec /\ evFd = Len(waves)
    BY <1>2, FlushedRecord
  <2>2. pos = rec.off + rec.len /\ pos = Len(waves[evFd]) /\ UNCHANGED waves
        /\ writerAt' \in {"rename", "idle"}
    BY <1>2 DEF FlushIndex, LastInv, IInv, RecInv
  <2>. QED BY <2>1, <2>2 DEF End
<1>3. writerAt' = "flushIndex" => left' = 0 /\ pos' = rec'.off + rec'.len
  <2>1. CASE FlushEvents
    BY <2>1 DEF FlushEvents, IInv, RecInv
  <2>2. CASE ~FlushEvents
    BY <2>2 DEF Writer, OpenEvents, OpenIndex, Crash, Begin, WriteBody, FlushIndex, Rename, Reopen
  <2>. QED BY <2>1, <2>2
<1>. QED BY <1>1, <1>2, <1>3 DEF LastInv

LEMMA LookupWriter ==
    ASSUME IInv, LookupInv, Writer
    PROVE  LookupInv'
<1>1. /\ waves \in Seq(Seq(Evt)) /\ waves' \in Seq(Seq(Evt)) /\ Grown(waves, waves')
      /\ UNCHANGED web /\ listable \subseteq listable' /\ (orphaned => orphaned')
  BY WriterGrows DEF IInv, TypeOK, FilesTypeOK
<1>2. UNCHANGED <<webAt, found, next, amount>>
  BY <1>1 DEF web
<1>3. ASSUME webAt \in {"open", "size", "read"}
      PROVE  /\ found.file \in DOMAIN waves' /\ Holds(waves'[found.file], found)
             /\ found.of \in listable'
             /\ next # NoRec => Chained(found, next)'
  <2>1. found \in Rec /\ found.file \in DOMAIN waves /\ Holds(waves[found.file], found)
    BY <1>3 DEF IInv, WebInv, LookupInv
  <2>2. found.file \in DOMAIN waves' /\ Holds(waves'[found.file], found)
    BY ONLY <1>1, <2>1, HoldsStays
  <2>3. next # NoRec => Chained(found, next)'
    BY <1>1, <1>2, <1>3 DEF LookupInv, Chained
  <2>. QED BY <1>1, <1>3, <2>2, <2>3 DEF LookupInv
<1>. QED BY <1>2, <1>3 DEF LookupInv, Holds

(* What the web application's steps have in common, and those that delete. *)
LEMMA WebKeeps ==
    ASSUME Web
    PROVE  /\ UNCHANGED <<waves, recs, writer, orphaned>>
           /\ events' \in {events, NoFile} /\ index' \in {index, NoFile}
           /\ index' # NoFile => listable' = listable
<1>. QED BY DEF Web, Ask, Scan, Open, Size, Read, DeleteEvents, DeleteIndex, files, ghosts

LEMMA AnswerWeb ==
    ASSUME IInv, AnswerInv, Web
    PROVE  NewestInv' /\ ChainInv' /\ LastInv' /\ ListedInv'
<1>. USE WebKeeps DEF AnswerInv, writer
<1>1. NewestInv'
  BY DEF NewestInv
<1>2. ChainInv'
  BY DEF ChainInv, Chained
<1>3. LastInv'
  BY DEF LastInv, End
<1>4. ListedInv'
  BY DEF ListedInv
<1>. QED BY <1>1, <1>2, <1>3, <1>4

(* A lookup reads the waveform of the record it has found.                 *)
LEMMA ReadWhole ==
    ASSUME IInv, LookupInv, webAt = "read", next # NoRec, ~orphaned,
           found.file = evRd, next.file = evRd
    PROVE  SubSeq(waves[evRd], found.off + 1, found.off + amount) = Waveform(found)
<1>. DEFINE f == waves[evRd]
            o == found.off
            l == found.len
            e == found.of
<1>1. found \in Rec /\ next \in Rec /\ evRd \in DOMAIN waves
  BY DEF IInv, WebInv, TypeOK, WebTypeOK
<1>2. o \in Nat /\ l \in Nat /\ next.off \in Nat
  BY <1>1, LengthsAssumption DEF Rec
<1>3. amount = l
  <2>1. next.off = o + l /\ amount = next.off - o
    BY DEF LookupInv, Chained
  <2>. QED BY <1>2, <2>1
<1>4. f \in Seq(Evt) /\ Len(f) \in Nat
  <2>1. waves \in Seq(Seq(Evt))
    BY DEF IInv, TypeOK, FilesTypeOK
  <2>2. f \in Seq(Evt)
    BY ONLY <1>1, <2>1, ElementOfSeq
  <2>. QED BY ONLY <2>2, LenProperties
<1>5. o + l <= Len(f) /\ \A s \in 1..l : f[o + s] = e
  BY DEF LookupInv, Holds
<1>. HIDE DEF f, o, l, e
<1>6. SubSeq(f, o + 1, o + l) = [s \in 1 .. o + l - (o + 1) + 1 |-> f[o + 1 + s - 1]]
  BY ONLY <1>2, <1>4, SMTT(60)
<1>7. o + l - (o + 1) + 1 = l /\ \A s \in 1..l : o + 1 + s - 1 = o + s
  BY ONLY <1>2
<1>8. [s \in 1 .. o + l - (o + 1) + 1 |-> f[o + 1 + s - 1]] = [s \in 1..l |-> e]
  BY ONLY <1>5, <1>7
<1>9. SubSeq(f, o + 1, o + l) = [s \in 1..l |-> e]
  BY ONLY <1>6, <1>8
<1>. QED BY <1>3, <1>9 DEF f, o, l, e, Waveform

(* What Scan finds: an event nobody deleted, and the record after its own. *)
LEMMA ScanFinds ==
    ASSUME IInv, AnswerInv, Scan, webAt' = "open"
    PROVE  LookupInv'
<1>1. /\ index # NoFile /\ UNCHANGED <<waves, recs, index, listable, orphaned>>
      /\ \E i \in DOMAIN recs[index] :
            /\ found' = recs[index][i]
            /\ next' = IF i < Len(recs[index]) THEN recs[index][i + 1] ELSE NoRec
  BY DEF Scan, Return, Matches, files, ghosts
<1>2. index \in DOMAIN recs /\ recs \in Seq(Seq(Rec))
  BY <1>1, Contents DEF IInv, TypeOK, FilesTypeOK, NoFile
<1>3. PICK i \in DOMAIN recs[index] :
            /\ found' = recs[index][i]
            /\ next' = IF i < Len(recs[index]) THEN recs[index][i + 1] ELSE NoRec
  BY <1>1
<1>4. found'.file \in DOMAIN waves /\ Holds(waves[found'.file], found') /\ found'.of \in listable
  BY <1>1, <1>2, <1>3 DEF IInv, FilesInv, AnswerInv, ListedInv
<1>5. ASSUME next' # NoRec PROVE Chained(found, next)'
  <2>1. recs[index] \in Seq(Rec)
    BY <1>2, ElementOfSeq
  <2>2. DOMAIN recs[index] = 1..Len(recs[index]) /\ Len(recs[index]) \in Nat
    BY <2>1, LenProperties
  <2>3. i < Len(recs[index]) /\ next' = recs[index][i + 1]
    BY <1>3, <1>5
  <2>4. i + 1 \in DOMAIN recs[index]
    BY ONLY <1>3, <2>2, <2>3
  <2>5. Chained(recs[index][i], recs[index][i + 1])
    BY <1>2, <2>4 DEF AnswerInv, ChainInv
  <2>. QED BY <1>1, <1>3, <2>3, <2>5 DEF Chained
<1>. QED BY <1>1, <1>4, <1>5 DEF LookupInv, Holds

LEMMA LookupWeb ==
    ASSUME IInv, AnswerInv, Web
    PROVE  LookupInv'
<1>1. CASE webAt' \notin {"open", "size", "read"}
  BY <1>1 DEF LookupInv
<1>2. CASE Ask
  BY <1>2 DEF Ask, AnswerInv, LookupInv, Chained, Holds, files, ghosts
<1>3. CASE Scan /\ webAt' = "open"
  BY <1>3, ScanFinds
<1>4. CASE Scan /\ webAt' # "open"
  <2>1. webAt' = "idle"
    BY <1>4 DEF Scan, Return
  <2>. QED BY <1>1, <2>1
<1>5. CASE Open \/ Size
  <2>1. /\ webAt \in {"open", "size"} /\ UNCHANGED <<waves, listable, orphaned>>
        /\ webAt' # "idle" => UNCHANGED <<found, next>>
    BY <1>5 DEF Open, Size, Return, files, ghosts
  <2>2. webAt' = "read" /\ next' # NoRec => amount' = next'.off - found'.off
    BY <1>5 DEF Open, Size, Return
  <2>3. CASE webAt' = "idle"
    BY <1>1, <2>3
  <2>4. CASE webAt' # "idle"
    BY <2>1, <2>2, <2>4 DEF AnswerInv, LookupInv, Chained, Holds
  <2>. QED BY <2>3, <2>4
<1>6. CASE Read \/ DeleteEvents \/ DeleteIndex
  <2>1. webAt' \in {"idle", "deleteIndex"}
    BY <1>6 DEF Read, Return, DeleteEvents, DeleteIndex
  <2>. QED BY <1>1, <2>1
<1>. QED BY <1>2, <1>3, <1>4, <1>5, <1>6 DEF Web

(* Only Read answers with samples.                                         *)
LEMMA OnlyReadAnswers ==
    ASSUME Next, answer' # answer, answer'.ok
    PROVE  /\ Read /\ amount >= 0 /\ Len(waves[evRd]) >= found.off + amount
           /\ answer' = [ok |-> TRUE, asked |-> asked, rec |-> found, next |-> next, file |-> evRd,
                samples |-> SubSeq(waves[evRd], found.off + 1, found.off + amount)]
<1>1. ~Failed.ok
  BY DEF Failed
<1>2. Web
  <2>1. Writer => answer' = answer
    BY DEF Writer, OpenEvents, OpenIndex, Crash, Begin, WriteBody, FlushEvents, FlushIndex, Rename,
           Reopen, web
  <2>. QED BY <2>1 DEF Next
<1>3. Read
  BY <1>1, <1>2 DEF Web, Ask, Scan, Open, Size, DeleteEvents, DeleteIndex, Return
<1>. QED BY <1>1, <1>3 DEF Read, Return

LEMMA AnswersWhole ==
    ASSUME IInv, AnswerInv, Next
    PROVE  ClosedIsWhole'
<1>0. orphaned => orphaned'
  BY WriterGrows, WebKeeps DEF Next
<1>1. CASE answer' = answer
  BY <1>0, <1>1, Zenon DEF AnswerInv, ClosedIsWhole, Waveform
<1>2. CASE answer' # answer /\ ~answer'.ok
  BY <1>2 DEF ClosedIsWhole
<1>3. CASE answer' # answer /\ answer'.ok
  <2>1. Read /\ answer' = [ok |-> TRUE, asked |-> asked, rec |-> found, next |-> next, file |-> evRd,
                samples |-> SubSeq(waves[evRd], found.off + 1, found.off + amount)]
    BY <1>3, OnlyReadAnswers
  <2>2. webAt = "read"
    BY <2>1 DEF Read
  <2>. DEFINE read == SubSeq(waves[evRd], found.off + 1, found.off + amount)
  <2>3. ASSUME next # NoRec, found.file = evRd, next.file = evRd, ~orphaned
        PROVE  read = Waveform(found)
    BY <2>2, <2>3, ReadWhole DEF AnswerInv
  <2>. HIDE DEF read
  <2>4. /\ answer'.samples = read /\ answer'.rec = found /\ answer'.next = next
        /\ answer'.file = evRd
    BY <2>1 DEF read
  <2>. QED BY <1>0, <2>3, <2>4 DEF ClosedIsWhole, Waveform
<1>. QED BY <1>1, <1>2, <1>3

LEMMA InitAnswer == Init => AnswerInv
<1>. SUFFICES ASSUME Init PROVE AnswerInv
  OBVIOUS
<1>. USE DEF Init
<1>0. waves = <<>> /\ recs = <<>> /\ Len(waves) = 0 /\ Len(recs) = 0 /\ DOMAIN recs = {}
  BY EmptySeq
<1>1. NewestInv
  BY <1>0 DEF NewestInv, NoFile
<1>2. ChainInv /\ LastInv
  BY <1>0 DEF ChainInv, LastInv
<1>3. ListedInv /\ LookupInv
  BY DEF ListedInv, LookupInv
<1>4. ClosedIsWhole
  BY DEF ClosedIsWhole, Failed
<1>. QED BY <1>1, <1>2, <1>3, <1>4 DEF AnswerInv

LEMMA StepAnswer == IInv /\ AnswerInv /\ [Next]_vars => AnswerInv'
<1>. SUFFICES ASSUME IInv, AnswerInv, [Next]_vars PROVE AnswerInv'
  OBVIOUS
<1>1. CASE Writer
  <2>1. NewestInv' /\ ChainInv' /\ LastInv' /\ ListedInv' /\ LookupInv'
    BY <1>1, NewestWriter, ChainWriter, LastWriter, ListedWriter, LookupWriter DEF AnswerInv
  <2>. QED BY <1>1, <2>1, AnswersWhole DEF AnswerInv, Next
<1>2. CASE Web
  <2>1. NewestInv' /\ ChainInv' /\ LastInv' /\ ListedInv' /\ LookupInv'
    BY <1>2, AnswerWeb, LookupWeb
  <2>. QED BY <1>2, <2>1, AnswersWhole DEF AnswerInv, Next
<1>3. CASE UNCHANGED vars
  <2>1. UNCHANGED <<files, writer, web, ghosts>>
    BY <1>3 DEF vars
  <2>. USE <2>1, Zenon DEF files, writer, web, ghosts, AnswerInv
  <2>2. NewestInv' BY DEF NewestInv
  <2>3. ChainInv' BY DEF ChainInv, Chained
  <2>4. LastInv' BY DEF LastInv, End
  <2>5. ListedInv' BY DEF ListedInv
  <2>6. LookupInv' BY DEF LookupInv, Chained, Holds
  <2>7. ClosedIsWhole' BY DEF ClosedIsWhole, Waveform
  <2>. QED BY <2>2, <2>3, <2>4, <2>5, <2>6, <2>7
<1>. QED BY <1>1, <1>2, <1>3 DEF Next

THEOREM Answers == Spec => []AnswerInv
<1>. QED BY Invariance, InitAnswer, StepAnswer, PTL DEF Spec

(* Of an event that has a next one, in a file not rotated away, a lookup   *)
(* returns the whole waveform and nothing else, whatever is written,       *)
(* deleted or restarted meanwhile, until a crash leaves samples without a  *)
(* record (event_service.py:203-255).                                      *)
THEOREM ClosedRecordsWhole == Spec => []ClosedIsWhole
<1>1. AnswerInv => ClosedIsWhole
  BY DEF AnswerInv
<1>. QED BY Answers, <1>1, PTL

(* No lookup returns a deleted event (main.py:834), although the           *)
(* datalogger goes on writing to the deleted files.                        *)
THEOREM DeletedEventsGone == Spec => DeletedIsGone
<1>1. IInv /\ AnswerInv /\ [Next]_vars =>
        [answer' # answer /\ answer'.ok => answer'.rec.of \in listable]_vars
  <2>. SUFFICES ASSUME IInv, AnswerInv, Next, answer' # answer, answer'.ok
                PROVE  answer'.rec.of \in listable
    OBVIOUS
  <2>1. webAt = "read" /\ answer'.rec = found
    BY OnlyReadAnswers DEF Read
  <2>. QED BY <2>1 DEF AnswerInv, LookupInv
<1>. QED BY Invariance, Answers, <1>1, PTL DEF Spec, DeletedIsGone
=============================================================================
