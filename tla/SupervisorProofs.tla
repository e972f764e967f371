------------------------- MODULE SupervisorProofs -------------------------
(***************************************************************************)
(* For any settings, number of requests, dataloggers and crashes: as long  *)
(* as requests do not overlap and dataloggers leave in time, there is one  *)
(* datalogger, in the directory of the moment, on a PRU at its rate.       *)
(***************************************************************************)
EXTENDS Supervisor, SequenceTheorems, FiniteSetTheorems, TLAPS

-----------------------------------------------------------------------------
(* The inductive invariant.                                                *)

Orderly == ~overlapped /\ ~late

(* One request at a time, and while its task sleeps between stopping a
   datalogger and starting one, whatever runs is leaving.                  *)
TaskInv ==
    Orderly =>
        /\ \A s, t \in DOMAIN tasks : Open(s) /\ Open(t) => s = t
        /\ \A t \in DOMAIN tasks : tasks[t].stage = "killed" =>
              \A p \in DOMAIN procs : Here(p) => procs[p].term

(* One datalogger at most, leaving or not, with its files in the directory. *)
LoggerInv ==
    Orderly =>
        /\ \A p, q \in DOMAIN procs : Here(p) /\ Here(q) => p = q
        /\ \A p \in DOMAIN procs : Here(p) => procs[p].dir = dir

(* It alone stops the PRU.  While the PRU is off and the magic cleared, no
   firmware publishes one; one that starts has not published it yet, unless
   it was reloaded; and what runs was given the rate.                      *)
Phased(p) ==
    /\ procs[p].phase = "stopped" => pru.state # "off" \/ ~pru.magic
    /\ procs[p].phase = "booting" =>
          pru.state = "on" \/ (pru.state = "starting" /\ ~pru.magic) \/ unpaced
    /\ procs[p].phase = "run" => Paced(p) \/ unpaced

PruInv == Orderly => \A p \in DOMAIN procs : Phased(p)

IInv == TypeOK /\ TaskInv /\ LoggerInv /\ PruInv

-----------------------------------------------------------------------------
(* What becomes of the dataloggers and of the tasks.                       *)

(* qs is ps but for the phase of p.                                        *)
IsEntered(qs, ps, p, x) ==
    /\ qs \in Seq(Proc) /\ Len(qs) = Len(ps) /\ DOMAIN qs = DOMAIN ps
    /\ \A q \in DOMAIN ps :
          /\ qs[q].phase = IF q = p THEN x ELSE ps[q].phase
          /\ qs[q].term = ps[q].term /\ qs[q].conf = ps[q].conf /\ qs[q].dir = ps[q].dir

LEMMA Entered ==
    ASSUME NEW ps \in Seq(Proc), NEW p \in DOMAIN ps, NEW x \in Phases
    PROVE  IsEntered([ps EXCEPT ![p].phase = x], ps, p, x)
<1>. DEFINE qs == [ps EXCEPT ![p].phase = x]
<1>1. \A q \in DOMAIN ps : ps[q] \in Proc
  BY ElementOfSeq
<1>2. qs \in Seq(Proc) /\ Len(qs) = Len(ps)
  <2>1. ps[p] \in Proc /\ [ps[p] EXCEPT !.phase = x] \in Proc
    BY <1>1 DEF Proc
  <2>. QED BY <2>1, ExceptSeq
<1>3. DOMAIN qs = DOMAIN ps
  OBVIOUS
<1>4. ASSUME NEW q \in DOMAIN ps
      PROVE  /\ qs[q].phase = IF q = p THEN x ELSE ps[q].phase
             /\ qs[q].term = ps[q].term /\ qs[q].conf = ps[q].conf /\ qs[q].dir = ps[q].dir
  <2>1. qs[q] = IF q = p THEN [ps[p] EXCEPT !.phase = x] ELSE ps[q]
    OBVIOUS
  <2>2. ps[q] \in Proc
    BY <1>1
  <2>. QED BY ONLY <2>1, <2>2 DEF Proc
<1>. HIDE DEF qs
<1>5. IsEntered(qs, ps, p, x)
  BY ONLY <1>2, <1>3, <1>4 DEF IsEntered
<1>. QED BY <1>5 DEF qs

LEMMA AllKilled ==
    ASSUME NEW ps \in Seq(Proc), NEW qs, qs = Killed(ps)
    PROVE  /\ qs \in Seq(Proc) /\ Len(qs) = Len(ps) /\ DOMAIN qs = DOMAIN ps
           /\ \A q \in DOMAIN ps :
                 /\ qs[q].term
                 /\ qs[q].phase = ps[q].phase /\ qs[q].conf = ps[q].conf /\ qs[q].dir = ps[q].dir
<1>1. \A q \in DOMAIN ps : ps[q] \in Proc /\ DOMAIN ps = 1..Len(ps) /\ Len(ps) \in Nat
  BY ElementOfSeq, LenProperties
<1>2. ASSUME NEW q \in DOMAIN ps
      PROVE  /\ qs[q] \in Proc /\ qs[q].term
             /\ qs[q].phase = ps[q].phase /\ qs[q].conf = ps[q].conf /\ qs[q].dir = ps[q].dir
  <2>1. qs[q] = [ps[q] EXCEPT !.term = TRUE]
    BY DEF Killed
  <2>. QED BY <1>1, <2>1 DEF Proc
<1>3. DOMAIN qs = DOMAIN ps
  BY DEF Killed
<1>4. qs \in Seq(Proc) /\ Len(qs) = Len(ps)
  <2>1. DOMAIN ps = 1..Len(ps) /\ Len(ps) \in Nat
    BY LenProperties
  <2>2. qs = [q \in 1..Len(ps) |-> qs[q]]
    BY <2>1 DEF Killed
  <2>3. qs \in [1..Len(ps) -> Proc]
    BY <1>2, <2>1, <2>2
  <2>. QED BY ONLY <2>1, <2>3, SeqDef, LenProperties
<1>. QED BY <1>2, <1>3, <1>4

LEMMA AllGone ==
    ASSUME NEW ps \in Seq(Proc), NEW qs,
           qs = [p \in DOMAIN ps |-> [ps[p] EXCEPT !.phase = "gone"]]
    PROVE  /\ qs \in Seq(Proc) /\ Len(qs) = Len(ps) /\ DOMAIN qs = DOMAIN ps
           /\ \A q \in DOMAIN ps : qs[q].phase = "gone"
<1>1. ASSUME NEW q \in DOMAIN ps PROVE qs[q] \in Proc /\ qs[q].phase = "gone"
  <2>1. ps[q] \in Proc /\ qs[q] = [ps[q] EXCEPT !.phase = "gone"]
    BY ElementOfSeq
  <2>. QED BY <2>1 DEF Proc, Phases
<1>2. DOMAIN qs = DOMAIN ps /\ DOMAIN ps = 1..Len(ps) /\ Len(ps) \in Nat
  BY LenProperties
<1>3. qs \in [1..Len(ps) -> Proc]
  <2>1. qs = [q \in 1..Len(ps) |-> qs[q]]
    BY <1>2
  <2>. QED BY ONLY <1>1, <1>2, <2>1
<1>4. qs \in Seq(Proc) /\ Len(qs) = Len(ps)
  BY ONLY <1>2, <1>3, SeqDef, LenProperties
<1>. QED BY <1>1, <1>2, <1>4

LEMMA Added ==
    ASSUME NEW S, NEW s \in Seq(S), NEW e \in S, NEW r, r = Append(s, e)
    PROVE  /\ r \in Seq(S) /\ Len(r) = Len(s) + 1 /\ Len(s) \in Nat
           /\ DOMAIN r = DOMAIN s \cup {Len(r)} /\ Len(r) \notin DOMAIN s
           /\ r[Len(r)] = e /\ \A i \in DOMAIN s : r[i] = s[i]
<1>1. DOMAIN s = 1..Len(s) /\ Len(s) \in Nat
  BY LenProperties
<1>2. r \in Seq(S) /\ Len(r) = Len(s) + 1 /\ r[Len(s) + 1] = e /\ \A i \in 1..Len(s) : r[i] = s[i]
  BY AppendProperties
<1>3. DOMAIN r = 1 .. Len(s) + 1
  BY <1>2, LenProperties
<1>. QED BY ONLY <1>1, <1>2, <1>3

(* qs is ps and a datalogger started after it.                             *)
IsStarted(qs, ps, conf, d) ==
    /\ qs \in Seq(Proc) /\ Len(qs) = Len(ps) + 1 /\ Len(ps) \in Nat
    /\ DOMAIN qs = DOMAIN ps \cup {Len(qs)} /\ Len(qs) \notin DOMAIN ps
    /\ qs[Len(qs)].phase = "open" /\ ~qs[Len(qs)].term
    /\ qs[Len(qs)].conf = conf /\ qs[Len(qs)].dir = d
    /\ \A q \in DOMAIN ps : qs[q] = ps[q]

LEMMA Started ==
    ASSUME NEW ps \in Seq(Proc), NEW c \in Settings, NEW d \in Nat
    PROVE  IsStarted(Spawned(ps, c, d), ps, c, d)
<1>. DEFINE new == [phase |-> "open", term |-> FALSE, conf |-> c, dir |-> d]
            qs == Spawned(ps, c, d)
<1>1. new \in Proc
  BY DEF Proc, Phases
<1>2. qs = Append(ps, new)
  BY DEF Spawned
<1>. HIDE DEF new, qs
<1>3. /\ qs \in Seq(Proc) /\ Len(qs) = Len(ps) + 1 /\ Len(ps) \in Nat
      /\ DOMAIN qs = DOMAIN ps \cup {Len(qs)} /\ Len(qs) \notin DOMAIN ps
      /\ qs[Len(qs)] = new /\ \A q \in DOMAIN ps : qs[q] = ps[q]
  BY <1>1, <1>2, Added
<1>4. /\ new.phase = "open" /\ ~new.term /\ new.conf = c /\ new.dir = d
  BY DEF new
<1>5. IsStarted(qs, ps, c, d)
  BY ONLY <1>3, <1>4 DEF IsStarted
<1>. QED BY <1>5 DEF qs

(* A task that moves on, and the end of all tasks.                         *)
IsMoved(us, ts, t, x) ==
    /\ us \in Seq(Task) /\ Len(us) = Len(ts) /\ DOMAIN us = DOMAIN ts
    /\ us[t].stage = x /\ \A u \in DOMAIN ts \ {t} : us[u] = ts[u]

LEMMA Moved ==
    ASSUME NEW ts \in Seq(Task), NEW t \in DOMAIN ts, NEW x \in {"asked", "killed", "done"}
    PROVE  IsMoved([ts EXCEPT ![t].stage = x], ts, t, x)
<1>1. ts[t] \in Task
  BY ElementOfSeq
<1>. DEFINE new == [ts[t] EXCEPT !.stage = x]
            us == [ts EXCEPT ![t].stage = x]
<1>2. new \in Task /\ new.stage = x
  BY <1>1 DEF Task
<1>3. us = [ts EXCEPT ![t] = new]
  OBVIOUS
<1>. HIDE DEF new
<1>4. us \in Seq(Task) /\ Len(us) = Len(ts)
  BY <1>2, <1>3, ExceptSeq
<1>. HIDE DEF us
<1>5. DOMAIN us = DOMAIN ts /\ us[t].stage = x /\ \A u \in DOMAIN ts \ {t} : us[u] = ts[u]
  BY ONLY <1>2, <1>3
<1>6. IsMoved(us, ts, t, x)
  BY ONLY <1>4, <1>5 DEF IsMoved
<1>. QED BY <1>6 DEF us

LEMMA SomeDone ==
    ASSUME NEW ts \in Seq(Task), NEW D \in SUBSET DOMAIN ts, NEW us,
           us = [u \in DOMAIN ts |-> IF u \in D THEN [ts[u] EXCEPT !.stage = "done"] ELSE ts[u]]
    PROVE  /\ us \in Seq(Task) /\ Len(us) = Len(ts) /\ DOMAIN us = DOMAIN ts
           /\ \A u \in DOMAIN ts : IF u \in D THEN us[u].stage = "done" ELSE us[u] = ts[u]
<1>1. ASSUME NEW u \in DOMAIN ts
      PROVE  us[u] \in Task /\ (IF u \in D THEN us[u].stage = "done" ELSE us[u] = ts[u])
  <2>1. ts[u] \in Task /\ us[u] = IF u \in D THEN [ts[u] EXCEPT !.stage = "done"] ELSE ts[u]
    BY ElementOfSeq
  <2>. QED BY <2>1 DEF Task
<1>2. DOMAIN us = DOMAIN ts /\ DOMAIN ts = 1..Len(ts) /\ Len(ts) \in Nat
  BY LenProperties
<1>3. us \in [1..Len(ts) -> Task]
  <2>1. us = [u \in 1..Len(ts) |-> us[u]]
    BY <1>2
  <2>. QED BY ONLY <1>1, <1>2, <2>1
<1>4. us \in Seq(Task) /\ Len(us) = Len(ts)
  BY ONLY <1>2, <1>3, SeqDef, LenProperties
<1>. QED BY <1>1, <1>2, <1>4

-----------------------------------------------------------------------------
(* The invariant holds at first, and is kept by every step.                *)

LEMMA InitInv == Init => IInv
<1>. SUFFICES ASSUME Init PROVE IInv
  OBVIOUS
<1>. USE DEF Init
<1>1. yaml \in Settings /\ <<>> \in Seq(Proc) /\ Len(<<>>) = 0 /\ DOMAIN <<>> = {}
  BY EmptySeq
<1>2. /\ procs \in Seq(Proc) /\ Len(procs) = 1 /\ DOMAIN procs = {1}
      /\ procs[1].phase = "open" /\ procs[1].dir = 0
  <2>. DEFINE e == <<>>
  <2>1. procs = Spawned(e, yaml, 0)
    OBVIOUS
  <2>. HIDE DEF e, Init
  <2>2. /\ procs \in Seq(Proc) /\ Len(procs) = Len(e) + 1
        /\ DOMAIN procs = DOMAIN e \cup {Len(procs)}
        /\ procs[Len(procs)].phase = "open" /\ procs[Len(procs)].dir = 0
    <3>1. e \in Seq(Proc)
      BY <1>1 DEF e
    <3>2. IsStarted(procs, e, yaml, 0)
      BY <1>1, <2>1, <3>1, Started
    <3>. QED BY ONLY <3>2 DEF IsStarted
  <2>3. Len(procs) = 1
    BY ONLY <1>1, <2>2 DEF e
  <2>. QED BY ONLY <1>1, <2>2, <2>3 DEF e
<1>3. tasks \in Seq(Task) /\ Len(tasks) = 0 /\ DOMAIN tasks = {}
  BY EmptySeq
<1>4. TypeOK
  <2>1. pru \in Pru
    BY DEF Pru
  <2>2. Len(procs) <= MaxProcs /\ Len(tasks) <= MaxRequests /\ crashes \in 0..MaxCrashes
    <3>1. MaxProcs \in Nat \ {0} /\ MaxRequests \in Nat /\ MaxCrashes \in Nat
      BY SupervisorAssumption
    <3>2. crashes = 0
      OBVIOUS
    <3>. QED BY ONLY <1>2, <1>3, <3>1, <3>2
  <2>. QED BY <1>1, <1>2, <1>3, <2>1, <2>2 DEF TypeOK
<1>5. TaskInv
  BY <1>3 DEF TaskInv
<1>6. LoggerInv /\ PruInv
  BY <1>2 DEF LoggerInv, PruInv, Phased
<1>. QED BY <1>4, <1>5, <1>6 DEF IInv

LEMMA LoggerStepInv ==
    ASSUME IInv, NEW p \in DOMAIN procs, LoggerStep(p) \/ Crash(p)
    PROVE  IInv'
<1>. USE DEF Enter, webVars
<1>1. PICK x \in Phases : procs' = [procs EXCEPT ![p].phase = x]
  BY DEF Phases, LoggerStep, StopPru, ClearMagic, StartPru, Configure, MissMagic, Leave, Exit, Crash
<1>2. /\ UNCHANGED <<yaml, config, dir, unit, tasks, overlapped, late>>
      /\ Here(p)
  BY DEF LoggerStep, StopPru, ClearMagic, StartPru, Configure, MissMagic, Leave, Exit, Crash, Here
<1>3. /\ procs \in Seq(Proc) /\ Len(procs) <= MaxProcs
      /\ \A q \in DOMAIN procs : procs[q] \in Proc
  BY ElementOfSeq DEF IInv, TypeOK
<1>4. /\ procs' \in Seq(Proc) /\ Len(procs') = Len(procs) /\ DOMAIN procs' = DOMAIN procs
      /\ \A q \in DOMAIN procs :
            /\ procs'[q].phase = IF q = p THEN x ELSE procs[q].phase
            /\ procs'[q].term = procs[q].term /\ procs'[q].conf = procs[q].conf
            /\ procs'[q].dir = procs[q].dir
  <2>1. IsEntered([procs EXCEPT ![p].phase = x], procs, p, x)
    BY <1>3, Entered
  <2>. QED BY ONLY <1>1, <2>1 DEF IsEntered
<1>5. \A q \in DOMAIN procs : Here(q)' => Here(q)
  BY <1>2, <1>4 DEF Here
<1>6. TypeOK'
  <2>1. pru' \in Pru
    <3>1. pru \in Pru /\ procs[p].conf.rate \in Rates
      BY <1>3 DEF IInv, TypeOK, Proc, Settings
    <3>. DEFINE c == procs[p].conf.rate
    <3>2. pru' \in {pru, [pru EXCEPT !.state = "off", !.rate = c], [pru EXCEPT !.magic = FALSE],
                   [pru EXCEPT !.state = "starting"], [pru EXCEPT !.rate = c],
                   [pru EXCEPT !.state = "off"]}
      BY DEF LoggerStep, StopPru, ClearMagic, StartPru, Configure, MissMagic, Leave, Exit, Crash
    <3>3. /\ [pru EXCEPT !.state = "off", !.rate = c] \in Pru
          /\ [pru EXCEPT !.magic = FALSE] \in Pru /\ [pru EXCEPT !.state = "starting"] \in Pru
          /\ [pru EXCEPT !.rate = c] \in Pru /\ [pru EXCEPT !.state = "off"] \in Pru
      BY <3>1 DEF Pru
    <3>. HIDE DEF c
    <3>. QED BY ONLY <3>1, <3>2, <3>3, Zenon
  <2>2. crashes' \in 0..MaxCrashes /\ unpaced' \in BOOLEAN /\ owed' \in BOOLEAN
    <3>1. crashes \in 0..MaxCrashes /\ unpaced \in BOOLEAN /\ owed \in BOOLEAN
      BY DEF IInv, TypeOK
    <3>2. CASE LoggerStep(p)
      BY <3>1, <3>2 DEF LoggerStep, StopPru, ClearMagic, StartPru, Configure, MissMagic, Leave, Exit, Hurt
    <3>3. CASE Crash(p)
      BY <3>1, <3>3, SupervisorAssumption DEF Crash, Hurt
    <3>. QED BY <3>2, <3>3
  <2>. QED BY <1>2, <1>3, <1>4, <2>1, <2>2 DEF IInv, TypeOK
<1>8. TaskInv'
  BY <1>2, <1>4, <1>5 DEF IInv, TaskInv, Orderly, Open
<1>9. LoggerInv'
  BY <1>2, <1>4, <1>5 DEF IInv, LoggerInv, Orderly
<1>10. PruInv'
  <2>. SUFFICES ASSUME Orderly, NEW q \in DOMAIN procs PROVE Phased(q)'
    BY <1>2, <1>4 DEF PruInv, Orderly
  <2>1. CASE q # p
    <3>1. procs'[q].phase = "gone"
      BY <1>2, <1>4, <2>1 DEF IInv, LoggerInv, Here
    <3>. QED BY <3>1 DEF Phased
  <2>2. CASE q = p
    <3>1. ASSUME NEW y \in Phases, Enter(p, y) PROVE procs'[p].phase = y
      <4>1. procs' = [procs EXCEPT ![p].phase = y]
        BY ONLY <3>1 DEF Enter
      <4>2. procs'[p] = [procs[p] EXCEPT !.phase = y]
        BY ONLY <1>3, <4>1
      <4>. QED BY <1>3, <4>2 DEF Proc
    <3>2. pru \in Pru /\ Phased(p)
      BY DEF IInv, TypeOK, PruInv
    <3>. HIDE DEF Enter
    <3>3. CASE StopPru(p) \/ Leave(p) \/ Exit(p) \/ Crash(p)
      <4>1. procs'[p].phase \in {"halted", "leave", "gone"}
        BY <3>1, <3>3 DEF StopPru, Leave, Exit, Crash, Phases
      <4>. QED BY <2>2, <4>1 DEF Phased
    <3>4. CASE ClearMagic(p)
      <4>1. procs'[p].phase = "stopped" /\ pru' = [pru EXCEPT !.magic = FALSE]
        BY <3>1, <3>4 DEF ClearMagic, Phases
      <4>2. ~pru'.magic
        BY <3>2, <4>1 DEF Pru
      <4>. QED BY <2>2, <4>1, <4>2 DEF Phased
    <3>5. CASE StartPru(p)
      <4>1. CASE pru.state = "off"
        <5>1. procs'[p].phase = "booting" /\ pru' = [pru EXCEPT !.state = "starting"] /\ ~pru.magic
          BY <3>1, <3>2, <3>5, <4>1 DEF StartPru, Phases, Phased
        <5>2. pru'.state = "starting" /\ ~pru'.magic
          BY <3>2, <5>1 DEF Pru
        <5>. QED BY <2>2, <5>1, <5>2 DEF Phased
      <4>2. CASE pru.state # "off"
        <5>1. procs'[p].phase = "gone"
          BY <3>1, <3>5, <4>2 DEF StartPru, Phases
        <5>. QED BY <2>2, <5>1 DEF Phased
      <4>. QED BY <4>1, <4>2
    <3>6. CASE Configure(p)
      <4>1. /\ procs'[p].phase = "run" /\ pru' = [pru EXCEPT !.rate = procs[p].conf.rate]
            /\ unpaced' = unpaced /\ (pru.state = "on" \/ unpaced)
        BY <3>1, <3>2, <3>6 DEF Configure, Phases, Phased
      <4>2. pru'.state = pru.state /\ pru'.rate = procs[p].conf.rate
        BY <3>2, <4>1 DEF Pru
      <4>. QED BY <1>4, <2>2, <4>1, <4>2 DEF Paced, Phased
    <3>7. CASE MissMagic(p)
      <4>1. procs'[p].phase = "run" /\ unpaced'
        BY <3>1, <3>7 DEF MissMagic, Phases
      <4>. QED BY <2>2, <4>1 DEF Phased
    <3>. QED BY <3>3, <3>4, <3>5, <3>6, <3>7 DEF LoggerStep
  <2>. QED BY <2>1, <2>2
<1>. QED BY <1>6, <1>8, <1>9, <1>10 DEF IInv

(* A firmware that comes up wipes the rate of none that was given it.      *)
LEMMA BootInv == IInv /\ Boot => IInv'
<1>. SUFFICES ASSUME IInv, Boot PROVE IInv'
  OBVIOUS
<1>1. /\ pru.state = "starting" /\ pru' = [state |-> "on", magic |-> TRUE, rate |-> None]
      /\ UNCHANGED <<procs, yaml, config, dir, unit, tasks, crashes, overlapped, late, owed, unpaced>>
  BY DEF Boot, webVars
<1>2. pru' \in Pru /\ pru'.state = "on"
  BY <1>1 DEF Pru
<1>3. TypeOK'
  BY <1>1, <1>2 DEF IInv, TypeOK
<1>4. TaskInv' /\ LoggerInv'
  BY <1>1 DEF IInv, TaskInv, LoggerInv, Orderly, Open, Here
<1>5. PruInv'
  <2>. SUFFICES ASSUME Orderly, NEW p \in DOMAIN procs PROVE Phased(p)'
    BY <1>1 DEF PruInv, Orderly
  <2>1. Phased(p)
    BY DEF IInv, PruInv
  <2>. QED BY <1>1, <1>2, <2>1 DEF Phased, Paced
<1>. QED BY <1>3, <1>4, <1>5 DEF IInv

(* A request that is accepted when another is under way is noted.          *)
LEMMA Accepted ==
    ASSUME IInv, NEW kind \in {"pru", "datalogger", "all", "clear"},
           NEW stage \in {"asked", "killed"}, Accept(kind, stage)
    PROVE  /\ unit = "up" /\ tasks' \in Seq(Task) /\ Len(tasks') <= MaxRequests
           /\ overlapped' \in BOOLEAN
           /\ ~overlapped' =>
                 ~overlapped /\ \A s, t \in DOMAIN tasks' : Open(s)' /\ Open(t)' => s = t
           /\ \E n \in DOMAIN tasks' :
                 /\ tasks'[n].stage = stage
                 /\ \A t \in DOMAIN tasks' \ {n} : t \in DOMAIN tasks /\ tasks'[t] = tasks[t]
<1>. DEFINE e == [kind |-> kind, stage |-> stage]
            n == Len(tasks')
<1>1. tasks \in Seq(Task) /\ e \in Task /\ tasks' = Append(tasks, e)
  BY DEF IInv, TypeOK, Task, Accept
<1>. HIDE DEF e
<1>2. /\ tasks' \in Seq(Task) /\ Len(tasks') = Len(tasks) + 1 /\ Len(tasks) \in Nat
      /\ DOMAIN tasks' = DOMAIN tasks \cup {n} /\ n \notin DOMAIN tasks
      /\ tasks'[n] = e /\ \A i \in DOMAIN tasks : tasks'[i] = tasks[i]
  BY ONLY <1>1, Added
<1>. HIDE DEF n
<1>3. unit = "up" /\ Len(tasks) < MaxRequests /\ overlapped' = (overlapped \/ Busy)
  BY DEF Accept
<1>4. Len(tasks') <= MaxRequests
  BY <1>2, <1>3, SupervisorAssumption DEF n
<1>5. overlapped' \in BOOLEAN
  BY <1>3 DEF Busy
<1>6. ASSUME ~overlapped'
      PROVE  ~overlapped /\ \A s, t \in DOMAIN tasks' : Open(s)' /\ Open(t)' => s = t
  <2>1. ~overlapped /\ \A t \in DOMAIN tasks : tasks[t].stage = "done"
    BY <1>3, <1>6 DEF Busy, Open
  <2>. QED BY <1>2, <2>1 DEF Open
<1>. QED BY <1>2, <1>3, <1>4, <1>5, <1>6 DEF e

(* Requests that leave the dataloggers and the PRU to a task.              *)
LEMMA RequestInv ==
    ASSUME IInv,
           NEW kind \in {"pru", "datalogger", "all", "clear"}, Accept(kind, "asked"),
           yaml' \in Settings, config' = yaml' \/ UNCHANGED <<yaml, config>>,
           owed' \in BOOLEAN, UNCHANGED <<procs, pru, dir, unit, crashes, late, unpaced>>
    PROVE  IInv'
<1>1. /\ unit = "up" /\ tasks' \in Seq(Task) /\ Len(tasks') <= MaxRequests
      /\ overlapped' \in BOOLEAN
      /\ ~overlapped' => ~overlapped /\ \A s, t \in DOMAIN tasks' : Open(s)' /\ Open(t)' => s = t
      /\ \E n \in DOMAIN tasks' :
            /\ tasks'[n].stage = "asked"
            /\ \A t \in DOMAIN tasks' \ {n} : t \in DOMAIN tasks /\ tasks'[t] = tasks[t]
  BY Accepted
<1>2. TypeOK'
  BY <1>1 DEF IInv, TypeOK
<1>4. TaskInv'
  <2>1. \A t \in DOMAIN tasks' :
            tasks'[t].stage = "killed" => t \in DOMAIN tasks /\ tasks[t].stage = "killed"
    BY <1>1
  <2>. QED BY <1>1, <2>1 DEF IInv, TaskInv, Orderly, Here
<1>5. LoggerInv' /\ PruInv'
  BY <1>1 DEF IInv, LoggerInv, PruInv, Orderly, Here, Phased, Paced
<1>. QED BY <1>2, <1>4, <1>5 DEF IInv

LEMMA RestartInv ==
    ASSUME IInv, NEW component \in {"pru", "datalogger", "webserver", "all"}, Restart(component)
    PROVE  IInv'
<1>. DEFINE kind == IF component = "webserver" THEN "all" ELSE component
<1>1. kind \in {"pru", "datalogger", "all", "clear"} /\ Accept(kind, "asked")
  BY DEF Restart
<1>2. /\ yaml' \in Settings /\ UNCHANGED <<yaml, config>> /\ owed' \in BOOLEAN
      /\ UNCHANGED <<procs, pru, dir, unit, crashes, late, unpaced>>
  BY DEF Restart, IInv, TypeOK
<1>. HIDE DEF kind
<1>. QED BY <1>1, <1>2, RequestInv

LEMMA SaveInv ==
    ASSUME IInv, NEW value, SaveRate(value) \/ SaveThresholds(value)
    PROVE  IInv'
<1>1. Accept("all", "asked") /\ config' = yaml' /\ owed' \in BOOLEAN
      /\ UNCHANGED <<procs, pru, dir, unit, crashes, late, unpaced>>
  BY DEF SaveRate, SaveThresholds, Load
<1>2. yaml' \in Settings
  BY DEF SaveRate, SaveThresholds, PersistRate, PersistThresholds, Settings, IInv, TypeOK
<1>. QED BY <1>1, <1>2, RequestInv

LEMMA SaveLookbackInv ==
    ASSUME IInv, NEW value, SaveLookback(value)
    PROVE  IInv'
<1>. DEFINE e == [kind |-> "none", stage |-> "done"]
<1>1. /\ unit = "up" /\ Len(tasks) < MaxRequests /\ tasks' = Append(tasks, e)
      /\ UNCHANGED <<procs, pru, dir, unit, crashes, overlapped, late, unpaced, owed>>
  BY DEF SaveLookback
<1>2. yaml' \in Settings /\ config' = yaml'
  BY DEF SaveLookback, PersistLookback, Load, Settings, IInv, TypeOK
<1>3. tasks \in Seq(Task) /\ e \in Task
  BY DEF IInv, TypeOK, Task
<1>4. /\ tasks' \in Seq(Task) /\ Len(tasks') = Len(tasks) + 1 /\ Len(tasks) \in Nat
      /\ DOMAIN tasks' = DOMAIN tasks \cup {Len(tasks')}
      /\ tasks'[Len(tasks')] = e /\ \A i \in DOMAIN tasks : tasks'[i] = tasks[i]
  <2>. HIDE DEF e
  <2>. QED BY ONLY <1>1, <1>3, Added
<1>5. Len(tasks') <= MaxRequests
  BY <1>1, <1>4, SupervisorAssumption
<1>6. TypeOK'
  BY <1>1, <1>2, <1>4, <1>5 DEF IInv, TypeOK
<1>8. \A t \in DOMAIN tasks' :
          tasks'[t].stage # "done" => t \in DOMAIN tasks /\ tasks'[t] = tasks[t]
  BY <1>4
<1>9. TaskInv'
  BY <1>1, <1>8 DEF IInv, TaskInv, Orderly, Open, Here
<1>10. LoggerInv' /\ PruInv'
  BY <1>1 DEF IInv, LoggerInv, PruInv, Orderly, Here, Phased, Paced
<1>. QED BY <1>6, <1>9, <1>10 DEF IInv

(* Stopping every datalogger changes neither where they are nor the PRU.   *)
LEMMA KilledInv ==
    ASSUME IInv, procs' = Killed(procs), UNCHANGED <<pru, dir, unpaced, late>>,
           ~overlapped' => ~overlapped
    PROVE  /\ procs' \in Seq(Proc) /\ Len(procs') <= MaxProcs
           /\ LoggerInv' /\ PruInv' /\ \A p \in DOMAIN procs' : procs'[p].term
<1>1. procs \in Seq(Proc) /\ Len(procs) <= MaxProcs
  BY DEF IInv, TypeOK
<1>2. /\ procs' \in Seq(Proc) /\ Len(procs') = Len(procs) /\ DOMAIN procs' = DOMAIN procs
      /\ \A q \in DOMAIN procs :
            /\ procs'[q].term
            /\ procs'[q].phase = procs[q].phase /\ procs'[q].conf = procs[q].conf
            /\ procs'[q].dir = procs[q].dir
  BY <1>1, AllKilled
<1>3. LoggerInv'
  BY <1>2 DEF IInv, LoggerInv, Orderly, Here
<1>4. PruInv'
  BY <1>2 DEF IInv, PruInv, Orderly, Phased, Paced
<1>. QED BY <1>1, <1>2, <1>3, <1>4

LEMMA ClearStorageInv == IInv /\ ClearStorage => IInv'
<1>. SUFFICES ASSUME IInv, ClearStorage PROVE IInv'
  OBVIOUS
<1>1. Accept("clear", "killed") /\ procs' = Killed(procs)
      /\ UNCHANGED <<yaml, config, pru, dir, unit, crashes, late, unpaced, owed>>
  BY DEF ClearStorage
<1>2. /\ unit = "up" /\ tasks' \in Seq(Task) /\ Len(tasks') <= MaxRequests
      /\ overlapped' \in BOOLEAN
      /\ ~overlapped' => ~overlapped /\ \A s, t \in DOMAIN tasks' : Open(s)' /\ Open(t)' => s = t
  BY <1>1, Accepted
<1>3. /\ procs' \in Seq(Proc) /\ Len(procs') <= MaxProcs
      /\ LoggerInv' /\ PruInv' /\ \A p \in DOMAIN procs' : procs'[p].term
  BY <1>1, <1>2, KilledInv
<1>4. TypeOK'
  BY <1>1, <1>2, <1>3 DEF IInv, TypeOK
<1>6. TaskInv'
  BY <1>2, <1>3 DEF TaskInv, Orderly
<1>. QED BY <1>3, <1>4, <1>6 DEF IInv

-----------------------------------------------------------------------------
(* The tasks, and the restart of everything.                               *)

LEMMA ReloadPruInv ==
    ASSUME IInv, NEW t \in DOMAIN tasks, ReloadPru(t)
    PROVE  IInv'
<1>. USE DEF ReloadPru, To
<1>1. /\ tasks \in Seq(Task) /\ tasks' = [tasks EXCEPT ![t].stage = "done"]
      /\ UNCHANGED <<yaml, config, procs, dir, unit, crashes, overlapped, late>> /\ unit = "up"
      /\ pru' = [pru EXCEPT !.state = "starting"] /\ unpaced' = TRUE /\ owed' \in BOOLEAN
  BY DEF IInv, TypeOK, Hurt, Reloaded
<1>2. /\ tasks' \in Seq(Task) /\ Len(tasks') = Len(tasks) /\ DOMAIN tasks' = DOMAIN tasks
      /\ tasks'[t].stage = "done" /\ \A u \in DOMAIN tasks \ {t} : tasks'[u] = tasks[u]
  <2>1. IsMoved([tasks EXCEPT ![t].stage = "done"], tasks, t, "done")
    BY <1>1, Moved
  <2>2. IsMoved(tasks', tasks, t, "done")
    BY <1>1, <2>1
  <2>. QED BY ONLY <2>2 DEF IsMoved
<1>7. pru' \in Pru /\ pru'.state = "starting"
  BY <1>1 DEF IInv, TypeOK, Pru
<1>3. TypeOK'
  <2>. QED BY <1>1, <1>2, <1>7 DEF IInv, TypeOK
<1>5. TaskInv'
  BY <1>1, <1>2 DEF IInv, TaskInv, Orderly, Open, Here
<1>6. LoggerInv' /\ PruInv'
  BY <1>1, <1>7 DEF IInv, LoggerInv, PruInv, Phased, Orderly, Here
<1>. QED BY <1>3, <1>5, <1>6 DEF IInv

LEMMA KillLoggerInv ==
    ASSUME IInv, NEW t \in DOMAIN tasks, KillLogger(t)
    PROVE  IInv'
<1>1. /\ tasks \in Seq(Task) /\ tasks' = [tasks EXCEPT ![t].stage = "killed"]
      /\ UNCHANGED <<yaml, config, pru, dir, unit, crashes, overlapped, late, unpaced, owed>>
      /\ unit = "up" /\ tasks[t].stage = "asked" /\ procs' = Killed(procs)
  BY DEF IInv, TypeOK, KillLogger, To, Stage
<1>2. /\ tasks' \in Seq(Task) /\ Len(tasks') = Len(tasks) /\ DOMAIN tasks' = DOMAIN tasks
      /\ tasks'[t].stage = "killed" /\ \A u \in DOMAIN tasks \ {t} : tasks'[u] = tasks[u]
  <2>1. IsMoved([tasks EXCEPT ![t].stage = "killed"], tasks, t, "killed")
    BY <1>1, Moved
  <2>2. IsMoved(tasks', tasks, t, "killed")
    BY <1>1, <2>1
  <2>. QED BY ONLY <2>2 DEF IsMoved
<1>3. /\ procs' \in Seq(Proc) /\ Len(procs') <= MaxProcs
      /\ LoggerInv' /\ PruInv' /\ \A p \in DOMAIN procs' : procs'[p].term
  BY <1>1, KilledInv
<1>4. TypeOK'
  BY <1>1, <1>2, <1>3 DEF IInv, TypeOK
<1>6. TaskInv'
  <2>1. \A u \in DOMAIN tasks : Open(u)' => Open(u)
    BY <1>1, <1>2 DEF Open
  <2>. QED BY <1>1, <1>2, <1>3, <2>1 DEF IInv, TaskInv, Orderly
<1>. QED BY <1>3, <1>4, <1>6 DEF IInv

(* A datalogger started where there is no other is the only one.           *)
LEMMA SpawnInv ==
    ASSUME IInv, dir' \in Nat, procs' = Spawned(procs, yaml, dir'), ~SomeHere
    PROVE  /\ LoggerInv' /\ PruInv'
<1>1. procs \in Seq(Proc) /\ yaml \in Settings
  BY DEF IInv, TypeOK
<1>2. IsStarted(procs', procs, yaml, dir')
  BY <1>1, Started
<1>. DEFINE n == Len(procs')
<1>3. /\ DOMAIN procs' = DOMAIN procs \cup {n} /\ procs'[n].phase = "open" /\ procs'[n].dir = dir'
      /\ \A q \in DOMAIN procs : procs'[q] = procs[q]
  BY ONLY <1>2 DEF IsStarted
<1>4. \A q \in DOMAIN procs' : q = n \/ procs'[q].phase = "gone"
  <2>. HIDE DEF n
  <2>1. \A q \in DOMAIN procs : procs[q].phase = "gone"
    BY DEF SomeHere, Here
  <2>. QED BY ONLY <1>3, <2>1
<1>. HIDE DEF n
<1>5. LoggerInv'
  BY <1>3, <1>4 DEF LoggerInv, Here
<1>6. PruInv'
  BY <1>3, <1>4 DEF PruInv, Phased
<1>. QED BY <1>5, <1>6

(* One that is started by a task, beside none that is leaving.             *)
LEMMA StartLoggerInv ==
    ASSUME IInv, NEW t \in DOMAIN tasks, StartLogger(t) \/ ClearAndStart(t)
    PROVE  IInv'
<1>1. /\ tasks \in Seq(Task) /\ tasks' = [tasks EXCEPT ![t].stage = "done"]
      /\ UNCHANGED <<yaml, config, pru, unit, crashes, overlapped, unpaced>>
      /\ owed' \in BOOLEAN /\ late' = (late \/ SomeLeaving) /\ dir' \in Nat
      /\ tasks[t].stage = "killed"
      /\ Len(procs) < MaxProcs /\ procs' = Spawned(procs, yaml, dir')
  <2>1. CASE StartLogger(t)
    BY <2>1 DEF IInv, TypeOK, StartLogger, To, Stage, Hurt
  <2>2. CASE ClearAndStart(t)
    BY <2>2 DEF IInv, TypeOK, ClearAndStart, To, Stage, Hurt
  <2>. QED BY <2>1, <2>2
<1>2. /\ tasks' \in Seq(Task) /\ Len(tasks') = Len(tasks) /\ DOMAIN tasks' = DOMAIN tasks
      /\ tasks'[t].stage = "done" /\ \A u \in DOMAIN tasks \ {t} : tasks'[u] = tasks[u]
  <2>1. IsMoved([tasks EXCEPT ![t].stage = "done"], tasks, t, "done")
    BY <1>1, Moved
  <2>2. IsMoved(tasks', tasks, t, "done")
    BY <1>1, <2>1
  <2>. QED BY ONLY <2>2 DEF IsMoved
<1>3. TypeOK'
  <2>1. procs \in Seq(Proc) /\ yaml \in Settings
    BY DEF IInv, TypeOK
  <2>2. IsStarted(procs', procs, yaml, dir')
    BY <1>1, <2>1, Started
  <2>3. procs' \in Seq(Proc) /\ Len(procs') = Len(procs) + 1 /\ Len(procs) \in Nat
    BY <2>2 DEF IsStarted
  <2>4. Len(procs') <= MaxProcs
    BY <1>1, <2>3, SupervisorAssumption
  <2>5. late' \in BOOLEAN
    BY <1>1 DEF SomeLeaving
  <2>. QED BY <1>1, <1>2, <2>3, <2>4, <2>5 DEF IInv, TypeOK
<1>5. TaskInv'
  <2>1. ASSUME Orderly, NEW u \in DOMAIN tasks PROVE ~Open(u)'
    BY <1>1, <1>2, <2>1 DEF IInv, TaskInv, Open
  <2>. QED BY <1>1, <1>2, <2>1 DEF TaskInv, Orderly, Open
<1>6. LoggerInv' /\ PruInv'
  <2>1. CASE ~Orderly'
    BY <2>1 DEF LoggerInv, PruInv
  <2>2. CASE Orderly'
    <3>1. Orderly /\ ~SomeLeaving
      BY <1>1, <2>2 DEF Orderly
    <3>2. \A p \in DOMAIN procs : Here(p) => procs[p].term
      BY <1>1, <3>1 DEF IInv, TaskInv
    <3>3. ~SomeHere
      BY <3>1, <3>2 DEF SomeHere, SomeLeaving
    <3>. QED BY <1>1, <3>3, SpawnInv
  <2>. QED BY <2>1, <2>2
<1>. QED BY <1>3, <1>5, <1>6 DEF IInv

LEMMA RestartUnitInv ==
    ASSUME IInv, NEW t \in DOMAIN tasks, RestartUnit(t)
    PROVE  IInv'
<1>. DEFINE D == {u \in DOMAIN tasks : tasks[u].kind # "clear"}
<1>1. /\ unit' = "stopping" /\ procs' = Killed(procs) /\ tasks \in Seq(Task)
      /\ tasks' = [u \in DOMAIN tasks |->
                     IF u \in D THEN [tasks[u] EXCEPT !.stage = "done"] ELSE tasks[u]]
      /\ UNCHANGED <<yaml, config, pru, dir, crashes, overlapped, late, unpaced, owed>>
  BY DEF RestartUnit, IInv, TypeOK
<1>2. D \in SUBSET DOMAIN tasks
  OBVIOUS
<1>. HIDE DEF D
<1>3. /\ tasks' \in Seq(Task) /\ Len(tasks') = Len(tasks) /\ DOMAIN tasks' = DOMAIN tasks
      /\ \A u \in DOMAIN tasks : IF u \in D THEN tasks'[u].stage = "done" ELSE tasks'[u] = tasks[u]
  <2>1. /\ tasks \in Seq(Task)
        /\ tasks' = [u \in DOMAIN tasks |->
                       IF u \in D THEN [tasks[u] EXCEPT !.stage = "done"] ELSE tasks[u]]
    BY <1>1
  <2>. QED BY <1>2, <2>1, SomeDone
<1>4. /\ procs' \in Seq(Proc) /\ Len(procs') <= MaxProcs
      /\ LoggerInv' /\ PruInv' /\ \A p \in DOMAIN procs' : procs'[p].term
  BY <1>1, KilledInv
<1>5. TypeOK'
  BY <1>1, <1>3, <1>4 DEF IInv, TypeOK
<1>6. TaskInv'
  <2>1. \A u \in DOMAIN tasks : Open(u)' => Open(u)
    BY <1>3 DEF Open
  <2>. QED BY <1>1, <1>3, <1>4, <2>1 DEF IInv, TaskInv, Orderly
<1>. QED BY <1>4, <1>5, <1>6 DEF IInv

LEMMA KillRemainingInv == IInv /\ KillRemaining => IInv'
<1>. SUFFICES ASSUME IInv, KillRemaining PROVE IInv'
  OBVIOUS
<1>1. /\ procs \in Seq(Proc) /\ tasks \in Seq(Task) /\ unit = "stopping"
      /\ procs' = [p \in DOMAIN procs |-> [procs[p] EXCEPT !.phase = "gone"]]
      /\ tasks' = [u \in DOMAIN tasks |-> [tasks[u] EXCEPT !.stage = "done"]]
      /\ UNCHANGED <<yaml, config, pru, dir, unit, crashes, overlapped, late, unpaced, owed>>
  BY DEF KillRemaining, IInv, TypeOK
<1>2. /\ procs' \in Seq(Proc) /\ Len(procs') = Len(procs) /\ DOMAIN procs' = DOMAIN procs
      /\ \A p \in DOMAIN procs : procs'[p].phase = "gone"
  BY <1>1, AllGone
<1>3. /\ tasks' \in Seq(Task) /\ Len(tasks') = Len(tasks) /\ DOMAIN tasks' = DOMAIN tasks
      /\ \A u \in DOMAIN tasks : tasks'[u].stage = "done"
  <2>. DEFINE D == DOMAIN tasks
  <2>1. /\ D \in SUBSET DOMAIN tasks
        /\ tasks' = [u \in DOMAIN tasks |->
                       IF u \in D THEN [tasks[u] EXCEPT !.stage = "done"] ELSE tasks[u]]
    BY <1>1
  <2>2. \A u \in DOMAIN tasks : u \in D
    OBVIOUS
  <2>. HIDE DEF D
  <2>. QED BY <1>1, <2>1, <2>2, SomeDone
<1>4. TypeOK'
  BY <1>1, <1>2, <1>3 DEF IInv, TypeOK
<1>5. TaskInv'
  BY <1>3 DEF TaskInv, Open
<1>6. LoggerInv' /\ PruInv'
  BY <1>2 DEF LoggerInv, PruInv, Phased, Here
<1>. QED BY <1>4, <1>5, <1>6 DEF IInv

LEMMA RunAllInv == IInv /\ RunAll => IInv'
<1>. SUFFICES ASSUME IInv, RunAll PROVE IInv'
  OBVIOUS
<1>1. /\ unit = "stopping" /\ ~SomeHere /\ Len(procs) < MaxProcs /\ unit' = "up"
      /\ config' = yaml /\ pru' = [pru EXCEPT !.state = "starting"]
      /\ \A t \in DOMAIN tasks : ~Open(t)
      /\ procs' = Spawned(procs, yaml, dir) /\ dir \in Nat
      /\ overlapped' = FALSE /\ late' = FALSE /\ unpaced' = FALSE
      /\ UNCHANGED <<yaml, dir, tasks, crashes, owed>>
  BY DEF RunAll, Reloaded, Load, IInv, TypeOK
<1>2. LoggerInv' /\ PruInv'
  BY <1>1, SpawnInv
<1>3. TypeOK'
  <2>1. procs \in Seq(Proc) /\ yaml \in Settings
    BY DEF IInv, TypeOK
  <2>2. IsStarted(procs', procs, yaml, dir)
    BY <1>1, <2>1, Started
  <2>3. procs' \in Seq(Proc) /\ Len(procs') = Len(procs) + 1 /\ Len(procs) \in Nat
    BY <2>2 DEF IsStarted
  <2>4. Len(procs') <= MaxProcs
    BY <1>1, <2>3, SupervisorAssumption
  <2>5. pru' \in Pru
    BY <1>1 DEF IInv, TypeOK, Pru
  <2>. QED BY <1>1, <2>3, <2>4, <2>5 DEF IInv, TypeOK
<1>4. TaskInv'
  BY <1>1 DEF TaskInv, Open
<1>. QED BY <1>2, <1>3, <1>4 DEF IInv

LEMMA StepInv == IInv /\ [Next]_vars => IInv'
<1>. SUFFICES ASSUME IInv, [Next]_vars PROVE IInv'
  OBVIOUS
<1>1. CASE \E p \in DOMAIN procs : LoggerStep(p) \/ Crash(p)
  BY <1>1, LoggerStepInv
<1>2. CASE \E component \in {"pru", "datalogger", "webserver", "all"} : Restart(component)
  BY <1>2, RestartInv
<1>3. CASE \E value \in Asked : SaveRate(value) \/ SaveThresholds(value) \/ SaveLookback(value)
  BY <1>3, SaveInv, SaveLookbackInv
<1>4. CASE ClearStorage
  BY <1>4, ClearStorageInv
<1>5. CASE \E t \in DOMAIN tasks : TaskStep(t)
  BY <1>5, ReloadPruInv, KillLoggerInv, StartLoggerInv, RestartUnitInv DEF TaskStep
<1>6. CASE Boot \/ KillRemaining \/ RunAll
  BY <1>6, BootInv, KillRemainingInv, RunAllInv
<1>7. CASE UNCHANGED vars
  BY <1>7 DEF vars, IInv, TypeOK, Open, TaskInv, Orderly, LoggerInv, Here, PruInv, Phased, Paced
<1>. QED BY <1>1, <1>2, <1>3, <1>4, <1>5, <1>6, <1>7 DEF Next

THEOREM Invariance == Spec => []IInv
<1>. QED BY InitInv, StepInv, PTL DEF Spec

(* The web application's settings are those of pika.yaml while it is up,   *)
(* and nothing runs with settings that were refused (main.py:74-307).      *)
THEOREM TypeCorrect == Spec => []TypeOK
<1>1. IInv => TypeOK
  BY DEF IInv
<1>. QED BY Invariance, <1>1, PTL

(* As long as no request overlaps another and no datalogger is started     *)
(* beside one that is leaving, there is at most one that was not told to   *)
(* leave; what acquires writes to the data directory of the moment, on a   *)
(* PRU at its rate unless that was reloaded or its magic did not come in   *)
(* time (main.py:293-326, main.c:463-525).                                 *)
THEOREM OneLogger == Spec => []LoggerIsAlone
<1>1. IInv => LoggerIsAlone
  <2>. SUFFICES ASSUME IInv, Orderly
                PROVE  /\ Cardinality({p \in DOMAIN procs : Here(p) /\ ~procs[p].term}) <= 1
                       /\ \A p \in DOMAIN procs :
                             Acquiring(p) => procs[p].dir = dir /\ (Paced(p) \/ unpaced)
    BY DEF LoggerIsAlone, Orderly
  <2>. DEFINE S == {p \in DOMAIN procs : Here(p) /\ ~procs[p].term}
  <2>1. \A p, q \in S : p = q
    BY DEF IInv, LoggerInv
  <2>2. Cardinality(S) <= 1
    <3>1. S = {} \/ \E p : S = {p}
      BY <2>1
    <3>. HIDE DEF S
    <3>2. CASE S = {}
      <4>1. Cardinality(S) = 0
        BY ONLY <3>2, FS_EmptySet
      <4>. QED BY ONLY <4>1
    <3>3. CASE \E p : S = {p}
      <4>1. Cardinality(S) = 1
        BY ONLY <3>3, FS_Singleton, Zenon
      <4>. QED BY ONLY <4>1
    <3>. QED BY ONLY <3>1, <3>2, <3>3
  <2>3. \A p \in DOMAIN procs : Acquiring(p) => procs[p].dir = dir /\ (Paced(p) \/ unpaced)
    BY DEF IInv, LoggerInv, PruInv, Phased, Acquiring, Here
  <2>. QED BY <2>2, <2>3
<1>. QED BY Invariance, <1>1, PTL
=============================================================================
