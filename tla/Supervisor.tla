----------------------------- MODULE Supervisor -----------------------------
(***************************************************************************)
(* Who runs, and with which settings: the web application's requests to    *)
(* restart a part, to clear the storage and to save settings               *)
(* (pika/webapp/app/main.py), the service pika-run-all that starts         *)
(* everything (external), the start of a datalogger and its handshake with *)
(* the PRU (pika/datalogger/main.c), which two dataloggers may try at the  *)
(* same time.                                                              *)
(*                                                                         *)
(* A request that restarts something leaves a task behind that sleeps and  *)
(* then acts, so requests overlap.  The web application runs in a single   *)
(* thread: reading, changing and writing pika.yaml is one step, and so is  *)
(* everything between two sleeps of a task.                                *)
(***************************************************************************)
EXTENDS Integers, Sequences, FiniteSetsExt

CONSTANTS
    Rates,          \* ALLOWED_SAMPLE_RATES_HZ
    Thresholds,     \* log thresholds within their ranges
    Lookbacks,      \* history_window_minutes within its range
    Asked,          \* what a browser may ask for any of the three
    MaxRequests,    \* bound: requests
    MaxProcs,       \* bound: dataloggers ever started
    MaxCrashes      \* bound: dataloggers that die on their own

None == 0

ASSUME SupervisorAssumption ==
    /\ Rates \subseteq Nat \ {None} /\ Thresholds \subseteq Nat /\ Lookbacks \subseteq Nat
    /\ MaxRequests \in Nat /\ MaxProcs \in Nat \ {0} /\ MaxCrashes \in Nat

VARIABLES
    yaml,           \* pika.yaml
    config,         \* config_service.config of the web application
    procs,          \* the dataloggers
    pru,            \* remoteproc state; header.magic, header.sample_period_cycles
    dir,            \* which data directory: counts the clearings
    unit,           \* pika-run-all.service: up, or stopping to be restarted
    tasks,          \* one for every request that was accepted
    crashes,
    overlapped,     \* a request came while an earlier one was under way
    late,           \* a datalogger was started beside one that was leaving
    unpaced,        \* the PRU was reloaded under the datalogger that
                    \* started it, or its magic did not come in time
    owed            \* settings were saved, and nothing went wrong since
                    \* that the restart they bring would not mend

vars == <<yaml, config, procs, pru, dir, unit, tasks, crashes, overlapped, late, unpaced, owed>>

(* Phases of a datalogger: config read and files opened; PRU stopped; magic
   cleared; PRU started; acquiring; PRU stopped on the way out; gone.      *)
Phases == {"open", "halted", "stopped", "booting", "run", "leave", "gone"}
Settings == [rate : Rates, thresholds : Thresholds, lookback : Lookbacks]
Proc == [phase : Phases, term : BOOLEAN, conf : Settings, dir : Nat]
(* The firmware is loaded and runs once it is through with its start.      *)
Pru == [state : {"off", "starting", "on"}, magic : BOOLEAN, rate : Rates \cup {None}]
Task == [kind : {"pru", "datalogger", "all", "clear", "none"}, stage : {"asked", "killed", "done"}]

TypeOK ==
    /\ yaml \in Settings
    /\ config \in Settings /\ (unit = "up" => config = yaml)
    /\ procs \in Seq(Proc) /\ Len(procs) <= MaxProcs
    /\ pru \in Pru
    /\ dir \in Nat /\ unit \in {"up", "stopping"}
    /\ tasks \in Seq(Task) /\ Len(tasks) <= MaxRequests
    /\ crashes \in 0..MaxCrashes
    /\ overlapped \in BOOLEAN /\ late \in BOOLEAN /\ unpaced \in BOOLEAN /\ owed \in BOOLEAN

Here(p) == procs[p].phase # "gone"
Open(t) == tasks[t].stage # "done"
Busy ==
    \/ unit # "up"
    \/ \E t \in DOMAIN tasks : Open(t)
    \/ \E p \in DOMAIN procs : Here(p) /\ (procs[p].phase # "run" \/ procs[p].term)

WillRestart == unit = "stopping" \/ \E t \in DOMAIN tasks : tasks[t] = [kind |-> "all", stage |-> "asked"]
Hurt(harm) == owed' = (owed /\ (harm => WillRestart))

-----------------------------------------------------------------------------
(* Dataloggers.                                                            *)

(* _start_datalogger: a new process, which reads pika.yaml and opens its
   files in the directory as they are then.                                *)
Spawned(ps, conf, d) ==
    Append(ps, [phase |-> "open", term |-> FALSE, conf |-> conf, dir |-> d])
SomeHere == \E p \in DOMAIN procs : Here(p)
SomeLeaving == \E p \in DOMAIN procs : Here(p) /\ procs[p].term

(* pkill -x datalogger: SIGTERM to every one of them.                      *)
Killed(ps) == [p \in DOMAIN ps |-> [ps[p] EXCEPT !.term = TRUE]]

Init ==
    /\ yaml \in Settings /\ config = yaml
    /\ procs = Spawned(<<>>, yaml, 0)
    /\ pru = [state |-> "starting", magic |-> FALSE, rate |-> None]
    /\ dir = 0 /\ unit = "up" /\ tasks = <<>> /\ crashes = 0
    /\ overlapped = FALSE /\ late = FALSE /\ unpaced = FALSE /\ owed = FALSE

Enter(p, phase) == procs' = [procs EXCEPT ![p].phase = phase]
webVars == <<yaml, config, dir, unit, tasks, crashes, overlapped, late, owed>>

(* The rate is written to the header for a first time; then
   shm_pru_set_state("stop").                                              *)
StopPru(p) ==
    /\ procs[p].phase = "open"
    /\ pru' = [pru EXCEPT !.state = "off", !.rate = procs[p].conf.rate]
    /\ Enter(p, "halted")
    /\ UNCHANGED <<webVars, unpaced>>

(* A tenth of a second later: the magic of the boot before is invalidated. *)
ClearMagic(p) ==
    /\ procs[p].phase = "halted"
    /\ pru' = [pru EXCEPT !.magic = FALSE]
    /\ Enter(p, "stopped")
    /\ UNCHANGED <<webVars, unpaced>>

(* shm_pru_set_state("start"): refused where the PRU runs, and the
   datalogger gives up.                                                    *)
StartPru(p) ==
    /\ procs[p].phase = "stopped"
    /\ IF pru.state = "off"
       THEN pru' = [pru EXCEPT !.state = "starting"] /\ Enter(p, "booting")
       ELSE UNCHANGED pru /\ Enter(p, "gone")
    /\ unpaced' = FALSE
    /\ UNCHANGED webVars

(* The firmware wipes the header, then publishes the magic.                *)
Boot ==
    /\ pru.state = "starting"
    /\ pru' = [state |-> "on", magic |-> TRUE, rate |-> None]
    /\ UNCHANGED <<procs, webVars, unpaced>>

\* mutant of Configure: the rate written before the boot is relied upon
ConfigureNot(p) ==
    /\ procs[p].phase = "booting" /\ pru.magic
    /\ Enter(p, "run")
    /\ UNCHANGED <<webVars, pru, unpaced>>

(* The magic is there: the rate is applied again.                          *)
Configure(p) ==
    /\ procs[p].phase = "booting" /\ pru.magic
    /\ pru' = [pru EXCEPT !.rate = procs[p].conf.rate]
    /\ Enter(p, "run")
    /\ UNCHANGED <<webVars, unpaced>>

(* It did not come within five seconds: nothing is applied, a warning is
   printed, and the datalogger acquires all the same.                      *)
MissMagic(p) ==
    /\ procs[p].phase = "booting" /\ ~pru.magic
    /\ Enter(p, "run")
    /\ unpaced' = TRUE /\ Hurt(TRUE)
    /\ UNCHANGED <<yaml, config, pru, dir, unit, tasks, crashes, overlapped, late>>

(* keep_running is seen to be 0.                                           *)
Leave(p) ==
    /\ procs[p].phase = "run" /\ procs[p].term
    /\ pru' = [pru EXCEPT !.state = "off"]
    /\ Enter(p, "leave")
    /\ UNCHANGED <<webVars, unpaced>>

Exit(p) ==
    /\ procs[p].phase = "leave"
    /\ Enter(p, "gone")
    /\ UNCHANGED <<webVars, pru, unpaced>>

(* Nothing starts it again.                                                *)
Crash(p) ==
    /\ crashes < MaxCrashes /\ Here(p)
    /\ Enter(p, "gone")
    /\ crashes' = crashes + 1
    /\ Hurt(TRUE)
    /\ UNCHANGED <<yaml, config, pru, dir, unit, tasks, overlapped, late, unpaced>>

-----------------------------------------------------------------------------
(* Requests.                                                               *)

Accept(kind, stage) ==
    /\ unit = "up" /\ Len(tasks) < MaxRequests
    /\ tasks' = Append(tasks, [kind |-> kind, stage |-> stage])
    /\ overlapped' = (overlapped \/ Busy)

(* restart_system_component                                                *)
Restart(component) ==
    /\ component \in {"pru", "datalogger", "webserver", "all"}
    /\ Accept(IF component = "webserver" THEN "all" ELSE component, "asked")
    /\ UNCHANGED <<yaml, config, procs, pru, dir, unit, crashes, late, unpaced, owed>>

(* _persist_nominal_rate_hz, _persist_anomalies_config, _persist_trend_config:
   a field, the rest of the file as it is.                                 *)
PersistRate(file, rate) == [file EXCEPT !.rate = rate]
PersistThresholds(file, values) == [file EXCEPT !.thresholds = values]
PersistLookback(file, minutes) == [file EXCEPT !.lookback = minutes]

\* mutant of Load: the file is written, what was read before it stays
LoadNothing(file) == UNCHANGED config

(* load_config *)
Load(file) == config' = file

(* update_sample_rate *)
SaveRate(rate) ==
    /\ rate \in Rates
    /\ Accept("all", "asked")
    /\ yaml' = PersistRate(yaml, rate) /\ Load(yaml')
    /\ owed' = TRUE
    /\ UNCHANGED <<procs, pru, dir, unit, crashes, late, unpaced>>

(* update_anomalies_config *)
SaveThresholds(values) ==
    /\ values \in Thresholds
    /\ Accept("all", "asked")
    /\ yaml' = PersistThresholds(yaml, values) /\ Load(yaml')
    /\ owed' = TRUE
    /\ UNCHANGED <<procs, pru, dir, unit, crashes, late, unpaced>>

(* update_trend_config: nothing is restarted.                              *)
SaveLookback(minutes) ==
    /\ minutes \in Lookbacks
    /\ unit = "up" /\ Len(tasks) < MaxRequests
    /\ tasks' = Append(tasks, [kind |-> "none", stage |-> "done"])
    /\ yaml' = PersistLookback(yaml, minutes) /\ Load(yaml')
    /\ UNCHANGED <<procs, pru, dir, unit, crashes, overlapped, late, unpaced, owed>>

(* clear_storage_api up to its sleep.                                      *)
ClearStorage ==
    /\ Accept("clear", "killed")
    /\ procs' = Killed(procs)
    /\ UNCHANGED <<yaml, config, pru, dir, unit, crashes, late, unpaced, owed>>

-----------------------------------------------------------------------------
(* What the tasks do when they wake.                                       *)

Stage(t, kind, stage) == tasks[t].kind = kind /\ tasks[t].stage = stage
To(t, stage) == tasks' = [tasks EXCEPT ![t].stage = stage]

(* make -C pru load                                                        *)
Reloaded == pru' = [pru EXCEPT !.state = "starting"]

ReloadPru(t) ==
    /\ unit = "up" /\ Stage(t, "pru", "asked") /\ To(t, "done")
    /\ Reloaded
    /\ unpaced' = TRUE /\ Hurt(TRUE)
    /\ UNCHANGED <<yaml, config, procs, dir, unit, crashes, overlapped, late>>

KillLogger(t) ==
    /\ unit = "up" /\ Stage(t, "datalogger", "asked") /\ To(t, "killed")
    /\ procs' = Killed(procs)
    /\ UNCHANGED <<yaml, config, pru, dir, unit, crashes, overlapped, late, unpaced, owed>>

StartLogger(t) ==
    /\ unit = "up" /\ Stage(t, "datalogger", "killed") /\ To(t, "done")
    /\ Len(procs) < MaxProcs
    /\ procs' = Spawned(procs, yaml, dir)
    /\ late' = (late \/ SomeLeaving) /\ Hurt(SomeHere)
    /\ UNCHANGED <<yaml, config, pru, dir, unit, crashes, overlapped, unpaced>>

\* mutant of ClearAndStart: started before the files are unlinked
StartAndClear(t) ==
    /\ Stage(t, "clear", "killed") /\ To(t, "done")
    /\ Len(procs) < MaxProcs
    /\ dir' = dir + 1
    /\ procs' = Spawned(procs, yaml, dir)
    /\ late' = (late \/ SomeLeaving) /\ Hurt(SomeHere)
    /\ UNCHANGED <<yaml, config, pru, unit, crashes, overlapped, unpaced>>

(* The rest of clear_storage_api: files are unlinked, a datalogger started.
   A web application that is to stop sees a request through first.         *)
ClearAndStart(t) ==
    /\ Stage(t, "clear", "killed") /\ To(t, "done")
    /\ Len(procs) < MaxProcs
    /\ dir' = dir + 1
    /\ procs' = Spawned(procs, yaml, dir')
    /\ late' = (late \/ SomeLeaving) /\ Hurt(SomeHere)
    /\ UNCHANGED <<yaml, config, pru, unit, crashes, overlapped, unpaced>>

(* systemctl restart: everything in the service gets SIGTERM; the tasks the
   web application has in the background end with it.                      *)
RestartUnit(t) ==
    /\ unit = "up" /\ Stage(t, "all", "asked")
    /\ unit' = "stopping"
    /\ procs' = Killed(procs)
    /\ tasks' = [u \in DOMAIN tasks |->
                   IF tasks[u].kind = "clear" THEN tasks[u] ELSE [tasks[u] EXCEPT !.stage = "done"]]
    /\ UNCHANGED <<yaml, config, pru, dir, crashes, overlapped, late, unpaced, owed>>

(* SIGKILL, when a minute and a half were not enough.                      *)
KillRemaining ==
    /\ unit = "stopping"
    /\ SomeHere \/ \E t \in DOMAIN tasks : Open(t)
    /\ procs' = [p \in DOMAIN procs |-> [procs[p] EXCEPT !.phase = "gone"]]
    /\ tasks' = [t \in DOMAIN tasks |-> [tasks[t] EXCEPT !.stage = "done"]]
    /\ UNCHANGED <<yaml, config, pru, dir, unit, crashes, overlapped, late, unpaced, owed>>

(* When all are gone, make run-all: firmware, datalogger, web application. *)
RunAll ==
    /\ unit = "stopping" /\ ~SomeHere /\ \A t \in DOMAIN tasks : ~Open(t)
    /\ Len(procs) < MaxProcs
    /\ unit' = "up" /\ Load(yaml)
    /\ Reloaded
    /\ procs' = Spawned(procs, yaml, dir)
    /\ overlapped' = FALSE /\ late' = FALSE /\ unpaced' = FALSE
    /\ UNCHANGED <<yaml, dir, tasks, crashes, owed>>

LoggerStep(p) ==
    \/ StopPru(p) \/ ClearMagic(p) \/ StartPru(p) \/ Configure(p) \/ MissMagic(p)
    \/ Leave(p) \/ Exit(p)
TaskStep(t) == ReloadPru(t) \/ KillLogger(t) \/ StartLogger(t) \/ ClearAndStart(t) \/ RestartUnit(t)

Next ==
    \/ \E p \in DOMAIN procs : LoggerStep(p) \/ Crash(p)
    \/ \E component \in {"pru", "datalogger", "webserver", "all"} : Restart(component)
    \/ \E value \in Asked : SaveRate(value) \/ SaveThresholds(value) \/ SaveLookback(value)
    \/ ClearStorage
    \/ \E t \in DOMAIN tasks : TaskStep(t)
    \/ Boot \/ KillRemaining \/ RunAll

(* Processes run, sleeps end, and systemd kills what does not stop and
   restarts what it stopped.  Nothing is asked of the firmware.            *)
Fairness ==
    /\ \A p \in 1..MaxProcs : WF_vars(p \in DOMAIN procs /\ LoggerStep(p))
    /\ \A t \in 1..MaxRequests : WF_vars(t \in DOMAIN tasks /\ TaskStep(t))
    /\ WF_vars(KillRemaining) /\ WF_vars(RunAll)

Spec == Init /\ [][Next]_vars /\ Fairness

-----------------------------------------------------------------------------
(* What must hold.                                                         *)

Acquiring(p) == procs[p].phase = "run" /\ ~procs[p].term
Paced(p) == pru.state = "on" /\ pru.rate = procs[p].conf.rate

(* As long as no request comes before the one before it is through, and no
   datalogger takes longer to leave than the web application waits, there is
   one datalogger at most, its files are those in the directory, and the PRU
   runs at its rate, unless it was reloaded since the datalogger started it
   or gave no sign of life within five seconds (restart_system_component,
   clear_storage_api, the handshake of main.c:463-525).                    *)
LoggerIsAlone ==
    ~overlapped /\ ~late =>
        /\ Cardinality({p \in DOMAIN procs : Here(p) /\ ~procs[p].term}) <= 1
        /\ \A p \in DOMAIN procs :
              Acquiring(p) => procs[p].dir = dir /\ (Paced(p) \/ unpaced)

(* Settings that were saved are taken up: whatever else was requested before
   or meanwhile, in the end a datalogger acquires with the rate and the
   thresholds of pika.yaml, on a PRU of that rate, and the web application
   has them too, unless after the restart this brings the PRU was reloaded
   or its magic did not come in time, the datalogger died, or another was started before it had left
   (update_sample_rate, update_anomalies_config).                          *)
SettingsTakeEffect ==
    owed ~> \/ ~owed
            \/ /\ unit = "up" /\ config = yaml
               /\ \E p \in DOMAIN procs :
                     /\ Acquiring(p) /\ Paced(p)
                     /\ procs[p].conf.rate = yaml.rate
                     /\ procs[p].conf.thresholds = yaml.thresholds
=============================================================================
