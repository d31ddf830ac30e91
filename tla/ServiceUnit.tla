---------------------------- MODULE ServiceUnit ----------------------------
(***************************************************************************)
(* The per-unit service supervision state machine of                       *)
(* src/components/service/src/service.rs (ServiceUnit), together with the  *)
(* part of the manager it drives: the child processes it spawns and the    *)
(* pid -> unit watch table that routes their exits back to it.             *)
(*                                                                         *)
(* Each handler of the code (start, stop, reload, sigchld_event) is ONE    *)
(* atomic action: the event loop is single threaded and runs a handler to  *)
(* completion.  A handler is a chain of calls (run_prestart -> run_start   *)
(* -> send_signal -> run_stop_post -> ...); each called function is an     *)
(* operator from a record of the unit's state to its new value, so the     *)
(* chain is their composition, in the code's order.                        *)
(*                                                                         *)
(* Nondeterminism stands for what the code does not control: whether a    *)
(* spawn succeeds (fork, prepare_exec), when a child exits and how.        *)
(***************************************************************************)
EXTENDS Naturals, Sequences, FiniteSets

CONSTANTS
  MaxCmds,         \* most commands configured for one stage (ExecStart=...)
  SpawnOutcomes,   \* {TRUE} or {TRUE, FALSE}: may start_service fail?
  ExitKinds        \* how a child may end: subset of ExitStatuses

ASSUME MaxCmds \in Nat \ {0}
ASSUME SpawnOutcomes \subseteq BOOLEAN /\ TRUE \in SpawnOutcomes

(* The seven command stages (ServiceCommand) and the states (ServiceState) *)
Stages == {"Condition", "StartPre", "Start", "StartPost", "Reload",
           "Stop", "StopPost"}

States == {"StateMax", "Dead", "Condition", "StartPre", "Start", "StartPost",
           "Running", "Reload", "Stop", "StopWatchdog", "StopSigterm",
           "StopSigkill", "StopPost", "FinalWatchdog", "FinalSigterm",
           "FinalSigkill", "Failed"}

Results == {"Success", "FailureResources", "FailureSignal"}

(* How a reaped child ended, as the child dispatcher reports it:           *)
(* (exit code, signal); a normal exit carries SIGCHLD as its signal.       *)
ExitStatuses == {"Exited0", "Exited1", "Killed"}
ExitCode(e)   == IF e = "Exited0" THEN 0 ELSE IF e = "Exited1" THEN 1 ELSE 2
ExitSignal(e) == IF e = "Killed" THEN "SIGTERM" ELSE "SIGCHLD"

ASSUME ExitKinds \subseteq ExitStatuses /\ ExitKinds # {}

(* A job of the job manager (spec 3, 4.C8): start or stop, waiting in the *)
(* run queue or running (its unit operation was called).                   *)
NoJob == [kind |-> "none", state |-> "none"]
Jobs  == [kind : {"start", "stop"}, state : {"waiting", "running"}] \cup {NoJob}

NoCmd == [stage |-> "None", idx |-> 0]
Cmds  == [stage : Stages, idx : 1..MaxCmds] \cup {NoCmd}

VARIABLES
  state, result,
  main_pid, control_pid,         \* 0 stands for None
  main_command,                  \* cursor into ExecStart, 0 for None
  control_command,               \* cursor into the stage of a control cmd
  forbid_restart,
  exec_commands,                 \* [Stages -> number of commands]
  procs,                         \* live (unreaped) children of the manager
  watched,                       \* pids in the child watch table
  sigkilled,                     \* children sent SIGKILL
  next_pid,                      \* pid the next fork returns
  panicked,                      \* a handler reached todo!(): manager died
  job                            \* the unit's job in the job manager

unit == <<state, result, main_pid, control_pid, main_command,
          control_command, forbid_restart>>
vars == <<unit, exec_commands, procs, watched, sigkilled, next_pid, panicked, job>>

Pids == 1..next_pid

-----------------------------------------------------------------------------
(* The unit and the manager state a handler touches, as one record, and    *)
(* the outcomes of the spawns it will attempt, in order.                   *)
Snapshot(oks) ==
  [state |-> state, result |-> result, main_pid |-> main_pid,
   control_pid |-> control_pid, main_command |-> main_command,
   control_command |-> control_command, forbid_restart |-> forbid_restart,
   procs |-> procs, watched |-> watched, sigkilled |-> sigkilled,
   next_pid |-> next_pid, panicked |-> panicked, job |-> job, oracle |-> oks,
   spawned |-> 0]

Commit(v) ==
  /\ state' = v.state /\ result' = v.result
  /\ main_pid' = v.main_pid /\ control_pid' = v.control_pid
  /\ main_command' = v.main_command /\ control_command' = v.control_command
  /\ forbid_restart' = v.forbid_restart
  /\ procs' = v.procs /\ watched' = v.watched /\ sigkilled' = v.sigkilled
  /\ next_pid' = v.next_pid /\ panicked' = v.panicked /\ job' = v.job
  /\ UNCHANGED exec_commands

(* service_start::start_service: fork the command and, before returning    *)
(* the pid, register it in the watch table (child_watch_pid).  Fails       *)
(* without a child when the next oracle outcome is FALSE.                  *)
start_service(u) ==
  IF Head(u.oracle)
  THEN [u EXCEPT !.procs = @ \cup {u.next_pid},
                 !.watched = @ \cup {u.next_pid},
                 !.next_pid = @ + 1, !.oracle = Tail(@),
                 !.spawned = u.next_pid]
  ELSE [u EXCEPT !.oracle = Tail(@), !.spawned = 0]

Spawned(v) == v.spawned # 0

unwatch_control_pid(u) ==
  IF u.control_pid = 0 THEN u ELSE [u EXCEPT !.watched = @ \ {u.control_pid}]

unwatch_main_pid(u) ==
  IF u.main_pid = 0 THEN u ELSE [u EXCEPT !.watched = @ \ {u.main_pid}]

(* The first command of a stage, if the stage has one.                     *)
FirstCmd(stage) == [stage |-> stage, idx |-> 1]
HasCmds(stage)  == exec_commands[stage] > 0
HasNext(c)      == c # NoCmd /\ c.idx < exec_commands[c.stage]

(* Mutant: a reload reported as a new activation.                          *)
to_unit_active_state_reload_activating(s) ==
  CASE s \in {"StateMax", "Dead"} -> "inactive"
    [] s \in {"Condition", "StartPre", "Start", "StartPost", "Reload"} -> "activating"
    [] s = "Running" -> "active"
    [] s = "Failed" -> "failed"
    [] OTHER -> "deactivating"

(* ServiceState::to_unit_active_state, the state set_state reports to the *)
(* unit layer (service.rs set_state).                                      *)
to_unit_active_state(s) ==
  CASE s \in {"StateMax", "Dead"} -> "inactive"
    [] s \in {"Condition", "StartPre", "Start", "StartPost"} -> "activating"
    [] s = "Running" -> "active"
    [] s = "Reload" -> "reloading"
    [] s = "Failed" -> "failed"
    [] OTHER -> "deactivating"

(* JobManager::try_finish (not in src/; spec 4.C8): a running job ends at  *)
(* the first notified state it was waiting for -- a start job at active,   *)
(* reloading or a stopped state (done or failed), a stop job at a stopped  *)
(* state.  A waiting job is not affected.                                   *)
try_finish(j, ns) ==
  IF /\ j.state = "running"
     /\ \/ j.kind = "start" /\ ns \in {"active", "reloading", "inactive", "failed"}
        \/ j.kind = "stop" /\ ns \in {"inactive", "failed"}
  THEN NoJob ELSE j

(* UnitStatesSub::insert_states, the table subscriber of the unit states:  *)
(* try_finish on the unit's job with the new state, then trigger the       *)
(* triggered-by units (none here: one unit).                                *)
insert_states(u, ns) == [u EXCEPT !.job = try_finish(@, ns)]

(* Mutant: the notification carries the state being left.                  *)
set_state_old(u, s) == insert_states([u EXCEPT !.state = s], to_unit_active_state(u.state))

(* set_state: store the state and notify (os, ns) to the unit layer, whose *)
(* state table calls insert_states synchronously.                          *)
set_state(u, s) == insert_states([u EXCEPT !.state = s], to_unit_active_state(s))

(* "if self.result == Success { self.result = res }": first failure latches *)
Latch(u, res) == [u EXCEPT !.result = IF @ = "Success" THEN res ELSE @]

(* KillOperation::to_signal of the state's kill operation.                 *)
KillSignal(s) ==
  IF s \in {"StopSigkill", "FinalSigkill"} THEN "SIGKILL"
  ELSE IF s \in {"StopWatchdog", "FinalWatchdog"} THEN "SIGABRT"
  ELSE "SIGTERM"

(* kill_service: signal main and control when set (SIGCONT follows a       *)
(* SIGTERM/SIGABRT).  Only SIGKILL is recorded: it is the one signal that  *)
(* obliges the child to exit; any child may exit at any time anyway.       *)
kill_service(u, sig) ==
  LET targets == ({u.main_pid, u.control_pid} \ {0}) \cap u.procs
  IN IF sig = "SIGKILL" THEN [u EXCEPT !.sigkilled = @ \cup targets] ELSE u

run_dead(u, res) ==
  LET v == Latch(u, res)
  IN set_state(v, IF v.result = "Success" THEN "Dead" ELSE "Failed")

(* send_signal for FinalSigterm/FinalWatchdog: kill, then recurse with     *)
(* FinalSigkill, which kills again and runs run_dead(Success).             *)
send_signal_final(u, s) ==
  run_dead(kill_service(kill_service(u, KillSignal(s)), "SIGKILL"), "Success")

(* Mutant: run_stop_post that loses the stop-post command's pid.           *)
run_stop_post_pid_lost(u, res) ==
  LET v == Latch(u, res)
  IN IF HasCmds("StopPost")
     THEN set_state(start_service([v EXCEPT !.control_command = FirstCmd("StopPost")]),
                    "StopPost")
     ELSE send_signal_final(v, "FinalSigterm")

run_stop_post(u, res) ==
  LET v == Latch(u, res)
  IN IF HasCmds("StopPost")
     THEN LET w == start_service([v EXCEPT !.control_command =
                                             FirstCmd("StopPost")])
          IN set_state(IF Spawned(w) THEN [w EXCEPT !.control_pid = w.spawned]
                       ELSE send_signal_final(w, "FinalSigterm"),
                       "StopPost")
     ELSE send_signal_final(v, "FinalSigterm")

(* send_signal for StopSigterm/StopSigkill/StopWatchdog: kill, then        *)
(* run_stop_post(Success).  The result argument is only logged.            *)
send_signal_stop(u, s) == run_stop_post(kill_service(u, KillSignal(s)), "Success")

(* Mutant: run_stop that loses the stop command's pid.                     *)
run_stop_pid_lost(u, res) ==
  LET v == Latch(u, res)
  IN IF HasCmds("Stop")
     THEN set_state(start_service([v EXCEPT !.control_command = FirstCmd("Stop")]), "Stop")
     ELSE send_signal_stop(v, "StopSigterm")

run_stop(u, res) ==
  LET v == Latch(u, res)
  IN IF HasCmds("Stop")
     THEN LET w == start_service([v EXCEPT !.control_command = FirstCmd("Stop")])
          IN set_state(IF Spawned(w) THEN [w EXCEPT !.control_pid = w.spawned]
                       ELSE w, "Stop")
     ELSE send_signal_stop(v, "StopSigterm")

service_alive(u) == TRUE

(* Mutant: enter_running without the latched-result check.                *)
enter_running_unchecked(u, sr) ==
  LET v == Latch(unwatch_control_pid(u), sr)
  IN IF service_alive(v) THEN set_state(v, "Running") ELSE run_stop(v, sr)

enter_running(u, sr) ==
  LET v == Latch(unwatch_control_pid(u), sr)
  IN IF v.result # "Success" THEN send_signal_stop(v, "StopSigterm")
     ELSE IF service_alive(v) THEN set_state(v, "Running")
     ELSE run_stop(v, sr)

run_start_post(u) ==
  LET v == unwatch_control_pid(u)
  IN IF HasCmds("StartPost")
     THEN LET w == start_service([v EXCEPT !.control_command =
                                             FirstCmd("StartPost")])
          IN set_state(IF Spawned(w) THEN [w EXCEPT !.control_pid = w.spawned]
                       ELSE w, "StartPost")
     ELSE enter_running(v, "Success")

run_start(u) ==
  LET v == unwatch_main_pid(unwatch_control_pid(
             [u EXCEPT !.control_command = NoCmd]))
  IN IF HasCmds("Start")
     THEN LET w == start_service([v EXCEPT !.main_command = 1])
          IN set_state(IF Spawned(w) THEN [w EXCEPT !.main_pid = w.spawned]
                       ELSE send_signal_stop(w, "StopSigterm"),
                       "Start")
     ELSE run_start_post(v)

run_prestart(u) ==
  LET v == unwatch_control_pid(u)
  IN IF HasCmds("StartPre")
     THEN LET w == start_service([v EXCEPT !.control_command =
                                             FirstCmd("StartPre")])
          IN set_state(IF Spawned(w) THEN [w EXCEPT !.control_pid = w.spawned]
                       ELSE run_dead(w, "FailureResources"),
                       "StartPre")
     ELSE run_start(v)

start(u) ==
  IF HasCmds("Condition")
  THEN LET w == start_service([u EXCEPT !.control_command =
                                          FirstCmd("Condition")])
       IN set_state(IF Spawned(w) THEN [w EXCEPT !.control_pid = w.spawned]
                    ELSE run_dead(w, "FailureResources"),
                    "Condition")
  ELSE run_prestart(u)

run_reload(u) ==
  LET v == unwatch_control_pid([u EXCEPT !.control_command = NoCmd])
  IN IF HasCmds("Reload")
     THEN LET w == start_service([v EXCEPT !.control_command =
                                             FirstCmd("Reload")])
          IN set_state(IF Spawned(w) THEN [w EXCEPT !.control_pid = w.spawned]
                       ELSE enter_running(w, "Success"),
                       "Reload")
     ELSE enter_running(v, "Success")

(* run_next_control / run_next_main: advance the cursor and spawn; a      *)
(* failed spawn is only logged.                                            *)
run_next_control(u) ==
  LET c == u.control_command
      w == start_service([u EXCEPT !.control_command.idx = c.idx + 1])
  IN IF Spawned(w) THEN [w EXCEPT !.control_pid = w.spawned] ELSE w

run_next_main(u) ==
  LET w == start_service([u EXCEPT !.main_command = u.main_command + 1])
  IN IF Spawned(w) THEN [w EXCEPT !.main_pid = w.spawned] ELSE w
-----------------------------------------------------------------------------
(* ServiceResult of an exit: code 0 is success; a non-SIGCHLD signal is   *)
(* FailureSignal; a non-zero code with SIGCHLD is success as well.         *)
ExitResult(e) ==
  IF ExitCode(e) = 0 THEN "Success"
  ELSE IF ExitSignal(e) # "SIGCHLD" THEN "FailureSignal"
  ELSE "Success"

StopSignalStates  == {"StopWatchdog", "StopSigkill", "StopSigterm"}
FinalSignalStates == {"FinalSigterm", "FinalSigkill"}
Panic(u) == [u EXCEPT !.panicked = TRUE]

(* Mutant: the cursor test without main_command.next.is_some().             *)
main_has_next_unbounded(u) == u.main_command # 0

(* main_command is set and has a next command.                             *)
main_has_next(u) == u.main_command # 0 /\ u.main_command < exec_commands["Start"]

(* sigchld_event, main-pid branch.                                         *)
main_exited(u, res) ==
  LET v == Latch([u EXCEPT !.main_pid = 0], res)
  IN IF main_has_next(v) /\ res = "Success"
     THEN run_next_main(v)
     ELSE LET w == [v EXCEPT !.main_command = 0]
          IN CASE w.state = "Dead" -> Panic(w)
               [] w.state = "Start" -> send_signal_stop(w, "StopSigterm")
               [] w.state \in {"StartPost", "Reload"} -> run_stop(w, res)
               [] w.state = "Running" -> enter_running(w, res)
               [] w.state \in StopSignalStates -> run_stop_post(w, res)
               [] w.state \in FinalSignalStates -> run_dead(w, res)
               [] OTHER -> w

(* sigchld_event, control-pid branch.                                      *)
control_exited(u, res) ==
  LET v == [u EXCEPT !.control_pid = 0]
  IN IF HasNext(v.control_command) /\ res = "Success"
     THEN run_next_control(v)
     ELSE LET w == [v EXCEPT !.control_command = NoCmd]
              ok == res = "Success"
          IN CASE w.state = "Condition" ->
                    IF ok THEN run_prestart(w) ELSE send_signal_stop(w, "StopSigterm")
               [] w.state = "StartPre" ->
                    IF ok THEN run_start(w) ELSE send_signal_stop(w, "StopSigterm")
               [] w.state = "Start" -> IF ok THEN run_start_post(w) ELSE w
               [] w.state = "StartPost" -> enter_running(w, "Success")
               [] w.state = "Running" -> Panic(w)
               [] w.state = "Reload" -> enter_running(w, res)
               [] w.state = "Stop" -> send_signal_stop(w, "StopSigterm")
               [] w.state \in StopSignalStates -> run_stop_post(w, res)
               [] w.state = "StopPost" -> send_signal_final(w, "FinalSigterm")
               [] w.state \in FinalSignalStates -> run_dead(w, res)
               [] OTHER -> w

sigchld_event(u, pid, res) ==
  IF u.main_pid = pid THEN main_exited(u, res)
  ELSE IF u.control_pid = pid THEN control_exited(u, res)
  ELSE u

(* UnitObj::stop                                                           *)
stop(u) ==
  LET v == [u EXCEPT !.forbid_restart = TRUE]
  IN IF v.state \in {"Stop", "StopSigterm", "StopSigkill", "StopPost"} THEN v
     ELSE IF v.state \in {"Condition", "StartPre", "Start", "StartPost",
                          "Reload", "StopWatchdog"}
          THEN send_signal_stop(v, "StopSigterm")
     ELSE run_stop(v, "Success")

-----------------------------------------------------------------------------
(* ServiceUnit::new; the unit's configuration is any assignment of command *)
(* counts to the stages.                                                   *)
Init ==
  /\ state = "StateMax" /\ result = "Success"
  /\ main_pid = 0 /\ control_pid = 0
  /\ main_command = 0 /\ control_command = NoCmd
  /\ forbid_restart = FALSE
  /\ exec_commands \in [Stages -> 0..MaxCmds]
  /\ procs = {} /\ watched = {} /\ sigkilled = {}
  /\ next_pid = 1 /\ panicked = FALSE
  /\ job = NoJob

Inactive == {"StateMax", "Dead", "Failed"}

Lifecycle == INSTANCE ServiceLifecycle WITH
               active_state <- to_unit_active_state(state)

(* A handler runs with the outcomes of the (at most two) spawns it tries.  *)
Handle(H(_)) ==
  /\ ~panicked
  /\ \E o1, o2 \in SpawnOutcomes : LET v == H(Snapshot(<<o1, o2>>)) IN Commit(v)

(* UnitObj::reload, requested of a running unit.                          *)
Reload == state = "Running" /\ Handle(run_reload)

(* UnitManager::start_unit / stop_unit: load the unit (loaded here) and    *)
(* JobManager::exec the job in replace mode, which replaces the unit's     *)
(* pending or running job.  The unit is run later, from the job queue.     *)
start_unit ==
  /\ ~panicked
  /\ job' = [kind |-> "start", state |-> "waiting"]
  /\ UNCHANGED <<unit, exec_commands, procs, watched, sigkilled, next_pid, panicked>>

stop_unit ==
  /\ ~panicked
  /\ job' = [kind |-> "stop", state |-> "waiting"]
  /\ UNCHANGED <<unit, exec_commands, procs, watched, sigkilled, next_pid, panicked>>

(* The job manager runs a waiting job (spec 4.C8): UnitObj::start on an   *)
(* inactive unit, UnitObj::stop on an active one; a job whose unit is      *)
(* already where it leads ends at once, else it waits for notifications.   *)
Running(u) == [u EXCEPT !.job.state = "running"]
run_start_job(u) == start(Running(u))
run_stop_job(u)  == stop(Running(u))
Start == job = [kind |-> "start", state |-> "waiting"] /\ state \in Inactive
         /\ Handle(run_start_job)
Stop  == job = [kind |-> "stop", state |-> "waiting"] /\ state \notin Inactive
         /\ Handle(run_stop_job)
JobSettled ==
  /\ job.state = "waiting" /\ ~panicked
  /\ (job.kind = "start") = (state \notin Inactive)
  /\ job' = IF job.kind = "stop" \/ to_unit_active_state(state) \in {"active", "reloading"}
            THEN NoJob ELSE [job EXCEPT !.state = "running"]
  /\ UNCHANGED <<unit, exec_commands, procs, watched, sigkilled, next_pid, panicked>>
(* A child exits and is reaped; the dispatcher removes its watch and, if  *)
(* it was watched, hands the exit to the unit's sigchld_event.             *)
ChildExit(p, e) ==
  /\ p \in procs
  /\ LET reap(u) == [u EXCEPT !.procs = @ \ {p}, !.watched = @ \ {p},
                              !.sigkilled = @ \ {p}]
         dispatch(u) == IF p \in watched
                       THEN sigchld_event(reap(u), p, ExitResult(e))
                       ELSE reap(u)
     IN Handle(dispatch)

(* After a panic the manager process is gone: nothing more happens.        *)
Halted == panicked /\ UNCHANGED vars

Next ==
  \/ start_unit \/ stop_unit
  \/ Start \/ Stop \/ JobSettled \/ Reload
  \/ \E p \in procs, e \in ExitKinds : ChildExit(p, e)
  \/ Halted

(* A SIGKILLed child is reaped: the kernel guarantees it exits.  A waiting *)
(* job is run: the event loop drains the job queue after each dispatch.    *)
Fairness ==
  /\ WF_vars(\E p \in sigkilled, e \in ExitKinds : ChildExit(p, e))
  /\ WF_vars(Start \/ Stop \/ JobSettled)

Spec == Init /\ [][Next]_vars /\ Fairness

(* The code arms no start or stop timer, so it relies on every control    *)
(* command (ExecStop=, ExecStopPost=, ...) terminating by itself.  This is *)
(* that assumption; the main process is given no fairness.                 *)
ControlTerminates ==
  WF_vars(control_pid \in procs /\ \E e \in ExitKinds : ChildExit(control_pid, e))

LiveSpec == Spec /\ ControlTerminates

-----------------------------------------------------------------------------
TypeOK ==
  /\ state \in States /\ result \in Results
  /\ main_pid \in 0..next_pid /\ control_pid \in 0..next_pid
  /\ main_command \in 0..MaxCmds /\ control_command \in Cmds
  /\ forbid_restart \in BOOLEAN
  /\ exec_commands \in [Stages -> 0..MaxCmds]
  /\ procs \subseteq Pids /\ watched \subseteq procs
  /\ sigkilled \subseteq procs
  /\ next_pid \in Nat \ {0} /\ panicked \in BOOLEAN
  /\ job \in Jobs


-----------------------------------------------------------------------------
(***************************************************************************)
(* Properties.                                                             *)
(***************************************************************************)

(* The unit is only Running when nothing in its activation failed: every  *)
(* path into Running (enter_running from start-post, reload or a main      *)
(* exit) checks the latched result, across handlers.                       *)
RunningOnlyOnSuccess == state = "Running" => result = "Success"

(* Spec 8: every state other than Dead, Failed, Running has something      *)
(* that will end it.  The code arms no timer, so that must be a live       *)
(* child whose exit is routed back to the unit (sigchld_event).            *)
WaitingHasChild ==
  state \notin Inactive \cup {"Running"} =>
    \/ control_pid \in watched
    \/ main_pid \in watched

(* The pids the unit holds are its live children: kill_service on a pid    *)
(* that was already reaped may signal an unrelated, recycled process.      *)
PidsAreLiveChildren ==
  /\ main_pid \in procs \cup {0}
  /\ control_pid \in procs \cup {0}

(* Every live child of the unit is its main or control process, or was   *)
(* sent SIGKILL: send_signal only SIGTERMs, and a later run_stop_post or   *)
(* run_stop (service.rs:616) overwrites control_pid while the old child    *)
(* still runs, so its exit is never routed to the unit.                    *)
ChildrenTracked ==
  \A p \in procs : p \in {main_pid, control_pid} \/ p \in sigkilled

(* Spec 5 (cancellation): once a stop intent has moved the unit off its  *)
(* start path, no command-list cursor advances further.  main_exited      *)
(* runs run_next_main whenever ExecStart has a next command and the exit   *)
(* was a success, before it looks at the state, so a main process that    *)
(* exits 0 after a stop must not start the next ExecStart command: a new   *)
(* main process appears only while the unit is starting or running.        *)
StartPath == {"Condition", "StartPre", "Start", "StartPost", "Running", "Reload"}
ExecStartOnlyWhileStarting ==
  [][(main_pid' \notin {0, main_pid}) => (state' \in StartPath)]_vars

(* No child exit makes a handler reach todo!() (sigchld_event).            *)
NoTodoPanic == ~panicked

(* Once the unit is on its stop path (Stop, StopPost) it reaches Dead or   *)
(* Failed.                                                                 *)
StopCompletes ==
  state \in {"Stop", "StopPost"} ~> (state \in {"Dead", "Failed"} \/ panicked)

(* Refinement: the active state the unit reports through set_state behaves *)
(* as ServiceLifecycle allows.  Every handler, over all the states it      *)
(* passes through, moves the reported state only along the lifecycle: a    *)
(* start begins a fresh activation, reload leaves active, a child exit     *)
(* never brings a deactivating unit back up.                               *)
LifecycleRefined == Lifecycle!Spec

(* A running stop job ends: once UnitObj::stop was called, the unit        *)
(* reports inactive or failed and try_finish removes the job (unless a new *)
(* request replaced it first).                                             *)
StopJobCompletes ==
  job = [kind |-> "stop", state |-> "running"] ~>
    job # [kind |-> "stop", state |-> "running"]

(* A running start job ends: the unit's activation reaches active, or     *)
(* fails, and try_finish removes the job (spec 4.C7: every state other    *)
(* than Dead and Failed eventually progresses).                            *)
StartJobCompletes ==
  job = [kind |-> "start", state |-> "running"] ~>
    job # [kind |-> "start", state |-> "running"]

=============================================================================
