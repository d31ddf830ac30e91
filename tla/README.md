# TLA+ models of sysmaster

This directory holds the TLA+ models of sysmaster (a Rust init and service manager) and the TLC configurations that check them. `PROJECT.json` maps each model definition to the source lines it translates. It also lists the runs, the mutants, the findings and the hazards.

## 1. The system and its parts

| Part | Source | State | Operations | Module |
|---|---|---|---|---|
| Service state machine | `src/components/service/src/service.rs` | `state` (17 `ServiceState`s), `result`, `main_pid`, `control_pid`, command cursors, `forbid_restart` | `start`, `stop`, `reload`, `sigchld_event` | `ServiceUnit` |
| Unit manager and job layer | `src/process1/src/manager/unit/unit_manager.rs`; the job manager is not in `src/` (spec §4.C8) | the unit's job | `start_unit`, `stop_unit`, `insert_states` → `try_finish` | `ServiceUnit` |
| Abstract service lifecycle | spec §3 (`active_state`) | `active_state` | start, stop, reload, progress | `ServiceLifecycle` |
| Child registry / watch table | not in `src/` (spec §4.C2) | pid → owning unit | watch, unwatch, reap and route | `ServiceUnit` |
| init supervisor | `src/exts/init/src/runtime/mod.rs` | `InitState` (Reexec/Run/Unrecover), `need_reexec`, `switching`, `sysmaster_pid` | comm and signal dispatch, `reexec_manager`, `do_recreate`, `do_recycle`, `reexec_self` | `InitRuntime` |
| Plugin loader | `src/core/bin/plugin/mod.rs` | `library_dir`, `loaded`, `load_libs` | `update_library_dir`, `load_lib`, `get_lib`, `create_unit_obj_with_um`, `create_um_obj` | `Plugin`, `MCPlugin` |
| fstab mounter | `src/src/fstab/main.rs` | items' states, `complete_num`, the inotify queue | the mount pass, the wait for a device | `Fstab` |
| Event loop and the Commands endpoint | `src/libs/event/src/source.rs`, `src/sysmaster/core/manager/commands.rs`; the loop (`Events`) and the journal (`Reliability`) are not in `src/` (spec §4.C1, §4.C9) | the heap of ready sources, epoll arming, the listener's backlog, the journal's last frame | wait, pop the top source, `Commands::dispatch` (set frame, accept, process, clear), crash, restart | `EventLoop`, `MCEventLoop` |
| Service reliability entry | `src/coms/service/src/service_comm.rs` | the process-wide `um`/`reli`/`rentry` handles | attach, rentry pass-throughs | not modelled (see §7) |
| Device-rule loader (devmaster) | `src/exts/devmaster/src/lib/rules/rule_load.rs` | the linked list of rule files, the continuation state of `parse_lines`, each file's rule lines | `load_rules`, `parse_rules`, `parse_lines`, `load_line`, `parse_token`, `add_file`/`add_line`/`add_token` | `RuleToken`, `RuleLoad`, `MCRuleLoad` |
| Configuration | `unit_conf.rs`, `socket_config.rs`, `config.rs`, `libcgroup`, `ub_basic.rs` | parsed values | parsing | not modelled (no state machine) |

**How the parts interact.**
- The manager's event loop is single-threaded, so each handler runs to completion and is one atomic action.
- `start_unit`/`stop_unit` queue a job.
- The job manager later calls the unit's `start`/`stop`.
- Every `set_state` notifies the state table. Its subscriber `insert_states` calls `try_finish`, which ends the job at the state it waits for.
- Child exits reach the unit through the watch table as `sigchld_event`.
- The init supervisor is a separate process: it forks sysmaster, watches it through a keep-alive pipe and signals, and reaps orphans.
- The plugin loader supplies the unit constructors.
- The fstab mounter is a separate boot-time program driven by udev creating device nodes.
- The Commands endpoint is one source of the event loop: a client's request is served inside a dispatch, between recording and clearing the CmdOp frame in the reliability journal that a restarted manager reads.
- The device-rule loader runs once when devmaster starts; it reads the rule directories and builds the rules the device-event workers match against.

## 2. Modules and their correspondence to the code

### `ServiceUnit.tla`: one service unit, its children and its job

**State.** The variables are the fields of `ServiceUnit`:
- `main_pid`/`control_pid`, where 0 stands for `None`.
- `main_command`, an index into ExecStart.
- `control_command`, a `[stage, idx]` cursor.
- `exec_commands`, the number of commands per stage, chosen in `Init`.

The environment adds `procs` (live children), `watched` (the watch table), `sigkilled`, `next_pid` and `panicked` (a `todo!()` was hit). The unit manager adds `job`: none, or a start/stop job that is waiting or running.

**Handlers.**
- Each Rust function is an operator of the same name on a record snapshot of the unit (`run_start`, `run_stop`, `send_signal_stop`, ...).
- A handler is the composition of its calls, in the code's order.
- `Handle` commits the result atomically and picks the outcomes of the at most two spawns.
- `set_state` stores the state and calls `insert_states`/`try_finish` with `to_unit_active_state` of the new state. Notifications therefore happen at every intermediate state, as in the code.

**Actions.**
- `start_unit`/`stop_unit` are requests: they replace the job.
- `Start`/`Stop` are the job manager running a waiting job (`UnitObj::start`/`stop`).
- `JobSettled` is a job whose unit is already where it leads.
- `Reload` is `UnitObj::reload` on a Running unit.
- `ChildExit(p, e)` reaps a child and routes the exit if the child is watched.
- `Halted` stutters after a panic.

The job manager, the watch table, `start_service` and `to_unit_active_state` are outside `src/` and modelled from the spec (`spec_modelled`).

**Refinement.** `Lifecycle == INSTANCE ServiceLifecycle WITH active_state <- to_unit_active_state(state)`. `LifecycleRefined == Lifecycle!Spec` says every step of the unit moves the reported active state only as the abstract lifecycle allows:
- a start begins a fresh activation from inactive or failed;
- a reload starts only from active;
- a child exit never takes a deactivating unit back up.

### `ServiceLifecycle.tla`: the abstract service

One variable, `active_state`, over the six states of spec §3. It has four abstract steps (`Start`, `Stop`, `Reload`, `Progress`). Each names the states one handler may lead to, because a handler can pass through several states in one step.

### `InitRuntime.tla`: the init supervisor

**State.** The variables are `RunTime`'s fields (`state`, `need_reexec`, `switching`, `sysmaster_pid`), plus:
- the kernel's view of init's children (`children`: none, alive, zombie or reaped);
- the signals pending on the signalfd (standard signals coalesce);
- `chld_pid`, the pid carried by a pending SIGCHLD;
- `stray_kill`, set when a kill reaches a reaped pid;
- `exec_self`, set after the final execv.

**Actions.**
- `RunTime::reexec` is split at its only blocking point, the epoll wait. `ReexecManager` is the part before the wait. The dispatch actions (`*_comm_dispatch(t)`, `*_signal_dispatch(s)`) are the part after it, guarded by `~need_reexec`.
- The sysmaster exiting, orphans exiting and request signals are environment actions.
- `comm.rs`, `signals.rs` and the kernel are outside `src/` and modelled from their use.

### `Plugin.tla` (+ `MCPlugin.tla`): the plugin loader

- The `Plugin` singleton's `library_dir`, `loaded` and `load_libs` are variables. The file system (directories, plugin files abstracted to the constructors they export) is the environment.
- `update_library_dir` appends new existing directories and reloads.
- `load_lib` walks the path. `load_plugin` hands `add_library` only the file name, and `dynamic_reload` searches the whole search path for it (its search is not in `src/`). So the library opened for a file may be any same-named file on the path (`Openings`). One choice per type gives the same tables as one choice per walked file, because the last successful insert wins.
- `get_lib`'s retry and the two `create_*` operations are the remaining actions.
- `MCPlugin` supplies the default path as a sequence.

### `Fstab.tla`: the fstab mounter

**State.**
- The parsed table (device, fs type) and each device's kind and parent directory are chosen in `Init`.
- `exists` is the file system.
- `queue` is the inotify event queue.
- `pc` says where `main` is: watch, pass, wait, done or panicked.
- `cursor`, `item_state` and `complete_num` are the loop's variables.

**Actions.**
- `WatchDevices` is `watch_devices` (it panics on a missing parent directory).
- `ConsumeItem` is one iteration of the for loop (`consume_one` → `mount_one`/`swap_on`, whose outcome is nondeterministic).
- `EndPass` is the `complete_num` test.
- `ReadEvents` is one `read_events_blocking` with its event loop. It reads a non-empty prefix of the queue, and a matching CREATE starts a new pass.
- The environment creates device nodes (`DeviceAppears`) and unrelated entries (`OtherCreate`).

### `RuleToken.tla`: the rule token compiler

`parse_token` is a pure operator, translated arm by arm and grouped as the source orders the keys (`match_only` for ACTION/DEVPATH/KERNEL and the other keys of that shape, `parse_assign_key`, `parse_match_key`, `parse_program_key`, `parse_options`, `parse_owner` with `resolve_user`/`resolve_group`, `parse_assign_misc`). An attribute or value is abstracted to what the arms test of it (the header comment lists the kinds). The result is a token type with its (normalised) operator, a `RulesLoadError`, or an `IgnoreError`.

### `RuleLoad.tla` (+ `MCRuleLoad.tla`): the rule loader

**State.** The inputs are chosen in `Init`: which directories are valid, each directory's listing in `read_dir` order, and the `ResolveNameTime`. `pc` says where the loader is (directories, files, lines, done, panicked); `di`, `pending` and `cur` are `parse_rules`' loop variables. `files`, `files_tail`, `next`, `prev` are the `Rules` linked list. `physical`, `full_line`, `offset` and `lines` are `parse_lines`' state for the current file. A physical line is chosen when it is read: skipped (comment or blank), unreadable, continued (`\`) or complete, with the tokens `RE_TOKEN` captures in it.

**Actions.** `ScanDir` (directory check, listing, filter, sort), `NextFile` (`parse_file`/`load_file`), `ReadLine(l)` (one iteration of `parse_lines`, with `load_line` and its `unwrap()`), `EndOfFile` (`add_file`), `AllDirsDone`, and `Finished` (stutter after the end or a panic).

**Reference.** `ExpectedFiles` and `Rules` say, from the layout alone, which files must be linked in which order and what text each complete rule line holds. The properties compare the loader's state with them. `load_line` keeps the tokens that follow a GOTO or LABEL on the same line, as the code does. The comment at rule_load.rs:327-328 says they are skipped, but `parse_token` returns `Ok` for both keys (1216-1244), so the comment is stale. No property depends on this.

### `EventLoop.tla` (+ `MCEventLoop.tla`): the event loop and the Commands endpoint

**State.** `pending` is the heap of sources the last wait reported; `armed` is each source's epoll registration; `backlog` the connections queued on the listener; `signalled` the signal/timer sources with an event. `cmd_pc` is where `Commands::dispatch` is, `stream` the accepted request (`ok`, `bad` or `silent`). `last_frame` is the journal and survives a crash; `recovered` is what the last restart read from it, and `interrupted` records whether that crash hit inside the command frame. Counters bound the inputs.

**Code.** `cmp` is `Ord for dyn Source` (priority compared, then reversed), and `IsTop` is what the heap pops under it (any of equal ones). `epoll_event` is Commands' plain EPOLLIN; the default of `Source` adds EPOLLONESHOT, which the report disarms. `PopCmd`, `CmdAccept`, `CmdProcess`, `CmdClear` are commands.rs lines 60, 61-65, 66 and 69: a `bad` request makes `process().unwrap()` panic (`Down`), and a `silent` one blocks `process()` (no step).

**Environment and spec.** `Connect`, `Raise` (a signal or timer event), `Kill` (an external kill), `Wait` and `PopOther` (the loop, spec §4.C1) and `Restart` (a new manager reads and clears the frame, spec §4.C9).

## 3. Runs

| Run | cfg | Expect | What it shows |
|---|---|---|---|
| service_safety | `MCServiceUnit.cfg` | pass | `TypeOK`; `RunningOnlyOnSuccess` (every path into Running checks the latched result); `WaitingHasChild` (every non-inactive, non-Running state has a watched child whose exit moves it on). |
| service_stop_completes | `MCServiceUnitLive.cfg` | pass | `StopCompletes` (Stop/StopPost reach Dead/Failed); `StopJobCompletes` (a running stop job is ended by `try_finish`); `LifecycleRefined` (the refinement, with successful exits). |
| service_stale_pid | `MCServiceUnitStalePid.cfg` | violation | `PidsAreLiveChildren`: `run_start` unwatches the old control pid without clearing it. |
| service_lifecycle_stale_result | `MCServiceUnitLifecycle.cfg` | violation | `LifecycleRefined`: after a child killed by a signal, the unit is Failed. The next start inherits the failure and goes straight back to deactivating/Failed (service.rs:116). |
| service_start_job_stuck | `MCServiceUnitStartJob.cfg` | violation | `StartJobCompletes`: a service whose main process keeps running stays in Start forever, so its start job never finishes (service.rs:304). |
| service_exec_start_after_stop | `MCServiceUnitStopSpawn.cfg` | violation | `ExecStartOnlyWhileStarting`: a unit with two ExecStart commands is stopped during Start and goes to Dead; the first main process exits 0 and `main_exited` starts the second command in the Dead unit (service.rs:603). |
| init_safety | `MCInitRuntime.cfg` | pass | `TypeOK`; `ManagerPidNotReaped` (outside Unrecover the recorded sysmaster pid is never reaped); `ReexecSelfAfterManagerExit`. |
| init_manager_not_recreated | `MCInitRuntimeRecreate.cfg` | violation | `ManagerRecreated`: a sysmaster that dies is never recreated. Init loops between keep-alive timeout and `reexec_manager` (runtime/mod.rs:255). |
| plugin_retry_never_reloads | `MCPluginRetry.cfg` | violation | `CreateFindsInstalledPlugin`: every installed plugin is usable. A plugin installed on the search path after loading is still never found, because `get_lib`'s retries call `load_lib`, which returns at once while `loaded` holds (plugin/mod.rs:229, 524). |
| fstab_mount_loop | `MCFstab.cfg` | pass | `TypeOK`; `NoLostWakeup` (while main blocks, every pending existing device has an accepted CREATE queued); `DoneMeansAllConsumed`; `Terminates`. |
| rules_load | `MCRuleLoad.cfg` | pass | `TypeOK`; `FilesFollowDirectories` (the file list, walked both ways, is the sorted `.rules` files of the valid directories in directory order); `LinesFollowFile` (each complete, possibly continued, line becomes one rule line holding its joined text). |
| event_loop | `MCEventLoop.cfg` | pass | `RecoveryMatchesCrash` (after a restart the journal names CmdOp exactly when the crash, a panic on a bad request or a kill, hit between `set_last_frame1` and `clear_last_frame`); `ConnectionsServed` (every connection is accepted, or dropped with a dead listener). |

Each property of a passing run has a mutant in `PROJECT.json`, a plausible bug that TLC finds:
- **Service:**
  - an unbounded `main_command.next`;
  - `enter_running` without the success check;
  - `run_stop`/`run_stop_post` forgetting the spawned pid;
  - `to_unit_active_state` reporting Reload as activating;
  - `set_state` notifying the old state.
- **Init:**
  - a failed fork clearing `sysmaster_pid` to 0;
  - `do_recycle` without the `is_sysmaster` check;
  - `unrecover_zombie` without the switching check.
- **Fstab:**
  - consuming an item again;
  - counting skipped items;
  - `>` for `>=` in the loop exit;
  - looking only at the first event read.
- **Rule loader:**
  - advancing the directory index twice;
  - leaving out `files.sort()`;
  - not clearing `full_line` after a rule.
- **Event loop:**
  - `clear_last_frame` never running;
  - Commands keeping the default EPOLLONESHOT.

## 4. Bounds, fairness and why they are enough

**ServiceUnit.**
- `MaxCmds = 2` in the safety run gives each stage zero, one or two commands, so the next-command chains and the empty-stage skips both occur. The liveness runs use 1.
- `MaxSpawns` (5 in safety, 4 in liveness) bounds the pids. It is enough for start-pre → start → start-post → stop → stop-post, or a full activation then a stop, and for a restart that meets an old pid.
- Exit kinds are exit 0, exit 1 (success under the code's classification) and killed. The refinement pass run uses only successful exits; with killed children the refinement fails, as shown in `service_lifecycle_stale_result`.
- `Fairness`:
  - WF on reaping SIGKILLed children: the kernel guarantees they die.
  - WF on running a waiting job: the event loop drains the job queue after each dispatch.
- `LiveSpec` adds `ControlTerminates`, the assumption that control commands end. The code arms no timer (hazard service.rs:416).
- The main process and user requests get no fairness. A daemon's main process is meant to keep running.

**InitRuntime.**
- `MaxPids = 4` allows the initial sysmaster, two recreations and an orphan.
- `Requests` restricts which request signals arrive in the liveness run, so that pid exhaustion in Unrecover does not hide the real counterexample.
- Fairness:
  - SF on reading each signal: the signalfd is ready at every wait, and reading is disabled while `need_reexec` holds.
  - WF on `reexec_manager`.
  - WF on the keep-alive timeout while no sysmaster is alive.

**Plugin.** Three directories, a default path of two, and arguments of up to two directories. One unit type; types do not interact in `load_lib`. The violation run installs only usable plugins, so the failure can come only from the stale table, not from a broken file shadowing a good one.

**Fstab.**
- Three items over two devices: two items share a device, and one device appears before the watch is set.
- One unrelated creation exercises the name and ISDIR tests.
- The program gets WF (it runs whenever it can). Every device named in fstab is eventually created: this is the assumption the mounter's wait relies on.
- `CHECK_DEADLOCK FALSE`: main really may block forever in `read_events_blocking`.

**RuleLoad.** Two directories, two file names (so up to four files, and listings in both orders), two physical lines per file (a continued rule, or a rule after a skipped line), and four tokens: a match token, GOTO, LABEL, and OWNER naming an unknown user, which compiles under Late, is rejected under Early and ignored under Never. About 770 000 states in 20 seconds. A third line per file (a comment inside a continuation) multiplies the states by ten and was checked once (8 million states, 5 minutes, no violation). No fairness: the loader is sequential and finite, and `Finished` stutters at its ends.

**EventLoop.** Three sources: Commands, a timer with the same priority (so ties occur) and a signal source with a smaller value (so it overtakes). Four connections (so several are queued while one is served, which needs level triggering), three signal/timer events, two kills; `bad` requests panic the manager, so a behaviour can see two restarts. About 35 000 states in 10 seconds. Fairness is WF on the loop's own steps: it is the only thread and runs whenever a source is ready; connections, events, kills and restarts get none. `CHECK_DEADLOCK FALSE`: once the bounded inputs are used up the loop really blocks in `epoll_wait`, and a dead manager may stay dead.

## 5. Findings

Details are in `PROJECT.json`:
1. **Stale pids after unwatch-without-clear (service.rs:277).**
2. **`result` is never reset (service.rs:116).** After one failure, every later activation of the unit fails: the refinement of ServiceLifecycle is violated.
3. **A long-running service never becomes active (service.rs:304).** Start is left only by a control exit or the main's exit, so its start job never completes.
4. **init kills a pid it already reaped (runtime/mod.rs:247).** This happens after Unrecover, on a restart request. `NoKillOfReapedPid` is violated with `MaxPids = 3`, `ForkOutcomes = {TRUE, FALSE}` and all three request signals; its run was retired for finding 7's.
5. **init never recreates a sysmaster that died in Run/Reexec (runtime/mod.rs:255).**
6. **The plugin loader panics when a directory of its search path is removed (plugin/mod.rs:267).** `NoLoadPanic` is violated under `MCPluginRetry.cfg`'s constants with `PluginKinds = {"params", "default_only", "no_um"}` and `INVARIANT NoLoadPanic`. Its run was retired for the event loop's.
8. **`get_lib`'s retry never reloads (plugin/mod.rs:524).** `get_lib` returns early unless `loaded` is set, and `load_lib` returns at once while it is set. So the two retries re-read the same table, and a plugin installed after loading is never found.
7. **A stopped unit starts its next ExecStart command (service.rs:603).** `main_exited` tests for a next command and a successful exit before it matches the state. A main process that exits 0 on the SIGTERM of a stop therefore restarts the ExecStart chain in StopPost or Dead, against spec §5 ("no command-list cursor advances further"). The unit is then Dead with a live main process that no job or stop will end.

Further behaviour TLC shows, without a run of its own:
- A reachable `todo!()` panic (service.rs:611): stop during Start reaches Dead with the main pid still set, and the main's exit runs `todo!()`. `NoTodoPanic` is violated under `MCServiceUnit.cfg`'s constants with `ExitKinds = {"Exited0", "Killed"}` and `MaxSpawns = 4`; its run was retired for the device-rule loader's.
- One rejected or ignored rule token, or a rule line without a token, panics the whole rule loader (`parse_lines`' `unwrap()`, rule_load.rs:237): `RuleLoad` reaches `panicked`.
- A spawn failure stalls the unit (`WaitingHasChild` fails with `SpawnOutcomes = {TRUE, FALSE}`).
- A SIGTERMed control child is forgotten (service.rs:616, and the stop path at :382): stop during StartPost signals the start-post command, and `run_stop_post` then stores its own child in `control_pid`; if the first child ignores SIGTERM it runs on untracked. `ChildrenTracked` is violated under `MCServiceUnit.cfg`'s constants.
- One local client that connects to the Commands port and sends nothing stops the whole manager (commands.rs:66): `process()` blocks in read inside the single-threaded loop, so no SIGCHLD or timer is served meanwhile (spec §4.C1 forbids blocking handlers). With `Requests = {"ok", "bad", "silent"}` in `MCEventLoop.cfg`, `ConnectionsServed` is violated.
- A device created as a directory never wakes the fstab mounter (`NoLostWakeup` fails with `DevKinds = {"file", "dir"}`).

Observations made while translating `parse_token` (kept as the code has them in `RuleToken`, no run):
- `CONST` rejects exactly the attributes `arch` and `virt` and accepts any other (rule_load.rs:586), the reverse of udev's `CONST{arch}`/`CONST{virt}`.
- `KERNELS` compiles to `MatchParentsSubsystem`, like `SUBSYSTEMS` (rule_load.rs:731); `SYSCTL` compiles to the `ATTR` token types (rule_load.rs:713-717).
- The `NAME=""` check is dead: `RE_TOKEN` never captures an empty value.
- Spec §4.C1 breaks priority ties by insertion order; `Ord for dyn Source` compares priorities only and `BinaryHeap` is not stable, so equal-priority sources pop in heap order (`IsTop` allows any of them). Checking the tie rule would need the insertion order as extra state and a violation run of its own.

## 6. Plan

1. The service rentry (`service_comm.rs`) once a module of the unit's reliability entry exists: what a restarted service reads back.
2. More service properties:
   - a run for `ChildrenTracked` if a run slot frees up;
   - the exit classification of spec scenario 2 (service.rs:593).
3. Fstab: mount points, to state the nesting order (main.rs:123).
4. Larger bounds for ServiceUnit with two units sharing the job manager and the triggered-by edge of `insert_states`.

## 7. Not modelled

- Configuration parsing and data types (`unit_conf.rs`, `socket_config.rs`, `config.rs`, `libcgroup`) have no state machine.
  - `socket_config.rs` and `config.rs` are declarative `confique` structs.
  - `libcgroup/lib.rs` re-exports and declares flag enums.
  - `Conf::get_values` only flattens values; its `todo!()` on top-level float and boolean values is a reachable panic for a malformed unit file. The pure data structure has no interleaving for TLC to explore.
  - `unit_name_to_type` takes the last dot suffix of a string.
  - `SocketSpawn::start_socket` has the same shape as the service spawner that `start_service` models. Its caller, the socket state machine, is not in `src/`.
- In `rule_load.rs`, the regular expressions and `RuleToken::new`'s glob and substitution parsing are string processing: tokens are abstracted to the kinds `parse_token` tests. `resolve_user`/`resolve_group` never fill their caches (the ignored test `test_resolve_user` expects them filled); the model has no cache: with nothing ever inserted, the lookup always misses.
- `plugin.conf` parsing is not modelled: each plugin file is assumed to map to its type.
- `fstab_item::parse` is not in `src/`.
- Inotify queue overflow is not modelled.
- The `todo!()` bodies of `UnitObj` and `remove_states` have no behaviour.
- The watchdog functions are never called.
- `UnitManager::new`/`load`: `UnitLoad` is not in `src/`, and the model has one loaded unit.
- The socket unit state machine is not in `src/`.
- `service_comm.rs` holds process-wide handles that are attached once (`attach_um` only while none is set, `attach_reli` only while the old weak reference is dead, creating the `ServiceRe`), and pass-throughs to the rentry that do nothing without an owner unit. `ServiceUnit` does not call them, and the rentry store (`ServiceRe`) is not in `src/`, so no state of the code depends on them.
- `Source`'s `time`/`signals`/`pid` accessors feed the timer, signal and pidfd sources, which are not in `src/`.
