---------------------------- MODULE InitRuntime ----------------------------
(***************************************************************************)
(* The init supervisor's runtime (src/exts/init/src/runtime/mod.rs): the   *)
(* InitState machine Reexec / Run / Unrecover that watches the sysmaster   *)
(* child, reacts to the keep-alive pipe (comm) and to signals read from a  *)
(* signalfd, reaps zombies (init is pid 1, so every orphan ends up here),  *)
(* re-creates sysmaster and finally re-executes itself on switch-root.     *)
(*                                                                         *)
(* Each loop iteration waits for one epoll event and runs one dispatch    *)
(* function to completion: one action per dispatch function.  The pipe    *)
(* protocol and the signalfd are outside src/ and are modelled from their *)
(* use here: comm.proc yields one CommType, signals.read yields one        *)
(* pending signal; standard signals coalesce while pending.               *)
(***************************************************************************)
EXTENDS Naturals, FiniteSets

CONSTANTS
    MaxPids,        \* pids the kernel hands out in one behaviour
    ForkOutcomes,   \* possible results of fork() in create_sysmaster
    Requests        \* request signals someone may send init

ASSUME /\ MaxPids \in Nat \ {0}
       /\ ForkOutcomes \subseteq BOOLEAN /\ ForkOutcomes # {}
       /\ Requests \subseteq {"Restart", "Unrecover", "SwitchRoot"}

Pids        == 1..MaxPids
InitStates  == {"Reexec", "Run", "Unrecover"}
CommTypes   == {"PipON", "PipOFF", "PipTMOUT"}
\* SIGCHLD, the restart, unrecover and switch-root requests.
Signals     == {"SIGCHLD", "Restart", "Unrecover", "SwitchRoot"}
ProcStates  == {"none", "alive", "zombie", "reaped"}

VARIABLES
    state,          \* RunTime.state
    need_reexec,    \* RunTime.need_reexec
    switching,      \* RunTime.switching
    sysmaster_pid,  \* RunTime.sysmaster_pid
    children,       \* kernel view of each pid as init's child
    next_pid,       \* next pid fork() returns
    pending,        \* signals pending on the signalfd
    chld_pid,       \* ssi_pid recorded with the pending SIGCHLD
    stray_kill,     \* init sent kill() to a pid it had already reaped
    exec_self       \* init replaced itself with execv (reexec_self)

vars == <<state, need_reexec, switching, sysmaster_pid, children, next_pid,
          pending, chld_pid, stray_kill, exec_self>>

-----------------------------------------------------------------------------
(* Kernel side.                                                            *)

\* A child turns into a zombie and SIGCHLD is raised on top of the pending
\* set pend; a SIGCHLD already pending absorbs it and keeps its ssi_pid.
ChildDies(p, pend) ==
    /\ children' = [children EXCEPT ![p] = "zombie"]
    /\ pending'  = pend \cup {"SIGCHLD"}
    /\ chld_pid' = IF "SIGCHLD" \in pend THEN chld_pid ELSE p

\* libc::kill(pid, sig) from init, with pend the signals still pending.
\* A reaped pid may belong to any process by now.
kill(p, sig, pend) ==
    /\ stray_kill' = (stray_kill \/ children[p] = "reaped")
    /\ IF sig = "SIGKILL" /\ children[p] = "alive"
          THEN ChildDies(p, pend)
          ELSE /\ pending' = pend
               /\ UNCHANGED <<children, chld_pid>>

\* signals.recycle_zombie(pid): waitpid on that pid, or on any child for 0.
recycle_zombie(p) ==
    children' = [q \in Pids |->
                   IF children[q] = "zombie" /\ (p = 0 \/ q = p)
                      THEN "reaped" ELSE children[q]]

-----------------------------------------------------------------------------
(* RunTime methods.                                                        *)

is_sysmaster(p) == sysmaster_pid = p

create_sysmaster_reset(ok) ==
    IF ok THEN IF next_pid <= MaxPids
                  THEN /\ sysmaster_pid' = next_pid
                       /\ next_pid' = next_pid + 1
                  ELSE UNCHANGED <<sysmaster_pid, next_pid>>
          ELSE /\ sysmaster_pid' = 0
               /\ UNCHANGED next_pid

\* create_sysmaster: fork; the parent records the child's pid.  A failed
\* fork (or a missing binary) leaves sysmaster_pid as it was.
create_sysmaster(ok) ==
    IF ok /\ next_pid <= MaxPids
       THEN /\ sysmaster_pid' = next_pid
            /\ next_pid' = next_pid + 1
       ELSE UNCHANGED <<sysmaster_pid, next_pid>>

\* reexec_manager: clear need_reexec, finish comm, SIGRTMIN+7 to sysmaster.
reexec_manager ==
    /\ need_reexec' = FALSE
    /\ kill(sysmaster_pid, "ReexecSig", pending)

do_reexec ==
    /\ need_reexec' = TRUE
    /\ state' = "Reexec"

change_to_unrecover ==
    /\ state' = "Unrecover"
    /\ recycle_zombie(0)

do_recycle_unchecked(p) == recycle_zombie(p)

\* do_recycle: reap the reporting child unless it is sysmaster.
do_recycle(p) ==
    IF ~is_sysmaster(p) THEN recycle_zombie(p) ELSE UNCHANGED children

\* do_recreate: finish comm, SIGKILL the recorded sysmaster, then fork a
\* new one (its result only logged).  The kill and the fork compose: the
\* killed child is a zombie, the forked one alive.
do_recreate(pend) ==
    \E ok \in ForkOutcomes :
        LET forked == ok /\ next_pid <= MaxPids
            hit    == children[sysmaster_pid] = "alive"
            killed == IF hit THEN [children EXCEPT ![sysmaster_pid] = "zombie"]
                             ELSE children
        IN /\ stray_kill' = (stray_kill \/ children[sysmaster_pid] = "reaped")
           /\ create_sysmaster(ok)
           /\ children' = IF forked THEN [killed EXCEPT ![next_pid] = "alive"]
                                   ELSE killed
           /\ pending'  = IF hit THEN pend \cup {"SIGCHLD"} ELSE pend
           /\ chld_pid' = IF hit /\ "SIGCHLD" \notin pend
                             THEN sysmaster_pid ELSE chld_pid

\* send_switch_root_signal: signal sysmaster, then Unrecover and switching.
send_switch_root_signal(pend) ==
    /\ kill(sysmaster_pid, "SwitchRootSig", pend)
    /\ state' = "Unrecover"
    /\ switching' = TRUE

\* reexec_self: close every fd (clear) and execv init itself.
reexec_self ==
    /\ exec_self' = TRUE

unrecover_zombie_unchecked(p) ==
    IF switching THEN reexec_self /\ UNCHANGED children
                 ELSE recycle_zombie(0) /\ UNCHANGED exec_self

\* A zombie reported in Unrecover: sysmaster exited during switch-root, so
\* execv init; any other zombie, or no switch-root: reap them all.
unrecover_zombie(p) ==
    IF is_sysmaster(p) /\ switching
       THEN reexec_self /\ UNCHANGED children
       ELSE recycle_zombie(0) /\ UNCHANGED exec_self

-----------------------------------------------------------------------------
(* One loop iteration per action: RunTime::reexec / run / unrecover, split *)
(* at epoll.wait_one (reexec_manager runs before the wait).                *)

Loop == ~exec_self

\* The sysmaster answers the pipe only while it runs.
CommReady(t) == t = "PipON" => children[sysmaster_pid] = "alive"

\* reexec(), first half: need_reexec set, so reexec_manager runs.
ReexecManager ==
    /\ Loop /\ state = "Reexec" /\ need_reexec
    /\ reexec_manager
    /\ UNCHANGED <<state, switching, sysmaster_pid, next_pid, exec_self>>

reexec_comm_dispatch(t) ==
    /\ Loop /\ state = "Reexec" /\ ~need_reexec /\ CommReady(t)
    /\ state'       = IF t = "PipON" THEN "Run" ELSE state
    /\ need_reexec' = (t = "PipTMOUT")
    /\ UNCHANGED <<switching, sysmaster_pid, children, next_pid, pending,
                   chld_pid, stray_kill, exec_self>>

run_comm_dispatch(t) ==
    /\ Loop /\ state = "Run" /\ CommReady(t)
    /\ state'       = IF t = "PipON" THEN state ELSE "Reexec"
    /\ need_reexec' = (t = "PipTMOUT")
    /\ UNCHANGED <<switching, sysmaster_pid, children, next_pid, pending,
                   chld_pid, stray_kill, exec_self>>

\* comm.proc's result is discarded in Unrecover.
unrecover_comm_dispatch(t) ==
    /\ Loop /\ state = "Unrecover" /\ CommReady(t)
    /\ UNCHANGED vars

\* Common frame of the signal dispatchers: signal s is read off the fd.
ReadsSignal(s) == s \in pending

reexec_signal_dispatch(s) ==
    /\ Loop /\ state = "Reexec" /\ ~need_reexec /\ ReadsSignal(s)
    /\ CASE s = "SIGCHLD" ->
              /\ do_recycle(chld_pid)
              /\ UNCHANGED <<state, need_reexec>>
         [] s = "Restart" ->
              /\ do_reexec
              /\ UNCHANGED children
         [] s = "Unrecover" ->
              /\ change_to_unrecover
              /\ UNCHANGED need_reexec
         [] OTHER -> UNCHANGED <<state, need_reexec, children>>
    /\ pending' = pending \ {s}
    /\ UNCHANGED <<switching, sysmaster_pid, next_pid, chld_pid, stray_kill,
                   exec_self>>

run_signal_dispatch(s) ==
    /\ Loop /\ state = "Run" /\ ReadsSignal(s)
    /\ CASE s = "SIGCHLD" ->
              /\ do_recycle(chld_pid)
              /\ pending' = pending \ {s}
              /\ UNCHANGED <<state, need_reexec, switching, chld_pid, stray_kill>>
         [] s = "Restart" ->
              /\ do_reexec
              /\ pending' = pending \ {s}
              /\ UNCHANGED <<children, switching, chld_pid, stray_kill>>
         [] s = "SwitchRoot" ->
              /\ send_switch_root_signal(pending \ {s})
              /\ UNCHANGED need_reexec
         [] OTHER ->
              /\ pending' = pending \ {s}
              /\ UNCHANGED <<state, need_reexec, switching, children, chld_pid,
                             stray_kill>>
    /\ UNCHANGED <<sysmaster_pid, next_pid, exec_self>>

\* A zombie: execv init if it is sysmaster during switch-root, otherwise
\* reap every zombie.  A restart request recreates sysmaster.
unrecover_signal_dispatch(s) ==
    /\ Loop /\ state = "Unrecover" /\ ReadsSignal(s)
    /\ CASE s = "SIGCHLD" ->
              /\ unrecover_zombie(chld_pid)
              /\ pending' = pending \ {s}
              /\ UNCHANGED <<sysmaster_pid, next_pid, chld_pid, stray_kill>>
         [] s = "Restart" ->
              /\ do_recreate(pending \ {s})
              /\ UNCHANGED exec_self
         [] OTHER ->
              /\ pending' = pending \ {s}
              /\ UNCHANGED <<children, sysmaster_pid, next_pid, chld_pid,
                             stray_kill, exec_self>>
    /\ UNCHANGED <<state, need_reexec, switching>>

-----------------------------------------------------------------------------
(* Environment: sysmaster exits or crashes, an orphan reparented to init  *)
(* exits, someone sends init a request signal.                             *)

ManagerExits ==
    /\ Loop /\ children[sysmaster_pid] = "alive"
    /\ ChildDies(sysmaster_pid, pending)
    /\ UNCHANGED <<state, need_reexec, switching, sysmaster_pid, next_pid,
                   stray_kill, exec_self>>

OrphanExits ==
    /\ Loop /\ next_pid <= MaxPids
    /\ next_pid' = next_pid + 1
    /\ pending'  = pending \cup {"SIGCHLD"}
    /\ chld_pid' = IF "SIGCHLD" \in pending THEN chld_pid ELSE next_pid
    /\ children' = [children EXCEPT ![next_pid] = "zombie"]
    /\ UNCHANGED <<state, need_reexec, switching, sysmaster_pid, stray_kill,
                   exec_self>>

Request(s) ==
    /\ Loop /\ s \notin pending
    /\ pending' = pending \cup {s}
    /\ UNCHANGED <<state, need_reexec, switching, sysmaster_pid, children,
                   next_pid, chld_pid, stray_kill, exec_self>>

\* init has been replaced by a new image.
Replaced == exec_self /\ UNCHANGED vars

-----------------------------------------------------------------------------
\* RunTime::new: sysmaster forked as pid 1 of the model, state Reexec.
Init ==
    /\ state = "Reexec"
    /\ need_reexec = FALSE
    /\ switching = FALSE
    /\ sysmaster_pid = 1
    /\ children = [p \in Pids |-> IF p = 1 THEN "alive" ELSE "none"]
    /\ next_pid = 2
    /\ pending = {}
    /\ chld_pid = 1
    /\ stray_kill = FALSE
    /\ exec_self = FALSE

Next ==
    \/ ReexecManager
    \/ \E t \in CommTypes : \/ reexec_comm_dispatch(t)
                            \/ run_comm_dispatch(t)
                            \/ unrecover_comm_dispatch(t)
    \/ \E s \in Signals : \/ reexec_signal_dispatch(s)
                          \/ run_signal_dispatch(s)
                          \/ unrecover_signal_dispatch(s)
    \/ ManagerExits
    \/ OrphanExits
    \/ \E s \in Requests : Request(s)
    \/ Replaced

\* Every pending signal is eventually read: the signalfd is ready at every
\* wait and level-triggered epoll does not starve a ready fd (strong
\* fairness, as reading is disabled while need_reexec is set);
\* reexec_manager runs once need_reexec is set, and the keep-alive pipe
\* times out while no sysmaster is running.
Fairness ==
    /\ WF_vars(ReexecManager)
    /\ \A s \in Signals : SF_vars(\/ reexec_signal_dispatch(s)
                                 \/ run_signal_dispatch(s)
                                 \/ unrecover_signal_dispatch(s))
    /\ WF_vars(children[sysmaster_pid] # "alive" /\
               (reexec_comm_dispatch("PipTMOUT") \/ run_comm_dispatch("PipTMOUT")))

Spec == Init /\ [][Next]_vars /\ Fairness

-----------------------------------------------------------------------------
TypeOK ==
    /\ state \in InitStates
    /\ need_reexec \in BOOLEAN /\ switching \in BOOLEAN
    /\ sysmaster_pid \in Pids
    /\ children \in [Pids -> ProcStates]
    /\ next_pid \in 1..MaxPids + 1
    /\ pending \subseteq Signals
    /\ chld_pid \in Pids
    /\ stray_kill \in BOOLEAN /\ exec_self \in BOOLEAN
(* Outside Unrecover the recorded sysmaster pid is never reaped: do_recycle *)
(* skips it, so the SIGRTMIN+7 of reexec_manager and the switch-root       *)
(* signal reach init's own child (alive or a zombie), never a recycled pid. *)
ManagerPidNotReaped ==
    state # "Unrecover" => children[sysmaster_pid] \in {"alive", "zombie"}

(* init re-executes itself (unrecover_signal_dispatch, switch-root) only   *)
(* once the sysmaster it supervised has exited, so the new init does not   *)
(* start a second manager beside a running one.                            *)
ReexecSelfAfterManagerExit ==
    exec_self => children[sysmaster_pid] # "alive"

(* init never sends kill() to a pid it has already reaped (do_recreate,    *)
(* reexec_manager, send_switch_root_signal): that pid may be reused.       *)
NoKillOfReapedPid == ~stray_kill

(* A sysmaster that exits while init runs or waits for a reexec is        *)
(* eventually replaced by a running one (spec section 6: the supervisor    *)
(* recreates the manager on a non-clean exit).                             *)
ManagerRecreated ==
    (children[sysmaster_pid] # "alive" /\ state # "Unrecover") ~> (children[sysmaster_pid] = "alive" \/ exec_self)

=============================================================================
