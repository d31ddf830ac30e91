----------------------------- MODULE EventLoop -----------------------------
(***************************************************************************)
(* The manager's event loop as seen from the Commands endpoint.            *)
(*                                                                         *)
(* src/libs/event/src/source.rs gives every source a priority and orders   *)
(* them for the loop's BinaryHeap by priority().cmp().reverse(), so the    *)
(* heap's top is the source with the smallest priority value.              *)
(* src/sysmaster/core/manager/commands.rs is the Commands source: a        *)
(* blocking TcpListener registered for EPOLLIN (level triggered, no        *)
(* EPOLLONESHOT), whose dispatch records the CmdOp frame in the            *)
(* reliability journal, accepts ONE connection, serves it with             *)
(* ProstServerStream::process().unwrap(), and clears the frame.            *)
(*                                                                         *)
(* The loop itself (Events::run_one: wait, push the ready sources onto the *)
(* heap, pop the top and dispatch it), the other sources (signals,         *)
(* timers), the journal (Reliability) and the restart of a crashed manager *)
(* are not under src/; they are modelled from spec 4.C1 and 4.C9.          *)
(***************************************************************************)
EXTENDS Integers, Sequences

CONSTANTS
    Sources,      \* the registered sources, as model values
    CmdSource,    \* the Commands endpoint, one of Sources
    Priority,     \* Source::priority() of each source, -127..128
    Requests,     \* what a client sends: "ok" (a whole frame), "bad" (a
                  \* malformed or cut-off one) or "silent" (nothing yet)
    MaxConns,     \* bound on client connections over a behaviour
    MaxEvents,    \* bound on signal/timer events over a behaviour
    MaxKills      \* bound on external kills of the manager (OOM, SIGKILL)

ASSUME /\ CmdSource \in Sources
       /\ Priority \in [Sources -> -127..128]
       /\ Requests \subseteq {"ok", "bad", "silent"}
       /\ {MaxConns, MaxEvents, MaxKills} \subseteq Nat

Others == Sources \ {CmdSource}

\* Journal frame ids: the one commands.rs records, and none.
NoFrame == "none"
CmdOp == "CmdOp"

\* Where Commands::dispatch is: before line 60, after set_last_frame1,
\* after accepting a stream, after process() returned Ok.
CmdPcs == {"idle", "framed", "accepted", "processed"}

VARIABLES
    up,          \* the manager process is alive
    backlog,     \* connections queued on the listener, oldest first
    armed,       \* the source's epoll registration is active
    signalled,   \* other sources with an event waiting
    pending,     \* sources the last wait put on the heap, not yet popped
    cmd_pc,      \* progress of Commands::dispatch
    stream,      \* request of the accepted connection, or "none"
    last_frame,  \* the reliability journal's last frame (survives crashes)
    recovered,   \* the frame the last restart found in the journal
    interrupted, \* the last crash hit inside Commands::dispatch's frame
    made,        \* connections made so far
    accepted,    \* connections accepted so far
    lost,        \* connections dropped with a dead listener
    raised,      \* signal/timer events so far
    kills        \* external kills so far

vars == <<up, backlog, armed, signalled, pending, cmd_pc, stream,
          last_frame, recovered, interrupted, made, accepted, lost,
          raised, kills>>

-----------------------------------------------------------------------------
(* source.rs *)

\* Ord for dyn Source: priority().cmp(other.priority()).reverse().
cmp(a, b) ==
    CASE Priority[a] < Priority[b] -> "Greater"
      [] Priority[a] > Priority[b] -> "Less"
      [] OTHER                     -> "Equal"

\* BinaryHeap::pop returns a greatest element under Ord; among equal ones
\* any may come first (the heap is not stable).
IsTop(s, heap) == \A t \in heap : cmp(s, t) # "Less"

\* Source::epoll_event: the default asks for EPOLLIN | EPOLLONESHOT;
\* Commands overrides it with EPOLLIN alone.
default_epoll_event == {"EPOLLIN", "EPOLLONESHOT"}
epoll_event == {"EPOLLIN"}

\* The epoll flags each source registers; the loop's own re-arming of
\* signal and timer sources is outside src/, so they count as level ones.
Flags(s) == IF s = CmdSource THEN epoll_event ELSE {"EPOLLIN"}

\* An Io source is readable while a connection waits to be accepted.
Readable(s) == IF s = CmdSource THEN backlog # <<>> ELSE s \in signalled

-----------------------------------------------------------------------------
\* Commands::new binds the listener; the journal starts empty.
Init ==
    /\ up = TRUE
    /\ backlog = <<>>
    /\ armed = [s \in Sources |-> TRUE]
    /\ signalled = {}
    /\ pending = {}
    /\ cmd_pc = "idle"
    /\ stream = "none"
    /\ last_frame = NoFrame
    /\ recovered = NoFrame
    /\ interrupted = FALSE
    /\ made = 0 /\ accepted = 0 /\ lost = 0 /\ raised = 0 /\ kills = 0

\* The manager dies: the listener closes and its queued connections are
\* reset, pending signals and the heap go with the process; the journal
\* stays.
Down ==
    /\ up' = FALSE
    /\ backlog' = <<>>
    /\ lost' = lost + Len(backlog)
    /\ signalled' = {}
    /\ pending' = {}
    /\ cmd_pc' = "idle"
    /\ stream' = "none"
    /\ interrupted' = (cmd_pc # "idle")

-----------------------------------------------------------------------------
(* Clients and the kernel: inputs the manager does not control. *)

\* A client connects to 127.0.0.1:9526 and sends its request.
Connect(r) ==
    /\ up
    /\ made < MaxConns
    /\ backlog' = Append(backlog, r)
    /\ made' = made + 1
    /\ UNCHANGED <<up, armed, signalled, pending, cmd_pc, stream, last_frame,
                   recovered, interrupted, accepted, lost, raised, kills>>

\* A signal or timer source gets an event.
Raise(s) ==
    /\ up
    /\ s \notin signalled
    /\ raised < MaxEvents
    /\ signalled' = signalled \cup {s}
    /\ raised' = raised + 1
    /\ UNCHANGED <<up, backlog, armed, pending, cmd_pc, stream, last_frame,
                   recovered, interrupted, made, accepted, lost, kills>>

-----------------------------------------------------------------------------
(* The loop (spec 4.C1): one dispatch at a time, nothing re-entrant. *)

Ready == {s \in Sources : armed[s] /\ Readable(s)}

\* epoll_wait reports the ready sources and they are pushed on the heap
\* (a set: sources are equal when their tokens are); a source registered
\* with EPOLLONESHOT is disarmed by the report.
Wait ==
    /\ up
    /\ cmd_pc = "idle"
    /\ Ready \ pending # {}
    /\ pending' = pending \cup Ready
    /\ armed' = [s \in Sources |->
                    IF s \in Ready /\ "EPOLLONESHOT" \in Flags(s)
                    THEN FALSE ELSE armed[s]]
    /\ UNCHANGED <<up, backlog, signalled, cmd_pc, stream, last_frame,
                   recovered, interrupted, made, accepted, lost, raised, kills>>

\* The heap's top is a signal or timer source; its dispatch consumes the
\* event.
PopOther(s) ==
    /\ up
    /\ cmd_pc = "idle"
    /\ s \in pending \cap Others
    /\ IsTop(s, pending)
    /\ pending' = pending \ {s}
    /\ signalled' = signalled \ {s}
    /\ UNCHANGED <<up, backlog, armed, cmd_pc, stream, last_frame, recovered,
                   interrupted, made, accepted, lost, raised, kills>>

-----------------------------------------------------------------------------
(* Commands::dispatch, commands.rs:57-72. *)

\* The heap's top is the Commands source: set_last_frame1(CmdOp).
PopCmd ==
    /\ up
    /\ cmd_pc = "idle"
    /\ CmdSource \in pending
    /\ IsTop(CmdSource, pending)
    /\ pending' = pending \ {CmdSource}
    /\ last_frame' = CmdOp
    /\ cmd_pc' = "framed"
    /\ UNCHANGED <<up, backlog, armed, signalled, stream, recovered,
                   interrupted, made, accepted, lost, raised, kills>>

\* self.fd.incoming().next() accepts the oldest queued connection (it
\* blocks while none is queued, so the None arm never runs).
CmdAccept ==
    /\ cmd_pc = "framed"
    /\ backlog # <<>>
    /\ stream' = Head(backlog)
    /\ backlog' = Tail(backlog)
    /\ accepted' = accepted + 1
    /\ cmd_pc' = "accepted"
    /\ UNCHANGED <<up, armed, signalled, pending, last_frame, recovered,
                   interrupted, made, lost, raised, kills>>

\* dispatch.process().unwrap(): a malformed or cut-off request is an Err,
\* and the unwrap panics the manager inside the frame. The stream is a
\* blocking one: for a client that has sent nothing, process() waits in
\* read and the step never happens.
CmdProcess ==
    /\ cmd_pc = "accepted"
    /\ \/ /\ stream = "ok"
          /\ cmd_pc' = "processed"
          /\ UNCHANGED <<up, backlog, signalled, pending, stream, interrupted,
                         lost>>
       \/ /\ stream = "bad"
          /\ Down
    /\ UNCHANGED <<armed, last_frame, recovered, made, accepted, raised, kills>>

\* A clear_last_frame that never runs.
CmdClear_kept ==
    /\ cmd_pc = "processed"
    /\ cmd_pc' = "idle"
    /\ stream' = "none"
    /\ UNCHANGED <<up, backlog, armed, signalled, pending, last_frame,
                   recovered, interrupted, made, accepted, lost, raised, kills>>

\* self.reli.clear_last_frame(); dispatch returns 0.
CmdClear ==
    /\ cmd_pc = "processed"
    /\ last_frame' = NoFrame
    /\ cmd_pc' = "idle"
    /\ stream' = "none"
    /\ UNCHANGED <<up, backlog, armed, signalled, pending, recovered,
                   interrupted, made, accepted, lost, raised, kills>>

-----------------------------------------------------------------------------
(* Crash and restart (spec 4.C9). *)

\* The manager is killed from outside at any point.
Kill ==
    /\ up
    /\ kills < MaxKills
    /\ Down
    /\ kills' = kills + 1
    /\ UNCHANGED <<armed, last_frame, recovered, made, accepted, raised>>

\* A new manager binds the listener again and reads the journal: a frame
\* that was not cleared names what to resume or verify; then it is cleared.
Restart ==
    /\ ~up
    /\ up' = TRUE
    /\ armed' = [s \in Sources |-> TRUE]
    /\ recovered' = last_frame
    /\ last_frame' = NoFrame
    /\ UNCHANGED <<backlog, signalled, pending, cmd_pc, stream, interrupted,
                   made, accepted, lost, raised, kills>>

Loop ==
    \/ Wait
    \/ \E s \in Others : PopOther(s)
    \/ PopCmd \/ CmdAccept \/ CmdProcess \/ CmdClear

Next ==
    \/ \E r \in Requests : Connect(r)
    \/ \E s \in Others : Raise(s)
    \/ Loop
    \/ Kill
    \/ Restart

\* The loop runs whenever it has work (one thread, nothing else to wait
\* for); clients, the kernel, kills and the supervisor's restart get none.
Fairness ==
    /\ WF_vars(Wait)
    /\ \A s \in Others : WF_vars(PopOther(s))
    /\ WF_vars(PopCmd) /\ WF_vars(CmdAccept)
    /\ WF_vars(CmdProcess) /\ WF_vars(CmdClear)

Spec == Init /\ [][Next]_vars /\ Fairness

-----------------------------------------------------------------------------
\* Reliability (commands.rs:60-69): after a restart the journal names the
\* command frame exactly when the crash hit between set_last_frame1 and
\* clear_last_frame; a crash elsewhere leaves nothing to resume.
RecoveryMatchesCrash ==
    up => (recovered = CmdOp <=> interrupted)

\* Level-triggered accept (commands.rs:53-61): one connection is accepted
\* per dispatch, and every connection is eventually accepted unless a
\* crash drops it.
ConnectionsServed ==
    \A n \in 1..MaxConns : (made >= n) ~> (accepted + lost >= n)
====
