-------------------------------- MODULE Fstab --------------------------------
(***************************************************************************)
(* The fstab mounter (src/src/fstab/main.rs): it parses /etc/fstab, puts  *)
(* an inotify CREATE watch on the parent directory of every device, then  *)
(* loops: one pass over the items mounts (or swaps on) each item whose     *)
(* device exists, counting it complete whatever the outcome; when not all *)
(* are complete it blocks on inotify until a CREATE event names a device  *)
(* of the watch set, and makes another pass.                              *)
(*                                                                         *)
(* The program is one sequential process; the kernel (udev creating device *)
(* nodes, other files appearing in /dev) is the environment.  An item is   *)
(* abstracted to its device and fs type, a device to its name, whether its *)
(* parent directory exists and whether it is created as a directory.      *)
(***************************************************************************)
EXTENDS Integers, Sequences, FiniteSets

CONSTANTS
    NItems,     \* entries in /etc/fstab
    Devs,       \* device names (the file names put in watch_set)
    DevKinds,   \* how udev creates a device: subset of {"file", "dir"}
    MaxOthers   \* creations of unrelated entries in watched directories

ASSUME NItems \in Nat \ {0} /\ MaxOthers \in Nat
ASSUME DevKinds \subseteq {"file", "dir"} /\ DevKinds # {}

Items  == 1..NItems
Other  == "other"                      \* a name not in watch_set
Events == [name : Devs \cup {Other}, isdir : BOOLEAN]

VARIABLES
    device_spec,    \* parsed fstab: item -> device
    fs_type,        \* parsed fstab: item -> "swap" or a mountable type
    dev_kind,       \* device -> "file" or "dir"
    parent_exists,  \* device -> its parent directory exists
    exists,         \* device -> Path::exists(device_spec)
    queue,          \* the inotify event queue
    pc,             \* "watch", "pass", "wait", "done", "panicked"
    cursor,         \* the item the for loop is at
    item_state,     \* FSTabItem.state: 0 pending, 1 done, -1 failed
    complete_num,
    others          \* unrelated creations so far

config == <<device_spec, fs_type, dev_kind, parent_exists>>
vars == <<config, exists, queue, pc, cursor, item_state, complete_num, others>>

-----------------------------------------------------------------------------
\* mount_one and swap_on: run the binary; 0 when it ran and exited 0, -1
\* when it could not be run, died of a signal or exited non-zero.
mount_one(i) == {0, -1}
swap_on(i)   == {0, -1}

\* consume_one: swap_on for swap, mount_one otherwise; state 1 or -1.
consume_one(i, r) ==
    /\ r \in IF fs_type[i] = "swap" THEN swap_on(i) ELSE mount_one(i)
    /\ item_state' = [item_state EXCEPT ![i] = IF r = 0 THEN 1 ELSE -1]

\* watch_set: the file names of all devices.
watch_set == {device_spec[i] : i \in Items}

\* The inotify instance exists from watch_devices until main returns.
Watching == pc \in {"pass", "wait"}

\* The event test of the wait loop: mask == CREATE (a directory's CREATE
\* carries ISDIR too) and the name is in watch_set.
Matches(e) == ~e.isdir /\ e.name \in watch_set

-----------------------------------------------------------------------------
\* fstab_item::parse: any table over the devices; the file system is in any
\* state in which a device only exists inside an existing directory.
Init ==
    /\ device_spec \in [Items -> Devs]
    /\ fs_type \in [Items -> {"swap", "mount"}]
    /\ dev_kind \in [Devs -> DevKinds]
    /\ parent_exists \in [Devs -> BOOLEAN]
    /\ exists \in [Devs -> BOOLEAN]
    /\ \A d \in Devs : exists[d] => parent_exists[d]
    /\ queue = <<>>
    /\ pc = "watch" /\ cursor = 1
    /\ item_state = [i \in Items |-> 0]
    /\ complete_num = 0 /\ others = 0

\* watch_devices: add_watch(parent, CREATE) for every item; expect() panics
\* when the parent directory does not exist.
WatchDevices ==
    /\ pc = "watch"
    /\ pc' = IF \A i \in Items : parent_exists[device_spec[i]]
             THEN "pass" ELSE "panicked"
    /\ UNCHANGED <<config, exists, queue, cursor, item_state, complete_num, others>>

ConsumeItem_again ==
    /\ pc = "pass" /\ cursor \in Items
    /\ IF ~exists[device_spec[cursor]]
       THEN UNCHANGED <<item_state, complete_num>>
       ELSE /\ \E r \in {0, -1} : consume_one(cursor, r)
            /\ complete_num' = complete_num + 1
    /\ cursor' = cursor + 1
    /\ UNCHANGED <<config, exists, queue, pc, others>>

ConsumeItem_recount ==
    /\ pc = "pass" /\ cursor \in Items
    /\ IF ~exists[device_spec[cursor]]
       THEN UNCHANGED item_state
       ELSE \E r \in {0, -1} : consume_one(cursor, r)
    /\ complete_num' = complete_num + 1
    /\ cursor' = cursor + 1
    /\ UNCHANGED <<config, exists, queue, pc, others>>

\* One iteration of the for loop: skip an item already consumed or whose
\* device does not exist; else consume it and count it complete.
ConsumeItem ==
    /\ pc = "pass" /\ cursor \in Items
    /\ IF item_state[cursor] # 0 \/ ~exists[device_spec[cursor]]
       THEN UNCHANGED <<item_state, complete_num>>
       ELSE /\ \E r \in {0, -1} : consume_one(cursor, r)
            /\ complete_num' = complete_num + 1
    /\ cursor' = cursor + 1
    /\ UNCHANGED <<config, exists, queue, pc, others>>

EndPass_strict ==
    /\ pc = "pass" /\ cursor = NItems + 1
    /\ pc' = IF complete_num > NItems THEN "done" ELSE "wait"
    /\ UNCHANGED <<config, exists, queue, cursor, item_state, complete_num, others>>

\* After the pass: break when every item is complete, else wait.
EndPass ==
    /\ pc = "pass" /\ cursor = NItems + 1
    /\ pc' = IF complete_num >= NItems THEN "done" ELSE "wait"
    /\ UNCHANGED <<config, exists, queue, cursor, item_state, complete_num, others>>

ReadEvents_first ==
    /\ pc = "wait" /\ queue # <<>>
    /\ \E k \in 1..Len(queue) :
         /\ queue' = SubSeq(queue, k + 1, Len(queue))
         /\ IF Matches(queue[1])
            THEN pc' = "pass" /\ cursor' = 1
            ELSE UNCHANGED <<pc, cursor>>
    /\ UNCHANGED <<config, exists, item_state, complete_num, others>>

\* One read_events_blocking: it blocks until the queue holds events and
\* returns those that fit the buffer (a non-empty prefix).  The for loop
\* looks at all of them; a match ends the while loop and starts a pass.
ReadEvents ==
    /\ pc = "wait" /\ queue # <<>>
    /\ \E k \in 1..Len(queue) :
         /\ queue' = SubSeq(queue, k + 1, Len(queue))
         /\ IF \E j \in 1..k : Matches(queue[j])
            THEN pc' = "pass" /\ cursor' = 1
            ELSE UNCHANGED <<pc, cursor>>
    /\ UNCHANGED <<config, exists, item_state, complete_num, others>>

\* main returned, or a panic ended the process.
Finished == pc \in {"done", "panicked"} /\ UNCHANGED vars

-----------------------------------------------------------------------------
\* Environment: udev creates a device node (or directory); a watched
\* directory reports it as a CREATE event.
DeviceAppears(d) ==
    /\ ~exists[d] /\ parent_exists[d]
    /\ exists' = [exists EXCEPT ![d] = TRUE]
    /\ queue' = IF Watching
                THEN Append(queue, [name |-> d, isdir |-> dev_kind[d] = "dir"])
                ELSE queue
    /\ UNCHANGED <<config, pc, cursor, item_state, complete_num, others>>

\* Environment: some other file or directory is created in a watched one.
OtherCreate ==
    /\ Watching /\ others < MaxOthers
    /\ \E isdir \in BOOLEAN : queue' = Append(queue, [name |-> Other, isdir |-> isdir])
    /\ others' = others + 1
    /\ UNCHANGED <<config, exists, pc, cursor, item_state, complete_num>>

Next ==
    \/ WatchDevices \/ ConsumeItem \/ EndPass \/ ReadEvents \/ Finished
    \/ \E d \in Devs : DeviceAppears(d)
    \/ OtherCreate

\* The program runs whenever it can; every device named in fstab whose
\* directory exists is eventually created (the assumption the mounter's
\* wait relies on).
Fairness ==
    /\ WF_vars(WatchDevices \/ ConsumeItem \/ EndPass \/ ReadEvents)
    /\ \A d \in Devs : WF_vars(d \in watch_set /\ DeviceAppears(d))

Spec == Init /\ [][Next]_vars /\ Fairness

-----------------------------------------------------------------------------
TypeOK ==
    /\ device_spec \in [Items -> Devs] /\ fs_type \in [Items -> {"swap", "mount"}]
    /\ dev_kind \in [Devs -> DevKinds] /\ parent_exists \in [Devs -> BOOLEAN]
    /\ exists \in [Devs -> BOOLEAN] /\ queue \in Seq(Events)
    /\ pc \in {"watch", "pass", "wait", "done", "panicked"}
    /\ cursor \in 1..NItems + 1
    /\ item_state \in [Items -> {0, 1, -1}]
    /\ complete_num \in 0..NItems /\ others \in 0..MaxOthers

(* No lost wake-up: while main blocks in read_events_blocking, every item  *)
(* still pending whose device already exists has a CREATE event for it     *)
(* queued that the wait loop will accept.  The pass checked the device     *)
(* before it appeared, so that event is the only thing that wakes main.    *)
NoLostWakeup ==
    pc = "wait" =>
      \A i \in Items :
        (item_state[i] = 0 /\ exists[device_spec[i]])
          => \E j \in 1..Len(queue) : queue[j].name = device_spec[i]
                                    /\ Matches(queue[j])

(* main breaks out of the loop only when every fstab entry was mounted or  *)
(* swapped on (successfully or not): complete_num counts items, once each. *)
DoneMeansAllConsumed ==
    pc = "done" => \A i \in Items : item_state[i] # 0

(* If every device of fstab is eventually created, main returns (or has   *)
(* panicked in watch_devices): the mounter never hangs in its wait.       *)
Terminates == <>(pc \in {"done", "panicked"})

=============================================================================
