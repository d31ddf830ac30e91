\* The mount loop and its inotify wait, with devices created as files.
\* The process may block forever in read_events_blocking: no deadlock check.
CONSTANTS
  NItems = 3
  Devs = {"sda", "sdb"}
  DevKinds = {"file"}
  MaxOthers = 1
SPECIFICATION Spec
CHECK_DEADLOCK FALSE
INVARIANTS TypeOK NoLostWakeup DoneMeansAllConsumed
PROPERTY Terminates
