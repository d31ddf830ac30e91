CONSTANTS
    MaxPids = 4
    ForkOutcomes = {TRUE, FALSE}
    Requests = {"Restart", "Unrecover", "SwitchRoot"}
SPECIFICATION Spec
INVARIANTS TypeOK ManagerPidNotReaped ReexecSelfAfterManagerExit
