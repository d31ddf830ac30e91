CONSTANTS
    MaxPids = 3
    ForkOutcomes = {TRUE}
    Requests = {"Restart"}
SPECIFICATION Spec
PROPERTY ManagerRecreated
