\* Safety of the service state machine when every spawn succeeds.
CONSTANTS
  MaxCmds = 2
  SpawnOutcomes = {TRUE}
  ExitKinds = {"Exited0", "Exited1", "Killed"}
  MaxSpawns = 5
SPECIFICATION Spec
CONSTRAINT SpawnBound
INVARIANTS TypeOK RunningOnlyOnSuccess WaitingHasChild
