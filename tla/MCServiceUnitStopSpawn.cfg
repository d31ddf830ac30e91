\* A main process exiting 0 after a stop starts the next ExecStart command.
CONSTANTS
  MaxCmds = 2
  SpawnOutcomes = {TRUE}
  ExitKinds = {"Exited0", "Exited1", "Killed"}
  MaxSpawns = 5
SPECIFICATION Spec
CONSTRAINT SpawnBound
PROPERTY ExecStartOnlyWhileStarting
