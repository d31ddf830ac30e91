\* Expected violation: a start job of a service whose main process keeps
\* running never completes; the unit stays in Start.
CONSTANTS
  MaxCmds = 1
  SpawnOutcomes = {TRUE}
  ExitKinds = {"Exited0"}
  MaxSpawns = 3
SPECIFICATION LiveSpec
CONSTRAINT SpawnBound
PROPERTY StartJobCompletes
