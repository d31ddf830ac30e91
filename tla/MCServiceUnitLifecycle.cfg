\* Expected violation: after a failed activation the next start inherits
\* the latched failure, so it never begins a fresh activation.
CONSTANTS
  MaxCmds = 1
  SpawnOutcomes = {TRUE}
  ExitKinds = {"Exited0", "Killed"}
  MaxSpawns = 4
SPECIFICATION Spec
CONSTRAINT SpawnBound
PROPERTY LifecycleRefined
