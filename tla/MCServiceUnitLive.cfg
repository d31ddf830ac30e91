\* The stop path completes, assuming control commands terminate and every
\* spawn succeeds; and the reported active state follows ServiceLifecycle
\* when no child fails.
CONSTANTS
  MaxCmds = 1
  SpawnOutcomes = {TRUE}
  ExitKinds = {"Exited0"}
  MaxSpawns = 4
SPECIFICATION LiveSpec
CONSTRAINT SpawnBound
PROPERTIES StopCompletes LifecycleRefined StopJobCompletes
