\* Expected violation: the unit keeps a pid after the child was reaped.
CONSTANTS
  MaxCmds = 1
  SpawnOutcomes = {TRUE}
  ExitKinds = {"Exited0", "Killed"}
  MaxSpawns = 4
SPECIFICATION Spec
CONSTRAINT SpawnBound
INVARIANT PidsAreLiveChildren
