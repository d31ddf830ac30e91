--------------------------- MODULE MCServiceUnit ---------------------------
(* Model-checking harness for ServiceUnit: bounds the pids handed out.     *)
EXTENDS ServiceUnit

CONSTANT MaxSpawns   \* forks per behaviour

SpawnBound == next_pid <= MaxSpawns
=============================================================================
