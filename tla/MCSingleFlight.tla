-------------------------- MODULE MCSingleFlight --------------------------
(***************************************************************************)
(* Two threads, two request ids, four leases and one restart: enough for   *)
(* an id to come back twice in a run and once more after the restart.      *)
(***************************************************************************)
EXTENDS SingleFlight, TLC

Symmetry == Permutations(Worker) \cup Permutations(OpId)

============================================================================
