--------------------------- MODULE MCTimerService ---------------------------
(* Instances of TimerService for TLC. *)
EXTENDS TimerService

Symmetry == Permutations(Timers) \cup Permutations(WaitOps) \cup Permutations(Services)
=============================================================================
