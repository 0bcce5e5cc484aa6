----------------------------- MODULE MCScheduler -----------------------------
(* Instances of Scheduler for TLC: the calls each program makes.           *)
EXTENDS Scheduler, TLC

(* Threads that only use run(), with every way of handing in work. *)
RunOnly == {"run", "post", "defer", "start_io", "cancel", "stop", "restart", "guard"}

(* Every kind of event-loop call, handlers that throw, and destruction.     *)
(* Without defer(): see the run sched_strand.                               *)
AnyCall == (ApiCalls \ {"defer", "cancel", "guard"})

(* What the liveness runs do: the loop is stopped, but never restarted. *)
Live == {"run", "post", "defer", "start_io", "cancel", "stop"}

RunOneDefer == {"run", "run_one", "defer", "post"}

Symmetry == Permutations(Threads) \cup Permutations(Handlers)
=============================================================================
