--------------------------- MODULE MCEpollReactor ---------------------------
(* Instances of EpollReactor for TLC. *)
EXTENDS EpollReactor

(* Operations that compete on one socket: each that is tried at once, each  *)
(* that only waits; a wait to write is queued as connect is.                *)
Competing == {"recv", "wait_read", "send", "connect", "oob"}
RecvOnly == {"recv"}

Symmetry == Permutations(Sockets) \cup Permutations(Fds) \cup Permutations(States)
              \cup Permutations(Threads) \cup Permutations(ReactorOps)
=============================================================================
