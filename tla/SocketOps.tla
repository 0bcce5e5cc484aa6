----------------------------- MODULE SocketOps -----------------------------
(***************************************************************************)
(* socket_ops: what the library makes of each system call on a socket.     *)
(*                                                                         *)
(* A descriptor of the kernel is a record: its mode, whether close() has   *)
(* to linger, the protocol type, the amount that can be read (datagrams,   *)
(* bytes, or connections to accept), the room for sending, the directions  *)
(* that are shut down and the state of the connection.  A system call is   *)
(* the set of its possible outcomes [ec, n, k]: error, result, descriptor  *)
(* afterwards.  A call that has to wait has the outcome of a signal only.  *)
(*                                                                         *)
(* The flags of a socket (state_type) are a set of names.                  *)
(***************************************************************************)
EXTENDS Naturals, FiniteSets

CONSTANTS MaxIn, MaxRoom    \* capacity of the receive and send buffers

ASSUME QueuesAssumption == MaxIn \in Nat \ {0} /\ MaxRoom \in Nat \ {0}

Flags ==
  {"user_set_non_blocking", "internal_non_blocking", "enable_connection_aborted",
   "user_set_linger", "stream_oriented", "datagram_oriented", "possible_dup"}

non_blocking == {"user_set_non_blocking", "internal_non_blocking"}

Types == {"stream", "datagram", "raw"}
Links == {"none", "listening", "connecting", "connected", "refused"}

Descriptor ==
  [open : BOOLEAN, nonblock : BOOLEAN, linger : BOOLEAN, type : Types,
   in : 0 .. MaxIn, room : 0 .. MaxRoom, shut : SUBSET {"in", "out"}, link : Links]

Closed ==
  [open |-> FALSE, nonblock |-> FALSE, linger |-> FALSE, type |-> "raw",
   in |-> 0, room |-> 0, shut |-> {}, link |-> "none"]

socket(type) == [Closed EXCEPT !.open = TRUE, !.type = type, !.room = MaxRoom]

(* What accept(2) returns on Linux: a blocking descriptor that takes its   *)
(* linger option from the listening one.                                   *)
Accepted(k) == [socket("stream") EXCEPT !.linger = k.linger, !.link = "connected"]

----------------------------------------------------------------------------
(* One system call each. *)

Outcome(ec, n, k) == [ec |-> ec, n |-> n, k |-> k]
Failure(ec, k) == {Outcome(ec, 0, k)}

(* What the kernel does when it can do nothing. *)
Wait(k) == Failure(IF k.nonblock THEN "would_block" ELSE "interrupted", k)

Unconnected(k) == k.type = "stream" /\ k.link \notin {"connected", "connecting"}
Unread(k) == k.in > 0

(* recvmsg(): a datagram may be empty, bytes of a stream are not. *)
recv(k) ==
  IF Unconnected(k) THEN Failure("not_connected", k)
  ELSE IF Unread(k)
       THEN {Outcome("ok", n, [k EXCEPT !.in = @ - 1]) :
               n \in IF k.type = "stream" THEN {1} ELSE {0, 1}}
  ELSE IF "in" \in k.shut THEN {Outcome("ok", 0, k)}
  ELSE Wait(k)

recvfrom(k) == recv(k)

send(k) ==
  IF Unconnected(k) THEN Failure("not_connected", k)
  ELSE IF "out" \in k.shut THEN Failure("broken_pipe", k)
  ELSE IF k.room > 0 /\ k.link # "connecting" THEN {Outcome("ok", 1, [k EXCEPT !.room = @ - 1])}
  ELSE Wait(k)

sendto(k) == send(k)

(* accept(): a connection that was aborted in the queue is reported once. *)
accept(k) ==
  IF k.link # "listening" THEN Failure("invalid_argument", k)
  ELSE IF Unread(k)
       THEN {Outcome("ok", 1, [k EXCEPT !.in = @ - 1]),
             Outcome("connection_aborted", 0, [k EXCEPT !.in = @ - 1]),
             Outcome("no_descriptors", 0, k)}
  ELSE Wait(k)

(* connect(): a stream in blocking mode is connected or refused when the   *)
(* call returns, in non-blocking mode it is being connected.               *)
connect(k) ==
  IF k.link = "connecting" THEN Failure("already_started", k)
  ELSE IF k.link = "connected" THEN Failure("already_connected", k)
  ELSE IF k.link = "listening" THEN Failure("invalid_argument", k)
  ELSE IF k.type # "stream" THEN {Outcome("ok", 0, [k EXCEPT !.link = "connected"])}
  ELSE IF k.nonblock
       THEN Failure("in_progress", [k EXCEPT !.link = "connecting"])
            \cup {Outcome("ok", 0, [k EXCEPT !.link = "connected"])}
  ELSE Failure("connection_refused", [k EXCEPT !.link = "none"])
       \cup Failure("interrupted", [k EXCEPT !.link = "connecting"])
       \cup {Outcome("ok", 0, [k EXCEPT !.link = "connected"])}

(* getsockopt(SO_ERROR) reports the error of a connection once. *)
ConnectError(k) ==
  IF k.link = "refused" THEN Outcome("connection_refused", 0, [k EXCEPT !.link = "none"])
  ELSE Outcome("ok", 0, k)

bind(k) == {Outcome("ok", 0, k), Outcome("address_in_use", 0, k)}

listen(k) ==
  IF k.type # "stream" \/ k.link # "none" THEN Failure("not_supported", k)
  ELSE {Outcome("ok", 0, [k EXCEPT !.link = "listening"])}

shutdown(k, what) ==
  IF k.link # "connected" THEN Failure("not_connected", k)
  ELSE {Outcome("ok", 0, [k EXCEPT !.shut = @ \cup what])}

available(k) == {Outcome("ok", IF k.link = "listening" THEN 0 ELSE k.in, k)}
sockatmark(k) == {Outcome("ok", 0, k)}
getsockname(k) == {Outcome("ok", 0, k)}
getpeername(k) ==
  IF k.link = "connected" THEN {Outcome("ok", 0, k)} ELSE Failure("not_connected", k)

----------------------------------------------------------------------------
(* poll(): is there something to do for a call of this kind? *)

ReadyIn(k) == Unread(k) \/ "in" \in k.shut \/ (Unconnected(k) /\ k.link # "listening")
ReadyOut(k) == k.link # "connecting" /\ (k.room > 0 \/ "out" \in k.shut \/ Unconnected(k))
ReadyError(k) == k.link = "refused" \/ k.shut = {"in", "out"}

PollOutcome(state, ready, k) ==
  IF ready THEN {Outcome("ok", 0, k)}
  ELSE Failure(IF "user_set_non_blocking" \in state THEN "would_block" ELSE "interrupted", k)

poll_read(state, k) == PollOutcome(state, ReadyIn(k), k)
poll_write(state, k) == PollOutcome(state, ReadyOut(k), k)
poll_error(state, k) == PollOutcome(state, ReadyError(k), k)
poll_connect(k) == PollOutcome({}, k.link # "connecting", k)

----------------------------------------------------------------------------
(* The loops of the blocking calls: what to do with an outcome r of the    *)
(* system call, given the flags at the start of the call: return an error  *)
(* code, or wait in poll() and try again.                                  *)

GiveUp(state, r) == "user_set_non_blocking" \in state \/ r.ec # "would_block"

(* Mutant: nothing received is always the end of the stream. *)
RecvAnyEof(state, r) ==
  IF r.n > 0 THEN "ok"
  ELSE IF r.ec = "ok" THEN "eof"
  ELSE IF GiveUp(state, r) THEN r.ec ELSE "poll"

sync_recv(state, r) ==
  IF r.n > 0 THEN "ok"
  ELSE IF "stream_oriented" \in state /\ r.ec = "ok" THEN "eof"
  ELSE IF GiveUp(state, r) THEN r.ec ELSE "poll"

sync_recvfrom(state, r) ==
  IF r.ec = "ok" \/ GiveUp(state, r) THEN r.ec ELSE "poll"

sync_send(state, r) ==
  IF r.ec = "ok" \/ GiveUp(state, r) THEN r.ec ELSE "poll"

sync_sendto(state, r) ==
  IF r.ec = "ok" \/ GiveUp(state, r) THEN r.ec ELSE "poll"

sync_accept(state, r) ==
  IF \/ r.ec = "would_block" /\ "user_set_non_blocking" \notin state
     \/ r.ec = "connection_aborted" /\ "enable_connection_aborted" \notin state
  THEN "poll" ELSE r.ec

sync_connect(r) == IF r.ec \in {"in_progress", "would_block"} THEN "poll" ELSE r.ec

----------------------------------------------------------------------------
(* The same for the reactor: an error code if the operation is complete,   *)
(* "again" if it stays in its queue.  A signal is retried inside.          *)

non_blocking_recv(state, r) ==
  IF "stream_oriented" \in state /\ r.ec = "ok" /\ r.n = 0 THEN "eof"
  ELSE IF r.ec \in {"would_block", "interrupted"} THEN "again" ELSE r.ec

non_blocking_recvfrom(r) ==
  IF r.ec \in {"would_block", "interrupted"} THEN "again" ELSE r.ec

non_blocking_send(r) ==
  IF r.ec \in {"would_block", "interrupted"} THEN "again" ELSE r.ec

non_blocking_sendto(r) ==
  IF r.ec \in {"would_block", "interrupted"} THEN "again" ELSE r.ec

non_blocking_accept(state, r) ==
  IF \/ r.ec \in {"would_block", "interrupted"}
     \/ r.ec = "connection_aborted" /\ "enable_connection_aborted" \notin state
  THEN "again" ELSE r.ec

non_blocking_connect(k) ==
  IF k.link = "connecting" THEN Outcome("again", 0, k) ELSE ConnectError(k)

----------------------------------------------------------------------------
(* The mode and the options: outcomes with the flags after the call. *)

(* Mutant: clearing the mode leaves the internal flag. *)
UserLeavesInternal(state, value) ==
  IF value THEN state \cup {"user_set_non_blocking"}
  ELSE state \ {"user_set_non_blocking"}

set_user_non_blocking(state, value) ==
  IF value THEN state \cup {"user_set_non_blocking"} ELSE state \ non_blocking

set_internal_non_blocking(state, value) ==
  IF value THEN state \cup {"internal_non_blocking"} ELSE state \ {"internal_non_blocking"}

(* The one request that is refused. *)
ClearsUserMode(state, value) == ~value /\ "user_set_non_blocking" \in state

(* ioctl(FIONBIO) *)
ioctl(state, value) == set_user_non_blocking(state, value)

(* setsockopt() of enable_connection_aborted and of linger; the other      *)
(* options do not touch the flags.                                         *)
setsockopt(state, option, value) ==
  CASE option = "enable_connection_aborted" ->
         IF value THEN state \cup {option} ELSE state \ {option}
    [] option = "linger" -> state \cup {"user_set_linger"}
    [] OTHER -> state

getsockopt(state, option, k) ==
  IF option = "enable_connection_aborted" THEN option \in state ELSE k.linger

(* Does close(2) make its caller wait?  A destructor turns lingering off   *)
(* if the option was set through the socket.                               *)
Lingers(k, state, destruction) ==
  k.linger /\ ~(destruction /\ "user_set_linger" \in state)
=============================================================================
