------------------------------ MODULE Socket ------------------------------
(***************************************************************************)
(* Sockets and acceptors: reactive_socket_service and the classes in front *)
(* of it, with the descriptors of the kernel behind it.                    *)
(*                                                                         *)
(* A thread of the program makes one call after the other; meanwhile the   *)
(* reactor performs pending operations, the scheduler completes them and   *)
(* the network does what it does.  A blocking call takes several steps.    *)
(* EpollReactor says when the reactor tries an operation; here it may at   *)
(* any time.                                                               *)
(***************************************************************************)
EXTENDS SocketOps

CONSTANTS
  Objects,     \* basic_socket and basic_socket_acceptor objects
  LastFd,      \* descriptors are 1 .. LastFd
  Programs     \* what the program may be: [class |-> of each object, api |-> the
               \* functions it calls for it, ops |-> how many operations at a time]

(* One of the programs has the most operations at a time. *)
ASSUME SocketAssumption ==
  /\ LastFd \in Nat
  /\ \A p \in Programs : p.ops \in Nat
  /\ \E p \in Programs : \A q \in Programs : q.ops <= p.ops

Fds == 1 .. LastFd
MaxOps == CHOOSE n \in {p.ops : p \in Programs} : \A p \in Programs : p.ops <= n
OpIds == 1 .. MaxOps
invalid_socket == 0

VARIABLES
  prog,      \* the program: classes of its objects, functions it calls
  impl,      \* the implementation of each object: socket_, state_
  kern,      \* the descriptors
  native,    \* descriptors that belong to the program itself
  ops,       \* the operation objects
  call,      \* the blocking call that is under way, or the last call
  cleared    \* descriptors the program made blocking under pending operations

vars == <<prog, impl, kern, native, ops, call, cleared>>
rest == <<prog, native, cleared>>

NoOp == [kind |-> "none", status |-> "free", fd |-> 0, state |-> {}, peer |-> "none", new |-> 0]
NoCall == [op |-> "none", phase |-> "idle", fd |-> 0, state |-> {}, peer |-> "none", ec |-> "ok"]

Class(o) == prog.class[o]
FreeFds == {f \in Fds : ~kern[f].open}
NewFd == CHOOSE f \in FreeFds : \A g \in FreeFds : f <= g
Pending(fd) == {i \in OpIds : ops[i].status = "pending" /\ ops[i].fd = fd}

(* The program calls this function of an object of this class. *)
Calls(class, f, o) == f \in prog.api[o] /\ Class(o) \in class /\ call.phase = "idle"
Sockets == {"stream", "datagram", "raw"}
Peers == {o \in Objects : Class(o) = "stream"}
(* A peer an operation refers to must stay where it is. *)
Referred(o) == \E i \in OpIds : ops[i].status # "free" /\ ops[i].peer = o

(* A function returns at once.  Its error code is the branch it took: a    *)
(* caller of the model looks at the results of blocking calls only.        *)
Returns(ec) == call' = NoCall

----------------------------------------------------------------------------
(* reactive_socket_service_base. *)

is_open(o) == impl[o].socket # invalid_socket

constructed == [socket |-> invalid_socket, state |-> {}]

TypeFlag(type) ==
  CASE type = "stream" -> {"stream_oriented"}
    [] type = "datagram" -> {"datagram_oriented"}
    [] OTHER -> {}

(* An operation that goes to the scheduler leaves this model, with the     *)
(* error code for its handler, unless it holds a descriptor.               *)
Posted(i, ec) == [ops EXCEPT ![i] = NoOp]

(* deregister_descriptor(): the operations on fd end with operation_aborted. *)
Aborted(fd) == [i \in OpIds |-> IF i \in Pending(fd) THEN NoOp ELSE ops[i]]

(* The implementation is destroyed: destroy(), close() and what a          *)
(* move assignment does first.                                             *)
destroy(o) ==
  IF is_open(o)
  THEN /\ kern' = [kern EXCEPT ![impl[o].socket] = Closed]
       /\ ops' = Aborted(impl[o].socket)
       /\ cleared' = cleared \ {impl[o].socket}
  ELSE UNCHANGED <<kern, ops, cleared>>

service_close(o) == destroy(o) /\ impl' = [impl EXCEPT ![o] = constructed]

(* Mutant: release() leaves the operations with the descriptor. *)
ReleaseKeepsOps(o) ==
  /\ is_open(o)
  /\ native' = native \cup {impl[o].socket}
  /\ cleared' = cleared \ {impl[o].socket}
  /\ impl' = [impl EXCEPT ![o] = constructed]
  /\ UNCHANGED <<kern, ops>>

service_release(o) ==
  /\ is_open(o)
  /\ ops' = Aborted(impl[o].socket)
  /\ native' = native \cup {impl[o].socket}
  /\ cleared' = cleared \ {impl[o].socket}
  /\ impl' = [impl EXCEPT ![o] = constructed]
  /\ UNCHANGED kern

base_move_construct(o, from) ==
  /\ impl' = [impl EXCEPT ![o] = impl[from], ![from] = constructed]
  /\ UNCHANGED <<kern, ops, cleared>>

base_move_assign(o, from) ==
  /\ destroy(o)
  /\ impl' = [impl EXCEPT ![o] = impl[from], ![from] = constructed]

(* do_open(): socket() may fail, and register_descriptor(), when the       *)
(* holder closes the descriptor again.                                     *)
do_open(o, type) ==
  \/ is_open(o) /\ UNCHANGED <<impl, kern>> /\ Returns("already_open")
  \/ /\ ~is_open(o) /\ UNCHANGED <<impl, kern>>
     /\ \/ Returns("no_descriptors")
        \/ FreeFds # {} /\ Returns("no_memory")
  \/ /\ ~is_open(o) /\ FreeFds # {}
     /\ kern' = [kern EXCEPT ![NewFd] = socket(type)]
     /\ impl' = [impl EXCEPT ![o] = [socket |-> NewFd, state |-> TypeFlag(type)]]
     /\ Returns("ok")

(* do_assign(): the outcomes, an error code and the implementation after. *)
do_assign(o, type, fd) ==
  IF is_open(o) THEN {<<"already_open", impl[o]>>}
  ELSE {<<"no_memory", impl[o]>>,
        <<"ok", [socket |-> fd, state |-> TypeFlag(type) \cup {"possible_dup"}]>>}

(* An operation object is made and given to the reactor; start_op() first  *)
(* makes the descriptor non-blocking, unless there is nothing to do.       *)
Slots == {i \in 1 .. prog.ops : ops[i].status = "free"}
Slot == CHOOSE i \in Slots : \A j \in Slots : i <= j

NewOp(kind, o, peer) ==
  ops' = [ops EXCEPT ![Slot] =
    [kind |-> kind, status |-> "pending", fd |-> impl[o].socket, state |-> impl[o].state,
     peer |-> peer, new |-> 0]]

(* post_immediate_completion(): the handler is called with ec. *)
PostNow(ec) == UNCHANGED ops

MakeNonBlocking(o) ==
  /\ kern' = [kern EXCEPT ![impl[o].socket].nonblock = TRUE]
  /\ impl' = [impl EXCEPT ![o].state = set_internal_non_blocking(@, TRUE)]

IsNonBlocking(o) == impl[o].state \cap non_blocking # {}

start_op(o, kind, noop, peer) ==
  /\ Slots # {}
  /\ \/ noop /\ PostNow("ok") /\ UNCHANGED <<impl, kern>>
     \/ /\ ~noop /\ ~is_open(o)
        /\ PostNow("bad_descriptor") /\ UNCHANGED <<impl, kern>>
     \/ /\ ~noop /\ is_open(o)
        /\ NewOp(kind, o, peer)
        /\ IF IsNonBlocking(o) THEN UNCHANGED <<impl, kern>> ELSE MakeNonBlocking(o)

start_accept_op(o, kind, peer, peerIsOpen) ==
  \/ ~peerIsOpen /\ start_op(o, kind, FALSE, peer)
  \/ /\ peerIsOpen /\ Slots # {}
     /\ PostNow("already_open")
     /\ UNCHANGED <<impl, kern>>

start_connect_op(o) ==
  /\ Slots # {} /\ is_open(o)
  /\ LET state == IF IsNonBlocking(o) THEN impl[o].state
                  ELSE set_internal_non_blocking(impl[o].state, TRUE)
         k == [kern[impl[o].socket] EXCEPT !.nonblock = TRUE]
     IN  \E r \in connect(k) :
           /\ kern' = [kern EXCEPT ![impl[o].socket] = r.k]
           /\ impl' = [impl EXCEPT ![o].state = state]
           /\ IF r.ec = "in_progress" THEN NewOp("connect", o, "none")
              ELSE PostNow(r.ec)

----------------------------------------------------------------------------
(* basic_socket and basic_socket_acceptor.  Both have these functions, on  *)
(* the same service; C is the class the function belongs to.               *)

open_(C, o) ==
  /\ Calls(C, "open", o)
  /\ do_open(o, IF Class(o) = "acceptor" THEN "stream" ELSE Class(o))
  /\ UNCHANGED <<rest, ops>>

assign_(C, o, fd) ==
  /\ Calls(C, "assign", o) /\ fd \in native
  /\ \E a \in do_assign(o, kern[fd].type, fd) :
       /\ impl' = [impl EXCEPT ![o] = a[2]]
       /\ native' = IF a[1] = "ok" THEN native \ {fd} ELSE native
       /\ Returns(a[1])
  /\ UNCHANGED <<prog, kern, ops, cleared>>

close_(C, o) ==
  /\ Calls(C, "close", o)
  /\ service_close(o)
  /\ Returns("ok")
  /\ UNCHANGED <<prog, native>>

release_(C, o) ==
  /\ Calls(C, "release", o)
  /\ \/ ~is_open(o) /\ Returns("bad_descriptor")
        /\ UNCHANGED <<impl, kern, native, ops, cleared>>
     \/ service_release(o) /\ Returns("ok")
  /\ UNCHANGED prog

cancel_(C, o) ==
  /\ Calls(C, "cancel", o)
  /\ \/ ~is_open(o) /\ Returns("bad_descriptor") /\ UNCHANGED ops
     \/ is_open(o) /\ Returns("ok") /\ ops' = Aborted(impl[o].socket)
  /\ UNCHANGED <<rest, impl, kern>>

move_construct_(C, o, from) ==
  /\ Calls(C, "move", o) /\ Class(from) = Class(o) /\ o # from
  /\ ~is_open(o) /\ ~Referred(o)
  /\ base_move_construct(o, from)
  /\ Returns("ok")
  /\ UNCHANGED <<prog, native>>

move_assign_(C, o, from) ==
  /\ Calls(C, "move", o) /\ Class(from) = Class(o) /\ o # from
  /\ base_move_assign(o, from)
  /\ Returns("ok")
  /\ UNCHANGED <<prog, native>>

(* The destructor: unlike close() it does not linger. *)
destruct_(C, o) ==
  /\ Calls(C, "destroy", o) /\ ~Referred(o)
  /\ service_close(o)
  /\ call' = [NoCall EXCEPT !.ec =
       IF is_open(o) /\ Lingers(kern[impl[o].socket], impl[o].state, TRUE)
                     /\ "possible_dup" \notin impl[o].state
       THEN "lingers" ELSE "ok"]
  /\ UNCHANGED <<prog, native>>

(* Functions that are one system call: on an object that is not open they  *)
(* report bad_descriptor.                                                  *)
OneCall(o, outcomes(_)) ==
  \/ ~is_open(o) /\ Returns("bad_descriptor") /\ UNCHANGED kern
  \/ /\ is_open(o)
     /\ \E r \in outcomes(kern[impl[o].socket]) :
          kern' = [kern EXCEPT ![impl[o].socket] = r.k] /\ Returns(r.ec)

bind_(C, o) ==
  Calls(C, "bind", o) /\ OneCall(o, bind) /\ UNCHANGED <<rest, impl, ops>>

local_endpoint_(C, o) ==
  Calls(C, "query", o) /\ OneCall(o, getsockname) /\ UNCHANGED <<rest, impl, ops>>

set_option_(C, o, option, value) ==
  /\ Calls(C, "set_option", o)
  /\ \/ ~is_open(o) /\ Returns("bad_descriptor") /\ UNCHANGED <<impl, kern>>
     \/ /\ is_open(o) /\ Returns("ok")
        /\ impl' = [impl EXCEPT ![o].state = setsockopt(@, option, value)]
        /\ kern' = IF option = "linger"
                   THEN [kern EXCEPT ![impl[o].socket].linger = value] ELSE kern
  /\ UNCHANGED <<rest, ops>>

get_option_(C, o, option) ==
  /\ Calls(C, "query", o)
  /\ Returns(IF ~is_open(o) THEN "bad_descriptor"
       ELSE IF getsockopt(impl[o].state, option, kern[impl[o].socket]) THEN "set" ELSE "clear")
  /\ UNCHANGED <<rest, impl, kern, ops>>

(* The two modes.  The program that makes a descriptor blocking while      *)
(* operations are pending on it is remembered.                             *)
SetMode(o, state, value) ==
  /\ Returns("ok")
  /\ impl' = [impl EXCEPT ![o].state = state]
  /\ kern' = [kern EXCEPT ![impl[o].socket].nonblock = value]
  /\ cleared' = IF ~value /\ Pending(impl[o].socket) # {}
                THEN cleared \cup {impl[o].socket} ELSE cleared

NotOpen(o) ==
  ~is_open(o) /\ Returns("bad_descriptor") /\ UNCHANGED <<impl, kern, cleared>>

non_blocking_(C, o, value) ==
  /\ Calls(C, "mode", o)
  /\ \/ NotOpen(o)
     \/ is_open(o) /\ SetMode(o, set_user_non_blocking(impl[o].state, value), value)
  /\ UNCHANGED <<prog, native, ops>>

io_control_(C, o, value) ==
  /\ Calls(C, "mode", o)
  /\ \/ NotOpen(o)
     \/ is_open(o) /\ SetMode(o, ioctl(impl[o].state, value), value)
  /\ UNCHANGED <<prog, native, ops>>

native_non_blocking_(C, o, value) ==
  /\ Calls(C, "mode", o)
  /\ \/ NotOpen(o)
     \/ /\ is_open(o) /\ ClearsUserMode(impl[o].state, value)
        /\ Returns("invalid_argument")
        /\ UNCHANGED <<impl, kern, cleared>>
     \/ /\ is_open(o) /\ ~ClearsUserMode(impl[o].state, value)
        /\ SetMode(o, set_internal_non_blocking(impl[o].state, value), value)
  /\ UNCHANGED <<prog, native, ops>>

(* A blocking call begins: the flags are copied. *)
Begin(o, op, peer) ==
  IF is_open(o)
  THEN call' = [op |-> op, phase |-> "try", fd |-> impl[o].socket,
                state |-> impl[o].state, peer |-> peer, ec |-> "ok"]
  ELSE Returns("bad_descriptor")

SyncCall(C, f, o, op) ==
  Calls(C, f, o) /\ Begin(o, op, "none") /\ UNCHANGED <<rest, impl, kern, ops>>

AsyncCall(C, f, o, kind, noop) ==
  Calls(C, f, o) /\ start_op(o, kind, noop, "none") /\ UNCHANGED <<rest, call>>

wait_(C, o) == \E w \in {"wait_read", "wait_write", "wait_error"} : SyncCall(C, "wait", o, w)
async_wait_(C, o) ==
  \E w \in {"wait_read", "wait_write", "wait_error"} : AsyncCall(C, "async_wait", o, w, FALSE)

(* connect() and async_connect() open the socket first. *)
OpenFirst(o) ==
  \/ is_open(o) /\ UNCHANGED <<impl, kern>>
  \/ /\ ~is_open(o) /\ FreeFds # {}
     /\ kern' = [kern EXCEPT ![NewFd] = socket(Class(o))]
     /\ impl' = [impl EXCEPT ![o] = [socket |-> NewFd, state |-> TypeFlag(Class(o))]]

OpenFails(o) == ~is_open(o) /\ UNCHANGED <<impl, kern>>

----------------------------------------------------------------------------
(* The functions of basic_socket. *)

socket_open(o) == open_(Sockets, o)
socket_assign(o, fd) == assign_(Sockets, o, fd)
socket_close(o) == close_(Sockets, o)
socket_release(o) == release_(Sockets, o)
socket_cancel(o) == cancel_(Sockets, o)
socket_move_construct(C, o, from) == move_construct_(C, o, from)
socket_move_assign(C, o, from) == move_assign_(C, o, from)
socket_destroy(o) == destruct_(Sockets, o)
socket_bind(o) == bind_(Sockets, o)
socket_set_option(o, option, value) == set_option_(Sockets, o, option, value)
socket_get_option(o, option) == get_option_(Sockets, o, option)
socket_non_blocking(o, value) == non_blocking_(Sockets, o, value)
socket_io_control(o, value) == io_control_(Sockets, o, value)
socket_native_non_blocking(o, value) == native_non_blocking_(Sockets, o, value)
socket_local_endpoint(o) == local_endpoint_(Sockets, o)
socket_wait(o) == wait_(Sockets, o)
socket_async_wait(o) == async_wait_(Sockets, o)

(* The constructor that opens and binds: when bind() fails the exception   *)
(* leaves no object, and no descriptor.                                    *)
socket_construct(C, o) ==
  /\ Calls(C, "construct", o) /\ ~is_open(o) /\ ~Referred(o)
  /\ \/ OpenFirst(o) /\ Returns("ok")
     \/ OpenFails(o) /\ Returns("no_descriptors")
     \/ FreeFds # {} /\ OpenFails(o) /\ Returns("address_in_use")
  /\ UNCHANGED <<rest, ops>>

socket_at_mark(o) ==
  Calls(Sockets, "query", o) /\ OneCall(o, sockatmark) /\ UNCHANGED <<rest, impl, ops>>

socket_available(o) ==
  Calls(Sockets, "query", o) /\ OneCall(o, available) /\ UNCHANGED <<rest, impl, ops>>

socket_remote_endpoint(o) ==
  Calls(Sockets, "query", o) /\ OneCall(o, getpeername) /\ UNCHANGED <<rest, impl, ops>>

socket_shutdown(o, what) ==
  /\ Calls(Sockets, "shutdown", o)
  /\ OneCall(o, LAMBDA k : shutdown(k, what))
  /\ UNCHANGED <<rest, impl, ops>>

socket_connect(o) ==
  /\ Calls(Sockets, "connect", o)
  /\ \/ OpenFails(o) /\ Returns("no_descriptors")
     \/ /\ OpenFirst(o)
        /\ call' = [op |-> "connect", phase |-> "try", fd |-> impl'[o].socket,
                    state |-> impl'[o].state, peer |-> "none", ec |-> "ok"]
  /\ UNCHANGED <<rest, ops>>

(* An object that could not be opened gets its error through post(). *)
socket_async_connect(o) ==
  /\ Calls(Sockets, "async_connect", o) /\ Slots # {}
  /\ \/ OpenFails(o) /\ PostNow("no_descriptors")
     \/ is_open(o) /\ start_connect_op(o)
     \/ /\ ~is_open(o) /\ FreeFds # {}
        /\ impl' = [impl EXCEPT ![o] = [socket |-> NewFd, state |->
                     set_internal_non_blocking(TypeFlag(Class(o)), TRUE)]]
        /\ \E r \in connect([socket(Class(o)) EXCEPT !.nonblock = TRUE]) :
             /\ kern' = [kern EXCEPT ![NewFd] = r.k]
             /\ IF r.ec # "in_progress" THEN PostNow(r.ec)
                ELSE ops' = [ops EXCEPT ![Slot] =
                       [NoOp EXCEPT !.kind = "connect", !.status = "pending", !.fd = NewFd]]
  /\ UNCHANGED <<rest, call>>

----------------------------------------------------------------------------
(* basic_stream_socket; a request for nothing is a no-op on a stream. *)

stream_construct(o) == socket_construct({"stream"}, o)
stream_move(o, from) ==
  socket_move_construct({"stream"}, o, from) \/ socket_move_assign({"stream"}, o, from)
stream_send(o) == SyncCall({"stream"}, "send", o, "send")
stream_async_send(o) == \E noop \in BOOLEAN : AsyncCall({"stream"}, "async_send", o, "send", noop)
stream_receive(o) == SyncCall({"stream"}, "receive", o, "recv")
stream_async_receive(o) ==
  \E noop \in BOOLEAN : AsyncCall({"stream"}, "async_receive", o, "recv", noop)
stream_write_some(o) == SyncCall({"stream"}, "send", o, "send")
stream_async_write_some(o) == AsyncCall({"stream"}, "async_send", o, "send", FALSE)
stream_read_some(o) == SyncCall({"stream"}, "receive", o, "recv")
stream_async_read_some(o) == AsyncCall({"stream"}, "async_receive", o, "recv", FALSE)

(* basic_datagram_socket *)
datagram_construct(o) == socket_construct({"datagram"}, o)
datagram_move(o, from) ==
  socket_move_construct({"datagram"}, o, from) \/ socket_move_assign({"datagram"}, o, from)
datagram_send(o) == SyncCall({"datagram"}, "send", o, "send")
datagram_async_send(o) == AsyncCall({"datagram"}, "async_send", o, "send", FALSE)
datagram_send_to(o) == SyncCall({"datagram"}, "send", o, "sendto")
datagram_async_send_to(o) == AsyncCall({"datagram"}, "async_send", o, "sendto", FALSE)
datagram_receive(o) == SyncCall({"datagram"}, "receive", o, "recv")
datagram_async_receive(o) == AsyncCall({"datagram"}, "async_receive", o, "recv", FALSE)
datagram_receive_from(o) == SyncCall({"datagram"}, "receive", o, "recvfrom")
datagram_async_receive_from(o) == AsyncCall({"datagram"}, "async_receive", o, "recvfrom", FALSE)

(* basic_raw_socket *)
raw_construct(o) == socket_construct({"raw"}, o)
raw_move(o, from) ==
  socket_move_construct({"raw"}, o, from) \/ socket_move_assign({"raw"}, o, from)
raw_send(o) == SyncCall({"raw"}, "send", o, "send")
raw_async_send(o) == AsyncCall({"raw"}, "async_send", o, "send", FALSE)
raw_send_to(o) == SyncCall({"raw"}, "send", o, "sendto")
raw_async_send_to(o) == AsyncCall({"raw"}, "async_send", o, "sendto", FALSE)
raw_receive(o) == SyncCall({"raw"}, "receive", o, "recv")
raw_async_receive(o) == AsyncCall({"raw"}, "async_receive", o, "recv", FALSE)
raw_receive_from(o) == SyncCall({"raw"}, "receive", o, "recvfrom")
raw_async_receive_from(o) == AsyncCall({"raw"}, "async_receive", o, "recvfrom", FALSE)

----------------------------------------------------------------------------
(* basic_socket_acceptor *)

Acceptors == {"acceptor"}

acceptor_open(o) == open_(Acceptors, o)
acceptor_assign(o, fd) == assign_(Acceptors, o, fd)
acceptor_close(o) == close_(Acceptors, o)
acceptor_release(o) == release_(Acceptors, o)
acceptor_cancel(o) == cancel_(Acceptors, o)
acceptor_move_construct(o, from) == move_construct_(Acceptors, o, from)
acceptor_move_assign(o, from) == move_assign_(Acceptors, o, from)
acceptor_destroy(o) == destruct_(Acceptors, o)
acceptor_bind(o) == bind_(Acceptors, o)
acceptor_set_option(o, option, value) == set_option_(Acceptors, o, option, value)
acceptor_get_option(o, option) == get_option_(Acceptors, o, option)
acceptor_non_blocking(o, value) == non_blocking_(Acceptors, o, value)
acceptor_io_control(o, value) == io_control_(Acceptors, o, value)
acceptor_native_non_blocking(o, value) == native_non_blocking_(Acceptors, o, value)
acceptor_local_endpoint(o) == local_endpoint_(Acceptors, o)
acceptor_wait(o) == wait_(Acceptors, o)
acceptor_async_wait(o) == async_wait_(Acceptors, o)

acceptor_listen(o) ==
  Calls(Acceptors, "listen", o) /\ OneCall(o, listen) /\ UNCHANGED <<rest, impl, ops>>

(* The constructor opens, sets reuse_address, binds and listens. *)
acceptor_construct(o) ==
  /\ Calls(Acceptors, "construct", o) /\ ~is_open(o)
  /\ \/ /\ FreeFds # {}
        /\ kern' = [kern EXCEPT ![NewFd] = [socket("stream") EXCEPT !.link = "listening"]]
        /\ impl' = [impl EXCEPT ![o] = [socket |-> NewFd, state |-> {"stream_oriented"}]]
        /\ Returns("ok")
     \/ OpenFails(o) /\ Returns("no_descriptors")
     \/ FreeFds # {} /\ OpenFails(o) /\ Returns("address_in_use")
  /\ UNCHANGED <<rest, ops>>

(* accept(): into an object that must not be open, which is asked before   *)
(* the call waits and again by assign(), or into a new object, which is    *)
(* returned.  The overloads with an endpoint are told who connected, those *)
(* with an io_context make the new object for that one.                    *)
accept_(o, peer) ==
  /\ Calls(Acceptors, "accept", o)
  /\ IF is_open(peer) THEN Returns("already_open")
     ELSE Begin(o, "accept", peer)
  /\ UNCHANGED <<rest, impl, kern, ops>>

accept_new_(o) ==
  /\ Calls(Acceptors, "accept", o) /\ Begin(o, "accept", "none")
  /\ UNCHANGED <<rest, impl, kern, ops>>

async_accept_(o, peer) ==
  /\ Calls(Acceptors, "async_accept", o)
  /\ start_accept_op(o, "accept", peer, is_open(peer))
  /\ UNCHANGED <<rest, call>>

async_accept_new_(o) ==
  /\ Calls(Acceptors, "async_accept", o)
  /\ start_accept_op(o, "move_accept", "none", FALSE)
  /\ UNCHANGED <<rest, call>>

acceptor_accept(o, peer) == accept_(o, peer)
acceptor_accept_endpoint(o, peer) == accept_(o, peer)
acceptor_accept_new(o) == accept_new_(o)
acceptor_accept_new_context(o) == accept_new_(o)
acceptor_accept_new_endpoint(o) == accept_new_(o)
acceptor_accept_new_context_endpoint(o) == accept_new_(o)

acceptor_async_accept(o, peer) == async_accept_(o, peer)
acceptor_async_accept_endpoint(o, peer) == async_accept_(o, peer)
acceptor_async_accept_new(o) == async_accept_new_(o)
acceptor_async_accept_new_context(o) == async_accept_new_(o)
acceptor_async_accept_new_endpoint(o) == async_accept_new_(o)
acceptor_async_accept_new_context_endpoint(o) == async_accept_new_(o)

----------------------------------------------------------------------------
(* The blocking call goes on. *)

Syscall(op, state, k) ==
  CASE op = "recv" -> recv(k)
    [] op = "recvfrom" -> recvfrom(k)
    [] op = "send" -> send(k)
    [] op = "sendto" -> sendto(k)
    [] op = "connect" -> connect(k)
    [] op = "accept" -> accept(k)
    [] op = "wait_read" -> poll_read(state, k)
    [] op = "wait_write" -> poll_write(state, k)
    [] op = "wait_error" -> poll_error(state, k)

Decision(op, state, r) ==
  CASE op = "recv" -> sync_recv(state, r)
    [] op = "recvfrom" -> sync_recvfrom(state, r)
    [] op = "send" -> sync_send(state, r)
    [] op = "sendto" -> sync_sendto(state, r)
    [] op = "connect" -> sync_connect(r)
    [] op = "accept" -> sync_accept(state, r)
    [] OTHER -> r.ec

(* The call waits in the kernel, and nothing but a signal would end it. *)
InKernel(c) == \A r \in Syscall(c.op, c.state, kern[c.fd]) : r.ec = "interrupted"

(* The call is over.  Errors that no property is about count as success. *)
Finish(ec) ==
  call' = [NoCall EXCEPT !.ec = IF ec \in {"would_block", "eof"} THEN ec ELSE "ok"]
GoesOn(d) == IF d = "poll" THEN call' = [call EXCEPT !.phase = "poll"] ELSE Finish(d)

SyncTry ==
  /\ call.phase = "try"
  /\ \E r \in Syscall(call.op, call.state, kern[call.fd]) :
       /\ ~(call.op = "accept" /\ r.ec = "ok")
       /\ kern' = [kern EXCEPT ![call.fd] = r.k]
       /\ GoesOn(Decision(call.op, call.state, r))
  /\ UNCHANGED <<rest, impl, ops>>

(* A connection is accepted and assigned to the peer, or to a new object   *)
(* that the program keeps in one of its own; if that fails, the holder     *)
(* closes it.                                                              *)
SyncAccept ==
  /\ call.phase = "try" /\ call.op = "accept" /\ FreeFds # {}
  /\ \E r \in accept(kern[call.fd]), o \in Peers :
       /\ r.ec = "ok" /\ (call.peer # "none" => o = call.peer)
       /\ \E a \in do_assign(o, "stream", NewFd) :
            /\ kern' = [kern EXCEPT ![call.fd] = r.k,
                          ![NewFd] = IF a[1] = "ok" THEN Accepted(r.k) ELSE @]
            /\ impl' = [impl EXCEPT ![o] = a[2]]
            /\ Finish(a[1])
  /\ UNCHANGED <<rest, ops>>

PollFor(op, k) ==
  CASE op \in {"recv", "recvfrom", "accept"} -> poll_read({}, k)
    [] op \in {"send", "sendto"} -> poll_write({}, k)
    [] op = "connect" -> poll_connect(k)

(* poll() returns.  A connection is not tried again: its error is fetched. *)
PollReturns ==
  /\ call.phase = "poll"
  /\ \E p \in PollFor(call.op, kern[call.fd]) :
       \/ p.ec # "ok" /\ Finish(p.ec) /\ UNCHANGED kern
       \/ /\ p.ec = "ok" /\ call.op # "connect"
          /\ call' = [call EXCEPT !.phase = "try"] /\ UNCHANGED kern
       \/ /\ p.ec = "ok" /\ call.op = "connect"
          /\ LET r == ConnectError(kern[call.fd])
             IN  kern' = [kern EXCEPT ![call.fd] = r.k] /\ Finish(r.ec)
  /\ UNCHANGED <<rest, impl, ops>>

----------------------------------------------------------------------------
(* The reactor tries an operation. *)

reactive_socket_recv_op(op, r) == non_blocking_recv(op.state, r)
reactive_socket_recvfrom_op(op, r) == non_blocking_recvfrom(r)
reactive_socket_send_op(op, r) == non_blocking_send(r)
reactive_socket_sendto_op(op, r) == non_blocking_sendto(r)
reactive_socket_accept_op(op, r) == non_blocking_accept(op.state, r)

PerformResult(op, r) ==
  CASE op.kind = "recv" -> reactive_socket_recv_op(op, r)
    [] op.kind = "recvfrom" -> reactive_socket_recvfrom_op(op, r)
    [] op.kind = "send" -> reactive_socket_send_op(op, r)
    [] op.kind = "sendto" -> reactive_socket_sendto_op(op, r)
    [] op.kind \in {"accept", "move_accept"} -> reactive_socket_accept_op(op, r)

Perform(i) ==
  /\ ops[i].status = "pending" /\ ops[i].kind \in {"recv", "recvfrom", "send", "sendto"}
  /\ \E r \in Syscall(ops[i].kind, {}, kern[ops[i].fd]) :
       LET ec == PerformResult(ops[i], r)
       IN  ec # "again" /\ ops' = Posted(i, ec) /\ kern' = [kern EXCEPT ![ops[i].fd] = r.k]
  /\ UNCHANGED <<rest, impl, call>>

PerformConnect(i) ==
  /\ ops[i].status = "pending" /\ ops[i].kind = "connect"
  /\ LET r == non_blocking_connect(kern[ops[i].fd])
     IN  r.ec # "again" /\ ops' = Posted(i, r.ec) /\ kern' = [kern EXCEPT ![ops[i].fd] = r.k]
  /\ UNCHANGED <<rest, impl, call>>

(* The operation object holds the new descriptor until it is completed. *)
PerformAccept(i) ==
  /\ ops[i].status = "pending" /\ ops[i].kind \in {"accept", "move_accept"}
  /\ \E r \in accept(kern[ops[i].fd]) :
       LET ec == PerformResult(ops[i], r)
       IN  \/ /\ ec = "ok" /\ FreeFds # {}
              /\ kern' = [kern EXCEPT ![ops[i].fd] = r.k, ![NewFd] = Accepted(r.k)]
              /\ ops' = [ops EXCEPT ![i] = [NoOp EXCEPT !.status = "posted", !.new = NewFd,
                                                       !.peer = ops[i].peer]]
           \/ /\ ec \notin {"ok", "again"}
              /\ kern' = [kern EXCEPT ![ops[i].fd] = r.k]
              /\ ops' = Posted(i, ec)
           \/ /\ ec = "again" /\ r.ec = "connection_aborted"
              /\ kern' = [kern EXCEPT ![ops[i].fd] = r.k]
              /\ UNCHANGED ops
  /\ UNCHANGED <<rest, impl, call>>

(* A wait, also one with null_buffers, is complete as soon as it is tried. *)
PerformWait(i) ==
  /\ ops[i].status = "pending"
  /\ ops[i].kind \in {"wait_read", "wait_write", "wait_error"}
  /\ \E r \in Syscall(ops[i].kind, {}, kern[ops[i].fd]) : r.ec = "ok"
  /\ ops' = Posted(i, "ok")
  /\ UNCHANGED <<rest, impl, kern, call>>

(* Mutant: the peer is overwritten without a look whether it is open. *)
AssignBlindly(i) ==
  /\ ops[i].status = "posted" /\ ops[i].new # 0
  /\ \E o \in Peers :
       /\ ops[i].peer # "none" => o = ops[i].peer
       /\ impl' = [impl EXCEPT ![o] = [socket |-> ops[i].new,
                                       state |-> {"stream_oriented", "possible_dup"}]]
  /\ ops' = [ops EXCEPT ![i] = NoOp]
  /\ UNCHANGED <<rest, kern, call>>

(* do_assign() of an accept operation: the peer may have been opened since *)
(* the operation was started.  The handler of a move_accept gets an object *)
(* of its own, which it keeps in a closed one of the program or drops.     *)
CompleteAccept(i) ==
  /\ ops[i].status = "posted" /\ ops[i].new # 0
  /\ \E o \in Peers :
       /\ ops[i].peer # "none" => o = ops[i].peer
       /\ \E a \in do_assign(o, "stream", ops[i].new) :
            /\ impl' = [impl EXCEPT ![o] = a[2]]
            /\ kern' = IF a[1] = "ok" THEN kern ELSE [kern EXCEPT ![ops[i].new] = Closed]
  /\ ops' = [ops EXCEPT ![i] = NoOp]
  /\ UNCHANGED <<rest, call>>

(* The io_context is shut down: operations are destroyed, with what they hold. *)
Discard(i) ==
  /\ ops[i].status # "free" /\ call.phase = "idle"
  /\ kern' = [f \in Fds |-> IF f = ops[i].new THEN Closed ELSE kern[f]]
  /\ ops' = [ops EXCEPT ![i] = NoOp]
  /\ UNCHANGED <<rest, impl, call>>

----------------------------------------------------------------------------
(* The network, and the program with a descriptor of its own. *)

(* A program that does not receive cannot tell. *)
Receives == \E o \in Objects : prog.api[o] \cap {"receive", "async_receive"} # {}

Arrives(f) ==
  /\ kern[f].open /\ kern[f].in < MaxIn /\ "in" \notin kern[f].shut
  /\ \/ kern[f].link = "listening"
     \/ Receives /\ (kern[f].type = "stream" => kern[f].link = "connected")
  /\ kern' = [kern EXCEPT ![f].in = @ + 1]
  /\ UNCHANGED <<rest, impl, ops, call>>

PeerShuts(f) ==
  /\ Receives
  /\ kern[f].link = "connected" /\ kern[f].type = "stream"
  /\ kern' = [kern EXCEPT ![f].shut = @ \cup {"in"}]
  /\ UNCHANGED <<rest, impl, ops, call>>

Drains(f) ==
  /\ kern[f].open /\ kern[f].room < MaxRoom
  /\ kern' = [kern EXCEPT ![f].room = @ + 1]
  /\ UNCHANGED <<rest, impl, ops, call>>

ConnectEnds(f) ==
  /\ kern[f].link = "connecting"
  /\ \E l \in {"connected", "refused"} : kern' = [kern EXCEPT ![f].link = l]
  /\ UNCHANGED <<rest, impl, ops, call>>

(* The program has, or closes, or changes the mode of, its own descriptor. *)
OwnDescriptor ==
  /\ \E o \in Objects : "assign" \in prog.api[o]
  /\ call.phase = "idle"
  /\ \/ \E f \in native :
          \/ native' = native \ {f} /\ kern' = [kern EXCEPT ![f] = Closed]
          \/ UNCHANGED native /\ kern' = [kern EXCEPT ![f].nonblock = ~@]
     \/ /\ FreeFds # {} /\ native = {}
        /\ native' = {NewFd}
        /\ kern' = [kern EXCEPT ![NewFd] = [socket("stream") EXCEPT !.link = "connected"]]
  /\ UNCHANGED <<prog, impl, ops, call, cleared>>

----------------------------------------------------------------------------
Init ==
  /\ prog \in Programs
  /\ impl = [o \in Objects |-> constructed]
  /\ kern = [f \in Fds |-> Closed]
  /\ native = {}
  /\ ops = [i \in OpIds |-> NoOp]
  /\ call = NoCall
  /\ cleared = {}

SocketCall(o) ==
  \/ socket_open(o) \/ socket_close(o) \/ socket_release(o)
  \/ socket_cancel(o) \/ socket_destroy(o) \/ socket_bind(o)
  \/ socket_local_endpoint(o) \/ socket_remote_endpoint(o) \/ socket_at_mark(o)
  \/ socket_available(o) \/ socket_connect(o) \/ socket_async_connect(o)
  \/ socket_wait(o) \/ socket_async_wait(o)
  \/ \E fd \in Fds : socket_assign(o, fd)
  \/ stream_construct(o) \/ datagram_construct(o) \/ raw_construct(o)
  \/ \E from \in Objects : stream_move(o, from) \/ datagram_move(o, from) \/ raw_move(o, from)
  \/ \E what \in {{"in"}, {"out"}} : socket_shutdown(o, what)
  \/ \E value \in BOOLEAN :
       \/ socket_non_blocking(o, value) \/ socket_io_control(o, value)
       \/ socket_native_non_blocking(o, value)
       \/ \E option \in {"linger", "other"} :
            socket_set_option(o, option, value) \/ socket_get_option(o, option)

TransferCall(o) ==
  \/ stream_send(o) \/ stream_async_send(o) \/ stream_receive(o) \/ stream_async_receive(o)
  \/ stream_write_some(o) \/ stream_async_write_some(o)
  \/ stream_read_some(o) \/ stream_async_read_some(o)
  \/ datagram_send(o) \/ datagram_async_send(o)
  \/ datagram_send_to(o) \/ datagram_async_send_to(o)
  \/ datagram_receive(o) \/ datagram_async_receive(o)
  \/ datagram_receive_from(o) \/ datagram_async_receive_from(o)
  \/ raw_send(o) \/ raw_async_send(o) \/ raw_send_to(o) \/ raw_async_send_to(o)
  \/ raw_receive(o) \/ raw_async_receive(o) \/ raw_receive_from(o) \/ raw_async_receive_from(o)

AcceptorCall(o) ==
  \/ acceptor_construct(o) \/ acceptor_open(o) \/ acceptor_close(o) \/ acceptor_release(o)
  \/ acceptor_cancel(o) \/ acceptor_destroy(o) \/ acceptor_bind(o) \/ acceptor_listen(o)
  \/ acceptor_local_endpoint(o) \/ acceptor_wait(o) \/ acceptor_async_wait(o)
  \/ acceptor_accept_new(o) \/ acceptor_accept_new_context(o)
  \/ acceptor_accept_new_endpoint(o) \/ acceptor_accept_new_context_endpoint(o)
  \/ acceptor_async_accept_new(o) \/ acceptor_async_accept_new_context(o)
  \/ acceptor_async_accept_new_endpoint(o) \/ acceptor_async_accept_new_context_endpoint(o)
  \/ \E peer \in Peers :
       \/ acceptor_accept(o, peer) \/ acceptor_accept_endpoint(o, peer)
       \/ acceptor_async_accept(o, peer) \/ acceptor_async_accept_endpoint(o, peer)
  \/ \E from \in Objects : acceptor_move_construct(o, from) \/ acceptor_move_assign(o, from)
  \/ \E fd \in Fds : acceptor_assign(o, fd)
  \/ \E value \in BOOLEAN :
       \/ acceptor_non_blocking(o, value) \/ acceptor_io_control(o, value)
       \/ acceptor_native_non_blocking(o, value)
       \/ \E option \in {"linger", "enable_connection_aborted"} :
            acceptor_set_option(o, option, value) \/ acceptor_get_option(o, option)

Reactor ==
  \E i \in OpIds :
    \/ Perform(i) \/ PerformConnect(i) \/ PerformAccept(i) \/ PerformWait(i)
    \/ CompleteAccept(i) \/ Discard(i)

Network == \E f \in Fds : Arrives(f) \/ PeerShuts(f) \/ Drains(f) \/ ConnectEnds(f)

Next ==
  \/ \E o \in Objects : SocketCall(o) \/ TransferCall(o) \/ AcceptorCall(o)
  \/ SyncTry \/ SyncAccept \/ PollReturns
  \/ Reactor \/ Network \/ OwnDescriptor

Spec == Init /\ [][Next]_vars

----------------------------------------------------------------------------
Owned == {impl[o].socket : o \in Objects} \ {invalid_socket}
Held == {ops[i].new : i \in OpIds} \ {0}

(* Every descriptor that is open has one owner: a socket object, an accept *)
(* operation or the program.  None is leaked and none can be closed twice, *)
(* although opening, binding, registering and assigning fail half-way and  *)
(* a peer may be opened while a connection is accepted for it.             *)
OneOwner ==
  /\ {f \in Fds : kern[f].open} = Owned \cup Held \cup native
  /\ Cardinality(Owned) = Cardinality({o \in Objects : is_open(o)})
  /\ Cardinality(Held) = Cardinality({i \in OpIds : ops[i].new # 0})
  /\ Owned \cap Held = {} /\ Owned \cap native = {} /\ Held \cap native = {}

(* What the flags of a socket say is true of its descriptor: it is in      *)
(* non-blocking mode if one of the two flags is set, and a linger option   *)
(* is known unless the descriptor came from elsewhere.  The library itself *)
(* never makes a descriptor blocking under a pending operation: that takes *)
(* non_blocking(), native_non_blocking() or io_control(), whose effect on  *)
(* the reactor AsyncUnaffected is about.                                   *)
FlagsTrue ==
  /\ \A o \in Objects : is_open(o) =>
       LET k == kern[impl[o].socket]
       IN  /\ impl[o].state \cap non_blocking # {} => k.nonblock
           /\ k.linger => impl[o].state \cap {"user_set_linger", "possible_dup"} # {}
  /\ \A i \in OpIds : ops[i].status = "pending" =>
       kern[ops[i].fd].nonblock \/ ops[i].fd \in cleared

(* No operation stays behind: whatever is pending is on the descriptor of  *)
(* an open object, whichever way objects are closed, released, moved,      *)
(* assigned to or destroyed.                                               *)
NoOrphans ==
  \A i \in OpIds : ops[i].status = "pending" => ops[i].fd \in Owned

(* basic_socket.hpp:1056-1058: "The non-blocking mode has no effect on the  *)
(* behaviour of asynchronous operations."  When the reactor has performed  *)
(* a receive it tries the next one in the queue, which must not wait in    *)
(* the system call: everything that thread serves would wait with it.  The *)
(* code violates this: non_blocking(false), io_control() and               *)
(* native_non_blocking(false) make the descriptor blocking, whatever is    *)
(* pending on it.                                                          *)
Receive(i) == ops[i].kind \in {"recv", "recvfrom"}
WouldWait(i) ==
  \A r \in Syscall(ops[i].kind, {}, kern[ops[i].fd]) : r.ec = "interrupted"

AsyncUnaffected ==
  [][\A i \in OpIds : Perform(i) /\ Receive(i) =>
       \A j \in Pending(ops[i].fd) \ {i} : Receive(j) => ~WouldWait(j)']_vars

(* In non-blocking mode no call waits, in the system call or in poll().    *)
(* This is what basic_socket.hpp:1051-1054 says of every synchronous       *)
(* operation.  It is false of two of them, which are exempt from its       *)
(* second half: connect() waits in poll_connect() whatever the mode is,    *)
(* and accept() in poll_read() after a connection that was aborted.        *)
NeverWaits ==
  call.phase # "idle" /\ "user_set_non_blocking" \in call.state =>
    /\ ~InKernel(call)
    /\ call.op \notin {"connect", "accept"} => call.phase = "try"

(* The mode of a socket is honoured by the synchronous calls, except for   *)
(* the waits of connect() and accept() that NeverWaits names.  A socket in *)
(* blocking mode never reports would_block, even when the reactor has made *)
(* the descriptor non-blocking and takes the data away between poll() and  *)
(* the next try; eof is the end of a stream that was read out; the         *)
(* destructor does not wait for data to be sent.                           *)
ModeHonoured ==
  /\ []NeverWaits
  /\ [][/\ call'.ec = "would_block" /\ call' # call => "user_set_non_blocking" \in call.state
        /\ call'.ec = "eof" /\ call' # call =>
             "stream_oriented" \in call.state /\ kern[call.fd].in = 0 /\ "in" \in kern[call.fd].shut
        /\ call'.ec # "lingers"]_vars
=============================================================================
