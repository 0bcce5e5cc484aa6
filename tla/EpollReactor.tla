---------------------------- MODULE EpollReactor ----------------------------
(***************************************************************************)
(* epoll_reactor's descriptors: how socket objects get a descriptor_state  *)
(* from the object_pool, how operations are started speculatively or       *)
(* queued on it, how edge-triggered events reach perform_io through the    *)
(* scheduler's queue, and how closing, moving, forking and shutdown take   *)
(* the registration apart while events for it are on their way.            *)
(*                                                                         *)
(* A descriptor_state's mutex makes start_op, cancel_ops, deregister and   *)
(* perform_io one step each.  epoll_wait, the loop over its events and the *)
(* invocation of a descriptor operation are separate steps: socket calls   *)
(* come in between.  The scheduler runs the reactor only when no           *)
(* descriptor operation is queued (Scheduler!DescriptorsDequeued).         *)
(***************************************************************************)
EXTENDS Integers, SequencesExt

CONSTANTS
  Sockets,   \* base_implementation_type objects
  Fds,       \* open file descriptions of the kernel
  States,    \* memory for descriptor_state objects
  Threads,   \* threads that run descriptor operations
  ReactorOps,  \* reactor_op objects, each started at most once
  Null,      \* the null pointer, and invalid_socket
  Kinds,     \* the kinds of operation the program starts
  MaxAvail,  \* bound on data that arrives, and space that opens, on a socket
  Ends,      \* whether peers close or reset connections
  Calls      \* the other calls the program makes, a subset of AllCalls

Types == {"read", "write", "except"}

(* Kind of operation, the type it is started with and whether start_op is   *)
(* asked to try it at once: async_receive, async_send of two units,         *)
(* async_connect, async_receive with message_out_of_band, async_wait.       *)
KindType ==
  [recv |-> "read", wait_read |-> "read", send |-> "write",
   connect |-> "write", wait_write |-> "write", oob |-> "except"]
Speculative == {"recv", "send"}
Waits == {"wait_read", "wait_write"}

AllCalls == {"close", "release", "assign", "fail", "move", "fork", "shutdown"}

ASSUME EpollReactorAssumption ==
  /\ Kinds \subseteq DOMAIN KindType
  /\ MaxAvail \in Nat
  /\ Ends \in BOOLEAN /\ Calls \subseteq AllCalls
  /\ Null \notin Sockets \cup Fds \cup States

VARIABLES
  socket,       \* socket_, reactor_data_ and possible_dup of every socket object
  state,        \* every descriptor_state
  live, free,   \* object_pool: the live objects, and the free list
  shutdown,     \* epoll_reactor::shutdown_
  batch,        \* what epoll_wait returned and the loop has not dispatched
  enqueued,     \* descriptor operations in the scheduler's queue
  performing,   \* per thread: the descriptor operation it has taken
  op, result,   \* per operation: kind and socket_, and what became of it
  kernel,       \* the kernel's side of every open file description
  epoll,        \* its registration with epoll: data.ptr and events
  ready         \* epoll's ready list

pool_vars == <<live, free>>
event_vars == <<batch, enqueued, performing>>
kernel_vars == <<kernel, epoll, ready>>
op_vars == <<op, result>>
vars == <<socket, state, pool_vars, shutdown, event_vars, op_vars, kernel_vars>>

Closed == [fd |-> Null, data |-> Null, dup |-> FALSE, closing |-> FALSE]
NoFile == [open |-> FALSE, dup |-> FALSE, forked |-> FALSE, avail |-> 0, space |-> 0, came |-> 0,
           pri |-> FALSE, end |-> "no", seen |-> {}]
(* A file is open elsewhere as well: through another handle of this         *)
(* process, or in a process that was forked from it or that it forked from. *)
OpenElsewhere(file) == file.dup \/ file.forked
NoRegistration == [ptr |-> Null, events |-> {}]

(* A descriptor_state as the constructor leaves it. *)
NewState ==
  [descriptor |-> Null, registered_events |-> {}, shutdown |-> FALSE,
   op_queue |-> [y \in Types |-> <<>>], try_speculative |-> [y \in Types |-> TRUE]]

Init ==
  /\ socket = [k \in Sockets |-> Closed]
  /\ state = [d \in States |-> NewState]
  /\ live = {} /\ free = <<>>
  /\ shutdown = FALSE
  /\ batch = {} /\ enqueued = {}
  /\ performing = [t \in Threads |-> [ptr |-> Null, events |-> {}]]
  /\ op = [o \in ReactorOps |-> [kind |-> Null, socket |-> Null]]
  /\ result = [o \in ReactorOps |-> "fresh"]
  /\ kernel = [f \in Fds |-> NoFile]
  /\ epoll = [f \in Fds |-> NoRegistration]
  /\ ready = {}

-----------------------------------------------------------------------------
(* The kernel.                                                             *)

Flag == [read |-> "in", write |-> "out", except |-> "pri"]

(* poll(): what a file is ready for. *)
Mask(file) ==
  {e \in {"in", "out", "pri", "hup"} :
     CASE e = "in"  -> file.avail > 0 \/ file.end # "no"
       [] e = "out" -> file.space > 0 \/ file.end = "hup"
       [] e = "pri" -> file.pri
       [] e = "hup" -> file.end = "hup"}

(* EPOLLERR and EPOLLHUP are reported whether asked for or not. *)
Reported(f) == Mask(kernel[f]) \cap (epoll[f].events \cup {"hup"})

(* EPOLL_CTL_ADD and EPOLL_CTL_MOD look at the file again: a descriptor     *)
(* that is ready now is reported again although it is edge-triggered.       *)
Register(f, file, ptr, events) ==
  /\ epoll' = [epoll EXCEPT ![f] = [ptr |-> ptr, events |-> events]]
  /\ ready' = IF Mask(file) \cap (events \cup {"hup"}) # {}
              THEN ready \cup {f} ELSE ready

Unregister(f) ==
  /\ epoll' = [epoll EXCEPT ![f] = NoRegistration]
  /\ ready' = ready \ {f}

(* Something happens to a file; an edge for epoll if it was asked for. *)
KernelEvent(f, file, event) ==
  /\ kernel[f].open
  /\ kernel' = [kernel EXCEPT ![f] = file]
  /\ ready' = IF epoll[f].ptr # Null /\ event \in epoll[f].events \cup {"hup"}
              THEN ready \cup {f} ELSE ready
  /\ UNCHANGED <<socket, state, pool_vars, shutdown, event_vars, op_vars, epoll>>

(* Readiness no operation of the program could wait for is left out. *)
More(f, y) ==
  /\ kernel[f].end = "no" /\ kernel[f].came < MaxAvail
  /\ \E c \in Kinds : KindType[c] = y

Arrive(f) ==
  /\ More(f, "read")
  /\ KernelEvent(f, [kernel[f] EXCEPT !.avail = @ + 1, !.came = @ + 1], "in")

Drain(f) ==
  /\ More(f, "write")
  /\ KernelEvent(f, [kernel[f] EXCEPT !.space = @ + 1, !.came = @ + 1], "out")

Urgent(f) ==
  /\ More(f, "except")
  /\ KernelEvent(f, [kernel[f] EXCEPT !.pri = TRUE, !.came = @ + 1], "pri")

PeerCloses(f) ==
  /\ Ends /\ kernel[f].end = "no"
  /\ KernelEvent(f, [kernel[f] EXCEPT !.end = "eof"], "in")

PeerResets(f) ==
  /\ Ends /\ kernel[f].end # "hup"
  /\ KernelEvent(f, [kernel[f] EXCEPT !.end = "hup"], "hup")

-----------------------------------------------------------------------------
(* reactor_op::perform of each kind: the status, and the file afterwards.   *)
(* A receive of zero bytes and a send that is cut short are exhausted.      *)
(* seen records the types that have reported the end of the connection.     *)
End(file, y) == [file EXCEPT !.seen = @ \cup {y}]

PerformRecv(file) ==
  IF file.avail > 0
  THEN [status |-> "done", file |-> [file EXCEPT !.avail = @ - 1]]
  ELSE IF file.end # "no"
  THEN [status |-> "done_and_exhausted", file |-> End(file, "read")]
  ELSE [status |-> "not_done", file |-> file]

PerformSend(file, size) ==
  IF file.end = "hup"
  THEN [status |-> "done_and_exhausted", file |-> End(file, "write")]
  ELSE IF file.space >= size
  THEN [status |-> "done", file |-> [file EXCEPT !.space = @ - size]]
  ELSE IF file.space > 0
  THEN [status |-> "done_and_exhausted", file |-> [file EXCEPT !.space = 0]]
  ELSE [status |-> "not_done", file |-> file]

PerformConnect(file) ==
  [status |-> IF "out" \in Mask(file) THEN "done" ELSE "not_done", file |-> file]

(* Without urgent data recv(MSG_OOB) fails, which finishes the operation.   *)
PerformOob(file) ==
  IF file.pri
  THEN [status |-> "done", file |-> [file EXCEPT !.pri = FALSE]]
  ELSE [status |-> "done_and_exhausted",
        file |-> IF file.end = "no" THEN file ELSE End(file, "except")]

Perform(c, file) ==
  CASE c = "recv"  -> PerformRecv(file)
    [] c = "send"  -> PerformSend(file, 2)
    [] c = "connect" -> PerformConnect(file)
    [] c = "oob"   -> PerformOob(file)
    [] c \in Waits -> [status |-> "done", file |-> file]

-----------------------------------------------------------------------------
(* object_pool<descriptor_state>.                                          *)

(* alloc(): from the free list, or a new object. *)
Alloc(d) ==
  /\ IF free # <<>> THEN d = Head(free) ELSE d \notin live
  /\ live' = live \cup {d}
  /\ free' = IF free # <<>> THEN Tail(free) ELSE free

(* free_descriptor_state *)
FreeState(d) ==
  /\ live' = live \ {d}
  /\ free' = <<d>> \o free

-----------------------------------------------------------------------------
(* Socket calls.                                                           *)

Open(k) == socket[k].fd # Null /\ ~socket[k].closing

QueuedOps(d) ==
  UNION {ToSet(state[d].op_queue[y]) : y \in Types}

Complete(ops, r) == result' = [o \in ReactorOps |-> IF o \in ops THEN r ELSE result[o]]

(* register_descriptor, from do_open() or, with a handle that may have been *)
(* duplicated, from do_assign().  events is what epoll accepted: nothing if *)
(* it does not support the descriptor (EPERM).                              *)
register_descriptor(k, f, d, assigned, dup, events) ==
  /\ socket[k].fd = Null /\ ~shutdown
  /\ ~kernel[f].open
  /\ Alloc(d)
  /\ state' = [state EXCEPT ![d] =
       [@ EXCEPT !.descriptor = f, !.shutdown = FALSE, !.registered_events = events,
                 !.try_speculative = [y \in Types |-> TRUE]]]
  /\ socket' = [socket EXCEPT ![k] =
       [fd |-> f, data |-> d, dup |-> assigned, closing |-> FALSE]]
  /\ kernel' = [kernel EXCEPT ![f] = [NoFile EXCEPT !.open = TRUE, !.dup = dup]]
  /\ IF events = {} THEN UNCHANGED <<epoll, ready>>
     ELSE Register(f, NoFile, d, events)
  /\ UNCHANGED <<shutdown, event_vars, op_vars>>

(* Any other error of epoll_ctl: do_open() gives up and closes the          *)
(* descriptor again; reactor_data_ keeps the descriptor_state.              *)
RegisterFails(k, f, d) ==
  /\ socket[k].fd = Null /\ ~shutdown
  /\ ~kernel[f].open
  /\ Alloc(d)
  /\ state' = [state EXCEPT ![d] =
       [@ EXCEPT !.descriptor = f, !.shutdown = FALSE, !.registered_events = {"in", "pri"},
                 !.try_speculative = [y \in Types |-> TRUE]]]
  /\ socket' = [socket EXCEPT ![k].data = d]
  /\ UNCHANGED <<shutdown, event_vars, op_vars, kernel_vars>>

(* start_op puts the operation on its queue ... *)
Push(d, o, y, file, events, spec) ==
  /\ state' = [state EXCEPT ![d] =
       [@ EXCEPT !.op_queue[y] = Append(state[d].op_queue[y], o),
                 !.registered_events = events, !.try_speculative[y] = spec]]
  /\ result' = [result EXCEPT ![o] = "queued"]
  /\ kernel' = [kernel EXCEPT ![state[d].descriptor] = file]

(* ... or completes it at once. *)
Finish(d, o, y, file, spec, r) ==
  /\ state' = [state EXCEPT ![d].try_speculative[y] = spec]
  /\ result' = [result EXCEPT ![o] = r]
  /\ kernel' = [kernel EXCEPT ![state[d].descriptor] = file]
  /\ UNCHANGED <<epoll, ready>>

(* Mutant: an operation is tried although others of its type wait. *)
TryOutOfTurn(d, y) == y # "read" \/ state[d].op_queue["except"] = <<>>

(* Whether start_op tries the operation before queueing it. *)
MayTry(d, y) ==
  /\ state[d].op_queue[y] = <<>>
  /\ y # "read" \/ state[d].op_queue["except"] = <<>>

(* The first operation of its type that cannot be tried makes epoll look    *)
(* again; a write that did not succeed does so the first time only.         *)
Events(d, y) == state[d].registered_events \cup (IF y = "write" THEN {"out"} ELSE {})

(* A write that was tried without success asks for EPOLLOUT the first time; *)
(* this epoll_ctl is the one whose failure is reported.                     *)
AddsOut(d, y, tried) == tried /\ y = "write" /\ "out" \notin state[d].registered_events

(* Mutant: EPOLLOUT is never asked for. *)
NoRegisterAgain(d, y, tried, file) == UNCHANGED <<epoll, ready>>

RegisterAgain(d, y, tried, file) ==
  LET f == state[d].descriptor IN
  IF state[d].op_queue[y] = <<>>
       /\ (~tried \/ AddsOut(d, y, tried))
  THEN Register(f, file, d, Events(d, y))
  ELSE UNCHANGED <<epoll, ready>>

(* start_op under the descriptor's mutex. *)
StartOp(d, o, c, y) ==
  LET tries == c \in Speculative /\ MayTry(d, y)
      file == kernel[state[d].descriptor]
      spec == state[d].try_speculative[y]
      p == IF tries /\ spec THEN Perform(c, file) ELSE [status |-> "not_done", file |-> file]
      supported == state[d].registered_events # {}
  IN  IF p.status # "not_done"
      THEN Finish(d, o, y, p.file, IF p.status = "done_and_exhausted" /\ supported
                                   THEN FALSE ELSE spec, "ok")
      ELSE IF ~supported /\ state[d].op_queue[y] = <<>>
      THEN Finish(d, o, y, file, spec, "error")
      ELSE \/ AddsOut(d, y, tries) /\ Finish(d, o, y, file, spec, "error")
           \/ Push(d, o, y, file,
                   IF state[d].op_queue[y] = <<>> THEN Events(d, y)
                   ELSE state[d].registered_events, spec)
              /\ RegisterAgain(d, y, tries, file)

start_op(k, o, c) ==
  LET d == socket[k].data
      y == KindType[c]
  IN  /\ result[o] = "fresh" /\ socket[k].fd # Null /\ ~socket[k].closing
      /\ op' = [op EXCEPT ![o] = [kind |-> c, socket |-> socket[k].fd]]
      /\ IF state[d].shutdown
         THEN result' = [result EXCEPT ![o] = "posted"] /\ UNCHANGED <<state, kernel_vars>>
         ELSE StartOp(d, o, c, y)
      /\ UNCHANGED <<socket, pool_vars, shutdown, event_vars>>

(* Mutant: the operations are posted and stay on the queue. *)
CancelWithoutPop(k) ==
  /\ Open(k)
  /\ Complete(QueuedOps(socket[k].data), "aborted")
  /\ UNCHANGED <<socket, state, pool_vars, shutdown, event_vars, op, kernel_vars>>

cancel_ops(k) ==
  LET d == socket[k].data IN
  /\ Open(k)
  /\ Complete(QueuedOps(d), "aborted")
  /\ state' = [state EXCEPT ![d].op_queue = [y \in Types |-> <<>>]]
  /\ UNCHANGED <<socket, pool_vars, shutdown, event_vars, op, kernel_vars>>

(* Mutant: the pointer to a state that shutdown() freed is kept. *)
KeepData(k) == socket[k].data

(* The state was freed by shutdown() already: cleanup_descriptor_data must  *)
(* not free it again.                                                       *)
DataAfterShutdown(k) == Null

(* Mutant: every descriptor is expected to leave epoll when it is closed. *)
AlwaysClosing(k, how) == how # "release"

(* deregister_descriptor's parameter closing. *)
ClosesFile(k, how) == how # "release" /\ ~socket[k].dup

(* close(), the destructor and release(): deregister_descriptor ...         *)
deregister_descriptor(k, how) ==
  LET d == socket[k].data IN
  /\ Open(k)
  /\ IF ~state[d].shutdown
     THEN /\ IF ~ClosesFile(k, how) /\ state[d].registered_events # {}
             THEN Unregister(socket[k].fd) ELSE UNCHANGED <<epoll, ready>>
          /\ Complete(QueuedOps(d), "aborted")
          /\ state' = [state EXCEPT ![d] =
               [@ EXCEPT !.op_queue = [y \in Types |-> <<>>], !.descriptor = Null,
                         !.shutdown = TRUE]]
          /\ socket' = [socket EXCEPT ![k].closing = TRUE]
     ELSE /\ socket' = [socket EXCEPT ![k].closing = TRUE, ![k].data = DataAfterShutdown(k)]
          /\ UNCHANGED <<state, result, epoll, ready>>
  /\ kernel' = [kernel EXCEPT ![socket[k].fd].dup = @ \/ how = "release"]
  /\ UNCHANGED <<pool_vars, shutdown, event_vars, op>>

(* ... then the file is closed, and cleanup_descriptor_data.  A file that   *)
(* is open elsewhere too stays in epoll unless it was removed: what epoll   *)
(* keeps for it is then a pointer to a descriptor_state that was freed.     *)
FinishClose(k) ==
  LET f == socket[k].fd IN
  /\ socket[k].closing
  /\ IF OpenElsewhere(kernel[f]) THEN UNCHANGED kernel_vars
     ELSE kernel' = [kernel EXCEPT ![f] = NoFile] /\ Unregister(f)
  /\ IF socket[k].data # Null THEN FreeState(socket[k].data) ELSE UNCHANGED pool_vars
  /\ socket' = [socket EXCEPT ![k] = Closed]
  /\ UNCHANGED <<state, shutdown, event_vars, op_vars>>

(* What is left of a file when a handle elsewhere is closed. *)
Leave(f, file) ==
  /\ IF OpenElsewhere(file) \/ \E k \in Sockets : socket[k].fd = f
     THEN kernel' = [kernel EXCEPT ![f] = file] /\ UNCHANGED <<epoll, ready>>
     ELSE kernel' = [kernel EXCEPT ![f] = NoFile] /\ Unregister(f)
  /\ UNCHANGED <<socket, state, pool_vars, shutdown, event_vars, op_vars>>

CloseDuplicate(f) == kernel[f].dup /\ Leave(f, [kernel[f] EXCEPT !.dup = FALSE])
OtherProcessCloses(f) == kernel[f].forked /\ Leave(f, [kernel[f] EXCEPT !.forked = FALSE])

(* base_move_construct and move_descriptor: k is a new object. *)
move_descriptor(k, other) ==
  /\ socket[k] = Closed /\ Open(other)
  /\ socket' = [socket EXCEPT ![k] = socket[other], ![other] = Closed]
  /\ UNCHANGED <<state, pool_vars, shutdown, event_vars, op_vars, kernel_vars>>

-----------------------------------------------------------------------------
(* The reactor.                                                            *)

(* epoll_wait: the ready list is emptied, what is ready now is returned. *)
EpollWait ==
  LET reported == {f \in ready : Reported(f) # {}} IN
  /\ batch = {} /\ enqueued = {} /\ reported # {} /\ ~shutdown
  /\ batch' = {[ptr |-> epoll[f].ptr, events |-> Reported(f)] : f \in reported}
  /\ ready' = {}
  /\ UNCHANGED <<socket, state, pool_vars, shutdown, enqueued, performing, op_vars,
                 kernel, epoll>>

(* The loop over the events.  set_ready_events and add_ready_events keep    *)
(* them in task_result_, which is only read while the state is queued.      *)
Dispatch ==
  /\ batch # {}
  /\ batch' = {}
  /\ enqueued' = {[e EXCEPT !.events = UNION {b.events : b \in {b \in batch : b.ptr = e.ptr}}]
                    : e \in batch}
  /\ UNCHANGED <<socket, state, pool_vars, shutdown, performing, op_vars, kernel_vars>>

(* A thread takes the descriptor operation from the scheduler's queue. *)
PopDescriptor(t, e) ==
  /\ performing[t].ptr = Null
  /\ enqueued' = enqueued \ {e}
  /\ performing' = [performing EXCEPT ![t] = e]
  /\ UNCHANGED <<socket, state, pool_vars, shutdown, batch, op_vars, kernel_vars>>

(* The inner loop of perform_io over the operations of one type. *)
TryNext(s, o) ==
  LET p == Perform(op[o].kind, s.file) IN
  IF s.stop THEN [s EXCEPT !.rest = Append(@, o)]
  ELSE IF p.status = "not_done"
  THEN [s EXCEPT !.stop = TRUE, !.rest = Append(@, o)]
  ELSE [s EXCEPT !.file = p.file, !.done = @ \cup {o},
                 !.stop = (p.status = "done_and_exhausted"),
                 !.spec = (p.status # "done_and_exhausted")]

Concerns(y, events) == Flag[y] \in events \/ "hup" \in events

(* What the loop has done after the first n operations of the queue q. *)
PerformQueue(q, file, done) ==
  LET after[n \in 0..Len(q)] ==
        IF n = 0 THEN [file |-> file, done |-> done, rest |-> <<>>, stop |-> FALSE,
                       spec |-> TRUE]
        ELSE TryNext(after[n - 1], q[n])
  IN  after[Len(q)]

(* perform_io for one type: s collects what the ones before have done. *)
PerformType(s, y, events) ==
  IF ~Concerns(y, events) THEN s
  ELSE LET r == PerformQueue(s.op_queue[y], s.file, s.done)
       IN  [file |-> r.file, done |-> r.done,
            op_queue |-> [s.op_queue EXCEPT ![y] = r.rest],
            spec |-> [s.spec EXCEPT ![y] = r.spec]]

(* Exception operations come first, so that out-of-band data is read before *)
(* normal data.                                                             *)
PerformAll(s, events) ==
  PerformType(PerformType(PerformType(s, "except", events), "write", events), "read", events)

perform_io(t) ==
  LET d == performing[t].ptr
      f == state[d].descriptor
      start == [file |-> IF f = Null THEN NoFile ELSE kernel[f], done |-> {},
                op_queue |-> state[d].op_queue, spec |-> state[d].try_speculative]
      s == PerformAll(start, performing[t].events)
  IN  /\ performing[t].ptr # Null
      /\ state' = [state EXCEPT ![d].op_queue = s.op_queue, ![d].try_speculative = s.spec]
      /\ kernel' = IF f = Null THEN kernel ELSE [kernel EXCEPT ![f] = s.file]
      /\ Complete(s.done, "ok")
      /\ performing' = [performing EXCEPT ![t] = [ptr |-> Null, events |-> {}]]
      /\ UNCHANGED <<socket, pool_vars, shutdown, batch, enqueued, op, epoll, ready>>

(* ~io_context: nobody runs the loop any more.  The scheduler destroys the  *)
(* queued descriptor operations, the reactor the operations it holds.       *)
Shutdown ==
  /\ ~shutdown
  /\ batch = {} /\ \A t \in Threads : performing[t].ptr = Null
  /\ \A k \in Sockets : ~socket[k].closing
  /\ shutdown' = TRUE
  /\ enqueued' = {}
  /\ Complete(UNION {QueuedOps(d) : d \in live}, "destroyed")
  /\ state' = [d \in States |->
       IF d \in live THEN [state[d] EXCEPT !.shutdown = TRUE,
                                           !.op_queue = [y \in Types |-> <<>>]]
       ELSE state[d]]
  /\ live' = {}
  /\ \E order \in SetToSeqs(live) : free' = order \o free
  /\ UNCHANGED <<socket, batch, performing, op, kernel_vars>>

(* fork(): both processes have all files; nobody runs the loop meanwhile.   *)
Fork ==
  /\ ~shutdown /\ batch = {} /\ \A t \in Threads : performing[t].ptr = Null
  /\ \A k \in Sockets : ~socket[k].closing
  /\ kernel' = [f \in Fds |-> [kernel[f] EXCEPT !.forked = kernel[f].open]]
  /\ UNCHANGED <<socket, state, pool_vars, shutdown, event_vars, op_vars>>

(* Mutant: the child's epoll set stays empty. *)
ForkForgets(fork_ev) ==
  Fork /\ epoll' = [f \in Fds |-> NoRegistration] /\ ready' = {}

(* The child makes a new epoll set; the parent keeps its own.  A state that *)
(* epoll did not accept makes the child throw and is left out here.         *)
notify_fork(fork_ev) ==
  LET file(d) == state[d].descriptor
      registered == {file(d) : d \in live}
  IN  /\ Fork
      /\ \/ fork_ev = "fork_parent" /\ UNCHANGED <<epoll, ready>>
         \/ /\ fork_ev = "fork_child"
            /\ \A d \in live : /\ state[d].registered_events # {}
                               /\ \E k \in Sockets : Open(k) /\ socket[k].data = d
            /\ epoll' = [f \in Fds |->
                 IF f \in registered
                 THEN LET d == CHOOSE d \in live : file(d) = f
                      IN  [ptr |-> d, events |-> state[d].registered_events]
                 ELSE NoRegistration]
            /\ ready' = {f \in registered :
                           Mask(kernel[f]) \cap (epoll'[f].events \cup {"hup"}) # {}}

-----------------------------------------------------------------------------
SocketCall(k) ==
  \/ \E f \in Fds, d \in States :
       \/ register_descriptor(k, f, d, FALSE, FALSE, {"in", "pri"})
       \/ "assign" \in Calls /\ \E dup \in BOOLEAN, events \in {{}, {"in", "pri"}} :
            register_descriptor(k, f, d, TRUE, dup, events)
       \/ "fail" \in Calls /\ RegisterFails(k, f, d)
  \/ \E o \in ReactorOps, c \in Kinds : start_op(k, o, c)
  \/ cancel_ops(k)
  \/ \E how \in {"close", "release"} \cap Calls : deregister_descriptor(k, how)
  \/ FinishClose(k)
  \/ "move" \in Calls /\ \E other \in Sockets \ {k} : move_descriptor(k, other)

KernelStep(f) ==
  Arrive(f) \/ Drain(f) \/ Urgent(f) \/ PeerCloses(f) \/ PeerResets(f)
    \/ CloseDuplicate(f) \/ OtherProcessCloses(f)

ReactorStep ==
  \/ EpollWait \/ Dispatch
  \/ \E t \in Threads : perform_io(t) \/ \E e \in enqueued : PopDescriptor(t, e)

Next ==
  \/ \E k \in Sockets : SocketCall(k)
  \/ \E f \in Fds : KernelStep(f)
  \/ ReactorStep
  \/ "shutdown" \in Calls /\ Shutdown
  \/ "fork" \in Calls /\ \E fork_ev \in {"fork_parent", "fork_child"} : notify_fork(fork_ev)

Spec == Init /\ [][Next]_vars

-----------------------------------------------------------------------------
(* Properties.                                                             *)

(* Every field has the type of its declaration. *)
TypeOK ==
  /\ socket \in [Sockets -> [fd : Fds \cup {Null}, data : States \cup {Null},
                             dup : BOOLEAN, closing : BOOLEAN]]
  /\ \A d \in States :
       /\ state[d].descriptor \in Fds \cup {Null}
       /\ state[d].registered_events \subseteq {"in", "out", "pri"}
       /\ state[d].op_queue \in [Types -> Seq(ReactorOps)]
       /\ state[d].try_speculative \in [Types -> BOOLEAN]
       /\ state[d].shutdown \in BOOLEAN
  /\ live \subseteq States /\ ToSet(free) \subseteq States
  /\ result \in [ReactorOps -> {"fresh", "queued", "ok", "error", "aborted", "posted",
                                "destroyed"}]
  /\ \A e \in batch \cup enqueued : e.ptr \in States
  /\ \A f \in Fds : kernel[f].avail \in Nat /\ kernel[f].space \in Nat

(* Events that let an operation of type y finish: its own, and a hang-up. *)
ReadyFor(y, events) == events \cap {Flag[y], "hup"} # {}

(* Such events are on their way to perform_io for state d. *)
OnTheWay(d, y) ==
  \/ \E e \in batch \cup enqueued : e.ptr = d /\ ReadyFor(y, e.events)
  \/ \E t \in Threads : performing[t].ptr = d /\ ReadyFor(y, performing[t].events)

(* An operation of type y waits on socket k, which is ready for it. *)
WaitsThoughReady(k, y) ==
  LET d == socket[k].data IN
  /\ Open(k) /\ ~state[d].shutdown /\ state[d].op_queue[y] # <<>>
  /\ ReadyFor(y, Mask(kernel[socket[k].fd]))

(* epoll will report the socket, or such an event is on its way already. *)
WillBePerformed(k, y) ==
  \/ /\ socket[k].fd \in ready /\ epoll[socket[k].fd].ptr = socket[k].data
     /\ ReadyFor(y, Reported(socket[k].fd))
  \/ OnTheWay(socket[k].data, y)

(* No readiness is lost to edge-triggering: until an operation has reported *)
(* the end of the connection, whoever waits on a descriptor that is ready   *)
(* for it will be performed: epoll will report the descriptor, or an event  *)
(* for it is on its way to perform_io.                                      *)
ReadinessNotLost ==
  \A k \in Sockets, y \in Types :
    WaitsThoughReady(k, y) /\ y \notin kernel[socket[k].fd].seen => WillBePerformed(k, y)

(* The same after the end as well: "The reactor operation will be performed *)
(* when the given descriptor is flagged as ready, or an error has           *)
(* occurred."                                                               *)
ReadyIsPerformed ==
  \A k \in Sockets, y \in Types : WaitsThoughReady(k, y) => WillBePerformed(k, y)

(* The pool never holds a descriptor_state twice, a socket in use has a     *)
(* live one unless the reactor was shut down, and no two sockets share one. *)
PoolSound ==
  /\ IsInjective(free) /\ ToSet(free) \cap live = {}
  /\ \A k \in Sockets : socket[k].fd # Null /\ socket[k].data # Null
                          => socket[k].data \in live \/ shutdown
  /\ \A j, k \in Sockets : j # k /\ socket[j].fd # Null /\ socket[j].data # Null
                             => socket[j].data # socket[k].data

(* Epoll reports a file only with the pointer to the descriptor_state of    *)
(* the socket that has it.                                                  *)
HasOwner(f) == \E k \in Sockets : socket[k].fd = f /\ socket[k].data = epoll[f].ptr

(* Once a descriptor_state may be given to another socket, epoll does not   *)
(* report events with a pointer to it any more: a handle that was assigned, *)
(* or released, is removed from epoll, and any other leaves it when it is   *)
(* closed.  The last is what deregister_descriptor says, "The descriptor    *)
(* will be automatically removed from the epoll set when it is closed", and *)
(* it is false after a fork: a socket that is closed while another process  *)
(* has its file leaves the freed pointer behind until that process closes   *)
(* the file too.  Nothing else does.  After shutdown() nobody asks.         *)
NoDanglingRegistration ==
  ~shutdown => \A f \in Fds : epoll[f].ptr # Null =>
    HasOwner(f) \/ (kernel[f].forked /\ \A k \in Sockets : socket[k].fd # f)

(* An operation waits on exactly one queue, that of the state of an open    *)
(* socket: close(), cancel(), a move and shutdown leave none behind.        *)
NoStrandedOp ==
  \A o \in ReactorOps :
    LET at == {d \in States : o \in QueuedOps(d)} IN
    /\ Cardinality(at) = (IF result[o] = "queued" THEN 1 ELSE 0)
    /\ \A d \in at : \E k \in Sockets : Open(k) /\ socket[k].data = d
                                          /\ state[d].descriptor = socket[k].fd

(* Operations of one type on one socket succeed in the order they were      *)
(* started: start_op does not let one overtake those that wait, nor does    *)
(* perform_io.                                                              *)
FirstComeFirstServed ==
  [][\A d \in States, y \in Types :
       LET q == state[d].op_queue[y] IN
       /\ \A i, j \in DOMAIN q :
            i < j /\ result'[q[j]] = "ok" => result'[q[i]] # "queued"
       /\ \A o \in ReactorOps :
            result[o] = "fresh" /\ result'[o] = "ok" /\ KindType[op'[o].kind] = y
              /\ op'[o].socket = state[d].descriptor => q = <<>>]_vars
=============================================================================
