# Verification of asio_simply

TLA+ models of this standalone Asio: the scheduler behind `io_context`, timers, the epoll
reactor, sockets and acceptors, the resolver, composed reads and writes, socket streams,
services and executors, and the value types with an algorithm behind them (buffers,
socket options, networks). TLC checks them on small instances; TLAPS proves the invariants of
the scheduler, the epoll reactor, the timers, the socket classes, the resolver, connect,
`run_one_until`, socket streams, the service registry, socket options and executors for any number
of threads, handlers, descriptors, sockets, timers, waits, lookups, endpoints, bytes, services and
contexts. Paths below are relative to `src/include/asio/`.

## 1. The system

| Part | State | Operations | Where it is modelled |
|---|---|---|---|
| scheduler (`core/scheduler`) | `op_queue_`, the marker `task_operation_`, `task_interrupted_`, atomic `outstanding_work_`, `stopped_`, `shutdown_`, per-thread private queue and work count | run, run_one, wait_one, poll, poll_one, post/defer, stop, restart, work_started/finished, shutdown | `Scheduler` |
| posix_event and mutex (`detail/base`) | `state_` = signalled bit + 2 x waiters | clear, wait, wait_for_usec, signal_all, maybe_unlock_and_signal_one | `Scheduler`, `TimedWait` |
| io_context (`core/impl/io_context.hpp`) | none of its own | run_for, run_until, run_one_for, run_one_until, executor post/defer/dispatch | `Scheduler`, `TimedWait`, `Executor` |
| timer_queue (`detail/reactor/timeQueue`) | binary heap, doubly linked list, per-timer queue of operations | enqueue, cancel, move, ready, all, wait_duration | `TimerQueue`, `TimerHeap` |
| deadline_timer_service (`service/timer`) | expiry, `might_have_pending_waits`, per_timer_data | construct, destroy, moves, cancel, cancel_one, expires_at, async_wait | `TimerService` |
| epoll_reactor, object_pool (`detail/reactor/poll`) | epoll set, timerfd, interrupter, `descriptor_state` pool, `shutdown_` | register, start_op, cancel_ops, deregister, move, run, timers, interrupt, notify_fork, shutdown | descriptors `EpollReactor`, timers `TimerService`, run/interrupt `Scheduler` |
| sockets and acceptors (`network`) | `socket_`, `state_` flags, pending operations, the accept operation's `socket_holder` | every member function of basic_socket, basic_stream/datagram/raw_socket, basic_socket_acceptor; `do_perform`, `do_complete` | `Socket`, `SocketOps` |
| socket options | one or two representations of a value | construct, set_option, get_option | `SocketOptions` |
| resolver (`network/resolver_service*`, `ip/basic_resolver.hpp`) | cancel token of each resolver, worker io_context, work guard, worker thread | resolve, async_resolve, cancel, moves, fork, shutdown | `Resolver` |
| composed operations (`transmit`) | loop variables or members of an operation object, consuming_buffers | read, write, read_until, connect and their async forms | `ComposedOps`, `Connect`, `StreamCall` |
| buffers (`buffer`) | index and offset of consuming_buffers, size and limit of dynamic buffers, iterator | prepare, consume, commit, grow, shrink, copy, ++, -- | `Buffers`, `BufferWalk` |
| socket streams (`network/basic_socket_streambuf.hpp`) | get and put areas, expiry, socket | connect, close, underflow, overflow, sync, setbuf, expiry, moves | `SocketStream` |
| execution_context, service_registry (`core`) | list of services, mutex | use, add, make, has, fork, shutdown, destroy | `ServiceRegistry` |
| executor, post/defer/dispatch, bind_executor, thread_pool, system_context | reference counts, work guards, threads | copy, move, assign, swap, submit, invoke, stop, join, destroy | `Executor` |
| networks and address ranges (`ip`) | iterator | netmask, hosts, is_subnet_of, ++, --, find, size | `IpNetwork` |
| select_reactor, timer_queue_set, memory recycling, error codes, configuration | | | not modelled, section 7 |

How they interact. User code and handlers call the services; a service hands an operation
to the reactor (`start_op`, `schedule_timer`) or straight to the scheduler
(`post_immediate_completion`). One thread at a time pops `task_operation_` and runs
`epoll_reactor::run`, which fills that thread's private queue with timer operations and
`descriptor_state` objects; `task_cleanup` moves them to the shared queue, with the marker
behind them. A thread that pops a `descriptor_state` calls `perform_io`, which performs the
queued operations, invokes the first that is done and posts the others. `interrupt()` is
how another thread gets the reactor out of `epoll_wait`. The resolver has a second
io_context with a thread of its own; a lookup travels from the program to that one and
back. Composed operations start the next part from the handler of the previous one.
Services are created by whoever needs them first, under a lock that constructors do not hold.

What is hard: the lost-wakeup protocol between event, reactor interrupt and
`task_interrupted_`; work counts that threads adjust late and outside the lock; edge-triggered
events combined with speculative operations; `descriptor_state` objects and timers that are
freed, reused or moved while something still points to them; a level-triggered timerfd set
from several places; descriptors that pass between the kernel, an accept operation and a
socket object that was opened meanwhile; blocking calls on a descriptor the reactor has made
non-blocking; lookups that are cancelled, forked under or shut down; transfers cut into
parts at any byte. The `hazards` list of `PROJECT.json` has each of these at its line.

## 2. Modules

**Scheduler** – one action per critical section of `mutex_`. Where the code keeps the lock
from one iteration to the next (both cleanup objects re-acquire it), `mutex` holds the
thread; atomic updates outside the lock and the `pthread_cond_signal` after an unlock are
steps of their own (`post_immediate_completion` / `PostQueue`, `work_cleanup` / `stop` /
`Requeue`, `signal_one` / `CondSignal`). `pc` names the place in the code: `loop` is the
head of `do_run_one` or `do_poll_one`, `polled` the point after the task in `do_wait_one`
and `do_poll_one`, `waited` the point after the timed wait. The reactor is a blocking call that
returns any sequence of pending operations and descriptors (`TaskReturn`), is ended by
`interrupted`, or fails with EINTR (`TaskEintr`). `one_thread` is chosen by `Init`, as
the constructor derives it from the concurrency hint. `pending_io` stands for whatever a
reactor or timer queue holds; its internals are the other modules.

**TimerQueue** – operators only: a queue is a record of heap, list root and the
`per_timer_data` fields of all timers. The loops of `up_heap`, `down_heap`, `get_ready_timers` and
`get_all_timers` are functions `after[n]`, the state after n iterations. **TimerHeap** drives it alone, against a plain set
of timers.

**TimerService** extends TimerQueue – timers that belong to services, their queues, and the
reactor thread (`EnterWait`, `Wake`, `WakeForIo`, `CheckTimers`) with a timerfd, or with a timeout
chosen before `epoll_wait` when `timerfd_create` failed (`has_timerfd`). A timer
object is not shared between threads, so that a call on it is one step.

**EpollReactor** – sockets, `descriptor_state` objects and their pool, the kernel's side of
a connection and its epoll registration. `start_op`, `cancel_ops`, `deregister_descriptor`
and `perform_io` are one step each, since they hold the descriptor's mutex; `EpollWait`,
`Dispatch`, `PopDescriptor` and `perform_io` are separate, as are the two halves of `close()`
(`deregister_descriptor`, `FinishClose`). The loops of `perform_io` are `PerformAll` over the types
and `PerformQueue` over the operations of one. The kernel is external: an edge puts a file on
the ready list, EPOLL_CTL_ADD and MOD look at the file again, closing the last handle
removes the registration. `notify_fork` is the end of a fork, in the parent or in the child: the
other process has every open file from then on, until `OtherProcessCloses` it, so that `close()`
of a socket need not remove the registration.

**SocketOps** – operators only: `socket_ops`. A descriptor is a record (mode, linger, what can
be read, room to send, directions shut, connection); a system call is the set of outcomes
it may have on one, and each function of `socket_ops` says what the library makes of an
outcome. **Socket** extends it – objects of the five socket classes with their flags, the
descriptors of the kernel, operation objects and the program's thread. A blocking call is
a loop of tries and polls, one step each (`SyncTry`, `SyncAccept`, `PollReturns`), between which the
reactor and the network go on. `Perform…` and `CompleteAccept` are `do_perform` and
`do_complete`; a connection accepted for an object waits in the operation (`new`) until then.
When the reactor tries an operation is the subject of `EpollReactor`; here it may at any time.
A program is which functions it calls for which object; the public functions are actions of
their own (`acceptor_accept_endpoint`, `datagram_send_to`, …) over the service calls.

**SocketOptions** – one option object, a socket of each family and the kernel's value, with the
representation (char, int, struct) each side uses.

**Resolver** – resolvers as tokens, the operations, the worker io_context with its thread, the
main io_context. `start_resolve_op` is two steps, since the work count is raised before the
operation is queued; a fork is prepare, join, and parent or child; `base_shutdown` is
stop, join and destruction. The two schedulers are a queue, a work count and
a stopped flag, which is what `Scheduler` shows of them from outside. A handler may have an executor
of its own, whose work is counted (`bound`); a resolver that was moved from is used again, if
`MovedFrom` says so.

**Buffers** – operators only, over a flat memory: `std::size_t` wraps at `SizeMod`.
**BufferWalk** walks `buffers_iterator` and calls `buffer_copy`. **ComposedOps** extends Buffers –
one call of read, write or read_until, blocking or asynchronous, over a buffer sequence or
a dynamic buffer. The stream is external: it transfers any part of what it is asked for,
reports the end, or fails. **StreamCall** is the abstract specification: bytes move from a
source to a sink in order until a result is reported. ComposedOps implements it under the
mapping `Call_` (property `TransfersInOrder`).

**Connect** – the blocking loop, `range_connect_op` and `iterator_connect_op` over positions of
an endpoint sequence; a connect condition is the set of positions it accepts. The owner may close
or cancel while an attempt is pending.

**SocketStream** – streambufs with get and put areas, the blocking loops of connect, underflow
and overflow, the clock and the peer. Bytes are numbers in the order they are written, so
that a loss or a repetition shows.

**ServiceRegistry** – a call of `use_service` is a stack of calls, since constructors ask for
other services; what happens under the mutex is one action.

**Executor** – variables of type `executor`, their reference-counted implementations, and
three kinds of contexts, each with a queue and one thread; handlers are submitted with or without
an executor bound to them, in which case a `work_dispatcher` carries them on.

**IpNetwork** – networks of both families with the width of a byte and the number of bytes
as parameters, and a walk over `hosts()`.

**TimedWait** – the loop of `run_one_until` around `posix_event::wait_for_usec`, with the
arithmetic of the `timespec` as the code writes it. Time is counted in ticks. Each round reads the
clock twice, in the loop (`Round`) and in `wait_for_usec` (`wait_one`), and time may pass between them.

**MCScheduler, MCTimerService, MCEpollReactor** hold the definitions their configurations
name. **MCSchedulerPrograms** has two instances of Scheduler on the same variables, for two
programs of which TLC follows one; `sched_live` follows the first alone, with Scheduler's fairness.
TLC's action coverage names a wrapped step by its wrapper (`In`); the nested counts of
`tlc -coverage 1` on `sched_run` show that every action of Scheduler is taken there, `restart`,
guards, throwing handlers, `PolledNothing` and `Shutdown` included. **MCObjects** and **MCCalls** instantiate several modules that share no variable; `part`,
chosen by the initial state, says which one moves, so that one run asks the questions about all of
them without multiplying their states. **SchedulerProof**, **EpollReactorProof**, **TimerServiceProof**,
**SocketProof**, **ObjectsProof** (what `MCObjects` has beside sockets), **ResolverProof** and
**CallsProof** (what `MCCalls` has) have the proofs, **InductionFacts** the induction they use.

Operators introduced by "Mutant:" are wrong versions of the definition after them,
used to confirm that a property notices the mistake; no specification uses them.

## 3. Runs

| Run | Instance | Shows |
|---|---|---|
| `sched_run` | one of two programs: 3 threads, both values of `one_thread`, run, post, defer, start_io, cancel, stop, restart, guards; or two of the threads, every loop call, handlers that throw, stop, restart, destruction. 2 handlers, 1 descriptor, 1 guard | `TypeOK`, `TaskToken`, `DescriptorsDequeued`, `NoLostWakeup`, `WorkBalance`, `ExactlyOnce`: also when threads leave the loop after one operation or by an exception, and when the io_context is destroyed with operations queued |
| `sched_live` | 2 threads in run(), fair | `QueuedIsInvoked`, `StopReleasesAll`, `RunReturnsWhenIdle` |
| `sched_strand` | run() and run_one(), defer | **violated**: `QueuedIsInvoked`, finding 1 |
| `timer_move` | 3 timers, 2 services, 2 waits, moves, shutdown | `QueuesConsistent`, `NoDanglingTimer`, `WaitingOnce`, `FlagCoversWaits` |
| `timer_live` | 2 timers, 2 waits, 3 points in time, with and without timerfd, fair | `NotOverslept`, `NeverEarly`, `NoBusyTimer`, `WaitEnds` |
| `reactor_queue` | 1 socket, 3 operations of 5 kinds, 2 threads, peers that close or reset, out-of-band data | `ReadinessNotLost`, `NoStrandedOp`, `FirstComeFirstServed` |
| `reactor_life` | 2 sockets, 2 descriptor states, 1 operation, every other socket call, fork, shutdown | `ReadinessNotLost`, `PoolSound`, `NoDanglingRegistration`, `NoStrandedOp` |
| `reactor_eof` | 1 socket, receives only | **violated**: `ReadyIsPerformed`, finding 2 |
| `objects` | one part at a time, see below | `OneOwner`, `FlagsTrue`, `NoOrphans`, `ModeHonoured`, `OptionReadsBack`, `RegistrySound`, `NetworksSound`, `HeapSound`, `ExecutorsSound` |
| `calls` | one part at a time, fair, see below | `TransfersSound`, `TransfersInOrder`, `ConnectSound`, `LookupsSound`, `StreamInOrder`, `ZeroMeansTimeIsUp`, `CallsEnd` |
| `wait_early` | 4 ticks to a second, 12 points in time | **violated**: `WaitsAsLongAsAsked`, finding 3 |
| `nonblocking` | the sockets of `objects` | **violated**: `AsyncUnaffected`, finding 4 |

`objects`:
* sockets – sixteen programs over three objects and three descriptors: a server that accepts
  while its sockets are closed, released, assigned, moved and destroyed; a listener with modes and
  options; waits; moves of acceptors, datagram and raw sockets; and a client, a receiver and
  a sender of each type, with up to two operations in competition with a blocking call.
  `OneOwner`: no descriptor is leaked or has two owners. `FlagsTrue`: the flags describe the
  descriptor, and nothing but the program's own change of mode makes it blocking under a pending
  operation (`AsyncUnaffected` is about that change). `NoOrphans`: nothing is pending on a descriptor
  no object has. `ModeHonoured`: a blocking socket never reports would_block, eof is the end of
  a stream, and a non-blocking socket does not wait, except in `connect()` and `accept()` (findings 5, 6).
* options – all options on an IPv4 and an IPv6 socket, values up to `MaxHops` = 3 for 255.
* services – two threads (`Callers`), a service that uses another (`Services`, `Uses`), three objects
  (`MaxObjects`), fork and destruction.
* networks – every network of addresses of two bytes of two bits, every walk.
* heap – six timers, three expiry times.
* execute – an io_context, a thread pool and the system context, two variables, two implementations,
  one handler, bound or not.

`calls`:
* composed – seven buffer sequences with empty buffers at every place, six completion
  conditions, dynamic buffers below, at and above their limit, delimiters of one to three bytes that
  arrive in parts; every way the stream can cut the data.
* walk – every layout of up to three buffers of up to two bytes.
* connect – up to three endpoints, every condition, close and cancel at any moment. `ConnectSound` has
  the exception of finding 7.
* resolve – two resolvers, also after they were moved from, a lookup of each kind, whose handlers have an
  executor of their own, one fork, shutdown at any moment. `LookupsSound` has three exceptions
  that contradict the documentation (findings 8 to 10).
* stream – two streambufs (`Streams`), two bytes each way (`MaxOut`, `MaxIn`), put area of two
  (`PutSize`), one unit of time (`LastExpiry`).
* wait – four ticks to a second, 12 points in time. `ZeroMeansTimeIsUp` also says how far past its
  end a round may sleep: by what the clock advanced between its two readings. No tighter bound holds,
  since `wait_for_usec` adds the relative time to a later now.

Deadlock checking is off in all runs: a program may make no further call, and
operations and time are used up. That nothing waits for ever is what `CallsEnd`, `WaitEnds`,
`QueuedIsInvoked`, `StopReleasesAll` and `RunReturnsWhenIdle` say.

Bounds, and why they are enough. Three threads are one in the reactor, one asleep in the event and one
that posts: the roles of the wakeup protocol. Two handlers allow one to be running while
another is queued, deferred or in flight; handlers and timer waits are started at most once, which
bounds the counters. A wrong sift direction in `remove_timer` needs a heap of six entries.
Three timers, two of which may wait, make a queue to
whose list and heap a third can be moved, from either end; that an entry in the middle of a longer
list is unlinked correctly is proved (`QueuesStayConsistent`) and checked of six timers by `HeapSound`. Two descriptor states and two sockets are the smallest case in which a
state is reused while an event for its former owner is on its way. `MaxAvail = 2` is the smallest at
which a send of two units may be cut short or complete. Three descriptors are an acceptor's,
an accepted one and one the program owns; one unit of data is enough for a blocking call to lose it to
the reactor. A delimiter of three bytes has a proper prefix that is itself a partial match; empty delimiters
are left out. The two threads of the second program of `sched_run` are one that leaves the loop and one that sleeps in it.
Three endpoints have a first, a middle and a last, each of which may be refused, rejected by the condition or
interrupted. Two lookups are one in progress and one queued. A two-byte address carries once
and wraps once. In `TimedWait` a call may span three seconds and start at any fraction of one.

Fairness. `Scheduler`: strong fairness of each thread's library steps, since a
thread that wants the mutex competes for it (it may find the lock taken infinitely often)
and POSIX threads make progress; handlers return (without that no event loop is
live); weak fairness of `reactor::run` returning once it does not block or was
interrupted. No fairness is assumed of anything a user or a peer does, nor of
spurious wakeups or EINTR. `TimerService`: time passes, and somebody keeps running the
io_context. `calls`: the calling thread and the worker thread run; time passes; a name
lookup returns and the kernel ends a connection attempt, if only by its own timeout; a stream
that is asked answers; somebody runs the main io_context, and a fork that was prepared is finished.
No fairness of peers: a stream ends by its expiry time.

## 4. Findings

1. `sched_strand`. `work_cleanup` (`core/scheduler/scheduler.ipp:61`) puts a thread's
   private queue back without waking anyone. A thread in `run()` comes back to the queue;
   one in `run_one()` leaves, and the deferred handler stays queued while another thread
   sleeps in `run()`.
2. `reactor_eof`. A receive that finds the end of the stream is `done_and_exhausted`;
   `perform_io` leaves the receives behind it on the queue
   (`detail/reactor/poll/epoll_reactor.ipp:691`) and `start_op` neither tries nor
   re-registers the next. The descriptor stays readable, but no further edge comes.
   `ReadinessNotLost`, which holds, says the same for the time before an operation
   reported the end.
3. `wait_early`. `wait_for_usec` (`detail/base/posix/posix_event.hpp:118`) assigns `tv_nsec`
   instead of adding to it; the deadline lacks the current fraction of the second.
   `ZeroMeansTimeIsUp` shows that the loop around it still returns zero only when time is up: it
   spins.

4. `nonblocking`. `set_user_non_blocking(false)` (`network/socket_ops.ipp:265`),
   `set_internal_non_blocking` and `io_control()` make the descriptor blocking whatever is pending
   on it; `perform_io` then performs the next queued receive in a blocking system call. `network/basic_socket.hpp:1056-1058`
   says that the mode has no effect on asynchronous operations. `FlagsTrue` holds with such
   descriptors (`cleared`) excepted.

In the following cases the documentation promises more than the code does, and a property of a passing
run names the case as its exception. The exception is exact: outside of it the run finds the promise kept.

5. `connect()` waits in `poll_connect` whatever the mode (`network/socket_ops.ipp:363`), and
6. `accept()` of a non-blocking acceptor waits after an aborted connection (`network/socket_ops.ipp:101`), although
   `network/basic_socket.hpp:1067-1070` and `network/basic_socket_acceptor.hpp:790-792` say that synchronous operations
   fail with would_block (`NeverWaits` in `ModeHonoured`).
7. An operation object of `async_connect` takes an attempt whose socket could not be opened for a
   close by the owner (`transmit/impl/connect.hpp:317` and `:468`): it ends with operation_aborted, the iterator in
   the middle, and does not try the rest. `transmit/connect.hpp:452-454`, `:466-468` and `:544-545` say otherwise
   (`FoundClosed` in `ConnectSound`). The blocking loop goes on.
8. A reverse lookup finishes the work of its handler's executor twice (`network/resolve_endpoint_op.hpp:48`),
   when the worker passes it back and at the end, so that the executor can run out of work before the handler comes
   (`FinishedEarly` in `LookupsSound`).
9. Lookups made with a resolver that was moved from end with operation_aborted, although
   `ip/basic_resolver.hpp:79-80` and `:96-97` say it is as if newly constructed, and
10. `cancel()` does not end a lookup in progress, although `:124-126` speaks of any pending
    operation (`CancelHonoured` in `LookupsSound`).
11. `close()` leaves the removal from epoll to the kernel (`detail/reactor/poll/epoll_reactor.ipp:336-340`). After
    a fork the other process has the file too, and the entry stays, with the address of a freed
    `descriptor_state`, until that process closes it; `examples/cpp11/fork` closes sockets that way. Of an
    assigned or released handle the code removes the entry itself (`NoDanglingRegistration`).

Behaviour met while modelling that a reader may not expect. The modules have it as the code does:

* Sockets: `native_non_blocking()` is false after `non_blocking(true)`. A linger option is unknown to an
  object that got its descriptor from `accept` or `assign`, so that its destructor may linger.
* Resolver: on failure the results of a reverse lookup are made from uninitialised arrays. An
  `async_resolve` between fork_prepare and fork_parent could make a second worker thread; the
  module forks while nobody calls.
* Socket streams: `connect()` reports success after a poll that ended with no connection made
  (`basic_socket_streambuf.hpp:532-548`). Calls that expire report timed_out, where
  `:296-297` says operation_aborted. An overflow that fails after part of its bytes
  were sent sends them again at the next try; a move drops what is in the put area;
  `close()` hides the error of its flush.
* Networks: where the last address of all is a host, `find()` on the range finds nothing, and
  the hosts of `::/0` are an empty range.
* Executors: copying an executor onto itself destroys before it clones (`executor.hpp:73`).
  `join()` followed by the destructor finishes a thread pool's work twice, which is
  harmless by then.

## 5. Proofs

The theorems are about `Spec` of the module that models the code, or about `MCSpec` of `MCCalls` and
`MCObjects`, which follow one of several parts; for every value of the
constants that satisfies the module's assumptions. Each proof has the same shape: an
inductive invariant, a lemma for what each action does
to the state (`…Effect`, `…Leaves`), and one case per action.

**Scheduler**, from `SchedulerAssumption` (handlers and descriptors are finite disjoint sets, the
marker and the null pointer are none of them, a nonnegative number of guards) and `NullAssumption`.

| Theorem | Property | Why it needs more than itself |
|---|---|---|
| `TypeCorrect` | `TypeOK` | `QueueTypeStep`, `FlagTypeStep` and `StateTypeStep` treat the parts; `PermutationSeq`: what the reactor returns is a sequence of operations |
| `TaskTokenInvariant` | `TaskToken` | inductive with the type, which says that the marker is in nobody's private queue |
| `DescriptorsInvariant` | `DescriptorsDequeued` | a descriptor could come back from a private queue, or sit behind the marker: only a thread in the reactor has descriptors in its private queue, and none stands behind the marker, so that popping the marker leaves none |
| `ExactlyOnceInvariant` | `ExactlyOnce` | `OnceInv`: no queue has an operation twice and no two threads have the same one; `HoldsInv`: a thread holds operations to post, or one it runs, only at the places in the code where it does |
| `WorkBalanceInvariant` | `WorkBalance` | the sets it counts are finite; each action moves one operation, one thread or one increment between them (`FS_AddElement`, `FS_RemoveElement`) |
| `NoLostWakeupInvariant` | `NoLostWakeup` | below |

`NoLostWakeup` holds of a `WakingProgram`: either nobody calls `defer` and several threads may run the loop, or no thread leaves the
loop through `run_one`, `wait_one`, `poll_one` or an exception. The hypothesis is what finding 1 is
about: without it a private queue is put back without a wakeup. The first program of `sched_run` satisfies the
second part, its second program the first. The invariant is the conjunction of `TypeOK`, `TaskInv`,
`CallInv` (which call a thread is in and how long it may block, by its place in the code),
`ProgramInv` (what the hypothesis says of private queues), `InterruptInv` (`task_interrupted_` may be false only
while a thread is in the reactor, and if it is set while that thread blocks, an interrupt is
pending), `StopInv` (after `stop()` the event is set and nobody is asleep or goes to sleep) and
`WakeInv`: while something is queued, either the event is set or a thread will look at
the queue, and if anybody sleeps, there is such a thread or somebody who is being woken.

**EpollReactor**, from `EpollReactorAssumption` (the constants have their types, null is no object). `IInv`
is the conjunction of the types; `SocketShape` and `Distinct` (a socket, its descriptor and its
`descriptor_state` agree, two sockets share neither); `PoolInv`; `RegInv` (epoll has for an open socket exactly
`registered_events`, a pointer that no socket accounts for belongs to a file that a forked process
still has, and the handle of a socket being closed is not registered if a duplicate of it is open); `QueueInv`
(whoever waits does so once, at an open socket for which epoll was asked to report the type); and `ReadyInv`, the core: if an operation waits, or `try_speculative_` is false so
that the next will wait untried, then readiness of the descriptor is on epoll's ready list, in a batch, in
the scheduler's queue or in a thread's hands. That second alternative is what makes it inductive:
`start_op` may queue an operation without looking at the descriptor. From it follow

* `TypeCorrect`, `PoolIsSound` (`PoolSound`), `NoRegistrationDangles` (`NoDanglingRegistration`),
  `NoOpIsStranded` (`NoStrandedOp`), `ReadinessIsNotLost` (`ReadinessNotLost`), and the action property
  `FirstCome` (`FirstComeFirstServed`), for which lemmas about the loop of `perform_io` say that
  what is done is a prefix of the queue.

**TimerQueue** has no behaviour of its own; the first part of `TimerServiceProof` proves what its operations do to every queue that satisfies
`QueueOK` (heap order, `heap_index_`, the list linked both ways and equal to the heap): `up_heap` and `down_heap`
repair the one entry that is out of order whatever the size of the heap,
`remove_timer` leaves the others, `enqueue_timer`, `cancel_timer`, `move_timer`, `get_ready_timers` and
`get_all_timers` do to the timers what their names say and keep `QueueOK`. `ReadySoFar` is the loop invariant of
`get_ready_timers`: what was taken was due, is complete for the timers taken, and is in the order of
the entries' times, none of them later than what is left.

**TimerService**, from `TimerQueueAssumption` and `TimerServiceAssumption` (finitely many timers and waits, times are numbers,
Off is none). The `per_timer_data` of all timers is one piece of state that all queues share, so the
invariant is an operator on the parts of the state: `World(queue, data, alive, service, …)` says that every
queue is `QueueOK` and holds exactly the timers of its service that have waits, under their expiry, that
the other timers' fields are at rest, and that every wait is with one timer. A call is often a
sequence of queue operations (move assignment cancels in one queue, cancels in another and moves
there); each keeps `World` of the intermediate parts, and with it the call does. `Sleep` strengthens `NotOverslept`:
without a timerfd the timeout of a waiting reactor was really set. From it follow

* `TimerTypeCorrect`, `QueuesStayConsistent` (`QueuesConsistent`, with `DueInOrder`: whenever it is called,
  `get_ready_timers` takes exactly the waits that are due, the first due first), `NoTimerDangles` (`NoDanglingTimer`),
  `EveryWaitIsOnce` (`WaitingOnce`), `FlagIsSafe` (`FlagCoversWaits`), `ReactorNeverOversleeps` (`NotOverslept`),
  and the action properties `NobodyIsEarly` (`NeverEarly`) and `TimerfdIsQuiet` (`NoBusyTimer`).

**Socket**, from `SocketAssumption` (descriptors and operations are numbered, some program has the most operations)
and `QueuesAssumption`; the number of objects need not even be finite. `World(impl, kern, native, ops, cleared)` says that
owners never share a descriptor (`Apart`) and every open one has an owner (`OpenOwned`); that flags describe
the descriptor of their object (`Described`: also its type, without which a flag `stream_oriented` would not make an empty
read the end of a stream); and that operations pend on the non-blocking descriptor of an object and
hold a descriptor of their own only when they are done (`PendingOK`). It is an operator on the state because
functions are sequences of a dozen elementary changes: close, release, move,
assign, hand over and so on have one lemma each (`Keeps…`), for parts that may be those between two
changes. `CallOK` is about the blocking call: while it is under way its object keeps the descriptor in the mode that
the copied flags say. The lemmas `RecvKeeps` … `DecisionHonours` treat the loops of `SocketOps`. From it follow

* `OneOwnerAlways` (`OneOwner`), `FlagsTrueAlways` (`FlagsTrue`), `NoOrphansAlways` (`NoOrphans`) and
  `ModeHonouredAlways` (`ModeHonoured`, an invariant and an action property).

**Resolver**, from `Setting` (finitely many resolvers, `Nobody` is none of them, lookups are a sequence of
kinds). The invariant is the type and
`PlaceInv` (the queues hold exactly the lookups that are there, each once, and the worker looks up at most one),
`ThreadInv` (from the first lookup to the end of the service there is a background thread), `WorkInv` (each work count is
the number of what it stands for) and `CancelInv` (tokens are distinct, and every operation's token is
expired exactly if its resolver cancelled, was destroyed or assigned to). From it follow `TypeCorrect`, `WorkCovers`
(`WorkCoversLookups`) and `CancellationHonoured` (`CancelHonoured`). `HandlerWork` (`HandlerWorkHeld`) needs `HandlerInv`: the
count of the handlers' executor is that of the handlers still to come, less the endpoint lookups that were passed
back, for which `resolve_endpoint_op.hpp:48` finishes work twice (finding 8). There is no hypothesis about which
handlers have an executor.

**Calls**, the parts of `MCCalls`, from `LookupsAssumption`, `StreamsAssumption` and `TimesAssumption` (natural
numbers, and a second is not zero). A step follows one part and leaves the others, so that each
has an invariant of its own:

* `ZeroIsTimeUp` (`ZeroMeansTimeIsUp`, an action property): `WaitInv` says that the deadline of a wait in `run_one_until` is past
  `abs_time` at most by what the clock advanced between the loop's reading and that of `wait_for_usec`.
* `ConnectIsSound` (`ConnectSound`): `ConnectInv` says by the phase of the call which endpoints were tried
  (`TriedTo`: those before a position that the condition accepts, in their order), whether the
  socket is open, and where the error comes from. A success is a connection to the endpoint that is
  reported; a failure is the last attempt's, after all were tried, or `FoundClosed` (finding 7).
* `StreamsInOrder` (`StreamInOrder`): `StreamInv` says that the bytes in the get area and in the socket are
  the last ones the peer offered, and what is owed to the peer is what is being sent or the put area;
  reads begin with an empty get area and connects with both areas empty, without which a byte could be
  repeated or lost.
* `LookupsAreSound` (`LookupsSound`): the theorems of `ResolverProof` in the instance `R`, whose steps are
  those of `Resolving`.

**Registry**, from `ServicesAssumption` (a constructor asks for a sequence of services) alone. `RegistryInv` says
that each type is listed once and each service before those it uses (`ListGood`); that the calls on a stack
belong together (`StacksGood`), and that an object being made is made by one call and uses only what is listed (`MadeGood`);
that everybody was given what is listed (`ReturnedGood`), that shutting down went
through the list from its head (`LifeGood`), and that a fork goes through a fixed order of the
services, forward or backward (`ForkGood`). What makes it inductive is that a constructor runs outside the mutex: two threads may make
objects of one type, one of which is thrown away, and that one must not be in use. `RegistryIsSound`
(`RegistrySound`) follows.

**Options**, from `HopsAssumption` (`MaxHops` is a natural number). `OptionInv` says that the two representations
of an object stand for one value (`ObjectGood`), that what the kernel keeps has the shape the option wants (`KernelGood`), and that what
was last said on a socket is what an object shows that is read from it (`SaidGood`, `Shown`). The
lemma `ReadIs` is about `getsockopt` and `resize`: halved buffer sizes, IPv4 hops in
one byte, the linger option that is off. `OptionsReadBack` (`OptionReadsBack`) follows.

**Executors**, from `ExecutorsAssumption` (finitely many contexts and variables, the system context is a pool). A task in a
queue or in a thread's hands is an item of the set `InFlight`, and counts are cardinalities of sets of items
(`HeldBy`, `Mine`, `Guards`). `ExecWorld` is an operator on the parts of the state, since a submission
clones an executor, starts work and queues; it says that the implementations count the variables and
the items that refer to them (`RefsGood`); that a context's work count is that of its items and guards, so that a
pool with items does not join (`WorkGood`, `ContextsGood`); and that a handler is one item until it was invoked
(`FlightGood`, `InvokedGood`). `ExecutorsAreSound` (`ExecutorsSound`) follows.

Induction. The library's induction theorems have an operator as a parameter, which the installed provers cannot
instantiate. `InductionFacts` states induction over a set of numbers (`SetInduction`,
`BoundedInduction`), which needs none; with it the loops written as `after[n]` are shown to exist and to
keep their loop invariants.

Only model-checked:

* Liveness (`QueuedIsInvoked`, `StopReleasesAll`, `RunReturnsWhenIdle`, `WaitEnds`, `CallsEnd`): the prover
  has neither fairness nor ENABLED.
* `TransfersSound` and `TransfersInOrder`, that `ComposedOps` implements `StreamCall`, and `NetworksSound`: what
  recursive definitions over buffers and addresses compute for every input is induction over data.
* `HeapSound`, for the heap of six timers, whose operators are those the lemmas about `TimerQueue` are
  about: `QueuesConsistent` says the same of the queues of the timer service, for any number of timers.

## 6. Abstractions

* Calls of `run()` from inside a handler are left out.
* The reactor in `Scheduler` returns any pending operation at any time; when it really does
  is the subject of `EpollReactor` and `TimerService`.
* `EpollReactor` runs `epoll_wait` only when no descriptor operation is queued: that is
  `DescriptorsDequeued`, proved of `Scheduler`.
* epoll_wait's limit of 128 events (edge-triggered events that did not fit stay pending for the next call),
  EPOLLERR apart from EPOLLHUP, and the
  `register_internal_descriptor` functions (no caller) are left out. `notify_fork` is
  modelled for descriptors, and only when every live one is registered.
* Data is counted in units where its content does not matter (`EpollReactor`, `Socket`), and
  numbered where its order does (`ComposedOps`, `SocketStream`, `BufferWalk`).
* Overloads that throw and overloads that set an `error_code` are one action.
* `non_blocking_sendto` is declared in `network/socket_ops.hpp:157` and called, but not defined in the
  repository; it is modelled as external, like the kernel.
* `dynamic_string_buffer` and `dynamic_vector_buffer` count elements as bytes; the
  model has elements of one byte.
* One thread stands for the threads of a pool, and one thread of the program makes its
  calls on sockets, resolvers and streams, as their documentation requires.
* The blocking `wait()` of a timer shares no state and is left out, and so is the branch of
  `enqueue_timer` for times that are positive infinity (`timer_queue.hpp:70-74`), which only the time
  types of Boost.Date_Time have.

## 7. Not modelled

* `select_reactor` with `reactor_op_queue`: the fallback for systems without epoll; this
  build has epoll.
* `timer_queue_set`: a linked list that is walked in order.
* Memory recycling (`detail/thread/thread_info_base.hpp`) and handler allocation: address arithmetic.
* `basic_streambuf`: declared (`network/basic_streambuf_fwd.hpp`) and used by overloads of read, write and
  read_until, but not part of the repository. read_until with a regular expression needs Boost.
* Text conversion of addresses and endpoints, error categories, configuration macros, handler
  tracking: tables, formatting and logging.
* Strands and `handler_type_requirements`: there is no strand in this version, and the latter is
  compile-time only.

## 8. Plan

The modules are complete as far as section 7 says. What is left is a proof that `ComposedOps` implements
`StreamCall`, with lemmas about `Buffers`, as far as it can do without induction over data.
