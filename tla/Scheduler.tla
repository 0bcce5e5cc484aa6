------------------------------ MODULE Scheduler ------------------------------
(***************************************************************************)
(* asio::detail::scheduler: the event loop behind io_context.  Threads     *)
(* that call run(), run_one(), poll(), poll_one() or wait_one() share one  *)
(* queue of operations.  A marker in that queue, task_operation_, stands   *)
(* for "run the reactor"; whoever pops it runs the reactor, and puts it    *)
(* back behind the operations the reactor returned.  Threads that find the *)
(* queue empty sleep on wakeup_event_.                                     *)
(*                                                                         *)
(* A critical section of mutex_ that does not block is one step.  Where    *)
(* the lock is kept from one step to the next (task_cleanup and            *)
(* work_cleanup re-acquire it for the next iteration), mutex names its     *)
(* holder.  Atomic updates of outstanding_work_ outside the lock, and the  *)
(* pthread_cond_signal that follows an unlock, are steps of their own.     *)
(*                                                                         *)
(* The reactor appears here as what the scheduler sees of it: a blocking   *)
(* call that returns ready operations, and an interrupt() that ends it.    *)
(***************************************************************************)
EXTENDS Integers, SequencesExt

CONSTANTS
  Threads,      \* threads of the program; any of them may call run()
  Handlers,     \* user operations, each started at most once
  Descriptors,  \* epoll_reactor::descriptor_state operations
  Task,         \* &task_operation_
  None,         \* the null pointer / no thread
  OneThread,    \* the values one_thread_ may be constructed with
  Api,          \* the calls this program makes, a subset of ApiCalls
  MaxGuards     \* bound on simultaneous executor_work_guard objects

RunCalls == {"run", "run_one", "wait_one", "poll", "poll_one"}
ApiCalls == RunCalls \cup
  {"post", "defer", "start_io", "cancel", "stop", "restart", "guard", "throw",
   "shutdown"}

ASSUME SchedulerAssumption ==
  /\ IsFiniteSet(Handlers) /\ IsFiniteSet(Descriptors)
  /\ Handlers \cap Descriptors = {}
  /\ Task \notin Handlers \cup Descriptors
  /\ None \notin Handlers \cup Descriptors \cup Threads \cup {Task}
  /\ OneThread \subseteq BOOLEAN
  /\ Api \subseteq ApiCalls
  /\ MaxGuards \in Nat

ASSUME NullAssumption == None \notin ApiCalls

Ops == Handlers \cup Descriptors

VARIABLES
  op_queue,          \* op_queue_: operations ready to run, and Task
  task,              \* task_ # 0: the reactor has been attached
  task_interrupted,  \* task_interrupted_
  outstanding_work,  \* outstanding_work_, an atomic counter
  stopped,           \* stopped_
  shutdown,          \* shutdown_
  one_thread,        \* one_thread_: concurrency_hint == 1, ...
  mutex,             \* the thread that holds mutex_ between two steps
  signalled,         \* wakeup_event_.state_ & 1
  signalling,        \* threads about to call pthread_cond_signal
  interrupted,       \* an edge is pending on the reactor's interrupter
  pc, call, current, arg, usec,              \* per thread: where it is
  private_op_queue, private_outstanding_work, \* thread_info
  pending_io,        \* operations the reactor or a timer queue holds
  guards,            \* live executor_work_guard objects
  fresh, done, destroyed   \* handlers not yet started / invoked / destroyed

sched  == <<op_queue, task, task_interrupted, outstanding_work, stopped, shutdown,
            one_thread>>
event  == <<mutex, signalled, signalling>>
thread == <<pc, call, current, arg, usec, private_op_queue, private_outstanding_work>>
world  == <<interrupted, pending_io, guards, fresh, done, destroyed>>
vars   == <<sched, event, thread, world>>

PcValues == {"out", "stop", "post", "loop", "polled", "waited", "wait", "woken", "task",
             "task_cleanup", "handler", "work_cleanup", "cleanup_stop", "requeue"}

Init ==
  /\ op_queue = <<>> /\ task = FALSE /\ task_interrupted = TRUE
  /\ outstanding_work = 0 /\ stopped = FALSE /\ shutdown = FALSE
  /\ one_thread \in OneThread
  /\ mutex = None /\ signalled = FALSE /\ signalling = {}
  /\ interrupted = FALSE
  /\ pc = [t \in Threads |-> "out"]
  /\ call = [t \in Threads |-> None]
  /\ current = [t \in Threads |-> None]
  /\ arg = [t \in Threads |-> <<>>]
  /\ usec = [t \in Threads |-> "zero"]
  /\ private_op_queue = [t \in Threads |-> <<>>]
  /\ private_outstanding_work = [t \in Threads |-> 0]
  /\ pending_io = {} /\ guards = 0
  /\ fresh = Handlers /\ done = {} /\ destroyed = {}

-----------------------------------------------------------------------------
(* The event.  state_ counts every thread between += 2 and -= 2, so a       *)
(* thread already signalled but not yet holding the lock is still counted.  *)
Waiters == {t \in Threads : pc[t] \in {"wait", "woken"}}

Free(t) == mutex \in {None, t} /\ t \notin signalling
Inside(t) == call[t] # None
Goto(t, l) == pc' = [pc EXCEPT ![t] = l]

(* Where a call made by user code returns to. *)
Caller(t) == IF current[t] # None THEN "handler" ELSE "out"

(* posix_event::maybe_unlock_and_signal_one / unlock_and_signal_one *)
signal_one(t) ==
  /\ signalled' = TRUE
  /\ signalling' = IF Waiters # {} THEN signalling \cup {t} ELSE signalling
  /\ mutex' = None

(* Mutant: the interrupt is remembered as sent, but not sent. *)
InterruptNotSent(attached) ==
  /\ task_interrupted' = (task_interrupted \/ attached)
  /\ UNCHANGED interrupted

(* The reactor may only be interrupted once it is attached. *)
interrupt_task(attached) ==
  IF ~task_interrupted /\ attached
  THEN task_interrupted' = TRUE /\ interrupted' = TRUE
  ELSE UNCHANGED <<task_interrupted, interrupted>>

wake_one_thread_and_unlock(t, attached) ==
  /\ signal_one(t)
  /\ IF Waiters # {} THEN UNCHANGED <<task_interrupted, interrupted>>
                     ELSE interrupt_task(attached)

(* signal_all is a broadcast: every blocked thread wakes. *)
stop_all_threads(t, next) ==
  /\ stopped' = TRUE
  /\ signalled' = TRUE
  /\ pc' = [w \in Threads |-> IF w = t THEN next
                              ELSE IF pc[w] = "wait" THEN "woken" ELSE pc[w]]
  /\ interrupt_task(task)
  /\ mutex' = None

(* pthread_cond_signal, after the lock was released. *)
CondSignal(t) ==
  /\ t \in signalling
  /\ signalling' = signalling \ {t}
  /\ IF \E w \in Threads : pc[w] = "wait"
     THEN \E w \in Threads : pc[w] = "wait" /\ Goto(w, "woken")
     ELSE UNCHANGED pc
  /\ UNCHANGED <<sched, world, mutex, signalled, call, current, arg, usec,
                 private_op_queue, private_outstanding_work>>

(* A spurious return of pthread_cond_wait, or the timeout of a timed wait. *)
CondTimeout(t) ==
  /\ pc[t] = "wait"
  /\ Goto(t, "woken")
  /\ UNCHANGED <<sched, event, world, call, current, arg, usec,
                 private_op_queue, private_outstanding_work>>

-----------------------------------------------------------------------------
(* Calls made by user code, from outside the loop or from a handler.       *)
UserCode(t) ==
  /\ t \notin signalling
  /\ ~shutdown
  /\ \/ pc[t] = "out"
     \/ pc[t] = "handler" /\ current[t] \in Handlers

(* Mutant: a second use of the reactor pushes task_operation_ again. *)
InitTaskTwice(t) ==
  /\ UserCode(t) /\ Free(t)
  /\ task' = TRUE
  /\ op_queue' = Append(op_queue, Task)
  /\ wake_one_thread_and_unlock(t, TRUE)
  /\ UNCHANGED <<thread, outstanding_work, stopped, shutdown, one_thread, pending_io,
                 guards, fresh, done, destroyed>>

init_task(t) ==
  /\ UserCode(t) /\ Free(t)
  /\ ~task
  /\ task' = TRUE
  /\ op_queue' = Append(op_queue, Task)
  /\ wake_one_thread_and_unlock(t, TRUE)
  /\ UNCHANGED <<thread, outstanding_work, stopped, shutdown, one_thread, pending_io,
                 guards, fresh, done, destroyed>>

(* post() and, with is_continuation, defer(). *)
post_immediate_completion(t, h, is_continuation) ==
  /\ UserCode(t)
  /\ h \in fresh
  /\ fresh' = fresh \ {h}
  /\ IF (one_thread \/ is_continuation) /\ Inside(t)
     THEN /\ private_outstanding_work' = [private_outstanding_work EXCEPT ![t] = @ + 1]
          /\ private_op_queue' = [private_op_queue EXCEPT ![t] = Append(@, h)]
          /\ UNCHANGED <<outstanding_work, pc, arg>>
     ELSE /\ outstanding_work' = outstanding_work + 1
          /\ arg' = [arg EXCEPT ![t] = <<h>>]
          /\ Goto(t, "post")
          /\ UNCHANGED <<private_op_queue, private_outstanding_work>>
  /\ UNCHANGED <<event, op_queue, task, task_interrupted, stopped, shutdown, one_thread,
                 call, current, usec, interrupted, pending_io, guards, done,
                 destroyed>>

(* The locked half of the post functions. *)
PostQueue(t) ==
  /\ pc[t] = "post" /\ Free(t)
  /\ op_queue' = op_queue \o arg[t]
  /\ wake_one_thread_and_unlock(t, task)
  /\ arg' = [arg EXCEPT ![t] = <<>>]
  /\ Goto(t, Caller(t))
  /\ UNCHANGED <<task, outstanding_work, stopped, shutdown, one_thread, call, current, usec,
                 private_op_queue, private_outstanding_work, pending_io,
                 guards, fresh, done, destroyed>>

(* An operation handed to the reactor or a timer queue: work_started(). *)
start_io(t, h) ==
  /\ UserCode(t)
  /\ task
  /\ h \in fresh
  /\ fresh' = fresh \ {h}
  /\ pending_io' = pending_io \cup {h}
  /\ outstanding_work' = outstanding_work + 1
  /\ UNCHANGED <<event, thread, op_queue, task, task_interrupted, stopped,
                 shutdown, one_thread, interrupted, guards, done, destroyed>>

(* post_deferred_completions(ops): the thread keeps ops in a local queue    *)
(* until it has the lock.                                                   *)
post_deferred_completions(t, ops) ==
  IF one_thread /\ Inside(t)
  THEN /\ private_op_queue' = [private_op_queue EXCEPT ![t] = @ \o ops]
       /\ UNCHANGED <<pc, arg>>
  ELSE /\ arg' = [arg EXCEPT ![t] = ops]
       /\ Goto(t, "post")
       /\ UNCHANGED private_op_queue

cancel(t, ops) ==
  /\ UserCode(t)
  /\ ops # <<>>
  /\ pending_io' = pending_io \ ToSet(ops)
  /\ post_deferred_completions(t, ops)
  /\ UNCHANGED <<event, sched, call, current, usec, private_outstanding_work,
                 interrupted, guards, fresh, done, destroyed>>

StopCall(t) ==
  /\ UserCode(t)
  /\ Goto(t, "stop")
  /\ UNCHANGED <<event, sched, world, call, current, arg, usec,
                 private_op_queue, private_outstanding_work>>

stop(t) ==
  /\ pc[t] \in {"stop", "cleanup_stop"} /\ Free(t)
  /\ stop_all_threads(t, IF pc[t] = "stop" THEN Caller(t) ELSE "requeue")
  /\ UNCHANGED <<op_queue, task, outstanding_work, shutdown, one_thread, signalling, call,
                 current, arg, usec, private_op_queue, private_outstanding_work,
                 pending_io, guards, fresh, done, destroyed>>

restart(t) ==
  /\ UserCode(t) /\ Free(t)
  /\ stopped' = FALSE
  /\ UNCHANGED <<event, thread, world, op_queue, task, task_interrupted,
                 outstanding_work, shutdown, one_thread>>

(* executor_work_guard: on_work_started() and on_work_finished(). *)
work_started(t) ==
  /\ UserCode(t)
  /\ guards < MaxGuards
  /\ guards' = guards + 1
  /\ outstanding_work' = outstanding_work + 1
  /\ UNCHANGED <<event, thread, op_queue, task, task_interrupted, stopped,
                 shutdown, one_thread, interrupted, pending_io, fresh, done, destroyed>>

work_finished(t) ==
  /\ UserCode(t)
  /\ guards > 0
  /\ guards' = guards - 1
  /\ outstanding_work' = outstanding_work - 1
  /\ Goto(t, IF outstanding_work = 1 THEN "stop" ELSE pc[t])
  /\ UNCHANGED <<event, op_queue, task, task_interrupted, stopped, shutdown, one_thread,
                 call, current, arg, usec, private_op_queue,
                 private_outstanding_work, interrupted, pending_io, fresh, done,
                 destroyed>>

(* ~execution_context: no thread is inside the loop any more.  The queued   *)
(* operations are destroyed, and the reactor abandons the ones it holds.    *)
Shutdown ==
  /\ ~shutdown
  /\ \A t \in Threads : pc[t] = "out" /\ t \notin signalling
  /\ shutdown' = TRUE
  /\ op_queue' = <<>>
  /\ task' = FALSE
  /\ destroyed' = destroyed \cup pending_io \cup (ToSet(op_queue) \cap Handlers)
  /\ pending_io' = {}
  /\ UNCHANGED <<event, thread, task_interrupted, outstanding_work, stopped,
                 one_thread, interrupted, guards, fresh, done>>

-----------------------------------------------------------------------------
(* The loop.                                                               *)

(* How long each call lets the reactor, or the event, block. *)
BlockTime ==
  [c \in RunCalls |-> IF c \in {"run", "run_one"} THEN "forever"
                      ELSE IF c = "wait_one" THEN "timed" ELSE "zero"]

(* The head of run(), run_one(), wait_one(), poll() and poll_one(). *)
EnterRun(t, c) ==
  /\ pc[t] = "out" /\ t \notin signalling /\ ~shutdown
  /\ IF outstanding_work = 0
     THEN Goto(t, "stop") /\ UNCHANGED <<call, usec>>
     ELSE /\ call' = [call EXCEPT ![t] = c]
          /\ usec' = [usec EXCEPT ![t] = BlockTime[c]]
          /\ Goto(t, "loop")
  /\ UNCHANGED <<event, sched, world, current, arg, private_op_queue,
                 private_outstanding_work>>

MayBlock(t) == call[t] \in {"run", "run_one", "wait_one"}

(* do_wait_one does not look at stopped_ again after its wait. *)
Looking(t) == Free(t) /\ (pc[t] = "waited" \/ (pc[t] = "loop" /\ ~stopped))

Unlock == mutex' = None /\ UNCHANGED <<signalled, signalling>>

ReturnFromRun(t) ==
  /\ Goto(t, "out")
  /\ call' = [call EXCEPT ![t] = None]
  /\ usec' = [usec EXCEPT ![t] = "zero"]

PopTask(t) ==
  /\ Looking(t)
  /\ op_queue # <<>> /\ Head(op_queue) = Task
  /\ op_queue' = Tail(op_queue)
  /\ LET more_handlers == Tail(op_queue) # <<>> IN
     /\ task_interrupted' = IF MayBlock(t) THEN more_handlers ELSE task_interrupted
     /\ usec' = [usec EXCEPT ![t] = IF more_handlers THEN "zero" ELSE @]
     /\ IF more_handlers /\ MayBlock(t) /\ ~one_thread THEN signal_one(t) ELSE Unlock
  /\ Goto(t, "task")
  /\ UNCHANGED <<world, task, outstanding_work, stopped, shutdown, one_thread, call, current,
                 arg, private_op_queue, private_outstanding_work>>

(* reactor::run returned: ready operations are on the private queue. *)
TaskReturn(t, ready) ==
  /\ pc[t] = "task" /\ t \notin signalling
  /\ ready # <<>> \/ usec[t] # "forever" \/ interrupted
  /\ interrupted' = FALSE
  /\ pending_io' = pending_io \ ToSet(ready)
  /\ private_op_queue' = [private_op_queue EXCEPT ![t] = @ \o ready]
  /\ outstanding_work' = outstanding_work + private_outstanding_work[t]
  /\ private_outstanding_work' = [private_outstanding_work EXCEPT ![t] = 0]
  /\ Goto(t, "task_cleanup")
  /\ UNCHANGED <<event, op_queue, task, task_interrupted, stopped, shutdown, one_thread, call,
                 current, arg, usec, guards, fresh, done, destroyed>>

(* epoll_wait failed with EINTR: run() returns with nothing. *)
TaskEintr(t) ==
  /\ pc[t] = "task" /\ t \notin signalling
  /\ outstanding_work' = outstanding_work + private_outstanding_work[t]
  /\ private_outstanding_work' = [private_outstanding_work EXCEPT ![t] = 0]
  /\ Goto(t, "task_cleanup")
  /\ UNCHANGED <<event, world, op_queue, task, task_interrupted, stopped, shutdown, one_thread,
                 call, current, arg, usec, private_op_queue>>

(* Mutant: task_operation_ is put back in front of what the reactor returned. *)
PushTaskFirst(t, last) ==
  /\ op_queue' = op_queue \o last \o private_op_queue[t]
  /\ private_op_queue' = [private_op_queue EXCEPT ![t] = <<>>]

(* Mutant: the private queue is copied instead of moved. *)
CopyPrivate(t, last) ==
  /\ op_queue' = op_queue \o private_op_queue[t] \o last
  /\ UNCHANGED private_op_queue

(* op_queue_.push(private_op_queue): the operations move.  *)
PushPrivate(t, last) ==
  /\ op_queue' = op_queue \o private_op_queue[t] \o last
  /\ private_op_queue' = [private_op_queue EXCEPT ![t] = <<>>]

task_cleanup(t) ==
  /\ pc[t] = "task_cleanup" /\ Free(t)
  /\ mutex' = t
  /\ task_interrupted' = TRUE
  /\ PushPrivate(t, <<Task>>)
  /\ usec' = [usec EXCEPT ![t] = IF call[t] \in {"run", "run_one"} THEN "forever" ELSE @]
  /\ Goto(t, IF call[t] \in {"run", "run_one"} THEN "loop" ELSE "polled")
  /\ UNCHANGED <<world, signalled, signalling, task, outstanding_work, stopped,
                 shutdown, one_thread, call, current, arg, private_outstanding_work>>

(* do_wait_one and do_poll_one stop looking when the task brought nothing. *)
PolledNothing(t) ==
  /\ pc[t] = "polled" /\ Free(t)
  /\ Head(op_queue) = Task
  /\ IF call[t] = "wait_one" /\ one_thread THEN Unlock ELSE signal_one(t)
  /\ ReturnFromRun(t)
  /\ UNCHANGED <<sched, world, current, arg, private_op_queue,
                 private_outstanding_work>>

PopHandler(t) ==
  /\ Looking(t) \/ (pc[t] = "polled" /\ Free(t))
  /\ op_queue # <<>> /\ Head(op_queue) # Task
  /\ op_queue' = Tail(op_queue)
  /\ current' = [current EXCEPT ![t] = Head(op_queue)]
  /\ IF Tail(op_queue) # <<>> /\ ~one_thread
     THEN wake_one_thread_and_unlock(t, task)
     ELSE Unlock /\ UNCHANGED <<task_interrupted, interrupted>>
  /\ Goto(t, "handler")
  /\ UNCHANGED <<task, outstanding_work, stopped, shutdown, one_thread, call, arg, usec,
                 private_op_queue, private_outstanding_work, pending_io, guards,
                 fresh, done, destroyed>>

(* wakeup_event_.clear(lock); wakeup_event_.wait(lock) *)
EventWait(t) ==
  /\ pc[t] = "loop" /\ Looking(t)
  /\ op_queue = <<>> /\ MayBlock(t)
  /\ signalled' = FALSE
  /\ mutex' = None
  /\ Goto(t, "wait")
  /\ UNCHANGED <<sched, world, signalling, call, current, arg, usec,
                 private_op_queue, private_outstanding_work>>

(* The woken thread has the lock again.  wait() loops on the event's state, *)
(* wait_for_usec() waits at most once.                                      *)
EventWoken(t) ==
  /\ pc[t] = "woken" /\ Free(t)
  /\ IF call[t] = "wait_one"
     THEN /\ mutex' = t
          /\ usec' = [usec EXCEPT ![t] = "zero"]
          /\ Goto(t, "waited")
     ELSE /\ mutex' = IF signalled THEN t ELSE None
          /\ Goto(t, IF signalled THEN "loop" ELSE "wait")
          /\ UNCHANGED usec
  /\ UNCHANGED <<sched, world, signalled, signalling, call, current, arg,
                 private_op_queue, private_outstanding_work>>

Leave(t) ==
  /\ Free(t)
  /\ \/ pc[t] = "loop" /\ (stopped \/ (op_queue = <<>> /\ ~MayBlock(t)))
     \/ pc[t] = "waited" /\ op_queue = <<>>
  /\ Unlock
  /\ ReturnFromRun(t)
  /\ UNCHANGED <<sched, world, current, arg, private_op_queue,
                 private_outstanding_work>>

-----------------------------------------------------------------------------
(* Running an operation, and work_cleanup when it returns.                 *)

(* Mutants: the compensation is forgotten, or has the wrong sign. *)
NoCompensation(t) == UNCHANGED private_outstanding_work
NegativeCompensation(t) ==
  private_outstanding_work' = [private_outstanding_work EXCEPT ![t] = @ - 1]

compensating_work_started(t) ==
  private_outstanding_work' = [private_outstanding_work EXCEPT ![t] = @ + 1]

(* descriptor_state::do_complete: perform_io returns the first operation   *)
(* it completed to be invoked now and posts the others; if it completed    *)
(* none it compensates for the work_finished() that will follow.           *)
PerformIo(t, ready) ==
  /\ pc[t] = "handler" /\ current[t] \in Descriptors /\ t \notin signalling
  /\ pending_io' = pending_io \ ToSet(ready)
  /\ IF ready = <<>>
     THEN /\ compensating_work_started(t)
          /\ current' = [current EXCEPT ![t] = None]
          /\ Goto(t, "work_cleanup")
          /\ UNCHANGED <<arg, private_op_queue>>
     ELSE /\ current' = [current EXCEPT ![t] = Head(ready)]
          /\ IF Tail(ready) = <<>> THEN UNCHANGED <<pc, arg, private_op_queue>>
             ELSE post_deferred_completions(t, Tail(ready))
          /\ UNCHANGED private_outstanding_work
  /\ UNCHANGED <<event, sched, call, usec, interrupted, guards, fresh, done,
                 destroyed>>

(* The handler returns, or leaves with an exception that unwinds run(). *)
HandlerReturn(t, throws) ==
  /\ pc[t] = "handler" /\ current[t] \in Handlers /\ t \notin signalling
  /\ done' = done \cup {current[t]}
  /\ current' = [current EXCEPT ![t] = None]
  /\ call' = IF throws THEN [call EXCEPT ![t] = "throw"] ELSE call
  /\ Goto(t, "work_cleanup")
  /\ UNCHANGED <<event, sched, arg, usec, private_op_queue,
                 private_outstanding_work, interrupted, pending_io, guards,
                 fresh, destroyed>>

(* Mutant: the thread that finishes the last work does not notice. *)
MissesLastWork(t) == private_outstanding_work[t] = 0 /\ outstanding_work = 0

LastWork(t) == private_outstanding_work[t] = 0 /\ outstanding_work = 1

work_cleanup(t) ==
  /\ pc[t] = "work_cleanup"
  /\ outstanding_work' = (outstanding_work + private_outstanding_work[t]) - 1
  /\ private_outstanding_work' = [private_outstanding_work EXCEPT ![t] = 0]
  /\ Goto(t, IF LastWork(t) THEN "cleanup_stop" ELSE "requeue")
  /\ UNCHANGED <<event, world, op_queue, task, task_interrupted, stopped, shutdown, one_thread,
                 call, current, arg, usec, private_op_queue>>

(* The rest of work_cleanup, and the return to the loop or to the caller.  *)
(* No thread is woken for the operations added to the queue.               *)
Requeue(t) ==
  /\ pc[t] = "requeue"
  /\ LET again == call[t] \in {"run", "poll"} IN
     /\ IF private_op_queue[t] = <<>> THEN UNCHANGED mutex
        ELSE Free(t) /\ mutex' = IF again THEN t ELSE None
     /\ IF again THEN Goto(t, "loop") /\ UNCHANGED <<call, usec>> ELSE ReturnFromRun(t)
  /\ PushPrivate(t, <<>>)
  /\ UNCHANGED <<world, signalled, signalling, task, task_interrupted,
                 outstanding_work, stopped, shutdown, one_thread, current, arg,
                 private_outstanding_work>>

-----------------------------------------------------------------------------
(* What user code may do next, as far as this program does it. *)
UserStep(t) ==
  \/ init_task(t)
  \/ "post" \in Api /\ \E h \in fresh : post_immediate_completion(t, h, FALSE)
  \/ "defer" \in Api /\ \E h \in fresh : post_immediate_completion(t, h, TRUE)
  \/ "start_io" \in Api /\ \E h \in fresh : start_io(t, h)
  \/ "cancel" \in Api
       /\ \E ops \in SetToAllKPermutations(pending_io) : cancel(t, ops)
  \/ "stop" \in Api /\ StopCall(t)
  \/ "restart" \in Api /\ restart(t)
  \/ "guard" \in Api /\ (work_started(t) \/ work_finished(t))
  \/ \E c \in RunCalls \cap Api : EnterRun(t, c)
  \/ "throw" \in Api /\ HandlerReturn(t, TRUE)

(* What the library does by itself once it has been called. *)
LibraryStep(t) ==
  \/ CondSignal(t) \/ PostQueue(t) \/ stop(t)
  \/ PopTask(t) \/ task_cleanup(t) \/ PolledNothing(t) \/ PopHandler(t)
  \/ EventWait(t) \/ EventWoken(t) \/ Leave(t)
  \/ work_cleanup(t) \/ Requeue(t)
  \/ \E ready \in SetToAllKPermutations(pending_io) : PerformIo(t, ready)
  \/ HandlerReturn(t, FALSE)

Next ==
  \/ \E t \in Threads :
       \/ UserStep(t)
       \/ LibraryStep(t)
       \/ \E ready \in SetToAllKPermutations(pending_io \cup Descriptors) :
            TaskReturn(t, ready)
       \/ TaskEintr(t)
       \/ CondTimeout(t)
  \/ "shutdown" \in Api /\ Shutdown

Spec == Init /\ [][Next]_vars

(* Fairness: a thread that wants the mutex eventually gets it, handlers     *)
(* return, and reactor::run returns once it does not block any more.        *)
Fairness ==
  \A t \in Threads :
    /\ SF_vars(LibraryStep(t))
    /\ SF_vars(HandlerReturn(t, FALSE))
    /\ WF_vars(TaskReturn(t, <<>>))

FairSpec == Spec /\ Fairness

-----------------------------------------------------------------------------
(* Properties.                                                             *)

QueueType ==
  /\ op_queue \in Seq(Ops \cup {Task})
  /\ arg \in [Threads -> Seq(Handlers)]
  /\ private_op_queue \in [Threads -> Seq(Ops)]

FlagType ==
  /\ task \in BOOLEAN /\ task_interrupted \in BOOLEAN /\ interrupted \in BOOLEAN
  /\ stopped \in BOOLEAN /\ shutdown \in BOOLEAN /\ signalled \in BOOLEAN
  /\ one_thread \in BOOLEAN

StateType ==
  /\ outstanding_work \in Int
  /\ mutex \in Threads \cup {None}
  /\ signalling \subseteq Threads
  /\ pc \in [Threads -> PcValues]
  /\ call \in [Threads -> RunCalls \cup {"throw", None}]
  /\ current \in [Threads -> Ops \cup {None}]
  /\ usec \in [Threads -> {"zero", "timed", "forever"}]
  /\ private_outstanding_work \in [Threads -> Nat]
  /\ pending_io \subseteq Handlers
  /\ guards \in 0..MaxGuards
  /\ fresh \subseteq Handlers /\ done \subseteq Handlers
  /\ destroyed \subseteq Handlers

(* Every variable has the type its declaration in scheduler.hpp gives it.  *)
TypeOK == QueueType /\ FlagType /\ StateType

InReactor(t) == pc[t] \in {"task", "task_cleanup"}

(* The reactor is run by at most one thread at a time, and once attached it *)
(* is never lost: task_operation_ is in the queue exactly once, or exactly  *)
(* one thread holds it between PopTask and task_cleanup.                    *)
TaskToken ==
  /\ \A t, u \in Threads : InReactor(t) /\ InReactor(u) => t = u
  /\ \A i, j \in DOMAIN op_queue : op_queue[i] = Task /\ op_queue[j] = Task => i = j
  /\ \A t \in Threads : InReactor(t) => Task \notin ToSet(op_queue)
  /\ task => Task \in ToSet(op_queue) \/ \E t \in Threads : InReactor(t)

(* epoll_reactor::run relies on it (its first comment): while a thread is   *)
(* in the reactor no descriptor operation it returned before is still       *)
(* queued, so task_result_ and next_ of a descriptor_state may be reused.   *)
DescriptorsDequeued ==
  \A t \in Threads : InReactor(t) => ToSet(op_queue) \cap Descriptors = {}

(* Threads that sleep until somebody else does something. *)
Blocked(t) ==
  \/ pc[t] = "wait"
  \/ pc[t] = "task" /\ usec[t] = "forever" /\ ~interrupted

InHandler(t) == current[t] # None /\ pc[t] \in {"handler", "post", "stop"}

(* Threads inside the loop that will look at the queue again without any    *)
(* help, or whose pending pthread_cond_signal will make a sleeper do so.    *)
WillLook(t) ==
  \/ call[t] # None /\ ~Blocked(t) /\ ~InHandler(t)
  \/ t \in signalling /\ \E w \in Threads : pc[w] = "wait"

(* With one_thread_ the loop counts on a running handler to come back;      *)
(* otherwise nobody may have to wait for a long handler.                    *)
ComesBack(t) == WillLook(t) \/ (one_thread /\ InHandler(t))

(* No lost wakeup: while an operation, or the reactor's turn, is queued and *)
(* a thread sleeps in run(), some thread is on its way to the queue.        *)
NoLostWakeup ==
  (~stopped /\ op_queue # <<>> /\ \E t \in Threads : Blocked(t))
    => \E t \in Threads : ComesBack(t)

(* Places a started handler can be in. *)
Queued(h) == h \in ToSet(op_queue) \/ \E t \in Threads : h \in ToSet(private_op_queue[t])
InFlight(h) == \E t \in Threads : h \in ToSet(arg[t])
Running(h) == \E t \in Threads : current[t] = h

(* Increments of outstanding_work_ that threads still keep to themselves,   *)
(* operations that keep the loop alive, and threads that have run one and   *)
(* are about to count it as finished.                                       *)
HeldBack == UNION {{t} \X (1..private_outstanding_work[t]) : t \in Threads}
Alive == {h \in Handlers : h \in pending_io \/ Queued(h) \/ InFlight(h) \/ Running(h)}
Finishing == {t \in Threads : pc[t] = "work_cleanup"}

(* outstanding_work_, together with the increments threads still hold       *)
(* back, counts exactly the operations and work guards that keep the loop   *)
(* alive, so that it is zero, which stops every thread, only when nothing   *)
(* is queued, in flight, running or held by the reactor.                    *)
WorkBalance ==
  ~shutdown =>
    outstanding_work + Cardinality(HeldBack) =
      guards + Cardinality(Finishing) + Cardinality(Alive)

(* A started handler is in one place only until it is invoked or destroyed, *)
(* and is invoked or destroyed once.                                        *)
Place(h) ==
  <<h \in fresh, h \in pending_io, h \in done, h \in destroyed,
    h \in ToSet(op_queue), InFlight(h), Running(h),
    \E t \in Threads : h \in ToSet(private_op_queue[t])>>

ExactlyOnce ==
  \A h \in Handlers :
    /\ \E i \in 1..8 : Place(h)[i] /\ \A j \in 1..8 : Place(h)[j] => i = j
    /\ \A i, j \in DOMAIN op_queue : op_queue[i] = h /\ op_queue[j] = h => i = j

(* A queued operation is eventually invoked as long as some thread is in    *)
(* run() and nobody stops the loop.                                         *)
QueuedIsInvoked ==
  \A h \in Handlers :
    (h \in ToSet(op_queue) /\ \E t \in Threads : call[t] = "run")
      ~> (h \in done \/ stopped)

(* stop() makes every thread leave run(), including the ones that sleep in  *)
(* the event or in the reactor.                                             *)
StopReleasesAll ==
  \A t \in Threads : (stopped /\ call[t] = "run") ~> (call[t] = None \/ ~stopped)

(* When the last work is finished the loop stops by itself: a thread does   *)
(* not stay in run() with nothing left to do.                               *)
RunReturnsWhenIdle ==
  \A t \in Threads :
    (call[t] = "run" /\ outstanding_work = 0) ~> (call[t] = None \/ outstanding_work # 0)
=============================================================================
