------------------------------ MODULE Executor ------------------------------
(***************************************************************************)
(* The polymorphic executor with its reference counted implementation, the *)
(* functions post, defer and dispatch with the handlers' associated        *)
(* executors, and thread_pool and system_context, which run a scheduler in *)
(* threads of their own.  A scheduler is its queue, its count of work and  *)
(* its stopped flag; module Scheduler has the rest.  Each context is run   *)
(* by one thread; the program's main thread owns the executor variables    *)
(* and makes all calls.                                                    *)
(***************************************************************************)
EXTENDS Integers, Sequences, FiniteSets

CONSTANTS
  Contexts,    \* execution contexts, among them
  Pools,       \*   thread pools, and
  System,      \*   the system context, a pool too
  Variables,   \* the program's variables of type executor
  MaxImpls,    \* bound on the implementations created
  MaxHandlers  \* bound on the handlers submitted

VARIABLES
  context,   \* of each context: queue, work count, flags
  impls,     \* the implementations: target context and reference count
  handles,   \* impl_ of each variable: Null, SystemImpl or a number
  frame,     \* what each thread is invoking
  submitted, \* handlers submitted so far
  invoked    \* for the properties: the threads that invoked each handler

vars == <<context, impls, handles, frame, submitted, invoked>>

Null == 0
SystemImpl == MaxImpls + 1
Ids == 1 .. MaxImpls
Threads == Contexts \cup {"main"}

(* A handler bound to executor ex, Null when it is bound to none; wrapped  *)
(* in a work_dispatcher or not.                                            *)
Task(h, ex, dispatcher) == [h |-> h, ex |-> ex, dispatcher |-> dispatcher]

(* A thread in the middle of a task; owns: the dispatcher's work guard.    *)
Frame(task, owns) == [task |-> task, at |-> "start", owns |-> owns]
Idle == [task |-> Task(0, Null, FALSE), at |-> "idle", owns |-> FALSE]

(* get_associated_executor(): system_executor for an unbound handler. *)
get_associated_executor(ex) == IF ex = Null THEN SystemImpl ELSE ex

Target(ex) == IF ex = SystemImpl THEN System ELSE impls[ex].target

----------------------------------------------------------------------------
(* Reference counts.  The implementation for system_executor is a global.  *)

clone(all, ex) == IF ex \in Ids THEN [all EXCEPT ![ex].refs = @ + 1] ELSE all

(* Mutant: the last reference does not free. *)
NeverFrees(all, ex) ==
  IF ex \in Ids THEN [all EXCEPT ![ex].refs = IF @ > 1 THEN @ - 1 ELSE @] ELSE all

destroy(all, ex) == IF ex \in Ids THEN [all EXCEPT ![ex].refs = @ - 1] ELSE all

(* References held by a task: the binder's copy, and the guard's. *)
cloneTask(all, task) ==
  LET one == clone(all, task.ex) IN IF task.dispatcher THEN clone(one, task.ex) ELSE one
destroyTask(all, task) ==
  LET one == destroy(all, task.ex) IN IF task.dispatcher THEN destroy(one, task.ex) ELSE one

(* equals(): the same implementation, or targets of the same type that compare equal. *)
equals(a, b) ==
  \/ a = b
  \/ a \in Ids /\ b \in Ids /\ impls[a].target = impls[b].target

----------------------------------------------------------------------------
(* The scheduler of a context. *)

Enqueue(cs, c, task) ==
  [cs EXCEPT ![c].queue = Append(@, task), ![c].work = @ + 1]

work_finished(cs, c) ==
  [cs EXCEPT ![c].work = @ - 1, ![c].stopped = @ \/ cs[c].work = 1]

(* on_work_started() and on_work_finished() of the executor of a handler;  *)
(* those of system_executor do nothing.                                    *)
on_work_started(cs, ex) ==
  IF Target(ex) = System THEN cs ELSE [cs EXCEPT ![Target(ex)].work = @ + 1]
on_work_finished(cs, ex) ==
  IF Target(ex) = System THEN cs ELSE work_finished(cs, Target(ex))

----------------------------------------------------------------------------
(* The main thread between two calls. *)
MainIdle == frame["main"] = Idle /\ \A c \in Pools : context[c].join # "joining"

Free == {i \in Ids : impls[i].refs = 0 /\ impls[i].target = "none"}

(* operator=(Executor): a new implementation; the old one is let go of. *)
assign_target(v, c) ==
  /\ MainIdle
  /\ IF c = System
     THEN impls' = destroy(impls, handles[v]) /\ handles' = [handles EXCEPT ![v] = SystemImpl]
     ELSE /\ Free # {}
          /\ LET i == CHOOSE i \in Free : TRUE
             IN  /\ impls' = destroy([impls EXCEPT ![i] = [target |-> c, refs |-> 1]], handles[v])
                 /\ handles' = [handles EXCEPT ![v] = i]
  /\ UNCHANGED <<context, frame, submitted, invoked>>

(* operator=(const executor&): destroy() comes before clone(), so that the *)
(* program must not assign an executor to itself.                          *)
assign_copy(v, w) ==
  /\ MainIdle /\ v # w
  /\ impls' = clone(destroy(impls, handles[v]), handles[w])
  /\ handles' = [handles EXCEPT ![v] = handles[w]]
  /\ UNCHANGED <<context, frame, submitted, invoked>>

assign_move(v, w) ==
  /\ MainIdle
  /\ impls' = destroy(impls, handles[v])
  /\ handles' = [[handles EXCEPT ![v] = handles[w]] EXCEPT ![w] = Null]
  /\ UNCHANGED <<context, frame, submitted, invoked>>

assign_null(v) ==
  /\ MainIdle /\ handles[v] # Null
  /\ impls' = destroy(impls, handles[v])
  /\ handles' = [handles EXCEPT ![v] = Null]
  /\ UNCHANGED <<context, frame, submitted, invoked>>

----------------------------------------------------------------------------
(* Submission by the main thread.  The program submits to no context that  *)
(* it has joined or destroyed, directly or through an associated executor. *)

Open(c) == context[c].join = "no" /\ ~context[c].destroyed

(* post and defer of an executor: always through the queue. *)
Queued(ex, task) ==
  /\ impls' = cloneTask(impls, task)
  /\ context' = Enqueue(IF task.dispatcher
                        THEN on_work_started(context, get_associated_executor(task.ex))
                        ELSE context, Target(ex), task)
  /\ UNCHANGED frame

(* dispatch of an executor from outside: at once for system_executor. *)
Dispatched(ex, task) ==
  IF Target(ex) # System THEN Queued(ex, task)
  ELSE /\ impls' = cloneTask(impls, task)
       /\ frame' = [frame EXCEPT !["main"] = Frame(task, task.dispatcher)]
       /\ context' = IF task.dispatcher
                     THEN on_work_started(context, get_associated_executor(task.ex))
                     ELSE context

Submit ==
  /\ MainIdle /\ submitted < MaxHandlers
  /\ submitted' = submitted + 1
  /\ UNCHANGED <<handles, invoked>>

(* post(token): the handler goes to its own executor. *)
post(bound) ==
  /\ Submit /\ Open(Target(get_associated_executor(bound)))
  /\ Queued(get_associated_executor(bound), Task(submitted + 1, bound, FALSE))

defer(bound) ==
  /\ Submit /\ Open(Target(get_associated_executor(bound)))
  /\ Queued(get_associated_executor(bound), Task(submitted + 1, bound, FALSE))

dispatch(bound) ==
  /\ Submit /\ Open(Target(get_associated_executor(bound)))
  /\ Dispatched(get_associated_executor(bound), Task(submitted + 1, bound, FALSE))

(* post(ex, token): a work_dispatcher goes to ex, which may be the         *)
(* executor of a context: post(ctx, token).  An empty executor throws      *)
(* bad_executor; the guard is undone and nothing was submitted.            *)
Through(ex, bound) ==
  /\ ex # Null
  /\ Open(Target(ex)) /\ Open(Target(get_associated_executor(bound)))

post_to(ex, bound) ==
  Submit /\ Through(ex, bound) /\ Queued(ex, Task(submitted + 1, bound, TRUE))
defer_to(ex, bound) ==
  Submit /\ Through(ex, bound) /\ Queued(ex, Task(submitted + 1, bound, TRUE))
dispatch_to(ex, bound) ==
  Submit /\ Through(ex, bound) /\ Dispatched(ex, Task(submitted + 1, bound, TRUE))

bad_executor(bound) ==
  /\ Submit
  /\ \E v \in Variables : handles[v] = Null
  /\ Open(Target(get_associated_executor(bound)))
  /\ UNCHANGED <<context, impls, frame>>

----------------------------------------------------------------------------
(* A thread takes a task and invokes it. *)

Take(c) ==
  /\ context[c].running /\ ~context[c].stopped /\ context[c].queue # <<>>
  /\ frame[c] = Idle
  /\ LET task == Head(context[c].queue)
     IN  frame' = [frame EXCEPT ![c] = Frame(task, task.dispatcher)]
  /\ context' = [context EXCEPT ![c].queue = Tail(@)]
  /\ UNCHANGED <<impls, handles, submitted, invoked>>

Invoke(t) ==
  /\ frame[t].at = "start" /\ ~frame[t].task.dispatcher
  /\ invoked' = [invoked EXCEPT ![frame[t].task.h] = Append(@, t)]
  /\ frame' = [frame EXCEPT ![t].at = "end"]
  /\ UNCHANGED <<context, impls, handles, submitted>>

(* Mutant: the guard is reset before the handler is on its way. *)
ResetFirst(t) ==
  LET task == frame[t].task
      ex == get_associated_executor(task.ex)
      early == on_work_finished(context, ex)
  IN  /\ frame[t].at = "start" /\ task.dispatcher
      /\ IF Target(ex) \in {System, t}
         THEN /\ invoked' = [invoked EXCEPT ![task.h] = Append(@, t)]
              /\ context' = early
              /\ UNCHANGED impls
         ELSE /\ context' = Enqueue(early, Target(ex), Task(task.h, task.ex, FALSE))
              /\ impls' = clone(impls, task.ex)
              /\ UNCHANGED invoked
      /\ frame' = [frame EXCEPT ![t].at = "end", ![t].owns = FALSE]
      /\ UNCHANGED <<handles, submitted>>

(* work_dispatcher::operator(): dispatch to the handler's executor, which  *)
(* invokes it here when it may; moving a binder copies its executor.       *)
DispatchOn(t) ==
  LET task == frame[t].task
      ex == get_associated_executor(task.ex)
  IN  /\ frame[t].at = "start" /\ task.dispatcher
      /\ IF Target(ex) \in {System, t}
         THEN /\ invoked' = [invoked EXCEPT ![task.h] = Append(@, t)]
              /\ UNCHANGED <<context, impls>>
         ELSE /\ context' = Enqueue(context, Target(ex), Task(task.h, task.ex, FALSE))
              /\ impls' = clone(impls, task.ex)
              /\ UNCHANGED invoked
      /\ frame' = [frame EXCEPT ![t].at = "reset"]
      /\ UNCHANGED <<handles, submitted>>

(* work_.reset() *)
Reset(t) ==
  /\ frame[t].at = "reset"
  /\ context' = on_work_finished(context, get_associated_executor(frame[t].task.ex))
  /\ frame' = [frame EXCEPT ![t].at = "end", ![t].owns = FALSE]
  /\ UNCHANGED <<impls, handles, submitted, invoked>>

(* The handler throws out of run(), past the rest of a work_dispatcher.    *)
(* In a thread of a pool that ends the program.                            *)
Throws(t) ==
  /\ t \in Contexts \ Pools
  /\ frame[t].at = "start" /\ Target(get_associated_executor(frame[t].task.ex)) \in {System, t}
  /\ invoked' = [invoked EXCEPT ![frame[t].task.h] = Append(@, t)]
  /\ frame' = [frame EXCEPT ![t].at = "threw"]
  /\ UNCHANGED <<context, impls, handles, submitted>>

(* The function object is destroyed, with its guard if that still owns     *)
(* work, and the scheduler counts the task as finished.                    *)
Released(cs, f) ==
  IF f.owns THEN on_work_finished(cs, get_associated_executor(f.task.ex)) ELSE cs

End(t) ==
  /\ frame[t].at \in {"end", "threw"}
  /\ impls' = destroyTask(impls, frame[t].task)
  /\ LET cs == Released(context, frame[t])
         left == IF t = "main" THEN cs ELSE work_finished(cs, t)
     IN  context' = IF frame[t].at = "threw" THEN [left EXCEPT ![t].running = FALSE] ELSE left
  /\ frame' = [frame EXCEPT ![t] = Idle]
  /\ UNCHANGED <<handles, submitted, invoked>>

----------------------------------------------------------------------------
(* Running, joining, stopping and destroying contexts; the system context  *)
(* is there until the program ends.                                        *)
Own == Contexts \ {System}

(* Another thread restarts an io_context and calls run(). *)
run(c) ==
  /\ c \notin Pools /\ ~context[c].running /\ ~context[c].destroyed
  /\ context' = [context EXCEPT ![c].stopped = context[c].work = 0, ![c].running = TRUE]
  /\ UNCHANGED <<impls, handles, frame, submitted, invoked>>

Return(c) ==
  /\ context[c].running /\ context[c].stopped /\ frame[c] = Idle
  /\ context' = [context EXCEPT ![c].running = FALSE]
  /\ UNCHANGED <<impls, handles, frame, submitted, invoked>>

join(c) ==
  /\ MainIdle /\ c \in Pools \cap Own /\ Open(c)
  /\ context' = [work_finished(context, c) EXCEPT ![c].join = "joining"]
  /\ UNCHANGED <<impls, handles, frame, submitted, invoked>>

Joined(c) ==
  /\ context[c].join = "joining" /\ ~context[c].running
  /\ context' = [context EXCEPT ![c].join = "joined"]
  /\ UNCHANGED <<impls, handles, frame, submitted, invoked>>

stop(c) ==
  /\ MainIdle /\ c \in Pools \cap Own /\ ~context[c].destroyed /\ ~context[c].asked
  /\ context' = [context EXCEPT ![c].stopped = TRUE, ![c].asked = TRUE]
  /\ UNCHANGED <<impls, handles, frame, submitted, invoked>>

(* Tasks somewhere else that would come back to c. *)
BoundTo(c, task) == task.h # 0 /\ Target(get_associated_executor(task.ex)) = c
Elsewhere(c) ==
  \/ \E d \in Contexts \ {c} : \E i \in DOMAIN context[d].queue :
        BoundTo(c, context[d].queue[i])
  \/ \E t \in Threads : BoundTo(c, frame[t].task)

(* The context is destroyed: its threads have ended, what is queued is     *)
(* destroyed with its guards.  A pool stops and joins itself before; the   *)
(* program destroys no context that handlers elsewhere are bound to.       *)
destruct(c) ==
  /\ MainIdle /\ c \in Own /\ ~context[c].destroyed /\ ~context[c].running
  /\ c \in Pools => context[c].join = "joined"
  /\ ~Elsewhere(c)
  /\ LET q == context[c].queue
         freed[i \in 0 .. Len(q)] ==
           IF i = 0 THEN impls ELSE destroyTask(freed[i - 1], q[i])
         rest[i \in 0 .. Len(q)] ==
           IF i = 0 THEN context
           ELSE IF q[i].dispatcher
           THEN on_work_finished(rest[i - 1], get_associated_executor(q[i].ex))
           ELSE rest[i - 1]
     IN  /\ impls' = freed[Len(q)]
         /\ context' = [rest[Len(q)] EXCEPT ![c].queue = <<>>, ![c].destroyed = TRUE]
  /\ UNCHANGED <<handles, frame, submitted, invoked>>

----------------------------------------------------------------------------
Init ==
  /\ context = [c \in Contexts |->
       [queue |-> <<>>, work |-> IF c \in Pools THEN 1 ELSE 0, stopped |-> FALSE,
        running |-> c \in Pools, join |-> "no", asked |-> FALSE, destroyed |-> FALSE]]
  /\ impls = [i \in Ids |-> [target |-> "none", refs |-> 0]]
  /\ handles = [v \in Variables |-> Null]
  /\ frame = [t \in Threads |-> Idle]
  /\ submitted = 0
  /\ invoked = [h \in 1 .. MaxHandlers |-> <<>>]

Bindable == {Null} \cup {handles[v] : v \in Variables}

Next ==
  \/ \E v \in Variables :
       \/ \E c \in Contexts : assign_target(v, c)
       \/ \E w \in Variables : assign_copy(v, w) \/ assign_move(v, w)
       \/ assign_null(v)
  \/ \E bound \in Bindable :
       \/ post(bound) \/ defer(bound) \/ dispatch(bound) \/ bad_executor(bound)
       \/ \E v \in Variables :
            \/ post_to(handles[v], bound)
            \/ defer_to(handles[v], bound)
            \/ dispatch_to(handles[v], bound)
  \/ \E t \in Threads : Invoke(t) \/ DispatchOn(t) \/ Reset(t) \/ Throws(t) \/ End(t)
  \/ \E c \in Contexts :
       Take(c) \/ run(c) \/ Return(c) \/ join(c) \/ Joined(c) \/ stop(c) \/ destruct(c)

Spec == Init /\ [][Next]_vars

----------------------------------------------------------------------------
(* Where a task can be: what a thread has taken is at number 0. *)
Places == (Threads \X {0}) \cup UNION {{c} \X DOMAIN context[c].queue : c \in Contexts}
TaskAt(p) == IF p[2] = 0 THEN frame[p[1]].task ELSE context[p[1]].queue[p[2]]

(* The references that tasks hold: the binder's copy, and the guard's. *)
Copies(task, i) == IF task.ex # i THEN 0 ELSE IF task.dispatcher THEN 2 ELSE 1
References(i) == {r \in Places \X {1, 2} : r[2] <= Copies(TaskAt(r[1]), i)}

(* Every implementation counts exactly the copies of executors that refer  *)
(* to it: in variables, in bound handlers wherever they are queued or      *)
(* being invoked, in the guards of work_dispatchers.  None is freed under  *)
(* a handler in flight, none is leaked when a handler is destroyed unrun.  *)
(* Executors are equal exactly when they have the same target.             *)
ReferencesExact ==
  /\ \A i \in Ids : impls[i].refs =
       Cardinality({v \in Variables : handles[v] = i}) + Cardinality(References(i))
  /\ \A v, w \in Variables : handles[v] # Null /\ handles[w] # Null =>
       (equals(handles[v], handles[w]) <=> Target(handles[v]) = Target(handles[w]))

(* join() without stop() returns after every handler that was submitted    *)
(* through the pool or is bound to it was invoked, also one whose          *)
(* work_dispatcher had to pass another context first; and no handler is    *)
(* invoked twice.                                                          *)
JoinMeansDone ==
  /\ \A c \in Pools : context[c].join = "joined" /\ ~context[c].asked =>
       /\ context[c].queue = <<>>
       /\ \A d \in Contexts : \A i \in DOMAIN context[d].queue :
            ~BoundTo(c, context[d].queue[i])
       /\ \A t \in Threads : BoundTo(c, frame[t].task) => frame[t].at # "start"
  /\ \A h \in 1 .. submitted : Len(invoked[h]) <= 1
=============================================================================
