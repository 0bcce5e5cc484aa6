------------------------------ MODULE Resolver ------------------------------
(***************************************************************************)
(* resolver_service: asynchronous lookups made by one background thread on *)
(* a private io_context (the worker), their handlers invoked by the        *)
(* program's io_context (the main one).  A resolver is a cancellation      *)
(* token: its operations hold a weak reference, and a lookup that begins   *)
(* when nobody holds the token any more is not made.                       *)
(*                                                                         *)
(* The two schedulers appear as what Scheduler shows of them: a queue, a   *)
(* work count, a stopped flag, and a loop that takes the first operation.  *)
(***************************************************************************)
EXTENDS Integers, Sequences, SequencesExt, FiniteSets

CONSTANTS
  Resolvers,
  Lookups,     \* the kinds of the lookups the program makes, in order
  MaxForks,    \* how often it forks
  Bound,       \* the kinds of lookups whose handlers have an executor of their own
  MovedFrom    \* whether it makes lookups with a resolver it has moved from

VARIABLES
  locking,   \* the concurrency hint lets several threads use the main io_context
  impl,      \* the token of each resolver: a number, Null, or NoObject
  ops,       \* all operations made
  worker,    \* the worker io_context and its thread
  main,      \* the main io_context
  bound,     \* outstanding work of the handlers' own executor
  service,   \* "alive", then the stages of its end
  fork, forks

vars == <<locking, impl, ops, worker, main, bound, service, fork, forks>>

Null == 0        \* a null pointer
NoObject == -1
Nobody == "nobody"
Tokens == 1 .. (Len(Lookups) + Cardinality(Resolvers) + 1)

(* reset() with the noop_deleter: a token nobody else has. *)
FreshToken(r) == CHOOSE n \in Tokens :
  /\ \A other \in Resolvers \ {r} : impl[other] # n
  /\ \A i \in DOMAIN ops : ops[i].token # n

Expired(token) == token = Null \/ \A r \in Resolvers : impl[r] # token

Alive == service = "alive" /\ fork = "none"
Set(i, op) == ops' = [ops EXCEPT ![i] = op]

----------------------------------------------------------------------------
(* The resolver objects.  cancelled and owner follow, for the properties,  *)
(* which operations a call is to cancel; passed, which have been through   *)
(* the worker.                                                             *)

Waiting(op) == op.at \in {"starting", "worker"}

Cancelled(r) ==
  [i \in DOMAIN ops |->
     IF ops[i].owner # r THEN ops[i]
     ELSE [ops[i] EXCEPT !.owner = Nobody, !.cancelled = Waiting(ops[i])]]

Owned(list, from, to) ==
  [i \in DOMAIN list |->
     IF list[i].owner = from THEN [list[i] EXCEPT !.owner = to] ELSE list[i]]

construct(r) ==
  /\ Alive /\ impl[r] = NoObject
  /\ impl' = [impl EXCEPT ![r] = FreshToken(r)]
  /\ UNCHANGED <<locking, ops, worker, main, bound, service, fork, forks>>

destroy(r) ==
  /\ Alive /\ impl[r] # NoObject
  /\ impl' = [impl EXCEPT ![r] = NoObject]
  /\ ops' = Cancelled(r)
  /\ UNCHANGED <<locking, worker, main, bound, service, fork, forks>>

cancel(r) ==
  /\ Alive /\ impl[r] # NoObject
  /\ impl' = [impl EXCEPT ![r] = FreshToken(r)]
  /\ ops' = Cancelled(r)
  /\ UNCHANGED <<locking, worker, main, bound, service, fork, forks>>

(* Mutant: the token is copied. *)
CopyToken(r, other) == [impl EXCEPT ![r] = impl[other]]

(* The moved shared_ptr leaves a null pointer behind. *)
MoveToken(r, other) == [impl EXCEPT ![r] = impl[other], ![other] = Null]

move_construct(r, other) ==
  /\ Alive /\ impl[r] = NoObject /\ impl[other] # NoObject
  /\ impl' = MoveToken(r, other)
  /\ ops' = Owned(ops, other, r)
  /\ UNCHANGED <<locking, worker, main, bound, service, fork, forks>>

move_assign(r, other) ==
  /\ Alive /\ r # other /\ impl[r] # NoObject /\ impl[other] # NoObject
  /\ impl' = MoveToken(r, other)
  /\ ops' = Owned(Cancelled(r), other, r)
  /\ UNCHANGED <<locking, worker, main, bound, service, fork, forks>>

----------------------------------------------------------------------------
(* Lookups.  The answers are those of the system's name service. *)

NextKind(kind) == Len(ops) < Len(Lookups) /\ Lookups[Len(ops) + 1] = kind

Op(r, kind) ==
  [kind |-> kind, token |-> impl[r], owner |-> r, at |-> "starting", ec |-> "",
   results |-> "empty", cancelled |-> FALSE, null |-> impl[r] = Null, async |-> TRUE,
   passed |-> FALSE]

(* An operation object is freed before its handler is invoked. *)
Freed(op, at) ==
  [op EXCEPT !.at = at, !.token = Null, !.owner = Nobody, !.ec = "",
             !.results = "empty", !.cancelled = FALSE, !.null = FALSE]

Answers == {"found", "host_not_found"}

(* getnameinfo is asked a second time, for a numeric service, when it fails. *)
sync_getnameinfo(first, second) == IF first = "found" THEN first ELSE second

(* resolve() of a query or of an endpoint: no results but with success. *)
Answered(op, answer) ==
  [Freed(op, "done") EXCEPT !.async = FALSE, !.ec = IF answer = "found" THEN "" ELSE answer,
             !.results = IF answer = "found" THEN "entries" ELSE "empty"]

service_resolve(r) ==
  /\ Alive /\ impl[r] # NoObject /\ NextKind("query")
  /\ \E answer \in Answers : ops' = Append(ops, Answered(Op(r, "query"), answer))
  /\ UNCHANGED <<locking, impl, worker, main, bound, service, fork, forks>>

(* The overloads of basic_resolver make a query of their arguments. *)
resolve(r) == service_resolve(r)
resolve_protocol(r) == service_resolve(r)

resolve_endpoint(r) ==
  /\ Alive /\ impl[r] # NoObject /\ NextKind("endpoint")
  /\ \E first, second \in Answers :
       ops' = Append(ops, Answered(Op(r, "endpoint"), sync_getnameinfo(first, second)))
  /\ UNCHANGED <<locking, impl, worker, main, bound, service, fork, forks>>

(* Under the mutex: the first lookup makes the thread. *)
start_work_thread == [worker EXCEPT !.thread = IF @ = "none" THEN "run" ELSE @]

(* start_resolve_op(), up to the post. *)
start_resolve_op(op) ==
  IF locking
  THEN /\ ops' = Append(ops, op)
       /\ worker' = start_work_thread
       /\ main' = [main EXCEPT !.work = @ + 1]
  ELSE /\ ops' = Append(ops, [op EXCEPT !.at = "main", !.ec = "operation_not_supported"])
       /\ main' = [main EXCEPT !.work = @ + 1, !.queue = Append(@, Len(ops) + 1)]
       /\ UNCHANGED worker

(* The constructor of the operation counts the handler's work. *)
Start(r, kind) ==
  /\ Alive /\ impl[r] # NoObject /\ NextKind(kind)
  /\ impl[r] = Null => MovedFrom
  /\ bound' = bound + (IF kind \in Bound THEN 1 ELSE 0)
  /\ start_resolve_op(Op(r, kind))
  /\ UNCHANGED <<locking, impl, service, fork, forks>>

async_resolve(r) == Start(r, "query")
async_resolve_protocol(r) == Start(r, "query")
async_resolve_endpoint(r) == Start(r, "endpoint")

(* post_immediate_completion() on the worker. *)
PostToWorker(i) ==
  /\ ops[i].at = "starting"
  /\ Set(i, [ops[i] EXCEPT !.at = "worker"])
  /\ worker' = [worker EXCEPT !.queue = Append(@, i), !.work = @ + 1]
  /\ UNCHANGED <<locking, impl, main, bound, service, fork, forks>>

----------------------------------------------------------------------------
(* The background thread: work_io_context_->run(). *)

(* background_getaddrinfo and background_getnameinfo look at the token once. *)
Begin(i) == IF Expired(ops[i].token) THEN "aborted" ELSE "looking"

WorkerTakes ==
  /\ worker.thread = "run" /\ ~worker.stopped /\ worker.current = 0
  /\ worker.queue # <<>>
  /\ LET i == Head(worker.queue)
     IN  /\ worker' = [worker EXCEPT !.queue = Tail(@), !.current = i]
         /\ Set(i, [ops[i] EXCEPT !.at = Begin(i)])
  /\ UNCHANGED <<locking, impl, main, bound, service, fork, forks>>

(* The main io_context has been told of the work. *)
post_deferred_completion(i) == [main EXCEPT !.queue = Append(@, i)]

(* do_complete() on the worker ends: the operation goes back; that of an   *)
(* endpoint has given up the handler's work, which it will again when its  *)
(* handler is invoked or destroyed, and made its result of the names,      *)
(* written or not.                                                         *)
PassBack(i, ec) ==
  /\ LET query == ops[i].kind = "query"
     IN  /\ Set(i, [ops[i] EXCEPT !.at = "main", !.passed = TRUE, !.ec = ec,
                      !.results = IF ec = "" THEN "entries"
                                  ELSE IF query THEN "empty" ELSE "unwritten"])
         /\ bound' = bound - (IF ~query /\ ops[i].kind \in Bound THEN 1 ELSE 0)
  /\ main' = post_deferred_completion(i)
  /\ worker' = [worker EXCEPT !.current = 0, !.work = @ - 1]
  /\ UNCHANGED <<locking, impl, service, fork, forks>>

LookupEnds ==
  /\ worker.current # 0
  /\ LET i == worker.current
     IN  \/ ops[i].at = "aborted" /\ PassBack(i, "operation_aborted")
         \/ /\ ops[i].at = "looking"
            /\ \E first, second \in Answers :
                 LET answer == IF ops[i].kind = "query" THEN first
                               ELSE sync_getnameinfo(first, second)
                 IN  PassBack(i, IF answer = "found" THEN "" ELSE answer)

(* run() of the worker returns once it is stopped. *)
WorkerEnds ==
  /\ worker.thread = "run" /\ worker.stopped /\ worker.current = 0
  /\ worker' = [worker EXCEPT !.thread = "ended"]
  /\ UNCHANGED <<locking, impl, ops, main, bound, service, fork, forks>>

----------------------------------------------------------------------------
(* The main io_context. *)

(* The program calls run() (again) when there is something to do. *)
RunMain ==
  /\ service = "alive" /\ ~main.running /\ main.work > 0
  /\ main' = [main EXCEPT !.running = TRUE]
  /\ UNCHANGED <<locking, impl, ops, worker, bound, service, fork, forks>>

(* do_complete() on the main io_context: the handler is invoked, and its   *)
(* work and that of the operation end.                                     *)
Invoke ==
  /\ main.running /\ main.queue # <<>> /\ fork = "none"
  /\ LET i == Head(main.queue)
     IN  /\ Set(i, Freed(ops[i], "done"))
         /\ bound' = bound - (IF ops[i].kind \in Bound THEN 1 ELSE 0)
  /\ main' = [main EXCEPT !.queue = Tail(@), !.work = @ - 1]
  /\ UNCHANGED <<locking, impl, worker, service, fork, forks>>

RunReturns ==
  /\ main.running /\ main.work = 0
  /\ main' = [main EXCEPT !.running = FALSE]
  /\ UNCHANGED <<locking, impl, ops, worker, bound, service, fork, forks>>

----------------------------------------------------------------------------
(* base_notify_fork().  No other function of the io_context or its objects *)
(* is being called.                                                        *)

NobodyCalls == \A i \in DOMAIN ops : ops[i].at # "starting"

fork_prepare ==
  /\ Alive /\ NobodyCalls /\ forks < MaxForks
  /\ forks' = forks + 1
  /\ fork' = "join"
  /\ worker' = [worker EXCEPT !.stopped = @ \/ worker.thread # "none"]
  /\ UNCHANGED <<locking, impl, ops, main, bound, service>>

Joined == worker.thread # "run"

ForkJoins ==
  /\ fork = "join" /\ Joined
  /\ fork' = "prepared"
  /\ UNCHANGED <<locking, impl, ops, worker, main, bound, service, forks>>

(* Mutant: the new thread's run() finds the io_context stopped. *)
NewThreadOnly == [worker EXCEPT !.thread = "run"]

Restarted == [worker EXCEPT !.stopped = FALSE, !.thread = "run"]

(* In the parent and in the child. *)
fork_done ==
  /\ fork = "prepared"
  /\ fork' = "none"
  /\ worker' = IF worker.thread = "none" THEN worker ELSE Restarted
  /\ UNCHANGED <<locking, impl, ops, main, bound, service, forks>>

----------------------------------------------------------------------------
(* The end of the io_context: base_shutdown() of the resolver service, and *)
(* shutdown() of the scheduler, which was registered before it.            *)

Destroyed(queue) ==
  [i \in DOMAIN ops |->
     IF i \in ToSet(queue) THEN Freed(ops[i], "destroyed") ELSE ops[i]]

BoundIn(queue) == Cardinality({i \in ToSet(queue) : ops[i].kind \in Bound})

base_shutdown ==
  /\ Alive /\ NobodyCalls /\ ~main.running
  /\ service' = "join"
  /\ worker' = [worker EXCEPT !.stopped = TRUE, !.work = @ - 1]
  /\ UNCHANGED <<locking, impl, ops, main, bound, fork, forks>>

ShutdownJoins ==
  /\ service = "join" /\ Joined
  /\ service' = "joined"
  /\ ops' = Destroyed(worker.queue) /\ bound' = bound - BoundIn(worker.queue)
  /\ worker' = [worker EXCEPT !.queue = <<>>, !.thread = "none", !.work = 0]
  /\ UNCHANGED <<locking, impl, main, fork, forks>>

scheduler_shutdown ==
  /\ service = "joined"
  /\ service' = "gone"
  /\ ops' = Destroyed(main.queue) /\ bound' = bound - BoundIn(main.queue)
  /\ main' = [main EXCEPT !.queue = <<>>, !.work = 0]
  /\ UNCHANGED <<locking, impl, worker, fork, forks>>

----------------------------------------------------------------------------
Init ==
  /\ locking \in BOOLEAN
  /\ impl = [r \in Resolvers |-> NoObject]
  /\ ops = <<>>
  /\ worker = [queue |-> <<>>, current |-> 0, work |-> 1, stopped |-> FALSE, thread |-> "none"]
  /\ main = [queue |-> <<>>, work |-> 0, running |-> FALSE]
  /\ bound = 0
  /\ service = "alive" /\ fork = "none" /\ forks = 0

Program(r) ==
  \/ construct(r) \/ destroy(r) \/ cancel(r)
  \/ resolve(r) \/ resolve_protocol(r) \/ resolve_endpoint(r)
  \/ async_resolve(r) \/ async_resolve_protocol(r) \/ async_resolve_endpoint(r)
  \/ \E other \in Resolvers : move_construct(r, other) \/ move_assign(r, other)

Post == \E i \in DOMAIN ops : PostToWorker(i)
WorkerStep == WorkerTakes \/ LookupEnds \/ WorkerEnds
MainStep == RunMain \/ Invoke \/ RunReturns
ForkStep == ForkJoins \/ fork_done
ShutdownStep == ShutdownJoins \/ scheduler_shutdown

Next ==
  \/ \E r \in Resolvers : Program(r)
  \/ Post \/ WorkerStep \/ MainStep \/ ForkStep \/ ShutdownStep
  \/ fork_prepare \/ base_shutdown

(* Threads that can run do; name lookups return; the program runs the main *)
(* io_context while it has work, and finishes its forks.                   *)
Fairness ==
  /\ WF_vars(Post) /\ WF_vars(WorkerStep) /\ WF_vars(MainStep)
  /\ WF_vars(ForkStep) /\ WF_vars(ShutdownStep)

Spec == Init /\ [][Next]_vars /\ Fairness

----------------------------------------------------------------------------
Outstanding == {i \in DOMAIN ops : ops[i].at \notin {"done", "destroyed"}}

(* run() of the main io_context waits for the lookups of the background    *)
(* thread: its work count is the number of operations on either side, from *)
(* before the worker knows of one until its handler has run, so that it    *)
(* neither returns early nor stays; the worker's count keeps its thread    *)
(* while the service is alive.                                             *)
WorkCoversLookups ==
  /\ service \in {"alive", "join"} => main.work = Cardinality(Outstanding)
  /\ worker.work = Len(worker.queue) + (IF worker.current = 0 THEN 0 ELSE 1)
                     + (IF service = "alive" THEN 1 ELSE 0)
  /\ worker.queue # <<>> /\ service = "alive" => worker.thread # "none"

Begun(op) ==
  /\ op.async /\ op.at \in {"aborted", "looking", "main"}
  /\ op.ec # "operation_not_supported"

Aborted(op) == op.at = "aborted" \/ op.ec = "operation_aborted"

(* A lookup that is cancelled, by cancel(), by the destructor of its       *)
(* resolver or by a move assignment to it, before the worker begins ends   *)
(* with operation_aborted, also when the resolver has been moved           *)
(* meanwhile.  No other lookup does, with one exception, which contradicts *)
(* ip/basic_resolver.hpp:79-80 and 96-97: a resolver that was moved from   *)
(* is said to be as if new, and its lookups are aborted.  It contradicts   *)
(* 124-126 too, "any pending asynchronous operations", that a lookup in    *)
(* progress is not among the cancelled: its handler gets the answer.       *)
CancelHonoured ==
  \A i \in DOMAIN ops :
    Begun(ops[i]) =>
      /\ ops[i].cancelled => Aborted(ops[i])
      /\ Aborted(ops[i]) => ops[i].cancelled \/ ops[i].null

(* Lookups of endpoints whose handlers have an executor of their own and   *)
(* that have been passed back by the worker.                               *)
FinishedEarly ==
  {i \in DOMAIN ops : ops[i].passed /\ ops[i].kind = "endpoint" /\ ops[i].kind \in Bound}

(* The executor of a handler has outstanding work until the handler has    *)
(* been handed to it, and none once it has - of queries.  The operation    *)
(* object of an endpoint takes over the handler's work on every pass       *)
(* (resolve_endpoint_op.hpp:48; that of a query only on the last pass,     *)
(* resolve_query_op.hpp:77) and so ends it when the worker passes the      *)
(* operation back and again at the end: from then on the count is one      *)
(* short for each such lookup, so that the executor can run out of work    *)
(* before the handler comes.  Nothing else makes the count differ.         *)
HandlerWorkHeld ==
  bound = Cardinality({i \in Outstanding : ops[i].kind \in Bound})
            - Cardinality(FinishedEarly)

UnderWay == Outstanding # {} \/ service \notin {"alive", "gone"}

(* Every lookup ends: its handler is invoked, or destroyed with the        *)
(* io_context; a fork in between, or a lookup in progress when the service *)
(* is shut down, keeps neither waiting for ever.                           *)
LookupsEnd == UnderWay ~> ~UnderWay
=============================================================================
