---------------------------- MODULE TimerService ----------------------------
(***************************************************************************)
(* deadline_timer_service with the timer half of epoll_reactor: timer      *)
(* objects, the timer_queue of every io_context, the timerfd (or the       *)
(* timeout of epoll_wait where there is none) and the reactor thread that  *)
(* wakes up when it expires.                                               *)
(*                                                                         *)
(* A timer object is not shared between threads, so that a call on it is   *)
(* one step: its only critical section is that of epoll_reactor::mutex_.   *)
(* The reactor thread runs concurrently with all of them.                  *)
(***************************************************************************)
EXTENDS TimerQueue

CONSTANTS
  Services,     \* deadline_timer_service objects, one per io_context
  WaitOps,      \* wait operations, each started at most once
  MaxTime,      \* the clock stops here; no expiry is later
  MaxWait,      \* the five minutes of get_timeout
  Off,          \* a timerfd that has not been set, or no timeout at all
  HasTimerfd,   \* whether timerfd_create may succeed, may fail, or either
  Moves,        \* whether the program moves timer objects
  Shuts         \* whether an io_context is destroyed while timers live

ASSUME TimerServiceAssumption ==
  /\ IsFiniteSet(WaitOps)
  /\ MaxTime \in Nat /\ MaxWait \in Nat \ {0}
  /\ Off \notin Int
  /\ HasTimerfd \subseteq BOOLEAN /\ Moves \in BOOLEAN /\ Shuts \in BOOLEAN

VARIABLES
  queue,                     \* timers_ and heap_ of every timer_queue
  data,                      \* per_timer_data of every timer
  alive, service,            \* timer objects, and the service they belong to
  expiry, might_have_pending_waits,
  status, deadline,          \* per wait operation: what became of it
  now,
  reactor,                   \* the thread in epoll_reactor::run
  has_timerfd,               \* timer_fd_ != -1, for all reactors alike
  timerfd, timeout, interrupted,
  shutdown

timer_vars   == <<alive, service, expiry, might_have_pending_waits>>
op_vars      == <<status, deadline>>
reactor_vars == <<reactor, has_timerfd, timerfd, timeout, interrupted, shutdown>>
vars == <<queue, data, timer_vars, op_vars, now, reactor_vars>>

Time == 0..MaxTime

(* A timer belongs to whichever queue it is linked into: Q(s) is the        *)
(* timer_queue of s together with all per_timer_data.                       *)
Roots(q) == [timers |-> q.timers, heap |-> q.heap]
Links(q) == [next |-> q.next, prev |-> q.prev, index |-> q.index, ops |-> q.ops]
WithLinks(roots, links) ==
  [timers |-> roots.timers, heap |-> roots.heap, next |-> links.next,
   prev |-> links.prev, index |-> links.index, ops |-> links.ops]
Q(s) == WithLinks(queue[s], data)

SetQueue(s, q) ==
  /\ queue' = [queue EXCEPT ![s] = Roots(q)]
  /\ data' = Links(q)

Init ==
  /\ queue = [s \in Services |-> Roots(EmptyQueue)]
  /\ data = Links(EmptyQueue)
  /\ alive = {} /\ service = [t \in Timers |-> Nil]
  /\ expiry = [t \in Timers |-> 0]
  /\ might_have_pending_waits = [t \in Timers |-> FALSE]
  /\ status = [o \in WaitOps |-> "fresh"]
  /\ deadline = [o \in WaitOps |-> 0]
  /\ now = 0
  /\ reactor = [s \in Services |-> "idle"]
  /\ has_timerfd \in HasTimerfd
  /\ timerfd = [s \in Services |-> Off]
  /\ timeout = [s \in Services |-> Off]
  /\ interrupted = [s \in Services |-> TRUE]
  /\ shutdown = [s \in Services |-> FALSE]

-----------------------------------------------------------------------------
(* What happened to the operations in a sequence; deadline is only kept for *)
(* the ones that wait.                                                      *)
Complete(ops, result) ==
  /\ status' = [o \in WaitOps |-> IF o \in ToSet(ops) THEN result ELSE status[o]]
  /\ deadline' = [o \in WaitOps |-> IF o \in ToSet(ops) THEN 0 ELSE deadline[o]]

(* get_timeout(itimerspec&): an expired timer makes the timerfd readable at *)
(* once.                                                                    *)
TimerfdValue(q) == now + wait_duration(q, now, MaxWait)

(* Mutant: an earlier timer does not reach the reactor. *)
NoUpdate(s, q) == UNCHANGED <<timerfd, interrupted>>

update_timeout(s, q) ==
  IF has_timerfd
  THEN /\ timerfd' = [timerfd EXCEPT ![s] = TimerfdValue(q)]
       /\ UNCHANGED interrupted
  ELSE /\ interrupted' = [interrupted EXCEPT ![s] = TRUE]
       /\ UNCHANGED timerfd

-----------------------------------------------------------------------------
(* deadline_timer_service.                                                 *)

(* The constructor of per_timer_data, for memory that is used again. *)
NewData(links, t) ==
  [links EXCEPT !.next[t] = Nil, !.prev[t] = Nil, !.index[t] = NoIndex, !.ops[t] = <<>>]

(* basic_waitable_timer's constructor: construct(). *)
construct(t, s) ==
  /\ t \notin alive /\ ~shutdown[s]
  /\ alive' = alive \cup {t}
  /\ service' = [service EXCEPT ![t] = s]
  /\ expiry' = [expiry EXCEPT ![t] = 0]
  /\ might_have_pending_waits' = [might_have_pending_waits EXCEPT ![t] = FALSE]
  /\ data' = NewData(data, t)
  /\ UNCHANGED <<queue, op_vars, now, reactor_vars>>

(* Mutant: the operations are completed and stay with the timer. *)
CancelKeepsQueue(t, max_cancelled) ==
  /\ Complete(IF might_have_pending_waits[t] THEN Cancelled(Q(service[t]), t, max_cancelled)
              ELSE <<>>, "aborted")
  /\ UNCHANGED <<queue, data>>

(* cancel_timer(), if the timer may have waits. *)
CancelWaits(t, max_cancelled) ==
  LET s == service[t] IN
  IF might_have_pending_waits[t]
  THEN /\ SetQueue(s, cancel_timer(Q(s), t, max_cancelled))
       /\ Complete(Cancelled(Q(s), t, max_cancelled), "aborted")
  ELSE UNCHANGED <<queue, data, op_vars>>

AllOps == Cardinality(WaitOps)

cancel(t) ==
  /\ t \in alive
  /\ CancelWaits(t, AllOps)
  /\ might_have_pending_waits' = [might_have_pending_waits EXCEPT ![t] = FALSE]
  /\ UNCHANGED <<alive, service, expiry, now, reactor_vars>>

(* Mutant: the flag is cleared although operations may be left. *)
FlagAfterCancelOne(t) == FALSE

(* might_have_pending_waits after cancel_one. *)
FlagAfterOne(t) ==
  might_have_pending_waits[t] /\ Cancelled(Q(service[t]), t, 1) # <<>>

cancel_one(t) ==
  /\ t \in alive
  /\ CancelWaits(t, 1)
  /\ might_have_pending_waits' = [might_have_pending_waits EXCEPT ![t] = FlagAfterOne(t)]
  /\ UNCHANGED <<alive, service, expiry, now, reactor_vars>>

(* Mutant: the waits for the old expiry stay. *)
SetExpiryOnly(t, e) ==
  /\ t \in alive
  /\ expiry' = [expiry EXCEPT ![t] = e]
  /\ UNCHANGED <<queue, data, status, might_have_pending_waits, alive, service,
                 deadline, now, reactor_vars>>

expires_at(t, e) ==
  /\ t \in alive
  /\ CancelWaits(t, AllOps)
  /\ might_have_pending_waits' = [might_have_pending_waits EXCEPT ![t] = FALSE]
  /\ expiry' = [expiry EXCEPT ![t] = e]
  /\ UNCHANGED <<alive, service, now, reactor_vars>>

(* Mutant: the destructor leaves the timer in the queue. *)
DestroyWithoutCancel(t) ==
  /\ t \in alive
  /\ alive' = alive \ {t}
  /\ might_have_pending_waits' = [might_have_pending_waits EXCEPT ![t] = FALSE]
  /\ expiry' = [expiry EXCEPT ![t] = 0]
  /\ service' = [service EXCEPT ![t] = Nil]
  /\ UNCHANGED <<queue, data, op_vars, now, reactor_vars>>

(* The destructor; the fields of an object that is gone are reset here. *)
destroy(t) ==
  /\ t \in alive
  /\ alive' = alive \ {t}
  /\ CancelWaits(t, AllOps)
  /\ might_have_pending_waits' = [might_have_pending_waits EXCEPT ![t] = FALSE]
  /\ expiry' = [expiry EXCEPT ![t] = 0]
  /\ service' = [service EXCEPT ![t] = Nil]
  /\ UNCHANGED <<now, reactor_vars>>

(* epoll_reactor::schedule_timer; after shutdown the operation is posted.   *)
async_wait(t, op) ==
  /\ t \in alive
  /\ status[op] = "fresh"
  /\ might_have_pending_waits' = [might_have_pending_waits EXCEPT ![t] = TRUE]
  /\ LET s == service[t]
         q == enqueue_timer(Q(s), expiry[t], t, op)
     IN  IF shutdown[s]
         THEN /\ status' = [status EXCEPT ![op] = "posted"]
              /\ UNCHANGED <<queue, data, timerfd, interrupted, deadline>>
         ELSE /\ SetQueue(s, q)
              /\ status' = [status EXCEPT ![op] = "waiting"]
              /\ deadline' = [deadline EXCEPT ![op] = expiry[t]]
              /\ IF Earliest(q, t, op) THEN update_timeout(s, q)
                                       ELSE UNCHANGED <<timerfd, interrupted>>
  /\ UNCHANGED <<alive, service, expiry, now, reactor, timeout, shutdown, has_timerfd>>

(* The part of a move that both kinds share: the fields of the source go to *)
(* the target.                                                              *)
MoveFields(target, source) ==
  /\ service' = [service EXCEPT ![target] = service[source]]
  /\ expiry' = [expiry EXCEPT ![target] = expiry[source], ![source] = 0]
  /\ might_have_pending_waits' =
       [might_have_pending_waits EXCEPT ![target] = might_have_pending_waits[source],
                                        ![source] = FALSE]
  /\ UNCHANGED <<now, reactor_vars>>

(* epoll_reactor::move_timer, in the queue of the source's service. *)
MoveWaits(q, target, source) ==
  move_timer(cancel_timer(q, target, AllOps), target, source)

move_construct(target, source) ==
  LET s == service[source] IN
  /\ target \notin alive /\ source \in alive
  /\ alive' = alive \cup {target}
  /\ SetQueue(s, MoveWaits(WithLinks(queue[s], NewData(data, target)), target, source))
  /\ MoveFields(target, source)
  /\ UNCHANGED op_vars

(* Across services the target's waits are cancelled in its own queue first. *)
move_assign(target, source) ==
  LET ts == service[target]
      ss == service[source]
      cancels == ts = ss \/ might_have_pending_waits[target]
      left == IF cancels THEN cancel_timer(Q(ts), target, AllOps) ELSE Q(ts)
      moved == MoveWaits(WithLinks(IF ts = ss THEN Roots(left) ELSE queue[ss], Links(left)),
                         target, source)
  IN  /\ target \in alive /\ source \in alive
      /\ queue' = [queue EXCEPT ![ts] = Roots(left), ![ss] = Roots(moved)]
      /\ data' = Links(moved)
      /\ Complete(IF cancels THEN Cancelled(Q(ts), target, AllOps) ELSE <<>>, "aborted")
      /\ MoveFields(target, source)
      /\ UNCHANGED alive

-----------------------------------------------------------------------------
(* epoll_reactor.                                                          *)

(* epoll_reactor::run: without a timerfd the timeout is read from the queue *)
(* before epoll_wait is called.                                             *)
EnterWait(s) ==
  /\ reactor[s] = "idle" /\ ~shutdown[s]
  /\ reactor' = [reactor EXCEPT ![s] = "waiting"]
  /\ timeout' = [timeout EXCEPT ![s] = IF has_timerfd THEN Off ELSE TimerfdValue(Q(s))]
  /\ UNCHANGED <<queue, data, timer_vars, op_vars, now, timerfd, interrupted, shutdown,
                 has_timerfd>>

Expired(deadline_time) == deadline_time # Off /\ deadline_time <= now

(* epoll_wait returns: the timerfd or the timeout expired, or the           *)
(* interrupter was touched.  With a timerfd only its own event makes run()  *)
(* look at the timers.                                                      *)
Wake(s) ==
  /\ reactor[s] = "waiting"
  /\ Expired(timerfd[s]) \/ Expired(timeout[s]) \/ interrupted[s]
  /\ reactor' = [reactor EXCEPT ![s] = IF has_timerfd /\ ~Expired(timerfd[s])
                                       THEN "idle" ELSE "check"]
  /\ interrupted' = [interrupted EXCEPT ![s] = FALSE]
  /\ timeout' = [timeout EXCEPT ![s] = Off]
  /\ UNCHANGED <<queue, data, timer_vars, op_vars, now, timerfd, shutdown, has_timerfd>>

(* Another descriptor became ready first.  epoll_wait reports up to 128     *)
(* events at once: an expired timerfd or the interrupter would be among     *)
(* them.                                                                    *)
WakeForIo(s) ==
  /\ reactor[s] = "waiting"
  /\ ~Expired(timerfd[s]) /\ ~interrupted[s]
  /\ reactor' = [reactor EXCEPT ![s] = IF has_timerfd THEN "idle" ELSE "check"]
  /\ timeout' = [timeout EXCEPT ![s] = Off]
  /\ UNCHANGED <<queue, data, timer_vars, op_vars, now, timerfd, interrupted, shutdown,
                 has_timerfd>>

(* Mutant: the timerfd is not set again for the timers that are left. *)
NoRearm(s, q) == UNCHANGED timerfd

Rearm(s, q) ==
  timerfd' = IF has_timerfd THEN [timerfd EXCEPT ![s] = TimerfdValue(q)] ELSE timerfd

(* if (check_timers): the critical section at the end of run(). *)
CheckTimers(s) ==
  /\ reactor[s] = "check"
  /\ reactor' = [reactor EXCEPT ![s] = "idle"]
  /\ \E ready \in {Ready(Q(s), now)} :
       /\ SetQueue(s, ready.q)
       /\ Complete(ready.ops, "success")
       /\ Rearm(s, ready.q)
  /\ UNCHANGED <<timer_vars, now, timeout, interrupted, shutdown, has_timerfd>>

(* epoll_reactor::shutdown: the operations are destroyed, not completed.    *)
Shutdown(s) ==
  /\ Shuts /\ ~shutdown[s] /\ reactor[s] = "idle"
  /\ shutdown' = [shutdown EXCEPT ![s] = TRUE]
  /\ SetQueue(s, get_all_timers(Q(s)))
  /\ status' = [o \in WaitOps |->
                  IF \E t \in Active(Q(s)) : o \in ToSet(data.ops[t])
                  THEN "destroyed" ELSE status[o]]
  /\ deadline' = [o \in WaitOps |-> IF status'[o] = "destroyed" THEN 0 ELSE deadline[o]]
  /\ UNCHANGED <<timer_vars, now, reactor, timerfd, timeout, interrupted, has_timerfd>>

Tick ==
  /\ now < MaxTime
  /\ now' = now + 1
  /\ UNCHANGED <<queue, data, timer_vars, op_vars, reactor_vars>>

-----------------------------------------------------------------------------
TimerCall(t) ==
  \/ \E s \in Services : construct(t, s)
  \/ cancel(t) \/ cancel_one(t) \/ destroy(t)
  \/ \E e \in Time : expires_at(t, e)
  \/ \E op \in WaitOps : async_wait(t, op)
  \/ Moves /\ \E source \in Timers : move_construct(t, source) \/ move_assign(t, source)

ReactorStep(s) == EnterWait(s) \/ Wake(s) \/ CheckTimers(s)

Next ==
  \/ \E t \in Timers : TimerCall(t)
  \/ \E s \in Services : ReactorStep(s) \/ WakeForIo(s) \/ Shutdown(s)
  \/ Tick

Spec == Init /\ [][Next]_vars

(* Somebody keeps running the io_context, and time passes. *)
Fairness == WF_vars(Tick) /\ \A s \in Services : WF_vars(ReactorStep(s))

FairSpec == Spec /\ Fairness

-----------------------------------------------------------------------------
(* Properties.                                                             *)

(* Every field has the type of its declaration. *)
TypeOK ==
  /\ alive \subseteq Timers
  /\ service \in [Timers -> Services \cup {Nil}]
  /\ expiry \in [Timers -> Time]
  /\ might_have_pending_waits \in [Timers -> BOOLEAN]
  /\ status \in [WaitOps -> {"fresh", "waiting", "success", "aborted", "posted",
                             "destroyed"}]
  /\ deadline \in [WaitOps -> Time]
  /\ now \in Time
  /\ reactor \in [Services -> {"idle", "waiting", "check"}]
  /\ timerfd \in [Services -> Nat \cup {Off}]
  /\ timeout \in [Services -> Nat \cup {Off}]
  /\ interrupted \in [Services -> BOOLEAN] /\ shutdown \in [Services -> BOOLEAN]
  /\ has_timerfd \in BOOLEAN

(* A queue holds timers under the expiry they have now: expires_at() takes  *)
(* a timer out before it changes it.                                        *)
HeapTimeIsExpiry ==
  \A s \in Services : \A i \in 1..Len(queue[s].heap) :
    LET e == queue[s].heap[i] IN
    /\ e.time = expiry[e.timer]
    /\ \A o \in ToSet(data.ops[e.timer]) : deadline[o] = e.time

(* Whenever get_ready_timers is called, it takes the operations that are    *)
(* due, of its own timers and no others, the first due first.               *)
DueInOrder ==
  \A s \in Services, t \in Time :
    LET ops == ReadyOps(Q(s), t)
        due == {o \in WaitOps : /\ status[o] = "waiting" /\ deadline[o] <= t
                                /\ \E x \in alive : service[x] = s /\ o \in ToSet(data.ops[x])}
    IN  ToSet(ops) = due /\ \A i \in 2 .. Len(ops) : deadline[ops[i - 1]] <= deadline[ops[i]]

(* Heap, positions and list of every queue agree, and a timer without       *)
(* waits is in none of them; after get_all_timers the positions are stale,  *)
(* and nothing looks at them again.  The heap holds a timer under its       *)
(* current expiry, and every operation that waits for it was started with   *)
(* that expiry; those that are due come out in the order of their expiries. *)
QueuesConsistent ==
  /\ HeapTimeIsExpiry /\ DueInOrder
  /\ \A s \in Services : HeapOrdered(Q(s)) /\ Indexed(Q(s)) /\ ListMatches(Q(s))
  /\ \A s \in Services, t \in Timers :
       data.ops[t] = <<>> /\ (\A x \in Services : ~shutdown[x]) => Idle(Q(s), t)

(* No queue points to a destroyed timer, nor to a timer that a move gave to *)
(* another service: cancel() and the destructor find every wait through     *)
(* the timer's own service.                                                 *)
NoDanglingTimer ==
  \A s \in Services : \A t \in Active(Q(s)) : t \in alive /\ service[t] = s

(* cancel(), expires_at() and the destructor skip the queue when            *)
(* might_have_pending_waits is false; they must not skip a waiting timer.   *)
FlagCoversWaits ==
  \A t \in Timers : data.ops[t] # <<>> => might_have_pending_waits[t]

(* A wait operation is with exactly one timer, which is in a queue, while   *)
(* it waits, and with none once it is completed.                            *)
WaitingOnce ==
  \A o \in WaitOps :
    Cardinality({t \in Timers : o \in ToSet(data.ops[t])
                                /\ \E s \in Services : t \in Active(Q(s))})
      = (IF status[o] = "waiting" THEN 1 ELSE 0)

(* The reactor does not oversleep: while a timer is in the heap something   *)
(* makes the reactor look at it when it is due, whatever was inserted,      *)
(* cancelled or moved since the timeout was chosen.                         *)
NotOverslept ==
  \A s \in Services :
    queue[s].heap # <<>> =>
      LET due == queue[s].heap[1].time IN
      IF has_timerfd
      THEN timerfd[s] # Off /\ timerfd[s] <= (IF due < now THEN now ELSE due)
      ELSE reactor[s] = "waiting" =>
             interrupted[s] \/ timeout[s] <= (IF due < now THEN now ELSE due)

(* A wait never completes successfully before the expiry it was started     *)
(* with.                                                                    *)
NeverEarly ==
  [][\A o \in WaitOps : status'[o] = "success" /\ status[o] # "success"
       => deadline[o] <= now]_vars

(* The timerfd is level-triggered and nobody reads it: once the due timers  *)
(* have been taken out it must be set to a later time, or epoll_wait would  *)
(* return at once for ever.                                                 *)
NoBusyTimer ==
  [][\A s \in Services :
       has_timerfd /\ reactor[s] = "check" /\ reactor'[s] = "idle"
         => timerfd'[s] > now]_vars

(* Every wait ends, as long as its io_context runs. *)
WaitEnds == \A o \in WaitOps : (status[o] = "waiting") ~> (status[o] # "waiting")
=============================================================================
