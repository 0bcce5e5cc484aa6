----------------------------- MODULE TimerHeap -----------------------------
(* timer_queue by itself: timers with fixed expiry times are inserted,      *)
(* cancelled and taken out when they are due, in every order, and the       *)
(* results compared with what a plain set of timers would give.             *)
EXTENDS TimerQueue

(* One of the smallest cases in which the entry that fills the hole left by *)
(* a cancelled timer is due before the new parent.                          *)
TimeOf == [t \in Timers |-> IF t = 1 THEN 0 ELSE IF t <= 3 THEN 1 ELSE 2]

VARIABLES queue, waiting
vars == <<queue, waiting>>

Init == queue = EmptyQueue /\ waiting = {}

Wait(t) ==
  /\ t \notin waiting
  /\ waiting' = waiting \cup {t}
  /\ queue' = enqueue_timer(queue, TimeOf[t], t, t)

Cancel(t) ==
  /\ t \in waiting
  /\ waiting' = waiting \ {t}
  /\ queue' = cancel_timer(queue, t, 1)

Fire(now) ==
  /\ waiting # {}
  /\ waiting' = {t \in waiting : TimeOf[t] > now}
  /\ queue' = get_ready_timers(queue, now)

Next ==
  \/ \E t \in Timers : Wait(t) \/ Cancel(t)
  \/ \E now \in 0..2 : Fire(now)

Spec == Init /\ [][Next]_vars

(* The heap, the positions and the list agree with each other and with the  *)
(* set of waiting timers after every operation.                             *)
HeapConsistent ==
  /\ HeapOrdered(queue) /\ Indexed(queue) /\ ListMatches(queue)
  /\ InHeap(queue) = waiting
  /\ \A t \in Timers \ waiting : Idle(queue, t)

(* get_ready_timers takes exactly the timers that are due, earliest first.  *)
ReadyInOrder ==
  \A now \in 0..2 :
    LET ops == ReadyOps(queue, now) IN
    /\ ToSet(ops) = {t \in waiting : TimeOf[t] <= now}
    /\ Len(ops) = Cardinality(ToSet(ops))
    /\ \A i \in 2..Len(ops) : TimeOf[ops[i - 1]] <= TimeOf[ops[i]]
=============================================================================
