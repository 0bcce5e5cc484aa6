----------------------------- MODULE TimerQueue -----------------------------
(***************************************************************************)
(* asio::detail::timer_queue: a binary heap of (time, timer) entries, a    *)
(* doubly linked list of the active timers, and for each timer the queue   *)
(* of its wait operations.  Timers know their own position in the heap.    *)
(*                                                                         *)
(* A queue is a record; every member function is an operator that returns  *)
(* the new record.  Sequences are numbered from 1, so the parent of i is   *)
(* i \div 2 and the children are 2i and 2i + 1.                            *)
(***************************************************************************)
EXTENDS Integers, SequencesExt

CONSTANTS
  Timers,   \* per_timer_data objects
  Nil       \* the null pointer

ASSUME TimerQueueAssumption == IsFiniteSet(Timers) /\ Nil \notin Timers

(* numeric_limits<size_t>::max(): larger than any size of the heap. *)
NoIndex == Cardinality(Timers) + 1

EmptyQueue ==
  [timers |-> Nil,
   next   |-> [t \in Timers |-> Nil],
   prev   |-> [t \in Timers |-> Nil],
   heap   |-> <<>>,
   index  |-> [t \in Timers |-> NoIndex],
   ops    |-> [t \in Timers |-> <<>>]]

less_than(q, i, j) == q.heap[i].time < q.heap[j].time

swap_heap(q, i, j) ==
  [q EXCEPT !.heap = [@ EXCEPT ![i] = q.heap[j], ![j] = q.heap[i]],
            !.index = [@ EXCEPT ![q.heap[j].timer] = i, ![q.heap[i].timer] = j]]

(* The loops of up_heap and down_heap, one iteration: s.at is index. *)
UpStep(s) ==
  LET parent == s.at \div 2 IN
  IF s.at > 1 /\ less_than(s.q, s.at, parent)
  THEN [q |-> swap_heap(s.q, s.at, parent), at |-> parent]
  ELSE s

min_child(q, child) ==
  IF child = Len(q.heap) \/ less_than(q, child, child + 1) THEN child ELSE child + 1

DownStep(s) ==
  LET child == 2 * s.at IN
  IF child <= Len(s.q.heap) /\ ~less_than(s.q, s.at, min_child(s.q, child))
  THEN [q |-> swap_heap(s.q, s.at, min_child(s.q, child)), at |-> min_child(s.q, child)]
  ELSE s

(* Neither loop runs longer than the heap is: one step per entry is enough, *)
(* and a step after the loop's break changes nothing.                       *)
up_heap(q, i) ==
  LET after[n \in 0..Len(q.heap)] ==
        IF n = 0 THEN [q |-> q, at |-> i] ELSE UpStep(after[n - 1])
  IN  after[Len(q.heap)].q

down_heap(q, i) ==
  LET after[n \in 0..Len(q.heap)] ==
        IF n = 0 THEN [q |-> q, at |-> i] ELSE DownStep(after[n - 1])
  IN  after[Len(q.heap)].q

PopBack(q, t) == [q EXCEPT !.index[t] = NoIndex, !.heap = Front(@)]

(* Mutant: the entry moved into the hole is only ever moved down. *)
SiftDownOnly(q, i) == down_heap(q, i)

(* Where the entry that replaced a removed one belongs. *)
Resift(q, i) ==
  IF i > 1 /\ less_than(q, i, i \div 2) THEN up_heap(q, i) ELSE down_heap(q, i)

RemoveFromHeap(q, t) ==
  LET i == q.index[t]
      last == Len(q.heap)
  IN  IF i > last THEN q
      ELSE IF i = last THEN PopBack(q, t)
      ELSE Resift(PopBack(swap_heap(q, i, last), t), i)

(* Mutant: the successor keeps its pointer to the removed timer. *)
UnlinkForwardOnly(q, t) ==
  [q EXCEPT !.timers = IF @ = t THEN q.next[t] ELSE @,
            !.next = [x \in Timers |-> IF x = t THEN Nil
                                       ELSE IF x = q.prev[t] THEN q.next[t] ELSE @[x]],
            !.prev[t] = Nil]

Unlink(q, t) ==
  [q EXCEPT !.timers = IF @ = t THEN q.next[t] ELSE @,
            !.next = [x \in Timers |-> IF x = t THEN Nil
                                       ELSE IF x = q.prev[t] THEN q.next[t] ELSE @[x]],
            !.prev = [x \in Timers |-> IF x = t THEN Nil
                                       ELSE IF x = q.next[t] THEN q.prev[t] ELSE @[x]]]

remove_timer(q, t) == Unlink(RemoveFromHeap(q, t), t)

(* How the code tells whether a timer is active. *)
Linked(q, t) == q.prev[t] # Nil \/ q.timers = t

Insert(q, time, t) ==
  LET n == Len(q.heap) + 1
      pushed == [q EXCEPT !.heap = Append(@, [time |-> time, timer |-> t]),
                          !.index[t] = n]
      sifted == up_heap(pushed, n)
  IN  [sifted EXCEPT !.next[t] = q.timers,
                     !.prev = [x \in Timers |-> IF x = t THEN Nil
                                                ELSE IF x = q.timers THEN t ELSE @[x]],
                     !.timers = t]

enqueue_timer(q, time, t, op) ==
  LET active == IF Linked(q, t) THEN q ELSE Insert(q, time, t)
  IN  [active EXCEPT !.ops[t] = Append(@, op)]

(* What enqueue_timer returns: the reactor has to look at its timeout. *)
Earliest(q, t, op) == q.index[t] = 1 /\ Head(q.ops[t]) = op

(* cancel_timer: the operations it takes from the timer, and the queue left. *)
Cancelled(q, t, max_cancelled) ==
  IF Linked(q, t)
  THEN SubSeq(q.ops[t], 1, IF max_cancelled < Len(q.ops[t]) THEN max_cancelled
                           ELSE Len(q.ops[t]))
  ELSE <<>>

cancel_timer(q, t, max_cancelled) ==
  LET rest == [q EXCEPT !.ops[t] =
                 SubSeq(@, Len(Cancelled(q, t, max_cancelled)) + 1, Len(@))]
  IN  IF Linked(q, t) /\ rest.ops[t] = <<>> THEN remove_timer(rest, t) ELSE rest

(* The heap entry follows the timer. *)
MoveEntry(q, target, source) ==
  LET i == q.index[source] IN
  [q EXCEPT !.heap = IF i <= Len(@) THEN [@ EXCEPT ![i].timer = target] ELSE @]

move_timer(q, target, source) ==
  [MoveEntry(q, target, source) EXCEPT
     !.ops[target] = @ \o q.ops[source], !.ops[source] = <<>>,
     !.index = [@ EXCEPT ![target] = q.index[source], ![source] = NoIndex],
     !.timers = IF @ = source THEN target ELSE @,
     !.next = [x \in Timers |-> IF x = source THEN Nil
                                ELSE IF x = target THEN q.next[source]
                                ELSE IF x = q.prev[source] THEN target ELSE @[x]],
     !.prev = [x \in Timers |-> IF x = source THEN Nil
                                ELSE IF x = target THEN q.prev[source]
                                ELSE IF x = q.next[source] THEN target ELSE @[x]]]

(* get_ready_timers, one iteration: s.ops are the operations taken. *)
ReadyStep(s, now) ==
  IF s.q.heap # <<>> /\ s.q.heap[1].time <= now
  THEN LET t == s.q.heap[1].timer IN
       [q |-> remove_timer([s.q EXCEPT !.ops[t] = <<>>], t), ops |-> s.ops \o s.q.ops[t]]
  ELSE s

Ready(q, now) ==
  LET after[n \in 0..Len(q.heap)] ==
        IF n = 0 THEN [q |-> q, ops |-> <<>>] ELSE ReadyStep(after[n - 1], now)
  IN  after[Len(q.heap)]

get_ready_timers(q, now) == Ready(q, now).q
ReadyOps(q, now) == Ready(q, now).ops

(* The timers a walk from timers_ along next_ meets, and get_all_timers.    *)
(* The timers keep their heap_index_.                                       *)
Active(q) ==
  LET walk[n \in 0..Cardinality(Timers)] ==
        IF n = 0 THEN {q.timers} \ {Nil}
        ELSE walk[n - 1] \cup ({q.next[t] : t \in walk[n - 1]} \ {Nil})
  IN  walk[Cardinality(Timers)]

get_all_timers(q) ==
  [q EXCEPT !.timers = Nil,
            !.next = [t \in Timers |-> IF t \in Active(q) THEN Nil ELSE @[t]],
            !.prev = [t \in Timers |-> IF t \in Active(q) THEN Nil ELSE @[t]],
            !.ops  = [t \in Timers |-> IF t \in Active(q) THEN <<>> ELSE @[t]],
            !.heap = <<>>]

(* wait_duration_usec: how long until the first timer, at most max_duration. *)
wait_duration(q, now, max_duration) ==
  IF q.heap = <<>> THEN max_duration
  ELSE IF q.heap[1].time <= now THEN 0
  ELSE IF q.heap[1].time - now > max_duration THEN max_duration
  ELSE q.heap[1].time - now

-----------------------------------------------------------------------------
(* What a consistent queue is.                                             *)

InHeap(q) == {q.heap[i].timer : i \in 1..Len(q.heap)}

(* No entry of the heap is due before its parent: the first one is due      *)
(* first.                                                                   *)
HeapOrdered(q) == \A i \in 2..Len(q.heap) : q.heap[i \div 2].time <= q.heap[i].time

(* Every timer knows where its entry is. *)
Indexed(q) == \A i \in 1..Len(q.heap) : q.index[q.heap[i].timer] = i

(* The list is linked both ways and has exactly the timers of the heap, and *)
(* those have operations.                                                   *)
ListMatches(q) ==
  /\ \A t \in Active(q) : /\ Linked(q, t) /\ q.ops[t] # <<>>
                          /\ q.next[t] # Nil => q.prev[q.next[t]] = t
                          /\ q.prev[t] # Nil => q.next[q.prev[t]] = t
  /\ Active(q) = InHeap(q) /\ Cardinality(Active(q)) = Len(q.heap)

(* A timer nobody waits for is out of the list, and its heap_index_ out of  *)
(* range, so that it is never taken for an active one.                      *)
Idle(q, t) == ~Linked(q, t) /\ q.next[t] = Nil /\ q.index[t] = NoIndex
=============================================================================
