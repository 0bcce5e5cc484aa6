------------------------- MODULE TimerServiceProof -------------------------
(***************************************************************************)
(* Proofs about TimerService: the queues of all io_contexts stay           *)
(* consistent, point to live timers of their own service only, every wait  *)
(* is in exactly one of them, the reactor never sleeps too long, and no    *)
(* wait succeeds early.                                                    *)
(*                                                                         *)
(* The per_timer_data is shared by all queues, so that each operation on   *)
(* one queue has to leave the others alone.  The invariant is stated as an *)
(* operator on the parts of the state (World), because a call is often a   *)
(* sequence of such operations: move_assign cancels in one queue, cancels  *)
(* in another and moves there.                                             *)
(*                                                                         *)
(* The first part has lemmas about the operators of TimerQueue, for every  *)
(* set of timers and every queue the operations can produce: what they do  *)
(* to the heap and the list.                                               *)
(***************************************************************************)
EXTENDS TimerService, InductionFacts


EntryType == [time : Int, timer : Timers]

(* Queues whose timers wait for operations of a set S. *)
QueueType(S) ==
  [timers : Timers \cup {Nil}, next : [Timers -> Timers \cup {Nil}],
   prev : [Timers -> Timers \cup {Nil}], heap : Seq(EntryType),
   index : [Timers -> Nat], ops : [Timers -> Seq(S)]]

Entries(q) == {q.heap[i] : i \in 1..Len(q.heap)}

-----------------------------------------------------------------------------
(* Parents and children in the heap.                                       *)

LEMMA Parent ==
  ASSUME NEW i \in Nat, i > 1
  PROVE  /\ i \div 2 \in 1..(i - 1)
         /\ i = 2 * (i \div 2) \/ i = 2 * (i \div 2) + 1
  OBVIOUS

LEMMA Children ==
  ASSUME NEW i \in Nat
  PROVE  (2 * i) \div 2 = i /\ (2 * i + 1) \div 2 = i
  OBVIOUS

-----------------------------------------------------------------------------
(* Two entries of the heap change places.                                  *)

(* r has the entries of q in another order, and nothing else changed.      *)
Rearranged(S, q, r) ==
  /\ r \in QueueType(S) /\ Len(r.heap) = Len(q.heap)
  /\ r.timers = q.timers /\ r.next = q.next /\ r.prev = q.prev /\ r.ops = q.ops
  /\ Indexed(r)
  /\ Entries(r) = Entries(q)
  /\ \A t \in Timers \ InHeap(q) : r.index[t] = q.index[t]

LEMMA InHeapOfEntries ==
  ASSUME NEW q, NEW r, Entries(r) = Entries(q)
  PROVE  InHeap(r) = InHeap(q)
<1>1. /\ InHeap(q) = {e.timer : e \in Entries(q)}
      /\ InHeap(r) = {e.timer : e \in Entries(r)}
  BY DEF InHeap, Entries
<1> QED BY <1>1

LEMMA RearrangedTransitive ==
  ASSUME NEW S, NEW q, NEW r, NEW s, Rearranged(S, q, r), Rearranged(S, r, s)
  PROVE  Rearranged(S, q, s)
<1>1. InHeap(r) = InHeap(q)
  BY InHeapOfEntries DEF Rearranged
<1> QED BY <1>1 DEF Rearranged

LEMMA RearrangedReflexive ==
  ASSUME NEW S, NEW q \in QueueType(S), Indexed(q)
  PROVE  Rearranged(S, q, q)
  BY DEF Rearranged

LEMMA Swap ==
  ASSUME NEW S, NEW q \in QueueType(S), Indexed(q),
         NEW i \in 1..Len(q.heap), NEW j \in 1..Len(q.heap), i # j
  PROVE  LET r == swap_heap(q, i, j) IN
         /\ Rearranged(S, q, r)
         /\ r.heap[i] = q.heap[j] /\ r.heap[j] = q.heap[i]
         /\ \A k \in 1..Len(q.heap) : k # i /\ k # j => r.heap[k] = q.heap[k]
<1> DEFINE r == swap_heap(q, i, j)
           h == [q.heap EXCEPT ![i] = q.heap[j], ![j] = q.heap[i]]
           x == [q.index EXCEPT ![q.heap[j].timer] = i, ![q.heap[i].timer] = j]
<1>1. /\ q.heap \in Seq(EntryType) /\ q.index \in [Timers -> Nat]
      /\ \A k \in 1..Len(q.heap) : q.heap[k] \in EntryType
  BY DEF QueueType
<1>2. /\ h \in Seq(EntryType) /\ Len(h) = Len(q.heap)
      /\ h[i] = q.heap[j] /\ h[j] = q.heap[i]
      /\ \A k \in 1..Len(q.heap) : k # i /\ k # j => h[k] = q.heap[k]
  BY <1>1
<1>4. q.heap[i].timer \in Timers /\ q.heap[j].timer \in Timers
  BY <1>1 DEF EntryType
<1>5. \A k, l \in 1..Len(q.heap) : q.heap[k].timer = q.heap[l].timer => k = l
  BY DEF Indexed
<1>6. /\ x \in [Timers -> Nat] /\ x[q.heap[i].timer] = j /\ x[q.heap[j].timer] = i
      /\ \A t \in Timers : t # q.heap[i].timer /\ t # q.heap[j].timer => x[t] = q.index[t]
  <2>1. PICK a \in Timers : a = q.heap[i].timer
    BY <1>4
  <2>2. PICK b \in Timers : b = q.heap[j].timer
    BY <1>4
  <2>3. PICK f \in [Timers -> Nat] : f = q.index
    BY <1>1
  <2>4. a # b
    BY <1>5, <2>1, <2>2
  <2>5. x = [f EXCEPT ![b] = i, ![a] = j]
    BY <2>1, <2>2, <2>3
  <2> HIDE DEF x
  <2>6. x \in [Timers -> Nat] /\ x[a] = j /\ x[b] = i
        /\ \A t \in Timers : t # a /\ t # b => x[t] = f[t]
    BY <2>4, <2>5
  <2> QED BY <2>6, <2>1, <2>2, <2>3
<1>7. /\ r \in QueueType(S)
      /\ r.heap = h /\ r.index = x
      /\ r.timers = q.timers /\ r.next = q.next /\ r.prev = q.prev /\ r.ops = q.ops
  <2> HIDE DEF h, x
  <2>1. PICK g \in Seq(EntryType) : g = h
    BY <1>2
  <2>2. PICK y \in [Timers -> Nat] : y = x
    BY <1>6
  <2>3. r = [q EXCEPT !.heap = g, !.index = y]
    BY <2>1, <2>2 DEF swap_heap, h, x
  <2> DEFINE p == [q EXCEPT !.heap = g]
  <2>p. /\ p \in QueueType(S) /\ p.heap = g /\ p.index = q.index
        /\ p.timers = q.timers /\ p.next = q.next /\ p.prev = q.prev /\ p.ops = q.ops
    BY DEF QueueType
  <2>r. r = [p EXCEPT !.index = y]
    BY <2>3 DEF QueueType
  <2> HIDE DEF r, p
  <2>4. /\ r \in QueueType(S)
        /\ r.heap = g /\ r.index = y
        /\ r.timers = q.timers /\ r.next = q.next /\ r.prev = q.prev /\ r.ops = q.ops
    BY <2>p, <2>r DEF QueueType
  <2> QED BY <2>1, <2>2, <2>4
<1> HIDE DEF r, h, x
<1>8. Indexed(r)
  <2> SUFFICES ASSUME NEW k \in 1..Len(q.heap) PROVE x[h[k].timer] = k
    BY <1>2, <1>7 DEF Indexed
  <2>1. CASE k = i
    BY <2>1, <1>2, <1>6
  <2>2. CASE k = j
    BY <2>2, <1>2, <1>6
  <2>3. CASE k # i /\ k # j
    <3>1. h[k] = q.heap[k] /\ q.heap[k].timer \in Timers
      BY <2>3, <1>2, <1>1 DEF EntryType
    <3>2. q.heap[k].timer # q.heap[i].timer /\ q.heap[k].timer # q.heap[j].timer
      BY <2>3, <1>5
    <3> QED BY <3>1, <3>2, <1>6 DEF Indexed
  <2> QED BY <2>1, <2>2, <2>3
<1>9. Entries(r) = Entries(q)
  <2>1. ASSUME NEW k \in 1..Len(q.heap) PROVE \E l \in 1..Len(q.heap) : h[k] = q.heap[l]
    BY <1>2
  <2>2. ASSUME NEW k \in 1..Len(q.heap) PROVE \E l \in 1..Len(q.heap) : q.heap[k] = h[l]
    BY <1>2
  <2>3. Entries(r) = {h[k] : k \in 1..Len(q.heap)}
    BY <1>2, <1>7 DEF Entries
  <2>4. Entries(q) = {q.heap[k] : k \in 1..Len(q.heap)}
    BY DEF Entries
  <2>5. \A e \in Entries(r) : e \in Entries(q)
    BY <2>1, <2>3, <2>4
  <2>6. \A e \in Entries(q) : e \in Entries(r)
    BY <2>2, <2>3, <2>4
  <2> QED BY <2>5, <2>6
<1>10. \A t \in Timers \ InHeap(q) : r.index[t] = q.index[t]
  BY <1>7, <1>6 DEF InHeap
<1> QED BY <1>2, <1>7, <1>8, <1>9, <1>10 DEF Rearranged, r

-----------------------------------------------------------------------------
(* The loops have solutions: after[n] is where a loop is after n steps.    *)

UpLoop(g, L, q, i) ==
  g = [n \in 0..L |-> IF n = 0 THEN [q |-> q, at |-> i] ELSE UpStep(g[n - 1])]

DownLoop(g, L, q, i) ==
  g = [n \in 0..L |-> IF n = 0 THEN [q |-> q, at |-> i] ELSE DownStep(g[n - 1])]

ReadyLoop(g, L, q, clock) ==
  g = [n \in 0..L |-> IF n = 0 THEN [q |-> q, ops |-> <<>>] ELSE ReadyStep(g[n - 1], clock)]

LEMMA UpRun ==
  ASSUME NEW q, NEW L \in Nat, L = Len(q.heap), NEW i
  PROVE  \E g : up_heap(q, i) = g[L].q /\ UpLoop(g, L, q, i)
<1> DEFINE start == [q |-> q, at |-> i]
           Solves(g, m) == g = [n \in 0..m |-> IF n = 0 THEN start ELSE UpStep(g[n - 1])]
           T == {m \in Nat : \E g : Solves(g, m)}
<1>1. 0 \in T
  <2>1. Solves([n \in 0..0 |-> start], 0)
    OBVIOUS
  <2> QED BY <2>1
<1>2. ASSUME NEW m \in T PROVE m + 1 \in T
  <2>1. PICK g : Solves(g, m)
    OBVIOUS
  <2> DEFINE h == [n \in 0..(m + 1) |-> IF n = m + 1 THEN UpStep(g[m]) ELSE g[n]]
  <2>2. Solves(h, m + 1)
    BY <2>1
  <2> HIDE DEF h, Solves
  <2> QED BY <2>2
<1>3. T = Nat
  <2> HIDE DEF T
  <2>1. T \subseteq Nat
    BY DEF T
  <2> QED BY <1>1, <1>2, <2>1, SetInduction
<1> DEFINE after[n \in 0..L] == IF n = 0 THEN start ELSE UpStep(after[n - 1])
<1>4. after = [n \in 0..L |-> IF n = 0 THEN start ELSE UpStep(after[n - 1])]
  BY <1>3
<1>5. up_heap(q, i) = after[L].q
  BY DEF up_heap
<1>6. UpLoop(after, L, q, i)
  BY <1>4 DEF UpLoop
<1> QED BY <1>5, <1>6

LEMMA DownRun ==
  ASSUME NEW q, NEW L \in Nat, L = Len(q.heap), NEW i
  PROVE  \E g : down_heap(q, i) = g[L].q /\ DownLoop(g, L, q, i)
<1> DEFINE start == [q |-> q, at |-> i]
           Solves(g, m) == g = [n \in 0..m |-> IF n = 0 THEN start ELSE DownStep(g[n - 1])]
           T == {m \in Nat : \E g : Solves(g, m)}
<1>1. 0 \in T
  <2>1. Solves([n \in 0..0 |-> start], 0)
    OBVIOUS
  <2> QED BY <2>1
<1>2. ASSUME NEW m \in T PROVE m + 1 \in T
  <2>1. PICK g : Solves(g, m)
    OBVIOUS
  <2> DEFINE h == [n \in 0..(m + 1) |-> IF n = m + 1 THEN DownStep(g[m]) ELSE g[n]]
  <2>2. Solves(h, m + 1)
    BY <2>1
  <2> HIDE DEF h, Solves
  <2> QED BY <2>2
<1>3. T = Nat
  <2> HIDE DEF T
  <2>1. T \subseteq Nat
    BY DEF T
  <2> QED BY <1>1, <1>2, <2>1, SetInduction
<1> DEFINE after[n \in 0..L] == IF n = 0 THEN start ELSE DownStep(after[n - 1])
<1>4. after = [n \in 0..L |-> IF n = 0 THEN start ELSE DownStep(after[n - 1])]
  BY <1>3
<1>5. down_heap(q, i) = after[L].q
  BY DEF down_heap
<1>6. DownLoop(after, L, q, i)
  BY <1>4 DEF DownLoop
<1> QED BY <1>5, <1>6

LEMMA ReadyRun ==
  ASSUME NEW q, NEW L \in Nat, L = Len(q.heap), NEW clock
  PROVE  \E g : Ready(q, clock) = g[L] /\ ReadyLoop(g, L, q, clock)
<1> DEFINE start == [q |-> q, ops |-> <<>>]
           Solves(g, m) ==
             g = [n \in 0..m |-> IF n = 0 THEN start ELSE ReadyStep(g[n - 1], clock)]
           T == {m \in Nat : \E g : Solves(g, m)}
<1>1. 0 \in T
  <2>1. Solves([n \in 0..0 |-> start], 0)
    OBVIOUS
  <2> QED BY <2>1
<1>2. ASSUME NEW m \in T PROVE m + 1 \in T
  <2>1. PICK g : Solves(g, m)
    OBVIOUS
  <2> DEFINE h == [n \in 0..(m + 1) |-> IF n = m + 1 THEN ReadyStep(g[m], clock) ELSE g[n]]
  <2>2. Solves(h, m + 1)
    BY <2>1
  <2> HIDE DEF h, Solves
  <2> QED BY <2>2
<1>3. T = Nat
  <2> HIDE DEF T
  <2>1. T \subseteq Nat
    BY DEF T
  <2> QED BY <1>1, <1>2, <2>1, SetInduction
<1> DEFINE after[n \in 0..L] ==
             IF n = 0 THEN start ELSE ReadyStep(after[n - 1], clock)
<1>4. after = [n \in 0..L |-> IF n = 0 THEN start ELSE ReadyStep(after[n - 1], clock)]
  BY <1>3
<1>5. Ready(q, clock) = after[L]
  BY DEF Ready
<1>6. ReadyLoop(after, L, q, clock)
  BY <1>4 DEF ReadyLoop
<1> QED BY <1>5, <1>6

-----------------------------------------------------------------------------
(* up_heap restores the order of a heap in which only the entry at i may   *)
(* be due before its parent.                                               *)
UpOrdered(q, at) ==
  /\ at \in 1..Len(q.heap)
  /\ \A i \in 2..Len(q.heap) : i # at => q.heap[i \div 2].time <= q.heap[i].time
  /\ at > 1 => \A i \in 2..Len(q.heap) :
                 i \div 2 = at => q.heap[at \div 2].time <= q.heap[i].time

UpInv(S, q, i, n, s) ==
  \E p, a :
    /\ s = [q |-> p, at |-> a]
    /\ Rearranged(S, q, p) /\ UpOrdered(p, a)
    /\ HeapOrdered(p) \/ a + n <= i

LEMMA HeapTimes ==
  ASSUME NEW S, NEW q \in QueueType(S)
  PROVE  /\ Len(q.heap) \in Nat
         /\ \A k \in 1..Len(q.heap) : q.heap[k].time \in Int /\ q.heap[k].timer \in Timers
<1>1. PICK h \in Seq(EntryType) : h = q.heap
  BY DEF QueueType
<1>2. Len(h) \in Nat /\ \A k \in 1..Len(h) : h[k] \in EntryType
  OBVIOUS
<1> QED BY <1>1, <1>2 DEF EntryType

(* The entry at a goes to its parent's place.                              *)
LEMMA UpOnce ==
  ASSUME NEW S, NEW p \in QueueType(S), Indexed(p), NEW a, UpOrdered(p, a), a > 1,
         p.heap[a].time < p.heap[a \div 2].time
  PROVE  /\ a \div 2 \in 1..(a - 1)
         /\ Rearranged(S, p, swap_heap(p, a, a \div 2))
         /\ UpOrdered(swap_heap(p, a, a \div 2), a \div 2)
         /\ ~HeapOrdered(p)
<1>1. PICK L \in Nat : L = Len(p.heap)
  BY HeapTimes
<1>2. /\ \A k \in 1..L : p.heap[k].time \in Int
      /\ a \in 1..L
      /\ \A k \in 2..L : k # a => p.heap[k \div 2].time <= p.heap[k].time
      /\ \A k \in 2..L : k \div 2 = a => p.heap[a \div 2].time <= p.heap[k].time
  BY <1>1, HeapTimes DEF UpOrdered
<1>3. PICK b \in 1..(a - 1) : b = a \div 2
  BY <1>2, Parent
<1>4. b \in 1..L /\ a # b /\ a \in 2..L
  BY <1>2, <1>3
<1>5. PICK r : r = swap_heap(p, a, b)
  OBVIOUS
<1>6. /\ Rearranged(S, p, r) /\ Len(r.heap) = L
      /\ r.heap[a] = p.heap[b] /\ r.heap[b] = p.heap[a]
      /\ \A k \in 1..L : k # a /\ k # b => r.heap[k] = p.heap[k]
  BY <1>1, <1>2, <1>4, <1>5, Swap DEF Rearranged
<1>7. p.heap[a].time < p.heap[b].time
  BY <1>3
<1>8. ASSUME NEW k \in 2..L, k # b PROVE r.heap[k \div 2].time <= r.heap[k].time
  <2>1. PICK c \in 1..(k - 1) : c = k \div 2
    BY Parent
  <2>2. c \in 1..L /\ k \in 1..L
    BY <2>1
  <2>3. k # a => p.heap[c].time <= p.heap[k].time
    BY <1>2, <2>1
  <2>4. c = a => p.heap[b].time <= p.heap[k].time
    BY <1>2, <1>3, <2>1
  <2>5. CASE k = a
    BY <2>5, <2>1, <1>3, <1>6, <1>7, <1>2, <1>4
  <2>6. CASE k # a /\ c = a
    BY <2>6, <2>1, <2>2, <1>6, <2>4, <1>8
  <2>7. CASE k # a /\ c = b
    <3>1. r.heap[c] = p.heap[a] /\ r.heap[k] = p.heap[k]
      BY <2>7, <2>2, <1>6, <1>8
    <3>2. p.heap[a].time \in Int /\ p.heap[b].time \in Int /\ p.heap[k].time \in Int
      BY <1>2, <1>4, <2>2
    <3> QED BY <3>1, <3>2, <2>7, <2>3, <2>1, <1>7
  <2>8. CASE k # a /\ c # a /\ c # b
    BY <2>8, <2>1, <2>2, <2>3, <1>6, <1>8
  <2> QED BY <2>5, <2>6, <2>7, <2>8
<1>9. ASSUME b > 1, NEW k \in 2..L, k \div 2 = b
      PROVE  r.heap[b \div 2].time <= r.heap[k].time
  <2>1. PICK c \in 1..(b - 1) : c = b \div 2
    BY <1>9, Parent
  <2>2. c \in 1..L /\ c # a /\ c # b /\ k \in 1..L /\ k # b
    BY <2>1, <1>4, <1>9, <1>3, Parent
  <2>b. b \in 2..L /\ b # a
    BY <1>4, <1>9
  <2>3. r.heap[c] = p.heap[c] /\ p.heap[c].time <= p.heap[b].time
    BY <2>1, <2>2, <2>b, <1>6, <1>2
  <2>4. CASE k = a
    BY <2>1, <2>3, <2>4, <1>6
  <2>5. CASE k # a
    <3>1. p.heap[b].time <= p.heap[k].time /\ r.heap[k] = p.heap[k]
      BY <2>5, <2>2, <1>2, <1>6, <1>9
    <3>2. p.heap[c].time \in Int /\ p.heap[b].time \in Int /\ p.heap[k].time \in Int
      BY <1>2, <1>4, <2>2
    <3> QED BY <3>1, <3>2, <2>1, <2>3
  <2> QED BY <2>4, <2>5
<1>10. UpOrdered(r, b)
  BY <1>4, <1>6, <1>8, <1>9 DEF UpOrdered
<1>11. ~HeapOrdered(p)
  <2>1. p.heap[a].time \in Int /\ p.heap[b].time \in Int
    BY <1>2, <1>4
  <2>2. ~(p.heap[b].time <= p.heap[a].time)
    BY <2>1, <1>7
  <2> QED BY <2>2, <1>1, <1>3, <1>4 DEF HeapOrdered
<1> QED BY <1>3, <1>5, <1>6, <1>10, <1>11

LEMMA UpDone ==
  ASSUME NEW S, NEW p \in QueueType(S), NEW a, UpOrdered(p, a),
         ~(a > 1 /\ p.heap[a].time < p.heap[a \div 2].time)
  PROVE  HeapOrdered(p)
<1>1. PICK L \in Nat : L = Len(p.heap)
  BY HeapTimes
<1>2. /\ \A k \in 1..L : p.heap[k].time \in Int
      /\ a \in 1..L
      /\ \A k \in 2..L : k # a => p.heap[k \div 2].time <= p.heap[k].time
  BY <1>1, HeapTimes DEF UpOrdered
<1>3. ASSUME a > 1 PROVE p.heap[a \div 2].time <= p.heap[a].time
  <2>1. a \div 2 \in 1..L
    BY <1>2, <1>3, Parent
  <2>2. p.heap[a \div 2].time \in Int /\ p.heap[a].time \in Int
    BY <1>2, <2>1
  <2> QED BY <2>2, <1>3
<1>4. ASSUME NEW k \in 2..L PROVE p.heap[k \div 2].time <= p.heap[k].time
  BY <1>2, <1>3
<1> QED BY <1>1, <1>4 DEF HeapOrdered

LEMMA UpIteration ==
  ASSUME NEW S, NEW q \in QueueType(S), NEW i \in Nat, NEW n \in Nat, NEW s,
         UpInv(S, q, i, n, s)
  PROVE  UpInv(S, q, i, n + 1, UpStep(s))
<1>1. PICK p, a : /\ s = [q |-> p, at |-> a]
                  /\ Rearranged(S, q, p) /\ UpOrdered(p, a)
                  /\ HeapOrdered(p) \/ a + n <= i
  BY DEF UpInv
<1>2. p \in QueueType(S) /\ Indexed(p) /\ a \in Nat
  BY <1>1, HeapTimes DEF Rearranged, UpOrdered
<1>3. s.q = p /\ s.at = a
  BY <1>1
<1>4. CASE ~(a > 1 /\ p.heap[a].time < p.heap[a \div 2].time)
  <2>1. UpStep(s) = s
    BY <1>3, <1>4 DEF UpStep, less_than
  <2>2. HeapOrdered(p)
    BY <1>1, <1>2, <1>4, UpDone
  <2> QED BY <2>1, <2>2, <1>1 DEF UpInv
<1>5. CASE a > 1 /\ p.heap[a].time < p.heap[a \div 2].time
  <2>1. PICK r, b : r = swap_heap(p, a, b) /\ b = a \div 2
    OBVIOUS
  <2>2. UpStep(s) = [q |-> r, at |-> b]
    BY <1>3, <1>5, <2>1 DEF UpStep, less_than
  <2>3. b \in 1..(a - 1) /\ Rearranged(S, p, r) /\ UpOrdered(r, b) /\ ~HeapOrdered(p)
    BY <1>1, <1>2, <1>5, <2>1, UpOnce
  <2>4. Rearranged(S, q, r) /\ b + (n + 1) <= i
    BY <1>1, <1>2, <2>3, RearrangedTransitive
  <2> QED BY <2>2, <2>3, <2>4 DEF UpInv
<1> QED BY <1>4, <1>5

LEMMA UpHeap ==
  ASSUME NEW S, NEW q \in QueueType(S), Indexed(q), NEW i, UpOrdered(q, i)
  PROVE  Rearranged(S, q, up_heap(q, i)) /\ HeapOrdered(up_heap(q, i))
<1>1. PICK L \in Nat : L = Len(q.heap)
  BY HeapTimes
<1>i. i \in 1..L
  BY <1>1 DEF UpOrdered
<1>2. PICK g : up_heap(q, i) = g[L].q /\ UpLoop(g, L, q, i)
  BY <1>1, UpRun
<1> DEFINE T == {n \in 0..L : UpInv(S, q, i, n, g[n])}
<1>3. 0 \in T
  <2>1. g[0] = [q |-> q, at |-> i]
    BY <1>2 DEF UpLoop
  <2>2. Rearranged(S, q, q) /\ i + 0 <= i
    BY <1>i, RearrangedReflexive
  <2>3. UpInv(S, q, i, 0, g[0])
    BY <2>1, <2>2 DEF UpInv
  <2> QED BY <1>1, <2>3
<1>4. ASSUME NEW n \in 0..(L - 1), n \in T PROVE n + 1 \in T
  <2>1. g[n + 1] = UpStep(g[n])
    BY <1>2 DEF UpLoop
  <2>2. UpInv(S, q, i, n + 1, UpStep(g[n]))
    BY <1>i, <1>4, UpIteration
  <2> QED BY <2>1, <2>2
<1>5. L \in T
  <2> HIDE DEF T
  <2>1. \A n \in 0..L : n \in T
    BY <1>3, <1>4, BoundedInduction
  <2> QED BY <2>1
<1>6. PICK p, a : /\ g[L] = [q |-> p, at |-> a]
                  /\ Rearranged(S, q, p) /\ UpOrdered(p, a)
                  /\ HeapOrdered(p) \/ a + L <= i
  BY <1>5 DEF UpInv
<1>7. a \in Nat \ {0}
  BY <1>6, HeapTimes DEF UpOrdered, Rearranged
<1>8. HeapOrdered(p)
  BY <1>i, <1>6, <1>7
<1>9. up_heap(q, i) = p
  BY <1>2, <1>6
<1> QED BY <1>6, <1>8, <1>9

-----------------------------------------------------------------------------
(* down_heap restores the order of a heap in which only the entries below   *)
(* i may be due before the one at i.                                        *)
DownOrdered(q, at) ==
  /\ at \in 1..Len(q.heap)
  /\ \A i \in 2..Len(q.heap) : i \div 2 # at => q.heap[i \div 2].time <= q.heap[i].time
  /\ at > 1 => \A i \in 2..Len(q.heap) :
                 i \div 2 = at => q.heap[at \div 2].time <= q.heap[i].time

DownInv(S, q, i, n, s) ==
  \E p, a :
    /\ s = [q |-> p, at |-> a]
    /\ Rearranged(S, q, p) /\ DownOrdered(p, a)
    /\ DownStep(s) = s \/ i + n <= a

(* The child of at that is due first.                                      *)
LEMMA MinChild ==
  ASSUME NEW S, NEW p \in QueueType(S), NEW a \in Nat \ {0}, 2 * a <= Len(p.heap)
  PROVE  LET m == min_child(p, 2 * a) IN
         /\ m \in (a + 1)..Len(p.heap) /\ m \div 2 = a
         /\ \A k \in 2..Len(p.heap) : k \div 2 = a => p.heap[m].time <= p.heap[k].time
<1>1. PICK L \in Nat : L = Len(p.heap)
  BY HeapTimes
<1>2. PICK c \in Nat : c = 2 * a
  OBVIOUS
<1>3. \A k \in 1..L : p.heap[k].time \in Int
  BY <1>1, HeapTimes
<1>4. c \in 1..L /\ c \div 2 = a /\ (c + 1) \div 2 = a
  BY <1>1, <1>2, Children
<1>5. ASSUME NEW k \in 2..L, k \div 2 = a PROVE k = c \/ k = c + 1
  BY <1>5, <1>2, Parent
<1>6. CASE c = L
  <2>1. min_child(p, c) = c
    BY <1>1, <1>6 DEF min_child
  <2>2. ASSUME NEW k \in 2..L, k \div 2 = a PROVE k = c
    BY <2>2, <1>5, <1>6
  <2>3. ASSUME NEW k \in 2..L, k \div 2 = a PROVE p.heap[c].time <= p.heap[k].time
    <3>1. k = c /\ p.heap[c].time \in Int
      BY <2>2, <2>3, <1>3, <1>4
    <3> QED BY <3>1
  <2>4. c \in (a + 1)..L
    BY <1>2, <1>4
  <2> QED BY <2>1, <2>3, <2>4, <1>1, <1>2, <1>4
<1>7. CASE c # L /\ p.heap[c].time < p.heap[c + 1].time
  <2>1. min_child(p, c) = c
    BY <1>7 DEF min_child, less_than
  <2>2. p.heap[c].time \in Int /\ p.heap[c + 1].time \in Int
    BY <1>3, <1>4, <1>7
  <2>3. ASSUME NEW k \in 2..L, k \div 2 = a PROVE p.heap[c].time <= p.heap[k].time
    BY <2>2, <2>3, <1>5, <1>7
  <2>4. c \in (a + 1)..L
    BY <1>2, <1>4
  <2> QED BY <2>1, <2>3, <2>4, <1>1, <1>2, <1>4
<1>8. CASE c # L /\ ~(p.heap[c].time < p.heap[c + 1].time)
  <2>1. min_child(p, c) = c + 1
    BY <1>8, <1>1 DEF min_child, less_than
  <2>2. p.heap[c].time \in Int /\ p.heap[c + 1].time \in Int
    BY <1>3, <1>4, <1>8
  <2>3. ASSUME NEW k \in 2..L, k \div 2 = a PROVE p.heap[c + 1].time <= p.heap[k].time
    BY <2>2, <2>3, <1>5, <1>8
  <2>4. c + 1 \in (a + 1)..L
    <3>1. c \in 1..L /\ c # L
      BY <1>4, <1>8
    <3> QED BY <3>1, <1>2
  <2> QED BY <2>1, <2>3, <2>4, <1>1, <1>2, <1>4
<1> QED BY <1>6, <1>7, <1>8

LEMMA DownOnce ==
  ASSUME NEW S, NEW p \in QueueType(S), Indexed(p), NEW a, DownOrdered(p, a),
         2 * a <= Len(p.heap), NEW m, m = min_child(p, 2 * a),
         ~(p.heap[a].time < p.heap[m].time)
  PROVE  /\ m \in (a + 1)..Len(p.heap)
         /\ Rearranged(S, p, swap_heap(p, a, m))
         /\ DownOrdered(swap_heap(p, a, m), m)
<1>1. PICK L \in Nat : L = Len(p.heap)
  BY HeapTimes
<1>2. /\ \A k \in 1..L : p.heap[k].time \in Int
      /\ a \in 1..L
      /\ \A k \in 2..L : k \div 2 # a => p.heap[k \div 2].time <= p.heap[k].time
      /\ a > 1 => \A k \in 2..L : k \div 2 = a => p.heap[a \div 2].time <= p.heap[k].time
  BY <1>1, HeapTimes DEF DownOrdered
<1>3. /\ m \in (a + 1)..L /\ m \div 2 = a
      /\ \A k \in 2..L : k \div 2 = a => p.heap[m].time <= p.heap[k].time
  <2>1. a \in Nat \ {0}
    BY <1>2
  <2>2. /\ m \in (a + 1)..Len(p.heap) /\ m \div 2 = a
        /\ \A k \in 2..Len(p.heap) : k \div 2 = a => p.heap[m].time <= p.heap[k].time
    BY <2>1, MinChild
  <2> QED BY <1>1, <2>2
<1>4. m \in 1..L /\ a # m /\ m \in 2..L
  <2>1. m \in (a + 1)..L /\ a \in 1..L
    BY <1>2, <1>3
  <2> QED BY <2>1
<1>5. PICK r : r = swap_heap(p, a, m)
  OBVIOUS
<1>6. /\ Rearranged(S, p, r) /\ Len(r.heap) = L
      /\ r.heap[a] = p.heap[m] /\ r.heap[m] = p.heap[a]
      /\ \A k \in 1..L : k # a /\ k # m => r.heap[k] = p.heap[k]
  <2>1. a \in 1..Len(p.heap) /\ m \in 1..Len(p.heap) /\ a # m
    BY <1>1, <1>2, <1>4
  <2>2. /\ Rearranged(S, p, r)
        /\ r.heap[a] = p.heap[m] /\ r.heap[m] = p.heap[a]
        /\ \A k \in 1..Len(p.heap) : k # a /\ k # m => r.heap[k] = p.heap[k]
    BY <1>5, <2>1, Swap
  <2>3. Len(r.heap) = L
    BY <1>1, <2>2 DEF Rearranged
  <2> QED BY <1>1, <2>2, <2>3
<1>7. p.heap[m].time <= p.heap[a].time
  BY <1>2, <1>4
<1>8. ASSUME NEW k \in 2..L, k \div 2 # m PROVE r.heap[k \div 2].time <= r.heap[k].time
  <2>1. PICK c \in 1..(k - 1) : c = k \div 2
    BY Parent
  <2>2. c \in 1..L /\ k \in 1..L /\ c # m /\ c # k
    BY <2>1, <1>8
  <2>3. c # a => p.heap[c].time <= p.heap[k].time
    BY <1>2, <2>1
  <2>4. CASE k = m
    BY <2>4, <2>1, <1>3, <1>6, <1>7
  <2>5. CASE k # m /\ c = a
    <3>1. p.heap[m].time <= p.heap[k].time
      BY <2>5, <2>1, <1>3
    <3>2. k # a
      BY <2>5, <2>2
    <3> QED BY <3>1, <3>2, <2>5, <2>1, <2>2, <1>6
  <2>6. CASE k # m /\ c # a /\ k = a
    <3>1. p.heap[c].time <= p.heap[m].time
      BY <2>6, <2>1, <1>2, <1>3, <1>4
    <3> QED BY <3>1, <2>6, <2>1, <2>2, <1>6
  <2>7. CASE k # m /\ c # a /\ k # a
    BY <2>7, <2>1, <2>2, <2>3, <1>6
  <2> QED BY <2>4, <2>5, <2>6, <2>7
<1>9. ASSUME NEW k \in 2..L, k \div 2 = m
      PROVE  r.heap[m \div 2].time <= r.heap[k].time
  <2>1. k \in 1..L /\ k # a /\ k # m
    BY <1>9, <1>3, <1>2, Parent
  <2>2. r.heap[a] = p.heap[m] /\ r.heap[k] = p.heap[k]
    BY <2>1, <1>6
  <2>3. p.heap[m].time <= p.heap[k].time
    BY <1>2, <1>4, <1>9
  <2> QED BY <2>2, <2>3, <1>3
<1>10. DownOrdered(r, m)
  BY <1>4, <1>6, <1>8, <1>9 DEF DownOrdered
<1> QED BY <1>1, <1>3, <1>5, <1>6, <1>10

LEMMA DownDone ==
  ASSUME NEW S, NEW p \in QueueType(S), NEW a, DownOrdered(p, a),
         2 * a <= Len(p.heap) => p.heap[a].time < p.heap[min_child(p, 2 * a)].time
  PROVE  HeapOrdered(p)
<1>1. PICK L \in Nat : L = Len(p.heap)
  BY HeapTimes
<1>2. /\ \A k \in 1..L : p.heap[k].time \in Int
      /\ a \in 1..L
      /\ \A k \in 2..L : k \div 2 # a => p.heap[k \div 2].time <= p.heap[k].time
  BY <1>1, HeapTimes DEF DownOrdered
<1>3. ASSUME NEW k \in 2..L, k \div 2 = a PROVE p.heap[k \div 2].time <= p.heap[k].time
  <2>1. 2 * a <= L
    BY <1>2, <1>3, Parent
  <2>2. PICK m : m = min_child(p, 2 * a)
    OBVIOUS
  <2>3. m \in (a + 1)..L /\ p.heap[m].time <= p.heap[k].time /\ p.heap[a].time < p.heap[m].time
    BY <1>1, <1>2, <1>3, <2>1, <2>2, MinChild
  <2>4. p.heap[a].time \in Int /\ p.heap[m].time \in Int /\ p.heap[k].time \in Int
    BY <1>2, <2>3
  <2> QED BY <2>3, <2>4, <1>3
<1>4. ASSUME NEW k \in 2..L PROVE p.heap[k \div 2].time <= p.heap[k].time
  BY <1>2, <1>3
<1> QED BY <1>1, <1>4 DEF HeapOrdered

(* Where the loop breaks, and where it does not.                           *)
LEMMA DownStepIs ==
  ASSUME NEW S, NEW p \in QueueType(S), Indexed(p), NEW a, DownOrdered(p, a)
  PROVE  \/ DownStep([q |-> p, at |-> a]) = [q |-> p, at |-> a] /\ HeapOrdered(p)
         \/ \E r, m : /\ DownStep([q |-> p, at |-> a]) = [q |-> r, at |-> m]
                      /\ m \in (a + 1)..Len(p.heap)
                      /\ Rearranged(S, p, r) /\ DownOrdered(r, m)
<1>0. PICK s : s = [q |-> p, at |-> a]
  OBVIOUS
<1>1. s = [q |-> p, at |-> a] /\ s.q = p /\ s.at = a
  BY <1>0
<1>2. PICK m : m = min_child(p, 2 * a)
  OBVIOUS
<1>3. CASE 2 * a <= Len(p.heap) => p.heap[a].time < p.heap[m].time
  <2>1. DownStep(s) = s
    BY <1>1, <1>2, <1>3 DEF DownStep, less_than
  <2>2. HeapOrdered(p)
    BY <1>2, <1>3, DownDone
  <2> QED BY <2>1, <2>2, <1>1
<1>4. CASE 2 * a <= Len(p.heap) /\ ~(p.heap[a].time < p.heap[m].time)
  <2>1. PICK r : r = swap_heap(p, a, m)
    OBVIOUS
  <2>2. DownStep(s) = [q |-> r, at |-> m]
    BY <1>1, <1>2, <1>4, <2>1 DEF DownStep, less_than
  <2>3. m \in (a + 1)..Len(p.heap) /\ Rearranged(S, p, r) /\ DownOrdered(r, m)
    BY <1>2, <1>4, <2>1, DownOnce
  <2> QED BY <2>2, <2>3, <1>1
<1> QED BY <1>3, <1>4

LEMMA DownIteration ==
  ASSUME NEW S, NEW q \in QueueType(S), NEW i \in Nat, NEW n \in Nat, NEW s,
         DownInv(S, q, i, n, s)
  PROVE  DownInv(S, q, i, n + 1, DownStep(s))
<1>1. PICK p, a : /\ s = [q |-> p, at |-> a]
                  /\ Rearranged(S, q, p) /\ DownOrdered(p, a)
                  /\ DownStep(s) = s \/ i + n <= a
  BY DEF DownInv
<1>2. p \in QueueType(S) /\ Indexed(p) /\ a \in Nat
  BY <1>1, HeapTimes DEF Rearranged, DownOrdered
<1>3. CASE DownStep(s) = s
  BY <1>1, <1>3 DEF DownInv
<1>4. CASE DownStep(s) # s
  <2>1. PICK r, m : /\ DownStep(s) = [q |-> r, at |-> m]
                    /\ m \in (a + 1)..Len(p.heap)
                    /\ Rearranged(S, p, r) /\ DownOrdered(r, m)
    BY <1>1, <1>2, <1>4, DownStepIs
  <2>2. Rearranged(S, q, r)
    BY <1>1, <2>1, RearrangedTransitive
  <2>3. i + (n + 1) <= m
    BY <1>1, <1>2, <1>4, <2>1, HeapTimes
  <2> QED BY <2>1, <2>2, <2>3 DEF DownInv
<1> QED BY <1>3, <1>4

LEMMA DownHeap ==
  ASSUME NEW S, NEW q \in QueueType(S), Indexed(q), NEW i, DownOrdered(q, i)
  PROVE  Rearranged(S, q, down_heap(q, i)) /\ HeapOrdered(down_heap(q, i))
<1>1. PICK L \in Nat : L = Len(q.heap)
  BY HeapTimes
<1>i. i \in 1..L
  BY <1>1 DEF DownOrdered
<1>2. PICK g : down_heap(q, i) = g[L].q /\ DownLoop(g, L, q, i)
  BY <1>1, DownRun
<1> DEFINE T == {n \in 0..L : DownInv(S, q, i, n, g[n])}
<1>3. 0 \in T
  <2>1. g[0] = [q |-> q, at |-> i]
    BY <1>2 DEF DownLoop
  <2>2. Rearranged(S, q, q) /\ i + 0 <= i
    BY <1>i, RearrangedReflexive
  <2>3. DownInv(S, q, i, 0, g[0])
    BY <2>1, <2>2 DEF DownInv
  <2> QED BY <1>1, <2>3
<1>4. ASSUME NEW n \in 0..(L - 1), n \in T PROVE n + 1 \in T
  <2>1. g[n + 1] = DownStep(g[n])
    BY <1>2 DEF DownLoop
  <2>2. DownInv(S, q, i, n + 1, DownStep(g[n]))
    BY <1>i, <1>4, DownIteration
  <2> QED BY <2>1, <2>2
<1>5. L \in T
  <2> HIDE DEF T
  <2>1. \A n \in 0..L : n \in T
    BY <1>3, <1>4, BoundedInduction
  <2> QED BY <2>1
<1>6. PICK p, a : /\ g[L] = [q |-> p, at |-> a]
                  /\ Rearranged(S, q, p) /\ DownOrdered(p, a)
                  /\ DownStep(g[L]) = g[L] \/ i + L <= a
  BY <1>5 DEF DownInv
<1>7. a \in 1..L /\ p \in QueueType(S) /\ Indexed(p)
  BY <1>1, <1>6 DEF DownOrdered, Rearranged
<1>8. DownStep([q |-> p, at |-> a]) = [q |-> p, at |-> a]
  BY <1>i, <1>6, <1>7
<1>9. HeapOrdered(p)
  <2>1. SUFFICES ASSUME NEW r, NEW m, DownStep([q |-> p, at |-> a]) = [q |-> r, at |-> m],
                        m \in (a + 1)..Len(p.heap)
                 PROVE  FALSE
    BY <1>6, <1>7, DownStepIs
  <2>2. m = a
    BY <2>1, <1>8
  <2> QED BY <2>1, <2>2, <1>7
<1>10. down_heap(q, i) = p
  BY <1>2, <1>6
<1> QED BY <1>6, <1>9, <1>10

-----------------------------------------------------------------------------
(* The entry in a hole of the heap may belong further up or further down.  *)
HoleOrdered(q, at) ==
  /\ at \in 1..Len(q.heap)
  /\ \A i \in 2..Len(q.heap) :
       i # at /\ i \div 2 # at => q.heap[i \div 2].time <= q.heap[i].time
  /\ at > 1 => \A i \in 2..Len(q.heap) :
                 i \div 2 = at => q.heap[at \div 2].time <= q.heap[i].time

LEMMA ResiftHeap ==
  ASSUME NEW S, NEW q \in QueueType(S), Indexed(q), NEW i, HoleOrdered(q, i)
  PROVE  Rearranged(S, q, Resift(q, i)) /\ HeapOrdered(Resift(q, i))
<1>1. PICK L \in Nat : L = Len(q.heap)
  BY HeapTimes
<1>2. /\ \A k \in 1..L : q.heap[k].time \in Int
      /\ i \in 1..L
      /\ \A k \in 2..L : k # i /\ k \div 2 # i => q.heap[k \div 2].time <= q.heap[k].time
      /\ i > 1 => \A k \in 2..L : k \div 2 = i => q.heap[i \div 2].time <= q.heap[k].time
  BY <1>1, HeapTimes DEF HoleOrdered
<1>3. CASE i > 1 /\ less_than(q, i, i \div 2)
  <2>1. PICK c \in 1..(i - 1) : c = i \div 2
    BY <1>2, <1>3, Parent
  <2>2. q.heap[i].time < q.heap[c].time /\ q.heap[i].time \in Int /\ q.heap[c].time \in Int
    BY <1>2, <1>3, <2>1 DEF less_than
  <2>3. ASSUME NEW k \in 2..L, k # i PROVE q.heap[k \div 2].time <= q.heap[k].time
    <3>1. CASE k \div 2 = i
      <4>1. q.heap[c].time <= q.heap[k].time /\ q.heap[k].time \in Int
        BY <3>1, <1>2, <1>3, <2>1
      <4> QED BY <4>1, <3>1, <2>2
    <3> QED BY <3>1, <2>3, <1>2
  <2>4. UpOrdered(q, i)
    BY <2>3, <1>1, <1>2 DEF UpOrdered
  <2>5. Resift(q, i) = up_heap(q, i)
    BY <1>3 DEF Resift
  <2> QED BY <2>4, <2>5, UpHeap
<1>4. CASE ~(i > 1 /\ less_than(q, i, i \div 2))
  <2>1. ASSUME NEW k \in 2..L, k \div 2 # i PROVE q.heap[k \div 2].time <= q.heap[k].time
    <3>1. CASE k = i
      <4>1. PICK c \in 1..(k - 1) : c = k \div 2
        BY Parent
      <4>2. ~(q.heap[k].time < q.heap[c].time)
        BY <3>1, <4>1, <1>4 DEF less_than
      <4>3. q.heap[k].time \in Int /\ q.heap[c].time \in Int
        BY <1>2, <4>1
      <4> QED BY <4>1, <4>2, <4>3
    <3> QED BY <3>1, <2>1, <1>2
  <2>2. DownOrdered(q, i)
    BY <2>1, <1>1, <1>2 DEF DownOrdered
  <2>3. Resift(q, i) = down_heap(q, i)
    BY <1>4 DEF Resift
  <2> QED BY <2>2, <2>3, DownHeap
<1> QED BY <1>3, <1>4

-----------------------------------------------------------------------------
(* A timer leaves the heap.                                                *)

(* r is q without the heap entry of t; the list is not touched.            *)
HeapWithout(S, q, r, t) ==
  /\ r \in QueueType(S) /\ Len(r.heap) = Len(q.heap) - 1
  /\ r.timers = q.timers /\ r.next = q.next /\ r.prev = q.prev /\ r.ops = q.ops
  /\ Indexed(r)
  /\ Entries(r) = {e \in Entries(q) : e.timer # t}
  /\ r.index[t] = NoIndex
  /\ \A x \in Timers \ InHeap(q) : x # t => r.index[x] = q.index[x]

LEMMA NoIndexIsNat ==
  NoIndex \in Nat
  BY TimerQueueAssumption, FS_CardinalityType DEF NoIndex

LEMMA PopBackIs ==
  ASSUME NEW S, NEW q \in QueueType(S), Indexed(q), NEW L \in Nat, L = Len(q.heap), L > 0,
         NEW t, t = q.heap[L].timer
  PROVE  /\ HeapWithout(S, q, PopBack(q, t), t)
         /\ \A k \in 1..(L - 1) : PopBack(q, t).heap[k] = q.heap[k]
<1>1. t \in Timers
  BY HeapTimes
<1>2. PICK h : h = Front(q.heap)
  OBVIOUS
<1>3. /\ h \in Seq(EntryType) /\ Len(h) = L - 1
      /\ \A k \in 1..(L - 1) : h[k] = q.heap[k]
  <2>1. PICK g \in Seq(EntryType) : g = q.heap
    BY DEF QueueType
  <2>2. h = SubSeq(g, 1, L - 1)
    BY <1>2, <2>1 DEF Front
  <2>3. L = Len(g)
    BY <2>1
  <2> QED BY <2>1, <2>2, <2>3
<1>4. PICK x : x = [q.index EXCEPT ![t] = NoIndex]
  OBVIOUS
<1>5. /\ x \in [Timers -> Nat] /\ x[t] = NoIndex
      /\ \A y \in Timers : y # t => x[y] = q.index[y]
  BY <1>1, <1>4, NoIndexIsNat DEF QueueType
<1>6. PICK r : r = PopBack(q, t)
  OBVIOUS
<1>7. /\ r \in QueueType(S) /\ r.heap = h /\ r.index = x
      /\ r.timers = q.timers /\ r.next = q.next /\ r.prev = q.prev /\ r.ops = q.ops
  <2> DEFINE p == [q EXCEPT !.index = x]
  <2>p. /\ p \in QueueType(S) /\ p.heap = q.heap /\ p.index = x
        /\ p.timers = q.timers /\ p.next = q.next /\ p.prev = q.prev /\ p.ops = q.ops
    BY <1>5 DEF QueueType
  <2>r. r = [p EXCEPT !.heap = h]
    BY <1>2, <1>4, <1>6 DEF PopBack, QueueType
  <2> HIDE DEF p
  <2> QED BY <2>p, <2>r, <1>3 DEF QueueType
<1>8. \A k \in 1..(L - 1) : q.heap[k].timer # t /\ q.heap[k].timer \in Timers
  <2> SUFFICES ASSUME NEW k \in 1..(L - 1), q.heap[k].timer = t PROVE FALSE
    BY HeapTimes
  <2>1. q.index[t] = k /\ q.index[t] = L
    BY DEF Indexed
  <2> QED BY <2>1
<1>9. Indexed(r)
  <2> SUFFICES ASSUME NEW k \in 1..(L - 1) PROVE x[h[k].timer] = k
    BY <1>3, <1>7 DEF Indexed
  <2>1. h[k] = q.heap[k] /\ q.index[q.heap[k].timer] = k
    BY <1>3 DEF Indexed
  <2> QED BY <2>1, <1>5, <1>8
<1>10. Entries(r) = {e \in Entries(q) : e.timer # t}
  <2>1. \A e \in Entries(r) : e \in Entries(q) /\ e.timer # t
    <3> SUFFICES ASSUME NEW k \in 1..(L - 1)
                 PROVE  h[k] \in Entries(q) /\ h[k].timer # t
      BY <1>3, <1>7 DEF Entries
    <3> QED BY <1>3, <1>8 DEF Entries
  <2>2. \A e \in Entries(q) : e.timer # t => e \in Entries(r)
    <3> SUFFICES ASSUME NEW k \in 1..L, q.heap[k].timer # t
                 PROVE  q.heap[k] \in Entries(r)
      BY DEF Entries
    <3>1. k \in 1..(L - 1)
      OBVIOUS
    <3>2. q.heap[k] = h[k]
      BY <3>1, <1>3
    <3> QED BY <3>1, <3>2, <1>3, <1>7 DEF Entries
  <2> QED BY <2>1, <2>2
<1>11. HeapWithout(S, q, r, t)
  BY <1>3, <1>5, <1>7, <1>9, <1>10 DEF HeapWithout
<1> QED BY <1>3, <1>6, <1>7, <1>11

LEMMA RemoveFromHeapIs ==
  ASSUME NEW S, NEW q \in QueueType(S), Indexed(q), HeapOrdered(q), NEW t \in InHeap(q)
  PROVE  HeapWithout(S, q, RemoveFromHeap(q, t), t) /\ HeapOrdered(RemoveFromHeap(q, t))
<1>1. PICK L \in Nat : L = Len(q.heap)
  BY HeapTimes
<1>2. PICK i \in 1..L : i = q.index[t] /\ q.heap[i].timer = t
  BY <1>1 DEF InHeap, Indexed
<1>3. \A k \in 2..L : q.heap[k \div 2].time <= q.heap[k].time
  BY <1>1 DEF HeapOrdered
<1>t. \A k \in 1..L : q.heap[k].time \in Int
  BY <1>1, HeapTimes
<1>4. CASE i = L
  <2>1. RemoveFromHeap(q, t) = PopBack(q, t)
    BY <1>1, <1>2, <1>4 DEF RemoveFromHeap
  <2>2. PICK r : r = PopBack(q, t)
    OBVIOUS
  <2>3. HeapWithout(S, q, r, t) /\ \A k \in 1..(L - 1) : r.heap[k] = q.heap[k]
    BY <1>1, <1>2, <1>4, <2>2, PopBackIs
  <2>4. HeapOrdered(r)
    <3> SUFFICES ASSUME NEW k \in 2..(L - 1) PROVE r.heap[k \div 2].time <= r.heap[k].time
      BY <1>1, <2>3 DEF HeapOrdered, HeapWithout
    <3>1. PICK c \in 1..(k - 1) : c = k \div 2
      BY Parent
    <3> QED BY <3>1, <1>3, <2>3
  <2> QED BY <2>1, <2>2, <2>3, <2>4
<1>5. CASE i # L
  <2>1. PICK p : p = swap_heap(q, i, L)
    OBVIOUS
  <2>2. /\ Rearranged(S, q, p) /\ p.heap[i] = q.heap[L] /\ p.heap[L] = q.heap[i]
        /\ \A k \in 1..L : k # i /\ k # L => p.heap[k] = q.heap[k]
    BY <1>1, <1>2, <1>5, <2>1, Swap
  <2>3. p \in QueueType(S) /\ Indexed(p) /\ Len(p.heap) = L
    BY <1>1, <2>2 DEF Rearranged
  <2>4. PICK m : m = PopBack(p, t)
    OBVIOUS
  <2>5. HeapWithout(S, p, m, t) /\ \A k \in 1..(L - 1) : m.heap[k] = p.heap[k]
    BY <1>2, <2>2, <2>3, <2>4, PopBackIs
  <2>6. m \in QueueType(S) /\ Indexed(m) /\ Len(m.heap) = L - 1
    BY <2>3, <2>5 DEF HeapWithout
  <2>7. i \in 1..(L - 1) /\ \A k \in 1..(L - 1) : k # i => m.heap[k] = q.heap[k]
    BY <1>2, <1>5, <2>2, <2>5
  <2>8. HoleOrdered(m, i)
    <3>1. ASSUME NEW k \in 2..(L - 1), k # i, k \div 2 # i
          PROVE  m.heap[k \div 2].time <= m.heap[k].time
      <4>1. PICK c \in 1..(k - 1) : c = k \div 2
        BY Parent
      <4>2. m.heap[c] = q.heap[c] /\ m.heap[k] = q.heap[k]
        BY <4>1, <3>1, <2>7
      <4> QED BY <4>1, <4>2, <1>3
    <3>2. ASSUME i > 1, NEW k \in 2..(L - 1), k \div 2 = i
          PROVE  m.heap[i \div 2].time <= m.heap[k].time
      <4>1. PICK c \in 1..(i - 1) : c = i \div 2
        BY <1>2, <3>2, Parent
      <4>2. k # i
        BY <3>2, Parent
      <4>3. m.heap[c] = q.heap[c] /\ m.heap[k] = q.heap[k]
        BY <4>1, <4>2, <2>7
      <4>4. q.heap[c].time <= q.heap[i].time /\ q.heap[i].time <= q.heap[k].time
        BY <4>1, <3>2, <1>2, <1>3
      <4>5. q.heap[c].time \in Int /\ q.heap[i].time \in Int /\ q.heap[k].time \in Int
        BY <1>t, <4>1, <1>2
      <4> QED BY <4>1, <4>3, <4>4, <4>5
    <3> QED BY <3>1, <3>2, <2>6, <2>7 DEF HoleOrdered
  <2>9. PICK r : r = Resift(m, i)
    OBVIOUS
  <2>10. Rearranged(S, m, r) /\ HeapOrdered(r)
    BY <2>6, <2>8, <2>9, ResiftHeap
  <2>11. RemoveFromHeap(q, t) = r
    BY <1>1, <1>2, <1>5, <2>1, <2>4, <2>9 DEF RemoveFromHeap
  <2>12. InHeap(p) = InHeap(q) /\ t \notin InHeap(m) /\ InHeap(m) \subseteq InHeap(q)
    <3>1. InHeap(p) = InHeap(q)
      BY <2>2, InHeapOfEntries DEF Rearranged
    <3>2. /\ InHeap(m) = {e.timer : e \in Entries(m)}
          /\ InHeap(p) = {e.timer : e \in Entries(p)}
      BY DEF InHeap, Entries
    <3>3. Entries(m) = {e \in Entries(p) : e.timer # t}
      BY <2>5 DEF HeapWithout
    <3> QED BY <3>1, <3>2, <3>3
  <2>13. t \in Timers
    BY <1>1, <1>2, HeapTimes
  <2>14. HeapWithout(S, q, r, t)
    <3>1. /\ r \in QueueType(S) /\ Len(r.heap) = L - 1 /\ Indexed(r)
          /\ r.timers = q.timers /\ r.next = q.next /\ r.prev = q.prev /\ r.ops = q.ops
      BY <2>2, <2>5, <2>6, <2>10 DEF Rearranged, HeapWithout
    <3>2. Entries(r) = {e \in Entries(q) : e.timer # t}
      BY <2>2, <2>5, <2>10 DEF Rearranged, HeapWithout
    <3>3. r.index[t] = NoIndex
      BY <2>5, <2>10, <2>12, <2>13 DEF Rearranged, HeapWithout
    <3>4. ASSUME NEW x \in Timers \ InHeap(q), x # t PROVE r.index[x] = q.index[x]
      BY <3>4, <2>2, <2>5, <2>10, <2>12 DEF Rearranged, HeapWithout
    <3> QED BY <3>1, <3>2, <3>3, <3>4, <1>1 DEF HeapWithout
  <2> QED BY <2>10, <2>11, <2>14
<1> QED BY <1>4, <1>5

(* The first entry of a heap is due first.                                 *)
LEMMA RootLeast ==
  ASSUME NEW S, NEW q \in QueueType(S), HeapOrdered(q)
  PROVE  \A e \in Entries(q) : q.heap[1].time <= e.time
<1>1. PICK L \in Nat : L = Len(q.heap)
  BY HeapTimes
<1>2. \A k \in 1..L : q.heap[k].time \in Int
  BY <1>1, HeapTimes
<1> DEFINE T == {n \in 0..L : \A k \in 1..n : q.heap[1].time <= q.heap[k].time}
<1>3. 0 \in T
  OBVIOUS
<1>4. ASSUME NEW n \in 0..(L - 1), n \in T PROVE n + 1 \in T
  <2> SUFFICES ASSUME NEW k \in 1..(n + 1) PROVE q.heap[1].time <= q.heap[k].time
    OBVIOUS
  <2>1. CASE k \in 1..n
    BY <2>1, <1>4
  <2>2. CASE k = 1
    BY <2>2, <1>2
  <2>3. CASE k = n + 1 /\ k > 1
    <3>1. PICK c \in 1..(k - 1) : c = k \div 2
      BY <2>3, Parent
    <3>2. q.heap[c].time <= q.heap[k].time
      BY <1>1, <2>3, <3>1 DEF HeapOrdered
    <3>3. q.heap[1].time <= q.heap[c].time
      BY <2>3, <3>1, <1>4
    <3>4. q.heap[1].time \in Int /\ q.heap[c].time \in Int /\ q.heap[k].time \in Int
      BY <1>2, <2>3, <3>1
    <3> QED BY <3>2, <3>3, <3>4
  <2> QED BY <2>1, <2>2, <2>3
<1>5. L \in T
  <2> HIDE DEF T
  <2>1. \A n \in 0..L : n \in T
    BY <1>3, <1>4, BoundedInduction
  <2> QED BY <2>1
<1> QED BY <1>1, <1>5 DEF Entries

-----------------------------------------------------------------------------
(* The list of the active timers.                                          *)

(* The timers of S, and no others, are linked from first on: rank is the    *)
(* position of each in the list.                                            *)
Ranked(first, next, prev, S, rank, n) ==
  /\ rank \in [S -> 1..n]
  /\ \A x, y \in S : rank[x] = rank[y] => x = y
  /\ first \in S \cup {Nil}
  /\ \A x \in S : first = x <=> rank[x] = 1
  /\ \A x \in S : rank[x] = 1 => prev[x] = Nil
  /\ \A x \in S : rank[x] > 1 => /\ prev[x] \in S /\ next[prev[x]] = x
                                 /\ rank[prev[x]] = rank[x] - 1
  /\ \A x \in S : next[x] # Nil => next[x] \in S /\ prev[next[x]] = x

Listed(first, next, prev, S, n) == \E rank : Ranked(first, next, prev, S, rank, n)

LEMMA ListedEmpty ==
  ASSUME NEW next, NEW prev
  PROVE  Listed(Nil, next, prev, {}, 0)
<1>1. [x \in {} |-> 1] \in [{} -> 1..0]
  OBVIOUS
<1> QED BY <1>1 DEF Listed, Ranked

LEMMA ListedSame ==
  ASSUME NEW first, NEW next, NEW prev, NEW S, NEW n, Listed(first, next, prev, S, n),
         NEW next1, NEW prev1, \A x \in S : next1[x] = next[x] /\ prev1[x] = prev[x]
  PROVE  Listed(first, next1, prev1, S, n)
<1>1. PICK rank : Ranked(first, next, prev, S, rank, n)
  BY DEF Listed
<1>2. Ranked(first, next1, prev1, S, rank, n)
  BY <1>1 DEF Ranked
<1> QED BY <1>2 DEF Listed

(* Linked tells the timers of the list from the others.                    *)
ListFacts(first, next, prev, S) ==
  /\ \A x \in S : prev[x] # Nil \/ first = x
  /\ first # Nil => first \in S
  /\ \A x \in S : prev[x] # Nil => prev[x] \in S /\ next[prev[x]] = x
  /\ \A x \in S : next[x] # Nil => next[x] \in S /\ prev[next[x]] = x

LEMMA ListedLinked ==
  ASSUME NEW first, NEW next, NEW prev, NEW S, S \subseteq Timers, NEW n \in Nat,
         Listed(first, next, prev, S, n)
  PROVE  ListFacts(first, next, prev, S)
<1>1. PICK rank : Ranked(first, next, prev, S, rank, n)
  BY DEF Listed
<1>2. \A x \in S : rank[x] = 1 \/ rank[x] > 1
  BY <1>1 DEF Ranked
<1>3. \A x \in S : x # Nil
  BY TimerQueueAssumption
<1> QED BY <1>1, <1>2, <1>3 DEF Ranked, ListFacts

(* A timer is put in front of the list.                                    *)
PushedLinks(first, next, prev, S, t, next1, prev1) ==
  /\ next1[t] = first /\ prev1[t] = Nil
  /\ \A x \in S : /\ next1[x] = next[x]
                   /\ prev1[x] = IF x = first THEN t ELSE prev[x]

LEMMA ListedPush ==
  ASSUME NEW first, NEW next, NEW prev, NEW S, S \subseteq Timers, NEW n \in Nat,
         Listed(first, next, prev, S, n), NEW t \in Timers \ S,
         NEW next1, NEW prev1,
         PushedLinks(first, next, prev, S, t, next1, prev1)
  PROVE  Listed(t, next1, prev1, S \cup {t}, n + 1)
<1>1. PICK rank : Ranked(first, next, prev, S, rank, n)
  BY DEF Listed
<1> USE DEF PushedLinks
<1> DEFINE S1 == S \cup {t}
           rank1 == [x \in S1 |-> IF x = t THEN 1 ELSE rank[x] + 1]
<1>2. \A x \in S : rank[x] \in 1..n
  BY <1>1 DEF Ranked
<1>3. /\ rank1 \in [S1 -> 1..(n + 1)] /\ rank1[t] = 1
      /\ \A x \in S : rank1[x] = rank[x] + 1 /\ rank1[x] > 1 /\ x # t /\ x # Nil
  BY <1>2, TimerQueueAssumption
<1>4. t # Nil
  BY TimerQueueAssumption
<1> HIDE DEF rank1
<1>5. \A x, y \in S1 : rank1[x] = rank1[y] => x = y
  <2> SUFFICES ASSUME NEW x \in S1, NEW y \in S1, rank1[x] = rank1[y] PROVE x = y
    OBVIOUS
  <2>1. CASE x = t \/ y = t
    BY <2>1, <1>2, <1>3
  <2>2. CASE x # t /\ y # t
    BY <2>2, <1>1, <1>2, <1>3 DEF Ranked
  <2> QED BY <2>1, <2>2
<1>6. \A x \in S1 : t = x <=> rank1[x] = 1
  BY <1>3
<1>7. \A x \in S1 : rank1[x] = 1 => prev1[x] = Nil
  BY <1>3
<1>8. ASSUME NEW x \in S1, rank1[x] > 1
      PROVE  prev1[x] \in S1 /\ next1[prev1[x]] = x /\ rank1[prev1[x]] = rank1[x] - 1
  <2>1. x \in S
    BY <1>3, <1>8
  <2>2. CASE x = first
    <3>1. rank[x] = 1 /\ prev1[x] = t
      BY <2>1, <2>2, <1>1 DEF Ranked
    <3> QED BY <3>1, <2>1, <2>2, <1>3
  <2>3. CASE x # first
    <3>1. rank[x] > 1 /\ prev1[x] = prev[x]
      BY <2>1, <2>3, <1>1, <1>2 DEF Ranked
    <3>2. prev[x] \in S /\ next[prev[x]] = x /\ rank[prev[x]] = rank[x] - 1
      BY <3>1, <2>1, <1>1 DEF Ranked
    <3> QED BY <3>1, <3>2, <2>1, <1>2, <1>3
  <2> QED BY <2>2, <2>3
<1>9. ASSUME NEW x \in S1, next1[x] # Nil
      PROVE  next1[x] \in S1 /\ prev1[next1[x]] = x
  <2>1. CASE x = t
    <3>1. first \in S
      BY <2>1, <1>9, <1>1 DEF Ranked
    <3> QED BY <3>1, <2>1
  <2>2. CASE x \in S
    <3>1. next1[x] = next[x] /\ next[x] \in S /\ prev[next[x]] = x
      BY <2>2, <1>9, <1>1 DEF Ranked
    <3>2. next[x] # first
      BY <3>1, <2>2, <1>3, <1>1 DEF Ranked
    <3> QED BY <3>1, <3>2
  <2> QED BY <2>1, <2>2
<1>10. Ranked(t, next1, prev1, S1, rank1, n + 1)
  BY <1>3, <1>5, <1>6, <1>7, <1>8, <1>9 DEF Ranked
<1> QED BY <1>10 DEF Listed

(* A timer is taken out of the list.                                       *)
UnlinkedLinks(first, next, prev, S, t, first1, next1, prev1) ==
  /\ first1 = IF first = t THEN next[t] ELSE first
  /\ \A x \in S : x # t => next1[x] = IF x = prev[t] THEN next[t] ELSE next[x]
  /\ \A x \in S : x # t => prev1[x] = IF x = next[t] THEN prev[t] ELSE prev[x]

LEMMA ListedUnlink ==
  ASSUME NEW first, NEW next, NEW prev, NEW S, S \subseteq Timers, NEW n \in Nat,
         Listed(first, next, prev, S, n), NEW t \in S,
         NEW next1, NEW prev1, NEW first1,
         UnlinkedLinks(first, next, prev, S, t, first1, next1, prev1)
  PROVE  Listed(first1, next1, prev1, S \ {t}, n - 1)
<1>1. PICK rank : Ranked(first, next, prev, S, rank, n)
  BY DEF Listed
<1> USE DEF UnlinkedLinks
<1>2. /\ \A x \in S : rank[x] \in 1..n
      /\ \A x, y \in S : rank[x] = rank[y] => x = y
      /\ first \in S \cup {Nil}
      /\ \A x \in S : first = x <=> rank[x] = 1
      /\ \A x \in S : rank[x] = 1 => prev[x] = Nil
      /\ \A x \in S : rank[x] > 1 => /\ prev[x] \in S /\ next[prev[x]] = x
                                     /\ rank[prev[x]] = rank[x] - 1
      /\ \A x \in S : next[x] # Nil => next[x] \in S /\ prev[next[x]] = x
  BY <1>1 DEF Ranked
<1>3. /\ \A x \in S : x # Nil
      /\ \A x \in S : next[x] # Nil => rank[next[x]] = rank[x] + 1
  <2>1. \A x \in S : x # Nil
    BY TimerQueueAssumption
  <2> SUFFICES ASSUME NEW x \in S, next[x] # Nil PROVE rank[next[x]] = rank[x] + 1
    BY <2>1
  <2>2. PICK y \in S : y = next[x] /\ prev[y] = x
    BY <1>2
  <2>3. rank[y] > 1
    BY <2>1, <2>2, <1>2
  <2>4. rank[x] = rank[y] - 1
    BY <2>2, <2>3, <1>2
  <2> QED BY <2>2, <2>4, <1>2
<1> DEFINE S1 == S \ {t}
           rank1 == [x \in S1 |-> IF rank[x] > rank[t] THEN rank[x] - 1 ELSE rank[x]]
<1>4. \A x \in S1 : /\ rank1[x] = (IF rank[x] > rank[t] THEN rank[x] - 1 ELSE rank[x])
                    /\ rank[x] # rank[t] /\ x \in S /\ x # t
                    /\ rank[x] \in 1..n /\ rank[t] \in 1..n
  BY <1>2
<1>5. rank1 \in [S1 -> 1..(n - 1)]
  BY <1>4
<1> HIDE DEF rank1
<1>6. \A x, y \in S1 : rank1[x] = rank1[y] => x = y
  BY <1>2, <1>4
<1>7. first1 \in S1 \cup {Nil}
  <2>1. CASE first = t
    BY <2>1, <1>2, <1>3
  <2>2. CASE first # t
    BY <2>2, <1>2
  <2> QED BY <2>1, <2>2
<1>8. ASSUME NEW x \in S1 PROVE first1 = x <=> rank1[x] = 1
  <2>1. CASE first = t
    <3>1. rank[t] = 1 /\ first1 = next[t]
      BY <2>1, <1>2
    <3>2. first1 = x => rank[x] = 2
      <4> SUFFICES ASSUME x = next[t] PROVE rank[x] = 2
        BY <3>1
      <4>1. next[t] # Nil
        BY <1>3, <1>4
      <4> QED BY <4>1, <3>1, <1>3
    <3>3. rank[x] = 2 => next[t] = x
      <4> SUFFICES ASSUME rank[x] = 2 PROVE next[t] = x
        OBVIOUS
      <4>1. prev[x] \in S /\ next[prev[x]] = x /\ rank[prev[x]] = 1
        BY <1>2, <1>4
      <4>2. prev[x] = t
        BY <4>1, <3>1, <1>2
      <4> QED BY <4>1, <4>2
    <3> QED BY <3>1, <3>2, <3>3, <1>4
  <2>2. CASE first # t
    <3>1. rank[t] > 1 /\ first1 = first
      BY <2>2, <1>2
    <3> QED BY <3>1, <1>2, <1>4
  <2> QED BY <2>1, <2>2
<1>9. ASSUME NEW x \in S1, rank1[x] = 1 PROVE prev1[x] = Nil
  <2>1. first1 = x
    BY <1>8, <1>9
  <2>2. CASE first = t
    <3>1. x = next[t] /\ prev[t] = Nil
      BY <2>1, <2>2, <1>2
    <3> QED BY <3>1, <1>4
  <2>3. CASE first # t
    <3>1. first = x /\ rank[x] = 1 /\ prev[x] = Nil
      BY <2>1, <2>3, <1>2, <1>4
    <3>2. x # next[t]
      <4> SUFFICES ASSUME x = next[t] PROVE FALSE
        OBVIOUS
      <4>1. rank[x] = rank[t] + 1
        BY <1>3, <1>4
      <4> QED BY <4>1, <3>1, <1>4
    <3> QED BY <3>1, <3>2, <1>4
  <2> QED BY <2>2, <2>3
<1>10. ASSUME NEW x \in S1, rank1[x] > 1
       PROVE  prev1[x] \in S1 /\ next1[prev1[x]] = x /\ rank1[prev1[x]] = rank1[x] - 1
  <2>1. rank[x] > 1
    BY <1>4, <1>10
  <2>2. PICK y \in S : y = prev[x] /\ next[y] = x /\ rank[y] = rank[x] - 1
    BY <2>1, <1>2, <1>4
  <2>3. CASE y = t
    <3>1. x = next[t] /\ prev1[x] = prev[t] /\ rank[x] = rank[t] + 1
      BY <2>2, <2>3, <1>4
    <3>2. rank[t] > 1
      BY <3>1, <1>4, <1>10
    <3>3. PICK z \in S : z = prev[t] /\ next[z] = t /\ rank[z] = rank[t] - 1
      BY <3>2, <1>2
    <3>4. z \in S1 /\ next1[z] = x
      BY <3>1, <3>3, <1>4
    <3>5. rank1[z] = rank[z] /\ rank1[x] = rank[x] - 1
      BY <3>1, <3>3, <3>4, <1>4
    <3> QED BY <3>1, <3>3, <3>4, <3>5, <1>4
  <2>4. CASE y # t
    <3>1. x # next[t]
      <4> SUFFICES ASSUME x = next[t] PROVE FALSE
        OBVIOUS
      <4>1. prev[x] = t
        BY <1>2, <1>3, <1>4
      <4> QED BY <4>1, <2>2, <2>4
    <3>2. prev1[x] = y
      BY <3>1, <2>2, <1>4
    <3>3. y # prev[t]
      <4> SUFFICES ASSUME y = prev[t] PROVE FALSE
        OBVIOUS
      <4>1. prev[t] # Nil
        BY <1>3
      <4>2. rank[t] > 1
        BY <4>1, <1>2
      <4>3. next[y] = t
        BY <4>2, <1>2
      <4> QED BY <4>3, <2>2, <1>4
    <3>4. next1[y] = x /\ y \in S1
      BY <3>3, <2>2, <2>4
    <3>5. rank1[y] = rank1[x] - 1
      BY <3>4, <2>2, <1>4
    <3> QED BY <3>2, <3>4, <3>5
  <2> QED BY <2>3, <2>4
<1>11. ASSUME NEW x \in S1, next1[x] # Nil
       PROVE  next1[x] \in S1 /\ prev1[next1[x]] = x
  <2>1. CASE x = prev[t]
    <3>1. next1[x] = next[t] /\ next[t] # Nil
      BY <2>1, <1>4, <1>11
    <3>2. next[t] \in S /\ rank[next[t]] = rank[t] + 1
      BY <3>1, <1>2, <1>3
    <3>3. next[t] # t
      BY <3>2, <1>2
    <3> QED BY <3>1, <3>2, <3>3, <2>1
  <2>2. CASE x # prev[t]
    <3>1. next1[x] = next[x] /\ next[x] # Nil
      BY <2>2, <1>4, <1>11
    <3>2. PICK y \in S : y = next[x] /\ prev[y] = x
      BY <3>1, <1>2, <1>4
    <3>3. y # t /\ y # next[t]
      <4>1. y # t
        BY <3>2, <2>2
      <4>2. ASSUME y = next[t] PROVE FALSE
        <5>1. next[t] # Nil
          BY <4>2, <1>3
        <5>2. prev[y] = t
          BY <5>1, <4>2, <1>2
        <5> QED BY <5>2, <3>2, <1>4
      <4> QED BY <4>1, <4>2
    <3> QED BY <3>1, <3>2, <3>3
  <2> QED BY <2>1, <2>2
<1>12. Ranked(first1, next1, prev1, S1, rank1, n - 1)
  BY <1>5, <1>6, <1>7, <1>8, <1>9, <1>10, <1>11 DEF Ranked
<1> QED BY <1>12 DEF Listed

(* One timer takes another one's place in the list.                        *)
ReplacedLinks(first, next, prev, S, s, t, first1, next1, prev1) ==
  /\ first1 = IF first = s THEN t ELSE first
  /\ next1[t] = next[s] /\ prev1[t] = prev[s]
  /\ \A x \in S : x # s => next1[x] = IF x = prev[s] THEN t ELSE next[x]
  /\ \A x \in S : x # s => prev1[x] = IF x = next[s] THEN t ELSE prev[x]

LEMMA ListedReplace ==
  ASSUME NEW first, NEW next, NEW prev, NEW S, S \subseteq Timers, NEW n \in Nat,
         Listed(first, next, prev, S, n), NEW s \in S, NEW t \in Timers \ S,
         NEW next1, NEW prev1, NEW first1,
         ReplacedLinks(first, next, prev, S, s, t, first1, next1, prev1)
  PROVE  Listed(first1, next1, prev1, (S \ {s}) \cup {t}, n)
<1>1. PICK rank : Ranked(first, next, prev, S, rank, n)
  BY DEF Listed
<1> USE DEF ReplacedLinks
<1>2. /\ \A x \in S : rank[x] \in 1..n
      /\ \A x, y \in S : rank[x] = rank[y] => x = y
      /\ first \in S \cup {Nil}
      /\ \A x \in S : first = x <=> rank[x] = 1
      /\ \A x \in S : rank[x] = 1 => prev[x] = Nil
      /\ \A x \in S : rank[x] > 1 => /\ prev[x] \in S /\ next[prev[x]] = x
                                     /\ rank[prev[x]] = rank[x] - 1
      /\ \A x \in S : next[x] # Nil => next[x] \in S /\ prev[next[x]] = x
  BY <1>1 DEF Ranked
<1>3. /\ \A x \in S : x # Nil /\ x # t
      /\ t # Nil
      /\ \A x \in S : prev[x] # Nil => rank[x] > 1
      /\ \A x \in S : prev[x] # Nil => next[prev[x]] = x
  BY <1>2, TimerQueueAssumption
<1> DEFINE S1 == (S \ {s}) \cup {t}
           rank1 == [x \in S1 |-> IF x = t THEN rank[s] ELSE rank[x]]
<1>4. /\ rank1 \in [S1 -> 1..n] /\ rank1[t] = rank[s]
      /\ \A x \in S : x # s => rank1[x] = rank[x]
  BY <1>2, <1>3
<1> HIDE DEF rank1
<1>n. next[s] # s /\ prev[s] # s
  BY <1>2, <1>3
<1>5. \A x, y \in S1 : rank1[x] = rank1[y] => x = y
  BY <1>2, <1>4
<1>6. first1 \in S1 \cup {Nil}
  BY <1>2
<1>7. \A x \in S1 : first1 = x <=> rank1[x] = 1
  BY <1>2, <1>3, <1>4
<1>8. ASSUME NEW x \in S1, rank1[x] = 1 PROVE prev1[x] = Nil
  <2>1. CASE x = t
    BY <2>1, <1>2, <1>4, <1>8
  <2>2. CASE x # t
    <3>1. x \in S /\ x # s /\ prev[x] = Nil
      BY <2>2, <1>2, <1>4, <1>8
    <3>2. x # next[s]
      BY <3>1, <1>2, <1>3
    <3> QED BY <3>1, <3>2
  <2> QED BY <2>1, <2>2
<1>9. ASSUME NEW x \in S1, rank1[x] > 1
      PROVE  prev1[x] \in S1 /\ next1[prev1[x]] = x /\ rank1[prev1[x]] = rank1[x] - 1
  <2>1. CASE x = t
    <3>1. PICK y \in S : y = prev[s] /\ next[y] = s /\ rank[y] = rank[s] - 1
      BY <2>1, <1>2, <1>4, <1>9
    <3>2. y # s /\ next1[y] = t /\ prev1[t] = y
      BY <3>1, <1>n
    <3> QED BY <3>1, <3>2, <2>1, <1>4
  <2>2. CASE x # t
    <3>0. x \in S /\ x # s /\ rank[x] > 1
      BY <2>2, <1>4, <1>9
    <3>1. PICK y \in S : y = prev[x] /\ next[y] = x /\ rank[y] = rank[x] - 1
      BY <3>0, <1>2
    <3>2. CASE y = s
      <4>1. x = next[s] /\ prev1[x] = t
        BY <3>0, <3>1, <3>2
      <4> QED BY <4>1, <3>0, <3>1, <3>2, <1>4
    <3>3. CASE y # s
      <4>1. x # next[s]
        <5> SUFFICES ASSUME x = next[s] PROVE FALSE
          OBVIOUS
        <5>1. prev[x] = s
          BY <3>0, <1>2, <1>3
        <5> QED BY <5>1, <3>1, <3>3
      <4>2. y # prev[s]
        <5> SUFFICES ASSUME y = prev[s] PROVE FALSE
          OBVIOUS
        <5>1. next[y] = s
          BY <1>3
        <5> QED BY <5>1, <3>0, <3>1
      <4> QED BY <4>1, <4>2, <3>0, <3>1, <3>3, <1>4
    <3> QED BY <3>2, <3>3
  <2> QED BY <2>1, <2>2
<1>10. ASSUME NEW x \in S1, next1[x] # Nil
       PROVE  next1[x] \in S1 /\ prev1[next1[x]] = x
  <2>1. CASE x = t
    <3>1. PICK y \in S : y = next[s] /\ y # s
      BY <2>1, <1>2, <1>n, <1>10
    <3> QED BY <3>1, <2>1
  <2>2. CASE x # t /\ x = prev[s]
    <3>1. next1[x] = t /\ prev1[t] = x
      BY <2>2
    <3> QED BY <3>1
  <2>3. CASE x # t /\ x # prev[s]
    <3>0. x \in S /\ x # s /\ next1[x] = next[x]
      BY <2>3
    <3>1. PICK y \in S : y = next[x] /\ prev[y] = x
      BY <3>0, <1>2, <1>10
    <3>2. y # s /\ y # next[s]
      <4>1. y # s
        BY <3>1, <2>3
      <4>2. ASSUME y = next[s] PROVE FALSE
        <5>1. prev[y] = s
          BY <4>2, <1>2, <1>3
        <5> QED BY <5>1, <3>0, <3>1
      <4> QED BY <4>1, <4>2
    <3> QED BY <3>0, <3>1, <3>2
  <2> QED BY <2>1, <2>2, <2>3
<1>11. Ranked(first1, next1, prev1, S1, rank1, n)
  BY <1>4, <1>5, <1>6, <1>7, <1>8, <1>9, <1>10 DEF Ranked
<1> QED BY <1>11 DEF Listed

-----------------------------------------------------------------------------
(* The walk along the list meets all of its timers.                        *)

WalkLoop(g, q, L) ==
  g = [n \in 0..L |-> IF n = 0 THEN {q.timers} \ {Nil}
                      ELSE g[n - 1] \cup ({q.next[t] : t \in g[n - 1]} \ {Nil})]

LEMMA WalkRun ==
  ASSUME NEW q, NEW L \in Nat, L = Cardinality(Timers)
  PROVE  \E g : Active(q) = g[L] /\ WalkLoop(g, q, L)
<1> DEFINE start == {q.timers} \ {Nil}
           Next1(w) == w \cup ({q.next[t] : t \in w} \ {Nil})
           Solves(g, m) == g = [n \in 0..m |-> IF n = 0 THEN start ELSE Next1(g[n - 1])]
           T == {m \in Nat : \E g : Solves(g, m)}
<1> HIDE DEF Next1, start
<1>1. 0 \in T
  <2>1. Solves([n \in 0..0 |-> start], 0)
    OBVIOUS
  <2> QED BY <2>1
<1>2. ASSUME NEW m \in T PROVE m + 1 \in T
  <2>1. PICK g : Solves(g, m)
    OBVIOUS
  <2> DEFINE h == [n \in 0..(m + 1) |-> IF n = m + 1 THEN Next1(g[m]) ELSE g[n]]
  <2>2. Solves(h, m + 1)
    BY <2>1
  <2> HIDE DEF h, Solves
  <2> QED BY <2>2
<1>3. T = Nat
  <2> HIDE DEF T
  <2>1. T \subseteq Nat
    BY DEF T
  <2> QED BY <1>1, <1>2, <2>1, SetInduction
<1> DEFINE walk[n \in 0..L] == IF n = 0 THEN start ELSE Next1(walk[n - 1])
<1>4. walk = [n \in 0..L |-> IF n = 0 THEN start ELSE Next1(walk[n - 1])]
  BY <1>3
<1>5. Active(q) = walk[L]
  BY DEF Active, Next1, start
<1>6. WalkLoop(walk, q, L)
  BY <1>4 DEF WalkLoop, Next1, start
<1> QED BY <1>5, <1>6

LEMMA ActiveIs ==
  ASSUME NEW q, NEW S, S \subseteq Timers, NEW n \in Nat, n <= Cardinality(Timers),
         Listed(q.timers, q.next, q.prev, S, n)
  PROVE  Active(q) = S
<1>1. PICK L \in Nat : L = Cardinality(Timers)
  BY TimerQueueAssumption, FS_CardinalityType
<1>2. PICK g : Active(q) = g[L] /\ WalkLoop(g, q, L)
  BY <1>1, WalkRun
<1>3. PICK rank : Ranked(q.timers, q.next, q.prev, S, rank, n)
  BY DEF Listed
<1> DEFINE T == {m \in 0..L : g[m] \subseteq S /\ \A x \in S : rank[x] <= m + 1 => x \in g[m]}
<1>4. \A x \in S : rank[x] \in 1..n /\ x # Nil
  BY <1>3, TimerQueueAssumption DEF Ranked
<1>5. 0 \in T
  <2>1. g[0] = {q.timers} \ {Nil}
    BY <1>2 DEF WalkLoop
  <2>2. q.timers \in S \cup {Nil} /\ \A x \in S : rank[x] = 1 => q.timers = x
    BY <1>3 DEF Ranked
  <2>3. \A x \in S : rank[x] <= 1 => rank[x] = 1
    BY <1>4
  <2> QED BY <2>1, <2>2, <2>3, <1>4
<1>6. ASSUME NEW m \in 0..(L - 1), m \in T PROVE m + 1 \in T
  <2>1. g[m + 1] = g[m] \cup ({q.next[t] : t \in g[m]} \ {Nil})
    BY <1>2 DEF WalkLoop
  <2>2. g[m + 1] \subseteq S
    <3>1. \A t \in g[m] : q.next[t] # Nil => q.next[t] \in S
      BY <1>3, <1>6 DEF Ranked
    <3> QED BY <3>1, <2>1, <1>6
  <2>3. ASSUME NEW x \in S, rank[x] <= (m + 1) + 1 PROVE x \in g[m + 1]
    <3>1. CASE rank[x] <= m + 1
      BY <3>1, <2>1, <1>6
    <3>2. CASE ~(rank[x] <= m + 1)
      <4>1. rank[x] > 1 /\ rank[x] = m + 2
        BY <3>2, <2>3, <1>4
      <4>2. PICK y \in S : y = q.prev[x] /\ q.next[y] = x /\ rank[y] = rank[x] - 1
        BY <4>1, <1>3 DEF Ranked
      <4>3. y \in g[m]
        BY <4>1, <4>2, <1>6
      <4> QED BY <4>2, <4>3, <2>1, <1>4
    <3> QED BY <3>1, <3>2
  <2> QED BY <2>2, <2>3
<1>7. L \in T
  <2> HIDE DEF T
  <2>1. \A m \in 0..L : m \in T
    BY <1>1, <1>5, <1>6, BoundedInduction
  <2> QED BY <2>1
<1>8. \A x \in S : x \in g[L]
  BY <1>1, <1>4, <1>7
<1> QED BY <1>2, <1>7, <1>8

-----------------------------------------------------------------------------
(* The operations on a whole queue.                                        *)

(* Heap and list are sound and have the same timers.                       *)
QueueOK(S, q) ==
  /\ q \in QueueType(S)
  /\ HeapOrdered(q) /\ Indexed(q)
  /\ Listed(q.timers, q.next, q.prev, InHeap(q), Len(q.heap))

(* The timers outside of X keep their links, positions and operations.     *)
Frame(q, r, X) ==
  \A x \in Timers \ X : /\ r.next[x] = q.next[x] /\ r.prev[x] = q.prev[x]
                        /\ r.index[x] = q.index[x] /\ r.ops[x] = q.ops[x]

(* t is in no list and in no heap. *)
Unlinked(q, t) == q.next[t] = Nil /\ q.prev[t] = Nil

LEMMA InHeapIs ==
  ASSUME NEW q
  PROVE  InHeap(q) = {e.timer : e \in Entries(q)}
  BY DEF InHeap, Entries

LEMMA InHeapTimers ==
  ASSUME NEW S, NEW q \in QueueType(S)
  PROVE  InHeap(q) \subseteq Timers /\ \A e \in Entries(q) : e \in EntryType
<1>1. PICK h \in Seq(EntryType) : h = q.heap
  BY DEF QueueType
<1>2. \A k \in 1..Len(h) : h[k] \in EntryType
  OBVIOUS
<1>3. \A e \in EntryType : e.timer \in Timers
  BY DEF EntryType
<1> QED BY <1>1, <1>2, <1>3 DEF InHeap, Entries

(* The timer of an entry tells which entry it is.                          *)
LEMMA OneEntry ==
  ASSUME NEW q, Indexed(q), NEW e \in Entries(q), NEW f \in Entries(q), e.timer = f.timer
  PROVE  e = f
  BY DEF Indexed, Entries

LEMMA HeapCardinality ==
  ASSUME NEW S, NEW q \in QueueType(S), Indexed(q)
  PROVE  Cardinality(InHeap(q)) = Len(q.heap) /\ Len(q.heap) <= Cardinality(Timers)
<1>1. PICK L \in Nat : L = Len(q.heap)
  BY HeapTimes
<1>2. InHeap(q) \subseteq Timers /\ IsFiniteSet(Timers)
  BY InHeapTimers, TimerQueueAssumption
<1> DEFINE f == [i \in 1..L |-> q.heap[i].timer]
<1>3. f \in Bijection(1..L, InHeap(q))
  <2>1. f \in [1..L -> InHeap(q)]
    BY <1>1 DEF InHeap
  <2>2. \A i, j \in 1..L : f[i] = f[j] => i = j
    BY <1>1 DEF Indexed
  <2>3. \A t \in InHeap(q) : \E i \in 1..L : f[i] = t
    BY <1>1 DEF InHeap
  <2> QED BY <2>1, <2>2, <2>3 DEF Bijection, Injection, Surjection,
                                      IsInjective
<1>4. ExistsBijection(1..L, InHeap(q))
  BY <1>3 DEF ExistsBijection
<1>5. Cardinality(InHeap(q)) = L
  BY <1>4, FS_CountingElements
<1>6. Cardinality(InHeap(q)) <= Cardinality(Timers)
  BY <1>2, FS_Subset
<1> QED BY <1>1, <1>5, <1>6

LEMMA ActiveInHeap ==
  ASSUME NEW S, NEW q, QueueOK(S, q)
  PROVE  /\ Active(q) = InHeap(q)
         /\ \A t \in InHeap(q) : Linked(q, t) /\ q.next[t] \in InHeap(q) \cup {Nil}
                                 /\ q.prev[t] \in InHeap(q) \cup {Nil}
         /\ q.timers \in InHeap(q) \cup {Nil}
         /\ \A t \in InHeap(q) : /\ q.next[t] # Nil => q.prev[q.next[t]] = t
                                 /\ q.prev[t] # Nil => q.next[q.prev[t]] = t
<1>1. InHeap(q) \subseteq Timers
  BY InHeapTimers DEF QueueOK
<1>2. PICK n \in Nat : n = Len(q.heap)
  BY HeapTimes DEF QueueOK
<1>3. Listed(q.timers, q.next, q.prev, InHeap(q), n) /\ n <= Cardinality(Timers)
  BY <1>2, HeapCardinality DEF QueueOK
<1>4. Active(q) = InHeap(q)
  BY <1>1, <1>3, ActiveIs
<1>5. /\ \A x \in InHeap(q) : q.prev[x] # Nil \/ q.timers = x
      /\ q.timers # Nil => q.timers \in InHeap(q)
      /\ \A x \in InHeap(q) : q.prev[x] # Nil => q.prev[x] \in InHeap(q)
                                                  /\ q.next[q.prev[x]] = x
      /\ \A x \in InHeap(q) : q.next[x] # Nil => q.next[x] \in InHeap(q)
                                                  /\ q.prev[q.next[x]] = x
  <2>1. ListFacts(q.timers, q.next, q.prev, InHeap(q))
    BY <1>1, <1>3, ListedLinked
  <2> QED BY <2>1 DEF ListFacts
<1>6. \A t \in InHeap(q) : /\ Linked(q, t)
                           /\ q.next[t] \in InHeap(q) \cup {Nil}
                           /\ q.prev[t] \in InHeap(q) \cup {Nil}
  BY <1>5 DEF Linked
<1>7. q.timers \in InHeap(q) \cup {Nil}
  BY <1>5
<1> QED BY <1>4, <1>5, <1>6, <1>7

(* A queue before its first timer.                                         *)
LEMMA EmptyQueueIs ==
  ASSUME NEW S
  PROVE  QueueOK(S, EmptyQueue) /\ InHeap(EmptyQueue) = {} /\ Entries(EmptyQueue) = {}
<1>1. PICK q : q = EmptyQueue
  OBVIOUS
<1>2. /\ q.timers = Nil /\ q.heap = <<>> /\ q \in QueueType(S)
      /\ InHeap(q) = {} /\ Entries(q) = {}
  <2>1. NoIndex \in Nat
    BY NoIndexIsNat
  <2>2. <<>> \in Seq(S) /\ <<>> \in Seq(EntryType)
    OBVIOUS
  <2> QED BY <2>1, <2>2, <1>1 DEF EmptyQueue, QueueType, InHeap, Entries
<1>3. Listed(q.timers, q.next, q.prev, InHeap(q), Len(q.heap))
  <2>1. Len(q.heap) = 0
    BY <1>2
  <2> QED BY <2>1, <1>2, ListedEmpty
<1>4. HeapOrdered(q) /\ Indexed(q)
  BY <1>2 DEF HeapOrdered, Indexed
<1> QED BY <1>1, <1>2, <1>3, <1>4 DEF QueueOK

(* Heap and list depend on their own timers only.                          *)
LEMMA QueueOKFrame ==
  ASSUME NEW S, NEW q, QueueOK(S, q), NEW r \in QueueType(S), NEW X,
         r.timers = q.timers, r.heap = q.heap, Frame(q, r, X), X \cap InHeap(q) = {}
  PROVE  QueueOK(S, r) /\ InHeap(r) = InHeap(q) /\ Entries(r) = Entries(q)
<1>1. InHeap(r) = InHeap(q) /\ Entries(r) = Entries(q) /\ HeapOrdered(r)
  BY DEF InHeap, Entries, HeapOrdered, QueueOK
<1>2. InHeap(q) \subseteq Timers
  BY InHeapTimers DEF QueueOK
<1>3. \A t \in InHeap(q) : /\ r.next[t] = q.next[t] /\ r.prev[t] = q.prev[t]
                           /\ r.index[t] = q.index[t]
  BY <1>2 DEF Frame
<1>4. Indexed(r)
  <2> SUFFICES ASSUME NEW i \in 1..Len(q.heap) PROVE r.index[q.heap[i].timer] = i
    BY DEF Indexed
  <2>1. q.heap[i].timer \in InHeap(q) /\ q.index[q.heap[i].timer] = i
    BY DEF InHeap, Indexed, QueueOK
  <2> QED BY <2>1, <1>3
<1>5. Listed(r.timers, r.next, r.prev, InHeap(r), Len(r.heap))
  <2>1. Listed(q.timers, q.next, q.prev, InHeap(q), Len(q.heap))
    BY DEF QueueOK
  <2>2. Listed(q.timers, r.next, r.prev, InHeap(q), Len(q.heap))
    BY <2>1, <1>3, ListedSame
  <2> QED BY <2>2, <1>1
<1> QED BY <1>1, <1>4, <1>5 DEF QueueOK

-----------------------------------------------------------------------------
(* remove_timer.                                                           *)

UnlinkEffect(S, q, r, t) ==
  /\ r \in QueueType(S)
  /\ r.heap = q.heap /\ r.index = q.index /\ r.ops = q.ops
  /\ Unlinked(r, t)
  /\ UnlinkedLinks(q.timers, q.next, q.prev, Timers, t, r.timers, r.next, r.prev)

LEMMA UnlinkIs ==
  ASSUME NEW S, NEW q \in QueueType(S), NEW t \in Timers
  PROVE  UnlinkEffect(S, q, Unlink(q, t), t)
<1>1. PICK f : f = (IF q.timers = t THEN q.next[t] ELSE q.timers)
  OBVIOUS
<1>2. PICK a : a = [x \in Timers |-> IF x = t THEN Nil
                                     ELSE IF x = q.prev[t] THEN q.next[t] ELSE q.next[x]]
  OBVIOUS
<1>3. PICK b : b = [x \in Timers |-> IF x = t THEN Nil
                                     ELSE IF x = q.next[t] THEN q.prev[t] ELSE q.prev[x]]
  OBVIOUS
<1>4. /\ f \in Timers \cup {Nil} /\ a \in [Timers -> Timers \cup {Nil}]
      /\ b \in [Timers -> Timers \cup {Nil}]
  BY <1>1, <1>2, <1>3 DEF QueueType
<1>5. PICK r : r = Unlink(q, t)
  OBVIOUS
<1>6. /\ r \in QueueType(S) /\ r.timers = f /\ r.next = a /\ r.prev = b
      /\ r.heap = q.heap /\ r.index = q.index /\ r.ops = q.ops
  <2> DEFINE p1 == [q EXCEPT !.timers = f]
             p2 == [p1 EXCEPT !.next = a]
  <2>r. r = [p2 EXCEPT !.prev = b]
    BY <1>1, <1>2, <1>3, <1>5 DEF Unlink, QueueType
  <2>1. /\ p1 \in QueueType(S) /\ p1.timers = f /\ p1.next = q.next /\ p1.prev = q.prev
        /\ p1.heap = q.heap /\ p1.index = q.index /\ p1.ops = q.ops
    BY <1>4 DEF QueueType
  <2> HIDE DEF p1
  <2>2. /\ p2 \in QueueType(S) /\ p2.timers = f /\ p2.next = a /\ p2.prev = q.prev
        /\ p2.heap = q.heap /\ p2.index = q.index /\ p2.ops = q.ops
    BY <2>1, <1>4 DEF QueueType
  <2> HIDE DEF p2
  <2> QED BY <2>r, <2>2, <1>4 DEF QueueType
<1>7. Unlinked(r, t)
  BY <1>2, <1>3, <1>6 DEF Unlinked
<1>8. UnlinkedLinks(q.timers, q.next, q.prev, Timers, t, f, a, b)
  BY <1>1, <1>2, <1>3 DEF UnlinkedLinks
<1> QED BY <1>5, <1>6, <1>7, <1>8 DEF UnlinkEffect

LEMMA RemoveTimerIs ==
  ASSUME NEW S, NEW q, QueueOK(S, q), NEW t \in InHeap(q)
  PROVE  LET r == remove_timer(q, t) IN
         /\ QueueOK(S, r) /\ Len(r.heap) = Len(q.heap) - 1
         /\ Entries(r) = {e \in Entries(q) : e.timer # t}
         /\ InHeap(r) = InHeap(q) \ {t}
         /\ r.ops = q.ops /\ Frame(q, r, InHeap(q))
         /\ Unlinked(r, t) /\ r.index[t] = NoIndex
<1>0. q \in QueueType(S) /\ InHeap(q) \subseteq Timers /\ t \in Timers
  BY InHeapTimers DEF QueueOK
<1>1. PICK p : p = RemoveFromHeap(q, t)
  OBVIOUS
<1>2. HeapWithout(S, q, p, t) /\ HeapOrdered(p)
  BY <1>1, RemoveFromHeapIs DEF QueueOK
<1>3. /\ p \in QueueType(S) /\ Len(p.heap) = Len(q.heap) - 1 /\ Indexed(p)
      /\ p.timers = q.timers /\ p.next = q.next /\ p.prev = q.prev /\ p.ops = q.ops
      /\ Entries(p) = {e \in Entries(q) : e.timer # t} /\ p.index[t] = NoIndex
      /\ \A x \in Timers \ InHeap(q) : p.index[x] = q.index[x]
  BY <1>2 DEF HeapWithout
<1>4. PICK r : r = remove_timer(q, t) /\ r = Unlink(p, t)
  BY <1>1 DEF remove_timer
<1>u. UnlinkEffect(S, p, r, t)
  BY <1>0, <1>3, <1>4, UnlinkIs
<1>l. UnlinkedLinks(q.timers, q.next, q.prev, Timers, t, r.timers, r.next, r.prev)
  BY <1>u, <1>3 DEF UnlinkEffect
<1>5. /\ r \in QueueType(S) /\ r.heap = p.heap /\ r.index = p.index /\ r.ops = p.ops
      /\ Unlinked(r, t)
  BY <1>u DEF UnlinkEffect
<1>6. Entries(r) = {e \in Entries(q) : e.timer # t} /\ InHeap(r) = InHeap(q) \ {t}
  <2>1. Entries(r) = Entries(p)
    BY <1>5 DEF Entries
  <2> QED BY <2>1, <1>3, InHeapIs
<1>7. HeapOrdered(r) /\ Indexed(r)
  BY <1>2, <1>3, <1>5 DEF HeapOrdered, Indexed
<1>8. Listed(r.timers, r.next, r.prev, InHeap(r), Len(r.heap))
  <2>1. PICK n \in Nat : n = Len(q.heap)
    BY <1>0, HeapTimes
  <2>2. Listed(q.timers, q.next, q.prev, InHeap(q), n)
    BY <2>1 DEF QueueOK
  <2>3. Listed(r.timers, r.next, r.prev, InHeap(q) \ {t}, n - 1)
    <3>1. UnlinkedLinks(q.timers, q.next, q.prev, InHeap(q), t, r.timers, r.next, r.prev)
      BY <1>l, <1>0 DEF UnlinkedLinks
    <3> QED BY <3>1, <2>2, <1>0, ListedUnlink
  <2>4. Len(r.heap) = n - 1
    BY <2>1, <1>3, <1>5
  <2> QED BY <2>3, <2>4, <1>6
<1>9. Frame(q, r, InHeap(q))
  <2> SUFFICES ASSUME NEW x \in Timers \ InHeap(q)
               PROVE  r.next[x] = q.next[x] /\ r.prev[x] = q.prev[x]
    BY <1>3, <1>5 DEF Frame
  <2>1. q.next[t] \in InHeap(q) \cup {Nil} /\ q.prev[t] \in InHeap(q) \cup {Nil}
    BY ActiveInHeap
  <2> QED BY <2>1, <1>l, TimerQueueAssumption DEF UnlinkedLinks
<1>10. QueueOK(S, r)
  BY <1>5, <1>7, <1>8 DEF QueueOK
<1> QED BY <1>3, <1>4, <1>5, <1>6, <1>9, <1>10

-----------------------------------------------------------------------------
(* enqueue_timer.                                                          *)

Entry(time, t) == [time |-> time, timer |-> t]

(* t enters a heap and a list it was not in; if it is not the first in the  *)
(* heap then the first one's time is what it was.                           *)
InsertEffect(S, q, r, time, t) ==
  /\ QueueOK(S, r)
  /\ Entries(r) = Entries(q) \cup {Entry(time, t)}
  /\ InHeap(r) = InHeap(q) \cup {t}
  /\ r.ops = q.ops /\ Frame(q, r, InHeap(q) \cup {t})
  /\ r.index[t] # 1 => q.heap # <<>> /\ r.heap[1].time = q.heap[1].time

Pushed(q, e, n) == [q EXCEPT !.heap = Append(@, e), !.index[e.timer] = n]

PushedEffect(S, q, p, e, n) ==
  /\ p \in QueueType(S) /\ Len(p.heap) = n /\ p.heap[n] = e
  /\ \A k \in 1..(n - 1) : p.heap[k] = q.heap[k]
  /\ p.index[e.timer] = n /\ \A x \in Timers : x # e.timer => p.index[x] = q.index[x]
  /\ p.timers = q.timers /\ p.next = q.next /\ p.prev = q.prev /\ p.ops = q.ops

LEMMA PushedIs ==
  ASSUME NEW S, NEW q \in QueueType(S), NEW e \in EntryType, NEW n \in Nat,
         n = Len(q.heap) + 1
  PROVE  PushedEffect(S, q, Pushed(q, e, n), e, n)
<1>1. PICK h \in Seq(EntryType) : h = q.heap
  BY DEF QueueType
<1>2. PICK g : g = Append(h, e)
  OBVIOUS
<1>3. /\ g \in Seq(EntryType) /\ Len(g) = n /\ g[n] = e
      /\ \A k \in 1..(n - 1) : g[k] = q.heap[k]
  BY <1>1, <1>2
<1>4. PICK t \in Timers : t = e.timer
  BY DEF EntryType
<1>5. PICK x : x = [q.index EXCEPT ![t] = n]
  OBVIOUS
<1>6. /\ x \in [Timers -> Nat] /\ x[t] = n
      /\ \A y \in Timers : y # t => x[y] = q.index[y]
  BY <1>5 DEF QueueType
<1>7. PICK p : p = Pushed(q, e, n)
  OBVIOUS
<1>8. /\ p \in QueueType(S) /\ p.heap = g /\ p.index = x
      /\ p.timers = q.timers /\ p.next = q.next /\ p.prev = q.prev /\ p.ops = q.ops
  <2> DEFINE m == [q EXCEPT !.heap = g]
  <2>m. /\ m \in QueueType(S) /\ m.heap = g /\ m.index = q.index
        /\ m.timers = q.timers /\ m.next = q.next /\ m.prev = q.prev /\ m.ops = q.ops
    BY <1>3 DEF QueueType
  <2>p. p = [m EXCEPT !.index = x]
    BY <1>1, <1>2, <1>4, <1>5, <1>7 DEF Pushed, QueueType
  <2> HIDE DEF m
  <2> QED BY <2>m, <2>p, <1>6 DEF QueueType
<1>9. PushedEffect(S, q, p, e, n)
  BY <1>3, <1>4, <1>6, <1>8 DEF PushedEffect
<1> QED BY <1>7, <1>9

(* What linking t in front of the list changes.                            *)
LinkFront(q, first, t) ==
  [q EXCEPT !.next[t] = first,
            !.prev = [x \in Timers |-> IF x = t THEN Nil
                                       ELSE IF x = first THEN t ELSE @[x]],
            !.timers = t]

LinkFrontEffect(S, q, r, first, t) ==
  /\ r \in QueueType(S) /\ r.timers = t
  /\ r.heap = q.heap /\ r.index = q.index /\ r.ops = q.ops
  /\ r.next[t] = first /\ r.prev[t] = Nil
  /\ \A x \in Timers : x # t => /\ r.next[x] = q.next[x]
                                /\ r.prev[x] = IF x = first THEN t ELSE q.prev[x]

LEMMA LinkFrontIs ==
  ASSUME NEW S, NEW q \in QueueType(S), NEW first \in Timers \cup {Nil}, NEW t \in Timers
  PROVE  LinkFrontEffect(S, q, LinkFront(q, first, t), first, t)
<1>1. PICK a : a = [q.next EXCEPT ![t] = first]
  OBVIOUS
<1>2. PICK b : b = [x \in Timers |-> IF x = t THEN Nil
                                     ELSE IF x = first THEN t ELSE q.prev[x]]
  OBVIOUS
<1>3. /\ a \in [Timers -> Timers \cup {Nil}] /\ b \in [Timers -> Timers \cup {Nil}]
      /\ a[t] = first /\ \A x \in Timers : x # t => a[x] = q.next[x]
  BY <1>1, <1>2 DEF QueueType
<1>4. PICK r : r = LinkFront(q, first, t)
  OBVIOUS
<1>5. /\ r \in QueueType(S) /\ r.timers = t /\ r.next = a /\ r.prev = b
      /\ r.heap = q.heap /\ r.index = q.index /\ r.ops = q.ops
  <2> DEFINE p1 == [q EXCEPT !.next = a]
             p2 == [p1 EXCEPT !.prev = b]
  <2>r. r = [p2 EXCEPT !.timers = t]
    BY <1>1, <1>2, <1>4 DEF LinkFront, QueueType
  <2>1. /\ p1 \in QueueType(S) /\ p1.timers = q.timers /\ p1.next = a /\ p1.prev = q.prev
        /\ p1.heap = q.heap /\ p1.index = q.index /\ p1.ops = q.ops
    BY <1>3 DEF QueueType
  <2> HIDE DEF p1
  <2>2. /\ p2 \in QueueType(S) /\ p2.timers = q.timers /\ p2.next = a /\ p2.prev = b
        /\ p2.heap = q.heap /\ p2.index = q.index /\ p2.ops = q.ops
    BY <2>1, <1>3 DEF QueueType
  <2> HIDE DEF p2
  <2> QED BY <2>r, <2>2 DEF QueueType
<1>6. b[t] = Nil /\ \A x \in Timers : x # t => b[x] = IF x = first THEN t ELSE q.prev[x]
  BY <1>2
<1> QED BY <1>3, <1>4, <1>5, <1>6 DEF LinkFrontEffect

LEMMA InsertIs ==
  ASSUME NEW S, NEW q, QueueOK(S, q), NEW time \in Int, NEW t \in Timers \ InHeap(q)
  PROVE  InsertEffect(S, q, Insert(q, time, t), time, t)
<1>0. q \in QueueType(S) /\ InHeap(q) \subseteq Timers /\ HeapOrdered(q) /\ Indexed(q)
  BY InHeapTimers DEF QueueOK
<1>1. PICK n \in Nat : n = Len(q.heap) + 1
  BY <1>0, HeapTimes
<1>t. t \in Timers
  OBVIOUS
<1>2. PICK e \in EntryType : e = Entry(time, t) /\ e.timer = t /\ e.time = time
  <2>1. /\ Entry(time, t) \in EntryType
        /\ Entry(time, t).timer = t /\ Entry(time, t).time = time
    BY <1>t DEF Entry, EntryType
  <2> QED BY <2>1
<1>3. PICK p : p = Pushed(q, e, n)
  OBVIOUS
<1>4. /\ p \in QueueType(S) /\ Len(p.heap) = n /\ p.heap[n] = e
      /\ \A k \in 1..(n - 1) : p.heap[k] = q.heap[k]
      /\ p.index[t] = n /\ \A x \in Timers : x # t => p.index[x] = q.index[x]
      /\ p.timers = q.timers /\ p.next = q.next /\ p.prev = q.prev /\ p.ops = q.ops
  <2>1. PushedEffect(S, q, p, e, n)
    <3>1. PushedEffect(S, q, Pushed(q, e, n), e, n)
      BY <1>0, <1>1, PushedIs
    <3> QED BY <3>1, <1>3
  <2> QED BY <2>1, <1>2 DEF PushedEffect
<1>5. Entries(p) = Entries(q) \cup {e}
  <2>0. n - 1 = Len(q.heap) /\ n \in 1..n
    BY <1>0, <1>1, HeapTimes
  <2>1. \A f \in Entries(p) : f \in Entries(q) \cup {e}
    <3> SUFFICES ASSUME NEW k \in 1..n PROVE p.heap[k] \in Entries(q) \cup {e}
      BY <1>4 DEF Entries
    <3>1. CASE k = n
      BY <3>1, <1>4
    <3>2. CASE k \in 1..(n - 1)
      BY <3>2, <2>0, <1>4 DEF Entries
    <3> QED BY <3>1, <3>2
  <2>2. \A f \in Entries(q) : f \in Entries(p)
    <3> SUFFICES ASSUME NEW k \in 1..(n - 1) PROVE q.heap[k] \in Entries(p)
      BY <2>0 DEF Entries
    <3>1. k \in 1..n /\ p.heap[k] = q.heap[k]
      BY <1>4
    <3> QED BY <3>1, <1>4 DEF Entries
  <2>3. e \in Entries(p)
    BY <2>0, <1>4 DEF Entries
  <2> QED BY <2>1, <2>2, <2>3
<1>6. InHeap(p) = InHeap(q) \cup {t}
  BY <1>2, <1>5, InHeapIs
<1>7. Indexed(p)
  <2> SUFFICES ASSUME NEW k \in 1..n PROVE p.index[p.heap[k].timer] = k
    BY <1>4 DEF Indexed
  <2>1. CASE k = n
    BY <2>1, <1>2, <1>4
  <2>2. CASE k # n
    <3>1. k \in 1..(n - 1) /\ k \in 1..Len(q.heap)
      BY <2>2, <1>0, <1>1, HeapTimes
    <3>2. p.heap[k] = q.heap[k] /\ q.heap[k].timer \in InHeap(q)
      BY <3>1, <1>4 DEF InHeap
    <3>3. q.index[q.heap[k].timer] = k
      BY <3>1, <1>0 DEF Indexed
    <3> QED BY <3>2, <3>3, <1>0, <1>4
  <2> QED BY <2>1, <2>2
<1>8. UpOrdered(p, n)
  <2>1. n \in 1..n /\ n - 1 = Len(q.heap)
    BY <1>0, <1>1, HeapTimes
  <2>2. ASSUME NEW k \in 2..n, k # n PROVE p.heap[k \div 2].time <= p.heap[k].time
    <3>1. PICK c \in 1..(k - 1) : c = k \div 2
      BY Parent
    <3>2. q.heap[c].time <= q.heap[k].time
      BY <2>1, <2>2, <3>1, <1>0 DEF HeapOrdered
    <3> QED BY <3>1, <3>2, <2>2, <1>4
  <2>3. ASSUME NEW k \in 2..n, k \div 2 = n PROVE FALSE
    BY <2>3, Parent
  <2> QED BY <2>1, <2>2, <2>3, <1>4 DEF UpOrdered
<1>9. PICK s : s = up_heap(p, n)
  OBVIOUS
<1>10. Rearranged(S, p, s) /\ HeapOrdered(s)
  BY <1>4, <1>7, <1>8, <1>9, UpHeap
<1>11. PICK r : r = Insert(q, time, t) /\ r = LinkFront(s, q.timers, t)
  <2>1. Insert(q, time, t) = LinkFront(s, q.timers, t)
    BY <1>1, <1>2, <1>3, <1>9 DEF Insert, LinkFront, Entry, Pushed
  <2> QED BY <2>1
<1>12. /\ s \in QueueType(S) /\ Indexed(s) /\ Len(s.heap) = n
       /\ s.timers = q.timers /\ s.next = q.next /\ s.prev = q.prev /\ s.ops = q.ops
       /\ Entries(s) = Entries(q) \cup {e}
       /\ \A x \in Timers \ (InHeap(q) \cup {t}) : s.index[x] = q.index[x]
  BY <1>4, <1>5, <1>6, <1>10 DEF Rearranged
<1>13. /\ r \in QueueType(S) /\ r.timers = t
       /\ r.heap = s.heap /\ r.index = s.index /\ r.ops = q.ops
       /\ r.next[t] = q.timers /\ r.prev[t] = Nil
       /\ \A x \in Timers : x # t => /\ r.next[x] = q.next[x]
                                     /\ r.prev[x] = IF x = q.timers THEN t ELSE q.prev[x]
  <2>1. q.timers \in Timers \cup {Nil}
    BY <1>0 DEF QueueType
  <2>2. LinkFrontEffect(S, s, r, q.timers, t)
    <3>1. PICK first \in Timers \cup {Nil} : first = q.timers
      BY <2>1
    <3>2. LinkFrontEffect(S, s, LinkFront(s, first, t), first, t)
      BY <1>t, <1>12, LinkFrontIs
    <3> QED BY <3>1, <3>2, <1>11
  <2> QED BY <2>2, <1>12 DEF LinkFrontEffect
<1>14. Entries(r) = Entries(q) \cup {e} /\ InHeap(r) = InHeap(q) \cup {t}
  <2>1. Entries(r) = Entries(s)
    BY <1>13 DEF Entries
  <2> QED BY <2>1, <1>2, <1>12, InHeapIs
<1>15. HeapOrdered(r) /\ Indexed(r)
  BY <1>10, <1>12, <1>13 DEF HeapOrdered, Indexed
<1>16. Listed(r.timers, r.next, r.prev, InHeap(r), Len(r.heap))
  <2>1. PICK m \in Nat : m = Len(q.heap) /\ Len(r.heap) = m + 1
    BY <1>0, <1>1, <1>12, <1>13, HeapTimes
  <2>2. Listed(q.timers, q.next, q.prev, InHeap(q), m)
    BY <2>1 DEF QueueOK
  <2>3. PushedLinks(q.timers, q.next, q.prev, InHeap(q), t, r.next, r.prev)
    BY <1>0, <1>13 DEF PushedLinks
  <2>4. Listed(t, r.next, r.prev, InHeap(q) \cup {t}, m + 1)
    BY <2>2, <2>3, <1>0, ListedPush
  <2> QED BY <2>1, <2>4, <1>13, <1>14
<1>17. Frame(q, r, InHeap(q) \cup {t})
  <2>1. q.timers \in InHeap(q) \cup {Nil}
    BY ActiveInHeap
  <2> QED BY <2>1, <1>12, <1>13, TimerQueueAssumption DEF Frame
<1>18. ASSUME r.index[t] # 1 PROVE q.heap # <<>> /\ r.heap[1].time = q.heap[1].time
  <2>0. 1 \in 1..Len(r.heap)
    <3>1. Len(q.heap) \in Nat
      BY <1>0, HeapTimes
    <3> QED BY <3>1, <1>1, <1>12, <1>13
  <2>1. r.heap[1] \in Entries(r) /\ r.index[r.heap[1].timer] = 1
    BY <2>0, <1>15 DEF Entries, Indexed
  <2>2. r.heap[1] \in Entries(q)
    BY <2>1, <1>2, <1>14, <1>18
  <2>3. 1 \in 1..Len(q.heap) /\ q.heap # <<>>
    BY <2>2, <1>0, HeapTimes DEF Entries
  <2>4. q.heap[1] \in Entries(q) /\ q.heap[1] \in Entries(r)
    BY <2>3, <1>14 DEF Entries
  <2>5. q.heap[1].time <= r.heap[1].time
    BY <2>2, <1>0, RootLeast
  <2>6. r.heap[1].time <= q.heap[1].time
    BY <2>4, <1>13, <1>15, RootLeast
  <2>7. q.heap[1].time \in Int /\ r.heap[1].time \in Int
    BY <2>0, <2>3, <1>0, <1>13, HeapTimes
  <2> QED BY <2>3, <2>5, <2>6, <2>7
<1>19. QueueOK(S, r)
  BY <1>13, <1>15, <1>16 DEF QueueOK
<1> QED BY <1>2, <1>11, <1>13, <1>14, <1>17, <1>18, <1>19 DEF InsertEffect

-----------------------------------------------------------------------------
(* The operations of one timer change.                                     *)

SetOps(q, t, w) == [q EXCEPT !.ops[t] = w]

SetOpsEffect(S, q, r, t, w) ==
  /\ r \in QueueType(S)
  /\ r.timers = q.timers /\ r.next = q.next /\ r.prev = q.prev
  /\ r.heap = q.heap /\ r.index = q.index
  /\ r.ops[t] = w /\ \A x \in Timers : x # t => r.ops[x] = q.ops[x]

LEMMA SetOpsIs ==
  ASSUME NEW S, NEW q \in QueueType(S), NEW t \in Timers, NEW w \in Seq(S)
  PROVE  SetOpsEffect(S, q, SetOps(q, t, w), t, w)
<1>1. PICK a : a = [q.ops EXCEPT ![t] = w]
  OBVIOUS
<1>2. /\ a \in [Timers -> Seq(S)] /\ a[t] = w
      /\ \A x \in Timers : x # t => a[x] = q.ops[x]
  BY <1>1 DEF QueueType
<1>3. PICK r : r = SetOps(q, t, w)
  OBVIOUS
<1>4. r = [q EXCEPT !.ops = a]
  BY <1>1, <1>3 DEF SetOps, QueueType
<1>5. /\ r \in QueueType(S) /\ r.ops = a
      /\ r.timers = q.timers /\ r.next = q.next /\ r.prev = q.prev
      /\ r.heap = q.heap /\ r.index = q.index
  BY <1>2, <1>4 DEF QueueType
<1> QED BY <1>2, <1>3, <1>5 DEF SetOpsEffect

LEMMA SetOpsOK ==
  ASSUME NEW S, NEW q, QueueOK(S, q), NEW t \in Timers, NEW w, NEW r,
         SetOpsEffect(S, q, r, t, w)
  PROVE  QueueOK(S, r) /\ InHeap(r) = InHeap(q) /\ Entries(r) = Entries(q)
<1>1. InHeap(r) = InHeap(q) /\ Entries(r) = Entries(q) /\ HeapOrdered(r) /\ Indexed(r)
  BY DEF SetOpsEffect, InHeap, Entries, HeapOrdered, Indexed, QueueOK
<1>2. Listed(r.timers, r.next, r.prev, InHeap(r), Len(r.heap))
  <2>1. Listed(q.timers, q.next, q.prev, InHeap(q), Len(q.heap))
    BY DEF QueueOK
  <2>2. r.timers = q.timers /\ r.next = q.next /\ r.prev = q.prev /\ r.heap = q.heap
    BY DEF SetOpsEffect
  <2> QED BY <2>1, <2>2, <1>1
<1> QED BY <1>1, <1>2 DEF QueueOK, SetOpsEffect

-----------------------------------------------------------------------------
(* Timers without operations are out of the list.                          *)

Resting(q, t) == Unlinked(q, t) /\ q.ops[t] = <<>>

LEMMA LinkedIs ==
  ASSUME NEW S, NEW q, QueueOK(S, q), NEW t \in Timers,
         t \notin InHeap(q) => q.prev[t] = Nil
  PROVE  Linked(q, t) <=> t \in InHeap(q)
<1>1. q.timers \in InHeap(q) \cup {Nil}
  BY ActiveInHeap
<1>2. t # Nil
  BY TimerQueueAssumption
<1>3. t \in InHeap(q) => Linked(q, t)
  BY ActiveInHeap
<1>4. t \notin InHeap(q) => ~Linked(q, t)
  BY <1>1, <1>2 DEF Linked
<1> QED BY <1>3, <1>4

(* A first wait inserts the timer, and every wait is added at the end; a    *)
(* wait that is not reported as the earliest leaves the first entry's time  *)
(* alone.                                                                   *)
EnqueueEffect(S, q, r, time, t, op) ==
  /\ QueueOK(S, r)
  /\ InHeap(r) = InHeap(q) \cup {t}
  /\ t \in InHeap(q) => Entries(r) = Entries(q)
  /\ t \notin InHeap(q) => Entries(r) = Entries(q) \cup {Entry(time, t)}
  /\ r.ops[t] = Append(q.ops[t], op) /\ \A x \in Timers : x # t => r.ops[x] = q.ops[x]
  /\ Frame(q, r, InHeap(q) \cup {t})
  /\ Earliest(r, t, op) \/ (q.heap # <<>> /\ r.heap[1].time = q.heap[1].time)

LEMMA EnqueueIs ==
  ASSUME NEW S, NEW q, QueueOK(S, q), NEW time \in Int, NEW t \in Timers, NEW op \in S,
         t \notin InHeap(q) => Resting(q, t)
  PROVE  EnqueueEffect(S, q, enqueue_timer(q, time, t, op), time, t, op)
<1>0. q \in QueueType(S) /\ q.ops[t] \in Seq(S)
  BY DEF QueueOK, QueueType
<1>1. Linked(q, t) <=> t \in InHeap(q)
  BY LinkedIs DEF Resting, Unlinked
<1>2. PICK w \in Seq(S) : w = Append(q.ops[t], op)
  <2>1. PICK u \in Seq(S) : u = q.ops[t]
    BY <1>0
  <2>2. Append(u, op) \in Seq(S)
    OBVIOUS
  <2> QED BY <2>1, <2>2
<1>3. PICK a : a = IF Linked(q, t) THEN q ELSE Insert(q, time, t)
  OBVIOUS
<1>4. t \notin InHeap(q) => InsertEffect(S, q, a, time, t)
  BY <1>1, <1>3, InsertIs
<1>5. t \in InHeap(q) => a = q
  BY <1>1, <1>3
<1>6. QueueOK(S, a) /\ a.ops = q.ops /\ InHeap(a) = InHeap(q) \cup {t}
  BY <1>4, <1>5 DEF InsertEffect
<1>7. PICK r : r = enqueue_timer(q, time, t, op) /\ r = SetOps(a, t, w)
  <2>1. enqueue_timer(q, time, t, op) = SetOps(a, t, w)
    <3>1. a \in QueueType(S)
      BY <1>6 DEF QueueOK
    <3>2. enqueue_timer(q, time, t, op) = [a EXCEPT !.ops[t] = Append(@, op)]
      BY <1>3 DEF enqueue_timer
    <3>3. [a EXCEPT !.ops[t] = Append(@, op)] = [a EXCEPT !.ops[t] = w]
      BY <3>1, <1>2, <1>6 DEF QueueType
    <3> QED BY <3>2, <3>3 DEF SetOps
  <2> QED BY <2>1
<1>8. SetOpsEffect(S, a, r, t, w)
  <2>1. a \in QueueType(S)
    BY <1>6 DEF QueueOK
  <2> QED BY <2>1, <1>7, SetOpsIs
<1>9. QueueOK(S, r) /\ InHeap(r) = InHeap(a) /\ Entries(r) = Entries(a)
  BY <1>6, <1>8, SetOpsOK
<1>10. t \in InHeap(q) => Entries(r) = Entries(q)
  BY <1>5, <1>9
<1>11. t \notin InHeap(q) => Entries(r) = Entries(q) \cup {Entry(time, t)}
  BY <1>4, <1>9 DEF InsertEffect
<1>12. r.ops[t] = Append(q.ops[t], op) /\ \A x \in Timers : x # t => r.ops[x] = q.ops[x]
  BY <1>2, <1>6, <1>8 DEF SetOpsEffect
<1>13. Frame(q, r, InHeap(q) \cup {t})
  <2>1. Frame(q, a, InHeap(q) \cup {t})
    BY <1>4, <1>5 DEF InsertEffect, Frame
  <2> QED BY <2>1, <1>8 DEF Frame, SetOpsEffect
<1>14. Earliest(r, t, op) \/ (q.heap # <<>> /\ r.heap[1].time = q.heap[1].time)
  <2>1. r.heap = a.heap /\ r.index = a.index
    BY <1>8 DEF SetOpsEffect
  <2>2. CASE t \in InHeap(q)
    <3>1. r.heap = q.heap
      BY <2>1, <2>2, <1>5
    <3>2. PICK i \in 1..Len(q.heap) : q.heap[i].timer = t
      BY <2>2 DEF InHeap
    <3>3. Len(q.heap) \in Nat /\ Len(q.heap) # 0
      BY <3>2, <1>0, HeapTimes
    <3>4. q.heap # <<>>
      BY <3>3
    <3> QED BY <3>1, <3>4
  <2>3. CASE t \notin InHeap(q)
    <3>1. q.ops[t] = <<>>
      BY <2>3 DEF Resting
    <3>2. Head(r.ops[t]) = op
      <4>1. Append(<<>>, op) = <<op>> /\ Head(<<op>>) = op
        OBVIOUS
      <4> QED BY <4>1, <3>1, <1>12
    <3>3. CASE r.index[t] = 1
      BY <3>2, <3>3 DEF Earliest
    <3>4. CASE r.index[t] # 1
      BY <3>4, <2>1, <2>3, <1>4 DEF InsertEffect
    <3> QED BY <3>3, <3>4
  <2> QED BY <2>2, <2>3
<1> QED BY <1>6, <1>7, <1>9, <1>10, <1>11, <1>12, <1>13, <1>14 DEF EnqueueEffect

-----------------------------------------------------------------------------
(* Operations leave their timers.                                          *)

Distinct(w) == \A i, j \in 1..Len(w) : w[i] = w[j] => i = j

(* v has some of the operations of w, none of them more often.             *)
Fewer(w, v) == ToSet(v) \subseteq ToSet(w) /\ (Distinct(w) => Distinct(v))

LEMMA ToSetIs ==
  ASSUME NEW S, NEW w \in Seq(S)
  PROVE  ToSet(w) = {w[i] : i \in 1..Len(w)}
  BY DEF ToSet

LEMMA SplitSeq ==
  ASSUME NEW S, NEW w \in Seq(S), NEW k \in 0..Len(w)
  PROVE  LET u == SubSeq(w, 1, k)
             v == SubSeq(w, k + 1, Len(w))
         IN  /\ u \in Seq(S) /\ v \in Seq(S) /\ Fewer(w, v)
             /\ ToSet(w) = ToSet(u) \cup ToSet(v)
             /\ Distinct(w) => ToSet(u) \cap ToSet(v) = {}
             /\ Len(v) = Len(w) - k
<1>1. PICK L \in Nat : L = Len(w)
  OBVIOUS
<1>2. PICK u \in Seq(S) : u = SubSeq(w, 1, k)
  <2>1. \A i \in 1..k : w[i] \in S
    OBVIOUS
  <2>2. SubSeq(w, 1, k) \in Seq(S)
    BY <2>1
  <2> QED BY <2>2
<1>3. PICK v \in Seq(S) : v = SubSeq(w, k + 1, L)
  <2>2. SubSeq(w, k + 1, L) \in Seq(S)
    BY <1>1
  <2> QED BY <2>2
<1>4. Len(u) = k /\ \A i \in 1..k : u[i] = w[i]
  BY <1>1, <1>2
<1>5. Len(v) = L - k /\ \A i \in 1..(L - k) : v[i] = w[i + k]
  BY <1>1, <1>3
<1>6. ToSet(w) = {w[i] : i \in 1..L} /\ ToSet(u) = {u[i] : i \in 1..k}
      /\ ToSet(v) = {v[i] : i \in 1..(L - k)}
  <2>1. ToSet(w) = {w[i] : i \in 1..Len(w)} /\ ToSet(u) = {u[i] : i \in 1..Len(u)}
        /\ ToSet(v) = {v[i] : i \in 1..Len(v)}
    BY ToSetIs
  <2> QED BY <2>1, <1>1, <1>4, <1>5
<1>7. ToSet(v) \subseteq ToSet(w)
  <2>1. \A i \in 1..(L - k) : i + k \in 1..L
    BY <1>1
  <2> QED BY <2>1, <1>5, <1>6
<1>8. ToSet(u) \subseteq ToSet(w)
  <2>1. \A i \in 1..k : i \in 1..L
    BY <1>1
  <2> QED BY <2>1, <1>4, <1>6
<1>9. ToSet(w) \subseteq ToSet(u) \cup ToSet(v)
  <2> SUFFICES ASSUME NEW i \in 1..L PROVE w[i] \in ToSet(u) \cup ToSet(v)
    BY <1>6
  <2>1. CASE i <= k
    <3>1. i \in 1..k
      BY <2>1
    <3> QED BY <3>1, <1>4, <1>6
  <2>2. CASE i > k
    <3>1. i - k \in 1..(L - k) /\ (i - k) + k = i
      BY <2>2, <1>1
    <3>2. v[i - k] = w[i]
      BY <3>1, <1>5
    <3> QED BY <3>1, <3>2, <1>6
  <2> QED BY <2>1, <2>2
<1>10. ASSUME Distinct(w) PROVE Distinct(v) /\ ToSet(u) \cap ToSet(v) = {}
  <2>1. \A i, j \in 1..L : w[i] = w[j] => i = j
    BY <1>1, <1>10 DEF Distinct
  <2>2. \A i \in 1..(L - k) : i + k \in 1..L
    BY <1>1
  <2>3. Distinct(v)
    <3> SUFFICES ASSUME NEW i \in 1..(L - k), NEW j \in 1..(L - k), v[i] = v[j] PROVE i = j
      BY <1>5 DEF Distinct
    <3>1. i + k = j + k
      BY <2>1, <2>2, <1>5
    <3> QED BY <3>1
  <2>4. ASSUME NEW i \in 1..k, NEW j \in 1..(L - k), u[i] = v[j] PROVE FALSE
    <3>1. i \in 1..L /\ j + k \in 1..L /\ i # j + k
      BY <1>1
    <3> QED BY <3>1, <2>4, <2>1, <1>4, <1>5
  <2>5. ToSet(u) \cap ToSet(v) = {}
    BY <2>4, <1>6
  <2> QED BY <2>3, <2>5
<1> QED BY <1>1, <1>2, <1>3, <1>5, <1>7, <1>8, <1>9, <1>10 DEF Fewer

(* Some operations are taken from the timers of q; a timer leaves heap and  *)
(* list with its last one.                                                  *)
TakeEffect(S, q, r) ==
  /\ QueueOK(S, r)
  /\ InHeap(r) = {t \in InHeap(q) : r.ops[t] # <<>>}
  /\ Entries(r) = {e \in Entries(q) : e.timer \in InHeap(r)}
  /\ Frame(q, r, InHeap(q))
  /\ \A t \in InHeap(q) \ InHeap(r) : Resting(r, t)
  /\ \A t \in Timers : Fewer(q.ops[t], r.ops[t])

IndexReset(q, r) == \A t \in InHeap(q) \ InHeap(r) : r.index[t] = NoIndex

(* The timers of the heap have operations.                                 *)
HasOps(q) == \A t \in InHeap(q) : q.ops[t] # <<>>

LEMMA TakeReflexive ==
  ASSUME NEW S, NEW q, QueueOK(S, q), HasOps(q)
  PROVE  TakeEffect(S, q, q) /\ IndexReset(q, q)
<1>1. Entries(q) = {e \in Entries(q) : e.timer \in InHeap(q)}
  BY InHeapIs
<1> QED BY <1>1 DEF TakeEffect, IndexReset, HasOps, Frame, Fewer

LEMMA TakeTransitive ==
  ASSUME NEW S, NEW q, QueueOK(S, q), NEW r, NEW s, TakeEffect(S, q, r), TakeEffect(S, r, s)
  PROVE  /\ TakeEffect(S, q, s)
         /\ IndexReset(q, r) /\ IndexReset(r, s) => IndexReset(q, s)
<1>1. InHeap(s) \subseteq InHeap(r) /\ InHeap(r) \subseteq InHeap(q)
  BY DEF TakeEffect
<1>0. InHeap(q) \subseteq Timers
  BY InHeapTimers DEF QueueOK
<1>2. \A x \in Timers \ InHeap(r) : /\ s.next[x] = r.next[x] /\ s.prev[x] = r.prev[x]
                                    /\ s.index[x] = r.index[x] /\ s.ops[x] = r.ops[x]
  BY DEF TakeEffect, Frame
<1>3. \A x \in Timers \ InHeap(q) : /\ r.next[x] = q.next[x] /\ r.prev[x] = q.prev[x]
                                    /\ r.index[x] = q.index[x] /\ r.ops[x] = q.ops[x]
  BY DEF TakeEffect, Frame
<1>4. Frame(q, s, InHeap(q))
  BY <1>1, <1>2, <1>3 DEF Frame
<1>5. Entries(s) = {e \in Entries(q) : e.timer \in InHeap(s)}
  BY <1>1 DEF TakeEffect
<1>6. \A t \in Timers : Fewer(q.ops[t], s.ops[t])
  <2> SUFFICES ASSUME NEW t \in Timers PROVE Fewer(q.ops[t], s.ops[t])
    OBVIOUS
  <2>1. Fewer(q.ops[t], r.ops[t]) /\ Fewer(r.ops[t], s.ops[t])
    BY DEF TakeEffect
  <2> QED BY <2>1 DEF Fewer
<1>7. ASSUME NEW t \in InHeap(q) \ InHeap(s)
      PROVE  /\ Resting(s, t)
             /\ IndexReset(q, r) /\ IndexReset(r, s) => s.index[t] = NoIndex
  <2>1. CASE t \in InHeap(r)
    BY <2>1 DEF TakeEffect, IndexReset
  <2>2. CASE t \notin InHeap(r)
    <3>1. Resting(r, t) /\ (IndexReset(q, r) => r.index[t] = NoIndex)
      BY <2>2 DEF TakeEffect, IndexReset
    <3>2. /\ s.next[t] = r.next[t] /\ s.prev[t] = r.prev[t]
          /\ s.index[t] = r.index[t] /\ s.ops[t] = r.ops[t]
      BY <2>2, <1>0, <1>2
    <3> QED BY <3>1, <3>2 DEF Resting, Unlinked
  <2> QED BY <2>1, <2>2
<1>8. InHeap(s) = {t \in InHeap(q) : s.ops[t] # <<>>}
  <2>1. \A t \in InHeap(q) \ InHeap(s) : s.ops[t] = <<>>
    BY <1>7 DEF Resting
  <2>2. \A t \in InHeap(s) : s.ops[t] # <<>>
    BY DEF TakeEffect
  <2> QED BY <2>1, <2>2, <1>1
<1>9. QueueOK(S, s)
  BY DEF TakeEffect
<1>10. \A t \in InHeap(q) \ InHeap(s) : Resting(s, t)
  BY <1>7
<1>11. IndexReset(q, r) /\ IndexReset(r, s) => IndexReset(q, s)
  BY <1>7 DEF IndexReset
<1> QED BY <1>4, <1>5, <1>6, <1>8, <1>9, <1>10, <1>11 DEF TakeEffect

(* The last operations of a timer are taken, and the timer with them.       *)
LEMMA TakeLast ==
  ASSUME NEW S, NEW q, QueueOK(S, q), HasOps(q), NEW t \in InHeap(q), NEW p,
         SetOpsEffect(S, q, p, t, <<>>)
  PROVE  /\ TakeEffect(S, q, remove_timer(p, t)) /\ IndexReset(q, remove_timer(p, t))
         /\ InHeap(remove_timer(p, t)) = InHeap(q) \ {t}
         /\ \A x \in Timers : x # t => remove_timer(p, t).ops[x] = q.ops[x]
         /\ Len(remove_timer(p, t).heap) = Len(q.heap) - 1
<1>0. InHeap(q) \subseteq Timers
  BY InHeapTimers DEF QueueOK
<1>1. QueueOK(S, p) /\ InHeap(p) = InHeap(q) /\ Entries(p) = Entries(q)
  BY <1>0, SetOpsOK
<1>2. PICK r : r = remove_timer(p, t)
  OBVIOUS
<1>3. /\ QueueOK(S, r) /\ Len(r.heap) = Len(p.heap) - 1
      /\ Entries(r) = {e \in Entries(p) : e.timer # t}
      /\ InHeap(r) = InHeap(p) \ {t}
      /\ r.ops = p.ops /\ Frame(p, r, InHeap(p))
      /\ Unlinked(r, t) /\ r.index[t] = NoIndex
  BY <1>1, <1>2, RemoveTimerIs
<1>4. r.ops[t] = <<>> /\ \A x \in Timers : x # t => r.ops[x] = q.ops[x]
  BY <1>3 DEF SetOpsEffect
<1>5. InHeap(r) = {x \in InHeap(q) : r.ops[x] # <<>>} /\ InHeap(r) = InHeap(q) \ {t}
  BY <1>0, <1>1, <1>3, <1>4 DEF HasOps
<1>6. Entries(r) = {e \in Entries(q) : e.timer \in InHeap(r)}
  <2>1. \A e \in Entries(q) : e.timer \in InHeap(q)
    BY InHeapIs
  <2> QED BY <2>1, <1>1, <1>3
<1>7. Frame(q, r, InHeap(q))
  BY <1>1, <1>3 DEF Frame, SetOpsEffect
<1>8. \A x \in InHeap(q) \ InHeap(r) : Resting(r, x) /\ r.index[x] = NoIndex
  BY <1>3, <1>4, <1>5 DEF Resting
<1>9. \A x \in Timers : Fewer(q.ops[x], r.ops[x])
  <2>1. Fewer(q.ops[t], <<>>)
    BY DEF Fewer, ToSet, Distinct
  <2>2. \A w : Fewer(w, w)
    BY DEF Fewer
  <2> QED BY <2>1, <2>2, <1>4
<1>10. Len(r.heap) = Len(q.heap) - 1
  BY <1>3 DEF SetOpsEffect
<1> QED BY <1>2, <1>3, <1>4, <1>5, <1>6, <1>7, <1>8, <1>9, <1>10 DEF TakeEffect, IndexReset

(* An operation is taken, and the timer keeps others.                       *)
LEMMA TakeSome ==
  ASSUME NEW S, NEW q, QueueOK(S, q), HasOps(q), NEW t \in InHeap(q),
         NEW w, w # <<>>, Fewer(q.ops[t], w), NEW r, SetOpsEffect(S, q, r, t, w)
  PROVE  TakeEffect(S, q, r) /\ IndexReset(q, r)
<1>0. InHeap(q) \subseteq Timers
  BY InHeapTimers DEF QueueOK
<1>1. QueueOK(S, r) /\ InHeap(r) = InHeap(q) /\ Entries(r) = Entries(q)
  BY <1>0, SetOpsOK
<1>2. \A x \in Timers : x # t => r.ops[x] = q.ops[x]
  BY DEF SetOpsEffect
<1>3. InHeap(r) = {x \in InHeap(q) : r.ops[x] # <<>>}
  BY <1>0, <1>1, <1>2 DEF HasOps, SetOpsEffect
<1>4. Entries(r) = {e \in Entries(q) : e.timer \in InHeap(r)}
  BY <1>1, InHeapIs
<1>5. Frame(q, r, InHeap(q))
  BY DEF Frame, SetOpsEffect
<1>6. \A x \in Timers : Fewer(q.ops[x], r.ops[x])
  <2>1. \A v : Fewer(v, v)
    BY DEF Fewer
  <2>2. r.ops[t] = w
    BY DEF SetOpsEffect
  <2> QED BY <2>1, <2>2, <1>2
<1> QED BY <1>1, <1>3, <1>4, <1>5, <1>6 DEF TakeEffect, IndexReset

-----------------------------------------------------------------------------
(* cancel_timer.                                                           *)

(* The first max_cancelled operations are taken, or all there are.          *)
CancelEffect(S, q, r, t, max_cancelled, taken) ==
  /\ TakeEffect(S, q, r) /\ IndexReset(q, r) /\ HasOps(r)
  /\ taken \in Seq(S)
  /\ \A x \in Timers : x # t => r.ops[x] = q.ops[x]
  /\ ToSet(q.ops[t]) = ToSet(taken) \cup ToSet(r.ops[t])
  /\ Distinct(q.ops[t]) => ToSet(taken) \cap ToSet(r.ops[t]) = {}
  /\ max_cancelled >= Len(q.ops[t]) => r.ops[t] = <<>>
  /\ max_cancelled > 0 /\ taken = <<>> => r.ops[t] = <<>>

LEMMA CancelIs ==
  ASSUME NEW S, NEW q, QueueOK(S, q), HasOps(q), NEW t \in Timers,
         t \notin InHeap(q) => Resting(q, t), NEW m \in Nat
  PROVE  CancelEffect(S, q, cancel_timer(q, t, m), t, m, Cancelled(q, t, m))
<1>0. q \in QueueType(S)
  BY DEF QueueOK
<1>1. PICK w \in Seq(S) : w = q.ops[t]
  BY <1>0 DEF QueueType
<1>2. PICK L \in Nat : L = Len(w)
  OBVIOUS
<1>3. Linked(q, t) <=> t \in InHeap(q)
  BY LinkedIs DEF Resting, Unlinked
<1>4. PICK taken : taken = Cancelled(q, t, m)
  OBVIOUS
<1>5. PICK r : r = cancel_timer(q, t, m)
  OBVIOUS
<1>6. CASE t \notin InHeap(q)
  <2>1. w = <<>> /\ taken = <<>>
    BY <1>1, <1>3, <1>4, <1>6 DEF Cancelled, Resting
  <2>2. r = q
    <3>1. PICK p : p = [q EXCEPT !.ops[t] =
                          SubSeq(@, Len(Cancelled(q, t, m)) + 1, Len(@))]
      OBVIOUS
    <3>2. r = p
      BY <3>1, <1>3, <1>5, <1>6 DEF cancel_timer
    <3>3. SubSeq(<<>>, Len(<<>>) + 1, Len(<<>>)) = <<>>
      OBVIOUS
    <3>4. p = [q EXCEPT !.ops[t] = <<>>]
      BY <3>1, <3>3, <2>1, <1>1, <1>4
    <3>5. [q EXCEPT !.ops[t] = <<>>] = q
      <4>1. [q.ops EXCEPT ![t] = <<>>] = q.ops
        BY <2>1, <1>0, <1>1 DEF QueueType
      <4> QED BY <4>1, <1>0 DEF QueueType
    <3> QED BY <3>2, <3>4, <3>5
  <2>3. TakeEffect(S, q, q) /\ IndexReset(q, q)
    BY TakeReflexive
  <2>4. ToSet(<<>>) = {} /\ <<>> \in Seq(S)
    BY DEF ToSet
  <2>5. q.ops[t] = <<>>
    BY <2>1, <1>1
  <2>6. /\ ToSet(q.ops[t]) = ToSet(<<>>) \cup ToSet(q.ops[t])
        /\ ToSet(<<>>) \cap ToSet(q.ops[t]) = {}
    BY <2>4, <2>5
  <2>7. CancelEffect(S, q, q, t, m, <<>>)
    BY <2>3, <2>4, <2>5, <2>6 DEF CancelEffect
  <2> QED BY <2>1, <2>2, <2>7, <1>4, <1>5
<1>7. CASE t \in InHeap(q)
  <2>1. PICK k \in 0..L : /\ k = (IF m < L THEN m ELSE L)
                          /\ m >= L => k = L
                          /\ m > 0 /\ k = 0 => L = 0
    BY <1>2
  <2>2. taken = SubSeq(w, 1, k)
    BY <2>1, <1>1, <1>2, <1>3, <1>4, <1>7 DEF Cancelled
  <2>3. PICK v : v = SubSeq(w, k + 1, L)
    OBVIOUS
  <2>4. /\ taken \in Seq(S) /\ v \in Seq(S) /\ Fewer(w, v)
        /\ ToSet(w) = ToSet(taken) \cup ToSet(v)
        /\ Distinct(w) => ToSet(taken) \cap ToSet(v) = {}
        /\ Len(v) = L - k
    BY <2>2, <2>3, <1>2, SplitSeq
  <2>5. Len(taken) = k
    BY <2>2, <1>2
  <2>6. (v = <<>> <=> k = L) /\ (taken = <<>> <=> k = 0)
    BY <2>4, <2>5
  <2>7. PICK p : p = SetOps(q, t, v)
    OBVIOUS
  <2>8. SetOpsEffect(S, q, p, t, v)
    BY <2>4, <2>7, <1>0, SetOpsIs
  <2>9. p.ops[t] = v /\ \A x \in Timers : x # t => p.ops[x] = q.ops[x]
    BY <2>8 DEF SetOpsEffect
  <2>10. r = IF v = <<>> THEN remove_timer(p, t) ELSE p
    <3>1. p = [q EXCEPT !.ops[t] = SubSeq(@, Len(Cancelled(q, t, m)) + 1, Len(@))]
      <4>1. p = [q EXCEPT !.ops[t] = SubSeq(w, k + 1, L)]
        BY <2>3, <2>7 DEF SetOps
      <4>2. [q EXCEPT !.ops[t] = SubSeq(w, k + 1, L)]
              = [q EXCEPT !.ops[t] = SubSeq(@, Len(Cancelled(q, t, m)) + 1, Len(@))]
        BY <2>5, <1>0, <1>1, <1>2, <1>4 DEF QueueType
      <4> QED BY <4>1, <4>2
    <3> HIDE DEF SetOps
    <3>2. cancel_timer(q, t, m) = IF Linked(q, t) /\ p.ops[t] = <<>> THEN remove_timer(p, t)
                                                                   ELSE p
      BY <3>1 DEF cancel_timer
    <3> QED BY <3>2, <2>9, <1>3, <1>5, <1>7
  <2>11. CASE v = <<>>
    <3>1. r = remove_timer(p, t)
      BY <2>10, <2>11
    <3>2. SetOpsEffect(S, q, p, t, <<>>)
      BY <2>8, <2>11
    <3>3. /\ TakeEffect(S, q, remove_timer(p, t)) /\ IndexReset(q, remove_timer(p, t))
          /\ InHeap(remove_timer(p, t)) = InHeap(q) \ {t}
          /\ \A x \in Timers : x # t => remove_timer(p, t).ops[x] = q.ops[x]
      BY <3>2, <1>7, TakeLast
    <3>4. r.ops[t] = <<>>
      <4>1. Resting(r, t)
        BY <3>1, <3>3, <1>7 DEF TakeEffect
      <4> QED BY <4>1 DEF Resting
    <3>5. HasOps(r)
      BY <3>1, <3>3 DEF TakeEffect, HasOps
    <3> QED BY <3>1, <3>3, <3>4, <3>5, <2>4, <2>11, <1>1, <1>4, <1>5 DEF CancelEffect
  <2>12. CASE v # <<>>
    <3>1. r = p
      BY <2>10, <2>12
    <3>2. TakeEffect(S, q, r) /\ IndexReset(q, r)
      BY <3>1, <2>4, <2>8, <2>12, <1>1, <1>7, TakeSome
    <3>3. HasOps(r)
      BY <3>2 DEF TakeEffect, HasOps
    <3>4. ~(m >= L) /\ ~(m > 0 /\ taken = <<>>)
      BY <2>1, <2>6, <2>12
    <3> QED BY <3>1, <3>2, <3>3, <3>4, <2>4, <2>9, <1>1, <1>2, <1>4, <1>5 DEF CancelEffect
  <2> QED BY <2>11, <2>12
<1> QED BY <1>6, <1>7

-----------------------------------------------------------------------------
(* get_ready_timers.                                                       *)

LEMMA ConcatSet ==
  ASSUME NEW S, NEW u \in Seq(S), NEW v \in Seq(S)
  PROVE  u \o v \in Seq(S) /\ ToSet(u \o v) = ToSet(u) \cup ToSet(v)
<1>1. PICK w \in Seq(S) : w = u \o v
  <2>1. u \o v \in Seq(S)
    OBVIOUS
  <2> QED BY <2>1
<1>2. PICK k, l \in Nat : k = Len(u) /\ l = Len(v)
  OBVIOUS
<1>3. /\ Len(w) = k + l
      /\ \A i \in 1..k : w[i] = u[i]
      /\ \A i \in 1..l : w[k + i] = v[i]
  BY <1>1, <1>2
<1>4. ToSet(w) = {w[i] : i \in 1..(k + l)} /\ ToSet(u) = {u[i] : i \in 1..k}
      /\ ToSet(v) = {v[i] : i \in 1..l}
  <2>1. ToSet(w) = {w[i] : i \in 1..Len(w)} /\ ToSet(u) = {u[i] : i \in 1..Len(u)}
        /\ ToSet(v) = {v[i] : i \in 1..Len(v)}
    BY ToSetIs
  <2> QED BY <2>1, <1>2, <1>3
<1>5. ToSet(u) \subseteq ToSet(w)
  <2>1. \A i \in 1..k : i \in 1..(k + l)
    OBVIOUS
  <2> QED BY <2>1, <1>3, <1>4
<1>6. ToSet(v) \subseteq ToSet(w)
  <2>1. \A i \in 1..l : k + i \in 1..(k + l)
    OBVIOUS
  <2> QED BY <2>1, <1>3, <1>4
<1>7. ToSet(w) \subseteq ToSet(u) \cup ToSet(v)
  <2> SUFFICES ASSUME NEW i \in 1..(k + l) PROVE w[i] \in ToSet(u) \cup ToSet(v)
    BY <1>4
  <2>1. CASE i <= k
    <3>1. i \in 1..k
      BY <2>1
    <3> QED BY <3>1, <1>3, <1>4
  <2>2. CASE i > k
    <3>1. i - k \in 1..l /\ k + (i - k) = i
      BY <2>2
    <3>2. w[i] = v[i - k]
      BY <3>1, <1>3
    <3> QED BY <3>1, <3>2, <1>4
  <2> QED BY <2>1, <2>2
<1> QED BY <1>1, <1>5, <1>6, <1>7

(* The operations of w belong to entries that are due one after the other,  *)
(* and none of them later than what is left.                                *)
InOrder(q, r, w) ==
  \E g \in [1 .. Len(w) -> Entries(q)] :
    \A i \in 1 .. Len(w) : /\ w[i] \in ToSet(q.ops[g[i].timer])
                           /\ \A j \in 1 .. i : g[j].time <= g[i].time
                           /\ \A e \in Entries(r) : g[i].time <= e.time

(* The operations of the first entry come next.                            *)
LEMMA InOrderNext ==
  ASSUME NEW S, NEW q, NEW p, NEW r, NEW w \in Seq(S), NEW u \in Seq(S), InOrder(q, p, w),
         Entries(r) \subseteq Entries(p), Entries(p) \subseteq Entries(q),
         \A e \in Entries(q) : e.time \in Int,
         NEW first \in Entries(p), \A e \in Entries(p) : first.time <= e.time,
         ToSet(u) \subseteq ToSet(q.ops[first.timer])
  PROVE  InOrder(q, r, w \o u)
<1>1. PICK k, l \in Nat : k = Len(w) /\ l = Len(u)
  OBVIOUS
<1>2. PICK v \in Seq(S) : v = w \o u
  <2>1. w \o u \in Seq(S)
    OBVIOUS
  <2> QED BY <2>1
<1>3. /\ Len(v) = k + l
      /\ \A i \in 1 .. k : v[i] = w[i]
      /\ \A i \in 1 .. l : v[k + i] = u[i]
  BY <1>1, <1>2
<1>4. PICK g \in [1 .. k -> Entries(q)] :
        \A i \in 1 .. k : /\ w[i] \in ToSet(q.ops[g[i].timer])
                          /\ \A j \in 1 .. i : g[j].time <= g[i].time
                          /\ \A e \in Entries(p) : g[i].time <= e.time
  BY <1>1 DEF InOrder
<1> DEFINE h == [i \in 1 .. k + l |-> IF i <= k THEN g[i] ELSE first]
<1>5. h \in [1 .. k + l -> Entries(q)]
  <2>1. ASSUME NEW i \in 1 .. k + l, i <= k PROVE g[i] \in Entries(q)
    BY <2>1
  <2> QED BY <2>1
<1>h. \A i \in 1 .. k + l : h[i] = IF i <= k THEN g[i] ELSE first
  OBVIOUS
<1> HIDE DEF h
<1>6. ASSUME NEW i \in 1 .. k + l
      PROVE  /\ v[i] \in ToSet(q.ops[h[i].timer])
             /\ \A j \in 1 .. i : h[j].time <= h[i].time
             /\ \A e \in Entries(r) : h[i].time <= e.time
  <2>1. CASE i <= k
    <3>0. i \in 1 .. k /\ \A j \in 1 .. i : j \in 1 .. k + l /\ j <= k
      BY <2>1
    <3>1. h[i] = g[i] /\ \A j \in 1 .. i : h[j] = g[j]
      BY <1>h, <2>1, <3>0
    <3> QED BY <3>0, <3>1, <1>3, <1>4
  <2>2. CASE i > k
    <3>1. h[i] = first /\ \A j \in 1 .. i : h[j] = IF j <= k THEN g[j] ELSE first
      BY <1>h, <2>2
    <3>2. i - k \in 1 .. l /\ k + (i - k) = i
      BY <2>2
    <3>3. v[i] = u[i - k] /\ u[i - k] \in ToSet(u)
      BY <3>2, <1>1, <1>3, ToSetIs
    <3>4. ASSUME NEW j \in 1 .. i PROVE h[j].time <= first.time
      <4>1. CASE j <= k
        <5>1. j \in 1 .. k
          BY <4>1
        <5> QED BY <3>1, <4>1, <5>1, <1>4
      <4>2. CASE j > k
        <5>1. h[j] = first
          BY <3>1, <4>2
        <5>2. first.time \in Int
          OBVIOUS
        <5> QED BY <5>1, <5>2
      <4> QED BY <4>1, <4>2
    <3> QED BY <3>1, <3>3, <3>4
  <2> QED BY <2>1, <2>2
<1>7. InOrder(q, r, v)
  BY <1>3, <1>5, <1>6 DEF InOrder
<1> QED BY <1>2, <1>7

(* The timers taken so far were due, and w has all of their operations.     *)
ReadySoFar(S, q, r, w, clock) ==
  /\ TakeEffect(S, q, r) /\ IndexReset(q, r) /\ HasOps(r)
  /\ w \in Seq(S)
  /\ \A t \in Timers : t \in InHeap(r) \/ t \notin InHeap(q) => r.ops[t] = q.ops[t]
  /\ \A o : o \in ToSet(w) <=> \E t \in InHeap(q) \ InHeap(r) : o \in ToSet(q.ops[t])
  /\ \A e \in Entries(q) : e.timer \notin InHeap(r) => e.time <= clock
  /\ InOrder(q, r, w)

(* Nothing that is left is due.                                            *)
NothingDue(r, clock) == r.heap = <<>> \/ r.heap[1].time > clock

LEMMA ReadyOnce ==
  ASSUME NEW S, NEW q, QueueOK(S, q), NEW p, NEW w, NEW clock \in Int,
         ReadySoFar(S, q, p, w, clock), p.heap # <<>>, p.heap[1].time <= clock,
         NEW t, t = p.heap[1].timer
  PROVE  /\ ReadySoFar(S, q, remove_timer(SetOps(p, t, <<>>), t), w \o p.ops[t], clock)
         /\ Len(remove_timer(SetOps(p, t, <<>>), t).heap) = Len(p.heap) - 1
<1>0. QueueOK(S, p) /\ HasOps(p) /\ p \in QueueType(S) /\ TakeEffect(S, q, p)
      /\ IndexReset(q, p)
  BY DEF ReadySoFar, TakeEffect, QueueOK
<1>1. 1 \in 1..Len(p.heap)
  <2>1. PICK h \in Seq(EntryType) : h = p.heap
    BY <1>0 DEF QueueType
  <2>2. h # <<>> => 1 \in 1..Len(h)
    OBVIOUS
  <2> QED BY <2>1, <2>2
<1>2. p.heap[1] \in Entries(p) /\ t \in InHeap(p)
  BY <1>1 DEF Entries, InHeap
<1>3. t \in Timers /\ InHeap(p) \subseteq InHeap(q) /\ InHeap(p) \subseteq Timers
      /\ t \in InHeap(q)
  BY <1>0, <1>2, InHeapTimers DEF TakeEffect
<1>4. PICK x : x = SetOps(p, t, <<>>)
  OBVIOUS
<1>5. <<>> \in Seq(S)
  OBVIOUS
<1>6. SetOpsEffect(S, p, x, t, <<>>)
  BY <1>0, <1>3, <1>4, <1>5, SetOpsIs
<1>7. PICK r : r = remove_timer(x, t)
  OBVIOUS
<1>8. /\ TakeEffect(S, p, r) /\ IndexReset(p, r)
      /\ InHeap(r) = InHeap(p) \ {t}
      /\ \A y \in Timers : y # t => r.ops[y] = p.ops[y]
      /\ Len(r.heap) = Len(p.heap) - 1
  <2> HIDE DEF SetOps
  <2> QED BY <1>0, <1>2, <1>6, <1>7, TakeLast
<1>9. TakeEffect(S, q, r) /\ IndexReset(q, r)
  BY <1>0, <1>8, TakeTransitive
<1>10. HasOps(r)
  BY <1>8 DEF TakeEffect, HasOps
<1>11. /\ w \in Seq(S)
       /\ \A y \in Timers : y \in InHeap(p) \/ y \notin InHeap(q) => p.ops[y] = q.ops[y]
       /\ \A o : o \in ToSet(w) <=> \E y \in InHeap(q) \ InHeap(p) : o \in ToSet(q.ops[y])
       /\ \A e \in Entries(q) : e.timer \notin InHeap(p) => e.time <= clock
  BY DEF ReadySoFar
<1>12. p.ops[t] = q.ops[t] /\ p.ops[t] \in Seq(S)
  BY <1>0, <1>2, <1>3, <1>11 DEF QueueType
<1>13. w \o p.ops[t] \in Seq(S) /\ ToSet(w \o p.ops[t]) = ToSet(w) \cup ToSet(q.ops[t])
  BY <1>11, <1>12, ConcatSet
<1>14. \A y \in Timers : y \in InHeap(r) \/ y \notin InHeap(q) => r.ops[y] = q.ops[y]
  BY <1>3, <1>8, <1>11
<1>15. \A o : o \in ToSet(w \o p.ops[t])
                <=> \E y \in InHeap(q) \ InHeap(r) : o \in ToSet(q.ops[y])
  <2>1. InHeap(q) \ InHeap(r) = (InHeap(q) \ InHeap(p)) \cup {t}
    BY <1>3, <1>8
  <2> QED BY <2>1, <1>11, <1>13, Zenon
<1>16. ASSUME NEW e \in Entries(q), e.timer \notin InHeap(r) PROVE e.time <= clock
  <2>1. CASE e.timer \notin InHeap(p)
    BY <2>1, <1>11
  <2>2. CASE e.timer \in InHeap(p)
    <3>1. e.timer = t
      BY <2>2, <1>8, <1>16
    <3>2. p.heap[1] \in Entries(q)
      BY <1>0, <1>2 DEF TakeEffect
    <3>3. e = p.heap[1]
      BY <3>1, <3>2, OneEntry DEF QueueOK
    <3> QED BY <3>3
  <2> QED BY <2>1, <2>2
<1>17. InOrder(q, r, w \o p.ops[t])
  <2>1. Entries(r) \subseteq Entries(p) /\ Entries(p) \subseteq Entries(q) /\ InOrder(q, p, w)
    BY <1>0, <1>8 DEF TakeEffect, ReadySoFar
  <2>2. \A e \in Entries(p) : p.heap[1].time <= e.time
    BY <1>0, RootLeast DEF QueueOK
  <2>3. \A e \in Entries(q) : e.time \in Int
    BY InHeapTimers DEF QueueOK, EntryType
  <2>4. ToSet(p.ops[t]) \subseteq ToSet(q.ops[p.heap[1].timer])
    BY <1>12
  <2> QED BY <1>2, <1>11, <1>12, <2>1, <2>2, <2>3, <2>4, InOrderNext
<1>18. ReadySoFar(S, q, r, w \o p.ops[t], clock)
  BY <1>9, <1>10, <1>13, <1>14, <1>15, <1>16, <1>17 DEF ReadySoFar
<1> QED BY <1>4, <1>7, <1>8, <1>18

ReadyInv(S, q, L, n, s, clock) ==
  \E r, w : /\ s = [q |-> r, ops |-> w] /\ ReadySoFar(S, q, r, w, clock)
            /\ NothingDue(r, clock) \/ Len(r.heap) + n <= L

LEMMA ReadyIteration ==
  ASSUME NEW S, NEW q, QueueOK(S, q), NEW L \in Nat, NEW n \in Nat, NEW clock \in Int, NEW s,
         ReadyInv(S, q, L, n, s, clock)
  PROVE  ReadyInv(S, q, L, n + 1, ReadyStep(s, clock), clock)
<1>1. PICK p, w : /\ s = [q |-> p, ops |-> w] /\ ReadySoFar(S, q, p, w, clock)
                  /\ NothingDue(p, clock) \/ Len(p.heap) + n <= L
  BY DEF ReadyInv
<1>2. s.q = p /\ s.ops = w
  BY <1>1
<1>3. p \in QueueType(S) /\ Len(p.heap) \in Nat
  <2>1. p \in QueueType(S)
    BY <1>1 DEF ReadySoFar, TakeEffect, QueueOK
  <2> QED BY <2>1, HeapTimes
<1>4. CASE ~(p.heap # <<>> /\ p.heap[1].time <= clock)
  <2>1. ReadyStep(s, clock) = s
    BY <1>2, <1>4 DEF ReadyStep
  <2>2. NothingDue(p, clock)
    <3>1. CASE p.heap = <<>>
      BY <3>1 DEF NothingDue
    <3>2. CASE p.heap # <<>>
      <4>1. PICK h \in Seq(EntryType) : h = p.heap
        BY <1>3 DEF QueueType
      <4>2. h # <<>> => 1 \in 1..Len(h)
        OBVIOUS
      <4>3. p.heap[1].time \in Int
        BY <3>2, <4>1, <4>2, <1>3, HeapTimes
      <4> QED BY <3>2, <4>3, <1>4 DEF NothingDue
    <3> QED BY <3>1, <3>2
  <2> QED BY <2>1, <2>2, <1>1 DEF ReadyInv
<1>5. CASE p.heap # <<>> /\ p.heap[1].time <= clock
  <2>1. PICK t : t = p.heap[1].timer
    OBVIOUS
  <2>2. PICK r, v : r = remove_timer(SetOps(p, t, <<>>), t) /\ v = w \o p.ops[t]
    OBVIOUS
  <2>3. ReadyStep(s, clock) = [q |-> r, ops |-> v]
    BY <2>1, <2>2, <1>2, <1>5 DEF ReadyStep, SetOps
  <2>4. ReadySoFar(S, q, r, v, clock) /\ Len(r.heap) = Len(p.heap) - 1
    BY <2>1, <2>2, <1>1, <1>5, ReadyOnce
  <2>5. ~NothingDue(p, clock)
    <3>1. PICK h \in Seq(EntryType) : h = p.heap
      BY <1>3 DEF QueueType
    <3>2. h # <<>> => 1 \in 1..Len(h)
      OBVIOUS
    <3>3. p.heap[1].time \in Int
      BY <3>1, <3>2, <1>3, <1>5, HeapTimes
    <3> QED BY <3>3, <1>5 DEF NothingDue
  <2>6. Len(r.heap) + (n + 1) <= L
    <3>1. PICK k \in Nat : k = Len(p.heap)
      BY <1>3
    <3>2. k + n <= L
      BY <3>1, <2>5, <1>1
    <3>3. Len(r.heap) = k - 1
      BY <3>1, <2>4
    <3> QED BY <3>2, <3>3
  <2> QED BY <2>3, <2>4, <2>6 DEF ReadyInv
<1> QED BY <1>4, <1>5

ReadyEffect(S, q, s, clock) ==
  \E r, w : s = [q |-> r, ops |-> w] /\ ReadySoFar(S, q, r, w, clock) /\ NothingDue(r, clock)

LEMMA ReadyIs ==
  ASSUME NEW S, NEW q, QueueOK(S, q), HasOps(q), NEW clock \in Int
  PROVE  ReadyEffect(S, q, Ready(q, clock), clock)
<1>1. PICK L \in Nat : L = Len(q.heap)
  BY HeapTimes DEF QueueOK
<1>2. PICK g : Ready(q, clock) = g[L] /\ ReadyLoop(g, L, q, clock)
  BY <1>1, ReadyRun
<1> DEFINE T == {n \in 0..L : ReadyInv(S, q, L, n, g[n], clock)}
<1>3. 0 \in T
  <2>1. g[0] = [q |-> q, ops |-> <<>>]
    BY <1>2 DEF ReadyLoop
  <2>2. TakeEffect(S, q, q) /\ IndexReset(q, q)
    BY TakeReflexive
  <2>3. ToSet(<<>>) = {} /\ <<>> \in Seq(S)
    BY DEF ToSet
  <2>4. \A e \in Entries(q) : e.timer \in InHeap(q)
    BY InHeapIs
  <2>5. ReadySoFar(S, q, q, <<>>, clock)
    <3>1. InOrder(q, q, <<>>)
      <4>1. Len(<<>>) = 0 /\ 1 .. 0 = {}
        OBVIOUS
      <4>2. [i \in {} |-> q] \in [{} -> Entries(q)]
        OBVIOUS
      <4> QED BY <4>1, <4>2 DEF InOrder
    <3> QED BY <2>2, <2>3, <2>4, <3>1 DEF ReadySoFar
  <2>6. Len(q.heap) + 0 <= L
    BY <1>1
  <2>7. ReadyInv(S, q, L, 0, g[0], clock)
    BY <2>1, <2>5, <2>6 DEF ReadyInv
  <2> QED BY <1>1, <2>7
<1>4. ASSUME NEW n \in 0..(L - 1), n \in T PROVE n + 1 \in T
  <2>1. g[n + 1] = ReadyStep(g[n], clock)
    BY <1>2 DEF ReadyLoop
  <2>2. ReadyInv(S, q, L, n + 1, ReadyStep(g[n], clock), clock)
    BY <1>4, ReadyIteration
  <2> QED BY <2>1, <2>2
<1>5. L \in T
  <2> HIDE DEF T
  <2>1. \A n \in 0..L : n \in T
    BY <1>3, <1>4, BoundedInduction
  <2> QED BY <2>1
<1>6. PICK r, w : /\ g[L] = [q |-> r, ops |-> w] /\ ReadySoFar(S, q, r, w, clock)
                  /\ NothingDue(r, clock) \/ Len(r.heap) + L <= L
  BY <1>5 DEF ReadyInv
<1>7. NothingDue(r, clock)
  <2>1. r \in QueueType(S)
    BY <1>6 DEF ReadySoFar, TakeEffect, QueueOK
  <2>2. PICK h \in Seq(EntryType) : h = r.heap
    BY <2>1 DEF QueueType
  <2>3. Len(h) + L <= L => h = <<>>
    OBVIOUS
  <2> QED BY <2>2, <2>3, <1>6 DEF NothingDue
<1> QED BY <1>2, <1>6, <1>7 DEF ReadyEffect

-----------------------------------------------------------------------------
(* get_all_timers.                                                         *)

GetAllEffect(S, q, r) ==
  /\ TakeEffect(S, q, r) /\ InHeap(r) = {}
  /\ \A t \in Timers : r.ops[t] = IF t \in InHeap(q) THEN <<>> ELSE q.ops[t]

LEMMA GetAllIs ==
  ASSUME NEW S, NEW q, QueueOK(S, q), HasOps(q)
  PROVE  GetAllEffect(S, q, get_all_timers(q))
<1>0. q \in QueueType(S) /\ InHeap(q) \subseteq Timers /\ Active(q) = InHeap(q)
  BY InHeapTimers, ActiveInHeap DEF QueueOK
<1>1. PICK a : a = [t \in Timers |-> IF t \in InHeap(q) THEN Nil ELSE q.next[t]]
  OBVIOUS
<1>2. PICK b : b = [t \in Timers |-> IF t \in InHeap(q) THEN Nil ELSE q.prev[t]]
  OBVIOUS
<1>3. PICK c : c = [t \in Timers |-> IF t \in InHeap(q) THEN <<>> ELSE q.ops[t]]
  OBVIOUS
<1>4. /\ a \in [Timers -> Timers \cup {Nil}] /\ b \in [Timers -> Timers \cup {Nil}]
      /\ c \in [Timers -> Seq(S)]
  <2>1. /\ q.next \in [Timers -> Timers \cup {Nil}] /\ q.prev \in [Timers -> Timers \cup {Nil}]
        /\ q.ops \in [Timers -> Seq(S)] /\ <<>> \in Seq(S)
    BY <1>0 DEF QueueType
  <2> QED BY <2>1, <1>1, <1>2, <1>3
<1>5. PICK r : r = get_all_timers(q)
  OBVIOUS
<1>6. /\ r \in QueueType(S) /\ r.timers = Nil /\ r.next = a /\ r.prev = b
      /\ r.heap = <<>> /\ r.index = q.index /\ r.ops = c
  <2> DEFINE p1 == [q EXCEPT !.timers = Nil]
             p2 == [p1 EXCEPT !.next = a]
             p3 == [p2 EXCEPT !.prev = b]
             p4 == [p3 EXCEPT !.ops = c]
  <2>r. r = [p4 EXCEPT !.heap = <<>>]
    BY <1>0, <1>1, <1>2, <1>3, <1>5 DEF get_all_timers, QueueType
  <2>1. /\ p1 \in QueueType(S) /\ p1.timers = Nil /\ p1.index = q.index
    BY <1>0 DEF QueueType
  <2> HIDE DEF p1
  <2>2. /\ p2 \in QueueType(S) /\ p2.timers = Nil /\ p2.next = a /\ p2.index = q.index
    BY <2>1, <1>4 DEF QueueType
  <2> HIDE DEF p2
  <2>3. /\ p3 \in QueueType(S) /\ p3.timers = Nil /\ p3.next = a /\ p3.prev = b
        /\ p3.index = q.index
    BY <2>2, <1>4 DEF QueueType
  <2> HIDE DEF p3
  <2>4. /\ p4 \in QueueType(S) /\ p4.timers = Nil /\ p4.next = a /\ p4.prev = b
        /\ p4.index = q.index /\ p4.ops = c
    BY <2>3, <1>4 DEF QueueType
  <2> HIDE DEF p4
  <2>5. <<>> \in Seq(EntryType)
    OBVIOUS
  <2> QED BY <2>r, <2>4, <2>5 DEF QueueType
<1>7. InHeap(r) = {} /\ Entries(r) = {} /\ HeapOrdered(r) /\ Indexed(r) /\ Len(r.heap) = 0
  <2>1. Len(<<>>) = 0
    OBVIOUS
  <2> QED BY <2>1, <1>6 DEF InHeap, Entries, HeapOrdered, Indexed
<1>8. Listed(r.timers, r.next, r.prev, InHeap(r), Len(r.heap))
  BY <1>6, <1>7, ListedEmpty
<1>9. QueueOK(S, r)
  BY <1>6, <1>7, <1>8 DEF QueueOK
<1>10. \A t \in InHeap(q) : Resting(r, t)
  BY <1>0, <1>1, <1>2, <1>3, <1>6 DEF Resting, Unlinked
<1>11. Frame(q, r, InHeap(q))
  BY <1>1, <1>2, <1>3, <1>6 DEF Frame
<1>12. \A t \in Timers : Fewer(q.ops[t], r.ops[t])
  <2>1. \A w : Fewer(w, w) /\ Fewer(w, <<>>)
    <3>1. ToSet(<<>>) = {} /\ Distinct(<<>>)
      BY DEF ToSet, Distinct
    <3> QED BY <3>1 DEF Fewer
  <2> QED BY <2>1, <1>3, <1>6
<1>13. InHeap(r) = {t \in InHeap(q) : r.ops[t] # <<>>}
  BY <1>7, <1>10 DEF Resting
<1>14. Entries(r) = {e \in Entries(q) : e.timer \in InHeap(r)}
  BY <1>7
<1>15. TakeEffect(S, q, r)
  BY <1>7, <1>9, <1>10, <1>11, <1>12, <1>13, <1>14 DEF TakeEffect
<1>16. \A t \in Timers : r.ops[t] = IF t \in InHeap(q) THEN <<>> ELSE q.ops[t]
  BY <1>3, <1>6
<1> QED BY <1>5, <1>7, <1>15, <1>16 DEF GetAllEffect

-----------------------------------------------------------------------------
(* move_timer.                                                             *)

(* The fields of the record that move_timer returns.                       *)
MoveFieldsEffect(S, q, r, target, source) ==
  /\ r \in QueueType(S)
  /\ r.heap = MoveEntry(q, target, source).heap
  /\ r.ops[source] = <<>>
  /\ target # source => r.ops[target] = q.ops[source]
  /\ r.index[source] = NoIndex
  /\ target # source => r.index[target] = q.index[source]
  /\ r.timers = IF q.timers = source THEN target ELSE q.timers
  /\ r.next[source] = Nil
  /\ target # source => r.next[target] = q.next[source]
  /\ r.prev[source] = Nil
  /\ target # source => r.prev[target] = q.prev[source]
  /\ \A x \in Timers \ {source, target} :
       /\ r.ops[x] = q.ops[x] /\ r.index[x] = q.index[x]
       /\ r.next[x] = IF x = q.prev[source] THEN target ELSE q.next[x]
       /\ r.prev[x] = IF x = q.next[source] THEN target ELSE q.prev[x]

LEMMA MoveFieldsAre ==
  ASSUME NEW S, NEW q \in QueueType(S), NEW target \in Timers, NEW source \in Timers,
         q.ops[target] = <<>>
  PROVE  MoveFieldsEffect(S, q, move_timer(q, target, source), target, source)
<1>1. PICK h \in Seq(EntryType) : h = q.heap
  BY DEF QueueType
<1>2. PICK g : g = MoveEntry(q, target, source).heap
  OBVIOUS
<1>3. PICK i \in Nat : i = q.index[source]
  BY DEF QueueType
<1>4. g \in Seq(EntryType)
  <2>1. g = IF i <= Len(h) THEN [h EXCEPT ![i].timer = target] ELSE h
    BY <1>1, <1>2, <1>3 DEF MoveEntry, QueueType
  <2>2. [h EXCEPT ![i].timer = target] \in Seq(EntryType)
    <3>1. \A k \in 1..Len(h) : [h[k] EXCEPT !.timer = target] \in EntryType
      <4> SUFFICES ASSUME NEW k \in 1..Len(h)
                   PROVE  [h[k] EXCEPT !.timer = target] \in EntryType
        OBVIOUS
      <4>1. PICK e \in EntryType : e = h[k]
        OBVIOUS
      <4>2. [e EXCEPT !.timer = target] \in EntryType
        BY DEF EntryType
      <4> QED BY <4>1, <4>2
    <3>2. CASE i \in 1..Len(h)
      <4>1. PICK e \in EntryType : e = [h[i] EXCEPT !.timer = target]
        BY <3>1, <3>2
      <4>2. [h EXCEPT ![i] = e] \in Seq(EntryType)
        BY <3>2
      <4>3. [h EXCEPT ![i].timer = target] = [h EXCEPT ![i] = e]
        BY <4>1
      <4> QED BY <4>2, <4>3
    <3>3. CASE i \notin 1..Len(h)
      <4>1. [h EXCEPT ![i].timer = target] = h
        BY <3>3
      <4> QED BY <4>1
    <3> QED BY <3>2, <3>3
  <2> QED BY <2>1, <2>2
<1>5. PICK c : c = [q.ops EXCEPT ![target] = @ \o q.ops[source], ![source] = <<>>]
  OBVIOUS
<1>6. /\ c \in [Timers -> Seq(S)] /\ c[source] = <<>>
      /\ target # source => c[target] = q.ops[source]
      /\ \A x \in Timers \ {source, target} : c[x] = q.ops[x]
  <2>1. PICK f \in [Timers -> Seq(S)] : f = q.ops
    BY DEF QueueType
  <2>2. PICK w \in Seq(S) : w = f[source]
    OBVIOUS
  <2>3. <<>> \o w = w
    OBVIOUS
  <2>4. c = [f EXCEPT ![target] = w, ![source] = <<>>]
    <3>1. f[target] \o f[source] = w
      BY <2>1, <2>2, <2>3
    <3> QED BY <3>1, <2>1, <1>5
  <2>5. <<>> \in Seq(S)
    OBVIOUS
  <2> QED BY <2>1, <2>2, <2>4, <2>5
<1>7. PICK x0 : x0 = [q.index EXCEPT ![target] = q.index[source], ![source] = NoIndex]
  OBVIOUS
<1>8. /\ x0 \in [Timers -> Nat] /\ x0[source] = NoIndex
      /\ target # source => x0[target] = q.index[source]
      /\ \A x \in Timers \ {source, target} : x0[x] = q.index[x]
  BY <1>7, NoIndexIsNat DEF QueueType
<1>9. PICK f : f = (IF q.timers = source THEN target ELSE q.timers)
  OBVIOUS
<1>10. PICK a : a = [x \in Timers |-> IF x = source THEN Nil
                                ELSE IF x = target THEN q.next[source]
                                ELSE IF x = q.prev[source] THEN target ELSE q.next[x]]
  OBVIOUS
<1>11. PICK b : b = [x \in Timers |-> IF x = source THEN Nil
                                ELSE IF x = target THEN q.prev[source]
                                ELSE IF x = q.next[source] THEN target ELSE q.prev[x]]
  OBVIOUS
<1>12. /\ f \in Timers \cup {Nil} /\ a \in [Timers -> Timers \cup {Nil}]
       /\ b \in [Timers -> Timers \cup {Nil}]
  BY <1>9, <1>10, <1>11 DEF QueueType
<1>13. PICK r : r = move_timer(q, target, source)
  OBVIOUS
<1>14. /\ r \in QueueType(S) /\ r.timers = f /\ r.next = a /\ r.prev = b
       /\ r.heap = g /\ r.index = x0 /\ r.ops = c
  <2> DEFINE p0 == MoveEntry(q, target, source)
             p1 == [p0 EXCEPT !.ops = c]
             p2 == [p1 EXCEPT !.index = x0]
             p3 == [p2 EXCEPT !.timers = f]
             p4 == [p3 EXCEPT !.next = a]
  <2>0. /\ p0 \in QueueType(S) /\ p0.heap = g
        /\ p0.timers = q.timers /\ p0.next = q.next /\ p0.prev = q.prev
        /\ p0.index = q.index /\ p0.ops = q.ops
    <3>1. p0 = [q EXCEPT !.heap = g]
      BY <1>2 DEF MoveEntry, QueueType
    <3> HIDE DEF p0
    <3> QED BY <3>1, <1>4 DEF QueueType
  <2>r. r = [p4 EXCEPT !.prev = b]
    <3>1. PICK m : m = p0
      OBVIOUS
    <3> HIDE DEF p0
    <3>2. [m EXCEPT !.ops[target] = @ \o q.ops[source], !.ops[source] = <<>>]
            = [m EXCEPT !.ops = c]
      BY <3>1, <2>0, <1>5 DEF QueueType
    <3>3. x0 = [m.index EXCEPT ![target] = q.index[source], ![source] = NoIndex]
      BY <3>1, <2>0, <1>7
    <3>4. f = IF m.timers = source THEN target ELSE m.timers
      BY <3>1, <2>0, <1>9
    <3>5. a = [x \in Timers |-> IF x = source THEN Nil
                               ELSE IF x = target THEN q.next[source]
                               ELSE IF x = q.prev[source] THEN target ELSE m.next[x]]
      BY <3>1, <2>0, <1>10
    <3>6. b = [x \in Timers |-> IF x = source THEN Nil
                               ELSE IF x = target THEN q.prev[source]
                               ELSE IF x = q.next[source] THEN target ELSE m.prev[x]]
      BY <3>1, <2>0, <1>11
    <3>7. m = MoveEntry(q, target, source)
      BY <3>1 DEF p0
    <3>8. r = [m EXCEPT !.ops = c, !.index = x0, !.timers = f, !.next = a, !.prev = b]
      BY <3>2, <3>3, <3>4, <3>5, <3>6, <3>7, <1>13 DEF move_timer
    <3> QED BY <3>1, <3>8
  <2> HIDE DEF p0
  <2>1. p1 \in QueueType(S) /\ p1.heap = g /\ p1.ops = c
    BY <2>0, <1>6 DEF QueueType
  <2> HIDE DEF p1
  <2>2. p2 \in QueueType(S) /\ p2.heap = g /\ p2.ops = c /\ p2.index = x0
    BY <2>1, <1>8 DEF QueueType
  <2> HIDE DEF p2
  <2>3. p3 \in QueueType(S) /\ p3.heap = g /\ p3.ops = c /\ p3.index = x0 /\ p3.timers = f
    BY <2>2, <1>12 DEF QueueType
  <2> HIDE DEF p3
  <2>4. /\ p4 \in QueueType(S) /\ p4.heap = g /\ p4.ops = c /\ p4.index = x0
        /\ p4.timers = f /\ p4.next = a
    BY <2>3, <1>12 DEF QueueType
  <2> HIDE DEF p4
  <2> QED BY <2>r, <2>4, <1>12 DEF QueueType
<1>15. /\ a[source] = Nil /\ b[source] = Nil
       /\ target # source => a[target] = q.next[source] /\ b[target] = q.prev[source]
       /\ \A x \in Timers \ {source, target} :
            /\ a[x] = IF x = q.prev[source] THEN target ELSE q.next[x]
            /\ b[x] = IF x = q.next[source] THEN target ELSE q.prev[x]
  BY <1>10, <1>11
<1>16. MoveFieldsEffect(S, q, r, target, source)
  BY <1>2, <1>6, <1>8, <1>9, <1>14, <1>15 DEF MoveFieldsEffect
<1> QED BY <1>13, <1>16

(* A timer nobody waits for is moved: neither heap nor list changes.        *)
MoveIdleEffect(S, q, r, target, source) ==
  /\ QueueOK(S, r) /\ r.heap = q.heap
  /\ InHeap(r) = InHeap(q) /\ Entries(r) = Entries(q)
  /\ Resting(r, source) /\ Resting(r, target)
  /\ r.index[source] = NoIndex
  /\ target # source => r.index[target] = q.index[source]
  /\ Frame(q, r, {source, target})

LEMMA MoveIdleIs ==
  ASSUME NEW S, NEW q, QueueOK(S, q),
         NEW target \in Timers \ InHeap(q), NEW source \in Timers \ InHeap(q),
         Resting(q, target), Resting(q, source), q.index[source] = NoIndex \/ q.heap = <<>>
  PROVE  MoveIdleEffect(S, q, move_timer(q, target, source), target, source)
<1>0. q \in QueueType(S) /\ target \in Timers /\ source \in Timers
      /\ InHeap(q) \subseteq Timers /\ q.ops[target] = <<>> /\ q.ops[source] = <<>>
  BY InHeapTimers DEF QueueOK, Resting
<1>1. PICK r : r = move_timer(q, target, source)
  OBVIOUS
<1>2. MoveFieldsEffect(S, q, r, target, source)
  BY <1>0, <1>1, MoveFieldsAre
<1>3. r.heap = q.heap
  <2>1. PICK h \in Seq(EntryType) : h = q.heap
    BY <1>0 DEF QueueType
  <2>2. PICK i \in Nat : i = q.index[source]
    BY <1>0 DEF QueueType
  <2>3. r.heap = IF i <= Len(h) THEN [h EXCEPT ![i].timer = target] ELSE h
    <3>1. MoveEntry(q, target, source).heap
            = IF i <= Len(h) THEN [h EXCEPT ![i].timer = target] ELSE h
      BY <2>1, <2>2, <1>0 DEF MoveEntry, QueueType
    <3> QED BY <3>1, <1>2 DEF MoveFieldsEffect
  <2>4. CASE h = <<>>
    <3>1. i \notin DOMAIN h
      BY <2>4
    <3>2. [h EXCEPT ![i].timer = target] = h
      BY <3>1
    <3> QED BY <3>2, <2>1, <2>3
  <2>5. CASE h # <<>>
    <3>1. i = NoIndex
      BY <2>1, <2>2, <2>5
    <3>2. Len(h) <= Cardinality(Timers)
      BY <2>1, HeapCardinality DEF QueueOK
    <3>3. Cardinality(Timers) \in Nat
      BY TimerQueueAssumption, FS_CardinalityType
    <3>4. ~(i <= Len(h))
      BY <3>1, <3>2, <3>3 DEF NoIndex
    <3> QED BY <3>4, <2>1, <2>3
  <2> QED BY <2>4, <2>5
<1>4. r.timers = q.timers
  <2>1. q.timers \in InHeap(q) \cup {Nil} /\ source # Nil
    BY <1>0, ActiveInHeap, TimerQueueAssumption
  <2>2. q.timers # source
    BY <2>1
  <2> QED BY <2>2, <1>2 DEF MoveFieldsEffect
<1>5. Resting(r, source) /\ Resting(r, target)
  <2>1. Resting(r, source)
    BY <1>2 DEF MoveFieldsEffect, Resting, Unlinked
  <2>2. q.next[source] = Nil /\ q.prev[source] = Nil
    BY DEF Resting, Unlinked
  <2>3. target # source => r.next[target] = Nil /\ r.prev[target] = Nil /\ r.ops[target] = <<>>
    BY <1>0, <1>2, <2>2 DEF MoveFieldsEffect
  <2> QED BY <2>1, <2>3 DEF Resting, Unlinked
<1>6. Frame(q, r, {source, target})
  <2>1. q.next[source] = Nil /\ q.prev[source] = Nil
    BY DEF Resting, Unlinked
  <2>2. \A x \in Timers : x # Nil
    BY TimerQueueAssumption
  <2> QED BY <1>2, <2>1, <2>2 DEF MoveFieldsEffect, Frame
<1>7. r \in QueueType(S)
  BY <1>2 DEF MoveFieldsEffect
<1>8. QueueOK(S, r) /\ InHeap(r) = InHeap(q) /\ Entries(r) = Entries(q)
  <2>1. {source, target} \cap InHeap(q) = {}
    OBVIOUS
  <2> QED BY <2>1, <1>3, <1>4, <1>6, <1>7, QueueOKFrame
<1> QED BY <1>1, <1>2, <1>3, <1>5, <1>6, <1>8 DEF MoveIdleEffect, MoveFieldsEffect

(* A timer takes the place of another one, with its operations.             *)
MoveActiveEffect(S, q, r, target, source) ==
  /\ QueueOK(S, r)
  /\ InHeap(r) = (InHeap(q) \ {source}) \cup {target}
  /\ \E e \in Entries(q) :
       /\ e.timer = source
       /\ Entries(r) = {f \in Entries(q) : f.timer # source} \cup {Entry(e.time, target)}
  /\ Resting(r, source) /\ r.index[source] = NoIndex
  /\ r.ops[target] = q.ops[source]
  /\ \A x \in Timers \ {source, target} : r.ops[x] = q.ops[x]
  /\ Frame(q, r, InHeap(q) \cup {target})
  /\ q.heap # <<>> /\ r.heap # <<>> /\ r.heap[1].time = q.heap[1].time

LEMMA MoveActiveIs ==
  ASSUME NEW S, NEW q, QueueOK(S, q),
         NEW target \in Timers \ InHeap(q), NEW source \in InHeap(q), Resting(q, target)
  PROVE  MoveActiveEffect(S, q, move_timer(q, target, source), target, source)
<1>0. q \in QueueType(S) /\ target \in Timers /\ source \in Timers /\ target # source
      /\ InHeap(q) \subseteq Timers /\ q.ops[target] = <<>>
  BY InHeapTimers DEF QueueOK, Resting
<1>1. PICK r : r = move_timer(q, target, source)
  OBVIOUS
<1>2. MoveFieldsEffect(S, q, r, target, source)
  BY <1>0, <1>1, MoveFieldsAre
<1>3. PICK h \in Seq(EntryType) : h = q.heap
  BY <1>0 DEF QueueType
<1>4. PICK L \in Nat : L = Len(h)
  OBVIOUS
<1>5. \A k \in 1..L : h[k].timer \in InHeap(q) /\ q.index[h[k].timer] = k /\ h[k] \in EntryType
  BY <1>3, <1>4 DEF InHeap, Indexed, QueueOK
<1>6. PICK i \in 1..L : h[i].timer = source /\ q.index[source] = i
  <2>1. PICK j \in 1..L : h[j].timer = source
    BY <1>3, <1>4 DEF InHeap
  <2> QED BY <2>1, <1>5
<1>7. PICK e \in EntryType : e = h[i]
  BY <1>5
<1>8. PICK g : g = [h EXCEPT ![i].timer = target]
  OBVIOUS
<1>9. r.heap = g
  <2>1. MoveEntry(q, target, source).heap
          = IF i <= Len(h) THEN [h EXCEPT ![i].timer = target] ELSE h
    BY <1>0, <1>3, <1>6 DEF MoveEntry, QueueType
  <2>2. i <= Len(h)
    BY <1>4, <1>6
  <2> QED BY <2>1, <2>2, <1>2, <1>8 DEF MoveFieldsEffect
<1>10. /\ Len(g) = L /\ \A k \in 1..L : k # i => g[k] = h[k]
       /\ g[i] = Entry(e.time, target)
  <2>1. PICK d : d = [e EXCEPT !.timer = target]
    OBVIOUS
  <2>2. d = Entry(e.time, target)
    BY <2>1 DEF Entry, EntryType
  <2>3. g = [h EXCEPT ![i] = d]
    BY <2>1, <1>4, <1>7, <1>8
  <2>4. Len(g) = L /\ g[i] = d /\ \A k \in 1..L : k # i => g[k] = h[k]
    BY <2>3, <1>4
  <2> QED BY <2>2, <2>4
<1>e. Entry(e.time, target).time = e.time /\ Entry(e.time, target).timer = target
  BY DEF Entry
<1>11. \A k \in 1..L : g[k].time = h[k].time
  BY <1>e, <1>7, <1>10
<1>12. HeapOrdered(r)
  <2> SUFFICES ASSUME NEW k \in 2..L PROVE g[k \div 2].time <= g[k].time
    BY <1>9, <1>10 DEF HeapOrdered
  <2>1. PICK c \in 1..(k - 1) : c = k \div 2
    BY Parent
  <2>2. c \in 1..L /\ k \in 1..L
    BY <2>1
  <2>3. h[c].time <= h[k].time
    BY <2>1, <1>3, <1>4 DEF HeapOrdered, QueueOK
  <2> QED BY <2>1, <2>2, <2>3, <1>11
<1>13. \A k \in 1..L : k # i => h[k].timer \in InHeap(q) \ {source}
  BY <1>5, <1>6
<1>14. Indexed(r)
  <2> SUFFICES ASSUME NEW k \in 1..L PROVE r.index[g[k].timer] = k
    BY <1>9, <1>10 DEF Indexed
  <2>1. CASE k = i
    BY <2>1, <1>e, <1>0, <1>2, <1>6, <1>10 DEF MoveFieldsEffect
  <2>2. CASE k # i
    <3>1. PICK x \in Timers \ {source, target} : x = h[k].timer
      BY <2>2, <1>0, <1>13
    <3>2. r.index[x] = q.index[x]
      BY <1>2 DEF MoveFieldsEffect
    <3> QED BY <3>1, <3>2, <2>2, <1>5, <1>10
  <2> QED BY <2>1, <2>2
<1>15. Entries(q) = {h[k] : k \in 1..L} /\ Entries(r) = {g[k] : k \in 1..L}
  BY <1>3, <1>4, <1>9, <1>10 DEF Entries
<1>16. Entries(r) = {f \in Entries(q) : f.timer # source} \cup {Entry(e.time, target)}
  <2>1. ASSUME NEW k \in 1..L
        PROVE  g[k] \in {f \in Entries(q) : f.timer # source} \cup {Entry(e.time, target)}
    <3>1. CASE k = i
      BY <3>1, <1>10
    <3>2. CASE k # i
      <4>1. h[k].timer # source
        BY <3>2, <1>13
      <4> QED BY <3>2, <4>1, <1>10, <1>15
    <3> QED BY <3>1, <3>2
  <2>2. ASSUME NEW k \in 1..L, h[k].timer # source PROVE h[k] \in Entries(r)
    <3>1. k # i /\ g[k] = h[k]
      BY <2>2, <1>6, <1>10
    <3> QED BY <3>1, <1>15
  <2>3. Entry(e.time, target) \in Entries(r)
    BY <1>6, <1>10, <1>15
  <2> QED BY <2>1, <2>2, <2>3, <1>15
<1>17. InHeap(r) = (InHeap(q) \ {source}) \cup {target}
  <2>1. InHeap(r) = {f.timer : f \in Entries(r)} /\ InHeap(q) = {f.timer : f \in Entries(q)}
    BY InHeapIs
  <2> QED BY <2>1, <1>e, <1>16
<1>18. Listed(r.timers, r.next, r.prev, InHeap(r), Len(r.heap))
  <2>1. Listed(q.timers, q.next, q.prev, InHeap(q), L)
    BY <1>3, <1>4 DEF QueueOK
  <2>2. ReplacedLinks(q.timers, q.next, q.prev, InHeap(q), source, target,
                      r.timers, r.next, r.prev)
    <3>1. /\ r.timers = IF q.timers = source THEN target ELSE q.timers
          /\ r.next[target] = q.next[source] /\ r.prev[target] = q.prev[source]
      BY <1>0, <1>2 DEF MoveFieldsEffect
    <3>2. \A x \in InHeap(q) : x # source => x \in Timers \ {source, target}
      BY <1>0
    <3>3. \A x \in Timers \ {source, target} :
            /\ r.next[x] = IF x = q.prev[source] THEN target ELSE q.next[x]
            /\ r.prev[x] = IF x = q.next[source] THEN target ELSE q.prev[x]
      BY <1>2 DEF MoveFieldsEffect
    <3> QED BY <3>1, <3>2, <3>3 DEF ReplacedLinks
  <2>3. Listed(r.timers, r.next, r.prev, (InHeap(q) \ {source}) \cup {target}, L)
    BY <2>1, <2>2, <1>0, ListedReplace
  <2> QED BY <2>3, <1>9, <1>10, <1>17
<1>19. QueueOK(S, r)
  <2>1. r \in QueueType(S)
    BY <1>2 DEF MoveFieldsEffect
  <2> QED BY <2>1, <1>12, <1>14, <1>18 DEF QueueOK
<1>20. Frame(q, r, InHeap(q) \cup {target})
  <2>1. q.next[source] \in InHeap(q) \cup {Nil} /\ q.prev[source] \in InHeap(q) \cup {Nil}
    BY ActiveInHeap
  <2>2. \A x \in Timers : x # Nil
    BY TimerQueueAssumption
  <2>3. \A x \in Timers \ (InHeap(q) \cup {target}) :
          x \in Timers \ {source, target} /\ x # q.prev[source] /\ x # q.next[source]
    BY <2>1, <2>2
  <2> QED BY <2>3, <1>2 DEF MoveFieldsEffect, Frame
<1>21. Resting(r, source) /\ r.index[source] = NoIndex
       /\ r.ops[target] = q.ops[source]
       /\ \A x \in Timers \ {source, target} : r.ops[x] = q.ops[x]
  BY <1>0, <1>2 DEF MoveFieldsEffect, Resting, Unlinked
<1>22. q.heap # <<>> /\ r.heap # <<>> /\ r.heap[1].time = q.heap[1].time
  <2>1. 1 \in 1..L /\ L # 0
    BY <1>6
  <2>2. h # <<>> /\ g # <<>>
    BY <2>1, <1>4, <1>10
  <2> QED BY <2>1, <2>2, <1>3, <1>9, <1>11
<1>23. e \in Entries(q) /\ e.timer = source
  BY <1>6, <1>7, <1>15
<1> QED BY <1>1, <1>16, <1>17, <1>19, <1>20, <1>21, <1>22, <1>23 DEF MoveActiveEffect

-----------------------------------------------------------------------------
(* The service. *)

DataType ==
  [next : [Timers -> Timers \cup {Nil}], prev : [Timers -> Timers \cup {Nil}],
   index : [Timers -> Nat], ops : [Timers -> Seq(WaitOps)]]

RootsType == [timers : Timers \cup {Nil}, heap : Seq(EntryType)]

Whole(qu, d, s) == WithLinks(qu[s], d)

-----------------------------------------------------------------------------
(* Taking a queue apart and putting it together.                           *)

LEMMA PartsOf ==
  ASSUME NEW q \in QueueType(WaitOps)
  PROVE  /\ Roots(q) \in RootsType /\ Links(q) \in DataType
         /\ Roots(q).timers = q.timers /\ Roots(q).heap = q.heap
         /\ Links(q).next = q.next /\ Links(q).prev = q.prev
         /\ Links(q).index = q.index /\ Links(q).ops = q.ops
         /\ WithLinks(Roots(q), Links(q)) = q
  BY DEF QueueType, RootsType, DataType, Roots, Links, WithLinks

LEMMA WholeIs ==
  ASSUME NEW ro \in RootsType, NEW d \in DataType
  PROVE  /\ WithLinks(ro, d) \in QueueType(WaitOps)
         /\ WithLinks(ro, d).timers = ro.timers /\ WithLinks(ro, d).heap = ro.heap
         /\ WithLinks(ro, d).next = d.next /\ WithLinks(ro, d).prev = d.prev
         /\ WithLinks(ro, d).index = d.index /\ WithLinks(ro, d).ops = d.ops
         /\ Roots(WithLinks(ro, d)) = ro /\ Links(WithLinks(ro, d)) = d
  BY DEF QueueType, RootsType, DataType, Roots, Links, WithLinks

Stored(qu, d) == qu \in [Services -> RootsType] /\ d \in DataType

Put(qu, s, q) == [qu EXCEPT ![s] = Roots(q)]

LEMMA StoredWhole ==
  ASSUME NEW qu, NEW d, Stored(qu, d), NEW s \in Services
  PROVE  /\ Whole(qu, d, s) \in QueueType(WaitOps)
         /\ Whole(qu, d, s).timers = qu[s].timers /\ Whole(qu, d, s).heap = qu[s].heap
         /\ Whole(qu, d, s).next = d.next /\ Whole(qu, d, s).prev = d.prev
         /\ Whole(qu, d, s).index = d.index /\ Whole(qu, d, s).ops = d.ops
         /\ Roots(Whole(qu, d, s)) = qu[s] /\ Links(Whole(qu, d, s)) = d
<1>1. PICK ro \in RootsType : ro = qu[s]
  BY DEF Stored
<1>2. d \in DataType
  BY DEF Stored
<1>3. Whole(qu, d, s) = WithLinks(ro, d)
  BY <1>1 DEF Whole
<1> QED BY <1>1, <1>2, <1>3, WholeIs

(* An operation on the queue of s leaves the other queues alone when their  *)
(* timers are not among those it touches.                                   *)
OtherQueuesSame(qu, d, qu1, d1, s) ==
  \A x \in Services \ {s} :
    /\ QueueOK(WaitOps, Whole(qu1, d1, x))
    /\ InHeap(Whole(qu1, d1, x)) = InHeap(Whole(qu, d, x))
    /\ Entries(Whole(qu1, d1, x)) = Entries(Whole(qu, d, x))

LEMMA OtherQueues ==
  ASSUME NEW qu, NEW d, Stored(qu, d),
         NEW s \in Services, NEW r \in QueueType(WaitOps), NEW X,
         Frame(Whole(qu, d, s), r, X),
         \A x \in Services \ {s} : QueueOK(WaitOps, Whole(qu, d, x))
                                   /\ X \cap InHeap(Whole(qu, d, x)) = {}
  PROVE  /\ Stored(Put(qu, s, r), Links(r))
         /\ Whole(Put(qu, s, r), Links(r), s) = r
         /\ OtherQueuesSame(qu, d, Put(qu, s, r), Links(r), s)
         /\ \A x \in Services \ {s} : Put(qu, s, r)[x] = qu[x]
         /\ Put(qu, s, r)[s].heap = r.heap
<1>0. qu \in [Services -> RootsType] /\ d \in DataType
  BY DEF Stored
<1>1. PICK ro \in RootsType : ro = Roots(r) /\ ro.heap = r.heap
  BY PartsOf
<1>2. PICK d1 \in DataType : /\ d1 = Links(r) /\ d1.next = r.next /\ d1.prev = r.prev
                             /\ d1.index = r.index /\ d1.ops = r.ops
  BY PartsOf
<1>3. WithLinks(ro, d1) = r
  BY <1>1, <1>2, PartsOf
<1>4. PICK qu1 : qu1 = Put(qu, s, r)
  OBVIOUS
<1>5. /\ qu1 \in [Services -> RootsType] /\ qu1[s] = ro
      /\ \A x \in Services \ {s} : qu1[x] = qu[x]
  BY <1>0, <1>1, <1>4 DEF Put
<1>6. Stored(qu1, d1)
  BY <1>5 DEF Stored
<1>7. Whole(qu1, d1, s) = r
  BY <1>3, <1>5 DEF Whole
<1>8. ASSUME NEW x \in Services \ {s}
      PROVE  /\ QueueOK(WaitOps, Whole(qu1, d1, x))
             /\ InHeap(Whole(qu1, d1, x)) = InHeap(Whole(qu, d, x))
             /\ Entries(Whole(qu1, d1, x)) = Entries(Whole(qu, d, x))
  <2>1. PICK q : q = Whole(qu, d, x)
    OBVIOUS
  <2>2. PICK p : p = Whole(qu1, d1, x)
    OBVIOUS
  <2>3. /\ q.timers = qu[x].timers /\ q.heap = qu[x].heap
        /\ q.next = d.next /\ q.prev = d.prev /\ q.index = d.index /\ q.ops = d.ops
    BY <2>1, StoredWhole
  <2>4. /\ p.timers = qu1[x].timers /\ p.heap = qu1[x].heap
        /\ p.next = d1.next /\ p.prev = d1.prev /\ p.index = d1.index /\ p.ops = d1.ops
        /\ p \in QueueType(WaitOps)
    BY <2>2, <1>6, StoredWhole
  <2>5. PICK w : /\ w = Whole(qu, d, s)
                 /\ w.next = d.next /\ w.prev = d.prev /\ w.index = d.index /\ w.ops = d.ops
    BY StoredWhole
  <2>6. Frame(w, r, X)
    BY <2>5
  <2>7. Frame(q, p, X)
    BY <2>3, <2>4, <2>5, <2>6, <1>2 DEF Frame
  <2>8. p.timers = q.timers /\ p.heap = q.heap
    BY <2>3, <2>4, <1>5
  <2>9. QueueOK(WaitOps, q) /\ X \cap InHeap(q) = {}
    BY <2>1
  <2> QED BY <2>1, <2>2, <2>4, <2>7, <2>8, <2>9, QueueOKFrame
<1>9. OtherQueuesSame(qu, d, qu1, d1, s)
  BY <1>8 DEF OtherQueuesSame
<1> QED BY <1>1, <1>2, <1>4, <1>5, <1>6, <1>7, <1>9

-----------------------------------------------------------------------------
(* The invariant of queues, timers and operations.                         *)

(* The heap of a service has exactly its timers that are waited for.        *)
Waited(d, al, sv, s) == {t \in Timers : t \in al /\ sv[t] = s /\ d.ops[t] # <<>>}

QueuesOK(qu, d, al, sv) ==
  \A s \in Services : /\ QueueOK(WaitOps, Whole(qu, d, s))
                      /\ InHeap(Whole(qu, d, s)) = Waited(d, al, sv, s)

(* A timer that is waited for is alive, and its io_context is not shut down. *)
OwnersOK(d, al, sv, sh) ==
  \A t \in Timers : /\ t \in al => sv[t] \in Services
                    /\ d.ops[t] # <<>> => t \in al /\ ~sh[sv[t]]

(* Any other timer is out of the lists; its position may only be stale when *)
(* an io_context was shut down: its own one, if it is alive.                *)
StalePosition(t, al, sv, sh) ==
  \/ t \in al /\ sh[sv[t]]
  \/ t \notin al /\ \E x \in Services : sh[x]

IdleOK(d, al, sv, sh) ==
  \A t \in Timers : d.ops[t] = <<>> =>
    /\ d.next[t] = Nil /\ d.prev[t] = Nil
    /\ d.index[t] = NoIndex \/ StalePosition(t, al, sv, sh)

(* Entries have the expiry of their timers.                                *)
TimesOK(qu, d, ex) ==
  \A s \in Services : \A e \in Entries(Whole(qu, d, s)) : e.time = ex[e.timer]

(* The operations that wait are the ones the timers have, each once.        *)
WaitsOK(d, st, dl, ex) ==
  /\ \A t \in Timers : \A o \in ToSet(d.ops[t]) : /\ o \in WaitOps /\ st[o] = "waiting"
                                                  /\ dl[o] = ex[t]
  /\ \A o \in WaitOps : st[o] = "waiting" => \E t \in Timers : o \in ToSet(d.ops[t])
  /\ \A t, u \in Timers : \A o : o \in ToSet(d.ops[t]) /\ o \in ToSet(d.ops[u]) => t = u
  /\ \A t \in Timers : Distinct(d.ops[t])

World(qu, d, al, sv, ex, st, dl, sh) ==
  /\ Stored(qu, d)
  /\ QueuesOK(qu, d, al, sv) /\ OwnersOK(d, al, sv, sh) /\ IdleOK(d, al, sv, sh)
  /\ TimesOK(qu, d, ex) /\ WaitsOK(d, st, dl, ex)

LEMMA WorldQueue ==
  ASSUME NEW qu, NEW d, NEW al, NEW sv, NEW ex, NEW st, NEW dl, NEW sh,
         World(qu, d, al, sv, ex, st, dl, sh), NEW s \in Services
  PROVE  /\ QueueOK(WaitOps, Whole(qu, d, s)) /\ HasOps(Whole(qu, d, s))
         /\ InHeap(Whole(qu, d, s)) = Waited(d, al, sv, s)
         /\ \A t \in Timers : t \in al /\ sv[t] = s /\ t \notin InHeap(Whole(qu, d, s))
                                => Resting(Whole(qu, d, s), t)
         /\ \A t \in Timers : d.ops[t] = <<>>
                                => /\ t \notin InHeap(Whole(qu, d, s))
                                   /\ Resting(Whole(qu, d, s), t)
<1>1. PICK q : q = Whole(qu, d, s)
  OBVIOUS
<1>2. q.next = d.next /\ q.prev = d.prev /\ q.index = d.index /\ q.ops = d.ops
  BY <1>1, StoredWhole DEF World
<1>3. QueueOK(WaitOps, q) /\ InHeap(q) = Waited(d, al, sv, s)
  BY <1>1 DEF World, QueuesOK
<1>4. HasOps(q)
  BY <1>2, <1>3 DEF HasOps, Waited
<1>5. \A t \in Timers : d.ops[t] = <<>> => t \notin InHeap(q) /\ Resting(q, t)
  BY <1>2, <1>3 DEF World, IdleOK, Resting, Unlinked, Waited
<1>6. \A t \in Timers : t \in al /\ sv[t] = s /\ t \notin InHeap(q) => Resting(q, t)
  BY <1>3, <1>5 DEF Waited
<1> QED BY <1>1, <1>3, <1>4, <1>5, <1>6

(* The timers of different services are different.                         *)
LEMMA WorldDisjoint ==
  ASSUME NEW qu, NEW d, NEW al, NEW sv, NEW ex, NEW st, NEW dl, NEW sh,
         World(qu, d, al, sv, ex, st, dl, sh), NEW s \in Services, NEW X,
         \A t \in X : t \in InHeap(Whole(qu, d, s)) \/ d.ops[t] = <<>>
                      \/ (t \in al /\ sv[t] = s)
  PROVE  \A x \in Services \ {s} : QueueOK(WaitOps, Whole(qu, d, x))
                                   /\ X \cap InHeap(Whole(qu, d, x)) = {}
<1> SUFFICES ASSUME NEW x \in Services \ {s}
             PROVE  QueueOK(WaitOps, Whole(qu, d, x)) /\ X \cap InHeap(Whole(qu, d, x)) = {}
  OBVIOUS
<1>1. /\ QueueOK(WaitOps, Whole(qu, d, x))
      /\ InHeap(Whole(qu, d, x)) = Waited(d, al, sv, x)
      /\ InHeap(Whole(qu, d, s)) = Waited(d, al, sv, s)
  BY DEF World, QueuesOK
<1>2. ASSUME NEW t \in X, t \in Waited(d, al, sv, x) PROVE FALSE
  BY <1>1, <1>2 DEF Waited
<1> QED BY <1>1, <1>2

-----------------------------------------------------------------------------
(* Operations are taken from the timers of one service.                    *)

(* What became of the operations in W; the others are what they were.       *)
Completes(st, dl, W, st1, dl1) ==
  \A o \in WaitOps :
    /\ o \in W => st1[o] # "waiting"
    /\ o \notin W => st1[o] = st[o] /\ (st[o] = "waiting" => dl1[o] = dl[o])

TakenFrom(q, r, W) ==
  \A o : o \in W <=> \E t \in Timers : o \in ToSet(q.ops[t]) /\ o \notin ToSet(r.ops[t])

(* Either the positions are reset, or the io_context is shut down.          *)
PositionsOK(q, r, s, sh, sh1) ==
  \/ sh1 = sh /\ IndexReset(q, r)
  \/ sh1 = [sh EXCEPT ![s] = TRUE] /\ InHeap(r) = {}

LEMMA FewerEmpty ==
  ASSUME NEW S, NEW w \in Seq(S), NEW v, v = <<>>, Fewer(v, w)
  PROVE  w = <<>>
<1>1. ToSet(v) = {}
  BY DEF ToSet
<1>2. ToSet(w) = {}
  BY <1>1 DEF Fewer
<1>3. ToSet(w) = {w[i] : i \in 1..Len(w)}
  BY ToSetIs
<1>4. Len(w) = 0
  <2>1. Len(w) \in Nat
    OBVIOUS
  <2>2. Len(w) # 0 => w[1] \in {w[i] : i \in 1..Len(w)}
    BY <2>1
  <2> QED BY <2>1, <2>2, <1>2, <1>3
<1> QED BY <1>4

TakeStep(qu, d, s, r, W, sh, sh1) ==
  /\ TakeEffect(WaitOps, Whole(qu, d, s), r)
  /\ TakenFrom(Whole(qu, d, s), r, W)
  /\ PositionsOK(Whole(qu, d, s), r, s, sh, sh1)

TakeLeaves(qu, s, r) ==
  /\ Whole(Put(qu, s, r), Links(r), s) = r
  /\ Put(qu, s, r)[s].heap = r.heap
  /\ Links(r).ops = r.ops

LEMMA TakeWorld ==
  ASSUME NEW qu, NEW d, NEW al, NEW sv, NEW ex, NEW st, NEW dl, NEW sh,
         World(qu, d, al, sv, ex, st, dl, sh), sh \in [Services -> BOOLEAN],
         NEW s \in Services, NEW r, NEW W, NEW st1, NEW dl1, NEW sh1,
         TakeStep(qu, d, s, r, W, sh, sh1), Completes(st, dl, W, st1, dl1)
  PROVE  /\ World(Put(qu, s, r), Links(r), al, sv, ex, st1, dl1, sh1)
         /\ TakeLeaves(qu, s, r)
<1>1. PICK q : q = Whole(qu, d, s)
  OBVIOUS
<1>2. q.next = d.next /\ q.prev = d.prev /\ q.index = d.index /\ q.ops = d.ops
  BY <1>1, StoredWhole DEF World
<1>3. QueueOK(WaitOps, q) /\ HasOps(q) /\ InHeap(q) = Waited(d, al, sv, s)
  BY <1>1, WorldQueue
<1>4. TakeEffect(WaitOps, q, r) /\ TakenFrom(q, r, W) /\ PositionsOK(q, r, s, sh, sh1)
  BY <1>1 DEF TakeStep
<1>5. r \in QueueType(WaitOps) /\ Frame(q, r, InHeap(q))
  BY <1>4 DEF TakeEffect, QueueOK
<1>6. PICK qu1, d1 : qu1 = Put(qu, s, r) /\ d1 = Links(r)
  OBVIOUS
<1>7. /\ d1 \in DataType /\ d1.next = r.next /\ d1.prev = r.prev
      /\ d1.index = r.index /\ d1.ops = r.ops
  BY <1>5, <1>6, PartsOf
<1>8. /\ Stored(qu1, d1) /\ Whole(qu1, d1, s) = r
      /\ OtherQueuesSame(qu, d, qu1, d1, s) /\ qu1[s].heap = r.heap
  <2>1. \A x \in Services \ {s} : QueueOK(WaitOps, Whole(qu, d, x))
                                  /\ InHeap(q) \cap InHeap(Whole(qu, d, x)) = {}
    BY <1>1, WorldDisjoint
  <2>2. Stored(qu, d)
    BY DEF World
  <2> QED BY <2>1, <2>2, <1>1, <1>5, <1>6, OtherQueues
<1>9. \A t \in Timers \ InHeap(q) : /\ d1.next[t] = d.next[t] /\ d1.prev[t] = d.prev[t]
                                    /\ d1.index[t] = d.index[t] /\ d1.ops[t] = d.ops[t]
  BY <1>2, <1>5, <1>7 DEF Frame
<1>10. InHeap(r) = {t \in InHeap(q) : d1.ops[t] # <<>>}
  BY <1>4, <1>7 DEF TakeEffect
<1>11. QueuesOK(qu1, d1, al, sv)
  <2> SUFFICES ASSUME NEW x \in Services
               PROVE  /\ QueueOK(WaitOps, Whole(qu1, d1, x))
                      /\ InHeap(Whole(qu1, d1, x)) = Waited(d1, al, sv, x)
    BY DEF QueuesOK
  <2>1. CASE x = s
    <3>1. QueueOK(WaitOps, r)
      BY <1>4 DEF TakeEffect
    <3>2. InHeap(r) = Waited(d1, al, sv, s)
      BY <1>3, <1>9, <1>10 DEF Waited
    <3> QED BY <3>1, <3>2, <2>1, <1>8
  <2>2. CASE x # s
    <3>1. /\ QueueOK(WaitOps, Whole(qu1, d1, x))
          /\ InHeap(Whole(qu1, d1, x)) = InHeap(Whole(qu, d, x))
      BY <2>2, <1>8 DEF OtherQueuesSame
    <3>2. InHeap(Whole(qu, d, x)) = Waited(d, al, sv, x)
      BY WorldQueue
    <3>3. Waited(d, al, sv, x) = Waited(d1, al, sv, x)
      BY <2>2, <1>3, <1>9 DEF Waited
    <3> QED BY <3>1, <3>2, <3>3
  <2> QED BY <2>1, <2>2
<1>12. \A t \in InHeap(q) : t \in Timers /\ t \in al /\ sv[t] = s
  BY <1>3 DEF Waited
<1>13. OwnersOK(d1, al, sv, sh1)
  <2> SUFFICES ASSUME NEW t \in Timers
               PROVE  /\ t \in al => sv[t] \in Services
                      /\ d1.ops[t] # <<>> => t \in al /\ ~sh1[sv[t]]
    BY DEF OwnersOK
  <2>1. t \in al => sv[t] \in Services
    BY DEF World, OwnersOK
  <2>2. ASSUME d1.ops[t] # <<>> PROVE t \in al /\ ~sh1[sv[t]]
    <3>1. d.ops[t] # <<>>
      BY <2>2, <1>2, <1>3, <1>9 DEF HasOps
    <3>2. t \in al /\ ~sh[sv[t]] /\ sv[t] \in Services
      BY <3>1 DEF World, OwnersOK
    <3>3. CASE sh1 = sh
      BY <3>2, <3>3
    <3>4. CASE sh1 = [sh EXCEPT ![s] = TRUE] /\ InHeap(r) = {}
      <4>1. t \notin InHeap(q)
        BY <2>2, <3>4, <1>10
      <4>2. sv[t] # s
        BY <4>1, <3>1, <3>2, <1>3 DEF Waited
      <4> QED BY <4>2, <3>2, <3>4
    <3> QED BY <3>3, <3>4, <1>4 DEF PositionsOK
  <2> QED BY <2>1, <2>2
<1>14. IdleOK(d1, al, sv, sh1)
  <2> SUFFICES ASSUME NEW t \in Timers, d1.ops[t] = <<>>
               PROVE  /\ d1.next[t] = Nil /\ d1.prev[t] = Nil
                      /\ d1.index[t] = NoIndex \/ StalePosition(t, al, sv, sh1)
    BY DEF IdleOK
  <2>1. CASE t \in InHeap(q)
    <3>1. t \in InHeap(q) \ InHeap(r)
      BY <2>1, <1>10
    <3>2. Resting(r, t)
      BY <3>1, <1>4 DEF TakeEffect
    <3>3. d1.index[t] = NoIndex \/ StalePosition(t, al, sv, sh1)
      <4>1. CASE IndexReset(q, r)
        BY <3>1, <4>1, <1>7 DEF IndexReset
      <4>2. CASE sh1 = [sh EXCEPT ![s] = TRUE]
        <5>1. t \in al /\ sv[t] = s /\ sh1[s]
          BY <2>1, <4>2, <1>12
        <5> QED BY <5>1 DEF StalePosition
      <4> QED BY <4>1, <4>2, <1>4 DEF PositionsOK
    <3> QED BY <3>2, <3>3, <1>7 DEF Resting, Unlinked
  <2>2. CASE t \notin InHeap(q)
    <3>1. /\ d.next[t] = Nil /\ d.prev[t] = Nil
          /\ d.index[t] = NoIndex \/ StalePosition(t, al, sv, sh)
      BY <2>2, <1>9 DEF World, IdleOK
    <3>2. StalePosition(t, al, sv, sh) => StalePosition(t, al, sv, sh1)
      <4>1. \A x \in Services : sh[x] => sh1[x]
        BY <1>4 DEF PositionsOK
      <4>2. t \in al => sv[t] \in Services
        BY DEF World, OwnersOK
      <4> QED BY <4>1, <4>2 DEF StalePosition
    <3> QED BY <3>1, <3>2, <2>2, <1>9
  <2> QED BY <2>1, <2>2
<1>15. TimesOK(qu1, d1, ex)
  <2> SUFFICES ASSUME NEW x \in Services, NEW e \in Entries(Whole(qu1, d1, x))
               PROVE  e.time = ex[e.timer]
    BY DEF TimesOK
  <2>1. e \in Entries(Whole(qu, d, x))
    <3>1. CASE x = s
      BY <3>1, <1>1, <1>4, <1>8 DEF TakeEffect
    <3>2. CASE x # s
      BY <3>2, <1>8 DEF OtherQueuesSame
    <3> QED BY <3>1, <3>2
  <2> QED BY <2>1 DEF World, TimesOK
<1>16. WaitsOK(d1, st1, dl1, ex)
  <2>1. \A t \in Timers : Fewer(d.ops[t], d1.ops[t])
    BY <1>2, <1>4, <1>7 DEF TakeEffect
  <2>2. \A o : o \in W <=> \E t \in Timers : o \in ToSet(d.ops[t]) /\ o \notin ToSet(d1.ops[t])
    BY <1>2, <1>4, <1>7 DEF TakenFrom
  <2>3. /\ \A t \in Timers : \A o \in ToSet(d.ops[t]) : /\ o \in WaitOps /\ st[o] = "waiting"
                                                        /\ dl[o] = ex[t]
        /\ \A o \in WaitOps : st[o] = "waiting" => \E t \in Timers : o \in ToSet(d.ops[t])
        /\ \A t, u \in Timers : \A o : o \in ToSet(d.ops[t]) /\ o \in ToSet(d.ops[u]) => t = u
        /\ \A t \in Timers : Distinct(d.ops[t])
    BY DEF World, WaitsOK
  <2>4. ASSUME NEW t \in Timers, NEW o \in ToSet(d1.ops[t])
        PROVE  o \in ToSet(d.ops[t]) /\ o \in WaitOps /\ st1[o] = "waiting" /\ dl1[o] = ex[t]
    <3>1. o \in ToSet(d.ops[t])
      BY <2>1 DEF Fewer
    <3>2. o \in WaitOps /\ st[o] = "waiting" /\ dl[o] = ex[t]
      BY <3>1, <2>3
    <3>3. o \notin W
      BY <3>1, <2>2, <2>3
    <3> QED BY <3>1, <3>2, <3>3 DEF Completes
  <2>5. ASSUME NEW o \in WaitOps, st1[o] = "waiting"
        PROVE  \E t \in Timers : o \in ToSet(d1.ops[t])
    <3>1. o \notin W /\ st[o] = "waiting"
      BY <2>5 DEF Completes
    <3> QED BY <3>1, <2>2, <2>3
  <2>6. \A t, u \in Timers : \A o : o \in ToSet(d1.ops[t]) /\ o \in ToSet(d1.ops[u]) => t = u
    BY <2>3, <2>4
  <2>7. \A t \in Timers : Distinct(d1.ops[t])
    BY <2>1, <2>3 DEF Fewer
  <2> QED BY <2>4, <2>5, <2>6, <2>7 DEF WaitsOK
<1>17. World(qu1, d1, al, sv, ex, st1, dl1, sh1)
  BY <1>8, <1>11, <1>13, <1>14, <1>15, <1>16 DEF World
<1> QED BY <1>6, <1>7, <1>8, <1>17 DEF TakeLeaves

-----------------------------------------------------------------------------
(* A timer nobody waits for may be changed.                                *)

(* construct() and the destructor, and expires_at() after its cancellation: *)
(* the fields of t change, and the constructor sets its links.              *)
ChangesOnly(t, d, al, sv, ex, d1, al1, sv1, ex1) ==
  /\ d1 \in DataType /\ d1.ops[t] = <<>> /\ d1.next[t] = Nil /\ d1.prev[t] = Nil
  /\ \A x \in Timers \ {t} :
       /\ d1.next[x] = d.next[x] /\ d1.prev[x] = d.prev[x]
       /\ d1.index[x] = d.index[x] /\ d1.ops[x] = d.ops[x]
       /\ x \in al1 <=> x \in al
       /\ sv1[x] = sv[x] /\ ex1[x] = ex[x]

LEMMA ChangeWorld ==
  ASSUME NEW qu, NEW d, NEW al, NEW sv, NEW ex, NEW st, NEW dl, NEW sh,
         World(qu, d, al, sv, ex, st, dl, sh), NEW t \in Timers, d.ops[t] = <<>>,
         NEW d1, NEW al1, NEW sv1, NEW ex1,
         ChangesOnly(t, d, al, sv, ex, d1, al1, sv1, ex1),
         t \in al1 => sv1[t] \in Services,
         d1.index[t] = NoIndex \/ StalePosition(t, al1, sv1, sh)
  PROVE  World(qu, d1, al1, sv1, ex1, st, dl, sh)
<1>1. /\ d1 \in DataType /\ d1.ops[t] = <<>> /\ d1.next[t] = Nil /\ d1.prev[t] = Nil
      /\ \A x \in Timers \ {t} :
           /\ d1.next[x] = d.next[x] /\ d1.prev[x] = d.prev[x]
           /\ d1.index[x] = d.index[x] /\ d1.ops[x] = d.ops[x]
           /\ x \in al1 <=> x \in al
           /\ sv1[x] = sv[x] /\ ex1[x] = ex[x]
  BY DEF ChangesOnly
<1>2. Stored(qu, d1)
  BY <1>1 DEF World, Stored
<1>3. \A x \in Timers : d1.ops[x] = d.ops[x]
  BY <1>1
<1>4. ASSUME NEW s \in Services
      PROVE  /\ QueueOK(WaitOps, Whole(qu, d1, s))
             /\ InHeap(Whole(qu, d1, s)) = Waited(d1, al1, sv1, s)
             /\ Entries(Whole(qu, d1, s)) = Entries(Whole(qu, d, s))
             /\ t \notin InHeap(Whole(qu, d, s))
  <2>1. PICK q : q = Whole(qu, d, s)
    OBVIOUS
  <2>2. PICK p : p = Whole(qu, d1, s)
    OBVIOUS
  <2>3. /\ q.timers = qu[s].timers /\ q.heap = qu[s].heap
        /\ q.next = d.next /\ q.prev = d.prev /\ q.index = d.index /\ q.ops = d.ops
    BY <2>1, StoredWhole DEF World
  <2>4. /\ p.timers = qu[s].timers /\ p.heap = qu[s].heap
        /\ p.next = d1.next /\ p.prev = d1.prev /\ p.index = d1.index /\ p.ops = d1.ops
        /\ p \in QueueType(WaitOps)
    BY <2>2, <1>2, StoredWhole
  <2>5. QueueOK(WaitOps, q) /\ InHeap(q) = Waited(d, al, sv, s) /\ t \notin InHeap(q)
    BY <2>1, WorldQueue
  <2>6. Frame(q, p, {t})
    BY <2>3, <2>4, <1>1 DEF Frame
  <2>7. {t} \cap InHeap(q) = {}
    BY <2>5
  <2>8. QueueOK(WaitOps, p) /\ InHeap(p) = InHeap(q) /\ Entries(p) = Entries(q)
    BY <2>3, <2>4, <2>5, <2>6, <2>7, QueueOKFrame
  <2>9. Waited(d, al, sv, s) = Waited(d1, al1, sv1, s)
    BY <1>1 DEF Waited
  <2> QED BY <2>1, <2>2, <2>5, <2>8, <2>9
<1>5. QueuesOK(qu, d1, al1, sv1)
  BY <1>4 DEF QueuesOK
<1>6. OwnersOK(d1, al1, sv1, sh)
  <2> SUFFICES ASSUME NEW x \in Timers
               PROVE  /\ x \in al1 => sv1[x] \in Services
                      /\ d1.ops[x] # <<>> => x \in al1 /\ ~sh[sv1[x]]
    BY DEF OwnersOK
  <2>1. CASE x = t
    BY <2>1, <1>1
  <2>2. CASE x # t
    BY <2>2, <1>1 DEF World, OwnersOK
  <2> QED BY <2>1, <2>2
<1>7. IdleOK(d1, al1, sv1, sh)
  <2> SUFFICES ASSUME NEW x \in Timers, d1.ops[x] = <<>>
               PROVE  /\ d1.next[x] = Nil /\ d1.prev[x] = Nil
                      /\ d1.index[x] = NoIndex \/ StalePosition(x, al1, sv1, sh)
    BY DEF IdleOK
  <2>1. CASE x = t
    BY <2>1, <1>1
  <2>2. CASE x # t
    <3>1. /\ d.next[x] = Nil /\ d.prev[x] = Nil
          /\ d.index[x] = NoIndex \/ StalePosition(x, al, sv, sh)
      BY <1>3 DEF World, IdleOK
    <3>2. StalePosition(x, al, sv, sh) => StalePosition(x, al1, sv1, sh)
      BY <2>2, <1>1 DEF StalePosition
    <3> QED BY <3>1, <3>2, <2>2, <1>1
  <2> QED BY <2>1, <2>2
<1>8. TimesOK(qu, d1, ex1)
  <2> SUFFICES ASSUME NEW s \in Services, NEW e \in Entries(Whole(qu, d1, s))
               PROVE  e.time = ex1[e.timer]
    BY DEF TimesOK
  <2>1. e \in Entries(Whole(qu, d, s)) /\ t \notin InHeap(Whole(qu, d, s))
    BY <1>4
  <2>2. e.time = ex[e.timer]
    BY <2>1 DEF World, TimesOK
  <2>3. e.timer \in InHeap(Whole(qu, d, s))
    BY <2>1, InHeapIs
  <2>4. InHeap(Whole(qu, d, s)) \subseteq Timers
    <3>1. Whole(qu, d, s) \in QueueType(WaitOps)
      BY WorldQueue DEF QueueOK
    <3> QED BY <3>1, InHeapTimers
  <2>5. e.timer \in Timers \ {t}
    BY <2>1, <2>3, <2>4
  <2> QED BY <2>2, <2>5, <1>1
<1>9. WaitsOK(d1, st, dl, ex1)
  <2>1. \A x \in Timers : d.ops[x] # <<>> => ex1[x] = ex[x]
    BY <1>1
  <2>2. ToSet(<<>>) = {}
    BY DEF ToSet
  <2>3. \A x \in Timers : \A o \in ToSet(d.ops[x]) : ex1[x] = ex[x]
    BY <2>1, <2>2
  <2> QED BY <1>3, <2>3 DEF World, WaitsOK
<1> QED BY <1>2, <1>5, <1>6, <1>7, <1>8, <1>9 DEF World

-----------------------------------------------------------------------------
(* An operation is added to a timer.                                       *)

LEMMA AppendSet ==
  ASSUME NEW S, NEW w \in Seq(S), NEW o \in S
  PROVE  /\ Append(w, o) \in Seq(S) /\ Append(w, o) # <<>>
         /\ ToSet(Append(w, o)) = ToSet(w) \cup {o}
         /\ Distinct(w) /\ o \notin ToSet(w) => Distinct(Append(w, o))
<1>1. PICK v \in Seq(S) : v = Append(w, o)
  <2>1. Append(w, o) \in Seq(S)
    OBVIOUS
  <2> QED BY <2>1
<1>2. PICK k \in Nat : k = Len(w)
  OBVIOUS
<1>3. Len(v) = k + 1 /\ v[k + 1] = o /\ \A i \in 1..k : v[i] = w[i]
  BY <1>1, <1>2
<1>4. ToSet(w) = {w[i] : i \in 1..k} /\ ToSet(v) = {v[i] : i \in 1..(k + 1)}
  <2>1. ToSet(w) = {w[i] : i \in 1..Len(w)} /\ ToSet(v) = {v[i] : i \in 1..Len(v)}
    BY ToSetIs
  <2> QED BY <2>1, <1>2, <1>3
<1>5. \A i \in 1..(k + 1) : i = k + 1 \/ i \in 1..k
  OBVIOUS
<1>6. ToSet(v) = ToSet(w) \cup {o}
  <2>1. \A i \in 1..k : i \in 1..(k + 1)
    OBVIOUS
  <2>2. k + 1 \in 1..(k + 1)
    OBVIOUS
  <2> QED BY <2>1, <2>2, <1>3, <1>4, <1>5
<1>7. v # <<>>
  BY <1>3
<1>8. ASSUME Distinct(w), o \notin ToSet(w) PROVE Distinct(v)
  <2> SUFFICES ASSUME NEW i \in 1..(k + 1), NEW j \in 1..(k + 1), v[i] = v[j] PROVE i = j
    BY <1>3 DEF Distinct
  <2>1. \A l \in 1..k : v[l] # o
    BY <1>3, <1>4, <1>8
  <2>2. CASE i \in 1..k /\ j \in 1..k
    BY <2>2, <1>2, <1>3, <1>8 DEF Distinct
  <2>3. CASE i = k + 1 \/ j = k + 1
    BY <2>1, <2>3, <1>3, <1>5
  <2> QED BY <2>2, <2>3, <1>5
<1> QED BY <1>1, <1>6, <1>7, <1>8

(* op starts to wait.                                                      *)
Starts(st, dl, op, time, st1, dl1) ==
  /\ st[op] = "fresh" /\ st1[op] = "waiting" /\ dl1[op] = time
  /\ \A o \in WaitOps : o # op => st1[o] = st[o] /\ dl1[o] = dl[o]

EnqueueStep(qu, d, ex, st, dl, t, op, s, r, st1, dl1) ==
  /\ EnqueueEffect(WaitOps, Whole(qu, d, s), r, ex[t], t, op)
  /\ Starts(st, dl, op, ex[t], st1, dl1)

EnqueueLeaves(qu, d, t, s, r) ==
  /\ Put(qu, s, r)[s].heap = r.heap
  /\ \A x \in Timers : x # t => Links(r).ops[x] = d.ops[x]

LEMMA EnqueueWorld ==
  ASSUME NEW qu, NEW d, NEW al, NEW sv, NEW ex, NEW st, NEW dl, NEW sh,
         World(qu, d, al, sv, ex, st, dl, sh), NEW t \in Timers, t \in al,
         NEW s \in Services, sv[t] = s, ~sh[s],
         NEW op \in WaitOps, NEW r, NEW st1, NEW dl1,
         EnqueueStep(qu, d, ex, st, dl, t, op, s, r, st1, dl1)
  PROVE  /\ World(Put(qu, s, r), Links(r), al, sv, ex, st1, dl1, sh)
         /\ EnqueueLeaves(qu, d, t, s, r)
<1>1. PICK q : q = Whole(qu, d, s)
  OBVIOUS
<1>2. q.next = d.next /\ q.prev = d.prev /\ q.index = d.index /\ q.ops = d.ops
  BY <1>1, StoredWhole DEF World
<1>3. QueueOK(WaitOps, q) /\ HasOps(q) /\ InHeap(q) = Waited(d, al, sv, s)
  BY <1>1, WorldQueue
<1>4. EnqueueEffect(WaitOps, q, r, ex[t], t, op) /\ Starts(st, dl, op, ex[t], st1, dl1)
  BY <1>1 DEF EnqueueStep
<1>5. r \in QueueType(WaitOps) /\ Frame(q, r, InHeap(q) \cup {t})
  BY <1>4 DEF EnqueueEffect, QueueOK
<1>6. PICK qu1, d1 : qu1 = Put(qu, s, r) /\ d1 = Links(r)
  OBVIOUS
<1>7. /\ d1 \in DataType /\ d1.next = r.next /\ d1.prev = r.prev
      /\ d1.index = r.index /\ d1.ops = r.ops
  BY <1>5, <1>6, PartsOf
<1>8. /\ Stored(qu1, d1) /\ Whole(qu1, d1, s) = r
      /\ OtherQueuesSame(qu, d, qu1, d1, s) /\ qu1[s].heap = r.heap
  <2>1. \A x \in Services \ {s} :
          QueueOK(WaitOps, Whole(qu, d, x))
          /\ (InHeap(q) \cup {t}) \cap InHeap(Whole(qu, d, x)) = {}
    <3>1. PICK X : X = InHeap(q) \cup {t}
      OBVIOUS
    <3>2. \A x \in X : x \in InHeap(Whole(qu, d, s)) \/ d.ops[x] = <<>>
                       \/ (x \in al /\ sv[x] = s)
      BY <3>1, <1>1
    <3>3. \A x \in Services \ {s} : QueueOK(WaitOps, Whole(qu, d, x))
                                    /\ X \cap InHeap(Whole(qu, d, x)) = {}
      BY <3>2, WorldDisjoint
    <3> QED BY <3>1, <3>3
  <2>2. Stored(qu, d)
    BY DEF World
  <2> QED BY <2>1, <2>2, <1>1, <1>5, <1>6, OtherQueues
<1>9. d1.ops[t] = Append(d.ops[t], op) /\ \A x \in Timers : x # t => d1.ops[x] = d.ops[x]
  BY <1>2, <1>4, <1>7 DEF EnqueueEffect
<1>10. /\ d1.ops[t] # <<>> /\ ToSet(d1.ops[t]) = ToSet(d.ops[t]) \cup {op}
       /\ Distinct(d.ops[t]) /\ op \notin ToSet(d.ops[t]) => Distinct(d1.ops[t])
  <2>1. d.ops[t] \in Seq(WaitOps)
    BY DEF World, Stored, DataType
  <2> QED BY <2>1, <1>9, AppendSet
<1>11. QueuesOK(qu1, d1, al, sv)
  <2> SUFFICES ASSUME NEW x \in Services
               PROVE  /\ QueueOK(WaitOps, Whole(qu1, d1, x))
                      /\ InHeap(Whole(qu1, d1, x)) = Waited(d1, al, sv, x)
    BY DEF QueuesOK
  <2>1. CASE x = s
    <3>1. QueueOK(WaitOps, r) /\ InHeap(r) = InHeap(q) \cup {t}
      BY <1>4 DEF EnqueueEffect
    <3>2. InHeap(q) \cup {t} = Waited(d1, al, sv, s)
      BY <1>3, <1>9, <1>10 DEF Waited
    <3> QED BY <3>1, <3>2, <2>1, <1>8
  <2>2. CASE x # s
    <3>1. /\ QueueOK(WaitOps, Whole(qu1, d1, x))
          /\ InHeap(Whole(qu1, d1, x)) = InHeap(Whole(qu, d, x))
      BY <2>2, <1>8 DEF OtherQueuesSame
    <3>2. InHeap(Whole(qu, d, x)) = Waited(d, al, sv, x)
      BY WorldQueue
    <3>3. Waited(d, al, sv, x) = Waited(d1, al, sv, x)
      BY <2>2, <1>9 DEF Waited
    <3> QED BY <3>1, <3>2, <3>3
  <2> QED BY <2>1, <2>2
<1>12. OwnersOK(d1, al, sv, sh)
  <2> SUFFICES ASSUME NEW x \in Timers
               PROVE  /\ x \in al => sv[x] \in Services
                      /\ d1.ops[x] # <<>> => x \in al /\ ~sh[sv[x]]
    BY DEF OwnersOK
  <2>1. CASE x = t
    BY <2>1
  <2>2. CASE x # t
    BY <2>2, <1>9 DEF World, OwnersOK
  <2> QED BY <2>1, <2>2
<1>13. IdleOK(d1, al, sv, sh)
  <2> SUFFICES ASSUME NEW x \in Timers, d1.ops[x] = <<>>
               PROVE  /\ d1.next[x] = Nil /\ d1.prev[x] = Nil
                      /\ d1.index[x] = NoIndex \/ StalePosition(x, al, sv, sh)
    BY DEF IdleOK
  <2>1. x # t /\ d.ops[x] = <<>> /\ x \notin InHeap(q)
    BY <1>3, <1>9, <1>10 DEF Waited
  <2>2. d1.next[x] = d.next[x] /\ d1.prev[x] = d.prev[x] /\ d1.index[x] = d.index[x]
    BY <2>1, <1>2, <1>5, <1>7 DEF Frame
  <2> QED BY <2>1, <2>2 DEF World, IdleOK
<1>14. TimesOK(qu1, d1, ex)
  <2> SUFFICES ASSUME NEW x \in Services, NEW e \in Entries(Whole(qu1, d1, x))
               PROVE  e.time = ex[e.timer]
    BY DEF TimesOK
  <2>1. CASE e \in Entries(Whole(qu, d, x))
    BY <2>1 DEF World, TimesOK
  <2>2. CASE e \notin Entries(Whole(qu, d, x))
    <3>1. x = s
      BY <2>2, <1>8 DEF OtherQueuesSame
    <3>2. e \in Entries(r) /\ e \notin Entries(q)
      BY <3>1, <2>2, <1>1, <1>8
    <3>3. e = Entry(ex[t], t)
      BY <3>2, <1>4 DEF EnqueueEffect
    <3>4. e.time = ex[t] /\ e.timer = t
      BY <3>3 DEF Entry
    <3> QED BY <3>4
  <2> QED BY <2>1, <2>2
<1>15. WaitsOK(d1, st1, dl1, ex)
  <2>1. /\ \A x \in Timers : \A o \in ToSet(d.ops[x]) : /\ o \in WaitOps /\ st[o] = "waiting"
                                                        /\ dl[o] = ex[x]
        /\ \A o \in WaitOps : st[o] = "waiting" => \E x \in Timers : o \in ToSet(d.ops[x])
        /\ \A x, u \in Timers : \A o : o \in ToSet(d.ops[x]) /\ o \in ToSet(d.ops[u]) => x = u
        /\ \A x \in Timers : Distinct(d.ops[x])
    BY DEF World, WaitsOK
  <2>2. /\ st[op] = "fresh" /\ st1[op] = "waiting" /\ dl1[op] = ex[t]
        /\ \A o \in WaitOps : o # op => st1[o] = st[o] /\ dl1[o] = dl[o]
    BY <1>4 DEF Starts
  <2>3. \A x \in Timers : op \notin ToSet(d.ops[x])
    BY <2>1, <2>2
  <2>4. \A x \in Timers : \A o \in ToSet(d1.ops[x]) : \/ o \in ToSet(d.ops[x]) /\ o # op
                                                      \/ o = op /\ x = t
    BY <2>3, <1>9, <1>10
  <2>5. \A x \in Timers : ToSet(d.ops[x]) \subseteq ToSet(d1.ops[x])
    BY <1>9, <1>10
  <2>6. \A x \in Timers : \A o \in ToSet(d1.ops[x]) : /\ o \in WaitOps /\ st1[o] = "waiting"
                                                      /\ dl1[o] = ex[x]
    BY <2>1, <2>2, <2>4
  <2>7. ASSUME NEW o \in WaitOps, st1[o] = "waiting"
        PROVE  \E x \in Timers : o \in ToSet(d1.ops[x])
    <3>1. CASE o = op
      BY <3>1, <1>10
    <3>2. CASE o # op
      BY <3>2, <2>1, <2>2, <2>5, <2>7
    <3> QED BY <3>1, <3>2
  <2>8. \A x, u \in Timers : \A o : o \in ToSet(d1.ops[x]) /\ o \in ToSet(d1.ops[u]) => x = u
    BY <2>1, <2>4
  <2>9. \A x \in Timers : Distinct(d1.ops[x])
    BY <2>1, <2>3, <1>9, <1>10
  <2> QED BY <2>6, <2>7, <2>8, <2>9 DEF WaitsOK
<1>16. World(qu1, d1, al, sv, ex, st1, dl1, sh)
  BY <1>8, <1>11, <1>12, <1>13, <1>14, <1>15 DEF World
<1> QED BY <1>6, <1>8, <1>9, <1>16 DEF EnqueueLeaves

-----------------------------------------------------------------------------
(* A timer takes the place of another one.                                 *)

(* The fields of the timer objects after a move.                           *)
Moved(target, source, al, sv, ex, al1, sv1, ex1) ==
  /\ al1 = al \cup {target}
  /\ sv1[target] = sv[source] /\ \A x \in Timers : x # target => sv1[x] = sv[x]
  /\ target # source => ex1[target] = ex[source]
  /\ \A x \in Timers \ {source, target} : ex1[x] = ex[x]

(* Operations after a move.                                                *)
MovedOps(d, d1, target, source) ==
  /\ d1.ops[source] = <<>>
  /\ target # source => d1.ops[target] = d.ops[source]
  /\ \A x \in Timers \ {source, target} : d1.ops[x] = d.ops[x]

LEMMA MovedWaits ==
  ASSUME NEW d, NEW d1, NEW st, NEW dl, NEW ex, NEW ex1, WaitsOK(d, st, dl, ex),
         NEW target \in Timers, NEW source \in Timers, d.ops[target] = <<>>,
         MovedOps(d, d1, target, source),
         target # source => ex1[target] = ex[source],
         \A x \in Timers \ {source, target} : ex1[x] = ex[x]
  PROVE  WaitsOK(d1, st, dl, ex1)
<1>1. /\ \A t \in Timers : \A o \in ToSet(d.ops[t]) : /\ o \in WaitOps /\ st[o] = "waiting"
                                                      /\ dl[o] = ex[t]
      /\ \A o \in WaitOps : st[o] = "waiting" => \E t \in Timers : o \in ToSet(d.ops[t])
      /\ \A t, u \in Timers : \A o : o \in ToSet(d.ops[t]) /\ o \in ToSet(d.ops[u]) => t = u
      /\ \A t \in Timers : Distinct(d.ops[t])
  BY DEF WaitsOK
<1>2. ToSet(<<>>) = {} /\ Distinct(<<>>)
  BY DEF ToSet, Distinct
<1>3. /\ d1.ops[source] = <<>>
      /\ target # source => d1.ops[target] = d.ops[source]
      /\ \A x \in Timers \ {source, target} : d1.ops[x] = d.ops[x]
  BY DEF MovedOps
<1>4. CASE target = source
  <2>1. \A x \in Timers : d1.ops[x] = d.ops[x]
    BY <1>3, <1>4
  <2>2. \A x \in Timers : \A o \in ToSet(d.ops[x]) : ex1[x] = ex[x]
    BY <1>2, <1>4
  <2> QED BY <2>1, <2>2, <1>1 DEF WaitsOK
<1>5. CASE target # source
  <2>1. \A o : o \notin ToSet(d1.ops[source]) /\ o \notin ToSet(d.ops[target])
    BY <1>2, <1>3
  <2>2. \A o : o \in ToSet(d1.ops[target]) <=> o \in ToSet(d.ops[source])
    BY <1>3, <1>5
  <2>3. \A t \in Timers : \A o \in ToSet(d1.ops[t]) : /\ o \in WaitOps /\ st[o] = "waiting"
                                                      /\ dl[o] = ex1[t]
    <3> SUFFICES ASSUME NEW t \in Timers, NEW o \in ToSet(d1.ops[t])
                 PROVE  o \in WaitOps /\ st[o] = "waiting" /\ dl[o] = ex1[t]
      OBVIOUS
    <3>1. CASE t = source
      BY <3>1, <2>1
    <3>2. CASE t = target
      BY <3>2, <2>2, <1>1, <1>5
    <3>3. CASE t \in Timers \ {source, target}
      BY <3>3, <1>1, <1>3
    <3> QED BY <3>1, <3>2, <3>3
  <2>4. ASSUME NEW o \in WaitOps, st[o] = "waiting"
        PROVE  \E t \in Timers : o \in ToSet(d1.ops[t])
    <3>1. PICK t \in Timers : o \in ToSet(d.ops[t])
      BY <2>4, <1>1
    <3>2. CASE t = source
      BY <3>1, <3>2, <2>2
    <3>3. CASE t = target
      BY <3>1, <3>3, <2>1
    <3>4. CASE t \in Timers \ {source, target}
      BY <3>1, <3>4, <1>3
    <3> QED BY <3>2, <3>3, <3>4
  <2>5. ASSUME NEW t \in Timers, NEW u \in Timers, NEW o,
               o \in ToSet(d1.ops[t]), o \in ToSet(d1.ops[u])
        PROVE  t = u
    <3>1. t # source /\ u # source
      BY <2>1, <2>5
    <3>2. CASE t = target /\ u # target
      <4>1. o \in ToSet(d.ops[source]) /\ o \in ToSet(d.ops[u])
        BY <3>1, <3>2, <2>2, <2>5, <1>3
      <4> QED BY <4>1, <3>1, <1>1
    <3>3. CASE u = target /\ t # target
      <4>1. o \in ToSet(d.ops[source]) /\ o \in ToSet(d.ops[t])
        BY <3>1, <3>3, <2>2, <2>5, <1>3
      <4> QED BY <4>1, <3>1, <1>1
    <3>4. CASE u # target /\ t # target
      <4>1. o \in ToSet(d.ops[t]) /\ o \in ToSet(d.ops[u])
        BY <3>1, <3>4, <2>5, <1>3
      <4> QED BY <4>1, <1>1
    <3> QED BY <3>2, <3>3, <3>4
  <2>6. ASSUME NEW t \in Timers PROVE Distinct(d1.ops[t])
    <3>1. CASE t = source
      BY <3>1, <1>2, <1>3
    <3>2. CASE t = target
      BY <3>2, <1>1, <1>3, <1>5
    <3>3. CASE t \in Timers \ {source, target}
      BY <3>3, <1>1, <1>3
    <3> QED BY <3>1, <3>2, <3>3
  <2> QED BY <2>3, <2>4, <2>5, <2>6 DEF WaitsOK
<1> QED BY <1>4, <1>5

(* What a move leaves of a queue, for both kinds of move.                   *)
MoveEffect(S, q, r, target, source) ==
  /\ QueueOK(S, r)
  /\ InHeap(r) = IF source \in InHeap(q) THEN (InHeap(q) \ {source}) \cup {target}
                 ELSE InHeap(q)
  /\ \A f \in Entries(r) : \/ f \in Entries(q) /\ f.timer # source /\ f.timer # target
                           \/ /\ f.timer = target /\ target # source
                              /\ \E e \in Entries(q) : e.timer = source /\ f.time = e.time
  /\ Resting(r, source) /\ r.index[source] = NoIndex
  /\ target # source => r.ops[target] = q.ops[source]
  /\ target # source /\ q.ops[source] = <<>>
       => Unlinked(r, target) /\ r.index[target] = q.index[source]
  /\ \A x \in Timers \ {source, target} : r.ops[x] = q.ops[x]
  /\ Frame(q, r, InHeap(q) \cup {source, target})
  /\ r.heap # <<>> => q.heap # <<>> /\ r.heap[1].time = q.heap[1].time

LEMMA MoveIs ==
  ASSUME NEW S, NEW q, QueueOK(S, q), HasOps(q), NEW target \in Timers, NEW source \in Timers,
         target \notin InHeap(q), Resting(q, target),
         source \notin InHeap(q) => /\ Resting(q, source)
                                    /\ q.index[source] = NoIndex \/ q.heap = <<>>
  PROVE  MoveEffect(S, q, move_timer(q, target, source), target, source)
<1>1. PICK r : r = move_timer(q, target, source)
  OBVIOUS
<1>2. \A e \in Entries(q) : e.timer \in InHeap(q)
  BY InHeapIs
<1>3. CASE source \in InHeap(q)
  <2>1. target # source
    BY <1>3
  <2>2. MoveActiveEffect(S, q, r, target, source)
    BY <1>1, <1>3, MoveActiveIs
  <2>3. /\ QueueOK(S, r) /\ InHeap(r) = (InHeap(q) \ {source}) \cup {target}
        /\ Resting(r, source) /\ r.index[source] = NoIndex
        /\ r.ops[target] = q.ops[source]
        /\ \A x \in Timers \ {source, target} : r.ops[x] = q.ops[x]
        /\ Frame(q, r, InHeap(q) \cup {target})
        /\ q.heap # <<>> /\ r.heap # <<>> /\ r.heap[1].time = q.heap[1].time
    BY <2>2 DEF MoveActiveEffect
  <2>4. PICK e \in Entries(q) :
          /\ e.timer = source
          /\ Entries(r) = {f \in Entries(q) : f.timer # source} \cup {Entry(e.time, target)}
    BY <2>2 DEF MoveActiveEffect
  <2>5. Entry(e.time, target).time = e.time /\ Entry(e.time, target).timer = target
    BY DEF Entry
  <2>6. ASSUME NEW f \in Entries(r)
        PROVE  \/ f \in Entries(q) /\ f.timer # source /\ f.timer # target
               \/ /\ f.timer = target /\ target # source
                  /\ \E g \in Entries(q) : g.timer = source /\ f.time = g.time
    <3>1. CASE f \in Entries(q) /\ f.timer # source
      BY <3>1, <1>2
    <3>2. CASE f = Entry(e.time, target)
      BY <3>2, <2>1, <2>4, <2>5
    <3> QED BY <3>1, <3>2, <2>4
  <2>7. q.ops[source] # <<>>
    BY <1>3 DEF HasOps
  <2>8. Frame(q, r, InHeap(q) \cup {source, target})
    BY <2>3 DEF Frame
  <2> QED BY <2>3, <2>6, <2>7, <2>8, <1>1, <1>3 DEF MoveEffect
<1>4. CASE source \notin InHeap(q)
  <2>1. Resting(q, source) /\ (q.index[source] = NoIndex \/ q.heap = <<>>)
    BY <1>4
  <2>2. MoveIdleEffect(S, q, r, target, source)
    BY <2>1, <1>1, <1>4, MoveIdleIs
  <2>3. /\ QueueOK(S, r) /\ r.heap = q.heap
        /\ InHeap(r) = InHeap(q) /\ Entries(r) = Entries(q)
        /\ Resting(r, source) /\ Resting(r, target)
        /\ r.index[source] = NoIndex /\ (target # source => r.index[target] = q.index[source])
        /\ Frame(q, r, {source, target})
    BY <2>2 DEF MoveIdleEffect
  <2>4. \A f \in Entries(r) : f \in Entries(q) /\ f.timer # source /\ f.timer # target
    BY <2>3, <1>2, <1>4
  <2>5. r.ops[target] = q.ops[source] /\ Unlinked(r, target)
    BY <2>1, <2>3 DEF Resting
  <2>6. \A x \in Timers \ {source, target} : r.ops[x] = q.ops[x]
    BY <2>3 DEF Frame
  <2>7. Frame(q, r, InHeap(q) \cup {source, target})
    BY <2>3 DEF Frame
  <2> QED BY <2>3, <2>4, <2>5, <2>6, <2>7, <1>1, <1>4 DEF MoveEffect
<1> QED BY <1>3, <1>4

LEMMA EmptyHeap ==
  ASSUME NEW S, NEW q \in QueueType(S), InHeap(q) = {}
  PROVE  q.heap = <<>>
<1>1. PICK h \in Seq(EntryType) : h = q.heap
  BY DEF QueueType
<1>2. h # <<>> => 1 \in 1..Len(h)
  OBVIOUS
<1>3. ASSUME h # <<>> PROVE FALSE
  <2>1. h[1].timer \in InHeap(q)
    BY <1>1, <1>2, <1>3 DEF InHeap
  <2> QED BY <2>1
<1> QED BY <1>1, <1>3

LEMMA MoveWorld ==
  ASSUME NEW qu, NEW d, NEW al, NEW sv, NEW ex, NEW st, NEW dl, NEW sh,
         World(qu, d, al, sv, ex, st, dl, sh),
         NEW target \in Timers, d.ops[target] = <<>>,
         NEW source \in Timers, source \in al, NEW s \in Services, sv[source] = s,
         NEW r, r = move_timer(Whole(qu, d, s), target, source),
         NEW al1, NEW sv1, NEW ex1, Moved(target, source, al, sv, ex, al1, sv1, ex1)
  PROVE  /\ World(Put(qu, s, r), Links(r), al1, sv1, ex1, st, dl, sh)
         /\ MovedOps(d, Links(r), target, source)
         /\ Put(qu, s, r)[s].heap # <<>>
              => qu[s].heap # <<>> /\ Put(qu, s, r)[s].heap[1].time = qu[s].heap[1].time
<1>1. PICK q : q = Whole(qu, d, s)
  OBVIOUS
<1>2. /\ q.next = d.next /\ q.prev = d.prev /\ q.index = d.index /\ q.ops = d.ops
      /\ q.heap = qu[s].heap /\ q \in QueueType(WaitOps)
  BY <1>1, StoredWhole DEF World
<1>3. /\ QueueOK(WaitOps, q) /\ HasOps(q) /\ InHeap(q) = Waited(d, al, sv, s)
      /\ target \notin InHeap(q) /\ Resting(q, target)
      /\ source \notin InHeap(q) => Resting(q, source)
  BY <1>1, WorldQueue
<1>4. source \notin InHeap(q) => q.index[source] = NoIndex \/ q.heap = <<>>
  <2> SUFFICES ASSUME source \notin InHeap(q), q.index[source] # NoIndex PROVE q.heap = <<>>
    OBVIOUS
  <2>1. d.ops[source] = <<>>
    BY <1>2, <1>3 DEF Resting
  <2>2. sh[s]
    BY <2>1, <1>2 DEF World, IdleOK, StalePosition
  <2>3. \A t \in Timers : d.ops[t] # <<>> => ~sh[sv[t]]
    BY DEF World, OwnersOK
  <2>4. InHeap(q) = {}
    BY <2>2, <2>3, <1>3 DEF Waited
  <2> QED BY <2>4, <1>2, EmptyHeap
<1>5. MoveEffect(WaitOps, q, r, target, source)
  BY <1>1, <1>3, <1>4, MoveIs
<1>6. r \in QueueType(WaitOps) /\ Frame(q, r, InHeap(q) \cup {source, target})
  BY <1>5 DEF MoveEffect, QueueOK
<1>7. PICK qu1, d1 : qu1 = Put(qu, s, r) /\ d1 = Links(r)
  OBVIOUS
<1>8. /\ d1 \in DataType /\ d1.next = r.next /\ d1.prev = r.prev
      /\ d1.index = r.index /\ d1.ops = r.ops
  BY <1>6, <1>7, PartsOf
<1>9. /\ Stored(qu1, d1) /\ Whole(qu1, d1, s) = r
      /\ OtherQueuesSame(qu, d, qu1, d1, s) /\ qu1[s].heap = r.heap
  <2>1. PICK X : X = InHeap(q) \cup {source, target}
    OBVIOUS
  <2>2. \A x \in X : x \in InHeap(Whole(qu, d, s)) \/ d.ops[x] = <<>> \/ (x \in al /\ sv[x] = s)
    BY <2>1, <1>1
  <2>3. \A x \in Services \ {s} : QueueOK(WaitOps, Whole(qu, d, x))
                                  /\ X \cap InHeap(Whole(qu, d, x)) = {}
    BY <2>2, WorldDisjoint
  <2>4. Stored(qu, d)
    BY DEF World
  <2> QED BY <2>1, <2>3, <2>4, <1>1, <1>6, <1>7, OtherQueues
<1>10. /\ al1 = al \cup {target} /\ sv1[target] = s
       /\ \A x \in Timers : x # target => sv1[x] = sv[x]
       /\ target # source => ex1[target] = ex[source]
       /\ \A x \in Timers \ {source, target} : ex1[x] = ex[x]
  BY DEF Moved
<1>11. MovedOps(d, d1, target, source)
  BY <1>2, <1>5, <1>8 DEF MoveEffect, MovedOps, Resting
<1>12. /\ d1.ops[source] = <<>> /\ (target # source => d1.ops[target] = d.ops[source])
       /\ \A x \in Timers \ {source, target} : d1.ops[x] = d.ops[x]
  BY <1>11 DEF MovedOps
<1>13. source \in InHeap(q) <=> d.ops[source] # <<>>
  BY <1>3 DEF Waited
<1>s. sv1[source] = s
  BY <1>10
<1>14. QueuesOK(qu1, d1, al1, sv1)
  <2> SUFFICES ASSUME NEW x \in Services
               PROVE  /\ QueueOK(WaitOps, Whole(qu1, d1, x))
                      /\ InHeap(Whole(qu1, d1, x)) = Waited(d1, al1, sv1, x)
    BY DEF QueuesOK
  <2>1. CASE x = s
    <3>1. QueueOK(WaitOps, r)
          /\ InHeap(r) = IF source \in InHeap(q) THEN (InHeap(q) \ {source}) \cup {target}
                         ELSE InHeap(q)
      BY <1>5 DEF MoveEffect
    <3>2. ASSUME NEW t \in Timers PROVE t \in InHeap(r) <=> t \in Waited(d1, al1, sv1, s)
      <4>1. CASE t = source
        <5>1. t \notin Waited(d1, al1, sv1, s)
          BY <4>1, <1>12 DEF Waited
        <5>2. t \notin InHeap(r)
          BY <4>1, <3>1, <1>3, <1>13
        <5> QED BY <5>1, <5>2
      <4>2. CASE t = target /\ target # source
        <5>1. t \in Waited(d1, al1, sv1, s) <=> d.ops[source] # <<>>
          BY <4>2, <1>10, <1>12 DEF Waited
        <5>2. t \in InHeap(r) <=> source \in InHeap(q)
          BY <4>2, <3>1, <1>3
        <5> QED BY <5>1, <5>2, <1>13
      <4>3. CASE t # target /\ t # source
        <5>1. t \in Waited(d1, al1, sv1, s) <=> t \in Waited(d, al, sv, s)
          BY <4>3, <1>10, <1>12 DEF Waited
        <5>2. t \in InHeap(r) <=> t \in InHeap(q)
          BY <4>3, <3>1
        <5> QED BY <5>1, <5>2, <1>3
      <4> QED BY <4>1, <4>2, <4>3
    <3>3. InHeap(r) \subseteq Timers /\ Waited(d1, al1, sv1, s) \subseteq Timers
      BY <1>6, InHeapTimers DEF Waited
    <3>4. InHeap(r) = Waited(d1, al1, sv1, s)
      BY <3>2, <3>3
    <3> QED BY <3>1, <3>4, <2>1, <1>9
  <2>2. CASE x # s
    <3>1. /\ QueueOK(WaitOps, Whole(qu1, d1, x))
          /\ InHeap(Whole(qu1, d1, x)) = InHeap(Whole(qu, d, x))
      BY <2>2, <1>9 DEF OtherQueuesSame
    <3>2. InHeap(Whole(qu, d, x)) = Waited(d, al, sv, x)
      BY WorldQueue
    <3>3. ASSUME NEW t \in Timers
          PROVE  t \in Waited(d, al, sv, x) <=> t \in Waited(d1, al1, sv1, x)
      <4>1. CASE t = source
        BY <4>1, <2>2, <1>s DEF Waited
      <4>2. CASE t = target
        BY <4>2, <2>2, <1>10 DEF Waited
      <4>3. CASE t # target /\ t # source
        BY <4>3, <1>10, <1>12 DEF Waited
      <4> QED BY <4>1, <4>2, <4>3
    <3>4. Waited(d, al, sv, x) = Waited(d1, al1, sv1, x)
      BY <3>3 DEF Waited
    <3> QED BY <3>1, <3>2, <3>4
  <2> QED BY <2>1, <2>2
<1>15. OwnersOK(d1, al1, sv1, sh)
  <2> SUFFICES ASSUME NEW x \in Timers
               PROVE  /\ x \in al1 => sv1[x] \in Services
                      /\ d1.ops[x] # <<>> => x \in al1 /\ ~sh[sv1[x]]
    BY DEF OwnersOK
  <2>1. CASE x = source
    BY <2>1, <1>s, <1>12
  <2>2. CASE x = target /\ target # source
    <3>1. d.ops[source] # <<>> => ~sh[s]
      BY DEF World, OwnersOK
    <3> QED BY <3>1, <2>2, <1>10, <1>12
  <2>3. CASE x # target /\ x # source
    BY <2>3, <1>10, <1>12 DEF World, OwnersOK
  <2> QED BY <2>1, <2>2, <2>3
<1>16. IdleOK(d1, al1, sv1, sh)
  <2> SUFFICES ASSUME NEW x \in Timers, d1.ops[x] = <<>>
               PROVE  /\ d1.next[x] = Nil /\ d1.prev[x] = Nil
                      /\ d1.index[x] = NoIndex \/ StalePosition(x, al1, sv1, sh)
    BY DEF IdleOK
  <2>1. CASE x = source
    BY <2>1, <1>5, <1>8 DEF MoveEffect, Resting, Unlinked
  <2>2. CASE x = target /\ target # source
    <3>1. d.ops[source] = <<>>
      BY <2>2, <1>12
    <3>2. Unlinked(r, target) /\ r.index[target] = d.index[source]
      BY <3>1, <2>2, <1>2, <1>5 DEF MoveEffect
    <3>3. d.index[source] = NoIndex \/ sh[s]
      BY <3>1 DEF World, IdleOK, StalePosition
    <3>4. sh[s] => StalePosition(target, al1, sv1, sh)
      BY <1>10 DEF StalePosition
    <3> QED BY <3>2, <3>3, <3>4, <2>2, <1>8 DEF Unlinked
  <2>3. CASE x # target /\ x # source
    <3>1. d.ops[x] = <<>> /\ x \notin InHeap(q)
      BY <2>3, <1>3, <1>12 DEF Waited
    <3>2. d1.next[x] = d.next[x] /\ d1.prev[x] = d.prev[x] /\ d1.index[x] = d.index[x]
      BY <2>3, <3>1, <1>2, <1>6, <1>8 DEF Frame
    <3>3. /\ d.next[x] = Nil /\ d.prev[x] = Nil
          /\ d.index[x] = NoIndex \/ StalePosition(x, al, sv, sh)
      BY <3>1 DEF World, IdleOK
    <3>4. StalePosition(x, al, sv, sh) => StalePosition(x, al1, sv1, sh)
      BY <2>3, <1>10 DEF StalePosition
    <3> QED BY <3>2, <3>3, <3>4
  <2> QED BY <2>1, <2>2, <2>3
<1>17. TimesOK(qu1, d1, ex1)
  <2> SUFFICES ASSUME NEW x \in Services, NEW e \in Entries(Whole(qu1, d1, x))
               PROVE  e.time = ex1[e.timer]
    BY DEF TimesOK
  <2>0. \A y \in Services : \A f \in Entries(Whole(qu, d, y)) :
          f.time = ex[f.timer] /\ f.timer \in Waited(d, al, sv, y)
    <3>1. \A y \in Services : \A f \in Entries(Whole(qu, d, y)) :
            f.timer \in InHeap(Whole(qu, d, y))
      BY InHeapIs
    <3> QED BY <3>1, WorldQueue DEF World, TimesOK
  <2>1. CASE x = s
    <3>1. e \in Entries(r)
      BY <2>1, <1>9
    <3>2. \/ e \in Entries(q) /\ e.timer # source /\ e.timer # target
          \/ /\ e.timer = target /\ target # source
             /\ \E f \in Entries(q) : f.timer = source /\ e.time = f.time
      BY <3>1, <1>5 DEF MoveEffect
    <3>3. CASE e \in Entries(q) /\ e.timer # source /\ e.timer # target
      <4>1. e.time = ex[e.timer] /\ e.timer \in Timers
        BY <3>3, <2>0, <1>1 DEF Waited
      <4> QED BY <4>1, <3>3, <1>10
    <3>4. CASE /\ e.timer = target /\ target # source
               /\ \E f \in Entries(q) : f.timer = source /\ e.time = f.time
      BY <3>4, <2>0, <1>1, <1>10
    <3> QED BY <3>2, <3>3, <3>4
  <2>2. CASE x # s
    <3>1. e \in Entries(Whole(qu, d, x))
      BY <2>2, <1>9 DEF OtherQueuesSame
    <3>2. e.time = ex[e.timer] /\ e.timer \in Timers /\ sv[e.timer] = x
          /\ d.ops[e.timer] # <<>>
      BY <3>1, <2>0 DEF Waited
    <3> QED BY <3>2, <2>2, <1>10
  <2> QED BY <2>1, <2>2
<1>18. WaitsOK(d1, st, dl, ex1)
  BY <1>10, <1>11, MovedWaits DEF World
<1>19. World(qu1, d1, al1, sv1, ex1, st, dl, sh)
  BY <1>9, <1>14, <1>15, <1>16, <1>17, <1>18 DEF World
<1>20. qu1[s].heap # <<>> => qu[s].heap # <<>> /\ qu1[s].heap[1].time = qu[s].heap[1].time
  BY <1>2, <1>5, <1>9 DEF MoveEffect
<1> QED BY <1>7, <1>11, <1>19, <1>20

-----------------------------------------------------------------------------
(* What the reactor has to know: the first entry of a heap never moves to   *)
(* an earlier time, but when a wait is added.                               *)
RootLater(qu, qu1) ==
  \A s \in Services : qu1[s].heap # <<>> =>
    /\ qu[s].heap # <<>> /\ qu[s].heap[1].time \in Int /\ qu1[s].heap[1].time \in Int
    /\ qu[s].heap[1].time <= qu1[s].heap[1].time

LEMMA RootTimes ==
  ASSUME NEW qu, NEW d, Stored(qu, d), NEW s \in Services, qu[s].heap # <<>>
  PROVE  qu[s].heap[1].time \in Int
<1>1. PICK h \in Seq(EntryType) : h = qu[s].heap
  BY DEF Stored, RootsType
<1>2. 1 \in 1..Len(h) /\ \A k \in 1..Len(h) : h[k] \in EntryType
  BY <1>1
<1>3. h[1] \in EntryType
  BY <1>2
<1> QED BY <1>1, <1>3 DEF EntryType

LEMMA RootLaterReflexive ==
  ASSUME NEW qu, NEW d, Stored(qu, d)
  PROVE  RootLater(qu, qu)
<1> SUFFICES ASSUME NEW s \in Services, qu[s].heap # <<>>
             PROVE  qu[s].heap[1].time \in Int /\ qu[s].heap[1].time <= qu[s].heap[1].time
  BY DEF RootLater
<1>1. PICK n : n = qu[s].heap[1].time
  OBVIOUS
<1>2. n \in Int
  BY <1>1, RootTimes
<1>3. n <= n
  BY <1>2
<1> QED BY <1>1, <1>2, <1>3

LEMMA RootLaterTransitive ==
  ASSUME NEW qu, NEW qu1, NEW qu2, RootLater(qu, qu1), RootLater(qu1, qu2)
  PROVE  RootLater(qu, qu2)
<1> SUFFICES ASSUME NEW s \in Services, qu2[s].heap # <<>>
             PROVE  /\ qu[s].heap # <<>> /\ qu[s].heap[1].time \in Int
                    /\ qu2[s].heap[1].time \in Int
                    /\ qu[s].heap[1].time <= qu2[s].heap[1].time
  BY DEF RootLater
<1>1. /\ qu1[s].heap # <<>> /\ qu1[s].heap[1].time \in Int /\ qu2[s].heap[1].time \in Int
      /\ qu1[s].heap[1].time <= qu2[s].heap[1].time
  BY DEF RootLater
<1>2. /\ qu[s].heap # <<>> /\ qu[s].heap[1].time \in Int
      /\ qu[s].heap[1].time <= qu1[s].heap[1].time
  BY <1>1 DEF RootLater
<1>3. \A a, b, c \in Int : a <= b /\ b <= c => a <= c
  OBVIOUS
<1> QED BY <1>1, <1>2, <1>3

LEMMA TakeLater ==
  ASSUME NEW qu, NEW d, Stored(qu, d), NEW s \in Services, NEW r,
         QueueOK(WaitOps, Whole(qu, d, s)), TakeEffect(WaitOps, Whole(qu, d, s), r)
  PROVE  RootLater(qu, Put(qu, s, r))
<1>1. PICK q : q = Whole(qu, d, s)
  OBVIOUS
<1>2. q \in QueueType(WaitOps) /\ q.heap = qu[s].heap /\ HeapOrdered(q)
  BY <1>1, StoredWhole DEF QueueOK
<1>3. r \in QueueType(WaitOps) /\ Entries(r) \subseteq Entries(q)
  BY <1>1 DEF TakeEffect, QueueOK
<1>4. PICK qu1 : qu1 = Put(qu, s, r)
  OBVIOUS
<1>5. qu1[s].heap = r.heap /\ \A x \in Services : x # s => qu1[x] = qu[x]
  <2>1. qu \in [Services -> RootsType]
    BY DEF Stored
  <2> QED BY <2>1, <1>3, <1>4, PartsOf DEF Put
<1>6. ASSUME NEW x \in Services, qu1[x].heap # <<>>
      PROVE  /\ qu[x].heap # <<>> /\ qu[x].heap[1].time \in Int /\ qu1[x].heap[1].time \in Int
             /\ qu[x].heap[1].time <= qu1[x].heap[1].time
  <2>1. CASE x # s
    <3>1. RootLater(qu, qu)
      BY RootLaterReflexive
    <3> QED BY <3>1, <2>1, <1>5, <1>6 DEF RootLater
  <2>2. CASE x = s
    <3>1. PICK h \in Seq(EntryType) : h = r.heap
      BY <1>3 DEF QueueType
    <3>2. h # <<>> /\ 1 \in 1..Len(h)
      BY <2>2, <3>1, <1>5, <1>6
    <3>3. h[1] \in Entries(q) /\ h[1].time \in Int
      BY <3>1, <3>2, <1>3, HeapTimes DEF Entries
    <3>4. q.heap[1].time <= h[1].time
      BY <3>3, <1>2, RootLeast
    <3>5. q.heap # <<>>
      BY <3>3 DEF Entries
    <3>6. qu[s].heap[1].time \in Int
      BY <3>5, <1>2, RootTimes
    <3> QED BY <2>2, <3>1, <3>3, <3>4, <3>5, <3>6, <1>2, <1>5
  <2> QED BY <2>1, <2>2
<1> QED BY <1>4, <1>6 DEF RootLater

-----------------------------------------------------------------------------
(* Cancelling.                                                             *)

(* A timer never has more operations than there are.                       *)
LEMMA OpsLength ==
  ASSUME NEW w \in Seq(WaitOps), Distinct(w)
  PROVE  Len(w) <= AllOps /\ AllOps \in Nat
<1>1. PICK L \in Nat : L = Len(w)
  OBVIOUS
<1>2. IsFiniteSet(WaitOps)
  BY TimerServiceAssumption
<1>3. AllOps \in Nat
  BY <1>2, FS_CardinalityType DEF AllOps
<1>4. PICK C : C = {w[i] : i \in 1..L}
  OBVIOUS
<1>5. C \subseteq WaitOps
  BY <1>1, <1>4
<1> DEFINE f == [i \in 1..L |-> w[i]]
<1>6. f \in Bijection(1..L, C)
  <2>1. f \in [1..L -> C]
    BY <1>4
  <2>2. \A i, j \in 1..L : f[i] = f[j] => i = j
    BY <1>1 DEF Distinct
  <2>3. \A o \in C : \E i \in 1..L : f[i] = o
    BY <1>4
  <2> QED BY <2>1, <2>2, <2>3 DEF Bijection, Injection, Surjection, IsInjective
<1>7. ExistsBijection(1..L, C)
  BY <1>6 DEF ExistsBijection
<1>8. Cardinality(C) = L
  BY <1>7, FS_CountingElements
<1>9. Cardinality(C) <= Cardinality(WaitOps)
  BY <1>2, <1>5, FS_Subset
<1> QED BY <1>1, <1>3, <1>8, <1>9 DEF AllOps

(* cancel_timer in the queue of the timer's service.                        *)
CancelStep(qu, d, s, t, m, r, w) ==
  /\ r = cancel_timer(Whole(qu, d, s), t, m)
  /\ w = Cancelled(Whole(qu, d, s), t, m)

CancelLeaves(qu, d, s, t, m, r, w) ==
  /\ Whole(Put(qu, s, r), Links(r), s) = r
  /\ RootLater(qu, Put(qu, s, r))
  /\ \A x \in Timers : x # t => Links(r).ops[x] = d.ops[x]
  /\ m >= AllOps => Links(r).ops[t] = <<>>
  /\ m > 0 /\ w = <<>> => Links(r).ops[t] = <<>>

LEMMA CancelWorld ==
  ASSUME NEW qu, NEW d, NEW al, NEW sv, NEW ex, NEW st, NEW dl, NEW sh,
         World(qu, d, al, sv, ex, st, dl, sh), sh \in [Services -> BOOLEAN],
         NEW t \in Timers, t \in al, NEW s \in Services, sv[t] = s, NEW m \in Nat,
         NEW r, NEW w, CancelStep(qu, d, s, t, m, r, w),
         NEW st1, NEW dl1, Completes(st, dl, ToSet(w), st1, dl1)
  PROVE  /\ World(Put(qu, s, r), Links(r), al, sv, ex, st1, dl1, sh)
         /\ CancelLeaves(qu, d, s, t, m, r, w)
<1>1. PICK q : q = Whole(qu, d, s)
  OBVIOUS
<1>2. q.ops = d.ops /\ Stored(qu, d)
  BY <1>1, StoredWhole DEF World
<1>3. /\ QueueOK(WaitOps, q) /\ HasOps(q)
      /\ t \notin InHeap(q) => Resting(q, t)
  BY <1>1, WorldQueue
<1>4. CancelEffect(WaitOps, q, r, t, m, w)
  BY <1>1, <1>3, CancelIs DEF CancelStep
<1>5. Distinct(d.ops[t]) /\ d.ops[t] \in Seq(WaitOps)
  BY DEF World, WaitsOK, Stored, DataType
<1>6. TakeEffect(WaitOps, q, r) /\ IndexReset(q, r)
  BY <1>4 DEF CancelEffect
<1>7. TakenFrom(q, r, ToSet(w))
  <2>1. /\ \A x \in Timers : x # t => r.ops[x] = q.ops[x]
        /\ ToSet(q.ops[t]) = ToSet(w) \cup ToSet(r.ops[t])
        /\ ToSet(w) \cap ToSet(r.ops[t]) = {}
    BY <1>2, <1>4, <1>5 DEF CancelEffect
  <2> QED BY <2>1 DEF TakenFrom
<1>8. PositionsOK(q, r, s, sh, sh)
  BY <1>6 DEF PositionsOK
<1>9. /\ World(Put(qu, s, r), Links(r), al, sv, ex, st1, dl1, sh)
      /\ Whole(Put(qu, s, r), Links(r), s) = r
      /\ Links(r).ops = r.ops
  <2>1. TakeStep(qu, d, s, r, ToSet(w), sh, sh)
    BY <1>1, <1>6, <1>7, <1>8 DEF TakeStep
  <2> QED BY <2>1, TakeWorld DEF TakeLeaves
<1>10. RootLater(qu, Put(qu, s, r))
  BY <1>1, <1>2, <1>3, <1>6, TakeLater
<1>11. m >= AllOps => r.ops[t] = <<>>
  <2>1. PICK k \in Nat : k = Len(d.ops[t]) /\ k <= AllOps /\ AllOps \in Nat
    BY <1>5, OpsLength
  <2>2. m >= k => r.ops[t] = <<>>
    BY <2>1, <1>2, <1>4 DEF CancelEffect
  <2> QED BY <2>1, <2>2
<1>12. /\ \A x \in Timers : x # t => r.ops[x] = d.ops[x]
       /\ m > 0 /\ w = <<>> => r.ops[t] = <<>>
  BY <1>2, <1>4 DEF CancelEffect
<1> QED BY <1>9, <1>10, <1>11, <1>12 DEF CancelLeaves

-----------------------------------------------------------------------------
(* The inductive invariant.                                                *)

(* Something wakes up a waiting reactor by the time due.  Without a timerfd *)
(* that is the timeout it waits with, which must have been set: Off says    *)
(* nothing about the order.                                                 *)
Late(due) == IF due < now THEN now ELSE due

AwakeBy(s, due) ==
  IF has_timerfd
  THEN timerfd[s] # Off /\ timerfd[s] <= Late(due)
  ELSE reactor[s] = "waiting" =>
         interrupted[s] \/ (timeout[s] # Off /\ timeout[s] <= Late(due))

Sleep == \A s \in Services : queue[s].heap # <<>> => AwakeBy(s, queue[s].heap[1].time)

IInv ==
  /\ TypeOK
  /\ World(queue, data, alive, service, expiry, status, deadline, shutdown)
  /\ FlagCoversWaits
  /\ Sleep

ClockStands ==
  UNCHANGED <<now, reactor, has_timerfd, timerfd, timeout, interrupted>>

(* The times a reactor waits for are natural numbers, unless they are Off.  *)
LEMMA AwakeLater ==
  ASSUME TypeOK, NEW s \in Services, NEW due \in Int, NEW later \in Int, due <= later,
         AwakeBy(s, due)
  PROVE  AwakeBy(s, later)
<1>1. now \in Int /\ \A n \in Nat : n <= Late(due) => n <= Late(later)
  BY DEF Late, TypeOK, Time
<1>2. timerfd[s] \in Nat \cup {Off} /\ timeout[s] \in Nat \cup {Off}
  BY DEF TypeOK
<1>3. timerfd[s] # Off /\ timerfd[s] <= Late(due) => timerfd[s] <= Late(later)
  BY <1>1, <1>2
<1>4. timeout[s] # Off /\ timeout[s] <= Late(due) => timeout[s] <= Late(later)
  BY <1>1, <1>2
<1> QED BY <1>3, <1>4 DEF AwakeBy

LEMMA SleepKept ==
  ASSUME TypeOK, Sleep, RootLater(queue, queue'), ClockStands
  PROVE  Sleep'
<1> SUFFICES ASSUME NEW s \in Services, queue'[s].heap # <<>>
             PROVE  AwakeBy(s, queue[s].heap[1].time)'
  BY DEF Sleep
<1>1. PICK due, later : due = queue[s].heap[1].time /\ later = queue'[s].heap[1].time
  OBVIOUS
<1>2. queue[s].heap # <<>> /\ due \in Int /\ later \in Int /\ due <= later
  BY <1>1 DEF RootLater
<1>3. AwakeBy(s, due)
  BY <1>1, <1>2 DEF Sleep
<1>4. AwakeBy(s, later)
  BY <1>2, <1>3, AwakeLater
<1>5. AwakeBy(s, queue[s].heap[1].time)' <=> AwakeBy(s, later)
  BY <1>1 DEF AwakeBy, Late, ClockStands
<1> QED BY <1>4, <1>5

LEMMA CompleteIs ==
  ASSUME TypeOK, NEW w, NEW result \in {"aborted", "success"}, Complete(w, result)
  PROVE  /\ Completes(status, deadline, ToSet(w), status', deadline')
         /\ status' \in [WaitOps -> {"fresh", "waiting", "success", "aborted", "posted",
                                     "destroyed"}]
         /\ deadline' \in [WaitOps -> Time]
         /\ \A o \in WaitOps : status'[o] = "success" =>
              status[o] = "success" \/ (result = "success" /\ o \in ToSet(w))
<1>1. PICK W : W = ToSet(w)
  OBVIOUS
<1>2. /\ status' = [o \in WaitOps |-> IF o \in W THEN result ELSE status[o]]
      /\ deadline' = [o \in WaitOps |-> IF o \in W THEN 0 ELSE deadline[o]]
  BY <1>1 DEF Complete
<1>3. 0 \in Time
  BY TimerServiceAssumption DEF Time
<1>4. Completes(status, deadline, W, status', deadline')
  BY <1>2 DEF Completes
<1>5. /\ status' \in [WaitOps -> {"fresh", "waiting", "success", "aborted", "posted",
                                  "destroyed"}]
      /\ deadline' \in [WaitOps -> Time]
  BY <1>2, <1>3 DEF TypeOK
<1> QED BY <1>1, <1>2, <1>4, <1>5

(* CancelWaits, whether the timer may have waits or not.                    *)
CancelWaitsEffect(t, m) ==
  /\ World(queue', data', alive, service, expiry, status', deadline', shutdown)
  /\ RootLater(queue, queue')
  /\ \A x \in Timers : x # t => data'.ops[x] = data.ops[x]
  /\ m >= AllOps => data'.ops[t] = <<>>
  /\ m > 0 /\ ~(might_have_pending_waits[t] /\ Cancelled(Q(service[t]), t, m) # <<>>)
       => data'.ops[t] = <<>>
  /\ status' \in [WaitOps -> {"fresh", "waiting", "success", "aborted", "posted",
                              "destroyed"}]
  /\ deadline' \in [WaitOps -> Time]
  /\ \A o \in WaitOps : status'[o] = "success" => status[o] = "success"

LEMMA CancelWaitsIs ==
  ASSUME IInv, NEW t \in Timers, t \in alive, NEW m \in Nat, CancelWaits(t, m)
  PROVE  CancelWaitsEffect(t, m)
<1>1. World(queue, data, alive, service, expiry, status, deadline, shutdown)
  BY DEF IInv
<1>2. PICK s \in Services : s = service[t]
  BY <1>1 DEF World, OwnersOK
<1>3. CASE might_have_pending_waits[t]
  <2>1. PICK r, w : /\ r = cancel_timer(Whole(queue, data, s), t, m)
                    /\ w = Cancelled(Whole(queue, data, s), t, m)
    OBVIOUS
  <2>2. /\ queue' = Put(queue, s, r) /\ data' = Links(r) /\ Complete(w, "aborted")
        /\ Cancelled(Q(service[t]), t, m) = w
    BY <2>1, <1>2, <1>3 DEF CancelWaits, SetQueue, Put, Q, Whole
  <2>3. TypeOK /\ shutdown \in [Services -> BOOLEAN]
    BY DEF IInv, TypeOK
  <2>4. /\ Completes(status, deadline, ToSet(w), status', deadline')
        /\ status' \in [WaitOps -> {"fresh", "waiting", "success", "aborted", "posted",
                                    "destroyed"}]
        /\ deadline' \in [WaitOps -> Time]
        /\ \A o \in WaitOps : status'[o] = "success" => status[o] = "success"
    BY <2>2, <2>3, CompleteIs
  <2>5. CancelStep(queue, data, s, t, m, r, w)
    BY <2>1 DEF CancelStep
  <2>6. /\ World(Put(queue, s, r), Links(r), alive, service, expiry, status', deadline',
                 shutdown)
        /\ CancelLeaves(queue, data, s, t, m, r, w)
    BY <2>3, <2>4, <2>5, <1>1, <1>2, CancelWorld, Zenon
  <2> QED BY <2>2, <2>4, <2>6, <1>3 DEF CancelWaitsEffect, CancelLeaves
<1>4. CASE ~might_have_pending_waits[t]
  <2>1. UNCHANGED <<queue, data, status, deadline>>
    BY <1>4 DEF CancelWaits, op_vars
  <2>2. data.ops[t] = <<>>
    BY <1>4 DEF IInv, FlagCoversWaits
  <2>3. RootLater(queue, queue)
    BY <1>1, RootLaterReflexive DEF World
  <2>4. World(queue', data', alive, service, expiry, status', deadline', shutdown)
    BY <2>1, <1>1
  <2>5. /\ status' \in [WaitOps -> {"fresh", "waiting", "success", "aborted", "posted",
                                    "destroyed"}]
        /\ deadline' \in [WaitOps -> Time]
    BY <2>1 DEF IInv, TypeOK
  <2> QED BY <2>1, <2>2, <2>3, <2>4, <2>5 DEF CancelWaitsEffect
<1> QED BY <1>3, <1>4

-----------------------------------------------------------------------------
(* The calls on timer objects.                                             *)

NobodySucceeds ==
  \A o \in WaitOps : status'[o] = "success" => status[o] = "success"

LEMMA NewDataIs ==
  ASSUME NEW d \in DataType, NEW t \in Timers
  PROVE  LET e == NewData(d, t) IN
         /\ e \in DataType
         /\ e.next[t] = Nil /\ e.prev[t] = Nil /\ e.index[t] = NoIndex /\ e.ops[t] = <<>>
         /\ \A x \in Timers \ {t} : /\ e.next[x] = d.next[x] /\ e.prev[x] = d.prev[x]
                                    /\ e.index[x] = d.index[x] /\ e.ops[x] = d.ops[x]
<1>1. NoIndex \in Nat
  BY NoIndexIsNat
<1>2. <<>> \in Seq(WaitOps)
  OBVIOUS
<1> DEFINE a == [d EXCEPT !.next[t] = Nil]
<1>3. /\ a \in DataType /\ a.next[t] = Nil /\ a.prev = d.prev /\ a.index = d.index
      /\ a.ops = d.ops /\ \A x \in Timers \ {t} : a.next[x] = d.next[x]
  BY DEF DataType
<1> DEFINE b == [a EXCEPT !.prev[t] = Nil]
<1> HIDE DEF a
<1>4. /\ b \in DataType /\ b.prev[t] = Nil /\ b.next = a.next /\ b.index = a.index
      /\ b.ops = a.ops /\ \A x \in Timers \ {t} : b.prev[x] = a.prev[x]
  BY <1>3 DEF DataType
<1> DEFINE c == [b EXCEPT !.index[t] = NoIndex]
<1> HIDE DEF b
<1>5. /\ c \in DataType /\ c.index[t] = NoIndex /\ c.next = b.next /\ c.prev = b.prev
      /\ c.ops = b.ops /\ \A x \in Timers \ {t} : c.index[x] = b.index[x]
  BY <1>1, <1>4 DEF DataType
<1> DEFINE e == [c EXCEPT !.ops[t] = <<>>]
<1> HIDE DEF c
<1>6. /\ e \in DataType /\ e.ops[t] = <<>> /\ e.next = c.next /\ e.prev = c.prev
      /\ e.index = c.index /\ \A x \in Timers \ {t} : e.ops[x] = c.ops[x]
  BY <1>2, <1>5 DEF DataType
<1>7. e = NewData(d, t)
  BY DEF NewData, a, b, c
<1> HIDE DEF e
<1> QED BY <1>3, <1>4, <1>5, <1>6, <1>7

LEMMA ConstructStep ==
  ASSUME IInv, NEW t \in Timers, NEW s \in Services, construct(t, s)
  PROVE  IInv' /\ NobodySucceeds
<1>1. World(queue, data, alive, service, expiry, status, deadline, shutdown)
  BY DEF IInv
<1>2. /\ t \notin alive /\ alive' = alive \cup {t}
      /\ service' = [service EXCEPT ![t] = s] /\ expiry' = [expiry EXCEPT ![t] = 0]
      /\ might_have_pending_waits' = [might_have_pending_waits EXCEPT ![t] = FALSE]
      /\ data' = NewData(data, t)
      /\ UNCHANGED <<queue, op_vars, now, reactor_vars>>
  BY DEF construct
<1>3. /\ TypeOK /\ data \in DataType /\ 0 \in Time
      /\ service \in [Timers -> Services \cup {Nil}] /\ expiry \in [Timers -> Time]
      /\ might_have_pending_waits \in [Timers -> BOOLEAN]
  BY <1>1, TimerServiceAssumption DEF IInv, World, Stored, TypeOK, Time
<1>4. data.ops[t] = <<>>
  BY <1>1, <1>2 DEF World, OwnersOK
<1>5. /\ data' \in DataType
      /\ data'.next[t] = Nil /\ data'.prev[t] = Nil /\ data'.index[t] = NoIndex
      /\ data'.ops[t] = <<>>
      /\ \A x \in Timers \ {t} : /\ data'.next[x] = data.next[x]
                                 /\ data'.prev[x] = data.prev[x]
                                 /\ data'.index[x] = data.index[x]
                                 /\ data'.ops[x] = data.ops[x]
  BY <1>2, <1>3, NewDataIs
<1>6. ChangesOnly(t, data, alive, service, expiry, data', alive', service', expiry')
  BY <1>2, <1>3, <1>5 DEF ChangesOnly
<1>7. service'[t] \in Services
  BY <1>2, <1>3
<1>8. World(queue, data', alive', service', expiry', status, deadline, shutdown)
  BY <1>1, <1>4, <1>5, <1>6, <1>7, ChangeWorld, Zenon
<1>9. World(queue, data, alive, service, expiry, status, deadline, shutdown)'
  BY <1>2, <1>8 DEF op_vars, reactor_vars
<1>10. TypeOK'
  BY <1>2, <1>3 DEF TypeOK, op_vars, reactor_vars
<1>11. FlagCoversWaits'
  BY <1>2, <1>3, <1>5 DEF IInv, FlagCoversWaits
<1>12. Sleep'
  <2>1. RootLater(queue, queue')
    BY <1>1, <1>2, RootLaterReflexive DEF World
  <2> QED BY <2>1, <1>2, <1>3, SleepKept DEF IInv, ClockStands, reactor_vars
<1> QED BY <1>2, <1>9, <1>10, <1>11, <1>12 DEF IInv, NobodySucceeds, op_vars

LEMMA CancelStepAll ==
  ASSUME IInv, NEW t \in Timers, cancel(t)
  PROVE  IInv' /\ NobodySucceeds
<1>1. /\ t \in alive /\ CancelWaits(t, AllOps)
      /\ might_have_pending_waits' = [might_have_pending_waits EXCEPT ![t] = FALSE]
      /\ UNCHANGED <<alive, service, expiry, now, reactor_vars>>
  BY DEF cancel
<1>2. AllOps \in Nat
  BY TimerServiceAssumption, FS_CardinalityType DEF AllOps
<1>3. CancelWaitsEffect(t, AllOps)
  BY <1>1, <1>2, CancelWaitsIs
<1>4. /\ World(queue', data', alive, service, expiry, status', deadline', shutdown)
      /\ RootLater(queue, queue')
      /\ \A x \in Timers : x # t => data'.ops[x] = data.ops[x]
      /\ data'.ops[t] = <<>>
      /\ status' \in [WaitOps -> {"fresh", "waiting", "success", "aborted", "posted",
                                  "destroyed"}]
      /\ deadline' \in [WaitOps -> Time]
      /\ NobodySucceeds
  BY <1>2, <1>3 DEF CancelWaitsEffect, NobodySucceeds
<1>5. World(queue, data, alive, service, expiry, status, deadline, shutdown)'
  BY <1>1, <1>4 DEF reactor_vars
<1>6. TypeOK'
  BY <1>1, <1>4 DEF IInv, TypeOK, reactor_vars
<1>7. FlagCoversWaits'
  BY <1>1, <1>4 DEF IInv, TypeOK, FlagCoversWaits
<1>8. Sleep'
  BY <1>1, <1>4, SleepKept DEF IInv, ClockStands, reactor_vars
<1> QED BY <1>4, <1>5, <1>6, <1>7, <1>8 DEF IInv

LEMMA CancelStepOne ==
  ASSUME IInv, NEW t \in Timers, cancel_one(t)
  PROVE  IInv' /\ NobodySucceeds
<1>1. /\ t \in alive /\ CancelWaits(t, 1)
      /\ might_have_pending_waits' = [might_have_pending_waits EXCEPT ![t] = FlagAfterOne(t)]
      /\ UNCHANGED <<alive, service, expiry, now, reactor_vars>>
  BY DEF cancel_one
<1>2. CancelWaitsEffect(t, 1)
  BY <1>1, CancelWaitsIs
<1>3. /\ World(queue', data', alive, service, expiry, status', deadline', shutdown)
      /\ RootLater(queue, queue')
      /\ \A x \in Timers : x # t => data'.ops[x] = data.ops[x]
      /\ ~FlagAfterOne(t) => data'.ops[t] = <<>>
      /\ status' \in [WaitOps -> {"fresh", "waiting", "success", "aborted", "posted",
                                  "destroyed"}]
      /\ deadline' \in [WaitOps -> Time]
      /\ NobodySucceeds
  BY <1>2 DEF CancelWaitsEffect, NobodySucceeds, FlagAfterOne
<1>4. FlagAfterOne(t) \in BOOLEAN
  BY DEF IInv, TypeOK, FlagAfterOne
<1>5. World(queue, data, alive, service, expiry, status, deadline, shutdown)'
  BY <1>1, <1>3 DEF reactor_vars
<1>6. TypeOK'
  <2>1. might_have_pending_waits' \in [Timers -> BOOLEAN]
    BY <1>1, <1>4 DEF IInv, TypeOK
  <2> QED BY <2>1, <1>1, <1>3 DEF IInv, TypeOK, reactor_vars
<1>7. FlagCoversWaits'
  <2>1. might_have_pending_waits \in [Timers -> BOOLEAN]
    BY DEF IInv, TypeOK
  <2>2. ASSUME NEW x \in Timers, data'.ops[x] # <<>> PROVE might_have_pending_waits'[x]
    <3>1. CASE x = t
      BY <3>1, <2>1, <2>2, <1>1, <1>3
    <3>2. CASE x # t
      BY <3>2, <2>1, <2>2, <1>1, <1>3 DEF IInv, FlagCoversWaits
    <3> QED BY <3>1, <3>2
  <2> QED BY <2>2 DEF FlagCoversWaits
<1>8. Sleep'
  BY <1>1, <1>3, SleepKept DEF IInv, ClockStands, reactor_vars
<1> QED BY <1>3, <1>5, <1>6, <1>7, <1>8 DEF IInv

LEMMA ExpiresStep ==
  ASSUME IInv, NEW t \in Timers, NEW e \in Time, expires_at(t, e)
  PROVE  IInv' /\ NobodySucceeds
<1>1. /\ t \in alive /\ CancelWaits(t, AllOps)
      /\ might_have_pending_waits' = [might_have_pending_waits EXCEPT ![t] = FALSE]
      /\ expiry' = [expiry EXCEPT ![t] = e]
      /\ UNCHANGED <<alive, service, now, reactor_vars>>
  BY DEF expires_at
<1>2. AllOps \in Nat
  BY TimerServiceAssumption, FS_CardinalityType DEF AllOps
<1>3. CancelWaitsEffect(t, AllOps)
  BY <1>1, <1>2, CancelWaitsIs
<1>4. /\ World(queue', data', alive, service, expiry, status', deadline', shutdown)
      /\ RootLater(queue, queue')
      /\ \A x \in Timers : x # t => data'.ops[x] = data.ops[x]
      /\ data'.ops[t] = <<>>
      /\ status' \in [WaitOps -> {"fresh", "waiting", "success", "aborted", "posted",
                                  "destroyed"}]
      /\ deadline' \in [WaitOps -> Time]
      /\ NobodySucceeds
  BY <1>2, <1>3 DEF CancelWaitsEffect, NobodySucceeds
<1>5. World(queue, data, alive, service, expiry, status, deadline, shutdown)'
  <2>1. \A x \in Timers \ {t} : expiry'[x] = expiry[x]
    BY <1>1 DEF IInv, TypeOK
  <2>2. /\ data' \in DataType /\ data'.next[t] = Nil /\ data'.prev[t] = Nil
        /\ data'.index[t] = NoIndex \/ StalePosition(t, alive, service, shutdown)
    BY <1>4 DEF World, Stored, IdleOK
  <2>3. ChangesOnly(t, data', alive, service, expiry, data', alive, service, expiry')
    BY <2>1, <2>2, <1>4 DEF ChangesOnly
  <2>4. service[t] \in Services
    BY <1>1, <1>4 DEF World, OwnersOK
  <2>5. World(queue', data', alive, service, expiry', status', deadline', shutdown)
    BY <2>2, <2>3, <2>4, <1>4, ChangeWorld, Zenon
  <2> QED BY <2>5, <1>1 DEF reactor_vars
<1>6. TypeOK'
  BY <1>1, <1>4 DEF IInv, TypeOK, reactor_vars
<1>7. FlagCoversWaits'
  BY <1>1, <1>4 DEF IInv, TypeOK, FlagCoversWaits
<1>8. Sleep'
  BY <1>1, <1>4, SleepKept DEF IInv, ClockStands, reactor_vars
<1> QED BY <1>4, <1>5, <1>6, <1>7, <1>8 DEF IInv

LEMMA DestroyStep ==
  ASSUME IInv, NEW t \in Timers, destroy(t)
  PROVE  IInv' /\ NobodySucceeds
<1>1. /\ t \in alive /\ alive' = alive \ {t} /\ CancelWaits(t, AllOps)
      /\ might_have_pending_waits' = [might_have_pending_waits EXCEPT ![t] = FALSE]
      /\ expiry' = [expiry EXCEPT ![t] = 0]
      /\ service' = [service EXCEPT ![t] = Nil]
      /\ UNCHANGED <<now, reactor_vars>>
  BY DEF destroy
<1>2. AllOps \in Nat
  BY TimerServiceAssumption, FS_CardinalityType DEF AllOps
<1>3. CancelWaitsEffect(t, AllOps)
  BY <1>1, <1>2, CancelWaitsIs
<1>4. /\ World(queue', data', alive, service, expiry, status', deadline', shutdown)
      /\ RootLater(queue, queue')
      /\ \A x \in Timers : x # t => data'.ops[x] = data.ops[x]
      /\ data'.ops[t] = <<>>
      /\ status' \in [WaitOps -> {"fresh", "waiting", "success", "aborted", "posted",
                                  "destroyed"}]
      /\ deadline' \in [WaitOps -> Time]
      /\ NobodySucceeds
  BY <1>2, <1>3 DEF CancelWaitsEffect, NobodySucceeds
<1>5. World(queue, data, alive, service, expiry, status, deadline, shutdown)'
  <2>1. \A x \in Timers \ {t} : /\ expiry'[x] = expiry[x] /\ service'[x] = service[x]
                                /\ x \in alive' <=> x \in alive
    BY <1>1 DEF IInv, TypeOK
  <2>2. /\ data' \in DataType /\ data'.next[t] = Nil /\ data'.prev[t] = Nil
        /\ data'.index[t] = NoIndex \/ StalePosition(t, alive, service, shutdown)
    BY <1>4 DEF World, Stored, IdleOK
  <2>3. ChangesOnly(t, data', alive, service, expiry, data', alive', service', expiry')
    BY <2>1, <2>2, <1>4 DEF ChangesOnly
  <2>4. t \notin alive' /\ service[t] \in Services
    BY <1>1, <1>4 DEF World, OwnersOK
  <2>5. data'.index[t] = NoIndex \/ StalePosition(t, alive', service', shutdown)
    BY <2>2, <2>4 DEF StalePosition
  <2>6. World(queue', data', alive', service', expiry', status', deadline', shutdown)
    BY <2>3, <2>4, <2>5, <1>4, ChangeWorld, Zenon
  <2> QED BY <2>6, <1>1 DEF reactor_vars
<1>6. TypeOK'
  <2>1. 0 \in Time
    BY TimerServiceAssumption DEF Time
  <2> QED BY <2>1, <1>1, <1>4 DEF IInv, TypeOK, reactor_vars
<1>7. FlagCoversWaits'
  BY <1>1, <1>4 DEF IInv, TypeOK, FlagCoversWaits
<1>8. Sleep'
  BY <1>1, <1>4, SleepKept DEF IInv, ClockStands, reactor_vars
<1> QED BY <1>4, <1>5, <1>6, <1>7, <1>8 DEF IInv

(* A timeout chosen for a queue: at the latest when the first timer is due, *)
(* and never at once when none is.                                          *)
LEMMA TimerfdValueIs ==
  ASSUME TypeOK, NEW q \in QueueType(WaitOps)
  PROVE  /\ TimerfdValue(q) \in Nat
         /\ q.heap # <<>> => TimerfdValue(q) <= Late(q.heap[1].time)
         /\ NothingDue(q, now) => TimerfdValue(q) > now
<1>1. now \in Nat /\ MaxWait \in Nat \ {0}
  BY TimerServiceAssumption DEF TypeOK, Time
<1>2. CASE q.heap = <<>>
  <2>1. TimerfdValue(q) = now + MaxWait
    BY <1>2 DEF TimerfdValue, wait_duration
  <2> QED BY <2>1, <1>1, <1>2
<1>3. CASE q.heap # <<>>
  <2>1. PICK h \in Seq(EntryType) : h = q.heap
    BY DEF QueueType
  <2>2. 1 \in 1..Len(h)
    BY <2>1, <1>3
  <2>3. PICK due \in Int : due = q.heap[1].time
    BY <2>1, <2>2, HeapTimes
  <2>4. TimerfdValue(q) = now + (IF due <= now THEN 0
                                 ELSE IF due - now > MaxWait THEN MaxWait ELSE due - now)
    BY <2>3, <1>3 DEF TimerfdValue, wait_duration
  <2>5. Late(q.heap[1].time) = IF due < now THEN now ELSE due
    BY <2>3 DEF Late
  <2>6. NothingDue(q, now) => due > now
    BY <2>3, <1>3 DEF NothingDue
  <2>7. PICK v : v = TimerfdValue(q)
    OBVIOUS
  <2>8. v \in Nat /\ v <= (IF due < now THEN now ELSE due) /\ (due > now => v > now)
    BY <2>4, <2>7, <1>1
  <2> QED BY <2>5, <2>6, <2>7, <2>8
<1> QED BY <1>2, <1>3

(* After shutdown the operation is posted, and nothing waits for it.        *)
LEMMA PostWait ==
  ASSUME IInv, NEW t \in Timers, NEW op \in WaitOps, async_wait(t, op), shutdown[service[t]]
  PROVE  IInv' /\ NobodySucceeds
<1>1. /\ t \in alive /\ status[op] = "fresh"
      /\ might_have_pending_waits' = [might_have_pending_waits EXCEPT ![t] = TRUE]
      /\ status' = [status EXCEPT ![op] = "posted"]
      /\ UNCHANGED <<queue, data, timerfd, interrupted, deadline>>
      /\ UNCHANGED <<alive, service, expiry, now, reactor, timeout, shutdown, has_timerfd>>
  BY DEF async_wait
<1>2. World(queue, data, alive, service, expiry, status, deadline, shutdown) /\ TypeOK
  BY DEF IInv
<1>3. \A o \in WaitOps : /\ status'[o] = "waiting" <=> status[o] = "waiting"
                         /\ status'[o] = "success" => status[o] = "success"
  BY <1>1, <1>2 DEF TypeOK
<1>4. WaitsOK(data, status', deadline, expiry)
  BY <1>2, <1>3 DEF World, WaitsOK
<1>5. World(queue, data, alive, service, expiry, status', deadline, shutdown)
  BY <1>2, <1>4 DEF World
<1>6. World(queue, data, alive, service, expiry, status, deadline, shutdown)'
  BY <1>1, <1>5
<1>7. TypeOK'
  BY <1>1, <1>2 DEF TypeOK
<1>8. FlagCoversWaits'
  BY <1>1, <1>2 DEF IInv, TypeOK, FlagCoversWaits
<1>9. Sleep'
  <2>1. RootLater(queue, queue')
    BY <1>1, <1>2, RootLaterReflexive DEF World
  <2> QED BY <2>1, <1>1, <1>2, SleepKept DEF IInv, ClockStands
<1> QED BY <1>3, <1>6, <1>7, <1>8, <1>9 DEF IInv, NobodySucceeds

LEMMA AddWait ==
  ASSUME IInv, NEW t \in Timers, NEW op \in WaitOps, async_wait(t, op), ~shutdown[service[t]]
  PROVE  IInv' /\ NobodySucceeds
<1>1. /\ t \in alive /\ status[op] = "fresh"
      /\ might_have_pending_waits' = [might_have_pending_waits EXCEPT ![t] = TRUE]
      /\ UNCHANGED <<alive, service, expiry, now, reactor, timeout, shutdown, has_timerfd>>
  BY DEF async_wait
<1>2. World(queue, data, alive, service, expiry, status, deadline, shutdown) /\ TypeOK
  BY DEF IInv
<1>3. PICK s \in Services : s = service[t] /\ ~shutdown[s]
  BY <1>1, <1>2 DEF World, OwnersOK
<1>4. PICK q, r : q = Whole(queue, data, s) /\ r = enqueue_timer(q, expiry[t], t, op)
  OBVIOUS
<1>5. /\ queue' = Put(queue, s, r) /\ data' = Links(r)
      /\ status' = [status EXCEPT ![op] = "waiting"]
      /\ deadline' = [deadline EXCEPT ![op] = expiry[t]]
      /\ IF Earliest(r, t, op) THEN update_timeout(s, r) ELSE UNCHANGED <<timerfd, interrupted>>
  BY <1>3, <1>4 DEF async_wait, SetQueue, Put, Q, Whole
<1>6. /\ QueueOK(WaitOps, q) /\ (t \notin InHeap(q) => Resting(q, t))
      /\ expiry[t] \in Time /\ expiry[t] \in Int
      /\ q.heap = queue[s].heap
  <2>1. QueueOK(WaitOps, q) /\ (t \notin InHeap(q) => Resting(q, t))
    BY <1>1, <1>2, <1>3, <1>4, WorldQueue
  <2>2. expiry[t] \in Time /\ expiry[t] \in Int
    BY <1>2 DEF TypeOK, Time
  <2>3. q.heap = queue[s].heap
    BY <1>2, <1>4, StoredWhole DEF World
  <2> QED BY <2>1, <2>2, <2>3
<1>7. EnqueueEffect(WaitOps, q, r, expiry[t], t, op)
  BY <1>4, <1>6, EnqueueIs
<1>8. Starts(status, deadline, op, expiry[t], status', deadline')
  BY <1>1, <1>2, <1>5 DEF Starts, TypeOK
<1>9. /\ World(Put(queue, s, r), Links(r), alive, service, expiry, status', deadline', shutdown)
      /\ Put(queue, s, r)[s].heap = r.heap
      /\ \A x \in Timers : x # t => Links(r).ops[x] = data.ops[x]
  <2>1. EnqueueStep(queue, data, expiry, status, deadline, t, op, s, r, status', deadline')
    BY <1>4, <1>7, <1>8 DEF EnqueueStep
  <2>2. service[t] = s /\ ~shutdown[s] /\ t \in alive
    BY <1>1, <1>3
  <2>3. World(queue, data, alive, service, expiry, status, deadline, shutdown)
    BY <1>2
  <2>4. /\ World(Put(queue, s, r), Links(r), alive, service, expiry, status', deadline', shutdown)
        /\ EnqueueLeaves(queue, data, t, s, r)
    BY <2>1, <2>2, <2>3, EnqueueWorld, Zenon
  <2> QED BY <2>4 DEF EnqueueLeaves
<1>10. World(queue, data, alive, service, expiry, status, deadline, shutdown)'
  BY <1>1, <1>5, <1>9
<1>11. r \in QueueType(WaitOps) /\ queue'[s].heap = r.heap
       /\ \A x \in Services : x # s => queue'[x] = queue[x]
  BY <1>2, <1>5, <1>7, <1>9 DEF EnqueueEffect, QueueOK, World, Stored, Put
<1>12. Earliest(r, t, op) =>
         IF has_timerfd THEN /\ timerfd' = [timerfd EXCEPT ![s] = TimerfdValue(r)]
                             /\ interrupted' = interrupted
         ELSE /\ interrupted' = [interrupted EXCEPT ![s] = TRUE]
              /\ timerfd' = timerfd
  BY <1>5 DEF update_timeout
<1>13. /\ timerfd \in [Services -> Nat \cup {Off}] /\ interrupted \in [Services -> BOOLEAN]
       /\ has_timerfd \in BOOLEAN /\ TimerfdValue(r) \in Nat
       /\ r.heap # <<>> => TimerfdValue(r) <= Late(r.heap[1].time)
  BY <1>2, <1>11, TimerfdValueIs DEF TypeOK
<1>14. TypeOK'
  <2>1. timerfd' \in [Services -> Nat \cup {Off}] /\ interrupted' \in [Services -> BOOLEAN]
    BY <1>5, <1>12, <1>13
  <2> QED BY <2>1, <1>1, <1>2, <1>5, <1>6 DEF TypeOK
<1>15. FlagCoversWaits'
  BY <1>1, <1>2, <1>5, <1>9 DEF IInv, TypeOK, FlagCoversWaits
<1>16. Sleep'
  <2> SUFFICES ASSUME NEW x \in Services, queue'[x].heap # <<>>
               PROVE  AwakeBy(x, queue[x].heap[1].time)'
    BY DEF Sleep
  <2>1. PICK due : due = queue'[x].heap[1].time
    OBVIOUS
  <2>2. CASE x = s /\ Earliest(r, t, op)
    <3>1. r.heap # <<>> /\ r.heap[1].time = due
      BY <2>1, <2>2, <1>11
    <3>2. has_timerfd => /\ timerfd'[s] = TimerfdValue(r) /\ TimerfdValue(r) # Off
                         /\ TimerfdValue(r) <= Late(due)
      BY <2>2, <3>1, <1>12, <1>13, TimerServiceAssumption
    <3>3. ~has_timerfd => interrupted'[s]
      BY <2>2, <1>12, <1>13
    <3>4. Late(due)' = Late(due)
      BY <1>1 DEF Late
    <3> QED BY <2>1, <2>2, <3>2, <3>3, <1>1 DEF AwakeBy, Late
  <2>3. CASE x # s \/ ~Earliest(r, t, op)
    <3>1. queue[x].heap # <<>> /\ queue[x].heap[1].time = due
      <4>1. CASE x # s
        BY <4>1, <2>1, <1>11
      <4>2. CASE x = s /\ ~Earliest(r, t, op)
        BY <4>2, <2>1, <1>6, <1>7, <1>11 DEF EnqueueEffect
      <4> QED BY <4>1, <4>2, <2>3
    <3>2. timerfd'[x] = timerfd[x] /\ interrupted'[x] = interrupted[x]
      <4>1. CASE Earliest(r, t, op)
        BY <4>1, <2>3, <1>12, <1>13
      <4>2. CASE ~Earliest(r, t, op)
        BY <4>2, <1>5
      <4> QED BY <4>1, <4>2
    <3>3. AwakeBy(x, due)
      BY <3>1 DEF IInv, Sleep
    <3> QED BY <2>1, <3>2, <3>3, <1>1 DEF AwakeBy, Late
  <2> QED BY <2>2, <2>3
<1>17. NobodySucceeds
  BY <1>2, <1>5 DEF NobodySucceeds, TypeOK
<1> QED BY <1>10, <1>14, <1>15, <1>16, <1>17 DEF IInv

LEMMA WaitStep ==
  ASSUME IInv, NEW t \in Timers, NEW op \in WaitOps, async_wait(t, op)
  PROVE  IInv' /\ NobodySucceeds
BY PostWait, AddWait

-----------------------------------------------------------------------------
(* The steps of the reactor.                                               *)

NoneEarly ==
  \A o \in WaitOps : status'[o] = "success" /\ status[o] # "success" => deadline[o] <= now

NoneBusy ==
  \A s \in Services :
    has_timerfd /\ reactor[s] = "check" /\ reactor'[s] = "idle" => timerfd'[s] > now

(* The steps of a reactor that leave queues and timers alone.               *)
LEMMA QueuesStand ==
  ASSUME IInv, UNCHANGED <<queue, data, timer_vars, op_vars, shutdown>>
  PROVE  /\ World(queue, data, alive, service, expiry, status, deadline, shutdown)'
         /\ FlagCoversWaits' /\ NobodySucceeds
<1>1. /\ UNCHANGED <<queue, data, alive, service, expiry, status, deadline, shutdown>>
      /\ UNCHANGED might_have_pending_waits
  BY DEF timer_vars, op_vars
<1>2. World(queue, data, alive, service, expiry, status, deadline, shutdown)
  BY DEF IInv
<1>3. World(queue, data, alive, service, expiry, status, deadline, shutdown)'
  BY <1>1, <1>2
<1> QED BY <1>1, <1>3 DEF IInv, FlagCoversWaits, NobodySucceeds

LEMMA EnterStep ==
  ASSUME IInv, NEW s \in Services, EnterWait(s)
  PROVE  IInv' /\ NobodySucceeds /\ NoneBusy
<1>1. /\ reactor[s] = "idle" /\ reactor' = [reactor EXCEPT ![s] = "waiting"]
      /\ timeout' = [timeout EXCEPT ![s] = IF has_timerfd THEN Off ELSE TimerfdValue(Q(s))]
      /\ UNCHANGED <<queue, data, timer_vars, op_vars, now, timerfd, interrupted, shutdown,
                     has_timerfd>>
  BY DEF EnterWait
<1>2. TypeOK /\ World(queue, data, alive, service, expiry, status, deadline, shutdown)
  BY DEF IInv
<1>3. PICK q \in QueueType(WaitOps) : q = Q(s) /\ q.heap = queue[s].heap
  BY <1>2, StoredWhole DEF Q, Whole, World
<1>4. PICK v : v = TimerfdValue(q) /\ v \in Nat /\ (q.heap # <<>> => v <= Late(q.heap[1].time))
  BY <1>2, TimerfdValueIs
<1>5. v # Off
  BY <1>4, TimerServiceAssumption
<1>6. timeout'[s] = IF has_timerfd THEN Off ELSE v
  BY <1>1, <1>2, <1>3, <1>4 DEF TypeOK
<1>7. TypeOK'
  <2>1. timeout' \in [Services -> Nat \cup {Off}]
    BY <1>1, <1>2, <1>3, <1>4 DEF TypeOK
  <2> QED BY <2>1, <1>1, <1>2 DEF TypeOK, timer_vars, op_vars
<1>8. Sleep'
  <2> SUFFICES ASSUME NEW x \in Services, queue'[x].heap # <<>>
               PROVE  AwakeBy(x, queue[x].heap[1].time)'
    BY DEF Sleep
  <2>1. PICK due : due = queue[x].heap[1].time
    OBVIOUS
  <2>2. AwakeBy(x, due)
    BY <2>1, <1>1 DEF IInv, Sleep
  <2>3. CASE x = s
    <3>1. ~has_timerfd => timeout'[s] # Off /\ timeout'[s] <= Late(due)
      BY <2>1, <2>3, <1>1, <1>3, <1>4, <1>5, <1>6
    <3> QED BY <2>1, <2>2, <2>3, <3>1, <1>1 DEF AwakeBy, Late
  <2>4. CASE x # s
    <3>1. reactor'[x] = reactor[x] /\ timeout'[x] = timeout[x]
      BY <2>4, <1>1, <1>2 DEF TypeOK
    <3> QED BY <2>1, <2>2, <3>1, <1>1 DEF AwakeBy, Late
  <2> QED BY <2>3, <2>4
<1>9. NoneBusy
  BY <1>1, <1>2 DEF NoneBusy, TypeOK
<1> QED BY <1>1, <1>7, <1>8, <1>9, QueuesStand DEF IInv

(* Wake and WakeForIo: the reactor stops to wait.                           *)
WakesUp(s) ==
  /\ reactor[s] = "waiting" /\ timeout' = [timeout EXCEPT ![s] = Off]
  /\ \E state \in {"idle", "check"} : reactor' = [reactor EXCEPT ![s] = state]
  /\ interrupted' \in [Services -> BOOLEAN]
  /\ \A x \in Services : x # s => interrupted'[x] = interrupted[x]
  /\ UNCHANGED <<queue, data, timer_vars, op_vars, now, timerfd, shutdown, has_timerfd>>

LEMMA WakesUpStep ==
  ASSUME IInv, NEW s \in Services, WakesUp(s)
  PROVE  IInv' /\ NobodySucceeds /\ NoneBusy
<1>1. PICK state \in {"idle", "check"} :
        /\ reactor[s] = "waiting" /\ timeout' = [timeout EXCEPT ![s] = Off]
        /\ reactor' = [reactor EXCEPT ![s] = state]
        /\ interrupted' \in [Services -> BOOLEAN]
        /\ \A x \in Services : x # s => interrupted'[x] = interrupted[x]
        /\ UNCHANGED <<queue, data, timer_vars, op_vars, now, timerfd, shutdown, has_timerfd>>
  BY DEF WakesUp
<1>2. TypeOK
  BY DEF IInv
<1>3. TypeOK'
  BY <1>1, <1>2 DEF TypeOK, timer_vars, op_vars
<1>4. Sleep'
  <2> SUFFICES ASSUME NEW x \in Services, queue'[x].heap # <<>>
               PROVE  AwakeBy(x, queue[x].heap[1].time)'
    BY DEF Sleep
  <2>1. AwakeBy(x, queue[x].heap[1].time)
    BY <1>1 DEF IInv, Sleep
  <2>2. reactor'[s] # "waiting"
    BY <1>1, <1>2 DEF TypeOK
  <2>3. CASE x = s
    BY <2>1, <2>2, <2>3, <1>1 DEF AwakeBy, Late
  <2>4. CASE x # s
    <3>1. /\ reactor'[x] = reactor[x] /\ timeout'[x] = timeout[x]
          /\ interrupted'[x] = interrupted[x]
      BY <2>4, <1>1, <1>2 DEF TypeOK
    <3> QED BY <2>1, <3>1, <1>1 DEF AwakeBy, Late
  <2> QED BY <2>3, <2>4
<1>5. NoneBusy
  BY <1>1, <1>2 DEF NoneBusy, TypeOK
<1> QED BY <1>1, <1>3, <1>4, <1>5, QueuesStand DEF IInv

LEMMA WakeStep ==
  ASSUME IInv, NEW s \in Services, Wake(s) \/ WakeForIo(s)
  PROVE  IInv' /\ NobodySucceeds /\ NoneBusy
<1>1. WakesUp(s)
  <2>1. interrupted \in [Services -> BOOLEAN]
    BY DEF IInv, TypeOK
  <2>2. CASE Wake(s)
    BY <2>1, <2>2 DEF Wake, WakesUp
  <2>3. CASE WakeForIo(s)
    BY <2>1, <2>3 DEF WakeForIo, WakesUp
  <2> QED BY <2>2, <2>3
<1> QED BY <1>1, WakesUpStep

LEMMA TickStep ==
  ASSUME IInv, Tick
  PROVE  IInv' /\ NobodySucceeds /\ NoneBusy
<1>1. /\ now < MaxTime /\ now' = now + 1
      /\ UNCHANGED <<queue, data, timer_vars, op_vars, reactor_vars>>
  BY DEF Tick
<1>2. TypeOK /\ World(queue, data, alive, service, expiry, status, deadline, shutdown)
  BY DEF IInv
<1>3. TypeOK'
  BY <1>1, <1>2, TimerServiceAssumption DEF TypeOK, Time, timer_vars, op_vars, reactor_vars
<1>4. Sleep'
  <2> SUFFICES ASSUME NEW x \in Services, queue'[x].heap # <<>>
               PROVE  AwakeBy(x, queue[x].heap[1].time)'
    BY DEF Sleep
  <2>1. PICK due \in Int : due = queue[x].heap[1].time
    BY <1>1, <1>2, RootTimes DEF World
  <2>2. AwakeBy(x, due)
    BY <2>1, <1>1 DEF IInv, Sleep
  <2>3. \A n \in Nat : n <= Late(due) => n <= Late(due)'
    BY <1>1, <1>2 DEF Late, TypeOK, Time
  <2>4. timerfd[x] \in Nat \cup {Off} /\ timeout[x] \in Nat \cup {Off}
    BY <1>2 DEF TypeOK
  <2>5. UNCHANGED <<queue, has_timerfd, timerfd, reactor, interrupted, timeout>>
    BY <1>1 DEF reactor_vars
  <2>6. AwakeBy(x, due)'
    BY <2>2, <2>3, <2>4, <2>5 DEF AwakeBy
  <2>7. AwakeBy(x, queue[x].heap[1].time)' <=> AwakeBy(x, due)'
    BY <2>1, <2>5 DEF AwakeBy, Late
  <2> QED BY <2>6, <2>7
<1>5. NoneBusy
  BY <1>1 DEF NoneBusy, reactor_vars
<1> QED BY <1>1, <1>3, <1>4, <1>5, QueuesStand DEF IInv, reactor_vars

(* get_ready_timers at the end of run(): the waits that were due succeed,   *)
(* and the timerfd is set past now, for what is left.                       *)
LEMMA CheckStep ==
  ASSUME IInv, NEW s \in Services, CheckTimers(s)
  PROVE  IInv' /\ NoneEarly /\ NoneBusy
<1>1. PICK q, ready : q = Whole(queue, data, s) /\ ready = Ready(q, now)
  OBVIOUS
<1>2. /\ reactor[s] = "check" /\ reactor' = [reactor EXCEPT ![s] = "idle"]
      /\ SetQueue(s, ready.q) /\ Complete(ready.ops, "success") /\ Rearm(s, ready.q)
      /\ UNCHANGED <<timer_vars, now, timeout, interrupted, shutdown, has_timerfd>>
  BY <1>1 DEF CheckTimers, Q, Whole
<1>3. TypeOK /\ World(queue, data, alive, service, expiry, status, deadline, shutdown)
  BY DEF IInv
<1>4. /\ QueueOK(WaitOps, q) /\ HasOps(q) /\ q \in QueueType(WaitOps)
      /\ q.heap = queue[s].heap /\ q.ops = data.ops
  BY <1>1, <1>3, WorldQueue, StoredWhole DEF World, QueueOK
<1>5. now \in Int
  BY <1>3 DEF TypeOK, Time
<1>6. PICK r, w : ready = [q |-> r, ops |-> w] /\ ReadySoFar(WaitOps, q, r, w, now)
                  /\ NothingDue(r, now)
  <2>1. ReadyEffect(WaitOps, q, ready, now)
    BY <1>1, <1>4, <1>5, ReadyIs
  <2> QED BY <2>1, Zenon DEF ReadyEffect
<1>7. /\ TakeEffect(WaitOps, q, r) /\ IndexReset(q, r)
      /\ \A t \in Timers : t \in InHeap(r) \/ t \notin InHeap(q) => r.ops[t] = q.ops[t]
      /\ \A o : o \in ToSet(w) <=> \E t \in InHeap(q) \ InHeap(r) : o \in ToSet(q.ops[t])
      /\ \A e \in Entries(q) : e.timer \notin InHeap(r) => e.time <= now
  BY <1>6 DEF ReadySoFar
<1>8. /\ queue' = Put(queue, s, r) /\ data' = Links(r) /\ Complete(w, "success")
      /\ timerfd' = IF has_timerfd THEN [timerfd EXCEPT ![s] = TimerfdValue(r)] ELSE timerfd
  BY <1>2, <1>6 DEF SetQueue, Put, Rearm
<1>9. /\ Completes(status, deadline, ToSet(w), status', deadline')
      /\ status' \in [WaitOps -> {"fresh", "waiting", "success", "aborted", "posted",
                                  "destroyed"}]
      /\ deadline' \in [WaitOps -> Time]
      /\ \A o \in WaitOps : status'[o] = "success" =>
           status[o] = "success" \/ o \in ToSet(w)
  BY <1>3, <1>8, CompleteIs
<1>10. TakenFrom(q, r, ToSet(w))
  <2>1. InHeap(q) \subseteq Timers
    BY <1>4, InHeapTimers
  <2>2. \A t \in InHeap(q) \ InHeap(r) : \A o : o \notin ToSet(r.ops[t])
    <3>1. \A t \in InHeap(q) \ InHeap(r) : r.ops[t] = <<>>
      BY <1>7 DEF TakeEffect, Resting
    <3>2. ToSet(<<>>) = {}
      BY DEF ToSet
    <3> QED BY <3>1, <3>2
  <2>3. ASSUME NEW o, o \in ToSet(w)
        PROVE  \E t \in Timers : o \in ToSet(q.ops[t]) /\ o \notin ToSet(r.ops[t])
    BY <2>1, <2>2, <2>3, <1>7
  <2>4. ASSUME NEW o, NEW t \in Timers, o \in ToSet(q.ops[t]), o \notin ToSet(r.ops[t])
        PROVE  o \in ToSet(w)
    BY <2>4, <1>7
  <2> QED BY <2>3, <2>4 DEF TakenFrom
<1>11. PositionsOK(q, r, s, shutdown, shutdown) /\ shutdown \in [Services -> BOOLEAN]
  BY <1>3, <1>7 DEF PositionsOK, TypeOK
<1>12. /\ World(Put(queue, s, r), Links(r), alive, service, expiry, status', deadline', shutdown)
       /\ Put(queue, s, r)[s].heap = r.heap
       /\ Links(r).ops = r.ops
  <2>1. World(queue, data, alive, service, expiry, status, deadline, shutdown)
    BY <1>3
  <2>2. TakeStep(queue, data, s, r, ToSet(w), shutdown, shutdown)
    BY <1>1, <1>7, <1>10, <1>11 DEF TakeStep
  <2>3. Completes(status, deadline, ToSet(w), status', deadline')
    BY <1>9
  <2>4. shutdown \in [Services -> BOOLEAN]
    BY <1>11
  <2>5. /\ World(Put(queue, s, r), Links(r), alive, service, expiry, status', deadline', shutdown)
        /\ TakeLeaves(queue, s, r)
    BY <2>1, <2>2, <2>3, <2>4, TakeWorld, Zenon
  <2> QED BY <2>5 DEF TakeLeaves
<1>13. World(queue, data, alive, service, expiry, status, deadline, shutdown)'
  BY <1>2, <1>8, <1>12 DEF timer_vars
<1>14. /\ r \in QueueType(WaitOps) /\ TimerfdValue(r) \in Nat /\ TimerfdValue(r) > now
       /\ r.heap # <<>> => TimerfdValue(r) <= Late(r.heap[1].time)
  <2>1. r \in QueueType(WaitOps)
    BY <1>7 DEF TakeEffect, QueueOK
  <2> QED BY <2>1, <1>3, <1>6, TimerfdValueIs
<1>15. timerfd \in [Services -> Nat \cup {Off}] /\ has_timerfd \in BOOLEAN
       /\ reactor \in [Services -> {"idle", "waiting", "check"}]
  BY <1>3 DEF TypeOK
<1>16. TypeOK'
  <2>1. timerfd' \in [Services -> Nat \cup {Off}]
    BY <1>8, <1>14, <1>15
  <2> QED BY <2>1, <1>2, <1>3, <1>9 DEF TypeOK, timer_vars
<1>17. FlagCoversWaits'
  <2>1. \A t \in Timers : data'.ops[t] # <<>> => data.ops[t] # <<>>
    <3>1. \A t \in Timers : t \in InHeap(q) => q.ops[t] # <<>>
      BY <1>4 DEF HasOps
    <3> QED BY <3>1, <1>4, <1>7, <1>8, <1>12
  <2> QED BY <2>1, <1>2 DEF IInv, FlagCoversWaits, timer_vars
<1>18. Sleep'
  <2> SUFFICES ASSUME NEW x \in Services, queue'[x].heap # <<>>
               PROVE  AwakeBy(x, queue[x].heap[1].time)'
    BY DEF Sleep
  <2>1. PICK due : due = queue'[x].heap[1].time
    OBVIOUS
  <2>2. CASE x = s
    <3>1. r.heap # <<>> /\ r.heap[1].time = due
      BY <2>1, <2>2, <1>8, <1>12
    <3>2. reactor'[s] = "idle"
      BY <1>2, <1>15
    <3>3. has_timerfd => /\ timerfd'[s] = TimerfdValue(r) /\ TimerfdValue(r) # Off
                         /\ TimerfdValue(r) <= Late(due)
      BY <3>1, <1>8, <1>14, <1>15, TimerServiceAssumption
    <3> QED BY <2>1, <2>2, <3>2, <3>3, <1>2 DEF AwakeBy, Late
  <2>3. CASE x # s
    <3>1. /\ queue'[x] = queue[x] /\ reactor'[x] = reactor[x]
          /\ timerfd'[x] = timerfd[x]
      BY <2>3, <1>2, <1>3, <1>8, <1>15 DEF World, Stored, Put
    <3>2. AwakeBy(x, due)
      BY <2>1, <3>1 DEF IInv, Sleep
    <3> QED BY <2>1, <3>1, <3>2, <1>2 DEF AwakeBy, Late
  <2> QED BY <2>2, <2>3
<1>19. NoneEarly
  <2> SUFFICES ASSUME NEW o \in WaitOps, o \in ToSet(w) PROVE deadline[o] <= now
    BY <1>9 DEF NoneEarly
  <2>1. PICK t \in InHeap(q) \ InHeap(r) : o \in ToSet(q.ops[t])
    BY <1>7
  <2>2. PICK e \in Entries(q) : e.timer = t
    BY <2>1, InHeapIs
  <2>3. e.time <= now /\ e.time = expiry[t]
    BY <2>1, <2>2, <1>1, <1>3, <1>7 DEF World, TimesOK
  <2>4. t \in Timers /\ deadline[o] = expiry[t]
    BY <2>1, <1>3, <1>4, InHeapTimers DEF World, WaitsOK
  <2> QED BY <2>3, <2>4
<1>20. NoneBusy
  BY <1>2, <1>8, <1>14, <1>15 DEF NoneBusy
<1> QED BY <1>13, <1>16, <1>17, <1>18, <1>19, <1>20 DEF IInv

LEMMA ShutdownStep ==
  ASSUME IInv, NEW s \in Services, Shutdown(s)
  PROVE  IInv' /\ NobodySucceeds /\ NoneBusy
<1>1. PICK q, r : q = Whole(queue, data, s) /\ r = get_all_timers(q)
  OBVIOUS
<1>2. TypeOK /\ World(queue, data, alive, service, expiry, status, deadline, shutdown)
  BY DEF IInv
<1>3. /\ QueueOK(WaitOps, q) /\ HasOps(q) /\ q \in QueueType(WaitOps) /\ q.ops = data.ops
  BY <1>1, <1>2, WorldQueue, StoredWhole DEF World, QueueOK
<1>4. Active(q) = InHeap(q) /\ InHeap(q) \subseteq Timers
  BY <1>3, ActiveInHeap, InHeapTimers
<1>5. PICK W : W = {o \in WaitOps : \E t \in InHeap(q) : o \in ToSet(q.ops[t])}
  OBVIOUS
<1>6. /\ shutdown' = [shutdown EXCEPT ![s] = TRUE]
      /\ queue' = Put(queue, s, r) /\ data' = Links(r)
      /\ status' = [o \in WaitOps |-> IF o \in W THEN "destroyed" ELSE status[o]]
      /\ deadline' = [o \in WaitOps |-> IF status'[o] = "destroyed" THEN 0 ELSE deadline[o]]
      /\ UNCHANGED <<timer_vars, now, reactor, timerfd, timeout, interrupted, has_timerfd>>
  BY <1>1, <1>3, <1>4, <1>5 DEF Shutdown, SetQueue, Put, Q, Whole
<1>7. /\ TakeEffect(WaitOps, q, r) /\ InHeap(r) = {}
      /\ \A t \in Timers : r.ops[t] = IF t \in InHeap(q) THEN <<>> ELSE q.ops[t]
  BY <1>1, <1>3, GetAllIs DEF GetAllEffect
<1>8. TakenFrom(q, r, W)
  <2>1. ToSet(<<>>) = {}
    BY DEF ToSet
  <2>2. \A t \in Timers : \A o \in ToSet(q.ops[t]) : o \in WaitOps
    BY <1>2, <1>3 DEF World, WaitsOK
  <2>3. \A t \in InHeap(q) : \A o : o \notin ToSet(r.ops[t])
    BY <2>1, <1>4, <1>7
  <2>4. ASSUME NEW o, o \in W
        PROVE  \E t \in Timers : o \in ToSet(q.ops[t]) /\ o \notin ToSet(r.ops[t])
    BY <2>3, <2>4, <1>4, <1>5
  <2>5. ASSUME NEW o, NEW t \in Timers, o \in ToSet(q.ops[t]), o \notin ToSet(r.ops[t])
        PROVE  o \in W
    BY <2>2, <2>5, <1>5, <1>7
  <2> QED BY <2>4, <2>5 DEF TakenFrom
<1>9. Completes(status, deadline, W, status', deadline')
  BY <1>6 DEF Completes
<1>10. shutdown \in [Services -> BOOLEAN]
  BY <1>2 DEF TypeOK
<1>11. /\ World(Put(queue, s, r), Links(r), alive, service, expiry, status', deadline', shutdown')
       /\ TakeLeaves(queue, s, r)
  <2>1. World(queue, data, alive, service, expiry, status, deadline, shutdown)
    BY <1>2
  <2>2. PositionsOK(q, r, s, shutdown, shutdown')
    BY <1>6, <1>7 DEF PositionsOK
  <2>3. TakeStep(queue, data, s, r, W, shutdown, shutdown')
    BY <2>2, <1>1, <1>7, <1>8 DEF TakeStep
  <2> QED BY <2>1, <2>3, <1>9, <1>10, TakeWorld, Zenon
<1>12. World(queue, data, alive, service, expiry, status, deadline, shutdown)'
  BY <1>6, <1>11 DEF timer_vars
<1>13. TypeOK'
  <2>1. 0 \in Time
    BY TimerServiceAssumption DEF Time
  <2>2. status' \in [WaitOps -> {"fresh", "waiting", "success", "aborted", "posted",
                                 "destroyed"}]
        /\ deadline' \in [WaitOps -> Time]
    BY <2>1, <1>2, <1>6 DEF TypeOK
  <2>3. shutdown' \in [Services -> BOOLEAN]
    BY <1>6, <1>10
  <2> QED BY <2>2, <2>3, <1>2, <1>6 DEF TypeOK, timer_vars
<1>14. FlagCoversWaits'
  <2>1. \A t \in Timers : data'.ops[t] # <<>> => data.ops[t] # <<>>
    BY <1>3, <1>6, <1>7, <1>11 DEF TakeLeaves
  <2> QED BY <2>1, <1>6 DEF IInv, FlagCoversWaits, timer_vars
<1>15. Sleep'
  <2>1. RootLater(queue, Put(queue, s, r))
    BY <1>1, <1>2, <1>3, <1>7, TakeLater DEF World
  <2> QED BY <2>1, <1>2, <1>6, SleepKept DEF IInv, ClockStands
<1>16. NobodySucceeds /\ NoneBusy
  BY <1>6 DEF NobodySucceeds, NoneBusy
<1> QED BY <1>12, <1>13, <1>14, <1>15, <1>16 DEF IInv

-----------------------------------------------------------------------------
(* The moves.                                                              *)

(* What both moves do to a world in which nobody waits for the target, and  *)
(* what it means for the reactor.                                           *)
MoveLeaves(qu, d, target, source, s, r) ==
  MovedOps(d, Links(r), target, source) /\ RootLater(qu, Put(qu, s, r))

LEMMA MoveOn ==
  ASSUME NEW qu, NEW d, NEW al, NEW sv, NEW ex, NEW st, NEW dl, NEW sh,
         World(qu, d, al, sv, ex, st, dl, sh),
         NEW target \in Timers, d.ops[target] = <<>>,
         NEW source \in Timers, source \in al, NEW s \in Services, sv[source] = s,
         NEW r, r = move_timer(Whole(qu, d, s), target, source),
         NEW al1, NEW sv1, NEW ex1, Moved(target, source, al, sv, ex, al1, sv1, ex1)
  PROVE  /\ World(Put(qu, s, r), Links(r), al1, sv1, ex1, st, dl, sh)
         /\ MoveLeaves(qu, d, target, source, s, r)
<1>1. /\ World(Put(qu, s, r), Links(r), al1, sv1, ex1, st, dl, sh)
      /\ MovedOps(d, Links(r), target, source)
      /\ Put(qu, s, r)[s].heap # <<>>
           => qu[s].heap # <<>> /\ Put(qu, s, r)[s].heap[1].time = qu[s].heap[1].time
  BY MoveWorld
<1>2. PICK qu1, d1 : qu1 = Put(qu, s, r) /\ d1 = Links(r)
  OBVIOUS
<1>3. Stored(qu, d) /\ Stored(qu1, d1)
  BY <1>1, <1>2 DEF World
<1>4. \A x \in Services : x # s => qu1[x] = qu[x]
  BY <1>2, <1>3 DEF Put, Stored
<1>5. RootLater(qu, qu) /\ RootLater(qu1, qu1)
  BY <1>3, RootLaterReflexive
<1>6. ASSUME NEW x \in Services, qu1[x].heap # <<>>
      PROVE  /\ qu[x].heap # <<>> /\ qu[x].heap[1].time \in Int /\ qu1[x].heap[1].time \in Int
             /\ qu[x].heap[1].time <= qu1[x].heap[1].time
  <2>1. qu[x].heap # <<>> /\ qu1[x].heap[1].time = qu[x].heap[1].time
    <3>1. CASE x = s
      BY <3>1, <1>1, <1>2, <1>6
    <3>2. CASE x # s
      BY <3>2, <1>4, <1>6
    <3> QED BY <3>1, <3>2
  <2> QED BY <2>1, <1>5 DEF RootLater
<1>7. RootLater(qu, qu1)
  BY <1>6 DEF RootLater
<1> QED BY <1>1, <1>2, <1>7 DEF MoveLeaves

(* Cancelling when nobody waits changes nothing.                            *)
LEMMA CancelNothing ==
  ASSUME NEW q, QueueOK(WaitOps, q), NEW t \in Timers, t \notin InHeap(q), Resting(q, t),
         NEW m
  PROVE  cancel_timer(q, t, m) = q
<1>1. ~Linked(q, t)
  BY LinkedIs DEF Resting, Unlinked
<1>2. Cancelled(q, t, m) = <<>>
  BY <1>1 DEF Cancelled
<1>3. q \in QueueType(WaitOps) /\ q.ops[t] = <<>>
  BY DEF QueueOK, Resting
<1>4. SubSeq(q.ops[t], Len(<<>>) + 1, Len(q.ops[t])) = <<>>
  BY <1>3
<1>5. [q EXCEPT !.ops[t] = <<>>] = q
  BY <1>3 DEF QueueType
<1> DEFINE rest == [q EXCEPT !.ops[t] = SubSeq(@, Len(Cancelled(q, t, m)) + 1, Len(@))]
<1>6. rest = [q EXCEPT !.ops[t] = SubSeq(q.ops[t], Len(<<>>) + 1, Len(q.ops[t]))]
  BY <1>2
<1>7. rest = q
  BY <1>4, <1>5, <1>6
<1>8. cancel_timer(q, t, m) = IF Linked(q, t) /\ rest.ops[t] = <<>> THEN remove_timer(rest, t)
                              ELSE rest
  BY DEF cancel_timer
<1> QED BY <1>1, <1>7, <1>8

(* Nobody waits for the target any more when the source's waits are moved.  *)
LEMMA MoveWaitsIs ==
  ASSUME NEW qu, NEW d, NEW al, NEW sv, NEW ex, NEW st, NEW dl, NEW sh,
         World(qu, d, al, sv, ex, st, dl, sh),
         NEW target \in Timers, d.ops[target] = <<>>, NEW source, NEW s \in Services
  PROVE  MoveWaits(Whole(qu, d, s), target, source) = move_timer(Whole(qu, d, s), target, source)
<1>1. PICK q : q = Whole(qu, d, s)
  OBVIOUS
<1>2. QueueOK(WaitOps, q) /\ target \notin InHeap(q) /\ Resting(q, target)
  BY <1>1, WorldQueue
<1>3. cancel_timer(q, target, AllOps) = q
  BY <1>2, CancelNothing
<1> QED BY <1>1, <1>3 DEF MoveWaits

LEMMA MoveFlags ==
  ASSUME TypeOK, FlagCoversWaits, NEW target \in Timers, NEW source \in Timers,
         MoveFields(target, source), NEW d, MovedOps(d, data', target, source),
         \A x \in Timers : x # target => d.ops[x] = data.ops[x]
  PROVE  FlagCoversWaits'
<1>1. /\ might_have_pending_waits' =
           [might_have_pending_waits EXCEPT ![target] = might_have_pending_waits[source],
                                            ![source] = FALSE]
      /\ might_have_pending_waits \in [Timers -> BOOLEAN]
  BY DEF MoveFields, TypeOK
<1>2. /\ data'.ops[source] = <<>>
      /\ target # source => data'.ops[target] = d.ops[source]
      /\ \A x \in Timers \ {source, target} : data'.ops[x] = d.ops[x]
  BY DEF MovedOps
<1>3. ASSUME NEW x \in Timers, data'.ops[x] # <<>> PROVE might_have_pending_waits'[x]
  <2>1. CASE x = source
    BY <2>1, <1>2, <1>3
  <2>2. CASE x = target /\ target # source
    <3>1. might_have_pending_waits[source]
      BY <2>2, <1>2, <1>3 DEF FlagCoversWaits
    <3>2. might_have_pending_waits'[target] = might_have_pending_waits[source]
      BY <2>2, <1>1
    <3> QED BY <2>2, <3>1, <3>2
  <2>3. CASE x \in Timers \ {source, target}
    <3>1. might_have_pending_waits[x]
      BY <2>3, <1>2, <1>3 DEF FlagCoversWaits
    <3>2. might_have_pending_waits'[x] = might_have_pending_waits[x]
      BY <2>3, <1>1
    <3> QED BY <3>1, <3>2
  <2> QED BY <2>1, <2>2, <2>3
<1> QED BY <1>3 DEF FlagCoversWaits

LEMMA MoveFieldsAreMoved ==
  ASSUME TypeOK, NEW target \in Timers, NEW source \in Timers, MoveFields(target, source),
         alive' = alive \cup {target}
  PROVE  /\ Moved(target, source, alive, service, expiry, alive', service', expiry')
         /\ service' \in [Timers -> Services \cup {Nil}] /\ expiry' \in [Timers -> Time]
         /\ might_have_pending_waits' \in [Timers -> BOOLEAN]
         /\ UNCHANGED <<now, reactor, has_timerfd, timerfd, timeout, interrupted, shutdown>>
<1>1. 0 \in Time
  BY TimerServiceAssumption DEF Time
<1>2. /\ service' = [service EXCEPT ![target] = service[source]]
      /\ expiry' = [expiry EXCEPT ![target] = expiry[source], ![source] = 0]
      /\ might_have_pending_waits' =
           [might_have_pending_waits EXCEPT ![target] = might_have_pending_waits[source],
                                            ![source] = FALSE]
      /\ UNCHANGED <<now, reactor, has_timerfd, timerfd, timeout, interrupted, shutdown>>
  BY DEF MoveFields, reactor_vars
<1>3. /\ service \in [Timers -> Services \cup {Nil}] /\ expiry \in [Timers -> Time]
      /\ might_have_pending_waits \in [Timers -> BOOLEAN]
  BY DEF TypeOK
<1>4. Moved(target, source, alive, service, expiry, alive', service', expiry')
  BY <1>2, <1>3 DEF Moved
<1>5. expiry' \in [Timers -> Time] /\ might_have_pending_waits' \in [Timers -> BOOLEAN]
  BY <1>1, <1>2, <1>3
<1> QED BY <1>2, <1>3, <1>4, <1>5

LEMMA MoveConstructStep ==
  ASSUME IInv, NEW target \in Timers, NEW source \in Timers, move_construct(target, source)
  PROVE  IInv' /\ NobodySucceeds
<1>1. TypeOK /\ World(queue, data, alive, service, expiry, status, deadline, shutdown)
  BY DEF IInv
<1>2. /\ target \notin alive /\ source \in alive /\ alive' = alive \cup {target}
      /\ MoveFields(target, source) /\ UNCHANGED <<status, deadline>>
  BY DEF move_construct, op_vars
<1>3. PICK s \in Services : service[source] = s
  BY <1>1, <1>2 DEF World, OwnersOK
<1>4. PICK d : d = NewData(data, target)
  OBVIOUS
<1>5. /\ d \in DataType
      /\ d.next[target] = Nil /\ d.prev[target] = Nil /\ d.index[target] = NoIndex
      /\ d.ops[target] = <<>>
      /\ \A x \in Timers \ {target} : /\ d.next[x] = data.next[x] /\ d.prev[x] = data.prev[x]
                                      /\ d.index[x] = data.index[x] /\ d.ops[x] = data.ops[x]
  BY <1>1, <1>4, NewDataIs DEF World, Stored
<1>6. World(queue, d, alive, service, expiry, status, deadline, shutdown)
  <2>1. ChangesOnly(target, data, alive, service, expiry, d, alive, service, expiry)
    BY <1>5 DEF ChangesOnly
  <2>2. data.ops[target] = <<>>
    BY <1>1, <1>2 DEF World, OwnersOK
  <2>3. World(queue, data, alive, service, expiry, status, deadline, shutdown)
    BY <1>1
  <2>4. target \in alive => service[target] \in Services
    BY <1>2
  <2>5. d.index[target] = NoIndex \/ StalePosition(target, alive, service, shutdown)
    BY <1>5
  <2> QED BY <2>1, <2>2, <2>3, <2>4, <2>5, ChangeWorld, Zenon
<1>7. PICK r : r = move_timer(Whole(queue, d, s), target, source)
  OBVIOUS
<1>8. queue' = Put(queue, s, r) /\ data' = Links(r)
  <2>1. MoveWaits(Whole(queue, d, s), target, source) = r
    BY <1>5, <1>6, <1>7, MoveWaitsIs, Zenon
  <2> QED BY <2>1, <1>3, <1>4 DEF move_construct, SetQueue, Put, Whole
<1>9. /\ Moved(target, source, alive, service, expiry, alive', service', expiry')
      /\ service' \in [Timers -> Services \cup {Nil}] /\ expiry' \in [Timers -> Time]
      /\ might_have_pending_waits' \in [Timers -> BOOLEAN]
      /\ UNCHANGED <<now, reactor, has_timerfd, timerfd, timeout, interrupted, shutdown>>
  BY <1>1, <1>2, MoveFieldsAreMoved
<1>10. /\ World(Put(queue, s, r), Links(r), alive', service', expiry', status, deadline, shutdown)
       /\ MoveLeaves(queue, d, target, source, s, r)
  <2>1. Moved(target, source, alive, service, expiry, alive', service', expiry')
    BY <1>9
  <2>2. d.ops[target] = <<>> /\ source \in alive
    BY <1>2, <1>5
  <2> QED BY <2>1, <2>2, <1>3, <1>6, <1>7, MoveOn, Zenon
<1>11. MovedOps(d, data', target, source) /\ RootLater(queue, queue')
  BY <1>8, <1>10 DEF MoveLeaves
<1>12. World(queue, data, alive, service, expiry, status, deadline, shutdown)'
  BY <1>2, <1>8, <1>9, <1>10
<1>13. TypeOK'
  BY <1>1, <1>2, <1>9 DEF TypeOK
<1>14. FlagCoversWaits'
  <2>1. \A x \in Timers : x # target => d.ops[x] = data.ops[x]
    BY <1>5
  <2> QED BY <2>1, <1>1, <1>2, <1>11, MoveFlags DEF IInv
<1>15. Sleep'
  BY <1>1, <1>9, <1>11, SleepKept DEF IInv, ClockStands
<1> QED BY <1>2, <1>12, <1>13, <1>14, <1>15 DEF IInv, NobodySucceeds

(* The target's waits are cancelled in its own queue, when it may have any. *)
AssignCancels(target, source) ==
  service[target] = service[source] \/ might_have_pending_waits[target]

AssignLeft(target, source) ==
  IF AssignCancels(target, source) THEN cancel_timer(Q(service[target]), target, AllOps)
  ELSE Q(service[target])

AssignCancelled(target, source) ==
  IF AssignCancels(target, source) THEN Cancelled(Q(service[target]), target, AllOps) ELSE <<>>

AssignCancelEffect(target, source, s, qu1, d1) ==
  /\ qu1 = Put(queue, s, AssignLeft(target, source))
  /\ d1 = Links(AssignLeft(target, source))
  /\ World(qu1, d1, alive, service, expiry, status', deadline', shutdown)
  /\ RootLater(queue, qu1)
  /\ d1.ops[target] = <<>> /\ \A x \in Timers : x # target => d1.ops[x] = data.ops[x]

LEMMA AssignCancelIs ==
  ASSUME IInv, NEW target \in Timers, target \in alive, NEW source \in Timers,
         NEW s \in Services, service[target] = s,
         Complete(AssignCancelled(target, source), "aborted")
  PROVE  \E qu1, d1 : AssignCancelEffect(target, source, s, qu1, d1)
<1>1. TypeOK /\ World(queue, data, alive, service, expiry, status, deadline, shutdown)
  BY DEF IInv
<1>2. PICK r, w : r = AssignLeft(target, source) /\ w = AssignCancelled(target, source)
  OBVIOUS
<1>3. Completes(status, deadline, ToSet(w), status', deadline')
  BY <1>1, <1>2, CompleteIs
<1>4. CASE AssignCancels(target, source)
  <2>1. CancelStep(queue, data, s, target, AllOps, r, w)
    BY <1>2, <1>4 DEF CancelStep, AssignLeft, AssignCancelled, Q, Whole
  <2>2. AllOps \in Nat
    BY TimerServiceAssumption, FS_CardinalityType DEF AllOps
  <2>3. shutdown \in [Services -> BOOLEAN]
    BY <1>1 DEF TypeOK
  <2>4. World(queue, data, alive, service, expiry, status, deadline, shutdown)
    BY <1>1
  <2>5. /\ World(Put(queue, s, r), Links(r), alive, service, expiry, status', deadline', shutdown)
        /\ CancelLeaves(queue, data, s, target, AllOps, r, w)
    BY <2>1, <2>2, <2>3, <2>4, <1>3, CancelWorld, Zenon
  <2>6. AssignCancelEffect(target, source, s, Put(queue, s, r), Links(r))
    BY <2>2, <2>5, <1>2 DEF AssignCancelEffect, CancelLeaves
  <2> QED BY <2>6
<1>5. CASE ~AssignCancels(target, source)
  <2>1. r = Whole(queue, data, s) /\ w = <<>> /\ ~might_have_pending_waits[target]
    BY <1>2, <1>5 DEF AssignLeft, AssignCancelled, AssignCancels, Q, Whole
  <2>2. Roots(r) = queue[s] /\ Links(r) = data /\ Stored(queue, data)
    BY <2>1, <1>1, StoredWhole DEF World
  <2>3. Put(queue, s, r) = queue
    BY <2>2 DEF Put, Stored
  <2>4. ToSet(w) = {}
    BY <2>1 DEF ToSet
  <2>5. \A o \in WaitOps : /\ status'[o] = status[o]
                           /\ status[o] = "waiting" => deadline'[o] = deadline[o]
    BY <2>4, <1>3 DEF Completes
  <2>6. \A t \in Timers : \A o \in ToSet(data.ops[t]) :
          o \in WaitOps /\ status[o] = "waiting" /\ deadline[o] = expiry[t]
    BY <1>1 DEF World, WaitsOK
  <2>7. WaitsOK(data, status', deadline', expiry)
    <3>1. \A t \in Timers : \A o \in ToSet(data.ops[t]) :
            o \in WaitOps /\ status'[o] = "waiting" /\ deadline'[o] = expiry[t]
      BY <2>5, <2>6
    <3>2. \A o \in WaitOps : status'[o] = "waiting" => \E t \in Timers : o \in ToSet(data.ops[t])
      BY <2>5, <1>1 DEF World, WaitsOK
    <3> QED BY <3>1, <3>2, <1>1 DEF World, WaitsOK
  <2>8. World(queue, data, alive, service, expiry, status', deadline', shutdown)
    BY <2>7, <1>1 DEF World
  <2>9. data.ops[target] = <<>>
    BY <2>1 DEF IInv, FlagCoversWaits
  <2>10. RootLater(queue, queue)
    BY <2>2, RootLaterReflexive
  <2>11. AssignCancelEffect(target, source, s, queue, data)
    BY <2>2, <2>3, <2>8, <2>9, <2>10, <1>2 DEF AssignCancelEffect
  <2> QED BY <2>11
<1> QED BY <1>4, <1>5

LEMMA MoveAssignStep ==
  ASSUME IInv, NEW target \in Timers, NEW source \in Timers, move_assign(target, source)
  PROVE  IInv' /\ NobodySucceeds
<1>1. TypeOK /\ World(queue, data, alive, service, expiry, status, deadline, shutdown)
  BY DEF IInv
<1>2. /\ target \in alive /\ source \in alive /\ UNCHANGED alive
      /\ MoveFields(target, source)
      /\ Complete(AssignCancelled(target, source), "aborted")
  BY DEF move_assign, AssignCancelled, AssignCancels
<1>3. PICK ts \in Services, ss \in Services : service[target] = ts /\ service[source] = ss
  BY <1>1, <1>2 DEF World, OwnersOK
<1>4. PICK qu1, d1 : AssignCancelEffect(target, source, ts, qu1, d1)
  BY <1>2, <1>3, AssignCancelIs, Zenon
<1>5. PICK left : left = AssignLeft(target, source)
  OBVIOUS
<1>6. /\ qu1 = Put(queue, ts, left) /\ d1 = Links(left)
      /\ RootLater(queue, qu1)
      /\ d1.ops[target] = <<>> /\ \A x \in Timers : x # target => d1.ops[x] = data.ops[x]
  BY <1>4, <1>5 DEF AssignCancelEffect
<1>7. World(qu1, d1, alive, service, expiry, status', deadline', shutdown)
  BY <1>4 DEF AssignCancelEffect
<1>8. PICK r : r = move_timer(Whole(qu1, d1, ss), target, source)
  OBVIOUS
<1>9. MoveWaits(Whole(qu1, d1, ss), target, source) = r
  <2>1. d1.ops[target] = <<>>
    BY <1>6
  <2>2. MoveWaits(Whole(qu1, d1, ss), target, source)
          = move_timer(Whole(qu1, d1, ss), target, source)
    BY <2>1, <1>7, MoveWaitsIs, Zenon
  <2> QED BY <2>2, <1>8
<1>10. queue' = Put(qu1, ss, r) /\ data' = Links(r)
  <2>1. queue \in [Services -> RootsType]
    BY <1>1 DEF World, Stored
  <2>2. qu1[ss] = IF ts = ss THEN Roots(left) ELSE queue[ss]
    BY <2>1, <1>6 DEF Put
  <2>3. Whole(qu1, d1, ss) = WithLinks(IF ts = ss THEN Roots(left) ELSE queue[ss], Links(left))
    BY <2>2, <1>6 DEF Whole
  <2>a. PICK moved :
          moved = MoveWaits(WithLinks(IF service[target] = service[source]
                                      THEN Roots(left) ELSE queue[service[source]],
                                      Links(left)), target, source)
    OBVIOUS
  <2>b. moved = r
    BY <2>3, <2>a, <1>3, <1>9
  <2>c. left = IF service[target] = service[source] \/ might_have_pending_waits[target]
               THEN cancel_timer(Q(service[target]), target, AllOps) ELSE Q(service[target])
    BY <1>5 DEF AssignLeft, AssignCancels
  <2>d. /\ queue' = [queue EXCEPT ![service[target]] = Roots(left),
                                  ![service[source]] = Roots(moved)]
        /\ data' = Links(moved)
    BY <2>a, <2>c DEF move_assign
  <2>4. /\ queue' = [queue EXCEPT ![ts] = Roots(left), ![ss] = Roots(r)]
        /\ data' = Links(r)
    BY <2>b, <2>d, <1>3
  <2> QED BY <2>1, <2>4, <1>6 DEF Put
<1>11. /\ Moved(target, source, alive, service, expiry, alive', service', expiry')
       /\ service' \in [Timers -> Services \cup {Nil}] /\ expiry' \in [Timers -> Time]
       /\ might_have_pending_waits' \in [Timers -> BOOLEAN]
       /\ UNCHANGED <<now, reactor, has_timerfd, timerfd, timeout, interrupted, shutdown>>
  <2>1. alive' = alive \cup {target}
    BY <1>2
  <2> QED BY <2>1, <1>1, <1>2, MoveFieldsAreMoved
<1>12. /\ World(Put(qu1, ss, r), Links(r), alive', service', expiry', status', deadline', shutdown)
       /\ MoveLeaves(qu1, d1, target, source, ss, r)
  <2>1. Moved(target, source, alive, service, expiry, alive', service', expiry')
    BY <1>11
  <2>2. d1.ops[target] = <<>> /\ source \in alive /\ service[source] = ss
    BY <1>2, <1>3, <1>6
  <2> QED BY <2>1, <2>2, <1>7, <1>8, MoveOn, Zenon
<1>13. /\ status' \in [WaitOps -> {"fresh", "waiting", "success", "aborted", "posted",
                                   "destroyed"}]
       /\ deadline' \in [WaitOps -> Time]
       /\ \A o \in WaitOps : status'[o] = "success" => status[o] = "success"
  BY <1>1, <1>2, CompleteIs
<1>14. MovedOps(d1, data', target, source) /\ RootLater(queue, queue')
  <2>1. RootLater(qu1, queue') /\ MovedOps(d1, data', target, source)
    BY <1>10, <1>12 DEF MoveLeaves
  <2> QED BY <2>1, <1>6, RootLaterTransitive
<1>15. World(queue, data, alive, service, expiry, status, deadline, shutdown)'
  BY <1>10, <1>11, <1>12
<1>16. TypeOK'
  BY <1>1, <1>2, <1>11, <1>13 DEF TypeOK
<1>17. FlagCoversWaits'
  BY <1>1, <1>2, <1>6, <1>14, MoveFlags DEF IInv
<1>18. Sleep'
  BY <1>1, <1>11, <1>14, SleepKept DEF IInv, ClockStands
<1> QED BY <1>13, <1>15, <1>16, <1>17, <1>18 DEF IInv, NobodySucceeds

-----------------------------------------------------------------------------
(* The invariant.                                                          *)

LEMMA InitInv ==
  ASSUME Init
  PROVE  IInv
<1>1. PICK q : q = EmptyQueue
  OBVIOUS
<1>2. /\ QueueOK(WaitOps, q) /\ InHeap(q) = {} /\ Entries(q) = {} /\ q \in QueueType(WaitOps)
      /\ \A t \in Timers : /\ q.next[t] = Nil /\ q.prev[t] = Nil
                           /\ q.index[t] = NoIndex /\ q.ops[t] = <<>>
      /\ q.heap = <<>>
  <2>1. \A t \in Timers : /\ q.next[t] = Nil /\ q.prev[t] = Nil
                          /\ q.index[t] = NoIndex /\ q.ops[t] = <<>>
    BY <1>1 DEF EmptyQueue
  <2>2. q.heap = <<>>
    BY <1>1 DEF EmptyQueue
  <2> QED BY <2>1, <2>2, <1>1, EmptyQueueIs DEF QueueOK
<1>3. /\ queue = [s \in Services |-> Roots(q)] /\ data = Links(q)
      /\ alive = {} /\ service = [t \in Timers |-> Nil]
      /\ expiry = [t \in Timers |-> 0]
      /\ might_have_pending_waits = [t \in Timers |-> FALSE]
      /\ status = [o \in WaitOps |-> "fresh"]
      /\ deadline = [o \in WaitOps |-> 0]
      /\ now = 0
      /\ reactor = [s \in Services |-> "idle"]
      /\ has_timerfd \in HasTimerfd
      /\ timerfd = [s \in Services |-> Off]
      /\ timeout = [s \in Services |-> Off]
      /\ interrupted = [s \in Services |-> TRUE]
      /\ shutdown = [s \in Services |-> FALSE]
  BY <1>1 DEF Init
<1>4. TypeOK
  BY <1>3, TimerServiceAssumption DEF TypeOK, Time
<1>5. /\ Roots(q) \in RootsType /\ data \in DataType /\ WithLinks(Roots(q), data) = q
      /\ Roots(q).heap = <<>>
      /\ \A t \in Timers : /\ data.next[t] = Nil /\ data.prev[t] = Nil
                           /\ data.index[t] = NoIndex /\ data.ops[t] = <<>>
  BY <1>2, <1>3, PartsOf
<1>6. \A s \in Services : Whole(queue, data, s) = q /\ queue[s].heap = <<>>
  BY <1>3, <1>5 DEF Whole
<1>7. Stored(queue, data)
  BY <1>3, <1>5 DEF Stored
<1>8. QueuesOK(queue, data, alive, service)
  BY <1>2, <1>3, <1>6 DEF QueuesOK, Waited
<1>9. /\ OwnersOK(data, alive, service, shutdown) /\ IdleOK(data, alive, service, shutdown)
      /\ TimesOK(queue, data, expiry)
  BY <1>2, <1>3, <1>5, <1>6 DEF OwnersOK, IdleOK, TimesOK
<1>10. WaitsOK(data, status, deadline, expiry)
  <2>1. ToSet(<<>>) = {} /\ Distinct(<<>>)
    BY DEF ToSet, Distinct
  <2>2. \A o \in WaitOps : status[o] # "waiting"
    BY <1>3
  <2> QED BY <2>1, <2>2, <1>5 DEF WaitsOK
<1>11. FlagCoversWaits /\ Sleep
  BY <1>5, <1>6 DEF FlagCoversWaits, Sleep
<1> QED BY <1>4, <1>7, <1>8, <1>9, <1>10, <1>11 DEF IInv, World

LEMMA TimerCallStep ==
  ASSUME IInv, NEW t \in Timers, TimerCall(t)
  PROVE  IInv' /\ NobodySucceeds
<1>1. CASE \E s \in Services : construct(t, s)
  BY <1>1, ConstructStep
<1>2. CASE cancel(t)
  BY <1>2, CancelStepAll
<1>3. CASE cancel_one(t)
  BY <1>3, CancelStepOne
<1>4. CASE destroy(t)
  BY <1>4, DestroyStep
<1>5. CASE \E e \in Time : expires_at(t, e)
  BY <1>5, ExpiresStep
<1>6. CASE \E op \in WaitOps : async_wait(t, op)
  BY <1>6, WaitStep
<1>7. CASE \E source \in Timers : move_construct(t, source) \/ move_assign(t, source)
  BY <1>7, MoveConstructStep, MoveAssignStep
<1> QED BY <1>1, <1>2, <1>3, <1>4, <1>5, <1>6, <1>7 DEF TimerCall

(* A call on a timer is not a step of a reactor.                            *)
LEMMA CallsAndReactors ==
  ASSUME IInv, NEW t \in Timers, TimerCall(t)
  PROVE  UNCHANGED reactor
<1>1. \A s \in Services : construct(t, s) => UNCHANGED reactor
  BY DEF construct, reactor_vars
<1>2. cancel(t) \/ cancel_one(t) \/ destroy(t) => UNCHANGED reactor
  BY DEF cancel, cancel_one, destroy, reactor_vars
<1>3. \A e \in Time : expires_at(t, e) => UNCHANGED reactor
  BY DEF expires_at, reactor_vars
<1>4. \A op \in WaitOps : async_wait(t, op) => UNCHANGED reactor
  BY DEF async_wait
<1>5. \A source \in Timers :
        move_construct(t, source) \/ move_assign(t, source) => UNCHANGED reactor
  BY DEF move_construct, move_assign, MoveFields, reactor_vars
<1> QED BY <1>1, <1>2, <1>3, <1>4, <1>5 DEF TimerCall

LEMMA Step ==
  ASSUME IInv, Next
  PROVE  IInv' /\ NoneEarly /\ NoneBusy
<1>1. NobodySucceeds => NoneEarly
  BY DEF NobodySucceeds, NoneEarly
<1>2. ASSUME NEW t \in Timers, TimerCall(t) PROVE IInv' /\ NoneEarly /\ NoneBusy
  <2>1. UNCHANGED reactor => NoneBusy
    BY DEF NoneBusy
  <2> QED BY <2>1, <1>1, <1>2, TimerCallStep, CallsAndReactors
<1>3. ASSUME NEW s \in Services, ReactorStep(s) \/ WakeForIo(s) \/ Shutdown(s)
      PROVE  IInv' /\ NoneEarly /\ NoneBusy
  <2>1. CASE EnterWait(s)
    BY <2>1, <1>1, EnterStep
  <2>2. CASE Wake(s) \/ WakeForIo(s)
    BY <2>2, <1>1, WakeStep
  <2>3. CASE CheckTimers(s)
    BY <2>3, CheckStep
  <2>4. CASE Shutdown(s)
    BY <2>4, <1>1, ShutdownStep
  <2> QED BY <2>1, <2>2, <2>3, <2>4, <1>3 DEF ReactorStep
<1>4. CASE Tick
  BY <1>4, <1>1, TickStep
<1> QED BY <1>2, <1>3, <1>4 DEF Next

LEMMA Stutter ==
  ASSUME IInv, UNCHANGED vars
  PROVE  IInv'
<1>1. /\ UNCHANGED <<queue, data, alive, service, expiry, might_have_pending_waits>>
      /\ UNCHANGED <<status, deadline, now, reactor, has_timerfd, timerfd, timeout>>
      /\ UNCHANGED <<interrupted, shutdown>>
  BY DEF vars, timer_vars, op_vars, reactor_vars
<1>2. World(queue, data, alive, service, expiry, status, deadline, shutdown)'
  BY <1>1 DEF IInv
<1>3. TypeOK' /\ FlagCoversWaits'
  BY <1>1 DEF IInv, TypeOK, FlagCoversWaits
<1>4. Sleep'
  BY <1>1 DEF IInv, Sleep, AwakeBy, Late
<1> QED BY <1>2, <1>3, <1>4 DEF IInv

LEMMA Invariant == Spec => []IInv
<1>1. IInv /\ [Next]_vars => IInv'
  BY Step, Stutter
<1> QED BY <1>1, InitInv, PTL DEF Spec

-----------------------------------------------------------------------------
(* What the invariant says.                                                *)

(* Every field keeps the type of its declaration. *)
THEOREM TimerTypeCorrect == Spec => []TypeOK
<1>1. IInv => TypeOK
  BY DEF IInv
<1> QED BY <1>1, Invariant, PTL

(* The timers of a queue.                                                  *)
LEMMA ActiveWaited ==
  ASSUME IInv, NEW s \in Services
  PROVE  Active(Q(s)) = Waited(data, alive, service, s)
<1>1. World(queue, data, alive, service, expiry, status, deadline, shutdown)
  BY DEF IInv
<1>2. PICK q : q = Whole(queue, data, s) /\ q = Q(s)
  BY DEF Q, Whole
<1>3. QueueOK(WaitOps, q) /\ InHeap(q) = Waited(data, alive, service, s)
  BY <1>1, <1>2 DEF World, QueuesOK
<1> QED BY <1>2, <1>3, ActiveInHeap

LEMMA QueueMatches ==
  ASSUME IInv, NEW s \in Services
  PROVE  HeapOrdered(Q(s)) /\ Indexed(Q(s)) /\ ListMatches(Q(s))
<1>1. World(queue, data, alive, service, expiry, status, deadline, shutdown)
  BY DEF IInv
<1>2. PICK q : q = Whole(queue, data, s) /\ q = Q(s)
  BY DEF Q, Whole
<1>3. /\ QueueOK(WaitOps, q) /\ HeapOrdered(q) /\ Indexed(q) /\ HasOps(q)
      /\ q \in QueueType(WaitOps)
  <2>1. QueueOK(WaitOps, Whole(queue, data, s)) /\ HasOps(Whole(queue, data, s))
    BY <1>1, WorldQueue, Zenon
  <2> QED BY <2>1, <1>2 DEF QueueOK
<1>4. Active(q) = InHeap(q) /\ Cardinality(Active(q)) = Len(q.heap)
  BY <1>3, ActiveInHeap, HeapCardinality
<1>5. ListMatches(q)
  BY <1>3, <1>4, ActiveInHeap DEF ListMatches, HasOps
<1> QED BY <1>2, <1>3, <1>5

(* What get_ready_timers takes out, whenever it is called.                  *)
LEMMA DueFollows ==
  ASSUME IInv
  PROVE  DueInOrder
<1> SUFFICES ASSUME NEW s \in Services, NEW late \in Time, NEW w, w = ReadyOps(Q(s), late),
                    NEW due, due = {o \in WaitOps :
                      /\ status[o] = "waiting" /\ deadline[o] <= late
                      /\ \E x \in alive : service[x] = s /\ o \in ToSet(data.ops[x])}
             PROVE  ToSet(w) = due /\ \A i \in 2 .. Len(w) : deadline[w[i - 1]] <= deadline[w[i]]
  BY DEF DueInOrder
<1>1. World(queue, data, alive, service, expiry, status, deadline, shutdown)
      /\ alive \subseteq Timers /\ late \in Int
  BY DEF IInv, TypeOK, Time
<1>2. PICK q : q = Whole(queue, data, s) /\ q = Q(s) /\ q.ops = data.ops
  BY <1>1, StoredWhole DEF Q, Whole, World
<1>3. QueueOK(WaitOps, q) /\ HasOps(q) /\ q \in QueueType(WaitOps)
  <2>1. QueueOK(WaitOps, Whole(queue, data, s)) /\ HasOps(Whole(queue, data, s))
    BY <1>1, WorldQueue, Zenon
  <2> QED BY <1>2, <2>1 DEF QueueOK
<1>4. InHeap(q) = Waited(data, alive, service, s) /\ \A e \in Entries(q) : e.time = expiry[e.timer]
  BY <1>1, <1>2 DEF World, QueuesOK, TimesOK
<1>5. PICK r : ReadySoFar(WaitOps, q, r, w, late) /\ NothingDue(r, late)
  BY <1>1, <1>2, <1>3, ReadyIs DEF ReadyEffect, ReadyOps
<1>6. /\ \A o : o \in ToSet(w) <=> \E x \in InHeap(q) \ InHeap(r) : o \in ToSet(data.ops[x])
      /\ \A e \in Entries(q) : e.timer \notin InHeap(r) => e.time <= late
      /\ Entries(r) \subseteq Entries(q) /\ QueueOK(WaitOps, r) /\ w \in Seq(WaitOps)
      /\ InOrder(q, r, w)
  BY <1>2, <1>5 DEF ReadySoFar, TakeEffect
<1>7. \A x \in Timers : \A o \in ToSet(data.ops[x]) :
        o \in WaitOps /\ status[o] = "waiting" /\ deadline[o] = expiry[x]
  BY <1>1 DEF World, WaitsOK
<1>8. ASSUME NEW o \in ToSet(w) PROVE o \in due
  <2>1. PICK x \in InHeap(q) \ InHeap(r) : o \in ToSet(data.ops[x])
    BY <1>6
  <2>2. x \in Timers /\ x \in alive /\ service[x] = s
    BY <1>4, <2>1 DEF Waited
  <2>3. PICK e \in Entries(q) : e.timer = x
    BY <2>1, InHeapIs
  <2>4. e.time <= late /\ e.time = expiry[x]
    BY <1>4, <1>6, <2>1, <2>3
  <2> QED BY <1>7, <2>1, <2>2, <2>4
<1>9. ASSUME NEW o \in due PROVE o \in ToSet(w)
  <2>1. PICK x \in alive : service[x] = s /\ o \in ToSet(data.ops[x])
    OBVIOUS
  <2>2. x \in Timers /\ data.ops[x] # <<>>
    BY <1>1, <2>1 DEF ToSet
  <2>3. x \in InHeap(q)
    BY <1>4, <2>1, <2>2 DEF Waited
  <2>4. x \notin InHeap(r)
    <3> SUFFICES ASSUME x \in InHeap(r) PROVE FALSE
      OBVIOUS
    <3>1. PICK e \in Entries(r) : e.timer = x
      BY InHeapIs
    <3>2. e.time = deadline[o] /\ e.time <= late /\ e.time \in Int
      <4>1. e \in Entries(q) /\ e \in EntryType
        BY <1>3, <1>6, <3>1, InHeapTimers
      <4> QED BY <1>4, <1>7, <2>1, <2>2, <3>1, <4>1 DEF EntryType
    <3>3. r \in QueueType(WaitOps) /\ r.heap[1].time <= e.time
      BY <1>6, RootLeast DEF QueueOK
    <3>4. r.heap # <<>>
      BY <3>1 DEF Entries
    <3>5. r.heap[1].time > late /\ r.heap[1].time \in Int
      <4>1. PICK h \in Seq(EntryType) : h = r.heap
        BY <3>3 DEF QueueType
      <4>2. h[1] \in EntryType
        BY <3>4, <4>1
      <4> QED BY <1>5, <3>4, <4>1, <4>2 DEF NothingDue, EntryType
    <3> QED BY <1>1, <3>2, <3>3, <3>5
  <2> QED BY <1>6, <2>1, <2>3, <2>4
<1>10. ASSUME NEW i \in 2 .. Len(w) PROVE deadline[w[i - 1]] <= deadline[w[i]]
  <2>1. i - 1 \in 1 .. Len(w) /\ i \in 1 .. Len(w) /\ i - 1 \in 1 .. i
    BY <1>6
  <2>2. PICK g \in [1 .. Len(w) -> Entries(q)] :
          \A j \in 1 .. Len(w) : /\ w[j] \in ToSet(q.ops[g[j].timer])
                                 /\ \A k \in 1 .. j : g[k].time <= g[j].time
    BY <1>6 DEF InOrder
  <2>3. ASSUME NEW j \in 1 .. Len(w) PROVE deadline[w[j]] = g[j].time
    <3>1. g[j] \in Entries(q) /\ g[j] \in EntryType
      BY <1>3, InHeapTimers
    <3>2. g[j].timer \in Timers /\ g[j].time = expiry[g[j].timer]
      BY <1>4, <3>1 DEF EntryType
    <3> QED BY <1>2, <1>7, <2>2, <3>2
  <2> QED BY <2>1, <2>2, <2>3
<1> QED BY <1>8, <1>9, <1>10

(* Heap, positions and list of every queue agree, whatever was enqueued,    *)
(* cancelled, moved or taken out: remove_timer, up_heap and down_heap keep  *)
(* heap_index_ right, expires_at() never leaves an entry with the old       *)
(* expiry behind, and get_ready_timers takes what is due, the first due     *)
(* first.                                                                   *)
THEOREM QueuesStayConsistent == Spec => []QueuesConsistent
<1>1. ASSUME IInv PROVE QueuesConsistent
  <2>1. World(queue, data, alive, service, expiry, status, deadline, shutdown)
    BY <1>1 DEF IInv
  <2>2. HeapTimeIsExpiry
    <3> SUFFICES ASSUME NEW s \in Services, NEW i \in 1..Len(queue[s].heap)
                 PROVE  /\ queue[s].heap[i].time = expiry[queue[s].heap[i].timer]
                        /\ \A o \in ToSet(data.ops[queue[s].heap[i].timer]) :
                             deadline[o] = queue[s].heap[i].time
      BY DEF HeapTimeIsExpiry
    <3>1. PICK q : q = Whole(queue, data, s) /\ q.heap = queue[s].heap
                   /\ q \in QueueType(WaitOps)
      BY <2>1, StoredWhole DEF World
    <3>2. PICK e : e = queue[s].heap[i]
      OBVIOUS
    <3>3. e \in Entries(q)
      BY <3>1, <3>2 DEF Entries
    <3>4. e.time = expiry[e.timer]
      BY <3>1, <3>3, <2>1 DEF World, TimesOK
    <3>5. e.timer \in Timers
      BY <3>1, <3>3, InHeapIs, InHeapTimers
    <3>6. \A o \in ToSet(data.ops[e.timer]) : deadline[o] = expiry[e.timer]
      BY <3>5, <2>1 DEF World, WaitsOK
    <3> QED BY <3>2, <3>4, <3>6
  <2>3. \A s \in Services : HeapOrdered(Q(s)) /\ Indexed(Q(s)) /\ ListMatches(Q(s))
    BY <1>1, QueueMatches
  <2>4. ASSUME NEW s \in Services, NEW t \in Timers, data.ops[t] = <<>>,
               \A x \in Services : ~shutdown[x]
        PROVE  Idle(Q(s), t)
    <3>1. PICK q : /\ q = Whole(queue, data, s) /\ q = Q(s)
                   /\ q.next = data.next /\ q.prev = data.prev /\ q.index = data.index
      BY <2>1, StoredWhole DEF World, Q, Whole
    <3>2. QueueOK(WaitOps, q) /\ t \notin InHeap(q)
      BY <3>1, <2>1, <2>4 DEF World, QueuesOK, Waited
    <3>3. data.next[t] = Nil /\ data.prev[t] = Nil /\ data.index[t] = NoIndex
      BY <2>1, <2>4 DEF World, OwnersOK, IdleOK, StalePosition
    <3>4. ~Linked(q, t)
      BY <3>1, <3>2, <3>3, LinkedIs
    <3> QED BY <3>1, <3>3, <3>4 DEF Idle
  <2> QED BY <1>1, <2>2, <2>3, <2>4, DueFollows DEF QueuesConsistent
<1> QED BY <1>1, Invariant, PTL

(* No queue points to a timer object that is gone, or that was moved to     *)
(* another io_context: the destructor and both moves take it out.           *)
THEOREM NoTimerDangles == Spec => []NoDanglingTimer
<1>1. ASSUME IInv PROVE NoDanglingTimer
  BY <1>1, ActiveWaited DEF NoDanglingTimer, Waited
<1> QED BY <1>1, Invariant, PTL

(* A wait operation is with one timer, and in one queue, exactly as long as *)
(* it waits: neither a move nor a cancellation loses or doubles it.         *)
THEOREM EveryWaitIsOnce == Spec => []WaitingOnce
<1>1. ASSUME IInv PROVE WaitingOnce
  <2> SUFFICES ASSUME NEW o \in WaitOps
               PROVE  Cardinality({t \in Timers : o \in ToSet(data.ops[t])
                                       /\ \E s \in Services : t \in Active(Q(s))})
                        = (IF status[o] = "waiting" THEN 1 ELSE 0)
    BY DEF WaitingOnce
  <2>1. World(queue, data, alive, service, expiry, status, deadline, shutdown)
    BY <1>1 DEF IInv
  <2>2. \A t \in Timers : o \in ToSet(data.ops[t]) => \E s \in Services : t \in Active(Q(s))
    <3> SUFFICES ASSUME NEW t \in Timers, o \in ToSet(data.ops[t])
                 PROVE  \E s \in Services : t \in Active(Q(s))
      OBVIOUS
    <3>1. data.ops[t] # <<>>
      <4>1. ToSet(<<>>) = {}
        BY DEF ToSet
      <4> QED BY <4>1
    <3>2. t \in alive /\ service[t] \in Services
      BY <3>1, <2>1 DEF World, OwnersOK
    <3>3. t \in Waited(data, alive, service, service[t])
      BY <3>1, <3>2 DEF Waited
    <3> QED BY <3>2, <3>3, <1>1, ActiveWaited
  <2>3. PICK X : X = {t \in Timers : o \in ToSet(data.ops[t])
                                     /\ \E s \in Services : t \in Active(Q(s))}
    OBVIOUS
  <2>4. X = {t \in Timers : o \in ToSet(data.ops[t])}
    BY <2>2, <2>3
  <2>5. CASE status[o] = "waiting"
    <3>1. PICK t \in Timers : o \in ToSet(data.ops[t])
      BY <2>1, <2>5 DEF World, WaitsOK
    <3>2. X = {t}
      BY <3>1, <2>1, <2>4 DEF World, WaitsOK
    <3> QED BY <3>2, <2>3, <2>5, FS_Singleton
  <2>6. CASE status[o] # "waiting"
    <3>1. X = {}
      BY <2>1, <2>4, <2>6 DEF World, WaitsOK
    <3> QED BY <3>1, <2>3, <2>6, FS_EmptySet
  <2> QED BY <2>5, <2>6
<1> QED BY <1>1, Invariant, PTL

(* cancel() and the destructor may skip the queue when                      *)
(* might_have_pending_waits is false: the flag covers every wait, also      *)
(* after cancel_one() and after moves.                                      *)
THEOREM FlagIsSafe == Spec => []FlagCoversWaits
<1>1. IInv => FlagCoversWaits
  BY DEF IInv
<1> QED BY <1>1, Invariant, PTL

(* The reactor does not sleep past the first expiry, whatever is inserted,  *)
(* cancelled or moved after it chose its timeout, with and without a        *)
(* timerfd.                                                                 *)
THEOREM ReactorNeverOversleeps == Spec => []NotOverslept
<1>1. ASSUME IInv PROVE NotOverslept
  <2> SUFFICES ASSUME NEW s \in Services, queue[s].heap # <<>>, NEW due,
                      due = queue[s].heap[1].time
               PROVE  IF has_timerfd
                      THEN timerfd[s] # Off /\ timerfd[s] <= (IF due < now THEN now ELSE due)
                      ELSE reactor[s] = "waiting" =>
                             interrupted[s] \/ timeout[s] <= (IF due < now THEN now ELSE due)
    BY DEF NotOverslept
  <2>1. AwakeBy(s, due)
    BY <1>1 DEF IInv, Sleep
  <2> QED BY <2>1 DEF AwakeBy, Late
<1> QED BY <1>1, Invariant, PTL

(* get_ready_timers takes out nothing before the expiry it was started      *)
(* with, although timers are moved and expiries change.                     *)
THEOREM NobodyIsEarly == Spec => NeverEarly
<1>1. IInv /\ [Next]_vars =>
        [\A o \in WaitOps : status'[o] = "success" /\ status[o] # "success"
           => deadline[o] <= now]_vars
  BY Step DEF NoneEarly
<1> QED BY <1>1, Invariant, PTL DEF NeverEarly, Spec

(* The timerfd, which nobody reads, is set past now in the critical section *)
(* that takes the due timers out: epoll_wait does not return for it again.  *)
THEOREM TimerfdIsQuiet == Spec => NoBusyTimer
<1>1. IInv /\ [Next]_vars =>
        [\A s \in Services :
           has_timerfd /\ reactor[s] = "check" /\ reactor'[s] = "idle"
             => timerfd'[s] > now]_vars
  BY Step DEF NoneBusy
<1> QED BY <1>1, Invariant, PTL DEF NoBusyTimer, Spec
=============================================================================
