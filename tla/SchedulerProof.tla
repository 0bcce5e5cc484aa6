--------------------------- MODULE SchedulerProof ---------------------------
(***************************************************************************)
(* Proofs about Scheduler for every set of threads, every finite set of    *)
(* handlers and descriptors, every value of one_thread and every Api, in   *)
(* three parts: types, the task token and the queued descriptors; the      *)
(* operations, each in one place until it is invoked or destroyed, and     *)
(* outstanding_work_, which counts those that keep the loop alive; and     *)
(* that the event loop loses no wakeup.                                    *)
(***************************************************************************)
EXTENDS Scheduler, TLAPS, FiniteSetTheorems, SequenceTheorems

-----------------------------------------------------------------------------
(* Types.                                                                  *)

(* The orders in which the reactor, perform_io or cancel() may hand over   *)
(* operations are sequences of those operations.                           *)
LEMMA PermutationSeq ==
  ASSUME NEW S, IsFiniteSet(S), NEW s \in SetToAllKPermutations(S)
  PROVE  s \in Seq(S) /\ ToSet(s) \subseteq S
<1>1. PICK R \in SUBSET S : s \in SetToSeqs(R)
  BY DEF SetToAllKPermutations
<1>2. Cardinality(R) \in Nat
  BY <1>1, FS_Subset, FS_CardinalityType
<1>3. s \in [1..Cardinality(R) -> R]
  BY <1>1 DEF SetToSeqs
<1>4. s \in Seq(S)
  BY <1>2, <1>3
<1> QED BY <1>3, <1>4 DEF ToSet

(* The state the constructor of scheduler leaves has the declared types.   *)
LEMMA TypeInit == Init => TypeOK
<1> SUFFICES ASSUME Init PROVE TypeOK
  OBVIOUS
<1>1. QueueType
  BY DEF Init, QueueType
<1>2. FlagType
  BY SchedulerAssumption DEF Init, FlagType
<1>3. StateType
  BY SchedulerAssumption DEF Init, StateType, PcValues
<1> QED
  BY <1>1, <1>2, <1>3 DEF TypeOK

(* The queues keep their type: an operation moves from one to another, and *)
(* Task is only ever in op_queue.                                          *)
LEMMA QueueTypeStep == TypeOK /\ [Next]_vars => QueueType'
<1> SUFFICES ASSUME TypeOK, [Next]_vars PROVE QueueType'
  OBVIOUS
<1>a. IsFiniteSet(pending_io) /\ IsFiniteSet(pending_io \cup Descriptors)
  BY SchedulerAssumption, FS_Subset, FS_Union DEF TypeOK, StateType
<1>b. \A s \in SetToAllKPermutations(pending_io) : s \in Seq(Handlers) /\ s \in Seq(Ops)
  BY <1>a, PermutationSeq DEF TypeOK, StateType, Ops
<1>c. \A s \in SetToAllKPermutations(pending_io \cup Descriptors) : s \in Seq(Ops)
  BY <1>a, PermutationSeq DEF TypeOK, StateType, Ops
<1>d. fresh \subseteq Handlers /\ Handlers \subseteq Ops
  BY DEF TypeOK, StateType, Ops
<1>e. QueueType
  BY DEF TypeOK
<1> USE <1>d, <1>e DEF QueueType
<1>1. ASSUME NEW t \in Threads, init_task(t) PROVE QueueType'
  <2>1. op_queue' = Append(op_queue, Task) /\ UNCHANGED <<arg, private_op_queue>>
    BY <1>1 DEF init_task, thread
  <2> QED BY <2>1
<1>2. ASSUME NEW t \in Threads, NEW h \in fresh, NEW c \in BOOLEAN,
             post_immediate_completion(t, h, c) PROVE QueueType'
  <2>1. /\ \/ /\ private_op_queue' = [private_op_queue EXCEPT ![t] = Append(@, h)]
              /\ UNCHANGED arg
           \/ /\ arg' = [arg EXCEPT ![t] = <<h>>]
              /\ UNCHANGED private_op_queue
        /\ UNCHANGED op_queue
    BY <1>2 DEF post_immediate_completion
  <2>2. Append(private_op_queue[t], h) \in Seq(Ops) /\ <<h>> \in Seq(Handlers)
    OBVIOUS
  <2> QED BY <2>1, <2>2
<1>3. ASSUME NEW t \in Threads, PostQueue(t) PROVE QueueType'
  <2>1. /\ op_queue' = op_queue \o arg[t]
        /\ arg' = [arg EXCEPT ![t] = <<>>]
        /\ UNCHANGED private_op_queue
    BY <1>3 DEF PostQueue
  <2> QED BY <2>1
<1>4. ASSUME NEW t \in Threads, NEW ops \in Seq(Handlers),
             post_deferred_completions(t, ops), UNCHANGED op_queue PROVE QueueType'
  <2>1. ops \in Seq(Ops) /\ private_op_queue[t] \o ops \in Seq(Ops)
    OBVIOUS
  <2> QED BY <1>4, <2>1 DEF post_deferred_completions
<1>5. ASSUME NEW t \in Threads, NEW ops \in SetToAllKPermutations(pending_io),
             cancel(t, ops) PROVE QueueType'
  <2>1. post_deferred_completions(t, ops) /\ UNCHANGED op_queue
    BY <1>5 DEF cancel, sched
  <2> QED BY <1>4, <2>1, <1>b
<1>6. ASSUME NEW t \in Threads, PopTask(t) \/ PopHandler(t) PROVE QueueType'
  <2>1. /\ op_queue # <<>> /\ op_queue' = Tail(op_queue)
        /\ UNCHANGED <<arg, private_op_queue>>
    BY <1>6 DEF PopTask, PopHandler
  <2> QED BY <2>1
<1>7. ASSUME NEW t \in Threads, task_cleanup(t) \/ Requeue(t) PROVE QueueType'
  <2>a. ASSUME task_cleanup(t)
        PROVE  /\ op_queue' = op_queue \o private_op_queue[t] \o <<Task>>
               /\ private_op_queue' = [private_op_queue EXCEPT ![t] = <<>>]
               /\ UNCHANGED arg
    BY <2>a DEF task_cleanup, PushPrivate
  <2>b. ASSUME Requeue(t)
        PROVE  /\ op_queue' = op_queue \o private_op_queue[t]
               /\ private_op_queue' = [private_op_queue EXCEPT ![t] = <<>>]
               /\ UNCHANGED arg
    BY <2>b DEF Requeue, PushPrivate
  <2>1. /\ \/ op_queue' = op_queue \o private_op_queue[t] \o <<Task>>
           \/ op_queue' = op_queue \o private_op_queue[t]
        /\ private_op_queue' = [private_op_queue EXCEPT ![t] = <<>>]
        /\ UNCHANGED arg
    BY <1>7, <2>a, <2>b
  <2>2. /\ op_queue \o private_op_queue[t] \in Seq(Ops \cup {Task})
        /\ op_queue \o private_op_queue[t] \o <<Task>> \in Seq(Ops \cup {Task})
    OBVIOUS
  <2>3. op_queue' \in Seq(Ops \cup {Task})
    BY <2>1, <2>2
  <2> QED BY <2>1, <2>3
<1>8. ASSUME NEW t \in Threads, NEW ready \in SetToAllKPermutations(pending_io),
             PerformIo(t, ready) PROVE QueueType'
  <2>1. \/ UNCHANGED <<op_queue, arg, private_op_queue>>
        \/ /\ ready # <<>>
           /\ post_deferred_completions(t, Tail(ready)) /\ UNCHANGED op_queue
    BY <1>8 DEF PerformIo, sched
  <2>2. ready # <<>> => Tail(ready) \in Seq(Handlers)
    BY <1>b
  <2> QED BY <1>4, <2>1, <2>2
<1>9. ASSUME NEW t \in Threads,
             NEW ready \in SetToAllKPermutations(pending_io \cup Descriptors),
             TaskReturn(t, ready) PROVE QueueType'
  <2>1. /\ private_op_queue' = [private_op_queue EXCEPT ![t] = @ \o ready]
        /\ UNCHANGED <<op_queue, arg>>
    BY <1>9 DEF TaskReturn
  <2>2. ready \in Seq(Ops)
    BY <1>c
  <2>3. private_op_queue[t] \o ready \in Seq(Ops)
    BY <2>2
  <2> QED BY <2>1, <2>3
<1>10. ASSUME Shutdown PROVE QueueType'
  <2>1. op_queue' = <<>> /\ UNCHANGED <<arg, private_op_queue>>
    BY <1>10 DEF Shutdown, thread
  <2> QED BY <2>1
<1>11. ASSUME UNCHANGED <<op_queue, arg, private_op_queue>> PROVE QueueType'
  BY <1>11
<1> QED
  BY <1>1, <1>2, <1>3, <1>5, <1>6, <1>7, <1>8, <1>9, <1>10, <1>11
  DEF Next, UserStep, LibraryStep, vars, sched, thread, start_io, StopCall, stop,
      restart, work_started, work_finished, EnterRun, HandlerReturn, CondSignal,
      CondTimeout, PolledNothing, Leave, EventWait, EventWoken, work_cleanup, TaskEintr

(* The flags of the scheduler and of the event stay Boolean: every step    *)
(* assigns them a truth value or leaves them.                              *)
LEMMA FlagTypeStep == FlagType /\ [Next]_vars => FlagType'
<1> SUFFICES ASSUME FlagType, [Next]_vars PROVE FlagType'
  OBVIOUS
<1> USE DEF FlagType, sched, event, world, wake_one_thread_and_unlock, interrupt_task,
            signal_one, Unlock
<1>1. ASSUME NEW t \in Threads, init_task(t) \/ PostQueue(t) PROVE FlagType'
  BY <1>1 DEF init_task, PostQueue
<1>2. ASSUME NEW t \in Threads, PopTask(t) PROVE FlagType'
  BY <1>2 DEF PopTask
<1>3. ASSUME NEW t \in Threads, PopHandler(t) \/ PolledNothing(t) PROVE FlagType'
  BY <1>3 DEF PopHandler, PolledNothing
<1>4. ASSUME NEW t \in Threads, stop(t) \/ restart(t) \/ task_cleanup(t) PROVE FlagType'
  BY <1>4 DEF stop, restart, stop_all_threads, task_cleanup
<1>5. ASSUME NEW t \in Threads, NEW ready, TaskReturn(t, ready) PROVE FlagType'
  BY <1>5 DEF TaskReturn
<1>6. ASSUME Shutdown PROVE FlagType'
  BY <1>6 DEF Shutdown
<1>7. ASSUME NEW t \in Threads, EventWait(t) \/ EventWoken(t) \/ Leave(t) PROVE FlagType'
  BY <1>7 DEF EventWait, EventWoken, Leave
<1>8. ASSUME UNCHANGED <<task, task_interrupted, interrupted, stopped, shutdown,
                         one_thread, signalled>> PROVE FlagType'
  BY <1>8
<1>9. ASSUME NEW t \in Threads, NEW h, NEW c, NEW ops,
             \/ post_immediate_completion(t, h, c) \/ start_io(t, h) \/ cancel(t, ops)
             \/ StopCall(t) \/ work_started(t) \/ work_finished(t) \/ EnterRun(t, c)
             \/ HandlerReturn(t, c) \/ CondSignal(t) \/ CondTimeout(t)
             \/ work_cleanup(t) \/ Requeue(t) \/ PerformIo(t, ops) \/ TaskEintr(t)
             \/ UNCHANGED vars PROVE FlagType'
  BY <1>8, <1>9 DEF vars, post_immediate_completion, start_io, cancel, StopCall,
      work_started, work_finished, EnterRun, HandlerReturn, CondSignal, CondTimeout,
      work_cleanup, Requeue, PerformIo, TaskEintr
<1> QED
  BY <1>1, <1>2, <1>3, <1>4, <1>5, <1>6, <1>7, <1>8, <1>9
  DEF Next, UserStep, LibraryStep, vars

(* The counters, the sets and the per-thread variables keep their types in *)
(* every step of the loop and of user code.                                *)
LEMMA StateTypeStep == TypeOK /\ [Next]_vars => StateType'
<1> SUFFICES ASSUME QueueType, StateType, [Next]_vars PROVE StateType'
  BY DEF TypeOK
<1> USE DEF StateType, sched, event, thread, world, Goto, PcValues, Caller,
            wake_one_thread_and_unlock, interrupt_task, signal_one, Unlock,
            ReturnFromRun, post_deferred_completions
<1>a. None \notin Threads /\ MaxGuards \in Nat
  BY SchedulerAssumption
<1>1. ASSUME NEW t \in Threads, init_task(t) \/ PostQueue(t) PROVE StateType'
  BY <1>1 DEF init_task, PostQueue
<1>2. ASSUME NEW t \in Threads, NEW h \in fresh, NEW c \in BOOLEAN,
             post_immediate_completion(t, h, c) \/ start_io(t, h) PROVE StateType'
  <2>1. ASSUME post_immediate_completion(t, h, c) PROVE StateType'
    BY <2>1 DEF post_immediate_completion
  <2>2. ASSUME start_io(t, h) PROVE StateType'
    BY <2>2 DEF start_io
  <2> QED BY <1>2, <2>1, <2>2
<1>3. ASSUME NEW t \in Threads, NEW ops \in SetToAllKPermutations(pending_io),
             cancel(t, ops) PROVE StateType'
  BY <1>3 DEF cancel
<1>4. ASSUME NEW t \in Threads, StopCall(t) \/ stop(t) \/ restart(t) PROVE StateType'
  BY <1>4 DEF StopCall, stop, restart, stop_all_threads
<1>5. ASSUME NEW t \in Threads, work_started(t) \/ work_finished(t) PROVE StateType'
  BY <1>5, <1>a DEF work_started, work_finished
<1>6. ASSUME NEW t \in Threads, NEW c \in RunCalls, EnterRun(t, c) PROVE StateType'
  BY <1>6 DEF EnterRun, RunCalls, BlockTime
<1>7. ASSUME NEW t \in Threads, NEW e \in BOOLEAN, HandlerReturn(t, e) PROVE StateType'
  BY <1>7 DEF HandlerReturn
<1>8. ASSUME NEW t \in Threads, CondSignal(t) \/ CondTimeout(t) PROVE StateType'
  BY <1>8 DEF CondSignal, CondTimeout
<1>9. ASSUME NEW t \in Threads, PopTask(t) \/ task_cleanup(t) PROVE StateType'
  <2>1. ASSUME PopTask(t) PROVE StateType'
    BY <2>1 DEF PopTask, MayBlock
  <2>2. ASSUME task_cleanup(t) PROVE StateType'
    BY <2>2 DEF task_cleanup
  <2> QED BY <1>9, <2>1, <2>2
<1>10. ASSUME NEW t \in Threads, PolledNothing(t) \/ Leave(t) PROVE StateType'
  <2>1. ASSUME PolledNothing(t) PROVE StateType'
    BY <2>1 DEF PolledNothing
  <2>2. ASSUME Leave(t) PROVE StateType'
    BY <2>2 DEF Leave
  <2> QED BY <1>10, <2>1, <2>2
<1>11. ASSUME NEW t \in Threads, PopHandler(t) PROVE StateType'
  <2>1. Head(op_queue) \in Ops
    BY <1>11 DEF PopHandler, QueueType
  <2> QED BY <1>11, <2>1 DEF PopHandler
<1>12. ASSUME NEW t \in Threads, EventWait(t) \/ EventWoken(t) PROVE StateType'
  BY <1>12 DEF EventWait, EventWoken
<1>13. ASSUME NEW t \in Threads, work_cleanup(t) \/ Requeue(t) PROVE StateType'
  <2>1. ASSUME work_cleanup(t) PROVE StateType'
    BY <2>1 DEF work_cleanup
  <2>2. ASSUME Requeue(t) PROVE StateType'
    BY <2>2 DEF Requeue
  <2> QED BY <1>13, <2>1, <2>2
<1>14. ASSUME NEW t \in Threads, NEW ready \in SetToAllKPermutations(pending_io),
              PerformIo(t, ready) PROVE StateType'
  <2>1. ready # <<>> => Head(ready) \in Ops
    BY SchedulerAssumption, FS_Subset, PermutationSeq DEF Ops
  <2>2. CASE ready = <<>>
    <3>1. /\ private_outstanding_work' = [private_outstanding_work EXCEPT ![t] = @ + 1]
          /\ current' = [current EXCEPT ![t] = None]
          /\ pc' = [pc EXCEPT ![t] = "work_cleanup"]
          /\ pending_io' \subseteq pending_io
          /\ UNCHANGED <<outstanding_work, mutex, signalling, call, usec, guards, fresh,
                         done, destroyed>>
      BY <1>14, <2>2 DEF PerformIo, compensating_work_started
    <3> QED BY <3>1
  <2>3. CASE ready # <<>>
    BY <1>14, <2>1, <2>3 DEF PerformIo
  <2> QED BY <2>2, <2>3
<1>15. ASSUME NEW t \in Threads, NEW ready, TaskReturn(t, ready) \/ TaskEintr(t)
       PROVE StateType'
  <2>1. ASSUME TaskReturn(t, ready) PROVE StateType'
    BY <2>1 DEF TaskReturn
  <2>2. ASSUME TaskEintr(t) PROVE StateType'
    BY <2>2 DEF TaskEintr
  <2> QED BY <1>15, <2>1, <2>2
<1>16. ASSUME Shutdown PROVE StateType'
  BY <1>16 DEF Shutdown
<1>17. ASSUME UNCHANGED vars PROVE StateType'
  BY <1>17 DEF vars
<1> QED
  BY <1>1, <1>2, <1>3, <1>4, <1>5, <1>6, <1>7, <1>8, <1>9, <1>10, <1>11, <1>12,
     <1>13, <1>14, <1>15, <1>16, <1>17 DEF Next, UserStep, LibraryStep

(* Type correctness: in every reachable state of the scheduler every       *)
(* variable has the type scheduler.hpp gives it; in particular no thread   *)
(* ever holds a negative amount of work back.                              *)
THEOREM TypeCorrect == Spec => []TypeOK
BY TypeInit, QueueTypeStep, FlagTypeStep, StateTypeStep, PTL DEF Spec, TypeOK

-----------------------------------------------------------------------------
(* Sequences.                                                              *)
(* Joining two operation queues joins their sets of operations.            *)
LEMMA ToSetConcat ==
  ASSUME NEW S, NEW s \in Seq(S), NEW r \in Seq(S)
  PROVE  ToSet(s \o r) = ToSet(s) \cup ToSet(r)
<1>1. ASSUME NEW x \in ToSet(s \o r) PROVE x \in ToSet(s) \cup ToSet(r)
  <2>1. PICK i \in 1..Len(s) + Len(r) : x = (s \o r)[i]
    BY DEF ToSet
  <2>2. CASE i <= Len(s)
    BY <2>1, <2>2 DEF ToSet
  <2>3. CASE i > Len(s)
    <3>1. i - Len(s) \in 1..Len(r) /\ x = r[i - Len(s)]
      BY <2>1, <2>3
    <3> QED BY <3>1 DEF ToSet
  <2> QED BY <2>2, <2>3
<1>2. ASSUME NEW x \in ToSet(s) PROVE x \in ToSet(s \o r)
  <2>1. PICK i \in 1..Len(s) : x = s[i]
    BY DEF ToSet
  <2>2. i \in 1..Len(s \o r) /\ (s \o r)[i] = x
    BY <2>1
  <2> QED BY <2>2 DEF ToSet
<1>3. ASSUME NEW x \in ToSet(r) PROVE x \in ToSet(s \o r)
  <2>1. PICK i \in 1..Len(r) : x = r[i]
    BY DEF ToSet
  <2>2. i + Len(s) \in 1..Len(s \o r) /\ (s \o r)[i + Len(s)] = x
    BY <2>1
  <2> QED BY <2>2 DEF ToSet
<1> QED BY <1>1, <1>2, <1>3

(* Popping the front operation of a queue removes only that one.           *)
LEMMA ToSetTail ==
  ASSUME NEW S, NEW s \in Seq(S), s # <<>>
  PROVE  ToSet(s) = {Head(s)} \cup ToSet(Tail(s))
<1>1. ASSUME NEW x \in ToSet(s) PROVE x = Head(s) \/ x \in ToSet(Tail(s))
  <2>1. PICK i \in 1..Len(s) : x = s[i]
    BY DEF ToSet
  <2>2. CASE i = 1
    BY <2>1, <2>2
  <2>3. CASE i # 1
    <3>1. i - 1 \in DOMAIN Tail(s) /\ Tail(s)[i - 1] = x
      BY <2>1, <2>3
    <3> QED BY <3>1, Zenon DEF ToSet
  <2> QED BY <2>2, <2>3
<1>2. Head(s) \in ToSet(s)
  <2>1. 1 \in 1..Len(s) /\ s[1] = Head(s)
    OBVIOUS
  <2> QED BY <2>1 DEF ToSet
<1>3. ASSUME NEW x \in ToSet(Tail(s)) PROVE x \in ToSet(s)
  <2>1. PICK i \in 1..Len(Tail(s)) : x = Tail(s)[i]
    BY DEF ToSet
  <2>2. i + 1 \in 1..Len(s) /\ s[i + 1] = x
    BY <2>1
  <2> QED BY <2>2 DEF ToSet
<1> QED BY <1>1, <1>2, <1>3

(* A queue of one operation holds that operation.                          *)
LEMMA ToSetOne ==
  ASSUME NEW x PROVE ToSet(<<x>>) = {x}
BY DEF ToSet

(* An empty queue holds nothing.                                           *)
LEMMA ToSetEmpty == ToSet(<<>>) = {} /\ DOMAIN <<>> = {}
BY DEF ToSet

(* Once(s, x): x is in s at most once. *)
Once(s, x) == \A i, j \in DOMAIN s : s[i] = x /\ s[j] = x => i = j

(* Adding operations other than x behind a queue with at most one x leaves *)
(* at most one x.                                                          *)
LEMMA OnceConcat ==
  ASSUME NEW S, NEW s \in Seq(S), NEW r \in Seq(S), NEW x,
         Once(s, x), x \notin ToSet(r)
  PROVE  Once(s \o r, x)
<1> SUFFICES ASSUME NEW i \in 1..Len(s \o r), NEW j \in 1..Len(s \o r),
                    (s \o r)[i] = x, (s \o r)[j] = x
             PROVE  i = j
  BY DEF Once
<1>1. ASSUME NEW k \in 1..Len(s \o r), (s \o r)[k] = x
      PROVE  k \in 1..Len(s) /\ s[k] = x
  <2>1. CASE k > Len(s)
    <3>1. k - Len(s) \in 1..Len(r) /\ r[k - Len(s)] = x
      BY <1>1, <2>1
    <3> QED BY <3>1 DEF ToSet
  <2>2. CASE k <= Len(s)
    BY <1>1, <2>2
  <2> QED BY <2>1, <2>2
<1> QED BY <1>1 DEF Once

(* Pushing x on a queue without it gives a queue that has x once.          *)
LEMMA OnceAppend ==
  ASSUME NEW S, NEW s \in Seq(S), NEW x \in S, x \notin ToSet(s)
  PROVE  Once(Append(s, x), x) /\ ToSet(Append(s, x)) = ToSet(s) \cup {x}
<1>1. \A i \in 1..Len(s) : Append(s, x)[i] # x
  BY DEF ToSet
<1>2. Append(s, x) = s \o <<x>>
  OBVIOUS
<1>3. \A i \in DOMAIN Append(s, x) : i \in 1..Len(s) \/ i = Len(s) + 1
  OBVIOUS
<1>4. Once(Append(s, x), x)
  BY <1>1, <1>3 DEF Once
<1>5. <<x>> \in Seq(S)
  OBVIOUS
<1>6. ToSet(s \o <<x>>) = ToSet(s) \cup {x}
  <2>1. \A r \in Seq(S) : ToSet(s \o r) = ToSet(s) \cup ToSet(r)
    BY ToSetConcat
  <2>2. ToSet(s \o <<x>>) = ToSet(s) \cup ToSet(<<x>>)
    BY <1>5, <2>1, Zenon
  <2> QED BY <2>2, ToSetOne, Zenon
<1> QED BY <1>2, <1>4, <1>6, Zenon

(* A queue with at most one x still has at most one after pop(), and none  *)
(* if x was popped.                                                        *)
LEMMA OnceTail ==
  ASSUME NEW S, NEW s \in Seq(S), s # <<>>, NEW x, Once(s, x)
  PROVE  Once(Tail(s), x) /\ (Head(s) = x => x \notin ToSet(Tail(s)))
<1>1. \A i \in 1..Len(Tail(s)) : i + 1 \in 1..Len(s) /\ Tail(s)[i] = s[i + 1]
  OBVIOUS
<1>2. 1 \in 1..Len(s) /\ s[1] = Head(s)
  OBVIOUS
<1>3. DOMAIN s = 1..Len(s) /\ DOMAIN Tail(s) = 1..Len(Tail(s)) /\ Len(Tail(s)) \in Nat
  OBVIOUS
<1>4. Once(Tail(s), x)
  BY <1>1, <1>3 DEF Once
<1>5. Head(s) = x => x \notin ToSet(Tail(s))
  BY <1>1, <1>2, <1>3 DEF Once, ToSet
<1> QED BY <1>4, <1>5

(* Before(s, D, x): every element of D in s is in front of every x. *)
Before(s, D, x) == \A i, j \in DOMAIN s : s[i] = x /\ s[j] \in D => j < i

(* Operations not in D can be pushed without coming between D and x.       *)
LEMMA BeforeConcat ==
  ASSUME NEW S, NEW s \in Seq(S), NEW r \in Seq(S), NEW D, NEW x,
         Before(s, D, x), ToSet(r) \cap D = {}
  PROVE  Before(s \o r, D, x)
<1> SUFFICES ASSUME NEW i \in 1..Len(s \o r), NEW j \in 1..Len(s \o r),
                    (s \o r)[i] = x, (s \o r)[j] \in D
             PROVE  j < i
  BY DEF Before
<1>1. j \in 1..Len(s) /\ s[j] \in D
  <2>1. CASE j > Len(s)
    <3>1. j - Len(s) \in 1..Len(r) /\ r[j - Len(s)] \in D
      BY <2>1
    <3> QED BY <3>1 DEF ToSet
  <2>2. CASE j <= Len(s)
    BY <2>2
  <2> QED BY <2>1, <2>2
<1>2. CASE i > Len(s)
  BY <1>1, <1>2
<1>3. CASE i <= Len(s)
  <2>1. i \in 1..Len(s) /\ s[i] = x
    BY <1>3
  <2> QED BY <1>1, <2>1 DEF Before
<1> QED BY <1>2, <1>3

(* An x pushed last is behind everything in D.                             *)
LEMMA BeforeAppend ==
  ASSUME NEW S, NEW s \in Seq(S), NEW x \in S, NEW D, x \notin ToSet(s), x \notin D
  PROVE  Before(Append(s, x), D, x)
<1>1. \A i \in 1..Len(s) : Append(s, x)[i] # x
  BY DEF ToSet
<1>2. \A i \in DOMAIN Append(s, x) : i \in 1..Len(s) \/ i = Len(s) + 1
  OBVIOUS
<1>3. Append(s, x)[Len(s) + 1] = x
  OBVIOUS
<1> QED BY <1>1, <1>2, <1>3 DEF Before

(* pop() keeps the order, and if x is at the front no operation of D is    *)
(* left in the queue.                                                      *)
LEMMA BeforeTail ==
  ASSUME NEW S, NEW s \in Seq(S), s # <<>>, NEW D, NEW x, Before(s, D, x)
  PROVE  Before(Tail(s), D, x) /\ (Head(s) = x => ToSet(s) \cap D = {})
<1>1. \A i \in 1..Len(Tail(s)) : i + 1 \in 1..Len(s) /\ Tail(s)[i] = s[i + 1]
  OBVIOUS
<1>2. 1 \in 1..Len(s) /\ s[1] = Head(s)
  OBVIOUS
<1>3. DOMAIN s = 1..Len(s) /\ DOMAIN Tail(s) = 1..Len(Tail(s)) /\ Len(Tail(s)) \in Nat
  OBVIOUS
<1>4. Before(Tail(s), D, x)
  BY <1>1, <1>3 DEF Before
<1>5. Head(s) = x => ToSet(s) \cap D = {}
  BY <1>2, <1>3 DEF Before, ToSet
<1> QED BY <1>4, <1>5

-----------------------------------------------------------------------------
(* task_operation_ as a token.                                             *)

(* The step leaves the threads in the reactor where they are. *)
SameReactor == \A u \in Threads : InReactor(u)' <=> InReactor(u)

(* Where task_operation_ is: the token is in the queue or with a thread in  *)
(* the reactor, and nowhere before init_task().                             *)
TaskInv ==
  /\ TaskToken
  /\ \A t \in Threads : InReactor(t) => task
  /\ Task \in ToSet(op_queue) => task

(* op_queue_.push(private_op_queue) in work_cleanup, which adds no         *)
(* task_operation_.                                                        *)
LEMMA PushNothing ==
  ASSUME TypeOK, NEW t \in Threads, PushPrivate(t, <<>>)
  PROVE  op_queue' = op_queue \o private_op_queue[t]
<1>1. op_queue \o private_op_queue[t] \in Seq(Ops \cup {Task})
  BY DEF TypeOK, QueueType
<1>2. (op_queue \o private_op_queue[t]) \o <<>> = op_queue \o private_op_queue[t]
  BY <1>1
<1> QED BY <1>2 DEF PushPrivate

(* A step that leaves the reactor alone and pushes user or descriptor      *)
(* operations keeps the invariant of task_operation_.                      *)
LEMMA TaskInvFrame ==
  ASSUME TypeOK, TaskInv, SameReactor, UNCHANGED task,
         NEW p \in Seq(Ops), op_queue' = op_queue \o p
  PROVE  TaskInv'
<1>1. op_queue \in Seq(Ops \cup {Task}) /\ p \in Seq(Ops \cup {Task})
  BY DEF TypeOK, QueueType
<1>2. Task \notin ToSet(p)
  BY SchedulerAssumption DEF Ops, ToSet
<1>3. Once(op_queue', Task)
  BY <1>1, <1>2, OnceConcat DEF TaskInv, TaskToken, Once
<1>4. Task \in ToSet(op_queue') <=> Task \in ToSet(op_queue)
  BY <1>1, <1>2, ToSetConcat
<1> QED
  BY <1>3, <1>4, Zenon DEF TaskInv, TaskToken, Once, SameReactor

(* The invariant of task_operation_ holds before the reactor is attached.  *)
LEMMA TaskInvInit == Init => TaskInv
<1> SUFFICES ASSUME Init PROVE TaskInv
  OBVIOUS
<1>1. op_queue = <<>> /\ ~task
  BY Zenon DEF Init
<1>2. \A t \in Threads : ~InReactor(t)
  BY DEF Init, InReactor
<1> QED BY <1>1, <1>2, ToSetEmpty, Zenon DEF TaskInv, TaskToken

(* Every step that is not one of these leaves the queue, and who is in the  *)
(* reactor, alone.                                                          *)
LEMMA ReactorStep ==
  ASSUME TypeOK, [Next]_vars
  PROVE  \/ UNCHANGED <<op_queue, task>> /\ SameReactor
         \/ \E t \in Threads : \/ init_task(t) \/ PostQueue(t) \/ Requeue(t) \/ PopTask(t)
                               \/ task_cleanup(t) \/ PopHandler(t)
         \/ Shutdown
<1> DEFINE Goal == UNCHANGED <<op_queue, task>> /\ SameReactor
<1>a. pc \in [Threads -> PcValues]
  BY DEF TypeOK, StateType
<1>1. ASSUME NEW t \in Threads, stop(t) PROVE Goal
  <2>1. pc[t] \in {"stop", "cleanup_stop"}
    BY <1>1 DEF stop
  <2>2. /\ pc'[t] \notin {"task", "task_cleanup"}
        /\ \A u \in Threads \ {t} : pc'[u] = IF pc[u] = "wait" THEN "woken" ELSE pc[u]
    BY <1>1, <1>a DEF stop, stop_all_threads, Caller
  <2>3. SameReactor
    BY <2>1, <2>2 DEF SameReactor, InReactor
  <2>4. UNCHANGED <<op_queue, task>>
    BY <1>1 DEF stop
  <2> QED BY <2>3, <2>4
<1>2. ASSUME NEW t \in Threads, NEW h, NEW c, NEW ops,
             \/ post_immediate_completion(t, h, c) \/ cancel(t, ops) \/ StopCall(t)
             \/ work_finished(t) \/ EnterRun(t, c) \/ HandlerReturn(t, c)
             \/ CondTimeout(t) \/ PolledNothing(t) \/ Leave(t) \/ EventWait(t)
             \/ EventWoken(t) \/ work_cleanup(t) \/ PerformIo(t, ops)
             \/ TaskReturn(t, ops) \/ TaskEintr(t)
      PROVE Goal
  <2>1. UNCHANGED <<op_queue, task>>
    BY <1>2 DEF post_immediate_completion, cancel, StopCall, work_finished, EnterRun,
         HandlerReturn, CondTimeout, PolledNothing, Leave, EventWait, EventWoken,
         work_cleanup, PerformIo, TaskReturn, TaskEintr, sched
  <2>2. \E l \in PcValues : /\ pc' = [pc EXCEPT ![t] = l]
                            /\ l = "task_cleanup" <=> pc[t] \in {"task", "task_cleanup"}
                            /\ l # "task"
    BY <1>2, <1>a DEF post_immediate_completion, cancel, StopCall, work_finished, EnterRun,
         HandlerReturn, CondTimeout, PolledNothing, Leave, EventWait, EventWoken,
         work_cleanup, PerformIo, TaskReturn, TaskEintr, Goto, ReturnFromRun, PcValues,
         post_deferred_completions, UserCode
  <2>3. SameReactor
    BY <1>a, <2>2 DEF SameReactor, InReactor
  <2> QED BY <2>1, <2>3
<1>3. ASSUME NEW t \in Threads, CondSignal(t) PROVE Goal
  <2>1. \/ UNCHANGED pc
        \/ \E w \in Threads : pc[w] = "wait" /\ pc' = [pc EXCEPT ![w] = "woken"]
    BY <1>3 DEF CondSignal, Goto
  <2>2. SameReactor
    BY <1>a, <2>1 DEF SameReactor, InReactor
  <2>3. UNCHANGED <<op_queue, task>>
    BY <1>3 DEF CondSignal, sched
  <2> QED BY <2>2, <2>3
<1>4. ASSUME UNCHANGED <<op_queue, task, pc>> PROVE Goal
  BY <1>4 DEF SameReactor, InReactor
<1>5. ASSUME NEW t \in Threads, NEW h,
              start_io(t, h) \/ restart(t) \/ work_started(t)
       PROVE Goal
  BY <1>4, <1>5 DEF start_io, restart, work_started, thread, sched
<1>7. ASSUME UNCHANGED vars PROVE Goal
  BY <1>4, <1>7 DEF vars, thread, sched
<1> HIDE DEF Goal
<1>6. \/ Goal
      \/ \E t \in Threads : \/ init_task(t) \/ PostQueue(t) \/ Requeue(t) \/ PopTask(t)
                            \/ task_cleanup(t) \/ PopHandler(t)
      \/ Shutdown
  BY <1>1, <1>2, <1>3, <1>5, <1>7 DEF Next, UserStep, LibraryStep
<1> QED BY <1>6 DEF Goal

(* Every step keeps the invariant of task_operation_: init_task pushes it  *)
(* once, a thread that pops it enters the reactor, and task_cleanup pushes *)
(* it back.                                                                *)
LEMMA TaskInvStep == TypeOK /\ TaskInv /\ [Next]_vars => TaskInv'
<1> SUFFICES ASSUME TypeOK, TaskInv, [Next]_vars PROVE TaskInv'
  OBVIOUS
<1>a. op_queue \in Seq(Ops \cup {Task}) /\ pc \in [Threads -> PcValues]
  BY DEF TypeOK, QueueType, StateType
<1>b. ASSUME SameReactor, UNCHANGED <<op_queue, task>> PROVE TaskInv'
  <2>1. <<>> \in Seq(Ops) /\ op_queue \o <<>> = op_queue
    BY <1>a
  <2> QED BY <1>b, <2>1, TaskInvFrame, Zenon
<1>1. ASSUME NEW t \in Threads, init_task(t) PROVE TaskInv'
  <2>1. /\ ~task /\ task' = TRUE /\ op_queue' = Append(op_queue, Task)
        /\ UNCHANGED pc
    BY <1>1, Zenon DEF init_task, thread
  <2>2. Task \notin ToSet(op_queue) /\ \A u \in Threads : ~InReactor(u)
    BY <2>1 DEF TaskInv
  <2>3. /\ Once(op_queue', Task) /\ ToSet(op_queue') = ToSet(op_queue) \cup {Task}
    BY <1>a, <2>1, <2>2, OnceAppend
  <2>4. \A u \in Threads : ~InReactor(u)'
    BY <2>1, <2>2 DEF InReactor
  <2> QED BY <2>1, <2>3, <2>4, Zenon DEF TaskInv, TaskToken, Once
<1>2. ASSUME NEW t \in Threads, PostQueue(t) PROVE TaskInv'
  <2>1. op_queue' = op_queue \o arg[t] /\ UNCHANGED task
    BY <1>2 DEF PostQueue
  <2>2. arg[t] \in Seq(Ops)
    BY DEF TypeOK, QueueType, Ops
  <2>3. SameReactor
    BY <1>2, <1>a DEF PostQueue, SameReactor, InReactor, Goto, Caller
  <2> QED BY <2>1, <2>2, <2>3, TaskInvFrame
<1>3. ASSUME NEW t \in Threads, Requeue(t) PROVE TaskInv'
  <2>1. op_queue' = op_queue \o private_op_queue[t] /\ UNCHANGED task
    BY <1>3, PushNothing DEF Requeue
  <2>2. private_op_queue[t] \in Seq(Ops)
    BY DEF TypeOK, QueueType
  <2>3. SameReactor
    BY <1>3, <1>a DEF Requeue, SameReactor, InReactor, Goto, ReturnFromRun
  <2> QED BY <2>1, <2>2, <2>3, TaskInvFrame
<1>4. ASSUME NEW t \in Threads, PopTask(t) PROVE TaskInv'
  <2>1. /\ op_queue # <<>> /\ Head(op_queue) = Task /\ op_queue' = Tail(op_queue)
        /\ pc' = [pc EXCEPT ![t] = "task"] /\ UNCHANGED task
    BY <1>4 DEF PopTask, Goto
  <2>2. Task \in ToSet(op_queue)
    BY <1>a, <2>1, ToSetTail
  <2>3. task /\ \A u \in Threads : ~InReactor(u)
    BY <2>2 DEF TaskInv, TaskToken
  <2>4. Once(op_queue', Task) /\ Task \notin ToSet(op_queue')
    BY <1>a, <2>1, OnceTail DEF TaskInv, TaskToken, Once
  <2>5. \A u \in Threads : InReactor(u)' <=> u = t
    BY <1>a, <2>1, <2>3 DEF InReactor
  <2> QED BY <2>1, <2>3, <2>4, <2>5, Zenon DEF TaskInv, TaskToken, Once
<1>5. ASSUME NEW t \in Threads, task_cleanup(t) PROVE TaskInv'
  <2>1. /\ pc[t] = "task_cleanup" /\ pc' \in [Threads -> PcValues]
        /\ pc'[t] \in {"loop", "polled"} /\ \A u \in Threads : u # t => pc'[u] = pc[u]
    BY <1>5, <1>a DEF task_cleanup, Goto, PcValues
  <2>2. op_queue' = (op_queue \o private_op_queue[t]) \o <<Task>> /\ UNCHANGED task
    BY <1>5 DEF task_cleanup, PushPrivate
  <2>3. InReactor(t) /\ \A u \in Threads : ~InReactor(u)'
    BY <2>1 DEF InReactor, TaskInv, TaskToken
  <2>4. task /\ Task \notin ToSet(op_queue)
    BY <2>3 DEF TaskInv, TaskToken
  <2> DEFINE q == op_queue \o private_op_queue[t]
  <2>5. q \in Seq(Ops \cup {Task}) /\ Task \notin ToSet(q)
    <3>1. private_op_queue[t] \in Seq(Ops) /\ private_op_queue[t] \in Seq(Ops \cup {Task})
      BY DEF TypeOK, QueueType
    <3>2. Task \notin ToSet(private_op_queue[t])
      BY <3>1, SchedulerAssumption DEF ToSet, Ops
    <3> QED BY <3>1, <3>2, <1>a, <2>4, ToSetConcat
  <2> HIDE DEF q
  <2>6. op_queue' = Append(q, Task)
    BY <2>2, <2>5 DEF q
  <2>7. Once(op_queue', Task) /\ Task \in ToSet(op_queue')
    BY <2>5, <2>6, OnceAppend
  <2> QED BY <2>2, <2>3, <2>4, <2>7, Zenon DEF TaskInv, TaskToken, Once
<1>6. ASSUME NEW t \in Threads, PopHandler(t) PROVE TaskInv'
  <2>1. /\ op_queue # <<>> /\ Head(op_queue) # Task /\ op_queue' = Tail(op_queue)
        /\ UNCHANGED task
    BY <1>6 DEF PopHandler
  <2>2. pc[t] \in {"loop", "waited", "polled"} /\ pc' = [pc EXCEPT ![t] = "handler"]
    BY <1>6 DEF PopHandler, Looking, Goto
  <2>3. SameReactor
    BY <1>a, <2>2 DEF SameReactor, InReactor
  <2>4. Once(op_queue', Task)
    BY <1>a, <2>1, OnceTail DEF TaskInv, TaskToken, Once
  <2>5. Task \in ToSet(op_queue') <=> Task \in ToSet(op_queue)
    BY <1>a, <2>1, ToSetTail
  <2> QED BY <2>1, <2>3, <2>4, <2>5, Zenon DEF TaskInv, TaskToken, Once, SameReactor
<1>7. ASSUME Shutdown PROVE TaskInv'
  <2>1. op_queue' = <<>> /\ task' = FALSE /\ UNCHANGED pc
    BY <1>7 DEF Shutdown, thread
  <2>2. \A u \in Threads : ~InReactor(u)'
    BY <1>7, <2>1 DEF Shutdown, InReactor
  <2> QED BY <2>1, <2>2, ToSetEmpty, Zenon DEF TaskInv, TaskToken
<1>8. ASSUME UNCHANGED <<op_queue, task>>, SameReactor PROVE TaskInv'
  BY <1>b, <1>8
<1> QED
  BY <1>1, <1>2, <1>3, <1>4, <1>5, <1>6, <1>7, <1>8, ReactorStep

(* In every reachable state at most one thread runs the reactor, and once  *)
(* attached the reactor is never lost: task_operation_ is in the queue     *)
(* exactly once or with exactly one thread.                                *)
THEOREM TaskTokenInvariant == Spec => []TaskToken
<1>1. TaskInv => TaskToken
  BY DEF TaskInv
<1> QED BY <1>1, TypeCorrect, TaskInvInit, TaskInvStep, PTL DEF Spec

-----------------------------------------------------------------------------
(* Descriptor operations are off the queue while the reactor runs.         *)
(* Private queues hold no descriptor operation except on the way out of the *)
(* reactor: everything else that is put there is a handler.                 *)
NoPrivateDescriptors ==
  \A t \in Threads : pc[t] # "task_cleanup" =>
    ToSet(private_op_queue[t]) \cap Descriptors = {}

(* Descriptor operations are queued in front of the token, and only         *)
(* task_cleanup puts them there.                                            *)
QueuedDescriptors ==
  /\ DescriptorsDequeued
  /\ Before(op_queue, Descriptors, Task)
  /\ ~task => ToSet(op_queue) \cap Descriptors = {}

DescriptorInv == NoPrivateDescriptors /\ QueuedDescriptors

(* No descriptor operation exists before the reactor has run.              *)
LEMMA DescriptorInvInit == Init => DescriptorInv
<1> SUFFICES ASSUME Init PROVE DescriptorInv
  OBVIOUS
<1>1. op_queue = <<>> /\ \A t \in Threads : private_op_queue[t] = <<>>
  BY DEF Init
<1> QED
  BY <1>1, ToSetEmpty, Zenon
  DEF DescriptorInv, NoPrivateDescriptors, QueuedDescriptors, DescriptorsDequeued, Before

(* A queue of user operations has no descriptor operation in it.           *)
LEMMA HandlersAreNoDescriptors ==
  ASSUME NEW s \in Seq(Handlers) PROVE ToSet(s) \cap Descriptors = {}
BY SchedulerAssumption DEF ToSet

(* Outside the reactor no thread keeps a descriptor operation in its       *)
(* private queue: user code pushes handlers only, and task_cleanup empties *)
(* it.                                                                     *)
LEMMA PrivateStep ==
  TypeOK /\ NoPrivateDescriptors /\ [Next]_vars => NoPrivateDescriptors'
<1> SUFFICES ASSUME TypeOK, NoPrivateDescriptors, [Next]_vars PROVE NoPrivateDescriptors'
  OBVIOUS
<1>a. /\ private_op_queue \in [Threads -> Seq(Ops)] /\ pc \in [Threads -> PcValues]
      /\ fresh \subseteq Handlers /\ pending_io \subseteq Handlers
  BY DEF TypeOK, QueueType, StateType
<1>b. ASSUME UNCHANGED private_op_queue,
             \A u \in Threads : pc'[u] # "task_cleanup" => pc[u] # "task_cleanup"
      PROVE  NoPrivateDescriptors'
  BY <1>b DEF NoPrivateDescriptors
<1>c. ASSUME NEW t \in Threads, NEW s \in Seq(Handlers), pc[t] # "task_cleanup",
             private_op_queue' = [private_op_queue EXCEPT ![t] = @ \o s], UNCHANGED pc
      PROVE  NoPrivateDescriptors'
  <2>1. private_op_queue[t] \in Seq(Ops) /\ s \in Seq(Ops)
    BY <1>a DEF Ops
  <2>2. ToSet(private_op_queue[t] \o s) = ToSet(private_op_queue[t]) \cup ToSet(s)
    BY <2>1, ToSetConcat
  <2>3. ToSet(private_op_queue'[t]) \cap Descriptors = {}
    BY <1>a, <1>c, <2>2, HandlersAreNoDescriptors DEF NoPrivateDescriptors
  <2> QED BY <1>a, <1>c, <2>3 DEF NoPrivateDescriptors
<1>1. ASSUME NEW t \in Threads, NEW h \in fresh, NEW c \in BOOLEAN,
             post_immediate_completion(t, h, c) PROVE NoPrivateDescriptors'
  <2>1. pc[t] # "task_cleanup"
    BY <1>1 DEF post_immediate_completion, UserCode
  <2>2. CASE /\ private_op_queue' = [private_op_queue EXCEPT ![t] = Append(@, h)]
             /\ UNCHANGED pc
    <3>1. <<h>> \in Seq(Handlers) /\ private_op_queue[t] \in Seq(Ops)
      BY <1>a
    <3>2. Append(private_op_queue[t], h) = private_op_queue[t] \o <<h>>
      BY <3>1
    <3> QED BY <1>c, <2>1, <2>2, <3>1, <3>2, Zenon
  <2>3. CASE UNCHANGED private_op_queue /\ pc' = [pc EXCEPT ![t] = "post"]
    BY <1>a, <1>b, <2>1, <2>3
  <2> QED BY <1>1, <2>2, <2>3 DEF post_immediate_completion, Goto
<1>2. ASSUME NEW t \in Threads, NEW s \in Seq(Handlers), pc[t] # "task_cleanup",
             post_deferred_completions(t, s) PROVE NoPrivateDescriptors'
  <2>1. CASE /\ private_op_queue' = [private_op_queue EXCEPT ![t] = @ \o s]
             /\ UNCHANGED pc
    BY <1>c, <1>2, <2>1
  <2>2. CASE UNCHANGED private_op_queue /\ pc' = [pc EXCEPT ![t] = "post"]
    BY <1>a, <1>b, <1>2, <2>2
  <2> QED BY <1>2, <2>1, <2>2 DEF post_deferred_completions, Goto
<1>d. \A s \in SetToAllKPermutations(pending_io) : s \in Seq(Handlers)
  BY <1>a, SchedulerAssumption, FS_Subset, PermutationSeq
<1>3. ASSUME NEW t \in Threads, NEW ops \in SetToAllKPermutations(pending_io),
             cancel(t, ops) PROVE NoPrivateDescriptors'
  <2>1. pc[t] # "task_cleanup" /\ post_deferred_completions(t, ops)
    BY <1>3 DEF cancel, UserCode
  <2> QED BY <1>2, <1>d, <2>1
<1>4. ASSUME NEW t \in Threads, NEW ready \in SetToAllKPermutations(pending_io),
             PerformIo(t, ready) PROVE NoPrivateDescriptors'
  <2>1. pc[t] = "handler"
    BY <1>4 DEF PerformIo
  <2>2. CASE UNCHANGED private_op_queue /\ pc' = [pc EXCEPT ![t] = "work_cleanup"]
    BY <1>a, <1>b, <2>1, <2>2
  <2>3. CASE UNCHANGED <<private_op_queue, pc>>
    BY <1>b, <2>3
  <2>4. CASE ready # <<>> /\ post_deferred_completions(t, Tail(ready))
    <3>1. Tail(ready) \in Seq(Handlers)
      BY <1>d, <2>4
    <3> QED BY <1>2, <2>1, <2>4, <3>1
  <2> QED BY <1>4, <2>2, <2>3, <2>4 DEF PerformIo, Goto
<1>5. ASSUME NEW t \in Threads, task_cleanup(t) \/ Requeue(t)
      PROVE NoPrivateDescriptors'
  <2>1. /\ private_op_queue' = [private_op_queue EXCEPT ![t] = <<>>]
        /\ \A u \in Threads : u # t => pc'[u] = pc[u]
    BY <1>5, <1>a DEF task_cleanup, Requeue, PushPrivate, Goto, ReturnFromRun
  <2>2. private_op_queue'[t] = <<>> /\ \A u \in Threads : u # t =>
                                         private_op_queue'[u] = private_op_queue[u]
    BY <1>a, <2>1
  <2> QED BY <2>1, <2>2, ToSetEmpty, Zenon DEF NoPrivateDescriptors
<1>6. ASSUME NEW t \in Threads, NEW ready, TaskReturn(t, ready) PROVE NoPrivateDescriptors'
  <2>1. /\ private_op_queue' = [private_op_queue EXCEPT ![t] = @ \o ready]
        /\ pc' = [pc EXCEPT ![t] = "task_cleanup"]
    BY <1>6 DEF TaskReturn, Goto
  <2> QED BY <1>a, <2>1 DEF NoPrivateDescriptors
<1>7. ASSUME NEW t \in Threads, NEW c, NEW h,
             \/ StopCall(t) \/ work_finished(t) \/ EnterRun(t, c) \/ HandlerReturn(t, c)
             \/ CondTimeout(t) \/ PolledNothing(t) \/ Leave(t) \/ EventWait(t)
             \/ EventWoken(t) \/ work_cleanup(t) \/ TaskEintr(t) \/ PostQueue(t)
             \/ PopTask(t) \/ PopHandler(t)
      PROVE NoPrivateDescriptors'
  <2>1. UNCHANGED private_op_queue
    BY <1>7 DEF StopCall, work_finished, EnterRun, HandlerReturn, CondTimeout,
         PolledNothing, Leave, EventWait, EventWoken, work_cleanup, TaskEintr,
         PostQueue, PopTask, PopHandler
  <2>2. /\ pc[t] # "task_cleanup"
        /\ \A u \in Threads : u # t => pc'[u] = pc[u]
    BY <1>7, <1>a DEF StopCall, work_finished, EnterRun, HandlerReturn, CondTimeout,
         PolledNothing, Leave, EventWait, EventWoken, work_cleanup, TaskEintr,
         PostQueue, PopTask, PopHandler, Looking, Goto, ReturnFromRun, UserCode
  <2> QED BY <1>b, <2>1, <2>2
<1>8. ASSUME NEW t \in Threads, stop(t) \/ CondSignal(t) PROVE NoPrivateDescriptors'
  <2>1. UNCHANGED private_op_queue
    BY <1>8 DEF stop, CondSignal
  <2>2. ASSUME stop(t) PROVE NoPrivateDescriptors'
    <3>1. /\ pc[t] # "task_cleanup"
          /\ pc' = [w \in Threads |->
                     IF w = t THEN IF pc[t] = "stop" THEN Caller(t) ELSE "requeue"
                     ELSE IF pc[w] = "wait" THEN "woken" ELSE pc[w]]
      BY <2>2 DEF stop, stop_all_threads
    <3> QED BY <1>b, <2>1, <3>1
  <2>3. ASSUME CondSignal(t) PROVE NoPrivateDescriptors'
    BY <1>a, <1>b, <2>1, <2>3 DEF CondSignal, Goto
  <2> QED BY <1>8, <2>2, <2>3
<1>9. ASSUME UNCHANGED <<private_op_queue, pc>> PROVE NoPrivateDescriptors'
  BY <1>b, <1>9
<1>10. ASSUME NEW t \in Threads, NEW h,
              \/ init_task(t) \/ start_io(t, h) \/ restart(t) \/ work_started(t)
              \/ Shutdown \/ UNCHANGED vars
       PROVE NoPrivateDescriptors'
  BY <1>9, <1>10 DEF init_task, start_io, restart, work_started, Shutdown, vars, thread
<1> QED
  BY <1>1, <1>3, <1>4, <1>5, <1>6, <1>7, <1>8, <1>9, <1>10
  DEF Next, UserStep, LibraryStep, vars, thread, Shutdown

(* Descriptor operations are in front of task_operation_ in the queue, and *)
(* none is queued while a thread is in the reactor: task_cleanup pushes    *)
(* them before task_operation_.                                            *)
LEMMA QueuedStep ==
  TypeOK /\ TaskInv /\ TaskInv' /\ DescriptorInv /\ [Next]_vars => QueuedDescriptors'
<1> SUFFICES ASSUME TypeOK, TaskInv, TaskInv', DescriptorInv, [Next]_vars
             PROVE  QueuedDescriptors'
  OBVIOUS
<1>a. /\ op_queue \in Seq(Ops \cup {Task}) /\ pc \in [Threads -> PcValues]
      /\ private_op_queue \in [Threads -> Seq(Ops)]
      /\ arg \in [Threads -> Seq(Handlers)]
      /\ Task \notin Descriptors
  BY SchedulerAssumption DEF TypeOK, QueueType, StateType
<1>b. ASSUME SameReactor, UNCHANGED task, NEW p \in Seq(Ops), op_queue' = op_queue \o p,
             ToSet(p) \cap Descriptors = {}
      PROVE  QueuedDescriptors'
  <2>1. p \in Seq(Ops \cup {Task})
    OBVIOUS
  <2>2. ToSet(op_queue') = ToSet(op_queue) \cup ToSet(p)
    BY <1>a, <1>b, <2>1, ToSetConcat
  <2>3. Before(op_queue', Descriptors, Task)
    BY <1>a, <1>b, <2>1, BeforeConcat DEF DescriptorInv, QueuedDescriptors
  <2>4. ToSet(op_queue') \cap Descriptors = ToSet(op_queue) \cap Descriptors
    BY <1>b, <2>2
  <2> QED BY <1>b, <2>3, <2>4, Zenon
          DEF DescriptorInv, QueuedDescriptors, DescriptorsDequeued, SameReactor
<1>c. ASSUME SameReactor, UNCHANGED <<op_queue, task>> PROVE QueuedDescriptors'
  BY <1>c, Zenon DEF DescriptorInv, QueuedDescriptors, DescriptorsDequeued, SameReactor, Before
<1>1. ASSUME NEW t \in Threads, init_task(t) PROVE QueuedDescriptors'
  <2>1. ~task /\ task' = TRUE /\ op_queue' = Append(op_queue, Task) /\ UNCHANGED pc
    BY <1>1, Zenon DEF init_task, thread
  <2>2. Task \notin ToSet(op_queue) /\ \A u \in Threads : ~InReactor(u)
    BY <2>1 DEF TaskInv
  <2>3. \A u \in Threads : ~InReactor(u)'
    BY <2>1, <2>2 DEF InReactor
  <2>4. Before(op_queue', Descriptors, Task)
    BY <1>a, <2>1, <2>2, BeforeAppend
  <2> QED BY <2>1, <2>3, <2>4, Zenon DEF QueuedDescriptors, DescriptorsDequeued
<1>2. ASSUME NEW t \in Threads, PostQueue(t) PROVE QueuedDescriptors'
  <2>1. op_queue' = op_queue \o arg[t] /\ UNCHANGED task
    BY <1>2 DEF PostQueue
  <2>2. arg[t] \in Seq(Ops) /\ ToSet(arg[t]) \cap Descriptors = {}
    BY <1>a, HandlersAreNoDescriptors DEF Ops
  <2>3. SameReactor
    BY <1>2, <1>a DEF PostQueue, SameReactor, InReactor, Goto, Caller
  <2> QED BY <1>b, <2>1, <2>2, <2>3
<1>3. ASSUME NEW t \in Threads, Requeue(t) PROVE QueuedDescriptors'
  <2>1. op_queue' = op_queue \o private_op_queue[t] /\ UNCHANGED task
    BY <1>3, PushNothing DEF Requeue
  <2>2. private_op_queue[t] \in Seq(Ops) /\ ToSet(private_op_queue[t]) \cap Descriptors = {}
    BY <1>3, <1>a DEF Requeue, DescriptorInv, NoPrivateDescriptors
  <2>3. SameReactor
    BY <1>3, <1>a DEF Requeue, SameReactor, InReactor, Goto, ReturnFromRun
  <2> QED BY <1>b, <2>1, <2>2, <2>3
<1>4. ASSUME NEW t \in Threads, PopTask(t) PROVE QueuedDescriptors'
  <2>1. /\ op_queue # <<>> /\ Head(op_queue) = Task /\ op_queue' = Tail(op_queue)
    BY <1>4 DEF PopTask
  <2>2. Before(op_queue', Descriptors, Task) /\ ToSet(op_queue) \cap Descriptors = {}
    BY <1>a, <2>1, BeforeTail DEF DescriptorInv, QueuedDescriptors
  <2>3. ToSet(op_queue') \cap Descriptors = {}
    BY <1>a, <2>1, <2>2, ToSetTail
  <2> QED BY <2>2, <2>3, Zenon DEF QueuedDescriptors, DescriptorsDequeued
<1>5. ASSUME NEW t \in Threads, task_cleanup(t) PROVE QueuedDescriptors'
  <2>1. /\ pc[t] = "task_cleanup"
        /\ pc'[t] \in {"loop", "polled"} /\ \A u \in Threads : u # t => pc'[u] = pc[u]
    BY <1>5, <1>a DEF task_cleanup, Goto, PcValues
  <2>2. op_queue' = (op_queue \o private_op_queue[t]) \o <<Task>> /\ UNCHANGED task
    BY <1>5 DEF task_cleanup, PushPrivate
  <2>3. InReactor(t) /\ \A u \in Threads : ~InReactor(u)'
    BY <2>1 DEF InReactor, TaskInv, TaskToken
  <2>4. task /\ Task \notin ToSet(op_queue)
    BY <2>3 DEF TaskInv, TaskToken
  <2> DEFINE q == op_queue \o private_op_queue[t]
  <2>5. q \in Seq(Ops \cup {Task}) /\ Task \notin ToSet(q)
    <3>1. private_op_queue[t] \in Seq(Ops) /\ private_op_queue[t] \in Seq(Ops \cup {Task})
      BY <1>a
    <3>2. Task \notin ToSet(private_op_queue[t])
      BY <3>1, SchedulerAssumption DEF ToSet, Ops
    <3> QED BY <3>1, <3>2, <1>a, <2>4, ToSetConcat
  <2> HIDE DEF q
  <2>6. op_queue' = Append(q, Task)
    BY <2>2, <2>5 DEF q
  <2>7. Before(op_queue', Descriptors, Task)
    BY <1>a, <2>5, <2>6, BeforeAppend
  <2> QED BY <2>2, <2>3, <2>4, <2>7, Zenon DEF QueuedDescriptors, DescriptorsDequeued
<1>6. ASSUME NEW t \in Threads, PopHandler(t) PROVE QueuedDescriptors'
  <2>1. /\ op_queue # <<>> /\ op_queue' = Tail(op_queue) /\ UNCHANGED task
    BY <1>6 DEF PopHandler
  <2>2. pc[t] \in {"loop", "waited", "polled"} /\ pc' = [pc EXCEPT ![t] = "handler"]
    BY <1>6 DEF PopHandler, Looking, Goto
  <2>3. SameReactor
    BY <1>a, <2>2 DEF SameReactor, InReactor
  <2>4. Before(op_queue', Descriptors, Task)
    BY <1>a, <2>1, BeforeTail DEF DescriptorInv, QueuedDescriptors
  <2>5. ToSet(op_queue') \subseteq ToSet(op_queue)
    BY <1>a, <2>1, ToSetTail
  <2> QED BY <2>1, <2>3, <2>4, <2>5
          DEF DescriptorInv, QueuedDescriptors, DescriptorsDequeued, SameReactor
<1>7. ASSUME Shutdown PROVE QueuedDescriptors'
  <2>1. op_queue' = <<>>
    BY <1>7 DEF Shutdown
  <2> QED BY <2>1, ToSetEmpty, Zenon DEF QueuedDescriptors, DescriptorsDequeued, Before
<1>8. ASSUME UNCHANGED <<op_queue, task>>, SameReactor PROVE QueuedDescriptors'
  BY <1>c, <1>8
<1> QED
  BY <1>1, <1>2, <1>3, <1>4, <1>5, <1>6, <1>7, <1>8, ReactorStep
  DEF Next, UserStep, LibraryStep, vars, sched, thread

(* What the first comment of epoll_reactor::run relies on: whenever a      *)
(* thread is in the reactor, every descriptor operation the reactor        *)
(* returned before has left the queue.                                     *)
THEOREM DescriptorsInvariant == Spec => []DescriptorsDequeued
<1>1. DescriptorInv => DescriptorsDequeued
  BY DEF DescriptorInv, QueuedDescriptors
<1>2. TypeOK /\ TaskInv /\ TaskInv' /\ DescriptorInv /\ [Next]_vars => DescriptorInv'
  BY PrivateStep, QueuedStep DEF DescriptorInv
<1> QED
  BY <1>1, <1>2, TypeCorrect, TaskInvInit, TaskInvStep, DescriptorInvInit, PTL DEF Spec

-----------------------------------------------------------------------------
(* Every operation is in one place until it is invoked or destroyed, and   *)
(* outstanding_work_ counts the ones that keep the loop alive.             *)

-----------------------------------------------------------------------------
(* Sequences without repetition.                                           *)

(* An order in which the reactor, perform_io or cancel() hands operations  *)
(* over names each of them once.                                           *)
LEMMA PermutationOnce ==
  ASSUME NEW S, NEW s \in SetToAllKPermutations(S), NEW x
  PROVE  Once(s, x)
<1>1. PICK R \in SUBSET S : s \in SetToSeqs(R)
  BY DEF SetToAllKPermutations
<1>2. /\ s \in [1..Cardinality(R) -> R]
      /\ \A i, j \in 1..Cardinality(R) : i # j => s[i] # s[j]
  BY <1>1 DEF SetToSeqs
<1> QED BY <1>2 DEF Once

(* Joining two queues that do not both have x leaves at most one x.        *)
LEMMA OnceJoin ==
  ASSUME NEW S, NEW s \in Seq(S), NEW r \in Seq(S), NEW x,
         Once(s, x), Once(r, x), ~(x \in ToSet(s) /\ x \in ToSet(r))
  PROVE  Once(s \o r, x)
<1> SUFFICES ASSUME NEW i \in 1..Len(s \o r), NEW j \in 1..Len(s \o r),
                    (s \o r)[i] = x, (s \o r)[j] = x
             PROVE  i = j
  BY DEF Once
<1>1. ASSUME NEW k \in 1..Len(s \o r), (s \o r)[k] = x
      PROVE  \/ k \in 1..Len(s) /\ s[k] = x /\ x \in ToSet(s)
             \/ /\ k - Len(s) \in 1..Len(r) /\ r[k - Len(s)] = x /\ x \in ToSet(r)
                /\ k \in Int
  <2>1. CASE k > Len(s)
    <3>1. k - Len(s) \in 1..Len(r) /\ r[k - Len(s)] = x
      BY <1>1, <2>1
    <3> QED BY <3>1 DEF ToSet
  <2>2. CASE k <= Len(s)
    <3>1. k \in 1..Len(s) /\ s[k] = x
      BY <1>1, <2>2
    <3> QED BY <3>1 DEF ToSet
  <2> QED BY <2>1, <2>2
<1>2. CASE x \in ToSet(s)
  BY <1>1, <1>2 DEF Once
<1>3. CASE x \notin ToSet(s)
  <2>1. i - Len(s) \in DOMAIN r /\ j - Len(s) \in DOMAIN r
    BY <1>1, <1>3
  <2>2. i - Len(s) = j - Len(s)
    BY <1>1, <1>3, <2>1 DEF Once
  <2> QED BY <2>2
<1> QED BY <1>2, <1>3

(* The rest of a queue whose front is not x has x if the queue has.        *)
LEMMA ToSetRest ==
  ASSUME NEW S, NEW s \in Seq(S), s # <<>>, NEW x, Once(s, x)
  PROVE  x \in ToSet(Tail(s)) <=> x \in ToSet(s) /\ Head(s) # x
BY ToSetTail, OnceTail

-----------------------------------------------------------------------------
(* The queues of the threads: private_op_queue and arg.                    *)

(* Some thread's queue has h. *)
Held(f, h) == \E t \in Threads : h \in ToSet(f[t])

(* At most one thread's queue has h, and has it once. *)
HeldOnce(f, h) ==
  /\ \A t \in Threads : Once(f[t], h)
  /\ \A t, u \in Threads : h \in ToSet(f[t]) /\ h \in ToSet(f[u]) => t = u

(* A thread gives its queue away.                                          *)
LEMMA HeldClear ==
  ASSUME NEW S, NEW f \in [Threads -> Seq(S)], NEW t \in Threads, NEW h, HeldOnce(f, h),
         NEW g, g = [f EXCEPT ![t] = <<>>]
  PROVE  HeldOnce(g, h) /\ (Held(g, h) <=> Held(f, h) /\ h \notin ToSet(f[t]))
<1>1. g[t] = <<>> /\ \A u \in Threads : u # t => g[u] = f[u]
  OBVIOUS
<1>2. h \notin ToSet(g[t]) /\ Once(g[t], h)
  BY <1>1, ToSetEmpty, Zenon DEF Once
<1> QED BY <1>1, <1>2, Zenon DEF HeldOnce, Held

(* A thread gets operations no thread has.                                 *)
LEMMA HeldPush ==
  ASSUME NEW f \in [Threads -> Seq(Ops)], NEW t \in Threads, NEW h, HeldOnce(f, h),
         NEW s \in Seq(Ops), Once(s, h), ~(Held(f, h) /\ h \in ToSet(s))
  PROVE  /\ HeldOnce([f EXCEPT ![t] = f[t] \o s], h)
         /\ Held([f EXCEPT ![t] = f[t] \o s], h) <=> Held(f, h) \/ h \in ToSet(s)
<1> DEFINE g == [f EXCEPT ![t] = f[t] \o s]
<1>1. g[t] = f[t] \o s /\ \A u \in Threads : u # t => g[u] = f[u]
  OBVIOUS
<1> HIDE DEF g
<1>2. ToSet(g[t]) = ToSet(f[t]) \cup ToSet(s)
  BY <1>1, ToSetConcat
<1>3. Once(g[t], h)
  BY <1>1, OnceJoin DEF HeldOnce, Held
<1>4. h \in ToSet(g[t]) <=> h \in ToSet(f[t]) \/ h \in ToSet(s)
  BY <1>2
<1>5. HeldOnce(g, h) /\ (Held(g, h) <=> Held(f, h) \/ h \in ToSet(s))
  BY <1>1, <1>3, <1>4, Zenon DEF HeldOnce, Held
<1> QED BY <1>5, Zenon DEF g

(* A thread whose queue is empty is given one.                             *)
LEMMA HeldAssign ==
  ASSUME NEW f \in [Threads -> Seq(Ops)], NEW t \in Threads, f[t] = <<>>,
         NEW h, HeldOnce(f, h),
         NEW s \in Seq(Ops), Once(s, h), ~(Held(f, h) /\ h \in ToSet(s))
  PROVE  /\ HeldOnce([f EXCEPT ![t] = s], h)
         /\ Held([f EXCEPT ![t] = s], h) <=> Held(f, h) \/ h \in ToSet(s)
<1>1. f[t] \o s = s
  OBVIOUS
<1>2. [f EXCEPT ![t] = f[t] \o s] = [f EXCEPT ![t] = s]
  BY <1>1, Zenon
<1> QED BY <1>2, HeldPush, Zenon

-----------------------------------------------------------------------------
(* What a thread holds, by where it is.                                    *)

(* A thread has operations to post only on its way to the lock, and an      *)
(* operation to run only while it runs it.                                  *)
HoldsInv ==
  \A t \in Threads :
    /\ arg[t] # <<>> => pc[t] = "post"
    /\ current[t] # None => pc[t] \in {"handler", "post", "stop"}

(* A thread lets go of the operations it posts when it has queued them, and *)
(* of the operation it runs when work_cleanup begins.                       *)
LEMMA HoldsStep == TypeOK /\ HoldsInv /\ [Next]_vars => HoldsInv'
<1> SUFFICES ASSUME TypeOK, HoldsInv, [Next]_vars PROVE HoldsInv'
  OBVIOUS
<1>a. /\ pc \in [Threads -> PcValues] /\ arg \in [Threads -> Seq(Handlers)]
      /\ current \in [Threads -> Ops \cup {None}]
  BY DEF TypeOK, QueueType, StateType
<1> USE DEF HoldsInv
<1>1. ASSUME NEW t \in Threads, NEW c, NEW ready,
             \/ EnterRun(t, c) \/ TaskReturn(t, ready) \/ TaskEintr(t) \/ PopTask(t)
             \/ task_cleanup(t) \/ PolledNothing(t) \/ EventWait(t) \/ EventWoken(t)
             \/ Leave(t) \/ work_cleanup(t) \/ Requeue(t) \/ CondTimeout(t)
      PROVE  HoldsInv'
  <2>1. UNCHANGED <<arg, current>>
    BY <1>1 DEF EnterRun, TaskReturn, TaskEintr, PopTask, task_cleanup, PolledNothing,
         EventWait, EventWoken, Leave, work_cleanup, Requeue, CondTimeout
  <2>2. pc[t] \notin {"handler", "post", "stop"} /\ \A u \in Threads : u # t => pc'[u] = pc[u]
    BY <1>1, <1>a DEF EnterRun, TaskReturn, TaskEintr, PopTask, task_cleanup, PolledNothing,
         EventWait, EventWoken, Leave, work_cleanup, Requeue, CondTimeout, Looking, Goto,
         ReturnFromRun
  <2> QED BY <2>1, <2>2
<1>2. ASSUME NEW t \in Threads, StopCall(t) \/ work_finished(t) PROVE HoldsInv'
  <2>1. UNCHANGED <<arg, current>>
    BY <1>2 DEF StopCall, work_finished
  <2>2. /\ pc[t] \in {"out", "handler"} /\ \A u \in Threads : u # t => pc'[u] = pc[u]
        /\ pc'[t] \in {"stop", pc[t]}
    BY <1>2, <1>a DEF StopCall, work_finished, UserCode, Goto
  <2> QED BY <2>1, <2>2
<1>3. ASSUME NEW t \in Threads, stop(t) PROVE HoldsInv'
  <2>1. /\ UNCHANGED <<arg, current>> /\ pc[t] \in {"stop", "cleanup_stop"}
        /\ \A u \in Threads : u # t => pc'[u] = IF pc[u] = "wait" THEN "woken" ELSE pc[u]
        /\ pc'[t] = IF pc[t] = "stop" THEN Caller(t) ELSE "requeue"
    BY <1>3 DEF stop, stop_all_threads
  <2> QED BY <2>1 DEF Caller
<1>4. ASSUME NEW t \in Threads, CondSignal(t) PROVE HoldsInv'
  <2>1. UNCHANGED <<arg, current>>
    BY <1>4 DEF CondSignal
  <2>2. \A u \in Threads : pc'[u] = pc[u] \/ pc[u] = "wait"
    BY <1>4, <1>a DEF CondSignal, Goto
  <2> QED BY <2>1, <2>2
<1>5. ASSUME NEW t \in Threads, NEW h, NEW c, post_immediate_completion(t, h, c) PROVE HoldsInv'
  <2>1. pc[t] \in {"out", "handler"} /\ UNCHANGED current
    BY <1>5 DEF post_immediate_completion, UserCode
  <2>2. \/ UNCHANGED <<pc, arg>>
        \/ pc' = [pc EXCEPT ![t] = "post"] /\ arg' = [arg EXCEPT ![t] = <<h>>]
    BY <1>5 DEF post_immediate_completion, Goto
  <2> QED BY <1>a, <2>1, <2>2
<1>6. ASSUME NEW t \in Threads, NEW ops, cancel(t, ops) PROVE HoldsInv'
  <2>1. pc[t] \in {"out", "handler"} /\ UNCHANGED current
    BY <1>6 DEF cancel, UserCode
  <2>2. \/ UNCHANGED <<pc, arg>>
        \/ pc' = [pc EXCEPT ![t] = "post"] /\ arg' = [arg EXCEPT ![t] = ops]
    BY <1>6 DEF cancel, post_deferred_completions, Goto
  <2> QED BY <1>a, <2>1, <2>2
<1>7. ASSUME NEW t \in Threads, NEW ready, PerformIo(t, ready) PROVE HoldsInv'
  <2>1. pc[t] = "handler"
    BY <1>7 DEF PerformIo
  <2>2. \/ /\ current' = [current EXCEPT ![t] = None]
           /\ pc' = [pc EXCEPT ![t] = "work_cleanup"] /\ UNCHANGED arg
        \/ current' = [current EXCEPT ![t] = Head(ready)] /\ UNCHANGED <<pc, arg>>
        \/ /\ current' = [current EXCEPT ![t] = Head(ready)]
           /\ pc' = [pc EXCEPT ![t] = "post"] /\ arg' = [arg EXCEPT ![t] = Tail(ready)]
    BY <1>7, Zenon DEF PerformIo, post_deferred_completions, Goto
  <2> QED BY <1>a, <2>1, <2>2
<1>8. ASSUME NEW t \in Threads, PostQueue(t) PROVE HoldsInv'
  <2>1. /\ arg' = [arg EXCEPT ![t] = <<>>] /\ UNCHANGED current
        /\ pc' = [pc EXCEPT ![t] = Caller(t)]
    BY <1>8 DEF PostQueue, Goto
  <2> QED BY <1>a, <2>1 DEF Caller
<1>9. ASSUME NEW t \in Threads, NEW c, HandlerReturn(t, c) PROVE HoldsInv'
  <2>1. /\ pc[t] = "handler" /\ current' = [current EXCEPT ![t] = None] /\ UNCHANGED arg
        /\ pc' = [pc EXCEPT ![t] = "work_cleanup"]
    BY <1>9 DEF HandlerReturn, Goto
  <2> QED BY <1>a, <2>1
<1>10. ASSUME NEW t \in Threads, PopHandler(t) PROVE HoldsInv'
  <2>1. /\ pc[t] \in {"loop", "waited", "polled"} /\ pc' = [pc EXCEPT ![t] = "handler"]
        /\ current' = [current EXCEPT ![t] = Head(op_queue)] /\ UNCHANGED arg
    BY <1>10 DEF PopHandler, Looking, Goto
  <2> QED BY <1>a, <2>1
<1>11. ASSUME UNCHANGED thread PROVE HoldsInv'
  BY <1>11 DEF thread
<1>12. ASSUME NEW t \in Threads, NEW h,
              \/ init_task(t) \/ start_io(t, h) \/ restart(t) \/ work_started(t)
              \/ Shutdown \/ UNCHANGED vars
       PROVE  UNCHANGED thread
  BY <1>12 DEF init_task, start_io, restart, work_started, Shutdown, vars
<1> HIDE DEF HoldsInv
<1> QED
  BY <1>1, <1>2, <1>3, <1>4, <1>5, <1>6, <1>7, <1>8, <1>9, <1>10, <1>11, <1>12
  DEF Next, UserStep, LibraryStep, vars, Shutdown

-----------------------------------------------------------------------------
(* Every handler is in exactly one place.                                  *)

InPrivate(h) == Held(private_op_queue, h)

(* One of the places of ExactlyOnce, and no two. *)
OnePlace(h) ==
  /\ \/ h \in fresh \/ h \in pending_io \/ h \in done \/ h \in destroyed
     \/ h \in ToSet(op_queue) \/ InFlight(h) \/ Running(h) \/ InPrivate(h)
  /\ h \in fresh => ~(\/ h \in pending_io \/ h \in done \/ h \in destroyed
                      \/ h \in ToSet(op_queue) \/ InFlight(h) \/ Running(h)
                      \/ InPrivate(h))
  /\ h \in pending_io => ~(\/ h \in done \/ h \in destroyed \/ h \in ToSet(op_queue)
                           \/ InFlight(h) \/ Running(h) \/ InPrivate(h))
  /\ h \in done => ~(\/ h \in destroyed \/ h \in ToSet(op_queue) \/ InFlight(h)
                     \/ Running(h) \/ InPrivate(h))
  /\ h \in destroyed => ~(\/ h \in ToSet(op_queue) \/ InFlight(h) \/ Running(h)
                          \/ InPrivate(h))
  /\ h \in ToSet(op_queue) => ~(InFlight(h) \/ Running(h) \/ InPrivate(h))
  /\ InFlight(h) => ~(Running(h) \/ InPrivate(h))
  /\ Running(h) => ~InPrivate(h)

(* ... and in that place once: at one position of one thread's queue, or    *)
(* run by one thread.                                                       *)
OnceAt(h) ==
  /\ OnePlace(h)
  /\ Once(op_queue, h) /\ HeldOnce(arg, h) /\ HeldOnce(private_op_queue, h)
  /\ \A t, u \in Threads : current[t] = h /\ current[u] = h => t = u

OnceInv == \A h \in Handlers : OnceAt(h)

(* The list of places in ExactlyOnce says the same.                        *)
LEMMA OnceMeansExactlyOnce == OnceInv => ExactlyOnce
<1> SUFFICES ASSUME OnceInv, NEW h \in Handlers
             PROVE  /\ \E i \in 1..8 : Place(h)[i] /\ \A j \in 1..8 : Place(h)[j] => i = j
                    /\ Once(op_queue, h)
  BY DEF ExactlyOnce, Once
<1>1. OnceAt(h)
  BY DEF OnceInv
<1>2. /\ Place(h)[1] = (h \in fresh) /\ Place(h)[2] = (h \in pending_io)
      /\ Place(h)[3] = (h \in done) /\ Place(h)[4] = (h \in destroyed)
      /\ Place(h)[5] = (h \in ToSet(op_queue)) /\ Place(h)[6] = InFlight(h)
      /\ Place(h)[7] = Running(h) /\ Place(h)[8] = InPrivate(h)
  BY DEF Place, InPrivate, Held
<1>3. \A j \in 1..8 : j = 1 \/ j = 2 \/ j = 3 \/ j = 4 \/ j = 5 \/ j = 6 \/ j = 7 \/ j = 8
  OBVIOUS
<1>4. 1 \in 1..8 /\ 2 \in 1..8 /\ 3 \in 1..8 /\ 4 \in 1..8 /\ 5 \in 1..8 /\ 6 \in 1..8
      /\ 7 \in 1..8 /\ 8 \in 1..8
  OBVIOUS
<1>5. OnePlace(h)
  BY <1>1 DEF OnceAt
<1>6. \E i \in 1..8 : Place(h)[i] /\ \A j \in 1..8 : Place(h)[j] => i = j
  <2>1. CASE h \in fresh
    <3>1. Place(h)[1] /\ \A j \in 1..8 : Place(h)[j] => 1 = j
      BY <1>2, <1>3, <1>5, <2>1, Zenon DEF OnePlace
    <3> QED BY <1>4, <3>1, Zenon
  <2>2. CASE h \in pending_io
    <3>1. Place(h)[2] /\ \A j \in 1..8 : Place(h)[j] => 2 = j
      BY <1>2, <1>3, <1>5, <2>2, Zenon DEF OnePlace
    <3> QED BY <1>4, <3>1, Zenon
  <2>3. CASE h \in done
    <3>1. Place(h)[3] /\ \A j \in 1..8 : Place(h)[j] => 3 = j
      BY <1>2, <1>3, <1>5, <2>3, Zenon DEF OnePlace
    <3> QED BY <1>4, <3>1, Zenon
  <2>4. CASE h \in destroyed
    <3>1. Place(h)[4] /\ \A j \in 1..8 : Place(h)[j] => 4 = j
      BY <1>2, <1>3, <1>5, <2>4, Zenon DEF OnePlace
    <3> QED BY <1>4, <3>1, Zenon
  <2>5. CASE h \in ToSet(op_queue)
    <3>1. Place(h)[5] /\ \A j \in 1..8 : Place(h)[j] => 5 = j
      BY <1>2, <1>3, <1>5, <2>5, Zenon DEF OnePlace
    <3> QED BY <1>4, <3>1, Zenon
  <2>6. CASE InFlight(h)
    <3>1. Place(h)[6] /\ \A j \in 1..8 : Place(h)[j] => 6 = j
      BY <1>2, <1>3, <1>5, <2>6, Zenon DEF OnePlace
    <3> QED BY <1>4, <3>1, Zenon
  <2>7. CASE Running(h)
    <3>1. Place(h)[7] /\ \A j \in 1..8 : Place(h)[j] => 7 = j
      BY <1>2, <1>3, <1>5, <2>7, Zenon DEF OnePlace
    <3> QED BY <1>4, <3>1, Zenon
  <2>8. CASE InPrivate(h)
    <3>1. Place(h)[8] /\ \A j \in 1..8 : Place(h)[j] => 8 = j
      BY <1>2, <1>3, <1>5, <2>8, Zenon DEF OnePlace
    <3> QED BY <1>4, <3>1, Zenon
  <2> QED BY <1>5, <2>1, <2>2, <2>3, <2>4, <2>5, <2>6, <2>7, <2>8, Zenon DEF OnePlace
<1> QED BY <1>1, <1>6, Zenon DEF OnceAt

(* No handler has been started when the scheduler is constructed.          *)
LEMMA OnceInit == Init => OnceInv /\ HoldsInv
<1> SUFFICES ASSUME Init PROVE OnceInv /\ HoldsInv
  OBVIOUS
<1>1. /\ op_queue = <<>> /\ \A t \in Threads : arg[t] = <<>> /\ private_op_queue[t] = <<>>
      /\ \A t \in Threads : current[t] = None
      /\ fresh = Handlers /\ pending_io = {} /\ done = {} /\ destroyed = {}
  BY DEF Init
<1>2. HoldsInv
  BY <1>1 DEF HoldsInv
<1>3. None \notin Handlers
  BY SchedulerAssumption
<1> SUFFICES ASSUME NEW h \in Handlers PROVE OnceAt(h)
  BY <1>2 DEF OnceInv
<1>4. OnePlace(h)
  BY <1>1, <1>3, ToSetEmpty, Zenon DEF OnePlace, InFlight, Running, InPrivate, Held
<1>5. Once(op_queue, h) /\ HeldOnce(arg, h) /\ HeldOnce(private_op_queue, h)
  BY <1>1, ToSetEmpty, Zenon DEF Once, HeldOnce
<1> QED BY <1>1, <1>3, <1>4, <1>5, Zenon DEF OnceAt

(* A step that is not one of these leaves every handler where it is.       *)
LEMMA HandlerStep ==
  ASSUME [Next]_vars
  PROVE  \/ UNCHANGED <<fresh, pending_io, done, destroyed, op_queue, arg, current,
                        private_op_queue>>
         \/ \E t \in Threads :
              \/ init_task(t) \/ PostQueue(t) \/ PopTask(t) \/ task_cleanup(t)
              \/ PopHandler(t) \/ Requeue(t)
              \/ \E h \in fresh : \/ start_io(t, h)
                                  \/ \E c \in BOOLEAN : post_immediate_completion(t, h, c)
              \/ \E ops \in SetToAllKPermutations(pending_io) :
                    cancel(t, ops) \/ PerformIo(t, ops)
              \/ \E ready \in SetToAllKPermutations(pending_io \cup Descriptors) :
                    TaskReturn(t, ready)
              \/ \E throws \in BOOLEAN : HandlerReturn(t, throws)
         \/ Shutdown
<1> DEFINE Same == UNCHANGED <<fresh, pending_io, done, destroyed, op_queue, arg, current,
                               private_op_queue>>
<1>1. ASSUME NEW t \in Threads, NEW c,
             \/ StopCall(t) \/ stop(t) \/ restart(t) \/ work_started(t) \/ work_finished(t)
             \/ EnterRun(t, c) \/ CondSignal(t) \/ PolledNothing(t) \/ EventWait(t)
             \/ EventWoken(t) \/ Leave(t) \/ work_cleanup(t) \/ TaskEintr(t)
             \/ CondTimeout(t) \/ UNCHANGED vars
      PROVE  Same
  BY <1>1 DEF StopCall, stop, restart, work_started, work_finished, EnterRun, CondSignal,
       PolledNothing, EventWait, EventWoken, Leave, work_cleanup, TaskEintr, CondTimeout,
       vars, sched, thread, world
<1>2. TRUE \in BOOLEAN /\ FALSE \in BOOLEAN
  OBVIOUS
<1> HIDE DEF Same
<1>3. CASE UNCHANGED vars
  BY <1>3 DEF vars, sched, thread, world, Same
<1> DEFINE Moves(t) ==
              \/ init_task(t) \/ PostQueue(t) \/ PopTask(t) \/ task_cleanup(t)
              \/ PopHandler(t) \/ Requeue(t)
              \/ \E h \in fresh : \/ start_io(t, h)
                                  \/ \E c \in BOOLEAN : post_immediate_completion(t, h, c)
              \/ \E ops \in SetToAllKPermutations(pending_io) :
                    cancel(t, ops) \/ PerformIo(t, ops)
              \/ \E ready \in SetToAllKPermutations(pending_io \cup Descriptors) :
                    TaskReturn(t, ready)
              \/ \E throws \in BOOLEAN : HandlerReturn(t, throws)
<1>4. ASSUME NEW t \in Threads, UserStep(t) PROVE Same \/ Moves(t)
  BY <1>1, <1>2, <1>4, Zenon DEF UserStep
<1>5. ASSUME NEW t \in Threads, LibraryStep(t) PROVE Same \/ Moves(t)
  BY <1>1, <1>2, <1>5, Zenon DEF LibraryStep
<1>6. ASSUME Next PROVE Same \/ (\E t \in Threads : Moves(t)) \/ Shutdown
  <2> HIDE DEF Moves
  <2>1. CASE "shutdown" \in Api /\ Shutdown
    BY <2>1, Zenon
  <2>2. ASSUME NEW t \in Threads,
               \E ready \in SetToAllKPermutations(pending_io \cup Descriptors) :
                 TaskReturn(t, ready)
        PROVE  Moves(t)
    BY <2>2, Zenon DEF Moves
  <2> QED BY <1>1, <1>4, <1>5, <1>6, <2>1, <2>2, Zenon DEF Next
<1> QED BY <1>3, <1>6, Zenon DEF Same

(* Every step moves a handler from one place to the next, and takes it out  *)
(* of the first: a queue that is pushed on another is emptied, a private    *)
(* queue goes with its thread, and no thread overwrites what it holds.      *)
LEMMA OnceStep == TypeOK /\ HoldsInv /\ OnceInv /\ [Next]_vars => OnceInv'
<1> SUFFICES ASSUME TypeOK, HoldsInv, OnceInv, [Next]_vars, NEW h \in Handlers
             PROVE  OnceAt(h)'
  BY DEF OnceInv
<1>a. /\ pc \in [Threads -> PcValues] /\ arg \in [Threads -> Seq(Handlers)]
      /\ current \in [Threads -> Ops \cup {None}]
      /\ private_op_queue \in [Threads -> Seq(Ops)]
      /\ op_queue \in Seq(Ops \cup {Task})
      /\ fresh \subseteq Handlers /\ pending_io \subseteq Handlers
  BY DEF TypeOK, QueueType, StateType
<1>b. h \in Ops /\ h # Task /\ h # None /\ h \notin Descriptors
  BY SchedulerAssumption DEF Ops
<1>c. /\ OnePlace(h) /\ Once(op_queue, h)
      /\ HeldOnce(arg, h) /\ HeldOnce(private_op_queue, h)
      /\ \A t, u \in Threads : current[t] = h /\ current[u] = h => t = u
  BY DEF OnceInv, OnceAt
<1>d. \A s \in SetToAllKPermutations(pending_io) :
        s \in Seq(Handlers) /\ s \in Seq(Ops) /\ ToSet(s) \subseteq pending_io /\ Once(s, h)
  <2>1. IsFiniteSet(pending_io)
    BY <1>a, SchedulerAssumption, FS_Subset
  <2> QED BY <1>a, <2>1, PermutationSeq, PermutationOnce DEF Ops
<1>e. \A s \in SetToAllKPermutations(pending_io \cup Descriptors) :
        s \in Seq(Ops) /\ ToSet(s) \subseteq pending_io \cup Descriptors /\ Once(s, h)
  <2>1. IsFiniteSet(pending_io \cup Descriptors)
    BY <1>a, SchedulerAssumption, FS_Subset, FS_Union
  <2> QED BY <1>a, <2>1, PermutationSeq, PermutationOnce DEF Ops
<1>f. (InFlight(h) <=> Held(arg, h)) /\ (InFlight(h)' <=> Held(arg', h))
  BY DEF InFlight, Held
<1>g. ASSUME UNCHANGED current
      PROVE  /\ Running(h)' <=> Running(h)
             /\ \A t, u \in Threads : current'[t] = h /\ current'[u] = h => t = u
  BY <1>c, <1>g, Zenon DEF Running
<1>h. /\ (UNCHANGED op_queue => Once(op_queue', h))
      /\ (UNCHANGED arg => HeldOnce(arg', h))
      /\ (UNCHANGED private_op_queue => HeldOnce(private_op_queue', h))
  BY <1>c, Zenon
<1>i. <<h>> \in Seq(Handlers) /\ <<h>> \in Seq(Ops) /\ Once(<<h>>, h) /\ ToSet(<<h>>) = {h}
  <2>1. ToSet(<<h>>) = {h}
    BY ToSetOne
  <2> QED BY <1>b, <2>1 DEF Once
<1> USE DEF OnceAt
<1>1. ASSUME NEW t \in Threads, init_task(t) PROVE OnceAt(h)'
  <2>1. /\ op_queue' = Append(op_queue, Task)
        /\ UNCHANGED <<fresh, pending_io, done, destroyed, arg, current, private_op_queue>>
    BY <1>1 DEF init_task, thread
  <2>2. op_queue' = op_queue \o <<Task>> /\ <<Task>> \in Seq(Ops \cup {Task})
    BY <1>a, <2>1
  <2>3. ToSet(<<Task>>) = {Task}
    BY ToSetOne
  <2>4. Once(op_queue', h) /\ (h \in ToSet(op_queue') <=> h \in ToSet(op_queue))
    <3>1. h \notin ToSet(<<Task>>)
      BY <1>b, <2>3
    <3>2. Once(op_queue', h)
      BY <1>a, <1>c, <2>2, <3>1, OnceConcat, Zenon
    <3>3. ToSet(op_queue') = ToSet(op_queue) \cup ToSet(<<Task>>)
      <4>1. \A r \in Seq(Ops \cup {Task}) :
              ToSet(op_queue \o r) = ToSet(op_queue) \cup ToSet(r)
        BY <1>a, ToSetConcat
      <4> QED BY <2>2, <4>1, Zenon
    <3> QED BY <3>1, <3>2, <3>3
  <2>5. OnePlace(h)'
    BY <1>c, <1>f, <1>g, <2>1, <2>4, Zenon DEF OnePlace, InPrivate
  <2> QED BY <1>g, <1>h, <2>1, <2>4, <2>5, Zenon
<1>2. ASSUME NEW t \in Threads, NEW g \in fresh, start_io(t, g) PROVE OnceAt(h)'
  <2>1. /\ fresh' = fresh \ {g} /\ pending_io' = pending_io \cup {g}
        /\ UNCHANGED <<op_queue, done, destroyed, arg, current, private_op_queue>>
    BY <1>2 DEF start_io, thread
  <2>2. OnePlace(h)'
    BY <1>c, <1>f, <1>g, <2>1, Zenon DEF OnePlace, InPrivate
  <2> QED BY <1>g, <1>h, <2>1, <2>2, Zenon
<1>3. ASSUME NEW t \in Threads, NEW g \in fresh, NEW c \in BOOLEAN,
             post_immediate_completion(t, g, c) PROVE OnceAt(h)'
  <2>1. /\ fresh' = fresh \ {g} /\ pc[t] \in {"out", "handler"}
        /\ UNCHANGED <<op_queue, pending_io, done, destroyed, current>>
        /\ \/ /\ private_op_queue' = [private_op_queue EXCEPT ![t] = Append(@, g)]
              /\ UNCHANGED arg
           \/ arg' = [arg EXCEPT ![t] = <<g>>] /\ UNCHANGED private_op_queue
    BY <1>3 DEF post_immediate_completion, UserCode
  <2>2. <<g>> \in Seq(Handlers) /\ <<g>> \in Seq(Ops) /\ Once(<<g>>, h) /\ ToSet(<<g>>) = {g}
    <3>1. ToSet(<<g>>) = {g}
      BY ToSetOne
    <3>2. g \in Handlers /\ g \in Ops
      BY <1>a DEF Ops
    <3>3. Once(<<g>>, h)
      BY DEF Once
    <3> QED BY <3>1, <3>2, <3>3
  <2>3. h = g => ~Held(arg, h) /\ ~Held(private_op_queue, h)
    BY <1>c, <1>f, Zenon DEF OnePlace, InPrivate
  <2>4. CASE /\ private_op_queue' = [private_op_queue EXCEPT ![t] = Append(@, g)]
             /\ UNCHANGED arg
    <3>0. private_op_queue[t] \in Seq(Ops) /\ g \in Ops
      BY <1>a DEF Ops
    <3>1. private_op_queue' = [private_op_queue EXCEPT ![t] = private_op_queue[t] \o <<g>>]
      <4>1. Append(private_op_queue[t], g) = private_op_queue[t] \o <<g>>
        BY <3>0
      <4> QED BY <2>4, <4>1, Zenon
    <3>2. /\ HeldOnce(private_op_queue', h)
          /\ Held(private_op_queue', h) <=> Held(private_op_queue, h) \/ h = g
      <4>1. h \in ToSet(<<g>>) <=> h = g
        BY <2>2
      <4> QED BY <1>a, <1>c, <2>2, <2>3, <3>1, <4>1, HeldPush, Zenon
    <3>3. OnePlace(h)'
      BY <1>c, <1>f, <1>g, <2>1, <2>4, <3>2, Zenon DEF OnePlace, InPrivate
    <3> QED BY <1>g, <1>h, <2>1, <2>4, <3>2, <3>3, Zenon
  <2>5. CASE arg' = [arg EXCEPT ![t] = <<g>>] /\ UNCHANGED private_op_queue
    <3>1. arg[t] = <<>>
      BY <2>1 DEF HoldsInv
    <3>2. HeldOnce(arg', h) /\ (Held(arg', h) <=> Held(arg, h) \/ h = g)
      <4>1. arg \in [Threads -> Seq(Ops)]
        BY <1>a DEF Ops
      <4>2. h \in ToSet(<<g>>) <=> h = g
        BY <2>2
      <4> QED BY <1>c, <2>2, <2>3, <2>5, <3>1, <4>1, <4>2, HeldAssign, Zenon
    <3>3. OnePlace(h)'
      BY <1>c, <1>f, <1>g, <2>1, <2>5, <3>2, Zenon DEF OnePlace, InPrivate
    <3> QED BY <1>g, <1>h, <2>1, <2>5, <3>2, <3>3, Zenon
  <2> QED BY <2>1, <2>4, <2>5
<1>4. ASSUME NEW t \in Threads, PostQueue(t) PROVE OnceAt(h)'
  <2>1. /\ op_queue' = op_queue \o arg[t] /\ arg' = [arg EXCEPT ![t] = <<>>]
        /\ UNCHANGED <<fresh, pending_io, done, destroyed, current, private_op_queue>>
    BY <1>4 DEF PostQueue
  <2>2. HeldOnce(arg', h) /\ (Held(arg', h) <=> Held(arg, h) /\ h \notin ToSet(arg[t]))
    BY <1>a, <1>c, <2>1, HeldClear
  <2>3. ~(h \in ToSet(op_queue) /\ h \in ToSet(arg[t])) /\ Once(arg[t], h)
    BY <1>c, <1>f DEF OnePlace, Held, HeldOnce
  <2>4. arg[t] \in Seq(Ops \cup {Task})
    BY <1>a DEF Ops
  <2>5. /\ Once(op_queue', h)
        /\ h \in ToSet(op_queue') <=> h \in ToSet(op_queue) \/ h \in ToSet(arg[t])
    BY <1>a, <1>c, <2>1, <2>3, <2>4, OnceJoin, ToSetConcat
  <2>6. h \in ToSet(arg[t]) => Held(arg, h)
    BY DEF Held
  <2>7. OnePlace(h)'
    BY <1>c, <1>f, <1>g, <2>1, <2>2, <2>5, <2>6, Zenon DEF OnePlace, InPrivate
  <2> QED BY <1>g, <1>h, <2>1, <2>2, <2>5, <2>7, Zenon
<1>5. ASSUME NEW t \in Threads, PopTask(t) PROVE OnceAt(h)'
  <2>1. /\ op_queue # <<>> /\ Head(op_queue) = Task /\ op_queue' = Tail(op_queue)
        /\ UNCHANGED <<fresh, pending_io, done, destroyed, arg, current, private_op_queue>>
    BY <1>5 DEF PopTask, world
  <2>2. Once(op_queue', h) /\ (h \in ToSet(op_queue') <=> h \in ToSet(op_queue))
    BY <1>a, <1>b, <1>c, <2>1, OnceTail, ToSetRest
  <2>3. OnePlace(h)'
    BY <1>c, <1>f, <1>g, <2>1, <2>2, Zenon DEF OnePlace, InPrivate
  <2> QED BY <1>g, <1>h, <2>1, <2>2, <2>3, Zenon
<1>6. ASSUME NEW t \in Threads, NEW p \in Seq(Ops \cup {Task}), h \notin ToSet(p),
             op_queue' = (op_queue \o private_op_queue[t]) \o p,
             private_op_queue' = [private_op_queue EXCEPT ![t] = <<>>],
             UNCHANGED <<fresh, pending_io, done, destroyed, arg, current>>
      PROVE  OnceAt(h)'
  <2>1. /\ HeldOnce(private_op_queue', h)
        /\ Held(private_op_queue', h)
             <=> Held(private_op_queue, h) /\ h \notin ToSet(private_op_queue[t])
    BY <1>a, <1>c, <1>6, HeldClear
  <2>2. /\ ~(h \in ToSet(op_queue) /\ h \in ToSet(private_op_queue[t]))
        /\ Once(private_op_queue[t], h)
    BY <1>c DEF OnePlace, InPrivate, Held, HeldOnce
  <2> DEFINE q == op_queue \o private_op_queue[t]
  <2>3. private_op_queue[t] \in Seq(Ops \cup {Task}) /\ q \in Seq(Ops \cup {Task})
    BY <1>a
  <2>4. Once(q, h) /\ (h \in ToSet(q) <=> h \in ToSet(op_queue) \/ h \in ToSet(private_op_queue[t]))
    BY <1>a, <1>c, <2>2, <2>3, OnceJoin, ToSetConcat
  <2>5. Once(q \o p, h) /\ (h \in ToSet(q \o p) <=> h \in ToSet(q))
    <3> HIDE DEF q
    <3> QED BY <1>6, <2>3, <2>4, OnceConcat, ToSetConcat
  <2>6. /\ Once(op_queue', h)
        /\ h \in ToSet(op_queue') <=> h \in ToSet(op_queue) \/ h \in ToSet(private_op_queue[t])
    BY <1>6, <2>4, <2>5
  <2>7. h \in ToSet(private_op_queue[t]) => Held(private_op_queue, h)
    BY DEF Held
  <2>8. OnePlace(h)'
    BY <1>c, <1>f, <1>g, <1>6, <2>1, <2>6, <2>7, Zenon DEF OnePlace, InPrivate
  <2> QED BY <1>g, <1>h, <1>6, <2>1, <2>6, <2>8, Zenon
<1>7. ASSUME NEW t \in Threads, task_cleanup(t) PROVE OnceAt(h)'
  <2>1. /\ op_queue' = (op_queue \o private_op_queue[t]) \o <<Task>>
        /\ private_op_queue' = [private_op_queue EXCEPT ![t] = <<>>]
        /\ UNCHANGED <<fresh, pending_io, done, destroyed, arg, current>>
    BY <1>7 DEF task_cleanup, PushPrivate, world
  <2>2. <<Task>> \in Seq(Ops \cup {Task}) /\ h \notin ToSet(<<Task>>)
    BY <1>b, ToSetOne
  <2> QED BY <1>6, <2>1, <2>2
<1>8. ASSUME NEW t \in Threads, Requeue(t) PROVE OnceAt(h)'
  <2>1. /\ op_queue' = (op_queue \o private_op_queue[t]) \o <<>>
        /\ private_op_queue' = [private_op_queue EXCEPT ![t] = <<>>]
        /\ UNCHANGED <<fresh, pending_io, done, destroyed, arg, current>>
    BY <1>8 DEF Requeue, PushPrivate, world
  <2>2. <<>> \in Seq(Ops \cup {Task}) /\ h \notin ToSet(<<>>)
    BY ToSetEmpty
  <2> QED BY <1>6, <2>1, <2>2
<1>9. ASSUME NEW t \in Threads, PopHandler(t) PROVE OnceAt(h)'
  <2>1. /\ op_queue # <<>> /\ op_queue' = Tail(op_queue)
        /\ current' = [current EXCEPT ![t] = Head(op_queue)]
        /\ pc[t] \in {"loop", "waited", "polled"}
        /\ UNCHANGED <<fresh, pending_io, done, destroyed, arg, private_op_queue>>
    BY <1>9 DEF PopHandler, Looking
  <2>2. /\ Once(op_queue', h)
        /\ h \in ToSet(op_queue') <=> h \in ToSet(op_queue) /\ Head(op_queue) # h
        /\ Head(op_queue) = h => h \in ToSet(op_queue)
    BY <1>a, <1>c, <2>1, OnceTail, ToSetRest, ToSetTail
  <2>3. current[t] = None
    BY <2>1 DEF HoldsInv
  <2>4. /\ current'[t] = Head(op_queue) /\ \A u \in Threads : u # t => current'[u] = current[u]
    BY <1>a, <2>1
  <2>5. Running(h)' <=> Running(h) \/ Head(op_queue) = h
    BY <1>b, <2>3, <2>4, Zenon DEF Running
  <2>6. Head(op_queue) = h => ~Running(h)
    BY <1>c, <2>2, Zenon DEF OnePlace
  <2>7. \A v, u \in Threads : current'[v] = h /\ current'[u] = h => v = u
    BY <1>c, <2>4, <2>6, Zenon DEF Running
  <2>8. OnePlace(h)'
    BY <1>c, <1>f, <2>1, <2>2, <2>5, Zenon DEF OnePlace, InPrivate
  <2> QED BY <1>h, <2>1, <2>2, <2>7, <2>8, Zenon
<1>10. ASSUME NEW t \in Threads, NEW s \in Seq(Ops), Once(s, h), arg[t] = <<>>,
              s \in Seq(Handlers) \/ UNCHANGED arg,
              h \in ToSet(s) => ~Held(arg, h) /\ ~Held(private_op_queue, h),
              \/ /\ private_op_queue' = [private_op_queue EXCEPT ![t] = @ \o s]
                 /\ UNCHANGED arg
              \/ arg' = [arg EXCEPT ![t] = s] /\ UNCHANGED private_op_queue
       PROVE  /\ HeldOnce(arg', h) /\ HeldOnce(private_op_queue', h)
              /\ \/ /\ Held(private_op_queue', h) <=> Held(private_op_queue, h) \/ h \in ToSet(s)
                    /\ Held(arg', h) <=> Held(arg, h)
                 \/ /\ Held(arg', h) <=> Held(arg, h) \/ h \in ToSet(s)
                    /\ Held(private_op_queue', h) <=> Held(private_op_queue, h)
  <2>1. CASE /\ private_op_queue' = [private_op_queue EXCEPT ![t] = @ \o s]
             /\ UNCHANGED arg
    <3>1. /\ HeldOnce(private_op_queue', h)
          /\ Held(private_op_queue', h) <=> Held(private_op_queue, h) \/ h \in ToSet(s)
      BY <1>a, <1>c, <1>10, <2>1, HeldPush, Zenon
    <3> QED BY <1>c, <2>1, <3>1, Zenon
  <2>2. CASE arg' = [arg EXCEPT ![t] = s] /\ UNCHANGED <<private_op_queue>> /\ s \in Seq(Handlers)
    <3>1. HeldOnce(arg', h) /\ (Held(arg', h) <=> Held(arg, h) \/ h \in ToSet(s))
      <4>1. arg \in [Threads -> Seq(Ops)]
        BY <1>a DEF Ops
      <4> QED BY <1>c, <1>10, <2>2, <4>1, HeldAssign, Zenon
    <3> QED BY <1>c, <2>2, <3>1, Zenon
  <2>3. CASE UNCHANGED arg /\ UNCHANGED private_op_queue /\ arg' = [arg EXCEPT ![t] = s]
    <3>1. s = <<>>
      BY <1>a, <1>10, <2>3
    <3> QED BY <1>c, <2>3, <3>1, ToSetEmpty, Zenon
  <2> QED BY <1>10, <2>1, <2>2, <2>3
<1>11. ASSUME NEW t \in Threads, NEW ops \in SetToAllKPermutations(pending_io), cancel(t, ops)
       PROVE  OnceAt(h)'
  <2>1. /\ pending_io' = pending_io \ ToSet(ops) /\ pc[t] \in {"out", "handler"}
        /\ UNCHANGED <<fresh, op_queue, done, destroyed, current>>
        /\ \/ /\ private_op_queue' = [private_op_queue EXCEPT ![t] = @ \o ops]
              /\ UNCHANGED arg
           \/ arg' = [arg EXCEPT ![t] = ops] /\ UNCHANGED private_op_queue
    BY <1>11 DEF cancel, UserCode, post_deferred_completions, sched
  <2>2. arg[t] = <<>>
    BY <2>1 DEF HoldsInv
  <2>3. h \in ToSet(ops) => h \in pending_io /\ ~Held(arg, h) /\ ~Held(private_op_queue, h)
    BY <1>c, <1>d, <1>f DEF OnePlace, InPrivate
  <2>4. /\ HeldOnce(arg', h) /\ HeldOnce(private_op_queue', h)
        /\ \/ /\ Held(private_op_queue', h) <=> Held(private_op_queue, h) \/ h \in ToSet(ops)
              /\ Held(arg', h) <=> Held(arg, h)
           \/ /\ Held(arg', h) <=> Held(arg, h) \/ h \in ToSet(ops)
              /\ Held(private_op_queue', h) <=> Held(private_op_queue, h)
    BY <1>d, <1>10, <2>1, <2>2, <2>3
  <2>5. OnePlace(h)'
    BY <1>c, <1>f, <1>g, <2>1, <2>3, <2>4, Zenon DEF OnePlace, InPrivate
  <2> QED BY <1>g, <1>h, <2>1, <2>4, <2>5, Zenon
<1>12. ASSUME NEW t \in Threads, NEW ready \in SetToAllKPermutations(pending_io),
              PerformIo(t, ready) PROVE OnceAt(h)'
  <2>1. /\ pending_io' = pending_io \ ToSet(ready) /\ pc[t] = "handler"
        /\ current[t] \in Descriptors
        /\ UNCHANGED <<fresh, op_queue, done, destroyed>>
    BY <1>12 DEF PerformIo, sched
  <2>2. arg[t] = <<>>
    BY <2>1 DEF HoldsInv
  <2>3. CASE ready = <<>>
    <3>1. current' = [current EXCEPT ![t] = None] /\ UNCHANGED <<arg, private_op_queue>>
      BY <1>12, <2>3 DEF PerformIo
    <3>2. UNCHANGED pending_io
      BY <2>1, <2>3, ToSetEmpty
    <3>3. /\ current'[t] = None /\ \A u \in Threads : u # t => current'[u] = current[u]
      BY <1>a, <3>1
    <3>4. Running(h)' <=> Running(h)
      BY <1>b, <2>1, <3>3, Zenon DEF Running
    <3>5. \A v, u \in Threads : current'[v] = h /\ current'[u] = h => v = u
      BY <1>b, <1>c, <3>3, Zenon
    <3>6. OnePlace(h)'
      BY <1>c, <1>f, <2>1, <3>1, <3>2, <3>4, Zenon DEF OnePlace, InPrivate
    <3> QED BY <1>h, <2>1, <3>1, <3>5, <3>6, Zenon
  <2>4. CASE ready # <<>>
    <3>1. /\ current' = [current EXCEPT ![t] = Head(ready)]
          /\ \/ UNCHANGED <<arg, private_op_queue>> /\ Tail(ready) = <<>>
             \/ /\ private_op_queue' = [private_op_queue EXCEPT ![t] = @ \o Tail(ready)]
                /\ UNCHANGED arg
             \/ arg' = [arg EXCEPT ![t] = Tail(ready)] /\ UNCHANGED private_op_queue
      BY <1>12, <2>4 DEF PerformIo, post_deferred_completions
    <3>2. /\ Tail(ready) \in Seq(Handlers) /\ Tail(ready) \in Seq(Ops)
          /\ ready \in Seq(Handlers) /\ Once(ready, h) /\ ToSet(ready) \subseteq pending_io
      BY <1>d, <2>4
    <3>3. /\ Once(Tail(ready), h)
          /\ h \in ToSet(Tail(ready)) <=> h \in ToSet(ready) /\ Head(ready) # h
          /\ Head(ready) = h => h \in ToSet(ready)
      BY <2>4, <3>2, OnceTail, ToSetRest, ToSetTail
    <3>4. h \in ToSet(ready) => /\ h \in pending_io /\ ~Held(arg, h)
                                /\ ~Held(private_op_queue, h) /\ ~Running(h)
      BY <1>c, <1>f, <3>2 DEF OnePlace, InPrivate
    <3>5. /\ HeldOnce(arg', h) /\ HeldOnce(private_op_queue', h)
          /\ \/ /\ Held(private_op_queue', h)
                     <=> Held(private_op_queue, h) \/ h \in ToSet(Tail(ready))
                /\ Held(arg', h) <=> Held(arg, h)
             \/ /\ Held(arg', h) <=> Held(arg, h) \/ h \in ToSet(Tail(ready))
                /\ Held(private_op_queue', h) <=> Held(private_op_queue, h)
      <4>1. CASE UNCHANGED <<arg, private_op_queue>> /\ Tail(ready) = <<>>
        BY <1>c, <4>1, ToSetEmpty, Zenon
      <4>2. CASE \/ /\ private_op_queue' = [private_op_queue EXCEPT ![t] = @ \o Tail(ready)]
                    /\ UNCHANGED arg
                 \/ arg' = [arg EXCEPT ![t] = Tail(ready)] /\ UNCHANGED private_op_queue
        BY <1>10, <2>2, <3>2, <3>3, <3>4, <4>2
      <4> QED BY <3>1, <4>1, <4>2
    <3>6. /\ current'[t] = Head(ready) /\ \A u \in Threads : u # t => current'[u] = current[u]
      BY <1>a, <3>1
    <3>7. Running(h)' <=> Running(h) \/ Head(ready) = h
      BY <1>b, <2>1, <3>6, Zenon DEF Running
    <3>8. \A v, u \in Threads : current'[v] = h /\ current'[u] = h => v = u
      BY <1>c, <3>3, <3>4, <3>6, Zenon DEF Running
    <3>9. OnePlace(h)'
      BY <1>c, <1>f, <2>1, <3>3, <3>4, <3>5, <3>7, Zenon DEF OnePlace, InPrivate
    <3> QED BY <1>h, <2>1, <3>5, <3>8, <3>9, Zenon
  <2> QED BY <2>3, <2>4
<1>13. ASSUME NEW t \in Threads,
              NEW ready \in SetToAllKPermutations(pending_io \cup Descriptors),
              TaskReturn(t, ready) PROVE OnceAt(h)'
  <2>1. /\ pending_io' = pending_io \ ToSet(ready)
        /\ private_op_queue' = [private_op_queue EXCEPT ![t] = private_op_queue[t] \o ready]
        /\ UNCHANGED <<fresh, op_queue, done, destroyed, current, arg>>
    BY <1>13 DEF TaskReturn
  <2>2. h \in ToSet(ready) => h \in pending_io /\ ~Held(private_op_queue, h)
    BY <1>b, <1>c, <1>e DEF OnePlace, InPrivate
  <2>3. /\ HeldOnce(private_op_queue', h)
        /\ Held(private_op_queue', h) <=> Held(private_op_queue, h) \/ h \in ToSet(ready)
    <3>1. /\ ready \in Seq(Ops) /\ Once(ready, h)
          /\ ~(Held(private_op_queue, h) /\ h \in ToSet(ready))
      BY <1>e, <2>2
    <3> QED BY <1>a, <1>c, <2>1, <3>1, HeldPush, Zenon
  <2>4. OnePlace(h)'
    BY <1>c, <1>f, <1>g, <2>1, <2>2, <2>3, Zenon DEF OnePlace, InPrivate
  <2> QED BY <1>g, <1>h, <2>1, <2>3, <2>4, Zenon
<1>14. ASSUME NEW t \in Threads, NEW throws \in BOOLEAN, HandlerReturn(t, throws)
       PROVE  OnceAt(h)'
  <2>1. /\ done' = done \cup {current[t]} /\ current' = [current EXCEPT ![t] = None]
        /\ UNCHANGED <<fresh, pending_io, op_queue, destroyed, arg, private_op_queue>>
    BY <1>14 DEF HandlerReturn, sched
  <2>2. /\ current'[t] = None /\ \A u \in Threads : u # t => current'[u] = current[u]
    BY <1>a, <2>1
  <2>3. /\ Running(h)' <=> Running(h) /\ current[t] # h
        /\ h \in done' <=> h \in done \/ current[t] = h
        /\ current[t] = h => Running(h)
    BY <1>b, <1>c, <2>1, <2>2, Zenon DEF Running
  <2>4. \A v, u \in Threads : current'[v] = h /\ current'[u] = h => v = u
    BY <1>b, <1>c, <2>2, Zenon
  <2>5. OnePlace(h)'
    BY <1>c, <1>f, <2>1, <2>3, Zenon DEF OnePlace, InPrivate
  <2> QED BY <1>h, <2>1, <2>4, <2>5, Zenon
<1>15. ASSUME Shutdown PROVE OnceAt(h)'
  <2>1. /\ op_queue' = <<>> /\ pending_io' = {}
        /\ destroyed' = destroyed \cup pending_io \cup (ToSet(op_queue) \cap Handlers)
        /\ UNCHANGED <<fresh, done, arg, current, private_op_queue>>
    BY <1>15 DEF Shutdown, thread
  <2>2. Once(op_queue', h) /\ h \notin ToSet(op_queue')
    BY <2>1, ToSetEmpty, Zenon DEF Once
  <2>3. h \in destroyed' <=> h \in destroyed \/ h \in pending_io \/ h \in ToSet(op_queue)
    BY <2>1
  <2>4. h \notin pending_io'
    BY <2>1
  <2>5. OnePlace(h)'
    BY <1>c, <1>f, <1>g, <2>1, <2>2, <2>3, <2>4, Zenon DEF OnePlace, InPrivate
  <2> QED BY <1>g, <1>h, <2>1, <2>2, <2>5, Zenon
<1>16. ASSUME UNCHANGED <<fresh, pending_io, done, destroyed, op_queue, arg, current,
                          private_op_queue>>
       PROVE  OnceAt(h)'
  <2>1. OnePlace(h)'
    BY <1>c, <1>f, <1>g, <1>16, Zenon DEF OnePlace, InPrivate
  <2> QED BY <1>g, <1>h, <1>16, <2>1, Zenon
<1> HIDE DEF OnceAt
<1> QED
  BY <1>1, <1>2, <1>3, <1>4, <1>5, <1>7, <1>8, <1>9, <1>11, <1>12, <1>13, <1>14, <1>15,
     <1>16, HandlerStep, Zenon

(* A started handler is in one place only until it is invoked or destroyed, *)
(* and is invoked or destroyed once, whatever the threads, the reactor and  *)
(* the calls of the program do: no path through post, defer, cancel,        *)
(* perform_io, work_cleanup or shutdown duplicates or drops an operation.   *)
THEOREM ExactlyOnceInvariant == Spec => []ExactlyOnce
BY TypeCorrect, OnceInit, HoldsStep, OnceStep, OnceMeansExactlyOnce, PTL DEF Spec

-----------------------------------------------------------------------------
(* The balance of outstanding_work_.                                       *)

(* The operations that keep the loop alive are the ones started and neither *)
(* invoked nor destroyed.                                                   *)
LEMMA AliveIs == OnceInv => Alive = Handlers \ (fresh \cup done \cup destroyed)
<1> SUFFICES ASSUME OnceInv, NEW h \in Handlers
             PROVE  h \in pending_io \/ Queued(h) \/ InFlight(h) \/ Running(h)
                      <=> h \notin fresh /\ h \notin done /\ h \notin destroyed
  BY DEF Alive
<1>1. OnePlace(h)
  BY DEF OnceInv, OnceAt
<1>2. Queued(h) <=> h \in ToSet(op_queue) \/ InPrivate(h)
  BY DEF Queued, InPrivate, Held
<1> QED BY <1>1, <1>2, Zenon DEF OnePlace

(* A thread keeps one more increment to itself.                            *)
LEMMA HeldBackPlus ==
  ASSUME private_outstanding_work \in [Threads -> Nat], NEW t \in Threads,
         private_outstanding_work' = [private_outstanding_work EXCEPT ![t] = @ + 1],
         IsFiniteSet(HeldBack)
  PROVE  IsFiniteSet(HeldBack') /\ Cardinality(HeldBack') = Cardinality(HeldBack) + 1
<1> DEFINE n == private_outstanding_work[t] + 1
<1>1. <<t, n>> \notin HeldBack
  BY DEF HeldBack
<1>2. HeldBack' = HeldBack \cup {<<t, n>>}
  <2>1. 1..n = (1..private_outstanding_work[t]) \cup {n}
    OBVIOUS
  <2>2. \A u \in Threads :
          private_outstanding_work'[u] = IF u = t THEN n ELSE private_outstanding_work[u]
    OBVIOUS
  <2> HIDE DEF n
  <2>3. ASSUME NEW x \in HeldBack' PROVE x \in HeldBack \cup {<<t, n>>}
    <3>1. PICK u \in Threads : x \in {u} \X (1..private_outstanding_work'[u])
      BY DEF HeldBack
    <3> QED BY <2>1, <2>2, <3>1 DEF HeldBack
  <2>4. ASSUME NEW x \in HeldBack PROVE x \in HeldBack'
    <3>1. PICK u \in Threads : x \in {u} \X (1..private_outstanding_work[u])
      BY DEF HeldBack
    <3>2. x \in {u} \X (1..private_outstanding_work'[u])
      BY <2>1, <2>2, <3>1
    <3> QED BY <3>2 DEF HeldBack
  <2>5. <<t, n>> \in HeldBack'
    <3>1. <<t, n>> \in {t} \X (1..private_outstanding_work'[t])
      BY <2>1, <2>2
    <3> QED BY <3>1 DEF HeldBack
  <2> QED BY <2>3, <2>4, <2>5
<1> QED BY <1>1, <1>2, FS_AddElement

(* n increments that one thread keeps to itself are n.                     *)
LEMMA PairsCount ==
  ASSUME NEW t, NEW n \in Nat
  PROVE  IsFiniteSet({t} \X (1..n)) /\ Cardinality({t} \X (1..n)) = n
<1>1. IsFiniteSet({t}) /\ Cardinality({t}) = 1
  BY FS_Singleton
<1>2. IsFiniteSet(1..n) /\ Cardinality(1..n) = n
  <2>1. IsFiniteSet(1..n) /\ Cardinality(1..n) = IF 1 > n THEN 0 ELSE n - 1 + 1
    BY FS_Interval
  <2> QED BY <2>1
<1>3. IsFiniteSet({t} \X (1..n)) /\ Cardinality({t} \X (1..n)) = Cardinality({t}) * Cardinality(1..n)
  BY <1>1, <1>2, FS_Product
<1>4. Cardinality({t}) * Cardinality(1..n) = n
  BY <1>1, <1>2
<1> QED BY <1>3, <1>4

(* A thread counts the increments it kept to itself.                       *)
LEMMA HeldBackZero ==
  ASSUME private_outstanding_work \in [Threads -> Nat], NEW t \in Threads,
         private_outstanding_work' = [private_outstanding_work EXCEPT ![t] = 0],
         IsFiniteSet(HeldBack)
  PROVE  /\ IsFiniteSet(HeldBack')
         /\ Cardinality(HeldBack') = Cardinality(HeldBack) - private_outstanding_work[t]
<1> DEFINE mine == {t} \X (1..private_outstanding_work[t])
<1>1. \A u \in Threads :
        private_outstanding_work'[u] = IF u = t THEN 0 ELSE private_outstanding_work[u]
  OBVIOUS
<1>2. HeldBack' = HeldBack \ mine
  <2>1. ASSUME NEW x \in HeldBack' PROVE x \in HeldBack \ mine
    <3>1. PICK u \in Threads : x \in {u} \X (1..private_outstanding_work'[u])
      BY DEF HeldBack
    <3>2. u # t /\ x \in {u} \X (1..private_outstanding_work[u])
      BY <1>1, <3>1
    <3> QED BY <3>2 DEF HeldBack
  <2>2. ASSUME NEW x \in HeldBack, x \notin mine PROVE x \in HeldBack'
    <3>1. PICK u \in Threads : x \in {u} \X (1..private_outstanding_work[u])
      BY DEF HeldBack
    <3>2. u # t /\ x \in {u} \X (1..private_outstanding_work'[u])
      BY <1>1, <2>2, <3>1
    <3> QED BY <3>2 DEF HeldBack
  <2> HIDE DEF mine
  <2> QED BY <2>1, <2>2
<1>3. HeldBack \cap mine = mine
  BY DEF HeldBack
<1>4. IsFiniteSet(mine) /\ Cardinality(mine) = private_outstanding_work[t]
  BY PairsCount
<1> HIDE DEF mine
<1>5. /\ IsFiniteSet(HeldBack \ mine)
      /\ Cardinality(HeldBack \ mine) = Cardinality(HeldBack) - Cardinality(HeldBack \cap mine)
  BY FS_Difference
<1> QED BY <1>2, <1>3, <1>4, <1>5

(* The counter is in balance, and what it counts is finite. *)
WorkInv == IsFiniteSet(HeldBack) /\ IsFiniteSet(Finishing) /\ WorkBalance

(* The step leaves who is about to finish an operation as it is. *)
SameFinishing == \A u \in Threads : pc'[u] = "work_cleanup" <=> pc[u] = "work_cleanup"

(* A step that is none of these leaves everything the balance is about.    *)
LEMMA WorkStep ==
  ASSUME TypeOK, [Next]_vars
  PROVE  \/ /\ UNCHANGED <<outstanding_work, private_outstanding_work, guards, fresh, done,
                           destroyed, shutdown>>
            /\ SameFinishing
         \/ \E t \in Threads :
              \/ work_started(t) \/ work_finished(t) \/ work_cleanup(t) \/ TaskEintr(t)
              \/ \E h \in fresh : \/ start_io(t, h)
                                  \/ \E c \in BOOLEAN : post_immediate_completion(t, h, c)
              \/ \E ops \in SetToAllKPermutations(pending_io) : PerformIo(t, ops)
              \/ \E ready \in SetToAllKPermutations(pending_io \cup Descriptors) :
                    TaskReturn(t, ready)
              \/ \E throws \in BOOLEAN : HandlerReturn(t, throws)
         \/ Shutdown
<1> DEFINE Same == /\ UNCHANGED <<outstanding_work, private_outstanding_work, guards, fresh,
                                  done, destroyed, shutdown>>
                   /\ SameFinishing
           Counts(t) ==
              \/ work_started(t) \/ work_finished(t) \/ work_cleanup(t) \/ TaskEintr(t)
              \/ \E h \in fresh : \/ start_io(t, h)
                                  \/ \E c \in BOOLEAN : post_immediate_completion(t, h, c)
              \/ \E ops \in SetToAllKPermutations(pending_io) : PerformIo(t, ops)
              \/ \E ready \in SetToAllKPermutations(pending_io \cup Descriptors) :
                    TaskReturn(t, ready)
              \/ \E throws \in BOOLEAN : HandlerReturn(t, throws)
<1>a. pc \in [Threads -> PcValues]
  BY DEF TypeOK, StateType
<1>1. ASSUME NEW t \in Threads, NEW c, NEW ops,
             \/ StopCall(t) \/ EnterRun(t, c) \/ PolledNothing(t) \/ EventWait(t)
             \/ EventWoken(t) \/ Leave(t) \/ CondTimeout(t) \/ cancel(t, ops)
             \/ PostQueue(t) \/ PopTask(t) \/ task_cleanup(t) \/ PopHandler(t) \/ Requeue(t)
      PROVE  Same
  <2>1. UNCHANGED <<outstanding_work, private_outstanding_work, guards, fresh, done,
                    destroyed, shutdown>>
    BY <1>1 DEF StopCall, EnterRun, PolledNothing, EventWait, EventWoken, Leave, CondTimeout,
         cancel, PostQueue, PopTask, task_cleanup, PopHandler, Requeue, sched, world
  <2>2. \E l \in PcValues \ {"work_cleanup"} :
          pc' = [pc EXCEPT ![t] = l] /\ pc[t] # "work_cleanup"
    BY <1>1, <1>a DEF StopCall, EnterRun, PolledNothing, EventWait, EventWoken, Leave,
         CondTimeout, cancel, PostQueue, PopTask, task_cleanup, PopHandler, Requeue, Goto,
         ReturnFromRun, post_deferred_completions, UserCode, Looking, Caller, PcValues
  <2> QED BY <1>a, <2>1, <2>2 DEF SameFinishing
<1>2. ASSUME NEW t \in Threads, stop(t) PROVE Same
  <2>1. UNCHANGED <<outstanding_work, private_outstanding_work, guards, fresh, done,
                    destroyed, shutdown>>
    BY <1>2 DEF stop
  <2>2. /\ pc[t] \in {"stop", "cleanup_stop"} /\ pc'[t] \in {"handler", "out", "requeue"}
        /\ \A u \in Threads : u # t => pc'[u] = IF pc[u] = "wait" THEN "woken" ELSE pc[u]
    BY <1>2 DEF stop, stop_all_threads, Caller
  <2> QED BY <2>1, <2>2 DEF SameFinishing
<1>3. ASSUME NEW t \in Threads, CondSignal(t) PROVE Same
  <2>1. UNCHANGED <<outstanding_work, private_outstanding_work, guards, fresh, done,
                    destroyed, shutdown>>
    BY <1>3 DEF CondSignal, sched, world
  <2>2. \A u \in Threads : pc'[u] = pc[u] \/ (pc[u] = "wait" /\ pc'[u] = "woken")
    BY <1>3, <1>a DEF CondSignal, Goto
  <2> QED BY <2>1, <2>2 DEF SameFinishing
<1>4. ASSUME NEW t \in Threads, init_task(t) \/ restart(t) \/ UNCHANGED vars PROVE Same
  BY <1>4 DEF init_task, restart, vars, sched, thread, world, SameFinishing
<1>5. TRUE \in BOOLEAN /\ FALSE \in BOOLEAN
  OBVIOUS
<1> HIDE DEF Same
<1>6. ASSUME NEW t \in Threads, UserStep(t) PROVE Same \/ Counts(t)
  BY <1>1, <1>4, <1>5, <1>6, Zenon DEF UserStep
<1>7. ASSUME NEW t \in Threads, LibraryStep(t) PROVE Same \/ Counts(t)
  BY <1>1, <1>2, <1>3, <1>5, <1>7, Zenon DEF LibraryStep
<1>8. ASSUME NEW t \in Threads,
             \/ \E ready \in SetToAllKPermutations(pending_io \cup Descriptors) :
                   TaskReturn(t, ready)
             \/ TaskEintr(t)
      PROVE  Counts(t)
  BY <1>8, Zenon
<1>9. CASE UNCHANGED vars
  BY <1>9 DEF Same, vars, sched, thread, world, SameFinishing
<1> HIDE DEF Counts
<1>10. ASSUME Next PROVE Same \/ (\E t \in Threads : Counts(t)) \/ Shutdown
  BY <1>1, <1>6, <1>7, <1>8, <1>10, Zenon DEF Next
<1> QED BY <1>9, <1>10, Zenon DEF Same, Counts

(* Every step changes both sides of the balance by the same amount.        *)
LEMMA WorkInvStep ==
  TypeOK /\ OnceInv /\ OnceInv' /\ WorkInv /\ [Next]_vars => WorkInv'
<1> SUFFICES ASSUME TypeOK, OnceInv, OnceInv', WorkInv, [Next]_vars PROVE WorkInv'
  OBVIOUS
<1>a. /\ pc \in [Threads -> PcValues] /\ outstanding_work \in Int /\ guards \in Int
      /\ private_outstanding_work \in [Threads -> Nat]
      /\ current \in [Threads -> Ops \cup {None}]
      /\ fresh \subseteq Handlers
  <2>1. guards \in 0..MaxGuards => guards \in Int
    OBVIOUS
  <2> QED BY <2>1 DEF TypeOK, StateType
<1>b. /\ Alive = Handlers \ (fresh \cup done \cup destroyed)
      /\ Alive' = Handlers \ (fresh' \cup done' \cup destroyed')
  <2>1. OnceInv' => (Alive = Handlers \ (fresh \cup done \cup destroyed))'
    BY AliveIs, PTL
  <2> QED BY <2>1, AliveIs
<1>c. /\ IsFiniteSet(HeldBack) /\ Cardinality(HeldBack) \in Nat
      /\ IsFiniteSet(Finishing) /\ Cardinality(Finishing) \in Nat
      /\ IsFiniteSet(Alive) /\ Cardinality(Alive) \in Nat
  <2>1. Alive \subseteq Handlers
    BY DEF Alive
  <2> QED BY <2>1, SchedulerAssumption, FS_Subset, FS_CardinalityType DEF WorkInv
<1>d. ASSUME SameFinishing PROVE Finishing' = Finishing
  BY <1>d DEF SameFinishing, Finishing
<1>e. ASSUME UNCHANGED private_outstanding_work PROVE HeldBack' = HeldBack
  BY <1>e DEF HeldBack
<1>f. ASSUME UNCHANGED pc PROVE Finishing' = Finishing
  BY <1>f DEF Finishing
<1>g. ~shutdown => outstanding_work + Cardinality(HeldBack) =
                     guards + Cardinality(Finishing) + Cardinality(Alive)
  BY DEF WorkInv, WorkBalance
<1>1. ASSUME SameFinishing,
             UNCHANGED <<outstanding_work, private_outstanding_work, guards, fresh, done,
                         destroyed, shutdown>>
      PROVE  WorkInv'
  <2>1. HeldBack' = HeldBack /\ Finishing' = Finishing /\ Alive' = Alive
    BY <1>b, <1>d, <1>e, <1>1
  <2> QED BY <1>c, <1>g, <1>1, <2>1 DEF WorkInv, WorkBalance
<1>2. ASSUME NEW t \in Threads, work_started(t) \/ work_finished(t) PROVE WorkInv'
  <2>1. /\ UNCHANGED <<private_outstanding_work, fresh, done, destroyed, shutdown>>
        /\ \/ outstanding_work' = outstanding_work + 1 /\ guards' = guards + 1
           \/ outstanding_work' = outstanding_work - 1 /\ guards' = guards - 1
    BY <1>2 DEF work_started, work_finished, thread
  <2>2. SameFinishing
    BY <1>2, <1>a DEF work_started, work_finished, thread, UserCode, Goto, SameFinishing
  <2>3. HeldBack' = HeldBack /\ Finishing' = Finishing /\ Alive' = Alive
    BY <1>b, <1>d, <1>e, <2>1, <2>2
  <2> QED BY <1>a, <1>c, <1>g, <2>1, <2>3 DEF WorkInv, WorkBalance
<1>3. ASSUME NEW t \in Threads, work_cleanup(t) PROVE WorkInv'
  <2>1. /\ outstanding_work' = (outstanding_work + private_outstanding_work[t]) - 1
        /\ private_outstanding_work' = [private_outstanding_work EXCEPT ![t] = 0]
        /\ UNCHANGED <<guards, fresh, done, destroyed, shutdown>>
    BY <1>3 DEF work_cleanup, world
  <2>2. /\ IsFiniteSet(HeldBack')
        /\ Cardinality(HeldBack') = Cardinality(HeldBack) - private_outstanding_work[t]
    BY <1>a, <1>c, <2>1, HeldBackZero
  <2>3. t \in Finishing /\ Finishing' = Finishing \ {t}
    BY <1>3, <1>a DEF work_cleanup, Goto, Finishing
  <2>4. IsFiniteSet(Finishing') /\ Cardinality(Finishing') = Cardinality(Finishing) - 1
    BY <1>c, <2>3, FS_RemoveElement
  <2>5. Alive' = Alive
    BY <1>b, <2>1
  <2>6. private_outstanding_work[t] \in Nat
    BY <1>a
  <2> QED BY <1>a, <1>c, <1>g, <2>1, <2>2, <2>4, <2>5, <2>6 DEF WorkInv, WorkBalance
<1>4. ASSUME NEW t \in Threads, NEW ready, TaskReturn(t, ready) \/ TaskEintr(t) PROVE WorkInv'
  <2>1. /\ outstanding_work' = outstanding_work + private_outstanding_work[t]
        /\ private_outstanding_work' = [private_outstanding_work EXCEPT ![t] = 0]
        /\ UNCHANGED <<guards, fresh, done, destroyed, shutdown>>
    BY <1>4 DEF TaskReturn, TaskEintr, world
  <2>2. /\ IsFiniteSet(HeldBack')
        /\ Cardinality(HeldBack') = Cardinality(HeldBack) - private_outstanding_work[t]
    BY <1>a, <1>c, <2>1, HeldBackZero
  <2>3. SameFinishing
    BY <1>4, <1>a DEF TaskReturn, TaskEintr, Goto, SameFinishing
  <2>4. Finishing' = Finishing /\ Alive' = Alive
    BY <1>b, <1>d, <2>1, <2>3
  <2>5. private_outstanding_work[t] \in Nat
    BY <1>a
  <2> QED BY <1>a, <1>c, <1>g, <2>1, <2>2, <2>4, <2>5 DEF WorkInv, WorkBalance
<1>5. ASSUME NEW h \in fresh, fresh' = fresh \ {h}, UNCHANGED <<done, destroyed>>
      PROVE  IsFiniteSet(Alive') /\ Cardinality(Alive') = Cardinality(Alive) + 1
  <2>1. h \in Handlers /\ h \notin done /\ h \notin destroyed
    BY <1>a DEF OnceInv, OnceAt, OnePlace
  <2>2. h \notin Alive /\ Alive' = Alive \cup {h}
    BY <1>b, <1>5, <2>1
  <2> QED BY <1>c, <2>2, FS_AddElement
<1>6. ASSUME NEW t \in Threads, NEW h \in fresh, start_io(t, h) PROVE WorkInv'
  <2>1. /\ fresh' = fresh \ {h} /\ outstanding_work' = outstanding_work + 1
        /\ UNCHANGED <<private_outstanding_work, guards, pc, done, destroyed, shutdown>>
    BY <1>6 DEF start_io, thread
  <2>2. Cardinality(Alive') = Cardinality(Alive) + 1
    BY <1>5, <2>1
  <2>3. HeldBack' = HeldBack /\ Finishing' = Finishing
    BY <1>e, <1>f, <2>1
  <2> QED BY <1>a, <1>c, <1>g, <2>1, <2>2, <2>3 DEF WorkInv, WorkBalance
<1>7. ASSUME NEW t \in Threads, NEW h \in fresh, NEW c \in BOOLEAN,
             post_immediate_completion(t, h, c) PROVE WorkInv'
  <2>1. fresh' = fresh \ {h} /\ UNCHANGED <<guards, done, destroyed, shutdown>>
    BY <1>7 DEF post_immediate_completion
  <2>2. Cardinality(Alive') = Cardinality(Alive) + 1
    BY <1>5, <2>1
  <2>3. SameFinishing
    BY <1>7, <1>a DEF post_immediate_completion, UserCode, Goto, SameFinishing
  <2>4. Finishing' = Finishing
    BY <1>d, <2>3
  <2>5. CASE /\ private_outstanding_work' = [private_outstanding_work EXCEPT ![t] = @ + 1]
             /\ UNCHANGED outstanding_work
    <3>1. IsFiniteSet(HeldBack') /\ Cardinality(HeldBack') = Cardinality(HeldBack) + 1
      BY <1>a, <1>c, <2>5, HeldBackPlus
    <3> QED BY <1>a, <1>c, <1>g, <2>1, <2>2, <2>4, <2>5, <3>1 DEF WorkInv, WorkBalance
  <2>6. CASE UNCHANGED private_outstanding_work /\ outstanding_work' = outstanding_work + 1
    <3>1. HeldBack' = HeldBack
      BY <1>e, <2>6
    <3> QED BY <1>a, <1>c, <1>g, <2>1, <2>2, <2>4, <2>6, <3>1 DEF WorkInv, WorkBalance
  <2> QED BY <1>7, <2>5, <2>6 DEF post_immediate_completion
<1>8. ASSUME NEW t \in Threads, pc[t] = "handler", pc' = [pc EXCEPT ![t] = "work_cleanup"]
      PROVE  IsFiniteSet(Finishing') /\ Cardinality(Finishing') = Cardinality(Finishing) + 1
  <2>1. t \notin Finishing /\ Finishing' = Finishing \cup {t}
    BY <1>a, <1>8 DEF Finishing
  <2> QED BY <1>c, <2>1, FS_AddElement
<1>9. ASSUME NEW t \in Threads, NEW ready, PerformIo(t, ready) PROVE WorkInv'
  <2>1. pc[t] = "handler" /\ UNCHANGED <<outstanding_work, guards, fresh, done, destroyed, shutdown>>
    BY <1>9 DEF PerformIo, sched
  <2>2. Alive' = Alive
    BY <1>b, <2>1
  <2>3. CASE ready = <<>>
    <3>1. /\ private_outstanding_work' = [private_outstanding_work EXCEPT ![t] = @ + 1]
          /\ pc' = [pc EXCEPT ![t] = "work_cleanup"]
      BY <1>9, <2>3 DEF PerformIo, compensating_work_started, Goto
    <3>2. IsFiniteSet(HeldBack') /\ Cardinality(HeldBack') = Cardinality(HeldBack) + 1
      BY <1>a, <1>c, <3>1, HeldBackPlus
    <3>3. IsFiniteSet(Finishing') /\ Cardinality(Finishing') = Cardinality(Finishing) + 1
      BY <1>8, <2>1, <3>1
    <3> QED BY <1>a, <1>c, <1>g, <2>1, <2>2, <3>2, <3>3 DEF WorkInv, WorkBalance
  <2>4. CASE ready # <<>>
    <3>1. /\ UNCHANGED private_outstanding_work
          /\ UNCHANGED pc \/ pc' = [pc EXCEPT ![t] = "post"]
      BY <1>9, <2>4 DEF PerformIo, post_deferred_completions, Goto
    <3>2. SameFinishing
      BY <1>a, <2>1, <3>1 DEF SameFinishing
    <3> QED BY <1>1, <2>1, <3>1, <3>2
  <2> QED BY <2>3, <2>4
<1>10. ASSUME NEW t \in Threads, NEW throws, HandlerReturn(t, throws) PROVE WorkInv'
  <2>1. /\ pc[t] = "handler" /\ current[t] \in Handlers /\ done' = done \cup {current[t]}
        /\ pc' = [pc EXCEPT ![t] = "work_cleanup"]
        /\ UNCHANGED <<outstanding_work, private_outstanding_work, guards, fresh, destroyed,
                       shutdown>>
    BY <1>10 DEF HandlerReturn, Goto, sched
  <2>2. current[t] \in Alive
    BY <2>1 DEF Alive, Running
  <2>3. Alive' = Alive \ {current[t]}
    BY <1>b, <2>1
  <2>4. Cardinality(Alive') = Cardinality(Alive) - 1
    BY <1>c, <2>2, <2>3, FS_RemoveElement
  <2>5. IsFiniteSet(Finishing') /\ Cardinality(Finishing') = Cardinality(Finishing) + 1
    BY <1>8, <2>1
  <2>6. HeldBack' = HeldBack
    BY <1>e, <2>1
  <2> QED BY <1>a, <1>c, <1>g, <2>1, <2>4, <2>5, <2>6 DEF WorkInv, WorkBalance
<1>11. ASSUME Shutdown PROVE WorkInv'
  <2>1. shutdown' = TRUE /\ UNCHANGED <<pc, private_outstanding_work>>
    BY <1>11, Zenon DEF Shutdown, thread
  <2>2. HeldBack' = HeldBack /\ Finishing' = Finishing
    BY <1>e, <1>f, <2>1
  <2> QED BY <1>c, <2>1, <2>2 DEF WorkInv, WorkBalance
<1> HIDE DEF WorkInv
<1> QED
  BY <1>1, <1>2, <1>3, <1>4, <1>6, <1>7, <1>9, <1>10, <1>11, WorkStep, Zenon

(* outstanding_work_, with the increments the threads still hold back,      *)
(* counts exactly the operations and guards that keep the loop alive: it is *)
(* never zero while something is queued, in flight, running or held by the  *)
(* reactor, although the threads change it outside the lock.                *)
THEOREM WorkBalanceInvariant == Spec => []WorkBalance
<1>1. Init => WorkInv
  <2> SUFFICES ASSUME Init PROVE WorkInv
    OBVIOUS
  <2>1. /\ \A t \in Threads : private_outstanding_work[t] = 0 /\ pc[t] = "out"
        /\ outstanding_work = 0 /\ guards = 0 /\ fresh = Handlers
    BY DEF Init
  <2>2. HeldBack = {} /\ Finishing = {}
    BY <2>1 DEF HeldBack, Finishing
  <2>3. Alive = {}
    BY <2>1, OnceInit, AliveIs
  <2> QED BY <2>1, <2>2, <2>3, FS_EmptySet DEF WorkInv, WorkBalance
<1>2. WorkInv => WorkBalance
  BY DEF WorkInv
<1> QED
  BY <1>1, <1>2, TypeCorrect, OnceInit, HoldsStep, OnceStep, WorkInvStep, PTL DEF Spec

-----------------------------------------------------------------------------
(* The event loop loses no wakeup: while work is queued and a thread       *)
(* sleeps in the event or in the reactor, some thread is on its way to the *)
(* queue or about to wake the sleeper.                                     *)

(* The programs the theorem is about.  A thread that leaves run_one(),      *)
(* wait_one() or poll_one(), or leaves by an exception, puts what it kept   *)
(* in its private queue on op_queue_ without waking anybody.  Either no     *)
(* thread keeps anything there, because the program does not defer() and    *)
(* does not promise a single thread, or no thread leaves that way.          *)
WakingProgram ==
  \/ "defer" \notin Api /\ OneThread \subseteq {FALSE}
  \/ Api \cap {"run_one", "wait_one", "poll_one", "throw"} = {}

-----------------------------------------------------------------------------
(* What one thread does to the others.                                     *)

(* A step of thread t leaves the others alone, but may wake them. *)
OthersAlone(t) ==
  /\ UNCHANGED one_thread
  /\ \A u \in Threads \ {t} :
       /\ call'[u] = call[u] /\ usec'[u] = usec[u] /\ current'[u] = current[u]
       /\ pc'[u] = pc[u] \/ (pc[u] = "wait" /\ pc'[u] = "woken")

(* A thread of the program moves. *)
ThreadStep(t) ==
  \/ UserStep(t)
  \/ LibraryStep(t)
  \/ \E ready \in SetToAllKPermutations(pending_io \cup Descriptors) : TaskReturn(t, ready)
  \/ TaskEintr(t)
  \/ CondTimeout(t)

(* The only effect a thread has on where another one is: it is woken.      *)
LEMMA OthersStep ==
  ASSUME TypeOK, NEW t \in Threads, ThreadStep(t)
  PROVE  OthersAlone(t)
<1>a. /\ pc \in [Threads -> PcValues] /\ current \in [Threads -> Ops \cup {None}]
      /\ call \in [Threads -> RunCalls \cup {"throw", None}]
      /\ usec \in [Threads -> {"zero", "timed", "forever"}]
  BY DEF TypeOK, StateType
<1>b. ASSUME NEW l, NEW c, NEW us, NEW cur, UNCHANGED one_thread,
             pc' = pc \/ pc' = [pc EXCEPT ![t] = l],
             call' = call \/ call' = [call EXCEPT ![t] = c],
             usec' = usec \/ usec' = [usec EXCEPT ![t] = us],
             current' = current \/ current' = [current EXCEPT ![t] = cur]
      PROVE  OthersAlone(t)
  BY <1>a, <1>b DEF OthersAlone
<1>1. ASSUME NEW h, NEW c, NEW ops,
             \/ init_task(t) \/ start_io(t, h) \/ restart(t) \/ work_started(t)
             \/ post_immediate_completion(t, h, c) \/ cancel(t, ops) \/ StopCall(t)
             \/ work_finished(t) \/ PostQueue(t) \/ PopTask(t) \/ PopHandler(t)
      PROVE  OthersAlone(t)
  <2>1. UNCHANGED <<one_thread, call>>
    BY <1>1 DEF init_task, start_io, restart, work_started, post_immediate_completion, cancel,
         StopCall, work_finished, PostQueue, PopTask, PopHandler, thread, sched
  <2>2. \E l : pc' = pc \/ pc' = [pc EXCEPT ![t] = l]
    BY <1>1 DEF init_task, start_io, restart, work_started, post_immediate_completion, cancel,
         StopCall, work_finished, PostQueue, PopTask, PopHandler, thread, Goto,
         post_deferred_completions
  <2>3. \E us : usec' = usec \/ usec' = [usec EXCEPT ![t] = us]
    BY <1>1 DEF init_task, start_io, restart, work_started, post_immediate_completion, cancel,
         StopCall, work_finished, PostQueue, PopTask, PopHandler, thread
  <2>4. \E cur : current' = current \/ current' = [current EXCEPT ![t] = cur]
    BY <1>1 DEF init_task, start_io, restart, work_started, post_immediate_completion, cancel,
         StopCall, work_finished, PostQueue, PopTask, PopHandler, thread
  <2> QED BY <1>b, <2>1, <2>2, <2>3, <2>4, Zenon
<1>2. ASSUME NEW c, NEW ops,
             \/ EnterRun(t, c) \/ PolledNothing(t) \/ EventWait(t) \/ EventWoken(t)
             \/ Leave(t) \/ CondTimeout(t) \/ task_cleanup(t) \/ Requeue(t)
             \/ PerformIo(t, ops) \/ HandlerReturn(t, c) \/ work_cleanup(t)
             \/ TaskReturn(t, ops) \/ TaskEintr(t)
      PROVE  OthersAlone(t)
  <2>1. UNCHANGED one_thread
    BY <1>2 DEF EnterRun, PolledNothing, EventWait, EventWoken, Leave, CondTimeout,
         task_cleanup, Requeue, PerformIo, HandlerReturn, work_cleanup, TaskReturn, TaskEintr,
         sched
  <2>2. \E l : pc' = pc \/ pc' = [pc EXCEPT ![t] = l]
    BY <1>2 DEF EnterRun, PolledNothing, EventWait, EventWoken, Leave, CondTimeout,
         task_cleanup, Requeue, PerformIo, HandlerReturn, work_cleanup, TaskReturn, TaskEintr,
         Goto, ReturnFromRun, post_deferred_completions
  <2>3. \E us : usec' = usec \/ usec' = [usec EXCEPT ![t] = us]
    BY <1>2 DEF EnterRun, PolledNothing, EventWait, EventWoken, Leave, CondTimeout,
         task_cleanup, Requeue, PerformIo, HandlerReturn, work_cleanup, TaskReturn, TaskEintr,
         ReturnFromRun
  <2>4. \E cur : current' = current \/ current' = [current EXCEPT ![t] = cur]
    BY <1>2 DEF EnterRun, PolledNothing, EventWait, EventWoken, Leave, CondTimeout,
         task_cleanup, Requeue, PerformIo, HandlerReturn, work_cleanup, TaskReturn, TaskEintr
  <2>5. \E k : call' = call \/ call' = [call EXCEPT ![t] = k]
    BY <1>2 DEF EnterRun, PolledNothing, EventWait, EventWoken, Leave, CondTimeout,
         task_cleanup, Requeue, PerformIo, HandlerReturn, work_cleanup, TaskReturn, TaskEintr,
         ReturnFromRun
  <2> QED BY <1>b, <2>1, <2>2, <2>3, <2>4, <2>5, Zenon
<1>3. ASSUME stop(t) PROVE OthersAlone(t)
  BY <1>3 DEF stop, stop_all_threads, OthersAlone
<1>4. ASSUME CondSignal(t) PROVE OthersAlone(t)
  <2>1. UNCHANGED <<one_thread, call, usec, current>>
    BY <1>4 DEF CondSignal, sched
  <2>2. \A u \in Threads : pc'[u] = pc[u] \/ (pc[u] = "wait" /\ pc'[u] = "woken")
    BY <1>4, <1>a DEF CondSignal, Goto
  <2> QED BY <2>1, <2>2 DEF OthersAlone
<1> QED
  BY <1>1, <1>2, <1>3, <1>4, Zenon DEF ThreadStep, UserStep, LibraryStep

(* A step is a step of one thread, or the destruction of the scheduler.    *)
LEMMA StepOfThread ==
  ASSUME [Next]_vars
  PROVE  (\E t \in Threads : ThreadStep(t)) \/ Shutdown \/ UNCHANGED vars
BY Zenon DEF Next, ThreadStep

-----------------------------------------------------------------------------
(* Where a thread may be in which call.                                    *)

(* A thread in the loop is in one of the run calls, and does not leave it   *)
(* while it runs an operation; only run() and run_one() block without       *)
(* limit, and only wait_one() looks at the queue after a wait without       *)
(* asking whether it was signalled.                                         *)
CallShape(t) ==
  /\ pc[t] \in {"loop", "polled", "waited", "wait", "woken", "task", "task_cleanup"}
       => call[t] \in RunCalls
  /\ pc[t] \in {"handler", "work_cleanup", "cleanup_stop", "requeue"} => call[t] # None
  /\ current[t] # None => pc[t] \in {"handler", "post", "stop"} /\ call[t] # None
  /\ usec[t] = "forever" => call[t] \in {"run", "run_one", "throw"}
  /\ pc[t] = "waited" => call[t] = "wait_one"

CallInv == \A t \in Threads : CallShape(t)

(* Every step of a thread keeps the relation between its place, its call   *)
(* and how long it may block.                                              *)
LEMMA CallStep == TypeOK /\ CallInv /\ [Next]_vars => CallInv'
<1> SUFFICES ASSUME TypeOK, CallInv, [Next]_vars PROVE CallInv'
  OBVIOUS
<1>a. /\ pc \in [Threads -> PcValues]
      /\ call \in [Threads -> RunCalls \cup {"throw", None}]
      /\ usec \in [Threads -> {"zero", "timed", "forever"}]
      /\ current \in [Threads -> Ops \cup {None}]
      /\ None \notin RunCalls \cup {"throw"}
  BY NullAssumption DEF TypeOK, StateType, ApiCalls
<1>b. \A u \in Threads : CallShape(u)
  BY DEF CallInv
<1>c. ASSUME NEW t \in Threads, ThreadStep(t), CallShape(t)' PROVE CallInv'
  <2>1. OthersAlone(t)
    BY <1>c, OthersStep
  <2>2. ASSUME NEW u \in Threads \ {t} PROVE CallShape(u)'
    BY <1>b, <2>1 DEF OthersAlone, CallShape
  <2> QED BY <1>c, <2>2 DEF CallInv
<1>1. ASSUME NEW t \in Threads, ThreadStep(t) PROVE CallShape(t)'
  <2>b. CallShape(t)
    BY <1>b
  <2> USE <1>a, <2>b DEF CallShape
  <2>1. ASSUME NEW h, NEW c, init_task(t) \/ start_io(t, h) \/ restart(t) \/ work_started(t)
        PROVE  CallShape(t)'
    BY <2>1 DEF init_task, start_io, restart, work_started, thread
  <2>2. ASSUME NEW h, NEW c, NEW ops,
               \/ post_immediate_completion(t, h, c) \/ cancel(t, ops) \/ StopCall(t)
               \/ work_finished(t)
        PROVE  CallShape(t)'
    <3>1. UNCHANGED <<call, usec, current>>
      BY <2>2 DEF post_immediate_completion, cancel, StopCall, work_finished
    <3>2. /\ pc[t] \in {"out", "handler"}
          /\ pc'[t] \in {pc[t], "post", "stop"}
      BY <2>2 DEF post_immediate_completion, cancel, StopCall, work_finished, UserCode, Goto,
           post_deferred_completions
    <3> QED BY <3>1, <3>2
  <2>3. ASSUME NEW c \in RunCalls, EnterRun(t, c) PROVE CallShape(t)'
    BY <2>3 DEF EnterRun, Goto, BlockTime, RunCalls
  <2>4. ASSUME NEW throws, HandlerReturn(t, throws) PROVE CallShape(t)'
    <3>1. /\ UNCHANGED usec /\ pc[t] = "handler" /\ pc'[t] = "work_cleanup"
          /\ current'[t] = None
          /\ call' = call \/ call' = [call EXCEPT ![t] = "throw"]
      BY <2>4 DEF HandlerReturn, Goto
    <3> QED BY <3>1
  <2>5. ASSUME PostQueue(t) \/ PopHandler(t) \/ work_cleanup(t) PROVE CallShape(t)'
    <3>1. UNCHANGED <<call, usec>>
      BY <2>5 DEF PostQueue, PopHandler, work_cleanup
    <3>2. CASE PostQueue(t)
      BY <3>1, <3>2 DEF PostQueue, Goto, Caller
    <3>3. CASE PopHandler(t)
      <4>1. pc[t] \in {"loop", "waited", "polled"} /\ pc'[t] = "handler"
        BY <3>3 DEF PopHandler, Looking, Goto
      <4> QED BY <3>1, <4>1
    <3>4. CASE work_cleanup(t)
      BY <3>1, <3>4 DEF work_cleanup, Goto
    <3> QED BY <2>5, <3>2, <3>3, <3>4
  <2>6. ASSUME stop(t) PROVE CallShape(t)'
    BY <2>6 DEF stop, stop_all_threads, Caller
  <2>7. ASSUME CondSignal(t) \/ CondTimeout(t) PROVE CallShape(t)'
    BY <2>7 DEF CondSignal, CondTimeout, Goto
  <2>8. ASSUME PopTask(t) PROVE CallShape(t)'
    <3>1. /\ UNCHANGED <<call, current>> /\ pc[t] \in {"loop", "waited"} /\ pc'[t] = "task"
          /\ usec'[t] \in {"zero", usec[t]}
      BY <2>8 DEF PopTask, Looking, Goto
    <3> QED BY <3>1
  <2>9. ASSUME NEW ready, TaskReturn(t, ready) \/ TaskEintr(t) PROVE CallShape(t)'
    BY <2>9 DEF TaskReturn, TaskEintr, Goto
  <2>10. ASSUME task_cleanup(t) PROVE CallShape(t)'
    BY <2>10 DEF task_cleanup, Goto
  <2>11. ASSUME PolledNothing(t) \/ Leave(t) PROVE CallShape(t)'
    BY <2>11 DEF PolledNothing, Leave, ReturnFromRun, Goto
  <2>12. ASSUME EventWait(t) \/ EventWoken(t) PROVE CallShape(t)'
    BY <2>12 DEF EventWait, EventWoken, Goto
  <2>13. ASSUME Requeue(t) PROVE CallShape(t)'
    BY <2>13 DEF Requeue, ReturnFromRun, Goto, RunCalls
  <2>14. ASSUME NEW ready, PerformIo(t, ready) PROVE CallShape(t)'
    <3>1. UNCHANGED <<call, usec>> /\ pc[t] = "handler"
      BY <2>14 DEF PerformIo
    <3>2. \/ pc'[t] \in {"handler", "post"}
          \/ pc'[t] = "work_cleanup" /\ current'[t] = None
      BY <2>14 DEF PerformIo, Goto, post_deferred_completions
    <3> QED BY <3>1, <3>2
  <2> HIDE DEF CallShape
  <2>15. ASSUME UserStep(t) PROVE CallShape(t)'
    BY <2>1, <2>2, <2>3, <2>4, <2>15, Zenon DEF UserStep
  <2>16. ASSUME LibraryStep(t) PROVE CallShape(t)'
    BY <2>4, <2>5, <2>6, <2>7, <2>8, <2>10, <2>11, <2>12, <2>13, <2>14, <2>16, Zenon
       DEF LibraryStep
  <2> QED BY <1>1, <2>7, <2>9, <2>15, <2>16, Zenon DEF ThreadStep
<1>2. ASSUME Shutdown \/ UNCHANGED vars PROVE CallInv'
  BY <1>b, <1>2 DEF Shutdown, vars, thread, CallInv, CallShape
<1> QED BY <1>1, <1>2, <1>c, StepOfThread, Zenon

-----------------------------------------------------------------------------
(* What the assumption about the program gives.                            *)

(* Nothing is left in a private queue when a thread leaves the loop: either *)
(* only the reactor puts operations there, or the thread does not leave     *)
(* before it has looked at the queue again.                                 *)
ProgramInv ==
  /\ one_thread \in OneThread
  /\ "defer" \notin Api /\ OneThread \subseteq {FALSE} =>
       \A t \in Threads : private_op_queue[t] # <<>> => pc[t] = "task_cleanup"
  /\ Api \cap {"run_one", "wait_one", "poll_one", "throw"} = {} =>
       \A t \in Threads : call[t] \in {None, "run", "poll"}

(* A program that neither defers nor promises a single thread leaves the   *)
(* private queues to the reactor.                                          *)
LEMMA PrivateEmptyStep ==
  ASSUME TypeOK, [Next]_vars, "defer" \notin Api, ~one_thread,
         \A t \in Threads : private_op_queue[t] # <<>> => pc[t] = "task_cleanup"
  PROVE  \A t \in Threads : private_op_queue'[t] # <<>> => pc'[t] = "task_cleanup"
<1> DEFINE Q(u) == private_op_queue[u] # <<>> => pc[u] = "task_cleanup"
<1>a. /\ pc \in [Threads -> PcValues] /\ private_op_queue \in [Threads -> Seq(Ops)]
  BY DEF TypeOK, QueueType, StateType
<1>b. \A u \in Threads : Q(u)
  OBVIOUS
<1>c. ASSUME NEW t \in Threads, ThreadStep(t), UNCHANGED private_op_queue,
             pc[t] # "task_cleanup"
      PROVE  \A u \in Threads : Q(u)'
  <2>1. OthersAlone(t)
    BY <1>c, OthersStep
  <2> QED BY <1>b, <1>c, <2>1 DEF OthersAlone
<1>d. ASSUME NEW t \in Threads, ThreadStep(t),
             private_op_queue' = [private_op_queue EXCEPT ![t] = <<>>]
      PROVE  \A u \in Threads : Q(u)'
  <2>1. OthersAlone(t)
    BY <1>d, OthersStep
  <2> QED BY <1>a, <1>b, <1>d, <2>1 DEF OthersAlone
<1>1. ASSUME NEW t \in Threads, NEW h, NEW c, NEW ops, ThreadStep(t),
             \/ post_immediate_completion(t, h, FALSE) \/ cancel(t, ops) \/ StopCall(t)
             \/ work_finished(t) \/ PostQueue(t) \/ PopHandler(t) \/ PopTask(t)
             \/ EnterRun(t, c) \/ PolledNothing(t) \/ EventWait(t) \/ EventWoken(t)
             \/ Leave(t) \/ CondTimeout(t) \/ PerformIo(t, ops) \/ HandlerReturn(t, c)
             \/ work_cleanup(t) \/ TaskEintr(t) \/ stop(t)
      PROVE  \A u \in Threads : Q(u)'
  <2>1. UNCHANGED private_op_queue
    BY <1>1 DEF post_immediate_completion, cancel, StopCall, work_finished, PostQueue,
         PopHandler, PopTask, EnterRun, PolledNothing, EventWait, EventWoken, Leave,
         CondTimeout, PerformIo, HandlerReturn, work_cleanup, TaskEintr, stop,
         post_deferred_completions
  <2>2. pc[t] # "task_cleanup"
    BY <1>1 DEF post_immediate_completion, cancel, StopCall, work_finished, PostQueue,
         PopHandler, PopTask, EnterRun, PolledNothing, EventWait, EventWoken, Leave,
         CondTimeout, PerformIo, HandlerReturn, work_cleanup, TaskEintr, stop, UserCode,
         Looking
  <2> QED BY <1>c, <1>1, <2>1, <2>2
<1>2. ASSUME NEW t \in Threads, ThreadStep(t), task_cleanup(t) \/ Requeue(t)
      PROVE  \A u \in Threads : Q(u)'
  <2>1. private_op_queue' = [private_op_queue EXCEPT ![t] = <<>>]
    BY <1>2 DEF task_cleanup, Requeue, PushPrivate
  <2> QED BY <1>d, <1>2, <2>1
<1>3. ASSUME NEW t \in Threads, NEW ready, TaskReturn(t, ready)
      PROVE  \A u \in Threads : Q(u)'
  <2>1. /\ pc' = [pc EXCEPT ![t] = "task_cleanup"]
        /\ private_op_queue' = [private_op_queue EXCEPT ![t] = private_op_queue[t] \o ready]
    BY <1>3 DEF TaskReturn, Goto
  <2> QED BY <1>a, <1>b, <2>1
<1>4. ASSUME NEW t \in Threads, CondSignal(t) PROVE \A u \in Threads : Q(u)'
  <2>1. UNCHANGED private_op_queue
    BY <1>4 DEF CondSignal
  <2>2. \A u \in Threads : pc'[u] = pc[u] \/ pc[u] = "wait"
    BY <1>4, <1>a DEF CondSignal, Goto
  <2> QED BY <1>b, <2>1, <2>2
<1>5. ASSUME NEW t \in Threads, NEW h,
             \/ init_task(t) \/ start_io(t, h) \/ restart(t) \/ work_started(t) \/ Shutdown
             \/ UNCHANGED vars
      PROVE  \A u \in Threads : Q(u)'
  <2>1. UNCHANGED <<pc, private_op_queue>>
    BY <1>5 DEF init_task, start_io, restart, work_started, Shutdown, vars, thread
  <2> QED BY <1>b, <2>1
<1> HIDE DEF Q
<1>6. ASSUME NEW t \in Threads, UserStep(t) PROVE \A u \in Threads : Q(u)'
  <2>1. ThreadStep(t)
    BY <1>6 DEF ThreadStep
  <2> QED BY <1>1, <1>5, <1>6, <2>1, Zenon DEF UserStep
<1>7. ASSUME NEW t \in Threads, LibraryStep(t) PROVE \A u \in Threads : Q(u)'
  <2>1. ThreadStep(t)
    BY <1>7 DEF ThreadStep
  <2> QED BY <1>1, <1>2, <1>4, <1>7, <2>1, Zenon DEF LibraryStep
<1>8. ASSUME NEW t \in Threads, ThreadStep(t) PROVE \A u \in Threads : Q(u)'
  BY <1>1, <1>3, <1>6, <1>7, <1>8, Zenon DEF ThreadStep
<1>9. ASSUME Shutdown \/ UNCHANGED vars PROVE \A u \in Threads : Q(u)'
  <2>1. UNCHANGED <<pc, private_op_queue>>
    BY <1>9 DEF Shutdown, vars, thread
  <2> QED BY <1>b, <2>1 DEF Q
<1> QED BY <1>8, <1>9, StepOfThread DEF Q

(* The calls a program makes are the ones its Api has.                     *)
LEMMA ProgramStep == TypeOK /\ ProgramInv /\ [Next]_vars => ProgramInv'
<1> SUFFICES ASSUME TypeOK, ProgramInv, [Next]_vars PROVE ProgramInv'
  OBVIOUS
<1>a. call \in [Threads -> RunCalls \cup {"throw", None}]
  BY DEF TypeOK, StateType
<1>1. UNCHANGED one_thread
  <2>1. ASSUME NEW t \in Threads, ThreadStep(t) PROVE UNCHANGED one_thread
    BY <2>1, OthersStep DEF OthersAlone
  <2>2. ASSUME Shutdown \/ UNCHANGED vars PROVE UNCHANGED one_thread
    BY <2>2 DEF Shutdown, vars, sched
  <2> QED BY <2>1, <2>2, StepOfThread
<1>2. ASSUME "defer" \notin Api, OneThread \subseteq {FALSE}
      PROVE  \A t \in Threads : private_op_queue'[t] # <<>> => pc'[t] = "task_cleanup"
  <2>1. ~one_thread
    BY <1>2 DEF ProgramInv
  <2> QED BY <1>2, <2>1, PrivateEmptyStep DEF ProgramInv
<1>3. ASSUME Api \cap {"run_one", "wait_one", "poll_one", "throw"} = {}
      PROVE  \A t \in Threads : call'[t] \in {None, "run", "poll"}
  <2>a. \A t \in Threads : call[t] \in {None, "run", "poll"}
    BY <1>3 DEF ProgramInv
  <2>1. ASSUME NEW t \in Threads, NEW h, NEW c, NEW ops,
               \/ post_immediate_completion(t, h, c) \/ cancel(t, ops) \/ StopCall(t)
               \/ work_finished(t) \/ PostQueue(t) \/ PopHandler(t) \/ PopTask(t)
               \/ EventWait(t) \/ EventWoken(t) \/ CondTimeout(t) \/ PerformIo(t, ops)
               \/ work_cleanup(t) \/ TaskEintr(t) \/ stop(t) \/ CondSignal(t)
               \/ task_cleanup(t) \/ TaskReturn(t, ops) \/ init_task(t) \/ start_io(t, h)
               \/ restart(t) \/ work_started(t) \/ Shutdown \/ UNCHANGED vars
               \/ HandlerReturn(t, FALSE)
        PROVE  UNCHANGED call
    BY <2>1 DEF post_immediate_completion, cancel, StopCall, work_finished, PostQueue,
         PopHandler, PopTask, EventWait, EventWoken, CondTimeout, PerformIo, work_cleanup,
         TaskEintr, stop, CondSignal, task_cleanup, TaskReturn, init_task, start_io, restart,
         work_started, Shutdown, vars, thread, HandlerReturn
  <2>2. ASSUME NEW t \in Threads, NEW c \in RunCalls \cap Api, EnterRun(t, c)
        PROVE  \A u \in Threads : call'[u] \in {None, "run", "poll"}
    <3>1. c \in {"run", "poll"}
      BY <1>3 DEF RunCalls
    <3>2. call' = call \/ call' = [call EXCEPT ![t] = c]
      BY <2>2 DEF EnterRun
    <3> QED BY <2>a, <1>a, <3>1, <3>2
  <2>3. ASSUME NEW t \in Threads, PolledNothing(t) \/ Leave(t) \/ Requeue(t)
        PROVE  \A u \in Threads : call'[u] \in {None, "run", "poll"}
    <3>1. call' = call \/ call' = [call EXCEPT ![t] = None]
      BY <2>3 DEF PolledNothing, Leave, Requeue, ReturnFromRun
    <3> QED BY <2>a, <1>a, <3>1
  <2>4. "throw" \notin Api
    BY <1>3
  <2>5. ASSUME UNCHANGED call PROVE \A u \in Threads : call'[u] \in {None, "run", "poll"}
    BY <2>a, <2>5
  <2>6. ASSUME NEW t \in Threads, UserStep(t)
        PROVE  \A u \in Threads : call'[u] \in {None, "run", "poll"}
    BY <2>1, <2>2, <2>4, <2>5, <2>6, Zenon DEF UserStep
  <2>7. ASSUME NEW t \in Threads, LibraryStep(t)
        PROVE  \A u \in Threads : call'[u] \in {None, "run", "poll"}
    BY <2>1, <2>3, <2>5, <2>7, Zenon DEF LibraryStep
  <2>8. ASSUME NEW t \in Threads, ThreadStep(t)
        PROVE  \A u \in Threads : call'[u] \in {None, "run", "poll"}
    BY <2>1, <2>5, <2>6, <2>7, <2>8, Zenon DEF ThreadStep
  <2>9. ASSUME Shutdown \/ UNCHANGED vars
        PROVE  \A u \in Threads : call'[u] \in {None, "run", "poll"}
    <3>1. UNCHANGED call
      BY <2>9 DEF Shutdown, vars, thread
    <3> QED BY <2>5, <3>1
  <2> QED BY <2>8, <2>9, StepOfThread, Zenon
<1> QED BY <1>1, <1>2, <1>3 DEF ProgramInv

-----------------------------------------------------------------------------
(* The interrupter.                                                        *)

(* A step that sends nobody to sleep and takes no wakeup back. *)
Quiet ==
  /\ \A u \in Threads :
       /\ InReactor(u)' <=> InReactor(u)
       /\ pc'[u] = "task" => pc[u] = "task" /\ usec'[u] = usec[u]
       /\ pc'[u] = "wait" => pc[u] = "wait"
  /\ stopped' => stopped
  /\ signalled => signalled'
  /\ UNCHANGED <<task_interrupted, interrupted>> \/ (task_interrupted' /\ interrupted')

(* The steps that may send a thread to sleep, or use up or undo a wakeup.  *)
LEMMA QuietStep ==
  ASSUME TypeOK, [Next]_vars
  PROVE  \/ Quiet
         \/ \E t \in Threads :
              \/ PopTask(t) \/ task_cleanup(t) \/ EventWait(t) \/ EventWoken(t) \/ stop(t)
              \/ \E ready \in SetToAllKPermutations(pending_io \cup Descriptors) :
                    TaskReturn(t, ready)
<1>a. /\ pc \in [Threads -> PcValues] /\ signalled \in BOOLEAN
      /\ usec \in [Threads -> {"zero", "timed", "forever"}]
  BY DEF TypeOK, StateType, FlagType
<1>b. ASSUME NEW t \in Threads, OthersAlone(t),
             InReactor(t)' <=> InReactor(t), pc'[t] # "task", pc'[t] = "wait" => pc[t] = "wait",
             stopped' => stopped, signalled => signalled',
             UNCHANGED <<task_interrupted, interrupted>> \/ (task_interrupted' /\ interrupted')
      PROVE  Quiet
  BY <1>b DEF OthersAlone, Quiet, InReactor
<1>1. ASSUME NEW t \in Threads, ThreadStep(t), NEW h, NEW c, NEW ops,
             \/ post_immediate_completion(t, h, c) \/ cancel(t, ops) \/ StopCall(t)
             \/ work_finished(t) \/ EnterRun(t, c) \/ PolledNothing(t) \/ Leave(t)
             \/ CondTimeout(t) \/ PerformIo(t, ops) \/ HandlerReturn(t, c)
             \/ work_cleanup(t) \/ TaskEintr(t) \/ Requeue(t)
      PROVE  Quiet
  <2>1. OthersAlone(t)
    BY <1>1, OthersStep
  <2>2. /\ pc'[t] \notin {"task", "wait"}
        /\ InReactor(t)' <=> InReactor(t)
    BY <1>1, <1>a DEF post_immediate_completion, cancel, StopCall, work_finished, EnterRun,
         PolledNothing, Leave, CondTimeout, PerformIo, HandlerReturn, work_cleanup, TaskEintr,
         Requeue, UserCode, Goto, ReturnFromRun, post_deferred_completions, InReactor
  <2>3. UNCHANGED <<stopped, task_interrupted, interrupted>>
    BY <1>1 DEF post_immediate_completion, cancel, StopCall, work_finished, EnterRun,
         PolledNothing, Leave, CondTimeout, PerformIo, HandlerReturn, work_cleanup, TaskEintr,
         Requeue, sched, world
  <2>4. signalled => signalled'
    BY <1>1 DEF post_immediate_completion, cancel, StopCall, work_finished, EnterRun,
         PolledNothing, Leave, CondTimeout, PerformIo, HandlerReturn, work_cleanup, TaskEintr,
         Requeue, event, signal_one, Unlock
  <2> QED BY <1>b, <2>1, <2>2, <2>3, <2>4
<1>2. ASSUME NEW t \in Threads, ThreadStep(t), PostQueue(t) \/ PopHandler(t) PROVE Quiet
  <2>1. OthersAlone(t)
    BY <1>2, OthersStep
  <2>2. /\ pc'[t] \notin {"task", "wait"}
        /\ InReactor(t)' <=> InReactor(t)
    BY <1>2, <1>a DEF PostQueue, PopHandler, Looking, Goto, Caller, InReactor
  <2>3. UNCHANGED stopped
    BY <1>2 DEF PostQueue, PopHandler
  <2>4. /\ signalled => signalled'
        /\ UNCHANGED <<task_interrupted, interrupted>> \/ (task_interrupted' /\ interrupted')
    BY <1>2 DEF PostQueue, PopHandler, wake_one_thread_and_unlock, signal_one, interrupt_task,
         Unlock
  <2> QED BY <1>b, <2>1, <2>2, <2>3, <2>4
<1>3. ASSUME NEW t \in Threads, init_task(t) PROVE Quiet
  <2>1. UNCHANGED <<pc, usec, stopped>>
    BY <1>3 DEF init_task, thread
  <2>2. /\ signalled => signalled'
        /\ UNCHANGED <<task_interrupted, interrupted>> \/ (task_interrupted' /\ interrupted')
    BY <1>3 DEF init_task, wake_one_thread_and_unlock, signal_one, interrupt_task
  <2> QED BY <2>1, <2>2 DEF Quiet, InReactor
<1>4. ASSUME NEW t \in Threads, CondSignal(t) PROVE Quiet
  <2>1. UNCHANGED <<usec, stopped, signalled, task_interrupted, interrupted>>
    BY <1>4 DEF CondSignal, sched, world
  <2>2. \A u \in Threads : pc'[u] = pc[u] \/ (pc[u] = "wait" /\ pc'[u] = "woken")
    BY <1>4, <1>a DEF CondSignal, Goto
  <2> QED BY <2>1, <2>2 DEF Quiet, InReactor
<1>5. ASSUME NEW t \in Threads, NEW h, start_io(t, h) \/ restart(t) \/ work_started(t)
      PROVE  Quiet
  <2>1. /\ UNCHANGED <<pc, usec, signalled, task_interrupted, interrupted>>
        /\ stopped' => stopped
    BY <1>5 DEF start_io, restart, work_started, thread, event, world
  <2> QED BY <2>1 DEF Quiet, InReactor
<1>6. ASSUME Shutdown \/ UNCHANGED vars PROVE Quiet
  <2>1. UNCHANGED <<pc, usec, stopped, signalled, task_interrupted, interrupted>>
    BY <1>6 DEF Shutdown, vars, sched, event, thread, world
  <2> QED BY <2>1 DEF Quiet, InReactor
<1> DEFINE Loud(t) ==
              \/ PopTask(t) \/ task_cleanup(t) \/ EventWait(t) \/ EventWoken(t) \/ stop(t)
              \/ \E ready \in SetToAllKPermutations(pending_io \cup Descriptors) :
                    TaskReturn(t, ready)
<1>7. ASSUME NEW t \in Threads, UserStep(t) PROVE Quiet
  <2>1. ThreadStep(t)
    BY <1>7 DEF ThreadStep
  <2> QED BY <1>1, <1>3, <1>5, <1>7, <2>1, Zenon DEF UserStep
<1>8. ASSUME NEW t \in Threads, LibraryStep(t) PROVE Quiet \/ Loud(t)
  <2>1. ThreadStep(t)
    BY <1>8 DEF ThreadStep
  <2> QED BY <1>1, <1>2, <1>4, <1>8, <2>1, Zenon DEF LibraryStep
<1>9. ASSUME NEW t \in Threads, ThreadStep(t) PROVE Quiet \/ Loud(t)
  BY <1>1, <1>7, <1>8, <1>9, Zenon DEF ThreadStep
<1> HIDE DEF Loud
<1>10. Quiet \/ \E t \in Threads : Loud(t)
  BY <1>6, <1>9, StepOfThread, Zenon
<1> QED BY <1>10, Zenon DEF Loud

(* task_interrupted_ tells the truth: it may only be false while a thread   *)
(* is in the reactor, and if it is set while a thread blocks there an       *)
(* interrupt is already on its way.                                         *)
InterruptInv ==
  /\ (\A t \in Threads : ~InReactor(t)) => task_interrupted
  /\ \A t \in Threads :
       pc[t] = "task" /\ usec[t] = "forever" /\ task_interrupted => interrupted

(* Nobody takes the interrupt of a thread that blocks in the reactor back: *)
(* the thread that consumes it is the one in the reactor.                  *)
LEMMA InterruptStep ==
  TypeOK /\ TaskInv /\ CallInv /\ InterruptInv /\ [Next]_vars => InterruptInv'
<1> SUFFICES ASSUME TypeOK, TaskInv, CallInv, InterruptInv, [Next]_vars PROVE InterruptInv'
  OBVIOUS
<1>a. /\ pc \in [Threads -> PcValues] /\ task_interrupted \in BOOLEAN
      /\ interrupted \in BOOLEAN /\ usec \in [Threads -> {"zero", "timed", "forever"}]
      /\ op_queue \in Seq(Ops \cup {Task})
  BY DEF TypeOK, QueueType, StateType, FlagType
<1> USE DEF InterruptInv
<1>1. ASSUME Quiet PROVE InterruptInv'
  BY <1>a, <1>1 DEF Quiet
<1>2. ASSUME NEW t \in Threads, PopTask(t) PROVE InterruptInv'
  <2>1. /\ op_queue # <<>> /\ Head(op_queue) = Task
        /\ pc' = [pc EXCEPT ![t] = "task"]
        /\ UNCHANGED interrupted
        /\ \/ Tail(op_queue) = <<>>
              /\ IF MayBlock(t) THEN task_interrupted' = FALSE ELSE UNCHANGED usec
           \/ Tail(op_queue) # <<>> /\ usec' = [usec EXCEPT ![t] = "zero"]
    <3>1. /\ op_queue # <<>> /\ Head(op_queue) = Task
          /\ pc' = [pc EXCEPT ![t] = "task"] /\ UNCHANGED interrupted
      BY <1>2 DEF PopTask, Goto, world
    <3>2. CASE Tail(op_queue) = <<>>
      BY <1>2, <1>a, <3>1, <3>2 DEF PopTask
    <3>3. CASE Tail(op_queue) # <<>>
      BY <1>2, <3>1, <3>3 DEF PopTask
    <3> QED BY <3>2, <3>3
  <2>2. Task \in ToSet(op_queue)
    BY <1>a, <2>1, ToSetTail
  <2>3. \A u \in Threads : ~InReactor(u)
    BY <2>2 DEF TaskInv, TaskToken
  <2>4. \A u \in Threads : pc'[u] = "task" => u = t
    BY <1>a, <2>1, <2>3 DEF InReactor
  <2>5. InReactor(t)'
    BY <1>a, <2>1 DEF InReactor
  <2>6. usec'[t] = "forever" /\ task_interrupted' => FALSE
    <3>1. CASE MayBlock(t) /\ Tail(op_queue) = <<>>
      BY <2>1, <3>1
    <3>2. CASE Tail(op_queue) # <<>>
      BY <1>a, <2>1, <3>2
    <3>3. CASE ~MayBlock(t) /\ Tail(op_queue) = <<>>
      <4>1. pc[t] \in {"loop", "waited"}
        BY <1>2 DEF PopTask, Looking
      <4>2. usec[t] # "forever"
        BY <3>3, <4>1 DEF CallInv, CallShape, MayBlock, RunCalls
      <4> QED BY <2>1, <3>3, <4>2
    <3> QED BY <3>1, <3>2, <3>3
  <2> QED BY <2>4, <2>5, <2>6
<1>3. ASSUME NEW t \in Threads, task_cleanup(t) PROVE InterruptInv'
  <2>1. /\ task_interrupted' = TRUE /\ pc[t] = "task_cleanup" /\ pc'[t] \in {"loop", "polled"}
        /\ \A u \in Threads : u # t => pc'[u] = pc[u]
    BY <1>3, <1>a DEF task_cleanup, Goto
  <2>2. \A u \in Threads : pc'[u] # "task"
    BY <2>1 DEF TaskInv, TaskToken, InReactor
  <2> QED BY <2>1, <2>2
<1>4. ASSUME NEW t \in Threads, NEW ready, TaskReturn(t, ready) PROVE InterruptInv'
  <2>1. /\ pc[t] = "task" /\ pc' = [pc EXCEPT ![t] = "task_cleanup"]
    BY <1>4 DEF TaskReturn, Goto
  <2>2. \A u \in Threads : pc'[u] # "task"
    BY <1>a, <2>1 DEF TaskInv, TaskToken, InReactor
  <2>3. InReactor(t)'
    BY <1>a, <2>1 DEF InReactor
  <2> QED BY <2>2, <2>3
<1>5. ASSUME NEW t \in Threads, EventWait(t) \/ EventWoken(t) PROVE InterruptInv'
  <2>1. /\ pc[t] \in {"loop", "woken"} /\ pc'[t] \notin {"task", "task_cleanup"}
        /\ \A u \in Threads : u # t => pc'[u] = pc[u] /\ usec'[u] = usec[u]
        /\ UNCHANGED <<task_interrupted, interrupted>>
    BY <1>5, <1>a DEF EventWait, EventWoken, Goto, sched, world
  <2> QED BY <2>1 DEF InReactor
<1>6. ASSUME NEW t \in Threads, stop(t) PROVE InterruptInv'
  <2>1. /\ pc[t] \in {"stop", "cleanup_stop"} /\ pc'[t] \in {"handler", "out", "requeue"}
        /\ \A u \in Threads : u # t => pc'[u] = IF pc[u] = "wait" THEN "woken" ELSE pc[u]
        /\ UNCHANGED usec
    BY <1>6 DEF stop, stop_all_threads, Caller
  <2>2. UNCHANGED <<task_interrupted, interrupted>> \/ (task_interrupted' /\ interrupted')
    BY <1>6 DEF stop, stop_all_threads, interrupt_task
  <2>3. \A u \in Threads : (InReactor(u)' <=> InReactor(u)) /\ (pc'[u] = "task" => pc[u] = "task")
    BY <2>1 DEF InReactor
  <2> QED BY <1>a, <2>1, <2>2, <2>3
<1> HIDE DEF InterruptInv
<1> QED BY <1>1, <1>2, <1>3, <1>4, <1>5, <1>6, QuietStep, Zenon

(* interrupt_task() leaves nobody blocked in the reactor.                  *)
LEMMA InterruptWakes ==
  ASSUME TaskInv, InterruptInv, TypeOK, interrupt_task(task), NEW u \in Threads,
         pc[u] = "task", usec[u] = "forever"
  PROVE  interrupted'
<1>1. task
  BY DEF TaskInv, InReactor
<1> QED BY <1>1 DEF interrupt_task, InterruptInv, TypeOK, FlagType

-----------------------------------------------------------------------------
(* stop() reaches everybody.                                               *)

(* Once stopped_ is set nobody sleeps, and nobody goes to sleep again       *)
(* before restart().                                                        *)
StopInv == stopped => signalled /\ \A t \in Threads : ~Blocked(t)

(* stop() wakes the sleepers of the event and the thread in the reactor,    *)
(* and the loop tests stopped_ before it blocks.                            *)
LEMMA StopStep ==
  TypeOK /\ TaskInv /\ CallInv /\ InterruptInv /\ StopInv /\ [Next]_vars => StopInv'
<1> SUFFICES ASSUME TypeOK, TaskInv, CallInv, InterruptInv, StopInv, [Next]_vars
             PROVE  StopInv'
  OBVIOUS
<1>a. /\ pc \in [Threads -> PcValues] /\ signalled \in BOOLEAN /\ stopped \in BOOLEAN
      /\ usec \in [Threads -> {"zero", "timed", "forever"}]
  BY DEF TypeOK, StateType, FlagType
<1>b. stopped => signalled /\ \A u \in Threads :
        pc[u] # "wait" /\ (pc[u] = "task" /\ usec[u] = "forever" => interrupted)
  BY DEF StopInv, Blocked
<1> USE DEF StopInv, Blocked
<1>1. ASSUME Quiet PROVE StopInv'
  BY <1>1, <1>b DEF Quiet
<1>2. ASSUME NEW t \in Threads, PopTask(t) PROVE StopInv'
  <2>1. /\ UNCHANGED <<stopped, interrupted>>
        /\ signalled => signalled'
        /\ pc[t] = "waited" \/ ~stopped
        /\ pc' = [pc EXCEPT ![t] = "task"]
        /\ usec'[t] \in {"zero", usec[t]} /\ \A u \in Threads : u # t => usec'[u] = usec[u]
    BY <1>2, <1>a DEF PopTask, Looking, Goto, world, signal_one, Unlock
  <2>2. pc[t] = "waited" => usec[t] # "forever"
    BY DEF CallInv, CallShape
  <2> QED BY <1>a, <1>b, <2>1, <2>2
<1>3. ASSUME NEW t \in Threads, task_cleanup(t) PROVE StopInv'
  <2>1. /\ UNCHANGED <<stopped, interrupted, signalled>>
        /\ pc'[t] \in {"loop", "polled"}
        /\ \A u \in Threads : u # t => pc'[u] = pc[u] /\ usec'[u] = usec[u]
    BY <1>3, <1>a DEF task_cleanup, Goto, world
  <2> QED BY <1>b, <2>1
<1>4. ASSUME NEW t \in Threads, EventWait(t) PROVE StopInv'
  BY <1>4 DEF EventWait, Looking, sched
<1>5. ASSUME NEW t \in Threads, EventWoken(t) PROVE StopInv'
  <2>1. /\ UNCHANGED <<stopped, interrupted, signalled>>
        /\ signalled => pc'[t] \in {"loop", "waited"}
        /\ \A u \in Threads : u # t => pc'[u] = pc[u] /\ usec'[u] = usec[u]
    BY <1>5, <1>a DEF EventWoken, Goto, world, sched
  <2> QED BY <1>b, <2>1
<1>6. ASSUME NEW t \in Threads, stop(t) PROVE StopInv'
  <2>1. /\ signalled' /\ interrupt_task(task) /\ UNCHANGED usec
        /\ pc[t] \in {"stop", "cleanup_stop"} /\ pc'[t] \in {"handler", "out", "requeue"}
        /\ \A u \in Threads : u # t => pc'[u] = IF pc[u] = "wait" THEN "woken" ELSE pc[u]
    BY <1>6 DEF stop, stop_all_threads, Caller
  <2>2. ASSUME NEW u \in Threads, Blocked(u)' PROVE FALSE
    <3>1. pc'[u] = "task" /\ usec'[u] = "forever" /\ ~interrupted'
      BY <2>1, <2>2
    <3>2. pc[u] = "task" /\ usec[u] = "forever"
      BY <2>1, <3>1
    <3> QED BY <2>1, <3>1, <3>2, InterruptWakes
  <2> QED BY <2>1, <2>2
<1>7. ASSUME NEW t \in Threads, NEW ready, TaskReturn(t, ready) PROVE StopInv'
  <2>1. /\ UNCHANGED <<stopped, signalled, usec>>
        /\ pc[t] = "task" /\ pc' = [pc EXCEPT ![t] = "task_cleanup"]
    BY <1>7 DEF TaskReturn, Goto, event
  <2>2. \A u \in Threads : pc'[u] # "task"
    BY <1>a, <2>1 DEF TaskInv, TaskToken, InReactor
  <2> QED BY <1>a, <1>b, <2>1, <2>2
<1> HIDE DEF StopInv, Blocked
<1> QED BY <1>1, <1>2, <1>3, <1>4, <1>5, <1>6, <1>7, QuietStep, Zenon

-----------------------------------------------------------------------------
(* The wakeup.                                                             *)

(* run() and poll() look at the queue again after every operation. *)
Returns(t) == call[t] \in {"run", "poll"}

(* A thread that looks at the queue, or pops it, before it can sleep. *)
WillSee(t) ==
  \/ pc[t] \in {"loop", "polled", "waited", "task_cleanup"}
  \/ pc[t] = "task" /\ ~Blocked(t)
  \/ pc[t] \in {"work_cleanup", "cleanup_stop", "requeue"} /\ Returns(t)
  \/ one_thread /\ InHandler(t) /\ Returns(t)

(* A thread that has been woken in the event, or is about to wake one. *)
Stirred(t) ==
  pc[t] = "woken" \/ (t \in signalling /\ \E w \in Threads : pc[w] = "wait")

(* While operations are queued, either the event is set, so that nobody who *)
(* is woken sleeps again, or a thread will look at the queue; and if anyone *)
(* sleeps, such a thread exists or someone is being woken.                  *)
WakeInv ==
  ~stopped /\ op_queue # <<>> =>
     /\ ~signalled => \E t \in Threads : WillSee(t)
     /\ (\E t \in Threads : Blocked(t)) => \E t \in Threads : WillSee(t) \/ Stirred(t)

(* A thread that will look at the queue is enough. *)
LEMMA WakeSeen == ASSUME NEW t \in Threads, WillSee(t) PROVE WakeInv
BY DEF WakeInv

(* The steps of a thread that leave the queue and every wakeup alone.      *)
LEMMA WakeKept ==
  ASSUME TypeOK, WakeInv, NEW t \in Threads, OthersAlone(t),
         UNCHANGED <<op_queue, stopped>>, interrupted => interrupted',
         signalled => signalled', signalling \subseteq signalling',
         WillSee(t) => WillSee(t)', Blocked(t)' => Blocked(t),
         pc[t] \in {"wait", "woken"} => pc'[t] \in {pc[t], "woken"}
  PROVE  WakeInv'
<1>a. interrupted \in BOOLEAN /\ signalled \in BOOLEAN
  BY DEF TypeOK, FlagType
<1>1. ASSUME NEW u \in Threads, WillSee(u) PROVE WillSee(u)'
  <2>1. CASE u = t
    BY <1>1, <2>1
  <2>2. CASE u # t
    <3>1. /\ pc[u] # "wait" => pc'[u] = pc[u]
          /\ call'[u] = call[u] /\ usec'[u] = usec[u] /\ current'[u] = current[u]
          /\ one_thread' = one_thread
      BY <2>2 DEF OthersAlone
    <3>2. pc[u] # "wait"
      BY <1>1 DEF WillSee, InHandler
    <3> QED BY <1>1, <1>a, <3>1, <3>2 DEF WillSee, InHandler, Returns, Blocked
  <2> QED BY <2>1, <2>2
<1>2. ASSUME NEW u \in Threads, Blocked(u)' PROVE Blocked(u)
  <2>1. CASE u = t
    BY <1>2, <2>1
  <2>2. CASE u # t
    <3>1. usec'[u] = usec[u] /\ pc'[u] \in {"wait", "task"} => pc'[u] = pc[u]
      BY <2>2 DEF OthersAlone
    <3> QED BY <1>2, <1>a, <2>2, <3>1 DEF Blocked, OthersAlone
  <2> QED BY <2>1, <2>2
<1>3. \A u \in Threads : pc[u] \in {"wait", "woken"} => pc'[u] \in {pc[u], "woken"}
  BY DEF OthersAlone
<1>4. ASSUME NEW u \in Threads, Stirred(u) PROVE \E w \in Threads : Stirred(w)'
  <2>1. CASE pc[u] = "woken"
    BY <1>3, <2>1 DEF Stirred
  <2>2. CASE u \in signalling /\ \E w \in Threads : pc[w] = "wait"
    <3>1. PICK w \in Threads : pc[w] = "wait"
      BY <2>2
    <3>2. pc'[w] \in {"wait", "woken"} /\ u \in signalling'
      BY <1>3, <2>2, <3>1
    <3> QED BY <3>2 DEF Stirred
  <2> QED BY <1>4, <2>1, <2>2 DEF Stirred
<1> HIDE DEF Stirred, WillSee, Blocked
<1> QED BY <1>1, <1>2, <1>4, <1>a DEF WakeInv

(* Setting the event and signalling one thread, with an interrupt of the    *)
(* reactor if no thread waits in the event, reaches some sleeper.           *)
LEMMA WakeOne ==
  ASSUME TypeOK, TaskInv, InterruptInv, NEW t \in Threads, OthersAlone(t),
         wake_one_thread_and_unlock(t, TRUE) \/ wake_one_thread_and_unlock(t, task),
         pc[t] \notin {"wait", "woken"}, pc'[t] \notin {"wait", "task"}
  PROVE  WakeInv'
<1>a. task \in BOOLEAN
  BY DEF TypeOK, FlagType
<1>1. signalled'
  BY DEF wake_one_thread_and_unlock, signal_one
<1>2. CASE Waiters # {}
  <2>1. t \in signalling'
    BY <1>2 DEF wake_one_thread_and_unlock, signal_one
  <2>2. PICK w \in Threads : pc[w] \in {"wait", "woken"}
    BY <1>2 DEF Waiters
  <2>3. pc'[w] \in {"wait", "woken"}
    BY <2>2 DEF OthersAlone
  <2>4. \E u \in Threads : Stirred(u)'
    BY <2>1, <2>3 DEF Stirred
  <2> QED BY <1>1, <2>4 DEF WakeInv
<1>3. CASE Waiters = {}
  <2>1. interrupt_task(TRUE) \/ interrupt_task(task)
    BY <1>3 DEF wake_one_thread_and_unlock
  <2>2. ASSUME NEW u \in Threads, Blocked(u)' PROVE FALSE
    <3>1. /\ pc[u] \notin {"wait", "woken"}
          /\ u # t
      BY <1>3, <2>2 DEF Waiters, Blocked
    <3>2. pc[u] = "task" /\ usec[u] = "forever" /\ ~interrupted'
      BY <2>2, <3>1 DEF OthersAlone, Blocked
    <3>3. task
      BY <3>2 DEF TaskInv, InReactor
    <3>4. interrupt_task(task)
      BY <1>a, <2>1, <3>3
    <3> QED BY <3>2, <3>4, InterruptWakes
  <2> QED BY <1>1, <2>2 DEF WakeInv
<1> QED BY <1>2, <1>3

(* Every step that queues work or sends a thread to sleep leaves a thread   *)
(* that looks at the queue, or wakes one; requeueing without waking anybody *)
(* is harmless in a WakingProgram.                                          *)
LEMMA WakeStep ==
  TypeOK /\ TaskInv /\ CallInv /\ WakingProgram /\ ProgramInv /\ InterruptInv /\ StopInv
    /\ WakeInv /\ [Next]_vars => WakeInv'
<1> SUFFICES ASSUME TypeOK, TaskInv, CallInv, WakingProgram, ProgramInv, InterruptInv,
                    StopInv, WakeInv, [Next]_vars
             PROVE  WakeInv'
  OBVIOUS
<1>a. /\ pc \in [Threads -> PcValues] /\ signalled \in BOOLEAN /\ stopped \in BOOLEAN
      /\ usec \in [Threads -> {"zero", "timed", "forever"}] /\ interrupted \in BOOLEAN
      /\ current \in [Threads -> Ops \cup {None}] /\ one_thread \in BOOLEAN
      /\ call \in [Threads -> RunCalls \cup {"throw", None}]
      /\ None \notin Ops /\ op_queue \in Seq(Ops \cup {Task})
  BY SchedulerAssumption DEF TypeOK, StateType, FlagType, QueueType, Ops
(* What the two kinds of program give. *)
<1>p. \/ /\ ~one_thread
         /\ \A t \in Threads : private_op_queue[t] # <<>> => pc[t] = "task_cleanup"
      \/ /\ "throw" \notin Api
         /\ \A t \in Threads : call[t] \in {None, "run", "poll"}
  BY <1>a DEF WakingProgram, ProgramInv
<1>c. \A t \in Threads : CallShape(t)
  BY DEF CallInv
<1>b. ASSUME NEW t \in Threads, WillSee(t)' PROVE WakeInv'
  BY <1>b DEF WakeInv
<1>v. ASSUME op_queue' = <<>> \/ stopped' PROVE WakeInv'
  BY <1>v DEF WakeInv
(* User code. *)
<1>1. ASSUME NEW t \in Threads, ThreadStep(t), NEW h, NEW c, NEW ops,
             \/ post_immediate_completion(t, h, c) \/ cancel(t, ops) \/ StopCall(t)
             \/ work_finished(t) \/ start_io(t, h) \/ work_started(t)
      PROVE  WakeInv'
  <2>1. OthersAlone(t)
    BY <1>1, OthersStep
  <2>2. UNCHANGED <<op_queue, stopped, interrupted, signalled, signalling, call, current,
                    one_thread>>
    BY <1>1 DEF post_immediate_completion, cancel, StopCall, work_finished, start_io,
         work_started, event, sched, world, thread
  <2>3. pc[t] \in {"out", "handler"} /\ pc'[t] \in {pc[t], "post", "stop"}
    BY <1>1, <1>a DEF post_immediate_completion, cancel, StopCall, work_finished, start_io,
         work_started, thread, UserCode, Goto, post_deferred_completions
  <2>4. WillSee(t) => WillSee(t)'
    BY <2>2, <2>3 DEF WillSee, InHandler, Returns
  <2>5. Blocked(t)' => Blocked(t)
    BY <2>3 DEF Blocked
  <2>6. pc[t] \notin {"wait", "woken"}
    BY <2>3
  <2> QED BY WakeKept, <2>1, <2>2, <2>4, <2>5, <2>6
<1>2. ASSUME NEW t \in Threads, restart(t) PROVE WakeInv'
  <2>1. UNCHANGED <<signalled, signalling, pc, usec, interrupted>>
    BY <1>2 DEF restart, event, thread, world
  <2>2. CASE stopped
    <3>1. signalled' /\ \A u \in Threads : ~Blocked(u)'
      BY <2>1, <2>2 DEF StopInv, Blocked
    <3> QED BY <3>1 DEF WakeInv
  <2>3. CASE ~stopped
    <3>1. UNCHANGED <<op_queue, one_thread, call, current>>
      BY <1>2 DEF restart, thread
    <3> QED BY <2>1, <2>3, <3>1 DEF WakeInv, WillSee, Stirred, Blocked, InHandler, Returns
  <2> QED BY <1>a, <2>2, <2>3
<1>3. ASSUME NEW t \in Threads, ThreadStep(t), NEW c, EnterRun(t, c) PROVE WakeInv'
  <2>1. OthersAlone(t)
    BY <1>3, OthersStep
  <2>2. /\ UNCHANGED <<op_queue, stopped, interrupted, signalled, signalling>>
        /\ pc[t] = "out" /\ pc'[t] \in {"loop", "stop"}
    BY <1>3, <1>a DEF EnterRun, event, sched, world, Goto
  <2> QED BY WakeKept, <2>1, <2>2 DEF WillSee, InHandler, Blocked
<1>4. ASSUME NEW t \in Threads, ThreadStep(t), NEW e,
             HandlerReturn(t, e), e => "throw" \in Api
      PROVE  WakeInv'
  <2>1. OthersAlone(t)
    BY <1>4, OthersStep
  <2>2. /\ UNCHANGED <<op_queue, stopped, interrupted, signalled, signalling>>
        /\ pc[t] = "handler" /\ pc'[t] = "work_cleanup"
    BY <1>4, <1>a DEF HandlerReturn, event, sched, Goto
  <2>3. WillSee(t) => WillSee(t)'
    <3>1. CASE one_thread
      BY <1>4, <1>p, <2>2, <3>1 DEF HandlerReturn, WillSee, Returns
    <3>2. CASE ~one_thread
      BY <2>2, <3>2 DEF WillSee
    <3> QED BY <3>1, <3>2
  <2> QED BY WakeKept, <2>1, <2>2, <2>3 DEF Blocked
<1>5. ASSUME NEW t \in Threads, ThreadStep(t),
             NEW ready \in SetToAllKPermutations(pending_io), PerformIo(t, ready)
      PROVE  WakeInv'
  <2>1. OthersAlone(t)
    BY <1>5, OthersStep
  <2>2. UNCHANGED <<op_queue, stopped, interrupted, signalled, signalling, call, one_thread>>
    BY <1>5 DEF PerformIo, event, sched
  <2>3. /\ pc[t] = "handler"
        /\ \/ pc'[t] = "work_cleanup"
           \/ pc'[t] \in {"handler", "post"} /\ current'[t] # None
    <3>1. pc[t] = "handler"
      BY <1>5 DEF PerformIo
    <3>2. CASE ready = <<>>
      BY <1>5, <1>a, <3>2 DEF PerformIo, Goto
    <3>3. CASE ready # <<>>
      <4>1. Head(ready) \in Ops
        BY <3>3, SchedulerAssumption, FS_Subset, PermutationSeq DEF Ops, TypeOK, StateType
      <4>2. current'[t] = Head(ready)
        BY <1>5, <1>a, <3>3 DEF PerformIo
      <4>3. pc'[t] \in {"handler", "post"}
        BY <1>5, <1>a, <3>1, <3>3 DEF PerformIo, Goto, post_deferred_completions
      <4> QED BY <1>a, <3>1, <4>1, <4>2, <4>3
    <3> QED BY <3>2, <3>3
  <2>4. WillSee(t) => WillSee(t)'
    BY <2>2, <2>3 DEF WillSee, InHandler, Returns
  <2>5. /\ Blocked(t)' => Blocked(t)
        /\ pc[t] \notin {"wait", "woken"}
    BY <2>3 DEF Blocked
  <2> QED BY WakeKept, <2>1, <2>2, <2>4, <2>5
<1>6. ASSUME NEW t \in Threads, ThreadStep(t), work_cleanup(t) PROVE WakeInv'
  <2>1. OthersAlone(t)
    BY <1>6, OthersStep
  <2>2. /\ UNCHANGED <<op_queue, stopped, interrupted, signalled, signalling, call>>
        /\ pc[t] = "work_cleanup" /\ pc'[t] \in {"cleanup_stop", "requeue"}
    BY <1>6, <1>a DEF work_cleanup, event, world, Goto
  <2>3. WillSee(t) => WillSee(t)'
    BY <2>2 DEF WillSee, InHandler, Returns
  <2> QED BY WakeKept, <2>1, <2>2, <2>3 DEF Blocked
(* Pushing work. *)
<1>7. ASSUME NEW t \in Threads, ThreadStep(t), init_task(t) \/ PostQueue(t) PROVE WakeInv'
  <2>1. OthersAlone(t)
    BY <1>7, OthersStep
  <2>2. /\ wake_one_thread_and_unlock(t, TRUE) \/ wake_one_thread_and_unlock(t, task)
        /\ pc[t] \in {"out", "handler", "post"} /\ pc'[t] \in {"out", "handler"}
    BY <1>7, <1>a DEF init_task, PostQueue, UserCode, Goto, Caller, thread
  <2> QED BY WakeOne, <2>1, <2>2
<1>8. ASSUME NEW t \in Threads, ThreadStep(t), PopHandler(t) PROVE WakeInv'
  <2>1. OthersAlone(t)
    BY <1>8, OthersStep
  <2>2. /\ pc[t] \in {"loop", "waited", "polled"} /\ pc'[t] = "handler"
        /\ op_queue # <<>> /\ op_queue' = Tail(op_queue)
        /\ Head(op_queue) # Task /\ current'[t] = Head(op_queue)
        /\ UNCHANGED <<call, one_thread>>
    BY <1>8, <1>a DEF PopHandler, Looking, Goto
  <2>3. CASE Tail(op_queue) = <<>>
    BY <1>v, <2>2, <2>3
  <2>4. CASE Tail(op_queue) # <<>> /\ ~one_thread
    <3>1. wake_one_thread_and_unlock(t, task)
      BY <1>8, <2>4 DEF PopHandler
    <3> QED BY WakeOne, <2>1, <2>2, <3>1
  <2>5. CASE one_thread
    <3>1. call[t] \in RunCalls
      BY <1>c, <2>2 DEF CallShape
    <3>2. Returns(t)'
      BY <1>p, <2>2, <2>5, <3>1, NullAssumption DEF Returns, ApiCalls
    <3>3. current'[t] # None
      BY <1>a, <2>2
    <3>4. WillSee(t)'
      BY <2>2, <2>5, <3>2, <3>3 DEF WillSee, InHandler
    <3> QED BY <1>b, <3>4
  <2> QED BY <1>a, <2>3, <2>4, <2>5
<1>9. ASSUME NEW t \in Threads, task_cleanup(t) PROVE WakeInv'
  <2>1. pc'[t] \in {"loop", "polled"}
    BY <1>9, <1>a DEF task_cleanup, Goto
  <2> QED BY <1>b, <2>1 DEF WillSee
<1>10. ASSUME NEW t \in Threads, ThreadStep(t), Requeue(t) PROVE WakeInv'
  <2>1. CASE Returns(t)
    <3>1. pc'[t] = "loop"
      BY <1>10, <1>a, <2>1 DEF Requeue, Goto, Returns
    <3> QED BY <1>b, <3>1 DEF WillSee
  <2>2. CASE ~Returns(t)
    <3>1. pc[t] = "requeue" /\ pc'[t] = "out" /\ UNCHANGED <<stopped, interrupted, signalled,
                                                            signalling>>
      BY <1>10, <1>a, <2>2 DEF Requeue, ReturnFromRun, Goto, Returns, world
    <3>2. call[t] # None
      BY <1>c, <3>1 DEF CallShape
    <3>3. private_op_queue[t] = <<>>
      BY <1>p, <2>2, <3>1, <3>2 DEF Returns
    <3>4. UNCHANGED op_queue
      BY <1>10, <1>a, <3>3 DEF Requeue, PushPrivate
    <3>5. OthersAlone(t)
      BY <1>10, OthersStep
    <3>6. ~WillSee(t)
      BY <2>2, <3>1 DEF WillSee, InHandler
    <3> QED BY WakeKept, <3>1, <3>4, <3>5, <3>6 DEF Blocked
  <2> QED BY <2>1, <2>2
(* Going into the reactor and coming back. *)
<1>11. ASSUME NEW t \in Threads, PopTask(t) PROVE WakeInv'
  <2>1. op_queue' = Tail(op_queue) /\ pc'[t] = "task"
    BY <1>11, <1>a DEF PopTask, Goto
  <2>2. CASE Tail(op_queue) = <<>>
    BY <1>v, <2>1, <2>2
  <2>3. CASE Tail(op_queue) # <<>>
    <3>1. usec'[t] = "zero"
      BY <1>11, <1>a, <2>3 DEF PopTask
    <3> QED BY <1>b, <2>1, <3>1 DEF WillSee, Blocked
  <2> QED BY <2>2, <2>3
<1>12. ASSUME NEW t \in Threads, NEW ready, TaskReturn(t, ready) \/ TaskEintr(t) PROVE WakeInv'
  <2>1. pc'[t] = "task_cleanup"
    BY <1>12, <1>a DEF TaskReturn, TaskEintr, Goto
  <2> QED BY <1>b, <2>1 DEF WillSee
<1>13. ASSUME NEW t \in Threads, ThreadStep(t), PolledNothing(t) PROVE WakeInv'
  <2>1. /\ UNCHANGED <<op_queue, interrupted>>
        /\ pc[t] = "polled" /\ pc'[t] = "out" /\ Head(op_queue) = Task
    BY <1>13, <1>a DEF PolledNothing, sched, world, ReturnFromRun, Goto
  <2>2. ~(call[t] = "wait_one" /\ one_thread)
    BY <1>p, NullAssumption DEF ApiCalls, RunCalls
  <2>3. signal_one(t)
    BY <1>13, <2>2 DEF PolledNothing
  <2>4. OthersAlone(t)
    BY <1>13, OthersStep
  <2>5. ASSUME op_queue # <<>>, NEW u \in Threads, Blocked(u)' PROVE Stirred(t)'
    <3>1. Task \in ToSet(op_queue)
      BY <1>a, <2>1, <2>5, ToSetTail
    <3>2. u # t /\ ~InReactor(u)
      BY <2>1, <2>5, <3>1 DEF TaskInv, TaskToken, Blocked
    <3>3. pc'[u] = "wait" /\ pc[u] = "wait"
      BY <2>4, <2>5, <3>2 DEF OthersAlone, Blocked, InReactor
    <3>4. t \in signalling'
      BY <2>3, <3>3 DEF signal_one, Waiters
    <3> QED BY <3>3, <3>4 DEF Stirred
  <2>6. signalled'
    BY <2>3 DEF signal_one
  <2> QED BY <2>1, <2>5, <2>6 DEF WakeInv
(* Sleeping and waking. *)
<1>14. ASSUME NEW t \in Threads, EventWait(t) PROVE WakeInv'
  BY <1>14, <1>v DEF EventWait, sched
<1>15. ASSUME NEW t \in Threads, ThreadStep(t), EventWoken(t) PROVE WakeInv'
  <2>1. /\ pc[t] = "woken" /\ UNCHANGED <<op_queue, stopped, interrupted, signalled>>
        /\ pc'[t] \in {"waited", "loop"} \/ (~signalled /\ pc'[t] = "wait")
    BY <1>15, <1>a DEF EventWoken, sched, world, Goto
  <2>2. CASE pc'[t] \in {"waited", "loop"}
    BY <1>b, <2>2 DEF WillSee
  <2>3. CASE ~signalled /\ pc'[t] = "wait"
    <3>1. OthersAlone(t)
      BY <1>15, OthersStep
    <3>2. ASSUME NEW u \in Threads, WillSee(u) PROVE WillSee(u)'
      <4>1. u # t /\ pc[u] # "wait"
        BY <2>1, <3>2 DEF WillSee, InHandler
      <4> QED BY <2>1, <3>1, <3>2, <4>1 DEF OthersAlone, WillSee, InHandler, Returns, Blocked
    <3>3. (~stopped /\ op_queue # <<>>) => \E u \in Threads : WillSee(u)
      BY <2>3 DEF WakeInv
    <3>4. (~stopped' /\ op_queue' # <<>>) => \E u \in Threads : WillSee(u)'
      BY <2>1, <3>2, <3>3
    <3> QED BY <3>4 DEF WakeInv
  <2> QED BY <2>1, <2>2, <2>3
<1>16. ASSUME NEW t \in Threads, Leave(t) PROVE WakeInv'
  BY <1>16, <1>v DEF Leave, sched
<1>17. ASSUME NEW t \in Threads, ThreadStep(t), CondTimeout(t) PROVE WakeInv'
  <2>1. OthersAlone(t)
    BY <1>17, OthersStep
  <2>2. /\ UNCHANGED <<op_queue, stopped, interrupted, signalled, signalling>>
        /\ pc[t] = "wait" /\ pc'[t] = "woken"
    BY <1>17, <1>a DEF CondTimeout, sched, event, world, Goto
  <2> QED BY WakeKept, <2>1, <2>2 DEF WillSee, InHandler, Blocked
<1>18. ASSUME NEW t \in Threads, CondSignal(t) PROVE WakeInv'
  <2>1. /\ UNCHANGED <<op_queue, stopped, one_thread, interrupted, signalled, call, current,
                       usec>>
        /\ signalling' = signalling \ {t}
    BY <1>18 DEF CondSignal, sched, world
  <2>2. CASE \E w \in Threads : pc[w] = "wait"
    <3>1. PICK w \in Threads : pc[w] = "wait" /\ pc' = [pc EXCEPT ![w] = "woken"]
      BY <1>18, <2>2 DEF CondSignal, Goto
    <3>2. Stirred(w)'
      BY <1>a, <3>1 DEF Stirred
    <3>3. ASSUME NEW u \in Threads, WillSee(u) PROVE WillSee(u)'
      <4>1. pc[u] # "wait"
        BY <3>3 DEF WillSee, InHandler
      <4>2. pc'[u] = pc[u]
        BY <1>a, <3>1, <4>1
      <4> QED BY <2>1, <3>3, <4>2 DEF WillSee, InHandler, Returns, Blocked
    <3> HIDE DEF Stirred, WillSee
    <3> QED BY <2>1, <3>2, <3>3 DEF WakeInv
  <2>3. CASE \A w \in Threads : pc[w] # "wait"
    <3>1. UNCHANGED pc
      BY <1>18, <2>3 DEF CondSignal
    <3>2. \A u \in Threads : /\ Blocked(u)' <=> Blocked(u)
                             /\ WillSee(u)' <=> WillSee(u)
                             /\ Stirred(u)' <=> Stirred(u)
      BY <2>1, <2>3, <3>1 DEF Blocked, WillSee, Stirred, InHandler, Returns
    <3> QED BY <2>1, <3>2, Zenon DEF WakeInv
  <2> QED BY <2>2, <2>3
<1>19. ASSUME NEW t \in Threads, stop(t) PROVE WakeInv'
  BY <1>19, <1>v DEF stop, stop_all_threads
<1>20. ASSUME Shutdown PROVE WakeInv'
  BY <1>20, <1>v DEF Shutdown
<1>21. ASSUME UNCHANGED vars PROVE WakeInv'
  BY <1>21 DEF vars, sched, event, thread, world, WakeInv, WillSee, Stirred, Blocked,
       InHandler, Returns
<1>22. ASSUME NEW t \in Threads, UserStep(t) PROVE WakeInv'
  <2>1. ThreadStep(t)
    BY <1>22 DEF ThreadStep
  <2>2. ASSUME "throw" \in Api, HandlerReturn(t, TRUE) PROVE WakeInv'
    BY <1>4, <2>1, <2>2, Zenon
  <2> QED BY <1>1, <1>2, <1>3, <1>7, <1>22, <2>1, <2>2, Zenon DEF UserStep
<1>23. ASSUME NEW t \in Threads, LibraryStep(t) PROVE WakeInv'
  <2>1. ThreadStep(t)
    BY <1>23 DEF ThreadStep
  <2>2. ASSUME HandlerReturn(t, FALSE) PROVE WakeInv'
    BY <1>4, <2>1, <2>2, Zenon
  <2> QED BY <1>5, <1>6, <1>7, <1>8, <1>9, <1>10, <1>11, <1>13, <1>14, <1>15, <1>16, <1>18,
             <1>19, <1>23, <2>1, <2>2, Zenon DEF LibraryStep
<1>24. ASSUME NEW t \in Threads, ThreadStep(t) PROVE WakeInv'
  BY <1>12, <1>17, <1>22, <1>23, <1>24, Zenon DEF ThreadStep
<1> QED BY <1>20, <1>21, <1>24, StepOfThread, Zenon

-----------------------------------------------------------------------------
(* The constructor leaves no thread in the loop and nothing queued.        *)
LEMMA WakeInit ==
  Init => CallInv /\ ProgramInv /\ InterruptInv /\ StopInv /\ WakeInv
<1> SUFFICES ASSUME Init
             PROVE  CallInv /\ ProgramInv /\ InterruptInv /\ StopInv /\ WakeInv
  OBVIOUS
<1>1. CallInv /\ InterruptInv /\ StopInv /\ WakeInv
  BY DEF Init, CallInv, CallShape, InterruptInv, StopInv, WakeInv, InReactor
<1>2. ProgramInv
  BY DEF Init, ProgramInv
<1> QED BY <1>1, <1>2

(* A thread that will see the queue, or has been woken, comes back to it.  *)
LEMMA WakeEnough == TypeOK /\ CallInv /\ WakeInv => NoLostWakeup
<1> SUFFICES ASSUME TypeOK, CallInv, WakeInv, ~stopped, op_queue # <<>>,
                    \E t \in Threads : Blocked(t)
             PROVE  \E t \in Threads : ComesBack(t)
  BY DEF NoLostWakeup
<1>1. PICK t \in Threads : WillSee(t) \/ Stirred(t)
  BY DEF WakeInv
<1>2. CallShape(t) /\ None \notin RunCalls
  BY NullAssumption DEF CallInv, ApiCalls
<1>3. ComesBack(t)
  BY <1>1, <1>2 DEF WillSee, Stirred, ComesBack, WillLook, CallShape, Blocked, InHandler,
     Returns, RunCalls
<1> QED BY <1>3

(* No lost wakeup: in every reachable state of a WakingProgram, while an    *)
(* operation or the reactor's turn is queued and a thread sleeps in the     *)
(* event or in the reactor, some thread is on its way to the queue.         *)
THEOREM NoLostWakeupInvariant ==
  ASSUME WakingProgram PROVE Spec => []NoLostWakeup
<1> DEFINE I == CallInv /\ ProgramInv /\ InterruptInv /\ StopInv /\ WakeInv
<1>1. Init => I
  BY WakeInit
<1>2. TypeOK /\ TaskInv /\ I /\ [Next]_vars => I'
  BY CallStep, ProgramStep, InterruptStep, StopStep, WakeStep
<1>3. TypeOK /\ I => NoLostWakeup
  BY WakeEnough
<1> HIDE DEF I
<1> QED BY <1>1, <1>2, <1>3, TypeCorrect, TaskInvInit, TaskInvStep, PTL DEF Spec
=============================================================================
