--------------------------- MODULE ResolverProof ---------------------------
(***************************************************************************)
(* Proofs about Resolver for every finite set of resolvers, any lookups    *)
(* and any number of forks: the work counts of both io_contexts cover the  *)
(* lookups under way, that of a handler's executor differs from them by    *)
(* the lookups of endpoints the worker has passed back, and cancel() ends  *)
(* the lookups that have not begun; others are aborted only if they were   *)
(* made with a resolver that had been moved from.                          *)
(***************************************************************************)
EXTENDS Resolver, FiniteSetTheorems, TLAPS

Kinds == {"query", "endpoint"}

(* What the theorems ask of a program: it has finitely many resolvers, and *)
(* none of them goes by the name of Nobody.                                *)
Setting ==
  /\ IsFiniteSet(Resolvers) /\ Nobody \notin Resolvers
  /\ Lookups \in Seq(Kinds)

-----------------------------------------------------------------------------
(* Types.                                                                  *)

OperationType ==
  [kind : Kinds, token : Tokens \cup {Null}, owner : Resolvers \cup {Nobody},
   at : {"starting", "worker", "aborted", "looking", "main", "done", "destroyed"},
   ec : {"", "operation_aborted", "host_not_found", "operation_not_supported"},
   results : {"empty", "entries", "unwritten"},
   cancelled : BOOLEAN, null : BOOLEAN, async : BOOLEAN, passed : BOOLEAN]

ImplType == impl \in [Resolvers -> Tokens \cup {Null, NoObject}]
OpsType == ops \in Seq(OperationType) /\ Len(ops) <= Len(Lookups)
WorkerType ==
  [queue : Seq(Nat), current : Nat, work : Int, stopped : BOOLEAN,
   thread : {"none", "run", "ended"}]
MainType == [queue : Seq(Nat), work : Int, running : BOOLEAN]
IoType ==
  /\ worker \in WorkerType
  /\ main \in MainType
  /\ bound \in Int
  /\ service \in {"alive", "join", "joined", "gone"}

TypeOK == ImplType /\ OpsType /\ IoType

(* There is always a token nobody has: one more than resolvers and         *)
(* operations together.                                                    *)
LEMMA FreshTokenIsFresh ==
  ASSUME Setting, ImplType, OpsType, NEW r \in Resolvers
  PROVE  /\ FreshToken(r) \in Tokens
         /\ \A other \in Resolvers \ {r} : impl[other] # FreshToken(r)
         /\ \A i \in DOMAIN ops : ops[i].token # FreshToken(r)
<1> DEFINE Others == Resolvers \ {r}
           A == {impl[s] : s \in Others}
           B == {ops[i].token : i \in DOMAIN ops}
<1>1. IsFiniteSet(Others) /\ Cardinality(Others) = Cardinality(Resolvers) - 1
      /\ Cardinality(Resolvers) \in Nat
  BY FS_RemoveElement, FS_CardinalityType DEF Setting
<1>2. IsFiniteSet(A) /\ Cardinality(A) <= Cardinality(Others)
  <2>1. [s \in Others |-> impl[s]] \in Surjection(Others, A)
    BY DEF Surjection
  <2> QED BY <1>1, <2>1, FS_Surjection
<1>3. Len(ops) \in Nat /\ DOMAIN ops = 1 .. Len(ops) /\ Len(Lookups) \in Nat
  BY DEF OpsType, Setting
<1>4. IsFiniteSet(DOMAIN ops) /\ Cardinality(DOMAIN ops) = Len(ops)
  <2>1. \A n \in Nat : IsFiniteSet(1 .. n) /\ Cardinality(1 .. n) = n
    BY FS_Interval
  <2> QED BY <1>3, <2>1
<1>5. IsFiniteSet(B) /\ Cardinality(B) <= Len(ops)
  <2>1. [i \in DOMAIN ops |-> ops[i].token] \in Surjection(DOMAIN ops, B)
    BY DEF Surjection
  <2> QED BY <1>4, <2>1, FS_Surjection
<1>6. IsFiniteSet(A \cup B) /\ Cardinality(A \cup B) <= Cardinality(A) + Cardinality(B)
  <2>1. IsFiniteSet(A \cap B)
    BY <1>2, FS_Subset
  <2>2. Cardinality(A \cap B) \in Nat /\ Cardinality(A) \in Nat /\ Cardinality(B) \in Nat
    BY <2>1, <1>2, <1>5, FS_CardinalityType
  <2>3. IsFiniteSet(A \cup B)
        /\ Cardinality(A \cup B) = Cardinality(A) + Cardinality(B) - Cardinality(A \cap B)
    BY <1>2, <1>5, FS_Union
  <2> QED BY <2>2, <2>3
<1>7. Cardinality(Tokens) = Len(Lookups) + Cardinality(Resolvers) + 1
  BY <1>1, <1>3, FS_Interval DEF Tokens
<1>8. Cardinality(A \cup B) < Cardinality(Tokens)
  <2>1. Cardinality(A) \in Nat /\ Cardinality(B) \in Nat /\ Cardinality(A \cup B) \in Nat
    BY <1>2, <1>5, <1>6, FS_CardinalityType
  <2>2. Cardinality(Others) \in Nat
    BY <1>1, FS_CardinalityType
  <2> HIDE DEF A, B, Others
  <2> QED BY <1>1, <1>2, <1>3, <1>5, <1>6, <1>7, <2>1, <2>2 DEF OpsType
<1>9. ~(Tokens \subseteq A \cup B)
  <2> HIDE DEF A, B
  <2> SUFFICES ASSUME Tokens \subseteq A \cup B PROVE FALSE
    OBVIOUS
  <2>1. Cardinality(Tokens) <= Cardinality(A \cup B) /\ IsFiniteSet(Tokens)
    BY <1>6, FS_Subset
  <2>2. Cardinality(Tokens) \in Nat /\ Cardinality(A \cup B) \in Nat
    BY <2>1, <1>6, FS_CardinalityType
  <2> QED BY <1>8, <2>1, <2>2
<1>10. PICK n \in Tokens : n \notin A \cup B
  BY <1>9
<1> QED BY <1>10 DEF FreshToken

-----------------------------------------------------------------------------
(* The operations after an assignment, an addition, and a change of all.   *)

LEMMA OpInType ==
  ASSUME OpsType
  PROVE  \A i \in DOMAIN ops : ops[i] \in OperationType
BY DEF OpsType

LEMMA AppendNat ==
  ASSUME NEW q \in Seq(Nat), NEW n \in Nat
  PROVE  Append(q, n) \in Seq(Nat)
OBVIOUS

LEMMA SetOp ==
  ASSUME OpsType, NEW i \in DOMAIN ops, NEW op \in OperationType, Set(i, op)
  PROVE  /\ OpsType'
         /\ DOMAIN ops' = DOMAIN ops
         /\ ops'[i] = op
         /\ \A j \in DOMAIN ops : j # i => ops'[j] = ops[j]
BY DEF OpsType, Set

LEMMA AppendOp ==
  ASSUME Setting, OpsType, NEW op \in OperationType, Len(ops) < Len(Lookups),
         ops' = Append(ops, op)
  PROVE  /\ OpsType'
         /\ DOMAIN ops' = DOMAIN ops \cup {Len(ops) + 1}
         /\ Len(ops) + 1 \notin DOMAIN ops /\ Len(ops) \in Nat
         /\ ops'[Len(ops) + 1] = op
         /\ \A j \in DOMAIN ops : ops'[j] = ops[j]
<1>1. Len(ops) \in Nat /\ Len(Lookups) \in Nat /\ DOMAIN ops = 1 .. Len(ops)
  BY DEF OpsType, Setting
<1>2. Len(ops') = Len(ops) + 1 /\ ops' \in Seq(OperationType)
  BY DEF OpsType
<1>3. DOMAIN ops' = 1 .. Len(ops')
  BY <1>2
<1>4. ops'[Len(ops) + 1] = op /\ \A j \in DOMAIN ops : ops'[j] = ops[j]
  BY <1>1 DEF OpsType
<1> QED BY <1>1, <1>2, <1>3, <1>4 DEF OpsType

LEMMA ChangeOps ==
  ASSUME OpsType, ops' = [i \in DOMAIN ops |-> ops'[i]],
         \A i \in DOMAIN ops : ops'[i] \in OperationType
  PROVE  OpsType' /\ DOMAIN ops' = DOMAIN ops
<1>1. Len(ops) \in Nat /\ DOMAIN ops = 1 .. Len(ops)
  BY DEF OpsType
<1>2. ops' \in [1 .. Len(ops) -> OperationType]
  BY <1>1
<1>3. ops' \in Seq(OperationType) /\ Len(ops') = Len(ops)
  BY <1>1, <1>2
<1> QED BY <1>1, <1>2, <1>3 DEF OpsType

LEMMA RelabelledOp ==
  ASSUME NEW op \in OperationType, NEW o \in Resolvers \cup {Nobody}, NEW c \in BOOLEAN
  PROVE  /\ [op EXCEPT !.owner = o, !.cancelled = c] \in OperationType
         /\ [op EXCEPT !.owner = o] \in OperationType
BY DEF OperationType

LEMMA FreedOp ==
  ASSUME NEW op \in OperationType, NEW place \in {"done", "destroyed"}
  PROVE  /\ Freed(op, place) \in OperationType /\ Freed(op, place).at = place
         /\ ~Freed(op, place).cancelled
         /\ Freed(op, place).passed = op.passed /\ Freed(op, place).kind = op.kind
BY DEF OperationType, Freed, Kinds

(* The changes a call on a resolver makes to the operations. *)
LEMMA CancelledOps ==
  ASSUME OpsType, NEW r \in Resolvers, ops' = Cancelled(r)
  PROVE  /\ OpsType' /\ DOMAIN ops' = DOMAIN ops
         /\ \A i \in DOMAIN ops :
              ops'[i] = IF ops[i].owner # r THEN ops[i]
                        ELSE [ops[i] EXCEPT !.owner = Nobody, !.cancelled = Waiting(ops[i])]
<1>1. \A i \in DOMAIN ops : ops[i] \in OperationType
  BY DEF OpsType
<1>2. ASSUME NEW i \in DOMAIN ops PROVE ops'[i] \in OperationType
  <2>1. Waiting(ops[i]) \in BOOLEAN
    BY DEF Waiting
  <2>2. [ops[i] EXCEPT !.owner = Nobody, !.cancelled = Waiting(ops[i])] \in OperationType
    BY <1>1, <2>1, RelabelledOp
  <2> QED BY <1>1, <2>2 DEF Cancelled
<1>3. ops' = [i \in DOMAIN ops |-> ops'[i]]
  BY DEF Cancelled
<1>4. OpsType' /\ DOMAIN ops' = DOMAIN ops
  BY <1>2, <1>3, ChangeOps
<1> QED BY <1>4 DEF Cancelled

LEMMA OwnedOps ==
  ASSUME OpsType, NEW r \in Resolvers, NEW other \in Resolvers, ops' = Owned(ops, other, r)
  PROVE  /\ OpsType' /\ DOMAIN ops' = DOMAIN ops
         /\ \A i \in DOMAIN ops :
              ops'[i] = IF ops[i].owner = other THEN [ops[i] EXCEPT !.owner = r] ELSE ops[i]
<1>1. \A i \in DOMAIN ops : ops[i] \in OperationType
  BY DEF OpsType
<1>2. ASSUME NEW i \in DOMAIN ops PROVE ops'[i] \in OperationType
  <2>1. [ops[i] EXCEPT !.owner = r] \in OperationType
    BY <1>1, RelabelledOp
  <2> QED BY <1>1, <2>1 DEF Owned
<1>3. ops' = [i \in DOMAIN ops |-> ops'[i]]
  BY DEF Owned
<1>4. OpsType' /\ DOMAIN ops' = DOMAIN ops
  BY <1>2, <1>3, ChangeOps
<1> QED BY <1>4 DEF Owned

LEMMA CancelledAndOwnedOps ==
  ASSUME Setting, OpsType, NEW r \in Resolvers, NEW other \in Resolvers, r # other,
         ops' = Owned(Cancelled(r), other, r)
  PROVE  /\ OpsType' /\ DOMAIN ops' = DOMAIN ops
         /\ \A i \in DOMAIN ops :
              ops'[i] = IF ops[i].owner = other THEN [ops[i] EXCEPT !.owner = r]
                        ELSE IF ops[i].owner = r
                        THEN [ops[i] EXCEPT !.owner = Nobody, !.cancelled = Waiting(ops[i])]
                        ELSE ops[i]
<1>1. \A i \in DOMAIN ops : ops[i] \in OperationType
  BY DEF OpsType
<1>2. DOMAIN Cancelled(r) = DOMAIN ops
  BY DEF Cancelled
<1>3. \A i \in DOMAIN ops :
        /\ Cancelled(r)[i].owner = IF ops[i].owner = r THEN Nobody ELSE ops[i].owner
        /\ ops[i].owner # r => Cancelled(r)[i] = ops[i]
        /\ ops[i].owner = r => Cancelled(r)[i] =
             [ops[i] EXCEPT !.owner = Nobody, !.cancelled = Waiting(ops[i])]
  BY <1>1 DEF Cancelled, OperationType
<1>4. \A i \in DOMAIN ops :
        ops'[i] = IF ops[i].owner = other THEN [ops[i] EXCEPT !.owner = r]
                  ELSE IF ops[i].owner = r
                  THEN [ops[i] EXCEPT !.owner = Nobody, !.cancelled = Waiting(ops[i])]
                  ELSE ops[i]
  BY <1>2, <1>3 DEF Owned, Setting
<1>5. ASSUME NEW i \in DOMAIN ops PROVE ops'[i] \in OperationType
  <2>1. Waiting(ops[i]) \in BOOLEAN
    BY DEF Waiting
  <2>2. /\ [ops[i] EXCEPT !.owner = r] \in OperationType
        /\ [ops[i] EXCEPT !.owner = Nobody, !.cancelled = Waiting(ops[i])] \in OperationType
    BY <1>1, <2>1, RelabelledOp
  <2> QED BY <1>1, <1>4, <2>2
<1>6. ops' = [i \in DOMAIN ops |-> ops'[i]]
  BY <1>2 DEF Owned
<1>7. OpsType' /\ DOMAIN ops' = DOMAIN ops
  BY <1>5, <1>6, ChangeOps
<1> QED BY <1>4, <1>7

LEMMA DestroyedOps ==
  ASSUME OpsType, NEW queue, ops' = Destroyed(queue)
  PROVE  /\ OpsType' /\ DOMAIN ops' = DOMAIN ops
         /\ \A i \in DOMAIN ops :
              ops'[i] = IF i \in ToSet(queue) THEN Freed(ops[i], "destroyed") ELSE ops[i]
<1>1. \A i \in DOMAIN ops : ops[i] \in OperationType
  BY DEF OpsType
<1>2. ASSUME NEW i \in DOMAIN ops PROVE ops'[i] \in OperationType
  <2>1. Freed(ops[i], "destroyed") \in OperationType
    BY <1>1, FreedOp
  <2> QED BY <1>1, <2>1 DEF Destroyed
<1>3. ops' = [i \in DOMAIN ops |-> ops'[i]]
  BY DEF Destroyed
<1>4. OpsType' /\ DOMAIN ops' = DOMAIN ops
  BY <1>2, <1>3, ChangeOps
<1> QED BY <1>4 DEF Destroyed

-----------------------------------------------------------------------------
(* The calls of the program, by what they do: to tokens and owners; to     *)
(* nothing but the list of the operations; start an operation.             *)

SameHistory(i) == ops'[i].kind = ops[i].kind /\ ops'[i].passed = ops[i].passed

TokenCall(r) ==
  \/ construct(r) \/ destroy(r) \/ cancel(r)
  \/ \E other \in Resolvers : move_construct(r, other) \/ move_assign(r, other)
SyncCall(r) == service_resolve(r) \/ resolve_endpoint(r)

LEMMA Calls ==
  ASSUME NEW r, Program(r)
  PROVE  TokenCall(r) \/ SyncCall(r) \/ \E kind \in Kinds : Start(r, kind)
BY DEF Program, TokenCall, SyncCall, resolve, resolve_protocol, async_resolve,
       async_resolve_protocol, async_resolve_endpoint, Kinds

Rest == UNCHANGED <<worker, main, bound, service, fork>>

LEMMA TokenStep ==
  ASSUME Setting, ImplType, OpsType, NEW r \in Resolvers, TokenCall(r)
  PROVE  /\ ImplType' /\ OpsType' /\ Rest
         /\ DOMAIN ops' = DOMAIN ops
         /\ \A i \in DOMAIN ops : ops'[i].at = ops[i].at /\ SameHistory(i)
<1>1. \A i \in DOMAIN ops : ops[i] \in OperationType
  BY DEF OpsType
<1>2. FreshToken(r) \in Tokens
  BY FreshTokenIsFresh
<1>3. CASE construct(r)
  BY <1>2, <1>3 DEF construct, Rest, ImplType, OpsType, SameHistory
<1>c. ASSUME ops' = Cancelled(r)
      PROVE  /\ OpsType' /\ DOMAIN ops' = DOMAIN ops
             /\ \A i \in DOMAIN ops : ops'[i].at = ops[i].at /\ SameHistory(i)
  <2>1. /\ OpsType' /\ DOMAIN ops' = DOMAIN ops
        /\ \A i \in DOMAIN ops :
             ops'[i] = IF ops[i].owner # r THEN ops[i]
                       ELSE [ops[i] EXCEPT !.owner = Nobody, !.cancelled = Waiting(ops[i])]
    BY <1>c, CancelledOps
  <2>2. ASSUME NEW i \in DOMAIN ops PROVE ops'[i].at = ops[i].at /\ SameHistory(i)
    BY <1>1, <2>1 DEF OperationType, SameHistory
  <2> QED BY <2>1, <2>2
<1>4. CASE destroy(r)
  <2>1. ops' = Cancelled(r) /\ ImplType' /\ Rest
    BY <1>4 DEF destroy, Rest, ImplType
  <2> QED BY <1>c, <2>1
<1>5. CASE cancel(r)
  <2>1. ops' = Cancelled(r) /\ ImplType' /\ Rest
    BY <1>2, <1>5 DEF cancel, Rest, ImplType
  <2> QED BY <1>c, <2>1
<1>6. ASSUME NEW other \in Resolvers, move_construct(r, other)
      PROVE  /\ ImplType' /\ OpsType' /\ Rest
             /\ DOMAIN ops' = DOMAIN ops
             /\ \A i \in DOMAIN ops : ops'[i].at = ops[i].at /\ SameHistory(i)
  <2>1. ImplType' /\ Rest
    BY <1>6 DEF move_construct, MoveToken, ImplType, Rest
  <2>2. OpsType' /\ DOMAIN ops' = DOMAIN ops
    BY <1>6, OwnedOps DEF move_construct
  <2>3. ASSUME NEW i \in DOMAIN ops
        PROVE  ops'[i].at = ops[i].at /\ SameHistory(i)
    <3>1. ops'[i] \in {ops[i], [ops[i] EXCEPT !.owner = r],
             [ops[i] EXCEPT !.owner = Nobody, !.cancelled = Waiting(ops[i])]}
      BY <1>6, OwnedOps DEF move_construct
    <3> QED BY <1>1, <3>1 DEF OperationType, SameHistory
  <2> QED BY <2>1, <2>2, <2>3
<1>7. ASSUME NEW other \in Resolvers, move_assign(r, other)
      PROVE  /\ ImplType' /\ OpsType' /\ Rest
             /\ DOMAIN ops' = DOMAIN ops
             /\ \A i \in DOMAIN ops : ops'[i].at = ops[i].at /\ SameHistory(i)
  <2>1. ImplType' /\ Rest
    BY <1>7 DEF move_assign, MoveToken, ImplType, Rest
  <2>2. OpsType' /\ DOMAIN ops' = DOMAIN ops
    BY <1>7, CancelledAndOwnedOps DEF move_assign
  <2>3. ASSUME NEW i \in DOMAIN ops
        PROVE  ops'[i].at = ops[i].at /\ SameHistory(i)
    <3>1. ops'[i] \in {ops[i], [ops[i] EXCEPT !.owner = r],
             [ops[i] EXCEPT !.owner = Nobody, !.cancelled = Waiting(ops[i])]}
      BY <1>7, CancelledAndOwnedOps DEF move_assign
    <3> QED BY <1>1, <3>1 DEF OperationType, SameHistory
  <2> QED BY <2>1, <2>2, <2>3
<1> QED BY <1>3, <1>4, <1>5, <1>6, <1>7 DEF TokenCall

Adds(op) == Len(ops) < Len(Lookups) /\ ops' = Append(ops, op)

LEMMA SyncStep ==
  ASSUME ImplType, NEW r \in Resolvers, SyncCall(r)
  PROVE  /\ UNCHANGED impl /\ Rest
         /\ \E op \in OperationType : op.at = "done" /\ ~op.cancelled /\ ~op.passed /\ Adds(op)
<1>1. impl[r] \in Tokens \cup {Null}
  BY DEF SyncCall, service_resolve, resolve_endpoint, ImplType
<1>2. ASSUME NEW kind \in Kinds, NEW answer \in Answers
      PROVE  /\ Answered(Op(r, kind), answer) \in OperationType
             /\ Answered(Op(r, kind), answer).at = "done"
             /\ ~Answered(Op(r, kind), answer).cancelled
             /\ ~Answered(Op(r, kind), answer).passed
  BY <1>1, <1>2 DEF Answered, Freed, Op, OperationType, Answers, Kinds
<1>3. CASE service_resolve(r)
  BY <1>2, <1>3 DEF service_resolve, Rest, NextKind, Adds, Kinds
<1>4. CASE resolve_endpoint(r)
  <2>1. \A first, second \in Answers : sync_getnameinfo(first, second) \in Answers
    BY DEF sync_getnameinfo
  <2> QED BY <1>2, <1>4, <2>1 DEF resolve_endpoint, Rest, NextKind, Adds, Kinds
<1> QED BY <1>3, <1>4 DEF SyncCall

(* start_resolve_op() with threads, and without. *)
Started(op, r, kind) ==
  /\ Adds(op) /\ op.kind = kind /\ op.owner = r /\ op.token = impl[r]
  /\ ~op.cancelled /\ ~op.passed /\ op.async /\ op.null = (impl[r] = Null)
  /\ \/ /\ op.at = "starting" /\ op.ec = ""
        /\ UNCHANGED main.queue
        /\ worker' = start_work_thread
     \/ /\ op.at = "main" /\ op.ec = "operation_not_supported"
        /\ main'.queue = Append(main.queue, Len(ops) + 1)
        /\ UNCHANGED worker

LEMMA StartStep ==
  ASSUME ImplType, IoType, NEW r \in Resolvers, NEW kind \in Kinds, Start(r, kind)
  PROVE  /\ UNCHANGED <<impl, service, fork>> /\ service = "alive"
         /\ bound' = bound + (IF kind \in Bound THEN 1 ELSE 0)
         /\ main'.work = main.work + 1
         /\ \E op \in OperationType : Started(op, r, kind)
<1> DEFINE op == Op(r, kind)
           refused == [op EXCEPT !.at = "main", !.ec = "operation_not_supported"]
<1>1. impl[r] \in Tokens \cup {Null}
  BY DEF Start, ImplType
<1>2. op \in OperationType /\ refused \in OperationType
  BY <1>1 DEF Op, OperationType
<1>3. Len(ops) < Len(Lookups)
  BY DEF Start, NextKind
<1>4. CASE locking
  BY <1>2, <1>3, <1>4 DEF Started, Start, start_resolve_op, Adds, IoType, MainType, WorkerType, Alive, Op
<1>5. CASE ~locking
  BY <1>2, <1>3, <1>5 DEF Started, Start, start_resolve_op, Adds, IoType, MainType, WorkerType, Alive, Op
<1> QED BY <1>4, <1>5

-----------------------------------------------------------------------------
(* Type correctness.                                                       *)

LEMMA TypeInit == Setting /\ Init => TypeOK
<1> SUFFICES ASSUME Setting, Init PROVE TypeOK
  OBVIOUS
<1>1. ImplType
  BY DEF Init, ImplType
<1>2. OpsType
  BY DEF Init, OpsType, Setting
<1>3. IoType
  BY DEF Init, IoType, MainType, WorkerType
<1> QED BY <1>1, <1>2, <1>3 DEF TypeOK

(* What an io_context does to the operation it takes or gives back.        *)
Moved(op, place) == [op EXCEPT !.at = place]
Passed(op, ec) ==
  [op EXCEPT !.at = "main", !.passed = TRUE, !.ec = ec,
             !.results = IF ec = "" THEN "entries"
                         ELSE IF op.kind = "query" THEN "empty" ELSE "unwritten"]

Errors == {"", "operation_aborted", "host_not_found"}

LEMMA MovedOp ==
  ASSUME NEW op \in OperationType, NEW place \in {"worker", "aborted", "looking"}
  PROVE  /\ Moved(op, place) \in OperationType /\ Moved(op, place).at = place
         /\ Moved(op, place).kind = op.kind /\ Moved(op, place).passed = op.passed
BY DEF OperationType, Moved

LEMMA PassedOp ==
  ASSUME NEW op \in OperationType, NEW ec \in Errors
  PROVE  /\ Passed(op, ec) \in OperationType /\ Passed(op, ec).at = "main"
         /\ Passed(op, ec).kind = op.kind /\ Passed(op, ec).passed
BY DEF OperationType, Passed, Errors

LEMMA WorkerRecord ==
  ASSUME NEW w \in WorkerType, NEW q \in Seq(Nat), NEW i \in Nat, NEW n \in Int,
         NEW b \in BOOLEAN, NEW t \in {"none", "run", "ended"}
  PROVE  /\ [w EXCEPT !.queue = q, !.work = n] \in WorkerType
         /\ [w EXCEPT !.queue = q, !.current = i] \in WorkerType
         /\ [w EXCEPT !.current = i, !.work = n] \in WorkerType
         /\ [w EXCEPT !.queue = q, !.thread = t, !.work = n] \in WorkerType
         /\ [w EXCEPT !.stopped = b, !.work = n] \in WorkerType
         /\ [w EXCEPT !.stopped = b, !.thread = t] \in WorkerType
         /\ [w EXCEPT !.stopped = b] \in WorkerType
         /\ [w EXCEPT !.thread = t] \in WorkerType
BY DEF WorkerType

LEMMA MainRecord ==
  ASSUME NEW m \in MainType, NEW q \in Seq(Nat), NEW n \in Int, NEW b \in BOOLEAN
  PROVE  /\ [m EXCEPT !.queue = q, !.work = n] \in MainType
         /\ [m EXCEPT !.work = n, !.queue = q] \in MainType
         /\ [m EXCEPT !.queue = q] \in MainType
         /\ [m EXCEPT !.work = n] \in MainType
         /\ [m EXCEPT !.running = b] \in MainType
BY DEF MainType

LEMMA Parts ==
  ASSUME IoType
  PROVE  /\ worker.queue \in Seq(Nat) /\ worker.current \in Nat /\ worker.work \in Int
         /\ worker.stopped \in BOOLEAN /\ worker.thread \in {"none", "run", "ended"}
         /\ main.queue \in Seq(Nat) /\ main.work \in Int /\ main.running \in BOOLEAN
         /\ worker.work + 1 \in Int /\ worker.work - 1 \in Int
         /\ main.work + 1 \in Int /\ main.work - 1 \in Int
BY DEF IoType, WorkerType, MainType

(* The queues hold operations, and the worker is busy with one.            *)
IndexInv ==
  /\ \A k \in 1 .. Len(worker.queue) : worker.queue[k] \in DOMAIN ops
  /\ \A k \in 1 .. Len(main.queue) : main.queue[k] \in DOMAIN ops
  /\ worker.current \in DOMAIN ops \cup {0}

LEMMA PassBackBound ==
  ASSUME NEW i, NEW ec, PassBack(i, ec), bound \in Int
  PROVE  bound' \in Int /\ bound' = IF ops[i].kind \in Bound \ {"query"} THEN bound - 1 ELSE bound
BY DEF PassBack

LEMMA PassBackType ==
  ASSUME OpsType, IoType, NEW ec \in Errors,
         worker.current \in DOMAIN ops, PassBack(worker.current, ec)
  PROVE  OpsType' /\ IoType'
<1> DEFINE i == worker.current
<1>1. Passed(ops[i], ec) \in OperationType
  BY OpInType, PassedOp
<1>2. Set(i, Passed(ops[i], ec))
  BY DEF PassBack, Passed
<1>3. OpsType'
  BY <1>1, <1>2, SetOp
<1>4. Append(main.queue, i) \in Seq(Nat) /\ i \in Nat
  <2>1. i \in Nat /\ main.queue \in Seq(Nat)
    BY Parts
  <2> QED BY <2>1, AppendNat
<1>5. main' \in MainType
  BY <1>4, Parts, MainRecord DEF PassBack, IoType, post_deferred_completion
<1>6. worker' \in WorkerType
  BY Parts, WorkerRecord DEF PassBack, IoType
<1>7. bound' \in Int /\ service' = service
  BY PassBackBound DEF PassBack, IoType
<1>8. IoType'
  BY <1>5, <1>6, <1>7 DEF IoType
<1> QED BY <1>3, <1>8

LEMMA BoundInType ==
  ASSUME NEW queue \in Seq(Nat)
  PROVE  BoundIn(queue) \in Nat
<1>1. Len(queue) \in Nat /\ DOMAIN queue = 1 .. Len(queue)
  OBVIOUS
<1>2. IsFiniteSet(1 .. Len(queue))
  BY <1>1, FS_Interval
<1>3. queue \in Surjection(DOMAIN queue, ToSet(queue))
  BY DEF Surjection, ToSet
<1>4. IsFiniteSet(ToSet(queue))
  BY <1>1, <1>2, <1>3, FS_Surjection
<1>5. IsFiniteSet({i \in ToSet(queue) : ops[i].kind \in Bound})
  BY <1>4, FS_Subset
<1> QED BY <1>5, FS_CardinalityType DEF BoundIn

LEMMA TypeStep == Setting /\ TypeOK /\ IndexInv /\ [Next]_vars => TypeOK'
<1> SUFFICES ASSUME Setting, ImplType, OpsType, IoType, IndexInv, [Next]_vars
             PROVE  ImplType' /\ OpsType' /\ IoType'
  BY DEF TypeOK
<1>1. ASSUME NEW r \in Resolvers, Program(r) PROVE ImplType' /\ OpsType' /\ IoType'
  <2>1. CASE TokenCall(r)
    BY <2>1, TokenStep DEF Rest, IoType
  <2>2. CASE SyncCall(r)
    <3>1. ImplType' /\ IoType'
      BY <2>2, SyncStep DEF Rest, IoType, ImplType
    <3>2. OpsType'
      BY <2>2, SyncStep, AppendOp DEF Adds
    <3> QED BY <3>1, <3>2
  <2>3. ASSUME NEW kind \in Kinds, Start(r, kind) PROVE ImplType' /\ OpsType' /\ IoType'
    <3>1. ImplType'
      BY <2>3, StartStep DEF ImplType
    <3>2. OpsType'
      <4>1. PICK op \in OperationType : Started(op, r, kind)
        BY <2>3, StartStep
      <4> QED BY <4>1, AppendOp DEF Adds, Started
    <3>3. Len(ops) + 1 \in Nat
      BY DEF OpsType
    <3>4. main' \in MainType
      <4>1. Append(main.queue, Len(ops) + 1) \in Seq(Nat)
        BY <3>3, Parts
      <4>2. \/ main' = [main EXCEPT !.work = @ + 1]
            \/ main' = [main EXCEPT !.work = @ + 1, !.queue = Append(@, Len(ops) + 1)]
        BY <2>3 DEF Start, start_resolve_op
      <4>3. main \in MainType
        BY DEF IoType
      <4>4. [main EXCEPT !.work = @ + 1] \in MainType
        BY <4>3, Parts, MainRecord
      <4>5. [main EXCEPT !.work = @ + 1, !.queue = Append(@, Len(ops) + 1)] \in MainType
        BY <4>1, <4>3, Parts, MainRecord
      <4> QED BY <4>2, <4>4, <4>5
    <3>5. worker' \in WorkerType
      BY <2>3, Parts, WorkerRecord DEF Start, start_resolve_op, start_work_thread, IoType
    <3>6. IoType'
      BY <2>3, <3>4, <3>5 DEF Start, IoType
    <3> QED BY <3>1, <3>2, <3>6
  <2> QED BY <1>1, <2>1, <2>2, <2>3, Calls
<1>2. ASSUME NEW i \in DOMAIN ops, PostToWorker(i) PROVE ImplType' /\ OpsType' /\ IoType'
  <2>1. OpsType'
    <3>1. Moved(ops[i], "worker") \in OperationType
      BY OpInType, MovedOp
    <3>2. Set(i, Moved(ops[i], "worker"))
      BY <1>2 DEF PostToWorker, Moved
    <3> QED BY <3>1, <3>2, SetOp
  <2>2. i \in Nat
    BY DEF OpsType
  <2>3. worker' \in WorkerType
    <3>1. Append(worker.queue, i) \in Seq(Nat)
      BY <2>2, Parts
    <3> QED BY <1>2, <3>1, Parts, WorkerRecord DEF PostToWorker, IoType
  <2>4. ImplType' /\ IoType'
    BY <1>2, <2>3 DEF PostToWorker, ImplType, IoType
  <2> QED BY <2>1, <2>4
<1>3. CASE WorkerTakes
  <2> DEFINE i == Head(worker.queue)
  <2>1. worker.queue \in Seq(Nat) /\ worker.queue # <<>>
    BY <1>3 DEF IoType, WorkerType, WorkerTakes
  <2>2. i \in DOMAIN ops /\ i \in Nat
    BY <2>1 DEF IndexInv
  <2>3. Moved(ops[i], Begin(i)) \in OperationType
    <3>1. Begin(i) \in {"aborted", "looking"}
      BY DEF Begin
    <3> QED BY <2>2, <3>1, OpInType, MovedOp
  <2>4. OpsType'
    <3>1. Set(i, Moved(ops[i], Begin(i)))
      BY <1>3 DEF WorkerTakes, Moved
    <3> QED BY <2>2, <2>3, <3>1, SetOp
  <2>5. Tail(worker.queue) \in Seq(Nat)
    BY <2>1
  <2>6. worker' \in WorkerType
    BY <1>3, <2>2, <2>5, WorkerRecord DEF WorkerTakes, IoType
  <2>7. ImplType' /\ IoType'
    BY <1>3, <2>6 DEF WorkerTakes, ImplType, IoType
  <2> QED BY <2>4, <2>7
<1>4. CASE LookupEnds
  <2>1. worker.current \in DOMAIN ops
    BY <1>4 DEF LookupEnds, IndexInv
  <2>2. \E ec \in Errors : PassBack(worker.current, ec)
    BY <1>4 DEF LookupEnds, Answers, sync_getnameinfo, Errors
  <2>3. ImplType'
    BY <2>2 DEF PassBack, ImplType
  <2> QED BY <2>1, <2>2, <2>3, PassBackType
<1>5. CASE WorkerEnds
  <2>1. worker' \in WorkerType
    BY <1>5, Parts, WorkerRecord DEF WorkerEnds, IoType
  <2> QED BY <1>5, <2>1 DEF WorkerEnds, ImplType, OpsType, IoType
<1>6. CASE RunMain \/ RunReturns
  <2>1. main' \in MainType
    BY <1>6, Parts, MainRecord DEF RunMain, RunReturns, IoType
  <2> QED BY <1>6, <2>1 DEF RunMain, RunReturns, ImplType, OpsType, IoType
<1>7. CASE Invoke
  <2> DEFINE i == Head(main.queue)
  <2>1. main.queue \in Seq(Nat) /\ main.queue # <<>>
    BY <1>7 DEF IoType, MainType, Invoke
  <2>2. i \in DOMAIN ops /\ i \in Nat
    BY <2>1 DEF IndexInv
  <2>3. Freed(ops[i], "done") \in OperationType
    BY <2>2, FreedOp DEF OpsType
  <2>4. OpsType'
    BY <1>7, <2>2, <2>3, SetOp DEF Invoke
  <2>5. Tail(main.queue) \in Seq(Nat)
    BY <2>1
  <2>6. main' \in MainType
    BY <1>7, <2>5, Parts, MainRecord DEF Invoke, IoType
  <2>7. ImplType' /\ IoType'
    BY <1>7, <2>6 DEF Invoke, ImplType, IoType
  <2> QED BY <2>4, <2>7
<1>8. CASE ForkStep \/ fork_prepare \/ base_shutdown
  <2>1. (worker.stopped \/ worker.thread # "none") \in BOOLEAN
    OBVIOUS
  <2>2. worker' \in WorkerType
    <3>1. CASE fork_prepare
      BY <2>1, <3>1, Parts, WorkerRecord DEF fork_prepare, IoType
    <3>2. CASE base_shutdown
      BY <3>2, Parts, WorkerRecord DEF base_shutdown, IoType
    <3>j. CASE ForkJoins
      BY <3>j DEF ForkJoins, IoType
    <3>3. CASE fork_done
      BY <3>3, Parts, WorkerRecord DEF fork_done, Restarted, IoType
    <3> QED BY <1>8, <3>1, <3>2, <3>3, <3>j DEF ForkStep
  <2> QED BY <1>8, <2>2 DEF ForkStep, ForkJoins, fork_done, fork_prepare, base_shutdown,
     ImplType, OpsType, IoType
<1>9. CASE ShutdownJoins
  <2>1. OpsType'
    BY <1>9, DestroyedOps DEF ShutdownJoins
  <2>2. BoundIn(worker.queue) \in Nat
    BY BoundInType DEF IoType, WorkerType, MainType
  <2>3. <<>> \in Seq(Nat)
    OBVIOUS
  <2>4. worker' \in WorkerType
    <3>1. worker' = [worker EXCEPT !.queue = <<>>, !.thread = "none", !.work = 0]
      BY <1>9 DEF ShutdownJoins
    <3>2. 0 \in Int /\ worker \in WorkerType /\ "none" \in {"none", "run", "ended"}
      BY DEF IoType
    <3> QED BY <2>3, <3>1, <3>2, WorkerRecord
  <2>5. ImplType' /\ IoType'
    BY <1>9, <2>2, <2>4 DEF ShutdownJoins, ImplType, IoType
  <2> QED BY <2>1, <2>5
<1>10. CASE scheduler_shutdown
  <2>1. OpsType'
    BY <1>10, DestroyedOps DEF scheduler_shutdown
  <2>2. BoundIn(main.queue) \in Nat
    BY BoundInType DEF IoType, WorkerType, MainType
  <2>3. <<>> \in Seq(Nat)
    OBVIOUS
  <2>4. main' \in MainType
    <3>1. main' = [main EXCEPT !.queue = <<>>, !.work = 0]
      BY <1>10 DEF scheduler_shutdown
    <3>2. 0 \in Int /\ main \in MainType
      BY DEF IoType
    <3> QED BY <2>3, <3>1, <3>2, MainRecord
  <2>5. ImplType' /\ IoType'
    BY <1>10, <2>2, <2>4 DEF scheduler_shutdown, ImplType, IoType
  <2> QED BY <2>1, <2>5
<1>11. CASE UNCHANGED vars
  BY <1>11 DEF vars, ImplType, OpsType, IoType
<1> QED BY <1>1, <1>2, <1>3, <1>4, <1>5, <1>6, <1>7, <1>8, <1>9, <1>10, <1>11
        DEF Next, Post, WorkerStep, MainStep, ShutdownStep

-----------------------------------------------------------------------------
(* Where the operations are.  An operation that waits on an io_context is  *)
(* in that queue once; the background thread is busy with the operation    *)
(* whose lookup has begun.                                                 *)

At(place) == {i \in DOMAIN ops : ops[i].at = place}

Exactly(q, S) ==
  /\ q \in Seq(S)
  /\ \A x \in S : \E k \in 1 .. Len(q) : q[k] = x
  /\ \A j, k \in 1 .. Len(q) : q[j] = q[k] => j = k

Looked == IF worker.current = 0 THEN {} ELSE {worker.current}

PlaceInv ==
  /\ Exactly(worker.queue, At("worker"))
  /\ Exactly(main.queue, At("main"))
  /\ At("aborted") \cup At("looking") = Looked

LEMMA SeqInto ==
  ASSUME NEW S, NEW T, NEW q \in Seq(S), \A k \in 1 .. Len(q) : q[k] \in T
  PROVE  q \in Seq(T)
<1>1. Len(q) \in Nat /\ q \in [1 .. Len(q) -> T]
  OBVIOUS
<1> QED BY <1>1

LEMMA ExactlyAppend ==
  ASSUME NEW q, NEW S, NEW x, Exactly(q, S), x \notin S
  PROVE  Exactly(Append(q, x), S \cup {x})
<1> DEFINE n == Len(q)
           p == Append(q, x)
<1>1. q \in Seq(S) /\ n \in Nat
  BY DEF Exactly
<1>2. /\ p \in Seq(S \cup {x}) /\ Len(p) = n + 1 /\ p[n + 1] = x
      /\ \A k \in 1 .. n : p[k] = q[k] /\ q[k] \in S
  BY <1>1
<1>3. \A y \in S \cup {x} : \E k \in 1 .. Len(p) : p[k] = y
  <2>1. ASSUME NEW y \in S PROVE \E k \in 1 .. Len(p) : p[k] = y
    <3>1. PICK k \in 1 .. n : q[k] = y
      BY DEF Exactly
    <3>2. k \in 1 .. Len(p) /\ p[k] = y
      BY <1>1, <1>2, <3>1
    <3> QED BY <3>2
  <2>2. \E k \in 1 .. Len(p) : p[k] = x
    <3>1. n + 1 \in 1 .. Len(p)
      BY <1>1, <1>2
    <3> QED BY <1>2, <3>1
  <2> QED BY <2>1, <2>2
<1>4. ASSUME NEW j \in 1 .. Len(p), NEW k \in 1 .. Len(p), p[j] = p[k] PROVE j = k
  <2>1. \A i \in 1 .. Len(p) : i \in 1 .. n \/ i = n + 1
    BY <1>1, <1>2
  <2> HIDE DEF p, n
  <2> QED BY <1>2, <1>4, <2>1 DEF Exactly, n
<1> QED BY <1>2, <1>3, <1>4 DEF Exactly

LEMMA ExactlyTail ==
  ASSUME NEW q, NEW S, Exactly(q, S), q # <<>>
  PROVE  Head(q) \in S /\ Exactly(Tail(q), S \ {Head(q)})
<1> DEFINE n == Len(q)
           p == Tail(q)
           x == Head(q)
<1>1. q \in Seq(S) /\ n \in Nat \ {0} /\ x = q[1] /\ x \in S
  BY DEF Exactly
<1>2. /\ p \in Seq(S) /\ Len(p) = n - 1
      /\ \A k \in 1 .. Len(p) : p[k] = q[k + 1] /\ k + 1 \in 1 .. n
  BY <1>1
<1>3. \A k \in 1 .. Len(p) : p[k] \in S \ {x}
  <2> SUFFICES ASSUME NEW k \in 1 .. Len(p) PROVE p[k] \in S \ {x}
    OBVIOUS
  <2>1. k + 1 \in 1 .. n /\ 1 \in 1 .. n /\ k + 1 # 1 /\ p[k] = q[k + 1]
    BY <1>1, <1>2
  <2>2. q[k + 1] # q[1]
    BY <2>1 DEF Exactly
  <2>3. q[k + 1] \in S
    BY <1>1, <2>1
  <2> QED BY <1>1, <2>1, <2>2, <2>3
<1>4. p \in Seq(S \ {x})
  <2> HIDE DEF p
  <2> QED BY <1>2, <1>3, SeqInto
<1>5. ASSUME NEW y \in S \ {x} PROVE \E k \in 1 .. Len(p) : p[k] = y
  <2>1. PICK j \in 1 .. n : q[j] = y
    BY DEF Exactly
  <2>2. j # 1
    BY <1>1, <2>1
  <2>3. j - 1 \in 1 .. Len(p) /\ p[j - 1] = q[(j - 1) + 1] /\ (j - 1) + 1 = j
    BY <1>1, <1>2, <2>2
  <2> QED BY <2>1, <2>3
<1>6. ASSUME NEW j \in 1 .. Len(p), NEW k \in 1 .. Len(p), p[j] = p[k] PROVE j = k
  <2>1. j + 1 \in 1 .. n /\ k + 1 \in 1 .. n /\ q[j + 1] = q[k + 1]
    BY <1>2, <1>6
  <2>2. j + 1 = k + 1
    BY <2>1 DEF Exactly
  <2> QED BY <2>2
<1> QED BY <1>1, <1>4, <1>5, <1>6 DEF Exactly

LEMMA ExactlyEmpty == Exactly(<<>>, {})
BY DEF Exactly

LEMMA ExactlySet ==
  ASSUME NEW q, NEW S, Exactly(q, S)
  PROVE  ToSet(q) = S
<1>1. DOMAIN q = 1 .. Len(q) /\ \A k \in 1 .. Len(q) : q[k] \in S
  BY DEF Exactly
<1> QED BY <1>1 DEF Exactly, ToSet

LEMMA PlacesInDomain ==
  ASSUME OpsType, IoType, PlaceInv
  PROVE  /\ IndexInv
         /\ worker.current # 0 =>
              ops[worker.current].at \in {"aborted", "looking"}
         /\ 0 \notin DOMAIN ops
<1>1. 0 \notin DOMAIN ops
  BY DEF OpsType
<1>2. worker.current # 0 => worker.current \in At("aborted") \cup At("looking")
  BY DEF PlaceInv, Looked
<1>3. /\ \A k \in 1 .. Len(worker.queue) : worker.queue[k] \in At("worker")
      /\ \A k \in 1 .. Len(main.queue) : main.queue[k] \in At("main")
  BY DEF PlaceInv, Exactly
<1> QED BY <1>1, <1>2, <1>3 DEF IndexInv, At

LEMMA SetAt ==
  ASSUME OpsType, NEW i \in DOMAIN ops, NEW op \in OperationType, Set(i, op), NEW place
  PROVE  At(place)' = IF op.at = place THEN At(place) \cup {i} ELSE At(place) \ {i}
BY SetOp DEF At

LEMMA AppendAt ==
  ASSUME Setting, OpsType, NEW op \in OperationType, Adds(op), NEW place
  PROVE  /\ At(place)' = IF op.at = place THEN At(place) \cup {Len(ops) + 1} ELSE At(place)
         /\ Len(ops) + 1 \notin At(place)
BY AppendOp DEF At, Adds

LEMMA SameAt ==
  ASSUME DOMAIN ops' = DOMAIN ops, \A i \in DOMAIN ops : ops'[i].at = ops[i].at, NEW place
  PROVE  At(place)' = At(place)
BY DEF At

LEMMA DestroyedAt ==
  ASSUME OpsType, NEW queue, NEW place, ToSet(queue) = At(place), ops' = Destroyed(queue),
         place # "destroyed"
  PROVE  /\ At(place)' = {}
         /\ \A other : other \notin {place, "destroyed"} => At(other)' = At(other)
<1>1. /\ DOMAIN ops' = DOMAIN ops
      /\ \A i \in DOMAIN ops :
              ops'[i] = IF i \in ToSet(queue) THEN Freed(ops[i], "destroyed") ELSE ops[i]
  BY DestroyedOps
<1>2. \A i \in DOMAIN ops : Freed(ops[i], "destroyed").at = "destroyed"
  BY OpInType, FreedOp
<1> QED BY <1>1, <1>2 DEF At

LEMMA PlaceInit == Init => PlaceInv
BY ExactlyEmpty DEF Init, PlaceInv, Looked, At

LEMMA PlaceStep == Setting /\ TypeOK /\ PlaceInv /\ [Next]_vars => PlaceInv'
<1> SUFFICES ASSUME Setting, ImplType, OpsType, IoType, PlaceInv, [Next]_vars
             PROVE  PlaceInv'
  BY DEF TypeOK
<1>0. IndexInv /\ 0 \notin DOMAIN ops
      /\ (worker.current # 0 => ops[worker.current].at \in {"aborted", "looking"})
  BY PlacesInDomain
<1>1. ASSUME NEW r \in Resolvers, Program(r) PROVE PlaceInv'
  <2>1. CASE TokenCall(r)
    <3>1. \A place : At(place)' = At(place)
      BY <2>1, TokenStep, SameAt
    <3> QED BY <2>1, <3>1, TokenStep DEF Rest, PlaceInv, Looked
  <2>2. CASE SyncCall(r)
    <3>1. \A place : place # "done" => At(place)' = At(place)
      BY <2>2, SyncStep, AppendAt
    <3> QED BY <2>2, <3>1, SyncStep DEF Rest, PlaceInv, Looked
  <2>3. ASSUME NEW kind \in Kinds, Start(r, kind) PROVE PlaceInv'
    <3>0. PICK op \in OperationType : Started(op, r, kind)
      BY <2>3, StartStep
    <3>1. /\ Adds(op)
          /\ \/ /\ op.at = "starting"
                /\ UNCHANGED main.queue
                /\ worker' = start_work_thread
             \/ /\ op.at = "main" /\ op.ec = "operation_not_supported"
                /\ main'.queue = Append(main.queue, Len(ops) + 1)
                /\ UNCHANGED worker
      BY <3>0 DEF Started
    <3>2. \A place : /\ Len(ops) + 1 \notin At(place)
                     /\ place # op.at => At(place)' = At(place)
                     /\ place = op.at => At(place)' = At(place) \cup {Len(ops) + 1}
      BY <3>1, AppendAt
    <3>3. worker'.queue = worker.queue /\ worker'.current = worker.current
      BY <3>1 DEF start_work_thread, IoType, WorkerType
    <3>4. CASE op.at = "starting"
      BY <3>1, <3>2, <3>3, <3>4 DEF PlaceInv, Looked
    <3>5. CASE op.at = "main"
      <4>1. Exactly(Append(main.queue, Len(ops) + 1), At("main") \cup {Len(ops) + 1})
        BY <3>2, ExactlyAppend DEF PlaceInv
      <4>2. Exactly(main'.queue, At("main")')
        BY <3>1, <3>2, <3>5, <4>1
      <4> QED BY <3>1, <3>2, <3>3, <3>5, <4>2 DEF PlaceInv, Looked
    <3> QED BY <3>1, <3>4, <3>5
  <2> QED BY <1>1, <2>1, <2>2, <2>3, Calls
<1>2. ASSUME NEW i \in DOMAIN ops, PostToWorker(i) PROVE PlaceInv'
  <2> DEFINE op == Moved(ops[i], "worker")
  <2>1. op \in OperationType /\ op.at = "worker" /\ Set(i, op)
    <3>1. Set(i, op)
      BY <1>2 DEF PostToWorker, Moved
    <3> QED BY <3>1, OpInType, MovedOp
  <2>2. ops[i].at = "starting"
    BY <1>2 DEF PostToWorker
  <2> HIDE DEF op
  <2>3. \A place : At(place)' = IF place = "worker" THEN At(place) \cup {i} ELSE At(place) \ {i}
    BY <2>1, SetAt
  <2>4. \A place : place # "starting" => i \notin At(place)
    BY <2>2 DEF At
  <2>5. /\ worker'.queue = Append(worker.queue, i) /\ worker'.current = worker.current
        /\ main' = main
    BY <1>2 DEF PostToWorker, IoType, WorkerType
  <2>6. Exactly(Append(worker.queue, i), At("worker") \cup {i})
    BY <2>2, ExactlyAppend DEF PlaceInv, At
  <2>7. At("worker")' = At("worker") \cup {i} /\ At("main")' = At("main")
    BY <2>3, <2>4
  <2>8. /\ At("aborted")' = At("aborted") /\ At("looking")' = At("looking")
    BY <2>3, <2>4
  <2> QED BY <2>5, <2>6, <2>7, <2>8 DEF PlaceInv, Looked
<1>3. CASE WorkerTakes
  <2> DEFINE i == Head(worker.queue)
             op == Moved(ops[i], Begin(i))
  <2>1. worker.queue # <<>> /\ worker.current = 0
    BY <1>3 DEF WorkerTakes
  <2>2. i \in At("worker") /\ Exactly(Tail(worker.queue), At("worker") \ {i})
    BY <2>1, ExactlyTail DEF PlaceInv
  <2>3. i \in DOMAIN ops
    BY <2>2 DEF At
  <2>4. op \in OperationType /\ op.at \in {"aborted", "looking"} /\ Set(i, op)
    <3>1. Begin(i) \in {"aborted", "looking"}
      BY DEF Begin
    <3>2. Set(i, op)
      BY <1>3 DEF WorkerTakes, Moved
    <3> QED BY <2>3, <3>1, <3>2, OpInType, MovedOp
  <2>5. /\ worker'.queue = Tail(worker.queue) /\ worker'.current = i /\ main' = main
    BY <1>3 DEF WorkerTakes, IoType, WorkerType
  <2>6. i # 0 /\ \A place : place # "worker" => i \notin At(place)
    BY <1>0, <2>2 DEF At
  <2> HIDE DEF op
  <2>7. \A place : At(place)' = IF op.at = place THEN At(place) \cup {i} ELSE At(place) \ {i}
    BY <2>3, <2>4, SetAt
  <2> HIDE DEF i
  <2>8. At("worker")' = At("worker") \ {i} /\ At("main")' = At("main")
    BY <2>4, <2>6, <2>7
  <2>9. (At("aborted") \cup At("looking"))' = {i}
    <3>1. At("aborted") \cup At("looking") = {}
      BY <2>1 DEF PlaceInv, Looked
    <3> QED BY <2>4, <2>7, <3>1
  <2> QED BY <2>2, <2>5, <2>6, <2>8, <2>9 DEF PlaceInv, Looked
<1>4. CASE LookupEnds
  <2> DEFINE i == worker.current
  <2>1. i # 0 /\ i \in DOMAIN ops /\ ops[i].at \in {"aborted", "looking"}
    BY <1>0, <1>4 DEF LookupEnds, IndexInv
  <2>2. PICK ec \in Errors : PassBack(i, ec)
    BY <1>4 DEF LookupEnds, Answers, sync_getnameinfo, Errors
  <2> DEFINE op == Passed(ops[i], ec)
  <2>3. op \in OperationType /\ op.at = "main"
    BY <2>1, OpInType, PassedOp
  <2>4. Set(i, op)
    BY <2>2 DEF PassBack, Passed
  <2> HIDE DEF op
  <2>5. \A place : At(place)' = IF place = "main" THEN At(place) \cup {i} ELSE At(place) \ {i}
    BY <2>1, <2>3, <2>4, SetAt
  <2>6. \A place : place \notin {"aborted", "looking"} => i \notin At(place)
    BY <2>1 DEF At
  <2>7. /\ worker'.queue = worker.queue /\ worker'.current = 0
        /\ main'.queue = Append(main.queue, i)
    BY <2>2 DEF PassBack, post_deferred_completion, IoType, WorkerType, MainType
  <2>8. At("aborted") \cup At("looking") = {i}
    BY <2>1 DEF PlaceInv, Looked
  <2> HIDE DEF i
  <2>9. (At("aborted") \cup At("looking"))' = {}
    BY <2>5, <2>8
  <2>10. At("worker")' = At("worker") /\ At("main")' = At("main") \cup {i}
    BY <2>5, <2>6
  <2>11. Exactly(main'.queue, At("main")')
    <3>1. Exactly(Append(main.queue, i), At("main") \cup {i})
      BY <2>6, ExactlyAppend DEF PlaceInv
    <3> QED BY <2>7, <2>10, <3>1
  <2> QED BY <2>7, <2>9, <2>10, <2>11 DEF PlaceInv, Looked
<1>5. CASE Invoke
  <2> DEFINE i == Head(main.queue)
  <2>1. main.queue # <<>> /\ Set(i, Freed(ops[i], "done"))
    BY <1>5 DEF Invoke
  <2>2. i \in At("main") /\ Exactly(Tail(main.queue), At("main") \ {i})
    BY <2>1, ExactlyTail DEF PlaceInv
  <2>3. i \in DOMAIN ops /\ \A place : place # "main" => i \notin At(place)
    BY <2>2 DEF At
  <2>4. Freed(ops[i], "done") \in OperationType /\ Freed(ops[i], "done").at = "done"
    BY <2>3, OpInType, FreedOp
  <2>5. worker' = worker /\ main'.queue = Tail(main.queue)
    BY <1>5 DEF Invoke, IoType, MainType
  <2> HIDE DEF i
  <2>6. \A place : At(place)' = IF place = "done" THEN At(place) \cup {i} ELSE At(place) \ {i}
    BY <2>1, <2>3, <2>4, SetAt
  <2>7. /\ At("main")' = At("main") \ {i} /\ At("worker")' = At("worker")
        /\ At("aborted")' = At("aborted") /\ At("looking")' = At("looking")
    BY <2>3, <2>6
  <2> QED BY <2>2, <2>5, <2>7 DEF PlaceInv, Looked, i
<1>6. CASE WorkerEnds \/ RunMain \/ RunReturns \/ ForkStep \/ fork_prepare \/ base_shutdown
  <2>1. /\ UNCHANGED <<ops, main.queue>>
        /\ worker'.queue = worker.queue /\ worker'.current = worker.current
    BY <1>6 DEF WorkerEnds, RunMain, RunReturns, ForkStep, ForkJoins, fork_done, Restarted,
       fork_prepare, base_shutdown, IoType, WorkerType, MainType
  <2> QED BY <2>1 DEF PlaceInv, Looked, At
<1>7. CASE ShutdownJoins
  <2>1. ops' = Destroyed(worker.queue) /\ ToSet(worker.queue) = At("worker")
    BY <1>7, ExactlySet DEF ShutdownJoins, PlaceInv
  <2>2. /\ At("worker")' = {} /\ At("main")' = At("main")
        /\ At("aborted")' = At("aborted") /\ At("looking")' = At("looking")
    BY <2>1, DestroyedAt
  <2>3. worker'.queue = <<>> /\ worker'.current = worker.current /\ main' = main
    BY <1>7 DEF ShutdownJoins, IoType, WorkerType
  <2> QED BY <2>2, <2>3, ExactlyEmpty DEF PlaceInv, Looked
<1>8. CASE scheduler_shutdown
  <2>1. ops' = Destroyed(main.queue) /\ ToSet(main.queue) = At("main")
    BY <1>8, ExactlySet DEF scheduler_shutdown, PlaceInv
  <2>2. /\ At("main")' = {} /\ At("worker")' = At("worker")
        /\ At("aborted")' = At("aborted") /\ At("looking")' = At("looking")
    BY <2>1, DestroyedAt
  <2>3. worker' = worker /\ main'.queue = <<>>
    BY <1>8 DEF scheduler_shutdown, IoType, MainType
  <2> QED BY <2>2, <2>3, ExactlyEmpty DEF PlaceInv, Looked
<1>9. CASE UNCHANGED vars
  BY <1>9 DEF vars, PlaceInv, Looked, At
<1> QED BY <1>1, <1>2, <1>3, <1>4, <1>5, <1>6, <1>7, <1>8, <1>9
        DEF Next, Post, WorkerStep, MainStep, ShutdownStep

-----------------------------------------------------------------------------
(* The background thread: without one the worker is not busy, and from the *)
(* first lookup to the end of the service there is one.                    *)

ThreadInv ==
  /\ worker.thread # "run" => worker.current = 0
  /\ fork # "none" => service = "alive"
  /\ service = "alive" /\ At("starting") \cup At("worker") # {} => worker.thread # "none"

LEMMA ThreadInit == Init => ThreadInv
BY DEF Init, ThreadInv, At

LEMMA ThreadStep == Setting /\ TypeOK /\ PlaceInv /\ ThreadInv /\ [Next]_vars => ThreadInv'
<1> SUFFICES ASSUME Setting, ImplType, OpsType, IoType, PlaceInv, ThreadInv, [Next]_vars
             PROVE  ThreadInv'
  BY DEF TypeOK
<1>0. IndexInv /\ 0 \notin DOMAIN ops
  BY PlacesInDomain
<1>1. ASSUME NEW r \in Resolvers, Program(r) PROVE ThreadInv'
  <2>1. CASE TokenCall(r)
    <3>1. \A place : At(place)' = At(place)
      BY <2>1, TokenStep, SameAt
    <3> QED BY <2>1, <3>1, TokenStep DEF Rest, ThreadInv
  <2>2. CASE SyncCall(r)
    <3>1. \A place : place # "done" => At(place)' = At(place)
      BY <2>2, SyncStep, AppendAt
    <3> QED BY <2>2, <3>1, SyncStep DEF Rest, ThreadInv
  <2>3. ASSUME NEW kind \in Kinds, Start(r, kind) PROVE ThreadInv'
    <3>0. PICK op \in OperationType : Started(op, r, kind)
      BY <2>3, StartStep
    <3>1. /\ Adds(op)
          /\ \/ op.at = "starting" /\ worker' = start_work_thread
             \/ op.at = "main" /\ UNCHANGED worker
      BY <3>0 DEF Started
    <3>2. \A place : place # op.at => At(place)' = At(place)
      BY <3>1, AppendAt
    <3>3. service' = service /\ fork' = fork
      BY <2>3 DEF Start
    <3>4. CASE worker' = start_work_thread
      <4>1. worker'.thread # "none" /\ worker'.current = worker.current
            /\ (worker'.thread # "run" => worker.thread # "run")
        BY <3>4 DEF start_work_thread, IoType, WorkerType
      <4> QED BY <3>3, <4>1 DEF ThreadInv
    <3>5. CASE op.at = "main" /\ UNCHANGED worker
      BY <3>2, <3>3, <3>5 DEF ThreadInv
    <3> QED BY <3>1, <3>4, <3>5
  <2> QED BY <1>1, <2>1, <2>2, <2>3, Calls
<1>2. ASSUME NEW i \in DOMAIN ops, PostToWorker(i) PROVE ThreadInv'
  <2>1. i \in At("starting")
    BY <1>2 DEF PostToWorker, At
  <2>2. /\ worker'.current = worker.current /\ worker'.thread = worker.thread
        /\ UNCHANGED <<fork, service>>
    BY <1>2 DEF PostToWorker, IoType, WorkerType
  <2> QED BY <2>1, <2>2 DEF ThreadInv
<1>3. CASE WorkerTakes
  <2>1. /\ worker.thread = "run" /\ worker'.thread = "run"
        /\ UNCHANGED <<fork, service>>
    BY <1>3 DEF WorkerTakes, IoType, WorkerType
  <2> QED BY <2>1 DEF ThreadInv
<1>4. CASE LookupEnds
  <2>1. /\ worker.current # 0 /\ worker'.current = 0 /\ worker'.thread = worker.thread
        /\ UNCHANGED <<fork, service>>
    BY <1>4 DEF LookupEnds, PassBack, IoType, WorkerType
  <2> QED BY <2>1 DEF ThreadInv
<1>5. CASE WorkerEnds
  <2>1. /\ worker'.current = 0 /\ worker'.thread = "ended"
        /\ UNCHANGED <<fork, service>>
    BY <1>5 DEF WorkerEnds, IoType, WorkerType
  <2> QED BY <2>1 DEF ThreadInv
<1>6. CASE RunMain \/ RunReturns
  BY <1>6 DEF RunMain, RunReturns, ThreadInv, At
<1>7. CASE Invoke
  <2> DEFINE i == Head(main.queue)
  <2>1. main.queue # <<>> /\ Set(i, Freed(ops[i], "done"))
    BY <1>7 DEF Invoke
  <2>2. i \in DOMAIN ops
    BY <2>1, ExactlyTail DEF PlaceInv, At
  <2>3. Freed(ops[i], "done") \in OperationType /\ Freed(ops[i], "done").at = "done"
    BY <2>2, OpInType, FreedOp
  <2> HIDE DEF i
  <2>4. \A place : place # "done" => At(place)' \subseteq At(place)
    BY <2>1, <2>2, <2>3, SetAt
  <2>5. UNCHANGED <<worker, fork, service>>
    BY <1>7 DEF Invoke
  <2>6. At("starting")' \subseteq At("starting") /\ At("worker")' \subseteq At("worker")
    BY <2>4
  <2> QED BY <2>5, <2>6 DEF ThreadInv
<1>8. CASE fork_prepare
  <2>1. /\ UNCHANGED <<ops, service>> /\ service = "alive"
        /\ worker'.current = worker.current /\ worker'.thread = worker.thread
    BY <1>8 DEF fork_prepare, Alive, IoType, WorkerType
  <2> QED BY <2>1 DEF ThreadInv, At
<1>9. CASE ForkJoins
  BY <1>9 DEF ForkJoins, ThreadInv, At
<1>10. CASE fork_done
  <2>1. /\ UNCHANGED <<ops, service>> /\ fork' = "none"
        /\ worker' = worker \/ (worker'.current = worker.current /\ worker'.thread = "run")
    BY <1>10 DEF fork_done, Restarted, IoType, WorkerType
  <2> QED BY <2>1 DEF ThreadInv, At
<1>11. CASE base_shutdown
  <2>1. /\ worker'.current = worker.current /\ worker'.thread = worker.thread
        /\ service' = "join" /\ fork' = "none"
    BY <1>11 DEF base_shutdown, Alive, IoType, WorkerType
  <2> QED BY <2>1 DEF ThreadInv
<1>12. CASE ShutdownJoins
  <2>1. /\ worker'.current = worker.current /\ worker.thread # "run" /\ service = "join"
        /\ service' = "joined" /\ UNCHANGED fork
    BY <1>12 DEF ShutdownJoins, Joined, IoType, WorkerType
  <2> QED BY <2>1 DEF ThreadInv
<1>13. CASE scheduler_shutdown
  <2>1. UNCHANGED <<worker, fork>> /\ service = "joined" /\ service' = "gone"
    BY <1>13 DEF scheduler_shutdown
  <2> QED BY <2>1 DEF ThreadInv
<1>14. CASE UNCHANGED vars
  BY <1>14 DEF vars, ThreadInv, At
<1> QED BY <1>1, <1>2, <1>3, <1>4, <1>5, <1>6, <1>7, <1>8, <1>9, <1>10, <1>11, <1>12, <1>13, <1>14
        DEF Next, Post, WorkerStep, MainStep, ForkStep, ShutdownStep

-----------------------------------------------------------------------------
(* The operations that are outstanding, and their number.                  *)

Ended == {"done", "destroyed"}

LEMMA OutstandingFinite ==
  ASSUME OpsType
  PROVE  /\ IsFiniteSet(Outstanding) /\ Cardinality(Outstanding) \in Nat
         /\ \A S \in SUBSET DOMAIN ops : IsFiniteSet(S) /\ Cardinality(S) \in Nat
<1>1. Len(ops) \in Nat /\ DOMAIN ops = 1 .. Len(ops)
  BY DEF OpsType
<1>2. IsFiniteSet(DOMAIN ops)
  <2>1. \A n \in Nat : IsFiniteSet(1 .. n)
    BY FS_Interval
  <2> QED BY <1>1, <2>1
<1>3. ASSUME NEW S \in SUBSET DOMAIN ops PROVE IsFiniteSet(S) /\ Cardinality(S) \in Nat
  BY <1>2, FS_Subset, FS_CardinalityType
<1>4. Outstanding \in SUBSET DOMAIN ops
  BY DEF Outstanding
<1> QED BY <1>3, <1>4

LEMMA SetOutstanding ==
  ASSUME OpsType, NEW i \in DOMAIN ops, NEW op \in OperationType, Set(i, op)
  PROVE  Outstanding' = IF op.at \in Ended THEN Outstanding \ {i} ELSE Outstanding \cup {i}
BY SetOp DEF Outstanding, Ended

LEMMA AppendOutstanding ==
  ASSUME Setting, OpsType, NEW op \in OperationType, Adds(op)
  PROVE  /\ Outstanding' = IF op.at \in Ended THEN Outstanding
                           ELSE Outstanding \cup {Len(ops) + 1}
         /\ Len(ops) + 1 \notin Outstanding
BY AppendOp DEF Outstanding, Ended, Adds

LEMMA SameOutstanding ==
  ASSUME DOMAIN ops' = DOMAIN ops, \A i \in DOMAIN ops : ops'[i].at = ops[i].at
  PROVE  Outstanding' = Outstanding
BY DEF Outstanding

LEMMA DestroyedOutstanding ==
  ASSUME OpsType, NEW queue, ops' = Destroyed(queue)
  PROVE  Outstanding' = Outstanding \ ToSet(queue)
<1>1. /\ DOMAIN ops' = DOMAIN ops
      /\ \A i \in DOMAIN ops :
              ops'[i] = IF i \in ToSet(queue) THEN Freed(ops[i], "destroyed") ELSE ops[i]
  BY DestroyedOps
<1>2. \A i \in DOMAIN ops : Freed(ops[i], "destroyed").at = "destroyed"
  BY OpInType, FreedOp
<1> QED BY <1>1, <1>2 DEF Outstanding

-----------------------------------------------------------------------------
(* Work.  The main io_context has one unit of it for every operation that  *)
(* is outstanding, the worker one for every operation in its queue, one    *)
(* for that it is busy with, and one of its own until the service ends.    *)

MainWork == service \in {"alive", "join"} => main.work = Cardinality(Outstanding)
Busy == IF worker.current = 0 THEN 0 ELSE 1
Kept == IF service = "alive" THEN 1 ELSE 0
WorkerWork == worker.work = Len(worker.queue) + Busy + Kept
WorkInv == MainWork /\ WorkerWork

LEMMA WorkInit == Init => WorkInv
<1> SUFFICES ASSUME Init PROVE WorkInv
  OBVIOUS
<1>1. Outstanding = {} /\ Cardinality({}) = 0
  BY FS_EmptySet DEF Init, Outstanding
<1> QED BY <1>1 DEF Init, WorkInv, MainWork, WorkerWork, Busy, Kept

LEMMA MainWorkStep ==
  Setting /\ TypeOK /\ PlaceInv /\ MainWork /\ [Next]_vars => MainWork'
<1> SUFFICES ASSUME Setting, ImplType, OpsType, IoType, PlaceInv, MainWork, [Next]_vars
             PROVE  MainWork'
  BY DEF TypeOK
<1>0. IndexInv /\ 0 \notin DOMAIN ops /\ main.work \in Int
  BY PlacesInDomain, Parts
<1>e. IsFiniteSet(Outstanding) /\ Cardinality(Outstanding) \in Nat
  BY OutstandingFinite
<1>1. ASSUME NEW r \in Resolvers, Program(r) PROVE MainWork'
  <2>1. CASE TokenCall(r)
    <3>1. Outstanding' = Outstanding
      BY <2>1, TokenStep, SameOutstanding
    <3> QED BY <2>1, <3>1, TokenStep DEF Rest, MainWork
  <2>2. CASE SyncCall(r)
    <3>1. Outstanding' = Outstanding
      BY <2>2, SyncStep, AppendOutstanding DEF Ended
    <3> QED BY <2>2, <3>1, SyncStep DEF Rest, MainWork
  <2>3. ASSUME NEW kind \in Kinds, Start(r, kind) PROVE MainWork'
    <3>1. main'.work = main.work + 1 /\ service' = service
      BY <2>3, StartStep
    <3>0. PICK op \in OperationType : Started(op, r, kind)
      BY <2>3, StartStep
    <3>2. Adds(op) /\ op.at \in {"starting", "main"}
      BY <3>0 DEF Started
    <3>3. Outstanding' = Outstanding \cup {Len(ops) + 1} /\ Len(ops) + 1 \notin Outstanding
      BY <3>2, AppendOutstanding DEF Ended
    <3>4. Cardinality(Outstanding') = Cardinality(Outstanding) + 1
      BY <1>e, <3>3, FS_AddElement
    <3> QED BY <3>1, <3>4 DEF MainWork
  <2> QED BY <1>1, <2>1, <2>2, <2>3, Calls
<1>2. ASSUME NEW i \in DOMAIN ops, PostToWorker(i) PROVE MainWork'
  <2> DEFINE op == Moved(ops[i], "worker")
  <2>1. op \in OperationType /\ op.at = "worker" /\ Set(i, op)
    <3>1. Set(i, op)
      BY <1>2 DEF PostToWorker, Moved
    <3> QED BY <3>1, OpInType, MovedOp
  <2>2. i \in Outstanding
    BY <1>2 DEF PostToWorker, Outstanding
  <2> HIDE DEF op
  <2>3. Outstanding' = Outstanding
    BY <2>1, <2>2, SetOutstanding DEF Ended
  <2> QED BY <1>2, <2>3 DEF PostToWorker, MainWork
<1>3. CASE WorkerTakes
  <2> DEFINE i == Head(worker.queue)
             op == Moved(ops[i], Begin(i))
  <2>1. i \in At("worker")
    BY <1>3, ExactlyTail DEF PlaceInv, WorkerTakes
  <2>2. i \in DOMAIN ops /\ i \in Outstanding
    BY <2>1 DEF At, Outstanding
  <2>3. op \in OperationType /\ op.at \in {"aborted", "looking"} /\ Set(i, op)
    <3>1. Begin(i) \in {"aborted", "looking"}
      BY DEF Begin
    <3>2. Set(i, op)
      BY <1>3 DEF WorkerTakes, Moved
    <3> QED BY <2>2, <3>1, <3>2, OpInType, MovedOp
  <2> HIDE DEF op, i
  <2>4. Outstanding' = Outstanding
    BY <2>2, <2>3, SetOutstanding DEF Ended
  <2> QED BY <1>3, <2>4 DEF WorkerTakes, MainWork
<1>4. CASE LookupEnds
  <2> DEFINE i == worker.current
  <2>1. i \in DOMAIN ops /\ i \in Outstanding
    <3>1. i \in DOMAIN ops /\ ops[i].at \in {"aborted", "looking"}
      BY <1>0, <1>4, PlacesInDomain DEF LookupEnds, IndexInv
    <3> QED BY <3>1 DEF Outstanding
  <2>2. PICK ec \in Errors : PassBack(i, ec)
    BY <1>4 DEF LookupEnds, Answers, sync_getnameinfo, Errors
  <2> DEFINE op == Passed(ops[i], ec)
  <2>3. op \in OperationType /\ op.at = "main"
    BY <2>1, OpInType, PassedOp
  <2>4. Set(i, op)
    BY <2>2 DEF PassBack, Passed
  <2> HIDE DEF op
  <2>5. Outstanding' = Outstanding
    BY <2>1, <2>3, <2>4, SetOutstanding DEF Ended
  <2>6. main'.work = main.work /\ service' = service
    BY <2>2 DEF PassBack, post_deferred_completion, IoType, MainType
  <2> QED BY <2>5, <2>6 DEF MainWork
<1>5. CASE Invoke
  <2> DEFINE i == Head(main.queue)
  <2>1. main.queue # <<>> /\ Set(i, Freed(ops[i], "done"))
    BY <1>5 DEF Invoke
  <2>2. i \in At("main")
    BY <2>1, ExactlyTail DEF PlaceInv
  <2>3. i \in DOMAIN ops /\ i \in Outstanding
    BY <2>2 DEF At, Outstanding
  <2>4. Freed(ops[i], "done") \in OperationType /\ Freed(ops[i], "done").at = "done"
    BY <2>3, OpInType, FreedOp
  <2>5. main'.work = main.work - 1 /\ service' = service
    BY <1>5 DEF Invoke, IoType, MainType
  <2> HIDE DEF i
  <2>6. Outstanding' = Outstanding \ {i}
    BY <2>1, <2>3, <2>4, SetOutstanding DEF Ended
  <2>7. Cardinality(Outstanding') = Cardinality(Outstanding) - 1
    BY <1>e, <2>3, <2>6, FS_RemoveElement
  <2> QED BY <2>5, <2>7 DEF MainWork
<1>6. CASE WorkerEnds \/ RunMain \/ RunReturns \/ ForkStep \/ fork_prepare \/ base_shutdown
  <2>1. UNCHANGED <<ops, main.work>> /\ (service' \in {"alive", "join"} => service \in {"alive", "join"})
    BY <1>6 DEF WorkerEnds, RunMain, RunReturns, ForkStep, ForkJoins, fork_done, Alive,
       fork_prepare, base_shutdown, IoType, MainType
  <2> QED BY <2>1 DEF MainWork, Outstanding
<1>7. CASE ShutdownJoins \/ scheduler_shutdown
  <2>1. service' \notin {"alive", "join"}
    BY <1>7 DEF ShutdownJoins, scheduler_shutdown
  <2> QED BY <2>1 DEF MainWork
<1>8. CASE UNCHANGED vars
  BY <1>8 DEF vars, MainWork, Outstanding
<1> QED BY <1>1, <1>2, <1>3, <1>4, <1>5, <1>6, <1>7, <1>8
        DEF Next, Post, WorkerStep, MainStep, ShutdownStep

LEMMA WorkerWorkStep ==
  Setting /\ TypeOK /\ PlaceInv /\ ThreadInv /\ WorkerWork /\ [Next]_vars => WorkerWork'
<1> SUFFICES ASSUME Setting, ImplType, OpsType, IoType, PlaceInv, ThreadInv, WorkerWork,
                    [Next]_vars
             PROVE  WorkerWork'
  BY DEF TypeOK
<1>0. /\ worker.queue \in Seq(Nat) /\ Len(worker.queue) \in Nat /\ worker.work \in Int
      /\ Busy \in {0, 1} /\ Kept \in {0, 1}
  BY Parts DEF Busy, Kept
<1>1. CASE /\ worker'.work = worker.work /\ worker'.queue = worker.queue
           /\ worker'.current = worker.current
           /\ service' = service \/ (service # "alive" /\ service' # "alive")
  BY <1>1 DEF WorkerWork, Busy, Kept
<1>2. ASSUME NEW r \in Resolvers, Program(r) PROVE WorkerWork'
  <2>1. CASE TokenCall(r) \/ SyncCall(r)
    BY <1>1, <2>1, TokenStep, SyncStep DEF Rest
  <2>2. ASSUME NEW kind \in Kinds, Start(r, kind) PROVE WorkerWork'
    <3>1. worker' = worker \/ worker' = start_work_thread
      BY <2>2, StartStep DEF Started
    <3> QED BY <1>1, <2>2, <3>1 DEF Start, start_work_thread, IoType, WorkerType
  <2> QED BY <1>2, <2>1, <2>2, Calls
<1>3. ASSUME NEW i \in DOMAIN ops, PostToWorker(i) PROVE WorkerWork'
  <2>1. /\ worker'.queue = Append(worker.queue, i) /\ worker'.work = worker.work + 1
        /\ worker'.current = worker.current /\ service' = service
    BY <1>3 DEF PostToWorker, IoType, WorkerType
  <2>2. Len(worker'.queue) = Len(worker.queue) + 1
    BY <1>0, <2>1
  <2>3. Busy' = Busy /\ Kept' = Kept
    BY <2>1 DEF Busy, Kept
  <2> QED BY <1>0, <2>1, <2>2, <2>3 DEF WorkerWork
<1>4. CASE WorkerTakes
  <2>1. /\ worker'.queue = Tail(worker.queue) /\ worker'.work = worker.work
        /\ worker.current = 0 /\ worker'.current = Head(worker.queue) /\ service' = service
        /\ worker.queue # <<>>
    BY <1>4 DEF WorkerTakes, IoType, WorkerType
  <2>2. Len(worker'.queue) = Len(worker.queue) - 1
    BY <1>0, <2>1
  <2>3. worker'.current # 0
    BY <2>1, PlacesInDomain, ExactlyTail DEF PlaceInv, At
  <2>4. Busy = 0 /\ Busy' = 1 /\ Kept' = Kept
    BY <2>1, <2>3 DEF Busy, Kept
  <2> QED BY <1>0, <2>1, <2>2, <2>4 DEF WorkerWork
<1>5. CASE LookupEnds
  <2>1. /\ worker'.queue = worker.queue /\ worker'.work = worker.work - 1
        /\ worker.current # 0 /\ worker'.current = 0 /\ service' = service
    BY <1>5 DEF LookupEnds, PassBack, IoType, WorkerType
  <2>2. Busy = 1 /\ Busy' = 0 /\ Kept' = Kept
    BY <2>1 DEF Busy, Kept
  <2> QED BY <1>0, <2>1, <2>2 DEF WorkerWork
<1>6. CASE WorkerEnds \/ MainStep \/ ForkStep \/ fork_prepare \/ scheduler_shutdown
  <2>1. /\ worker'.work = worker.work /\ worker'.queue = worker.queue
        /\ worker'.current = worker.current
        /\ service' = service \/ (service # "alive" /\ service' # "alive")
    BY <1>6 DEF WorkerEnds, MainStep, RunMain, Invoke, RunReturns, ForkStep, ForkJoins,
       fork_done, Restarted, fork_prepare, scheduler_shutdown, IoType, WorkerType
  <2> QED BY <1>1, <2>1
<1>7. CASE base_shutdown
  <2>1. /\ worker'.queue = worker.queue /\ worker'.work = worker.work - 1
        /\ worker'.current = worker.current /\ service = "alive" /\ service' = "join"
    BY <1>7 DEF base_shutdown, Alive, IoType, WorkerType
  <2>2. Busy' = Busy /\ Kept = 1 /\ Kept' = 0
    BY <2>1 DEF Busy, Kept
  <2> QED BY <1>0, <2>1, <2>2 DEF WorkerWork
<1>8. CASE ShutdownJoins
  <2>1. /\ worker'.queue = <<>> /\ worker'.work = 0 /\ worker'.current = 0
        /\ service' = "joined"
    BY <1>8 DEF ShutdownJoins, Joined, ThreadInv, IoType, WorkerType
  <2> QED BY <2>1 DEF WorkerWork, Busy, Kept
<1>9. CASE UNCHANGED vars
  BY <1>1, <1>9 DEF vars
<1> QED BY <1>2, <1>3, <1>4, <1>5, <1>6, <1>7, <1>8, <1>9
        DEF Next, Post, WorkerStep, ShutdownStep

-----------------------------------------------------------------------------
(* The work of the handlers' own executor.  do_complete() of the operation *)
(* of an endpoint ends that work on the worker and again on the main       *)
(* io_context: the count falls short by the operations of that kind that   *)
(* have come back, whether outstanding still or not.                       *)

Held == {i \in Outstanding : ops[i].kind \in Bound}
Early == {"starting", "worker", "aborted", "looking"}
HandlerInv ==
  /\ bound = Cardinality(Held) - Cardinality(FinishedEarly)
  /\ \A i \in DOMAIN ops : ops[i].at \in Early => ~ops[i].passed

LEMMA HeldFinite ==
  ASSUME OpsType
  PROVE  /\ IsFiniteSet(Held) /\ Cardinality(Held) \in Nat /\ Held \subseteq DOMAIN ops
         /\ IsFiniteSet(FinishedEarly) /\ Cardinality(FinishedEarly) \in Nat
<1>1. Held \in SUBSET DOMAIN ops
  BY DEF Held, Outstanding
<1>2. FinishedEarly \in SUBSET DOMAIN ops
  BY DEF FinishedEarly
<1> QED BY <1>1, <1>2, OutstandingFinite

LEMMA HandlerInit == Init => HandlerInv
<1> SUFFICES ASSUME Init PROVE HandlerInv
  OBVIOUS
<1>1. Cardinality({}) = 0
  BY FS_EmptySet
<1>2. Held = {} /\ FinishedEarly = {} /\ DOMAIN ops = {} /\ bound = 0
  BY DEF Init, Held, Outstanding, FinishedEarly
<1>3. Cardinality(Held) = 0 /\ Cardinality(FinishedEarly) = 0
  BY <1>1, <1>2
<1>4. bound = Cardinality(Held) - Cardinality(FinishedEarly)
  BY <1>2, <1>3
<1> QED BY <1>2, <1>4 DEF HandlerInv

(* Both sets as they were, and nothing in an early place that has passed.  *)
LEMMA HandlerKept ==
  ASSUME HandlerInv, UNCHANGED bound, Held' = Held, FinishedEarly' = FinishedEarly,
         \A i \in DOMAIN ops' : ops'[i].at \in Early => ~ops'[i].passed
  PROVE  HandlerInv'
BY DEF HandlerInv

(* An operation that stays outstanding and keeps its kind. *)
LEMMA SetHeld ==
  ASSUME OpsType, NEW i \in Outstanding, NEW op \in OperationType, Set(i, op),
         op.kind = ops[i].kind, op.at \notin Ended
  PROVE  Held' = Held
<1>1. i \in DOMAIN ops
  BY DEF Outstanding
<1>2. Outstanding' = Outstanding
  BY <1>1, SetOutstanding
<1>3. \A j \in Outstanding : ops'[j].kind = ops[j].kind
  <2>1. ops'[i] = op /\ \A j \in DOMAIN ops : j # i => ops'[j] = ops[j]
    BY <1>1, SetOp
  <2> QED BY <2>1 DEF Outstanding
<1> QED BY <1>2, <1>3 DEF Held

(* Operations that keep their history, or whose history begins. *)
LEMMA HistoryKept ==
  ASSUME HandlerInv, DOMAIN ops' = DOMAIN ops,
         \A i \in DOMAIN ops :
           SameHistory(i) /\ (ops'[i].at \in Early => ops[i].at \in Early)
  PROVE  /\ FinishedEarly' = FinishedEarly
         /\ \A i \in DOMAIN ops' : ops'[i].at \in Early => ~ops'[i].passed
BY DEF HandlerInv, FinishedEarly, SameHistory

LEMMA SetHistory ==
  ASSUME OpsType, HandlerInv, NEW i \in DOMAIN ops, NEW op \in OperationType, Set(i, op),
         op.kind = ops[i].kind, op.passed = ops[i].passed,
         op.at \in Early => ops[i].at \in Early
  PROVE  /\ FinishedEarly' = FinishedEarly
         /\ \A j \in DOMAIN ops' : ops'[j].at \in Early => ~ops'[j].passed
<1>1. DOMAIN ops' = DOMAIN ops /\ ops'[i] = op
      /\ \A j \in DOMAIN ops : j # i => ops'[j] = ops[j]
  BY SetOp
<1>2. \A j \in DOMAIN ops :
        SameHistory(j) /\ (ops'[j].at \in Early => ops[j].at \in Early)
  BY <1>1 DEF SameHistory
<1> QED BY <1>1, <1>2, HistoryKept

LEMMA AppendHistory ==
  ASSUME Setting, OpsType, HandlerInv, NEW op \in OperationType, Adds(op), ~op.passed
  PROVE  /\ FinishedEarly' = FinishedEarly
         /\ \A j \in DOMAIN ops' : ops'[j].at \in Early => ~ops'[j].passed
<1> DEFINE n == Len(ops) + 1
<1>1. /\ DOMAIN ops' = DOMAIN ops \cup {n} /\ ops'[n] = op /\ n \notin DOMAIN ops
      /\ \A j \in DOMAIN ops : ops'[j] = ops[j]
  BY AppendOp DEF Adds
<1> HIDE DEF n
<1>2. \A j \in DOMAIN ops' : j = n \/ j \in DOMAIN ops
  BY <1>1
<1>3. FinishedEarly' = FinishedEarly
  BY <1>1, <1>2 DEF FinishedEarly
<1> QED BY <1>1, <1>2, <1>3 DEF HandlerInv

LEMMA DestroyedHeld ==
  ASSUME OpsType, bound \in Int, HandlerInv, NEW queue, NEW place, place \notin Ended,
         Exactly(queue, At(place)), ops' = Destroyed(queue),
         bound' = bound - BoundIn(queue)
  PROVE  HandlerInv'
<1> DEFINE Q == {i \in ToSet(queue) : ops[i].kind \in Bound}
<1>1. ToSet(queue) = At(place) /\ At(place) \subseteq Outstanding
  BY ExactlySet DEF At, Outstanding, Ended
<1>2. Q \subseteq Held
  BY <1>1 DEF Held
<1>3. Outstanding' = Outstanding \ ToSet(queue)
  BY DestroyedOutstanding
<1>4. \A i \in Outstanding : i \notin ToSet(queue) => ops'[i] = ops[i]
  BY DestroyedOps DEF Outstanding
<1>5. Held' = Held \ Q
  BY <1>3, <1>4 DEF Held
<1>6. IsFiniteSet(Held) /\ IsFiniteSet(Q) /\ Cardinality(Held) \in Nat /\ Cardinality(Q) \in Nat
  <2>1. IsFiniteSet(Held) /\ Cardinality(Held) \in Nat
    BY HeldFinite
  <2> QED BY <1>2, <2>1, FS_Subset, FS_CardinalityType
<1>7. Held \cap Q = Q
  BY <1>2
<1>a. /\ DOMAIN ops' = DOMAIN ops
      /\ \A i \in DOMAIN ops :
           SameHistory(i) /\ (ops'[i].at \in Early => ops[i].at \in Early)
  <2>1. \A i \in DOMAIN ops : LET freed == Freed(ops[i], "destroyed")
                              IN  /\ freed.at = "destroyed" /\ freed.kind = ops[i].kind
                                  /\ freed.passed = ops[i].passed
    BY OpInType, FreedOp
  <2>2. /\ DOMAIN ops' = DOMAIN ops
        /\ \A i \in DOMAIN ops : ops'[i] = ops[i] \/ ops'[i] = Freed(ops[i], "destroyed")
    BY DestroyedOps
  <2> QED BY <2>1, <2>2 DEF SameHistory, Early
<1>b. /\ FinishedEarly' = FinishedEarly
      /\ \A i \in DOMAIN ops' : ops'[i].at \in Early => ~ops'[i].passed
  BY ONLY <1>a, HandlerInv, HistoryKept
<1> HIDE DEF Q
<1>8. Cardinality(Held \ Q) = Cardinality(Held) - Cardinality(Held \cap Q)
  BY <1>6, FS_Difference
<1>9. BoundIn(queue) = Cardinality(Q)
  BY DEF BoundIn, Q
<1>10. Cardinality(Held') = Cardinality(Held) - Cardinality(Q)
  BY <1>5, <1>7, <1>8
<1>11. bound' = Cardinality(Held') - Cardinality(FinishedEarly)
  <2>1. Cardinality(FinishedEarly) \in Nat /\ bound = Cardinality(Held) - Cardinality(FinishedEarly)
    BY HeldFinite DEF HandlerInv
  <2> QED BY <1>6, <1>9, <1>10, <2>1
<1> QED BY <1>b, <1>11 DEF HandlerInv

(* An operation goes back to the main io_context; that of an endpoint has  *)
(* ended the handler's work.                                               *)
LEMMA PassBackHeld ==
  ASSUME OpsType, bound \in Int, HandlerInv, NEW i \in Outstanding, ops[i].at \in Early,
         NEW ec \in Errors, PassBack(i, ec)
  PROVE  HandlerInv'
<1> DEFINE op == Passed(ops[i], ec)
<1>0. i \in DOMAIN ops
  BY DEF Outstanding
<1>1. op \in OperationType /\ op.at = "main" /\ op.kind = ops[i].kind /\ op.passed
  BY <1>0, OpInType, PassedOp
<1>2. Set(i, op)
  BY DEF PassBack, Passed
<1> HIDE DEF op
<1>3. Held' = Held
  BY <1>1, <1>2, SetHeld DEF Ended
<1>4. DOMAIN ops' = DOMAIN ops /\ ops'[i] = op
      /\ \A j \in DOMAIN ops : j # i => ops'[j] = ops[j]
  BY <1>0, <1>1, <1>2, SetOp
<1>5. \A j \in DOMAIN ops' : ops'[j].at \in Early => ~ops'[j].passed
  BY <1>1, <1>4 DEF HandlerInv, Early
<1>6. i \notin FinishedEarly
  BY DEF HandlerInv, FinishedEarly, Outstanding
<1>7. ops[i].kind \in Kinds
  BY <1>0, OpInType DEF OperationType
<1>e. IsFiniteSet(FinishedEarly) /\ Cardinality(FinishedEarly) \in Nat /\ Cardinality(Held) \in Nat
  BY HeldFinite
<1>8. CASE ops[i].kind = "endpoint" /\ ops[i].kind \in Bound
  <2>1. FinishedEarly' = FinishedEarly \cup {i}
    BY <1>0, <1>1, <1>4, <1>8 DEF FinishedEarly
  <2>2. Cardinality(FinishedEarly') = Cardinality(FinishedEarly) + 1
    BY <1>6, <1>e, <2>1, FS_AddElement
  <2>3. bound' = bound - 1
    BY <1>8, PassBackBound
  <2>4. bound = Cardinality(Held) - Cardinality(FinishedEarly)
    BY DEF HandlerInv
  <2>5. bound' = Cardinality(Held) - Cardinality(FinishedEarly')
    BY <1>e, <2>2, <2>3, <2>4
  <2> QED BY <1>3, <1>5, <2>5 DEF HandlerInv
<1>9. CASE ~(ops[i].kind = "endpoint" /\ ops[i].kind \in Bound)
  <2>1. FinishedEarly' = FinishedEarly
    BY <1>0, <1>1, <1>4, <1>6, <1>9 DEF FinishedEarly
  <2>2. bound' = bound
    BY <1>7, <1>9, PassBackBound DEF Kinds
  <2> QED BY <1>3, <1>5, <2>1, <2>2, HandlerKept
<1> QED BY <1>8, <1>9

LEMMA HandlerStep ==
  Setting /\ TypeOK /\ PlaceInv /\ HandlerInv /\ [Next]_vars => HandlerInv'
<1> SUFFICES ASSUME Setting, ImplType, OpsType, IoType, PlaceInv, HandlerInv, [Next]_vars
             PROVE  HandlerInv'
  BY DEF TypeOK
<1>0. IndexInv /\ bound \in Int
  BY PlacesInDomain DEF IoType
<1>e. /\ IsFiniteSet(Held) /\ Cardinality(Held) \in Nat /\ Held \subseteq DOMAIN ops
      /\ Cardinality(FinishedEarly) \in Nat
  BY HeldFinite
<1>h. bound = Cardinality(Held) - Cardinality(FinishedEarly)
  BY DEF HandlerInv
<1>1. ASSUME NEW r \in Resolvers, Program(r) PROVE HandlerInv'
  <2>1. CASE TokenCall(r)
    <3>1. /\ DOMAIN ops' = DOMAIN ops /\ UNCHANGED bound
          /\ \A i \in DOMAIN ops : ops'[i].at = ops[i].at /\ SameHistory(i)
      BY <2>1, TokenStep DEF Rest
    <3>2. Outstanding' = Outstanding
      BY <3>1, SameOutstanding
    <3>3. Held' = Held
      BY <3>1, <3>2 DEF Held, Outstanding, SameHistory
    <3>4. /\ FinishedEarly' = FinishedEarly
          /\ \A i \in DOMAIN ops' : ops'[i].at \in Early => ~ops'[i].passed
      BY <3>1, HistoryKept
    <3> QED BY <3>1, <3>3, <3>4, HandlerKept
  <2>2. CASE SyncCall(r)
    <3>1. PICK op \in OperationType : op.at = "done" /\ ~op.passed /\ Adds(op)
      BY <2>2, SyncStep
    <3>2. Outstanding' = Outstanding /\ Outstanding \subseteq DOMAIN ops
      BY <3>1, AppendOutstanding DEF Ended, Outstanding
    <3>3. \A i \in DOMAIN ops : ops'[i] = ops[i]
      BY <3>1, AppendOp DEF Adds
    <3>4. Held' = Held
      BY <3>2, <3>3 DEF Held
    <3>5. UNCHANGED bound
      BY <2>2, SyncStep DEF Rest
    <3> QED BY <3>1, <3>4, <3>5, AppendHistory, HandlerKept
  <2>3. ASSUME NEW kind \in Kinds, Start(r, kind) PROVE HandlerInv'
    <3>1. bound' = bound + (IF kind \in Bound THEN 1 ELSE 0)
      BY <2>3, StartStep
    <3>0. PICK op \in OperationType : Started(op, r, kind)
      BY <2>3, StartStep
    <3>2. Adds(op) /\ op.kind = kind /\ op.at \in {"starting", "main"} /\ ~op.passed
      BY <3>0 DEF Started
    <3> DEFINE n == Len(ops) + 1
    <3>3. /\ Outstanding' = Outstanding \cup {n} /\ n \notin Outstanding
          /\ Outstanding \subseteq DOMAIN ops
      BY <3>2, AppendOutstanding DEF Ended, Outstanding
    <3>4. ops'[n] = op /\ \A i \in DOMAIN ops : ops'[i] = ops[i]
      BY <3>2, AppendOp DEF Adds
    <3>h. /\ FinishedEarly' = FinishedEarly
          /\ \A j \in DOMAIN ops' : ops'[j].at \in Early => ~ops'[j].passed
      BY <3>2, AppendHistory
    <3> HIDE DEF n
    <3>5. CASE kind \in Bound
      <4>1. Held' = Held \cup {n} /\ n \notin Held
        BY <3>2, <3>3, <3>4, <3>5 DEF Held
      <4>2. Cardinality(Held') = Cardinality(Held) + 1
        BY <1>e, <4>1, FS_AddElement
      <4>3. bound' = Cardinality(Held') - Cardinality(FinishedEarly)
        BY <1>e, <1>h, <3>1, <3>5, <4>2
      <4> QED BY <3>h, <4>3 DEF HandlerInv
    <3>6. CASE kind \notin Bound
      <4>1. Held' = Held
        BY <3>2, <3>3, <3>4, <3>6 DEF Held
      <4>2. UNCHANGED bound
        BY <1>0, <3>1, <3>6
      <4> QED BY <3>h, <4>1, <4>2, HandlerKept
    <3> QED BY <3>5, <3>6
  <2> QED BY <1>1, <2>1, <2>2, <2>3, Calls
<1>2. ASSUME NEW i \in DOMAIN ops, PostToWorker(i) PROVE HandlerInv'
  <2> DEFINE op == Moved(ops[i], "worker")
  <2>1. /\ op \in OperationType /\ op.at = "worker" /\ op.kind = ops[i].kind
        /\ op.passed = ops[i].passed /\ Set(i, op)
    <3>1. Set(i, op)
      BY <1>2 DEF PostToWorker, Moved
    <3> QED BY <3>1, OpInType, MovedOp
  <2>2. i \in Outstanding /\ ops[i].at \in Early /\ UNCHANGED bound
    BY <1>2 DEF PostToWorker, Outstanding, Early
  <2> HIDE DEF op
  <2>3. Held' = Held
    BY <2>1, <2>2, SetHeld DEF Ended
  <2> QED BY <2>1, <2>2, <2>3, SetHistory, HandlerKept
<1>3. CASE WorkerTakes
  <2> DEFINE i == Head(worker.queue)
             op == Moved(ops[i], Begin(i))
  <2>1. i \in At("worker")
    BY <1>3, ExactlyTail DEF PlaceInv, WorkerTakes
  <2>2. i \in DOMAIN ops /\ i \in Outstanding /\ ops[i].at \in Early
    BY <2>1 DEF At, Outstanding, Early
  <2>3. op \in OperationType /\ op.at \in {"aborted", "looking"} /\ op.kind = ops[i].kind
        /\ op.passed = ops[i].passed /\ Set(i, op)
    <3>1. Begin(i) \in {"aborted", "looking"}
      BY DEF Begin
    <3>2. Set(i, op)
      BY <1>3 DEF WorkerTakes, Moved
    <3> QED BY <2>2, <3>1, <3>2, OpInType, MovedOp
  <2> HIDE DEF op, i
  <2>4. Held' = Held
    BY <2>2, <2>3, SetHeld DEF Ended
  <2>5. UNCHANGED bound
    BY <1>3 DEF WorkerTakes
  <2> QED BY <2>2, <2>3, <2>4, <2>5, SetHistory, HandlerKept
<1>4. CASE LookupEnds
  <2> DEFINE i == worker.current
  <2>1. i \in DOMAIN ops /\ i \in Outstanding /\ ops[i].at \in Early
    <3>1. i \in DOMAIN ops /\ ops[i].at \in {"aborted", "looking"}
      BY <1>0, <1>4, PlacesInDomain DEF LookupEnds, IndexInv
    <3> QED BY <3>1 DEF Outstanding, Early
  <2>2. PICK ec \in Errors : PassBack(i, ec)
    BY <1>4 DEF LookupEnds, Answers, sync_getnameinfo, Errors
  <2> QED BY <1>0, <2>1, <2>2, PassBackHeld
<1>5. CASE Invoke
  <2> DEFINE i == Head(main.queue)
             op == Freed(ops[i], "done")
  <2>1. main.queue # <<>> /\ Set(i, op)
    BY <1>5 DEF Invoke
  <2>2. i \in At("main")
    BY <2>1, ExactlyTail DEF PlaceInv
  <2>3. i \in DOMAIN ops /\ i \in Outstanding
    BY <2>2 DEF At, Outstanding
  <2>4. op \in OperationType /\ op.at = "done" /\ op.kind = ops[i].kind
        /\ op.passed = ops[i].passed
    BY <2>3, OpInType, FreedOp
  <2>5. bound' = bound - (IF ops[i].kind \in Bound THEN 1 ELSE 0)
    BY <1>5 DEF Invoke
  <2> HIDE DEF i, op
  <2>6. Outstanding' = Outstanding \ {i}
    BY <2>1, <2>3, <2>4, SetOutstanding DEF Ended
  <2>7. \A j \in Outstanding : j # i => ops'[j] = ops[j]
    BY <2>1, <2>3, <2>4, SetOp DEF Outstanding
  <2>h. /\ FinishedEarly' = FinishedEarly
        /\ \A j \in DOMAIN ops' : ops'[j].at \in Early => ~ops'[j].passed
    <3>1. op.at \in Early => ops[i].at \in Early
      BY <2>4 DEF Early
    <3> QED BY <2>1, <2>3, <2>4, <3>1, SetHistory
  <2>8. CASE ops[i].kind \in Bound
    <3>1. Held' = Held \ {i} /\ i \in Held
      BY <2>3, <2>6, <2>7, <2>8 DEF Held
    <3>2. Cardinality(Held') = Cardinality(Held) - 1
      BY <1>e, <3>1, FS_RemoveElement
    <3>3. bound' = Cardinality(Held') - Cardinality(FinishedEarly)
      BY <1>e, <1>h, <2>5, <2>8, <3>2
    <3> QED BY <2>h, <3>3 DEF HandlerInv
  <2>9. CASE ops[i].kind \notin Bound
    <3>1. Held' = Held
      BY <2>6, <2>7, <2>9 DEF Held
    <3>2. UNCHANGED bound
      BY <1>0, <2>5, <2>9
    <3> QED BY <2>h, <3>1, <3>2, HandlerKept
  <2> QED BY <2>8, <2>9
<1>6. CASE WorkerEnds \/ RunMain \/ RunReturns \/ ForkStep \/ fork_prepare \/ base_shutdown
  <2>1. UNCHANGED <<ops, bound>>
    BY <1>6 DEF WorkerEnds, RunMain, RunReturns, ForkStep, ForkJoins, fork_done,
       fork_prepare, base_shutdown
  <2> QED BY <2>1 DEF HandlerInv, Held, Outstanding, FinishedEarly
<1>7. CASE ShutdownJoins
  BY <1>0, <1>7, DestroyedHeld DEF ShutdownJoins, PlaceInv, Ended
<1>8. CASE scheduler_shutdown
  BY <1>0, <1>8, DestroyedHeld DEF scheduler_shutdown, PlaceInv, Ended
<1>9. CASE UNCHANGED vars
  BY <1>9 DEF vars, HandlerInv, Held, Outstanding, FinishedEarly
<1> QED BY <1>1, <1>2, <1>3, <1>4, <1>5, <1>6, <1>7, <1>8, <1>9
        DEF Next, Post, WorkerStep, MainStep, ShutdownStep

-----------------------------------------------------------------------------
(* Cancellation.  No two resolvers share a token; a lookup that waits is   *)
(* owned by the resolver that holds its token, or else has been cancelled  *)
(* and nobody holds it; the worker looks at the token as the lookup begins,*)
(* and so decides what the calls on the resolver have decided.             *)

TokensDistinct ==
  \A r, s \in Resolvers : r # s /\ impl[r] = impl[s] => impl[r] \in {Null, NoObject}

Lost(token, tokens) == token = Null \/ \A r \in Resolvers : tokens[r] # token

WaitingSound(op, tokens) ==
  /\ op.async /\ op.ec = "" /\ (op.null <=> op.token = Null)
  /\ op.owner # Nobody => tokens[op.owner] = op.token
  /\ op.owner = Nobody => op.cancelled
  /\ op.cancelled => Lost(op.token, tokens)

Decided(op) == op.cancelled \/ op.null

OpSound(op, tokens) ==
  /\ op.cancelled => op.owner = Nobody
  /\ Waiting(op) => WaitingSound(op, tokens)
  /\ op.at = "aborted" => Decided(op)
  /\ op.at = "looking" => ~Decided(op) /\ op.ec = ""
  /\ op.at = "main" /\ op.ec # "operation_not_supported" =>
       (op.ec = "operation_aborted" <=> Decided(op))

CancelInv == TokensDistinct /\ \A i \in DOMAIN ops : OpSound(ops[i], impl)

LEMMA CancelInit == Init => CancelInv
<1> SUFFICES ASSUME Init PROVE CancelInv
  OBVIOUS
<1>1. ops = <<>> /\ DOMAIN ops = {}
  BY DEF Init
<1>2. TokensDistinct
  BY DEF Init, TokensDistinct
<1> QED BY <1>1, <1>2 DEF CancelInv

(* One operation is given another state, and nothing happens to a token.   *)
LEMMA SetSound ==
  ASSUME OpsType, CancelInv, NEW i \in DOMAIN ops, NEW op \in OperationType, Set(i, op),
         UNCHANGED impl, OpSound(op, impl)
  PROVE  CancelInv'
<1>1. TokensDistinct'
  BY DEF CancelInv, TokensDistinct
<1>2. \A j \in DOMAIN ops' : OpSound(ops'[j], impl')
  BY SetOp DEF CancelInv
<1> QED BY <1>1, <1>2 DEF CancelInv

LEMMA AppendSound ==
  ASSUME Setting, OpsType, CancelInv, NEW op \in OperationType, Adds(op),
         UNCHANGED impl, OpSound(op, impl)
  PROVE  CancelInv'
<1>1. TokensDistinct'
  BY DEF CancelInv, TokensDistinct
<1>2. \A j \in DOMAIN ops' : OpSound(ops'[j], impl')
  BY AppendOp DEF CancelInv, Adds
<1> QED BY <1>1, <1>2 DEF CancelInv

(* What the calls on a resolver do to one operation: nothing, with tokens  *)
(* that change for others only; it is cancelled, and its token is lost; or *)
(* it follows its token to another resolver.                               *)
LEMMA UntouchedSound ==
  ASSUME NEW op \in OperationType, NEW s, NEW t, OpSound(op, s),
         op.owner # Nobody => t[op.owner] = s[op.owner],
         Lost(op.token, s) => Lost(op.token, t)
  PROVE  OpSound(op, t)
BY DEF OpSound, Waiting, WaitingSound, Decided

LEMMA CancelledSound ==
  ASSUME NEW op \in OperationType, NEW s, NEW t, OpSound(op, s), op.owner # Nobody,
         Waiting(op) => Lost(op.token, t)
  PROVE  OpSound([op EXCEPT !.owner = Nobody, !.cancelled = Waiting(op)], t)
<1> DEFINE new == [op EXCEPT !.owner = Nobody, !.cancelled = Waiting(op)]
<1>1. /\ new.owner = Nobody /\ new.cancelled = Waiting(op) /\ new.at = op.at
      /\ new.ec = op.ec /\ new.null = op.null /\ new.token = op.token /\ new.async = op.async
      /\ new.null \in BOOLEAN /\ op.cancelled \in BOOLEAN
  BY DEF OperationType
<1> HIDE DEF new
<1>2. OpSound(new, t)
  BY <1>1 DEF OpSound, Waiting, WaitingSound, Decided
<1> QED BY <1>2 DEF new

LEMMA MovedSound ==
  ASSUME Setting, NEW op \in OperationType, NEW r \in Resolvers, NEW s, NEW t, OpSound(op, s),
         op.owner # Nobody, Waiting(op) => t[r] = op.token
  PROVE  OpSound([op EXCEPT !.owner = r], t)
<1> DEFINE new == [op EXCEPT !.owner = r]
<1>1. /\ new.owner = r /\ new.cancelled = op.cancelled /\ new.at = op.at
      /\ new.ec = op.ec /\ new.null = op.null /\ new.token = op.token /\ new.async = op.async
      /\ new.null \in BOOLEAN /\ op.cancelled \in BOOLEAN
  BY DEF OperationType
<1>2. r # Nobody /\ ~op.cancelled
  BY DEF Setting, OpSound
<1> HIDE DEF new
<1>3. OpSound(new, t)
  BY <1>1, <1>2 DEF OpSound, Waiting, WaitingSound, Decided
<1> QED BY <1>3 DEF new

LEMMA TokenCancelStep ==
  ASSUME Setting, ImplType, OpsType, CancelInv, NEW r \in Resolvers, TokenCall(r)
  PROVE  CancelInv'
<1>0. /\ \A i \in DOMAIN ops : ops[i] \in OperationType /\ OpSound(ops[i], impl)
      /\ TokensDistinct
  BY OpInType DEF CancelInv
<1>f. /\ FreshToken(r) \in Tokens
      /\ \A other \in Resolvers \ {r} : impl[other] # FreshToken(r)
      /\ \A i \in DOMAIN ops : ops[i].token # FreshToken(r)
  BY FreshTokenIsFresh
<1>n. /\ NoObject \notin Tokens /\ Null \notin Tokens /\ Null # NoObject
      /\ Nobody \notin Resolvers
  <2>1. Tokens \subseteq Nat \ {0}
    <3>1. Len(Lookups) \in Nat /\ Cardinality(Resolvers) \in Nat
      BY FS_CardinalityType DEF Setting
    <3> QED BY <3>1 DEF Tokens
  <2> QED BY <2>1 DEF NoObject, Null, Setting
<1>o. \A i \in DOMAIN ops :
        /\ ops[i].owner \in Resolvers \cup {Nobody}
        /\ ops[i].token \in Tokens \cup {Null}
        /\ ops[i].owner # Nobody /\ Waiting(ops[i]) => impl[ops[i].owner] = ops[i].token
  BY <1>0 DEF OperationType, OpSound, WaitingSound
<1>s. ASSUME NEW other \in Resolvers, other # r, impl[other] # NoObject,
             impl' = MoveToken(r, other), NEW i \in DOMAIN ops
      PROVE  /\ impl'[r] = impl[other]
             /\ \A s \in Resolvers \ {r, other} : impl'[s] = impl[s]
             /\ Lost(ops[i].token, impl) => Lost(ops[i].token, impl')
             /\ ops[i].owner = r /\ Waiting(ops[i]) => Lost(ops[i].token, impl')
  <2>1. impl'[r] = impl[other] /\ impl'[other] = Null
        /\ \A s \in Resolvers \ {r, other} : impl'[s] = impl[s]
    BY <1>s DEF MoveToken, ImplType
  <2>2. Lost(ops[i].token, impl) => Lost(ops[i].token, impl')
    BY <2>1 DEF Lost
  <2>3. ASSUME ops[i].owner = r, Waiting(ops[i]) PROVE Lost(ops[i].token, impl')
    <3>1. impl[r] = ops[i].token
      BY <1>n, <1>o, <2>3
    <3>2. \A s \in Resolvers \ {r} : ops[i].token = Null \/ impl[s] # ops[i].token
      BY <1>0, <1>n, <1>o, <3>1 DEF TokensDistinct
    <3> QED BY <1>s, <2>1, <3>2 DEF Lost
  <2> QED BY <2>1, <2>2, <2>3
<1>t. ASSUME NEW other \in Resolvers, other # r, impl' = MoveToken(r, other)
      PROVE  TokensDistinct'
  <2>1. impl'[r] = impl[other] /\ impl'[other] = Null
        /\ \A s \in Resolvers \ {r, other} : impl'[s] = impl[s]
    BY <1>t DEF MoveToken, ImplType
  <2> QED BY <1>0, <2>1 DEF TokensDistinct
<1>1. CASE construct(r)
  <2>1. impl' = [impl EXCEPT ![r] = FreshToken(r)] /\ ops' = ops /\ impl[r] = NoObject
    BY <1>1 DEF construct
  <2>2. TokensDistinct'
    BY <1>0, <1>f, <2>1 DEF TokensDistinct, ImplType
  <2>3. ASSUME NEW i \in DOMAIN ops PROVE OpSound(ops[i], impl')
    <3>1. Lost(ops[i].token, impl) => Lost(ops[i].token, impl')
      BY <1>f, <2>1 DEF Lost, ImplType
    <3>2. CASE ~Waiting(ops[i])
      BY <1>0, <3>2 DEF OpSound
    <3>3. CASE Waiting(ops[i])
      <4>1. ops[i].owner # Nobody => ops[i].owner # r
        BY <1>n, <1>o, <2>1, <3>3
      <4>2. ops[i].owner # Nobody => impl'[ops[i].owner] = impl[ops[i].owner]
        BY <1>o, <2>1, <4>1 DEF ImplType
      <4> QED BY <1>0, <3>1, <4>2, UntouchedSound
    <3> QED BY <3>2, <3>3
  <2> QED BY <2>1, <2>2, <2>3 DEF CancelInv
<1>2. CASE destroy(r) \/ cancel(r)
  <2>1. PICK token \in {FreshToken(r), NoObject} :
          impl' = [impl EXCEPT ![r] = token] /\ ops' = Cancelled(r)
    BY <1>2 DEF destroy, cancel
  <2>2. TokensDistinct'
    BY <1>0, <1>f, <2>1 DEF TokensDistinct, ImplType
  <2>3. /\ DOMAIN ops' = DOMAIN ops
        /\ \A i \in DOMAIN ops :
             ops'[i] = IF ops[i].owner # r THEN ops[i]
                       ELSE [ops[i] EXCEPT !.owner = Nobody, !.cancelled = Waiting(ops[i])]
    BY <2>1, CancelledOps
  <2>4. ASSUME NEW i \in DOMAIN ops PROVE OpSound(ops'[i], impl')
    <3>0. ops[i].token # token
      BY <1>f, <1>n, <1>o, <2>1
    <3>1. CASE ops[i].owner # r
      <4>1. Lost(ops[i].token, impl) => Lost(ops[i].token, impl')
        BY <2>1, <3>0 DEF Lost, ImplType
      <4>2. ops[i].owner # Nobody => impl'[ops[i].owner] = impl[ops[i].owner]
        BY <1>o, <2>1, <3>1 DEF ImplType
      <4>3. OpSound(ops[i], impl')
        BY <1>0, <4>1, <4>2, UntouchedSound
      <4> QED BY <2>3, <3>1, <4>3
    <3>2. CASE ops[i].owner = r
      <4>1. ASSUME Waiting(ops[i]) PROVE Lost(ops[i].token, impl')
        <5>1. impl[r] = ops[i].token
          BY <1>n, <1>o, <3>2, <4>1
        <5>2. ASSUME NEW s \in Resolvers, ops[i].token # Null PROVE impl'[s] # ops[i].token
          <6>1. CASE s = r
            BY <2>1, <3>0, <6>1 DEF ImplType
          <6>2. CASE s # r
            <7>1. impl[s] # impl[r]
              BY <1>0, <1>n, <1>o, <5>1, <5>2, <6>2 DEF TokensDistinct
            <7> QED BY <2>1, <5>1, <6>2, <7>1 DEF ImplType
          <6> QED BY <6>1, <6>2
        <5> QED BY <5>2 DEF Lost
      <4>2. ops[i].owner # Nobody
        BY <1>n, <3>2
      <4>3. OpSound([ops[i] EXCEPT !.owner = Nobody, !.cancelled = Waiting(ops[i])], impl')
        BY <1>0, <4>1, <4>2, CancelledSound
      <4> QED BY <2>3, <3>2, <4>3
    <3> QED BY <3>1, <3>2
  <2> QED BY <2>2, <2>3, <2>4 DEF CancelInv
<1>3. ASSUME NEW other \in Resolvers, move_construct(r, other) PROVE CancelInv'
  <2>1. /\ impl[r] = NoObject /\ impl[other] # NoObject /\ other # r
        /\ impl' = MoveToken(r, other) /\ ops' = Owned(ops, other, r)
    BY <1>3 DEF move_construct
  <2>2. /\ DOMAIN ops' = DOMAIN ops
        /\ \A i \in DOMAIN ops :
              ops'[i] = IF ops[i].owner = other THEN [ops[i] EXCEPT !.owner = r] ELSE ops[i]
    BY <2>1, OwnedOps
  <2>3. ASSUME NEW i \in DOMAIN ops PROVE OpSound(ops'[i], impl')
    <3>1. /\ impl'[r] = impl[other]
          /\ \A s \in Resolvers \ {r, other} : impl'[s] = impl[s]
          /\ Lost(ops[i].token, impl) => Lost(ops[i].token, impl')
      BY <1>s, <2>1
    <3>2. CASE ops[i].owner = other
      <4>1. ops[i].owner # Nobody /\ (Waiting(ops[i]) => impl'[r] = ops[i].token)
        BY <1>n, <1>o, <3>1, <3>2
      <4>2. OpSound([ops[i] EXCEPT !.owner = r], impl')
        BY <1>0, <4>1, MovedSound
      <4> QED BY <2>2, <3>2, <4>2
    <3>3. CASE ops[i].owner # other
      <4>1. CASE ~Waiting(ops[i])
        BY <1>0, <2>2, <3>3, <4>1 DEF OpSound
      <4>2. CASE Waiting(ops[i])
        <5>1. ops[i].owner # Nobody => impl'[ops[i].owner] = impl[ops[i].owner]
          BY <1>n, <1>o, <2>1, <3>1, <3>3, <4>2
        <5>2. OpSound(ops[i], impl')
          BY <1>0, <3>1, <5>1, UntouchedSound
        <5> QED BY <2>2, <3>3, <5>2
      <4> QED BY <4>1, <4>2
    <3> QED BY <3>2, <3>3
  <2> QED BY <1>t, <2>1, <2>2, <2>3 DEF CancelInv
<1>4. ASSUME NEW other \in Resolvers, move_assign(r, other) PROVE CancelInv'
  <2>1. /\ impl[r] # NoObject /\ impl[other] # NoObject /\ other # r
        /\ impl' = MoveToken(r, other) /\ ops' = Owned(Cancelled(r), other, r)
    BY <1>4 DEF move_assign
  <2>2. /\ DOMAIN ops' = DOMAIN ops
        /\ \A i \in DOMAIN ops :
              ops'[i] = IF ops[i].owner = other THEN [ops[i] EXCEPT !.owner = r]
                        ELSE IF ops[i].owner = r
                        THEN [ops[i] EXCEPT !.owner = Nobody, !.cancelled = Waiting(ops[i])]
                        ELSE ops[i]
    <3>1. r # other /\ ops' = Owned(Cancelled(r), other, r)
      BY <2>1
    <3> QED BY <3>1, CancelledAndOwnedOps, Zenon
  <2>3. ASSUME NEW i \in DOMAIN ops PROVE OpSound(ops'[i], impl')
    <3>1. /\ impl'[r] = impl[other]
          /\ \A s \in Resolvers \ {r, other} : impl'[s] = impl[s]
          /\ Lost(ops[i].token, impl) => Lost(ops[i].token, impl')
          /\ ops[i].owner = r /\ Waiting(ops[i]) => Lost(ops[i].token, impl')
      BY <1>s, <2>1
    <3>2. CASE ops[i].owner = other
      <4>1. ops[i].owner # Nobody /\ (Waiting(ops[i]) => impl'[r] = ops[i].token)
        BY <1>n, <1>o, <3>1, <3>2
      <4>2. OpSound([ops[i] EXCEPT !.owner = r], impl')
        BY <1>0, <4>1, MovedSound
      <4> QED BY <2>2, <3>2, <4>2
    <3>3. CASE ops[i].owner = r
      <4>1. ops[i].owner # Nobody /\ r # other
        BY <1>n, <2>1, <3>3
      <4>2. OpSound([ops[i] EXCEPT !.owner = Nobody, !.cancelled = Waiting(ops[i])], impl')
        BY <1>0, <3>1, <3>3, <4>1, CancelledSound
      <4> QED BY <2>2, <3>3, <4>1, <4>2
    <3>4. CASE ops[i].owner \notin {r, other}
      <4>1. ops[i].owner # Nobody => impl'[ops[i].owner] = impl[ops[i].owner]
        BY <1>o, <3>1, <3>4
      <4>2. OpSound(ops[i], impl')
        BY <1>0, <3>1, <4>1, UntouchedSound
      <4> QED BY <2>2, <3>4, <4>2
    <3> QED BY <3>2, <3>3, <3>4
  <2> QED BY <1>t, <2>1, <2>2, <2>3 DEF CancelInv
<1> QED BY <1>1, <1>2, <1>3, <1>4 DEF TokenCall

LEMMA CancelStep ==
  Setting /\ TypeOK /\ PlaceInv /\ CancelInv /\ [Next]_vars => CancelInv'
<1> SUFFICES ASSUME Setting, ImplType, OpsType, IoType, PlaceInv, CancelInv, [Next]_vars
             PROVE  CancelInv'
  BY DEF TypeOK
<1>0. /\ IndexInv /\ 0 \notin DOMAIN ops
      /\ \A i \in DOMAIN ops : ops[i] \in OperationType /\ OpSound(ops[i], impl)
  BY PlacesInDomain, OpInType DEF CancelInv
<1>1. ASSUME NEW r \in Resolvers, Program(r) PROVE CancelInv'
  <2>1. CASE TokenCall(r)
    BY <2>1, TokenCancelStep
  <2>2. CASE SyncCall(r)
    <3>1. PICK op \in OperationType : op.at = "done" /\ ~op.cancelled /\ ~op.passed /\ Adds(op)
      BY <2>2, SyncStep
    <3>2. OpSound(op, impl)
      BY <3>1 DEF OpSound, Waiting
    <3> QED BY <2>2, <3>1, <3>2, SyncStep, AppendSound
  <2>3. ASSUME NEW kind \in Kinds, Start(r, kind) PROVE CancelInv'
    <3>0. PICK op \in OperationType : Started(op, r, kind)
      BY <2>3, StartStep
    <3>1. /\ Adds(op) /\ op.owner = r /\ op.token = impl[r]
          /\ ~op.cancelled /\ op.async /\ op.null = (impl[r] = Null)
          /\ \/ op.at = "starting" /\ op.ec = ""
             \/ op.at = "main" /\ op.ec = "operation_not_supported"
      BY <3>0 DEF Started
    <3>2. OpSound(op, impl)
      BY <3>1 DEF OpSound, Waiting, WaitingSound, Setting
    <3> QED BY <2>3, <3>1, <3>2, StartStep, AppendSound
  <2> QED BY <1>1, <2>1, <2>2, <2>3, Calls
<1>2. ASSUME NEW i \in DOMAIN ops, PostToWorker(i) PROVE CancelInv'
  <2> DEFINE op == Moved(ops[i], "worker")
  <2>1. op \in OperationType /\ Set(i, op) /\ UNCHANGED impl
    <3>1. Set(i, op) /\ UNCHANGED impl
      BY <1>2 DEF PostToWorker, Moved
    <3> QED BY <3>1, OpInType, MovedOp
  <2>2. ops[i].at = "starting"
    BY <1>2 DEF PostToWorker
  <2>3. /\ op.at = "worker" /\ op.owner = ops[i].owner /\ op.cancelled = ops[i].cancelled
        /\ op.ec = ops[i].ec /\ op.null = ops[i].null /\ op.token = ops[i].token
        /\ op.async = ops[i].async
    BY <1>0 DEF Moved, OperationType
  <2>4. OpSound(op, impl)
    <3> HIDE DEF op
    <3> QED BY <1>0, <2>2, <2>3 DEF OpSound, Waiting, WaitingSound, Decided
  <2> QED BY <2>1, <2>4, SetSound
<1>3. CASE WorkerTakes
  <2> DEFINE i == Head(worker.queue)
             op == Moved(ops[i], Begin(i))
  <2>1. i \in At("worker")
    BY <1>3, ExactlyTail DEF PlaceInv, WorkerTakes
  <2>2. i \in DOMAIN ops /\ ops[i].at = "worker"
    BY <2>1 DEF At
  <2>3. op \in OperationType /\ Set(i, op) /\ UNCHANGED impl
    <3>1. Begin(i) \in {"aborted", "looking"}
      BY DEF Begin
    <3>2. Set(i, op) /\ UNCHANGED impl
      BY <1>3 DEF WorkerTakes, Moved
    <3> QED BY <2>2, <3>1, <3>2, OpInType, MovedOp
  <2>4. /\ op.at = Begin(i) /\ op.cancelled = ops[i].cancelled /\ op.owner = ops[i].owner
        /\ op.ec = ops[i].ec /\ op.null = ops[i].null
    BY <1>0, <2>2 DEF Moved, OperationType
  <2>5. WaitingSound(ops[i], impl) /\ (ops[i].cancelled => ops[i].owner = Nobody)
        /\ ops[i].owner \in Resolvers \cup {Nobody}
        /\ ops[i].null \in BOOLEAN /\ ops[i].cancelled \in BOOLEAN
    BY <1>0, <2>2 DEF OpSound, Waiting, OperationType
  <2> HIDE DEF op, i
  <2>6. Expired(ops[i].token) <=> Decided(ops[i])
    BY <2>5 DEF WaitingSound, Decided, Expired, Lost
  <2>7. CASE Decided(ops[i])
    <3>1. op.at = "aborted"
      BY <2>4, <2>6, <2>7 DEF Begin
    <3>2. OpSound(op, impl)
      BY <2>4, <2>5, <2>7, <3>1 DEF OpSound, Waiting, Decided
    <3> QED BY <2>2, <2>3, <3>2, SetSound
  <2>8. CASE ~Decided(ops[i])
    <3>1. op.at = "looking"
      BY <2>4, <2>6, <2>8 DEF Begin
    <3>2. OpSound(op, impl)
      BY <2>4, <2>5, <2>8, <3>1 DEF OpSound, Waiting, WaitingSound, Decided
    <3> QED BY <2>2, <2>3, <3>2, SetSound
  <2> QED BY <2>7, <2>8
<1>4. CASE LookupEnds
  <2> DEFINE i == worker.current
  <2>1. i \in DOMAIN ops
    BY <1>0, <1>4 DEF LookupEnds, IndexInv
  <2>2. PICK ec \in Errors :
          /\ PassBack(i, ec)
          /\ \/ ops[i].at = "aborted" /\ ec = "operation_aborted"
             \/ ops[i].at = "looking" /\ ec # "operation_aborted"
    BY <1>4 DEF LookupEnds, Answers, sync_getnameinfo, Errors
  <2> DEFINE op == Passed(ops[i], ec)
  <2>3. op \in OperationType
    BY <2>1, OpInType, PassedOp
  <2>4. Set(i, op) /\ UNCHANGED impl
    BY <2>2 DEF PassBack, Passed
  <2>5. /\ op.at = "main" /\ op.cancelled = ops[i].cancelled /\ op.owner = ops[i].owner
        /\ op.ec = ec /\ op.null = ops[i].null
    BY <1>0, <2>1 DEF Passed, OperationType
  <2> HIDE DEF op
  <2>6. OpSound(op, impl)
    BY <1>0, <2>1, <2>2, <2>5 DEF OpSound, Waiting, Decided
  <2> QED BY <2>1, <2>3, <2>4, <2>6, SetSound
<1>5. CASE Invoke
  <2> DEFINE i == Head(main.queue)
             op == Freed(ops[i], "done")
  <2>1. main.queue # <<>> /\ Set(i, op) /\ UNCHANGED impl
    BY <1>5 DEF Invoke
  <2>2. i \in DOMAIN ops
    BY <2>1, ExactlyTail DEF PlaceInv, At
  <2>3. op \in OperationType /\ op.at = "done"
    BY <2>2, OpInType, FreedOp
  <2>4. ~op.cancelled
    BY <1>0, <2>2 DEF Freed, OperationType
  <2> HIDE DEF op, i
  <2>5. OpSound(op, impl)
    BY <2>3, <2>4 DEF OpSound, Waiting
  <2> QED BY <2>1, <2>2, <2>3, <2>5, SetSound
<1>6. CASE WorkerEnds \/ RunMain \/ RunReturns \/ ForkStep \/ fork_prepare \/ base_shutdown
  <2>1. UNCHANGED <<ops, impl>>
    BY <1>6 DEF WorkerEnds, RunMain, RunReturns, ForkStep, ForkJoins, fork_done,
       fork_prepare, base_shutdown
  <2> QED BY <2>1 DEF CancelInv, TokensDistinct
<1>7. ASSUME NEW queue, ops' = Destroyed(queue), UNCHANGED impl PROVE CancelInv'
  <2>1. /\ DOMAIN ops' = DOMAIN ops
        /\ \A i \in DOMAIN ops :
              ops'[i] = IF i \in ToSet(queue) THEN Freed(ops[i], "destroyed") ELSE ops[i]
    BY <1>7, DestroyedOps
  <2>2. ASSUME NEW i \in DOMAIN ops PROVE OpSound(ops'[i], impl')
    <3> DEFINE op == Freed(ops[i], "destroyed")
    <3>1. op.at = "destroyed" /\ ~op.cancelled
      BY <1>0, FreedOp
    <3> HIDE DEF op
    <3>2. OpSound(op, impl')
      BY <3>1 DEF OpSound, Waiting
    <3> USE DEF op
    <3> QED BY <1>0, <1>7, <2>1, <3>2
  <2> QED BY <1>7, <2>1, <2>2 DEF CancelInv, TokensDistinct
<1>8. CASE ShutdownJoins \/ scheduler_shutdown
  BY <1>7, <1>8 DEF ShutdownJoins, scheduler_shutdown
<1>9. CASE UNCHANGED vars
  BY <1>9 DEF vars, CancelInv, TokensDistinct
<1> QED BY <1>1, <1>2, <1>3, <1>4, <1>5, <1>6, <1>8, <1>9
        DEF Next, Post, WorkerStep, MainStep, ShutdownStep

-----------------------------------------------------------------------------
(* The results. *)

IInv == TypeOK /\ PlaceInv /\ ThreadInv /\ WorkInv /\ CancelInv

LEMMA InductiveInit == Setting /\ Init => IInv
BY TypeInit, PlaceInit, ThreadInit, WorkInit, CancelInit DEF IInv

LEMMA InductiveStep == Setting /\ IInv /\ [Next]_vars => IInv'
<1> SUFFICES ASSUME Setting, TypeOK, PlaceInv, ThreadInv, MainWork, WorkerWork, CancelInv,
                    [Next]_vars
             PROVE  IInv'
  BY DEF IInv, WorkInv
<1>1. TypeOK'
  BY TypeStep, PlacesInDomain DEF TypeOK
<1>2. PlaceInv'
  BY PlaceStep
<1>3. ThreadInv'
  BY ThreadStep
<1>4. MainWork' /\ WorkerWork'
  BY MainWorkStep, WorkerWorkStep
<1>5. CancelInv'
  BY CancelStep
<1> QED BY <1>1, <1>2, <1>3, <1>4, <1>5 DEF IInv, WorkInv

LEMMA Inductive == Setting => (Spec => []IInv)
<1> SUFFICES ASSUME Setting PROVE Spec => []IInv
  OBVIOUS
<1>1. Init => IInv
  BY InductiveInit
<1>2. IInv /\ [Next]_vars => IInv'
  BY InductiveStep
<1> QED BY <1>1, <1>2, PTL DEF Spec

LEMMA InductiveSafe == IInv => WorkCoversLookups /\ CancelHonoured
<1> SUFFICES ASSUME IInv PROVE WorkCoversLookups /\ CancelHonoured
  OBVIOUS
<1>0. PlaceInv /\ ThreadInv /\ MainWork /\ WorkerWork /\ CancelInv
  BY DEF IInv, WorkInv
<1>1. worker.queue # <<>> /\ service = "alive" => worker.thread # "none"
  <2>1. worker.queue # <<>> => At("worker") # {}
    BY <1>0, ExactlyTail DEF PlaceInv
  <2> QED BY <1>0, <2>1 DEF ThreadInv
<1>2. WorkCoversLookups
  BY <1>0, <1>1 DEF WorkCoversLookups, MainWork, WorkerWork, Busy, Kept
<1>3. ASSUME NEW i \in DOMAIN ops, Begun(ops[i])
      PROVE  /\ ops[i].cancelled => Aborted(ops[i])
             /\ Aborted(ops[i]) => ops[i].cancelled \/ ops[i].null
  <2>1. OpSound(ops[i], impl)
    BY <1>0 DEF CancelInv
  <2>2. ops[i] \in OperationType
    BY OpInType DEF IInv, TypeOK
  <2> QED BY <1>3, <2>1, <2>2 DEF Begun, OpSound, Decided, Aborted, OperationType
<1> QED BY <1>2, <1>3 DEF CancelHonoured

(* The state of the resolver service has its type: the token reset() makes *)
(* is always one nobody has, and queues and the worker hold operations.    *)
THEOREM TypeCorrect == Setting => (Spec => []TypeOK)
<1>1. IInv => TypeOK
  BY DEF IInv
<1> QED BY <1>1, Inductive, PTL

(* The main io_context has work for every lookup that is outstanding and   *)
(* no other, and the worker for those in its queue, in progress, and for   *)
(* the service: run() of neither returns early, or stays.                  *)
THEOREM WorkCovers == Setting => (Spec => []WorkCoversLookups)
BY Inductive, InductiveSafe, PTL

(* A lookup ends with operation_aborted if its resolver cancelled, was     *)
(* destroyed or was assigned to before the worker began with it, also when *)
(* resolvers are moved meanwhile, and otherwise only if it was made with a *)
(* resolver that had been moved from.                                      *)
THEOREM CancellationHonoured == Setting => (Spec => []CancelHonoured)
BY Inductive, InductiveSafe, PTL

(* The handlers' executor has outstanding work for every lookup whose      *)
(* handler has not been handed to it, less one for every lookup of an      *)
(* endpoint that has come back from the worker, which ends it twice.       *)
THEOREM HandlerWork == Setting => (Spec => []HandlerWorkHeld)
<1> SUFFICES ASSUME Setting PROVE Spec => []HandlerWorkHeld
  OBVIOUS
<1>1. Init => IInv /\ HandlerInv
  BY InductiveInit, HandlerInit
<1>2. (IInv /\ HandlerInv) /\ [Next]_vars => (IInv /\ HandlerInv)'
  <2>1. IInv /\ HandlerInv /\ [Next]_vars => HandlerInv'
    BY HandlerStep DEF IInv
  <2> QED BY <2>1, InductiveStep
<1>3. IInv /\ HandlerInv => HandlerWorkHeld
  BY DEF HandlerInv, Held, HandlerWorkHeld
<1> QED BY <1>1, <1>2, <1>3, PTL DEF Spec
=============================================================================
