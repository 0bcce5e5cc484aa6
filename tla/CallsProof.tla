----------------------------- MODULE CallsProof -----------------------------
(***************************************************************************)
(* Proofs about what a thread calls and waits for, for any number of       *)
(* endpoints, streambufs, bytes, resolvers, lookups and ticks:             *)
(* run_one_until returns zero only when its time has come, connect()       *)
(* reports what it did, streambufs keep their bytes in order, and the      *)
(* resolver service keeps its promises.                                    *)
(***************************************************************************)
EXTENDS MCCalls, InductionFacts, SequenceTheorems

(* A step follows one part and leaves the others as they are.              *)
LEMMA Parted ==
  ASSUME [MCNext]_allVars
  PROVE  /\ part' = part
         /\ (part = "wait" /\ Waiting!Next) \/ UNCHANGED wait_vars
         /\ (part = "connect" /\ Connecting!Next) \/ UNCHANGED connect_vars
         /\ (part = "stream" /\ Streaming!Next) \/ UNCHANGED stream_vars
         /\ (part = "resolve" /\ Resolving!Next) \/ UNCHANGED resolve_vars
<1>1. CASE UNCHANGED allVars
  BY <1>1 DEF allVars
<1>2. CASE In("composed", Next) \/ In("walk", Walk!Next)
  BY <1>2 DEF In, Keep
<1>6. CASE In("stream", Streaming!Next)
  BY <1>6 DEF In, Keep
<1>3. CASE In("connect", Connecting!Next)
  BY <1>3 DEF In, Keep
<1>4. CASE In("resolve", Resolving!Next)
  BY <1>4 DEF In, Keep
<1>5. CASE In("wait", Waiting!Next)
  BY <1>5 DEF In, Keep
<1> QED BY <1>1, <1>2, <1>3, <1>4, <1>5, <1>6 DEF MCNext

-----------------------------------------------------------------------------
(* run_one_until. *)

(* What is left of a second is rounded to no more than was asked for.      *)
LEMMA DeadlineInTime ==
  ASSUME NEW t \in Nat, NEW u \in 1 .. Second
  PROVE  Waiting!Deadline(t, u) \in Nat /\ Waiting!Deadline(t, u) <= t + u
<1>0. Second \in Nat \ {0}
  BY TimesAssumption
<1> DEFINE q == t \div Second
<1>1. q \in Nat /\ q * Second \in Nat /\ q * Second <= t
  BY <1>0
<1>2. CASE u = Second
  <2>1. u \div Second = 1 /\ u % Second = 0 /\ 0 \div Second = 0 /\ 0 % Second = 0
    BY <1>0, <1>2
  <2>2. Waiting!Deadline(t, u) = (q + 1 + 0) * Second + 0
    BY <2>1 DEF Waiting!Deadline
  <2>3. (q + 1 + 0) * Second = q * Second + Second
    BY <1>0, <1>1
  <2> QED BY <1>0, <1>1, <1>2, <2>2, <2>3
<1>3. CASE u < Second
  <2>1. u \div Second = 0 /\ u % Second = u
    BY <1>0, <1>3
  <2>2. Waiting!Deadline(t, u) = (q + 0 + 0) * Second + u
    BY <2>1 DEF Waiting!Deadline
  <2>3. (q + 0 + 0) * Second = q * Second
    BY <1>0, <1>1
  <2> QED BY <1>0, <1>1, <1>3, <2>2, <2>3
<1> QED BY <1>0, <1>2, <1>3

WaitInv ==
  /\ clock \in Nat /\ abs_time \in Nat
  /\ phase \in {"asked", "blocked"} =>
       looked \in Nat /\ looked <= clock /\ usec \in 1 .. Second /\ usec <= abs_time - looked
  /\ phase = "blocked" => started \in Nat /\ ts <= abs_time + (started - looked)

LEMMA WaitInit == MCInit => WaitInv
BY TimesAssumption DEF MCInit, Waiting!Init, WaitInv

LEMMA WaitStep == WaitInv /\ [MCNext]_allVars => WaitInv'
<1> SUFFICES ASSUME WaitInv, [MCNext]_allVars PROVE WaitInv'
  OBVIOUS
<1>1. CASE UNCHANGED wait_vars
  BY <1>1 DEF wait_vars, WaitInv
<1>2. CASE Waiting!Next
  <2>1. ASSUME NEW a \in Waiting!Time, Waiting!run_one_until(a) PROVE WaitInv'
    BY <2>1, TimesAssumption DEF Waiting!run_one_until, Waiting!Time, WaitInv
  <2>2. CASE Waiting!Round
    <3>1. Waiting!RoundTime(abs_time - clock) \in 1 .. Second
            /\ Waiting!RoundTime(abs_time - clock) <= abs_time - clock
      BY <2>2, TimesAssumption DEF Waiting!Round, Waiting!RoundTime, WaitInv
    <3> QED BY <2>2, <3>1 DEF Waiting!Round, WaitInv
  <2>5. CASE Waiting!wait_one
    <3>1. CASE phase' # "blocked"
      BY <2>5, <3>1 DEF Waiting!wait_one, Waiting!Return, WaitInv
    <3>2. CASE phase' = "blocked"
      <4>1. /\ phase = "asked" /\ abs_time' = abs_time /\ clock' = clock
            /\ looked' = looked /\ usec' = usec /\ started' = clock
            /\ ts' = Waiting!Deadline(clock, usec)
        BY <2>5, <3>2 DEF Waiting!wait_one, Waiting!Return
      <4>2. ts' \in Nat /\ ts' <= clock + usec
        BY <4>1, DeadlineInTime DEF WaitInv
      <4> QED BY <4>1, <4>2, TimesAssumption DEF WaitInv
    <3> QED BY <3>1, <3>2
  <2>3. CASE Waiting!GiveUp \/ Waiting!Wake
    BY <2>3 DEF Waiting!GiveUp, Waiting!Wake, Waiting!Return, Waiting!NothingCame,
       Waiting!round, WaitInv
  <2>4. CASE Waiting!Post \/ Waiting!Stop \/ Waiting!Tick
    BY <2>4, TimesAssumption DEF Waiting!Post, Waiting!Stop, Waiting!Tick, Waiting!round, WaitInv
  <2> QED BY <1>2, <2>1, <2>2, <2>3, <2>4, <2>5 DEF Waiting!Next
<1> QED BY <1>1, <1>2, Parted

(* A call that returns zero was stopped, or its time has come. *)
LEMMA ZeroStep ==
  ASSUME [MCNext]_allVars
  PROVE  phase # "idle" /\ phase' = "idle" /\ returned' = 0 => stopped \/ clock >= abs_time
<1>1. CASE UNCHANGED wait_vars
  BY <1>1 DEF wait_vars
<1>2. CASE Waiting!Next
  BY <1>2 DEF Waiting!Next, Waiting!run_one_until, Waiting!Round, Waiting!wait_one,
     Waiting!GiveUp, Waiting!Wake, Waiting!Post, Waiting!Stop, Waiting!Tick, Waiting!Return, Waiting!NothingCame
<1> QED BY <1>1, <1>2, Parted

(* run_one_until returns zero only when its time has come or the loop was  *)
(* stopped, and no wait in it goes past that time by more than the clock   *)
(* advanced before it began, whatever the clock shows and whenever         *)
(* operations, stop() and wakeups come.                                    *)
THEOREM ZeroIsTimeUp == MCSpec => ZeroMeansTimeIsUp
<1>1. MCInit => WaitInv
  BY WaitInit
<1>2. WaitInv /\ [MCNext]_allVars => WaitInv'
  BY WaitStep
<1>3. WaitInv => Waiting!NeverSleepsPast
  BY DEF WaitInv, Waiting!NeverSleepsPast
<1>4. [MCNext]_allVars =>
        [phase # "idle" /\ phase' = "idle" /\ returned' = 0 =>
           stopped \/ clock >= abs_time]_Waiting!vars
  BY ZeroStep
<1> QED BY <1>1, <1>2, <1>3, <1>4, PTL DEF MCSpec, ZeroMeansTimeIsUp, Waiting!ZeroMeansTimeIsUp

-----------------------------------------------------------------------------
(* connect() and async_connect(). *)

LEMMA LeastMember ==
  ASSUME NEW S \in SUBSET Nat, S # {}
  PROVE  Connecting!Min(S) \in S /\ \A y \in S : Connecting!Min(S) <= y
<1> SUFFICES ASSUME \A x \in S : \E y \in S : ~(x <= y) PROVE FALSE
  BY DEF Connecting!Min
<1> DEFINE T == {n \in Nat : \A y \in S : n <= y}
<1>1. T \subseteq Nat /\ 0 \in T
  OBVIOUS
<1>2. ASSUME NEW n \in T PROVE n + 1 \in T
  <2>1. n \notin S
    OBVIOUS
  <2> QED BY <2>1
<1> HIDE DEF T
<1>3. T = Nat
  BY <1>1, <1>2, SetInduction
<1>4. PICK x \in S : TRUE
  OBVIOUS
<1>5. x + 1 \in T
  BY <1>3
<1> QED BY <1>4, <1>5 DEF T

ConnectErrors == {"ok", "not_found", "open_failed", "refused", "operation_aborted"}

CallType ==
  [how : {"none", "sync_range", "sync_iterator", "range", "iterator"},
   phase : {"idle", "running", "waiting", "posted", "done"},
   last : Nat, accepts : SUBSET Nat, iter : Nat, ec : ConnectErrors, result : Nat]

(* The object stands at an endpoint of the sequence, or at its end. *)
Stands(c) == c \in CallType /\ c.accepts \subseteq 1 .. c.last /\ c.iter \in 1 .. c.last + 1

(* The condition is asked about the endpoints in turn until it says yes.   *)
LEMMA ConditionFinds ==
  ASSUME NEW c, Stands(c)
  PROVE  LET d == Connecting!check_condition(c)
         IN  /\ Stands(d) /\ d.iter >= c.iter
             /\ d.how = c.how /\ d.phase = c.phase /\ d.last = c.last
             /\ d.accepts = c.accepts /\ d.ec = c.ec /\ d.result = c.result
             /\ d.iter # c.last + 1 => d.iter \in c.accepts
             /\ \A k \in c.accepts : k >= c.iter => k >= d.iter
<1> DEFINE found == {k \in c.iter .. c.last : k \in c.accepts}
           n == Connecting!call_connect_condition(c, c.iter)
           d == Connecting!check_condition(c)
<1>1. /\ c \in CallType /\ c.last \in Nat /\ c.iter \in Nat /\ c.accepts \subseteq 1 .. c.last
      /\ c.iter \in 1 .. c.last + 1
  BY DEF Stands, CallType
<1>2. /\ n \in c.iter .. c.last + 1
      /\ n # c.last + 1 => n \in c.accepts
      /\ \A k \in c.accepts : k >= c.iter => k >= n
  <2>1. CASE found = {}
    <3>1. n = c.last + 1
      BY <2>1 DEF Connecting!call_connect_condition
    <3>2. \A k \in c.accepts : ~(k >= c.iter)
      BY <1>1, <2>1
    <3> HIDE DEF n
    <3> QED BY <1>1, <3>1, <3>2
  <2>2. CASE found # {}
    <3>1. n = Connecting!Min(found)
      BY <2>2 DEF Connecting!call_connect_condition
    <3>2. found \in SUBSET Nat
      BY <1>1
    <3>3. n \in found /\ \A k \in found : n <= k
      BY <2>2, <3>1, <3>2, LeastMember
    <3> HIDE DEF n
    <3> QED BY <1>1, <3>3
  <2> QED BY <2>1, <2>2
<1>3. d = [c EXCEPT !.iter = n]
  BY DEF Connecting!check_condition
<1> HIDE DEF n, d
<1>4. /\ d \in CallType /\ d.iter = n
      /\ d.how = c.how /\ d.phase = c.phase /\ d.last = c.last
      /\ d.accepts = c.accepts /\ d.ec = c.ec /\ d.result = c.result
  BY <1>1, <1>2, <1>3 DEF CallType
<1>5. Stands(d) /\ d.iter >= c.iter
  BY <1>1, <1>2, <1>4 DEF Stands
<1> QED BY <1>2, <1>4, <1>5 DEF d

Sound(t) == t \in Seq(Nat \X ConnectErrors)

(* The endpoints tried are those before n that the condition accepts, in   *)
(* their order.                                                            *)
TriedTo(t, accepts, n) ==
  /\ \A i, j \in DOMAIN t : i < j => t[i][1] < t[j][1]
  /\ \A i \in DOMAIN t : t[i][1] \in accepts /\ t[i][1] < n
  /\ \A k \in accepts : k < n => \E i \in DOMAIN t : t[i][1] = k

LEMMA TriedNext ==
  ASSUME NEW t, NEW accepts \in SUBSET Nat, NEW n \in accepts, NEW e \in ConnectErrors,
         Sound(t), TriedTo(t, accepts, n)
  PROVE  LET u == Append(t, <<n, e>>)
         IN  /\ Sound(u) /\ TriedTo(u, accepts, n + 1) /\ u # <<>>
             /\ Connecting!Last(u) = <<n, e>>
<1> DEFINE u == Append(t, <<n, e>>)
           l == Len(t) + 1
<1>1. /\ u \in Seq(Nat \X ConnectErrors) /\ u # <<>> /\ Len(u) = l /\ u[l] = <<n, e>>
      /\ Len(t) \in Nat /\ DOMAIN t = 1 .. Len(t) /\ DOMAIN u = 1 .. l
      /\ \A i \in DOMAIN t : u[i] = t[i]
  <2>1. t \in Seq(Nat \X ConnectErrors) /\ <<n, e>> \in Nat \X ConnectErrors
    BY DEF Sound
  <2> QED BY <2>1
<1>2. \A i \in DOMAIN u : i \in DOMAIN t \/ i = l
  BY <1>1
<1>3. /\ DOMAIN t \subseteq DOMAIN u /\ l \in DOMAIN u
      /\ \A i \in DOMAIN u : ~(l < i)
      /\ \A i \in DOMAIN t : i \in Nat
  BY <1>1
<1> HIDE DEF u, l
<1>4. \A i \in DOMAIN t : t[i][1] \in Nat /\ t[i][1] < n /\ u[i][1] = t[i][1]
  BY <1>1 DEF TriedTo
<1>5. u[l][1] = n /\ n \in Nat
  BY <1>1
<1>6. ASSUME NEW i \in DOMAIN u, NEW j \in DOMAIN u, i < j PROVE u[i][1] < u[j][1]
  <2>1. i \in DOMAIN t
    BY <1>2, <1>3, <1>6
  <2>2. CASE j = l
    BY <1>4, <1>5, <2>1, <2>2
  <2>3. CASE j \in DOMAIN t
    BY <1>4, <1>6, <2>1, <2>3 DEF TriedTo
  <2> QED BY <1>2, <2>2, <2>3
<1>7. ASSUME NEW i \in DOMAIN u PROVE u[i][1] \in accepts /\ u[i][1] < n + 1
  <2>1. CASE i = l
    BY <1>5, <2>1
  <2>2. CASE i \in DOMAIN t
    BY <1>4, <1>5, <2>2 DEF TriedTo
  <2> QED BY <1>2, <2>1, <2>2
<1>8. ASSUME NEW k \in accepts, k < n + 1 PROVE \E i \in DOMAIN u : u[i][1] = k
  <2>1. CASE k = n
    BY <1>3, <1>5, <2>1
  <2>2. CASE k # n
    <3>1. k < n
      BY <1>8, <2>2
    <3>2. PICK i \in DOMAIN t : t[i][1] = k
      BY <3>1 DEF TriedTo
    <3> QED BY <1>3, <1>4, <3>2
  <2> QED BY <2>1, <2>2
<1>9. TriedTo(u, accepts, n + 1)
  BY <1>6, <1>7, <1>8 DEF TriedTo
<1>10. Connecting!Last(u) = <<n, e>>
  BY <1>1 DEF Connecting!Last
<1> QED BY <1>1, <1>9, <1>10 DEF Sound, u

(* Nothing that is accepted lies between. *)
LEMMA TriedOn ==
  ASSUME NEW t, NEW accepts \in SUBSET Nat, NEW n \in Nat, NEW m \in Nat, m >= n,
         TriedTo(t, accepts, n), \A k \in accepts : k >= n => k >= m,
         \A i \in DOMAIN t : t[i][1] \in Nat
  PROVE  TriedTo(t, accepts, m)
<1>1. ASSUME NEW i \in DOMAIN t PROVE t[i][1] < m
  <2>1. PICK x \in Nat : x = t[i][1] /\ x < n
    BY DEF TriedTo
  <2>2. x < m
    BY <2>1
  <2> QED BY <2>1, <2>2
<1>2. ASSUME NEW k \in accepts, k < m PROVE k < n
  <2>1. k \in Nat /\ (k >= n => k >= m)
    OBVIOUS
  <2>2. \A x \in Nat : x < m /\ (x >= n => x >= m) => x < n
    OBVIOUS
  <2> QED BY <1>2, <2>1, <2>2
<1> QED BY <1>1, <1>2 DEF TriedTo

(* The call at every stage: what has been tried, and with what result.     *)
RunningInv ==
  /\ TriedTo(tried, conn.accepts, conn.iter)
  /\ conn.ec = "ok" => tried = <<>>
  /\ conn.ec # "ok" => tried # <<>> /\ conn.ec = Connecting!Last(tried)[2]
  /\ conn.ec \in {"ok", "refused", "open_failed"}

Objects == {"range", "iterator"}

WaitingInv ==
  /\ conn.how \in Objects /\ open
  /\ conn.iter \in conn.accepts /\ TriedTo(tried, conn.accepts, conn.iter)

PostedInv ==
  /\ conn.how \in Objects
  /\ \/ conn.iter = conn.last + 1 /\ conn.ec = "not_found" /\ conn.accepts = {} /\ tried = <<>>
     \/ /\ conn.iter \in conn.accepts /\ TriedTo(tried, conn.accepts, conn.iter + 1)
        /\ tried # <<>> /\ conn.ec = Connecting!Last(tried)[2]
        /\ conn.ec = "ok" /\ open => peer = conn.iter
        /\ open \/ closed \/ Connecting!Last(tried)[2] = "open_failed"

DoneInv ==
  /\ Connecting!SuccessIsConnected /\ Connecting!FailureExplained
  /\ \E n \in Nat : TriedTo(tried, conn.accepts, n)
  /\ conn.ec # "ok" =>
       TriedTo(tried, conn.accepts, conn.last + 1) \/ Connecting!FoundClosed

ConnectInv ==
  /\ Stands(conn) /\ Sound(tried)
  /\ conn.phase = "idle" => tried = <<>>
  /\ conn.phase = "running" => RunningInv
  /\ conn.phase = "waiting" => WaitingInv
  /\ conn.phase = "posted" => PostedInv
  /\ conn.phase = "done" => DoneInv

LEMMA TriedNothing ==
  ASSUME NEW accepts, NEW last \in Nat, accepts \subseteq 1 .. last
  PROVE  TriedTo(<<>>, accepts, 1) /\ Sound(<<>>)
BY DEF TriedTo, Sound

LEMMA ConnectInit == MCInit => ConnectInv
BY TriedNothing DEF MCInit, Connecting!Init, Connecting!NoCall, ConnectInv, Stands, CallType,
   ConnectErrors

(* An object that stands at an endpoint begins to try it. *)
LEMMA AttemptStep ==
  ASSUME NEW d, Stands(d), d.iter \in d.accepts, Sound(tried),
         TriedTo(tried, d.accepts, d.iter), Connecting!Attempt(d), d.how \in Objects
  PROVE  ConnectInv'
<1>1. d \in CallType /\ d.accepts \in SUBSET Nat
  BY DEF Stands, CallType
<1>2. CASE /\ Connecting!OpenFails(d)
           /\ conn' = [d EXCEPT !.phase = "posted", !.ec = "open_failed"]
  <2>1. tried' = Append(tried, <<d.iter, "open_failed">>) /\ open' = FALSE
    BY <1>2 DEF Connecting!OpenFails
  <2>2. "open_failed" \in ConnectErrors
    BY DEF ConnectErrors
  <2>3. /\ Sound(tried') /\ TriedTo(tried', d.accepts, d.iter + 1) /\ tried' # <<>>
        /\ Connecting!Last(tried') = <<d.iter, "open_failed">>
    BY <1>1, <2>1, <2>2, TriedNext
  <2>4. /\ conn' \in CallType /\ conn'.phase = "posted" /\ conn'.ec = "open_failed"
        /\ conn'.iter = d.iter /\ conn'.accepts = d.accepts /\ conn'.last = d.last
        /\ conn'.how = d.how
    BY <1>1, <1>2, <2>2 DEF CallType
  <2>5. Stands(conn')
    BY <2>4 DEF Stands
  <2>6. PostedInv'
    BY <2>1, <2>3, <2>4 DEF PostedInv
  <2> QED BY <2>3, <2>4, <2>5, <2>6 DEF ConnectInv
<1>3. CASE open' /\ tried' = tried /\ conn' = [d EXCEPT !.phase = "waiting"]
  <2>1. /\ conn' \in CallType /\ conn'.phase = "waiting"
        /\ conn'.iter = d.iter /\ conn'.accepts = d.accepts /\ conn'.last = d.last
        /\ conn'.how = d.how
    BY <1>1, <1>3 DEF CallType
  <2>2. Stands(conn')
    BY <2>1 DEF Stands
  <2>3. WaitingInv'
    BY <1>3, <2>1 DEF WaitingInv
  <2> QED BY <1>3, <2>1, <2>2, <2>3 DEF ConnectInv
<1> QED BY <1>2, <1>3 DEF Connecting!Attempt, Connecting!Opened

(* The beginning of a call. *)
BegunWell(b, n, accepts) ==
  /\ Stands(b) /\ b.phase = "running" /\ b.iter = 1 /\ b.ec = "ok"
  /\ b.accepts = accepts /\ b.last = n

LEMMA BeginStands ==
  ASSUME NEW how, how \in {"sync_range", "sync_iterator", "range", "iterator"},
         NEW n, n \in Nat, NEW accepts, accepts \in SUBSET (1 .. n)
  PROVE  BegunWell(Connecting!Begin(how, n, accepts), n, accepts)
<1> DEFINE c == [how |-> how, phase |-> "running", last |-> n, accepts |-> accepts,
                 iter |-> 1, ec |-> "ok", result |-> 0]
<1>1. Connecting!Begin(how, n, accepts) = c
  BY DEF Connecting!Begin
<1>2. accepts \in SUBSET Nat
  OBVIOUS
<1>3. c \in CallType
  BY <1>2 DEF CallType, ConnectErrors
<1>4. /\ c.phase = "running" /\ c.iter = 1 /\ c.ec = "ok" /\ c.accepts = accepts
      /\ c.last = n
  OBVIOUS
<1>5. accepts \subseteq 1 .. n /\ 1 \in 1 .. n + 1
  OBVIOUS
<1> HIDE DEF c
<1>6. Stands(c)
  BY <1>3, <1>4, <1>5 DEF Stands
<1> QED BY <1>1, <1>4, <1>6 DEF BegunWell

LEMMA BeginSync ==
  ASSUME ConnectInv, NEW how \in {"sync_range", "sync_iterator"},
         NEW n \in Nat, NEW accepts \in SUBSET (1 .. n), Connecting!connect(how, n, accepts)
  PROVE  ConnectInv'
<1>1. tried' = <<>> /\ conn' = Connecting!Begin(how, n, accepts)
  BY DEF Connecting!connect, ConnectInv
<1>2. /\ Stands(conn') /\ conn'.phase = "running" /\ conn'.iter = 1 /\ conn'.ec = "ok"
      /\ conn'.accepts \subseteq 1 .. n
  <2>1. how \in {"sync_range", "sync_iterator", "range", "iterator"}
    OBVIOUS
  <2> DEFINE b == Connecting!Begin(how, n, accepts)
  <2>2. BegunWell(b, n, accepts)
    BY <2>1, BeginStands
  <2>3. Stands(b) /\ b.phase = "running" /\ b.iter = 1 /\ b.ec = "ok" /\ b.accepts = accepts
    BY <2>2 DEF BegunWell
  <2>4. conn' = b /\ accepts \subseteq 1 .. n
    BY <1>1
  <2> HIDE DEF b
  <2> QED BY <2>3, <2>4
<1>3. TriedTo(tried', conn'.accepts, 1) /\ Sound(tried')
  BY <1>1, <1>2, TriedNothing
<1>4. RunningInv'
  BY <1>1, <1>2, <1>3 DEF RunningInv
<1> QED BY <1>2, <1>3, <1>4 DEF ConnectInv

LEMMA BeginAsync ==
  ASSUME ConnectInv, NEW how \in {"range", "iterator"},
         NEW n \in Nat, NEW accepts \in SUBSET (1 .. n), Connecting!StartOp(how, n, accepts)
  PROVE  ConnectInv'
<1>0. BegunWell(Connecting!Begin(how, n, accepts), n, accepts)
  <2>1. how \in {"sync_range", "sync_iterator", "range", "iterator"}
    OBVIOUS
  <2> QED BY <2>1, BeginStands
<1> DEFINE b == Connecting!Begin(how, n, accepts)
           d == Connecting!check_condition(b)
<1>1. tried = <<>> /\ Connecting!StartConnectOp(d)
  BY DEF Connecting!StartOp, ConnectInv
<1> HIDE DEF d
<1>2. Stands(b) /\ b.iter = 1 /\ b.accepts = accepts /\ b.last = n /\ b.how = how
  BY <1>0 DEF BegunWell, Connecting!Begin
<1> USE DEF d
<1> HIDE DEF b
<1>3. /\ Stands(d) /\ d.accepts = accepts /\ d.last = n /\ d.how \in Objects
      /\ d.iter # n + 1 => d.iter \in accepts
      /\ \A k \in accepts : k >= 1 => k >= d.iter
  BY <1>2, ConditionFinds DEF Objects
<1> HIDE DEF d
<1>4. /\ d \in CallType /\ d.iter \in Nat /\ d.iter >= 1 /\ accepts \in SUBSET Nat
      /\ accepts \subseteq 1 .. n
  BY <1>3 DEF Stands, CallType
<1>5. TriedTo(<<>>, accepts, 1) /\ Sound(<<>>)
  BY <1>4, TriedNothing
<1>6. TriedTo(<<>>, accepts, d.iter)
  BY <1>3, <1>4, <1>5, TriedOn
<1>7. CASE Connecting!Attempt(d) /\ d.iter # d.last + 1
  BY <1>1, <1>3, <1>5, <1>6, <1>7, AttemptStep
<1>8. CASE /\ d.iter = d.last + 1 /\ tried' = tried
           /\ conn' = [d EXCEPT !.phase = "posted", !.ec = "not_found"]
  <2>1. accepts = {}
    BY <1>3, <1>4, <1>8
  <2>2. /\ conn' \in CallType /\ conn'.phase = "posted" /\ conn'.ec = "not_found"
        /\ conn'.iter = d.iter /\ conn'.accepts = accepts /\ conn'.last = d.last
        /\ conn'.how = d.how
    BY <1>3, <1>4, <1>8 DEF CallType, ConnectErrors
  <2>3. Stands(conn')
    BY <1>3, <2>2 DEF Stands
  <2>4. PostedInv'
    BY <1>1, <1>3, <1>8, <2>1, <2>2 DEF PostedInv
  <2> QED BY <1>1, <1>5, <1>8, <2>2, <2>3, <2>4 DEF ConnectInv
<1> QED BY <1>1, <1>7, <1>8 DEF Connecting!StartConnectOp

(* What the steps of the call do to the object, field by field. *)
LEMMA DoneFields ==
  ASSUME NEW c, Stands(c), NEW e \in ConnectErrors, NEW r \in Nat
  PROVE  LET d == Connecting!Done(c, e, r)
         IN  /\ Stands(d) /\ d.phase = "done" /\ d.ec = e /\ d.result = r
             /\ d.accepts = c.accepts /\ d.last = c.last /\ d.how = c.how /\ d.iter = c.iter
<1> DEFINE d == Connecting!Done(c, e, r)
<1>1. c \in CallType
  BY DEF Stands
<1>2. /\ d \in CallType /\ d.phase = "done" /\ d.ec = e /\ d.result = r
      /\ d.accepts = c.accepts /\ d.last = c.last /\ d.how = c.how /\ d.iter = c.iter
  BY <1>1 DEF CallType, Connecting!Done
<1> HIDE DEF d
<1>3. Stands(d)
  BY <1>2 DEF Stands
<1> QED BY <1>2, <1>3 DEF d

PostedWith(c, e) == [c EXCEPT !.phase = "posted", !.ec = e]
MovedOn(c, e, n) == [c EXCEPT !.ec = e, !.iter = n]

LEMMA PostedFields ==
  ASSUME NEW c, Stands(c), NEW e \in ConnectErrors
  PROVE  LET d == PostedWith(c, e)
         IN  /\ Stands(d) /\ d.phase = "posted" /\ d.ec = e /\ d.how = c.how
             /\ d.accepts = c.accepts /\ d.last = c.last /\ d.iter = c.iter
<1> DEFINE d == PostedWith(c, e)
<1>1. c \in CallType
  BY DEF Stands
<1>2. /\ d \in CallType /\ d.phase = "posted" /\ d.ec = e /\ d.how = c.how
      /\ d.accepts = c.accepts /\ d.last = c.last /\ d.iter = c.iter
  BY <1>1 DEF CallType, PostedWith
<1> HIDE DEF d
<1>3. Stands(d)
  BY <1>2 DEF Stands
<1> QED BY <1>2, <1>3 DEF d

LEMMA MovedFields ==
  ASSUME NEW c, Stands(c), NEW e \in ConnectErrors, NEW n \in 1 .. c.last + 1
  PROVE  LET d == MovedOn(c, e, n)
         IN  /\ Stands(d) /\ d.phase = c.phase /\ d.ec = e /\ d.how = c.how
             /\ d.accepts = c.accepts /\ d.last = c.last /\ d.iter = n
<1> DEFINE d == MovedOn(c, e, n)
<1>1. c \in CallType /\ n \in Nat
  BY DEF Stands, CallType
<1>2. /\ d \in CallType /\ d.phase = c.phase /\ d.ec = e /\ d.how = c.how
      /\ d.accepts = c.accepts /\ d.last = c.last /\ d.iter = n
  BY <1>1 DEF CallType, MovedOn
<1> HIDE DEF d
<1>3. Stands(d)
  BY <1>2 DEF Stands
<1> QED BY <1>2, <1>3 DEF d

LEMMA SoundTried ==
  ASSUME NEW t, Sound(t)
  PROVE  \A i \in DOMAIN t : t[i][1] \in Nat
BY DEF Sound

(* Once the condition has been asked, the endpoints before the place found *)
(* are still the ones that were tried.                                     *)
LEMMA AskedOn ==
  ASSUME NEW c, Stands(c), NEW t, Sound(t), TriedTo(t, c.accepts, c.iter)
  PROVE  TriedTo(t, c.accepts, Connecting!check_condition(c).iter)
<1> DEFINE d == Connecting!check_condition(c)
<1>1. /\ Stands(d) /\ d.iter >= c.iter /\ d.accepts = c.accepts
      /\ \A k \in c.accepts : k >= c.iter => k >= d.iter
  BY ConditionFinds
<1> HIDE DEF d
<1>2. c.accepts \in SUBSET Nat /\ c.iter \in Nat /\ d.iter \in Nat
  BY <1>1 DEF Stands, CallType
<1>3. \A i \in DOMAIN t : t[i][1] \in Nat
  BY SoundTried
<1>4. TriedTo(t, c.accepts, d.iter)
  BY <1>1, <1>2, <1>3, TriedOn
<1> QED BY <1>4 DEF d

(* A call that ends with the truth: Stopped is FoundClosed, for the error  *)
(* it is about to report, and Nowhere the result that comes with an error. *)
Stopped(e) ==
  /\ e = "operation_aborted" /\ ~open
  /\ closed \/ (tried # <<>> /\ Connecting!Last(tried)[2] = "open_failed")

Nowhere(c) == IF c.how \in {"range", "sync_range"} THEN 0 ELSE c.last + 1

LEMMA EndedTruly ==
  ASSUME NEW c, Stands(c), NEW e \in ConnectErrors, NEW r \in Nat,
         conn' = Connecting!Done(c, e, r), Sound(tried'),
         NEW n \in Nat, TriedTo(tried', c.accepts, n),
         e = "ok" => open' /\ peer' = r /\ r \in c.accepts,
         e # "ok" => /\ \/ e = "not_found" /\ c.accepts = {}
                        \/ tried' # <<>> /\ e = Connecting!Last(tried')[2]
                        \/ Stopped(e)'
                     /\ r = Nowhere(c) \/ (Stopped(e)' /\ c.how = "iterator")
                     /\ TriedTo(tried', c.accepts, c.last + 1) \/ Stopped(e)'
  PROVE  ConnectInv'
<1>1. /\ Stands(conn') /\ conn'.phase = "done" /\ conn'.ec = e /\ conn'.result = r
      /\ conn'.accepts = c.accepts /\ conn'.last = c.last /\ conn'.how = c.how
  BY DoneFields
<1>2. Connecting!SuccessIsConnected'
  BY <1>1 DEF Connecting!SuccessIsConnected
<1>3. Stopped(e)' => Connecting!FoundClosed'
  BY <1>1 DEF Stopped, Connecting!FoundClosed
<1>4. Connecting!FailureExplained'
  BY <1>1, <1>3 DEF Connecting!FailureExplained, Connecting!End, Nowhere
<1>5. DoneInv'
  BY <1>1, <1>2, <1>3, <1>4 DEF DoneInv
<1> QED BY <1>1, <1>5 DEF ConnectInv

LEMMA NothingAccepted ==
  ASSUME NEW c, Stands(c), TriedTo(<<>>, c.accepts, c.last + 1)
  PROVE  c.accepts = {}
<1>1. \A k \in c.accepts : k < c.last + 1
  BY DEF Stands, CallType
<1>2. \A k \in c.accepts : \E i \in DOMAIN <<>> : TRUE
  BY <1>1 DEF TriedTo
<1>3. DOMAIN <<>> = {}
  OBVIOUS
<1> QED BY <1>2, <1>3

(* A round of the loop of the blocking call. *)
LEMMA RoundStep == ConnectInv /\ Connecting!ConnectRound => ConnectInv'
<1> SUFFICES ASSUME ConnectInv, Connecting!ConnectRound PROVE ConnectInv'
  OBVIOUS
<1> DEFINE c == Connecting!check_condition(conn)
<1>1. Stands(conn) /\ Sound(tried) /\ conn.phase = "running" /\ RunningInv
  BY DEF ConnectInv, Connecting!ConnectRound
<1>2. /\ Stands(c) /\ c.last = conn.last /\ c.accepts = conn.accepts /\ c.ec = conn.ec
      /\ c.phase = "running" /\ c.how = conn.how
      /\ c.iter # conn.last + 1 => c.iter \in conn.accepts
  BY <1>1, ConditionFinds
<1>3. TriedTo(tried, c.accepts, c.iter)
  BY <1>1, <1>2, AskedOn DEF RunningInv
<1>4. \/ /\ c.iter = c.last + 1
         /\ conn' = Connecting!Done(c, IF c.ec = "ok" THEN "not_found" ELSE c.ec,
                                    Connecting!deref_connect_result(c))
         /\ UNCHANGED <<open, peer, tried>>
      \/ /\ c.iter # c.last + 1 /\ Connecting!Connected(c)
         /\ conn' = Connecting!Done(c, "ok", c.iter)
      \/ /\ c.iter # c.last + 1 /\ Connecting!Refused(c)
         /\ conn' = [c EXCEPT !.ec = "refused", !.iter = @ + 1]
      \/ /\ c.iter # c.last + 1 /\ Connecting!OpenFails(c)
         /\ conn' = [c EXCEPT !.ec = "open_failed", !.iter = @ + 1]
  BY <1>2 DEF Connecting!ConnectRound, Connecting!End
<1> HIDE DEF c
<1>5. /\ c \in CallType /\ c.iter \in Nat /\ c.last \in Nat /\ c.accepts \in SUBSET Nat
      /\ c.ec \in ConnectErrors
  BY <1>2 DEF Stands, CallType
<1>6. CASE /\ c.iter = c.last + 1
           /\ conn' = Connecting!Done(c, IF c.ec = "ok" THEN "not_found" ELSE c.ec,
                                      Connecting!deref_connect_result(c))
           /\ UNCHANGED <<open, peer, tried>>
  <2>1. /\ Connecting!deref_connect_result(c) \in Nat
        /\ Connecting!deref_connect_result(c) = Nowhere(c)
    BY <1>2, <1>5 DEF Connecting!deref_connect_result, Connecting!ConnectRound, Nowhere
  <2>2. Sound(tried') /\ TriedTo(tried', c.accepts, c.last + 1) /\ c.last + 1 \in Nat
    BY <1>1, <1>3, <1>5, <1>6
  <2>3. CASE c.ec = "ok"
    <3>1. tried' = <<>>
      BY <1>1, <1>2, <1>6, <2>3 DEF RunningInv
    <3>2. c.accepts = {}
      BY <1>2, <2>2, <3>1, NothingAccepted
    <3>3. conn' = Connecting!Done(c, "not_found", Connecting!deref_connect_result(c))
      BY <1>6, <2>3
    <3>4. "not_found" \in ConnectErrors
      BY DEF ConnectErrors
    <3> QED BY <1>2, <2>1, <2>2, <3>2, <3>3, <3>4, EndedTruly
  <2>4. CASE c.ec # "ok"
    <3>1. tried' # <<>> /\ c.ec = Connecting!Last(tried')[2]
      BY <1>1, <1>2, <1>6, <2>4 DEF RunningInv
    <3>2. conn' = Connecting!Done(c, c.ec, Connecting!deref_connect_result(c))
      BY <1>6, <2>4
    <3>3. PICK e \in ConnectErrors : e = c.ec
      BY <1>5
    <3>4. /\ conn' = Connecting!Done(c, e, Connecting!deref_connect_result(c))
          /\ e # "ok" /\ tried' # <<>> /\ e = Connecting!Last(tried')[2]
      BY <2>4, <3>1, <3>2, <3>3
    <3> QED BY <1>2, <2>1, <2>2, <3>4, EndedTruly
  <2> QED BY <2>3, <2>4
<1>7. CASE /\ c.iter # c.last + 1 /\ Connecting!Connected(c)
           /\ conn' = Connecting!Done(c, "ok", c.iter)
  <2>1. open' /\ peer' = c.iter /\ tried' = Append(tried, <<c.iter, "ok">>)
    BY <1>7 DEF Connecting!Connected
  <2>2. "ok" \in ConnectErrors /\ c.iter \in c.accepts
    BY <1>2, <1>7 DEF ConnectErrors
  <2>3. PICK e \in ConnectErrors : e = "ok"
    BY <2>2
  <2>4. Sound(tried') /\ TriedTo(tried', c.accepts, c.iter + 1)
    <3>1. tried' = Append(tried, <<c.iter, e>>)
      BY <2>1, <2>3
    <3> QED BY <1>1, <1>3, <1>5, <2>2, <3>1, TriedNext
  <2>5. c.iter + 1 \in Nat /\ conn' = Connecting!Done(c, e, c.iter)
    BY <1>5, <1>7, <2>3
  <2> QED BY <1>2, <1>5, <2>1, <2>2, <2>3, <2>4, <2>5, EndedTruly
<1>8. ASSUME NEW e \in {"refused", "open_failed"}, c.iter # c.last + 1,
             tried' = Append(tried, <<c.iter, e>>),
             conn' = [c EXCEPT !.ec = e, !.iter = c.iter + 1]
      PROVE  ConnectInv'
  <2>1. e \in ConnectErrors /\ c.iter \in c.accepts
    BY <1>2, <1>8 DEF ConnectErrors
  <2>2. /\ Stands(conn') /\ conn'.phase = "running" /\ conn'.ec = e
        /\ conn'.accepts = c.accepts /\ conn'.iter = c.iter + 1
    <3>1. conn' = MovedOn(c, e, c.iter + 1)
      BY <1>8 DEF MovedOn
    <3>2. c.iter + 1 \in 1 .. c.last + 1
      BY <1>2, <1>5, <1>8 DEF Stands
    <3> QED BY <1>2, <2>1, <3>1, <3>2, MovedFields
  <2>3. /\ Sound(tried') /\ TriedTo(tried', c.accepts, c.iter + 1) /\ tried' # <<>>
        /\ Connecting!Last(tried') = <<c.iter, e>>
    BY <1>1, <1>3, <1>5, <1>8, <2>1, TriedNext
  <2>4. RunningInv'
    BY <2>2, <2>3 DEF RunningInv
  <2> QED BY <2>2, <2>3, <2>4 DEF ConnectInv
<1> QED BY <1>4, <1>6, <1>7, <1>8 DEF Connecting!Refused, Connecting!OpenFails

(* A waiting attempt ends with an error, or with the connection. *)
LEMMA AttemptOver ==
  ASSUME ConnectInv, conn.phase = "waiting", NEW e \in ConnectErrors,
         conn' = [conn EXCEPT !.phase = "posted", !.ec = e],
         tried' = Append(tried, <<conn.iter, e>>), e = "ok" => peer' = conn.iter,
         open' \/ closed'
  PROVE  ConnectInv'
<1>1. Stands(conn) /\ Sound(tried) /\ WaitingInv
  BY DEF ConnectInv
<1>2. /\ Stands(conn') /\ conn'.phase = "posted" /\ conn'.ec = e
      /\ conn'.accepts = conn.accepts /\ conn'.last = conn.last /\ conn'.iter = conn.iter
      /\ conn'.how = conn.how
  <2>1. conn' = PostedWith(conn, e)
    BY DEF PostedWith
  <2> QED BY <1>1, <2>1, PostedFields
<1>3. conn.accepts \in SUBSET Nat
  BY <1>1 DEF Stands, CallType
<1>4. /\ Sound(tried') /\ TriedTo(tried', conn.accepts, conn.iter + 1) /\ tried' # <<>>
      /\ Connecting!Last(tried') = <<conn.iter, e>>
  BY <1>1, <1>3, TriedNext DEF WaitingInv
<1>5. PostedInv'
  BY <1>1, <1>2, <1>4 DEF PostedInv, WaitingInv
<1> QED BY <1>2, <1>4, <1>5 DEF ConnectInv

LEMMA KernelStep == ConnectInv /\ Connecting!AttemptEnds => ConnectInv'
BY AttemptOver DEF Connecting!AttemptEnds, Connecting!Connected, Connecting!Refused, ConnectErrors

LEMMA CancelStep == ConnectInv /\ Connecting!cancel => ConnectInv'
BY AttemptOver DEF Connecting!cancel, ConnectErrors, ConnectInv, WaitingInv

LEMMA CloseStep == ConnectInv /\ Connecting!close => ConnectInv'
<1> SUFFICES ASSUME ConnectInv, Connecting!close PROVE ConnectInv'
  OBVIOUS
<1>1. CASE conn.phase = "waiting"
  BY <1>1, AttemptOver DEF Connecting!close, ConnectErrors
<1>2. CASE conn.phase = "posted" /\ UNCHANGED <<conn, tried>>
  <2>1. PostedInv /\ ~open' /\ closed'
    BY <1>2 DEF ConnectInv, Connecting!close
  <2>2. PostedInv'
    BY <1>2, <2>1 DEF PostedInv
  <2> QED BY <1>2, <2>2 DEF ConnectInv
<1> QED BY <1>1, <1>2 DEF Connecting!close

LEMMA DoneAgain ==
  ASSUME NEW c, Stands(c), NEW e \in ConnectErrors, NEW r \in Nat
  PROVE  [Connecting!Done(c, e, r) EXCEPT !.result = 0] = Connecting!Done(c, e, 0)
<1>1. c \in CallType
  BY DEF Stands
<1> QED BY <1>1 DEF CallType, Connecting!Done

(* What an operation object makes of the end of its attempt. *)
Invoked ==
  IF conn.how = "range" THEN Connecting!range_connect_op(conn)
  ELSE Connecting!iterator_connect_op(conn)

(* ... when it is done: the result is a default one after an error. *)
LEMMA InvokedDone ==
  ASSUME Stands(conn), NEW e \in ConnectErrors,
         Connecting!connect_op(conn, open) = Connecting!Done(conn, e, conn.iter)
  PROVE  /\ Invoked.phase = "done"
         /\ \E r \in Nat : /\ Invoked = Connecting!Done(conn, e, r)
                           /\ r = IF conn.how = "range" /\ e # "ok" THEN 0 ELSE conn.iter
<1> DEFINE d == Connecting!Done(conn, e, conn.iter)
<1>1. conn.iter \in Nat
  BY DEF Stands, CallType
<1>2. d.phase = "done" /\ d.ec = e
  BY <1>1, DoneFields
<1>3. Connecting!Done(conn, e, 0).phase = "done"
  BY DoneFields
<1>4. [d EXCEPT !.result = 0] = Connecting!Done(conn, e, 0)
  BY <1>1, DoneAgain
<1> HIDE DEF d
<1>5. Connecting!connect_op(conn, open) = d
  BY DEF d
<1>6. CASE conn.how = "range" /\ e # "ok"
  <2>1. Invoked = [d EXCEPT !.result = 0]
    BY <1>2, <1>5, <1>6 DEF Invoked, Connecting!range_connect_op
  <2>2. Invoked = Connecting!Done(conn, e, 0) /\ Invoked.phase = "done"
    BY <1>3, <1>4, <2>1
  <2> QED BY <1>6, <2>2
<1>7. CASE ~(conn.how = "range" /\ e # "ok")
  <2>1. Invoked = d
    BY <1>2, <1>5, <1>7 DEF Invoked, Connecting!range_connect_op, Connecting!iterator_connect_op
  <2>2. Invoked = Connecting!Done(conn, e, conn.iter) /\ Invoked.phase = "done"
    BY <1>2, <2>1 DEF d
  <2> QED BY <1>1, <1>7, <2>2
<1> QED BY <1>6, <1>7

(* ... and when it goes on to the next endpoint. *)
LEMMA InvokedOn ==
  ASSUME Stands(conn), conn.phase = "posted", conn.iter # conn.last + 1, open, conn.ec # "ok"
  PROVE  Invoked = Connecting!check_condition(MovedOn(conn, conn.ec, conn.iter + 1))
<1> DEFINE m == MovedOn(conn, conn.ec, conn.iter + 1)
           d == Connecting!check_condition(m)
<1>1. /\ conn \in CallType /\ conn.ec \in ConnectErrors
      /\ conn.iter + 1 \in 1 .. conn.last + 1 /\ conn.iter + 1 \in Nat
  BY DEF Stands, CallType
<1>2. Stands(m) /\ m.phase = "posted"
  BY <1>1, MovedFields
<1>3. m = [conn EXCEPT !.iter = @ + 1]
  BY <1>1 DEF CallType, MovedOn
<1> HIDE DEF m
<1>4. d.phase = "posted"
  BY <1>2, ConditionFinds
<1>5. Connecting!connect_op(conn, open) = d
  BY <1>3 DEF Connecting!connect_op
<1> HIDE DEF d
<1>6. Invoked = d
  BY <1>4, <1>5 DEF Invoked, Connecting!range_connect_op, Connecting!iterator_connect_op
<1> QED BY <1>6 DEF d, m

(* The scheduler invokes the object that is queued. *)
LEMMA InvokeStep == ConnectInv /\ Connecting!Invoke => ConnectInv'
<1> SUFFICES ASSUME ConnectInv, Connecting!Invoke PROVE ConnectInv'
  OBVIOUS
<1>1. /\ Stands(conn) /\ Sound(tried) /\ conn.phase = "posted" /\ PostedInv
      /\ conn.how \in Objects /\ closed' = closed
  BY DEF ConnectInv, Connecting!Invoke, PostedInv
<1>2. \/ /\ Invoked.phase = "done" /\ conn' = Invoked
         /\ UNCHANGED <<open, peer, tried>>
      \/ /\ Invoked.phase # "done" /\ Invoked.iter = conn.last + 1
         /\ conn' = Connecting!Done(Invoked, Invoked.ec,
                                    IF Invoked.how = "range" THEN 0 ELSE conn.last + 1)
         /\ UNCHANGED <<open, peer, tried>>
      \/ /\ Invoked.phase # "done" /\ Invoked.iter # conn.last + 1
         /\ Connecting!Attempt(Invoked)
  BY DEF Connecting!Invoke, Invoked, Connecting!End
<1>3. /\ conn \in CallType /\ conn.iter \in Nat /\ conn.last \in Nat
      /\ conn.accepts \in SUBSET Nat /\ conn.ec \in ConnectErrors
      /\ conn.accepts \subseteq 1 .. conn.last /\ conn.iter \in 1 .. conn.last + 1
  BY <1>1 DEF Stands, CallType
<1>4. CASE conn.iter = conn.last + 1
  <2>1. /\ conn.ec = "not_found" /\ conn.accepts = {} /\ tried = <<>>
        /\ "not_found" \in ConnectErrors
    BY <1>1, <1>3, <1>4 DEF PostedInv, ConnectErrors
  <2>2. Connecting!connect_op(conn, open) = Connecting!Done(conn, conn.ec, conn.iter)
    BY <1>4 DEF Connecting!connect_op
  <2>3. PICK r \in Nat : /\ Invoked = Connecting!Done(conn, conn.ec, r) /\ Invoked.phase = "done"
                         /\ r = IF conn.how = "range" THEN 0 ELSE conn.iter
    BY <1>1, <1>3, <2>1, <2>2, InvokedDone
  <2>7. r = Nowhere(conn)
    BY <1>1, <1>4, <2>3 DEF Nowhere, Objects
  <2>4. conn' = Connecting!Done(conn, conn.ec, r) /\ tried' = tried
    BY <1>2, <2>3
  <2>5. TriedTo(tried', conn.accepts, conn.last + 1) /\ conn.last + 1 \in Nat
    BY <1>3, <2>1, <2>4 DEF TriedTo
  <2>6. PICK e \in ConnectErrors : e = "not_found" /\ e = conn.ec
    BY <2>1
  <2> QED BY <1>1, <2>1, <2>4, <2>5, <2>6, <2>7, EndedTruly
<1>5. CASE conn.iter # conn.last + 1
  <2>1. /\ conn.iter \in conn.accepts /\ TriedTo(tried, conn.accepts, conn.iter + 1)
        /\ tried # <<>> /\ conn.ec = Connecting!Last(tried)[2]
        /\ conn.ec = "ok" /\ open => peer = conn.iter
        /\ open \/ closed \/ Connecting!Last(tried)[2] = "open_failed"
    BY <1>1, <1>5 DEF PostedInv
  <2>2. conn.iter + 1 \in Nat
    BY <1>3
  <2>3. CASE ~open
    <3>1. PICK e \in ConnectErrors : e = "operation_aborted"
      BY DEF ConnectErrors
    <3>2. Connecting!connect_op(conn, open) = Connecting!Done(conn, e, conn.iter)
      BY <1>5, <2>3, <3>1 DEF Connecting!connect_op
    <3>3. PICK r \in Nat : /\ Invoked = Connecting!Done(conn, e, r) /\ Invoked.phase = "done"
                           /\ r = IF conn.how = "range" THEN 0 ELSE conn.iter
      BY <1>1, <3>1, <3>2, InvokedDone
    <3>4. conn' = Connecting!Done(conn, e, r) /\ tried' = tried /\ open' = open
      BY <1>2, <3>3
    <3>5. Stopped(e)' /\ (r = Nowhere(conn) \/ conn.how = "iterator")
      BY <1>1, <2>1, <2>3, <3>1, <3>3, <3>4 DEF Stopped, Nowhere, Objects
    <3> QED BY <1>1, <2>1, <2>2, <2>3, <3>1, <3>4, <3>5, EndedTruly
  <2>4. CASE open /\ conn.ec = "ok"
    <3>1. PICK e \in ConnectErrors : e = "ok"
      BY DEF ConnectErrors
    <3>2. Connecting!connect_op(conn, open) = Connecting!Done(conn, e, conn.iter)
      BY <1>5, <2>4, <3>1 DEF Connecting!connect_op
    <3>3. PICK r \in Nat : /\ Invoked = Connecting!Done(conn, e, r) /\ Invoked.phase = "done"
                           /\ r = conn.iter
      BY <1>1, <3>1, <3>2, InvokedDone
    <3>4. conn' = Connecting!Done(conn, e, r) /\ tried' = tried /\ open' = open /\ peer' = peer
      BY <1>2, <3>3
    <3> QED BY <1>1, <2>1, <2>2, <2>4, <3>1, <3>3, <3>4, EndedTruly
  <2>5. CASE open /\ conn.ec # "ok"
    <3> DEFINE m == MovedOn(conn, conn.ec, conn.iter + 1)
               d == Connecting!check_condition(m)
    <3>1. Invoked = d
      BY <1>1, <1>5, <2>5, InvokedOn
    <3>2. conn.iter + 1 \in 1 .. conn.last + 1
      BY <1>3, <1>5
    <3>3. /\ Stands(m) /\ m.phase = "posted" /\ m.ec = conn.ec /\ m.iter = conn.iter + 1
          /\ m.accepts = conn.accepts /\ m.last = conn.last /\ m.how = conn.how
      BY <1>1, <1>3, <3>2, MovedFields
    <3> HIDE DEF m
    <3>4. /\ Stands(d) /\ d.phase = "posted" /\ d.last = conn.last /\ d.ec = conn.ec
          /\ d.accepts = conn.accepts /\ d.how = conn.how
          /\ d.iter # d.last + 1 => d.iter \in d.accepts
      BY <3>3, ConditionFinds
    <3>5. TriedTo(tried, m.accepts, d.iter)
      BY <1>1, <2>1, <3>3, AskedOn
    <3> HIDE DEF d
    <3>6. CASE d.iter = conn.last + 1
      <4>1. PICK r \in Nat : conn' = Connecting!Done(d, d.ec, r) /\ tried' = tried
                             /\ r = IF d.how = "range" THEN 0 ELSE conn.last + 1
        BY <1>2, <1>3, <3>1, <3>4, <3>6
      <4>4. r = Nowhere(d)
        BY <1>1, <3>4, <4>1 DEF Nowhere, Objects
      <4>2. PICK e \in ConnectErrors : e = conn.ec
        BY <1>3
      <4>3. /\ conn' = Connecting!Done(d, e, r) /\ Sound(tried')
            /\ TriedTo(tried', d.accepts, d.last + 1) /\ d.last + 1 \in Nat
            /\ e # "ok" /\ tried' # <<>> /\ e = Connecting!Last(tried')[2]
        BY <1>1, <1>3, <2>1, <2>5, <3>3, <3>4, <3>5, <3>6, <4>1, <4>2
      <4> QED BY <3>4, <4>3, <4>4, EndedTruly
    <3>7. CASE d.iter # conn.last + 1
      <4>1. Connecting!Attempt(d)
        BY <1>2, <3>1, <3>4, <3>7
      <4> QED BY <1>1, <3>3, <3>4, <3>5, <3>7, <4>1, AttemptStep
    <3> QED BY <3>6, <3>7
  <2> QED BY <2>3, <2>4, <2>5
<1> QED BY <1>4, <1>5

LEMMA ConnectStep == ConnectInv /\ [MCNext]_allVars => ConnectInv'
<1> SUFFICES ASSUME ConnectInv, [MCNext]_allVars PROVE ConnectInv'
  OBVIOUS
<1>1. CASE UNCHANGED connect_vars
  BY <1>1 DEF connect_vars, ConnectInv, Sound, RunningInv, WaitingInv, PostedInv, DoneInv,
     Connecting!SuccessIsConnected, Connecting!FailureExplained, Connecting!Finished,
     Connecting!FoundClosed, Connecting!End
<1>2. CASE Connecting!Next
  <2>1. CASE Connecting!ConnectRound
    BY <2>1, RoundStep
  <2>2. CASE Connecting!Invoke
    BY <2>2, InvokeStep
  <2>3. CASE Connecting!AttemptEnds \/ Connecting!close \/ Connecting!cancel
    BY <2>3, KernelStep, CloseStep, CancelStep
  <2>4. ASSUME NEW n \in 0 .. MaxEndpoints, NEW accepts \in SUBSET (1 .. n),
               \/ Connecting!connect("sync_range", n, accepts)
               \/ Connecting!connect("sync_iterator", n, accepts)
               \/ Connecting!StartOp("range", n, accepts)
               \/ Connecting!StartOp("iterator", n, accepts)
        PROVE  ConnectInv'
    <3>1. n \in Nat
      BY TimesAssumption
    <3>2. CASE Connecting!connect("sync_range", n, accepts)
      BY <3>1, <3>2, BeginSync
    <3>3. CASE Connecting!connect("sync_iterator", n, accepts)
      BY <3>1, <3>3, BeginSync
    <3>4. CASE Connecting!StartOp("range", n, accepts)
      BY <3>1, <3>4, BeginAsync
    <3>5. CASE Connecting!StartOp("iterator", n, accepts)
      BY <3>1, <3>5, BeginAsync
    <3> QED BY <2>4, <3>2, <3>3, <3>4, <3>5
  <2>5. ASSUME NEW n \in 0 .. MaxEndpoints,
               \/ Connecting!connect_range(n) \/ Connecting!connect_iterator(n)
               \/ Connecting!async_connect_range(n) \/ Connecting!async_connect_iterator(n)
        PROVE  ConnectInv'
    <3>1. 1 .. n \in SUBSET (1 .. n)
      OBVIOUS
    <3> QED BY <2>4, <2>5, <3>1 DEF Connecting!connect_range, Connecting!connect_iterator,
            Connecting!async_connect_range, Connecting!async_connect_iterator,
            Connecting!default_connect_condition
  <2>6. ASSUME NEW n \in 0 .. MaxEndpoints, NEW accepts \in SUBSET (1 .. n),
               \/ Connecting!connect_range_if(n, accepts)
               \/ Connecting!connect_iterator_if(n, accepts)
               \/ Connecting!async_connect_range_if(n, accepts)
               \/ Connecting!async_connect_iterator_if(n, accepts)
        PROVE  ConnectInv'
    BY <2>4, <2>6 DEF Connecting!connect_range_if, Connecting!connect_iterator_if,
       Connecting!async_connect_range_if, Connecting!async_connect_iterator_if
  <2> QED BY <1>2, <2>1, <2>2, <2>3, <2>5, <2>6 DEF Connecting!Next
<1> QED BY <1>1, <1>2, Parted

(* Whatever the stage, what was tried was tried in turn. *)
InOrder(t, accepts) ==
  LET made == [i \in DOMAIN t |-> t[i][1]]
  IN  /\ \A i, j \in DOMAIN made : i < j => made[i] < made[j]
      /\ \A i \in DOMAIN made :
           {k \in accepts : k <= made[i]} = {made[j] : j \in 1 .. i}

All(t, accepts) == Connecting!ToSet([i \in DOMAIN t |-> t[i][1]]) = accepts

LEMMA InTurn ==
  ASSUME NEW t, Sound(t), NEW accepts \in SUBSET Nat, NEW n \in Nat, TriedTo(t, accepts, n)
  PROVE  InOrder(t, accepts) /\ ((\A k \in accepts : k < n) => All(t, accepts))
<1> DEFINE made == [i \in DOMAIN t |-> t[i][1]]
<1>1. /\ DOMAIN t = 1 .. Len(t) /\ Len(t) \in Nat
      /\ DOMAIN made = DOMAIN t /\ \A i \in DOMAIN t : made[i] = t[i][1] /\ made[i] \in Nat
  BY SoundTried DEF Sound
<1> HIDE DEF made
<1>2. ASSUME NEW i \in DOMAIN made, NEW j \in DOMAIN made, i < j PROVE made[i] < made[j]
  BY <1>1, <1>2 DEF TriedTo
<1>3. ASSUME NEW i \in DOMAIN made
      PROVE  {k \in accepts : k <= made[i]} = {made[j] : j \in 1 .. i}
  <2>1. ASSUME NEW k \in accepts, k <= made[i] PROVE \E j \in 1 .. i : k = made[j]
    <3>1. k \in Nat /\ made[i] \in Nat /\ made[i] < n
      BY <1>1 DEF TriedTo
    <3>2. k < n
      BY <2>1, <3>1
    <3>3. PICK j \in DOMAIN t : t[j][1] = k
      BY <3>2 DEF TriedTo
    <3>4. made[j] = k /\ i \in Nat /\ j \in Nat /\ j >= 1
      BY <1>1, <3>3
    <3>5. ~(i < j)
      <4>1. i < j => made[i] < made[j]
        BY <1>1, <1>2
      <4> QED BY <2>1, <3>1, <3>4, <4>1
    <3>6. j \in 1 .. i
      BY <3>4, <3>5
    <3> QED BY <3>4, <3>6
  <2>2. ASSUME NEW j \in 1 .. i PROVE made[j] \in accepts /\ made[j] <= made[i]
    <3>1. j \in DOMAIN made /\ i \in Nat /\ j \in Nat
      BY <1>1
    <3>2. made[j] \in accepts /\ made[j] \in Nat /\ made[i] \in Nat
      BY <1>1, <3>1 DEF TriedTo
    <3>3. j = i \/ j < i
      BY <3>1
    <3> QED BY <1>2, <3>1, <3>2, <3>3
  <2> QED BY <2>1, <2>2
<1>4. ASSUME \A k \in accepts : k < n PROVE Connecting!ToSet(made) = accepts
  <2>1. ASSUME NEW i \in DOMAIN made PROVE made[i] \in accepts
    BY <1>1 DEF TriedTo
  <2>2. ASSUME NEW k \in accepts PROVE \E i \in DOMAIN made : made[i] = k
    BY <1>1, <1>4 DEF TriedTo
  <2> QED BY <2>1, <2>2 DEF Connecting!ToSet
<1>5. /\ \A i, j \in DOMAIN made : i < j => made[i] < made[j]
      /\ \A i \in DOMAIN made : {k \in accepts : k <= made[i]} = {made[j] : j \in 1 .. i}
      /\ (\A k \in accepts : k < n) => Connecting!ToSet(made) = accepts
  BY <1>2, <1>3, <1>4
<1> QED BY <1>5 DEF made, InOrder, All

(* A failure is reported after the last endpoint, or of a closed socket.  *)
LEMMA ConnectTruth ==
  ConnectInv => /\ Connecting!SuccessIsConnected
                /\ Connecting!EveryEndpointInTurn
                /\ Connecting!FailureExplained
<1> SUFFICES ASSUME ConnectInv
             PROVE  /\ Connecting!SuccessIsConnected
                    /\ Connecting!EveryEndpointInTurn
                    /\ Connecting!FailureExplained
  OBVIOUS
<1>1. /\ conn \in CallType /\ conn.accepts \in SUBSET Nat /\ conn.iter \in Nat
      /\ conn.last \in Nat /\ conn.accepts \subseteq 1 .. conn.last /\ Sound(tried)
      /\ conn.phase \in {"idle", "running", "waiting", "posted", "done"}
  BY DEF ConnectInv, Stands, CallType
<1>2. CASE conn.phase # "done"
  <2>1. PICK n \in Nat : TriedTo(tried, conn.accepts, n)
    <3>1. CASE conn.phase = "idle"
      <4>1. TriedTo(tried, conn.accepts, 1)
        BY <1>1, <3>1, TriedNothing DEF ConnectInv
      <4> QED BY <4>1
    <3>2. CASE conn.phase = "running" \/ conn.phase = "waiting"
      BY <1>1, <3>2 DEF ConnectInv, RunningInv, WaitingInv
    <3>3. CASE conn.phase = "posted"
      <4>1. CASE conn.accepts = {} /\ tried = <<>>
        <5>1. TriedTo(tried, conn.accepts, 1)
          BY <1>1, <4>1, TriedNothing
        <5> QED BY <5>1
      <4>2. CASE TriedTo(tried, conn.accepts, conn.iter + 1)
        BY <1>1, <4>2
      <4> QED BY <3>3, <4>1, <4>2 DEF ConnectInv, PostedInv
    <3> QED BY <1>1, <1>2, <3>1, <3>2, <3>3
  <2>2. Connecting!EveryEndpointInTurn
    <3>1. InOrder(tried, conn.accepts)
      BY <1>1, <2>1, InTurn
    <3> QED BY <1>2, <3>1 DEF Connecting!EveryEndpointInTurn, Connecting!Finished, InOrder
  <2> QED BY <1>2, <2>2 DEF Connecting!SuccessIsConnected, Connecting!FailureExplained,
          Connecting!Finished
<1>3. CASE conn.phase = "done"
  <2>1. DoneInv
    BY <1>3 DEF ConnectInv
  <2>2. Connecting!EveryEndpointInTurn
    <3>1. CASE conn.ec = "ok" \/ Connecting!FoundClosed
      <4>1. PICK n \in Nat : TriedTo(tried, conn.accepts, n)
        BY <2>1 DEF DoneInv
      <4>2. InOrder(tried, conn.accepts)
        BY <1>1, <4>1, InTurn
      <4> QED BY <3>1, <4>2 DEF Connecting!EveryEndpointInTurn, InOrder
    <3>2. CASE ~(conn.ec = "ok" \/ Connecting!FoundClosed)
      <4>1. TriedTo(tried, conn.accepts, conn.last + 1) /\ conn.last + 1 \in Nat
        BY <1>1, <2>1, <3>2 DEF DoneInv
      <4>2. \A k \in conn.accepts : k < conn.last + 1
        BY <1>1
      <4>3. InOrder(tried, conn.accepts) /\ All(tried, conn.accepts)
        BY <1>1, <4>1, <4>2, InTurn
      <4> QED BY <4>3 DEF Connecting!EveryEndpointInTurn, InOrder, All
    <3> QED BY <3>1, <3>2
  <2> QED BY <2>1, <2>2 DEF DoneInv
<1> QED BY <1>2, <1>3

(* connect() and async_connect(), for sequences of any length, any         *)
(* condition, and an owner who closes the socket or cancels the attempt at *)
(* any time: a success is a connection to the endpoint that is reported,   *)
(* and the endpoints the condition accepts are tried in their order.       *)
(* After a failure all of them have been tried, the error is that of the   *)
(* last attempt and the result denotes no endpoint - except where an       *)
(* operation object found the socket closed, by its owner or because an    *)
(* endpoint could not be opened: it ends with operation_aborted there.     *)
THEOREM ConnectIsSound == MCSpec => []ConnectSound
<1>1. MCInit => ConnectInv
  BY ConnectInit
<1>2. ConnectInv /\ [MCNext]_allVars => ConnectInv'
  BY ConnectStep
<1>3. ConnectInv => ConnectSound
  BY ConnectTruth DEF ConnectSound
<1> QED BY <1>1, <1>2, <1>3, PTL DEF MCSpec

-----------------------------------------------------------------------------
(* Socket streams. *)

LEMMA DropIs ==
  ASSUME NEW S, NEW t \in Seq(S), NEW n \in 0 .. Len(t)
  PROVE  LET d == Streaming!Drop(t, n)
         IN  /\ d \in Seq(S) /\ Len(d) = Len(t) - n
             /\ \A i \in 1 .. Len(d) : d[i] = t[n + i]
BY DEF Streaming!Drop

LEMMA DropType ==
  ASSUME NEW S, NEW t \in Seq(S), NEW n \in Nat
  PROVE  Streaming!Drop(t, n) \in Seq(S)
BY DEF Streaming!Drop

(* t ends with the byte numbered last, and is without a gap. *)
Follows(t, last) == Len(t) <= last /\ \A i \in 1 .. Len(t) : t[i] = last - Len(t) + i

LEMMA FollowsIs ==
  ASSUME NEW t \in Seq(Nat), NEW n \in Nat, Follows(t, n)
  PROVE  t = Streaming!Drop(Streaming!Counted(n), n - Len(t))
<1> DEFINE all == Streaming!Counted(n)
           d == Streaming!Drop(all, n - Len(t))
<1>1. all \in Seq(Nat) /\ Len(all) = n /\ \A i \in 1 .. n : all[i] = i
  BY DEF Streaming!Counted
<1>2. n - Len(t) \in 0 .. Len(all) /\ Len(t) \in Nat
  BY <1>1 DEF Follows
<1> HIDE DEF all
<1>3. /\ d \in Seq(Nat) /\ Len(d) = Len(all) - (n - Len(t))
      /\ \A i \in 1 .. Len(d) : d[i] = all[n - Len(t) + i]
  BY <1>1, <1>2, DropIs
<1> HIDE DEF d
<1>4. Len(d) = Len(t)
  BY <1>1, <1>2, <1>3
<1>5. ASSUME NEW i \in 1 .. Len(t) PROVE t[i] = d[i]
  <2>1. n - Len(t) + i \in 1 .. n /\ d[i] = all[n - Len(t) + i]
    BY <1>2, <1>3, <1>4 DEF Follows
  <2> QED BY <1>1, <2>1 DEF Follows
<1>6. t = d
  BY <1>3, <1>4, <1>5, SeqEqual
<1> QED BY <1>6 DEF d, all

LEMMA FollowsAppend ==
  ASSUME NEW g \in Seq(Nat), NEW t \in Seq(Nat), NEW n \in Nat, Follows(g \o t, n)
  PROVE  Follows(g \o Append(t, n + 1), n + 1)
<1> DEFINE u == g \o t
           v == g \o Append(t, n + 1)
<1>1. u \in Seq(Nat) /\ Len(u) = Len(g) + Len(t) /\ Len(u) \in Nat
  OBVIOUS
<1>2. v = Append(u, n + 1)
  OBVIOUS
<1>3. /\ Len(v) = Len(u) + 1 /\ v[Len(u) + 1] = n + 1
      /\ \A i \in 1 .. Len(u) : v[i] = u[i]
  BY <1>1, <1>2
<1> HIDE DEF u, v
<1>4. Follows(v, n + 1)
  <2>1. Len(u) <= n /\ \A i \in 1 .. Len(u) : u[i] = n - Len(u) + i
    BY DEF Follows, u
  <2>2. ASSUME NEW i \in 1 .. Len(v) PROVE v[i] = (n + 1) - Len(v) + i
    <3>1. CASE i = Len(u) + 1
      BY <1>1, <1>3, <3>1
    <3>2. CASE i \in 1 .. Len(u)
      BY <1>1, <1>3, <2>1, <3>2
    <3> QED BY <1>1, <1>3, <3>1, <3>2
  <2> QED BY <1>1, <1>3, <2>1, <2>2 DEF Follows
<1> QED BY <1>4 DEF v

LEMMA FollowsTail ==
  ASSUME NEW g \in Seq(Nat), g # <<>>, NEW t \in Seq(Nat), NEW n \in Nat, Follows(g \o t, n)
  PROVE  Follows(Tail(g) \o t, n)
<1> DEFINE u == g \o t
           v == Tail(g) \o t
<1>1. /\ u \in Seq(Nat) /\ Len(u) = Len(g) + Len(t) /\ Len(g) > 0
      /\ Tail(g) \in Seq(Nat) /\ Len(Tail(g)) = Len(g) - 1
      /\ Len(g) \in Nat /\ Len(t) \in Nat
  OBVIOUS
<1>2. v \in Seq(Nat) /\ Len(v) = Len(u) - 1 /\ Len(u) \in Nat /\ Len(u) >= 1
  BY <1>1
<1>3. ASSUME NEW i \in 1 .. Len(v) PROVE v[i] = u[i + 1]
  <2>1. CASE i \in 1 .. Len(g) - 1
    <3>1. v[i] = Tail(g)[i]
      BY <1>1, <2>1
    <3>2. Tail(g)[i] = g[i + 1]
      BY <1>1, <2>1
    <3>3. u[i + 1] = g[i + 1]
      BY <1>1, <2>1
    <3> QED BY <3>1, <3>2, <3>3
  <2>2. CASE i > Len(g) - 1
    <3>1. v[i] = t[i - (Len(g) - 1)]
      BY <1>1, <1>2, <2>2
    <3>2. u[i + 1] = t[i + 1 - Len(g)]
      BY <1>1, <1>2, <2>2
    <3> QED BY <1>1, <3>1, <3>2
  <2> QED BY <1>1, <2>1, <2>2
<1> HIDE DEF u, v
<1>4. Len(u) <= n /\ \A i \in 1 .. Len(u) : u[i] = n - Len(u) + i
  BY DEF Follows, u
<1>5. ASSUME NEW i \in 1 .. Len(v) PROVE v[i] = n - Len(v) + i
  <2>1. i + 1 \in 1 .. Len(u)
    BY <1>2
  <2>2. u[i + 1] = n - Len(u) + (i + 1)
    BY <1>4, <2>1
  <2> QED BY <1>2, <1>3, <2>2
<1>6. Follows(v, n)
  BY <1>2, <1>4, <1>5 DEF Follows
<1> QED BY <1>6 DEF v

LEMMA SplitAgain ==
  ASSUME NEW t \in Seq(Nat), NEW n \in 1 .. Len(t)
  PROVE  /\ SubSeq(t, 1, n) \in Seq(Nat) /\ Streaming!Drop(t, n) \in Seq(Nat)
         /\ SubSeq(t, 1, n) \o Streaming!Drop(t, n) = <<>> \o t
<1>1. SubSeq(t, 1, n) \in Seq(Nat) /\ Len(t) \in Nat
  OBVIOUS
<1>2. Streaming!Drop(t, n) \in Seq(Nat)
  BY DropType
<1>3. SubSeq(t, 1, n) \o SubSeq(t, n + 1, Len(t)) = SubSeq(t, 1, Len(t))
  BY <1>1, ConcatAdjacentSubSeq
<1>4. SubSeq(t, 1, Len(t)) = t /\ <<>> \o t = t
  BY SubSeqFull
<1> QED BY <1>1, <1>2, <1>3, <1>4 DEF Streaming!Drop

States == {"closed", "up", "progress", "refused"}
Errors == {"", "error"}

SockType == [st : States, in : Seq(Nat), offered : Nat, eof : BOOLEAN]

StreamType ==
  [live : BOOLEAN, sock : SockType, put : Seq(Nat), room : Int, buffered : BOOLEAN,
   get : Seq(Nat), ec : Errors, expiry : Nat, owed : Seq(Nat), clean : BOOLEAN]

StreamCallType ==
  [op : {"none", "overflow", "underflow", "connect"}, s : Streams \cup {0}, out : Seq(Nat),
   c : Nat, then : {"", "close", "destruct", "assign"}, pc : {"", "loop", "poll"},
   left : Streams \cup Int]

Elsewhere(x, k) == k.op = "none" \/ k.s # x

(* The call k is one that can be under way.                                *)
CallGood(k) ==
  /\ k \in StreamCallType
  /\ k.op = "connect" => k.left \in Int
  /\ k.op = "overflow" /\ k.then = "assign" => k.left \in Streams \ {k.s}
  /\ k.op # "none" => k.s \in Streams

(* The streambuf b, at x, is as StreamInOrder says while the call is k: a  *)
(* read begins with an empty get area, and an attempt to connect with both *)
(* areas empty.                                                            *)
StreamGood(x, b, k) ==
  /\ b \in StreamType
  /\ b.live /\ b.clean =>
       /\ b.owed = IF k.op = "overflow" /\ k.s = x /\ b.buffered THEN k.out ELSE b.put
       /\ Follows(b.get \o b.sock.in, b.sock.offered)
  /\ k.op \in {"underflow", "connect"} /\ k.s = x => b.get = <<>>
  /\ k.op = "connect" /\ k.s = x => b.put = <<>>

StreamInv ==
  /\ DOMAIN stream = Streams /\ stream = [x \in Streams |-> stream[x]]
  /\ now \in Nat /\ written \in Nat
  /\ CallGood(call)
  /\ \A x \in Streams : StreamGood(x, stream[x], call)

LEMMA OtherGood ==
  ASSUME NEW x, NEW b, NEW k, NEW m, StreamGood(x, b, k), Elsewhere(x, k), Elsewhere(x, m)
  PROVE  StreamGood(x, b, m)
BY DEF StreamGood, Elsewhere

(* Nothing is buffered, and nothing is on its way.                         *)
LEMMA EmptyGood ==
  ASSUME NEW x, NEW b \in StreamType, NEW k,
         b.put = <<>>, b.get = <<>>, b.owed = <<>>, b.sock.in = <<>>, k.op # "overflow"
  PROVE  StreamGood(x, b, k)
<1>1. b.get \o b.sock.in = <<>> /\ b.sock.offered \in Nat
  BY DEF StreamType, SockType
<1>2. Follows(<<>>, b.sock.offered)
  BY <1>1 DEF Follows
<1> QED BY <1>1, <1>2 DEF StreamGood

(* The bytes are the same, on their way and in the areas.                  *)
LEMMA SameGood ==
  ASSUME NEW x, NEW b, NEW d \in StreamType, NEW k, StreamGood(x, b, k),
         d.put = b.put, d.get = b.get, d.owed = b.owed, d.sock.in = b.sock.in,
         d.sock.offered = b.sock.offered, d.live = b.live, d.clean = b.clean,
         d.buffered = b.buffered \/ Elsewhere(x, k)
  PROVE  StreamGood(x, d, k)
BY DEF StreamGood, Elsewhere

LEMMA OneSet ==
  ASSUME StreamInv, NEW s \in Streams, NEW d, Streaming!Set(s, d), StreamGood(s, d, call'),
         CallGood(call'), call.op = "none" \/ call.s = s, call'.op = "none" \/ call'.s = s,
         now' \in Nat, written' \in Nat
  PROVE  StreamInv'
<1>1. /\ stream' = [x \in Streams |-> stream'[x]] /\ stream'[s] = d
      /\ \A x \in Streams \ {s} : stream'[x] = stream[x]
  BY DEF StreamInv, Streaming!Set
<1>2. ASSUME NEW x \in Streams PROVE StreamGood(x, stream'[x], call')
  <2>1. CASE x = s
    BY <1>1, <2>1
  <2>2. CASE x # s
    BY <1>1, <2>2, OtherGood DEF StreamInv, Elsewhere
  <2> QED BY <2>1, <2>2
<1> QED BY <1>1, <1>2 DEF StreamInv

LEMMA TwoSet ==
  ASSUME StreamInv, NEW s \in Streams, NEW other \in Streams \ {s}, NEW d, NEW e,
         stream' = [stream EXCEPT ![s] = d, ![other] = e],
         StreamGood(s, d, call'), StreamGood(other, e, call'), call' = Streaming!Idle,
         CallGood(call'), call.op = "none" \/ call.s = s,
         now' \in Nat, written' \in Nat
  PROVE  StreamInv'
<1>1. /\ stream' = [x \in Streams |-> stream'[x]] /\ stream'[s] = d /\ stream'[other] = e
      /\ \A x \in Streams \ {s, other} : stream'[x] = stream[x]
  BY DEF StreamInv
<1>2. call'.op = "none"
  BY DEF Streaming!Idle
<1>3. ASSUME NEW x \in Streams PROVE StreamGood(x, stream'[x], call')
  <2>1. CASE x = s \/ x = other
    BY <1>1, <2>1
  <2>2. CASE x # s /\ x # other
    BY <1>1, <1>2, <2>2, OtherGood DEF StreamInv, Elsewhere
  <2> QED BY <2>1, <2>2
<1> QED BY <1>1, <1>3 DEF StreamInv

-----------------------------------------------------------------------------
(* What the operators of SocketStream make of a streambuf.                 *)

LEMMA NoBytes == <<>> \in Seq(Nat)
OBVIOUS

LEMMA IdleGood == CallGood(Streaming!Idle) /\ Streaming!Idle.op = "none"
BY NoBytes DEF CallGood, StreamCallType, Streaming!Idle

NoAreas(b, room) == [b EXCEPT !.get = <<>>, !.put = <<>>, !.room = room]
NoPut(b, room) == [b EXCEPT !.put = <<>>, !.room = room]

LEMMA NoAreasIs ==
  ASSUME NEW b \in StreamType, NEW room \in Int
  PROVE  LET d == NoAreas(b, room)
         IN  /\ d \in StreamType /\ d.put = <<>> /\ d.get = <<>> /\ d.sock = b.sock
             /\ d.live = b.live /\ d.buffered = b.buffered /\ d.clean = b.clean /\ d.owed = b.owed
BY NoBytes DEF StreamType, NoAreas

LEMMA ResetAll ==
  ASSUME NEW b \in StreamType
  PROVE  LET d == [b EXCEPT !.ec = "", !.put = <<>>, !.get = <<>>]
         IN  d \in StreamType /\ d.put = <<>> /\ d.get = <<>> /\ d.owed = b.owed /\ d.sock = b.sock
BY NoBytes DEF StreamType, Errors

LEMMA NoPutIs ==
  ASSUME NEW b \in StreamType, NEW room \in Int
  PROVE  LET d == NoPut(b, room)
         IN  /\ d \in StreamType /\ d.put = <<>> /\ d.get = b.get /\ d.sock = b.sock
             /\ d.live = b.live /\ d.buffered = b.buffered /\ d.clean = b.clean /\ d.owed = b.owed
BY NoBytes DEF StreamType, NoPut

LEMMA NewIs ==
  LET b == Streaming!NewStream
  IN  /\ b \in StreamType /\ b.put = <<>> /\ b.get = <<>> /\ b.owed = <<>> /\ b.sock.in = <<>>
BY StreamsAssumption, NoBytes
DEF Streaming!NewStream, Streaming!Socket, Streaming!Never, StreamType, SockType, States, Errors

LEMMA NoIs ==
  LET b == Streaming!NoStream
  IN  /\ b \in StreamType /\ b.put = <<>> /\ b.get = <<>> /\ b.owed = <<>> /\ b.sock.in = <<>>
BY NewIs DEF Streaming!NoStream, StreamType

LEMMA OpenedIs ==
  ASSUME NEW b \in StreamType, NEW st \in States
  PROVE  LET d == Streaming!Opened(b, st)
         IN  /\ d \in StreamType /\ d.owed = <<>> /\ d.sock.in = <<>> /\ d.sock.offered = 0
             /\ d.put = b.put /\ d.get = b.get
BY NoBytes DEF Streaming!Opened, Streaming!Socket, StreamType, SockType

LEMMA WithError ==
  ASSUME NEW b \in StreamType, NEW ec \in Errors
  PROVE  LET d == [b EXCEPT !.ec = ec]
         IN  /\ d \in StreamType /\ d.put = b.put /\ d.get = b.get /\ d.owed = b.owed
             /\ d.sock = b.sock /\ d.live = b.live /\ d.clean = b.clean
             /\ d.buffered = b.buffered /\ d.room = b.room /\ d.expiry = b.expiry
BY DEF StreamType

LEMMA ForgetsIs ==
  ASSUME NEW b \in StreamType, NEW lost \in BOOLEAN
  PROVE  LET d == Streaming!Forgets(b, lost)
         IN  /\ d \in StreamType /\ d.put = b.put /\ d.get = b.get /\ d.sock = b.sock
             /\ d.live = b.live /\ d.buffered = b.buffered /\ d.room = b.room
             /\ lost => ~d.clean
             /\ ~lost => d.clean = b.clean /\ d.owed = b.owed
<1>0. CASE lost
  <2>1. Streaming!Forgets(b, lost) = [b EXCEPT !.clean = FALSE, !.owed = <<>>]
    BY <1>0 DEF Streaming!Forgets, StreamType
  <2> QED BY <1>0, <2>1, NoBytes DEF StreamType
<1>1. CASE ~lost
  <2>1. Streaming!Forgets(b, lost) = b
    BY <1>1 DEF Streaming!Forgets, StreamType
  <2> QED BY <1>1, <2>1
<1> QED BY <1>0, <1>1

LEMMA InitBuffersIs ==
  ASSUME NEW b \in StreamType
  PROVE  LET d == Streaming!init_buffers(b)
         IN  /\ d \in StreamType /\ d.put = <<>> /\ d.get = <<>> /\ d.sock = b.sock
             /\ d.live = b.live /\ d.buffered = b.buffered
             /\ b.get # <<>> \/ b.put # <<>> => ~d.clean
             /\ b.get = <<>> /\ b.put = <<>> => d.clean = b.clean /\ d.owed = b.owed
<1> DEFINE lost == b.get # <<>> \/ b.put # <<>>
           f == Streaming!Forgets(b, lost)
           d == Streaming!init_buffers(b)
           room == IF b.buffered THEN PutSize ELSE 0
<1>1. lost \in BOOLEAN /\ room \in Int
  BY StreamsAssumption
<1>2. /\ f \in StreamType /\ f.sock = b.sock /\ f.live = b.live /\ f.buffered = b.buffered
      /\ lost => ~f.clean
      /\ ~lost => f.clean = b.clean /\ f.owed = b.owed
  BY <1>1, ForgetsIs
<1>3. d = NoAreas(f, room)
  BY DEF Streaming!init_buffers, NoAreas
<1> HIDE DEF f, d, room
<1>4. /\ d \in StreamType /\ d.put = <<>> /\ d.get = <<>> /\ d.sock = f.sock
      /\ d.live = f.live /\ d.buffered = f.buffered /\ d.clean = f.clean /\ d.owed = f.owed
  BY <1>1, <1>2, <1>3, NoAreasIs
<1> QED BY <1>2, <1>4 DEF d

LEMMA ClosedIs ==
  ASSUME NEW b \in StreamType
  PROVE  LET d == Streaming!Closed(b)
         IN  d \in StreamType /\ d.put = <<>> /\ d.get = <<>> /\ d.owed = <<>> /\ d.sock.in = <<>>
<1> DEFINE o == Streaming!Opened(b, "closed")
           e == [o EXCEPT !.ec = "", !.put = <<>>, !.get = <<>>]
<1>1. o \in StreamType /\ o.owed = <<>> /\ o.sock.in = <<>>
  BY OpenedIs DEF States
<1> HIDE DEF o
<1>2. /\ e \in StreamType /\ e.put = <<>> /\ e.get = <<>> /\ e.owed = <<>> /\ e.sock = o.sock
  BY <1>1, ResetAll
<1>3. Streaming!Closed(b) = Streaming!init_buffers(e)
  BY DEF Streaming!Closed, o
<1> HIDE DEF e
<1> QED BY <1>1, <1>2, <1>3, InitBuffersIs

LEMMA MovedIs ==
  ASSUME NEW b \in StreamType
  PROVE  LET d == Streaming!Moved(b)
         IN  /\ d \in StreamType /\ d.put = <<>> /\ d.get = b.get /\ d.sock = b.sock
             /\ d.live = b.live /\ d.buffered = b.buffered
             /\ b.put # <<>> => ~d.clean
             /\ b.put = <<>> => d.clean = b.clean /\ d.owed = b.owed
<1> DEFINE lost == b.put # <<>>
           f == Streaming!Forgets(b, lost)
           d == Streaming!Moved(b)
           room == b.room - Len(b.put)
<1>1. lost \in BOOLEAN /\ room \in Int
  BY DEF StreamType
<1>2. /\ f \in StreamType /\ f.sock = b.sock /\ f.live = b.live /\ f.buffered = b.buffered
      /\ f.get = b.get
      /\ lost => ~f.clean
      /\ ~lost => f.clean = b.clean /\ f.owed = b.owed
  BY <1>1, ForgetsIs
<1>3. d = NoPut(f, room)
  BY DEF Streaming!Moved, NoPut
<1> HIDE DEF f, d, room
<1>4. /\ d \in StreamType /\ d.put = <<>> /\ d.get = f.get /\ d.sock = f.sock
      /\ d.live = f.live /\ d.buffered = f.buffered /\ d.clean = f.clean /\ d.owed = f.owed
  BY <1>1, <1>2, <1>3, NoPutIs
<1> QED BY <1>2, <1>4 DEF d

LEMMA EmptiedIs ==
  ASSUME NEW b \in StreamType
  PROVE  LET d == Streaming!Emptied(b)
         IN  /\ d \in StreamType /\ d.get = b.get /\ d.sock = b.sock
             /\ d.live = b.live /\ d.buffered = b.buffered
             /\ d.clean = b.clean /\ d.owed = b.owed
             /\ b.buffered => d.put = <<>>
             /\ ~b.buffered => d.put = b.put
<1>1. CASE b.buffered
  <2>1. Streaming!Emptied(b) = NoPut(b, PutSize)
    BY <1>1 DEF Streaming!Emptied, NoPut
  <2>2. PutSize \in Int
    BY StreamsAssumption
  <2> DEFINE d == NoPut(b, PutSize)
  <2>3. /\ d \in StreamType /\ d.put = <<>> /\ d.get = b.get /\ d.sock = b.sock
        /\ d.live = b.live /\ d.buffered = b.buffered /\ d.clean = b.clean /\ d.owed = b.owed
    BY <2>2, NoPutIs
  <2> HIDE DEF d
  <2>4. Streaming!Emptied(b) = d
    BY <2>1 DEF d
  <2> QED BY <1>1, <2>3, <2>4
<1>2. CASE ~b.buffered
  BY <1>2 DEF Streaming!Emptied
<1> QED BY <1>1, <1>2

(* A streambuf that is moved has sent or forgets its put area.             *)
LEMMA MovedGood ==
  ASSUME NEW x, NEW y, NEW b, NEW k, NEW m,
         StreamGood(x, b, k), Elsewhere(x, k), m.op = "none"
  PROVE  StreamGood(y, Streaming!Moved(b), m)
<1>1. b \in StreamType
  BY DEF StreamGood
<1> DEFINE d == Streaming!Moved(b)
<1>2. /\ d \in StreamType /\ d.put = <<>> /\ d.get = b.get /\ d.sock = b.sock
      /\ d.live = b.live
      /\ b.put # <<>> => ~d.clean
      /\ b.put = <<>> => d.clean = b.clean /\ d.owed = b.owed
  BY <1>1, MovedIs
<1> HIDE DEF d
<1>3. StreamGood(y, d, m)
  BY <1>1, <1>2 DEF StreamGood, Elsewhere
<1> QED BY <1>3 DEF d

-----------------------------------------------------------------------------
(* Calls that do not wait. *)

(* A streambuf is changed between two calls.                               *)
LEMMA FreeSet ==
  ASSUME StreamInv, NEW s \in Streams, NEW d, Streaming!Free, Streaming!Set(s, d),
         UNCHANGED call, StreamGood(s, d, call), now' = now, written' \in Nat
  PROVE  StreamInv'
<1>1. call.op = "none"
  BY IdleGood DEF Streaming!Free
<1>2. call' = call /\ CallGood(call') /\ now' \in Nat
  BY DEF StreamInv
<1> QED BY <1>1, <1>2, OneSet

LEMMA InvAt ==
  ASSUME StreamInv, NEW s \in Streams
  PROVE  /\ stream[s] \in StreamType /\ StreamGood(s, stream[s], call) /\ CallGood(call)
         /\ now \in Nat /\ written \in Nat
BY DEF StreamInv, StreamGood

LEMMA FreeIs ==
  ASSUME Streaming!Free
  PROVE  call = Streaming!Idle /\ call.op = "none" /\ \A x : Elsewhere(x, call)
BY IdleGood DEF Streaming!Free, Elsewhere

LEMMA ConstructStep ==
  ASSUME StreamInv, NEW s \in Streams, Streaming!construct(s)
  PROVE  StreamInv'
<1>1. /\ Streaming!Free /\ UNCHANGED call /\ now' = now /\ written' \in Nat
      /\ call.op = "none"
  BY InvAt, FreeIs DEF Streaming!construct
<1>2. CASE Streaming!Set(s, Streaming!NewStream)
  <2>1. StreamGood(s, Streaming!NewStream, call)
    BY <1>1, NewIs, EmptyGood
  <2> QED BY <1>1, <1>2, <2>1, FreeSet
<1>3. CASE Streaming!Set(s, Streaming!Opened(Streaming!NewStream, "up"))
  <2> DEFINE d == Streaming!Opened(Streaming!NewStream, "up")
  <2>1. /\ d \in StreamType /\ d.owed = <<>> /\ d.sock.in = <<>>
        /\ d.put = <<>> /\ d.get = <<>>
    BY NewIs, OpenedIs DEF States
  <2> HIDE DEF d
  <2>2. StreamGood(s, d, call)
    BY <1>1, <2>1, EmptyGood
  <2>3. Streaming!Set(s, d)
    BY <1>3 DEF d
  <2> QED BY <1>1, <2>2, <2>3, FreeSet
<1> QED BY <1>2, <1>3 DEF Streaming!construct

LEMMA MoveConstructStep ==
  ASSUME StreamInv, NEW s \in Streams, NEW other \in Streams, Streaming!move_construct(s, other)
  PROVE  StreamInv'
<1>1. /\ call' = Streaming!Idle /\ call.op = "none" /\ call'.op = "none"
      /\ Elsewhere(other, call) /\ now' \in Nat /\ written' \in Nat /\ CallGood(call')
  BY InvAt, FreeIs, IdleGood DEF Streaming!move_construct
<1>2. other # s /\ other \in Streams \ {s}
  BY DEF Streaming!move_construct
<1> DEFINE d == Streaming!Moved(stream[other])
           e == Streaming!LeftBehind(stream[other])
<1>3. stream' = [stream EXCEPT ![s] = d, ![other] = e]
  BY <1>2 DEF Streaming!move_construct, Streaming!LeftBehind, StreamInv
<1>4. StreamGood(s, d, call')
  BY <1>1, InvAt, MovedGood
<1>5. StreamGood(other, e, call')
  BY <1>1, NewIs, EmptyGood DEF Streaming!LeftBehind
<1> HIDE DEF d, e
<1> QED BY <1>1, <1>2, <1>3, <1>4, <1>5, TwoSet

WithExpiry(b, t) == [b EXCEPT !.expiry = t]

LEMMA WithExpiryGood ==
  ASSUME NEW x, NEW b, NEW k, StreamGood(x, b, k), NEW t \in Nat
  PROVE  StreamGood(x, WithExpiry(b, t), k)
<1> DEFINE d == WithExpiry(b, t)
<1>0. b \in StreamType
  BY DEF StreamGood
<1>1. /\ d \in StreamType /\ d.put = b.put /\ d.get = b.get /\ d.owed = b.owed
      /\ d.sock = b.sock /\ d.live = b.live /\ d.clean = b.clean /\ d.buffered = b.buffered
  BY <1>0 DEF StreamType, WithExpiry
<1> HIDE DEF d
<1>2. StreamGood(x, d, k)
  BY <1>1, SameGood
<1> QED BY <1>2 DEF d

LEMMA ExpiryStep ==
  ASSUME StreamInv, NEW s \in Streams, Streaming!expires_at(s) \/ Streaming!expires_after(s)
  PROVE  StreamInv'
<1>1. PICK t \in Nat : Streaming!Set(s, WithExpiry(stream[s], t))
  <2>1. CASE Streaming!expires_at(s)
    BY <2>1, StreamsAssumption DEF Streaming!expires_at, WithExpiry
  <2>2. CASE Streaming!expires_after(s)
    <3>1. PICK n \in 0 .. LastExpiry : Streaming!Set(s, [stream[s] EXCEPT !.expiry = now + n])
      BY <2>2 DEF Streaming!expires_after
    <3>2. now + n \in Nat
      BY StreamsAssumption, InvAt
    <3> QED BY <3>1, <3>2 DEF WithExpiry
  <2> QED BY <2>1, <2>2
<1>2. Streaming!Free /\ UNCHANGED call /\ now' = now /\ written' \in Nat
  BY InvAt DEF Streaming!expires_at, Streaming!expires_after, Streaming!Uses
<1>3. StreamGood(s, WithExpiry(stream[s], t), call)
  BY InvAt, WithExpiryGood
<1> QED BY <1>1, <1>2, <1>3, FreeSet

Unbuffered(b) == [b EXCEPT !.buffered = FALSE, !.room = 0]

LEMMA UnbufferedIs ==
  ASSUME NEW b \in StreamType
  PROVE  LET d == Unbuffered(b)
         IN  /\ d \in StreamType /\ d.put = b.put /\ d.get = b.get /\ d.owed = b.owed
             /\ d.sock = b.sock /\ d.live = b.live /\ d.clean = b.clean
<1> DEFINE e == [b EXCEPT !.buffered = FALSE]
           d == [e EXCEPT !.room = 0]
<1>1. /\ e \in StreamType /\ e.put = b.put /\ e.get = b.get /\ e.owed = b.owed
      /\ e.sock = b.sock /\ e.live = b.live /\ e.clean = b.clean
  BY DEF StreamType
<1> HIDE DEF e
<1>2. /\ d \in StreamType /\ d.put = e.put /\ d.get = e.get /\ d.owed = e.owed
      /\ d.sock = e.sock /\ d.live = e.live /\ d.clean = e.clean
  BY <1>1 DEF StreamType
<1>3. Unbuffered(b) = d
  BY DEF Unbuffered, e
<1> QED BY <1>1, <1>2, <1>3

LEMMA SetbufStep ==
  ASSUME StreamInv, NEW s \in Streams, Streaming!setbuf(s)
  PROVE  StreamInv'
<1> DEFINE b == stream[s]
           d == Unbuffered(b)
<1>1. /\ Streaming!Free /\ Streaming!Set(s, d) /\ UNCHANGED call /\ now' = now
      /\ written' \in Nat /\ Elsewhere(s, call)
  BY InvAt, FreeIs DEF Streaming!setbuf, Streaming!Uses, Unbuffered
<1>2. b \in StreamType /\ StreamGood(s, b, call)
  BY InvAt
<1> HIDE DEF b
<1>3. /\ d \in StreamType /\ d.put = b.put /\ d.get = b.get /\ d.owed = b.owed
      /\ d.sock = b.sock /\ d.live = b.live /\ d.clean = b.clean
  BY <1>2, UnbufferedIs
<1> HIDE DEF d
<1>4. StreamGood(s, d, call)
  BY <1>1, <1>2, <1>3, SameGood
<1> QED BY <1>1, <1>4, FreeSet

(* The put area and what is owed with it.                                  *)
Areas(b, put, owed) == [b EXCEPT !.put = put, !.owed = owed]

LEMMA AreasIs ==
  ASSUME NEW b \in StreamType, NEW put \in Seq(Nat), NEW owed \in Seq(Nat)
  PROVE  LET d == Areas(b, put, owed)
         IN  /\ d \in StreamType /\ d.put = put /\ d.owed = owed /\ d.get = b.get
             /\ d.sock = b.sock /\ d.live = b.live /\ d.clean = b.clean
             /\ d.buffered = b.buffered
BY DEF Areas, StreamType

LEMMA SputcStep ==
  ASSUME StreamInv, NEW s \in Streams, Streaming!sputc(s)
  PROVE  StreamInv'
<1> DEFINE b == stream[s]
           put == Append(b.put, written')
           owed == IF b.clean THEN Append(b.owed, written') ELSE b.owed
           d == Areas(b, put, owed)
<1>1. /\ Streaming!Free /\ Streaming!Set(s, d) /\ UNCHANGED call /\ now' = now
      /\ written' = written + 1 /\ written' \in Nat /\ call.op = "none"
  BY InvAt, FreeIs DEF Streaming!sputc, Areas
<1>2. b \in StreamType /\ StreamGood(s, b, call)
  BY InvAt
<1>3. b.put \in Seq(Nat) /\ b.owed \in Seq(Nat) /\ put \in Seq(Nat) /\ owed \in Seq(Nat)
  BY <1>1, <1>2 DEF StreamType
<1>4. b.clean /\ b.owed = b.put => put = owed
  OBVIOUS
<1> HIDE DEF b, put, owed
<1>5. /\ d \in StreamType /\ d.put = put /\ d.owed = owed /\ d.get = b.get
      /\ d.sock = b.sock /\ d.live = b.live /\ d.clean = b.clean
  BY <1>2, <1>3, AreasIs
<1> HIDE DEF d
<1>6. StreamGood(s, d, call)
  BY <1>1, <1>2, <1>4, <1>5 DEF StreamGood
<1> QED BY <1>1, <1>6, FreeSet

WithGet(b, get) == [b EXCEPT !.get = get]

LEMMA SbumpcStep ==
  ASSUME StreamInv, NEW s \in Streams, Streaming!sbumpc(s)
  PROVE  StreamInv'
<1> DEFINE b == stream[s]
           d == WithGet(b, Tail(b.get))
<1>1. /\ Streaming!Free /\ Streaming!Set(s, d) /\ UNCHANGED call /\ now' = now
      /\ written' \in Nat /\ call.op = "none" /\ b.get # <<>>
  BY InvAt, FreeIs DEF Streaming!sbumpc, Streaming!Uses, WithGet
<1>2. b \in StreamType /\ StreamGood(s, b, call)
  BY InvAt
<1>3. /\ b.get \in Seq(Nat) /\ Tail(b.get) \in Seq(Nat) /\ b.sock.in \in Seq(Nat)
      /\ b.sock.offered \in Nat
  BY <1>1, <1>2 DEF StreamType, SockType
<1>4. /\ d \in StreamType /\ d.put = b.put /\ d.owed = b.owed /\ d.get = Tail(b.get)
      /\ d.sock = b.sock /\ d.live = b.live /\ d.clean = b.clean
  BY <1>2, <1>3 DEF WithGet, StreamType
<1> HIDE DEF b, d
<1>5. Follows(b.get \o b.sock.in, b.sock.offered)
        => Follows(Tail(b.get) \o b.sock.in, b.sock.offered)
  BY <1>1, <1>3, FollowsTail
<1>6. StreamGood(s, d, call)
  BY <1>1, <1>2, <1>4, <1>5 DEF StreamGood
<1> QED BY <1>1, <1>6, FreeSet

-----------------------------------------------------------------------------
(* overflow(). *)

OverflowCall(s, out, c, then, left) ==
  [op |-> "overflow", s |-> s, out |-> out, c |-> c, then |-> then, pc |-> "loop", left |-> left]

LEMMA OverflowCallGood ==
  ASSUME NEW s \in Streams, NEW out \in Seq(Nat), NEW c \in Nat,
         NEW then \in {"", "close", "destruct", "assign"}, NEW left \in Streams \cup Int,
         then = "assign" => left \in Streams \ {s}
  PROVE  CallGood(OverflowCall(s, out, c, then, left))
BY DEF CallGood, StreamCallType, OverflowCall

LEMMA OneByte == ASSUME NEW c \in Nat PROVE <<c>> \in Seq(Nat)
OBVIOUS

LEMMA NoLeft == 0 \in Streams \cup Int
<1>1. 0 \in Int
  OBVIOUS
<1> QED BY <1>1

LEMMA OverflowStarts ==
  ASSUME StreamInv, NEW s \in Streams, Streaming!Free, NEW c \in Nat,
         NEW then \in {"", "close", "destruct"},
         call' = Streaming!Overflow(s, c, then), stream' = stream, now' = now, written' \in Nat
  PROVE  StreamInv'
<1> DEFINE b == stream[s]
<1>1. /\ call'.op = "overflow" /\ call'.s = s /\ call'.then = then
      /\ call'.out = IF b.buffered THEN b.put ELSE IF c = 0 THEN <<>> ELSE <<c>>
      /\ call'.left = 0 /\ call'.c = c /\ call'.pc = "loop" /\ Elsewhere(s, call)
      /\ call.op = "none"
  BY FreeIs DEF Streaming!Overflow, Streaming!Idle
<1>2. b \in StreamType /\ StreamGood(s, b, call)
  BY InvAt
<1>3. call'.out \in Seq(Nat)
  <2>1. b.put \in Seq(Nat)
    BY <1>2 DEF StreamType
  <2> QED BY <1>1, <2>1, NoBytes, OneByte
<1>4. call' = OverflowCall(s, call'.out, c, then, 0)
  BY DEF Streaming!Overflow, Streaming!Idle, OverflowCall
<1>5. CallGood(call')
  <2> DEFINE out == call'.out
  <2>1. out \in Seq(Nat) /\ call' = OverflowCall(s, out, c, then, 0)
    BY <1>3, <1>4
  <2> HIDE DEF out
  <2>2. CallGood(OverflowCall(s, out, c, then, 0))
    <3>1. 0 \in Streams \cup Int
      BY NoLeft
    <3>2. then \in {"", "close", "destruct", "assign"} /\ then # "assign"
      OBVIOUS
    <3> QED BY <2>1, <3>1, <3>2, OverflowCallGood
  <2> QED BY <2>1, <2>2
<1>6. StreamGood(s, b, call')
  BY <1>1, <1>2 DEF StreamGood, Elsewhere
<1>7. Streaming!Set(s, b)
  BY DEF Streaming!Set, StreamInv
<1> HIDE DEF b
<1> QED BY <1>1, <1>5, <1>6, <1>7, InvAt, OneSet

LEMMA OverflowStep ==
  ASSUME StreamInv, NEW s \in Streams,
         Streaming!overflow(s) \/ Streaming!sync(s) \/ Streaming!close(s) \/ Streaming!destruct(s)
  PROVE  StreamInv'
<1>1. CASE Streaming!overflow(s)
  <2>1. written' \in Nat
    <3>1. written \in Nat /\ written' = written + 1
      BY <1>1, InvAt DEF Streaming!overflow
    <3> QED BY <3>1
  <2> QED BY <1>1, <2>1, OverflowStarts DEF Streaming!overflow
<1>2. CASE Streaming!sync(s)
  BY <1>2, InvAt, OverflowStarts DEF Streaming!sync, Streaming!Uses
<1>3. CASE Streaming!close(s)
  BY <1>3, InvAt, OverflowStarts DEF Streaming!close, Streaming!Uses
<1>4. CASE Streaming!destruct(s)
  BY <1>4, InvAt, OverflowStarts DEF Streaming!destruct
<1> QED BY <1>1, <1>2, <1>3, <1>4

LEMMA MoveAssignStep ==
  ASSUME StreamInv, NEW s \in Streams, NEW other \in Streams, Streaming!move_assign(s, other)
  PROVE  StreamInv'
<1> DEFINE b == stream[s]
<1>1. /\ call'.op = "overflow" /\ call'.s = s /\ call'.then = "assign"
      /\ call'.out = IF b.buffered THEN b.put ELSE <<>>
      /\ call'.left = other /\ Elsewhere(s, call) /\ call.op = "none" /\ other # s
  BY FreeIs DEF Streaming!move_assign, Streaming!Overflow, Streaming!Idle
<1>2. b \in StreamType /\ StreamGood(s, b, call) /\ now' \in Nat /\ written' \in Nat
  BY InvAt DEF Streaming!move_assign
<1>3. call'.out \in Seq(Nat)
  BY <1>1, <1>2, NoBytes DEF StreamType
<1>4. call' = OverflowCall(s, call'.out, 0, "assign", other)
  BY DEF Streaming!move_assign, Streaming!Overflow, Streaming!Idle, OverflowCall
<1>5. CallGood(call')
  <2> DEFINE out == call'.out
  <2>1. out \in Seq(Nat) /\ call' = OverflowCall(s, out, 0, "assign", other)
    BY <1>3, <1>4
  <2> HIDE DEF out
  <2>2. other \in Streams \ {s}
    BY <1>1
  <2>3. CallGood(OverflowCall(s, out, 0, "assign", other))
    BY <2>1, <2>2, OverflowCallGood
  <2> QED BY <2>1, <2>3
<1>6. StreamGood(s, b, call')
  BY <1>1, <1>2 DEF StreamGood, Elsewhere
<1>7. Streaming!Set(s, b)
  BY DEF Streaming!move_assign, Streaming!Set, StreamInv
<1> HIDE DEF b
<1> QED BY <1>1, <1>2, <1>5, <1>6, <1>7, OneSet

(* What follows overflow() finds a streambuf that needs no more of it.     *)
LEMMA ContinueStep ==
  ASSUME StreamInv, NEW s \in Streams, call.op = "overflow", call.s = s,
         NEW b, StreamGood(s, b, Streaming!Idle), Streaming!Continue(s, b),
         now' = now, written' = written
  PROVE  StreamInv'
<1>1. /\ call' = Streaming!Idle /\ CallGood(call') /\ call'.op = "none"
      /\ now' \in Nat /\ written' \in Nat
  BY InvAt, IdleGood DEF Streaming!Continue
<1>2. b \in StreamType
  BY DEF StreamGood
<1>3. CASE Streaming!Set(s, b)
  BY <1>1, <1>3, OneSet
<1>4. CASE Streaming!Set(s, Streaming!Closed(b))
  <2>1. StreamGood(s, Streaming!Closed(b), call')
    BY <1>1, <1>2, ClosedIs, EmptyGood
  <2> QED BY <1>1, <1>4, <2>1, OneSet
<1>5. CASE Streaming!Set(s, Streaming!NoStream)
  <2>1. StreamGood(s, Streaming!NoStream, call')
    BY <1>1, NoIs, EmptyGood
  <2> QED BY <1>1, <1>5, <2>1, OneSet
<1>6. CASE call.then = "assign"
  <2>1. CASE stream' = [stream EXCEPT ![s] = Streaming!Moved(stream[call.left]),
                                      ![call.left] = Streaming!NewStream]
    <3>1. call.left \in Streams \ {s}
      BY <1>6, InvAt DEF CallGood
    <3>2. PICK other \in Streams \ {s} : other = call.left
      BY <3>1
    <3> DEFINE d == Streaming!Moved(stream[other])
               e == Streaming!NewStream
    <3>3. stream' = [stream EXCEPT ![s] = d, ![other] = e]
      BY <2>1, <3>2
    <3>4. StreamGood(s, d, call')
      <4>1. StreamGood(other, stream[other], call) /\ Elsewhere(other, call)
        BY InvAt DEF Elsewhere
      <4> QED BY <1>1, <4>1, MovedGood
    <3>5. StreamGood(other, e, call')
      BY <1>1, NewIs, EmptyGood
    <3> HIDE DEF d, e
    <3> QED BY <1>1, <3>3, <3>4, <3>5, TwoSet
  <2>2. stream' = [stream EXCEPT ![s] = Streaming!Moved(stream[call.left]),
                                 ![call.left] = Streaming!NewStream] \/ Streaming!Set(s, b)
        \/ Streaming!Set(s, Streaming!Closed(b)) \/ Streaming!Set(s, Streaming!NoStream)
    BY DEF Streaming!Continue, Streaming!LeftBehind
  <2> QED BY <1>3, <1>4, <1>5, <2>1, <2>2
<1> QED BY <1>3, <1>4, <1>5, <1>6 DEF Streaming!Continue

LEMMA OverflowFailsStep ==
  ASSUME StreamInv, NEW s \in Streams, call.op = "overflow", call.s = s,
         Streaming!OverflowFails(s), now' = now, written' = written
  PROVE  StreamInv'
<1> DEFINE b == stream[s]
           lost == b.buffered /\ call.out # b.put
           f == Streaming!Forgets(b, lost)
           d == [f EXCEPT !.ec = "error"]
<1>1. b \in StreamType /\ StreamGood(s, b, call)
  BY InvAt
<1>2. lost \in BOOLEAN
  BY <1>1 DEF StreamType
<1>3. Streaming!Continue(s, d)
  BY DEF Streaming!OverflowFails
<1>4. lost \/ ~b.buffered \/ call.out = b.put
  OBVIOUS
<1> HIDE DEF b, lost
<1>5. /\ f \in StreamType /\ f.put = b.put /\ f.get = b.get /\ f.sock = b.sock
      /\ f.live = b.live
      /\ lost => ~f.clean
      /\ ~lost => f.clean = b.clean /\ f.owed = b.owed
  BY <1>1, <1>2, ForgetsIs
<1> HIDE DEF f
<1>6. /\ d \in StreamType /\ d.put = f.put /\ d.get = f.get /\ d.owed = f.owed
      /\ d.sock = f.sock /\ d.live = f.live /\ d.clean = f.clean
  BY <1>5, WithError DEF Errors
<1> HIDE DEF d
<1>7. StreamGood(s, d, Streaming!Idle)
  BY <1>1, <1>4, <1>5, <1>6, IdleGood DEF StreamGood
<1> QED BY <1>3, <1>7, ContinueStep

LEMMA OverflowDoneStep ==
  ASSUME StreamInv, NEW s \in Streams, call.op = "overflow", call.s = s, call.out = <<>>,
         Streaming!OverflowDone(s, stream[s]), now' = now, written' = written
  PROVE  StreamInv'
<1> DEFINE b == stream[s]
           e == Streaming!Emptied(b)
           put == IF b.buffered THEN Append(e.put, call.c) ELSE e.put
           owed == IF b.buffered /\ b.clean THEN Append(e.owed, call.c) ELSE e.owed
           d == Areas(e, put, owed)
<1>1. b \in StreamType /\ StreamGood(s, b, call) /\ call.c \in Nat
  BY InvAt DEF CallGood, StreamCallType
<1>2. /\ e \in StreamType /\ e.get = b.get /\ e.sock = b.sock
      /\ e.live = b.live /\ e.buffered = b.buffered
      /\ e.clean = b.clean /\ e.owed = b.owed
      /\ b.buffered => e.put = <<>>
      /\ ~b.buffered => e.put = b.put
  BY <1>1, EmptiedIs
<1>3. Streaming!Continue(s, IF call.c = 0 THEN e ELSE d)
  BY DEF Streaming!OverflowDone, Areas
<1> HIDE DEF b, e
<1>4. e.put \in Seq(Nat) /\ e.owed \in Seq(Nat)
  BY <1>2 DEF StreamType
<1>5. put \in Seq(Nat) /\ owed \in Seq(Nat) /\ (b.clean /\ e.put = e.owed => put = owed)
  BY <1>1, <1>4
<1> HIDE DEF put, owed
<1>6. /\ d \in StreamType /\ d.put = put /\ d.owed = owed /\ d.get = e.get
      /\ d.sock = e.sock /\ d.live = e.live /\ d.clean = e.clean
  BY <1>2, <1>5, AreasIs
<1> HIDE DEF d
<1>7. StreamGood(s, e, Streaming!Idle)
  BY <1>1, <1>2, IdleGood DEF StreamGood
<1>8. StreamGood(s, d, Streaming!Idle)
  BY <1>1, <1>2, <1>5, <1>6, IdleGood DEF StreamGood
<1>9. CASE call.c = 0
  BY <1>3, <1>7, <1>9, ContinueStep
<1>10. CASE call.c # 0
  BY <1>3, <1>8, <1>10, ContinueStep
<1> QED BY <1>9, <1>10

(* The call goes on, with what is left to send.                            *)
CallAt(k, pc) == [k EXCEPT !.pc = pc]
CallWith(k, out) == [k EXCEPT !.out = out]
CallNext(k) == [k EXCEPT !.left = @ - 1, !.pc = "loop"]

LEMMA CallAtGood ==
  ASSUME NEW k, CallGood(k), NEW pc \in {"loop", "poll"}
  PROVE  LET m == CallAt(k, pc)
         IN  CallGood(m) /\ m.op = k.op /\ m.s = k.s /\ m.out = k.out
BY DEF CallGood, StreamCallType, CallAt

LEMMA CallWithGood ==
  ASSUME NEW k, CallGood(k), NEW out \in Seq(Nat)
  PROVE  LET m == CallWith(k, out)
         IN  CallGood(m) /\ m.op = k.op /\ m.s = k.s /\ m.out = out
BY DEF CallGood, StreamCallType, CallWith

LEMMA CallNextGood ==
  ASSUME NEW k, CallGood(k), k.op = "connect"
  PROVE  LET m == CallNext(k)
         IN  CallGood(m) /\ m.op = k.op /\ m.s = k.s
<1> DEFINE left == k.left - 1
           e == [k EXCEPT !.left = left]
           m == [e EXCEPT !.pc = "loop"]
<1>1. left \in Int
  BY DEF CallGood
<1>2. CallNext(k) = m
  BY DEF CallNext, CallGood, StreamCallType
<1> HIDE DEF left
<1>3. CallGood(e) /\ e.op = k.op /\ e.s = k.s
  BY <1>1 DEF CallGood, StreamCallType
<1> HIDE DEF e
<1>4. CallGood(m) /\ m.op = e.op /\ m.s = e.s
  BY <1>3 DEF CallGood, StreamCallType
<1> QED BY <1>2, <1>3, <1>4

(* A streambuf with an error, or none, and nothing else changed.           *)
LEMMA ErrorGood ==
  ASSUME NEW x, NEW b, NEW k, StreamGood(x, b, k), NEW ec \in Errors
  PROVE  StreamGood(x, [b EXCEPT !.ec = ec], k)
<1> DEFINE d == [b EXCEPT !.ec = ec]
<1>1. b \in StreamType
  BY DEF StreamGood
<1>2. /\ d \in StreamType /\ d.put = b.put /\ d.get = b.get /\ d.owed = b.owed
      /\ d.sock = b.sock /\ d.live = b.live /\ d.clean = b.clean
      /\ d.buffered = b.buffered
  BY <1>1, WithError
<1> HIDE DEF d
<1>3. StreamGood(x, d, k)
  BY <1>2, SameGood
<1> QED BY <1>3 DEF d

(* The goodness of a streambuf speaks of the call's op, s and out.         *)
LEMMA SameCallGood ==
  ASSUME NEW x, NEW b, NEW k, NEW m, StreamGood(x, b, k), m.op = k.op, m.s = k.s, m.out = k.out
  PROVE  StreamGood(x, b, m)
BY DEF StreamGood

(* A call that is not overflow() is over.                                  *)
LEMMA EndedGood ==
  ASSUME NEW x, NEW b, NEW k, StreamGood(x, b, k), k.op # "overflow"
  PROVE  StreamGood(x, b, Streaming!Idle)
BY IdleGood DEF StreamGood

LEMMA ReturnsStep ==
  ASSUME StreamInv, NEW s \in Streams, call.op # "overflow", call.s = s,
         NEW ec \in Errors, Streaming!Returns(s, ec), now' = now, written' = written
  PROVE  StreamInv'
<1> DEFINE d == [stream[s] EXCEPT !.ec = ec]
<1>1. call' = Streaming!Idle /\ Streaming!Set(s, d) /\ CallGood(call') /\ call'.op = "none"
  BY IdleGood DEF Streaming!Returns
<1>2. StreamGood(s, d, call')
  BY <1>1, InvAt, ErrorGood, EndedGood
<1> HIDE DEF d
<1> QED BY <1>1, <1>2, InvAt, OneSet

(* An attempt would block: the call waits.                                 *)
LEMMA WaitsStep ==
  ASSUME StreamInv, NEW s \in Streams, call.s = s, Streaming!Goto("poll"),
         Streaming!Set(s, [stream[s] EXCEPT !.ec = "error"]), now' = now, written' = written
  PROVE  StreamInv'
<1> DEFINE d == [stream[s] EXCEPT !.ec = "error"]
<1>1. /\ CallGood(call') /\ call'.op = call.op /\ call'.s = call.s /\ call'.out = call.out
  <2>1. call' = CallAt(call, "poll")
    BY DEF Streaming!Goto, CallAt
  <2> QED BY <2>1, InvAt, CallAtGood
<1>2. "error" \in Errors
  BY DEF Errors
<1>3. StreamGood(s, d, call')
  BY <1>1, <1>2, InvAt, ErrorGood, SameCallGood
<1>4. Streaming!Set(s, d)
  OBVIOUS
<1> HIDE DEF d
<1> QED BY <1>1, <1>3, <1>4, InvAt, OneSet

(* Some of what is to be sent has gone.                                    *)
SomeSent(b, n) ==
  [b EXCEPT !.ec = "", !.owed = IF b.buffered THEN Streaming!Drop(@, n) ELSE @]

LEMMA SentIs ==
  ASSUME NEW b \in StreamType, NEW n \in Nat
  PROVE  LET d == SomeSent(b, n)
         IN  /\ d \in StreamType /\ d.put = b.put /\ d.get = b.get /\ d.sock = b.sock
             /\ d.live = b.live /\ d.clean = b.clean /\ d.buffered = b.buffered
             /\ d.owed = IF b.buffered THEN Streaming!Drop(b.owed, n) ELSE b.owed
<1> DEFINE owed == IF b.buffered THEN Streaming!Drop(b.owed, n) ELSE b.owed
           e == [b EXCEPT !.ec = ""]
           d == [e EXCEPT !.owed = owed]
<1>1. owed \in Seq(Nat)
  BY DropType DEF StreamType
<1>2. SomeSent(b, n) = d
  BY DEF SomeSent, StreamType
<1> HIDE DEF owed
<1>3. /\ e \in StreamType /\ e.put = b.put /\ e.get = b.get /\ e.sock = b.sock
      /\ e.live = b.live /\ e.clean = b.clean /\ e.buffered = b.buffered
  BY DEF StreamType, Errors
<1> HIDE DEF e
<1>4. /\ d \in StreamType /\ d.put = e.put /\ d.get = e.get /\ d.sock = e.sock
      /\ d.live = e.live /\ d.clean = e.clean /\ d.buffered = e.buffered /\ d.owed = owed
  BY <1>1, <1>3 DEF StreamType
<1> HIDE DEF d
<1>5. SomeSent(b, n).owed = owed
  BY <1>2, <1>4
<1> QED BY <1>2, <1>3, <1>4, <1>5 DEF owed

LEMMA SendStep ==
  ASSUME StreamInv, NEW s \in Streams, call.op = "overflow", call.s = s,
         NEW n \in 1 .. Len(call.out), Streaming!Set(s, SomeSent(stream[s], n)),
         call' = CallWith(call, Streaming!Drop(call.out, n)), now' = now, written' = written
  PROVE  StreamInv'
<1> DEFINE b == stream[s]
           d == SomeSent(b, n)
           out == Streaming!Drop(call.out, n)
<1>1. b \in StreamType /\ StreamGood(s, b, call) /\ CallGood(call)
  BY InvAt
<1>2. n \in Nat /\ out \in Seq(Nat)
  <2>1. call.out \in Seq(Nat)
    BY <1>1 DEF CallGood, StreamCallType
  <2>2. n \in Nat
    BY <2>1
  <2> QED BY <2>1, <2>2, DropType
<1>3. call' = CallWith(call, out)
  OBVIOUS
<1> HIDE DEF b
<1>4. b.owed = call.out => Streaming!Drop(b.owed, n) = out
  OBVIOUS
<1>5. Streaming!Set(s, d)
  BY DEF b
<1> HIDE DEF out
<1>6. /\ CallGood(call') /\ call'.op = "overflow" /\ call'.s = s /\ call'.out = out
  BY <1>1, <1>2, <1>3, CallWithGood
<1>7. /\ d \in StreamType /\ d.put = b.put /\ d.get = b.get /\ d.sock = b.sock
      /\ d.live = b.live /\ d.clean = b.clean /\ d.buffered = b.buffered
      /\ d.owed = IF b.buffered THEN Streaming!Drop(b.owed, n) ELSE b.owed
  BY <1>1, <1>2, SentIs
<1> HIDE DEF d
<1>8. StreamGood(s, d, call')
  BY <1>1, <1>4, <1>6, <1>7 DEF StreamGood
<1> QED BY <1>5, <1>6, <1>8, InvAt, OneSet

LEMMA SendLoopStep ==
  ASSUME StreamInv, NEW s \in Streams, Streaming!SendLoop(s)
  PROVE  StreamInv'
<1>1. call.op = "overflow" /\ call.s = s /\ now' = now /\ written' = written
  BY DEF Streaming!SendLoop, Streaming!In
<1>2. CASE call.out = <<>> /\ Streaming!OverflowDone(s, stream[s])
  BY <1>1, <1>2, OverflowDoneStep
<1>3. CASE Streaming!OverflowFails(s)
  BY <1>1, <1>3, OverflowFailsStep
<1>4. CASE \E n \in 1 .. Len(call.out) :
             /\ Streaming!Set(s, SomeSent(stream[s], n))
             /\ call' = CallWith(call, Streaming!Drop(call.out, n))
  BY <1>1, <1>4, SendStep
<1>5. CASE Streaming!Goto("poll") /\ Streaming!Set(s, [stream[s] EXCEPT !.ec = "error"])
  BY <1>1, <1>5, WaitsStep
<1> QED BY <1>2, <1>3, <1>4, <1>5 DEF Streaming!SendLoop, SomeSent, CallWith

-----------------------------------------------------------------------------
(* underflow(). *)

LEMMA UnderflowStep ==
  ASSUME StreamInv, NEW s \in Streams, Streaming!underflow(s)
  PROVE  StreamInv'
<1> DEFINE b == stream[s]
<1>1. /\ call' = [op |-> "underflow", s |-> s, out |-> <<>>, c |-> 0, then |-> "",
                  pc |-> "loop", left |-> 0]
      /\ call.op = "none" /\ Elsewhere(s, call) /\ b.get = <<>>
  BY FreeIs DEF Streaming!underflow, Streaming!Uses, Streaming!Idle
<1>2. b \in StreamType /\ StreamGood(s, b, call) /\ now' \in Nat /\ written' \in Nat
  BY InvAt DEF Streaming!underflow
<1>3. CallGood(call') /\ call'.op = "underflow" /\ call'.s = s
  BY <1>1, NoBytes, NoLeft DEF CallGood, StreamCallType
<1>4. StreamGood(s, b, call')
  BY <1>1, <1>2, <1>3 DEF StreamGood, Elsewhere
<1>5. Streaming!Set(s, b)
  BY DEF Streaming!underflow, Streaming!Set, StreamInv
<1> HIDE DEF b
<1> QED BY <1>1, <1>2, <1>3, <1>4, <1>5, OneSet

(* The get area is filled with what has come in.                           *)
GetFilled(b, n) ==
  [b EXCEPT !.ec = "", !.get = SubSeq(b.sock.in, 1, n),
            !.sock.in = Streaming!Drop(@, n)]

LEMMA FilledIs ==
  ASSUME NEW b \in StreamType, NEW n \in 1 .. Len(b.sock.in)
  PROVE  LET d == GetFilled(b, n)
         IN  /\ d \in StreamType /\ d.put = b.put /\ d.owed = b.owed
             /\ d.live = b.live /\ d.clean = b.clean /\ d.buffered = b.buffered
             /\ d.sock.offered = b.sock.offered
             /\ d.get \o d.sock.in = <<>> \o b.sock.in
<1> DEFINE in == b.sock.in
           get == SubSeq(in, 1, n)
           rest == Streaming!Drop(in, n)
           sock == [b.sock EXCEPT !.in = rest]
           e == [b EXCEPT !.ec = ""]
           f == [e EXCEPT !.get = get]
           d == [f EXCEPT !.sock = sock]
<1>1. in \in Seq(Nat) /\ b.sock \in SockType
  BY DEF StreamType, SockType
<1>2. get \in Seq(Nat) /\ rest \in Seq(Nat) /\ get \o rest = <<>> \o in
  BY <1>1, SplitAgain
<1>3. GetFilled(b, n) = d
  BY DEF GetFilled, StreamType
<1> HIDE DEF in, get, rest
<1>4. sock \in SockType /\ sock.in = rest /\ sock.offered = b.sock.offered
  BY <1>1, <1>2 DEF SockType
<1> HIDE DEF sock
<1>5. /\ e \in StreamType /\ e.put = b.put /\ e.owed = b.owed
      /\ e.live = b.live /\ e.clean = b.clean /\ e.buffered = b.buffered
  BY DEF StreamType, Errors
<1> HIDE DEF e
<1>6. /\ f \in StreamType /\ f.put = e.put /\ f.owed = e.owed /\ f.get = get
      /\ f.live = e.live /\ f.clean = e.clean /\ f.buffered = e.buffered
  BY <1>2, <1>5 DEF StreamType
<1> HIDE DEF f
<1>7. /\ d \in StreamType /\ d.put = f.put /\ d.owed = f.owed /\ d.get = get
      /\ d.live = f.live /\ d.clean = f.clean /\ d.buffered = f.buffered
      /\ d.sock = sock
  BY <1>4, <1>6 DEF StreamType
<1> HIDE DEF d
<1>8. d.get \o d.sock.in = <<>> \o b.sock.in
  BY <1>2, <1>4, <1>7 DEF in
<1> QED BY <1>3, <1>4, <1>5, <1>6, <1>7, <1>8

LEMMA FillStep ==
  ASSUME StreamInv, NEW s \in Streams, call.op = "underflow", call.s = s,
         NEW n \in 1 .. Len(stream[s].sock.in), Streaming!Set(s, GetFilled(stream[s], n)),
         call' = Streaming!Idle, now' = now, written' = written
  PROVE  StreamInv'
<1> DEFINE b == stream[s]
           d == GetFilled(b, n)
<1>1. b \in StreamType /\ StreamGood(s, b, call) /\ b.get = <<>>
  BY InvAt DEF StreamGood
<1>2. /\ d \in StreamType /\ d.put = b.put /\ d.owed = b.owed
      /\ d.live = b.live /\ d.clean = b.clean /\ d.buffered = b.buffered
      /\ d.sock.offered = b.sock.offered
      /\ d.get \o d.sock.in = <<>> \o b.sock.in
  BY <1>1, FilledIs
<1>3. CallGood(call') /\ call'.op = "none" /\ Streaming!Set(s, d)
  BY IdleGood
<1> HIDE DEF b, d
<1>4. StreamGood(s, d, call')
  BY <1>1, <1>2, <1>3 DEF StreamGood
<1> QED BY <1>3, <1>4, InvAt, OneSet

LEMMA RecvLoopStep ==
  ASSUME StreamInv, NEW s \in Streams, Streaming!RecvLoop(s)
  PROVE  StreamInv'
<1>1. call.op = "underflow" /\ call.s = s /\ now' = now /\ written' = written
  BY DEF Streaming!RecvLoop, Streaming!In
<1>2. CASE Streaming!Returns(s, "error")
  BY <1>1, <1>2, ReturnsStep DEF Errors
<1>3. CASE /\ call' = Streaming!Idle
           /\ \E n \in 1 .. Len(stream[s].sock.in) : Streaming!Set(s, GetFilled(stream[s], n))
  BY <1>1, <1>3, FillStep
<1>4. CASE Streaming!Goto("poll") /\ Streaming!Set(s, [stream[s] EXCEPT !.ec = "error"])
  BY <1>1, <1>4, WaitsStep
<1> QED BY <1>2, <1>3, <1>4 DEF Streaming!RecvLoop, GetFilled

-----------------------------------------------------------------------------
(* connect(). *)

(* Both areas are emptied, and what they held is forgotten.                *)
LEMMA BuffersEmptied ==
  ASSUME StreamInv, NEW s \in Streams, Streaming!Free, NEW k,
         (k.op = "connect" /\ k.s = s) \/ k = call
  PROVE  LET d == [Streaming!init_buffers(stream[s]) EXCEPT !.ec = "error"]
         IN  StreamGood(s, d, k)
<1> DEFINE b == stream[s]
           e == Streaming!init_buffers(b)
           d == [e EXCEPT !.ec = "error"]
<1>1. b \in StreamType /\ StreamGood(s, b, call) /\ Elsewhere(s, call)
  BY InvAt, FreeIs
<1> HIDE DEF b
<1>2. /\ e \in StreamType /\ e.put = <<>> /\ e.get = <<>> /\ e.sock = b.sock
      /\ e.live = b.live
      /\ b.get # <<>> \/ b.put # <<>> => ~e.clean
      /\ b.get = <<>> /\ b.put = <<>> => e.clean = b.clean /\ e.owed = b.owed
  BY <1>1, InitBuffersIs
<1> HIDE DEF e
<1>3. /\ d \in StreamType /\ d.put = e.put /\ d.get = e.get /\ d.owed = e.owed
      /\ d.sock = e.sock /\ d.live = e.live /\ d.clean = e.clean
  BY <1>2, WithError DEF Errors
<1> HIDE DEF d
<1>4. StreamGood(s, d, k)
  BY <1>1, <1>2, <1>3 DEF StreamGood, Elsewhere
<1> QED BY <1>4 DEF d, e, b

LEMMA ConnectStarts ==
  ASSUME StreamInv, NEW s \in Streams, Streaming!Free, NEW n \in Nat, Streaming!Connect(s, n),
         now' = now, written' = written
  PROVE  StreamInv'
<1> DEFINE d == [Streaming!init_buffers(stream[s]) EXCEPT !.ec = "error"]
<1>1. /\ call' = [op |-> "connect", s |-> s, out |-> <<>>, c |-> 0, then |-> "",
                  pc |-> "loop", left |-> n]
      /\ call.op = "none" /\ Streaming!Set(s, d)
  BY FreeIs DEF Streaming!Connect, Streaming!Idle
<1>2. n \in Streams \cup Int /\ n \in Int
  OBVIOUS
<1>3. CallGood(call') /\ call'.op = "connect" /\ call'.s = s
  BY <1>1, <1>2, NoBytes DEF CallGood, StreamCallType
<1>4. StreamGood(s, d, call')
  BY <1>3, BuffersEmptied
<1> HIDE DEF d
<1> QED BY <1>1, <1>3, <1>4, InvAt, OneSet

LEMMA StreamConnectStep ==
  ASSUME StreamInv, NEW s \in Streams, Streaming!connect_endpoint(s) \/ Streaming!connect_query(s)
  PROVE  StreamInv'
<1>1. Streaming!Free /\ now' = now /\ written' = written /\ written' \in Nat
  BY InvAt DEF Streaming!connect_endpoint, Streaming!connect_query, Streaming!Uses
<1>2. CASE Streaming!Connect(s, 1) \/ Streaming!Connect(s, 2)
  BY <1>1, <1>2, ConnectStarts
<1>3. CASE /\ Streaming!Set(s, [Streaming!init_buffers(stream[s]) EXCEPT !.ec = "error"])
           /\ UNCHANGED call
  <2> DEFINE d == [Streaming!init_buffers(stream[s]) EXCEPT !.ec = "error"]
  <2>1. StreamGood(s, d, call)
    BY <1>1, BuffersEmptied
  <2>2. Streaming!Set(s, d) /\ UNCHANGED call
    BY <1>3
  <2> HIDE DEF d
  <2> QED BY <1>1, <2>1, <2>2, FreeSet
<1> QED BY <1>2, <1>3 DEF Streaming!connect_endpoint, Streaming!connect_query

(* The socket is another one, and nothing is buffered.                     *)
LEMMA OpenedStep ==
  ASSUME StreamInv, NEW s \in Streams, call.op = "connect", call.s = s,
         NEW st \in States, NEW ec \in Errors,
         Streaming!Set(s, [Streaming!Opened(stream[s], st) EXCEPT !.ec = ec]),
         CallGood(call'), call'.op \in {"none", "connect"}, call'.op = "none" \/ call'.s = s,
         now' = now, written' = written
  PROVE  StreamInv'
<1> DEFINE b == stream[s]
           o == Streaming!Opened(b, st)
           d == [o EXCEPT !.ec = ec]
<1>1. b \in StreamType /\ b.get = <<>> /\ b.put = <<>>
  BY InvAt DEF StreamGood
<1>2. Streaming!Set(s, d)
  OBVIOUS
<1> HIDE DEF b
<1>3. o \in StreamType /\ o.owed = <<>> /\ o.sock.in = <<>> /\ o.put = <<>> /\ o.get = <<>>
  BY <1>1, OpenedIs
<1> HIDE DEF o
<1>4. d \in StreamType /\ d.owed = <<>> /\ d.sock.in = <<>> /\ d.put = <<>> /\ d.get = <<>>
  BY <1>3, WithError
<1> HIDE DEF d
<1>5. StreamGood(s, d, call')
  BY <1>4, EmptyGood
<1> QED BY <1>2, <1>5, InvAt, OneSet

LEMMA NextCall ==
  ASSUME StreamInv, NEW s \in Streams, call.op = "connect", call.s = s, Streaming!NextEndpoint
  PROVE  CallGood(call') /\ call'.op = "connect" /\ call'.s = s
<1>1. call' = CallNext(call)
  BY DEF Streaming!NextEndpoint, CallNext
<1> QED BY <1>1, InvAt, CallNextGood

LEMMA ConnectLoopStep ==
  ASSUME StreamInv, NEW s \in Streams, Streaming!ConnectLoop(s)
  PROVE  StreamInv'
<1>1. call.op = "connect" /\ call.s = s /\ now' = now /\ written' = written
  BY DEF Streaming!ConnectLoop, Streaming!In
<1>0. {"", "error"} \subseteq Errors /\ {"closed", "up", "progress", "refused"} \subseteq States
  BY DEF Errors, States
<1>2. CASE call' = Streaming!Idle /\ UNCHANGED stream
  <2>1. /\ StreamGood(s, stream[s], call') /\ CallGood(call') /\ call'.op = "none"
    BY <1>1, <1>2, InvAt, EndedGood, IdleGood
  <2>2. Streaming!Set(s, stream[s])
    BY <1>2 DEF Streaming!Set, StreamInv
  <2> QED BY <1>1, <2>1, <2>2, InvAt, OneSet
<1>3. CASE Streaming!Returns(s, "error")
  BY <1>0, <1>1, <1>3, ReturnsStep
<1>4. CASE \E st \in {"closed", "refused"} :
              Streaming!Set(s, [Streaming!Opened(stream[s], st) EXCEPT !.ec = "error"])
           /\ Streaming!NextEndpoint
  BY <1>0, <1>1, <1>4, NextCall, OpenedStep
<1>5. CASE Streaming!Set(s, [Streaming!Opened(stream[s], "up") EXCEPT !.ec = ""])
           /\ call' = Streaming!Idle
  BY <1>0, <1>1, <1>5, IdleGood, OpenedStep
<1>6. CASE Streaming!Set(s, [Streaming!Opened(stream[s], "progress") EXCEPT !.ec = "error"])
           /\ Streaming!Goto("poll")
  <2>1. CallGood(call') /\ call'.op = "connect" /\ call'.s = s
    <3>1. call' = CallAt(call, "poll")
      BY <1>6 DEF Streaming!Goto, CallAt
    <3> QED BY <1>1, <3>1, InvAt, CallAtGood
  <2> QED BY <1>0, <1>1, <1>6, <2>1, OpenedStep
<1> QED BY <1>2, <1>3, <1>4, <1>5, <1>6 DEF Streaming!ConnectLoop

LEMMA PollStep ==
  ASSUME StreamInv, NEW s \in Streams, Streaming!PollReturns(s) \/ Streaming!PollFails(s)
  PROVE  StreamInv'
<1>1. call.s = s /\ now' = now /\ written' = written
  BY DEF Streaming!PollReturns, Streaming!PollFails, Streaming!In
<1>0. {"", "error"} \subseteq Errors
  BY DEF Errors
<1>2. CASE Streaming!Goto("loop") /\ UNCHANGED stream
  <2>1. /\ CallGood(call') /\ call'.op = call.op /\ call'.s = call.s /\ call'.out = call.out
    <3>1. call' = CallAt(call, "loop")
      BY <1>2 DEF Streaming!Goto, CallAt
    <3> QED BY <3>1, InvAt, CallAtGood
  <2>2. StreamGood(s, stream[s], call') /\ Streaming!Set(s, stream[s])
    BY <1>2, <2>1, InvAt, SameCallGood DEF Streaming!Set, StreamInv
  <2> QED BY <1>1, <2>1, <2>2, InvAt, OneSet
<1>3. CASE call.op # "overflow" /\ (Streaming!Returns(s, "") \/ Streaming!Returns(s, "error"))
  BY <1>0, <1>1, <1>3, ReturnsStep
<1>4. CASE call.op = "overflow" /\ Streaming!OverflowFails(s)
  BY <1>1, <1>4, OverflowFailsStep
<1>5. CASE /\ call.op = "connect" /\ Streaming!NextEndpoint
           /\ Streaming!Set(s, [stream[s] EXCEPT !.ec = "error"])
  <2> DEFINE d == [stream[s] EXCEPT !.ec = "error"]
  <2>1. CallGood(call') /\ call'.op = "connect" /\ call'.s = s
    BY <1>1, <1>5, NextCall
  <2>2. StreamGood(s, d, call)
    BY <1>0, InvAt, ErrorGood
  <2>3. Streaming!Set(s, d)
    BY <1>5
  <2> HIDE DEF d
  <2>4. StreamGood(s, d, call')
    BY <1>1, <1>5, <2>1, <2>2 DEF StreamGood
  <2> QED BY <1>1, <2>1, <2>3, <2>4, InvAt, OneSet
<1>6. CASE Streaming!PollReturns(s)
  BY <1>2, <1>3, <1>5, <1>6 DEF Streaming!PollReturns, Streaming!SocketError
<1>7. CASE Streaming!PollFails(s)
  BY <1>3, <1>4, <1>5, <1>7 DEF Streaming!PollFails
<1> QED BY <1>6, <1>7

-----------------------------------------------------------------------------
(* The peer, the kernel and the clock. *)

WithSock(b, sock) == [b EXCEPT !.sock = sock]

LEMMA WithSockIs ==
  ASSUME NEW b \in StreamType, NEW sock \in SockType
  PROVE  LET d == WithSock(b, sock)
         IN  /\ d \in StreamType /\ d.put = b.put /\ d.get = b.get /\ d.owed = b.owed
             /\ d.live = b.live /\ d.clean = b.clean /\ d.buffered = b.buffered
             /\ d.sock = sock
BY DEF WithSock, StreamType

(* One more byte has come in, or none.                                     *)
LEMMA SockStep ==
  ASSUME StreamInv, NEW s \in Streams, NEW sock \in SockType,
         Streaming!Set(s, WithSock(stream[s], sock)),
         \/ /\ sock.in = stream[s].sock.in
            /\ sock.offered = stream[s].sock.offered
         \/ /\ sock.offered = stream[s].sock.offered + 1
            /\ sock.in = Append(stream[s].sock.in, sock.offered),
         call' = call, now' = now, written' = written
  PROVE  StreamInv'
<1> DEFINE b == stream[s]
           d == WithSock(b, sock)
<1>1. b \in StreamType /\ StreamGood(s, b, call) /\ CallGood(call) /\ b.sock \in SockType
  BY InvAt DEF StreamType
<1>2. Streaming!Set(s, d)
  OBVIOUS
<1>3. \/ sock.in = b.sock.in /\ sock.offered = b.sock.offered
      \/ sock.offered = b.sock.offered + 1 /\ sock.in = Append(b.sock.in, b.sock.offered + 1)
  OBVIOUS
<1> HIDE DEF b
<1>4. /\ d \in StreamType /\ d.put = b.put /\ d.get = b.get /\ d.owed = b.owed
      /\ d.live = b.live /\ d.clean = b.clean /\ d.buffered = b.buffered
      /\ d.sock = sock
  BY <1>1, WithSockIs
<1> HIDE DEF d
<1>5. b.get \in Seq(Nat) /\ b.sock.in \in Seq(Nat) /\ b.sock.offered \in Nat
  BY <1>1 DEF StreamType, SockType
<1>6. Follows(b.get \o b.sock.in, b.sock.offered) => Follows(d.get \o sock.in, sock.offered)
  BY <1>3, <1>4, <1>5, FollowsAppend
<1>7. StreamGood(s, d, call')
  BY <1>1, <1>4, <1>6 DEF StreamGood
<1>8. call.op = "none" \/ call.s = s \/ Elsewhere(s, call)
  BY DEF Elsewhere
<1>9. ASSUME NEW x \in Streams PROVE StreamGood(x, stream'[x], call')
  <2>1. CASE x = s
    BY <1>2, <1>7, <2>1 DEF Streaming!Set, StreamInv
  <2>2. CASE x # s
    <3>1. stream'[x] = stream[x]
      BY <1>2, <2>2 DEF Streaming!Set, StreamInv
    <3> QED BY <3>1, InvAt
  <2> QED BY <2>1, <2>2
<1> QED BY <1>1, <1>2, <1>9 DEF Streaming!Set, StreamInv

WithByte(k) == [k EXCEPT !.offered = @ + 1, !.in = Append(@, k.offered + 1)]

LEMMA WithByteIs ==
  ASSUME NEW k \in SockType
  PROVE  LET d == WithByte(k)
         IN  /\ d \in SockType /\ d.offered = k.offered + 1
             /\ d.in = Append(k.in, d.offered)
<1> DEFINE n == k.offered + 1
           in == Append(k.in, n)
           e == [k EXCEPT !.offered = n]
           d == [e EXCEPT !.in = in]
<1>1. k.in \in Seq(Nat) /\ k.offered \in Nat /\ n \in Nat /\ in \in Seq(Nat)
  BY DEF SockType
<1>2. WithByte(k) = d
  BY DEF WithByte, SockType
<1> HIDE DEF n, in
<1>3. e \in SockType /\ e.offered = n
  BY <1>1 DEF SockType
<1> HIDE DEF e
<1>4. d \in SockType /\ d.offered = n /\ d.in = in
  BY <1>1, <1>3 DEF SockType
<1> QED BY <1>2, <1>4 DEF n, in

LEMMA PeerStep ==
  ASSUME StreamInv, NEW s \in Streams,
         Streaming!PeerSends(s) \/ Streaming!PeerFinishes(s) \/ Streaming!PeerAnswers(s)
  PROVE  StreamInv'
<1> DEFINE b == stream[s]
           k == b.sock
<1>1. b \in StreamType /\ k \in SockType /\ k.in \in Seq(Nat) /\ k.offered \in Nat
  BY InvAt DEF StreamType, SockType
<1>2. call' = call /\ now' = now /\ written' = written
  BY DEF Streaming!PeerSends, Streaming!PeerFinishes, Streaming!PeerAnswers
<1>3. CASE Streaming!PeerSends(s)
  <2> DEFINE sock == WithByte(k)
  <2>1. sock \in SockType /\ sock.offered = k.offered + 1 /\ sock.in = Append(k.in, sock.offered)
    <3> HIDE DEF k
    <3> QED BY <1>1, WithByteIs
  <2>2. Streaming!Set(s, WithSock(b, sock))
    BY <1>1, <1>3 DEF Streaming!PeerSends, WithSock, WithByte, StreamType
  <2> HIDE DEF sock
  <2> QED BY <1>2, <2>1, <2>2, SockStep
<1>4. CASE Streaming!PeerFinishes(s)
  <2> DEFINE sock == [k EXCEPT !.eof = TRUE]
  <2>1. sock \in SockType /\ sock.offered = k.offered /\ sock.in = k.in
    <3> HIDE DEF k
    <3> QED BY <1>1 DEF SockType
  <2>2. Streaming!Set(s, WithSock(b, sock))
    BY <1>1, <1>4 DEF Streaming!PeerFinishes, WithSock, StreamType
  <2> HIDE DEF sock
  <2> QED BY <1>2, <2>1, <2>2, SockStep
<1>5. CASE Streaming!PeerAnswers(s)
  <2>1. PICK st \in {"up", "refused"} : Streaming!Set(s, [b EXCEPT !.sock.st = st])
    BY <1>5 DEF Streaming!PeerAnswers
  <2> DEFINE sock == [k EXCEPT !.st = st]
  <2>2. sock \in SockType /\ sock.offered = k.offered /\ sock.in = k.in
    <3> HIDE DEF k
    <3> QED BY <1>1 DEF SockType, States
  <2>3. Streaming!Set(s, WithSock(b, sock))
    BY <1>1, <2>1 DEF WithSock, StreamType
  <2> HIDE DEF sock
  <2> QED BY <1>2, <2>2, <2>3, SockStep
<1> QED BY <1>3, <1>4, <1>5

-----------------------------------------------------------------------------
LEMMA StreamInit == MCInit => StreamInv
<1> SUFFICES ASSUME MCInit PROVE StreamInv
  OBVIOUS
<1>1. /\ stream = [x \in Streams |-> Streaming!NoStream]
      /\ call = Streaming!Idle /\ now = 0 /\ written = 0
  BY DEF MCInit, Streaming!Init
<1>2. ASSUME NEW x \in Streams PROVE StreamGood(x, stream[x], call)
  BY <1>1, NoIs, IdleGood, EmptyGood
<1> QED BY <1>1, <1>2, IdleGood DEF StreamInv

LEMMA StreamNext == StreamInv /\ Streaming!Next => StreamInv'
<1> SUFFICES ASSUME StreamInv, Streaming!Next PROVE StreamInv'
  OBVIOUS
<1>1. ASSUME NEW s \in Streams, Streaming!Program(s) PROVE StreamInv'
  BY <1>1, ConstructStep, ExpiryStep, SetbufStep, SputcStep, SbumpcStep, OverflowStep,
     UnderflowStep, StreamConnectStep, MoveConstructStep, MoveAssignStep DEF Streaming!Program
<1>2. ASSUME NEW s \in Streams,
             \/ Streaming!PeerSends(s) \/ Streaming!PeerFinishes(s) \/ Streaming!PeerAnswers(s)
             \/ Streaming!PollFails(s)
      PROVE  StreamInv'
  BY <1>2, PeerStep, PollStep
<1>3. CASE Streaming!CallStep
  BY <1>3, SendLoopStep, RecvLoopStep, ConnectLoopStep, PollStep DEF Streaming!CallStep
<1>4. CASE Streaming!Tick
  BY <1>4 DEF Streaming!Tick, StreamInv
<1> QED BY <1>1, <1>2, <1>3, <1>4 DEF Streaming!Next

LEMMA StreamStep == StreamInv /\ [MCNext]_allVars => StreamInv'
<1> SUFFICES ASSUME StreamInv, [MCNext]_allVars PROVE StreamInv'
  OBVIOUS
<1>1. (part = "stream" /\ Streaming!Next) \/ UNCHANGED stream_vars
  BY Parted
<1>2. CASE UNCHANGED stream_vars
  BY <1>2 DEF stream_vars, StreamInv
<1> QED BY <1>1, <1>2, StreamNext

LEMMA StreamSafe == StreamInv => StreamInOrder
<1> SUFFICES ASSUME StreamInv, NEW s \in Streams, stream[s].live, stream[s].clean
             PROVE  LET b == stream[s]
                        sending == call.op = "overflow" /\ call.s = s /\ b.buffered
                        unread == b.get \o b.sock.in
                    IN  /\ b.owed = IF sending THEN call.out ELSE b.put
                        /\ unread = Streaming!Drop(Streaming!Counted(b.sock.offered),
                                                   b.sock.offered - Len(unread))
  BY DEF StreamInOrder, Streaming!StreamInOrder
<1> DEFINE b == stream[s]
           unread == b.get \o b.sock.in
<1>1. b \in StreamType /\ StreamGood(s, b, call)
  BY InvAt
<1>2. unread \in Seq(Nat) /\ b.sock.offered \in Nat
  BY <1>1 DEF StreamType, SockType
<1>3. Follows(unread, b.sock.offered)
  BY <1>1 DEF StreamGood
<1> QED BY <1>1, <1>2, <1>3, FollowsIs DEF StreamGood

(* What a streambuf sends and what it reads: every byte once and in order, *)
(* unless it forgets some (clean in SocketStream), for any buffer size and *)
(* any number of streambufs and bytes.                                     *)
THEOREM StreamsInOrder == MCSpec => []StreamInOrder
<1>1. MCInit => StreamInv
  BY StreamInit
<1>2. StreamInv /\ [MCNext]_allVars => StreamInv'
  BY StreamStep
<1>3. StreamInv => StreamInOrder
  BY StreamSafe
<1> QED BY <1>1, <1>2, <1>3, PTL DEF MCSpec

-----------------------------------------------------------------------------
(* The resolver service: what is proved of Resolver holds of its instance  *)
(* here, step for step.                                                    *)
R == INSTANCE ResolverProof WITH ops <- lookups

LEMMA SameInit == Resolving!Init => R!Init
BY DEF Resolving!Init, R!Init, Resolving!NoObject, R!NoObject

LEMMA SameProgram == \A r : Resolving!Program(r) => R!Program(r)
BY DEF Resolving!Program, R!Program, Resolving!async_resolve, R!async_resolve,
   Resolving!Start, R!Start, Resolving!Alive, R!Alive, Resolving!NextKind,
   R!NextKind, Resolving!NoObject, R!NoObject, Resolving!Null, R!Null, Resolving!Op,
   R!Op, Resolving!start_resolve_op, R!start_resolve_op,
   Resolving!start_work_thread, R!start_work_thread,
   Resolving!async_resolve_endpoint, R!async_resolve_endpoint,
   Resolving!async_resolve_protocol, R!async_resolve_protocol, Resolving!cancel,
   R!cancel, Resolving!Cancelled, R!Cancelled, Resolving!Nobody, R!Nobody,
   Resolving!Waiting, R!Waiting, Resolving!FreshToken, R!FreshToken,
   Resolving!Tokens, R!Tokens, Resolving!Cardinality, R!Cardinality,
   Resolving!construct, R!construct, Resolving!destroy, R!destroy,
   Resolving!move_assign, R!move_assign, Resolving!MoveToken, R!MoveToken,
   Resolving!Owned, R!Owned, Resolving!move_construct, R!move_construct,
   Resolving!resolve, R!resolve, Resolving!service_resolve, R!service_resolve,
   Resolving!Answered, R!Answered, Resolving!Freed, R!Freed, Resolving!Answers,
   R!Answers, Resolving!resolve_endpoint, R!resolve_endpoint,
   Resolving!sync_getnameinfo, R!sync_getnameinfo, Resolving!resolve_protocol,
   R!resolve_protocol

LEMMA SameNext == Resolving!Next => R!Next
<1> SUFFICES ASSUME Resolving!Next PROVE R!Next
  OBVIOUS
<1>1. ASSUME NEW r \in Resolvers, Resolving!Program(r) PROVE R!Next
  BY <1>1, SameProgram DEF R!Next
<1>2. Resolving!Post => R!Post
  BY DEF Resolving!Post, R!Post, Resolving!PostToWorker, R!PostToWorker,
     Resolving!Set, R!Set
<1>3. Resolving!WorkerStep => R!WorkerStep
  BY DEF Resolving!WorkerStep, R!WorkerStep, Resolving!LookupEnds, R!LookupEnds,
     Resolving!Answers, R!Answers, Resolving!PassBack, R!PassBack, Resolving!Set,
     R!Set, Resolving!post_deferred_completion, R!post_deferred_completion,
     Resolving!sync_getnameinfo, R!sync_getnameinfo, Resolving!WorkerEnds,
     R!WorkerEnds, Resolving!WorkerTakes, R!WorkerTakes, Resolving!Begin, R!Begin,
     Resolving!Expired, R!Expired, Resolving!Null, R!Null
<1>4. Resolving!MainStep => R!MainStep
  BY DEF Resolving!MainStep, R!MainStep, Resolving!Invoke, R!Invoke, Resolving!Freed,
     R!Freed, Resolving!Nobody, R!Nobody, Resolving!Null, R!Null, Resolving!Set,
     R!Set, Resolving!RunMain, R!RunMain, Resolving!RunReturns, R!RunReturns
<1>5. Resolving!ForkStep \/ Resolving!fork_prepare => R!ForkStep \/ R!fork_prepare
  BY DEF Resolving!ForkStep, R!ForkStep, Resolving!ForkJoins, R!ForkJoins,
     Resolving!Joined, R!Joined, Resolving!fork_done, R!fork_done,
     Resolving!Restarted, R!Restarted, Resolving!fork_prepare, R!fork_prepare,
     Resolving!Alive, R!Alive, Resolving!NobodyCalls, R!NobodyCalls
<1>6. Resolving!ShutdownStep \/ Resolving!base_shutdown => R!ShutdownStep \/ R!base_shutdown
  BY DEF Resolving!ShutdownStep, R!ShutdownStep, Resolving!ShutdownJoins,
     R!ShutdownJoins, Resolving!BoundIn, R!BoundIn, Resolving!Cardinality,
     R!Cardinality, Resolving!ToSet, R!ToSet, Resolving!Destroyed, R!Destroyed,
     Resolving!Freed, R!Freed, Resolving!Nobody, R!Nobody, Resolving!Null, R!Null,
     Resolving!Joined, R!Joined, Resolving!scheduler_shutdown, R!scheduler_shutdown,
     Resolving!base_shutdown, R!base_shutdown, Resolving!Alive, R!Alive,
     Resolving!NobodyCalls, R!NobodyCalls
<1> QED BY <1>1, <1>2, <1>3, <1>4, <1>5, <1>6 DEF Resolving!Next, R!Next

LEMMA SameSafe ==
  /\ R!WorkCoversLookups => Resolving!WorkCoversLookups
  /\ R!CancelHonoured => Resolving!CancelHonoured
  /\ R!HandlerWorkHeld => Resolving!HandlerWorkHeld
BY DEF Resolving!WorkCoversLookups, R!WorkCoversLookups, Resolving!Outstanding,
   R!Outstanding, Resolving!CancelHonoured, R!CancelHonoured, Resolving!Begun,
   R!Begun, Resolving!Aborted, R!Aborted, Resolving!HandlerWorkHeld, R!HandlerWorkHeld,
   Resolving!FinishedEarly, R!FinishedEarly, Resolving!Cardinality, R!Cardinality

LEMMA SettingHolds == R!Setting
BY LookupsAssumption DEF R!Setting, R!Kinds, R!Nobody, IsFiniteSet, R!IsFiniteSet

LookupsInv == R!IInv /\ R!HandlerInv

LEMMA LookupsInit == MCInit => LookupsInv
BY SameInit, SettingHolds, R!InductiveInit, R!HandlerInit DEF MCInit, LookupsInv

LEMMA LookupsStep == LookupsInv /\ [MCNext]_allVars => LookupsInv'
<1> SUFFICES ASSUME LookupsInv, [MCNext]_allVars PROVE LookupsInv'
  OBVIOUS
<1>1. [R!Next]_R!vars
  BY Parted, SameNext DEF resolve_vars, R!vars
<1>2. R!IInv'
  BY <1>1, SettingHolds, R!InductiveStep DEF LookupsInv
<1>3. R!TypeOK /\ R!PlaceInv /\ R!HandlerInv
  BY DEF LookupsInv, R!IInv
<1>4. R!HandlerInv'
  BY <1>1, <1>3, SettingHolds, R!HandlerStep
<1> QED BY <1>2, <1>4 DEF LookupsInv

(* The resolver service, for any number of resolvers, lookups and forks,   *)
(* whether the main io_context has one thread or several: the work counts  *)
(* of both io_contexts and of a handler's executor cover the lookups under *)
(* way, the latter but for one for every lookup of an endpoint that has    *)
(* come back from the worker; cancel(), the destructor and a move          *)
(* assignment abort those that have not begun; others are aborted only if  *)
(* they were made with a resolver that had been moved from.                *)
THEOREM LookupsAreSound == MCSpec => []LookupsSound
<1>1. MCInit => LookupsInv
  BY LookupsInit
<1>2. LookupsInv /\ [MCNext]_allVars => LookupsInv'
  BY LookupsStep
<1>3. LookupsInv => LookupsSound
  <2>1. R!HandlerInv => R!HandlerWorkHeld
    BY DEF R!HandlerInv, R!Held, R!HandlerWorkHeld
  <2> QED BY <2>1, SameSafe, R!InductiveSafe DEF LookupsInv, LookupsSound
<1> QED BY <1>1, <1>2, <1>3, PTL DEF MCSpec
=============================================================================
