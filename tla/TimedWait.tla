----------------------------- MODULE TimedWait -----------------------------
(***************************************************************************)
(* io_context::run_one_until (and run_one_for, run_until, run_for, which   *)
(* call it) while another thread has the reactor: each round of its loop   *)
(* sleeps in posix_event::wait_for_usec for at most a second.              *)
(*                                                                         *)
(* Time is counted in ticks, Second of them to a second: a timespec is the *)
(* pair (time \div Second, time % Second) of tv_sec and tv_nsec.           *)
(***************************************************************************)
EXTENDS Integers

CONSTANTS
  Second,   \* ticks in a second
  MaxTime   \* nobody waits for a later time

VARIABLES
  now,
  abs_time,  \* the argument of run_one_until
  phase,     \* "idle", "loop" at the loop's head, "asked" about to call wait_one,
             \* "blocked" inside wait_for_usec
  looked,    \* what the loop read from the clock
  started,   \* what wait_for_usec read from it, later
  usec,      \* the argument of wait_for_usec
  ts,        \* the absolute deadline it passes to pthread_cond_timedwait
  queued,    \* an operation is in the queue, and the event was signalled
  stopped,   \* stopped_
  returned   \* what the last call returned

vars == <<now, abs_time, phase, looked, started, usec, ts, queued, stopped, returned>>
round == <<looked, started, usec, ts>>

Time == 0..MaxTime

Init ==
  /\ now \in 0..(Second - 1)
  /\ abs_time = 0 /\ phase = "idle"
  /\ looked = 0 /\ started = 0 /\ usec = 0 /\ ts = 0
  /\ queued = FALSE /\ stopped = FALSE /\ returned = 0

run_one_until(a) ==
  /\ phase = "idle" /\ ~stopped
  /\ abs_time' = a
  /\ phase' = "loop"
  /\ UNCHANGED <<now, round, queued, stopped, returned>>

(* A round asks for what is left, but for a second at most. *)
RoundTime(rel_time) == IF rel_time > Second THEN Second ELSE rel_time

(* ts.tv_sec = now's seconds + usec / 1000000; ts.tv_nsec is assigned, not  *)
(* added to; the carry is then moved to tv_sec.                             *)
Deadline(t, u) ==
  LET tv_sec == t \div Second + u \div Second
      tv_nsec == u % Second
  IN  (tv_sec + tv_nsec \div Second) * Second + (tv_nsec % Second)

Return(n) == phase' = "idle" /\ returned' = n

(* The variables of a round are gone when it is over. *)
RoundOver == looked' = 0 /\ started' = 0 /\ usec' = 0 /\ ts' = 0

(* Head of the loop: it reads the clock, and asks for what is left. *)
Round ==
  /\ phase = "loop" /\ now < abs_time
  /\ phase' = "asked"
  /\ looked' = now
  /\ usec' = RoundTime(abs_time - now)
  /\ UNCHANGED <<now, abs_time, started, ts, queued, stopped, returned>>

(* wait_one, under the scheduler's mutex: it finds an operation, or sleeps  *)
(* until a deadline it takes from the clock anew.                           *)
wait_one ==
  /\ phase = "asked"
  /\ IF stopped THEN Return(0) /\ RoundOver /\ UNCHANGED queued
     ELSE IF queued THEN Return(1) /\ RoundOver /\ queued' = FALSE
     ELSE /\ phase' = "blocked"
          /\ started' = now
          /\ ts' = Deadline(now, usec)
          /\ UNCHANGED <<looked, usec, queued, returned>>
  /\ UNCHANGED <<now, abs_time, stopped>>

GiveUp ==
  /\ phase = "loop" /\ now >= abs_time
  /\ Return(0)
  /\ UNCHANGED <<now, abs_time, round, queued, stopped>>

(* Mutant: the loop ends after a round that brought nothing. *)
StopAfterRound == Return(0)

(* No operation: wait_one returned 0, and the loop looks at stopped() and   *)
(* at the clock.                                                            *)
NothingCame == IF stopped THEN Return(0) ELSE phase' = "loop" /\ UNCHANGED returned

(* pthread_cond_timedwait returns. *)
Wake ==
  /\ phase = "blocked"
  /\ queued \/ stopped \/ now >= ts
  /\ IF queued THEN Return(1) /\ queued' = FALSE
     ELSE NothingCame /\ UNCHANGED queued
  /\ RoundOver
  /\ UNCHANGED <<now, abs_time, stopped>>

Post == queued' = TRUE /\ ~queued
          /\ UNCHANGED <<now, abs_time, phase, round, stopped, returned>>

Stop == stopped' = TRUE /\ ~stopped
          /\ UNCHANGED <<now, abs_time, phase, round, queued, returned>>

(* The clock goes on past its bound for a thread that sleeps until later.  *)
Tick == (now < MaxTime \/ (phase = "blocked" /\ now < ts)) /\ now' = now + 1
          /\ UNCHANGED <<abs_time, phase, round, queued, stopped, returned>>

Next ==
  \/ \E a \in Time : run_one_until(a)
  \/ Round \/ wait_one \/ GiveUp \/ Wake \/ Post \/ Stop \/ Tick

Spec == Init /\ [][Next]_vars

(* The clock advances, and a runnable thread runs.  *)
FairSpec == Spec /\ WF_vars(Tick) /\ SF_vars(Round \/ wait_one \/ GiveUp \/ Wake)

-----------------------------------------------------------------------------
(* Properties.                                                             *)

(* A wait that nobody ends lasts as long as it was asked to: wait_for_usec  *)
(* is a "Timed wait for the event to become signalled."                     *)
WaitsAsLongAsAsked ==
  [][phase = "blocked" /\ phase' # "blocked" /\ ~queued /\ ~stopped
       => now >= started + usec]_vars

(* No round sleeps past the time the caller gave by more than the clock     *)
(* advanced between the loop's look at it and that of wait_for_usec, which  *)
(* adds the relative time to a later now.                                   *)
NeverSleepsPast == phase = "blocked" => ts <= abs_time + (started - looked)

(* run_one_until returns zero only when its time has come or the loop was   *)
(* stopped, however often the waits inside it end early.                    *)
ZeroMeansTimeIsUp ==
  [][phase # "idle" /\ phase' = "idle" /\ returned' = 0 => stopped \/ now >= abs_time]_vars

(* Every call returns. *)
UnderWay == phase # "idle"
CallReturns == UnderWay ~> ~UnderWay
=============================================================================
