------------------------- MODULE MCSchedulerPrograms -------------------------
(***************************************************************************)
(* Two programs in one instance: TLC chooses one and follows it.  The      *)
(* first runs three threads in run() and uses every way of handing in      *)
(* work; the second makes every kind of event-loop call, its handlers      *)
(* throw, and it destroys the io_context; two threads at a time take part  *)
(* in it, none of them with one_thread_.                                   *)
(***************************************************************************)
EXTENDS MCScheduler

VARIABLE program

AnyProgram == INSTANCE Scheduler WITH Api <- AnyCall, OneThread <- {FALSE}

MCInit ==
  \/ program = "run" /\ Init
  \/ program = "any" /\ AnyProgram!Init

TakesPart(t) == pc[t] # "out" \/ t \in signalling

TwoTakePart == Cardinality({t \in Threads : TakesPart(t)}) <= 2

(* A step of the program that is followed. *)
In(p, Step) == program = p /\ Step /\ UNCHANGED program

MCNext == In("run", Next) \/ In("any", AnyProgram!Next /\ TwoTakePart')

MCSpec == MCInit /\ [][MCNext]_<<vars, program>>

(* The first program alone, with the fairness of Scheduler: what must      *)
(* eventually happen.  The cfg names the calls it makes.                   *)
LiveInit == program = "run" /\ Init

LiveSpec == LiveInit /\ [][MCNext]_<<vars, program>> /\ Fairness
=============================================================================
