------------------------------ MODULE MCCalls ------------------------------
(***************************************************************************)
(* One instance for everything a thread calls and waits for, in which TLC  *)
(* chooses a part of the library and follows it alone: composed reads and  *)
(* writes, the walk over buffers they are made of, connect(), the          *)
(* resolver, socket streams and the timed run functions.  The parts share  *)
(* no variable; those not chosen rest in an initial state.                 *)
(***************************************************************************)
EXTENDS ComposedOps

CONSTANTS
  MaxEndpoints,                                   \* of Connect
  Resolvers, Lookups, MaxForks, Bound, MovedFrom, \* of Resolver
  Streams, PutSize, MaxOut, MaxIn, LastExpiry,    \* of SocketStream
  Second, LastTick                                \* of TimedWait

ASSUME LookupsAssumption ==
  /\ IsFiniteSet(Resolvers) /\ "nobody" \notin Resolvers
  /\ Lookups \in Seq({"query", "endpoint"})

ASSUME TimesAssumption == MaxEndpoints \in Nat /\ Second \in Nat \ {0} /\ LastTick \in Nat

ASSUME StreamsAssumption == PutSize \in Nat /\ LastExpiry \in Nat

VARIABLE part
Parts == {"composed", "walk", "connect", "resolve", "stream", "wait"}

----------------------------------------------------------------------------
(* Composed operations: buffer sequences with empty buffers at every       *)
(* place, one of each C++ kind; a delimiter that can arrive in two parts;  *)
(* limits below, at and above what is sent.                                *)

Container(data, n) == [data |-> data, n |-> n, width |-> 1]
Sequence(kind, bs) == [kind |-> kind, buffers |-> bs]

MCBufferSequences ==
  { Sequence("single", <<of_memory(1, 3)>>),
    Sequence("single", <<of_vector(Container(1, 0))>>),
    Sequence("two", <<of_array(Container(4, 2)), of_std_array(Container(0, 2))>>),
    Sequence("two", <<of_string(Container(4, 0)), of_memory(0, 2)>>),
    Sequence("many", <<>>),
    Sequence("many", <<of_vector(Container(5, 2)), of_string(Container(3, 0)), of_memory(0, 3)>>),
    Sequence("many", <<NullBuffer, of_memory(3, 0), Limit(of_memory(0, 2), 1), of_memory(2, 2)>>) }

MCConditions ==
  { [type |-> "all", n |-> 0], [type |-> "at_least", n |-> 2],
    [type |-> "exactly", n |-> 0], [type |-> "exactly", n |-> 2],
    [type |-> "exactly", n |-> 5], [type |-> "bool", n |-> 1] }

MCStrings == {<<>>, <<1>>, <<2, 1>>, <<1, 2, 1>>}
MCMaxSizes == {0, 2, 5, 15}
MCInputs == {<<>>, <<1, 2>>, <<2, 1, 1, 2>>, <<1, 1, 2, 2, 1>>}
MCDelims == {<<2>>, <<1, 2>>, <<1, 1, 2>>, <<2, 2, 2>>}

composed_vars == <<op, memory, feed, got, output, turn>>

----------------------------------------------------------------------------
(* Every layout of up to three buffers of up to two bytes, in reverse      *)
(* order in memory.                                                        *)

Layout(sizes, base) == [i \in DOMAIN sizes |-> of_memory(base + 3 * (3 - i), sizes[i])]
Layouts(base) == UNION {{Layout(s, base) : s \in [1 .. n -> 0 .. 2]} : n \in 0 .. 3}

VARIABLES bufs, it, place, hops, walk_memory, copied
walk_vars == <<bufs, it, place, hops, walk_memory, copied>>
Walk == INSTANCE BufferWalk WITH
  memory <- walk_memory, Sequences_ <- Layouts(0), Targets <- Layouts(10),
  Memory <- 0 .. 18, MaxHops <- 3

(* connect() over a sequence of endpoints. *)
VARIABLES conn, open, peer, tried, closed
connect_vars == <<conn, open, peer, tried, closed>>
Connecting == INSTANCE Connect

(* Two lookups with two resolvers and a fork; the handler of the first has *)
(* an executor of its own.                                                 *)
MCLookups == <<"query", "endpoint">>

VARIABLES locking, impl, lookups, worker, main, bound, service, fork, forks
resolve_vars == <<locking, impl, lookups, worker, main, bound, service, fork, forks>>
Resolving == INSTANCE Resolver WITH ops <- lookups

(* Streambufs. *)
VARIABLES stream, call, now, written
stream_vars == <<stream, call, now, written>>
Streaming == INSTANCE SocketStream WITH MaxTime <- LastExpiry

(* run_one_until. *)
VARIABLES clock, abs_time, phase, looked, started, usec, ts, queued, stopped, returned
wait_vars ==
  <<clock, abs_time, phase, looked, started, usec, ts, queued, stopped, returned>>
Waiting == INSTANCE TimedWait WITH now <- clock, MaxTime <- LastTick

----------------------------------------------------------------------------
MCInit ==
  /\ part \in Parts
  /\ Init /\ (part # "composed" => feed = <<>>)
  /\ Walk!Init /\ (part # "walk" => bufs = <<>>)
  /\ Connecting!Init /\ (part # "connect" => ~open)
  /\ Resolving!Init /\ (part # "resolve" => ~locking)
  /\ Streaming!Init
  /\ Waiting!Init /\ (part # "wait" => clock = 0)

Keep(p, variables) == IF part = p THEN TRUE ELSE UNCHANGED variables

(* A step of the part that is followed. *)
In(p, Step) ==
  /\ part = p /\ Step
  /\ UNCHANGED part
  /\ Keep("composed", composed_vars) /\ Keep("walk", walk_vars)
  /\ Keep("connect", connect_vars) /\ Keep("resolve", resolve_vars)
  /\ Keep("stream", stream_vars) /\ Keep("wait", wait_vars)

MCNext ==
  \/ In("composed", Next) \/ In("walk", Walk!Next)
  \/ In("connect", Connecting!Next) \/ In("resolve", Resolving!Next)
  \/ In("stream", Streaming!Next) \/ In("wait", Waiting!Next)

allVars ==
  <<part, composed_vars, walk_vars, connect_vars, resolve_vars, stream_vars, wait_vars>>

(* The fairness each module states, of the part that is followed; actions  *)
(* of different parts, of which one at most can happen, share a conjunct.  *)
MCFairness ==
  /\ WF_turn(Answers)
  /\ WF_allVars(\/ In("connect", Connecting!ConnectRound) \/ In("resolve", Resolving!Post)
                \/ In("stream", Streaming!CallStep) \/ In("wait", Waiting!Tick))
  /\ WF_allVars(\/ In("connect", Connecting!Invoke) \/ In("resolve", Resolving!WorkerStep)
                \/ In("stream", Streaming!Tick))
  /\ WF_allVars(In("connect", Connecting!AttemptEnds) \/ In("resolve", Resolving!MainStep))
  /\ WF_allVars(In("resolve", Resolving!ForkStep))
  /\ WF_allVars(In("resolve", Resolving!ShutdownStep))
  /\ SF_allVars(In("wait", Waiting!Round \/ Waiting!wait_one \/ Waiting!GiveUp \/ Waiting!Wake))

MCSpec == MCInit /\ [][MCNext]_allVars /\ MCFairness

----------------------------------------------------------------------------
(* Properties.  TransfersInOrder is that of ComposedOps.                   *)

(* read(), write() and read_until() in all their forms report what they    *)
(* did: the completion condition, what is left in a dynamic buffer, and    *)
(* the first delimiter; iterators over buffers and buffer_copy, on which   *)
(* they rest, find every byte in its place.                                *)
TransfersSound ==
  /\ part = "composed" =>
       ConditionHonoured /\ DynamicBufferKept /\ NoMissedMatch /\ FirstMatch
  /\ part = "walk" => Walk!WalkAndCopy

(* connect() and async_connect(): a success is a connection to the         *)
(* endpoint reported; the endpoints are tried in their order, all of them  *)
(* before a failure is reported, which is that of the last one - except    *)
(* that an operation object gives up where it finds the socket closed,     *)
(* which it also does after an open that failed, against what connect.hpp  *)
(* says (Connect, FoundClosed).                                            *)
ConnectSound ==
  part = "connect" =>
    /\ Connecting!SuccessIsConnected
    /\ Connecting!EveryEndpointInTurn
    /\ Connecting!FailureExplained

(* resolver_service: the work counts of both io_contexts cover the lookups *)
(* under way, and that of a handler's executor does but for the lookups of *)
(* endpoints, which give it up twice (Resolver, HandlerWorkHeld); cancel() *)
(* aborts those that have not begun, and others are aborted only if made   *)
(* with a resolver that had been moved from (CancelHonoured).              *)
LookupsSound ==
  part = "resolve" =>
    Resolving!WorkCoversLookups /\ Resolving!HandlerWorkHeld /\ Resolving!CancelHonoured

(* basic_socket_streambuf: on one connection bytes go out and come in once *)
(* and in order, unless the streambuf forgets some (SocketStream, clean).  *)
StreamInOrder == part = "stream" => Streaming!StreamInOrder

(* run_one_until returns zero only when its time has come or the loop was  *)
(* stopped, and a round of it sleeps past that time by no more than the    *)
(* clock advanced before it fell asleep.                                   *)
ZeroMeansTimeIsUp == Waiting!ZeroMeansTimeIsUp /\ []Waiting!NeverSleepsPast

(* No call waits for ever: composed operations on a stream that answers,   *)
(* connect() whose owner closes the socket, lookups over fork and          *)
(* shutdown, streams with an expiry time, run_one_until.                   *)
UnderSomeWay ==
  \/ UnderWay \/ Connecting!UnderWay \/ Resolving!UnderWay \/ Streaming!UnderWay
  \/ Waiting!UnderWay
CallsEnd == UnderSomeWay ~> ~UnderSomeWay
=============================================================================
