----------------------------- MODULE MCObjects -----------------------------
(***************************************************************************)
(* One instance for the objects a program holds, in which TLC chooses a    *)
(* kind of them and follows it alone: sockets, their options, the services *)
(* of a context, networks and addresses, the heap of a timer queue, and    *)
(* executors.  The parts share no variable; those not chosen rest in an    *)
(* initial state.                                                          *)
(***************************************************************************)
EXTENDS Socket, Sequences

CONSTANTS
  MaxHops,                              \* of SocketOptions
  Callers, Services, MaxObjects, Uses,  \* of ServiceRegistry
  Contexts, Pools, System, Variables, MaxImpls, MaxHandlers  \* of Executor

ASSUME HopsAssumption == MaxHops \in Nat

ASSUME ServicesAssumption == Uses \in [Services -> Seq(Services)]

(* The system context is a pool; "main" is the thread that runs no context, *)
(* "none" the target of an implementation that is not in use.               *)
ASSUME ExecutorsAssumption ==
  /\ IsFiniteSet(Contexts) /\ IsFiniteSet(Variables)
  /\ System \in Pools /\ Pools \subseteq Contexts /\ "main" \notin Contexts /\ "none" \notin Contexts
  /\ MaxImpls \in Nat /\ MaxHandlers \in Nat

VARIABLE part
Parts == {"sockets", "options", "services", "networks", "heap", "execute"}

----------------------------------------------------------------------------
(* Programs that accept connections, hand sockets around, and transfer     *)
(* data with each kind of socket.                                          *)

MCObjects == {"a", "s", "t"}

Program(class, api, most) ==
  [class |-> [o \in MCObjects |-> IF o \in DOMAIN class THEN class[o] ELSE "unused"],
   api |-> [o \in MCObjects |-> IF o \in DOMAIN api THEN api[o] ELSE {}],
   ops |-> most]

(* Accepts connections and hands sockets around. *)
Server ==
  LET socket_api == {"construct", "close", "release", "assign", "move", "destroy"}
  IN  Program([a |-> "acceptor", s |-> "stream", t |-> "stream"],
              [a |-> {"construct", "close", "accept", "async_accept"},
               s |-> socket_api, t |-> socket_api], 1)

(* Uses the modes and options of an acceptor, and accepts into one socket. *)
Listener ==
  Program([a |-> "acceptor", s |-> "stream"],
          [a |-> {"open", "listen", "close", "accept", "async_accept", "mode",
                  "set_option", "query"},
           s |-> {"destroy"}], 1)

Keeper ==
  Program([a |-> "acceptor", s |-> "stream"],
          [a |-> {"construct", "release", "assign", "async_accept"}, s |-> {"close"}], 2)

Waiter ==
  Program([a |-> "acceptor"],
          [a |-> {"open", "bind", "listen", "wait", "async_wait", "mode", "cancel",
                  "destroy"}], 1)

(* Hands sockets of the other kinds, and acceptors, around. *)
Mover(type) ==
  LET api == {"construct", "move"}
  IN  Program([s |-> type, t |-> type],
              [s |-> api \cup {IF type = "acceptor" THEN "async_accept" ELSE "async_receive"},
               t |-> api], 1)

(* Connects; receives, in competition with the reactor; sends. *)
Client(type) ==
  Program([s |-> type],
          [s |-> {"construct", "bind", "connect", "async_connect", "mode", "shutdown", "close",
                  "query", "set_option", "destroy", "cancel"}], 1)

Receiver(type) ==
  LET transfers == {"open", "connect", "receive", "async_receive", "mode", "shutdown", "close"}
  IN  IF type = "stream" THEN Program([s |-> type], [s |-> transfers], 2)
      ELSE Program([s |-> type], [s |-> transfers \cup {"wait", "async_wait"}], 1)

Sender(type) ==
  Program([s |-> type],
          [s |-> {"open", "connect", "send", "async_send", "mode", "shutdown", "close"}],
          IF type = "stream" THEN 2 ELSE 1)

MCPrograms ==
  {Server, Listener, Keeper, Waiter} \cup {Mover(type) : type \in {"acceptor", "datagram", "raw"}}
    \cup UNION {{Client(type), Receiver(type), Sender(type)} : type \in Types}

socket_vars == <<prog, impl, kern, native, ops, call, cleared>>

----------------------------------------------------------------------------
VARIABLES option, object, kernel, said, read
option_vars == <<option, object, kernel, said, read>>
Options == INSTANCE SocketOptions

(* The service "a" asks for "b" when it is constructed. *)
MCUses == [a |-> <<"b">>, b |-> <<>>]

VARIABLES services, objects, stack, returned, context, fork
service_vars == <<services, objects, stack, returned, context, fork>>
Registry == INSTANCE ServiceRegistry WITH Threads <- Callers

(* Addresses of two bytes of two bits. *)
VARIABLES family, net, iter, visited
network_vars == <<family, net, iter, visited>>
Networks == INSTANCE IpNetwork WITH it <- iter, Bits <- 2, Bytes <- 2

VARIABLES queue, waiting
heap_vars == <<queue, waiting>>
Heap == INSTANCE TimerHeap WITH Timers <- 1 .. 6, Nil <- 0

VARIABLES contexts, impls, handles, frame, submitted, invoked
execute_vars == <<contexts, impls, handles, frame, submitted, invoked>>
Executing == INSTANCE Executor WITH context <- contexts

----------------------------------------------------------------------------
Some(S) == CHOOSE x \in S : TRUE

MCInit ==
  /\ part \in Parts
  /\ Init /\ (part # "sockets" => prog = Waiter)
  /\ Options!Init
  /\ part # "options" =>
       /\ option = Some(Options!Options)
       /\ kernel = [f \in Options!Family |-> Some(Options!KernelInit)]
  /\ Networks!Init /\ (part # "networks" => family = "v4" /\ net = Some(Networks!Networks))
  /\ Registry!Init /\ Heap!Init /\ Executing!Init

Keep(p, variables) == IF part = p THEN TRUE ELSE UNCHANGED variables

(* A step of the part that is followed. *)
In(p, Step) ==
  /\ part = p /\ Step
  /\ UNCHANGED part
  /\ Keep("sockets", socket_vars) /\ Keep("options", option_vars)
  /\ Keep("services", service_vars) /\ Keep("networks", network_vars)
  /\ Keep("heap", heap_vars) /\ Keep("execute", execute_vars)

MCNext ==
  \/ In("sockets", Next) \/ In("options", Options!Next)
  \/ In("services", Registry!Next) \/ In("networks", Networks!Next)
  \/ In("heap", Heap!Next) \/ In("execute", Executing!Next)

allVars ==
  <<part, socket_vars, option_vars, service_vars, network_vars, heap_vars, execute_vars>>

MCSpec == MCInit /\ [][MCNext]_allVars

----------------------------------------------------------------------------
(* Properties.  OneOwner, FlagsTrue, NoOrphans and ModeHonoured are those  *)
(* of Socket.                                                              *)

(* Every socket option class: what is set on a socket, or by the kernel,   *)
(* is what the object reads back.                                          *)
OptionReadsBack == part = "options" => Options!OptionReadsBack

(* service_registry: one service for a key whatever threads race for it,   *)
(* and none is destroyed before those that use it.                         *)
RegistrySound ==
  part = "services" => Registry!OneServicePerKey /\ Registry!UsedOutlivesUser

(* network_v4, network_v6 and the address iterators and ranges.            *)
NetworksSound == part = "networks" => Networks!HostsWalked /\ Networks!SubnetIsSubset

(* timer_queue: the heap and the list stay consistent, and the ready       *)
(* timers come out in the order of their expiry.                           *)
HeapSound == part = "heap" => Heap!HeapConsistent /\ Heap!ReadyInOrder

(* executor and work_dispatcher: implementations are freed with their last *)
(* reference, and not before; thread_pool and system_context: join() waits *)
(* for every handler.                                                      *)
ExecutorsSound == part = "execute" => Executing!ReferencesExact /\ Executing!JoinMeansDone
=============================================================================
