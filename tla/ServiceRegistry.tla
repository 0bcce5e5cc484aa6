--------------------------- MODULE ServiceRegistry ---------------------------
(***************************************************************************)
(* service_registry: the services of an execution_context, created on      *)
(* demand by several threads, notified of a fork, shut down and destroyed  *)
(* with the context.                                                       *)
(*                                                                         *)
(* The constructor of a service asks for the services it builds on, so     *)
(* that a call of use_service() is a stack of calls.  The mutex of the     *)
(* registry is not held while a constructor runs; the steps that are taken *)
(* while it is held are one action each.                                   *)
(***************************************************************************)
EXTENDS Naturals, Sequences, SequencesExt, FiniteSets

CONSTANTS
  Threads,
  Services,    \* service types; a type is the key of its service
  Uses,        \* what the constructor of a type asks for, in order
  MaxObjects   \* how many service objects are made

VARIABLES
  services,  \* the list from first_service_: newest first
  objects,   \* all service objects made: their key, their life, what they hold
  stack,     \* the calls of each thread
  returned,  \* what use_service() has given to somebody: <<key, object>>
  context,   \* "alive", "shutdown", "destroy" or "gone"
  fork       \* the fork event under way: the services still to notify, and those notified

vars == <<services, objects, stack, returned, context, fork>>

Frame(op, key) == [op |-> op, key |-> key, object |-> 0, pc |-> "start", next |-> 1]

(* Lookup under the mutex: keys_match() with every service in the list. *)
Find(key) == {n \in ToSet(services) : objects[n].key = key}
Found(key) == CHOOSE n \in Find(key) : TRUE
do_has_service(key) == Find(key) # {}

Busy(t) == stack[t] # <<>>
Top(t) == Last(stack[t])
SetTop(t, frame) == stack' = [stack EXCEPT ![t] = Append(Front(@), frame)]

(* The call at the top of the stack returns object n to its caller: the    *)
(* program, or the constructor that made the call.                         *)
Return(t, n, objs) ==
  LET below == Front(stack[t])
  IN  /\ returned' = returned \cup {<<Top(t).key, n>>}
      /\ IF below = <<>>
         THEN stack' = [stack EXCEPT ![t] = <<>>] /\ objects' = objs
         ELSE /\ stack' = [stack EXCEPT ![t] = [below EXCEPT ![Len(below)].next = @ + 1]]
              /\ objects' = [objs EXCEPT ![Last(below).object].uses = @ \cup {n}]

(* An exception leaves every call of the thread: what they were making is  *)
(* destroyed, the inner ones first.                                        *)
Throw(t) ==
  LET made == {stack[t][i].object : i \in DOMAIN stack[t]}
  IN  /\ stack' = [stack EXCEPT ![t] = <<>>]
      /\ objects' = [n \in DOMAIN objects |->
                       IF n \in made THEN [objects[n] EXCEPT !.life = "destroyed"] ELSE objects[n]]

----------------------------------------------------------------------------
(* use_service(), make_service() and add_service(). *)

use_service(t, key) ==
  /\ context = "alive" /\ ~Busy(t)
  /\ stack' = [stack EXCEPT ![t] = <<Frame("use", key)>>]
  /\ UNCHANGED <<services, objects, returned, context, fork>>

(* A new object is made before the registry is asked. *)
Make(t, frame) ==
  /\ Len(objects) < MaxObjects
  /\ objects' = Append(objects, [key |-> frame.key, life |-> "made", uses |-> {}])
  /\ stack' = [stack EXCEPT ![t] =
       Append(IF @ = <<>> THEN <<>> ELSE Front(@),
              [frame EXCEPT !.object = Len(objects) + 1, !.pc = "construct"])]

make_service(t, key) ==
  /\ context = "alive" /\ ~Busy(t)
  /\ Make(t, Frame("make", key))
  /\ UNCHANGED <<services, returned, context, fork>>

(* add_service() of an object the program has made, for this context or    *)
(* (foreign) for another one.                                              *)
add_service(t, key) ==
  /\ context = "alive" /\ ~Busy(t)
  /\ \E op \in {"make", "foreign"} : Make(t, Frame(op, key))
  /\ UNCHANGED <<services, returned, context, fork>>

(* do_use_service() up to the unlock. *)
Lookup(t) ==
  /\ Busy(t) /\ Top(t).pc = "start"
  /\ \/ do_has_service(Top(t).key) /\ Return(t, Found(Top(t).key), objects)
     \/ ~do_has_service(Top(t).key) /\ Make(t, Top(t)) /\ UNCHANGED returned
  /\ UNCHANGED <<services, context, fork>>

(* The constructor asks for the next service, or is through; that of a     *)
(* foreign one asks elsewhere.                                             *)
Construct(t) ==
  /\ Busy(t) /\ Top(t).pc = "construct"
  /\ LET needs == IF Top(t).op = "foreign" THEN <<>> ELSE Uses[Top(t).key]
     IN  IF Top(t).next <= Len(needs)
         THEN stack' = [stack EXCEPT ![t] = Append(@, Frame("use", needs[Top(t).next]))]
         ELSE SetTop(t, [Top(t) EXCEPT !.pc = "made"])
  /\ UNCHANGED <<services, objects, returned, context, fork>>

(* The constructor throws. *)
ConstructThrows(t) ==
  /\ Busy(t) /\ Top(t).pc = "construct"
  /\ Throw(t)
  /\ UNCHANGED <<services, returned, context, fork>>

PushFront(n) == <<n>> \o services

Registered(n) == [objects EXCEPT ![n].life = "registered"]
Destroyed(n) == [objects EXCEPT ![n].life = "destroyed"]

(* Mutant: the lock was released, and nobody looks again. *)
RegisterBlindly(t) ==
  /\ Busy(t) /\ Top(t).pc = "made" /\ Top(t).op = "use"
  /\ services' = PushFront(Top(t).object) /\ Return(t, Top(t).object, Registered(Top(t).object))
  /\ UNCHANGED <<context, fork>>

(* do_use_service() after the lock: another thread may have been faster;   *)
(* its service is returned, and auto_service_ptr destroys the new one.     *)
do_use_service(t) ==
  /\ Busy(t) /\ Top(t).pc = "made" /\ Top(t).op = "use"
  /\ LET mine == Top(t).object
     IN  \/ /\ do_has_service(Top(t).key)
            /\ Return(t, Found(Top(t).key), Destroyed(mine))
            /\ UNCHANGED services
         \/ /\ ~do_has_service(Top(t).key)
            /\ services' = PushFront(mine) /\ Return(t, mine, Registered(mine))
  /\ UNCHANGED <<context, fork>>

(* do_add_service(): a service of another context and a second service are *)
(* refused; who made the object (the scoped_ptr of make_service(), or the  *)
(* program) destroys it.                                                   *)
do_add_service(t) ==
  /\ Busy(t) /\ Top(t).pc = "made" /\ Top(t).op # "use"
  /\ LET mine == Top(t).object
         refused == Top(t).op = "foreign" \/ do_has_service(Top(t).key)
     IN  \/ /\ refused
            /\ Throw(t)
            /\ UNCHANGED <<services, returned>>
         \/ /\ ~refused
            /\ services' = PushFront(mine) /\ Return(t, mine, Registered(mine))
  /\ UNCHANGED <<context, fork>>

----------------------------------------------------------------------------
(* notify_fork(): the list is copied under the mutex, then the services    *)
(* are called one by one while other threads may add services.             *)

NoFork == [event |-> "none", todo |-> <<>>, done |-> <<>>]

notify_fork(event) ==
  /\ context = "alive" /\ fork.todo = <<>>
  /\ \/ event = "prepare" /\ fork.event = "none"
     \/ event \in {"parent", "child"} /\ fork.event = "prepare"
  /\ fork' = [event |-> event, done |-> <<>>,
              todo |-> IF event = "prepare" THEN services ELSE Reverse(services)]
  /\ UNCHANGED <<services, objects, stack, returned, context>>

NotifyService ==
  /\ fork.todo # <<>>
  /\ fork' = [fork EXCEPT !.todo = Tail(@), !.done = Append(@, Head(fork.todo))]
  /\ UNCHANGED <<services, objects, stack, returned, context>>

----------------------------------------------------------------------------
(* The destructor of the context; nobody else uses it any more. *)

shutdown ==
  /\ context = "alive" /\ fork.todo = <<>> /\ \A t \in Threads : ~Busy(t)
  /\ context' = "shutdown"
  /\ UNCHANGED <<services, objects, stack, returned, fork>>

LifeOf(life) == {n \in ToSet(services) : objects[n].life = life}

(* The first service of the list that has not been shut down. *)
NextToShutDown ==
  services[CHOOSE i \in DOMAIN services :
    /\ objects[services[i]].life = "registered"
    /\ \A j \in 1 .. i - 1 : objects[services[j]].life # "registered"]

shutdown_services ==
  /\ context = "shutdown"
  /\ \/ /\ LifeOf("registered") # {}
        /\ objects' = [objects EXCEPT ![NextToShutDown].life = "shut"]
        /\ UNCHANGED context
     \/ LifeOf("registered") = {} /\ context' = "destroy" /\ UNCHANGED objects
  /\ UNCHANGED <<services, stack, returned, fork>>

destroy_services ==
  /\ context = "destroy"
  /\ \/ /\ services # <<>>
        /\ objects' = Destroyed(Head(services))
        /\ services' = Tail(services)
        /\ UNCHANGED context
     \/ services = <<>> /\ context' = "gone" /\ UNCHANGED <<services, objects>>
  /\ UNCHANGED <<stack, returned, fork>>

----------------------------------------------------------------------------
Init ==
  /\ services = <<>> /\ objects = <<>>
  /\ stack = [t \in Threads |-> <<>>]
  /\ returned = {}
  /\ context = "alive"
  /\ fork = NoFork

Next ==
  \/ \E t \in Threads :
       \/ \E key \in Services : use_service(t, key) \/ make_service(t, key) \/ add_service(t, key)
       \/ Lookup(t) \/ Construct(t) \/ ConstructThrows(t)
       \/ do_use_service(t) \/ do_add_service(t)
  \/ \E event \in {"prepare", "parent", "child"} : notify_fork(event)
  \/ NotifyService \/ shutdown \/ shutdown_services \/ destroy_services

Spec == Init /\ [][Next]_vars

----------------------------------------------------------------------------
(* However the calls of several threads interleave, there is at most one   *)
(* service of a type, everybody is given the same one, and it stays        *)
(* registered as long as the context lives, also when constructors fail    *)
(* or make_service() finds the service there already.                      *)
OneServicePerKey ==
  /\ \A n, m \in ToSet(services) : objects[n].key = objects[m].key => n = m
  /\ \A r, s \in returned : r[1] = s[1] => r[2] = s[2]
  /\ context = "alive" => \A r \in returned : r[2] \in ToSet(services)

Alive(n) == objects[n].life # "destroyed"
Position(n) == CHOOSE i \in DOMAIN services : services[i] = n

(* No service outlives one that it uses: whatever a constructor was given  *)
(* was registered before it, is shut down and destroyed after it, and none *)
(* is destroyed while others have still to be shut down, whose handlers    *)
(* may own objects of it.  Every object is owned by the registry or by the *)
(* call that makes it, and destroyed in the end.  Of a fork a service      *)
(* hears before what it uses when it is prepared, and after it in the      *)
(* parent and the child.                                                   *)
UsedOutlivesUser ==
  /\ \A n \in DOMAIN objects : Alive(n) =>
       /\ \A m \in objects[n].uses : Alive(m)
       /\ n \in ToSet(services) \/ \E t \in Threads : \E i \in DOMAIN stack[t] : stack[t][i].object = n
  /\ \A n \in ToSet(services) :
       \A m \in objects[n].uses : m \in ToSet(services) /\ Position(n) < Position(m)
  /\ context = "shutdown" =>
       \A n \in ToSet(services) : objects[n].life = "registered" =>
         \A m \in objects[n].uses : objects[m].life = "registered"
  /\ \A i, j \in DOMAIN fork.done : i < j =>
       IF fork.event = "prepare" THEN fork.done[i] \notin objects[fork.done[j]].uses
       ELSE fork.done[j] \notin objects[fork.done[i]].uses
=============================================================================
