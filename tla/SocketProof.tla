---------------------------- MODULE SocketProof ----------------------------
(***************************************************************************)
(* Proofs about Socket for every program, any number of objects,           *)
(* descriptors and operations: descriptors have one owner, flags tell the  *)
(* truth, nothing is left pending on a descriptor nobody has, and the      *)
(* blocking calls honour the mode of their socket.                         *)
(*                                                                         *)
(* Most calls do one of a dozen things to objects, descriptors and         *)
(* operations.  The invariant World is an operator on these, and each      *)
(* thing that may be done to them is a lemma (Keeps...); a function that   *)
(* does several of them, as a move assignment does, uses several lemmas.   *)
(***************************************************************************)
EXTENDS Socket, InductionFacts

-----------------------------------------------------------------------------
(* The least descriptor and the least operation object that are free.      *)

LEMMA LeastNumber ==
  ASSUME NEW S, S \subseteq Nat, S # {}
  PROVE  \E i \in S : \A j \in S : i <= j
<1> SUFFICES ASSUME \A i \in S : \E j \in S : j < i PROVE FALSE
  OBVIOUS
<1> DEFINE T == {n \in Nat : \A i \in 0..n : i \notin S}
<1>1. 0 \in T
  <2>1. 0 \notin S
    OBVIOUS
  <2> QED BY <2>1
<1>2. ASSUME NEW n \in T PROVE n + 1 \in T
  <2>1. n + 1 \notin S
    BY <1>2
  <2> QED BY <1>2, <2>1
<1>3. T = Nat
  <2>1. T \subseteq Nat
    OBVIOUS
  <2> HIDE DEF T
  <2> QED BY <1>1, <1>2, <2>1, SetInduction
<1>4. PICK i \in S : TRUE
  OBVIOUS
<1>5. i \in T
  BY <1>3, <1>4
<1> QED BY <1>4, <1>5

LEMMA NewFdIsFree ==
  ASSUME FreeFds # {}
  PROVE  NewFd \in Fds /\ ~kern[NewFd].open
<1>1. FreeFds \subseteq Nat /\ FreeFds \subseteq Fds
  BY DEF FreeFds, Fds
<1>2. \E f \in FreeFds : \A g \in FreeFds : f <= g
  BY <1>1, LeastNumber
<1>3. NewFd \in FreeFds
  BY <1>2 DEF NewFd
<1> QED BY <1>3 DEF FreeFds

LEMMA SlotIsFree ==
  ASSUME prog \in Programs, Slots # {}
  PROVE  Slot \in OpIds /\ ops[Slot].status = "free"
<1>1. Slots \subseteq Nat /\ Slots \subseteq 1..prog.ops
  BY SocketAssumption DEF Slots
<1>2. \E i \in Slots : \A j \in Slots : i <= j
  BY <1>1, LeastNumber
<1>3. Slot \in Slots
  BY <1>2 DEF Slot
<1>4. prog.ops \in Nat /\ MaxOps \in Nat /\ prog.ops <= MaxOps
  <2>1. \E n \in {p.ops : p \in Programs} : \A p \in Programs : p.ops <= n
    BY SocketAssumption
  <2>2. MaxOps \in {p.ops : p \in Programs} /\ \A p \in Programs : p.ops <= MaxOps
    BY <2>1 DEF MaxOps
  <2> QED BY <2>2, SocketAssumption
<1> QED BY <1>1, <1>3, <1>4 DEF Slots, OpIds

-----------------------------------------------------------------------------
(* The invariant, on objects im, descriptors ke, the program's own na,     *)
(* operations op, and descriptors cl that it made blocking.                *)

SyncOps ==
  {"recv", "recvfrom", "send", "sendto", "connect", "accept",
   "wait_read", "wait_write", "wait_error"}
OpKinds == SyncOps \cup {"none", "move_accept"}

ImplType == [socket : 0..LastFd, state : SUBSET Flags]
OpType ==
  [kind : OpKinds, status : {"free", "pending", "posted"}, fd : 0..LastFd,
   state : SUBSET Flags, peer : Objects \cup {"none"}, new : 0..LastFd]

Typed(im, ke, na, op) ==
  /\ im \in [Objects -> ImplType] /\ ke \in [Fds -> Descriptor]
  /\ na \subseteq Fds /\ op \in [OpIds -> OpType]

(* Two owners never have the same descriptor ... *)
Apart(im, na, op) ==
  /\ \A o, p \in Objects : im[o].socket # 0 /\ im[o].socket = im[p].socket => o = p
  /\ \A i, j \in OpIds : op[i].new # 0 /\ op[i].new = op[j].new => i = j
  /\ \A o \in Objects, i \in OpIds : im[o].socket # 0 => im[o].socket # op[i].new
  /\ \A o \in Objects : im[o].socket \notin na
  /\ \A i \in OpIds : op[i].new \notin na

(* ... and those that are open have one. *)
HasOwner(im, na, op, f) ==
  f \in na \/ (\E o \in Objects : im[o].socket = f) \/ (\E i \in OpIds : op[i].new = f)

OpenOwned(im, ke, na, op) == \A f \in Fds : ke[f].open <=> HasOwner(im, na, op, f)

(* Flags st describe descriptor k. *)
Describes(st, k) ==
  /\ st \cap non_blocking # {} => k.nonblock
  /\ k.linger => st \cap {"user_set_linger", "possible_dup"} # {}
  /\ "stream_oriented" \in st => k.type = "stream"

Described(im, ke) ==
  \A o \in Objects : im[o].socket # 0 => Describes(im[o].state, ke[im[o].socket])

(* What is pending is on an open object's descriptor, and only accept      *)
(* operations that are done hold one themselves.                           *)
PendingOK(im, ke, op, cl) ==
  \A i \in OpIds :
    /\ op[i].status = "pending" =>
         /\ op[i].new = 0 /\ op[i].fd # 0
         /\ \E o \in Objects : im[o].socket = op[i].fd
         /\ ke[op[i].fd].nonblock \/ op[i].fd \in cl
    /\ op[i].new # 0 => ke[op[i].new].type = "stream" /\ op[i].status = "posted"

World(im, ke, na, op, cl) ==
  /\ Typed(im, ke, na, op) /\ Apart(im, na, op) /\ OpenOwned(im, ke, na, op)
  /\ Described(im, ke) /\ PendingOK(im, ke, op, cl)

-----------------------------------------------------------------------------
(* What may be done to objects, descriptors and operations.                *)

(* What the parts of World say of an object and of a descriptor.           *)
LEMMA WorldParts ==
  ASSUME NEW im, NEW ke, NEW na, NEW op, NEW cl, World(im, ke, na, op, cl)
  PROVE  /\ \A o \in Objects : im[o] \in ImplType /\ im[o].socket \in 0..LastFd
         /\ \A o \in Objects : im[o].socket # 0 => /\ im[o].socket \in Fds
                                                   /\ ke[im[o].socket].open
         /\ \A f \in Fds : ke[f] \in Descriptor
         /\ \A i \in OpIds : op[i] \in OpType /\ op[i].new \in 0..LastFd
         /\ \A i \in OpIds : op[i].new # 0 => op[i].new \in Fds /\ ke[op[i].new].open
         /\ \A f \in na : f \in Fds /\ f # 0 /\ ke[f].open
<1>1. LastFd \in Nat
  BY SocketAssumption
<1>2. \A o \in Objects : im[o] \in ImplType
  BY DEF World, Typed
<1>3. \A i \in OpIds : op[i] \in OpType
  BY DEF World, Typed
<1>4. \A f \in Fds : ke[f] \in Descriptor
  BY DEF World, Typed
<1>5. \A f \in na : f \in Fds /\ f # 0
  BY <1>1 DEF World, Typed, Fds
<1>6. \A o \in Objects : im[o].socket \in 0..LastFd
  BY <1>2 DEF ImplType
<1>7. \A i \in OpIds : op[i].new \in 0..LastFd
  BY <1>3 DEF OpType
<1>8. \A f \in 0..LastFd : f # 0 => f \in Fds
  BY <1>1 DEF Fds
<1>9. \A f \in Fds : HasOwner(im, na, op, f) => ke[f].open
  BY DEF World, OpenOwned
<1> QED BY <1>2, <1>3, <1>4, <1>5, <1>6, <1>7, <1>8, <1>9 DEF HasOwner

(* A system call that leaves the mode, the linger option and the type of   *)
(* an open descriptor alone.                                               *)
KeepsFile(k, m) ==
  /\ m \in Descriptor
  /\ m.open = k.open /\ m.nonblock = k.nonblock /\ m.linger = k.linger /\ m.type = k.type

LEMMA KeepsTalk ==
  ASSUME NEW im, NEW ke, NEW na, NEW op, NEW cl, World(im, ke, na, op, cl),
         NEW f \in Fds, NEW m, KeepsFile(ke[f], m)
  PROVE  World(im, [ke EXCEPT ![f] = m], na, op, cl)
<1>1. PICK ke2 : ke2 = [ke EXCEPT ![f] = m]
  OBVIOUS
<1>2. ke2 \in [Fds -> Descriptor]
  BY <1>1 DEF World, Typed, KeepsFile
<1>3. \A g \in Fds : /\ ke2[g].open = ke[g].open /\ ke2[g].nonblock = ke[g].nonblock
                     /\ ke2[g].linger = ke[g].linger /\ ke2[g].type = ke[g].type
  BY <1>1 DEF World, Typed, KeepsFile
<1>4. /\ \A o \in Objects : im[o].socket # 0 => im[o].socket \in Fds
      /\ \A i \in OpIds : op[i].new # 0 => op[i].new \in Fds
  BY WorldParts
<1>5. Typed(im, ke2, na, op) /\ Apart(im, na, op)
  BY <1>2 DEF World, Typed
<1>6. OpenOwned(im, ke2, na, op)
  BY <1>3 DEF World, OpenOwned
<1>7. Described(im, ke2)
  BY <1>3, <1>4 DEF World, Described, Describes
<1>8. PendingOK(im, ke2, op, cl)
  BY <1>3, <1>4 DEF World, PendingOK
<1>9. World(im, ke2, na, op, cl)
  BY <1>5, <1>6, <1>7, <1>8 DEF World
<1> QED BY <1>1, <1>9

(* Operations that hold no descriptor end. *)
Ended(op, op2) ==
  /\ op2 \in [OpIds -> OpType]
  /\ \A i \in OpIds : op2[i] = op[i] \/ (op[i].new = 0 /\ op2[i] = NoOp)

LEMMA KeepsEnd ==
  ASSUME NEW im, NEW ke, NEW na, NEW op, NEW cl, World(im, ke, na, op, cl),
         NEW op2, Ended(op, op2)
  PROVE  World(im, ke, na, op2, cl)
<1>1. \A i \in OpIds : /\ op2[i].new = op[i].new
                       /\ op2[i].status = "pending" => op2[i] = op[i]
                       /\ op2[i].new # 0 => op2[i] = op[i]
  BY DEF Ended, NoOp
<1>2. Typed(im, ke, na, op2)
  BY DEF World, Typed, Ended
<1>3. Apart(im, na, op2)
  BY <1>1 DEF World, Apart
<1>4. OpenOwned(im, ke, na, op2)
  BY <1>1 DEF World, OpenOwned, HasOwner
<1>5. PendingOK(im, ke, op2, cl)
  BY <1>1 DEF World, PendingOK
<1> QED BY <1>2, <1>3, <1>4, <1>5 DEF World

(* A descriptor nobody has is opened for an object that has none.          *)
LEMMA KeepsOpen ==
  ASSUME NEW im, NEW ke, NEW na, NEW op, NEW cl, World(im, ke, na, op, cl),
         NEW o \in Objects, im[o].socket = 0, NEW f \in Fds, ~ke[f].open,
         NEW m \in Descriptor, m.open, NEW st \in SUBSET Flags, Describes(st, m)
  PROVE  World([im EXCEPT ![o] = [socket |-> f, state |-> st]], [ke EXCEPT ![f] = m], na, op, cl)
<1>1. PICK im2 : im2 = [im EXCEPT ![o] = [socket |-> f, state |-> st]]
  OBVIOUS
<1>2. PICK ke2 : ke2 = [ke EXCEPT ![f] = m]
  OBVIOUS
<1>3. LastFd \in Nat /\ f \in 0..LastFd /\ f # 0
  BY SocketAssumption DEF Fds
<1>4. ke2 \in [Fds -> Descriptor] /\ im2 \in [Objects -> ImplType]
  BY <1>1, <1>2, <1>3 DEF World, Typed, ImplType
<1>5. /\ im2[o].socket = f /\ im2[o].state = st
      /\ \A p \in Objects : p # o => im2[p] = im[p]
  BY <1>1 DEF World, Typed
<1>6. ke2[f] = m /\ \A g \in Fds : g # f => ke2[g] = ke[g]
  BY <1>2 DEF World, Typed
<1>7. ~HasOwner(im, na, op, f)
  BY DEF World, OpenOwned
<1>8. Typed(im2, ke2, na, op)
  BY <1>4 DEF World, Typed
<1>9. Apart(im2, na, op)
  BY <1>3, <1>5, <1>7 DEF World, Apart, HasOwner
<1>10. OpenOwned(im2, ke2, na, op)
  <2> SUFFICES ASSUME NEW g \in Fds PROVE ke2[g].open <=> HasOwner(im2, na, op, g)
    BY DEF OpenOwned
  <2>1. CASE g = f
    BY <2>1, <1>5, <1>6 DEF HasOwner
  <2>2. CASE g # f
    <3>1. g # 0
      BY <1>3 DEF Fds
    <3>2. HasOwner(im2, na, op, g) <=> HasOwner(im, na, op, g)
      BY <2>2, <3>1, <1>5 DEF HasOwner
    <3> QED BY <2>2, <3>2, <1>6 DEF World, OpenOwned
  <2> QED BY <2>1, <2>2
<1>11. \A p \in Objects : p # o /\ im[p].socket # 0 => im[p].socket \in Fds /\ im[p].socket # f
  BY <1>7, WorldParts DEF HasOwner
<1>12. Described(im2, ke2)
  BY <1>5, <1>6, <1>11 DEF World, Described
<1>13. PendingOK(im2, ke2, op, cl)
  <2> SUFFICES ASSUME NEW i \in OpIds
               PROVE  /\ op[i].status = "pending" =>
                           /\ op[i].new = 0 /\ op[i].fd # 0
                           /\ \E p \in Objects : im2[p].socket = op[i].fd
                           /\ ke2[op[i].fd].nonblock \/ op[i].fd \in cl
                      /\ op[i].new # 0 => /\ ke2[op[i].new].type = "stream"
                                          /\ op[i].status = "posted"
    BY DEF PendingOK
  <2>1. op[i].new # 0 => op[i].new \in Fds /\ op[i].new # f
    BY <1>7, WorldParts DEF HasOwner
  <2>2. ASSUME op[i].status = "pending"
        PROVE  \E p \in Objects : p # o /\ im[p].socket = op[i].fd /\ op[i].fd # 0
    BY <2>2 DEF World, PendingOK
  <2> QED BY <2>1, <2>2, <1>5, <1>6, <1>11 DEF World, PendingOK
<1>14. World(im2, ke2, na, op, cl)
  BY <1>8, <1>9, <1>10, <1>12, <1>13 DEF World
<1> QED BY <1>1, <1>2, <1>14

(* Nothing is pending on descriptor f. *)
Unused(op, f) == \A i \in OpIds : op[i].status = "pending" => op[i].fd # f

(* An object's descriptor is closed.                                       *)
LEMMA KeepsClose ==
  ASSUME NEW im, NEW ke, NEW na, NEW op, NEW cl, World(im, ke, na, op, cl),
         NEW o \in Objects, NEW f, im[o].socket = f, f # 0, Unused(op, f)
  PROVE  World([im EXCEPT ![o] = constructed], [ke EXCEPT ![f] = Closed], na, op, cl \ {f})
<1>1. PICK im2 : im2 = [im EXCEPT ![o] = constructed]
  OBVIOUS
<1>2. PICK ke2 : ke2 = [ke EXCEPT ![f] = Closed]
  OBVIOUS
<1>3. LastFd \in Nat /\ f \in Fds /\ ke[f].open
  BY SocketAssumption, WorldParts
<1>4. /\ Closed \in Descriptor /\ ~Closed.open /\ constructed \in ImplType
      /\ constructed.socket = 0
  BY <1>3, QueuesAssumption DEF Closed, Descriptor, Types, Links, constructed, ImplType,
     invalid_socket
<1>5. ke2 \in [Fds -> Descriptor] /\ im2 \in [Objects -> ImplType]
  BY <1>1, <1>2, <1>4 DEF World, Typed
<1>6. im2[o].socket = 0 /\ \A p \in Objects : p # o => im2[p] = im[p]
  BY <1>1, <1>4 DEF World, Typed
<1>7. ~ke2[f].open /\ \A g \in Fds : g # f => ke2[g] = ke[g]
  BY <1>2, <1>3, <1>4 DEF World, Typed
<1>8. Typed(im2, ke2, na, op)
  BY <1>5 DEF World, Typed
<1>9. Apart(im2, na, op)
  <2>1. \A p \in Objects : im2[p].socket # 0 => im2[p].socket = im[p].socket
    BY <1>6
  <2>2. 0 \notin na
    BY WorldParts
  <2> QED BY <2>1, <2>2, <1>6 DEF World, Apart
<1>10. ~HasOwner(im2, na, op, f)
  BY <1>6 DEF World, Apart, HasOwner
<1>11. OpenOwned(im2, ke2, na, op)
  <2> SUFFICES ASSUME NEW g \in Fds PROVE ke2[g].open <=> HasOwner(im2, na, op, g)
    BY DEF OpenOwned
  <2>1. CASE g = f
    BY <2>1, <1>7, <1>10
  <2>2. CASE g # f
    <3>1. g # 0
      BY DEF Fds
    <3>2. HasOwner(im2, na, op, g) <=> HasOwner(im, na, op, g)
      BY <2>2, <3>1, <1>6 DEF HasOwner
    <3> QED BY <2>2, <3>2, <1>7 DEF World, OpenOwned
  <2> QED BY <2>1, <2>2
<1>12. \A p \in Objects : p # o /\ im[p].socket # 0 => im[p].socket \in Fds /\ im[p].socket # f
  BY WorldParts DEF World, Apart
<1>13. Described(im2, ke2)
  BY <1>6, <1>7, <1>12 DEF World, Described
<1>14. PendingOK(im2, ke2, op, cl \ {f})
  <2> SUFFICES ASSUME NEW i \in OpIds
               PROVE  /\ op[i].status = "pending" =>
                           /\ op[i].new = 0 /\ op[i].fd # 0
                           /\ \E p \in Objects : im2[p].socket = op[i].fd
                           /\ ke2[op[i].fd].nonblock \/ op[i].fd \in cl \ {f}
                      /\ op[i].new # 0 => /\ ke2[op[i].new].type = "stream"
                                          /\ op[i].status = "posted"
    BY DEF PendingOK
  <2>1. op[i].new # 0 => op[i].new \in Fds /\ op[i].new # f
    BY WorldParts DEF World, Apart
  <2>2. ASSUME op[i].status = "pending"
        PROVE  \E p \in Objects : p # o /\ im[p].socket = op[i].fd /\ op[i].fd # 0 /\ op[i].fd # f
    BY <2>2 DEF World, PendingOK, Unused
  <2> QED BY <2>1, <2>2, <1>6, <1>7, <1>12 DEF World, PendingOK
<1>15. World(im2, ke2, na, op, cl \ {f})
  BY <1>8, <1>9, <1>11, <1>13, <1>14 DEF World
<1> QED BY <1>1, <1>2, <1>15

(* An object that has no descriptor loses its flags.                       *)
LEMMA KeepsReset ==
  ASSUME NEW im, NEW ke, NEW na, NEW op, NEW cl, World(im, ke, na, op, cl),
         NEW o \in Objects, im[o].socket = 0
  PROVE  World([im EXCEPT ![o] = constructed], ke, na, op, cl)
<1>1. PICK im2 : im2 = [im EXCEPT ![o] = constructed]
  OBVIOUS
<1>2. LastFd \in Nat
  BY SocketAssumption
<1>3. constructed \in ImplType /\ constructed.socket = 0
  BY <1>2 DEF constructed, ImplType, invalid_socket
<1>4. im2 \in [Objects -> ImplType]
  BY <1>1, <1>3 DEF World, Typed
<1>5. /\ \A p \in Objects : im2[p].socket = im[p].socket
      /\ \A p \in Objects : im2[p].socket # 0 => im2[p] = im[p]
  BY <1>1, <1>3 DEF World, Typed
<1>6. Typed(im2, ke, na, op) /\ Apart(im2, na, op)
  BY <1>4, <1>5 DEF World, Typed, Apart
<1>7. OpenOwned(im2, ke, na, op)
  BY <1>5 DEF World, OpenOwned, HasOwner
<1>8. Described(im2, ke)
  BY <1>5 DEF World, Described
<1>9. PendingOK(im2, ke, op, cl)
  BY <1>5 DEF World, PendingOK
<1>10. World(im2, ke, na, op, cl)
  BY <1>6, <1>7, <1>8, <1>9 DEF World
<1> QED BY <1>1, <1>10

(* An object gives its descriptor to the program.                          *)
LEMMA KeepsRelease ==
  ASSUME NEW im, NEW ke, NEW na, NEW op, NEW cl, World(im, ke, na, op, cl),
         NEW o \in Objects, NEW f, im[o].socket = f, f # 0, Unused(op, f)
  PROVE  World([im EXCEPT ![o] = constructed], ke, na \cup {f}, op, cl \ {f})
<1>1. PICK im2 : im2 = [im EXCEPT ![o] = constructed]
  OBVIOUS
<1>3. LastFd \in Nat /\ f \in Fds
  BY SocketAssumption, WorldParts
<1>4. constructed \in ImplType /\ constructed.socket = 0
  BY <1>3 DEF constructed, ImplType, invalid_socket
<1>5. im2 \in [Objects -> ImplType]
  BY <1>1, <1>4 DEF World, Typed
<1>6. im2[o].socket = 0 /\ \A p \in Objects : p # o => im2[p] = im[p]
  BY <1>1, <1>4 DEF World, Typed
<1>8. Typed(im2, ke, na \cup {f}, op)
  BY <1>3, <1>5 DEF World, Typed
<1>9. Apart(im2, na \cup {f}, op)
  <2>1. \A p \in Objects : im2[p].socket # 0 => im2[p].socket = im[p].socket /\ p # o
    BY <1>6
  <2>2. 0 \notin na
    BY WorldParts
  <2> QED BY <2>1, <2>2, <1>6 DEF World, Apart
<1>11. OpenOwned(im2, ke, na \cup {f}, op)
  <2> SUFFICES ASSUME NEW g \in Fds
               PROVE  HasOwner(im2, na \cup {f}, op, g) <=> HasOwner(im, na, op, g)
    BY DEF World, OpenOwned
  <2>1. g # 0
    BY DEF Fds
  <2> QED BY <2>1, <1>6 DEF HasOwner
<1>13. Described(im2, ke)
  BY <1>6 DEF World, Described
<1>14. PendingOK(im2, ke, op, cl \ {f})
  <2>1. \A i \in OpIds : op[i].status = "pending" =>
          \E p \in Objects : p # o /\ im[p].socket = op[i].fd /\ op[i].fd # 0 /\ op[i].fd # f
    BY DEF World, PendingOK, Unused
  <2> QED BY <2>1, <1>6 DEF World, PendingOK
<1>15. World(im2, ke, na \cup {f}, op, cl \ {f})
  BY <1>8, <1>9, <1>11, <1>13, <1>14 DEF World
<1> QED BY <1>1, <1>15

(* An object without a descriptor takes that of another.                   *)
LEMMA KeepsMove ==
  ASSUME NEW im, NEW ke, NEW na, NEW op, NEW cl, World(im, ke, na, op, cl),
         NEW o \in Objects, NEW from \in Objects, o # from, im[o].socket = 0
  PROVE  World([im EXCEPT ![o] = im[from], ![from] = constructed], ke, na, op, cl)
<1>1. PICK im2 : im2 = [im EXCEPT ![o] = im[from], ![from] = constructed]
  OBVIOUS
<1>3. LastFd \in Nat
  BY SocketAssumption
<1>4. constructed \in ImplType /\ constructed.socket = 0
  BY <1>3 DEF constructed, ImplType, invalid_socket
<1>5. im2 \in [Objects -> ImplType]
  BY <1>1, <1>4 DEF World, Typed
<1>6. /\ im2[o] = im[from] /\ im2[from].socket = 0
      /\ \A p \in Objects : p # o /\ p # from => im2[p] = im[p]
  BY <1>1, <1>4 DEF World, Typed
<1>7. \A f : f # 0 => ((\E p \in Objects : im2[p].socket = f)
                        <=> (\E p \in Objects : im[p].socket = f))
  BY <1>6
<1>8. Typed(im2, ke, na, op)
  BY <1>5 DEF World, Typed
<1>9. Apart(im2, na, op)
  <2>1. \A p \in Objects : im2[p].socket # 0 =>
          IF p = o THEN im2[p] = im[from] ELSE p # from /\ im2[p] = im[p]
    BY <1>6
  <2>2. 0 \notin na
    BY WorldParts
  <2>3. \A p, r \in Objects : im2[p].socket # 0 /\ im2[p].socket = im2[r].socket => p = r
    BY <2>1 DEF World, Apart
  <2> QED BY <2>1, <2>2, <2>3 DEF World, Apart
<1>11. OpenOwned(im2, ke, na, op)
  <2>1. \A g \in Fds : g # 0
    BY DEF Fds
  <2> QED BY <2>1, <1>7 DEF World, OpenOwned, HasOwner
<1>13. Described(im2, ke)
  BY <1>6 DEF World, Described
<1>14. PendingOK(im2, ke, op, cl)
  BY <1>7 DEF World, PendingOK
<1>15. World(im2, ke, na, op, cl)
  BY <1>8, <1>9, <1>11, <1>13, <1>14 DEF World
<1> QED BY <1>1, <1>15

(* The program gives a descriptor of its own to an object.                 *)
LEMMA KeepsAssign ==
  ASSUME NEW im, NEW ke, NEW na, NEW op, NEW cl, World(im, ke, na, op, cl),
         NEW o \in Objects, im[o].socket = 0, NEW f \in na,
         NEW st \in SUBSET Flags, Describes(st, ke[f])
  PROVE  World([im EXCEPT ![o] = [socket |-> f, state |-> st]], ke, na \ {f}, op, cl)
<1>1. PICK im2 : im2 = [im EXCEPT ![o] = [socket |-> f, state |-> st]]
  OBVIOUS
<1>3. LastFd \in Nat /\ f \in Fds /\ f \in 0..LastFd /\ f # 0
  BY SocketAssumption DEF World, Typed, Fds
<1>4. im2 \in [Objects -> ImplType]
  BY <1>1, <1>3 DEF World, Typed, ImplType
<1>5. /\ im2[o].socket = f /\ im2[o].state = st
      /\ \A p \in Objects : p # o => im2[p] = im[p]
  BY <1>1 DEF World, Typed
<1>8. Typed(im2, ke, na \ {f}, op)
  BY <1>4 DEF World, Typed
<1>9. Apart(im2, na \ {f}, op)
  BY <1>3, <1>5 DEF World, Apart
<1>10. OpenOwned(im2, ke, na \ {f}, op)
  <2> SUFFICES ASSUME NEW g \in Fds
               PROVE  HasOwner(im2, na \ {f}, op, g) <=> HasOwner(im, na, op, g)
    BY DEF World, OpenOwned
  <2>1. g # 0
    BY DEF Fds
  <2> QED BY <2>1, <1>5 DEF HasOwner
<1>11. Described(im2, ke)
  BY <1>5 DEF World, Described
<1>12. PendingOK(im2, ke, op, cl)
  <2>1. \A i \in OpIds : op[i].status = "pending" =>
          \E p \in Objects : p # o /\ im[p].socket = op[i].fd
    BY DEF World, PendingOK
  <2> QED BY <2>1, <1>5 DEF World, PendingOK
<1>13. World(im2, ke, na \ {f}, op, cl)
  BY <1>8, <1>9, <1>10, <1>11, <1>12 DEF World
<1> QED BY <1>1, <1>13

(* The flags of an object and the mode or the linger option of its         *)
(* descriptor change together.                                             *)
LEMMA KeepsFlags ==
  ASSUME NEW im, NEW ke, NEW na, NEW op, NEW cl, World(im, ke, na, op, cl),
         NEW o \in Objects, NEW f, im[o].socket = f, f # 0,
         NEW st \in SUBSET Flags, NEW m \in Descriptor, m.open, Describes(st, m),
         m.type = ke[f].type,
         NEW cl2, cl \subseteq cl2, m.nonblock \/ Unused(op, f) \/ f \in cl2
  PROVE  World([im EXCEPT ![o].state = st], [ke EXCEPT ![f] = m], na, op, cl2)
<1>1. PICK im2 : im2 = [im EXCEPT ![o].state = st]
  OBVIOUS
<1>2. PICK ke2 : ke2 = [ke EXCEPT ![f] = m]
  OBVIOUS
<1>3. f \in Fds /\ ke[f].open
  BY WorldParts
<1>4. im[o] \in ImplType
  BY DEF World, Typed
<1>5. ke2 \in [Fds -> Descriptor] /\ im2 \in [Objects -> ImplType]
  BY <1>1, <1>2, <1>4 DEF World, Typed, ImplType
<1>6. /\ im2[o].socket = f /\ im2[o].state = st
      /\ \A p \in Objects : p # o => im2[p] = im[p]
  BY <1>1, <1>4 DEF World, Typed, ImplType
<1>7. ke2[f] = m /\ \A g \in Fds : g # f => ke2[g] = ke[g]
  BY <1>2, <1>3 DEF World, Typed
<1>8. \A p \in Objects : im2[p].socket = im[p].socket
  BY <1>6
<1>9. Typed(im2, ke2, na, op)
  BY <1>5 DEF World, Typed
<1>10. Apart(im2, na, op)
  BY <1>8 DEF World, Apart
<1>11. \A g \in Fds : ke2[g].open <=> ke[g].open
  BY <1>3, <1>7 DEF Descriptor, World, Typed
<1>12. OpenOwned(im2, ke2, na, op)
  BY <1>8, <1>11 DEF World, OpenOwned, HasOwner
<1>13. \A p \in Objects : p # o /\ im[p].socket # 0 => im[p].socket \in Fds /\ im[p].socket # f
  BY WorldParts DEF World, Apart
<1>14. Described(im2, ke2)
  BY <1>6, <1>7, <1>13 DEF World, Described
<1>15. PendingOK(im2, ke2, op, cl2)
  <2> SUFFICES ASSUME NEW i \in OpIds
               PROVE  /\ op[i].status = "pending" =>
                           /\ op[i].new = 0 /\ op[i].fd # 0
                           /\ \E p \in Objects : im2[p].socket = op[i].fd
                           /\ ke2[op[i].fd].nonblock \/ op[i].fd \in cl2
                      /\ op[i].new # 0 => /\ ke2[op[i].new].type = "stream"
                                          /\ op[i].status = "posted"
    BY DEF PendingOK
  <2>1. op[i].new # 0 => op[i].new \in Fds /\ op[i].new # f
    BY WorldParts DEF World, Apart
  <2>2. ASSUME op[i].status = "pending"
        PROVE  /\ op[i].new = 0 /\ op[i].fd # 0
               /\ \E p \in Objects : im2[p].socket = op[i].fd
               /\ ke2[op[i].fd].nonblock \/ op[i].fd \in cl2
    <3>1. /\ op[i].new = 0 /\ op[i].fd # 0
          /\ \E p \in Objects : im[p].socket = op[i].fd
          /\ ke[op[i].fd].nonblock \/ op[i].fd \in cl2
      BY <2>2 DEF World, PendingOK
    <3>2. op[i].fd \in Fds
      BY <3>1, WorldParts
    <3>3. op[i].fd = f => m.nonblock \/ f \in cl2
      BY <2>2 DEF Unused
    <3> QED BY <3>1, <3>2, <3>3, <1>7, <1>8
  <2> QED BY <2>1, <2>2, <1>7 DEF World, PendingOK
<1>16. World(im2, ke2, na, op, cl2)
  BY <1>9, <1>10, <1>12, <1>14, <1>15 DEF World
<1> QED BY <1>1, <1>2, <1>16

(* An operation is started on an object's descriptor.                      *)
LEMMA KeepsStart ==
  ASSUME NEW im, NEW ke, NEW na, NEW op, NEW cl, World(im, ke, na, op, cl),
         NEW o \in Objects, im[o].socket # 0, ke[im[o].socket].nonblock,
         NEW i \in OpIds, op[i].status = "free", NEW v \in OpType,
         v.status = "pending", v.new = 0, v.fd = im[o].socket
  PROVE  World(im, ke, na, [op EXCEPT ![i] = v], cl)
<1>1. PICK op2 : op2 = [op EXCEPT ![i] = v]
  OBVIOUS
<1>2. op2 \in [OpIds -> OpType] /\ op2[i] = v /\ \A j \in OpIds : j # i => op2[j] = op[j]
  BY <1>1 DEF World, Typed
<1>3. op[i].new = 0
  BY DEF World, PendingOK
<1>4. \A j \in OpIds : op2[j].new = op[j].new
  BY <1>2, <1>3
<1>5. Typed(im, ke, na, op2)
  BY <1>2 DEF World, Typed
<1>6. Apart(im, na, op2)
  BY <1>4 DEF World, Apart
<1>7. OpenOwned(im, ke, na, op2)
  BY <1>4 DEF World, OpenOwned, HasOwner
<1>8. PendingOK(im, ke, op2, cl)
  BY <1>2 DEF World, PendingOK
<1>9. World(im, ke, na, op2, cl)
  BY <1>5, <1>6, <1>7, <1>8 DEF World
<1> QED BY <1>1, <1>9

(* A new connection is given to an operation.                              *)
LEMMA KeepsHold ==
  ASSUME NEW im, NEW ke, NEW na, NEW op, NEW cl, World(im, ke, na, op, cl),
         NEW i \in OpIds, op[i].new = 0, NEW f \in Fds, ~ke[f].open,
         NEW m \in Descriptor, m.open, m.type = "stream",
         NEW v \in OpType, v.status = "posted", v.new = f
  PROVE  World(im, [ke EXCEPT ![f] = m], na, [op EXCEPT ![i] = v], cl)
<1>1. PICK op2 : op2 = [op EXCEPT ![i] = v]
  OBVIOUS
<1>2. PICK ke2 : ke2 = [ke EXCEPT ![f] = m]
  OBVIOUS
<1>3. op2 \in [OpIds -> OpType] /\ op2[i] = v /\ \A j \in OpIds : j # i => op2[j] = op[j]
  BY <1>1 DEF World, Typed
<1>4. /\ ke2 \in [Fds -> Descriptor] /\ ke2[f] = m
      /\ \A g \in Fds : g # f => ke2[g] = ke[g]
  BY <1>2 DEF World, Typed
<1>5. ~HasOwner(im, na, op, f) /\ f # 0
  BY DEF World, OpenOwned, Fds
<1>6. \A j \in OpIds : op2[j].new = IF j = i THEN f ELSE op[j].new
  BY <1>3
<1>7. Typed(im, ke2, na, op2)
  BY <1>3, <1>4 DEF World, Typed
<1>8. Apart(im, na, op2)
  BY <1>5, <1>6 DEF World, Apart, HasOwner
<1>9. OpenOwned(im, ke2, na, op2)
  <2> SUFFICES ASSUME NEW g \in Fds PROVE ke2[g].open <=> HasOwner(im, na, op2, g)
    BY DEF OpenOwned
  <2>1. CASE g = f
    BY <2>1, <1>4, <1>6 DEF HasOwner
  <2>2. CASE g # f
    <3>1. g # 0
      BY DEF Fds
    <3>2. HasOwner(im, na, op2, g) <=> HasOwner(im, na, op, g)
      BY <2>2, <3>1, <1>6 DEF HasOwner
    <3> QED BY <2>2, <3>2, <1>4 DEF World, OpenOwned
  <2> QED BY <2>1, <2>2
<1>10. \A p \in Objects : im[p].socket # 0 => im[p].socket \in Fds /\ im[p].socket # f
  BY <1>5, WorldParts DEF HasOwner
<1>11. Described(im, ke2)
  BY <1>4, <1>10 DEF World, Described
<1>12. PendingOK(im, ke2, op2, cl)
  <2> SUFFICES ASSUME NEW j \in OpIds
               PROVE  /\ op2[j].status = "pending" =>
                           /\ op2[j].new = 0 /\ op2[j].fd # 0
                           /\ \E p \in Objects : im[p].socket = op2[j].fd
                           /\ ke2[op2[j].fd].nonblock \/ op2[j].fd \in cl
                      /\ op2[j].new # 0 => /\ ke2[op2[j].new].type = "stream"
                                           /\ op2[j].status = "posted"
    BY DEF PendingOK
  <2>1. CASE j = i
    BY <2>1, <1>3, <1>4
  <2>2. CASE j # i
    <3>1. op[j].new # 0 => op[j].new \in Fds /\ op[j].new # f
      BY <1>5, WorldParts DEF HasOwner
    <3>2. op[j].status = "pending" => op[j].fd # f
      BY <1>5 DEF World, PendingOK, HasOwner
    <3>3. op[j].status = "pending" => op[j].fd \in Fds
      BY <1>10 DEF World, PendingOK
    <3>4. op2[j] = op[j]
      BY <2>2, <1>3
    <3> QED BY <3>1, <3>2, <3>3, <3>4, <1>4 DEF World, PendingOK
  <2> QED BY <2>1, <2>2
<1>13. World(im, ke2, na, op2, cl)
  BY <1>7, <1>8, <1>9, <1>11, <1>12 DEF World
<1> QED BY <1>1, <1>2, <1>13

LEMMA NoOpType == NoOp \in OpType /\ NoOp.new = 0 /\ NoOp.status = "free"
<1>1. LastFd \in Nat
  BY SocketAssumption
<1>2. "none" \in OpKinds /\ 0 \in 0..LastFd /\ {} \in SUBSET Flags
  BY <1>1 DEF OpKinds
<1> QED BY <1>2 DEF NoOp, OpType

(* The operation gives the connection to an object.                        *)
LEMMA KeepsHandOver ==
  ASSUME NEW im, NEW ke, NEW na, NEW op, NEW cl, World(im, ke, na, op, cl),
         NEW o \in Objects, im[o].socket = 0, NEW i \in OpIds, NEW f, op[i].new = f, f # 0,
         NEW st \in SUBSET Flags, Describes(st, ke[f])
  PROVE  World([im EXCEPT ![o] = [socket |-> f, state |-> st]], ke, na,
               [op EXCEPT ![i] = NoOp], cl)
<1>1. PICK im2 : im2 = [im EXCEPT ![o] = [socket |-> f, state |-> st]]
  OBVIOUS
<1>2. PICK op2 : op2 = [op EXCEPT ![i] = NoOp]
  OBVIOUS
<1>3. f \in 0..LastFd /\ f \in Fds /\ op[i].status = "posted"
  <2>1. f \in 0..LastFd /\ f \in Fds
    BY WorldParts
  <2> QED BY <2>1 DEF World, PendingOK
<1>4. op2 \in [OpIds -> OpType] /\ op2[i] = NoOp /\ \A j \in OpIds : j # i => op2[j] = op[j]
  BY <1>2, NoOpType DEF World, Typed
<1>5. im2 \in [Objects -> ImplType]
  BY <1>1, <1>3 DEF World, Typed, ImplType
<1>6. /\ im2[o].socket = f /\ im2[o].state = st
      /\ \A p \in Objects : p # o => im2[p] = im[p]
  BY <1>1 DEF World, Typed
<1>7. Typed(im2, ke, na, op2)
  BY <1>4, <1>5 DEF World, Typed
<1>8. \A j \in OpIds : op2[j].new = IF j = i THEN 0 ELSE op[j].new
  BY <1>4, NoOpType
<1>9. Apart(im2, na, op2)
  <2>1. 0 \notin na
    BY WorldParts
  <2>2. \A p, r \in Objects : im2[p].socket # 0 /\ im2[p].socket = im2[r].socket => p = r
    BY <1>6 DEF World, Apart
  <2>3. \A j, k \in OpIds : op2[j].new # 0 /\ op2[j].new = op2[k].new => j = k
    BY <1>8 DEF World, Apart
  <2>4. \A p \in Objects, j \in OpIds : im2[p].socket # 0 => im2[p].socket # op2[j].new
    BY <1>6, <1>8 DEF World, Apart
  <2> QED BY <2>1, <2>2, <2>3, <2>4, <1>6, <1>8 DEF World, Apart
<1>10. OpenOwned(im2, ke, na, op2)
  <2> SUFFICES ASSUME NEW g \in Fds
               PROVE  HasOwner(im2, na, op2, g) <=> HasOwner(im, na, op, g)
    BY DEF World, OpenOwned
  <2>1. g # 0
    BY DEF Fds
  <2>2. CASE g = f
    BY <2>2, <1>6 DEF HasOwner
  <2>3. CASE g # f
    BY <2>1, <2>3, <1>6, <1>8 DEF HasOwner
  <2> QED BY <2>2, <2>3
<1>11. Described(im2, ke)
  BY <1>6 DEF World, Described
<1>12. PendingOK(im2, ke, op2, cl)
  <2> SUFFICES ASSUME NEW j \in OpIds, j # i
               PROVE  /\ op[j].status = "pending" =>
                           /\ op[j].new = 0 /\ op[j].fd # 0
                           /\ \E p \in Objects : im2[p].socket = op[j].fd
                           /\ ke[op[j].fd].nonblock \/ op[j].fd \in cl
                      /\ op[j].new # 0 => /\ ke[op[j].new].type = "stream"
                                          /\ op[j].status = "posted"
    BY <1>4, NoOpType DEF PendingOK
  <2>1. op[j].status = "pending" => \E p \in Objects : p # o /\ im[p].socket = op[j].fd
    BY DEF World, PendingOK
  <2> QED BY <2>1, <1>6 DEF World, PendingOK
<1>13. World(im2, ke, na, op2, cl)
  BY <1>7, <1>9, <1>10, <1>11, <1>12 DEF World
<1> QED BY <1>1, <1>2, <1>13

(* The operation closes the connection it has.                             *)
LEMMA KeepsDiscard ==
  ASSUME NEW im, NEW ke, NEW na, NEW op, NEW cl, World(im, ke, na, op, cl),
         NEW i \in OpIds, NEW f, op[i].new = f, f # 0
  PROVE  World(im, [ke EXCEPT ![f] = Closed], na, [op EXCEPT ![i] = NoOp], cl)
<1>1. PICK op2 : op2 = [op EXCEPT ![i] = NoOp]
  OBVIOUS
<1>2. PICK ke2 : ke2 = [ke EXCEPT ![f] = Closed]
  OBVIOUS
<1>3. f \in Fds /\ op[i].status = "posted"
  <2>1. f \in Fds
    BY WorldParts
  <2> QED BY <2>1 DEF World, PendingOK
<1>4. op2 \in [OpIds -> OpType] /\ op2[i] = NoOp /\ \A j \in OpIds : j # i => op2[j] = op[j]
  BY <1>1, NoOpType DEF World, Typed
<1>5. Closed \in Descriptor /\ ~Closed.open
  BY QueuesAssumption DEF Closed, Descriptor, Types, Links
<1>6. /\ ke2 \in [Fds -> Descriptor] /\ ke2[f] = Closed
      /\ \A g \in Fds : g # f => ke2[g] = ke[g]
  BY <1>2, <1>3, <1>5 DEF World, Typed
<1>7. Typed(im, ke2, na, op2)
  BY <1>4, <1>6 DEF World, Typed
<1>8. \A j \in OpIds : op2[j].new = IF j = i THEN 0 ELSE op[j].new
  BY <1>4, NoOpType
<1>9. Apart(im, na, op2)
  <2>1. 0 \notin na
    BY WorldParts
  <2> QED BY <2>1, <1>8 DEF World, Apart
<1>10. ~HasOwner(im, na, op2, f)
  BY <1>8 DEF World, Apart, HasOwner
<1>11. OpenOwned(im, ke2, na, op2)
  <2> SUFFICES ASSUME NEW g \in Fds PROVE ke2[g].open <=> HasOwner(im, na, op2, g)
    BY DEF OpenOwned
  <2>1. CASE g = f
    BY <2>1, <1>5, <1>6, <1>10
  <2>2. CASE g # f
    <3>1. g # 0
      BY DEF Fds
    <3>2. HasOwner(im, na, op2, g) <=> HasOwner(im, na, op, g)
      BY <2>2, <3>1, <1>8 DEF HasOwner
    <3> QED BY <2>2, <3>2, <1>6 DEF World, OpenOwned
  <2> QED BY <2>1, <2>2
<1>12. \A p \in Objects : im[p].socket # 0 => im[p].socket \in Fds /\ im[p].socket # f
  BY WorldParts DEF World, Apart
<1>13. Described(im, ke2)
  BY <1>6, <1>12 DEF World, Described
<1>14. PendingOK(im, ke2, op2, cl)
  <2> SUFFICES ASSUME NEW j \in OpIds, j # i
               PROVE  /\ op[j].status = "pending" =>
                           /\ op[j].new = 0 /\ op[j].fd # 0
                           /\ \E p \in Objects : im[p].socket = op[j].fd
                           /\ ke2[op[j].fd].nonblock \/ op[j].fd \in cl
                      /\ op[j].new # 0 => /\ ke2[op[j].new].type = "stream"
                                          /\ op[j].status = "posted"
    BY <1>4, NoOpType DEF PendingOK
  <2>1. op[j].new # 0 => op[j].new \in Fds /\ op[j].new # f
    BY WorldParts DEF World, Apart
  <2>2. op[j].status = "pending" => op[j].fd \in Fds /\ op[j].fd # f
    BY <1>12 DEF World, PendingOK
  <2> QED BY <2>1, <2>2, <1>6 DEF World, PendingOK
<1>15. World(im, ke2, na, op2, cl)
  BY <1>7, <1>9, <1>11, <1>13, <1>14 DEF World
<1> QED BY <1>1, <1>2, <1>15

(* The program uses its own descriptor, closes it, or gets one.            *)
LEMMA KeepsOwn ==
  ASSUME NEW im, NEW ke, NEW na, NEW op, NEW cl, World(im, ke, na, op, cl),
         NEW f \in Fds, NEW m \in Descriptor, NEW na2 \in SUBSET Fds,
         f \in na \/ ~ke[f].open, m.open <=> f \in na2, na2 \ {f} = na \ {f}
  PROVE  World(im, [ke EXCEPT ![f] = m], na2, op, cl)
<1>2. PICK ke2 : ke2 = [ke EXCEPT ![f] = m]
  OBVIOUS
<1>4. /\ ke2 \in [Fds -> Descriptor] /\ ke2[f] = m
      /\ \A g \in Fds : g # f => ke2[g] = ke[g]
  BY <1>2 DEF World, Typed
<1>5. f # 0
  BY DEF Fds
<1>6. /\ \A o \in Objects : im[o].socket # f
      /\ \A i \in OpIds : op[i].new # f
  BY DEF World, Apart, OpenOwned, HasOwner
<1>7. Typed(im, ke2, na2, op)
  BY <1>4 DEF World, Typed
<1>8. Apart(im, na2, op)
  BY <1>6 DEF World, Apart
<1>9. OpenOwned(im, ke2, na2, op)
  BY <1>4, <1>6 DEF World, OpenOwned, HasOwner
<1>10. \A p \in Objects : im[p].socket # 0 => im[p].socket \in Fds
  BY WorldParts
<1>11. Described(im, ke2)
  BY <1>4, <1>6, <1>10 DEF World, Described
<1>12. PendingOK(im, ke2, op, cl)
  <2>1. \A i \in OpIds : op[i].new # 0 => op[i].new \in Fds
    BY WorldParts
  <2>2. \A i \in OpIds : op[i].status = "pending" => op[i].fd \in Fds /\ op[i].fd # f
    BY <1>6, <1>10 DEF World, PendingOK
  <2> QED BY <2>1, <2>2, <1>4, <1>6 DEF World, PendingOK
<1>13. World(im, ke2, na2, op, cl)
  BY <1>7, <1>8, <1>9, <1>11, <1>12 DEF World
<1> QED BY <1>2, <1>13

-----------------------------------------------------------------------------
(* What the system calls do to a descriptor, and what the library makes of *)
(* their outcomes.                                                         *)

LEMMA Untouched ==
  ASSUME NEW k \in Descriptor
  PROVE  /\ KeepsFile(k, k)
         /\ k.in > 0 => KeepsFile(k, [k EXCEPT !.in = @ - 1])
         /\ k.in < MaxIn => KeepsFile(k, [k EXCEPT !.in = @ + 1])
         /\ k.room > 0 => KeepsFile(k, [k EXCEPT !.room = @ - 1])
         /\ k.room < MaxRoom => KeepsFile(k, [k EXCEPT !.room = @ + 1])
         /\ \A l \in Links : KeepsFile(k, [k EXCEPT !.link = l])
         /\ \A what \in SUBSET {"in", "out"} : KeepsFile(k, [k EXCEPT !.shut = @ \cup what])
<1>1. MaxIn \in Nat /\ MaxRoom \in Nat
  BY QueuesAssumption
<1>2. k.in \in 0..MaxIn /\ k.room \in 0..MaxRoom /\ k.shut \in SUBSET {"in", "out"}
  BY DEF Descriptor
<1>3. KeepsFile(k, k)
  BY DEF KeepsFile
<1>4. ASSUME NEW n \in 0..MaxIn PROVE KeepsFile(k, [k EXCEPT !.in = n])
  BY DEF KeepsFile, Descriptor
<1>5. ASSUME NEW n \in 0..MaxRoom PROVE KeepsFile(k, [k EXCEPT !.room = n])
  BY DEF KeepsFile, Descriptor
<1>6. ASSUME NEW l \in Links PROVE KeepsFile(k, [k EXCEPT !.link = l])
  BY DEF KeepsFile, Descriptor
<1>7. ASSUME NEW s \in SUBSET {"in", "out"} PROVE KeepsFile(k, [k EXCEPT !.shut = s])
  BY DEF KeepsFile, Descriptor
<1>8. k.in > 0 => k.in - 1 \in 0..MaxIn
  BY <1>1, <1>2
<1>9. k.in < MaxIn => k.in + 1 \in 0..MaxIn
  BY <1>1, <1>2
<1>10. k.room > 0 => k.room - 1 \in 0..MaxRoom
  BY <1>1, <1>2
<1>11. k.room < MaxRoom => k.room + 1 \in 0..MaxRoom
  BY <1>1, <1>2
<1> QED BY <1>2, <1>3, <1>4, <1>5, <1>6, <1>7, <1>8, <1>9, <1>10, <1>11

LEMMA ConnectKeeps ==
  ASSUME NEW k \in Descriptor, NEW r \in connect(k)
  PROVE  KeepsFile(k, r.k) /\ r.ec \notin {"poll", "eof"}
<1>1. KeepsFile(k, k) /\ \A l \in Links : KeepsFile(k, [k EXCEPT !.link = l])
  BY Untouched
<1>2. \A l \in {"connecting", "connected", "none"} : l \in Links
  BY DEF Links
<1> QED BY <1>1, <1>2 DEF connect, Failure, Outcome

LEMMA ErrorKeeps ==
  ASSUME NEW k \in Descriptor
  PROVE  /\ KeepsFile(k, ConnectError(k).k)
         /\ ConnectError(k).ec \in {"ok", "connection_refused"}
<1>1. KeepsFile(k, k) /\ KeepsFile(k, [k EXCEPT !.link = "none"])
  BY Untouched DEF Links
<1> QED BY <1>1 DEF ConnectError, Outcome

LEMMA AcceptKeeps ==
  ASSUME NEW k \in Descriptor, NEW r \in accept(k)
  PROVE  /\ KeepsFile(k, r.k)
         /\ r.ec \in {"ok", "invalid_argument", "connection_aborted", "no_descriptors",
                      "would_block", "interrupted"}
<1>1. KeepsFile(k, k) /\ (k.in > 0 => KeepsFile(k, [k EXCEPT !.in = @ - 1]))
  BY Untouched
<1> QED BY <1>1 DEF accept, Failure, Outcome, Wait, Unread

(* Nothing received from a stream is the end of it. *)
LEMMA RecvKeeps ==
  ASSUME NEW k \in Descriptor, NEW r \in recv(k)
  PROVE  /\ KeepsFile(k, r.k)
         /\ r.ec \in {"ok", "not_connected", "would_block", "interrupted"}
         /\ r.n \in {0, 1}
         /\ r.ec = "ok" /\ r.n = 0 /\ k.type = "stream" => k.in = 0 /\ "in" \in k.shut
<1>1. KeepsFile(k, k) /\ (k.in > 0 => KeepsFile(k, [k EXCEPT !.in = @ - 1]))
  BY Untouched
<1>2. k.in \in Nat
  BY QueuesAssumption DEF Descriptor
<1> QED BY <1>1, <1>2 DEF recv, Failure, Outcome, Wait, Unread

LEMMA SendKeeps ==
  ASSUME NEW k \in Descriptor, NEW r \in send(k)
  PROVE  /\ KeepsFile(k, r.k)
         /\ r.ec \in {"ok", "not_connected", "broken_pipe", "would_block", "interrupted"}
<1>1. KeepsFile(k, k) /\ (k.room > 0 => KeepsFile(k, [k EXCEPT !.room = @ - 1]))
  BY Untouched
<1> QED BY <1>1 DEF send, Failure, Outcome, Wait

LEMMA PollKeeps ==
  ASSUME NEW k \in Descriptor, NEW state, NEW ready, NEW r \in PollOutcome(state, ready, k)
  PROVE  /\ r.k = k /\ r.ec \in {"ok", "would_block", "interrupted"}
         /\ r.ec = "would_block" => "user_set_non_blocking" \in state
BY DEF PollOutcome, Failure, Outcome

Waits == {"wait_read", "wait_write", "wait_error"}

LEMMA WaitKeeps ==
  ASSUME NEW k \in Descriptor, NEW state, NEW op \in Waits, NEW r \in Syscall(op, state, k)
  PROVE  /\ KeepsFile(k, r.k) /\ r.ec \in {"ok", "would_block", "interrupted"}
         /\ r.ec = "would_block" => "user_set_non_blocking" \in state
<1>1. PICK ready : r \in PollOutcome(state, ready, k)
  BY DEF Waits, Syscall, poll_read, poll_write, poll_error
<1>2. /\ r.k = k /\ r.ec \in {"ok", "would_block", "interrupted"}
      /\ r.ec = "would_block" => "user_set_non_blocking" \in state
  BY <1>1, PollKeeps
<1>3. KeepsFile(k, k)
  BY Untouched
<1> QED BY <1>2, <1>3

LEMMA SyscallKeeps ==
  ASSUME NEW k \in Descriptor, NEW state, NEW op \in SyncOps, NEW r \in Syscall(op, state, k)
  PROVE  KeepsFile(k, r.k)
<1>1. CASE op \in {"recv", "recvfrom"}
  BY <1>1, RecvKeeps DEF Syscall, recvfrom
<1>2. CASE op \in {"send", "sendto"}
  BY <1>2, SendKeeps DEF Syscall, sendto
<1>3. CASE op = "connect"
  BY <1>3, ConnectKeeps DEF Syscall
<1>4. CASE op = "accept"
  BY <1>4, AcceptKeeps DEF Syscall
<1>5. CASE op \in Waits
  BY <1>5, WaitKeeps
<1> QED BY <1>1, <1>2, <1>3, <1>4, <1>5 DEF SyncOps, Waits

(* What a blocking call may report, given the flags it was started with.   *)
LEMMA DecisionHonours ==
  ASSUME NEW k \in Descriptor, NEW state, NEW op \in SyncOps, NEW r \in Syscall(op, state, k)
  PROVE  LET d == Decision(op, state, r) IN
         /\ d = "would_block" => "user_set_non_blocking" \in state
         /\ d = "eof" => /\ "stream_oriented" \in state
                         /\ k.type = "stream" => k.in = 0 /\ "in" \in k.shut
         /\ d = "poll" => /\ op \notin Waits
                          /\ "user_set_non_blocking" \in state => op \in {"connect", "accept"}
<1>1. CASE op \in {"recv", "recvfrom"}
  <2>1. r \in recv(k)
    BY <1>1 DEF Syscall, recvfrom
  <2>2. /\ r.ec \in {"ok", "not_connected", "would_block", "interrupted"} /\ r.n \in {0, 1}
        /\ r.ec = "ok" /\ r.n = 0 /\ k.type = "stream" => k.in = 0 /\ "in" \in k.shut
    BY <2>1, RecvKeeps
  <2>3. CASE op = "recv"
    BY <2>2, <2>3 DEF Decision, sync_recv, GiveUp, Waits
  <2>4. CASE op = "recvfrom"
    BY <2>2, <2>4 DEF Decision, sync_recvfrom, GiveUp, Waits
  <2> QED BY <1>1, <2>3, <2>4
<1>2. CASE op \in {"send", "sendto"}
  <2>1. r \in send(k)
    BY <1>2 DEF Syscall, sendto
  <2>2. r.ec \in {"ok", "not_connected", "broken_pipe", "would_block", "interrupted"}
    BY <2>1, SendKeeps
  <2> QED BY <1>2, <2>2 DEF Decision, sync_send, sync_sendto, GiveUp, Waits
<1>3. CASE op = "connect"
  <2>1. r.ec \notin {"poll", "eof"}
    BY <1>3, ConnectKeeps DEF Syscall
  <2> QED BY <1>3, <2>1 DEF Decision, sync_connect, Waits
<1>4. CASE op = "accept"
  <2>1. r.ec \in {"ok", "invalid_argument", "connection_aborted", "no_descriptors",
                  "would_block", "interrupted"}
    BY <1>4, AcceptKeeps DEF Syscall
  <2> QED BY <1>4, <2>1 DEF Decision, sync_accept, Waits
<1>5. CASE op \in Waits
  <2>1. /\ r.ec \in {"ok", "would_block", "interrupted"}
        /\ r.ec = "would_block" => "user_set_non_blocking" \in state
    BY <1>5, WaitKeeps
  <2> QED BY <1>5, <2>1 DEF Decision, Waits
<1> QED BY <1>1, <1>2, <1>3, <1>4, <1>5 DEF SyncOps, Waits

(* On a non-blocking descriptor no system call waits; nor does the poll()  *)
(* of a wait in non-blocking mode.                                         *)
LEMMA NobodyWaits ==
  ASSUME NEW k \in Descriptor, k.nonblock, NEW state, "user_set_non_blocking" \in state,
         NEW op \in SyncOps
  PROVE  \E r \in Syscall(op, state, k) : r.ec # "interrupted"
<1>1. \E r \in Wait(k) : r.ec # "interrupted"
  BY DEF Wait, Failure, Outcome
<1>2. CASE op \in {"recv", "recvfrom"}
  <2>1. \E r \in recv(k) : r.ec # "interrupted"
    <3>1. CASE Unread(k) /\ ~Unconnected(k)
      <4>1. Outcome("ok", 1, [k EXCEPT !.in = @ - 1]) \in recv(k)
        BY <3>1 DEF recv
      <4> QED BY <4>1 DEF Outcome
    <3>2. CASE ~Unread(k) \/ Unconnected(k)
      BY <1>1, <3>2 DEF recv, Failure, Outcome
    <3> QED BY <3>1, <3>2
  <2> QED BY <1>2, <2>1 DEF Syscall, recvfrom
<1>3. CASE op \in {"send", "sendto"}
  <2>1. \E r \in send(k) : r.ec # "interrupted"
    BY <1>1 DEF send, Failure, Outcome
  <2> QED BY <1>3, <2>1 DEF Syscall, sendto
<1>4. CASE op \in Waits
  <2>1. ASSUME NEW ready PROVE \E r \in PollOutcome(state, ready, k) : r.ec # "interrupted"
    BY DEF PollOutcome, Failure, Outcome
  <2> QED BY <1>4, <2>1 DEF Waits, Syscall, poll_read, poll_write, poll_error
<1>5. CASE op = "accept"
  <2>1. \E r \in accept(k) : r.ec # "interrupted"
    BY <1>1 DEF accept, Failure, Outcome
  <2> QED BY <1>5, <2>1 DEF Syscall
<1>6. CASE op = "connect"
  <2>1. \E r \in connect(k) : r.ec # "interrupted"
    <3>1. \A ec, m : ec # "interrupted" => \E r \in Failure(ec, m) : r.ec # "interrupted"
      BY DEF Failure, Outcome
    <3>2. \A T : \E r \in {Outcome("ok", 0, T)} : r.ec # "interrupted"
      BY DEF Outcome
    <3> QED BY <3>1, <3>2 DEF connect
  <2> QED BY <1>6, <2>1 DEF Syscall
<1> QED BY <1>2, <1>3, <1>4, <1>5, <1>6 DEF SyncOps, Waits

-----------------------------------------------------------------------------
(* The inductive invariant.                                                *)

TheWorld == World(impl, kern, native, ops, cleared)

CallType ==
  [op : SyncOps \cup {"none"}, phase : {"idle", "try", "poll"}, fd : 0..LastFd,
   state : SUBSET Flags, peer : Objects \cup {"none"}, ec : {"ok", "would_block", "eof"}]

(* A call under way is on the descriptor of an object, which still has the *)
(* mode and the type that the copied flags tell; in non-blocking mode it   *)
(* does not get to poll().                                                 *)
UnderWay(im, ke, c) ==
  /\ c.op \in SyncOps /\ c.fd \in Fds /\ c.ec = "ok"
  /\ \E o \in Objects : im[o].socket = c.fd
  /\ "user_set_non_blocking" \in c.state =>
       /\ ke[c.fd].nonblock
       /\ c.op \notin {"connect", "accept"} => c.phase = "try"
  /\ "stream_oriented" \in c.state => ke[c.fd].type = "stream"
  /\ c.phase = "poll" => c.op \notin Waits

CallOK(im, ke, c) == c \in CallType /\ (c.phase # "idle" => UnderWay(im, ke, c))

IInv == prog \in Programs /\ TheWorld /\ CallOK(impl, kern, call)

(* What the calls may report. *)
Honest ==
  /\ call'.ec = "would_block" /\ call' # call => "user_set_non_blocking" \in call.state
  /\ call'.ec = "eof" /\ call' # call =>
       "stream_oriented" \in call.state /\ kern[call.fd].in = 0 /\ "in" \in kern[call.fd].shut
  /\ call'.ec # "lingers"

CallGood == CallOK(impl', kern', call') /\ Honest

LEMMA NoCallType == NoCall \in CallType /\ NoCall.phase = "idle" /\ NoCall.ec = "ok"
<1>1. LastFd \in Nat
  BY SocketAssumption
<1>2. /\ "none" \in SyncOps \cup {"none"} /\ 0 \in 0..LastFd /\ {} \in SUBSET Flags
      /\ "none" \in Objects \cup {"none"}
  BY <1>1
<1> QED BY <1>2 DEF NoCall, CallType

(* A function returns, or never had to do with the blocking calls.         *)
LEMMA CallIdle ==
  ASSUME call \in CallType, call.phase = "idle", call' = NoCall \/ call' = call
  PROVE  CallGood
<1>1. call' \in CallType /\ call'.phase = "idle"
  BY NoCallType
<1>2. call' = call \/ call'.ec = "ok"
  BY NoCallType
<1>3. call'.ec \in {"ok", "would_block", "eof"}
  BY <1>1 DEF CallType
<1> QED BY <1>1, <1>2, <1>3 DEF CallGood, CallOK, Honest

(* A blocking call starts on an object that is open by then.               *)
LEMMA CallBegins ==
  ASSUME TheWorld', NEW o \in Objects, impl'[o].socket # 0, NEW op \in SyncOps,
         NEW peer \in Objects \cup {"none"},
         call' = [op |-> op, phase |-> "try", fd |-> impl'[o].socket,
                  state |-> impl'[o].state, peer |-> peer, ec |-> "ok"]
  PROVE  CallGood
<1>1. /\ call'.op = op /\ call'.phase = "try" /\ call'.fd = impl'[o].socket
      /\ call'.state = impl'[o].state /\ call'.peer = peer /\ call'.ec = "ok"
  OBVIOUS
<1>2. World(impl', kern', native', ops', cleared')
  BY DEF TheWorld
<1>3. impl'[o] \in ImplType /\ impl'[o].socket \in 0..LastFd /\ impl'[o].socket \in Fds
  BY <1>2, WorldParts
<1>4. impl'[o].state \in SUBSET Flags
  BY <1>3 DEF ImplType
<1>5. call' \in CallType
  BY <1>3, <1>4 DEF CallType
<1>6. Describes(impl'[o].state, kern'[impl'[o].socket])
  BY <1>2 DEF World, Described
<1>7. UnderWay(impl', kern', call')
  BY <1>1, <1>3, <1>6 DEF UnderWay, Describes, non_blocking
<1> QED BY <1>1, <1>5, <1>7 DEF CallGood, CallOK, Honest

LEMMA Begins ==
  ASSUME TheWorld', call \in CallType, call.phase = "idle", NEW o \in Objects,
         NEW op \in SyncOps, NEW peer \in Objects \cup {"none"}, Begin(o, op, peer),
         UNCHANGED impl
  PROVE  CallGood
<1>1. CASE is_open(o)
  <2>1. call' = [op |-> op, phase |-> "try", fd |-> impl'[o].socket,
                 state |-> impl'[o].state, peer |-> peer, ec |-> "ok"]
    BY <1>1 DEF Begin
  <2>2. impl'[o].socket # 0
    BY <1>1 DEF is_open, invalid_socket
  <2> QED BY <2>1, <2>2, CallBegins
<1>2. CASE ~is_open(o)
  BY <1>2, CallIdle DEF Begin, Returns
<1> QED BY <1>1, <1>2

-----------------------------------------------------------------------------
(* The functions of the services.                                          *)

LEMMA SocketOf ==
  ASSUME TheWorld, NEW o \in Objects
  PROVE  /\ impl[o].socket \in 0..LastFd /\ impl[o].state \in SUBSET Flags
         /\ is_open(o) <=> impl[o].socket # 0
         /\ is_open(o) => /\ impl[o].socket \in Fds /\ kern[impl[o].socket] \in Descriptor
                          /\ kern[impl[o].socket].open
                          /\ Describes(impl[o].state, kern[impl[o].socket])
<1>1. World(impl, kern, native, ops, cleared)
  BY DEF TheWorld
<1>2. impl[o] \in ImplType /\ impl[o].socket \in 0..LastFd
  BY <1>1, WorldParts
<1>3. impl[o].state \in SUBSET Flags
  BY <1>2 DEF ImplType
<1>4. is_open(o) <=> impl[o].socket # 0
  BY DEF is_open, invalid_socket
<1>5. impl[o].socket # 0 => impl[o].socket \in Fds /\ kern[impl[o].socket].open
  BY <1>1, WorldParts
<1>6. \A f \in Fds : kern[f] \in Descriptor
  BY <1>1, WorldParts
<1>7. impl[o].socket # 0 => Describes(impl[o].state, kern[impl[o].socket])
  BY <1>1 DEF World, Described
<1> QED BY <1>2, <1>3, <1>4, <1>5, <1>6, <1>7

LEMMA SameWorld ==
  ASSUME TheWorld, UNCHANGED <<impl, kern, native, ops, cleared>>
  PROVE  TheWorld'
BY DEF TheWorld

(* Calls that are one system call. *)
Talks(o) ==
  \/ UNCHANGED kern
  \/ is_open(o) /\ \E m : /\ KeepsFile(kern[impl[o].socket], m)
                          /\ kern' = [kern EXCEPT ![impl[o].socket] = m]

LEMMA TalksStep ==
  ASSUME TheWorld, NEW o \in Objects, Talks(o), UNCHANGED <<impl, native, ops, cleared>>
  PROVE  TheWorld'
<1>1. CASE UNCHANGED kern
  BY <1>1, SameWorld
<1>2. CASE ~UNCHANGED kern
  <2>1. is_open(o) /\ impl[o].socket \in Fds
    BY <1>2, SocketOf DEF Talks
  <2>2. PICK m : /\ KeepsFile(kern[impl[o].socket], m)
                 /\ kern' = [kern EXCEPT ![impl[o].socket] = m]
    BY <1>2 DEF Talks
  <2>3. World(impl, kern, native, ops, cleared)
    BY DEF TheWorld
  <2>4. World(impl, [kern EXCEPT ![impl[o].socket] = m], native, ops, cleared)
    BY <2>1, <2>2, <2>3, KeepsTalk
  <2> QED BY <2>2, <2>4 DEF TheWorld
<1> QED BY <1>1, <1>2

(* What all of the one-call functions do. *)
LEMMA OutcomesKeep ==
  ASSUME NEW k \in Descriptor
  PROVE  /\ \A r \in bind(k) \cup getsockname(k) \cup sockatmark(k) \cup available(k)
                     \cup getpeername(k) \cup listen(k) : KeepsFile(k, r.k)
         /\ \A what \in SUBSET {"in", "out"} : \A r \in shutdown(k, what) : KeepsFile(k, r.k)
<1>1. /\ KeepsFile(k, k) /\ KeepsFile(k, [k EXCEPT !.link = "listening"])
      /\ \A what \in SUBSET {"in", "out"} : KeepsFile(k, [k EXCEPT !.shut = @ \cup what])
  BY Untouched DEF Links
<1>2. \A r \in bind(k) \cup getsockname(k) \cup sockatmark(k) \cup available(k) \cup getpeername(k) :
        KeepsFile(k, r.k)
  BY <1>1 DEF bind, getsockname, sockatmark, available, getpeername, Failure, Outcome
<1>3. \A r \in listen(k) : KeepsFile(k, r.k)
  BY <1>1 DEF listen, Failure, Outcome
<1>4. \A what \in SUBSET {"in", "out"} : \A r \in shutdown(k, what) : KeepsFile(k, r.k)
  BY <1>1 DEF shutdown, Failure, Outcome
<1> QED BY <1>2, <1>3, <1>4

(* The operations on a descriptor end with operation_aborted. *)
LEMMA AbortedEnds ==
  ASSUME TheWorld, NEW f
  PROVE  Ended(ops, Aborted(f)) /\ Unused(Aborted(f), f)
<1>1. \A i \in Pending(f) : ops[i].new = 0
  BY DEF TheWorld, World, PendingOK, Pending
<1>2. ops \in [OpIds -> OpType]
  BY DEF TheWorld, World, Typed
<1>3. Aborted(f) \in [OpIds -> OpType]
  BY <1>2, NoOpType DEF Aborted
<1>4. \A i \in OpIds : Aborted(f)[i] = IF i \in Pending(f) THEN NoOp ELSE ops[i]
  BY DEF Aborted
<1>5. \A i \in OpIds : i \notin Pending(f) => ops[i].status # "pending" \/ ops[i].fd # f
  BY DEF Pending
<1> QED BY <1>1, <1>3, <1>4, <1>5, NoOpType DEF Ended, Unused

LEMMA Ends ==
  ASSUME TheWorld, Ended(ops, ops'), UNCHANGED <<impl, kern, native, cleared>>
  PROVE  TheWorld'
<1>1. World(impl, kern, native, ops', cleared)
  BY KeepsEnd DEF TheWorld
<1> QED BY <1>1 DEF TheWorld

LEMMA AbortedWorld ==
  ASSUME TheWorld, NEW f
  PROVE  World(impl, kern, native, Aborted(f), cleared)
BY AbortedEnds, KeepsEnd DEF TheWorld

(* What destroy() leaves; only impl is left to the caller. *)
LEMMA DestroyWorld ==
  ASSUME TheWorld, NEW o \in Objects, destroy(o), UNCHANGED native
  PROVE  World([impl EXCEPT ![o] = constructed], kern', native', ops', cleared')
<1>1. CASE is_open(o)
  <2>1. PICK f : f = impl[o].socket /\ f # 0
    BY <1>1, SocketOf
  <2>2. World(impl, kern, native, Aborted(f), cleared) /\ Unused(Aborted(f), f)
    BY AbortedWorld, AbortedEnds
  <2>3. World([impl EXCEPT ![o] = constructed], [kern EXCEPT ![f] = Closed], native, Aborted(f),
              cleared \ {f})
    BY <2>1, <2>2, KeepsClose
  <2> QED BY <1>1, <2>1, <2>3 DEF destroy
<1>2. CASE ~is_open(o)
  <2>2. UNCHANGED <<kern, ops, cleared, native>>
    BY <1>2 DEF destroy
  <2>3. impl[o].socket = 0
    BY <1>2, SocketOf
  <2>4. World([impl EXCEPT ![o] = constructed], kern, native, ops, cleared)
    BY <2>3, KeepsReset DEF TheWorld
  <2> QED BY <2>2, <2>4
<1> QED BY <1>1, <1>2

LEMMA CloseStep ==
  ASSUME TheWorld, NEW o \in Objects, service_close(o), UNCHANGED native
  PROVE  TheWorld'
<1>1. World([impl EXCEPT ![o] = constructed], kern', native', ops', cleared')
  BY DestroyWorld DEF service_close
<1> QED BY <1>1 DEF TheWorld, service_close

LEMMA ReleaseStep ==
  ASSUME TheWorld, NEW o \in Objects, service_release(o)
  PROVE  TheWorld'
<1>1. PICK f : f = impl[o].socket /\ f # 0
  BY SocketOf DEF service_release
<1>2. World(impl, kern, native, Aborted(f), cleared) /\ Unused(Aborted(f), f)
  BY AbortedWorld, AbortedEnds
<1>3. World([impl EXCEPT ![o] = constructed], kern, native \cup {f}, Aborted(f), cleared \ {f})
  BY <1>1, <1>2, KeepsRelease
<1> QED BY <1>1, <1>3 DEF service_release, TheWorld

LEMMA MoveConstructStep ==
  ASSUME TheWorld, NEW o \in Objects, NEW from \in Objects, o # from, ~is_open(o),
         base_move_construct(o, from), UNCHANGED native
  PROVE  TheWorld'
<1>1. impl[o].socket = 0
  BY SocketOf
<1>2. World([impl EXCEPT ![o] = impl[from], ![from] = constructed], kern, native, ops, cleared)
  BY <1>1, KeepsMove DEF TheWorld
<1> QED BY <1>2 DEF TheWorld, base_move_construct

LEMMA MoveAssignStep ==
  ASSUME TheWorld, NEW o \in Objects, NEW from \in Objects, o # from,
         base_move_assign(o, from), UNCHANGED native
  PROVE  TheWorld'
<1>1. PICK im : im = [impl EXCEPT ![o] = constructed]
  OBVIOUS
<1>2. World(im, kern', native', ops', cleared')
  BY <1>1, DestroyWorld DEF base_move_assign
<1>3. impl \in [Objects -> ImplType] /\ im \in [Objects -> ImplType]
  BY <1>2 DEF TheWorld, World, Typed
<1>4. im[o].socket = 0 /\ im[from] = impl[from]
  BY <1>1, <1>3 DEF constructed, invalid_socket
<1>5. World([im EXCEPT ![o] = im[from], ![from] = constructed], kern', native', ops', cleared')
  BY <1>2, <1>4, KeepsMove
<1>6. [im EXCEPT ![o] = im[from], ![from] = constructed]
        = [impl EXCEPT ![o] = impl[from], ![from] = constructed]
  BY <1>1, <1>3, <1>4
<1> QED BY <1>5, <1>6 DEF TheWorld, base_move_assign

(* A descriptor the kernel has just made, and the flags it comes with.     *)
LEMMA FreshDescriptor ==
  ASSUME NEW type \in Types
  PROVE  /\ socket(type) \in Descriptor /\ socket(type).open
         /\ ~socket(type).nonblock /\ ~socket(type).linger
         /\ socket(type).type = type
         /\ TypeFlag(type) \in SUBSET Flags /\ TypeFlag(type) \cap non_blocking = {}
         /\ "stream_oriented" \in TypeFlag(type) => type = "stream"
         /\ Describes(TypeFlag(type), socket(type))
<1>1. Closed \in Descriptor /\ MaxRoom \in 0..MaxRoom
  BY QueuesAssumption DEF Closed, Descriptor, Types, Links
<1>2. PICK s : s = socket(type)
  OBVIOUS
<1>3. /\ s \in Descriptor /\ s.open /\ ~s.nonblock /\ ~s.linger /\ s.type = type
  BY <1>1, <1>2 DEF socket, Closed, Descriptor
<1>4. /\ TypeFlag(type) \in SUBSET Flags /\ TypeFlag(type) \cap non_blocking = {}
      /\ "stream_oriented" \in TypeFlag(type) => type = "stream"
  BY DEF TypeFlag, Flags, non_blocking, Types
<1> QED BY <1>2, <1>3, <1>4 DEF Describes

(* The descriptor of a new connection, which the object takes as it is.    *)
LEMMA AcceptedDescriptor ==
  ASSUME NEW k \in Descriptor
  PROVE  /\ Accepted(k) \in Descriptor /\ Accepted(k).open /\ Accepted(k).type = "stream"
         /\ TypeFlag("stream") \cup {"possible_dup"} \in SUBSET Flags
<1>1. "stream" \in Types /\ "connected" \in Links
  BY DEF Types, Links
<1>2. PICK s : s = socket("stream")
  OBVIOUS
<1>3. s \in Descriptor /\ s.open /\ s.type = "stream"
  BY <1>1, <1>2, FreshDescriptor
<1>4. k.linger \in BOOLEAN
  BY DEF Descriptor
<1>5. PICK a : a = [s EXCEPT !.linger = k.linger, !.link = "connected"]
  OBVIOUS
<1>6. a \in Descriptor /\ a.open /\ a.type = "stream"
  BY <1>1, <1>3, <1>4, <1>5 DEF Descriptor
<1>7. Accepted(k) = a
  BY <1>2, <1>5 DEF Accepted
<1>8. TypeFlag("stream") \cup {"possible_dup"} \in SUBSET Flags
  BY DEF TypeFlag, Flags
<1> QED BY <1>6, <1>7, <1>8

LEMMA DupDescribes ==
  ASSUME NEW k \in Descriptor, NEW type \in Types, k.type = type
  PROVE  /\ TypeFlag(type) \cup {"possible_dup"} \in SUBSET Flags
         /\ Describes(TypeFlag(type) \cup {"possible_dup"}, k)
BY DEF TypeFlag, Flags, non_blocking, Types, Describes

LEMMA NewImplWorld ==
  ASSUME TheWorld, NEW o \in Objects, ~is_open(o), FreeFds # {},
         NEW m \in Descriptor, m.open, NEW st \in SUBSET Flags, Describes(st, m)
  PROVE  World([impl EXCEPT ![o] = [socket |-> NewFd, state |-> st]],
               [kern EXCEPT ![NewFd] = m], native, ops, cleared)
BY NewFdIsFree, SocketOf, KeepsOpen DEF TheWorld

LEMMA OpenStep ==
  ASSUME TheWorld, NEW o \in Objects, NEW type \in Types, do_open(o, type),
         UNCHANGED <<native, ops, cleared>>
  PROVE  TheWorld' /\ call' = NoCall
<1>1. CASE UNCHANGED <<impl, kern>>
  BY <1>1, SameWorld DEF do_open, Returns
<1>2. CASE /\ ~is_open(o) /\ FreeFds # {}
           /\ kern' = [kern EXCEPT ![NewFd] = socket(type)]
           /\ impl' = [impl EXCEPT ![o] = [socket |-> NewFd, state |-> TypeFlag(type)]]
  <2>1. World([impl EXCEPT ![o] = [socket |-> NewFd, state |-> TypeFlag(type)]],
              [kern EXCEPT ![NewFd] = socket(type)], native, ops, cleared)
    BY <1>2, FreshDescriptor, NewImplWorld
  <2> QED BY <1>2, <2>1 DEF TheWorld, do_open, Returns
<1> QED BY <1>1, <1>2 DEF do_open

LEMMA OpenFirstStep ==
  ASSUME TheWorld, NEW o \in Objects, Class(o) \in Types, OpenFirst(o),
         UNCHANGED <<native, ops, cleared>>
  PROVE  TheWorld' /\ impl'[o].socket # 0
<1>1. CASE is_open(o)
  BY <1>1, SameWorld, SocketOf DEF OpenFirst
<1>2. CASE ~is_open(o)
  <2>1. World([impl EXCEPT ![o] = [socket |-> NewFd, state |-> TypeFlag(Class(o))]],
              [kern EXCEPT ![NewFd] = socket(Class(o))], native, ops, cleared)
    BY <1>2, FreshDescriptor, NewImplWorld DEF OpenFirst
  <2>2. impl \in [Objects -> ImplType] /\ NewFd # 0
    BY <1>2, NewFdIsFree DEF TheWorld, World, Typed, OpenFirst, Fds
  <2>3. /\ kern' = [kern EXCEPT ![NewFd] = socket(Class(o))]
        /\ impl' = [impl EXCEPT ![o] = [socket |-> NewFd, state |-> TypeFlag(Class(o))]]
    BY <1>2 DEF OpenFirst
  <2>4. impl'[o].socket # 0
    BY <2>2, <2>3
  <2>5. World(impl', kern', native, ops, cleared)
    BY <2>1, <2>3
  <2> QED BY <2>4, <2>5 DEF TheWorld
<1> QED BY <1>1, <1>2

LEMMA AssignStep ==
  ASSUME TheWorld, NEW o \in Objects, NEW f \in native, NEW a \in do_assign(o, kern[f].type, f),
         impl' = [impl EXCEPT ![o] = a[2]],
         native' = IF a[1] = "ok" THEN native \ {f} ELSE native,
         UNCHANGED <<kern, ops, cleared>>
  PROVE  TheWorld'
<1>1. World(impl, kern, native, ops, cleared) /\ impl \in [Objects -> ImplType]
  BY DEF TheWorld, World, Typed
<1>2. CASE a[1] # "ok"
  <2>1. impl' = impl
    BY <1>1, <1>2 DEF do_assign
  <2> QED BY <1>2, <2>1, SameWorld
<1>3. CASE a[1] = "ok"
  <2>1. /\ ~is_open(o)
        /\ a[2] = [socket |-> f, state |-> TypeFlag(kern[f].type) \cup {"possible_dup"}]
    BY <1>3 DEF do_assign
  <2>2. kern[f] \in Descriptor /\ kern[f].type \in Types
    BY <1>1, WorldParts DEF Descriptor
  <2>3. World([impl EXCEPT ![o] = [socket |-> f, state |-> TypeFlag(kern[f].type) \cup {"possible_dup"}]],
              kern, native \ {f}, ops, cleared)
    BY <1>1, <2>1, <2>2, DupDescribes, SocketOf, KeepsAssign
  <2> QED BY <1>3, <2>1, <2>3 DEF TheWorld
<1> QED BY <1>2, <1>3

(* The mode of a descriptor and the flag for it. *)
LEMMA ModeFlags ==
  ASSUME NEW st \in SUBSET Flags, NEW k \in Descriptor, Describes(st, k), NEW value \in BOOLEAN
  PROVE  LET m == [k EXCEPT !.nonblock = value]
             user == set_user_non_blocking(st, value)
             internal == set_internal_non_blocking(st, value)
         IN  /\ m \in Descriptor /\ m.open = k.open /\ m.type = k.type /\ m.nonblock = value
             /\ user \in SUBSET Flags /\ Describes(user, m)
             /\ internal \in SUBSET Flags
             /\ ~ClearsUserMode(st, value) => Describes(internal, m)
<1>1. PICK m : m = [k EXCEPT !.nonblock = value]
  OBVIOUS
<1>2. /\ m \in Descriptor /\ m.open = k.open /\ m.type = k.type /\ m.nonblock = value
      /\ m.linger = k.linger
  BY <1>1 DEF Descriptor
<1>3. PICK user : user = set_user_non_blocking(st, value)
  OBVIOUS
<1>4. user \in SUBSET Flags /\ Describes(user, m)
  BY <1>2, <1>3 DEF set_user_non_blocking, Flags, non_blocking, Describes
<1>5. PICK internal : internal = set_internal_non_blocking(st, value)
  OBVIOUS
<1>6. internal \in SUBSET Flags
  BY <1>5 DEF set_internal_non_blocking, Flags
<1>7. ~ClearsUserMode(st, value) => Describes(internal, m)
  BY <1>2, <1>5 DEF set_internal_non_blocking, ClearsUserMode, non_blocking, Describes
<1> QED BY <1>1, <1>2, <1>3, <1>4, <1>5, <1>6, <1>7

LEMMA SetModeStep ==
  ASSUME TheWorld, NEW o \in Objects, is_open(o), NEW value \in BOOLEAN,
         NEW st \in SUBSET Flags,
         Describes(st, [kern[impl[o].socket] EXCEPT !.nonblock = value]),
         SetMode(o, st, value), UNCHANGED <<native, ops>>
  PROVE  TheWorld' /\ call' = NoCall
<1>1. PICK f : f = impl[o].socket
  OBVIOUS
<1>2. f # 0 /\ f \in Fds /\ kern[f] \in Descriptor /\ kern[f].open
  BY <1>1, SocketOf
<1>3. PICK m : m = [kern[f] EXCEPT !.nonblock = value]
  OBVIOUS
<1>4. m \in Descriptor /\ m.open /\ m.type = kern[f].type /\ m.nonblock = value
  BY <1>2, <1>3 DEF Descriptor
<1>5. cleared \subseteq cleared' /\ (m.nonblock \/ Unused(ops, f) \/ f \in cleared')
  BY <1>1, <1>4 DEF SetMode, Unused, Pending
<1>6. World(impl, kern, native, ops, cleared) /\ Describes(st, m)
  BY <1>1, <1>3 DEF TheWorld
<1>7. World([impl EXCEPT ![o].state = st], [kern EXCEPT ![f] = m], native, ops, cleared')
  BY <1>1, <1>2, <1>4, <1>5, <1>6, KeepsFlags
<1>8. kern' = [kern EXCEPT ![f] = m]
  BY <1>1, <1>3 DEF SetMode
<1> QED BY <1>7, <1>8 DEF TheWorld, SetMode, Returns

LEMMA NotOpenStep ==
  ASSUME TheWorld, NEW o \in Objects, NotOpen(o), UNCHANGED <<native, ops>>
  PROVE  TheWorld' /\ call' = NoCall
BY SameWorld DEF NotOpen, Returns

LEMMA SetOptionStep ==
  ASSUME TheWorld, NEW o \in Objects, is_open(o), NEW value \in BOOLEAN,
         NEW option \in {"linger", "other", "enable_connection_aborted"},
         impl' = [impl EXCEPT ![o].state = setsockopt(@, option, value)],
         kern' = IF option = "linger"
                 THEN [kern EXCEPT ![impl[o].socket].linger = value] ELSE kern,
         UNCHANGED <<native, ops, cleared>>
  PROVE  TheWorld'
<1>1. PICK f : f = impl[o].socket
  OBVIOUS
<1>2. /\ f # 0 /\ f \in Fds /\ kern[f] \in Descriptor /\ kern[f].open
      /\ Describes(impl[o].state, kern[f]) /\ impl[o].state \in SUBSET Flags
  BY <1>1, SocketOf
<1>3. PICK m : m = IF option = "linger" THEN [kern[f] EXCEPT !.linger = value] ELSE kern[f]
  OBVIOUS
<1>4. /\ m \in Descriptor /\ m.open /\ m.type = kern[f].type /\ m.nonblock = kern[f].nonblock
      /\ m.linger => kern[f].linger \/ option = "linger"
  BY <1>2, <1>3 DEF Descriptor
<1>5. PICK st : st = setsockopt(impl[o].state, option, value)
  OBVIOUS
<1>6. st \in SUBSET Flags /\ Describes(st, m)
  <2>1. CASE option = "linger"
    BY <2>1, <1>2, <1>4, <1>5 DEF setsockopt, Flags, Describes, non_blocking
  <2>2. CASE option = "enable_connection_aborted"
    BY <2>2, <1>2, <1>4, <1>5 DEF setsockopt, Flags, Describes, non_blocking
  <2>3. CASE option = "other"
    BY <2>3, <1>2, <1>4, <1>5 DEF setsockopt, Describes
  <2> QED BY <2>1, <2>2, <2>3
<1>7. World(impl, kern, native, ops, cleared)
  BY DEF TheWorld
<1>8. m.nonblock \/ Unused(ops, f) \/ f \in cleared
  BY <1>4, <1>7 DEF World, PendingOK, Unused
<1>9. World([impl EXCEPT ![o].state = st], [kern EXCEPT ![f] = m], native, ops, cleared)
  BY <1>1, <1>2, <1>4, <1>6, <1>7, <1>8, KeepsFlags
<1>10. kern' = [kern EXCEPT ![f] = m]
  BY <1>1, <1>2, <1>3, <1>7 DEF World, Typed
<1>11. impl' = [impl EXCEPT ![o].state = st]
  BY <1>5
<1> QED BY <1>9, <1>10, <1>11 DEF TheWorld

-----------------------------------------------------------------------------
(* Operations are started.                                                 *)

(* An operation starts on a descriptor that is, or has just been made,     *)
(* non-blocking.                                                           *)
LEMMA NewOpWorld ==
  ASSUME prog \in Programs, Slots # {},
         NEW im, NEW ke, World(im, ke, native, ops, cleared),
         NEW o \in Objects, im[o].socket # 0, ke[im[o].socket].nonblock,
         NEW v \in OpType, v.status = "pending", v.new = 0, v.fd = im[o].socket
  PROVE  World(im, ke, native, [ops EXCEPT ![Slot] = v], cleared)
BY SlotIsFree, KeepsStart

LEMMA NonBlockingWorld ==
  ASSUME TheWorld, NEW o \in Objects, is_open(o),
         NEW k, KeepsFile([kern[impl[o].socket] EXCEPT !.nonblock = TRUE], k)
  PROVE  /\ k.nonblock
         /\ World([impl EXCEPT ![o].state = set_internal_non_blocking(impl[o].state, TRUE)],
                  [kern EXCEPT ![impl[o].socket] = k], native, ops, cleared)
<1>1. PICK f : f = impl[o].socket
  OBVIOUS
<1>2. /\ f # 0 /\ f \in Fds /\ kern[f] \in Descriptor /\ kern[f].open
      /\ Describes(impl[o].state, kern[f]) /\ impl[o].state \in SUBSET Flags
  BY <1>1, SocketOf
<1>3. PICK m : m = [kern[f] EXCEPT !.nonblock = TRUE]
  OBVIOUS
<1>4. PICK st : st = set_internal_non_blocking(impl[o].state, TRUE)
  OBVIOUS
<1>5. /\ m.open = TRUE /\ m.type = kern[f].type /\ m.nonblock = TRUE
      /\ st \in SUBSET Flags /\ Describes(st, m)
  BY <1>2, <1>3, <1>4, ModeFlags DEF ClearsUserMode
<1>6. KeepsFile(m, k)
  BY <1>1, <1>3
<1>7. /\ k \in Descriptor /\ k.open /\ k.type = kern[f].type /\ k.nonblock /\ Describes(st, k)
  BY <1>5, <1>6 DEF KeepsFile, Describes
<1>8. World(impl, kern, native, ops, cleared)
  BY DEF TheWorld
<1>9. cleared \subseteq cleared /\ (k.nonblock \/ Unused(ops, f) \/ f \in cleared)
  BY <1>7
<1>10. World([impl EXCEPT ![o].state = st], [kern EXCEPT ![f] = k], native, ops, cleared)
  BY <1>1, <1>2, <1>5, <1>7, <1>8, <1>9, KeepsFlags
<1> QED BY <1>1, <1>4, <1>7, <1>10

LEMMA NewOpStep ==
  ASSUME prog \in Programs, Slots # {},
         NEW im, NEW ke, World(im, ke, native, ops, cleared),
         NEW o \in Objects, is_open(o), im[o].socket = impl[o].socket,
         impl[o].state \in SUBSET Flags, im[o].socket # 0, im[o].socket \in 0..LastFd,
         ke[im[o].socket].nonblock,
         NEW kind \in OpKinds, NEW peer \in Objects \cup {"none"}, NewOp(kind, o, peer)
  PROVE  World(im, ke, native, ops', cleared)
<1>1. PICK v : v = [kind |-> kind, status |-> "pending", fd |-> impl[o].socket,
                    state |-> impl[o].state, peer |-> peer, new |-> 0]
  OBVIOUS
<1>2. 0 \in 0..LastFd
  BY SocketAssumption
<1>3. v \in OpType /\ v.status = "pending" /\ v.new = 0 /\ v.fd = im[o].socket
  BY <1>1, <1>2 DEF OpType
<1>4. World(im, ke, native, [ops EXCEPT ![Slot] = v], cleared)
  BY <1>3, NewOpWorld
<1> QED BY <1>1, <1>4 DEF NewOp

LEMMA StartOpStep ==
  ASSUME TheWorld, prog \in Programs, NEW o \in Objects, NEW kind \in OpKinds,
         NEW noop \in BOOLEAN, NEW peer \in Objects \cup {"none"},
         start_op(o, kind, noop, peer), UNCHANGED <<native, cleared>>
  PROVE  TheWorld'
<1>1. CASE UNCHANGED <<impl, kern, ops>>
  BY <1>1, SameWorld
<1>2. CASE ~UNCHANGED <<impl, kern, ops>>
  <2>0. /\ is_open(o) /\ NewOp(kind, o, peer)
        /\ IF IsNonBlocking(o) THEN UNCHANGED <<impl, kern>> ELSE MakeNonBlocking(o)
    BY <1>2 DEF start_op, PostNow
  <2>1. /\ impl[o].socket # 0 /\ impl[o].socket \in Fds /\ impl[o].socket \in 0..LastFd
        /\ impl[o].state \in SUBSET Flags
        /\ Describes(impl[o].state, kern[impl[o].socket])
    BY <2>0, SocketOf
  <2>2. Slots # {}
    BY DEF start_op
  <2>3. CASE IsNonBlocking(o) /\ UNCHANGED <<impl, kern>>
    <3>1. kern[impl[o].socket].nonblock
      BY <2>1, <2>3 DEF IsNonBlocking, Describes
    <3>2. World(impl, kern, native, ops, cleared)
      BY DEF TheWorld
    <3>3. World(impl, kern, native, ops', cleared)
      BY <2>0, <2>1, <2>2, <3>1, <3>2, NewOpStep
    <3> QED BY <2>3, <3>3 DEF TheWorld
  <2>4. CASE MakeNonBlocking(o)
    <3>1. PICK m : m = [kern[impl[o].socket] EXCEPT !.nonblock = TRUE]
      OBVIOUS
    <3>2. m \in Descriptor
      BY <2>0, <3>1, SocketOf DEF Descriptor
    <3>3. KeepsFile(m, m)
      BY <3>2 DEF KeepsFile
    <3>4. PICK im : im = [impl EXCEPT ![o].state = set_internal_non_blocking(impl[o].state, TRUE)]
      OBVIOUS
    <3>5. PICK ke : ke = [kern EXCEPT ![impl[o].socket] = m]
      OBVIOUS
    <3>6. m.nonblock /\ World(im, ke, native, ops, cleared)
      BY <2>0, <3>1, <3>3, <3>4, <3>5, NonBlockingWorld
    <3>7. im[o].socket = impl[o].socket /\ ke[im[o].socket] = m
      <4>1. impl \in [Objects -> ImplType] /\ kern \in [Fds -> Descriptor]
        BY DEF TheWorld, World, Typed
      <4> QED BY <4>1, <2>1, <3>4, <3>5 DEF ImplType
    <3>8. World(im, ke, native, ops', cleared)
      BY <2>0, <2>1, <2>2, <3>6, <3>7, NewOpStep
    <3>9. impl' = im /\ kern' = ke
      BY <2>4, <3>1, <3>4, <3>5 DEF MakeNonBlocking
    <3> QED BY <3>8, <3>9 DEF TheWorld
  <2> QED BY <2>0, <2>3, <2>4
<1> QED BY <1>1, <1>2

LEMMA StartAcceptStep ==
  ASSUME TheWorld, prog \in Programs, NEW o \in Objects, NEW kind \in OpKinds,
         NEW peer \in Objects \cup {"none"}, NEW open,
         start_accept_op(o, kind, peer, open), UNCHANGED <<native, cleared>>
  PROVE  TheWorld'
<1>1. CASE UNCHANGED <<impl, kern, ops>>
  BY <1>1, SameWorld
<1>2. CASE start_op(o, kind, FALSE, peer)
  BY <1>2, StartOpStep
<1> QED BY <1>1, <1>2 DEF start_accept_op, PostNow

LEMMA StartConnectStep ==
  ASSUME TheWorld, prog \in Programs, NEW o \in Objects, start_connect_op(o),
         UNCHANGED <<native, cleared>>
  PROVE  TheWorld'
<1>1. /\ Slots # {} /\ is_open(o)
      /\ impl[o].socket # 0 /\ impl[o].socket \in Fds /\ impl[o].socket \in 0..LastFd
      /\ impl[o].state \in SUBSET Flags
      /\ kern[impl[o].socket] \in Descriptor
      /\ Describes(impl[o].state, kern[impl[o].socket])
  BY SocketOf DEF start_connect_op
<1>2. PICK k : k = [kern[impl[o].socket] EXCEPT !.nonblock = TRUE]
  OBVIOUS
<1>3. k \in Descriptor
  BY <1>1, <1>2 DEF Descriptor
<1>4. PICK r \in connect(k) :
        /\ kern' = [kern EXCEPT ![impl[o].socket] = r.k]
        /\ impl' = [impl EXCEPT ![o].state =
                      IF IsNonBlocking(o) THEN impl[o].state
                      ELSE set_internal_non_blocking(impl[o].state, TRUE)]
        /\ IF r.ec = "in_progress" THEN NewOp("connect", o, "none") ELSE UNCHANGED ops
  BY <1>2 DEF start_connect_op, PostNow
<1>5. KeepsFile(k, r.k)
  BY <1>3, <1>4, ConnectKeeps
<1>6. impl \in [Objects -> ImplType] /\ kern \in [Fds -> Descriptor]
  BY DEF TheWorld, World, Typed
<1>7. r.k.nonblock /\ World(impl', kern', native, ops, cleared)
  <2>1. CASE ~IsNonBlocking(o)
    <3>1. impl' = [impl EXCEPT ![o].state = set_internal_non_blocking(impl[o].state, TRUE)]
      BY <1>4, <2>1
    <3> QED BY <1>1, <1>2, <1>4, <1>5, <3>1, NonBlockingWorld
  <2>2. CASE IsNonBlocking(o)
    <3>1. kern[impl[o].socket].nonblock
      BY <1>1, <2>2 DEF IsNonBlocking, Describes
    <3>2. k = kern[impl[o].socket]
      BY <1>1, <1>2, <3>1 DEF Descriptor
    <3>3. impl' = impl
      BY <1>4, <1>6, <2>2 DEF ImplType
    <3>4. World(impl, [kern EXCEPT ![impl[o].socket] = r.k], native, ops, cleared)
      BY <1>1, <1>5, <3>2, KeepsTalk DEF TheWorld
    <3>5. r.k.nonblock
      BY <1>5, <3>1, <3>2 DEF KeepsFile
    <3> QED BY <1>4, <3>3, <3>4, <3>5
  <2> QED BY <2>1, <2>2
<1>8. impl'[o].socket = impl[o].socket /\ kern'[impl'[o].socket] = r.k
  BY <1>1, <1>4, <1>6 DEF ImplType
<1>9. CASE r.ec = "in_progress"
  <2>1. NewOp("connect", o, "none") /\ "connect" \in OpKinds
    BY <1>4, <1>9 DEF OpKinds, SyncOps
  <2>2. World(impl', kern', native, ops', cleared)
    BY <1>1, <1>7, <1>8, <2>1, NewOpStep
  <2> QED BY <2>2 DEF TheWorld
<1>10. CASE r.ec # "in_progress"
  BY <1>4, <1>7, <1>10 DEF TheWorld
<1> QED BY <1>9, <1>10

(* An object that is not open is opened for async_connect() first.         *)
LEMMA AsyncConnectStep ==
  ASSUME TheWorld, prog \in Programs, NEW o \in Objects, socket_async_connect(o)
  PROVE  TheWorld'
<1>1. UNCHANGED <<native, cleared>> /\ Slots # {} /\ Class(o) \in Types
  BY DEF socket_async_connect, rest, Calls, Sockets, Types
<1>2. CASE OpenFails(o) /\ UNCHANGED ops
  BY <1>1, <1>2, SameWorld DEF OpenFails
<1>3. CASE is_open(o) /\ start_connect_op(o)
  BY <1>1, <1>3, StartConnectStep
<1>4. CASE ~is_open(o) /\ FreeFds # {} /\ ~(OpenFails(o) /\ UNCHANGED ops)
  <2>1. PICK st : st = set_internal_non_blocking(TypeFlag(Class(o)), TRUE)
    OBVIOUS
  <2>2. PICK s : s = socket(Class(o))
    OBVIOUS
  <2>3. PICK k : k = [s EXCEPT !.nonblock = TRUE]
    OBVIOUS
  <2>4. PICK r \in connect(k) :
          /\ kern' = [kern EXCEPT ![NewFd] = r.k]
          /\ impl' = [impl EXCEPT ![o] = [socket |-> NewFd, state |-> st]]
          /\ IF r.ec # "in_progress" THEN UNCHANGED ops
             ELSE ops' = [ops EXCEPT ![Slot] =
                    [NoOp EXCEPT !.kind = "connect", !.status = "pending", !.fd = NewFd]]
    BY <1>4, <2>1, <2>2, <2>3 DEF socket_async_connect, PostNow
  <2>5. /\ s \in Descriptor /\ s.open /\ TypeFlag(Class(o)) \in SUBSET Flags
        /\ Describes(TypeFlag(Class(o)), s)
    BY <1>1, <2>2, FreshDescriptor
  <2>6. /\ k \in Descriptor /\ k.open /\ k.nonblock
        /\ st \in SUBSET Flags /\ Describes(st, k)
    BY <2>1, <2>3, <2>5, ModeFlags DEF ClearsUserMode
  <2>7. KeepsFile(k, r.k)
    BY <2>4, <2>6, ConnectKeeps
  <2>8. r.k \in Descriptor /\ r.k.open /\ r.k.nonblock /\ Describes(st, r.k)
    BY <2>6, <2>7 DEF KeepsFile, Describes
  <2>9. World(impl', kern', native, ops, cleared)
    BY <1>4, <2>4, <2>6, <2>8, NewImplWorld
  <2>10. NewFd \in Fds /\ NewFd # 0 /\ NewFd \in 0..LastFd
    BY <1>4, NewFdIsFree, SocketAssumption DEF Fds
  <2>11. impl'[o].socket = NewFd /\ kern'[NewFd] = r.k
    <3>1. impl \in [Objects -> ImplType] /\ kern \in [Fds -> Descriptor]
      BY DEF TheWorld, World, Typed
    <3> QED BY <2>4, <2>10, <3>1
  <2>12. CASE r.ec = "in_progress"
    <3>1. PICK v : v = [NoOp EXCEPT !.kind = "connect", !.status = "pending", !.fd = NewFd]
      OBVIOUS
    <3>2. v \in OpType /\ v.status = "pending" /\ v.new = 0 /\ v.fd = NewFd
      <4>1. "connect" \in OpKinds
        BY DEF OpKinds, SyncOps
      <4> QED BY <2>10, <3>1, <4>1, NoOpType DEF OpType
    <3>3. World(impl', kern', native, [ops EXCEPT ![Slot] = v], cleared)
      BY <1>1, <2>8, <2>9, <2>10, <2>11, <3>2, NewOpWorld
    <3>4. ops' = [ops EXCEPT ![Slot] = v]
      BY <2>4, <2>12, <3>1
    <3> QED BY <1>1, <3>3, <3>4 DEF TheWorld
  <2>13. CASE r.ec # "in_progress"
    BY <1>1, <2>4, <2>9, <2>13 DEF TheWorld
  <2> QED BY <2>12, <2>13
<1> QED BY <1>2, <1>3, <1>4 DEF socket_async_connect, PostNow, OpenFails

-----------------------------------------------------------------------------
(* Every step of Next leaves the invariant true and reports honestly.      *)

Stepped == prog' \in Programs /\ TheWorld' /\ CallGood

LEMMA Called ==
  ASSUME IInv, NEW C, NEW f, NEW o, Calls(C, f, o)
  PROVE  /\ TheWorld /\ prog \in Programs /\ Class(o) \in C
         /\ call \in CallType /\ call.phase = "idle"
BY DEF IInv, Calls, CallOK

LEMMA Returned ==
  ASSUME IInv, call.phase = "idle", UNCHANGED prog, TheWorld', call' = NoCall \/ call' = call
  PROVE  Stepped
BY CallIdle DEF Stepped, IInv, CallOK

LEMMA BothClasses ==
  ASSUME NEW C \in {Sockets, Acceptors}, NEW o, Class(o) \in C
  PROVE  (IF Class(o) = "acceptor" THEN "stream" ELSE Class(o)) \in Types
BY DEF Sockets, Acceptors, Types

LEMMA OpenCall ==
  ASSUME IInv, NEW C \in {Sockets, Acceptors}, NEW o \in Objects, open_(C, o)
  PROVE  Stepped
<1>1. TheWorld /\ Class(o) \in C /\ call.phase = "idle" /\ UNCHANGED prog
  BY Called DEF open_, rest
<1>2. TheWorld' /\ call' = NoCall
  <2>1. PICK type \in Types : do_open(o, type)
    BY <1>1, BothClasses DEF open_
  <2> QED BY <1>1, <2>1, OpenStep DEF open_, rest
<1> QED BY <1>1, <1>2, Returned

LEMMA AssignCall ==
  ASSUME IInv, NEW C \in {Sockets, Acceptors}, NEW o \in Objects, NEW fd, assign_(C, o, fd)
  PROVE  Stepped
<1>1. TheWorld /\ call.phase = "idle" /\ UNCHANGED prog /\ fd \in native
  BY Called DEF assign_
<1>2. TheWorld' /\ call' = NoCall
  <2>1. PICK a \in do_assign(o, kern[fd].type, fd) :
          /\ impl' = [impl EXCEPT ![o] = a[2]]
          /\ native' = IF a[1] = "ok" THEN native \ {fd} ELSE native
          /\ call' = NoCall
    BY DEF assign_, Returns
  <2> QED BY <1>1, <2>1, AssignStep DEF assign_
<1> QED BY <1>1, <1>2, Returned

LEMMA CloseCall ==
  ASSUME IInv, NEW C, NEW o \in Objects, close_(C, o)
  PROVE  Stepped
<1>1. TheWorld /\ call.phase = "idle" /\ UNCHANGED <<prog, native>> /\ service_close(o)
  BY Called DEF close_
<1>2. TheWorld' /\ call' = NoCall
  BY <1>1, CloseStep DEF close_, Returns
<1> QED BY <1>1, <1>2, Returned

LEMMA ReleaseCall ==
  ASSUME IInv, NEW C, NEW o \in Objects, release_(C, o)
  PROVE  Stepped
<1>1. TheWorld /\ call.phase = "idle" /\ UNCHANGED prog /\ call' = NoCall
  BY Called DEF release_, Returns
<1>2. TheWorld'
  <2>1. CASE UNCHANGED <<impl, kern, native, ops, cleared>>
    BY <1>1, <2>1, SameWorld
  <2>2. CASE service_release(o)
    BY <1>1, <2>2, ReleaseStep
  <2> QED BY <2>1, <2>2 DEF release_
<1> QED BY <1>1, <1>2, Returned

LEMMA CancelCall ==
  ASSUME IInv, NEW C, NEW o \in Objects, cancel_(C, o)
  PROVE  Stepped
<1>1. /\ TheWorld /\ call.phase = "idle" /\ UNCHANGED prog /\ call' = NoCall
      /\ UNCHANGED <<impl, kern, native, cleared>>
  BY Called DEF cancel_, Returns, rest
<1>2. TheWorld'
  <2>1. CASE UNCHANGED ops
    BY <1>1, <2>1, SameWorld
  <2>2. CASE ops' = Aborted(impl[o].socket)
    <3>1. Ended(ops, ops')
      BY <1>1, <2>2, AbortedEnds
    <3> QED BY <1>1, <3>1, Ends
  <2> QED BY <2>1, <2>2 DEF cancel_
<1> QED BY <1>1, <1>2, Returned

LEMMA MoveConstructCall ==
  ASSUME IInv, NEW C, NEW o \in Objects, NEW from \in Objects, move_construct_(C, o, from)
  PROVE  Stepped
<1>1. /\ TheWorld /\ call.phase = "idle" /\ UNCHANGED <<prog, native>> /\ call' = NoCall
      /\ o # from /\ ~is_open(o) /\ base_move_construct(o, from)
  BY Called DEF move_construct_, Returns
<1>2. TheWorld'
  BY <1>1, MoveConstructStep
<1> QED BY <1>1, <1>2, Returned

LEMMA MoveAssignCall ==
  ASSUME IInv, NEW C, NEW o \in Objects, NEW from \in Objects, move_assign_(C, o, from)
  PROVE  Stepped
<1>1. /\ TheWorld /\ call.phase = "idle" /\ UNCHANGED <<prog, native>> /\ call' = NoCall
      /\ o # from /\ base_move_assign(o, from)
  BY Called DEF move_assign_, Returns
<1>2. TheWorld'
  BY <1>1, MoveAssignStep
<1> QED BY <1>1, <1>2, Returned

(* A descriptor that lingers had the option set through the object, or     *)
(* came from elsewhere: the destructor does not wait.                      *)
LEMMA DestructCall ==
  ASSUME IInv, NEW C, NEW o \in Objects, destruct_(C, o)
  PROVE  Stepped
<1>1. TheWorld /\ call.phase = "idle" /\ UNCHANGED <<prog, native>> /\ service_close(o)
  BY Called DEF destruct_
<1>2. TheWorld'
  BY <1>1, CloseStep
<1>3. ~(/\ is_open(o) /\ Lingers(kern[impl[o].socket], impl[o].state, TRUE)
        /\ "possible_dup" \notin impl[o].state)
  <2>1. is_open(o) => Describes(impl[o].state, kern[impl[o].socket])
    BY <1>1, SocketOf
  <2> QED BY <2>1 DEF Describes, Lingers
<1>4. call' = [NoCall EXCEPT !.ec = "ok"]
  BY <1>3 DEF destruct_
<1>5. call' = NoCall
  BY <1>4 DEF NoCall
<1> QED BY <1>1, <1>2, <1>5, Returned

(* A function that is one system call leaves the descriptor's mode, type   *)
(* and linger option alone.                                                *)
LEMMA OneCallStep ==
  ASSUME IInv, NEW o \in Objects, call.phase = "idle", Talks(o), call' = NoCall,
         UNCHANGED <<rest, impl, ops>>
  PROVE  Stepped
<1>1. TheWorld'
  BY TalksStep DEF IInv, rest
<1> QED BY <1>1, Returned DEF rest

LEMMA ShutdownStep ==
  ASSUME IInv, NEW o \in Objects, NEW what \in SUBSET {"in", "out"}, socket_shutdown(o, what)
  PROVE  Stepped
<1>1. TheWorld /\ call.phase = "idle" /\ UNCHANGED <<rest, impl, ops>>
  BY Called DEF socket_shutdown
<1>2. Talks(o) /\ call' = NoCall
  <2>1. is_open(o) => kern[impl[o].socket] \in Descriptor
    BY <1>1, SocketOf
  <2> QED BY <2>1, OutcomesKeep DEF socket_shutdown, OneCall, Returns, Talks
<1> QED BY <1>1, <1>2, OneCallStep

LEMMA BindStep ==
  ASSUME IInv, NEW C, NEW o \in Objects, bind_(C, o)
  PROVE  Stepped
<1>1. TheWorld /\ call.phase = "idle" /\ UNCHANGED <<rest, impl, ops>>
  BY Called DEF bind_
<1>2. Talks(o) /\ call' = NoCall
  <2>1. is_open(o) => kern[impl[o].socket] \in Descriptor
    BY <1>1, SocketOf
  <2> QED BY <2>1, OutcomesKeep DEF bind_, OneCall, Returns, Talks
<1> QED BY <1>1, <1>2, OneCallStep

LEMMA ListenStep ==
  ASSUME IInv, NEW o \in Objects, acceptor_listen(o)
  PROVE  Stepped
<1>1. TheWorld /\ call.phase = "idle" /\ UNCHANGED <<rest, impl, ops>>
  BY Called DEF acceptor_listen
<1>2. Talks(o) /\ call' = NoCall
  <2>1. is_open(o) => kern[impl[o].socket] \in Descriptor
    BY <1>1, SocketOf
  <2> QED BY <2>1, OutcomesKeep DEF acceptor_listen, OneCall, Returns, Talks
<1> QED BY <1>1, <1>2, OneCallStep

LEMMA QueryStep ==
  ASSUME IInv, NEW C, NEW o \in Objects,
         \/ local_endpoint_(C, o) \/ socket_at_mark(o) \/ socket_available(o)
         \/ socket_remote_endpoint(o)
  PROVE  Stepped
<1>1. TheWorld /\ call.phase = "idle" /\ UNCHANGED <<rest, impl, ops>>
  BY Called DEF local_endpoint_, socket_at_mark, socket_available, socket_remote_endpoint
<1>2. Talks(o) /\ call' = NoCall
  <2>1. is_open(o) => kern[impl[o].socket] \in Descriptor
    BY <1>1, SocketOf
  <2>2. CASE local_endpoint_(C, o)
    BY <2>1, <2>2, OutcomesKeep DEF local_endpoint_, OneCall, Returns, Talks
  <2>3. CASE socket_at_mark(o)
    BY <2>1, <2>3, OutcomesKeep DEF socket_at_mark, OneCall, Returns, Talks
  <2>4. CASE socket_available(o)
    BY <2>1, <2>4, OutcomesKeep DEF socket_available, OneCall, Returns, Talks
  <2>5. CASE socket_remote_endpoint(o)
    BY <2>1, <2>5, OutcomesKeep DEF socket_remote_endpoint, OneCall, Returns, Talks
  <2> QED BY <2>2, <2>3, <2>4, <2>5
<1> QED BY <1>1, <1>2, OneCallStep

LEMMA GetOptionStep ==
  ASSUME IInv, NEW C, NEW o \in Objects, NEW option, get_option_(C, o, option)
  PROVE  Stepped
<1>1. TheWorld /\ call.phase = "idle" /\ UNCHANGED <<rest, impl, ops, kern>> /\ call' = NoCall
  BY Called DEF get_option_, Returns
<1> QED BY <1>1, OneCallStep DEF Talks

LEMMA SetOptionCall ==
  ASSUME IInv, NEW C, NEW o \in Objects, NEW value \in BOOLEAN,
         NEW option \in {"linger", "other", "enable_connection_aborted"},
         set_option_(C, o, option, value)
  PROVE  Stepped
<1>1. TheWorld /\ call.phase = "idle" /\ UNCHANGED <<prog, native, cleared, ops>> /\ call' = NoCall
  BY Called DEF set_option_, Returns, rest
<1>2. TheWorld'
  <2>1. CASE UNCHANGED <<impl, kern>>
    BY <1>1, <2>1, SameWorld
  <2>2. CASE ~UNCHANGED <<impl, kern>>
    BY <1>1, <2>2, SetOptionStep DEF set_option_
  <2> QED BY <2>1, <2>2
<1> QED BY <1>1, <1>2, Returned

LEMMA ModeCall ==
  ASSUME IInv, NEW C, NEW o \in Objects, NEW value \in BOOLEAN,
         \/ non_blocking_(C, o, value) \/ io_control_(C, o, value)
         \/ native_non_blocking_(C, o, value)
  PROVE  Stepped
<1>1. TheWorld /\ call.phase = "idle" /\ UNCHANGED <<prog, native, ops>>
  BY Called DEF non_blocking_, io_control_, native_non_blocking_
<1>2. TheWorld' /\ call' = NoCall
  <2>1. CASE NotOpen(o)
    BY <1>1, <2>1, NotOpenStep
  <2>2. CASE is_open(o) /\ UNCHANGED <<impl, kern, cleared>> /\ call' = NoCall
    BY <1>1, <2>2, SameWorld
  <2>3. ASSUME is_open(o), NEW st,
               \/ st = set_user_non_blocking(impl[o].state, value)
               \/ /\ st = set_internal_non_blocking(impl[o].state, value)
                  /\ ~ClearsUserMode(impl[o].state, value),
               SetMode(o, st, value)
        PROVE  TheWorld' /\ call' = NoCall
    <3>1. /\ kern[impl[o].socket] \in Descriptor /\ impl[o].state \in SUBSET Flags
          /\ Describes(impl[o].state, kern[impl[o].socket])
      BY <1>1, <2>3, SocketOf
    <3>2. st \in SUBSET Flags /\ Describes(st, [kern[impl[o].socket] EXCEPT !.nonblock = value])
      BY <2>3, <3>1, ModeFlags
    <3> QED BY <1>1, <2>3, <3>2, SetModeStep
  <2>4. CASE non_blocking_(C, o, value)
    BY <2>1, <2>3, <2>4 DEF non_blocking_
  <2>5. CASE io_control_(C, o, value)
    BY <2>1, <2>3, <2>5 DEF io_control_, ioctl
  <2>6. CASE native_non_blocking_(C, o, value)
    BY <2>1, <2>2, <2>3, <2>6 DEF native_non_blocking_, Returns
  <2> QED BY <2>4, <2>5, <2>6
<1> QED BY <1>1, <1>2, Returned

(* A blocking call begins, an asynchronous one starts its operation.       *)
LEMMA BeginStep ==
  ASSUME IInv, call.phase = "idle", NEW o \in Objects, NEW op \in SyncOps,
         NEW peer \in Objects \cup {"none"}, Begin(o, op, peer),
         UNCHANGED <<rest, impl, kern, ops>>
  PROVE  Stepped
<1>1. TheWorld'
  BY SameWorld DEF IInv, rest
<1>2. CallGood
  BY <1>1, Begins DEF IInv, CallOK
<1> QED BY <1>1, <1>2 DEF Stepped, IInv, rest

LEMMA SyncCallStep ==
  ASSUME IInv, NEW C, NEW f, NEW o \in Objects, NEW op \in SyncOps, SyncCall(C, f, o, op)
  PROVE  Stepped
<1>1. call.phase = "idle" /\ Begin(o, op, "none") /\ UNCHANGED <<rest, impl, kern, ops>>
  BY Called DEF SyncCall
<1> QED BY <1>1, BeginStep

LEMMA AsyncCallStep ==
  ASSUME IInv, NEW C, NEW f, NEW o \in Objects, NEW kind \in OpKinds, NEW noop \in BOOLEAN,
         AsyncCall(C, f, o, kind, noop)
  PROVE  Stepped
<1>1. /\ TheWorld /\ prog \in Programs /\ call.phase = "idle"
      /\ start_op(o, kind, noop, "none") /\ UNCHANGED <<prog, native, cleared, call>>
  BY Called DEF AsyncCall, rest
<1>2. TheWorld'
  BY <1>1, StartOpStep
<1> QED BY <1>1, <1>2, Returned

LEMMA WaitCall ==
  ASSUME IInv, NEW C, NEW o \in Objects, wait_(C, o) \/ async_wait_(C, o)
  PROVE  Stepped
<1>1. ASSUME NEW w \in {"wait_read", "wait_write", "wait_error"},
             SyncCall(C, "wait", o, w) \/ AsyncCall(C, "async_wait", o, w, FALSE)
      PROVE  Stepped
  <2>1. w \in SyncOps /\ w \in OpKinds
    BY DEF SyncOps, OpKinds
  <2> QED BY <1>1, <2>1, SyncCallStep, AsyncCallStep
<1> QED BY <1>1 DEF wait_, async_wait_

(* Acceptors accept into an object or make a new one.                      *)
LEMMA AcceptCall ==
  ASSUME IInv, NEW o \in Objects, NEW peer \in Objects, accept_(o, peer) \/ async_accept_(o, peer)
  PROVE  Stepped
<1>1. /\ TheWorld /\ prog \in Programs /\ call.phase = "idle"
      /\ "accept" \in SyncOps /\ "accept" \in OpKinds
  BY Called DEF accept_, async_accept_, SyncOps, OpKinds
<1>2. CASE accept_(o, peer)
  <2>1. UNCHANGED <<rest, impl, kern, ops>>
    BY <1>2 DEF accept_
  <2>2. CASE is_open(peer)
    BY <1>1, <1>2, <2>1, <2>2, OneCallStep DEF accept_, Returns, Talks
  <2>3. CASE ~is_open(peer)
    BY <1>1, <1>2, <2>1, <2>3, BeginStep DEF accept_
  <2> QED BY <2>2, <2>3
<1>3. CASE async_accept_(o, peer)
  <2>1. /\ start_accept_op(o, "accept", peer, is_open(peer))
        /\ UNCHANGED <<prog, native, cleared, call>>
    BY <1>3 DEF async_accept_, rest
  <2>2. TheWorld'
    BY <1>1, <2>1, StartAcceptStep
  <2> QED BY <1>1, <2>1, <2>2, Returned
<1> QED BY <1>2, <1>3

LEMMA AcceptNewCall ==
  ASSUME IInv, NEW o \in Objects, accept_new_(o) \/ async_accept_new_(o)
  PROVE  Stepped
<1>1. /\ TheWorld /\ prog \in Programs /\ call.phase = "idle"
      /\ "accept" \in SyncOps /\ "move_accept" \in OpKinds
  BY Called DEF accept_new_, async_accept_new_, SyncOps, OpKinds
<1>2. CASE accept_new_(o)
  BY <1>1, <1>2, BeginStep DEF accept_new_
<1>3. CASE async_accept_new_(o)
  <2>1. /\ start_accept_op(o, "move_accept", "none", FALSE)
        /\ UNCHANGED <<prog, native, cleared, call>>
    BY <1>3 DEF async_accept_new_, rest
  <2>2. TheWorld'
    BY <1>1, <2>1, StartAcceptStep
  <2> QED BY <1>1, <2>1, <2>2, Returned
<1> QED BY <1>2, <1>3

(* The constructors, and connect(), open an object first.                  *)
LEMMA ConstructStep ==
  ASSUME IInv, NEW C \in {{"stream"}, {"datagram"}, {"raw"}}, NEW o \in Objects,
         socket_construct(C, o)
  PROVE  Stepped
<1>1. /\ TheWorld /\ call.phase = "idle" /\ UNCHANGED <<prog, native, cleared, ops>>
      /\ Class(o) \in Types /\ call' = NoCall
  BY Called DEF socket_construct, rest, Types, Returns
<1>2. TheWorld'
  <2>1. CASE OpenFirst(o)
    BY <1>1, <2>1, OpenFirstStep
  <2>2. CASE OpenFails(o)
    BY <1>1, <2>2, SameWorld DEF OpenFails
  <2> QED BY <2>1, <2>2 DEF socket_construct
<1> QED BY <1>1, <1>2, Returned

LEMMA AcceptorConstructStep ==
  ASSUME IInv, NEW o \in Objects, acceptor_construct(o)
  PROVE  Stepped
<1>1. /\ TheWorld /\ call.phase = "idle" /\ UNCHANGED <<prog, native, cleared, ops>>
      /\ ~is_open(o) /\ call' = NoCall
  BY Called DEF acceptor_construct, rest, Returns
<1>2. TheWorld'
  <2>1. CASE OpenFails(o)
    BY <1>1, <2>1, SameWorld DEF OpenFails
  <2>2. CASE ~OpenFails(o)
    <3>1. PICK s : s = socket("stream")
      OBVIOUS
    <3>2. PICK m : m = [s EXCEPT !.link = "listening"]
      OBVIOUS
    <3>3. s \in Descriptor /\ s.open /\ ~s.linger /\ s.type = "stream"
      BY <3>1, FreshDescriptor DEF Types
    <3>4. /\ m \in Descriptor /\ m.open /\ {"stream_oriented"} \in SUBSET Flags
          /\ Describes({"stream_oriented"}, m)
      BY <3>2, <3>3 DEF Descriptor, Links, Flags, Describes, non_blocking
    <3>5. /\ FreeFds # {} /\ kern' = [kern EXCEPT ![NewFd] = m]
          /\ impl' = [impl EXCEPT ![o] = [socket |-> NewFd, state |-> {"stream_oriented"}]]
      BY <2>2, <3>1, <3>2 DEF acceptor_construct
    <3>6. World(impl', kern', native, ops, cleared)
      BY <1>1, <3>4, <3>5, NewImplWorld
    <3> QED BY <1>1, <3>6 DEF TheWorld
  <2> QED BY <2>1, <2>2
<1> QED BY <1>1, <1>2, Returned

LEMMA ConnectStep ==
  ASSUME IInv, NEW o \in Objects, socket_connect(o)
  PROVE  Stepped
<1>1. /\ TheWorld /\ prog \in Programs /\ call.phase = "idle"
      /\ UNCHANGED <<prog, native, cleared, ops>> /\ Class(o) \in Types
  BY Called DEF socket_connect, rest, Sockets, Types
<1>2. CASE OpenFails(o) /\ call' = NoCall
  <2>1. TheWorld'
    BY <1>1, <1>2, SameWorld DEF OpenFails
  <2> QED BY <1>1, <1>2, <2>1, Returned
<1>3. CASE ~(OpenFails(o) /\ call' = NoCall)
  <2>1. /\ OpenFirst(o)
        /\ call' = [op |-> "connect", phase |-> "try", fd |-> impl'[o].socket,
                    state |-> impl'[o].state, peer |-> "none", ec |-> "ok"]
    BY <1>3 DEF socket_connect, Returns
  <2>2. TheWorld' /\ impl'[o].socket # 0
    BY <1>1, <2>1, OpenFirstStep
  <2>3. CallGood
    <3>1. "connect" \in SyncOps
      BY DEF SyncOps
    <3> QED BY <2>1, <2>2, <3>1, CallBegins
  <2> QED BY <1>1, <2>2, <2>3 DEF Stepped
<1> QED BY <1>2, <1>3

LEMMA AsyncConnectCall ==
  ASSUME IInv, NEW o \in Objects, socket_async_connect(o)
  PROVE  Stepped
<1>1. /\ TheWorld /\ prog \in Programs /\ call.phase = "idle" /\ UNCHANGED <<prog, call>>
  BY Called DEF socket_async_connect, rest
<1>2. TheWorld'
  BY <1>1, AsyncConnectStep
<1> QED BY <1>1, <1>2, Returned

-----------------------------------------------------------------------------
(* Next by the groups of its calls.                                        *)

LEMMA MoveCalls ==
  ASSUME IInv, NEW o \in Objects, NEW from \in Objects,
         stream_move(o, from) \/ datagram_move(o, from) \/ raw_move(o, from)
  PROVE  Stepped
BY MoveConstructCall, MoveAssignCall
   DEF stream_move, datagram_move, raw_move, socket_move_construct, socket_move_assign

LEMMA SocketCalls ==
  ASSUME IInv, NEW o \in Objects, SocketCall(o)
  PROVE  Stepped
<1>1. Sockets \in {Sockets, Acceptors}
  OBVIOUS
<1>2. CASE \/ socket_open(o) \/ socket_close(o) \/ socket_release(o) \/ socket_cancel(o)
           \/ socket_destroy(o) \/ socket_bind(o)
  BY <1>1, <1>2, OpenCall, CloseCall, ReleaseCall, CancelCall, DestructCall, BindStep
     DEF socket_open, socket_close, socket_release, socket_cancel, socket_destroy, socket_bind
<1>3. CASE \/ socket_local_endpoint(o) \/ socket_remote_endpoint(o) \/ socket_at_mark(o)
           \/ socket_available(o)
  BY <1>3, QueryStep DEF socket_local_endpoint
<1>4. CASE socket_connect(o) \/ socket_async_connect(o) \/ socket_wait(o) \/ socket_async_wait(o)
  BY <1>4, ConnectStep, AsyncConnectCall, WaitCall DEF socket_wait, socket_async_wait
<1>5. CASE \E fd \in Fds : socket_assign(o, fd)
  BY <1>1, <1>5, AssignCall DEF socket_assign
<1>6. CASE stream_construct(o) \/ datagram_construct(o) \/ raw_construct(o)
  BY <1>6, ConstructStep DEF stream_construct, datagram_construct, raw_construct
<1>7. CASE \E from \in Objects : stream_move(o, from) \/ datagram_move(o, from) \/ raw_move(o, from)
  BY <1>7, MoveCalls
<1>8. CASE \E what \in {{"in"}, {"out"}} : socket_shutdown(o, what)
  BY <1>8, ShutdownStep
<1>9. CASE \E value \in BOOLEAN :
             \/ socket_non_blocking(o, value) \/ socket_io_control(o, value)
             \/ socket_native_non_blocking(o, value)
  BY <1>9, ModeCall DEF socket_non_blocking, socket_io_control, socket_native_non_blocking
<1>10. CASE \E value \in BOOLEAN, option \in {"linger", "other"} :
              socket_set_option(o, option, value) \/ socket_get_option(o, option)
  BY <1>10, SetOptionCall, GetOptionStep DEF socket_set_option, socket_get_option
<1> QED BY <1>2, <1>3, <1>4, <1>5, <1>6, <1>7, <1>8, <1>9, <1>10 DEF SocketCall

LEMMA SyncCalls ==
  ASSUME IInv, NEW o \in Objects, NEW C, NEW f, NEW op \in {"recv", "recvfrom", "send", "sendto"},
         SyncCall(C, f, o, op) \/ (\E noop \in BOOLEAN : AsyncCall(C, f, o, op, noop))
  PROVE  Stepped
<1>1. op \in SyncOps /\ op \in OpKinds
  BY DEF SyncOps, OpKinds
<1> QED BY <1>1, SyncCallStep, AsyncCallStep

LEMMA TransferCalls ==
  ASSUME IInv, NEW o \in Objects, TransferCall(o)
  PROVE  Stepped
<1>1. CASE \/ stream_send(o) \/ stream_async_send(o) \/ stream_receive(o) \/ stream_async_receive(o)
           \/ stream_write_some(o) \/ stream_async_write_some(o)
           \/ stream_read_some(o) \/ stream_async_read_some(o)
  BY <1>1, SyncCalls
     DEF stream_send, stream_async_send, stream_receive, stream_async_receive, stream_write_some,
         stream_async_write_some, stream_read_some, stream_async_read_some
<1>2. CASE \/ datagram_send(o) \/ datagram_async_send(o)
           \/ datagram_send_to(o) \/ datagram_async_send_to(o)
           \/ datagram_receive(o) \/ datagram_async_receive(o)
           \/ datagram_receive_from(o) \/ datagram_async_receive_from(o)
  BY <1>2, SyncCalls
     DEF datagram_send, datagram_async_send, datagram_send_to, datagram_async_send_to,
         datagram_receive, datagram_async_receive, datagram_receive_from,
         datagram_async_receive_from
<1>3. CASE \/ raw_send(o) \/ raw_async_send(o) \/ raw_send_to(o) \/ raw_async_send_to(o)
           \/ raw_receive(o) \/ raw_async_receive(o)
           \/ raw_receive_from(o) \/ raw_async_receive_from(o)
  BY <1>3, SyncCalls
     DEF raw_send, raw_async_send, raw_send_to, raw_async_send_to, raw_receive,
         raw_async_receive, raw_receive_from, raw_async_receive_from
<1> QED BY <1>1, <1>2, <1>3 DEF TransferCall

LEMMA AcceptorCalls ==
  ASSUME IInv, NEW o \in Objects, AcceptorCall(o)
  PROVE  Stepped
<1>1. Acceptors \in {Sockets, Acceptors} /\ Peers \subseteq Objects
  BY DEF Peers
<1>2. CASE \/ acceptor_open(o) \/ acceptor_close(o) \/ acceptor_release(o) \/ acceptor_cancel(o)
           \/ acceptor_destroy(o) \/ acceptor_bind(o) \/ acceptor_listen(o)
  BY <1>1, <1>2, OpenCall, CloseCall, ReleaseCall, CancelCall, DestructCall, BindStep, ListenStep
     DEF acceptor_open, acceptor_close, acceptor_release, acceptor_cancel, acceptor_destroy,
         acceptor_bind
<1>3. CASE acceptor_local_endpoint(o) \/ acceptor_wait(o) \/ acceptor_async_wait(o)
  BY <1>3, QueryStep, WaitCall DEF acceptor_local_endpoint, acceptor_wait, acceptor_async_wait
<1>4. CASE acceptor_construct(o)
  BY <1>4, AcceptorConstructStep
<1>5. CASE \/ acceptor_accept_new(o) \/ acceptor_accept_new_context(o)
           \/ acceptor_accept_new_endpoint(o) \/ acceptor_accept_new_context_endpoint(o)
           \/ acceptor_async_accept_new(o) \/ acceptor_async_accept_new_context(o)
           \/ acceptor_async_accept_new_endpoint(o)
           \/ acceptor_async_accept_new_context_endpoint(o)
  BY <1>5, AcceptNewCall
     DEF acceptor_accept_new, acceptor_accept_new_context, acceptor_accept_new_endpoint,
         acceptor_accept_new_context_endpoint, acceptor_async_accept_new,
         acceptor_async_accept_new_context, acceptor_async_accept_new_endpoint,
         acceptor_async_accept_new_context_endpoint
<1>6. CASE \E peer \in Peers :
             \/ acceptor_accept(o, peer) \/ acceptor_accept_endpoint(o, peer)
             \/ acceptor_async_accept(o, peer) \/ acceptor_async_accept_endpoint(o, peer)
  BY <1>1, <1>6, AcceptCall
     DEF acceptor_accept, acceptor_accept_endpoint, acceptor_async_accept,
         acceptor_async_accept_endpoint
<1>7. CASE \E from \in Objects : acceptor_move_construct(o, from) \/ acceptor_move_assign(o, from)
  BY <1>7, MoveConstructCall, MoveAssignCall DEF acceptor_move_construct, acceptor_move_assign
<1>8. CASE \E fd \in Fds : acceptor_assign(o, fd)
  BY <1>1, <1>8, AssignCall DEF acceptor_assign
<1>9. CASE \E value \in BOOLEAN :
             \/ acceptor_non_blocking(o, value) \/ acceptor_io_control(o, value)
             \/ acceptor_native_non_blocking(o, value)
  BY <1>9, ModeCall DEF acceptor_non_blocking, acceptor_io_control, acceptor_native_non_blocking
<1>10. CASE \E value \in BOOLEAN, option \in {"linger", "enable_connection_aborted"} :
              acceptor_set_option(o, option, value) \/ acceptor_get_option(o, option)
  BY <1>10, SetOptionCall, GetOptionStep DEF acceptor_set_option, acceptor_get_option
<1> QED BY <1>2, <1>3, <1>4, <1>5, <1>6, <1>7, <1>8, <1>9, <1>10 DEF AcceptorCall

-----------------------------------------------------------------------------
(* The blocking call goes on.                                              *)

(* A step that talks over one descriptor, and may end operations.          *)
LEMMA TalkWorld ==
  ASSUME TheWorld, NEW f \in Fds, NEW m, KeepsFile(kern[f], m), kern' = [kern EXCEPT ![f] = m],
         UNCHANGED <<impl, native, cleared>>, ops' = ops \/ Ended(ops, ops')
  PROVE  /\ TheWorld'
         /\ \A g \in Fds : kern'[g].nonblock = kern[g].nonblock /\ kern'[g].type = kern[g].type
<1>1. World(impl, [kern EXCEPT ![f] = m], native, ops, cleared)
  BY KeepsTalk DEF TheWorld
<1>2. World(impl, [kern EXCEPT ![f] = m], native, ops', cleared)
  BY <1>1, KeepsEnd
<1>3. TheWorld'
  BY <1>2 DEF TheWorld
<1>4. kern \in [Fds -> Descriptor]
  BY DEF TheWorld, World, Typed
<1> QED BY <1>3, <1>4 DEF KeepsFile

(* A call under way stays so while its object keeps the descriptor.        *)
LEMMA StillUnderWay ==
  ASSUME IInv, UNCHANGED <<prog, call>>, TheWorld',
         call.phase # "idle" /\ call.fd \in Fds /\ (\E o \in Objects : impl[o].socket = call.fd) =>
           /\ \E o \in Objects : impl'[o].socket = call.fd
           /\ kern'[call.fd].nonblock = kern[call.fd].nonblock
           /\ kern'[call.fd].type = kern[call.fd].type
  PROVE  Stepped
<1>1. CallOK(impl, kern, call)
  BY DEF IInv
<1>2. CallOK(impl', kern', call')
  BY <1>1 DEF CallOK, UnderWay
<1>3. call'.ec # "lingers"
  BY <1>1 DEF CallOK, CallType
<1> QED BY <1>2, <1>3 DEF Stepped, CallGood, Honest, IInv

LEMMA TalkStep ==
  ASSUME IInv, NEW f \in Fds, NEW m, KeepsFile(kern[f], m), kern' = [kern EXCEPT ![f] = m],
         UNCHANGED <<prog, impl, native, cleared, call>>, ops' = ops \/ Ended(ops, ops')
  PROVE  Stepped
<1>1. /\ TheWorld'
      /\ \A g \in Fds : kern'[g].nonblock = kern[g].nonblock /\ kern'[g].type = kern[g].type
  BY TalkWorld DEF IInv
<1> QED BY <1>1, StillUnderWay

(* What a call reports when it is over.                                    *)
LEMMA FinishGood ==
  ASSUME NEW ec, Finish(ec),
         ec = "would_block" => "user_set_non_blocking" \in call.state,
         ec = "eof" => /\ "stream_oriented" \in call.state
                       /\ kern[call.fd].in = 0 /\ "in" \in kern[call.fd].shut
  PROVE  CallGood
<1>1. PICK e : e = IF ec \in {"would_block", "eof"} THEN ec ELSE "ok"
  OBVIOUS
<1>2. call' = [NoCall EXCEPT !.ec = e]
  BY <1>1 DEF Finish
<1>3. call' \in CallType /\ call'.phase = "idle" /\ call'.ec = e
  BY <1>1, <1>2, NoCallType DEF CallType
<1> QED BY <1>1, <1>3 DEF CallGood, CallOK, Honest

LEMMA SyncTryStep ==
  ASSUME IInv, SyncTry
  PROVE  Stepped
<1>1. /\ call.phase = "try" /\ call \in CallType /\ UnderWay(impl, kern, call) /\ TheWorld
      /\ UNCHANGED <<prog, impl, native, cleared, ops>>
  BY DEF SyncTry, IInv, CallOK, rest
<1>2. /\ call.op \in SyncOps /\ call.fd \in Fds /\ kern[call.fd] \in Descriptor /\ call.ec = "ok"
  BY <1>1, WorldParts DEF UnderWay, TheWorld
<1>3. PICK r \in Syscall(call.op, call.state, kern[call.fd]) :
        /\ kern' = [kern EXCEPT ![call.fd] = r.k]
        /\ GoesOn(Decision(call.op, call.state, r))
  BY DEF SyncTry
<1>4. KeepsFile(kern[call.fd], r.k)
  BY <1>2, <1>3, SyscallKeeps
<1>5. /\ TheWorld'
      /\ \A g \in Fds : kern'[g].nonblock = kern[g].nonblock /\ kern'[g].type = kern[g].type
  BY <1>1, <1>2, <1>3, <1>4, TalkWorld
<1>6. PICK d : d = Decision(call.op, call.state, r)
  OBVIOUS
<1>7. /\ d = "would_block" => "user_set_non_blocking" \in call.state
      /\ d = "eof" => /\ "stream_oriented" \in call.state
                      /\ kern[call.fd].type = "stream" =>
                           kern[call.fd].in = 0 /\ "in" \in kern[call.fd].shut
      /\ d = "poll" => /\ call.op \notin Waits
                       /\ "user_set_non_blocking" \in call.state =>
                            call.op \in {"connect", "accept"}
  BY <1>2, <1>3, <1>6, DecisionHonours
<1>8. CallGood
  <2>1. CASE d = "poll"
    <3>1. call' = [call EXCEPT !.phase = "poll"]
      BY <1>3, <1>6, <2>1 DEF GoesOn
    <3>2. /\ call' \in CallType /\ call'.phase = "poll" /\ call'.op = call.op
          /\ call'.fd = call.fd /\ call'.state = call.state /\ call'.ec = call.ec
      BY <1>1, <3>1 DEF CallType
    <3>3. UnderWay(impl', kern', call')
      BY <1>1, <1>2, <1>5, <1>7, <2>1, <3>2 DEF UnderWay
    <3> QED BY <1>2, <3>2, <3>3 DEF CallGood, CallOK, Honest
  <2>2. CASE d # "poll"
    <3>1. Finish(d)
      BY <1>3, <1>6, <2>2 DEF GoesOn
    <3>2. d = "eof" => kern[call.fd].type = "stream"
      BY <1>1, <1>7 DEF UnderWay
    <3> QED BY <1>7, <3>1, <3>2, FinishGood
  <2> QED BY <2>1, <2>2
<1> QED BY <1>1, <1>5, <1>8 DEF Stepped, IInv

LEMMA PollReturnsStep ==
  ASSUME IInv, PollReturns
  PROVE  Stepped
<1>1. /\ call.phase = "poll" /\ call \in CallType /\ UnderWay(impl, kern, call) /\ TheWorld
      /\ UNCHANGED <<prog, impl, native, cleared, ops>>
  BY DEF PollReturns, IInv, CallOK, rest
<1>2. /\ call.op \in SyncOps \ Waits /\ call.fd \in Fds /\ kern[call.fd] \in Descriptor
      /\ call.ec = "ok"
  BY <1>1, WorldParts DEF UnderWay, TheWorld
<1>3. PICK k : k = kern[call.fd]
  OBVIOUS
<1>4. PICK p \in PollFor(call.op, k) :
        \/ p.ec # "ok" /\ Finish(p.ec) /\ UNCHANGED kern
        \/ p.ec = "ok" /\ call' = [call EXCEPT !.phase = "try"] /\ UNCHANGED kern
        \/ kern' = [kern EXCEPT ![call.fd] = ConnectError(k).k] /\ Finish(ConnectError(k).ec)
  BY <1>3 DEF PollReturns
<1>5. p.ec \in {"ok", "interrupted"}
  <2>1. p \in poll_read({}, k) \cup poll_write({}, k) \cup poll_connect(k)
    BY <1>2, <1>4 DEF PollFor, SyncOps, Waits
  <2>2. PICK ready : p \in PollOutcome({}, ready, k)
    BY <2>1 DEF poll_read, poll_write, poll_connect
  <2> QED BY <1>2, <1>3, <2>2, PollKeeps
<1>6. KeepsFile(k, k) /\ kern = [kern EXCEPT ![call.fd] = k]
  BY <1>1, <1>2, <1>3, Untouched DEF TheWorld, World, Typed
<1>7. KeepsFile(k, ConnectError(k).k) /\ ConnectError(k).ec \in {"ok", "connection_refused"}
  BY <1>2, <1>3, ErrorKeeps
<1>8. PICK m : KeepsFile(k, m) /\ kern' = [kern EXCEPT ![call.fd] = m]
  BY <1>4, <1>6, <1>7
<1>9. /\ TheWorld'
      /\ \A g \in Fds : kern'[g].nonblock = kern[g].nonblock /\ kern'[g].type = kern[g].type
  BY <1>1, <1>2, <1>3, <1>8, TalkWorld
<1>10. CallGood
  <2>1. CASE call' = [call EXCEPT !.phase = "try"]
    <3>1. /\ call' \in CallType /\ call'.phase = "try" /\ call'.op = call.op
          /\ call'.fd = call.fd /\ call'.state = call.state /\ call'.ec = call.ec
      BY <1>1, <2>1 DEF CallType
    <3>2. UnderWay(impl', kern', call')
      BY <1>1, <1>2, <1>9, <3>1 DEF UnderWay
    <3> QED BY <1>2, <3>1, <3>2 DEF CallGood, CallOK, Honest
  <2>2. CASE Finish(p.ec)
    BY <1>5, <2>2, FinishGood
  <2>3. CASE Finish(ConnectError(k).ec)
    BY <1>7, <2>3, FinishGood
  <2> QED BY <1>4, <2>1, <2>2, <2>3
<1> QED BY <1>1, <1>9, <1>10 DEF Stepped, IInv

LEMMA SyncAcceptStep ==
  ASSUME IInv, SyncAccept
  PROVE  Stepped
<1>1. /\ call \in CallType /\ UnderWay(impl, kern, call) /\ TheWorld /\ FreeFds # {}
      /\ UNCHANGED <<prog, native, cleared, ops>>
  BY DEF SyncAccept, IInv, CallOK, rest
<1>2. /\ call.fd \in Fds /\ kern[call.fd] \in Descriptor /\ kern[call.fd].open
  BY <1>1, WorldParts DEF UnderWay, TheWorld, Fds
<1>3. NewFd \in Fds /\ ~kern[NewFd].open /\ NewFd # call.fd
  BY <1>1, <1>2, NewFdIsFree
<1>0. PICK r \in accept(kern[call.fd]), o \in Peers : \E a \in do_assign(o, "stream", NewFd) :
        /\ kern' = [kern EXCEPT ![call.fd] = r.k,
                      ![NewFd] = IF a[1] = "ok" THEN Accepted(r.k) ELSE @]
        /\ impl' = [impl EXCEPT ![o] = a[2]]
        /\ Finish(a[1])
  BY DEF SyncAccept
<1>4. PICK a \in do_assign(o, "stream", NewFd) :
        /\ kern' = [kern EXCEPT ![call.fd] = r.k,
                      ![NewFd] = IF a[1] = "ok" THEN Accepted(r.k) ELSE @]
        /\ impl' = [impl EXCEPT ![o] = a[2]]
        /\ Finish(a[1])
  BY <1>0
<1>5. KeepsFile(kern[call.fd], r.k)
  BY <1>2, <1>4, AcceptKeeps
<1>6. PICK ke : ke = [kern EXCEPT ![call.fd] = r.k]
  OBVIOUS
<1>7. /\ World(impl, ke, native, ops, cleared)
      /\ kern \in [Fds -> Descriptor] /\ impl \in [Objects -> ImplType]
  <2>1. World(impl, kern, native, ops, cleared)
    BY <1>1 DEF TheWorld
  <2>2. World(impl, ke, native, ops, cleared)
    BY <1>2, <1>5, <1>6, <2>1, KeepsTalk
  <2> QED BY <2>1, <2>2 DEF World, Typed
<1>8. ke[NewFd] = kern[NewFd] /\ ke \in [Fds -> Descriptor]
  BY <1>2, <1>3, <1>5, <1>6, <1>7 DEF KeepsFile
<1>9. o \in Objects
  BY DEF Peers
<1>10. a[1] \in {"ok", "already_open", "no_memory"}
  BY <1>4 DEF do_assign
<1>11. CallGood
  BY <1>4, <1>10, FinishGood
<1>12. TheWorld'
  <2>1. CASE a[1] = "ok"
    <3>1. impl[o].socket = 0 /\ a[2] = [socket |-> NewFd,
                                        state |-> TypeFlag("stream") \cup {"possible_dup"}]
      BY <1>4, <2>1 DEF do_assign, is_open, invalid_socket
    <3>2. r.k \in Descriptor
      BY <1>5 DEF KeepsFile
    <3>3. PICK m : m = Accepted(r.k)
      OBVIOUS
    <3>4. PICK st : st = TypeFlag("stream") \cup {"possible_dup"}
      OBVIOUS
    <3>5. m \in Descriptor /\ m.open /\ m.type = "stream" /\ "stream" \in Types
      BY <3>2, <3>3, AcceptedDescriptor DEF Types
    <3>6. st \in SUBSET Flags /\ Describes(st, m)
      BY <3>4, <3>5, DupDescribes
    <3>7. World([impl EXCEPT ![o] = [socket |-> NewFd, state |-> st]], [ke EXCEPT ![NewFd] = m],
                native, ops, cleared)
      BY <1>3, <1>7, <1>8, <1>9, <3>1, <3>5, <3>6, KeepsOpen
    <3>8. kern' = [ke EXCEPT ![NewFd] = m]
      BY <1>4, <1>6, <2>1, <3>3
    <3>9. impl' = [impl EXCEPT ![o] = [socket |-> NewFd, state |-> st]]
      BY <1>4, <3>1, <3>4
    <3> QED BY <1>1, <3>7, <3>8, <3>9 DEF TheWorld
  <2>2. CASE a[1] # "ok"
    <3>1. a[2] = impl[o]
      BY <1>4, <2>2 DEF do_assign
    <3>2. impl' = impl
      BY <1>4, <1>7, <1>9, <3>1
    <3>3. kern' = ke
      BY <1>3, <1>4, <1>6, <1>7, <1>8, <2>2
    <3> QED BY <1>1, <1>7, <3>2, <3>3 DEF TheWorld
  <2> QED BY <2>1, <2>2
<1> QED BY <1>1, <1>11, <1>12 DEF Stepped, IInv

-----------------------------------------------------------------------------
(* The reactor tries an operation, and the scheduler completes it.         *)

(* A pending operation is on the open descriptor of an object.             *)
LEMMA PendingOn ==
  ASSUME TheWorld, NEW i \in OpIds, ops[i].status = "pending"
  PROVE  /\ ops[i].fd \in Fds /\ kern[ops[i].fd] \in Descriptor /\ kern[ops[i].fd].open
         /\ ops[i].new = 0 /\ ops[i].kind \in OpKinds
<1>1. World(impl, kern, native, ops, cleared)
  BY DEF TheWorld
<1>2. PICK o \in Objects : impl[o].socket = ops[i].fd /\ ops[i].fd # 0
  BY <1>1 DEF World, PendingOK
<1>3. ops[i].fd \in Fds /\ kern[ops[i].fd].open /\ kern[ops[i].fd] \in Descriptor
  BY <1>1, <1>2, WorldParts
<1>4. ops[i].new = 0 /\ ops[i] \in OpType
  BY <1>1 DEF World, PendingOK, Typed
<1> QED BY <1>3, <1>4 DEF OpType

LEMMA PostedEnds ==
  ASSUME TheWorld, NEW i \in OpIds, ops[i].new = 0, NEW ec
  PROVE  Ended(ops, Posted(i, ec))
<1>1. ops \in [OpIds -> OpType]
  BY DEF TheWorld, World, Typed
<1> QED BY <1>1, NoOpType DEF Posted, Ended

LEMMA PerformStep ==
  ASSUME IInv, NEW i \in OpIds, Perform(i)
  PROVE  Stepped
<1>1. /\ TheWorld /\ UNCHANGED <<prog, native, cleared, impl, call>>
      /\ ops[i].status = "pending"
  BY DEF Perform, IInv, rest
<1>2. ops[i].fd \in Fds /\ kern[ops[i].fd] \in Descriptor /\ ops[i].new = 0
  BY <1>1, PendingOn
<1>3. PICK r \in Syscall(ops[i].kind, {}, kern[ops[i].fd]) :
        /\ \E ec : ops' = Posted(i, ec)
        /\ kern' = [kern EXCEPT ![ops[i].fd] = r.k]
  BY DEF Perform
<1>4. ops[i].kind \in SyncOps
  BY DEF Perform, SyncOps
<1>5. KeepsFile(kern[ops[i].fd], r.k)
  BY <1>2, <1>3, <1>4, SyscallKeeps
<1>6. Ended(ops, ops')
  BY <1>1, <1>2, <1>3, PostedEnds
<1> QED BY <1>1, <1>2, <1>3, <1>5, <1>6, TalkStep

LEMMA PerformConnectStep ==
  ASSUME IInv, NEW i \in OpIds, PerformConnect(i)
  PROVE  Stepped
<1>1. /\ TheWorld /\ UNCHANGED <<prog, native, cleared, impl, call>>
      /\ ops[i].status = "pending"
  BY DEF PerformConnect, IInv, rest
<1>2. ops[i].fd \in Fds /\ kern[ops[i].fd] \in Descriptor /\ ops[i].new = 0
  BY <1>1, PendingOn
<1>3. PICK r, ec : /\ r = non_blocking_connect(kern[ops[i].fd]) /\ ops' = Posted(i, ec)
                   /\ kern' = [kern EXCEPT ![ops[i].fd] = r.k]
  BY DEF PerformConnect
<1>4. KeepsFile(kern[ops[i].fd], r.k)
  BY <1>2, <1>3, ErrorKeeps, Untouched DEF non_blocking_connect, Outcome
<1>5. Ended(ops, ops')
  BY <1>1, <1>2, <1>3, PostedEnds
<1> QED BY <1>1, <1>2, <1>3, <1>4, <1>5, TalkStep

LEMMA PerformWaitStep ==
  ASSUME IInv, NEW i \in OpIds, PerformWait(i)
  PROVE  Stepped
<1>1. /\ TheWorld /\ UNCHANGED <<prog, native, cleared, impl, kern, call>>
      /\ ops[i].status = "pending" /\ ops' = Posted(i, "ok")
  BY DEF PerformWait, IInv, rest
<1>2. ops[i].new = 0
  BY <1>1, PendingOn
<1>3. Ended(ops, ops')
  BY <1>1, <1>2, PostedEnds
<1>4. TheWorld'
  BY <1>1, <1>3, Ends
<1> QED BY <1>1, <1>4, StillUnderWay

(* The descriptor of a call under way is open: it is not the new one.      *)
LEMMA PerformAcceptStep ==
  ASSUME IInv, NEW i \in OpIds, PerformAccept(i)
  PROVE  Stepped
<1>1. /\ TheWorld /\ UNCHANGED <<prog, native, cleared, impl, call>>
      /\ ops[i].status = "pending"
  BY DEF PerformAccept, IInv, rest
<1>2. PICK f : f = ops[i].fd
  OBVIOUS
<1>3. f \in Fds /\ kern[f] \in Descriptor /\ kern[f].open /\ ops[i].new = 0
  BY <1>1, <1>2, PendingOn
<1>4. PICK r \in accept(kern[f]) :
        \/ /\ FreeFds # {}
           /\ kern' = [kern EXCEPT ![f] = r.k, ![NewFd] = Accepted(r.k)]
           /\ ops' = [ops EXCEPT ![i] = [NoOp EXCEPT !.status = "posted", !.new = NewFd,
                                                    !.peer = ops[i].peer]]
        \/ kern' = [kern EXCEPT ![f] = r.k] /\ (UNCHANGED ops \/ \E ec : ops' = Posted(i, ec))
  BY <1>2 DEF PerformAccept
<1>5. KeepsFile(kern[f], r.k) /\ r.k \in Descriptor
  BY <1>3, <1>4, AcceptKeeps DEF KeepsFile
<1>6. CASE kern' = [kern EXCEPT ![f] = r.k] /\ (UNCHANGED ops \/ \E ec : ops' = Posted(i, ec))
  <2>1. ops' = ops \/ Ended(ops, ops')
    BY <1>1, <1>3, <1>6, PostedEnds
  <2> QED BY <1>1, <1>3, <1>5, <1>6, <2>1, TalkStep
<1>7. CASE /\ FreeFds # {}
           /\ kern' = [kern EXCEPT ![f] = r.k, ![NewFd] = Accepted(r.k)]
           /\ ops' = [ops EXCEPT ![i] = [NoOp EXCEPT !.status = "posted", !.new = NewFd,
                                                    !.peer = ops[i].peer]]
  <2>1. NewFd \in Fds /\ ~kern[NewFd].open /\ NewFd # f /\ NewFd # 0 /\ NewFd \in 0..LastFd
    BY <1>3, <1>7, NewFdIsFree, SocketAssumption DEF Fds
  <2>2. PICK ke : ke = [kern EXCEPT ![f] = r.k]
    OBVIOUS
  <2>3. /\ World(impl, kern, native, ops, cleared)
        /\ World(impl, ke, native, ops, cleared)
    BY <1>1, <1>3, <1>5, <2>2, KeepsTalk DEF TheWorld
  <2>4. kern \in [Fds -> Descriptor] /\ impl \in [Objects -> ImplType] /\ ops \in [OpIds -> OpType]
    BY <2>3 DEF World, Typed
  <2>5. ke[NewFd] = kern[NewFd]
    BY <2>1, <2>2, <2>4
  <2>6. PICK m : m = Accepted(r.k)
    OBVIOUS
  <2>7. m \in Descriptor /\ m.open /\ m.type = "stream"
    BY <1>5, <2>6, AcceptedDescriptor
  <2>8. PICK v : v = [NoOp EXCEPT !.status = "posted", !.new = NewFd, !.peer = ops[i].peer]
    OBVIOUS
  <2>9. v \in OpType /\ v.status = "posted" /\ v.new = NewFd
    <3>1. ops[i].peer \in Objects \cup {"none"}
      BY <2>4 DEF OpType
    <3> QED BY <2>1, <2>8, <3>1, NoOpType DEF OpType
  <2>10. World(impl, [ke EXCEPT ![NewFd] = m], native, [ops EXCEPT ![i] = v], cleared)
    BY <1>3, <2>1, <2>3, <2>5, <2>7, <2>9, KeepsHold
  <2>11. kern' = [ke EXCEPT ![NewFd] = m] /\ ops' = [ops EXCEPT ![i] = v]
    BY <1>7, <2>2, <2>6, <2>8
  <2>12. TheWorld'
    BY <1>1, <2>10, <2>11 DEF TheWorld
  <2>13. ASSUME call.fd \in Fds, NEW o \in Objects, impl[o].socket = call.fd
         PROVE  /\ kern'[call.fd].nonblock = kern[call.fd].nonblock
                /\ kern'[call.fd].type = kern[call.fd].type
    <3>1. call.fd # NewFd
      BY <2>1, <2>3, <2>13, WorldParts DEF Fds
    <3>2. kern'[call.fd] = ke[call.fd]
      BY <2>2, <2>4, <2>11, <2>13, <3>1
    <3> QED BY <1>5, <2>2, <2>4, <2>13, <3>2 DEF KeepsFile
  <2> QED BY <1>1, <2>12, <2>13, StillUnderWay
<1> QED BY <1>4, <1>6, <1>7

(* The operation hands its descriptor over, or it is closed.               *)
LEMMA CompleteAcceptStep ==
  ASSUME IInv, NEW i \in OpIds, CompleteAccept(i)
  PROVE  Stepped
<1>1. /\ TheWorld /\ UNCHANGED <<prog, native, cleared, call>> /\ ops' = [ops EXCEPT ![i] = NoOp]
  BY DEF CompleteAccept, IInv, rest
<1>2. PICK f : f = ops[i].new
  OBVIOUS
<1>3. World(impl, kern, native, ops, cleared)
  BY <1>1 DEF TheWorld
<1>4. /\ f # 0 /\ f \in Fds /\ kern[f] \in Descriptor /\ kern[f].type = "stream"
      /\ kern \in [Fds -> Descriptor] /\ impl \in [Objects -> ImplType]
  <2>1. f # 0
    BY <1>2 DEF CompleteAccept
  <2>2. f \in Fds
    BY <1>2, <1>3, <2>1, WorldParts
  <2>3. kern[f].type = "stream"
    BY <1>2, <1>3, <2>1 DEF World, PendingOK
  <2> QED BY <1>3, <2>1, <2>2, <2>3 DEF World, Typed
<1>5. PICK o \in Peers : \E a \in do_assign(o, "stream", f) :
        /\ impl' = [impl EXCEPT ![o] = a[2]]
        /\ kern' = IF a[1] = "ok" THEN kern ELSE [kern EXCEPT ![f] = Closed]
  BY <1>2 DEF CompleteAccept
<1>6. PICK a \in do_assign(o, "stream", f) :
        /\ impl' = [impl EXCEPT ![o] = a[2]]
        /\ kern' = IF a[1] = "ok" THEN kern ELSE [kern EXCEPT ![f] = Closed]
  BY <1>5
<1>7. o \in Objects
  BY DEF Peers
<1>8. CASE a[1] = "ok"
  <2>1. impl[o].socket = 0 /\ a[2] = [socket |-> f, state |-> TypeFlag("stream") \cup {"possible_dup"}]
    BY <1>6, <1>8 DEF do_assign, is_open, invalid_socket
  <2>2. PICK st : st = TypeFlag("stream") \cup {"possible_dup"}
    OBVIOUS
  <2>3. "stream" \in Types
    BY DEF Types
  <2>4. st \in SUBSET Flags /\ Describes(st, kern[f])
    BY <1>4, <2>2, <2>3, DupDescribes
  <2>5. World([impl EXCEPT ![o] = [socket |-> f, state |-> st]], kern, native,
              [ops EXCEPT ![i] = NoOp], cleared)
    BY <1>2, <1>3, <1>4, <1>7, <2>1, <2>4, KeepsHandOver
  <2>6. impl' = [impl EXCEPT ![o] = [socket |-> f, state |-> st]] /\ kern' = kern
    BY <1>6, <1>8, <2>1, <2>2
  <2>7. TheWorld'
    BY <1>1, <2>5, <2>6 DEF TheWorld
  <2>8. ASSUME call.fd \in Fds, NEW p \in Objects, impl[p].socket = call.fd
        PROVE  impl'[p].socket = call.fd
    <3>1. p # o
      BY <2>1, <2>8 DEF Fds
    <3> QED BY <1>4, <2>6, <2>8, <3>1
  <2> QED BY <1>1, <2>6, <2>7, <2>8, StillUnderWay
<1>9. CASE a[1] # "ok"
  <2>1. a[2] = impl[o]
    BY <1>6, <1>9 DEF do_assign
  <2>2. impl' = impl /\ kern' = [kern EXCEPT ![f] = Closed]
    BY <1>4, <1>6, <1>7, <1>9, <2>1
  <2>3. World(impl, [kern EXCEPT ![f] = Closed], native, [ops EXCEPT ![i] = NoOp], cleared)
    BY <1>2, <1>3, <1>4, KeepsDiscard
  <2>4. TheWorld'
    BY <1>1, <2>2, <2>3 DEF TheWorld
  <2>5. ASSUME call.fd \in Fds, NEW p \in Objects, impl[p].socket = call.fd
        PROVE  kern'[call.fd] = kern[call.fd]
    <3>1. call.fd # f
      BY <1>2, <1>3, <1>4, <2>5 DEF World, Apart
    <3> QED BY <1>4, <2>2, <2>5, <3>1
  <2> QED BY <1>1, <2>2, <2>4, <2>5, StillUnderWay
<1> QED BY <1>8, <1>9

LEMMA DiscardStep ==
  ASSUME IInv, NEW i \in OpIds, Discard(i)
  PROVE  Stepped
<1>1. /\ TheWorld /\ UNCHANGED <<prog, native, cleared, impl, call>> /\ call.phase = "idle"
      /\ ops' = [ops EXCEPT ![i] = NoOp]
      /\ kern' = [f \in Fds |-> IF f = ops[i].new THEN Closed ELSE kern[f]]
  BY DEF Discard, IInv, rest
<1>2. World(impl, kern, native, ops, cleared)
  BY <1>1 DEF TheWorld
<1>3. kern \in [Fds -> Descriptor]
  BY <1>2 DEF World, Typed
<1>4. TheWorld'
  <2>1. CASE ops[i].new = 0
    <3>1. kern' = kern
      BY <1>1, <1>3, <2>1 DEF Fds
    <3>2. Ended(ops, ops')
      BY <1>1, <2>1, PostedEnds DEF Posted
    <3> QED BY <1>1, <3>1, <3>2, Ends
  <2>2. CASE ops[i].new # 0
    <3>1. kern' = [kern EXCEPT ![ops[i].new] = Closed]
      BY <1>1, <1>3
    <3>2. World(impl, [kern EXCEPT ![ops[i].new] = Closed], native, [ops EXCEPT ![i] = NoOp],
                cleared)
      BY <1>2, <2>2, KeepsDiscard
    <3> QED BY <1>1, <3>1, <3>2 DEF TheWorld
  <2> QED BY <2>1, <2>2
<1> QED BY <1>1, <1>4, Returned

-----------------------------------------------------------------------------
(* The network, and the program with a descriptor of its own.              *)

LEMMA NetworkStep ==
  ASSUME IInv, NEW f \in Fds, Arrives(f) \/ PeerShuts(f) \/ Drains(f) \/ ConnectEnds(f)
  PROVE  Stepped
<1>1. TheWorld /\ UNCHANGED <<prog, native, cleared, impl, ops, call>>
  BY DEF IInv, rest, Arrives, PeerShuts, Drains, ConnectEnds
<1>2. kern[f] \in Descriptor
  BY <1>1, WorldParts DEF TheWorld
<1>3. PICK k : k = kern[f]
  OBVIOUS
<1>4. PICK m : KeepsFile(k, m) /\ kern' = [kern EXCEPT ![f] = m]
  <2>1. CASE Arrives(f)
    <3>1. PICK m : m = [k EXCEPT !.in = @ + 1]
      OBVIOUS
    <3>2. k.in < MaxIn /\ kern' = [kern EXCEPT ![f] = m]
      BY <1>3, <2>1, <3>1 DEF Arrives
    <3> QED BY <1>2, <1>3, <3>1, <3>2, Untouched
  <2>2. CASE PeerShuts(f)
    <3>1. PICK m : m = [k EXCEPT !.shut = @ \cup {"in"}]
      OBVIOUS
    <3>2. kern' = [kern EXCEPT ![f] = m]
      BY <1>3, <2>2, <3>1 DEF PeerShuts
    <3>3. {"in"} \in SUBSET {"in", "out"}
      OBVIOUS
    <3> QED BY <1>2, <1>3, <3>1, <3>2, <3>3, Untouched
  <2>3. CASE Drains(f)
    <3>1. PICK m : m = [k EXCEPT !.room = @ + 1]
      OBVIOUS
    <3>2. k.room < MaxRoom /\ kern' = [kern EXCEPT ![f] = m]
      BY <1>3, <2>3, <3>1 DEF Drains
    <3> QED BY <1>2, <1>3, <3>1, <3>2, Untouched
  <2>4. CASE ConnectEnds(f)
    <3>1. PICK l \in {"connected", "refused"} : kern' = [kern EXCEPT ![f].link = l]
      BY <2>4 DEF ConnectEnds
    <3>2. PICK m : m = [k EXCEPT !.link = l]
      OBVIOUS
    <3>3. l \in Links /\ kern' = [kern EXCEPT ![f] = m]
      BY <1>3, <3>1, <3>2 DEF Links
    <3> QED BY <1>2, <1>3, <3>2, <3>3, Untouched
  <2> QED BY <2>1, <2>2, <2>3, <2>4
<1> QED BY <1>1, <1>3, <1>4, TalkStep

LEMMA OwnDescriptorStep ==
  ASSUME IInv, OwnDescriptor
  PROVE  Stepped
<1>1. TheWorld /\ UNCHANGED <<prog, cleared, impl, ops, call>> /\ call.phase = "idle"
  BY DEF IInv, OwnDescriptor
<1>2. World(impl, kern, native, ops, cleared)
  BY <1>1 DEF TheWorld
<1>3. kern \in [Fds -> Descriptor] /\ native \in SUBSET Fds /\ Closed \in Descriptor
  <2>1. Closed \in Descriptor
    BY QueuesAssumption DEF Closed, Descriptor, Types, Links
  <2> QED BY <1>2, <2>1 DEF World, Typed
<1>4. ASSUME NEW f \in Fds, NEW m \in Descriptor, f \in native \/ ~kern[f].open,
             m.open <=> f \in native', native' \ {f} = native \ {f},
             native' \in SUBSET Fds, kern' = [kern EXCEPT ![f] = m]
      PROVE  TheWorld'
  <2>1. World(impl, [kern EXCEPT ![f] = m], native', ops, cleared)
    BY <1>2, <1>4, KeepsOwn
  <2> QED BY <1>1, <1>4, <2>1 DEF TheWorld
<1>5. TheWorld'
  <2>1. ASSUME NEW f \in native, native' = native \ {f}, kern' = [kern EXCEPT ![f] = Closed]
        PROVE  TheWorld'
    <3>1. f \in Fds /\ ~Closed.open /\ native' \in SUBSET Fds
      BY <1>3, <2>1 DEF Closed
    <3> QED BY <1>3, <1>4, <2>1, <3>1
  <2>2. ASSUME NEW f \in native, UNCHANGED native, kern' = [kern EXCEPT ![f].nonblock = ~@]
        PROVE  TheWorld'
    <3>1. f \in Fds /\ kern[f] \in Descriptor /\ kern[f].open
      BY <1>2, WorldParts
    <3>2. PICK m : m = [kern[f] EXCEPT !.nonblock = ~@]
      OBVIOUS
    <3>3. m \in Descriptor /\ m.open
      BY <3>1, <3>2 DEF Descriptor
    <3>4. kern' = [kern EXCEPT ![f] = m]
      BY <2>2, <3>2
    <3> QED BY <1>3, <1>4, <2>2, <3>1, <3>3, <3>4
  <2>3. CASE /\ FreeFds # {} /\ native = {} /\ native' = {NewFd}
             /\ kern' = [kern EXCEPT ![NewFd] = [socket("stream") EXCEPT !.link = "connected"]]
    <3>1. NewFd \in Fds /\ ~kern[NewFd].open
      BY <2>3, NewFdIsFree
    <3>2. PICK s : s = socket("stream")
      OBVIOUS
    <3>3. PICK m : m = [s EXCEPT !.link = "connected"]
      OBVIOUS
    <3>4. s \in Descriptor /\ s.open
      BY <3>2, FreshDescriptor DEF Types
    <3>5. m \in Descriptor /\ m.open
      BY <3>3, <3>4 DEF Descriptor, Links
    <3>6. kern' = [kern EXCEPT ![NewFd] = m]
      BY <2>3, <3>2, <3>3
    <3>7. NewFd \in native' /\ native' \ {NewFd} = native \ {NewFd} /\ native' \in SUBSET Fds
      BY <2>3, <3>1
    <3> QED BY <1>4, <3>1, <3>5, <3>6, <3>7
  <2> QED BY <2>1, <2>2, <2>3 DEF OwnDescriptor
<1> QED BY <1>1, <1>5, Returned

-----------------------------------------------------------------------------
(* The invariant.                                                          *)

LEMMA IInvInit == Init => IInv
<1> SUFFICES ASSUME Init PROVE IInv
  OBVIOUS
<1>1. /\ LastFd \in Nat /\ Closed \in Descriptor /\ ~Closed.open
      /\ constructed \in ImplType /\ constructed.socket = 0
  <2>1. LastFd \in Nat
    BY SocketAssumption
  <2>2. Closed \in Descriptor /\ ~Closed.open
    BY QueuesAssumption DEF Closed, Descriptor, Types, Links
  <2>3. constructed \in ImplType /\ constructed.socket = 0
    BY <2>1 DEF constructed, ImplType, invalid_socket
  <2> QED BY <2>1, <2>2, <2>3
<1>2. /\ \A o \in Objects : impl[o] = constructed
      /\ \A f \in Fds : kern[f] = Closed
      /\ native = {} /\ \A i \in OpIds : ops[i] = NoOp
  BY DEF Init
<1>3. Typed(impl, kern, native, ops)
  BY <1>1, NoOpType DEF Init, Typed
<1>4. Apart(impl, native, ops)
  BY <1>1, <1>2, NoOpType DEF Apart
<1>5. OpenOwned(impl, kern, native, ops)
  BY <1>1, <1>2, NoOpType DEF OpenOwned, HasOwner, Fds
<1>6. Described(impl, kern) /\ PendingOK(impl, kern, ops, cleared)
  BY <1>1, <1>2, NoOpType DEF Described, PendingOK
<1>7. call \in CallType /\ call.phase = "idle"
  BY NoCallType DEF Init
<1> QED BY <1>3, <1>4, <1>5, <1>6, <1>7 DEF Init, IInv, TheWorld, World, CallOK

(* Every step preserves the invariant and is honest.                       *)
LEMMA IInvNext == IInv /\ [Next]_vars => IInv' /\ (UNCHANGED vars \/ Honest)
<1> SUFFICES ASSUME IInv, [Next]_vars PROVE IInv' /\ (UNCHANGED vars \/ Honest)
  OBVIOUS
<1>1. ASSUME Stepped PROVE IInv' /\ Honest
  BY <1>1 DEF Stepped, CallGood, IInv
<1>2. ASSUME NEW o \in Objects, SocketCall(o) \/ TransferCall(o) \/ AcceptorCall(o)
      PROVE  Stepped
  BY <1>2, SocketCalls, TransferCalls, AcceptorCalls
<1>3. CASE SyncTry \/ SyncAccept \/ PollReturns
  BY <1>1, <1>3, SyncTryStep, SyncAcceptStep, PollReturnsStep
<1>4. ASSUME NEW i \in OpIds,
             \/ Perform(i) \/ PerformConnect(i) \/ PerformAccept(i) \/ PerformWait(i)
             \/ CompleteAccept(i) \/ Discard(i)
      PROVE  Stepped
  BY <1>4, PerformStep, PerformConnectStep, PerformAcceptStep, PerformWaitStep,
     CompleteAcceptStep, DiscardStep
<1>5. ASSUME NEW f \in Fds, Arrives(f) \/ PeerShuts(f) \/ Drains(f) \/ ConnectEnds(f)
      PROVE  Stepped
  BY <1>5, NetworkStep
<1>6. CASE OwnDescriptor
  BY <1>1, <1>6, OwnDescriptorStep
<1>7. CASE UNCHANGED vars
  BY <1>7 DEF vars, IInv, TheWorld, CallOK
<1> QED BY <1>1, <1>2, <1>3, <1>4, <1>5, <1>6, <1>7 DEF Next, Reactor, Network

(* The invariant of the proofs, for every program.                         *)
THEOREM SocketInvariant == Spec => []IInv
<1>1. IInv /\ [Next]_vars => IInv'
  BY IInvNext
<1> QED BY <1>1, IInvInit, PTL DEF Spec

-----------------------------------------------------------------------------
(* The properties.                                                         *)

(* Different members of S have different numbers in 1 .. LastFd: there are *)
(* as many numbers as members.                                             *)
LEMMA AsMany ==
  ASSUME NEW S, NEW g \in [S -> Fds], \A x, y \in S : g[x] = g[y] => x = y
  PROVE  Cardinality({g[x] : x \in S}) = Cardinality(S)
<1>1. PICK T : T = {g[x] : x \in S}
  OBVIOUS
<1>2. IsFiniteSet(T)
  <2>1. IsFiniteSet(Fds)
    BY SocketAssumption, FS_Interval DEF Fds
  <2>2. T \in SUBSET Fds
    BY <1>1
  <2> QED BY <2>1, <2>2, FS_Subset
<1>3. g \in Injection(S, T) /\ g \in Surjection(S, T)
  BY <1>1 DEF Injection, Surjection, IsInjective
<1>4. Cardinality(S) = Cardinality(T)
  BY <1>2, <1>3, FS_Injection
<1> QED BY <1>1, <1>4

LEMMA OneOwnerHolds == IInv => OneOwner
<1> SUFFICES ASSUME IInv PROVE OneOwner
  OBVIOUS
<1>1. World(impl, kern, native, ops, cleared)
  BY DEF IInv, TheWorld
<1>2. /\ \A o \in Objects : is_open(o) <=> impl[o].socket # 0
      /\ \A o \in Objects : impl[o].socket # 0 => impl[o].socket \in Fds
      /\ \A i \in OpIds : ops[i].new # 0 => ops[i].new \in Fds
      /\ native \subseteq Fds /\ 0 \notin Fds
  BY <1>1, WorldParts DEF is_open, invalid_socket, Fds
<1>3. Apart(impl, native, ops) /\ OpenOwned(impl, kern, native, ops)
  BY <1>1 DEF World
<1>4. {f \in Fds : kern[f].open} = Owned \cup Held \cup native
  <2>1. ASSUME NEW f \in Fds PROVE kern[f].open <=> f \in Owned \cup Held \cup native
    BY <1>2, <1>3 DEF OpenOwned, HasOwner, Owned, Held, invalid_socket
  <2>2. Owned \cup Held \cup native \subseteq Fds
    BY <1>2 DEF Owned, Held, invalid_socket
  <2> QED BY <2>1, <2>2
<1>5. Cardinality(Owned) = Cardinality({o \in Objects : is_open(o)})
  <2>1. PICK S : S = {o \in Objects : is_open(o)}
    OBVIOUS
  <2>2. PICK g : g = [o \in S |-> impl[o].socket]
    OBVIOUS
  <2>3. /\ g \in [S -> Fds]
        /\ \A o, p \in S : g[o] = g[p] => o = p
    BY <1>2, <1>3, <2>1, <2>2 DEF Apart
  <2>4. Owned = {g[o] : o \in S}
    BY <1>2, <2>1, <2>2 DEF Owned, invalid_socket
  <2> QED BY <2>1, <2>3, <2>4, AsMany
<1>6. Cardinality(Held) = Cardinality({i \in OpIds : ops[i].new # 0})
  <2>1. PICK S : S = {i \in OpIds : ops[i].new # 0}
    OBVIOUS
  <2>2. PICK g : g = [i \in S |-> ops[i].new]
    OBVIOUS
  <2>3. /\ g \in [S -> Fds]
        /\ \A i, j \in S : g[i] = g[j] => i = j
    BY <1>2, <1>3, <2>1, <2>2 DEF Apart
  <2>4. Held = {g[i] : i \in S}
    BY <1>2, <2>1, <2>2 DEF Held
  <2> QED BY <2>1, <2>3, <2>4, AsMany
<1>7. Owned \cap Held = {} /\ Owned \cap native = {} /\ Held \cap native = {}
  BY <1>3 DEF Apart, Owned, Held, invalid_socket
<1> QED BY <1>4, <1>5, <1>6, <1>7 DEF OneOwner

(* Every open descriptor has exactly one owner: socket object, accept      *)
(* operation or program; none is leaked and none closed twice.             *)
THEOREM OneOwnerAlways == Spec => []OneOwner
BY SocketInvariant, OneOwnerHolds, PTL

(* The flags of a socket say what its descriptor is, and a descriptor with *)
(* pending operations is non-blocking unless the program made it blocking, *)
(* which it should not be able to do (AsyncUnaffected in Socket).          *)
THEOREM FlagsTrueAlways == Spec => []FlagsTrue
<1>1. IInv => FlagsTrue
  <2> SUFFICES ASSUME IInv PROVE FlagsTrue
    OBVIOUS
  <2>1. /\ Described(impl, kern) /\ PendingOK(impl, kern, ops, cleared)
        /\ \A o \in Objects : is_open(o) <=> impl[o].socket # 0
    BY DEF IInv, TheWorld, World, is_open, invalid_socket
  <2> QED BY <2>1 DEF FlagsTrue, Described, Describes, PendingOK
<1> QED BY <1>1, SocketInvariant, PTL

(* Whatever way objects are closed, released, moved, assigned to or        *)
(* destroyed, no operation stays behind on a descriptor they had.          *)
THEOREM NoOrphansAlways == Spec => []NoOrphans
<1>1. IInv => NoOrphans
  <2> SUFFICES ASSUME IInv PROVE NoOrphans
    OBVIOUS
  <2>1. PendingOK(impl, kern, ops, cleared)
    BY DEF IInv, TheWorld, World
  <2> QED BY <2>1 DEF NoOrphans, PendingOK, Owned, invalid_socket
<1> QED BY <1>1, SocketInvariant, PTL

LEMMA NeverWaitsHolds == IInv => NeverWaits
<1> SUFFICES ASSUME IInv, call.phase # "idle", "user_set_non_blocking" \in call.state
             PROVE  /\ ~InKernel(call)
                    /\ call.op \notin {"connect", "accept"} => call.phase = "try"
  BY DEF NeverWaits
<1>1. UnderWay(impl, kern, call) /\ World(impl, kern, native, ops, cleared)
  BY DEF IInv, CallOK, TheWorld
<1>2. /\ call.op \in SyncOps
      /\ call.op \notin {"connect", "accept"} => call.phase = "try"
      /\ kern[call.fd].nonblock /\ kern[call.fd] \in Descriptor
  BY <1>1, WorldParts DEF UnderWay
<1>3. \E r \in Syscall(call.op, call.state, kern[call.fd]) : r.ec # "interrupted"
  BY <1>2, NobodyWaits
<1> QED BY <1>2, <1>3 DEF InKernel

(* A blocking call honours the mode its socket had when it began:          *)
(* would_block only in non-blocking mode; in it no waiting in a system     *)
(* call, nor in poll(), but for connect() and for accept(), which may wait *)
(* there against the documentation; eof only at the end of a stream, and   *)
(* destructors that do not wait.                                           *)
THEOREM ModeHonouredAlways == Spec => ModeHonoured
<1>1. IInv /\ [Next]_vars =>
        [/\ call'.ec = "would_block" /\ call' # call => "user_set_non_blocking" \in call.state
         /\ call'.ec = "eof" /\ call' # call =>
              "stream_oriented" \in call.state /\ kern[call.fd].in = 0 /\ "in" \in kern[call.fd].shut
         /\ call'.ec # "lingers"]_vars
  BY IInvNext DEF Honest
<1> QED BY <1>1, SocketInvariant, NeverWaitsHolds, PTL DEF ModeHonoured, Spec
=============================================================================
