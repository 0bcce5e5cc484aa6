---------------------------- MODULE ObjectsProof ----------------------------
(***************************************************************************)
(* Proofs about the parts of MCObjects beside the sockets: the registry of *)
(* an execution_context has one service of a type and destroys none before *)
(* its users, whatever the threads, the types and what their constructors  *)
(* ask for; an option object reads back what was set, whatever is the      *)
(* largest hop count; executors count their references, and a pool joins   *)
(* its handlers, whatever the contexts and the program's variables.        *)
(*                                                                         *)
(* A step of the registry is a sequence of small changes (an object is     *)
(* made, a frame is pushed or popped, a constructor is told of a service). *)
(* The invariant is an operator on the parts of the state (World), so that *)
(* each change has one lemma, also between two others.                     *)
(***************************************************************************)
EXTENDS MCObjects, InductionFacts, SequenceTheorems

-----------------------------------------------------------------------------
(* service_registry. *)

ObjectType ==
  [key : Services, life : {"made", "registered", "shut", "destroyed"}, uses : SUBSET Nat]

FrameType ==
  [op : {"use", "make", "foreign"}, key : Services, object : Nat,
   pc : {"start", "construct", "made"}, next : Nat \ {0}]

InList(list, n) == \E i \in DOMAIN list : list[i] = n

Listed(o) == o.life \in {"registered", "shut"}

(* Each service is listed before those it uses, and its type but once.     *)
ListGood(list, objs) ==
  /\ \A i \in DOMAIN list :
       /\ list[i] \in DOMAIN objs /\ Listed(objs[list[i]])
       /\ \A m \in objs[list[i]].uses : \E j \in DOMAIN list : i < j /\ list[j] = m
  /\ \A i, j \in DOMAIN list : objs[list[i]].key = objs[list[j]].key => i = j
  /\ \A n \in DOMAIN objs : Listed(objs[n]) => InList(list, n)

FrameGood(f, objs) ==
  IF f.pc = "start" THEN f.op = "use" /\ f.object = 0
  ELSE f.object \in DOMAIN objs /\ objs[f.object].life = "made" /\ objs[f.object].key = f.key

Making(st) == {st[i].object : i \in DOMAIN st} \ {0}

(* A call waits only for what its constructor asks for, and no two calls   *)
(* make the same object.                                                   *)
StackGood(st, objs) ==
  /\ st \in Seq(FrameType)
  /\ \A i \in DOMAIN st : FrameGood(st[i], objs) /\ (i < Len(st) => st[i].pc = "construct")
  /\ \A i, j \in DOMAIN st : st[i].object = st[j].object /\ st[i].object # 0 => i = j

StacksGood(stacks, objs) ==
  /\ stacks \in [Callers -> Seq(FrameType)]
  /\ \A t \in Callers : StackGood(stacks[t], objs)
  /\ \A t, u \in Callers : t # u => Making(stacks[t]) \cap Making(stacks[u]) = {}

(* What is made is held by the call that makes it, and uses what is listed. *)
MadeGood(list, objs, stacks) ==
  \A n \in DOMAIN objs : objs[n].life = "made" =>
    /\ \A m \in objs[n].uses : InList(list, m)
    /\ \E t \in Callers : n \in Making(stacks[t])

ReturnedGood(given, list, objs, alive) ==
  /\ \A r \in given :
       /\ r = <<r[1], r[2]>> /\ r[2] \in DOMAIN objs /\ objs[r[2]].key = r[1]
       /\ alive => InList(list, r[2])
  /\ \A r, s \in given : r[1] = s[1] => r[2] = s[2]

(* Services are shut down from the first of the list on.                   *)
LifeGood(list, objs, ctx) ==
  /\ ctx = "alive" => \A i \in DOMAIN list : objs[list[i]].life = "registered"
  /\ ctx = "shutdown" => \A i, j \in DOMAIN list :
       i < j /\ objs[list[i]].life = "registered" => objs[list[j]].life = "registered"

ForkType ==
  [event : {"none", "prepare", "parent", "child"}, todo : Seq(Nat), done : Seq(Nat)]

(* Who is told of a fork, in the order of the list.                        *)
ForkGood(f, objs) ==
  LET all == f.done \o f.todo
  IN  /\ f \in ForkType
      /\ \A i \in DOMAIN all : all[i] \in DOMAIN objs /\ objs[all[i]].life # "made"
      /\ \A i, j \in DOMAIN all : i < j =>
           IF f.event = "prepare" THEN all[i] \notin objs[all[j]].uses
           ELSE all[j] \notin objs[all[i]].uses


Lives == {"made", "registered", "shut", "destroyed"}
WithLife(objs, n, life) == [objs EXCEPT ![n].life = life]
WithUse(objs, h, n) == [objs EXCEPT ![h].uses = @ \cup {n}]

LEMMA WithLifeIs ==
  ASSUME NEW objs \in Seq(ObjectType), NEW n \in DOMAIN objs, NEW life \in Lives
  PROVE  LET d == WithLife(objs, n, life)
         IN  /\ d \in Seq(ObjectType) /\ DOMAIN d = DOMAIN objs /\ Len(d) = Len(objs)
             /\ d[n].life = life
             /\ \A m \in DOMAIN objs : d[m].key = objs[m].key /\ d[m].uses = objs[m].uses
             /\ \A m \in DOMAIN objs \ {n} : d[m] = objs[m]
<1> DEFINE o == [objs[n] EXCEPT !.life = life]
           d == [objs EXCEPT ![n] = o]
<1>1. objs[n] \in ObjectType
  OBVIOUS
<1>2. o \in ObjectType /\ o.life = life /\ o.key = objs[n].key /\ o.uses = objs[n].uses
  BY <1>1 DEF ObjectType, Lives
<1>3. WithLife(objs, n, life) = d
  BY DEF WithLife
<1> HIDE DEF o
<1>4. d \in Seq(ObjectType) /\ Len(d) = Len(objs) /\ d[n] = o
      /\ \A m \in DOMAIN objs \ {n} : d[m] = objs[m]
  BY <1>2
<1>5. DOMAIN d = DOMAIN objs
  OBVIOUS
<1> HIDE DEF d
<1>6. ASSUME NEW m \in DOMAIN objs PROVE d[m].key = objs[m].key /\ d[m].uses = objs[m].uses
  BY <1>2, <1>4
<1> QED BY <1>2, <1>3, <1>4, <1>5, <1>6

LEMMA WithUseIs ==
  ASSUME NEW objs \in Seq(ObjectType), NEW h \in DOMAIN objs, NEW n \in Nat
  PROVE  LET d == WithUse(objs, h, n)
         IN  /\ d \in Seq(ObjectType) /\ DOMAIN d = DOMAIN objs /\ Len(d) = Len(objs)
             /\ d[h].uses = objs[h].uses \cup {n}
             /\ \A m \in DOMAIN objs : d[m].key = objs[m].key /\ d[m].life = objs[m].life
             /\ \A m \in DOMAIN objs \ {h} : d[m] = objs[m]
<1> DEFINE o == [objs[h] EXCEPT !.uses = @ \cup {n}]
           d == [objs EXCEPT ![h] = o]
<1>1. objs[h] \in ObjectType
  OBVIOUS
<1>2. /\ o \in ObjectType /\ o.life = objs[h].life /\ o.key = objs[h].key
      /\ o.uses = objs[h].uses \cup {n}
  BY <1>1 DEF ObjectType
<1>3. WithUse(objs, h, n) = d
  BY DEF WithUse
<1> HIDE DEF o
<1>4. d \in Seq(ObjectType) /\ Len(d) = Len(objs) /\ d[h] = o
      /\ \A m \in DOMAIN objs \ {h} : d[m] = objs[m]
  BY <1>2
<1>5. DOMAIN d = DOMAIN objs
  OBVIOUS
<1> HIDE DEF d
<1>6. ASSUME NEW m \in DOMAIN objs PROVE d[m].key = objs[m].key /\ d[m].life = objs[m].life
  BY <1>2, <1>4
<1> QED BY <1>2, <1>3, <1>4, <1>5, <1>6

(* The frames of two stacks agree, as far as the shorter one goes, in what *)
(* they are for; the top of the shorter one may have got further.          *)
Alike(a, st) ==
  /\ a \in Seq(FrameType) /\ st \in Seq(FrameType) /\ Len(a) <= Len(st)
  /\ \A i \in 1 .. Len(a) :
       /\ a[i].op = st[i].op /\ a[i].key = st[i].key /\ a[i].object = st[i].object
       /\ a[i].pc = "start" <=> st[i].pc = "start"
       /\ i < Len(a) => a[i].pc = st[i].pc

(* The objects of H are made under the same keys.                          *)
Kept(H, objs, to) ==
  \A n \in H : n \in DOMAIN to /\ to[n].life = objs[n].life /\ to[n].key = objs[n].key

LEMMA AlikeGood ==
  ASSUME NEW a, NEW st, NEW objs \in Seq(ObjectType), NEW to, Alike(a, st), StackGood(st, objs),
         Kept(Making(a), objs, to)
  PROVE  StackGood(a, to) /\ Making(a) \subseteq Making(st)
<1>1. /\ a \in Seq(FrameType) /\ st \in Seq(FrameType) /\ DOMAIN a = 1 .. Len(a)
      /\ DOMAIN st = 1 .. Len(st) /\ Len(a) \in Nat /\ Len(st) \in Nat
  BY DEF Alike
<1>2. DOMAIN a \subseteq DOMAIN st
  BY <1>1 DEF Alike
<1>3. ASSUME NEW i \in DOMAIN a PROVE FrameGood(a[i], to) /\ (i < Len(a) => a[i].pc = "construct")
  <2>1. FrameGood(st[i], objs) /\ (i < Len(st) => st[i].pc = "construct")
    BY <1>2 DEF StackGood
  <2>2. /\ a[i].op = st[i].op /\ a[i].key = st[i].key /\ a[i].object = st[i].object
        /\ a[i].pc = "start" <=> st[i].pc = "start"
        /\ i < Len(a) => a[i].pc = st[i].pc
    BY <1>1 DEF Alike
  <2>3. CASE a[i].pc = "start"
    BY <1>1, <2>1, <2>2, <2>3 DEF FrameGood, Alike
  <2>4. CASE a[i].pc # "start"
    <3>1. st[i].pc # "start" /\ st[i].object = a[i].object /\ st[i].key = a[i].key
      BY <2>2, <2>4
    <3>2. CASE a[i].object = 0
      <4>1. 0 \in DOMAIN objs
        BY <2>1, <3>1, <3>2 DEF FrameGood
      <4> QED BY <4>1
    <3>3. CASE a[i].object # 0
      <4>1. a[i].object \in Making(a)
        BY <3>3 DEF Making
      <4> QED BY <1>1, <2>1, <2>2, <2>4, <3>1, <4>1 DEF FrameGood, Kept, Alike
    <3> QED BY <3>2, <3>3
  <2> QED BY <2>3, <2>4
<1>4. ASSUME NEW i \in DOMAIN a, NEW j \in DOMAIN a, a[i].object = a[j].object, a[i].object # 0
      PROVE  i = j
  BY <1>1, <1>2, <1>4 DEF Alike, StackGood
<1>5. Making(a) \subseteq Making(st)
  BY <1>1, <1>2 DEF Making, Alike
<1> QED BY <1>1, <1>3, <1>4, <1>5 DEF StackGood

(* The call at the top of a stack is over.                                 *)
Popped(st) ==
  LET below == Registry!Front(st)
  IN  IF below = <<>> THEN <<>> ELSE [below EXCEPT ![Len(below)].next = @ + 1]

LEMMA FrontIs ==
  ASSUME NEW st \in Seq(FrameType), st # <<>>
  PROVE  /\ Registry!Front(st) \in Seq(FrameType) /\ Len(Registry!Front(st)) = Len(st) - 1
         /\ Len(st) \in Nat \ {0} /\ DOMAIN st = 1 .. Len(st)
         /\ \A i \in 1 .. Len(st) - 1 : Registry!Front(st)[i] = st[i]
         /\ Registry!Last(st) = st[Len(st)] /\ st[Len(st)] \in FrameType
<1>1. Len(st) \in Nat \ {0} /\ DOMAIN st = 1 .. Len(st) /\ st[Len(st)] \in FrameType
  OBVIOUS
<1>2. Registry!Front(st) = SubSeq(st, 1, Len(st) - 1) /\ Registry!Last(st) = st[Len(st)]
  BY DEF Registry!Front, Registry!Last
<1>3. /\ SubSeq(st, 1, Len(st) - 1) \in Seq(FrameType)
      /\ Len(SubSeq(st, 1, Len(st) - 1)) = Len(st) - 1
      /\ \A i \in 1 .. Len(st) - 1 : SubSeq(st, 1, Len(st) - 1)[i] = st[i]
  BY <1>1
<1> QED BY <1>1, <1>2, <1>3

NextUse(f) == [f EXCEPT !.next = @ + 1]

LEMMA NextUseIs ==
  ASSUME NEW f \in FrameType
  PROVE  LET g == NextUse(f)
         IN  /\ g \in FrameType /\ g.op = f.op /\ g.key = f.key /\ g.object = f.object
             /\ g.pc = f.pc
BY DEF NextUse, FrameType

LEMMA PoppedIs ==
  ASSUME NEW st \in Seq(FrameType), st # <<>>
  PROVE  Alike(Popped(st), st) /\ Len(Popped(st)) = Len(st) - 1
         /\ \A i \in 1 .. Len(st) - 1 : Popped(st)[i].pc = st[i].pc
<1> DEFINE below == Registry!Front(st)
           p == Popped(st)
<1>1. /\ below \in Seq(FrameType) /\ Len(below) = Len(st) - 1
      /\ Len(st) \in Nat \ {0} /\ DOMAIN st = 1 .. Len(st)
      /\ \A i \in 1 .. Len(st) - 1 : below[i] = st[i]
  BY FrontIs
<1>2. CASE below = <<>>
  <2>1. p = <<>> /\ Len(st) = 1
    BY <1>1, <1>2 DEF Popped
  <2>2. p \in Seq(FrameType) /\ Len(p) = 0
    BY <2>1
  <2> HIDE DEF p
  <2> QED BY <2>1, <2>2 DEF Alike, p
<1>3. CASE below # <<>>
  <2> DEFINE n == Len(below)
             g == NextUse(below[n])
             q == [below EXCEPT ![n] = g]
  <2>1. n \in DOMAIN below /\ n \in Nat \ {0} /\ below[n] \in FrameType
    BY <1>1, <1>3
  <2>2. p = q
    BY <1>3 DEF Popped, NextUse
  <2>3. /\ g \in FrameType /\ g.op = below[n].op /\ g.key = below[n].key
        /\ g.object = below[n].object /\ g.pc = below[n].pc
    BY <2>1, NextUseIs
  <2> HIDE DEF p, g, below
  <2>4. /\ q \in Seq(FrameType) /\ Len(q) = n /\ q[n] = g
        /\ \A i \in 1 .. n : i # n => q[i] = below[i]
    BY <1>1, <2>1, <2>3
  <2> HIDE DEF q
  <2>5. ASSUME NEW i \in 1 .. n
        PROVE  /\ q[i].op = below[i].op /\ q[i].key = below[i].key
               /\ q[i].object = below[i].object /\ q[i].pc = below[i].pc
    BY <2>3, <2>4
  <2>6. n = Len(st) - 1
    BY <1>1
  <2> HIDE DEF n
  <2>7. \A i \in 1 .. n : q[i].op = st[i].op /\ q[i].key = st[i].key
                          /\ q[i].object = st[i].object /\ q[i].pc = st[i].pc
    BY <1>1, <2>5, <2>6
  <2> QED BY <1>1, <2>2, <2>4, <2>6, <2>7 DEF Alike, p
<1> QED BY <1>2, <1>3

(* A stack is replaced by one that holds nothing others hold.              *)
LEMMA StackSet ==
  ASSUME NEW stacks, NEW objs, NEW to, StacksGood(stacks, objs), NEW t \in Callers,
         NEW st, StackGood(st, to),
         \A u \in Callers \ {t} : /\ Kept(Making(stacks[u]), objs, to)
                                  /\ Making(st) \cap Making(stacks[u]) = {},
         objs \in Seq(ObjectType)
  PROVE  StacksGood([stacks EXCEPT ![t] = st], to)
<1> DEFINE s == [stacks EXCEPT ![t] = st]
<1>1. /\ s \in [Callers -> Seq(FrameType)] /\ s[t] = st
      /\ \A u \in Callers \ {t} : s[u] = stacks[u]
  BY DEF StacksGood, StackGood
<1> HIDE DEF s
<1>2. ASSUME NEW u \in Callers PROVE StackGood(s[u], to)
  <2>1. CASE u = t
    BY <1>1, <2>1
  <2>2. CASE u # t
    <3>1. s[u] = stacks[u] /\ StackGood(stacks[u], objs) /\ Kept(Making(stacks[u]), objs, to)
      BY <1>1, <2>2 DEF StacksGood
    <3>2. Alike(stacks[u], stacks[u])
      BY <3>1 DEF Alike, StackGood
    <3> QED BY <3>1, <3>2, AlikeGood
  <2> QED BY <2>1, <2>2
<1>3. ASSUME NEW u \in Callers, NEW v \in Callers, u # v
      PROVE  Making(s[u]) \cap Making(s[v]) = {}
  <2>1. CASE u = t
    BY <1>1, <1>3, <2>1
  <2>2. CASE v = t
    BY <1>1, <1>3, <2>2
  <2>3. CASE u # t /\ v # t
    BY <1>1, <1>3, <2>3 DEF StacksGood
  <2> QED BY <2>1, <2>2, <2>3
<1> QED BY <1>1, <1>2, <1>3 DEF StacksGood, s

(* What a stack that has been popped holds.                                *)
LEMMA PoppedHolds ==
  ASSUME NEW st, NEW objs \in Seq(ObjectType), StackGood(st, objs), st # <<>>,
         NEW to, \A n \in Making(st) \ {st[Len(st)].object} :
                   n \in DOMAIN to /\ to[n].life = objs[n].life /\ to[n].key = objs[n].key
  PROVE  /\ StackGood(Popped(st), to)
         /\ Making(Popped(st)) = Making(st) \ {st[Len(st)].object}
<1> DEFINE p == Popped(st)
           n == Len(st)
<1>1. /\ st \in Seq(FrameType) /\ n \in Nat \ {0} /\ DOMAIN st = 1 .. n
  BY FrontIs DEF StackGood
<1>2. /\ Alike(p, st) /\ Len(p) = n - 1 /\ p \in Seq(FrameType)
      /\ \A i \in 1 .. n - 1 : p[i].pc = st[i].pc /\ p[i].object = st[i].object
  <2>1. Alike(p, st) /\ Len(p) = n - 1 /\ \A i \in 1 .. n - 1 : p[i].pc = st[i].pc
    BY <1>1, PoppedIs
  <2> HIDE DEF p
  <2> QED BY <2>1 DEF Alike
<1> HIDE DEF p
<1>3. DOMAIN p = 1 .. n - 1
  BY <1>2
<1>4. Making(p) = Making(st) \ {st[n].object}
  <2>1. ASSUME NEW i \in 1 .. n - 1, st[i].object # 0 PROVE st[i].object # st[n].object
    BY <1>1, <2>1 DEF StackGood
  <2>2. Making(p) \subseteq Making(st) \ {st[n].object}
    BY <1>1, <1>2, <1>3, <2>1 DEF Making
  <2>3. ASSUME NEW x \in Making(st) \ {st[n].object} PROVE x \in Making(p)
    <3>1. PICK i \in DOMAIN st : x = st[i].object /\ x # 0
      BY DEF Making
    <3>2. i # n
      BY <3>1
    <3>3. i \in 1 .. n - 1
      BY <1>1, <3>2
    <3> QED BY <1>2, <1>3, <3>1, <3>3 DEF Making
  <2> QED BY <2>2, <2>3
<1>5. Kept(Making(p), objs, to)
  BY <1>4 DEF Kept
<1>6. StackGood(p, to)
  BY <1>2, <1>5, AlikeGood
<1> QED BY <1>4, <1>6 DEF p

-----------------------------------------------------------------------------
(* What a step may do to services, objects and stacks. *)

World(list, objs, stacks, given, ctx, f) ==
  /\ list \in Seq(Nat) /\ objs \in Seq(ObjectType)
  /\ ListGood(list, objs)
  /\ StacksGood(stacks, objs)
  /\ MadeGood(list, objs, stacks)
  /\ ReturnedGood(given, list, objs, ctx = "alive")
  /\ LifeGood(list, objs, ctx)
  /\ ctx # "alive" => \A t \in Callers : stacks[t] = <<>>
  /\ ForkGood(f, objs)

(* A constructor has been given a service.                                 *)
LEMMA UseGiven ==
  ASSUME NEW list, NEW objs, NEW stacks, NEW given, NEW ctx, NEW f,
         World(list, objs, stacks, given, ctx, f),
         NEW h \in DOMAIN objs, objs[h].life = "made", NEW n \in Nat, InList(list, n)
  PROVE  World(list, WithUse(objs, h, n), stacks, given, ctx, f)
<1> DEFINE d == WithUse(objs, h, n)
<1>1. objs \in Seq(ObjectType)
  BY DEF World
<1>2. /\ d \in Seq(ObjectType) /\ DOMAIN d = DOMAIN objs
      /\ d[h].uses = objs[h].uses \cup {n}
      /\ \A m \in DOMAIN objs : d[m].key = objs[m].key /\ d[m].life = objs[m].life
      /\ \A m \in DOMAIN objs \ {h} : d[m] = objs[m]
  BY <1>1, WithUseIs
<1> HIDE DEF d
<1>3. ListGood(list, d)
  <2>1. \A i \in DOMAIN list : list[i] # h
    BY DEF World, ListGood, Listed
  <2> QED BY <1>2, <2>1 DEF World, ListGood, Listed
<1>4. StacksGood(stacks, d)
  <2>1. ASSUME NEW t \in Callers PROVE StackGood(stacks[t], d)
    <3>1. StackGood(stacks[t], objs)
      BY DEF World, StacksGood
    <3>2. Alike(stacks[t], stacks[t])
      BY <3>1 DEF Alike, StackGood
    <3>3. ASSUME NEW m \in Making(stacks[t]) PROVE m \in DOMAIN objs
      BY <3>1 DEF Making, StackGood, FrameGood
    <3>4. Kept(Making(stacks[t]), objs, d)
      BY <1>2, <3>3 DEF Kept
    <3> QED BY <1>1, <3>1, <3>2, <3>4, AlikeGood
  <2> QED BY <2>1 DEF World, StacksGood
<1>5. MadeGood(list, d, stacks)
  <2>1. ASSUME NEW m \in DOMAIN d, d[m].life = "made"
        PROVE  /\ \A k \in d[m].uses : InList(list, k)
               /\ \E t \in Callers : m \in Making(stacks[t])
    <3>1. /\ \A k \in objs[m].uses : InList(list, k)
          /\ \E t \in Callers : m \in Making(stacks[t])
      BY <1>2, <2>1 DEF World, MadeGood
    <3>2. \A k \in d[m].uses : k \in objs[m].uses \/ k = n
      BY <1>2
    <3> QED BY <3>1, <3>2
  <2> QED BY <2>1 DEF MadeGood
<1>6. ReturnedGood(given, list, d, ctx = "alive")
  BY <1>2 DEF World, ReturnedGood
<1>7. LifeGood(list, d, ctx)
  <2>1. \A i \in DOMAIN list : d[list[i]].life = objs[list[i]].life
    BY <1>2 DEF World, ListGood
  <2> QED BY <2>1 DEF World, LifeGood
<1>8. ForkGood(f, d)
  <2> DEFINE all == f.done \o f.todo
  <2>1. \A i \in DOMAIN all : all[i] \in DOMAIN objs /\ all[i] # h
    BY DEF World, ForkGood
  <2> HIDE DEF all
  <2>2. \A i \in DOMAIN all : all[i] \in DOMAIN d /\ d[all[i]] = objs[all[i]]
    BY <1>2, <2>1
  <2> QED BY <2>2 DEF World, ForkGood, all
<1>9. World(list, d, stacks, given, ctx, f)
  BY <1>2, <1>3, <1>4, <1>5, <1>6, <1>7, <1>8 DEF World
<1> QED BY <1>9 DEF d

(* A service is given to somebody.                                         *)
LEMMA GivenOut ==
  ASSUME NEW list, NEW objs, NEW stacks, NEW given, NEW f,
         World(list, objs, stacks, given, "alive", f),
         NEW n, InList(list, n)
  PROVE  World(list, objs, stacks, given \cup {<<objs[n].key, n>>}, "alive", f)
<1> DEFINE r == <<objs[n].key, n>>
<1>1. PICK j \in DOMAIN list : list[j] = n
  BY DEF InList
<1>2. n \in DOMAIN objs
  BY <1>1 DEF World, ListGood
<1>3. r = <<r[1], r[2]>> /\ r[2] = n /\ r[1] = objs[n].key
  OBVIOUS
<1> HIDE DEF r
<1>4. ASSUME NEW s \in given, s[1] = r[1] PROVE s[2] = r[2]
  <2>1. InList(list, s[2]) /\ objs[s[2]].key = objs[n].key
    BY <1>3, <1>4 DEF World, ReturnedGood
  <2>2. PICK i \in DOMAIN list : list[i] = s[2]
    BY <2>1 DEF InList
  <2> QED BY <1>1, <1>3, <2>1, <2>2 DEF World, ListGood
<1>5. ReturnedGood(given \cup {r}, list, objs, TRUE)
  BY <1>2, <1>3, <1>4 DEF World, ReturnedGood
<1> QED BY <1>5 DEF World, r

(* A stack holds the same as before, and the objects are the same.         *)
LEMMA StackChanged ==
  ASSUME NEW list, NEW objs, NEW stacks, NEW given, NEW f,
         World(list, objs, stacks, given, "alive", f),
         NEW t \in Callers, NEW st, StackGood(st, objs), Making(st) = Making(stacks[t])
  PROVE  World(list, objs, [stacks EXCEPT ![t] = st], given, "alive", f)
<1> DEFINE s == [stacks EXCEPT ![t] = st]
<1>1. objs \in Seq(ObjectType) /\ StacksGood(stacks, objs)
  BY DEF World
<1>2. ASSUME NEW u \in Callers \ {t}
      PROVE  Kept(Making(stacks[u]), objs, objs) /\ Making(st) \cap Making(stacks[u]) = {}
  <2>1. ASSUME NEW m \in Making(stacks[u]) PROVE m \in DOMAIN objs
    BY <1>1 DEF Making, StacksGood, StackGood, FrameGood
  <2> QED BY <1>1, <2>1 DEF Kept, StacksGood
<1>3. StacksGood(s, objs)
  BY <1>1, <1>2, StackSet
<1>4. \A u \in Callers : Making(s[u]) = Making(stacks[u])
  BY <1>1 DEF StacksGood
<1> HIDE DEF s
<1>5. MadeGood(list, objs, s)
  BY <1>4 DEF World, MadeGood
<1>6. World(list, objs, s, given, "alive", f)
  BY <1>3, <1>5 DEF World
<1> QED BY <1>6 DEF s

(* A frame on top of a stack whose top is constructing.                    *)
LEMMA FramePushed ==
  ASSUME NEW st, NEW objs \in Seq(ObjectType), StackGood(st, objs), NEW g \in FrameType,
         FrameGood(g, objs), g.pc = "start",
         \A i \in DOMAIN st : st[i].pc = "construct"
  PROVE  StackGood(Append(st, g), objs) /\ Making(Append(st, g)) = Making(st)
<1> DEFINE s == Append(st, g)
           n == Len(st)
<1>1. /\ st \in Seq(FrameType) /\ n \in Nat /\ DOMAIN st = 1 .. n /\ s \in Seq(FrameType)
      /\ Len(s) = n + 1 /\ DOMAIN s = 1 .. n + 1 /\ s[n + 1] = g
      /\ \A i \in 1 .. n : s[i] = st[i]
  BY DEF StackGood
<1>2. g.object = 0
  BY DEF FrameGood
<1> HIDE DEF s, n
<1>3. Making(s) = Making(st)
  BY <1>1, <1>2 DEF Making
<1>4. ASSUME NEW i \in DOMAIN s PROVE FrameGood(s[i], objs) /\ (i < Len(s) => s[i].pc = "construct")
  <2>1. CASE i = n + 1
    BY <1>1, <2>1
  <2>2. CASE i \in 1 .. n
    BY <1>1, <2>2 DEF StackGood
  <2> QED BY <1>1, <2>1, <2>2
<1>5. ASSUME NEW i \in DOMAIN s, NEW j \in DOMAIN s, s[i].object = s[j].object, s[i].object # 0
      PROVE  i = j
  <2>1. i \in 1 .. n /\ j \in 1 .. n
    BY <1>1, <1>2, <1>5
  <2> QED BY <1>1, <1>5, <2>1 DEF StackGood
<1> QED BY <1>1, <1>3, <1>4, <1>5 DEF StackGood, s

AtTop(stacks, t) == stacks[t][Len(stacks[t])]
PoppedAt(stacks, t) == [stacks EXCEPT ![t] = Popped(@)]

(* The stack t after its top frame, of a made object, has gone.            *)
LEMMA TopGone ==
  ASSUME NEW list, NEW objs, NEW stacks, NEW given, NEW f,
         World(list, objs, stacks, given, "alive", f),
         NEW t \in Callers, stacks[t] # <<>>,
         NEW n, n = AtTop(stacks, t).object, AtTop(stacks, t).pc # "start",
         NEW life \in {"registered", "destroyed"}
  PROVE  LET d == WithLife(objs, n, life)
             s == PoppedAt(stacks, t)
         IN  /\ n \in DOMAIN objs /\ objs[n].life = "made"
             /\ StacksGood(s, d)
             /\ \A u \in Callers : Making(s[u]) = Making(stacks[u]) \ {n}
<1> DEFINE st == stacks[t]
           d == WithLife(objs, n, life)
           s == [stacks EXCEPT ![t] = Popped(st)]
<1>1. /\ objs \in Seq(ObjectType) /\ StacksGood(stacks, objs) /\ StackGood(st, objs)
      /\ st \in Seq(FrameType)
  BY DEF World, StacksGood
<1>2. Len(st) \in DOMAIN st
  BY <1>1
<1>3. n \in DOMAIN objs /\ objs[n].life = "made" /\ n # 0 /\ n \in Making(st)
  <2>1. FrameGood(st[Len(st)], objs)
    BY <1>1, <1>2 DEF StackGood
  <2>2. n \in DOMAIN objs /\ objs[n].life = "made"
    BY <2>1 DEF FrameGood, AtTop
  <2>3. n # 0
    BY <1>1, <2>2
  <2> QED BY <1>2, <2>2, <2>3 DEF Making, AtTop
<1>4. /\ d \in Seq(ObjectType) /\ DOMAIN d = DOMAIN objs
      /\ \A m \in DOMAIN objs \ {n} : d[m] = objs[m]
  <2>1. life \in Lives
    BY DEF Lives
  <2> QED BY <1>1, <1>3, <2>1, WithLifeIs
<1> HIDE DEF d
<1>5. ASSUME NEW u \in Callers \ {t} PROVE n \notin Making(stacks[u])
  BY <1>1, <1>3 DEF StacksGood
<1>6. ASSUME NEW u \in Callers, NEW m \in Making(stacks[u]) \ {n}
      PROVE  m \in DOMAIN d /\ d[m].life = objs[m].life /\ d[m].key = objs[m].key
  <2>1. m \in DOMAIN objs
    BY <1>1 DEF Making, StacksGood, StackGood, FrameGood
  <2> QED BY <1>4, <2>1
<1>7. StackGood(Popped(st), d) /\ Making(Popped(st)) = Making(st) \ {n}
  <2>1. st # <<>> /\ n = st[Len(st)].object
    BY DEF AtTop
  <2>2. \A m \in Making(st) \ {st[Len(st)].object} :
           m \in DOMAIN d /\ d[m].life = objs[m].life /\ d[m].key = objs[m].key
    BY <1>6, <2>1
  <2> HIDE DEF st
  <2> QED BY <1>1, <2>1, <2>2, PoppedHolds
<1>8. ASSUME NEW u \in Callers \ {t}
      PROVE  /\ Kept(Making(stacks[u]), objs, d)
             /\ Making(Popped(st)) \cap Making(stacks[u]) = {}
  <2>1. Kept(Making(stacks[u]), objs, d)
    BY <1>5, <1>6 DEF Kept
  <2>2. Making(st) \cap Making(stacks[u]) = {}
    BY <1>1 DEF StacksGood
  <2> QED BY <1>7, <2>1, <2>2
<1>9. StacksGood(s, d)
  BY <1>1, <1>7, <1>8, StackSet
<1>10. ASSUME NEW u \in Callers PROVE Making(s[u]) = Making(stacks[u]) \ {n}
  <2>1. CASE u = t
    BY <1>1, <1>7, <2>1 DEF StacksGood
  <2>2. CASE u # t
    BY <1>1, <1>5, <2>2 DEF StacksGood
  <2> QED BY <2>1, <2>2
<1> QED BY <1>3, <1>9, <1>10 DEF d, PoppedAt

(* The object is destroyed.                                                *)
LEMMA Dropped ==
  ASSUME NEW list, NEW objs, NEW stacks, NEW given, NEW f,
         World(list, objs, stacks, given, "alive", f),
         NEW t \in Callers, stacks[t] # <<>>,
         NEW n, n = AtTop(stacks, t).object, AtTop(stacks, t).pc # "start"
  PROVE  World(list, WithLife(objs, n, "destroyed"), PoppedAt(stacks, t), given, "alive", f)
<1> DEFINE d == WithLife(objs, n, "destroyed")
           s == PoppedAt(stacks, t)
<1>1. objs \in Seq(ObjectType)
  BY DEF World
<1>2. /\ n \in DOMAIN objs /\ objs[n].life = "made" /\ StacksGood(s, d)
      /\ \A u \in Callers : Making(s[u]) = Making(stacks[u]) \ {n}
  <2>1. "destroyed" \in {"registered", "destroyed"}
    OBVIOUS
  <2> QED BY <2>1, TopGone
<1>3. /\ d \in Seq(ObjectType) /\ DOMAIN d = DOMAIN objs /\ d[n].life = "destroyed"
      /\ \A m \in DOMAIN objs : d[m].key = objs[m].key /\ d[m].uses = objs[m].uses
      /\ \A m \in DOMAIN objs \ {n} : d[m] = objs[m]
  <2>1. "destroyed" \in Lives
    BY DEF Lives
  <2> QED BY <1>1, <1>2, <2>1, WithLifeIs
<1> HIDE DEF d, s
<1>4. ASSUME NEW i \in DOMAIN list PROVE list[i] # n /\ list[i] \in DOMAIN objs
  BY <1>2 DEF World, ListGood, Listed
<1>5. ListGood(list, d)
  BY <1>2, <1>3, <1>4 DEF World, ListGood, Listed
<1>6. ASSUME NEW m \in DOMAIN d, d[m].life = "made"
      PROVE  /\ \A k \in d[m].uses : InList(list, k)
             /\ \E u \in Callers : m \in Making(s[u])
  <2>1. m # n /\ d[m] = objs[m] /\ m \in DOMAIN objs
    BY <1>3, <1>6
  <2>2. /\ \A k \in objs[m].uses : InList(list, k)
        /\ \E u \in Callers : m \in Making(stacks[u])
    BY <1>6, <2>1 DEF World, MadeGood
  <2> QED BY <1>2, <2>1, <2>2
<1>7. ReturnedGood(given, list, d, TRUE)
  BY <1>3 DEF World, ReturnedGood
<1>8. LifeGood(list, d, "alive")
  BY <1>3, <1>4 DEF World, LifeGood
<1>9. ForkGood(f, d)
  <2> DEFINE all == f.done \o f.todo
  <2>1. \A i \in DOMAIN all : all[i] \in DOMAIN objs /\ all[i] # n
    BY <1>2 DEF World, ForkGood
  <2> HIDE DEF all
  <2>2. \A i \in DOMAIN all : all[i] \in DOMAIN d /\ d[all[i]] = objs[all[i]]
    BY <1>3, <2>1
  <2> QED BY <2>2 DEF World, ForkGood, all
<1>10. World(list, d, s, given, "alive", f)
  BY <1>2, <1>3, <1>5, <1>6, <1>7, <1>8, <1>9 DEF World, MadeGood
<1> QED BY <1>10 DEF d, s

(* The object is a service from now on.                                    *)
LEMMA Enlisted ==
  ASSUME NEW list, NEW objs, NEW stacks, NEW given, NEW f,
         World(list, objs, stacks, given, "alive", f),
         NEW t \in Callers, stacks[t] # <<>>,
         NEW n, n = AtTop(stacks, t).object, AtTop(stacks, t).pc # "start",
         \A i \in DOMAIN list : objs[list[i]].key # objs[n].key
  PROVE  World(<<n>> \o list, WithLife(objs, n, "registered"), PoppedAt(stacks, t),
               given, "alive", f)
<1> DEFINE d == WithLife(objs, n, "registered")
           s == PoppedAt(stacks, t)
           new == <<n>> \o list
<1>1. objs \in Seq(ObjectType) /\ list \in Seq(Nat) /\ Len(list) \in Nat
      /\ DOMAIN list = 1 .. Len(list)
  BY DEF World
<1>2. /\ n \in DOMAIN objs /\ objs[n].life = "made" /\ StacksGood(s, d)
      /\ \A u \in Callers : Making(s[u]) = Making(stacks[u]) \ {n}
  <2>1. "registered" \in {"registered", "destroyed"}
    OBVIOUS
  <2> QED BY <2>1, TopGone
<1>3. /\ d \in Seq(ObjectType) /\ DOMAIN d = DOMAIN objs /\ d[n].life = "registered"
      /\ \A m \in DOMAIN objs : d[m].key = objs[m].key /\ d[m].uses = objs[m].uses
      /\ \A m \in DOMAIN objs \ {n} : d[m] = objs[m]
  <2>1. "registered" \in Lives
    BY DEF Lives
  <2> QED BY <1>1, <1>2, <2>1, WithLifeIs
<1>4. ASSUME NEW i \in DOMAIN list PROVE list[i] # n /\ list[i] \in DOMAIN objs
  BY <1>2 DEF World, ListGood, Listed
<1>0. n \in Nat
  BY <1>1, <1>2
<1>5. /\ new \in Seq(Nat) /\ DOMAIN new = 1 .. Len(list) + 1 /\ new[1] = n
      /\ \A i \in DOMAIN list : new[i + 1] = list[i]
  BY <1>0, <1>1
<1> HIDE DEF d, s, new
<1>6. ASSUME NEW i \in DOMAIN new
      PROVE  i = 1 \/ \E k \in DOMAIN list : i = k + 1 /\ new[i] = list[k]
  <2>1. CASE i # 1
    <3>1. i - 1 \in DOMAIN list /\ i = (i - 1) + 1
      BY <1>1, <1>5, <2>1
    <3> QED BY <1>5, <3>1
  <2> QED BY <2>1
<1>7. ASSUME NEW m, InList(list, m) PROVE \E j \in DOMAIN new : j > 1 /\ new[j] = m
  <2>1. PICK i \in DOMAIN list : list[i] = m
    BY <1>7 DEF InList
  <2>2. i \in 1 .. Len(list)
    BY <1>1
  <2>3. i + 1 \in DOMAIN new /\ i + 1 > 1
    BY <1>1, <1>5, <2>2
  <2> QED BY <1>5, <2>1, <2>3
<1>8. ASSUME NEW i \in DOMAIN new
      PROVE  /\ new[i] \in DOMAIN d /\ d[new[i]].life = "registered"
             /\ \A m \in d[new[i]].uses : \E j \in DOMAIN new : i < j /\ new[j] = m
  <2>1. CASE i = 1
    <3>1. new[i] = n /\ \A m \in objs[n].uses : InList(list, m)
      BY <1>2, <1>5, <2>1 DEF World, MadeGood
    <3> QED BY <1>2, <1>3, <1>7, <2>1, <3>1
  <2>2. CASE i # 1
    <3>1. PICK k \in DOMAIN list : i = k + 1 /\ new[i] = list[k]
      BY <1>6, <2>2
    <3>2. /\ list[k] \in DOMAIN objs /\ objs[list[k]].life = "registered"
          /\ \A m \in objs[list[k]].uses : \E j \in DOMAIN list : k < j /\ list[j] = m
      BY DEF World, ListGood, LifeGood
    <3>3. d[list[k]] = objs[list[k]]
      BY <1>3, <1>4
    <3>4. ASSUME NEW m \in d[new[i]].uses PROVE \E j \in DOMAIN new : i < j /\ new[j] = m
      <4>1. PICK j \in DOMAIN list : k < j /\ list[j] = m
        BY <3>1, <3>2, <3>3
      <4>2. j \in 1 .. Len(list) /\ k \in 1 .. Len(list)
        BY <1>1
      <4>3. j + 1 \in DOMAIN new /\ i < j + 1
        BY <1>1, <1>5, <3>1, <4>1, <4>2
      <4>4. new[j + 1] = m
        BY <1>5, <4>1
      <4> QED BY <4>3, <4>4
    <3> QED BY <1>3, <3>1, <3>2, <3>3, <3>4
  <2> QED BY <2>1, <2>2
<1>9. ASSUME NEW i \in DOMAIN new, NEW j \in DOMAIN new, d[new[i]].key = d[new[j]].key
      PROVE  i = j
  <2>1. \A k \in DOMAIN list : d[list[k]].key = objs[list[k]].key
    BY <1>3, <1>4
  <2>2. d[n].key = objs[n].key
    BY <1>2, <1>3
  <2>3. CASE i = 1 /\ j = 1
    BY <2>3
  <2>4. CASE i = 1 /\ j # 1
    <3>1. PICK k \in DOMAIN list : j = k + 1 /\ new[j] = list[k]
      BY <1>6, <2>4
    <3> QED BY <1>5, <1>9, <2>1, <2>2, <2>4, <3>1
  <2>5. CASE i # 1 /\ j = 1
    <3>1. PICK k \in DOMAIN list : i = k + 1 /\ new[i] = list[k]
      BY <1>6, <2>5
    <3> QED BY <1>5, <1>9, <2>1, <2>2, <2>5, <3>1
  <2>6. CASE i # 1 /\ j # 1
    <3>1. PICK k \in DOMAIN list : i = k + 1 /\ new[i] = list[k]
      BY <1>6, <2>6
    <3>2. PICK l \in DOMAIN list : j = l + 1 /\ new[j] = list[l]
      BY <1>6, <2>6
    <3>3. k = l
      BY <1>9, <2>1, <3>1, <3>2 DEF World, ListGood
    <3> QED BY <3>1, <3>2, <3>3
  <2> QED BY <2>3, <2>4, <2>5, <2>6
<1>10. ASSUME NEW m \in DOMAIN d, Listed(d[m]) PROVE InList(new, m)
  <2>1. CASE m = n
    <3>1. 1 \in DOMAIN new
      BY <1>1, <1>5
    <3> QED BY <1>5, <2>1, <3>1 DEF InList
  <2>2. CASE m # n
    <3>1. Listed(objs[m]) /\ m \in DOMAIN objs
      BY <1>3, <1>10, <2>2
    <3>2. InList(list, m)
      BY <3>1 DEF World, ListGood
    <3> QED BY <1>7, <3>2 DEF InList
  <2> QED BY <2>1, <2>2
<1>11. ListGood(new, d)
  BY <1>8, <1>9, <1>10 DEF ListGood, Listed
<1>12. LifeGood(new, d, "alive")
  BY <1>8 DEF LifeGood
<1>13. ASSUME NEW m \in DOMAIN d, d[m].life = "made"
       PROVE  /\ \A k \in d[m].uses : InList(new, k)
              /\ \E u \in Callers : m \in Making(s[u])
  <2>1. m # n /\ d[m] = objs[m] /\ m \in DOMAIN objs
    BY <1>3, <1>13
  <2>2. /\ \A k \in objs[m].uses : InList(list, k)
        /\ \E u \in Callers : m \in Making(stacks[u])
    BY <1>13, <2>1 DEF World, MadeGood
  <2>3. \A k : InList(list, k) => InList(new, k)
    BY <1>7 DEF InList
  <2> QED BY <1>2, <2>1, <2>2, <2>3
<1>14. ReturnedGood(given, new, d, TRUE)
  <2>1. \A k : InList(list, k) => InList(new, k)
    BY <1>7 DEF InList
  <2> QED BY <1>3, <2>1 DEF World, ReturnedGood
<1>15. ForkGood(f, d)
  <2> DEFINE all == f.done \o f.todo
  <2>1. \A i \in DOMAIN all : all[i] \in DOMAIN objs /\ all[i] # n
    BY <1>2 DEF World, ForkGood
  <2> HIDE DEF all
  <2>2. \A i \in DOMAIN all : all[i] \in DOMAIN d /\ d[all[i]] = objs[all[i]]
    BY <1>3, <2>1
  <2> QED BY <2>2 DEF World, ForkGood, all
<1>16. World(new, d, s, given, "alive", f)
  BY <1>2, <1>3, <1>5, <1>11, <1>12, <1>13, <1>14, <1>15 DEF World, MadeGood
<1> QED BY <1>16 DEF d, s, new

-----------------------------------------------------------------------------
(* The call at the top of a stack returns. *)

LEMMA LengthIs ==
  ASSUME NEW st, NEW objs, StackGood(st, objs), st # <<>>
  PROVE  /\ st \in Seq(FrameType) /\ Len(st) \in Nat \ {0} /\ DOMAIN st = 1 .. Len(st)
         /\ Registry!Last(st) = st[Len(st)] /\ st[Len(st)] \in FrameType
         /\ FrameGood(st[Len(st)], objs)
<1>1. st \in Seq(FrameType)
  BY DEF StackGood
<1>2. Len(st) \in Nat \ {0} /\ DOMAIN st = 1 .. Len(st)
  BY <1>1
<1>3. Registry!Last(st) = st[Len(st)]
  BY DEF Registry!Last
<1>4. FrameGood(st[Len(st)], objs)
  BY <1>2 DEF StackGood
<1> QED BY <1>1, <1>2, <1>3, <1>4

(* A call that found a service goes without anything made.                 *)
LEMMA FoundPops ==
  ASSUME NEW list, NEW objs, NEW stacks, NEW given, NEW f,
         World(list, objs, stacks, given, "alive", f),
         NEW t \in Callers, stacks[t] # <<>>, AtTop(stacks, t).pc = "start"
  PROVE  World(list, objs, PoppedAt(stacks, t), given, "alive", f)
<1> DEFINE st == stacks[t]
           p == Popped(st)
<1>1. objs \in Seq(ObjectType) /\ StackGood(st, objs) /\ stacks \in [Callers -> Seq(FrameType)]
  BY DEF World, StacksGood
<1>2. FrameGood(st[Len(st)], objs)
  BY <1>1, LengthIs
<1>3. st[Len(st)].object = 0
  BY <1>2 DEF FrameGood, AtTop
<1>4. \A n \in Making(st) : n \in DOMAIN objs
  BY <1>1 DEF Making, StackGood, FrameGood
<1>5. StackGood(p, objs) /\ Making(p) = Making(st) \ {st[Len(st)].object}
  <2> HIDE DEF st
  <2> QED BY <1>1, <1>4, PoppedHolds DEF st
<1>6. Making(p) = Making(st)
  BY <1>3, <1>5 DEF Making
<1> HIDE DEF p
<1>7. World(list, objs, [stacks EXCEPT ![t] = p], given, "alive", f)
  BY <1>5, <1>6, StackChanged
<1> QED BY <1>7 DEF PoppedAt, p

(* Who made the call is given n.                                           *)
Given(objs, stacks, t, n) ==
  LET below == Registry!Front(stacks[t])
  IN  IF below = <<>> THEN objs ELSE WithUse(objs, Registry!Last(below).object, n)

LEMMA ReturnIs ==
  ASSUME NEW t \in Callers, NEW n, NEW objs, Registry!Return(t, n, objs),
         stack \in [Callers -> Seq(FrameType)]
  PROVE  /\ returned' = returned \cup {<<AtTop(stack, t).key, n>>}
         /\ stack' = PoppedAt(stack, t)
         /\ objects' = Given(objs, stack, t, n)
<1>1. Registry!Top(t) = AtTop(stack, t)
  BY DEF Registry!Top, Registry!Last, AtTop
<1> DEFINE below == Registry!Front(stack[t])
<1>2. CASE below = <<>>
  BY <1>1, <1>2 DEF Registry!Return, PoppedAt, Popped, Given
<1>3. CASE below # <<>>
  <2>1. /\ stack' = [stack EXCEPT ![t] = [below EXCEPT ![Len(below)].next = @ + 1]]
        /\ objects' = [objs EXCEPT ![Registry!Last(below).object].uses = @ \cup {n}]
        /\ returned' = returned \cup {<<Registry!Top(t).key, n>>}
    BY <1>3 DEF Registry!Return
  <2>2. Popped(stack[t]) = [below EXCEPT ![Len(below)].next = @ + 1]
    BY <1>3 DEF Popped
  <2>3. Given(objs, stack, t, n) = [objs EXCEPT ![Registry!Last(below).object].uses = @ \cup {n}]
    BY <1>3 DEF Given, WithUse
  <2>4. PoppedAt(stack, t) = [stack EXCEPT ![t] = Popped(stack[t])]
    BY DEF PoppedAt
  <2> HIDE DEF below
  <2> QED BY <1>1, <2>1, <2>2, <2>3, <2>4
<1> QED BY <1>2, <1>3

(* The stack has been popped, whatever became of the object at its top;    *)
(* the caller is told of n, which is listed.                               *)
LEMMA Returned ==
  ASSUME NEW list, NEW objs, NEW to, NEW stacks, NEW given, NEW f,
         NEW t \in Callers, stacks[t] # <<>>, StackGood(stacks[t], objs),
         objs \in Seq(ObjectType),
         World(list, to, PoppedAt(stacks, t), given, "alive", f),
         \A m \in Making(stacks[t]) \ {AtTop(stacks, t).object} :
            m \in DOMAIN to /\ to[m].life = objs[m].life,
         NEW n, InList(list, n), NEW key, key = to[n].key
  PROVE  World(list, Given(to, stacks, t, n), PoppedAt(stacks, t), given \cup {<<key, n>>},
               "alive", f)
<1> DEFINE st == stacks[t]
           below == Registry!Front(st)
           h == Registry!Last(below).object
<1>1. to \in Seq(ObjectType) /\ list \in Seq(Nat)
  BY DEF World
<1>2. n \in Nat /\ n \in DOMAIN to
  BY <1>1 DEF World, ListGood, InList
<1>3. /\ st \in Seq(FrameType) /\ below \in Seq(FrameType) /\ Len(below) = Len(st) - 1
      /\ Len(st) \in Nat \ {0} /\ DOMAIN st = 1 .. Len(st)
      /\ \A i \in 1 .. Len(st) - 1 : below[i] = st[i]
  BY FrontIs DEF StackGood
<1>4. CASE below = <<>>
  <2>1. Given(to, stacks, t, n) = to
    BY <1>4 DEF Given
  <2> QED BY <2>1, GivenOut
<1>5. CASE below # <<>>
  <2> DEFINE i == Len(st) - 1
  <2>1. i \in 1 .. Len(st) - 1 /\ i \in DOMAIN st /\ i # Len(st) /\ i < Len(st) /\ Len(st) \in DOMAIN st
    BY <1>3, <1>5
  <2>2. h = st[i].object
    BY <1>3, <2>1 DEF Registry!Last
  <2> HIDE DEF i
  <2>3. h \in DOMAIN objs /\ objs[h].life = "made"
    <3>1. FrameGood(st[i], objs) /\ st[i].pc = "construct"
      BY <2>1 DEF StackGood
    <3> QED BY <2>2, <3>1 DEF FrameGood
  <2>4. h # 0
    BY <2>3
  <2>5. h # AtTop(stacks, t).object
    BY <2>1, <2>2, <2>4 DEF StackGood, AtTop
  <2>6. h \in Making(st)
    BY <2>1, <2>2, <2>4 DEF Making
  <2>7. h \in DOMAIN to /\ to[h].life = "made"
    BY <2>3, <2>5, <2>6
  <2>8. Given(to, stacks, t, n) = WithUse(to, h, n)
    BY <1>5 DEF Given
  <2>9. WithUse(to, h, n)[n].key = to[n].key
    BY <1>1, <1>2, <2>7, WithUseIs
  <2> HIDE DEF h
  <2>10. World(list, WithUse(to, h, n), PoppedAt(stacks, t), given, "alive", f)
    BY <1>2, <2>7, UseGiven
  <2>11. World(list, WithUse(to, h, n), PoppedAt(stacks, t),
               given \cup {<<WithUse(to, h, n)[n].key, n>>}, "alive", f)
    BY <2>10, GivenOut
  <2> QED BY <2>8, <2>9, <2>11
<1> QED BY <1>4, <1>5

-----------------------------------------------------------------------------
(* An object is made, constructed, or destroyed by an exception. *)

EmptyStack == <<>>

LEMMA EmptyStackIs ==
  ASSUME NEW objs
  PROVE  /\ EmptyStack \in Seq(FrameType) /\ DOMAIN EmptyStack = {}
         /\ StackGood(EmptyStack, objs) /\ Making(EmptyStack) = {}
<1>1. EmptyStack \in Seq(FrameType) /\ DOMAIN EmptyStack = {}
  BY DEF EmptyStack
<1> QED BY <1>1 DEF StackGood, Making

(* The calls under one that looks for a service.                           *)
Under(st) == IF st = <<>> THEN <<>> ELSE Registry!Front(st)

LEMMA UnderIs ==
  ASSUME NEW st, NEW objs \in Seq(ObjectType), StackGood(st, objs),
         st # <<>> => st[Len(st)].pc = "start"
  PROVE  /\ Under(st) \in Seq(FrameType) /\ StackGood(Under(st), objs)
         /\ Making(Under(st)) = Making(st)
         /\ \A i \in DOMAIN Under(st) : Under(st)[i].pc = "construct"
<1>1. CASE st = <<>>
  <2>1. st = EmptyStack /\ Under(st) = EmptyStack
    BY <1>1 DEF EmptyStack, Under
  <2> QED BY <2>1, EmptyStackIs
<1>2. CASE st # <<>>
  <2> DEFINE b == Registry!Front(st)
             n == Len(st)
  <2>1. /\ st \in Seq(FrameType) /\ b \in Seq(FrameType) /\ Len(b) = n - 1
        /\ n \in Nat \ {0} /\ DOMAIN st = 1 .. n
        /\ \A i \in 1 .. n - 1 : b[i] = st[i]
    BY <1>2, FrontIs DEF StackGood
  <2>2. DOMAIN b = 1 .. n - 1 /\ 1 .. n - 1 \subseteq DOMAIN st
    BY <2>1
  <2>3. Under(st) = b
    BY <1>2 DEF Under
  <2>4. st[n].object = 0
    BY <1>2, <2>1 DEF StackGood, FrameGood
  <2> HIDE DEF b, n
  <2>5. \A i \in DOMAIN b : b[i] = st[i] /\ i < n /\ i \in DOMAIN st
    BY <2>1, <2>2
  <2>6. \A i \in DOMAIN b : FrameGood(b[i], objs) /\ b[i].pc = "construct"
    BY <2>5 DEF StackGood, n
  <2>7. Making(b) \subseteq Making(st)
    BY <2>5 DEF Making
  <2>8. ASSUME NEW x \in Making(st) PROVE x \in Making(b)
    <3>1. PICK i \in DOMAIN st : x = st[i].object /\ x # 0
      BY DEF Making
    <3>2. i # n
      BY <2>4, <3>1
    <3>3. i \in DOMAIN b
      BY <2>1, <2>2, <3>2
    <3> QED BY <2>5, <3>1, <3>3 DEF Making
  <2>9. StackGood(b, objs)
    BY <2>1, <2>5, <2>6 DEF StackGood
  <2> QED BY <2>1, <2>3, <2>6, <2>7, <2>8, <2>9
<1> QED BY <1>1, <1>2

Grown(objs, key) == Append(objs, [key |-> key, life |-> "made", uses |-> {}])

LEMMA GrownIs ==
  ASSUME NEW objs \in Seq(ObjectType), NEW key \in Services
  PROVE  LET d == Grown(objs, key)
             n == Len(objs) + 1
         IN  /\ d \in Seq(ObjectType) /\ n \in Nat \ {0} /\ n \notin DOMAIN objs
             /\ DOMAIN d = DOMAIN objs \cup {n}
             /\ d[n].key = key /\ d[n].life = "made" /\ d[n].uses = {}
             /\ \A m \in DOMAIN objs : d[m] = objs[m]
<1> DEFINE o == [key |-> key, life |-> "made", uses |-> {}]
           d == Append(objs, o)
<1>1. o \in ObjectType /\ o.key = key /\ o.life = "made" /\ o.uses = {}
  BY DEF ObjectType
<1>2. Grown(objs, key) = d
  BY DEF Grown
<1> HIDE DEF o
<1>3. /\ d \in Seq(ObjectType) /\ Len(d) = Len(objs) + 1 /\ d[Len(objs) + 1] = o
      /\ \A m \in 1 .. Len(objs) : d[m] = objs[m]
  BY <1>1
<1>4. /\ DOMAIN objs = 1 .. Len(objs) /\ Len(objs) \in Nat
      /\ DOMAIN d = 1 .. Len(objs) + 1
  BY <1>3
<1> HIDE DEF d
<1>5. DOMAIN d = DOMAIN objs \cup {Len(objs) + 1} /\ Len(objs) + 1 \notin DOMAIN objs
  BY <1>4
<1> QED BY <1>1, <1>2, <1>3, <1>4, <1>5

(* The call g at the top of stack t makes an object.                       *)
LEMMA MakeKeeps ==
  ASSUME NEW list, NEW objs, NEW stacks, NEW given, NEW f,
         World(list, objs, stacks, given, "alive", f),
         NEW t \in Callers, stacks[t] # <<>> => AtTop(stacks, t).pc = "start",
         NEW g \in FrameType, g.object = Len(objs) + 1, g.pc = "construct"
  PROVE  World(list, Grown(objs, g.key), [stacks EXCEPT ![t] = Append(Under(@), g)],
               given, "alive", f)
<1> DEFINE d == Grown(objs, g.key)
           n == Len(objs) + 1
           b == Under(stacks[t])
           st == Append(b, g)
           k == Len(b)
           s == [stacks EXCEPT ![t] = st]
<1>1. objs \in Seq(ObjectType) /\ StacksGood(stacks, objs)
  BY DEF World
<1>2. /\ d \in Seq(ObjectType) /\ n \in Nat \ {0} /\ n \notin DOMAIN objs
      /\ DOMAIN d = DOMAIN objs \cup {n}
      /\ d[n].key = g.key /\ d[n].life = "made" /\ d[n].uses = {}
      /\ \A m \in DOMAIN objs : d[m] = objs[m]
  <2>1. g.key \in Services
    BY DEF FrameType
  <2> QED BY <1>1, <2>1, GrownIs
<1>3. /\ b \in Seq(FrameType) /\ StackGood(b, objs) /\ Making(b) = Making(stacks[t])
      /\ \A i \in DOMAIN b : b[i].pc = "construct"
  <2> DEFINE x == stacks[t]
  <2>1. StackGood(x, objs) /\ (x # <<>> => x[Len(x)].pc = "start")
    BY <1>1 DEF StacksGood, AtTop
  <2> HIDE DEF x
  <2> QED BY <1>1, <2>1, UnderIs DEF x
<1> HIDE DEF d, b
<1>4. /\ st \in Seq(FrameType) /\ Len(st) = k + 1 /\ k \in Nat /\ DOMAIN st = 1 .. k + 1
      /\ DOMAIN b = 1 .. k /\ st[k + 1] = g /\ \A i \in 1 .. k : st[i] = b[i]
  BY <1>3
<1>5. ASSUME NEW u \in Callers, NEW m \in Making(stacks[u])
      PROVE  m \in DOMAIN objs /\ m # n /\ m \in DOMAIN d /\ d[m] = objs[m]
  <2>1. m \in DOMAIN objs
    BY <1>1 DEF Making, StacksGood, StackGood, FrameGood
  <2> QED BY <1>2, <2>1
<1> HIDE DEF n, st, k
<1>6. FrameGood(g, d)
  BY <1>2 DEF FrameGood, n
<1>7. ASSUME NEW i \in 1 .. k PROVE FrameGood(b[i], d) /\ b[i].pc = "construct" /\ b[i].object # n
  <2>1. FrameGood(b[i], objs) /\ b[i].pc = "construct"
    BY <1>3, <1>4 DEF StackGood
  <2>2. b[i].object \in DOMAIN objs
    BY <2>1 DEF FrameGood
  <2> QED BY <1>2, <2>1, <2>2 DEF FrameGood
<1>8. StackGood(st, d)
  <2>1. ASSUME NEW i \in DOMAIN st
        PROVE  FrameGood(st[i], d) /\ (i < Len(st) => st[i].pc = "construct")
    <3>1. CASE i = k + 1
      BY <1>4, <1>6, <3>1
    <3>2. CASE i \in 1 .. k
      BY <1>4, <1>7, <3>2
    <3> QED BY <1>4, <3>1, <3>2
  <2>2. ASSUME NEW i \in DOMAIN st, NEW j \in DOMAIN st, st[i].object = st[j].object,
               st[i].object # 0
        PROVE  i = j
    <3>1. CASE i = k + 1 \/ j = k + 1
      BY <1>4, <1>7, <2>2, <3>1 DEF n
    <3>2. CASE i \in 1 .. k /\ j \in 1 .. k
      BY <1>3, <1>4, <2>2, <3>2 DEF StackGood
    <3> QED BY <1>4, <3>1, <3>2
  <2> QED BY <1>4, <2>1, <2>2 DEF StackGood
<1>9. Making(st) = Making(stacks[t]) \cup {n}
  <2>1. Making(st) = Making(b) \cup {n}
    <3>1. Making(st) \subseteq Making(b) \cup {n}
      BY <1>4 DEF Making, n
    <3>2. Making(b) \subseteq Making(st)
      BY <1>4 DEF Making
    <3>3. k + 1 \in DOMAIN st /\ st[k + 1].object = n /\ n # 0
      BY <1>2, <1>4 DEF n
    <3> QED BY <3>1, <3>2, <3>3 DEF Making
  <2> QED BY <1>3, <2>1
<1>10. ASSUME NEW u \in Callers \ {t}
       PROVE  Kept(Making(stacks[u]), objs, d) /\ Making(st) \cap Making(stacks[u]) = {}
  <2>1. Making(stacks[t]) \cap Making(stacks[u]) = {}
    BY <1>1 DEF StacksGood
  <2> QED BY <1>5, <1>9, <2>1 DEF Kept
<1>11. StacksGood(s, d)
  BY <1>1, <1>8, <1>10, StackSet
<1>12. s[t] = st /\ \A u \in Callers \ {t} : s[u] = stacks[u]
  BY <1>1 DEF StacksGood
<1> HIDE DEF s
<1>13. ListGood(list, d)
  BY <1>2 DEF World, ListGood, Listed
<1>14. ASSUME NEW m \in DOMAIN d, d[m].life = "made"
       PROVE  /\ \A i \in d[m].uses : InList(list, i)
              /\ \E u \in Callers : m \in Making(s[u])
  <2>1. CASE m = n
    BY <1>2, <1>9, <1>12, <2>1
  <2>2. CASE m # n
    <3>1. m \in DOMAIN objs /\ d[m] = objs[m]
      BY <1>2, <2>2
    <3>2. /\ \A i \in objs[m].uses : InList(list, i)
          /\ \E u \in Callers : m \in Making(stacks[u])
      BY <1>14, <3>1 DEF World, MadeGood
    <3> QED BY <1>9, <1>12, <3>1, <3>2
  <2> QED BY <2>1, <2>2
<1>15. ReturnedGood(given, list, d, TRUE)
  BY <1>2 DEF World, ReturnedGood
<1>16. LifeGood(list, d, "alive")
  BY <1>2 DEF World, LifeGood, ListGood
<1>17. ForkGood(f, d)
  <2> DEFINE all == f.done \o f.todo
  <2>1. \A i \in DOMAIN all : all[i] \in DOMAIN objs
    BY DEF World, ForkGood
  <2> HIDE DEF all
  <2>2. \A i \in DOMAIN all : all[i] \in DOMAIN d /\ d[all[i]] = objs[all[i]]
    BY <1>2, <2>1
  <2> QED BY <2>2 DEF World, ForkGood, all
<1>18. World(list, d, s, given, "alive", f)
  BY <1>2, <1>11, <1>13, <1>14, <1>15, <1>16, <1>17 DEF World, MadeGood
<1> QED BY <1>18 DEF d, b, st, s

(* The top frame goes on to another place.                                 *)
LEMMA TopMoves ==
  ASSUME NEW st, NEW objs \in Seq(ObjectType), StackGood(st, objs), st # <<>>,
         NEW g \in FrameType, g.op = st[Len(st)].op, g.key = st[Len(st)].key,
         g.object = st[Len(st)].object, g.pc # "start", st[Len(st)].pc # "start"
  PROVE  LET s == Append(Registry!Front(st), g)
         IN  StackGood(s, objs) /\ Making(s) = Making(st)
<1> DEFINE b == Registry!Front(st)
           n == Len(st)
           s == Append(b, g)
<1>1. /\ st \in Seq(FrameType) /\ b \in Seq(FrameType) /\ Len(b) = n - 1
      /\ n \in Nat \ {0} /\ DOMAIN st = 1 .. n
      /\ \A i \in 1 .. n - 1 : b[i] = st[i]
  BY FrontIs DEF StackGood
<1> HIDE DEF b
<1>2. /\ s \in Seq(FrameType) /\ Len(s) = n /\ DOMAIN s = 1 .. n /\ s[n] = g
      /\ \A i \in 1 .. n - 1 : s[i] = b[i]
  BY <1>1
<1> HIDE DEF s
<1>3. /\ \A i \in 1 .. n - 1 : s[i] = st[i]
      /\ s[n].op = st[n].op /\ s[n].key = st[n].key /\ s[n].object = st[n].object
      /\ s[n].pc # "start" /\ st[n].pc # "start"
  BY <1>1, <1>2
<1> HIDE DEF n
<1>4. ASSUME NEW i \in 1 .. Len(s)
      PROVE  /\ s[i].op = st[i].op /\ s[i].key = st[i].key /\ s[i].object = st[i].object
             /\ s[i].pc = "start" <=> st[i].pc = "start"
             /\ i < Len(s) => s[i].pc = st[i].pc
  <2>1. CASE i = n
    BY <1>1, <1>2, <1>3, <2>1
  <2>2. CASE i # n
    <3>1. i \in 1 .. n - 1
      BY <1>1, <1>2, <2>2
    <3> QED BY <1>3, <3>1
  <2> QED BY <2>1, <2>2
<1>5. Alike(s, st)
  BY <1>1, <1>2, <1>4 DEF Alike, n
<1>6. Making(s) = Making(st)
  BY <1>1, <1>2, <1>4 DEF Making
<1>7. \A m \in Making(st) : m \in DOMAIN objs
  BY DEF Making, StackGood, FrameGood
<1>8. Kept(Making(s), objs, objs)
  BY <1>6, <1>7 DEF Kept
<1>9. StackGood(s, objs)
  BY <1>5, <1>8, AlikeGood
<1> QED BY <1>6, <1>9 DEF s, b

(* An exception destroys what the calls of thread t were making.           *)
Thrown(objs, st) ==
  [n \in DOMAIN objs |->
     IF n \in {st[i].object : i \in DOMAIN st} THEN [objs[n] EXCEPT !.life = "destroyed"]
     ELSE objs[n]]

LEMMA ThrownIs ==
  ASSUME NEW objs \in Seq(ObjectType), NEW st
  PROVE  LET d == Thrown(objs, st)
         IN  /\ d \in Seq(ObjectType) /\ DOMAIN d = DOMAIN objs
             /\ \A n \in DOMAIN objs :
                  /\ d[n].key = objs[n].key /\ d[n].uses = objs[n].uses
                  /\ d[n] = objs[n] \/ (n \in Making(st) /\ d[n].life = "destroyed")
                  /\ n \in Making(st) => d[n].life = "destroyed"
<1> DEFINE o(n) == [objs[n] EXCEPT !.life = "destroyed"]
           x(n) == IF n \in {st[i].object : i \in DOMAIN st} THEN o(n) ELSE objs[n]
           d == [n \in DOMAIN objs |-> x(n)]
<1>1. DOMAIN objs = 1 .. Len(objs) /\ Len(objs) \in Nat
  OBVIOUS
<1>2. Thrown(objs, st) = d
  BY DEF Thrown
<1>3. ASSUME NEW n \in DOMAIN objs
      PROVE  /\ o(n) \in ObjectType /\ o(n).key = objs[n].key /\ o(n).uses = objs[n].uses
             /\ o(n).life = "destroyed" /\ objs[n] \in ObjectType
  <2>1. objs[n] \in ObjectType
    OBVIOUS
  <2> QED BY <2>1 DEF ObjectType
<1> HIDE DEF o
<1>4. ASSUME NEW n \in DOMAIN objs
      PROVE  /\ x(n) \in ObjectType
             /\ x(n).key = objs[n].key /\ x(n).uses = objs[n].uses
             /\ x(n) = objs[n] \/ (n \in Making(st) /\ x(n).life = "destroyed")
             /\ n \in Making(st) => x(n).life = "destroyed"
  <2>1. n # 0
    BY <1>1
  <2> QED BY <1>3, <2>1 DEF Making
<1> HIDE DEF x
<1>5. d \in [1 .. Len(objs) -> ObjectType]
  BY <1>1, <1>4
<1>6. d \in Seq(ObjectType) /\ DOMAIN d = DOMAIN objs
  BY <1>1, <1>5
<1>7. \A n \in DOMAIN objs : d[n] = x(n)
  OBVIOUS
<1> QED BY <1>2, <1>4, <1>6, <1>7

LEMMA ThrowKeeps ==
  ASSUME NEW list, NEW objs, NEW stacks, NEW given, NEW f,
         World(list, objs, stacks, given, "alive", f), NEW t \in Callers
  PROVE  World(list, Thrown(objs, stacks[t]), [stacks EXCEPT ![t] = EmptyStack], given, "alive", f)
<1> DEFINE st == stacks[t]
           d == Thrown(objs, st)
           s == [stacks EXCEPT ![t] = EmptyStack]
<1>1. objs \in Seq(ObjectType) /\ StacksGood(stacks, objs) /\ StackGood(st, objs)
  BY DEF World, StacksGood
<1>2. /\ d \in Seq(ObjectType) /\ DOMAIN d = DOMAIN objs
      /\ \A n \in DOMAIN objs :
           /\ d[n].key = objs[n].key /\ d[n].uses = objs[n].uses
           /\ d[n] = objs[n] \/ (n \in Making(st) /\ d[n].life = "destroyed")
           /\ n \in Making(st) => d[n].life = "destroyed"
  BY <1>1, ThrownIs
<1> HIDE DEF d
<1>3. ASSUME NEW u \in Callers, NEW m \in Making(stacks[u])
      PROVE  m \in DOMAIN objs /\ objs[m].life = "made"
  BY <1>1 DEF Making, StacksGood, StackGood, FrameGood
<1>4. ASSUME NEW m \in DOMAIN objs, objs[m].life # "made" PROVE d[m] = objs[m]
  BY <1>2, <1>3, <1>4
<1>5. ASSUME NEW u \in Callers \ {t}
      PROVE  Kept(Making(stacks[u]), objs, d) /\ Making(EmptyStack) \cap Making(stacks[u]) = {}
  <2>1. Making(st) \cap Making(stacks[u]) = {}
    BY <1>1 DEF StacksGood
  <2> QED BY <1>2, <1>3, <2>1, EmptyStackIs DEF Kept
<1>6. StacksGood(s, d)
  BY <1>1, <1>5, EmptyStackIs, StackSet
<1>7. s[t] = EmptyStack /\ \A u \in Callers \ {t} : s[u] = stacks[u]
  BY <1>1 DEF StacksGood
<1> HIDE DEF s
<1>8. \A i \in DOMAIN list : list[i] \in DOMAIN objs /\ d[list[i]] = objs[list[i]]
  BY <1>4 DEF World, ListGood, Listed
<1>9. ListGood(list, d)
  BY <1>2, <1>8 DEF World, ListGood, Listed
<1>10. ASSUME NEW m \in DOMAIN d, d[m].life = "made"
       PROVE  /\ \A k \in d[m].uses : InList(list, k)
              /\ \E u \in Callers : m \in Making(s[u])
  <2>1. m \in DOMAIN objs /\ d[m] = objs[m] /\ m \notin Making(st)
    BY <1>2, <1>10
  <2>2. /\ \A k \in objs[m].uses : InList(list, k)
        /\ \E u \in Callers : m \in Making(stacks[u])
    BY <1>10, <2>1 DEF World, MadeGood
  <2> QED BY <1>7, <2>1, <2>2
<1>11. ReturnedGood(given, list, d, TRUE)
  BY <1>2 DEF World, ReturnedGood
<1>12. LifeGood(list, d, "alive")
  BY <1>8 DEF World, LifeGood
<1>13. ForkGood(f, d)
  <2> DEFINE all == f.done \o f.todo
  <2>1. \A i \in DOMAIN all : all[i] \in DOMAIN objs /\ objs[all[i]].life # "made"
    BY DEF World, ForkGood
  <2> HIDE DEF all
  <2>2. \A i \in DOMAIN all : all[i] \in DOMAIN d /\ d[all[i]] = objs[all[i]]
    BY <1>2, <1>4, <2>1
  <2> QED BY <2>2 DEF World, ForkGood, all
<1>14. World(list, d, s, given, "alive", f)
  BY <1>2, <1>6, <1>9, <1>10, <1>11, <1>12, <1>13 DEF World, MadeGood
<1> QED BY <1>14 DEF d, s

-----------------------------------------------------------------------------
(* One lemma for each action of ServiceRegistry. *)

RegistryInv ==
  World(services, objects, stack, returned, context, fork)

(* Exactly what do_has_service() looks for.                                *)
LEMMA FindIs ==
  ASSUME NEW key, services \in Seq(Nat)
  PROVE  /\ Registry!do_has_service(key) <=>
              \E i \in DOMAIN services : objects[services[i]].key = key
         /\ Registry!do_has_service(key) =>
              /\ InList(services, Registry!Found(key))
              /\ objects[Registry!Found(key)].key = key
<1>1. Registry!ToSet(services) = {services[i] : i \in DOMAIN services}
  BY DEF Registry!ToSet
<1>2. \A n : n \in Registry!Find(key) <=> InList(services, n) /\ objects[n].key = key
  BY <1>1 DEF Registry!Find, InList
<1>3. Registry!do_has_service(key) => Registry!Found(key) \in Registry!Find(key)
  BY DEF Registry!do_has_service, Registry!Found
<1> QED BY <1>2, <1>3 DEF Registry!do_has_service, InList

LEMMA TopIs ==
  ASSUME NEW t \in Callers, RegistryInv, Registry!Busy(t)
  PROVE  /\ stack[t] # <<>> /\ Registry!Top(t) = AtTop(stack, t)
         /\ StackGood(stack[t], objects) /\ stack[t] \in Seq(FrameType)
         /\ AtTop(stack, t) \in FrameType /\ FrameGood(AtTop(stack, t), objects)
         /\ stack \in [Callers -> Seq(FrameType)] /\ objects \in Seq(ObjectType)
         /\ services \in Seq(Nat) /\ context = "alive"
<1>1. stack[t] # <<>> /\ StackGood(stack[t], objects)
  BY DEF RegistryInv, World, StacksGood, Registry!Busy
<1>2. Registry!Top(t) = AtTop(stack, t)
  BY DEF Registry!Top, Registry!Last, AtTop
<1>3. /\ stack \in [Callers -> Seq(FrameType)] /\ objects \in Seq(ObjectType)
      /\ services \in Seq(Nat) /\ context = "alive"
  BY <1>1 DEF RegistryInv, World, StacksGood
<1> QED BY <1>1, <1>2, <1>3, LengthIs DEF AtTop

LEMMA UseServiceStep ==
  ASSUME NEW t \in Callers, NEW key \in Services, RegistryInv, Registry!use_service(t, key)
  PROVE  RegistryInv'
<1> DEFINE g == Registry!Frame("use", key)
           st == Append(EmptyStack, g)
<1>1. g \in FrameType /\ g.pc = "start" /\ g.op = "use" /\ g.object = 0
  BY DEF Registry!Frame, FrameType
<1>2. /\ context = "alive" /\ stack[t] = EmptyStack /\ stack' = [stack EXCEPT ![t] = st]
      /\ UNCHANGED <<services, objects, returned, context, fork>>
  BY DEF Registry!use_service, Registry!Busy, EmptyStack
<1>3. objects \in Seq(ObjectType)
  BY DEF RegistryInv, World
<1> HIDE DEF g
<1>4. StackGood(st, objects) /\ Making(st) = Making(EmptyStack)
  <2>1. FrameGood(g, objects)
    BY <1>1 DEF FrameGood
  <2> QED BY <1>1, <1>3, <2>1, EmptyStackIs, FramePushed
<1> HIDE DEF st
<1>5. World(services, objects, [stack EXCEPT ![t] = st], returned, "alive", fork)
  BY <1>2, <1>4, StackChanged DEF RegistryInv
<1> QED BY <1>2, <1>5 DEF RegistryInv

LEMMA MakeIs ==
  ASSUME NEW t \in Callers, NEW g \in FrameType, Registry!Make(t, g), RegistryInv, context = "alive",
         stack[t] # <<>> => AtTop(stack, t).pc = "start",
         UNCHANGED <<services, returned, context, fork>>
  PROVE  RegistryInv'
<1> DEFINE n == Len(objects) + 1
           m == [g EXCEPT !.object = n, !.pc = "construct"]
<1>1. objects \in Seq(ObjectType) /\ n \in Nat
  BY DEF RegistryInv, World
<1>2. m \in FrameType /\ m.object = n /\ m.pc = "construct" /\ m.key = g.key
  BY <1>1 DEF FrameType
<1>3. /\ objects' = Grown(objects, g.key)
      /\ stack' = [stack EXCEPT ![t] = Append(Under(@), m)]
  BY DEF Registry!Make, Grown, Under
<1> HIDE DEF m
<1>4. World(services, Grown(objects, m.key), [stack EXCEPT ![t] = Append(Under(@), m)], returned,
            "alive", fork)
  BY <1>2, MakeKeeps DEF RegistryInv
<1> QED BY <1>2, <1>3, <1>4 DEF RegistryInv

LEMMA MakeServiceStep ==
  ASSUME NEW t \in Callers, NEW key \in Services, RegistryInv,
         Registry!make_service(t, key) \/ Registry!add_service(t, key)
  PROVE  RegistryInv'
<1>1. PICK op \in {"make", "foreign"} : Registry!Make(t, Registry!Frame(op, key))
  BY DEF Registry!make_service, Registry!add_service
<1>2. Registry!Frame(op, key) \in FrameType
  BY DEF Registry!Frame, FrameType
<1>3. context = "alive" /\ stack[t] = <<>> /\ UNCHANGED <<services, returned, context, fork>>
  BY DEF Registry!make_service, Registry!add_service, Registry!Busy
<1> QED BY <1>1, <1>2, <1>3, MakeIs

LEMMA LookupStep ==
  ASSUME NEW t \in Callers, RegistryInv, Registry!Lookup(t)
  PROVE  RegistryInv'
<1> DEFINE top == AtTop(stack, t)
           n == Registry!Found(top.key)
<1>1. /\ stack[t] # <<>> /\ Registry!Top(t) = top
      /\ StackGood(stack[t], objects) /\ top \in FrameType
      /\ stack \in [Callers -> Seq(FrameType)] /\ objects \in Seq(ObjectType)
      /\ services \in Seq(Nat) /\ context = "alive"
  BY TopIs DEF Registry!Lookup
<1>2. /\ top.pc = "start" /\ UNCHANGED <<services, context, fork>>
      /\ \/ Registry!do_has_service(top.key) /\ Registry!Return(t, n, objects)
         \/ Registry!Make(t, top) /\ UNCHANGED returned
  BY <1>1 DEF Registry!Lookup
<1>3. CASE Registry!Make(t, top) /\ UNCHANGED returned
  BY <1>1, <1>2, <1>3, MakeIs
<1>4. CASE Registry!do_has_service(top.key) /\ Registry!Return(t, n, objects)
  <2>1. InList(services, n) /\ objects[n].key = top.key
    BY <1>1, <1>4, FindIs
  <2> HIDE DEF n
  <2>2. /\ returned' = returned \cup {<<top.key, n>>}
        /\ stack' = PoppedAt(stack, t) /\ objects' = Given(objects, stack, t, n)
    BY <1>1, <1>4, ReturnIs
  <2>3. World(services, objects, PoppedAt(stack, t), returned, "alive", fork)
    BY <1>1, <1>2, FoundPops DEF RegistryInv
  <2>4. \A m \in Making(stack[t]) : m \in DOMAIN objects
    BY <1>1 DEF Making, StackGood, FrameGood
  <2> HIDE DEF top
  <2>5. World(services, Given(objects, stack, t, n), PoppedAt(stack, t),
              returned \cup {<<top.key, n>>}, "alive", fork)
    BY <1>1, <2>1, <2>3, <2>4, Returned
  <2> QED BY <1>1, <1>2, <2>2, <2>5 DEF RegistryInv
<1> QED BY <1>2, <1>3, <1>4

LEMMA ConstructStep ==
  ASSUME NEW t \in Callers, RegistryInv, Registry!Construct(t)
  PROVE  RegistryInv'
<1> DEFINE top == AtTop(stack, t)
           st == stack[t]
           needs == IF top.op = "foreign" THEN <<>> ELSE Uses[top.key]
<1>1. /\ st # <<>> /\ Registry!Top(t) = top
      /\ StackGood(st, objects) /\ top \in FrameType
      /\ stack \in [Callers -> Seq(FrameType)] /\ objects \in Seq(ObjectType)
      /\ services \in Seq(Nat) /\ context = "alive"
  BY TopIs DEF Registry!Construct
<1>2. /\ top.pc = "construct" /\ UNCHANGED <<services, objects, returned, context, fork>>
      /\ IF top.next <= Len(needs)
         THEN stack' = [stack EXCEPT ![t] = Append(@, Registry!Frame("use", needs[top.next]))]
         ELSE Registry!SetTop(t, [top EXCEPT !.pc = "made"])
  BY <1>1 DEF Registry!Construct
<1>3. CASE top.next <= Len(needs)
  <2> DEFINE g == Registry!Frame("use", needs[top.next])
  <2>1. needs # <<>> => needs \in Seq(Services)
    BY <1>1, ServicesAssumption DEF FrameType
  <2>2. top.next \in Nat \ {0}
    BY <1>1 DEF FrameType
  <2>3. needs[top.next] \in Services
    <3>1. needs # <<>>
      BY <1>3, <2>2
    <3> HIDE DEF needs, top
    <3>2. top.next \in 1 .. Len(needs)
      BY <1>3, <2>1, <2>2, <3>1
    <3> QED BY <2>1, <3>1, <3>2
  <2>4. g \in FrameType /\ g.pc = "start" /\ g.op = "use" /\ g.object = 0
    BY <2>3 DEF Registry!Frame, FrameType
  <2>5. stack' = [stack EXCEPT ![t] = Append(st, g)]
    BY <1>2, <1>3
  <2> HIDE DEF g, needs
  <2>6. FrameGood(g, objects)
    BY <2>4 DEF FrameGood
  <2>7. ASSUME NEW i \in DOMAIN st PROVE st[i].pc = "construct"
    <3>1. DOMAIN st = 1 .. Len(st) /\ Len(st) \in Nat
      BY <1>1 DEF StackGood
    <3>2. CASE i = Len(st)
      BY <1>2, <3>2 DEF AtTop
    <3>3. CASE i # Len(st)
      BY <1>1, <3>1, <3>3 DEF StackGood
    <3> QED BY <3>2, <3>3
  <2> HIDE DEF st
  <2>8. StackGood(Append(st, g), objects) /\ Making(Append(st, g)) = Making(st)
    BY <1>1, <2>4, <2>6, <2>7, FramePushed
  <2>9. World(services, objects, [stack EXCEPT ![t] = Append(st, g)], returned, "alive", fork)
    BY <1>1, <2>8, StackChanged DEF RegistryInv, st
  <2> QED BY <1>1, <1>2, <2>5, <2>9 DEF RegistryInv
<1>4. CASE ~(top.next <= Len(needs))
  <2> DEFINE g == [top EXCEPT !.pc = "made"]
             a == Append(Registry!Front(st), g)
  <2>1. /\ g \in FrameType /\ g.pc = "made" /\ g.op = top.op /\ g.key = top.key
        /\ g.object = top.object
    BY <1>1 DEF FrameType
  <2>2. stack' = [stack EXCEPT ![t] = a]
    BY <1>2, <1>4 DEF Registry!SetTop
  <2>3. top = st[Len(st)]
    BY DEF AtTop
  <2> HIDE DEF g, needs, top
  <2>4. StackGood(a, objects) /\ Making(a) = Making(st)
    <3> HIDE DEF st
    <3> QED BY <1>1, <1>2, <2>1, <2>3, TopMoves
  <2> HIDE DEF a
  <2>5. World(services, objects, [stack EXCEPT ![t] = a], returned, "alive", fork)
    BY <1>1, <2>4, StackChanged DEF RegistryInv
  <2> QED BY <1>1, <1>2, <2>2, <2>5 DEF RegistryInv
<1> QED BY <1>3, <1>4

LEMMA ThrowStep ==
  ASSUME NEW t \in Callers, RegistryInv, Registry!Throw(t), context = "alive",
         UNCHANGED <<services, returned, context, fork>>
  PROVE  RegistryInv'
<1>1. objects' = Thrown(objects, stack[t]) /\ stack' = [stack EXCEPT ![t] = EmptyStack]
  BY DEF Registry!Throw, Thrown, EmptyStack
<1>2. World(services, Thrown(objects, stack[t]), [stack EXCEPT ![t] = EmptyStack], returned,
            "alive", fork)
  BY ThrowKeeps DEF RegistryInv
<1> QED BY <1>1, <1>2 DEF RegistryInv

LEMMA ConstructThrowsStep ==
  ASSUME NEW t \in Callers, RegistryInv, Registry!ConstructThrows(t)
  PROVE  RegistryInv'
<1>1. context = "alive"
  BY TopIs DEF Registry!ConstructThrows
<1> QED BY <1>1, ThrowStep DEF Registry!ConstructThrows

(* The object at the top becomes a service, and its call returns it.       *)
LEMMA RegisterStep ==
  ASSUME NEW t \in Callers, RegistryInv, Registry!Busy(t), AtTop(stack, t).pc # "start",
         NEW n, n = AtTop(stack, t).object,
         ~Registry!do_has_service(AtTop(stack, t).key),
         services' = Registry!PushFront(n), Registry!Return(t, n, Registry!Registered(n)),
         UNCHANGED <<context, fork>>
  PROVE  RegistryInv'
<1> DEFINE top == AtTop(stack, t)
           to == WithLife(objects, n, "registered")
           new == <<n>> \o services
<1>1. /\ stack[t] # <<>> /\ StackGood(stack[t], objects) /\ FrameGood(top, objects)
      /\ stack \in [Callers -> Seq(FrameType)] /\ objects \in Seq(ObjectType)
      /\ services \in Seq(Nat) /\ context = "alive"
  BY TopIs
<1>2. n \in DOMAIN objects /\ objects[n].life = "made" /\ objects[n].key = top.key
  BY <1>1 DEF FrameGood
<1>3. \A i \in DOMAIN services : objects[services[i]].key # objects[n].key
  BY <1>1, <1>2, FindIs
<1>4. /\ services' = new /\ returned' = returned \cup {<<top.key, n>>}
      /\ stack' = PoppedAt(stack, t) /\ objects' = Given(to, stack, t, n)
  <2>1. Registry!Return(t, n, to)
    BY DEF Registry!Registered, WithLife
  <2>2. services' = new
    BY DEF Registry!PushFront
  <2> HIDE DEF to, new
  <2>3. /\ returned' = returned \cup {<<AtTop(stack, t).key, n>>}
        /\ stack' = PoppedAt(stack, t) /\ objects' = Given(to, stack, t, n)
    BY <1>1, <2>1, ReturnIs
  <2> QED BY <2>2, <2>3
<1>5. World(new, to, PoppedAt(stack, t), returned, "alive", fork)
  BY <1>1, <1>3, Enlisted DEF RegistryInv
<1>6. /\ to[n].key = objects[n].key /\ DOMAIN to = DOMAIN objects
      /\ \A m \in DOMAIN objects \ {n} : to[m] = objects[m]
  <2>1. "registered" \in Lives
    BY DEF Lives
  <2> QED BY <1>1, <1>2, <2>1, WithLifeIs
<1>7. \A m \in Making(stack[t]) : m \in DOMAIN objects
  BY <1>1 DEF Making, StackGood, FrameGood
<1>8. InList(new, n)
  <2>1. n \in Nat
    BY <1>1, <1>2
  <2>2. 1 \in DOMAIN new /\ new[1] = n
    BY <1>1, <2>1
  <2> QED BY <2>2 DEF InList
<1> HIDE DEF top, to, new
<1>9. World(new, Given(to, stack, t, n), PoppedAt(stack, t), returned \cup {<<top.key, n>>},
            "alive", fork)
  <2>1. \A m \in Making(stack[t]) \ {AtTop(stack, t).object} :
           m \in DOMAIN to /\ to[m].life = objects[m].life
    BY <1>6, <1>7
  <2> QED BY <1>1, <1>2, <1>5, <1>6, <1>8, <2>1, Returned
<1> QED BY <1>1, <1>4, <1>9 DEF RegistryInv

LEMMA DoUseServiceStep ==
  ASSUME NEW t \in Callers, RegistryInv, Registry!do_use_service(t)
  PROVE  RegistryInv'
<1> DEFINE top == AtTop(stack, t)
           n == top.object
           m == Registry!Found(top.key)
           to == WithLife(objects, n, "destroyed")
<1>1. /\ stack[t] # <<>> /\ StackGood(stack[t], objects) /\ FrameGood(top, objects)
      /\ Registry!Top(t) = top
      /\ stack \in [Callers -> Seq(FrameType)] /\ objects \in Seq(ObjectType)
      /\ services \in Seq(Nat) /\ context = "alive"
  BY TopIs DEF Registry!do_use_service
<1>2. /\ Registry!Busy(t) /\ top.pc = "made" /\ UNCHANGED <<context, fork>>
      /\ \/ /\ Registry!do_has_service(top.key)
            /\ Registry!Return(t, m, Registry!Destroyed(n)) /\ UNCHANGED services
         \/ /\ ~Registry!do_has_service(top.key)
            /\ services' = Registry!PushFront(n) /\ Registry!Return(t, n, Registry!Registered(n))
  BY <1>1 DEF Registry!do_use_service
<1>3. CASE /\ ~Registry!do_has_service(top.key)
           /\ services' = Registry!PushFront(n) /\ Registry!Return(t, n, Registry!Registered(n))
  BY <1>2, <1>3, RegisterStep
<1>4. CASE /\ Registry!do_has_service(top.key)
           /\ Registry!Return(t, m, Registry!Destroyed(n)) /\ UNCHANGED services
  <2>1. InList(services, m) /\ objects[m].key = top.key
    BY <1>1, <1>4, FindIs
  <2>2. n \in DOMAIN objects
    BY <1>1, <1>2 DEF FrameGood
  <2>3. Registry!Return(t, m, to)
    BY <1>4 DEF Registry!Destroyed, WithLife
  <2> HIDE DEF m
  <2>4. /\ returned' = returned \cup {<<top.key, m>>}
        /\ stack' = PoppedAt(stack, t) /\ objects' = Given(to, stack, t, m)
    <3> HIDE DEF to
    <3> QED BY <1>1, <2>3, ReturnIs
  <2>5. World(services, to, PoppedAt(stack, t), returned, "alive", fork)
    BY <1>1, <1>2, Dropped DEF RegistryInv
  <2>6. /\ DOMAIN to = DOMAIN objects /\ \A k \in DOMAIN objects : to[k].key = objects[k].key
        /\ \A k \in DOMAIN objects \ {n} : to[k] = objects[k]
    <3>1. "destroyed" \in Lives
      BY DEF Lives
    <3> QED BY <1>1, <2>2, <3>1, WithLifeIs
  <2>7. \A k \in Making(stack[t]) : k \in DOMAIN objects
    BY <1>1 DEF Making, StackGood, FrameGood
  <2>8. m \in DOMAIN objects
    BY <2>1 DEF RegistryInv, World, ListGood, InList
  <2>9. \A k \in Making(stack[t]) \ {AtTop(stack, t).object} :
           k \in DOMAIN to /\ to[k].life = objects[k].life
    BY <2>6, <2>7
  <2>10. top.key = to[m].key
    BY <2>1, <2>6, <2>8
  <2> HIDE DEF top, to
  <2>11. World(services, Given(to, stack, t, m), PoppedAt(stack, t),
               returned \cup {<<top.key, m>>}, "alive", fork)
    BY <1>1, <2>1, <2>5, <2>9, <2>10, Returned
  <2> QED BY <1>1, <1>2, <1>4, <2>4, <2>11 DEF RegistryInv
<1> QED BY <1>2, <1>3, <1>4

LEMMA DoAddServiceStep ==
  ASSUME NEW t \in Callers, RegistryInv, Registry!do_add_service(t)
  PROVE  RegistryInv'
<1> DEFINE top == AtTop(stack, t)
           n == top.object
<1>1. Registry!Top(t) = top /\ context = "alive"
  BY TopIs DEF Registry!do_add_service
<1>2. /\ Registry!Busy(t) /\ top.pc = "made" /\ UNCHANGED <<context, fork>>
      /\ \/ Registry!Throw(t) /\ UNCHANGED <<services, returned>>
         \/ /\ ~Registry!do_has_service(top.key)
            /\ services' = Registry!PushFront(n) /\ Registry!Return(t, n, Registry!Registered(n))
  BY <1>1 DEF Registry!do_add_service
<1>3. CASE Registry!Throw(t) /\ UNCHANGED <<services, returned>>
  BY <1>1, <1>2, <1>3, ThrowStep
<1>4. CASE /\ ~Registry!do_has_service(top.key)
           /\ services' = Registry!PushFront(n) /\ Registry!Return(t, n, Registry!Registered(n))
  BY <1>2, <1>4, RegisterStep
<1> QED BY <1>2, <1>3, <1>4

(* The list itself, or reversed, is an order to tell of a fork in.         *)
LEMMA NotifyForkStep ==
  ASSUME RegistryInv, NEW event \in {"prepare", "parent", "child"}, Registry!notify_fork(event)
  PROVE  RegistryInv'
<1> DEFINE todo == IF event = "prepare" THEN services ELSE Registry!Reverse(services)
           g == [event |-> event, done |-> <<>>, todo |-> todo]
           n == Len(services)
<1>1. fork' = g /\ UNCHANGED <<services, objects, stack, returned, context>>
  BY DEF Registry!notify_fork
<1>2. /\ services \in Seq(Nat) /\ n \in Nat /\ DOMAIN services = 1 .. n
      /\ ListGood(services, objects)
  BY DEF RegistryInv, World
<1>3. ASSUME NEW i \in DOMAIN services, NEW j \in DOMAIN services, i < j
      PROVE  services[i] \notin objects[services[j]].uses
  <2> SUFFICES ASSUME services[i] \in objects[services[j]].uses PROVE FALSE
    OBVIOUS
  <2>1. PICK k \in DOMAIN services : j < k /\ services[k] = services[i]
    BY <1>2 DEF ListGood
  <2>2. i = k
    BY <1>2, <2>1 DEF ListGood
  <2> QED BY <1>2, <1>3, <2>1, <2>2
<1>4. /\ todo \in Seq(Nat) /\ DOMAIN todo = 1 .. n /\ Len(todo) = n
      /\ \A i \in 1 .. n : todo[i] = services[IF event = "prepare" THEN i ELSE n - i + 1]
  <2>1. CASE event = "prepare"
    BY <1>2, <2>1
  <2>2. CASE event # "prepare"
    <3> DEFINE r == Registry!Reverse(services)
    <3>1. r = [i \in 1 .. n |-> services[(n - i) + 1]]
      BY DEF Registry!Reverse
    <3>2. \A i \in 1 .. n : services[(n - i) + 1] \in Nat
      BY <1>2
    <3>3. r \in [1 .. n -> Nat]
      BY <3>1, <3>2
    <3>4. r \in Seq(Nat)
      BY <1>2, <3>3
    <3> HIDE DEF r
    <3>5. DOMAIN r = 1 .. n /\ Len(r) = n
      BY <1>2, <3>3, <3>4
    <3> QED BY <2>2, <3>1, <3>4, <3>5 DEF r
  <2> QED BY <2>1, <2>2
<1>5. g \in ForkType /\ g.event = event /\ g.done = <<>> /\ g.todo = todo
  BY <1>4 DEF ForkType
<1> HIDE DEF todo, g, n
<1>6. ForkGood(g, objects)
  <2> DEFINE all == g.done \o g.todo
             at(i) == IF event = "prepare" THEN i ELSE n - i + 1
  <2>1. DOMAIN all = 1 .. n /\ \A i \in 1 .. n : all[i] = todo[i]
    BY <1>2, <1>4, <1>5
  <2> HIDE DEF all
  <2>2. \A i \in 1 .. n : at(i) \in DOMAIN services /\ all[i] = services[at(i)]
    BY <1>2, <1>4, <2>1 DEF n
  <2>3. ASSUME NEW i \in 1 .. n, NEW j \in 1 .. n, i < j
        PROVE  IF event = "prepare" THEN at(i) < at(j) ELSE at(j) < at(i)
    <3>1. n \in Nat
      BY <1>2 DEF n
    <3> QED BY <2>3, <3>1
  <2> HIDE DEF at
  <2>4. ASSUME NEW i \in DOMAIN all
        PROVE  all[i] \in DOMAIN objects /\ objects[all[i]].life # "made"
    <3>1. at(i) \in DOMAIN services /\ all[i] = services[at(i)]
      BY <2>1, <2>2
    <3> QED BY <1>2, <3>1 DEF ListGood, Listed
  <2>5. ASSUME NEW i \in DOMAIN all, NEW j \in DOMAIN all, i < j
        PROVE  IF g.event = "prepare" THEN all[i] \notin objects[all[j]].uses
               ELSE all[j] \notin objects[all[i]].uses
    <3>1. i \in 1 .. n /\ j \in 1 .. n
      BY <2>1
    <3>2. CASE event = "prepare"
      BY <1>3, <1>5, <2>2, <2>3, <2>5, <3>1, <3>2
    <3>3. CASE event # "prepare"
      BY <1>3, <1>5, <2>2, <2>3, <2>5, <3>1, <3>3
    <3> QED BY <3>2, <3>3
  <2> QED BY <1>5, <2>4, <2>5 DEF ForkGood, all
<1>7. World(services, objects, stack, returned, context, g)
  BY <1>6 DEF RegistryInv, World
<1> QED BY <1>1, <1>7 DEF RegistryInv

(* One service more has been told.                                         *)
LEMMA NotifyServiceStep ==
  ASSUME RegistryInv, Registry!NotifyService
  PROVE  RegistryInv'
<1> DEFINE d == fork.done
           r == fork.todo
           g == [fork EXCEPT !.todo = Tail(r), !.done = Append(d, Head(r))]
<1>1. /\ r # <<>> /\ fork' = g /\ UNCHANGED <<services, objects, stack, returned, context>>
  BY DEF Registry!NotifyService
<1>2. fork \in ForkType /\ d \in Seq(Nat) /\ r \in Seq(Nat) /\ ForkGood(fork, objects)
  BY DEF RegistryInv, World, ForkGood, ForkType
<1>3. /\ Tail(r) \in Seq(Nat) /\ Len(Tail(r)) = Len(r) - 1 /\ Len(r) \in Nat \ {0}
      /\ \A i \in 1 .. Len(r) - 1 : Tail(r)[i] = r[i + 1]
      /\ Head(r) = r[1] /\ Head(r) \in Nat
  BY <1>1, <1>2
<1>4. /\ Append(d, Head(r)) \in Seq(Nat) /\ Len(Append(d, Head(r))) = Len(d) + 1
      /\ Append(d, Head(r))[Len(d) + 1] = Head(r) /\ Len(d) \in Nat
      /\ \A i \in 1 .. Len(d) : Append(d, Head(r))[i] = d[i]
  BY <1>2, <1>3
<1> DEFINE a == Append(d, Head(r))
           b == Tail(r)
<1>5. /\ g \in ForkType /\ g.event = fork.event /\ g.todo = b /\ g.done = a
  BY <1>2, <1>3, <1>4 DEF ForkType
<1> HIDE DEF g, a, b
<1>6. a \o b = d \o r
  <2>1. /\ a \in Seq(Nat) /\ Len(a) = Len(d) + 1 /\ a[Len(d) + 1] = r[1]
        /\ \A i \in 1 .. Len(d) : a[i] = d[i]
        /\ b \in Seq(Nat) /\ Len(b) = Len(r) - 1 /\ \A i \in 1 .. Len(r) - 1 : b[i] = r[i + 1]
        /\ Len(d) \in Nat /\ Len(r) \in Nat \ {0}
    BY <1>3, <1>4 DEF a, b
  <2> HIDE DEF d, r
  <2>2. /\ a \o b \in Seq(Nat) /\ Len(a \o b) = Len(d) + Len(r)
        /\ d \o r \in Seq(Nat) /\ Len(d \o r) = Len(d) + Len(r)
    <3>1. d \in Seq(Nat) /\ r \in Seq(Nat) /\ a \in Seq(Nat) /\ b \in Seq(Nat)
      BY <1>2, <2>1
    <3>2. Len(a \o b) = Len(a) + Len(b) /\ a \o b \in Seq(Nat)
      BY <3>1
    <3>3. Len(a) + Len(b) = Len(d) + Len(r)
      BY <2>1
    <3> QED BY <3>1, <3>2, <3>3
  <2>3. ASSUME NEW i \in 1 .. Len(d) + Len(r) PROVE (a \o b)[i] = (d \o r)[i]
    <3>1. CASE i \in 1 .. Len(d)
      BY <1>2, <2>1, <3>1
    <3>2. CASE i = Len(d) + 1
      BY <1>2, <2>1, <3>2
    <3>3. CASE i \in Len(d) + 2 .. Len(d) + Len(r)
      <4>1. i - (Len(d) + 1) \in 1 .. Len(r) - 1 /\ i - Len(d) = (i - (Len(d) + 1)) + 1
        BY <2>1, <3>3
      <4>2. (a \o b)[i] = b[i - (Len(d) + 1)]
        <5>1. a \in Seq(Nat) /\ b \in Seq(Nat) /\ Len(a) = Len(d) + 1 /\ Len(b) = Len(r) - 1
          BY <1>2, <2>1
        <5>2. i \in Len(a) + 1 .. Len(a) + Len(b)
          BY <2>1, <3>3, <5>1
        <5>3. (a \o b)[i] = b[i - Len(a)]
          BY ONLY <5>1, <5>2
        <5> QED BY ONLY <5>1, <5>3
      <4>3. (d \o r)[i] = r[i - Len(d)]
        BY <1>2, <2>1, <3>3
      <4> QED BY <2>1, <4>1, <4>2, <4>3
    <3> QED BY <2>1, <3>1, <3>2, <3>3
  <2> HIDE DEF a, b
  <2> QED BY <2>2, <2>3, SeqEqual
<1>7. ForkGood(g, objects)
  BY <1>2, <1>5, <1>6 DEF ForkGood
<1>8. World(services, objects, stack, returned, context, g)
  BY <1>7 DEF RegistryInv, World
<1> QED BY <1>1, <1>8 DEF RegistryInv

LEMMA ShutdownStep ==
  ASSUME RegistryInv, Registry!shutdown
  PROVE  RegistryInv'
<1>1. /\ context = "alive" /\ context' = "shutdown" /\ \A t \in Callers : stack[t] = <<>>
      /\ UNCHANGED <<services, objects, stack, returned, fork>>
  BY DEF Registry!shutdown, Registry!Busy
<1>2. ReturnedGood(returned, services, objects, FALSE)
  BY DEF RegistryInv, World, ReturnedGood
<1>3. LifeGood(services, objects, "shutdown")
  BY <1>1 DEF RegistryInv, World, LifeGood
<1>4. World(services, objects, stack, returned, "shutdown", fork)
  BY <1>1, <1>2, <1>3 DEF RegistryInv, World
<1> QED BY <1>1, <1>4 DEF RegistryInv

(* A set of numbers has a least one.                                       *)
LEMMA LeastNumber ==
  ASSUME NEW S, S \subseteq Nat, S # {}
  PROVE  \E n \in S : \A m \in S : n <= m
<1> SUFFICES ASSUME ~\E n \in S : \A m \in S : n <= m PROVE FALSE
  OBVIOUS
<1> DEFINE T == {n \in Nat : \A m \in 0 .. n : m \notin S}
<1>1. 0 \in T
  <2>1. 0 \notin S
    OBVIOUS
  <2> QED BY <2>1
<1>2. ASSUME NEW n \in T PROVE n + 1 \in T
  <2>1. n \in Nat /\ \A m \in 0 .. n : m \notin S
    OBVIOUS
  <2>2. \A m \in S : m \in Nat /\ n + 1 <= m
    BY <2>1
  <2>3. n + 1 \notin S
    BY <2>2
  <2> QED BY <2>1, <2>3
<1>3. T \subseteq Nat
  OBVIOUS
<1> HIDE DEF T
<1>4. T = Nat
  BY <1>1, <1>2, <1>3, SetInduction
<1>5. PICK n \in S : TRUE
  OBVIOUS
<1>6. n \in T /\ n \in 0 .. n
  BY <1>4
<1> QED BY <1>5, <1>6 DEF T

(* Nobody makes anything once the context is shutting down.                *)
LEMMA NothingMade ==
  ASSUME RegistryInv, context # "alive"
  PROVE  /\ \A n \in DOMAIN objects : objects[n].life # "made"
         /\ \A t \in Callers : stack[t] = EmptyStack
<1>1. \A t \in Callers : stack[t] = EmptyStack
  BY DEF RegistryInv, World, EmptyStack
<1>2. \A t \in Callers : Making(stack[t]) = {}
  BY <1>1, EmptyStackIs
<1> QED BY <1>1, <1>2 DEF RegistryInv, World, MadeGood

(* The life of a service changes while nobody calls.                       *)
LEMMA LateStacks ==
  ASSUME RegistryInv, context # "alive", NEW to, NEW list,
         DOMAIN to = DOMAIN objects, \A n \in DOMAIN objects : to[n].life # "made"
  PROVE  StacksGood(stack, to) /\ MadeGood(list, to, stack)
<1>1. \A t \in Callers : stack[t] = EmptyStack
  BY NothingMade
<1>2. \A t \in Callers : StackGood(stack[t], to) /\ Making(stack[t]) = {}
  BY <1>1, EmptyStackIs
<1>3. stack \in [Callers -> Seq(FrameType)]
  BY DEF RegistryInv, World, StacksGood
<1> QED BY <1>2, <1>3 DEF StacksGood, MadeGood

LEMMA LateFork ==
  ASSUME NEW f, NEW objs, NEW to, ForkGood(f, objs), DOMAIN to = DOMAIN objs,
         \A n \in DOMAIN objs : to[n].uses = objs[n].uses /\ to[n].life # "made"
  PROVE  ForkGood(f, to)
<1> DEFINE all == f.done \o f.todo
<1>1. \A i \in DOMAIN all : all[i] \in DOMAIN objs
  BY DEF ForkGood
<1> HIDE DEF all
<1>2. \A i \in DOMAIN all : /\ all[i] \in DOMAIN to /\ to[all[i]].life # "made"
                            /\ to[all[i]].uses = objs[all[i]].uses
  BY <1>1
<1> QED BY <1>2 DEF ForkGood, all

LEMMA ShutdownServicesStep ==
  ASSUME RegistryInv, Registry!shutdown_services
  PROVE  RegistryInv'
<1>1. context = "shutdown" /\ UNCHANGED <<services, stack, returned, fork>>
  BY DEF Registry!shutdown_services
<1>2. CASE context' = "destroy" /\ UNCHANGED objects
  <2>1. ReturnedGood(returned, services, objects, FALSE)
    BY <1>1 DEF RegistryInv, World
  <2>2. World(services, objects, stack, returned, "destroy", fork)
    BY <1>1, <2>1 DEF RegistryInv, World, LifeGood
  <2> QED BY <1>1, <1>2, <2>2 DEF RegistryInv
<1>3. CASE /\ Registry!LifeOf("registered") # {} /\ UNCHANGED context
           /\ objects' = [objects EXCEPT ![Registry!NextToShutDown].life = "shut"]
  <2> DEFINE First(i) == /\ objects[services[i]].life = "registered"
                        /\ \A j \in 1 .. i - 1 : objects[services[j]].life # "registered"
             S == {i \in DOMAIN services : objects[services[i]].life = "registered"}
             k == CHOOSE i \in DOMAIN services : First(i)
             n == services[k]
             to == WithLife(objects, n, "shut")
  <2>1. /\ services \in Seq(Nat) /\ DOMAIN services = 1 .. Len(services) /\ Len(services) \in Nat
        /\ objects \in Seq(ObjectType) /\ ListGood(services, objects)
        /\ LifeGood(services, objects, "shutdown")
    BY <1>1 DEF RegistryInv, World
  <2>2. \E i \in DOMAIN services : First(i)
    <3>1. S # {} /\ S \subseteq Nat
      BY <1>3, <2>1 DEF Registry!LifeOf, Registry!ToSet
    <3>2. PICK i \in S : \A j \in S : i <= j
      <4> HIDE DEF S
      <4> QED BY ONLY <3>1, LeastNumber
    <3>3. ASSUME NEW j \in 1 .. i - 1 PROVE objects[services[j]].life # "registered"
      <4>1. i \in 1 .. Len(services) /\ Len(services) \in Nat
        BY <2>1, <3>2
      <4>2. j \in 1 .. Len(services) /\ ~(i <= j)
        BY <4>1
      <4>3. j \notin S
        BY <3>2, <4>2
      <4> QED BY <2>1, <4>2, <4>3
    <3> QED BY <3>2, <3>3
  <2>3. k \in DOMAIN services /\ First(k)
    BY <2>2
  <2>4. objects' = to
    BY <1>3 DEF Registry!NextToShutDown, WithLife
  <2> HIDE DEF k
  <2>5. n \in DOMAIN objects /\ objects[n].life = "registered"
    BY <2>1, <2>3 DEF ListGood
  <2>6. \A i \in DOMAIN services : services[i] = n => i = k
    BY <2>1, <2>3 DEF ListGood
  <2> HIDE DEF n
  <2>7. /\ to \in Seq(ObjectType) /\ DOMAIN to = DOMAIN objects /\ to[n].life = "shut"
        /\ \A m \in DOMAIN objects : to[m].key = objects[m].key /\ to[m].uses = objects[m].uses
        /\ \A m \in DOMAIN objects \ {n} : to[m] = objects[m]
    <3>1. "shut" \in Lives
      BY DEF Lives
    <3> QED BY <2>1, <2>5, <3>1, WithLifeIs
  <2> HIDE DEF to
  <2>8. \A m \in DOMAIN objects : to[m].life # "made"
    BY <1>1, <2>7, NothingMade
  <2>9. StacksGood(stack, to) /\ MadeGood(services, to, stack)
    BY <1>1, <2>7, <2>8, LateStacks
  <2>10. ASSUME NEW m \in DOMAIN objects PROVE Listed(to[m]) <=> Listed(objects[m])
    <3>1. CASE m = n
      BY <2>5, <2>7, <3>1 DEF Listed
    <3>2. CASE m # n
      BY <2>7, <3>2
    <3> QED BY <3>1, <3>2
  <2>11. ListGood(services, to)
    <3>1. ASSUME NEW i \in DOMAIN services
          PROVE  /\ services[i] \in DOMAIN to /\ Listed(to[services[i]])
                 /\ to[services[i]].uses = objects[services[i]].uses
                 /\ to[services[i]].key = objects[services[i]].key
      BY <2>1, <2>7, <2>10 DEF ListGood
    <3>2. ASSUME NEW m \in DOMAIN to, Listed(to[m]) PROVE InList(services, m)
      BY <2>1, <2>7, <2>10, <3>2 DEF ListGood
    <3> QED BY <2>1, <3>1, <3>2 DEF ListGood
  <2>12. ReturnedGood(returned, services, to, FALSE)
    BY <1>1, <2>7 DEF RegistryInv, World, ReturnedGood
  <2>13. LifeGood(services, to, "shutdown")
    <3>1. ASSUME NEW i \in DOMAIN services, NEW j \in DOMAIN services, i < j,
                 to[services[i]].life = "registered"
          PROVE  to[services[j]].life = "registered"
      <4>1. services[i] # n /\ objects[services[i]].life = "registered"
        BY <2>1, <2>7, <3>1 DEF ListGood
      <4>2. ~(i < k)
        BY <2>1, <2>3, <4>1
      <4>3. j # k
        BY <2>1, <2>3, <3>1, <4>2
      <4>4. objects[services[j]].life = "registered"
        BY <2>1, <3>1, <4>1 DEF LifeGood
      <4> QED BY <2>1, <2>6, <2>7, <4>3, <4>4 DEF ListGood
    <3> QED BY <3>1 DEF LifeGood
  <2>14. ForkGood(fork, to)
    BY <2>7, <2>8, LateFork DEF RegistryInv, World
  <2>15. World(services, to, stack, returned, "shutdown", fork)
    BY <1>1, <2>1, <2>7, <2>9, <2>11, <2>12, <2>13, <2>14 DEF RegistryInv, World
  <2> QED BY <1>1, <1>3, <2>4, <2>15 DEF RegistryInv
<1> QED BY <1>2, <1>3 DEF Registry!shutdown_services

LEMMA DestroyServicesStep ==
  ASSUME RegistryInv, Registry!destroy_services
  PROVE  RegistryInv'
<1>1. context = "destroy" /\ UNCHANGED <<stack, returned, fork>>
  BY DEF Registry!destroy_services
<1>2. CASE context' = "gone" /\ UNCHANGED <<services, objects>>
  <2>1. ReturnedGood(returned, services, objects, FALSE)
    BY <1>1 DEF RegistryInv, World
  <2>2. World(services, objects, stack, returned, "gone", fork)
    BY <1>1, <2>1 DEF RegistryInv, World, LifeGood
  <2> QED BY <1>1, <1>2, <2>2 DEF RegistryInv
<1>3. CASE /\ services # <<>> /\ UNCHANGED context
           /\ objects' = Registry!Destroyed(Head(services)) /\ services' = Tail(services)
  <2> DEFINE n == Head(services)
             new == Tail(services)
             k == Len(services)
             to == WithLife(objects, n, "destroyed")
  <2>1. /\ services \in Seq(Nat) /\ DOMAIN services = 1 .. k /\ k \in Nat \ {0}
        /\ objects \in Seq(ObjectType) /\ ListGood(services, objects)
    BY <1>3 DEF RegistryInv, World
  <2>2. /\ n = services[1] /\ new \in Seq(Nat) /\ DOMAIN new = 1 .. k - 1
        /\ \A i \in 1 .. k - 1 : new[i] = services[i + 1]
    BY <1>3, <2>1
  <2>3. objects' = to
    BY <1>3 DEF Registry!Destroyed, WithLife
  <2> HIDE DEF n, new, k
  <2>0. 1 \in DOMAIN services
    BY <2>1
  <2>4. n \in DOMAIN objects
    BY <2>0, <2>1, <2>2 DEF ListGood
  <2>5. \A i \in DOMAIN services : services[i] = n => i = 1
    BY <2>0, <2>1, <2>2 DEF ListGood
  <2>6. /\ to \in Seq(ObjectType) /\ DOMAIN to = DOMAIN objects /\ to[n].life = "destroyed"
        /\ \A m \in DOMAIN objects : to[m].key = objects[m].key /\ to[m].uses = objects[m].uses
        /\ \A m \in DOMAIN objects \ {n} : to[m] = objects[m]
    <3>1. "destroyed" \in Lives
      BY DEF Lives
    <3> QED BY <2>1, <2>4, <3>1, WithLifeIs
  <2> HIDE DEF to
  <2>7. \A m \in DOMAIN objects : to[m].life # "made"
    BY <1>1, <2>6, NothingMade
  <2>8. StacksGood(stack, to) /\ MadeGood(new, to, stack)
    BY <1>1, <2>6, <2>7, LateStacks
  <2>9. ASSUME NEW i \in 1 .. k - 1
        PROVE  i + 1 \in DOMAIN services /\ i + 1 # 1 /\ new[i] = services[i + 1]
    BY <2>1, <2>2
  <2>10. ASSUME NEW j \in DOMAIN services, j # 1 PROVE j - 1 \in 1 .. k - 1 /\ new[j - 1] = services[j]
    <3>1. j - 1 \in 1 .. k - 1 /\ (j - 1) + 1 = j
      BY <2>1, <2>10
    <3> QED BY <2>2, <3>1
  <2>11. ASSUME NEW i \in DOMAIN new
         PROVE  /\ new[i] \in DOMAIN to /\ Listed(to[new[i]])
                /\ \A m \in to[new[i]].uses : \E j \in DOMAIN new : i < j /\ new[j] = m
    <3>1. i \in 1 .. k - 1 /\ i + 1 \in DOMAIN services /\ i + 1 # 1 /\ new[i] = services[i + 1]
      BY <2>2, <2>9
    <3>2. /\ new[i] \in DOMAIN objects /\ Listed(objects[new[i]])
          /\ \A m \in objects[new[i]].uses : \E j \in DOMAIN services : i + 1 < j /\ services[j] = m
      BY <2>1, <3>1 DEF ListGood
    <3>3. to[new[i]] = objects[new[i]]
      BY <2>5, <2>6, <3>1, <3>2
    <3>4. ASSUME NEW m \in objects[new[i]].uses PROVE \E j \in DOMAIN new : i < j /\ new[j] = m
      <4>1. PICK j \in DOMAIN services : i + 1 < j /\ services[j] = m
        BY <3>2
      <4>2. j # 1 /\ i < j - 1
        BY <2>1, <3>1, <4>1
      <4>3. j - 1 \in DOMAIN new /\ new[j - 1] = m
        BY <2>2, <2>10, <4>1, <4>2
      <4> QED BY <4>2, <4>3
    <3> QED BY <2>6, <3>2, <3>3, <3>4
  <2>12. ASSUME NEW i \in DOMAIN new, NEW j \in DOMAIN new, to[new[i]].key = to[new[j]].key
         PROVE  i = j
    <3>1. /\ i \in 1 .. k - 1 /\ i + 1 \in DOMAIN services /\ new[i] = services[i + 1]
          /\ j \in 1 .. k - 1 /\ j + 1 \in DOMAIN services /\ new[j] = services[j + 1]
      BY <2>2, <2>9
    <3>2. objects[services[i + 1]].key = objects[services[j + 1]].key
      BY <2>1, <2>6, <2>12, <3>1 DEF ListGood
    <3>3. i + 1 = j + 1
      BY <2>1, <3>1, <3>2 DEF ListGood
    <3> QED BY <3>1, <3>3
  <2>13. ASSUME NEW m \in DOMAIN to, Listed(to[m]) PROVE InList(new, m)
    <3>1. m # n
      BY <2>6, <2>13 DEF Listed
    <3>2. m \in DOMAIN objects /\ Listed(objects[m])
      BY <2>6, <2>13, <3>1
    <3>3. PICK j \in DOMAIN services : services[j] = m
      BY <2>1, <3>2 DEF ListGood, InList
    <3>4. j # 1
      BY <2>2, <3>1, <3>3
    <3>5. j - 1 \in DOMAIN new /\ new[j - 1] = m
      BY <2>2, <2>10, <3>3, <3>4
    <3> QED BY <3>5 DEF InList
  <2>14. ListGood(new, to)
    BY <2>11, <2>12, <2>13 DEF ListGood
  <2>15. ReturnedGood(returned, new, to, FALSE)
    BY <1>1, <2>6 DEF RegistryInv, World, ReturnedGood
  <2>16. ForkGood(fork, to)
    BY <2>6, <2>7, LateFork DEF RegistryInv, World
  <2>17. World(new, to, stack, returned, "destroy", fork)
    BY <1>1, <2>2, <2>6, <2>8, <2>14, <2>15, <2>16 DEF RegistryInv, World, LifeGood
  <2> QED BY <1>1, <1>3, <2>3, <2>17 DEF RegistryInv, new
<1> QED BY <1>2, <1>3 DEF Registry!destroy_services

LEMMA RegistryStep ==
  ASSUME RegistryInv, Registry!Next PROVE RegistryInv'
<1>1. ASSUME NEW t \in Callers,
             \/ \E key \in Services : \/ Registry!use_service(t, key) \/ Registry!make_service(t, key)
                                      \/ Registry!add_service(t, key)
             \/ Registry!Lookup(t) \/ Registry!Construct(t) \/ Registry!ConstructThrows(t)
             \/ Registry!do_use_service(t) \/ Registry!do_add_service(t)
      PROVE  RegistryInv'
  BY <1>1, UseServiceStep, MakeServiceStep, LookupStep, ConstructStep, ConstructThrowsStep,
     DoUseServiceStep, DoAddServiceStep
<1>2. ASSUME NEW event \in {"prepare", "parent", "child"}, Registry!notify_fork(event)
      PROVE  RegistryInv'
  BY <1>2, NotifyForkStep
<1>3. CASE Registry!NotifyService
  BY <1>3, NotifyServiceStep
<1>4. CASE Registry!shutdown
  BY <1>4, ShutdownStep
<1>5. CASE Registry!shutdown_services
  BY <1>5, ShutdownServicesStep
<1>6. CASE Registry!destroy_services
  BY <1>6, DestroyServicesStep
<1> QED BY <1>1, <1>2, <1>3, <1>4, <1>5, <1>6 DEF Registry!Next

LEMMA RegistryStart ==
  ASSUME Registry!Init PROVE RegistryInv
<1>1. /\ services = EmptyStack /\ objects = EmptyStack /\ stack = [t \in Callers |-> EmptyStack]
      /\ returned = {} /\ context = "alive" /\ fork = Registry!NoFork
  BY DEF Registry!Init, EmptyStack
<1>2. /\ services \in Seq(Nat) /\ objects \in Seq(ObjectType)
      /\ DOMAIN services = {} /\ DOMAIN objects = {}
  BY <1>1 DEF EmptyStack
<1>3. \A t \in Callers : StackGood(stack[t], objects) /\ Making(stack[t]) = {}
  BY <1>1, EmptyStackIs
<1>4. stack \in [Callers -> Seq(FrameType)]
  BY <1>1, EmptyStackIs
<1>5. StacksGood(stack, objects)
  BY <1>3, <1>4 DEF StacksGood
<1>6. fork \in ForkType /\ fork.done = <<>> /\ fork.todo = <<>>
  BY <1>1 DEF Registry!NoFork, ForkType
<1>7. ForkGood(fork, objects)
  <2> DEFINE all == fork.done \o fork.todo
  <2>1. DOMAIN all = {}
    BY <1>6
  <2> QED BY <1>6, <2>1 DEF ForkGood
<1> QED BY <1>1, <1>2, <1>5, <1>7
        DEF RegistryInv, World, ListGood, MadeGood, ReturnedGood, LifeGood

LEMMA OneServiceFollows ==
  ASSUME RegistryInv PROVE Registry!OneServicePerKey
<1>1. Registry!ToSet(services) = {services[i] : i \in DOMAIN services}
  BY DEF Registry!ToSet
<1>2. /\ ListGood(services, objects)
      /\ ReturnedGood(returned, services, objects, context = "alive")
  BY DEF RegistryInv, World
<1>3. ASSUME NEW n \in Registry!ToSet(services), NEW m \in Registry!ToSet(services),
             objects[n].key = objects[m].key
      PROVE  n = m
  BY <1>1, <1>2, <1>3 DEF ListGood
<1>4. context = "alive" => \A r \in returned : r[2] \in Registry!ToSet(services)
  BY <1>1, <1>2 DEF ReturnedGood, InList
<1>5. \A r, s \in returned : r[1] = s[1] => r[2] = s[2]
  BY <1>2 DEF ReturnedGood
<1> QED BY <1>3, <1>4, <1>5 DEF Registry!OneServicePerKey

LEMMA UsedOutlivesFollows ==
  ASSUME RegistryInv PROVE Registry!UsedOutlivesUser
<1>1. Registry!ToSet(services) = {services[i] : i \in DOMAIN services}
  BY DEF Registry!ToSet
<1>2. /\ services \in Seq(Nat) /\ objects \in Seq(ObjectType)
      /\ ListGood(services, objects) /\ MadeGood(services, objects, stack)
      /\ LifeGood(services, objects, context) /\ ForkGood(fork, objects)
  BY DEF RegistryInv, World
<1>3. ASSUME NEW n, InList(services, n)
      PROVE  n \in DOMAIN objects /\ Registry!Alive(n) /\ n \in Registry!ToSet(services)
             /\ \A m \in objects[n].uses : InList(services, m)
  <2>1. PICK i \in DOMAIN services : services[i] = n
    BY <1>3 DEF InList
  <2>2. n \in DOMAIN objects /\ Listed(objects[n])
    BY <1>2, <2>1 DEF ListGood
  <2>3. \A m \in objects[n].uses : InList(services, m)
    BY <1>2, <2>1 DEF ListGood, InList
  <2> QED BY <1>1, <2>1, <2>2, <2>3 DEF Registry!Alive, Listed
<1>4. ASSUME NEW n \in DOMAIN objects, Registry!Alive(n)
      PROVE  /\ \A m \in objects[n].uses : Registry!Alive(m)
             /\ n \in Registry!ToSet(services)
                  \/ \E t \in Callers : \E i \in DOMAIN stack[t] : stack[t][i].object = n
  <2>1. objects[n].life \in {"made", "registered", "shut"}
    <3>1. objects[n] \in ObjectType
      BY <1>2
    <3> QED BY <1>4, <3>1 DEF Registry!Alive, ObjectType
  <2>2. CASE objects[n].life = "made"
    <3>1. \A m \in objects[n].uses : InList(services, m)
      BY <1>2, <2>2 DEF MadeGood
    <3>2. PICK t \in Callers : n \in Making(stack[t])
      BY <1>2, <2>2 DEF MadeGood
    <3>3. \E i \in DOMAIN stack[t] : stack[t][i].object = n
      BY <3>2 DEF Making
    <3> QED BY <1>3, <3>1, <3>3
  <2>3. CASE objects[n].life # "made"
    <3>1. InList(services, n)
      BY <1>2, <2>1, <2>3 DEF ListGood, Listed
    <3> QED BY <1>3, <3>1
  <2> QED BY <2>2, <2>3
<1>5. ASSUME NEW i \in DOMAIN services PROVE Registry!Position(services[i]) = i
  <2>1. \A j \in DOMAIN services : services[j] = services[i] <=> j = i
    BY <1>2 DEF ListGood
  <2> QED BY <2>1 DEF Registry!Position
<1>6. ASSUME NEW n \in Registry!ToSet(services), NEW m \in objects[n].uses
      PROVE  m \in Registry!ToSet(services) /\ Registry!Position(n) < Registry!Position(m)
  <2>1. PICK i \in DOMAIN services : services[i] = n
    BY <1>1
  <2>2. PICK j \in DOMAIN services : i < j /\ services[j] = m
    BY <1>2, <2>1 DEF ListGood
  <2> QED BY <1>1, <1>5, <2>1, <2>2
<1>7. ASSUME context = "shutdown", NEW n \in Registry!ToSet(services),
             objects[n].life = "registered", NEW m \in objects[n].uses
      PROVE  objects[m].life = "registered"
  <2>1. PICK i \in DOMAIN services : services[i] = n
    BY <1>1
  <2>2. PICK j \in DOMAIN services : i < j /\ services[j] = m
    BY <1>2, <2>1 DEF ListGood
  <2> QED BY <1>2, <1>7, <2>1, <2>2 DEF LifeGood
<1>8. ASSUME NEW i \in DOMAIN fork.done, NEW j \in DOMAIN fork.done, i < j
      PROVE  IF fork.event = "prepare" THEN fork.done[i] \notin objects[fork.done[j]].uses
             ELSE fork.done[j] \notin objects[fork.done[i]].uses
  <2> DEFINE d == fork.done
             r == fork.todo
             all == d \o r
  <2>1. d \in Seq(Nat) /\ r \in Seq(Nat)
    BY <1>2 DEF ForkGood, ForkType
  <2> HIDE DEF d, r
  <2>2. /\ DOMAIN d = 1 .. Len(d) /\ Len(d) \in Nat /\ Len(r) \in Nat
        /\ DOMAIN all = 1 .. Len(d) + Len(r) /\ \A k \in 1 .. Len(d) : all[k] = d[k]
    BY <2>1
  <2>3. i \in DOMAIN all /\ j \in DOMAIN all /\ all[i] = d[i] /\ all[j] = d[j]
    BY <2>2 DEF d
  <2>4. IF fork.event = "prepare" THEN all[i] \notin objects[all[j]].uses
        ELSE all[j] \notin objects[all[i]].uses
    BY <1>2, <1>8, <2>3 DEF ForkGood, d, r
  <2> QED BY <2>3, <2>4 DEF d
<1> QED BY <1>4, <1>6, <1>7, <1>8 DEF Registry!UsedOutlivesUser

(* service_registry: there is one service of a type whatever threads race  *)
(* for it, everybody is given the same, and none is shut down or destroyed *)
(* before those that use it.                                               *)
THEOREM RegistryIsSound == MCSpec => []RegistrySound
<1>1. ASSUME MCInit PROVE RegistryInv
  BY <1>1, RegistryStart DEF MCInit
<1>2. ASSUME RegistryInv, [MCNext]_allVars PROVE RegistryInv'
  <2>1. CASE part = "services" /\ Registry!Next
    BY <1>2, <2>1, RegistryStep
  <2>2. CASE UNCHANGED service_vars
    BY <1>2, <2>2 DEF RegistryInv, service_vars
  <2> QED BY <1>2, <2>1, <2>2 DEF MCNext, In, Keep, allVars
<1>3. ASSUME RegistryInv PROVE RegistrySound
  BY <1>3, OneServiceFollows, UsedOutlivesFollows DEF RegistrySound
<1> QED BY <1>1, <1>2, <1>3, PTL DEF MCSpec

-----------------------------------------------------------------------------
(* Socket options.  The invariant relates the object, what the kernel      *)
(* keeps for each family and what the property remembers to have been set. *)

Kind == option.kind
Kinds ==
  {"boolean", "integer", "linger", "loopback", "unicast_hops", "multicast_hops", "interface",
   "request"}

(* What an object reports when it is read from the socket of family f now. *)
Shown(k, f) ==
  CASE Kind \in {"boolean", "loopback"} -> <<k[f] # 0>>
    [] Kind = "integer" -> <<IF Options!Doubled THEN k[f] \div 2 ELSE k[f]>>
    [] Kind = "linger" -> IF k[f][1] # 0 THEN <<<<TRUE, k[f][2]>>>> ELSE <<FALSE>>
    [] OTHER -> <<k[f]>>

(* The two representations of an object stand for one value.               *)
ObjectGood(o) ==
  /\ o = [v4 |-> o.v4, v6 |-> o.v6]
  /\ Kind = "loopback" => o.v4 \in {0, 1} /\ o.v6 = o.v4
  /\ Kind \in {"integer", "unicast_hops"} => o.v4 \in Int
  /\ Kind = "multicast_hops" => o.v6 \in Int /\ o.v4 = Options!Clamp(o.v6)
  /\ Kind = "linger" => o.v4 = <<o.v4[1], o.v4[2]>>

KernelGood(k) ==
  /\ k = [f \in Options!Family |-> k[f]]
  /\ \A f \in Options!Family :
       /\ Kind = "loopback" => k[f] \in {0, 1}
       /\ Kind \in {"integer", "unicast_hops", "multicast_hops"} => k[f] \in Int
       /\ Kind = "linger" => k[f] = <<k[f][1], k[f][2]>>

(* Whatever was said on a socket is still what it reports.                 *)
SaidGood(s, k) ==
  /\ s = [f \in Options!Family |-> s[f]]
  /\ \A f \in Options!Family : s[f] # <<>> =>
       /\ s[f] = Shown(k, f)
       /\ Kind = "multicast_hops" => k[f] \in 0 .. MaxHops
       /\ Kind \notin {"interface", "request"}

Reported(o) ==
  LET v == Options!value(o) IN IF Kind = "linger" /\ ~v[1] THEN <<FALSE>> ELSE <<v>>

OptionInv ==
  /\ option \in Options!Options
  /\ ObjectGood(object) /\ KernelGood(kernel) /\ SaidGood(said, kernel)
  /\ read # <<>> => read = Reported(object) /\ Kind \notin {"interface", "request"}

LEMMA KindIs ==
  ASSUME option \in Options!Options
  PROVE  Kind \in Kinds /\ (Options!Doubled => Kind = "integer")
BY DEF Kind, Kinds, Options!Options, Options!Boolean, Options!Integer, Options!Doubled,
  Options!broadcast, Options!debug, Options!do_not_route, Options!keep_alive,
  Options!reuse_address, Options!out_of_band_inline, Options!no_delay, Options!v6_only,
  Options!send_buffer_size, Options!receive_buffer_size, Options!send_low_watermark,
  Options!receive_low_watermark, Options!linger, Options!enable_loopback,
  Options!unicast_hops, Options!multicast_hops, Options!outbound_interface,
  Options!join_group, Options!leave_group

LEMMA ClampIs ==
  ASSUME NEW n \in Int
  PROVE  /\ Options!Clamp(n) \in 0 .. MaxHops
         /\ n \in 0 .. MaxHops => Options!Clamp(n) = n
BY HopsAssumption DEF Options!Clamp

(* Objects that a program makes.                                           *)
LEMMA ConstructedGood ==
  ASSUME option \in Options!Options, NEW v \in Options!Values, ~Options!Refused(v)
  PROVE  ObjectGood(Options!Representation(v))
<1> DEFINE o == Options!Representation(v)
<1>1. Kind \in Kinds
  BY KindIs
<1>2. CASE Kind \in {"boolean", "loopback"}
  <2>1. o = [v4 |-> Options!AsInt(v), v6 |-> Options!AsInt(v)] /\ Options!AsInt(v) \in {0, 1}
    BY <1>2 DEF Options!Representation, Options!AsInt, Kind
  <2> QED BY <1>2, <2>1 DEF ObjectGood
<1>3. CASE Kind = "linger"
  <2>1. o = [v4 |-> <<Options!AsInt(v[1]), v[2]>>, v6 |-> <<Options!AsInt(v[1]), v[2]>>]
    BY <1>3 DEF Options!Representation, Kind
  <2> QED BY <1>3, <2>1 DEF ObjectGood
<1>4. CASE Kind \in {"integer", "unicast_hops", "multicast_hops"}
  <2>1. o = [v4 |-> v, v6 |-> v]
    BY <1>4 DEF Options!Representation, Kind
  <2>2. v \in Int
    BY <1>4, HopsAssumption DEF Options!Values, Options!HopCount, Kind
  <2>3. Kind = "multicast_hops" => v \in 0 .. MaxHops
    BY DEF Options!Refused, Options!Byte, Kind
  <2> QED BY <1>4, <2>1, <2>2, <2>3, ClampIs DEF ObjectGood
<1>5. CASE Kind = "request"
  <2>1. o = Options!multicast_request(v)
    BY <1>5 DEF Options!Representation, Kind
  <2> QED BY <1>5, <2>1 DEF ObjectGood, Options!multicast_request
<1>6. CASE Kind = "interface"
  <2>1. o = Options!network_interface(v)
    BY <1>6 DEF Options!Representation, Kind
  <2> QED BY <1>6, <2>1 DEF ObjectGood, Options!network_interface
<1> QED BY <1>1, <1>2, <1>3, <1>4, <1>5, <1>6 DEF Kinds

LEMMA DefaultGood ==
  ASSUME option \in Options!Options
  PROVE  ObjectGood(Options!Default)
<1>1. Options!Default = IF Kind \in {"linger", "request"} THEN [v4 |-> <<0, 0>>, v6 |-> <<0, 0>>]
                        ELSE [v4 |-> 0, v6 |-> 0]
  BY DEF Options!Default, Kind
<1>2. Options!Clamp(0) = 0
  BY HopsAssumption, ClampIs
<1> QED BY <1>1, <1>2 DEF ObjectGood

(* What the kernel makes of what it is given, kind by kind.               *)
LEMMA KernelSetIs ==
  ASSUME option \in Options!Options, NEW k0, NEW f, NEW d, NEW k \in Options!KernelSet(k0, f, d)
  PROVE  /\ Kind = "linger" => k = IF d[1] = 0 THEN <<0, k0[2]>> ELSE d
         /\ Kind \in {"unicast_hops", "multicast_hops"} =>
              IF d = -1 THEN k \in 1 .. MaxHops ELSE k = d
         /\ Kind \in {"boolean", "loopback"} => k = d
         /\ Kind = "integer" => k = IF Options!Doubled THEN 2 * d ELSE d
<1>1. Options!Doubled => Kind = "integer"
  BY KindIs
<1>2. CASE Kind = "linger"
  <2>1. CASE d[1] = 0
    BY <1>1, <1>2, <2>1 DEF Options!KernelSet, Kind
  <2>2. CASE d[1] # 0
    BY <1>1, <1>2, <2>2 DEF Options!KernelSet, Kind
  <2> QED BY <2>1, <2>2
<1>3. CASE Kind \in {"unicast_hops", "multicast_hops"}
  <2>1. CASE d = -1
    BY <1>1, <1>3, <2>1 DEF Options!KernelSet, Kind
  <2>2. CASE d # -1
    BY <1>1, <1>3, <2>2 DEF Options!KernelSet, Kind
  <2> QED BY <2>1, <2>2
<1>4. CASE Kind \in {"boolean", "loopback"}
  <2>1. k = d
    BY <1>1, <1>4 DEF Options!KernelSet, Kind
  <2> QED BY <1>4, <2>1
<1>5. CASE Kind = "integer"
  <2>1. k = IF Options!Doubled THEN 2 * d ELSE d
    BY <1>5 DEF Options!KernelSet, Kind
  <2> QED BY <1>5, <2>1
<1> QED BY <1>2, <1>3, <1>4, <1>5

(* The kernel is told; what the property remembers is what it reports.     *)
LEMMA SetIs ==
  ASSUME OptionInv, NEW f \in Options!Family, Options!KernelAccepts(f, Options!data(object, f)),
         NEW k \in Options!KernelSet(kernel[f], f, Options!data(object, f)),
         NEW s, s = IF Kind \in Options!Gettable THEN Options!Kept(Options!value(object), f) ELSE <<>>,
         NEW to, to = [kernel EXCEPT ![f] = k]
  PROVE  /\ Kind = "loopback" => k \in {0, 1}
         /\ Kind \in {"integer", "unicast_hops", "multicast_hops"} => k \in Int
         /\ Kind = "linger" => k = <<k[1], k[2]>>
         /\ s # <<>> => /\ s = Shown(to, f)
                        /\ Kind = "multicast_hops" => k \in 0 .. MaxHops
                        /\ Kind \notin {"interface", "request"}
<1> DEFINE d == Options!data(object, f)
           v == Options!value(object)
<1>1. Kind \in Kinds /\ (Options!Doubled => Kind = "integer") /\ ObjectGood(object)
  BY KindIs DEF OptionInv
<1>2. to[f] = k
  BY DEF OptionInv, KernelGood
<1>k. /\ Kind = "linger" => k = IF d[1] = 0 THEN <<0, kernel[f][2]>> ELSE d
      /\ Kind \in {"unicast_hops", "multicast_hops"} =>
           IF d = -1 THEN k \in 1 .. MaxHops ELSE k = d
      /\ Kind \in {"boolean", "loopback"} => k = d
      /\ Kind = "integer" => k = IF Options!Doubled THEN 2 * d ELSE d
  BY KernelSetIs DEF OptionInv
<1>3. CASE Kind = "boolean"
  <2>1. d = object.v4 /\ v = (object.v4 # 0)
    BY <1>3 DEF Options!data, Options!Paired, Options!value, Kind
  <2>2. k = d
    BY <1>3, <1>k
  <2>3. s = <<v>>
    BY <1>3 DEF Options!Gettable, Options!Kept, Kind
  <2>4. Shown(to, f) = <<k # 0>>
    BY <1>2, <1>3 DEF Shown
  <2> QED BY <1>3, <2>1, <2>2, <2>3, <2>4
<1>4. CASE Kind = "loopback"
  <2>1. d = object.v4 /\ v = (object.v4 # 0) /\ object.v4 \in {0, 1}
    BY <1>1, <1>4 DEF Options!data, Options!Paired, Options!value, Kind, ObjectGood, Options!Family
  <2>2. k = d
    BY <1>4, <1>k
  <2>3. s = <<v>>
    BY <1>4 DEF Options!Gettable, Options!Kept, Kind
  <2>4. Shown(to, f) = <<k # 0>>
    BY <1>2, <1>4 DEF Shown
  <2> QED BY <1>4, <2>1, <2>2, <2>3, <2>4
<1>5. CASE Kind = "integer"
  <2>1. d = object.v4 /\ v = object.v4 /\ object.v4 \in Int
    BY <1>1, <1>5 DEF Options!data, Options!Paired, Options!value, Kind, ObjectGood
  <2>2. k = IF Options!Doubled THEN 2 * d ELSE d
    BY <1>5, <1>k
  <2>3. s = <<v>>
    BY <1>5 DEF Options!Gettable, Options!Kept, Kind
  <2>4. Shown(to, f) = <<IF Options!Doubled THEN k \div 2 ELSE k>>
    BY <1>2, <1>5 DEF Shown
  <2>5. (2 * d) \div 2 = d
    BY <2>1
  <2> QED BY <1>5, <2>1, <2>2, <2>3, <2>4, <2>5
<1>6. CASE Kind = "linger"
  <2>1. d = object.v4 /\ v = <<object.v4[1] # 0, object.v4[2]>> /\ object.v4 = <<object.v4[1], object.v4[2]>>
    BY <1>1, <1>6 DEF Options!data, Options!Paired, Options!value, Kind, ObjectGood
  <2>2. k = IF d[1] = 0 THEN <<0, kernel[f][2]>> ELSE d
    BY <1>6, <1>k
  <2>3. s = IF v[1] THEN <<v>> ELSE <<FALSE>>
    BY <1>6 DEF Options!Gettable, Options!Kept, Kind
  <2>4. Shown(to, f) = IF k[1] # 0 THEN <<<<TRUE, k[2]>>>> ELSE <<FALSE>>
    <3>1. Shown(to, f) = IF to[f][1] # 0 THEN <<<<TRUE, to[f][2]>>>> ELSE <<FALSE>>
      BY <1>6, Zenon DEF Shown
    <3> QED BY <1>2, <3>1
  <2> HIDE DEF d, v
  <2>5. CASE d[1] = 0
    BY <1>6, <2>1, <2>2, <2>3, <2>4, <2>5
  <2>6. CASE d[1] # 0
    BY <1>6, <2>1, <2>2, <2>3, <2>4, <2>6
  <2> QED BY <2>5, <2>6
<1>7. CASE Kind = "unicast_hops"
  <2>1. d = object.v4 /\ v = object.v4 /\ object.v4 \in Int
    BY <1>1, <1>7 DEF Options!data, Options!Paired, Options!value, Kind, ObjectGood
  <2>2. IF d = -1 THEN k \in 1 .. MaxHops ELSE k = d
    BY <1>7, <1>k
  <2>3. s = IF v = -1 THEN <<>> ELSE <<v>>
    BY <1>7 DEF Options!Gettable, Options!Kept, Options!Unset, Kind
  <2>4. Shown(to, f) = <<k>>
    BY <1>2, <1>7 DEF Shown
  <2> QED BY <1>7, <2>1, <2>2, <2>3, <2>4, HopsAssumption
<1>8. CASE Kind = "multicast_hops"
  <2>1. d = object[f] /\ v = object.v6 /\ object.v6 \in Int /\ object.v4 = Options!Clamp(object.v6)
    BY <1>1, <1>8 DEF Options!data, Options!Paired, Options!value, Kind, ObjectGood
  <2>2. IF d = -1 THEN k \in 1 .. MaxHops ELSE k = d
    BY <1>8, <1>k
  <2>3. s = IF f = "v4" THEN <<Options!Clamp(v)>> ELSE IF v = -1 THEN <<>> ELSE <<v>>
    <3>1. s = Options!Kept(v, f) /\ f \in {"v4", "v6"}
      BY <1>8 DEF Options!Gettable, Options!Family
    <3> HIDE DEF d, v
    <3>2. CASE f = "v4"
      BY <1>8, <3>1, <3>2 DEF Options!Kept, Kind
    <3>3. CASE f = "v6"
      BY <1>8, <3>1, <3>3 DEF Options!Kept, Options!Unset, Kind
    <3> QED BY <3>1, <3>2, <3>3
  <2>4. Shown(to, f) = <<k>>
    BY <1>2, <1>8 DEF Shown
  <2>5. d \in {-1} \cup 0 .. MaxHops
    BY <1>8 DEF Options!KernelAccepts, Options!Byte, Kind
  <2>6. f = "v4" => d \in 0 .. MaxHops /\ d = Options!Clamp(v)
    BY <2>1, ClampIs
  <2>7. f # "v4" => d = v
    BY <2>1 DEF Options!Family
  <2> HIDE DEF d, v
  <2> QED BY <1>8, <2>2, <2>3, <2>4, <2>5, <2>6, <2>7, HopsAssumption
<1>9. CASE Kind \in {"interface", "request"}
  BY <1>9 DEF Options!Gettable
<1> QED BY <1>1, <1>3, <1>4, <1>5, <1>6, <1>7, <1>8, <1>9 DEF Kinds

(* One representation of a pair is written, the other one stays.           *)
LEMMA OneOfTwo ==
  ASSUME NEW a, NEW b, NEW x, NEW o, o = [v4 |-> a, v6 |-> b]
  PROVE  /\ [o EXCEPT !["v4"] = x] = [v4 |-> x, v6 |-> b]
         /\ [o EXCEPT !["v6"] = x] = [v4 |-> a, v6 |-> x]
<1>1. DOMAIN o = {"v4", "v6"}
  OBVIOUS
<1>2. [o EXCEPT !["v4"] = x] = [i \in {"v4", "v6"} |-> IF i = "v4" THEN x ELSE o[i]]
  BY <1>1
<1>3. [v4 |-> x, v6 |-> b] = [i \in {"v4", "v6"} |-> IF i = "v4" THEN x ELSE b]
  OBVIOUS
<1>4. [o EXCEPT !["v6"] = x] = [i \in {"v4", "v6"} |-> IF i = "v6" THEN x ELSE o[i]]
  BY <1>1
<1>5. [v4 |-> a, v6 |-> x] = [i \in {"v4", "v6"} |-> IF i = "v6" THEN x ELSE a]
  OBVIOUS
<1> QED BY <1>2, <1>3, <1>4, <1>5

(* What get_option() makes of the answer of the kernel.                    *)
LEMMA AnswerIs ==
  ASSUME OptionInv, NEW f \in Options!Family
  PROVE  Options!getsockopt(f) =
           IF Options!Doubled THEN kernel[f] \div 2
           ELSE IF Kind = "multicast_hops" /\ f = "v4" THEN kernel[f] % (MaxHops + 1) ELSE kernel[f]
BY DEF Options!getsockopt, Options!size, Kind

LEMMA ReadIs ==
  ASSUME OptionInv, NEW f \in Options!Family, Kind \in Options!Gettable,
         NEW o, o = Options!resize(Options!Written(object, f, Options!getsockopt(f)), f)
  PROVE  /\ ObjectGood(o)
         /\ said[f] # <<>> => said[f] = Reported(o)
<1> DEFINE d == Options!getsockopt(f)
           w == Options!Written(object, f, d)
<1>1. Kind \in Kinds /\ (Options!Doubled => Kind = "integer")
  BY KindIs DEF OptionInv
<1>2. f \in {"v4", "v6"}
  BY DEF Options!Family
<1>3. said[f] # <<>> => said[f] = Shown(kernel, f) /\ (Kind = "multicast_hops" => kernel[f] \in 0 .. MaxHops)
  BY DEF OptionInv, SaidGood
<1>4. /\ Kind = "loopback" => kernel[f] \in {0, 1}
      /\ Kind \in {"integer", "unicast_hops", "multicast_hops"} => kernel[f] \in Int
      /\ Kind = "linger" => kernel[f] = <<kernel[f][1], kernel[f][2]>>
  BY DEF OptionInv, KernelGood
<1>5. d = IF Options!Doubled THEN kernel[f] \div 2
          ELSE IF Kind = "multicast_hops" /\ f = "v4" THEN kernel[f] % (MaxHops + 1) ELSE kernel[f]
  BY AnswerIs
<1>6. object = [v4 |-> object.v4, v6 |-> object.v6]
  BY DEF OptionInv, ObjectGood
<1>7. w = IF Kind \notin Options!Paired THEN [v4 |-> d, v6 |-> d]
          ELSE IF f = "v4" THEN [v4 |-> d, v6 |-> object.v6] ELSE [v4 |-> object.v4, v6 |-> d]
  <2>1. CASE Kind \notin Options!Paired
    BY <2>1 DEF Options!Written, Kind
  <2>2. CASE Kind \in Options!Paired /\ f = "v4"
    <3>1. w = [object EXCEPT !["v4"] = d]
      BY <2>2 DEF Options!Written, Kind
    <3> QED BY <1>6, <2>2, <3>1, OneOfTwo
  <2>3. CASE Kind \in Options!Paired /\ f = "v6"
    <3>1. w = [object EXCEPT !["v6"] = d]
      BY <2>3 DEF Options!Written, Kind
    <3> QED BY <1>6, <2>3, <3>1, OneOfTwo
  <2> QED BY <1>2, <2>1, <2>2, <2>3
<1>8. o = Options!resize(w, f)
  OBVIOUS
<1> HIDE DEF d, w
<1>9. CASE Kind = "boolean"
  <2>1. w = [v4 |-> kernel[f], v6 |-> kernel[f]]
    BY <1>1, <1>5, <1>7, <1>9 DEF Options!Paired
  <2>2. o = Options!Representation(kernel[f] # 0)
    BY <1>8, <1>9, <2>1 DEF Options!resize, Kind
  <2>3. o = [v4 |-> Options!AsInt(kernel[f] # 0), v6 |-> Options!AsInt(kernel[f] # 0)]
    BY <1>9, <2>2 DEF Options!Representation, Kind
  <2>4. Options!value(o) = (kernel[f] # 0)
    BY <1>9, <2>3 DEF Options!value, Options!AsInt, Kind
  <2>5. Reported(o) = <<kernel[f] # 0>> /\ Shown(kernel, f) = <<kernel[f] # 0>>
    BY <1>9, <2>4 DEF Reported, Shown
  <2> QED BY <1>3, <1>9, <2>3, <2>5 DEF ObjectGood
<1>10. CASE Kind = "loopback"
  <2>1. d = kernel[f] /\ d \in {0, 1}
    BY <1>1, <1>4, <1>5, <1>10
  <2>2. w = IF f = "v4" THEN [v4 |-> d, v6 |-> object.v6] ELSE [v4 |-> object.v4, v6 |-> d]
    BY <1>7, <1>10 DEF Options!Paired
  <2>3. o = [v4 |-> d, v6 |-> d]
    <3>1. CASE f = "v4"
      BY <1>8, <1>10, <2>1, <2>2, <3>1 DEF Options!resize, Options!AsInt, Kind
    <3>2. CASE f = "v6"
      BY <1>8, <1>10, <2>1, <2>2, <3>2 DEF Options!resize, Options!AsInt, Kind
    <3> QED BY <1>2, <3>1, <3>2
  <2>4. Options!value(o) = (d # 0)
    BY <1>10, <2>3 DEF Options!value, Kind
  <2>5. Reported(o) = <<d # 0>> /\ Shown(kernel, f) = <<d # 0>>
    BY <1>10, <2>1, <2>4 DEF Reported, Shown
  <2> QED BY <1>3, <1>10, <2>1, <2>3, <2>5 DEF ObjectGood
<1>11. CASE Kind = "integer"
  <2>1. d = (IF Options!Doubled THEN kernel[f] \div 2 ELSE kernel[f]) /\ d \in Int
    BY <1>4, <1>5, <1>11
  <2>2. w = [v4 |-> d, v6 |-> d]
    BY <1>7, <1>11 DEF Options!Paired
  <2>3. o = [v4 |-> d, v6 |-> d]
    BY <1>8, <1>11, <2>2 DEF Options!resize, Kind
  <2>4. Options!value(o) = d
    BY <1>11, <2>3 DEF Options!value, Kind
  <2>5. Reported(o) = <<d>> /\ Shown(kernel, f) = <<d>>
    BY <1>11, <2>1, <2>4 DEF Reported, Shown
  <2> QED BY <1>3, <1>11, <2>1, <2>3, <2>5 DEF ObjectGood
<1>12. CASE Kind = "linger"
  <2>1. d = kernel[f] /\ d = <<d[1], d[2]>>
    BY <1>1, <1>4, <1>5, <1>12
  <2>2. w = [v4 |-> d, v6 |-> d]
    BY <1>7, <1>12 DEF Options!Paired
  <2>3. o = [v4 |-> d, v6 |-> d]
    BY <1>8, <1>12, <2>2 DEF Options!resize, Kind
  <2>4. Options!value(o) = <<d[1] # 0, d[2]>>
    BY <1>12, <2>3 DEF Options!value, Kind
  <2>5. Reported(o) = IF d[1] # 0 THEN <<<<TRUE, d[2]>>>> ELSE <<FALSE>>
    <3>0. Reported(o) = IF ~Options!value(o)[1] THEN <<FALSE>> ELSE <<Options!value(o)>>
      BY <1>12, Zenon DEF Reported
    <3>1. CASE d[1] # 0
      <4>0. (d[1] # 0) = TRUE
        BY <3>1
      <4>2. Options!value(o) = <<TRUE, d[2]>>
        BY <2>4, <4>0, Zenon
      <4>1. Options!value(o) = <<TRUE, d[2]>> /\ Options!value(o)[1] = TRUE
        BY <4>2
      <4> QED BY <3>0, <3>1, <4>1
    <3>2. CASE d[1] = 0
      <4>0. (d[1] # 0) = FALSE
        BY <3>2
      <4>2. Options!value(o) = <<FALSE, d[2]>>
        BY <2>4, <4>0, Zenon
      <4>1. Options!value(o)[1] = FALSE
        BY <4>2
      <4> QED BY <3>0, <3>2, <4>1
    <3> QED BY <3>1, <3>2
  <2>6. Shown(kernel, f) = IF d[1] # 0 THEN <<<<TRUE, d[2]>>>> ELSE <<FALSE>>
    <3>1. Shown(kernel, f) = IF kernel[f][1] # 0 THEN <<<<TRUE, kernel[f][2]>>>> ELSE <<FALSE>>
      BY <1>12, Zenon DEF Shown
    <3> QED BY <2>1, <3>1
  <2> QED BY <1>3, <1>12, <2>1, <2>3, <2>5, <2>6 DEF ObjectGood
<1>13. CASE Kind = "unicast_hops"
  <2>1. d = kernel[f] /\ d \in Int
    BY <1>1, <1>4, <1>5, <1>13
  <2>2. w = [v4 |-> d, v6 |-> d]
    BY <1>7, <1>13 DEF Options!Paired
  <2>3. o = [v4 |-> d, v6 |-> d]
    BY <1>8, <1>13, <2>2 DEF Options!resize, Kind
  <2>4. Options!value(o) = d
    BY <1>13, <2>3 DEF Options!value, Kind
  <2>5. Reported(o) = <<d>> /\ Shown(kernel, f) = <<d>>
    BY <1>13, <2>1, <2>4 DEF Reported, Shown
  <2> QED BY <1>3, <1>13, <2>1, <2>3, <2>5 DEF ObjectGood
<1>14. CASE Kind = "multicast_hops"
  <2>1. d = (IF f = "v4" THEN kernel[f] % (MaxHops + 1) ELSE kernel[f]) /\ kernel[f] \in Int
    BY <1>1, <1>4, <1>5, <1>14
  <2>2. w = IF f = "v4" THEN [v4 |-> d, v6 |-> object.v6] ELSE [v4 |-> object.v4, v6 |-> d]
    BY <1>7, <1>14 DEF Options!Paired
  <2>3. d \in Int /\ (f = "v4" => d \in 0 .. MaxHops)
    BY <2>1, HopsAssumption
  <2>4. kernel[f] \in 0 .. MaxHops => d = kernel[f]
    BY <2>1, HopsAssumption
  <2>5. o = [v4 |-> Options!Clamp(d), v6 |-> d]
    <3>1. CASE f = "v4"
      BY <1>8, <1>14, <2>2, <2>3, <3>1, ClampIs DEF Options!resize, Kind
    <3>2. CASE f = "v6"
      BY <1>8, <1>14, <2>2, <3>2 DEF Options!resize, Kind
    <3> QED BY <1>2, <3>1, <3>2
  <2>6. Options!value(o) = d
    BY <1>14, <2>5 DEF Options!value, Kind
  <2>7. Reported(o) = <<d>> /\ Shown(kernel, f) = <<kernel[f]>>
    BY <1>14, <2>6 DEF Reported, Shown
  <2> QED BY <1>3, <1>14, <2>3, <2>4, <2>5, <2>7 DEF ObjectGood
<1> QED BY <1>9, <1>10, <1>11, <1>12, <1>13, <1>14 DEF Options!Gettable

-----------------------------------------------------------------------------
(* The calls, one by one. *)

LEMMA FreshIsGood ==
  ASSUME option \in Options!Options
  PROVE  \A f \in Options!Family : \A k \in Options!KernelInit :
           /\ Kind = "loopback" => k \in {0, 1}
           /\ Kind \in {"integer", "unicast_hops", "multicast_hops"} => k \in Int
           /\ Kind = "linger" => k = <<k[1], k[2]>>
<1> SUFFICES ASSUME NEW k \in Options!KernelInit
             PROVE  /\ Kind = "loopback" => k \in {0, 1}
                    /\ Kind \in {"integer", "unicast_hops", "multicast_hops"} => k \in Int
                    /\ Kind = "linger" => k = <<k[1], k[2]>>
  OBVIOUS
<1>1. CASE Kind = "loopback"
  BY <1>1 DEF Options!KernelInit, Kind
<1>2. CASE Kind = "linger"
  BY <1>2 DEF Options!KernelInit, Kind
<1>3. CASE Kind \in {"integer", "unicast_hops"}
  BY <1>3, HopsAssumption DEF Options!KernelInit, Kind
<1>4. CASE Kind = "multicast_hops"
  BY <1>4, HopsAssumption DEF Options!KernelInit, Options!HopCount, Kind
<1> QED BY <1>1, <1>2, <1>3, <1>4

LEMMA OptionsStart ==
  ASSUME Options!Init
  PROVE  OptionInv
<1>1. option \in Options!Options /\ ObjectGood(object)
  BY DefaultGood DEF Options!Init
<1>2. KernelGood(kernel)
  <2>1. kernel = [f \in Options!Family |-> kernel[f]] /\ \A f \in Options!Family : kernel[f] \in Options!KernelInit
    BY DEF Options!Init
  <2> QED BY <1>1, <2>1, FreshIsGood DEF KernelGood
<1>3. SaidGood(said, kernel) /\ read = <<>>
  BY DEF Options!Init, Options!Unset, SaidGood
<1> QED BY <1>1, <1>2, <1>3 DEF OptionInv

LEMMA ConstructKeeps ==
  ASSUME OptionInv, Options!construct
  PROVE  OptionInv'
<1>1. option' = option /\ kernel' = kernel /\ said' = said /\ read' = <<>>
  BY DEF Options!construct, Options!Unset
<1>2. ObjectGood(object')
  BY ConstructedGood DEF Options!construct, OptionInv
<1>3. ObjectGood(object)'
  BY <1>1, <1>2 DEF ObjectGood, Kind, Options!Clamp
<1>4. KernelGood(kernel)' /\ SaidGood(said, kernel)'
  BY <1>1 DEF OptionInv, KernelGood, SaidGood, Shown, Kind, Options!Doubled
<1> QED BY <1>1, <1>3, <1>4 DEF OptionInv

LEMMA SetKeeps ==
  ASSUME OptionInv, NEW f \in Options!Family, Options!set_option(f)
  PROVE  OptionInv'
<1> DEFINE d == Options!data(object, f)
           t == IF Kind \in Options!Gettable THEN Options!Kept(Options!value(object), f) ELSE <<>>
<1>1. /\ option' = option /\ object' = object /\ read' = read
      /\ Options!KernelAccepts(f, d)
      /\ said' = [said EXCEPT ![f] = t]
  BY DEF Options!set_option, Options!Unset, Kind
<1>2. PICK k \in Options!KernelSet(kernel[f], f, d) : kernel' = [kernel EXCEPT ![f] = k]
  BY DEF Options!set_option
<1>3. /\ Kind = "loopback" => k \in {0, 1}
      /\ Kind \in {"integer", "unicast_hops", "multicast_hops"} => k \in Int
      /\ Kind = "linger" => k = <<k[1], k[2]>>
      /\ t # <<>> => /\ t = Shown(kernel', f)
                     /\ Kind = "multicast_hops" => k \in 0 .. MaxHops
                     /\ Kind \notin {"interface", "request"}
  <2>0. /\ Kind = "loopback" => k \in {0, 1}
        /\ Kind \in {"integer", "unicast_hops", "multicast_hops"} => k \in Int
        /\ Kind = "linger" => k = <<k[1], k[2]>>
        /\ t # <<>> => /\ t = Shown([kernel EXCEPT ![f] = k], f)
                       /\ Kind = "multicast_hops" => k \in 0 .. MaxHops
                       /\ Kind \notin {"interface", "request"}
    BY <1>1, SetIs
  <2> QED BY <1>2, <2>0
<1> HIDE DEF d, t
<1>4. /\ kernel' = [g \in Options!Family |-> kernel'[g]]
      /\ \A g \in Options!Family : kernel'[g] = IF g = f THEN k ELSE kernel[g]
  BY <1>2 DEF OptionInv, KernelGood
<1>5. /\ said' = [g \in Options!Family |-> said'[g]]
      /\ \A g \in Options!Family : said'[g] = IF g = f THEN t ELSE said[g]
  BY <1>1 DEF OptionInv, SaidGood
<1>6. KernelGood(kernel')
  BY <1>3, <1>4 DEF OptionInv, KernelGood
<1>7. SaidGood(said', kernel')
  <2>1. ASSUME NEW g \in Options!Family, g # f
        PROVE  Shown(kernel', g) = Shown(kernel, g)
    BY <1>4, <2>1 DEF Shown
  <2> QED BY <1>3, <1>4, <1>5, <2>1 DEF OptionInv, SaidGood
<1>8. ObjectGood(object)' /\ KernelGood(kernel)' /\ SaidGood(said, kernel)'
  BY <1>1, <1>6, <1>7 DEF OptionInv, ObjectGood, KernelGood, SaidGood, Shown, Kind,
    Options!Doubled, Options!Clamp
<1>9. read' # <<>> => read' = Reported(object)' /\ Kind' \notin {"interface", "request"}
  BY <1>1 DEF OptionInv, Reported, Kind, Options!value
<1> QED BY <1>1, <1>8, <1>9 DEF OptionInv

LEMMA GetKeeps ==
  ASSUME OptionInv, NEW f \in Options!Family, Options!get_option(f)
  PROVE  OptionInv'
<1> DEFINE o == Options!resize(Options!Written(object, f, Options!getsockopt(f)), f)
<1>1. /\ option' = option /\ kernel' = kernel /\ said' = said /\ Kind \in Options!Gettable
      /\ \/ object' = o /\ read' = said[f]
         \/ object' = Options!Default /\ read' = <<>>
  BY DEF Options!get_option, Options!Unset, Kind
<1>2. ObjectGood(object') /\ (read' # <<>> => read' = Reported(object'))
  <2>1. ObjectGood(o) /\ (said[f] # <<>> => said[f] = Reported(o))
    BY <1>1, ReadIs
  <2>2. ObjectGood(Options!Default)
    BY DefaultGood DEF OptionInv
  <2> HIDE DEF o
  <2> QED BY <1>1, <2>1, <2>2
<1>3. Kind \notin {"interface", "request"}
  BY <1>1 DEF Options!Gettable
<1> HIDE DEF o
<1>4. ObjectGood(object)' /\ KernelGood(kernel)' /\ SaidGood(said, kernel)'
  BY <1>1, <1>2 DEF OptionInv, ObjectGood, KernelGood, SaidGood, Shown, Kind,
    Options!Doubled, Options!Clamp
<1>5. read' # <<>> => read' = Reported(object)' /\ Kind' \notin {"interface", "request"}
  BY <1>1, <1>2, <1>3 DEF Reported, Kind, Options!value
<1> QED BY <1>1, <1>4, <1>5 DEF OptionInv

LEMMA OptionsRest ==
  ASSUME OptionInv, UNCHANGED option_vars
  PROVE  OptionInv'
BY DEF option_vars, OptionInv, ObjectGood, KernelGood, SaidGood, Shown, Reported, Kind,
  Options!Doubled, Options!Clamp, Options!value

LEMMA OptionsStep ==
  ASSUME OptionInv, Options!Next
  PROVE  OptionInv'
BY ConstructKeeps, SetKeeps, GetKeeps DEF Options!Next

(* What is read is what was said, and the two representations agree.       *)
LEMMA OptionsFollow ==
  ASSUME OptionInv
  PROVE  Options!OptionReadsBack
<1>1. Kind = "loopback" => object.v6 = object.v4
  BY DEF OptionInv, ObjectGood
<1>2. Kind = "multicast_hops" => object.v4 = Options!Clamp(object.v6)
  BY DEF OptionInv, ObjectGood
<1>3. read # <<>> => read = Reported(object)
  BY DEF OptionInv
<1> QED BY <1>1, <1>2, <1>3 DEF Options!OptionReadsBack, Options!Unset, Reported, Kind

(* Every socket option: what is set on a socket, or by the kernel, is what *)
(* an object reads back, whichever object it is and whatever was done with *)
(* it before, made by the program or read from a socket of the other       *)
(* family; the two representations of a loopback or of a hop count agree.  *)
THEOREM OptionsReadBack == MCSpec => []OptionReadsBack
<1>1. ASSUME MCInit PROVE OptionInv
  BY <1>1, OptionsStart DEF MCInit
<1>2. ASSUME OptionInv, [MCNext]_allVars PROVE OptionInv'
  <2>1. CASE part = "options" /\ Options!Next
    BY <1>2, <2>1, OptionsStep
  <2>2. CASE UNCHANGED option_vars
    BY <1>2, <2>2, OptionsRest
  <2> QED BY <1>2, <2>1, <2>2 DEF MCNext, In, Keep, allVars
<1>3. ASSUME OptionInv PROVE OptionReadsBack
  BY <1>3, OptionsFollow DEF OptionReadsBack
<1> QED BY <1>1, <1>2, <1>3, PTL DEF MCSpec
-----------------------------------------------------------------------------
(* The executor and its contexts.                                          *)
(*                                                                         *)
(* What a thread or a queue holds of a handler is an item.  Three counts   *)
(* are of items: the references to an implementation, the tasks of a       *)
(* context, and the guards that keep it from stopping.  A step adds or     *)
(* removes an item, or puts one in the place of another, and changes the   *)
(* counters by as much.                                                    *)
OwnContexts == Contexts \ {System}
ImplIds == 1 .. MaxImpls
Runners == Contexts \cup {"main"}
HandleType == 0 .. MaxImpls + 1
TaskType == [h : Nat, ex : HandleType, dispatcher : BOOLEAN]
ContextType ==
  [queue : Seq(TaskType), work : Int, stopped : BOOLEAN, running : BOOLEAN,
   join : {"no", "joining", "joined"}, asked : BOOLEAN, destroyed : BOOLEAN]
RunnerType ==
  [task : TaskType, at : {"idle", "start", "reset", "end", "threw"}, owns : BOOLEAN]
ImplType == [target : OwnContexts \cup {"none"}, refs : Int]
ItemType ==
  [task : TaskType, at : {"queued", "start", "reset", "end", "threw"}, by : Runners]

Item(task, at, by) == [task |-> task, at |-> at, by |-> by]
QueueItems(c, q) == {Item(q[i], "queued", c) : i \in DOMAIN q}
RunItems(t, f) == IF f.at = "idle" THEN {} ELSE {Item(f.task, f.at, t)}
AllQueued(cs) == UNION {QueueItems(c, cs[c].queue) : c \in Contexts}
AllRun(fr) == UNION {RunItems(t, fr[t]) : t \in Runners}
InFlight(cs, fr) == AllQueued(cs) \cup AllRun(fr)

Goal(im, task) == IF task.ex \in ImplIds THEN im[task.ex].target ELSE System
Home(t) == IF t = "main" THEN System ELSE t

(* A work_dispatcher is past its handler; it still owns its guard; the     *)
(* handler is still to be invoked from here.                               *)
Passing(x) == x.task.dispatcher /\ x.at \in {"reset", "end"}
Owning(x) == x.task.dispatcher /\ x.at # "end"
Waits(x) == x.at \in {"queued", "start"}

Apart(x, y) ==
  \/ x = y
  \/ Passing(x) /\ ~y.task.dispatcher
  \/ Passing(y) /\ ~x.task.dispatcher

(* Of a context: its tasks, and the guards of the handlers bound to it.    *)
(* Of an implementation: the references of the tasks and of the variables. *)
Mine(I, c) == {x \in I : x.by = c}
Guards(I, im, c) == {x \in I : Owning(x) /\ Goal(im, x.task) = c /\ c # System}
HeldBy(I, i) == {p \in I \X {1, 2} : p[2] <= Executing!Copies(p[1].task, i)}
Holders(ha, i) == {v \in Variables : ha[v] = i}

(* What one item adds to the first two. *)
TaskOf(x, c) == IF x.by = c THEN 1 ELSE 0
GuardOf(x, im, c) == IF Owning(x) /\ Goal(im, x.task) = c /\ c # System THEN 1 ELSE 0

(* J is I and x: its counts. *)
Counted(I, x, J, im, c, i) ==
  /\ IsFiniteSet(I) /\ IsFiniteSet(J)
  /\ Cardinality(Mine(I, c)) \in Nat /\ Cardinality(Mine(J, c)) \in Nat
  /\ Cardinality(Guards(I, im, c)) \in Nat /\ Cardinality(Guards(J, im, c)) \in Nat
  /\ Cardinality(HeldBy(I, i)) \in Nat /\ Cardinality(HeldBy(J, i)) \in Nat
  /\ Cardinality(Mine(J, c)) = Cardinality(Mine(I, c)) + TaskOf(x, c)
  /\ Cardinality(Guards(J, im, c)) = Cardinality(Guards(I, im, c)) + GuardOf(x, im, c)
  /\ Cardinality(HeldBy(J, i)) = Cardinality(HeldBy(I, i)) + Executing!Copies(x.task, i)
  /\ TaskOf(x, c) \in {0, 1} /\ GuardOf(x, im, c) \in {0, 1}
  /\ Executing!Copies(x.task, i) \in {0, 1, 2}

LEMMA ItemAdded ==
  ASSUME NEW I, IsFiniteSet(I), NEW x, x \notin I, NEW im, NEW c, NEW i
  PROVE  Counted(I, x, I \cup {x}, im, c, i)
<1>1. IsFiniteSet(I \cup {x})
  BY FS_AddElement
<1>2. /\ Cardinality(Mine(I \cup {x}, c)) = Cardinality(Mine(I, c)) + TaskOf(x, c)
      /\ Cardinality(Mine(I, c)) \in Nat
  <2>1. IsFiniteSet(Mine(I, c))
    BY FS_Subset DEF Mine
  <2>2. x \notin Mine(I, c)
    BY DEF Mine
  <2>3. Cardinality(Mine(I, c)) \in Nat /\ Cardinality(Mine(I, c) \cup {x}) = Cardinality(Mine(I, c)) + 1
    BY <2>1, <2>2, FS_AddElement, FS_CardinalityType
  <2>4. CASE x.by = c
    <3>1. Mine(I \cup {x}, c) = Mine(I, c) \cup {x}
      BY <2>4 DEF Mine
    <3> QED BY <2>3, <2>4, <3>1 DEF TaskOf
  <2>5. CASE x.by # c
    <3>1. Mine(I \cup {x}, c) = Mine(I, c)
      BY <2>5 DEF Mine
    <3> QED BY <2>3, <2>5, <3>1 DEF TaskOf
  <2> QED BY <2>4, <2>5
<1>3. /\ Cardinality(Guards(I \cup {x}, im, c)) = Cardinality(Guards(I, im, c)) + GuardOf(x, im, c)
      /\ Cardinality(Guards(I, im, c)) \in Nat
  <2>1. IsFiniteSet(Guards(I, im, c))
    BY FS_Subset DEF Guards
  <2>2. x \notin Guards(I, im, c)
    BY DEF Guards
  <2>3. /\ Cardinality(Guards(I, im, c)) \in Nat
        /\ Cardinality(Guards(I, im, c) \cup {x}) = Cardinality(Guards(I, im, c)) + 1
    BY <2>1, <2>2, FS_AddElement, FS_CardinalityType
  <2>4. CASE Owning(x) /\ Goal(im, x.task) = c /\ c # System
    <3>1. Guards(I \cup {x}, im, c) = Guards(I, im, c) \cup {x}
      BY <2>4 DEF Guards
    <3> QED BY <2>3, <2>4, <3>1 DEF GuardOf
  <2>5. CASE ~(Owning(x) /\ Goal(im, x.task) = c /\ c # System)
    <3>1. Guards(I \cup {x}, im, c) = Guards(I, im, c)
      BY <2>5 DEF Guards
    <3> QED BY <2>3, <2>5, <3>1 DEF GuardOf
  <2> QED BY <2>4, <2>5
<1>4. /\ Cardinality(HeldBy(I \cup {x}, i)) = Cardinality(HeldBy(I, i)) + Executing!Copies(x.task, i)
      /\ Cardinality(HeldBy(I, i)) \in Nat
  <2>1. IsFiniteSet(HeldBy(I, i))
    <3>1. IsFiniteSet({1, 2})
      <4>1. IsFiniteSet({1}) /\ {1} \cup {2} = {1, 2}
        BY FS_Singleton
      <4>2. IsFiniteSet({1} \cup {2})
        BY <4>1, FS_AddElement
      <4> QED BY <4>1, <4>2
    <3>2. IsFiniteSet(I \X {1, 2})
      BY <3>1, FS_Product
    <3>3. HeldBy(I, i) \in SUBSET (I \X {1, 2})
      BY DEF HeldBy
    <3> QED BY <3>2, <3>3, FS_Subset
  <2>2. <<x, 1>> \notin HeldBy(I, i) /\ <<x, 2>> \notin HeldBy(I, i)
    BY DEF HeldBy
  <2> DEFINE H == HeldBy(I, i)
             n == Executing!Copies(x.task, i)
  <2>3. /\ Cardinality(H) \in Nat
        /\ IsFiniteSet(H \cup {<<x, 1>>})
        /\ Cardinality(H \cup {<<x, 1>>}) = Cardinality(H) + 1
    BY <2>1, <2>2, FS_AddElement, FS_CardinalityType
  <2>4. <<x, 2>> \notin H \cup {<<x, 1>>}
    BY <2>2
  <2>5. Cardinality((H \cup {<<x, 1>>}) \cup {<<x, 2>>}) = Cardinality(H) + 2
    <3> HIDE DEF H
    <3>1. Cardinality((H \cup {<<x, 1>>}) \cup {<<x, 2>>}) = Cardinality(H \cup {<<x, 1>>}) + 1
      BY <2>3, <2>4, FS_AddElement
    <3> QED BY <2>3, <3>1
  <2>6. n \in {0, 1, 2}
    BY DEF Executing!Copies
  <2>7. HeldBy(I \cup {x}, i) = H \cup {<<x, k>> : k \in {m \in {1, 2} : m <= n}}
    BY DEF HeldBy
  <2> HIDE DEF H, n
  <2>8. CASE n = 0
    <3>1. {m \in {1, 2} : m <= n} = {}
      BY <2>8
    <3>2. HeldBy(I \cup {x}, i) = H
      BY <2>7, <3>1
    <3> QED BY <2>3, <2>8, <3>2 DEF H, n
  <2>9. CASE n = 1
    <3>1. {m \in {1, 2} : m <= n} = {1}
      BY <2>9
    <3>2. HeldBy(I \cup {x}, i) = H \cup {<<x, 1>>}
      BY <2>7, <3>1
    <3> QED BY <2>3, <2>9, <3>2 DEF H, n
  <2>10. CASE n = 2
    <3>1. {m \in {1, 2} : m <= n} = {1, 2}
      BY <2>10
    <3>2. HeldBy(I \cup {x}, i) = (H \cup {<<x, 1>>}) \cup {<<x, 2>>}
      BY <2>7, <3>1
    <3> QED BY <2>3, <2>5, <2>10, <3>2 DEF H, n
  <2> QED BY <2>6, <2>8, <2>9, <2>10
<1>5. /\ TaskOf(x, c) \in {0, 1} /\ GuardOf(x, im, c) \in {0, 1}
      /\ Executing!Copies(x.task, i) \in {0, 1, 2}
  BY DEF TaskOf, GuardOf, Executing!Copies
<1>6. /\ Cardinality(Mine(I \cup {x}, c)) \in Nat /\ Cardinality(Guards(I \cup {x}, im, c)) \in Nat
      /\ Cardinality(HeldBy(I \cup {x}, i)) \in Nat
  BY <1>2, <1>3, <1>4, <1>5
<1> QED BY <1>1, <1>2, <1>3, <1>4, <1>5, <1>6 DEF Counted

LEMMA ItemRemoved ==
  ASSUME NEW I, IsFiniteSet(I), NEW x \in I, NEW im, NEW c, NEW i
  PROVE  Counted(I \ {x}, x, I, im, c, i)
<1> DEFINE J == I \ {x}
<1>1. IsFiniteSet(J) /\ x \notin J /\ J \cup {x} = I
  BY FS_RemoveElement
<1> HIDE DEF J
<1>2. Counted(J, x, J \cup {x}, im, c, i)
  BY <1>1, ItemAdded
<1> QED BY <1>1, <1>2 DEF J

-----------------------------------------------------------------------------
(* The items of a state. *)
NoDup(q) == \A i, j \in DOMAIN q : q[i].h = q[j].h => i = j

LEMMA ItemIs ==
  ASSUME NEW task, NEW at, NEW by
  PROVE  /\ Item(task, at, by).task = task /\ Item(task, at, by).at = at
         /\ Item(task, at, by).by = by
BY DEF Item

LEMMA QueueItemIs ==
  ASSUME NEW c, NEW q, NEW x
  PROVE  x \in QueueItems(c, q) <=> \E i \in DOMAIN q : x = Item(q[i], "queued", c)
BY DEF QueueItems

LEMMA Appended ==
  ASSUME NEW c, NEW q \in Seq(TaskType), NEW task \in TaskType
  PROVE  /\ Append(q, task) \in Seq(TaskType)
         /\ QueueItems(c, Append(q, task)) = QueueItems(c, q) \cup {Item(task, "queued", c)}
<1> DEFINE r == Append(q, task)
<1>1. /\ r \in Seq(TaskType) /\ Len(r) = Len(q) + 1 /\ Len(q) \in Nat
      /\ \A i \in 1 .. Len(q) : r[i] = q[i]
      /\ r[Len(q) + 1] = task
  OBVIOUS
<1>2. DOMAIN q = 1 .. Len(q) /\ DOMAIN r = 1 .. Len(r)
  BY <1>1
<1> HIDE DEF r
<1>3. DOMAIN r = DOMAIN q \cup {Len(q) + 1} /\ Len(q) + 1 \notin DOMAIN q
  BY <1>1, <1>2
<1>4. \A i \in DOMAIN q : r[i] = q[i]
  BY <1>1, <1>2
<1>5. {Item(r[i], "queued", c) : i \in DOMAIN r}
        = {Item(q[i], "queued", c) : i \in DOMAIN q} \cup {Item(task, "queued", c)}
  BY <1>1, <1>3, <1>4, Zenon
<1> QED BY <1>1, <1>5 DEF r, QueueItems

LEMMA HeadGone ==
  ASSUME NEW c, NEW q \in Seq(TaskType), q # <<>>, NoDup(q)
  PROVE  /\ Head(q) \in TaskType /\ Tail(q) \in Seq(TaskType) /\ NoDup(Tail(q))
         /\ Item(Head(q), "queued", c) \in QueueItems(c, q)
         /\ QueueItems(c, Tail(q)) = QueueItems(c, q) \ {Item(Head(q), "queued", c)}
<1> DEFINE r == Tail(q)
<1>1. /\ r \in Seq(TaskType) /\ Len(r) = Len(q) - 1 /\ Len(q) \in Nat /\ Len(q) >= 1
      /\ \A i \in 1 .. Len(r) : r[i] = q[i + 1]
      /\ Head(q) = q[1] /\ Head(q) \in TaskType
  BY HeadTailProperties, LenProperties, EmptySeq
<1>2. DOMAIN q = 1 .. Len(q) /\ DOMAIN r = 1 .. Len(r)
  BY <1>1
<1> HIDE DEF r
<1>3. \A i \in DOMAIN r : i + 1 \in DOMAIN q /\ r[i] = q[i + 1] /\ i \in Int
  BY <1>1, <1>2
<1>4. \A i \in DOMAIN q : i = 1 \/ i - 1 \in DOMAIN r
  BY <1>1, <1>2
<1>5. NoDup(r)
  <2> SUFFICES ASSUME NEW i \in DOMAIN r, NEW j \in DOMAIN r, r[i].h = r[j].h PROVE i = j
    BY DEF NoDup
  <2>1. i + 1 = j + 1
    BY <1>3 DEF NoDup
  <2> QED BY <1>3, <2>1
<1>6. 1 \in DOMAIN q
  BY <1>1, <1>2
<1>7. Item(Head(q), "queued", c) \in QueueItems(c, q)
  BY <1>1, <1>6, QueueItemIs
<1>8. ASSUME NEW x PROVE x \in QueueItems(c, r) <=> x \in QueueItems(c, q) \ {Item(Head(q), "queued", c)}
  <2>1. ASSUME x \in QueueItems(c, r) PROVE x \in QueueItems(c, q) /\ x # Item(Head(q), "queued", c)
    <3>1. PICK i \in DOMAIN r : x = Item(r[i], "queued", c)
      BY <2>1, QueueItemIs
    <3>2. i + 1 \in DOMAIN q /\ x = Item(q[i + 1], "queued", c) /\ i + 1 # 1
      BY <1>1, <1>2, <1>3, <3>1
    <3>3. x.task = q[i + 1]
      BY <3>2, ItemIs
    <3>4. q[i + 1].h # q[1].h
      BY <1>6, <3>2 DEF NoDup
    <3>5. x # Item(q[1], "queued", c)
      BY <3>3, <3>4, ItemIs
    <3> QED BY <1>1, <3>2, <3>5, QueueItemIs
  <2>2. ASSUME x \in QueueItems(c, q), x # Item(Head(q), "queued", c) PROVE x \in QueueItems(c, r)
    <3>1. PICK i \in DOMAIN q : x = Item(q[i], "queued", c)
      BY <2>2, QueueItemIs
    <3>2. i # 1
      BY <1>1, <2>2, <3>1
    <3>3. i - 1 \in DOMAIN r /\ r[i - 1] = q[i]
      <4>1. i - 1 \in DOMAIN r /\ i \in Int
        BY <1>2, <1>4, <3>2
      <4>2. r[i - 1] = q[(i - 1) + 1] /\ (i - 1) + 1 = i
        BY <1>3, <4>1
      <4> QED BY <4>1, <4>2
    <3> QED BY <3>1, <3>3, QueueItemIs
  <2> QED BY <2>1, <2>2
<1> QED BY <1>1, <1>5, <1>7, <1>8 DEF r

StateType(cs, fr) == cs \in [Contexts -> ContextType] /\ fr \in [Runners -> RunnerType]

LEMMA FlightIs ==
  ASSUME NEW cs, NEW fr, StateType(cs, fr), NEW x
  PROVE  /\ x \in InFlight(cs, fr) <=>
              \/ \E c \in Contexts : x \in QueueItems(c, cs[c].queue)
              \/ \E t \in Runners : x \in RunItems(t, fr[t])
         /\ \A c \in Contexts : x \in QueueItems(c, cs[c].queue) =>
              x \in ItemType /\ x.at = "queued" /\ x.by = c
         /\ \A t \in Runners : x \in RunItems(t, fr[t]) =>
              /\ x \in ItemType /\ x.at # "queued" /\ x.by = t
              /\ x.at = fr[t].at /\ x.task = fr[t].task /\ x = Item(fr[t].task, fr[t].at, t)
<1>1. x \in InFlight(cs, fr) <=>
         \/ \E c \in Contexts : x \in QueueItems(c, cs[c].queue)
         \/ \E t \in Runners : x \in RunItems(t, fr[t])
  <2>1. x \in AllQueued(cs) <=> \E c \in Contexts : x \in QueueItems(c, cs[c].queue)
    BY DEF AllQueued
  <2>2. x \in AllRun(fr) <=> \E t \in Runners : x \in RunItems(t, fr[t])
    BY DEF AllRun
  <2> QED BY <2>1, <2>2 DEF InFlight
<1>2. ASSUME NEW c \in Contexts, x \in QueueItems(c, cs[c].queue)
      PROVE  x \in ItemType /\ x.at = "queued" /\ x.by = c
  <2>1. PICK i \in DOMAIN cs[c].queue : x = Item(cs[c].queue[i], "queued", c)
    BY <1>2, QueueItemIs
  <2>2. cs[c].queue \in Seq(TaskType)
    BY DEF StateType, ContextType
  <2>3. cs[c].queue[i] \in TaskType
    BY <2>2
  <2>4. c \in Runners
    BY DEF Runners
  <2> QED BY <2>1, <2>3, <2>4 DEF ItemType, Item
<1>3. ASSUME NEW t \in Runners, x \in RunItems(t, fr[t])
      PROVE  /\ x \in ItemType /\ x.at # "queued" /\ x.by = t
             /\ x.at = fr[t].at /\ x.task = fr[t].task /\ x = Item(fr[t].task, fr[t].at, t)
  <2>1. fr[t] \in RunnerType
    BY DEF StateType
  <2>2. fr[t].at # "idle" /\ x = Item(fr[t].task, fr[t].at, t)
    BY <1>3 DEF RunItems
  <2> QED BY <2>1, <2>2 DEF ItemType, Item, RunnerType
<1> QED BY <1>1, <1>2, <1>3

(* A runner holds one item, and is idle without. *)
LEMMA RunnerHolds ==
  ASSUME NEW cs, NEW fr, StateType(cs, fr), NEW t \in Runners
  PROVE  /\ fr[t].at # "idle" => /\ Item(fr[t].task, fr[t].at, t) \in InFlight(cs, fr)
                                 /\ RunItems(t, fr[t]) = {Item(fr[t].task, fr[t].at, t)}
         /\ fr[t].at = "idle" => RunItems(t, fr[t]) = {}
BY FlightIs DEF RunItems

LEMMA QueueHolds ==
  ASSUME NEW cs, NEW fr, StateType(cs, fr), NEW c \in Contexts, NEW i \in DOMAIN cs[c].queue
  PROVE  Item(cs[c].queue[i], "queued", c) \in InFlight(cs, fr)
<1>1. Item(cs[c].queue[i], "queued", c) \in QueueItems(c, cs[c].queue)
  BY QueueItemIs
<1> QED BY <1>1, FlightIs

(* The queues that change are those of c alone. *)
LEMMA QueueChanges ==
  ASSUME NEW cs, NEW ds, NEW fr, StateType(cs, fr), StateType(ds, fr), NEW c \in Contexts,
         \A d \in Contexts : d # c => ds[d].queue = cs[d].queue
  PROVE  InFlight(ds, fr) =
           (InFlight(cs, fr) \ QueueItems(c, cs[c].queue)) \cup QueueItems(c, ds[c].queue)
<1> SUFFICES ASSUME NEW x
             PROVE  x \in InFlight(ds, fr) <=>
                    \/ x \in InFlight(cs, fr) /\ x \notin QueueItems(c, cs[c].queue)
                    \/ x \in QueueItems(c, ds[c].queue)
  OBVIOUS
<1>1. ASSUME x \in InFlight(ds, fr)
      PROVE  \/ x \in InFlight(cs, fr) /\ x \notin QueueItems(c, cs[c].queue)
             \/ x \in QueueItems(c, ds[c].queue)
  BY <1>1, FlightIs
<1>2. ASSUME x \in InFlight(cs, fr), x \notin QueueItems(c, cs[c].queue)
      PROVE  x \in InFlight(ds, fr)
  BY <1>2, FlightIs
<1>3. ASSUME x \in QueueItems(c, ds[c].queue)
      PROVE  x \in InFlight(ds, fr)
  BY <1>3, FlightIs
<1> QED BY <1>1, <1>2, <1>3

LEMMA RunnerChanges ==
  ASSUME NEW cs, NEW fr, NEW gr, StateType(cs, fr), StateType(cs, gr), NEW t \in Runners,
         \A u \in Runners : u # t => gr[u] = fr[u]
  PROVE  InFlight(cs, gr) = (InFlight(cs, fr) \ RunItems(t, fr[t])) \cup RunItems(t, gr[t])
<1> SUFFICES ASSUME NEW x
             PROVE  x \in InFlight(cs, gr) <=>
                    \/ x \in InFlight(cs, fr) /\ x \notin RunItems(t, fr[t])
                    \/ x \in RunItems(t, gr[t])
  OBVIOUS
<1>1. ASSUME x \in InFlight(cs, gr)
      PROVE  \/ x \in InFlight(cs, fr) /\ x \notin RunItems(t, fr[t])
             \/ x \in RunItems(t, gr[t])
  BY <1>1, FlightIs
<1>2. ASSUME x \in InFlight(cs, fr), x \notin RunItems(t, fr[t])
      PROVE  x \in InFlight(cs, gr)
  BY <1>2, FlightIs
<1>3. ASSUME x \in RunItems(t, gr[t])
      PROVE  x \in InFlight(cs, gr)
  BY <1>3, FlightIs
<1> QED BY <1>1, <1>2, <1>3

(* The same queues and the same runners hold the same. *)
LEMMA FlightSame ==
  ASSUME NEW cs, NEW ds, NEW fr, \A c \in Contexts : ds[c].queue = cs[c].queue
  PROVE  InFlight(ds, fr) = InFlight(cs, fr)
BY DEF InFlight, AllQueued

(* A task is added to a queue; a runner starts, goes on, and ends. *)
LEMMA TaskQueued ==
  ASSUME NEW cs, NEW ds, NEW fr, StateType(cs, fr), StateType(ds, fr), NEW c \in Contexts,
         NEW task \in TaskType,
         \A d \in Contexts : ds[d].queue = IF d = c THEN Append(cs[d].queue, task) ELSE cs[d].queue
  PROVE  InFlight(ds, fr) = InFlight(cs, fr) \cup {Item(task, "queued", c)}
<1>1. cs[c].queue \in Seq(TaskType)
  BY DEF StateType, ContextType
<1>2. QueueItems(c, ds[c].queue) = QueueItems(c, cs[c].queue) \cup {Item(task, "queued", c)}
  BY <1>1, Appended
<1>3. InFlight(ds, fr) =
        (InFlight(cs, fr) \ QueueItems(c, cs[c].queue)) \cup QueueItems(c, ds[c].queue)
  BY QueueChanges
<1>4. QueueItems(c, cs[c].queue) \subseteq InFlight(cs, fr)
  BY FlightIs
<1> QED BY <1>2, <1>3, <1>4

LEMMA RunnerStarts ==
  ASSUME NEW cs, NEW fr, NEW gr, StateType(cs, fr), StateType(cs, gr), NEW t \in Runners,
         \A u \in Runners : u # t => gr[u] = fr[u],
         fr[t].at = "idle", gr[t].at # "idle"
  PROVE  InFlight(cs, gr) = InFlight(cs, fr) \cup {Item(gr[t].task, gr[t].at, t)}
<1>1. RunItems(t, fr[t]) = {} /\ RunItems(t, gr[t]) = {Item(gr[t].task, gr[t].at, t)}
  BY RunnerHolds
<1>2. InFlight(cs, gr) = (InFlight(cs, fr) \ RunItems(t, fr[t])) \cup RunItems(t, gr[t])
  BY RunnerChanges
<1> QED BY <1>1, <1>2

LEMMA RunnerMoves ==
  ASSUME NEW cs, NEW fr, NEW gr, StateType(cs, fr), StateType(cs, gr), NEW t \in Runners,
         \A u \in Runners : u # t => gr[u] = fr[u],
         fr[t].at # "idle", gr[t].at # "idle"
  PROVE  InFlight(cs, gr) = (InFlight(cs, fr) \ {Item(fr[t].task, fr[t].at, t)})
                              \cup {Item(gr[t].task, gr[t].at, t)}
<1>1. /\ RunItems(t, fr[t]) = {Item(fr[t].task, fr[t].at, t)}
      /\ RunItems(t, gr[t]) = {Item(gr[t].task, gr[t].at, t)}
  BY RunnerHolds
<1>2. InFlight(cs, gr) = (InFlight(cs, fr) \ RunItems(t, fr[t])) \cup RunItems(t, gr[t])
  BY RunnerChanges
<1> QED BY <1>1, <1>2

LEMMA RunnerEnds ==
  ASSUME NEW cs, NEW fr, NEW gr, StateType(cs, fr), StateType(cs, gr), NEW t \in Runners,
         \A u \in Runners : u # t => gr[u] = fr[u],
         fr[t].at # "idle", gr[t].at = "idle"
  PROVE  InFlight(cs, gr) = InFlight(cs, fr) \ {Item(fr[t].task, fr[t].at, t)}
<1>1. RunItems(t, fr[t]) = {Item(fr[t].task, fr[t].at, t)} /\ RunItems(t, gr[t]) = {}
  BY RunnerHolds
<1>2. InFlight(cs, gr) = (InFlight(cs, fr) \ RunItems(t, fr[t])) \cup RunItems(t, gr[t])
  BY RunnerChanges
<1> QED BY <1>1, <1>2

(* A thread takes the first task of its queue. *)
LEMMA TaskTaken ==
  ASSUME NEW cs, NEW ds, NEW fr, NEW gr, StateType(cs, fr), StateType(ds, gr), NEW c \in Contexts,
         cs[c].queue # <<>>, NoDup(cs[c].queue),
         \A d \in Contexts : ds[d].queue = IF d = c THEN Tail(cs[d].queue) ELSE cs[d].queue,
         \A u \in Runners : u # c => gr[u] = fr[u],
         fr[c].at = "idle", gr[c].at = "start", gr[c].task = Head(cs[c].queue)
  PROVE  /\ Item(Head(cs[c].queue), "queued", c) \in InFlight(cs, fr)
         /\ InFlight(ds, gr) = (InFlight(cs, fr) \ {Item(Head(cs[c].queue), "queued", c)})
                                 \cup {Item(Head(cs[c].queue), "start", c)}
<1> DEFINE x == Item(Head(cs[c].queue), "queued", c)
<1>1. cs[c].queue \in Seq(TaskType) /\ StateType(ds, fr) /\ c \in Runners
  BY DEF StateType, ContextType, Runners
<1>2. /\ x \in QueueItems(c, cs[c].queue)
      /\ QueueItems(c, ds[c].queue) = QueueItems(c, cs[c].queue) \ {x}
  BY <1>1, HeadGone
<1> HIDE DEF x
<1>3. InFlight(ds, fr) =
        (InFlight(cs, fr) \ QueueItems(c, cs[c].queue)) \cup QueueItems(c, ds[c].queue)
  BY <1>1, QueueChanges
<1>4. QueueItems(c, cs[c].queue) \subseteq InFlight(cs, fr)
  BY FlightIs
<1>5. InFlight(ds, gr) = InFlight(ds, fr) \cup {Item(gr[c].task, gr[c].at, c)}
  BY <1>1, RunnerStarts
<1> QED BY <1>2, <1>3, <1>4, <1>5 DEF x

-----------------------------------------------------------------------------
(* The contexts.  Counters and flags that a step of a scheduler leaves     *)
(* alone are the same in both.                                             *)
SameFlags(p, q) ==
  /\ p.running = q.running /\ p.join = q.join /\ p.asked = q.asked /\ p.destroyed = q.destroyed
SameAs(p, q) == p.queue = q.queue /\ SameFlags(p, q)

(* Work is started, or finished, on the contexts of S.                     *)
Started(cs, ds, S) ==
  /\ ds \in [Contexts -> ContextType]
  /\ \A c \in Contexts :
       /\ SameAs(ds[c], cs[c]) /\ ds[c].stopped = cs[c].stopped
       /\ ds[c].work = cs[c].work + (IF c \in S THEN 1 ELSE 0)

Finished(cs, ds, S) ==
  /\ ds \in [Contexts -> ContextType]
  /\ \A c \in Contexts :
       /\ SameAs(ds[c], cs[c])
       /\ ds[c].work = cs[c].work - (IF c \in S THEN 1 ELSE 0)
       /\ ds[c].stopped = (cs[c].stopped \/ (c \in S /\ cs[c].work = 1))

ByHandle(im, ex) == Goal(im, [h |-> 0, ex |-> ex, dispatcher |-> FALSE])

LEMMA GoalIs ==
  ASSUME NEW ex \in HandleType, NEW task, task.ex = ex
  PROVE  /\ Executing!Target(Executing!get_associated_executor(ex)) = Goal(impls, task)
         /\ ex # 0 => Executing!Target(ex) = Goal(impls, task)
         /\ Executing!get_associated_executor(ex) \in HandleType \ {0}
BY ExecutorsAssumption DEF HandleType, ImplIds, Goal, Executing!Target, Executing!SystemImpl,
  Executing!Null, Executing!get_associated_executor

(* One field of a context. *)
LEMMA WorkPut ==
  ASSUME NEW p \in ContextType, NEW w \in Int
  PROVE  /\ [p EXCEPT !.work = w] \in ContextType /\ SameAs([p EXCEPT !.work = w], p)
         /\ [p EXCEPT !.work = w].work = w /\ [p EXCEPT !.work = w].stopped = p.stopped
BY DEF ContextType, SameAs, SameFlags

LEMMA StoppedPut ==
  ASSUME NEW p \in ContextType, NEW s \in BOOLEAN
  PROVE  /\ [p EXCEPT !.stopped = s] \in ContextType /\ SameAs([p EXCEPT !.stopped = s], p)
         /\ [p EXCEPT !.stopped = s].work = p.work /\ [p EXCEPT !.stopped = s].stopped = s
BY DEF ContextType, SameAs, SameFlags

LEMMA QueuePut ==
  ASSUME NEW p \in ContextType, NEW q \in Seq(TaskType)
  PROVE  /\ [p EXCEPT !.queue = q] \in ContextType /\ SameFlags([p EXCEPT !.queue = q], p)
         /\ [p EXCEPT !.queue = q].queue = q /\ [p EXCEPT !.queue = q].work = p.work
         /\ [p EXCEPT !.queue = q].stopped = p.stopped
BY DEF ContextType, SameFlags

LEMMA WorkFinishedIs ==
  ASSUME NEW cs \in [Contexts -> ContextType], NEW c \in Contexts
  PROVE  Finished(cs, Executing!work_finished(cs, c), {c})
<1> DEFINE ds == Executing!work_finished(cs, c)
<1>1. /\ cs[c] \in ContextType /\ cs[c].work \in Int /\ cs[c].stopped \in BOOLEAN
      /\ ds = [cs EXCEPT ![c] = [[cs[c] EXCEPT !.work = @ - 1]
                                   EXCEPT !.stopped = @ \/ cs[c].work = 1]]
  BY DEF Executing!work_finished, ContextType
<1> HIDE DEF ds
<1> DEFINE w == cs[c].work - 1
           s == cs[c].stopped \/ cs[c].work = 1
           o == [cs[c] EXCEPT !.work = w]
           p == [o EXCEPT !.stopped = s]
<1>2. /\ p \in ContextType /\ SameAs(p, cs[c]) /\ p.work = cs[c].work - 1
      /\ p.stopped = (cs[c].stopped \/ cs[c].work = 1)
  <2>1. w \in Int /\ s \in BOOLEAN
    BY <1>1
  <2> HIDE DEF w, s
  <2>2. o \in ContextType /\ SameAs(o, cs[c]) /\ o.work = w
    BY <1>1, <2>1, WorkPut
  <2> HIDE DEF o
  <2>3. p \in ContextType /\ SameAs(p, o) /\ p.work = o.work /\ p.stopped = s
    BY <2>1, <2>2, StoppedPut
  <2> HIDE DEF p
  <2>4. SameAs(p, cs[c]) /\ p.work = w
    BY <2>2, <2>3 DEF SameAs, SameFlags
  <2> QED BY <2>3, <2>4 DEF w, s
<1>0. ds = [cs EXCEPT ![c] = p]
  <2>1. o.stopped = cs[c].stopped
    BY <1>1, WorkPut
  <2> QED BY <1>1, <2>1
<1> HIDE DEF p
<1>3. /\ ds \in [Contexts -> ContextType] /\ ds[c] = p
      /\ \A d \in Contexts : d # c => ds[d] = cs[d]
  BY <1>0, <1>2
<1>4. \A d \in Contexts : cs[d].work \in Int /\ cs[d].stopped \in BOOLEAN
  BY DEF ContextType
<1> QED BY <1>2, <1>3, <1>4 DEF Finished, SameAs, SameFlags, ds

LEMMA GuardStartIs ==
  ASSUME NEW cs \in [Contexts -> ContextType], NEW ex, Executing!Target(ex) \in Contexts
  PROVE  Started(cs, Executing!on_work_started(cs, ex), {Executing!Target(ex)} \ {System})
<1> DEFINE c == Executing!Target(ex)
<1>1. \A d \in Contexts : cs[d].work \in Int /\ cs[d] \in ContextType
  BY DEF ContextType
<1>2. CASE c = System
  BY <1>1, <1>2 DEF Executing!on_work_started, Started, SameAs, SameFlags
<1>3. CASE c # System
  <2> DEFINE p == [cs[c] EXCEPT !.work = @ + 1]
             ds == [cs EXCEPT ![c] = p]
  <2>1. Executing!on_work_started(cs, ex) = ds
    BY <1>3 DEF Executing!on_work_started
  <2>2. p \in ContextType /\ SameAs(p, cs[c]) /\ p.work = cs[c].work + 1 /\ p.stopped = cs[c].stopped
    <3>1. cs[c] \in ContextType /\ cs[c].work + 1 \in Int
      BY <1>1
    <3> QED BY <3>1, WorkPut
  <2> HIDE DEF p
  <2>3. /\ ds \in [Contexts -> ContextType] /\ ds[c] = p
        /\ \A d \in Contexts : d # c => ds[d] = cs[d]
    BY <2>2
  <2> HIDE DEF ds, c
  <2>4. Started(cs, ds, {c} \ {System})
    BY <1>1, <1>3, <2>2, <2>3 DEF Started, SameAs, SameFlags
  <2> QED BY <2>1, <2>4 DEF c
<1> QED BY <1>2, <1>3

LEMMA GuardEndIs ==
  ASSUME NEW cs \in [Contexts -> ContextType], NEW ex, Executing!Target(ex) \in Contexts
  PROVE  Finished(cs, Executing!on_work_finished(cs, ex), {Executing!Target(ex)} \ {System})
<1> DEFINE c == Executing!Target(ex)
<1>1. CASE c = System
  <2>1. Executing!on_work_finished(cs, ex) = cs
    BY <1>1 DEF Executing!on_work_finished
  <2>2. \A d \in Contexts : cs[d].work \in Int /\ cs[d].stopped \in BOOLEAN
    BY DEF ContextType
  <2> QED BY <1>1, <2>1, <2>2 DEF Finished, SameAs, SameFlags
<1>2. CASE c # System
  <2>1. Executing!on_work_finished(cs, ex) = Executing!work_finished(cs, c)
    BY <1>2 DEF Executing!on_work_finished
  <2>2. {c} \ {System} = {c}
    BY <1>2
  <2> QED BY <2>1, <2>2, WorkFinishedIs
<1> QED BY <1>1, <1>2

(* What Enqueue does to the contexts. *)
Enqueued(cs, ds, c, task) ==
  /\ ds \in [Contexts -> ContextType]
  /\ \A d \in Contexts :
       /\ SameFlags(ds[d], cs[d]) /\ ds[d].stopped = cs[d].stopped
       /\ ds[d].queue = IF d = c THEN Append(cs[d].queue, task) ELSE cs[d].queue
       /\ ds[d].work = cs[d].work + (IF d = c THEN 1 ELSE 0)

LEMMA EnqueueIs ==
  ASSUME NEW cs \in [Contexts -> ContextType], NEW c \in Contexts, NEW task \in TaskType
  PROVE  Enqueued(cs, Executing!Enqueue(cs, c, task), c, task)
<1> DEFINE q == Append(cs[c].queue, task)
           w == cs[c].work + 1
           o == [cs[c] EXCEPT !.queue = q]
           p == [o EXCEPT !.work = w]
           ds == [cs EXCEPT ![c] = p]
<1>1. \A d \in Contexts : cs[d].work \in Int /\ cs[d] \in ContextType
  BY DEF ContextType
<1>2. Append(cs[c].queue, task) \in Seq(TaskType)
  BY Appended DEF ContextType
<1>3. Executing!Enqueue(cs, c, task) = ds
  <2>1. o.work = cs[c].work
    <3>1. q \in Seq(TaskType) /\ cs[c] \in ContextType
      BY <1>1, <1>2
    <3> HIDE DEF q
    <3> QED BY <3>1, QueuePut
  <2>2. Executing!Enqueue(cs, c, task) = [cs EXCEPT ![c] = [o EXCEPT !.work = @ + 1]]
    BY DEF Executing!Enqueue
  <2> HIDE DEF o
  <2> QED BY <2>1, <2>2
<1>4. /\ p \in ContextType /\ SameFlags(p, cs[c]) /\ p.work = cs[c].work + 1
      /\ p.queue = Append(cs[c].queue, task) /\ p.stopped = cs[c].stopped
  <2>1. w \in Int /\ q \in Seq(TaskType) /\ cs[c] \in ContextType
    BY <1>1, <1>2
  <2> HIDE DEF w, q
  <2>2. o \in ContextType /\ SameFlags(o, cs[c]) /\ o.queue = q /\ o.stopped = cs[c].stopped
    BY <2>1, QueuePut
  <2> HIDE DEF o
  <2>3. p \in ContextType /\ SameAs(p, o) /\ p.work = w /\ p.stopped = o.stopped
    BY <2>1, <2>2, WorkPut
  <2> HIDE DEF p
  <2>4. SameFlags(p, cs[c]) /\ p.queue = q /\ p.stopped = cs[c].stopped
    BY <2>2, <2>3 DEF SameAs, SameFlags
  <2> QED BY <2>3, <2>4 DEF w, q
<1> HIDE DEF p
<1>5. /\ ds \in [Contexts -> ContextType] /\ ds[c] = p
      /\ \A d \in Contexts : d # c => ds[d] = cs[d]
  BY <1>4
<1> HIDE DEF ds, o, q, w
<1>6. ASSUME NEW d \in Contexts
      PROVE  /\ SameFlags(ds[d], cs[d]) /\ ds[d].stopped = cs[d].stopped
             /\ ds[d].queue = IF d = c THEN Append(cs[d].queue, task) ELSE cs[d].queue
             /\ ds[d].work = cs[d].work + (IF d = c THEN 1 ELSE 0)
  <2>1. CASE d = c
    BY <1>4, <1>5, <2>1
  <2>2. CASE d # c
    BY <1>1, <1>5, <2>2 DEF SameFlags
  <2> QED BY <2>1, <2>2
<1> QED BY <1>3, <1>5, <1>6 DEF Enqueued

-----------------------------------------------------------------------------
(* The invariant. *)
Gone(cs) == {c \in Contexts : cs[c].destroyed}

ItemGood(x, im, gone, sub, inv) ==
  /\ x.task.h \in 1 .. sub
  /\ x.task.ex \in ImplIds => im[x.task.ex].target \in OwnContexts
  /\ Goal(im, x.task) \notin gone
  /\ ~x.task.dispatcher => Goal(im, x.task) = Home(x.by) /\ x.at # "reset"
  /\ Waits(x) => inv[x.task.h] = <<>>
  /\ x.at = "queued" => x.by # "main" /\ x.by \notin gone
  /\ x.at = "threw" => x.by \notin Pools /\ x.by # "main"

(* Of a handler there is one item, but for the work_dispatcher that has    *)
(* passed it on and is about to go.                                        *)
FlightGood(I, im, gone, sub, inv) ==
  /\ I \subseteq ItemType /\ IsFiniteSet(I)
  /\ \A x \in I : ItemGood(x, im, gone, sub, inv)
  /\ \A x, y \in I : x.task.h = y.task.h => Apart(x, y)

RunnerGood(f) ==
  /\ f.owns = (f.task.dispatcher /\ f.at \in {"start", "reset", "threw"})
  /\ f.at = "idle" => f = Executing!Idle

RefsGood(im, ha, I) ==
  /\ \A i \in ImplIds : im[i].refs = Cardinality(Holders(ha, i)) + Cardinality(HeldBy(I, i))
  /\ \A v \in Variables : ha[v] \in ImplIds => im[ha[v]].target \in OwnContexts

OwnWork(c, p) == IF c \in Pools /\ p.join = "no" THEN 1 ELSE 0
Reasons(I, im, c) == Cardinality(Mine(I, c)) + Cardinality(Guards(I, im, c))

WorkOn(D, cs, im, I) == \A c \in D : cs[c].work = Reasons(I, im, c) + OwnWork(c, cs[c])
WorkGood(cs, im, I) == WorkOn(Contexts \ Gone(cs), cs, im, I)

PoolGood(p) ==
  /\ p.stopped /\ ~p.asked /\ ~p.destroyed => p.work = 0 /\ p.join # "no"
  /\ p.join = "joined" => ~p.running
  /\ ~p.running => p.stopped

ContextsGood(cs) ==
  /\ \A c \in Contexts : NoDup(cs[c].queue)
  /\ \A c \in Pools : PoolGood(cs[c])
  /\ cs[System].join = "no" /\ ~cs[System].asked /\ ~cs[System].destroyed

InvokedGood(sub, inv) ==
  /\ inv \in [1 .. MaxHandlers -> Seq(Runners)]
  /\ \A h \in 1 .. MaxHandlers : Len(inv[h]) <= 1 /\ (h > sub => inv[h] = <<>>)

ExecWorld(cs, im, ha, fr, sub, inv) ==
  /\ StateType(cs, fr)
  /\ im \in [ImplIds -> ImplType] /\ ha \in [Variables -> HandleType] /\ sub \in 0 .. MaxHandlers
  /\ InvokedGood(sub, inv)
  /\ \A t \in Runners : RunnerGood(fr[t])
  /\ FlightGood(InFlight(cs, fr), im, Gone(cs), sub, inv)
  /\ RefsGood(im, ha, InFlight(cs, fr))
  /\ WorkGood(cs, im, InFlight(cs, fr))
  /\ ContextsGood(cs)

ExecInv == ExecWorld(contexts, impls, handles, frame, submitted, invoked)

(* The counters are numbers. *)
LEMMA CountsAre ==
  ASSUME NEW I, IsFiniteSet(I), NEW im, NEW c, NEW i
  PROVE  /\ Cardinality(Mine(I, c)) \in Nat /\ Cardinality(Guards(I, im, c)) \in Nat
         /\ Cardinality(HeldBy(I, i)) \in Nat
<1>1. PICK x : x \notin I
  <2> DEFINE R == {y \in I : y \notin y}
  <2>1. R \in R <=> R \in I /\ R \notin R
    OBVIOUS
  <2> HIDE DEF R
  <2> QED BY <2>1
<1>2. Counted(I, x, I \cup {x}, im, c, i)
  BY <1>1, ItemAdded
<1> QED BY <1>2 DEF Counted

-----------------------------------------------------------------------------
(* Implementations. *)
ImplsType(im) == im \in [ImplIds -> ImplType]
ImplsKept(im, jm) ==
  /\ ImplsType(jm)
  /\ \A i \in ImplIds : im[i].target \in OwnContexts => jm[i].target = im[i].target

LEMMA KeptGoals ==
  ASSUME NEW I, NEW im, NEW jm, NEW gone, NEW sub, NEW inv,
         FlightGood(I, im, gone, sub, inv), ImplsKept(im, jm)
  PROVE  /\ FlightGood(I, jm, gone, sub, inv)
         /\ \A x \in I : Goal(jm, x.task) = Goal(im, x.task)
         /\ \A c : Guards(I, jm, c) = Guards(I, im, c)
<1>1. \A x \in I : Goal(jm, x.task) = Goal(im, x.task)
  BY DEF FlightGood, ItemGood, Goal, ImplsKept
<1>2. ASSUME NEW x \in I PROVE ItemGood(x, jm, gone, sub, inv)
  <2>1. ItemGood(x, im, gone, sub, inv) /\ Goal(jm, x.task) = Goal(im, x.task)
    BY <1>1 DEF FlightGood
  <2>2. x.task.ex \in ImplIds => jm[x.task.ex].target \in OwnContexts
    BY <2>1 DEF ItemGood, ImplsKept
  <2> QED BY <2>1, <2>2 DEF ItemGood
<1>3. \A c : Guards(I, jm, c) = Guards(I, im, c)
  BY <1>1 DEF Guards
<1> QED BY <1>1, <1>2, <1>3 DEF FlightGood

LEMMA KeptWork ==
  ASSUME NEW I, NEW im, NEW jm, NEW gone, NEW sub, NEW inv, NEW cs,
         FlightGood(I, im, gone, sub, inv), ImplsKept(im, jm), WorkGood(cs, im, I)
  PROVE  WorkGood(cs, jm, I)
<1>1. \A c : Guards(I, jm, c) = Guards(I, im, c)
  BY KeptGoals
<1> QED BY <1>1 DEF WorkGood, WorkOn, Reasons

(* References are added to, or taken from, an implementation. *)
Recounted(im, jm, e, n) ==
  /\ ImplsType(jm)
  /\ \A i \in ImplIds : /\ jm[i].target = im[i].target
                        /\ jm[i].refs = im[i].refs + (IF i = e THEN n ELSE 0)

LEMMA RefsPut ==
  ASSUME NEW im, ImplsType(im), NEW e \in ImplIds, NEW n \in Int, NEW r \in Int,
         r = im[e].refs + n, NEW jm, jm = [im EXCEPT ![e].refs = r]
  PROVE  Recounted(im, jm, e, n)
<1>1. \A i \in ImplIds : im[i] \in ImplType /\ im[i].refs \in Int
  BY DEF ImplsType, ImplType
<1> DEFINE p == [im[e] EXCEPT !.refs = r]
<1>2. p \in ImplType /\ p.target = im[e].target /\ p.refs = im[e].refs + n
  BY <1>1 DEF ImplType
<1>3. jm = [im EXCEPT ![e] = p]
  OBVIOUS
<1> HIDE DEF p
<1>4. /\ jm \in [ImplIds -> ImplType] /\ jm[e] = p
      /\ \A i \in ImplIds : i # e => jm[i] = im[i]
  BY <1>2, <1>3 DEF ImplsType
<1> QED BY <1>1, <1>2, <1>4 DEF Recounted, ImplsType

LEMMA CloneIs ==
  ASSUME NEW im, ImplsType(im), NEW e
  PROVE  Recounted(im, Executing!clone(im, e), e, 1)
<1>1. \A i \in ImplIds : im[i].refs \in Int
  BY DEF ImplsType, ImplType
<1>2. CASE e \in ImplIds
  <2> DEFINE jm == Executing!clone(im, e)
             r == im[e].refs + 1
  <2>1. jm = [im EXCEPT ![e].refs = r]
    BY <1>2 DEF Executing!clone, Executing!Ids, ImplIds
  <2>2. r \in Int /\ r = im[e].refs + 1 /\ 1 \in Int
    BY <1>1, <1>2
  <2> HIDE DEF jm, r
  <2>3. Recounted(im, jm, e, 1)
    BY <1>2, <2>1, <2>2, RefsPut
  <2> QED BY <2>3 DEF jm
<1>3. CASE e \notin ImplIds
  BY <1>1, <1>3 DEF Executing!clone, Executing!Ids, ImplIds, Recounted
<1> QED BY <1>2, <1>3

LEMMA DestroyIs ==
  ASSUME NEW im, ImplsType(im), NEW e
  PROVE  Recounted(im, Executing!destroy(im, e), e, -1)
<1>1. \A i \in ImplIds : im[i].refs \in Int
  BY DEF ImplsType, ImplType
<1>2. CASE e \in ImplIds
  <2> DEFINE jm == Executing!destroy(im, e)
             r == im[e].refs - 1
  <2>1. jm = [im EXCEPT ![e].refs = r]
    BY <1>2 DEF Executing!destroy, Executing!Ids, ImplIds
  <2>2. r \in Int /\ r = im[e].refs + (-1) /\ -1 \in Int
    BY <1>1, <1>2
  <2> HIDE DEF jm, r
  <2>3. Recounted(im, jm, e, -1)
    BY <1>2, <2>1, <2>2, RefsPut
  <2> QED BY <2>3 DEF jm
<1>3. CASE e \notin ImplIds
  BY <1>1, <1>3 DEF Executing!destroy, Executing!Ids, ImplIds, Recounted
<1> QED BY <1>2, <1>3

(* A task comes with its references, and goes with them. *)
TaskCounted(im, jm, task) ==
  /\ ImplsType(jm)
  /\ \A i \in ImplIds : /\ jm[i].target = im[i].target
                        /\ jm[i].refs = im[i].refs + Executing!Copies(task, i)
TaskUncounted(im, jm, task) ==
  /\ ImplsType(jm)
  /\ \A i \in ImplIds : /\ jm[i].target = im[i].target
                        /\ jm[i].refs = im[i].refs - Executing!Copies(task, i)

LEMMA CloneTaskIs ==
  ASSUME NEW im, ImplsType(im), NEW task, task.dispatcher \in BOOLEAN
  PROVE  TaskCounted(im, Executing!cloneTask(im, task), task)
<1> DEFINE one == Executing!clone(im, task.ex)
           two == Executing!clone(one, task.ex)
<1>1. Recounted(im, one, task.ex, 1)
  BY CloneIs
<1>2. Executing!cloneTask(im, task) = IF task.dispatcher THEN two ELSE one
  BY DEF Executing!cloneTask
<1> HIDE DEF one
<1>3. Recounted(one, two, task.ex, 1)
  BY <1>1, CloneIs DEF Recounted
<1> HIDE DEF two
<1>4. \A i \in ImplIds : im[i].refs \in Int
  BY DEF ImplsType, ImplType
<1>5. CASE task.dispatcher
  BY <1>1, <1>2, <1>3, <1>4, <1>5 DEF Recounted, TaskCounted, Executing!Copies
<1>6. CASE ~task.dispatcher
  BY <1>1, <1>2, <1>4, <1>6 DEF Recounted, TaskCounted, Executing!Copies
<1> QED BY <1>5, <1>6

LEMMA DestroyTaskIs ==
  ASSUME NEW im, ImplsType(im), NEW task, task.dispatcher \in BOOLEAN
  PROVE  TaskUncounted(im, Executing!destroyTask(im, task), task)
<1> DEFINE one == Executing!destroy(im, task.ex)
           two == Executing!destroy(one, task.ex)
<1>1. Recounted(im, one, task.ex, -1)
  BY DestroyIs
<1>2. Executing!destroyTask(im, task) = IF task.dispatcher THEN two ELSE one
  BY DEF Executing!destroyTask
<1> HIDE DEF one
<1>3. Recounted(one, two, task.ex, -1)
  BY <1>1, DestroyIs DEF Recounted
<1> HIDE DEF two
<1>4. \A i \in ImplIds : im[i].refs \in Int
  BY DEF ImplsType, ImplType
<1>5. CASE task.dispatcher
  BY <1>1, <1>2, <1>3, <1>4, <1>5 DEF Recounted, TaskUncounted, Executing!Copies
<1>6. CASE ~task.dispatcher
  BY <1>1, <1>2, <1>4, <1>6 DEF Recounted, TaskUncounted, Executing!Copies
<1> QED BY <1>5, <1>6

LEMMA CountedKept ==
  ASSUME NEW im, NEW jm, NEW task, TaskCounted(im, jm, task) \/ TaskUncounted(im, jm, task)
  PROVE  ImplsKept(im, jm)
BY DEF TaskCounted, TaskUncounted, ImplsKept

-----------------------------------------------------------------------------
(* Assignments. *)
LEMMA HoldersAre ==
  ASSUME NEW ha, NEW i
  PROVE  IsFiniteSet(Holders(ha, i)) /\ Cardinality(Holders(ha, i)) \in Nat
<1>1. IsFiniteSet(Holders(ha, i))
  BY FS_Subset, ExecutorsAssumption DEF Holders
<1> QED BY <1>1, FS_CardinalityType

HoldersMoved(ha, hb, v, e, i) ==
  Cardinality(Holders(hb, i)) =
    Cardinality(Holders(ha, i)) - (IF ha[v] = i THEN 1 ELSE 0) + (IF e = i THEN 1 ELSE 0)

LEMMA HolderSet ==
  ASSUME NEW ha \in [Variables -> HandleType], NEW v \in Variables, NEW e \in HandleType,
         NEW i, NEW hb, hb = [ha EXCEPT ![v] = e]
  PROVE  HoldersMoved(ha, hb, v, e, i)
<1> DEFINE H == Holders(ha, i)
<1>1. IsFiniteSet(H) /\ Cardinality(H) \in Nat
  BY HoldersAre
<1>2. v \in H <=> ha[v] = i
  BY DEF Holders
<1>3. Holders(hb, i) = IF e = i THEN H \cup {v} ELSE H \ {v}
  BY DEF Holders
<1> HIDE DEF H, HoldersMoved
<1>4. CASE e = i
  <2>1. Cardinality(H \cup {v}) = IF v \in H THEN Cardinality(H) ELSE Cardinality(H) + 1
    BY <1>1, FS_AddElement
  <2>2. Cardinality(Holders(hb, i)) = IF ha[v] = i THEN Cardinality(H) ELSE Cardinality(H) + 1
    BY <1>2, <1>3, <1>4, <2>1
  <2>3. CASE ha[v] = i
    BY <1>1, <1>4, <2>2, <2>3 DEF H, HoldersMoved
  <2>4. CASE ha[v] # i
    BY <1>1, <1>4, <2>2, <2>4 DEF H, HoldersMoved
  <2> QED BY <2>3, <2>4
<1>5. CASE e # i
  <2>1. Cardinality(H \ {v}) = IF v \in H THEN Cardinality(H) - 1 ELSE Cardinality(H)
    BY <1>1, FS_RemoveElement
  <2>2. Cardinality(Holders(hb, i)) = IF ha[v] = i THEN Cardinality(H) - 1 ELSE Cardinality(H)
    BY <1>2, <1>3, <1>5, <2>1
  <2>3. CASE ha[v] = i
    BY <1>1, <1>5, <2>2, <2>3 DEF H, HoldersMoved
  <2>4. CASE ha[v] # i
    BY <1>1, <1>5, <2>2, <2>4 DEF H, HoldersMoved
  <2> QED BY <2>3, <2>4
<1> QED BY <1>4, <1>5

(* One variable lets go of its implementation and holds another. *)
LEMMA Reassigned ==
  ASSUME NEW ha \in [Variables -> HandleType], NEW v \in Variables, NEW e \in HandleType,
         NEW hb, hb = [ha EXCEPT ![v] = e], NEW I, IsFiniteSet(I),
         NEW im, ImplsType(im), RefsGood(im, ha, I), NEW jm, Recounted(im, jm, ha[v], -1),
         NEW km, Recounted(jm, km, e, 1),
         e \in ImplIds => im[e].target \in OwnContexts
  PROVE  RefsGood(km, hb, I) /\ ImplsKept(im, km) /\ hb \in [Variables -> HandleType]
<1>1. ASSUME NEW i \in ImplIds
      PROVE  km[i].refs = Cardinality(Holders(hb, i)) + Cardinality(HeldBy(I, i))
  <2>0. jm[i].refs = im[i].refs + (IF i = ha[v] THEN -1 ELSE 0)
    BY DEF Recounted
  <2>1. km[i].refs = (im[i].refs + (IF i = ha[v] THEN -1 ELSE 0)) + (IF i = e THEN 1 ELSE 0)
    BY <2>0 DEF Recounted
  <2>2. im[i].refs = Cardinality(Holders(ha, i)) + Cardinality(HeldBy(I, i))
    BY DEF RefsGood
  <2>3. Cardinality(Holders(ha, i)) \in Nat /\ Cardinality(HeldBy(I, i)) \in Nat
    BY HoldersAre, CountsAre
  <2>4. Cardinality(Holders(hb, i)) =
          Cardinality(Holders(ha, i)) - (IF ha[v] = i THEN 1 ELSE 0) + (IF e = i THEN 1 ELSE 0)
    <3>1. HoldersMoved(ha, hb, v, e, i)
      BY HolderSet
    <3> QED BY <3>1 DEF HoldersMoved
  <2>5. CASE i = ha[v] /\ i = e
    BY <2>1, <2>2, <2>3, <2>4, <2>5
  <2>6. CASE i = ha[v] /\ i # e
    BY <2>1, <2>2, <2>3, <2>4, <2>6
  <2>7. CASE i # ha[v] /\ i = e
    BY <2>1, <2>2, <2>3, <2>4, <2>7
  <2>8. CASE i # ha[v] /\ i # e
    BY <2>1, <2>2, <2>3, <2>4, <2>8
  <2> QED BY <2>5, <2>6, <2>7, <2>8
<1>2. ImplsKept(im, km) /\ \A i \in ImplIds : km[i].target = im[i].target
  BY DEF Recounted, ImplsKept
<1>3. hb \in [Variables -> HandleType] /\ \A w \in Variables : hb[w] = IF w = v THEN e ELSE ha[w]
  OBVIOUS
<1>4. \A w \in Variables : hb[w] \in ImplIds => km[hb[w]].target \in OwnContexts
  BY <1>2, <1>3 DEF RefsGood
<1> QED BY <1>1, <1>2, <1>3, <1>4 DEF RefsGood

LEMMA NotCounted ==
  ASSUME NEW im, ImplsType(im), NEW e, e \notin ImplIds, NEW n
  PROVE  Recounted(im, im, e, n)
<1>1. \A i \in ImplIds : im[i].refs \in Int
  BY DEF ImplsType, ImplType
<1> QED BY <1>1 DEF Recounted

LEMMA AssignKeeps ==
  ASSUME NEW cs, NEW im, NEW ha, NEW fr, NEW sub, NEW inv, ExecWorld(cs, im, ha, fr, sub, inv),
         NEW jm, NEW hb, ImplsKept(im, jm), hb \in [Variables -> HandleType],
         RefsGood(jm, hb, InFlight(cs, fr))
  PROVE  ExecWorld(cs, jm, hb, fr, sub, inv)
<1>1. FlightGood(InFlight(cs, fr), jm, Gone(cs), sub, inv)
  BY KeptGoals DEF ExecWorld
<1>2. WorkGood(cs, jm, InFlight(cs, fr))
  BY KeptWork DEF ExecWorld
<1>3. jm \in [ImplIds -> ImplType]
  BY DEF ImplsKept, ImplsType
<1> QED BY <1>1, <1>2, <1>3 DEF ExecWorld

LEMMA TargetStep ==
  ASSUME ExecInv, NEW v \in Variables, NEW c \in Contexts, Executing!assign_target(v, c)
  PROVE  ExecInv'
<1> DEFINE I == InFlight(contexts, frame)
<1>1. /\ contexts' = contexts /\ frame' = frame /\ submitted' = submitted /\ invoked' = invoked
      /\ ImplsType(impls) /\ handles \in [Variables -> HandleType] /\ IsFiniteSet(I)
      /\ RefsGood(impls, handles, I)
  BY DEF Executing!assign_target, ExecInv, ExecWorld, ImplsType, FlightGood
<1> HIDE DEF I
<1>2. CASE c = System
  <2>1. /\ impls' = Executing!destroy(impls, handles[v])
        /\ handles' = [handles EXCEPT ![v] = Executing!SystemImpl]
    BY <1>2 DEF Executing!assign_target
  <2>2. Executing!SystemImpl \in HandleType /\ Executing!SystemImpl \notin ImplIds
    BY ExecutorsAssumption DEF Executing!SystemImpl, HandleType, ImplIds
  <2>3. Recounted(impls, impls', handles[v], -1)
    BY <1>1, <2>1, DestroyIs
  <2>4. Recounted(impls', impls', Executing!SystemImpl, 1)
    BY <2>2, <2>3, NotCounted DEF Recounted
  <2>5. /\ RefsGood(impls', handles', I) /\ ImplsKept(impls, impls')
        /\ handles' \in [Variables -> HandleType]
    BY <1>1, <2>1, <2>2, <2>3, <2>4, Reassigned
  <2> QED BY <1>1, <2>5, AssignKeeps DEF ExecInv, I
<1>3. CASE c # System
  <2> DEFINE i == CHOOSE j \in Executing!Free : TRUE
             p == [target |-> c, refs |-> 1]
             km == [impls EXCEPT ![i] = p]
  <2>1. /\ impls' = Executing!destroy(km, handles[v])
        /\ handles' = [handles EXCEPT ![v] = i]
        /\ i \in Executing!Free
    BY <1>3 DEF Executing!assign_target
  <2> HIDE DEF i
  <2>2. i \in ImplIds /\ impls[i].refs = 0 /\ impls[i].target = "none" /\ i \in HandleType
    BY <2>1, ExecutorsAssumption DEF Executing!Free, Executing!Ids, ImplIds, HandleType
  <2>3. p \in ImplType /\ p.target = c /\ p.refs = 1 /\ c \in OwnContexts
    BY <1>3 DEF ImplType, OwnContexts
  <2> HIDE DEF p
  <2>4. ImplsType(km) /\ \A j \in ImplIds : km[j] = IF j = i THEN p ELSE impls[j]
    BY <1>1, <2>2, <2>3 DEF ImplsType
  <2> HIDE DEF km
  <2>5. Recounted(km, impls', handles[v], -1)
    BY <2>1, <2>4, DestroyIs
  <2>6. handles[v] # i
    BY <1>1, <2>2, ExecutorsAssumption DEF RefsGood, OwnContexts
  <2>7. ImplsKept(impls, impls')
    BY <2>2, <2>4, <2>5, ExecutorsAssumption DEF Recounted, ImplsKept, OwnContexts
  <2>8. handles' \in [Variables -> HandleType] /\ \A w \in Variables : handles'[w] = IF w = v THEN i ELSE handles[w]
    BY <1>1, <2>1, <2>2
  <2>9. ASSUME NEW j \in ImplIds
        PROVE  impls'[j].refs = Cardinality(Holders(handles', j)) + Cardinality(HeldBy(I, j))
    <3>1. HoldersMoved(handles, handles', v, i, j)
      BY <1>1, <2>1, <2>2, HolderSet
    <3>2. Cardinality(Holders(handles, j)) \in Nat /\ Cardinality(HeldBy(I, j)) \in Nat
      BY <1>1, HoldersAre, CountsAre
    <3>3. impls[j].refs = Cardinality(Holders(handles, j)) + Cardinality(HeldBy(I, j))
      BY <1>1 DEF RefsGood
    <3>4. impls'[j].refs = km[j].refs + (IF j = handles[v] THEN -1 ELSE 0)
      BY <2>5 DEF Recounted
    <3>5. CASE j = i
      <4>1. impls'[j].refs = 1 + 0
        BY <2>3, <2>4, <2>6, <3>4, <3>5
      <4>2. Cardinality(Holders(handles, j)) = 0 /\ Cardinality(HeldBy(I, j)) = 0
        BY <2>2, <3>2, <3>3, <3>5
      <4> QED BY <2>6, <3>1, <3>5, <4>1, <4>2 DEF HoldersMoved
    <3>6. CASE j # i /\ j = handles[v]
      BY <2>4, <3>1, <3>2, <3>3, <3>4, <3>6 DEF HoldersMoved
    <3>7. CASE j # i /\ j # handles[v]
      BY <2>4, <3>1, <3>2, <3>3, <3>4, <3>7 DEF HoldersMoved
    <3> QED BY <3>5, <3>6, <3>7
  <2>10. \A w \in Variables : handles'[w] \in ImplIds => impls'[handles'[w]].target \in OwnContexts
    <3> SUFFICES ASSUME NEW w \in Variables, handles'[w] \in ImplIds
                 PROVE  impls'[handles'[w]].target \in OwnContexts
      OBVIOUS
    <3>1. CASE w = v
      BY <2>2, <2>3, <2>4, <2>5, <2>8, <3>1 DEF Recounted
    <3>2. CASE w # v
      BY <1>1, <2>7, <2>8, <3>2 DEF RefsGood, ImplsKept
    <3> QED BY <3>1, <3>2
  <2>11. RefsGood(impls', handles', I)
    BY <2>9, <2>10 DEF RefsGood
  <2> QED BY <1>1, <2>7, <2>8, <2>11, AssignKeeps DEF ExecInv, I
<1> QED BY <1>2, <1>3

LEMMA CopyStep ==
  ASSUME ExecInv, NEW v \in Variables, NEW w \in Variables, Executing!assign_copy(v, w)
  PROVE  ExecInv'
<1> DEFINE I == InFlight(contexts, frame)
           jm == Executing!destroy(impls, handles[v])
<1>1. /\ contexts' = contexts /\ frame' = frame /\ submitted' = submitted /\ invoked' = invoked
      /\ ImplsType(impls) /\ handles \in [Variables -> HandleType] /\ IsFiniteSet(I)
      /\ RefsGood(impls, handles, I)
      /\ impls' = Executing!clone(jm, handles[w])
      /\ handles' = [handles EXCEPT ![v] = handles[w]]
  BY DEF Executing!assign_copy, ExecInv, ExecWorld, ImplsType, FlightGood
<1>2. Recounted(impls, jm, handles[v], -1)
  BY <1>1, DestroyIs
<1> HIDE DEF I, jm
<1>3. Recounted(jm, impls', handles[w], 1)
  BY <1>1, <1>2, CloneIs DEF Recounted
<1>4. handles[w] \in HandleType /\ (handles[w] \in ImplIds => impls[handles[w]].target \in OwnContexts)
  BY <1>1 DEF RefsGood
<1>5. RefsGood(impls', handles', I) /\ ImplsKept(impls, impls') /\ handles' \in [Variables -> HandleType]
  BY <1>1, <1>2, <1>3, <1>4, Reassigned
<1> QED BY <1>1, <1>5, AssignKeeps DEF ExecInv, I

LEMMA NullStep ==
  ASSUME ExecInv, NEW v \in Variables, Executing!assign_null(v)
  PROVE  ExecInv'
<1> DEFINE I == InFlight(contexts, frame)
<1>1. /\ contexts' = contexts /\ frame' = frame /\ submitted' = submitted /\ invoked' = invoked
      /\ ImplsType(impls) /\ handles \in [Variables -> HandleType] /\ IsFiniteSet(I)
      /\ RefsGood(impls, handles, I)
      /\ impls' = Executing!destroy(impls, handles[v])
      /\ handles' = [handles EXCEPT ![v] = 0]
  BY DEF Executing!assign_null, Executing!Null, ExecInv, ExecWorld, ImplsType, FlightGood
<1> HIDE DEF I
<1>2. Recounted(impls, impls', handles[v], -1)
  BY <1>1, DestroyIs
<1>3. 0 \in HandleType /\ 0 \notin ImplIds
  BY ExecutorsAssumption DEF HandleType, ImplIds
<1>4. Recounted(impls', impls', 0, 1)
  BY <1>2, <1>3, NotCounted DEF Recounted
<1>5. RefsGood(impls', handles', I) /\ ImplsKept(impls, impls') /\ handles' \in [Variables -> HandleType]
  BY <1>1, <1>2, <1>3, <1>4, Reassigned
<1> QED BY <1>1, <1>5, AssignKeeps DEF ExecInv, I

(* A move: as if it were a copy, after which the other one lets go.        *)
LEMMA MoveStep ==
  ASSUME ExecInv, NEW v \in Variables, NEW w \in Variables, Executing!assign_move(v, w)
  PROVE  ExecInv'
<1> DEFINE I == InFlight(contexts, frame)
           ha == [handles EXCEPT ![v] = handles[w]]
           km == Executing!clone(impls', handles[w])
<1>1. /\ contexts' = contexts /\ frame' = frame /\ submitted' = submitted /\ invoked' = invoked
      /\ ImplsType(impls) /\ handles \in [Variables -> HandleType] /\ IsFiniteSet(I)
      /\ RefsGood(impls, handles, I)
      /\ impls' = Executing!destroy(impls, handles[v])
      /\ handles' = [ha EXCEPT ![w] = 0]
  BY DEF Executing!assign_move, Executing!Null, ExecInv, ExecWorld, ImplsType, FlightGood
<1> HIDE DEF I
<1>2. Recounted(impls, impls', handles[v], -1)
  BY <1>1, DestroyIs
<1>3. Recounted(impls', km, handles[w], 1)
  BY <1>2, CloneIs DEF Recounted
<1>4. handles[w] \in HandleType /\ (handles[w] \in ImplIds => impls[handles[w]].target \in OwnContexts)
  BY <1>1 DEF RefsGood
<1>5. ha = [handles EXCEPT ![v] = handles[w]] /\ ha[w] = handles[w]
  BY <1>1
<1> HIDE DEF ha, km
<1>6. RefsGood(km, ha, I) /\ ImplsKept(impls, km) /\ ha \in [Variables -> HandleType]
  BY <1>1, <1>2, <1>3, <1>4, <1>5, Reassigned
<1>7. \A i \in ImplIds : impls'[i].refs \in Int
  BY <1>2 DEF Recounted, ImplsType, ImplType
<1>8. Recounted(km, impls', ha[w], -1) /\ ImplsType(km)
  BY <1>2, <1>3, <1>5, <1>7 DEF Recounted
<1>9. 0 \in HandleType /\ 0 \notin ImplIds
  BY ExecutorsAssumption DEF HandleType, ImplIds
<1>10. Recounted(impls', impls', 0, 1)
  BY <1>2, <1>9, NotCounted DEF Recounted
<1>11. RefsGood(impls', handles', I) /\ ImplsKept(km, impls') /\ handles' \in [Variables -> HandleType]
  BY <1>1, <1>6, <1>8, <1>9, <1>10, Reassigned
<1>12. ImplsKept(impls, impls')
  BY <1>6, <1>11 DEF ImplsKept
<1> QED BY <1>1, <1>11, <1>12, AssignKeeps DEF ExecInv, I

-----------------------------------------------------------------------------
(* What items come and go. *)
LEMMA FlightAdds ==
  ASSUME NEW I, NEW im, NEW gone, NEW sub, NEW inv, FlightGood(I, im, gone, sub, inv),
         NEW y \in ItemType, ItemGood(y, im, gone, sub, inv),
         \A x \in I : x.task.h = y.task.h => Apart(x, y)
  PROVE  FlightGood(I \cup {y}, im, gone, sub, inv)
<1>1. IsFiniteSet(I \cup {y})
  BY FS_AddElement DEF FlightGood
<1>2. \A x, z \in I \cup {y} : x.task.h = z.task.h => Apart(x, z)
  BY DEF FlightGood, Apart
<1> QED BY <1>1, <1>2 DEF FlightGood

LEMMA FlightLeaves ==
  ASSUME NEW I, NEW im, NEW gone, NEW sub, NEW inv, FlightGood(I, im, gone, sub, inv),
         NEW J, J \subseteq I
  PROVE  FlightGood(J, im, gone, sub, inv)
<1>1. IsFiniteSet(J)
  BY FS_Subset DEF FlightGood
<1> QED BY <1>1 DEF FlightGood

(* A handler that is new. *)
LEMMA FlightArrives ==
  ASSUME NEW I, NEW im, NEW gone, NEW sub \in Nat, NEW inv, FlightGood(I, im, gone, sub, inv),
         NEW y \in ItemType, y.task.h = sub + 1, ItemGood(y, im, gone, sub + 1, inv)
  PROVE  FlightGood(I \cup {y}, im, gone, sub + 1, inv) /\ y \notin I
<1>1. \A x \in I : x.task.h \in 1 .. sub
  BY DEF FlightGood, ItemGood
<1>2. \A x \in I : x.task.h # y.task.h
  BY <1>1
<1>3. ASSUME NEW x \in I PROVE ItemGood(x, im, gone, sub + 1, inv)
  BY <1>1 DEF FlightGood, ItemGood
<1>4. FlightGood(I, im, gone, sub + 1, inv)
  BY <1>3 DEF FlightGood
<1> QED BY <1>2, <1>4, FlightAdds

(* A thread takes a step with a task. *)
LEMMA FlightMoves ==
  ASSUME NEW I, NEW im, NEW gone, NEW sub, NEW inv, FlightGood(I, im, gone, sub, inv),
         NEW x \in I, NEW y \in ItemType, y.task = x.task, Passing(x) => Passing(y),
         NEW inw, ItemGood(y, im, gone, sub, inw),
         \A h \in 1 .. sub : h # x.task.h => inw[h] = inv[h],
         Passing(x) => inw[x.task.h] = inv[x.task.h]
  PROVE  FlightGood((I \ {x}) \cup {y}, im, gone, sub, inw) /\ y \notin I \ {x}
<1> DEFINE J == I \ {x}
<1>1. \A z \in J : z.task.h = x.task.h =>
         (Passing(z) /\ ~x.task.dispatcher) \/ (Passing(x) /\ ~z.task.dispatcher)
  BY DEF FlightGood, Apart
<1>2. \A z \in J : z.task.h = x.task.h => Apart(z, y)
  BY <1>1 DEF Apart
<1>3. y \notin J
  <2> SUFFICES ASSUME y \in J PROVE FALSE
    OBVIOUS
  <2>1. (Passing(y) /\ ~x.task.dispatcher) \/ (Passing(x) /\ ~y.task.dispatcher)
    BY <1>1
  <2> QED BY <2>1 DEF Passing
<1>4. ASSUME NEW z \in J PROVE ItemGood(z, im, gone, sub, inw)
  <2>1. ItemGood(z, im, gone, sub, inv)
    BY DEF FlightGood
  <2>2. CASE z.task.h # x.task.h
    <3>1. inw[z.task.h] = inv[z.task.h]
      BY <2>1, <2>2 DEF ItemGood
    <3> QED BY <2>1, <3>1 DEF ItemGood
  <2>3. CASE z.task.h = x.task.h /\ Passing(x)
    <3>1. inw[z.task.h] = inv[z.task.h]
      BY <2>3
    <3> QED BY <2>1, <3>1 DEF ItemGood
  <2>4. CASE z.task.h = x.task.h /\ Passing(z)
    <3>1. ~Waits(z)
      BY <2>4 DEF Passing, Waits
    <3> QED BY <2>1, <3>1 DEF ItemGood
  <2> QED BY <1>1, <2>2, <2>3, <2>4
<1>5. J \subseteq ItemType /\ IsFiniteSet(J) /\ \A z, w \in J : z.task.h = w.task.h => Apart(z, w)
  BY FS_RemoveElement DEF FlightGood
<1> HIDE DEF J
<1>6. FlightGood(J, im, gone, sub, inw)
  BY <1>4, <1>5 DEF FlightGood
<1>7. FlightGood(J \cup {y}, im, gone, sub, inw)
  BY <1>2, <1>6, FlightAdds
<1> QED BY <1>3, <1>7 DEF J

-----------------------------------------------------------------------------
(* Work, and when it keeps a pool. *)
Ready(p) == p.stopped => p.asked \/ p.destroyed

LEMMA PoolGrows ==
  ASSUME NEW p \in ContextType, PoolGood(p), NEW q \in ContextType, SameFlags(q, p),
         q.stopped = p.stopped, q.work = p.work \/ Ready(p)
  PROVE  PoolGood(q)
BY DEF PoolGood, SameFlags, Ready, ContextType

LEMMA PoolShrinks ==
  ASSUME NEW p \in ContextType, PoolGood(p), NEW q \in ContextType, SameFlags(q, p),
         q.work = p.work - 1, q.stopped = (p.stopped \/ p.work = 1),
         q.work >= 0, q.work = 0 => q.join # "no"
  PROVE  PoolGood(q)
<1>1. p.work \in Int /\ q.work \in Int
  BY DEF ContextType
<1>2. q.stopped /\ ~q.asked /\ ~q.destroyed => q.work = 0
  <2> SUFFICES ASSUME q.stopped, ~q.asked, ~q.destroyed PROVE q.work = 0
    OBVIOUS
  <2>1. ~p.asked /\ ~p.destroyed
    BY DEF SameFlags
  <2>2. CASE p.work = 1
    BY <1>1, <2>2
  <2>3. CASE p.stopped
    <3>1. p.work = 0
      BY <2>1, <2>3 DEF PoolGood
    <3> QED BY <1>1, <3>1
  <2>4. p.stopped \/ p.work = 1
    OBVIOUS
  <2> QED BY <2>2, <2>3, <2>4
<1>3. q.join = "joined" => ~q.running
  BY DEF PoolGood, SameFlags
<1>4. ~q.running => q.stopped
  BY DEF PoolGood, SameFlags
<1> QED BY <1>2, <1>3, <1>4 DEF PoolGood

LEMMA ReasonsAre ==
  ASSUME NEW I, IsFiniteSet(I), NEW im, NEW c
  PROVE  Reasons(I, im, c) \in Nat
BY CountsAre DEF Reasons

LEMMA ReasonsAdded ==
  ASSUME NEW I, IsFiniteSet(I), NEW x, x \notin I, NEW im, NEW c
  PROVE  Reasons(I \cup {x}, im, c) = Reasons(I, im, c) + TaskOf(x, c) + GuardOf(x, im, c)
<1>1. Counted(I, x, I \cup {x}, im, c, 0)
  BY ItemAdded
<1> QED BY <1>1 DEF Counted, Reasons

LEMMA ReasonsRemoved ==
  ASSUME NEW I, IsFiniteSet(I), NEW x \in I, NEW im, NEW c
  PROVE  Reasons(I, im, c) = Reasons(I \ {x}, im, c) + TaskOf(x, c) + GuardOf(x, im, c)
<1>1. Counted(I \ {x}, x, I, im, c, 0)
  BY ItemRemoved
<1> QED BY <1>1 DEF Counted, Reasons

LEMMA ReasonsMoved ==
  ASSUME NEW I, IsFiniteSet(I), NEW x \in I, NEW y, y \notin I \ {x}, y.by = x.by, NEW im, NEW c
  PROVE  Reasons((I \ {x}) \cup {y}, im, c) + GuardOf(x, im, c) = Reasons(I, im, c) + GuardOf(y, im, c)
<1> DEFINE J == I \ {x}
<1>1. Counted(J, x, I, im, c, 0)
  BY ItemRemoved
<1>2. IsFiniteSet(J) /\ y \notin J
  BY FS_RemoveElement
<1> HIDE DEF J
<1>3. Counted(J, y, J \cup {y}, im, c, 0)
  BY <1>2, ItemAdded
<1>4. TaskOf(x, c) = TaskOf(y, c)
  BY DEF TaskOf
<1> QED BY <1>1, <1>3, <1>4 DEF Counted, Reasons, J

LEMMA WorkUp ==
  ASSUME NEW D, D \subseteq Contexts, NEW cs \in [Contexts -> ContextType],
         NEW ds \in [Contexts -> ContextType], NEW im, NEW I, NEW J, WorkOn(D, cs, im, I),
         IsFiniteSet(I), IsFiniteSet(J),
         \A c \in D : /\ SameFlags(ds[c], cs[c]) /\ ds[c].stopped = cs[c].stopped
                      /\ ds[c].work - cs[c].work = Reasons(J, im, c) - Reasons(I, im, c)
                      /\ (ds[c].work = cs[c].work \/ c \notin Pools \/ Ready(cs[c]))
  PROVE  WorkOn(D, ds, im, J) /\ \A c \in D \cap Pools : PoolGood(cs[c]) => PoolGood(ds[c])
<1> SUFFICES ASSUME NEW c \in D
             PROVE  /\ ds[c].work = Reasons(J, im, c) + OwnWork(c, ds[c])
                    /\ c \in Pools /\ PoolGood(cs[c]) => PoolGood(ds[c])
  BY DEF WorkOn
<1>1. /\ cs[c] \in ContextType /\ ds[c] \in ContextType /\ cs[c].work \in Int /\ ds[c].work \in Int
      /\ Reasons(I, im, c) \in Nat /\ Reasons(J, im, c) \in Nat
  BY ReasonsAre DEF ContextType
<1>2. OwnWork(c, ds[c]) = OwnWork(c, cs[c]) /\ OwnWork(c, cs[c]) \in Int
  BY DEF OwnWork, SameFlags
<1>3. cs[c].work = Reasons(I, im, c) + OwnWork(c, cs[c])
  BY DEF WorkOn
<1>4. ds[c].work = Reasons(J, im, c) + OwnWork(c, ds[c])
  BY <1>1, <1>2, <1>3
<1>5. c \in Pools /\ PoolGood(cs[c]) => PoolGood(ds[c])
  BY <1>1, PoolGrows
<1> QED BY <1>4, <1>5

(* Of I there is one reason less in J, on the contexts of S.               *)
Fewer(D, im, I, J, S) ==
  \A c \in D : Reasons(I, im, c) = Reasons(J, im, c) + (IF c \in S THEN 1 ELSE 0)

LEMMA WorkDown ==
  ASSUME NEW D, D \subseteq Contexts, NEW cs \in [Contexts -> ContextType], NEW S,
         NEW ds, Finished(cs, ds, S), NEW im, NEW I, NEW J, WorkOn(D, cs, im, I),
         IsFiniteSet(I), IsFiniteSet(J), Fewer(D, im, I, J, S)
  PROVE  WorkOn(D, ds, im, J) /\ \A c \in D \cap Pools : PoolGood(cs[c]) => PoolGood(ds[c])
<1>1. ASSUME NEW c \in D
      PROVE  /\ cs[c] \in ContextType /\ ds[c] \in ContextType /\ cs[c].work \in Int
             /\ Reasons(I, im, c) \in Nat /\ Reasons(J, im, c) \in Nat
             /\ ds[c].work \in Int
  BY ReasonsAre DEF ContextType, Finished
<1>2. ASSUME NEW c \in D
      PROVE  OwnWork(c, ds[c]) = OwnWork(c, cs[c]) /\ OwnWork(c, cs[c]) \in Nat
  BY DEF OwnWork, SameFlags, SameAs, Finished
<1>3. ASSUME NEW c \in D
      PROVE  ds[c].work = Reasons(J, im, c) + OwnWork(c, ds[c])
  <2>1. /\ cs[c].work = Reasons(I, im, c) + OwnWork(c, cs[c])
        /\ Reasons(I, im, c) = Reasons(J, im, c) + (IF c \in S THEN 1 ELSE 0)
    BY DEF WorkOn, Fewer
  <2>2. ds[c].work = cs[c].work - (IF c \in S THEN 1 ELSE 0)
    BY DEF Finished
  <2>3. CASE c \in S
    BY <1>1, <1>2, <2>1, <2>2, <2>3
  <2>4. CASE c \notin S
    BY <1>1, <1>2, <2>1, <2>2, <2>4
  <2> QED BY <2>3, <2>4
<1>4. ASSUME NEW c \in D, c \in Pools, PoolGood(cs[c])
      PROVE  PoolGood(ds[c])
  <2>1. SameFlags(ds[c], cs[c])
    BY DEF Finished, SameAs
  <2>2. CASE c \in S
    <3>1. ds[c].work = cs[c].work - 1 /\ ds[c].stopped = (cs[c].stopped \/ cs[c].work = 1)
      BY <2>2 DEF Finished
    <3>2. ds[c].work >= 0
      BY <1>1, <1>2, <1>3
    <3>3. ds[c].join = "no" => OwnWork(c, ds[c]) = 1
      BY <1>4 DEF OwnWork
    <3>4. ds[c].work = 0 => ds[c].join # "no"
      BY <1>1, <1>3, <3>3
    <3> QED BY <1>1, <1>4, <2>1, <3>1, <3>2, <3>4, PoolShrinks
  <2>3. CASE c \notin S
    <3>1. ds[c].work = cs[c].work
      BY <1>1, <2>3 DEF Finished
    <3>2. ds[c].stopped = (cs[c].stopped \/ (c \in S /\ cs[c].work = 1))
      BY DEF Finished
    <3>3. cs[c].stopped \in BOOLEAN
      BY <1>1 DEF ContextType
    <3>4. ds[c].stopped = cs[c].stopped
      BY <2>3, <3>2, <3>3
    <3> QED BY <1>1, <1>4, <2>1, <3>1, <3>4, PoolGrows
  <2> QED BY <2>2, <2>3
<1> QED BY <1>3, <1>4 DEF WorkOn

-----------------------------------------------------------------------------
(* Submission. *)
LEMMA FrameIs ==
  ASSUME NEW task \in TaskType
  PROVE  /\ Executing!Frame(task, task.dispatcher) \in RunnerType
         /\ Executing!Frame(task, task.dispatcher).task = task
         /\ Executing!Frame(task, task.dispatcher).at = "start"
         /\ RunnerGood(Executing!Frame(task, task.dispatcher))
BY DEF Executing!Frame, RunnerType, RunnerGood, TaskType

LEMMA IdleIs ==
  /\ Executing!Idle \in RunnerType /\ Executing!Idle.at = "idle" /\ RunnerGood(Executing!Idle)
<1>1. Executing!Task(0, 0, FALSE) \in TaskType /\ ~Executing!Task(0, 0, FALSE).dispatcher
  BY ExecutorsAssumption DEF Executing!Task, TaskType, HandleType
<1> QED BY <1>1 DEF Executing!Idle, Executing!Null, RunnerType, RunnerGood

(* The tasks of a queue are of handlers submitted. *)
LEMMA QueuedBefore ==
  ASSUME NEW cs, NEW fr, StateType(cs, fr), NEW im, NEW gone, NEW sub, NEW inv,
         FlightGood(InFlight(cs, fr), im, gone, sub, inv),
         NEW c \in Contexts, NEW i \in DOMAIN cs[c].queue
  PROVE  cs[c].queue[i].h \in 1 .. sub
<1> DEFINE x == Item(cs[c].queue[i], "queued", c)
<1>1. x \in InFlight(cs, fr) /\ x.task = cs[c].queue[i]
  BY QueueHolds, ItemIs
<1> HIDE DEF x
<1> QED BY <1>1 DEF FlightGood, ItemGood

LEMMA NoDupAppended ==
  ASSUME NEW q \in Seq(TaskType), NoDup(q), NEW task \in TaskType,
         \A i \in DOMAIN q : q[i].h # task.h
  PROVE  NoDup(Append(q, task))
<1> DEFINE r == Append(q, task)
<1>1. /\ Len(r) = Len(q) + 1 /\ Len(q) \in Nat
      /\ \A i \in 1 .. Len(q) : r[i] = q[i]
      /\ r[Len(q) + 1] = task /\ r \in Seq(TaskType)
  OBVIOUS
<1>2. DOMAIN q = 1 .. Len(q) /\ DOMAIN r = 1 .. Len(r)
  BY <1>1
<1> HIDE DEF r
<1>3. \A i \in DOMAIN r : (i \in DOMAIN q /\ r[i] = q[i]) \/ (i = Len(q) + 1 /\ r[i] = task)
  BY <1>1, <1>2
<1>4. NoDup(r)
  BY <1>3 DEF NoDup
<1> QED BY <1>4 DEF r

(* A pool that has not been joined takes work. *)
LEMMA OpenReady ==
  ASSUME NEW cs, ContextsGood(cs), NEW c \in Pools, cs[c].join = "no"
  PROVE  Ready(cs[c])
BY DEF ContextsGood, PoolGood, Ready

(* An item that is new, with its references, its task and its guard. *)
Joins(cs, ds, im, y) ==
  \A c \in Contexts :
    /\ SameFlags(ds[c], cs[c]) /\ ds[c].stopped = cs[c].stopped /\ NoDup(ds[c].queue)
    /\ ds[c].work = cs[c].work + TaskOf(y, c) + GuardOf(y, im, c)
    /\ (TaskOf(y, c) + GuardOf(y, im, c) = 0 \/ c \notin Pools \/ Ready(cs[c]))

LEMMA SameGone ==
  ASSUME NEW cs, NEW ds, \A c \in Contexts : SameFlags(ds[c], cs[c])
  PROVE  Gone(ds) = Gone(cs)
BY DEF Gone, SameFlags

LEMMA JoinsWork ==
  ASSUME NEW cs, NEW fr, StateType(cs, fr), NEW ds, NEW gr, StateType(ds, gr),
         NEW im, NEW I, IsFiniteSet(I), NEW y, y \notin I, Joins(cs, ds, im, y),
         WorkGood(cs, im, I), ContextsGood(cs)
  PROVE  WorkGood(ds, im, I \cup {y}) /\ ContextsGood(ds) /\ Gone(ds) = Gone(cs)
<1> DEFINE D == Contexts \ Gone(cs)
<1>1. Gone(ds) = Gone(cs)
  BY SameGone DEF Joins
<1>2. IsFiniteSet(I \cup {y})
  BY FS_AddElement
<1>3. /\ cs \in [Contexts -> ContextType] /\ ds \in [Contexts -> ContextType]
      /\ \A c \in Contexts : cs[c].work \in Int /\ ds[c].work \in Int
  BY DEF StateType, ContextType
<1>4. ASSUME NEW c \in Contexts
      PROVE  /\ SameFlags(ds[c], cs[c]) /\ ds[c].stopped = cs[c].stopped
             /\ ds[c].work - cs[c].work = Reasons(I \cup {y}, im, c) - Reasons(I, im, c)
             /\ (ds[c].work = cs[c].work \/ c \notin Pools \/ Ready(cs[c]))
  <2>1. Reasons(I \cup {y}, im, c) = Reasons(I, im, c) + TaskOf(y, c) + GuardOf(y, im, c)
    BY ReasonsAdded
  <2>2. ds[c].work = cs[c].work + TaskOf(y, c) + GuardOf(y, im, c)
    BY DEF Joins
  <2>3. TaskOf(y, c) \in {0, 1} /\ GuardOf(y, im, c) \in {0, 1} /\ Reasons(I, im, c) \in Nat
    BY ReasonsAre DEF TaskOf, GuardOf
  <2>4. ds[c].work - cs[c].work = Reasons(I \cup {y}, im, c) - Reasons(I, im, c)
    BY <1>3, <2>1, <2>2, <2>3
  <2>5. TaskOf(y, c) + GuardOf(y, im, c) = 0 => ds[c].work = cs[c].work
    BY <1>3, <2>2, <2>3
  <2> QED BY <2>4, <2>5 DEF Joins
<1>5. WorkOn(D, cs, im, I)
  BY DEF WorkGood
<1> HIDE DEF D
<1>6. D \subseteq Contexts
  BY DEF D
<1>7. WorkOn(D, ds, im, I \cup {y})
  BY <1>2, <1>3, <1>4, <1>5, <1>6, WorkUp
<1>8. ASSUME NEW c \in Pools PROVE PoolGood(ds[c])
  <2>1. c \in Contexts /\ PoolGood(cs[c])
    BY ExecutorsAssumption DEF ContextsGood
  <2>2. cs[c] \in ContextType /\ ds[c] \in ContextType
    BY <1>3, <2>1
  <2> QED BY <1>4, <2>1, <2>2, PoolGrows
<1>9. System \in Contexts
  BY ExecutorsAssumption
<1>10. ds[System].join = "no" /\ ~ds[System].asked /\ ~ds[System].destroyed
  BY <1>9 DEF ContextsGood, Joins, SameFlags
<1>11. ContextsGood(ds)
  BY <1>8, <1>10 DEF ContextsGood, Joins
<1> QED BY <1>1, <1>7, <1>11 DEF WorkGood, D

LEMMA RefsJoin ==
  ASSUME NEW im, ImplsType(im), NEW ha, NEW I, IsFiniteSet(I), RefsGood(im, ha, I),
         NEW y, y \notin I, NEW jm, TaskCounted(im, jm, y.task)
  PROVE  RefsGood(jm, ha, I \cup {y})
<1>1. ASSUME NEW i \in ImplIds
      PROVE  jm[i].refs = Cardinality(Holders(ha, i)) + Cardinality(HeldBy(I \cup {y}, i))
  <2>1. Counted(I, y, I \cup {y}, im, 0, i)
    BY ItemAdded
  <2>2. /\ im[i].refs = Cardinality(Holders(ha, i)) + Cardinality(HeldBy(I, i))
        /\ jm[i].refs = im[i].refs + Executing!Copies(y.task, i)
    BY DEF RefsGood, TaskCounted
  <2>3. Cardinality(Holders(ha, i)) \in Nat
    BY HoldersAre
  <2> QED BY <2>1, <2>2, <2>3 DEF Counted
<1>2. \A v \in Variables : ha[v] \in ImplIds => jm[ha[v]].target \in OwnContexts
  BY DEF RefsGood, TaskCounted
<1> QED BY <1>1, <1>2 DEF RefsGood

LEMMA SubmitKeeps ==
  ASSUME NEW cs, NEW im, NEW ha, NEW fr, NEW sub, NEW inv, ExecWorld(cs, im, ha, fr, sub, inv),
         sub < MaxHandlers, NEW ds, NEW gr, StateType(ds, gr), \A t \in Runners : RunnerGood(gr[t]),
         NEW y \in ItemType, y.task.h = sub + 1, NEW jm, TaskCounted(im, jm, y.task),
         InFlight(ds, gr) = InFlight(cs, fr) \cup {y}, Joins(cs, ds, im, y),
         ItemGood(y, im, Gone(cs), sub + 1, inv)
  PROVE  ExecWorld(ds, jm, ha, gr, sub + 1, inv)
<1> DEFINE I == InFlight(cs, fr)
<1>1. /\ StateType(cs, fr) /\ FlightGood(I, im, Gone(cs), sub, inv) /\ RefsGood(im, ha, I)
      /\ WorkGood(cs, im, I) /\ ContextsGood(cs) /\ ImplsType(im) /\ sub \in Nat /\ IsFiniteSet(I)
  BY DEF ExecWorld, ImplsType, FlightGood
<1>2. ImplsKept(im, jm) /\ jm \in [ImplIds -> ImplType]
  BY CountedKept DEF ImplsKept, ImplsType
<1> HIDE DEF I
<1>3. FlightGood(I \cup {y}, im, Gone(cs), sub + 1, inv) /\ y \notin I
  BY <1>1, FlightArrives
<1>4. FlightGood(I \cup {y}, jm, Gone(cs), sub + 1, inv)
  BY <1>2, <1>3, KeptGoals
<1>5. WorkGood(ds, im, I \cup {y}) /\ ContextsGood(ds) /\ Gone(ds) = Gone(cs)
  BY <1>1, <1>3, JoinsWork
<1>6. WorkGood(ds, jm, I \cup {y})
  BY <1>2, <1>3, <1>5, KeptWork
<1>7. RefsGood(jm, ha, I \cup {y})
  BY <1>1, <1>3, RefsJoin
<1>8. sub + 1 \in 0 .. MaxHandlers /\ InvokedGood(sub + 1, inv) /\ ha \in [Variables -> HandleType]
  BY ExecutorsAssumption DEF ExecWorld, InvokedGood
<1> QED BY <1>2, <1>4, <1>5, <1>6, <1>7, <1>8 DEF ExecWorld, I

BoundGood(b) == b \in HandleType /\ (b \in ImplIds => impls[b].target \in OwnContexts)

LEMMA BoundIs ==
  ASSUME ExecInv, NEW b \in Executing!Bindable
  PROVE  BoundGood(b)
<1>1. 0 \in HandleType /\ 0 \notin ImplIds
  BY ExecutorsAssumption DEF HandleType, ImplIds
<1>2. /\ handles \in [Variables -> HandleType]
      /\ \A v \in Variables : handles[v] \in ImplIds => impls[handles[v]].target \in OwnContexts
  BY DEF ExecInv, ExecWorld, RefsGood
<1> QED BY <1>1, <1>2 DEF Executing!Bindable, Executing!Null, BoundGood

LEMMA TaskIs ==
  ASSUME ExecInv, NEW b, BoundGood(b), NEW dispatcher \in BOOLEAN, submitted < MaxHandlers
  PROVE  LET task == Executing!Task(submitted + 1, b, dispatcher)
         IN  /\ task \in TaskType /\ task.h = submitted + 1 /\ task.ex = b
             /\ task.dispatcher = dispatcher /\ Goal(impls, task) \in Contexts
             /\ Executing!Target(Executing!get_associated_executor(b)) = Goal(impls, task)
             /\ b # 0 => Executing!Target(b) = Goal(impls, task)
<1> DEFINE task == Executing!Task(submitted + 1, b, dispatcher)
<1>1. submitted + 1 \in Nat
  BY DEF ExecInv, ExecWorld
<1>2. /\ task \in TaskType /\ task.h = submitted + 1 /\ task.ex = b
      /\ task.dispatcher = dispatcher
  BY <1>1 DEF Executing!Task, TaskType, BoundGood
<1> HIDE DEF task
<1>3. Goal(impls, task) \in Contexts
  BY <1>2, ExecutorsAssumption DEF Goal, BoundGood, OwnContexts
<1>4. /\ Executing!Target(Executing!get_associated_executor(b)) = Goal(impls, task)
      /\ b # 0 => Executing!Target(b) = Goal(impls, task)
  BY <1>2, GoalIs DEF BoundGood
<1> QED BY <1>2, <1>3, <1>4 DEF task

(* The task that main submits, where it is welcome. *)
Welcome(task, c) ==
  /\ submitted < MaxHandlers /\ task \in TaskType /\ task.h = submitted + 1
  /\ BoundGood(task.ex) /\ c \in Contexts
  /\ Goal(impls, task) \in Contexts /\ Executing!Open(Goal(impls, task))
  /\ ~task.dispatcher => Goal(impls, task) = c

LEMMA WelcomeGood ==
  ASSUME ExecInv, NEW task, NEW c, Welcome(task, c), NEW at, NEW by,
         \/ at = "queued" /\ by = c /\ by \in Contexts \ Gone(contexts)
         \/ at = "start" /\ by = "main" /\ c = System
  PROVE  LET y == Item(task, at, by)
         IN  y \in ItemType /\ ItemGood(y, impls, Gone(contexts), submitted + 1, invoked)
<1> DEFINE y == Item(task, at, by)
<1>1. y.task = task /\ y.at = at /\ y.by = by /\ y \in ItemType
  BY DEF Item, ItemType, Welcome, Runners
<1>2. submitted + 1 \in 1 .. MaxHandlers /\ submitted + 1 \in 1 .. submitted + 1 /\ submitted + 1 > submitted
  BY ExecutorsAssumption DEF ExecInv, ExecWorld, Welcome
<1>3. invoked[submitted + 1] = <<>>
  BY <1>2 DEF ExecInv, ExecWorld, InvokedGood
<1>4. Goal(impls, task) \notin Gone(contexts)
  BY DEF Welcome, Executing!Open, Gone
<1>5. task.h = submitted + 1 /\ (task.ex \in ImplIds => impls[task.ex].target \in OwnContexts)
  BY DEF Welcome, BoundGood
<1>6. ~task.dispatcher => Goal(impls, task) = Home(by)
  BY ExecutorsAssumption DEF Welcome, Home
<1>7. at \in {"queued", "start"} /\ (at = "queued" => by # "main" /\ by \notin Gone(contexts))
  BY ExecutorsAssumption
<1> HIDE DEF y
<1>8. ItemGood(y, impls, Gone(contexts), submitted + 1, invoked)
  BY <1>1, <1>2, <1>3, <1>4, <1>5, <1>6, <1>7 DEF ItemGood
<1> QED BY <1>1, <1>8 DEF y

(* What the guard of a work_dispatcher starts. *)
GuardOn(task) == IF task.dispatcher THEN {Goal(impls, task)} \ {System} ELSE {}
LEMMA GuardStarts ==
  ASSUME ExecInv, NEW task, NEW c, Welcome(task, c)
  PROVE  Started(contexts,
                 IF task.dispatcher
                 THEN Executing!on_work_started(contexts, Executing!get_associated_executor(task.ex))
                 ELSE contexts,
                 GuardOn(task))
<1>1. contexts \in [Contexts -> ContextType] /\ \A d \in Contexts : contexts[d].work \in Int
  BY DEF ExecInv, ExecWorld, StateType, ContextType
<1>2. CASE task.dispatcher
  <2>1. Executing!Target(Executing!get_associated_executor(task.ex)) = Goal(impls, task)
    BY GoalIs DEF Welcome, BoundGood
  <2>2. Goal(impls, task) \in Contexts
    BY DEF Welcome
  <2>3. Started(contexts, Executing!on_work_started(contexts, Executing!get_associated_executor(task.ex)),
                {Goal(impls, task)} \ {System})
    BY <1>1, <2>1, <2>2, GuardStartIs
  <2> QED BY <1>2, <2>3 DEF GuardOn
<1>3. CASE ~task.dispatcher
  BY <1>1, <1>3 DEF Started, SameAs, SameFlags, GuardOn
<1> QED BY <1>2, <1>3

LEMMA GuardOnIs ==
  ASSUME NEW task, NEW at \in {"queued", "start"}, NEW by, NEW c
  PROVE  /\ GuardOf(Item(task, at, by), impls, c) = IF c \in GuardOn(task) THEN 1 ELSE 0
         /\ TaskOf(Item(task, at, by), c) = IF c = by THEN 1 ELSE 0
<1> DEFINE y == Item(task, at, by)
<1>1. y.task = task /\ y.at # "end" /\ y.by = by
  BY DEF Item
<1> HIDE DEF y
<1>2. Owning(y) <=> task.dispatcher
  BY <1>1 DEF Owning
<1>3. GuardOf(y, impls, c) = IF c \in GuardOn(task) THEN 1 ELSE 0
  BY <1>1, <1>2 DEF GuardOf, GuardOn
<1>4. TaskOf(y, c) = IF c = by THEN 1 ELSE 0
  BY <1>1 DEF TaskOf
<1> QED BY <1>3, <1>4 DEF y

LEMMA WelcomeReady ==
  ASSUME ExecInv, NEW task, NEW c, Welcome(task, c), NEW d \in Pools, d \in GuardOn(task)
  PROVE  Ready(contexts[d])
<1>1. d = Goal(impls, task) /\ contexts[d].join = "no"
  BY DEF GuardOn, Welcome, Executing!Open
<1> QED BY <1>1, OpenReady DEF ExecInv, ExecWorld

LEMMA QueuedStep ==
  ASSUME ExecInv, NEW task, NEW ex, Welcome(task, Executing!Target(ex)),
         Executing!Open(Executing!Target(ex)), Executing!Queued(ex, task),
         handles' = handles, invoked' = invoked, submitted' = submitted + 1
  PROVE  ExecInv'
<1> DEFINE c == Executing!Target(ex)
           cs == IF task.dispatcher
                 THEN Executing!on_work_started(contexts, Executing!get_associated_executor(task.ex))
                 ELSE contexts
           y == Item(task, "queued", c)
<1>1. /\ impls' = Executing!cloneTask(impls, task) /\ frame' = frame
      /\ contexts' = Executing!Enqueue(cs, c, task)
  BY DEF Executing!Queued
<1>2. Started(contexts, cs, GuardOn(task))
  BY GuardStarts
<1>3. c \in Contexts /\ task \in TaskType /\ task.dispatcher \in BOOLEAN
  BY DEF Welcome, TaskType
<1>4. contexts[c].join = "no" /\ c \notin Gone(contexts) /\ Welcome(task, c)
  BY DEF Executing!Open, Gone
<1> HIDE DEF cs, c
<1>5. Enqueued(cs, contexts', c, task)
  BY <1>1, <1>2, <1>3, EnqueueIs DEF Started
<1>6. ASSUME NEW d \in Contexts
      PROVE  /\ SameFlags(contexts'[d], contexts[d]) /\ contexts'[d].stopped = contexts[d].stopped
             /\ contexts'[d].queue = IF d = c THEN Append(contexts[d].queue, task) ELSE contexts[d].queue
             /\ contexts'[d].work = (contexts[d].work + (IF d \in GuardOn(task) THEN 1 ELSE 0))
                                      + (IF d = c THEN 1 ELSE 0)
  BY <1>2, <1>5 DEF Started, Enqueued, SameAs, SameFlags
<1>7. StateType(contexts, frame) /\ StateType(contexts', frame)
  BY <1>5 DEF ExecInv, ExecWorld, StateType, Enqueued
<1>8. InFlight(contexts', frame') = InFlight(contexts, frame) \cup {y}
  BY <1>1, <1>3, <1>6, <1>7, TaskQueued
<1>9. y \in ItemType /\ ItemGood(y, impls, Gone(contexts), submitted + 1, invoked)
  BY <1>3, <1>4, WelcomeGood
<1>10. Joins(contexts, contexts', impls, y)
  <2> SUFFICES ASSUME NEW d \in Contexts
               PROVE  /\ SameFlags(contexts'[d], contexts[d])
                      /\ contexts'[d].stopped = contexts[d].stopped /\ NoDup(contexts'[d].queue)
                      /\ contexts'[d].work = contexts[d].work + TaskOf(y, d) + GuardOf(y, impls, d)
                      /\ (TaskOf(y, d) + GuardOf(y, impls, d) = 0 \/ d \notin Pools
                            \/ Ready(contexts[d]))
    BY DEF Joins
  <2>1. /\ GuardOf(y, impls, d) = IF d \in GuardOn(task) THEN 1 ELSE 0
        /\ TaskOf(y, d) = IF d = c THEN 1 ELSE 0
    BY GuardOnIs
  <2>2. contexts[d].work \in Int /\ contexts[d].queue \in Seq(TaskType)
    BY <1>7 DEF StateType, ContextType
  <2>3. contexts'[d].work = contexts[d].work + TaskOf(y, d) + GuardOf(y, impls, d)
    <3> HIDE DEF y
    <3> QED BY <1>6, <2>1, <2>2
  <2>4. NoDup(contexts'[d].queue)
    <3>1. NoDup(contexts[d].queue)
      BY DEF ExecInv, ExecWorld, ContextsGood
    <3>2. \A i \in DOMAIN contexts[d].queue : contexts[d].queue[i].h \in 1 .. submitted
      BY <1>7, QueuedBefore DEF ExecInv, ExecWorld
    <3>3. submitted \in Nat /\ task.h = submitted + 1
      BY DEF ExecInv, ExecWorld, Welcome
    <3>4. \A i \in DOMAIN contexts[d].queue : contexts[d].queue[i].h # task.h
      BY <3>2, <3>3
    <3>5. NoDup(Append(contexts[d].queue, task))
      BY <1>3, <2>2, <3>1, <3>4, NoDupAppended
    <3> QED BY <1>6, <3>1, <3>5
  <2>5. d \in Pools /\ (d = c \/ d \in GuardOn(task)) => Ready(contexts[d])
    BY <1>4, OpenReady, WelcomeReady DEF ExecInv, ExecWorld
  <2>6. TaskOf(y, d) + GuardOf(y, impls, d) = 0 \/ d \notin Pools \/ Ready(contexts[d])
    BY <2>1, <2>5
  <2> QED BY <1>6, <2>3, <2>4, <2>6
<1>11. y.task = task /\ task.h = submitted + 1 /\ submitted < MaxHandlers
  BY ItemIs DEF Welcome
<1>12. TaskCounted(impls, impls', y.task)
  BY <1>1, <1>3, <1>11, CloneTaskIs DEF ExecInv, ExecWorld, ImplsType
<1> HIDE DEF y
<1>13. \A t \in Runners : RunnerGood(frame'[t])
  BY <1>1 DEF ExecInv, ExecWorld
<1>14. ExecWorld(contexts', impls', handles, frame', submitted + 1, invoked)
  BY <1>1, <1>7, <1>8, <1>9, <1>10, <1>11, <1>12, <1>13, SubmitKeeps DEF ExecInv
<1> QED BY <1>14 DEF ExecInv

(* dispatch() by main to the system context: at once. *)
LEMMA HereStep ==
  ASSUME ExecInv, NEW task, Welcome(task, System), frame["main"] = Executing!Idle,
         impls' = Executing!cloneTask(impls, task),
         frame' = [frame EXCEPT !["main"] = Executing!Frame(task, task.dispatcher)],
         contexts' = IF task.dispatcher
                     THEN Executing!on_work_started(contexts, Executing!get_associated_executor(task.ex))
                     ELSE contexts,
         handles' = handles, invoked' = invoked, submitted' = submitted + 1
  PROVE  ExecInv'
<1> DEFINE y == Item(task, "start", "main")
<1>1. Started(contexts, contexts', GuardOn(task))
  BY GuardStarts
<1>2. task \in TaskType /\ "main" \in Runners /\ "main" \notin Contexts /\ task.dispatcher \in BOOLEAN
  BY ExecutorsAssumption DEF Welcome, Runners, TaskType
<1>3. /\ frame'["main"].task = task /\ frame'["main"].at = "start"
      /\ \A t \in Runners : t # "main" => frame'[t] = frame[t]
      /\ frame' \in [Runners -> RunnerType] /\ \A t \in Runners : RunnerGood(frame'[t])
  BY <1>2, FrameIs DEF ExecInv, ExecWorld, StateType
<1>4. /\ StateType(contexts, frame) /\ StateType(contexts, frame') /\ StateType(contexts', frame')
  BY <1>1, <1>3 DEF ExecInv, ExecWorld, StateType, Started
<1>5. frame["main"].at = "idle"
  BY IdleIs
<1>6. InFlight(contexts, frame') = InFlight(contexts, frame) \cup {y}
  <2> DEFINE gr == frame'
  <2>1. /\ gr["main"].at # "idle" /\ gr["main"].task = task /\ gr["main"].at = "start"
        /\ \A u \in Runners : u # "main" => gr[u] = frame[u]
        /\ StateType(contexts, gr) /\ StateType(contexts, frame) /\ "main" \in Runners
    BY <1>2, <1>3, <1>4
  <2> HIDE DEF gr
  <2>2. InFlight(contexts, gr) =
          InFlight(contexts, frame) \cup {Item(gr["main"].task, gr["main"].at, "main")}
    BY <1>5, <2>1, RunnerStarts
  <2>3. InFlight(contexts, gr) = InFlight(contexts, frame) \cup {y}
    BY <2>1, <2>2
  <2> QED BY <2>3 DEF gr
<1>7. InFlight(contexts', frame') = InFlight(contexts, frame) \cup {y}
  <2>1. \A c \in Contexts : contexts'[c].queue = contexts[c].queue
    BY <1>1 DEF Started, SameAs
  <2>2. InFlight(contexts', frame') = InFlight(contexts, frame')
    BY ONLY <2>1, FlightSame
  <2> QED BY <1>6, <2>2
<1>8. y \in ItemType /\ ItemGood(y, impls, Gone(contexts), submitted + 1, invoked)
  BY WelcomeGood
<1>9. Joins(contexts, contexts', impls, y)
  <2> SUFFICES ASSUME NEW d \in Contexts
               PROVE  /\ SameFlags(contexts'[d], contexts[d])
                      /\ contexts'[d].stopped = contexts[d].stopped /\ NoDup(contexts'[d].queue)
                      /\ contexts'[d].work = contexts[d].work + TaskOf(y, d) + GuardOf(y, impls, d)
                      /\ (TaskOf(y, d) + GuardOf(y, impls, d) = 0 \/ d \notin Pools
                            \/ Ready(contexts[d]))
    BY DEF Joins
  <2>1. /\ GuardOf(y, impls, d) = IF d \in GuardOn(task) THEN 1 ELSE 0
        /\ TaskOf(y, d) = IF d = "main" THEN 1 ELSE 0
    BY GuardOnIs
  <2>2. /\ SameAs(contexts'[d], contexts[d]) /\ contexts'[d].stopped = contexts[d].stopped
        /\ contexts'[d].work = contexts[d].work + (IF d \in GuardOn(task) THEN 1 ELSE 0)
        /\ contexts[d].work \in Int
    BY <1>1, <1>4 DEF Started, StateType, ContextType
  <2>3. d # "main"
    BY <1>2
  <2> HIDE DEF y
  <2>4. contexts'[d].work = contexts[d].work + TaskOf(y, d) + GuardOf(y, impls, d)
    BY <2>1, <2>2, <2>3
  <2>5. NoDup(contexts'[d].queue)
    BY <2>2 DEF ExecInv, ExecWorld, ContextsGood, SameAs
  <2>6. TaskOf(y, d) + GuardOf(y, impls, d) = 0 \/ d \notin Pools \/ Ready(contexts[d])
    BY <2>1, <2>3, WelcomeReady
  <2> QED BY <2>2, <2>4, <2>5, <2>6 DEF SameAs
<1>10. y.task = task /\ task.h = submitted + 1 /\ submitted < MaxHandlers
  BY ItemIs DEF Welcome
<1>11. TaskCounted(impls, impls', y.task)
  BY <1>2, <1>10, CloneTaskIs DEF ExecInv, ExecWorld, ImplsType
<1> HIDE DEF y
<1>12. ExecWorld(contexts', impls', handles, frame', submitted + 1, invoked)
  BY <1>3, <1>4, <1>7, <1>8, <1>9, <1>10, <1>11, SubmitKeeps DEF ExecInv
<1> QED BY <1>12 DEF ExecInv

LEMMA DispatchedStep ==
  ASSUME ExecInv, NEW task, NEW ex, Welcome(task, Executing!Target(ex)),
         Executing!Open(Executing!Target(ex)), Executing!Dispatched(ex, task),
         frame["main"] = Executing!Idle,
         handles' = handles, invoked' = invoked, submitted' = submitted + 1
  PROVE  ExecInv'
<1>1. CASE Executing!Target(ex) # System
  BY <1>1, QueuedStep DEF Executing!Dispatched
<1>2. CASE Executing!Target(ex) = System
  BY <1>2, HereStep DEF Executing!Dispatched
<1> QED BY <1>1, <1>2

LEMMA SubmitIs ==
  ASSUME Executing!Submit
  PROVE  /\ submitted < MaxHandlers /\ submitted' = submitted + 1 /\ handles' = handles
         /\ invoked' = invoked /\ frame["main"] = Executing!Idle
         /\ \A c \in Pools : contexts[c].join # "joining"
BY DEF Executing!Submit, Executing!MainIdle

(* post(token), defer(token) and dispatch(token). *)
LEMMA OwnWelcome ==
  ASSUME ExecInv, NEW b \in Executing!Bindable, Executing!Submit,
         Executing!Open(Executing!Target(Executing!get_associated_executor(b)))
  PROVE  Welcome(Executing!Task(submitted + 1, b, FALSE),
                 Executing!Target(Executing!get_associated_executor(b)))
<1>1. BoundGood(b) /\ submitted < MaxHandlers
  BY BoundIs, SubmitIs
<1> DEFINE task == Executing!Task(submitted + 1, b, FALSE)
<1>2. /\ task \in TaskType /\ task.h = submitted + 1 /\ task.ex = b
      /\ Goal(impls, task) \in Contexts
      /\ Executing!Target(Executing!get_associated_executor(b)) = Goal(impls, task)
  BY <1>1, TaskIs
<1> HIDE DEF task
<1> QED BY <1>1, <1>2 DEF Welcome, task

LEMMA PostStep ==
  ASSUME ExecInv, NEW b \in Executing!Bindable,
         Executing!post(b) \/ Executing!defer(b) \/ Executing!dispatch(b)
  PROVE  ExecInv'
<1> DEFINE task == Executing!Task(submitted + 1, b, FALSE)
           ex == Executing!get_associated_executor(b)
<1>1. /\ Executing!Submit /\ Executing!Open(Executing!Target(ex))
      /\ Executing!Queued(ex, task) \/ Executing!Dispatched(ex, task)
  BY DEF Executing!post, Executing!defer, Executing!dispatch
<1>2. Welcome(task, Executing!Target(ex))
  BY <1>1, OwnWelcome
<1> HIDE DEF task, ex
<1>3. CASE Executing!Queued(ex, task)
  BY <1>1, <1>2, <1>3, SubmitIs, QueuedStep
<1>4. CASE Executing!Dispatched(ex, task)
  BY <1>1, <1>2, <1>4, SubmitIs, DispatchedStep
<1> QED BY <1>1, <1>3, <1>4

(* The same of another executor or context: a work_dispatcher. *)
LEMMA ThroughWelcome ==
  ASSUME ExecInv, NEW b \in Executing!Bindable, NEW v \in Variables, Executing!Submit,
         Executing!Through(handles[v], b)
  PROVE  /\ Welcome(Executing!Task(submitted + 1, b, TRUE), Executing!Target(handles[v]))
         /\ Executing!Open(Executing!Target(handles[v]))
<1> DEFINE task == Executing!Task(submitted + 1, b, TRUE)
           two == Executing!Task(submitted + 1, handles[v], TRUE)
<1>1. BoundGood(b) /\ submitted < MaxHandlers /\ BoundGood(handles[v])
  BY BoundIs, SubmitIs DEF Executing!Bindable
<1>2. /\ task \in TaskType /\ task.h = submitted + 1 /\ task.ex = b /\ task.dispatcher
      /\ Goal(impls, task) \in Contexts
      /\ Executing!Target(Executing!get_associated_executor(b)) = Goal(impls, task)
  BY <1>1, TaskIs
<1>3. handles[v] # 0 => Executing!Target(handles[v]) \in Contexts
  <2>1. handles[v] # 0 => Executing!Target(handles[v]) = Goal(impls, two)
    BY <1>1, TaskIs
  <2>2. Goal(impls, two) \in Contexts
    BY <1>1, TaskIs
  <2> QED BY <2>1, <2>2
<1> HIDE DEF task, two
<1>4. /\ handles[v] # 0 /\ Executing!Open(Executing!Target(handles[v]))
      /\ Executing!Open(Executing!Target(Executing!get_associated_executor(b)))
  BY DEF Executing!Through, Executing!Null
<1> QED BY <1>1, <1>2, <1>3, <1>4 DEF Welcome, task

LEMMA PostToStep ==
  ASSUME ExecInv, NEW b \in Executing!Bindable, NEW v \in Variables,
         \/ Executing!post_to(handles[v], b) \/ Executing!defer_to(handles[v], b)
         \/ Executing!dispatch_to(handles[v], b)
  PROVE  ExecInv'
<1> DEFINE task == Executing!Task(submitted + 1, b, TRUE)
           ex == handles[v]
<1>1. /\ Executing!Submit /\ Executing!Through(ex, b)
      /\ Executing!Queued(ex, task) \/ Executing!Dispatched(ex, task)
  BY DEF Executing!post_to, Executing!defer_to, Executing!dispatch_to
<1>2. Welcome(task, Executing!Target(ex)) /\ Executing!Open(Executing!Target(ex))
  BY <1>1, ThroughWelcome
<1> HIDE DEF task, ex
<1>3. CASE Executing!Queued(ex, task)
  BY <1>1, <1>2, <1>3, SubmitIs, QueuedStep
<1>4. CASE Executing!Dispatched(ex, task)
  BY <1>1, <1>2, <1>4, SubmitIs, DispatchedStep
<1> QED BY <1>1, <1>3, <1>4

LEMMA BadStep ==
  ASSUME ExecInv, NEW b \in Executing!Bindable, Executing!bad_executor(b)
  PROVE  ExecInv'
<1>1. /\ contexts' = contexts /\ impls' = impls /\ frame' = frame /\ handles' = handles
      /\ invoked' = invoked /\ submitted' = submitted + 1 /\ submitted < MaxHandlers
  BY SubmitIs DEF Executing!bad_executor
<1> DEFINE I == InFlight(contexts, frame)
<1>2. FlightGood(I, impls, Gone(contexts), submitted, invoked) /\ submitted \in 0 .. MaxHandlers
  BY DEF ExecInv, ExecWorld
<1> HIDE DEF I
<1>3. ASSUME NEW x \in I PROVE ItemGood(x, impls, Gone(contexts), submitted + 1, invoked)
  BY <1>2 DEF FlightGood, ItemGood
<1>4. FlightGood(I, impls, Gone(contexts), submitted + 1, invoked)
  BY <1>2, <1>3 DEF FlightGood
<1>5. submitted + 1 \in 0 .. MaxHandlers
  BY <1>1, <1>2, ExecutorsAssumption
<1>6. InvokedGood(submitted + 1, invoked)
  BY <1>2 DEF ExecInv, ExecWorld, InvokedGood
<1>7. ExecWorld(contexts, impls, handles, frame, submitted + 1, invoked)
  BY <1>4, <1>5, <1>6 DEF ExecInv, ExecWorld, I
<1> QED BY <1>1, <1>7 DEF ExecInv


-----------------------------------------------------------------------------
(* A thread takes a step with its task, or takes one from its queue.       *)
LEMMA RefsMoved ==
  ASSUME NEW I, IsFiniteSet(I), NEW x \in I, NEW y, y \notin I \ {x}, y.task = x.task,
         NEW im, NEW ha, RefsGood(im, ha, I)
  PROVE  RefsGood(im, ha, (I \ {x}) \cup {y})
<1> DEFINE J == I \ {x}
<1>1. IsFiniteSet(J) /\ y \notin J
  BY FS_RemoveElement
<1>2. \A i : Counted(J, x, I, im, 0, i)
  BY ItemRemoved
<1> HIDE DEF J
<1>3. \A i : Counted(J, y, J \cup {y}, im, 0, i)
  BY <1>1, ItemAdded
<1>4. ASSUME NEW i PROVE Cardinality(HeldBy(J \cup {y}, i)) = Cardinality(HeldBy(I, i))
  <2>1. Counted(J, x, I, im, 0, i) /\ Counted(J, y, J \cup {y}, im, 0, i)
    BY <1>2, <1>3
  <2> QED BY <2>1 DEF Counted
<1>5. RefsGood(im, ha, J \cup {y})
  BY <1>4 DEF RefsGood
<1> QED BY <1>5 DEF J

SameWork(cs, ds) ==
  \A c \in Contexts : /\ SameFlags(ds[c], cs[c]) /\ ds[c].stopped = cs[c].stopped
                      /\ ds[c].work = cs[c].work /\ NoDup(ds[c].queue)

(* An item in the place of another. *)
Replaced(x, y, im, gone, sub, inv, inw) ==
  /\ y \in ItemType /\ y.task = x.task /\ y.by = x.by
  /\ (Owning(x) <=> Owning(y)) /\ (Passing(x) => Passing(y))
  /\ InvokedGood(sub, inw) /\ ItemGood(y, im, gone, sub, inw)
  /\ \A h \in 1 .. sub : h # x.task.h => inw[h] = inv[h]
  /\ Passing(x) => inw[x.task.h] = inv[x.task.h]
RunnersGood(fr) == \A t \in Runners : RunnerGood(fr[t])

LEMMA MoveKeeps ==
  ASSUME NEW cs, NEW im, NEW ha, NEW fr, NEW sub, NEW inv, ExecWorld(cs, im, ha, fr, sub, inv),
         NEW ds, NEW gr, StateType(ds, gr), RunnersGood(gr), SameWork(cs, ds),
         NEW x \in InFlight(cs, fr), NEW y, InFlight(ds, gr) = (InFlight(cs, fr) \ {x}) \cup {y},
         NEW inw, Replaced(x, y, im, Gone(cs), sub, inv, inw)
  PROVE  ExecWorld(ds, im, ha, gr, sub, inw)
<1> DEFINE I == InFlight(cs, fr)
           J == (I \ {x}) \cup {y}
<1>0. /\ y \in ItemType /\ y.task = x.task /\ y.by = x.by
      /\ Owning(x) <=> Owning(y)
      /\ Passing(x) => Passing(y)
      /\ Passing(x) => inw[x.task.h] = inv[x.task.h]
      /\ InvokedGood(sub, inw) /\ ItemGood(y, im, Gone(cs), sub, inw)
      /\ \A h \in 1 .. sub : h # x.task.h => inw[h] = inv[h]
  BY DEF Replaced
<1>1. /\ StateType(cs, fr) /\ FlightGood(I, im, Gone(cs), sub, inv) /\ RefsGood(im, ha, I)
      /\ WorkGood(cs, im, I) /\ ContextsGood(cs) /\ IsFiniteSet(I) /\ x \in I
  BY DEF ExecWorld, FlightGood
<1>2. InFlight(ds, gr) = J
  OBVIOUS
<1> HIDE DEF I
<1>3. FlightGood(J, im, Gone(cs), sub, inw) /\ y \notin I \ {x}
  BY <1>0, <1>1, FlightMoves
<1>4. Gone(ds) = Gone(cs)
  BY SameGone DEF SameWork
<1>5. RefsGood(im, ha, J)
  BY <1>0, <1>1, <1>3, RefsMoved
<1>6. IsFiniteSet(J)
  BY <1>3 DEF FlightGood
<1>7. /\ cs \in [Contexts -> ContextType] /\ ds \in [Contexts -> ContextType]
      /\ \A c \in Contexts : cs[c].work \in Int
  BY <1>1 DEF StateType, ContextType
<1>8. ASSUME NEW c PROVE Reasons(J, im, c) = Reasons(I, im, c) /\ Reasons(I, im, c) \in Nat
  <2>1. Reasons(J, im, c) + GuardOf(x, im, c) = Reasons(I, im, c) + GuardOf(y, im, c)
    BY <1>0, <1>1, <1>3, ReasonsMoved
  <2>2. GuardOf(x, im, c) = GuardOf(y, im, c) /\ GuardOf(x, im, c) \in {0, 1}
    BY <1>0 DEF GuardOf
  <2>3. Reasons(J, im, c) \in Nat /\ Reasons(I, im, c) \in Nat
    BY <1>1, <1>6, ReasonsAre
  <2> QED BY <2>1, <2>2, <2>3
<1> HIDE DEF J
<1>9. WorkGood(ds, im, J)
  <2> DEFINE D == Contexts \ Gone(cs)
  <2>1. D \subseteq Contexts /\ WorkOn(D, cs, im, I)
    BY <1>1 DEF WorkGood
  <2> HIDE DEF D
  <2>2. \A c \in D : /\ SameFlags(ds[c], cs[c]) /\ ds[c].stopped = cs[c].stopped
                     /\ ds[c].work = cs[c].work
    BY <2>1 DEF SameWork
  <2>3. \A c \in D : ds[c].work - cs[c].work = Reasons(J, im, c) - Reasons(I, im, c)
    BY <1>7, <1>8, <2>1, <2>2
  <2>4. WorkOn(D, ds, im, J)
    BY <1>1, <1>6, <1>7, <2>1, <2>2, <2>3, WorkUp
  <2> QED BY <1>4, <2>4 DEF WorkGood, D
<1>10. ContextsGood(ds)
  <2>1. ASSUME NEW c \in Pools PROVE PoolGood(ds[c])
    <3>1. c \in Contexts /\ PoolGood(cs[c])
      BY <1>1, ExecutorsAssumption DEF ContextsGood
    <3>2. cs[c] \in ContextType /\ ds[c] \in ContextType
      BY <1>7, <3>1
    <3>3. SameFlags(ds[c], cs[c]) /\ ds[c].stopped = cs[c].stopped /\ ds[c].work = cs[c].work
      BY <3>1 DEF SameWork
    <3> QED BY <3>1, <3>2, <3>3, PoolGrows
  <2>2. System \in Contexts
    BY ExecutorsAssumption
  <2> QED BY <1>1, <2>1, <2>2 DEF ContextsGood, SameWork, SameFlags
<1> QED BY <1>0, <1>2, <1>3, <1>4, <1>5, <1>9, <1>10 DEF ExecWorld, RunnersGood

LEMMA NothingChanged ==
  ASSUME NEW cs, ContextsGood(cs)
  PROVE  SameWork(cs, cs)
BY DEF SameWork, SameFlags, ContextsGood

(* What a thread holds. *)
LEMMA HeldItem ==
  ASSUME ExecInv, NEW t \in Runners, frame[t].at # "idle",
         NEW x, x = Item(frame[t].task, frame[t].at, t)
  PROVE  /\ x \in InFlight(contexts, frame) /\ x \in ItemType
         /\ ItemGood(x, impls, Gone(contexts), submitted, invoked)
         /\ frame[t] \in RunnerType /\ frame[t].task \in TaskType /\ RunnerGood(frame[t])
         /\ x.task = frame[t].task /\ x.at = frame[t].at /\ x.by = t
<1>1. StateType(contexts, frame) /\ FlightGood(InFlight(contexts, frame), impls, Gone(contexts), submitted, invoked)
  BY DEF ExecInv, ExecWorld
<1>2. x \in InFlight(contexts, frame)
  BY <1>1, RunnerHolds
<1>3. frame[t] \in RunnerType /\ frame[t].task \in TaskType /\ RunnerGood(frame[t])
  BY DEF ExecInv, ExecWorld, StateType, RunnerType
<1> QED BY <1>1, <1>2, <1>3, ItemIs DEF FlightGood

(* A thread goes on with its task. *)
Here(f, t) == Item(f.task, f.at, t)
StepsOn(f, g, t, inw) ==
  /\ g \in RunnerType /\ RunnerGood(g) /\ f.at # "idle" /\ g.at # "idle" /\ g.task = f.task
  /\ Owning(Here(f, t)) <=> Owning(Here(g, t))
  /\ Passing(Here(f, t)) => Passing(Here(g, t)) /\ inw[f.task.h] = invoked[f.task.h]
  /\ ItemGood(Here(g, t), impls, Gone(contexts), submitted, inw)
  /\ \A h \in 1 .. submitted : h # f.task.h => inw[h] = invoked[h]
  /\ InvokedGood(submitted, inw)

LEMMA ThreadMoves ==
  ASSUME ExecInv, NEW t \in Runners, NEW g, NEW inw, StepsOn(frame[t], g, t, inw),
         NEW gr, gr = [frame EXCEPT ![t] = g]
  PROVE  ExecWorld(contexts, impls, handles, gr, submitted, inw)
<1> DEFINE x == Here(frame[t], t)
           y == Here(g, t)
<1>0. frame[t].at # "idle" /\ g.at # "idle" /\ g.task = frame[t].task
  BY DEF StepsOn
<1>1. x \in InFlight(contexts, frame) /\ x \in ItemType /\ x.task = frame[t].task /\ x.by = t
  BY <1>0, HeldItem DEF Here
<1>2. StateType(contexts, frame) /\ \A u \in Runners : RunnerGood(frame[u])
  BY DEF ExecInv, ExecWorld
<1>3. /\ StateType(contexts, gr) /\ gr[t] = g /\ RunnersGood(gr) /\ gr[t].at # "idle"
      /\ \A u \in Runners : u # t => gr[u] = frame[u]
  BY <1>0, <1>2 DEF StateType, StepsOn, RunnersGood
<1>4. InFlight(contexts, gr) = (InFlight(contexts, frame) \ {x}) \cup {y}
  <2>1. InFlight(contexts, gr) = (InFlight(contexts, frame) \ {Item(frame[t].task, frame[t].at, t)})
                                   \cup {Item(gr[t].task, gr[t].at, t)}
    <3>1. /\ StateType(contexts, frame) /\ StateType(contexts, gr) /\ t \in Runners
          /\ frame[t].at # "idle" /\ gr[t].at # "idle"
          /\ \A u \in Runners : u # t => gr[u] = frame[u]
      BY <1>0, <1>2, <1>3
    <3> HIDE DEF x, y
    <3> QED BY ONLY <3>1, RunnerMoves
  <2> QED BY <1>3, <2>1 DEF Here
<1>5. y \in ItemType /\ y.task = x.task /\ y.by = x.by
  <2>1. g.task \in TaskType /\ g.at \in {"start", "reset", "end", "threw"}
    BY <1>0 DEF RunnerType, StepsOn
  <2> QED BY <1>0, <1>1, <2>1 DEF Item, ItemType, Here
<1>6. SameWork(contexts, contexts)
  BY NothingChanged DEF ExecInv, ExecWorld
<1>7. Replaced(x, y, impls, Gone(contexts), submitted, invoked, inw)
  BY <1>1, <1>5 DEF StepsOn, Replaced
<1>8. ExecWorld(contexts, impls, handles, frame, submitted, invoked)
  BY DEF ExecInv
<1> HIDE DEF x, y
<1> QED BY <1>1, <1>3, <1>4, <1>6, <1>7, <1>8, MoveKeeps

(* A handler is invoked: for the first time. *)
LEMMA InvokedHere ==
  ASSUME ExecInv, NEW t \in Runners, frame[t].at = "start",
         NEW inw, inw = [invoked EXCEPT ![frame[t].task.h] = Append(@, t)]
  PROVE  /\ InvokedGood(submitted, inw)
         /\ \A h \in 1 .. submitted : h # frame[t].task.h => inw[h] = invoked[h]
<1> DEFINE x == Item(frame[t].task, frame[t].at, t)
           k == frame[t].task.h
<1>1. /\ ItemGood(x, impls, Gone(contexts), submitted, invoked) /\ x.task = frame[t].task
      /\ x.at = "start"
  BY HeldItem
<1> HIDE DEF x
<1>2. k \in 1 .. submitted /\ invoked[k] = <<>>
  BY <1>1 DEF ItemGood, Waits
<1>3. submitted \in 0 .. MaxHandlers /\ InvokedGood(submitted, invoked)
  BY DEF ExecInv, ExecWorld
<1>4. k \in 1 .. MaxHandlers /\ ~(k > submitted)
  BY <1>2, <1>3, ExecutorsAssumption
<1> DEFINE s == Append(<<>>, t)
<1>5. inw = [invoked EXCEPT ![k] = s]
  BY <1>2
<1>6. s \in Seq(Runners) /\ Len(s) = 1
  OBVIOUS
<1> HIDE DEF k, s
<1>7. InvokedGood(submitted, inw)
  <2>1. /\ invoked \in [1 .. MaxHandlers -> Seq(Runners)]
        /\ \A h \in 1 .. MaxHandlers : Len(invoked[h]) <= 1 /\ (h > submitted => invoked[h] = <<>>)
    BY <1>3 DEF InvokedGood
  <2>2. /\ inw \in [1 .. MaxHandlers -> Seq(Runners)]
        /\ \A h \in 1 .. MaxHandlers : inw[h] = IF h = k THEN s ELSE invoked[h]
    BY <1>4, <1>5, <1>6, <2>1
  <2>3. \A h \in 1 .. MaxHandlers : Len(inw[h]) <= 1 /\ (h > submitted => inw[h] = <<>>)
    <3> SUFFICES ASSUME NEW h \in 1 .. MaxHandlers
                 PROVE  Len(inw[h]) <= 1 /\ (h > submitted => inw[h] = <<>>)
      OBVIOUS
    <3>1. CASE h = k
      <4>1. inw[h] = s /\ ~(h > submitted)
        BY <1>4, <2>2, <3>1
      <4>2. Len(inw[h]) = 1
        BY ONLY <1>6, <4>1
      <4>3. Len(inw[h]) <= 1
        BY ONLY <4>2
      <4> QED BY ONLY <4>1, <4>3
    <3>2. CASE h # k
      BY <2>1, <2>2, <3>2
    <3> QED BY <3>1, <3>2
  <2> QED BY <2>2, <2>3 DEF InvokedGood
<1>8. \A h \in 1 .. submitted : h # k => inw[h] = invoked[h]
  BY <1>3, <1>5 DEF InvokedGood
<1> QED BY <1>7, <1>8 DEF k

(* The next stop of a thread. *)
LEMMA AtPut ==
  ASSUME NEW f \in RunnerType, NEW at \in {"start", "reset", "end", "threw"}
  PROVE  LET g == [f EXCEPT !.at = at]
         IN  g \in RunnerType /\ g.task = f.task /\ g.at = at /\ g.owns = f.owns
BY DEF RunnerType

LEMMA InvokeStep ==
  ASSUME ExecInv, NEW t \in Runners, Executing!Invoke(t)
  PROVE  ExecInv'
<1> DEFINE x == Item(frame[t].task, frame[t].at, t)
           g == [frame[t] EXCEPT !.at = "end"]
           y == Item(g.task, g.at, t)
           inw == [invoked EXCEPT ![frame[t].task.h] = Append(@, t)]
           gr == [frame EXCEPT ![t] = g]
<1>1. /\ frame[t].at = "start" /\ ~frame[t].task.dispatcher
      /\ invoked' = inw /\ frame' = gr
      /\ contexts' = contexts /\ impls' = impls /\ handles' = handles /\ submitted' = submitted
  BY DEF Executing!Invoke
<1>2. /\ ItemGood(x, impls, Gone(contexts), submitted, invoked) /\ frame[t] \in RunnerType
      /\ x.task = frame[t].task /\ x.at = frame[t].at /\ x.by = t /\ RunnerGood(frame[t])
  BY <1>1, HeldItem
<1>3. /\ InvokedGood(submitted, inw)
      /\ \A h \in 1 .. submitted : h # frame[t].task.h => inw[h] = invoked[h]
  BY <1>1, InvokedHere
<1>4. g \in RunnerType /\ g.task = frame[t].task /\ g.at = "end" /\ g.owns = frame[t].owns
  BY <1>2, AtPut
<1>5. y.task = x.task /\ y.at = "end" /\ y.by = t
  BY <1>2, <1>4, ItemIs
<1> HIDE DEF g, inw
<1>6. RunnerGood(g)
  BY <1>1, <1>2, <1>4 DEF RunnerGood
<1> HIDE DEF x, y
<1>7. ItemGood(y, impls, Gone(contexts), submitted, inw)
  BY <1>2, <1>5 DEF ItemGood, Waits
<1>8. (Owning(x) <=> Owning(y)) /\ ~Passing(x)
  BY <1>1, <1>2, <1>5 DEF Owning, Passing
<1>9. StepsOn(frame[t], g, t, inw)
  BY <1>1, <1>2, <1>3, <1>4, <1>6, <1>7, <1>8 DEF x, y, Here, StepsOn
<1>10. ExecWorld(contexts, impls, handles, gr, submitted, inw)
  BY <1>9, ThreadMoves
<1> QED BY <1>1, <1>10 DEF ExecInv

LEMMA ThrowsStep ==
  ASSUME ExecInv, NEW t \in Runners, Executing!Throws(t)
  PROVE  ExecInv'
<1> DEFINE x == Item(frame[t].task, frame[t].at, t)
           g == [frame[t] EXCEPT !.at = "threw"]
           y == Item(g.task, g.at, t)
           inw == [invoked EXCEPT ![frame[t].task.h] = Append(@, t)]
           gr == [frame EXCEPT ![t] = g]
<1>1. /\ frame[t].at = "start" /\ t \notin Pools /\ t # "main"
      /\ invoked' = inw /\ frame' = gr
      /\ contexts' = contexts /\ impls' = impls /\ handles' = handles /\ submitted' = submitted
  BY ExecutorsAssumption DEF Executing!Throws
<1>2. /\ ItemGood(x, impls, Gone(contexts), submitted, invoked) /\ frame[t] \in RunnerType
      /\ x.task = frame[t].task /\ x.at = frame[t].at /\ x.by = t /\ RunnerGood(frame[t])
  BY <1>1, HeldItem
<1>3. /\ InvokedGood(submitted, inw)
      /\ \A h \in 1 .. submitted : h # frame[t].task.h => inw[h] = invoked[h]
  BY <1>1, InvokedHere
<1>4. g \in RunnerType /\ g.task = frame[t].task /\ g.at = "threw" /\ g.owns = frame[t].owns
  BY <1>2, AtPut
<1>5. y.task = x.task /\ y.at = "threw" /\ y.by = t
  BY <1>2, <1>4, ItemIs
<1> HIDE DEF g, inw
<1>6. RunnerGood(g)
  BY <1>1, <1>2, <1>4 DEF RunnerGood
<1> HIDE DEF x, y
<1>7. ItemGood(y, impls, Gone(contexts), submitted, inw)
  BY <1>1, <1>2, <1>5 DEF ItemGood, Waits
<1>8. (Owning(x) <=> Owning(y)) /\ ~Passing(x)
  BY <1>1, <1>2, <1>5 DEF Owning, Passing
<1>9. StepsOn(frame[t], g, t, inw)
  BY <1>1, <1>2, <1>3, <1>4, <1>6, <1>7, <1>8 DEF x, y, Here, StepsOn
<1>10. ExecWorld(contexts, impls, handles, gr, submitted, inw)
  BY <1>9, ThreadMoves
<1> QED BY <1>1, <1>10 DEF ExecInv

LEMMA TakeStep ==
  ASSUME ExecInv, NEW c \in Contexts, Executing!Take(c)
  PROVE  ExecInv'
<1> DEFINE q == contexts[c].queue
           task == Head(q)
           g == Executing!Frame(task, task.dispatcher)
           gr == [frame EXCEPT ![c] = g]
           p == [contexts[c] EXCEPT !.queue = Tail(q)]
           ds == [contexts EXCEPT ![c] = p]
           x == Item(task, "queued", c)
           y == Item(task, "start", c)
<1>1. /\ q # <<>> /\ frame[c] = Executing!Idle /\ frame' = gr /\ contexts' = ds
      /\ impls' = impls /\ handles' = handles /\ submitted' = submitted /\ invoked' = invoked
  BY DEF Executing!Take
<1>2. /\ StateType(contexts, frame) /\ \A u \in Runners : RunnerGood(frame[u])
      /\ FlightGood(InFlight(contexts, frame), impls, Gone(contexts), submitted, invoked)
      /\ ContextsGood(contexts) /\ InvokedGood(submitted, invoked)
  BY DEF ExecInv, ExecWorld
<1>3. contexts[c] \in ContextType /\ q \in Seq(TaskType) /\ NoDup(q) /\ c \in Runners
  BY <1>2 DEF StateType, ContextType, ContextsGood, Runners
<1>4. task \in TaskType /\ Tail(q) \in Seq(TaskType) /\ NoDup(Tail(q))
  BY <1>1, <1>3, HeadGone
<1>5. g \in RunnerType /\ g.task = task /\ g.at = "start" /\ RunnerGood(g)
  BY <1>4, FrameIs
<1>6. /\ p \in ContextType /\ SameFlags(p, contexts[c]) /\ p.queue = Tail(q)
      /\ p.work = contexts[c].work /\ p.stopped = contexts[c].stopped
  BY <1>3, <1>4, QueuePut
<1> HIDE DEF g, p, task
<1>7. /\ ds \in [Contexts -> ContextType] /\ ds[c] = p /\ \A d \in Contexts : d # c => ds[d] = contexts[d]
      /\ gr \in [Runners -> RunnerType] /\ gr[c] = g /\ \A u \in Runners : u # c => gr[u] = frame[u]
  BY <1>2, <1>3, <1>5, <1>6 DEF StateType
<1> HIDE DEF ds, gr
<1>8. StateType(ds, gr) /\ RunnersGood(gr)
  BY <1>2, <1>5, <1>7 DEF StateType, RunnersGood
<1>9. \A d \in Contexts : ds[d].queue = IF d = c THEN Tail(contexts[d].queue) ELSE contexts[d].queue
  BY <1>6, <1>7
<1>10. SameWork(contexts, ds)
  BY <1>2, <1>4, <1>6, <1>7 DEF SameWork, SameFlags, ContextsGood
<1>11. /\ x \in InFlight(contexts, frame)
       /\ InFlight(ds, gr) = (InFlight(contexts, frame) \ {x}) \cup {y}
  <2>1. frame[c].at = "idle"
    BY <1>1, IdleIs
  <2>2. contexts[c].queue # <<>> /\ NoDup(contexts[c].queue)
        /\ gr[c].at = "start" /\ gr[c].task = Head(contexts[c].queue)
    BY <1>1, <1>3, <1>5, <1>7 DEF task
  <2> QED BY <1>2, <1>7, <1>8, <1>9, <2>1, <2>2, TaskTaken DEF task
<1>12. /\ x.task = task /\ x.at = "queued" /\ x.by = c /\ y.task = task /\ y.at = "start" /\ y.by = c
       /\ y \in ItemType
  BY <1>3, <1>4 DEF Item, ItemType
<1> HIDE DEF x, y
<1>13. ItemGood(x, impls, Gone(contexts), submitted, invoked)
  BY <1>2, <1>11 DEF FlightGood
<1>14. ItemGood(y, impls, Gone(contexts), submitted, invoked)
  BY <1>12, <1>13 DEF ItemGood, Waits
<1>15. (Owning(x) <=> Owning(y)) /\ ~Passing(x)
  BY <1>12 DEF Owning, Passing
<1>16. Replaced(x, y, impls, Gone(contexts), submitted, invoked, invoked)
  BY <1>2, <1>12, <1>14, <1>15 DEF Replaced
<1>17. ExecWorld(ds, impls, handles, gr, submitted, invoked)
  BY <1>8, <1>10, <1>11, <1>16, MoveKeeps DEF ExecInv
<1> QED BY <1>1, <1>17 DEF ExecInv

-----------------------------------------------------------------------------
(* A handler is passed on; guards and tasks end.                           *)
LEMMA JoinKeeps ==
  ASSUME NEW cs, NEW im, NEW ha, NEW fr, NEW sub, NEW inv, ExecWorld(cs, im, ha, fr, sub, inv),
         NEW ds, StateType(ds, fr), NEW y, y \notin InFlight(cs, fr),
         FlightGood(InFlight(cs, fr) \cup {y}, im, Gone(cs), sub, inv),
         NEW jm, TaskCounted(im, jm, y.task),
         InFlight(ds, fr) = InFlight(cs, fr) \cup {y}, Joins(cs, ds, im, y)
  PROVE  ExecWorld(ds, jm, ha, fr, sub, inv)
<1> DEFINE I == InFlight(cs, fr)
<1>1. /\ StateType(cs, fr) /\ RefsGood(im, ha, I) /\ FlightGood(I, im, Gone(cs), sub, inv)
      /\ WorkGood(cs, im, I) /\ ContextsGood(cs) /\ ImplsType(im) /\ IsFiniteSet(I)
  BY DEF ExecWorld, ImplsType, FlightGood
<1>2. ImplsKept(im, jm) /\ jm \in [ImplIds -> ImplType]
  BY CountedKept DEF ImplsKept, ImplsType
<1> HIDE DEF I
<1>3. y \notin I /\ FlightGood(I \cup {y}, im, Gone(cs), sub, inv)
  BY DEF I
<1>4. FlightGood(I \cup {y}, jm, Gone(cs), sub, inv)
  BY <1>2, <1>3, KeptGoals
<1>5. WorkGood(ds, im, I \cup {y}) /\ ContextsGood(ds) /\ Gone(ds) = Gone(cs)
  BY <1>1, <1>3, JoinsWork
<1>6. WorkGood(ds, jm, I \cup {y})
  BY <1>2, <1>3, <1>5, KeptWork
<1>7. RefsGood(jm, ha, I \cup {y})
  BY <1>1, <1>3, RefsJoin
<1> QED BY <1>2, <1>4, <1>5, <1>6, <1>7 DEF ExecWorld, I

(* Where a guard is, its context does not stop. *)
LEMMA GuardedReady ==
  ASSUME NEW cs, NEW im, NEW I, IsFiniteSet(I), WorkGood(cs, im, I), ContextsGood(cs),
         NEW x \in I, NEW c \in Pools, c \notin Gone(cs), GuardOf(x, im, c) = 1
  PROVE  Ready(cs[c])
<1>1. c \in Contexts \ Gone(cs) /\ PoolGood(cs[c])
  BY ExecutorsAssumption DEF ContextsGood
<1>2. cs[c].work = Reasons(I, im, c) + OwnWork(c, cs[c])
  BY <1>1 DEF WorkGood, WorkOn
<1>3. Reasons(I, im, c) = Reasons(I \ {x}, im, c) + TaskOf(x, c) + GuardOf(x, im, c)
  BY ReasonsRemoved
<1>4. IsFiniteSet(I \ {x}) /\ Reasons(I \ {x}, im, c) \in Nat
  BY FS_RemoveElement, ReasonsAre
<1>5. TaskOf(x, c) \in {0, 1} /\ OwnWork(c, cs[c]) \in {0, 1}
  BY DEF TaskOf, OwnWork
<1>6. cs[c].work # 0
  BY <1>2, <1>3, <1>4, <1>5
<1> QED BY <1>1, <1>6 DEF PoolGood, Ready

(* A work_dispatcher hands its handler on to the queue of its executor. *)
LEMMA PassedOn ==
  ASSUME ExecInv, NEW t \in Runners, frame[t].at = "start", frame[t].task.dispatcher,
         NEW c \in Contexts, c # System, c = Goal(impls, frame[t].task),
         NEW two, two = Executing!Task(frame[t].task.h, frame[t].task.ex, FALSE),
         NEW gr, StateType(contexts, gr),
         InFlight(contexts, gr) = (InFlight(contexts, frame) \ {Here(frame[t], t)})
                                    \cup {Item(frame[t].task, "reset", t)},
         ExecWorld(contexts, impls, handles, gr, submitted, invoked)
  PROVE  ExecWorld(Executing!Enqueue(contexts, c, two), Executing!clone(impls, frame[t].task.ex),
               handles, gr, submitted, invoked)
<1> DEFINE I == InFlight(contexts, frame)
           J == InFlight(contexts, gr)
           x == Here(frame[t], t)
           y == Item(frame[t].task, "reset", t)
           z == Item(two, "queued", c)
           ds == Executing!Enqueue(contexts, c, two)
           jm == Executing!clone(impls, frame[t].task.ex)
<1>1. /\ x \in I /\ ItemGood(x, impls, Gone(contexts), submitted, invoked)
      /\ frame[t].task \in TaskType /\ x.task = frame[t].task /\ x.at = "start" /\ x.by = t
  BY HeldItem DEF Here
<1>2. /\ StateType(contexts, frame) /\ FlightGood(I, impls, Gone(contexts), submitted, invoked)
      /\ FlightGood(J, impls, Gone(contexts), submitted, invoked) /\ IsFiniteSet(I)
      /\ WorkGood(contexts, impls, I) /\ ContextsGood(contexts) /\ ImplsType(impls)
  BY DEF ExecInv, ExecWorld, FlightGood, ImplsType
<1>3. J = (I \ {x}) \cup {y}
  OBVIOUS
<1>4. /\ two \in TaskType /\ ~two.dispatcher /\ two.dispatcher \in BOOLEAN
      /\ two.h = frame[t].task.h /\ two.ex = frame[t].task.ex /\ Goal(impls, two) = c
  BY <1>1 DEF Executing!Task, TaskType, Goal
<1>5. /\ z.task = two /\ z.at = "queued" /\ z.by = c /\ z \in ItemType
      /\ y.task = frame[t].task /\ y.at = "reset"
  BY <1>4 DEF Item, ItemType, Runners
<1> HIDE DEF I, J, x, y, z
<1>6. c \notin Gone(contexts) /\ c # "main"
  BY <1>1, ExecutorsAssumption DEF ItemGood
<1>7. ItemGood(z, impls, Gone(contexts), submitted, invoked)
  BY <1>1, <1>4, <1>5, <1>6 DEF ItemGood, Waits, Home
<1>8. ASSUME NEW w \in I, w # x PROVE w.task.h # two.h
  <2>1. w.task.h = x.task.h => Apart(w, x)
    BY <1>1, <1>2 DEF FlightGood
  <2> QED BY <1>1, <1>4, <1>8, <2>1 DEF Apart, Passing
<1>9. \A w \in J : w.task.h = z.task.h => Apart(w, z)
  BY <1>3, <1>4, <1>5, <1>8 DEF Apart, Passing
<1>10. FlightGood(J \cup {z}, impls, Gone(contexts), submitted, invoked)
  BY <1>2, <1>5, <1>7, <1>9, FlightAdds
<1>11. z \notin J
  BY <1>3, <1>4, <1>5, <1>8
<1>12. Enqueued(contexts, ds, c, two)
  BY <1>2, <1>4, EnqueueIs DEF StateType
<1>13. TaskCounted(impls, jm, z.task)
  <2>1. Executing!cloneTask(impls, two) = jm
    BY <1>4 DEF Executing!cloneTask
  <2>2. TaskCounted(impls, Executing!cloneTask(impls, two), two)
    BY ONLY <1>2, <1>4, CloneTaskIs
  <2> QED BY <1>5, <2>1, <2>2
<1> HIDE DEF ds, jm
<1>14. StateType(ds, gr)
  BY <1>12 DEF StateType, Enqueued
<1>15. InFlight(ds, gr) = J \cup {z}
  <2>1. \A d \in Contexts :
           ds[d].queue = IF d = c THEN Append(contexts[d].queue, two) ELSE contexts[d].queue
    BY <1>12 DEF Enqueued
  <2>2. InFlight(ds, gr) = InFlight(contexts, gr) \cup {Item(two, "queued", c)}
    BY ONLY <1>4, <1>14, <2>1, TaskQueued, StateType(contexts, gr), c \in Contexts
  <2> QED BY <2>2 DEF J, z
<1>16. Joins(contexts, ds, impls, z)
  <2> SUFFICES ASSUME NEW d \in Contexts
               PROVE  /\ SameFlags(ds[d], contexts[d])
                      /\ ds[d].stopped = contexts[d].stopped /\ NoDup(ds[d].queue)
                      /\ ds[d].work = contexts[d].work + TaskOf(z, d) + GuardOf(z, impls, d)
                      /\ (TaskOf(z, d) + GuardOf(z, impls, d) = 0 \/ d \notin Pools
                            \/ Ready(contexts[d]))
    BY DEF Joins
  <2>1. GuardOf(z, impls, d) = 0 /\ TaskOf(z, d) = (IF d = c THEN 1 ELSE 0)
    BY <1>4, <1>5 DEF GuardOf, TaskOf, Owning
  <2>2. /\ SameFlags(ds[d], contexts[d]) /\ ds[d].stopped = contexts[d].stopped
        /\ ds[d].queue = IF d = c THEN Append(contexts[d].queue, two) ELSE contexts[d].queue
        /\ ds[d].work = contexts[d].work + (IF d = c THEN 1 ELSE 0)
        /\ contexts[d].work \in Int /\ contexts[d].queue \in Seq(TaskType)
    BY <1>2, <1>12 DEF Enqueued, StateType, ContextType
  <2>3. NoDup(ds[d].queue)
    <3>1. NoDup(contexts[d].queue)
      BY <1>2 DEF ContextsGood
    <3>2. ASSUME NEW i \in DOMAIN contexts[d].queue PROVE contexts[d].queue[i].h # two.h
      <4> DEFINE w == Item(contexts[d].queue[i], "queued", d)
      <4>1. w \in I /\ w.task = contexts[d].queue[i] /\ w.at = "queued"
        BY <1>2, QueueHolds, ItemIs DEF I
      <4> HIDE DEF w
      <4> QED BY <1>1, <1>8, <4>1
    <3>3. NoDup(Append(contexts[d].queue, two))
      BY <1>4, <2>2, <3>1, <3>2, NoDupAppended
    <3> QED BY <2>2, <3>1, <3>3
  <2>4. ds[d].work = contexts[d].work + TaskOf(z, d) + GuardOf(z, impls, d)
    BY <2>1, <2>2
  <2>5. d = c /\ d \in Pools => Ready(contexts[d])
    <3>1. GuardOf(x, impls, c) = 1
      BY <1>1 DEF GuardOf, Owning
    <3> QED BY <1>1, <1>2, <1>6, <3>1, GuardedReady
  <2>6. d # c => TaskOf(z, d) + GuardOf(z, impls, d) = 0
    BY <2>1
  <2> QED BY <2>2, <2>3, <2>4, <2>5, <2>6
<1>17. ExecWorld(ds, jm, handles, gr, submitted, invoked)
  BY <1>10, <1>11, <1>13, <1>14, <1>15, <1>16, JoinKeeps DEF J
<1> QED BY <1>17 DEF ds, jm

LEMMA DispatchOnStep ==
  ASSUME ExecInv, NEW t \in Runners, Executing!DispatchOn(t)
  PROVE  ExecInv'
<1> DEFINE task == frame[t].task
           ex == Executing!get_associated_executor(task.ex)
           g == [frame[t] EXCEPT !.at = "reset"]
           gr == [frame EXCEPT ![t] = g]
           inw == [invoked EXCEPT ![task.h] = Append(@, t)]
           two == Executing!Task(task.h, task.ex, FALSE)
           x == Here(frame[t], t)
           y == Here(g, t)
<1>1. /\ frame[t].at = "start" /\ task.dispatcher
      /\ IF Executing!Target(ex) \in {System, t}
         THEN invoked' = inw /\ contexts' = contexts /\ impls' = impls
         ELSE /\ contexts' = Executing!Enqueue(contexts, Executing!Target(ex), two)
              /\ impls' = Executing!clone(impls, task.ex) /\ invoked' = invoked
      /\ frame' = gr /\ handles' = handles /\ submitted' = submitted
  BY DEF Executing!DispatchOn
<1>2. /\ ItemGood(x, impls, Gone(contexts), submitted, invoked) /\ frame[t] \in RunnerType
      /\ x \in InFlight(contexts, frame)
      /\ x.task = task /\ x.at = "start" /\ x.by = t /\ RunnerGood(frame[t]) /\ task \in TaskType
  BY <1>1, HeldItem DEF Here
<1>3. /\ InvokedGood(submitted, inw)
      /\ \A h \in 1 .. submitted : h # frame[t].task.h => inw[h] = invoked[h]
  BY <1>1, InvokedHere
<1>4. g \in RunnerType /\ g.task = task /\ g.at = "reset" /\ g.owns = frame[t].owns
  BY <1>2, AtPut
<1>5. y.task = x.task /\ y.at = "reset" /\ y.by = t /\ y = Item(task, "reset", t)
  BY <1>2, <1>4, ItemIs DEF Here
<1>6. Executing!Target(ex) = Goal(impls, task)
  BY <1>2, GoalIs DEF TaskType
<1> HIDE DEF g, inw, ex, two
<1>7. RunnerGood(g)
  BY <1>1, <1>2, <1>4 DEF RunnerGood
<1> HIDE DEF x, y
<1>8. (Owning(x) <=> Owning(y)) /\ ~Passing(x)
  BY <1>1, <1>2, <1>5 DEF Owning, Passing
<1>9. CASE Executing!Target(ex) \in {System, t}
  <2>1. ItemGood(y, impls, Gone(contexts), submitted, inw)
    BY <1>1, <1>2, <1>5 DEF ItemGood, Waits
  <2>2. StepsOn(frame[t], g, t, inw)
    BY <1>1, <1>2, <1>3, <1>4, <1>7, <1>8, <2>1 DEF x, y, StepsOn
  <2>3. ExecWorld(contexts, impls, handles, gr, submitted, inw)
    BY <2>2, ThreadMoves
  <2> QED BY <1>1, <1>9, <2>3 DEF ExecInv
<1>10. CASE Executing!Target(ex) \notin {System, t}
  <2>1. ItemGood(y, impls, Gone(contexts), submitted, invoked) /\ InvokedGood(submitted, invoked)
    BY <1>1, <1>2, <1>5 DEF ItemGood, Waits, ExecInv, ExecWorld
  <2>2. StepsOn(frame[t], g, t, invoked)
    BY <1>1, <1>2, <1>4, <1>7, <1>8, <2>1 DEF x, y, StepsOn
  <2>3. ExecWorld(contexts, impls, handles, gr, submitted, invoked)
    BY <2>2, ThreadMoves
  <2>4. InFlight(contexts, gr) = (InFlight(contexts, frame) \ {x}) \cup {y}
    <3>1. StateType(contexts, gr) /\ StateType(contexts, frame)
      BY <2>3 DEF ExecWorld, ExecInv
    <3>2. gr[t] = g /\ gr[t].at # "idle" /\ \A u \in Runners : u # t => gr[u] = frame[u]
      BY <1>4, <3>1 DEF StateType
    <3>3. frame[t].at # "idle"
      BY <1>1
    <3> HIDE DEF gr
    <3>4. InFlight(contexts, gr) = (InFlight(contexts, frame) \ {Item(frame[t].task, frame[t].at, t)})
                                     \cup {Item(gr[t].task, gr[t].at, t)}
      BY ONLY <3>1, <3>2, <3>3, RunnerMoves, t \in Runners
    <3> QED BY <3>2, <3>4 DEF x, y, Here
  <2>5. Goal(impls, task) \in Contexts /\ Goal(impls, task) # System
    BY <1>2, <1>6, <1>10, ExecutorsAssumption DEF ItemGood, Goal, OwnContexts
  <2>6. StateType(contexts, gr)
    BY <2>3 DEF ExecWorld
  <2> HIDE DEF gr
  <2> DEFINE c == Goal(impls, task)
  <2>7. c \in Contexts /\ c # System /\ c = Goal(impls, frame[t].task)
    BY <2>5
  <2> HIDE DEF c
  <2>8. ExecWorld(Executing!Enqueue(contexts, c, two), Executing!clone(impls, frame[t].task.ex),
              handles, gr, submitted, invoked)
    BY <1>1, <1>5, <2>3, <2>4, <2>6, <2>7, PassedOn DEF two, x
  <2> QED BY <1>1, <1>6, <1>10, <2>8 DEF ExecInv, c
<1> QED BY <1>9, <1>10

(* A guard that is reset, or destroyed with what owns it: the task is at   *)
(* its end.                                                                *)
GuardFreed(x, im) == IF Owning(x) THEN {Goal(im, x.task)} \ {System} ELSE {}

LEMMA FinishKeeps ==
  ASSUME NEW cs, NEW fr, StateType(cs, fr), ContextsGood(cs), NEW im, NEW I, WorkGood(cs, im, I),
         NEW S, NEW ds, Finished(cs, ds, S), NEW J,
         IsFiniteSet(I), IsFiniteSet(J),
         \A c \in Contexts : Reasons(I, im, c) = Reasons(J, im, c) + (IF c \in S THEN 1 ELSE 0)
  PROVE  WorkGood(ds, im, J) /\ ContextsGood(ds) /\ Gone(ds) = Gone(cs)
<1> DEFINE D == Contexts \ Gone(cs)
<1>1. \A c \in Contexts : SameAs(ds[c], cs[c]) /\ SameFlags(ds[c], cs[c])
  BY DEF Finished, SameAs
<1>2. Gone(ds) = Gone(cs)
  BY <1>1, SameGone
<1>3. D \subseteq Contexts /\ WorkOn(D, cs, im, I) /\ cs \in [Contexts -> ContextType]
  BY DEF WorkGood, StateType
<1> HIDE DEF D
<1>4. Fewer(D, im, I, J, S)
  BY <1>3 DEF Fewer
<1>5. WorkOn(D, ds, im, J) /\ \A c \in D \cap Pools : PoolGood(cs[c]) => PoolGood(ds[c])
  BY ONLY <1>3, <1>4, WorkDown, Finished(cs, ds, S), IsFiniteSet(I), IsFiniteSet(J)
<1>6. ASSUME NEW c \in Pools PROVE PoolGood(ds[c])
  <2>1. c \in Contexts /\ PoolGood(cs[c]) /\ cs[c] \in ContextType /\ ds[c] \in ContextType
    BY <1>3, ExecutorsAssumption DEF ContextsGood, Finished
  <2>2. CASE c \in D
    BY <1>5, <2>1, <2>2
  <2>3. CASE c \notin D
    <3>1. cs[c].destroyed
      BY <2>1, <2>3 DEF D, Gone
    <3>2. cs[c].stopped => ds[c].stopped
      BY <2>1 DEF Finished
    <3> QED BY <1>1, <2>1, <3>1, <3>2 DEF PoolGood, SameFlags
  <2> QED BY <2>2, <2>3
<1>7. System \in Contexts
  BY ExecutorsAssumption
<1>8. ContextsGood(ds)
  BY <1>1, <1>6, <1>7 DEF ContextsGood, SameAs, SameFlags
<1> QED BY <1>2, <1>5, <1>8 DEF WorkGood, D

LEMMA GuardDropped ==
  ASSUME NEW cs, NEW im, NEW ha, NEW fr, NEW sub, NEW inv, ExecWorld(cs, im, ha, fr, sub, inv),
         NEW t \in Runners, fr[t].at \in {"reset", "end", "threw"},
         NEW x, x = Here(fr[t], t), NEW ds, Finished(cs, ds, GuardFreed(x, im)),
         NEW g \in RunnerType, RunnerGood(g), g.task = fr[t].task, g.at = "end",
         NEW gr, gr = [fr EXCEPT ![t] = g]
  PROVE  ExecWorld(ds, im, ha, gr, sub, inv) /\ Gone(ds) = Gone(cs)
<1> DEFINE I == InFlight(cs, fr)
           y == Here(g, t)
           J == (I \ {x}) \cup {y}
           S == GuardFreed(x, im)
<1>1. /\ StateType(cs, fr) /\ FlightGood(I, im, Gone(cs), sub, inv) /\ RefsGood(im, ha, I)
      /\ WorkGood(cs, im, I) /\ ContextsGood(cs) /\ IsFiniteSet(I) /\ RunnersGood(fr)
  BY DEF ExecWorld, FlightGood, RunnersGood
<1>2. /\ x \in I /\ x.task = fr[t].task /\ x.at = fr[t].at /\ x.by = t /\ fr[t].at # "idle"
      /\ fr[t].task \in TaskType
  BY <1>1, RunnerHolds, ItemIs DEF Here, StateType, RunnerType
<1>3. y.task = x.task /\ y.at = "end" /\ y.by = t /\ y \in ItemType
  BY <1>2 DEF Here, Item, ItemType
<1>4. ItemGood(x, im, Gone(cs), sub, inv) /\ x \in ItemType
  BY <1>1, <1>2 DEF FlightGood
<1>5. StateType(cs, gr) /\ RunnersGood(gr) /\ gr[t] = g /\ \A u \in Runners : u # t => gr[u] = fr[u]
  BY <1>1 DEF StateType, RunnersGood
<1>6. InFlight(cs, gr) = J
  <2>0. gr[t].at # "idle"
    BY <1>5
  <2>1. InFlight(cs, gr) = (InFlight(cs, fr) \ {Item(fr[t].task, fr[t].at, t)})
                             \cup {Item(gr[t].task, gr[t].at, t)}
    BY ONLY <1>1, <1>2, <1>5, <2>0, RunnerMoves, t \in Runners
  <2> QED BY <1>5, <2>1 DEF Here
<1>7. InFlight(ds, gr) = J
  <2>1. \A c \in Contexts : ds[c].queue = cs[c].queue
    BY DEF Finished, SameAs
  <2> QED BY <1>6, <2>1, FlightSame
<1> HIDE DEF I, y
<1>8. ItemGood(y, im, Gone(cs), sub, inv)
  BY <1>3, <1>4, <1>2 DEF ItemGood, Waits
<1>9. Passing(x) => Passing(y)
  BY <1>3 DEF Passing
<1>10. FlightGood(J, im, Gone(cs), sub, inv) /\ y \notin I \ {x}
  BY <1>1, <1>2, <1>3, <1>8, <1>9, FlightMoves
<1>11. RefsGood(im, ha, J)
  BY <1>1, <1>2, <1>3, <1>10, RefsMoved
<1>12. IsFiniteSet(J)
  BY <1>10 DEF FlightGood
<1>13. ASSUME NEW c \in Contexts
       PROVE  Reasons(I, im, c) = Reasons(J, im, c) + (IF c \in S THEN 1 ELSE 0)
  <2>1. Reasons(J, im, c) + GuardOf(x, im, c) = Reasons(I, im, c) + GuardOf(y, im, c)
    BY <1>1, <1>2, <1>3, <1>10, ReasonsMoved
  <2>2. Reasons(J, im, c) \in Nat /\ Reasons(I, im, c) \in Nat
    BY <1>1, <1>12, ReasonsAre
  <2>3. GuardOf(y, im, c) = 0 /\ GuardOf(x, im, c) = (IF c \in S THEN 1 ELSE 0)
    BY <1>3 DEF GuardOf, Owning, GuardFreed
  <2> HIDE DEF J, S
  <2>4. CASE c \in S
    BY <2>1, <2>2, <2>3, <2>4
  <2>5. CASE c \notin S
    BY <2>1, <2>2, <2>3, <2>5
  <2> QED BY <2>4, <2>5
<1> HIDE DEF J, S
<1>15. WorkGood(ds, im, J) /\ ContextsGood(ds) /\ Gone(ds) = Gone(cs)
  <2>1. Finished(cs, ds, S)
    BY DEF S
  <2> QED BY ONLY <1>1, <1>12, <1>13, <2>1, FinishKeeps
<1>16. StateType(ds, gr)
  BY <1>5 DEF StateType, Finished
<1>17. ExecWorld(ds, im, ha, gr, sub, inv)
  BY <1>5, <1>7, <1>10, <1>11, <1>15, <1>16 DEF ExecWorld, RunnersGood
<1> QED BY <1>15, <1>17

(* What a guard's end does to the contexts. *)
LEMMA FreedIs ==
  ASSUME ExecInv, NEW task \in TaskType, Goal(impls, task) \in Contexts
  PROVE  Finished(contexts,
                  Executing!on_work_finished(contexts, Executing!get_associated_executor(task.ex)),
                  {Goal(impls, task)} \ {System})
<1>1. Executing!Target(Executing!get_associated_executor(task.ex)) = Goal(impls, task)
  BY GoalIs DEF TaskType
<1>2. contexts \in [Contexts -> ContextType]
  BY DEF ExecInv, ExecWorld, StateType
<1> QED BY <1>1, <1>2, GuardEndIs

LEMMA HereGoal ==
  ASSUME ExecInv, NEW t \in Runners, frame[t].at # "idle"
  PROVE  Goal(impls, frame[t].task) \in Contexts
<1>1. ItemGood(Item(frame[t].task, frame[t].at, t), impls, Gone(contexts), submitted, invoked)
  BY HeldItem
<1> QED BY <1>1, ItemIs, ExecutorsAssumption DEF ItemGood, Goal, OwnContexts

LEMMA ResetStep ==
  ASSUME ExecInv, NEW t \in Runners, Executing!Reset(t)
  PROVE  ExecInv'
<1> DEFINE task == frame[t].task
           o == [frame[t] EXCEPT !.at = "end"]
           g == [o EXCEPT !.owns = FALSE]
           gr == [frame EXCEPT ![t] = g]
           x == Here(frame[t], t)
           ds == Executing!on_work_finished(contexts, Executing!get_associated_executor(task.ex))
<1>1. /\ frame[t].at = "reset" /\ contexts' = ds /\ frame' = gr
      /\ impls' = impls /\ handles' = handles /\ submitted' = submitted /\ invoked' = invoked
  BY DEF Executing!Reset
<1>2. /\ ItemGood(x, impls, Gone(contexts), submitted, invoked) /\ frame[t] \in RunnerType
      /\ x.task = task /\ x.at = "reset" /\ task \in TaskType
  BY <1>1, HeldItem DEF Here
<1>3. task.dispatcher
  BY <1>2 DEF ItemGood
<1>4. o \in RunnerType /\ o.task = task /\ o.at = "end"
  BY <1>2, AtPut
<1> HIDE DEF o
<1>5. g \in RunnerType /\ g.task = task /\ g.at = "end" /\ g.owns = FALSE
  BY <1>4 DEF RunnerType
<1> HIDE DEF g
<1>6. RunnerGood(g)
  BY <1>5 DEF RunnerGood
<1>7. Finished(contexts, ds, GuardFreed(x, impls))
  <2>1. GuardFreed(x, impls) = {Goal(impls, task)} \ {System}
    BY <1>2, <1>3 DEF GuardFreed, Owning
  <2>2. Goal(impls, task) \in Contexts
    BY <1>1, HereGoal
  <2> QED BY <1>2, <2>1, <2>2, FreedIs
<1> HIDE DEF ds, x
<1>8. ExecWorld(ds, impls, handles, gr, submitted, invoked)
  BY <1>1, <1>5, <1>6, <1>7, GuardDropped DEF ExecInv, x
<1> QED BY <1>1, <1>8 DEF ExecInv

LEMMA RefsLeave ==
  ASSUME NEW im, ImplsType(im), NEW ha, NEW I, IsFiniteSet(I), RefsGood(im, ha, I),
         NEW y \in I, NEW jm, TaskUncounted(im, jm, y.task)
  PROVE  RefsGood(jm, ha, I \ {y})
<1>1. ASSUME NEW i \in ImplIds
      PROVE  jm[i].refs = Cardinality(Holders(ha, i)) + Cardinality(HeldBy(I \ {y}, i))
  <2>1. Counted(I \ {y}, y, I, im, 0, i)
    BY ItemRemoved
  <2>2. /\ im[i].refs = Cardinality(Holders(ha, i)) + Cardinality(HeldBy(I, i))
        /\ jm[i].refs = im[i].refs - Executing!Copies(y.task, i)
    BY DEF RefsGood, TaskUncounted
  <2>3. Cardinality(Holders(ha, i)) \in Nat
    BY HoldersAre
  <2> QED BY <2>1, <2>2, <2>3 DEF Counted
<1>2. \A v \in Variables : ha[v] \in ImplIds => jm[ha[v]].target \in OwnContexts
  BY DEF RefsGood, TaskUncounted
<1> QED BY <1>1, <1>2 DEF RefsGood

(* A task that has ended leaves, with its references. *)
LEMMA EndKeeps ==
  ASSUME NEW cs, NEW im, NEW ha, NEW fr, NEW sub, NEW inv, ExecWorld(cs, im, ha, fr, sub, inv),
         NEW t \in Runners, fr[t].at = "end",
         NEW ds, Finished(cs, ds, IF t = "main" THEN {} ELSE {t}),
         NEW jm, TaskUncounted(im, jm, fr[t].task),
         NEW gr, gr = [fr EXCEPT ![t] = Executing!Idle]
  PROVE  ExecWorld(ds, jm, ha, gr, sub, inv)
<1> DEFINE I == InFlight(cs, fr)
           y == Here(fr[t], t)
           J == I \ {y}
           S == IF t = "main" THEN {} ELSE {t}
<1>1. /\ StateType(cs, fr) /\ FlightGood(I, im, Gone(cs), sub, inv) /\ RefsGood(im, ha, I)
      /\ WorkGood(cs, im, I) /\ ContextsGood(cs) /\ IsFiniteSet(I) /\ RunnersGood(fr)
      /\ ImplsType(im)
  BY DEF ExecWorld, FlightGood, RunnersGood, ImplsType
<1>2. y \in I /\ y.task = fr[t].task /\ y.at = "end" /\ y.by = t
  BY <1>1, RunnerHolds, ItemIs DEF Here
<1>3. /\ StateType(cs, gr) /\ RunnersGood(gr) /\ gr[t] = Executing!Idle /\ gr[t].at = "idle"
      /\ \A u \in Runners : u # t => gr[u] = fr[u]
  BY <1>1, IdleIs DEF StateType, RunnersGood
<1>4. InFlight(cs, gr) = J
  <2>1. fr[t].at # "idle"
    OBVIOUS
  <2>2. InFlight(cs, gr) = InFlight(cs, fr) \ {Item(fr[t].task, fr[t].at, t)}
    BY ONLY <1>1, <1>3, <2>1, RunnerEnds, t \in Runners
  <2> QED BY <2>2 DEF Here
<1>5. InFlight(ds, gr) = J
  <2>1. \A c \in Contexts : ds[c].queue = cs[c].queue
    BY DEF Finished, SameAs
  <2> QED BY <1>4, <2>1, FlightSame
<1> HIDE DEF I, y
<1>6. FlightGood(J, im, Gone(cs), sub, inv) /\ IsFiniteSet(J)
  BY <1>1, FlightLeaves, FS_RemoveElement
<1>7. ASSUME NEW c \in Contexts
      PROVE  Reasons(I, im, c) = Reasons(J, im, c) + (IF c \in S THEN 1 ELSE 0)
  <2>1. Reasons(I, im, c) = Reasons(J, im, c) + TaskOf(y, c) + GuardOf(y, im, c)
    BY <1>1, <1>2, ReasonsRemoved
  <2>2. Reasons(J, im, c) \in Nat /\ c # "main"
    BY <1>6, ReasonsAre, ExecutorsAssumption
  <2>3. GuardOf(y, im, c) = 0 /\ TaskOf(y, c) = (IF c \in S THEN 1 ELSE 0)
    BY <1>2, <2>2 DEF GuardOf, Owning, TaskOf
  <2> HIDE DEF J, S
  <2> QED BY <2>1, <2>2, <2>3
<1>8. RefsGood(jm, ha, J)
  BY <1>1, <1>2, RefsLeave
<1>9. ImplsKept(im, jm) /\ jm \in [ImplIds -> ImplType]
  BY CountedKept DEF ImplsKept, ImplsType
<1>10. Finished(cs, ds, S)
  OBVIOUS
<1> HIDE DEF J, S
<1>11. WorkGood(ds, im, J) /\ ContextsGood(ds) /\ Gone(ds) = Gone(cs)
  BY ONLY <1>1, <1>6, <1>7, <1>10, FinishKeeps
<1>12. FlightGood(J, jm, Gone(cs), sub, inv) /\ WorkGood(ds, jm, J)
  <2>1. FlightGood(J, jm, Gone(cs), sub, inv)
    BY <1>6, <1>9, KeptGoals
  <2> QED BY <1>6, <1>9, <1>11, <2>1, KeptWork
<1>13. StateType(ds, gr)
  BY <1>3, <1>10 DEF StateType, Finished
<1> QED BY <1>3, <1>5, <1>8, <1>9, <1>11, <1>12, <1>13 DEF ExecWorld, RunnersGood

(* Flags: the tasks and the guards stay. *)
LEMMA FlagsKeep ==
  ASSUME NEW cs, NEW im, NEW ha, NEW fr, NEW sub, NEW inv, ExecWorld(cs, im, ha, fr, sub, inv),
         NEW ds, ds \in [Contexts -> ContextType],
         \A c \in Contexts : /\ ds[c].queue = cs[c].queue /\ ds[c].destroyed = cs[c].destroyed
                             /\ ds[c].work - OwnWork(c, ds[c]) = cs[c].work - OwnWork(c, cs[c])
                             /\ c \in Pools => PoolGood(ds[c]),
         ds[System].join = "no", ~ds[System].asked
  PROVE  ExecWorld(ds, im, ha, fr, sub, inv)
<1>1. StateType(cs, fr) /\ StateType(ds, fr) /\ ContextsGood(cs)
  BY DEF ExecWorld, StateType
<1>2. InFlight(ds, fr) = InFlight(cs, fr)
  BY FlightSame
<1>3. Gone(ds) = Gone(cs)
  BY DEF Gone
<1> DEFINE I == InFlight(cs, fr)
<1>4. IsFiniteSet(I) /\ WorkGood(cs, im, I)
  BY DEF ExecWorld, FlightGood
<1> HIDE DEF I
<1>5. ASSUME NEW c \in Contexts \ Gone(cs) PROVE ds[c].work = Reasons(I, im, c) + OwnWork(c, ds[c])
  <2>1. cs[c].work = Reasons(I, im, c) + OwnWork(c, cs[c])
    BY <1>4 DEF WorkGood, WorkOn
  <2>2. /\ ds[c].work - OwnWork(c, ds[c]) = cs[c].work - OwnWork(c, cs[c])
        /\ cs[c].work \in Int /\ ds[c].work \in Int
    BY <1>1 DEF StateType, ContextType
  <2>3. /\ Reasons(I, im, c) \in Nat
        /\ OwnWork(c, ds[c]) \in Int /\ OwnWork(c, cs[c]) \in Int
    BY <1>4, ReasonsAre DEF OwnWork
  <2> QED BY <2>1, <2>2, <2>3
<1>6. WorkGood(ds, im, I)
  BY <1>3, <1>5 DEF WorkGood, WorkOn
<1>7. System \in Contexts /\ Pools \subseteq Contexts
  BY ExecutorsAssumption
<1>8. ContextsGood(ds)
  BY <1>1, <1>7 DEF ContextsGood
<1> QED BY <1>1, <1>2, <1>3, <1>6, <1>8 DEF ExecWorld, I

LEMMA NothingFreed ==
  ASSUME NEW cs \in [Contexts -> ContextType]
  PROVE  Finished(cs, cs, {})
<1>1. \A c \in Contexts : cs[c].work \in Int /\ cs[c].stopped \in BOOLEAN
  BY DEF ContextType
<1> QED BY <1>1 DEF Finished, SameAs, SameFlags

LEMMA EndStep ==
  ASSUME ExecInv, NEW t \in Runners, Executing!End(t)
  PROVE  ExecInv'
<1> DEFINE f == frame[t]
           task == frame[t].task
           x == Here(f, t)
           cs == Executing!Released(contexts, f)
           left == IF t = "main" THEN cs ELSE Executing!work_finished(cs, t)
           ds == IF f.at = "threw" THEN [left EXCEPT ![t].running = FALSE] ELSE left
           jm == Executing!destroyTask(impls, task)
           g == [task |-> task, at |-> "end", owns |-> FALSE]
           fr == [frame EXCEPT ![t] = g]
           gr == [frame EXCEPT ![t] = Executing!Idle]
<1>1. /\ f.at \in {"end", "threw"} /\ impls' = jm /\ contexts' = ds /\ frame' = gr
      /\ handles' = handles /\ submitted' = submitted /\ invoked' = invoked
  BY DEF Executing!End
<1>2. /\ ItemGood(x, impls, Gone(contexts), submitted, invoked) /\ f \in RunnerType
      /\ x.task = task /\ x.at = f.at /\ x.by = t /\ task \in TaskType /\ RunnerGood(f)
  BY <1>1, HeldItem DEF Here
<1>3. f.owns \in BOOLEAN /\ task.dispatcher \in BOOLEAN
  BY <1>2 DEF RunnerType, TaskType
<1>4. f.owns <=> Owning(x)
  BY <1>1, <1>2, <1>3 DEF RunnerGood, Owning
<1>5. /\ contexts \in [Contexts -> ContextType] /\ frame \in [Runners -> RunnerType]
      /\ ImplsType(impls) /\ RunnersGood(frame)
  BY DEF ExecInv, ExecWorld, StateType, ImplsType, RunnersGood
<1> HIDE DEF x, f
<1>6. Finished(contexts, cs, GuardFreed(x, impls))
  <2>1. CASE f.owns
    <3>1. Goal(impls, task) \in Contexts
      BY <1>1, HereGoal DEF f
    <3>2. GuardFreed(x, impls) = {Goal(impls, task)} \ {System}
      BY <1>2, <1>4, <2>1 DEF GuardFreed
    <3>3. cs = Executing!on_work_finished(contexts, Executing!get_associated_executor(task.ex))
      BY <2>1 DEF Executing!Released, f
    <3> QED BY <1>2, <3>1, <3>2, <3>3, FreedIs
  <2>2. CASE ~f.owns
    <3>1. GuardFreed(x, impls) = {}
      BY <1>4, <2>2 DEF GuardFreed
    <3>2. cs = contexts
      BY <2>2 DEF Executing!Released
    <3> QED BY <1>5, <3>1, <3>2, NothingFreed
  <2> QED BY <2>1, <2>2
<1> HIDE DEF cs
<1>7. g \in RunnerType /\ g.task = task /\ g.at = "end" /\ RunnerGood(g)
  BY <1>2 DEF RunnerType, RunnerGood
<1> HIDE DEF g
<1>8. ExecWorld(cs, impls, handles, fr, submitted, invoked)
  <2>1. ExecWorld(contexts, impls, handles, frame, submitted, invoked) /\ frame[t].at \in {"reset", "end", "threw"}
    BY <1>1 DEF ExecInv, f
  <2> HIDE DEF fr
  <2>2. x = Here(frame[t], t) /\ g.task = frame[t].task /\ fr = [frame EXCEPT ![t] = g]
    BY <1>7 DEF x, f, fr
  <2> QED BY ONLY <1>6, <1>7, <2>1, <2>2, GuardDropped, t \in Runners
<1>9. fr[t] = g /\ gr = [fr EXCEPT ![t] = Executing!Idle]
  BY <1>5, <1>7
<1>10. cs \in [Contexts -> ContextType]
  BY <1>6 DEF Finished
<1>11. Finished(cs, left, IF t = "main" THEN {} ELSE {t})
  BY <1>10, NothingFreed, WorkFinishedIs DEF Runners
<1>12. TaskUncounted(impls, jm, task)
  BY <1>3, <1>5, DestroyTaskIs
<1> HIDE DEF left, jm, fr, gr
<1>13. ExecWorld(left, jm, handles, gr, submitted, invoked)
  <2>1. fr[t].at = "end" /\ TaskUncounted(impls, jm, fr[t].task)
    BY <1>7, <1>9, <1>12
  <2> QED BY ONLY <1>8, <1>9, <1>11, <2>1, EndKeeps, t \in Runners
<1>14. CASE f.at = "end"
  BY <1>1, <1>13, <1>14 DEF ExecInv
<1>15. CASE f.at = "threw"
  <2>1. t \in Contexts /\ t \notin Pools /\ t # System
    BY <1>2, <1>15, ExecutorsAssumption DEF ItemGood, Runners
  <2>2. left \in [Contexts -> ContextType] /\ left[t] \in ContextType /\ ContextsGood(left)
    BY <1>13, <2>1 DEF ExecWorld, StateType
  <2> DEFINE p == [left[t] EXCEPT !.running = FALSE]
  <2>3. /\ p \in ContextType /\ p.queue = left[t].queue /\ p.work = left[t].work
        /\ p.destroyed = left[t].destroyed /\ p.join = left[t].join
    BY <2>2 DEF ContextType
  <2>4. ds = [left EXCEPT ![t] = p]
    BY <1>15
  <2> HIDE DEF p, ds
  <2>5. ds \in [Contexts -> ContextType] /\ ds[t] = p /\ \A c \in Contexts : c # t => ds[c] = left[c]
    BY <2>1, <2>2, <2>3, <2>4
  <2>6. ASSUME NEW c \in Contexts
        PROVE  /\ ds[c].queue = left[c].queue /\ ds[c].destroyed = left[c].destroyed
               /\ ds[c].work - OwnWork(c, ds[c]) = left[c].work - OwnWork(c, left[c])
               /\ c \in Pools => PoolGood(ds[c])
    BY <2>1, <2>2, <2>3, <2>5 DEF OwnWork, ContextsGood
  <2>7. ds[System].join = "no" /\ ~ds[System].asked
    BY <2>1, <2>2, <2>5, ExecutorsAssumption DEF ContextsGood
  <2>8. ExecWorld(ds, jm, handles, gr, submitted, invoked)
    BY ONLY <1>13, <2>5, <2>6, <2>7, FlagsKeep
  <2> QED BY <1>1, <2>8 DEF ExecInv
<1> QED BY <1>1, <1>14, <1>15

-----------------------------------------------------------------------------
(* Running, joining, stopping and destroying contexts.                     *)
LEMMA OnePut ==
  ASSUME NEW cs \in [Contexts -> ContextType], NEW c \in Contexts, NEW p \in ContextType,
         NEW ds, ds = [cs EXCEPT ![c] = p]
  PROVE  ds \in [Contexts -> ContextType] /\ ds[c] = p /\ \A d \in Contexts : d # c => ds[d] = cs[d]
OBVIOUS

(* One context gets other flags. *)
LEMMA FlagsStep ==
  ASSUME ExecInv, NEW c \in Contexts, NEW p \in ContextType,
         p.queue = contexts[c].queue, p.destroyed = contexts[c].destroyed,
         p.work - OwnWork(c, p) = contexts[c].work - OwnWork(c, contexts[c]),
         c \in Pools => PoolGood(p), c = System => p.join = "no" /\ ~p.asked,
         contexts' = [contexts EXCEPT ![c] = p],
         impls' = impls, handles' = handles, frame' = frame, submitted' = submitted,
         invoked' = invoked
  PROVE  ExecInv'
<1> DEFINE ds == [contexts EXCEPT ![c] = p]
<1>1. contexts \in [Contexts -> ContextType] /\ ContextsGood(contexts)
  BY DEF ExecInv, ExecWorld, StateType
<1>2. ds \in [Contexts -> ContextType] /\ ds[c] = p /\ \A d \in Contexts : d # c => ds[d] = contexts[d]
  BY <1>1
<1>3. contexts' = ds
  OBVIOUS
<1> HIDE DEF ds
<1>4. ASSUME NEW d \in Contexts
      PROVE  /\ ds[d].queue = contexts[d].queue /\ ds[d].destroyed = contexts[d].destroyed
             /\ ds[d].work - OwnWork(d, ds[d]) = contexts[d].work - OwnWork(d, contexts[d])
             /\ d \in Pools => PoolGood(ds[d])
  <2>1. CASE d = c
    BY <1>2, <2>1
  <2>2. CASE d # c
    BY <1>1, <1>2, <2>2 DEF ContextsGood
  <2> QED BY <2>1, <2>2
<1>5. ds[System].join = "no" /\ ~ds[System].asked
  BY <1>1, <1>2, ExecutorsAssumption DEF ContextsGood
<1>6. ExecWorld(contexts, impls, handles, frame, submitted, invoked)
  BY DEF ExecInv
<1>7. ExecWorld(ds, impls, handles, frame, submitted, invoked)
  BY ONLY <1>2, <1>4, <1>5, <1>6, FlagsKeep
<1> QED BY <1>3, <1>7 DEF ExecInv

LEMMA ContextIs ==
  ASSUME ExecInv, NEW c \in Contexts
  PROVE  /\ contexts[c] \in ContextType /\ contexts[c].work \in Int
         /\ contexts[c].stopped \in BOOLEAN /\ contexts[c].running \in BOOLEAN
         /\ contexts[c].destroyed \in BOOLEAN /\ contexts[c].asked \in BOOLEAN
         /\ c \in Pools => PoolGood(contexts[c])
         /\ c = System => /\ contexts[c].join = "no" /\ ~contexts[c].asked
                          /\ ~contexts[c].destroyed
BY DEF ExecInv, ExecWorld, StateType, ContextType, ContextsGood

LEMMA RunStep ==
  ASSUME ExecInv, NEW c \in Contexts, Executing!run(c)
  PROVE  ExecInv'
<1> DEFINE s == contexts[c].work = 0
           o == [contexts[c] EXCEPT !.stopped = s]
           p == [o EXCEPT !.running = TRUE]
<1>1. /\ c \notin Pools /\ contexts' = [contexts EXCEPT ![c] = p]
      /\ impls' = impls /\ handles' = handles /\ frame' = frame /\ submitted' = submitted
      /\ invoked' = invoked
  BY DEF Executing!run
<1>2. contexts[c] \in ContextType /\ s \in BOOLEAN
  BY ContextIs
<1> HIDE DEF s
<1>3. /\ o \in ContextType /\ o.queue = contexts[c].queue /\ o.destroyed = contexts[c].destroyed
      /\ o.work = contexts[c].work
  BY <1>2 DEF ContextType
<1> HIDE DEF o
<1>4. /\ p \in ContextType /\ p.queue = contexts[c].queue /\ p.destroyed = contexts[c].destroyed
      /\ p.work = contexts[c].work
  BY <1>3 DEF ContextType
<1> HIDE DEF p
<1>5. OwnWork(c, p) = 0 /\ OwnWork(c, contexts[c]) = 0 /\ c # System
  BY <1>1, ExecutorsAssumption DEF OwnWork
<1> QED BY <1>1, <1>4, <1>5, FlagsStep

LEMMA ReturnStep ==
  ASSUME ExecInv, NEW c \in Contexts, Executing!Return(c)
  PROVE  ExecInv'
<1> DEFINE p == [contexts[c] EXCEPT !.running = FALSE]
<1>1. /\ contexts[c].stopped /\ contexts' = [contexts EXCEPT ![c] = p]
      /\ impls' = impls /\ handles' = handles /\ frame' = frame /\ submitted' = submitted
      /\ invoked' = invoked
  BY DEF Executing!Return
<1>2. /\ contexts[c] \in ContextType /\ (c \in Pools => PoolGood(contexts[c]))
      /\ c = System => contexts[c].join = "no" /\ ~contexts[c].asked
  BY ContextIs
<1>3. /\ p \in ContextType /\ p.queue = contexts[c].queue /\ p.destroyed = contexts[c].destroyed
      /\ p.work = contexts[c].work /\ p.join = contexts[c].join /\ p.asked = contexts[c].asked
      /\ p.stopped = contexts[c].stopped /\ ~p.running
  BY <1>2 DEF ContextType
<1> HIDE DEF p
<1>4. OwnWork(c, p) = OwnWork(c, contexts[c])
  BY <1>3 DEF OwnWork
<1>5. c \in Pools => PoolGood(p)
  BY <1>1, <1>2, <1>3 DEF PoolGood
<1> QED BY <1>1, <1>2, <1>3, <1>4, <1>5, FlagsStep

LEMMA JoinedStep ==
  ASSUME ExecInv, NEW c \in Contexts, Executing!Joined(c)
  PROVE  ExecInv'
<1> DEFINE p == [contexts[c] EXCEPT !.join = "joined"]
<1>1. /\ contexts[c].join = "joining" /\ ~contexts[c].running
      /\ contexts' = [contexts EXCEPT ![c] = p]
      /\ impls' = impls /\ handles' = handles /\ frame' = frame /\ submitted' = submitted
      /\ invoked' = invoked
  BY DEF Executing!Joined
<1>2. /\ contexts[c] \in ContextType /\ (c \in Pools => PoolGood(contexts[c]))
      /\ c # System
  BY <1>1, ContextIs
<1>3. /\ p \in ContextType /\ p.queue = contexts[c].queue /\ p.destroyed = contexts[c].destroyed
      /\ p.work = contexts[c].work /\ p.join = "joined" /\ p.asked = contexts[c].asked
      /\ p.stopped = contexts[c].stopped /\ p.running = contexts[c].running
  BY <1>2 DEF ContextType
<1> HIDE DEF p
<1>4. OwnWork(c, p) = OwnWork(c, contexts[c])
  BY <1>1, <1>3 DEF OwnWork
<1>5. c \in Pools => PoolGood(p)
  BY <1>1, <1>2, <1>3 DEF PoolGood
<1> QED BY <1>1, <1>2, <1>3, <1>4, <1>5, FlagsStep

LEMMA StopStep ==
  ASSUME ExecInv, NEW c \in Contexts, Executing!stop(c)
  PROVE  ExecInv'
<1> DEFINE o == [contexts[c] EXCEPT !.stopped = TRUE]
           p == [o EXCEPT !.asked = TRUE]
<1>1. /\ c # System /\ contexts' = [contexts EXCEPT ![c] = p]
      /\ impls' = impls /\ handles' = handles /\ frame' = frame /\ submitted' = submitted
      /\ invoked' = invoked
  BY DEF Executing!stop, Executing!Own
<1>2. contexts[c] \in ContextType /\ (c \in Pools => PoolGood(contexts[c]))
  BY ContextIs
<1>3. /\ o \in ContextType /\ o.queue = contexts[c].queue /\ o.destroyed = contexts[c].destroyed
      /\ o.work = contexts[c].work /\ o.join = contexts[c].join /\ o.stopped
      /\ o.running = contexts[c].running
  BY <1>2 DEF ContextType
<1> HIDE DEF o
<1>4. /\ p \in ContextType /\ p.queue = contexts[c].queue /\ p.destroyed = contexts[c].destroyed
      /\ p.work = contexts[c].work /\ p.join = contexts[c].join /\ p.stopped /\ p.asked
      /\ p.running = contexts[c].running
  BY <1>3 DEF ContextType
<1> HIDE DEF p
<1>5. OwnWork(c, p) = OwnWork(c, contexts[c])
  BY <1>4 DEF OwnWork
<1>6. c \in Pools => PoolGood(p)
  BY <1>1, <1>2, <1>4 DEF PoolGood
<1> QED BY <1>1, <1>4, <1>5, <1>6, FlagsStep

LEMMA JoinStep ==
  ASSUME ExecInv, NEW c \in Contexts, Executing!join(c)
  PROVE  ExecInv'
<1> DEFINE ds == Executing!work_finished(contexts, c)
           p == [ds[c] EXCEPT !.join = "joining"]
<1>1. /\ c \in Pools /\ c # System /\ contexts[c].join = "no" /\ ~contexts[c].destroyed
      /\ contexts' = [ds EXCEPT ![c] = p]
      /\ impls' = impls /\ handles' = handles /\ frame' = frame /\ submitted' = submitted
      /\ invoked' = invoked
  BY DEF Executing!join, Executing!Own, Executing!Open
<1>2. /\ contexts \in [Contexts -> ContextType] /\ contexts[c] \in ContextType /\ PoolGood(contexts[c])
      /\ contexts[c].work \in Int /\ contexts[c].stopped \in BOOLEAN
  BY <1>1, ContextIs DEF ExecInv, ExecWorld, StateType
<1>3. Finished(contexts, ds, {c})
  BY <1>2, WorkFinishedIs
<1>3a. \A d \in Contexts : d # c => ds[d] = contexts[d]
  BY <1>2 DEF Executing!work_finished
<1> HIDE DEF ds
<1>4. /\ ds[c] \in ContextType /\ SameAs(ds[c], contexts[c]) /\ ds[c].work = contexts[c].work - 1
      /\ ds[c].stopped = (contexts[c].stopped \/ contexts[c].work = 1)
      /\ ds \in [Contexts -> ContextType]
  <2>1. c \in {c}
    OBVIOUS
  <2> QED BY <1>3, <2>1 DEF Finished
<1>5. /\ p \in ContextType /\ p.queue = contexts[c].queue /\ p.destroyed = contexts[c].destroyed
      /\ p.work = contexts[c].work - 1 /\ p.join = "joining" /\ p.asked = contexts[c].asked
      /\ p.stopped = (contexts[c].stopped \/ contexts[c].work = 1)
      /\ p.running = contexts[c].running
  BY <1>4 DEF ContextType, SameAs, SameFlags
<1> HIDE DEF p
<1>6. [ds EXCEPT ![c] = p] = [contexts EXCEPT ![c] = p]
  BY <1>2, <1>3a, <1>4
<1>7. OwnWork(c, p) = 0 /\ OwnWork(c, contexts[c]) = 1
  BY <1>1, <1>5 DEF OwnWork
<1>8. p.work - OwnWork(c, p) = contexts[c].work - OwnWork(c, contexts[c])
  BY <1>2, <1>5, <1>7
<1>9. PoolGood(p)
  <2>1. p.stopped /\ ~p.asked /\ ~p.destroyed => p.work = 0
    <3> SUFFICES ASSUME p.stopped, ~p.asked, ~p.destroyed PROVE p.work = 0
      OBVIOUS
    <3>1. ~contexts[c].stopped
      BY <1>1, <1>2, <1>5 DEF PoolGood
    <3>2. contexts[c].work = 1
      BY <1>5, <3>1
    <3> QED BY <1>5, <3>2
  <2>2. ~p.running => p.stopped
    BY <1>2, <1>5 DEF PoolGood
  <2> QED BY <1>5, <2>1, <2>2 DEF PoolGood
<1> QED BY <1>1, <1>5, <1>6, <1>8, <1>9, FlagsStep

(* A context is destroyed: the tasks in its queue go one by one.           *)
Destroying(J, im, cs, c) ==
  /\ ImplsType(im) /\ RefsGood(im, handles, J)
  /\ \A i \in ImplIds : im[i].target = impls[i].target
  /\ cs \in [Contexts -> ContextType]
  /\ \A d \in Contexts : SameAs(cs[d], contexts[d]) /\ (contexts[d].stopped => cs[d].stopped)
  /\ WorkOn((Contexts \ Gone(contexts)) \ {c}, cs, impls, J)
  /\ \A d \in Pools \ {c} : PoolGood(cs[d])

LEMMA DestroyOne ==
  ASSUME ExecInv, NEW c \in Contexts, NEW J, J \subseteq InFlight(contexts, frame),
         NEW im, NEW cs, Destroying(J, im, cs, c),
         NEW task \in TaskType, NEW x, x = Item(task, "queued", c), x \in J,
         NEW jm, jm = Executing!destroyTask(im, task),
         NEW ds, ds = IF task.dispatcher
                      THEN Executing!on_work_finished(cs, Executing!get_associated_executor(task.ex))
                      ELSE cs
  PROVE  Destroying(J \ {x}, jm, ds, c)
<1> DEFINE D == (Contexts \ Gone(contexts)) \ {c}
           S == GuardFreed(x, impls)
<1>1. FlightGood(InFlight(contexts, frame), impls, Gone(contexts), submitted, invoked)
  BY DEF ExecInv, ExecWorld
<1>2. IsFiniteSet(J) /\ IsFiniteSet(J \ {x}) /\ ItemGood(x, impls, Gone(contexts), submitted, invoked)
  <2>1. IsFiniteSet(J)
    BY <1>1, FS_Subset DEF FlightGood
  <2> QED BY <1>1, <2>1, FS_RemoveElement DEF FlightGood
<1>3. x.task = task /\ x.at = "queued" /\ x.by = c /\ task.dispatcher \in BOOLEAN
  BY ItemIs DEF TaskType
<1>4. Goal(impls, task) \in Contexts
  BY <1>2, <1>3, ExecutorsAssumption DEF ItemGood, Goal, OwnContexts
<1>5. /\ ImplsType(im) /\ RefsGood(im, handles, J) /\ cs \in [Contexts -> ContextType]
      /\ \A i \in ImplIds : im[i].target = impls[i].target
      /\ \A d \in Contexts : SameAs(cs[d], contexts[d]) /\ (contexts[d].stopped => cs[d].stopped)
      /\ WorkOn(D, cs, impls, J)
      /\ \A d \in Pools \ {c} : PoolGood(cs[d])
  BY DEF Destroying
<1>6. TaskUncounted(im, jm, task)
  BY <1>3, <1>5, DestroyTaskIs
<1>7. Finished(cs, ds, S)
  <2>1. CASE task.dispatcher
    <3>1. S = {Goal(impls, task)} \ {System}
      BY <1>3, <2>1 DEF GuardFreed, Owning
    <3>2. Executing!Target(Executing!get_associated_executor(task.ex)) = Goal(impls, task)
      BY GoalIs DEF TaskType
    <3> QED BY <1>4, <1>5, <2>1, <3>1, <3>2, GuardEndIs
  <2>2. CASE ~task.dispatcher
    <3>1. S = {}
      BY <1>3, <2>2 DEF GuardFreed, Owning
    <3>2. ds = cs
      BY <2>2
    <3> QED BY <1>5, <3>1, <3>2, NothingFreed
  <2> QED BY <2>1, <2>2
<1>8. RefsGood(jm, handles, J \ {x})
  BY <1>2, <1>3, <1>5, <1>6, RefsLeave
<1>9. ASSUME NEW d \in D PROVE Reasons(J, impls, d) = Reasons(J \ {x}, impls, d) + (IF d \in S THEN 1 ELSE 0)
  <2>1. Reasons(J, impls, d) = Reasons(J \ {x}, impls, d) + TaskOf(x, d) + GuardOf(x, impls, d)
    BY <1>2, ReasonsRemoved
  <2>2. TaskOf(x, d) = 0 /\ GuardOf(x, impls, d) = (IF d \in S THEN 1 ELSE 0)
    BY <1>3 DEF TaskOf, GuardOf, GuardFreed
  <2>3. Reasons(J \ {x}, impls, d) \in Nat
    BY <1>2, ReasonsAre
  <2> HIDE DEF S, D
  <2> QED BY <2>1, <2>2, <2>3
<1> HIDE DEF S, D
<1>10. WorkOn(D, ds, impls, J \ {x}) /\ \A d \in D \cap Pools : PoolGood(cs[d]) => PoolGood(ds[d])
  <2>1. D \subseteq Contexts /\ cs \in [Contexts -> ContextType] /\ WorkOn(D, cs, impls, J)
    BY <1>5 DEF D
  <2> DEFINE K == J \ {x}
  <2>2. IsFiniteSet(J) /\ IsFiniteSet(K) /\ Fewer(D, impls, J, K, S)
    BY <1>2, <1>9 DEF Fewer
  <2> HIDE DEF K
  <2>3. WorkOn(D, ds, impls, K) /\ \A d \in D \cap Pools : PoolGood(cs[d]) => PoolGood(ds[d])
    BY ONLY <1>7, <2>1, <2>2, WorkDown
  <2> QED BY <2>3 DEF K
<1>11. ASSUME NEW d \in Contexts
       PROVE  SameAs(ds[d], contexts[d]) /\ (contexts[d].stopped => ds[d].stopped)
  <2>1. SameAs(ds[d], cs[d]) /\ (cs[d].stopped => ds[d].stopped)
    BY <1>7 DEF Finished
  <2> QED BY <1>5, <2>1 DEF SameAs, SameFlags
<1>12. ASSUME NEW d \in Pools \ {c} PROVE PoolGood(ds[d])
  <2>1. d \in Contexts /\ PoolGood(cs[d])
    BY <1>5, ExecutorsAssumption
  <2>2. CASE d \in D
    BY <1>10, <2>1, <2>2
  <2>3. CASE d \notin D
    <3>1. contexts[d].destroyed
      BY <2>1, <2>3 DEF D, Gone
    <3>2. /\ SameAs(cs[d], contexts[d]) /\ SameAs(ds[d], contexts[d])
          /\ cs[d].stopped => ds[d].stopped
      BY <1>5, <1>7, <1>11, <2>1 DEF Finished
    <3> QED BY <2>1, <3>1, <3>2 DEF PoolGood, SameAs, SameFlags
  <2> QED BY <2>2, <2>3
<1>13. ImplsType(jm) /\ (\A i \in ImplIds : jm[i].target = impls[i].target) /\ ds \in [Contexts -> ContextType]
  BY <1>5, <1>6, <1>7 DEF TaskUncounted, Finished
<1> QED BY <1>8, <1>10, <1>11, <1>12, <1>13 DEF Destroying, D

(* The loops over the queue, in steps. *)
FreedBy(g, n, q) ==
  g = [i \in 0 .. n |-> IF i = 0 THEN impls ELSE Executing!destroyTask(g[i - 1], q[i])]
RestBy(g, n, q) ==
  g = [i \in 0 .. n |->
         IF i = 0 THEN contexts
         ELSE IF q[i].dispatcher
         THEN Executing!on_work_finished(g[i - 1], Executing!get_associated_executor(q[i].ex))
         ELSE g[i - 1]]

LEMMA FreedExists ==
  ASSUME NEW n \in Nat, NEW q PROVE \E g : FreedBy(g, n, q)
<1> DEFINE T == {m \in Nat : \E g : FreedBy(g, m, q)}
<1>1. 0 \in T
  <2>1. FreedBy([i \in 0 .. 0 |-> impls], 0, q)
    BY DEF FreedBy
  <2> QED BY <2>1
<1>2. ASSUME NEW m \in T PROVE m + 1 \in T
  <2>1. PICK g : FreedBy(g, m, q)
    OBVIOUS
  <2> DEFINE h == [i \in 0 .. (m + 1) |->
                     IF i = m + 1 THEN Executing!destroyTask(g[m], q[m + 1]) ELSE g[i]]
  <2>2. FreedBy(h, m + 1, q)
    BY <2>1 DEF FreedBy
  <2> HIDE DEF h
  <2> QED BY <2>2
<1>3. T = Nat
  <2> HIDE DEF T
  <2>1. T \subseteq Nat
    BY DEF T
  <2> QED BY <1>1, <1>2, <2>1, SetInduction
<1> QED BY <1>3

LEMMA RestExists ==
  ASSUME NEW n \in Nat, NEW q PROVE \E g : RestBy(g, n, q)
<1> DEFINE T == {m \in Nat : \E g : RestBy(g, m, q)}
<1>1. 0 \in T
  <2>1. RestBy([i \in 0 .. 0 |-> contexts], 0, q)
    BY DEF RestBy
  <2> QED BY <2>1
<1>2. ASSUME NEW m \in T PROVE m + 1 \in T
  <2>1. PICK g : RestBy(g, m, q)
    OBVIOUS
  <2> DEFINE h == [i \in 0 .. (m + 1) |->
                     IF i = m + 1
                     THEN IF q[m + 1].dispatcher
                          THEN Executing!on_work_finished(g[m],
                                 Executing!get_associated_executor(q[m + 1].ex))
                          ELSE g[m]
                     ELSE g[i]]
  <2>2. RestBy(h, m + 1, q)
    BY <2>1 DEF RestBy
  <2> HIDE DEF h
  <2> QED BY <2>2
<1>3. T = Nat
  <2> HIDE DEF T
  <2>1. T \subseteq Nat
    BY DEF T
  <2> QED BY <1>1, <1>2, <2>1, SetInduction
<1> QED BY <1>3

LEMMA QueueDestroyed ==
  ASSUME ExecInv, NEW c \in Contexts, NEW q, q = contexts[c].queue, NEW n, n = Len(q),
         NEW fs, FreedBy(fs, n, q), NEW rs, RestBy(rs, n, q)
  PROVE  Destroying(InFlight(contexts, frame) \ QueueItems(c, q), fs[n], rs[n], c)
<1> DEFINE I == InFlight(contexts, frame)
           Before(i) == {Item(q[j], "queued", c) : j \in 1 .. i}
           Good(i) == Destroying(I \ Before(i), fs[i], rs[i], c)
           T == {i \in 0 .. n : Good(i)}
<1>1. /\ StateType(contexts, frame) /\ ImplsType(impls) /\ RefsGood(impls, handles, I)
      /\ WorkGood(contexts, impls, I) /\ ContextsGood(contexts)
      /\ contexts \in [Contexts -> ContextType]
  BY DEF ExecInv, ExecWorld, ImplsType, StateType
<1>2. q \in Seq(TaskType) /\ n \in Nat /\ NoDup(q) /\ DOMAIN q = 1 .. n
  <2>1. q \in Seq(TaskType) /\ NoDup(q)
    BY <1>1 DEF ContextType, ContextsGood
  <2> QED BY ONLY <2>1, n = Len(q)
<1>3. /\ fs[0] = impls /\ rs[0] = contexts
      /\ \A i \in 0 .. (n - 1) :
           /\ fs[i + 1] = Executing!destroyTask(fs[i], q[i + 1])
           /\ rs[i + 1] = IF q[i + 1].dispatcher
                          THEN Executing!on_work_finished(rs[i],
                                 Executing!get_associated_executor(q[i + 1].ex))
                          ELSE rs[i]
  BY <1>2 DEF FreedBy, RestBy
<1>4. Good(0)
  <2>1. Before(0) = {} /\ I \ {} = I
    OBVIOUS
  <2>2. WorkOn((Contexts \ Gone(contexts)) \ {c}, contexts, impls, I)
    BY <1>1 DEF WorkGood, WorkOn
  <2>3. \A d \in Pools \ {c} : PoolGood(contexts[d])
    BY <1>1 DEF ContextsGood
  <2>4. Destroying(I, impls, contexts, c)
    BY <1>1, <2>2, <2>3 DEF Destroying, SameAs, SameFlags
  <2> QED BY <1>3, <2>1, <2>4
<1>5. ASSUME NEW i \in 0 .. (n - 1), Good(i) PROVE Good(i + 1)
  <2> DEFINE task == q[i + 1]
             x == Item(task, "queued", c)
             J == I \ Before(i)
             K == I \ Before(i + 1)
  <2>1. i \in Nat /\ i + 1 \in DOMAIN q /\ i + 1 \in 1 .. n /\ task \in TaskType
    BY <1>2
  <2>2. x \in I
    BY <1>1, <2>1, QueueHolds
  <2>3. ASSUME NEW j \in 1 .. i PROVE x # Item(q[j], "queued", c)
    <3>1. j \in DOMAIN q /\ j # i + 1
      BY <1>2, <2>1
    <3>2. q[j].h # task.h
      BY <1>2, <2>1, <3>1 DEF NoDup
    <3>3. x.task = task /\ Item(q[j], "queued", c).task = q[j]
      BY ItemIs
    <3> QED BY <3>2, <3>3
  <2>4. x \in J
    BY <2>2, <2>3
  <2>5. K = J \ {x}
    <3>1. 1 .. (i + 1) = (1 .. i) \cup {i + 1}
      BY <2>1
    <3>2. Before(i + 1) = Before(i) \cup {x}
      BY <3>1
    <3> HIDE DEF Before, x
    <3> QED BY <3>2
  <2> DEFINE im == fs[i]
             cs == rs[i]
             jm == fs[i + 1]
             ds == rs[i + 1]
  <2>6. /\ jm = Executing!destroyTask(im, task)
        /\ ds = IF task.dispatcher
                THEN Executing!on_work_finished(cs, Executing!get_associated_executor(task.ex))
                ELSE cs
    BY <1>3
  <2>7. Destroying(J, im, cs, c)
    BY <1>5
  <2>8. J \subseteq InFlight(contexts, frame) /\ x = Item(task, "queued", c)
    OBVIOUS
  <2> HIDE DEF J, K, x, im, cs, jm, ds, task
  <2>9. Destroying(J \ {x}, jm, ds, c)
    BY ONLY ExecInv, c \in Contexts, <2>1, <2>4, <2>6, <2>7, <2>8, DestroyOne
  <2>10. Destroying(K, jm, ds, c)
    BY <2>5, <2>9
  <2> QED BY <2>10 DEF K, jm, ds
<1>6. \A i \in 0 .. n : i \in T
  <2> HIDE DEF Good
  <2>1. 0 \in T
    BY <1>2, <1>4
  <2>2. \A i \in 0 .. (n - 1) : i \in T => i + 1 \in T
    BY <1>2, <1>5
  <2> HIDE DEF T
  <2> QED BY <1>2, <2>1, <2>2, BoundedInduction
<1>7. Before(n) = QueueItems(c, q)
  BY <1>2 DEF QueueItems
<1>8. Good(n)
  <2> HIDE DEF Good
  <2> QED BY <1>2, <1>6
<1> QED BY <1>7, <1>8

LEMMA DestructStep ==
  ASSUME ExecInv, NEW c \in Contexts, Executing!destruct(c)
  PROVE  ExecInv'
<1> DEFINE q == contexts[c].queue
           n == Len(q)
           I == InFlight(contexts, frame)
           J == I \ QueueItems(c, q)
           fs[i \in 0 .. Len(q)] ==
             IF i = 0 THEN impls ELSE Executing!destroyTask(fs[i - 1], q[i])
           rs[i \in 0 .. Len(q)] ==
             IF i = 0 THEN contexts
             ELSE IF q[i].dispatcher
             THEN Executing!on_work_finished(rs[i - 1], Executing!get_associated_executor(q[i].ex))
             ELSE rs[i - 1]
           jm == fs[Len(q)]
           cs == rs[Len(q)]
           ds == [cs EXCEPT ![c].queue = <<>>, ![c].destroyed = TRUE]
<1>1. /\ c # System /\ ~contexts[c].destroyed /\ ~contexts[c].running
      /\ ~Executing!Elsewhere(c)
      /\ handles' = handles /\ frame' = frame /\ submitted' = submitted /\ invoked' = invoked
  BY DEF Executing!destruct, Executing!Own
<1>2. impls' = jm /\ contexts' = ds
  BY DEF Executing!destruct
<1>3. q \in Seq(TaskType) /\ n \in Nat
  BY ContextIs DEF ContextType
<1>4. FreedBy(fs, n, q)
  <2>1. \E g : g = [i \in 0 .. Len(q) |-> IF i = 0 THEN impls ELSE Executing!destroyTask(g[i - 1], q[i])]
    BY <1>3, FreedExists DEF FreedBy
  <2>2. fs = [i \in 0 .. Len(q) |-> IF i = 0 THEN impls ELSE Executing!destroyTask(fs[i - 1], q[i])]
    BY <2>1
  <2> QED BY <2>2 DEF FreedBy
<1>5. RestBy(rs, n, q)
  <2>1. \E g : g = [i \in 0 .. Len(q) |->
                     IF i = 0 THEN contexts
                     ELSE IF q[i].dispatcher
                     THEN Executing!on_work_finished(g[i - 1], Executing!get_associated_executor(q[i].ex))
                     ELSE g[i - 1]]
    BY <1>3, RestExists DEF RestBy
  <2>2. rs = [i \in 0 .. Len(q) |->
                     IF i = 0 THEN contexts
                     ELSE IF q[i].dispatcher
                     THEN Executing!on_work_finished(rs[i - 1], Executing!get_associated_executor(q[i].ex))
                     ELSE rs[i - 1]]
    BY <2>1
  <2> QED BY <2>2 DEF RestBy
<1> HIDE DEF fs, rs
<1>6. Destroying(J, jm, cs, c)
  <2>1. q = contexts[c].queue /\ n = Len(q)
    OBVIOUS
  <2> HIDE DEF q, n
  <2>2. Destroying(InFlight(contexts, frame) \ QueueItems(c, q), fs[n], rs[n], c)
    BY <1>4, <1>5, <2>1, QueueDestroyed
  <2> QED BY <2>1, <2>2
<1> HIDE DEF J, jm, cs
<1>7. /\ ImplsType(jm) /\ RefsGood(jm, handles, J) /\ cs \in [Contexts -> ContextType]
      /\ \A i \in ImplIds : jm[i].target = impls[i].target
      /\ \A d \in Contexts : SameAs(cs[d], contexts[d]) /\ (contexts[d].stopped => cs[d].stopped)
      /\ WorkOn((Contexts \ Gone(contexts)) \ {c}, cs, impls, J)
      /\ \A d \in Pools \ {c} : PoolGood(cs[d])
  BY <1>6 DEF Destroying
<1>8. /\ StateType(contexts, frame) /\ ContextsGood(contexts)
      /\ FlightGood(I, impls, Gone(contexts), submitted, invoked)
  BY DEF ExecInv, ExecWorld
<1> DEFINE o == [cs[c] EXCEPT !.queue = <<>>]
           p == [o EXCEPT !.destroyed = TRUE]
<1>9. /\ p \in ContextType /\ p.queue = <<>> /\ p.destroyed /\ p.running = contexts[c].running
      /\ p.stopped = cs[c].stopped
  <2>1. cs[c] \in ContextType /\ cs[c].running = contexts[c].running /\ <<>> \in Seq(TaskType)
    BY <1>7 DEF SameAs, SameFlags
  <2>2. /\ o \in ContextType /\ o.queue = <<>> /\ o.running = cs[c].running
        /\ o.stopped = cs[c].stopped
    BY <2>1 DEF ContextType
  <2> HIDE DEF o
  <2>3. /\ p \in ContextType /\ p.queue = o.queue /\ p.destroyed /\ p.running = o.running
        /\ p.stopped = o.stopped
    BY <2>2 DEF ContextType
  <2> QED BY <2>1, <2>2, <2>3
<1>10. ds = [cs EXCEPT ![c] = p]
  BY <1>7
<1> HIDE DEF p, ds
<1>11. ds \in [Contexts -> ContextType] /\ ds[c] = p /\ \A d \in Contexts : d # c => ds[d] = cs[d]
  BY <1>7, <1>9, <1>10
<1>12. StateType(ds, frame)
  BY <1>8, <1>11 DEF StateType
<1>13. InFlight(ds, frame) = J
  <2>1. \A d \in Contexts : d # c => ds[d].queue = contexts[d].queue
    BY <1>7, <1>11 DEF SameAs
  <2>2. QueueItems(c, ds[c].queue) = {}
    BY <1>9, <1>11 DEF QueueItems
  <2>3. InFlight(ds, frame) =
          (InFlight(contexts, frame) \ QueueItems(c, contexts[c].queue)) \cup QueueItems(c, ds[c].queue)
    BY <1>8, <1>12, <2>1, QueueChanges
  <2> QED BY <2>2, <2>3 DEF J
<1>14. Gone(ds) = Gone(contexts) \cup {c}
  <2>1. \A d \in Contexts : d # c => ds[d].destroyed = contexts[d].destroyed
    BY <1>7, <1>11 DEF SameAs, SameFlags
  <2> QED BY <1>9, <1>11, <2>1 DEF Gone
<1>15. FlightGood(J, impls, Gone(ds), submitted, invoked)
  <2>1. FlightGood(J, impls, Gone(contexts), submitted, invoked)
    BY <1>8, FlightLeaves DEF J
  <2>2. ASSUME NEW x \in J PROVE ItemGood(x, impls, Gone(ds), submitted, invoked)
    <3>1. ItemGood(x, impls, Gone(contexts), submitted, invoked) /\ x \in ItemType
      BY <2>1, <2>2 DEF FlightGood
    <3>2. x \in I /\ x \notin QueueItems(c, contexts[c].queue)
      BY <2>2 DEF J
    <3>3. x.task.h # 0 /\ x.task \in TaskType
      BY <3>1 DEF ItemGood, ItemType
    <3>4. Executing!Target(Executing!get_associated_executor(x.task.ex)) = Goal(impls, x.task)
      BY <3>3, GoalIs DEF TaskType
    <3>5. CASE \E d \in Contexts : x \in QueueItems(d, contexts[d].queue)
      <4>1. PICK d \in Contexts : x \in QueueItems(d, contexts[d].queue)
        BY <3>5
      <4>2. d # c /\ x.by = d
        BY <1>8, <3>2, <4>1, FlightIs
      <4>3. PICK i \in DOMAIN contexts[d].queue : x = Item(contexts[d].queue[i], "queued", d)
        BY <4>1, QueueItemIs
      <4>4. x.task = contexts[d].queue[i]
        BY <4>3, ItemIs
      <4>5. ~Executing!BoundTo(c, contexts[d].queue[i])
        BY <1>1, <4>2 DEF Executing!Elsewhere
      <4>6. Goal(impls, x.task) # c
        BY <3>3, <3>4, <4>4, <4>5 DEF Executing!BoundTo
      <4> QED BY <1>14, <3>1, <4>2, <4>6 DEF ItemGood
    <3>6. CASE \E t \in Runners : x \in RunItems(t, frame[t])
      <4>1. PICK t \in Runners : x \in RunItems(t, frame[t])
        BY <3>6
      <4>2. x.at # "queued" /\ x.task = frame[t].task
        BY <1>8, <4>1, FlightIs
      <4>3. ~Executing!BoundTo(c, frame[t].task)
        BY <1>1 DEF Executing!Elsewhere, Executing!Threads, Runners
      <4>4. Goal(impls, x.task) # c
        BY <3>3, <3>4, <4>2, <4>3 DEF Executing!BoundTo
      <4> QED BY <1>14, <3>1, <4>2, <4>4 DEF ItemGood
    <3> QED BY <1>8, <3>2, <3>5, <3>6, FlightIs
  <2> QED BY <2>1, <2>2 DEF FlightGood
<1>16. ImplsKept(impls, jm)
  BY <1>7 DEF ImplsKept
<1>17. FlightGood(J, jm, Gone(ds), submitted, invoked)
  BY <1>15, <1>16, KeptGoals
<1>18. WorkGood(ds, jm, J)
  <2>1. ASSUME NEW d \in Contexts \ Gone(ds)
        PROVE  ds[d].work = Reasons(J, impls, d) + OwnWork(d, ds[d])
    <3>1. d \in (Contexts \ Gone(contexts)) \ {c} /\ ds[d] = cs[d]
      BY <1>11, <1>14, <2>1
    <3>2. cs[d].work = Reasons(J, impls, d) + OwnWork(d, cs[d])
      BY <1>7, <3>1 DEF WorkOn
    <3> QED BY <3>1, <3>2
  <2>2. WorkGood(ds, impls, J)
    BY <2>1 DEF WorkGood, WorkOn
  <2> QED BY <1>15, <1>16, <2>2, KeptWork
<1>19. ContextsGood(ds)
  <2>1. ASSUME NEW d \in Contexts PROVE NoDup(ds[d].queue)
    <3>1. CASE d = c
      BY <1>9, <1>11, <3>1 DEF NoDup
    <3>2. CASE d # c
      BY <1>7, <1>8, <1>11, <3>2 DEF ContextsGood, SameAs
    <3> QED BY <3>1, <3>2
  <2>2. ASSUME NEW d \in Pools PROVE PoolGood(ds[d])
    <3>1. CASE d = c
      <4>1. PoolGood(contexts[c])
        BY <1>8, <3>1 DEF ContextsGood
      <4>2. contexts[c].stopped
        BY <1>1, <4>1 DEF PoolGood
      <4>3. p.stopped
        BY <1>7, <1>9, <4>2
      <4> QED BY <1>1, <1>9, <1>11, <3>1, <4>3 DEF PoolGood
    <3>2. CASE d # c
      BY <1>7, <1>11, <3>2, ExecutorsAssumption
    <3> QED BY <3>1, <3>2
  <2>3. System \in Contexts /\ ds[System] = cs[System]
    BY <1>1, <1>11, ExecutorsAssumption
  <2>4. ds[System].join = "no" /\ ~ds[System].asked /\ ~ds[System].destroyed
    BY <1>7, <1>8, <2>3 DEF ContextsGood, SameAs, SameFlags
  <2> QED BY <2>1, <2>2, <2>4 DEF ContextsGood
<1>20. ExecWorld(ds, jm, handles, frame, submitted, invoked)
  BY <1>7, <1>12, <1>13, <1>17, <1>18, <1>19 DEF ExecWorld, ExecInv, ImplsType
<1> QED BY <1>1, <1>2, <1>20 DEF ExecInv
-----------------------------------------------------------------------------
(* The references to an implementation are counted by place where the      *)
(* invariant counts them by item; no two places hold the same item.        *)
ItemAt(p) ==
  IF p[2] = 0 THEN Item(frame[p[1]].task, frame[p[1]].at, p[1])
  ELSE Item(contexts[p[1]].queue[p[2]], "queued", p[1])

LEMMA PlaceIs ==
  ASSUME ExecInv, NEW p
  PROVE  p \in Executing!Places <=>
           \/ \E t \in Runners : p = <<t, 0>>
           \/ \E c \in Contexts : \E i \in DOMAIN contexts[c].queue : p = <<c, i>>
BY DEF Executing!Places, Executing!Threads, Runners

LEMMA QueuePlaces ==
  ASSUME ExecInv, NEW c \in Contexts, NEW i \in DOMAIN contexts[c].queue
  PROVE  i \in Nat \ {0} /\ contexts[c].queue[i] \in TaskType /\ c \in Runners
<1>1. contexts[c].queue \in Seq(TaskType)
  BY DEF ExecInv, ExecWorld, StateType, ContextType
<1> QED BY <1>1 DEF Runners

(* An idle thread holds no reference. *)
LEMMA IdleHoldsNone ==
  ASSUME ExecInv, NEW t \in Runners, frame[t].at = "idle", NEW i \in ImplIds
  PROVE  Executing!Copies(frame[t].task, i) = 0
<1>1. frame[t] = Executing!Idle
  BY DEF ExecInv, ExecWorld, RunnerGood
<1> QED BY <1>1, ExecutorsAssumption DEF Executing!Copies, Executing!Idle, Executing!Task,
  Executing!Null, ImplIds

LEMMA PlaceHolds ==
  ASSUME ExecInv, NEW i \in ImplIds, NEW p \in Executing!Places, NEW k \in {1, 2},
         k <= Executing!Copies(Executing!TaskAt(p), i)
  PROVE  /\ <<ItemAt(p), k>> \in HeldBy(InFlight(contexts, frame), i)
         /\ ItemAt(p).by = p[1] /\ (ItemAt(p).at = "queued" <=> p[2] # 0)
         /\ p[2] # 0 => ItemAt(p).task = contexts[p[1]].queue[p[2]]
<1>0. StateType(contexts, frame)
  BY DEF ExecInv, ExecWorld
<1>1. CASE \E t \in Runners : p = <<t, 0>>
  <2>1. PICK t \in Runners : p = <<t, 0>>
    BY <1>1
  <2>2. Executing!TaskAt(p) = frame[t].task /\ ItemAt(p) = Item(frame[t].task, frame[t].at, t)
    BY <2>1 DEF Executing!TaskAt, ItemAt
  <2>3. frame[t].at # "idle"
    BY <2>2, IdleHoldsNone
  <2>4. ItemAt(p) \in InFlight(contexts, frame)
    BY <1>0, <2>2, <2>3, RunnerHolds
  <2>5. ItemAt(p).task = frame[t].task /\ ItemAt(p).by = t /\ ItemAt(p).at = frame[t].at
    BY <2>2, ItemIs
  <2>6. frame[t].at # "queued"
    BY <1>0 DEF StateType, RunnerType
  <2> QED BY <2>1, <2>2, <2>4, <2>5, <2>6 DEF HeldBy
<1>2. CASE \E c \in Contexts : \E j \in DOMAIN contexts[c].queue : p = <<c, j>>
  <2>1. PICK c \in Contexts : \E j \in DOMAIN contexts[c].queue : p = <<c, j>>
    BY <1>2
  <2>2. PICK j \in DOMAIN contexts[c].queue : p = <<c, j>>
    BY <2>1
  <2>3. j # 0
    BY QueuePlaces
  <2>4. /\ Executing!TaskAt(p) = contexts[c].queue[j]
        /\ ItemAt(p) = Item(contexts[c].queue[j], "queued", c)
    BY <2>2, <2>3 DEF Executing!TaskAt, ItemAt
  <2>5. ItemAt(p) \in InFlight(contexts, frame)
    BY <1>0, <2>4, QueueHolds
  <2>6. ItemAt(p).task = contexts[c].queue[j] /\ ItemAt(p).by = c /\ ItemAt(p).at = "queued"
    BY <2>4, ItemIs
  <2> QED BY <2>2, <2>3, <2>4, <2>5, <2>6 DEF HeldBy
<1> QED BY <1>1, <1>2, PlaceIs

LEMMA HeldSomewhere ==
  ASSUME ExecInv, NEW i \in ImplIds, NEW y \in HeldBy(InFlight(contexts, frame), i)
  PROVE  \E r \in Executing!References(i) : <<ItemAt(r[1]), r[2]>> = y
<1>0. StateType(contexts, frame)
  BY DEF ExecInv, ExecWorld
<1>1. PICK x \in InFlight(contexts, frame), k \in {1, 2} : y = <<x, k>>
  BY DEF HeldBy
<1>2. k <= Executing!Copies(x.task, i)
  BY <1>1 DEF HeldBy
<1>3. \E p \in Executing!Places : ItemAt(p) = x /\ Executing!TaskAt(p) = x.task
  <2>1. CASE \E c \in Contexts : x \in QueueItems(c, contexts[c].queue)
    <3>1. PICK c \in Contexts : x \in QueueItems(c, contexts[c].queue)
      BY <2>1
    <3>2. PICK j \in DOMAIN contexts[c].queue : x = Item(contexts[c].queue[j], "queued", c)
      BY <3>1, QueueItemIs
    <3>3. j # 0
      BY QueuePlaces
    <3>4. ItemAt(<<c, j>>) = x /\ Executing!TaskAt(<<c, j>>) = x.task
      BY <3>2, <3>3, ItemIs DEF ItemAt, Executing!TaskAt
    <3> QED BY <3>4, PlaceIs
  <2>2. CASE \E t \in Runners : x \in RunItems(t, frame[t])
    <3>1. PICK t \in Runners : x \in RunItems(t, frame[t])
      BY <2>2
    <3>2. x = Item(frame[t].task, frame[t].at, t)
      BY <1>0, <3>1, FlightIs
    <3>3. ItemAt(<<t, 0>>) = x /\ Executing!TaskAt(<<t, 0>>) = x.task
      BY <3>2, ItemIs DEF ItemAt, Executing!TaskAt
    <3> QED BY <3>3, PlaceIs
  <2> QED BY <1>0, <2>1, <2>2, FlightIs
<1>4. PICK p \in Executing!Places : ItemAt(p) = x /\ Executing!TaskAt(p) = x.task
  BY <1>3
<1>5. <<p, k>> \in Executing!References(i)
  BY <1>2, <1>4 DEF Executing!References
<1> QED BY <1>1, <1>4, <1>5

LEMMA ReferencesCounted ==
  ASSUME ExecInv, NEW i \in ImplIds
  PROVE  Cardinality(Executing!References(i)) = Cardinality(HeldBy(InFlight(contexts, frame), i))
<1> DEFINE R == Executing!References(i)
           H == HeldBy(InFlight(contexts, frame), i)
           f == [r \in R |-> <<ItemAt(r[1]), r[2]>>]
<1>1. IsFiniteSet(H)
  <2>1. IsFiniteSet(InFlight(contexts, frame))
    BY DEF ExecInv, ExecWorld, FlightGood
  <2>2. IsFiniteSet({1}) /\ {1} \cup {2} = {1, 2}
    BY FS_Singleton
  <2>3. IsFiniteSet({1} \cup {2})
    BY <2>2, FS_AddElement
  <2>4. IsFiniteSet(InFlight(contexts, frame) \X {1, 2})
    BY <2>1, <2>2, <2>3, FS_Product
  <2>5. H \in SUBSET (InFlight(contexts, frame) \X {1, 2})
    BY DEF HeldBy
  <2> QED BY <2>4, <2>5, FS_Subset
<1>2. ASSUME NEW r \in R
      PROVE  /\ r[1] \in Executing!Places /\ r[2] \in {1, 2} /\ r = <<r[1], r[2]>>
             /\ r[2] <= Executing!Copies(Executing!TaskAt(r[1]), i)
  BY DEF Executing!References
<1> HIDE DEF R, H
<1>3. ASSUME NEW r \in R PROVE f[r] \in H
  <2>1. <<ItemAt(r[1]), r[2]>> \in H
    BY <1>2, PlaceHolds DEF H
  <2> QED BY <2>1
<1>4. ASSUME NEW r \in R, NEW s \in R, f[r] = f[s] PROVE r = s
  <2>1. ItemAt(r[1]) = ItemAt(s[1]) /\ r[2] = s[2]
    BY <1>4
  <2> DEFINE p == r[1]
             q == s[1]
  <2>2. /\ ItemAt(p).by = p[1] /\ (ItemAt(p).at = "queued" <=> p[2] # 0)
        /\ p[2] # 0 => ItemAt(p).task = contexts[p[1]].queue[p[2]]
    BY <1>2, PlaceHolds
  <2>3. /\ ItemAt(q).by = q[1] /\ (ItemAt(q).at = "queued" <=> q[2] # 0)
        /\ q[2] # 0 => ItemAt(q).task = contexts[q[1]].queue[q[2]]
    BY <1>2, PlaceHolds
  <2>4. p \in Executing!Places /\ q \in Executing!Places
    BY <1>2
  <2>5. r = <<p, r[2]>> /\ s = <<q, s[2]>>
    BY <1>2
  <2>6. ItemAt(p) = ItemAt(q)
    BY <2>1
  <2> HIDE DEF p, q
  <2>7. /\ p = <<p[1], p[2]>> /\ q = <<q[1], q[2]>>
        /\ p[2] # 0 => p[1] \in Contexts /\ p[2] \in DOMAIN contexts[p[1]].queue
        /\ q[2] # 0 => q[1] \in Contexts /\ q[2] \in DOMAIN contexts[q[1]].queue
    BY <2>4, PlaceIs
  <2>8. p[1] = q[1] /\ (p[2] # 0 <=> q[2] # 0)
    BY <2>2, <2>3, <2>6
  <2>9. p[2] = q[2]
    <3>1. CASE p[2] = 0
      BY <2>8, <3>1
    <3>2. CASE p[2] # 0
      <4>1. NoDup(contexts[p[1]].queue)
        BY <2>7, <3>2 DEF ExecInv, ExecWorld, ContextsGood
      <4>2. contexts[p[1]].queue[p[2]] = contexts[p[1]].queue[q[2]]
        BY <2>2, <2>3, <2>6, <2>8, <3>2
      <4> QED BY <2>7, <2>8, <3>2, <4>1, <4>2 DEF NoDup
    <3> QED BY <3>1, <3>2
  <2> QED BY <2>1, <2>5, <2>7, <2>8, <2>9
<1>5. ASSUME NEW y \in H PROVE \E r \in R : f[r] = y
  <2>1. PICK r \in R : <<ItemAt(r[1]), r[2]>> = y
    BY HeldSomewhere DEF H, R
  <2> QED BY <2>1
<1>6. f \in [R -> H]
  BY <1>3
<1> HIDE DEF f
<1>7. f \in Injection(R, H)
  BY <1>4, <1>6 DEF Injection, IsInjective
<1>8. f \in Surjection(R, H)
  BY <1>5, <1>6 DEF Surjection
<1>9. Cardinality(R) = Cardinality(H)
  BY <1>1, <1>7, <1>8, FS_Injection
<1> QED BY <1>9 DEF R, H
-----------------------------------------------------------------------------
(* At the start; a step of another part; any step of this one.             *)
LEMMA ExecStart ==
  ASSUME Executing!Init
  PROVE  ExecInv
<1> DEFINE I == InFlight(contexts, frame)
<1>1. ASSUME NEW c \in Contexts
      PROVE  /\ contexts[c] \in ContextType /\ contexts[c].queue = <<>>
             /\ contexts[c].work = OwnWork(c, contexts[c]) /\ ~contexts[c].destroyed
             /\ contexts[c].join = "no" /\ ~contexts[c].asked /\ ~contexts[c].stopped
             /\ c \in Pools => contexts[c].running
  <2> DEFINE n == IF c \in Pools THEN 1 ELSE 0
             b == c \in Pools
  <2>1. contexts[c] = [queue |-> <<>>, work |-> n, stopped |-> FALSE, running |-> b,
                       join |-> "no", asked |-> FALSE, destroyed |-> FALSE]
    BY DEF Executing!Init
  <2>2. n \in Int /\ b \in BOOLEAN /\ <<>> \in Seq(TaskType) /\ (c \in Pools => b)
    OBVIOUS
  <2>3. contexts[c].join = "no" => OwnWork(c, contexts[c]) = n
    BY DEF OwnWork
  <2> HIDE DEF n, b
  <2>4. contexts[c] \in ContextType
    BY <2>1, <2>2 DEF ContextType
  <2> QED BY <2>1, <2>2, <2>3, <2>4
<1>2. ASSUME NEW t \in Runners
      PROVE  frame[t] = Executing!Idle /\ frame[t] \in RunnerType /\ RunnerGood(frame[t])
  <2>1. frame[t] = Executing!Idle
    BY DEF Executing!Init, Executing!Threads, Runners
  <2>2. 0 \in HandleType
    BY ExecutorsAssumption DEF HandleType
  <2>3. Executing!Idle = [task |-> [h |-> 0, ex |-> 0, dispatcher |-> FALSE],
                          at |-> "idle", owns |-> FALSE]
    BY DEF Executing!Idle, Executing!Task, Executing!Null
  <2>4. Executing!Idle \in RunnerType
    BY <2>2, <2>3 DEF RunnerType, TaskType
  <2>5. frame[t].owns = FALSE /\ frame[t].task.dispatcher = FALSE
    BY <2>1, <2>3
  <2> QED BY <2>1, <2>4, <2>5 DEF RunnerGood
<1>3. StateType(contexts, frame)
  <2>1. contexts = [c \in Contexts |-> contexts[c]] /\ frame = [t \in Runners |-> frame[t]]
    BY DEF Executing!Init, Executing!Threads, Runners
  <2> QED BY <1>1, <1>2, <2>1 DEF StateType
<1>4. I = {}
  <2> SUFFICES ASSUME NEW x \in I PROVE FALSE
    OBVIOUS
  <2>1. CASE \E c \in Contexts : x \in QueueItems(c, contexts[c].queue)
    BY <1>1, <2>1 DEF QueueItems
  <2>2. CASE \E t \in Runners : x \in RunItems(t, frame[t])
    BY <1>2, <2>2 DEF RunItems, Executing!Idle
  <2> QED BY <1>3, <2>1, <2>2, FlightIs
<1> HIDE DEF I
<1>5. /\ impls = [i \in ImplIds |-> [target |-> "none", refs |-> 0]]
      /\ handles = [v \in Variables |-> 0] /\ submitted = 0
      /\ invoked = [h \in 1 .. MaxHandlers |-> <<>>]
  BY DEF Executing!Init, Executing!Ids, Executing!Null, ImplIds
<1>6. /\ impls \in [ImplIds -> ImplType] /\ handles \in [Variables -> HandleType]
      /\ submitted \in 0 .. MaxHandlers
  BY <1>5, ExecutorsAssumption DEF ImplType, HandleType
<1>7. InvokedGood(submitted, invoked)
  <2>1. <<>> \in Seq(Runners) /\ Len(<<>>) = 0
    OBVIOUS
  <2> QED BY <1>5, <2>1 DEF InvokedGood
<1>8. FlightGood(I, impls, Gone(contexts), submitted, invoked)
  BY <1>4, FS_EmptySet DEF FlightGood
<1>9. RefsGood(impls, handles, I)
  <2>1. ASSUME NEW i \in ImplIds PROVE Holders(handles, i) = {} /\ HeldBy(I, i) = {} /\ impls[i].refs = 0
    BY <1>4, <1>5 DEF Holders, HeldBy, ImplIds
  <2>2. Cardinality({}) = 0
    BY FS_EmptySet
  <2>3. \A v \in Variables : handles[v] \notin ImplIds
    BY <1>5 DEF ImplIds
  <2> QED BY <2>1, <2>2, <2>3 DEF RefsGood
<1>10. WorkGood(contexts, impls, I)
  <2>1. ASSUME NEW c \in Contexts PROVE contexts[c].work = Reasons(I, impls, c) + OwnWork(c, contexts[c])
    <3>1. Mine(I, c) = {} /\ Guards(I, impls, c) = {}
      BY <1>4 DEF Mine, Guards
    <3>2. Reasons(I, impls, c) = 0
      BY <3>1, FS_EmptySet DEF Reasons
    <3> QED BY <1>1, <3>2 DEF OwnWork
  <2> QED BY <2>1 DEF WorkGood, WorkOn
<1>11. ContextsGood(contexts)
  BY <1>1, ExecutorsAssumption DEF ContextsGood, PoolGood, NoDup
<1> QED BY <1>2, <1>3, <1>6, <1>7, <1>8, <1>9, <1>10, <1>11 DEF ExecInv, ExecWorld, I

LEMMA ExecRest ==
  ASSUME ExecInv, UNCHANGED execute_vars
  PROVE  ExecInv'
<1>1. /\ contexts' = contexts /\ impls' = impls /\ handles' = handles
      /\ frame' = frame /\ submitted' = submitted /\ invoked' = invoked
  BY DEF execute_vars
<1>2. ExecInv' = ExecWorld(contexts', impls', handles', frame', submitted', invoked')
  BY DEF ExecInv
<1> QED BY <1>1, <1>2 DEF ExecInv

LEMMA ExecStep ==
  ASSUME ExecInv, Executing!Next
  PROVE  ExecInv'
<1>1. ASSUME NEW v \in Variables, NEW c \in Contexts, Executing!assign_target(v, c) PROVE ExecInv'
  BY <1>1, TargetStep
<1>2. ASSUME NEW v \in Variables, NEW w \in Variables,
             Executing!assign_copy(v, w) \/ Executing!assign_move(v, w)
      PROVE  ExecInv'
  BY <1>2, CopyStep, MoveStep
<1>3. ASSUME NEW v \in Variables, Executing!assign_null(v) PROVE ExecInv'
  BY <1>3, NullStep
<1>4. ASSUME NEW b \in Executing!Bindable,
             \/ Executing!post(b) \/ Executing!defer(b) \/ Executing!dispatch(b)
             \/ Executing!bad_executor(b)
      PROVE  ExecInv'
  BY <1>4, PostStep, BadStep
<1>5. ASSUME NEW b \in Executing!Bindable, NEW v \in Variables,
             \/ Executing!post_to(handles[v], b) \/ Executing!defer_to(handles[v], b)
             \/ Executing!dispatch_to(handles[v], b)
      PROVE  ExecInv'
  BY <1>5, PostToStep
<1>6. ASSUME NEW t \in Runners,
             \/ Executing!Invoke(t) \/ Executing!DispatchOn(t) \/ Executing!Reset(t)
             \/ Executing!Throws(t) \/ Executing!End(t)
      PROVE  ExecInv'
  BY <1>6, InvokeStep, DispatchOnStep, ResetStep, ThrowsStep, EndStep
<1>7. ASSUME NEW c \in Contexts,
             \/ Executing!Take(c) \/ Executing!run(c) \/ Executing!Return(c) \/ Executing!join(c)
             \/ Executing!Joined(c) \/ Executing!stop(c) \/ Executing!destruct(c)
      PROVE  ExecInv'
  BY <1>7, TakeStep, RunStep, ReturnStep, JoinStep, JoinedStep, StopStep, DestructStep
<1> QED BY <1>1, <1>2, <1>3, <1>4, <1>5, <1>6, <1>7
  DEF Executing!Next, Executing!Threads, Runners

(* Executors are equal exactly when they have the same target. *)
LEMMA EqualExecutors ==
  ASSUME ExecInv, NEW v \in Variables, NEW w \in Variables, handles[v] # 0, handles[w] # 0
  PROVE  Executing!equals(handles[v], handles[w])
           <=> Executing!Target(handles[v]) = Executing!Target(handles[w])
<1>1. handles[v] \in HandleType /\ handles[w] \in HandleType
  BY DEF ExecInv, ExecWorld
<1>2. /\ handles[v] \in ImplIds => impls[handles[v]].target \in Contexts \ {System}
      /\ handles[w] \in ImplIds => impls[handles[w]].target \in Contexts \ {System}
  BY DEF ExecInv, ExecWorld, RefsGood, OwnContexts
<1>3. ASSUME NEW e \in HandleType, e # 0
      PROVE  e \in ImplIds \/ (e = MaxImpls + 1 /\ e \notin ImplIds)
  BY <1>3, ExecutorsAssumption DEF HandleType, ImplIds
<1>4. MaxImpls + 1 \notin ImplIds
  BY ExecutorsAssumption DEF ImplIds
<1> QED BY <1>1, <1>2, <1>3, <1>4 DEF Executing!equals, Executing!Target, Executing!SystemImpl,
  Executing!Ids, ImplIds

(* The instance counts as this module does. *)
LEMMA SameCount ==
  ASSUME NEW S
  PROVE  Executing!Cardinality(S) = Cardinality(S)
BY DEF Executing!Cardinality, Cardinality

LEMMA ExactFollows ==
  ASSUME ExecInv
  PROVE  Executing!ReferencesExact
<1>1. ASSUME NEW i \in ImplIds
      PROVE  impls[i].refs = Cardinality({v \in Variables : handles[v] = i})
                             + Cardinality(Executing!References(i))
  <2>1. impls[i].refs = Cardinality(Holders(handles, i))
                        + Cardinality(HeldBy(InFlight(contexts, frame), i))
    BY DEF ExecInv, ExecWorld, RefsGood
  <2> QED BY <2>1, ReferencesCounted DEF Holders
<1>2. ASSUME NEW v \in Variables, NEW w \in Variables,
             handles[v] # Executing!Null, handles[w] # Executing!Null
      PROVE  Executing!equals(handles[v], handles[w])
               <=> Executing!Target(handles[v]) = Executing!Target(handles[w])
  BY <1>2, EqualExecutors DEF Executing!Null
<1>3. Executing!Ids = ImplIds
  BY DEF Executing!Ids, ImplIds
<1>4. \A i \in Executing!Ids : impls[i].refs =
        Executing!Cardinality({v \in Variables : handles[v] = i})
        + Executing!Cardinality(Executing!References(i))
  BY <1>1, <1>3, SameCount
<1>5. \A v, w \in Variables : handles[v] # Executing!Null /\ handles[w] # Executing!Null =>
        (Executing!equals(handles[v], handles[w])
           <=> Executing!Target(handles[v]) = Executing!Target(handles[w]))
  BY <1>2
<1> QED BY <1>4, <1>5 DEF Executing!ReferencesExact

(* After join() there is no work left on a pool, so that no thread holds a *)
(* task of it and no queue a handler bound to it.                          *)
LEMMA NothingLeft ==
  ASSUME ExecInv, NEW c \in Pools, contexts[c].join = "joined", ~contexts[c].asked,
         ~contexts[c].destroyed
  PROVE  /\ Mine(InFlight(contexts, frame), c) = {}
         /\ Guards(InFlight(contexts, frame), impls, c) = {}
<1> DEFINE I == InFlight(contexts, frame)
<1>1. IsFiniteSet(I) /\ c \in Contexts
  BY ExecutorsAssumption DEF ExecInv, ExecWorld, FlightGood
<1>2. contexts[c].work = 0
  <2>1. PoolGood(contexts[c])
    BY DEF ExecInv, ExecWorld, ContextsGood
  <2> QED BY <2>1 DEF PoolGood
<1>3. contexts[c].work = Reasons(I, impls, c) + OwnWork(c, contexts[c])
  BY <1>1 DEF ExecInv, ExecWorld, WorkGood, WorkOn, Gone
<1>4. OwnWork(c, contexts[c]) = 0
  BY DEF OwnWork
<1> HIDE DEF I
<1>5. Cardinality(Mine(I, c)) \in Nat /\ Cardinality(Guards(I, impls, c)) \in Nat
  BY <1>1, CountsAre
<1>6. Cardinality(Mine(I, c)) = 0 /\ Cardinality(Guards(I, impls, c)) = 0
  BY <1>2, <1>3, <1>4, <1>5 DEF Reasons
<1>7. IsFiniteSet(Mine(I, c)) /\ IsFiniteSet(Guards(I, impls, c))
  <2>1. Mine(I, c) \in SUBSET I /\ Guards(I, impls, c) \in SUBSET I
    BY DEF Mine, Guards
  <2> QED BY <1>1, <2>1, FS_Subset
<1>8. Mine(I, c) = {} /\ Guards(I, impls, c) = {}
  BY <1>6, <1>7, FS_EmptySet
<1> QED BY <1>8 DEF I

LEMMA NoneWaits ==
  ASSUME ExecInv, NEW c \in Pools, contexts[c].join = "joined", ~contexts[c].asked,
         NEW x \in InFlight(contexts, frame)
  PROVE  /\ ~(x.by = c /\ x.at = "queued")
         /\ ~(Goal(impls, x.task) = c /\ Waits(x))
<1> DEFINE I == InFlight(contexts, frame)
<1>1. ItemGood(x, impls, Gone(contexts), submitted, invoked) /\ x \in ItemType
  BY DEF ExecInv, ExecWorld, FlightGood
<1>2. c # System /\ c \in Contexts
  BY ExecutorsAssumption DEF ExecInv, ExecWorld, ContextsGood
<1>3. CASE contexts[c].destroyed
  BY <1>1, <1>2, <1>3 DEF ItemGood, Gone
<1>4. CASE ~contexts[c].destroyed
  <2>1. Mine(I, c) = {} /\ Guards(I, impls, c) = {}
    BY <1>4, NothingLeft
  <2>2. x.by # c
    BY <2>1 DEF Mine
  <2>3. ASSUME Goal(impls, x.task) = c, Waits(x) PROVE FALSE
    <3>1. CASE x.task.dispatcher
      <4>1. Owning(x)
        BY <2>3, <3>1 DEF Owning, Waits
      <4> QED BY <1>2, <2>1, <2>3, <4>1 DEF Guards
    <3>2. CASE ~x.task.dispatcher
      BY <1>1, <1>2, <2>2, <2>3, <3>2 DEF ItemGood, Home
    <3> QED BY <3>1, <3>2
  <2> QED BY <2>2, <2>3
<1> QED BY <1>3, <1>4

LEMMA JoinedFollows ==
  ASSUME ExecInv
  PROVE  Executing!JoinMeansDone
<1>0. StateType(contexts, frame)
  BY DEF ExecInv, ExecWorld
<1>1. ASSUME NEW c \in Pools, contexts[c].join = "joined", ~contexts[c].asked
      PROVE  contexts[c].queue = <<>>
  <2>1. c \in Contexts /\ contexts[c].queue \in Seq(TaskType)
    BY <1>0, ExecutorsAssumption DEF StateType, ContextType
  <2>2. ASSUME NEW i \in DOMAIN contexts[c].queue PROVE FALSE
    <3>1. Item(contexts[c].queue[i], "queued", c) \in InFlight(contexts, frame)
      BY <1>0, <2>1, QueueHolds
    <3> QED BY <1>1, <3>1, NoneWaits, ItemIs
  <2> DEFINE q == contexts[c].queue
  <2>3. q \in Seq(TaskType) /\ \A i \in DOMAIN q : FALSE
    BY <2>1, <2>2
  <2> HIDE DEF q
  <2>4. q = <<>>
    BY <2>3
  <2> QED BY <2>4 DEF q
<1>2. ASSUME NEW c \in Pools, contexts[c].join = "joined", ~contexts[c].asked,
             NEW d \in Contexts, NEW i \in DOMAIN contexts[d].queue
      PROVE  ~Executing!BoundTo(c, contexts[d].queue[i])
  <2> DEFINE task == contexts[d].queue[i]
             x == Item(task, "queued", d)
  <2>1. task \in TaskType
    BY QueuePlaces
  <2>2. x \in InFlight(contexts, frame)
    BY <1>0, QueueHolds
  <2>3. x.task = task /\ Waits(x)
    BY ItemIs DEF Waits
  <2>4. task.ex \in HandleType
    BY <2>1 DEF TaskType
  <2> HIDE DEF task, x
  <2>5. Executing!Target(Executing!get_associated_executor(task.ex)) = Goal(impls, task)
    BY <2>4, GoalIs
  <2>6. Goal(impls, task) # c
    BY <1>2, <2>2, <2>3, NoneWaits
  <2> QED BY <2>5, <2>6 DEF Executing!BoundTo, task
<1>3. ASSUME NEW c \in Pools, contexts[c].join = "joined", ~contexts[c].asked,
             NEW t \in Runners, Executing!BoundTo(c, frame[t].task), frame[t].at = "start"
      PROVE  FALSE
  <2> DEFINE task == frame[t].task
             x == Item(task, "start", t)
  <2>1. task \in TaskType
    BY <1>0 DEF StateType, RunnerType
  <2>2. x \in InFlight(contexts, frame)
    BY <1>0, <1>3, RunnerHolds
  <2>3. x.task = task /\ Waits(x)
    BY ItemIs DEF Waits
  <2>4. task.ex \in HandleType
    BY <2>1 DEF TaskType
  <2>5. Executing!Target(Executing!get_associated_executor(task.ex)) = c
    BY <1>3 DEF Executing!BoundTo
  <2> HIDE DEF task, x
  <2>6. Goal(impls, task) = c
    BY <2>4, <2>5, GoalIs
  <2> QED BY <1>3, <2>2, <2>3, <2>6, NoneWaits
<1>4. \A h \in 1 .. submitted : Len(invoked[h]) <= 1
  BY ExecutorsAssumption DEF ExecInv, ExecWorld, InvokedGood
<1> QED BY <1>1, <1>2, <1>3, <1>4 DEF Executing!JoinMeansDone, Executing!Threads, Runners

(* executor, work_dispatcher, thread_pool and system_context: whatever the *)
(* contexts, the executor variables and the numbers of implementations and *)
(* of handlers, an implementation counts exactly the references to it, two *)
(* executors are equal exactly when they have the same target, and join()  *)
(* without stop() returns after every handler of the pool or bound to it.  *)
THEOREM ExecutorsAreSound == MCSpec => []ExecutorsSound
<1>1. ASSUME MCInit PROVE ExecInv
  BY <1>1, ExecStart DEF MCInit
<1>2. ASSUME ExecInv, [MCNext]_allVars PROVE ExecInv'
  <2>1. CASE part = "execute" /\ Executing!Next
    BY <1>2, <2>1, ExecStep
  <2>2. CASE UNCHANGED execute_vars
    BY <1>2, <2>2, ExecRest
  <2> QED BY <1>2, <2>1, <2>2 DEF MCNext, In, Keep, allVars
<1>3. ASSUME ExecInv PROVE ExecutorsSound
  BY <1>3, ExactFollows, JoinedFollows DEF ExecutorsSound
<1> QED BY <1>1, <1>2, <1>3, PTL DEF MCSpec
=============================================================================
