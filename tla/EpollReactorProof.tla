-------------------------- MODULE EpollReactorProof --------------------------
(***************************************************************************)
(* Proofs about EpollReactor for every number of sockets, descriptors,     *)
(* descriptor states, threads and operations.                              *)
(***************************************************************************)
EXTENDS EpollReactor, InductionFacts, SequenceTheorems

-----------------------------------------------------------------------------
(* Types.                                                                  *)

AllEvents == {"in", "out", "pri", "hup"}
FileType ==
  [open : BOOLEAN, dup : BOOLEAN, forked : BOOLEAN, avail : Nat, space : Nat, came : Nat,
   pri : BOOLEAN, end : {"no", "eof", "hup"}, seen : SUBSET Types]
StateType ==
  [descriptor : Fds \cup {Null}, registered_events : SUBSET {"in", "out", "pri"},
   shutdown : BOOLEAN, op_queue : [Types -> Seq(ReactorOps)],
   try_speculative : [Types -> BOOLEAN]]
EventType == [ptr : States, events : SUBSET AllEvents]

Results ==
  {"fresh", "queued", "ok", "error", "aborted", "posted", "destroyed"}

SocketTypes ==
  /\ socket \in [Sockets -> [fd : Fds \cup {Null}, data : States \cup {Null},
                             dup : BOOLEAN, closing : BOOLEAN]]
  /\ shutdown \in BOOLEAN

StateTypes ==
  /\ state \in [States -> StateType]
  /\ live \in SUBSET States /\ free \in Seq(States)

OpTypes ==
  /\ result \in [ReactorOps -> Results]
  /\ op \in [ReactorOps -> [kind : Kinds \cup {Null}, socket : Fds \cup {Null}]]

EventTypes ==
  /\ batch \subseteq EventType /\ enqueued \subseteq EventType
  /\ performing \in [Threads -> [ptr : States \cup {Null}, events : SUBSET AllEvents]]

KernelTypes ==
  /\ kernel \in [Fds -> FileType]
  /\ epoll \in [Fds -> [ptr : States \cup {Null}, events : SUBSET {"in", "out", "pri"}]]
  /\ ready \subseteq {f \in Fds : epoll[f].ptr # Null}

TypeInv == SocketTypes /\ StateTypes /\ OpTypes /\ EventTypes /\ KernelTypes

-----------------------------------------------------------------------------
(* The loop of perform_io over the operations of one type.                 *)

(* One iteration after the other: after[n] is where the loop is after n.   *)
Start(file, done) ==
  [file |-> file, done |-> done, rest |-> <<>>, stop |-> FALSE, spec |-> TRUE]

(* The recursive definition of the loop has a solution.                    *)
LEMMA RunExists ==
  ASSUME NEW q \in Seq(ReactorOps), NEW start
  PROVE  \E g : g = [n \in 0..Len(q) |-> IF n = 0 THEN start ELSE TryNext(g[n - 1], q[n])]
<1> DEFINE T == {m \in Nat : m <= Len(q) =>
                   \E g : g = [n \in 0..m |-> IF n = 0 THEN start
                                              ELSE TryNext(g[n - 1], q[n])]}
<1>1. 0 \in T
  <2>1. [n \in 0..0 |-> start] = [n \in 0..0 |->
           IF n = 0 THEN start ELSE TryNext([k \in 0..0 |-> start][n - 1], q[n])]
    OBVIOUS
  <2>2. \E g : g = [n \in 0..0 |-> IF n = 0 THEN start ELSE TryNext(g[n - 1], q[n])]
    BY <2>1
  <2> QED BY <2>2
<1>2. ASSUME NEW m \in T PROVE m + 1 \in T
  <2> SUFFICES ASSUME m + 1 <= Len(q)
               PROVE  \E g : g = [n \in 0..m + 1 |-> IF n = 0 THEN start
                                                     ELSE TryNext(g[n - 1], q[n])]
    OBVIOUS
  <2>1. PICK g : g = [n \in 0..m |-> IF n = 0 THEN start ELSE TryNext(g[n - 1], q[n])]
    OBVIOUS
  <2> DEFINE h == [n \in 0..m + 1 |-> IF n = m + 1 THEN TryNext(g[m], q[m + 1]) ELSE g[n]]
  <2>2. h = [n \in 0..m + 1 |-> IF n = 0 THEN start ELSE TryNext(h[n - 1], q[n])]
    BY <2>1
  <2> QED BY <2>2
<1>3. T = Nat
  <2> HIDE DEF T
  <2>1. T \subseteq Nat
    BY DEF T
  <2> QED BY <1>1, <1>2, <2>1, SetInduction
<1>4. Len(q) \in T
  BY <1>3
<1> QED BY <1>4

LEMMA PerformQueueRun ==
  ASSUME NEW q \in Seq(ReactorOps), NEW file, NEW done
  PROVE  \E g : /\ PerformQueue(q, file, done) = g[Len(q)]
                /\ g = [n \in 0..Len(q) |-> IF n = 0 THEN Start(file, done)
                                            ELSE TryNext(g[n - 1], q[n])]
<1> DEFINE after[n \in 0..Len(q)] ==
             IF n = 0 THEN Start(file, done) ELSE TryNext(after[n - 1], q[n])
<1>1. after = [n \in 0..Len(q) |-> IF n = 0 THEN Start(file, done)
                                   ELSE TryNext(after[n - 1], q[n])]
  BY RunExists
<1>2. PerformQueue(q, file, done) = after[Len(q)]
  BY DEF PerformQueue, Start
<1> QED BY <1>1, <1>2

(* What perform leaves to do: the file is no more ready than before, and    *)
(* an operation stops the loop only where no more readiness of its type is  *)
(* left, or it has reported the end of the connection.                      *)
Weaker(file, after) ==
  /\ Mask(after) \subseteq Mask(file) /\ file.seen \subseteq after.seen
  /\ after.open = file.open /\ after.dup = file.dup /\ after.forked = file.forked

Quiet(y, file) == ~ReadyFor(y, Mask(file)) \/ y \in file.seen

LEMMA MaskIs ==
  ASSUME NEW file \in FileType
  PROVE  /\ "in" \in Mask(file) <=> (file.avail > 0 \/ file.end # "no")
         /\ "out" \in Mask(file) <=> (file.space > 0 \/ file.end = "hup")
         /\ "pri" \in Mask(file) <=> file.pri
         /\ "hup" \in Mask(file) <=> file.end = "hup"
         /\ Mask(file) \subseteq AllEvents
  BY DEF Mask, AllEvents

LEMMA QuietIs ==
  ASSUME NEW file \in FileType
  PROVE  /\ Quiet("read", file) <=> (file.avail = 0 /\ file.end = "no") \/ "read" \in file.seen
         /\ Quiet("write", file)
              <=> (file.space = 0 /\ file.end # "hup") \/ "write" \in file.seen
         /\ Quiet("except", file) <=> (~file.pri /\ file.end # "hup") \/ "except" \in file.seen
<1>1. file.avail \in Nat /\ file.space \in Nat
  BY DEF FileType
<1>2. \A y : ReadyFor(y, Mask(file)) <=> Flag[y] \in Mask(file) \/ "hup" \in Mask(file)
  BY DEF ReadyFor
<1>3. Flag["read"] = "in" /\ Flag["write"] = "out" /\ Flag["except"] = "pri"
  BY DEF Flag
<1> QED BY <1>1, <1>2, <1>3, MaskIs DEF Quiet

LEMMA Weakened ==
  ASSUME NEW file \in FileType, NEW after \in FileType,
         after.avail <= file.avail, after.space <= file.space, after.pri => file.pri,
         after.end = file.end, file.seen \subseteq after.seen,
         after.open = file.open, after.dup = file.dup, after.forked = file.forked
  PROVE  Weaker(file, after)
<1>1. file.avail \in Nat /\ file.space \in Nat /\ after.avail \in Nat /\ after.space \in Nat
  BY DEF FileType
<1>2. ASSUME NEW e \in Mask(after) PROVE e \in Mask(file)
  <2>1. e \in AllEvents
    BY MaskIs
  <2> QED BY <2>1, <1>1, <1>2, MaskIs DEF AllEvents
<1> QED BY <1>2 DEF Weaker

(* What each kind of perform promises: p is its result for an operation of  *)
(* type y on a file.                                                        *)
Performs(p, y, file) ==
  /\ p.file \in FileType
  /\ p.status \in {"done", "done_and_exhausted", "not_done"}
  /\ Weaker(file, p.file)
  /\ p.status = "not_done" => p.file = file /\ Quiet(y, file)
  /\ p.status = "done_and_exhausted" => Quiet(y, p.file)

LEMMA PerformWeakens ==
  ASSUME NEW c \in Kinds, NEW file \in FileType
  PROVE  Performs(Perform(c, file), KindType[c], file)
<1>t. file.avail \in Nat /\ file.space \in Nat /\ file.seen \in SUBSET Types
      /\ file.end \in {"no", "eof", "hup"} /\ file.pri \in BOOLEAN
  BY DEF FileType
<1>0. c \in {"recv", "send", "connect", "oob", "wait_read", "wait_write"}
  BY EpollReactorAssumption DEF KindType
<1>k. KindType["recv"] = "read" /\ KindType["send"] = "write" /\ KindType["oob"] = "except"
      /\ KindType["connect"] = "write"
  BY DEF KindType
<1>e. \A y \in Types : /\ End(file, y) \in FileType /\ Weaker(file, End(file, y))
                       /\ Quiet(y, End(file, y))
  <2> SUFFICES ASSUME NEW y \in Types
               PROVE  /\ End(file, y) \in FileType /\ Weaker(file, End(file, y))
                      /\ Quiet(y, End(file, y))
    OBVIOUS
  <2>1. End(file, y) \in FileType
    BY DEF End, FileType
  <2>2. /\ End(file, y).avail = file.avail /\ End(file, y).space = file.space
        /\ End(file, y).pri = file.pri /\ End(file, y).end = file.end
        /\ End(file, y).open = file.open /\ End(file, y).dup = file.dup
        /\ End(file, y).forked = file.forked
        /\ file.seen \subseteq End(file, y).seen /\ y \in End(file, y).seen
    BY DEF End, FileType
  <2>3. Weaker(file, End(file, y))
    BY <2>1, <2>2, <1>t, Weakened
  <2> QED BY <2>1, <2>2, <2>3 DEF Quiet
<1>s. Weaker(file, file)
  BY DEF Weaker
<1>1. Performs(PerformRecv(file), "read", file)
  <2>1. CASE file.avail > 0
    <3> DEFINE a == [file EXCEPT !.avail = @ - 1]
    <3>1. a \in FileType
      BY <2>1 DEF FileType
    <3>2. /\ a.avail = file.avail - 1 /\ a.space = file.space /\ a.pri = file.pri
          /\ a.end = file.end /\ a.open = file.open /\ a.dup = file.dup /\ a.forked = file.forked
          /\ a.seen = file.seen
      BY DEF FileType
    <3> HIDE DEF a
    <3>3. Weaker(file, a)
      BY <3>1, <3>2, <1>t, Weakened
    <3>4. PerformRecv(file) = [status |-> "done", file |-> a]
      BY <2>1 DEF PerformRecv, a
    <3> QED BY <3>1, <3>3, <3>4 DEF Performs
  <2>2. CASE ~(file.avail > 0) /\ file.end # "no"
    <3>1. PerformRecv(file) = [status |-> "done_and_exhausted", file |-> End(file, "read")]
      BY <2>2 DEF PerformRecv
    <3> QED BY <3>1, <1>e DEF Performs, Types
  <2>3. CASE ~(file.avail > 0) /\ file.end = "no"
    <3>1. PerformRecv(file) = [status |-> "not_done", file |-> file]
      BY <2>3 DEF PerformRecv
    <3>2. Quiet("read", file)
      BY <2>3, <1>t, QuietIs
    <3> QED BY <3>1, <3>2, <1>s DEF Performs
  <2> QED BY <2>1, <2>2, <2>3
<1>2. Performs(PerformSend(file, 2), "write", file)
  <2>1. CASE file.end = "hup"
    <3>1. PerformSend(file, 2) = [status |-> "done_and_exhausted", file |-> End(file, "write")]
      BY <2>1 DEF PerformSend
    <3> QED BY <3>1, <1>e DEF Performs, Types
  <2>2. CASE file.end # "hup" /\ file.space > 0
    <3> DEFINE left == IF file.space >= 2 THEN file.space - 2 ELSE 0
               a == [file EXCEPT !.space = left]
    <3>0. left \in Nat /\ left <= file.space
      BY <1>t
    <3>5. PerformSend(file, 2) = [status |-> IF file.space >= 2 THEN "done"
                                             ELSE "done_and_exhausted", file |-> a]
      BY <2>2 DEF PerformSend
    <3>6. ~(file.space >= 2) => left = 0
      OBVIOUS
    <3> HIDE DEF left
    <3>1. a \in FileType
      BY <3>0 DEF FileType
    <3>2. /\ a.avail = file.avail /\ a.space = left /\ a.pri = file.pri
          /\ a.end = file.end /\ a.open = file.open /\ a.dup = file.dup /\ a.forked = file.forked
          /\ a.seen = file.seen
      BY DEF FileType
    <3> HIDE DEF a
    <3>3. Weaker(file, a)
      BY <3>0, <3>1, <3>2, <1>t, Weakened
    <3>4. left = 0 => Quiet("write", a)
      BY <3>1, <3>2, <2>2, QuietIs
    <3> QED BY <3>1, <3>3, <3>4, <3>5, <3>6 DEF Performs
  <2>3. CASE file.end # "hup" /\ file.space = 0
    <3>1. PerformSend(file, 2) = [status |-> "not_done", file |-> file]
      BY <2>3 DEF PerformSend
    <3>2. Quiet("write", file)
      BY <2>3, <1>t, QuietIs
    <3> QED BY <3>1, <3>2, <1>s DEF Performs
  <2> QED BY <2>1, <2>2, <2>3, <1>t
<1>3. Performs(PerformConnect(file), "write", file)
  <2>1. PerformConnect(file) = [status |-> IF "out" \in Mask(file) THEN "done" ELSE "not_done",
                                file |-> file]
    BY DEF PerformConnect
  <2>2. "out" \notin Mask(file) => Quiet("write", file)
    BY <1>t, QuietIs, MaskIs
  <2> QED BY <2>1, <2>2, <1>s DEF Performs
<1>4. Performs(PerformOob(file), "except", file)
  <2>1. CASE file.pri
    <3> DEFINE a == [file EXCEPT !.pri = FALSE]
    <3>1. a \in FileType
      BY DEF FileType
    <3>2. /\ a.avail = file.avail /\ a.space = file.space /\ a.pri = FALSE
          /\ a.end = file.end /\ a.open = file.open /\ a.dup = file.dup /\ a.forked = file.forked
          /\ a.seen = file.seen
      BY DEF FileType
    <3>4. PerformOob(file) = [status |-> "done", file |-> a]
      BY <2>1 DEF PerformOob
    <3> HIDE DEF a
    <3>3. Weaker(file, a)
      BY <3>1, <3>2, <1>t, Weakened
    <3> QED BY <3>1, <3>3, <3>4 DEF Performs
  <2>2. CASE ~file.pri /\ file.end # "no"
    <3>1. PerformOob(file) = [status |-> "done_and_exhausted", file |-> End(file, "except")]
      BY <2>2 DEF PerformOob
    <3> QED BY <3>1, <1>e DEF Performs, Types
  <2>3. CASE ~file.pri /\ file.end = "no"
    <3>1. PerformOob(file) = [status |-> "done_and_exhausted", file |-> file]
      BY <2>3 DEF PerformOob
    <3>2. Quiet("except", file)
      BY <2>3, <1>t, QuietIs
    <3> QED BY <3>1, <3>2, <1>s DEF Performs
  <2> QED BY <2>1, <2>2, <2>3, <1>t
<1>5. \A y : Performs([status |-> "done", file |-> file], y, file)
  BY <1>s DEF Performs
<1>6. /\ c = "recv" => Perform(c, file) = PerformRecv(file)
      /\ c = "send" => Perform(c, file) = PerformSend(file, 2)
      /\ c = "connect" => Perform(c, file) = PerformConnect(file)
      /\ c = "oob" => Perform(c, file) = PerformOob(file)
      /\ c \in {"wait_read", "wait_write"}
           => Perform(c, file) = [status |-> "done", file |-> file]
  BY DEF Perform, Waits
<1> QED BY <1>0, <1>k, <1>1, <1>2, <1>3, <1>4, <1>5, <1>6

(* After n iterations the loop has finished the first m operations of the   *)
(* queue and keeps those after them in their order; it has come to a stop   *)
(* if it kept one, and it stops only where it leaves the descriptor quiet.  *)
Kept(q, m, n, rest) ==
  /\ rest \in Seq(ReactorOps) /\ Len(rest) = n - m
  /\ \A i \in 1..(n - m) : rest[i] = q[m + i]

LoopType ==
  [file : FileType, done : SUBSET ReactorOps, rest : Seq(ReactorOps), stop : BOOLEAN,
   spec : BOOLEAN]

LoopInv(y, q, file, done, n, r) ==
  /\ r \in LoopType
  /\ \E m \in 0..n :
       /\ r.done = done \cup {q[i] : i \in 1..m}
       /\ Kept(q, m, n, r.rest)
       /\ ~r.stop => m = n
       /\ n = 0 => r.file = file
  /\ Weaker(file, r.file)
  /\ r.stop => Quiet(y, r.file)
  /\ ~r.spec => r.stop

LEMMA WeakerTransitive ==
  ASSUME NEW a, NEW b, NEW c, Weaker(a, b), Weaker(b, c)
  PROVE  Weaker(a, c)
  BY DEF Weaker

LEMMA LoopStep ==
  ASSUME NEW y \in Types, NEW q \in Seq(ReactorOps), NEW file \in FileType,
         NEW done \in SUBSET ReactorOps,
         \A i \in 1..Len(q) : op[q[i]].kind \in Kinds /\ KindType[op[q[i]].kind] = y,
         NEW n \in 0..(Len(q) - 1), NEW r, LoopInv(y, q, file, done, n, r)
  PROVE  LoopInv(y, q, file, done, n + 1, TryNext(r, q[n + 1]))
<1> DEFINE o == q[n + 1]
           p == Perform(op[o].kind, r.file)
           s == TryNext(r, o)
<1>1. /\ r.file \in FileType /\ r.done \in SUBSET ReactorOps /\ r.rest \in Seq(ReactorOps)
      /\ r.stop \in BOOLEAN /\ r.spec \in BOOLEAN
      /\ r = [file |-> r.file, done |-> r.done, rest |-> r.rest, stop |-> r.stop,
              spec |-> r.spec]
  BY DEF LoopInv, LoopType
<1>2. o \in ReactorOps /\ op[o].kind \in Kinds /\ KindType[op[o].kind] = y
  BY DEF o
<1>3. Performs(p, y, r.file)
  BY <1>1, <1>2, PerformWeakens
<1>4. PICK m \in 0..n : /\ r.done = done \cup {q[i] : i \in 1..m}
                        /\ Kept(q, m, n, r.rest)
                        /\ ~r.stop => m = n
                        /\ n = 0 => r.file = file
  BY DEF LoopInv
<1>5. /\ Weaker(file, r.file) /\ (r.stop => Quiet(y, r.file)) /\ (~r.spec => r.stop)
  BY DEF LoopInv
<1>n. m \in 0..(n + 1) /\ ~(n + 1 = 0)
  OBVIOUS
<1>k. /\ Append(r.rest, o) \in Seq(ReactorOps)
      /\ Kept(q, m, n + 1, Append(r.rest, o))
  <2>1. /\ Append(r.rest, o) \in Seq(ReactorOps) /\ Len(Append(r.rest, o)) = Len(r.rest) + 1
        /\ \A i \in 1..Len(r.rest) : Append(r.rest, o)[i] = r.rest[i]
        /\ Append(r.rest, o)[Len(r.rest) + 1] = o
    BY <1>1, <1>2
  <2>2. Len(r.rest) = n - m /\ \A i \in 1..(n - m) : r.rest[i] = q[m + i]
    BY <1>4 DEF Kept
  <2>3. Len(Append(r.rest, o)) = (n + 1) - m
    BY <2>1, <2>2
  <2>4. ASSUME NEW i \in 1..((n + 1) - m) PROVE Append(r.rest, o)[i] = q[m + i]
    <3>1. CASE i = n - m + 1
      BY <3>1, <2>1, <2>2
    <3>2. CASE i # n - m + 1
      BY <3>2, <2>1, <2>2
    <3> QED BY <3>1, <3>2
  <2> QED BY <2>1, <2>3, <2>4 DEF Kept
<1> HIDE DEF p
<1>6. ASSUME r.stop PROVE LoopInv(y, q, file, done, n + 1, s)
  <2>1. s = [file |-> r.file, done |-> r.done, rest |-> Append(r.rest, o), stop |-> r.stop,
             spec |-> r.spec]
    BY <1>6, <1>1 DEF TryNext
  <2>2. s \in LoopType
    BY <2>1, <1>1, <1>k DEF LoopType
  <2>3. /\ s.file = r.file /\ s.done = r.done /\ s.rest = Append(r.rest, o)
        /\ s.stop = r.stop /\ s.spec = r.spec
    BY <2>1
  <2> HIDE DEF s, o
  <2> QED BY <2>3, <2>2, <1>4, <1>5, <1>6, <1>k, <1>n, Zenon DEF LoopInv
<1>7. ASSUME ~r.stop /\ p.status = "not_done" PROVE LoopInv(y, q, file, done, n + 1, s)
  <2>1. s = [file |-> r.file, done |-> r.done, rest |-> Append(r.rest, o), stop |-> TRUE,
             spec |-> r.spec]
    BY <1>7, <1>1 DEF TryNext, p
  <2>2. s \in LoopType
    BY <2>1, <1>1, <1>k DEF LoopType
  <2>3. Quiet(y, r.file)
    BY <1>3, <1>7 DEF Performs
  <2>4. /\ s.file = r.file /\ s.done = r.done /\ s.rest = Append(r.rest, o)
        /\ s.stop = TRUE /\ s.spec = r.spec
    BY <2>1
  <2> HIDE DEF s, o
  <2> QED BY <2>4, <2>2, <2>3, <1>4, <1>5, <1>7, <1>k, <1>n, Zenon DEF LoopInv
<1>8. ASSUME ~r.stop /\ p.status # "not_done" PROVE LoopInv(y, q, file, done, n + 1, s)
  <2> DEFINE stops == p.status = "done_and_exhausted"
  <2>1. s = [file |-> p.file, done |-> r.done \cup {o}, rest |-> r.rest, stop |-> stops,
             spec |-> ~stops]
    BY <1>8, <1>1 DEF TryNext, p
  <2>2. p.file \in FileType /\ Weaker(file, p.file) /\ (stops => Quiet(y, p.file))
    BY <1>3, <1>5, WeakerTransitive DEF Performs
  <2>3. s \in LoopType
    BY <2>1, <2>2, <1>1, <1>2 DEF LoopType
  <2>4. m = n /\ s.done = done \cup {q[i] : i \in 1..(n + 1)}
    BY <2>1, <1>4, <1>8
  <2>5. Kept(q, n + 1, n + 1, s.rest)
    BY <2>1, <2>4, <1>1, <1>4 DEF Kept
  <2>6. s.file = p.file /\ s.stop = stops /\ s.spec = ~stops
    BY <2>1
  <2>7. n + 1 \in 0..(n + 1) /\ ~(n + 1 = 0)
    OBVIOUS
  <2> HIDE DEF s, o, stops
  <2> QED BY <2>7, <2>6, <2>2, <2>3, <2>4, <2>5, <1>8, Zenon DEF LoopInv
<1> QED BY <1>6, <1>7, <1>8, <1>1 DEF p

(* What perform_io's loop does with the queue of one type.                  *)
LEMMA PerformQueueLoop ==
  ASSUME NEW y \in Types, NEW q \in Seq(ReactorOps), NEW file \in FileType,
         NEW done \in SUBSET ReactorOps,
         \A i \in 1..Len(q) : op[q[i]].kind \in Kinds /\ KindType[op[q[i]].kind] = y
  PROVE  LoopInv(y, q, file, done, Len(q), PerformQueue(q, file, done))
<1>1. PICK g : /\ PerformQueue(q, file, done) = g[Len(q)]
               /\ g = [n \in 0..Len(q) |-> IF n = 0 THEN Start(file, done)
                                           ELSE TryNext(g[n - 1], q[n])]
  BY PerformQueueRun
<1> DEFINE T == {n \in 0..Len(q) : LoopInv(y, q, file, done, n, g[n])}
<1>2. 0 \in T
  <2>1. g[0] = Start(file, done)
    BY <1>1
  <2>2. Start(file, done) \in LoopType
    BY DEF Start, LoopType
  <2>3. LoopInv(y, q, file, done, 0, Start(file, done))
    <3> DEFINE s == Start(file, done)
    <3>1. /\ s.file = file /\ s.done = done /\ s.rest = <<>> /\ s.stop = FALSE
          /\ s.spec = TRUE
      BY DEF Start
    <3>2. 0 \in 0..0 /\ done = done \cup {q[i] : i \in 1..0} /\ Kept(q, 0, 0, <<>>)
      BY DEF Kept
    <3> HIDE DEF s
    <3>3. LoopInv(y, q, file, done, 0, s)
      BY <2>2, <3>1, <3>2 DEF LoopInv, Weaker, s
    <3> QED BY <3>3 DEF s
  <2> QED BY <2>1, <2>3
<1>3. ASSUME NEW n \in 0..(Len(q) - 1), n \in T PROVE n + 1 \in T
  <2>1. g[n + 1] = TryNext(g[n], q[n + 1])
    BY <1>1
  <2>2. LoopInv(y, q, file, done, n + 1, TryNext(g[n], q[n + 1]))
    BY <1>3, LoopStep
  <2> QED BY <2>1, <2>2
<1>4. Len(q) \in T
  <2> HIDE DEF T
  <2>1. Len(q) \in Nat /\ Len(q) \in 0..Len(q)
    OBVIOUS
  <2> QED BY <2>1, <1>2, <1>3, BoundedInduction
<1> QED BY <1>1, <1>4

-----------------------------------------------------------------------------
(* perform_io over the types, in the order of its outer loop.              *)

QueueOps(q) == \A y \in Types : \A i \in 1..Len(q[y]) :
                 op[q[y][i]].kind \in Kinds /\ KindType[op[q[y][i]].kind] = y

PassType == [file : FileType, done : SUBSET ReactorOps, op_queue : [Types -> Seq(ReactorOps)],
             spec : [Types -> BOOLEAN]]

(* s is where the pass that began with start is after the types in Y: of    *)
(* the queue of every type y it has finished the first m[y] operations.     *)
PassInv(start, events, Y, s, m) ==
  /\ s \in PassType
  /\ m \in [Types -> Nat]
  /\ \A y \in Types : /\ m[y] <= Len(start.op_queue[y])
                      /\ Kept(start.op_queue[y], m[y], Len(start.op_queue[y]), s.op_queue[y])
                      /\ (y \notin Y \/ ~Concerns(y, events))
                           => /\ m[y] = 0 /\ s.op_queue[y] = start.op_queue[y]
                              /\ s.spec[y] = start.spec[y]
                      /\ (y \in Y /\ Concerns(y, events))
                           => (s.op_queue[y] # <<>> \/ ~s.spec[y] => Quiet(y, s.file))
  /\ s.done = UNION {{start.op_queue[y][i] : i \in 1..m[y]} : y \in Types}
  /\ Weaker(start.file, s.file)
  /\ (\A y \in Types : start.op_queue[y] = <<>>) => s.file = start.file

LEMMA QuietWeaker ==
  ASSUME NEW y, NEW a, NEW b, Quiet(y, a), Weaker(a, b)
  PROVE  Quiet(y, b)
  BY DEF Quiet, Weaker, ReadyFor

LEMMA PassStep ==
  ASSUME NEW start \in PassType, NEW events, NEW Y \in SUBSET Types, NEW y \in Types \ Y,
         NEW s, NEW m, PassInv(start, events, Y, s, m), QueueOps(start.op_queue)
  PROVE  \E n : PassInv(start, events, Y \cup {y}, PerformType(s, y, events), n)
<1> DEFINE q == start.op_queue[y]
           r == PerformQueue(q, s.file, s.done)
<1>1. /\ s.file \in FileType /\ s.done \in SUBSET ReactorOps
      /\ s.op_queue \in [Types -> Seq(ReactorOps)] /\ s.spec \in [Types -> BOOLEAN]
      /\ start.file \in FileType /\ start.op_queue \in [Types -> Seq(ReactorOps)]
      /\ start.spec \in [Types -> BOOLEAN]
  BY DEF PassInv, PassType
<1>2. s.op_queue[y] = q /\ m \in [Types -> Nat] /\ m[y] = 0
  BY DEF PassInv
<1>3. ASSUME ~Concerns(y, events) PROVE PassInv(start, events, Y \cup {y}, s, m)
  BY <1>3 DEF PassInv
<1>4. ASSUME Concerns(y, events)
      PROVE  \E n : PassInv(start, events, Y \cup {y}, PerformType(s, y, events), n)
  <2> DEFINE u == PerformType(s, y, events)
  <2>1. q \in Seq(ReactorOps)
    BY <1>1
  <2>2. \A i \in 1..Len(q) : op[q[i]].kind \in Kinds /\ KindType[op[q[i]].kind] = y
    BY DEF QueueOps
  <2>3. LoopInv(y, q, s.file, s.done, Len(q), r)
    <3> HIDE DEF q
    <3> QED BY <2>1, <2>2, <1>1, PerformQueueLoop
  <2>4. u = [file |-> r.file, done |-> r.done,
             op_queue |-> [s.op_queue EXCEPT ![y] = r.rest],
             spec |-> [s.spec EXCEPT ![y] = r.spec]]
    BY <1>2, <1>4 DEF PerformType
  <2> HIDE DEF r, u, q
  <2>5. /\ r.file \in FileType /\ r.done \in SUBSET ReactorOps /\ r.rest \in Seq(ReactorOps)
        /\ r.stop \in BOOLEAN /\ r.spec \in BOOLEAN
    BY <2>3 DEF LoopInv, LoopType
  <2>6. PICK k \in 0..Len(q) : /\ r.done = s.done \cup {q[i] : i \in 1..k}
                               /\ Kept(q, k, Len(q), r.rest)
                               /\ ~r.stop => k = Len(q)
                               /\ Len(q) = 0 => r.file = s.file
    BY <2>3 DEF LoopInv
  <2>7. Weaker(s.file, r.file) /\ (r.stop => Quiet(y, r.file)) /\ (~r.spec => r.stop)
    BY <2>3 DEF LoopInv
  <2> DEFINE n == [m EXCEPT ![y] = k]
  <2>8. /\ u.file = r.file /\ u.done = r.done
        /\ u.op_queue = [s.op_queue EXCEPT ![y] = r.rest]
        /\ u.spec = [s.spec EXCEPT ![y] = r.spec]
        /\ u \in PassType
    BY <2>4, <2>5, <1>1 DEF PassType
  <2>9. /\ n \in [Types -> Nat] /\ n[y] = k
        /\ \A z \in Types : z # y => n[z] = m[z]
    BY <1>2, <2>1
  <2>10. /\ u.op_queue[y] = r.rest /\ u.spec[y] = r.spec
         /\ \A z \in Types : z # y => u.op_queue[z] = s.op_queue[z] /\ u.spec[z] = s.spec[z]
    BY <2>8, <1>1
  <2> HIDE DEF n
  <2>11. k <= Len(q) /\ (r.rest # <<>> => r.stop)
    <3>1. ~r.stop => Len(r.rest) = 0
      BY <2>1, <2>6 DEF Kept
    <3> QED BY <3>1, <2>1, <2>5, <2>6
  <2>12. ASSUME NEW z \in Types
         PROVE  /\ n[z] <= Len(start.op_queue[z])
                /\ Kept(start.op_queue[z], n[z], Len(start.op_queue[z]), u.op_queue[z])
                /\ (z \notin Y \cup {y} \/ ~Concerns(z, events))
                     => /\ n[z] = 0 /\ u.op_queue[z] = start.op_queue[z]
                        /\ u.spec[z] = start.spec[z]
                /\ (z \in Y \cup {y} /\ Concerns(z, events))
                     => (u.op_queue[z] # <<>> \/ ~u.spec[z] => Quiet(z, u.file))
    <3>1. CASE z = y
      BY <3>1, <1>4, <2>6, <2>7, <2>8, <2>9, <2>10, <2>11 DEF q
    <3>2. CASE z # y
      <4>1. n[z] = m[z] /\ u.op_queue[z] = s.op_queue[z] /\ u.spec[z] = s.spec[z]
        BY <3>2, <2>9, <2>10
      <4>2. Quiet(z, s.file) => Quiet(z, u.file)
        BY <2>7, <2>8, QuietWeaker
      <4> QED BY <3>2, <4>1, <4>2 DEF PassInv
    <3> QED BY <3>1, <3>2
  <2>13. u.done = UNION {{start.op_queue[z][i] : i \in 1..n[z]} : z \in Types}
    <3>1. s.done = UNION {{start.op_queue[z][i] : i \in 1..m[z]} : z \in Types}
      BY DEF PassInv
    <3>2. \A o : o \in s.done <=> \E z \in Types : \E i \in 1..m[z] : o = start.op_queue[z][i]
      BY <3>1
    <3>3. \A o : o \in u.done <=> o \in s.done \/ \E i \in 1..k : o = q[i]
      BY <2>6, <2>8
    <3>4. 1..m[y] = {}
      BY <1>2
    <3>5. \A o : o \in u.done <=> \E z \in Types : \E i \in 1..n[z] : o = start.op_queue[z][i]
      BY <3>2, <3>3, <3>4, <2>9 DEF q
    <3> QED BY <3>5
  <2>14. Weaker(start.file, u.file)
    BY <2>7, <2>8, WeakerTransitive DEF PassInv
  <2>15. (\A z \in Types : start.op_queue[z] = <<>>) => u.file = start.file
    BY <2>6, <2>8 DEF PassInv, q
  <2>16. PassInv(start, events, Y \cup {y}, u, n)
    BY <2>8, <2>9, <2>12, <2>13, <2>14, <2>15 DEF PassInv
  <2> QED BY <2>16 DEF u
<1>5. ~Concerns(y, events) => PerformType(s, y, events) = s
  BY DEF PerformType
<1> HIDE DEF q, r
<1> QED BY <1>3, <1>4, <1>5

LEMMA PerformAllPass ==
  ASSUME NEW start \in PassType, NEW events, QueueOps(start.op_queue), start.done = {}
  PROVE  \E m : PassInv(start, events, Types, PerformAll(start, events), m)
<1> DEFINE s1 == PerformType(start, "except", events)
           s2 == PerformType(s1, "write", events)
           s3 == PerformType(s2, "read", events)
<1>1. PassInv(start, events, {}, start, [y \in Types |-> 0])
  <2>1. \A y \in Types : Kept(start.op_queue[y], 0, Len(start.op_queue[y]), start.op_queue[y])
    BY DEF Kept, PassType
  <2>2. \A y \in Types : Len(start.op_queue[y]) \in Nat
    BY DEF PassType
  <2>3. \A y \in Types : {start.op_queue[y][i] : i \in 1..[z \in Types |-> 0][y]} = {}
    OBVIOUS
  <2> QED BY <2>1, <2>2, <2>3 DEF PassInv, Weaker
<1> HIDE DEF s1, s2, s3
<1>2. \E m : PassInv(start, events, {"except"}, s1, m)
  <2>1. \E m : PassInv(start, events, {} \cup {"except"}, s1, m)
    BY <1>1, PassStep DEF Types, s1
  <2> QED BY <2>1
<1>3. \E m : PassInv(start, events, {"except", "write"}, s2, m)
  <2>1. PICK m : PassInv(start, events, {"except"}, s1, m)
    BY <1>2
  <2>2. \E n : PassInv(start, events, {"except"} \cup {"write"}, s2, n)
    BY <2>1, PassStep DEF Types, s2
  <2>3. {"except"} \cup {"write"} = {"except", "write"}
    OBVIOUS
  <2> QED BY <2>2, <2>3
<1>4. \E m : PassInv(start, events, Types, s3, m)
  <2>1. PICK m : PassInv(start, events, {"except", "write"}, s2, m)
    BY <1>3
  <2>2. \E n : PassInv(start, events, {"except", "write"} \cup {"read"}, s3, n)
    BY <2>1, PassStep DEF Types, s3
  <2>3. {"except", "write"} \cup {"read"} = Types
    BY DEF Types
  <2> QED BY <2>2, <2>3
<1> QED BY <1>4 DEF PerformAll, s1, s2, s3

-----------------------------------------------------------------------------
(* Updates of a descriptor_state, field by field.                          *)

Fields(u, descriptor, events, down, queue, spec) ==
  /\ u \in StateType
  /\ u.descriptor = descriptor /\ u.registered_events = events /\ u.shutdown = down
  /\ u.op_queue = queue /\ u.try_speculative = spec

LEMMA SetFields ==
  ASSUME NEW s \in StateType
  PROVE  /\ \A v \in Fds \cup {Null} :
              Fields([s EXCEPT !.descriptor = v],
                     v, s.registered_events, s.shutdown, s.op_queue, s.try_speculative)
         /\ \A v \in SUBSET {"in", "out", "pri"} :
              Fields([s EXCEPT !.registered_events = v],
                     s.descriptor, v, s.shutdown, s.op_queue, s.try_speculative)
         /\ \A v \in BOOLEAN :
              Fields([s EXCEPT !.shutdown = v],
                     s.descriptor, s.registered_events, v, s.op_queue, s.try_speculative)
         /\ \A v \in [Types -> Seq(ReactorOps)] :
              Fields([s EXCEPT !.op_queue = v],
                     s.descriptor, s.registered_events, s.shutdown, v, s.try_speculative)
         /\ \A v \in [Types -> BOOLEAN] :
              Fields([s EXCEPT !.try_speculative = v],
                     s.descriptor, s.registered_events, s.shutdown, s.op_queue, v)
<1>1. \A v \in Fds \cup {Null} :
        Fields([s EXCEPT !.descriptor = v],
               v, s.registered_events, s.shutdown, s.op_queue, s.try_speculative)
  BY DEF Fields, StateType
<1>2. \A v \in SUBSET {"in", "out", "pri"} :
        Fields([s EXCEPT !.registered_events = v],
               s.descriptor, v, s.shutdown, s.op_queue, s.try_speculative)
  BY DEF Fields, StateType
<1>3. \A v \in BOOLEAN :
        Fields([s EXCEPT !.shutdown = v],
               s.descriptor, s.registered_events, v, s.op_queue, s.try_speculative)
  BY DEF Fields, StateType
<1>4. \A v \in [Types -> Seq(ReactorOps)] :
        Fields([s EXCEPT !.op_queue = v],
               s.descriptor, s.registered_events, s.shutdown, v, s.try_speculative)
  BY DEF Fields, StateType
<1>5. \A v \in [Types -> BOOLEAN] :
        Fields([s EXCEPT !.try_speculative = v],
               s.descriptor, s.registered_events, s.shutdown, s.op_queue, v)
  BY DEF Fields, StateType
<1> QED BY <1>1, <1>2, <1>3, <1>4, <1>5

NoOps == [y \in Types |-> <<>>]

(* register_descriptor, also when epoll refuses the descriptor.             *)
LEMMA RegisterFields ==
  ASSUME NEW s \in StateType, NEW f \in Fds, NEW events \in SUBSET {"in", "out", "pri"}
  PROVE  Fields([s EXCEPT !.descriptor = f, !.shutdown = FALSE, !.registered_events = events,
                          !.try_speculative = [y \in Types |-> TRUE]],
                f, events, FALSE, s.op_queue, [y \in Types |-> TRUE])
<1> DEFINE a == [s EXCEPT !.descriptor = f]
           b == [a EXCEPT !.shutdown = FALSE]
           c == [b EXCEPT !.registered_events = events]
           v == [y \in Types |-> TRUE]
           u == [s EXCEPT !.descriptor = f, !.shutdown = FALSE, !.registered_events = events,
                          !.try_speculative = v]
<1>1. u = [c EXCEPT !.try_speculative = v]
  OBVIOUS
<1>2. v \in [Types -> BOOLEAN] /\ f \in Fds \cup {Null} /\ FALSE \in BOOLEAN
  OBVIOUS
<1>3. Fields(a, f, s.registered_events, s.shutdown, s.op_queue, s.try_speculative)
  BY <1>2, SetFields
<1> HIDE DEF a
<1>4. Fields(b, f, s.registered_events, FALSE, s.op_queue, s.try_speculative)
  BY <1>2, <1>3, SetFields DEF Fields
<1> HIDE DEF b
<1>5. Fields(c, f, events, FALSE, s.op_queue, s.try_speculative)
  BY <1>4, SetFields DEF Fields
<1> HIDE DEF c, u, v
<1>6. Fields(u, f, events, FALSE, s.op_queue, v)
  BY <1>1, <1>2, <1>5, SetFields DEF Fields
<1> QED BY <1>6 DEF u, v

(* start_op that queues the operation. *)
LEMMA PushFields ==
  ASSUME NEW s \in StateType, NEW y \in Types, NEW o \in ReactorOps,
         NEW events \in SUBSET {"in", "out", "pri"}, NEW spec \in BOOLEAN
  PROVE  Fields([s EXCEPT !.op_queue[y] = Append(@, o), !.registered_events = events,
                          !.try_speculative[y] = spec],
                s.descriptor, events, s.shutdown, [s.op_queue EXCEPT ![y] = Append(@, o)],
                [s.try_speculative EXCEPT ![y] = spec])
<1> DEFINE q == [s.op_queue EXCEPT ![y] = Append(@, o)]
           v == [s.try_speculative EXCEPT ![y] = spec]
           a == [s EXCEPT !.op_queue = q]
           b == [a EXCEPT !.registered_events = events]
           u == [s EXCEPT !.op_queue[y] = Append(@, o), !.registered_events = events,
                          !.try_speculative[y] = spec]
<1>1. u = [b EXCEPT !.try_speculative = v]
  BY DEF StateType
<1>2. q \in [Types -> Seq(ReactorOps)] /\ v \in [Types -> BOOLEAN]
  BY DEF StateType
<1> HIDE DEF q, v
<1>3. Fields(a, s.descriptor, s.registered_events, s.shutdown, q, s.try_speculative)
  BY <1>2, SetFields
<1> HIDE DEF a
<1>4. Fields(b, s.descriptor, events, s.shutdown, q, s.try_speculative)
  <2>1. a \in StateType
    BY <1>3 DEF Fields
  <2>2. Fields([a EXCEPT !.registered_events = events],
               a.descriptor, events, a.shutdown, a.op_queue, a.try_speculative)
    BY <2>1, SetFields
  <2> QED BY <1>3, <2>2 DEF Fields
<1> HIDE DEF b, u
<1>5. Fields(u, s.descriptor, events, s.shutdown, q, v)
  BY <1>1, <1>2, <1>4, SetFields DEF Fields
<1> QED BY <1>5 DEF u, q, v

(* deregister_descriptor. *)
LEMMA CloseFields ==
  ASSUME NEW s \in StateType
  PROVE  Fields([s EXCEPT !.op_queue = NoOps, !.descriptor = Null, !.shutdown = TRUE],
                Null, s.registered_events, TRUE, NoOps, s.try_speculative)
<1> DEFINE a == [s EXCEPT !.op_queue = NoOps]
           b == [a EXCEPT !.descriptor = Null]
           u == [s EXCEPT !.op_queue = NoOps, !.descriptor = Null, !.shutdown = TRUE]
<1>1. u = [b EXCEPT !.shutdown = TRUE]
  OBVIOUS
<1>2. NoOps \in [Types -> Seq(ReactorOps)] /\ Null \in Fds \cup {Null} /\ TRUE \in BOOLEAN
  BY DEF NoOps
<1>3. Fields(a, s.descriptor, s.registered_events, s.shutdown, NoOps, s.try_speculative)
  BY <1>2, SetFields
<1> HIDE DEF a
<1>4. Fields(b, Null, s.registered_events, s.shutdown, NoOps, s.try_speculative)
  <2>1. a \in StateType
    BY <1>3 DEF Fields
  <2>2. Fields([a EXCEPT !.descriptor = Null],
               Null, a.registered_events, a.shutdown, a.op_queue, a.try_speculative)
    BY <2>1, <1>2, SetFields
  <2> QED BY <1>3, <2>2 DEF Fields
<1> HIDE DEF b, u
<1>5. Fields(u, Null, s.registered_events, TRUE, NoOps, s.try_speculative)
  BY <1>1, <1>2, <1>4, SetFields DEF Fields
<1> QED BY <1>5 DEF u

(* epoll_reactor::shutdown. *)
LEMMA ShutdownFields ==
  ASSUME NEW s \in StateType
  PROVE  Fields([s EXCEPT !.shutdown = TRUE, !.op_queue = NoOps],
                s.descriptor, s.registered_events, TRUE, NoOps, s.try_speculative)
<1> DEFINE a == [s EXCEPT !.shutdown = TRUE]
           u == [s EXCEPT !.shutdown = TRUE, !.op_queue = NoOps]
<1>1. u = [a EXCEPT !.op_queue = NoOps]
  OBVIOUS
<1>2. NoOps \in [Types -> Seq(ReactorOps)] /\ TRUE \in BOOLEAN
  BY DEF NoOps
<1>3. Fields(a, s.descriptor, s.registered_events, TRUE, s.op_queue, s.try_speculative)
  BY <1>2, SetFields
<1> HIDE DEF a, u
<1>4. Fields(u, s.descriptor, s.registered_events, TRUE, NoOps, s.try_speculative)
  BY <1>1, <1>2, <1>3, SetFields DEF Fields
<1> QED BY <1>4 DEF u

(* perform_io. *)
LEMMA PerformFields ==
  ASSUME NEW s \in StateType, NEW q \in [Types -> Seq(ReactorOps)],
         NEW v \in [Types -> BOOLEAN]
  PROVE  Fields([s EXCEPT !.op_queue = q, !.try_speculative = v],
                s.descriptor, s.registered_events, s.shutdown, q, v)
<1> DEFINE a == [s EXCEPT !.op_queue = q]
           u == [s EXCEPT !.op_queue = q, !.try_speculative = v]
<1>1. u = [a EXCEPT !.try_speculative = v]
  OBVIOUS
<1>2. Fields(a, s.descriptor, s.registered_events, s.shutdown, q, s.try_speculative)
  BY SetFields
<1> HIDE DEF a, u
<1>3. Fields(u, s.descriptor, s.registered_events, s.shutdown, q, v)
  BY <1>1, <1>2, SetFields DEF Fields
<1> QED BY <1>3 DEF u

-----------------------------------------------------------------------------
(* The inductive invariant.                                                *)

(* A socket and the descriptor_state it points to.  reactor_data_ outlives  *)
(* its state only once shutdown() has run.                                  *)
SocketShape ==
  \A k \in Sockets :
    /\ socket[k].closing => socket[k].fd # Null
    /\ socket[k].fd # Null => kernel[socket[k].fd].open
    /\ socket[k].data # Null => socket[k].data \in live \/ shutdown
    /\ socket[k].data # Null /\ shutdown
         => state[socket[k].data].shutdown /\ ~socket[k].closing
    /\ Open(k) => /\ socket[k].data # Null
                  /\ kernel[socket[k].fd].dup => socket[k].dup
                  /\ IF state[socket[k].data].shutdown THEN shutdown
                     ELSE state[socket[k].data].descriptor = socket[k].fd

Distinct ==
  \A j, k \in Sockets : j # k => /\ socket[j].data = socket[k].data => socket[j].data = Null
                                 /\ socket[j].fd = socket[k].fd => socket[j].fd = Null

PoolInv ==
  /\ IsInjective(free) /\ ToSet(free) \cap live = {}
  /\ IsFiniteSet(live) /\ (shutdown => live = {})

(* What epoll was asked for. *)
Asked ==
  /\ \A d \in States : state[d].registered_events # {}
                         => {"in", "pri"} \subseteq state[d].registered_events
  /\ \A f \in Fds : epoll[f].ptr = Null => epoll[f] = NoRegistration

(* What epoll knows of a file while the reactor runs: the file is open, and *)
(* its socket is still there, or was closed while another process has the   *)
(* file.                                                                    *)
Left(f) == /\ kernel[f].forked /\ ~kernel[f].dup
           /\ \A k \in Sockets : socket[k].fd # f

Owned ==
  ~shutdown => \A f \in Fds : epoll[f].ptr # Null =>
    kernel[f].open /\ (HasOwner(f) \/ Left(f))

Registration(d, events) ==
  IF events = {} THEN NoRegistration ELSE [ptr |-> d, events |-> events]

Registered ==
  ~shutdown => \A k \in Sockets : Open(k) =>
    epoll[socket[k].fd] = Registration(socket[k].data, state[socket[k].data].registered_events)

(* A socket that is being closed keeps its registration only if closing the *)
(* file removes it.                                                         *)
Removed ==
  ~shutdown => \A k \in Sockets :
    socket[k].closing /\ kernel[socket[k].fd].dup => epoll[socket[k].fd].ptr = Null

RegInv == Asked /\ Owned /\ Registered /\ Removed

(* Operation o is the i-th that waits in the queue of type y of state d.    *)
At(o, d, y, i) == i \in 1..Len(state[d].op_queue[y]) /\ state[d].op_queue[y][i] = o

(* Whoever waits, waits in an open socket's state, for which epoll was      *)
(* asked to report the type ...                                             *)
WaitsAtSocket ==
  \A d \in States, y \in Types :
    state[d].op_queue[y] # <<>> =>
      /\ ~state[d].shutdown /\ Flag[y] \in state[d].registered_events
      /\ \E k \in Sockets : Open(k) /\ socket[k].data = d

(* ... and at one place.                                                    *)
WaitsOnce ==
  \A o \in ReactorOps, d \in States, y \in Types, i \in Nat :
    At(o, d, y, i) => /\ result[o] = "queued"
                      /\ op[o].kind \in Kinds /\ KindType[op[o].kind] = y
                      /\ \A e \in States, z \in Types, j \in Nat :
                           At(o, e, z, j) => e = d /\ z = y /\ j = i

WaitsSomewhere ==
  \A o \in ReactorOps :
    result[o] = "queued" => \E d \in States, y \in Types, i \in Nat : At(o, d, y, i)

QueueInv == WaitsAtSocket /\ WaitsOnce /\ WaitsSomewhere

(* An operation of type y waits in a state with these fields, or the next   *)
(* one will not be tried before it is queued.                               *)
Depends(u, y) ==
  /\ ~u.shutdown
  /\ \/ u.op_queue[y] # <<>>
     \/ ~u.try_speculative[y] /\ Flag[y] \in u.registered_events

Coming(k, y) == socket[k].fd \in ready \/ OnTheWay(socket[k].data, y)

(* Readiness that an operation depends on is reported.                      *)
Reports ==
  \A k \in Sockets, y \in Types :
    Open(k) /\ Depends(state[socket[k].data], y) /\ ~Quiet(y, kernel[socket[k].fd])
      => Coming(k, y)

ReadyInv == Reports /\ (batch # {} => enqueued = {})

IInv == TypeInv /\ SocketShape /\ Distinct /\ PoolInv /\ RegInv /\ QueueInv /\ ReadyInv

-----------------------------------------------------------------------------
(* The pool.                                                               *)

LEMMA AllocEffect ==
  ASSUME TypeInv, PoolInv, NEW d \in States, Alloc(d)
  PROVE  /\ d \notin live /\ live' = live \cup {d}
         /\ free' \in Seq(States) /\ IsInjective(free') /\ ToSet(free') \cap live' = {}
         /\ IsFiniteSet(live')
<1>1. free \in Seq(States) /\ live \in SUBSET States /\ IsFiniteSet(live)
  BY DEF TypeInv, StateTypes, PoolInv
<1>2. \A i, j \in 1..Len(free) : free[i] = free[j] => i = j
  BY <1>1 DEF PoolInv, IsInjective
<1>3. \A i \in 1..Len(free) : free[i] \notin live
  BY <1>1 DEF PoolInv, ToSet
<1>f. live' = live \cup {d} /\ IsFiniteSet(live')
  BY <1>1, FS_AddElement DEF Alloc
<1>4. CASE free = <<>>
  <2>1. d \notin live /\ free' = free
    BY <1>4 DEF Alloc
  <2> QED BY <1>1, <1>4, <1>f, <2>1 DEF IsInjective, ToSet
<1>5. CASE free # <<>>
  <2>1. d = free[1] /\ free' = Tail(free) /\ Len(free) \in Nat /\ Len(free) > 0
    BY <1>1, <1>5 DEF Alloc
  <2>2. /\ free' \in Seq(States) /\ Len(free') = Len(free) - 1
        /\ \A i \in 1..Len(free') : free'[i] = free[i + 1]
    BY <1>1, <1>5, <2>1
  <2>3. d \notin live
    BY <1>3, <2>1
  <2>4. IsInjective(free')
    <3> SUFFICES ASSUME NEW i \in 1..Len(free'), NEW j \in 1..Len(free'), free'[i] = free'[j]
                 PROVE  i = j
      BY <2>2 DEF IsInjective
    <3>1. i + 1 \in 1..Len(free) /\ j + 1 \in 1..Len(free) /\ free[i + 1] = free[j + 1]
      BY <2>1, <2>2
    <3> QED BY <1>2, <3>1
  <2>5. ASSUME NEW i \in 1..Len(free') PROVE free'[i] \notin live \cup {d}
    <3>1. i + 1 \in 1..Len(free) /\ 1 \in 1..Len(free) /\ i + 1 # 1 /\ free'[i] = free[i + 1]
      BY <2>1, <2>2
    <3> QED BY <1>2, <1>3, <2>1, <3>1
  <2>6. ToSet(free') \cap live' = {}
    BY <1>f, <2>2, <2>5 DEF ToSet
  <2> QED BY <1>f, <2>2, <2>3, <2>4, <2>6
<1> QED BY <1>4, <1>5

(* Putting states back, one by one or all at once. *)
LEMMA BackToPool ==
  ASSUME NEW s \in Seq(States), NEW r \in Seq(States), IsInjective(s), IsInjective(r),
         \A i \in 1..Len(s), j \in 1..Len(r) : s[i] # r[j]
  PROVE  /\ s \o r \in Seq(States) /\ IsInjective(s \o r)
         /\ ToSet(s \o r) = ToSet(s) \cup ToSet(r)
<1>1. /\ s \o r \in Seq(States) /\ Len(s \o r) = Len(s) + Len(r)
      /\ Len(s) \in Nat /\ Len(r) \in Nat
      /\ \A i \in 1..(Len(s) + Len(r)) :
           (s \o r)[i] = IF i <= Len(s) THEN s[i] ELSE r[i - Len(s)]
  OBVIOUS
<1>2. /\ \A i, j \in 1..Len(s) : s[i] = s[j] => i = j
      /\ \A i, j \in 1..Len(r) : r[i] = r[j] => i = j
  BY DEF IsInjective
<1>3. IsInjective(s \o r)
  <2> SUFFICES ASSUME NEW i \in 1..(Len(s) + Len(r)), NEW j \in 1..(Len(s) + Len(r)),
                      (s \o r)[i] = (s \o r)[j]
               PROVE  i = j
    BY <1>1 DEF IsInjective
  <2>1. CASE i <= Len(s) /\ j <= Len(s)
    BY <2>1, <1>1, <1>2
  <2>2. CASE ~(i <= Len(s)) /\ ~(j <= Len(s))
    <3>1. i - Len(s) \in 1..Len(r) /\ j - Len(s) \in 1..Len(r)
      BY <2>2, <1>1
    <3>2. r[i - Len(s)] = r[j - Len(s)]
      BY <2>2, <1>1
    <3>3. i - Len(s) = j - Len(s)
      BY <3>1, <3>2, <1>2
    <3> QED BY <3>3, <1>1
  <2>3. CASE i <= Len(s) /\ ~(j <= Len(s))
    <3>1. i \in 1..Len(s) /\ j - Len(s) \in 1..Len(r)
      BY <2>3, <1>1
    <3>2. s[i] = r[j - Len(s)]
      BY <2>3, <1>1
    <3> QED BY <3>1, <3>2
  <2>4. CASE ~(i <= Len(s)) /\ j <= Len(s)
    <3>1. j \in 1..Len(s) /\ i - Len(s) \in 1..Len(r)
      BY <2>4, <1>1
    <3>2. s[j] = r[i - Len(s)]
      BY <2>4, <1>1
    <3> QED BY <3>1, <3>2
  <2> QED BY <2>1, <2>2, <2>3, <2>4
<1>4. ToSet(s \o r) = ToSet(s) \cup ToSet(r)
  <2>1. ASSUME NEW x \in ToSet(s \o r) PROVE x \in ToSet(s) \cup ToSet(r)
    <3>1. PICK i \in 1..(Len(s) + Len(r)) : x = (s \o r)[i]
      BY <1>1 DEF ToSet
    <3>2. CASE i <= Len(s)
      BY <3>1, <3>2, <1>1 DEF ToSet
    <3>3. CASE ~(i <= Len(s))
      <4>1. i - Len(s) \in 1..Len(r) /\ x = r[i - Len(s)]
        BY <3>1, <3>3, <1>1
      <4> QED BY <4>1 DEF ToSet
    <3> QED BY <3>2, <3>3
  <2>2. ASSUME NEW x \in ToSet(s) PROVE x \in ToSet(s \o r)
    <3>1. PICK i \in 1..Len(s) : x = s[i]
      BY DEF ToSet
    <3>2. i \in 1..(Len(s) + Len(r)) /\ x = (s \o r)[i]
      BY <3>1, <1>1
    <3> QED BY <3>2, <1>1 DEF ToSet
  <2>3. ASSUME NEW x \in ToSet(r) PROVE x \in ToSet(s \o r)
    <3>1. PICK i \in 1..Len(r) : x = r[i]
      BY DEF ToSet
    <3>2. Len(s) + i \in 1..(Len(s) + Len(r)) /\ x = (s \o r)[Len(s) + i]
      BY <3>1, <1>1
    <3> QED BY <3>2, <1>1 DEF ToSet
  <2> QED BY <2>1, <2>2, <2>3
<1> QED BY <1>1, <1>3, <1>4

LEMMA FreeEffect ==
  ASSUME TypeInv, PoolInv, NEW d \in live, FreeState(d)
  PROVE  /\ live' = live \ {d} /\ IsFiniteSet(live')
         /\ free' \in Seq(States) /\ IsInjective(free') /\ ToSet(free') \cap live' = {}
<1>1. free \in Seq(States) /\ live \in SUBSET States /\ IsFiniteSet(live)
  BY DEF TypeInv, StateTypes, PoolInv
<1>2. live' = live \ {d} /\ free' = <<d>> \o free
  BY DEF FreeState
<1>3. IsFiniteSet(live')
  BY <1>1, <1>2, FS_RemoveElement
<1>4. <<d>> \in Seq(States) /\ IsInjective(<<d>>) /\ ToSet(<<d>>) = {d} /\ Len(<<d>>) = 1
      /\ <<d>>[1] = d
  BY <1>1 DEF IsInjective, ToSet
<1>5. \A j \in 1..Len(free) : free[j] \notin live
  BY <1>1 DEF PoolInv, ToSet
<1>6. \A i \in 1..Len(<<d>>), j \in 1..Len(free) : <<d>>[i] # free[j]
  BY <1>4, <1>5
<1>7. /\ free' \in Seq(States) /\ IsInjective(free')
      /\ ToSet(free') = {d} \cup ToSet(free)
  BY <1>1, <1>2, <1>4, <1>6, BackToPool DEF PoolInv
<1> QED BY <1>2, <1>3, <1>7 DEF PoolInv

LEMMA ShutdownPool ==
  ASSUME TypeInv, PoolInv, live' = {}, \E order \in SetToSeqs(live) : free' = order \o free
  PROVE  free' \in Seq(States) /\ IsInjective(free')
<1>1. free \in Seq(States) /\ live \in SUBSET States /\ IsFiniteSet(live)
  BY DEF TypeInv, StateTypes, PoolInv
<1>2. PICK order \in SetToSeqs(live) : free' = order \o free
  OBVIOUS
<1>3. Cardinality(live) \in Nat
  BY <1>1, FS_CardinalityType
<1>4. order \in [1..Cardinality(live) -> live] /\ IsInjective(order)
  BY DEF SetToSeqs, IsInjective
<1>5. order \in Seq(States) /\ Len(order) = Cardinality(live)
  BY <1>1, <1>3, <1>4
<1>6. \A j \in 1..Len(free) : free[j] \notin live
  BY <1>1 DEF PoolInv, ToSet
<1>7. \A i \in 1..Len(order), j \in 1..Len(free) : order[i] # free[j]
  BY <1>4, <1>5, <1>6
<1> QED BY <1>1, <1>2, <1>4, <1>5, <1>7, BackToPool DEF PoolInv

-----------------------------------------------------------------------------
(* What the larger actions do, in terms of the invariant.                  *)

LEMMA FieldsOfState ==
  ASSUME TypeInv, NEW d \in States
  PROVE  /\ state[d] = [descriptor |-> state[d].descriptor,
                        registered_events |-> state[d].registered_events,
                        shutdown |-> state[d].shutdown, op_queue |-> state[d].op_queue,
                        try_speculative |-> state[d].try_speculative]
         /\ state[d].descriptor \in Fds \cup {Null}
         /\ state[d].registered_events \in SUBSET {"in", "out", "pri"}
         /\ state[d].shutdown \in BOOLEAN
         /\ state[d].op_queue \in [Types -> Seq(ReactorOps)]
         /\ state[d].try_speculative \in [Types -> BOOLEAN]
  BY DEF TypeInv, StateTypes, StateType

LEMMA KindTypes == \A c \in Kinds : KindType[c] \in Types
  BY EpollReactorAssumption DEF KindType, Types

(* Something happens to a file: it may become ready for what event says.    *)
LEMMA KernelEffect ==
  ASSUME TypeInv, NEW f \in Fds,
         Arrive(f) \/ Drain(f) \/ Urgent(f) \/ PeerCloses(f) \/ PeerResets(f)
  PROVE  \E file \in FileType, event \in AllEvents :
           /\ KernelEvent(f, file, event)
           /\ file.open = kernel[f].open /\ file.dup = kernel[f].dup
           /\ file.forked = kernel[f].forked
           /\ \A y \in Types : Quiet(y, kernel[f]) => Quiet(y, file) \/ event \in {Flag[y], "hup"}
<1> DEFINE old == kernel[f]
<1>1. old \in FileType
  BY DEF TypeInv, KernelTypes
<1>2. /\ old.avail \in Nat /\ old.space \in Nat /\ old.came \in Nat /\ old.seen \in SUBSET Types
      /\ old.end \in {"no", "eof", "hup"}
  BY <1>1 DEF FileType
<1>3. Flag["read"] = "in" /\ Flag["write"] = "out" /\ Flag["except"] = "pri"
      /\ Types = {"read", "write", "except"}
  BY DEF Flag, Types
<1>4. ASSUME NEW file \in FileType, NEW event \in AllEvents,
             file.seen = old.seen,
             event # "in" => file.avail = old.avail,
             event # "out" => file.space = old.space,
             event # "pri" => file.pri = old.pri,
             event = "in" => old.end = "no" /\ file.end \in {"no", "eof"},
             event \in {"out", "pri"} => file.end = old.end
      PROVE  \A y \in Types : Quiet(y, old) => Quiet(y, file) \/ event \in {Flag[y], "hup"}
  BY <1>1, <1>2, <1>3, <1>4, QuietIs DEF AllEvents
<1> HIDE DEF old
<1>5. CASE Arrive(f)
  <2> DEFINE file == [old EXCEPT !.avail = @ + 1, !.came = @ + 1]
             more == [old EXCEPT !.avail = @ + 1]
  <2>a. file = [more EXCEPT !.came = old.came + 1]
    BY <1>1, <1>2
  <2>b. /\ more \in FileType /\ more.seen = old.seen /\ more.space = old.space
        /\ more.pri = old.pri /\ more.end = old.end /\ more.open = old.open
        /\ more.dup = old.dup /\ more.forked = old.forked
    BY <1>1, <1>2 DEF FileType
  <2>1. KernelEvent(f, file, "in") /\ old.end = "no"
    BY <1>5 DEF Arrive, More, old
  <2>2. /\ file \in FileType /\ file.seen = old.seen /\ file.space = old.space
        /\ file.pri = old.pri /\ file.end = old.end /\ file.open = old.open
        /\ file.dup = old.dup /\ file.forked = old.forked
    <3> HIDE DEF more, file
    <3> QED BY <2>a, <2>b, <1>2 DEF FileType
  <2> HIDE DEF file
  <2>3. \A y \in Types : Quiet(y, old) => Quiet(y, file) \/ "in" \in {Flag[y], "hup"}
    BY <2>1, <2>2, <1>4 DEF AllEvents
  <2> QED BY <2>1, <2>2, <2>3 DEF AllEvents, old
<1>6. CASE Drain(f)
  <2> DEFINE file == [old EXCEPT !.space = @ + 1, !.came = @ + 1]
             more == [old EXCEPT !.space = @ + 1]
  <2>a. file = [more EXCEPT !.came = old.came + 1]
    BY <1>1, <1>2
  <2>b. /\ more \in FileType /\ more.seen = old.seen /\ more.avail = old.avail
        /\ more.pri = old.pri /\ more.end = old.end /\ more.open = old.open
        /\ more.dup = old.dup /\ more.forked = old.forked
    BY <1>1, <1>2 DEF FileType
  <2>1. KernelEvent(f, file, "out")
    BY <1>6 DEF Drain, old
  <2>2. /\ file \in FileType /\ file.seen = old.seen /\ file.avail = old.avail
        /\ file.pri = old.pri /\ file.end = old.end /\ file.open = old.open
        /\ file.dup = old.dup /\ file.forked = old.forked
    <3> HIDE DEF more, file
    <3> QED BY <2>a, <2>b, <1>2 DEF FileType
  <2> HIDE DEF file
  <2>3. \A y \in Types : Quiet(y, old) => Quiet(y, file) \/ "out" \in {Flag[y], "hup"}
    BY <2>1, <2>2, <1>4 DEF AllEvents
  <2> QED BY <2>1, <2>2, <2>3 DEF AllEvents, old
<1>7. CASE Urgent(f)
  <2> DEFINE file == [old EXCEPT !.pri = TRUE, !.came = @ + 1]
             more == [old EXCEPT !.pri = TRUE]
  <2>a. file = [more EXCEPT !.came = old.came + 1]
    BY <1>1, <1>2
  <2>b. /\ more \in FileType /\ more.seen = old.seen /\ more.avail = old.avail
        /\ more.space = old.space /\ more.end = old.end /\ more.open = old.open
        /\ more.dup = old.dup /\ more.forked = old.forked
    BY <1>1, <1>2 DEF FileType
  <2>1. KernelEvent(f, file, "pri")
    BY <1>7 DEF Urgent, old
  <2>2. /\ file \in FileType /\ file.seen = old.seen /\ file.avail = old.avail
        /\ file.space = old.space /\ file.end = old.end /\ file.open = old.open
        /\ file.dup = old.dup /\ file.forked = old.forked
    <3> HIDE DEF more, file
    <3> QED BY <2>a, <2>b, <1>2 DEF FileType
  <2> HIDE DEF file
  <2>3. \A y \in Types : Quiet(y, old) => Quiet(y, file) \/ "pri" \in {Flag[y], "hup"}
    BY <2>1, <2>2, <1>4 DEF AllEvents
  <2> QED BY <2>1, <2>2, <2>3 DEF AllEvents, old
<1>8. CASE PeerCloses(f)
  <2> DEFINE file == [old EXCEPT !.end = "eof"]
  <2>1. KernelEvent(f, file, "in") /\ old.end = "no"
    BY <1>8 DEF PeerCloses, old
  <2>2. /\ file \in FileType /\ file.seen = old.seen /\ file.space = old.space
        /\ file.pri = old.pri /\ file.end = "eof" /\ file.open = old.open
        /\ file.dup = old.dup /\ file.forked = old.forked
    BY <1>1, <1>2 DEF FileType
  <2> HIDE DEF file
  <2>3. \A y \in Types : Quiet(y, old) => Quiet(y, file) \/ "in" \in {Flag[y], "hup"}
    BY <2>1, <2>2, <1>4 DEF AllEvents
  <2> QED BY <2>1, <2>2, <2>3 DEF AllEvents, old
<1>9. CASE PeerResets(f)
  <2> DEFINE file == [old EXCEPT !.end = "hup"]
  <2>1. KernelEvent(f, file, "hup")
    BY <1>9 DEF PeerResets, old
  <2>2. file \in FileType /\ file.open = old.open /\ file.dup = old.dup /\ file.forked = old.forked
    BY <1>1, <1>2 DEF FileType
  <2> HIDE DEF file
  <2> QED BY <2>1, <2>2 DEF AllEvents, old
<1> QED BY <1>5, <1>6, <1>7, <1>8, <1>9

(* perform_io finishes, per type, the operations at the front of the queue. *)
PerformStart(t) ==
  LET d == performing[t].ptr
      f == state[d].descriptor
  IN  [file |-> IF f = Null THEN NoFile ELSE kernel[f], done |-> {},
       op_queue |-> state[d].op_queue, spec |-> state[d].try_speculative]

LEMMA PerformEffect ==
  ASSUME IInv, NEW t \in Threads, perform_io(t)
  PROVE  /\ performing[t].ptr \in States
         /\ QueueOps(state[performing[t].ptr].op_queue)
         /\ PerformStart(t) \in PassType
         /\ \E m : PassInv(PerformStart(t), performing[t].events, Types,
                           PerformAll(PerformStart(t), performing[t].events), m)
<1> DEFINE d == performing[t].ptr
<1>0. TypeInv
  BY DEF IInv
<1>1. d \in States
  BY <1>0 DEF perform_io, TypeInv, EventTypes
<1>2. QueueOps(state[d].op_queue)
  <2>1. ASSUME NEW y \in Types, NEW i \in 1..Len(state[d].op_queue[y])
        PROVE  op[state[d].op_queue[y][i]].kind \in Kinds
               /\ KindType[op[state[d].op_queue[y][i]].kind] = y
    <3>1. state[d].op_queue[y] \in Seq(ReactorOps)
      BY <1>0, <1>1, FieldsOfState
    <3>2. state[d].op_queue[y][i] \in ReactorOps /\ i \in Nat
      BY <3>1
    <3>3. At(state[d].op_queue[y][i], d, y, i)
      BY DEF At
    <3>4. \A o \in ReactorOps, e \in States, z \in Types, j \in Nat :
            At(o, e, z, j) => op[o].kind \in Kinds /\ KindType[op[o].kind] = z
      BY DEF IInv, QueueInv, WaitsOnce
    <3> QED BY <1>1, <3>2, <3>3, <3>4, Zenon
  <2> QED BY <2>1 DEF QueueOps
<1>3. PerformStart(t) \in PassType
  <2>1. NoFile \in FileType
    BY DEF NoFile, FileType
  <2>2. state[d].descriptor \in Fds \cup {Null} /\ state[d].op_queue \in [Types -> Seq(ReactorOps)]
        /\ state[d].try_speculative \in [Types -> BOOLEAN]
    BY <1>0, <1>1, FieldsOfState
  <2>3. \A f \in Fds : kernel[f] \in FileType
    BY <1>0 DEF TypeInv, KernelTypes
  <2> QED BY <2>1, <2>2, <2>3 DEF PerformStart, PassType
<1>4. PerformStart(t).done = {} /\ PerformStart(t).op_queue = state[d].op_queue
  BY DEF PerformStart
<1> QED BY <1>1, <1>2, <1>3, <1>4, PerformAllPass

(* One descriptor_state changes, to these fields. *)
StateStep(d, descriptor, events, down, queue, spec) ==
  /\ d \in States /\ state' \in [States -> StateType]
  /\ \A e \in States : e # d => state'[e] = state[e]
  /\ Fields(state'[d], descriptor, events, down, queue, spec)

LEMMA OneState ==
  ASSUME TypeInv, NEW d \in States, NEW u, state' = [state EXCEPT ![d] = u],
         NEW descriptor, NEW events, NEW down, NEW queue, NEW spec,
         Fields(u, descriptor, events, down, queue, spec)
  PROVE  StateStep(d, descriptor, events, down, queue, spec)
<1>1. state \in [States -> StateType]
  BY DEF TypeInv, StateTypes
<1>2. u \in StateType
  BY DEF Fields
<1> QED BY <1>1, <1>2 DEF StateStep

(* A state that the pool hands out: nobody points to it or waits on it. *)
LEMMA FreshState ==
  ASSUME IInv, ~shutdown, NEW d \in States, d \notin live
  PROVE  /\ \A k \in Sockets : socket[k].data # d
         /\ state[d].op_queue = NoOps
<1>1. \A k \in Sockets : socket[k].data # d
  <2>1. Null \notin States
    BY EpollReactorAssumption
  <2> QED BY <2>1 DEF IInv, SocketShape
<1>2. state[d].op_queue \in [Types -> Seq(ReactorOps)]
  BY FieldsOfState DEF IInv
<1>3. \A y \in Types : state[d].op_queue[y] = <<>>
  BY <1>1 DEF IInv, QueueInv, WaitsAtSocket
<1> QED BY <1>1, <1>2, <1>3 DEF NoOps

LEMMA AllocatedState ==
  ASSUME IInv, ~shutdown, NEW f \in Fds, NEW d \in States, Alloc(d),
         NEW events \in SUBSET {"in", "out", "pri"},
         state' = [state EXCEPT ![d] =
                    [@ EXCEPT !.descriptor = f, !.shutdown = FALSE,
                              !.registered_events = events,
                              !.try_speculative = [y \in Types |-> TRUE]]]
  PROVE  /\ StateStep(d, f, events, FALSE, NoOps, [y \in Types |-> TRUE])
         /\ d \notin live /\ live' = live \cup {d}
         /\ free' \in Seq(States) /\ IsInjective(free') /\ ToSet(free') \cap live' = {}
         /\ IsFiniteSet(live')
         /\ \A k \in Sockets : socket[k].data # d
         /\ state[d].op_queue = NoOps
<1>0. TypeInv /\ PoolInv
  BY DEF IInv
<1>1. state[d] \in StateType
  BY <1>0 DEF TypeInv, StateTypes
<1>2. /\ d \notin live /\ live' = live \cup {d}
      /\ free' \in Seq(States) /\ IsInjective(free') /\ ToSet(free') \cap live' = {}
      /\ IsFiniteSet(live')
  BY <1>0, AllocEffect
<1>3. (\A k \in Sockets : socket[k].data # d) /\ state[d].op_queue = NoOps
  BY <1>2, FreshState
<1> DEFINE u == [state[d] EXCEPT !.descriptor = f, !.shutdown = FALSE,
                                 !.registered_events = events,
                                 !.try_speculative = [y \in Types |-> TRUE]]
<1>4. Fields(u, f, events, FALSE, NoOps, [y \in Types |-> TRUE])
  BY <1>1, <1>3, RegisterFields
<1>5. state' = [state EXCEPT ![d] = u]
  OBVIOUS
<1> HIDE DEF u
<1>6. StateStep(d, f, events, FALSE, NoOps, [y \in Types |-> TRUE])
  BY <1>0, <1>4, <1>5, OneState
<1> QED BY <1>2, <1>3, <1>6

(* The descriptor_state that register_descriptor takes from the pool. *)
RegisterDone(d, f, events) ==
  /\ StateStep(d, f, events, FALSE, NoOps, [y \in Types |-> TRUE])
  /\ d \notin live /\ live' = live \cup {d}
  /\ free' \in Seq(States) /\ IsInjective(free') /\ ToSet(free') \cap live' = {}
  /\ IsFiniteSet(live')
  /\ \A j \in Sockets : socket[j].data # d
  /\ state[d].op_queue = NoOps

LEMMA RegisteredState ==
  ASSUME IInv, NEW k \in Sockets, NEW f \in Fds, NEW d \in States, NEW assigned \in BOOLEAN,
         NEW dup \in BOOLEAN, NEW events \in {{}, {"in", "pri"}},
         register_descriptor(k, f, d, assigned, dup, events)
  PROVE  RegisterDone(d, f, events)
<1>1. events \in SUBSET {"in", "out", "pri"}
  OBVIOUS
<1>2. /\ ~shutdown /\ Alloc(d)
      /\ state' = [state EXCEPT ![d] =
              [@ EXCEPT !.descriptor = f, !.shutdown = FALSE, !.registered_events = events,
                        !.try_speculative = [y \in Types |-> TRUE]]]
  BY DEF register_descriptor
<1> QED BY <1>1, <1>2, AllocatedState DEF RegisterDone

LEMMA FailedState ==
  ASSUME IInv, NEW k \in Sockets, NEW f \in Fds, NEW d \in States, RegisterFails(k, f, d)
  PROVE  RegisterDone(d, f, {"in", "pri"})
<1>1. {"in", "pri"} \in SUBSET {"in", "out", "pri"}
  OBVIOUS
<1>2. /\ ~shutdown /\ Alloc(d)
      /\ state' = [state EXCEPT ![d] =
              [@ EXCEPT !.descriptor = f, !.shutdown = FALSE,
                        !.registered_events = {"in", "pri"},
                        !.try_speculative = [y \in Types |-> TRUE]]]
  BY DEF RegisterFails
<1> QED BY <1>1, <1>2, AllocatedState DEF RegisterDone

(* A socket's state while the socket is open. *)
LEMMA OpenSocket ==
  ASSUME IInv, NEW k \in Sockets, Open(k)
  PROVE  /\ socket[k].fd \in Fds /\ socket[k].data \in States
         /\ kernel[socket[k].fd].open /\ kernel[socket[k].fd] \in FileType
         /\ state[socket[k].data].shutdown <=> shutdown
         /\ ~shutdown => /\ state[socket[k].data].descriptor = socket[k].fd
                         /\ socket[k].data \in live
<1>0. TypeInv /\ SocketShape
  BY DEF IInv
<1>1. socket[k].fd \in Fds \cup {Null} /\ socket[k].data \in States \cup {Null}
      /\ \A f \in Fds : kernel[f] \in FileType
  BY <1>0 DEF TypeInv, SocketTypes, KernelTypes
<1>2. state[socket[k].data].shutdown \in BOOLEAN /\ shutdown \in BOOLEAN
  BY <1>0, <1>1, FieldsOfState DEF TypeInv, SocketTypes, SocketShape
<1> QED BY <1>0, <1>1, <1>2 DEF SocketShape, Open

(* start_op posts the operation, finishes it, or queues it.  It goes to the *)
(* queue without epoll looking again only if others wait, or the attempt    *)
(* found nothing, or an earlier attempt had exhausted the descriptor.       *)
Posted(k, o) ==
  /\ shutdown
  /\ result' = [result EXCEPT ![o] = "posted"] /\ UNCHANGED <<state, kernel_vars>>

Finished(k, o, y) ==
  LET d == socket[k].data
      f == socket[k].fd
  IN  \E file \in FileType, spec \in BOOLEAN, r \in {"ok", "error"} :
        /\ result' = [result EXCEPT ![o] = r] /\ kernel' = [kernel EXCEPT ![f] = file]
        /\ UNCHANGED <<epoll, ready>>
        /\ StateStep(d, state[d].descriptor, state[d].registered_events, state[d].shutdown,
                     state[d].op_queue, [state[d].try_speculative EXCEPT ![y] = spec])
        /\ Weaker(kernel[f], file)
        /\ spec = state[d].try_speculative[y] \/ Quiet(y, file)
        /\ r = "ok" => MayTry(d, y)

Pushed(k, o, y) ==
  LET d == socket[k].data
      f == socket[k].fd
  IN  \E events \in SUBSET {"in", "out", "pri"} :
        /\ result' = [result EXCEPT ![o] = "queued"] /\ kernel' = kernel
        /\ StateStep(d, state[d].descriptor, events, state[d].shutdown,
                     [state[d].op_queue EXCEPT ![y] = Append(@, o)],
                     state[d].try_speculative)
        /\ state[d].registered_events \subseteq events /\ Flag[y] \in events
        /\ state[d].registered_events # {}
        /\ events \subseteq state[d].registered_events \cup {Flag[y]}
        /\ \/ Register(f, kernel[f], d, events)
           \/ /\ UNCHANGED <<epoll, ready>> /\ events = state[d].registered_events
              /\ \/ state[d].op_queue[y] # <<>> \/ Quiet(y, kernel[f])
                 \/ ~state[d].try_speculative[y]

LEMMA StartEffect ==
  ASSUME IInv, NEW k \in Sockets, NEW o \in ReactorOps, NEW c \in Kinds, start_op(k, o, c)
  PROVE  /\ Open(k) /\ KindType[c] \in Types /\ result[o] = "fresh"
         /\ op' = [op EXCEPT ![o] = [kind |-> c, socket |-> socket[k].fd]]
         /\ UNCHANGED <<socket, pool_vars, shutdown, event_vars>>
         /\ \/ Posted(k, o)
            \/ ~shutdown /\ Finished(k, o, KindType[c])
            \/ ~shutdown /\ Pushed(k, o, KindType[c])
<1> DEFINE d == socket[k].data
           f == socket[k].fd
           y == KindType[c]
           tries == c \in Speculative /\ MayTry(d, y)
           spec == state[d].try_speculative[y]
           p == IF tries /\ spec THEN Perform(c, kernel[f])
                ELSE [status |-> "not_done", file |-> kernel[f]]
           supported == state[d].registered_events # {}
<1>1. /\ Open(k) /\ y \in Types /\ result[o] = "fresh"
      /\ op' = [op EXCEPT ![o] = [kind |-> c, socket |-> f]]
      /\ UNCHANGED <<socket, pool_vars, shutdown, event_vars>>
  BY KindTypes DEF start_op, Open
<1>2. /\ f \in Fds /\ d \in States /\ kernel[f] \in FileType
      /\ state[d].shutdown <=> shutdown
      /\ ~shutdown => state[d].descriptor = f
  BY <1>1, OpenSocket
<1>3. shutdown => Posted(k, o)
  BY <1>2 DEF start_op, Posted
<1>4. ASSUME ~shutdown PROVE Finished(k, o, y) \/ Pushed(k, o, y)
  <2> HIDE DEF d, f, y
  <2>0. TypeInv /\ QueueInv /\ RegInv
    BY DEF IInv
  <2>s. state[d] \in StateType /\ spec \in BOOLEAN
    BY <2>0, <1>1, <1>2 DEF TypeInv, StateTypes, StateType
  <2>k. kernel \in [Fds -> FileType]
    BY <2>0 DEF TypeInv, KernelTypes
  <2>1. StartOp(d, o, c, y) /\ state[d].descriptor = f
    BY <1>2, <1>4 DEF start_op, d, f, y
  <2>2. /\ p.file \in FileType /\ Weaker(kernel[f], p.file)
        /\ p.status \in {"done", "done_and_exhausted", "not_done"}
        /\ p.status = "not_done" => ~tries \/ ~spec \/ Quiet(y, kernel[f])
        /\ p.status # "not_done" => tries
        /\ p.status = "done_and_exhausted" => Quiet(y, p.file)
    <3>1. Performs(Perform(c, kernel[f]), y, kernel[f])
      BY <1>2, PerformWeakens DEF y
    <3>2. Weaker(kernel[f], kernel[f])
      BY DEF Weaker
    <3>3. CASE tries /\ spec
      BY <3>1, <3>3 DEF Performs
    <3>4. CASE ~(tries /\ spec)
      BY <3>2, <3>4, <1>2
    <3> QED BY <3>3, <3>4
  <2> DEFINE after == IF p.status = "done_and_exhausted" /\ supported THEN FALSE ELSE spec
             pushes == /\ Push(d, o, y, kernel[f],
                               IF state[d].op_queue[y] = <<>> THEN Events(d, y)
                               ELSE state[d].registered_events, spec)
                       /\ RegisterAgain(d, y, tries, kernel[f])
  <2>3. \/ p.status # "not_done" /\ Finish(d, o, y, p.file, after, "ok")
        \/ Finish(d, o, y, kernel[f], spec, "error")
        \/ /\ p.status = "not_done" /\ (supported \/ state[d].op_queue[y] # <<>>)
           /\ pushes
    BY <2>1 DEF StartOp
  <2> HIDE DEF p
  <2>4. ASSUME NEW file \in FileType, NEW v \in BOOLEAN, NEW r, Finish(d, o, y, file, v, r)
        PROVE  /\ result' = [result EXCEPT ![o] = r] /\ kernel' = [kernel EXCEPT ![f] = file]
               /\ UNCHANGED <<epoll, ready>>
               /\ StateStep(d, state[d].descriptor, state[d].registered_events,
                            state[d].shutdown, state[d].op_queue,
                            [state[d].try_speculative EXCEPT ![y] = v])
    <3>1. /\ result' = [result EXCEPT ![o] = r] /\ kernel' = [kernel EXCEPT ![f] = file]
          /\ UNCHANGED <<epoll, ready>>
      BY <2>1, <2>4 DEF Finish
    <3> DEFINE vs == [state[d].try_speculative EXCEPT ![y] = v]
               u == [state[d] EXCEPT !.try_speculative = vs]
    <3>2. state' = [state EXCEPT ![d] = u]
      BY <2>4 DEF Finish
    <3>3. vs \in [Types -> BOOLEAN]
      BY <2>s, <1>1 DEF StateType
    <3> HIDE DEF vs
    <3>4. Fields(u, state[d].descriptor, state[d].registered_events, state[d].shutdown,
                 state[d].op_queue, vs)
      BY <2>s, <3>3, SetFields
    <3> HIDE DEF u
    <3>5. StateStep(d, state[d].descriptor, state[d].registered_events,
                    state[d].shutdown, state[d].op_queue, vs)
      BY <3>2, <3>4, <1>2, <2>0, OneState
    <3> QED BY <3>1, <3>5 DEF vs
  <2>5. ASSUME p.status # "not_done", Finish(d, o, y, p.file, after, "ok")
        PROVE  Finished(k, o, y)
    <3>1. after \in BOOLEAN /\ (after = spec \/ Quiet(y, p.file))
      BY <2>2, <2>s
    <3> HIDE DEF after
    <3>2. /\ result' = [result EXCEPT ![o] = "ok"] /\ kernel' = [kernel EXCEPT ![f] = p.file]
          /\ UNCHANGED <<epoll, ready>>
          /\ StateStep(d, state[d].descriptor, state[d].registered_events,
                       state[d].shutdown, state[d].op_queue,
                       [state[d].try_speculative EXCEPT ![y] = after])
      BY <2>2, <2>4, <2>5, <3>1
    <3>3. MayTry(d, y)
      BY <2>2, <2>5
    <3> QED BY <3>1, <3>2, <3>3, <2>2 DEF Finished, d, f
  <2>6. ASSUME Finish(d, o, y, kernel[f], spec, "error")
        PROVE  Finished(k, o, y)
    <3>1. /\ result' = [result EXCEPT ![o] = "error"]
          /\ kernel' = [kernel EXCEPT ![f] = kernel[f]]
          /\ UNCHANGED <<epoll, ready>>
          /\ StateStep(d, state[d].descriptor, state[d].registered_events,
                       state[d].shutdown, state[d].op_queue,
                       [state[d].try_speculative EXCEPT ![y] = spec])
      BY <2>4, <2>6, <1>2, <2>s
    <3>2. Weaker(kernel[f], kernel[f])
      BY DEF Weaker
    <3> QED BY <3>1, <3>2, <1>2, <2>s DEF Finished, d, f
  <2>7. ASSUME p.status = "not_done", supported \/ state[d].op_queue[y] # <<>>, pushes
        PROVE  Pushed(k, o, y)
    <3> DEFINE events == IF state[d].op_queue[y] = <<>> THEN Events(d, y)
                         ELSE state[d].registered_events
    <3>r. state[d].registered_events \in SUBSET {"in", "out", "pri"}
      BY <2>s DEF StateType
    <3>1. supported /\ {"in", "pri"} \subseteq state[d].registered_events
          /\ (state[d].op_queue[y] # <<>> => Flag[y] \in state[d].registered_events)
      BY <2>7, <2>0, <1>1, <1>2 DEF QueueInv, WaitsAtSocket, RegInv, Asked
    <3>2. /\ y = "write" => Flag[y] = "out"
          /\ y # "write" => Flag[y] \in {"in", "pri"}
      BY <1>1 DEF Types, Flag
    <3>3. /\ events \in SUBSET {"in", "out", "pri"}
          /\ state[d].registered_events \subseteq events /\ Flag[y] \in events
          /\ events \subseteq state[d].registered_events \cup {Flag[y]}
      <4>1. CASE y = "write" /\ state[d].op_queue[y] = <<>>
        <5>1. events = state[d].registered_events \cup {"out"} /\ Flag[y] = "out"
          BY <4>1, <3>2 DEF Events
        <5> HIDE DEF events
        <5> QED BY <5>1, <3>r
      <4>2. CASE ~(y = "write" /\ state[d].op_queue[y] = <<>>)
        <5>1. events = state[d].registered_events
          BY <4>2 DEF Events
        <5> HIDE DEF events
        <5> QED BY <5>1, <4>2, <3>r, <3>1, <3>2
      <4> QED BY <4>1, <4>2
    <3>4. /\ Push(d, o, y, kernel[f], events, spec)
          /\ RegisterAgain(d, y, tries, kernel[f])
      BY <2>7
    <3>5. \/ Register(f, kernel[f], d, events)
          \/ /\ UNCHANGED <<epoll, ready>> /\ events = state[d].registered_events
             /\ \/ state[d].op_queue[y] # <<>> \/ Quiet(y, kernel[f])
                \/ ~state[d].try_speculative[y]
      <4>1. CASE state[d].op_queue[y] # <<>>
        BY <4>1, <3>4 DEF RegisterAgain
      <4>2. CASE state[d].op_queue[y] = <<>> /\ (~tries \/ AddsOut(d, y, tries))
        BY <4>2, <3>4, <2>1 DEF RegisterAgain
      <4>3. CASE state[d].op_queue[y] = <<>> /\ tries /\ ~AddsOut(d, y, tries)
        <5>1. UNCHANGED <<epoll, ready>>
          BY <4>3, <3>4 DEF RegisterAgain
        <5>2. y = "write" => "out" \in state[d].registered_events
          BY <4>3 DEF AddsOut
        <5>3. events = state[d].registered_events
          BY <4>3, <5>2 DEF Events
        <5>4. Quiet(y, kernel[f]) \/ ~spec
          BY <4>3, <2>2, <2>7
        <5> QED BY <5>1, <5>3, <5>4
      <4> QED BY <4>1, <4>2, <4>3
    <3> HIDE DEF events
    <3>6. /\ result' = [result EXCEPT ![o] = "queued"]
          /\ kernel' = [kernel EXCEPT ![f] = kernel[f]]
      BY <3>4, <2>1 DEF Push
    <3>7. kernel' = kernel
      BY <3>6, <2>k
    <3> DEFINE u == [state[d] EXCEPT !.op_queue[y] = Append(state[d].op_queue[y], o),
                                     !.registered_events = events,
                                     !.try_speculative[y] = spec]
    <3>8. state' = [state EXCEPT ![d] = u]
      BY <3>4 DEF Push
    <3>9. Fields(u, state[d].descriptor, events, state[d].shutdown,
                 [state[d].op_queue EXCEPT ![y] = Append(@, o)],
                 [state[d].try_speculative EXCEPT ![y] = spec])
      BY <2>s, <1>1, <3>3, PushFields
    <3>10. [state[d].try_speculative EXCEPT ![y] = spec] = state[d].try_speculative
      BY <2>s, <1>1 DEF StateType
    <3> HIDE DEF u
    <3>11. StateStep(d, state[d].descriptor, events, state[d].shutdown,
                     [state[d].op_queue EXCEPT ![y] = Append(@, o)],
                     state[d].try_speculative)
      <4> HIDE DEF spec
      <4>1. Fields(u, state[d].descriptor, events, state[d].shutdown,
                   [state[d].op_queue EXCEPT ![y] = Append(@, o)],
                   state[d].try_speculative)
        BY <3>9, <3>10
      <4> QED BY <3>8, <4>1, <1>2, <2>0, OneState
    <3> QED BY <3>1, <3>3, <3>5, <3>6, <3>7, <3>11 DEF Pushed, d, f
  <2> QED BY <2>3, <2>5, <2>6, <2>7
<1> QED BY <1>1, <1>3, <1>4

(* One socket object changes, to these fields. *)
SocketType ==
  [fd : Fds \cup {Null}, data : States \cup {Null}, dup : BOOLEAN, closing : BOOLEAN]

SocketStep(k, fd, data, dup, closing) ==
  /\ socket' \in [Sockets -> SocketType]
  /\ \A j \in Sockets : j # k => socket'[j] = socket[j]
  /\ socket'[k].fd = fd /\ socket'[k].data = data /\ socket'[k].dup = dup
  /\ socket'[k].closing = closing

(* One file changes. *)
FileStep(f, open, dup, forked) ==
  /\ kernel' \in [Fds -> FileType]
  /\ \A g \in Fds : g # f => kernel'[g] = kernel[g]
  /\ kernel'[f].open = open /\ kernel'[f].dup = dup /\ kernel'[f].forked = forked

LEMMA NothingThere ==
  /\ NoFile \in FileType
  /\ NoFile.open = FALSE /\ NoFile.dup = FALSE /\ NoFile.forked = FALSE
  /\ Closed \in SocketType
  /\ Closed.fd = Null /\ Closed.data = Null /\ Closed.dup = FALSE /\ Closed.closing = FALSE
  /\ NewState \in StateType
  /\ NoRegistration.ptr = Null /\ NoRegistration.events = {}
  /\ NoRegistration \in [ptr : States \cup {Null}, events : SUBSET {"in", "out", "pri"}]
<1>1. /\ NoFile \in FileType
      /\ NoFile.open = FALSE /\ NoFile.dup = FALSE /\ NoFile.forked = FALSE
  BY DEF NoFile, FileType
<1>2. /\ Closed \in SocketType
      /\ Closed.fd = Null /\ Closed.data = Null /\ Closed.dup = FALSE /\ Closed.closing = FALSE
  BY DEF Closed, SocketType
<1>3. NewState \in StateType
  BY DEF NewState, StateType
<1>4. /\ NoRegistration.ptr = Null /\ NoRegistration.events = {}
      /\ NoRegistration \in [ptr : States \cup {Null}, events : SUBSET {"in", "out", "pri"}]
  BY DEF NoRegistration
<1> QED BY <1>1, <1>2, <1>3, <1>4

LEMMA RegisteredFile ==
  ASSUME TypeInv, NEW f \in Fds, NEW dup \in BOOLEAN,
         kernel' = [kernel EXCEPT ![f] = [NoFile EXCEPT !.open = TRUE, !.dup = dup]]
  PROVE  FileStep(f, TRUE, dup, FALSE)
<1> DEFINE a == [NoFile EXCEPT !.open = TRUE]
           u == [NoFile EXCEPT !.open = TRUE, !.dup = dup]
<1>1. u = [a EXCEPT !.dup = dup]
  OBVIOUS
<1>2. a \in FileType /\ a.open = TRUE /\ a.forked = FALSE
  BY NothingThere DEF FileType
<1> HIDE DEF a
<1>3. u \in FileType /\ u.open = TRUE /\ u.dup = dup /\ u.forked = FALSE
  <2> HIDE DEF u
  <2> QED BY <1>1, <1>2 DEF FileType
<1>4. kernel' = [kernel EXCEPT ![f] = u] /\ kernel \in [Fds -> FileType]
  BY DEF TypeInv, KernelTypes
<1> HIDE DEF u
<1> QED BY <1>3, <1>4 DEF FileStep

LEMMA RegisterEffect ==
  ASSUME IInv, NEW k \in Sockets, NEW f \in Fds, NEW d \in States, NEW assigned \in BOOLEAN,
         NEW dup \in BOOLEAN, NEW events \in {{}, {"in", "pri"}},
         register_descriptor(k, f, d, assigned, dup, events), dup => assigned
  PROVE  /\ socket[k].fd = Null /\ ~shutdown /\ ~kernel[f].open
         /\ SocketStep(k, f, d, assigned, FALSE)
         /\ FileStep(f, TRUE, dup, FALSE)
         /\ IF events = {} THEN UNCHANGED <<epoll, ready>> ELSE Register(f, NoFile, d, events)
         /\ UNCHANGED <<shutdown, event_vars, op_vars>>
<1>0. TypeInv
  BY DEF IInv
<1>1. /\ socket[k].fd = Null /\ ~shutdown /\ ~kernel[f].open
      /\ socket' = [socket EXCEPT ![k] = [fd |-> f, data |-> d, dup |-> assigned,
                                          closing |-> FALSE]]
      /\ kernel' = [kernel EXCEPT ![f] = [NoFile EXCEPT !.open = TRUE, !.dup = dup]]
      /\ IF events = {} THEN UNCHANGED <<epoll, ready>> ELSE Register(f, NoFile, d, events)
      /\ UNCHANGED <<shutdown, event_vars, op_vars>>
  BY DEF register_descriptor
<1>2. SocketStep(k, f, d, assigned, FALSE)
  <2>1. socket \in [Sockets -> SocketType]
    BY <1>0 DEF TypeInv, SocketTypes, SocketType
  <2>2. [fd |-> f, data |-> d, dup |-> assigned, closing |-> FALSE] \in SocketType
    BY DEF SocketType
  <2> QED BY <1>1, <2>1, <2>2 DEF SocketStep
<1> QED BY <1>0, <1>1, <1>2, RegisteredFile

LEMMA FailEffect ==
  ASSUME IInv, NEW k \in Sockets, NEW f \in Fds, NEW d \in States, RegisterFails(k, f, d)
  PROVE  /\ socket[k].fd = Null /\ ~shutdown
         /\ SocketStep(k, Null, d, socket[k].dup, socket[k].closing)
         /\ UNCHANGED <<shutdown, event_vars, op_vars, kernel_vars>>
<1>1. /\ socket[k].fd = Null /\ ~shutdown /\ socket' = [socket EXCEPT ![k].data = d]
      /\ UNCHANGED <<shutdown, event_vars, op_vars, kernel_vars>>
  BY DEF RegisterFails
<1>2. socket \in [Sockets -> SocketType]
  BY DEF IInv, TypeInv, SocketTypes, SocketType
<1> QED BY <1>1, <1>2 DEF SocketStep, SocketType

LEMMA DeregisterEffect ==
  ASSUME IInv, NEW k \in Sockets, NEW how \in {"close", "release"},
         deregister_descriptor(k, how)
  PROVE  LET d == socket[k].data
             f == socket[k].fd
         IN  /\ Open(k) /\ UNCHANGED <<pool_vars, shutdown, event_vars, op>>
             /\ FileStep(f, kernel[f].open, kernel[f].dup \/ how = "release", kernel[f].forked)
             /\ ~shutdown =>
                  /\ SocketStep(k, f, d, socket[k].dup, TRUE)
                  /\ StateStep(d, Null, state[d].registered_events, TRUE, NoOps,
                               state[d].try_speculative)
                  /\ Complete(QueuedOps(d), "aborted")
                  /\ IF ~ClosesFile(k, how) /\ state[d].registered_events # {}
                     THEN Unregister(f) ELSE UNCHANGED <<epoll, ready>>
             /\ shutdown =>
                  /\ SocketStep(k, f, Null, socket[k].dup, TRUE)
                  /\ UNCHANGED <<state, result, epoll, ready>>
<1> DEFINE d == socket[k].data
           f == socket[k].fd
<1>0. TypeInv
  BY DEF IInv
<1>1. Open(k) /\ UNCHANGED <<pool_vars, shutdown, event_vars, op>>
      /\ kernel' = [kernel EXCEPT ![f].dup = @ \/ how = "release"]
  BY DEF deregister_descriptor
<1>2. /\ f \in Fds /\ d \in States /\ kernel[f] \in FileType
      /\ state[d].shutdown <=> shutdown
  BY <1>1, OpenSocket
<1>3. socket \in [Sockets -> SocketType] /\ kernel \in [Fds -> FileType]
      /\ state[d] \in StateType
  BY <1>0, <1>2 DEF TypeInv, SocketTypes, SocketType, KernelTypes, StateTypes
<1>4. FileStep(f, kernel[f].open, kernel[f].dup \/ how = "release", kernel[f].forked)
  <2>1. (kernel[f].dup \/ how = "release") \in BOOLEAN
    OBVIOUS
  <2> DEFINE v == kernel[f].dup \/ how = "release"
  <2>2. kernel' = [kernel EXCEPT ![f].dup = v]
    BY <1>1
  <2> HIDE DEF v, f
  <2>3. v \in BOOLEAN
    BY <2>1 DEF v
  <2>4. FileStep(f, kernel[f].open, v, kernel[f].forked)
    BY <2>2, <2>3, <1>2, <1>3 DEF FileStep, FileType
  <2> QED BY <2>4 DEF v
<1>5. ASSUME ~shutdown
      PROVE  /\ SocketStep(k, f, d, socket[k].dup, TRUE)
             /\ StateStep(d, Null, state[d].registered_events, TRUE, NoOps,
                          state[d].try_speculative)
             /\ Complete(QueuedOps(d), "aborted")
             /\ IF ~ClosesFile(k, how) /\ state[d].registered_events # {}
                THEN Unregister(f) ELSE UNCHANGED <<epoll, ready>>
  <2> DEFINE u == [state[d] EXCEPT !.op_queue = [y \in Types |-> <<>>], !.descriptor = Null,
                                   !.shutdown = TRUE]
  <2>1. /\ Complete(QueuedOps(d), "aborted")
        /\ IF ~ClosesFile(k, how) /\ state[d].registered_events # {}
           THEN Unregister(f) ELSE UNCHANGED <<epoll, ready>>
        /\ state' = [state EXCEPT ![d] = u]
        /\ socket' = [socket EXCEPT ![k].closing = TRUE]
    BY <1>2, <1>5 DEF deregister_descriptor
  <2>2. SocketStep(k, f, d, socket[k].dup, TRUE)
    BY <2>1, <1>3 DEF SocketStep, SocketType
  <2>3. Fields(u, Null, state[d].registered_events, TRUE, NoOps, state[d].try_speculative)
    BY <1>3, CloseFields DEF NoOps
  <2> HIDE DEF u, d, f
  <2>4. StateStep(d, Null, state[d].registered_events, TRUE, NoOps, state[d].try_speculative)
    BY <2>1, <2>3, <1>0, <1>2, OneState
  <2> QED BY <2>1, <2>2, <2>4 DEF d, f
<1>6. ASSUME shutdown
      PROVE  /\ SocketStep(k, f, Null, socket[k].dup, TRUE)
             /\ UNCHANGED <<state, result, epoll, ready>>
  <2>1. /\ socket' = [socket EXCEPT ![k].closing = TRUE, ![k].data = Null]
        /\ UNCHANGED <<state, result, epoll, ready>>
    BY <1>2, <1>6 DEF deregister_descriptor, DataAfterShutdown
  <2> DEFINE a == [socket EXCEPT ![k].closing = TRUE]
  <2>2. socket' = [a EXCEPT ![k].data = Null]
    BY <2>1
  <2>3. /\ a \in [Sockets -> SocketType] /\ \A j \in Sockets : j # k => a[j] = socket[j]
        /\ a[k].fd = f /\ a[k].dup = socket[k].dup /\ a[k].closing = TRUE
    BY <1>3 DEF SocketType
  <2> HIDE DEF a, f
  <2>4. SocketStep(k, f, Null, socket[k].dup, TRUE)
    BY <2>2, <2>3 DEF SocketStep, SocketType
  <2> QED BY <2>1, <2>4 DEF f
<1> QED BY <1>1, <1>4, <1>5, <1>6

LEMMA FinishEffect ==
  ASSUME IInv, NEW k \in Sockets, FinishClose(k)
  PROVE  LET f == socket[k].fd IN
         /\ socket[k].closing /\ f \in Fds
         /\ SocketStep(k, Null, Null, FALSE, FALSE)
         /\ UNCHANGED <<state, shutdown, event_vars, op_vars>>
         /\ IF OpenElsewhere(kernel[f]) THEN UNCHANGED kernel_vars
            ELSE kernel' = [kernel EXCEPT ![f] = NoFile] /\ Unregister(f)
         /\ IF socket[k].data # Null
            THEN /\ socket[k].data \in live /\ ~shutdown /\ live' = live \ {socket[k].data}
            ELSE UNCHANGED pool_vars
         /\ free' \in Seq(States) /\ IsInjective(free') /\ ToSet(free') \cap live' = {}
         /\ IsFiniteSet(live') /\ live' \subseteq live
<1>0. TypeInv /\ SocketShape /\ PoolInv
  BY DEF IInv
<1>1. /\ socket[k].closing /\ socket' = [socket EXCEPT ![k] = Closed]
      /\ UNCHANGED <<state, shutdown, event_vars, op_vars>>
      /\ IF OpenElsewhere(kernel[socket[k].fd]) THEN UNCHANGED kernel_vars
         ELSE kernel' = [kernel EXCEPT ![socket[k].fd] = NoFile] /\ Unregister(socket[k].fd)
      /\ IF socket[k].data # Null THEN FreeState(socket[k].data) ELSE UNCHANGED pool_vars
  BY DEF FinishClose
<1>2. socket \in [Sockets -> SocketType] /\ socket[k].fd \in Fds
      /\ (socket[k].data # Null => socket[k].data \in live /\ ~shutdown)
  BY <1>0, <1>1 DEF TypeInv, SocketTypes, SocketType, SocketShape
<1>3. SocketStep(k, Null, Null, FALSE, FALSE)
  BY <1>1, <1>2, NothingThere DEF SocketStep
<1>4. CASE socket[k].data = Null
  <2>1. free \in Seq(States) /\ live' = live /\ free' = free
    BY <1>0, <1>1, <1>4 DEF TypeInv, StateTypes, pool_vars
  <2> QED BY <1>0, <1>1, <1>2, <1>3, <1>4, <2>1 DEF PoolInv
<1>5. CASE socket[k].data # Null
  <2>1. /\ live' = live \ {socket[k].data} /\ IsFiniteSet(live')
        /\ free' \in Seq(States) /\ IsInjective(free') /\ ToSet(free') \cap live' = {}
    BY <1>0, <1>1, <1>2, <1>5, FreeEffect
  <2> QED BY <1>1, <1>2, <1>3, <1>5, <2>1
<1> QED BY <1>4, <1>5

LEMMA MoveEffect ==
  ASSUME IInv, NEW k \in Sockets, NEW other \in Sockets \ {k}, move_descriptor(k, other)
  PROVE  /\ Open(other) /\ socket[k] = Closed
         /\ socket' \in [Sockets -> SocketType]
         /\ socket'[k] = socket[other] /\ socket'[other] = Closed
         /\ \A j \in Sockets : j \notin {k, other} => socket'[j] = socket[j]
         /\ UNCHANGED <<state, pool_vars, shutdown, event_vars, op_vars, kernel_vars>>
<1>1. socket \in [Sockets -> SocketType]
  BY DEF IInv, TypeInv, SocketTypes, SocketType
<1>2. /\ Open(other) /\ socket[k] = Closed
      /\ socket' = [socket EXCEPT ![k] = socket[other], ![other] = Closed]
      /\ UNCHANGED <<state, pool_vars, shutdown, event_vars, op_vars, kernel_vars>>
  BY DEF move_descriptor
<1> QED BY <1>1, <1>2, NothingThere

LEMMA ShutdownEffect ==
  ASSUME IInv, Shutdown
  PROVE  /\ ~shutdown /\ shutdown' = TRUE /\ batch = {} /\ enqueued' = {}
         /\ \A k \in Sockets : ~socket[k].closing
         /\ state' \in [States -> StateType]
         /\ \A d \in States :
              IF d \in live
              THEN Fields(state'[d], state[d].descriptor, state[d].registered_events, TRUE,
                          NoOps, state[d].try_speculative)
              ELSE state'[d] = state[d]
         /\ live' = {} /\ free' \in Seq(States) /\ IsInjective(free')
         /\ Complete(UNION {QueuedOps(d) : d \in live}, "destroyed")
         /\ UNCHANGED <<socket, batch, performing, op, kernel_vars>>
<1>0. TypeInv /\ PoolInv
  BY DEF IInv
<1>1. /\ ~shutdown /\ shutdown' = TRUE /\ batch = {} /\ enqueued' = {}
      /\ \A k \in Sockets : ~socket[k].closing
      /\ Complete(UNION {QueuedOps(d) : d \in live}, "destroyed")
      /\ state' = [d \in States |->
           IF d \in live THEN [state[d] EXCEPT !.shutdown = TRUE,
                                               !.op_queue = [y \in Types |-> <<>>]]
           ELSE state[d]]
      /\ live' = {}
      /\ \E order \in SetToSeqs(live) : free' = order \o free
      /\ UNCHANGED <<socket, batch, performing, op, kernel_vars>>
  BY DEF Shutdown
<1>2. free' \in Seq(States) /\ IsInjective(free')
  BY <1>0, <1>1, ShutdownPool
<1>3. ASSUME NEW d \in States
      PROVE  IF d \in live
             THEN Fields(state'[d], state[d].descriptor, state[d].registered_events, TRUE,
                         NoOps, state[d].try_speculative)
             ELSE state'[d] = state[d]
  <2>1. state[d] \in StateType
    BY <1>0 DEF TypeInv, StateTypes
  <2> DEFINE u == [state[d] EXCEPT !.shutdown = TRUE, !.op_queue = [y \in Types |-> <<>>]]
  <2>2. state'[d] = IF d \in live THEN u ELSE state[d]
    BY <1>1
  <2>3. Fields(u, state[d].descriptor, state[d].registered_events, TRUE, NoOps,
               state[d].try_speculative)
    BY <2>1, ShutdownFields DEF NoOps
  <2> HIDE DEF u
  <2> QED BY <2>2, <2>3
<1>4. state' \in [States -> StateType]
  <2>1. \A d \in States : state'[d] \in StateType
    BY <1>0, <1>3 DEF Fields, TypeInv, StateTypes
  <2> QED BY <1>1, <2>1
<1> QED BY <1>1, <1>2, <1>3, <1>4

LEMMA PerformStep ==
  ASSUME IInv, NEW t \in Threads, perform_io(t)
  PROVE  LET d == performing[t].ptr
             f == state[d].descriptor
             s == PerformAll(PerformStart(t), performing[t].events)
         IN  /\ d \in States /\ s \in PassType
             /\ StateStep(d, f, state[d].registered_events, state[d].shutdown, s.op_queue, s.spec)
             /\ kernel' = IF f = Null THEN kernel ELSE [kernel EXCEPT ![f] = s.file]
             /\ Complete(s.done, "ok")
             /\ performing' = [performing EXCEPT ![t] = [ptr |-> Null, events |-> {}]]
             /\ UNCHANGED <<socket, pool_vars, shutdown, batch, enqueued, op, epoll, ready>>
             /\ Weaker(PerformStart(t).file, s.file)
             /\ state[d].op_queue = NoOps => s.file = PerformStart(t).file
<1> DEFINE d == performing[t].ptr
           f == state[d].descriptor
           s == PerformAll(PerformStart(t), performing[t].events)
<1>0. TypeInv
  BY DEF IInv
<1>1. d \in States /\ PerformStart(t) \in PassType
      /\ \E m : PassInv(PerformStart(t), performing[t].events, Types, s, m)
  BY PerformEffect
<1>2. s \in PassType /\ Weaker(PerformStart(t).file, s.file)
      /\ ((\A y \in Types : PerformStart(t).op_queue[y] = <<>>) => s.file = PerformStart(t).file)
  BY <1>1 DEF PassInv
<1>3. s.op_queue \in [Types -> Seq(ReactorOps)] /\ s.spec \in [Types -> BOOLEAN]
  BY <1>2 DEF PassType
<1>4. /\ state' = [state EXCEPT ![d].op_queue = s.op_queue, ![d].try_speculative = s.spec]
      /\ kernel' = IF f = Null THEN kernel ELSE [kernel EXCEPT ![f] = s.file]
      /\ Complete(s.done, "ok")
      /\ performing' = [performing EXCEPT ![t] = [ptr |-> Null, events |-> {}]]
      /\ UNCHANGED <<socket, pool_vars, shutdown, batch, enqueued, op, epoll, ready>>
  BY DEF perform_io, PerformStart
<1>5. state[d].op_queue = NoOps => s.file = PerformStart(t).file
  BY <1>2 DEF NoOps, PerformStart
<1>6. StateStep(d, f, state[d].registered_events, state[d].shutdown, s.op_queue, s.spec)
  <2> HIDE DEF s
  <2> DEFINE u == [state[d] EXCEPT !.op_queue = s.op_queue, !.try_speculative = s.spec]
  <2>1. state \in [States -> StateType]
    BY <1>0 DEF TypeInv, StateTypes
  <2>2. state' = [state EXCEPT ![d] = u]
    BY <1>1, <1>4, <2>1
  <2>3. state[d] \in StateType
    BY <1>1, <2>1
  <2> HIDE DEF d
  <2>4. Fields(u, f, state[d].registered_events, state[d].shutdown, s.op_queue, s.spec)
    BY <2>3, <1>3, PerformFields
  <2> HIDE DEF u
  <2> QED BY <1>0, <1>1, <2>2, <2>4, OneState
<1> HIDE DEF s
<1> QED BY <1>1, <1>2, <1>4, <1>5, <1>6 DEF s

-----------------------------------------------------------------------------
(* Type correctness.                                                       *)

LEMMA RegisterTypes ==
  ASSUME KernelTypes, NEW f \in Fds, NEW file, NEW d \in States,
         NEW events \in SUBSET {"in", "out", "pri"}, Register(f, file, d, events)
  PROVE  /\ epoll' \in [Fds -> [ptr : States \cup {Null}, events : SUBSET {"in", "out", "pri"}]]
         /\ ready' \subseteq {g \in Fds : epoll'[g].ptr # Null}
<1>1. Null \notin States
  BY EpollReactorAssumption
<1>2. [ptr |-> d, events |-> events]
        \in [ptr : States \cup {Null}, events : SUBSET {"in", "out", "pri"}]
  OBVIOUS
<1>3. /\ epoll' = [epoll EXCEPT ![f] = [ptr |-> d, events |-> events]]
      /\ ready' \subseteq ready \cup {f}
  BY DEF Register
<1>4. epoll' \in [Fds -> [ptr : States \cup {Null}, events : SUBSET {"in", "out", "pri"}]]
  BY <1>2, <1>3 DEF KernelTypes
<1>5. epoll'[f].ptr = d /\ \A g \in Fds : g # f => epoll'[g] = epoll[g]
  BY <1>3 DEF KernelTypes
<1> QED BY <1>1, <1>3, <1>4, <1>5 DEF KernelTypes

LEMMA UnregisterTypes ==
  ASSUME KernelTypes, NEW f \in Fds, Unregister(f)
  PROVE  /\ epoll' \in [Fds -> [ptr : States \cup {Null}, events : SUBSET {"in", "out", "pri"}]]
         /\ ready' \subseteq {g \in Fds : epoll'[g].ptr # Null}
<1>1. epoll' = [epoll EXCEPT ![f] = NoRegistration] /\ ready' = ready \ {f}
  BY DEF Unregister
<1>2. epoll' \in [Fds -> [ptr : States \cup {Null}, events : SUBSET {"in", "out", "pri"}]]
  BY <1>1, NothingThere DEF KernelTypes
<1>3. \A g \in Fds : g # f => epoll'[g] = epoll[g]
  BY <1>1 DEF KernelTypes
<1> QED BY <1>1, <1>2, <1>3 DEF KernelTypes

LEMMA CompleteTypes ==
  ASSUME OpTypes, NEW ops, NEW r \in Results, Complete(ops, r)
  PROVE  result' \in [ReactorOps -> Results]
  BY DEF Complete, OpTypes

LEMMA TypeInit == Init => TypeInv
<1> SUFFICES ASSUME Init PROVE TypeInv
  OBVIOUS
<1>1. SocketTypes
  BY NothingThere DEF Init, SocketTypes, SocketType
<1>2. StateTypes
  BY NothingThere DEF Init, StateTypes
<1>3. OpTypes
  BY DEF Init, OpTypes, Results
<1>4. EventTypes
  BY DEF Init, EventTypes
<1>5. KernelTypes
  BY NothingThere DEF Init, KernelTypes
<1> QED BY <1>1, <1>2, <1>3, <1>4, <1>5 DEF TypeInv

(* A file that differs from another one only in who else has it.           *)
SameData(file, old) ==
  /\ file \in FileType
  /\ file.open = old.open /\ file.avail = old.avail /\ file.space = old.space
  /\ file.pri = old.pri /\ file.end = old.end /\ file.seen = old.seen

LEMMA SameDataQuiet ==
  ASSUME NEW file, NEW old, SameData(file, old)
  PROVE  Mask(file) = Mask(old) /\ \A y : Quiet(y, file) <=> Quiet(y, old)
<1>1. Mask(file) = Mask(old)
  BY DEF SameData, Mask
<1> QED BY <1>1 DEF SameData, Quiet

HandleCloses(f) == CloseDuplicate(f) \/ OtherProcessCloses(f)

(* A handle elsewhere is closed: what it leaves has a socket, or is still   *)
(* open elsewhere.                                                          *)
LEMMA LeaveEffect ==
  ASSUME TypeInv, NEW f \in Fds, HandleCloses(f)
  PROVE  /\ UNCHANGED <<socket, state, pool_vars, shutdown, event_vars, op_vars>>
         /\ \/ /\ UNCHANGED <<epoll, ready>>
               /\ \E file :
                    /\ SameData(file, kernel[f]) /\ kernel' = [kernel EXCEPT ![f] = file]
                    /\ FileStep(f, kernel[f].open, file.dup, file.forked)
                    /\ file.dup => kernel[f].dup
                    /\ file.forked => kernel[f].dup
                    /\ file.dup \/ file.forked \/ \E k \in Sockets : socket[k].fd = f
            \/ /\ FileStep(f, FALSE, FALSE, FALSE) /\ Unregister(f)
               /\ \A k \in Sockets : socket[k].fd # f
<1>0. kernel \in [Fds -> FileType] /\ kernel[f] \in FileType
  BY DEF TypeInv, KernelTypes
<1> DEFINE without == [kernel[f] EXCEPT !.dup = FALSE]
           alone == [kernel[f] EXCEPT !.forked = FALSE]
<1>1. /\ SameData(without, kernel[f]) /\ ~without.dup /\ without.forked = kernel[f].forked
      /\ SameData(alone, kernel[f]) /\ alone.dup = kernel[f].dup /\ ~alone.forked
  BY <1>0 DEF FileType, SameData
<1>2. \/ kernel[f].dup /\ Leave(f, without)
      \/ kernel[f].forked /\ Leave(f, alone)
  BY DEF HandleCloses, CloseDuplicate, OtherProcessCloses
<1> HIDE DEF without, alone
<1>3. PICK file : /\ SameData(file, kernel[f]) /\ Leave(f, file)
                  /\ file.dup => kernel[f].dup
                  /\ file.forked => kernel[f].dup
  BY <1>1, <1>2
<1>4. file \in FileType /\ file.open = kernel[f].open
  BY <1>3 DEF SameData
<1>5. UNCHANGED <<socket, state, pool_vars, shutdown, event_vars, op_vars>>
  BY <1>3 DEF Leave
<1>6. CASE OpenElsewhere(file) \/ \E k \in Sockets : socket[k].fd = f
  <2>1. kernel' = [kernel EXCEPT ![f] = file] /\ UNCHANGED <<epoll, ready>>
    BY <1>3, <1>6 DEF Leave
  <2>2. FileStep(f, kernel[f].open, file.dup, file.forked)
    BY <1>0, <1>4, <2>1 DEF FileStep
  <2>3. file.dup \/ file.forked \/ \E k \in Sockets : socket[k].fd = f
    BY <1>6 DEF OpenElsewhere
  <2> QED BY <1>3, <1>5, <2>1, <2>2, <2>3
<1>7. CASE ~(OpenElsewhere(file) \/ \E k \in Sockets : socket[k].fd = f)
  <2>1. kernel' = [kernel EXCEPT ![f] = NoFile] /\ Unregister(f)
    BY <1>3, <1>7 DEF Leave
  <2>2. FileStep(f, FALSE, FALSE, FALSE)
    BY <1>0, <2>1, NothingThere DEF FileStep
  <2> QED BY <1>5, <1>7, <2>1, <2>2
<1> QED BY <1>6, <1>7

Forks == \E fork_ev \in {"fork_parent", "fork_child"} : notify_fork(fork_ev)

(* The child's epoll set, made from the registered descriptors.             *)
Owner(f) == CHOOSE d \in live : state[d].descriptor = f
NewEpoll ==
  LET registered == {state[d].descriptor : d \in live} IN
  /\ \A d \in live : /\ state[d].registered_events # {}
                     /\ \E k \in Sockets : Open(k) /\ socket[k].data = d
  /\ epoll' = [f \in Fds |->
       IF f \in registered
       THEN [ptr |-> Owner(f), events |-> state[Owner(f)].registered_events]
       ELSE NoRegistration]
  /\ ready' = {f \in registered : Mask(kernel[f]) \cap (epoll'[f].events \cup {"hup"}) # {}}

LEMMA ForkEffect ==
  ASSUME TypeInv, Forks
  PROVE  /\ ~shutdown /\ \A k \in Sockets : ~socket[k].closing
         /\ UNCHANGED <<socket, state, pool_vars, shutdown, event_vars, op_vars>>
         /\ kernel' \in [Fds -> FileType]
         /\ \A f \in Fds : /\ SameData(kernel'[f], kernel[f])
                           /\ kernel'[f].dup = kernel[f].dup
                           /\ kernel'[f].forked = kernel[f].open
         /\ UNCHANGED <<epoll, ready>> \/ NewEpoll
<1>1. Fork
  BY DEF Forks, notify_fork
<1>2. UNCHANGED <<epoll, ready>> \/ NewEpoll
  BY DEF Forks, notify_fork, NewEpoll, Owner
<1>3. /\ ~shutdown /\ \A k \in Sockets : ~socket[k].closing
      /\ UNCHANGED <<socket, state, pool_vars, shutdown, event_vars, op_vars>>
      /\ kernel' = [f \in Fds |-> [kernel[f] EXCEPT !.forked = kernel[f].open]]
  BY <1>1 DEF Fork
<1>4. ASSUME NEW f \in Fds
      PROVE  /\ SameData(kernel'[f], kernel[f])
             /\ kernel'[f].dup = kernel[f].dup /\ kernel'[f].forked = kernel[f].open
  <2>1. kernel[f] \in FileType /\ kernel[f].open \in BOOLEAN
    BY DEF TypeInv, KernelTypes, FileType
  <2>2. kernel'[f] = [kernel[f] EXCEPT !.forked = kernel[f].open]
    BY <1>3
  <2> QED BY <2>1, <2>2 DEF FileType, SameData
<1>5. kernel' \in [Fds -> FileType]
  BY <1>3, <1>4 DEF SameData
<1> QED BY <1>2, <1>3, <1>4, <1>5

LEMMA TypeStep ==
  ASSUME IInv, [Next]_vars
  PROVE  TypeInv'
<1>0. SocketTypes /\ StateTypes /\ OpTypes /\ EventTypes /\ KernelTypes /\ TypeInv
  BY DEF IInv, TypeInv
<1>u. "queued" \in Results /\ "ok" \in Results /\ "error" \in Results /\ "aborted" \in Results
      /\ "posted" \in Results /\ "destroyed" \in Results
  BY DEF Results
<1>s. \A k, fd, data, dup, closing : SocketStep(k, fd, data, dup, closing) /\ shutdown' = shutdown
        => SocketTypes'
  BY <1>0 DEF SocketStep, SocketTypes, SocketType
<1>d. \A d, descriptor, events, down, queue, spec :
        StateStep(d, descriptor, events, down, queue, spec) /\ UNCHANGED pool_vars => StateTypes'
  BY <1>0 DEF StateStep, StateTypes, pool_vars
<1>e. UNCHANGED event_vars => EventTypes'
  BY <1>0 DEF event_vars, EventTypes
<1>o. UNCHANGED op_vars => OpTypes'
  BY <1>0 DEF op_vars, OpTypes
<1>k. UNCHANGED kernel_vars => KernelTypes'
  BY <1>0 DEF kernel_vars, KernelTypes
<1>x. UNCHANGED <<socket, shutdown>> => SocketTypes'
  BY <1>0 DEF SocketTypes
<1>y. UNCHANGED <<state, pool_vars>> => StateTypes'
  BY <1>0 DEF StateTypes, pool_vars
<1>1. ASSUME NEW k \in Sockets, NEW f \in Fds, NEW d \in States, NEW assigned \in BOOLEAN,
             NEW dup \in BOOLEAN, NEW events \in {{}, {"in", "pri"}}, dup => assigned,
             register_descriptor(k, f, d, assigned, dup, events)
      PROVE  TypeInv'
  <2>1. /\ ~shutdown /\ SocketStep(k, f, d, assigned, FALSE) /\ FileStep(f, TRUE, dup, FALSE)
        /\ IF events = {} THEN UNCHANGED <<epoll, ready>> ELSE Register(f, NoFile, d, events)
        /\ UNCHANGED <<shutdown, event_vars, op_vars>>
    BY <1>1, RegisterEffect
  <2>2. /\ StateStep(d, f, events, FALSE, NoOps, [y \in Types |-> TRUE])
        /\ live' = live \cup {d} /\ free' \in Seq(States)
    <3>1. RegisterDone(d, f, events)
      BY <1>1, RegisteredState
    <3> QED BY <3>1 DEF RegisterDone
  <2>3. KernelTypes'
    <3>1. CASE events = {}
      BY <3>1, <2>1, <1>0 DEF KernelTypes, FileStep
    <3>2. CASE events # {}
      <4>1. Register(f, NoFile, d, events) /\ events \in SUBSET {"in", "out", "pri"}
        BY <3>2, <2>1, <1>1
      <4>2. /\ epoll' \in [Fds -> [ptr : States \cup {Null},
                                   events : SUBSET {"in", "out", "pri"}]]
            /\ ready' \subseteq {g \in Fds : epoll'[g].ptr # Null}
        BY <4>1, <1>0, RegisterTypes
      <4> QED BY <4>2, <2>1 DEF KernelTypes, FileStep
    <3> QED BY <3>1, <3>2
  <2>4. StateTypes'
    BY <2>2, <1>0 DEF StateTypes, StateStep
  <2> QED BY <2>1, <2>3, <2>4, <1>s, <1>e, <1>o DEF TypeInv
<1>2. ASSUME NEW k \in Sockets, NEW f \in Fds, NEW d \in States, RegisterFails(k, f, d)
      PROVE  TypeInv'
  <2>1. /\ ~shutdown /\ SocketStep(k, Null, d, socket[k].dup, socket[k].closing)
        /\ UNCHANGED <<shutdown, event_vars, op_vars, kernel_vars>>
    BY <1>2, FailEffect
  <2>2. /\ StateStep(d, f, {"in", "pri"}, FALSE, NoOps, [y \in Types |-> TRUE])
        /\ live' = live \cup {d} /\ free' \in Seq(States)
    BY <1>2, FailedState DEF RegisterDone
  <2>4. StateTypes'
    BY <2>2, <1>0 DEF StateTypes, StateStep
  <2> QED BY <2>1, <2>4, <1>s, <1>e, <1>o, <1>k DEF TypeInv
<1>3. ASSUME NEW k \in Sockets, NEW o \in ReactorOps, NEW c \in Kinds, start_op(k, o, c)
      PROVE  TypeInv'
  <2> DEFINE y == KindType[c]
  <2>1. /\ Open(k) /\ y \in Types
        /\ op' = [op EXCEPT ![o] = [kind |-> c, socket |-> socket[k].fd]]
        /\ UNCHANGED <<socket, pool_vars, shutdown, event_vars>>
        /\ Posted(k, o) \/ Finished(k, o, y) \/ Pushed(k, o, y)
    BY <1>3, StartEffect
  <2>2. socket[k].fd \in Fds /\ socket[k].data \in States /\ kernel[socket[k].fd] \in FileType
    BY <2>1, OpenSocket
  <2>3. op' \in [ReactorOps -> [kind : Kinds \cup {Null}, socket : Fds \cup {Null}]]
    BY <2>1, <2>2, <1>0 DEF OpTypes
  <2>4. CASE Posted(k, o)
    <3>1. OpTypes'
      BY <2>3, <2>4, <1>0, <1>u DEF Posted, OpTypes
    <3> QED BY <2>1, <2>4, <3>1, <1>x, <1>y, <1>e, <1>k DEF Posted, TypeInv
  <2>5. CASE Finished(k, o, y)
    <3> HIDE DEF y
    <3>1. PICK file \in FileType, spec \in BOOLEAN, r \in {"ok", "error"} :
            /\ result' = [result EXCEPT ![o] = r]
            /\ kernel' = [kernel EXCEPT ![socket[k].fd] = file]
            /\ UNCHANGED <<epoll, ready>>
            /\ StateStep(socket[k].data, state[socket[k].data].descriptor,
                         state[socket[k].data].registered_events,
                         state[socket[k].data].shutdown, state[socket[k].data].op_queue,
                         [state[socket[k].data].try_speculative EXCEPT ![y] = spec])
      BY <2>5 DEF Finished
    <3>2. OpTypes'
      BY <2>3, <3>1, <1>0, <1>u DEF OpTypes
    <3>3. KernelTypes'
      BY <2>2, <3>1, <1>0 DEF KernelTypes
    <3> QED BY <2>1, <3>1, <3>2, <3>3, <1>x, <1>d, <1>e DEF TypeInv
  <2>6. CASE Pushed(k, o, y)
    <3> HIDE DEF y
    <3>1. PICK events \in SUBSET {"in", "out", "pri"} :
            /\ result' = [result EXCEPT ![o] = "queued"] /\ kernel' = kernel
            /\ StateStep(socket[k].data, state[socket[k].data].descriptor, events,
                         state[socket[k].data].shutdown,
                         [state[socket[k].data].op_queue EXCEPT ![y] = Append(@, o)],
                         state[socket[k].data].try_speculative)
            /\ \/ Register(socket[k].fd, kernel[socket[k].fd], socket[k].data, events)
               \/ UNCHANGED <<epoll, ready>>
      BY <2>6 DEF Pushed
    <3>2. OpTypes'
      BY <2>3, <3>1, <1>0, <1>u DEF OpTypes
    <3>3. /\ epoll' \in [Fds -> [ptr : States \cup {Null},
                                 events : SUBSET {"in", "out", "pri"}]]
          /\ ready' \subseteq {g \in Fds : epoll'[g].ptr # Null}
      <4>1. CASE Register(socket[k].fd, kernel[socket[k].fd], socket[k].data, events)
        BY <4>1, <2>2, <1>0, RegisterTypes
      <4>2. CASE UNCHANGED <<epoll, ready>>
        BY <4>2, <1>0 DEF KernelTypes
      <4> QED BY <3>1, <4>1, <4>2
    <3>4. KernelTypes'
      BY <3>1, <3>3, <1>0 DEF KernelTypes
    <3> QED BY <2>1, <3>1, <3>2, <3>4, <1>x, <1>d, <1>e DEF TypeInv
  <2> QED BY <2>1, <2>4, <2>5, <2>6

<1>4. ASSUME NEW k \in Sockets, cancel_ops(k)
      PROVE  TypeInv'
  <2>1. /\ Open(k) /\ Complete(QueuedOps(socket[k].data), "aborted")
        /\ state' = [state EXCEPT ![socket[k].data].op_queue = [y \in Types |-> <<>>]]
        /\ UNCHANGED <<socket, pool_vars, shutdown, event_vars, op, kernel_vars>>
    BY <1>4 DEF cancel_ops
  <2>2. result' \in [ReactorOps -> Results]
    BY <2>1, <1>0, <1>u, CompleteTypes
  <2>3. OpTypes'
    BY <2>1, <2>2, <1>0 DEF OpTypes
  <2>4. StateTypes'
    <3>1. socket[k].data \in States /\ state[socket[k].data] \in StateType
      BY <2>1, <1>0, OpenSocket DEF StateTypes
    <3>2. [y \in Types |-> <<>>] \in [Types -> Seq(ReactorOps)]
      OBVIOUS
    <3>3. [state[socket[k].data] EXCEPT !.op_queue = [y \in Types |-> <<>>]] \in StateType
      BY <3>1, <3>2, SetFields DEF Fields
    <3> QED BY <2>1, <3>1, <3>3, <1>0 DEF StateTypes, pool_vars
  <2> QED BY <2>1, <2>3, <2>4, <1>x, <1>e, <1>k DEF TypeInv
<1>5. ASSUME NEW k \in Sockets, NEW how \in {"close", "release"},
             deregister_descriptor(k, how)
      PROVE  TypeInv'
  <2> DEFINE d == socket[k].data
             f == socket[k].fd
  <2>1. /\ Open(k) /\ UNCHANGED <<pool_vars, shutdown, event_vars, op>>
        /\ FileStep(f, kernel[f].open, kernel[f].dup \/ how = "release", kernel[f].forked)
    BY <1>5, DeregisterEffect
  <2>2. f \in Fds /\ d \in States
    BY <2>1, OpenSocket
  <2>3. CASE ~shutdown
    <3>1. /\ SocketStep(k, f, d, socket[k].dup, TRUE)
          /\ StateStep(d, Null, state[d].registered_events, TRUE, NoOps,
                       state[d].try_speculative)
          /\ Complete(QueuedOps(d), "aborted")
          /\ Unregister(f) \/ UNCHANGED <<epoll, ready>>
      BY <1>5, <2>3, DeregisterEffect
    <3>2. result' \in [ReactorOps -> Results]
      BY <3>1, <1>0, <1>u, CompleteTypes
    <3>3. OpTypes'
      BY <2>1, <3>2, <1>0 DEF OpTypes
    <3>4. /\ epoll' \in [Fds -> [ptr : States \cup {Null},
                                 events : SUBSET {"in", "out", "pri"}]]
          /\ ready' \subseteq {g \in Fds : epoll'[g].ptr # Null}
      BY <3>1, <2>2, <1>0, UnregisterTypes DEF KernelTypes
    <3>5. KernelTypes'
      BY <2>1, <3>4 DEF FileStep, KernelTypes
    <3> QED BY <2>1, <3>1, <3>3, <3>5, <1>s, <1>d, <1>e DEF TypeInv
  <2>4. CASE shutdown
    <3>1. SocketStep(k, f, Null, socket[k].dup, TRUE) /\ UNCHANGED <<state, result, epoll, ready>>
      BY <1>5, <2>4, DeregisterEffect
    <3>2. KernelTypes'
      BY <2>1, <3>1, <1>0 DEF FileStep, KernelTypes
    <3> QED BY <2>1, <3>1, <3>2, <1>s, <1>y, <1>e, <1>o DEF TypeInv, op_vars
  <2> QED BY <2>3, <2>4, <1>0 DEF SocketTypes
<1>6. ASSUME NEW k \in Sockets, FinishClose(k)
      PROVE  TypeInv'
  <2>1. /\ socket[k].fd \in Fds
        /\ SocketStep(k, Null, Null, FALSE, FALSE)
        /\ UNCHANGED <<state, shutdown, event_vars, op_vars>>
        /\ \/ UNCHANGED kernel_vars
           \/ kernel' = [kernel EXCEPT ![socket[k].fd] = NoFile] /\ Unregister(socket[k].fd)
        /\ free' \in Seq(States) /\ live' \subseteq live
    BY <1>6, FinishEffect
  <2>2. KernelTypes'
    <3>1. CASE kernel' = [kernel EXCEPT ![socket[k].fd] = NoFile] /\ Unregister(socket[k].fd)
      BY <3>1, <2>1, <1>0, NothingThere, UnregisterTypes DEF KernelTypes
    <3> QED BY <2>1, <3>1, <1>k
  <2>3. StateTypes'
    BY <2>1, <1>0 DEF StateTypes
  <2> QED BY <2>1, <2>2, <2>3, <1>s, <1>e, <1>o DEF TypeInv
<1>7. ASSUME NEW k \in Sockets, NEW other \in Sockets \ {k}, move_descriptor(k, other)
      PROVE  TypeInv'
  <2>1. /\ socket' \in [Sockets -> SocketType]
        /\ UNCHANGED <<state, pool_vars, shutdown, event_vars, op_vars, kernel_vars>>
    BY <1>7, MoveEffect
  <2>2. SocketTypes'
    BY <2>1, <1>0 DEF SocketTypes, SocketType
  <2> QED BY <2>1, <2>2, <1>y, <1>e, <1>o, <1>k DEF TypeInv
<1>8. ASSUME NEW f \in Fds,
             Arrive(f) \/ Drain(f) \/ Urgent(f) \/ PeerCloses(f) \/ PeerResets(f)
      PROVE  TypeInv'
  <2>1. PICK file \in FileType, event \in AllEvents : KernelEvent(f, file, event)
    BY <1>0, <1>8, KernelEffect
  <2>2. KernelTypes'
    BY <2>1, <1>0 DEF KernelEvent, KernelTypes
  <2> QED BY <2>1, <2>2, <1>x, <1>y, <1>e, <1>o DEF KernelEvent, TypeInv
<1>9. ASSUME NEW f \in Fds, HandleCloses(f)
      PROVE  TypeInv'
  <2>1. /\ UNCHANGED <<socket, state, pool_vars, shutdown, event_vars, op_vars>>
        /\ kernel' \in [Fds -> FileType]
        /\ UNCHANGED <<epoll, ready>> \/ Unregister(f)
    BY <1>0, <1>9, LeaveEffect DEF FileStep
  <2>2. KernelTypes'
    BY <2>1, <1>0, UnregisterTypes DEF KernelTypes
  <2> QED BY <2>1, <2>2, <1>x, <1>y, <1>e, <1>o DEF TypeInv
<1>10. ASSUME EpollWait
       PROVE  TypeInv'
  <2>1. /\ batch' = {[ptr |-> epoll[f].ptr, events |-> Reported(f)]
                       : f \in {g \in ready : Reported(g) # {}}}
        /\ ready' = {}
        /\ UNCHANGED <<socket, state, pool_vars, shutdown, enqueued, performing, op_vars,
                       kernel, epoll>>
    BY <1>10 DEF EpollWait
  <2>2. ASSUME NEW f \in ready
        PROVE  [ptr |-> epoll[f].ptr, events |-> Reported(f)] \in EventType
    <3>1. f \in Fds /\ epoll[f].ptr \in States /\ kernel[f] \in FileType
      BY <1>0 DEF KernelTypes
    <3>2. Reported(f) \in SUBSET AllEvents
      BY <3>1, MaskIs DEF Reported
    <3> QED BY <3>1, <3>2 DEF EventType
  <2>3. EventTypes'
    BY <2>1, <2>2, <1>0 DEF EventTypes
  <2>4. KernelTypes'
    BY <2>1, <1>0 DEF KernelTypes
  <2> QED BY <2>1, <2>3, <2>4, <1>x, <1>y, <1>o DEF TypeInv
<1>11. ASSUME Dispatch
       PROVE  TypeInv'
  <2>1. /\ batch' = {}
        /\ enqueued' = {[e EXCEPT !.events = UNION {b.events : b \in {b \in batch :
                                                                        b.ptr = e.ptr}}]
                          : e \in batch}
        /\ UNCHANGED <<socket, state, pool_vars, shutdown, performing, op_vars, kernel_vars>>
    BY <1>11 DEF Dispatch
  <2>2. ASSUME NEW e \in batch
        PROVE  [e EXCEPT !.events = UNION {b.events : b \in {b \in batch : b.ptr = e.ptr}}]
                 \in EventType
    <3>1. e \in EventType /\ \A b \in batch : b.events \subseteq AllEvents
      BY <1>0 DEF EventTypes, EventType
    <3>2. UNION {b.events : b \in {b \in batch : b.ptr = e.ptr}} \in SUBSET AllEvents
      BY <3>1
    <3> QED BY <3>1, <3>2 DEF EventType
  <2>3. EventTypes'
    BY <2>1, <2>2, <1>0 DEF EventTypes
  <2> QED BY <2>1, <2>3, <1>x, <1>y, <1>o, <1>k DEF TypeInv
<1>12. ASSUME NEW t \in Threads, NEW e \in enqueued, PopDescriptor(t, e)
       PROVE  TypeInv'
  <2>1. /\ enqueued' = enqueued \ {e} /\ performing' = [performing EXCEPT ![t] = e]
        /\ UNCHANGED <<socket, state, pool_vars, shutdown, batch, op_vars, kernel_vars>>
    BY <1>12 DEF PopDescriptor
  <2>2. e \in [ptr : States \cup {Null}, events : SUBSET AllEvents]
    BY <1>0 DEF EventTypes, EventType
  <2>3. EventTypes'
    BY <2>1, <2>2, <1>0 DEF EventTypes
  <2> QED BY <2>1, <2>3, <1>x, <1>y, <1>o, <1>k DEF TypeInv
<1>13. ASSUME NEW t \in Threads, perform_io(t)
       PROVE  TypeInv'
  <2> DEFINE d == performing[t].ptr
             f == state[d].descriptor
             s == PerformAll(PerformStart(t), performing[t].events)
  <2>1. /\ d \in States /\ s \in PassType
        /\ StateStep(d, f, state[d].registered_events, state[d].shutdown, s.op_queue, s.spec)
        /\ kernel' = IF f = Null THEN kernel ELSE [kernel EXCEPT ![f] = s.file]
        /\ Complete(s.done, "ok")
        /\ performing' = [performing EXCEPT ![t] = [ptr |-> Null, events |-> {}]]
        /\ UNCHANGED <<socket, pool_vars, shutdown, batch, enqueued, op, epoll, ready>>
    BY <1>13, PerformStep
  <2>2. f \in Fds \cup {Null}
    BY <2>1, <1>0, FieldsOfState
  <2> HIDE DEF d, f, s
  <2>3. s.file \in FileType
    BY <2>1 DEF PassType
  <2>4. KernelTypes'
    BY <2>1, <2>2, <2>3, <1>0 DEF KernelTypes
  <2>5. result' \in [ReactorOps -> Results]
    BY <2>1, <1>0, <1>u, CompleteTypes
  <2>6. OpTypes'
    BY <2>1, <2>5, <1>0 DEF OpTypes
  <2>7. EventTypes'
    <3>1. [ptr |-> Null, events |-> {}] \in [ptr : States \cup {Null}, events : SUBSET AllEvents]
      OBVIOUS
    <3> QED BY <2>1, <3>1, <1>0 DEF EventTypes
  <2> QED BY <2>1, <2>4, <2>6, <2>7, <1>x, <1>d DEF TypeInv
<1>14. ASSUME Shutdown
       PROVE  TypeInv'
  <2>1. /\ shutdown' = TRUE /\ enqueued' = {} /\ state' \in [States -> StateType]
        /\ live' = {} /\ free' \in Seq(States)
        /\ Complete(UNION {QueuedOps(d) : d \in live}, "destroyed")
        /\ UNCHANGED <<socket, batch, performing, op, kernel_vars>>
    BY <1>14, ShutdownEffect
  <2>2. result' \in [ReactorOps -> Results]
    BY <2>1, <1>0, <1>u, CompleteTypes
  <2>3. OpTypes'
    BY <2>1, <2>2, <1>0 DEF OpTypes
  <2>4. SocketTypes' /\ StateTypes' /\ EventTypes'
    BY <2>1, <1>0 DEF SocketTypes, StateTypes, EventTypes
  <2> QED BY <2>1, <2>3, <2>4, <1>k DEF TypeInv
<1>15. ASSUME Forks
       PROVE  TypeInv'
  <2> DEFINE registered == {state[d].descriptor : d \in live}
  <2>1. /\ UNCHANGED <<socket, state, pool_vars, shutdown, event_vars, op_vars>>
        /\ kernel' \in [Fds -> FileType]
        /\ UNCHANGED <<epoll, ready>> \/ NewEpoll
    BY <1>0, <1>15, ForkEffect
  <2>2. ASSUME NewEpoll PROVE KernelTypes'
    <3>1. \A f \in registered : f \in Fds
      <4>1. ASSUME NEW d \in live PROVE state[d].descriptor \in Fds
        <5>1. PICK k \in Sockets : Open(k) /\ socket[k].data = d
          BY <2>2 DEF NewEpoll
        <5> QED BY <1>0, <1>15, <5>1, OpenSocket, ForkEffect
      <4> QED BY <4>1
    <3>2. \A f \in registered : Owner(f) \in live
      BY DEF Owner
    <3>3. \A d \in live : d \in States /\ state[d].registered_events \in SUBSET {"in", "out", "pri"}
      BY <1>0, FieldsOfState DEF StateTypes
    <3>4. /\ epoll' = [f \in Fds |->
               IF f \in registered
               THEN [ptr |-> Owner(f), events |-> state[Owner(f)].registered_events]
               ELSE NoRegistration]
          /\ ready' \subseteq registered
      BY <2>2 DEF NewEpoll
    <3> HIDE DEF registered
    <3>5. ASSUME NEW f \in Fds
          PROVE  /\ epoll'[f] \in [ptr : States \cup {Null},
                                   events : SUBSET {"in", "out", "pri"}]
                 /\ f \in registered => epoll'[f].ptr # Null
      <4>1. CASE f \in registered
        <5>1. epoll'[f] = [ptr |-> Owner(f), events |-> state[Owner(f)].registered_events]
          BY <3>4, <4>1
        <5>2. Owner(f) # Null
          BY <3>2, <3>3, <4>1, EpollReactorAssumption
        <5> QED BY <3>2, <3>3, <4>1, <5>1, <5>2
      <4>2. CASE f \notin registered
        BY <3>4, <4>2, NothingThere
      <4> QED BY <4>1, <4>2
    <3>6. epoll' \in [Fds -> [ptr : States \cup {Null}, events : SUBSET {"in", "out", "pri"}]]
      BY <3>4, <3>5
    <3>7. ready' \subseteq {f \in Fds : epoll'[f].ptr # Null}
      BY <3>1, <3>4, <3>5
    <3> QED BY <2>1, <3>6, <3>7 DEF KernelTypes
  <2>3. ASSUME epoll' = epoll, ready' = ready PROVE KernelTypes'
    BY <2>1, <2>3, <1>0 DEF KernelTypes
  <2>4. KernelTypes'
    BY <2>1, <2>2, <2>3
  <2> QED BY <2>1, <2>4, <1>x, <1>y, <1>e, <1>o DEF TypeInv
<1>16. ASSUME UNCHANGED vars
       PROVE  TypeInv'
  BY <1>16, <1>x, <1>y, <1>e, <1>o, <1>k DEF vars, TypeInv
<1>17. ASSUME NEW k \in Sockets, SocketCall(k) PROVE TypeInv'
  <2>1. ASSUME NEW f \in Fds, NEW d \in States,
               \/ register_descriptor(k, f, d, FALSE, FALSE, {"in", "pri"})
               \/ "assign" \in Calls /\ \E dup \in BOOLEAN, events \in {{}, {"in", "pri"}} :
                    register_descriptor(k, f, d, TRUE, dup, events)
               \/ "fail" \in Calls /\ RegisterFails(k, f, d)
        PROVE  TypeInv'
    <3>1. TRUE \in BOOLEAN /\ FALSE \in BOOLEAN /\ {"in", "pri"} \in {{}, {"in", "pri"}}
          /\ (FALSE => FALSE)
      OBVIOUS
    <3>2. \A dup \in BOOLEAN : dup => TRUE
      OBVIOUS
    <3> QED BY <2>1, <3>1, <3>2, <1>1, <1>2, Zenon
  <2> QED BY <1>17, <2>1, <1>3, <1>4, <1>5, <1>6, <1>7, Zenon DEF SocketCall
<1>18. ASSUME NEW f \in Fds, KernelStep(f) PROVE TypeInv'
  BY <1>18, <1>8, <1>9, Zenon DEF KernelStep, HandleCloses
<1>19. ASSUME ReactorStep PROVE TypeInv'
  BY <1>19, <1>10, <1>11, <1>12, <1>13, Zenon DEF ReactorStep
<1> QED BY <1>14, <1>15, <1>16, <1>17, <1>18, <1>19, Zenon DEF Next, Forks

-----------------------------------------------------------------------------
(* The sockets, their states and the pool.                                 *)

(* A step that gives nobody another file or state. *)
SameShape ==
  /\ UNCHANGED <<socket, pool_vars, shutdown>>
  /\ \A d \in States : /\ state'[d].descriptor = state[d].descriptor
                       /\ state'[d].shutdown = state[d].shutdown
  /\ \A f \in Fds : /\ kernel'[f].open = kernel[f].open /\ kernel'[f].dup = kernel[f].dup
                    /\ kernel[f].open /\ kernel[f].forked => kernel'[f].forked

LEMMA CancelEffect ==
  ASSUME IInv, NEW k \in Sockets, cancel_ops(k)
  PROVE  LET d == socket[k].data IN
         /\ Open(k) /\ Complete(QueuedOps(d), "aborted")
         /\ StateStep(d, state[d].descriptor, state[d].registered_events, state[d].shutdown,
                      NoOps, state[d].try_speculative)
         /\ UNCHANGED <<socket, pool_vars, shutdown, event_vars, op, kernel_vars>>
<1> DEFINE d == socket[k].data
<1>0. TypeInv
  BY DEF IInv
<1>1. /\ Open(k) /\ Complete(QueuedOps(d), "aborted")
      /\ state' = [state EXCEPT ![d].op_queue = [y \in Types |-> <<>>]]
      /\ UNCHANGED <<socket, pool_vars, shutdown, event_vars, op, kernel_vars>>
  BY DEF cancel_ops
<1>2. d \in States /\ state[d] \in StateType
  BY <1>0, <1>1, OpenSocket DEF TypeInv, StateTypes
<1> DEFINE u == [state[d] EXCEPT !.op_queue = NoOps]
<1>3. NoOps \in [Types -> Seq(ReactorOps)]
  BY DEF NoOps
<1>4. Fields(u, state[d].descriptor, state[d].registered_events, state[d].shutdown,
             NoOps, state[d].try_speculative)
  BY <1>2, <1>3, SetFields
<1>5. state' = [state EXCEPT ![d] = u]
  BY <1>1 DEF NoOps
<1> HIDE DEF u
<1>6. StateStep(d, state[d].descriptor, state[d].registered_events, state[d].shutdown,
                NoOps, state[d].try_speculative)
  BY <1>0, <1>2, <1>4, <1>5, OneState
<1> QED BY <1>1, <1>6

LEMMA SameShapeStep ==
  ASSUME IInv,
         \/ \E k \in Sockets, o \in ReactorOps, c \in Kinds : start_op(k, o, c)
         \/ \E k \in Sockets : cancel_ops(k)
         \/ \E f \in Fds : Arrive(f) \/ Drain(f) \/ Urgent(f) \/ PeerCloses(f) \/ PeerResets(f)
         \/ EpollWait \/ Dispatch \/ Forks \/ UNCHANGED vars
         \/ \E t \in Threads : perform_io(t) \/ \E e \in enqueued : PopDescriptor(t, e)
  PROVE  SameShape
<1>0. TypeInv /\ kernel \in [Fds -> FileType]
  BY DEF IInv, TypeInv, KernelTypes
<1>1. ASSUME NEW k \in Sockets, NEW o \in ReactorOps, NEW c \in Kinds, start_op(k, o, c)
      PROVE  SameShape
  <2> DEFINE y == KindType[c]
  <2>1. /\ Open(k) /\ UNCHANGED <<socket, pool_vars, shutdown, event_vars>>
        /\ Posted(k, o) \/ Finished(k, o, y) \/ Pushed(k, o, y)
    BY <1>1, StartEffect
  <2>2. socket[k].fd \in Fds /\ kernel[socket[k].fd] \in FileType
    BY <2>1, OpenSocket
  <2> HIDE DEF y
  <2>3. CASE Posted(k, o)
    BY <2>1, <2>3 DEF Posted, SameShape, kernel_vars
  <2>4. CASE Finished(k, o, y)
    <3>1. PICK file \in FileType, spec \in BOOLEAN :
            /\ kernel' = [kernel EXCEPT ![socket[k].fd] = file]
            /\ StateStep(socket[k].data, state[socket[k].data].descriptor,
                         state[socket[k].data].registered_events,
                         state[socket[k].data].shutdown, state[socket[k].data].op_queue,
                         [state[socket[k].data].try_speculative EXCEPT ![y] = spec])
            /\ Weaker(kernel[socket[k].fd], file)
      BY <2>4 DEF Finished
    <3>2. \A f \in Fds : /\ kernel'[f].open = kernel[f].open /\ kernel'[f].dup = kernel[f].dup
                          /\ kernel'[f].forked = kernel[f].forked
      BY <2>2, <3>1, <1>0 DEF Weaker
    <3> QED BY <2>1, <3>1, <3>2 DEF SameShape, StateStep, Fields
  <2>5. CASE Pushed(k, o, y)
    <3>1. PICK events \in SUBSET {"in", "out", "pri"} :
            /\ kernel' = kernel
            /\ StateStep(socket[k].data, state[socket[k].data].descriptor, events,
                         state[socket[k].data].shutdown,
                         [state[socket[k].data].op_queue EXCEPT ![y] = Append(@, o)],
                         state[socket[k].data].try_speculative)
      BY <2>5 DEF Pushed
    <3> QED BY <2>1, <3>1 DEF SameShape, StateStep, Fields
  <2> QED BY <2>1, <2>3, <2>4, <2>5
<1>2. ASSUME NEW k \in Sockets, cancel_ops(k)
      PROVE  SameShape
  BY <1>2, CancelEffect DEF SameShape, StateStep, Fields, kernel_vars
<1>3. ASSUME NEW f \in Fds,
             Arrive(f) \/ Drain(f) \/ Urgent(f) \/ PeerCloses(f) \/ PeerResets(f)
      PROVE  SameShape
  <2>1. PICK file \in FileType, event \in AllEvents :
          /\ KernelEvent(f, file, event)
          /\ file.open = kernel[f].open /\ file.dup = kernel[f].dup
          /\ file.forked = kernel[f].forked
    BY <1>0, <1>3, KernelEffect
  <2>2. /\ kernel' = [kernel EXCEPT ![f] = file]
        /\ UNCHANGED <<socket, state, pool_vars, shutdown>>
    BY <2>1 DEF KernelEvent
  <2> QED BY <2>1, <2>2, <1>0 DEF SameShape
<1>4. EpollWait => SameShape
  BY DEF EpollWait, SameShape
<1>5. Dispatch => SameShape
  BY DEF Dispatch, SameShape, kernel_vars
<1>6. Forks => SameShape
  BY <1>0, ForkEffect DEF SameShape, SameData
<1>7. UNCHANGED vars => SameShape
  BY DEF vars, SameShape, kernel_vars
<1>8. ASSUME NEW t \in Threads, NEW e \in enqueued, PopDescriptor(t, e)
      PROVE  SameShape
  BY <1>8 DEF PopDescriptor, SameShape, kernel_vars
<1>9. ASSUME NEW t \in Threads, perform_io(t)
      PROVE  SameShape
  <2> DEFINE d == performing[t].ptr
             f == state[d].descriptor
             s == PerformAll(PerformStart(t), performing[t].events)
  <2>1. /\ d \in States
        /\ StateStep(d, f, state[d].registered_events, state[d].shutdown, s.op_queue, s.spec)
        /\ kernel' = IF f = Null THEN kernel ELSE [kernel EXCEPT ![f] = s.file]
        /\ UNCHANGED <<socket, pool_vars, shutdown>>
        /\ Weaker(PerformStart(t).file, s.file)
    BY <1>9, PerformStep
  <2>2. f # Null => PerformStart(t).file = kernel[f]
    BY DEF PerformStart
  <2> HIDE DEF s
  <2>3. \A g \in Fds : /\ kernel'[g].open = kernel[g].open /\ kernel'[g].dup = kernel[g].dup
                        /\ kernel'[g].forked = kernel[g].forked
    BY <2>1, <2>2, <1>0 DEF Weaker
  <2>4. \A e \in States : /\ state'[e].descriptor = state[e].descriptor
                          /\ state'[e].shutdown = state[e].shutdown
    BY <2>1 DEF StateStep, Fields
  <2> QED BY <2>1, <2>3, <2>4 DEF SameShape
<1> QED BY <1>1, <1>2, <1>3, <1>4, <1>5, <1>6, <1>7, <1>8, <1>9

LEMMA SameShapeKeeps ==
  ASSUME IInv, SameShape
  PROVE  SocketShape' /\ Distinct' /\ PoolInv'
<1>1. /\ socket \in [Sockets -> SocketType] /\ SocketShape /\ Distinct /\ PoolInv
  BY DEF IInv, TypeInv, SocketTypes, SocketType
<1>2. UNCHANGED <<socket, live, free, shutdown>>
  BY DEF SameShape, pool_vars
<1>3. \A k \in Sockets : socket[k].fd \in Fds \cup {Null} /\ socket[k].data \in States \cup {Null}
  BY <1>1 DEF SocketType
<1>4. SocketShape'
  BY <1>1, <1>2, <1>3 DEF SocketShape, SameShape, Open
<1>5. Distinct' /\ PoolInv'
  BY <1>1, <1>2 DEF Distinct, PoolInv
<1> QED BY <1>4, <1>5

LEMMA ShapeStep ==
  ASSUME IInv, [Next]_vars
  PROVE  SocketShape' /\ Distinct' /\ PoolInv'
<1> DEFINE Goal == SocketShape' /\ Distinct' /\ PoolInv'
<1>0. /\ socket \in [Sockets -> SocketType] /\ SocketShape /\ Distinct /\ PoolInv
      /\ \A k \in Sockets : socket[k].fd \in Fds \cup {Null}
                            /\ socket[k].data \in States \cup {Null}
      /\ Null \notin Fds /\ Null \notin States
  <2>1. socket \in [Sockets -> SocketType] /\ SocketShape /\ Distinct /\ PoolInv
    BY DEF IInv, TypeInv, SocketTypes, SocketType
  <2> QED BY <2>1, EpollReactorAssumption DEF SocketType
<1>1. ASSUME NEW k \in Sockets, NEW f \in Fds, NEW d \in States, NEW assigned \in BOOLEAN,
             NEW dup \in BOOLEAN, NEW events \in {{}, {"in", "pri"}}, dup => assigned,
             register_descriptor(k, f, d, assigned, dup, events)
      PROVE  Goal
  <2>1. /\ ~shutdown /\ ~kernel[f].open /\ shutdown' = shutdown
        /\ SocketStep(k, f, d, assigned, FALSE) /\ FileStep(f, TRUE, dup, FALSE)
    BY <1>1, RegisterEffect
  <2>2. /\ StateStep(d, f, events, FALSE, NoOps, [y \in Types |-> TRUE])
        /\ d \notin live /\ live' = live \cup {d}
        /\ IsInjective(free') /\ ToSet(free') \cap live' = {} /\ IsFiniteSet(live')
        /\ \A j \in Sockets : socket[j].data # d
    <3>1. RegisterDone(d, f, events)
      BY <1>1, RegisteredState
    <3> QED BY <3>1 DEF RegisterDone
  <2>3. \A j \in Sockets : socket[j].fd # f
    BY <2>1, <1>0 DEF SocketShape
  <2>4. PoolInv'
    BY <2>1, <2>2 DEF PoolInv
  <2>5. Distinct'
    BY <2>1, <2>2, <2>3, <1>0 DEF Distinct, SocketStep
  <2>6. SocketShape'
    <3> SUFFICES ASSUME NEW j \in Sockets
                 PROVE  /\ socket'[j].closing => socket'[j].fd # Null
                        /\ socket'[j].fd # Null => kernel'[socket'[j].fd].open
                        /\ socket'[j].data # Null => socket'[j].data \in live' \/ shutdown'
                        /\ socket'[j].data # Null /\ shutdown'
                             => state'[socket'[j].data].shutdown /\ ~socket'[j].closing
                        /\ Open(j)' =>
                             /\ socket'[j].data # Null
                             /\ kernel'[socket'[j].fd].dup => socket'[j].dup
                             /\ IF state'[socket'[j].data].shutdown THEN shutdown'
                                ELSE state'[socket'[j].data].descriptor = socket'[j].fd
      BY DEF SocketShape
    <3>1. CASE j = k
      BY <3>1, <1>0, <1>1, <2>1, <2>2 DEF SocketStep, FileStep, StateStep, Fields, Open
    <3>2. CASE j # k
      <4>1. socket'[j] = socket[j]
        BY <2>1, <3>2 DEF SocketStep
      <4>2. socket[j].fd # Null => kernel'[socket[j].fd] = kernel[socket[j].fd]
        BY <2>1, <2>3, <1>0 DEF FileStep
      <4>3. socket[j].data # Null => state'[socket[j].data] = state[socket[j].data]
        BY <2>2, <1>0 DEF StateStep
      <4> QED BY <4>1, <4>2, <4>3, <2>1, <2>2, <1>0 DEF SocketShape, Open
    <3> QED BY <3>1, <3>2
  <2> QED BY <2>4, <2>5, <2>6
<1>2. ASSUME NEW k \in Sockets, NEW f \in Fds, NEW d \in States, RegisterFails(k, f, d)
      PROVE  Goal
  <2>1. /\ ~shutdown /\ socket[k].fd = Null /\ shutdown' = shutdown /\ kernel' = kernel
        /\ SocketStep(k, Null, d, socket[k].dup, socket[k].closing)
    BY <1>2, FailEffect DEF kernel_vars
  <2>2. /\ StateStep(d, f, {"in", "pri"}, FALSE, NoOps, [y \in Types |-> TRUE])
        /\ d \notin live /\ live' = live \cup {d}
        /\ IsInjective(free') /\ ToSet(free') \cap live' = {} /\ IsFiniteSet(live')
        /\ \A j \in Sockets : socket[j].data # d
    BY <1>2, FailedState DEF RegisterDone
  <2>4. PoolInv'
    BY <2>1, <2>2 DEF PoolInv
  <2>5. Distinct'
    BY <2>1, <2>2, <1>0 DEF Distinct, SocketStep
  <2>6. SocketShape'
    <3> SUFFICES ASSUME NEW j \in Sockets
                 PROVE  /\ socket'[j].closing => socket'[j].fd # Null
                        /\ socket'[j].fd # Null => kernel'[socket'[j].fd].open
                        /\ socket'[j].data # Null => socket'[j].data \in live' \/ shutdown'
                        /\ socket'[j].data # Null /\ shutdown'
                             => state'[socket'[j].data].shutdown /\ ~socket'[j].closing
                        /\ Open(j)' =>
                             /\ socket'[j].data # Null
                             /\ kernel'[socket'[j].fd].dup => socket'[j].dup
                             /\ IF state'[socket'[j].data].shutdown THEN shutdown'
                                ELSE state'[socket'[j].data].descriptor = socket'[j].fd
      BY DEF SocketShape
    <3>1. CASE j = k
      BY <3>1, <1>0, <2>1, <2>2 DEF SocketStep, StateStep, Fields, Open, SocketShape
    <3>2. CASE j # k
      <4>1. socket'[j] = socket[j]
        BY <2>1, <3>2 DEF SocketStep
      <4>3. socket[j].data # Null => state'[socket[j].data] = state[socket[j].data]
        BY <2>2, <1>0 DEF StateStep
      <4> QED BY <4>1, <4>3, <2>1, <2>2, <1>0 DEF SocketShape, Open
    <3> QED BY <3>1, <3>2
  <2> QED BY <2>4, <2>5, <2>6
<1>3. ASSUME NEW k \in Sockets, NEW how \in {"close", "release"},
             deregister_descriptor(k, how)
      PROVE  Goal
  <2> DEFINE d == socket[k].data
             f == socket[k].fd
  <2>1. /\ Open(k) /\ UNCHANGED <<live, free, shutdown>>
        /\ FileStep(f, kernel[f].open, kernel[f].dup \/ how = "release", kernel[f].forked)
        /\ ~shutdown =>
             /\ SocketStep(k, f, d, socket[k].dup, TRUE)
             /\ StateStep(d, Null, state[d].registered_events, TRUE, NoOps,
                          state[d].try_speculative)
        /\ shutdown => SocketStep(k, f, Null, socket[k].dup, TRUE) /\ state' = state
    BY <1>3, DeregisterEffect DEF pool_vars
  <2>2. /\ f \in Fds /\ d \in States /\ f # Null /\ d # Null /\ kernel[f].open
        /\ ~shutdown => d \in live
    BY <2>1, <1>0, OpenSocket
  <2>3. \A j \in Sockets : j # k => socket[j].fd # f /\ socket[j].data # d
    BY <2>2, <1>0 DEF Distinct
  <2> HIDE DEF d, f
  <2>4. /\ \A j \in Sockets : j # k => socket'[j] = socket[j]
        /\ socket'[k].fd = f /\ socket'[k].dup = socket[k].dup /\ socket'[k].closing
        /\ socket'[k].data = (IF shutdown THEN Null ELSE d)
    BY <2>1 DEF SocketStep
  <2>5. PoolInv'
    BY <2>1, <1>0 DEF PoolInv
  <2>6. Distinct'
    BY <2>2, <2>3, <2>4, <1>0 DEF Distinct
  <2>7. SocketShape'
    <3> SUFFICES ASSUME NEW j \in Sockets
                 PROVE  /\ socket'[j].closing => socket'[j].fd # Null
                        /\ socket'[j].fd # Null => kernel'[socket'[j].fd].open
                        /\ socket'[j].data # Null => socket'[j].data \in live' \/ shutdown'
                        /\ socket'[j].data # Null /\ shutdown'
                             => state'[socket'[j].data].shutdown /\ ~socket'[j].closing
                        /\ Open(j)' =>
                             /\ socket'[j].data # Null
                             /\ kernel'[socket'[j].fd].dup => socket'[j].dup
                             /\ IF state'[socket'[j].data].shutdown THEN shutdown'
                                ELSE state'[socket'[j].data].descriptor = socket'[j].fd
      BY DEF SocketShape
    <3>1. CASE j = k
      <4>1. kernel'[f].open
        BY <2>1, <2>2 DEF FileStep
      <4> QED BY <3>1, <4>1, <2>1, <2>2, <2>4 DEF Open
    <3>2. CASE j # k
      <4>1. socket'[j] = socket[j]
        BY <2>4, <3>2
      <4>2. socket[j].fd # Null => kernel'[socket[j].fd] = kernel[socket[j].fd]
        BY <2>1, <2>3, <3>2, <1>0 DEF FileStep
      <4>3. socket[j].data # Null => state'[socket[j].data] = state[socket[j].data]
        BY <2>1, <2>3, <3>2, <1>0 DEF StateStep
      <4> QED BY <4>1, <4>2, <4>3, <2>1, <1>0 DEF SocketShape, Open
    <3> QED BY <3>1, <3>2
  <2> QED BY <2>5, <2>6, <2>7
<1>4. ASSUME NEW k \in Sockets, FinishClose(k)
      PROVE  Goal
  <2> DEFINE f == socket[k].fd
  <2>1. /\ socket[k].closing /\ f \in Fds /\ SocketStep(k, Null, Null, FALSE, FALSE)
        /\ UNCHANGED <<state, shutdown>>
        /\ kernel' = kernel \/ kernel' = [kernel EXCEPT ![f] = NoFile]
        /\ IF socket[k].data # Null THEN live' = live \ {socket[k].data} ELSE live' = live
        /\ IsInjective(free') /\ ToSet(free') \cap live' = {} /\ IsFiniteSet(live')
        /\ live' \subseteq live
    BY <1>4, FinishEffect DEF kernel_vars, pool_vars
  <2>2. f # Null /\ \A j \in Sockets : j # k => socket[j].fd # f
    BY <2>1, <1>0 DEF Distinct
  <2>3. \A j \in Sockets : j # k /\ socket[j].data # Null => socket[j].data # socket[k].data
    BY <1>0 DEF Distinct
  <2> HIDE DEF f
  <2>4. PoolInv'
    BY <2>1, <1>0 DEF PoolInv
  <2>5. Distinct'
    BY <2>1, <1>0 DEF Distinct, SocketStep
  <2>6. SocketShape'
    <3> SUFFICES ASSUME NEW j \in Sockets
                 PROVE  /\ socket'[j].closing => socket'[j].fd # Null
                        /\ socket'[j].fd # Null => kernel'[socket'[j].fd].open
                        /\ socket'[j].data # Null => socket'[j].data \in live' \/ shutdown'
                        /\ socket'[j].data # Null /\ shutdown'
                             => state'[socket'[j].data].shutdown /\ ~socket'[j].closing
                        /\ Open(j)' =>
                             /\ socket'[j].data # Null
                             /\ kernel'[socket'[j].fd].dup => socket'[j].dup
                             /\ IF state'[socket'[j].data].shutdown THEN shutdown'
                                ELSE state'[socket'[j].data].descriptor = socket'[j].fd
      BY DEF SocketShape
    <3>1. CASE j = k
      BY <3>1, <2>1 DEF Open, SocketStep
    <3>2. CASE j # k
      <4>1. socket'[j] = socket[j]
        BY <2>1, <3>2 DEF SocketStep
      <4>2. socket[j].fd # Null => kernel'[socket[j].fd] = kernel[socket[j].fd]
        <5>1. kernel \in [Fds -> FileType]
          BY DEF IInv, TypeInv, KernelTypes
        <5> QED BY <5>1, <2>1, <2>2, <3>2, <1>0
      <4>3. socket[j].data # Null /\ socket[j].data \in live => socket[j].data \in live'
        BY <2>1, <2>3, <3>2
      <4> QED BY <4>1, <4>2, <4>3, <2>1, <1>0 DEF SocketShape, Open
    <3> QED BY <3>1, <3>2
  <2> QED BY <2>4, <2>5, <2>6

<1>5. ASSUME NEW k \in Sockets, NEW other \in Sockets \ {k}, move_descriptor(k, other)
      PROVE  Goal
  <2>1. /\ Open(other) /\ socket[k] = Closed
        /\ socket'[k] = socket[other] /\ socket'[other] = Closed
        /\ \A j \in Sockets : j \notin {k, other} => socket'[j] = socket[j]
        /\ UNCHANGED <<state, live, free, shutdown, kernel>>
    BY <1>5, MoveEffect DEF pool_vars, kernel_vars
  <2>2. PoolInv'
    BY <2>1, <1>0 DEF PoolInv
  <2>3. Distinct'
    <3> SUFFICES ASSUME NEW i \in Sockets, NEW j \in Sockets, i # j
                 PROVE  /\ socket'[i].data = socket'[j].data => socket'[i].data = Null
                        /\ socket'[i].fd = socket'[j].fd => socket'[i].fd = Null
      BY DEF Distinct
    <3>1. CASE i = other \/ j = other
      BY <2>1, <3>1, NothingThere
    <3>2. CASE i # other /\ j # other
      BY <2>1, <3>2, <1>0 DEF Distinct
    <3> QED BY <3>1, <3>2
  <2>4. SocketShape'
    <3>1. \A j \in Sockets : \E i \in Sockets : socket'[j] = socket[i] \/ socket'[j] = Closed
      BY <2>1
    <3> QED BY <2>1, <3>1, <1>0, NothingThere DEF SocketShape, Open
  <2> QED BY <2>2, <2>3, <2>4
<1>6. ASSUME NEW f \in Fds, HandleCloses(f)
      PROVE  Goal
  <2>1. UNCHANGED <<socket, state, live, free, shutdown>>
    BY <1>6, LeaveEffect DEF pool_vars, IInv
  <2>2. \A j \in Sockets : socket[j].fd # Null =>
          /\ kernel'[socket[j].fd].open = kernel[socket[j].fd].open
          /\ kernel'[socket[j].fd].dup => kernel[socket[j].fd].dup
    <3> SUFFICES ASSUME NEW j \in Sockets, socket[j].fd # Null
                 PROVE  /\ kernel'[socket[j].fd].open = kernel[socket[j].fd].open
                        /\ kernel'[socket[j].fd].dup => kernel[socket[j].fd].dup
      OBVIOUS
    <3>1. CASE socket[j].fd = f
      <4>1. PICK file : /\ FileStep(f, kernel[f].open, file.dup, file.forked)
                        /\ file.dup => kernel[f].dup
        <5>1. \/ \E file : /\ FileStep(f, kernel[f].open, file.dup, file.forked)
                           /\ file.dup => kernel[f].dup
              \/ \A i \in Sockets : socket[i].fd # f
          BY <1>6, LeaveEffect DEF IInv
        <5> QED BY <3>1, <5>1
      <4> QED BY <3>1, <4>1 DEF FileStep
    <3>2. CASE socket[j].fd # f
      <4>1. \E open, dup, forked : FileStep(f, open, dup, forked)
        BY <1>6, LeaveEffect DEF IInv
      <4> QED BY <3>2, <4>1, <1>0 DEF FileStep
    <3> QED BY <3>1, <3>2
  <2>3. PoolInv' /\ Distinct'
    BY <2>1, <1>0 DEF PoolInv, Distinct
  <2>4. SocketShape'
    BY <2>1, <2>2, <1>0 DEF SocketShape, Open
  <2> QED BY <2>3, <2>4
<1>7. ASSUME Shutdown
      PROVE  Goal
  <2>1. /\ shutdown' = TRUE /\ UNCHANGED <<socket, kernel>>
        /\ \A k \in Sockets : ~socket[k].closing
        /\ \A d \in States :
              IF d \in live THEN state'[d].shutdown = TRUE ELSE state'[d] = state[d]
        /\ live' = {} /\ IsInjective(free') /\ ~shutdown
    BY <1>7, ShutdownEffect DEF Fields, kernel_vars
  <2>2. PoolInv' /\ Distinct'
    BY <2>1, <1>0, FS_EmptySet DEF PoolInv, Distinct
  <2>3. \A j \in Sockets : socket[j].data # Null => state'[socket[j].data].shutdown
    BY <2>1, <1>0 DEF SocketShape
  <2>4. SocketShape'
    BY <2>1, <2>3, <1>0 DEF SocketShape, Open
  <2> QED BY <2>2, <2>4
<1>8. SameShape => Goal
  BY SameShapeKeeps
<1> HIDE DEF Goal
<1>9. ASSUME NEW k \in Sockets, SocketCall(k) PROVE Goal
  <2>1. ASSUME NEW f \in Fds, NEW d \in States,
               \/ register_descriptor(k, f, d, FALSE, FALSE, {"in", "pri"})
               \/ "assign" \in Calls /\ \E dup \in BOOLEAN, events \in {{}, {"in", "pri"}} :
                    register_descriptor(k, f, d, TRUE, dup, events)
               \/ "fail" \in Calls /\ RegisterFails(k, f, d)
        PROVE  Goal
    <3>1. TRUE \in BOOLEAN /\ FALSE \in BOOLEAN /\ {"in", "pri"} \in {{}, {"in", "pri"}}
          /\ (FALSE => FALSE)
      OBVIOUS
    <3>2. \A dup \in BOOLEAN : dup => TRUE
      OBVIOUS
    <3> QED BY <2>1, <3>1, <3>2, <1>1, <1>2, Zenon
  <2>2. ASSUME (\E o \in ReactorOps, c \in Kinds : start_op(k, o, c)) \/ cancel_ops(k)
        PROVE  Goal
    BY <2>2, <1>8, SameShapeStep
  <2> QED BY <1>9, <2>1, <2>2, <1>3, <1>4, <1>5, Zenon DEF SocketCall
<1>10. ASSUME NEW f \in Fds, KernelStep(f) PROVE Goal
  <2>1. ASSUME Arrive(f) \/ Drain(f) \/ Urgent(f) \/ PeerCloses(f) \/ PeerResets(f)
        PROVE  Goal
    BY <2>1, <1>8, SameShapeStep
  <2> QED BY <1>10, <2>1, <1>6, Zenon DEF KernelStep, HandleCloses
<1>11. ASSUME ReactorStep \/ Forks \/ UNCHANGED vars PROVE Goal
  BY <1>11, <1>8, SameShapeStep DEF ReactorStep
<1>12. Goal
  BY <1>7, <1>9, <1>10, <1>11, Zenon DEF Next, Forks
<1> QED BY <1>12 DEF Goal

-----------------------------------------------------------------------------
(* The registrations with epoll.                                           *)

(* The steps, with the parameters of register_descriptor made explicit.     *)
LEMMA StepCases ==
  ASSUME [Next]_vars
  PROVE  \/ \E k \in Sockets, f \in Fds, d \in States, assigned \in BOOLEAN, dup \in BOOLEAN,
               events \in {{}, {"in", "pri"}} :
              (dup => assigned) /\ register_descriptor(k, f, d, assigned, dup, events)
         \/ \E k \in Sockets, f \in Fds, d \in States : RegisterFails(k, f, d)
         \/ \E k \in Sockets, o \in ReactorOps, c \in Kinds : start_op(k, o, c)
         \/ \E k \in Sockets : cancel_ops(k)
         \/ \E k \in Sockets, how \in {"close", "release"} : deregister_descriptor(k, how)
         \/ \E k \in Sockets : FinishClose(k)
         \/ \E k \in Sockets : \E other \in Sockets \ {k} : move_descriptor(k, other)
         \/ \E f \in Fds : HandleCloses(f)
         \/ \E f \in Fds : Arrive(f) \/ Drain(f) \/ Urgent(f) \/ PeerCloses(f) \/ PeerResets(f)
         \/ \E t \in Threads : perform_io(t)
         \/ \E t \in Threads, e \in enqueued : PopDescriptor(t, e)
         \/ EpollWait \/ Dispatch \/ Shutdown \/ Forks \/ UNCHANGED vars
<1> DEFINE Registers == \E k \in Sockets, f \in Fds, d \in States, assigned \in BOOLEAN,
                           dup \in BOOLEAN, events \in {{}, {"in", "pri"}} :
                          (dup => assigned) /\ register_descriptor(k, f, d, assigned, dup, events)
           Kernel == \E f \in Fds : Arrive(f) \/ Drain(f) \/ Urgent(f) \/ PeerCloses(f)
                                      \/ PeerResets(f)
<1>1. ASSUME NEW k \in Sockets, NEW f \in Fds, NEW d \in States,
             \/ register_descriptor(k, f, d, FALSE, FALSE, {"in", "pri"})
             \/ \E dup \in BOOLEAN, events \in {{}, {"in", "pri"}} :
                  register_descriptor(k, f, d, TRUE, dup, events)
      PROVE  Registers
  <2>1. TRUE \in BOOLEAN /\ FALSE \in BOOLEAN /\ {"in", "pri"} \in {{}, {"in", "pri"}}
        /\ (FALSE => FALSE) /\ \A dup \in BOOLEAN : dup => TRUE
    OBVIOUS
  <2> QED BY <2>1, <1>1, Zenon
<1>2. ASSUME NEW f \in Fds, KernelStep(f) PROVE Kernel \/ HandleCloses(f)
  BY <1>2, Zenon DEF KernelStep, HandleCloses
<1> HIDE DEF Registers, Kernel
<1>3. ASSUME NEW k \in Sockets, SocketCall(k)
      PROVE  \/ Registers
             \/ \E f \in Fds, d \in States : RegisterFails(k, f, d)
             \/ \E o \in ReactorOps, c \in Kinds : start_op(k, o, c)
             \/ cancel_ops(k)
             \/ \E how \in {"close", "release"} : deregister_descriptor(k, how)
             \/ FinishClose(k)
             \/ \E other \in Sockets \ {k} : move_descriptor(k, other)
  <2>1. \A how \in {"close", "release"} \cap Calls : how \in {"close", "release"}
    OBVIOUS
  <2> QED BY <2>1, <1>1, <1>3, Zenon DEF SocketCall
<1>4. ASSUME Next
      PROVE  \/ Registers
             \/ \E k \in Sockets, f \in Fds, d \in States : RegisterFails(k, f, d)
             \/ \E k \in Sockets, o \in ReactorOps, c \in Kinds : start_op(k, o, c)
             \/ \E k \in Sockets : cancel_ops(k)
             \/ \E k \in Sockets, how \in {"close", "release"} : deregister_descriptor(k, how)
             \/ \E k \in Sockets : FinishClose(k)
             \/ \E k \in Sockets : \E other \in Sockets \ {k} : move_descriptor(k, other)
             \/ \E f \in Fds : HandleCloses(f)
             \/ Kernel
             \/ \E t \in Threads : perform_io(t)
             \/ \E t \in Threads, e \in enqueued : PopDescriptor(t, e)
             \/ EpollWait \/ Dispatch \/ Shutdown \/ Forks
  BY <1>2, <1>3, <1>4, Zenon DEF Next, ReactorStep, Forks
<1> QED BY <1>4, Zenon DEF Registers, Kernel

(* A step that leaves epoll and everybody's registered_events alone. *)
LEMMA SameEpollStep ==
  ASSUME IInv,
         \/ \E k \in Sockets : cancel_ops(k)
         \/ \E f \in Fds : Arrive(f) \/ Drain(f) \/ Urgent(f) \/ PeerCloses(f) \/ PeerResets(f)
         \/ EpollWait \/ Dispatch \/ UNCHANGED vars
         \/ \E t \in Threads : perform_io(t)
         \/ \E t \in Threads, e \in enqueued : PopDescriptor(t, e)
  PROVE  /\ SameShape /\ epoll' = epoll
         /\ \A d \in States : state'[d].registered_events = state[d].registered_events
<1>0. TypeInv
  BY DEF IInv
<1>1. ASSUME NEW k \in Sockets, cancel_ops(k)
      PROVE  /\ epoll' = epoll
             /\ \A d \in States : state'[d].registered_events = state[d].registered_events
  BY <1>1, CancelEffect DEF StateStep, Fields, kernel_vars
<1>2. ASSUME NEW f \in Fds,
             Arrive(f) \/ Drain(f) \/ Urgent(f) \/ PeerCloses(f) \/ PeerResets(f)
      PROVE  epoll' = epoll /\ state' = state
  <2>1. PICK file \in FileType, event \in AllEvents : KernelEvent(f, file, event)
    BY <1>0, <1>2, KernelEffect
  <2> QED BY <2>1 DEF KernelEvent
<1>3. EpollWait \/ Dispatch \/ UNCHANGED vars => epoll' = epoll /\ state' = state
  BY DEF EpollWait, Dispatch, kernel_vars, vars
<1>4. ASSUME NEW t \in Threads, NEW e \in enqueued, PopDescriptor(t, e)
      PROVE  epoll' = epoll /\ state' = state
  BY <1>4 DEF PopDescriptor, kernel_vars
<1>5. ASSUME NEW t \in Threads, perform_io(t)
      PROVE  /\ epoll' = epoll
             /\ \A d \in States : state'[d].registered_events = state[d].registered_events
  <2> DEFINE s == PerformAll(PerformStart(t), performing[t].events)
             d == performing[t].ptr
  <2>1. /\ epoll' = epoll
        /\ StateStep(d, state[d].descriptor, state[d].registered_events, state[d].shutdown,
                     s.op_queue, s.spec)
    BY <1>5, PerformStep
  <2> HIDE DEF s, d
  <2> QED BY <2>1 DEF StateStep, Fields
<1>6. SameShape
  BY SameShapeStep
<1>7. /\ epoll' = epoll
      /\ \A d \in States : state'[d].registered_events = state[d].registered_events
  BY <1>1, <1>2, <1>3, <1>4, <1>5
<1> QED BY <1>6, <1>7

LEMMA SameOwners ==
  ASSUME Owned, socket' = socket, shutdown' = shutdown, epoll' = epoll,
         \A f \in Fds : /\ kernel'[f].open = kernel[f].open /\ kernel'[f].dup = kernel[f].dup
                        /\ kernel[f].open /\ kernel[f].forked => kernel'[f].forked
  PROVE  Owned'
<1> SUFFICES ASSUME ~shutdown, NEW g \in Fds, epoll[g].ptr # Null
             PROVE  kernel'[g].open /\ (HasOwner(g)' \/ Left(g)')
  BY DEF Owned
<1>1. kernel[g].open /\ (HasOwner(g) \/ Left(g))
  BY DEF Owned
<1> QED BY <1>1 DEF HasOwner, Left

LEMMA SameEpollKeeps ==
  ASSUME IInv, SameShape, epoll' = epoll,
         \A d \in States : state'[d].registered_events = state[d].registered_events
  PROVE  RegInv'
<1>1. /\ RegInv /\ \A k \in Sockets : socket[k].fd \in Fds \cup {Null}
      /\ \A k \in Sockets : Open(k) => socket[k].data \in States /\ socket[k].fd \in Fds
      /\ \A k \in Sockets : socket[k].closing => socket[k].fd \in Fds
  BY OpenSocket DEF IInv, TypeInv, SocketTypes, SocketShape
<1>2. /\ socket' = socket /\ shutdown' = shutdown
      /\ \A f \in Fds : /\ kernel'[f].open = kernel[f].open /\ kernel'[f].dup = kernel[f].dup
                        /\ kernel[f].open /\ kernel[f].forked => kernel'[f].forked
  BY DEF SameShape
<1>3. Asked'
  BY <1>1, <1>2 DEF RegInv, Asked
<1>4. Owned'
  BY <1>1, <1>2, SameOwners DEF RegInv
<1>5. Registered'
  <2>1. \A d \in States : state'[d].registered_events = state[d].registered_events
    OBVIOUS
  <2> QED BY <2>1, <1>1, <1>2 DEF RegInv, Registered, Registration, Open
<1>6. Removed'
  BY <1>1, <1>2 DEF RegInv, Removed
<1> QED BY <1>3, <1>4, <1>5, <1>6 DEF RegInv

LEMMA RegStep ==
  ASSUME IInv, [Next]_vars
  PROVE  RegInv'
<1>0. /\ Asked /\ Owned /\ Registered /\ Removed /\ SocketShape /\ Distinct
      /\ kernel \in [Fds -> FileType]
      /\ epoll \in [Fds -> [ptr : States \cup {Null}, events : SUBSET {"in", "out", "pri"}]]
      /\ \A k \in Sockets : socket[k].fd \in Fds \cup {Null}
                            /\ socket[k].data \in States \cup {Null}
      /\ Null \notin Fds /\ Null \notin States
  <2>1. \A k \in Sockets : socket[k].fd \in Fds \cup {Null}
                           /\ socket[k].data \in States \cup {Null}
    BY DEF IInv, TypeInv, SocketTypes
  <2> QED BY <2>1, EpollReactorAssumption DEF IInv, TypeInv, KernelTypes, RegInv
<1>o. \A k \in Sockets : Open(k) => /\ socket[k].fd \in Fds /\ socket[k].data \in States
                                    /\ kernel[socket[k].fd].open
  BY OpenSocket
<1>1. ASSUME NEW k \in Sockets, NEW f \in Fds, NEW d \in States, NEW assigned \in BOOLEAN,
             NEW dup \in BOOLEAN, NEW events \in {{}, {"in", "pri"}}, dup => assigned,
             register_descriptor(k, f, d, assigned, dup, events)
      PROVE  RegInv'
  <2>1. /\ ~shutdown /\ ~kernel[f].open /\ shutdown' = shutdown /\ socket[k].fd = Null
        /\ SocketStep(k, f, d, assigned, FALSE) /\ FileStep(f, TRUE, dup, FALSE)
        /\ IF events = {} THEN UNCHANGED <<epoll, ready>> ELSE Register(f, NoFile, d, events)
    BY <1>1, RegisterEffect
  <2>2. /\ StateStep(d, f, events, FALSE, NoOps, [y \in Types |-> TRUE])
        /\ \A j \in Sockets : socket[j].data # d
    <3>1. RegisterDone(d, f, events)
      BY <1>1, RegisteredState
    <3> QED BY <3>1 DEF RegisterDone
  <2>3. \A j \in Sockets : socket[j].fd # f
    BY <2>1, <1>0 DEF SocketShape
  <2>4. epoll[f].ptr = Null /\ epoll[f] = NoRegistration
    BY <2>1, <1>0 DEF Owned, Asked
  <2>5. /\ \A g \in Fds : g # f => epoll'[g] = epoll[g]
        /\ epoll'[f] = IF events = {} THEN NoRegistration ELSE [ptr |-> d, events |-> events]
    BY <2>1, <2>4, <1>0 DEF Register
  <2>6. /\ \A j \in Sockets : j # k => socket'[j] = socket[j]
        /\ socket'[k].fd = f /\ socket'[k].data = d /\ ~socket'[k].closing
        /\ \A e \in States : e # d => state'[e] = state[e]
        /\ state'[d].registered_events = events
        /\ \A g \in Fds : g # f => kernel'[g] = kernel[g]
        /\ kernel'[f].open
    BY <2>1, <2>2 DEF SocketStep, StateStep, Fields, FileStep
  <2>7. Asked'
    BY <2>5, <2>6, <1>0, <1>1 DEF Asked
  <2>8. Owned'
    <3> SUFFICES ASSUME NEW g \in Fds, epoll'[g].ptr # Null
                 PROVE  kernel'[g].open /\ (HasOwner(g)' \/ Left(g)')
      BY DEF Owned
    <3>1. CASE g = f
      <4>1. epoll'[f].ptr = d
        BY <2>5, <3>1, NothingThere
      <4> QED BY <4>1, <2>6, <3>1 DEF HasOwner
    <3>2. CASE g # f
      <4>1. kernel[g].open /\ kernel'[g] = kernel[g] /\ (HasOwner(g) \/ Left(g))
        BY <2>1, <2>5, <2>6, <3>2, <1>0 DEF Owned
      <4>2. CASE HasOwner(g)
        <5>1. PICK j \in Sockets : socket[j].fd = g /\ socket[j].data = epoll[g].ptr
          BY <4>2 DEF HasOwner
        <5>2. j # k
          BY <5>1, <2>1, <1>0
        <5> QED BY <4>1, <5>1, <5>2, <2>5, <2>6, <3>2 DEF HasOwner
      <4>3. CASE Left(g)
        BY <4>1, <4>3, <2>6, <3>2 DEF Left
      <4> QED BY <4>1, <4>2, <4>3
    <3> QED BY <3>1, <3>2
  <2>9. Registered'
    <3> SUFFICES ASSUME NEW j \in Sockets, Open(j)'
                 PROVE  epoll'[socket'[j].fd] =
                          Registration(socket'[j].data, state'[socket'[j].data].registered_events)
      BY DEF Registered, Registration
    <3>1. CASE j = k
      BY <3>1, <2>5, <2>6 DEF Registration
    <3>2. CASE j # k
      <4>1. /\ Open(j) /\ socket[j].data # d /\ socket[j].fd # f /\ socket'[j] = socket[j]
            /\ socket[j].fd \in Fds /\ socket[j].data \in States
        BY <2>2, <2>3, <2>6, <3>2, <1>o DEF Open
      <4>2. state'[socket[j].data].registered_events = state[socket[j].data].registered_events
        BY <4>1, <2>6
      <4>3. epoll[socket[j].fd] =
              Registration(socket[j].data, state[socket[j].data].registered_events)
        BY <4>1, <2>1, <1>0 DEF Registered
      <4> QED BY <4>1, <4>2, <4>3, <2>5
    <3> QED BY <3>1, <3>2
  <2>10. Removed'
    BY <2>1, <2>3, <2>5, <2>6, <1>0 DEF Removed, SocketShape
  <2> QED BY <2>7, <2>8, <2>9, <2>10 DEF RegInv
<1>2. ASSUME NEW k \in Sockets, NEW f \in Fds, NEW d \in States, RegisterFails(k, f, d)
      PROVE  RegInv'
  <2>1. /\ ~shutdown /\ socket[k].fd = Null /\ shutdown' = shutdown
        /\ kernel' = kernel /\ epoll' = epoll
        /\ SocketStep(k, Null, d, socket[k].dup, socket[k].closing)
    BY <1>2, FailEffect DEF kernel_vars
  <2>2. /\ StateStep(d, f, {"in", "pri"}, FALSE, NoOps, [y \in Types |-> TRUE])
        /\ \A j \in Sockets : socket[j].data # d
    BY <1>2, FailedState DEF RegisterDone
  <2>3. /\ \A j \in Sockets : j # k => socket'[j] = socket[j]
        /\ socket'[k].fd = Null /\ socket'[k].closing = socket[k].closing
        /\ \A e \in States : e # d => state'[e] = state[e]
        /\ state'[d].registered_events = {"in", "pri"}
    BY <2>1, <2>2 DEF SocketStep, StateStep, Fields
  <2>4. Asked'
    BY <2>1, <2>3, <1>0 DEF Asked
  <2>5. Owned'
    <3> SUFFICES ASSUME NEW g \in Fds, epoll[g].ptr # Null
                 PROVE  kernel[g].open /\ (HasOwner(g)' \/ Left(g)')
      BY <2>1 DEF Owned
    <3>1. kernel[g].open /\ (HasOwner(g) \/ Left(g))
      BY <2>1, <1>0 DEF Owned
    <3>2. CASE HasOwner(g)
      <4>1. PICK j \in Sockets : socket[j].fd = g /\ socket[j].data = epoll[g].ptr
        BY <3>2 DEF HasOwner
      <4>2. j # k
        BY <4>1, <2>1, <1>0
      <4> QED BY <3>1, <4>1, <4>2, <2>1, <2>3 DEF HasOwner
    <3>3. CASE Left(g)
      BY <3>1, <3>3, <2>1, <2>3, <1>0 DEF Left
    <3> QED BY <3>1, <3>2, <3>3
  <2>6. Registered'
    <3> SUFFICES ASSUME NEW j \in Sockets, Open(j)'
                 PROVE  epoll'[socket'[j].fd] =
                          Registration(socket'[j].data, state'[socket'[j].data].registered_events)
      BY DEF Registered, Registration
    <3>1. j # k /\ socket'[j] = socket[j] /\ Open(j)
      BY <2>3 DEF Open
    <3>2. socket[j].data # d /\ socket[j].data \in States
      BY <3>1, <2>2, <1>o
    <3>3. state'[socket[j].data].registered_events = state[socket[j].data].registered_events
      BY <3>2, <2>3
    <3> QED BY <3>1, <3>3, <2>1, <1>0 DEF Registered
  <2>7. Removed'
    BY <2>1, <2>3, <1>0 DEF Removed, SocketShape
  <2> QED BY <2>4, <2>5, <2>6, <2>7 DEF RegInv
<1>3. ASSUME NEW k \in Sockets, NEW o \in ReactorOps, NEW c \in Kinds, start_op(k, o, c)
      PROVE  RegInv'
  <2> DEFINE y == KindType[c]
             d == socket[k].data
             f == socket[k].fd
  <2>1. /\ Open(k) /\ socket' = socket /\ shutdown' = shutdown
        /\ Posted(k, o) \/ Finished(k, o, y) \/ Pushed(k, o, y)
    BY <1>3, StartEffect
  <2>2. SameShape
    BY <1>3, SameShapeStep
  <2>3. f \in Fds /\ d \in States /\ kernel[f].open
    BY <2>1, <1>o
  <2> HIDE DEF y
  <2>4. CASE Posted(k, o)
    BY <2>2, <2>4, SameEpollKeeps DEF Posted, kernel_vars
  <2>5. CASE Finished(k, o, y)
    <3>1. /\ epoll' = epoll
          /\ \A e \in States : state'[e].registered_events = state[e].registered_events
      BY <2>5 DEF Finished, StateStep, Fields
    <3> QED BY <3>1, <2>2, SameEpollKeeps
  <2>6. CASE Pushed(k, o, y)
    <3>1. PICK events \in SUBSET {"in", "out", "pri"} :
            /\ kernel' = kernel
            /\ StateStep(d, state[d].descriptor, events, state[d].shutdown,
                         [state[d].op_queue EXCEPT ![y] = Append(@, o)],
                         state[d].try_speculative)
            /\ state[d].registered_events \subseteq events
            /\ state[d].registered_events # {}
            /\ \/ Register(f, kernel[f], d, events)
               \/ UNCHANGED <<epoll, ready>> /\ events = state[d].registered_events
      BY <2>6 DEF Pushed
    <3>2. /\ \A e \in States : e # d => state'[e] = state[e]
          /\ state'[d].registered_events = events
      BY <3>1 DEF StateStep, Fields
    <3>3. CASE UNCHANGED <<epoll, ready>> /\ events = state[d].registered_events
      <4>1. \A e \in States : state'[e].registered_events = state[e].registered_events
        BY <3>2, <3>3
      <4> QED BY <4>1, <3>3, <2>2, SameEpollKeeps
    <3>4. CASE Register(f, kernel[f], d, events)
      <4>1. /\ \A g \in Fds : g # f => epoll'[g] = epoll[g]
            /\ epoll'[f] = [ptr |-> d, events |-> events]
            /\ epoll'[f].ptr = d
        BY <3>4, <2>3, <1>0 DEF Register
      <4>2. \A j \in Sockets : j # k => socket[j].fd # f /\ socket[j].data # d
        BY <2>3, <1>0 DEF Distinct
      <4>3. ~socket[k].closing /\ events # {}
        BY <2>1, <3>1 DEF Open
      <4> HIDE DEF d, f
      <4>4. Asked'
        BY <4>1, <3>1, <3>2, <2>3, <1>0 DEF Asked
      <4>5. Owned'
        <5>1. socket[k].fd = f /\ socket[k].data = d
          BY DEF d, f
        <5>2. socket'[k].fd = f /\ socket'[k].data = epoll'[f].ptr
          BY <5>1, <4>1, <2>1
        <5>3. ASSUME NEW g \in Fds, g # f, epoll[g].ptr # Null, ~shutdown
              PROVE  kernel[g].open /\ (HasOwner(g)' \/ Left(g)')
          <6>1. kernel[g].open /\ (HasOwner(g) \/ Left(g))
            BY <5>3, <1>0 DEF Owned
          <6> QED BY <6>1, <5>3, <4>1, <3>1, <2>1 DEF HasOwner, Left
        <5> SUFFICES ASSUME NEW g \in Fds, ~shutdown, epoll'[g].ptr # Null
                     PROVE  kernel[g].open /\ (HasOwner(g)' \/ Left(g)')
          BY <2>1, <3>1 DEF Owned
        <5>4. CASE g = f
          BY <5>2, <5>4, <2>3 DEF HasOwner
        <5>5. CASE g # f
          BY <5>3, <5>5, <4>1
        <5> QED BY <5>4, <5>5
      <4>6. Registered'
        <5> SUFFICES ASSUME NEW j \in Sockets, ~shutdown, Open(j)
                     PROVE  epoll'[socket[j].fd] =
                          Registration(socket[j].data, state'[socket[j].data].registered_events)
          BY <2>1 DEF Registered, Registration, Open
        <5>1. CASE j = k
          <6>1. socket[j].fd = f /\ socket[j].data = d
            BY <5>1 DEF d, f
          <6> QED BY <6>1, <4>1, <4>3, <3>2 DEF Registration
        <5>2. CASE j # k
          <6>1. socket[j].fd # f /\ socket[j].data # d /\ socket[j].fd \in Fds
                /\ socket[j].data \in States
            BY <5>2, <4>2, <1>o
          <6>2. epoll'[socket[j].fd] = epoll[socket[j].fd]
                /\ state'[socket[j].data] = state[socket[j].data]
            BY <6>1, <4>1, <3>2
          <6>3. state'[socket[j].data].registered_events = state[socket[j].data].registered_events
            BY <6>1, <6>2
          <6> QED BY <6>2, <6>3, <1>0 DEF Registered
        <5> QED BY <5>1, <5>2
      <4>7. Removed'
        <5> SUFFICES ASSUME NEW j \in Sockets, ~shutdown, socket[j].closing,
                            kernel[socket[j].fd].dup
                     PROVE  epoll'[socket[j].fd].ptr = Null
          BY <2>1, <3>1 DEF Removed
        <5>1. socket[j].fd # f /\ socket[j].fd \in Fds
          BY <4>2, <4>3, <1>0 DEF SocketShape
        <5> QED BY <5>1, <4>1, <1>0 DEF Removed
      <4> QED BY <4>4, <4>5, <4>6, <4>7 DEF RegInv
    <3> QED BY <3>1, <3>3, <3>4
  <2> QED BY <2>1, <2>4, <2>5, <2>6
<1>4. ASSUME NEW k \in Sockets, NEW how \in {"close", "release"},
             deregister_descriptor(k, how)
      PROVE  RegInv'
  <2> DEFINE d == socket[k].data
             f == socket[k].fd
  <2>1. /\ Open(k) /\ shutdown' = shutdown
        /\ FileStep(f, kernel[f].open, kernel[f].dup \/ how = "release", kernel[f].forked)
        /\ ~shutdown =>
             /\ SocketStep(k, f, d, socket[k].dup, TRUE)
             /\ StateStep(d, Null, state[d].registered_events, TRUE, NoOps,
                          state[d].try_speculative)
             /\ IF ~ClosesFile(k, how) /\ state[d].registered_events # {}
                THEN Unregister(f) ELSE UNCHANGED <<epoll, ready>>
        /\ shutdown => state' = state /\ epoll' = epoll
    BY <1>4, DeregisterEffect
  <2>2. f \in Fds /\ d \in States /\ kernel[f].open /\ (kernel[f].dup => socket[k].dup)
    BY <2>1, <1>0, <1>o DEF SocketShape
  <2>3. \A j \in Sockets : j # k => socket[j].fd # f /\ socket[j].data # d
    BY <2>2, <1>0 DEF Distinct
  <2>4. CASE shutdown
    BY <2>4, <2>1, <1>0 DEF RegInv, Asked, Owned, Registered, Removed
  <2>5. CASE ~shutdown
    <3>1. /\ \A j \in Sockets : j # k => socket'[j] = socket[j]
          /\ socket'[k].fd = f /\ socket'[k].data = d /\ socket'[k].closing
          /\ \A e \in States : e # d => state'[e] = state[e]
          /\ state'[d].registered_events = state[d].registered_events
          /\ \A g \in Fds : g # f => kernel'[g] = kernel[g]
          /\ kernel'[f].open /\ kernel'[f].dup = (kernel[f].dup \/ how = "release")
      BY <2>1, <2>2, <2>5 DEF SocketStep, StateStep, Fields, FileStep
    <3>2. /\ \A g \in Fds : g # f => epoll'[g] = epoll[g]
          /\ epoll'[f] = epoll[f] \/ epoll'[f] = NoRegistration
          /\ ~ClosesFile(k, how) /\ state[d].registered_events # {}
               => epoll'[f] = NoRegistration
      BY <2>1, <2>2, <2>5, <1>0 DEF Unregister
    <3>3. state[d].registered_events = {} => epoll[f] = NoRegistration
      BY <2>1, <2>5, <1>0 DEF Registered, Registration
    <3>4. socket[k].fd = f /\ socket[k].data = d
      OBVIOUS
    <3> HIDE DEF d, f
    <3>5. Asked'
      BY <3>1, <3>2, <2>2, <1>0, NothingThere DEF Asked
    <3>6. Owned'
      <4> SUFFICES ASSUME NEW g \in Fds, epoll'[g].ptr # Null
                   PROVE  kernel'[g].open /\ (HasOwner(g)' \/ Left(g)')
        BY DEF Owned
      <4>1. epoll'[g] = epoll[g]
        BY <3>2, NothingThere
      <4>2. kernel[g].open /\ kernel'[g].open /\ (HasOwner(g) \/ Left(g))
        BY <4>1, <3>1, <2>2, <2>5, <1>0 DEF Owned
      <4>3. \A j \in Sockets :
              socket'[j].fd = socket[j].fd /\ socket'[j].data = socket[j].data
        BY <3>1, <3>4
      <4>4. HasOwner(g) => HasOwner(g)'
        BY <4>1, <4>3 DEF HasOwner
      <4>5. Left(g) => Left(g)'
        BY <4>3, <3>1, <3>4 DEF Left
      <4> QED BY <4>2, <4>4, <4>5
    <3>7. Registered'
      <4> SUFFICES ASSUME NEW j \in Sockets, Open(j)'
                   PROVE  epoll'[socket'[j].fd] =
                          Registration(socket'[j].data, state'[socket'[j].data].registered_events)
        BY DEF Registered, Registration
      <4>1. j # k /\ socket'[j] = socket[j] /\ Open(j)
        BY <3>1 DEF Open
      <4>2. socket[j].data # d /\ socket[j].fd # f /\ socket[j].fd \in Fds
            /\ socket[j].data \in States
        BY <4>1, <2>3, <1>o
      <4>3. state'[socket[j].data].registered_events = state[socket[j].data].registered_events
        BY <4>2, <3>1
      <4>4. epoll[socket[j].fd] =
              Registration(socket[j].data, state[socket[j].data].registered_events)
        BY <4>1, <2>5, <1>0 DEF Registered
      <4> QED BY <4>1, <4>2, <4>3, <4>4, <3>2
    <3>8. Removed'
      <4> SUFFICES ASSUME NEW j \in Sockets, socket'[j].closing, kernel'[socket'[j].fd].dup
                   PROVE  epoll'[socket'[j].fd].ptr = Null
        BY DEF Removed
      <4>1. CASE j = k
        <5>1. ~ClosesFile(k, how)
          BY <4>1, <3>1, <2>2 DEF ClosesFile
        <5> QED BY <5>1, <4>1, <3>1, <3>2, <3>3, NothingThere
      <4>2. CASE j # k
        <5>1. socket'[j] = socket[j] /\ socket[j].fd # f /\ socket[j].fd \in Fds
          BY <4>2, <3>1, <2>3, <1>0 DEF SocketShape
        <5> QED BY <5>1, <3>1, <3>2, <2>5, <1>0 DEF Removed
      <4> QED BY <4>1, <4>2
    <3> QED BY <3>5, <3>6, <3>7, <3>8 DEF RegInv
  <2> QED BY <2>4, <2>5

<1>5. ASSUME NEW k \in Sockets, FinishClose(k)
      PROVE  RegInv'
  <2> DEFINE f == socket[k].fd
  <2>1. /\ socket[k].closing /\ f \in Fds /\ SocketStep(k, Null, Null, FALSE, FALSE)
        /\ state' = state /\ shutdown' = shutdown
        /\ IF OpenElsewhere(kernel[f]) THEN kernel' = kernel /\ epoll' = epoll
           ELSE kernel' = [kernel EXCEPT ![f] = NoFile] /\ Unregister(f)
    BY <1>5, FinishEffect DEF kernel_vars
  <2>2. \A j \in Sockets : j # k => socket[j].fd # f
    BY <2>1, <1>0 DEF Distinct
  <2>3. /\ \A j \in Sockets : j # k => socket'[j] = socket[j]
        /\ socket'[k].fd = Null /\ ~socket'[k].closing
    BY <2>1 DEF SocketStep
  <2>4. /\ \A g \in Fds : g # f => epoll'[g] = epoll[g] /\ kernel'[g] = kernel[g]
        /\ epoll'[f] = epoll[f] \/ epoll'[f] = NoRegistration
        /\ ~shutdown /\ epoll'[f].ptr # Null
             => kernel' = kernel /\ kernel[f].forked /\ ~kernel[f].dup
    <3>1. CASE OpenElsewhere(kernel[f])
      BY <3>1, <2>1, <1>0 DEF Removed, OpenElsewhere
    <3>2. CASE ~OpenElsewhere(kernel[f])
      BY <3>2, <2>1, <1>0, NothingThere DEF Unregister
    <3> QED BY <3>1, <3>2
  <2>5. socket[k].fd = f
    OBVIOUS
  <2> HIDE DEF f
  <2>6. Asked'
    BY <2>1, <2>4, <1>0, NothingThere DEF Asked
  <2>7. Owned'
    <3> SUFFICES ASSUME NEW g \in Fds, ~shutdown, epoll'[g].ptr # Null
                 PROVE  kernel'[g].open /\ (HasOwner(g)' \/ Left(g)')
      BY <2>1 DEF Owned
    <3>1. CASE g = f
      <4>1. kernel' = kernel /\ kernel[f].forked /\ ~kernel[f].dup /\ kernel[f].open
        BY <3>1, <2>1, <2>4, <2>5, <1>0 DEF SocketShape
      <4>2. \A j \in Sockets : socket'[j].fd # f
        BY <2>1, <2>2, <2>3, <1>0
      <4> QED BY <3>1, <4>1, <4>2 DEF Left
    <3>2. CASE g # f
      <4>1. /\ epoll'[g] = epoll[g] /\ kernel'[g] = kernel[g]
            /\ kernel[g].open /\ (HasOwner(g) \/ Left(g))
        BY <3>2, <2>4, <1>0 DEF Owned
      <4>2. CASE HasOwner(g)
        <5>1. PICK j \in Sockets : socket[j].fd = g /\ socket[j].data = epoll[g].ptr
          BY <4>2 DEF HasOwner
        <5>2. j # k
          BY <3>2, <5>1, <2>5
        <5> QED BY <4>1, <5>1, <5>2, <2>3 DEF HasOwner
      <4>3. CASE Left(g)
        BY <4>1, <4>3, <2>3, <1>0 DEF Left
      <4> QED BY <4>1, <4>2, <4>3
    <3> QED BY <3>1, <3>2
  <2>8. Registered'
    <3> SUFFICES ASSUME NEW j \in Sockets, ~shutdown, Open(j)'
                 PROVE  epoll'[socket'[j].fd] =
                          Registration(socket'[j].data, state'[socket'[j].data].registered_events)
      BY <2>1 DEF Registered, Registration
    <3>1. j # k /\ socket'[j] = socket[j] /\ Open(j)
      BY <2>3 DEF Open
    <3>2. socket[j].fd # f /\ socket[j].fd \in Fds /\ socket[j].data \in States
      BY <3>1, <2>2, <1>o
    <3>3. state'[socket[j].data].registered_events = state[socket[j].data].registered_events
      BY <3>2, <2>1
    <3>4. epoll[socket[j].fd] =
              Registration(socket[j].data, state[socket[j].data].registered_events)
      BY <3>1, <1>0 DEF Registered
    <3> QED BY <3>1, <3>2, <3>3, <3>4, <2>4
  <2>9. Removed'
    BY <2>1, <2>2, <2>3, <2>4, <1>0 DEF Removed, SocketShape
  <2> QED BY <2>6, <2>7, <2>8, <2>9 DEF RegInv
<1>6. ASSUME NEW k \in Sockets, NEW other \in Sockets \ {k}, move_descriptor(k, other)
      PROVE  RegInv'
  <2>1. /\ Open(other) /\ socket[k] = Closed
        /\ socket'[k] = socket[other] /\ socket'[other] = Closed
        /\ \A j \in Sockets : j \notin {k, other} => socket'[j] = socket[j]
        /\ UNCHANGED <<state, shutdown, kernel, epoll>>
    BY <1>6, MoveEffect DEF kernel_vars
  <2>2. \A j \in Sockets : \E i \in Sockets : socket'[j] = socket[i] \/ socket'[j] = Closed
    BY <2>1
  <2>3. Asked'
    BY <2>1, <1>0 DEF Asked
  <2>4. Owned'
    <3> SUFFICES ASSUME NEW g \in Fds, ~shutdown, epoll[g].ptr # Null
                 PROVE  kernel[g].open /\ (HasOwner(g)' \/ Left(g)')
      BY <2>1 DEF Owned
    <3>1. kernel[g].open /\ (HasOwner(g) \/ Left(g))
      BY <1>0 DEF Owned
    <3>2. CASE HasOwner(g)
      <4>1. PICK j \in Sockets : socket[j].fd = g /\ socket[j].data = epoll[g].ptr
        BY <3>2 DEF HasOwner
      <4>2. j # k
        BY <4>1, <2>1, <1>0, NothingThere
      <4>3. CASE j = other
        BY <3>1, <4>1, <4>3, <2>1 DEF HasOwner
      <4>4. CASE j # other
        BY <3>1, <4>1, <4>2, <4>4, <2>1 DEF HasOwner
      <4> QED BY <4>3, <4>4
    <3>3. CASE Left(g)
      <4>1. \A j \in Sockets : socket'[j].fd # g
        BY <3>3, <2>2, <1>0, NothingThere DEF Left
      <4> QED BY <3>1, <3>3, <4>1, <2>1 DEF Left
    <3> QED BY <3>1, <3>2, <3>3
  <2>5. Registered'
    <3> SUFFICES ASSUME NEW j \in Sockets, ~shutdown, Open(j)'
                 PROVE  epoll[socket'[j].fd] =
                          Registration(socket'[j].data, state'[socket'[j].data].registered_events)
      BY <2>1 DEF Registered, Registration
    <3>1. PICK i \in Sockets : socket'[j] = socket[i]
      BY <2>2, NothingThere DEF Open
    <3>2. Open(i) /\ socket[i].data \in States
      BY <3>1, <1>o DEF Open
    <3>3. state'[socket[i].data].registered_events = state[socket[i].data].registered_events
      BY <3>2, <2>1
    <3> QED BY <3>1, <3>2, <3>3, <1>0 DEF Registered
  <2>6. Removed'
    BY <2>1, <2>2, <1>0, NothingThere DEF Removed
  <2> QED BY <2>3, <2>4, <2>5, <2>6 DEF RegInv
<1>7. ASSUME NEW f \in Fds, HandleCloses(f)
      PROVE  RegInv'
  <2>1. UNCHANGED <<socket, state, shutdown>>
    BY <1>7, LeaveEffect DEF IInv
  <2>2. ASSUME NEW file, epoll' = epoll,
               FileStep(f, kernel[f].open, file.dup, file.forked),
               file.dup => kernel[f].dup, file.forked => kernel[f].dup,
               file.dup \/ file.forked \/ \E k \in Sockets : socket[k].fd = f
        PROVE  RegInv'
    <3>2. \A g \in Fds : kernel'[g].open = kernel[g].open /\ (kernel'[g].dup => kernel[g].dup)
      BY <2>2 DEF FileStep
    <3>3. Asked'
      BY <2>1, <2>2, <1>0 DEF Asked
    <3>4. Owned'
      <4> SUFFICES ASSUME NEW g \in Fds, ~shutdown, epoll[g].ptr # Null
                   PROVE  kernel'[g].open /\ (HasOwner(g)' \/ Left(g)')
        BY <2>1, <2>2 DEF Owned
      <4>1. kernel[g].open /\ kernel'[g].open /\ (HasOwner(g) \/ Left(g))
        BY <3>2, <1>0 DEF Owned
      <4>2. HasOwner(g) => HasOwner(g)'
        BY <2>1, <2>2 DEF HasOwner
      <4>3. ~Left(f)
        BY <2>2 DEF Left
      <4>4. CASE Left(g)
        <5>1. kernel'[g] = kernel[g]
          BY <4>3, <4>4, <2>2 DEF FileStep
        <5> QED BY <5>1, <4>1, <4>4, <2>1 DEF Left
      <4> QED BY <4>1, <4>2, <4>4
    <3>5. Registered'
      <4>1. \A d \in States : state'[d].registered_events = state[d].registered_events
        BY <2>1
      <4> QED BY <4>1, <2>1, <2>2, <1>0, <1>o DEF Registered, Registration, Open
    <3>6. Removed'
      BY <2>1, <2>2, <3>2, <1>0 DEF Removed, SocketShape
    <3> QED BY <3>3, <3>4, <3>5, <3>6 DEF RegInv
  <2>3. ASSUME \A k \in Sockets : socket[k].fd # f,
               FileStep(f, FALSE, FALSE, FALSE), Unregister(f)
        PROVE  RegInv'
    <3>2. /\ \A g \in Fds : g # f => kernel'[g] = kernel[g] /\ epoll'[g] = epoll[g]
          /\ epoll'[f] = NoRegistration
      BY <2>3, <1>0 DEF FileStep, Unregister
    <3>3. Asked'
      BY <2>1, <3>2, <1>0 DEF Asked
    <3>4. Owned'
      <4> SUFFICES ASSUME NEW g \in Fds, ~shutdown, epoll'[g].ptr # Null
                   PROVE  kernel'[g].open /\ (HasOwner(g)' \/ Left(g)')
        BY <2>1 DEF Owned
      <4>1. g # f
        BY <3>2, NothingThere
      <4>2. kernel[g].open /\ (HasOwner(g) \/ Left(g))
        BY <3>2, <4>1, <1>0 DEF Owned
      <4> QED BY <2>1, <3>2, <4>1, <4>2 DEF HasOwner, Left
    <3>5. Registered'
      <4>1. \A d \in States : state'[d].registered_events = state[d].registered_events
        BY <2>1
      <4> QED BY <4>1, <2>1, <2>3, <3>2, <1>0, <1>o DEF Registered, Registration, Open
    <3>6. Removed'
      BY <2>1, <2>3, <3>2, <1>0 DEF Removed, SocketShape
    <3> QED BY <3>3, <3>4, <3>5, <3>6 DEF RegInv
  <2>4. \/ /\ epoll' = epoll
           /\ \E file : /\ FileStep(f, kernel[f].open, file.dup, file.forked)
                        /\ file.dup => kernel[f].dup
                        /\ file.forked => kernel[f].dup
                        /\ file.dup \/ file.forked \/ \E k \in Sockets : socket[k].fd = f
        \/ /\ FileStep(f, FALSE, FALSE, FALSE) /\ Unregister(f)
           /\ \A k \in Sockets : socket[k].fd # f
    BY <1>7, LeaveEffect DEF IInv
  <2> QED BY <2>2, <2>3, <2>4
<1>8. ASSUME Shutdown
      PROVE  RegInv'
  <2>1. /\ shutdown' = TRUE /\ epoll' = epoll
        /\ \A d \in States :
              state'[d].registered_events = state[d].registered_events
    BY <1>8, ShutdownEffect DEF Fields, kernel_vars
  <2> QED BY <2>1, <1>0 DEF RegInv, Asked, Owned, Registered, Removed
<1>9. ASSUME Forks, NewEpoll
      PROVE  RegInv'
  <2> DEFINE registered == {state[d].descriptor : d \in live}
             owner(f) == Owner(f)
  <2>0. /\ ~shutdown /\ \A k \in Sockets : ~socket[k].closing
        /\ UNCHANGED <<socket, state, shutdown>>
        /\ \A f \in Fds : kernel'[f].open = kernel[f].open
    BY <1>9, ForkEffect DEF IInv, SameData
  <2>1. /\ epoll' = [f \in Fds |->
              IF f \in registered
              THEN [ptr |-> owner(f), events |-> state[owner(f)].registered_events]
              ELSE NoRegistration]
        /\ \A d \in live : /\ state[d].registered_events # {}
                           /\ \E k \in Sockets : Open(k) /\ socket[k].data = d
        /\ ~shutdown /\ \A k \in Sockets : ~socket[k].closing
        /\ UNCHANGED <<socket, state, shutdown>>
    BY <1>9, <2>0 DEF NewEpoll
  <2>2. \A f \in registered : owner(f) \in live /\ state[owner(f)].descriptor = f
    BY DEF Owner
  <2>3. \A k \in Sockets : Open(k) => /\ socket[k].data \in live
                                      /\ state[socket[k].data].descriptor = socket[k].fd
    BY <2>1, OpenSocket
  <2>4. \A k \in Sockets : Open(k) => socket[k].fd \in registered
    BY <2>3
  <2> HIDE DEF registered, owner
  <2>5. \A k \in Sockets : Open(k) => owner(socket[k].fd) = socket[k].data
    <3> SUFFICES ASSUME NEW k \in Sockets, Open(k) PROVE owner(socket[k].fd) = socket[k].data
      OBVIOUS
    <3>1. PICK j \in Sockets : Open(j) /\ socket[j].data = owner(socket[k].fd)
      BY <2>1, <2>2, <2>4
    <3>2. socket[j].fd = socket[k].fd
      BY <3>1, <2>2, <2>3, <2>4
    <3>3. j = k
      BY <3>1, <3>2, <1>0 DEF Distinct, Open
    <3> QED BY <3>1, <3>3
  <2>6. ASSUME NEW f \in Fds, epoll'[f].ptr # Null
        PROVE  \E k \in Sockets : Open(k) /\ socket[k].fd = f /\ socket[k].data = epoll'[f].ptr
    <3>1. f \in registered /\ epoll'[f].ptr = owner(f)
      BY <2>1, <2>6, NothingThere
    <3>2. PICK k \in Sockets : Open(k) /\ socket[k].data = owner(f)
      BY <2>1, <2>2, <3>1
    <3> QED BY <3>1, <3>2, <2>2, <2>3
  <2>7. \A f \in Fds : epoll'[f].ptr = Null => epoll'[f] = NoRegistration
    <3> SUFFICES ASSUME NEW f \in Fds, f \in registered PROVE epoll'[f].ptr # Null
      BY <2>1
    <3>1. owner(f) # Null
      <4>1. PICK k \in Sockets : Open(k) /\ socket[k].data = owner(f)
        BY <2>1, <2>2
      <4> QED BY <4>1, <1>o, <1>0
    <3> QED BY <3>1, <2>1
  <2>8. Asked'
    BY <2>1, <2>7, <1>0 DEF Asked
  <2>9. Owned'
    BY <2>0, <2>6, <1>o DEF Owned, HasOwner
  <2>10. Registered'
    <3> SUFFICES ASSUME NEW k \in Sockets, Open(k)
                 PROVE  epoll'[socket[k].fd] =
                          Registration(socket[k].data, state[socket[k].data].registered_events)
      <4>1. \A d \in States : state'[d].registered_events = state[d].registered_events
        BY <2>1
      <4> QED BY <4>1, <2>1, <1>o DEF Registered, Registration, Open
    <3>1. state[socket[k].data].registered_events # {}
      BY <2>1, <2>3
    <3> QED BY <3>1, <2>1, <2>4, <2>5, <1>o DEF Registration
  <2>11. Removed'
    BY <2>1 DEF Removed
  <2> QED BY <2>8, <2>9, <2>10, <2>11 DEF RegInv
<1>10. ASSUME \/ \E k \in Sockets : cancel_ops(k)
              \/ \E f \in Fds : Arrive(f) \/ Drain(f) \/ Urgent(f) \/ PeerCloses(f)
                                  \/ PeerResets(f)
              \/ EpollWait \/ Dispatch \/ UNCHANGED vars
              \/ \E t \in Threads : perform_io(t)
              \/ \E t \in Threads, e \in enqueued : PopDescriptor(t, e)
       PROVE  RegInv'
  BY <1>10, SameEpollStep, SameEpollKeeps
<1>11. ASSUME Forks, UNCHANGED <<epoll, ready>>
       PROVE  RegInv'
  <2>1. SameShape
    BY <1>11, SameShapeStep
  <2>2. state' = state
    BY <1>11, ForkEffect DEF IInv
  <2> QED BY <2>1, <2>2, <1>11, SameEpollKeeps
<1>12. Forks => NewEpoll \/ UNCHANGED <<epoll, ready>>
  BY ForkEffect DEF IInv
<1> QED
  BY <1>1, <1>2, <1>3, <1>4, <1>5, <1>6, <1>7, <1>8, <1>9, <1>10, <1>11, <1>12, StepCases,
     ZenonT(60)

-----------------------------------------------------------------------------
(* The queues.                                                             *)

LEMMA QueueTypes ==
  ASSUME TypeInv, NEW d \in States, NEW y \in Types
  PROVE  /\ state[d].op_queue[y] \in Seq(ReactorOps) /\ Len(state[d].op_queue[y]) \in Nat
         /\ \A i \in 1..Len(state[d].op_queue[y]) : state[d].op_queue[y][i] \in ReactorOps
         /\ state[d].op_queue[y] # <<>> <=> Len(state[d].op_queue[y]) > 0
<1>1. state[d].op_queue[y] \in Seq(ReactorOps)
  BY FieldsOfState
<1> QED BY <1>1

(* Nobody starts or stops waiting. *)
LEMMA SameQueues ==
  ASSUME IInv, \A d \in States : state'[d].op_queue = state[d].op_queue,
         \A o \in ReactorOps : result'[o] = "queued" <=> result[o] = "queued",
         \A o \in ReactorOps : result[o] = "queued" => op'[o] = op[o]
  PROVE  WaitsOnce' /\ WaitsSomewhere'
<1>1. WaitsOnce /\ WaitsSomewhere
  BY DEF IInv, QueueInv
<1>2. WaitsOnce'
  BY <1>1 DEF WaitsOnce, At
<1>3. WaitsSomewhere'
  BY <1>1 DEF WaitsSomewhere, At
<1> QED BY <1>2, <1>3

(* The first m[d][y] operations of every queue stop waiting. *)
LEMMA ShorterQueues ==
  ASSUME IInv, TypeInv', NEW m \in [States -> [Types -> Nat]], NEW done, NEW r, r # "queued",
         \A d \in States, y \in Types :
           /\ m[d][y] <= Len(state[d].op_queue[y])
           /\ Kept(state[d].op_queue[y], m[d][y], Len(state[d].op_queue[y]),
                   state'[d].op_queue[y]),
         \A o \in ReactorOps : o \in done <=>
           \E d \in States, y \in Types : \E i \in 1..m[d][y] : state[d].op_queue[y][i] = o,
         Complete(done, r), \A o \in ReactorOps : op'[o] = op[o]
  PROVE  WaitsOnce' /\ WaitsSomewhere'
<1>0. WaitsOnce /\ WaitsSomewhere /\ TypeInv
  BY DEF IInv, QueueInv
<1>1. \A o \in ReactorOps : result'[o] = IF o \in done THEN r ELSE result[o]
  BY DEF Complete
<1>2. \A d \in States, y \in Types :
        /\ Len(state[d].op_queue[y]) \in Nat /\ m[d][y] \in Nat
        /\ Len(state'[d].op_queue[y]) = Len(state[d].op_queue[y]) - m[d][y]
        /\ \A i \in 1..(Len(state[d].op_queue[y]) - m[d][y]) :
             state'[d].op_queue[y][i] = state[d].op_queue[y][m[d][y] + i]
  BY <1>0, QueueTypes DEF Kept
<1>3. ASSUME NEW o \in ReactorOps, NEW d \in States, NEW y \in Types, NEW i \in Nat,
             i \in 1..Len(state'[d].op_queue[y]), state'[d].op_queue[y][i] = o
      PROVE  m[d][y] + i \in Nat /\ At(o, d, y, m[d][y] + i) /\ m[d][y] \in Nat
  <2> DEFINE n == Len(state[d].op_queue[y])
             k == m[d][y]
  <2>1. n \in Nat /\ k \in Nat /\ i \in 1..(n - k)
    BY <1>2, <1>3
  <2>3. state[d].op_queue[y][k + i] = o
    <3>1. \A j \in 1..(n - k) : state'[d].op_queue[y][j] = state[d].op_queue[y][k + j]
      BY <1>2
    <3> HIDE DEF n, k
    <3> QED BY <3>1, <2>1, <1>3
  <2> HIDE DEF n, k
  <2>2. k + i \in 1..n /\ k + i \in Nat
    BY <2>1
  <2> QED BY <2>1, <2>2, <2>3 DEF At, n, k
<1>4. ASSUME NEW o \in ReactorOps, NEW d \in States, NEW y \in Types, NEW i \in Nat,
             At(o, d, y, i), i <= m[d][y]
      PROVE  o \in done
  <2>1. i \in 1..m[d][y] /\ state[d].op_queue[y][i] = o
    BY <1>2, <1>4 DEF At
  <2> QED BY <2>1
<1>5. ASSUME NEW o \in ReactorOps, o \in done
      PROVE  \E d \in States, y \in Types, i \in Nat : At(o, d, y, i) /\ i <= m[d][y]
  <2>1. PICK d \in States, y \in Types : \E i \in 1..m[d][y] : state[d].op_queue[y][i] = o
    BY <1>5
  <2>2. PICK i \in 1..m[d][y] : state[d].op_queue[y][i] = o
    BY <2>1
  <2>3. m[d][y] \in Nat /\ m[d][y] <= Len(state[d].op_queue[y])
        /\ Len(state[d].op_queue[y]) \in Nat
    BY <1>2
  <2>4. i \in Nat /\ i <= m[d][y] /\ At(o, d, y, i)
    BY <2>2, <2>3 DEF At
  <2> QED BY <2>4
<1>6. WaitsOnce'
  <2> SUFFICES ASSUME NEW o \in ReactorOps, NEW d \in States, NEW y \in Types, NEW i \in Nat,
                      At(o, d, y, i)'
               PROVE  /\ result'[o] = "queued"
                      /\ op'[o].kind \in Kinds /\ KindType[op'[o].kind] = y
                      /\ \A e \in States, z \in Types, j \in Nat :
                           At(o, e, z, j)' => e = d /\ z = y /\ j = i
    BY Zenon DEF WaitsOnce
  <2>0. i \in 1..Len(state'[d].op_queue[y]) /\ state'[d].op_queue[y][i] = o
    BY DEF At
  <2>1. m[d][y] + i \in Nat /\ At(o, d, y, m[d][y] + i) /\ m[d][y] \in Nat
    BY <2>0, <1>3
  <2>2. /\ result[o] = "queued" /\ op[o].kind \in Kinds /\ KindType[op[o].kind] = y
        /\ \A e \in States, z \in Types, j \in Nat :
             At(o, e, z, j) => e = d /\ z = y /\ j = m[d][y] + i
    BY <2>1, <1>0 DEF WaitsOnce
  <2>3. o \notin done
    <3> SUFFICES ASSUME o \in done PROVE FALSE
      OBVIOUS
    <3>1. PICK e \in States, z \in Types, j \in Nat : At(o, e, z, j) /\ j <= m[e][z]
      BY <1>5
    <3>2. e = d /\ z = y /\ j = m[d][y] + i
      BY <3>1, <2>2
    <3>3. i > 0
      BY <2>0, <1>2
    <3> QED BY <3>1, <3>2, <3>3, <2>1
  <2>4. ASSUME NEW e \in States, NEW z \in Types, NEW j \in Nat,
               At(o, e, z, j)'
        PROVE  e = d /\ z = y /\ j = i
    <3>0. j \in 1..Len(state'[e].op_queue[z]) /\ state'[e].op_queue[z][j] = o
      BY <2>4 DEF At
    <3>1. m[e][z] + j \in Nat /\ At(o, e, z, m[e][z] + j)
      BY <3>0, <1>3
    <3>2. e = d /\ z = y /\ m[e][z] + j = m[d][y] + i
      BY <3>1, <2>2
    <3> QED BY <3>2, <2>1
  <2> QED BY <2>2, <2>3, <2>4, <1>1
<1>7. WaitsSomewhere'
  <2> SUFFICES ASSUME NEW o \in ReactorOps, result'[o] = "queued"
               PROVE  \E d \in States, y \in Types, i \in Nat :
                        /\ i \in 1..Len(state'[d].op_queue[y])
                        /\ state'[d].op_queue[y][i] = o
    BY DEF WaitsSomewhere, At
  <2>1. o \notin done /\ result[o] = "queued"
    BY <1>1
  <2>2. PICK d \in States, y \in Types, i \in Nat : At(o, d, y, i)
    BY <2>1, <1>0 DEF WaitsSomewhere
  <2>3. ~(i <= m[d][y])
    BY <2>1, <2>2, <1>4
  <2>4. i \in 1..Len(state[d].op_queue[y]) /\ state[d].op_queue[y][i] = o
    BY <2>2 DEF At
  <2>5. /\ i - m[d][y] \in Nat /\ i - m[d][y] \in 1..(Len(state[d].op_queue[y]) - m[d][y])
        /\ m[d][y] + (i - m[d][y]) = i
    BY <2>3, <2>4, <1>2
  <2>6. /\ i - m[d][y] \in 1..Len(state'[d].op_queue[y])
        /\ state'[d].op_queue[y][i - m[d][y]] = o
    <3> DEFINE j == i - m[d][y]
    <3>1. j \in 1..(Len(state[d].op_queue[y]) - m[d][y]) /\ m[d][y] + j = i
      BY <2>5
    <3> HIDE DEF j
    <3>2. j \in 1..Len(state'[d].op_queue[y])
          /\ state'[d].op_queue[y][j] = state[d].op_queue[y][m[d][y] + j]
      BY <3>1, <1>2
    <3>3. state'[d].op_queue[y][j] = o
      BY <3>1, <3>2, <2>4
    <3> QED BY <3>2, <3>3 DEF j
  <2> QED BY <2>5, <2>6
<1> QED BY <1>6, <1>7

(* One more operation waits. *)
LEMMA LongerQueue ==
  ASSUME IInv, NEW o \in ReactorOps, NEW c \in Kinds, NEW d \in States, NEW f,
         result[o] = "fresh", result' = [result EXCEPT ![o] = "queued"],
         op' = [op EXCEPT ![o] = [kind |-> c, socket |-> f]],
         \A e \in States : e # d => state'[e] = state[e],
         state'[d].op_queue = [state[d].op_queue EXCEPT ![KindType[c]] = Append(@, o)]
  PROVE  WaitsOnce' /\ WaitsSomewhere'
<1> DEFINE y == KindType[c]
           n == Len(state[d].op_queue[y]) + 1
<1>0. WaitsOnce /\ WaitsSomewhere /\ TypeInv /\ y \in Types
  BY KindTypes DEF IInv, QueueInv
<1> HIDE DEF y
<1>1. /\ \A p \in ReactorOps : p # o => result'[p] = result[p] /\ op'[p] = op[p]
      /\ result'[o] = "queued" /\ op'[o].kind = c
  BY <1>0 DEF TypeInv, OpTypes
<1>2. /\ state'[d].op_queue[y] = Append(state[d].op_queue[y], o)
      /\ \A z \in Types : z # y => state'[d].op_queue[z] = state[d].op_queue[z]
  <2>1. state'[d].op_queue = [state[d].op_queue EXCEPT ![y] = Append(state[d].op_queue[y], o)]
    BY DEF y
  <2>2. state[d].op_queue \in [Types -> Seq(ReactorOps)]
    BY <1>0, FieldsOfState
  <2> QED BY <2>1, <2>2, <1>0
<1>3. /\ Len(state'[d].op_queue[y]) = n /\ state'[d].op_queue[y][n] = o
      /\ \A i \in 1..Len(state[d].op_queue[y]) :
           state'[d].op_queue[y][i] = state[d].op_queue[y][i]
      /\ n \in Nat
  BY <1>0, <1>2, QueueTypes
<1>4. ASSUME NEW p \in ReactorOps, NEW e \in States, NEW z \in Types, NEW i \in Nat
      PROVE  (i \in 1..Len(state'[e].op_queue[z]) /\ state'[e].op_queue[z][i] = p)
               <=> At(p, e, z, i) \/ (p = o /\ e = d /\ z = y /\ i = n)
  <2>1. CASE e = d /\ z = y
    <3> DEFINE k == Len(state[d].op_queue[y])
    <3>1. k \in Nat /\ n = k + 1
      BY <1>0, QueueTypes
    <3>2. \A j \in 1..k : state'[d].op_queue[y][j] = state[d].op_queue[y][j]
      BY <1>3
    <3>3. At(p, d, y, i) <=> i \in 1..k /\ state[d].op_queue[y][i] = p
      BY DEF At
    <3> HIDE DEF n, k
    <3>4. (i \in 1..Len(state'[d].op_queue[y]) /\ state'[d].op_queue[y][i] = p)
            <=> At(p, d, y, i) \/ (p = o /\ i = n)
      BY <3>1, <3>2, <3>3, <1>3
    <3> QED BY <3>4, <2>1
  <2>2. CASE ~(e = d /\ z = y)
    BY <2>2, <1>2 DEF At
  <2> QED BY <2>1, <2>2
<1>5. \A e \in States, z \in Types, i \in Nat : ~At(o, e, z, i)
  BY <1>0 DEF WaitsOnce
<1>6. WaitsOnce'
  <2> SUFFICES ASSUME NEW p \in ReactorOps, NEW e \in States, NEW z \in Types, NEW i \in Nat,
                      i \in 1..Len(state'[e].op_queue[z]), state'[e].op_queue[z][i] = p
               PROVE  /\ result'[p] = "queued"
                      /\ op'[p].kind \in Kinds /\ KindType[op'[p].kind] = z
                      /\ \A g \in States, x \in Types, j \in Nat :
                           j \in 1..Len(state'[g].op_queue[x]) /\ state'[g].op_queue[x][j] = p
                             => g = e /\ x = z /\ j = i
    BY DEF WaitsOnce, At
  <2>1. CASE p = o
    BY <2>1, <1>1, <1>4, <1>5 DEF y
  <2>2. CASE p # o
    <3>1. At(p, e, z, i)
      BY <2>2, <1>4
    <3> QED BY <3>1, <2>2, <1>0, <1>1, <1>4 DEF WaitsOnce
  <2> QED BY <2>1, <2>2
<1>7. WaitsSomewhere'
  <2> SUFFICES ASSUME NEW p \in ReactorOps, result'[p] = "queued"
               PROVE  \E e \in States, z \in Types, i \in Nat :
                        /\ i \in 1..Len(state'[e].op_queue[z])
                        /\ state'[e].op_queue[z][i] = p
    BY DEF WaitsSomewhere, At
  <2>1. CASE p = o
    BY <2>1, <1>0, <1>3, <1>4
  <2>2. CASE p # o
    BY <2>2, <1>0, <1>1, <1>4 DEF WaitsSomewhere
  <2> QED BY <2>1, <2>2
<1> QED BY <1>6, <1>7

LEMMA QueuedOpsIs ==
  ASSUME TypeInv, NEW d \in States, NEW o
  PROVE  o \in QueuedOps(d)
           <=> \E y \in Types : \E i \in 1..Len(state[d].op_queue[y]) : state[d].op_queue[y][i] = o
<1>1. \A y \in Types : ToSet(state[d].op_queue[y])
                        = {state[d].op_queue[y][i] : i \in 1..Len(state[d].op_queue[y])}
  BY QueueTypes DEF ToSet
<1> QED BY <1>1 DEF QueuedOps

(* Some states' queues are emptied. *)
LEMMA EmptiedQueues ==
  ASSUME IInv, TypeInv', NEW D \in SUBSET States, NEW r, r # "queued",
         \A d \in States : state'[d].op_queue = IF d \in D THEN NoOps ELSE state[d].op_queue,
         Complete(UNION {QueuedOps(d) : d \in D}, r), \A o \in ReactorOps : op'[o] = op[o]
  PROVE  WaitsOnce' /\ WaitsSomewhere'
<1> DEFINE m == [d \in States |-> [y \in Types |->
                   IF d \in D THEN Len(state[d].op_queue[y]) ELSE 0]]
           done == UNION {QueuedOps(d) : d \in D}
<1>0. TypeInv
  BY DEF IInv
<1>1. \A d \in States, y \in Types :
        /\ state[d].op_queue[y] \in Seq(ReactorOps) /\ Len(state[d].op_queue[y]) \in Nat
        /\ state'[d].op_queue[y] = IF d \in D THEN <<>> ELSE state[d].op_queue[y]
  BY <1>0, QueueTypes DEF NoOps
<1>2. \A d \in States, y \in Types :
        m[d][y] = IF d \in D THEN Len(state[d].op_queue[y]) ELSE 0
  OBVIOUS
<1>3. m \in [States -> [Types -> Nat]]
  BY <1>1
<1>4. \A o : o \in done <=> \E d \in D : o \in QueuedOps(d)
  OBVIOUS
<1>5. Complete(done, r)
  OBVIOUS
<1> HIDE DEF m, done
<1>6. ASSUME NEW d \in States, NEW y \in Types
      PROVE  /\ m[d][y] <= Len(state[d].op_queue[y])
             /\ Kept(state[d].op_queue[y], m[d][y], Len(state[d].op_queue[y]),
                     state'[d].op_queue[y])
  <2>1. CASE d \in D
    <3> DEFINE k == Len(state[d].op_queue[y])
    <3>1. k \in Nat /\ m[d][y] = k /\ state'[d].op_queue[y] = <<>>
      BY <2>1, <1>1, <1>2
    <3>2. <<>> \in Seq(ReactorOps) /\ Len(<<>>) = 0
      OBVIOUS
    <3>3. k - k = 0
      BY <3>1
    <3> HIDE DEF k
    <3>4. Kept(state[d].op_queue[y], k, k, <<>>)
      BY <3>2, <3>3 DEF Kept
    <3> QED BY <3>1, <3>4 DEF k
  <2>2. CASE d \notin D
    BY <2>2, <1>1, <1>2 DEF Kept
  <2> QED BY <2>1, <2>2
<1>7. ASSUME NEW o \in ReactorOps
      PROVE  o \in done <=>
               \E d \in States, y \in Types : \E i \in 1..m[d][y] : state[d].op_queue[y][i] = o
  <2>1. ASSUME o \in done
        PROVE  \E d \in States, y \in Types : \E i \in 1..m[d][y] : state[d].op_queue[y][i] = o
    <3>1. PICK d \in D : o \in QueuedOps(d)
      BY <2>1, <1>4
    <3>2. PICK y \in Types : \E i \in 1..Len(state[d].op_queue[y]) : state[d].op_queue[y][i] = o
      BY <3>1, <1>0, QueuedOpsIs
    <3>3. m[d][y] = Len(state[d].op_queue[y]) /\ d \in States
      BY <1>2, <3>1
    <3> QED BY <3>2, <3>3
  <2>2. ASSUME NEW d \in States, NEW y \in Types,
               \E i \in 1..m[d][y] : state[d].op_queue[y][i] = o
        PROVE  o \in done
    <3>1. d \in D /\ m[d][y] = Len(state[d].op_queue[y])
      BY <1>2, <2>2
    <3>2. o \in QueuedOps(d)
      BY <3>1, <2>2, <1>0, QueuedOpsIs
    <3> QED BY <3>1, <3>2, <1>4
  <2> QED BY <2>1, <2>2
<1> QED BY <1>3, <1>5, <1>6, <1>7, ShorterQueues

(* perform_io. *)
LEMMA PerformedQueues ==
  ASSUME IInv, TypeInv', NEW t \in Threads, perform_io(t)
  PROVE  WaitsOnce' /\ WaitsSomewhere'
<1> DEFINE d == performing[t].ptr
           start == PerformStart(t)
           s == PerformAll(start, performing[t].events)
<1>0. TypeInv
  BY DEF IInv
<1>1. PICK n : PassInv(start, performing[t].events, Types, s, n)
  BY PerformEffect
<1>2. /\ d \in States
      /\ StateStep(d, state[d].descriptor, state[d].registered_events, state[d].shutdown,
                   s.op_queue, s.spec)
      /\ Complete(s.done, "ok") /\ op' = op
  BY PerformStep
<1>3. start.op_queue = state[d].op_queue
  BY DEF PerformStart
<1> HIDE DEF s, start
<1>4. /\ n \in [Types -> Nat]
      /\ \A y \in Types :
           /\ n[y] <= Len(state[d].op_queue[y])
           /\ Kept(state[d].op_queue[y], n[y], Len(state[d].op_queue[y]), s.op_queue[y])
      /\ s.done = UNION {{state[d].op_queue[y][i] : i \in 1..n[y]} : y \in Types}
  BY <1>1, <1>3 DEF PassInv
<1> HIDE DEF d
<1> DEFINE m == [e \in States |-> IF e = d THEN n ELSE [y \in Types |-> 0]]
<1>5. m \in [States -> [Types -> Nat]] /\ m[d] = n
      /\ \A e \in States, y \in Types : e # d => m[e][y] = 0
  BY <1>2, <1>4
<1> HIDE DEF m
<1>6. ASSUME NEW e \in States, NEW y \in Types
      PROVE  /\ m[e][y] <= Len(state[e].op_queue[y])
             /\ Kept(state[e].op_queue[y], m[e][y], Len(state[e].op_queue[y]),
                     state'[e].op_queue[y])
  <2>1. CASE e = d
    BY <2>1, <1>2, <1>4, <1>5 DEF StateStep, Fields
  <2>2. CASE e # d
    <3>1. state'[e] = state[e] /\ m[e][y] = 0
      BY <2>2, <1>2, <1>5 DEF StateStep
    <3>2. state[e].op_queue[y] \in Seq(ReactorOps) /\ Len(state[e].op_queue[y]) \in Nat
      BY <1>0, QueueTypes
    <3> QED BY <3>1, <3>2 DEF Kept
  <2> QED BY <2>1, <2>2
<1>7. ASSUME NEW o \in ReactorOps
      PROVE  o \in s.done <=>
               \E e \in States, y \in Types : \E i \in 1..m[e][y] : state[e].op_queue[y][i] = o
  <2>1. o \in s.done <=> \E y \in Types : \E i \in 1..n[y] : state[d].op_queue[y][i] = o
    BY <1>4
  <2>2. ASSUME NEW e \in States, NEW y \in Types,
               \E i \in 1..m[e][y] : state[e].op_queue[y][i] = o
        PROVE  e = d
    BY <2>2, <1>5
  <2> QED BY <2>1, <2>2, <1>2, <1>5
<1>8. \A o \in ReactorOps : op'[o] = op[o]
  BY <1>2
<1> QED BY <1>2, <1>5, <1>6, <1>7, <1>8, ShorterQueues

LEMMA SameSockets ==
  ASSUME IInv, socket' = socket,
         \A d \in States, y \in Types :
           state'[d].op_queue[y] # <<>> => state[d].op_queue[y] # <<>>,
         \A d \in States : /\ state'[d].shutdown = state[d].shutdown
                           /\ state[d].registered_events \subseteq state'[d].registered_events
  PROVE  WaitsAtSocket'
<1>1. WaitsAtSocket
  BY DEF IInv, QueueInv
<1> QED BY <1>1 DEF WaitsAtSocket, Open

LEMMA QueueStep ==
  ASSUME IInv, [Next]_vars
  PROVE  QueueInv'
<1>0. /\ WaitsAtSocket /\ WaitsOnce /\ WaitsSomewhere /\ TypeInv /\ TypeInv' /\ Distinct
      /\ \A o \in ReactorOps : result[o] \in Results
      /\ op \in [ReactorOps -> [kind : Kinds \cup {Null}, socket : Fds \cup {Null}]]
      /\ result \in [ReactorOps -> Results]
  <2>1. TypeInv'
    BY TypeStep
  <2> QED BY <2>1 DEF IInv, QueueInv, TypeInv, OpTypes
<1>o. \A k \in Sockets : Open(k) => socket[k].data \in States
  BY OpenSocket
<1>s. ASSUME UNCHANGED op_vars, \A d \in States : state'[d].op_queue = state[d].op_queue
      PROVE  WaitsOnce' /\ WaitsSomewhere'
  <2>1. result' = result /\ op' = op
    BY <1>s DEF op_vars
  <2> QED BY <1>s, <2>1, SameQueues
<1>w. ASSUME NEW d \in States, NEW y \in Types, state[d].op_queue[y] # <<>>
      PROVE  /\ ~state[d].shutdown /\ Flag[y] \in state[d].registered_events
             /\ \E k \in Sockets : Open(k) /\ socket[k].data = d
  BY <1>0, <1>w DEF WaitsAtSocket
<1>1. ASSUME NEW k \in Sockets, NEW f \in Fds, NEW d \in States, NEW assigned \in BOOLEAN,
             NEW dup \in BOOLEAN, NEW events \in {{}, {"in", "pri"}}, dup => assigned,
             register_descriptor(k, f, d, assigned, dup, events)
      PROVE  QueueInv'
  <2>1. /\ socket[k].fd = Null /\ UNCHANGED op_vars
        /\ \A j \in Sockets : j # k => socket'[j] = socket[j]
    <3>1. /\ socket[k].fd = Null /\ UNCHANGED op_vars
          /\ SocketStep(k, f, d, assigned, FALSE)
      BY <1>1, RegisterEffect
    <3> QED BY <3>1 DEF SocketStep
  <2>2. RegisterDone(d, f, events)
    BY <1>1, RegisteredState
  <2>3. /\ \A e \in States : state'[e].op_queue = state[e].op_queue
        /\ \A e \in States : e # d => state'[e] = state[e]
    BY <2>2 DEF RegisterDone, StateStep, Fields
  <2>4. WaitsAtSocket'
    <3> SUFFICES ASSUME NEW e \in States, NEW y \in Types, state'[e].op_queue[y] # <<>>
                 PROVE  /\ ~state'[e].shutdown /\ Flag[y] \in state'[e].registered_events
                        /\ \E j \in Sockets : socket'[j].fd # Null /\ ~socket'[j].closing
                                                /\ socket'[j].data = e
      BY DEF WaitsAtSocket, Open
    <3>1. state[e].op_queue[y] # <<>>
      BY <2>3
    <3>2. e # d
      BY <3>1, <2>2 DEF RegisterDone, NoOps
    <3>3. PICK j \in Sockets : Open(j) /\ socket[j].data = e
      BY <3>1, <1>w
    <3>4. j # k
      BY <3>3, <2>1 DEF Open
    <3> QED BY <3>1, <3>2, <3>3, <3>4, <2>1, <2>3, <1>w DEF Open
  <2> QED BY <2>1, <2>3, <2>4, <1>s DEF QueueInv
<1>2. ASSUME NEW k \in Sockets, NEW f \in Fds, NEW d \in States, RegisterFails(k, f, d)
      PROVE  QueueInv'
  <2>1. /\ socket[k].fd = Null /\ UNCHANGED op_vars
        /\ \A j \in Sockets : j # k => socket'[j] = socket[j]
    BY <1>2, FailEffect DEF SocketStep
  <2>2. RegisterDone(d, f, {"in", "pri"})
    BY <1>2, FailedState
  <2>3. /\ \A e \in States : state'[e].op_queue = state[e].op_queue
        /\ \A e \in States : e # d => state'[e] = state[e]
    BY <2>2 DEF RegisterDone, StateStep, Fields
  <2>4. WaitsAtSocket'
    <3> SUFFICES ASSUME NEW e \in States, NEW y \in Types, state'[e].op_queue[y] # <<>>
                 PROVE  /\ ~state'[e].shutdown /\ Flag[y] \in state'[e].registered_events
                        /\ \E j \in Sockets : socket'[j].fd # Null /\ ~socket'[j].closing
                                                /\ socket'[j].data = e
      BY DEF WaitsAtSocket, Open
    <3>1. state[e].op_queue[y] # <<>>
      BY <2>3
    <3>2. e # d
      BY <3>1, <2>2 DEF RegisterDone, NoOps
    <3>3. PICK j \in Sockets : Open(j) /\ socket[j].data = e
      BY <3>1, <1>w
    <3>4. j # k
      BY <3>3, <2>1 DEF Open
    <3> QED BY <3>1, <3>2, <3>3, <3>4, <2>1, <2>3, <1>w DEF Open
  <2> QED BY <2>1, <2>3, <2>4, <1>s DEF QueueInv
<1>3. ASSUME NEW k \in Sockets, NEW o \in ReactorOps, NEW c \in Kinds, start_op(k, o, c)
      PROVE  QueueInv'
  <2> DEFINE y == KindType[c]
             d == socket[k].data
  <2>1. /\ Open(k) /\ y \in Types /\ result[o] = "fresh" /\ UNCHANGED <<socket, shutdown>>
        /\ op' = [op EXCEPT ![o] = [kind |-> c, socket |-> socket[k].fd]]
        /\ \/ Posted(k, o)
           \/ ~shutdown /\ Finished(k, o, y)
           \/ ~shutdown /\ Pushed(k, o, y)
    BY <1>3, StartEffect
  <2>2. d \in States /\ (state[d].shutdown <=> shutdown)
    BY <2>1, OpenSocket
  <2>3. ASSUME NEW r, r # "queued", result' = [result EXCEPT ![o] = r],
               \A e \in States : state'[e].op_queue = state[e].op_queue
        PROVE  WaitsOnce' /\ WaitsSomewhere'
    <3>1. \A p \in ReactorOps : result'[p] = "queued" <=> result[p] = "queued"
      BY <2>1, <2>3, <1>0
    <3>2. \A p \in ReactorOps : result[p] = "queued" => op'[p] = op[p]
      BY <2>1, <1>0
    <3> QED BY <3>1, <3>2, <2>3, SameQueues
  <2> HIDE DEF y
  <2>4. CASE Posted(k, o)
    <3>1. result' = [result EXCEPT ![o] = "posted"] /\ state' = state
      BY <2>4 DEF Posted
    <3>2. WaitsAtSocket'
      BY <3>1, <2>1, SameSockets
    <3> QED BY <3>1, <3>2, <2>3 DEF QueueInv
  <2>5. CASE Finished(k, o, y)
    <3>1. PICK spec \in BOOLEAN, r \in {"ok", "error"} :
            /\ result' = [result EXCEPT ![o] = r]
            /\ StateStep(d, state[d].descriptor, state[d].registered_events,
                         state[d].shutdown, state[d].op_queue,
                         [state[d].try_speculative EXCEPT ![y] = spec])
      BY <2>5 DEF Finished
    <3>2. \A e \in States : /\ state'[e].op_queue = state[e].op_queue
                            /\ state'[e].shutdown = state[e].shutdown
                            /\ state'[e].registered_events = state[e].registered_events
      BY <3>1 DEF StateStep, Fields
    <3>3. WaitsAtSocket'
      <4>1. \A e \in States, z \in Types :
              state'[e].op_queue[z] # <<>> => state[e].op_queue[z] # <<>>
        BY <3>2
      <4>2. \A e \in States : /\ state'[e].shutdown = state[e].shutdown
                              /\ state[e].registered_events \subseteq state'[e].registered_events
        BY <3>2
      <4>3. socket' = socket
        BY <2>1
      <4> QED BY <4>1, <4>2, <4>3, SameSockets
    <3>4. WaitsOnce' /\ WaitsSomewhere'
      <4>1. r # "queued" /\ result' = [result EXCEPT ![o] = r]
            /\ \A e \in States : state'[e].op_queue = state[e].op_queue
        BY <3>1, <3>2
      <4> QED BY <4>1, <2>3, Zenon
    <3> QED BY <3>3, <3>4 DEF QueueInv
  <2>6. CASE ~shutdown /\ Pushed(k, o, y)
    <3>1. PICK events \in SUBSET {"in", "out", "pri"} :
            /\ result' = [result EXCEPT ![o] = "queued"]
            /\ StateStep(d, state[d].descriptor, events, state[d].shutdown,
                         [state[d].op_queue EXCEPT ![y] = Append(@, o)],
                         state[d].try_speculative)
            /\ state[d].registered_events \subseteq events /\ Flag[y] \in events
      BY <2>6 DEF Pushed
    <3>2. /\ \A e \in States : e # d => state'[e] = state[e]
          /\ state'[d].op_queue = [state[d].op_queue EXCEPT ![y] = Append(@, o)]
          /\ state'[d].registered_events = events /\ state'[d].shutdown = state[d].shutdown
      BY <3>1 DEF StateStep, Fields
    <3>3. WaitsOnce' /\ WaitsSomewhere'
      <4>1. state'[d].op_queue =
              [state[d].op_queue EXCEPT ![KindType[c]] = Append(@, o)]
        BY <3>2 DEF y
      <4>2. op' = [op EXCEPT ![o] = [kind |-> c, socket |-> socket[k].fd]]
            /\ result[o] = "fresh" /\ d \in States
            /\ result' = [result EXCEPT ![o] = "queued"]
            /\ \A e \in States : e # d => state'[e] = state[e]
        BY <2>1, <2>2, <3>1, <3>2
      <4> HIDE DEF d
      <4> QED BY <4>1, <4>2, LongerQueue
    <3>4. WaitsAtSocket'
      <4> SUFFICES ASSUME NEW e \in States, NEW z \in Types, state'[e].op_queue[z] # <<>>
                   PROVE  /\ ~state'[e].shutdown /\ Flag[z] \in state'[e].registered_events
                          /\ \E j \in Sockets : Open(j) /\ socket[j].data = e
        BY <2>1 DEF WaitsAtSocket, Open
      <4>1. CASE e = d /\ z = y
        BY <4>1, <3>1, <3>2, <2>1, <2>2, <2>6
      <4>2. CASE ~(e = d /\ z = y)
        <5>1. state[e].op_queue[z] # <<>>
          <6>1. state[d].op_queue \in [Types -> Seq(ReactorOps)]
            BY <2>2, <1>0, FieldsOfState
          <6> QED BY <6>1, <4>2, <3>2
        <5> QED BY <5>1, <3>1, <3>2, <1>w
      <4> QED BY <4>1, <4>2
    <3> QED BY <3>3, <3>4 DEF QueueInv
  <2> QED BY <2>1, <2>4, <2>5, <2>6
<1>4. ASSUME NEW k \in Sockets, cancel_ops(k)
      PROVE  QueueInv'
  <2> DEFINE d == socket[k].data
  <2>1. /\ Open(k) /\ Complete(QueuedOps(d), "aborted") /\ op' = op /\ socket' = socket
        /\ StateStep(d, state[d].descriptor, state[d].registered_events, state[d].shutdown,
                     NoOps, state[d].try_speculative)
    BY <1>4, CancelEffect
  <2>2. d \in States
    BY <2>1, <1>o
  <2> HIDE DEF d
  <2>3. /\ \A e \in States : e # d => state'[e] = state[e]
        /\ state'[d].op_queue = NoOps
        /\ state'[d].registered_events = state[d].registered_events
        /\ state'[d].shutdown = state[d].shutdown
    BY <2>1 DEF StateStep, Fields
  <2>4. WaitsOnce' /\ WaitsSomewhere'
    <3>1. {d} \in SUBSET States /\ UNION {QueuedOps(e) : e \in {d}} = QueuedOps(d)
      BY <2>2
    <3>2. Complete(UNION {QueuedOps(e) : e \in {d}}, "aborted")
      BY <3>1, <2>1
    <3>3. \A e \in States : state'[e].op_queue = IF e \in {d} THEN NoOps ELSE state[e].op_queue
      BY <2>3
    <3>4. \A o \in ReactorOps : op'[o] = op[o]
      BY <2>1
    <3> QED BY <3>1, <3>2, <3>3, <3>4, <1>0, EmptiedQueues
  <2>5. WaitsAtSocket'
    <3>1. \A e \in States, y \in Types :
            state'[e].op_queue[y] # <<>> => state[e].op_queue[y] # <<>>
      BY <2>3 DEF NoOps
    <3>2. \A e \in States : /\ state'[e].shutdown = state[e].shutdown
                            /\ state[e].registered_events \subseteq state'[e].registered_events
      BY <2>3
    <3> QED BY <3>1, <3>2, <2>1, SameSockets
  <2> QED BY <2>4, <2>5 DEF QueueInv
<1>5. ASSUME NEW k \in Sockets, NEW how \in {"close", "release"},
             deregister_descriptor(k, how)
      PROVE  QueueInv'
  <2> DEFINE d == socket[k].data
             f == socket[k].fd
  <2>1. /\ Open(k) /\ op' = op
        /\ ~shutdown =>
             /\ SocketStep(k, f, d, socket[k].dup, TRUE)
             /\ StateStep(d, Null, state[d].registered_events, TRUE, NoOps,
                          state[d].try_speculative)
             /\ Complete(QueuedOps(d), "aborted")
        /\ shutdown =>
             /\ SocketStep(k, f, Null, socket[k].dup, TRUE)
             /\ state' = state /\ result' = result
    BY <1>5, DeregisterEffect
  <2>2. d \in States /\ (state[d].shutdown <=> shutdown)
    BY <2>1, OpenSocket
  <2>3. socket[k].data = d
    OBVIOUS
  <2> HIDE DEF d, f
  <2>4. \A j \in Sockets : j # k => socket'[j] = socket[j]
    BY <2>1 DEF SocketStep
  <2>5. CASE shutdown
    <3>1. state' = state /\ UNCHANGED op_vars
      BY <2>1, <2>5 DEF op_vars
    <3>2. WaitsAtSocket'
      <4> SUFFICES ASSUME NEW e \in States, NEW y \in Types, state[e].op_queue[y] # <<>>
                   PROVE  /\ ~state[e].shutdown /\ Flag[y] \in state[e].registered_events
                          /\ \E j \in Sockets : socket'[j].fd # Null /\ ~socket'[j].closing
                                                  /\ socket'[j].data = e
        BY <3>1 DEF WaitsAtSocket, Open
      <4>1. PICK j \in Sockets : Open(j) /\ socket[j].data = e
        BY <1>w
      <4>2. e # d
        BY <2>2, <2>5, <1>w
      <4>3. j # k
        BY <2>3, <4>1, <4>2
      <4> QED BY <4>1, <4>3, <2>4, <1>w DEF Open
    <3>3. WaitsOnce' /\ WaitsSomewhere'
      BY <3>1, <1>s
    <3> QED BY <3>2, <3>3 DEF QueueInv
  <2>6. CASE ~shutdown
    <3>1. /\ Complete(QueuedOps(d), "aborted")
          /\ \A e \in States : e # d => state'[e] = state[e]
          /\ state'[d].op_queue = NoOps
      BY <2>1, <2>6 DEF StateStep, Fields
    <3>2. WaitsOnce' /\ WaitsSomewhere'
      <4>1. {d} \in SUBSET States /\ UNION {QueuedOps(e) : e \in {d}} = QueuedOps(d)
        BY <2>2
      <4>2. Complete(UNION {QueuedOps(e) : e \in {d}}, "aborted")
        BY <4>1, <3>1
      <4>3. \A e \in States : state'[e].op_queue = IF e \in {d} THEN NoOps ELSE state[e].op_queue
        BY <3>1
      <4>4. \A o \in ReactorOps : op'[o] = op[o]
        BY <2>1
      <4> QED BY <4>1, <4>2, <4>3, <4>4, <1>0, EmptiedQueues
    <3>3. WaitsAtSocket'
      <4> SUFFICES ASSUME NEW e \in States, NEW y \in Types, state'[e].op_queue[y] # <<>>
                   PROVE  /\ ~state'[e].shutdown /\ Flag[y] \in state'[e].registered_events
                          /\ \E j \in Sockets : socket'[j].fd # Null /\ ~socket'[j].closing
                                                  /\ socket'[j].data = e
        BY DEF WaitsAtSocket, Open
      <4>1. e # d /\ state'[e] = state[e]
        BY <3>1 DEF NoOps
      <4>2. PICK j \in Sockets : Open(j) /\ socket[j].data = e
        BY <4>1, <1>w
      <4>3. j # k
        BY <2>3, <4>1, <4>2
      <4> QED BY <4>1, <4>2, <4>3, <2>4, <1>w DEF Open
    <3> QED BY <3>2, <3>3 DEF QueueInv
  <2> QED BY <2>5, <2>6
<1>6. ASSUME NEW k \in Sockets, FinishClose(k)
      PROVE  QueueInv'
  <2>1. /\ socket[k].closing /\ state' = state /\ UNCHANGED op_vars
        /\ \A j \in Sockets : j # k => socket'[j] = socket[j]
    BY <1>6, FinishEffect DEF SocketStep
  <2>2. WaitsAtSocket'
    <3> SUFFICES ASSUME NEW e \in States, NEW y \in Types, state[e].op_queue[y] # <<>>
                 PROVE  /\ ~state[e].shutdown /\ Flag[y] \in state[e].registered_events
                        /\ \E j \in Sockets : socket'[j].fd # Null /\ ~socket'[j].closing
                                                /\ socket'[j].data = e
      BY <2>1 DEF WaitsAtSocket, Open
    <3>1. PICK j \in Sockets : Open(j) /\ socket[j].data = e
      BY <1>w
    <3>2. j # k
      BY <3>1, <2>1 DEF Open
    <3> QED BY <3>1, <3>2, <2>1, <1>w DEF Open
  <2> QED BY <2>1, <2>2, <1>s DEF QueueInv
<1>7. ASSUME NEW k \in Sockets, NEW other \in Sockets \ {k}, move_descriptor(k, other)
      PROVE  QueueInv'
  <2>1. /\ Open(other) /\ socket[k] = Closed /\ socket'[k] = socket[other]
        /\ \A j \in Sockets : j \notin {k, other} => socket'[j] = socket[j]
        /\ state' = state /\ UNCHANGED op_vars
    BY <1>7, MoveEffect
  <2>2. WaitsAtSocket'
    <3> SUFFICES ASSUME NEW e \in States, NEW y \in Types, state[e].op_queue[y] # <<>>
                 PROVE  /\ ~state[e].shutdown /\ Flag[y] \in state[e].registered_events
                        /\ \E j \in Sockets : socket'[j].fd # Null /\ ~socket'[j].closing
                                                /\ socket'[j].data = e
      BY <2>1 DEF WaitsAtSocket, Open
    <3>1. PICK j \in Sockets : Open(j) /\ socket[j].data = e
      BY <1>w
    <3>2. j # k
      BY <3>1, <2>1, NothingThere DEF Open
    <3>3. CASE j = other
      BY <3>1, <3>3, <2>1, <1>w DEF Open
    <3>4. CASE j # other
      BY <3>1, <3>2, <3>4, <2>1, <1>w DEF Open
    <3> QED BY <3>3, <3>4
  <2> QED BY <2>1, <2>2, <1>s DEF QueueInv
<1>8. ASSUME Shutdown
      PROVE  QueueInv'
  <2>1. /\ ~shutdown /\ op' = op
        /\ \A d \in States : IF d \in live THEN state'[d].op_queue = NoOps
                             ELSE state'[d] = state[d]
        /\ Complete(UNION {QueuedOps(d) : d \in live}, "destroyed")
    BY <1>8, ShutdownEffect DEF Fields
  <2>2. \A k \in Sockets : Open(k) => socket[k].data \in live
    BY <2>1, OpenSocket
  <2>3. \A d \in States, y \in Types : state[d].op_queue[y] # <<>> => d \in live
    BY <2>2, <1>w
  <2>4. WaitsAtSocket'
    BY <2>1, <2>3 DEF WaitsAtSocket, NoOps
  <2>5. live \in SUBSET States
    BY <1>0 DEF TypeInv, StateTypes
  <2>6. \A d \in States : state'[d].op_queue = IF d \in live THEN NoOps ELSE state[d].op_queue
    BY <2>1
  <2>7. \A o \in ReactorOps : op'[o] = op[o]
    BY <2>1
  <2>8. WaitsOnce' /\ WaitsSomewhere'
    BY <2>1, <2>5, <2>6, <2>7, <1>0, EmptiedQueues
  <2> QED BY <2>4, <2>8 DEF QueueInv
<1>9. ASSUME NEW t \in Threads, perform_io(t)
      PROVE  QueueInv'
  <2> DEFINE d == performing[t].ptr
             s == PerformAll(PerformStart(t), performing[t].events)
  <2>1. /\ d \in States /\ socket' = socket
        /\ StateStep(d, state[d].descriptor, state[d].registered_events, state[d].shutdown,
                     s.op_queue, s.spec)
    BY <1>9, PerformStep
  <2>2. PICK n : PassInv(PerformStart(t), performing[t].events, Types, s, n)
    BY <1>9, PerformEffect
  <2>3. PerformStart(t).op_queue = state[d].op_queue
    BY DEF PerformStart
  <2> HIDE DEF s
  <2>4. ASSUME NEW y \in Types, s.op_queue[y] # <<>> PROVE state[d].op_queue[y] # <<>>
    <3> DEFINE q == state[d].op_queue[y]
    <3>1. n[y] \in Nat /\ n[y] <= Len(q) /\ Kept(q, n[y], Len(q), s.op_queue[y])
      BY <2>2, <2>3 DEF PassInv
    <3>2. Len(s.op_queue[y]) = Len(q) - n[y] /\ s.op_queue[y] \in Seq(ReactorOps)
      BY <3>1 DEF Kept
    <3>3. Len(s.op_queue[y]) > 0
      BY <3>2, <2>4
    <3>4. Len(q) \in Nat /\ (q # <<>> <=> Len(q) > 0)
      BY <2>1, <1>0, QueueTypes
    <3> HIDE DEF q
    <3>5. q # <<>>
      BY <3>1, <3>2, <3>3, <3>4
    <3> QED BY <3>5 DEF q
  <2> HIDE DEF d
  <2>5. /\ \A e \in States, y \in Types :
             state'[e].op_queue[y] # <<>> => state[e].op_queue[y] # <<>>
        /\ \A e \in States : /\ state'[e].shutdown = state[e].shutdown
                             /\ state[e].registered_events \subseteq state'[e].registered_events
    BY <2>1, <2>4 DEF StateStep, Fields
  <2>6. WaitsAtSocket'
    BY <2>1, <2>5, SameSockets
  <2> QED BY <2>6, <1>0, <1>9, PerformedQueues DEF QueueInv
<1>10. ASSUME UNCHANGED <<socket, state, op_vars>>
       PROVE  QueueInv'
  BY <1>10, <1>s, SameSockets DEF QueueInv
<1>11. ASSUME \/ \E f \in Fds : HandleCloses(f)
              \/ \E f \in Fds : Arrive(f) \/ Drain(f) \/ Urgent(f) \/ PeerCloses(f)
                                  \/ PeerResets(f)
              \/ \E t \in Threads, e \in enqueued : PopDescriptor(t, e)
              \/ EpollWait \/ Dispatch \/ Forks \/ UNCHANGED vars
       PROVE  UNCHANGED <<socket, state, op_vars>>
  <2>1. ASSUME NEW f \in Fds,
               Arrive(f) \/ Drain(f) \/ Urgent(f) \/ PeerCloses(f) \/ PeerResets(f)
        PROVE  UNCHANGED <<socket, state, op_vars>>
    <3>1. PICK file \in FileType, event \in AllEvents : KernelEvent(f, file, event)
      BY <1>0, <2>1, KernelEffect
    <3> QED BY <3>1 DEF KernelEvent
  <2>2. ASSUME NEW f \in Fds, HandleCloses(f) PROVE UNCHANGED <<socket, state, op_vars>>
    BY <1>0, <2>2, LeaveEffect
  <2>3. ASSUME NEW t \in Threads, NEW e \in enqueued, PopDescriptor(t, e)
        PROVE  UNCHANGED <<socket, state, op_vars>>
    BY <2>3 DEF PopDescriptor
  <2>4. EpollWait \/ Dispatch \/ Forks \/ UNCHANGED vars
          => UNCHANGED <<socket, state, op_vars>>
    BY <1>0, ForkEffect DEF EpollWait, Dispatch, vars
  <2> QED BY <1>11, <2>1, <2>2, <2>3, <2>4
<1>12. ASSUME \/ \E f \in Fds : HandleCloses(f)
              \/ \E f \in Fds : Arrive(f) \/ Drain(f) \/ Urgent(f) \/ PeerCloses(f)
                                  \/ PeerResets(f)
              \/ \E t \in Threads, e \in enqueued : PopDescriptor(t, e)
              \/ EpollWait \/ Dispatch \/ Forks \/ UNCHANGED vars
       PROVE  QueueInv'
  BY <1>10, <1>11, <1>12
<1> QED
  BY <1>1, <1>2, <1>3, <1>4, <1>5, <1>6, <1>7, <1>8, <1>9, <1>12, StepCases, Zenon

-----------------------------------------------------------------------------
(* Readiness.                                                              *)

(* What epoll was asked for on behalf of those who depend on it. *)
LEMMA DependsAsked ==
  ASSUME IInv, NEW k \in Sockets, NEW y \in Types, Open(k), Depends(state[socket[k].data], y)
  PROVE  /\ ~shutdown /\ socket[k].fd \in Fds /\ socket[k].data \in States
         /\ Flag[y] \in state[socket[k].data].registered_events
         /\ state[socket[k].data].descriptor = socket[k].fd /\ socket[k].data \in live
         /\ epoll[socket[k].fd].ptr = socket[k].data /\ epoll[socket[k].fd].ptr # Null
         /\ epoll[socket[k].fd].events = state[socket[k].data].registered_events
<1>1. /\ socket[k].data \in States /\ socket[k].fd \in Fds
      /\ ~shutdown
      /\ state[socket[k].data].descriptor = socket[k].fd /\ socket[k].data \in live
  BY OpenSocket DEF Depends
<1>2. Flag[y] \in state[socket[k].data].registered_events
  BY <1>1 DEF Depends, IInv, QueueInv, WaitsAtSocket
<1>3. epoll[socket[k].fd] =
        Registration(socket[k].data, state[socket[k].data].registered_events)
  BY <1>1 DEF IInv, RegInv, Registered
<1> QED BY <1>1, <1>2, <1>3, EpollReactorAssumption DEF Registration

(* What ReadyInv says of a socket after a step. *)
ReportsTo(j, d, f, y) ==
  socket[j].fd = f /\ socket[j].data = d /\ ~socket[j].closing /\ Depends(state[d], y)
    /\ ~Quiet(y, kernel[f]) => f \in ready \/ OnTheWay(d, y)

AllReport ==
  \A j \in Sockets, d \in States, f \in Fds, y \in Types : ReportsTo(j, d, f, y)

LEMMA ReportsNext ==
  ASSUME TypeInv', SocketShape', AllReport'
  PROVE  Reports'
<1> SUFFICES ASSUME NEW j \in Sockets, NEW y \in Types, Open(j)',
                    Depends(state'[socket'[j].data], y), ~Quiet(y, kernel'[socket'[j].fd])
             PROVE  Coming(j, y)'
  BY DEF Reports
<1>1. PICK d \in States : socket'[j].data = d
  BY DEF SocketShape, TypeInv, SocketTypes
<1>2. PICK f \in Fds : socket'[j].fd = f
  BY DEF Open, TypeInv, SocketTypes
<1>3. f \in ready' \/ OnTheWay(d, y)'
  <2>1. ReportsTo(j, d, f, y)'
    BY DEF AllReport
  <2> QED BY <1>1, <1>2, <2>1 DEF ReportsTo, Open
<1> QED BY <1>1, <1>2, <1>3 DEF Coming, OnTheWay

LEMMA ReportsNow ==
  ASSUME IInv, NEW j \in Sockets, NEW y \in Types, Open(j),
         Depends(state[socket[j].data], y), ~Quiet(y, kernel[socket[j].fd])
  PROVE  socket[j].fd \in ready \/ OnTheWay(socket[j].data, y)
  BY DEF IInv, ReadyInv, Reports, Coming

(* Nothing happens to socket i and what it points to, whether it is now     *)
(* socket i or has moved to j.                                              *)
LEMMA ReportsKept ==
  ASSUME IInv, NEW i \in Sockets, NEW j \in Sockets, NEW d \in States, NEW f \in Fds,
         NEW y \in Types, UNCHANGED event_vars,
         socket'[j].fd = socket[i].fd, socket'[j].data = socket[i].data,
         socket'[j].closing = socket[i].closing,
         socket[i].data = d /\ Depends(state'[d], y) => Depends(state[d], y),
         socket[i].fd = f /\ ~Quiet(y, kernel'[f]) => ~Quiet(y, kernel[f]),
         socket[i].fd = f /\ f \in ready => f \in ready'
  PROVE  ReportsTo(j, d, f, y)'
<1> SUFFICES ASSUME socket'[j].fd = f, socket'[j].data = d, ~socket'[j].closing,
                    Depends(state'[d], y), ~Quiet(y, kernel'[f])
             PROVE  f \in ready' \/ OnTheWay(d, y)'
  BY DEF ReportsTo
<1>1. Open(i) /\ Depends(state[d], y) /\ ~Quiet(y, kernel[f])
  BY EpollReactorAssumption DEF Open
<1>2. f \in ready \/ OnTheWay(d, y)
  BY <1>1, ReportsNow
<1> QED BY <1>2 DEF OnTheWay, event_vars

LEMMA RegisterReports ==
  ASSUME IInv, NEW k \in Sockets, NEW f \in Fds, NEW d \in States, NEW assigned \in BOOLEAN,
         NEW dup \in BOOLEAN, NEW events \in {{}, {"in", "pri"}}, dup => assigned,
         register_descriptor(k, f, d, assigned, dup, events)
  PROVE  AllReport'
<1>1. /\ ~kernel[f].open /\ SocketStep(k, f, d, assigned, FALSE) /\ FileStep(f, TRUE, dup, FALSE)
      /\ IF events = {} THEN UNCHANGED <<epoll, ready>> ELSE Register(f, NoFile, d, events)
      /\ UNCHANGED event_vars
  BY RegisterEffect
<1>2. /\ \A e \in States : e # d => state'[e] = state[e]
      /\ state'[d].op_queue = NoOps /\ state'[d].try_speculative = [y \in Types |-> TRUE]
      /\ \A j \in Sockets : socket[j].data # d
  <2>1. RegisterDone(d, f, events)
    BY RegisteredState
  <2> QED BY <2>1 DEF RegisterDone, StateStep, Fields
<1>3. ready \subseteq ready'
  BY <1>1 DEF Register
<1>4. \A g \in Fds : g # f => kernel'[g] = kernel[g]
  BY <1>1 DEF FileStep
<1> SUFFICES ASSUME NEW j \in Sockets, NEW e \in States, NEW g \in Fds, NEW y \in Types
             PROVE  ReportsTo(j, e, g, y)'
  BY DEF AllReport
<1>5. CASE j = k
  <2>1. socket'[j].data = d /\ ~Depends(state'[d], y)
    BY <1>1, <1>2, <1>5 DEF SocketStep, Depends, NoOps
  <2> QED BY <2>1 DEF ReportsTo
<1>6. CASE j # k
  <2>1. socket'[j] = socket[j]
    BY <1>1, <1>6 DEF SocketStep
  <2>2. socket[j].data = e => state'[e] = state[e]
    BY <1>2
  <2>3. socket[j].fd = g => kernel'[g] = kernel[g]
    <3>1. socket[j].fd = g => kernel[g].open
      BY EpollReactorAssumption DEF IInv, SocketShape
    <3> QED BY <3>1, <1>1, <1>4
  <2> QED BY <2>1, <2>2, <2>3, <1>1, <1>3, ReportsKept
<1> QED BY <1>5, <1>6

LEMMA FailReports ==
  ASSUME IInv, NEW k \in Sockets, NEW f \in Fds, NEW d \in States, RegisterFails(k, f, d)
  PROVE  AllReport'
<1>1. /\ SocketStep(k, Null, d, socket[k].dup, socket[k].closing)
      /\ UNCHANGED event_vars /\ kernel' = kernel /\ ready' = ready
  BY FailEffect DEF kernel_vars
<1>2. /\ \A e \in States : e # d => state'[e] = state[e]
      /\ \A j \in Sockets : socket[j].data # d
  <2>1. RegisterDone(d, f, {"in", "pri"})
    BY FailedState
  <2> QED BY <2>1 DEF RegisterDone, StateStep
<1> SUFFICES ASSUME NEW j \in Sockets, NEW e \in States, NEW g \in Fds, NEW y \in Types
             PROVE  ReportsTo(j, e, g, y)'
  BY DEF AllReport
<1>3. CASE j = k
  <2>1. socket'[j].fd # g
    BY <1>1, <1>3, EpollReactorAssumption DEF SocketStep
  <2> QED BY <2>1 DEF ReportsTo
<1>4. CASE j # k
  <2>1. socket'[j] = socket[j]
    BY <1>1, <1>4 DEF SocketStep
  <2>2. socket[j].data = e => state'[e] = state[e]
    BY <1>2
  <2> QED BY <2>1, <2>2, <1>1, ReportsKept
<1> QED BY <1>3, <1>4

(* The sockets other than k when a call on k changes its file and state.    *)
LEMMA OthersReport ==
  ASSUME IInv, NEW k \in Sockets, Open(k), UNCHANGED event_vars,
         \A j \in Sockets : j # k => socket'[j] = socket[j],
         \A e \in States : e # socket[k].data => state'[e] = state[e],
         \A g \in Fds : g # socket[k].fd => kernel'[g] = kernel[g],
         \A g \in ready : g # socket[k].fd => g \in ready',
         NEW j \in Sockets \ {k}, NEW e \in States, NEW g \in Fds, NEW y \in Types
  PROVE  ReportsTo(j, e, g, y)'
<1>1. socket[j].data = e => e # socket[k].data
  BY EpollReactorAssumption DEF IInv, Distinct
<1>2. socket[j].fd = g => g # socket[k].fd
  BY EpollReactorAssumption DEF IInv, Distinct
<1> QED BY <1>1, <1>2, ReportsKept

LEMMA StartReports ==
  ASSUME IInv, NEW k \in Sockets, NEW o \in ReactorOps, NEW c \in Kinds, start_op(k, o, c)
  PROVE  AllReport'
<1> DEFINE y == KindType[c]
           d == socket[k].data
           f == socket[k].fd
<1>1. /\ Open(k) /\ y \in Types /\ socket' = socket /\ UNCHANGED event_vars
      /\ \/ Posted(k, o)
         \/ ~shutdown /\ Finished(k, o, y)
         \/ ~shutdown /\ Pushed(k, o, y)
  BY StartEffect
<1>2. /\ d \in States /\ f \in Fds /\ kernel[f] \in FileType
      /\ kernel \in [Fds -> FileType] /\ TypeInv
  BY <1>1, OpenSocket DEF IInv, TypeInv, KernelTypes
<1> HIDE DEF y
<1> SUFFICES ASSUME NEW j \in Sockets, NEW e \in States, NEW g \in Fds, NEW z \in Types
             PROVE  ReportsTo(j, e, g, z)'
  BY DEF AllReport
<1>3. CASE Posted(k, o)
  <2>1. state' = state /\ kernel' = kernel /\ ready' = ready
    BY <1>3 DEF Posted, kernel_vars
  <2> QED BY <2>1, <1>1, ReportsKept
<1>4. CASE Finished(k, o, y)
  <2>1. PICK file \in FileType, spec \in BOOLEAN :
          /\ kernel' = [kernel EXCEPT ![f] = file] /\ UNCHANGED <<epoll, ready>>
          /\ StateStep(d, state[d].descriptor, state[d].registered_events, state[d].shutdown,
                       state[d].op_queue, [state[d].try_speculative EXCEPT ![y] = spec])
          /\ Weaker(kernel[f], file)
          /\ spec = state[d].try_speculative[y] \/ Quiet(y, file)
    BY <1>4 DEF Finished
  <2>2. /\ \A x \in States : x # d => state'[x] = state[x]
        /\ state'[d].registered_events = state[d].registered_events
        /\ state'[d].shutdown = state[d].shutdown /\ state'[d].op_queue = state[d].op_queue
        /\ state'[d].try_speculative = [state[d].try_speculative EXCEPT ![y] = spec]
    BY <2>1 DEF StateStep, Fields
  <2>3. kernel'[f] = file /\ \A x \in Fds : x # f => kernel'[x] = kernel[x]
    BY <2>1, <1>2
  <2>4. CASE j # k
    <3>1. \A i \in Sockets : i # k => socket'[i] = socket[i]
      BY <1>1
    <3> QED BY <2>1, <2>2, <2>3, <2>4, <3>1, <1>1, OthersReport
  <2>5. CASE j = k
    <3>1. ~Quiet(z, file) => ~Quiet(z, kernel[f])
      BY <2>1, QuietWeaker
    <3>2. ~Quiet(z, file) /\ Depends(state'[d], z) => Depends(state[d], z)
      <4>1. state[d].try_speculative \in [Types -> BOOLEAN]
        BY <1>2, FieldsOfState
      <4> QED BY <4>1, <2>1, <2>2 DEF Depends
    <3>3. CASE Quiet(z, file)
      BY <2>3, <2>5, <3>3, <1>1 DEF ReportsTo
    <3>4. CASE ~Quiet(z, file)
      <4>1. socket[j].data = e /\ Depends(state'[e], z) => Depends(state[e], z)
        BY <2>5, <3>2, <3>4
      <4>2. socket[j].fd = g /\ ~Quiet(z, kernel'[g]) => ~Quiet(z, kernel[g])
        BY <2>3, <2>5, <3>1
      <4> QED BY <4>1, <4>2, <1>1, <2>1, ReportsKept
    <3> QED BY <3>3, <3>4
  <2> QED BY <2>4, <2>5
<1>5. CASE Pushed(k, o, y)
  <2>1. PICK events \in SUBSET {"in", "out", "pri"} :
          /\ kernel' = kernel
          /\ StateStep(d, state[d].descriptor, events, state[d].shutdown,
                       [state[d].op_queue EXCEPT ![y] = Append(@, o)],
                       state[d].try_speculative)
          /\ state[d].registered_events \subseteq events /\ Flag[y] \in events
          /\ events \subseteq state[d].registered_events \cup {Flag[y]}
          /\ \/ Register(f, kernel[f], d, events)
             \/ /\ UNCHANGED <<epoll, ready>> /\ events = state[d].registered_events
                /\ \/ state[d].op_queue[y] # <<>> \/ Quiet(y, kernel[f])
                   \/ ~state[d].try_speculative[y]
    BY <1>5, Zenon DEF Pushed
  <2>2. /\ \A x \in States : x # d => state'[x] = state[x]
        /\ state'[d].registered_events = events
        /\ state'[d].shutdown = state[d].shutdown
        /\ state'[d].op_queue = [state[d].op_queue EXCEPT ![y] = Append(@, o)]
        /\ state'[d].try_speculative = state[d].try_speculative
    BY <2>1 DEF StateStep, Fields
  <2>3. ready \subseteq ready'
    BY <2>1 DEF Register
  <2>4. CASE j # k
    <3>1. \A i \in Sockets : i # k => socket'[i] = socket[i]
      BY <1>1
    <3> QED BY <2>1, <2>2, <2>3, <2>4, <3>1, <1>1, OthersReport
  <2>5. CASE j = k /\ z # y
    <3>1. Flag[z] \in events => Flag[z] \in state[d].registered_events
      BY <2>1, <2>5, <1>1 DEF Flag, Types
    <3>2. Depends(state'[d], z) => Depends(state[d], z)
      <4>1. state[d].op_queue \in [Types -> Seq(ReactorOps)]
        BY <1>2, FieldsOfState
      <4> QED BY <4>1, <2>2, <2>5, <3>1 DEF Depends
    <3> QED BY <2>1, <2>3, <2>5, <3>2, <1>1, ReportsKept
  <2>6. CASE j = k /\ z = y
    <3>1. CASE Register(f, kernel[f], d, events)
      <4>1. ~Quiet(y, kernel[f]) => f \in ready'
        <5>1. ~Quiet(y, kernel[f]) => Mask(kernel[f]) \cap {Flag[y], "hup"} # {}
          BY DEF Quiet, ReadyFor
        <5> QED BY <5>1, <2>1, <3>1 DEF Register
      <4> QED BY <4>1, <2>1, <2>6, <1>1 DEF ReportsTo
    <3>2. CASE Quiet(y, kernel[f])
      BY <3>2, <2>1, <2>6, <1>1 DEF ReportsTo
    <3>3. CASE ~Register(f, kernel[f], d, events) /\ ~Quiet(y, kernel[f])
      <4>1. /\ events = state[d].registered_events /\ Flag[y] \in events
            /\ state[d].op_queue[y] # <<>> \/ ~state[d].try_speculative[y]
        BY <2>1, <3>3
      <4>2. Depends(state'[d], y) => Depends(state[d], y)
        <5>1. state'[d].shutdown = state[d].shutdown
          BY <2>2
        <5> QED BY <4>1, <5>1 DEF Depends
      <4> QED BY <4>2, <2>1, <2>3, <2>6, <1>1, ReportsKept
    <3> QED BY <3>1, <3>2, <3>3
  <2> QED BY <2>4, <2>5, <2>6
<1> QED BY <1>1, <1>3, <1>4, <1>5

LEMMA CancelReports ==
  ASSUME IInv, NEW k \in Sockets, cancel_ops(k)
  PROVE  AllReport'
<1> DEFINE d == socket[k].data
<1>1. /\ UNCHANGED <<socket, event_vars>> /\ kernel' = kernel /\ ready' = ready
      /\ StateStep(d, state[d].descriptor, state[d].registered_events, state[d].shutdown,
                   NoOps, state[d].try_speculative)
  BY CancelEffect DEF kernel_vars
<1>2. ASSUME NEW e \in States, NEW y \in Types, Depends(state'[e], y)
      PROVE  Depends(state[e], y)
  BY <1>1, <1>2 DEF StateStep, Fields, Depends, NoOps
<1> QED BY <1>1, <1>2, ReportsKept DEF AllReport

LEMMA DeregisterReports ==
  ASSUME IInv, NEW k \in Sockets, NEW how \in {"close", "release"},
         deregister_descriptor(k, how)
  PROVE  AllReport'
<1> DEFINE d == socket[k].data
           f == socket[k].fd
<1>1. /\ Open(k) /\ UNCHANGED event_vars
      /\ FileStep(f, kernel[f].open, kernel[f].dup \/ how = "release", kernel[f].forked)
      /\ SocketStep(k, f, d, socket[k].dup, TRUE) \/ SocketStep(k, f, Null, socket[k].dup, TRUE)
      /\ \A e \in States : e # d => state'[e] = state[e]
      /\ ready' = ready \/ Unregister(f)
  BY DeregisterEffect DEF StateStep
<1> HIDE DEF d, f
<1>2. socket'[k].closing /\ \A j \in Sockets : j # k => socket'[j] = socket[j]
  BY <1>1 DEF SocketStep
<1>3. \A g \in Fds : g # f => kernel'[g] = kernel[g]
  BY <1>1 DEF FileStep
<1>4. \A g \in ready : g # f => g \in ready'
  BY <1>1 DEF Unregister
<1> SUFFICES ASSUME NEW j \in Sockets, NEW e \in States, NEW g \in Fds, NEW y \in Types
             PROVE  ReportsTo(j, e, g, y)'
  BY DEF AllReport
<1>5. CASE j = k
  BY <1>2, <1>5 DEF ReportsTo
<1>6. CASE j # k
  BY <1>1, <1>2, <1>3, <1>4, <1>6, OthersReport DEF d, f
<1> QED BY <1>5, <1>6

LEMMA FinishReports ==
  ASSUME IInv, NEW k \in Sockets, FinishClose(k)
  PROVE  AllReport'
<1> DEFINE f == socket[k].fd
<1>1. /\ f \in Fds /\ SocketStep(k, Null, Null, FALSE, FALSE)
      /\ state' = state /\ UNCHANGED event_vars
      /\ \/ kernel' = kernel /\ ready' = ready
         \/ kernel' = [kernel EXCEPT ![f] = NoFile] /\ ready' = ready \ {f}
  BY FinishEffect DEF Unregister, kernel_vars
<1>2. /\ \A g \in Fds : g # f => kernel'[g] = kernel[g] /\ (g \in ready => g \in ready')
      /\ socket'[k].fd = Null /\ \A j \in Sockets : j # k => socket'[j] = socket[j]
  BY <1>1 DEF SocketStep, IInv, TypeInv, KernelTypes
<1> SUFFICES ASSUME NEW j \in Sockets, NEW e \in States, NEW g \in Fds, NEW y \in Types
             PROVE  ReportsTo(j, e, g, y)'
  BY DEF AllReport
<1>3. CASE j = k
  BY <1>2, <1>3, EpollReactorAssumption DEF ReportsTo
<1>4. CASE j # k
  <2>1. socket[j].fd = g => g # f
    BY <1>4, EpollReactorAssumption DEF IInv, Distinct
  <2> QED BY <2>1, <1>1, <1>2, <1>4, ReportsKept
<1> QED BY <1>3, <1>4

LEMMA MoveReports ==
  ASSUME IInv, NEW k \in Sockets, NEW other \in Sockets \ {k}, move_descriptor(k, other)
  PROVE  AllReport'
<1>1. /\ socket'[k] = socket[other] /\ socket'[other] = Closed
      /\ \A j \in Sockets : j \notin {k, other} => socket'[j] = socket[j]
      /\ state' = state /\ UNCHANGED event_vars /\ kernel' = kernel /\ ready' = ready
  BY MoveEffect DEF kernel_vars
<1> SUFFICES ASSUME NEW j \in Sockets, NEW e \in States, NEW g \in Fds, NEW y \in Types
             PROVE  ReportsTo(j, e, g, y)'
  BY DEF AllReport
<1>2. CASE j = k
  BY <1>1, <1>2, ReportsKept
<1>3. CASE j = other
  BY <1>1, <1>3, NothingThere, EpollReactorAssumption DEF ReportsTo
<1>4. CASE j \notin {k, other}
  BY <1>1, <1>4, ReportsKept
<1> QED BY <1>2, <1>3, <1>4

LEMMA LeaveReports ==
  ASSUME IInv, NEW f \in Fds, HandleCloses(f)
  PROVE  AllReport'
<1>1. /\ UNCHANGED <<socket, state, event_vars>>
      /\ \/ /\ \E file : SameData(file, kernel[f]) /\ kernel' = [kernel EXCEPT ![f] = file]
            /\ ready' = ready
         \/ /\ FileStep(f, FALSE, FALSE, FALSE) /\ ready' = ready \ {f}
            /\ \A k \in Sockets : socket[k].fd # f
  BY LeaveEffect DEF Unregister, IInv
<1>2. ASSUME NEW file, SameData(file, kernel[f]), kernel' = [kernel EXCEPT ![f] = file],
             ready' = ready
      PROVE  AllReport'
  <2>1. ASSUME NEW g \in Fds, NEW y \in Types, Quiet(y, kernel[g]) PROVE Quiet(y, kernel'[g])
    <3>1. kernel'[g] = IF g = f THEN file ELSE kernel[g]
      BY <1>2 DEF IInv, TypeInv, KernelTypes
    <3> QED BY <1>2, <2>1, <3>1, SameDataQuiet
  <2> QED BY <2>1, <1>1, <1>2, ReportsKept DEF AllReport
<1>3. CASE /\ FileStep(f, FALSE, FALSE, FALSE) /\ ready' = ready \ {f}
           /\ \A k \in Sockets : socket[k].fd # f
  <2>1. \A g \in Fds : g # f => kernel'[g] = kernel[g] /\ (g \in ready => g \in ready')
    BY <1>3 DEF FileStep
  <2> QED BY <2>1, <1>1, <1>3, ReportsKept DEF AllReport
<1> QED BY <1>1, <1>2, <1>3

LEMMA KernelReports ==
  ASSUME IInv, NEW f \in Fds,
         Arrive(f) \/ Drain(f) \/ Urgent(f) \/ PeerCloses(f) \/ PeerResets(f)
  PROVE  AllReport'
<1>1. PICK file \in FileType, event \in AllEvents :
        /\ KernelEvent(f, file, event)
        /\ \A y \in Types : Quiet(y, kernel[f]) => Quiet(y, file) \/ event \in {Flag[y], "hup"}
  BY KernelEffect DEF IInv
<1>2. /\ kernel' = [kernel EXCEPT ![f] = file] /\ kernel \in [Fds -> FileType]
      /\ ready' = IF epoll[f].ptr # Null /\ event \in epoll[f].events \cup {"hup"}
                  THEN ready \cup {f} ELSE ready
      /\ UNCHANGED <<socket, state, event_vars>>
  BY <1>1 DEF KernelEvent, IInv, TypeInv, KernelTypes
<1>3. ready \subseteq ready' /\ kernel'[f] = file /\ \A g \in Fds : g # f => kernel'[g] = kernel[g]
  BY <1>2
<1> SUFFICES ASSUME NEW j \in Sockets, NEW e \in States, NEW g \in Fds, NEW y \in Types
             PROVE  ReportsTo(j, e, g, y)'
  BY DEF AllReport
<1>4. CASE g # f \/ ~Quiet(y, kernel[f]) \/ Quiet(y, file)
  BY <1>2, <1>3, <1>4, ReportsKept
<1>5. CASE g = f /\ Quiet(y, kernel[f]) /\ ~Quiet(y, file)
  <2> SUFFICES ASSUME socket[j].fd = f, socket[j].data = e, ~socket[j].closing,
                      Depends(state[e], y)
               PROVE  f \in ready'
    BY <1>2, <1>5 DEF ReportsTo
  <2>1. Open(j)
    BY EpollReactorAssumption DEF Open
  <2>2. Flag[y] \in epoll[f].events /\ epoll[f].ptr # Null
    BY <2>1, DependsAsked
  <2> QED BY <2>2, <1>1, <1>2, <1>5
<1> QED BY <1>4, <1>5

LEMMA PerformReports ==
  ASSUME IInv, NEW t \in Threads, perform_io(t)
  PROVE  AllReport'
<1> DEFINE d0 == performing[t].ptr
           f0 == state[d0].descriptor
           events == performing[t].events
           start == PerformStart(t)
           s == PerformAll(start, events)
<1>1. /\ d0 \in States /\ UNCHANGED <<socket, batch, enqueued>> /\ ready' = ready
      /\ StateStep(d0, f0, state[d0].registered_events, state[d0].shutdown, s.op_queue, s.spec)
      /\ kernel' = IF f0 = Null THEN kernel ELSE [kernel EXCEPT ![f0] = s.file]
      /\ performing' = [performing EXCEPT ![t] = [ptr |-> Null, events |-> {}]]
      /\ Weaker(start.file, s.file)
  BY PerformStep
<1>2. PICK m : PassInv(start, events, Types, s, m)
  BY PerformEffect
<1>3. /\ start.file = IF f0 = Null THEN NoFile ELSE kernel[f0]
      /\ start.op_queue = state[d0].op_queue /\ start.spec = state[d0].try_speculative
  BY DEF PerformStart
<1>4. /\ kernel \in [Fds -> FileType] /\ TypeInv
      /\ performing \in [Threads -> [ptr : States \cup {Null}, events : SUBSET AllEvents]]
  BY DEF IInv, TypeInv, KernelTypes, EventTypes
<1> HIDE DEF start, s
<1>5. ASSUME NEW f \in Fds, NEW y \in Types, ~Quiet(y, kernel'[f])
      PROVE  ~Quiet(y, kernel[f])
  <2>1. CASE f = f0
    <3>1. f0 # Null
      BY <2>1, EpollReactorAssumption
    <3>2. kernel'[f] = s.file /\ start.file = kernel[f]
      BY <2>1, <3>1, <1>1, <1>3, <1>4
    <3> QED BY <3>2, <1>1, <1>5, QuietWeaker
  <2>2. CASE f # f0
    BY <2>2, <1>1, <1>4, <1>5
  <2> QED BY <2>1, <2>2
<1> SUFFICES ASSUME NEW j \in Sockets, NEW d \in States, NEW f \in Fds, NEW y \in Types,
                    socket[j].fd = f, socket[j].data = d, ~socket[j].closing,
                    Depends(state'[d], y), ~Quiet(y, kernel'[f])
             PROVE  f \in ready \/ OnTheWay(d, y)'
  BY <1>1 DEF AllReport, ReportsTo
<1>6. Open(j) /\ ~Quiet(y, kernel[f])
  BY <1>5, EpollReactorAssumption DEF Open
<1>7. ASSUME Depends(state[d], y), d # d0 \/ ~ReadyFor(y, events)
      PROVE  f \in ready \/ OnTheWay(d, y)'
  <2>1. f \in ready \/ OnTheWay(d, y)
    BY <1>6, <1>7, ReportsNow
  <2>2. ASSUME NEW u \in Threads, performing[u].ptr = d, ReadyFor(y, performing[u].events)
        PROVE  performing'[u] = performing[u]
    <3>1. u # t
      BY <1>7, <2>2
    <3> QED BY <3>1, <1>1
  <2> QED BY <2>1, <2>2, <1>1 DEF OnTheWay
<1>8. CASE d # d0
  <2>1. state'[d] = state[d]
    BY <1>1, <1>8 DEF StateStep
  <2>2. Depends(state[d], y)
    BY <2>1
  <2> QED BY <2>2, <1>7, <1>8
<1>9. CASE d = d0
  <2>1. /\ state'[d].shutdown = state[d].shutdown
        /\ state'[d].registered_events = state[d].registered_events
        /\ state'[d].op_queue = s.op_queue /\ state'[d].try_speculative = s.spec
    BY <1>1, <1>9 DEF StateStep, Fields
  <2>2. f0 = f
    BY <2>1, <1>6, <1>9, OpenSocket DEF Depends
  <2>3. kernel'[f] = s.file
    BY <2>2, <1>1, <1>4, EpollReactorAssumption
  <2>4. ~Concerns(y, events)
    <3>1. s.op_queue[y] # <<>> \/ ~s.spec[y]
      BY <2>1 DEF Depends
    <3>2. \A z \in Types : Concerns(z, events) =>
                            (s.op_queue[z] # <<>> \/ ~s.spec[z] => Quiet(z, s.file))
      BY <1>2 DEF PassInv
    <3> QED BY <3>1, <3>2, <2>3, Zenon
  <2>5. s.op_queue[y] = state[d].op_queue[y] /\ s.spec[y] = state[d].try_speculative[y]
    <3>1. \A z \in Types : ~Concerns(z, events) =>
            s.op_queue[z] = start.op_queue[z] /\ s.spec[z] = start.spec[z]
      BY ONLY <1>2 DEF PassInv
    <3>2. s.op_queue[y] = start.op_queue[y] /\ s.spec[y] = start.spec[y]
      BY ONLY <3>1, <2>4, y \in Types
    <3> QED BY ONLY <3>2, <1>3, <1>9
  <2>6. Depends(state[d], y)
    BY <2>1, <2>5 DEF Depends
  <2>7. d # d0 \/ ~ReadyFor(y, events)
    BY <2>4 DEF Concerns, ReadyFor
  <2>8. f \in ready \/ OnTheWay(d, y)'
    BY ONLY <2>6, <2>7, <1>7
  <2> QED BY ONLY <2>8
<1> QED BY ONLY <1>8, <1>9

LEMMA WaitReports ==
  ASSUME IInv, EpollWait
  PROVE  AllReport'
<1>1. /\ batch = {} /\ enqueued = {} /\ UNCHANGED <<socket, state, performing, kernel>>
      /\ batch' = {[ptr |-> epoll[f].ptr, events |-> Reported(f)] :
                      f \in {g \in ready : Reported(g) # {}}}
  BY DEF EpollWait
<1> SUFFICES ASSUME NEW j \in Sockets, NEW d \in States, NEW f \in Fds, NEW y \in Types,
                    socket[j].fd = f, socket[j].data = d, ~socket[j].closing,
                    Depends(state[d], y), ~Quiet(y, kernel[f])
             PROVE  OnTheWay(d, y)'
  BY <1>1 DEF AllReport, ReportsTo
<1>2. Open(j)
  BY EpollReactorAssumption DEF Open
<1>3. f \in ready \/ OnTheWay(d, y)
  BY <1>2, ReportsNow
<1>4. CASE f \in ready
  <2>1. epoll[f].ptr = d /\ Flag[y] \in epoll[f].events
    BY <1>2, DependsAsked
  <2>2. ReadyFor(y, Reported(f))
    BY <2>1 DEF Quiet, ReadyFor, Reported
  <2>3. Reported(f) # {}
    BY <2>2 DEF ReadyFor
  <2> DEFINE e == [ptr |-> epoll[f].ptr, events |-> Reported(f)]
  <2>4. e \in batch'
    BY <2>3, <1>1, <1>4
  <2>5. e.ptr = d /\ ReadyFor(y, e.events)
    BY <2>1, <2>2
  <2> HIDE DEF e
  <2> QED BY <2>4, <2>5 DEF OnTheWay
<1>5. CASE OnTheWay(d, y)
  BY <1>1, <1>5 DEF OnTheWay
<1> QED BY <1>3, <1>4, <1>5

LEMMA DispatchReports ==
  ASSUME IInv, Dispatch
  PROVE  AllReport'
<1> DEFINE all(e) == UNION {b.events : b \in {b \in batch : b.ptr = e.ptr}}
<1>1. /\ batch # {} /\ UNCHANGED <<socket, state, performing, kernel, ready>>
      /\ enqueued' = {[e EXCEPT !.events = all(e)] : e \in batch}
  BY DEF Dispatch, kernel_vars
<1>2. enqueued = {} /\ batch \subseteq EventType
  BY <1>1 DEF IInv, ReadyInv, TypeInv, EventTypes
<1> SUFFICES ASSUME NEW j \in Sockets, NEW d \in States, NEW f \in Fds, NEW y \in Types,
                    socket[j].fd = f, socket[j].data = d, ~socket[j].closing,
                    Depends(state[d], y), ~Quiet(y, kernel[f])
             PROVE  f \in ready \/ OnTheWay(d, y)'
  BY <1>1 DEF AllReport, ReportsTo
<1>3. Open(j)
  BY EpollReactorAssumption DEF Open
<1>4. f \in ready \/ OnTheWay(d, y)
  BY <1>3, ReportsNow
<1>5. ASSUME NEW e \in batch, e.ptr = d, ReadyFor(y, e.events)
      PROVE  \E g \in enqueued' : g.ptr = d /\ ReadyFor(y, g.events)
  <2> DEFINE g == [e EXCEPT !.events = all(e)]
  <2>1. g \in enqueued'
    BY <1>1
  <2>2. g.ptr = d /\ g.events = all(e)
    BY <1>2, <1>5 DEF EventType
  <2>3. e.events \subseteq all(e)
    OBVIOUS
  <2>4. ReadyFor(y, all(e))
    BY <2>3, <1>5 DEF ReadyFor
  <2> QED BY <2>1, <2>2, <2>4
<1> HIDE DEF all
<1> QED BY <1>1, <1>2, <1>4, <1>5 DEF OnTheWay

LEMMA PopReports ==
  ASSUME IInv, NEW t \in Threads, NEW e \in enqueued, PopDescriptor(t, e)
  PROVE  AllReport'
<1>1. /\ performing[t].ptr = Null /\ enqueued' = enqueued \ {e}
      /\ performing' = [performing EXCEPT ![t] = e]
      /\ UNCHANGED <<socket, state, batch, kernel, ready>>
  BY DEF PopDescriptor, kernel_vars
<1>2. performing \in [Threads -> [ptr : States \cup {Null}, events : SUBSET AllEvents]]
  BY DEF IInv, TypeInv, EventTypes
<1>3. performing'[t] = e /\ \A u \in Threads : u # t => performing'[u] = performing[u]
  BY <1>1, <1>2
<1> SUFFICES ASSUME NEW j \in Sockets, NEW d \in States, NEW f \in Fds, NEW y \in Types,
                    socket[j].fd = f, socket[j].data = d, ~socket[j].closing,
                    Depends(state[d], y), ~Quiet(y, kernel[f])
             PROVE  f \in ready \/ OnTheWay(d, y)'
  BY <1>1 DEF AllReport, ReportsTo
<1>4. Open(j)
  BY EpollReactorAssumption DEF Open
<1>5. f \in ready \/ OnTheWay(d, y)
  BY <1>4, ReportsNow
<1>6. performing[t].ptr # d
  BY <1>1, EpollReactorAssumption
<1> QED BY <1>1, <1>3, <1>5, <1>6 DEF OnTheWay

LEMMA ShutdownReports ==
  ASSUME IInv, Shutdown
  PROVE  AllReport'
<1>1. /\ ~shutdown /\ socket' = socket
      /\ \A d \in States : d \in live => state'[d].shutdown = TRUE
  BY ShutdownEffect DEF Fields
<1> SUFFICES ASSUME NEW j \in Sockets, NEW d \in States, NEW f \in Fds, NEW y \in Types,
                    socket[j].fd = f, socket[j].data = d, ~socket[j].closing
             PROVE  ~Depends(state'[d], y)
  BY <1>1 DEF AllReport, ReportsTo
<1>2. Open(j)
  BY EpollReactorAssumption DEF Open
<1>3. d \in live
  BY <1>1, <1>2, OpenSocket
<1> QED BY <1>1, <1>3 DEF Depends

LEMMA ForkReports ==
  ASSUME IInv, Forks, Registered'
  PROVE  AllReport'
<1>0. /\ ~shutdown /\ UNCHANGED <<socket, state, shutdown, event_vars>>
      /\ \A f \in Fds, y \in Types : Quiet(y, kernel'[f]) <=> Quiet(y, kernel[f])
      /\ NewEpoll \/ ready' = ready
  BY ForkEffect, SameDataQuiet DEF IInv
<1>a. CASE ready' = ready
  BY <1>0, <1>a, ReportsKept DEF AllReport
<1> SUFFICES ASSUME NewEpoll PROVE AllReport'
  BY <1>0, <1>a
<1>1. /\ ~shutdown /\ UNCHANGED <<socket, state, shutdown>>
      /\ ready' = {f \in {state[d].descriptor : d \in live} :
                     Mask(kernel[f]) \cap (epoll'[f].events \cup {"hup"}) # {}}
  BY <1>0 DEF NewEpoll
<1> SUFFICES ASSUME NEW j \in Sockets, NEW d \in States, NEW f \in Fds, NEW y \in Types,
                    socket[j].fd = f, socket[j].data = d, ~socket[j].closing,
                    Depends(state[d], y), ~Quiet(y, kernel[f])
             PROVE  f \in ready'
  BY <1>0, <1>1 DEF AllReport, ReportsTo
<1>2. Open(j)
  BY EpollReactorAssumption DEF Open
<1>3. /\ Flag[y] \in state[d].registered_events
      /\ state[d].descriptor = f /\ d \in live
  BY <1>2, DependsAsked
<1>4. epoll'[f].events = state[d].registered_events
  <2>1. epoll'[f] = Registration(d, state[d].registered_events)
    <3>1. /\ socket'[j].fd = f /\ socket'[j].data = d /\ ~socket'[j].closing /\ ~shutdown'
          /\ state'[d].registered_events = state[d].registered_events /\ f # Null
      BY <1>1, EpollReactorAssumption
    <3>2. \A k \in Sockets : socket'[k].fd # Null /\ ~socket'[k].closing =>
            epoll'[socket'[k].fd]
              = IF state'[socket'[k].data].registered_events = {} THEN NoRegistration
                ELSE [ptr |-> socket'[k].data,
                      events |-> state'[socket'[k].data].registered_events]
      BY <3>1 DEF Registered, Registration, Open
    <3>3. epoll'[f] = IF state[d].registered_events = {} THEN NoRegistration
                      ELSE [ptr |-> d, events |-> state[d].registered_events]
      BY <3>1, <3>2
    <3> QED BY <3>3 DEF Registration
  <2> QED BY <2>1, <1>3 DEF Registration
<1>5. Mask(kernel[f]) \cap {Flag[y], "hup"} # {}
  BY DEF Quiet, ReadyFor
<1> QED BY <1>1, <1>3, <1>4, <1>5

LEMMA ReadyStep ==
  ASSUME IInv, [Next]_vars
  PROVE  ReadyInv'
<1>1. ASSUME UNCHANGED vars PROVE AllReport'
  <2>1. /\ socket' = socket /\ state' = state /\ kernel' = kernel /\ ready' = ready
        /\ UNCHANGED event_vars
    BY <1>1 DEF vars, kernel_vars
  <2> QED BY <2>1, ReportsKept DEF AllReport
<1>2. ASSUME Forks PROVE AllReport'
  <2>1. Registered'
    BY RegStep DEF RegInv
  <2> QED BY <2>1, <1>2, ForkReports
<1>3. AllReport'
  BY <1>1, <1>2, StepCases, RegisterReports, FailReports, StartReports, CancelReports,
     DeregisterReports, FinishReports, MoveReports, LeaveReports, KernelReports,
     PerformReports, WaitReports, DispatchReports, PopReports, ShutdownReports, Zenon
<1>4. TypeInv' /\ SocketShape'
  BY TypeStep, ShapeStep
<1>5. Reports'
  BY <1>3, <1>4, ReportsNext
<1>6. batch' # {} => enqueued' = {}
  <2>1. batch # {} => enqueued = {}
    BY DEF IInv, ReadyInv
  <2> DEFINE Keeps == \/ UNCHANGED <<batch, enqueued>>
                      \/ batch' = {}
                      \/ enqueued = {} /\ enqueued' = enqueued
                      \/ \E e \in enqueued : enqueued' = enqueued \ {e} /\ batch' = batch
  <2>2. Keeps
    <3>1. ASSUME NEW f \in Fds,
                 Arrive(f) \/ Drain(f) \/ Urgent(f) \/ PeerCloses(f) \/ PeerResets(f)
          PROVE  Keeps
      BY <3>1 DEF Arrive, Drain, Urgent, PeerCloses, PeerResets, KernelEvent, event_vars
    <3>2. ASSUME NEW k \in Sockets,
                 \/ \E o \in ReactorOps, c \in Kinds : start_op(k, o, c)
                 \/ cancel_ops(k) \/ FinishClose(k)
                 \/ \E other \in Sockets \ {k} : move_descriptor(k, other)
          PROVE  Keeps
      BY <3>2 DEF start_op, cancel_ops, FinishClose, move_descriptor, event_vars
    <3>3. ASSUME NEW k \in Sockets, NEW how \in {"close", "release"},
                 deregister_descriptor(k, how)
          PROVE  Keeps
      BY <3>3 DEF deregister_descriptor, event_vars
    <3>4. ASSUME NEW k \in Sockets, NEW f \in Fds, NEW d \in States, NEW assigned \in BOOLEAN,
                 NEW dup \in BOOLEAN, NEW events \in {{}, {"in", "pri"}},
                 register_descriptor(k, f, d, assigned, dup, events)
          PROVE  Keeps
      BY <3>4 DEF register_descriptor, event_vars
    <3>5. ASSUME NEW k \in Sockets, NEW f \in Fds, NEW d \in States, RegisterFails(k, f, d)
          PROVE  Keeps
      BY <3>5 DEF RegisterFails, event_vars
    <3>6. ASSUME NEW t \in Threads, NEW e \in enqueued, PopDescriptor(t, e)
          PROVE  Keeps
      BY <3>6 DEF PopDescriptor
    <3>7. ASSUME NEW t \in Threads, perform_io(t)
          PROVE  Keeps
      BY <3>7, PerformStep
    <3>8. ASSUME NEW f \in Fds, HandleCloses(f)
          PROVE  Keeps
      BY <3>8, LeaveEffect DEF event_vars, IInv
    <3>9. EpollWait \/ Dispatch \/ Shutdown \/ Forks \/ UNCHANGED vars => Keeps
      <4>1. EpollWait => enqueued = {} /\ enqueued' = enqueued
        BY DEF EpollWait
      <4>2. Dispatch => batch' = {}
        BY DEF Dispatch
      <4>3. Shutdown => batch' = {}
        BY ShutdownEffect
      <4>4. Forks \/ UNCHANGED vars => UNCHANGED <<batch, enqueued>>
        BY ForkEffect DEF IInv, vars, event_vars
      <4> QED BY <4>1, <4>2, <4>3, <4>4
    <3> HIDE DEF Keeps
    <3> QED
      BY <3>1, <3>2, <3>3, <3>4, <3>5, <3>6, <3>7, <3>8, <3>9, StepCases, ZenonT(60)
  <2> QED BY <2>1, <2>2
<1> QED BY <1>5, <1>6 DEF ReadyInv

-----------------------------------------------------------------------------
(* The invariant.                                                          *)

LEMMA InitInv == Init => IInv
<1> SUFFICES ASSUME Init PROVE IInv
  OBVIOUS
<1>1. /\ TypeInv
      /\ \A k \in Sockets : socket[k] = Closed
      /\ \A d \in States : state[d] = NewState
      /\ live = {} /\ free = <<>> /\ ~shutdown /\ batch = {} /\ enqueued = {}
      /\ \A o \in ReactorOps : result[o] = "fresh"
      /\ \A f \in Fds : epoll[f] = NoRegistration
  BY TypeInit DEF Init
<1>2. /\ \A k \in Sockets : socket[k].fd = Null /\ socket[k].data = Null /\ ~socket[k].closing
      /\ \A d \in States : /\ state[d].registered_events = {}
                           /\ \A y \in Types : state[d].op_queue[y] = <<>>
      /\ \A f \in Fds : epoll[f].ptr = Null
  BY <1>1, NothingThere DEF NewState
<1>3. SocketShape /\ Distinct
  BY <1>2 DEF SocketShape, Distinct, Open
<1>4. PoolInv
  BY <1>1, FS_EmptySet DEF PoolInv, IsInjective, ToSet
<1>5. RegInv
  BY <1>1, <1>2 DEF RegInv, Asked, Owned, Registered, Removed, Open
<1>6. QueueInv
  <2>1. \A o \in ReactorOps, d \in States, y \in Types, i \in Nat : ~At(o, d, y, i)
    BY <1>2 DEF At
  <2> QED BY <1>1, <1>2, <2>1 DEF QueueInv, WaitsAtSocket, WaitsOnce, WaitsSomewhere
<1>7. ReadyInv
  BY <1>1, <1>2 DEF ReadyInv, Reports, Open
<1> QED BY <1>1, <1>3, <1>4, <1>5, <1>6, <1>7 DEF IInv

LEMMA NextInv == IInv /\ [Next]_vars => IInv'
<1> SUFFICES ASSUME IInv, [Next]_vars PROVE IInv'
  OBVIOUS
<1>1. TypeInv' /\ SocketShape' /\ Distinct' /\ PoolInv'
  BY TypeStep, ShapeStep
<1>2. RegInv' /\ QueueInv' /\ ReadyInv'
  BY RegStep, QueueStep, ReadyStep
<1> QED BY <1>1, <1>2 DEF IInv

LEMMA Invariant == Spec => []IInv
  BY InitInv, NextInv, PTL DEF Spec

-----------------------------------------------------------------------------
(* What the runs check, for every value of the constants.                  *)

(* Every field of the sockets, the states and the pool keeps its type.      *)
THEOREM TypeCorrect == Spec => []TypeOK
<1>1. IInv => TypeOK
  <2> SUFFICES ASSUME IInv PROVE TypeOK
    OBVIOUS
  <2>1. TypeInv
    BY DEF IInv
  <2>2. /\ \A d \in States :
             /\ state[d].descriptor \in Fds \cup {Null}
             /\ state[d].registered_events \subseteq {"in", "out", "pri"}
             /\ state[d].op_queue \in [Types -> Seq(ReactorOps)]
             /\ state[d].try_speculative \in [Types -> BOOLEAN]
             /\ state[d].shutdown \in BOOLEAN
    BY <2>1, FieldsOfState
  <2>3. live \subseteq States /\ ToSet(free) \subseteq States
    BY <2>1 DEF TypeInv, StateTypes, ToSet
  <2>4. \A e \in batch \cup enqueued : e.ptr \in States
    BY <2>1 DEF TypeInv, EventTypes, EventType
  <2>5. \A f \in Fds : kernel[f].avail \in Nat /\ kernel[f].space \in Nat
    BY <2>1 DEF TypeInv, KernelTypes, FileType
  <2> QED BY <2>1, <2>2, <2>3, <2>4, <2>5 DEF TypeOK, TypeInv, SocketTypes, OpTypes, Results
<1> QED BY <1>1, Invariant, PTL

(* object_pool's lists are disjoint, and a socket's descriptor_state is its *)
(* own and live as long as the reactor runs.                                *)
THEOREM PoolIsSound == Spec => []PoolSound
<1>1. IInv => PoolSound
  BY DEF IInv, PoolInv, SocketShape, Distinct, PoolSound
<1> QED BY <1>1, Invariant, PTL

(* epoll reports a file with a pointer to a descriptor_state that has gone  *)
(* back to the pool only where a forked process has the file and no socket  *)
(* does: there close() did not take it out of the epoll set.  In every      *)
(* other case deregister_descriptor or close() removes the entry before     *)
(* cleanup_descriptor_data frees the state.                                 *)
THEOREM NoRegistrationDangles == Spec => []NoDanglingRegistration
<1>1. IInv => NoDanglingRegistration
  BY DEF IInv, RegInv, Owned, Left, NoDanglingRegistration
<1> QED BY <1>1, Invariant, PTL

(* No operation is left waiting where no socket's calls can reach it.       *)
THEOREM NoOpIsStranded == Spec => []NoStrandedOp
<1>1. ASSUME IInv, NEW o \in ReactorOps
      PROVE  LET at == {d \in States : o \in QueuedOps(d)} IN
             /\ Cardinality(at) = (IF result[o] = "queued" THEN 1 ELSE 0)
             /\ \A d \in at : \E k \in Sockets : Open(k) /\ socket[k].data = d
                                                   /\ state[d].descriptor = socket[k].fd
  <2> DEFINE at == {d \in States : o \in QueuedOps(d)}
  <2>1. TypeInv /\ WaitsAtSocket /\ WaitsOnce /\ WaitsSomewhere
    BY <1>1 DEF IInv, QueueInv
  <2>2. \A d \in States : d \in at <=> \E y \in Types, i \in Nat : At(o, d, y, i)
    <3>1. ASSUME NEW d \in States
          PROVE  o \in QueuedOps(d) <=> \E y \in Types, i \in Nat : At(o, d, y, i)
      <4>1. o \in QueuedOps(d) <=>
              \E y \in Types : \E i \in 1..Len(state[d].op_queue[y]) : state[d].op_queue[y][i] = o
        BY <2>1, QueuedOpsIs
      <4>2. \A y \in Types : Len(state[d].op_queue[y]) \in Nat
        BY <2>1, QueueTypes
      <4> QED BY <4>1, <4>2 DEF At
    <3> QED BY <3>1
  <2>3. at \subseteq States
    OBVIOUS
  <2> HIDE DEF at
  <2>4. ASSUME result[o] = "queued" PROVE Cardinality(at) = 1
    <3>1. PICK d \in States : \E y \in Types, i \in Nat : At(o, d, y, i)
      BY <2>1, <2>4 DEF WaitsSomewhere
    <3>2. \A e \in at : e = d
      BY <2>1, <2>2, <2>3, <3>1 DEF WaitsOnce
    <3>3. at = {d}
      BY <2>2, <2>3, <3>1, <3>2
    <3> QED BY <3>3, FS_Singleton
  <2>5. ASSUME result[o] # "queued" PROVE Cardinality(at) = 0
    <3>1. at = {}
      BY <2>1, <2>2, <2>3, <2>5 DEF WaitsOnce
    <3> QED BY <3>1, FS_EmptySet
  <2>6. ASSUME NEW d \in at
        PROVE  \E k \in Sockets : Open(k) /\ socket[k].data = d
                                   /\ state[d].descriptor = socket[k].fd
    <3>1. PICK y \in Types : \E i \in Nat : At(o, d, y, i)
      BY <2>2, <2>3, <2>6
    <3>2. state[d].op_queue[y] # <<>>
      BY <3>1 DEF At
    <3>3. d \in States /\ ~state[d].shutdown
      BY <2>1, <2>3, <2>6, <3>2 DEF WaitsAtSocket
    <3>4. PICK k \in Sockets : Open(k) /\ socket[k].data = d
      BY <2>1, <3>2, <3>3 DEF WaitsAtSocket
    <3> QED BY <1>1, <3>3, <3>4, OpenSocket
  <2> QED BY <2>4, <2>5, <2>6 DEF at
<1>2. IInv => NoStrandedOp
  BY <1>1 DEF NoStrandedOp
<1> QED BY <1>2, Invariant, PTL

(* Edge-triggering loses no readiness: whoever waits on a descriptor that   *)
(* is ready for it will be performed, whatever the order of start_op, the   *)
(* kernel's events, epoll_wait and perform_io.                              *)
THEOREM ReadinessIsNotLost == Spec => []ReadinessNotLost
<1>1. ASSUME IInv, NEW k \in Sockets, NEW y \in Types, WaitsThoughReady(k, y),
             y \notin kernel[socket[k].fd].seen
      PROVE  WillBePerformed(k, y)
  <2>1. /\ Open(k) /\ Depends(state[socket[k].data], y) /\ ~Quiet(y, kernel[socket[k].fd])
    BY <1>1 DEF WaitsThoughReady, Depends, Quiet
  <2>2. socket[k].fd \in ready \/ OnTheWay(socket[k].data, y)
    BY <1>1, <2>1, ReportsNow
  <2>3. epoll[socket[k].fd].ptr = socket[k].data /\ Flag[y] \in epoll[socket[k].fd].events
    BY <1>1, <2>1, DependsAsked
  <2>4. ReadyFor(y, Reported(socket[k].fd))
    BY <2>3, <1>1 DEF WaitsThoughReady, ReadyFor, Reported
  <2> QED BY <2>2, <2>3, <2>4 DEF WillBePerformed
<1>2. IInv => ReadinessNotLost
  BY <1>1 DEF ReadinessNotLost
<1> QED BY <1>2, Invariant, PTL

-----------------------------------------------------------------------------
(* The order in which operations succeed.                                  *)

(* An operation succeeds when it is started, or in perform_io.              *)
LEMMA WhoSucceeds ==
  ASSUME IInv, [Next]_vars, NEW p \in ReactorOps, result[p] # "ok", result'[p] = "ok"
  PROVE  \/ \E k \in Sockets, c \in Kinds : start_op(k, p, c)
         \/ \E t \in Threads : perform_io(t)
<1>1. result \in [ReactorOps -> Results]
  BY DEF IInv, TypeInv, OpTypes
<1>2. ASSUME UNCHANGED result PROVE FALSE
  BY <1>2
<1>3. ASSUME NEW ops, NEW r, r # "ok", Complete(ops, r) PROVE FALSE
  BY <1>1, <1>3 DEF Complete
<1>4. ASSUME NEW k \in Sockets, NEW o \in ReactorOps, NEW c \in Kinds, start_op(k, o, c)
      PROVE  \E j \in Sockets, b \in Kinds : start_op(j, p, b)
  <2>1. o = p
    <3>1. \E r : result' = [result EXCEPT ![o] = r]
      <4>1. \/ Posted(k, o) \/ Finished(k, o, KindType[c]) \/ Pushed(k, o, KindType[c])
        BY <1>4, StartEffect
      <4>2. Posted(k, o) => \E r : result' = [result EXCEPT ![o] = r]
        BY Zenon DEF Posted
      <4>3. Finished(k, o, KindType[c]) => \E r : result' = [result EXCEPT ![o] = r]
        BY Zenon DEF Finished
      <4>4. Pushed(k, o, KindType[c]) => \E r : result' = [result EXCEPT ![o] = r]
        BY Zenon DEF Pushed
      <4> QED BY <4>1, <4>2, <4>3, <4>4, Zenon
    <3> QED BY <3>1, <1>1
  <2> QED BY <2>1, <1>4
<1>5. ASSUME NEW k \in Sockets, NEW f \in Fds, NEW d \in States, NEW assigned \in BOOLEAN,
             NEW dup \in BOOLEAN, NEW events \in {{}, {"in", "pri"}},
             register_descriptor(k, f, d, assigned, dup, events)
      PROVE  FALSE
  BY <1>5, <1>2 DEF register_descriptor, op_vars
<1>6. ASSUME NEW k \in Sockets, NEW f \in Fds, NEW d \in States, RegisterFails(k, f, d)
      PROVE  FALSE
  BY <1>6, <1>2 DEF RegisterFails, op_vars
<1>7. ASSUME NEW k \in Sockets, cancel_ops(k) PROVE FALSE
  BY <1>7, <1>3, CancelEffect
<1>8. ASSUME NEW k \in Sockets, NEW how \in {"close", "release"}, deregister_descriptor(k, how)
      PROVE  FALSE
  <2>1. Complete(QueuedOps(socket[k].data), "aborted") \/ UNCHANGED result
    BY <1>8, DeregisterEffect DEF IInv, TypeInv, SocketTypes
  <2> QED BY <2>1, <1>2, <1>3
<1>9. ASSUME NEW k \in Sockets, FinishClose(k) PROVE FALSE
  BY <1>9, <1>2 DEF FinishClose, op_vars
<1>10. ASSUME NEW k \in Sockets, NEW other \in Sockets \ {k}, move_descriptor(k, other)
       PROVE  FALSE
  BY <1>10, <1>2 DEF move_descriptor, op_vars
<1>11. ASSUME NEW f \in Fds, HandleCloses(f) PROVE FALSE
  BY <1>11, <1>2, LeaveEffect DEF op_vars, IInv
<1>12. ASSUME NEW f \in Fds,
              Arrive(f) \/ Drain(f) \/ Urgent(f) \/ PeerCloses(f) \/ PeerResets(f)
       PROVE  FALSE
  <2>1. PICK file \in FileType, event \in AllEvents : KernelEvent(f, file, event)
    BY <1>12, KernelEffect DEF IInv
  <2> QED BY <2>1, <1>2 DEF KernelEvent, op_vars
<1>13. ASSUME NEW t \in Threads, NEW e \in enqueued, PopDescriptor(t, e) PROVE FALSE
  BY <1>13, <1>2 DEF PopDescriptor, op_vars
<1>14. ~Shutdown
  <2>1. Shutdown => Complete(UNION {QueuedOps(d) : d \in live}, "destroyed")
    BY ShutdownEffect
  <2>2. "destroyed" # "ok"
    OBVIOUS
  <2> QED BY <2>1, <2>2, <1>3, Zenon
<1>15. ~EpollWait /\ ~Dispatch /\ ~Forks /\ ~UNCHANGED vars
  BY <1>2, ForkEffect DEF EpollWait, Dispatch, vars, op_vars, IInv
<1> QED
  BY <1>4, <1>5, <1>6, <1>7, <1>8, <1>9, <1>10, <1>11, <1>12, <1>13, <1>14, <1>15,
     StepCases, ZenonT(60)

(* perform_io finishes a front part of every queue of its state. *)
LEMMA PerformFinishes ==
  ASSUME IInv, NEW t \in Threads, perform_io(t)
  PROVE  LET d == performing[t].ptr IN
         /\ d \in States
         /\ \E m \in [Types -> Nat] :
              /\ \A z \in Types : m[z] <= Len(state[d].op_queue[z])
              /\ \A o \in ReactorOps :
                   result'[o] = IF \E z \in Types : \E n \in 1..m[z] : state[d].op_queue[z][n] = o
                                THEN "ok" ELSE result[o]
<1> DEFINE d == performing[t].ptr
           start == PerformStart(t)
           s == PerformAll(start, performing[t].events)
<1>1. d \in States /\ Complete(s.done, "ok")
  BY PerformStep
<1>2. PICK m : PassInv(start, performing[t].events, Types, s, m)
  BY PerformEffect
<1>3. start.op_queue = state[d].op_queue
  BY DEF PerformStart
<1> HIDE DEF s, start
<1>4. /\ m \in [Types -> Nat]
      /\ s.done = UNION {{state[d].op_queue[z][n] : n \in 1..m[z]} : z \in Types}
      /\ \A z \in Types : m[z] <= Len(state[d].op_queue[z])
  BY <1>2, <1>3 DEF PassInv
<1>5. \A o \in ReactorOps : result'[o] = IF o \in s.done THEN "ok" ELSE result[o]
  BY <1>1 DEF Complete
<1>6. \A o : o \in s.done <=> \E z \in Types : \E n \in 1..m[z] : state[d].op_queue[z][n] = o
  BY <1>4
<1> QED BY <1>1, <1>4, <1>5, <1>6

LEMMA PerformsInOrder ==
  ASSUME IInv, NEW t \in Threads, perform_io(t), NEW d \in States, NEW y \in Types,
         NEW i \in 1..Len(state[d].op_queue[y]), NEW j \in 1..Len(state[d].op_queue[y]),
         i < j, result'[state[d].op_queue[y][j]] = "ok"
  PROVE  result'[state[d].op_queue[y][i]] = "ok"
<1> DEFINE d0 == performing[t].ptr
           q == state[d].op_queue[y]
<1>1. /\ d0 \in States
      /\ \E m \in [Types -> Nat] :
           /\ \A z \in Types : m[z] <= Len(state[d0].op_queue[z])
           /\ \A o \in ReactorOps :
                result'[o] = IF \E z \in Types : \E n \in 1..m[z] : state[d0].op_queue[z][n] = o
                             THEN "ok" ELSE result[o]
  BY PerformFinishes
<1> HIDE DEF d0
<1>2. PICK m \in [Types -> Nat] :
        /\ \A z \in Types : m[z] <= Len(state[d0].op_queue[z])
        /\ \A o \in ReactorOps :
             result'[o] = IF \E z \in Types : \E n \in 1..m[z] : state[d0].op_queue[z][n] = o
                          THEN "ok" ELSE result[o]
  BY <1>1
<1>3. /\ \A n \in 1..Len(q) : q[n] \in ReactorOps
      /\ i \in Nat /\ j \in Nat
      /\ \A z \in Types : Len(state[d0].op_queue[z]) \in Nat
  BY <1>1, QueueTypes DEF IInv
<1>4. At(q[j], d, y, j) /\ WaitsOnce
  BY DEF At, IInv, QueueInv
<1>5. result[q[j]] = "queued"
  BY <1>3, <1>4 DEF WaitsOnce
<1>6. PICK z \in Types : \E n \in 1..m[z] : state[d0].op_queue[z][n] = q[j]
  BY <1>2, <1>3, <1>5
<1>7. PICK n \in 1..m[z] : state[d0].op_queue[z][n] = q[j]
  BY <1>6
<1>8. n \in Nat /\ n \in 1..Len(state[d0].op_queue[z])
  <2> DEFINE L == Len(state[d0].op_queue[z])
             M == m[z]
  <2>1. L \in Nat /\ M \in Nat /\ M <= L /\ n \in 1..M
    BY <1>2, <1>3
  <2> HIDE DEF L, M
  <2>2. n \in Nat /\ n \in 1..L
    BY <2>1
  <2> QED BY <2>2 DEF L
<1>9. At(q[j], d0, z, n)
  BY <1>7, <1>8 DEF At
<1>10. d0 = d /\ z = y /\ n = j
  BY <1>1, <1>3, <1>4, <1>8, <1>9 DEF WaitsOnce
<1>11. i \in 1..m[y]
  <2> DEFINE M == m[y]
  <2>1. M \in Nat /\ j \in 1..M
    BY <1>10
  <2> HIDE DEF M
  <2>2. i \in 1..M
    BY <2>1, <1>3
  <2> QED BY <2>2 DEF M
<1>12. \E n0 \in 1..m[y] : state[d0].op_queue[y][n0] = q[i]
  BY <1>10, <1>11
<1> QED BY <1>2, <1>3, <1>12

(* start_op does not try an operation while others of its type wait on the  *)
(* same descriptor.                                                         *)
LEMMA StartsInOrder ==
  ASSUME IInv, NEW k \in Sockets, NEW o \in ReactorOps, NEW c \in Kinds, start_op(k, o, c),
         result'[o] = "ok", NEW d \in States, KindType[op'[o].kind] \in Types,
         op'[o].socket = state[d].descriptor
  PROVE  state[d].op_queue[KindType[op'[o].kind]] = <<>>
<1>1. /\ Open(k) /\ KindType[c] \in Types /\ op' = [op EXCEPT ![o] = [kind |-> c, socket |-> socket[k].fd]]
      /\ Posted(k, o) \/ Finished(k, o, KindType[c]) \/ Pushed(k, o, KindType[c])
  BY StartEffect
<1>2. /\ result \in [ReactorOps -> Results] /\ TypeInv
      /\ op \in [ReactorOps -> [kind : Kinds \cup {Null}, socket : Fds \cup {Null}]]
  BY DEF IInv, TypeInv, OpTypes
<1>3. op'[o].kind = c /\ op'[o].socket = socket[k].fd
  BY <1>1, <1>2
<1>4. MayTry(socket[k].data, KindType[c])
  <2>1. Finished(k, o, KindType[c])
    <3>1. Posted(k, o) => result' = [result EXCEPT ![o] = "posted"]
      BY Zenon DEF Posted
    <3>2. Pushed(k, o, KindType[c]) => result' = [result EXCEPT ![o] = "queued"]
      BY Zenon DEF Pushed
    <3> QED BY <3>1, <3>2, <1>1, <1>2
  <2>2. PICK r \in {"ok", "error"} : /\ result' = [result EXCEPT ![o] = r]
                                     /\ r = "ok" => MayTry(socket[k].data, KindType[c])
    BY <2>1, Zenon DEF Finished
  <2> QED BY <2>2, <1>2
<1> SUFFICES ASSUME state[d].op_queue[KindType[c]] # <<>> PROVE FALSE
  BY <1>3
<1>5. PICK j \in Sockets : Open(j) /\ socket[j].data = d /\ ~state[d].shutdown
  BY <1>1 DEF IInv, QueueInv, WaitsAtSocket
<1>6. state[d].descriptor = socket[j].fd
  BY <1>5, OpenSocket
<1>7. j = k
  BY <1>1, <1>3, <1>5, <1>6 DEF IInv, Distinct, Open
<1> QED BY <1>4, <1>5, <1>7 DEF MayTry

(* Operations of one type on one socket succeed in the order they were      *)
(* started, through start_op's speculative attempt and through perform_io.  *)
THEOREM FirstCome == Spec => FirstComeFirstServed
<1> DEFINE InOrder(d, y) ==
             LET q == state[d].op_queue[y] IN
             /\ \A i, j \in DOMAIN q :
                  i < j /\ result'[q[j]] = "ok" => result'[q[i]] # "queued"
             /\ \A o \in ReactorOps :
                  result[o] = "fresh" /\ result'[o] = "ok" /\ KindType[op'[o].kind] = y
                    /\ op'[o].socket = state[d].descriptor => q = <<>>
<1>1. ASSUME IInv, [Next]_vars, NEW d \in States, NEW y \in Types
      PROVE  InOrder(d, y)
  <2> DEFINE q == state[d].op_queue[y]
  <2>1. /\ q \in Seq(ReactorOps) /\ DOMAIN q = 1..Len(q)
        /\ \A n \in 1..Len(q) : q[n] \in ReactorOps /\ n \in Nat
    BY <1>1, QueueTypes DEF IInv
  <2>2. \A n \in 1..Len(q) : result[q[n]] = "queued"
    <3>1. \A n \in 1..Len(q) : At(q[n], d, y, n)
      BY DEF At
    <3> QED BY <3>1, <2>1, <1>1 DEF IInv, QueueInv, WaitsOnce
  <2>3. ASSUME NEW i \in DOMAIN q, NEW j \in DOMAIN q, i < j, result'[q[j]] = "ok"
        PROVE  result'[q[i]] # "queued"
    <3>1. i \in 1..Len(q) /\ j \in 1..Len(q) /\ q[j] \in ReactorOps /\ result[q[j]] = "queued"
      BY <2>1, <2>2
    <3>2. CASE \E t \in Threads : perform_io(t)
      BY <3>1, <3>2, <2>3, <1>1, PerformsInOrder
    <3>3. CASE \E k \in Sockets, c \in Kinds : start_op(k, q[j], c)
      BY <3>1, <3>3 DEF start_op
    <3> QED BY <3>1, <3>2, <3>3, <2>3, <1>1, WhoSucceeds
  <2>4. ASSUME NEW o \in ReactorOps, result[o] = "fresh", result'[o] = "ok",
               KindType[op'[o].kind] = y, op'[o].socket = state[d].descriptor
        PROVE  q = <<>>
    <3>1. CASE \E k \in Sockets, c \in Kinds : start_op(k, o, c)
      BY <3>1, <2>4, <1>1, StartsInOrder
    <3>2. ASSUME NEW t \in Threads, perform_io(t) PROVE FALSE
      <4> DEFINE e == performing[t].ptr
      <4>1. /\ e \in States
            /\ \E m \in [Types -> Nat] :
                 /\ \A z \in Types : m[z] <= Len(state[e].op_queue[z])
                 /\ \A p \in ReactorOps :
                      result'[p] = IF \E z \in Types : \E n \in 1..m[z] :
                                        state[e].op_queue[z][n] = p
                                   THEN "ok" ELSE result[p]
        BY <3>2, <1>1, PerformFinishes
      <4> HIDE DEF e
      <4>2. PICK m \in [Types -> Nat] :
              /\ \A z \in Types : m[z] <= Len(state[e].op_queue[z])
              /\ \A p \in ReactorOps :
                   result'[p] = IF \E z \in Types : \E n \in 1..m[z] :
                                     state[e].op_queue[z][n] = p
                                THEN "ok" ELSE result[p]
        BY <4>1
      <4>3. PICK z \in Types : \E n \in 1..m[z] : state[e].op_queue[z][n] = o
        BY <4>2, <2>4
      <4>4. PICK n \in 1..m[z] : state[e].op_queue[z][n] = o
        BY <4>3
      <4>5. n \in Nat /\ n \in 1..Len(state[e].op_queue[z])
        <5> DEFINE L == Len(state[e].op_queue[z])
                   M == m[z]
        <5>1. L \in Nat /\ M \in Nat /\ M <= L /\ n \in 1..M
          BY <4>1, <4>2, <1>1, QueueTypes DEF IInv
        <5> HIDE DEF L, M
        <5>2. n \in Nat /\ n \in 1..L
          BY <5>1
        <5> QED BY <5>2 DEF L
      <4>6. At(o, e, z, n)
        BY <4>4, <4>5 DEF At
      <4> QED BY <4>1, <4>5, <4>6, <1>1, <2>4 DEF IInv, QueueInv, WaitsOnce
    <3> QED BY <3>1, <3>2, <2>4, <1>1, WhoSucceeds
  <2> QED BY <2>3, <2>4
<1>2. IInv /\ [Next]_vars => [\A d \in States, y \in Types : InOrder(d, y)]_vars
  BY <1>1
<1> QED BY <1>2, Invariant, PTL DEF FirstComeFirstServed, Spec
=============================================================================
