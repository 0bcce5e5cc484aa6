----------------------------- MODULE SocketStream -----------------------------
(***************************************************************************)
(* basic_socket_streambuf: a std::streambuf over a socket, whose blocking  *)
(* calls (connect, underflow, overflow) end at an expiry time.  A call is  *)
(* a loop of non-blocking attempts and poll(); between them the peer, the  *)
(* kernel and the clock go on.  Bytes are numbers, in the order in which   *)
(* they are written.                                                       *)
(***************************************************************************)
EXTENDS Naturals, Sequences, SequencesExt

CONSTANTS
  Streams,
  PutSize,   \* buffer_size
  MaxOut,    \* how many bytes the program writes
  MaxIn,     \* how many bytes a peer sends
  MaxTime    \* the clock stops here

VARIABLES
  stream,   \* the streambufs, each with its socket
  call,     \* the call the program is in
  now,
  written   \* how many bytes the program has written

vars == <<stream, call, now, written>>

Never == MaxTime + 1

Drop(seq, n) == SubSeq(seq, n + 1, Len(seq))

(* A socket: its connection, what waits to be received, how much the peer  *)
(* has sent, and whether it has finished.                                  *)
Socket(st) == [st |-> st, in |-> <<>>, offered |-> 0, eof |-> FALSE]

(* put is pbase() to pptr(), room is pbase() to epptr(), get is gptr() to  *)
(* egptr(); ec says whether ec_ is an error.  For the properties, owed is  *)
(* what the program has written and the peer has not been sent, and clean  *)
(* tells whether nothing has been forgotten.                               *)
NewStream ==
  [live |-> TRUE, sock |-> Socket("closed"), put |-> <<>>, room |-> PutSize, buffered |-> TRUE,
   get |-> <<>>, ec |-> "", expiry |-> Never, owed |-> <<>>, clean |-> TRUE]

NoStream == [NewStream EXCEPT !.live = FALSE]

Forgets(b, lost) == [b EXCEPT !.clean = @ /\ ~lost, !.owed = IF lost THEN <<>> ELSE @]

init_buffers(b) ==
  [Forgets(b, b.get # <<>> \/ b.put # <<>>)
     EXCEPT !.get = <<>>, !.put = <<>>, !.room = IF b.buffered THEN PutSize ELSE 0]

Opened(b, st) == [b EXCEPT !.sock = Socket(st), !.owed = <<>>, !.clean = TRUE]

Idle == [op |-> "none", s |-> 0, out |-> <<>>, c |-> 0, then |-> "", pc |-> "", left |-> 0]
Free == call = Idle
Set(s, b) == stream' = [stream EXCEPT ![s] = b]
In(s, pc) == call.s = s /\ call.pc = pc
Goto(pc) == call' = [call EXCEPT !.pc = pc]

(* The program uses one streambuf at a time; another may be new, or have   *)
(* been moved from.                                                        *)
Alone(s) == \A other \in Streams \ {s} : stream[other] \in {NoStream, NewStream}
Uses(s) == Free /\ stream[s].live /\ Alone(s)

PastExpiry(s) == stream[s].expiry < now

----------------------------------------------------------------------------
(* Calls that do not wait. *)

construct(s) ==
  /\ Free /\ ~stream[s].live
  /\ \/ Set(s, NewStream)
     \/ Alone(s) /\ Set(s, Opened(NewStream, "up"))
  /\ UNCHANGED <<call, now, written>>

(* The get area is moved with the buffer; the put area begins where the    *)
(* other one's next byte would have gone: what it held is not sent.        *)
Moved(b) ==
  [Forgets(b, b.put # <<>>) EXCEPT !.put = <<>>, !.room = b.room - Len(b.put)]

LeftBehind(b) == NewStream

move_construct(s, other) ==
  /\ Free /\ ~stream[s].live /\ stream[other].live
  /\ stream' = [stream EXCEPT ![s] = Moved(stream[other]), ![other] = LeftBehind(@)]
  /\ UNCHANGED <<call, now, written>>

(* expires_at() and expires_after(). *)
expires_at(s) ==
  /\ Uses(s)
  /\ \E t \in 0 .. MaxTime - 1 : Set(s, [stream[s] EXCEPT !.expiry = t])
  /\ UNCHANGED <<call, now, written>>

expires_after(s) ==
  /\ Uses(s)
  /\ \E d \in 0 .. MaxTime : now + d < MaxTime /\ Set(s, [stream[s] EXCEPT !.expiry = now + d])
  /\ UNCHANGED <<call, now, written>>

setbuf(s) ==
  /\ Uses(s) /\ stream[s].put = <<>>
  /\ Set(s, [stream[s] EXCEPT !.buffered = FALSE, !.room = 0])
  /\ UNCHANGED <<call, now, written>>

(* sputc() and sbumpc() of std::streambuf, while the areas suffice. *)
sputc(s) ==
  /\ Free /\ stream[s].sock.st # "closed" /\ written < MaxOut
  /\ Len(stream[s].put) < stream[s].room
  /\ written' = written + 1
  /\ Set(s, [stream[s] EXCEPT !.put = Append(@, written'), !.owed = IF stream[s].clean THEN Append(@, written') ELSE @])
  /\ UNCHANGED <<call, now>>

sbumpc(s) ==
  /\ Uses(s) /\ stream[s].get # <<>>
  /\ Set(s, [stream[s] EXCEPT !.get = Tail(@)])
  /\ UNCHANGED <<call, now, written>>

----------------------------------------------------------------------------
(* overflow(c): by a sputc() that finds no room, by sync(), close(), a     *)
(* move assignment and the destructor (c is eof: 0).                       *)

Overflow(s, c, then) ==
  LET b == stream[s]
  IN  [Idle EXCEPT !.op = "overflow", !.s = s, !.c = c, !.then = then, !.pc = "loop",
                   !.out = IF b.buffered THEN b.put ELSE IF c = 0 THEN <<>> ELSE <<c>>]

overflow(s) ==
  /\ Free /\ stream[s].sock.st # "closed" /\ written < MaxOut
  /\ Len(stream[s].put) = stream[s].room
  /\ written' = written + 1
  /\ call' = Overflow(s, written', "")
  /\ UNCHANGED <<stream, now>>

sync(s) == Uses(s) /\ call' = Overflow(s, 0, "") /\ UNCHANGED <<stream, now, written>>

close(s) == Uses(s) /\ call' = Overflow(s, 0, "close")
              /\ UNCHANGED <<stream, now, written>>

move_assign(s, other) ==
  /\ Free /\ s # other /\ stream[s].live /\ stream[other].live
  /\ call' = [Overflow(s, 0, "assign") EXCEPT !.left = other]
  /\ UNCHANGED <<stream, now, written>>

destruct(s) ==
  /\ Free /\ stream[s].live
  /\ call' = Overflow(s, 0, "destruct")
  /\ UNCHANGED <<stream, now, written>>

(* What the caller of overflow() does next, with the streambuf b. *)
Closed(b) == init_buffers([Opened(b, "closed") EXCEPT !.ec = "", !.put = <<>>, !.get = <<>>])

Continue(s, b) ==
  /\ call' = Idle
  /\ \/ call.then = "" /\ Set(s, b)
     \/ call.then = "close" /\ Set(s, Closed(b))
     \/ call.then = "destruct" /\ Set(s, NoStream)
     \/ /\ call.then = "assign"
        /\ stream' = [stream EXCEPT ![s] = Moved(stream[call.left]),
                                    ![call.left] = LeftBehind(@)]

(* It fails: the put area stays as it is, also when part of it has gone. *)
OverflowFails(s) ==
  LET b == stream[s]
  IN  Continue(s, [Forgets(b, b.buffered /\ call.out # b.put) EXCEPT !.ec = "error"])

(* Mutant: the put area is not emptied. *)
KeepsSent(b) == [b EXCEPT !.room = PutSize]

(* setp() to the whole put buffer. *)
Emptied(b) == IF b.buffered THEN [b EXCEPT !.put = <<>>, !.room = PutSize] ELSE b

OverflowDone(s, b) ==
  LET e == Emptied(b)
  IN  Continue(s, IF call.c = 0 THEN e
                  ELSE [e EXCEPT !.put = IF b.buffered THEN Append(@, call.c) ELSE @,
                                 !.owed = IF b.buffered /\ b.clean THEN Append(@, call.c) ELSE @])

(* send() takes some bytes, would block, or fails; a socket that is not    *)
(* connected does not take any.                                            *)
SendLoop(s) ==
  /\ call.op = "overflow" /\ In(s, "loop")
  /\ LET b == stream[s]
     IN  \/ call.out = <<>> /\ OverflowDone(s, b)
         \/ call.out # <<>> /\ PastExpiry(s) /\ OverflowFails(s)
         \/ /\ call.out # <<>> /\ ~PastExpiry(s)
            /\ \/ /\ b.sock.st = "up"
                  /\ \E n \in 1 .. Len(call.out) :
                       /\ Set(s, [b EXCEPT !.ec = "", !.owed = IF b.buffered THEN Drop(@, n) ELSE @])
                       /\ call' = [call EXCEPT !.out = Drop(@, n)]
               \/ /\ b.sock.st \in {"up", "progress"}
                  /\ Goto("poll") /\ Set(s, [b EXCEPT !.ec = "error"])
               \/ b.sock.st # "progress" /\ OverflowFails(s)
  /\ UNCHANGED <<now, written>>

----------------------------------------------------------------------------
(* underflow(): by a read that finds the get area empty. *)

underflow(s) ==
  /\ Uses(s) /\ stream[s].get = <<>>
  /\ call' = [Idle EXCEPT !.op = "underflow", !.s = s, !.pc = "loop"]
  /\ UNCHANGED <<stream, now, written>>

Returns(s, ec) == call' = Idle /\ Set(s, [stream[s] EXCEPT !.ec = ec])

RecvLoop(s) ==
  /\ call.op = "underflow" /\ In(s, "loop")
  /\ LET b == stream[s]
     IN  \/ PastExpiry(s) /\ Returns(s, "error")
         \/ /\ ~PastExpiry(s) /\ b.sock.in # <<>>
            /\ \E n \in 1 .. Len(b.sock.in) :
                 Set(s, [b EXCEPT !.ec = "", !.get = SubSeq(b.sock.in, 1, n),
                                  !.sock.in = Drop(@, n)])
            /\ call' = Idle
         \/ ~PastExpiry(s) /\ b.sock.in = <<>> /\ b.sock.eof /\ Returns(s, "error")
         \/ /\ ~PastExpiry(s) /\ b.sock.in = <<>> /\ ~b.sock.eof
            /\ \/ /\ b.sock.st \in {"up", "progress"}
                  /\ Goto("poll") /\ Set(s, [b EXCEPT !.ec = "error"])
               \/ b.sock.st # "progress" /\ Returns(s, "error")
  /\ UNCHANGED <<now, written>>

----------------------------------------------------------------------------
(* connect(): to one endpoint, or to those a resolver finds. *)

Connect(s, n) ==
  /\ call' = [Idle EXCEPT !.op = "connect", !.s = s, !.left = n, !.pc = "loop"]
  /\ Set(s, [init_buffers(stream[s]) EXCEPT !.ec = "error"])

connect_endpoint(s) ==
  /\ Uses(s)
  /\ Connect(s, 1)
  /\ UNCHANGED <<now, written>>

connect_query(s) ==
  /\ Uses(s)
  /\ \/ Connect(s, 2)
     \/ /\ Set(s, [init_buffers(stream[s]) EXCEPT !.ec = "error"])
        /\ UNCHANGED call
  /\ UNCHANGED <<now, written>>

NextEndpoint == call' = [call EXCEPT !.left = @ - 1, !.pc = "loop"]

(* connect_to_endpoints(): the socket is closed and opened again for each. *)
ConnectLoop(s) ==
  /\ call.op = "connect" /\ In(s, "loop")
  /\ LET b == stream[s]
     IN  \/ call.left = 0 /\ call' = Idle /\ UNCHANGED stream
         \/ call.left > 0 /\ PastExpiry(s) /\ Returns(s, "error")
         \/ /\ call.left > 0 /\ ~PastExpiry(s)
            /\ \/ Set(s, [Opened(b, "closed") EXCEPT !.ec = "error"]) /\ NextEndpoint
               \/ Set(s, [Opened(b, "up") EXCEPT !.ec = ""]) /\ call' = Idle
               \/ Set(s, [Opened(b, "refused") EXCEPT !.ec = "error"]) /\ NextEndpoint
               \/ Set(s, [Opened(b, "progress") EXCEPT !.ec = "error"]) /\ Goto("poll")
  /\ UNCHANGED <<now, written>>

(* After poll_connect(), ready or not: SO_ERROR says how the connection    *)
(* has failed, and nothing of one that is still being made.  getsockopt    *)
(* itself may fail.                                                        *)
SocketError(s) ==
  \/ stream[s].sock.st # "refused" /\ Returns(s, "")
  \/ Returns(s, "error")
  \/ /\ stream[s].sock.st = "refused"
     /\ Set(s, [stream[s] EXCEPT !.ec = "error"]) /\ NextEndpoint

----------------------------------------------------------------------------
(* timeout(): poll() ends no later than at the expiry time. *)
TimeoutEnds(s) == stream[s].expiry <= now

(* poll_read, poll_write and poll_connect return: the socket is ready, or  *)
(* the time is up.                                                         *)
Ready(s) ==
  LET b == stream[s]
  IN  IF call.op = "underflow" THEN b.sock.in # <<>> \/ b.sock.eof \/ b.sock.st = "refused"
      ELSE b.sock.st \in {"up", "refused"}

PollReturns(s) ==
  /\ In(s, "poll")
  /\ Ready(s) \/ TimeoutEnds(s)
  /\ IF call.op = "connect" THEN SocketError(s) ELSE Goto("loop") /\ UNCHANGED stream
  /\ UNCHANGED <<now, written>>

(* poll() fails, by a signal: the call or the attempt to connect ends. *)
PollFails(s) ==
  /\ In(s, "poll")
  /\ \/ call.op = "underflow" /\ Returns(s, "error")
     \/ call.op = "overflow" /\ OverflowFails(s)
     \/ /\ call.op = "connect" /\ NextEndpoint
        /\ Set(s, [stream[s] EXCEPT !.ec = "error"])
  /\ UNCHANGED <<now, written>>

----------------------------------------------------------------------------
(* The peer, the kernel and the clock. *)

PeerSends(s) ==
  /\ stream[s].sock.st = "up" /\ ~stream[s].sock.eof /\ stream[s].sock.offered < MaxIn
  /\ Set(s, [stream[s] EXCEPT !.sock.offered = @ + 1,
                              !.sock.in = Append(@, stream[s].sock.offered + 1)])
  /\ UNCHANGED <<call, now, written>>

PeerFinishes(s) ==
  /\ stream[s].sock.st = "up" /\ ~stream[s].sock.eof
  /\ Set(s, [stream[s] EXCEPT !.sock.eof = TRUE])
  /\ UNCHANGED <<call, now, written>>

PeerAnswers(s) ==
  /\ stream[s].sock.st = "progress"
  /\ \E st \in {"up", "refused"} : Set(s, [stream[s] EXCEPT !.sock.st = st])
  /\ UNCHANGED <<call, now, written>>

Tick == now < MaxTime /\ now' = now + 1 /\ UNCHANGED <<stream, call, written>>

Init ==
  /\ stream = [s \in Streams |-> NoStream]
  /\ call = Idle /\ now = 0 /\ written = 0

Program(s) ==
  \/ construct(s) \/ expires_at(s) \/ expires_after(s) \/ setbuf(s) \/ sputc(s) \/ sbumpc(s)
  \/ overflow(s) \/ sync(s) \/ close(s) \/ destruct(s) \/ underflow(s)
  \/ connect_endpoint(s) \/ connect_query(s)
  \/ \E other \in Streams : move_construct(s, other) \/ move_assign(s, other)

CallStep ==
  \E s \in Streams : SendLoop(s) \/ RecvLoop(s) \/ ConnectLoop(s) \/ PollReturns(s)

Next ==
  \/ \E s \in Streams : Program(s) \/ PeerSends(s) \/ PeerFinishes(s) \/ PeerAnswers(s) \/ PollFails(s)
  \/ CallStep \/ Tick

(* The thread that makes the calls runs, and the clock goes on. *)
Spec == Init /\ [][Next]_vars /\ WF_vars(CallStep) /\ WF_vars(Tick)

----------------------------------------------------------------------------
Counted(n) == [i \in 1 .. n |-> i]

(* What was written goes out once and in order, and what the peer sent is  *)
(* read once and in order (what is next to go is what is owed, and what is *)
(* next to be read are the last bytes the peer sent), through partial      *)
(* sends and receives, full and empty buffers, waits, a change to          *)
(* unbuffered output and moves of the streambuf.  It is no longer said of  *)
(* a streambuf, for what it reads as for what it writes, once it has       *)
(* forgotten bytes (not clean): when an overflow failed with part of them  *)
(* sent, when it was moved with bytes in its put area, or when connect()   *)
(* began with bytes in an area.  With a new connection, and with close(),  *)
(* which drops what its flush failed to send, the count begins anew.       *)
StreamInOrder ==
  \A s \in Streams :
    LET b == stream[s]
        sending == call.op = "overflow" /\ call.s = s /\ b.buffered
        unread == b.get \o b.sock.in
    IN  b.live /\ b.clean =>
          /\ b.owed = IF sending THEN call.out ELSE b.put
          /\ unread = Drop(Counted(b.sock.offered), b.sock.offered - Len(unread))

UnderWay == ~Free /\ stream[call.s].expiry # Never

(* A stream with an expiry time never waits for ever: every call on it     *)
(* returns, whatever the peer and the kernel do.                           *)
ExpiryEndsCalls == UnderWay ~> ~UnderWay
=============================================================================
