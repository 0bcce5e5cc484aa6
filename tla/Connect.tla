------------------------------ MODULE Connect ------------------------------
(***************************************************************************)
(* connect() and async_connect() over a sequence of endpoints: the         *)
(* blocking loop, range_connect_op and iterator_connect_op, on a socket    *)
(* that its owner may close or cancel while an attempt is under way.       *)
(* Endpoints are the positions 1 .. N of the sequence; N + 1 is the end.   *)
(***************************************************************************)
EXTENDS Naturals, Sequences, SequencesExt, FiniteSets, FiniteSetsExt

CONSTANT MaxEndpoints   \* the longest sequence

VARIABLES
  conn,     \* the call
  open,     \* is the socket open?
  peer,     \* the endpoint it is connected to, or 0
  tried,    \* the attempts made: <<endpoint, error>>
  closed    \* did the owner close the socket during the call?

vars == <<conn, open, peer, tried, closed>>

NoCall ==
  [how |-> "none", phase |-> "idle", last |-> 0, accepts |-> {}, iter |-> 1,
   ec |-> "ok", result |-> 0]

End == conn.last + 1

----------------------------------------------------------------------------
(* The connect condition is a set of endpoints it says yes to; the default *)
(* condition says yes to all.                                              *)

call_connect_condition(c, i) ==
  LET found == {k \in i .. c.last : k \in c.accepts}
  IN  IF found = {} THEN c.last + 1 ELSE Min(found)

check_condition(c) == [c EXCEPT !.iter = call_connect_condition(c, c.iter)]

(* An attempt: the socket is closed, opened for the endpoint's protocol,   *)
(* which may fail, and connected.                                          *)
OpenFails(c) ==
  /\ open' = FALSE /\ peer' = 0
  /\ tried' = Append(tried, <<c.iter, "open_failed">>)

Opened(c) == open' = TRUE /\ peer' = 0

Connected(c) == open' = TRUE /\ peer' = c.iter /\ tried' = Append(tried, <<c.iter, "ok">>)

Refused(c) == open' = TRUE /\ peer' = 0 /\ tried' = Append(tried, <<c.iter, "refused">>)

Done(c, ec, result) == [c EXCEPT !.phase = "done", !.ec = ec, !.result = result]

----------------------------------------------------------------------------
(* The synchronous call. *)

Begin(how, n, accepts) ==
  [how |-> how, phase |-> "running", last |-> n, accepts |-> accepts, iter |-> 1,
   ec |-> "ok", result |-> 0]

default_connect_condition(n) == 1 .. n

connect(how, n, accepts) ==
  /\ conn.phase = "idle"
  /\ conn' = Begin(how, n, accepts)
  /\ UNCHANGED <<open, peer, tried, closed>>

connect_range(n) == connect("sync_range", n, default_connect_condition(n))
connect_iterator(n) == connect("sync_iterator", n, default_connect_condition(n))
connect_range_if(n, accepts) == connect("sync_range", n, accepts)
connect_iterator_if(n, accepts) == connect("sync_iterator", n, accepts)

(* A range gives back an endpoint, a default one after an error.           *)
deref_connect_result(c) == IF c.how = "sync_range" THEN 0 ELSE c.last + 1

(* One round of the loop; the last one gives up. *)
ConnectRound ==
  /\ conn.how \in {"sync_range", "sync_iterator"} /\ conn.phase = "running"
  /\ UNCHANGED closed
  /\ LET c == check_condition(conn)
     IN  \/ /\ c.iter = End
            /\ conn' = Done(c, IF c.ec = "ok" THEN "not_found" ELSE c.ec,
                           deref_connect_result(c))
            /\ UNCHANGED <<open, peer, tried>>
         \/ /\ c.iter # End
            /\ Connected(c)
            /\ conn' = Done(c, "ok", c.iter)
         \/ /\ c.iter # End
            /\ \/ Refused(c) /\ conn' = [c EXCEPT !.ec = "refused", !.iter = @ + 1]
               \/ OpenFails(c) /\ conn' = [c EXCEPT !.ec = "open_failed", !.iter = @ + 1]

----------------------------------------------------------------------------
(* The operation objects.  Attempt starts the attempt at c.iter and leaves *)
(* the object waiting in the socket ("waiting") or in the queue of the     *)
(* scheduler ("posted") with the error its handler will get.               *)

Attempt(c) ==
  \/ OpenFails(c) /\ conn' = [c EXCEPT !.phase = "posted", !.ec = "open_failed"]
  \/ Opened(c) /\ UNCHANGED tried /\ conn' = [c EXCEPT !.phase = "waiting"]

(* start = 1 *)
StartConnectOp(c) ==
  \/ c.iter # c.last + 1 /\ Attempt(c)
  \/ /\ c.iter = c.last + 1
     /\ conn' = [c EXCEPT !.phase = "posted", !.ec = "not_found"]
     /\ UNCHANGED <<open, peer, tried>>

StartOp(how, n, accepts) ==
  /\ conn.phase = "idle"
  /\ StartConnectOp(check_condition(Begin(how, n, accepts)))
  /\ UNCHANGED closed

async_connect_range(n) == StartOp("range", n, default_connect_condition(n))
async_connect_iterator(n) == StartOp("iterator", n, default_connect_condition(n))
async_connect_range_if(n, accepts) == StartOp("range", n, accepts)
async_connect_iterator_if(n, accepts) == StartOp("iterator", n, accepts)

(* Mutant: a successful attempt is believed without a look at the socket. *)
OpBelievesError(c, isOpen) ==
  IF c.iter = c.last + 1 \/ c.ec = "ok" THEN Done(c, c.ec, c.iter)
  ELSE check_condition([c EXCEPT !.iter = @ + 1])

(* operator()(ec) up to the next attempt: the object is done, or stands at *)
(* the endpoint to try next.                                               *)
connect_op(c, isOpen) ==
  IF c.iter = c.last + 1 THEN Done(c, c.ec, c.iter)
  ELSE IF ~isOpen THEN Done(c, "operation_aborted", c.iter)
  ELSE IF c.ec = "ok" THEN Done(c, "ok", c.iter)
  ELSE check_condition([c EXCEPT !.iter = @ + 1])

(* The handler of a range gets an endpoint, a default one after an error;  *)
(* the handler of an iterator gets the iterator where it stands.           *)
range_connect_op(c) ==
  LET d == connect_op(c, open)
  IN  IF d.phase = "done" /\ d.ec # "ok" THEN [d EXCEPT !.result = 0] ELSE d
iterator_connect_op(c) == connect_op(c, open)

(* The scheduler invokes the operation object. *)
Invoke ==
  /\ conn.phase = "posted"
  /\ UNCHANGED closed
  /\ LET d == IF conn.how = "range" THEN range_connect_op(conn) ELSE iterator_connect_op(conn)
     IN  \/ /\ d.phase = "done"
            /\ conn' = d
            /\ UNCHANGED <<open, peer, tried>>
         \/ /\ d.phase # "done" /\ d.iter = End
            /\ conn' = Done(d, d.ec, IF d.how = "range" THEN 0 ELSE End)
            /\ UNCHANGED <<open, peer, tried>>
         \/ /\ d.phase # "done" /\ d.iter # End
            /\ Attempt(d)

----------------------------------------------------------------------------
(* The kernel ends the attempt. *)
AttemptEnds ==
  /\ conn.phase = "waiting"
  /\ UNCHANGED closed
  /\ \/ Connected(conn) /\ conn' = [conn EXCEPT !.phase = "posted", !.ec = "ok"]
     \/ Refused(conn) /\ conn' = [conn EXCEPT !.phase = "posted", !.ec = "refused"]

(* The owner closes the socket: a waiting attempt is aborted; one that has *)
(* ended and is queued keeps its error.                                    *)
close ==
  /\ conn.phase \in {"waiting", "posted"}
  /\ open
  /\ open' = FALSE /\ peer' = 0 /\ closed' = TRUE
  /\ \/ conn.phase = "posted" /\ UNCHANGED <<conn, tried>>
     \/ /\ conn.phase = "waiting"
        /\ conn' = [conn EXCEPT !.phase = "posted", !.ec = "operation_aborted"]
        /\ tried' = Append(tried, <<conn.iter, "operation_aborted">>)

(* cancel() leaves the socket open: the object goes on to the next endpoint. *)
cancel ==
  /\ conn.phase = "waiting"
  /\ conn' = [conn EXCEPT !.phase = "posted", !.ec = "operation_aborted"]
  /\ tried' = Append(tried, <<conn.iter, "operation_aborted">>)
  /\ UNCHANGED <<open, peer, closed>>

Init ==
  /\ conn = NoCall
  /\ open \in BOOLEAN
  /\ peer = 0
  /\ tried = <<>>
  /\ closed = FALSE

Next ==
  \/ \E n \in 0 .. MaxEndpoints :
       \/ connect_range(n) \/ connect_iterator(n)
       \/ async_connect_range(n) \/ async_connect_iterator(n)
       \/ \E accepts \in SUBSET (1 .. n) :
            \/ connect_range_if(n, accepts) \/ connect_iterator_if(n, accepts)
            \/ async_connect_range_if(n, accepts) \/ async_connect_iterator_if(n, accepts)
  \/ ConnectRound \/ Invoke \/ AttemptEnds \/ close \/ cancel

(* The loop runs on, the scheduler invokes what is queued and the kernel   *)
(* ends an attempt, if only by its own timeout.                            *)
Spec ==
  /\ Init /\ [][Next]_vars
  /\ WF_vars(ConnectRound) /\ WF_vars(Invoke) /\ WF_vars(AttemptEnds)

----------------------------------------------------------------------------
UnderWay == conn.phase \notin {"idle", "done"}
Finished == conn.phase = "done"
(* Whoever gets a success has an open socket, connected to the endpoint    *)
(* that is reported, and to one the condition accepted - although the      *)
(* owner may close the socket between the connection and the handler.      *)
SuccessIsConnected ==
  Finished /\ conn.ec = "ok" =>
    open /\ peer = conn.result /\ conn.result \in conn.accepts

(* The operation object found the socket closed and gave up, with          *)
(* operation_aborted and the iterator where it stands.  Its owner closed   *)
(* it - or the object's own last attempt could not open it, which the      *)
(* object cannot tell from a close.                                        *)
FoundClosed ==
  /\ conn.ec = "operation_aborted" /\ ~open
  /\ closed \/ (tried # <<>> /\ Last(tried)[2] = "open_failed")

(* Every endpoint is tried at most once, in the order of the sequence,     *)
(* without skipping one that the condition accepts; a failure is reported  *)
(* only after the last of them.  The exception is FoundClosed: connect.hpp *)
(* promises "once for each endpoint in the sequence, until a connection is *)
(* successfully established" (transmit/connect.hpp:452-454), and leaves    *)
(* the rest untried there, even when it was an open that failed.           *)
EveryEndpointInTurn ==
  LET made == [i \in DOMAIN tried |-> tried[i][1]]
  IN  /\ \A i, j \in DOMAIN made : i < j => made[i] < made[j]
      /\ \A i \in DOMAIN made :
           {k \in conn.accepts : k <= made[i]} = {made[j] : j \in 1 .. i}
      /\ Finished /\ conn.ec # "ok" => ToSet(made) = conn.accepts \/ FoundClosed

(* The result of a failed call is not_found if there was nothing to try,   *)
(* and the error of the last attempt otherwise; the endpoint is a default  *)
(* one and the iterator is the end.  The exception is FoundClosed again:   *)
(* against transmit/connect.hpp:466-468 the error is not the last one that *)
(* occurred, and against :544-545 the iterator is not the end.             *)
FailureExplained ==
  Finished /\ conn.ec # "ok" =>
    /\ \/ conn.ec = "not_found" /\ conn.accepts = {}
       \/ tried # <<>> /\ conn.ec = Last(tried)[2]
       \/ FoundClosed
    /\ \/ conn.result = (IF conn.how \in {"range", "sync_range"} THEN 0 ELSE End)
       \/ FoundClosed /\ conn.how = "iterator"

(* A call that was made returns or has its handler invoked.                *)
CallEnds == UnderWay ~> ~UnderWay
=============================================================================
