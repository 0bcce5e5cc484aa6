---------------------------- MODULE ComposedOps ----------------------------
(***************************************************************************)
(* The composed operations read, write and read_until, synchronous and     *)
(* asynchronous, over a stream socket that transfers some of what it is    *)
(* asked for at a time.  One call is followed from its start to its        *)
(* result; the stream decides at every step how much it moves, or fails.   *)
(*                                                                         *)
(* op is the call: its arguments, the state the loop keeps in local        *)
(* variables or the operation object in members, and in phase and asked    *)
(* the pending read_some or write_some.                                    *)
(***************************************************************************)
EXTENDS Buffers

CONSTANTS
  MaxTransfer,  \* default_max_transfer_size
  BufferSequences, \* the buffer sequences a program passes, with their C++ kind
  Conditions,   \* the completion conditions
  Strings,      \* the contents of a dynamic buffer before the call
  MaxSizes,     \* the limits of dynamic buffers
  Inputs,       \* what the peer sends
  MemorySize,   \* the bytes the buffer sequences may cover
  Delims        \* the delimiters of read_until

VARIABLES
  op,      \* the call
  memory,  \* the memory the buffer sequences cover
  feed,    \* what the peer sends
  got,     \* how much of that was read
  output,  \* what was written
  turn     \* flips with every answer of the stream; the fairness is stated on it

vars == <<op, memory, feed, got, output, turn>>

(* What the peer has sent and nobody has read. *)
input == SubSeq(feed, got + 1, Len(feed))

NotFound == SizeMod - 1

----------------------------------------------------------------------------
(* Completion conditions: how much the next transfer may move, 0 for none. *)

transfer_all(ec, n, m) == IF ec # "ok" THEN 0 ELSE MaxTransfer
transfer_at_least(ec, n, m) == IF ec # "ok" \/ n >= m THEN 0 ELSE MaxTransfer
transfer_exactly(ec, n, m) == IF ec # "ok" \/ n >= m THEN 0 ELSE Least(m - n, MaxTransfer)

(* A condition of the user's own in the old style, which says true when    *)
(* the operation is complete.                                           *)
adapt_completion_condition_result(complete) == IF complete THEN 0 ELSE MaxTransfer

check_for_completion(o, ec, n) ==
  CASE o.cond.type = "all"      -> transfer_all(ec, n, o.cond.n)
    [] o.cond.type = "at_least" -> transfer_at_least(ec, n, o.cond.n)
    [] o.cond.type = "exactly"  -> transfer_exactly(ec, n, o.cond.n)
    [] o.cond.type = "bool"     ->
         adapt_completion_condition_result(ec # "ok" \/ n >= o.cond.n)

----------------------------------------------------------------------------
(* A call in progress: pending transfer, result, exception. *)

Ask(o, bs) == [o EXCEPT !.phase = "some", !.asked = bs]
Finish(o, ec, n) == [o EXCEPT !.phase = "done", !.asked = <<>>, !.ec = ec, !.n = n]

(* prepare(n) on the dynamic buffer; the stream is given the n bytes behind its data. *)
AskDyn(o, n) ==
  IF PrepareFails(o.dyn, n)
  THEN [o EXCEPT !.phase = "threw", !.asked = <<>>]
  ELSE Ask([o EXCEPT !.dyn = DynPrepare(@, n)], <<[data |-> o.dyn.size, size |-> n]>>)

(* Reads and writes of buffer sequences: the loop of the synchronous call. *)
read_buffer_sequence(o, ec) ==
  LET max_size == check_for_completion(o, ec, o.bufs.total_consumed)
  IN  IF ConsumingEmpty(o.bufs) \/ max_size = 0
      THEN Finish(o, ec, o.bufs.total_consumed)
      ELSE Ask(o, ConsumingPrepare(o.bufs, max_size))

write_buffer_sequence(o, ec) ==
  LET max_size == check_for_completion(o, ec, o.bufs.total_consumed)
  IN  IF ConsumingEmpty(o.bufs) \/ max_size = 0
      THEN Finish(o, ec, o.bufs.total_consumed)
      ELSE Ask(o, ConsumingPrepare(o.bufs, max_size))

(* The operation objects: the first transfer is started whatever the       *)
(* buffers and the condition are, so that the handler is never invoked     *)
(* from inside the initiating function.                                    *)
StartSequenceOp(o) ==
  Ask(o, ConsumingPrepare(o.bufs, check_for_completion(o, "ok", 0)))

read_op(o, ec, n) ==
  LET c == [o EXCEPT !.bufs = ConsumingConsume(@, n)]
      max_size == check_for_completion(c, ec, c.bufs.total_consumed)
  IN  IF (ec = "ok" /\ n = 0) \/ ConsumingEmpty(c.bufs) \/ max_size = 0
      THEN Finish(c, ec, c.bufs.total_consumed)
      ELSE Ask(c, ConsumingPrepare(c.bufs, max_size))

write_op(o, ec, n) ==
  LET c == [o EXCEPT !.bufs = ConsumingConsume(@, n)]
      max_size == check_for_completion(c, ec, c.bufs.total_consumed)
  IN  IF (ec = "ok" /\ n = 0) \/ ConsumingEmpty(c.bufs) \/ max_size = 0
      THEN Finish(c, ec, c.bufs.total_consumed)
      ELSE Ask(c, ConsumingPrepare(c.bufs, max_size))

(* Dynamic buffers. *)
read_dynamic(o, ec) ==
  LET bytes_available == BytesToRead(o.dyn, check_for_completion(o, ec, o.total))
  IN  IF bytes_available = 0 THEN Finish(o, ec, o.total) ELSE AskDyn(o, bytes_available)

read_dynbuf_op(o, ec, n) ==
  LET c == [o EXCEPT !.total = @ + n, !.dyn = DynCommit(@, n)]
      bytes_available == BytesToRead(c.dyn, check_for_completion(c, ec, c.total))
  IN  IF (ec = "ok" /\ n = 0) \/ bytes_available = 0
      THEN Finish(c, ec, c.total)
      ELSE AskDyn(c, bytes_available)

(* A write of a dynamic buffer is a write of its data, which is consumed   *)
(* once that is over.                                                      *)
ConsumeWhenDone(o) ==
  IF o.phase = "done" THEN [o EXCEPT !.dyn = DynConsume(@, o.n)] ELSE o

write_dynamic(o, ec) == ConsumeWhenDone(write_buffer_sequence(o, ec))
write_dynbuf_op(o, ec, n) == ConsumeWhenDone(write_op(o, ec, n))

----------------------------------------------------------------------------
(* read_until.  Positions count from 0; a search gives the position of a   *)
(* match, of a partial match at the end of the data, or the end.           *)

MatchesAt(data, delim, i) ==
  /\ i + Len(delim) <= Len(data)
  /\ SubSeq(data, i + 1, i + Len(delim)) = delim

PartialAt(data, delim, i) ==
  /\ i < Len(data)
  /\ Len(data) - i < Len(delim)
  /\ SubSeq(data, i + 1, Len(data)) = SubSeq(delim, 1, Len(data) - i)

(* What a search says: a match and where it ends, or where to go on. *)
Match(first, end) == [full |-> TRUE, first |-> first, end |-> end]
NoMatch(next) == [full |-> FALSE, first |-> next, end |-> next]

(* Mutant: a delimiter that arrives in two parts is not recognised. *)
SearchForgetsPartial(data, from, delim) ==
  LET hits == {i \in from .. Len(data) - 1 : MatchesAt(data, delim, i)}
  IN  IF hits = {} THEN NoMatch(Len(data)) ELSE Match(Min(hits), Min(hits) + Len(delim))

partial_search(data, from, delim) ==
  LET hits == {i \in from .. Len(data) - 1 :
                 MatchesAt(data, delim, i) \/ PartialAt(data, delim, i)}
  IN  IF hits = {} THEN NoMatch(Len(data))
      ELSE IF MatchesAt(data, delim, Min(hits)) THEN Match(Min(hits), Min(hits) + Len(delim))
      ELSE NoMatch(Min(hits))

(* std::find, for a delimiter of one character. *)
FindChar(data, from, delim) ==
  LET hits == {i \in from .. Len(data) - 1 : data[i + 1] = delim[1]}
  IN  IF hits = {} THEN NoMatch(Len(data)) ELSE Match(Min(hits), Min(hits) + 1)

(* A match condition of the user: this one finds the delimiter too. *)
match_condition(data, from, delim) == partial_search(data, from, delim)

(* One round of the loops of the synchronous calls. *)
UntilRound(o, r) ==
  IF r.full THEN Finish(o, "ok", r.end)
  ELSE IF o.dyn.size = o.dyn.max_size
  THEN Finish([o EXCEPT !.pos = r.first], "not_found", 0)
  ELSE AskDyn([o EXCEPT !.pos = r.first], BytesToRead(o.dyn, MaxTransfer))

UntilCharLoop(o) == UntilRound(o, FindChar(DynData(o.dyn), o.pos, o.delim))
UntilStringLoop(o) == UntilRound(o, partial_search(DynData(o.dyn), o.pos, o.delim))
UntilMatchLoop(o) == UntilRound(o, match_condition(DynData(o.dyn), o.pos, o.delim))

UntilLoop(o) ==
  CASE o.by = "char"   -> UntilCharLoop(o)
    [] o.by = "string" -> UntilStringLoop(o)
    [] o.by = "match"  -> UntilMatchLoop(o)

(* The operation objects keep the result in search_position_ until the     *)
(* handler is invoked, and read zero bytes once when there is nothing left *)
(* to read for, so that it is not invoked from the initiating function.    *)
EndUntil(o, ec) ==
  Finish(o, IF o.pos = NotFound THEN "not_found" ELSE ec,
            IF ec # "ok" \/ o.pos = NotFound THEN 0 ELSE o.pos)

UntilOp(o, ec, n, r) ==
  LET ended == r.full \/ o.dyn.size = o.dyn.max_size
      c == [o EXCEPT !.pos = IF r.full THEN r.end ELSE IF ended THEN NotFound ELSE r.first]
      bytes_to_read == IF ended THEN 0 ELSE BytesToRead(o.dyn, MaxTransfer)
  IN  IF ~o.started THEN AskDyn([c EXCEPT !.started = TRUE], bytes_to_read)
      ELSE IF ec # "ok" \/ n = 0 THEN EndUntil(o, ec)
      ELSE IF bytes_to_read = 0 THEN EndUntil(c, ec)
      ELSE AskDyn(c, bytes_to_read)

Committed(o, n) == [o EXCEPT !.dyn = DynCommit(@, n)]

read_until_delim_op(o, ec, n) ==
  UntilOp(o, ec, n, FindChar(DynData(o.dyn), o.pos, o.delim))
read_until_delim_string_op(o, ec, n) ==
  UntilOp(o, ec, n, partial_search(DynData(o.dyn), o.pos, o.delim))
read_until_match_op(o, ec, n) ==
  UntilOp(o, ec, n, match_condition(DynData(o.dyn), o.pos, o.delim))

InvokeUntilOp(o, ec, n) ==
  CASE o.by = "char"   -> read_until_delim_op(o, ec, n)
    [] o.by = "string" -> read_until_delim_string_op(o, ec, n)
    [] o.by = "match"  -> read_until_match_op(o, ec, n)

----------------------------------------------------------------------------
(* The stream's turn: n bytes of what was asked are transferred. *)

Reading == op.fn \in {"read", "read_dyn", "until"}

Received(n) ==
  IF op.fn = "read"
  THEN /\ LET addresses == Addresses(Native(op.asked))
          IN  memory' = [a \in DOMAIN memory |->
                LET at == {i \in 1 .. n : addresses[i] = a}
                IN  IF at = {} THEN memory[a] ELSE input[Min(at)]]
       /\ UNCHANGED <<output>>
  ELSE UNCHANGED <<memory, output>>

(* The bytes read into the prepared part of a dynamic buffer. *)
Filled(n) ==
  IF op.fn \in {"read_dyn", "until"}
  THEN [op EXCEPT !.dyn.chars = [i \in DOMAIN @ |->
          IF i \in op.dyn.size + 1 .. op.dyn.size + n THEN input[i - op.dyn.size] ELSE @[i]]]
  ELSE op

Byte(a) == IF op.fn = "write_dyn" THEN op.dyn.chars[a + 1] ELSE memory[a]

Sent(n) ==
  /\ LET addresses == Addresses(Native(op.asked))
     IN  output' = output \o [i \in 1 .. n |-> Byte(addresses[i])]
  /\ UNCHANGED <<memory, feed, got>>

(* The composed operation goes on with the outcome of the transfer. *)
Resume(o, ec, n) ==
  CASE o.fn = "read" /\ ~o.async ->
         read_buffer_sequence([o EXCEPT !.bufs = ConsumingConsume(@, n)], ec)
    [] o.fn = "read" /\ o.async -> read_op(o, ec, n)
    [] o.fn = "write" /\ ~o.async ->
         write_buffer_sequence([o EXCEPT !.bufs = ConsumingConsume(@, n)], ec)
    [] o.fn = "write" /\ o.async -> write_op(o, ec, n)
    [] o.fn = "read_dyn" /\ ~o.async ->
         read_dynamic([o EXCEPT !.dyn = DynCommit(@, n), !.total = @ + n], ec)
    [] o.fn = "read_dyn" /\ o.async -> read_dynbuf_op(o, ec, n)
    [] o.fn = "write_dyn" /\ ~o.async ->
         write_dynamic([o EXCEPT !.bufs = ConsumingConsume(@, n)], ec)
    [] o.fn = "write_dyn" /\ o.async -> write_dynbuf_op(o, ec, n)
    [] o.fn = "until" /\ ~o.async ->
         IF ec # "ok" THEN Finish(Committed(o, n), ec, 0) ELSE UntilLoop(Committed(o, n))
    [] o.fn = "until" /\ o.async -> InvokeUntilOp(Committed(o, n), ec, n)

(* read_some and write_some of a stream: some of what is there, the end of *)
(* the stream, an error, or nothing at once if every buffer is empty.      *)
Answers == op.phase = "some" /\ turn' = 1 - turn

Transfer ==
  /\ Answers
  /\ total_size(op.asked) > 0
  /\ \E n \in 1 .. total_size(op.asked) :
       IF Reading
       THEN /\ n <= Len(input)
            /\ Received(n)
            /\ got' = got + n
            /\ UNCHANGED feed
            /\ op' = Resume(Filled(n), "ok", n)
       ELSE Sent(n) /\ op' = Resume(op, "ok", n)

TransferNothing ==
  /\ Answers
  /\ all_empty(op.asked)
  /\ op' = Resume(op, "ok", 0)
  /\ UNCHANGED <<memory, feed, got, output>>

TransferEof ==
  /\ Answers /\ Reading
  /\ ~all_empty(op.asked) /\ input = <<>>
  /\ op' = Resume(op, "eof", 0)
  /\ UNCHANGED <<memory, feed, got, output>>

TransferFails ==
  /\ Answers
  /\ ~all_empty(op.asked)
  /\ op' = Resume(op, "error", 0)
  /\ UNCHANGED <<memory, feed, got, output>>

----------------------------------------------------------------------------
(* The calls. *)

NoCondition == [type |-> "all", n |-> 0]
NoBuffers == consuming_buffers(<<>>, "many")
NoString == dynamic_buffer(<<>>, 0)

NoCall ==
  [n |-> 0, ec |-> "ok", cond |-> NoCondition, phase |-> "idle", asked |-> <<>>,
   dyn |-> NoString, bufs |-> NoBuffers, total |-> 0, delim |-> <<>>, by |-> "char",
   pos |-> 0, fn |-> "none", async |-> FALSE, started |-> FALSE, before |-> <<>>]

(* before is what a dynamic buffer held when the call was made. *)
WithSequence(fn, async, s, cond) ==
  [NoCall EXCEPT !.fn = fn, !.async = async, !.cond = cond,
                 !.bufs = consuming_buffers(s.buffers, s.kind)]

WithDynamic(fn, async, chars, max, cond) ==
  [NoCall EXCEPT !.fn = fn, !.async = async, !.cond = cond,
                 !.dyn = dynamic_buffer(chars, max), !.before = chars]

WithData(o) ==
  [o EXCEPT !.bufs = consuming_buffers(<<[data |-> 0, size |-> o.dyn.size]>>, "single")]

Call(o) ==
  /\ op.phase = "idle"
  /\ op' = o
  /\ UNCHANGED <<memory, feed, got, output, turn>>

(* Buffer sequences; without a condition it is transfer_all(). *)
StartRead(s, cond) == Call(read_buffer_sequence(WithSequence("read", FALSE, s, cond), "ok"))
read_all(s) == StartRead(s, NoCondition)
read_some_of(s, cond) == StartRead(s, cond)

start_read_buffer_sequence_op(s, cond) ==
  Call(StartSequenceOp(WithSequence("read", TRUE, s, cond)))
async_read_all(s) == start_read_buffer_sequence_op(s, NoCondition)
async_read_some_of(s, cond) == start_read_buffer_sequence_op(s, cond)

StartWrite(s, cond) == Call(write_buffer_sequence(WithSequence("write", FALSE, s, cond), "ok"))
write_all(s) == StartWrite(s, NoCondition)
write_some_of(s, cond) == StartWrite(s, cond)

start_write_buffer_sequence_op(s, cond) ==
  Call(StartSequenceOp(WithSequence("write", TRUE, s, cond)))
async_write_all(s) == start_write_buffer_sequence_op(s, NoCondition)
async_write_some_of(s, cond) == start_write_buffer_sequence_op(s, cond)

(* Dynamic buffers. *)
StartDynamicRead(chars, max, cond) ==
  Call(read_dynamic(WithDynamic("read_dyn", FALSE, chars, max, cond), "ok"))
read_all_dynamic(chars, max) == StartDynamicRead(chars, max, NoCondition)
read_some_dynamic(chars, max, cond) == StartDynamicRead(chars, max, cond)

StartDynamicReadOp(chars, max, cond) ==
  LET o == WithDynamic("read_dyn", TRUE, chars, max, cond)
  IN  Call(AskDyn(o, BytesToRead(o.dyn, check_for_completion(o, "ok", 0))))
async_read_all_dynamic(chars, max) == StartDynamicReadOp(chars, max, NoCondition)
async_read_some_dynamic(chars, max, cond) == StartDynamicReadOp(chars, max, cond)

StartDynamicWrite(chars, max, cond) ==
  Call(write_dynamic(WithData(WithDynamic("write_dyn", FALSE, chars, max, cond)), "ok"))
write_all_dynamic(chars, max) == StartDynamicWrite(chars, max, NoCondition)
write_some_dynamic(chars, max, cond) == StartDynamicWrite(chars, max, cond)

StartDynamicWriteOp(chars, max, cond) ==
  Call(StartSequenceOp(WithData(WithDynamic("write_dyn", TRUE, chars, max, cond))))
async_write_all_dynamic(chars, max) == StartDynamicWriteOp(chars, max, NoCondition)
async_write_some_dynamic(chars, max, cond) == StartDynamicWriteOp(chars, max, cond)

Until(async, chars, max, by, delim) ==
  [WithDynamic("until", async, chars, max, NoCondition) EXCEPT !.by = by, !.delim = delim]

read_until_char(chars, max, delim) ==
  Len(delim) = 1 /\ Call(UntilLoop(Until(FALSE, chars, max, "char", delim)))
read_until_string(chars, max, delim) ==
  Call(UntilLoop(Until(FALSE, chars, max, "string", delim)))
read_until_match(chars, max, delim) ==
  Call(UntilLoop(Until(FALSE, chars, max, "match", delim)))
async_read_until_char(chars, max, delim) ==
  Len(delim) = 1 /\ Call(InvokeUntilOp(Until(TRUE, chars, max, "char", delim), "ok", 0))
async_read_until_string(chars, max, delim) ==
  Call(InvokeUntilOp(Until(TRUE, chars, max, "string", delim), "ok", 0))
async_read_until_match(chars, max, delim) ==
  Call(InvokeUntilOp(Until(TRUE, chars, max, "match", delim), "ok", 0))

Init ==
  /\ op = NoCall
  /\ memory = [a \in 0 .. MemorySize - 1 |-> a + 10]
  /\ feed \in Inputs
  /\ got = 0
  /\ output = <<>>
  /\ turn = 0

Next ==
  \/ \E s \in BufferSequences :
       \/ read_all(s) \/ async_read_all(s) \/ write_all(s) \/ async_write_all(s)
       \/ \E cond \in Conditions :
            \/ read_some_of(s, cond) \/ async_read_some_of(s, cond)
            \/ write_some_of(s, cond) \/ async_write_some_of(s, cond)
  \/ \E chars \in Strings, max \in MaxSizes :
       \/ read_all_dynamic(chars, max) \/ async_read_all_dynamic(chars, max)
       \/ write_all_dynamic(chars, max) \/ async_write_all_dynamic(chars, max)
       \/ \E cond \in Conditions :
            \/ read_some_dynamic(chars, max, cond) \/ async_read_some_dynamic(chars, max, cond)
            \/ write_some_dynamic(chars, max, cond) \/ async_write_some_dynamic(chars, max, cond)
  \/ \E chars \in Strings, max \in MaxSizes, delim \in Delims :
       \/ read_until_char(chars, max, delim) \/ async_read_until_char(chars, max, delim)
       \/ read_until_string(chars, max, delim) \/ async_read_until_string(chars, max, delim)
       \/ read_until_match(chars, max, delim) \/ async_read_until_match(chars, max, delim)
  \/ Transfer \/ TransferNothing \/ TransferEof \/ TransferFails

(* The stream answers every transfer sooner or later. *)
Spec == Init /\ [][Next]_vars /\ WF_turn(Answers)

----------------------------------------------------------------------------
(* Properties. *)

Bytes(mem, bs) ==
  LET addresses == Addresses(bs) IN [i \in DOMAIN addresses |-> mem[addresses[i]]]

UnderWay == op.phase = "some"
Ended == op.phase \in {"done", "threw"}

(* What the call has moved so far, and from where. *)
Delivered ==
  CASE op.fn = "read" ->
         SubSeq(Bytes(memory, op.bufs.buffers), 1, op.bufs.total_consumed)
    [] op.fn \in {"read_dyn", "until"} ->
         SubSeq(DynData(op.dyn), Len(op.before) + 1, op.dyn.size)
    [] OTHER -> output

Source ==
  CASE op.fn = "write" -> Bytes(memory, op.bufs.buffers)
    [] op.fn = "write_dyn" -> op.before
    [] OTHER -> feed

Call_ == INSTANCE StreamCall WITH
  source <- Source, moved <- Delivered,
  call <- IF op.phase = "idle" THEN "idle" ELSE IF Ended THEN "ended" ELSE "running"

(* Partial transfers are resumed where the last one stopped: every read()  *)
(* and write(), synchronous or not, whatever way the stream cuts the data  *)
(* and wherever empty buffers lie in the sequence, moves a prefix of the   *)
(* bytes in their order and nothing after the result was reported.         *)
TransfersInOrder == Call_!Spec

(* The completion conditions decide when a call is over: bytes_transferred *)
(* is what was moved; transfer_all() without an error filled the buffers;  *)
(* transfer_exactly(n) never moves an n+1st byte; transfer_at_least(n)     *)
(* does not stop short of n; nobody asks for more than max_size() allows.  *)
ConditionHonoured ==
  LET room == CASE op.fn \in {"read", "write", "write_dyn"} -> op.bufs.total_size
                [] OTHER -> op.dyn.max_size - Len(op.before)
  IN  op.phase = "done" /\ op.fn # "until" =>
        /\ op.n = Len(Delivered)
        /\ op.cond.type = "exactly" => op.n <= op.cond.n
        /\ op.ec = "ok" =>
             \/ op.n = room
             \/ op.cond.type # "all" /\ op.n >= op.cond.n

(* A dynamic buffer keeps what it held: reads append to it within its      *)
(* max_size(), a write removes what was written and no more, and no        *)
(* uncommitted bytes of prepare() are left behind by a call that returned. *)
DynamicBufferKept ==
  op.phase = "done" /\ op.fn \in {"read_dyn", "write_dyn", "until"} =>
    /\ Len(op.dyn.chars) = op.dyn.size
    /\ op.fn = "write_dyn" => DynData(op.dyn) = SubSeq(op.before, op.n + 1, Len(op.before))
    /\ op.fn # "write_dyn" => IsPrefix(op.before, DynData(op.dyn))
    /\ op.dyn.size <= Greatest(op.dyn.max_size, Len(op.before))

Occurrences(o) == {i \in 0 .. o.dyn.size : MatchesAt(DynData(o.dyn), o.delim, i)}

(* read_until() never asks for more data, and never gives up, while the    *)
(* delimiter is in the buffer, also when it came in two parts or was there *)
(* before the call.                                                        *)
NoMissedMatch ==
  op.fn = "until" =>
    /\ op.phase = "some" /\ ~all_empty(op.asked) => Occurrences(op) = {}
    /\ op.phase = "done" /\ op.ec = "not_found" =>
         Occurrences(op) = {} /\ op.dyn.size = op.dyn.max_size
    /\ op.phase = "done" /\ op.ec = "eof" => Occurrences(op) = {}

(* read_until() reports the end of the first delimiter of the buffer.      *)
FirstMatch ==
  op.fn = "until" /\ op.phase = "done" /\ op.ec = "ok" =>
    /\ Occurrences(op) # {}
    /\ op.n = Min(Occurrences(op)) + Len(op.delim)

(* No call runs for ever on a stream that keeps transferring something: no *)
(* loop of read(), write() or read_until() asks for zero bytes again and   *)
(* again, and no operation object does.                                    *)
CallReturns == UnderWay ~> ~UnderWay
=============================================================================
