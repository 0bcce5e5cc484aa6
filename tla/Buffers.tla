------------------------------ MODULE Buffers ------------------------------
(***************************************************************************)
(* Buffer sequences and dynamic buffers as operators: buffer arithmetic,   *)
(* buffer_copy, the iterator over the bytes of a sequence, the native      *)
(* vector handed to the kernel, consuming_buffers and dynamic_*_buffer.    *)
(*                                                                         *)
(* A buffer is a range of a flat memory, [data |-> address, size |-> n];   *)
(* a memory is a function from addresses to bytes.  std::size_t is         *)
(* unsigned and wraps at SizeMod.                                          *)
(***************************************************************************)
EXTENDS Integers, Sequences, SequencesExt, FiniteSetsExt

CONSTANTS
  SizeMod,     \* 2^(bits of std::size_t)
  MaxNative,   \* buffer_sequence_adapter_base::max_buffers
  MaxPrepared, \* prepared_buffers::max_buffers
  Chunk        \* the 512 of read() and read_until()

ASSUME BuffersAssumption ==
  /\ SizeMod \in Nat \ {0}
  /\ MaxNative \in Nat \ {0, 1}
  /\ MaxPrepared \in 1 .. MaxNative
  /\ Chunk \in 1 .. SizeMod - 1

Least(a, b) == IF b < a THEN b ELSE a
Greatest(a, b) == IF a < b THEN b ELSE a

(* a - b of two values of std::size_t. *)
SizeMinus(a, b) == (a - b) % SizeMod

----------------------------------------------------------------------------
(* Single buffers and sequences of buffers. *)

NullBuffer == [data |-> 0, size |-> 0]

(* buffer + n *)
Plus(b, n) ==
  LET offset == Least(n, b.size)
  IN  [data |-> b.data + offset, size |-> b.size - offset]

(* buffer(b, max_size_in_bytes) *)
Limit(b, n) == [b EXCEPT !.size = Least(@, n)]

(* buffer() of raw memory, and of a container [data, n, width] of n        *)
(* elements of width bytes; an empty vector or string may have no memory.  *)
of_memory(data, size) == [data |-> data, size |-> size]
of_array(c) == of_memory(c.data, c.n * c.width)
of_std_array(c) == of_memory(c.data, c.n * c.width)
of_vector(c) == of_memory(IF c.n = 0 THEN 0 ELSE c.data, c.n * c.width)
of_string(c) == of_memory(IF c.n = 0 THEN 0 ELSE c.data, c.n * c.width)

(* Upto(bs)[k]: the bytes in the first k buffers. *)
Upto(bs) ==
  LET sum[k \in 0 .. Len(bs)] == IF k = 0 THEN 0 ELSE sum[k - 1] + bs[k].size
  IN  [k \in 0 .. Len(bs) |-> sum[k]]

buffer_size(bs) == Upto(bs)[Len(bs)]

(* The addresses of a sequence in the order of its bytes. *)
Addresses(bs) ==
  LET all[k \in 0 .. Len(bs)] ==
        IF k = 0 THEN <<>> ELSE all[k - 1] \o [i \in 1 .. bs[k].size |-> bs[k].data + i - 1]
  IN  all[Len(bs)]

----------------------------------------------------------------------------
(* buffer_copy: the four loops return what was copied and the new memory.  *)

Moved(mem, n) == [memory |-> mem, n |-> n]

buffer_copy_1(mem, target, source) ==
  LET n == Least(target.size, source.size)
  IN  Moved([a \in DOMAIN mem |->
               IF a \in target.data .. target.data + n - 1
               THEN mem[source.data + a - target.data] ELSE mem[a]], n)

CopyOneOne(mem, target, source, max) ==
  buffer_copy_1(mem, target, Limit(source, max))

CopyOneMany(mem, target, sources, max) ==
  LET after[k \in 0 .. Len(sources)] ==
        IF k = 0 THEN [memory |-> mem, n |-> 0, left |-> Limit(target, max)]
        ELSE LET acc == after[k - 1]
                 c == buffer_copy_1(acc.memory, acc.left, sources[k])
             IN  [memory |-> c.memory, n |-> acc.n + c.n, left |-> Plus(acc.left, c.n)]
      last == after[Len(sources)]
  IN  Moved(last.memory, last.n)

CopyManyOne(mem, targets, source, max) ==
  LET after[k \in 0 .. Len(targets)] ==
        IF k = 0 THEN [memory |-> mem, n |-> 0, left |-> Limit(source, max)]
        ELSE LET acc == after[k - 1]
                 c == buffer_copy_1(acc.memory, targets[k], acc.left)
             IN  [memory |-> c.memory, n |-> acc.n + c.n, left |-> Plus(acc.left, c.n)]
      last == after[Len(targets)]
  IN  Moved(last.memory, last.n)

(* Both sides advance; every round ends at least one of the two buffers    *)
(* unless max is used up, so that Len + Len + 1 rounds are enough.         *)
CopyManyMany(mem, targets, sources, max) ==
  LET Step(a) ==
        LET t == Plus(targets[a.t], a.toff)
            s == Plus(sources[a.s], a.soff)
            c == buffer_copy_1(a.memory, t, Limit(s, max - a.n))
        IN  [memory |-> c.memory, n |-> a.n + c.n,
             t |-> IF c.n = t.size THEN a.t + 1 ELSE a.t,
             toff |-> IF c.n = t.size THEN 0 ELSE a.toff + c.n,
             s |-> IF c.n = s.size THEN a.s + 1 ELSE a.s,
             soff |-> IF c.n = s.size THEN 0 ELSE a.soff + c.n]
      Running(a) == a.n # max /\ a.t <= Len(targets) /\ a.s <= Len(sources)
      round[k \in 0 .. Len(targets) + Len(sources) + 1] ==
        IF k = 0 THEN [memory |-> mem, n |-> 0, t |-> 1, toff |-> 0, s |-> 1, soff |-> 0]
        ELSE LET a == round[k - 1] IN IF Running(a) THEN Step(a) ELSE a
      last == round[Len(targets) + Len(sources) + 1]
  IN  Moved(last.memory, last.n)

(* The overloads are chosen by the cardinality of the two sequences. *)
buffer_copy(mem, targets, sources, max) ==
  IF Len(targets) = 1 /\ Len(sources) = 1
  THEN CopyOneOne(mem, targets[1], sources[1], max)
  ELSE IF Len(targets) = 1 THEN CopyOneMany(mem, targets[1], sources, max)
  ELSE IF Len(sources) = 1 THEN CopyManyOne(mem, targets, sources[1], max)
  ELSE CopyManyMany(mem, targets, sources, max)

----------------------------------------------------------------------------
(* buffers_iterator: current buffer (an index, Len + 1 at the end), the    *)
(* copy of that buffer, the position in it and the position overall.       *)

Iter(cur, buf, off, pos) ==
  [current |-> cur, buffer |-> buf, off |-> off, position |-> pos]

(* The first buffer from index i on that is not empty, or the end. *)
NonEmptyFrom(bs, i) ==
  LET found == {k \in i .. Len(bs) : bs[k].size > 0}
  IN  IF found = {} THEN Len(bs) + 1 ELSE Min(found)

(* The last buffer before index i that is not empty, or 0. *)
NonEmptyBefore(bs, i) ==
  LET found == {k \in 1 .. i - 1 : bs[k].size > 0}
  IN  IF found = {} THEN 0 ELSE Max(found)

IterBegin(bs) ==
  LET i == NonEmptyFrom(bs, 1)
  IN  Iter(i, IF i <= Len(bs) THEN bs[i] ELSE IF bs = <<>> THEN NullBuffer ELSE Last(bs), 0, 0)

IterEnd(bs) == Iter(Len(bs) + 1, NullBuffer, 0, buffer_size(bs))

IterDereference(mem, it) == mem[it.buffer.data + it.off]

IterIncrement(bs, it) ==
  IF it.off + 1 # it.buffer.size
  THEN Iter(it.current, it.buffer, it.off + 1, it.position + 1)
  ELSE LET i == NonEmptyFrom(bs, it.current + 1)
       IN  Iter(i, IF i <= Len(bs) THEN bs[i]
                   ELSE IF it.current < Len(bs) THEN Last(bs) ELSE it.buffer,
                0, it.position + 1)

IterDecrement(bs, it) ==
  IF it.off # 0
  THEN Iter(it.current, it.buffer, it.off - 1, it.position - 1)
  ELSE LET i == NonEmptyBefore(bs, it.current)
       IN  IF i = 0 THEN Iter(it.current, it.buffer, it.off, it.position - 1)
           ELSE Iter(i, bs[i], bs[i].size - 1, it.position - 1)

(* advance(n), n > 0: rest[k] is the iterator after k buffers were left    *)
(* behind, with what remains to go.                                        *)
IterAdvance(bs, it, n) ==
  LET rest[k \in 0 .. Len(bs)] ==
        IF k = 0 THEN [it |-> it, n |-> n, stop |-> FALSE]
        ELSE LET r == rest[k - 1]
                 balance == r.it.buffer.size - r.it.off
                 next == r.it.current + 1
             IN  IF r.stop THEN r
                 ELSE IF balance > r.n
                 THEN [it |-> Iter(r.it.current, r.it.buffer, r.it.off + r.n,
                                   r.it.position + r.n), n |-> 0, stop |-> TRUE]
                 ELSE [it |-> Iter(next, IF next = Len(bs) + 1 THEN NullBuffer ELSE bs[next],
                                   0, r.it.position + balance),
                       n |-> r.n - balance, stop |-> next = Len(bs) + 1]
  IN  rest[Len(bs)].it

(* advance(-n), n > 0. *)
IterRetreat(bs, it, n) ==
  LET rest[k \in 0 .. Len(bs) + 1] ==
        IF k = 0 THEN [it |-> it, n |-> n, stop |-> FALSE]
        ELSE LET r == rest[k - 1]
                 i == NonEmptyBefore(bs, r.it.current)
             IN  IF r.stop THEN r
                 ELSE IF r.it.off >= r.n
                 THEN [it |-> Iter(r.it.current, r.it.buffer, r.it.off - r.n,
                                   r.it.position - r.n), n |-> 0, stop |-> TRUE]
                 ELSE [it |-> Iter(i, bs[i], bs[i].size, r.it.position - r.it.off),
                       n |-> r.n - r.it.off, stop |-> FALSE]
  IN  rest[Len(bs) + 1].it

----------------------------------------------------------------------------
(* buffer_sequence_adapter: at most MaxNative buffers reach the kernel,    *)
(* empty ones included.                                                    *)

Native(bs) == SubSeq(bs, 1, Least(MaxNative, Len(bs)))
total_size(bs) == buffer_size(Native(bs))
all_empty(bs) == \A i \in DOMAIN Native(bs) : Native(bs)[i].size = 0

----------------------------------------------------------------------------
(* consuming_buffers.  The primary template walks the sequence; single     *)
(* buffers and arrays of two are specialised and keep only total_consumed. *)

consuming_buffers(bs, kind) ==
  [kind |-> kind, buffers |-> bs, total_consumed |-> 0,
   total_size |-> buffer_size(bs), next_elem |-> 0, next_elem_offset |-> 0]

ConsumingEmpty(c) == c.total_consumed >= c.total_size

(* The sequence from where the last transfer stopped. *)
Remaining(c) ==
  [i \in 1 .. Len(c.buffers) - c.next_elem |->
     Plus(c.buffers[c.next_elem + i], IF i = 1 THEN c.next_elem_offset ELSE 0)]

(* bs cut off after max_size bytes, without empty buffers. *)
CutOff(bs, max_size) ==
  LET before == Upto(bs)
      cut == [i \in DOMAIN bs |-> Limit(bs[i], Greatest(0, max_size - before[i - 1]))]
  IN  SelectSeq(cut, LAMBDA b : b.size > 0)

First(bs, n) == SubSeq(bs, 1, Least(n, Len(bs)))

(* The first MaxPrepared buffers with something left in them. *)
PrepareMany(c, max_size) ==
  CutOff(First(SelectSeq(Remaining(c), LAMBDA b : b.size > 0), MaxPrepared), max_size)

PrepareSingle(c, max_size) == <<Limit(Plus(c.buffers[1], c.total_consumed), max_size)>>

PrepareTwo(c, max_size) ==
  LET size0 == c.buffers[1].size
      first == Limit(Plus(c.buffers[1], c.total_consumed), max_size)
      skip == IF c.total_consumed < size0 THEN 0 ELSE c.total_consumed - size0
  IN  <<first, Limit(Plus(c.buffers[2], skip), max_size - first.size)>>

ConsumingPrepare(c, max_size) ==
  CASE c.kind = "single" -> PrepareSingle(c, max_size)
    [] c.kind = "two"    -> PrepareTwo(c, max_size)
    [] c.kind = "many"   -> PrepareMany(c, max_size)

(* The loop stops in the buffer that the size ends in, or behind the first *)
(* buffer that the size ends with.                                         *)
ConsumeAt(c, size, goal) ==
  LET before == Upto(Remaining([c EXCEPT !.next_elem_offset = 0]))
      exact == {k \in DOMAIN before : before[k] = goal}
      k == IF exact # {} THEN Min(exact) ELSE Max({i \in DOMAIN before : before[i] < goal})
  IN  [c EXCEPT !.total_consumed = @ + size, !.next_elem = @ + k,
                !.next_elem_offset = goal - before[k]]

(* Mutant: the offset in a partly filled buffer is overwritten, not added to. *)
ConsumeOverwritesOffset(c, size) == ConsumeAt(c, size, size)

ConsumeMany(c, size) == ConsumeAt(c, size, c.next_elem_offset + size)

ConsumeCount(c, size) == [c EXCEPT !.total_consumed = @ + size]

ConsumingConsume(c, size) ==
  IF c.kind = "many" THEN ConsumeMany(c, size) ELSE ConsumeCount(c, size)

----------------------------------------------------------------------------
(* dynamic_string_buffer and dynamic_vector_buffer: the characters of the  *)
(* string, of which the first size belong to the input sequence.           *)

dynamic_buffer(chars, max_size) ==
  [size |-> Len(chars), max_size |-> max_size, chars |-> chars, capacity |-> Len(chars)]

DynData(d) == SubSeq(d.chars, 1, d.size)

(* resize(): new characters are zero; the capacity at least doubles when   *)
(* it grows (libstdc++).                                                   *)
Resized(d, n) ==
  [d EXCEPT !.chars = [i \in 1 .. n |-> IF i <= Len(d.chars) THEN d.chars[i] ELSE 0],
            !.capacity = IF n <= @ THEN @ ELSE Greatest(n, 2 * @)]

PrepareFails(d, n) == d.size > d.max_size \/ d.max_size - d.size < n
DynPrepare(d, n) == Resized(d, d.size + n)

DynCommit(d, n) ==
  LET size == d.size + Least(n, Len(d.chars) - d.size)
  IN  [Resized(d, size) EXCEPT !.size = size]

DynConsume(d, n) ==
  LET length == Least(n, d.size)
  IN  [d EXCEPT !.chars = SubSeq(@, length + 1, Len(@)), !.size = @ - length]

(* How much read() and read_until() ask of the stream. *)
BytesToRead(d, max_size) ==
  Least(Greatest(Chunk, SizeMinus(d.capacity, d.size)),
        Least(max_size, SizeMinus(d.max_size, d.size)))
=============================================================================
