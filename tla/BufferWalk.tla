----------------------------- MODULE BufferWalk -----------------------------
(***************************************************************************)
(* A program that walks an iterator over the bytes of a buffer sequence,   *)
(* as read_until() does, and copies the sequence into others with          *)
(* buffer_copy.                                                            *)
(***************************************************************************)
EXTENDS Buffers

CONSTANTS
  Sequences_, \* the sequences walked and copied from
  Targets,    \* the sequences copied to, in other memory
  Memory,     \* the addresses
  MaxHops     \* bound on the moves of the iterator

VARIABLES
  bufs,    \* the sequence
  it,      \* an iterator over it
  place,   \* for the properties: how many bytes are before it
  hops,    \* moves made
  memory,  \* what the memory holds, first at every address the address
  copied   \* the last copy: targets, limit and result

vars == <<bufs, it, place, hops, memory, copied>>

NoCopy == [targets |-> <<>>, max |-> 0, n |-> 0]

Init ==
  /\ bufs \in Sequences_
  /\ it = IterBegin(bufs) /\ place = 0 /\ hops = 0
  /\ memory = [a \in Memory |-> a] /\ copied = NoCopy

Hop == hops < MaxHops /\ hops' = hops + 1 /\ copied = NoCopy /\ UNCHANGED <<bufs, memory, copied>>

Increment ==
  /\ Hop /\ place < buffer_size(bufs)
  /\ it' = IterIncrement(bufs, it) /\ place' = place + 1

Decrement ==
  /\ Hop /\ place > 0
  /\ it' = IterDecrement(bufs, it) /\ place' = place - 1

Advance ==
  \E n \in 1 .. buffer_size(bufs) - place :
    Hop /\ it' = IterAdvance(bufs, it, n) /\ place' = place + n

Retreat ==
  \E n \in 1 .. place :
    Hop /\ it' = IterRetreat(bufs, it, n) /\ place' = place - n

Copy ==
  /\ hops = 0 /\ copied = NoCopy
  /\ \E targets \in Targets, max \in 0 .. buffer_size(bufs) + 1 :
       LET c == buffer_copy(memory, targets, bufs, max)
       IN  /\ memory' = c.memory
           /\ copied' = [targets |-> targets, max |-> max, n |-> c.n]
  /\ UNCHANGED <<bufs, it, place, hops>>

Next == Increment \/ Decrement \/ Advance \/ Retreat \/ Copy

Spec == Init /\ [][Next]_vars

----------------------------------------------------------------------------
(* The iterator is at the byte it was moved to, whatever moves led there   *)
(* and wherever empty buffers lie, and at the end exactly when it compares *)
(* equal to end().                                                         *)
IteratorInPlace ==
  /\ it.position = place
  /\ (it.position = IterEnd(bufs).position) = (place = buffer_size(bufs))
  /\ place < buffer_size(bufs) => it.buffer.data + it.off = Addresses(bufs)[place + 1]

(* buffer_copy() moves the bytes of the source, in order, over the         *)
(* boundaries of both sequences, until one is used up or the limit is      *)
(* reached, and changes nothing else.                                      *)
CopyIsPrefix ==
  LET from == Addresses(bufs)
      to == Addresses(copied.targets)
      n == copied.n
  IN  /\ n = Least(Least(Len(from), Len(to)), copied.max)
      /\ \A i \in 1 .. n : memory[to[i]] = from[i]
      /\ \A a \in Memory \ {to[i] : i \in 1 .. n} : memory[a] = a

WalkAndCopy == IteratorInPlace /\ CopyIsPrefix
=============================================================================
