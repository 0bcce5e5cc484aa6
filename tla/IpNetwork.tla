------------------------------ MODULE IpNetwork ------------------------------
(***************************************************************************)
(* network_v4 and network_v6, the ranges of their hosts, and the iterators *)
(* that walk them.  An IPv4 address is a number, an IPv6 address an array  *)
(* of bytes, as in the code; the width of a byte and the number of bytes   *)
(* are parameters.  Addresses of one scope.                                *)
(***************************************************************************)
EXTENDS Integers, Sequences, SequencesExt, FiniteSets, FiniteSetsExt

CONSTANTS
  Bits,    \* of a byte: 8
  Bytes    \* of an address: 4 or 16

VARIABLES
  family,   \* "v4" or "v6"
  net,      \* the network: an address and a prefix length
  it,       \* an iterator into the hosts of net
  visited   \* for the properties: where it has been

vars == <<family, net, it, visited>>

Width == Bits * Bytes
Uints == 0 .. 2^Width - 1
MaxByte == 2^Bits - 1
Networks == [address : Uints, prefix : 0 .. Width]

(* to_bytes() and to_uint(): network byte order. *)
to_bytes(n) == [i \in 1 .. Bytes |-> (n \div 2^(Bits * (Bytes - i))) % 2^Bits]
to_uint(b) == SumSet({b[i] * 2^(Bits * (Bytes - i)) : i \in {j \in 1 .. Bytes : b[j] # 0}})

----------------------------------------------------------------------------
(* network_v4. *)

netmask(prefix) == IF prefix = 0 THEN 0 ELSE ((2^Width - 1) * 2^(Width - prefix)) % 2^Width

(* The switch over a byte of a mask: how many ones it begins with, or -1   *)
(* when others follow a zero.                                              *)
Ones(b) ==
  LET n == {k \in 0 .. Bits : b = 2^Bits - 2^(Bits - k)}
  IN  IF n = {} THEN -1 ELSE CHOOSE k \in n : TRUE

(* The constructor from a mask: the prefix length, or -1 for an exception. *)
prefix_of_mask(mask) ==
  LET b == to_bytes(mask)
      last == CHOOSE i \in 1 .. Bytes :
                /\ b[i] # MaxByte \/ i = Bytes
                /\ \A j \in 1 .. i - 1 : b[j] = MaxByte
  IN  IF Ones(b[last]) = -1 \/ \E j \in last + 1 .. Bytes : b[j] # 0 THEN -1
      ELSE Bits * (last - 1) + Ones(b[last])

(* address & netmask, and network | ~netmask. *)
network_v4(n) == n.address - (n.address % 2^(Width - n.prefix))
broadcast_v4(n) == network_v4(n) + (2^Width - 1 - netmask(n.prefix))

hosts_v4(n) ==
  IF n.prefix = Width THEN [begin |-> n.address, end |-> (n.address + 1) % 2^Width]
  ELSE [begin |-> (network_v4(n) + 1) % 2^Width, end |-> broadcast_v4(n)]

canonical_v4(n) == [address |-> network_v4(n), prefix |-> prefix_of_mask(netmask(n.prefix))]

increment_v4(a) == (a + 1) % 2^Width
decrement_v4(a) == (a - 1) % 2^Width

size_v4(range) == (range.end - range.begin) % 2^Width

find_v4(range, a) == IF a >= range.begin /\ a < range.end THEN a ELSE range.end

----------------------------------------------------------------------------
(* network_v6: byte by byte. *)

(* b & (0xFF00 >> ones), b | (0xFF >> ones). *)
KeepFirst(b, ones) == b - (b % 2^(Bits - ones))
FillRest(b, ones) == KeepFirst(b, ones) + 2^(Bits - ones) - 1

Masked(n, rest, Within(_, _)) ==
  LET b == to_bytes(n.address)
  IN  [i \in 1 .. Bytes |->
         IF n.prefix <= (i - 1) * Bits THEN rest
         ELSE IF n.prefix < i * Bits THEN Within(b[i], n.prefix % Bits)
         ELSE b[i]]

network_v6(n) == to_uint(Masked(n, 0, KeepFirst))

(* Mutant: a byte that is full is passed by, and keeps its value. *)
CarryKeeps(a) ==
  LET b == to_bytes(a)
      rise == {i \in 1 .. Bytes : b[i] < MaxByte}
  IN  to_uint([i \in 1 .. Bytes |-> IF rise # {} /\ i = Max(rise) THEN b[i] + 1 ELSE b[i]])

(* ++: the last byte that is not full grows, those after it become 0. *)
increment_v6(a) ==
  LET b == to_bytes(a)
      rise == {i \in 1 .. Bytes : b[i] < MaxByte}
  IN  to_uint([i \in 1 .. Bytes |->
        IF rise = {} \/ i > Max(rise) THEN 0 ELSE IF i = Max(rise) THEN b[i] + 1 ELSE b[i]])

decrement_v6(a) ==
  LET b == to_bytes(a)
      fall == {i \in 1 .. Bytes : b[i] > 0}
  IN  to_uint([i \in 1 .. Bytes |->
        IF fall = {} \/ i > Max(fall) THEN MaxByte ELSE IF i = Max(fall) THEN b[i] - 1 ELSE b[i]])

hosts_v6(n) ==
  [begin |-> network_v6(n), end |-> increment_v6(to_uint(Masked(n, MaxByte, FillRest)))]

canonical_v6(n) == [address |-> network_v6(n), prefix |-> n.prefix]

find_v6(range, a) == IF a >= range.begin /\ a < range.end THEN a ELSE range.end

----------------------------------------------------------------------------
(* Both families. *)

V4 == family = "v4"
canonical(n) == IF V4 THEN canonical_v4(n) ELSE canonical_v6(n)
hosts(n) == IF V4 THEN hosts_v4(n) ELSE hosts_v6(n)
increment(a) == IF V4 THEN increment_v4(a) ELSE increment_v6(a)
decrement(a) == IF V4 THEN decrement_v4(a) ELSE decrement_v6(a)
find(range, a) == IF V4 THEN find_v4(range, a) ELSE find_v6(range, a)

is_subnet_of(n, o) ==
  /\ o.prefix < n.prefix
  /\ canonical(o) = canonical([n EXCEPT !.prefix = o.prefix])

----------------------------------------------------------------------------
(* The program walks the hosts of a network, forwards, and back. *)

Init ==
  /\ family \in {"v4", "v6"}
  /\ net \in Networks
  /\ it = hosts(net).begin
  /\ visited = <<>>

Forward ==
  /\ it # hosts(net).end
  /\ it' = increment(it) /\ visited' = Append(visited, it)
  /\ UNCHANGED <<family, net>>

Back ==
  /\ visited # <<>>
  /\ it' = decrement(it) /\ visited' = Front(visited)
  /\ UNCHANGED <<family, net>>

Next == Forward \/ Back

Spec == Init /\ [][Next]_vars

----------------------------------------------------------------------------
Members(n) ==
  LET hostbits == 2^(Width - n.prefix)
  IN  {a \in Uints : a \div hostbits = n.address \div hostbits}

(* The reference: all addresses with the network's prefix, for IPv4        *)
(* without the first and the last unless it is a single address.           *)
Hosts(n) ==
  IF ~V4 \/ n.prefix = Width THEN Members(n)
  ELSE Members(n) \ {Min(Members(n)), Max(Members(n))}

(* The last address is a host: the range ends at the first address of all. *)
Wraps(n) == (2^Width - 1) \in Hosts(n)

(* A walk from begin() to end() visits every host of the network, in       *)
(* order, once, over the carries between bytes and at the ends of the      *)
(* address space; -- undoes ++; size() is their number, and find() finds   *)
(* exactly them.  Where the last address of all is a host, find() does not *)
(* find the hosts, and the hosts of the whole IPv6 space are an empty      *)
(* range.                                                                  *)
HostsWalked ==
  LET range == hosts(net)
      all == Hosts(net)
      empty == ~V4 /\ net.prefix = 0
  IN  /\ \A i \in DOMAIN visited : i > 1 => visited[i - 1] < visited[i]
      /\ it # range.end => it \in all /\ ToSet(visited) = {a \in all : a < it}
      /\ it = range.end => ToSet(visited) = IF empty THEN {} ELSE all
      /\ V4 => size_v4(range) = Cardinality(all)
      /\ ~Wraps(net) => \A a \in Uints : (find(range, a) # range.end) = (a \in all)

(* is_subnet_of() is strict inclusion, and a netmask stands for its prefix *)
(* length: no mask with a one after a zero is taken for one.  Asked of     *)
(* every network when its walk begins.                                     *)
SubnetIsSubset ==
  visited = <<>> =>
    /\ \A o \in Networks :
         is_subnet_of(net, o) = (Members(net) \subseteq Members(o) /\ net.prefix > o.prefix)
    /\ prefix_of_mask(netmask(net.prefix)) = net.prefix
    /\ LET p == prefix_of_mask(net.address) IN p # -1 => netmask(p) = net.address
=============================================================================
