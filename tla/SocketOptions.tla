---------------------------- MODULE SocketOptions ----------------------------
(***************************************************************************)
(* The socket option objects: what they are made from, what set_option()   *)
(* gives to the kernel and what get_option() makes of the answer.  The     *)
(* options of the ip level keep one representation for an IPv4 socket and  *)
(* one for an IPv6 socket, so that one object serves sockets of both       *)
(* families: set from the program, read from one socket, set on the other. *)
(***************************************************************************)
EXTENDS Integers

CONSTANT MaxHops   \* the largest value of an unsigned char: 255

VARIABLES
  option,   \* the option the program deals with
  object,   \* an object of it: its representations, v4 and v6
  kernel,   \* what the kernel keeps for the option on each socket
  said,     \* for the properties: the value last set on each socket
  read      \* for the properties: the value the object was read for

vars == <<option, object, kernel, said, read>>

Family == {"v4", "v6"}   \* one socket of each

----------------------------------------------------------------------------
(* The options. *)

Boolean(name) == [name |-> name, kind |-> "boolean"]
Integer(name) == [name |-> name, kind |-> "integer"]

broadcast == Boolean("broadcast")
debug == Boolean("debug")
do_not_route == Boolean("do_not_route")
keep_alive == Boolean("keep_alive")
reuse_address == Boolean("reuse_address")
out_of_band_inline == Boolean("out_of_band_inline")
no_delay == Boolean("no_delay")
v6_only == Boolean("v6_only")
send_buffer_size == Integer("send_buffer_size")
receive_buffer_size == Integer("receive_buffer_size")
send_low_watermark == Integer("send_low_watermark")
receive_low_watermark == Integer("receive_low_watermark")
linger == [name |-> "linger", kind |-> "linger"]
enable_loopback == [name |-> "enable_loopback", kind |-> "loopback"]
unicast_hops == [name |-> "unicast_hops", kind |-> "unicast_hops"]
multicast_hops == [name |-> "multicast_hops", kind |-> "multicast_hops"]
outbound_interface == [name |-> "outbound_interface", kind |-> "interface"]
join_group == [name |-> "join_group", kind |-> "request"]
leave_group == [name |-> "leave_group", kind |-> "request"]

Options ==
  {broadcast, debug, do_not_route, keep_alive, reuse_address, out_of_band_inline, no_delay,
   v6_only, send_buffer_size, receive_buffer_size, send_low_watermark, receive_low_watermark,
   linger, enable_loopback, unicast_hops, multicast_hops, outbound_interface, join_group,
   leave_group}

Gettable == {"boolean", "integer", "linger", "loopback", "unicast_hops", "multicast_hops"}
Paired == {"loopback", "multicast_hops", "interface", "request"}   \* kinds with two representations

----------------------------------------------------------------------------
(* The values a program makes an object from. *)

Byte == 0 .. MaxHops
HopCount == -1 .. MaxHops + 1
Unset == <<>>

(* A group or an interface: 0 is the "any" address, or no interface. *)
Addresses == 0 .. 1

Values ==
  CASE option.kind \in {"boolean", "loopback"} -> BOOLEAN
    [] option.kind = "integer" -> 1 .. MaxHops
    [] option.kind = "linger" -> BOOLEAN \X (0 .. 1)
    [] option.kind \in {"unicast_hops", "multicast_hops"} -> HopCount
    [] option.kind = "interface" -> Family \X Addresses
    [] option.kind = "request" -> [family : Family, group : {1}, interface : Addresses, scope : Addresses]

AsInt(v) == IF v THEN 1 ELSE 0

(* The constructors and assignments; a value out of range is refused. *)
Refused(v) == option.kind = "multicast_hops" /\ v \notin Byte

(* The interface of a request: the index given, or the scope of the        *)
(* address.                                                                *)
multicast_request(v) ==
  LET any == <<0, 0>>
  IN  IF v.family = "v4" THEN [v4 |-> <<v.group, v.interface>>, v6 |-> any]
      ELSE [v4 |-> any, v6 |-> <<v.group, IF v.interface # 0 THEN v.interface ELSE v.scope>>]

network_interface(v) == [v4 |-> IF v[1] = "v4" THEN v[2] ELSE 0, v6 |-> IF v[1] = "v6" THEN v[2] ELSE 0]

Representation(v) ==
  CASE option.kind \in {"boolean", "loopback"} -> [v4 |-> AsInt(v), v6 |-> AsInt(v)]
    [] option.kind = "linger" -> [v4 |-> <<AsInt(v[1]), v[2]>>, v6 |-> <<AsInt(v[1]), v[2]>>]
    [] option.kind = "request" -> multicast_request(v)
    [] option.kind = "interface" -> network_interface(v)
    [] OTHER -> [v4 |-> v, v6 |-> v]

(* The default constructors. *)
Default ==
  CASE option.kind \in {"linger", "request"} -> [v4 |-> <<0, 0>>, v6 |-> <<0, 0>>]
    [] OTHER -> [v4 |-> 0, v6 |-> 0]

(* value(), enabled() and timeout(). *)
value(o) ==
  CASE option.kind \in {"boolean", "loopback"} -> o.v4 # 0
    [] option.kind = "multicast_hops" -> o.v6
    [] option.kind = "linger" -> <<o.v4[1] # 0, o.v4[2]>>
    [] OTHER -> o.v4

data(o, f) == IF option.kind \in Paired THEN o[f] ELSE o.v4

size(f) ==
  IF option.kind = "linger" THEN "linger"
  ELSE IF option.kind = "multicast_hops" /\ f = "v4" THEN "char" ELSE "int"

(* getsockopt writes to data(). *)
Written(o, f, d) == IF option.kind \in Paired THEN [o EXCEPT ![f] = d] ELSE [v4 |-> d, v6 |-> d]

Clamp(v) == IF v < 0 THEN 0 ELSE IF v > MaxHops THEN MaxHops ELSE v

(* resize(), with a size it accepts: the other representation follows. *)
resize(o, f) ==
  CASE option.kind = "loopback" ->
         IF f = "v6" THEN [o EXCEPT !.v4 = AsInt(o.v6 # 0)] ELSE [o EXCEPT !.v6 = AsInt(o.v4 # 0)]
    [] option.kind = "multicast_hops" ->
         IF f = "v6" THEN [o EXCEPT !.v4 = Clamp(o.v6)] ELSE [o EXCEPT !.v6 = o.v4]
    [] option.kind = "boolean" -> Representation(o.v4 # 0)
    [] OTHER -> o

Accepts(f, s) == s = size(f) \/ (option.kind = "boolean" /\ s = "char")

----------------------------------------------------------------------------
(* The kernel. *)

Doubled == option \in {send_buffer_size, receive_buffer_size}

KernelAccepts(f, d) ==
  CASE option.kind = "unicast_hops" -> d \in (IF f = "v4" THEN {-1} \cup 1 .. MaxHops ELSE {-1} \cup Byte)
    [] option.kind = "multicast_hops" -> d \in {-1} \cup Byte
    [] option.kind = "request" -> d[1] # 0
    [] OTHER -> TRUE

(* A timeout is kept with a linger option that is on; twice the size of a  *)
(* buffer is kept; asking for the default hop count is not kept as such.   *)
KernelSet(k, f, d) ==
  CASE option.kind = "linger" /\ d[1] = 0 -> {<<0, k[2]>>}
    [] option.kind \in {"unicast_hops", "multicast_hops"} /\ d = -1 -> 1 .. MaxHops
    [] Doubled -> {2 * d}
    [] option.kind = "request" -> {<<0, 0>>, d}
    [] OTHER -> {d}

KernelInit ==
  CASE option.kind \in {"boolean", "loopback", "interface"} -> {0, 1}
    [] option.kind = "linger" -> {<<0, 0>>, <<1, 1>>}
    [] option.kind = "request" -> {<<0, 0>>}
    [] option.kind = "unicast_hops" -> 1 .. MaxHops
    [] option.kind = "integer" -> 1 .. MaxHops
    [] OTHER -> HopCount

----------------------------------------------------------------------------
construct ==
  /\ \E v \in Values : ~Refused(v) /\ object' = Representation(v)
  /\ read' = Unset
  /\ UNCHANGED <<option, kernel, said>>

(* What is kept of a value for the property: not the timeout of a linger   *)
(* option that is off, not a request for the default, and of a hop count   *)
(* that a socket reported what the representation of the family can say.   *)
Kept(v, f) ==
  CASE option.kind = "linger" -> IF v[1] THEN <<v>> ELSE <<FALSE>>
    [] option.kind = "multicast_hops" /\ f = "v4" -> <<Clamp(v)>>
    [] option.kind = "multicast_hops" /\ f = "v6" -> IF v = -1 THEN Unset ELSE <<v>>
    [] option.kind = "unicast_hops" -> IF v = -1 THEN Unset ELSE <<v>>
    [] OTHER -> <<v>>

set_option(f) ==
  /\ LET d == data(object, f)
     IN  /\ KernelAccepts(f, d)
         /\ \E k \in KernelSet(kernel[f], f, d) : kernel' = [kernel EXCEPT ![f] = k]
  /\ said' = [said EXCEPT ![f] = IF option.kind \in Gettable THEN Kept(value(object), f) ELSE Unset]
  /\ UNCHANGED <<option, object, read>>

(* Mutant: the size of a buffer is taken as the kernel keeps it. *)
AsKept(f) == kernel[f]

(* getsockopt(), which halves the size of a buffer. *)
getsockopt(f) ==
  IF Doubled THEN kernel[f] \div 2
  ELSE IF size(f) = "char" THEN kernel[f] % (MaxHops + 1) ELSE kernel[f]

(* The kernel may say that it wrote another size: length_error, and the    *)
(* object is given up.                                                     *)
get_option(f) ==
  /\ option.kind \in Gettable
  /\ \E s \in {"char", "int", "linger", "other"} :
       LET o == Written(object, f, getsockopt(f))
       IN  IF Accepts(f, s) THEN object' = resize(o, f) /\ read' = said[f]
           ELSE object' = Default /\ read' = Unset
  /\ UNCHANGED <<option, kernel, said>>

Init ==
  /\ option \in Options
  /\ object = Default
  /\ kernel \in [Family -> KernelInit]
  /\ said = [f \in Family |-> Unset]
  /\ read = Unset

Next == construct \/ \E f \in Family : set_option(f) \/ get_option(f)

Spec == Init /\ [][Next]_vars

----------------------------------------------------------------------------
(* get_option() makes of an object what set_option() was given on that     *)
(* socket, whichever object, of whatever history, was used: made by the    *)
(* program or read from a socket of the other family.  Both                *)
(* representations of hops and loopback stand for one value, as far as the *)
(* narrow one can.                                                         *)
OptionReadsBack ==
  /\ read # Unset =>
       LET v == value(object)
       IN  read = IF option.kind = "linger" /\ ~v[1] THEN <<FALSE>> ELSE <<v>>
  /\ option.kind = "loopback" /\ read # Unset => object.v4 = object.v6
  /\ option.kind = "multicast_hops" /\ read # Unset => object.v4 = Clamp(object.v6)
=============================================================================
