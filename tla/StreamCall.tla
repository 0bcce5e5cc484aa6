----------------------------- MODULE StreamCall -----------------------------
(***************************************************************************)
(* What a composed operation on a stream promises its caller: it moves     *)
(* bytes from a source to a sink in their order, without a gap and without *)
(* a repetition, until it reports a result; after that it moves no more.   *)
(***************************************************************************)
EXTENDS Naturals, Sequences

VARIABLES
  source, \* all the bytes there are to move
  moved,  \* what has arrived in the sink
  call    \* "idle", "running" or "ended"

streamVars == <<source, moved, call>>

Init == call = "idle" /\ moved = <<>>

(* The caller names a source; a call may end at once. *)
Begin ==
  /\ call = "idle"
  /\ call' \in {"running", "ended"}
  /\ moved' = <<>>

Move ==
  /\ call = "running"
  /\ \E n \in Len(moved) .. Len(source) : moved' = SubSeq(source, 1, n)
  /\ call' = call
  /\ UNCHANGED source

(* The last bytes may arrive together with the result. *)
End ==
  /\ call = "running"
  /\ call' = "ended"
  /\ \E n \in Len(moved) .. Len(source) : moved' = SubSeq(source, 1, n)
  /\ UNCHANGED source

Next == Begin \/ Move \/ End

Spec == Init /\ [][Next]_streamVars
=============================================================================
