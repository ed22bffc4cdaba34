----------------------------- MODULE BoundedFifo -----------------------------
(***************************************************************************)
(* What a bounded single-producer single-consumer queue promises: values   *)
(* come out once each, in the order they went in, and no more than Room of *)
(* them wait inside.  A push or a pop may also fail; that changes nothing. *)
(***************************************************************************)
EXTENDS Naturals, Sequences

CONSTANTS Room, N    \* N: how many values the producer sends, 0..N-1

VARIABLES queue, sent, received

vars == <<queue, sent, received>>

Init == queue = <<>> /\ sent = 0 /\ received = <<>>

Put ==
  /\ sent < N
  /\ Len(queue) < Room
  /\ queue' = Append(queue, sent)
  /\ sent' = sent + 1
  /\ UNCHANGED received

Take ==
  /\ queue # <<>>
  /\ received' = Append(received, Head(queue))
  /\ queue' = Tail(queue)
  /\ UNCHANGED sent

Next == Put \/ Take

Spec == Init /\ [][Next]_vars
=============================================================================
