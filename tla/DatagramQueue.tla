---------------------------- MODULE DatagramQueue ----------------------------
(***************************************************************************)
(* What the queue of received datagrams between two tasks promises: they   *)
(* come out in the order they went in, each once and as it went in, until  *)
(* N wait to be taken; then all that wait are forgotten.                   *)
(***************************************************************************)
EXTENDS Integers, Sequences

CONSTANTS Data, N

VARIABLES
    q,          \* the datagrams waiting
    last        \* the one taken last

Init == q = <<>>

Put(d) ==
    /\ q' = IF Len(q) + 1 = N THEN <<>> ELSE Append(q, d)
    /\ UNCHANGED last

Get ==
    /\ q # <<>>
    /\ last' = Head(q)
    /\ q' = Tail(q)

Next == Get \/ \E d \in Data : Put(d)

Spec == Init /\ [][Next]_<<q, last>>
=============================================================================
