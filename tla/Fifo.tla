-------------------------------- MODULE Fifo --------------------------------
(***************************************************************************)
(* What internal/buffer/unbounded.go promises: a queue without a bound,    *)
(* first in, first out, that takes nothing any more once it is closed but  *)
(* still gives what it holds.                                              *)
(***************************************************************************)
EXTENDS Sequences

CONSTANT Items

VARIABLES queue, closed

vars == <<queue, closed>>

TypeOK == queue \in Seq(Items) /\ closed \in BOOLEAN

Init == queue = <<>> /\ closed = FALSE

Put(x) == ~closed /\ queue' = Append(queue, x) /\ UNCHANGED closed
Get    == queue # <<>> /\ queue' = Tail(queue) /\ UNCHANGED closed
Close  == closed' = TRUE /\ UNCHANGED queue

Next == (\E x \in Items : Put(x)) \/ Get \/ Close

Spec == Init /\ [][Next]_vars
=============================================================================
