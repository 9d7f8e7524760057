----------------------------- MODULE BoundedQueue -----------------------------
(* What a FIFO promises: values leave in the order they came, each once, and  *)
(* no more than Depth are inside.                                             *)
EXTENDS Naturals, Sequences

CONSTANTS Data, Depth

VARIABLES q, out   \* the values inside; the value that left last

Init == q = <<>> /\ out \in Data

Put ==
  /\ Len(q) < Depth
  /\ \E v \in Data : q' = Append(q, v)
  /\ UNCHANGED out

Get ==
  /\ q # <<>>
  /\ out' = Head(q)
  /\ q' = Tail(q)

Spec == Init /\ [][Put \/ Get]_<<q, out>>
===============================================================================
