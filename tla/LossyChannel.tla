---------------------------- MODULE LossyChannel ----------------------------
(***************************************************************************)
(* What a buffered receiver promises its reader: what comes in comes out   *)
(* in the same order, nothing twice, and something is dropped only while   *)
(* the buffer holds Capacity items.  The items (the bytes of a serial      *)
(* port, the frames of a network interface) are numbered as they arrive.   *)
(***************************************************************************)
EXTENDS Naturals, Sequences

CONSTANT Capacity
VARIABLES next,     \* the number of the next item
          queue,    \* the items that wait
          out       \* the items handed to the reader

vars == <<next, queue, out>>

Init == next = 1 /\ queue = <<>> /\ out = <<>>

Arrive == /\ next' = next + 1
          /\ queue' = IF Len(queue) < Capacity THEN Append(queue, next) ELSE queue
          /\ UNCHANGED out

Take == /\ queue # <<>>
        /\ queue' = Tail(queue)
        /\ out' = Append(out, Head(queue))
        /\ UNCHANGED next

\* The device is enabled again, which empties its buffers.
Reset == queue' = <<>> /\ UNCHANGED <<next, out>>

Spec == Init /\ [][Arrive \/ Take \/ Reset]_vars
=============================================================================
