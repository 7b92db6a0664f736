---------------------------- MODULE BlockDevice ----------------------------
(***************************************************************************)
(* What BT_BlockRead and BT_BlockWrite promise their callers: a call takes *)
(* effect on the medium once, at one instant between the call and the      *)
(* return, and the value returned is the one the driver gave at that       *)
(* instant.  BlockScheduler, os/src/devman/bt_block.c built with the       *)
(* request scheduler, is shown to implement this.                          *)
(***************************************************************************)
EXTENDS BlockIO

CONSTANT Caller      \* threads that use block devices

VARIABLES disk,      \* the medium
          call       \* per caller: the call in progress, if any

Idle == [state |-> "idle"]
Pending(op) == [state |-> "pending", op |-> op]
Answered(op, r) == [state |-> "answered", op |-> op, result |-> r]

Init == /\ disk \in [Addr -> Data]
        /\ call = [c \in Caller |-> Idle]

Call(c, op) == /\ call[c] = Idle
               /\ call' = [call EXCEPT ![c] = Pending(op)]
               /\ UNCHANGED disk

Perform(c) == \E op \in Op, r \in Result :
                 /\ call[c] = Pending(op)
                 /\ Transfer(op, disk, disk', r)
                 /\ call' = [call EXCEPT ![c] = Answered(op, r)]

Return(c) == /\ call[c].state = "answered"
             /\ call' = [call EXCEPT ![c] = Idle]
             /\ UNCHANGED disk

Next == \E c \in Caller : \/ \E op \in Op : Call(c, op)
                          \/ Perform(c)
                          \/ Return(c)

Spec == Init /\ [][Next]_<<disk, call>>
=============================================================================
