------------------------------ MODULE BlockIO ------------------------------
(***************************************************************************)
(* The data of a block transfer, and the driver behind BT_IF_BLOCK as      *)
(* os/src/devman/bt_block.c uses it.  A request is one block of one        *)
(* device: Addr stands for the device and ulAddress together.              *)
(***************************************************************************)
CONSTANTS Addr,      \* block addresses
          Data       \* contents of a block

ASSUME SomeBlock == Addr # {} /\ Data # {}

\* What is in the buffer of a read before the driver fills it does not matter.
Unfilled == CHOOSE d \in Data : TRUE

Op == {op \in [write_nRead : BOOLEAN, ulAddress : Addr, data : Data] :
          op.write_nRead \/ op.data = Unfilled}
Result == [ok : BOOLEAN, data : Data]

Written(d, op) ==
    IF op.write_nRead THEN [d EXCEPT ![op.ulAddress] = op.data] ELSE d

(* pfnReadBlocks and pfnWriteBlocks: the driver transfers the block, or it *)
(* reports an error, after which a write may or may not have reached the   *)
(* medium and a read has not filled the buffer.                            *)
Transfer(op, d, newd, r) ==
    \/ /\ newd = Written(d, op)
       /\ r = [ok |-> TRUE, data |-> newd[op.ulAddress]]
    \/ /\ newd \in {d, Written(d, op)}
       /\ r = [ok |-> FALSE, data |-> op.data]
=============================================================================
