----------------------------- MODULE MC_PagePool -----------------------------
(* Instances of PagePool for TLC: pages of four bytes. *)
EXTENDS PagePool

\* A range across two pages of the main pool, and an empty one.
TwoPages == {[paddr |-> 23, psize |-> 2], [paddr |-> 20, psize |-> 0]}
=============================================================================
