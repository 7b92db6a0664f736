------------------------------ MODULE MC_Uart ------------------------------
(* Enough bytes in one direction to fill the ring and to go round it, with *)
(* a little traffic in the other.                                          *)
EXTENDS Uart

MCTraffic == {[rx |-> 6, tx |-> 0], [rx |-> 0, tx |-> 6], [rx |-> 2, tx |-> 4], [rx |-> 4, tx |-> 2]}
=============================================================================
