----------------------------- MODULE MC_NetPath -----------------------------
(***************************************************************************)
(* The traffic of the checked behaviours: mostly frames received, mostly   *)
(* frames sent, or both.                                                   *)
(***************************************************************************)
EXTENDS NetPath

MCTraffic == {[rx |-> 4, tx |-> 0], [rx |-> 2, tx |-> 4], [rx |-> 3, tx |-> 3]}
=============================================================================
