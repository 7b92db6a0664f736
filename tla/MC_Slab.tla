------------------------------ MODULE MC_Slab ------------------------------
(***************************************************************************)
(* Two caches, of 16 and 32 bytes, pages of 32 bytes, and sizes that fit a *)
(* cache exactly, fit the next one, and fit none.                          *)
(***************************************************************************)
EXTENDS Slab, TLC

Symmetry == Permutations(Thread) \cup Permutations(Run)
=============================================================================
