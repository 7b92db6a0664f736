------------------------ MODULE MC_FileDescriptors ------------------------
(* Instances of FileDescriptors for TLC. *)
EXTENDS FileDescriptors, TLC

Symmetry == Permutations(Handle)
=============================================================================
