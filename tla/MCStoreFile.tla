---------------------------- MODULE MCStoreFile ----------------------------
(* Small instances of StoreFile.                                           *)
EXTENDS StoreFile, TLC

Symmetry == Permutations(Tasks) \cup Permutations(Names) \cup Permutations(Inodes)
InodeSymmetry == Permutations(Inodes)
============================================================================
