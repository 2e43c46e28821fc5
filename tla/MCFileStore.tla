---------------------------- MODULE MCFileStore ----------------------------
(* Instances of FileStore for TLC. *)
EXTENDS FileStore, TLC

ClientsSymmetry == Permutations(Clients) \cup Permutations(Contents)
============================================================================
