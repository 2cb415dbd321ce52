---------------------------- MODULE MCKeyManager ----------------------------
(* A small instance of KeyManager for TLC. *)
EXTENDS KeyManager, TLC

Symmetry == Permutations(Key) \cup Permutations(Task)
=============================================================================
