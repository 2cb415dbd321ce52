----------------------------- MODULE MCRegistry -----------------------------
(* Small instances of Registry and TensorSplit for TLC. *)
EXTENDS TensorSplit, TLC, FiniteSets

\* Every registration can take a port of its own: the first needs none.
ASSUME EnoughPorts == Cardinality(Conn) <= Cardinality(Port) + 1

\* The split for up to four GPUs, with every remainder.
ASSUME SplitsAreEven ==
  \A n \in 0 .. 4, total \in 0 .. 9 :
     IsEvenSplit(CalculateTensorSplit(total, [i \in 1 .. n |-> [addr |-> None]]), total)

\* The invariants tell neither workers nor connections apart, but for PINGs.
Symmetry == Permutations(Big) \cup Permutations(Conn \ Pinging)
=============================================================================
