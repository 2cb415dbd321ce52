----------------------------- MODULE MCBilling ------------------------------
(* A small instance of Billing for TLC. *)
EXTENDS Billing, TLC

Symmetry == Permutations(Request) \cup Permutations(Worker)
=============================================================================
