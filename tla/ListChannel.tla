----------------------------- MODULE ListChannel -----------------------------
(***************************************************************************)
(* What the master's connection promises to the application of a worker    *)
(* that is sent lists of slaves: a queue.  The lists are handed on in the  *)
(* order in which they were announced, none twice; one that is lost was    *)
(* next in turn, or all that were due are lost together, and a lost list   *)
(* does not come back.                                                     *)
(***************************************************************************)
EXTENDS Integers, SequencesExt

CONSTANT MaxLists  \* bound: lists announced

VARIABLES
  announced, \* lists announced so far, numbered from 1
  handed,    \* those handed on, in this order
  lost       \* those that never will be

vars == <<announced, handed, lost>>

Due       == (1 .. announced) \ (ToSet(handed) \cup lost)
IsNext(n) == n \in Due /\ \A m \in Due : n <= m

Init == announced = 0 /\ handed = <<>> /\ lost = {}

Announce ==
  /\ announced < MaxLists
  /\ announced' = announced + 1
  /\ UNCHANGED <<handed, lost>>

HandOnNext ==
  \E n \in Due : /\ IsNext(n)
                 /\ handed' = Append(handed, n)
                 /\ UNCHANGED <<announced, lost>>

\* The next list is cut short.
LoseNext ==
  \E n \in Due : /\ IsNext(n)
                 /\ lost' = lost \cup {n}
                 /\ UNCHANGED <<announced, handed>>

\* The connection breaks.
LoseAll == lost' = lost \cup Due /\ UNCHANGED <<announced, handed>>

Next == Announce \/ HandOnNext \/ LoseNext \/ LoseAll

Spec == Init /\ [][Next]_vars
=============================================================================
