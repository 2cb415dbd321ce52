------------------------------ MODULE KeyStore ------------------------------
(***************************************************************************)
(* What the key manager promises to the handlers of the HTTP API: a ledger *)
(* of API keys in which every operation is one step, a file that is        *)
(* rewritten from the ledger and not from anything older, and after a      *)
(* restart the ledger of the last complete rewrite - or an empty one, when *)
(* the restart falls into a rewrite.                                       *)
(***************************************************************************)
EXTENDS Integers

CONSTANTS
  Key,         \* the strings generate_key_string can produce
  NoKey,       \* a key that is not in the map
  Amount,      \* the numbers of credits the operator grants
  MaxCredits   \* bound on the credits of a key

Entry == [credits : Nat, enabled : BOOLEAN]

ASSUME KeyAssumption == /\ NoKey \notin Entry \cup Key
                        /\ Amount \subseteq Nat
                        /\ MaxCredits \in Nat

VARIABLES
  keys,   \* the ledger
  saved   \* what a restart would load

vars == <<keys, saved>>

Empty  == [k \in Key |-> NoKey]
Has(k) == keys[k] # NoKey

Init == keys = Empty /\ saved = Empty

Create(k, n) ==
  /\ ~ Has(k)
  /\ keys' = [keys EXCEPT ![k] = [credits |-> n, enabled |-> TRUE]]
  /\ UNCHANGED saved

\* Fault: the credit is taken whether there is one or not.
SpendUnchecked(k) ==
  /\ Has(k)
  /\ keys' = [keys EXCEPT ![k].credits = @ - 1]
  /\ UNCHANGED saved

Spend(k) ==
  /\ Has(k) /\ keys[k].credits > 0
  /\ keys' = [keys EXCEPT ![k].credits = @ - 1]
  /\ UNCHANGED saved

Grant(k, n) ==
  /\ Has(k) /\ keys[k].credits + n <= MaxCredits
  /\ keys' = [keys EXCEPT ![k].credits = @ + n]
  /\ UNCHANGED saved

Toggle(k) ==
  /\ Has(k)
  /\ keys' = [keys EXCEPT ![k].enabled = ~ @]
  /\ UNCHANGED saved

Revoke(k) ==
  /\ Has(k)
  /\ keys' = [keys EXCEPT ![k] = NoKey]
  /\ UNCHANGED saved

\* A rewrite of the file begins by emptying it ...
BeginRewrite == saved' = Empty /\ UNCHANGED keys
\* ... and ends with the ledger of that moment in it.
EndRewrite   == saved' = keys /\ UNCHANGED keys

Restart == keys' = saved /\ UNCHANGED saved

Operation == \E k \in Key : \/ \E n \in Amount : Create(k, n) \/ Grant(k, n)
                            \/ Spend(k) \/ Toggle(k) \/ Revoke(k)

Next == Operation \/ BeginRewrite \/ EndRewrite \/ Restart

Spec == Init /\ [][Next]_vars
=============================================================================
