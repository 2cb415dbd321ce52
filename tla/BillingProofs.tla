--------------------------- MODULE BillingProofs ----------------------------
(***************************************************************************)
(* Proofs about Billing, for any workers, requests, keys and amounts.      *)
(*                                                                         *)
(* That a credit adds one to what a worker has earned, and that no answer  *)
(* earns two workers one, rests on Unpaid: a request that is about to pay  *)
(* carries an answer that nobody has been paid for and no other request    *)
(* carries.                                                                *)
(***************************************************************************)
EXTENDS Billing, FiniteSetTheorems, TLAPS

Unpaid ==
  \A t \in Task :
    /\ pc[t] \in {"charge", "payee", "credit"} => answer[t] # 0
    /\ answer[t] # 0 => /\ \A w \in Worker : answer[t] \notin earned[w]
                        /\ \A u \in Task : u # t => answer[u] # answer[t]

IInv == BillingTypeOK /\ Unpaid /\ WorkersNotOverpaid

\* What a worker has earned can be counted.
LEMMA EarnedCounts ==
  ASSUME BillingTypeOK, NEW w \in Worker
  PROVE  /\ IsFiniteSet(earned[w]) /\ Cardinality(earned[w]) \in Nat
         /\ 0 <= Cardinality(earned[w])
<1>1. earned[w] \subseteq 1 .. served /\ 1 \in Int /\ served \in Int
  BY DEF BillingTypeOK
<1>2. IsFiniteSet(1 .. served)
  BY <1>1, FS_Interval
<1>3. IsFiniteSet(earned[w])
  BY <1>1, <1>2, FS_Subset
<1>4. QED
  BY <1>3, FS_CardinalityType

LEMMA WrapInPool == \A n \in Int : Wrap(n) \in Pool
BY BillingAssumption DEF Wrap, Pool

LEMMA InitInv == BillingInit => IInv
<1> SUFFICES ASSUME BillingInit PROVE IInv
  OBVIOUS
<1>1. BillingTypeOK
  BY BillingAssumption, KeyAssumption
     DEF BillingInit, Init, Empty, NoFile, BillingTypeOK, Pool, Label, Task
<1>2. Unpaid
  BY DEF BillingInit, Unpaid
<1>3. WorkersNotOverpaid
  <2>1. \A w \in Worker : /\ earned[w] = {} /\ credits[w] = None
                          /\ creditsFile.workers[w] = 0 /\ savedCredits[w] = 0
    BY DEF BillingInit, NoFile
  <2>2. QED
    BY <2>1, FS_EmptySet DEF WorkersNotOverpaid
<1>4. QED
  BY <1>1, <1>2, <1>3 DEF IInv

\* Every operation on the keys leaves a map of entries.
LEMMA KeysTyped ==
  ASSUME keys \in [Key -> Entry \cup {NoKey}], saved \in [Key -> Entry \cup {NoKey}],
         NEW k \in Key \cup {None},
         \/ \E n \in Amount : Create(k, n) \/ Grant(k, n)
         \/ Spend(k) \/ Toggle(k) \/ Revoke(k)
         \/ BeginRewrite \/ EndRewrite \/ Restart
  PROVE  keys' \in [Key -> Entry \cup {NoKey}] /\ saved' \in [Key -> Entry \cup {NoKey}]
<1> DEFINE Typed == /\ keys'  \in [Key -> Entry \cup {NoKey}]
                    /\ saved' \in [Key -> Entry \cup {NoKey}]
<1>0. Amount \subseteq Nat
  BY KeyAssumption
<1>1. ASSUME NEW n \in Amount, Create(k, n) PROVE Typed
  BY <1>0, <1>1 DEF Create, Entry
<1>2. ASSUME NEW n \in Amount, Grant(k, n) PROVE Typed
  <2>1. CASE k \in Key
    <3>1. /\ keys[k] \in Entry
          /\ [keys[k] EXCEPT !.credits = @ + n] \in Entry
      BY <1>0, <1>2, <2>1 DEF Grant, Has, Entry
    <3>2. QED
      BY <1>2, <2>1, <3>1 DEF Grant
  <2>2. CASE k \notin Key
    BY <1>2, <2>2 DEF Grant
  <2>3. QED
    BY <2>1, <2>2
<1>3. CASE Spend(k)
  <2>1. CASE k \in Key
    <3>1. /\ keys[k] \in Entry
          /\ [keys[k] EXCEPT !.credits = @ - 1] \in Entry
      BY <1>3, <2>1 DEF Spend, Has, Entry
    <3>2. QED
      BY <1>3, <2>1, <3>1 DEF Spend
  <2>2. CASE k \notin Key
    BY <1>3, <2>2 DEF Spend
  <2>3. QED
    BY <2>1, <2>2
<1>4. CASE Toggle(k)
  BY <1>4 DEF Toggle, Has, Entry
<1>5. CASE Revoke(k)
  BY <1>5 DEF Revoke
<1>6. CASE BeginRewrite \/ EndRewrite \/ Restart
  BY <1>6 DEF BeginRewrite, EndRewrite, Restart, Empty
<1>7. QED
  BY <1>1, <1>2, <1>3, <1>4, <1>5, <1>6

\* What a step leaves of Unpaid when it pays nobody: each answer is carried on,
\* dropped, or, by one request, new.
Carried ==
  /\ UNCHANGED <<earned, served>>
  /\ \A t \in Task : \/ answer'[t] = 0 /\ pc'[t] \notin {"charge", "payee", "credit"}
                     \/ /\ answer'[t] = answer[t]
                        /\ pc'[t] \in {"charge", "payee", "credit"}
                             => pc[t] \in {"charge", "payee", "credit"}

LEMMA CarriedKeepsUnpaid == Unpaid /\ Carried => Unpaid'
<1> SUFFICES ASSUME Unpaid, Carried, NEW t \in Task
             PROVE  /\ pc'[t] \in {"charge", "payee", "credit"} => answer'[t] # 0
                    /\ answer'[t] # 0 =>
                         /\ \A w \in Worker : answer'[t] \notin earned'[w]
                         /\ \A u \in Task : u # t => answer'[u] # answer'[t]
  BY DEF Unpaid
<1>1. CASE answer'[t] = 0 /\ pc'[t] \notin {"charge", "payee", "credit"}
  BY <1>1
<1>2. CASE /\ answer'[t] = answer[t]
           /\ pc'[t] \in {"charge", "payee", "credit"} => pc[t] \in {"charge", "payee", "credit"}
  <2>1. \A u \in Task : answer'[u] = 0 \/ answer'[u] = answer[u]
    BY DEF Carried
  <2>2. earned' = earned
    BY DEF Carried
  <2>3. QED
    BY <1>2, <2>1, <2>2 DEF Unpaid
<1>3. QED
  BY <1>1, <1>2 DEF Carried

\* A step that changes nobody's credits pays nobody too much.
LEMMA NobodyPaid ==
  WorkersNotOverpaid /\ UNCHANGED <<credits, creditsFile, savedCredits, earned>>
    => WorkersNotOverpaid'
BY DEF WorkersNotOverpaid

\* The step that pays: the answer is new to all workers.
LEMMA CreditStep ==
  ASSUME IInv, NEW r \in Task, Credit(r)
  PROVE  IInv'
<1> DEFINE w == payee[r]
           a == answer[r]
<1>0. a \in 1 .. served /\ \A v \in Worker : a \notin earned[v]
  <2>1. a \in 0 .. served /\ a # 0 /\ served \in Nat
    BY DEF Credit, IInv, Unpaid, BillingTypeOK
  <2>2. QED
    BY <2>1 DEF IInv, Unpaid
<1>1. CASE credits[w] # None /\ w \in Worker
  <2>1. /\ credits' = [credits EXCEPT ![w] = @ + 1]
        /\ earned' = [earned EXCEPT ![w] = @ \cup {a}]
        /\ Goto(r, "save")
    BY <1>1 DEF Credit
  <2>2. /\ answer' = [answer EXCEPT ![r] = 0]
        /\ UNCHANGED <<vars, pool, slot, savedCredits, creditsFile, keyOf, taken, payee, tunnel, served>>
    BY DEF Credit
  <2>3. BillingTypeOK'
    <3>1. credits[w] \in Nat /\ credits' \in [Worker -> Nat \cup {None}]
      BY <1>1, <2>1, BillingAssumption DEF IInv, BillingTypeOK
    <3>2. earned' \in [Worker -> SUBSET (1 .. served)]
      BY <1>0, <2>1 DEF IInv, BillingTypeOK
    <3>3. answer' \in [Task -> 0 .. served]
      BY <2>2 DEF IInv, BillingTypeOK
    <3>4. pc' \in [Task -> Label]
      BY <2>1 DEF IInv, BillingTypeOK, Goto, Label
    <3>5. QED
      BY <2>2, <3>1, <3>2, <3>3, <3>4 DEF IInv, BillingTypeOK, vars
  <2>4. Unpaid'
    <3>1. \A t \in Task : pc'[t] = IF t = r THEN "save" ELSE pc[t]
      BY <2>1 DEF Goto, IInv, BillingTypeOK
    <3>2. \A t \in Task : answer'[t] = IF t = r THEN 0 ELSE answer[t]
      BY <2>2 DEF IInv, BillingTypeOK
    <3>3. \A v \in Worker : earned'[v] \subseteq earned[v] \cup {a}
      BY <2>1 DEF IInv, BillingTypeOK
    <3>4. \A t \in Task : t # r /\ answer[t] # 0 => answer[t] # a
      BY DEF IInv, Unpaid
    <3>5. QED
      BY <3>1, <3>2, <3>3, <3>4 DEF IInv, Unpaid
  <2>5. WorkersNotOverpaid'
    <3>1. /\ Cardinality(earned[w] \cup {a}) = Cardinality(earned[w]) + 1
          /\ Cardinality(earned[w]) \in Nat
      BY <1>0, <1>1, EarnedCounts, FS_AddElement DEF IInv
    <3>2. \A v \in Worker : earned'[v] = IF v = w THEN earned[w] \cup {a} ELSE earned[v]
      BY <2>1 DEF IInv, BillingTypeOK
    <3>3. \A v \in Worker : credits'[v] = IF v = w THEN credits[w] + 1 ELSE credits[v]
      BY <2>1 DEF IInv, BillingTypeOK
    <3>4. /\ credits[w] \in Nat /\ savedCredits[w] \in Nat /\ creditsFile.workers[w] \in Nat
      BY <1>1 DEF IInv, BillingTypeOK
    <3>5. \A u, v \in Worker : u # v => earned'[u] \cap earned'[v] = {}
      BY <1>0, <3>2 DEF IInv, WorkersNotOverpaid
    <3>6. ASSUME NEW v \in Worker
          PROVE  /\ credits'[v] # None => credits'[v] <= Cardinality(earned'[v])
                 /\ creditsFile.workers[v] <= Cardinality(earned'[v])
                 /\ savedCredits[v] <= Cardinality(earned'[v])
      <4>1. CASE v = w
        <5>1. Cardinality(earned'[v]) = Cardinality(earned[w]) + 1
          BY <3>1, <3>2, <4>1
        <5>2. /\ credits[w] <= Cardinality(earned[w])
              /\ creditsFile.workers[w] <= Cardinality(earned[w])
              /\ savedCredits[w] <= Cardinality(earned[w])
          BY <1>1 DEF IInv, WorkersNotOverpaid
        <5>3. QED
          BY <1>1, <3>1, <3>3, <3>4, <4>1, <5>1, <5>2
      <4>2. CASE v # w
        <5>1. Cardinality(earned'[v]) = Cardinality(earned[v]) /\ credits'[v] = credits[v]
          BY <3>2, <3>3, <4>2
        <5>2. QED
          BY <5>1 DEF IInv, WorkersNotOverpaid
      <4>3. QED
        BY <4>1, <4>2
    <3>7. QED
      BY <2>2, <3>5, <3>6 DEF WorkersNotOverpaid
  <2>6. QED
    BY <2>3, <2>4, <2>5 DEF IInv
<1>2. CASE UNCHANGED <<credits, earned>> /\ (Goto(r, "save") \/ Goto(r, "deduct"))
  <2>1. /\ answer' = [answer EXCEPT ![r] = 0]
        /\ UNCHANGED <<vars, pool, slot, savedCredits, creditsFile, keyOf, taken, payee, tunnel, served>>
    BY DEF Credit
  <2>2. BillingTypeOK'
    BY <1>2, <2>1 DEF IInv, BillingTypeOK, Goto, Label, vars
  <2>3. Carried
    BY <1>2, <2>1 DEF Carried, Goto, IInv, BillingTypeOK
  <2>4. QED
    BY <1>2, <2>1, <2>2, <2>3, CarriedKeepsUnpaid, NobodyPaid DEF IInv
<1>3. CASE credits[w] # None /\ w \notin Worker
  BY <1>2, <1>3 DEF Credit, IInv, BillingTypeOK
<1>4. QED
  BY <1>1, <1>2, <1>3 DEF Credit
\* The other steps of a request, and of the operator.
LEMMA RequestStep ==
  ASSUME IInv, NEW r \in Task,
         \/ \E k \in Key : Validate(r, k)
         \/ CheckPool(r) \/ RelayFails(r) \/ RelayAnswers(r) \/ ChargePool(r)
         \/ ReadSlot(r) \/ SaveCredits(r)
  PROVE  IInv'
<1> USE DEF IInv, Label, Goto, Finish, vars, registryVars, localVars, history
<1>1. ASSUME NEW k \in Key, Validate(r, k) PROVE IInv'
  <2>1. BillingTypeOK' /\ Carried
    BY <1>1 DEF Validate, BillingTypeOK, Carried
  <2>2. QED
    BY <1>1, <2>1, CarriedKeepsUnpaid, NobodyPaid DEF Validate
<1>2. CASE CheckPool(r)
  <2>1. BillingTypeOK' /\ Carried
    <3>1. /\ UNCHANGED <<vars, pool, registryVars, creditsFile, tunnel, history>>
          /\ \/ Finish(r)
             \/ Goto(r, "relay") /\ UNCHANGED localVars
      BY <1>2 DEF CheckPool
    <3>2. 0 \in Pool /\ served \in Nat
      BY BillingAssumption DEF Pool, BillingTypeOK
    <3>3. CASE Finish(r)
      BY <3>1, <3>2, <3>3 DEF BillingTypeOK, Carried
    <3>4. CASE Goto(r, "relay") /\ UNCHANGED localVars
      BY <3>1, <3>4 DEF BillingTypeOK, Carried
    <3>5. QED
      BY <3>1, <3>3, <3>4
  <2>2. QED
    BY <1>2, <2>1, CarriedKeepsUnpaid, NobodyPaid DEF CheckPool
<1>3. CASE RelayFails(r)
  <2>1. BillingTypeOK' /\ Carried
    BY <1>3, BillingAssumption DEF RelayFails, Pool, BillingTypeOK, Carried
  <2>2. QED
    BY <1>3, <2>1, CarriedKeepsUnpaid, NobodyPaid DEF RelayFails
<1>4. CASE RelayAnswers(r)
  <2>1. /\ served \in Nat /\ served' = served + 1 /\ UNCHANGED earned
        /\ pc' = [pc EXCEPT ![r] = "charge"] /\ answer' = [answer EXCEPT ![r] = served + 1]
    BY <1>4 DEF RelayAnswers, BillingTypeOK
  <2>2. 0 .. served \subseteq 0 .. served' /\ 1 .. served \subseteq 1 .. served'
    BY <2>1
  <2>3. BillingTypeOK'
    <3>1. answer' \in [Task -> 0 .. served'] /\ earned' \in [Worker -> SUBSET (1 .. served')]
      BY <2>1, <2>2 DEF BillingTypeOK
    <3>2. QED
      BY <1>4, <2>1, <3>1 DEF RelayAnswers, BillingTypeOK
  <2>4. Unpaid'
    <3>1. \A t \in Task : answer[t] # served + 1
      BY <2>1 DEF BillingTypeOK
    <3>2. \A w \in Worker : served + 1 \notin earned[w]
      BY <2>1 DEF BillingTypeOK
    <3>3. \A t \in Task : /\ answer'[t] = IF t = r THEN served + 1 ELSE answer[t]
                          /\ pc'[t] = IF t = r THEN "charge" ELSE pc[t]
      BY <2>1 DEF BillingTypeOK
    <3>4. served + 1 # 0
      BY <2>1
    <3>5. QED
      BY <2>1, <3>1, <3>2, <3>3, <3>4 DEF Unpaid
  <2>5. QED
    BY <1>4, <2>3, <2>4, NobodyPaid DEF RelayAnswers
<1>5. CASE ChargePool(r)
  <2>1. Wrap(pool - 1) \in Pool /\ 0 \in Pool
    BY WrapInPool, BillingAssumption DEF Pool, BillingTypeOK
  <2>2. BillingTypeOK' /\ Carried
    <3>1. /\ UNCHANGED <<vars, registryVars, creditsFile, tunnel, history>>
          /\ pool' \in Pool /\ pc[r] = "charge"
          /\ \/ Finish(r)
             \/ /\ taken' = [taken EXCEPT ![r] = pool'] /\ Goto(r, "payee")
                /\ UNCHANGED <<keyOf, payee, answer>>
      BY <1>5, <2>1 DEF ChargePool
    <3>2. served \in Nat
      BY DEF BillingTypeOK
    <3>3. CASE Finish(r)
      BY <2>1, <3>1, <3>2, <3>3 DEF BillingTypeOK, Carried
    <3>4. CASE /\ taken' = [taken EXCEPT ![r] = pool'] /\ Goto(r, "payee")
               /\ UNCHANGED <<keyOf, payee, answer>>
      BY <3>1, <3>4 DEF BillingTypeOK, Carried
    <3>5. QED
      BY <3>1, <3>3, <3>4
  <2>3. QED
    BY <1>5, <2>2, CarriedKeepsUnpaid, NobodyPaid DEF ChargePool
<1>6. CASE ReadSlot(r)
  <2>1. BillingTypeOK' /\ Carried
    BY <1>6 DEF ReadSlot, BillingTypeOK, Carried
  <2>2. QED
    BY <1>6, <2>1, CarriedKeepsUnpaid, NobodyPaid DEF ReadSlot
<1>7. CASE SaveCredits(r)
  <2>1. /\ creditsFile'.pool = taken[r]
        /\ creditsFile' \in [pool : Pool, workers : [Worker -> Nat]]
        /\ \A w \in Worker : creditsFile'.workers[w] =
                               IF credits[w] = None THEN 0 ELSE credits[w]
    BY <1>7, BillingAssumption DEF SaveCredits, BillingTypeOK
  <2>2. BillingTypeOK' /\ Carried
    <3>1. /\ UNCHANGED <<vars, pool, registryVars, tunnel, history>>
          /\ \/ Finish(r)
             \/ Goto(r, "deduct") /\ UNCHANGED localVars
      BY <1>7 DEF SaveCredits
    <3>2. 0 \in Pool /\ served \in Nat
      BY BillingAssumption DEF Pool, BillingTypeOK
    <3>3. CASE Finish(r)
      BY <2>1, <3>1, <3>2, <3>3 DEF BillingTypeOK, Carried
    <3>4. CASE Goto(r, "deduct") /\ UNCHANGED localVars
      BY <2>1, <3>1, <3>4 DEF BillingTypeOK, Carried
    <3>5. QED
      BY <3>1, <3>3, <3>4
  <2>3. UNCHANGED <<credits, savedCredits, earned>>
    BY <1>7 DEF SaveCredits
  <2>4. WorkersNotOverpaid'
    BY <2>1, <2>3, EarnedCounts DEF WorkersNotOverpaid
  <2>5. QED
    BY <2>2, <2>4, CarriedKeepsUnpaid
<1>8. QED
  BY <1>1, <1>2, <1>3, <1>4, <1>5, <1>6, <1>7

\* The last step of a request: whatever it finds, the keys stay entries.
LEMMA DeductStep ==
  ASSUME IInv, NEW r \in Request, DeductKey(r)
  PROVE  IInv'
<1>1. keyOf[r] \in Key \cup {None}
  BY DEF IInv, BillingTypeOK, Task
<1>2. /\ keys'  \in [Key -> Entry \cup {NoKey}]
      /\ saved' \in [Key -> Entry \cup {NoKey}]
  <2>1. CASE Spend(keyOf[r])
    BY <1>1, <2>1, KeysTyped DEF IInv, BillingTypeOK
  <2>2. CASE UNCHANGED vars
    BY <2>2 DEF vars, IInv, BillingTypeOK
  <2>3. QED
    BY <2>1, <2>2 DEF DeductKey
<1>3. /\ UNCHANGED <<pool, registryVars, creditsFile, tunnel, history>>
      /\ Finish(r) /\ r \in Task /\ 0 \in Pool
  BY BillingAssumption DEF DeductKey, Task, Pool
<1>4. BillingTypeOK'
  BY <1>2, <1>3 DEF IInv, BillingTypeOK, Label, Goto, Finish, registryVars, history
<1>5. Carried
  BY <1>3 DEF Carried, IInv, BillingTypeOK, Goto, Finish, history
<1>6. QED
  BY <1>3, <1>4, <1>5, CarriedKeepsUnpaid, NobodyPaid DEF IInv, registryVars, history

\* The operator, the workers, the keys' other callers and the restart.
LEMMA OtherStep ==
  ASSUME IInv,
         \/ \E n \in Amount : AddToPool(n)
         \/ LoadPool
         \/ \E w \in Worker : Enter(w) \/ Leave(w) \/ TunnelCloses(w)
         \/ KeysChange
         \/ MasterRestarts
         \/ UNCHANGED allVars
  PROVE  IInv'
<1> USE DEF IInv, Label, Goto, Task, vars, registryVars, localVars, history
<1>1. ASSUME NEW n \in Amount, AddToPool(n) PROVE IInv'
  <2>1. Wrap(pool + n) \in Pool
    BY WrapInPool, KeyAssumption DEF Pool, BillingTypeOK
  <2>2. BillingTypeOK' /\ Carried
    BY <1>1, <2>1 DEF AddToPool, BillingTypeOK, Carried
  <2>3. QED
    BY <1>1, <2>2, CarriedKeepsUnpaid, NobodyPaid DEF AddToPool
<1>2. CASE LoadPool
  <2>1. BillingTypeOK' /\ Carried
    BY <1>2 DEF LoadPool, BillingTypeOK, Carried
  <2>2. QED
    BY <1>2, <2>1, CarriedKeepsUnpaid, NobodyPaid DEF LoadPool
<1>3. ASSUME NEW w \in Worker, Enter(w) PROVE IInv'
  <2>1. BillingTypeOK' /\ Carried
    BY <1>3 DEF Enter, BillingTypeOK, Carried
  <2>2. WorkersNotOverpaid'
    BY <1>3 DEF Enter, BillingTypeOK, WorkersNotOverpaid
  <2>3. QED
    BY <2>1, <2>2, CarriedKeepsUnpaid
<1>4. ASSUME NEW w \in Worker, Leave(w) PROVE IInv'
  <2>1. BillingTypeOK' /\ Carried
    BY <1>4 DEF Leave, BillingTypeOK, Carried
  <2>2. WorkersNotOverpaid'
    BY <1>4 DEF Leave, BillingTypeOK, WorkersNotOverpaid
  <2>3. QED
    BY <2>1, <2>2, CarriedKeepsUnpaid
<1>5. ASSUME NEW w \in Worker, TunnelCloses(w) PROVE IInv'
  <2>1. BillingTypeOK' /\ Carried
    BY <1>5 DEF TunnelCloses, BillingTypeOK, Carried
  <2>2. QED
    BY <1>5, <2>1, CarriedKeepsUnpaid, NobodyPaid DEF TunnelCloses
<1>6. CASE KeysChange
  <2>1. /\ keys'  \in [Key -> Entry \cup {NoKey}]
        /\ saved' \in [Key -> Entry \cup {NoKey}]
    <3>1. CASE BeginRewrite \/ EndRewrite
      BY <3>1, KeysTyped DEF BillingTypeOK
    <3>2. CASE \E k \in Key : \/ \E n \in Amount : Create(k, n) \/ Grant(k, n)
                             \/ Toggle(k) \/ Revoke(k)
      BY <3>2, KeysTyped DEF BillingTypeOK
    <3>3. QED
      BY <1>6, <3>1, <3>2 DEF KeysChange
  <2>2. UNCHANGED billingVars
    BY <1>6 DEF KeysChange
  <2>3. BillingTypeOK' /\ Carried
    BY <2>1, <2>2 DEF billingVars, BillingTypeOK, Carried
  <2>4. QED
    BY <2>2, <2>3, CarriedKeepsUnpaid, NobodyPaid DEF billingVars
<1>7. CASE MasterRestarts
  <2>1. /\ creditsFile' \in [pool : Pool, workers : [Worker -> Nat]]
        /\ \A w \in Worker : creditsFile'.workers[w] <= Cardinality(earned[w])
    <3>1. CASE creditsFile' = creditsFile
      BY <3>1 DEF BillingTypeOK, WorkersNotOverpaid
    <3>2. CASE creditsFile' = NoFile
      BY <3>2, EarnedCounts, BillingAssumption DEF NoFile, Pool
    <3>3. QED
      BY <1>7, <3>1, <3>2 DEF MasterRestarts
  <2>2. /\ keys'  \in [Key -> Entry \cup {NoKey}]
        /\ saved' \in [Key -> Entry \cup {NoKey}]
    BY <1>7 DEF MasterRestarts, Restart, BillingTypeOK
  <2>3. 0 \in Pool
    BY BillingAssumption DEF Pool
  <2>4. /\ UNCHANGED <<tunnel, earned, served>>
        /\ pool' = creditsFile'.pool /\ savedCredits' = creditsFile'.workers
        /\ slot' = None /\ credits' = [w \in Worker |-> None]
        /\ pc' = [t \in Task |-> "idle"] /\ keyOf' = [t \in Task |-> None]
        /\ taken' = [t \in Task |-> 0] /\ payee' = [t \in Task |-> None]
        /\ answer' = [t \in Task |-> 0]
    BY <1>7 DEF MasterRestarts
  <2>5. BillingTypeOK'
    <3>1. answer' \in [Task -> 0 .. served'] /\ served \in Nat
      BY <2>4 DEF BillingTypeOK
    <3>2. QED
      BY <2>1, <2>2, <2>3, <2>4, <3>1 DEF BillingTypeOK
  <2>6. Carried
    BY <2>4 DEF Carried
  <2>7. WorkersNotOverpaid'
    BY <2>1, <2>4 DEF WorkersNotOverpaid
  <2>8. QED
    BY <2>5, <2>6, <2>7, CarriedKeepsUnpaid
<1>8. CASE UNCHANGED allVars
  <2>1. BillingTypeOK' /\ Carried
    BY <1>8 DEF allVars, billingVars, BillingTypeOK, Carried
  <2>2. QED
    BY <1>8, <2>1, CarriedKeepsUnpaid, NobodyPaid DEF allVars, billingVars
<1>9. QED
  BY <1>1, <1>2, <1>3, <1>4, <1>5, <1>6, <1>7, <1>8

-----------------------------------------------------------------------------
\* The invariant holds initially and every step preserves it.
THEOREM Invariance == BillingSpec => []IInv
<1>1. BillingInit => IInv
  BY InitInv
<1>2. IInv /\ [BillingNext]_allVars => IInv'
  <2> SUFFICES ASSUME IInv, [BillingNext]_allVars PROVE IInv'
    OBVIOUS
  <2>1. CASE \E r \in Request : ChatCompletion(r)
    BY <2>1, RequestStep, CreditStep, DeductStep DEF ChatCompletion, Task
  <2>2. CASE AddCredits
    BY <2>2, RequestStep, OtherStep DEF AddCredits, Task
  <2>3. CASE \/ \E w \in Worker : Enter(w) \/ Leave(w) \/ TunnelCloses(w)
             \/ KeysChange \/ MasterRestarts \/ UNCHANGED allVars
    BY <2>3, OtherStep
  <2>4. QED
    BY <2>1, <2>2, <2>3 DEF BillingNext
<1>3. QED
  BY <1>1, <1>2, PTL DEF BillingSpec

\* However requests, registrations and restarts interleave, no worker has, in
\* memory or on file, more credits than there are answers that earned it one,
\* and no answer earns two workers one.
THEOREM NobodyOverpaid == BillingSpec => []WorkersNotOverpaid
<1>1. IInv => WorkersNotOverpaid
  BY DEF IInv
<1>2. QED
  BY <1>1, Invariance, PTL

\* The pool stays within its width, whatever is charged to it when it is empty,
\* and requests, workers and keys keep their kinds.
THEOREM TypeCorrect == BillingSpec => []BillingTypeOK
<1>1. IInv => BillingTypeOK
  BY DEF IInv
<1>2. QED
  BY <1>1, Invariance, PTL
=============================================================================
