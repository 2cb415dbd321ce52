-------------------------- MODULE KeyManagerProofs --------------------------
(***************************************************************************)
(* Proofs about KeyManager, for any keys, handlers and amounts.            *)
(*                                                                         *)
(* What save() writes is the map because it holds the mutex from making    *)
(* the text to writing it (Holding); that deletions last follows, once it  *)
(* is known that a key being deleted has left the map (Deleting).          *)
(***************************************************************************)
EXTENDS KeyManager, TLAPS

Holding ==
  \A t \in Task : pc[t] = "write" => mutex = t /\ text[t] = keys

Deleting ==
  \A t \in Task : deleting[t] # NoKey => keys[deleting[t]] = NoKey

IInv == TypeOK /\ Holding /\ FileCatchesUp /\ Deleting /\ DeletedStaysDeleted

-----------------------------------------------------------------------------
\* A map is read back as it was written.
LEMMA LoadMap == /\ \A m \in Map : Load(m) = m
                 /\ Load(Unreadable) = Empty
                 /\ Empty \in Map
BY FileAssumption DEF Load, Empty, Map

LEMMA InitInv == Init => IInv
<1> SUFFICES ASSUME Init PROVE IInv
  OBVIOUS
<1>1. TypeOK
  BY LoadMap DEF Init, TypeOK, Empty, Map
<1>2. Holding /\ Deleting /\ DeletedStaysDeleted
  BY DEF Init, Holding, Deleting, DeletedStaysDeleted
<1>3. FileCatchesUp
  BY LoadMap DEF Init, FileCatchesUp
<1>4. QED
  BY <1>1, <1>2, <1>3 DEF IInv

\* What an operation on key k does: it puts an entry in the place of another,
\* or of none if no deletion of k was ever begun, or it deletes.
Replaces(t, k, e) ==
  /\ Change(t, k, e)
  /\ \/ /\ e # NoKey
        /\ deleting' = deleting
        /\ keys[k] # NoKey \/ (k \notin deleted /\ \A u \in Task : deleting[u] # k)
     \/ /\ e = NoKey
        /\ deleting' = [deleting EXCEPT ![t] = k]

LEMMA OperationReplaces ==
  ASSUME TypeOK, NEW t \in Task, Operation(t)
  PROVE  \E k \in Key, e \in Entry \cup {NoKey} : Replaces(t, k, e)
<1> DEFINE Goal == \E k \in Key, e \in Entry \cup {NoKey} : Replaces(t, k, e)
<1>0. /\ \A k \in Key : Has(k) => keys[k] \in Entry
      /\ NoKey \notin Entry
  BY KeyAssumption DEF TypeOK, Map, Has
<1>1. ASSUME NEW k \in Key, NEW n \in Amount, CreateKey(t, k, n) PROVE Goal
  <2>1. [credits |-> n, enabled |-> TRUE] \in Entry
    BY KeyAssumption DEF Entry
  <2>2. Replaces(t, k, [credits |-> n, enabled |-> TRUE])
    BY <1>0, <1>1, <2>1 DEF CreateKey, Replaces
  <2>3. QED
    BY <2>1, <2>2
<1>2. ASSUME NEW k \in Key, NEW n \in Amount, AddCredits(t, k, n) PROVE Goal
  <2>1. [keys[k] EXCEPT !.credits = @ + n] \in Entry
    BY <1>0, <1>2, KeyAssumption DEF Entry, AddCredits
  <2>2. Replaces(t, k, [keys[k] EXCEPT !.credits = @ + n])
    BY <1>0, <1>2, <2>1 DEF AddCredits, Replaces, Has
  <2>3. QED
    BY <2>1, <2>2
<1>3. ASSUME NEW k \in Key, DeductCredit(t, k) PROVE Goal
  <2>1. [keys[k] EXCEPT !.credits = @ - 1] \in Entry
    BY <1>0, <1>3 DEF Entry, DeductCredit
  <2>2. Replaces(t, k, [keys[k] EXCEPT !.credits = @ - 1])
    BY <1>0, <1>3, <2>1 DEF DeductCredit, Replaces, Has
  <2>3. QED
    BY <2>1, <2>2
<1>4. ASSUME NEW k \in Key, ToggleKey(t, k) PROVE Goal
  <2>1. [keys[k] EXCEPT !.enabled = ~ @] \in Entry
    BY <1>0, <1>4 DEF Entry, ToggleKey
  <2>2. Replaces(t, k, [keys[k] EXCEPT !.enabled = ~ @])
    BY <1>0, <1>4, <2>1 DEF ToggleKey, Replaces, Has
  <2>3. QED
    BY <2>1, <2>2
<1>5. ASSUME NEW k \in Key, DeleteKey(t, k) PROVE Goal
  BY <1>5 DEF DeleteKey, Replaces
<1>6. QED
  BY <1>1, <1>2, <1>3, <1>4, <1>5 DEF Operation

\* Every step preserves the invariant.
LEMMA StepInv == IInv /\ [Next]_vars => IInv'
<1> SUFFICES ASSUME IInv, [Next]_vars PROVE IInv'
  OBVIOUS
<1> USE DEF IInv
<1>1. ASSUME NEW t \in Task, Operation(t) PROVE IInv'
  <2>0. PICK k \in Key, e \in Entry \cup {NoKey} : Replaces(t, k, e)
    BY <1>1, OperationReplaces
  <2>1. /\ Change(t, k, e)
        /\ \/ /\ e # NoKey
              /\ deleting' = deleting
              /\ keys[k] # NoKey \/ (k \notin deleted /\ \A u \in Task : deleting[u] # k)
           \/ /\ e = NoKey
              /\ deleting' = [deleting EXCEPT ![t] = k]
    BY <2>0 DEF Replaces
  <2>2. TypeOK'
    BY <2>1 DEF Change, TypeOK, Map
  <2>3. Holding'
    BY <2>1, TaskAssumption DEF Change, Holding, TypeOK
  <2>4. FileCatchesUp'
    BY <2>1 DEF Change, FileCatchesUp, Saving, TypeOK
  <2>5. Deleting'
    BY <2>1, KeyAssumption DEF Change, Deleting, TypeOK, Map
  <2>6. DeletedStaysDeleted'
    BY <2>1 DEF Change, DeletedStaysDeleted, TypeOK, Map
  <2>7. QED
    BY <2>2, <2>3, <2>4, <2>5, <2>6
<1>2. ASSUME NEW t \in Task, Truncate(t) PROVE IInv'
  <2>1. TypeOK'
    BY <1>2 DEF Truncate, TypeOK
  <2>2. Holding'
    BY <1>2, TaskAssumption DEF Truncate, Holding, TypeOK
  <2>3. FileCatchesUp'
    BY <1>2 DEF Truncate, FileCatchesUp, Saving, TypeOK
  <2>4. Deleting'
    BY <1>2 DEF Truncate, Deleting
  <2>5. DeletedStaysDeleted'
    BY <1>2, LoadMap DEF Truncate, DeletedStaysDeleted, TypeOK, Empty
  <2>6. QED
    BY <2>1, <2>2, <2>3, <2>4, <2>5
<1>3. ASSUME NEW t \in Task, Write(t) PROVE IInv'
  <2>1. file' = keys /\ keys' = keys /\ Load(file') = keys
    BY <1>3, LoadMap DEF Write, Holding, TypeOK
  <2>2. TypeOK'
    BY <1>3, <2>1, LoadMap DEF Write, TypeOK
  <2>3. Holding'
    BY <1>3, TaskAssumption DEF Write, Holding, TypeOK
  <2>4. FileCatchesUp'
    BY <2>1 DEF FileCatchesUp
  <2>5. Deleting'
    BY <1>3 DEF Write, Deleting, TypeOK
  <2>6. DeletedStaysDeleted'
    BY <1>3, <2>1 DEF Write, DeletedStaysDeleted, Deleting
  <2>7. QED
    BY <2>2, <2>3, <2>4, <2>5, <2>6
<1>4. CASE Restart
  <2>1. keys' = Load(file) /\ Load(file') = Load(file) /\ Load(file) \in Map
    BY <1>4, LoadMap DEF Restart, TypeOK
  <2>2. TypeOK'
    BY <1>4, <2>1, LoadMap DEF Restart, TypeOK
  <2>3. Holding' /\ Deleting'
    BY <1>4 DEF Restart, Holding, Deleting
  <2>4. FileCatchesUp'
    BY <2>1 DEF FileCatchesUp
  <2>5. DeletedStaysDeleted'
    BY <1>4, <2>1 DEF Restart, DeletedStaysDeleted
  <2>6. QED
    BY <2>2, <2>3, <2>4, <2>5
<1>5. CASE UNCHANGED vars
  BY <1>5 DEF vars, TypeOK, Holding, FileCatchesUp, Saving, Deleting, DeletedStaysDeleted
<1>6. QED
  BY <1>1, <1>2, <1>3, <1>4, <1>5 DEF Next

-----------------------------------------------------------------------------
THEOREM Invariance == Spec => []IInv
BY InitInv, StepInv, PTL DEF Spec

\* The map, the file, the mutex and the text being written keep their kinds,
\* whichever handlers stand between map and file when the process restarts.
THEOREM TypeCorrect == Spec => []TypeOK
<1>1. IInv => TypeOK
  BY DEF IInv
<1>2. QED
  BY <1>1, Invariance, PTL

\* However many handlers save at once, keys.json ends up as the latest map.
THEOREM FileIsTheLatestMap == Spec => []FileCatchesUp
<1>1. IInv => FileCatchesUp
  BY DEF IInv
<1>2. QED
  BY <1>1, Invariance, PTL

\* A key whose deletion was answered never comes back, not by a restart either.
THEOREM DeletionsLast == Spec => []DeletedStaysDeleted
<1>1. IInv => DeletedStaysDeleted
  BY DEF IInv
<1>2. QED
  BY <1>1, Invariance, PTL

-----------------------------------------------------------------------------
\* keys.rs keeps the promises of KeyStore: its initial state is one of
\* KeyStore's, and each of its steps is an operation, the beginning or the end
\* of a rewrite, or a restart.
THEOREM ImplementsStore == Spec => StoreSpec
<1>1. Init => Store!Init
  BY LoadMap DEF Init, Store!Init, Store!Empty, Empty
<1>2. IInv /\ [Next]_vars => [Store!Next]_(Store!vars)
  <2> SUFFICES ASSUME IInv, [Next]_vars PROVE [Store!Next]_(Store!vars)
    OBVIOUS
  <2> USE DEF IInv
  <2>1. ASSUME NEW t \in Task, Operation(t) PROVE Store!Operation
    <3>1. Load(file)' = Load(file)
      BY <2>1 DEF Operation, CreateKey, AddCredits, DeductCredit, ToggleKey, DeleteKey, Change
    <3>2. ASSUME NEW k \in Key, NEW n \in Amount, CreateKey(t, k, n) PROVE Store!Create(k, n)
      BY <3>1, <3>2 DEF CreateKey, Change, Has, Store!Create, Store!Has
    <3>3. ASSUME NEW k \in Key, NEW n \in Amount, AddCredits(t, k, n) PROVE Store!Grant(k, n)
      BY <3>1, <3>3 DEF AddCredits, Change, Has, Store!Grant, Store!Has, TypeOK, Map, Entry
    <3>4. ASSUME NEW k \in Key, DeductCredit(t, k) PROVE Store!Spend(k)
      BY <3>1, <3>4 DEF DeductCredit, Change, Has, Store!Spend, Store!Has, TypeOK, Map, Entry
    <3>5. ASSUME NEW k \in Key, ToggleKey(t, k) PROVE Store!Toggle(k)
      BY <3>1, <3>5 DEF ToggleKey, Change, Has, Store!Toggle, Store!Has, TypeOK, Map, Entry
    <3>6. ASSUME NEW k \in Key, DeleteKey(t, k) PROVE Store!Revoke(k)
      BY <3>1, <3>6 DEF DeleteKey, Change, Has, Store!Revoke, Store!Has
    <3>7. QED
      BY <2>1, <3>2, <3>3, <3>4, <3>5, <3>6 DEF Operation, Store!Operation
  <2>2. ASSUME NEW t \in Task, Truncate(t) PROVE Store!BeginRewrite
    BY <2>2, LoadMap DEF Truncate, Store!BeginRewrite, Store!Empty, Empty
  <2>3. ASSUME NEW t \in Task, Write(t) PROVE Store!EndRewrite
    BY <2>3, LoadMap DEF Write, Holding, TypeOK, Store!EndRewrite
  <2>4. CASE Restart
    BY <2>4 DEF Restart, Store!Next, Store!Restart, Load
  <2>5. CASE UNCHANGED vars
    BY <2>5 DEF vars, Store!vars
  <2>6. QED
    BY <2>1, <2>2, <2>3, <2>4, <2>5 DEF Next, Store!Next
<1>3. QED
  BY <1>1, <1>2, Invariance, PTL DEF Spec, StoreSpec, Store!Spec
=============================================================================
