------------------------------- MODULE Billing ------------------------------
(***************************************************************************)
(* What a chat completion costs and whom it pays (chat_completions and     *)
(* add_credits of src/api.rs, the credits of src/master.rs).  The pool is  *)
(* an atomic, the workers' credits are in the registry's table, the keys   *)
(* are a KeyStore: nothing holds them together, so the requests served at  *)
(* the same time interleave between the checks, which come before the      *)
(* relay is asked, and the three charges, which come after its answer.     *)
(* credits.json holds the pool and the credits of the registered workers;  *)
(* saved_worker_credits is what it held when the master started.           *)
(*                                                                         *)
(* Of the registry this module keeps who is in the table and who holds the *)
(* slot (Registry says how they come and go).                              *)
(***************************************************************************)
EXTENDS KeyStore, FiniteSets

CONSTANTS
  Worker,       \* big-GPU workers
  Request,      \* chat completions running at a time
  Admin,        \* the operator's POST of credits
  None,         \* no worker, no key, no credits
  PoolMod,      \* 2^64
  DefaultPool,  \* 1000, the pool of a master that finds no file
  MaxPool,      \* bound on the sums of the operator (no less than PoolMod: none)
  MaxServed     \* bound on the answers of the relay

ASSUME BillingAssumption ==
  /\ None \notin Worker \cup Key \cup Nat
  /\ Admin \notin Request
  /\ PoolMod \in Nat /\ DefaultPool \in 0 .. PoolMod - 1
  /\ MaxPool \in Nat /\ MaxServed \in Nat

VARIABLES
  pool,         \* credit_pool
  slot,         \* super_node_id
  credits,      \* worker -> its credits, None when it is not in the table
  savedCredits, \* saved_worker_credits
  creditsFile,  \* credits.json
  tunnel,       \* workers whose inference tunnel to the relay is open
  pc,           \* where each request, and the operator's, stands
  keyOf,        \* the key of each request
  taken,        \* the value of the pool each of them is going to save
  payee,        \* the worker each request read from the slot
  answer,       \* history: the answer each request was given, until it pays for it
  earned,       \* history: the answers each worker was ever credited for
  served        \* history: answers of the relay so far, numbered from 1

registryVars == <<slot, credits, savedCredits>>
localVars    == <<keyOf, taken, payee, answer>>
history      == <<earned, served>>
billingVars  == <<pool, registryVars, creditsFile, tunnel, pc, localVars, history>>
allVars      == <<vars, billingVars>>

Task   == Request \cup {Admin}
NoFile == [pool |-> DefaultPool, workers |-> [w \in Worker |-> 0]]

Wrap(n) == n % PoolMod

BillingInit ==
  /\ Init
  /\ pool         = DefaultPool
  /\ slot         = None
  /\ credits      = [w \in Worker |-> None]
  /\ savedCredits = [w \in Worker |-> 0]
  /\ creditsFile  = NoFile
  /\ tunnel       = {}
  /\ pc           = [t \in Task |-> "idle"]
  /\ keyOf        = [t \in Task |-> None]
  /\ taken        = [t \in Task |-> 0]
  /\ payee        = [t \in Task |-> None]
  /\ answer       = [t \in Task |-> 0]
  /\ earned       = [w \in Worker |-> {}]
  /\ served       = 0

Goto(t, label) == pc' = [pc EXCEPT ![t] = label]
Finish(t) == /\ Goto(t, "idle")
             /\ keyOf' = [keyOf EXCEPT ![t] = None]
             /\ taken' = [taken EXCEPT ![t] = 0]
             /\ payee' = [payee EXCEPT ![t] = None]
             /\ answer' = [answer EXCEPT ![t] = 0]

-----------------------------------------------------------------------------
(* chat_completions. *)

\* validate_key; a request it turns away leaves no trace.
Validate(r, k) ==
  /\ pc[r] = "idle"
  /\ Has(k) /\ keys[k].enabled /\ keys[k].credits > 0
  /\ keyOf' = [keyOf EXCEPT ![r] = k]
  /\ Goto(r, "check")
  /\ UNCHANGED <<vars, pool, registryVars, creditsFile, taken, payee, answer, tunnel, history>>

CheckPool(r) ==
  /\ pc[r] = "check"
  /\ \/ /\ pool # 0
        /\ Goto(r, "relay")
        /\ UNCHANGED localVars
     \/ /\ pool = 0
        /\ Finish(r)
  /\ UNCHANGED <<vars, pool, registryVars, creditsFile, tunnel, history>>

\* The relay cannot be reached, breaks off or does not answer 2xx, or the
\* caller goes away: nobody is charged.
RelayFails(r) ==
  /\ pc[r] = "relay"
  /\ Finish(r)
  /\ UNCHANGED <<vars, pool, registryVars, creditsFile, tunnel, history>>

\* A worker that was made SuperNode answers through its tunnel, which does
\* not depend on its being in the registry still.
RelayAnswers(r) ==
  /\ pc[r] = "relay" /\ tunnel # {} /\ served < MaxServed
  /\ served' = served + 1
  /\ answer' = [answer EXCEPT ![r] = served + 1]
  /\ Goto(r, "charge")
  /\ UNCHANGED <<vars, pool, registryVars, creditsFile, keyOf, taken, payee, tunnel, earned>>

\* fetch_sub(1) - 1.  The atomic wraps; the subtraction after it wraps in a
\* release build and panics in a debug build, which ends the request.
ChargePool(r) ==
  /\ pc[r] = "charge"
  /\ pool' = Wrap(pool - 1)
  /\ \/ /\ taken' = [taken EXCEPT ![r] = pool']
        /\ Goto(r, "payee")
        /\ UNCHANGED <<keyOf, payee, answer>>
     \/ /\ pool = 0
        /\ Finish(r)
  /\ UNCHANGED <<vars, registryVars, creditsFile, tunnel, history>>

ReadSlot(r) ==
  /\ pc[r] = "payee"
  /\ payee' = [payee EXCEPT ![r] = slot]
  /\ Goto(r, IF slot = None THEN "deduct" ELSE "credit")
  /\ UNCHANGED <<vars, pool, registryVars, creditsFile, keyOf, taken, answer, tunnel, history>>

Credit(r) ==
  /\ pc[r] = "credit"
  /\ LET w == payee[r]
     IN  \/ /\ credits[w] # None
            /\ credits' = [credits EXCEPT ![w] = @ + 1]
            /\ earned'  = [earned  EXCEPT ![w] = @ \cup {answer[r]}]
            /\ Goto(r, "save")
         \/ /\ credits[w] = None
            /\ Goto(r, "deduct")
            /\ UNCHANGED <<credits, earned>>
  /\ answer' = [answer EXCEPT ![r] = 0]
  /\ UNCHANGED <<vars, pool, slot, savedCredits, creditsFile, keyOf, taken, payee, tunnel, served>>

\* save_credits, with the pool its caller read earlier: the registered
\* workers and no others.
SaveCredits(t) ==
  /\ pc[t] = "save"
  /\ creditsFile' = [pool    |-> taken[t],
                     workers |-> [w \in Worker |-> IF credits[w] = None THEN 0 ELSE credits[w]]]
  /\ \/ /\ t = Admin
        /\ Finish(t)
     \/ /\ t # Admin
        /\ Goto(t, "deduct")
        /\ UNCHANGED localVars
  /\ UNCHANGED <<vars, pool, registryVars, tunnel, history>>

\* deduct_credit; whether it found a credit to take is not looked at.
DeductKey(r) ==
  /\ pc[r] = "deduct"
  /\ \/ Spend(keyOf[r])
     \/ /\ Has(keyOf[r]) => keys[keyOf[r]].credits = 0
        /\ UNCHANGED vars
  /\ Finish(r)
  /\ UNCHANGED <<pool, registryVars, creditsFile, tunnel, history>>

-----------------------------------------------------------------------------
(* The operator, the workers, and the process. *)

\* add_credits: fetch_add, which wraps, then a load of its own, then save_credits.
AddToPool(n) ==
  /\ pc[Admin] = "idle" /\ n > 0 /\ pool + n <= MaxPool
  /\ pool' = Wrap(pool + n)
  /\ Goto(Admin, "load")
  /\ UNCHANGED <<vars, registryVars, creditsFile, localVars, tunnel, history>>

LoadPool ==
  /\ pc[Admin] = "load"
  /\ taken' = [taken EXCEPT ![Admin] = pool]
  /\ Goto(Admin, "save")
  /\ UNCHANGED <<vars, pool, registryVars, creditsFile, keyOf, payee, answer, tunnel, history>>

\* Fault: a worker that registers again keeps its credits and is given the
\* saved ones on top.
EnterOnTop(w) ==
  /\ credits' = [credits EXCEPT ![w] = IF @ = None THEN savedCredits[w] ELSE @ + savedCredits[w]]
  /\ slot'   = IF slot = None THEN w ELSE slot
  /\ tunnel' = IF slot = None THEN tunnel \cup {w} ELSE tunnel
  /\ UNCHANGED <<vars, pool, savedCredits, creditsFile, pc, localVars, history>>

\* A registration, of a worker already in the table too: its node replaces
\* the one before, with the credits the file held when the master started.
Enter(w) ==
  /\ credits' = [credits EXCEPT ![w] = savedCredits[w]]
  /\ slot'   = IF slot = None THEN w ELSE slot
  /\ tunnel' = IF slot = None THEN tunnel \cup {w} ELSE tunnel
  /\ UNCHANGED <<vars, pool, savedCredits, creditsFile, pc, localVars, history>>

\* unregister(), for this module in one step.
Leave(w) ==
  /\ credits[w] # None
  /\ credits' = [credits EXCEPT ![w] = None]
  /\ slot' = IF slot = w THEN None ELSE slot
  /\ UNCHANGED <<vars, pool, savedCredits, creditsFile, pc, localVars, tunnel, history>>

\* The worker's application ends.
TunnelCloses(w) ==
  /\ w \in tunnel
  /\ tunnel' = tunnel \ {w}
  /\ UNCHANGED <<vars, pool, registryVars, creditsFile, pc, localVars, history>>

\* The key manager as its other callers and its file see it.
KeysChange ==
  /\ \/ \E k \in Key : \/ \E n \in Amount : Create(k, n) \/ Grant(k, n)
                       \/ Toggle(k) \/ Revoke(k)
     \/ BeginRewrite \/ EndRewrite
  /\ UNCHANGED billingVars

\* The process ends and starts again; credits.json is found as it was saved,
\* or, if a save was under way, truncated.
MasterRestarts ==
  /\ Restart
  /\ \/ creditsFile' = creditsFile
     \/ creditsFile' = NoFile /\ \E t \in Task : pc[t] = "save"
  /\ pool'         = creditsFile'.pool
  /\ savedCredits' = creditsFile'.workers
  /\ slot'    = None
  /\ credits' = [w \in Worker |-> None]
  /\ pc'      = [t \in Task |-> "idle"]
  /\ keyOf'   = [t \in Task |-> None]
  /\ taken'   = [t \in Task |-> 0]
  /\ payee'   = [t \in Task |-> None]
  /\ answer'  = [t \in Task |-> 0]
  /\ UNCHANGED <<tunnel, history>>

ChatCompletion(r) ==
  \/ \E k \in Key : Validate(r, k)
  \/ CheckPool(r) \/ RelayFails(r) \/ RelayAnswers(r) \/ ChargePool(r)
  \/ ReadSlot(r) \/ Credit(r) \/ SaveCredits(r) \/ DeductKey(r)

AddCredits == (\E n \in Amount : AddToPool(n)) \/ LoadPool \/ SaveCredits(Admin)

BillingNext == \/ \E r \in Request : ChatCompletion(r)
               \/ AddCredits
               \/ \E w \in Worker : Enter(w) \/ Leave(w) \/ TunnelCloses(w)
               \/ KeysChange
               \/ MasterRestarts

BillingSpec == BillingInit /\ [][BillingNext]_allVars

-----------------------------------------------------------------------------
(* Properties. *)

Pool  == 0 .. PoolMod - 1
Label == {"idle", "check", "relay", "charge", "payee", "credit", "save", "deduct", "load"}

BillingTypeOK ==
  /\ keys  \in [Key -> Entry \cup {NoKey}]
  /\ saved \in [Key -> Entry \cup {NoKey}]
  /\ pool  \in Pool
  /\ slot  \in Worker \cup {None}
  /\ credits      \in [Worker -> Nat \cup {None}]
  /\ savedCredits \in [Worker -> Nat]
  /\ creditsFile  \in [pool : Pool, workers : [Worker -> Nat]]
  /\ pc    \in [Task -> Label]
  /\ keyOf \in [Task -> Key \cup {None}]
  /\ taken \in [Task -> Pool]
  /\ tunnel \subseteq Worker
  /\ payee \in [Task -> Worker \cup {None}]
  /\ answer \in [Task -> 0 .. served]
  /\ earned \in [Worker -> SUBSET (1 .. served)]
  /\ served \in Nat

\* Reconnections and restarts, whenever they come, may cost a worker credits
\* and never give it credits that no request earned it: not in the table, not
\* in the file, not in what the next registration starts from.  And an answer
\* earns one credit, of one worker, however its request interleaves with others.
WorkersNotOverpaid ==
  /\ \A w \in Worker : LET most == Cardinality(earned[w])
                       IN  /\ credits[w] # None => credits[w] <= most
                           /\ creditsFile.workers[w] <= most
                           /\ savedCredits[w] <= most
  /\ \A v, w \in Worker : v # w => earned[v] \cap earned[w] = {}

\* "Si la respuesta fue exitosa, deducir crédito del pool, acreditar al
\* SuperNode, y descontar de la API key": an answered request takes a credit
\* from the pool, and one from its key if that has not been deleted.
ChargesAreTaken ==
  [][\A r \in Request :
       /\ ChargePool(r) => pool' = pool - 1
       /\ DeductKey(r) /\ Has(keyOf[r]) => keys' # keys]_allVars
=============================================================================
