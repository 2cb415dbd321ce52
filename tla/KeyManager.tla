----------------------------- MODULE KeyManager -----------------------------
(***************************************************************************)
(* The API keys of the master (src/keys.rs): a map behind a mutex and its  *)
(* copy keys.json, as concurrent HTTP handlers use them.  An operation     *)
(* changes the map in one critical section, lets go of the mutex, and then *)
(* saves; save() takes the mutex again and holds it while it rewrites the  *)
(* file, which fs::write truncates before it fills it.  The process can    *)
(* stop at any point and start again from the file.                        *)
(***************************************************************************)
EXTENDS Integers

CONSTANTS Key, NoKey, Amount, MaxCredits,   \* as in KeyStore
          Task,                             \* handlers running at a time
          NoTask, Unreadable                \* the mutex is free; no JSON in the file

Entry == [credits : Nat, enabled : BOOLEAN]

ASSUME KeyAssumption == /\ NoKey \notin Entry \cup Key
                        /\ Amount \subseteq Nat
                        /\ MaxCredits \in Nat
ASSUME TaskAssumption == NoTask \notin Task

Map   == [Key -> Entry \cup {NoKey}]
Empty == [k \in Key |-> NoKey]

ASSUME FileAssumption == Unreadable \notin Map

VARIABLES
  keys,     \* the map
  file,     \* keys.json: a map, or Unreadable while missing or truncated
  mutex,    \* the handler that holds the mutex from one step to another
  pc,       \* where each handler stands
  text,     \* the JSON each handler is about to write
  deleting, \* the key each handler deletes, NoKey when none
  deleted   \* history: keys whose deletion has been answered

vars == <<keys, file, mutex, pc, text, deleting, deleted>>

Has(k) == keys[k] # NoKey

\* load(), with unwrap_or_default: an unreadable file counts as no keys.
Load(f) == IF f = Unreadable THEN Empty ELSE f

Init ==
  /\ keys     = Empty
  /\ file     = Unreadable
  /\ mutex    = NoTask
  /\ pc       = [t \in Task |-> "idle"]
  /\ text     = [t \in Task |-> Empty]
  /\ deleting = [t \in Task |-> NoKey]
  /\ deleted  = {}

-----------------------------------------------------------------------------
\* The critical section an operation begins with; it saves afterwards.
Change(t, k, entry) ==
  /\ pc[t] = "idle" /\ mutex = NoTask
  /\ keys' = [keys EXCEPT ![k] = entry]
  /\ pc'   = [pc EXCEPT ![t] = "save"]
  /\ UNCHANGED <<file, mutex, text, deleted>>

\* The clock names a key no handler has named before.
CreateKey(t, k, n) ==
  /\ ~ Has(k)
  /\ k \notin deleted /\ \A u \in Task : deleting[u] # k
  /\ Change(t, k, [credits |-> n, enabled |-> TRUE])
  /\ UNCHANGED deleting

\* Fault: the credit is taken whether there is one or not.
DeductUnchecked(t, k) ==
  /\ Has(k)
  /\ Change(t, k, [keys[k] EXCEPT !.credits = @ - 1])
  /\ UNCHANGED deleting

DeductCredit(t, k) ==
  /\ Has(k) /\ keys[k].credits > 0
  /\ Change(t, k, [keys[k] EXCEPT !.credits = @ - 1])
  /\ UNCHANGED deleting

AddCredits(t, k, n) ==
  /\ Has(k) /\ keys[k].credits + n <= MaxCredits
  /\ Change(t, k, [keys[k] EXCEPT !.credits = @ + n])
  /\ UNCHANGED deleting

ToggleKey(t, k) ==
  /\ Has(k)
  /\ Change(t, k, [keys[k] EXCEPT !.enabled = ~ @])
  /\ UNCHANGED deleting

DeleteKey(t, k) ==
  /\ Has(k)
  /\ Change(t, k, NoKey)
  /\ deleting' = [deleting EXCEPT ![t] = k]

\* Fault: the mutex is let go once the text is made.
TruncateUnlocked(t) ==
  /\ pc[t] = "save" /\ mutex = NoTask
  /\ text' = [text EXCEPT ![t] = keys]
  /\ file' = Unreadable
  /\ pc'   = [pc EXCEPT ![t] = "write"]
  /\ UNCHANGED <<keys, mutex, deleting, deleted>>

\* save(): the mutex again, the text of the map, and fs::write truncates.
Truncate(t) ==
  /\ pc[t] = "save" /\ mutex = NoTask
  /\ mutex' = t
  /\ text'  = [text EXCEPT ![t] = keys]
  /\ file'  = Unreadable
  /\ pc'    = [pc EXCEPT ![t] = "write"]
  /\ UNCHANGED <<keys, deleting, deleted>>

\* The rest of fs::write; the mutex is free again and the handler answers.
Write(t) ==
  /\ pc[t] = "write"
  /\ file'     = text[t]
  /\ mutex'    = NoTask
  /\ text'     = [text EXCEPT ![t] = Empty]
  /\ pc'       = [pc EXCEPT ![t] = "idle"]
  /\ deleting' = [deleting EXCEPT ![t] = NoKey]
  /\ deleted'  = deleted \cup ({deleting[t]} \ {NoKey})
  /\ UNCHANGED keys

\* The process ends, wherever its handlers stand, and starts again.
Restart ==
  /\ keys'     = Load(file)
  /\ mutex'    = NoTask
  /\ pc'       = [t \in Task |-> "idle"]
  /\ text'     = [t \in Task |-> Empty]
  /\ deleting' = [t \in Task |-> NoKey]
  /\ UNCHANGED <<file, deleted>>

Operation(t) ==
  \E k \in Key : \/ \E n \in Amount : CreateKey(t, k, n) \/ AddCredits(t, k, n)
                 \/ DeductCredit(t, k) \/ ToggleKey(t, k) \/ DeleteKey(t, k)

Next == Restart \/ \E t \in Task : Operation(t) \/ Truncate(t) \/ Write(t)

Spec == Init /\ [][Next]_vars

-----------------------------------------------------------------------------
(* Properties. *)

TypeOK ==
  /\ keys     \in Map
  /\ file     \in Map \cup {Unreadable}
  /\ mutex    \in Task \cup {NoTask}
  /\ pc       \in [Task -> {"idle", "save", "write"}]
  /\ text     \in [Task -> Map]
  /\ deleting \in [Task -> Key \cup {NoKey}]
  /\ deleted  \subseteq Key

\* keys.json is the map unless some handler has yet to save: whoever saves
\* last saves the latest map, however the handlers take turns.
Saving(t) == pc[t] \in {"save", "write"}
FileCatchesUp == Load(file) = keys \/ \E t \in Task : Saving(t)

\* A key whose deletion was answered never comes back, neither by a file
\* written from an older map nor by a restart at any point.
DeletedStaysDeleted ==
  \A k \in deleted : keys[k] = NoKey /\ Load(file)[k] = NoKey

\* The key manager keeps the promises of KeyStore: operations are atomic, and
\* a restart finds the last complete rewrite or nothing.
Store == INSTANCE KeyStore WITH saved <- Load(file)
StoreSpec == Store!Spec
=============================================================================
