------------------------------ MODULE TensorSplit -----------------------------
(***************************************************************************)
(* What INFER would be answered in a state of the registry: the chain of   *)
(* RPC workers and the layers of the model that each is to hold            *)
(* (calculate_tensor_split of src/master.rs).  The handler reads the table *)
(* once and changes nothing, so this is a function of the state and of the *)
(* order in which the hash map yields the nodes.                           *)
(***************************************************************************)
EXTENDS Registry, SequencesExt

CONSTANT TotalLayers  \* of the model that is asked for

ASSUME LayersAssumption == TotalLayers \in Nat

\* get_active_workers: the nodes of the table.
ActiveWorkers == {w \in Worker : Registered(w)}

\* Fault: the SuperNode's own GPU is forgotten.
GpuProvidersOnly(ids) == {w \in ids : workers[w].role = "GpuProvider"}

\* The filter of calculate_tensor_split.
GpuWorkers(ids) == {w \in ids : workers[w].role \in {"GpuProvider", "SuperNode"}}

\* The filtered nodes, in each of the orders that the map may yield them in.
GpuOrders(ids) == {[i \in DOMAIN order |-> workers[order[i]]] :
                      order \in SetToSeqs(GpuWorkers(ids))}

Local(total) == << [addr |-> "127.0.0.1:8090", layers |-> total] >>

\* What is computed from them: equal shares, one layer more for the first total % n.
CalculateTensorSplit(total, gpu) ==
  LET n     == Len(gpu)
      extra == total % n
  IN  IF n = 0 THEN Local(total)
      ELSE [i \in 1 .. n |->
              [addr   |-> gpu[i].addr,
               layers |-> (total \div n) + (IF i <= extra THEN 1 ELSE 0)]]

\* The number of layers that the first i links of the chain hold together.
LayersUpTo(split) ==
  LET sum[i \in 0 .. Len(split)] == IF i = 0 THEN 0 ELSE sum[i - 1] + split[i].layers
  IN  sum

\* The layers of the chain are those of the model, also of one with fewer
\* layers than there are workers, and no worker is given two more than another.
IsEvenSplit(split, total) ==
  /\ LayersUpTo(split)[Len(split)] = total
  /\ \A i, j \in DOMAIN split : split[i].layers <= split[j].layers + 1

\* Whatever the table and its order, the split that INFER is answered is even,
\* and every GPU of the table is in the chain exactly once, whatever elections
\* and evictions did to the roles.
LayersAreSplit ==
  ActiveWorkers # {} => \A gpu \in GpuOrders(ActiveWorkers) :
    LET split == CalculateTensorSplit(TotalLayers, gpu)
        gpus  == {w \in Worker : workers[w].role \in {"GpuProvider", "SuperNode"}}
    IN  /\ IsEvenSplit(split, TotalLayers)
        /\ gpus # {} => /\ Len(split) = Cardinality(gpus)
                        /\ {split[i].addr : i \in DOMAIN split} = {workers[w].addr : w \in gpus}
=============================================================================
