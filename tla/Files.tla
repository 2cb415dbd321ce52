--------------------------------- MODULE Files --------------------------------
(***************************************************************************)
(* The files of a worker: the engine that Workspace::extract_llama unpacks *)
(* (src/workspace.rs) and the models that download_model fetches           *)
(* (src/client.rs), with the start of run_worker that puts one before the  *)
(* other, over any number of runs of the process.                          *)
(*                                                                         *)
(* A run may end at any point, by an error that run_worker returns, by a   *)
(* user who quits or by a crash; what is in the files stays.  (That the    *)
(* machine loses power, and writes that were not flushed, is not           *)
(* modelled.)  One process at a time uses the directory.  The worker is a  *)
(* SuperNode here, the others fetch no model; which model it is told to    *)
(* run may change, with the configuration of the master.                   *)
(***************************************************************************)
EXTENDS Integers

CONSTANTS
  Entries,   \* files in the embedded archive, in its order
  RpcEntry,  \* ggml-rpc-server.exe among them
  Model,     \* the models of the master's configuration
  Page,      \* what a server may answer with in place of a model
  Chunks,    \* chunks in the body of an answer
  None

ASSUME EntriesAssumption == Entries \in Nat /\ RpcEntry \in 1 .. Entries
ASSUME ModelsAssumption  == /\ Chunks \in Nat
                            /\ Page \notin Model
                            /\ None \notin Model \cup {Page}

VARIABLES
  main,    \* where run_worker is
  entry,   \* the entry of the archive it is at
  engine,  \* the file of each entry
  client,  \* where start_master_connection is
  model,   \* the model it is fetching
  tmp,     \* <model>.gguf.tmp
  dest,    \* <model>.gguf
  config,  \* what went through the channel to run_worker
  cut      \* a run has ended while it unpacked, with ggml-rpc-server.exe there

mainVars   == <<main, entry, engine, cut>>
clientVars == <<client, model, tmp, dest>>
vars == <<mainVars, clientVars, config>>

NoFile  == [of |-> None, chunks |-> 0]
File    == [of : Model \cup {Page}, chunks : 0 .. Chunks]
Exists(f)  == f # NoFile
Unpacking  == main \in {"creating", "copying"}
Unpacked   == main \in {"waiting", "running"}

Init ==
  /\ main = "off" /\ entry = 1 /\ cut = FALSE
  /\ engine = [i \in 1 .. Entries |-> "absent"]
  /\ client = "off" /\ model = None
  /\ tmp = [m \in Model |-> NoFile]
  /\ dest = [m \in Model |-> NoFile]
  /\ config = None
-----------------------------------------------------------------------------
(* run_worker and extract_llama. *)

\* Nothing is unpacked when ggml-rpc-server.exe is there.
Start ==
  /\ main = "off"
  /\ entry' = 1
  /\ \/ /\ engine[RpcEntry] = "absent"
        /\ main' = "creating"
        /\ UNCHANGED client
     \/ /\ engine[RpcEntry] # "absent"
        /\ main' = "waiting" /\ client' = "idle"
  /\ UNCHANGED <<engine, cut, model, tmp, dest, config>>

\* Fault: a file that is there is left as it is.
CreateIfAbsent ==
  /\ main = "creating" /\ entry <= Entries
  /\ \/ /\ engine[entry] = "absent"
        /\ engine' = [engine EXCEPT ![entry] = "partial"]
        /\ main' = "copying"
        /\ UNCHANGED entry
     \/ /\ engine[entry] # "absent"
        /\ entry' = entry + 1
        /\ UNCHANGED <<main, engine>>
  /\ UNCHANGED <<cut, clientVars, config>>

\* File::create truncates what an earlier run may have left.
Create ==
  /\ main = "creating" /\ entry <= Entries
  /\ engine' = [engine EXCEPT ![entry] = "partial"]
  /\ main' = "copying"
  /\ UNCHANGED <<entry, cut, clientVars, config>>

Copy ==
  /\ main = "copying"
  /\ engine' = [engine EXCEPT ![entry] = "whole"]
  /\ entry' = entry + 1
  /\ main' = "creating"
  /\ UNCHANGED <<cut, clientVars, config>>

\* The connection to the master is started once the engine is unpacked.
Extracted ==
  /\ main = "creating" /\ entry > Entries
  /\ main' = "waiting" /\ client' = "idle"
  /\ UNCHANGED <<entry, engine, cut, model, tmp, dest, config>>

\* The configuration has come; the children are launched on the files.
Launch ==
  /\ main = "waiting" /\ config # None
  /\ main' = "running"
  /\ UNCHANGED <<entry, engine, cut, clientVars, config>>

\* The run ends: an error of a step, the timeout for the configuration, a
\* child that ended, the user, or a crash.
Stop ==
  /\ main # "off"
  /\ main' = "off" /\ client' = "off" /\ config' = None /\ model' = None
  /\ cut' = (cut \/ (Unpacking /\ engine[RpcEntry] # "absent"))
  /\ UNCHANGED <<entry, engine, tmp, dest>>
-----------------------------------------------------------------------------
(* start_master_connection, as a SuperNode, and download_model. *)

\* The configuration goes to run_worker if none has gone before.
Ready(m) == /\ client' = "beating"
            /\ model' = None
            /\ config' = IF config = None THEN m ELSE config

\* Registered, with m to run. A model that is there is taken as it is.
Skip(m) ==
  /\ client = "idle" /\ Exists(dest[m])
  /\ Ready(m)
  /\ UNCHANGED <<mainVars, tmp, dest>>

\* Fault: the temporary file must not exist.
FetchNew(m, body) ==
  /\ client = "idle" /\ ~ Exists(dest[m]) /\ ~ Exists(tmp[m])
  /\ client' = "fetching" /\ model' = m
  /\ tmp' = [tmp EXCEPT ![m] = [of |-> body, chunks |-> 0]]
  /\ UNCHANGED <<mainVars, dest, config>>

\* The server has answered, with the model or, since no status is looked at,
\* with any other page; File::create truncates the temporary file.
Fetch(m, body) ==
  /\ client = "idle" /\ ~ Exists(dest[m])
  /\ client' = "fetching" /\ model' = m
  /\ tmp' = [tmp EXCEPT ![m] = [of |-> body, chunks |-> 0]]
  /\ UNCHANGED <<mainVars, dest, config>>

\* Fault: the end of the body is not noticed.
ReceiveMore ==
  /\ client = "fetching" /\ tmp[model].chunks <= Chunks
  /\ tmp' = [tmp EXCEPT ![model] = [of |-> @.of, chunks |-> @.chunks + 1]]
  /\ UNCHANGED <<mainVars, client, model, dest, config>>

Receive ==
  /\ client = "fetching" /\ tmp[model].chunks < Chunks
  /\ tmp' = [tmp EXCEPT ![model] = [of |-> @.of, chunks |-> @.chunks + 1]]
  /\ UNCHANGED <<mainVars, client, model, dest, config>>

\* Fault: a body that breaks off counts as ended.
RenameAnyway ==
  /\ client = "fetching"
  /\ dest' = [dest EXCEPT ![model] = tmp[model]]
  /\ tmp'  = [tmp  EXCEPT ![model] = NoFile]
  /\ Ready(model)
  /\ UNCHANGED mainVars

\* chunk() has returned None: the end of the body, since one that has a length
\* or comes in chunks of its own is an error when it breaks off.
Rename ==
  /\ client = "fetching" /\ tmp[model].chunks = Chunks
  /\ dest' = [dest EXCEPT ![model] = tmp[model]]
  /\ tmp'  = [tmp  EXCEPT ![model] = NoFile]
  /\ Ready(model)
  /\ UNCHANGED mainVars

\* Any step of the download fails: 5 s later the worker registers again.
Fail ==
  /\ client = "fetching"
  /\ client' = "idle" /\ model' = None
  /\ UNCHANGED <<mainVars, tmp, dest, config>>

\* The connection to the master is lost, and the worker registers again.
LoseMaster ==
  /\ client = "beating"
  /\ client' = "idle"
  /\ UNCHANGED <<mainVars, model, tmp, dest, config>>
-----------------------------------------------------------------------------
Main     == Start \/ Create \/ Copy \/ Extracted \/ Launch
Register == \E m \in Model : Skip(m) \/ \E body \in {m, Page} : Fetch(m, body)
Download == Receive \/ Rename \/ Fail
Next     == Main \/ Stop \/ Register \/ Download \/ LoseMaster

(* The client goes on, and errors of the network and the disk come to an   *)
(* end. Nothing obliges a run to start or to stop.                         *)
Fairness == WF_vars(Register) /\ WF_vars(Receive \/ Rename) /\ <>[][~ Fail]_vars

Spec     == Init /\ [][Next]_vars
FairSpec == Spec /\ Fairness
-----------------------------------------------------------------------------
(* Properties. *)

\* The variables keep their kinds: the files have no more than their content.
TypeOK ==
  /\ main \in {"off", "creating", "copying", "waiting", "running"}
  /\ entry \in 1 .. Entries + 1
  /\ engine \in [1 .. Entries -> {"absent", "partial", "whole"}]
  /\ client \in {"off", "idle", "fetching", "beating"}
  /\ model \in Model \cup {None}
  /\ tmp \in [Model -> File \cup {NoFile}]
  /\ dest \in [Model -> File \cup {NoFile}]
  /\ config \in Model \cup {None}
  /\ cut \in BOOLEAN

\* Whatever fails or ends a run, and whatever an earlier download left: a file
\* under a model's name is all of one answer to a request for that model, and
\* llama-server is not launched without one.
ModelIsWhole ==
  /\ \A m \in Model : Exists(dest[m]) => dest[m].chunks = Chunks /\ dest[m].of \in {m, Page}
  /\ main = "running" => Exists(dest[config])

\* A run that ends while the engine is unpacked, and files that an earlier one
\* left unfinished, do no harm as long as ggml-rpc-server.exe was not there
\* yet: the engine is launched with every file whole. If it was there, that
\* holds of the files before it only, and no later run completes the others.
EngineIsWhole ==
  Unpacked => \A i \in 1 .. Entries : (cut => i < RpcEntry) => engine[i] = "whole"

\* A download that failed, or that a run did not live to finish, stands in the
\* way of no later one: once errors come to an end the model is there.
DownloadEnds == client \in {"idle", "fetching"} ~> client \in {"beating", "off"}
=============================================================================
