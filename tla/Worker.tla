------------------------------- MODULE Worker -------------------------------
(***************************************************************************)
(* One worker application: the connection to the master                    *)
(* (src/client.rs), run_worker with its background tasks                   *)
(* (src-tauri/src/main.rs) and the children they launch (src/process.rs).  *)
(*                                                                         *)
(* Every LlamaProcess holds a handle of the one job object of the          *)
(* application, whose name is the same for all of them; closing the last   *)
(* handle kills the processes of the job, closing any other does nothing.  *)
(*                                                                         *)
(* The n-th list of slaves that the master announces is the number n; the  *)
(* list a llama-server starts with, just the local machine, is 0.          *)
(***************************************************************************)
EXTENDS Naturals, Sequences

CONSTANTS Offers,      \* roles that the master may assign to this machine
          MaxUpdates,  \* bound: lists the master announces
          None

Role == {"SuperNode", "GpuProvider", "Consumer"}
Pid  == 1 .. MaxUpdates + 2     \* two at the start, one per list

ASSUME WorkerAssumption == /\ Offers \subseteq Role
                           /\ MaxUpdates \in Nat
                           /\ None \notin Pid /\ None \notin Role

VARIABLES
  client,    \* where start_master_connection stands
  ready,     \* the oneshot channel for the first configuration
  updates,   \* the channel from the connection to handle_slave_updates
  sent,      \* lists announced so far
  main,      \* where run_worker stands
  role,      \* the role it runs
  shutdown,
  monitor,   \* where monitor_children stands
  rpc,       \* state.rpc_process
  server,    \* state.server_process
  proc,      \* state of each child process
  born,      \* children launched so far
  chain,     \* the list each child was launched with
  listener   \* the last child that has bound LLAMA_PORT

clientVars == <<client, ready, updates, sent>>
childVars  == <<rpc, server, proc, born, chain, listener>>
vars == <<clientVars, childVars, main, role, shutdown, monitor>>

Init ==
  /\ client = "connecting" /\ ready = "armed"
  /\ updates = <<>> /\ sent = 0
  /\ main = "waiting" /\ role = None
  /\ shutdown = FALSE /\ monitor = "off"
  /\ rpc = None /\ server = None
  /\ proc  = [p \in Pid |-> "unused"] /\ born = 0
  /\ chain = [p \in Pid |-> 0]
  /\ listener = None
-----------------------------------------------------------------------------
(* start_master_connection. *)

Ended == main \in {"ended", "exited"}

Connect ==
  /\ client = "connecting"
  /\ client' = "registering"
  /\ UNCHANGED <<ready, updates, sent, childVars, main, role, shutdown, monitor>>

\* The first registration tells run_worker its role, the others nobody.
Ready(r) == /\ client' = "beating"
            /\ ready' = IF ready = "armed" THEN r ELSE ready

ReceiveInit(r) ==
  /\ client = "registering"
  /\ IF r = "SuperNode" THEN client' = "downloading" /\ UNCHANGED ready
                        ELSE Ready(r)
  /\ UNCHANGED <<updates, sent, childVars, main, role, shutdown, monitor>>

Download ==
  /\ client = "downloading"
  /\ Ready("SuperNode")
  /\ UNCHANGED <<updates, sent, childVars, main, role, shutdown, monitor>>

\* The answer to a PING comes with a list of slaves (an answer without one, or
\* an ERROR, is only logged).
ReceiveUpdate ==
  /\ client = "beating" /\ sent < MaxUpdates
  /\ sent' = sent + 1
  /\ updates' = Append(updates, sent')
  /\ UNCHANGED <<client, ready, childVars, main, role, shutdown, monitor>>

\* No answer, an unexpected one, a failed download or heartbeat.
StartAgain ==
  /\ client \in {"registering", "downloading", "beating"}
  /\ client' = "connecting"
  /\ UNCHANGED <<ready, updates, sent, childVars, main, role, shutdown, monitor>>
-----------------------------------------------------------------------------
(* LlamaProcess. *)

Up(p) == proc[p] \in {"inJob", "stray"}
Held  == {rpc, server} \ {None}

\* Fault: Drop does not close the handle of the job.
ReapNone(state, handles) == state

\* What is left of the processes when only these handles are.
Reap(state, handles) ==
  IF handles = {} THEN [p \in Pid |-> IF state[p] = "inJob" THEN "dead" ELSE state[p]]
                  ELSE state

\* spawn, with what the processes are by then; a process that could be created
\* but not assigned to the job goes on outside it.
Fresh == born + 1
Spawns(state, list) ==
  /\ proc'  = [state EXCEPT ![Fresh] = "inJob"]
  /\ born'  = Fresh
  /\ chain' = [chain EXCEPT ![Fresh] = list]

SpawnFails(state) ==
  /\ \/ proc' = state /\ UNCHANGED born
     \/ proc' = [state EXCEPT ![Fresh] = "stray"] /\ born' = Fresh
  /\ UNCHANGED chain

\* A child ends by itself; a llama-server that finds its port taken must.
Exit(p) ==
  /\ Up(p)
  /\ proc' = [proc EXCEPT ![p] = "dead"]
  /\ UNCHANGED <<clientVars, rpc, server, born, chain, listener, main, role, shutdown, monitor>>

\* The first child is ggml-rpc-server, all others are llama-servers; one that
\* has been dropped but still runs may be the first to bind.
PortTaken == listener # None /\ Up(listener)
Bind(p) ==
  /\ p > 1 /\ Up(p)
  /\ ~ PortTaken
  /\ listener' = p
  /\ UNCHANGED <<clientVars, rpc, server, proc, born, chain, main, role, shutdown, monitor>>

Refused == server # None /\ listener # server /\ PortTaken /\ Exit(server)
-----------------------------------------------------------------------------
(* run_worker. *)

ReceiveConfig ==
  /\ main = "waiting" /\ ready \in Role
  /\ role'  = ready
  /\ ready' = "spent"
  /\ main'  = IF ready = "Consumer" THEN "tasks" ELSE "rpc"
  /\ UNCHANGED <<client, updates, sent, childVars, shutdown, monitor>>

\* MODEL_TIMEOUT_SECS.
TimeOut ==
  /\ main = "waiting"
  /\ main' = "failed"
  /\ UNCHANGED <<clientVars, childVars, role, shutdown, monitor>>

SpawnRpc ==
  /\ main = "rpc"
  /\ \/ /\ Spawns(proc, 0)
        /\ rpc'  = Fresh
        /\ main' = IF role = "SuperNode" THEN "server" ELSE "tasks"
     \/ SpawnFails(proc) /\ main' = "failed" /\ UNCHANGED rpc
  /\ UNCHANGED <<clientVars, server, listener, role, shutdown, monitor>>

SpawnServer ==
  /\ main = "server"
  /\ \/ Spawns(proc, 0) /\ server' = Fresh /\ main' = "tasks"
     \/ SpawnFails(proc) /\ main' = "failed" /\ UNCHANGED server
  /\ UNCHANGED <<clientVars, rpc, listener, role, shutdown, monitor>>

StartTasks ==
  /\ main = "tasks"
  /\ main' = "running"
  /\ monitor' = IF role = "Consumer" THEN "off" ELSE "rpc"
  /\ UNCHANGED <<clientVars, childVars, role, shutdown>>

Close ==
  /\ main = "running" /\ shutdown
  /\ main' = "closeRpc"
  /\ UNCHANGED <<clientVars, childVars, role, shutdown, monitor>>

CloseRpc ==
  /\ main = "closeRpc"
  /\ rpc'  = None
  /\ proc' = Reap(proc, {server} \ {None})
  /\ main' = "closeServer"
  /\ UNCHANGED <<clientVars, server, born, chain, listener, role, shutdown, monitor>>

CloseServer ==
  /\ main = "closeServer"
  /\ server' = None
  /\ proc' = Reap(proc, {rpc} \ {None})
  /\ main' = "closed"
  /\ UNCHANGED <<clientVars, rpc, born, chain, listener, role, shutdown, monitor>>

\* The runtime is dropped, and with it the connection and the tasks.
DropRuntime ==
  /\ main = "closed"
  /\ main' = "ended"
  /\ client' = "gone" /\ monitor' = "off"
  /\ UNCHANGED <<ready, updates, sent, childVars, role, shutdown>>

\* The user quits, or run_worker has failed: the process ends.
Quit ==
  /\ main # "exited"
  /\ main' = "exited"
  /\ client' = "gone" /\ monitor' = "off"
  /\ rpc' = None /\ server' = None
  /\ proc' = Reap(proc, {})
  /\ UNCHANGED <<ready, updates, sent, born, chain, listener, role, shutdown>>
-----------------------------------------------------------------------------
(* monitor_children and handle_slave_updates. *)

\* Fault: the monitor reports the end of ggml-rpc-server and looks again later.
MonitorRpcOnly ==
  /\ monitor = "rpc"
  /\ monitor' = IF shutdown THEN "done" ELSE "server"
  /\ UNCHANGED <<clientVars, childVars, main, role, shutdown>>

MonitorRpc ==
  /\ monitor = "rpc"
  /\ IF ~ shutdown /\ rpc # None /\ ~ Up(rpc)
       THEN /\ rpc' = None
            /\ proc' = Reap(proc, {server} \ {None})
            /\ shutdown' = TRUE /\ monitor' = "done"
       ELSE /\ monitor' = IF shutdown THEN "done" ELSE "server"
            /\ UNCHANGED <<rpc, proc, shutdown>>
  /\ UNCHANGED <<clientVars, server, born, chain, listener, main, role>>

\* Fault: the monitor leaves a llama-server that has ended where it is.
MonitorServerOnly ==
  /\ monitor = "server"
  /\ monitor' = "rpc"
  /\ UNCHANGED <<clientVars, childVars, main, role, shutdown>>

MonitorServer ==
  /\ monitor = "server"
  /\ IF server # None /\ ~ Up(server)
       THEN /\ server' = None
            /\ proc' = Reap(proc, {rpc} \ {None})
            /\ shutdown' = TRUE /\ monitor' = "done"
       ELSE /\ monitor' = "rpc"
            /\ UNCHANGED <<server, proc, shutdown>>
  /\ UNCHANGED <<clientVars, rpc, born, chain, listener, main, role>>

Listening == main \in {"running", "closeRpc", "closeServer", "closed"} /\ role = "SuperNode"
Relaunch(state) ==
  /\ \/ Spawns(state, Head(updates)) /\ server' = Fresh
     \/ SpawnFails(state) /\ server' = None
  /\ UNCHANGED <<client, ready, sent, rpc, listener, main, role, shutdown, monitor>>

\* Fault: the update stays in the queue.
UpdateSlavesAgain ==
  /\ Listening /\ updates # <<>>
  /\ Relaunch(Reap(proc, {rpc} \ {None}))
  /\ UNCHANGED updates

\* Fault: a llama-server that is up is left alone.
UpdateSlavesIfDown ==
  /\ Listening /\ updates # <<>>
  /\ updates' = Tail(updates)
  /\ IF server # None THEN UNCHANGED <<client, ready, sent, childVars, main, role, shutdown, monitor>>
                      ELSE Relaunch(proc)

\* Fault: nothing is launched when there is nothing to replace.
UpdateSlavesIfUp ==
  /\ Listening /\ updates # <<>> /\ server # None
  /\ updates' = Tail(updates)
  /\ Relaunch(Reap(proc, {rpc} \ {None}))

\* The old llama-server is dropped, and one with the new list launched.
UpdateSlaves ==
  /\ Listening /\ updates # <<>>
  /\ updates' = Tail(updates)
  /\ Relaunch(Reap(proc, {rpc} \ {None}))
-----------------------------------------------------------------------------
Client  == Connect \/ Download \/ ReceiveUpdate \/ StartAgain \/ \E r \in Offers : ReceiveInit(r)
Main    == \/ ReceiveConfig \/ TimeOut \/ SpawnRpc \/ SpawnServer \/ StartTasks
           \/ Close \/ CloseRpc \/ CloseServer \/ DropRuntime
Monitor == MonitorRpc \/ MonitorServer

Next == Client \/ Main \/ Monitor \/ UpdateSlaves \/ Quit \/ \E p \in Pid : Bind(p) \/ Exit(p)

(* The threads and tasks of the application run, and a llama-server binds  *)
(* its port or ends.  Nobody has to connect, to announce slaves or to quit. *)
Fairness == /\ WF_vars(Main) /\ WF_vars(Monitor) /\ WF_vars(UpdateSlaves)
            /\ WF_vars(\E p \in Pid : Bind(p)) /\ WF_vars(Refused) /\ WF_vars(main = "failed" /\ Quit)

Spec     == Init /\ [][Next]_vars
FairSpec == Spec /\ Fairness
-----------------------------------------------------------------------------
(* Properties. *)

TypeOK ==
  /\ client  \in {"connecting", "registering", "downloading", "beating", "gone"}
  /\ ready   \in {"armed", "spent"} \cup Role
  /\ updates \in Seq(1 .. MaxUpdates)
  /\ sent    \in 0 .. MaxUpdates
  /\ main    \in {"waiting", "rpc", "server", "tasks", "running", "closeRpc",
                  "closeServer", "closed", "ended", "failed", "exited"}
  /\ role    \in Role \cup {None}
  /\ shutdown \in BOOLEAN
  /\ monitor \in {"off", "rpc", "server", "done"}
  /\ rpc     \in Pid \cup {None}
  /\ server  \in Pid \cup {None}
  /\ proc    \in [Pid -> {"unused", "inJob", "stray", "dead"}]
  /\ born    \in 0 .. MaxUpdates + 2
  /\ chain   \in [Pid -> 0 .. MaxUpdates]
  /\ listener \in Pid \cup {None}

\* A child in the job never outlives the last LlamaProcess, in whatever order
\* the monitor, the updates and the shutdown let go of theirs: so none is left
\* when the process of the application ends.
ChildrenAreHeld == (\E p \in Pid : proc[p] = "inJob") => Held # {}

\* The llama-server of the application was launched with the newest list of
\* slaves, but for those that are still in the channel: none is skipped or
\* taken out of order, though relaunches fail and the monitor interferes.
ChainIsCurrent == server # None => chain[server] + Len(updates) = sent

\* A llama-server that is not the one that listens (it has ended, or another
\* has the port) does not stay: it is replaced, or the worker shuts down.
ServerListens ==
  main = "running" /\ server # None /\ ~ (listener = server /\ Up(server))
    ~> main # "running" \/ server = None \/ (listener = server /\ Up(server))

\* The end of ggml-rpc-server ends the worker.
RpcEndEndsWorker == (rpc # None /\ ~ Up(rpc)) ~> Ended

\* Updates do not pile up, not even after a relaunch has failed.
UpdatesAreTaken == main = "running" /\ role = "SuperNode" /\ updates # <<>>
                     ~> main # "running" \/ updates = <<>>

\* "Dropear el proceso anterior lo mata via Job Object (KILL_ON_JOB_CLOSE)",
\* "el hijo sera terminado": the child of a LlamaProcess that is dropped ends.
DroppedIsTerminated ==
  [][\A p \in Pid : p \in Held /\ p \notin Held' => proc'[p] # "inJob"]_vars
=============================================================================
