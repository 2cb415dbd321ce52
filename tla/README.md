# Enjambre: models, checks and proofs

Enjambre ("swarm") serves a language model from volunteers' machines.  A
**master** (Rust, one process) keeps the swarm together and sells completions
over HTTP; **workers** (a Windows application) run on the volunteers' machines;
a **relay** (Python) joins the two, since the workers cannot be reached from
outside.  This directory holds TLA+ modules that model the parts of the system
where interleaving, failure and ordering decide whether it is correct, the TLC
configurations that check them, and TLAPS proofs of what matters most.

Paths below are relative to the repository's root; `src/master.rs` is the file
that `PROJECT.json` calls `src/src/master.rs`.

## 1. The system

| Component | State | Operations | Talks to |
|---|---|---|---|
| Worker registry, `src/master.rs` | table of workers, SuperNode slot and its command channel, last slave list announced, port allocator: each behind a mutex of its own | `register`, `unregister`, `update_heartbeat`, `check_slave_change`, `allocate_tunnel_port`, `switch_model` | one `handle_connection` task per TCP connection; the heartbeat checker; the HTTP API |
| Heartbeat checker, `spawn_heartbeat_checker` | none between ticks | every 30 s, unregisters the workers silent for over 120 s | registry |
| HTTP API, `src/api.rs` | the credit pool (an atomic) | `chat_completions`, `add_credits`, key handlers, status pages | registry, key manager, relay |
| API keys, `src/keys.rs` | a map behind a mutex, `keys.json` | create, validate, deduct, add, toggle, delete | HTTP API |
| Credits, `src/master.rs` | `credits` of each node, `credits.json`, `saved_worker_credits` | `add_credits_to_super_node`, `save_credits`, `load_credits` | HTTP API, registry |
| Worker's master connection, `src/client.rs` | worker id, role of the first registration | connect, REGISTER, INIT_MODEL, download, PING every 30 s, reconnect after 5 s | master; the application, through three channels |
| Worker application, `src-tauri/src/main.rs` | two child processes behind mutexes, the shutdown flag | start by role, `monitor_children`, `handle_slave_updates` | connection, tunnel, children |
| Child processes, `src/process.rs` | process handle and job handle | spawn, poll, drop | application |
| Reverse tunnel, `src/tunnel.rs` | one connection to the relay | announce itself, wait for a byte, copy both ways, again | relay, llama-server |
| Relay, `tunnel-relay.py` | port -> waiting worker, one lock | worker registration, API connection, bridging | tunnels, HTTP API |
| Workspace and download, `src/workspace.rs`, `src/client.rs` | the engine's files, the model file | extract once, download to a temporary file and rename | file system |
| Layer split, `calculate_tensor_split` | none: a function of the table | INFER | registry |
| Model selection, hardware, statistics, panels, installers | no state, or display only | | |

What is hard about it:

* **Locks that cover too little.**  No method of the registry holds two mutexes
  while it decides.  The election of a SuperNode reads the slot and claims it in
  two critical sections; `unregister` is three; the checker evicts from a copy.
* **Two connections of one worker.**  The master may learn of the end of a
  connection after the worker has registered on the next one, and it cleans up
  by worker id.
* **Checks before, charges after.**  A completion is admitted on what the pool
  and the key hold at the start and charged when the answer has come, in three
  unconnected places.
* **Two files.**  `keys.json` and `credits.json` are truncated and rewritten
  after every change, by any handler, in any order; a crash may fall in between.
* **One answer, two lines, a timeout.**  A PONG may be followed by UPDATE_SLAVES,
  read with a timeout of 100 ms; and whoever pings first is the one who is told.
* **A relay with a condition variable** that is waited on without a predicate.

For each component, what makes it correct:

* registry: the slot never points at a worker that is neither in the table nor
  on its way in or out; no node outlives its handler; tunnel ports are distinct;
  every GPU of the table gets its share of a model's layers;
* registry and applications together: an application runs the role the table has
  for it; no llama-server is chained to what is not a GPU provider, as far as its
  role has not changed with a later registration; silent workers and their claims
  go away; the announced list catches up;
* the lines between them: lists of slaves are handed on in order and once, and
  neither side waits for the other for ever;
* files: what is launched or loaded is whole, wherever an earlier run ended;
* keys: the file ends up as the latest map; a deleted key stays deleted; an
  operation is atomic for everybody else;
* billing: an answered request is paid for once by the pool, once by its key and
  once to a worker; nobody is credited what nobody earned;
* worker: llama-server runs with the slaves last announced, children end with
  the application, and a child that ends is noticed;
* relay: an API connection is in one hand at a time, and of those in no hand only
  the last one accepted is still open; a waiting worker is found; nobody gets the
  answer to another's request; a bridge ends, unless its worker is lost unheard.

`PROJECT.json` lists the hazards line by line with the properties that watch them.

## 2. Modules

| Module | Models | Kind |
|---|---|---|
| `Registry` | the registry as its handlers and the checker use it | detailed, one step per critical section |
| `TensorSplit` | what INFER is answered in a state of the registry | a function of its state (EXTENDS `Registry`) |
| `Swarm` | the registry and the applications of all workers | composition, implements `Registry` |
| `ListChannel` | what a connection promises the application: a queue of lists | abstract |
| `Heartbeat` | the lines of one connection after the registration, with the 100 ms timeout and `switch_model` | detailed, one step per piece of a line, implements `ListChannel` |
| `Files` | the engine's files and the models, over any number of runs of the worker | one step per file or chunk |
| `KeyStore` | what the key manager promises | abstract |
| `KeyManager` | `src/keys.rs`: mutex, file, crash | detailed, implements `KeyStore` |
| `Billing` | completions, the pool, the workers' credits, `credits.json` | composes with `KeyStore` (EXTENDS) |
| `Relay` | `tunnel-relay.py`, `src/tunnel.rs` and llama-server as they meet on one port | detailed, one step per critical section, receive or send |
| `Worker` | the worker application: `src/client.rs`, `src-tauri/src/main.rs`, `src/process.rs` | detailed, one step per hold of a mutex |
| `RegistryProofs`, `SwarmProofs`, `HeartbeatProofs`, `FilesProofs`, `KeyManagerProofs`, `BillingProofs`, `RelayProofs`, `WorkerProofs` | their theorems | |
| `MCRegistry`, `MCKeyManager`, `MCBilling` | instances for TLC; the other modules are checked as they are | |

A worker's connection to the master has four sides, and each has the module
that shows it with as little else as possible: `Swarm` has roles and lists for
all workers at once, `Heartbeat` the stream of lines of one of them, `Worker`
what an application does with what has been received, `Files` what it downloads.

Definitions whose comment begins with "Fault" are not part of any specification.
Each is a definition of the module as a plausible mistake would make it, put
beside the right one; with it in its place the property named in `PROJECT.json`
is violated.

### Registry

`workers`, `superNode`, `cmdTx`, `lastSlaves` and `nextPort` are the fields of
`WorkerRegistry` (`master.rs:109-118`).  A node keeps its role, the connection it
came on (its address is `peer:rpc_port`, and the peer is new with every
connection) and its tunnel port.  `last_ping` is reduced to whether it lies more
than 120 s back (`stale`).  Every handler has a `pc` and the locals that live
across its critical sections.

| Actions | Code |
|---|---|
| `Elect`, `Claim`, `AllocatePort`, `Insert`, `SetCmdTx`, `SendInit` | REGISTER, `master.rs:464-525` |
| `UpdateHeartbeat`, `ReadSlaves`, `CompareSlaves` | PING, `master.rs:526-537`, `217-230`, `259-269` |
| `ReadEof`, then `RemoveWorker`, `ReleaseSlot`, `DropCmdTx` | end of stream, `master.rs:443-457`, `238-257` |
| `CheckerTick`, `Evict`, `CheckerDone`, and the same three | `master.rs:335-356` |
| `Connect`, `SendPing`, `LoseConn`, `Age` | the workers, the network and the clock |

A worker registers once per connection and sends its next line after the answer
to the one before, as `client.rs` does (what a late or cut answer leads to is the
subject of `Heartbeat`).  `Pinging` are the connections on which the worker gets
as far as sending PINGs.  What is left out: `version` (a counter for the status
page), free memory, INFER (`TensorSplit`) and `switch_model` (`Heartbeat`), and
the order in which the slaves are listed (a HashMap's order: two lists of the
same workers may differ in it, and the real code then announces once more).

### TensorSplit

`calculate_tensor_split` (`master.rs:410-422`) of the table that
`get_active_workers` returns (`ActiveWorkers`).  The filter comes first here
(`GpuWorkers`) and the order second (`GpuOrders`): the code filters a sequence in
whatever order the HashMap yields it, which is the filtered nodes in whatever
order.  `LayersAreSplit` is an invariant of the registry's run, and
`MCRegistry!SplitsAreEven` evaluates the split for up to four GPUs and every
number of layers up to nine; the proof is for all.

### Swarm

`runs` is what each application was told to run, and on which connection:
`run_worker` takes one configuration from its channel, so that the role of the
first INIT_MODEL it can act on is the one it keeps (`BecomeReady`).  `chain` is
the list that a SuperNode's `handle_slave_updates` was last given
(`HandleUpdate`).  The next PING comes after both (`NextPing`), as late as it
likes: a SuperNode that downloads for more than 120 s is one that `Age` and the
checker find first.  Every step of the master and of the network is `Registry`'s.

| Actions | Code |
|---|---|
| `BecomeReady` | `client.rs:223-306` |
| `HandleUpdate` | `client.rs:338-352`, `src-tauri/src/main.rs:384-438` |
| `NextPing` | `client.rs:308-325` |
| all others | `Registry` |

What an application knows of itself is what its *first* registration was told.
When it has come back on a new connection before the old one was cleaned up, a
SuperNode is GPU provider in the table and goes on as SuperNode; its own PING may
then be answered with its own new address, and it chains llama-server to itself.
`RolesAgree` and `ChainsAreOfProviders` state where this stops: applications that
are registered by the connection they took their role from agree with the table,
and a link of a chain is a registration that was told to provide a GPU, which is
somebody else's unless its application had been told otherwise before
(`ToldElsewhere`).

The address of a slave is what the master sees, `peer:rpc_port`; that the worker
can be reached there is not checked by the code and not modelled.  The tunnel
port of the table is used by nobody after INIT_MODEL.

### Heartbeat

`wire` and `buffer` hold pieces: a line has a beginning and an end, because
`read_line` inside `tokio::time::timeout` drops what it has read when the time is
up (`TimeOut`), and the rest of that line is what the next `read_line` returns.
The first line is waited for without limit.  `handler` says whether
`handle_connection` is in its select or waits for the answer to SWITCH_MODEL,
which is any line that comes.  When a list is due is left to chance (that is
`Registry`'s business), and lists are numbers, so that "in the order announced"
is "ascending".  `Stream` is all that the worker has yet to read, arrived or not,
and `Unread` the places in it where a list ends that can still be read whole.
`ListChannel` is what the application sees of all this: lists that are announced,
handed on or lost; `IsListChannel` says that every step of `Heartbeat` is one of
the queue or none of its business.

| Actions | Code |
|---|---|
| `SendPing`, `ReadBegin`, `ReadFirst`, `ReadExtra`, `TimeOut`, `Reconnect` | the loop of `client.rs:308-381` |
| `AnswerPing`, `TakeCommand`, `TakeResponse` | `handle_connection`, `master.rs:441-462`, `526-537`, `566-597` |
| `SwitchModel`, `Unregister` | `master.rs:143-152`, `238-242` |
| `Arrive` | TCP (external) |

### Files

`engine` has the file of each entry of the archive, `tmp` and `dest` the
temporary file and the file of each model.  A run may end at any step (`Stop`),
and the next one finds what it left.  A server may answer with a page in place of
a model, since no status is looked at (`Page`).  A disk that fails ends the run
or the download; that a machine loses power before its writes are flushed is not
modelled.

| Actions | Code |
|---|---|
| `Start`, `Create`, `Copy`, `Extracted` | `extract_llama`, `workspace.rs:37-80` |
| `Launch`, `Stop` | `run_worker`, `src-tauri/src/main.rs:161-262` |
| `Skip`, `Fetch`, `Receive`, `Rename`, `Fail` | `download_model`, `client.rs:100-180`, `292-299` |
| `LoseMaster` | `client.rs:365-381` |

### KeyStore and KeyManager

`KeyStore` has the ledger and what a restart would load, and one action per
operation, plus the beginning and the end of a rewrite of the file.  In
`KeyManager` an operation changes the map under the mutex, lets go, and saves
under the mutex again; `fs::write` is two steps, since it truncates first, and
the process may end at any of them (`Restart`).  `file` is `Unreadable` while
missing or truncated, which `load` turns into no keys.  `validate_key`,
`get_key` and `list_keys` change nothing and are not actions; an operation on a
key that is not there changes nothing either.  `generate_key_string` reads a
clock in nanoseconds: the key is one that no handler has used.
Under the refinement `saved <- Load(file)` a truncation is `BeginRewrite` and
the write `EndRewrite`.

### Billing

`Billing` EXTENDS `KeyStore`: requests see the key manager through its promises.
`Validate` to `DeductKey` are the steps of `chat_completions` between which other
requests run; between `ChargePool` and `DeductKey` there is no await, so a caller
that goes away interrupts a request only while the relay is asked (`RelayFails`).
`Enter`, `Leave` and `TunnelCloses` are the registry and the tunnels reduced to
what a charge depends on: who is in the table, who holds the slot, who can
answer.  `unregister` is one step here, and so is an election.  Credits of
workers and of the pool are numbers; the pool wraps at `PoolMod`.  The operator's
`fetch_add` is not checked in the code and may wrap as well: `MaxPool` bounds the
sums it is used for in the runs, and is no bound when it is no less than
`PoolMod`.  `answer`,
`earned` and `served` are history: the answers of the relay are numbered, a
request carries the number of its own until the credit, and `earned` has the
numbers for which each worker was credited.

### Relay

One port, since ports share nothing but the lock.  `entry` is `workers[port]`
and `api` the `"api"` field of each entry; `thread` says where `handle_worker`
stands, `flow` what the two threads of `bridge` still do, `client` how each API
connection stands, and `conn`, `tunnel`, `llama` and `request` are the worker's
side.  A request is two parts (its first byte and the rest), an answer a head and
a tail: when `sendall` to a caller that does not read fails after 5 s, the tail
stays in the worker's connection, and the next caller that is bridged to it takes
it for an error.

`latest` is `serve_port`'s own reference to the connection it has accepted last.
An API connection is closed when nothing in the relay refers to it any more
(`Forget`, `LetGo`): one that was overwritten in its entry, or left in the entry
of a thread that ends, stays open in no hand as long as it is `latest`, which may
be for ever.

A tunnel that ends is read as an end of stream (`shut`), except when its machine
is lost without a word (`Vanish`).  The relay enables no keepalive and waits for
the worker without a limit, so that it hears of such a loss only when what it
has sent is answered by a reset or given up by TCP (`Notice`), if at all.  After
that (`broken`) its `sendall` fails.

| Actions | Code |
|---|---|
| `Accept`, `Unheard` | `serve_port`, `tunnel-relay.py:129-136`; `handle_connection`, `:97-126` |
| `Register`, `Wait`, `Wake`, `BridgeDone`, `Leave` | `handle_worker`, `:28-71` |
| `HandleApi`, `ClientLeaves` | `handle_api`, `:73-95`; the caller, `api.rs:278-385` |
| `ForwardRest`, `UpEnds`, `Deliver`, `DownEnds`, `DownBreaks` | `forward` and `bridge`, `:10-26` |
| `Connect`, `ReadFirst`, `CopyIn`, `SeeEnd`, `Break` | `run_reverse_tunnel`, `tunnel.rs:28-92` |
| `Vanish`, `Notice` | the network, as `recv` (`tunnel-relay.py:13`) and `settimeout(None)` (`:41`) meet it |
| `AnswerBegins`, `AnswerEnds`, `GiveUp` | llama-server (external) |

`conn.settimeout(5)` of `handle_connection` is never undone for an API
connection: this is `UpEnds`, which the code does not do but the socket does, and
the case of `Deliver` in which the direction ends.  A socket that a worker's
successor closes does not wake a thread that is already in `recv` on it
(`DownBreaks` is possible and not fair).  `Connect` is possible again at once
after the tunnel has ended: the pauses of 1 and 5 s are not modelled, nor are the
other ports, a worker that is accepted and says nothing, and the first byte of a
worker that is taken for an API's.

### Worker

`client` says where `start_master_connection` stands, `main` where `run_worker`
does, `monitor` where `monitor_children` does; `handle_slave_updates` holds the
mutex of `server_process` for all it does and is one step.  `ready` and
`updates` are the two channels from the connection, `rpc` and `server` the two
fields of `AppState`.  Of a child it is known whether it runs, whether it is in
the job (`proc`) and with which list of slaves it was launched (`chain`); the
n-th list announced is the number n, so that "newer" is "greater".

| Actions | Code |
|---|---|
| `Connect`, `ReceiveInit`, `Download`, `ReceiveUpdate`, `StartAgain` | `client.rs:192-382` |
| `ReceiveConfig`, `TimeOut`, `SpawnRpc`, `SpawnServer`, `StartTasks`, `Close`, `CloseRpc`, `CloseServer`, `DropRuntime`, `Quit` | `run_worker`, `src-tauri/src/main.rs:161-340` |
| `MonitorRpc`, `MonitorServer` | `monitor_children`, `:344-382` |
| `UpdateSlaves` | `handle_slave_updates`, `:384-438` |
| `Spawns`, `SpawnFails`, `Up`, `Reap` | `LlamaProcess`, `process.rs:40-244` |
| `Exit`, `Bind`, `Refused` | the children (external) |

`spawn` gives every child the job object of the same name.  Windows opens the
existing object when the name is taken, and `KILL_ON_JOB_CLOSE` acts when the
last handle is closed: `Reap` is what is left of the processes when only the
given handles are.  A process that was created but could not be assigned to the
job goes on outside it ("stray").  `GetExitCodeProcess` failing, which the
monitor only logs, and a child that ends with 259, which is the code of a
running one, are left out; so are the pauses.

## 3. Runs

| Run | Question | Instance | Outcome |
|---|---|---|---|
| `registry` | do elections, reconnections, evictions and PINGs, interleaved at every lock, leave slot, table or ports inconsistent, or a GPU without its layers? | 2 big-GPU workers, 3 connections, PINGs on one of them | holds, 2 819 839 states under symmetry |
| `swarm` | does an application run what the table says of the connection it took its role from, is a chain made of GPU providers (unless a later registration changed a role), do lost workers go away, does the announced list catch up? | 2 big-GPU workers that ping, 2 connections, fairness | holds, 347 169 states |
| `swarm_chain` | does a SuperNode that stays connected come to use the GPU providers there are? | the same | violated |
| `heartbeat` | is the connection a queue of lists, do both sides wait, does the loop go on? | 3 lists, 1 change of model, any number of PINGs and reconnections, fairness | holds, 116 594 states |
| `files` | is what is launched whole, is a download ever blocked? | 4 files in the archive, the third of which is `ggml-rpc-server.exe`; 2 models of 2 chunks; fairness | holds, 2 750 states |
| `keys` | does the file catch up, do deletions last, does `KeyManager` implement `KeyStore`? | 2 keys, 3 handlers | holds, 1 958 states under symmetry |
| `billing` | is any worker paid what it did not earn, or an answer paid for twice? | 2 workers, 2 requests, 1 key, restarts | holds, 3 342 864 states under symmetry |
| `billing_charges` | does an answered request take a credit of the pool, and of its key? | 1 worker, 2 requests, 1 key | violated |
| `relay` | do threads keep their place, is an API connection in one hand, does nobody get another's answer, does every bridge end unless its worker is lost unheard? | 1 tunnel, 2 worker connections, 2 requests, fairness | holds, 501 246 states |
| `relay_wakeup` | is an accepted API connection served or closed? | 1 tunnel, 1 request, fairness | violated |
| `worker` | do children end with the last handle, are lists taken in order, is a child that ended noticed? | any role, 3 lists, fairness | holds, 58 792 states |
| `worker_drop` | does dropping llama-server end it? | a SuperNode, 1 list | violated |

**Bounds.**  `Conn` bounds how often workers connect: three connections let one
worker come back while the clean-up of its old connection is half way and
another worker is being elected, which is as much as the slot and the channel
can tell apart.  `PortMod = 5` and `FirstPort = 3` leave exactly as many ports as
registrations can take (the first worker is SuperNode and takes none), so that
distinctness is checked up to the last port, whose hand-out makes the allocator
wrap.  `registry` has PINGs on one connection: a PING touches only `stale`,
`lastSlaves` and its answer, and what several of them do to each other is the
subject of `swarm`, where both workers ping without limit.  There, two
connections are the two workers at the same time, or one that comes back; the
list of slaves has at most one member, so that an old list and a new one differ
by a worker that came or went.  `TotalLayers = 5` is odd and more than the GPUs
of the table; `SplitsAreEven` has fewer layers than workers too.  In `heartbeat`
the lines under way are bounded by what the code sends: a worker answers late by
one line for each list, and `MaxLists = 3` with one SWITCH_MODEL lets four
answers be late at once, a line cut in the middle of each.  `files` has an entry
before, at and behind the one that stands for the engine, twice before, so that
a run can end between any two kinds.  `MaxCredits` and `Amount` bound credits; a
key with one credit and two requests is the case that matters.  `MaxServed`
bounds the answers of the relay and with them the credits earned.  `PoolMod`
(2, and 4 where the pool is the question) stands for 2^64, and `MaxPool` keeps
the operator from wrapping it, which a request may still do; without that bound
the run takes longer than is worth it, and the proofs are for every `MaxPool`.
`WConn` and `AConn` bound how often tunnels and callers
connect.  Two worker connections are a worker and its successor, and the only
relation between threads of one port is to replace and to be replaced; of two
requests one can be bridged or overwritten and the other overwrite it, and what
is left of the first can meet the second.  `MaxUpdates = 3` lets two lists wait
while a third is announced, and a relaunch that failed be followed by two more.

**Deadlock** is checked for keys, billing, heartbeat and files, where something
can always happen.  The runs of the registry and of the swarm turn the check
off: when every connection has been used and closed, nothing is left to happen,
which the bound on connections causes.  So do the relay's, for the same reason,
and the worker's, where the application may have ended.

**Fairness.**  `Swarm!SwarmFairness`: the tasks of the master are scheduled, so
weak fairness on the steps of each handler after a line has come, on each
`unregister` and on the checker.  An application deals with what it was sent and
goes on pinging while its connection is up (its loop has no other exit).  The
clock runs: a worker that has no connection does become stale.  No fairness on
`Connect` (nobody has to come back), on `LoseConn`, nor on `ReadEof`: the master
may never learn that a connection broke, which is what the checker is for.
`Heartbeat!Fairness`: the worker's loop, its 30 s timer, the handler and TCP go
on.  That TCP goes on is an assumption of `PingsGoOn` and `ListsArrive`: the first
read after a PING has no limit, so that on a connection that is half open, with
the master gone without a word, the worker waits for ever.  Nothing makes a connection break or a worker be unregistered.
`Files!Fairness`: the client goes on registering and receiving, and errors come
to an end (`<>[][~ Fail]_vars`), without which no download need ever finish;
nobody has to start the application, nor to stop it.
`Relay!Fairness`: the relay's threads, the tunnel and llama-server run, and the
5 s of the API socket go by.  A caller that is accepted is heard or times out
(`Handle`).  Nobody has to connect, to leave or to break off, no tunnel has to be
lost, and the relay does not have to hear of it when one is: `BridgesEnd` excepts
the bridge to a tunnel that was lost without the relay's hearing of it
(`Unnoticed`), and with no keepalive the code may keep that one for ever.  A
thread in `cv.wait()` leaves it only when notified.
`Worker!Fairness`: the thread of `run_worker`, the monitor and the updates run,
a process whose `run_worker` has failed exits, and a llama-server binds its port
or, when that is taken, ends.  No fairness on the master, on the user or on
children ending otherwise.

## 4. Findings

The violation runs show where the code does not do what its own texts say.  The
entries in `PROJECT.json` quote them; in short:

1. (`swarm_chain`) UPDATE_SLAVES goes once, in the answer to whichever worker
   pings first after the change, which may be the new GPU provider itself, and
   that cannot use it; the SuperNode is never told;
2. (`billing_charges`) pool and key are checked before the relay is asked and
   charged after it: the last credit of either serves several requests, and the
   pool wraps;
3. (`relay_wakeup`) the relay loses the wake-up of a request that comes before
   the worker waits or while it bridges, and the request hangs;
4. (`worker_drop`) the two children share one job object, so that replacing
   llama-server does not end the old one while ggml-rpc-server is held; the new
   one finds its port taken and ends, which the monitor takes for a failure.

Some more follow from the models and are not stated as properties:

* a SuperNode that reconnects before its old connection is cleaned up is compared
  with a slot it holds itself, and is GPU provider from then on, alone or not; its
  own PING may bring it its own new address, and its llama-server is then chained
  to itself (the exception in `ChainsAreOfProviders`);
* a worker that was evicted while it downloaded its model gets
  `ERROR:worker_not_found` from then on, logs it, and does not register again;
* what is answered to SWITCH_MODEL is the worker's next PING, which then has no
  answer; when the SWITCH_MODEL itself was read as the line after a PONG, both
  sides wait for ever (the exception in `NoStandoff`).  Nothing calls
  `switch_model`;
* after a double election the command channel may be that of a handler that is
  not the SuperNode's or has gone;
* a run that ends while it unpacks the engine behind `ggml-rpc-server.exe` leaves
  an engine that no later run completes (the exception in `EngineIsWhole`), and
  an error page is kept under the name of a model for good;
* an answer that arrives when the slot is empty credits nobody (`ReadSlot`), and
  credits are saved under a worker id that is new in every process;
* the checker may evict a worker that has pinged since its snapshot;
* a relaunch that fails leaves a SuperNode without llama-server until the next
  list of slaves;
* a worker's connection to the relay serves one request; the relay keeps it for
  more, and the next caller that is bridged to it gets no answer (nor another's);
* a bridge whose worker's machine is lost without a word may stay for ever (the
  exception in `BridgesEnd`);
* an API connection that was overwritten stays open in no hand until its port
  accepts the next (the exception in `HeldOnce`): its caller waits for an answer
  that cannot come, and `api.rs` reads without a limit.

## 5. Proofs

All proofs hold for any sets of workers, connections, keys, handlers and
requests and any ports, under the named assumptions of each module (`None` is
not a worker, the checker is not a connection, `0 < FirstPort < PortMod`, and
the like).

* `RegistryProofs`.  `IInv` is `TypeOK`, `Handling`, `NoDanglingSuperNode` and
  `NodesHaveHandlers`.  The two safety invariants are not inductive by
  themselves: `Handling` says what a handler's program counter implies of its
  locals, above all that a handler which is registering has an owner and has not
  registered before, and that whoever is in `unregister` has a victim.  With it
  `InitInv` and one lemma per conjunct (`TypeStep`, `HandlingStep`, `SlotStep`,
  `NodesStep`) give `Spec => []IInv`, hence `TypeCorrect`, `SlotNeverDangles` and
  `NodesKeepHandlers`.  The argument for the slot: only `Claim` fills it, only
  `RemoveWorker` empties a table entry, and each leaves its task one step short
  of the state in which it would dangle.
  `PortsStayDistinct` is proved under `[]Unwrapped`, that the allocator has not
  come round: without that assumption it is false of the code.  Its invariant
  `PortsBelow` says that every port handed out lies below `nextPort`.
  `SplitIsEven` is about `calculate_tensor_split` alone, for any number of layers
  and GPUs.  The sum of the shares is a recursive function; instead of an
  induction, for which the library's theorems cannot be instantiated, a closed
  form of every partial sum is given, and were there a link up to which the two
  differ there would be a first one (`LeastElement`, `SumOfLayers`).
  `LayersStaySplit` adds that every GPU has its link: the table is finite, since
  one worker is inserted at a time (`TableIsFinite`), so that an order of its GPUs
  reaches all of them (`OrderIsOnto`).
* `SwarmProofs`.  `SwarmImplementsRegistry`: the composition implements
  `Registry`, so that its theorems carry over.  `RolesAgree` and
  `ChainsAreOfProviders` rest on one notion, `Told(c, r)`: the registration on `c`
  has been decided, and its handler, the INIT_MODEL under way and the application
  that acted on it all say `r`.  It is stable (`ToldStays`): no other registration, clean-up or application changes it.  Nodes of the table, lists of slaves, wherever a PING
  or the checker keeps them, and chains are then made of connections that were
  told accordingly (`NodesTold`, `ListsTold`, `ChainsTold`).  That a link which is
  somebody's own can only come from a later registration takes `RunsOwned`: the
  connection an application took its role from is its own.
* `HeartbeatProofs`.  All that the steps do to `Stream` is to add whole lines at
  its end and to take pieces from its head: lemma `Flow` sorts the steps into
  seven kinds (a piece arrives, a PING or command moves; a beginning is read; a
  line is completed; a line is cut by the timeout; all is dropped with the
  connection; a line is said; a list is sent), and each part of `IInv` has one
  step per kind.  `StreamInv` is that beginnings and ends alternate, an end
  belongs to its beginning and the last piece is an end (`InLines`), that `got` is
  the beginning of the line that comes next (`Continues`) and that lists under way
  were announced (`Listed`).  The bounds in `TypeOK` are those of `Counted`: two
  pieces for each PING, list and SWITCH_MODEL that is not yet answered or read.
  `ListsInOrder` (`ListsStayInOrder`) needs `InLines`, for what a cut leaves is
  one end that is no list's any more; `Awaited`, that a PING or an answer is on
  its way while the worker waits, gives `NobodyStandsOff`.
  `ImplementsListChannel` maps each kind of step to `Announce`, `HandOnNext`,
  `LoseNext`, `LoseAll` or a stutter: that the list completed or cut is the *next*
  one is the order just proved.
* `FilesProofs`.  `EngineInv` says which entries are whole at each point of an
  extraction, `ClientInv` that the temporary file of a download in progress is of
  one answer, and that what went to `run_worker` is a model that is there.
* `KeyManagerProofs`.  `IInv` adds to the types that the mutex is held exactly by
  the handler that is writing, that the text it writes is the map, and that keys
  being deleted are gone from it.  `FileIsTheLatestMap` and `DeletionsLast`
  follow, and `TypeCorrect`; `ImplementsStore` maps every step to a step of
  `KeyStore` or a stutter.
* `BillingProofs`.  A credit adds one to what the worker holds; that it also adds
  one to the answers it has earned one for, and that no other worker has been
  credited for the same answer, takes `Unpaid`: a request between its answer and
  the credit carries an answer that no worker has been paid for and no other
  request carries.  `IInv` is that with `BillingTypeOK` and `WorkersNotOverpaid`;
  all steps but `RelayAnswers` and `Credit` only carry answers on or drop them
  (`Carried`).  All of it holds for every `MaxPool`, hence with a pool that the
  operator makes wrap too.
* `RelayProofs`.  `IInv` is `Kinds`, `ServingIsRegistered`, `HeldOnce` and two
  that make them inductive.  `Standing` says what a thread's label implies of its
  entry, its bridge and its directions; `Failing`, that a thread which was
  notified or leaves with no API connection in its entry has a connection known
  to be broken: that is the only way in which an entry is emptied by somebody
  else, and without it a successor could be deprived of its caller.  `HeldOnce` is
  proved as `Alive` (what is held is open, and what is open is held or the last
  one accepted) and `Apart` (no connection is in two places); the steps that
  matter are `HandleApi`, which overwrites, and `Accept`, which lets go of the one
  accepted before.
  `NobodyGetsAnothersAnswer` (`OwnAnswer`) takes a second invariant, `OwnInv`, on
  top of it.  As long as the head of a caller's answer, or the rest of its request
  while llama-server has not begun to answer, is still in a worker's connection
  (`Left`), that caller is the one bridged to the connection, with the
  direction towards it still open, or the relay has closed the connection
  (`Bound`).  `AllBound` is inductive with `Phases`, `OneAnswer` and `Served`: a
  connection carries one answer, so that a direction which ended early had
  already passed on that answer's head, and only a tail is left for others, whom
  it tells nothing but "error"; and with `Tunnels` and `Threads`, that tunnels
  share no connection.
* `WorkerProofs`.  `IInv` adds to `TypeOK`, `ChildrenAreHeld` and
  `ChainIsCurrent` that no more children are launched than lists were taken, and
  two (`Room`, without which the next child might not exist), that the channel
  holds the last lists in order (`Queue`), and that none is taken before
  llama-server is up (`Starting`).  The step that matters is `UpdateSlaves`,
  proved from lemmas about a launch (`Launched`), a let-go (`Reaped`) and the
  head of the channel (`NextList`).

Only model-checked are the liveness properties (`LostWorkersAreForgotten`,
`SlaveListConverges`, `ListsArrive`, `PingsGoOn`, `BridgesEnd`, `ServerListens`,
`RpcEndEndsWorker`, `UpdatesAreTaken`, `DownloadEnds`: fairness and ENABLED are
out of the prover's reach) and what the violation runs refute.  Every invariant
and every refinement that a run checks is also a theorem.

## 6. Not modelled, and why

* `load_config` and `select_model` are pure and read only.  `select_model` yields
  the first model of the list for every worker and indexes an empty list when
  none is configured, as in the default configuration.  `bin/master.rs:66` calls it
  while the master starts, which is therefore where it panics.  A model would
  restate that line.
* The legacy application (`src/main.rs`, `tray.rs`, `panel.rs`, `download.rs`):
  `Cargo.toml` names the library and `master-node` only, and `main.rs` calls
  `start_master_connection` with seven of its eight arguments, so it does not
  build; its life cycle is that of the Tauri application.
* Hardware detection (reads the machine), statistics and panels (display), the
  prototypes of the relay (not deployed), pages and installers.
* Of the HTTP API: the operator's authentication, the read-only pages and the
  streaming of bodies.
* Errors of the disk under `keys.json` and `credits.json` (the code drops the
  result of `fs::write`, and its promises end there), loss of power, and in the
  relay the range of its ports.

What could be added: one module that joins `Heartbeat` to `Swarm`, so that lists
are cut and late in the composition too; it multiplies both state spaces, and
each property of the two was stated where it can be checked without limit on
PINGs.
