---------------------------- MODULE WorkerProofs ----------------------------
(***************************************************************************)
(* Worker, proved for any roles offered and any number of lists: its types *)
(* (that there is always a child left to launch included), that children   *)
(* in the job are held, and that llama-server has the newest list taken.   *)
(***************************************************************************)
EXTENDS Worker, TLAPS

\* Two children at the start and one for each list taken.
Room == /\ born + Len(updates) <= sent + 2
        /\ main \in {"waiting", "rpc"} => born = 0
        /\ main = "server" => born <= 1

\* The channel has the last lists announced, in order.
Queue == /\ Len(updates) <= sent
         /\ \A i \in 1 .. Len(updates) : updates[i] = sent - Len(updates) + i

\* Nobody takes a list before llama-server has been launched.
Starting == main \in {"waiting", "rpc", "server"} => server = None /\ Len(updates) = sent

IInv == TypeOK /\ Room /\ Queue /\ Starting /\ ChildrenAreHeld /\ ChainIsCurrent

LEMMA InitInv == Init => IInv
<1> SUFFICES ASSUME Init PROVE IInv
  OBVIOUS
<1> USE WorkerAssumption DEF Init
<1>1. TypeOK
  <2>1. updates \in Seq(1 .. MaxUpdates)
    OBVIOUS
  <2>2. 0 \in 0 .. MaxUpdates /\ 0 \in 0 .. MaxUpdates + 2
    OBVIOUS
  <2>3. QED
    BY <2>1, <2>2 DEF TypeOK
<1>2. Room /\ Queue /\ Starting
  BY DEF Room, Queue, Starting
<1>3. ChildrenAreHeld /\ ChainIsCurrent
  BY DEF ChildrenAreHeld, ChainIsCurrent
<1>4. QED
  BY <1>1, <1>2, <1>3 DEF IInv

\* What is left of the processes are processes, and none in the job unheld.
LEMMA Reaped ==
  ASSUME TypeOK, NEW handles
  PROVE  /\ Reap(proc, handles) \in [Pid -> {"unused", "inJob", "stray", "dead"}]
         /\ \A p \in Pid : /\ Reap(proc, handles)[p] = "inJob" => proc[p] = "inJob"
                           /\ handles = {} => Reap(proc, handles)[p] # "inJob"
BY DEF Reap, TypeOK

\* There is a child left to launch, at the start and for every list taken.
LEMMA ChildLeft ==
  ASSUME TypeOK, Room, Queue, main \in {"rpc", "server"} \/ updates # <<>>
  PROVE  Fresh \in Pid /\ Fresh \in 0 .. MaxUpdates + 2
<1>1. Len(updates) \in Nat /\ (updates # <<>> => Len(updates) >= 1)
  BY DEF TypeOK
<1>2. QED
  BY <1>1, WorkerAssumption DEF TypeOK, Room, Queue, Fresh, Pid

\* A launch, done or failed, of a child there was left.
LEMMA Launched ==
  ASSUME TypeOK, Fresh \in Pid,
         NEW state \in [Pid -> {"unused", "inJob", "stray", "dead"}],
         NEW list \in 0 .. MaxUpdates,
         Spawns(state, list) \/ SpawnFails(state)
  PROVE  /\ proc' \in [Pid -> {"unused", "inJob", "stray", "dead"}]
         /\ chain' \in [Pid -> 0 .. MaxUpdates]
         /\ born' \in {born, Fresh}
         /\ SpawnFails(state) => \A p \in Pid : proc'[p] = "inJob" => state[p] = "inJob"
         /\ Spawns(state, list) => chain'[Fresh] = list
BY DEF Spawns, SpawnFails, TypeOK, Fresh

\* The next list, and the channel without it.
LEMMA NextList ==
  ASSUME TypeOK, Queue, updates # <<>>
  PROVE  /\ Head(updates) \in 0 .. MaxUpdates
         /\ Head(updates) + Len(Tail(updates)) = sent
         /\ Tail(updates) \in Seq(1 .. MaxUpdates)
         /\ Len(Tail(updates)) = Len(updates) - 1
         /\ \A i \in 1 .. Len(Tail(updates)) :
              Tail(updates)[i] = sent - Len(Tail(updates)) + i
<1>1. /\ updates \in Seq(1 .. MaxUpdates) /\ Len(updates) \in Nat \ {0}
      /\ sent \in Nat /\ MaxUpdates \in Nat
  BY WorkerAssumption DEF TypeOK
<1>2. Head(updates) = updates[1] /\ Head(updates) \in 1 .. MaxUpdates
  BY <1>1
<1>3. updates[1] = sent - Len(updates) + 1
  BY <1>1 DEF Queue
<1>4. Tail(updates) \in Seq(1 .. MaxUpdates) /\ Len(Tail(updates)) = Len(updates) - 1
  BY <1>1
<1>5. ASSUME NEW i \in 1 .. Len(Tail(updates))
      PROVE  Tail(updates)[i] = sent - Len(Tail(updates)) + i
  <2>1. Tail(updates)[i] = updates[i + 1] /\ i + 1 \in 1 .. Len(updates)
    BY <1>1, <1>4
  <2>2. QED
    BY <2>1, <1>1, <1>4 DEF Queue
<1>6. QED
  BY <1>1, <1>2, <1>3, <1>4, <1>5

\* The steps that launch: what they do to each part of the invariant.
LEMMA SpawnRpcStep == IInv /\ SpawnRpc => IInv'
<1> SUFFICES ASSUME IInv, SpawnRpc PROVE IInv'
  OBVIOUS
<1>1. Fresh \in Pid /\ Fresh \in 0 .. MaxUpdates + 2 /\ Fresh = 1 /\ 0 \in 0 .. MaxUpdates
  BY ChildLeft, WorkerAssumption DEF IInv, SpawnRpc, Room, Fresh
<1>2. Spawns(proc, 0) \/ SpawnFails(proc)
  BY DEF SpawnRpc
<1>3. proc \in [Pid -> {"unused", "inJob", "stray", "dead"}]
  BY DEF IInv, TypeOK
<1>4. /\ proc' \in [Pid -> {"unused", "inJob", "stray", "dead"}]
      /\ chain' \in [Pid -> 0 .. MaxUpdates]
      /\ born' \in {born, Fresh}
      /\ SpawnFails(proc) => \A p \in Pid : proc'[p] = "inJob" => proc[p] = "inJob"
  BY <1>1, <1>2, <1>3, Launched DEF IInv
<1>5. TypeOK'
  <2>1. /\ rpc' \in Pid \cup {None} /\ main' \in {"server", "tasks", "failed"}
        /\ UNCHANGED <<client, ready, updates, sent, server, listener, role, shutdown, monitor>>
    BY <1>1 DEF IInv, TypeOK, SpawnRpc, clientVars
  <2>2. born' \in 0 .. MaxUpdates + 2
    BY <1>1, <1>4 DEF IInv, TypeOK
  <2>3. QED
    BY <1>4, <2>1, <2>2 DEF IInv, TypeOK
<1>6. Room' /\ Queue' /\ Starting'
  <2>1. UNCHANGED <<updates, sent, server>> /\ main' \in {"server", "tasks", "failed"}
    BY DEF SpawnRpc, clientVars
  <2>2. /\ Len(updates) \in Nat /\ sent \in Nat /\ Len(updates) <= sent
        /\ born = 0 /\ Fresh = 1
    BY <1>1 DEF IInv, TypeOK, Queue, Room, SpawnRpc
  <2>3. Room'
    BY <1>4, <2>1, <2>2 DEF Room
  <2>4. QED
    BY <2>1, <2>3 DEF IInv, Queue, Starting, SpawnRpc
<1>7. ChainIsCurrent'
  BY DEF IInv, Starting, ChainIsCurrent, SpawnRpc
<1>8. ChildrenAreHeld'
  BY <1>1, <1>4, WorkerAssumption DEF IInv, TypeOK, ChildrenAreHeld, Held, SpawnRpc
<1>9. QED
  BY <1>5, <1>6, <1>7, <1>8 DEF IInv

LEMMA SpawnServerStep == IInv /\ SpawnServer => IInv'
<1> SUFFICES ASSUME IInv, SpawnServer PROVE IInv'
  OBVIOUS
<1>1. Fresh \in Pid /\ Fresh \in 0 .. MaxUpdates + 2 /\ Fresh <= 2 /\ 0 \in 0 .. MaxUpdates
  BY ChildLeft, WorkerAssumption DEF IInv, TypeOK, SpawnServer, Room, Fresh
<1>2. Spawns(proc, 0) \/ SpawnFails(proc)
  BY DEF SpawnServer
<1>3. proc \in [Pid -> {"unused", "inJob", "stray", "dead"}]
  BY DEF IInv, TypeOK
<1>4. /\ proc' \in [Pid -> {"unused", "inJob", "stray", "dead"}]
      /\ chain' \in [Pid -> 0 .. MaxUpdates]
      /\ born' \in {born, Fresh}
      /\ SpawnFails(proc) => \A p \in Pid : proc'[p] = "inJob" => proc[p] = "inJob"
      /\ Spawns(proc, 0) => chain'[Fresh] = 0
  BY <1>1, <1>2, <1>3, Launched DEF IInv
<1>5. TypeOK'
  <2>1. /\ server' \in Pid \cup {None} /\ main' \in {"tasks", "failed"}
        /\ UNCHANGED <<client, ready, updates, sent, rpc, listener, role, shutdown, monitor>>
    BY <1>1 DEF IInv, TypeOK, SpawnServer, clientVars
  <2>2. born' \in 0 .. MaxUpdates + 2
    BY <1>1, <1>4 DEF IInv, TypeOK
  <2>3. QED
    BY <1>4, <2>1, <2>2 DEF IInv, TypeOK
<1>6. Room' /\ Queue' /\ Starting'
  <2>1. UNCHANGED <<updates, sent>> /\ main' \in {"tasks", "failed"}
    BY DEF SpawnServer, clientVars
  <2>2. /\ Len(updates) \in Nat /\ sent \in Nat /\ born \in Nat /\ Fresh \in Nat
        /\ Len(updates) <= sent /\ born <= 1 /\ Fresh <= 2
    BY <1>1 DEF IInv, TypeOK, Queue, Room, SpawnServer
  <2>3. Room'
    BY <1>4, <2>1, <2>2 DEF Room
  <2>4. QED
    BY <2>1, <2>3 DEF IInv, Queue, Starting
<1>7. ChainIsCurrent'
  BY <1>1, <1>4 DEF IInv, TypeOK, Starting, ChainIsCurrent, SpawnServer, clientVars
<1>8. ChildrenAreHeld'
  BY <1>1, <1>4, WorkerAssumption DEF IInv, TypeOK, ChildrenAreHeld, Held, SpawnServer
<1>9. QED
  BY <1>5, <1>6, <1>7, <1>8 DEF IInv

LEMMA UpdateSlavesStep == IInv /\ UpdateSlaves => IInv'
<1> SUFFICES ASSUME IInv, UpdateSlaves PROVE IInv'
  OBVIOUS
<1> DEFINE left == Reap(proc, {rpc} \ {None})
<1>1. /\ updates # <<>> /\ updates' = Tail(updates)
      /\ main \in {"running", "closeRpc", "closeServer", "closed"}
      /\ UNCHANGED <<client, ready, sent, rpc, listener, main, role, shutdown, monitor>>
      /\ \/ Spawns(left, Head(updates)) /\ server' = Fresh
         \/ SpawnFails(left) /\ server' = None
  BY DEF UpdateSlaves, Relaunch, Listening
<1>2. Fresh \in Pid /\ Fresh \in 0 .. MaxUpdates + 2 /\ Fresh = born + 1
  BY <1>1, ChildLeft DEF IInv, Fresh
<1>3. /\ left \in [Pid -> {"unused", "inJob", "stray", "dead"}]
      /\ \A p \in Pid : rpc = None => left[p] # "inJob"
  BY Reaped DEF IInv
<1>4. /\ Head(updates) \in 0 .. MaxUpdates
      /\ Head(updates) + Len(updates') = sent
      /\ updates' \in Seq(1 .. MaxUpdates)
      /\ Len(updates') = Len(updates) - 1
      /\ \A i \in 1 .. Len(updates') : updates'[i] = sent - Len(updates') + i
  BY <1>1, NextList DEF IInv
<1> HIDE DEF left
<1>5. /\ proc' \in [Pid -> {"unused", "inJob", "stray", "dead"}]
      /\ chain' \in [Pid -> 0 .. MaxUpdates]
      /\ born' \in {born, Fresh}
      /\ SpawnFails(left) => \A p \in Pid : proc'[p] = "inJob" => left[p] = "inJob"
      /\ Spawns(left, Head(updates)) => chain'[Fresh] = Head(updates)
  BY <1>1, <1>2, <1>3, <1>4, Launched DEF IInv
<1>6. TypeOK'
  <2>1. server' \in Pid \cup {None}
    BY <1>1, <1>2
  <2>2. born' \in 0 .. MaxUpdates + 2
    BY <1>2, <1>5 DEF IInv, TypeOK
  <2>3. QED
    BY <1>1, <1>4, <1>5, <2>1, <2>2 DEF IInv, TypeOK
<1>7. Room'
  <2>1. Len(updates) \in Nat /\ born \in Nat /\ sent \in Nat
    BY DEF IInv, TypeOK
  <2>2. QED
    BY <1>1, <1>2, <1>4, <1>5, <2>1 DEF IInv, Room
<1>8. Queue' /\ Starting'
  <2>1. Len(updates) \in Nat /\ sent \in Nat
    BY DEF IInv, TypeOK
  <2>2. Len(updates') <= sent' /\ sent' = sent
    BY <1>1, <1>4, <2>1 DEF IInv, Queue
  <2>3. Queue'
    BY <1>4, <2>2 DEF Queue
  <2>4. Starting'
    BY <1>1 DEF Starting
  <2>5. QED
    BY <2>3, <2>4
<1>9. ChainIsCurrent'
  BY <1>1, <1>4, <1>5 DEF ChainIsCurrent
<1>10. ChildrenAreHeld'
  BY <1>1, <1>2, <1>3, <1>5, WorkerAssumption DEF IInv, TypeOK, ChildrenAreHeld, Held
<1>11. QED
  BY <1>6, <1>7, <1>8, <1>9, <1>10 DEF IInv

\* The steps that let go of a handle.
LEMMA LetGo == IInv /\ (CloseRpc \/ CloseServer \/ Quit \/ Monitor) => IInv'
<1> SUFFICES ASSUME IInv, CloseRpc \/ CloseServer \/ Quit \/ Monitor PROVE IInv'
  OBVIOUS
<1> USE DEF IInv
<1>1. /\ \A handles : Reap(proc, handles) \in [Pid -> {"unused", "inJob", "stray", "dead"}]
      /\ \A handles : \A p \in Pid : /\ Reap(proc, handles)[p] = "inJob" => proc[p] = "inJob"
                                     /\ handles = {} => Reap(proc, handles)[p] # "inJob"
  BY Reaped
<1>2. TypeOK'
  <2>1. CASE CloseRpc \/ CloseServer
    BY <1>1, <2>1 DEF TypeOK, CloseRpc, CloseServer, clientVars
  <2>2. CASE Quit
    BY <1>1, <2>2 DEF TypeOK, Quit
  <2>3. CASE MonitorRpc
    <3>1. /\ proc' = proc \/ \E handles : proc' = Reap(proc, handles)
          /\ rpc' \in {rpc, None} /\ shutdown' \in {shutdown, TRUE}
          /\ monitor' \in {"rpc", "server", "done"}
          /\ UNCHANGED <<clientVars, server, born, chain, listener, main, role>>
      BY <2>3 DEF TypeOK, MonitorRpc, clientVars, childVars
    <3>2. proc' \in [Pid -> {"unused", "inJob", "stray", "dead"}]
      BY <1>1, <3>1 DEF TypeOK
    <3>3. shutdown' \in BOOLEAN
      BY <3>1 DEF TypeOK
    <3>4. QED
      BY <3>1, <3>2, <3>3 DEF TypeOK, clientVars
  <2>4. CASE MonitorServer
    <3>1. /\ proc' = proc \/ \E handles : proc' = Reap(proc, handles)
          /\ server' \in {server, None} /\ shutdown' \in {shutdown, TRUE}
          /\ monitor' \in {"rpc", "server", "done"}
          /\ UNCHANGED <<clientVars, rpc, born, chain, listener, main, role>>
      BY <2>4 DEF TypeOK, MonitorServer, clientVars, childVars
    <3>2. proc' \in [Pid -> {"unused", "inJob", "stray", "dead"}]
      BY <1>1, <3>1 DEF TypeOK
    <3>3. shutdown' \in BOOLEAN
      BY <3>1 DEF TypeOK
    <3>4. QED
      BY <3>1, <3>2, <3>3 DEF TypeOK, clientVars
  <2>5. QED
    BY <2>1, <2>2, <2>3, <2>4 DEF Monitor
<1>3. Room' /\ Queue' /\ Starting'
  BY DEF TypeOK, Room, Queue, Starting, CloseRpc, CloseServer, Quit, Monitor, MonitorRpc,
         MonitorServer, clientVars, childVars
<1>4. ChainIsCurrent'
  BY DEF TypeOK, ChainIsCurrent, CloseRpc, CloseServer, Quit, Monitor, MonitorRpc,
         MonitorServer, clientVars, childVars
<1>5. ChildrenAreHeld'
  <2>1. CASE CloseRpc
    BY <1>1, <2>1 DEF ChildrenAreHeld, Held, CloseRpc
  <2>2. CASE CloseServer
    BY <1>1, <2>2 DEF ChildrenAreHeld, Held, CloseServer
  <2>3. CASE Quit
    BY <1>1, <2>3 DEF ChildrenAreHeld, Quit
  <2>4. CASE MonitorRpc
    BY <1>1, <2>4 DEF ChildrenAreHeld, Held, MonitorRpc, childVars
  <2>5. CASE MonitorServer
    BY <1>1, <2>5 DEF ChildrenAreHeld, Held, MonitorServer, childVars
  <2>6. QED
    BY <2>1, <2>2, <2>3, <2>4, <2>5 DEF Monitor
<1>6. QED
  BY <1>2, <1>3, <1>4, <1>5

\* The steps of the connection.
LEMMA ClientStep == IInv /\ Client => IInv'
<1> SUFFICES ASSUME IInv, Client PROVE IInv'
  OBVIOUS
<1>1. UNCHANGED <<childVars, main, role, shutdown, monitor>>
  BY DEF Client, Connect, Download, ReceiveUpdate, StartAgain, ReceiveInit
<1>2. ChildrenAreHeld'
  BY <1>1 DEF IInv, ChildrenAreHeld, Held, childVars
<1>3. CASE ReceiveUpdate
  <2>1. /\ sent \in Nat /\ sent + 1 \in 1 .. MaxUpdates /\ sent' = sent + 1
        /\ updates \in Seq(1 .. MaxUpdates) /\ updates' = Append(updates, sent + 1)
        /\ client' = client /\ ready' = ready
    BY <1>3, WorkerAssumption DEF ReceiveUpdate, IInv, TypeOK
  <2>2. /\ updates' \in Seq(1 .. MaxUpdates) /\ Len(updates') = Len(updates) + 1
        /\ Len(updates) \in Nat
        /\ \A i \in 1 .. Len(updates) : updates'[i] = updates[i]
        /\ updates'[Len(updates) + 1] = sent + 1
    BY <2>1
  <2>3. TypeOK'
    BY <1>1, <2>1, <2>2 DEF IInv, TypeOK, childVars
  <2>4. Room' /\ Starting'
    BY <1>1, <2>1, <2>2 DEF IInv, TypeOK, Room, Starting, childVars
  <2>5. Queue'
    <3>1. ASSUME NEW i \in 1 .. Len(updates')
          PROVE  updates'[i] = sent' - Len(updates') + i
      <4>1. CASE i = Len(updates) + 1
        BY <2>1, <2>2, <4>1
      <4>2. CASE i \in 1 .. Len(updates)
        BY <2>1, <2>2, <4>2 DEF IInv, Queue
      <4>3. QED
        BY <2>2, <4>1, <4>2
    <3>2. Len(updates') <= sent'
      BY <2>1, <2>2 DEF IInv, Queue
    <3>3. QED
      BY <3>1, <3>2 DEF Queue
  <2>6. ChainIsCurrent'
    <3>1. SUFFICES ASSUME server # None
                   PROVE  chain[server] + Len(updates') = sent'
      BY <1>1 DEF ChainIsCurrent, childVars
    <3>2. chain[server] \in Nat /\ chain[server] + Len(updates) = sent
      BY <3>1, WorkerAssumption DEF IInv, TypeOK, ChainIsCurrent
    <3>3. QED
      BY <2>1, <2>2, <3>2
  <2>7. QED
    BY <1>2, <2>3, <2>4, <2>5, <2>6 DEF IInv
<1>4. CASE Connect \/ Download \/ StartAgain \/ \E r \in Offers : ReceiveInit(r)
  <2>1. TypeOK'
    BY <1>1, <1>4, WorkerAssumption
       DEF IInv, TypeOK, Connect, Download, StartAgain, ReceiveInit, Ready, Role, childVars
  <2>2. updates' = updates /\ sent' = sent
    BY <1>4 DEF Connect, Download, StartAgain, ReceiveInit
  <2>3. Room' /\ Queue' /\ Starting' /\ ChainIsCurrent'
    BY <1>1, <2>2 DEF IInv, Room, Queue, Starting, ChainIsCurrent, childVars
  <2>4. QED
    BY <1>2, <2>1, <2>3 DEF IInv
<1>5. QED
  BY <1>3, <1>4 DEF Client

\* The steps of run_worker that neither launch nor let go, and those of the children.
LEMMA OtherStep ==
  IInv /\ (ReceiveConfig \/ TimeOut \/ StartTasks \/ Close \/ DropRuntime
           \/ (\E p \in Pid : Bind(p) \/ Exit(p)) \/ UNCHANGED vars) => IInv'
<1> SUFFICES ASSUME IInv, ReceiveConfig \/ TimeOut \/ StartTasks \/ Close \/ DropRuntime
                            \/ (\E p \in Pid : Bind(p) \/ Exit(p)) \/ UNCHANGED vars
             PROVE  IInv'
  OBVIOUS
<1> USE DEF IInv, ReceiveConfig, TimeOut, StartTasks, Close, DropRuntime, Bind, Exit,
            clientVars, childVars, vars
<1>1. TypeOK'
  BY DEF TypeOK
<1>2. Room' /\ Queue' /\ Starting'
  BY DEF TypeOK, Room, Queue, Starting
<1>3. ChildrenAreHeld' /\ ChainIsCurrent'
  BY DEF TypeOK, ChildrenAreHeld, Held, ChainIsCurrent
<1>4. QED
  BY <1>1, <1>2, <1>3

LEMMA NextInv == IInv /\ [Next]_vars => IInv'
BY SpawnRpcStep, SpawnServerStep, UpdateSlavesStep, LetGo, ClientStep, OtherStep
   DEF Next, Main

\* The invariant holds in every state of the worker.
LEMMA Invariance == Spec => []IInv
BY InitInv, NextInv, PTL DEF Spec

\* Every variable keeps its type; above all, however many lists the master
\* announces, the updates never launch a child too many.
THEOREM TypeCorrect == Spec => []TypeOK
<1>1. IInv => TypeOK
  BY DEF IInv
<1>2. QED
  BY <1>1, Invariance, PTL

\* No child outlives the last handle of the job, whoever lets go of it: the
\* monitor, an update, the shutdown or the end of the process.
THEOREM ChildrenStayHeld == Spec => []ChildrenAreHeld
<1>1. IInv => ChildrenAreHeld
  BY DEF IInv
<1>2. QED
  BY <1>1, Invariance, PTL

\* llama-server was launched with the newest list that is not in the channel.
THEOREM ChainStaysCurrent == Spec => []ChainIsCurrent
<1>1. IInv => ChainIsCurrent
  BY DEF IInv
<1>2. QED
  BY <1>1, Invariance, PTL
=============================================================================
