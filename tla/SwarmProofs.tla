----------------------------- MODULE SwarmProofs ------------------------------
(***************************************************************************)
(* Proofs about Swarm, for any workers and connections.  A connection      *)
(* registers once, with one role: from its insertion on, whatever speaks   *)
(* of that connection (its handler, the INIT_MODEL under way, the          *)
(* application that acted on it) says the same role, which is what Told    *)
(* states.  It is stable, holds of every node that is inserted, and        *)
(* therefore of every address that a list of slaves is made of.            *)
(***************************************************************************)
EXTENDS Swarm, RegistryProofs

Entry == {"claim", "port", "insert"}

Told(c, r) ==
  /\ link[c] # "unused" /\ line[c] # "REGISTER" /\ pc[c] \notin Entry
  /\ pc[c] \in {"settx", "init"} => role[c] = r
  /\ reply[c].kind = "INIT" => reply[c].role = r
  /\ \A w \in Worker : runs[w].conn = c => runs[w].role = r

\* Nobody has been told anything on a connection that is not registered yet.
Untold(c) ==
  /\ pc[c] \in Entry \cup {"settx", "init"} => line[c] # "REGISTER"
  /\ \/ link[c] = "unused" \/ line[c] = "REGISTER"
     \/ pc[c] \in Entry \cup {"settx", "init"}
     => reply[c].kind # "INIT" /\ \A w \in Worker : runs[w].conn # c

AppTypeOK ==
  /\ runs  \in [Worker -> [role : Role \cup {"none"}, conn : Conn \cup {None}]]
  /\ chain \in [Worker -> SUBSET Conn]

NodesTold  == \A w \in Worker : Registered(w) => Told(workers[w].addr, workers[w].role)
ListsTold  == \A c \in Conn : \A d \in seen[c] \cup reply[c].slaves : Told(d, "GpuProvider")
ChainsTold == \A w \in Worker : \A d \in chain[w] : Told(d, "GpuProvider")

\* What an application runs was told on a connection of its own.
RunsOwned  == \A w \in Worker : \/ runs[w] = Nothing
                                \/ runs[w].conn \in Conn /\ owner[runs[w].conn] = w

AppInv == AppTypeOK /\ RunsOwned /\ (\A c \in Conn : Untold(c)) /\ NodesTold /\ ListsTold /\ ChainsTold
-----------------------------------------------------------------------------
(* Swarm implements Registry. *)

\* A step of the composition is one of the registry, or none of its business.
LEMMA SwarmStep == [SwarmNext]_swarmVars => [Next]_vars
<1> SUFFICES ASSUME [SwarmNext]_swarmVars PROVE [Next]_vars
  OBVIOUS
<1>1. ASSUME NEW c \in Conn, Application(c) PROVE [Next]_vars
  <2>1. CASE BecomeReady(c) \/ HandleUpdate(c)
    BY <2>1 DEF BecomeReady, HandleUpdate
  <2>2. CASE NextPing(c)
    BY <2>2 DEF NextPing, Next, Environment
  <2>3. QED
    BY <1>1, <2>1, <2>2 DEF Application
<1>2. CASE Unnoticed(Network \/ Master)
  BY <1>2 DEF Unnoticed, Network, Next, Environment
<1>3. CASE UNCHANGED swarmVars
  BY <1>3 DEF swarmVars
<1>4. QED
  BY <1>1, <1>2, <1>3 DEF SwarmNext

\* Whatever is proved of the registry holds with the applications at work.
THEOREM SwarmImplementsRegistry == SwarmSpec => Spec
<1>1. SwarmInit => Init
  BY DEF SwarmInit
<1>2. [SwarmNext]_swarmVars => [Next]_vars
  BY SwarmStep
<1>3. QED
  BY <1>1, <1>2, PTL DEF SwarmSpec, Spec
-----------------------------------------------------------------------------
(* What is told on a connection stays as it is. *)

\* The steps that leave alone what Told speaks of, but for where the checker
\* and the ends of connections stand.
Aside == /\ UNCHANGED <<link, line, reply, role, appVars>>
         /\ \A c \in Conn : pc'[c] # pc[c] => pc'[c] \in Closing

LEMMA AsideSteps ==
  TypeOK /\ UNCHANGED appVars
  /\ \/ \E w \in Worker : Age(w)
     \/ \E t \in Task : Unregister(t)
     \/ Sweep
     \/ UNCHANGED vars
  => Aside
<1> SUFFICES ASSUME TypeOK, UNCHANGED appVars,
                    \/ \E w \in Worker : Age(w)
                    \/ \E t \in Task : Unregister(t)
                    \/ Sweep
                    \/ UNCHANGED vars
             PROVE  Aside
  OBVIOUS
<1> USE DEF Aside, TypeOK, Task, Goto, vars, registryVars, wireVars, localVars, Closing
<1>1. ASSUME NEW w \in Worker, Age(w) PROVE Aside
  BY <1>1 DEF Age
<1>2. ASSUME NEW t \in Task, RemoveWorker(t) PROVE Aside
  BY <1>2 DEF RemoveWorker
<1>3. ASSUME NEW t \in Task, ReleaseSlot(t) PROVE Aside
  BY <1>3, TasksAssumption DEF ReleaseSlot, Return
<1>4. ASSUME NEW t \in Task, DropCmdTx(t) PROVE Aside
  BY <1>4, TasksAssumption DEF DropCmdTx, Return
<1>5. CASE Sweep
  BY <1>5, TasksAssumption DEF Sweep, CheckerTick, CheckerDone, Evict
<1>6. CASE UNCHANGED vars
  BY <1>6
<1>7. QED
  BY <1>1, <1>2, <1>3, <1>4, <1>5, <1>6 DEF Unregister

\* A connection that tells r tells r after every step: no other registration,
\* no clean-up and no application that starts changes it.
LEMMA ToldStays ==
  ASSUME TypeOK, Handling, AppTypeOK, [SwarmNext]_swarmVars,
         NEW c \in Conn, NEW r, Told(c, r)
  PROVE  Told(c, r)'
<1> USE DEF Told, TypeOK, Entry, Task, Goto, Answer, appVars
<1>1. ASSUME NEW d \in Conn, BecomeReady(d) PROVE Told(c, r)'
  <2>1. owner[d] \in Worker /\ reply[d].kind = "INIT"
    BY <1>1 DEF BecomeReady, Live, Handling
  <2>2. \A w \in Worker : \/ runs'[w] = runs[w]
                          \/ runs'[w] = [role |-> reply[d].role, conn |-> d]
    BY <1>1, <2>1 DEF BecomeReady, AppTypeOK
  <2>3. UNCHANGED <<link, line, pc, role, reply>>
    BY <1>1 DEF BecomeReady, vars, wireVars, localVars
  <2>4. QED
    BY <2>1, <2>2, <2>3
<1>2. ASSUME NEW d \in Conn, HandleUpdate(d) PROVE Told(c, r)'
  BY <1>2 DEF HandleUpdate, vars, wireVars, localVars
<1>3. ASSUME NEW d \in Conn, NextPing(d) PROVE Told(c, r)'
  BY <1>3 DEF NextPing, SendPing, NoReply, localVars
<1>4. ASSUME UNCHANGED appVars, NEW d \in Conn, NEW w \in Worker, Connect(d, w) PROVE Told(c, r)'
  BY <1>4 DEF Connect, localVars
<1>5. ASSUME UNCHANGED appVars, NEW d \in Conn, LoseConn(d) PROVE Told(c, r)'
  BY <1>5 DEF LoseConn, NoReply, localVars
<1>6. ASSUME UNCHANGED appVars, NEW d \in Conn, Register(d) PROVE Told(c, r)'
  <2>1. CASE Elect(d)
    BY <1>6, <2>1 DEF Elect
  <2>2. CASE Claim(d) \/ AllocatePort(d)
    BY <1>6, <2>2 DEF Claim, AllocatePort, wireVars, localVars
  <2>3. CASE Insert(d) \/ SetCmdTx(d)
    BY <1>6, <2>3 DEF Insert, SetCmdTx, wireVars, localVars
  <2>4. CASE SendInit(d)
    BY <1>6, <2>4 DEF SendInit
  <2>5. QED
    BY <1>6, <2>1, <2>2, <2>3, <2>4 DEF Register
<1>7. ASSUME UNCHANGED appVars, NEW d \in Conn, Heartbeat(d) PROVE Told(c, r)'
  BY <1>7 DEF Heartbeat, UpdateHeartbeat, ReadSlaves, CompareSlaves, wireVars, localVars
<1>8. ASSUME UNCHANGED appVars, NEW d \in Conn, ReadEof(d) PROVE Told(c, r)'
  BY <1>8 DEF ReadEof
<1>9. CASE Aside
  BY <1>9 DEF Aside, Closing
<1>10. QED
  BY <1>1, <1>2, <1>3, <1>4, <1>5, <1>6, <1>7, <1>8, <1>9, AsideSteps
     DEF SwarmNext, swarmVars, Application, Unnoticed, Network, Master
-----------------------------------------------------------------------------
(* The invariant. *)

LEMMA SwarmInitInv == SwarmInit => AppInv
<1> SUFFICES ASSUME SwarmInit PROVE AppInv
  OBVIOUS
<1> USE DEF SwarmInit, Init
<1>1. AppTypeOK /\ RunsOwned
  BY DEF AppTypeOK, RunsOwned, Nothing
<1>2. \A c \in Conn : Untold(c)
  BY TasksAssumption DEF Untold, Entry, NoReply, Nothing, Task
<1>3. NodesTold
  BY DEF NodesTold, Registered
<1>4. ListsTold /\ ChainsTold
  BY DEF ListsTold, ChainsTold, NoReply
<1>5. QED
  BY <1>1, <1>2, <1>3, <1>4 DEF AppInv

LEMMA AppTypeStep ==
  TypeOK /\ Handling /\ AppTypeOK /\ [SwarmNext]_swarmVars => AppTypeOK'
<1> SUFFICES ASSUME TypeOK, Handling, AppTypeOK, [SwarmNext]_swarmVars PROVE AppTypeOK'
  OBVIOUS
<1> USE DEF AppTypeOK, TypeOK, Reply
<1>1. ASSUME NEW c \in Conn, BecomeReady(c) PROVE AppTypeOK'
  BY <1>1 DEF BecomeReady
<1>2. ASSUME NEW c \in Conn, HandleUpdate(c) PROVE AppTypeOK'
  BY <1>2 DEF HandleUpdate
<1>3. CASE UNCHANGED appVars
  BY <1>3 DEF appVars
<1>4. QED
  BY <1>1, <1>2, <1>3 DEF SwarmNext, Application, NextPing, Unnoticed, swarmVars

\* The owner of a connection in use stays, and an application acts on the
\* answers to its own.
LEMMA RunsOwnedStep ==
  TypeOK /\ Handling /\ AppTypeOK /\ RunsOwned /\ (\A c \in Conn : Untold(c))
  /\ [SwarmNext]_swarmVars => RunsOwned'
<1> SUFFICES ASSUME TypeOK, Handling, AppTypeOK, RunsOwned, \A c \in Conn : Untold(c),
                    [SwarmNext]_swarmVars
             PROVE  RunsOwned'
  OBVIOUS
<1>1. ASSUME NEW c \in Conn, BecomeReady(c) PROVE RunsOwned'
  <2>1. owner[c] \in Worker /\ UNCHANGED owner
    BY <1>1 DEF BecomeReady, Live, Handling, vars, wireVars
  <2>2. \A w \in Worker : \/ runs'[w] = runs[w]
                          \/ runs'[w].conn = c /\ w = owner[c]
    BY <1>1, <2>1 DEF BecomeReady, AppTypeOK
  <2>3. QED
    BY <2>1, <2>2 DEF RunsOwned
<1>2. ASSUME NEW c \in Conn, NEW v \in Worker, Connect(c, v), UNCHANGED appVars PROVE RunsOwned'
  <2>1. /\ \A w \in Worker : runs[w].conn # c
        /\ owner' = [owner EXCEPT ![c] = v]
    BY <1>2, TasksAssumption DEF Connect, Untold, Handling, Entry
  <2>2. \A w \in Worker : runs[w] # Nothing => owner'[runs[w].conn] = owner[runs[w].conn]
    BY <2>1 DEF TypeOK
  <2>3. QED
    BY <1>2, <2>2 DEF RunsOwned, appVars
<1>3. ASSUME NEW c \in Conn, HandleUpdate(c) PROVE UNCHANGED <<runs, owner>>
  BY <1>3 DEF HandleUpdate, vars, wireVars
<1>4. ASSUME NEW c \in Conn, NextPing(c) PROVE UNCHANGED <<runs, owner>>
  BY <1>4 DEF NextPing, SendPing, appVars
<1>5. ASSUME UNCHANGED appVars, (\E c \in Conn : LoseConn(c)) \/ (\E w \in Worker : Age(w)) \/ Master
      PROVE  UNCHANGED <<runs, owner>>
  BY <1>5 DEF appVars, LoseConn, Age, Master, Register, Elect, Claim, AllocatePort, Insert,
              SetCmdTx, SendInit, Heartbeat, UpdateHeartbeat, ReadSlaves, CompareSlaves, ReadEof,
              Unregister, RemoveWorker, ReleaseSlot, DropCmdTx, Sweep, CheckerTick, CheckerDone,
              Evict, wireVars
<1>6. CASE UNCHANGED swarmVars
  BY <1>6 DEF swarmVars, appVars, vars, wireVars, RunsOwned
<1>7. CASE UNCHANGED <<runs, owner>>
  BY <1>7 DEF RunsOwned
<1>8. QED
  BY <1>1, <1>2, <1>3, <1>4, <1>5, <1>6, <1>7 DEF SwarmNext, Application, Unnoticed, Network

\* Until a registration is answered nothing is told on its connection.
LEMMA UntoldStays ==
  ASSUME TypeOK, Handling, AppTypeOK, [SwarmNext]_swarmVars,
         NEW c \in Conn, Untold(c)
  PROVE  Untold(c)'
<1> USE DEF Untold, TypeOK, Entry, Task, Goto, Answer, appVars
<1>1. ASSUME NEW d \in Conn, BecomeReady(d) PROVE Untold(c)'
  <2>1. owner[d] \in Worker /\ reply[d].kind = "INIT"
    BY <1>1 DEF BecomeReady, Live, Handling
  <2>2. \A w \in Worker : \/ runs'[w] = runs[w]
                          \/ runs'[w] = [role |-> reply[d].role, conn |-> d]
    BY <1>1, <2>1 DEF BecomeReady, AppTypeOK
  <2>3. UNCHANGED <<link, line, pc, role, reply>>
    BY <1>1 DEF BecomeReady, vars, wireVars, localVars
  <2>4. QED
    BY <2>1, <2>2, <2>3
<1>2. ASSUME NEW d \in Conn, HandleUpdate(d) PROVE Untold(c)'
  BY <1>2 DEF HandleUpdate, vars, wireVars, localVars
<1>3. ASSUME NEW d \in Conn, NextPing(d) PROVE Untold(c)'
  BY <1>3 DEF NextPing, SendPing, NoReply, localVars, Live
<1>4. ASSUME UNCHANGED appVars, NEW d \in Conn, NEW w \in Worker, Connect(d, w) PROVE Untold(c)'
  BY <1>4 DEF Connect, localVars, Handling
<1>5. ASSUME UNCHANGED appVars, NEW d \in Conn, LoseConn(d) PROVE Untold(c)'
  BY <1>5 DEF LoseConn, NoReply, localVars, Live
<1>6. ASSUME UNCHANGED appVars, NEW d \in Conn, Register(d) PROVE Untold(c)'
  <2>1. CASE Elect(d)
    BY <1>6, <2>1 DEF Elect
  <2>2. CASE Claim(d) \/ AllocatePort(d)
    BY <1>6, <2>2 DEF Claim, AllocatePort, wireVars, localVars
  <2>3. CASE Insert(d) \/ SetCmdTx(d)
    BY <1>6, <2>3 DEF Insert, SetCmdTx, wireVars, localVars
  <2>4. CASE SendInit(d)
    BY <1>6, <2>4 DEF SendInit, Handling
  <2>5. QED
    BY <1>6, <2>1, <2>2, <2>3, <2>4 DEF Register
<1>7. ASSUME UNCHANGED appVars, NEW d \in Conn, Heartbeat(d) PROVE Untold(c)'
  BY <1>7 DEF Heartbeat, UpdateHeartbeat, ReadSlaves, CompareSlaves, wireVars, localVars
<1>8. ASSUME UNCHANGED appVars, NEW d \in Conn, ReadEof(d) PROVE Untold(c)'
  BY <1>8 DEF ReadEof
<1>9. CASE Aside
  BY <1>9 DEF Aside, Closing
<1>10. QED
  BY <1>1, <1>2, <1>3, <1>4, <1>5, <1>6, <1>7, <1>8, <1>9, AsideSteps
     DEF SwarmNext, swarmVars, Application, Unnoticed, Network, Master

\* A node of the table is an old one or has just been inserted, with the role
\* that its connection is going to be told.
LEMMA NodesToldStep ==
  TypeOK /\ Handling /\ AppInv /\ [SwarmNext]_swarmVars => NodesTold'
<1> SUFFICES ASSUME TypeOK, Handling, AppInv, [SwarmNext]_swarmVars,
                    NEW w \in Worker, Registered(w)'
             PROVE  Told(workers[w].addr, workers[w].role)'
  BY DEF NodesTold
<1>1. CASE workers'[w] = workers[w]
  <2>1. Registered(w) /\ workers[w].addr \in Conn
    BY <1>1 DEF Registered, TypeOK, Node
  <2>2. PICK c \in Conn, r \in Role : c = workers[w].addr /\ r = workers[w].role
    BY <2>1 DEF Registered, TypeOK, Node
  <2>3. Told(c, r)
    BY <2>1, <2>2 DEF AppInv, NodesTold
  <2>4. Told(c, r)'
    BY <2>3, ToldStays DEF AppInv
  <2>5. QED
    BY <1>1, <2>2, <2>4 DEF Told
<1>2. ASSUME NEW c \in Conn, Insert(c), UNCHANGED appVars, workers'[w] # workers[w]
      PROVE  Told(workers[w].addr, workers[w].role)'
  <2>1. workers'[w].addr = c /\ workers'[w].role = role[c]
    BY <1>2 DEF Insert, TypeOK
  <2>2. /\ link'[c] # "unused" /\ line'[c] # "REGISTER" /\ pc'[c] \notin Entry
        /\ role'[c] = role[c] /\ reply'[c].kind # "INIT"
        /\ \A v \in Worker : runs'[v].conn # c
    BY <1>2 DEF Insert, TypeOK, Handling, AppInv, Untold, Entry, Goto, Task,
                wireVars, localVars, appVars
  <2>3. QED
    BY <2>1, <2>2 DEF Told
<1>3. ASSUME NEW t \in Task, RemoveWorker(t) PROVE workers'[w] = workers[w]
  BY <1>3 DEF RemoveWorker, Registered, TypeOK
<1>4. \/ workers'[w] = workers[w]
      \/ UNCHANGED appVars /\ \E c \in Conn : Insert(c)
      \/ \E t \in Task : RemoveWorker(t)
  BY DEF SwarmNext, swarmVars, Application, BecomeReady, HandleUpdate, NextPing, SendPing,
         Unnoticed, Network, Connect, LoseConn, Age, Master, Register, Elect, Claim,
         AllocatePort, SetCmdTx, SendInit, Heartbeat, UpdateHeartbeat, ReadSlaves,
         CompareSlaves, ReadEof, Unregister, ReleaseSlot, DropCmdTx, Sweep, CheckerTick,
         CheckerDone, Evict, vars, registryVars
<1>5. QED
  BY <1>1, <1>2, <1>3, <1>4

\* A list that a handler reads is of nodes of the table, and one that it
\* writes is one it has read.
LEMMA ListsToldStep ==
  TypeOK /\ Handling /\ AppInv /\ [SwarmNext]_swarmVars => ListsTold'
<1> SUFFICES ASSUME TypeOK, Handling, AppInv, [SwarmNext]_swarmVars,
                    NEW c \in Conn, NEW d \in seen'[c] \cup reply'[c].slaves
             PROVE  Told(d, "GpuProvider")'
  BY DEF ListsTold
<1>1. ASSUME NEW e \in Conn, ReadSlaves(e) PROVE seen'[c] \subseteq seen[c] \cup SlaveAddrs
  BY <1>1 DEF ReadSlaves, TypeOK
<1>2. ASSUME NEW e \in Conn, CompareSlaves(e)
      PROVE  seen'[c] \subseteq seen[c] /\ reply'[c].slaves \subseteq reply[c].slaves \cup seen[c]
  BY <1>2 DEF CompareSlaves, Answer, TypeOK
<1>3. ASSUME NEW e \in Conn, UpdateHeartbeat(e) \/ SendInit(e) \/ LoseConn(e) \/ SendPing(e)
      PROVE  seen'[c] = seen[c] /\ reply'[c].slaves \subseteq reply[c].slaves
  BY <1>3 DEF UpdateHeartbeat, SendInit, LoseConn, SendPing, Answer, NoReply, TypeOK, localVars
<1>4. \/ UNCHANGED <<seen, reply>>
      \/ \E e \in Conn : \/ ReadSlaves(e) /\ UNCHANGED reply
                         \/ CompareSlaves(e)
                         \/ UpdateHeartbeat(e) \/ SendInit(e) \/ LoseConn(e) \/ SendPing(e)
  BY DEF SwarmNext, swarmVars, Application, BecomeReady, HandleUpdate, NextPing,
         Unnoticed, Network, Connect, Age, Master, Register, Elect, Claim,
         AllocatePort, Insert, SetCmdTx, Heartbeat, ReadSlaves, ReadEof, Unregister,
         RemoveWorker, ReleaseSlot, DropCmdTx, Sweep, CheckerTick,
         CheckerDone, Evict, vars, wireVars, localVars
<1>5. d \in seen[c] \cup reply[c].slaves \cup SlaveAddrs
  BY <1>1, <1>2, <1>3, <1>4
<1>6. d \in Conn /\ Told(d, "GpuProvider")
  <2>1. CASE d \in seen[c] \cup reply[c].slaves
    BY <2>1 DEF AppInv, ListsTold, TypeOK, Reply
  <2>2. CASE d \in SlaveAddrs
    <3>1. PICK w \in Worker : workers[w].role = "GpuProvider" /\ workers[w].addr = d
      BY <2>2 DEF SlaveAddrs
    <3>2. Registered(w)
      BY <3>1 DEF Registered, NoNode
    <3>3. QED
      BY <3>1, <3>2 DEF AppInv, NodesTold, TypeOK, Node, Registered
  <2>3. QED
    BY <1>5, <2>1, <2>2
<1>7. QED
  BY <1>6, ToldStays DEF AppInv

\* A chain is a list that was announced.
LEMMA ChainsToldStep ==
  TypeOK /\ Handling /\ AppInv /\ [SwarmNext]_swarmVars => ChainsTold'
<1> SUFFICES ASSUME TypeOK, Handling, AppInv, [SwarmNext]_swarmVars,
                    NEW w \in Worker, NEW d \in chain'[w]
             PROVE  Told(d, "GpuProvider")'
  BY DEF ChainsTold
<1>1. \/ d \in chain[w]
      \/ \E c \in Conn : d \in reply[c].slaves
  BY DEF SwarmNext, swarmVars, appVars, Application, BecomeReady, HandleUpdate, NextPing,
         Unnoticed, AppInv, AppTypeOK
<1>2. d \in Conn /\ Told(d, "GpuProvider")
  BY <1>1 DEF AppInv, AppTypeOK, ChainsTold, ListsTold, TypeOK, Reply
<1>3. QED
  BY <1>2, ToldStays DEF AppInv

-----------------------------------------------------------------------------
\* The invariant holds of the composition.
THEOREM SwarmInvariance == SwarmSpec => []AppInv
<1>1. SwarmInit => AppInv
  BY SwarmInitInv
<1>2. TypeOK /\ Handling /\ AppInv /\ [SwarmNext]_swarmVars => AppInv'
  <2> SUFFICES ASSUME TypeOK, Handling, AppInv, [SwarmNext]_swarmVars PROVE AppInv'
    OBVIOUS
  <2>1. AppTypeOK' /\ RunsOwned'
    BY AppTypeStep, RunsOwnedStep DEF AppInv
  <2>2. ASSUME NEW c \in Conn PROVE Untold(c)'
    BY UntoldStays DEF AppInv
  <2>3. NodesTold' /\ ListsTold' /\ ChainsTold'
    BY NodesToldStep, ListsToldStep, ChainsToldStep
  <2>4. QED
    BY <2>1, <2>2, <2>3 DEF AppInv
<1>3. IInv => TypeOK /\ Handling
  BY DEF IInv
<1>4. QED
  BY <1>1, <1>2, <1>3, SwarmImplementsRegistry, Invariance, PTL DEF SwarmSpec

\* The role an application runs is the one that the table has for its
\* registration, as long as that is there.
THEOREM RolesAlwaysAgree == SwarmSpec => []RolesAgree
<1>1. AppInv => RolesAgree
  BY DEF AppInv, NodesTold, Told, RolesAgree
<1>2. QED
  BY <1>1, SwarmInvariance, PTL

\* Whatever lists PINGs put back and restarts mix up, a machine in a chain runs
\* the RPC server of a GPU provider, or nothing yet, or has acted on another of
\* its registrations.
THEOREM ChainsAlwaysOfProviders == SwarmSpec => []ChainsAreOfProviders
<1>1. TypeOK /\ Handling /\ AppInv => ChainsAreOfProviders
  <2> SUFFICES ASSUME TypeOK, Handling, AppInv, NEW w \in Worker, NEW c \in chain[w]
               PROVE  \E v \in Worker :
                        /\ owner[c] = v
                        /\ runs[v].role \in {"none", "GpuProvider"} \/ ToldElsewhere(v, c)
    BY DEF ChainsAreOfProviders
  <2>1. c \in Conn /\ Told(c, "GpuProvider")
    BY DEF AppInv, AppTypeOK, ChainsTold
  <2>2. owner[c] \in Worker
    BY <2>1 DEF Told, Handling
  <2>3. CASE runs[owner[c]] = Nothing
    BY <2>2, <2>3 DEF Nothing
  <2>4. CASE runs[owner[c]] # Nothing /\ runs[owner[c]].conn = c
    BY <2>1, <2>2, <2>4 DEF Told
  <2>5. CASE runs[owner[c]] # Nothing /\ runs[owner[c]].conn # c
    <3>1. runs[owner[c]].conn \in Conn /\ owner[runs[owner[c]].conn] = owner[c]
      BY <2>2, <2>5 DEF AppInv, RunsOwned
    <3>2. QED
      BY <2>2, <2>5, <3>1 DEF ToldElsewhere
  <2>6. QED
    BY <2>3, <2>4, <2>5
<1>2. IInv => TypeOK /\ Handling
  BY DEF IInv
<1>3. QED
  BY <1>1, <1>2, SwarmInvariance, SwarmImplementsRegistry, Invariance, PTL
=============================================================================
