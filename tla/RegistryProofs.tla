--------------------------- MODULE RegistryProofs ---------------------------
(***************************************************************************)
(* Proofs about Registry and TensorSplit, for any workers, connections,    *)
(* port range and number of layers.                                        *)
(*                                                                         *)
(* The two invariants about the table are not inductive alone: that the    *)
(* claimant of the slot is the worker being inserted, and that a handler   *)
(* cleans up after the worker it registered, rest on what Handling says of *)
(* a handler's local variables at each of its labels.                      *)
(***************************************************************************)
EXTENDS TensorSplit, FiniteSetTheorems, WellFoundedInduction, TLAPS

Handling ==
  \A c \in Conn :
    /\ link[c] = "unused" => pc[c] = "idle" /\ line[c] = "none" /\ ~ registered[c]
    /\ link[c] # "unused" => owner[c] \in Worker
    /\ pc[c] \in {"port", "insert", "settx", "init"} => role[c] \in Role
    /\ pc[c] = "claim" => role[c] = "SuperNode"
    /\ pc[c] = "remove" => victim[c] = owner[c]

IInv == TypeOK /\ Handling /\ NoDanglingSuperNode /\ NodesHaveHandlers

-----------------------------------------------------------------------------
\* The allocator steps to the next port and, after the last, to the first.
LEMMA PortAfterIsPort ==
  ASSUME NEW p \in Port
  PROVE  /\ PortAfter(p) = IF p + 1 = PortMod THEN FirstPort ELSE p + 1
         /\ PortAfter(p) \in Port
<1>1. CASE p + 1 = PortMod
  <2>1. (p + 1) % PortMod = 0
    BY <1>1, PortsAssumption DEF Port
  <2>2. QED
    BY <1>1, <2>1, PortsAssumption DEF Port, PortAfter
<1>2. CASE p + 1 # PortMod
  <2>1. (p + 1) % PortMod = p + 1
    BY <1>2, PortsAssumption DEF Port
  <2>2. QED
    BY <1>2, <2>1, PortsAssumption DEF Port, PortAfter
<1>3. QED
  BY <1>1, <1>2

\* Initially every part of the invariant holds.
LEMMA InitInv == Init => IInv
<1> SUFFICES ASSUME Init PROVE IInv
  OBVIOUS
<1> USE DEF Init, NoNode, NoReply, Registered
<1>1. TypeOK
  BY PortsAssumption DEF TypeOK, Task, Label, Node, Reply, Port
<1>2. Handling
  BY DEF Handling, Task
<1>3. NoDanglingSuperNode
  BY TasksAssumption DEF NoDanglingSuperNode
<1>4. NodesHaveHandlers
  BY DEF NodesHaveHandlers
<1>5. QED
  BY <1>1, <1>2, <1>3, <1>4 DEF IInv

-----------------------------------------------------------------------------
\* Every step keeps the variables of their kinds.
LEMMA TypeStep == TypeOK /\ Handling /\ [Next]_vars => TypeOK'
<1> SUFFICES ASSUME TypeOK, Handling, [Next]_vars PROVE TypeOK'
  OBVIOUS
<1> USE DEF TypeOK, Task, Label, Closing, Reply, NoReply, Goto, Answer,
            vars, registryVars, wireVars, localVars
<1>1. ASSUME NEW c \in Conn, NEW w \in Worker, Connect(c, w) PROVE TypeOK'
  BY <1>1 DEF Connect
<1>2. ASSUME NEW c \in Conn, SendPing(c) PROVE TypeOK'
  BY <1>2 DEF SendPing
<1>3. ASSUME NEW c \in Conn, LoseConn(c) PROVE TypeOK'
  BY <1>3 DEF LoseConn
<1>4. ASSUME NEW w \in Worker, Age(w) PROVE TypeOK'
  BY <1>4 DEF Age
<1>5. ASSUME NEW c \in Conn, Elect(c) PROVE TypeOK'
  <2>1. \E l \in Label : pc' = [pc EXCEPT ![c] = l]
    BY <1>5 DEF Elect
  <2>2. role' \in [Conn -> Role \cup {"none"}]
    <3>1. \E x \in {"Consumer", "GpuProvider", "SuperNode"} : role' = [role EXCEPT ![c] = x]
      BY <1>5 DEF Elect
    <3>2. QED
      BY <3>1 DEF Role
  <2>3. line' \in [Conn -> {"none", "REGISTER", "PING"}]
    BY <1>5 DEF Elect
  <2>4. UNCHANGED <<registryVars, link, owner, reply, port, seen, registered, victim, doomed>>
    BY <1>5 DEF Elect
  <2>5. QED
    BY <2>1, <2>2, <2>3, <2>4
<1>6. ASSUME NEW c \in Conn, Claim(c) PROVE TypeOK'
  BY <1>6 DEF Claim
<1>7. ASSUME NEW c \in Conn, AllocatePort(c) PROVE TypeOK'
  BY <1>7, PortAfterIsPort DEF AllocatePort
<1>8. ASSUME NEW c \in Conn, Insert(c) PROVE TypeOK'
  <2>1. [role |-> role[c], addr |-> c, port |-> port[c]] \in Node
    BY <1>8 DEF Insert, Handling, Node
  <2>2. workers' \in [Worker -> Node \cup {NoNode}]
    BY <1>8, <2>1 DEF Insert
  <2>3. QED
    BY <1>8, <2>2 DEF Insert
<1>9. ASSUME NEW c \in Conn, SetCmdTx(c) PROVE TypeOK'
  BY <1>9 DEF SetCmdTx
<1>10. ASSUME NEW c \in Conn, SendInit(c) PROVE TypeOK'
  BY <1>10 DEF SendInit, Handling
<1>11. ASSUME NEW c \in Conn, UpdateHeartbeat(c) PROVE TypeOK'
  <2>1. reply' \in [Conn -> Reply]
    BY <1>11 DEF UpdateHeartbeat
  <2>2. \E l \in Label : pc' = [pc EXCEPT ![c] = l]
    BY <1>11 DEF UpdateHeartbeat
  <2>3. stale' \subseteq stale
    BY <1>11 DEF UpdateHeartbeat
  <2>4. line' \in [Conn -> {"none", "REGISTER", "PING"}]
    BY <1>11 DEF UpdateHeartbeat
  <2>5. UNCHANGED <<workers, superNode, cmdTx, lastSlaves, nextPort,
                    link, owner, localVars, victim, doomed>>
    BY <1>11 DEF UpdateHeartbeat
  <2>6. QED
    BY <2>1, <2>2, <2>3, <2>4, <2>5
<1>12. ASSUME NEW c \in Conn, ReadSlaves(c) PROVE TypeOK'
  <2>1. SlaveAddrs \subseteq Conn
    BY DEF SlaveAddrs, Node, NoNode
  <2>2. QED
    BY <1>12, <2>1 DEF ReadSlaves
<1>13. ASSUME NEW c \in Conn, CompareSlaves(c) PROVE TypeOK'
  BY <1>13 DEF CompareSlaves
<1>14. ASSUME NEW c \in Conn, ReadEof(c) PROVE TypeOK'
  <2>1. \E l \in Label : pc' = [pc EXCEPT ![c] = l]
    BY <1>14 DEF ReadEof
  <2>2. victim' \in [Task -> Worker \cup {None}]
    BY <1>14 DEF ReadEof
  <2>3. /\ line' \in [Conn -> {"none", "REGISTER", "PING"}]
        /\ registered' \in [Conn -> BOOLEAN]
    BY <1>14 DEF ReadEof
  <2>4. UNCHANGED <<registryVars, link, owner, reply, role, port, seen, doomed>>
    BY <1>14 DEF ReadEof
  <2>5. QED
    BY <2>1, <2>2, <2>3, <2>4
<1>15. CASE CheckerTick
  BY <1>15 DEF CheckerTick
<1>16. ASSUME NEW w \in Worker, Evict(w) PROVE TypeOK'
  BY <1>16 DEF Evict
<1>17. CASE CheckerDone
  BY <1>17 DEF CheckerDone
<1>18. ASSUME NEW t \in Task, RemoveWorker(t) PROVE TypeOK'
  BY <1>18 DEF RemoveWorker
<1>19. ASSUME NEW t \in Task, ReleaseSlot(t) PROVE TypeOK'
  BY <1>19 DEF ReleaseSlot, Return
<1>20. ASSUME NEW t \in Task, DropCmdTx(t) PROVE TypeOK'
  BY <1>20 DEF DropCmdTx, Return
<1>21. CASE UNCHANGED vars
  BY <1>21
<1>22. QED
  BY <1>1, <1>2, <1>3, <1>4, <1>5, <1>6, <1>7, <1>8, <1>9, <1>10, <1>11,
     <1>12, <1>13, <1>14, <1>15, <1>16, <1>17, <1>18, <1>19, <1>20, <1>21
     DEF Next, Environment, Master, Register, Heartbeat, Unregister, Sweep

\* A handler's local variables mean at each label what Handling says.
LEMMA HandlingStep ==
  TypeOK /\ Handling /\ [Next]_vars => Handling'
<1> SUFFICES ASSUME TypeOK, Handling, [Next]_vars PROVE Handling'
  OBVIOUS
<1> USE DEF TypeOK, Task, Handling,
            Goto, Answer, vars, registryVars, wireVars, localVars
<1>1. ASSUME NEW c \in Conn, NEW w \in Worker, Connect(c, w) PROVE Handling'
  BY <1>1 DEF Connect
<1>2. ASSUME NEW c \in Conn, SendPing(c) PROVE Handling'
  BY <1>2 DEF SendPing, Live
<1>3. ASSUME NEW c \in Conn, LoseConn(c) PROVE Handling'
  BY <1>3 DEF LoseConn, Live
<1>4. ASSUME NEW w \in Worker, Age(w) PROVE Handling'
  BY <1>4 DEF Age
<1>5. ASSUME NEW c \in Conn, Elect(c) PROVE Handling'
  BY <1>5 DEF Elect, Role
<1>6. ASSUME NEW c \in Conn, Claim(c) PROVE Handling'
  BY <1>6 DEF Claim
<1>7. ASSUME NEW c \in Conn, AllocatePort(c) PROVE Handling'
  BY <1>7 DEF AllocatePort
<1>8. ASSUME NEW c \in Conn, Insert(c) PROVE Handling'
  BY <1>8 DEF Insert
<1>9. ASSUME NEW c \in Conn, SetCmdTx(c) PROVE Handling'
  BY <1>9 DEF SetCmdTx
<1>10. ASSUME NEW c \in Conn, SendInit(c) PROVE Handling'
  BY <1>10 DEF SendInit
<1>11. ASSUME NEW c \in Conn, UpdateHeartbeat(c) PROVE Handling'
  BY <1>11 DEF UpdateHeartbeat
<1>12. ASSUME NEW c \in Conn, ReadSlaves(c) PROVE Handling'
  BY <1>12 DEF ReadSlaves
<1>13. ASSUME NEW c \in Conn, CompareSlaves(c) PROVE Handling'
  BY <1>13 DEF CompareSlaves
<1>14. ASSUME NEW c \in Conn, ReadEof(c) PROVE Handling'
  BY <1>14 DEF ReadEof
<1>15. CASE CheckerTick
  BY <1>15, TasksAssumption DEF CheckerTick
<1>16. ASSUME NEW w \in Worker, Evict(w) PROVE Handling'
  BY <1>16, TasksAssumption DEF Evict
<1>17. CASE CheckerDone
  BY <1>17, TasksAssumption DEF CheckerDone
<1>18. ASSUME NEW t \in Task, RemoveWorker(t) PROVE Handling'
  BY <1>18 DEF RemoveWorker
<1>19. ASSUME NEW t \in Task, ReleaseSlot(t) PROVE Handling'
  BY <1>19, TasksAssumption DEF ReleaseSlot, Return
<1>20. ASSUME NEW t \in Task, DropCmdTx(t) PROVE Handling'
  BY <1>20, TasksAssumption DEF DropCmdTx, Return
<1>21. CASE UNCHANGED vars
  BY <1>21
<1>22. QED
  BY <1>1, <1>2, <1>3, <1>4, <1>5, <1>6, <1>7, <1>8, <1>9, <1>10, <1>11,
     <1>12, <1>13, <1>14, <1>15, <1>16, <1>17, <1>18, <1>19, <1>20, <1>21
     DEF Next, Environment, Master, Register, Heartbeat, Unregister, Sweep

\* The slot's holder stays in the table, about to enter or about to leave.
LEMMA SlotStep ==
  TypeOK /\ Handling /\ NoDanglingSuperNode /\ [Next]_vars => NoDanglingSuperNode'
<1> SUFFICES ASSUME TypeOK, Handling, NoDanglingSuperNode, [Next]_vars PROVE NoDanglingSuperNode'
  OBVIOUS
<1> USE TasksAssumption
    DEF TypeOK, Task, Handling, NoDanglingSuperNode, Entering, Leaving, Registered,
        Goto, Answer, vars, registryVars, wireVars, localVars
<1>1. ASSUME NEW c \in Conn, NEW w \in Worker, Connect(c, w) PROVE NoDanglingSuperNode'
  BY <1>1 DEF Connect
<1>2. ASSUME NEW c \in Conn, SendPing(c) PROVE NoDanglingSuperNode'
  BY <1>2 DEF SendPing
<1>3. ASSUME NEW c \in Conn, LoseConn(c) PROVE NoDanglingSuperNode'
  BY <1>3 DEF LoseConn
<1>4. ASSUME NEW w \in Worker, Age(w) PROVE NoDanglingSuperNode'
  BY <1>4 DEF Age
<1>5. ASSUME NEW c \in Conn, Elect(c) PROVE NoDanglingSuperNode'
  BY <1>5 DEF Elect
<1>6. ASSUME NEW c \in Conn, Claim(c) PROVE NoDanglingSuperNode'
  BY <1>6 DEF Claim
<1>7. ASSUME NEW c \in Conn, AllocatePort(c) PROVE NoDanglingSuperNode'
  BY <1>7 DEF AllocatePort
<1>8. ASSUME NEW c \in Conn, Insert(c) PROVE NoDanglingSuperNode'
  BY <1>8 DEF Insert, NoNode, Role
<1>9. ASSUME NEW c \in Conn, SetCmdTx(c) PROVE NoDanglingSuperNode'
  BY <1>9 DEF SetCmdTx
<1>10. ASSUME NEW c \in Conn, SendInit(c) PROVE NoDanglingSuperNode'
  BY <1>10 DEF SendInit
<1>11. ASSUME NEW c \in Conn, UpdateHeartbeat(c) PROVE NoDanglingSuperNode'
  BY <1>11 DEF UpdateHeartbeat
<1>12. ASSUME NEW c \in Conn, ReadSlaves(c) PROVE NoDanglingSuperNode'
  BY <1>12 DEF ReadSlaves
<1>13. ASSUME NEW c \in Conn, CompareSlaves(c) PROVE NoDanglingSuperNode'
  BY <1>13 DEF CompareSlaves
<1>14. ASSUME NEW c \in Conn, ReadEof(c) PROVE NoDanglingSuperNode'
  BY <1>14 DEF ReadEof
<1>15. CASE CheckerTick
  BY <1>15 DEF CheckerTick
<1>16. ASSUME NEW w \in Worker, Evict(w) PROVE NoDanglingSuperNode'
  BY <1>16 DEF Evict
<1>17. CASE CheckerDone
  BY <1>17 DEF CheckerDone
<1>18. ASSUME NEW t \in Task, RemoveWorker(t) PROVE NoDanglingSuperNode'
  BY <1>18 DEF RemoveWorker
<1>19. ASSUME NEW t \in Task, ReleaseSlot(t) PROVE NoDanglingSuperNode'
  BY <1>19 DEF ReleaseSlot, Return
<1>20. ASSUME NEW t \in Task, DropCmdTx(t) PROVE NoDanglingSuperNode'
  BY <1>20 DEF DropCmdTx, Return
<1>21. CASE UNCHANGED vars
  BY <1>21
<1>22. QED
  BY <1>1, <1>2, <1>3, <1>4, <1>5, <1>6, <1>7, <1>8, <1>9, <1>10, <1>11,
     <1>12, <1>13, <1>14, <1>15, <1>16, <1>17, <1>18, <1>19, <1>20, <1>21
     DEF Next, Environment, Master, Register, Heartbeat, Unregister, Sweep

\* A node's connection stays that of a handler that has yet to remove it.
LEMMA NodesStep ==
  TypeOK /\ Handling /\ NodesHaveHandlers /\ [Next]_vars => NodesHaveHandlers'
<1> SUFFICES ASSUME TypeOK, Handling, NodesHaveHandlers, [Next]_vars PROVE NodesHaveHandlers'
  OBVIOUS
<1>0. \A w \in Worker : Registered(w) => workers[w].addr \in Conn
  BY DEF TypeOK, Node, Registered
<1> USE TasksAssumption, <1>0
    DEF TypeOK, Task, Handling, NodesHaveHandlers, Registered,
        Goto, Answer, vars, registryVars, wireVars, localVars
<1>1. ASSUME NEW c \in Conn, NEW w \in Worker, Connect(c, w) PROVE NodesHaveHandlers'
  BY <1>1 DEF Connect
<1>2. ASSUME NEW c \in Conn, SendPing(c) PROVE NodesHaveHandlers'
  BY <1>2 DEF SendPing
<1>3. ASSUME NEW c \in Conn, LoseConn(c) PROVE NodesHaveHandlers'
  BY <1>3 DEF LoseConn
<1>4. ASSUME NEW w \in Worker, Age(w) PROVE NodesHaveHandlers'
  BY <1>4 DEF Age
<1>5. ASSUME NEW c \in Conn, Elect(c) PROVE NodesHaveHandlers'
  <2>1. UNCHANGED <<workers, owner, registered>>
    BY <1>5 DEF Elect
  <2>2. \A d \in Conn : pc[d] = "remove" => pc'[d] = "remove"
    BY <1>5 DEF Elect
  <2>3. QED
    BY <2>1, <2>2
<1>6. ASSUME NEW c \in Conn, Claim(c) PROVE NodesHaveHandlers'
  BY <1>6 DEF Claim
<1>7. ASSUME NEW c \in Conn, AllocatePort(c) PROVE NodesHaveHandlers'
  BY <1>7 DEF AllocatePort
<1>8. ASSUME NEW c \in Conn, Insert(c) PROVE NodesHaveHandlers'
  BY <1>8 DEF Insert, NoNode
<1>9. ASSUME NEW c \in Conn, SetCmdTx(c) PROVE NodesHaveHandlers'
  BY <1>9 DEF SetCmdTx
<1>10. ASSUME NEW c \in Conn, SendInit(c) PROVE NodesHaveHandlers'
  BY <1>10 DEF SendInit
<1>11. ASSUME NEW c \in Conn, UpdateHeartbeat(c) PROVE NodesHaveHandlers'
  <2>1. UNCHANGED <<workers, owner, registered>>
    BY <1>11 DEF UpdateHeartbeat
  <2>2. \A d \in Conn : pc[d] = "remove" => pc'[d] = "remove"
    BY <1>11 DEF UpdateHeartbeat
  <2>3. QED
    BY <2>1, <2>2
<1>12. ASSUME NEW c \in Conn, ReadSlaves(c) PROVE NodesHaveHandlers'
  BY <1>12 DEF ReadSlaves
<1>13. ASSUME NEW c \in Conn, CompareSlaves(c) PROVE NodesHaveHandlers'
  BY <1>13 DEF CompareSlaves
<1>14. ASSUME NEW c \in Conn, ReadEof(c) PROVE NodesHaveHandlers'
  <2>1. UNCHANGED <<workers, owner>>
    BY <1>14 DEF ReadEof
  <2>2. \A d \in Conn : registered[d] \/ pc[d] = "remove"
                        => registered'[d] \/ pc'[d] = "remove"
    BY <1>14 DEF ReadEof
  <2>3. QED
    BY <2>1, <2>2
<1>15. CASE CheckerTick
  BY <1>15 DEF CheckerTick
<1>16. ASSUME NEW w \in Worker, Evict(w) PROVE NodesHaveHandlers'
  BY <1>16 DEF Evict
<1>17. CASE CheckerDone
  BY <1>17 DEF CheckerDone
<1>18. ASSUME NEW t \in Task, RemoveWorker(t) PROVE NodesHaveHandlers'
  <2>1. /\ \A w \in Worker : workers'[w] # NoNode
                              => workers'[w] = workers[w] /\ w # victim[t]
        /\ UNCHANGED <<owner, registered>>
        /\ pc' = [pc EXCEPT ![t] = "slot"] /\ pc[t] = "remove"
    BY <1>18 DEF RemoveWorker
  <2>2. QED
    BY <2>1
<1>19. ASSUME NEW t \in Task, ReleaseSlot(t) PROVE NodesHaveHandlers'
  <2>1. UNCHANGED <<workers, owner, registered>>
    BY <1>19 DEF ReleaseSlot
  <2>2. \A d \in Conn : pc[d] = "remove" => pc'[d] = "remove"
    BY <1>19 DEF ReleaseSlot
  <2>3. QED
    BY <2>1, <2>2
<1>20. ASSUME NEW t \in Task, DropCmdTx(t) PROVE NodesHaveHandlers'
  BY <1>20 DEF DropCmdTx, Return
<1>21. CASE UNCHANGED vars
  BY <1>21
<1>22. QED
  BY <1>1, <1>2, <1>3, <1>4, <1>5, <1>6, <1>7, <1>8, <1>9, <1>10, <1>11,
     <1>12, <1>13, <1>14, <1>15, <1>16, <1>17, <1>18, <1>19, <1>20, <1>21
     DEF Next, Environment, Master, Register, Heartbeat, Unregister, Sweep
-----------------------------------------------------------------------------
\* The invariant holds initially and every step preserves it.
THEOREM Invariance == Spec => []IInv
<1>1. Init => IInv
  BY InitInv
<1>2. IInv /\ [Next]_vars => IInv'
  BY TypeStep, HandlingStep, SlotStep, NodesStep DEF IInv
<1>3. QED
  BY <1>1, <1>2, PTL DEF Spec

\* The variables always hold values of their kinds.
THEOREM TypeCorrect == Spec => []TypeOK
<1>1. IInv => TypeOK
  BY DEF IInv
<1>2. QED
  BY <1>1, Invariance, PTL

\* However elections, evictions and the ends of old connections interleave,
\* the SuperNode slot is never left to a worker that has gone.
THEOREM SlotNeverDangles == Spec => []NoDanglingSuperNode
<1>1. IInv => NoDanglingSuperNode
  BY DEF IInv
<1>2. QED
  BY <1>1, Invariance, PTL

\* Every node of the table has the handler that registered it, which has yet
\* to remove it: no address survives its connection.
THEOREM NodesKeepHandlers == Spec => []NodesHaveHandlers
<1>1. IInv => NodesHaveHandlers
  BY DEF IInv
<1>2. QED
  BY <1>1, Invariance, PTL

-----------------------------------------------------------------------------
(* Tunnel ports are distinct until the allocator has handed out the last    *)
(* one: until then a port in use, in the table or in a handler that has yet *)
(* to insert it, is smaller than the next.                                  *)

Unwrapped == nextPort + 1 < PortMod

PortsBelow ==
  /\ \A w \in Worker : workers[w].port # 0 => workers[w].port < nextPort
  /\ \A c \in Conn : port[c] # 0 =>
       /\ port[c] < nextPort
       /\ \A w \in Worker : workers[w].port # port[c]
       /\ \A d \in Conn : d # c => port[d] # port[c]
  /\ DistinctPorts

LEMMA PortsStep ==
  TypeOK /\ Unwrapped /\ PortsBelow /\ [Next]_vars => PortsBelow'
<1> SUFFICES ASSUME TypeOK, Unwrapped, PortsBelow, [Next]_vars PROVE PortsBelow'
  OBVIOUS
<1>0. /\ nextPort \in Port /\ nextPort \in Nat
      /\ port \in [Conn -> Port \cup {0}] /\ \A c \in Conn : port[c] \in Nat
      /\ workers \in [Worker -> Node \cup {NoNode}]
      /\ \A w \in Worker : workers[w].port \in Nat
  BY PortsAssumption DEF TypeOK, Port, Node, NoNode
<1>1. ASSUME NEW c \in Conn, AllocatePort(c) PROVE PortsBelow'
  <2>1. nextPort' = nextPort + 1
    BY <1>1, <1>0, PortAfterIsPort, PortsAssumption DEF AllocatePort, Unwrapped, Port
  <2>2. port' = [port EXCEPT ![c] = nextPort] /\ workers' = workers
    BY <1>1 DEF AllocatePort
  <2>3. \A w \in Worker : workers'[w].port # 0 => workers'[w].port < nextPort'
    BY <1>0, <2>1, <2>2 DEF PortsBelow
  <2>4. ASSUME NEW d \in Conn, port'[d] # 0
        PROVE  /\ port'[d] < nextPort'
               /\ \A w \in Worker : workers'[w].port # port'[d]
               /\ \A e \in Conn : e # d => port'[e] # port'[d]
    <3>1. CASE d = c
      <4>1. port'[d] = nextPort /\ nextPort # 0
        BY <1>0, <2>2, <2>4, <3>1
      <4>2. \A w \in Worker : workers[w].port # nextPort
        BY <1>0, <4>1 DEF PortsBelow
      <4>3. \A e \in Conn : e # d => port'[e] = port[e] /\ port[e] # nextPort
        BY <1>0, <2>2, <3>1, <4>1 DEF PortsBelow
      <4>4. QED
        BY <1>0, <2>1, <2>2, <4>1, <4>2, <4>3
    <3>2. CASE d # c
      <4>1. port'[d] = port[d] /\ port[d] < nextPort
        BY <1>0, <2>2, <2>4, <3>2 DEF PortsBelow
      <4>2. \A e \in Conn : e # d => port'[e] # port'[d]
        BY <1>0, <2>2, <2>4, <3>2, <4>1 DEF PortsBelow
      <4>3. QED
        BY <1>0, <2>1, <2>2, <2>4, <4>1, <4>2 DEF PortsBelow
    <3>3. QED
      BY <3>1, <3>2
  <2>5. DistinctPorts'
    BY <2>2 DEF PortsBelow, DistinctPorts
  <2>6. QED
    BY <2>3, <2>4, <2>5 DEF PortsBelow
<1>2. ASSUME NEW c \in Conn, Insert(c) PROVE PortsBelow'
  <2>1. /\ port' = [port EXCEPT ![c] = 0] /\ nextPort' = nextPort
        /\ \A w \in Worker : \/ workers'[w] = workers[w]
                             \/ w = owner[c] /\ workers'[w].port = port[c]
    BY <1>2, <1>0 DEF Insert
  <2>2. QED
    BY <1>0, <2>1 DEF PortsBelow, DistinctPorts
<1>3. ASSUME NEW t \in Task, RemoveWorker(t) PROVE PortsBelow'
  <2>1. /\ UNCHANGED <<port, nextPort>>
        /\ \A w \in Worker : workers'[w] = workers[w] \/ workers'[w].port = 0
    BY <1>3, <1>0 DEF RemoveWorker, NoNode, localVars
  <2>2. QED
    BY <1>0, <2>1 DEF PortsBelow, DistinctPorts
<1>4. CASE UNCHANGED <<workers, port, nextPort>>
  BY <1>4 DEF PortsBelow, DistinctPorts
<1>5. CASE Environment
  <2>1. UNCHANGED <<workers, port, nextPort>>
    BY <1>5 DEF Environment, Connect, SendPing, LoseConn, Age, registryVars, localVars
  <2>2. QED
    BY <1>4, <2>1
<1>6. ASSUME NEW c \in Conn, \/ Elect(c) \/ Claim(c) \/ SetCmdTx(c) \/ SendInit(c)
                             \/ Heartbeat(c) \/ ReadEof(c)
      PROVE  PortsBelow'
  <2>1. UNCHANGED <<workers, port, nextPort>>
    BY <1>6 DEF Elect, Claim, SetCmdTx, SendInit, Heartbeat, UpdateHeartbeat,
                ReadSlaves, CompareSlaves, ReadEof, registryVars, localVars
  <2>2. QED
    BY <1>4, <2>1
<1>7. ASSUME Sweep \/ \E t \in Task : ReleaseSlot(t) \/ DropCmdTx(t)
      PROVE  PortsBelow'
  <2>1. UNCHANGED <<workers, port, nextPort>>
    BY <1>7 DEF Sweep, CheckerTick, Evict, CheckerDone, ReleaseSlot, DropCmdTx,
                registryVars, localVars
  <2>2. QED
    BY <1>4, <2>1
<1>8. CASE UNCHANGED vars
  BY <1>4, <1>8 DEF vars, registryVars, localVars
<1>9. QED
  BY <1>1, <1>2, <1>3, <1>5, <1>6, <1>7, <1>8 DEF Next, Master, Register, Unregister

\* Until the allocator wraps, no two workers are given the same tunnel port,
\* however their registrations interleave.
THEOREM PortsStayDistinct == Spec /\ []Unwrapped => []DistinctPorts
<1>1. Init => PortsBelow
  BY DEF Init, PortsBelow, DistinctPorts, NoNode
<1>2. TypeOK /\ Unwrapped /\ PortsBelow /\ [Next]_vars => PortsBelow'
  BY PortsStep
<1>3. PortsBelow => DistinctPorts
  BY DEF PortsBelow
<1>4. QED
  BY <1>1, <1>2, <1>3, TypeCorrect, PTL DEF Spec

-----------------------------------------------------------------------------
(* The split of layers.  What its sum is comes from a closed form of every  *)
(* partial sum; that each GPU has one link from the table being finite, as  *)
(* one worker is inserted at a time.                                        *)

LEMMA LeastElement ==
  ASSUME NEW S \in SUBSET Nat, S # {}
  PROVE  \E x \in S : \A y \in S : x <= y
<1>1. \E x \in S : \A y \in S : ~ (<<y, x>> \in OpToRel(<, Nat))
  BY NatLessThanWellFounded, WFMin
<1>2. \A x, y \in Nat : y < x => <<y, x>> \in OpToRel(<, Nat)
  BY DEF OpToRel
<1>3. PICK x \in S : \A y \in S : ~ (<<y, x>> \in OpToRel(<, Nat))
  BY <1>1
<1>4. ASSUME NEW y \in S PROVE x <= y
  <2>1. x \in Nat /\ y \in Nat
    OBVIOUS
  <2>2. ~ (y < x)
    BY <1>2, <1>3, <2>1
  <2>3. QED
    BY <2>1, <2>2
<1>5. QED
  BY <1>4

\* What grows link by link by the layers of the link is what LayersUpTo sums:
\* there is no first link up to which they differ.
LEMMA SumOfLayers ==
  ASSUME NEW split, Len(split) \in Nat,
         NEW g \in [0 .. Len(split) -> Nat], g[0] = 0,
         \A i \in 1 .. Len(split) : g[i] = g[i - 1] + split[i].layers
  PROVE  LayersUpTo(split)[Len(split)] = g[Len(split)]
<1> DEFINE n == Len(split)
           h(f) == [i \in 0 .. n |-> IF i = 0 THEN 0 ELSE f[i - 1] + split[i].layers]
           s == LayersUpTo(split)
<1>1. g = h(g)
  OBVIOUS
<1>2. s = h(s)
  <2>1. s = CHOOSE f : f = h(f)
    BY DEF LayersUpTo
  <2>2. QED
    BY <1>1, <2>1
<1>3. ASSUME NEW j \in 0 .. n, s[j] # g[j] PROVE FALSE
  <2> DEFINE T == {i \in 0 .. n : s[i] # g[i]}
  <2>1. PICK i \in T : \A k \in T : i <= k
    <3>1. T \in SUBSET Nat /\ T # {}
      BY <1>3
    <3>2. QED
      BY <3>1, LeastElement
  <2>2. i # 0
    BY <1>2, <2>1
  <2>3. s[i - 1] = g[i - 1]
    BY <2>1, <2>2
  <2>4. QED
    BY <1>1, <1>2, <2>1, <2>2, <2>3
<1>4. QED
  BY <1>3

LEMMA Division ==
  ASSUME NEW a \in Nat, NEW n \in Nat \ {0}
  PROVE  /\ a \div n \in Nat
         /\ a % n \in 0 .. n - 1
         /\ a = n * (a \div n) + (a % n)
OBVIOUS

\* The split of any number of layers over any number of GPUs is even.
THEOREM SplitIsEven ==
  ASSUME NEW total \in Nat, NEW gpu, Len(gpu) \in Nat
  PROVE  IsEvenSplit(CalculateTensorSplit(total, gpu), total)
<1> DEFINE n     == Len(gpu)
           split == CalculateTensorSplit(total, gpu)
<1> SUFFICES IsEvenSplit(split, total)
  OBVIOUS
<1>1. CASE n = 0
  <2>1. split = << [addr |-> "127.0.0.1:8090", layers |-> total] >>
    BY <1>1 DEF CalculateTensorSplit, Local
  <2>2. /\ Len(split) = 1 /\ DOMAIN split = {1} /\ split[1].layers = total
    BY <2>1
  <2> HIDE DEF split
  <2> DEFINE g == [i \in 0 .. 1 |-> IF i = 0 THEN 0 ELSE total]
  <2>3. LayersUpTo(split)[Len(split)] = g[Len(split)]
    <3>1. /\ g \in [0 .. Len(split) -> Nat] /\ g[0] = 0
          /\ \A i \in 1 .. Len(split) : g[i] = g[i - 1] + split[i].layers
      BY <2>2
    <3>2. Len(split) \in Nat
      BY <2>2
    <3> HIDE DEF g
    <3>3. QED
      BY <3>1, <3>2, SumOfLayers
  <2>4. QED
    BY <2>2, <2>3 DEF IsEvenSplit
<1>2. CASE n # 0
  <2> DEFINE q == total \div n
             r == total % n
             more(i) == IF i <= r THEN i ELSE r
             g == [i \in 0 .. n |-> i * q + more(i)]
  <2>1. q \in Nat /\ r \in 0 .. n - 1 /\ total = n * q + r /\ n \in Nat
    BY <1>2, Division
  <2>2. split = [i \in 1 .. n |-> [addr   |-> gpu[i].addr,
                                   layers |-> q + (IF i <= r THEN 1 ELSE 0)]]
    BY <1>2 DEF CalculateTensorSplit
  <2> HIDE DEF q, r, n, split
  <2>3. /\ Len(split) = n /\ DOMAIN split = 1 .. n
        /\ \A i \in 1 .. n : split[i].layers = q + (IF i <= r THEN 1 ELSE 0)
    BY <2>1, <2>2
  <2>4. /\ g \in [0 .. n -> Nat] /\ g[0] = 0 /\ g[n] = total
    <3>1. ASSUME NEW i \in 0 .. n PROVE i * q + more(i) \in Nat
      <4>1. i * q \in Nat
        BY <2>1
      <4>2. QED
        BY <2>1, <4>1
    <3>2. g \in [0 .. n -> Nat]
      BY <3>1
    <3>3. g[0] = 0
      BY <2>1
    <3>4. g[n] = total
      BY <2>1
    <3>5. QED
      BY <3>2, <3>3, <3>4
  <2>5. ASSUME NEW i \in 1 .. n PROVE g[i] = g[i - 1] + split[i].layers
    <3>1. i * q = (i - 1) * q + q /\ (i - 1) * q \in Nat
      BY <2>1
    <3>2. split[i].layers = q + (IF i <= r THEN 1 ELSE 0)
      BY <2>3
    <3>3. more(i) = more(i - 1) + (IF i <= r THEN 1 ELSE 0)
      BY <2>1
    <3>4. g[i] = i * q + more(i) /\ g[i - 1] = (i - 1) * q + more(i - 1)
      BY <2>1
    <3>5. more(i - 1) \in Nat
      BY <2>1
    <3> HIDE DEF g, more
    <3>6. QED
      BY <2>1, <3>1, <3>2, <3>3, <3>4, <3>5
  <2>6. LayersUpTo(split)[Len(split)] = total
    <3> HIDE DEF g
    <3>1. LayersUpTo(split)[Len(split)] = g[Len(split)]
      BY <2>1, <2>3, <2>4, <2>5, SumOfLayers
    <3>2. QED
      BY <2>3, <2>4, <3>1
  <2>7. \A i, j \in DOMAIN split : split[i].layers <= split[j].layers + 1
    BY <2>1, <2>3
  <2>8. QED
    BY <2>6, <2>7 DEF IsEvenSplit
<1>3. QED
  BY <1>1, <1>2

\* An order of a finite set names each of its elements.
LEMMA OrderIsOnto ==
  ASSUME NEW S, IsFiniteSet(S), NEW order \in SetToSeqs(S)
  PROVE  /\ Cardinality(S) \in Nat
         /\ order \in [1 .. Cardinality(S) -> S]
         /\ \A x \in S : \E i \in 1 .. Cardinality(S) : order[i] = x
<1> DEFINE n == Cardinality(S)
<1>1. n \in Nat
  BY FS_CardinalityType
<1>2. order \in [1 .. n -> S] /\ \A i, j \in 1 .. n : i # j => order[i] # order[j]
  BY DEF SetToSeqs
<1>3. order \in Injection(1 .. n, S)
  BY <1>2 DEF Injection, IsInjective
<1>4. Cardinality(1 .. n) = n
  BY <1>1, FS_Interval
<1>5. order \in Surjection(1 .. n, S)
  BY <1>3, <1>4, FS_Injection
<1>6. QED
  BY <1>1, <1>2, <1>5 DEF Surjection

LEMMA TableIsFinite == Spec => []IsFiniteSet(ActiveWorkers)
<1>1. Init => IsFiniteSet(ActiveWorkers)
  <2>1. Init => ActiveWorkers = {}
    BY DEF Init, ActiveWorkers, Registered
  <2>2. QED
    BY <2>1, FS_EmptySet
<1>2. TypeOK /\ IsFiniteSet(ActiveWorkers) /\ [Next]_vars => IsFiniteSet(ActiveWorkers)'
  <2> SUFFICES ASSUME TypeOK, IsFiniteSet(ActiveWorkers), [Next]_vars
               PROVE  IsFiniteSet(ActiveWorkers')
    OBVIOUS
  <2>1. \E w : ActiveWorkers' \subseteq ActiveWorkers \cup {w}
    <3> USE DEF ActiveWorkers, Registered, TypeOK
    <3>1. ASSUME NEW c \in Conn, Insert(c) PROVE ActiveWorkers' \subseteq ActiveWorkers \cup {owner[c]}
      BY <3>1 DEF Insert
    <3>2. ASSUME NEW t \in Task, RemoveWorker(t) PROVE ActiveWorkers' \subseteq ActiveWorkers
      BY <3>2 DEF RemoveWorker
    <3>3. ASSUME UNCHANGED workers PROVE ActiveWorkers' \subseteq ActiveWorkers
      BY <3>3
    <3>4. CASE Environment
      <4>1. UNCHANGED workers
        BY <3>4 DEF Environment, Connect, SendPing, LoseConn, Age, registryVars
      <4>2. QED
        BY <3>3, <4>1
    <3>5. ASSUME NEW c \in Conn, Register(c) \/ Heartbeat(c) \/ ReadEof(c), ~ Insert(c)
          PROVE  UNCHANGED workers
      BY <3>5 DEF Register, Elect, Claim, AllocatePort, SetCmdTx, SendInit, Heartbeat,
                  UpdateHeartbeat, ReadSlaves, CompareSlaves, ReadEof, registryVars
    <3>6. CASE \/ Sweep \/ UNCHANGED vars
               \/ \E t \in Task : ReleaseSlot(t) \/ DropCmdTx(t)
      <4>1. UNCHANGED workers
        BY <3>6 DEF Sweep, CheckerTick, CheckerDone, Evict, ReleaseSlot, DropCmdTx,
                    registryVars, vars
      <4>2. QED
        BY <3>3, <4>1
    <3> HIDE DEF ActiveWorkers
    <3>7. CASE Master
      BY <3>1, <3>2, <3>3, <3>5, <3>6, <3>7 DEF Master, Unregister
    <3>8. QED
      BY <3>4, <3>6, <3>7 DEF Next
  <2>2. QED
    BY <2>1, FS_AddElement, FS_Subset
<1>3. QED
  BY <1>1, <1>2, TypeCorrect, PTL DEF Spec

\* In every state of the registry, whatever order the table is read in, INFER
\* is answered an even split with one link for every GPU.
THEOREM LayersStaySplit == Spec => []LayersAreSplit
<1>1. IsFiniteSet(ActiveWorkers) => LayersAreSplit
  <2> DEFINE gpus == {w \in Worker : workers[w].role \in {"GpuProvider", "SuperNode"}}
             total == TotalLayers
  <2> SUFFICES ASSUME IsFiniteSet(ActiveWorkers), NEW gpu \in GpuOrders(ActiveWorkers)
               PROVE  /\ IsEvenSplit(CalculateTensorSplit(total, gpu), total)
                      /\ gpus # {} =>
                         /\ Len(CalculateTensorSplit(total, gpu)) = Cardinality(gpus)
                         /\ {CalculateTensorSplit(total, gpu)[i].addr :
                               i \in DOMAIN CalculateTensorSplit(total, gpu)}
                            = {workers[w].addr : w \in gpus}
    BY DEF LayersAreSplit
  <2>1. GpuWorkers(ActiveWorkers) = gpus
    BY DEF GpuWorkers, ActiveWorkers, Registered, NoNode
  <2>2. IsFiniteSet(gpus)
    <3>1. gpus \subseteq ActiveWorkers
      BY <2>1 DEF GpuWorkers
    <3>2. QED
      BY <3>1, FS_Subset
  <2> DEFINE n == Cardinality(gpus)
             split == CalculateTensorSplit(total, gpu)
  <2>3. PICK order \in SetToSeqs(gpus) : gpu = [i \in DOMAIN order |-> workers[order[i]]]
    BY <2>1 DEF GpuOrders
  <2> HIDE DEF gpus
  <2>4. /\ n \in Nat /\ order \in [1 .. n -> gpus]
        /\ \A w \in gpus : \E i \in 1 .. n : order[i] = w
    BY <2>2, OrderIsOnto
  <2>5. Len(gpu) = n /\ DOMAIN gpu = 1 .. n /\ \A i \in 1 .. n : gpu[i] = workers[order[i]]
    BY <2>3, <2>4
  <2>6. IsEvenSplit(split, total)
    BY <2>4, <2>5, LayersAssumption, SplitIsEven
  <2>7. ASSUME gpus # {}
        PROVE  Len(split) = n /\ {split[i].addr : i \in DOMAIN split} = {workers[w].addr : w \in gpus}
    <3>1. n # 0
      BY <2>4, <2>7
    <3>2. split = [i \in 1 .. n |-> [addr   |-> gpu[i].addr,
                                     layers |-> (total \div n) + (IF i <= total % n THEN 1 ELSE 0)]]
      BY <2>5, <3>1 DEF CalculateTensorSplit
    <3> HIDE DEF n, split
    <3>3. Len(split) = n /\ DOMAIN split = 1 .. n /\ \A i \in 1 .. n : split[i].addr = workers[order[i]].addr
      BY <2>4, <2>5, <3>2
    <3>4. QED
      BY <2>4, <3>3
  <2>8. QED
    BY <2>6, <2>7 DEF gpus
<1>2. QED
  BY <1>1, TableIsFinite, PTL
=============================================================================
