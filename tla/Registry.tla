------------------------------ MODULE Registry ------------------------------
(***************************************************************************)
(* The worker registry of the master (src/master.rs): the table of         *)
(* registered workers, the SuperNode slot with its command channel, the    *)
(* last list of RPC slaves announced and the allocator of tunnel ports,    *)
(* as the connection handlers and the heartbeat checker use them.          *)
(*                                                                         *)
(* Every field sits behind a mutex of its own and no method holds two of   *)
(* them while it decides, so a step here is one critical section: other    *)
(* tasks run between the read of the slot that elects a SuperNode and the  *)
(* write that claims it, and between the three removals of unregister().   *)
(*                                                                         *)
(* The workers' side is what the master can see of it: one connection at   *)
(* a time per worker, REGISTER first, then one PING at a time, each after  *)
(* the answer to the line before; a connection may break at any moment     *)
(* and the master may learn of it late or never.                           *)
(***************************************************************************)
EXTENDS Integers

CONSTANTS
  Worker,     \* worker ids: one per process of the worker application
  Big,        \* those that report a GPU with at least 6144 MB of VRAM
  Conn,       \* TCP connections; each one also stands for its peer address
  Pinging,    \* those on which the worker gets as far as sending PINGs
  Checker,    \* the heartbeat checker task
  None,       \* the None of Rust's Option
  FirstPort,  \* FIRST_TUNNEL_PORT
  PortMod     \* 2^16: tunnel ports are u16

ASSUME TasksAssumption == /\ Big \subseteq Worker
                          /\ Pinging \subseteq Conn
                          /\ Checker \notin Conn
                          /\ None \notin Worker \cup Conn
ASSUME PortsAssumption == /\ FirstPort \in Nat \ {0}
                          /\ PortMod \in Nat
                          /\ FirstPort < PortMod

VARIABLES
  workers,     \* the table: worker -> its node, or NoNode
  superNode,   \* super_node_id
  cmdTx,       \* super_node_cmd_tx: the handler that owns the receiver
  lastSlaves,  \* last_slave_list
  nextPort,    \* tunnel_port_allocator
  stale,       \* workers whose last_ping lies more than 120 s back
  link,        \* state of each connection
  owner,       \* the worker that opened it
  line,        \* the line the worker sent that the handler has not read
  reply,       \* the handler's answer to the last line, until the next one
  pc,          \* where each handler, and the checker, stands
  role, port, seen, registered,   \* a handler's local variables
  victim, doomed                  \* unregister's argument; to_remove
                                  \* (each reset when it goes out of use)

registryVars == <<workers, superNode, cmdTx, lastSlaves, nextPort, stale>>
wireVars     == <<link, owner, line, reply>>
localVars    == <<role, port, seen, registered>>
vars == <<registryVars, wireVars, pc, localVars, victim, doomed>>

Task == Conn \cup {Checker}
Role == {"Consumer", "SuperNode", "GpuProvider"}
Port == FirstPort .. PortMod - 1

NoNode  == [role |-> "none", addr |-> None, port |-> 0]
Node    == [role : Role, addr : Conn, port : Port \cup {0}]

NoReply == [kind |-> "none", role |-> "none", slaves |-> {}]
Reply   == [kind   : {"none", "INIT", "PONG", "ERROR"},
            role   : Role \cup {"none"},
            slaves : SUBSET Conn]

Registered(w) == workers[w] # NoNode
Live(c)       == link[c] = "open"
Connected(w)  == \E c \in Conn : owner[c] = w /\ Live(c)

\* Fault: whoever has a GPU is a slave.
SlaveAddrsOfAll == {workers[w].addr : w \in {v \in Worker : workers[v].role \in {"GpuProvider", "SuperNode"}}}

\* get_rpc_slave_addrs: the addresses of the registered GPU providers.
SlaveAddrs == {workers[w].addr : w \in {v \in Worker : workers[v].role = "GpuProvider"}}

\* Faults: no return to FIRST_TUNNEL_PORT; the allocator does not advance.
PortAfterUnfloored(p) == (p + 1) % PortMod
PortAfterStuck(p)     == p

\* wrapping_add(1), then back to FIRST_TUNNEL_PORT when that wrapped.
PortAfter(p) == LET q == (p + 1) % PortMod
                IN  IF q < FirstPort THEN FirstPort ELSE q

Init ==
  /\ workers    = [w \in Worker |-> NoNode]
  /\ superNode  = None
  /\ cmdTx      = None
  /\ lastSlaves = {}
  /\ nextPort   = FirstPort
  /\ stale      = {}
  /\ link       = [c \in Conn |-> "unused"]
  /\ owner      = [c \in Conn |-> None]
  /\ line       = [c \in Conn |-> "none"]
  /\ reply      = [c \in Conn |-> NoReply]
  /\ pc         = [t \in Task |-> "idle"]
  /\ role       = [c \in Conn |-> "none"]
  /\ port       = [c \in Conn |-> 0]
  /\ seen       = [c \in Conn |-> {}]
  /\ registered = [c \in Conn |-> FALSE]
  /\ victim     = [t \in Task |-> None]
  /\ doomed     = {}

-----------------------------------------------------------------------------
(* The workers and the network. *)

Connect(c, w) ==
  /\ link[c] = "unused"
  /\ ~ Connected(w)
  /\ link'  = [link  EXCEPT ![c] = "open"]
  /\ owner' = [owner EXCEPT ![c] = w]
  /\ line'  = [line  EXCEPT ![c] = "REGISTER"]
  /\ UNCHANGED <<registryVars, reply, pc, localVars, victim, doomed>>

\* The worker has read the answer to its last line and, at once or after any
\* delay (a SuperNode first downloads its model), sends the next PING.
SendPing(c) ==
  /\ c \in Pinging /\ Live(c)
  /\ reply[c] # NoReply
  /\ reply' = [reply EXCEPT ![c] = NoReply]
  /\ line'  = [line  EXCEPT ![c] = "PING"]
  /\ UNCHANGED <<registryVars, link, owner, pc, localVars, victim, doomed>>

\* The connection breaks, or the worker's process ends.
LoseConn(c) ==
  /\ Live(c)
  /\ link'  = [link  EXCEPT ![c] = "lost"]
  /\ reply' = [reply EXCEPT ![c] = NoReply]
  /\ UNCHANGED <<registryVars, owner, line, pc, localVars, victim, doomed>>

\* More than 120 s go by without a line of w: none waits to be handled.
Quiet(w) == \A c \in Conn : owner[c] = w => /\ pc[c] \in {"idle", "closed"}
                                            /\ line[c] = "none"

Age(w) ==
  /\ Registered(w)
  /\ w \notin stale
  /\ Quiet(w)
  /\ stale' = stale \cup {w}
  /\ UNCHANGED <<workers, superNode, cmdTx, lastSlaves, nextPort,
                 wireVars, pc, localVars, victim, doomed>>

-----------------------------------------------------------------------------
(* handle_connection: REGISTER. *)

Goto(t, label) == pc' = [pc EXCEPT ![t] = label]
Answer(c, r)   == reply' = IF Live(c) THEN [reply EXCEPT ![c] = r] ELSE reply

\* Reads the line and decides the role; for a big GPU by a look at the slot.
Elect(c) ==
  /\ pc[c] = "idle" /\ line[c] = "REGISTER"
  /\ line' = [line EXCEPT ![c] = "none"]
  /\ \/ /\ owner[c] \notin Big
        /\ role' = [role EXCEPT ![c] = "Consumer"]
        /\ Goto(c, "port")
     \/ /\ owner[c] \in Big /\ superNode # None
        /\ role' = [role EXCEPT ![c] = "GpuProvider"]
        /\ Goto(c, "port")
     \/ /\ owner[c] \in Big /\ superNode = None
        /\ role' = [role EXCEPT ![c] = "SuperNode"]
        /\ Goto(c, "claim")
  /\ UNCHANGED <<registryVars, link, owner, reply, port, seen, registered, victim, doomed>>

Claim(c) ==
  /\ pc[c] = "claim"
  /\ superNode' = owner[c]
  /\ Goto(c, "insert")
  /\ UNCHANGED <<workers, cmdTx, lastSlaves, nextPort, stale,
                 wireVars, localVars, victim, doomed>>

AllocatePort(c) ==
  /\ pc[c] = "port"
  /\ port' = [port EXCEPT ![c] = nextPort]
  /\ nextPort' = PortAfter(nextPort)
  /\ Goto(c, "insert")
  /\ UNCHANGED <<workers, superNode, cmdTx, lastSlaves, stale,
                 wireVars, role, seen, registered, victim, doomed>>

\* register(), and this_worker_id becomes Some(id).
Insert(c) ==
  /\ pc[c] = "insert"
  /\ workers' = [workers EXCEPT ![owner[c]] =
                   [role |-> role[c], addr |-> c, port |-> port[c]]]
  /\ stale' = stale \ {owner[c]}
  /\ registered' = [registered EXCEPT ![c] = TRUE]
  /\ port' = [port EXCEPT ![c] = 0]
  /\ Goto(c, IF role[c] = "SuperNode" THEN "settx" ELSE "init")
  /\ UNCHANGED <<superNode, cmdTx, lastSlaves, nextPort,
                 wireVars, role, seen, victim, doomed>>

SetCmdTx(c) ==
  /\ pc[c] = "settx"
  /\ cmdTx' = c
  /\ Goto(c, "init")
  /\ UNCHANGED <<workers, superNode, lastSlaves, nextPort, stale,
                 wireVars, localVars, victim, doomed>>

\* Fault: the announcement is made by the slot of the moment.
SendInitBySlot(c) ==
  /\ pc[c] = "init"
  /\ Answer(c, [kind |-> "INIT", slaves |-> {},
                role |-> IF role[c] = "SuperNode" /\ superNode # owner[c] THEN "GpuProvider"
                                                                          ELSE role[c]])
  /\ role' = [role EXCEPT ![c] = "none"]
  /\ Goto(c, "idle")
  /\ UNCHANGED <<registryVars, link, owner, line, port, seen, registered, victim, doomed>>

SendInit(c) ==
  /\ pc[c] = "init"
  /\ Answer(c, [kind |-> "INIT", role |-> role[c], slaves |-> {}])
  /\ role' = [role EXCEPT ![c] = "none"]
  /\ Goto(c, "idle")
  /\ UNCHANGED <<registryVars, link, owner, line, port, seen, registered, victim, doomed>>

-----------------------------------------------------------------------------
(* handle_connection: PING. *)

UpdateHeartbeat(c) ==
  /\ pc[c] = "idle" /\ line[c] = "PING"
  /\ line' = [line EXCEPT ![c] = "none"]
  /\ \/ /\ Registered(owner[c])
        /\ stale' = stale \ {owner[c]}
        /\ Goto(c, "slaves")
        /\ UNCHANGED reply
     \/ /\ ~ Registered(owner[c])
        /\ Answer(c, [kind |-> "ERROR", role |-> "none", slaves |-> {}])
        /\ UNCHANGED <<stale, pc>>
  /\ UNCHANGED <<workers, superNode, cmdTx, lastSlaves, nextPort,
                 link, owner, localVars, victim, doomed>>

\* check_slave_change reads the table, lets go of it ...
ReadSlaves(c) ==
  /\ pc[c] = "slaves"
  /\ seen' = [seen EXCEPT ![c] = SlaveAddrs]
  /\ Goto(c, "compare")
  /\ UNCHANGED <<registryVars, wireVars, role, port, registered, victim, doomed>>

\* Fault: an empty list is not remembered either.
CompareSlavesIfAny(c) ==
  /\ pc[c] = "compare"
  /\ lastSlaves' = IF seen[c] = {} THEN lastSlaves ELSE seen[c]
  /\ Answer(c, [kind   |-> "PONG", role |-> "none",
                slaves |-> IF seen[c] # lastSlaves THEN seen[c] ELSE {}])
  /\ seen' = [seen EXCEPT ![c] = {}]
  /\ Goto(c, "idle")
  /\ UNCHANGED <<workers, superNode, cmdTx, nextPort, stale,
                 link, owner, line, role, port, registered, victim, doomed>>

\* ... and then compares with the last list, whatever happened in between.
\* An empty list is remembered and not announced.
CompareSlaves(c) ==
  /\ pc[c] = "compare"
  /\ lastSlaves' = seen[c]
  /\ Answer(c, [kind   |-> "PONG", role |-> "none",
                slaves |-> IF seen[c] # lastSlaves THEN seen[c] ELSE {}])
  /\ seen' = [seen EXCEPT ![c] = {}]
  /\ Goto(c, "idle")
  /\ UNCHANGED <<workers, superNode, cmdTx, nextPort, stale,
                 link, owner, line, role, port, registered, victim, doomed>>

-----------------------------------------------------------------------------
(* The end of a connection, the checker, and unregister() for both. *)

\* Fault: the end of a connection does not unregister its worker.
ReadEofOnly(c) ==
  /\ link[c] = "lost" /\ pc[c] = "idle"
  /\ line' = [line EXCEPT ![c] = "none"]
  /\ registered' = [registered EXCEPT ![c] = FALSE]
  /\ Goto(c, "closed")
  /\ UNCHANGED <<registryVars, link, owner, reply, role, port, seen, victim, doomed>>

\* End of stream, or a read error, which may take a line with it.
ReadEof(c) ==
  /\ link[c] = "lost" /\ pc[c] = "idle"
  /\ line' = [line EXCEPT ![c] = "none"]
  /\ \/ /\ registered[c]
        /\ victim' = [victim EXCEPT ![c] = owner[c]]
        /\ Goto(c, "remove")
     \/ /\ ~ registered[c]
        /\ Goto(c, "closed")
        /\ UNCHANGED victim
  /\ registered' = [registered EXCEPT ![c] = FALSE]
  /\ UNCHANGED <<registryVars, link, owner, reply, role, port, seen, doomed>>

\* Fault: the holder of the slot is spared.
CheckerTickSparing ==
  /\ pc[Checker] = "idle"
  /\ doomed' = {w \in stale : Registered(w) /\ w # superNode}
  /\ doomed' # {}
  /\ Goto(Checker, "sweep")
  /\ UNCHANGED <<registryVars, wireVars, localVars, victim>>

\* A tick of the checker that finds someone: the snapshot it works from.
CheckerTick ==
  /\ pc[Checker] = "idle"
  /\ doomed' = {w \in stale : Registered(w)}
  /\ doomed' # {}
  /\ Goto(Checker, "sweep")
  /\ UNCHANGED <<registryVars, wireVars, localVars, victim>>

Evict(w) ==
  /\ pc[Checker] = "sweep"
  /\ w \in doomed
  /\ doomed' = doomed \ {w}
  /\ victim' = [victim EXCEPT ![Checker] = w]
  /\ Goto(Checker, "remove")
  /\ UNCHANGED <<registryVars, wireVars, localVars>>

CheckerDone ==
  /\ pc[Checker] = "sweep"
  /\ doomed = {}
  /\ Goto(Checker, "idle")
  /\ UNCHANGED <<registryVars, wireVars, localVars, victim, doomed>>

\* Where unregister returns to: the checker's loop, or the break.
Return(t) == IF t = Checker THEN "sweep" ELSE "closed"

RemoveWorker(t) ==
  /\ pc[t] = "remove"
  /\ workers' = [workers EXCEPT ![victim[t]] = NoNode]
  /\ stale' = stale \ {victim[t]}
  /\ Goto(t, "slot")
  /\ UNCHANGED <<superNode, cmdTx, lastSlaves, nextPort,
                 wireVars, localVars, victim, doomed>>

\* Fault: an eviction removes the worker from the table and nothing else.
ReleaseSlotAtEof(t) ==
  /\ pc[t] = "slot"
  /\ \/ /\ superNode = victim[t] /\ t # Checker
        /\ superNode' = None
        /\ Goto(t, "droptx")
        /\ UNCHANGED victim
     \/ /\ superNode # victim[t] \/ t = Checker
        /\ Goto(t, Return(t))
        /\ victim' = [victim EXCEPT ![t] = None]
        /\ UNCHANGED superNode
  /\ UNCHANGED <<workers, cmdTx, lastSlaves, nextPort, stale,
                 wireVars, localVars, doomed>>

ReleaseSlot(t) ==
  /\ pc[t] = "slot"
  /\ \/ /\ superNode = victim[t]
        /\ superNode' = None
        /\ Goto(t, "droptx")
        /\ UNCHANGED victim
     \/ /\ superNode # victim[t]
        /\ Goto(t, Return(t))
        /\ victim' = [victim EXCEPT ![t] = None]
        /\ UNCHANGED superNode
  /\ UNCHANGED <<workers, cmdTx, lastSlaves, nextPort, stale,
                 wireVars, localVars, doomed>>

DropCmdTx(t) ==
  /\ pc[t] = "droptx"
  /\ cmdTx' = None
  /\ Goto(t, Return(t))
  /\ victim' = [victim EXCEPT ![t] = None]
  /\ UNCHANGED <<workers, superNode, lastSlaves, nextPort, stale,
                 wireVars, localVars, doomed>>

-----------------------------------------------------------------------------
Register(c)   == \/ Elect(c) \/ Claim(c) \/ AllocatePort(c)
                 \/ Insert(c) \/ SetCmdTx(c) \/ SendInit(c)
Heartbeat(c)  == UpdateHeartbeat(c) \/ ReadSlaves(c) \/ CompareSlaves(c)
Unregister(t) == RemoveWorker(t) \/ ReleaseSlot(t) \/ DropCmdTx(t)
Sweep         == CheckerTick \/ CheckerDone \/ \E w \in Worker : Evict(w)

Environment == \/ \E c \in Conn, w \in Worker : Connect(c, w)
               \/ \E c \in Conn : SendPing(c) \/ LoseConn(c)
               \/ \E w \in Worker : Age(w)
Master      == \/ \E c \in Conn : Register(c) \/ Heartbeat(c) \/ ReadEof(c)
               \/ \E t \in Task : Unregister(t)
               \/ Sweep

Next == Environment \/ Master

Spec == Init /\ [][Next]_vars
-----------------------------------------------------------------------------
(* Properties. *)

Closing == {"remove", "slot", "droptx", "closed"}
Label   == {"idle", "claim", "port", "insert", "settx", "init",
            "slaves", "compare", "sweep"} \cup Closing

\* Every variable holds a value of the kind master.rs gives it.
TypeOK ==
  /\ workers    \in [Worker -> Node \cup {NoNode}]
  /\ superNode  \in Worker \cup {None}
  /\ cmdTx      \in Conn \cup {None}
  /\ lastSlaves \subseteq Conn
  /\ nextPort   \in Port
  /\ stale      \subseteq Worker
  /\ link       \in [Conn -> {"unused", "open", "lost"}]
  /\ owner      \in [Conn -> Worker \cup {None}]
  /\ line       \in [Conn -> {"none", "REGISTER", "PING"}]
  /\ reply      \in [Conn -> Reply]
  /\ pc         \in [Task -> Label]
  /\ role       \in [Conn -> Role \cup {"none"}]
  /\ port       \in [Conn -> Port \cup {0}]
  /\ seen       \in [Conn -> SUBSET Conn]
  /\ registered \in [Conn -> BOOLEAN]
  /\ victim     \in [Task -> Worker \cup {None}]
  /\ doomed     \subseteq Worker

\* The SuperNode slot never outlives its worker: whoever holds it is in the
\* table, or is about to be inserted by the handler that claimed it, or is
\* about to be released by an unregister() that has taken it from the table.
\* (Election and unregister() are several critical sections each, and those
\* of the checker, of an old connection and of a new one can interleave.)
Entering(w) == \E c \in Conn : pc[c] = "insert" /\ owner[c] = w /\ role[c] = "SuperNode"
Leaving(w)  == \E t \in Task : pc[t] = "slot" /\ victim[t] = w
NoDanglingSuperNode ==
  \A w \in Worker : superNode = w => Registered(w) \/ Entering(w) \/ Leaving(w)

\* A node of the table belongs to the connection it was registered on, by the
\* worker that opened it, and that connection's handler has not begun to
\* clean up: no address of a finished handler stays behind to be announced.
NodesHaveHandlers ==
  \A w \in Worker : Registered(w) =>
    LET c == workers[w].addr
    IN  owner[c] = w /\ (registered[c] \/ pc[c] = "remove")

\* No two registered workers are sent to the same relay port, however their
\* registrations interleave (allocate_tunnel_port, while it does not wrap).
DistinctPorts ==
  \A v, w \in Worker :
    v # w /\ workers[v].port # 0 => workers[v].port # workers[w].port
=============================================================================
