--------------------------------- MODULE Swarm --------------------------------
(***************************************************************************)
(* The registry of the master (Registry) composed with what the workers'   *)
(* applications make of its answers (src/client.rs, and run_worker of      *)
(* src-tauri/src/main.rs).  The first INIT_MODEL that an application can   *)
(* act on decides what it runs until its process ends: the channel to      *)
(* run_worker is used once, and what a later registration says is read     *)
(* and not applied.  A list of slaves is for the llama-server of a         *)
(* SuperNode; any other application hands it to a channel nobody reads.    *)
(*                                                                         *)
(* Worker shows how one application carries out what it is told here, and  *)
(* Heartbeat how the lines of an answer reach it.                          *)
(***************************************************************************)
EXTENDS Registry

VARIABLES
  runs,   \* what each application runs, and the connection that told it so
  chain   \* the slaves its llama-server was last told to use

appVars   == <<runs, chain>>
swarmVars == <<vars, appVars>>

Nothing == [role |-> "none", conn |-> None]
Running == [role : Role, conn : Conn]

SwarmInit == /\ Init
             /\ runs  = [w \in Worker |-> Nothing]
             /\ chain = [w \in Worker |-> {}]

Unnoticed(A) == A /\ UNCHANGED appVars
IsSuper(w)   == runs[w].role = "SuperNode"
-----------------------------------------------------------------------------
(* start_master_connection. *)

\* INIT_MODEL has been read and, by a SuperNode, the model downloaded: the
\* configuration goes to run_worker, if none has gone before.
BecomeReady(c) ==
  LET w == owner[c]
  IN  /\ Live(c) /\ reply[c].kind = "INIT"
      /\ runs[w] = Nothing
      /\ runs' = [runs EXCEPT ![w] = [role |-> reply[c].role, conn |-> c]]
      /\ UNCHANGED <<vars, chain>>

\* The UPDATE_SLAVES after a PONG has reached handle_slave_updates.
HandleUpdate(c) ==
  LET w == owner[c]
  IN  /\ Live(c) /\ IsSuper(w)
      /\ reply[c].slaves \notin {{}, chain[w]}
      /\ chain' = [chain EXCEPT ![w] = reply[c].slaves]
      /\ UNCHANGED <<vars, runs>>

\* The next PING follows when the answer before it has been dealt with.
NextPing(c) ==
  LET w == owner[c]
  IN  /\ Live(c) /\ runs[w] # Nothing
      /\ IsSuper(w) => reply[c].slaves \in {{}, chain[w]}
      /\ SendPing(c)
      /\ UNCHANGED appVars

Application(c) == BecomeReady(c) \/ HandleUpdate(c) \/ NextPing(c)
Network        == \/ \E c \in Conn, w \in Worker : Connect(c, w)
                  \/ \E c \in Conn : LoseConn(c)
                  \/ \E w \in Worker : Age(w)

SwarmNext == \/ \E c \in Conn : Application(c)
             \/ Unnoticed(Network \/ Master)

(* Tasks of the master get to run. An application deals with what it is    *)
(* sent and goes on pinging while its connection is up. 120 s do go by for *)
(* a worker that has no connection. Nothing obliges a worker to connect,   *)
(* and nothing obliges the network to report that a connection broke: no   *)
(* fairness on Connect, LoseConn and ReadEof.                              *)
SwarmFairness ==
  /\ \A c \in Conn : WF_swarmVars(Application(c))
  /\ \A c \in Conn : WF_swarmVars(Unnoticed(Register(c) \/ Heartbeat(c)))
  /\ \A t \in Task : WF_swarmVars(Unnoticed(Unregister(t)))
  /\ WF_swarmVars(Unnoticed(Sweep))
  /\ \A w \in Worker : WF_swarmVars(Unnoticed(Age(w) /\ ~ Connected(w)))

SwarmSpec     == SwarmInit /\ [][SwarmNext]_swarmVars
FairSwarmSpec == SwarmSpec /\ SwarmFairness
-----------------------------------------------------------------------------
(* Properties. *)

\* As long as a worker is in the table by the registration that told its
\* application what to run, the two agree: neither a double election, nor the
\* clean-up of another connection, nor the checker comes between the role that
\* is inserted and the one that is announced.  By a later registration they
\* may differ: its INIT_MODEL is not acted on.
RolesAgree ==
  \A w \in Worker :
    runs[w] # Nothing /\ Registered(w) /\ workers[w].addr = runs[w].conn
      => workers[w].role = runs[w].role

\* Whatever lists PINGs put back and however workers come and go, a machine
\* in the chain of a llama-server runs the RPC server of a GPU provider, or
\* nothing yet, unless it has registered more than once and acted on another
\* registration than the one its address in the chain is of.  That exception
\* is real: the SuperNode that comes back while it still holds the slot is made
\* GPU provider in the table (src/master.rs:469), goes on as SuperNode, and a
\* PING of its own may then chain it to its own new address.
ToldElsewhere(v, c) == \E d \in Conn \ {c} : owner[d] = v /\ runs[v].conn = d
ChainsAreOfProviders ==
  \A w \in Worker : \A c \in chain[w] :
    \E v \in Worker : /\ owner[c] = v
                      /\ runs[v].role \in {"none", "GpuProvider"} \/ ToldElsewhere(v, c)

\* A worker that lost its connection without the master hearing of it stays
\* neither in the table nor in the SuperNode slot, unless it comes back: the
\* heartbeat checker removes it from both.
LostWorkersAreForgotten ==
  \A w \in Worker : Registered(w) \/ superNode = w
                      ~> Connected(w) \/ (~ Registered(w) /\ superNode # w)

\* check_slave_change compares with a list read earlier, so two PINGs can put
\* an old list back; as long as some registered worker pings, the list the
\* master goes by is again and again that of its current GPU providers.
Beating(c) == c \in Pinging /\ Live(c) /\ Registered(owner[c])
SlaveListConverges ==
  []<>(lastSlaves = SlaveAddrs \/ \A c \in Conn : ~ Beating(c))

\* "Escucha cambios en la lista de esclavos RPC (desde el Maestro vía
\* UPDATE_SLAVES) y relanza llama-server con la nueva cadena": a SuperNode
\* whose connection stays up comes to use the GPU providers there are.
SuperNodeChains ==
  \A w \in Worker : IsSuper(w) /\ Connected(w)
                      ~> ~ Connected(w) \/ chain[w] = SlaveAddrs
=============================================================================
