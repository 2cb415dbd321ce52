------------------------------- MODULE Relay --------------------------------
(***************************************************************************)
(* One port of the TCP relay (tunnel-relay.py) between the master's HTTP   *)
(* API and the reverse tunnels of workers (src/tunnel.rs).  A tunnel opens *)
(* a connection and says "E"; the relay's thread for it enters it under    *)
(* the port and waits on a condition.  The thread of an API connection     *)
(* finds the entry, leaves its connection there, passes on the byte it has *)
(* read and notifies; the worker's thread wakes up, bridges the two with a *)
(* thread for each direction, closes the API connection and waits again.   *)
(*                                                                         *)
(* The lock of the relay covers each step of the two handlers here, but    *)
(* not the time between registration and wait, nor the bridge.             *)
(*                                                                         *)
(* An API connection that no Python name refers to any more is closed, so  *)
(* serve_port's counts too: it refers to the last connection accepted on   *)
(* the port until the next one comes (latest).  handle_connection's is     *)
(* given up, here, with the lock: after that it only returns.              *)
(*                                                                         *)
(* A tunnel's connection may also be lost silently.  The relay sends no    *)
(* keepalives and waits for the worker without a limit: it hears of the    *)
(* loss at best once it has sent something (Notice), and maybe never.      *)
(*                                                                         *)
(* A request is two parts, the first byte and the rest; an answer is a     *)
(* head and a tail.                                                        *)
(***************************************************************************)
EXTENDS Sequences, Naturals

CONSTANTS WConn,    \* connections from tunnels
          AConn,    \* connections from the API, one per request
          Tunnel,   \* processes of the worker application
          None

ASSUME RelayAssumption == /\ None \notin WConn \cup AConn
                          /\ "error" \notin AConn

VARIABLES
  entry,    \* workers[port]
  api,      \* the "api" of each entry
  thread,   \* where the thread of each worker connection stands
  bridged,  \* the API connection it bridges
  flow,     \* what its two forwarding threads still do
  client,   \* state of each API connection
  latest,   \* the one the port has accepted last, if that is not a worker's
  got,      \* what its owner has read first
  closed,   \* worker connections the relay has closed
  shut,     \* those whose end the relay can read: nothing more comes
  gone,     \* those the tunnel has dropped, or lost
  broken,   \* those of which the relay has heard that, where sendall fails
  inbox,    \* parts on their way to the tunnel
  outbox,   \* parts on their way to the relay
  conn,     \* the connection each tunnel uses
  tunnel,   \* where run_reverse_tunnel stands
  llama,    \* its connection to llama-server
  request   \* what llama-server has read from it

relayVars  == <<entry, api, thread, bridged, flow, closed>>
clientVars == <<client, latest, got>>
endVars    == <<gone, conn, tunnel, llama, request>>
tunnelVars == <<shut, broken, endVars>>
vars == <<relayVars, clientVars, tunnelVars, inbox, outbox>>

Init ==
  /\ entry   = None
  /\ api     = [c \in WConn |-> None]
  /\ thread  = [c \in WConn |-> "unused"]
  /\ bridged = [c \in WConn |-> None]
  /\ flow    = [c \in WConn |-> {}]
  /\ client  = [a \in AConn |-> "unused"]
  /\ latest  = None
  /\ got     = [a \in AConn |-> None]
  /\ closed = {} /\ shut = {} /\ gone = {} /\ broken = {}
  /\ inbox   = [c \in WConn |-> <<>>]
  /\ outbox  = [c \in WConn |-> <<>>]
  /\ conn    = [t \in Tunnel |-> None]
  /\ tunnel  = [t \in Tunnel |-> "idle"]
  /\ llama   = [t \in Tunnel |-> "none"]
  /\ request = [t \in Tunnel |-> <<>>]

-----------------------------------------------------------------------------
(* handle_worker. *)

Goto(c, label) == thread' = [thread EXCEPT ![c] = label]

\* Takes the place, and closes the connection, of whoever was there.
Register(c) ==
  /\ thread[c] = "accepted"
  /\ closed' = closed \cup ({entry} \ {None})
  /\ entry'  = c
  /\ Goto(c, "registered")
  /\ UNCHANGED <<api, bridged, flow, clientVars, tunnelVars, inbox, outbox>>

Wait(c) ==
  /\ thread[c] = "registered"
  /\ Goto(c, "waiting")
  /\ UNCHANGED <<entry, api, bridged, flow, closed, clientVars, tunnelVars, inbox, outbox>>

\* Fault: the API connection is read from the entry and left in it.
WakeKeeping(c) ==
  /\ thread[c] = "notified"
  /\ bridged' = [bridged EXCEPT ![c] = api[c]]
  /\ flow'    = [flow EXCEPT ![c] = IF api[c] = None THEN {} ELSE {"rest", "down"}]
  /\ Goto(c, IF api[c] = None THEN "leaving" ELSE "bridging")
  /\ UNCHANGED <<entry, api, closed, clientVars, tunnelVars, inbox, outbox>>

\* Fault: the thread does not look whether there is an API connection.
WakeUnchecked(c) ==
  /\ thread[c] = "notified"
  /\ api'     = [api EXCEPT ![c] = None]
  /\ bridged' = [bridged EXCEPT ![c] = api[c]]
  /\ flow'    = [flow EXCEPT ![c] = {"rest", "down"}]
  /\ Goto(c, "bridging")
  /\ UNCHANGED <<entry, closed, clientVars, tunnelVars, inbox, outbox>>

Wake(c) ==
  /\ thread[c] = "notified"
  /\ api'     = [api EXCEPT ![c] = None]
  /\ bridged' = [bridged EXCEPT ![c] = api[c]]
  /\ flow'    = [flow EXCEPT ![c] = IF api[c] = None THEN {} ELSE {"rest", "down"}]
  /\ Goto(c, IF api[c] = None THEN "leaving" ELSE "bridging")
  /\ UNCHANGED <<entry, closed, clientVars, tunnelVars, inbox, outbox>>

\* Both directions have ended: the API connection is closed, and back to wait.
BridgeDone(c) ==
  /\ thread[c] = "bridging" /\ flow[c] = {}
  /\ client'  = [client EXCEPT ![bridged[c]] = "closed"]
  /\ bridged' = [bridged EXCEPT ![c] = None]
  /\ Goto(c, "registered")
  /\ UNCHANGED <<entry, api, flow, closed, latest, got, tunnelVars, inbox, outbox>>

\* Fault: the port's entry is deleted, whosever it is by now.
LeaveAny(c) ==
  /\ thread[c] = "leaving"
  /\ entry'  = None
  /\ closed' = closed \cup {c}
  /\ Goto(c, "ended")
  /\ UNCHANGED <<api, bridged, flow, clientVars, tunnelVars, inbox, outbox>>

Leave(c) ==
  /\ thread[c] = "leaving"
  /\ entry'  = IF entry = c THEN None ELSE entry
  /\ closed' = closed \cup {c}
  /\ Goto(c, "ended")
  /\ UNCHANGED <<api, bridged, flow, clientVars, tunnelVars, inbox, outbox>>

-----------------------------------------------------------------------------
(* serve_port and handle_connection. *)

Held(a) == \E c \in WConn : api[c] = a \/ bridged[c] = a

\* It is left in an entry, or bridged, or abandoned.
Open(a) == client[a] \in {"open", "left", "reset"}

\* serve_port's name goes over to another connection: the one it referred to
\* is closed, unless it is its handler's, left in an entry or bridged.
LetGo == [a \in AConn |-> IF a = latest /\ Open(a) /\ ~ Held(a) THEN "closed" ELSE client[a]]

\* Connections have no identity but their order.
Accept(a) ==
  /\ client[a] = "unused" /\ a = CHOOSE b \in AConn : client[b] = "unused"
  /\ latest' = a
  /\ client' = [LetGo EXCEPT ![a] = "accepted"]
  /\ UNCHANGED <<relayVars, got, tunnelVars, inbox, outbox>>

\* No first byte in 5 s, or an end instead of it.
Unheard(a) ==
  /\ client[a] = "accepted"
  /\ client' = [client EXCEPT ![a] = "closed"]
  /\ UNCHANGED <<relayVars, latest, got, tunnelVars, inbox, outbox>>

\* The API connection that an entry no longer refers to.
Forget(a) == IF a \in {None, latest} THEN client ELSE [client EXCEPT ![a] = "closed"]

\* handle_api, after the first byte.
HandleApi(a) ==
  /\ client[a] = "accepted"
  /\ \/ /\ entry = None
        /\ client' = [client EXCEPT ![a] = "closed"]
        /\ UNCHANGED <<api, thread, inbox>>
     \/ /\ entry # None /\ entry \notin broken
        /\ client' = [Forget(api[entry]) EXCEPT ![a] = "open"]
        /\ api'   = [api EXCEPT ![entry] = a]
        /\ inbox' = [inbox EXCEPT ![entry] = Append(@, <<a, "first">>)]
        /\ thread' = [thread EXCEPT ![entry] = IF @ = "waiting" THEN "notified" ELSE @]
     \/ /\ entry # None /\ entry \in broken        \* sendall raises
        /\ client' = [Forget(api[entry]) EXCEPT ![a] = "closed"]
        /\ api' = [api EXCEPT ![entry] = None]
        /\ UNCHANGED <<thread, inbox>>
  /\ UNCHANGED <<entry, bridged, flow, closed, latest, got, tunnelVars, outbox>>

\* The caller goes away, or has read what it wanted.
ClientLeaves(a) ==
  /\ client[a] = "open"
  /\ client' = [client EXCEPT ![a] = "left"]
  /\ UNCHANGED <<relayVars, latest, got, tunnelVars, inbox, outbox>>

-----------------------------------------------------------------------------
(* The bridge: one thread forwards the rest of the request and then waits  *)
(* for more, the other forwards the answer.                                *)

Stops(c, S) == flow' = [flow EXCEPT ![c] = @ \ S]

ForwardRest(c) ==
  /\ "rest" \in flow[c]
  /\ \/ /\ c \notin closed \cup broken
        /\ inbox' = [inbox EXCEPT ![c] = Append(@, <<bridged[c], "rest">>)]
        /\ flow'  = [flow EXCEPT ![c] = (@ \ {"rest"}) \cup {"up"}]
     \/ /\ c \in closed \cup broken         \* sendall raises
        /\ Stops(c, {"rest"})
        /\ UNCHANGED inbox
  /\ UNCHANGED <<entry, api, thread, bridged, closed, clientVars, tunnelVars, outbox>>

\* Fault: the API connection is made blocking, as the worker's is.
UpEndsWithClient(c) ==
  /\ "up" \in flow[c]
  /\ client[bridged[c]] # "open"
  /\ Stops(c, {"up"})
  /\ UNCHANGED <<entry, api, thread, bridged, closed, clientVars, tunnelVars, inbox, outbox>>

\* The API sends no more: its connection ends, or the 5 s that
\* handle_connection has set on it go by.
UpEnds(c) ==
  /\ "up" \in flow[c]
  /\ Stops(c, {"up"})
  /\ UNCHANGED <<entry, api, thread, bridged, closed, clientVars, tunnelVars, inbox, outbox>>

\* The first bytes sent after the other end has left are still accepted, and
\* provoke the reset that makes a later sendall fail.  To a caller that is
\* there but does not read, sendall fails as well, after the 5 s: what comes
\* after that part is left in the connection.
Deliver(c) ==
  LET a == bridged[c]  part == Head(outbox[c])
  IN  /\ "down" \in flow[c] /\ outbox[c] # <<>>
      /\ outbox' = [outbox EXCEPT ![c] = Tail(@)]
      /\ got' = IF client[a] = "open" /\ got[a] = None
                THEN [got EXCEPT ![a] = IF part[2] = "head" THEN part[1] ELSE "error"]
                ELSE got
      /\ client' = [client EXCEPT ![a] = IF @ = "left" THEN "reset" ELSE @]
      /\ UNCHANGED flow \/ (client[a] \in {"open", "reset"} /\ Stops(c, {"down"}))
      /\ UNCHANGED <<entry, api, thread, bridged, closed, latest, tunnelVars, inbox>>

\* Fault: the other direction ends as soon as the API's end is seen.
DownEndsWithClient(c) ==
  /\ "down" \in flow[c]
  /\ \/ outbox[c] = <<>> /\ c \in shut
     \/ client[bridged[c]] = "left"
  /\ Stops(c, {"down"})
  /\ UNCHANGED <<entry, api, thread, bridged, closed, clientVars, tunnelVars, inbox, outbox>>

DownEnds(c) ==
  /\ "down" \in flow[c]
  /\ outbox[c] = <<>> /\ c \in shut
  /\ Stops(c, {"down"})
  /\ UNCHANGED <<entry, api, thread, bridged, closed, clientVars, tunnelVars, inbox, outbox>>

\* Replaced by another worker while it bridged: the next recv raises (one
\* that has already begun still waits for what the tunnel sends).
DownBreaks(c) ==
  /\ "down" \in flow[c] /\ c \in closed
  /\ Stops(c, {"down"})
  /\ UNCHANGED <<entry, api, thread, bridged, closed, clientVars, tunnelVars, inbox, outbox>>

-----------------------------------------------------------------------------
(* run_reverse_tunnel and llama-server. *)

\* serve_port accepts it, and lets go of the connection it accepted before.
Connect(t, c) ==
  /\ tunnel[t] = "idle"
  /\ thread[c] = "unused" /\ c = CHOOSE d \in WConn : thread[d] = "unused"
  /\ Goto(c, "accepted")
  /\ latest' = None
  /\ client' = LetGo
  /\ conn'   = [conn   EXCEPT ![t] = c]
  /\ tunnel' = [tunnel EXCEPT ![t] = "reading"]
  /\ UNCHANGED <<entry, api, bridged, flow, closed, got, shut, broken, gone, llama, request,
                 inbox, outbox>>

\* Both ends of the tunnel are no more.
Lose(t) ==
  /\ gone'    = gone \cup {conn[t]}
  /\ conn'    = [conn    EXCEPT ![t] = None]
  /\ tunnel'  = [tunnel  EXCEPT ![t] = "idle"]
  /\ llama'   = [llama   EXCEPT ![t] = "none"]
  /\ request' = [request EXCEPT ![t] = <<>>]
  /\ UNCHANGED broken

\* The connection goes out of scope and is closed, which the relay can read.
Drop(t) == Lose(t) /\ shut' = shut \cup {conn[t]}

Take(t) == inbox' = [inbox EXCEPT ![conn[t]] = Tail(@)]

\* The first byte is there: connect to llama-server, and pass it on.
ReadFirst(t) ==
  /\ tunnel[t] = "reading" /\ inbox[conn[t]] # <<>>
  /\ Take(t)
  /\ \/ /\ tunnel'  = [tunnel  EXCEPT ![t] = "copying"]
        /\ llama'   = [llama   EXCEPT ![t] = "open"]
        /\ request' = [request EXCEPT ![t] = <<Head(inbox[conn[t]])>>]
        /\ UNCHANGED <<shut, broken, gone, conn>>
     \/ Drop(t)                             \* llama-server is not there
  /\ UNCHANGED <<relayVars, clientVars, outbox>>

\* copy_bidirectional, to llama-server.  Once that has closed its end, what
\* is written is lost, and sooner or later the write fails.
CopyIn(t) ==
  /\ tunnel[t] = "copying" /\ inbox[conn[t]] # <<>>
  /\ Take(t)
  /\ \/ /\ llama[t] # "closed"
        /\ request' = [request EXCEPT ![t] = Append(@, Head(inbox[conn[t]]))]
        /\ UNCHANGED <<shut, broken, gone, conn, tunnel, llama>>
     \/ llama[t] = "closed" /\ (Drop(t) \/ UNCHANGED tunnelVars)
  /\ UNCHANGED <<relayVars, clientVars, outbox>>

\* llama-server answers a request, or what it takes for one ...
Whole(q)  == Len(q) > 1
Answer(q) == IF q[2] = <<q[1][1], "rest">> THEN q[1][1] ELSE "error"

AnswerBegins(t) ==
  /\ llama[t] = "open" /\ Whole(request[t])
  /\ outbox' = [outbox EXCEPT ![conn[t]] = Append(@, <<Answer(request[t]), "head">>)]
  /\ llama'  = [llama EXCEPT ![t] = "answering"]
  /\ UNCHANGED <<relayVars, clientVars, shut, broken, gone, conn, tunnel, request, inbox>>

\* ... and closes ("Connection: close"); the tunnel shuts its half down and
\* keeps on copying in the other direction.
AnswerEnds(t) ==
  /\ llama[t] = "answering"
  /\ outbox' = [outbox EXCEPT ![conn[t]] = Append(@, <<Answer(request[t]), "tail">>)]
  /\ shut'   = shut \cup {conn[t]}
  /\ llama'  = [llama EXCEPT ![t] = "closed"]
  /\ request' = [request EXCEPT ![t] = <<>>]
  /\ UNCHANGED <<relayVars, clientVars, broken, gone, conn, tunnel, inbox>>

\* llama-server gives up, minutes later, on a request whose rest does not come.
Coming(c) == thread[c] = "notified" \/ "rest" \in flow[c] \/ inbox[c] # <<>>
GiveUp(t) ==
  /\ llama[t] = "open" /\ ~ Whole(request[t])
  /\ ~ Coming(conn[t])
  /\ shut'  = shut \cup {conn[t]}
  /\ llama' = [llama EXCEPT ![t] = "closed"]
  /\ request' = [request EXCEPT ![t] = <<>>]
  /\ UNCHANGED <<relayVars, clientVars, broken, gone, conn, tunnel, inbox, outbox>>

\* The relay has closed the connection and the tunnel has no more to copy.
SeeEnd(t) ==
  /\ conn[t] \in closed /\ inbox[conn[t]] = <<>> /\ "down" \notin flow[conn[t]]
  /\ tunnel[t] = "reading" \/ llama[t] = "closed"
  /\ Drop(t)
  /\ UNCHANGED <<relayVars, clientVars, inbox, outbox>>

\* The connection is reset, or the application ends.
Break(t) ==
  /\ tunnel[t] # "idle"
  /\ Drop(t)
  /\ UNCHANGED <<relayVars, clientVars, inbox, outbox>>

\* The machine, or the way to it, is lost without a word.  (A loss of what it
\* has sent last, too, is one that comes before it sends that.)
Vanish(t) ==
  /\ tunnel[t] # "idle"
  /\ Lose(t)
  /\ UNCHANGED <<relayVars, clientVars, shut, inbox, outbox>>

\* What the relay has sent is never read: it is answered by a reset, or never
\* acknowledged, and some day that ends the connection on the relay's side.
Notice(c) ==
  /\ c \in gone \ broken /\ inbox[c] # <<>>
  /\ broken' = broken \cup {c}
  /\ shut'   = shut \cup {c}
  /\ UNCHANGED <<relayVars, clientVars, endVars, inbox, outbox>>

-----------------------------------------------------------------------------
Bridging(c)  == ForwardRest(c) \/ UpEnds(c) \/ Deliver(c) \/ DownEnds(c) \/ BridgeDone(c)
Handling(c)  == Register(c) \/ Wait(c) \/ Wake(c) \/ Leave(c)
Handle(a)    == Unheard(a) \/ HandleApi(a)
Tunneling(t) == ReadFirst(t) \/ CopyIn(t) \/ SeeEnd(t)
Serving(t)   == AnswerBegins(t) \/ AnswerEnds(t) \/ GiveUp(t)
Ending(t)    == Break(t) \/ Vanish(t)

Next == \/ \E c \in WConn : Handling(c) \/ Bridging(c) \/ DownBreaks(c) \/ Notice(c)
        \/ \E a \in AConn : Accept(a) \/ Handle(a) \/ ClientLeaves(a)
        \/ \E t \in Tunnel : \/ Tunneling(t) \/ Serving(t) \/ Ending(t)
                             \/ \E c \in WConn : Connect(t, c)

(* Threads run, and so do the tunnel and llama-server.  Nothing obliges    *)
(* anybody to connect, to leave or to break off, nor the relay to hear of  *)
(* a tunnel that is lost.                                                  *)
Fairness == /\ \A c \in WConn : WF_vars(Handling(c)) /\ WF_vars(ForwardRest(c))
                                /\ WF_vars(UpEnds(c)) /\ WF_vars(Deliver(c) \/ DownEnds(c))
                                /\ WF_vars(BridgeDone(c))
            /\ \A a \in AConn : WF_vars(Handle(a))
            /\ \A t \in Tunnel : WF_vars(Tunneling(t)) /\ WF_vars(Serving(t))

Spec     == Init /\ [][Next]_vars
FairSpec == Spec /\ Fairness
-----------------------------------------------------------------------------
(* Properties. *)

Parts   == AConn \X {"first", "rest"}
Answers == (AConn \cup {"error"}) \X {"head", "tail"}

Kinds ==
  /\ entry   \in WConn \cup {None}
  /\ api     \in [WConn -> AConn \cup {None}]
  /\ thread  \in [WConn -> {"unused", "accepted", "registered", "waiting", "notified",
                            "bridging", "leaving", "ended"}]
  /\ bridged \in [WConn -> AConn \cup {None}]
  /\ flow    \in [WConn -> SUBSET {"rest", "up", "down"}]
  /\ client  \in [AConn -> {"unused", "accepted", "open", "left", "reset", "closed"}]
  /\ latest  \in AConn \cup {None}
  /\ got     \in [AConn -> AConn \cup {None, "error"}]
  /\ closed \subseteq WConn /\ shut \subseteq WConn /\ gone \subseteq WConn /\ broken \subseteq WConn
  /\ inbox   \in [WConn -> Seq(Parts)]
  /\ outbox  \in [WConn -> Seq(Answers)]
  /\ conn    \in [Tunnel -> WConn \cup {None}]
  /\ tunnel  \in [Tunnel -> {"idle", "reading", "copying"}]
  /\ llama   \in [Tunnel -> {"none", "open", "answering", "closed"}]
  /\ request \in [Tunnel -> Seq(Parts)]

\* A thread that bridges has an API connection to bridge, and no other has.
TypeOK == Kinds /\ \A c \in WConn : thread[c] = "bridging" <=> bridged[c] # None

\* A worker's thread that is at the service of the API is found under its
\* port, unless a later worker has taken the place: the clean-up of a thread
\* that leaves does not remove the entry of the one that came after it.
ServingIsRegistered ==
  \A c \in WConn : thread[c] \in {"registered", "waiting", "notified", "bridging"}
                     => entry = c \/ c \in closed

\* An API connection that is left in an entry or bridged is open, is so in one
\* place only, and no thread that has ended has one in its entry.  Of those
\* that are in no hand any more - they have been overwritten - at most one
\* stays open, the last that serve_port has accepted, until it accepts again.
HeldOnce ==
  /\ \A a \in AConn : Held(a) => Open(a)
  /\ \A a \in AConn : Open(a) => Held(a) \/ a = latest
  /\ \A c \in WConn : thread[c] \in {"unused", "accepted", "ended"} => api[c] = None
  /\ \A c, d \in WConn : /\ api[c] # None => api[c] # bridged[d]
                         /\ c # d /\ api[c] # None => api[c] # api[d]
                         /\ c # d /\ bridged[c] # None => bridged[c] # bridged[d]

\* However callers leave, are overwritten and share a worker's connection one
\* after the other, what a caller takes for its answer is the answer to its
\* own request and to no other.
OwnAnswer == \A a \in AConn : got[a] \in {None, "error", a}

\* Every bridge ends, so that the worker is free again and the API sees the
\* end of the answer, unless the worker is lost and the relay has not heard of
\* it: its recv on the worker's connection has no limit, so that such a bridge
\* may stay.  In all others, whoever leaves and in whatever order, the 5 s that
\* handle_connection has left on the API connection are what gets the thread
\* that waits for the API out of its recv.
Unnoticed(c) == c \in gone \ shut
BridgesEnd ==
  \A c \in WConn : thread[c] = "bridging" ~> thread[c] # "bridging" \/ Unnoticed(c)

\* "API request: sends magic byte to worker and signals it to bridge": an API
\* connection the relay has accepted is served or closed in the end.
RequestsEnd == \A a \in AConn : client[a] = "open" ~> client[a] # "open"
=============================================================================
