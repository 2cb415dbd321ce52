---------------------------- MODULE RelayProofs -----------------------------
(***************************************************************************)
(* Relay, proved for any number of tunnels, connections and requests: its  *)
(* types, that a worker's thread at the service of the API can be found,   *)
(* that no API connection is in two hands, and at most the last one in     *)
(* none, and that nobody takes the answer to another's request for its     *)
(* own.                                                                    *)
(***************************************************************************)
EXTENDS Relay, TLAPS, SequenceTheorems

\* What the labels say of the rest: a thread bridges an API connection or none,
\* and a tunnel that is not idle has a connection; llama-server answers whole requests only.
Standing ==
  /\ \A c \in WConn : /\ bridged[c] # None <=> thread[c] = "bridging"
                      /\ flow[c] # {} => thread[c] = "bridging"
  /\ \A t \in Tunnel : /\ tunnel[t] # "idle" => conn[t] \in WConn
                       /\ llama[t] # "none" => tunnel[t] = "copying"
                       /\ llama[t] = "answering" => Whole(request[t])

\* A thread that is on its way out, for want of an API connection, is so
\* because sendall has failed, as it will again: nobody leaves one in its entry
\* any more.  And the port's entry is that of a thread that has registered.
Failing ==
  /\ \A c \in WConn : thread[c] = "leaving" \/ (thread[c] = "notified" /\ api[c] = None)
                       => c \in broken /\ api[c] = None
  /\ entry # None => thread[entry] \notin {"unused", "accepted", "ended"}

IInv == Kinds /\ Standing /\ Failing /\ ServingIsRegistered /\ HeldOnce

LEMMA InitInv == Init => IInv
<1> SUFFICES ASSUME Init PROVE IInv
  OBVIOUS
<1> USE DEF Init
<1>1. Kinds
  BY DEF Kinds, Parts, Answers
<1>2. Standing /\ Failing /\ ServingIsRegistered
  BY DEF Standing, Failing, ServingIsRegistered
<1>3. HeldOnce
  BY RelayAssumption DEF HeldOnce, Held, Open
<1>4. QED
  BY <1>1, <1>2, <1>3 DEF IInv

\* Sequences of parts stay sequences of parts.
LEMMA Streams ==
  ASSUME NEW S, NEW q \in Seq(S)
  PROVE  /\ \A x \in S : Append(q, x) \in Seq(S)
         /\ q # <<>> => Head(q) \in S /\ Tail(q) \in Seq(S)
         /\ Len(q) > 1 => q[1] \in S /\ q[2] \in S
OBVIOUS

\* llama-server answers somebody, or with an error.
LEMMA AnswerTyped ==
  ASSUME NEW q \in Seq(Parts), Whole(q)
  PROVE  Answer(q) \in AConn \cup {"error"}
<1>1. q[1] \in Parts
  BY Streams DEF Whole
<1>2. QED
  BY <1>1 DEF Answer, Parts

\* A step that may overwrite the API connection of the entry keeps the types.
LEMMA HandleApiTyped ==
  ASSUME Kinds, NEW a \in AConn, HandleApi(a)
  PROVE  Kinds'
<1>1. UNCHANGED <<entry, bridged, flow, closed, latest, got, tunnelVars, outbox>>
  BY DEF HandleApi
<1>2. inbox' \in [WConn -> Seq(Parts)]
  <2>1. inbox \in [WConn -> Seq(Parts)] /\ <<a, "first">> \in Parts
    BY DEF Kinds, Parts
  <2>2. inbox' = inbox \/ inbox' = [inbox EXCEPT ![entry] = Append(@, <<a, "first">>)]
    BY DEF HandleApi
  <2>3. \A c \in WConn : Append(inbox[c], <<a, "first">>) \in Seq(Parts)
    BY <2>1, Streams
  <2>4. QED
    BY <2>1, <2>2, <2>3
<1>3. client' \in [AConn -> {"unused", "accepted", "open", "left", "reset", "closed"}]
  <2>1. client \in [AConn -> {"unused", "accepted", "open", "left", "reset", "closed"}]
    BY DEF Kinds
  <2>2. Forget(api[entry]) \in [AConn -> {"unused", "accepted", "open", "left", "reset", "closed"}]
    BY <2>1 DEF Forget
  <2>3. \/ client' = [client EXCEPT ![a] = "closed"]
        \/ client' = [Forget(api[entry]) EXCEPT ![a] = "open"]
        \/ client' = [Forget(api[entry]) EXCEPT ![a] = "closed"]
    BY DEF HandleApi
  <2>4. QED
    BY <2>1, <2>2, <2>3
<1>4. api' \in [WConn -> AConn \cup {None}]
  <2>1. api \in [WConn -> AConn \cup {None}]
    BY DEF Kinds
  <2>2. \/ api' = api
        \/ api' = [api EXCEPT ![entry] = a]
        \/ api' = [api EXCEPT ![entry] = None]
    BY DEF HandleApi
  <2>3. QED
    BY <2>1, <2>2
<1>5. thread' \in [WConn -> {"unused", "accepted", "registered", "waiting", "notified",
                            "bridging", "leaving", "ended"}]
  <2>1. thread \in [WConn -> {"unused", "accepted", "registered", "waiting", "notified",
                             "bridging", "leaving", "ended"}]
    BY DEF Kinds
  <2>2. \/ thread' = thread
        \/ thread' = [thread EXCEPT ![entry] = IF @ = "waiting" THEN "notified" ELSE @]
    BY DEF HandleApi
  <2>3. QED
    BY <2>1, <2>2
<1>6. QED
  BY <1>1, <1>2, <1>3, <1>4, <1>5 DEF Kinds, tunnelVars, endVars

\* Connections that are let go of are closed, and others stay as they are.
LEMMA LetGoTyped ==
  ASSUME Kinds
  PROVE  LetGo \in [AConn -> {"unused", "accepted", "open", "left", "reset", "closed"}]
BY DEF LetGo, Kinds

\* What a tunnel takes from its connection, and what it leaves there.
LEMMA TakenTyped ==
  ASSUME Kinds, NEW t \in Tunnel, conn[t] \in WConn, inbox[conn[t]] # <<>>, Take(t)
  PROVE  Head(inbox[conn[t]]) \in Parts /\ inbox' \in [WConn -> Seq(Parts)]
<1>1. inbox \in [WConn -> Seq(Parts)] /\ inbox[conn[t]] \in Seq(Parts)
  BY DEF Kinds
<1>2. Head(inbox[conn[t]]) \in Parts /\ Tail(inbox[conn[t]]) \in Seq(Parts)
  BY <1>1, Streams
<1>3. QED
  BY <1>1, <1>2 DEF Take

\* What Kinds says of the tunnels.
TunnelTyped ==
  /\ shut \subseteq WConn /\ gone \subseteq WConn /\ broken \subseteq WConn
  /\ conn    \in [Tunnel -> WConn \cup {None}]
  /\ tunnel  \in [Tunnel -> {"idle", "reading", "copying"}]
  /\ llama   \in [Tunnel -> {"none", "open", "answering", "closed"}]
  /\ request \in [Tunnel -> Seq(Parts)]

\* A tunnel that lets go of its connection keeps its types.
LEMMA DropTyped ==
  ASSUME Kinds, NEW t \in Tunnel, conn[t] \in WConn, Drop(t)
  PROVE  TunnelTyped'
<1>1. <<>> \in Seq(Parts)
  OBVIOUS
<1>2. QED
  BY <1>1 DEF Kinds, Drop, Lose, TunnelTyped

LEMMA ReadFirstTyped ==
  ASSUME Kinds, NEW t \in Tunnel, conn[t] \in WConn, ReadFirst(t)
  PROVE  Kinds'
<1>1. Head(inbox[conn[t]]) \in Parts /\ inbox' \in [WConn -> Seq(Parts)]
  BY TakenTyped DEF ReadFirst
<1>2. TunnelTyped'
  <2>1. CASE Drop(t)
    BY <2>1, DropTyped
  <2>2. CASE ~ Drop(t)
    <3>1. <<Head(inbox[conn[t]])>> \in Seq(Parts)
      BY <1>1
    <3>2. /\ tunnel'  = [tunnel  EXCEPT ![t] = "copying"]
          /\ llama'   = [llama   EXCEPT ![t] = "open"]
          /\ request' = [request EXCEPT ![t] = <<Head(inbox[conn[t]])>>]
          /\ UNCHANGED <<shut, broken, gone, conn>>
      BY <2>2 DEF ReadFirst
    <3>3. QED
      BY <3>1, <3>2 DEF Kinds, TunnelTyped
  <2>3. QED
    BY <2>1, <2>2
<1>3. UNCHANGED <<relayVars, clientVars, outbox>>
  BY DEF ReadFirst
<1>4. QED
  BY <1>1, <1>2, <1>3 DEF Kinds, TunnelTyped, relayVars, clientVars

LEMMA CopyInTyped ==
  ASSUME Kinds, NEW t \in Tunnel, conn[t] \in WConn, CopyIn(t)
  PROVE  Kinds'
<1>1. Head(inbox[conn[t]]) \in Parts /\ inbox' \in [WConn -> Seq(Parts)]
  BY TakenTyped DEF CopyIn
<1>2. TunnelTyped'
  <2>1. CASE Drop(t)
    BY <2>1, DropTyped
  <2>2. CASE UNCHANGED tunnelVars
    BY <2>2 DEF Kinds, TunnelTyped, tunnelVars, endVars
  <2>3. CASE /\ request' = [request EXCEPT ![t] = Append(@, Head(inbox[conn[t]]))]
             /\ UNCHANGED <<shut, broken, gone, conn, tunnel, llama>>
    <3>1. request \in [Tunnel -> Seq(Parts)]
      BY DEF Kinds
    <3>2. Append(request[t], Head(inbox[conn[t]])) \in Seq(Parts)
      BY <1>1, <3>1, Streams
    <3>3. QED
      BY <2>3, <3>1, <3>2 DEF Kinds, TunnelTyped
  <2>4. QED
    BY <2>1, <2>2, <2>3 DEF CopyIn
<1>3. UNCHANGED <<relayVars, clientVars, outbox>>
  BY DEF CopyIn
<1>4. QED
  BY <1>1, <1>2, <1>3 DEF Kinds, TunnelTyped, relayVars, clientVars

LEMMA StopsTyped ==
  ASSUME Kinds, NEW c \in WConn, NEW S, Stops(c, S)
  PROVE  flow' \in [WConn -> SUBSET {"rest", "up", "down"}]
<1>1. flow \in [WConn -> SUBSET {"rest", "up", "down"}]
  BY DEF Kinds
<1>2. flow[c] \ S \in SUBSET {"rest", "up", "down"}
  BY <1>1
<1>3. QED
  BY <1>1, <1>2 DEF Stops

LEMMA TypeStep == Kinds /\ Standing /\ [Next]_vars => Kinds'
<1> SUFFICES ASSUME Kinds, Standing, [Next]_vars PROVE Kinds'
  OBVIOUS
<1> USE DEF Kinds, Standing, relayVars, clientVars, tunnelVars, endVars, Goto, Forget, Stops, Drop, Lose, Take
<1>1. ASSUME NEW c \in WConn, Register(c) PROVE Kinds'
  BY <1>1 DEF Register
<1>2. ASSUME NEW c \in WConn, Wait(c) PROVE Kinds'
  BY <1>2 DEF Wait
<1>3. ASSUME NEW c \in WConn, Wake(c) PROVE Kinds'
  BY <1>3 DEF Wake
<1>4. ASSUME NEW c \in WConn, Leave(c) PROVE Kinds'
  BY <1>4 DEF Leave
<1>5. ASSUME NEW c \in WConn, ForwardRest(c) PROVE Kinds'
  <2>1. <<bridged[c], "rest">> \in Parts
    BY <1>5 DEF ForwardRest, Parts
  <2>2. Append(inbox[c], <<bridged[c], "rest">>) \in Seq(Parts)
    BY <2>1, Streams
  <2>3. CASE /\ inbox' = [inbox EXCEPT ![c] = Append(@, <<bridged[c], "rest">>)]
             /\ flow'  = [flow EXCEPT ![c] = (@ \ {"rest"}) \cup {"up"}]
    <3>1. inbox' \in [WConn -> Seq(Parts)]
      BY <2>2, <2>3
    <3>2. (flow[c] \ {"rest"}) \cup {"up"} \in SUBSET {"rest", "up", "down"}
      OBVIOUS
    <3>3. flow' \in [WConn -> SUBSET {"rest", "up", "down"}]
      BY <2>3, <3>2
    <3>4. QED
      BY <1>5, <3>1, <3>3 DEF ForwardRest
  <2>4. CASE Stops(c, {"rest"}) /\ UNCHANGED inbox
    BY <1>5, <2>4 DEF ForwardRest
  <2>5. QED
    BY <1>5, <2>3, <2>4 DEF ForwardRest
<1>6. ASSUME NEW c \in WConn, UpEnds(c) PROVE Kinds'
  BY <1>6 DEF UpEnds
<1>7. ASSUME NEW c \in WConn, Deliver(c) PROVE Kinds'
  <2>1. outbox[c] \in Seq(Answers) /\ outbox[c] # <<>>
    BY <1>7 DEF Deliver
  <2>2. Head(outbox[c]) \in Answers /\ Tail(outbox[c]) \in Seq(Answers)
    BY <2>1, Streams
  <2>3. Head(outbox[c])[1] \in AConn \cup {"error"}
    BY <2>2 DEF Answers
  <2>4. bridged[c] \in AConn
    BY <1>7 DEF Deliver
  <2>5. outbox' \in [WConn -> Seq(Answers)]
    BY <1>7, <2>2 DEF Deliver
  <2>6. got' \in [AConn -> AConn \cup {None, "error"}]
    BY <1>7, <2>3, <2>4 DEF Deliver
  <2>7. client' \in [AConn -> {"unused", "accepted", "open", "left", "reset", "closed"}]
    BY <1>7, <2>4 DEF Deliver
  <2>8. flow' \in [WConn -> SUBSET {"rest", "up", "down"}]
    <3>1. flow' = flow \/ flow' = [flow EXCEPT ![c] = flow[c] \ {"down"}]
      BY <1>7 DEF Deliver
    <3>2. flow' = [flow EXCEPT ![c] = flow[c] \ {"down"}] => Stops(c, {"down"})
      BY DEF Stops
    <3>3. QED
      BY <3>1, <3>2, StopsTyped
  <2>9. QED
    BY <1>7, <2>5, <2>6, <2>7, <2>8 DEF Deliver
<1>8. ASSUME NEW c \in WConn, DownEnds(c) PROVE Kinds'
  BY <1>8 DEF DownEnds
<1>9. ASSUME NEW c \in WConn, BridgeDone(c) PROVE Kinds'
  BY <1>9 DEF BridgeDone
<1>10. ASSUME NEW c \in WConn, DownBreaks(c) PROVE Kinds'
  BY <1>10 DEF DownBreaks
<1>11. ASSUME NEW a \in AConn, HandleApi(a) PROVE Kinds'
  BY <1>11, HandleApiTyped
<1>12. ASSUME NEW a \in AConn, ClientLeaves(a) PROVE Kinds'
  BY <1>12 DEF ClientLeaves
<1>13. ASSUME NEW t \in Tunnel, ReadFirst(t) PROVE Kinds'
  <2>1. conn[t] \in WConn
    BY <1>13 DEF ReadFirst
  <2>2. QED
    BY <1>13, <2>1, ReadFirstTyped
<1>14. ASSUME NEW t \in Tunnel, CopyIn(t) PROVE Kinds'
  <2>1. conn[t] \in WConn
    BY <1>14 DEF CopyIn
  <2>2. QED
    BY <1>14, <2>1, CopyInTyped
<1>15. ASSUME NEW t \in Tunnel, SeeEnd(t) PROVE Kinds'
  BY <1>15 DEF SeeEnd
<1>16. ASSUME NEW t \in Tunnel, AnswerBegins(t) PROVE Kinds'
  <2>1. conn[t] \in WConn
    BY <1>16 DEF AnswerBegins
  <2>2. <<Answer(request[t]), "head">> \in Answers
    BY <1>16, AnswerTyped DEF AnswerBegins, Answers
  <2>3. outbox' \in [WConn -> Seq(Answers)]
    BY <1>16, <2>1, <2>2, Streams DEF AnswerBegins
  <2>4. QED
    BY <1>16, <2>1, <2>3 DEF AnswerBegins
<1>17. ASSUME NEW t \in Tunnel, AnswerEnds(t) PROVE Kinds'
  <2>1. conn[t] \in WConn
    BY <1>17 DEF AnswerEnds
  <2>2. <<Answer(request[t]), "tail">> \in Answers
    BY <1>17, AnswerTyped DEF AnswerEnds, Answers
  <2>3. outbox' \in [WConn -> Seq(Answers)]
    BY <1>17, <2>1, <2>2, Streams DEF AnswerEnds
  <2>4. QED
    BY <1>17, <2>1, <2>3 DEF AnswerEnds
<1>18. ASSUME NEW t \in Tunnel, GiveUp(t) PROVE Kinds'
  <2>1. conn[t] \in WConn
    BY <1>18 DEF GiveUp
  <2>2. QED
    BY <1>18, <2>1 DEF GiveUp
<1>19. ASSUME NEW t \in Tunnel, Break(t) PROVE Kinds'
  BY <1>19 DEF Break
<1>20. ASSUME NEW t \in Tunnel, NEW c \in WConn, Connect(t, c) PROVE Kinds'
  BY <1>20, LetGoTyped DEF Connect
<1>21. ASSUME NEW a \in AConn, Accept(a) PROVE Kinds'
  BY <1>21, LetGoTyped DEF Accept
<1>22. ASSUME NEW a \in AConn, Unheard(a) PROVE Kinds'
  BY <1>22 DEF Unheard
<1>23. ASSUME NEW t \in Tunnel, Vanish(t) PROVE Kinds'
  BY <1>23 DEF Vanish
<1>24. ASSUME NEW c \in WConn, Notice(c) PROVE Kinds'
  BY <1>24 DEF Notice
<1>25. CASE UNCHANGED vars
  BY <1>25 DEF vars
<1>26. QED
  BY <1>1, <1>2, <1>3, <1>4, <1>5, <1>6, <1>7, <1>8, <1>9, <1>10, <1>11, <1>12, <1>13, <1>14, <1>15,
     <1>16, <1>17, <1>18, <1>19, <1>20, <1>21, <1>22, <1>23, <1>24, <1>25
     DEF Next, Handling, Bridging, Handle, Tunneling, Serving, Ending

\* A thread that has something to forward bridges, whatever becomes of that.
LEMMA FlowOnly ==
  ASSUME Kinds, Standing, NEW c \in WConn, flow[c] # {},
         UNCHANGED <<thread, bridged, tunnelVars>>,
         flow' = flow \/ \E S : flow' = [flow EXCEPT ![c] = S]
  PROVE  Standing'
<1>1. thread[c] = "bridging"
  BY DEF Standing
<1>2. \A d \in WConn : flow'[d] # {} => thread[d] = "bridging"
  BY <1>1 DEF Standing, Kinds
<1>3. QED
  BY <1>2 DEF Standing, tunnelVars, endVars

LEMMA StandingStep == Kinds /\ Standing /\ [Next]_vars => Standing'
<1> SUFFICES ASSUME Kinds, Standing, [Next]_vars PROVE Standing'
  OBVIOUS
<1> USE DEF Kinds, Standing, relayVars, clientVars, tunnelVars, endVars, Goto, Forget, Stops, Drop, Lose, Take
<1>1. ASSUME NEW c \in WConn, Register(c) PROVE Standing'
  BY <1>1 DEF Register
<1>2. ASSUME NEW c \in WConn, Wait(c) PROVE Standing'
  BY <1>2 DEF Wait
<1>3. ASSUME NEW c \in WConn, Wake(c) PROVE Standing'
  BY <1>3 DEF Wake
<1>4. ASSUME NEW c \in WConn, Leave(c) PROVE Standing'
  BY <1>4 DEF Leave
<1>5. ASSUME NEW c \in WConn, ForwardRest(c) PROVE Standing'
  <2>1. flow[c] # {} /\ UNCHANGED <<thread, bridged, tunnelVars>>
    BY <1>5 DEF ForwardRest
  <2>2. \/ flow' = [flow EXCEPT ![c] = (flow[c] \ {"rest"}) \cup {"up"}]
        \/ flow' = [flow EXCEPT ![c] = flow[c] \ {"rest"}]
    BY <1>5 DEF ForwardRest
  <2>3. QED
    BY <2>1, <2>2, FlowOnly
<1>6. ASSUME NEW c \in WConn, UpEnds(c) PROVE Standing'
  BY <1>6 DEF UpEnds
<1>7. ASSUME NEW c \in WConn, Deliver(c) PROVE Standing'
  <2>1. flow[c] # {} /\ UNCHANGED <<thread, bridged, tunnelVars>>
    BY <1>7 DEF Deliver
  <2>2. flow' = flow \/ flow' = [flow EXCEPT ![c] = flow[c] \ {"down"}]
    BY <1>7 DEF Deliver
  <2>3. QED
    BY <2>1, <2>2, FlowOnly
<1>8. ASSUME NEW c \in WConn, DownEnds(c) PROVE Standing'
  BY <1>8 DEF DownEnds
<1>9. ASSUME NEW c \in WConn, BridgeDone(c) PROVE Standing'
  BY <1>9 DEF BridgeDone
<1>10. ASSUME NEW c \in WConn, DownBreaks(c) PROVE Standing'
  BY <1>10 DEF DownBreaks
<1>11. ASSUME NEW a \in AConn, HandleApi(a) PROVE Standing'
  BY <1>11 DEF HandleApi
<1>12. ASSUME NEW a \in AConn, ClientLeaves(a) PROVE Standing'
  BY <1>12 DEF ClientLeaves
<1>13. ASSUME NEW t \in Tunnel, ReadFirst(t) PROVE Standing'
  <2>1. CASE Drop(t)
    BY <1>13, <2>1 DEF ReadFirst
  <2>2. CASE llama' = [llama EXCEPT ![t] = "open"]
    BY <1>13, <2>2 DEF ReadFirst
  <2>3. QED
    BY <1>13, <2>1, <2>2 DEF ReadFirst
<1>14. ASSUME NEW t \in Tunnel, CopyIn(t) PROVE Standing'
  <2>1. CASE Drop(t)
    BY <1>14, <2>1 DEF CopyIn
  <2>2. CASE UNCHANGED tunnelVars
    BY <1>14, <2>2 DEF CopyIn
  <2>3. CASE llama[t] # "closed" /\ UNCHANGED <<tunnel, conn, llama>>
                                /\ request' = [request EXCEPT ![t] = Append(@, Head(inbox[conn[t]]))]
    <3>1. request[t] \in Seq(Parts) /\ Head(inbox[conn[t]]) \in Parts
      BY <1>14, Streams DEF CopyIn
    <3>2. Whole(request[t]) => Whole(Append(request[t], Head(inbox[conn[t]])))
      BY <3>1 DEF Whole
    <3>3. QED
      BY <1>14, <2>3, <3>2 DEF CopyIn
  <2>4. QED
    BY <1>14, <2>1, <2>2, <2>3 DEF CopyIn
<1>15. ASSUME NEW t \in Tunnel, SeeEnd(t) PROVE Standing'
  BY <1>15 DEF SeeEnd
<1>16. ASSUME NEW t \in Tunnel, AnswerBegins(t) PROVE Standing'
  BY <1>16 DEF AnswerBegins
<1>17. ASSUME NEW t \in Tunnel, AnswerEnds(t) PROVE Standing'
  BY <1>17 DEF AnswerEnds
<1>18. ASSUME NEW t \in Tunnel, GiveUp(t) PROVE Standing'
  BY <1>18 DEF GiveUp
<1>19. ASSUME NEW t \in Tunnel, Break(t) PROVE Standing'
  BY <1>19 DEF Break
<1>20. ASSUME NEW t \in Tunnel, NEW c \in WConn, Connect(t, c) PROVE Standing'
  BY <1>20 DEF Connect
<1>21. ASSUME NEW a \in AConn, Accept(a) PROVE Standing'
  BY <1>21 DEF Accept
<1>22. ASSUME NEW a \in AConn, Unheard(a) PROVE Standing'
  BY <1>22 DEF Unheard
<1>23. ASSUME NEW t \in Tunnel, Vanish(t) PROVE Standing'
  BY <1>23 DEF Vanish
<1>24. ASSUME NEW c \in WConn, Notice(c) PROVE Standing'
  BY <1>24 DEF Notice
<1>25. CASE UNCHANGED vars
  BY <1>25 DEF vars
<1>26. QED
  BY <1>1, <1>2, <1>3, <1>4, <1>5, <1>6, <1>7, <1>8, <1>9, <1>10, <1>11, <1>12, <1>13, <1>14, <1>15,
     <1>16, <1>17, <1>18, <1>19, <1>20, <1>21, <1>22, <1>23, <1>24, <1>25
     DEF Next, Handling, Bridging, Handle, Tunneling, Serving, Ending

LEMMA ServingStep == Kinds /\ Standing /\ ServingIsRegistered /\ [Next]_vars => ServingIsRegistered'
<1> SUFFICES ASSUME Kinds, Standing, ServingIsRegistered, [Next]_vars PROVE ServingIsRegistered'
  OBVIOUS
<1> USE DEF Kinds, Standing, ServingIsRegistered, relayVars, clientVars, tunnelVars, endVars, Goto, Forget, Stops, Drop, Lose, Take
<1>1. ASSUME NEW c \in WConn, Register(c) PROVE ServingIsRegistered'
  <2>1. SUFFICES ASSUME NEW d \in WConn,
                        thread'[d] \in {"registered", "waiting", "notified", "bridging"},
                        d # c
                 PROVE  d \in closed'
    BY <1>1 DEF Register
  <2>2. thread[d] = thread'[d]
    BY <1>1, <2>1 DEF Register
  <2>3. entry = d \/ d \in closed
    BY <2>1, <2>2
  <2>4. QED
    BY <1>1, <2>3, RelayAssumption DEF Register
<1>2. ASSUME NEW c \in WConn, Wait(c) PROVE ServingIsRegistered'
  BY <1>2 DEF Wait
<1>3. ASSUME NEW c \in WConn, Wake(c) PROVE ServingIsRegistered'
  BY <1>3 DEF Wake
<1>4. ASSUME NEW c \in WConn, Leave(c) PROVE ServingIsRegistered'
  BY <1>4 DEF Leave
<1>5. ASSUME NEW c \in WConn, ForwardRest(c) PROVE ServingIsRegistered'
  BY <1>5 DEF ForwardRest
<1>6. ASSUME NEW c \in WConn, UpEnds(c) PROVE ServingIsRegistered'
  BY <1>6 DEF UpEnds
<1>7. ASSUME NEW c \in WConn, Deliver(c) PROVE ServingIsRegistered'
  BY <1>7 DEF Deliver
<1>8. ASSUME NEW c \in WConn, DownEnds(c) PROVE ServingIsRegistered'
  BY <1>8 DEF DownEnds
<1>9. ASSUME NEW c \in WConn, BridgeDone(c) PROVE ServingIsRegistered'
  BY <1>9 DEF BridgeDone
<1>10. ASSUME NEW c \in WConn, DownBreaks(c) PROVE ServingIsRegistered'
  BY <1>10 DEF DownBreaks
<1>11. ASSUME NEW a \in AConn, HandleApi(a) PROVE ServingIsRegistered'
  BY <1>11 DEF HandleApi
<1>12. ASSUME NEW a \in AConn, ClientLeaves(a) PROVE ServingIsRegistered'
  BY <1>12 DEF ClientLeaves
<1>13. ASSUME NEW t \in Tunnel, ReadFirst(t) PROVE ServingIsRegistered'
  BY <1>13 DEF ReadFirst
<1>14. ASSUME NEW t \in Tunnel, CopyIn(t) PROVE ServingIsRegistered'
  BY <1>14 DEF CopyIn
<1>15. ASSUME NEW t \in Tunnel, SeeEnd(t) PROVE ServingIsRegistered'
  BY <1>15 DEF SeeEnd
<1>16. ASSUME NEW t \in Tunnel, AnswerBegins(t) PROVE ServingIsRegistered'
  BY <1>16 DEF AnswerBegins
<1>17. ASSUME NEW t \in Tunnel, AnswerEnds(t) PROVE ServingIsRegistered'
  BY <1>17 DEF AnswerEnds
<1>18. ASSUME NEW t \in Tunnel, GiveUp(t) PROVE ServingIsRegistered'
  BY <1>18 DEF GiveUp
<1>19. ASSUME NEW t \in Tunnel, Break(t) PROVE ServingIsRegistered'
  BY <1>19 DEF Break
<1>20. ASSUME NEW t \in Tunnel, NEW c \in WConn, Connect(t, c) PROVE ServingIsRegistered'
  BY <1>20 DEF Connect
<1>21. ASSUME NEW a \in AConn, Accept(a) PROVE ServingIsRegistered'
  BY <1>21 DEF Accept
<1>22. ASSUME NEW a \in AConn, Unheard(a) PROVE ServingIsRegistered'
  BY <1>22 DEF Unheard
<1>23. ASSUME NEW t \in Tunnel, Vanish(t) PROVE ServingIsRegistered'
  BY <1>23 DEF Vanish
<1>24. ASSUME NEW c \in WConn, Notice(c) PROVE ServingIsRegistered'
  BY <1>24 DEF Notice
<1>25. CASE UNCHANGED vars
  BY <1>25 DEF vars
<1>26. QED
  BY <1>1, <1>2, <1>3, <1>4, <1>5, <1>6, <1>7, <1>8, <1>9, <1>10, <1>11, <1>12, <1>13, <1>14, <1>15,
     <1>16, <1>17, <1>18, <1>19, <1>20, <1>21, <1>22, <1>23, <1>24, <1>25
     DEF Next, Handling, Bridging, Handle, Tunneling, Serving, Ending

LEMMA FailingStep == Kinds /\ Standing /\ Failing /\ [Next]_vars => Failing'
<1> SUFFICES ASSUME Kinds, Standing, Failing, [Next]_vars PROVE Failing'
  OBVIOUS
<1> USE RelayAssumption DEF Kinds, Standing, Failing, Goto
<1>1. ASSUME NEW c \in WConn, Register(c) PROVE Failing'
  BY <1>1 DEF Register, tunnelVars
<1>2. ASSUME NEW c \in WConn, Wait(c) PROVE Failing'
  BY <1>2 DEF Wait, tunnelVars
<1>3. ASSUME NEW c \in WConn, Wake(c) PROVE Failing'
  BY <1>3 DEF Wake, tunnelVars
<1>4. ASSUME NEW c \in WConn, Leave(c) PROVE Failing'
  BY <1>4 DEF Leave, tunnelVars
<1>5. ASSUME NEW c \in WConn, BridgeDone(c) PROVE Failing'
  BY <1>5 DEF BridgeDone, tunnelVars
<1>6. ASSUME NEW a \in AConn, HandleApi(a) PROVE Failing'
  <2>1. UNCHANGED <<entry, broken>>
    BY <1>6 DEF HandleApi, tunnelVars
  <2>2. CASE entry = None
    BY <1>6, <2>1, <2>2 DEF HandleApi
  <2>3. CASE entry # None /\ entry \notin broken
    <3>1. /\ entry \in WConn /\ api' = [api EXCEPT ![entry] = a]
          /\ thread' = [thread EXCEPT ![entry] = IF @ = "waiting" THEN "notified" ELSE @]
      BY <1>6, <2>3 DEF HandleApi
    <3>2. thread'[entry] # "leaving" /\ api'[entry] = a /\ a # None
      BY <2>3, <3>1
    <3>3. \A c \in WConn : c # entry => thread'[c] = thread[c] /\ api'[c] = api[c]
      BY <3>1
    <3>4. thread'[entry] \notin {"unused", "accepted", "ended"}
      BY <2>3, <3>1
    <3>5. QED
      BY <2>1, <3>2, <3>3, <3>4
  <2>4. CASE entry # None /\ entry \in broken
    BY <1>6, <2>1, <2>4 DEF HandleApi
  <2>5. QED
    BY <2>2, <2>3, <2>4
<1>7. ASSUME NEW t \in Tunnel, NEW c \in WConn, Connect(t, c) PROVE Failing'
  BY <1>7 DEF Connect
<1>8. ASSUME UNCHANGED <<entry, api, thread>>, broken \subseteq broken' PROVE Failing'
  BY <1>8
<1>9. ASSUME NEW c \in WConn,
             ForwardRest(c) \/ UpEnds(c) \/ Deliver(c) \/ DownEnds(c) \/ DownBreaks(c) PROVE Failing'
  BY <1>8, <1>9 DEF ForwardRest, UpEnds, Deliver, DownEnds, DownBreaks, tunnelVars
<1>10. ASSUME NEW a \in AConn, Accept(a) \/ Unheard(a) \/ ClientLeaves(a) PROVE Failing'
  BY <1>8, <1>10 DEF Accept, Unheard, ClientLeaves, relayVars, tunnelVars
<1>11. ASSUME NEW t \in Tunnel, Tunneling(t) \/ Serving(t) \/ Ending(t) PROVE Failing'
  <2>1. UNCHANGED <<relayVars, broken>>
    BY <1>11 DEF Tunneling, Serving, Ending, ReadFirst, CopyIn, SeeEnd, AnswerBegins, AnswerEnds,
                 GiveUp, Break, Vanish, Drop, Lose, tunnelVars
  <2>2. QED
    BY <1>8, <2>1 DEF relayVars
<1>12. ASSUME NEW c \in WConn, Notice(c) PROVE Failing'
  BY <1>8, <1>12 DEF Notice, relayVars
<1>13. CASE UNCHANGED vars
  BY <1>8, <1>13 DEF vars, relayVars, tunnelVars
<1>14. QED
  BY <1>1, <1>2, <1>3, <1>4, <1>5, <1>6, <1>7, <1>9, <1>10, <1>11, <1>12, <1>13
     DEF Next, Handling, Bridging, Handle

\* HeldOnce in parts: who is open, whose entry is empty, and that nobody is in two places.
Apart == \A c, d \in WConn : /\ api[c] # None => api[c] # bridged[d]
                             /\ c # d /\ api[c] # None => api[c] # api[d]
                             /\ c # d /\ bridged[c] # None => bridged[c] # bridged[d]
Alive == \A a \in AConn : (Held(a) => Open(a)) /\ (Open(a) => Held(a) \/ a = latest)
Empty == \A c \in WConn : thread[c] \in {"unused", "accepted", "ended"} => api[c] = None

LEMMA HeldMeans == HeldOnce <=> Alive /\ Empty /\ Apart
BY DEF HeldOnce, Alive, Empty, Apart

LEMMA EmptyStep == Kinds /\ Failing /\ Empty /\ [Next]_vars => Empty'
<1> SUFFICES ASSUME Kinds, Failing, Empty, [Next]_vars PROVE Empty'
  OBVIOUS
<1> USE RelayAssumption DEF Kinds, Failing, Empty, Goto
<1>1. ASSUME NEW c \in WConn, Handling(c) \/ BridgeDone(c) PROVE Empty'
  BY <1>1 DEF Handling, Register, Wait, Wake, Leave, BridgeDone
<1>2. ASSUME NEW a \in AConn, HandleApi(a) PROVE Empty'
  <2>1. CASE UNCHANGED <<api, thread>>
    BY <2>1
  <2>2. CASE /\ entry # None /\ api' = [api EXCEPT ![entry] = a]
             /\ thread' = [thread EXCEPT ![entry] = IF @ = "waiting" THEN "notified" ELSE @]
    BY <2>2
  <2>3. CASE entry # None /\ api' = [api EXCEPT ![entry] = None] /\ UNCHANGED thread
    BY <2>3
  <2>4. QED
    BY <1>2, <2>1, <2>2, <2>3 DEF HandleApi
<1>3. ASSUME NEW t \in Tunnel, NEW c \in WConn, Connect(t, c) PROVE Empty'
  BY <1>3 DEF Connect
<1>4. CASE UNCHANGED <<api, thread>>
  BY <1>4
<1>5. QED
  BY <1>1, <1>2, <1>3, <1>4
     DEF Next, Handling, Bridging, Handle, Tunneling, Serving, Ending, vars, relayVars, Accept, Unheard,
         ClientLeaves, ForwardRest, UpEnds, Deliver, DownEnds, DownBreaks, Notice, ReadFirst, CopyIn,
         SeeEnd, AnswerBegins, AnswerEnds, GiveUp, Break, Vanish

\* Letting go of the last connection closes it only if it is in no hand.
LEMMA LetGoAlive ==
  ASSUME Kinds, Alive
  PROVE  \A a \in AConn : /\ Held(a) => LetGo[a] = client[a]
                          /\ LetGo[a] \in {"open", "left", "reset"} => Held(a)
                          /\ LetGo[a] \in {client[a], "closed"}
BY DEF Alive, LetGo, Open

LEMMA HeldStep == Kinds /\ Standing /\ Failing /\ HeldOnce /\ [Next]_vars => HeldOnce'
<1> SUFFICES ASSUME Kinds, Standing, Failing, Alive, Empty, Apart, [Next]_vars PROVE Alive' /\ Apart'
  BY HeldMeans, EmptyStep, PTL
<1> USE RelayAssumption DEF Kinds, Standing, Alive, Apart, Held, Open, Goto, Forget
<1>1. ASSUME NEW c \in WConn, Wake(c) PROVE Alive' /\ Apart'
  <2>1. bridged[c] = None
    BY <1>1 DEF Wake
  <2>2. Apart'
    BY <1>1, <2>1 DEF Wake
  <2>3. \A a \in AConn : Held(a) <=> Held(a)'
    BY <1>1, <2>1 DEF Wake
  <2>4. QED
    BY <1>1, <2>2, <2>3 DEF Wake, clientVars
<1>2. ASSUME NEW c \in WConn, BridgeDone(c) PROVE Alive' /\ Apart'
  <2>1. bridged[c] \in AConn
    BY <1>2 DEF BridgeDone
  <2>2. Apart'
    BY <1>2, <2>1 DEF BridgeDone
  <2>3. \A a \in AConn : a # bridged[c] => (Held(a) <=> Held(a)')
    BY <1>2, <2>1 DEF BridgeDone
  <2>4. \A a \in AConn : a = bridged[c] => ~ Held(a)'
    BY <1>2, <2>1 DEF BridgeDone
  <2>5. QED
    BY <1>2, <2>1, <2>2, <2>3, <2>4 DEF BridgeDone
<1>4. ASSUME NEW a \in AConn, HandleApi(a) PROVE Alive' /\ Apart'
  <2>1. ~ Held(a) /\ UNCHANGED <<bridged, latest>>
    BY <1>4 DEF HandleApi
  <2>2. CASE entry = None
    BY <1>4, <2>1, <2>2 DEF HandleApi
  <2>3. CASE entry # None
    <3> DEFINE b == api[entry]
    <3>1. entry \in WConn /\ b # a
      BY <2>1, <2>3
    <3>2. b # None => \A c \in WConn : bridged[c] # b /\ (c # entry => api[c] # b)
      BY <3>1
    <3>3. /\ api' = [api EXCEPT ![entry] = a] \/ api' = [api EXCEPT ![entry] = None]
          /\ UNCHANGED bridged
      BY <1>4, <2>3 DEF HandleApi
    <3>4. Apart'
      <4>1. CASE api' = [api EXCEPT ![entry] = a]
        BY <2>1, <3>1, <3>3, <4>1
      <4>2. CASE api' = [api EXCEPT ![entry] = None]
        BY <3>1, <3>3, <4>2
      <4>3. QED
        BY <3>3, <4>1, <4>2
    <3>5. \A d \in AConn : d # a /\ d # b => (Held(d) <=> Held(d)')
      BY <3>1, <3>3
    <3>6. \A d \in AConn : d # a /\ d = b => ~ Held(d)'
      <4>1. ASSUME NEW d \in AConn, d # a, d = b, NEW e \in WConn
            PROVE  api'[e] # d /\ bridged'[e] # d
        <5>1. b # None
          BY <4>1
        <5>2. bridged'[e] # d
          BY <3>2, <3>3, <4>1, <5>1
        <5>3. api'[e] # d
          <6>1. CASE e = entry
            BY <3>1, <3>3, <4>1, <5>1, <6>1
          <6>2. CASE e # entry
            <7>1. api'[e] = api[e] /\ api[e] # b
              BY <3>1, <3>2, <3>3, <5>1, <6>2
            <7>2. QED
              BY <4>1, <7>1
          <6>3. QED
            BY <6>1, <6>2
        <5>4. QED
          BY <5>2, <5>3
      <4>2. QED
        BY <4>1
    <3>7. client' = [Forget(b) EXCEPT ![a] = "open"] \/ client' = [Forget(b) EXCEPT ![a] = "closed"]
      BY <1>4, <2>3 DEF HandleApi
    <3>8. \A d \in AConn : d # a => client'[d] = IF d = b /\ b # latest THEN "closed" ELSE client[d]
      <4>1. CASE b \in {None, latest}
        BY <3>7, <4>1
      <4>2. CASE b \notin {None, latest}
        BY <3>1, <3>7, <4>2
      <4>3. QED
        BY <4>1, <4>2
    <3>9. Open(a)' <=> Held(a)'
      <4>1. CASE api' = [api EXCEPT ![entry] = a] /\ client'[a] = "open"
        BY <3>1, <4>1
      <4>2. CASE api' = [api EXCEPT ![entry] = None] /\ client'[a] = "closed"
        BY <2>1, <3>1, <3>3, <4>2
      <4>3. client'[a] \in {"open", "closed"}
        BY <3>7
      <4>4. QED
        BY <1>4, <2>3, <4>1, <4>2, <3>7 DEF HandleApi
    <3>10. Alive'
      <4>1. ASSUME NEW d \in AConn
            PROVE  (Held(d)' => Open(d)') /\ (Open(d)' => Held(d)' \/ d = latest')
        <5>1. CASE d = a
          BY <3>9, <5>1
        <5>2. CASE d # a /\ d = b
          BY <2>1, <3>6, <3>8, <5>2
        <5>3. CASE d # a /\ d # b
          <6>1. (Held(d)' <=> Held(d)) /\ client'[d] = client[d]
            BY <3>5, <3>8, <5>3
          <6>2. QED
            BY <2>1, <6>1
        <5>4. QED
          BY <5>1, <5>2, <5>3
      <4>2. QED
        BY <4>1
    <3>11. QED
      BY <3>4, <3>10
  <2>4. QED
    BY <2>2, <2>3
<1>5. ASSUME NEW a \in AConn, ClientLeaves(a) PROVE Alive' /\ Apart'
  BY <1>5 DEF ClientLeaves, relayVars
<1>6. ASSUME NEW c \in WConn, Deliver(c) PROVE Alive' /\ Apart'
  <2>1. bridged[c] \in AConn
    BY <1>6 DEF Deliver
  <2>2. QED
    BY <1>6, <2>1 DEF Deliver
<1>7. ASSUME NEW a \in AConn, Accept(a) PROVE Alive' /\ Apart'
  <2>1. /\ UNCHANGED <<api, bridged>> /\ latest' = a /\ ~ Held(a)
        /\ client' = [LetGo EXCEPT ![a] = "accepted"]
    BY <1>7 DEF Accept, relayVars
  <2>2. client'[a] = "accepted" /\ \A d \in AConn : d # a => client'[d] = LetGo[d]
    BY <2>1, LetGoTyped
  <2>3. QED
    BY <2>1, <2>2, LetGoAlive
<1>8. ASSUME NEW t \in Tunnel, NEW c \in WConn, Connect(t, c) PROVE Alive' /\ Apart'
  <2>1. UNCHANGED <<api, bridged>> /\ client' = LetGo
    BY <1>8 DEF Connect
  <2>2. QED
    BY <2>1, LetGoAlive
<1>9. ASSUME NEW a \in AConn, Unheard(a) PROVE Alive' /\ Apart'
  BY <1>9 DEF Unheard, relayVars
<1>10. CASE UNCHANGED <<api, bridged, client, latest>>
  BY <1>10
<1>11. QED
  BY <1>1, <1>2, <1>4, <1>5, <1>6, <1>7, <1>8, <1>9, <1>10
     DEF Next, Handling, Bridging, Handle, Tunneling, Serving, Ending, vars, relayVars, clientVars,
         Register, Wait, Leave, ForwardRest, UpEnds, DownEnds, DownBreaks, Notice, ReadFirst, CopyIn,
         SeeEnd, AnswerBegins, AnswerEnds, GiveUp, Break, Vanish

\* The invariant holds throughout.
THEOREM Invariance == Spec => []IInv
<1>1. IInv /\ [Next]_vars => IInv'
  BY TypeStep, StandingStep, FailingStep, ServingStep, HeldStep DEF IInv
<1>2. QED
  BY InitInv, <1>1, PTL DEF Spec

\* Every variable keeps its type, and threads bridge somebody, whatever the tunnels, callers and threads do.
THEOREM TypeCorrect == Spec => []TypeOK
<1>1. IInv => TypeOK
  BY DEF IInv, Standing, TypeOK
<1>2. QED
  BY Invariance, <1>1, PTL

\* However many workers follow each other on a port, and whenever the threads
\* of the earlier ones clean up, a thread at the service of the API is found
\* under its port unless a later one has taken its place.
THEOREM WorkersCanBeFound == Spec => []ServingIsRegistered
BY Invariance, PTL DEF IInv

\* However many API connections come, none is ever in the hands of two worker
\* threads or of one that has ended, and those that are in none are closed but
\* for the last one the port has accepted.
THEOREM ApiConnectionsHeldOnce == Spec => []HeldOnce
BY Invariance, PTL DEF IInv

-----------------------------------------------------------------------------
(* Nobody gets another's answer.  The argument follows the rest of a       *)
(* request, without which llama-server does not answer it, and the head of *)
(* the answer to it: as long as that may still come out of a worker's      *)
(* connection (Left), the caller is the one that is bridged to it, or the  *)
(* connection has been replaced and will not be bridged again (Bound).     *)
(* What is left of an answer whose head is out is no answer to anybody.    *)

In(q, p) == \E i \in DOMAIN q : q[i] = p

\* Which connections threads and tunnels can have.
Threads == \A c \in WConn :
  /\ c \in closed => entry # c
  /\ thread[c] \in {"unused", "accepted"} => c \notin closed /\ entry # c
  /\ thread[c] = "unused" => c \notin shut /\ c \notin gone /\ inbox[c] = <<>> /\ outbox[c] = <<>>
Tunnels == \A t \in Tunnel :
  /\ conn[t] # None => thread[conn[t]] # "unused" /\ conn[t] \notin gone
  /\ llama[t] \in {"none", "closed"} => request[t] = <<>>
  /\ tunnel[t] = "copying" => llama[t] # "none"
  /\ \A u \in Tunnel : conn[t] # None /\ conn[t] = conn[u] => t = u

\* One answer per connection, with its head first; and the direction of the
\* answers ends only when that has begun, or the connection is replaced.
OneHead(q) == \A i \in DOMAIN q : q[i][2] = "head" => i = 1
OneAnswer  == \A c \in WConn : OneHead(outbox[c])
Phases == \A t \in Tunnel : conn[t] # None =>
  /\ conn[t] \in shut => llama[t] = "closed"
  /\ llama[t] \in {"none", "open"} => outbox[conn[t]] = <<>>
Answered(c) == \A t \in Tunnel : conn[t] = c => llama[t] \in {"answering", "closed"}
Served == \A c \in WConn :
  thread[c] = "bridging" /\ "down" \notin flow[c] => c \in closed \/ Answered(c)

Left(c, a) ==
  \/ In(outbox[c], <<a, "head">>)
  \/ \E t \in Tunnel : /\ conn[t] = c /\ llama[t] \in {"none", "open"}
                       /\ In(inbox[c], <<a, "rest">>) \/ In(request[t], <<a, "rest">>)
Bound(c, a) ==
  \/ bridged[c] = a /\ ("down" \in flow[c] \/ c \in closed)
  \/ c \in closed /\ thread[c] \in {"registered", "waiting"}
AllBound == \A c \in WConn, a \in AConn : Left(c, a) => Bound(c, a)

Base   == Kinds /\ Standing /\ Failing
OwnInv == Threads /\ Tunnels /\ OneAnswer /\ Phases /\ Served /\ AllBound /\ OwnAnswer

\* What is in a sequence when a part is added, and when the first is taken.
LEMMA InAppend ==
  ASSUME NEW S, NEW q \in Seq(S), NEW x \in S, NEW p
  PROVE  In(Append(q, x), p) <=> In(q, p) \/ p = x
<1>1. /\ DOMAIN q = 1 .. Len(q) /\ Len(q) \in Nat
      /\ DOMAIN Append(q, x) = 1 .. Len(q) + 1
      /\ Append(q, x)[Len(q) + 1] = x
      /\ \A i \in 1 .. Len(q) : Append(q, x)[i] = q[i]
  OBVIOUS
<1>2. QED
  BY <1>1 DEF In

LEMMA InTail ==
  ASSUME NEW S, NEW q \in Seq(S), q # <<>>, NEW p
  PROVE  In(q, p) <=> p = Head(q) \/ In(Tail(q), p)
<1>1. /\ DOMAIN q = 1 .. Len(q) /\ Len(q) \in Nat \ {0} /\ Head(q) = q[1]
      /\ DOMAIN Tail(q) = 1 .. Len(q) - 1
      /\ \A i \in 1 .. Len(q) - 1 : Tail(q)[i] = q[i + 1]
  BY HeadTailProperties, EmptySeq
<1>2. In(Tail(q), p) => In(q, p)
  BY <1>1 DEF In
<1>3. ASSUME NEW i \in DOMAIN q, q[i] = p PROVE p = Head(q) \/ In(Tail(q), p)
  <2>1. CASE i = 1
    BY <1>1, <1>3, <2>1
  <2>2. CASE i # 1
    <3>1. i - 1 \in 1 .. Len(q) - 1 /\ (i - 1) + 1 = i
      BY <1>1, <2>2
    <3>2. QED
      BY <1>1, <1>3, <3>1 DEF In
  <2>3. QED
    BY <2>1, <2>2
<1>4. QED
  BY <1>1, <1>2, <1>3 DEF In

LEMMA InNone == \A p : ~ In(<<>>, p)
BY DEF In

LEMMA SeqFacts ==
  ASSUME NEW S, NEW q \in Seq(S)
  PROVE  /\ Len(q) \in Nat /\ (Len(q) = 0 <=> q = <<>>)
         /\ DOMAIN q = 1 .. Len(q)
BY EmptySeq

\* The answer on its way, when its first part is taken, and when it goes on.
LEMMA HeadTaken ==
  ASSUME NEW S, NEW q \in Seq(S), q # <<>>, OneHead(q)
  PROVE  OneHead(Tail(q)) /\ \A a : ~ In(Tail(q), <<a, "head">>)
<1>1. /\ DOMAIN q = 1 .. Len(q) /\ Len(q) \in Nat \ {0}
      /\ DOMAIN Tail(q) = 1 .. Len(q) - 1
      /\ \A i \in 1 .. Len(q) - 1 : Tail(q)[i] = q[i + 1]
  BY HeadTailProperties, EmptySeq
<1>2. ASSUME NEW i \in DOMAIN Tail(q) PROVE Tail(q)[i][2] # "head"
  <2>1. i + 1 \in DOMAIN q /\ i + 1 # 1 /\ Tail(q)[i] = q[i + 1]
    BY <1>1, <1>2
  <2>2. QED
    BY <2>1 DEF OneHead
<1>3. \A a : <<a, "head">>[2] = "head"
  OBVIOUS
<1>4. QED
  BY <1>2, <1>3 DEF OneHead, In

LEMMA TailAdded ==
  ASSUME NEW S, NEW q \in Seq(S), NEW x \in S, x[2] = "tail", OneHead(q)
  PROVE  OneHead(Append(q, x))
<1>1. /\ DOMAIN q = 1 .. Len(q) /\ Len(q) \in Nat
      /\ DOMAIN Append(q, x) = 1 .. Len(q) + 1
      /\ Append(q, x)[Len(q) + 1] = x
      /\ \A i \in 1 .. Len(q) : Append(q, x)[i] = q[i]
  OBVIOUS
<1>2. QED
  BY <1>1 DEF OneHead

LEMMA OwnInit == Init => OwnInv
<1> SUFFICES ASSUME Init PROVE OwnInv
  OBVIOUS
<1> USE DEF Init
<1>1. Threads /\ OwnAnswer
  BY RelayAssumption DEF Threads, OwnAnswer
<1>2. Tunnels /\ Phases
  BY DEF Tunnels, Phases
<1>3. OneAnswer /\ Served
  BY DEF OneAnswer, OneHead, Served
<1>4. AllBound
  BY InNone, RelayAssumption DEF AllBound, Left
<1>5. QED
  BY <1>1, <1>2, <1>3, <1>4 DEF OwnInv

-----------------------------------------------------------------------------
(* Each of the parts is kept by every step. *)

\* The side of the worker changes nothing at the relay, and ends no
\* connection but its own.
WorkerStep(t) == Tunneling(t) \/ Serving(t) \/ Ending(t)

LEMMA WorkerSide ==
  ASSUME Base, NEW t \in Tunnel, WorkerStep(t)
  PROVE  /\ conn[t] \in WConn /\ UNCHANGED <<relayVars, clientVars, broken>>
         /\ shut' = shut \/ shut' = shut \cup {conn[t]}
         /\ gone' = gone \/ gone' = gone \cup {conn[t]}
         /\ \A c \in WConn : c # conn[t] => outbox'[c] = outbox[c] /\ inbox'[c] = inbox[c]
         /\ \A u \in Tunnel : u # t => /\ conn'[u] = conn[u] /\ llama'[u] = llama[u]
                                       /\ request'[u] = request[u]
<1> USE DEF Base, Kinds, Standing, Drop, Lose, Take, tunnelVars, endVars
<1>1. CASE Ending(t) \/ SeeEnd(t)
  BY <1>1 DEF Ending, Break, Vanish, SeeEnd
<1>2. CASE ReadFirst(t)
  BY <1>2 DEF ReadFirst
<1>3. CASE CopyIn(t)
  BY <1>3 DEF CopyIn
<1>4. CASE AnswerBegins(t)
  BY <1>4 DEF AnswerBegins
<1>5. CASE AnswerEnds(t)
  BY <1>5 DEF AnswerEnds
<1>6. CASE GiveUp(t)
  BY <1>6 DEF GiveUp
<1>7. QED
  BY <1>1, <1>2, <1>3, <1>4, <1>5, <1>6 DEF Tunneling, Serving, WorkerStep

\* What happens to the tunnel that takes the step: its connection is given
\* up, the answer has begun or ended, or both ends stay where they were but
\* for the connection to llama-server.
LEMMA WorkerPhases ==
  ASSUME Base, NEW t \in Tunnel, WorkerStep(t)
  PROVE  \/ conn'[t] = None /\ request'[t] = <<>> /\ UNCHANGED outbox
         \/ /\ conn'[t] = conn[t] /\ gone' = gone
            /\ \/ llama[t] \in {"open", "answering"} /\ llama'[t] = "closed"
               \/ llama[t] = "open" /\ llama'[t] = "answering" /\ shut' = shut
               \/ /\ llama[t] = "none" /\ llama'[t] = "open" /\ UNCHANGED <<outbox, shut>>
               \/ llama'[t] = llama[t] /\ UNCHANGED <<outbox, shut>>
<1> USE DEF Base, Kinds, Standing, Drop, Lose, tunnelVars, endVars
<1>1. CASE Ending(t) \/ SeeEnd(t)
  BY <1>1 DEF Ending, Break, Vanish, SeeEnd
<1>2. CASE ReadFirst(t)
  BY <1>2 DEF ReadFirst
<1>3. CASE CopyIn(t)
  BY <1>3 DEF CopyIn
<1>4. CASE Serving(t)
  BY <1>4 DEF Serving, AnswerBegins, AnswerEnds, GiveUp
<1>5. QED
  BY <1>1, <1>2, <1>3, <1>4 DEF Tunneling, WorkerStep

\* The relay's side leaves the tunnels and their connections as they are.
RelayStep(c) == Handling(c) \/ ForwardRest(c) \/ UpEnds(c) \/ DownEnds(c) \/ DownBreaks(c)
                \/ BridgeDone(c)
ApiStep(a)   == Accept(a) \/ Handle(a) \/ ClientLeaves(a)

LEMMA NextMeans ==
  [Next]_vars <=> \/ \E c \in WConn : RelayStep(c) \/ Deliver(c) \/ Notice(c)
                  \/ \E a \in AConn : ApiStep(a)
                  \/ \E t \in Tunnel : WorkerStep(t) \/ \E c \in WConn : Connect(t, c)
                  \/ UNCHANGED vars
BY DEF Next, Bridging, RelayStep, ApiStep, WorkerStep

LEMMA RelaySide ==
  ASSUME \/ \E c \in WConn : RelayStep(c)
         \/ \E a \in AConn : ApiStep(a)
         \/ UNCHANGED vars
  PROVE  UNCHANGED <<outbox, shut, gone, conn, tunnel, llama, request>>
<1> USE DEF tunnelVars, endVars
<1>1. ASSUME NEW c \in WConn, RelayStep(c) PROVE UNCHANGED <<outbox, shut, gone, conn, tunnel, llama, request>>
  BY <1>1 DEF RelayStep, Handling, Register, Wait, Wake, Leave, ForwardRest, UpEnds, DownEnds,
              DownBreaks, BridgeDone
<1>2. ASSUME NEW a \in AConn, ApiStep(a) PROVE UNCHANGED <<outbox, shut, gone, conn, tunnel, llama, request>>
  BY <1>2 DEF ApiStep, Handle, Accept, Unheard, HandleApi, ClientLeaves
<1>3. CASE UNCHANGED vars
  BY <1>3 DEF vars
<1>4. QED
  BY <1>1, <1>2, <1>3

\* Of the steps of the API's side only handle_api's touches a worker's thread.
LEMMA ApiSide ==
  ASSUME NEW a \in AConn, ApiStep(a)
  PROVE  /\ UNCHANGED <<entry, bridged, flow, closed, got>>
         /\ HandleApi(a) \/ UNCHANGED <<api, thread, inbox>>
BY DEF ApiStep, Handle, Accept, Unheard, HandleApi, ClientLeaves, relayVars

LEMMA ApiThreads ==
  ASSUME Base, NEW a \in AConn, ApiStep(a)
  PROVE  \/ UNCHANGED <<thread, inbox>>
         \/ /\ entry \in WConn /\ thread[entry] \notin {"unused", "accepted", "ended"}
            /\ inbox' = [inbox EXCEPT ![entry] = Append(inbox[entry], <<a, "first">>)]
            /\ \A c \in WConn : \/ thread'[c] = thread[c]
                                \/ c = entry /\ thread[c] = "waiting" /\ thread'[c] = "notified"
<1>1. CASE HandleApi(a) /\ ~ UNCHANGED <<thread, inbox>>
  <2>1. /\ entry \in WConn
        /\ inbox' = [inbox EXCEPT ![entry] = Append(inbox[entry], <<a, "first">>)]
        /\ thread' = [thread EXCEPT ![entry] = IF thread[entry] = "waiting" THEN "notified"
                                              ELSE thread[entry]]
    BY <1>1 DEF HandleApi, Base, Kinds
  <2>2. thread[entry] \notin {"unused", "accepted", "ended"} /\ DOMAIN thread = WConn
    <3>1. entry # None
      BY <2>1, RelayAssumption
    <3>2. QED
      BY <3>1 DEF Base, Kinds, Failing
  <2>3. /\ thread'[entry] = IF thread[entry] = "waiting" THEN "notified" ELSE thread[entry]
        /\ \A c \in WConn : c # entry => thread'[c] = thread[c]
    BY <2>1, <2>2
  <2>4. QED
    BY <2>1, <2>2, <2>3
<1>2. QED
  BY <1>1, ApiSide

LEMMA ThreadsStep == Base /\ Threads /\ Tunnels /\ [Next]_vars => Threads'
<1> SUFFICES ASSUME Base, Threads, Tunnels, [Next]_vars PROVE Threads'
  OBVIOUS
<1> USE RelayAssumption DEF Base, Kinds, Standing, Goto
<1>1. ASSUME NEW c \in WConn, RelayStep(c) PROVE Threads'
  <2>1. UNCHANGED <<outbox, shut, gone>>
    BY <1>1, RelaySide
  <2>2. CASE Register(c)
    BY <2>1, <2>2 DEF Register, Threads
  <2>3. CASE Wait(c)
    BY <2>1, <2>3 DEF Wait, Threads
  <2>4. CASE Wake(c)
    BY <2>1, <2>4 DEF Wake, Threads
  <2>5. CASE Leave(c)
    BY <2>1, <2>5 DEF Leave, Threads
  <2>6. CASE BridgeDone(c)
    <3>1. UNCHANGED <<entry, closed, inbox>> /\ thread' = [thread EXCEPT ![c] = "registered"]
          /\ thread[c] = "bridging"
      BY <2>6 DEF BridgeDone
    <3>2. QED
      BY <2>1, <3>1 DEF Threads
  <2>7. CASE ForwardRest(c) \/ UpEnds(c) \/ DownEnds(c) \/ DownBreaks(c)
    <3>1. UNCHANGED <<entry, thread, closed>>
      BY <2>7 DEF ForwardRest, UpEnds, DownEnds, DownBreaks
    <3>2. \A d \in WConn : thread[d] = "unused" => inbox'[d] = inbox[d]
      <4>1. CASE ForwardRest(c)
        <5>1. thread[c] = "bridging" /\ \A d \in WConn : d # c => inbox'[d] = inbox[d]
          BY <4>1 DEF ForwardRest
        <5>2. QED
          BY <5>1
      <4>2. CASE UNCHANGED inbox
        BY <4>2
      <4>3. QED
        BY <2>7, <4>1, <4>2 DEF UpEnds, DownEnds, DownBreaks
    <3>3. QED
      BY <2>1, <3>1, <3>2 DEF Threads
  <2>8. QED
    BY <1>1, <2>2, <2>3, <2>4, <2>5, <2>6, <2>7 DEF RelayStep, Handling
<1>2. ASSUME NEW c \in WConn, Deliver(c) PROVE Threads'
  <2>1. /\ UNCHANGED <<entry, thread, closed, inbox, shut, gone>> /\ thread[c] # "unused"
        /\ \A d \in WConn : d # c => outbox'[d] = outbox[d]
    BY <1>2 DEF Deliver, tunnelVars, endVars
  <2>2. QED
    BY <2>1 DEF Threads
<1>3. ASSUME NEW c \in WConn, Notice(c) PROVE Threads'
  <2>1. /\ UNCHANGED <<entry, thread, closed, inbox, outbox, gone>>
        /\ c \in gone /\ shut' = shut \cup {c}
    BY <1>3 DEF Notice, relayVars, endVars
  <2>2. QED
    BY <2>1 DEF Threads
<1>4. ASSUME NEW a \in AConn, ApiStep(a) PROVE Threads'
  <2>1. UNCHANGED <<entry, closed, outbox, shut, gone>>
    BY <1>4, ApiSide, RelaySide
  <2>2. \A d \in WConn : /\ thread'[d] \in {"unused", "accepted"} <=> thread[d] \in {"unused", "accepted"}
                         /\ thread'[d] = "unused" <=> thread[d] = "unused"
                         /\ thread[d] = "unused" => inbox'[d] = inbox[d]
    <3>1. CASE UNCHANGED <<thread, inbox>>
      BY <3>1
    <3>2. CASE ~ UNCHANGED <<thread, inbox>>
      <4>1. /\ entry \in WConn /\ thread[entry] # "unused"
            /\ \A d \in WConn : d # entry => inbox'[d] = inbox[d]
        BY <1>4, <3>2, ApiThreads
      <4>2. \A d \in WConn : thread'[d] = thread[d] \/ (thread[d] = "waiting" /\ thread'[d] = "notified")
        BY <1>4, <3>2, ApiThreads
      <4>3. QED
        BY <4>1, <4>2
    <3>3. QED
      BY <3>1, <3>2
  <2>3. QED
    BY <2>1, <2>2 DEF Threads
<1>5. ASSUME NEW t \in Tunnel, NEW c \in WConn, Connect(t, c) PROVE Threads'
  BY <1>5 DEF Connect, Threads
<1>6. ASSUME NEW t \in Tunnel, WorkerStep(t) PROVE Threads'
  <2>1. conn[t] \in WConn /\ thread[conn[t]] # "unused"
    BY <1>6, WorkerSide DEF Tunnels
  <2>2. UNCHANGED <<entry, thread, closed>>
    BY <1>6, WorkerSide DEF relayVars
  <2>3. /\ shut' = shut \/ shut' = shut \cup {conn[t]}
        /\ gone' = gone \/ gone' = gone \cup {conn[t]}
    BY <1>6, WorkerSide
  <2>4. \A d \in WConn : thread[d] = "unused" =>
           /\ outbox'[d] = outbox[d] /\ inbox'[d] = inbox[d]
           /\ d \in shut' => d \in shut
           /\ d \in gone' => d \in gone
    <3>1. \A d \in WConn : d # conn[t] => outbox'[d] = outbox[d] /\ inbox'[d] = inbox[d]
      BY <1>6, WorkerSide
    <3>2. QED
      BY <2>1, <2>3, <3>1
  <2>5. QED
    BY <2>2, <2>4 DEF Threads
<1>7. CASE UNCHANGED vars
  BY <1>7 DEF vars, Threads, relayVars, tunnelVars, endVars
<1>8. QED
  BY <1>1, <1>2, <1>3, <1>4, <1>5, <1>6, <1>7, NextMeans

LEMMA TunnelsStep == Base /\ Threads /\ Tunnels /\ [Next]_vars => Tunnels'
<1> SUFFICES ASSUME Base, Threads, Tunnels, [Next]_vars PROVE Tunnels'
  OBVIOUS
<1> USE RelayAssumption DEF Base, Kinds, Standing, Goto
<1>1. ASSUME UNCHANGED <<gone, conn, tunnel, llama, request>>,
             \A c \in WConn : thread[c] # "unused" => thread'[c] # "unused"
      PROVE  Tunnels'
  BY <1>1 DEF Tunnels
<1>2. ASSUME NEW c \in WConn, RelayStep(c) PROVE Tunnels'
  <2>1. \A d \in WConn : thread[d] # "unused" => thread'[d] # "unused"
    BY <1>2 DEF RelayStep, Handling, Register, Wait, Wake, Leave, ForwardRest, UpEnds, DownEnds,
                DownBreaks, BridgeDone
  <2>2. QED
    BY <1>1, <1>2, <2>1, RelaySide
<1>3. ASSUME NEW c \in WConn, Deliver(c) \/ Notice(c) PROVE Tunnels'
  BY <1>1, <1>3 DEF Deliver, Notice, relayVars, tunnelVars, endVars
<1>4. ASSUME NEW a \in AConn, ApiStep(a) PROVE Tunnels'
  <2>1. \A d \in WConn : thread[d] # "unused" => thread'[d] # "unused"
    BY <1>4, ApiThreads
  <2>2. QED
    BY <1>1, <1>4, <2>1, RelaySide
<1>5. ASSUME NEW t \in Tunnel, NEW c \in WConn, Connect(t, c) PROVE Tunnels'
  <2>1. /\ conn' = [conn EXCEPT ![t] = c] /\ UNCHANGED <<gone, llama, request>>
        /\ thread' = [thread EXCEPT ![c] = "accepted"] /\ thread[c] = "unused"
        /\ \A u \in Tunnel : tunnel'[u] = "copying" => tunnel[u] = "copying"
    BY <1>5 DEF Connect
  <2>2. c \notin gone /\ \A u \in Tunnel : conn[u] # c
    BY <2>1 DEF Threads, Tunnels
  <2>3. QED
    BY <2>1, <2>2 DEF Tunnels
<1>6. ASSUME NEW t \in Tunnel, WorkerStep(t) PROVE Tunnels'
  <2>1. thread' = thread
    BY <1>6, WorkerSide DEF relayVars
  <2>2. \A u \in Tunnel : conn'[u] \in {None, conn[u]}
    BY <1>6, WorkerSide, WorkerPhases
  <2>3. ASSUME NEW u \in Tunnel, conn'[u] # None PROVE conn[u] \notin gone'
    <3>1. CASE u = t
      BY <1>6, <2>3, <3>1, WorkerPhases DEF Tunnels
    <3>2. CASE u # t
      <4>1. conn[u] # None /\ conn[u] # conn[t] /\ conn[u] \notin gone
        BY <2>2, <2>3, <3>2 DEF Tunnels
      <4>2. gone' = gone \/ gone' = gone \cup {conn[t]}
        BY <1>6, WorkerSide
      <4>3. QED
        BY <4>1, <4>2
    <3>3. QED
      BY <3>1, <3>2
  <2>4. ASSUME NEW u \in Tunnel, llama'[u] \in {"none", "closed"} PROVE request'[u] = <<>>
    <3>1. CASE u # t
      BY <1>6, <2>4, <3>1, WorkerSide DEF Tunnels
    <3>2. CASE u = t
      <4>1. CASE Drop(t) \/ Vanish(t)
        BY <2>4, <3>2, <4>1 DEF Drop, Vanish, Lose
      <4>2. CASE ReadFirst(t) /\ ~ Drop(t)
        BY <2>4, <3>2, <4>2 DEF ReadFirst
      <4>3. CASE CopyIn(t) /\ ~ Drop(t)
        <5>1. \/ llama[t] # "closed" /\ llama' = llama
              \/ UNCHANGED <<llama, request>>
          BY <4>3 DEF CopyIn, tunnelVars, endVars
        <5>2. llama[t] # "none"
          BY <4>3 DEF CopyIn, Tunnels
        <5>3. QED
          BY <2>4, <3>2, <5>1, <5>2 DEF Tunnels
      <4>4. CASE AnswerBegins(t)
        BY <2>4, <3>2, <4>4 DEF AnswerBegins
      <4>5. CASE AnswerEnds(t) \/ GiveUp(t)
        BY <2>4, <3>2, <4>5 DEF AnswerEnds, GiveUp
      <4>6. QED
        BY <1>6, <4>1, <4>2, <4>3, <4>4, <4>5
           DEF WorkerStep, Tunneling, Serving, Ending, SeeEnd, Break
    <3>3. QED
      BY <3>1, <3>2
  <2>5. ASSUME NEW u \in Tunnel, tunnel'[u] = "copying" PROVE llama'[u] # "none"
    <3>1. CASE Drop(t) \/ Vanish(t)
      <4>1. /\ tunnel' = [tunnel EXCEPT ![t] = "idle"] /\ llama' = [llama EXCEPT ![t] = "none"]
        BY <3>1 DEF Drop, Vanish, Lose
      <4>2. QED
        BY <2>5, <4>1 DEF Tunnels
    <3>2. CASE ReadFirst(t) /\ ~ Drop(t)
      <4>1. tunnel' = [tunnel EXCEPT ![t] = "copying"] /\ llama' = [llama EXCEPT ![t] = "open"]
        BY <3>2 DEF ReadFirst
      <4>2. QED
        BY <2>5, <4>1 DEF Tunnels
    <3>3. CASE CopyIn(t) /\ ~ Drop(t)
      <4>1. UNCHANGED <<tunnel, llama>>
        BY <3>3 DEF CopyIn, tunnelVars, endVars
      <4>2. QED
        BY <2>5, <4>1 DEF Tunnels
    <3>4. CASE Serving(t)
      <4>1. tunnel' = tunnel /\ llama'[t] \in {"answering", "closed"}
            /\ \A v \in Tunnel : v # t => llama'[v] = llama[v]
        BY <3>4 DEF Serving, AnswerBegins, AnswerEnds, GiveUp
      <4>2. QED
        BY <2>5, <4>1 DEF Tunnels
    <3>5. QED
      BY <1>6, <3>1, <3>2, <3>3, <3>4 DEF WorkerStep, Tunneling, Ending, SeeEnd, Break
  <2>6. ASSUME NEW u \in Tunnel, NEW v \in Tunnel, conn'[u] # None, conn'[u] = conn'[v] PROVE u = v
    BY <2>2, <2>6 DEF Tunnels
  <2>7. ASSUME NEW u \in Tunnel, conn'[u] # None PROVE thread'[conn'[u]] # "unused"
    BY <2>1, <2>2, <2>7 DEF Tunnels
  <2>8. ASSUME NEW u \in Tunnel, conn'[u] # None PROVE conn'[u] \notin gone'
    BY <2>2, <2>3, <2>8
  <2>9. QED
    BY <2>4, <2>5, <2>6, <2>7, <2>8 DEF Tunnels
<1>7. CASE UNCHANGED vars
  BY <1>1, <1>7 DEF vars, relayVars, tunnelVars, endVars
<1>8. QED
  BY <1>2, <1>3, <1>4, <1>5, <1>6, <1>7, NextMeans

\* What llama-server adds to the answer.
LEMMA AnswerGrows ==
  ASSUME Base, NEW t \in Tunnel, AnswerBegins(t) \/ AnswerEnds(t)
  PROVE  \E k \in {"head", "tail"} :
           /\ k = "head" <=> AnswerBegins(t)
           /\ <<Answer(request[t]), k>> \in Answers
           /\ conn[t] \in WConn /\ outbox[conn[t]] \in Seq(Answers)
           /\ outbox' = [outbox EXCEPT ![conn[t]] = Append(@, <<Answer(request[t]), k>>)]
<1>1. /\ llama[t] = "open" <=> AnswerBegins(t)
      /\ conn[t] \in WConn /\ outbox[conn[t]] \in Seq(Answers)
      /\ Whole(request[t]) /\ request[t] \in Seq(Parts)
  BY DEF AnswerBegins, AnswerEnds, Base, Kinds, Standing
<1>2. \A k \in {"head", "tail"} : <<Answer(request[t]), k>> \in Answers
  BY <1>1, AnswerTyped DEF Answers
<1>3. CASE AnswerBegins(t)
  BY <1>1, <1>2, <1>3 DEF AnswerBegins
<1>4. CASE AnswerEnds(t) /\ ~ AnswerBegins(t)
  BY <1>1, <1>2, <1>4 DEF AnswerEnds
<1>5. QED
  BY <1>3, <1>4

LEMMA OneAnswerStep == Base /\ OneAnswer /\ Phases /\ [Next]_vars => OneAnswer'
<1> SUFFICES ASSUME Base, OneAnswer, Phases, [Next]_vars PROVE OneAnswer'
  OBVIOUS
<1>1. CASE UNCHANGED outbox
  BY <1>1 DEF OneAnswer
<1>2. ASSUME NEW c \in WConn, Deliver(c) PROVE OneAnswer'
  <2>1. /\ outbox[c] \in Seq(Answers) /\ outbox[c] # <<>> /\ outbox'[c] = Tail(outbox[c])
        /\ \A d \in WConn : d # c => outbox'[d] = outbox[d]
    BY <1>2 DEF Deliver, Base, Kinds
  <2>2. OneHead(Tail(outbox[c]))
    BY <2>1, HeadTaken DEF OneAnswer
  <2>3. QED
    BY <2>1, <2>2 DEF OneAnswer
<1>3. ASSUME NEW t \in Tunnel, AnswerBegins(t) \/ AnswerEnds(t) PROVE OneAnswer'
  <2> DEFINE c == conn[t]
  <2>1. PICK k \in {"head", "tail"} :
             /\ k = "head" <=> AnswerBegins(t)
             /\ <<Answer(request[t]), k>> \in Answers
             /\ c \in WConn /\ outbox[c] \in Seq(Answers)
             /\ outbox' = [outbox EXCEPT ![c] = Append(@, <<Answer(request[t]), k>>)]
    BY <1>3, AnswerGrows
  <2>2. /\ outbox'[c] = Append(outbox[c], <<Answer(request[t]), k>>)
        /\ \A d \in WConn : d # c => outbox'[d] = outbox[d]
    BY <2>1 DEF Base, Kinds
  <2>3. OneHead(outbox'[c])
    <3>1. CASE k = "head"
      <4>1. outbox[c] = <<>>
        BY <2>1, <3>1, RelayAssumption DEF AnswerBegins, Phases
      <4>2. outbox'[c] = << <<Answer(request[t]), k>> >>
        BY <2>2, <4>1
      <4>3. QED
        BY <4>2 DEF OneHead
    <3>2. CASE k = "tail"
      BY <2>1, <2>2, <3>2, TailAdded DEF OneAnswer
    <3>3. QED
      BY <2>1, <3>1, <3>2
  <2>4. QED
    BY <2>2, <2>3 DEF OneAnswer
<1>4. ASSUME NEW t \in Tunnel, WorkerStep(t), ~ (AnswerBegins(t) \/ AnswerEnds(t)) PROVE UNCHANGED outbox
  BY <1>4 DEF WorkerStep, Tunneling, Serving, Ending, ReadFirst, CopyIn, SeeEnd, GiveUp, Break, Vanish
<1>5. ASSUME NEW t \in Tunnel, NEW c \in WConn, Connect(t, c) PROVE UNCHANGED outbox
  BY <1>5 DEF Connect
<1>6. ASSUME NEW c \in WConn, Notice(c) PROVE UNCHANGED outbox
  BY <1>6 DEF Notice
<1>7. QED
  BY <1>1, <1>2, <1>3, <1>4, <1>5, <1>6, NextMeans, RelaySide

LEMMA PhasesStep == Base /\ Threads /\ Tunnels /\ Phases /\ [Next]_vars => Phases'
<1> SUFFICES ASSUME Base, Threads, Tunnels, Phases, [Next]_vars PROVE Phases'
  OBVIOUS
<1> USE RelayAssumption
<1>1. CASE UNCHANGED <<outbox, shut, conn, llama>>
  BY <1>1 DEF Phases
<1>2. ASSUME NEW c \in WConn, Deliver(c) PROVE Phases'
  <2>1. /\ UNCHANGED <<shut, conn, llama>> /\ outbox[c] # <<>>
        /\ \A d \in WConn : d # c => outbox'[d] = outbox[d]
    BY <1>2 DEF Deliver, tunnelVars, endVars, Base, Kinds
  <2>2. \A t \in Tunnel : conn[t] # None => conn[t] \in WConn
    BY DEF Base, Kinds
  <2>3. QED
    BY <2>1, <2>2 DEF Phases
<1>3. ASSUME NEW c \in WConn, Notice(c) PROVE Phases'
  <2>1. UNCHANGED <<outbox, conn, llama>> /\ c \in gone /\ shut' = shut \cup {c}
    BY <1>3 DEF Notice, endVars
  <2>2. \A t \in Tunnel : conn[t] # None => conn[t] # c
    BY <2>1 DEF Tunnels
  <2>3. QED
    BY <2>1, <2>2 DEF Phases
<1>4. ASSUME NEW t \in Tunnel, NEW c \in WConn, Connect(t, c) PROVE Phases'
  <2>1. UNCHANGED <<outbox, shut, llama>> /\ conn' = [conn EXCEPT ![t] = c] /\ thread[c] = "unused"
    BY <1>4 DEF Connect
  <2>2. c \notin shut /\ outbox[c] = <<>>
    BY <2>1 DEF Threads
  <2>3. \A u \in Tunnel : conn'[u] = IF u = t THEN c ELSE conn[u]
    BY <2>1 DEF Base, Kinds
  <2>4. QED
    BY <2>1, <2>2, <2>3 DEF Phases
<1>5. ASSUME NEW t \in Tunnel, WorkerStep(t) PROVE Phases'
  <2>1. ASSUME NEW u \in Tunnel, u # t, conn'[u] # None
        PROVE  /\ conn'[u] \in shut' => llama'[u] = "closed"
               /\ llama'[u] \in {"none", "open"} => outbox'[conn'[u]] = <<>>
    <3>1. conn'[u] = conn[u] /\ llama'[u] = llama[u]
      BY <1>5, <2>1, WorkerSide
    <3>2. conn[u] # conn[t] /\ conn[u] \in WConn
      BY <2>1, <3>1 DEF Tunnels, Base, Kinds
    <3>3. outbox'[conn[u]] = outbox[conn[u]] /\ (conn[u] \in shut' <=> conn[u] \in shut)
      BY <1>5, <3>2, WorkerSide
    <3>4. QED
      BY <2>1, <3>1, <3>3 DEF Phases
  <2>2. ASSUME conn'[t] # None
        PROVE  /\ conn'[t] \in shut' => llama'[t] = "closed"
               /\ llama'[t] \in {"none", "open"} => outbox'[conn'[t]] = <<>>
    <3>1. conn[t] # None
      BY <1>5, WorkerSide
    <3>2. QED
      BY <1>5, <2>2, <3>1, WorkerPhases DEF Phases
  <2>3. QED
    BY <2>1, <2>2 DEF Phases
<1>6. QED
  BY <1>1, <1>2, <1>3, <1>4, <1>5, NextMeans, RelaySide

LEMMA ServedStep == Base /\ Phases /\ Served /\ [Next]_vars => Served'
<1> SUFFICES ASSUME Base, Phases, Served, [Next]_vars PROVE Served'
  OBVIOUS
<1> USE RelayAssumption DEF Base, Kinds, Standing
\* An answer that has begun stays so, since an unused connection is not bridged.
<1>1. ASSUME \A c \in WConn : c \in closed => c \in closed',
             \A c \in WConn : Answered(c) /\ thread[c] = "bridging" => Answered(c)',
             \A c \in WConn : thread'[c] = "bridging" /\ "down" \notin flow'[c] =>
                \/ thread[c] = "bridging" /\ "down" \notin flow[c]
                \/ thread[c] = "bridging" /\ (c \in closed \/ Answered(c))
      PROVE  Served'
  BY <1>1 DEF Served
<1>2. ASSUME NEW c \in WConn, RelayStep(c) PROVE Served'
  <2>1. \A d \in WConn : Answered(d)' <=> Answered(d)
    BY <1>2, RelaySide DEF Answered
  <2>2. \A d \in closed : d \in closed'
    BY <1>2 DEF RelayStep, Handling, Register, Wait, Wake, Leave, ForwardRest, UpEnds, DownEnds,
                DownBreaks, BridgeDone
  <2>3. \A d \in WConn : d # c => thread'[d] = thread[d] /\ flow'[d] = flow[d]
    BY <1>2 DEF RelayStep, Handling, Register, Wait, Wake, Leave, ForwardRest, UpEnds, DownEnds,
                DownBreaks, BridgeDone, Goto, Stops
  <2>4. ASSUME thread'[c] = "bridging", "down" \notin flow'[c]
        PROVE  /\ thread[c] = "bridging"
               /\ "down" \notin flow[c] \/ c \in closed \/ Answered(c)
    <3>1. CASE Handling(c) \/ BridgeDone(c)
      BY <2>4, <3>1 DEF Handling, Register, Wait, Wake, Leave, BridgeDone, Goto
    <3>2. CASE ForwardRest(c) \/ UpEnds(c)
      <4>1. \/ flow' = [flow EXCEPT ![c] = (flow[c] \ {"rest"}) \cup {"up"}]
            \/ flow' = [flow EXCEPT ![c] = flow[c] \ {"rest"}]
            \/ flow' = [flow EXCEPT ![c] = flow[c] \ {"up"}]
        BY <3>2 DEF ForwardRest, UpEnds, Stops
      <4>2. thread' = thread
        BY <3>2 DEF ForwardRest, UpEnds
      <4>3. "down" \notin flow[c]
        BY <2>4, <4>1
      <4>4. QED
        BY <2>4, <4>2, <4>3
    <3>3. CASE DownEnds(c)
      <4>1. c \in shut /\ thread' = thread
        BY <3>3 DEF DownEnds
      <4>2. Answered(c)
        BY <4>1 DEF Answered, Phases
      <4>3. QED
        BY <2>4, <4>1, <4>2
    <3>4. CASE DownBreaks(c)
      BY <2>4, <3>4 DEF DownBreaks
    <3>5. QED
      BY <1>2, <3>1, <3>2, <3>3, <3>4 DEF RelayStep
  <2>5. QED
    BY <1>1, <2>1, <2>2, <2>3, <2>4
<1>3. ASSUME NEW c \in WConn, Deliver(c) PROVE Served'
  <2>1. /\ UNCHANGED <<thread, closed, conn, llama>> /\ outbox[c] # <<>>
        /\ \A d \in WConn : d # c => flow'[d] = flow[d]
    BY <1>3 DEF Deliver, Stops, tunnelVars, endVars
  <2>2. Answered(c)
    <3>1. ASSUME NEW t \in Tunnel, conn[t] = c PROVE llama[t] \notin {"none", "open"}
      BY <2>1, <3>1 DEF Phases
    <3>2. QED
      BY <3>1 DEF Answered
  <2>3. \A d \in WConn : Answered(d)' <=> Answered(d)
    BY <2>1 DEF Answered
  <2>4. QED
    BY <1>1, <2>1, <2>2, <2>3
<1>4. ASSUME UNCHANGED <<flow, closed>>,
             \A c \in WConn : Answered(c) /\ thread[c] = "bridging" => Answered(c)',
             \A c \in WConn : thread'[c] = "bridging" => thread[c] = "bridging"
      PROVE  Served'
  BY <1>1, <1>4
<1>5. ASSUME NEW a \in AConn, ApiStep(a) PROVE Served'
  <2>1. \A d \in WConn : Answered(d)' <=> Answered(d)
    BY <1>5, RelaySide DEF Answered
  <2>2. \A d \in WConn : thread'[d] = "bridging" => thread[d] = "bridging"
    BY <1>5, ApiThreads
  <2>3. QED
    BY <1>4, <1>5, <2>1, <2>2, ApiSide
<1>6. ASSUME NEW c \in WConn, Notice(c) PROVE Served'
  <2>1. UNCHANGED <<thread, flow, closed, conn, llama>>
    BY <1>6 DEF Notice, relayVars, endVars
  <2>2. \A d \in WConn : Answered(d)' <=> Answered(d)
    BY <2>1 DEF Answered
  <2>3. QED
    BY <1>4, <2>1, <2>2
<1>7. ASSUME NEW t \in Tunnel, NEW c \in WConn, Connect(t, c) PROVE Served'
  <2>1. /\ UNCHANGED <<flow, closed, llama>> /\ conn' = [conn EXCEPT ![t] = c]
        /\ thread[c] = "unused" /\ thread' = [thread EXCEPT ![c] = "accepted"]
    BY <1>7 DEF Connect, Goto
  <2>2. ASSUME NEW d \in WConn, d # c, Answered(d) PROVE Answered(d)'
    BY <2>1, <2>2 DEF Answered
  <2>3. QED
    BY <1>4, <2>1, <2>2
<1>8. ASSUME NEW t \in Tunnel, WorkerStep(t) PROVE Served'
  <2>1. UNCHANGED <<thread, flow, closed>>
    BY <1>8, WorkerSide DEF relayVars
  <2>2. ASSUME NEW c \in WConn, Answered(c) PROVE Answered(c)'
    <3>1. SUFFICES ASSUME NEW u \in Tunnel, conn'[u] = c
                   PROVE  llama'[u] \in {"answering", "closed"}
      BY DEF Answered
    <3>2. CASE u # t
      BY <1>8, <2>2, <3>1, <3>2, WorkerSide DEF Answered
    <3>3. CASE u = t
      <4>1. conn'[t] # None
        BY <3>1, <3>3
      <4>2. conn'[t] = conn[t]
        BY <1>8, <4>1, WorkerPhases
      <4>3. llama[t] \in {"answering", "closed"}
        BY <2>2, <3>1, <3>3, <4>2 DEF Answered
      <4>4. QED
        BY <1>8, <3>3, <4>1, <4>3, WorkerPhases
    <3>4. QED
      BY <3>2, <3>3
  <2>3. QED
    BY <1>4, <2>1, <2>2
<1>9. CASE UNCHANGED vars
  BY <1>4, <1>9 DEF vars, relayVars, tunnelVars, endVars, Answered
<1>10. QED
  BY <1>2, <1>3, <1>5, <1>6, <1>7, <1>8, <1>9, NextMeans

\* One step that leaves the connections' parts alone, or only takes from them.
LEMMA KeptBound ==
  ASSUME AllBound,
         \A c \in WConn, a \in AConn : Left(c, a)' => Left(c, a),
         \A c \in WConn, a \in AConn : Left(c, a)' /\ Bound(c, a) => Bound(c, a)'
  PROVE  AllBound'
BY DEF AllBound

\* The side of the relay does not touch what a request needs of the worker's.
LEMMA LeftAlike ==
  ASSUME UNCHANGED <<outbox, inbox, conn, llama, request>>, NEW c, NEW a
  PROVE  Left(c, a)' <=> Left(c, a)
BY DEF Left

\* An answer that begins is to the request the tunnel holds the rest of.
LEMMA AnswerLeft ==
  ASSUME Base, NEW t \in Tunnel, AnswerBegins(t), NEW a \in AConn, Answer(request[t]) = a
  PROVE  Left(conn[t], a)
<1>1. /\ llama[t] = "open" /\ conn[t] \in WConn /\ Whole(request[t])
      /\ request[t] \in Seq(Parts)
  BY DEF AnswerBegins, Base, Kinds, Standing
<1>2. request[t][2] = <<a, "rest">>
  BY RelayAssumption DEF Answer
<1>3. In(request[t], <<a, "rest">>)
  <2>1. 2 \in DOMAIN request[t]
    BY <1>1 DEF Whole
  <2>2. QED
    BY <1>2, <2>1 DEF In
<1>4. QED
  BY <1>1, <1>3 DEF Left

\* Nothing new is left after a step of the tunnel's or llama-server's.
LEMMA LeftLess ==
  ASSUME Base, NEW t \in Tunnel, WorkerStep(t), NEW c \in WConn, NEW a \in AConn, Left(c, a)'
  PROVE  Left(c, a)
<1> DEFINE r == <<a, "rest">>
<1>0. /\ inbox \in [WConn -> Seq(Parts)] /\ outbox \in [WConn -> Seq(Answers)]
      /\ request \in [Tunnel -> Seq(Parts)] /\ conn \in [Tunnel -> WConn \cup {None}]
      /\ llama \in [Tunnel -> {"none", "open", "answering", "closed"}]
  BY DEF Base, Kinds
<1>1. conn[t] \in WConn
  BY WorkerSide
<1>2. ASSUME In(outbox'[c], <<a, "head">>) => Left(c, a),
             In(inbox'[c], r) => In(inbox[c], r),
             conn'[t] # None /\ llama'[t] \in {"none", "open"} =>
               /\ conn'[t] = conn[t] /\ llama[t] \in {"none", "open"}
               /\ In(request'[t], r) => In(request[t], r) \/ In(inbox[conn[t]], r)
      PROVE  Left(c, a)
  <2>1. CASE In(outbox'[c], <<a, "head">>)
    BY <1>2, <2>1
  <2>2. ASSUME NEW u \in Tunnel, conn'[u] = c, llama'[u] \in {"none", "open"},
               In(inbox'[c], r) \/ In(request'[u], r)
        PROVE  Left(c, a)
    <3>1. CASE u = t
      <4>1. conn[t] = c /\ llama[t] \in {"none", "open"} /\ (In(inbox[c], r) \/ In(request[t], r))
        BY <1>2, <2>2, <3>1, RelayAssumption
      <4>2. QED
        BY <4>1 DEF Left
    <3>2. CASE u # t
      <4>1. conn[u] = c /\ llama[u] \in {"none", "open"} /\ (In(inbox[c], r) \/ In(request[u], r))
        BY <1>2, <2>2, <3>2, WorkerSide
      <4>2. QED
        BY <4>1 DEF Left
    <3>3. QED
      BY <3>1, <3>2
  <2>3. QED
    BY <2>1, <2>2 DEF Left
<1>3. ASSUME conn'[t] = None, UNCHANGED outbox, In(inbox'[c], r) => In(inbox[c], r)
      PROVE  Left(c, a)
  BY <1>2, <1>3 DEF Left
<1>4. ASSUME Take(t), inbox[conn[t]] # <<>>
      PROVE  /\ In(inbox'[c], r) => In(inbox[c], r)
             /\ Head(inbox[conn[t]]) = r => In(inbox[conn[t]], r)
             /\ Head(inbox[conn[t]]) \in Parts
  <2>1. inbox[conn[t]] \in Seq(Parts)
    BY <1>0, <1>1
  <2>2. /\ c # conn[t] => inbox'[c] = inbox[c]
        /\ inbox'[conn[t]] = Tail(inbox[conn[t]])
    BY <1>0, <1>1, <1>4 DEF Take
  <2>3. In(Tail(inbox[conn[t]]), r) \/ Head(inbox[conn[t]]) = r => In(inbox[conn[t]], r)
    BY <1>4, <2>1, InTail
  <2>4. Head(inbox[conn[t]]) \in Parts
    BY <1>4, <2>1
  <2>5. QED
    BY <2>2, <2>3, <2>4
<1>5. ASSUME Drop(t) \/ Vanish(t) PROVE conn'[t] = None
  BY <1>0, <1>5 DEF Drop, Vanish, Lose
<1>6. CASE ReadFirst(t) /\ ~ Drop(t)
  <2>1. /\ Take(t) /\ inbox[conn[t]] # <<>> /\ UNCHANGED <<outbox, conn>>
        /\ request' = [request EXCEPT ![t] = <<Head(inbox[conn[t]])>>]
        /\ llama[t] = "none"
    BY <1>6 DEF ReadFirst, Base, Standing, Kinds
  <2>2. request'[t] = <<Head(inbox[conn[t]])>>
    BY <1>0, <2>1
  <2>3. In(request'[t], r) => Head(inbox[conn[t]]) = r
    BY <2>2 DEF In
  <2>4. QED
    BY <1>2, <1>4, <2>1, <2>3 DEF Left
<1>7. CASE CopyIn(t) /\ ~ Drop(t)
  <2>1. /\ Take(t) /\ inbox[conn[t]] # <<>> /\ UNCHANGED <<outbox, conn, llama>>
        /\ \/ request' = [request EXCEPT ![t] = Append(@, Head(inbox[conn[t]]))]
           \/ UNCHANGED request
    BY <1>7 DEF CopyIn, tunnelVars, endVars
  <2>2. request'[t] \in {request[t], Append(request[t], Head(inbox[conn[t]]))}
    BY <1>0, <2>1
  <2>3. In(request'[t], r) => In(request[t], r) \/ Head(inbox[conn[t]]) = r
    <3>1. request[t] \in Seq(Parts) /\ Head(inbox[conn[t]]) \in Parts
      BY <1>0, <1>4, <2>1
    <3>2. In(Append(request[t], Head(inbox[conn[t]])), r)
            => In(request[t], r) \/ r = Head(inbox[conn[t]])
      BY <3>1, InAppend
    <3>3. QED
      BY <2>2, <3>2
  <2>4. QED
    BY <1>2, <1>4, <2>1, <2>3 DEF Left
<1>8. CASE GiveUp(t)
  <2>1. UNCHANGED <<outbox, inbox>> /\ llama'[t] = "closed"
    BY <1>0, <1>8 DEF GiveUp
  <2>2. QED
    BY <1>2, <2>1 DEF Left
<1>9. CASE AnswerBegins(t) \/ AnswerEnds(t)
  <2>1. UNCHANGED inbox /\ llama'[t] \in {"answering", "closed"}
    BY <1>0, <1>9 DEF AnswerBegins, AnswerEnds
  <2>2. PICK k \in {"head", "tail"} :
             /\ k = "head" <=> AnswerBegins(t)
             /\ <<Answer(request[t]), k>> \in Answers
             /\ conn[t] \in WConn /\ outbox[conn[t]] \in Seq(Answers)
             /\ outbox' = [outbox EXCEPT ![conn[t]] = Append(@, <<Answer(request[t]), k>>)]
    BY <1>9, AnswerGrows
  <2>3. ASSUME In(outbox'[c], <<a, "head">>) PROVE Left(c, a)
    <3>1. CASE c # conn[t]
      <4>1. outbox'[c] = outbox[c]
        BY <1>0, <2>2, <3>1
      <4>2. QED
        BY <2>3, <4>1 DEF Left
    <3>2. CASE c = conn[t]
      <4>1. outbox'[c] = Append(outbox[c], <<Answer(request[t]), k>>)
        BY <1>0, <2>2, <3>2
      <4>2. In(outbox[c], <<a, "head">>) \/ <<a, "head">> = <<Answer(request[t]), k>>
        BY <2>2, <2>3, <3>2, <4>1, InAppend
      <4>3. CASE In(outbox[c], <<a, "head">>)
        BY <4>3 DEF Left
      <4>4. CASE <<a, "head">> = <<Answer(request[t]), k>>
        BY <2>2, <3>2, <4>4, AnswerLeft
      <4>5. QED
        BY <4>2, <4>3, <4>4
    <3>3. QED
      BY <3>1, <3>2
  <2>4. QED
    BY <1>2, <2>1, <2>3
<1>10. QED
  <2>1. CASE ReadFirst(t) \/ CopyIn(t)
    BY <1>3, <1>4, <1>5, <1>6, <1>7, <2>1 DEF ReadFirst, CopyIn
  <2>2. CASE SeeEnd(t) \/ Break(t) \/ Vanish(t)
    BY <1>3, <1>5, <2>2 DEF SeeEnd, Break, Vanish
  <2>3. QED
    BY <1>8, <1>9, <2>1, <2>2 DEF WorkerStep, Tunneling, Serving, Ending

LEMMA AllBoundStep ==
  Base /\ Threads /\ Tunnels /\ OneAnswer /\ Phases /\ Served /\ AllBound /\ [Next]_vars => AllBound'
<1> SUFFICES ASSUME Base, Threads, Tunnels, OneAnswer, Phases, Served, AllBound, [Next]_vars
             PROVE  AllBound'
  OBVIOUS
<1> USE RelayAssumption DEF Base, Kinds, Standing, Goto, Stops
<1>1. ASSUME NEW c \in WConn, Handling(c) \/ BridgeDone(c) PROVE AllBound'
  <2>1. UNCHANGED <<outbox, inbox, conn, llama, request>>
    BY <1>1 DEF Handling, Register, Wait, Wake, Leave, BridgeDone, tunnelVars, endVars
  <2>2. /\ \A d \in closed : d \in closed'
        /\ \A d \in WConn : d # c => /\ thread'[d] = thread[d] /\ flow'[d] = flow[d]
                                     /\ bridged'[d] = bridged[d]
    BY <1>1 DEF Handling, Register, Wait, Wake, Leave, BridgeDone
  <2>3. ASSUME NEW a \in AConn, Bound(c, a) PROVE Bound(c, a)'
    <3>1. CASE Register(c)
      BY <2>3, <3>1 DEF Register, Bound, Threads
    <3>2. CASE Wait(c)
      BY <2>3, <3>2 DEF Wait, Bound
    <3>3. CASE Wake(c)
      BY <2>3, <3>3 DEF Wake, Bound
    <3>4. CASE Leave(c)
      BY <2>3, <3>4 DEF Leave, Bound
    <3>5. CASE BridgeDone(c)
      BY <2>3, <3>5 DEF BridgeDone, Bound
    <3>6. QED
      BY <1>1, <3>1, <3>2, <3>3, <3>4, <3>5 DEF Handling
  <2>4. \A d \in WConn, a \in AConn : Bound(d, a) => Bound(d, a)'
    BY <2>2, <2>3 DEF Bound
  <2>5. QED
    BY <2>1, <2>4, LeftAlike, KeptBound
<1>2. ASSUME NEW c \in WConn, ForwardRest(c) PROVE AllBound'
  <2>1. /\ UNCHANGED <<outbox, conn, llama, request, thread, bridged, closed>>
        /\ \A d \in WConn : "down" \in flow[d] => "down" \in flow'[d]
    <3>1. \/ flow' = [flow EXCEPT ![c] = (flow[c] \ {"rest"}) \cup {"up"}]
          \/ flow' = [flow EXCEPT ![c] = flow[c] \ {"rest"}]
      BY <1>2 DEF ForwardRest
    <3>2. \A d \in WConn : d # c => flow'[d] = flow[d]
      BY <3>1
    <3>3. "down" \in flow[c] => "down" \in flow'[c]
      BY <3>1
    <3>4. QED
      BY <1>2, <3>2, <3>3 DEF ForwardRest, tunnelVars, endVars
  <2>2. \A d \in WConn, a \in AConn : Bound(d, a) => Bound(d, a)'
    BY <2>1 DEF Bound
  <2>3. CASE UNCHANGED inbox
    BY <2>1, <2>2, <2>3, LeftAlike, KeptBound
  <2>4. CASE c \notin closed /\ inbox' = [inbox EXCEPT ![c] = Append(@, <<bridged[c], "rest">>)]
    <3>1. /\ thread[c] = "bridging" /\ bridged[c] \in AConn
          /\ inbox[c] \in Seq(Parts) /\ <<bridged[c], "rest">> \in Parts
      BY <1>2 DEF ForwardRest, Parts
    <3>2. "down" \in flow[c] \/ Answered(c)
      BY <2>4, <3>1 DEF Served
    <3>3. ASSUME NEW d \in WConn, NEW a \in AConn, Left(d, a)', ~ Left(d, a)
          PROVE  d = c /\ a = bridged[c] /\ ~ Answered(c)
      <4>1. PICK t \in Tunnel : /\ conn[t] = d /\ llama[t] \in {"none", "open"}
                                /\ In(inbox'[d], <<a, "rest">>) /\ ~ In(inbox[d], <<a, "rest">>)
        BY <2>1, <3>3 DEF Left
      <4>2. d = c
        BY <2>4, <4>1
      <4>3. inbox'[c] = Append(inbox[c], <<bridged[c], "rest">>)
        BY <2>4
      <4>4. <<a, "rest">> = <<bridged[c], "rest">>
        BY <3>1, <4>1, <4>2, <4>3, InAppend
      <4>5. QED
        BY <4>1, <4>2, <4>4 DEF Answered
    <3>4. \A a \in AConn : ~ Answered(c) /\ a = bridged[c] => Bound(c, a)'
      BY <2>1, <3>2 DEF Bound
    <3>5. ASSUME NEW d \in WConn, NEW a \in AConn, Left(d, a)' PROVE Bound(d, a)'
      <4>1. CASE Left(d, a)
        BY <2>2, <4>1 DEF AllBound
      <4>2. CASE ~ Left(d, a)
        BY <3>3, <3>4, <3>5, <4>2
      <4>3. QED
        BY <4>1, <4>2
    <3>6. QED
      BY <3>5 DEF AllBound
  <2>5. QED
    BY <1>2, <2>3, <2>4 DEF ForwardRest
<1>3. ASSUME NEW c \in WConn, UpEnds(c) \/ DownEnds(c) \/ DownBreaks(c) PROVE AllBound'
  <2>1. UNCHANGED <<outbox, inbox, conn, llama, request, thread, bridged, closed>>
    BY <1>3 DEF UpEnds, DownEnds, DownBreaks, tunnelVars, endVars
  <2>2. /\ \A d \in WConn : d # c => flow'[d] = flow[d]
        /\ "down" \in flow[c] => \/ "down" \in flow'[c] \/ c \in closed
                                 \/ (outbox[c] = <<>> /\ c \in shut)
    <3>1. PICK S \in {{"up"}, {"down"}} : flow' = [flow EXCEPT ![c] = flow[c] \ S]
      BY <1>3 DEF UpEnds, DownEnds, DownBreaks
    <3>2. flow'[c] = flow[c] \ S
      BY <3>1
    <3>3. \A d \in WConn : d # c => flow'[d] = flow[d]
      BY <3>1
    <3>4. S = {"up"} \/ DownEnds(c) \/ DownBreaks(c)
      BY <1>3, <3>1, <3>2 DEF UpEnds
    <3>5. S = {"up"} => "down" \notin S
      OBVIOUS
    <3>6. DownEnds(c) => outbox[c] = <<>> /\ c \in shut
      BY DEF DownEnds
    <3>7. DownBreaks(c) => c \in closed
      BY DEF DownBreaks
    <3>8. S = {"up"} => ("down" \in flow[c] => "down" \in flow'[c])
      BY <3>2, <3>5
    <3>9. QED
      BY <3>3, <3>4, <3>6, <3>7, <3>8
  <2>3. ASSUME NEW a \in AConn, outbox[c] = <<>>, c \in shut PROVE ~ Left(c, a)
    <3>1. \A t \in Tunnel : conn[t] = c => llama[t] = "closed"
      BY <2>3 DEF Phases
    <3>2. QED
      BY <2>3, <3>1, InNone DEF Left
  <2>4. ASSUME NEW d \in WConn, NEW a \in AConn, Left(d, a), Bound(d, a) PROVE Bound(d, a)'
    <3>1. CASE d = c
      BY <2>1, <2>2, <2>3, <2>4, <3>1 DEF Bound
    <3>2. CASE d # c
      BY <2>1, <2>2, <2>4, <3>2 DEF Bound
    <3>3. QED
      BY <3>1, <3>2
  <2>5. QED
    BY <2>1, <2>4, LeftAlike, KeptBound
<1>4. ASSUME NEW c \in WConn, Deliver(c) PROVE AllBound'
  <2>1. /\ UNCHANGED <<inbox, conn, llama, request, thread, bridged, closed>>
        /\ outbox[c] \in Seq(Answers) /\ outbox[c] # <<>> /\ outbox'[c] = Tail(outbox[c])
        /\ \A d \in WConn : d # c => outbox'[d] = outbox[d] /\ flow'[d] = flow[d]
    BY <1>4 DEF Deliver, tunnelVars, endVars
  <2>2. \A a \in AConn : ~ Left(c, a)'
    <3>1. \A a \in AConn : ~ In(outbox'[c], <<a, "head">>)
      <4> HIDE DEF Base, Kinds, Standing
      <4>1. OneHead(outbox[c])
        BY DEF OneAnswer
      <4>2. \A a : ~ In(Tail(outbox[c]), <<a, "head">>)
        BY <2>1, <4>1, HeadTaken
      <4>3. QED
        BY <2>1, <4>2
    <3>2. \A t \in Tunnel : conn'[t] = c => llama'[t] \notin {"none", "open"}
      BY <2>1 DEF Phases
    <3>3. QED
      BY <3>1, <3>2 DEF Left
  <2>3. \A d \in WConn, a \in AConn : d # c => (Left(d, a)' <=> Left(d, a))
    BY <2>1 DEF Left
  <2>4. \A d \in WConn, a \in AConn : d # c => (Bound(d, a)' <=> Bound(d, a))
    BY <2>1 DEF Bound
  <2>5. QED
    BY <2>2, <2>3, <2>4 DEF AllBound
<1>5. ASSUME NEW b \in AConn, ApiStep(b) PROVE AllBound'
  <2>1. UNCHANGED <<outbox, conn, llama, request, flow, bridged, closed>>
    BY <1>5, ApiSide, RelaySide
  <2>2. \A d \in WConn, a \in AConn : In(inbox'[d], <<a, "rest">>) => In(inbox[d], <<a, "rest">>)
    <3>1. CASE UNCHANGED inbox
      BY <3>1
    <3>2. CASE entry # None /\ inbox' = [inbox EXCEPT ![entry] = Append(@, <<b, "first">>)]
      <4>1. entry \in WConn /\ inbox[entry] \in Seq(Parts) /\ <<b, "first">> \in Parts
        BY <3>2 DEF Parts
      <4>2. \A a \in AConn : In(Append(inbox[entry], <<b, "first">>), <<a, "rest">>)
                               => In(inbox[entry], <<a, "rest">>)
        BY <4>1, InAppend
      <4>3. QED
        BY <3>2, <4>1, <4>2
    <3>3. QED
      BY <1>5, <3>1, <3>2, ApiSide DEF HandleApi
  <2>3. \A d \in WConn, a \in AConn : Left(d, a)' => Left(d, a)
    BY <2>1, <2>2 DEF Left
  <2>4. \A d \in closed : thread'[d] = thread[d]
    <3>1. \A d \in closed : d \in WConn /\ d # entry
      BY DEF Threads
    <3>2. QED
      BY <1>5, <3>1, ApiThreads
  <2>5. \A d \in WConn, a \in AConn : Bound(d, a) => Bound(d, a)'
    BY <2>1, <2>4 DEF Bound
  <2>6. QED
    BY <2>3, <2>5, KeptBound
<1>6. ASSUME NEW t \in Tunnel, NEW c \in WConn, Connect(t, c) PROVE AllBound'
  <2>1. /\ UNCHANGED <<outbox, inbox, llama, request, flow, bridged, closed>>
        /\ conn' = [conn EXCEPT ![t] = c] /\ thread' = [thread EXCEPT ![c] = "accepted"]
        /\ thread[c] = "unused" /\ inbox[c] = <<>> /\ outbox[c] = <<>>
    BY <1>6 DEF Connect, Threads
  <2>2. ASSUME NEW d \in WConn, NEW a \in AConn, Left(d, a)', d # c PROVE Left(d, a)
    <3>1. \A u \in Tunnel : conn'[u] = d => conn[u] = d
      BY <2>1, <2>2
    <3>2. QED
      BY <2>1, <2>2, <3>1 DEF Left
  <2>3. ASSUME NEW a \in AConn PROVE ~ Left(c, a)'
    <3>1. \A u \in Tunnel : conn'[u] = c => u = t
      BY <2>1 DEF Tunnels
    <3>2. request[t] = <<>>
      BY <1>6 DEF Connect, Tunnels
    <3>3. QED
      BY <2>1, <3>1, <3>2, InNone DEF Left
  <2>4. \A d \in WConn, a \in AConn : Bound(d, a) => Bound(d, a)'
    BY <2>1 DEF Bound
  <2>5. QED
    BY <2>2, <2>3, <2>4, KeptBound
<1>7. ASSUME NEW t \in Tunnel, WorkerStep(t) PROVE AllBound'
  <2>1. \A d \in WConn, a \in AConn : Left(d, a)' => Left(d, a)
    BY <1>7, LeftLess
  <2>2. UNCHANGED relayVars
    BY <1>7, WorkerSide
  <2>3. \A d \in WConn, a \in AConn : Bound(d, a)' <=> Bound(d, a)
    BY <2>2 DEF Bound, relayVars
  <2>4. QED
    BY <2>1, <2>3, KeptBound
<1>8. CASE UNCHANGED vars \/ \E c \in WConn : Notice(c)
  <2>1. UNCHANGED <<relayVars, inbox, outbox, conn, llama, request>>
    BY <1>8 DEF Notice, vars, tunnelVars, endVars
  <2>2. QED
    BY <2>1, LeftAlike, KeptBound DEF Bound, relayVars
<1>9. QED
  BY <1>1, <1>2, <1>3, <1>4, <1>5, <1>6, <1>7, <1>8, NextMeans DEF RelayStep

\* What is delivered has been left on the bridge of the one it is for.
LEMMA OwnStep == Base /\ AllBound /\ OwnAnswer /\ [Next]_vars => OwnAnswer'
<1> SUFFICES ASSUME Base, AllBound, OwnAnswer, [Next]_vars PROVE OwnAnswer'
  OBVIOUS
<1>1. ASSUME NEW c \in WConn, Deliver(c) PROVE OwnAnswer'
  <2> DEFINE part == Head(outbox[c])
  <2>1. /\ bridged[c] \in AConn /\ thread[c] = "bridging"
        /\ outbox[c] \in Seq(Answers) /\ outbox[c] # <<>>
        /\ \/ UNCHANGED got
           \/ got' = [got EXCEPT ![bridged[c]] = IF part[2] = "head" THEN part[1] ELSE "error"]
    BY <1>1 DEF Deliver, Base, Kinds, Standing
  <2>2. part \in Answers /\ In(outbox[c], part)
    BY <2>1, InTail
  <2>3. ASSUME part[2] = "head", part[1] # "error" PROVE part[1] = bridged[c]
    <3>1. part[1] \in AConn /\ part = <<part[1], "head">>
      BY <2>2, <2>3 DEF Answers
    <3>2. Left(c, part[1])
      BY <2>2, <3>1 DEF Left
    <3>3. QED
      BY <2>1, <3>1, <3>2 DEF AllBound, Bound
  <2>4. QED
    BY <2>1, <2>3 DEF OwnAnswer, Base, Kinds
<1>2. CASE UNCHANGED got
  BY <1>2 DEF OwnAnswer
<1>3. ASSUME NEW c \in WConn, RelayStep(c) PROVE UNCHANGED got
  BY <1>3 DEF RelayStep, Handling, Register, Wait, Wake, Leave, ForwardRest, UpEnds, DownEnds,
              DownBreaks, BridgeDone, clientVars
<1>4. ASSUME NEW t \in Tunnel, WorkerStep(t) PROVE UNCHANGED got
  BY <1>4, WorkerSide DEF clientVars
<1>5. QED
  BY <1>1, <1>2, <1>3, <1>4, NextMeans, ApiSide DEF Notice, Connect, vars, clientVars

\* However callers come, leave, are overwritten and share a worker's
\* connection, none takes the answer to another's request for its own.
THEOREM NobodyGetsAnothersAnswer == Spec => []OwnAnswer
<1>1. Init => OwnInv
  BY OwnInit
<1>2. Base /\ OwnInv /\ [Next]_vars => OwnInv'
  BY ThreadsStep, TunnelsStep, OneAnswerStep, PhasesStep, ServedStep, AllBoundStep, OwnStep DEF OwnInv
<1>3. IInv => Base
  BY DEF IInv, Base
<1>4. OwnInv => OwnAnswer
  BY DEF OwnInv
<1>5. QED
  BY Invariance, <1>1, <1>2, <1>3, <1>4, PTL DEF Spec
=============================================================================
