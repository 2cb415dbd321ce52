------------------------------ MODULE Heartbeat ------------------------------
(***************************************************************************)
(* The lines between one worker and its handler in the master: the         *)
(* heartbeat loop of src/client.rs against handle_connection and           *)
(* switch_model of src/master.rs.                                          *)
(*                                                                         *)
(* The worker reads one line for each PING, and after a PONG waits 100 ms  *)
(* for a second one.  read_line is not safe to cancel: what it had read of *)
(* a line when the time is up is gone, the rest of that line is read as    *)
(* the answer to the next PING, and so on.  A line is therefore two        *)
(* pieces here, its beginning and its end, which arrive one after the      *)
(* other after any delay.                                                  *)
(*                                                                         *)
(* When a list of slaves is due is the business of Registry, and what      *)
(* becomes of it that of Worker: the lists are numbered.  Credits and the  *)
(* lines of a registration are left out.                                   *)
(***************************************************************************)
EXTENDS Integers, SequencesExt

CONSTANTS
  MaxLists,  \* bound: lists of slaves announced to this worker
  MaxSwitch  \* bound: calls of switch_model

ASSUME BoundsAssumption == MaxLists \in Nat /\ MaxSwitch \in Nat

VARIABLES
  worker,    \* where the loop is: between PINGs, reading the first or the extra line
  got,       \* what read_line has of a line that is not whole yet
  pings,     \* PINGs the handler has not read
  wire,      \* pieces of lines under way to the worker
  buffer,    \* pieces that have arrived and are not read
  handler,   \* waiting for either, or for the answer to SWITCH_MODEL
  commands,  \* SWITCH_MODELs in the handler's command channel
  known,     \* the registry knows the worker
  announced, \* lists announced so far
  handed,    \* the lists passed to slaves_tx
  lost,      \* those cut short by the timeout or lost with a connection
  switched,  \* calls of switch_model so far
  taken      \* a PING of this connection was taken for the answer to SWITCH_MODEL

workerVars == <<worker, got, handed>>
masterVars == <<handler, commands, known, announced, switched>>
vars == <<workerVars, pings, wire, buffer, masterVars, lost, taken>>

Kind  == {"PONG", "LIST", "ERROR", "SWITCH"}
Piece == [kind : Kind, list : 0 .. MaxLists, part : {"begin", "end"}]
None  == [kind |-> "none"]

Line(k, n) == << [kind |-> k, list |-> n, part |-> "begin"],
                 [kind |-> k, list |-> n, part |-> "end"] >>

\* What the worker has still to read, and where in it the lines of lists end
\* that can still be read whole: of the first, the beginning may be cut off.
Stream == buffer \o wire
Unread == {i \in DOMAIN Stream :
             /\ Stream[i].kind = "LIST" /\ Stream[i].part = "end"
             /\ i = 1 => got # None}
ListAt(i)   == Stream[i].list
UnreadLists == {ListAt(i) : i \in Unread}

Init ==
  /\ worker = "beating" /\ got = None /\ handed = <<>>
  /\ pings = 0 /\ wire = <<>> /\ buffer = <<>>
  /\ handler = "select" /\ commands = 0 /\ known = TRUE
  /\ announced = 0 /\ switched = 0
  /\ lost = {} /\ taken = FALSE
-----------------------------------------------------------------------------
(* The heartbeat loop of the worker. *)

\* The 30 s are over.
SendPing ==
  /\ worker = "beating"
  /\ worker' = "first"
  /\ pings' = pings + 1
  /\ UNCHANGED <<got, handed, wire, buffer, masterVars, lost, taken>>

\* read_line takes what there is of a line.
ReadBegin ==
  /\ worker # "beating"
  /\ buffer # <<>> /\ Head(buffer).part = "begin"
  /\ got' = Head(buffer)
  /\ buffer' = Tail(buffer)
  /\ UNCHANGED <<worker, handed, pings, wire, masterVars, lost, taken>>

\* read_line returns: a line, or what a cut has left of one.
LineIs(k) == got # None /\ got.kind = k
ReadEnd ==
  /\ buffer # <<>> /\ Head(buffer).part = "end"
  /\ buffer' = Tail(buffer)
  /\ got' = None
  /\ UNCHANGED <<pings, wire, masterVars, lost, taken>>

\* Fault: what a cut has left of the line of a list is taken for the list.
HandOnRest ==
  handed' = IF Head(buffer).kind = "LIST" THEN Append(handed, Head(buffer).list) ELSE handed

HandOn == handed' = IF LineIs("LIST") THEN Append(handed, got.list) ELSE handed

\* Fault: only the line after a PONG is looked at for a list.
ReadFirstForPong ==
  /\ worker = "first"
  /\ ReadEnd
  /\ worker' = IF LineIs("PONG") THEN "extra" ELSE "beating"
  /\ UNCHANGED handed

\* The line that is awaited for as long as it takes: a PONG, a list that was
\* late, or anything else, which is only logged.
ReadFirst ==
  /\ worker = "first"
  /\ ReadEnd
  /\ worker' = IF LineIs("PONG") THEN "extra" ELSE "beating"
  /\ HandOn

\* The line after a PONG, in time: a list, or one that is only logged.
ReadExtra ==
  /\ worker = "extra"
  /\ ReadEnd
  /\ worker' = "beating"
  /\ HandOn

\* Fault: no limit to the wait.
TimeOutNever == FALSE /\ UNCHANGED vars

\* 100 ms without the end of a line: what there is of it goes.
TimeOut ==
  /\ worker = "extra" /\ buffer = <<>>
  /\ worker' = "beating"
  /\ got' = None
  /\ lost' = IF LineIs("LIST") THEN lost \cup {got.list} ELSE lost
  /\ UNCHANGED <<handed, pings, wire, buffer, masterVars, taken>>

\* Fault: what the reader of the old connection holds is not dropped with it.
ReconnectKeeping ==
  /\ worker' = "beating" /\ got' = None
  /\ pings' = 0 /\ wire' = <<>> /\ UNCHANGED buffer
  /\ handler' = "select" /\ commands' = 0 /\ known' = TRUE
  /\ lost' = lost \cup UnreadLists
  /\ taken' = FALSE
  /\ UNCHANGED <<handed, announced, switched>>

\* The connection breaks and the worker registers on a new one, with a reader
\* and a handler of its own.
Reconnect ==
  /\ worker' = "beating" /\ got' = None
  /\ pings' = 0 /\ wire' = <<>> /\ buffer' = <<>>
  /\ handler' = "select" /\ commands' = 0 /\ known' = TRUE
  /\ lost' = lost \cup UnreadLists
  /\ taken' = FALSE
  /\ UNCHANGED <<handed, announced, switched>>

\* One more piece arrives.
Arrive ==
  /\ wire # <<>>
  /\ buffer' = Append(buffer, Head(wire))
  /\ wire' = Tail(wire)
  /\ UNCHANGED <<workerVars, pings, masterVars, lost, taken>>
-----------------------------------------------------------------------------
(* handle_connection. *)

Write(lines) == wire' = wire \o lines

\* Fault: a worker that is not known gets no answer.
AnswerPingIfKnown ==
  /\ handler = "select" /\ pings > 0
  /\ pings' = pings - 1
  /\ \/ /\ known
        /\ Write(Line("PONG", 0))
        /\ UNCHANGED announced
     \/ /\ known /\ announced < MaxLists
        /\ announced' = announced + 1
        /\ Write(Line("PONG", 0) \o Line("LIST", announced'))
     \/ /\ ~ known
        /\ UNCHANGED <<wire, announced>>
  /\ UNCHANGED <<workerVars, buffer, handler, commands, known, switched, lost, taken>>

\* PONG, with the list of slaves when that has changed, in one write.
AnswerPing ==
  /\ handler = "select" /\ pings > 0
  /\ pings' = pings - 1
  /\ \/ /\ known
        /\ Write(Line("PONG", 0))
        /\ UNCHANGED announced
     \/ /\ known /\ announced < MaxLists
        /\ announced' = announced + 1
        /\ Write(Line("PONG", 0) \o Line("LIST", announced'))
     \/ /\ ~ known
        /\ Write(Line("ERROR", 0))
        /\ UNCHANGED announced
  /\ UNCHANGED <<workerVars, buffer, handler, commands, known, switched, lost, taken>>

\* cmd_rx wins the select: part of a PING that had been read is dropped, and
\* its rest is the line read next.
TakeCommand ==
  /\ handler = "select" /\ commands > 0
  /\ handler' = "switching"
  /\ commands' = commands - 1
  /\ Write(Line("SWITCH", 0))
  /\ UNCHANGED <<workerVars, pings, buffer, known, announced, switched, lost, taken>>

\* The next line of the worker, a PING, is the response of switch_model.
TakeResponse ==
  /\ handler = "switching" /\ pings > 0
  /\ pings' = pings - 1
  /\ handler' = "select"
  /\ taken' = TRUE
  /\ UNCHANGED <<workerVars, wire, buffer, commands, known, announced, switched, lost>>

SwitchModel ==
  /\ switched < MaxSwitch
  /\ switched' = switched + 1
  /\ commands' = commands + 1
  /\ UNCHANGED <<workerVars, pings, wire, buffer, handler, known, announced, lost, taken>>

\* By the checker, or by the handler of the worker's last connection.
Unregister ==
  /\ known
  /\ known' = FALSE
  /\ UNCHANGED <<workerVars, pings, wire, buffer, handler, commands, announced, switched, lost, taken>>
-----------------------------------------------------------------------------
Reading  == ReadBegin \/ ReadFirst \/ ReadExtra \/ TimeOut
Handling == AnswerPing \/ TakeCommand \/ TakeResponse
Next == \/ SendPing \/ Reading \/ Arrive \/ Handling
        \/ Reconnect \/ SwitchModel \/ Unregister

(* The worker's loop and its timer, the handler and TCP go on while the    *)
(* connection lasts; nothing makes it break, nor a worker be unregistered. *)
Fairness == WF_vars(SendPing) /\ WF_vars(Reading) /\ WF_vars(Arrive) /\ WF_vars(Handling)

Spec == Init /\ [][Next]_vars
FairSpec == Spec /\ Fairness
-----------------------------------------------------------------------------
(* Properties. *)

\* The variables keep their kinds; in particular the stream is bounded: a
\* worker that reads one line where two were written falls no further behind
\* than by one line for each list.
TypeOK ==
  /\ worker \in {"beating", "first", "extra"}
  /\ got \in Piece \cup {None}
  /\ pings \in 0 .. MaxLists + MaxSwitch + 1
  /\ wire \in Seq(Piece) /\ buffer \in Seq(Piece)
  /\ Len(wire \o buffer) <= 2 * (MaxLists + MaxSwitch + 1)
  /\ handler \in {"select", "switching"}
  /\ commands \in 0 .. MaxSwitch
  /\ known \in BOOLEAN
  /\ announced \in 0 .. MaxLists
  /\ handed \in Seq(1 .. MaxLists)
  /\ lost \subseteq 1 .. MaxLists
  /\ switched \in 0 .. MaxSwitch
  /\ taken \in BOOLEAN

\* However late or cut short the lines are, and whichever PING they come to
\* be read for, the lists reach the application in the order in which they
\* were announced and none twice; and one that is neither on its way nor
\* handed on was cut by the 100 ms timeout, or lost with a connection.
ListsInOrder ==
  /\ \A i, j \in DOMAIN handed : i < j => handed[i] < handed[j]
  /\ \A n \in ToSet(handed), m \in UnreadLists : n < m
  /\ \A i, j \in Unread : i < j => ListAt(i) < ListAt(j)
  /\ ToSet(handed) \cup UnreadLists = (1 .. announced) \ lost

\* For the application the connection is a queue of lists, step by step: what
\* arrives late or for another PING takes no other list's turn, what is lost is
\* the next in turn or, with the connection, all that were due, and no list that
\* was given up is handed on after all.
Channel       == INSTANCE ListChannel
IsListChannel == Channel!Spec

\* Worker and handler never wait for each other's line, however the lines are
\* read: except after a PING was taken for the answer to SWITCH_MODEL, when the
\* SWITCH_MODEL had itself been read as the line after a PONG.
BothWait == /\ worker = "first" /\ got = None /\ buffer = <<>> /\ wire = <<>>
            /\ pings = 0 /\ commands = 0
NoStandoff == BothWait => taken

\* While the connection lasts no list is put off for ever behind the answers
\* that the worker is late with.
ListsArrive ==
  \A n \in 1 .. MaxLists : announced >= n ~> n \in ToSet(handed) \cup lost \/ BothWait

\* The worker does not get stuck in a read, with or without a second line after
\* PONG: the next PING follows, as long as TCP goes on or ends the connection
\* (the first read has no limit, and would outlast a silent loss).
PingsGoOn == worker # "beating" ~> worker = "beating" \/ BothWait
=============================================================================
