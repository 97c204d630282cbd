-------------------------------- MODULE Hub --------------------------------
(***************************************************************************)
(* The hub of internal/realtime/hub.go: one loop that takes registrations, *)
(* departures, events and the ticks of a heartbeat from channels, and the  *)
(* goroutines around it: each socket's HTTP handler and reader, and those  *)
(* that report a socket whose write failed.                                *)
(*                                                                         *)
(* An event is its kind and its number in the order in which it entered    *)
(* the channel.  A case of the loop is one step: only the loop uses the    *)
(* table of sockets, and a socket that dies during the case dies before or *)
(* after its own write.                                                    *)
(*                                                                         *)
(* Bounds: Capacity stands for the 64 events of the channel, MaxEvents     *)
(* events are broadcast in a behaviour.                                    *)
(***************************************************************************)
EXTENDS Naturals, Sequences, FiniteSets

CONSTANTS Sockets, Kinds, Capacity, MaxEvents

VARIABLES channel,    \* events that wait for the loop
          lastEvents, \* the cache: the last event of each kind, 0 for none
          members,    \* the sockets in the table
          socket,     \* each socket and its reader
          reports,    \* goroutines that wait to unregister a socket
          seen,       \* what each socket was last sent, by kind
          last        \* the last event that entered the channel, by kind (history)

vars == <<channel, lastEvents, members, socket, reports, seen, last>>

\* The kinds of which the last event is kept.
Cached == {"wa_status", "wa_qr", "countdown"} \cap Kinds

\* Where a socket's handler is: before, waiting for the loop to register it,
\* reading, waiting for the loop to unregister it, gone.
Phases == {"new", "registering", "reading", "leaving", "gone"}

Numbers == 0..MaxEvents

TypeOK ==
    /\ channel \in Seq([kind : Kinds, n : Numbers]) /\ Len(channel) <= Capacity
    /\ lastEvents \in [Kinds -> Numbers]
    /\ members \subseteq Sockets
    /\ socket \in [Sockets -> [at : Phases, writable : BOOLEAN, open : BOOLEAN]]
    /\ reports \in [Sockets -> 0..MaxEvents + 1]
    /\ seen \in [Sockets -> [Kinds -> Numbers]]
    /\ last \in [Kinds -> Numbers]

None == [k \in Kinds |-> 0]

Init ==
    /\ channel = <<>> /\ lastEvents = None
    /\ members = {} /\ reports = [s \in Sockets |-> 0]
    /\ socket = [s \in Sockets |-> [at |-> "new", writable |-> TRUE, open |-> TRUE]]
    /\ seen = [s \in Sockets |-> None] /\ last = None

Newest == CHOOSE n \in Numbers : n \in {last[k] : k \in Kinds} /\ \A k \in Kinds : last[k] <= n

----------------------------------------------------------------------------
(* Broadcast, from any goroutine: a full channel drops the event.          *)

\* Mutant of the code: the select of Broadcast has no default, and the channel no bound.
BroadcastUnbounded(k) ==
    /\ Newest < MaxEvents
    /\ channel' = Append(channel, [kind |-> k, n |-> Newest + 1])
    /\ last' = [last EXCEPT ![k] = Newest + 1]
    /\ UNCHANGED <<lastEvents, members, socket, reports, seen>>

Broadcast(k) ==
    /\ Newest < MaxEvents /\ Len(channel) < Capacity
    /\ channel' = Append(channel, [kind |-> k, n |-> Newest + 1])
    /\ last' = [last EXCEPT ![k] = Newest + 1]
    /\ UNCHANGED <<lastEvents, members, socket, reports, seen>>

Dropped(k) ==
    /\ Len(channel) = Capacity
    /\ UNCHANGED vars

----------------------------------------------------------------------------
(* HandleWS, and the network under a socket.                               *)

Upgrade(s) ==
    /\ socket[s].at = "new"
    /\ socket' = [socket EXCEPT ![s].at = "registering"]
    /\ UNCHANGED <<channel, lastEvents, members, reports, seen, last>>

\* Writes fail from now on; the reader may still wait.
Break(s) ==
    /\ socket[s].at # "new" /\ socket[s].writable
    /\ socket' = [socket EXCEPT ![s].writable = FALSE]
    /\ UNCHANGED <<channel, lastEvents, members, reports, seen, last>>

\* The reader gets an error: the peer has left, or the hub has closed the socket.
ReaderEnds(s) ==
    /\ socket[s].at = "reading"
    /\ socket' = [socket EXCEPT ![s].at = "leaving", ![s].writable = FALSE]
    /\ UNCHANGED <<channel, lastEvents, members, reports, seen, last>>

----------------------------------------------------------------------------
(* The cases of the loop.                                                  *)

Gets(s) == socket[s].writable /\ socket[s].open

\* Mutant of the code: a new socket waits for the next events.
RegisterUntold(s) ==
    /\ socket[s].at = "registering"
    /\ members' = members \cup {s}
    /\ socket' = [socket EXCEPT ![s].at = "reading"]
    /\ UNCHANGED <<channel, lastEvents, reports, seen, last>>

\* A new socket is sent the cache; a failing write is ignored.
Register(s) ==
    /\ socket[s].at = "registering"
    /\ members' = members \cup {s}
    /\ socket' = [socket EXCEPT ![s].at = "reading"]
    /\ seen' = IF Gets(s)
               THEN [seen EXCEPT ![s] = [k \in Kinds |-> IF lastEvents[k] # 0 THEN lastEvents[k]
                                                         ELSE seen[s][k]]]
               ELSE seen
    /\ UNCHANGED <<channel, lastEvents, reports, last>>

\* A socket is removed and closed once; later departures find it gone.
Removed(s) ==
    /\ members' = members \ {s}
    /\ UNCHANGED <<channel, lastEvents, seen, last>>

Closed(s) == [socket[s] EXCEPT !.open = @ /\ s \notin members]

UnregisterByReader(s) ==
    /\ socket[s].at = "leaving"
    /\ socket' = [socket EXCEPT ![s] = [Closed(s) EXCEPT !.at = "gone"]]
    /\ Removed(s)
    /\ UNCHANGED reports

UnregisterByReport(s) ==
    /\ reports[s] > 0
    /\ reports' = [reports EXCEPT ![s] = reports[s] - 1]
    /\ socket' = [socket EXCEPT ![s] = Closed(s)]
    /\ Removed(s)

\* Mutant of the code: a failing write is only logged.
ReportUnwritableNever == UNCHANGED reports

\* Each failing write gets a goroutine that will unregister the socket.
ReportUnwritable ==
    reports' = [s \in Sockets |-> IF s \in members /\ ~Gets(s) THEN reports[s] + 1 ELSE reports[s]]

Cache(e) == lastEvents' = IF e.kind \in Cached THEN [lastEvents EXCEPT ![e.kind] = e.n] ELSE lastEvents

\* An event is cached, if its kind is, and written to every socket.
Deliver ==
    /\ channel # <<>>
    /\ LET e == Head(channel) IN
       /\ Cache(e)
       /\ seen' = [s \in Sockets |-> IF s \in members /\ Gets(s)
                                     THEN [seen[s] EXCEPT ![e.kind] = e.n] ELSE seen[s]]
    /\ ReportUnwritable
    /\ channel' = Tail(channel)
    /\ UNCHANGED <<members, socket, last>>

\* The heartbeat tells nobody anything, but finds the sockets that are dead.  (A
\* socket with a report under way is not pinged again: a bound.)
Ping ==
    /\ \E s \in members : ~Gets(s)
    /\ \A s \in members : ~Gets(s) => reports[s] = 0
    /\ ReportUnwritable
    /\ UNCHANGED <<channel, lastEvents, members, socket, seen, last>>

----------------------------------------------------------------------------
Leaves(s) == UnregisterByReader(s) \/ UnregisterByReport(s)

Next ==
    \/ \E k \in Kinds : Broadcast(k) \/ Dropped(k)
    \/ \E s \in Sockets : Upgrade(s) \/ Break(s) \/ ReaderEnds(s) \/ Register(s) \/ Leaves(s)
    \/ Deliver \/ Ping

\* The loop goes round, its ticker ticks, and its select does not pass a departure
\* by for ever; what the network does is not fair.
Fairness ==
    /\ WF_vars(Ping)
    /\ \A s \in Sockets : WF_vars(Leaves(s))
    /\ \A s \in Sockets : WF_vars(~socket[s].open /\ ReaderEnds(s))

Spec == Init /\ [][Next]_vars /\ Fairness

----------------------------------------------------------------------------
(* Properties.                                                             *)

\* Whenever the loop has nothing to deliver, every live socket of the table has
\* been told the last status and the last countdown that entered the channel,
\* whether it joined before or after them.
LastArrives ==
    channel = <<>> =>
      \A s \in members, k \in Cached : Gets(s) => seen[s][k] = last[k]

\* A socket that can no longer be written to, whoever notices it first, leaves
\* the table, and its reader ends.
DeadSocketsLeave ==
    \A s \in Sockets : s \in members /\ ~Gets(s) ~> s \notin members /\ socket[s].at = "gone"
=============================================================================
