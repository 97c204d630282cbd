------------------------------ MODULE Gateway ------------------------------
(***************************************************************************)
(* The WhatsApp side of one account: the manager's table of clients        *)
(* (internal/whatsapp/manager.go), a client's connection life cycle        *)
(* (client.go), the rich send with its plain fallback (interactive.go),    *)
(* the answering bot (bot.go) and the requests that use them.              *)
(*                                                                         *)
(* whatsmeow itself is external: a socket that is up or down, a device id  *)
(* that is stored or not, events handed to handleEvent one at a time, and  *)
(* the channel of a QR login.  Wall-clock time is abstracted: a client is  *)
(* idle or not, a delay is any number of steps of the others.              *)
(*                                                                         *)
(* Bounds: MaxClients client objects are created, MaxChans QR channels of  *)
(* one client are open at once, and Background goroutines run at once.     *)
(***************************************************************************)
EXTENDS Naturals, Sequences, FiniteSets

CONSTANTS MaxClients,   \* client objects created for the account, one after the other
          MaxChans,     \* QR channels of one client with a listener
          Callers,      \* HTTP requests, the queue worker and start-up
          Background    \* goroutines started with "go"

ASSUME BoundsAssumption ==
    /\ MaxClients \in Nat \ {0}
    /\ MaxChans \in Nat \ {0}
    /\ Callers \cap Background = {}

VARIABLES client,    \* the client objects
          managed,   \* the object in the manager's table, 0 when there is none
          created,   \* objects created so far
          stored,    \* the session database holds a device id
          proc,      \* what each caller and each goroutine is doing
          reap       \* the idle clients of the reaper's current round

vars == <<client, managed, created, stored, proc, reap>>

Clients == 1..MaxClients
Procs   == Callers \cup Background
Chans   == 1..MaxChans

States == {"disconnected", "connecting", "need_qr", "connected", "hibernated", "logged_out"}

\* Events of the library that handleEvent has still to handle.
Events == {"Connected", "Disconnected", "LoggedOut"}

\* A QR channel: nobody listens, or a listener still has these items to read.
Closed  == [open |-> FALSE, items |-> <<>>]
Items   == {"code", "timeout", "success"}

NoClient == [state |-> "disconnected", qr |-> FALSE, code |-> FALSE, idle |-> FALSE,
             id |-> FALSE, up |-> FALSE, keeper |-> FALSE, loops |-> 0, dialing |-> FALSE,
             stopped |-> FALSE, events |-> <<>>,
             chan |-> [k \in Chans |-> Closed]]

Resting == [op |-> "none", on |-> 0, at |-> "idle"]

\* What a caller wants of a client: main's Start, a plain send, or another
\* request; which one that is its first step tells.
Requests == {"start", "plain", "other"}

Ops   == Requests \cup {"none", "wake", "rich"}
Steps == {"boot", "idle", "begin", "announce", "dial", "ensure", "poll", "typing"}

TypeOK ==
    /\ client \in [Clients -> [state : States, qr : BOOLEAN, code : BOOLEAN, idle : BOOLEAN,
                               id : BOOLEAN, up : BOOLEAN, keeper : BOOLEAN, loops : Nat,
                               dialing : BOOLEAN, stopped : BOOLEAN,
                               events : Seq(Events),
                               chan : [Chans -> [open : BOOLEAN, items : Seq(Items)]]]]
    /\ managed \in 0..created
    /\ created \in 0..MaxClients
    /\ stored \in BOOLEAN
    /\ proc \in [Procs -> [op : Ops, on : 0..MaxClients, at : Steps]]
    /\ reap \subseteq Clients

----------------------------------------------------------------------------
(* Helpers.                                                                *)

Idle(p)  == proc[p].at = "idle"

\* main runs Start once; a request comes from any caller that has none.
Ready(p, op) == proc[p].at = (IF op = "start" THEN "boot" ELSE "idle")
At(p, s) == proc[p].at = s
Of(p)    == client[proc[p].on]

\* A step of p that leaves the client as it is.
Goto(p, s)   == proc' = [proc EXCEPT ![p].at = s]
Stop(p)      == proc' = [proc EXCEPT ![p] = Resting]

Become(i, c) == client' = [client EXCEPT ![i] = c]
Same         == UNCHANGED client

Quiet == UNCHANGED <<managed, created, stored, reap>>

Unchannelled(c) == {k \in Chans : ~c.chan[k].open}

\* Connect of the library: it fails on a socket that is up.  (At most one
\* event waits for handleEvent: a bound.)
CanDial(c) == ~c.up /\ c.events = <<>>

\* The socket after a successful Connect; a stored session reports Connected.
Dialled(c) == [c EXCEPT !.up = TRUE,
                        !.events = IF c.id THEN Append(c.events, "Connected") ELSE c.events]

Touched(c) == [c EXCEPT !.idle = FALSE]

\* Disconnect drops the socket only when there is one.
Dropped(c) == IF c.up THEN [c EXCEPT !.up = FALSE, !.state = "disconnected"] ELSE c

\* Mutant of the code: the reaper trusts the status.
IsIdleByStatus(c) == c.state = "connected" /\ ~c.code /\ c.idle

\* IsIdle: a client that waits for its pairing is never idle.
IsIdle(c) == c.state # "need_qr" /\ ~c.code /\ c.idle

----------------------------------------------------------------------------
(* The manager.                                                            *)

\* A new task; goroutines begin inside the function they run.  SendMessage, the
\* plain send, looks at the socket and leaves the client as it is.
Task(op, i) ==
    IF op = "plain" THEN Resting
    ELSE [op |-> op, on |-> i, at |-> CASE op = "start" -> "announce" [] op = "wake" -> "ensure"
                                        [] OTHER -> "begin"]

\* Mutant of the code: a hibernated client is returned as it is.
GetClientAsleep(p, op) ==
    /\ Ready(p, op) /\ managed # 0
    /\ Become(managed, Touched(client[managed]))
    /\ proc' = [proc EXCEPT ![p] = Task(op, managed)]
    /\ Quiet

\* GetClient of a client in the table: Touch, and a wake-up in the background
\* when it is hibernated.
GetClient(p, op) ==
    /\ Ready(p, op) /\ managed # 0
    /\ Become(managed, Touched(client[managed]))
    /\ IF client[managed].state = "hibernated"
         THEN \E g \in Background :
                /\ Idle(g)
                /\ proc' = [proc EXCEPT ![p] = Task(op, managed), ![g] = Task("wake", managed)]
         ELSE proc' = [proc EXCEPT ![p] = Task(op, managed)]
    /\ Quiet

\* GetClient without one: a new client on the session database, put in the
\* table and started in the background.
CreateClient(p, op) ==
    /\ Ready(p, op) /\ managed = 0 /\ created < MaxClients
    /\ LET i == created + 1 IN
       /\ created' = i /\ managed' = i
       /\ Become(i, [NoClient EXCEPT !.id = stored])
       /\ \E g \in Background :
            /\ Idle(g)
            /\ proc' = [proc EXCEPT ![p] = Task(op, i), ![g] = Task("start", i)]
    /\ UNCHANGED <<stored, reap>>

\* Mutant of the code: Close counts the loop as ended.
CloseOfCounted(c) == [NoClient EXCEPT !.stopped = TRUE, !.id = c.id, !.keeper = c.keeper,
                                      !.loops = c.loops - 1, !.dialing = c.dialing]

\* Close: the keep-alive loop is told to stop, the socket is dropped if it is up.
\* (Who closes a client forgets it: its QR, code and channels are not followed.)
CloseOf(c) ==
    [NoClient EXCEPT !.stopped = TRUE, !.id = c.id, !.keeper = c.keeper, !.loops = c.loops,
                     !.dialing = c.dialing,
                     !.state = IF c.state = "hibernated" THEN "hibernated" ELSE "disconnected"]

\* Mutant of the code: the closed client stays in the table.
CloseClientKept ==
    /\ managed # 0 /\ ~client[managed].stopped
    /\ Become(managed, CloseOf(client[managed]))
    /\ UNCHANGED <<managed, created, stored, proc, reap>>

\* CloseClient, when the account is deleted, and CloseAll, at shutdown.  (The
\* reaper that CloseAll stops has an empty table anyway.)
CloseClient ==
    /\ managed # 0
    /\ Become(managed, CloseOf(client[managed]))
    /\ managed' = 0
    /\ UNCHANGED <<created, stored, proc, reap>>

\* idleReaperLoop: a round collects the clients that are idle...
ReaperRound ==
    /\ reap = {} /\ managed # 0
    /\ IsIdle(client[managed])
    /\ reap' = {managed}
    /\ UNCHANGED <<client, managed, created, stored, proc>>

\* ... and then hibernates each, without another look at its idleness.
Hibernated(c) == IF c.up THEN [c EXCEPT !.up = FALSE, !.state = "hibernated"] ELSE c

Hibernate(i) ==
    /\ i \in reap
    /\ Become(i, Hibernated(client[i]))
    /\ reap' = reap \ {i}
    /\ UNCHANGED <<managed, created, stored, proc>>

\* Fifteen minutes without a Touch.
GrowIdle(i) ==
    /\ i <= created /\ ~client[i].idle
    /\ Become(i, [client[i] EXCEPT !.idle = TRUE])
    /\ UNCHANGED proc /\ Quiet

----------------------------------------------------------------------------
(* Start, Reconnect, Disconnect and the QR request.                        *)

\* WhatsAppReconnectHandler, and WhatsAppQRHandler when there is neither a QR
\* nor a connection: Disconnect, then Start.
BeginReconnect(p) ==
    /\ At(p, "begin")
    /\ Become(proc[p].on, Dropped(Of(p)))
    /\ proc' = [proc EXCEPT ![p] = Task("start", proc[p].on)]
    /\ Quiet

\* WhatsAppQRHandler, when the status is enough.
BeginStatus(p) ==
    /\ At(p, "begin")
    /\ Of(p).qr \/ Of(p).state = "connected"
    /\ Stop(p)
    /\ Same /\ Quiet

BeginDisconnect(p) ==
    /\ At(p, "begin")
    /\ Become(proc[p].on, Dropped(Of(p)))
    /\ Stop(p)
    /\ Quiet

\* Mutant of the code: every Start starts a loop.
SpawnKeeperAlways(c) == [c EXCEPT !.keeper = TRUE, !.loops = c.loops + 1]

\* The keep-alive loop is started once per client.
SpawnKeeper(c) == IF c.keeper THEN c ELSE [c EXCEPT !.keeper = TRUE, !.loops = c.loops + 1]

\* Start says that it connects, ...
BeginStart(p) ==
    /\ At(p, "announce")
    /\ Become(proc[p].on, [Of(p) EXCEPT !.state = "connecting"])
    /\ Goto(p, "dial")
    /\ Quiet

\* ... and does.  A session is stored: an error of Connect, a socket already up included,
\* marks the client disconnected, and the keep-alive loop is started anyway.
StartWithSession(p) ==
    /\ At(p, "dial") /\ Of(p).id
    /\ \/ /\ CanDial(Of(p))
          /\ Become(proc[p].on, SpawnKeeper(Dialled(Of(p))))
       \/ Become(proc[p].on, SpawnKeeper([Of(p) EXCEPT !.state = "disconnected"]))
    /\ Stop(p)
    /\ Quiet

\* No session: a QR channel, Connect, and a listener; an error returns before
\* the keep-alive loop is started.
StartPairing(p) ==
    /\ At(p, "dial") /\ ~Of(p).id
    /\ \/ /\ CanDial(Of(p))
          /\ \E k \in Unchannelled(Of(p)) :
               Become(proc[p].on,
                 SpawnKeeper([Dialled(Of(p)) EXCEPT !.chan[k] = [open |-> TRUE, items |-> <<>>]]))
       \/ Become(proc[p].on, [Of(p) EXCEPT !.state = "disconnected"])
    /\ Stop(p)
    /\ Quiet

----------------------------------------------------------------------------
(* The keep-alive loop: every 15 s it looks at the client and, when its    *)
(* session should be up, dials.  The growing delay after an error is some  *)
(* delay.                                                                  *)

\* Mutant of the code: the loop trusts the status.
ShouldRedialByStatus(c) == c.id /\ c.state = "disconnected"

ShouldRedial(c) == c.id /\ ~c.up /\ c.state # "hibernated"

KeeperLook(i) ==
    /\ client[i].loops > 0 /\ ~client[i].dialing /\ ~client[i].stopped
    /\ ShouldRedial(client[i])
    /\ Become(i, [client[i] EXCEPT !.dialing = TRUE])
    /\ UNCHANGED proc /\ Quiet

\* Connect succeeds; the state is left to the Connected event.
KeeperRedials(i) ==
    /\ client[i].dialing /\ CanDial(client[i])
    /\ Become(i, [Dialled(client[i]) EXCEPT !.dialing = FALSE])
    /\ UNCHANGED proc /\ Quiet

KeeperFails(i) ==
    /\ client[i].dialing
    /\ Become(i, [client[i] EXCEPT !.dialing = FALSE])
    /\ UNCHANGED proc /\ Quiet

KeeperEnds(i) ==
    /\ client[i].loops > 0 /\ client[i].stopped /\ ~client[i].dialing
    /\ Become(i, [client[i] EXCEPT !.loops = @ - 1])
    /\ UNCHANGED proc /\ Quiet

----------------------------------------------------------------------------
(* EnsureConnected, for a wake-up and before a rich send.                  *)

\* After EnsureConnected a rich send goes on to type, a wake-up ends.
Connected(p) == IF proc[p].op = "rich" THEN Goto(p, "typing") ELSE Stop(p)

\* SendInteractiveMessage touches the client before it looks at it.
BeginRich(p) ==
    /\ At(p, "begin")
    /\ Become(proc[p].on, Touched(Of(p)))
    /\ proc' = [proc EXCEPT ![p].op = "rich", ![p].at = "ensure"]
    /\ Quiet

EnsureConnected(p) ==
    /\ At(p, "ensure")
    /\ \/ Of(p).up /\ Connected(p)
       \/ ~Of(p).up /\ ~Of(p).id /\ Stop(p)
    /\ Same /\ Quiet

WakeDial(p) ==
    /\ At(p, "ensure") /\ Of(p).id /\ CanDial(Of(p))
    /\ Become(proc[p].on, Dialled(Of(p)))
    /\ Goto(p, "poll")
    /\ Quiet

\* An error of Connect leaves the state: a hibernated client stays hibernated.
WakeFails(p) ==
    /\ At(p, "ensure") /\ Of(p).id /\ ~Of(p).up
    /\ Stop(p)
    /\ Same /\ Quiet

\* The wait for the socket, with setState outside of the lock.
WakePoll(p) ==
    /\ At(p, "poll")
    /\ \/ Of(p).up /\ Become(proc[p].on, [Of(p) EXCEPT !.state = "connected"]) /\ Connected(p)
       \/ ~Of(p).up /\ Same /\ Stop(p)
    /\ Quiet

----------------------------------------------------------------------------
(* Sends.                                                                  *)

\* After about two seconds of typing the rich message is sent, and once more as
\* a plain one if that failed; a send that went well touches the client.
Deliver(p) ==
    /\ At(p, "typing")
    /\ \/ Of(p).up /\ Of(p).id /\ Become(proc[p].on, Touched(Of(p)))
       \/ Same
    /\ Stop(p)
    /\ Quiet

----------------------------------------------------------------------------
(* PairPhone keeps the lock of the client from the first look to the code,  *)
(* network calls included: one step for everyone who needs the lock.       *)

\* It is refused to a live session; the number is too short, Connect fails, or
\* the library refuses a code, which may leave the socket up.
PairFails(p) ==
    /\ At(p, "begin")
    /\ \/ Same
       \/ CanDial(Of(p)) /\ Become(proc[p].on, Dialled(Of(p)))
    /\ Stop(p)
    /\ Quiet

PairCode(p) ==
    /\ At(p, "begin")
    /\ ~(Of(p).up /\ Of(p).id)
    /\ Of(p).up \/ CanDial(Of(p))
    /\ LET c == IF Of(p).up THEN Of(p) ELSE Dialled(Of(p)) IN
       Become(proc[p].on, [c EXCEPT !.code = TRUE, !.qr = FALSE, !.state = "need_qr"])
    /\ Stop(p)
    /\ Quiet

----------------------------------------------------------------------------
(* What reaches the client from the library.                               *)

\* listenQR reads one item of its channel.
ItemRead(c, k) ==
    LET item == Head(c.chan[k].items)
        rest == [c EXCEPT !.chan[k] =
                   IF item = "code" THEN [open |-> TRUE, items |-> Tail(c.chan[k].items)]
                   ELSE Closed]
    IN  CASE item = "code"    -> [rest EXCEPT !.qr = TRUE, !.state = "need_qr"]
          [] item = "timeout" -> [rest EXCEPT !.qr = FALSE, !.state = "disconnected"]
          [] item = "success" -> [rest EXCEPT !.qr = FALSE]

ListenQR(i, k) ==
    /\ client[i].chan[k].items # <<>>
    /\ Become(i, ItemRead(client[i], k))
    /\ UNCHANGED proc /\ Quiet

\* handleEvent: the status of the client after an event.
Handled(c) ==
    LET rest == [c EXCEPT !.events = Tail(c.events)]
    IN  CASE Head(c.events) = "Connected"    -> [rest EXCEPT !.qr = FALSE, !.state = "connected"]
          [] Head(c.events) = "Disconnected" -> [rest EXCEPT !.state = "disconnected"]
          [] Head(c.events) = "LoggedOut"    -> [rest EXCEPT !.qr = FALSE, !.state = "logged_out"]

HandleEvent(i) ==
    /\ client[i].events # <<>>
    /\ Become(i, Handled(client[i]))
    /\ UNCHANGED proc /\ Quiet

\* handleIncomingMessage: any text of another sender counts as activity.  (What
\* it is answered with changes nothing here.)
Incoming(i) ==
    /\ client[i].up /\ client[i].id /\ client[i].events = <<>>
    /\ Become(i, Touched(client[i]))
    /\ UNCHANGED proc /\ Quiet

----------------------------------------------------------------------------
(* The library and the network (external).                                 *)

NewCode(i, k) ==
    /\ client[i].chan[k] = [open |-> TRUE, items |-> <<>>] /\ ~client[i].id
    /\ Become(i, [client[i] EXCEPT !.chan[k].items = <<"code">>])
    /\ UNCHANGED proc /\ Quiet

\* The last code of a channel has expired: the library drops the socket.
CodesExpire(i, k) ==
    /\ client[i].chan[k] = [open |-> TRUE, items |-> <<>>] /\ ~client[i].id
    /\ Become(i, [client[i] EXCEPT !.chan[k].items = <<"timeout">>, !.up = FALSE])
    /\ UNCHANGED proc /\ Quiet

\* The library still has something to say on a channel.
Feeding(ch) == ch.open /\ ch.items \in {<<>>, <<"code">>}

\* The phone accepts a code or a QR: the device id is stored, every listener
\* is told, and the session connects.
PairSuccess(i) ==
    /\ client[i].up /\ ~client[i].id /\ client[i].events = <<>>
    /\ client[i].code \/ \E k \in Chans : Feeding(client[i].chan[k])
    /\ Become(i, [client[i] EXCEPT
         !.id = TRUE, !.events = <<"Connected">>,
         !.chan = [k \in Chans |->
                     IF Feeding(client[i].chan[k])
                     THEN [open |-> TRUE, items |-> Append(client[i].chan[k].items, "success")]
                     ELSE client[i].chan[k]]])
    /\ stored' = TRUE
    /\ UNCHANGED <<managed, created, proc, reap>>

NetDrop(i) ==
    /\ client[i].up /\ client[i].events = <<>>
    /\ Become(i, [client[i] EXCEPT !.up = FALSE, !.events = <<"Disconnected">>])
    /\ UNCHANGED proc /\ Quiet

RemoteLogout(i) ==
    /\ client[i].up /\ client[i].id /\ client[i].events = <<>>
    /\ Become(i, [client[i] EXCEPT !.up = FALSE, !.id = FALSE, !.events = <<"LoggedOut">>])
    /\ stored' = FALSE
    /\ UNCHANGED <<managed, created, proc, reap>>

----------------------------------------------------------------------------
(* main asks for the client of the main account in a goroutine of its own,  *)
(* which creates and starts it in the background, and starts it once more.  *)

Init ==
    /\ stored \in BOOLEAN
    /\ created = 0 /\ managed = 0
    /\ client = [i \in Clients |-> NoClient]
    /\ \E main \in Callers :
         proc = [q \in Procs |-> IF q = main THEN [Resting EXCEPT !.at = "boot"] ELSE Resting]
    /\ reap = {}

Caller(p) == \E op \in Requests : GetClient(p, op) \/ CreateClient(p, op)

Run(p) ==
    \/ BeginReconnect(p) \/ BeginStatus(p) \/ BeginDisconnect(p)
    \/ BeginStart(p) \/ StartWithSession(p) \/ StartPairing(p)
    \/ BeginRich(p) \/ EnsureConnected(p)
    \/ WakeDial(p) \/ WakeFails(p) \/ WakePoll(p)
    \/ Deliver(p)
    \/ PairFails(p) \/ PairCode(p)

Keeper(i) == KeeperLook(i) \/ KeeperRedials(i) \/ KeeperFails(i) \/ KeeperEnds(i)

Library(i) ==
    \/ PairSuccess(i) \/ NetDrop(i) \/ RemoteLogout(i)
    \/ \E k \in Chans : NewCode(i, k) \/ CodesExpire(i, k)

\* (Of a closed client only what it still does is followed, not what the
\* network does to it.)
Next ==
    \/ \E p \in Callers : Caller(p)
    \/ \E p \in Procs : Run(p)
    \/ CloseClient \/ ReaperRound
    \/ \E i \in Clients :
         \/ Hibernate(i) \/ Keeper(i) \/ HandleEvent(i)
         \/ i = managed /\ (GrowIdle(i) \/ Library(i) \/ Incoming(i))
         \/ \E k \in Chans : ListenQR(i, k)

\* The goroutines are scheduled, the reaper and the keep-alive loop have their
\* timers, the library hands over its events, and a network that fails is
\* not down for ever: dialling again and again succeeds some time.
Fairness ==
    /\ \A p \in Procs : WF_vars(Run(p))
    /\ \A g \in Background : SF_vars(WakeDial(g))
    /\ WF_vars(ReaperRound \/ \E i \in Clients : Hibernate(i))
    /\ \A i \in Clients : WF_vars(Keeper(i)) /\ SF_vars(KeeperRedials(i)) /\ WF_vars(HandleEvent(i))

Spec == Init /\ [][Next]_vars /\ Fairness

----------------------------------------------------------------------------
(* Safety.                                                                 *)

\* Start runs more than once at a time (main and GetClient both start the
\* first account, every reconnect starts again), yet a client has one
\* keep-alive loop at most.
OneKeeper == \A i \in Clients : client[i].loops <= 1

----------------------------------------------------------------------------
(* Liveness.                                                               *)

\* A session whose socket is down comes back by the keep-alive loop, also
\* after its user has disconnected it and whatever its status says: only
\* hibernation keeps it down.
ShouldReturn(c) == c.loops > 0 /\ ~c.stopped /\ c.id /\ ~c.up /\ c.state # "hibernated"

SessionReturns ==
    \A i \in Clients :
      ShouldReturn(client[i])
        ~> client[i].up \/ client[i].stopped \/ ~client[i].id \/ client[i].state = "hibernated"

\* A client without activity is put to sleep, whatever its status says, unless
\* it waits for a pairing or has once been given a pairing code.
MaySleep(c) == c.up /\ c.idle /\ c.state # "need_qr" /\ ~c.code

IdleSleeps ==
    \A i \in Clients :
      i = managed /\ MaySleep(client[i]) ~> ~MaySleep(client[i]) \/ managed # i

\* A hibernated client that is asked for again and again is woken, although a
\* wake-up whose Connect fails leaves it hibernated and the loop passes it by.
Sleeping(c) == c.state = "hibernated" /\ c.id

WakesUp ==
    \A i \in Clients :
      []<>(managed # i \/ \E p \in Callers : proc[p].on = i /\ At(p, "begin"))
        => (Sleeping(client[i]) /\ client[i].loops > 0 /\ ~client[i].up
              ~> client[i].up \/ ~client[i].id \/ managed # i)

\* A closed client is left alone in the end: its loop is over, the calls that
\* were under way on it are done, and no later request reaches it.
ClosedIsLeftAlone ==
    \A i \in Clients :
      [](client[i].stopped =>
           <>[](client[i].loops = 0 /\ \A p \in Procs : proc[p].on # i))
=============================================================================
