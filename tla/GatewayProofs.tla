---------------------------- MODULE GatewayProofs ----------------------------
(***************************************************************************)
(* Proofs about Gateway, for any number of clients, QR channels, callers   *)
(* and background goroutines: a client never has two keep-alive loops,     *)
(* however many Starts run on it at once, and who asks the manager is      *)
(* never given a client that has been closed.                              *)
(***************************************************************************)
EXTENDS Gateway, TLAPS

ChanType == [Chans -> [open : BOOLEAN, items : Seq(Items)]]

ClientType == [state : States, qr : BOOLEAN, code : BOOLEAN, idle : BOOLEAN,
               id : BOOLEAN, up : BOOLEAN, keeper : BOOLEAN, loops : Nat,
               dialing : BOOLEAN, stopped : BOOLEAN,
               events : Seq(Events), chan : ChanType]

ProcType == [op : Ops, on : 0..MaxClients, at : Steps]

\* A client whose loops are accounted for: the only way to a loop sets keeper.
Kept(c) == c \in ClientType /\ c.loops <= (IF c.keeper THEN 1 ELSE 0)

----------------------------------------------------------------------------
(* What the helpers of the model make of a client that is in order.        *)

LEMMA NoClientKept == Kept(NoClient)
BY DEF Kept, NoClient, ClientType, ChanType, States, Closed

LEMMA SmallChangesKept ==
  ASSUME NEW c, Kept(c)
  PROVE  /\ Kept(Touched(c)) /\ Touched(c).stopped = c.stopped
         /\ Kept(Dropped(c)) /\ Dropped(c).stopped = c.stopped
         /\ Kept(Hibernated(c)) /\ Hibernated(c).stopped = c.stopped
<1>1. Kept(Touched(c)) /\ Touched(c).stopped = c.stopped
  BY DEF Kept, Touched, ClientType
<1>2. Kept(Dropped(c)) /\ Dropped(c).stopped = c.stopped
  BY DEF Kept, Dropped, ClientType, States
<1>3. Kept(Hibernated(c)) /\ Hibernated(c).stopped = c.stopped
  BY DEF Kept, Hibernated, ClientType, States
<1> QED
  BY <1>1, <1>2, <1>3

LEMMA DialledKept ==
  ASSUME NEW c, Kept(c)
  PROVE  Kept(Dialled(c)) /\ Dialled(c).stopped = c.stopped
<1>1. Append(c.events, "Connected") \in Seq(Events)
  BY DEF Kept, ClientType, Events
<1> QED
  BY <1>1 DEF Kept, Dialled, ClientType

\* Start starts a loop at most once per client.
LEMMA SpawnKeeperKept ==
  ASSUME NEW c, Kept(c)
  PROVE  Kept(SpawnKeeper(c)) /\ SpawnKeeper(c).stopped = c.stopped
<1>1. CASE c.keeper
  BY <1>1 DEF SpawnKeeper
<1>2. CASE ~c.keeper
  <2> DEFINE d == [c EXCEPT !.keeper = TRUE, !.loops = c.loops + 1]
  <2>1. c \in ClientType /\ c.loops \in Nat /\ c.loops <= 0 /\ c.loops + 1 \in Nat
    BY <1>2 DEF Kept, ClientType
  <2>2. d \in ClientType /\ d.keeper /\ d.loops = c.loops + 1 /\ d.stopped = c.stopped
    BY <2>1 DEF ClientType
  <2>3. d.loops <= (IF d.keeper THEN 1 ELSE 0)
    BY <2>1, <2>2
  <2> QED
    BY <1>2, <2>2, <2>3 DEF Kept, SpawnKeeper
<1> QED
  BY <1>1, <1>2

LEMMA CloseOfKept ==
  ASSUME NEW c, Kept(c)
  PROVE  Kept(CloseOf(c)) /\ CloseOf(c).stopped
<1> DEFINE s == IF c.state = "hibernated" THEN "hibernated" ELSE "disconnected"
           d == [NoClient EXCEPT !.stopped = TRUE, !.id = c.id, !.keeper = c.keeper,
                                 !.loops = c.loops]
<1>1. d \in ClientType /\ d.stopped /\ d.loops = c.loops /\ d.keeper = c.keeper
  BY NoClientKept DEF Kept, ClientType
<1>2. s \in States /\ c.dialing \in BOOLEAN
  BY DEF States, Kept, ClientType
<1>3. CloseOf(c) = [d EXCEPT !.dialing = c.dialing, !.state = s]
  BY DEF CloseOf
<1> HIDE DEF d, s
<1> QED
  BY <1>1, <1>2, <1>3 DEF Kept, ClientType

LEMMA StateKept ==
  ASSUME NEW c, Kept(c), NEW s \in States
  PROVE  Kept([c EXCEPT !.state = s]) /\ [c EXCEPT !.state = s].stopped = c.stopped
BY DEF Kept, ClientType

LEMMA HandledKept ==
  ASSUME NEW c, Kept(c), c.events # <<>>
  PROVE  Kept(Handled(c)) /\ Handled(c).stopped = c.stopped
<1>1. Tail(c.events) \in Seq(Events) /\ Head(c.events) \in Events
  BY DEF Kept, ClientType
<1> QED
  BY <1>1 DEF Kept, Handled, ClientType, States, Events

LEMMA ChanKept ==
  ASSUME NEW c, Kept(c), NEW k \in Chans, NEW ch \in [open : BOOLEAN, items : Seq(Items)]
  PROVE  /\ Kept([c EXCEPT !.chan[k] = ch])
         /\ [c EXCEPT !.chan[k] = ch].stopped = c.stopped
BY DEF Kept, ClientType, ChanType

LEMMA ItemReadKept ==
  ASSUME NEW c, Kept(c), NEW k \in Chans, c.chan[k].items # <<>>
  PROVE  Kept(ItemRead(c, k)) /\ ItemRead(c, k).stopped = c.stopped
<1> DEFINE item == Head(c.chan[k].items)
           ch   == IF item = "code" THEN [open |-> TRUE, items |-> Tail(c.chan[k].items)] ELSE Closed
           rest == [c EXCEPT !.chan[k] = ch]
<1>1. item \in Items /\ Tail(c.chan[k].items) \in Seq(Items)
  BY DEF Kept, ClientType, ChanType
<1>2. ch \in [open : BOOLEAN, items : Seq(Items)]
  BY <1>1 DEF Closed
<1>3. Kept(rest) /\ rest.stopped = c.stopped
  BY <1>2, ChanKept
<1>4. ItemRead(c, k) = CASE item = "code"    -> [rest EXCEPT !.qr = TRUE, !.state = "need_qr"]
                         [] item = "timeout" -> [rest EXCEPT !.qr = FALSE, !.state = "disconnected"]
                         [] item = "success" -> [rest EXCEPT !.qr = FALSE]
  BY DEF ItemRead
<1> HIDE DEF rest, item
<1> QED
  <2>1. CASE item = "code"
    BY <1>3, <1>4, <2>1 DEF Kept, ClientType, States
  <2>2. CASE item = "timeout"
    BY <1>3, <1>4, <2>2 DEF Kept, ClientType, States
  <2>3. CASE item = "success"
    BY <1>3, <1>4, <2>3 DEF Kept, ClientType
  <2> QED
    BY <1>1, <2>1, <2>2, <2>3 DEF Items
----------------------------------------------------------------------------
(* The invariant.                                                          *)

Busy == Steps \ {"idle", "boot"}

\* Types; a task that is under way is one on a client that exists.
Typed ==
    /\ TypeOK
    /\ \A p \in Procs : proc[p].at \in Busy => proc[p].on \in 1..created

\* Every loop of every client is accounted for.
Counted == \A i \in Clients : Kept(client[i])

\* The manager's client has not been closed.
ClosedIsForgotten == managed # 0 => ~client[managed].stopped

IInv == Typed /\ Counted /\ ClosedIsForgotten

\* The clients with one of them replaced by one in order, open or closed as it was.
Replaced(i, c) ==
    /\ i \in Clients /\ Kept(c) /\ c.stopped = client[i].stopped
    /\ Become(i, c)

ClientsTyped == client \in [Clients -> ClientType]

LEMMA Unfolded ==
  ASSUME IInv
  PROVE  /\ ClientsTyped /\ \A i \in Clients : Kept(client[i])
         /\ created \in 0..MaxClients /\ managed \in 0..created
         /\ proc \in [Procs -> ProcType]
         /\ \A p \in Procs : proc[p].at \in Busy => proc[p].on \in Clients
         /\ managed # 0 => managed \in Clients
BY BoundsAssumption
   DEF IInv, Typed, Counted, TypeOK, ClientsTyped, ClientType, ChanType, ProcType, Clients

\* The tasks are typed, and those under way are on clients that exist.
Aimed ==
    /\ proc \in [Procs -> ProcType]
    /\ \A p \in Procs : proc[p].at \in Busy => proc[p].on \in 1..created

\* A step that creates and closes no client.
LEMMA StepKept ==
  ASSUME IInv, Same \/ \E i, c : Replaced(i, c),
         UNCHANGED <<managed, created>>, stored' \in BOOLEAN, reap' \subseteq Clients, Aimed'
  PROVE  IInv'
<1>1. /\ client' \in [Clients -> ClientType]
      /\ \A j \in Clients : Kept(client'[j]) /\ client'[j].stopped = client[j].stopped
  <2>1. CASE Same
    BY <2>1, Unfolded DEF Same, ClientsTyped
  <2>2. CASE \E i, c : Replaced(i, c)
    <3>1. PICK i, c : Replaced(i, c)
      BY <2>2
    <3>2. ClientsTyped /\ c \in ClientType
      BY <3>1, Unfolded DEF Replaced, Kept
    <3>3. client' = [client EXCEPT ![i] = c] /\ i \in Clients
      BY <3>1 DEF Replaced, Become
    <3>4. client' \in [Clients -> ClientType]
      BY <3>2, <3>3 DEF ClientsTyped
    <3>5. \A j \in Clients : Kept(client'[j]) /\ client'[j].stopped = client[j].stopped
      BY <3>1, <3>2, <3>3, Unfolded DEF ClientsTyped, Replaced
    <3> QED
      BY <3>4, <3>5
  <2> QED
    BY <2>1, <2>2
<1>2. Typed'
  BY <1>1 DEF IInv, Typed, TypeOK, ClientType, ChanType, Aimed, ProcType
<1>3. Counted'
  BY <1>1 DEF Counted, Kept
<1>4. ClosedIsForgotten'
  BY <1>1, Unfolded DEF IInv, ClosedIsForgotten
<1> QED
  BY <1>2, <1>3, <1>4 DEF IInv

\* What a step does to the task of a process.
LEMMA TasksKept ==
  ASSUME IInv, UNCHANGED created
  PROVE  /\ UNCHANGED proc => Aimed'
         /\ \A p \in Procs : Stop(p) => Aimed'
         /\ \A p \in Procs, s \in Steps : proc[p].at \in Busy /\ Goto(p, s) => Aimed'
         /\ \A p \in Procs : proc[p].at \in Busy /\ Connected(p) => Aimed'
<1> USE Unfolded
<1>0. Aimed
  BY DEF IInv, Typed, TypeOK, Aimed, ProcType
<1>1. ASSUME UNCHANGED proc PROVE Aimed'
  BY <1>0, <1>1 DEF Aimed
<1>2. ASSUME NEW p \in Procs, Stop(p) PROVE Aimed'
  <2>1. Resting \in ProcType /\ Resting.at \notin Busy
    BY BoundsAssumption DEF Resting, ProcType, Ops, Requests, Steps, Busy
  <2> QED
    BY <1>0, <1>2, <2>1 DEF Aimed, Stop
<1>3. ASSUME NEW p \in Procs, NEW s \in Steps, proc[p].at \in Busy, Goto(p, s) PROVE Aimed'
  <2>1. proc' = [proc EXCEPT ![p].at = s]
    BY <1>3 DEF Goto
  <2> QED
    BY <1>0, <1>3, <2>1 DEF Aimed, ProcType
<1>4. ASSUME NEW p \in Procs, proc[p].at \in Busy, Connected(p) PROVE Aimed'
  BY <1>2, <1>3, <1>4 DEF Connected, Steps
<1> QED
  BY <1>1, <1>2, <1>3, <1>4

----------------------------------------------------------------------------
(* The manager.                                                            *)

LEMMA TaskTyped ==
  ASSUME NEW op \in Requests \cup {"wake"}, NEW i \in Clients
  PROVE  Task(op, i) \in ProcType /\ (Task(op, i).at \in Busy => Task(op, i).on = i)
BY BoundsAssumption DEF Task, Resting, ProcType, Ops, Requests, Steps, Busy, Clients

LEMMA GetKept ==
  ASSUME IInv, NEW p \in Callers, NEW op \in Requests, GetClient(p, op)
  PROVE  IInv'
<1>1. managed \in Clients /\ managed \in 1..created /\ Kept(client[managed])
  BY Unfolded DEF GetClient, Clients
<1>2. Replaced(managed, Touched(client[managed]))
  BY <1>1, SmallChangesKept DEF Replaced, GetClient
<1>3. Aimed'
  <2> DEFINE T == Task(op, managed)
             W == Task("wake", managed)
  <2>1. T \in ProcType /\ W \in ProcType /\ p \in Procs
    BY <1>1, TaskTyped DEF Procs
  <2>2. (T.at \in Busy => T.on \in 1..created) /\ (W.at \in Busy => W.on \in 1..created)
    BY <1>1, TaskTyped
  <2> HIDE DEF T, W
  <2>3. CASE proc' = [proc EXCEPT ![p] = T]
    BY <2>1, <2>2, <2>3, Unfolded DEF GetClient, Quiet, Aimed, IInv, Typed
  <2>4. CASE \E g \in Background : proc' = [proc EXCEPT ![p] = T, ![g] = W]
    BY <2>1, <2>2, <2>4, Unfolded DEF GetClient, Quiet, Aimed, IInv, Typed, Procs
  <2> QED
    BY <2>3, <2>4 DEF GetClient, T, W
<1> QED
  BY <1>2, <1>3, StepKept DEF GetClient, Quiet, IInv, Typed, TypeOK

LEMMA CreateKept ==
  ASSUME IInv, NEW p \in Callers, NEW op \in Requests, CreateClient(p, op)
  PROVE  IInv'
<1> DEFINE i == created + 1
           c == [NoClient EXCEPT !.id = stored]
           T == Task(op, i)
           S == Task("start", i)
<1>1. i \in Clients /\ created' = i /\ managed' = i /\ client' = [client EXCEPT ![i] = c]
  BY Unfolded, BoundsAssumption DEF CreateClient, Become, Clients
<1>2. Kept(c) /\ ~c.stopped
  <2>1. stored \in BOOLEAN
    BY DEF IInv, Typed, TypeOK
  <2>2. ~NoClient.stopped
    BY DEF NoClient
  <2> QED
    BY <2>1, <2>2, NoClientKept DEF Kept, ClientType
<1>3. client' \in [Clients -> ClientType] /\ \A j \in Clients : Kept(client'[j])
  BY <1>1, <1>2, Unfolded DEF ClientsTyped, Kept
<1>4. ~client'[i].stopped
  BY <1>1, <1>2, Unfolded DEF ClientsTyped
<1>5. PICK g \in Background : proc' = [proc EXCEPT ![p] = T, ![g] = S]
  BY DEF CreateClient
<1>6. /\ T \in ProcType /\ S \in ProcType /\ p \in Procs /\ g \in Procs
      /\ (T.at \in Busy => T.on = i) /\ (S.at \in Busy => S.on = i)
  BY <1>1, TaskTyped DEF Procs, Requests
<1>7. created \in Nat /\ i \in 1..i /\ 1..created \subseteq 1..i
  BY Unfolded, BoundsAssumption
<1> HIDE DEF c, T, S
<1>8. Aimed'
  BY <1>1, <1>5, <1>6, <1>7, Unfolded DEF Aimed, IInv, Typed
<1>9. Typed'
  <2>1. created' \in 0..MaxClients /\ managed' \in 0..created'
    BY <1>1, <1>7, BoundsAssumption DEF Clients
  <2>2. stored' \in BOOLEAN /\ reap' \subseteq Clients
    BY DEF CreateClient, IInv, Typed, TypeOK
  <2> QED
    BY <1>3, <1>8, <2>1, <2>2 DEF Typed, TypeOK, ClientType, ChanType, Aimed, ProcType
<1>10. Counted'
  BY <1>3 DEF Counted, Kept
<1> QED
  BY <1>1, <1>4, <1>9, <1>10 DEF IInv, ClosedIsForgotten

LEMMA CloseKept ==
  ASSUME IInv, CloseClient
  PROVE  IInv'
<1>1. managed \in Clients /\ Kept(CloseOf(client[managed]))
  BY Unfolded, CloseOfKept DEF CloseClient
<1>2. client' = [client EXCEPT ![managed] = CloseOf(client[managed])] /\ managed' = 0
  BY DEF CloseClient, Become
<1>3. client' \in [Clients -> ClientType] /\ \A j \in Clients : Kept(client'[j])
  BY <1>1, <1>2, Unfolded DEF ClientsTyped, Kept
<1>4. Typed'
  BY <1>2, <1>3, Unfolded DEF CloseClient, IInv, Typed, TypeOK, ClientType, ChanType
<1>5. Counted'
  BY <1>3 DEF Counted, Kept
<1>6. ClosedIsForgotten'
  BY <1>2 DEF ClosedIsForgotten
<1> QED
  BY <1>4, <1>5, <1>6 DEF IInv

\* A step that leaves the table, the database and the reaper alone.
LEMMA QuietKept ==
  ASSUME IInv, Quiet, Aimed'
  PROVE  /\ Same => IInv'
         /\ \A i \in Clients : \A c :
              Become(i, c) /\ Kept(c) /\ c.stopped = client[i].stopped => IInv'
<1>1. /\ UNCHANGED <<managed, created>>
      /\ stored' \in BOOLEAN /\ reap' \subseteq Clients
  BY DEF Quiet, IInv, Typed, TypeOK
<1>2. ASSUME Same PROVE IInv'
  BY <1>1, <1>2, StepKept
<1>3. ASSUME NEW i \in Clients, NEW c, Become(i, c), Kept(c), c.stopped = client[i].stopped
      PROVE  IInv'
  BY <1>1, <1>3, StepKept DEF Replaced
<1> QED
  BY <1>2, <1>3

LEMMA ReaperKept ==
  ASSUME IInv
  PROVE  /\ ReaperRound => IInv'
         /\ \A i \in Clients : Hibernate(i) => IInv'
<1>1. ASSUME ReaperRound PROVE IInv'
  <2>1. managed \in Clients
    BY <1>1, Unfolded DEF ReaperRound
  <2>2. Aimed' /\ Same /\ stored' \in BOOLEAN /\ reap' \subseteq Clients
    BY <1>1, <2>1, TasksKept DEF ReaperRound, Same, IInv, Typed, TypeOK
  <2> QED
    BY <1>1, <2>2, StepKept DEF ReaperRound
<1>2. ASSUME NEW i \in Clients, Hibernate(i) PROVE IInv'
  <2>1. Replaced(i, Hibernated(client[i]))
    BY <1>2, Unfolded, SmallChangesKept DEF Hibernate, Replaced
  <2>2. Aimed' /\ stored' \in BOOLEAN /\ reap' \subseteq Clients
    BY <1>2, TasksKept DEF Hibernate, IInv, Typed, TypeOK
  <2> QED
    BY <1>2, <2>1, <2>2, StepKept DEF Hibernate
<1> QED
  BY <1>1, <1>2

----------------------------------------------------------------------------
(* The requests and the goroutines.                                        *)

\* Of a process that is under way on a client.
LEMMA OnAClient ==
  ASSUME IInv, NEW p \in Procs, proc[p].at \in Busy
  PROVE  proc[p].on \in Clients /\ Kept(Of(p)) /\ Of(p) = client[proc[p].on]
BY Unfolded DEF Of

LEMMA StartsKept ==
  ASSUME IInv, NEW p \in Procs,
         BeginReconnect(p) \/ BeginStatus(p) \/ BeginDisconnect(p) \/ BeginStart(p)
  PROVE  IInv'
<1>1. proc[p].at \in Busy /\ created' = created /\ Quiet
  BY DEF BeginReconnect, BeginStatus, BeginDisconnect, BeginStart, At, Busy, Steps, Quiet
<1>2. proc[p].on \in Clients /\ Kept(Of(p)) /\ Of(p) = client[proc[p].on]
  BY <1>1, OnAClient
<1>3. CASE BeginReconnect(p)
  <2> DEFINE T == Task("start", proc[p].on)
  <2>1. T \in ProcType /\ (T.at \in Busy => T.on = proc[p].on)
    BY <1>2, TaskTyped DEF Requests
  <2>2. proc' = [proc EXCEPT ![p] = T]
    BY <1>3 DEF BeginReconnect
  <2> HIDE DEF T
  <2>3. Aimed'
    BY <1>1, <2>1, <2>2, Unfolded DEF Aimed, IInv, Typed
  <2> QED
    BY <1>1, <1>2, <1>3, <2>3, QuietKept, SmallChangesKept DEF BeginReconnect
<1>4. CASE BeginStatus(p)
  BY <1>1, <1>4, QuietKept, TasksKept DEF BeginStatus
<1>5. CASE BeginDisconnect(p)
  BY <1>1, <1>2, <1>5, QuietKept, TasksKept, SmallChangesKept DEF BeginDisconnect
<1>6. CASE BeginStart(p)
  <2>1. Aimed'
    BY <1>1, <1>6, TasksKept DEF BeginStart, Steps
  <2>2. "connecting" \in States
    BY DEF States
  <2> QED
    BY <1>1, <1>2, <1>6, <2>1, <2>2, QuietKept, StateKept DEF BeginStart
<1> QED
  BY <1>3, <1>4, <1>5, <1>6

LEMMA DialsKept ==
  ASSUME IInv, NEW p \in Procs, StartWithSession(p) \/ StartPairing(p)
  PROVE  IInv'
<1>1. proc[p].at \in Busy /\ created' = created /\ Quiet
  BY DEF StartWithSession, StartPairing, At, Busy, Steps, Quiet
<1>2. proc[p].on \in Clients /\ Kept(Of(p)) /\ Of(p) = client[proc[p].on]
  BY <1>1, OnAClient
<1>3. Aimed'
  BY <1>1, TasksKept DEF StartWithSession, StartPairing
<1> DEFINE Down == [Of(p) EXCEPT !.state = "disconnected"]
<1>4. Kept(Down) /\ Down.stopped = Of(p).stopped
  BY <1>2, StateKept DEF States
<1>5. ASSUME NEW k \in Chans
      PROVE  LET d == [Dialled(Of(p)) EXCEPT !.chan[k] = [open |-> TRUE, items |-> <<>>]]
             IN  Kept(d) /\ d.stopped = Of(p).stopped
  <2> DEFINE d == Dialled(Of(p))
  <2>1. Kept(d) /\ d.stopped = Of(p).stopped
    BY <1>2, DialledKept
  <2> HIDE DEF d
  <2>2. [open |-> TRUE, items |-> <<>>] \in [open : BOOLEAN, items : Seq(Items)]
    OBVIOUS
  <2> QED
    BY <2>1, <2>2, ChanKept DEF d
<1> HIDE DEF Down
<1>6. CASE StartWithSession(p)
  <2>1. CASE Become(proc[p].on, SpawnKeeper(Dialled(Of(p))))
    BY <1>1, <1>2, <1>3, <2>1, QuietKept, DialledKept, SpawnKeeperKept
  <2>2. CASE Become(proc[p].on, SpawnKeeper(Down))
    BY <1>1, <1>2, <1>3, <1>4, <2>2, QuietKept, SpawnKeeperKept
  <2> QED
    BY <1>6, <2>1, <2>2 DEF StartWithSession, Down
<1>7. CASE StartPairing(p)
  <2>1. ASSUME NEW k \in Unchannelled(Of(p)),
               Become(proc[p].on,
                 SpawnKeeper([Dialled(Of(p)) EXCEPT !.chan[k] = [open |-> TRUE, items |-> <<>>]]))
        PROVE  IInv'
    <3> DEFINE d == [Dialled(Of(p)) EXCEPT !.chan[k] = [open |-> TRUE, items |-> <<>>]]
    <3>1. Kept(d) /\ d.stopped = Of(p).stopped /\ Become(proc[p].on, SpawnKeeper(d))
      BY <1>5, <2>1 DEF Unchannelled
    <3> HIDE DEF d
    <3> QED
      BY <1>1, <1>2, <1>3, <3>1, QuietKept, SpawnKeeperKept
  <2>2. CASE Become(proc[p].on, Down)
    BY <1>1, <1>2, <1>3, <1>4, <2>2, QuietKept
  <2> QED
    BY <1>7, <2>1, <2>2 DEF StartPairing, Down
<1> QED
  BY <1>6, <1>7
LEMMA WakesKept ==
  ASSUME IInv, NEW p \in Procs,
         BeginRich(p) \/ EnsureConnected(p) \/ WakeDial(p) \/ WakeFails(p) \/ WakePoll(p)
  PROVE  IInv'
<1>1. proc[p].at \in Busy /\ created' = created /\ Quiet
  BY DEF BeginRich, EnsureConnected, WakeDial, WakeFails, WakePoll, At, Busy, Steps, Quiet
<1>2. proc[p].on \in Clients /\ Kept(Of(p)) /\ Of(p) = client[proc[p].on]
  BY <1>1, OnAClient
<1>3. CASE BeginRich(p)
  <2>1. proc' = [proc EXCEPT ![p].op = "rich", ![p].at = "ensure"]
    BY <1>3 DEF BeginRich
  <2>2. Aimed'
    BY <1>1, <2>1, Unfolded DEF Aimed, IInv, Typed, ProcType, Ops, Steps
  <2> QED
    BY <1>1, <1>2, <1>3, <2>2, QuietKept, SmallChangesKept DEF BeginRich
<1>4. CASE EnsureConnected(p)
  BY <1>1, <1>4, QuietKept, TasksKept DEF EnsureConnected
<1>5. CASE WakeDial(p)
  BY <1>1, <1>2, <1>5, QuietKept, TasksKept, DialledKept DEF WakeDial, Steps
<1>6. CASE WakeFails(p)
  BY <1>1, <1>6, QuietKept, TasksKept DEF WakeFails
<1>7. CASE WakePoll(p)
  <2>1. Aimed'
    BY <1>1, <1>7, TasksKept DEF WakePoll
  <2>2. "connected" \in States
    BY DEF States
  <2> QED
    BY <1>1, <1>2, <1>7, <2>1, <2>2, QuietKept, StateKept DEF WakePoll
<1> QED
  BY <1>3, <1>4, <1>5, <1>6, <1>7

LEMMA CallsKept ==
  ASSUME IInv, NEW p \in Procs, Deliver(p) \/ PairFails(p) \/ PairCode(p)
  PROVE  IInv'
<1>1. proc[p].at \in Busy /\ created' = created /\ Quiet
  BY DEF Deliver, PairFails, PairCode, At, Busy, Steps, Quiet
<1>2. proc[p].on \in Clients /\ Kept(Of(p)) /\ Of(p) = client[proc[p].on]
  BY <1>1, OnAClient
<1>3. Aimed'
  BY <1>1, TasksKept DEF Deliver, PairFails, PairCode
<1>4. CASE Deliver(p)
  BY <1>1, <1>2, <1>3, <1>4, QuietKept, SmallChangesKept DEF Deliver
<1>5. CASE PairFails(p)
  BY <1>1, <1>2, <1>3, <1>5, QuietKept, DialledKept DEF PairFails
<1>6. CASE PairCode(p)
  <2> DEFINE c == IF Of(p).up THEN Of(p) ELSE Dialled(Of(p))
             d == [c EXCEPT !.code = TRUE, !.qr = FALSE, !.state = "need_qr"]
  <2>1. Kept(c) /\ c.stopped = Of(p).stopped /\ Become(proc[p].on, d)
    BY <1>2, <1>6, DialledKept DEF PairCode
  <2> HIDE DEF c
  <2>2. Kept(d) /\ d.stopped = c.stopped
    BY <2>1 DEF Kept, ClientType, States
  <2> HIDE DEF d
  <2> QED
    BY <1>1, <1>2, <1>3, <2>1, <2>2, QuietKept
<1> QED
  BY <1>4, <1>5, <1>6

----------------------------------------------------------------------------
(* The loop, the events and the library.                                   *)

LEMMA KeeperKept ==
  ASSUME IInv, NEW i \in Clients, Keeper(i)
  PROVE  IInv'
<1>1. Kept(client[i]) /\ Quiet /\ Aimed'
  BY Unfolded, TasksKept
     DEF Keeper, KeeperLook, KeeperRedials, KeeperFails, KeeperEnds, Quiet
<1> DEFINE c == client[i]
<1>2. ASSUME NEW d, Kept(d), NEW b \in BOOLEAN
      PROVE  Kept([d EXCEPT !.dialing = b]) /\ [d EXCEPT !.dialing = b].stopped = d.stopped
  BY <1>2 DEF Kept, ClientType
<1>3. CASE KeeperLook(i) \/ KeeperFails(i)
  BY <1>1, <1>2, <1>3, QuietKept DEF KeeperLook, KeeperFails
<1>4. CASE KeeperRedials(i)
  BY <1>1, <1>2, <1>4, QuietKept, DialledKept DEF KeeperRedials
<1>5. CASE KeeperEnds(i)
  <2> DEFINE d == [c EXCEPT !.loops = c.loops - 1]
  <2>1. Become(i, d) /\ c.loops > 0 /\ c \in ClientType /\ c.loops <= (IF c.keeper THEN 1 ELSE 0)
    BY <1>1, <1>5 DEF KeeperEnds, Kept
  <2>2. c.loops - 1 \in Nat /\ c.loops - 1 <= (IF c.keeper THEN 1 ELSE 0)
    BY <2>1 DEF ClientType
  <2>3. Kept(d) /\ d.stopped = c.stopped
    BY <2>1, <2>2 DEF Kept, ClientType
  <2> HIDE DEF d
  <2> QED
    BY <1>1, <2>1, <2>3, QuietKept
<1> QED
  BY <1>3, <1>4, <1>5 DEF Keeper

LEMMA EventsKept ==
  ASSUME IInv, NEW i \in Clients,
         \/ HandleEvent(i) \/ Incoming(i) \/ GrowIdle(i)
         \/ \E k \in Chans : ListenQR(i, k)
  PROVE  IInv'
<1>1. Kept(client[i]) /\ Quiet /\ Aimed'
  BY Unfolded, TasksKept DEF HandleEvent, Incoming, GrowIdle, ListenQR, Quiet
<1>2. CASE HandleEvent(i)
  BY <1>1, <1>2, QuietKept, HandledKept DEF HandleEvent
<1>3. CASE Incoming(i)
  BY <1>1, <1>3, QuietKept, SmallChangesKept DEF Incoming
<1>4. CASE GrowIdle(i)
  <2> DEFINE d == [client[i] EXCEPT !.idle = TRUE]
  <2>1. Become(i, d) /\ Kept(d) /\ d.stopped = client[i].stopped
    BY <1>1, <1>4 DEF GrowIdle, Kept, ClientType
  <2> HIDE DEF d
  <2> QED
    BY <1>1, <2>1, QuietKept
<1>5. ASSUME NEW k \in Chans, ListenQR(i, k) PROVE IInv'
  BY <1>1, <1>5, QuietKept, ItemReadKept DEF ListenQR
<1> QED
  BY <1>2, <1>3, <1>4, <1>5
LEMMA LibraryKept ==
  ASSUME IInv, NEW i \in Clients, Library(i)
  PROVE  IInv'
<1> DEFINE c == client[i]
<1>1. Kept(c) /\ Aimed' /\ UNCHANGED <<managed, created, reap>>
  BY Unfolded, TasksKept
     DEF Library, PairSuccess, NetDrop, RemoteLogout, NewCode, CodesExpire, Quiet
<1>2. ASSUME NEW d, Kept(d), d.stopped = c.stopped, Become(i, d), stored' \in BOOLEAN
      PROVE  IInv'
  BY <1>1, <1>2, StepKept DEF Replaced, IInv, Typed, TypeOK
<1>3. stored' \in BOOLEAN
  BY DEF Library, PairSuccess, NetDrop, RemoteLogout, NewCode, CodesExpire, Quiet, IInv, Typed, TypeOK
<1>4. <<"Connected">> \in Seq(Events) /\ <<"Disconnected">> \in Seq(Events)
      /\ <<"LoggedOut">> \in Seq(Events)
  BY DEF Events
<1>5. CASE PairSuccess(i)
  <2> DEFINE chans == [k \in Chans |->
                         IF Feeding(c.chan[k])
                         THEN [open |-> TRUE, items |-> Append(c.chan[k].items, "success")]
                         ELSE c.chan[k]]
             d == [c EXCEPT !.id = TRUE, !.events = <<"Connected">>, !.chan = chans]
  <2>1. chans \in ChanType
    <3> SUFFICES ASSUME NEW k \in Chans PROVE chans[k] \in [open : BOOLEAN, items : Seq(Items)]
      BY DEF ChanType
    <3>1. c.chan[k] \in [open : BOOLEAN, items : Seq(Items)] /\ "success" \in Items
      BY <1>1 DEF Kept, ClientType, ChanType, Items
    <3>2. Append(c.chan[k].items, "success") \in Seq(Items)
      BY <3>1
    <3> QED
      BY <3>1, <3>2
  <2>2. Become(i, d)
    BY <1>5 DEF PairSuccess
  <2> HIDE DEF chans
  <2>3. Kept(d) /\ d.stopped = c.stopped
    BY <1>1, <1>4, <2>1 DEF Kept, ClientType
  <2> HIDE DEF d
  <2> QED
    BY <1>2, <1>3, <2>2, <2>3
<1>6. CASE NetDrop(i)
  <2> DEFINE d == [c EXCEPT !.up = FALSE, !.events = <<"Disconnected">>]
  <2>1. Become(i, d) /\ Kept(d) /\ d.stopped = c.stopped
    BY <1>1, <1>4, <1>6 DEF NetDrop, Kept, ClientType
  <2> HIDE DEF d
  <2> QED
    BY <1>2, <1>3, <2>1
<1>7. CASE RemoteLogout(i)
  <2> DEFINE d == [c EXCEPT !.up = FALSE, !.id = FALSE, !.events = <<"LoggedOut">>]
  <2>1. Become(i, d) /\ Kept(d) /\ d.stopped = c.stopped
    BY <1>1, <1>4, <1>7 DEF RemoteLogout, Kept, ClientType
  <2> HIDE DEF d
  <2> QED
    BY <1>2, <1>3, <2>1
<1>8. ASSUME NEW k \in Chans, NewCode(i, k) \/ CodesExpire(i, k) PROVE IInv'
  <2>1. ASSUME NEW s \in Seq(Items)
        PROVE  LET d == [c EXCEPT !.chan[k].items = s] IN Kept(d) /\ d.stopped = c.stopped
    BY <1>1, <2>1 DEF Kept, ClientType, ChanType
  <2>2. <<"code">> \in Seq(Items) /\ <<"timeout">> \in Seq(Items)
    BY DEF Items
  <2>3. CASE NewCode(i, k)
    <3> DEFINE d == [c EXCEPT !.chan[k].items = <<"code">>]
    <3>1. Become(i, d) /\ Kept(d) /\ d.stopped = c.stopped
      BY <2>1, <2>2, <2>3 DEF NewCode
    <3> HIDE DEF d
    <3> QED
      BY <1>2, <1>3, <3>1
  <2>4. CASE CodesExpire(i, k)
    <3> DEFINE e == [c EXCEPT !.chan[k].items = <<"timeout">>]
               d == [e EXCEPT !.up = FALSE]
    <3>1. Kept(e) /\ e.stopped = c.stopped /\ Become(i, d)
      BY <2>1, <2>2, <2>4 DEF CodesExpire
    <3> HIDE DEF e
    <3>2. Kept(d) /\ d.stopped = c.stopped
      BY <3>1 DEF Kept, ClientType
    <3> HIDE DEF d
    <3> QED
      BY <1>2, <1>3, <3>1, <3>2
  <2> QED
    BY <1>8, <2>3, <2>4
<1> QED
  BY <1>5, <1>6, <1>7, <1>8 DEF Library

----------------------------------------------------------------------------
(* The theorems.                                                           *)

LEMMA Initially == Init => IInv
<1> SUFFICES ASSUME Init PROVE IInv
  OBVIOUS
<1>1. client = [i \in Clients |-> NoClient] /\ created = 0 /\ managed = 0
  BY DEF Init
<1>2. Counted
  BY <1>1, NoClientKept DEF Counted
<1>3. Resting \in ProcType /\ [Resting EXCEPT !.at = "boot"] \in ProcType
  BY BoundsAssumption DEF Resting, ProcType, Ops, Requests, Steps
<1>4. proc \in [Procs -> ProcType] /\ \A p \in Procs : proc[p].at \notin Busy
  BY <1>3 DEF Init, Busy, Steps, Resting
<1>5. client \in [Clients -> ClientType]
  BY <1>1, NoClientKept DEF Kept
<1>6. created \in 0..MaxClients /\ managed \in 0..created
  BY <1>1, BoundsAssumption
<1>7. Typed
  BY <1>4, <1>5, <1>6 DEF Init, Typed, TypeOK, ClientType, ChanType, ProcType
<1> QED
  BY <1>1, <1>2, <1>7 DEF IInv, ClosedIsForgotten

LEMMA RunKept ==
  ASSUME IInv, NEW p \in Procs, Run(p)
  PROVE  IInv'
BY StartsKept, DialsKept, WakesKept, CallsKept DEF Run

LEMMA NextKept == IInv /\ [Next]_vars => IInv'
<1> SUFFICES ASSUME IInv, [Next]_vars PROVE IInv'
  OBVIOUS
<1>1. ASSUME NEW p \in Callers, Caller(p) PROVE IInv'
  BY <1>1, GetKept, CreateKept DEF Caller
<1>2. ASSUME NEW p \in Procs, Run(p) PROVE IInv'
  BY <1>2, RunKept
<1>3. CASE CloseClient \/ ReaperRound
  BY <1>3, CloseKept, ReaperKept
<1>4. ASSUME NEW i \in Clients,
             \/ Hibernate(i) \/ Keeper(i) \/ HandleEvent(i)
             \/ GrowIdle(i) \/ Library(i) \/ Incoming(i)
             \/ \E k \in Chans : ListenQR(i, k)
      PROVE  IInv'
  BY <1>4, ReaperKept, KeeperKept, EventsKept, LibraryKept
<1>5. CASE UNCHANGED vars
  BY <1>5, Unfolded, StepKept, TasksKept DEF vars, Same, IInv, Typed, TypeOK
<1> QED
  BY <1>1, <1>2, <1>3, <1>4, <1>5 DEF Next

\* The invariant holds in every behaviour, whatever the library, the network and
\* the goroutines of any number of clients do.
THEOREM Invariant == Spec => []IInv
BY Initially, NextKept, PTL DEF Spec

\* Every reachable state of the client objects, the manager's table and the
\* tasks has its type, whatever the number of clients, channels and goroutines.
THEOREM Types == Spec => []TypeOK
<1>1. IInv => TypeOK
  BY DEF IInv, Typed
<1> QED
  BY <1>1, Invariant, PTL

\* Start of client.go runs on one client from main, GetClient, a reconnect and a
\* QR request at once, and spawns the keep-alive loop at the end: the flag it
\* sets under the lock lets one of them do so, and nothing takes the flag back.
THEOREM OneLoopPerClient == Spec => []OneKeeper
<1>1. IInv => OneKeeper
  BY Unfolded DEF Kept, OneKeeper, ClientType
<1> QED
  BY <1>1, Invariant, PTL

\* CloseClient and CloseAll of manager.go close a client and forget it in one go:
\* GetClient never hands out a client whose loop has been told to stop.
THEOREM NoClosedClientIsManaged == Spec => []ClosedIsForgotten
<1>1. IInv => ClosedIsForgotten
  BY DEF IInv
<1> QED
  BY <1>1, Invariant, PTL

=============================================================================
