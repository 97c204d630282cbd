---------------------------- MODULE ServicesProofs ----------------------------
(***************************************************************************)
(* Proofs about Services: the tunnel, the hub and the process keep their   *)
(* types and their safety invariants, for every number of requests,        *)
(* daemons, sockets, kinds and events.                                     *)
(***************************************************************************)
EXTENDS Services, FiniteSets, Sequences, FiniteSetTheorems, SequenceTheorems, TLAPS

----------------------------------------------------------------------------
(* The tunnel.                                                             *)

DaemonType == [run : {"none", "running", "exited"}, line : {"none", "stdout", "stderr", "read"},
               monitor : {"off", "reading", "found", "done"}, waiter : {"off", "waiting", "done"}]

TunnelInv == Tunnel!TypeOK /\ Tunnel!StatusFits

LEMMA TunnelConstants ==
  /\ MaxDaemons \in Nat /\ Tunnel!Daemons = 1..MaxDaemons
  /\ Tunnel!NoDaemon \in DaemonType
BY ServicesAssumption DEF Tunnel!Daemons, Tunnel!NoDaemon, DaemonType

LEMMA TunnelInit == Tunnel!Init => TunnelInv
BY TunnelConstants DEF Tunnel!Init, TunnelInv, Tunnel!TypeOK, Tunnel!StatusFits, Tunnel!UrlFollowsState,
   Tunnel!StartingHasCause, Tunnel!Binaries, Tunnel!Steps, DaemonType

LEMMA TunnelStep == TunnelInv /\ [Tunnel!Next]_tunnel => TunnelInv'
<1> SUFFICES ASSUME TunnelInv, [Tunnel!Next]_tunnel PROVE TunnelInv'
  OBVIOUS
<1>0. /\ daemon \in [Tunnel!Daemons -> DaemonType] /\ request \in [Togglers -> Tunnel!Steps]
      /\ url \in 0..MaxDaemons /\ cmd \in 0..MaxDaemons /\ binary \in Tunnel!Binaries
      /\ state \in {"stopped", "starting", "active", "error"}
      /\ state = "active" => url # 0
      /\ url # 0 => state \in {"active", "error"}
      /\ state = "starting" => \/ \E r \in Togglers : request[r] \in Tunnel!Starting
                               \/ \E d \in Tunnel!Daemons : daemon[d].waiter = "waiting"
      /\ Tunnel!Starting \subseteq Tunnel!Steps
      /\ {"idle", "stop", "start", "ensure", "install", "copy", "launch"} \subseteq Tunnel!Steps
  BY DEF TunnelInv, Tunnel!TypeOK, Tunnel!StatusFits, Tunnel!UrlFollowsState, Tunnel!StartingHasCause,
         Tunnel!Live, DaemonType, Tunnel!Starting, Tunnel!Steps
<1>g. /\ TunnelInv' <=> /\ Tunnel!TypeOK'
                        /\ state' = "active" => url' # 0
                        /\ url' # 0 => state' \in {"active", "error"}
                        /\ state' = "starting" => \/ \E r \in Togglers : request'[r] \in Tunnel!Starting
                                                  \/ \E d \in Tunnel!Daemons : daemon'[d].waiter = "waiting"
      /\ Tunnel!TypeOK' <=> /\ daemon' \in [Tunnel!Daemons -> DaemonType] /\ request' \in [Togglers -> Tunnel!Steps]
                            /\ url' \in 0..MaxDaemons /\ cmd' \in 0..MaxDaemons /\ binary' \in Tunnel!Binaries
                            /\ state' \in {"stopped", "starting", "active", "error"}
  BY DEF TunnelInv, Tunnel!TypeOK, Tunnel!StatusFits, Tunnel!UrlFollowsState, Tunnel!StartingHasCause,
         Tunnel!Live, DaemonType, Tunnel!Daemons
\* A request moves and the daemons stay: the cause of a start stays with it.
<1>1. ASSUME NEW r \in Togglers, NEW s \in Tunnel!Steps, Tunnel!Goto(r, s), daemon' = daemon, cmd' = cmd,
             binary' \in Tunnel!Binaries,
             \/ UNCHANGED <<state, url>> /\ (request[r] \in Tunnel!Starting => s \in Tunnel!Starting)
             \/ state' = "error" /\ url' = url
             \/ state' = "starting" /\ url' = 0 /\ s \in Tunnel!Starting
      PROVE  TunnelInv'
  <2>1. request' = [request EXCEPT ![r] = s]
    BY <1>1 DEF Tunnel!Goto
  <2>2. request' \in [Togglers -> Tunnel!Steps] /\ request'[r] = s /\ \A q \in Togglers \ {r} : request'[q] = request[q]
    BY <1>0, <1>1, <2>1
  <2>3. state' \in {"stopped", "starting", "active", "error"} /\ url' \in 0..MaxDaemons
    BY <1>0, <1>1, TunnelConstants
  <2>4. state' = "starting" => \/ \E q \in Togglers : request'[q] \in Tunnel!Starting
                               \/ \E d \in Tunnel!Daemons : daemon'[d].waiter = "waiting"
    <3>1. CASE UNCHANGED <<state, url>> /\ (request[r] \in Tunnel!Starting => s \in Tunnel!Starting)
      BY <1>0, <1>1, <2>2, <3>1
    <3>2. CASE state' = "error" /\ url' = url
      BY <3>2
    <3>3. CASE state' = "starting" /\ url' = 0 /\ s \in Tunnel!Starting
      BY <2>2, <3>3
    <3> QED
      BY <1>1, <3>1, <3>2, <3>3
  <2> QED
    BY <1>0, <1>1, <1>g, <2>2, <2>3, <2>4
<1>2. ASSUME NEW r \in Togglers, Tunnel!Toggle(r) PROVE TunnelInv'
  BY <1>0, <1>1, <1>2 DEF Tunnel!Toggle, Tunnel!Status, Tunnel!At, Tunnel!Starting
<1>3. ASSUME NEW r \in Togglers, Tunnel!StartRefused(r) PROVE TunnelInv'
  BY <1>0, <1>1, <1>3 DEF Tunnel!StartRefused, Tunnel!Status, Tunnel!At, Tunnel!Rest, Tunnel!Starting
<1>4. ASSUME NEW r \in Togglers, Tunnel!StartBegins(r) PROVE TunnelInv'
  BY <1>0, <1>1, <1>4 DEF Tunnel!StartBegins, Tunnel!Status, Tunnel!At, Tunnel!Starting
<1>5. ASSUME NEW r \in Togglers, Tunnel!StartFails(r) PROVE TunnelInv'
  BY <1>0, <1>1, <1>5 DEF Tunnel!StartFails, Tunnel!Rest
<1>6. ASSUME NEW r \in Togglers, Tunnel!BinaryFound(r) \/ Tunnel!Download(r) PROVE TunnelInv'
  BY <1>0, <1>1, <1>6 DEF Tunnel!BinaryFound, Tunnel!Download, Tunnel!Status, Tunnel!At, Tunnel!Starting
<1>7. ASSUME NEW r \in Togglers, Tunnel!InstallOpens(r) \/ Tunnel!InstallCloses(r) PROVE TunnelInv'
  BY <1>0, <1>1, <1>7 DEF Tunnel!InstallOpens, Tunnel!InstallCloses, Tunnel!Status, Tunnel!At, Tunnel!Starting,
                          Tunnel!Binaries
<1>8. ASSUME NEW r \in Togglers, Tunnel!Stop(r) PROVE TunnelInv'
  <2>1. /\ request' = [request EXCEPT ![r] = "idle"] /\ state' = "stopped" /\ url' = 0 /\ cmd' = 0 /\ binary' = binary
    BY <1>8 DEF Tunnel!Stop, Tunnel!Rest, Tunnel!Goto
  <2>2. daemon' \in [Tunnel!Daemons -> DaemonType]
    <3>1. \A d \in Tunnel!Daemons : daemon[d] \in DaemonType /\ [daemon[d] EXCEPT !.run = "exited"] \in DaemonType
      BY <1>0 DEF DaemonType
    <3>2. daemon' = [d \in Tunnel!Daemons |-> IF d = cmd /\ daemon[d].run = "running"
                                              THEN [daemon[d] EXCEPT !.run = "exited"] ELSE daemon[d]]
      BY <1>8 DEF Tunnel!Stop
    <3> QED
      BY <3>1, <3>2
  <2>3. request' \in [Togglers -> Tunnel!Steps]
    BY <1>0, <2>1
  <2> QED
    BY <1>0, <1>g, <2>1, <2>2, <2>3, TunnelConstants
<1>9. ASSUME NEW r \in Togglers, Tunnel!Launch(r) PROVE TunnelInv'
  <2> DEFINE n == Cardinality(Tunnel!Launched) + 1
             new == [Tunnel!NoDaemon EXCEPT !.run = "running", !.monitor = "reading", !.waiter = "waiting"]
  <2>1. /\ n <= MaxDaemons /\ daemon' = [daemon EXCEPT ![n] = new] /\ cmd' = n
        /\ request' = [request EXCEPT ![r] = "idle"] /\ UNCHANGED <<state, url, binary>>
    BY <1>9 DEF Tunnel!Launch, Tunnel!Rest, Tunnel!Goto, Tunnel!Cardinality, Cardinality
  <2>2. n \in Tunnel!Daemons
    <3>1. Tunnel!Launched \subseteq 1..MaxDaemons
      BY TunnelConstants DEF Tunnel!Launched
    <3>2. IsFiniteSet(Tunnel!Launched)
      <4>1. IsFiniteSet(1..MaxDaemons)
        BY TunnelConstants, FS_Interval
      <4> QED
        BY <3>1, <4>1, FS_Subset
    <3>3. Cardinality(Tunnel!Launched) \in Nat
      BY <3>2, FS_CardinalityType
    <3>4. PICK k \in Nat : k = Cardinality(Tunnel!Launched)
      BY <3>3
    <3>5. n = k + 1 /\ k + 1 <= MaxDaemons
      BY <2>1, <3>4
    <3> HIDE DEF n
    <3> QED
      BY <3>5, TunnelConstants
  <2>3. new \in DaemonType /\ new.waiter = "waiting"
    BY DEF DaemonType, Tunnel!NoDaemon
  <2> HIDE DEF n, new
  <2>4. daemon' \in [Tunnel!Daemons -> DaemonType] /\ daemon'[n].waiter = "waiting"
    BY <1>0, <2>1, <2>2, <2>3
  <2>5. request' \in [Togglers -> Tunnel!Steps]
    BY <1>0, <2>1
  <2> QED
    BY <1>0, <1>g, <2>1, <2>2, <2>4, <2>5, TunnelConstants
\* A daemon or its goroutines move, and the status stays or ends.
<1>10. ASSUME NEW d \in Tunnel!Daemons, NEW e \in DaemonType, daemon' = [daemon EXCEPT ![d] = e],
              UNCHANGED <<cmd, request, binary>>,
              \/ UNCHANGED <<state, url>> /\ (e.waiter = daemon[d].waiter \/ state \notin {"active", "starting"})
              \/ state' = "stopped" /\ url' = 0
              \/ state' = "active" /\ url' = d
       PROVE  TunnelInv'
  <2>1. /\ daemon' \in [Tunnel!Daemons -> DaemonType] /\ daemon'[d] = e
        /\ \A c \in Tunnel!Daemons \ {d} : daemon'[c] = daemon[c]
    BY <1>0, <1>10
  <2>2. state' \in {"stopped", "starting", "active", "error"} /\ url' \in 0..MaxDaemons
    BY <1>0, <1>10, TunnelConstants
  <2>3. state' = "active" => url' # 0
    BY <1>0, <1>10, TunnelConstants
  <2>4. url' # 0 => state' \in {"active", "error"}
    BY <1>0, <1>10
  <2>5. state' = "starting" => \/ \E q \in Togglers : request'[q] \in Tunnel!Starting
                               \/ \E c \in Tunnel!Daemons : daemon'[c].waiter = "waiting"
    <3> SUFFICES ASSUME state' = "starting", ~\E q \in Togglers : request[q] \in Tunnel!Starting
                 PROVE  \E c \in Tunnel!Daemons : daemon'[c].waiter = "waiting"
      BY <1>10
    <3>1. state = "starting" /\ e.waiter = daemon[d].waiter
      BY <1>10
    <3>2. PICK c \in Tunnel!Daemons : daemon[c].waiter = "waiting"
      BY <1>0, <3>1
    <3> QED
      BY <2>1, <3>1, <3>2
  <2> QED
    BY <1>0, <1>10, <1>g, <2>1, <2>2, <2>3, <2>4, <2>5
<1>11. ASSUME NEW d \in Tunnel!Daemons, Tunnel!MonitorReads(d) \/ Tunnel!MonitorEnds(d) PROVE TunnelInv'
  <2>1. \E m \in {"reading", "found", "done"}, l \in {"none", "stdout", "stderr", "read"} :
          daemon' = [daemon EXCEPT ![d] = [daemon[d] EXCEPT !.line = l, !.monitor = m]]
    <3>0. daemon[d] \in DaemonType
      BY <1>0
    <3>1. CASE Tunnel!MonitorReads(d)
      BY <1>0, <3>0, <3>1 DEF Tunnel!MonitorReads, DaemonType
    <3>2. CASE Tunnel!MonitorEnds(d)
      <4>1. daemon' = [daemon EXCEPT ![d].monitor = "done"]
        BY <3>2 DEF Tunnel!MonitorEnds
      <4>2. [daemon[d] EXCEPT !.monitor = "done"] = [daemon[d] EXCEPT !.line = daemon[d].line, !.monitor = "done"]
        BY <3>0 DEF DaemonType
      <4> QED
        BY <1>0, <3>0, <4>1, <4>2 DEF DaemonType
    <3> QED
      BY <1>11, <3>1, <3>2
  <2>2. PICK e \in DaemonType : daemon' = [daemon EXCEPT ![d] = e] /\ e.waiter = daemon[d].waiter
    <3>1. PICK m \in {"reading", "found", "done"}, l \in {"none", "stdout", "stderr", "read"} :
            daemon' = [daemon EXCEPT ![d] = [daemon[d] EXCEPT !.line = l, !.monitor = m]]
      BY <2>1
    <3>2. daemon[d] \in DaemonType
      BY <1>0
    <3>3. [daemon[d] EXCEPT !.line = l, !.monitor = m] \in DaemonType
      BY <3>2 DEF DaemonType
    <3>4. [daemon[d] EXCEPT !.line = l, !.monitor = m].waiter = daemon[d].waiter
      BY <3>2 DEF DaemonType
    <3> QED
      BY <3>1, <3>3, <3>4
  <2>3. UNCHANGED <<state, url, cmd, request, binary>>
    BY <1>11 DEF Tunnel!MonitorReads, Tunnel!MonitorEnds, Tunnel!Status
  <2> QED
    BY <1>10, <2>2, <2>3
<1>12. ASSUME NEW d \in Tunnel!Daemons, Tunnel!MonitorShows(d) PROVE TunnelInv'
  <2>1. daemon[d] \in DaemonType
    BY <1>0
  <2>2. PICK e \in DaemonType : daemon' = [daemon EXCEPT ![d] = e]
    BY <1>12, <2>1 DEF Tunnel!MonitorShows, DaemonType
  <2>3. state' = "active" /\ url' = d /\ UNCHANGED <<cmd, request, binary>>
    BY <1>12 DEF Tunnel!MonitorShows
  <2> QED
    BY <1>10, <2>2, <2>3
<1>13. ASSUME NEW d \in Tunnel!Daemons, Tunnel!WaiterEnds(d) PROVE TunnelInv'
  <2>1. daemon[d] \in DaemonType
    BY <1>0
  <2>2. PICK e \in DaemonType : daemon' = [daemon EXCEPT ![d] = e]
    BY <1>13, <2>1 DEF Tunnel!WaiterEnds, DaemonType
  <2>3. /\ UNCHANGED <<cmd, request, binary>>
        /\ \/ UNCHANGED <<state, url>> /\ state \notin {"active", "starting"}
           \/ state' = "stopped" /\ url' = 0
    BY <1>13 DEF Tunnel!WaiterEnds
  <2> QED
    BY <1>10, <2>2, <2>3
<1>14. ASSUME NEW d \in Tunnel!Daemons, NEW stream \in {"stdout", "stderr"},
              Tunnel!Exit(d) \/ Tunnel!PrintsAddress(d, stream)
       PROVE  TunnelInv'
  <2>1. daemon[d] \in DaemonType
    BY <1>0
  <2>2. PICK e \in DaemonType : daemon' = [daemon EXCEPT ![d] = e] /\ e.waiter = daemon[d].waiter
    BY <1>14, <2>1 DEF Tunnel!Exit, Tunnel!PrintsAddress, DaemonType
  <2>3. UNCHANGED <<state, url, cmd, request, binary>>
    BY <1>14 DEF Tunnel!Exit, Tunnel!PrintsAddress, Tunnel!Status
  <2> QED
    BY <1>10, <2>2, <2>3
<1>15. CASE UNCHANGED tunnel
  BY <1>0, <1>15, <1>g DEF tunnel
<1> QED
  BY <1>2, <1>3, <1>4, <1>5, <1>6, <1>7, <1>8, <1>9, <1>11, <1>12, <1>13, <1>14, <1>15
     DEF Tunnel!Next, Tunnel!Request, Tunnel!Daemon

----------------------------------------------------------------------------
(* The process.                                                            *)

\* What a thread may have left to do.
Done      == <<>>
Exits     == <<"exit">>
Closes    == <<"store", "exit">>
Schedules == <<"scheduler", "store", "exit">>
Queues    == <<"queue", "store", "exit">>
Drains    == <<"drain">> \o Daemon!Deferred

OfWatcher == {Done, Exits, Closes, Schedules, Daemon!OnSignal}
OfMain    == {Done, Exits, Closes, Queues, Daemon!Deferred, Drains}
Calls     == OfWatcher \cup OfMain

ProcessType ==
    /\ env \in Daemon!UIModes \cup {"", "no file"}
    /\ mode \in Daemon!UIModes \cup {""}
    /\ main \in {"off", "boot", "prompt", "serve", "ending"}
    /\ queue \in {0, 1} /\ scheduler \in {0, 1}
    /\ signalled \in BOOLEAN /\ store \in BOOLEAN /\ served \in BOOLEAN /\ late \in BOOLEAN
    /\ todo \in [Daemon!Threads -> Calls] /\ todo["main"] \in OfMain /\ todo["watcher"] \in OfWatcher

\* Who is about to close the store has stopped the queue and the scheduler, whatever
\* the other thread has done.
Ordered ==
    main # "off" =>
      /\ todo["watcher"] = Schedules => queue = 1
      /\ todo["main"] = Queues => scheduler = 1
      /\ \A th \in Daemon!Threads : todo[th] \in {Exits, Closes} => queue = 1 /\ scheduler = 1

\* With the web interface main is alone, and drains before anything else.
Draining ==
    /\ main = "boot" => todo["watcher"] = Done
    /\ main \in {"boot", "serve"} => todo["main"] = Done
    /\ main \notin {"off", "boot"} /\ mode # "terminal" =>
         /\ main # "prompt" /\ todo["watcher"] = Done
         /\ main = "serve" \/ todo["main"] = Drains => store
         /\ main = "ending" /\ todo["main"] # Drains => ~served \/ late

ProcessInv == ProcessType /\ Ordered /\ Draining /\ Daemon!StoreLast

LEMMA CallsTyped ==
  /\ Calls \subseteq Seq(Daemon!Steps)
  /\ Drains = <<"drain", "scheduler", "queue", "store", "exit">>
<1> DEFINE d == Daemon!Deferred
           s == <<"drain">>
           t == <<"drain", "scheduler", "queue", "store", "exit">>
<1>1. {"drain", "queue", "scheduler", "store", "exit"} \subseteq Daemon!Steps
  BY DEF Daemon!Steps
<1>2. Done \in Seq(Daemon!Steps) /\ Exits \in Seq(Daemon!Steps) /\ Closes \in Seq(Daemon!Steps)
  BY <1>1 DEF Done, Exits, Closes
<1>3. Schedules \in Seq(Daemon!Steps) /\ Queues \in Seq(Daemon!Steps)
  BY <1>1 DEF Schedules, Queues
<1>4. Daemon!OnSignal \in Seq(Daemon!Steps) /\ d \in Seq(Daemon!Steps)
  BY <1>1 DEF Daemon!OnSignal, Daemon!Deferred
<1>5. Len(d) = 4 /\ d[1] = "scheduler" /\ d[2] = "queue" /\ d[3] = "store" /\ d[4] = "exit"
  BY DEF Daemon!Deferred
<1>6. s \in Seq(Daemon!Steps) /\ Len(s) = 1 /\ s[1] = "drain"
  BY <1>1
<1>7. /\ t \in Seq(Daemon!Steps) /\ Len(t) = 5
      /\ t[1] = "drain" /\ t[2] = "scheduler" /\ t[3] = "queue" /\ t[4] = "store" /\ t[5] = "exit"
  BY <1>1
<1>8. Drains = s \o d
  BY DEF Drains
<1> HIDE DEF d, s, t
<1>9. /\ Drains \in Seq(Daemon!Steps) /\ Len(Drains) = 5
      /\ \A i \in 1..5 : Drains[i] = IF i <= 1 THEN s[i] ELSE d[i - 1]
  <2>1. /\ s \o d \in Seq(Daemon!Steps) /\ Len(s \o d) = Len(s) + Len(d)
        /\ \A i \in 1..Len(s) + Len(d) : (s \o d)[i] = IF i <= Len(s) THEN s[i] ELSE d[i - Len(s)]
    BY <1>4, <1>6, ConcatProperties
  <2> QED
    BY <1>5, <1>6, <1>8, <2>1
<1>10. \A i \in 1..5 : i = 1 \/ i = 2 \/ i = 3 \/ i = 4 \/ i = 5
  OBVIOUS
<1>11. \A i \in 1..5 : Drains[i] = t[i]
  <2>1. /\ Drains[1] = "drain" /\ Drains[2] = "scheduler" /\ Drains[3] = "queue"
        /\ Drains[4] = "store" /\ Drains[5] = "exit"
    BY <1>5, <1>6, <1>9
  <2> QED
    BY <1>7, <1>10, <2>1
<1>12. Drains = t
  BY <1>7, <1>9, <1>11, SeqEqual
<1> QED
  BY <1>2, <1>3, <1>4, <1>9, <1>12 DEF Calls, OfWatcher, OfMain, d, t

LEMMA CallsMade ==
  /\ Head(Exits) = "exit" /\ Tail(Exits) = Done
  /\ Head(Closes) = "store" /\ Tail(Closes) = Exits
  /\ Head(Schedules) = "scheduler" /\ Tail(Schedules) = Closes
  /\ Head(Queues) = "queue" /\ Tail(Queues) = Closes
  /\ Head(Daemon!OnSignal) = "queue" /\ Tail(Daemon!OnSignal) = Schedules
  /\ Head(Daemon!Deferred) = "scheduler" /\ Tail(Daemon!Deferred) = Queues
  /\ Head(Drains) = "drain" /\ Tail(Drains) = Daemon!Deferred
BY CallsTyped DEF Done, Exits, Closes, Schedules, Queues, Daemon!OnSignal, Daemon!Deferred

LEMMA CallsDiffer ==
  /\ Done \notin {Exits, Closes, Schedules, Queues, Daemon!OnSignal, Daemon!Deferred, Drains}
  /\ Daemon!OnSignal \notin {Exits, Closes, Schedules}
  /\ Daemon!Deferred \notin {Exits, Closes, Queues, Drains}
  /\ Drains \notin {Exits, Closes, Queues}
  /\ Schedules \notin {Exits, Closes} /\ Queues \notin {Exits, Closes, Drains}
  /\ Exits # Closes /\ Exits # Drains /\ Closes # Drains
<1>1. /\ Len(Done) = 0 /\ Len(Exits) = 1 /\ Len(Closes) = 2 /\ Len(Schedules) = 3 /\ Len(Queues) = 3
      /\ Len(Daemon!OnSignal) = 4 /\ Len(Daemon!Deferred) = 4 /\ Len(Drains) = 5
  BY CallsTyped DEF Done, Exits, Closes, Schedules, Queues, Daemon!OnSignal, Daemon!Deferred
<1> DEFINE Has(c, n) == Len(c) = n
<1>2. \A c, d, m, n : Has(c, m) /\ Has(d, n) /\ m # n => c # d
  OBVIOUS
<1>3. /\ Has(Done, 0) /\ Has(Exits, 1) /\ Has(Closes, 2) /\ Has(Schedules, 3) /\ Has(Queues, 3)
      /\ Has(Daemon!OnSignal, 4) /\ Has(Daemon!Deferred, 4) /\ Has(Drains, 5)
  BY <1>1
<1> HIDE DEF Has
<1>4. Done \notin {Exits, Closes, Schedules, Queues, Daemon!OnSignal, Daemon!Deferred, Drains}
  BY <1>2, <1>3
<1>5. Daemon!OnSignal \notin {Exits, Closes, Schedules}
  BY <1>2, <1>3
<1>6. Daemon!Deferred \notin {Exits, Closes, Queues, Drains}
  BY <1>2, <1>3
<1>7. Drains \notin {Exits, Closes, Queues}
  BY <1>2, <1>3
<1>8. Schedules \notin {Exits, Closes} /\ Queues \notin {Exits, Closes, Drains}
  BY <1>2, <1>3
<1>9. Exits # Closes /\ Exits # Drains /\ Closes # Drains
  BY <1>2, <1>3
<1> QED
  BY <1>4, <1>5, <1>6, <1>7, <1>8, <1>9

LEMMA ProcessPromises == ProcessInv => Daemon!TypeOK /\ Daemon!CleanEnd
<1> SUFFICES ASSUME ProcessInv PROVE Daemon!TypeOK /\ Daemon!CleanEnd
  OBVIOUS
<1>1. Daemon!TypeOK
  <2>1. queue \in 0..2 /\ scheduler \in 0..2
    <3>1. queue \in {0, 1} /\ scheduler \in {0, 1}
      BY DEF ProcessInv, ProcessType
    <3> QED
      BY <3>1
  <2>2. {signalled, store, served, late} \subseteq BOOLEAN
    BY Zenon DEF ProcessInv, ProcessType
  <2>3. todo \in [Daemon!Threads -> Seq(Daemon!Steps)]
    BY CallsTyped DEF ProcessInv, ProcessType
  <2> QED
    BY <2>1, <2>2, <2>3 DEF ProcessInv, ProcessType, Daemon!TypeOK
<1>2. Daemon!NoPanic
  <2>1. queue \in {0, 1} /\ scheduler \in {0, 1}
    BY DEF ProcessInv, ProcessType
  <2> QED
    BY <2>1 DEF Daemon!NoPanic
<1>3. Daemon!RequestsFirst
  BY DEF ProcessInv, Draining, Daemon!RequestsFirst
<1> QED
  BY <1>1, <1>2, <1>3 DEF ProcessInv, Daemon!CleanEnd

LEMMA ProcessInit == Daemon!Init => ProcessInv
<1> SUFFICES ASSUME Daemon!Init PROVE ProcessInv
  OBVIOUS
<1>1. todo = [th \in Daemon!Threads |-> Done]
  BY DEF Daemon!Init, Daemon!Idle, Done
<1> QED
  BY <1>1, CallsDiffer DEF Daemon!Init, Daemon!Threads, ProcessInv, ProcessType, Ordered, Draining, Daemon!StoreLast,
                           Daemon!UIModes, Calls, OfMain, OfWatcher

LEMMA ProcessStep == ProcessInv /\ [Daemon!Next]_process => ProcessInv'
<1> SUFFICES ASSUME ProcessInv, [Daemon!Next]_process PROVE ProcessInv'
  OBVIOUS
<1> USE DEF ProcessInv
\* Nothing but the file, the signal's mark or a request changes.
<1>1. ASSUME Daemon!ModeCli \/ Daemon!InstallEnv PROVE ProcessInv'
  <2>1. env' \in Daemon!UIModes \cup {"", "no file"}
    BY <1>1 DEF Daemon!ModeCli, Daemon!InstallEnv, Daemon!Persist, ProcessType
  <2>2. UNCHANGED <<mode, main, todo, signalled, store, queue, scheduler, served, late>>
    BY <1>1 DEF Daemon!ModeCli, Daemon!InstallEnv
  <2> QED
    BY <2>1, <2>2 DEF ProcessType, Ordered, Draining, Daemon!StoreLast
<1>2. ASSUME Daemon!Start PROVE ProcessInv'
  <2>1. todo' = [th \in Daemon!Threads |-> Done]
    BY <1>2 DEF Daemon!Start, Daemon!Idle, Done
  <2> QED
    BY <1>2, <2>1, CallsDiffer DEF Daemon!Start, Daemon!Threads, ProcessType, Ordered, Draining, Daemon!StoreLast,
                                   Calls, OfMain, OfWatcher
<1>3. ASSUME Daemon!LaunchForced \/ Daemon!LaunchSaved \/ Daemon!LaunchWizard \/ Daemon!LaunchDetached
      PROVE  ProcessInv'
  <2>1. PICK m \in Daemon!UIModes : Daemon!Launch(m) /\ main = "boot"
    BY <1>3 DEF Daemon!LaunchForced, Daemon!LaunchSaved, Daemon!LaunchWizard, Daemon!LaunchDetached, Daemon!UIModes
  <2>2. env' \in Daemon!UIModes \cup {"", "no file"}
    BY <1>3 DEF Daemon!LaunchForced, Daemon!LaunchSaved, Daemon!LaunchWizard, Daemon!LaunchDetached,
                Daemon!Persist, ProcessType
  <2> QED
    BY <2>1, <2>2 DEF Daemon!Launch, ProcessType, Ordered, Draining, Daemon!StoreLast
<1>4. ASSUME Daemon!Signal PROVE ProcessInv'
  <2>1. /\ main # "off" /\ signalled' = TRUE
        /\ UNCHANGED <<env, mode, store, queue, scheduler, served, late>>
    BY <1>4 DEF Daemon!Signal
  <2>2. CASE main = "boot"
    <3>1. main' = "off" /\ todo' = todo
      BY <1>4, <2>2 DEF Daemon!Signal
    <3> QED
      BY <2>1, <3>1 DEF ProcessType, Ordered, Draining, Daemon!StoreLast
  <2>3. CASE main = "serve"
    <3>1. main' = "ending" /\ todo' = [todo EXCEPT !["main"] = Drains]
      BY <1>4, <2>3 DEF Daemon!Signal, Drains
    <3>2. todo'["main"] = Drains /\ todo'["watcher"] = todo["watcher"] /\ todo' \in [Daemon!Threads -> Calls]
      BY <3>1 DEF ProcessType, Daemon!Threads, Calls, OfMain
    <3> QED
      BY <2>1, <2>3, <3>1, <3>2, CallsDiffer
         DEF ProcessType, Ordered, Draining, Daemon!StoreLast, OfMain, Daemon!Threads
  <2>4. CASE main \notin {"boot", "serve"}
    <3>1. /\ main' = main
          /\ todo' = IF mode = "terminal" THEN [todo EXCEPT !["watcher"] = Daemon!OnSignal] ELSE todo
      BY <1>4, <2>4 DEF Daemon!Signal
    <3>2. CASE mode # "terminal"
      BY <2>1, <3>1, <3>2 DEF ProcessType, Ordered, Draining, Daemon!StoreLast
    <3>3. CASE mode = "terminal"
      <4>1. /\ todo'["watcher"] = Daemon!OnSignal /\ todo'["main"] = todo["main"]
            /\ todo' \in [Daemon!Threads -> Calls]
        BY <3>1, <3>3 DEF ProcessType, Daemon!Threads, Calls, OfWatcher
      <4> QED
        BY <2>1, <2>4, <3>1, <3>3, <4>1, CallsDiffer
           DEF ProcessType, Ordered, Draining, Daemon!StoreLast, OfWatcher, Daemon!Threads
    <3> QED
      BY <3>2, <3>3
  <2> QED
    BY <2>2, <2>3, <2>4
<1>5. ASSUME Daemon!Quit PROVE ProcessInv'
  <2>1. /\ main = "prompt" /\ main' = "ending" /\ todo' = [todo EXCEPT !["main"] = Daemon!Deferred]
        /\ UNCHANGED <<env, mode, signalled, store, queue, scheduler, served, late>>
    BY <1>5 DEF Daemon!Quit
  <2>2. /\ todo'["main"] = Daemon!Deferred /\ todo'["watcher"] = todo["watcher"]
        /\ todo' \in [Daemon!Threads -> Calls]
    BY <2>1 DEF ProcessType, Daemon!Threads, Calls, OfMain
  <2> QED
    BY <2>1, <2>2, CallsDiffer DEF ProcessType, Ordered, Draining, Daemon!StoreLast, OfMain, Daemon!Threads
<1>6. ASSUME Daemon!ListenFails PROVE ProcessInv'
  BY <1>6 DEF Daemon!ListenFails, ProcessType, Ordered, Draining, Daemon!StoreLast
<1>7. ASSUME Daemon!RequestComes \/ Daemon!RequestEnds \/ Daemon!Deadline PROVE ProcessInv'
  <2>1. /\ served' \in BOOLEAN /\ late' \in BOOLEAN
        /\ main = "serve" \/ (served' => served)
        /\ late => late'
        /\ UNCHANGED <<env, mode, main, todo, signalled, store, queue, scheduler>>
    <3>1. CASE Daemon!RequestComes
      BY <3>1, Zenon DEF Daemon!RequestComes, ProcessType
    <3>2. CASE Daemon!RequestEnds
      BY <3>2, Zenon DEF Daemon!RequestEnds, ProcessType
    <3>3. CASE Daemon!Deadline
      BY <3>3, Zenon DEF Daemon!Deadline, ProcessType
    <3> QED
      BY <1>7, <3>1, <3>2, <3>3
  <2> QED
    BY <2>1 DEF ProcessType, Ordered, Draining, Daemon!StoreLast
\* A call takes its thread on to what is left.
<1>8. ASSUME NEW th \in Daemon!Threads, Daemon!Step(th) PROVE ProcessInv'
  <2>1. /\ main # "off" /\ todo[th] # Done
        /\ Head(todo[th]) = "drain" => ~served \/ late
        /\ queue' = IF Head(todo[th]) = "queue" THEN 1 ELSE queue
        /\ scheduler' = IF Head(todo[th]) = "scheduler" THEN 1 ELSE scheduler
        /\ store' = IF Head(todo[th]) = "store" THEN FALSE ELSE store
        /\ main' = IF Head(todo[th]) = "exit" THEN "off" ELSE main
        /\ todo' = [todo EXCEPT ![th] = Tail(todo[th])]
        /\ UNCHANGED <<env, mode, signalled, served, late>>
    <3>1. /\ main # "off" /\ todo[th] # Done
          /\ Head(todo[th]) = "drain" => Daemon!Drained
          /\ queue' = IF Head(todo[th]) = "queue" THEN Daemon!Stopped(queue) ELSE queue
          /\ scheduler' = IF Head(todo[th]) = "scheduler" THEN Daemon!Stopped(scheduler) ELSE scheduler
          /\ store' = IF Head(todo[th]) = "store" THEN FALSE ELSE store
          /\ main' = IF Head(todo[th]) = "exit" \/ queue' > 1 \/ scheduler' > 1 THEN "off" ELSE main
          /\ todo' = [todo EXCEPT ![th] = Tail(@)]
          /\ UNCHANGED <<env, mode, signalled, served, late>>
      BY <1>8 DEF Daemon!Step, Done
    <3>2. Daemon!Stopped(queue) = 1 /\ Daemon!Stopped(scheduler) = 1
      BY DEF Daemon!Stopped, ProcessType
    <3>3. queue' \in {0, 1} /\ scheduler' \in {0, 1}
      BY <3>1, <3>2 DEF ProcessType
    <3>4. ~(queue' > 1) /\ ~(scheduler' > 1)
      BY <3>3
    <3> QED
      BY <3>1, <3>2, <3>4 DEF Daemon!Drained
  <2>2. todo'[th] = Tail(todo[th]) /\ \A o \in Daemon!Threads \ {th} : todo'[o] = todo[o]
    BY <2>1 DEF ProcessType
  <2>3. CASE th = "watcher"
    <3>1. todo[th] \in OfWatcher \ {Done}
      BY <2>1, <2>3 DEF ProcessType
    <3>2. todo'["watcher"] \in OfWatcher /\ todo'["main"] = todo["main"] /\ todo' \in [Daemon!Threads -> Calls]
      BY <2>1, <2>2, <2>3, <3>1, CallsMade DEF ProcessType, OfWatcher, Calls, Daemon!Threads
    <3>3. ProcessType'
      BY <2>1, <3>2 DEF ProcessType
    <3>4. main \in {"off", "boot"} \/ mode = "terminal"
      BY <2>1, <2>3 DEF Draining
    <3>5. Ordered'
      BY <2>1, <2>2, <2>3, <3>1, <3>2, CallsMade, CallsDiffer DEF Ordered, OfWatcher, Daemon!Threads, ProcessType
    <3>6. Draining'
      <4>1. main # "boot"
        BY <2>1, <2>3 DEF Draining
      <4>2. main' = main \/ main' = "off"
        BY <2>1
      <4> QED
        BY <2>1, <3>2, <3>4, <4>1, <4>2 DEF Draining
    <3>7. Daemon!StoreLast'
      BY <2>1, <2>2, <2>3, <3>1, <3>2, CallsMade, CallsDiffer DEF Ordered, Daemon!StoreLast, OfWatcher, Daemon!Threads, ProcessType
    <3> QED
      BY <3>3, <3>5, <3>6, <3>7
  <2>4. CASE th = "main"
    <3>1. todo[th] \in OfMain \ {Done}
      BY <2>1, <2>4 DEF ProcessType
    <3>2. todo'["main"] \in OfMain /\ todo'["watcher"] = todo["watcher"] /\ todo' \in [Daemon!Threads -> Calls]
      BY <2>1, <2>2, <2>4, <3>1, CallsMade DEF ProcessType, OfMain, Calls, Daemon!Threads
    <3>3. ProcessType'
      BY <2>1, <3>2 DEF ProcessType
    <3>5. Ordered'
      BY <2>1, <2>2, <2>4, <3>1, <3>2, CallsMade, CallsDiffer DEF Ordered, OfMain, Daemon!Threads, ProcessType
    <3>6. Draining'
      <4> SUFFICES ASSUME main' \notin {"off", "boot"}, mode # "terminal"
                   PROVE  /\ main' # "prompt" /\ todo'["watcher"] = Done
                          /\ main' = "serve" \/ todo'["main"] = Drains => store'
                          /\ main' = "ending" /\ todo'["main"] # Drains => ~served' \/ late'
        <5>1. main \notin {"boot", "serve"}
          BY <2>1, <2>4 DEF Draining
        <5> QED
          BY <2>1, <5>1 DEF Draining
      <4>1. main' = main /\ todo'["main"] = Tail(todo["main"])
        BY <2>1, <2>2, <2>4
      <4>2. /\ main # "prompt" /\ todo["watcher"] = Done
            /\ main = "serve" \/ todo["main"] = Drains => store
            /\ main = "ending" /\ todo["main"] # Drains => ~served \/ late
        BY <4>1 DEF Draining
      <4>3. todo'["main"] # Drains
        BY <2>4, <3>1, <4>1, CallsMade, CallsDiffer DEF OfMain
      <4>4. ~served \/ late \/ main # "ending"
        BY <2>1, <2>4, <4>2, CallsMade, Zenon
      <4>5. main # "serve"
        BY <2>1, <2>4 DEF Draining
      <4> QED
        BY <2>1, <3>2, <4>1, <4>2, <4>3, <4>4, <4>5, Zenon
    <3>7. Daemon!StoreLast'
      BY <2>1, <2>2, <2>4, <3>1, <3>2, CallsMade, CallsDiffer DEF Ordered, Daemon!StoreLast, OfMain, Daemon!Threads, ProcessType
    <3> QED
      BY <3>3, <3>5, <3>6, <3>7
  <2> QED
    BY <2>3, <2>4 DEF Daemon!Threads
<1>9. CASE UNCHANGED process
  <2>1. UNCHANGED <<env, mode, main, todo, signalled, store, queue, scheduler, served, late>>
    BY <1>9 DEF process
  <2> QED
    <3>1. ProcessType'
      BY <2>1 DEF ProcessType
    <3>2. Ordered' /\ Draining'
      BY <2>1 DEF Ordered, Draining
    <3>3. Daemon!StoreLast'
      BY <2>1 DEF Daemon!StoreLast
    <3> QED
      BY <3>1, <3>2, <3>3
<1> QED
  BY <1>1, <1>2, <1>3, <1>4, <1>5, <1>6, <1>7, <1>8, <1>9 DEF Daemon!Next

----------------------------------------------------------------------------
(* The hub.                                                                *)

Event   == [kind : Kinds, n : Hub!Numbers]
Socket  == [at : Hub!Phases, writable : BOOLEAN, open : BOOLEAN]
Told(s) == socket[s].writable /\ socket[s].open

HubType ==
    /\ channel \in Seq(Event) /\ Len(channel) <= Capacity
    /\ lastEvents \in [Kinds -> Hub!Numbers]
    /\ members \subseteq Sockets
    /\ socket \in [Sockets -> Socket]
    /\ reports \in [Sockets -> Nat]
    /\ seen \in [Sockets -> [Kinds -> Hub!Numbers]]
    /\ last \in [Kinds -> Hub!Numbers]

\* Every delivery, and the ping when no report is under way, adds one report at most:
\* with n events broadcast there are n less those that wait, and one, at most.
Reported ==
    \E n \in Hub!Numbers :
      /\ \A k \in Kinds : last[k] <= n
      /\ Kinds # {} => \E k \in Kinds : last[k] = n
      /\ Len(channel) <= n /\ \A s \in Sockets : reports[s] + Len(channel) <= n + 1

\* The last event of a kind is the last of that kind in the channel or, without one
\* there, in the cache.
LastIsKept ==
    \A k \in Kinds :
      /\ k \in Hub!Cached /\ (\A i \in DOMAIN channel : channel[i].kind # k) => lastEvents[k] = last[k]
      /\ \A i \in DOMAIN channel :
           channel[i].kind = k /\ (\A j \in DOMAIN channel : j > i => channel[j].kind # k) => channel[i].n = last[k]

\* What is in the cache has been told to every live member; who has not been
\* registered has been told nothing.
CacheIsTold ==
    /\ \A s \in members : socket[s].at \notin {"new", "registering"}
    /\ \A s \in Sockets : socket[s].at \in {"new", "registering"} => \A k \in Kinds : seen[s][k] = 0
    /\ \A s \in members, k \in Hub!Cached : Told(s) => seen[s][k] = lastEvents[k]

HubInv == HubType /\ Reported /\ LastIsKept /\ CacheIsTold

LEMMA HubConstants ==
  /\ Capacity \in Nat /\ MaxEvents \in Nat /\ Hub!Numbers = 0..MaxEvents
  /\ Hub!Cached \subseteq Kinds
  /\ Hub!None \in [Kinds -> Hub!Numbers] /\ \A k \in Kinds : Hub!None[k] = 0
BY ServicesAssumption DEF Hub!Numbers, Hub!Cached, Hub!None

LEMMA HubPromises == HubInv => Hub!TypeOK /\ Hub!LastArrives
<1> SUFFICES ASSUME HubInv PROVE Hub!TypeOK /\ Hub!LastArrives
  OBVIOUS
<1>1. reports \in [Sockets -> 0..MaxEvents + 1]
  <2>1. PICK n \in Hub!Numbers : \A s \in Sockets : reports[s] + Len(channel) <= n + 1
    BY DEF HubInv, Reported
  <2>2. n \in Nat /\ n <= MaxEvents /\ Len(channel) \in Nat /\ reports \in [Sockets -> Nat]
    BY HubConstants DEF HubInv, HubType
  <2>3. \A s \in Sockets : reports[s] \in 0..MaxEvents + 1
    BY <2>1, <2>2, HubConstants
  <2> QED
    BY <2>2, <2>3
<1>2. Hub!TypeOK
  BY <1>1 DEF HubInv, HubType, Hub!TypeOK, Event, Socket
<1>3. ASSUME channel = <<>>, NEW s \in members, NEW k \in Hub!Cached, Hub!Gets(s) PROVE seen[s][k] = last[k]
  <2>1. DOMAIN channel = {}
    BY <1>3
  <2>2. lastEvents[k] = last[k]
    BY <2>1, HubConstants DEF HubInv, LastIsKept
  <2>3. seen[s][k] = lastEvents[k]
    BY <1>3 DEF HubInv, CacheIsTold, Told, Hub!Gets
  <2> QED
    BY <2>2, <2>3
<1> QED
  BY <1>2, <1>3 DEF Hub!LastArrives

LEMMA HubInit == Hub!Init => HubInv
<1> SUFFICES ASSUME Hub!Init PROVE HubInv
  OBVIOUS
<1> DEFINE new == [at |-> "new", writable |-> TRUE, open |-> TRUE]
<1>1. /\ channel = <<>> /\ lastEvents = Hub!None /\ members = {} /\ last = Hub!None
      /\ reports = [s \in Sockets |-> 0] /\ socket = [s \in Sockets |-> new] /\ seen = [s \in Sockets |-> Hub!None]
  BY DEF Hub!Init
<1>2. new \in Socket /\ new.at = "new"
  BY DEF Socket, Hub!Phases
<1> HIDE DEF new
<1>3. <<>> \in Seq(Event) /\ Len(<<>>) = 0 /\ DOMAIN <<>> = {}
  OBVIOUS
<1>4. HubType
  BY <1>1, <1>2, <1>3, HubConstants DEF HubType
<1>5. Reported
  <2>1. 0 \in Hub!Numbers /\ Len(channel) <= 0 /\ \A s \in Sockets : reports[s] + Len(channel) <= 0 + 1
    BY <1>1, <1>3, HubConstants
  <2>2. \A k \in Kinds : last[k] = 0
    BY <1>1, HubConstants
  <2> QED
    BY <2>1, <2>2 DEF Reported
<1>6. LastIsKept
  BY <1>1, <1>3, HubConstants DEF LastIsKept
<1>7. CacheIsTold
  BY <1>1, <1>2, HubConstants DEF CacheIsTold
<1> QED
  BY <1>4, <1>5, <1>6, <1>7 DEF HubInv

LEMMA NewestEvent ==
  ASSUME HubInv, Kinds # {}
  PROVE  \E n \in Hub!Numbers :
           /\ Hub!Newest = n /\ \A k \in Kinds : last[k] <= n
           /\ Len(channel) <= n /\ \A s \in Sockets : reports[s] + Len(channel) <= n + 1
<1>1. PICK n \in Hub!Numbers :
        /\ \A k \in Kinds : last[k] <= n
        /\ \E k \in Kinds : last[k] = n
        /\ Len(channel) <= n /\ \A s \in Sockets : reports[s] + Len(channel) <= n + 1
  BY DEF HubInv, Reported
<1>2. \A k \in Kinds : last[k] \in Nat
  BY HubConstants DEF HubInv, HubType
<1> DEFINE P(m) == m \in {last[k] : k \in Kinds} /\ \A k \in Kinds : last[k] <= m
<1>3. P(n)
  BY <1>1
<1>4. \A m \in Hub!Numbers : P(m) => m = n
  <2> SUFFICES ASSUME NEW m \in Hub!Numbers, P(m) PROVE m = n
    OBVIOUS
  <2>1. m \in Nat /\ n \in Nat
    BY HubConstants
  <2>2. n <= m /\ m <= n
    BY <1>1
  <2> QED
    BY <2>1, <2>2
<1>5. Hub!Newest = CHOOSE m \in Hub!Numbers : P(m)
  BY DEF Hub!Newest
<1> HIDE DEF P
<1>6. Hub!Newest = n
  BY <1>3, <1>4, <1>5
<1> QED
  BY <1>1, <1>6

LEMMA HubBroadcasts == ASSUME HubInv, NEW k \in Kinds, Hub!Broadcast(k) PROVE HubInv'
<1>1. PICK n \in Hub!Numbers :
           /\ Hub!Newest = n /\ \A c \in Kinds : last[c] <= n
           /\ Len(channel) <= n /\ \A s \in Sockets : reports[s] + Len(channel) <= n + 1
  BY NewestEvent
<1>2. PICK e \in Event : /\ e.kind = k /\ e.n = n + 1 /\ n < MaxEvents /\ Len(channel) < Capacity
                         /\ channel' = Append(channel, e) /\ last' = [last EXCEPT ![k] = n + 1]
                         /\ UNCHANGED <<lastEvents, members, socket, reports, seen>>
  <2> DEFINE e == [kind |-> k, n |-> n + 1]
  <2>1. n < MaxEvents /\ Len(channel) < Capacity /\ channel' = Append(channel, e) /\ last' = [last EXCEPT ![k] = n + 1]
        /\ UNCHANGED <<lastEvents, members, socket, reports, seen>>
    BY <1>1 DEF Hub!Broadcast
  <2>2. n + 1 \in Hub!Numbers
    BY <2>1, HubConstants
  <2>3. e \in Event /\ e.kind = k /\ e.n = n + 1
    BY <2>2 DEF Event
  <2> HIDE DEF e
  <2> QED
    BY <2>1, <2>3
<1>3. /\ channel \in Seq(Event) /\ last \in [Kinds -> Hub!Numbers] /\ n \in Nat /\ n + 1 \in Hub!Numbers
  BY <1>2, HubConstants DEF HubInv, HubType
<1>4. PICK l \in Nat : l = Len(channel)
  BY <1>3
<1>5. /\ channel' \in Seq(Event) /\ Len(channel') = l + 1
      /\ DOMAIN channel = 1..l /\ DOMAIN channel' = 1..l + 1
      /\ \A i \in 1..l : channel'[i] = channel[i]
      /\ channel'[l + 1] = e
  BY <1>2, <1>3, <1>4
<1>6. last' \in [Kinds -> Hub!Numbers] /\ last'[k] = n + 1 /\ \A c \in Kinds \ {k} : last'[c] = last[c]
  BY <1>2, <1>3
<1>7. HubType'
  <2>1. Len(channel') <= Capacity
    BY <1>2, <1>4, <1>5, HubConstants
  <2> QED
    BY <1>2, <1>5, <1>6, <2>1 DEF HubInv, HubType, Socket
<1>8. Reported'
  <2>1. \A c \in Kinds : last'[c] <= n + 1
    <3>1. \A c \in Kinds : last[c] \in Nat
      BY <1>3, HubConstants
    <3> QED
      BY <1>1, <1>3, <1>6, <3>1
  <2>2. Len(channel') <= n + 1
    BY <1>1, <1>3, <1>4, <1>5
  <2>3. \A s \in Sockets : reports'[s] + Len(channel') <= n + 1 + 1
    <3>1. \A s \in Sockets : reports[s] \in Nat
      BY DEF HubInv, HubType
    <3> QED
      BY <1>1, <1>2, <1>3, <1>4, <1>5, <3>1
  <2> QED
    BY <1>3, <1>6, <2>1, <2>2, <2>3 DEF Reported
<1>9. LastIsKept'
  <2>1. ASSUME NEW c \in Kinds, c \in Hub!Cached, \A i \in DOMAIN channel' : channel'[i].kind # c
        PROVE  lastEvents'[c] = last'[c]
    <3>1. c # k
      <4>1. l + 1 \in DOMAIN channel'
        BY <1>5
      <4> QED
        BY <1>2, <1>5, <2>1, <4>1
    <3>2. \A i \in DOMAIN channel : channel[i].kind # c
      BY <1>5, <2>1
    <3> QED
      BY <1>2, <1>6, <2>1, <3>1, <3>2 DEF HubInv, LastIsKept
  <2>2. ASSUME NEW c \in Kinds, NEW i \in DOMAIN channel', channel'[i].kind = c,
               \A j \in DOMAIN channel' : j > i => channel'[j].kind # c
        PROVE  channel'[i].n = last'[c]
    <3>1. CASE i = l + 1
      BY <1>2, <1>5, <1>6, <2>2, <3>1
    <3>2. CASE i \in 1..l
      <4>1. l + 1 \in DOMAIN channel' /\ l + 1 > i
        BY <1>5, <3>2
      <4>2. c # k
        BY <1>2, <1>5, <2>2, <4>1
      <4>3. channel[i].kind = c /\ \A j \in DOMAIN channel : j > i => channel[j].kind # c
        BY <1>5, <2>2, <3>2
      <4>4. channel[i].n = last[c]
        BY <1>5, <3>2, <4>3 DEF HubInv, LastIsKept
      <4> QED
        BY <1>5, <1>6, <3>2, <4>2, <4>4
    <3>3. i = l + 1 \/ i \in 1..l
      BY <1>4, <1>5, <2>2
    <3> QED
      BY <3>1, <3>2, <3>3
  <2> QED
    BY <2>1, <2>2 DEF LastIsKept, Hub!Cached
<1>10. CacheIsTold'
  BY <1>2 DEF HubInv, CacheIsTold, Told, Hub!Cached
<1> QED
  BY <1>7, <1>8, <1>9, <1>10 DEF HubInv

\* The steps that leave the channel and the history alone.
LEMMA HubQuiet ==
  ASSUME HubInv, UNCHANGED <<channel, lastEvents, last>>, members' \subseteq Sockets,
         socket' \in [Sockets -> Socket], reports' \in [Sockets -> Nat],
         seen' \in [Sockets -> [Kinds -> Hub!Numbers]],
         \A s \in Sockets : reports'[s] <= reports[s] \/ reports'[s] <= 1,
         CacheIsTold'
  PROVE  HubInv'
<1>1. HubType'
  BY DEF HubInv, HubType, Socket, Event
<1>2. Reported'
  <2>1. PICK n \in Hub!Numbers :
          /\ \A k \in Kinds : last[k] <= n
          /\ Kinds # {} => \E k \in Kinds : last[k] = n
          /\ Len(channel) <= n /\ \A s \in Sockets : reports[s] + Len(channel) <= n + 1
    BY DEF HubInv, Reported
  <2>2. PICK l \in Nat : l = Len(channel)
    BY DEF HubInv, HubType
  <2>3. n \in Nat /\ \A s \in Sockets : reports[s] \in Nat /\ reports'[s] \in Nat
    BY HubConstants DEF HubInv, HubType
  <2>4. ASSUME NEW s \in Sockets PROVE reports'[s] + l <= n + 1
    <3>1. PICK a, b \in Nat : a = reports[s] /\ b = reports'[s]
      BY <2>3
    <3>2. l <= n /\ a + l <= n + 1 /\ (b <= a \/ b <= 1)
      BY <2>1, <2>2, <3>1
    <3>3. b + l <= n + 1
      BY <2>3, <3>2
    <3> QED
      BY <3>1, <3>3
  <2> QED
    BY <2>1, <2>2, <2>4 DEF Reported
<1>3. LastIsKept'
  BY DEF HubInv, LastIsKept, Hub!Cached
<1> QED
  BY <1>1, <1>2, <1>3 DEF HubInv

LEMMA HubDelivers == ASSUME HubInv, Hub!Deliver PROVE HubInv'
<1> DEFINE e == Head(channel)
<1>0. channel \in Seq(Event) /\ channel # <<>> /\ reports \in [Sockets -> Nat]
      /\ seen \in [Sockets -> [Kinds -> Hub!Numbers]] /\ lastEvents \in [Kinds -> Hub!Numbers]
  BY DEF HubInv, HubType, Hub!Deliver
<1>1. PICK l \in Nat : l + 1 = Len(channel)
  <2>1. Len(channel) \in Nat /\ Len(channel) # 0
    BY <1>0
  <2>2. Len(channel) - 1 \in Nat
    BY <2>1
  <2> QED
    BY <2>1, <2>2
<1>2. /\ e \in Event /\ e = channel[1] /\ e.kind \in Kinds /\ e.n \in Hub!Numbers
      /\ DOMAIN channel = 1..l + 1
  <2>1. Len(channel) \in Nat /\ DOMAIN channel = 1..Len(channel) /\ channel[1] = e
    BY <1>0
  <2>2. DOMAIN channel = 1..l + 1 /\ 1 \in 1..l + 1
    BY <1>1, <2>1
  <2>3. channel[1] \in Event
    BY <1>0, <1>1, <2>2, ElementOfSeq
  <2>4. \A x \in Event : x.kind \in Kinds /\ x.n \in Hub!Numbers
    BY DEF Event
  <2> HIDE DEF e
  <2> QED
    BY <2>1, <2>2, <2>3, <2>4
<1>3. /\ channel' \in Seq(Event) /\ Len(channel') = l /\ DOMAIN channel' = 1..l
      /\ \A i \in 1..l : channel'[i] = channel[i + 1]
  BY <1>0, <1>1 DEF Hub!Deliver
<1>4. /\ lastEvents' = IF e.kind \in Hub!Cached THEN [lastEvents EXCEPT ![e.kind] = e.n] ELSE lastEvents
      /\ seen' = [s \in Sockets |-> IF s \in members /\ Told(s) THEN [seen[s] EXCEPT ![e.kind] = e.n] ELSE seen[s]]
      /\ reports' = [s \in Sockets |-> IF s \in members /\ ~Told(s) THEN reports[s] + 1 ELSE reports[s]]
      /\ UNCHANGED <<members, socket, last>>
  BY DEF Hub!Deliver, Hub!Cache, Hub!Gets, Told, Hub!ReportUnwritable
<1> HIDE DEF e
<1>5. /\ lastEvents' \in [Kinds -> Hub!Numbers]
      /\ e.kind \in Hub!Cached => lastEvents'[e.kind] = e.n
      /\ \A k \in Kinds \ {e.kind} : lastEvents'[k] = lastEvents[k]
  BY <1>0, <1>2, <1>4
<1>6. /\ seen' \in [Sockets -> [Kinds -> Hub!Numbers]]
      /\ \A s \in Sockets : s \notin members => seen'[s] = seen[s]
      /\ \A s \in members : Told(s) => /\ seen'[s][e.kind] = e.n
                                       /\ \A k \in Kinds \ {e.kind} : seen'[s][k] = seen[s][k]
  <2>1. members \subseteq Sockets
    BY DEF HubInv, HubType
  <2>2. \A s \in Sockets : seen[s] \in [Kinds -> Hub!Numbers] /\ [seen[s] EXCEPT ![e.kind] = e.n] \in [Kinds -> Hub!Numbers]
    BY <1>0, <1>2
  <2> QED
    BY <1>0, <1>2, <1>4, <2>1, <2>2
<1>7. reports' \in [Sockets -> Nat] /\ \A s \in Sockets : reports'[s] <= reports[s] + 1
  BY <1>0, <1>4
<1>8. HubType'
  <2>1. Len(channel') <= Capacity
    <3>1. Len(channel) <= Capacity
      BY DEF HubInv, HubType
    <3> QED
      BY <1>1, <1>3, <3>1, HubConstants
  <2> QED
    BY <1>3, <1>4, <1>5, <1>6, <1>7, <2>1 DEF HubInv, HubType, Socket
<1>9. Reported'
  <2>1. PICK n \in Hub!Numbers :
          /\ \A k \in Kinds : last[k] <= n
          /\ Kinds # {} => \E k \in Kinds : last[k] = n
          /\ Len(channel) <= n /\ \A s \in Sockets : reports[s] + Len(channel) <= n + 1
    BY DEF HubInv, Reported
  <2>2. n \in Nat /\ \A s \in Sockets : reports[s] \in Nat /\ reports'[s] \in Nat
    BY <1>0, <1>7, HubConstants
  <2>3. l <= n /\ \A s \in Sockets : reports'[s] + l <= n + 1
    BY <1>1, <1>7, <2>1, <2>2
  <2> QED
    BY <1>3, <1>4, <2>1, <2>3 DEF Reported
<1>10. LastIsKept'
  <2>1. ASSUME NEW c \in Kinds, c \in Hub!Cached, \A i \in DOMAIN channel' : channel'[i].kind # c
        PROVE  lastEvents'[c] = last[c]
    <3>1. \A j \in DOMAIN channel : j > 1 => channel[j].kind # c
      <4> SUFFICES ASSUME NEW j \in 1..l + 1, j > 1 PROVE channel[j].kind # c
        BY <1>2
      <4>1. PICK i \in 1..l : j = i + 1
        <5>1. j - 1 \in 1..l /\ j = (j - 1) + 1
          BY <1>1
        <5> QED
          BY <5>1
      <4>2. channel'[i] = channel[j] /\ i \in DOMAIN channel'
        BY <1>3, <4>1
      <4> QED
        BY <2>1, <4>2
    <3>2. 1 \in DOMAIN channel
      BY <1>1, <1>2
    <3>3. CASE e.kind = c
      <4>1. channel[1].n = last[c]
        BY <1>2, <3>1, <3>2, <3>3 DEF HubInv, LastIsKept
      <4> QED
        BY <1>2, <1>5, <2>1, <3>3, <4>1
    <3>4. CASE e.kind # c
      <4>1. \A j \in DOMAIN channel : channel[j].kind # c
        <5>1. \A j \in 1..l + 1 : j = 1 \/ j > 1
          OBVIOUS
        <5> QED
          BY <1>2, <3>1, <3>4, <5>1
      <4> QED
        BY <1>5, <2>1, <3>4, <4>1 DEF HubInv, LastIsKept
    <3> QED
      BY <3>3, <3>4
  <2>2. ASSUME NEW c \in Kinds, NEW i \in DOMAIN channel', channel'[i].kind = c,
               \A j \in DOMAIN channel' : j > i => channel'[j].kind # c
        PROVE  channel'[i].n = last[c]
    <3>1. i \in 1..l /\ i + 1 \in DOMAIN channel /\ channel[i + 1] = channel'[i]
      BY <1>1, <1>2, <1>3, <2>2
    <3>2. \A j \in DOMAIN channel : j > i + 1 => channel[j].kind # c
      <4> SUFFICES ASSUME NEW j \in 1..l + 1, j > i + 1 PROVE channel[j].kind # c
        BY <1>2
      <4>1. PICK h \in 1..l : j = h + 1 /\ h > i
        <5>1. j - 1 \in 1..l /\ j = (j - 1) + 1 /\ j - 1 > i
          BY <1>1, <3>1
        <5> QED
          BY <5>1
      <4>2. channel'[h] = channel[j] /\ h \in DOMAIN channel'
        BY <1>3, <4>1
      <4> QED
        BY <2>2, <4>1, <4>2
    <3>3. PICK h \in DOMAIN channel : h = i + 1
      BY <3>1
    <3>4. channel[h].kind = c /\ \A j \in DOMAIN channel : j > h => channel[j].kind # c
      BY <2>2, <3>1, <3>2, <3>3
    <3>5. channel[h].n = last[c]
      BY <3>4 DEF HubInv, LastIsKept
    <3> QED
      BY <3>1, <3>3, <3>5
  <2> QED
    BY <1>4, <2>1, <2>2 DEF LastIsKept, Hub!Cached
<1>11. CacheIsTold'
  <2>1. ASSUME NEW s \in members, NEW k \in Hub!Cached, Told(s) PROVE seen'[s][k] = lastEvents'[k]
    <3>1. CASE k = e.kind
      BY <1>5, <1>6, <2>1, <3>1
    <3>2. CASE k # e.kind
      BY <1>5, <1>6, <2>1, <3>2, HubConstants DEF HubInv, CacheIsTold
    <3> QED
      BY <3>1, <3>2
  <2>2. ASSUME NEW s \in Sockets, socket[s].at \in {"new", "registering"} PROVE \A k \in Kinds : seen'[s][k] = 0
    <3>1. s \notin members
      BY <2>2 DEF HubInv, CacheIsTold
    <3> QED
      BY <1>6, <2>2, <3>1 DEF HubInv, CacheIsTold
  <2>3. \A s \in members : socket[s].at \notin {"new", "registering"}
    BY DEF HubInv, CacheIsTold
  <2> QED
    BY <1>4, <2>1, <2>2, <2>3 DEF CacheIsTold, Told, Hub!Cached
<1> QED
  BY <1>8, <1>9, <1>10, <1>11 DEF HubInv

\* A socket moves to v, tells nobody anything and joins no table.
LEMMA SocketMoves ==
  ASSUME HubInv, UNCHANGED <<channel, lastEvents, last, seen>>, NEW s \in Sockets, NEW v \in Socket,
         socket' = [socket EXCEPT ![s] = v], members' \subseteq members,
         reports' \in [Sockets -> Nat], \A t \in Sockets : reports'[t] <= reports[t] \/ reports'[t] <= 1,
         s \in members' => /\ v.writable /\ v.open => Told(s)
                           /\ v.at \notin {"new", "registering"},
         v.at \in {"new", "registering"} => socket[s].at \in {"new", "registering"}
  PROVE  HubInv'
<1>1. /\ socket \in [Sockets -> Socket] /\ members \subseteq Sockets
      /\ seen \in [Sockets -> [Kinds -> Hub!Numbers]]
  BY DEF HubInv, HubType
<1>2. /\ socket' \in [Sockets -> Socket] /\ socket'[s] = v
      /\ \A t \in Sockets \ {s} : socket'[t] = socket[t]
  BY <1>1
<1>3. \A t \in members' : socket'[t].at \notin {"new", "registering"}
  BY <1>1, <1>2 DEF HubInv, CacheIsTold
<1>4. ASSUME NEW t \in Sockets, socket'[t].at \in {"new", "registering"} PROVE \A k \in Kinds : seen'[t][k] = 0
  <2>1. socket[t].at \in {"new", "registering"}
    BY <1>2, <1>4
  <2> QED
    BY <2>1 DEF HubInv, CacheIsTold
<1>5. ASSUME NEW t \in members', NEW k \in Hub!Cached, socket'[t].writable, socket'[t].open
      PROVE  seen'[t][k] = lastEvents'[k]
  <2>1. Told(t)
    BY <1>1, <1>2, <1>5 DEF Told
  <2> QED
    BY <1>5, <2>1 DEF HubInv, CacheIsTold
<1>6. CacheIsTold'
  BY <1>3, <1>4, <1>5 DEF CacheIsTold, Told, Hub!Cached
<1> QED
  BY <1>1, <1>2, <1>6, HubQuiet

LEMMA HubRegisters == ASSUME HubInv, NEW s \in Sockets, Hub!Register(s) PROVE HubInv'
<1>1. /\ socket \in [Sockets -> Socket] /\ members \subseteq Sockets /\ socket[s].at = "registering"
      /\ seen \in [Sockets -> [Kinds -> Hub!Numbers]] /\ lastEvents \in [Kinds -> Hub!Numbers]
      /\ members' = members \cup {s} /\ socket' = [socket EXCEPT ![s].at = "reading"]
      /\ UNCHANGED <<channel, lastEvents, reports, last>>
  BY DEF HubInv, HubType, Hub!Register
<1>2. PICK v \in Socket : /\ socket' = [socket EXCEPT ![s] = v] /\ v.at = "reading"
                          /\ v.writable = socket[s].writable /\ v.open = socket[s].open
  <2> DEFINE w == [socket[s] EXCEPT !.at = "reading"]
  <2>1. w \in Socket /\ w.at = "reading" /\ w.writable = socket[s].writable /\ w.open = socket[s].open
    BY <1>1 DEF Socket, Hub!Phases
  <2>2. socket' = [socket EXCEPT ![s] = w]
    BY <1>1
  <2> HIDE DEF w
  <2> QED
    BY <2>1, <2>2
<1>3. /\ socket' \in [Sockets -> Socket] /\ socket'[s] = v
      /\ \A t \in Sockets \ {s} : socket'[t] = socket[t]
  BY <1>1, <1>2
<1>4. \A k \in Kinds : seen[s][k] = 0
  BY <1>1 DEF HubInv, CacheIsTold
<1>5. /\ seen' \in [Sockets -> [Kinds -> Hub!Numbers]]
      /\ \A t \in Sockets \ {s} : seen'[t] = seen[t]
      /\ Told(s) => \A k \in Kinds : seen'[s][k] = lastEvents[k]
  <2>1. CASE Told(s)
    <3>1. PICK f \in [Kinds -> Hub!Numbers] : seen' = [seen EXCEPT ![s] = f] /\ \A k \in Kinds : f[k] = lastEvents[k]
      <4> DEFINE f == [k \in Kinds |-> IF lastEvents[k] # 0 THEN lastEvents[k] ELSE seen[s][k]]
      <4>1. seen' = [seen EXCEPT ![s] = f]
        BY <2>1 DEF Hub!Register, Hub!Gets, Told
      <4>2. f \in [Kinds -> Hub!Numbers] /\ \A k \in Kinds : f[k] = lastEvents[k]
        BY <1>1, <1>4
      <4> HIDE DEF f
      <4> QED
        BY <4>1, <4>2
    <3> QED
      BY <1>1, <3>1
  <2>2. CASE ~Told(s)
    <3>1. seen' = seen
      BY <2>2 DEF Hub!Register, Hub!Gets, Told
    <3> QED
      BY <1>1, <2>2, <3>1
  <2> QED
    BY <2>1, <2>2
<1>6. CacheIsTold'
  <2>1. \A t \in members' : socket'[t].at \notin {"new", "registering"}
    BY <1>1, <1>2, <1>3 DEF HubInv, CacheIsTold
  <2>2. ASSUME NEW t \in Sockets, socket'[t].at \in {"new", "registering"} PROVE \A k \in Kinds : seen'[t][k] = 0
    <3>1. t # s
      BY <1>2, <1>3, <2>2
    <3> QED
      BY <1>3, <1>5, <2>2, <3>1 DEF HubInv, CacheIsTold
  <2>3. ASSUME NEW t \in members', NEW k \in Hub!Cached, socket'[t].writable, socket'[t].open
        PROVE  seen'[t][k] = lastEvents'[k]
    <3>1. CASE t = s
      <4>1. Told(s)
        BY <1>2, <1>3, <2>3, <3>1 DEF Told
      <4> QED
        BY <1>1, <1>5, <2>3, <3>1, <4>1, HubConstants
    <3>2. CASE t # s
      <4>1. t \in members /\ Told(t)
        BY <1>1, <1>3, <2>3, <3>2 DEF Told
      <4> QED
        BY <1>1, <1>5, <2>3, <3>2, <4>1 DEF HubInv, CacheIsTold
    <3> QED
      BY <3>1, <3>2
  <2> QED
    BY <2>1, <2>2, <2>3 DEF CacheIsTold, Told, Hub!Cached
<1>7. reports' \in [Sockets -> Nat] /\ \A t \in Sockets : reports'[t] <= reports[t]
  BY <1>1 DEF HubInv, HubType
<1> QED
  BY <1>1, <1>3, <1>5, <1>6, <1>7, HubQuiet

LEMMA HubPings == ASSUME HubInv, Hub!Ping PROVE HubInv'
<1>1. /\ reports \in [Sockets -> Nat] /\ members \subseteq Sockets
      /\ reports' = [s \in Sockets |-> IF s \in members /\ ~Told(s) THEN reports[s] + 1 ELSE reports[s]]
      /\ \A s \in members : ~Told(s) => reports[s] = 0
      /\ UNCHANGED <<channel, lastEvents, members, socket, seen, last>>
  BY DEF HubInv, HubType, Hub!Ping, Hub!ReportUnwritable, Hub!Gets, Told
<1>2. reports' \in [Sockets -> Nat] /\ \A s \in Sockets : reports'[s] <= reports[s] \/ reports'[s] <= 1
  BY <1>1
<1>3. CacheIsTold'
  BY <1>1 DEF HubInv, CacheIsTold, Told, Hub!Cached
<1> QED
  BY <1>1, <1>2, <1>3, HubQuiet DEF HubInv, HubType

\* A departure closes the socket of a member and removes it.
LEMMA ClosedSocket ==
  ASSUME HubInv, NEW s \in Sockets
  PROVE  /\ Hub!Closed(s) \in Socket /\ Hub!Closed(s).at = socket[s].at
         /\ Hub!Closed(s).writable = socket[s].writable
         /\ Hub!Closed(s).open => socket[s].open
<1>1. socket[s] \in Socket
  BY DEF HubInv, HubType
<1>2. PICK b \in BOOLEAN : b = (socket[s].open /\ s \notin members)
  OBVIOUS
<1>3. Hub!Closed(s) = [socket[s] EXCEPT !.open = b]
  BY <1>2 DEF Hub!Closed
<1>4. b => socket[s].open
  BY <1>2
<1> QED
  BY <1>1, <1>3, <1>4 DEF Socket

LEMMA HubStep == HubInv /\ [Hub!Next]_hub => HubInv'
<1> SUFFICES ASSUME HubInv, [Hub!Next]_hub PROVE HubInv'
  OBVIOUS
<1>0. /\ socket \in [Sockets -> Socket] /\ members \subseteq Sockets /\ reports \in [Sockets -> Nat]
      /\ \A s \in Sockets : socket[s].at \in {"new", "registering"} => s \notin members
  BY DEF HubInv, HubType, CacheIsTold
\* Nothing changes: a full channel, or a step of something else.
<1>1. ASSUME UNCHANGED hub PROVE HubInv'
  <2>1. UNCHANGED <<channel, lastEvents, members, socket, reports, seen, last>>
    BY <1>1 DEF hub
  <2>2. HubType'
    BY <2>1 DEF HubInv, HubType, Socket, Event
  <2>3. Reported'
    BY <2>1 DEF HubInv, Reported
  <2>4. LastIsKept'
    BY <2>1 DEF HubInv, LastIsKept, Hub!Cached
  <2>5. CacheIsTold'
    BY <2>1 DEF HubInv, CacheIsTold, Told, Hub!Cached
  <2> QED
    BY <2>2, <2>3, <2>4, <2>5 DEF HubInv
<1>2. ASSUME NEW k \in Kinds, Hub!Broadcast(k) \/ Hub!Dropped(k) PROVE HubInv'
  <2>1. CASE Hub!Broadcast(k)
    BY <2>1, HubBroadcasts
  <2>2. CASE Hub!Dropped(k)
    BY <1>1, <2>2 DEF Hub!Dropped, Hub!vars, hub
  <2> QED
    BY <1>2, <2>1, <2>2
<1>3. ASSUME NEW s \in Sockets, Hub!Upgrade(s) PROVE HubInv'
  <2> DEFINE v == [socket[s] EXCEPT !.at = "registering"]
  <2>1. socket[s].at = "new" /\ UNCHANGED <<channel, lastEvents, members, reports, seen, last>>
    BY <1>3 DEF Hub!Upgrade
  <2>2. v \in Socket
    BY <1>0 DEF Socket, Hub!Phases
  <2>3. socket' = [socket EXCEPT ![s] = v]
    BY <1>3, <1>0 DEF Hub!Upgrade
  <2> HIDE DEF v
  <2>4. /\ reports' \in [Sockets -> Nat] /\ \A t \in Sockets : reports'[t] <= reports[t]
        /\ members' \subseteq members
    BY <1>0, <2>1
  <2>5. s \in members' => /\ v.writable /\ v.open => Told(s)
                         /\ v.at \notin {"new", "registering"}
    BY <1>0, <2>1, <2>2
  <2>6. v.at \in {"new", "registering"} => socket[s].at \in {"new", "registering"}
    BY <2>1, <2>2
  <2> QED
    BY <2>1, <2>2, <2>3, <2>4, <2>5, <2>6, SocketMoves
<1>4. ASSUME NEW s \in Sockets, Hub!Break(s) PROVE HubInv'
  <2> DEFINE v == [socket[s] EXCEPT !.writable = FALSE]
  <2>1. UNCHANGED <<channel, lastEvents, members, reports, seen, last>>
    BY <1>4 DEF Hub!Break
  <2>2. v \in Socket /\ v.at = socket[s].at /\ v.writable = FALSE
    BY <1>0 DEF Socket
  <2>3. socket' = [socket EXCEPT ![s] = v]
    BY <1>4, <1>0 DEF Hub!Break
  <2> HIDE DEF v
  <2>4. /\ reports' \in [Sockets -> Nat] /\ \A t \in Sockets : reports'[t] <= reports[t]
        /\ members' \subseteq members
    BY <1>0, <2>1
  <2>5. s \in members' => /\ v.writable /\ v.open => Told(s)
                         /\ v.at \notin {"new", "registering"}
    BY <1>0, <2>1, <2>2
  <2>6. v.at \in {"new", "registering"} => socket[s].at \in {"new", "registering"}
    BY <2>1, <2>2
  <2> QED
    BY <2>1, <2>2, <2>3, <2>4, <2>5, <2>6, SocketMoves
<1>5. ASSUME NEW s \in Sockets, Hub!ReaderEnds(s) PROVE HubInv'
  <2> DEFINE v == [socket[s] EXCEPT !.at = "leaving", !.writable = FALSE]
  <2>1. UNCHANGED <<channel, lastEvents, members, reports, seen, last>>
    BY <1>5 DEF Hub!ReaderEnds
  <2>2. v \in Socket /\ v.at = "leaving" /\ v.writable = FALSE
    BY <1>0 DEF Socket, Hub!Phases
  <2>3. socket' = [socket EXCEPT ![s] = v]
    BY <1>5, <1>0 DEF Hub!ReaderEnds
  <2> HIDE DEF v
  <2>4. /\ reports' \in [Sockets -> Nat] /\ \A t \in Sockets : reports'[t] <= reports[t]
        /\ members' \subseteq members
    BY <1>0, <2>1
  <2>5. s \in members' => /\ v.writable /\ v.open => Told(s)
                         /\ v.at \notin {"new", "registering"}
    BY <1>0, <2>1, <2>2
  <2>6. v.at \in {"new", "registering"} => socket[s].at \in {"new", "registering"}
    BY <2>1, <2>2
  <2> QED
    BY <2>1, <2>2, <2>3, <2>4, <2>5, <2>6, SocketMoves
<1>6. ASSUME NEW s \in Sockets, Hub!UnregisterByReader(s) PROVE HubInv'
  <2> DEFINE v == [Hub!Closed(s) EXCEPT !.at = "gone"]
  <2>1. members' = members \ {s} /\ UNCHANGED <<channel, lastEvents, reports, seen, last>>
    BY <1>6 DEF Hub!UnregisterByReader, Hub!Removed
  <2>2. v \in Socket /\ v.at = "gone"
    BY ClosedSocket DEF Socket, Hub!Phases
  <2>3. socket' = [socket EXCEPT ![s] = v]
    BY <1>6 DEF Hub!UnregisterByReader
  <2> HIDE DEF v
  <2>4. /\ reports' \in [Sockets -> Nat] /\ \A t \in Sockets : reports'[t] <= reports[t]
        /\ members' \subseteq members
    BY <1>0, <2>1
  <2>5. s \in members' => /\ v.writable /\ v.open => Told(s)
                         /\ v.at \notin {"new", "registering"}
    BY <1>0, <2>1, <2>2
  <2>6. v.at \in {"new", "registering"} => socket[s].at \in {"new", "registering"}
    BY <2>1, <2>2
  <2> QED
    BY <2>1, <2>2, <2>3, <2>4, <2>5, <2>6, SocketMoves
<1>7. ASSUME NEW s \in Sockets, Hub!UnregisterByReport(s) PROVE HubInv'
  <2>1. /\ members' = members \ {s} /\ socket' = [socket EXCEPT ![s] = Hub!Closed(s)]
        /\ UNCHANGED <<channel, lastEvents, seen, last>>
        /\ reports[s] > 0 /\ reports' = [reports EXCEPT ![s] = reports[s] - 1]
    BY <1>7 DEF Hub!UnregisterByReport, Hub!Removed
  <2>2. reports' \in [Sockets -> Nat] /\ \A t \in Sockets : reports'[t] <= reports[t]
    <3>1. reports[s] \in Nat /\ reports[s] - 1 \in Nat /\ reports[s] - 1 <= reports[s]
      BY <1>0, <2>1
    <3> QED
      BY <1>0, <2>1, <3>1
  <2>3. Hub!Closed(s) \in Socket /\ Hub!Closed(s).at = socket[s].at
    BY ClosedSocket
  <2> QED
    BY <1>0, <2>1, <2>2, <2>3, SocketMoves
<1> QED
  BY <1>1, <1>2, <1>3, <1>4, <1>5, <1>6, <1>7, HubRegisters, HubDelivers, HubPings DEF Hub!Next, Hub!Leaves

----------------------------------------------------------------------------
(* The services together.                                                  *)

Inv ==
    /\ part \in {"tunnel", "hub", "process"}
    /\ TunnelInv /\ HubInv /\ ProcessInv

LEMMA Parts ==
  [Next]_vars => [Tunnel!Next]_tunnel /\ [Hub!Next]_hub /\ [Daemon!Next]_process /\ part' = part
BY DEF Next, InTunnel, InHub, InProcess, vars

(* The three parts keep their inductive invariants whichever of them runs: *)
(* none reads or writes the state of another.                              *)
THEOREM Invariant == Spec => []Inv
<1>1. Init => Inv
  BY TunnelInit, HubInit, ProcessInit DEF Init, Inv
<1>2. Inv /\ [Next]_vars => Inv'
  BY Parts, TunnelStep, HubStep, ProcessStep DEF Inv
<1> QED
  BY <1>1, <1>2, PTL DEF Spec

(* Every variable of the services keeps its type: no channel of the hub    *)
(* beyond its capacity, no goroutine it reports with beyond its bound, no  *)
(* daemon but those the manager has started.                               *)
THEOREM Types == Spec => []TypeOK
<1>1. Inv => TypeOK
  BY HubPromises, ProcessPromises DEF Inv, TunnelInv, TypeOK
<1> QED
  BY <1>1, Invariant, PTL

(* The manager's status fits what its goroutines do: an active tunnel has  *)
(* an address, no other has one but after a Start that failed, and the     *)
(* status "starting" always has a request or a daemon that will end it     *)
(* (Start, Stop and monitorOutput of internal/tunnel).                     *)
THEOREM StatusIsTrue == Spec => []StatusFits
<1>1. Inv => StatusFits
  BY DEF Inv, TunnelInv, StatusFits
<1> QED
  BY <1>1, Invariant, PTL

(* When the loop of the hub has nothing to deliver, every live socket of   *)
(* its table has been told the last status, QR code and countdown, whether *)
(* it joined before or after them (Run, HandleWS and Broadcast).           *)
THEOREM TheLastArrives == Spec => []LastArrives
<1>1. Inv => LastArrives
  BY HubPromises DEF Inv, LastArrives
<1> QED
  BY <1>1, Invariant, PTL

(* However the process ends, by a signal, by the menu or by a failure of   *)
(* the server, no stop channel is closed twice, the store is closed after  *)
(* the scheduler and the queue were told to stop and, under the web        *)
(* interface, after the requests have ended or had their time              *)
(* (cmd/sipen/main.go).                                                    *)
THEOREM TheEndIsClean == Spec => []CleanEnd
<1>1. Inv => CleanEnd
  BY ProcessPromises DEF Inv, CleanEnd
<1> QED
  BY <1>1, Invariant, PTL

=============================================================================
