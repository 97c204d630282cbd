------------------------------ MODULE Tunnel ------------------------------
(***************************************************************************)
(* The Cloudflare quick tunnel: the manager of internal/tunnel/tunnel.go   *)
(* and the handler that toggles it.  Every toggle runs in its own request, *)
(* Start goes on in a goroutine, and each daemon it launches gets a        *)
(* goroutine that reads its output (monitorOutput) and one that waits for  *)
(* its exit; all of them write the one status.                             *)
(*                                                                         *)
(* The daemon is external: it runs, prints its address once on one of its  *)
(* two streams, and exits when it likes or when it is killed.              *)
(*                                                                         *)
(* Bounds: Togglers requests at once, MaxDaemons launches.                 *)
(***************************************************************************)
EXTENDS Naturals, FiniteSets

CONSTANTS Togglers,     \* requests to toggle the tunnel that run at once
          MaxDaemons    \* daemons launched in a behaviour

VARIABLES state,     \* stopped, starting, active or error
          url,       \* the daemon whose address is shown, 0 for none
          cmd,       \* the daemon that Stop would kill, 0 for none
          request,   \* how far each toggle is
          daemon,    \* the daemons and their two goroutines
          binary     \* the file at data/bin/cloudflared

vars == <<state, url, cmd, request, daemon, binary>>

Daemons == 1..MaxDaemons

\* What the file holds: nothing, a part of what was downloaded, or all of it.
Binaries == {"none", "part", "whole"}

\* A request: toggling, ensuring the binary, launching.
Steps == {"idle", "stop", "start", "ensure", "install", "copy", "launch"}

\* Start is under way from its first step to the launch.
Starting == {"ensure", "install", "copy", "launch"}

NoDaemon == [run |-> "none", line |-> "none", monitor |-> "off", waiter |-> "off"]

TypeOK ==
    /\ state \in {"stopped", "starting", "active", "error"}
    /\ url \in 0..MaxDaemons /\ cmd \in 0..MaxDaemons
    /\ request \in [Togglers -> Steps]
    /\ daemon \in [Daemons -> [run : {"none", "running", "exited"},
                               line : {"none", "stdout", "stderr", "read"},
                               monitor : {"off", "reading", "found", "done"},
                               waiter : {"off", "waiting", "done"}]]
    /\ binary \in Binaries

Init ==
    /\ state = "stopped" /\ url = 0 /\ cmd = 0
    /\ request = [r \in Togglers |-> "idle"]
    /\ daemon = [d \in Daemons |-> NoDaemon]
    /\ binary \in {"none", "whole"}

At(r, s)   == request[r] = s
Goto(r, s) == request' = [request EXCEPT ![r] = s]
Rest(r)    == Goto(r, "idle")

Launched == {d \in Daemons : daemon[d].run # "none"}
Status == <<state, url, cmd>>

----------------------------------------------------------------------------
(* The handler.                                                            *)

\* ToggleTunnelHandler looks at the status; Stop or Start follows later.
Toggle(r) ==
    /\ At(r, "idle")
    /\ IF state = "active" THEN Goto(r, "stop") ELSE Goto(r, "start")
    /\ UNCHANGED <<Status, daemon, binary>>

\* Stop kills the daemon it knows and resets the status.
Stop(r) ==
    /\ At(r, "stop")
    /\ daemon' = [d \in Daemons |->
                    IF d = cmd /\ daemon[d].run = "running"
                    THEN [daemon[d] EXCEPT !.run = "exited"] ELSE daemon[d]]
    /\ state' = "stopped" /\ url' = 0 /\ cmd' = 0
    /\ Rest(r)
    /\ UNCHANGED binary

----------------------------------------------------------------------------
(* Start.                                                                  *)

\* A tunnel that is active or starting is left alone.
StartRefused(r) ==
    /\ At(r, "start") /\ state \in {"active", "starting"}
    /\ Rest(r)
    /\ UNCHANGED <<Status, daemon, binary>>

StartBegins(r) ==
    /\ At(r, "start") /\ state \notin {"active", "starting"}
    /\ state' = "starting" /\ url' = 0
    /\ Goto(r, "ensure")
    /\ UNCHANGED <<cmd, daemon, binary>>

\* Each error of Start ends in the error status.
StartFails(r) ==
    /\ request[r] \in Starting
    /\ state' = "error"
    /\ Rest(r)
    /\ UNCHANGED <<url, cmd, daemon, binary>>

\* ensureCloudflared: any file at the place is taken for the binary.
BinaryFound(r) ==
    /\ At(r, "ensure") /\ binary # "none"
    /\ Goto(r, "launch")
    /\ UNCHANGED <<Status, daemon, binary>>

\* Otherwise it is downloaded, and compared with the checksum of the release
\* notes; a mismatch is an error, no checksum is none.
Download(r) ==
    /\ At(r, "ensure") /\ binary = "none"
    /\ Goto(r, "install")
    /\ UNCHANGED <<Status, daemon, binary>>

\* The bytes are written to their place directly: first the file is truncated...
InstallOpens(r) ==
    /\ At(r, "install")
    /\ binary' = "part"
    /\ Goto(r, "copy")
    /\ UNCHANGED <<Status, daemon>>

\* ... and in the end it is complete.
InstallCloses(r) ==
    /\ At(r, "copy")
    /\ binary' = "whole"
    /\ Goto(r, "launch")
    /\ UNCHANGED <<Status, daemon>>

\* The daemon is launched and recorded, whatever became of the status.
Launch(r) ==
    /\ At(r, "launch")
    /\ LET d == Cardinality(Launched) + 1 IN
       /\ d <= MaxDaemons
       /\ daemon' = [daemon EXCEPT ![d] = [NoDaemon EXCEPT !.run = "running",
                                             !.monitor = "reading", !.waiter = "waiting"]]
       /\ cmd' = d
    /\ Rest(r)
    /\ UNCHANGED <<state, url, binary>>

----------------------------------------------------------------------------
(* The daemons and their goroutines.                                       *)

\* The daemon prints its address.
PrintsAddress(d, stream) ==
    /\ daemon[d].run = "running" /\ daemon[d].line = "none"
    /\ daemon' = [daemon EXCEPT ![d].line = stream]
    /\ UNCHANGED <<Status, request, binary>>

Exit(d) ==
    /\ daemon[d].run = "running"
    /\ daemon' = [daemon EXCEPT ![d].run = "exited"]
    /\ UNCHANGED <<Status, request, binary>>

\* monitorOutput reads standard output to its end before standard error, until
\* the waiter has closed the pipes.
Readable(d) ==
    \/ daemon[d].line = "stdout"
    \/ daemon[d].line = "stderr" /\ daemon[d].run = "exited"

\* It looks for an address only while none is shown, without the lock.
MonitorReads(d) ==
    /\ daemon[d].monitor = "reading" /\ Readable(d) /\ daemon[d].waiter # "done"
    /\ daemon' = [daemon EXCEPT ![d].line = "read",
                                ![d].monitor = IF url = 0 THEN "found" ELSE "reading"]
    /\ UNCHANGED <<Status, request, binary>>

\* Mutant of the code: the address is shown only to a tunnel that is starting.
MonitorShowsStarting(d) ==
    /\ daemon[d].monitor = "found"
    /\ IF state = "starting" THEN url' = d /\ state' = "active" ELSE UNCHANGED <<url, state>>
    /\ daemon' = [daemon EXCEPT ![d].monitor = "reading"]
    /\ UNCHANGED <<cmd, request, binary>>

\* The address it found is shown, whatever became of the tunnel.
MonitorShows(d) ==
    /\ daemon[d].monitor = "found"
    /\ url' = d /\ state' = "active"
    /\ daemon' = [daemon EXCEPT ![d].monitor = "reading"]
    /\ UNCHANGED <<cmd, request, binary>>

MonitorEnds(d) ==
    /\ daemon[d].monitor = "reading" /\ daemon[d].run = "exited"
    /\ Readable(d) => daemon[d].waiter = "done"
    /\ daemon' = [daemon EXCEPT ![d].monitor = "done"]
    /\ UNCHANGED <<Status, request, binary>>

\* Mutant of the code: the waiter forgets the address.
WaiterEndsShowing(d) ==
    /\ daemon[d].waiter = "waiting" /\ daemon[d].run = "exited"
    /\ state' = IF state \in {"active", "starting"} THEN "stopped" ELSE state
    /\ daemon' = [daemon EXCEPT ![d].waiter = "done"]
    /\ UNCHANGED <<url, cmd, request, binary>>

\* After the exit the waiter ends whatever tunnel is active or starting.
WaiterEnds(d) ==
    /\ daemon[d].waiter = "waiting" /\ daemon[d].run = "exited"
    /\ IF state \in {"active", "starting"}
         THEN state' = "stopped" /\ url' = 0
         ELSE UNCHANGED <<state, url>>
    /\ daemon' = [daemon EXCEPT ![d].waiter = "done"]
    /\ UNCHANGED <<cmd, request, binary>>

----------------------------------------------------------------------------
Request(r) ==
    \/ Stop(r) \/ StartRefused(r) \/ StartBegins(r) \/ StartFails(r)
    \/ BinaryFound(r) \/ Download(r)
    \/ InstallOpens(r) \/ InstallCloses(r) \/ Launch(r)

Daemon(d) == MonitorReads(d) \/ MonitorShows(d) \/ MonitorEnds(d) \/ WaiterEnds(d)

Next ==
    \/ \E r \in Togglers : Toggle(r) \/ Request(r)
    \/ \E d \in Daemons :
         Daemon(d) \/ Exit(d) \/ \E stream \in {"stdout", "stderr"} : PrintsAddress(d, stream)

\* The goroutines of a daemon are scheduled; daemons, downloads and users do what
\* they like.
Fairness == \A d \in Daemons : WF_vars(Daemon(d))

Spec == Init /\ [][Next]_vars /\ Fairness

----------------------------------------------------------------------------
(* Properties.                                                             *)

Live(d) == daemon[d].waiter = "waiting"

\* An address is shown exactly while the tunnel is active; only a Start that
\* failed may leave an older one behind.
UrlFollowsState ==
    /\ state = "active" => url # 0
    /\ url # 0 => state \in {"active", "error"}

\* The status "starting", in which a toggle does nothing, always has someone
\* who will end it: a Start under way or a daemon that has not been waited for.
StartingHasCause ==
    state = "starting" =>
      \/ \E r \in Togglers : request[r] \in Starting
      \/ \E d \in Daemons : Live(d)

\* What the dashboard shows of the tunnel fits what is going on.
StatusFits == UrlFollowsState /\ StartingHasCause

\* An address printed on standard output of a running daemon gets shown, although
\* the monitor looks at the status without the lock and the status is reset by
\* others.  (On standard error it is read when the daemon has exited, too late.)
Printed(d) == daemon[d].run = "running" /\ daemon[d].line = "stdout" /\ url = 0

AddressShown == \A d \in Daemons : Printed(d) ~> url # 0 \/ daemon[d].run = "exited"
=============================================================================
