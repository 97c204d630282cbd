----------------------------- MODULE Services ------------------------------
(***************************************************************************)
(* The services that run beside the queue, the scheduler and the gateway   *)
(* and share no state with each other: the tunnel, the hub and the end of  *)
(* the process.  A behaviour is one of one of them, chosen at the start.   *)
(***************************************************************************)
EXTENDS Naturals

CONSTANTS Togglers, MaxDaemons,                  \* of Tunnel
          Sockets, Kinds, Capacity, MaxEvents    \* of Hub

ASSUME ServicesAssumption == {MaxDaemons, Capacity, MaxEvents} \subseteq Nat

VARIABLES part,
          state, url, cmd, request, daemon, binary,
          channel, lastEvents, members, socket, reports, seen, last,
          env, mode, main, todo, signalled, store, queue, scheduler, served, late

Tunnel == INSTANCE Tunnel
Hub    == INSTANCE Hub
Daemon == INSTANCE Daemon WITH request <- served

tunnel  == <<state, url, cmd, request, daemon, binary>>
hub     == <<channel, lastEvents, members, socket, reports, seen, last>>
process == <<env, mode, main, todo, signalled, store, queue, scheduler, served, late>>

vars == <<part, tunnel, hub, process>>

Init ==
    /\ part \in {"tunnel", "hub", "process"}
    /\ Tunnel!Init /\ Hub!Init /\ Daemon!Init
    /\ part # "tunnel" => binary = "none"
    /\ part # "process" => env = ""

\* A step of one part leaves the others alone.
InTunnel(A) == part = "tunnel" /\ A /\ UNCHANGED <<part, hub, process>>
InHub(A) == part = "hub" /\ A /\ UNCHANGED <<part, tunnel, process>>
InProcess(A) == part = "process" /\ A /\ UNCHANGED <<part, tunnel, hub>>

Next == InTunnel(Tunnel!Next) \/ InHub(Hub!Next) \/ InProcess(Daemon!Next)

\* The fairness of each part, for the behaviours that are its own.
Fairness ==
    /\ \A d \in Tunnel!Daemons : WF_vars(InTunnel(Tunnel!Daemon(d)))
    /\ WF_vars(InHub(Hub!Ping))
    /\ \A s \in Sockets : WF_vars(InHub(Hub!Leaves(s)))
    /\ \A s \in Sockets : WF_vars(InHub(~socket[s].open /\ Hub!ReaderEnds(s)))

Spec == Init /\ [][Next]_vars /\ Fairness

TypeOK ==
    CASE part = "tunnel"  -> Tunnel!TypeOK
      [] part = "hub"     -> Hub!TypeOK
      [] part = "process" -> Daemon!TypeOK

StatusFits       == part = "tunnel" => Tunnel!StatusFits
AddressShown     == Tunnel!AddressShown
LastArrives      == part = "hub" => Hub!LastArrives
DeadSocketsLeave == Hub!DeadSocketsLeave
CleanEnd         == part = "process" => Daemon!CleanEnd
=============================================================================
