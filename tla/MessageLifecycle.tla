-------------------------- MODULE MessageLifecycle --------------------------
(***************************************************************************)
(* What the queue promises about a message, without goroutines, copies,    *)
(* settings or clocks: a message waits until one sender takes it, is       *)
(* handed over at most once, and what is recorded at the end is what       *)
(* happened.  A sender may vanish with the message in its hands.           *)
(* MessageQueue implements this specification.                             *)
(***************************************************************************)
EXTENDS Naturals

CONSTANT Messages

VARIABLES
  phase,     \* the status a user sees
  held,      \* messages in the hands of a sender
  accepted   \* how often WhatsApp accepted each message

lvars == <<phase, held, accepted>>

Outcomes == {"failed", "cancelled", "dry_run"}
Phases == {"none", "pending", "processing", "deleted", "sent"} \cup Outcomes

LInit ==
  /\ phase = [m \in Messages |-> "none"]
  /\ held = {}
  /\ accepted = [m \in Messages |-> 0]

Submit(m) ==
  /\ phase[m] = "none"
  /\ phase' = [phase EXCEPT ![m] = "pending"]
  /\ UNCHANGED <<held, accepted>>

Take(m) ==
  /\ phase[m] = "pending" /\ m \notin held
  /\ phase' = [phase EXCEPT ![m] = "processing"]
  /\ held' = held \cup {m}
  /\ UNCHANGED accepted

Accept(m) ==
  /\ m \in held /\ accepted[m] = 0
  /\ accepted' = [accepted EXCEPT ![m] = 1]
  /\ UNCHANGED <<phase, held>>

\* A message erased under its sender's hands stays erased.
Settle(m, p) ==
  /\ m \in held
  /\ phase[m] \in {"processing", "deleted"}
  /\ phase' = [phase EXCEPT ![m] = IF @ = "deleted" THEN @ ELSE p]
  /\ held' = held \ {m}
  /\ UNCHANGED accepted

Deliver(m) == accepted[m] = 1 /\ Settle(m, "sent")
GiveBack(m) == accepted[m] = 0 /\ \E p \in {"pending", "failed", "dry_run"} : Settle(m, p)

Withdraw(m) ==
  /\ phase[m] = "pending"
  /\ phase' = [phase EXCEPT ![m] = "cancelled"]
  /\ UNCHANGED <<held, accepted>>

Erase(m) ==
  /\ phase[m] \notin {"none", "deleted"}
  /\ phase' = [phase EXCEPT ![m] = "deleted"]
  /\ UNCHANGED <<held, accepted>>

\* Senders die, or cannot record what they did.
Vanish ==
  /\ \E M \in SUBSET held : held' = held \ M
  /\ UNCHANGED <<phase, accepted>>

LNext ==
  \/ \E m \in Messages : Submit(m) \/ Take(m) \/ Accept(m) \/ Deliver(m)
                         \/ GiveBack(m) \/ Withdraw(m) \/ Erase(m)
  \/ Vanish

LSpec == LInit /\ [][LNext]_lvars

=============================================================================
