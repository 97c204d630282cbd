------------------------------ MODULE Limiter ------------------------------
(***************************************************************************)
(* The sliding windows of internal/web/security.go: RateLimiter, which     *)
(* counts the requests of an address, and SmartRegistrationLimiter, which  *)
(* counts the registrations of a device and those of the whole server.     *)
(* Each holds its mutex from the filtering to the record, and a ticker     *)
(* sweeps what has left the window out of its tables every two windows.    *)
(*                                                                         *)
(* A recorded time is modelled by its age, its key, and a number among     *)
(* those of the key in the same tick.  A slice of them is a set: the code  *)
(* filters, counts and appends, and never looks at their order.  Keys are  *)
(* what extractIP or the hash of the device give: they are only compared.  *)
(***************************************************************************)
EXTENDS Naturals, FiniteSets

CONSTANTS Keys,         \* addresses or devices
          Window,       \* the window, in ticks of the clock
          Limit,        \* requests of a key in a window
          GlobalLimit   \* registrations of the server in a window

VARIABLES smart,        \* which of the two limiters this is
          visits,       \* the recorded visits of each key
          globalVisits, \* those of every key (of the smart one)
          sweep,        \* ticks until the ticker fires
          passed,       \* the requests let through within the window (history)
          answer        \* the last answer: whom, and whether it passed (history)

vars == <<smart, visits, globalVisits, sweep, passed, answer>>

Visits(ages) == [age : ages, key : Keys, nth : Nat]

Quiet == [key |-> "nobody", ok |-> TRUE]

TypeOK ==
    /\ smart \in BOOLEAN
    /\ visits \in [Keys -> SUBSET Visits(0..3 * Window)] /\ globalVisits \subseteq Visits(0..3 * Window)
    /\ sweep \in 0..2*Window
    /\ passed \subseteq Visits(0..Window-1)
    /\ answer \in [key : Keys \cup {"nobody"}, ok : BOOLEAN]

Init ==
    /\ smart \in BOOLEAN
    /\ visits = [k \in Keys |-> {}] /\ globalVisits = {}
    /\ sweep = 2 * Window
    /\ passed = {} /\ answer = Quiet

\* The loop over the times of a key: t.After(cutoff).
Valid(times) == {t \in times : t.age < Window}

----------------------------------------------------------------------------
Full(times, limit) == Cardinality(times) >= limit

\* time.Now(), for a request of k.
Arrival(k) ==
    LET sooner == {t \in visits[k] \cup globalVisits : t.key = k /\ t.age = 0} IN
    [age |-> 0, key |-> k, nth |-> Cardinality(sooner) + 1]

Answer(k, ok) ==
    /\ answer' = [key |-> k, ok |-> ok]
    /\ passed' = IF ok THEN passed \cup {Arrival(k)} ELSE passed

\* RateLimiter.Middleware: a refused request leaves the table as it is.
Middleware(k) ==
    /\ ~smart
    /\ LET valid == Valid(visits[k])
           ok    == ~Full(valid, Limit) IN
       /\ visits' = IF ok THEN [visits EXCEPT ![k] = valid \cup {Arrival(k)}] ELSE visits
       /\ Answer(k, ok)
    /\ UNCHANGED <<smart, globalVisits, sweep>>

\* Mutant of the code: the server's window is charged before the device is looked at.
ChargedEarly(k, global, device) == global \cup {Arrival(k)}

\* What the server's window holds after a registration: a refused device is not
\* charged to it.
Charged(k, global, device) == IF Full(device, Limit) THEN global ELSE global \cup {Arrival(k)}

\* CheckRegistration: the server's window, then the device's.
CheckRegistration(k) ==
    /\ smart
    /\ LET global == Valid(globalVisits)
           device == Valid(visits[k])
           ok     == ~Full(global, GlobalLimit) /\ ~Full(device, Limit) IN
       /\ globalVisits' = IF Full(global, GlobalLimit) THEN global ELSE Charged(k, global, device)
       /\ visits' = IF ok THEN [visits EXCEPT ![k] = device \cup {Arrival(k)}] ELSE visits
       /\ Answer(k, ok)
    /\ UNCHANGED <<smart, sweep>>

\* The ticker's case keeps what counts.
Sweep ==
    /\ sweep = 0
    /\ visits' = [k \in Keys |-> Valid(visits[k])]
    /\ globalVisits' = Valid(globalVisits)
    /\ sweep' = 2 * Window
    /\ UNCHANGED <<smart, passed, answer>>

Older(times) == {[t EXCEPT !.age = @ + 1] : t \in times}

\* Time passes; the ticker is served before the clock's next tick.
Tick ==
    /\ sweep > 0 /\ sweep' = sweep - 1
    /\ visits' = [k \in Keys |-> Older(visits[k])]
    /\ globalVisits' = Older(globalVisits)
    /\ passed' = Valid(Older(passed))
    /\ answer' = Quiet
    /\ UNCHANGED smart

Next ==
    \/ \E k \in Keys : Middleware(k) \/ CheckRegistration(k)
    \/ Sweep \/ Tick

Spec == Init /\ [][Next]_vars

----------------------------------------------------------------------------
(* Properties.                                                             *)

PassedOf(k) == {p \in passed : p.key = k}

\* In any window, however refusals, sweeps and the clock fall in it, a key is let
\* through Limit times at most, and all of them together GlobalLimit times.
WithinLimits ==
    /\ \A k \in Keys : Cardinality(PassedOf(k)) <= Limit
    /\ smart => Cardinality(passed) <= GlobalLimit

\* A request is refused only when that many have really been let through in the
\* last window: what others, or refused requests, do costs nobody a turn.
Refused == ~answer'.ok /\ answer' # answer

ReallyFull == Cardinality(PassedOf(answer'.key)) = Limit \/ (smart /\ Cardinality(passed) = GlobalLimit)

\* The windows are exact, neither wider nor narrower than their limits.
ExactLimits == [][WithinLimits' /\ (Refused => ReallyFull)]_vars
=============================================================================
