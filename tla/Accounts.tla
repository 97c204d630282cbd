------------------------------ MODULE Accounts ------------------------------
(***************************************************************************)
(* Accounts and registration: RegisterPostHandler and the two ways of      *)
(* internal/auth/auth.go to register, the administrator's requests that    *)
(* create and delete accounts, and the switch registration_open with the   *)
(* requests that write it.  The database has one connection, so an SQL     *)
(* statement is a step; what a request has read it keeps as a copy.  A     *)
(* request that is refused, or whose statement fails, ends there, unless   *)
(* the code goes on in spite of the error.                                 *)
(*                                                                         *)
(* A request with a session is one of an account that is there when it     *)
(* begins; how it came by its session is in the module Logins.  An account *)
(* has no name: a name that is taken is an error that changes nothing.     *)
(* The role "user" is not told from "kelas": no guard tells them apart.    *)
(* What RegisterUser does to the workspaces is in the module Workspaces.   *)
(*                                                                         *)
(* Bounds: MaxUsers accounts are created, Requests requests run at once.   *)
(***************************************************************************)
EXTENDS Naturals, FiniteSets

CONSTANTS Requests,     \* requests that run at once
          MaxUsers,     \* accounts created in a behaviour
          ServerMode    \* the configuration lets everyone register

VARIABLES user,     \* the accounts by id; an id is never given out again
          open,     \* registration_open of the settings
          request,  \* what each request is doing, with what it has read
          crowned,  \* a superadmin has been created (history)
          raced     \* two first registrations overlapped (history)

vars == <<user, open, request, crowned, raced>>

Ids   == 1..MaxUsers
Roles == {"superadmin", "admin", "kelas"}

Steps == {"idle", "settings", "recount", "crown", "close", "join", "inside", "toggle"}

\* id and role: the account as a request with a session has read it; seen:
\* registration_open as it was read.
Resting == [at |-> "idle", id |-> 0, role |-> "kelas", seen |-> FALSE]

\* A row never inserted, deleted, or there with its role.
TypeOK ==
    /\ user \in [Ids -> Roles \cup {"never", "gone"}]
    /\ \A u, v \in Ids : u < v /\ user[u] = "never" => user[v] = "never"
    /\ open \in BOOLEAN
    /\ request \in [Requests -> [at : Steps, id : Ids \cup {0}, role : Roles, seen : BOOLEAN]]
    /\ crowned \in BOOLEAN /\ raced \in BOOLEAN

Users  == {u \in Ids : user[u] \in Roles}
Supers == {u \in Users : user[u] = "superadmin"}

\* The settings are seeded with registration closed.
Init ==
    /\ user = [u \in Ids |-> "never"]
    /\ open = FALSE
    /\ request = [r \in Requests |-> Resting]
    /\ crowned = FALSE /\ raced = FALSE

At(r, s)     == request[r].at = s
Become(r, q) == request' = [request EXCEPT ![r] = q]
Goto(r, s)   == Become(r, [request[r] EXCEPT !.at = s])
End(r)       == Become(r, Resting)

\* CreateUser gives out the next id.
IsNext(u) == user[u] = "never" /\ \A v \in 1..u-1 : user[v] # "never"

Inserted(role) == \E u \in Ids : IsNext(u) /\ user' = [user EXCEPT ![u] = role]

----------------------------------------------------------------------------
(* RegisterPostHandler.                                                    *)

\* First it counts the accounts, and a count that fails is none, ...
RegisterCounts(r) ==
    /\ At(r, "idle")
    /\ Goto(r, "recount") \/ (Users # {} /\ Goto(r, "settings"))
    /\ UNCHANGED <<user, open, crowned, raced>>

\* ... then it looks at the settings, for the only time: RegisterUser is told not
\* to look again.  The limiter (module Limiter) may refuse it too.
RegisterLooks(r) ==
    /\ At(r, "settings")
    /\ open \/ ServerMode
    /\ Goto(r, "join")
    /\ UNCHANGED <<user, open, crowned, raced>>

\* RegisterUser inserts the account, with the lowest role.
RegisterUser(r) ==
    /\ At(r, "join")
    /\ Inserted("kelas")
    /\ End(r)
    /\ UNCHANGED <<open, crowned, raced>>

\* RegisterFirstUser counts again before it hashes the password...
Recount(r) ==
    /\ At(r, "recount")
    /\ Users = {}
    /\ Goto(r, "crown")
    /\ raced' = (raced \/ \E q \in Requests \ {r} : At(q, "crown"))
    /\ UNCHANGED <<user, open, crowned>>

\* ... inserts the superadmin...
RegisterFirstUser(r) ==
    /\ At(r, "crown")
    /\ Inserted("superadmin")
    /\ crowned' = TRUE
    /\ Goto(r, "close")
    /\ UNCHANGED <<open, raced>>

\* The switch is written at the end of a request.
SetRegistrationOpen(r, o) == open' = o /\ End(r)

\* ... and closes registration, or does not: the error is ignored (Leave).
CloseRegistration(r) ==
    /\ At(r, "close")
    /\ SetRegistrationOpen(r, FALSE)
    /\ UNCHANGED <<user, crowned, raced>>

----------------------------------------------------------------------------
(* Requests with a session go by the account as RequireAuth has read it.   *)

RequireAuth(r) ==
    /\ At(r, "idle")
    /\ \E u \in Users : Become(r, [Resting EXCEPT !.at = "inside", !.id = u, !.role = user[u]])
    /\ UNCHANGED <<user, open, crowned, raced>>

Inside(r, roles) == At(r, "inside") /\ request[r].role \in roles

\* A page, a refusal, or a statement that fails, whether the error is returned or
\* ignored: nothing is written after it.
Leave(r) ==
    /\ ~At(r, "idle")
    /\ End(r)
    /\ UNCHANGED <<user, open, crowned, raced>>

\* Mutant of the code: a role the system does not know is stored.
GivenRoleUnchecked(asked, mine) ==
    IF asked = "superadmin" \/ (asked = "admin" /\ mine # "superadmin") THEN "kelas" ELSE asked

\* CreateUserHandler: only a superadmin makes admins, nobody makes superadmins, and
\* what is no role is the lowest.
GivenRole(asked, mine) ==
    IF asked = "admin" /\ mine = "superadmin" THEN "admin" ELSE "kelas"

CreateUser(r) ==
    /\ Inside(r, {"admin", "superadmin"})
    /\ \E asked \in Roles \cup {"other"} : Inserted(GivenRole(asked, request[r].role))
    /\ End(r)
    /\ UNCHANGED <<open, crowned, raced>>

\* Mutant of the code: an account may delete itself.
MayDeleteAny(r, u) == TRUE

MayDelete(r, u) == u # request[r].id

\* DeleteUserHandler.  (The WhatsApp client of the account is closed before:
\* CloseClient of Gateway.)
DeleteUser(r) ==
    /\ Inside(r, {"superadmin"})
    /\ \E u \in Users : MayDelete(r, u) /\ user' = [user EXCEPT ![u] = "gone"]
    /\ End(r)
    /\ UNCHANGED <<open, crowned, raced>>

\* ToggleRegistrationHandler writes the negation of what it has read.
ToggleReads(r) ==
    /\ Inside(r, {"superadmin"})
    /\ Become(r, [Resting EXCEPT !.at = "toggle", !.seen = open])
    /\ UNCHANGED <<user, open, crowned, raced>>

ToggleWrites(r) ==
    /\ At(r, "toggle")
    /\ SetRegistrationOpen(r, ~request[r].seen)
    /\ UNCHANGED <<user, crowned, raced>>

\* UpdateSettingsHandler writes the whole row, as its form has it, for everyone.
SaveSettings(r) ==
    /\ Inside(r, Roles)
    /\ \E o \in BOOLEAN : SetRegistrationOpen(r, o)
    /\ UNCHANGED <<user, crowned, raced>>

----------------------------------------------------------------------------
Request(r) ==
    \/ RegisterCounts(r) \/ RegisterLooks(r) \/ RegisterUser(r)
    \/ Recount(r) \/ RegisterFirstUser(r) \/ CloseRegistration(r)
    \/ RequireAuth(r) \/ Leave(r)
    \/ CreateUser(r) \/ DeleteUser(r) \/ ToggleReads(r) \/ ToggleWrites(r) \/ SaveSettings(r)

Next == \E r \in Requests : Request(r)

Spec == Init /\ [][Next]_vars

----------------------------------------------------------------------------
(* Properties.                                                             *)

\* From the first registration on there is exactly one superadmin, through
\* registrations, created accounts, and deletions by requests that hold old
\* copies, unless two first registrations overlapped after their second count.
OneSuperadmin == crowned /\ ~raced => Cardinality(Supers) = 1
=============================================================================
