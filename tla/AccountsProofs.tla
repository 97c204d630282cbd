--------------------------- MODULE AccountsProofs ---------------------------
(***************************************************************************)
(* Proofs about Accounts, for any requests and any number of accounts: a   *)
(* superadmin stays the only one.  What keeps it so is that a request goes *)
(* by the account it has read, and that a role, once given, ends only with *)
(* its account: whoever acts as a superadmin is the one there is.          *)
(***************************************************************************)
EXTENDS Accounts, FiniteSetTheorems, TLAPS

\* Nobody has registered yet, or exactly one first registration has come through;
\* a request that acts as a superadmin is one of that account.
Untouched == \A u \in Ids : user[u] = "never"

BeforeFirst == ~crowned =>
    /\ Untouched
    /\ \A r \in Requests : request[r].at \in {"idle", "recount", "crown"}

OneCrowning == ~raced =>
    /\ \A q, r \in Requests : At(q, "crown") /\ At(r, "crown") => q = r
    /\ crowned => \A r \in Requests : ~At(r, "crown")

Sole(s) ==
    /\ Supers = {s}
    /\ \A r \in Requests : Inside(r, {"superadmin"}) => request[r].id = s

SoleSuper == crowned /\ ~raced => \E s \in Ids : Sole(s)

IInv == TypeOK /\ BeforeFirst /\ OneCrowning /\ SoleSuper

\* The initial states satisfy the invariant.
LEMMA Initially == Init => IInv
<1> SUFFICES ASSUME Init PROVE IInv
  OBVIOUS
<1>1. TypeOK
  BY DEF Init, TypeOK, Resting, Steps, Roles
<1>2. BeforeFirst /\ OneCrowning /\ SoleSuper
  BY DEF Init, BeforeFirst, OneCrowning, SoleSuper, Untouched, Resting, At
<1> QED
  BY <1>1, <1>2 DEF IInv

\* A new account keeps the types, and adds nobody but itself to the superadmins.
LEMMA Insertion ==
  ASSUME MaxUsers \in Nat, TypeOK, NEW role \in Roles, Inserted(role)
  PROVE  /\ user' \in [Ids -> Roles \cup {"never", "gone"}]
         /\ \A u, v \in Ids : u < v /\ user'[u] = "never" => user'[v] = "never"
         /\ role # "superadmin" => Supers' = Supers
         /\ role = "superadmin" => \E s \in Ids : Supers' = Supers \cup {s}
<1>1. PICK n \in Ids : IsNext(n) /\ user' = [user EXCEPT ![n] = role]
  BY DEF Inserted
<1>2. user' \in [Ids -> Roles \cup {"never", "gone"}]
  BY <1>1 DEF TypeOK
<1>3. \A u, v \in Ids : u < v /\ user'[u] = "never" => user'[v] = "never"
  <2> SUFFICES ASSUME NEW u \in Ids, NEW v \in Ids, u < v, user'[u] = "never"
               PROVE  user'[v] = "never"
    OBVIOUS
  <2>1. u # n /\ user[u] = "never"
    BY <1>1 DEF TypeOK, Roles
  <2>2. v # n
    BY <1>1, <2>1 DEF Ids, IsNext
  <2>3. user[v] = "never"
    BY <2>1 DEF TypeOK
  <2> QED
    BY <1>1, <2>2, <2>3 DEF TypeOK
<1>4. \A u \in Ids : u \in Supers' <=> u \in Supers \/ (u = n /\ role = "superadmin")
  BY <1>1 DEF Supers, Users, Roles, TypeOK, IsNext
<1>5. Supers \subseteq Ids /\ Supers' \subseteq Ids
  BY DEF Supers, Users
<1> QED
  <2>1. role # "superadmin" => Supers' = Supers
    BY <1>4, <1>5
  <2>2. Supers' = Supers \cup {n} \/ role # "superadmin"
    BY <1>4, <1>5
  <2> QED
    BY <1>2, <1>3, <2>1, <2>2

\* What a request turns into is seen by that request alone.
LEMMA Becoming ==
  ASSUME TypeOK, NEW r \in Requests,
         NEW q \in [at : Steps, id : Ids \cup {0}, role : Roles, seen : BOOLEAN],
         Become(r, q)
  PROVE  /\ request' \in [Requests -> [at : Steps, id : Ids \cup {0}, role : Roles, seen : BOOLEAN]]
         /\ request'[r] = q
         /\ \A p \in Requests \ {r} : request'[p] = request[p]
BY DEF TypeOK, Become

\* Resting, and a request that has only gone on, are of the type.
LEMMA Turns ==
  ASSUME TypeOK, NEW r \in Requests
  PROVE  /\ Resting \in [at : Steps, id : Ids \cup {0}, role : Roles, seen : BOOLEAN]
         /\ \A s \in Steps : [request[r] EXCEPT !.at = s]
              \in [at : Steps, id : Ids \cup {0}, role : Roles, seen : BOOLEAN]
BY DEF TypeOK, Resting, Steps, Roles

\* A request that ends.
LEMMA Ending ==
  ASSUME TypeOK, NEW r \in Requests, End(r)
  PROVE  /\ request' \in [Requests -> [at : Steps, id : Ids \cup {0}, role : Roles, seen : BOOLEAN]]
         /\ request'[r] = Resting
         /\ \A p \in Requests \ {r} : request'[p] = request[p]
BY Turns, Becoming DEF End

\* A request that goes on to the step s.
LEMMA Going ==
  ASSUME TypeOK, NEW r \in Requests, NEW s \in Steps, Goto(r, s)
  PROVE  /\ request' \in [Requests -> [at : Steps, id : Ids \cup {0}, role : Roles, seen : BOOLEAN]]
         /\ request'[r].at = s /\ request'[r].id = request[r].id /\ request'[r].role = request[r].role
         /\ \A p \in Requests \ {r} : request'[p] = request[p]
<1>1. request'[r] = [request[r] EXCEPT !.at = s]
  BY Turns, Becoming DEF Goto
<1>2. request[r] \in [at : Steps, id : Ids \cup {0}, role : Roles, seen : BOOLEAN]
  BY DEF TypeOK
<1> QED
  BY <1>1, <1>2, Turns, Becoming DEF Goto

\* Every step keeps the types.
LEMMA TypesKept ==
  ASSUME MaxUsers \in Nat, TypeOK, NEW r \in Requests, Request(r)
  PROVE  TypeOK'
<1> USE DEF Steps
<1>1. CASE RegisterCounts(r)
  BY <1>1, Going DEF RegisterCounts, TypeOK
<1>2. CASE RegisterLooks(r)
  BY <1>2, Going, Ending DEF RegisterLooks, TypeOK
<1>3. CASE RegisterUser(r)
  <2>1. "kelas" \in Roles
    BY DEF Roles
  <2> QED
    BY <1>3, <2>1, Ending, Insertion DEF RegisterUser, TypeOK
<1>4. CASE Recount(r)
  BY <1>4, Going, Ending DEF Recount, TypeOK
<1>5. CASE RegisterFirstUser(r)
  <2>1. "superadmin" \in Roles
    BY DEF Roles
  <2> QED
    BY <1>5, <2>1, Going, Insertion DEF RegisterFirstUser, TypeOK
<1>6. CASE CloseRegistration(r)
  BY <1>6, Ending DEF CloseRegistration, SetRegistrationOpen, TypeOK
<1>7. CASE RequireAuth(r)
  <2>1. PICK u \in Users :
          Become(r, [Resting EXCEPT !.at = "inside", !.id = u, !.role = user[u]])
    BY <1>7 DEF RequireAuth
  <2>2. [Resting EXCEPT !.at = "inside", !.id = u, !.role = user[u]]
          \in [at : Steps, id : Ids \cup {0}, role : Roles, seen : BOOLEAN]
    BY DEF Users, Resting
  <2> QED
    BY <1>7, <2>1, <2>2, Becoming DEF RequireAuth, TypeOK
<1>8. CASE Leave(r)
  BY <1>8, Ending DEF Leave, TypeOK
<1>9. CASE CreateUser(r)
  <2>1. PICK role \in Roles : Inserted(role)
    BY <1>9 DEF CreateUser, GivenRole, Roles
  <2> QED
    BY <1>9, <2>1, Ending, Insertion DEF CreateUser, TypeOK
<1>10. CASE DeleteUser(r)
  <2>1. PICK u \in Users : user' = [user EXCEPT ![u] = "gone"]
    BY <1>10 DEF DeleteUser
  <2>2. user[u] # "never"
    BY DEF Users, Roles
  <2>3. \A v, w \in Ids : v < w /\ user'[v] = "never" => user'[w] = "never"
    BY <2>1, <2>2 DEF TypeOK
  <2> QED
    BY <1>10, <2>1, <2>3, Ending DEF DeleteUser, TypeOK
<1>11. CASE ToggleReads(r)
  <2>1. [Resting EXCEPT !.at = "toggle", !.seen = open]
          \in [at : Steps, id : Ids \cup {0}, role : Roles, seen : BOOLEAN]
    BY DEF TypeOK, Resting, Roles
  <2> QED
    BY <1>11, <2>1, Becoming DEF ToggleReads, TypeOK
<1>12. CASE ToggleWrites(r)
  BY <1>12, Ending DEF ToggleWrites, SetRegistrationOpen, TypeOK
<1>13. CASE SaveSettings(r)
  BY <1>13, Ending DEF SaveSettings, SetRegistrationOpen, TypeOK
<1> QED
  BY <1>1, <1>2, <1>3, <1>4, <1>5, <1>6, <1>7, <1>8, <1>9, <1>10, <1>11, <1>12, <1>13 DEF Request

\* Before the first account nobody but first registrations is under way.
LEMMA BeforeFirstKept ==
  ASSUME MaxUsers \in Nat, IInv, NEW r \in Requests, Request(r)
  PROVE  BeforeFirst'
<1> USE DEF Steps
<1> SUFFICES ASSUME ~crowned'
             PROVE  Untouched' /\ \A p \in Requests : request'[p].at \in {"idle", "recount", "crown"}
  BY DEF BeforeFirst
<1>1. ~crowned
  BY DEF Request, RegisterCounts, RegisterLooks, RegisterUser, Recount, RegisterFirstUser,
         CloseRegistration, RequireAuth, Leave, CreateUser, DeleteUser, ToggleReads,
         ToggleWrites, SaveSettings, IInv, TypeOK
<1>2. /\ TypeOK /\ Untouched /\ Users = {}
      /\ \A p \in Requests : request[p].at \in {"idle", "recount", "crown"}
  BY <1>1 DEF IInv, BeforeFirst, Untouched, Users, Roles
<1>3. RegisterCounts(r) \/ Recount(r) \/ RegisterFirstUser(r) \/ Leave(r)
  BY <1>2 DEF Request, RegisterLooks, RegisterUser, CloseRegistration, RequireAuth,
              CreateUser, DeleteUser, ToggleReads, ToggleWrites, SaveSettings, At, Inside
<1>4. CASE RegisterCounts(r)
  BY <1>2, <1>4, Going DEF RegisterCounts, Untouched
<1>5. CASE Recount(r)
  BY <1>2, <1>5, Going DEF Recount, Untouched
<1>6. CASE RegisterFirstUser(r)
  BY <1>6 DEF RegisterFirstUser
<1>7. CASE Leave(r)
  BY <1>2, <1>7, Ending DEF Leave, Untouched, Resting
<1> QED
  BY <1>3, <1>4, <1>5, <1>6, <1>7

\* A step of a request is seen by that request alone.
LEMMA OthersKept ==
  ASSUME TypeOK, NEW r \in Requests, Request(r)
  PROVE  \A p \in Requests \ {r} : request'[p] = request[p]
<1>1. CASE RequireAuth(r)
  BY <1>1 DEF RequireAuth, Become, TypeOK
<1>2. CASE ~RequireAuth(r)
  BY <1>2 DEF Request, RegisterCounts, RegisterLooks, RegisterUser, Recount,
     RegisterFirstUser, CloseRegistration, Leave, CreateUser, DeleteUser, ToggleReads,
     ToggleWrites, SaveSettings, SetRegistrationOpen, End, Goto, Become, TypeOK
<1> QED
  BY <1>1, <1>2

\* Only RequireAuth leads inside, and only a second count that finds nobody to the crown.
LEMMA Arrivals ==
  ASSUME TypeOK, NEW r \in Requests, Request(r)
  PROVE  /\ RequireAuth(r) \/ request'[r].at # "inside"
         /\ (Recount(r) /\ Users = {}) \/ request'[r].at # "crown"
<1> USE DEF Steps
<1>1. CASE RegisterCounts(r)
  BY <1>1, Going DEF RegisterCounts
<1>2. CASE RegisterLooks(r)
  BY <1>2, Going, Ending DEF RegisterLooks, Resting
<1>3. CASE Recount(r)
  BY <1>3, Going, Ending DEF Recount, Resting
<1>4. CASE RegisterFirstUser(r)
  BY <1>4, Going, Ending DEF RegisterFirstUser, Resting
<1>5. CASE RequireAuth(r)
  <2>1. PICK u \in Users :
          Become(r, [Resting EXCEPT !.at = "inside", !.id = u, !.role = user[u]])
    BY <1>5 DEF RequireAuth
  <2> QED
    BY <1>5, <2>1 DEF Become, Resting, TypeOK
<1>6. CASE ToggleReads(r)
  <2>1. Become(r, [Resting EXCEPT !.at = "toggle", !.seen = open])
    BY <1>6 DEF ToggleReads
  <2> QED
    BY <2>1 DEF Become, Resting, TypeOK
<1>7. CASE End(r)
  BY <1>7, Ending DEF Resting
<1> QED
  BY <1>1, <1>2, <1>3, <1>4, <1>5, <1>6, <1>7 DEF Request, RegisterUser, CloseRegistration,
     Leave, CreateUser, DeleteUser, ToggleWrites, SaveSettings, SetRegistrationOpen

\* Unless two of them overlap, one first registration at most is past its count,
\* and none once an account is there.
LEMMA OneCrowningKept ==
  ASSUME MaxUsers \in Nat, IInv, NEW r \in Requests, Request(r)
  PROVE  OneCrowning'
<1> USE DEF Steps
<1> SUFFICES ASSUME ~raced'
             PROVE  /\ \A p, q \in Requests : At(p, "crown")' /\ At(q, "crown")' => p = q
                    /\ crowned' => \A p \in Requests : ~At(p, "crown")'
  BY DEF OneCrowning
<1>1. TypeOK /\ ~raced /\ raced \in BOOLEAN
  BY DEF Request, RegisterCounts, RegisterLooks, RegisterUser, Recount, RegisterFirstUser,
         CloseRegistration, RequireAuth, Leave, CreateUser, DeleteUser, ToggleReads,
         ToggleWrites, SaveSettings, IInv, TypeOK
<1>2. /\ \A p, q \in Requests : At(p, "crown") /\ At(q, "crown") => p = q
      /\ crowned => \A p \in Requests : ~At(p, "crown")
  BY <1>1 DEF IInv, OneCrowning
<1>3. CASE Recount(r) /\ Users = {} /\ Goto(r, "crown")
  <2>1. \A p \in Requests \ {r} : ~At(p, "crown")
    BY <1>3 DEF Recount
  <2>2. ~crowned /\ crowned' = crowned
    BY <1>1, <1>3 DEF Recount, IInv, SoleSuper, Sole, Supers
  <2> QED
    BY <1>1, <1>3, <2>1, <2>2, Going DEF At
<1>4. CASE RegisterFirstUser(r)
  <2>1. \A p \in Requests \ {r} : ~At(p, "crown")
    BY <1>2, <1>4 DEF RegisterFirstUser
  <2>2. \A p \in Requests : ~At(p, "crown")'
    BY <1>1, <1>4, <2>1, Going, Ending DEF RegisterFirstUser, At, Resting
  <2> QED
    BY <2>2
<1>5. ASSUME ~(Recount(r) /\ Users = {}), ~RegisterFirstUser(r)
      PROVE  \A p \in Requests : At(p, "crown")' => At(p, "crown")
  <2>1. request' \in [Requests -> [at : Steps, id : Ids \cup {0}, role : Roles, seen : BOOLEAN]]
    BY <1>1, TypesKept DEF TypeOK
  <2>2. \A p \in Requests \ {r} : request'[p] = request[p]
    BY <1>1, OthersKept
  <2>3. request'[r].at # "crown"
    BY <1>1, <1>5, Arrivals
  <2> QED
    BY <2>2, <2>3 DEF At
<1>6. ~RegisterFirstUser(r) => crowned' = crowned
  BY DEF Request, RegisterCounts, RegisterLooks, RegisterUser, Recount,
         CloseRegistration, RequireAuth, Leave, CreateUser, DeleteUser, ToggleReads,
         ToggleWrites, SaveSettings
<1> QED
  BY <1>2, <1>3, <1>4, <1>5, <1>6 DEF Recount

\* Once there is a superadmin, it stays, stays alone, and is whoever acts as one.
LEMMA SoleSuperKept ==
  ASSUME MaxUsers \in Nat, IInv, NEW r \in Requests, Request(r)
  PROVE  SoleSuper'
<1> USE DEF Steps
<1> SUFFICES ASSUME crowned', ~raced' PROVE \E s \in Ids : Sole(s)'
  BY DEF SoleSuper
<1>1. TypeOK /\ ~raced
  BY DEF Request, RegisterCounts, RegisterLooks, RegisterUser, Recount, RegisterFirstUser,
         CloseRegistration, RequireAuth, Leave, CreateUser, DeleteUser, ToggleReads,
         ToggleWrites, SaveSettings, IInv, TypeOK
<1>2. CASE ~crowned
  <2>1. /\ RegisterFirstUser(r) /\ Untouched
        /\ \A p \in Requests : request[p].at \in {"idle", "recount", "crown"}
    BY <1>2 DEF Request, RegisterCounts, RegisterLooks, RegisterUser, Recount,
         CloseRegistration, RequireAuth, Leave, CreateUser, DeleteUser, ToggleReads,
         ToggleWrites, SaveSettings, IInv, BeforeFirst
  <2>2. Supers = {} /\ Users = {}
    BY <2>1 DEF Untouched, Users, Supers, Roles
  <2>3. Inserted("superadmin") /\ Goto(r, "close")
    BY <2>1, <2>2 DEF RegisterFirstUser
  <2>4. PICK s \in Ids : Supers' = {s}
    BY <1>1, <2>2, <2>3, Insertion DEF Roles
  <2>5. \A p \in Requests : request'[p].at # "inside"
    BY <1>1, <2>1, <2>3, Going
  <2> QED
    BY <2>4, <2>5 DEF Sole, Inside, At
<1>3. CASE crowned
  <2>1. PICK s \in Ids : Sole(s)
    BY <1>1, <1>3 DEF IInv, SoleSuper
  <2>2. s \in Users
    BY <2>1 DEF Sole, Supers
  <2>3. Supers' = {s}
    <3>1. CASE RegisterUser(r)
      BY <1>1, <2>1, <3>1, Insertion DEF RegisterUser, Sole, Supers, Users, Roles
    <3>2. CASE CreateUser(r)
      <4>1. PICK role \in Roles : role # "superadmin" /\ Inserted(role)
        BY <3>2 DEF CreateUser, GivenRole, Roles
      <4> QED
        BY <1>1, <2>1, <4>1, Insertion DEF Sole
    <3>3. CASE DeleteUser(r)
      <4>1. PICK u \in Users : u # s /\ user' = [user EXCEPT ![u] = "gone"]
        BY <2>1, <3>3 DEF DeleteUser, MayDelete, Sole
      <4> QED
        BY <1>1, <2>1, <4>1 DEF Sole, Supers, Users, Roles, TypeOK
    <3>4. ~RegisterFirstUser(r)
      BY <1>1, <1>3 DEF IInv, OneCrowning, RegisterFirstUser
    <3>5. CASE UNCHANGED user
      BY <2>1, <3>5 DEF Sole, Supers, Users
    <3> QED
      BY <3>1, <3>2, <3>3, <3>4, <3>5 DEF Request, RegisterCounts, RegisterLooks, Recount,
         CloseRegistration, RequireAuth, Leave, ToggleReads, ToggleWrites, SaveSettings
  <2>4. \A p \in Requests : Inside(p, {"superadmin"})' => request'[p].id = s
    <3>1. \A p \in Requests : Inside(p, {"superadmin"}) => request[p].id = s
      BY <2>1 DEF Sole
    <3>2. CASE RequireAuth(r)
      <4>1. PICK u \in Users :
              Become(r, [Resting EXCEPT !.at = "inside", !.id = u, !.role = user[u]])
        BY <3>2 DEF RequireAuth
      <4>2. user[u] = "superadmin" => u = s
        BY <2>1, <4>1 DEF Sole, Supers
      <4> QED
        <5>1. request'[r].role = user[u] /\ request'[r].id = u
          BY <1>1, <4>1 DEF Become, Resting, TypeOK
        <5> QED
          BY <1>1, <3>1, <4>2, <5>1, OthersKept DEF Inside, At
    <3>3. CASE ~RequireAuth(r)
      <4>1. request'[r].at # "inside"
        BY <1>1, <3>3, Arrivals
      <4> QED
        BY <1>1, <3>1, <4>1, OthersKept DEF Inside, At
    <3> QED
      BY <3>2, <3>3
  <2> QED
    BY <2>3, <2>4 DEF Sole
<1> QED
  BY <1>2, <1>3

\* The invariant holds in every behaviour, whatever the requests and the bound.
THEOREM Invariant ==
  ASSUME MaxUsers \in Nat
  PROVE  Spec => []IInv
<1>1. Init => IInv
  BY Initially
<1>2. IInv /\ [Next]_vars => IInv'
  <2> SUFFICES ASSUME IInv, [Next]_vars PROVE IInv'
    OBVIOUS
  <2>1. CASE Next
    <3>1. PICK r \in Requests : Request(r)
      BY <2>1 DEF Next
    <3>2. TypeOK' /\ BeforeFirst' /\ OneCrowning' /\ SoleSuper'
      BY <3>1, TypesKept, BeforeFirstKept, OneCrowningKept, SoleSuperKept DEF IInv
    <3> QED
      BY <3>2 DEF IInv
  <2>2. CASE UNCHANGED vars
    BY <2>2 DEF vars, IInv, TypeOK, BeforeFirst, OneCrowning, SoleSuper, Sole, Untouched,
                Supers, Users, At, Inside
  <2> QED
    BY <2>1, <2>2
<1> QED
  BY <1>1, <1>2, PTL DEF Spec

\* The types are kept.
THEOREM Types ==
  ASSUME MaxUsers \in Nat
  PROVE  Spec => []TypeOK
<1>1. IInv => TypeOK
  BY DEF IInv
<1> QED
  BY <1>1, Invariant, PTL

\* From the first registration on there is exactly one superadmin, through
\* registrations, created accounts, and deletions by requests that hold old
\* copies, unless two first registrations overlapped after their second count.
THEOREM ExactlyOneSuperadmin ==
  ASSUME MaxUsers \in Nat
  PROVE  Spec => []OneSuperadmin
<1>1. IInv => OneSuperadmin
  <2> SUFFICES ASSUME IInv, crowned, ~raced PROVE Cardinality(Supers) = 1
    BY DEF OneSuperadmin
  <2>1. PICK s \in Ids : Supers = {s}
    BY DEF IInv, SoleSuper, Sole
  <2> QED
    BY <2>1, FS_Singleton
<1> QED
  BY <1>1, Invariant, PTL
=============================================================================
