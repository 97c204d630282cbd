--------------------------- MODULE WorkspacesProofs ---------------------------
(***************************************************************************)
(* Proofs about Workspaces, for any number of accounts, workspaces and     *)
(* requests: an owner stays a member of its workspace, and the last        *)
(* workspace is kept, whatever statements fail, but where the code drops   *)
(* their errors.                                                           *)
(***************************************************************************)
EXTENDS Workspaces, FiniteSetTheorems, TLAPS

WsType == [row : {"never", "here", "gone"}, owner : 0..MaxUsers,
           mode : {"personal", "workspace_shared", "shared"}, sharer : 0..MaxUsers]

RequestType == [at : Steps, w : 0..MaxWs, u : 0..MaxUsers, sure : BOOLEAN]

----------------------------------------------------------------------------
(* The invariant.                                                          *)

\* The owner of a workspace has an account: its deletion takes them along.
Owned == \A w \in Kept : ws[w].owner \in Here

\* A creation between its two inserts is one of its creator's workspace.
Creating ==
    \A r \in Requests : At(r, "own") =>
      /\ request[r].w \in Wids /\ ws[request[r].w].row # "never"
      /\ request[r].w \in Kept => request[r].u = ws[request[r].w].owner

\* Who is about to be removed does not own the workspace, and never will: an id
\* is given out once.
Removing ==
    \A r \in Requests : At(r, "remove") =>
      /\ request[r].w \in Wids /\ request[r].u \in Users
      /\ ws[request[r].w].row # "never" /\ ws[request[r].w].owner # request[r].u

\* A deletion that has counted, and that no other has overtaken, leaves a
\* workspace behind.
Deleting ==
    \A r \in Requests : At(r, "delete") =>
      /\ request[r].w \in Wids
      /\ request[r].sure => \E v \in Kept : v # request[r].w

IInv == TypeOK /\ Owned /\ Creating /\ Removing /\ Deleting /\ OwnerStays

----------------------------------------------------------------------------
LEMMA Constants ==
  /\ MaxWs \in Nat /\ 0 \in 0..MaxWs /\ 1 \in Wids /\ \A w \in Wids : w \in 0..MaxWs
  /\ MaxUsers \in Nat /\ 0 \in 0..MaxUsers /\ \A u \in Users : u \in 0..MaxUsers
BY WorkspacesAssumption DEF Wids, Users

LEMMA Initially == Init => IInv
<1> SUFFICES ASSUME Init PROVE IInv
  OBVIOUS
<1>1. NoWs \in WsType /\ Resting \in RequestType /\ Nobody \in [Users -> {"none", "admin", "member"}]
  BY Constants DEF NoWs, WsType, Resting, RequestType, Steps, Nobody
<1>2. ws \in [Wids -> WsType] /\ request \in [Requests -> RequestType]
      /\ member \in [Wids -> [Users -> {"none", "admin", "member"}]]
  BY <1>1 DEF Init
<1>3. TypeOK
  BY <1>2, Constants DEF Init, TypeOK, WsType, RequestType
<1>4. \A w \in Wids : ws[w].row = "never"
  BY DEF Init, NoWs
<1>5. \A r \in Requests : request[r].at = "idle"
  BY DEF Init, Resting
<1> QED
  BY <1>3, <1>4, <1>5
     DEF IInv, Owned, Creating, Removing, Deleting, OwnerStays, Kept, At

----------------------------------------------------------------------------
(* What one request does to the table of requests.                         *)

LEMMA RequestKept ==
  ASSUME TypeOK, NEW r \in Requests
  PROVE  /\ End(r) => request' \in [Requests -> RequestType]
         /\ \A s \in Steps : Goto(r, s) => request' \in [Requests -> RequestType]
         /\ \A s \in Steps, w \in Wids, u \in Users :
              Begin(r, s, w, u) => request' \in [Requests -> RequestType]
<1>1. Resting \in RequestType
  BY Constants DEF Resting, RequestType, Steps
<1>2. request \in [Requests -> RequestType]
  BY DEF TypeOK, RequestType
<1>3. ASSUME NEW s \in Steps, NEW w \in Wids, NEW u \in Users
      PROVE  [at |-> s, w |-> w, u |-> u, sure |-> FALSE] \in RequestType
  BY Constants DEF RequestType
<1>4. ASSUME NEW q \in RequestType, Become(r, q) PROVE request' \in [Requests -> RequestType]
  BY <1>2, <1>4 DEF Become
<1>5. ASSUME NEW s \in Steps PROVE [request[r] EXCEPT !.at = s] \in RequestType
  BY <1>2 DEF RequestType
<1> QED
  BY <1>1, <1>3, <1>4, <1>5 DEF End, Goto, Begin
\* A step after which the workspaces have the rows and the owners they had.
SameRows == \A w \in Wids : ws'[w].row = ws[w].row /\ ws'[w].owner = ws[w].owner

\* A request goes on to something that the invariant does not speak of; the rest
\* of a creation has made its owner a member.
Leaves(r) ==
    /\ request'[r].at \notin {"own", "remove", "delete"}
    /\ LET w == request[r].w IN
       At(r, "own") /\ w \in Kept \ orphaned' => member'[w][ws[w].owner] # "none"

\* A workspace that is no orphan any more has its owner as a member.
Adopted == \A w \in Kept \ orphaned' : w \in orphaned => member'[w][ws[w].owner] # "none"

\* Nothing happens to a row, and every owner that was a member is still one.
LEMMA CalmKept ==
  ASSUME IInv, TypeOK', SameRows, Here \subseteq Here', Adopted,
         \A w \in Kept : member[w][ws[w].owner] # "none" => member'[w][ws[w].owner] # "none",
         \A r \in Requests : request'[r] = request[r] \/ Leaves(r)
  PROVE  IInv'
<1>1. Kept' = Kept
  BY DEF Kept, SameRows
<1>2. \A w \in Kept : w \in Wids /\ ws'[w].owner = ws[w].owner
  BY DEF Kept, SameRows
<1>3. Owned'
  BY <1>1, <1>2 DEF IInv, Owned
<1>4. Creating'
  BY <1>1, <1>2 DEF IInv, Creating, At, Leaves, SameRows
<1>5. Removing'
  BY <1>1, <1>2 DEF IInv, Removing, At, Leaves, SameRows
<1>6. Deleting'
  BY <1>1, <1>2 DEF IInv, Deleting, At, Leaves
<1>7. OwnerStays'
  <2> SUFFICES ASSUME NEW w \in Kept, w \notin orphaned'
               PROVE  \/ member'[w][ws[w].owner] # "none"
                      \/ \E q \in Requests : request'[q].at = "own" /\ request'[q].w = w
    BY <1>1, <1>2 DEF OwnerStays, At
  <2>1. CASE member[w][ws[w].owner] # "none" \/ w \in orphaned
    BY <2>1 DEF Adopted
  <2>2. CASE \E q \in Requests : At(q, "own") /\ request[q].w = w
    BY <2>2 DEF At, Leaves
  <2> QED
    BY <2>1, <2>2 DEF IInv, OwnerStays
<1> QED
  BY <1>3, <1>4, <1>5, <1>6, <1>7 DEF IInv

----------------------------------------------------------------------------
(* The active workspace.                                                   *)

LEMMA ActiveKept ==
  ASSUME IInv, NEW r \in Requests,
         SwitchWorkspace(r) \/ GetActiveWorkspace(r) \/ SetActiveWorkspace(r) \/ Fails(r)
  PROVE  IInv'
<1>1. TypeOK /\ SameRows /\ Here' = Here /\ UNCHANGED <<account, ws, member, orphaned>>
  BY DEF IInv, SameRows, Here, SwitchWorkspace, GetActiveWorkspace, SetActiveWorkspace, Fails
<1>2. /\ request' \in [Requests -> RequestType]
      /\ ~At(r, "own") /\ request'[r].at \in {"activate", "idle"}
      /\ \A q \in Requests \ {r} : request'[q] = request[q]
  <2>1. CASE SwitchWorkspace(r) \/ GetActiveWorkspace(r)
    <3>1. PICK w \in Wids, u \in Users : Begin(r, "activate", w, u)
      BY <2>1 DEF SwitchWorkspace, GetActiveWorkspace, Here
    <3>2. request' \in [Requests -> RequestType]
      BY <1>1, <3>1, RequestKept DEF Steps
    <3> QED
      BY <1>1, <3>1, <3>2 DEF TypeOK, Begin, Become, At
  <2>2. CASE SetActiveWorkspace(r) \/ Fails(r)
    <3>1. request' \in [Requests -> RequestType]
      BY <1>1, <2>2, RequestKept DEF SetActiveWorkspace, Fails
    <3> QED
      BY <1>1, <2>2, <3>1 DEF SetActiveWorkspace, Fails, End, Become, Resting, At, TypeOK
  <2> QED
    BY <2>1, <2>2
<1>3. active' \in [Users -> 0..MaxWs]
  BY <1>1 DEF SwitchWorkspace, GetActiveWorkspace, SetActiveWorkspace, Fails, TypeOK
<1>4. TypeOK'
  BY <1>1, <1>2, <1>3 DEF TypeOK, RequestType
<1> QED
  BY <1>1, <1>2, <1>4, CalmKept DEF Leaves, Adopted

----------------------------------------------------------------------------
(* Members.                                                                *)

Members == [Wids -> [Users -> {"none", "admin", "member"}]]

\* A member row takes nobody out of a workspace.
LEMMA JoinedKept ==
  ASSUME TypeOK, NEW w, NEW u, NEW role \in {"admin", "member"}, Joined(w, u, role)
  PROVE  /\ member' \in Members
         /\ \A v \in Wids, x \in Users : member[v][x] # "none" => member'[v][x] # "none"
         /\ w \in Kept /\ u \in Here => member'[w][u] # "none"
         /\ Adopted /\ orphaned' \subseteq Wids
<1>1. member \in Members /\ orphaned \subseteq Wids
  BY DEF TypeOK, Members
<1>2. CASE w \in Kept /\ u \in Here
  <2>1. /\ member' \in Members /\ member'[w][u] # "none"
        /\ \A v \in Wids, x \in Users : member[v][x] # "none" => member'[v][x] # "none"
    BY <1>1, <1>2 DEF Joined, Members, Kept, Here
  <2>2. orphaned' = IF ws[w].owner = u THEN orphaned \ {w} ELSE orphaned
    BY <1>2 DEF Joined
  <2> QED
    BY <1>1, <2>1, <2>2 DEF Adopted
<1>3. CASE ~(w \in Kept /\ u \in Here)
  BY <1>1, <1>3 DEF Joined, Adopted
<1> QED
  BY <1>2, <1>3

LEMMA CreateOwnerKept ==
  ASSUME IInv, NEW r \in Requests, CreateOwner(r)
  PROVE  IInv'
<1> DEFINE w == request[r].w
           u == request[r].u
<1>1. TypeOK /\ SameRows /\ Here' = Here /\ UNCHANGED <<account, ws, active>>
  BY DEF IInv, SameRows, Here, CreateOwner
<1>2. /\ member' \in Members /\ Adopted /\ orphaned' \subseteq Wids
      /\ \A v \in Wids, x \in Users : member[v][x] # "none" => member'[v][x] # "none"
      /\ w \in Kept \ orphaned' => member'[w][ws[w].owner] # "none"
  <2>1. /\ w \in Wids
        /\ w \in Kept => u = ws[w].owner /\ u \in Here
    BY DEF CreateOwner, IInv, Creating, Owned
  <2>2. CASE Joined(w, u, "member")
    BY <1>1, <2>1, <2>2, JoinedKept
  <2>3. CASE orphaned' = orphaned \cup {w} /\ UNCHANGED member
    BY <1>1, <2>1, <2>3 DEF TypeOK, Members, Adopted
  <2>4. CASE member[w][u] # "none" /\ UNCHANGED <<member, orphaned>>
    BY <1>1, <2>1, <2>4 DEF TypeOK, Members, Adopted
  <2> QED
    BY <2>2, <2>3, <2>4 DEF CreateOwner
<1>3. /\ request' \in [Requests -> RequestType]
      /\ request'[r].at = "activate"
      /\ \A q \in Requests \ {r} : request'[q] = request[q]
  <2>1. request' \in [Requests -> RequestType]
    BY <1>1, RequestKept DEF CreateOwner, Steps
  <2> QED
    BY <1>1, <2>1 DEF CreateOwner, Goto, Become, TypeOK
<1>4. TypeOK'
  BY <1>1, <1>2, <1>3 DEF TypeOK, RequestType, Members
<1>5. \A v \in Kept : v \in Wids /\ ws[v].owner \in Users
  BY DEF IInv, Owned, Kept, Here
<1> QED
  BY <1>1, <1>2, <1>3, <1>4, <1>5, CalmKept DEF Leaves

LEMMA MemberStepsKept ==
  ASSUME IInv, NEW r \in Requests,
         AddWorkspaceMember(r) \/ RemoveWorkspaceMember(r) \/ FindDefault(r) \/ JoinDefault(r)
  PROVE  IInv'
<1>1. TypeOK /\ SameRows /\ Here' = Here /\ UNCHANGED <<account, ws, active>>
  BY DEF IInv, SameRows, Here, AddWorkspaceMember, RemoveWorkspaceMember, FindDefault, JoinDefault
<1>2. /\ member' \in Members /\ Adopted /\ orphaned' \subseteq Wids
      /\ \A v \in Kept : member[v][ws[v].owner] # "none" => member'[v][ws[v].owner] # "none"
  <2>0. \A v \in Kept : v \in Wids /\ ws[v].owner \in Users
    BY DEF IInv, Owned, Kept, Here
  <2>1. CASE AddWorkspaceMember(r)
    <3>1. PICK w \in Wids, u \in Here, role \in SentRoles : Joined(w, u, role)
      BY <2>1 DEF AddWorkspaceMember
    <3>2. role \in {"admin", "member"}
      BY <3>1, WorkspacesAssumption
    <3> QED
      BY <1>1, <2>0, <3>1, <3>2, JoinedKept
  <2>2. CASE RemoveWorkspaceMember(r)
    <3>1. /\ request[r].w \in Wids /\ request[r].u \in Users
          /\ ws[request[r].w].owner # request[r].u
      BY <2>2 DEF RemoveWorkspaceMember, IInv, Removing
    <3>2. member' = [member EXCEPT ![request[r].w][request[r].u] = "none"]
      BY <2>2 DEF RemoveWorkspaceMember
    <3> QED
      BY <1>1, <2>0, <2>2, <3>1, <3>2 DEF RemoveWorkspaceMember, TypeOK, Members, Adopted
  <2>3. CASE UNCHANGED <<member, orphaned>>
    BY <1>1, <2>3 DEF TypeOK, Members, Adopted
  <2>4. CASE Joined(1, request[r].u, "member")
    BY <1>1, <2>0, <2>4, JoinedKept
  <2> QED
    BY <2>1, <2>2, <2>3, <2>4 DEF FindDefault, JoinDefault
<1>3. /\ request' \in [Requests -> RequestType]
      /\ ~At(r, "own") /\ request'[r].at \in {"idle", "join", "activate"}
      /\ \A q \in Requests \ {r} : request'[q] = request[q]
  <2>1. CASE AddWorkspaceMember(r)
    BY <1>1, <2>1 DEF AddWorkspaceMember, TypeOK, RequestType, At
  <2>2. CASE End(r)
    <3>1. request' \in [Requests -> RequestType]
      BY <1>1, <2>2, RequestKept
    <3> QED
      BY <1>1, <2>2, <3>1 DEF AddWorkspaceMember, RemoveWorkspaceMember, FindDefault, JoinDefault,
                              End, Become, Resting, At, TypeOK
  <2>3. CASE Goto(r, "join") \/ Goto(r, "activate")
    <3>1. request' \in [Requests -> RequestType]
      BY <1>1, <2>3, RequestKept DEF Steps
    <3> QED
      BY <1>1, <2>3, <3>1 DEF AddWorkspaceMember, RemoveWorkspaceMember, FindDefault, JoinDefault,
                              Goto, Become, At, TypeOK
  <2> QED
    BY <2>1, <2>2, <2>3 DEF RemoveWorkspaceMember, FindDefault, JoinDefault
<1>4. TypeOK'
  BY <1>1, <1>2, <1>3 DEF TypeOK, RequestType, Members
<1> QED
  BY <1>1, <1>2, <1>3, <1>4, CalmKept DEF Leaves
LEMMA UpdateKept ==
  ASSUME IInv, NEW r \in Requests, UpdateWorkspace(r)
  PROVE  IInv'
<1>1. TypeOK /\ Here' = Here /\ UNCHANGED <<account, member, active, request, orphaned>>
  BY DEF IInv, Here, UpdateWorkspace
<1>2. SameRows /\ ws' \in [Wids -> WsType]
  <2>1. PICK u \in Here, w \in Kept, mode \in Modes :
          ws' = IF mode = "personal"
                THEN [ws EXCEPT ![w].mode = "personal", ![w].sharer = 0]
                ELSE [ws EXCEPT ![w].mode = "shared", ![w].sharer = u]
    BY DEF UpdateWorkspace
  <2>2. ws \in [Wids -> WsType] /\ w \in Wids /\ u \in 0..MaxUsers /\ 0 \in 0..MaxUsers
    BY <1>1, Constants DEF TypeOK, WsType, Kept, Here
  <2>3. CASE mode = "personal"
    <3>1. ws' = [ws EXCEPT ![w].mode = "personal", ![w].sharer = 0]
      BY <2>1, <2>3
    <3> QED
      BY <2>2, <3>1 DEF SameRows, WsType
  <2>4. CASE mode # "personal"
    <3>1. ws' = [ws EXCEPT ![w].mode = "shared", ![w].sharer = u]
      BY <2>1, <2>4
    <3> QED
      BY <2>2, <3>1 DEF SameRows, WsType
  <2> QED
    BY <2>3, <2>4
<1>3. TypeOK'
  BY <1>1, <1>2 DEF TypeOK, WsType
<1> QED
  BY <1>1, <1>2, <1>3, CalmKept DEF Adopted

----------------------------------------------------------------------------
(* Creating and deleting.                                                  *)

\* What a request begins with.
LEMMA BeginsKept ==
  ASSUME TypeOK, NEW r \in Requests, NEW s \in Steps, NEW w \in Wids, NEW u \in Users,
         Begin(r, s, w, u)
  PROVE  /\ request' \in [Requests -> RequestType]
         /\ At(r, "idle") /\ request'[r] = [at |-> s, w |-> w, u |-> u, sure |-> FALSE]
         /\ \A q \in Requests \ {r} : request'[q] = request[q]
<1>1. request' \in [Requests -> RequestType]
  BY RequestKept
<1> QED
  BY <1>1 DEF TypeOK, Begin, Become

LEMMA RegisterKept ==
  ASSUME IInv, NEW r \in Requests, RegisterUser(r)
  PROVE  IInv'
<1>1. TypeOK /\ SameRows /\ UNCHANGED <<ws, member, active, orphaned>>
  BY DEF IInv, SameRows, RegisterUser
<1>2. PICK u \in Users :
        /\ account' = [account EXCEPT ![u] = "here"]
        /\ IF Here # {} THEN Begin(r, "welcome", 1, u) ELSE At(r, "idle") /\ UNCHANGED request
  BY DEF RegisterUser
<1>3. Here \subseteq Here' /\ account' \in [Users -> {"never", "here", "gone"}]
  BY <1>1, <1>2 DEF TypeOK, Here
<1>4. /\ request' \in [Requests -> RequestType]
      /\ ~At(r, "own") /\ request'[r].at \in {"idle", "welcome"}
      /\ \A q \in Requests \ {r} : request'[q] = request[q]
  <2>1. CASE Begin(r, "welcome", 1, u)
    <3>1. 1 \in Wids /\ "welcome" \in Steps
      BY Constants DEF Steps
    <3>2. /\ request' \in [Requests -> RequestType]
          /\ At(r, "idle") /\ request'[r] = [at |-> "welcome", w |-> 1, u |-> u, sure |-> FALSE]
          /\ \A q \in Requests \ {r} : request'[q] = request[q]
      BY <1>1, <1>2, <2>1, <3>1, BeginsKept
    <3> QED
      BY <3>2 DEF At
  <2>2. CASE At(r, "idle") /\ UNCHANGED request
    BY <1>1, <2>2 DEF TypeOK, RequestType, At
  <2> QED
    BY <1>2, <2>1, <2>2
<1>5. TypeOK'
  BY <1>1, <1>3, <1>4 DEF TypeOK, RequestType
<1> QED
  BY <1>1, <1>3, <1>4, <1>5, CalmKept DEF Leaves, Adopted

LEMMA CreateKept ==
  ASSUME IInv, NEW r \in Requests, CreateWorkspace(r)
  PROVE  IInv'
<1>1. TypeOK /\ Here' = Here /\ UNCHANGED <<account, member, active, orphaned>>
  BY DEF IInv, Here, CreateWorkspace
<1>2. PICK w \in Wids, by \in Here, mode \in Modes \ {"shared"} :
        /\ NewWs(w)
        /\ ws' = [ws EXCEPT ![w] = [row |-> "here", owner |-> by, mode |-> mode,
                                    sharer |-> IF mode = "personal" THEN 0 ELSE by]]
        /\ Begin(r, "own", w, by)
  BY DEF CreateWorkspace
<1>3. /\ request' \in [Requests -> RequestType]
      /\ At(r, "idle") /\ request'[r] = [at |-> "own", w |-> w, u |-> by, sure |-> FALSE]
      /\ \A q \in Requests \ {r} : request'[q] = request[q]
  BY <1>1, <1>2, BeginsKept DEF Steps, Here
<1>4. /\ ws' \in [Wids -> WsType] /\ ws'[w].row = "here" /\ ws'[w].owner = by
      /\ \A v \in Wids \ {w} : ws'[v] = ws[v]
  <2>1. by \in 0..MaxUsers /\ 0 \in 0..MaxUsers /\ mode \in {"personal", "workspace_shared", "shared"}
    BY <1>2, Constants, WorkspacesAssumption DEF Here
  <2>2. [row |-> "here", owner |-> by, mode |-> mode,
         sharer |-> IF mode = "personal" THEN 0 ELSE by] \in WsType
    BY <2>1 DEF WsType
  <2> QED
    BY <1>1, <1>2, <2>2 DEF TypeOK, WsType
<1>5. ws[w].row = "never" /\ w \notin Kept /\ Kept' = Kept \cup {w}
  BY <1>2, <1>4 DEF NewWs, Kept
<1>6. TypeOK'
  BY <1>1, <1>3, <1>4 DEF TypeOK, RequestType, WsType
<1>7. Owned'
  BY <1>1, <1>2, <1>4, <1>5 DEF IInv, Owned, Kept
<1>8. Creating'
  BY <1>2, <1>3, <1>4, <1>5 DEF IInv, Creating, At
<1>9. Removing'
  BY <1>3, <1>4, <1>5 DEF IInv, Removing, At
<1>10. Deleting'
  BY <1>1, <1>3, <1>5 DEF IInv, Deleting, At
<1>11. OwnerStays'
  <2> SUFFICES ASSUME NEW v \in Kept', v \notin orphaned'
               PROVE  \/ member'[v][ws'[v].owner] # "none"
                      \/ \E q \in Requests : request'[q].at = "own" /\ request'[q].w = v
    BY DEF OwnerStays, At
  <2>1. CASE v = w
    BY <1>3, <2>1
  <2>2. CASE v # w
    BY <1>1, <1>3, <1>4, <1>5, <2>2 DEF IInv, OwnerStays, At, Kept
  <2> QED
    BY <2>1, <2>2
<1> QED
  BY <1>6, <1>7, <1>8, <1>9, <1>10, <1>11 DEF IInv

LEMMA CountsKept ==
  ASSUME IInv, NEW r \in Requests, DeleteCounts(r)
  PROVE  IInv'
<1>1. TypeOK /\ Here' = Here /\ Kept' = Kept /\ UNCHANGED <<account, ws, member, active, orphaned>>
  BY DEF IInv, Here, Kept, DeleteCounts
<1>2. PICK w \in Kept, by \in Here, counted \in BOOLEAN :
        /\ counted => Enough(Cardinality(Kept))
        /\ Become(r, [at |-> "delete", w |-> w, u |-> by, sure |-> counted])
  BY DEF DeleteCounts
<1>3. w \in Wids /\ by \in Users /\ w \in Kept /\ ws[w].row = "here"
  BY <1>2 DEF Kept, Here
<1>4. /\ request' \in [Requests -> RequestType]
      /\ At(r, "idle") /\ request'[r] = [at |-> "delete", w |-> w, u |-> by, sure |-> counted]
      /\ \A q \in Requests \ {r} : request'[q] = request[q]
  <2>1. [at |-> "delete", w |-> w, u |-> by, sure |-> counted] \in RequestType
    BY <1>3, Constants DEF RequestType, Steps
  <2> QED
    BY <1>1, <1>2, <2>1 DEF DeleteCounts, Become, TypeOK, RequestType
<1>5. ASSUME counted PROVE \E v \in Kept : v # w
  <2> SUFFICES ASSUME Kept \subseteq {w} PROVE FALSE
    OBVIOUS
  <2>1. IsFiniteSet({w}) /\ Cardinality({w}) = 1
    BY FS_Singleton
  <2>2. Cardinality(Kept) <= 1
    BY <2>1, FS_Subset
  <2>3. Cardinality(Kept) > 1 /\ Cardinality(Kept) \in Nat
    BY <1>2, <1>5, <2>1, FS_Subset, FS_CardinalityType DEF Enough
  <2> QED
    BY <2>2, <2>3
<1>6. TypeOK'
  BY <1>1, <1>4 DEF TypeOK, RequestType
<1>7. Owned' /\ Creating' /\ Removing'
  BY <1>1, <1>4 DEF IInv, Owned, Creating, Removing, At
<1>8. Deleting'
  BY <1>1, <1>3, <1>4, <1>5 DEF IInv, Deleting, At
<1>9. OwnerStays'
  BY <1>1, <1>4 DEF IInv, OwnerStays, At
<1> QED
  BY <1>6, <1>7, <1>8, <1>9 DEF IInv

LEMMA RemoveAsksKept ==
  ASSUME IInv, NEW r \in Requests, RemoveAsks(r)
  PROVE  IInv'
<1>1. TypeOK /\ Here' = Here /\ Kept' = Kept
      /\ UNCHANGED <<account, ws, member, active, orphaned>>
  BY DEF IInv, Here, Kept, RemoveAsks
<1>2. PICK w \in Kept, u \in Users : Removable(w, u) /\ Begin(r, "remove", w, u)
  BY DEF RemoveAsks
<1>3. w \in Wids /\ ws[w].row = "here" /\ ws[w].owner # u
  BY <1>2 DEF Kept, Removable
<1>4. /\ request' \in [Requests -> RequestType]
      /\ At(r, "idle") /\ request'[r] = [at |-> "remove", w |-> w, u |-> u, sure |-> FALSE]
      /\ \A q \in Requests \ {r} : request'[q] = request[q]
  BY <1>1, <1>2, <1>3, BeginsKept DEF Steps
<1>5. TypeOK'
  BY <1>1, <1>4 DEF TypeOK, RequestType
<1>6. Owned' /\ Creating' /\ Deleting'
  BY <1>1, <1>4 DEF IInv, Owned, Creating, Deleting, At
<1>7. Removing'
  BY <1>1, <1>2, <1>3, <1>4 DEF IInv, Removing, At
<1>8. OwnerStays'
  BY <1>1, <1>4 DEF IInv, OwnerStays, At
<1> QED
  BY <1>5, <1>6, <1>7, <1>8 DEF IInv

\* Workspaces that are deleted: their rows and members go, the others stay.
LEMMA DroppedKept ==
  ASSUME TypeOK, NEW W \in SUBSET Kept, Dropped(W)
  PROVE  /\ ws' \in [Wids -> WsType] /\ member' \in Members
         /\ Kept' = Kept \ W
         /\ \A w \in W : ws'[w].row = "gone" /\ ws'[w].owner = 0
         /\ \A w \in Wids \ W : ws'[w] = ws[w] /\ member'[w] = member[w]
<1> DEFINE N == [NoWs EXCEPT !.row = "gone"]
<1>1. N \in WsType /\ N.row = "gone" /\ N.owner = 0
      /\ Nobody \in [Users -> {"none", "admin", "member"}]
  BY Constants DEF NoWs, WsType, Nobody
<1>2. /\ ws' = [w \in Wids |-> IF w \in W THEN N ELSE ws[w]]
      /\ member' = [w \in Wids |-> IF w \in W THEN Nobody ELSE member[w]]
  BY DEF Dropped
<1>3. ws \in [Wids -> WsType] /\ member \in Members /\ W \subseteq Wids
  BY DEF TypeOK, WsType, Members, Kept
<1> HIDE DEF N
<1> QED
  BY <1>1, <1>2, <1>3 DEF Kept, Members

\* An overtaken deletion goes on, less sure.
LEMMA OvertakenKept ==
  ASSUME TypeOK, NEW q \in Requests, NEW W
  PROVE  /\ Overtaken(q, W) \in RequestType
         /\ Overtaken(q, W).at = request[q].at
         /\ Overtaken(q, W).w = request[q].w /\ Overtaken(q, W).u = request[q].u
         /\ Overtaken(q, W).sure => request[q].sure /\ W = {}
<1>1. request[q] \in RequestType
  BY DEF TypeOK, RequestType
<1>2. (request[q].sure /\ W = {}) \in BOOLEAN
  OBVIOUS
<1> QED
  BY <1>1, <1>2 DEF Overtaken, RequestType

LEMMA DeleteKept ==
  ASSUME IInv, NEW r \in Requests, DeleteWorkspace(r)
  PROVE  IInv'
<1> DEFINE W == {request[r].w} \cap Kept
<1>1. TypeOK /\ Here' = Here /\ UNCHANGED <<account, active, orphaned>>
      /\ At(r, "delete") /\ request[r].w \in Wids
  BY DEF IInv, Here, DeleteWorkspace, Deleting
<1>2. /\ ws' \in [Wids -> WsType] /\ member' \in Members /\ Kept' = Kept \ W
      /\ \A w \in W : ws'[w].row = "gone" /\ ws'[w].owner = 0
      /\ \A w \in Wids \ W : ws'[w] = ws[w] /\ member'[w] = member[w]
  BY <1>1, DroppedKept DEF DeleteWorkspace
<1>3. W \subseteq Wids /\ \A w \in W : ws[w].row = "here" /\ w = request[r].w
  BY DEF Kept
<1>4. /\ request' \in [Requests -> RequestType] /\ request'[r].at = "activate"
      /\ \A q \in Requests \ {r} :
           /\ request'[q].at = request[q].at
           /\ request'[q].w = request[q].w /\ request'[q].u = request[q].u
           /\ request'[q].sure => request[q].sure /\ W = {}
  <2>1. request' = [q \in Requests |->
                     IF q = r THEN [at |-> "activate", w |-> 1, u |-> request[r].u, sure |-> FALSE]
                     ELSE Overtaken(q, W)]
    BY DEF DeleteWorkspace
  <2>2. [at |-> "activate", w |-> 1, u |-> request[r].u, sure |-> FALSE] \in RequestType
    BY <1>1, Constants DEF TypeOK, RequestType, Steps
  <2>3. \A q \in Requests :
          /\ Overtaken(q, W) \in RequestType
          /\ Overtaken(q, W).at = request[q].at
          /\ Overtaken(q, W).w = request[q].w /\ Overtaken(q, W).u = request[q].u
          /\ Overtaken(q, W).sure => request[q].sure /\ W = {}
    BY <1>1, OvertakenKept
  <2> HIDE DEF W
  <2> QED
    BY <2>1, <2>2, <2>3
<1> HIDE DEF W
<1>5. TypeOK'
  BY <1>1, <1>2, <1>4 DEF TypeOK, RequestType, WsType, Members
<1>6. Owned'
  BY <1>1, <1>2 DEF IInv, Owned, Kept
<1>7. Creating'
  BY <1>1, <1>2, <1>3, <1>4 DEF IInv, Creating, At, Kept
<1>8. Removing'
  <2>1. 0 \notin Users
    BY DEF Users
  <2> QED
    BY <1>1, <1>2, <1>3, <1>4, <2>1 DEF IInv, Removing, At
<1>9. Deleting'
  BY <1>1, <1>2, <1>4 DEF IInv, Deleting, At
<1>10. OwnerStays'
  BY <1>1, <1>2, <1>4 DEF IInv, OwnerStays, At, Kept
<1> QED
  BY <1>5, <1>6, <1>7, <1>8, <1>9, <1>10 DEF IInv

----------------------------------------------------------------------------
(* An account goes, and a restart.                                         *)

LEMMA DeleteUserKept ==
  ASSUME IInv, NEW x \in Users, DeleteUser(x)
  PROVE  IInv'
<1> DEFINE owned == {w \in Kept : ws[w].owner = x}
           N == [NoWs EXCEPT !.row = "gone"]
<1>1. TypeOK /\ x \in Here /\ UNCHANGED orphaned
      /\ request' = [q \in Requests |-> Overtaken(q, owned)]
      /\ account' = [account EXCEPT ![x] = "gone"] /\ active' = [active EXCEPT ![x] = 0]
  BY DEF IInv, DeleteUser
<1>2. N \in WsType /\ N.row = "gone" /\ N.owner = 0
      /\ Nobody \in [Users -> {"none", "admin", "member"}]
  BY Constants DEF NoWs, WsType, Nobody
<1>3. ws \in [Wids -> WsType] /\ member \in Members /\ owned \subseteq Wids
  BY <1>1 DEF TypeOK, WsType, Members, Kept
<1>4. /\ ws' = [w \in Wids |-> IF w \in owned THEN N
                               ELSE IF ws[w].sharer = x THEN [ws[w] EXCEPT !.sharer = 0]
                               ELSE ws[w]]
      /\ member' = [w \in Wids |-> IF w \in owned THEN Nobody ELSE [member[w] EXCEPT ![x] = "none"]]
  BY DEF DeleteUser
<1> HIDE DEF N
<1>5. /\ ws' \in [Wids -> WsType]
      /\ \A w \in owned : ws'[w].row = "gone" /\ ws'[w].owner = 0
      /\ \A w \in Wids \ owned : ws'[w].row = ws[w].row /\ ws'[w].owner = ws[w].owner
  <2> SUFFICES ASSUME NEW w \in Wids
               PROVE  /\ ws'[w] \in WsType
                      /\ w \in owned => ws'[w].row = "gone" /\ ws'[w].owner = 0
                      /\ w \notin owned => ws'[w].row = ws[w].row /\ ws'[w].owner = ws[w].owner
    BY <1>3, <1>4
  <2>1. 0 \in 0..MaxUsers
    BY Constants
  <2> QED
    BY <1>2, <1>3, <1>4, <2>1 DEF WsType
<1>6. /\ member' \in Members
      /\ \A w \in Wids \ owned, u \in Users \ {x} : member'[w][u] = member[w][u]
  BY <1>2, <1>3, <1>4 DEF Members
<1>7. /\ account' \in [Users -> {"never", "here", "gone"}] /\ Here' = Here \ {x}
      /\ active' \in [Users -> 0..MaxWs]
  BY <1>1, Constants DEF TypeOK, Here
<1>8. /\ Kept' = Kept \ owned
      /\ \A w \in owned : ws[w].row = "here"
      /\ \A w \in Kept \ owned : w \in Wids /\ ws[w].owner # x
  BY <1>3, <1>5 DEF Kept
<1>9. /\ request' \in [Requests -> RequestType]
      /\ \A q \in Requests :
           /\ request'[q].at = request[q].at
           /\ request'[q].w = request[q].w /\ request'[q].u = request[q].u
           /\ request'[q].sure => request[q].sure /\ owned = {}
  <2>1. \A q \in Requests :
          /\ Overtaken(q, owned) \in RequestType
          /\ Overtaken(q, owned).at = request[q].at
          /\ Overtaken(q, owned).w = request[q].w /\ Overtaken(q, owned).u = request[q].u
          /\ Overtaken(q, owned).sure => request[q].sure /\ owned = {}
    BY <1>1, OvertakenKept
  <2> HIDE DEF owned
  <2> QED
    BY <1>1, <2>1
<1> HIDE DEF owned
<1>15. \A q \in Requests : \A s : At(q, s)' <=> At(q, s)
  BY <1>9 DEF At
<1>16. TypeOK'
  BY <1>1, <1>5, <1>6, <1>7, <1>9 DEF TypeOK, WsType, Members, RequestType
<1>10. Owned'
  BY <1>3, <1>5, <1>7, <1>8 DEF IInv, Owned
<1>11. Creating'
  BY <1>3, <1>5, <1>8, <1>9, <1>15 DEF IInv, Creating
<1>12. Removing'
  <2>1. 0 \notin Users
    BY DEF Users
  <2> QED
    BY <1>3, <1>5, <1>8, <1>9, <1>15, <2>1 DEF IInv, Removing
<1>13. Deleting'
  BY <1>8, <1>9, <1>15 DEF IInv, Deleting
<1>14. OwnerStays'
  <2>1. \A w \in Kept \ owned : ws[w].owner \in Users \ {x}
    BY <1>8 DEF IInv, Owned, Here
  <2> QED
    BY <1>1, <1>5, <1>6, <1>8, <1>9, <1>15, <2>1 DEF IInv, OwnerStays
<1> QED
  BY <1>10, <1>11, <1>12, <1>13, <1>14, <1>16 DEF IInv

\* A restart ends the requests, and the creations it cuts short leave orphans, as
\* does a seeding whose membership is not written.
LEMMA RestartKept ==
  ASSUME IInv, Restart
  PROVE  IInv'
<1> DEFINE cut == {request[r].w : r \in {q \in Requests : At(q, "own")}}
<1>1. TypeOK /\ Here' = Here /\ UNCHANGED account
  BY DEF IInv, Here, Restart
<1>2. request' \in [Requests -> RequestType] /\ \A r \in Requests : request'[r].at = "idle"
  BY RequestKept, Constants DEF Restart, Resting, RequestType, Steps
<1>3. cut \subseteq Wids /\ orphaned \subseteq Wids
      /\ \A r \in Requests : At(r, "own") => request[r].w \in cut
  BY <1>1 DEF IInv, Creating, TypeOK
<1>4. Creating' /\ Removing' /\ Deleting'
  BY <1>2 DEF Creating, Removing, Deleting, At
<1> HIDE DEF cut
<1>5. ASSUME Kept = {}, NEW w \in Wids, NEW u \in Here, SeedWorkspace(w, u, cut)
      PROVE  IInv'
  <2> DEFINE N == [NoWs EXCEPT !.row = "here", !.owner = u]
  <2>1. ws' = [ws EXCEPT ![w] = N]
    BY <1>5 DEF SeedWorkspace
  <2>2. N \in WsType /\ N.row = "here" /\ N.owner = u
    BY Constants DEF NoWs, WsType, Here
  <2> HIDE DEF N
  <2>3. ws' \in [Wids -> WsType] /\ ws'[w] = N /\ Kept' = {w}
    BY <1>1, <1>5, <2>1, <2>2 DEF TypeOK, WsType, Kept
  <2>4. member' \in Members /\ orphaned' \subseteq Wids
        /\ (w \in orphaned' \/ member'[w][u] = "member")
    <3>1. member \in Members /\ u \in Users
      BY <1>1 DEF TypeOK, Members, Here
    <3>2. CASE member' = [member EXCEPT ![w][u] = "member"] /\ orphaned' = orphaned \cup cut
      BY <1>3, <1>5, <3>1, <3>2 DEF Members
    <3>3. CASE orphaned' = orphaned \cup cut \cup {w} /\ UNCHANGED member
      BY <1>3, <1>5, <3>1, <3>3
    <3> QED
      BY <1>5, <3>2, <3>3 DEF SeedWorkspace
  <2>5. active' \in [Users -> 0..MaxWs]
    BY <1>1, <1>5, Constants DEF SeedWorkspace, TypeOK
  <2>6. TypeOK'
    BY <1>1, <1>2, <2>3, <2>4, <2>5 DEF TypeOK, WsType, RequestType, Members
  <2>7. Owned' /\ OwnerStays'
    BY <1>1, <2>2, <2>3, <2>4 DEF Owned, OwnerStays
  <2> QED
    BY <1>4, <2>6, <2>7 DEF IInv
<1>6. CASE orphaned' = orphaned \cup cut /\ UNCHANGED <<ws, member, active>>
  <2>1. UNCHANGED <<ws, member, active>> /\ Kept' = Kept
    BY <1>6 DEF Kept
  <2>2. TypeOK'
    BY <1>1, <1>2, <1>3, <1>6, <2>1 DEF TypeOK, RequestType
  <2>3. Owned' /\ OwnerStays'
    BY <1>1, <1>3, <1>6, <2>1 DEF IInv, Owned, OwnerStays, At
  <2> QED
    BY <1>4, <2>2, <2>3 DEF IInv
<1> QED
  BY <1>5, <1>6 DEF Restart, cut

----------------------------------------------------------------------------
(* The theorems.                                                           *)

LEMMA NextKept == IInv /\ [Next]_vars => IInv'
<1> SUFFICES ASSUME IInv, [Next]_vars PROVE IInv'
  OBVIOUS
<1>1. ASSUME NEW r \in Requests, Request(r) PROVE IInv'
  BY <1>1, ActiveKept, CreateKept, CreateOwnerKept, UpdateKept, CountsKept, DeleteKept,
     RemoveAsksKept, MemberStepsKept, RegisterKept DEF Request
<1>2. ASSUME NEW u \in Users, DeleteUser(u) PROVE IInv'
  BY <1>2, DeleteUserKept
<1>3. CASE Restart
  BY <1>3, RestartKept
<1>4. CASE UNCHANGED vars
  <2>1. UNCHANGED <<account, ws, member, active, request, orphaned>>
    BY <1>4 DEF vars
  <2> QED
    BY <2>1, CalmKept DEF IInv, TypeOK, SameRows, Here, Adopted
<1> QED
  BY <1>1, <1>2, <1>3, <1>4 DEF Next

\* What LastStays asks of a step.
LastStep ==
    Kept # {} /\ Kept' = {} =>
      \/ Here' # Here
      \/ \E r \in Requests : At(r, "delete") /\ ~At(r, "delete")' /\ ~request[r].sure

\* A deletion that is sure leaves another workspace; every other step but an
\* account's end leaves the workspaces there are.
LEMMA LastKept == IInv /\ [Next]_vars => LastStep
<1> SUFFICES ASSUME IInv, [Next]_vars PROVE LastStep
  OBVIOUS
<1>1. ASSUME NEW r \in Requests, DeleteWorkspace(r) PROVE LastStep
  <2> DEFINE W == {request[r].w} \cap Kept
  <2>1. TypeOK /\ At(r, "delete") /\ ~At(r, "delete")'
    BY <1>1 DEF IInv, DeleteWorkspace, At
  <2>2. Kept' = Kept \ W
    BY <1>1, <2>1, DroppedKept DEF DeleteWorkspace
  <2>3. request[r].sure => Kept' # {}
    BY <2>1, <2>2 DEF IInv, Deleting
  <2> QED
    BY <2>1, <2>3 DEF LastStep
<1>2. ASSUME NEW u \in Users, DeleteUser(u) PROVE LastStep
  <2>1. u \in Here /\ u \notin Here'
    BY <1>2 DEF DeleteUser, IInv, TypeOK, Here
  <2> QED
    BY <2>1 DEF LastStep
<1>3. ASSUME Kept \subseteq Kept' PROVE LastStep
  BY <1>3 DEF LastStep
<1>4. ASSUME NEW r \in Requests, CreateWorkspace(r) \/ UpdateWorkspace(r) PROVE Kept \subseteq Kept'
  <2>1. ws \in [Wids -> WsType]
    BY DEF IInv, TypeOK, WsType
  <2>2. CASE CreateWorkspace(r)
    BY <2>1, <2>2 DEF CreateWorkspace, NewWs, Kept
  <2>3. CASE UpdateWorkspace(r)
    <3>1. PICK u \in Here, w \in Kept :
            \/ ws' = [ws EXCEPT ![w].mode = "personal", ![w].sharer = 0]
            \/ ws' = [ws EXCEPT ![w].mode = "shared", ![w].sharer = u]
      BY <2>3 DEF UpdateWorkspace
    <3> QED
      BY <2>1, <3>1 DEF Kept, WsType
  <2> QED
    BY <1>4, <2>2, <2>3
<1>5. CASE Restart
  BY <1>3, <1>5 DEF Restart, Kept
<1>6. CASE UNCHANGED ws
  BY <1>3, <1>6 DEF Kept
<1> QED
  BY <1>1, <1>2, <1>3, <1>4, <1>5, <1>6
     DEF Next, Request, vars, SwitchWorkspace, GetActiveWorkspace, SetActiveWorkspace, Fails,
         CreateOwner, DeleteCounts, AddWorkspaceMember, RemoveAsks, RemoveWorkspaceMember,
         RegisterUser, FindDefault, JoinDefault

\* The invariant holds in every behaviour, whatever the requests, accounts and
\* workspaces: no handler's step, failed statement, account deletion or restart
\* disturbs it.
THEOREM Invariant == Spec => []IInv
BY Initially, NextKept, PTL DEF Spec

\* RemoveWorkspaceMemberHandler asks who the owner is before it deletes the
\* membership, and CreateWorkspace writes the workspace before the membership:
\* whatever runs in between, an owner whose membership was written stays a member.
THEOREM OwnerIsAMember == Spec => []OwnerStays
<1>1. IInv => OwnerStays
  BY DEF IInv
<1> QED
  BY <1>1, Invariant, PTL

\* DeleteWorkspaceHandler counts before it deletes, and the count is stale when
\* it deletes: unless it failed, or another deletion came in between, or an
\* account takes its workspaces along, a workspace is left.
THEOREM LastWorkspaceIsKept == Spec => LastStays
<1>1. IInv /\ [Next]_vars => LastStep
  BY LastKept
<1> QED
  BY <1>1, Invariant, PTL DEF Spec, LastStays, LastStep

=============================================================================
