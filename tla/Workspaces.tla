----------------------------- MODULE Workspaces -----------------------------
(***************************************************************************)
(* Workspaces, their members and everyone's active workspace:              *)
(* internal/web/workspace_handlers.go, the tables behind it, the workspace *)
(* that is seeded at start-up and the one a new account joins.  An SQL     *)
(* statement is a step, a request keeps what it has read, a restart ends   *)
(* the requests that run.  A statement that reads what never changes, an   *)
(* owner or whether an id was ever a row, is one step with the write that  *)
(* follows: on a row that has gone since, that write does nothing.         *)
(* A statement may fail: where the code returns its error the request ends *)
(* and where it drops the error the request goes on without the row.       *)
(*                                                                         *)
(* A member is an "admin" or not: no guard tells "owner", "member" and     *)
(* "viewer" apart.  Names, slugs and descriptions are left out.            *)
(*                                                                         *)
(* Bounds: MaxUsers accounts, MaxWs workspaces, Requests at once.          *)
(***************************************************************************)
EXTENDS Naturals, FiniteSets

CONSTANTS Requests,     \* requests that run at once
          MaxUsers,     \* accounts created in a behaviour
          MaxWs,        \* workspaces created in a behaviour
          Privileged,   \* the accounts of administrators
          Modes,        \* the gateway modes that forms send
          SentRoles     \* the roles they send

ASSUME WorkspacesAssumption ==
    /\ MaxUsers \in Nat \ {0} /\ MaxWs \in Nat \ {0}
    /\ Modes \subseteq {"personal", "workspace_shared", "shared"}
    /\ SentRoles \subseteq {"admin", "member"}

VARIABLES account,    \* an account was never created, is here or is gone
          ws,         \* the workspaces by id; an id is never given out again
          member,     \* the role of each account in each workspace
          active,     \* active_workspace_id, 0 for NULL
          request,    \* what each request is doing
          orphaned    \* workspaces whose owner's membership was never written (history)

vars == <<account, ws, member, active, request, orphaned>>

Users == 1..MaxUsers
Wids  == 1..MaxWs

NoWs == [row |-> "never", owner |-> 0, mode |-> "personal", sharer |-> 0]

\* What a request does next: SetActiveWorkspace, the rest of a creation, of a
\* registration, of a deletion or of a removal.
Steps == {"idle", "activate", "own", "welcome", "join", "delete", "remove"}

\* w, u: the workspace and the account it is about; sure: it has counted more
\* than one workspace and none has been deleted since (history).
Resting == [at |-> "idle", w |-> 0, u |-> 0, sure |-> FALSE]

TypeOK ==
    /\ account \in [Users -> {"never", "here", "gone"}]
    /\ ws \in [Wids -> [row : {"never", "here", "gone"}, owner : 0..MaxUsers,
                        mode : {"personal", "workspace_shared", "shared"}, sharer : 0..MaxUsers]]
    /\ member \in [Wids -> [Users -> {"none", "admin", "member"}]]
    /\ active \in [Users -> 0..MaxWs]
    /\ request \in [Requests -> [at : Steps, w : 0..MaxWs, u : 0..MaxUsers, sure : BOOLEAN]]
    /\ orphaned \subseteq Wids

Here == {u \in Users : account[u] = "here"}
Kept == {w \in Wids : ws[w].row = "here"}

Nobody == [u \in Users |-> "none"]

\* The seeding of the first start fails: there is no account to own a workspace.
Init ==
    /\ account = [u \in Users |-> "never"]
    /\ ws = [w \in Wids |-> NoWs] /\ member = [w \in Wids |-> Nobody]
    /\ active = [u \in Users |-> 0]
    /\ request = [r \in Requests |-> Resting]
    /\ orphaned = {}

At(r, s)      == request[r].at = s
Become(r, q)  == request' = [request EXCEPT ![r] = q]
Begin(r, s, w, u) == At(r, "idle") /\ Become(r, [at |-> s, w |-> w, u |-> u, sure |-> FALSE])
Goto(r, s)    == Become(r, [request[r] EXCEPT !.at = s])
End(r)        == Become(r, Resting)

\* Who owns a workspace, or is an administrator.
Rules(by, w) == ws[w].owner = by \/ by \in Privileged

\* The id of the next row.
NewWs(w) == ws[w].row = "never" /\ \A v \in 1..w-1 : ws[v].row # "never"

\* A member row with its foreign keys.
Joined(w, u, role) ==
    IF w \in Kept /\ u \in Here
    THEN /\ member' = [member EXCEPT ![w][u] = role]
         /\ orphaned' = IF ws[w].owner = u THEN orphaned \ {w} ELSE orphaned
    ELSE UNCHANGED <<member, orphaned>>

\* A statement fails where the request has nothing left to do, or says so: the
\* look for workspace 1, the deletion of a row, and SetActiveWorkspace, whose
\* error every caller drops.
Fails(r) ==
    /\ request[r].at \in {"activate", "welcome", "delete", "remove"}
    /\ End(r)
    /\ UNCHANGED <<account, ws, member, active, orphaned>>

----------------------------------------------------------------------------
(* The active workspace.                                                   *)

\* SwitchWorkspaceHandler asks for a membership; an administrator may go anywhere.
MaySwitch(by, w) == by \in Privileged \/ member[w][by] # "none"

SwitchWorkspace(r) ==
    /\ \E by \in Here, w \in Wids : MaySwitch(by, w) /\ Begin(r, "activate", w, by)
    /\ UNCHANGED <<account, ws, member, active, orphaned>>

\* GetActiveWorkspace, for most pages: an account without one, or whose one cannot
\* be read, goes to the oldest workspace it belongs to (any here).  A dangling id
\* is an error and stays.
GetActiveWorkspace(r) ==
    /\ \E by \in Here, w \in Wids : member[w][by] # "none" /\ Begin(r, "activate", w, by)
    /\ UNCHANGED <<account, ws, member, active, orphaned>>

\* SetActiveWorkspace writes an id without a foreign key.
SetActiveWorkspace(r) ==
    /\ At(r, "activate")
    /\ LET u == request[r].u IN
       active' = IF u \in Here THEN [active EXCEPT ![u] = request[r].w] ELSE active
    /\ End(r)
    /\ UNCHANGED <<account, ws, member, orphaned>>

----------------------------------------------------------------------------
(* Creating, updating and deleting.                                        *)

\* CreateWorkspace inserts the workspace, ...
CreateWorkspace(r) ==
    /\ \E w \in Wids, by \in Here, mode \in Modes \ {"shared"} :
         /\ NewWs(w)
         /\ ws' = [ws EXCEPT ![w] = [row |-> "here", owner |-> by, mode |-> mode,
                                     sharer |-> IF mode = "personal" THEN 0 ELSE by]]
         /\ Begin(r, "own", w, by)
    /\ UNCHANGED <<account, member, active, orphaned>>

\* ... then its owner's membership, unless there is one, and makes it active,
\* also when the membership could not be written.
CreateOwner(r) ==
    /\ At(r, "own")
    /\ LET w == request[r].w  u == request[r].u IN
       \/ /\ member[w][u] = "none"
          /\ Joined(w, u, "member")
       \/ /\ member[w][u] = "none"
          /\ orphaned' = orphaned \cup {w}
          /\ UNCHANGED member
       \/ /\ member[w][u] # "none"
          /\ UNCHANGED <<member, orphaned>>
    /\ Goto(r, "activate")
    /\ UNCHANGED <<account, ws, active>>

\* UpdateWorkspaceHandler, for the owner or an administrator, writes what the
\* form says; a sharing workspace is stored as "shared", with the account of the
\* form or the writer's.
UpdateWorkspace(r) ==
    /\ At(r, "idle")
    /\ \E by, u \in Here, w \in Kept, mode \in Modes :
         /\ Rules(by, w)
         /\ ws' = IF mode = "personal"
                  THEN [ws EXCEPT ![w].mode = "personal", ![w].sharer = 0]
                  ELSE [ws EXCEPT ![w].mode = "shared", ![w].sharer = u]
    /\ UNCHANGED <<account, member, active, request, orphaned>>

\* Mutant of the code: an off-by-one.
EnoughLess(n) == n > 0

\* The last workspace is kept.
Enough(n) == n > 1

\* DeleteWorkspaceHandler asks who may and counts the workspaces: it goes on when
\* there are enough, and when the count fails, ...
DeleteCounts(r) ==
    /\ At(r, "idle")
    /\ \E by \in Here, w \in Kept, counted \in BOOLEAN :
         /\ Rules(by, w)
         /\ counted => Enough(Cardinality(Kept))
         /\ Become(r, [at |-> "delete", w |-> w, u |-> by, sure |-> counted])
    /\ UNCHANGED <<account, ws, member, active, orphaned>>

\* Deleted workspaces lose their members by the foreign keys.
Dropped(W) ==
    /\ ws' = [w \in Wids |-> IF w \in W THEN [NoWs EXCEPT !.row = "gone"] ELSE ws[w]]
    /\ member' = [w \in Wids |-> IF w \in W THEN Nobody ELSE member[w]]

\* The other deletions under way cannot be sure any more.
Overtaken(q, W) == [request[q] EXCEPT !.sure = @ /\ W = {}]

\* ... deletes it, and goes home to workspace 1, whether it is there or not.
DeleteWorkspace(r) ==
    /\ At(r, "delete")
    /\ LET W == {request[r].w} \cap Kept IN
       /\ Dropped(W)
       /\ request' = [q \in Requests |->
                        IF q = r THEN [at |-> "activate", w |-> 1, u |-> request[r].u, sure |-> FALSE]
                        ELSE Overtaken(q, W)]
    /\ UNCHANGED <<account, active, orphaned>>

----------------------------------------------------------------------------
(* Members.                                                                *)

\* AddWorkspaceMemberHandler adds an account or changes its role, also the owner's.
AddWorkspaceMember(r) ==
    /\ At(r, "idle")
    /\ \E u \in Here, w \in Wids, role \in SentRoles : Joined(w, u, role)
    /\ UNCHANGED <<account, ws, active, request>>

\* Mutant of the code: anyone may be removed.
RemovableAny(w, u) == TRUE

\* RemoveWorkspaceMemberHandler keeps the owner, ...
Removable(w, u) == ws[w].owner # u

\* ... lets the owner, an administrator, of the workspace or of the system, and
\* who leaves go on, ...
RemoveAsks(r) ==
    /\ \E by \in Here, w \in Kept, u \in Users :
         /\ Removable(w, u)
         /\ Rules(by, w) \/ member[w][by] = "admin" \/ by = u
         /\ Begin(r, "remove", w, u)
    /\ UNCHANGED <<account, ws, member, active, orphaned>>

\* ... and deletes the membership.
RemoveWorkspaceMember(r) ==
    /\ At(r, "remove")
    /\ member' = [member EXCEPT ![request[r].w][request[r].u] = "none"]
    /\ End(r)
    /\ UNCHANGED <<account, ws, active, orphaned>>

----------------------------------------------------------------------------
(* Accounts and restarts.                                                  *)

\* A new account: the first registration joins nothing; RegisterUser looks for
\* workspace 1, ...
NewUser(u) == account[u] = "never" /\ \A v \in 1..u-1 : account[v] # "never"

RegisterUser(r) ==
    /\ \E u \in Users :
         /\ NewUser(u)
         /\ account' = [account EXCEPT ![u] = "here"]
         /\ IF Here # {} THEN Begin(r, "welcome", 1, u) ELSE At(r, "idle") /\ UNCHANGED request
    /\ UNCHANGED <<ws, member, active, orphaned>>

\* ... and if it is there, ...
FindDefault(r) ==
    /\ At(r, "welcome")
    /\ IF 1 \in Kept THEN Goto(r, "join") ELSE End(r)
    /\ UNCHANGED <<account, ws, member, active, orphaned>>

\* ... joins it, or fails to, and goes there, whatever becomes of it meanwhile.
JoinDefault(r) ==
    /\ At(r, "join")
    /\ Joined(1, request[r].u, "member") \/ UNCHANGED <<member, orphaned>>
    /\ Goto(r, "activate")
    /\ UNCHANGED <<account, ws, active>>

\* DeleteUserHandler, for everyone but the superadmin: what the account owns and
\* its memberships go with it, and it shares its number no more.
DeleteUser(u) ==
    /\ u \in Here \ {1}
    /\ account' = [account EXCEPT ![u] = "gone"]
    /\ LET owned == {w \in Kept : ws[w].owner = u} IN
       /\ ws' = [w \in Wids |-> IF w \in owned THEN [NoWs EXCEPT !.row = "gone"]
                                ELSE IF ws[w].sharer = u THEN [ws[w] EXCEPT !.sharer = 0]
                                ELSE ws[w]]
       /\ member' = [w \in Wids |-> IF w \in owned THEN Nobody ELSE [member[w] EXCEPT ![u] = "none"]]
       /\ request' = [q \in Requests |-> Overtaken(q, owned)]
    /\ active' = [active EXCEPT ![u] = 0]
    /\ UNCHANGED orphaned

\* Init of the store, when there is no workspace: one for the first account, with
\* its membership, for whoever has no active workspace.  The errors of its
\* statements are dropped.
SeedWorkspace(w, u, cut) ==
    /\ NewWs(w) /\ \A v \in Here : u <= v
    /\ ws' = [ws EXCEPT ![w] = [NoWs EXCEPT !.row = "here", !.owner = u]]
    /\ \/ /\ member' = [member EXCEPT ![w][u] = "member"]
          /\ orphaned' = orphaned \cup cut
       \/ /\ orphaned' = orphaned \cup cut \cup {w}
          /\ UNCHANGED member
    /\ \/ active' = [v \in Users |-> IF v \in Here /\ active[v] = 0 THEN w ELSE active[v]]
       \/ UNCHANGED active

\* A restart ends every request, and seeds a workspace if it needs and can.
Restart ==
    /\ Here # {}
    /\ request' = [r \in Requests |-> Resting]
    /\ LET cut == {request[r].w : r \in {q \in Requests : At(q, "own")}} IN
       \/ Kept = {} /\ \E w \in Wids, u \in Here : SeedWorkspace(w, u, cut)
       \/ /\ orphaned' = orphaned \cup cut
          /\ UNCHANGED <<ws, member, active>>
    /\ UNCHANGED account

----------------------------------------------------------------------------
Request(r) ==
    \/ SwitchWorkspace(r) \/ GetActiveWorkspace(r) \/ SetActiveWorkspace(r)
    \/ CreateWorkspace(r) \/ CreateOwner(r) \/ UpdateWorkspace(r)
    \/ DeleteCounts(r) \/ DeleteWorkspace(r)
    \/ AddWorkspaceMember(r) \/ RemoveAsks(r) \/ RemoveWorkspaceMember(r)
    \/ RegisterUser(r) \/ FindDefault(r) \/ JoinDefault(r) \/ Fails(r)

Next ==
    \/ \E r \in Requests : Request(r)
    \/ \E u \in Users : DeleteUser(u)
    \/ Restart

Spec == Init /\ [][Next]_vars

----------------------------------------------------------------------------
(* Properties.                                                             *)

\* The owner of a workspace is a member of it from its creation on, whatever
\* members do to each other, unless that membership was never written: its INSERT
\* failed, and the code goes on, or a restart came first.
OwnerStays ==
    \A w \in Kept \ orphaned :
      \/ member[w][ws[w].owner] # "none"
      \/ \E r \in Requests : At(r, "own") /\ request[r].w = w

\* The last workspace only goes with an account that takes it along, or by a
\* deletion whose count had failed, or was made before another deletion.
LastStays ==
    [][Kept # {} /\ Kept' = {} =>
         \/ Here' # Here
         \/ \E r \in Requests :
              At(r, "delete") /\ ~At(r, "delete")' /\ ~request[r].sure]_vars

----------------------------------------------------------------------------
(* What the documentation says and the code does not do.                   *)

\* GetClientForWorkspace: whose WhatsApp client account u uses in workspace w.
GatewayOf(w, u) == IF ws[w].mode = "workspace_shared" /\ ws[w].sharer # 0 THEN ws[w].sharer ELSE u

\* The guide: whoever works in a workspace with a shared number sends from it.
SharedGatewayUsed ==
    \A w \in Kept, u \in Here :
      active[u] = w /\ ws[w].sharer # 0 => GatewayOf(w, u) = ws[w].sharer
=============================================================================
