------------------------------- MODULE Logins -------------------------------
(***************************************************************************)
(* Logging in and out: sessions, two-factor challenges and the second      *)
(* factor of an account (internal/auth/auth.go, their tables, and the      *)
(* handlers that use them).  An SQL statement is a step, a request keeps   *)
(* copies of what it has read, and ends where it is refused or a statement *)
(* fails, but where the code drops the error and goes on.                  *)
(*                                                                         *)
(* Passwords are right: a wrong one changes nothing.  A token is a slot of *)
(* its table, because tokens are random and never come twice.  The end of  *)
(* a row's life comes at any time.                                         *)
(*                                                                         *)
(* Bounds: the accounts are those of Users, Sessions and Challenges rows   *)
(* exist at once, Requests requests run at once, MaxKept times a challenge *)
(* is not deleted though it should be.                                     *)
(***************************************************************************)
EXTENDS Naturals, FiniteSets

CONSTANTS Requests,     \* requests that run at once
          Users,        \* accounts, each of which may be deleted
          Sessions,     \* slots of the table of sessions
          Challenges,   \* slots of the table of challenges
          None,         \* no account, no challenge
          MaxKept       \* failed deletions of a challenge

VARIABLES there,       \* the accounts that have not been deleted
          tfa,         \* two_factor_enabled
          session,     \* the rows of the sessions
          challenge,   \* the rows of the challenges
          request,     \* what each request is doing, with what it has read
          spent,       \* sessions opened with the challenge of each slot (history)
          most,        \* verifications of it under way at once, at most (history)
          kept         \* deletions of it that have failed (history)

vars == <<there, tfa, session, challenge, request, spent, most, kept>>

\* A session or a challenge, or no row.
NoRow == [user |-> None, fresh |-> FALSE]
Row(table, slots) == table \in [slots -> [user : Users \cup {None}, fresh : BOOLEAN]]

Steps == {"idle", "login", "token", "account", "consume", "grant", "whoami", "inside", "disable"}

\* tfa: the second factor as the request has read it; slot: its challenge.
\* History: coded, a code was checked; plain, the account had no second factor
\* at some time since it was read.
Resting == [at |-> "idle", user |-> None, tfa |-> FALSE, slot |-> None,
            coded |-> FALSE, plain |-> FALSE]

TypeOK ==
    /\ there \subseteq Users
    /\ tfa \in [Users -> BOOLEAN]
    /\ Row(session, Sessions) /\ Row(challenge, Challenges)
    /\ request \in [Requests -> [at : Steps, user : Users \cup {None}, tfa : BOOLEAN,
                                 slot : Challenges \cup {None},
                                 coded : BOOLEAN, plain : BOOLEAN]]
    /\ spent \in [Challenges -> Nat]
    /\ most \in [Challenges -> 0..Cardinality(Requests)]
    /\ kept \in [Challenges -> 0..MaxKept]

Init ==
    /\ there = Users /\ tfa = [u \in Users |-> FALSE]
    /\ session = [t \in Sessions |-> NoRow] /\ challenge = [c \in Challenges |-> NoRow]
    /\ request = [r \in Requests |-> Resting]
    /\ spent = [c \in Challenges |-> 0] /\ most = spent /\ kept = spent

At(r, s)     == request[r].at = s
Become(r, q) == request' = [request EXCEPT ![r] = q]
Goto(r, s)   == Become(r, [request[r] EXCEPT !.at = s])
End(r)       == Become(r, Resting)
Accounts     == <<there, tfa>>
History      == <<spent, most, kept>>

\* The verifications of a challenge that are under way.
Holders(c) == {r \in Requests : request[r].slot = c}

\* A row is refused when its account is gone: a foreign key.
MayRefer(u) == u \in there

----------------------------------------------------------------------------
(* Logging in.                                                             *)

\* LoginPostHandler and APITokenLoginHandler read the account.
Authenticate(r) ==
    /\ At(r, "idle")
    /\ \E u \in there, s \in {"login", "token"} :
         Become(r, [Resting EXCEPT !.at = s, !.user = u, !.tfa = tfa[u], !.plain = ~tfa[u]])
    /\ UNCHANGED <<Accounts, session, challenge, History>>

\* The form of an account with two factors leads to a challenge.
Create2FAChallenge(r) ==
    /\ At(r, "login") /\ request[r].tfa /\ MayRefer(request[r].user)
    /\ \E c \in Challenges :
         /\ challenge[c] = NoRow /\ Holders(c) = {}
         /\ challenge' = [challenge EXCEPT ![c] = [user |-> request[r].user, fresh |-> TRUE]]
         /\ spent' = [spent EXCEPT ![c] = 0]
         /\ most' = [most EXCEPT ![c] = 0] /\ kept' = [kept EXCEPT ![c] = 0]
    /\ End(r)
    /\ UNCHANGED <<Accounts, session>>

\* Mutant of the code: the token login does not ask for the second factor.
TokenCodeUnasked(r) ==
    /\ At(r, "token")
    /\ Goto(r, "grant")
    /\ UNCHANGED <<Accounts, session, challenge, History>>

\* The token login checks the code at once, if there is a secret it has read.
TokenCode(r) ==
    /\ At(r, "token")
    /\ Become(r, [request[r] EXCEPT !.at = "grant", !.coded = request[r].tfa])
    /\ UNCHANGED <<Accounts, session, challenge, History>>

\* Verify2FA reads the challenge while it lives, ...
Get2FAChallenge(r) ==
    /\ At(r, "idle")
    /\ \E c \in Challenges :
         /\ challenge[c].fresh
         /\ Become(r, [Resting EXCEPT !.at = "account", !.user = challenge[c].user, !.slot = c])
         /\ LET now == Cardinality(Holders(c)) + 1 IN
            most' = [most EXCEPT ![c] = IF now > @ THEN now ELSE @]
    /\ UNCHANGED <<Accounts, session, challenge, spent, kept>>

\* ... reads the account and checks the code against the secret it has by now,
\* which is none where the second factor has been switched off since, ...
VerifyCode(r) ==
    /\ At(r, "account") /\ request[r].user \in there
    /\ Become(r, [request[r] EXCEPT !.at = "consume", !.coded = TRUE])
    /\ UNCHANGED <<Accounts, session, challenge, History>>

\* Mutant of the code: the challenge is left to expire.
Delete2FAChallengeNever(r) ==
    /\ At(r, "consume")
    /\ Goto(r, "grant")
    /\ UNCHANGED <<Accounts, session, challenge, History>>

\* ... and deletes the challenge, also when somebody else already has.  When the
\* deletion fails the login goes on, and the challenge lives.
Delete2FAChallenge(r) ==
    /\ At(r, "consume")
    /\ LET c == request[r].slot IN
       \/ /\ challenge' = [challenge EXCEPT ![c] = NoRow]
          /\ UNCHANGED kept
       \/ /\ kept[c] < MaxKept
          /\ kept' = [kept EXCEPT ![c] = @ + 1]
          /\ UNCHANGED challenge
    /\ Goto(r, "grant")
    /\ UNCHANGED <<Accounts, session, spent, most>>

\* A login without a second factor, or at its end, opens a session.
MayOpen(r) == At(r, "grant") \/ (At(r, "login") /\ ~request[r].tfa)

CreateSession(r) ==
    /\ MayOpen(r) /\ MayRefer(request[r].user)
    /\ \E t \in Sessions :
         /\ session[t] = NoRow
         /\ session' = [session EXCEPT ![t] = [user |-> request[r].user, fresh |-> TRUE]]
    /\ spent' = [c \in Challenges |-> IF request[r].slot = c THEN spent[c] + 1 ELSE spent[c]]
    /\ End(r)
    /\ UNCHANGED <<Accounts, challenge, most, kept>>

----------------------------------------------------------------------------
(* Requests with a session.                                                *)

\* RequireAuth and RequireAuthWS read the session...
GetSession(r) ==
    /\ At(r, "idle")
    /\ \E t \in Sessions :
         session[t].fresh /\ Become(r, [Resting EXCEPT !.at = "whoami", !.user = session[t].user])
    /\ UNCHANGED <<Accounts, session, challenge, History>>

\* ... and the account, which the rest of the request goes by.
GetUser(r) ==
    /\ At(r, "whoami") /\ request[r].user \in there
    /\ Goto(r, "inside")
    /\ UNCHANGED <<Accounts, session, challenge, History>>

\* UpdateUser2FA changes no row when the account is gone.  An account that turns
\* its second factor off was plain for every login that had read it before.
UpdateUser2FA(r, on) ==
    LET u == request[r].user IN
    /\ tfa' = IF u \in there THEN [tfa EXCEPT ![u] = on] ELSE tfa
    /\ request' = [s \in Requests |->
                     IF s = r THEN Resting
                     ELSE IF ~on /\ request[s].user = u /\ request[s].tfa
                       THEN [request[s] EXCEPT !.plain = TRUE]
                     ELSE request[s]]

\* TwoFactorEnableAPIHandler: the code of the new secret is right.
EnableTwoFactor(r) ==
    /\ At(r, "inside")
    /\ UpdateUser2FA(r, TRUE)
    /\ UNCHANGED <<there, session, challenge, History>>

\* TwoFactorDisableAPIHandler asks for the password before it writes.
DisableAsks(r) ==
    /\ At(r, "inside") /\ request[r].user \in there
    /\ Goto(r, "disable")
    /\ UNCHANGED <<Accounts, session, challenge, History>>

DisableTwoFactor(r) ==
    /\ At(r, "disable")
    /\ UpdateUser2FA(r, FALSE)
    /\ UNCHANGED <<there, session, challenge, History>>

\* A request ends: its code is wrong, its account is gone, a statement of it
\* fails, or it goes on to something else.
Leave(r) ==
    /\ ~At(r, "idle")
    /\ End(r)
    /\ UNCHANGED <<Accounts, session, challenge, History>>

----------------------------------------------------------------------------
(* The end of rows.                                                        *)

\* LogoutHandler deletes the row of its cookie.
Logout(t) ==
    /\ session[t] # NoRow
    /\ session' = [session EXCEPT ![t] = NoRow]
    /\ UNCHANGED <<Accounts, challenge, request, History>>

\* Another account deletes this one: its rows go with it, by the foreign keys.
Without(table, u) == [x \in DOMAIN table |-> IF table[x].user = u THEN NoRow ELSE table[x]]

DeleteUser(u) ==
    /\ u \in there
    /\ there' = there \ {u} /\ tfa' = [tfa EXCEPT ![u] = FALSE]
    /\ session' = Without(session, u) /\ challenge' = Without(challenge, u)
    /\ UNCHANGED <<request, History>>

ExpireSession(t) ==
    /\ session[t].fresh
    /\ session' = [session EXCEPT ![t].fresh = FALSE]
    /\ UNCHANGED <<Accounts, challenge, request, History>>

ExpireChallenge(c) ==
    /\ challenge[c].fresh
    /\ challenge' = [challenge EXCEPT ![c].fresh = FALSE]
    /\ UNCHANGED <<Accounts, session, request, History>>

\* Every day the sessions that have expired are deleted, and only they.
CleanExpiredSessions ==
    /\ \E t \in Sessions : session[t] # NoRow /\ ~session[t].fresh
    /\ session' = [t \in Sessions |-> IF session[t].fresh THEN session[t] ELSE NoRow]
    /\ UNCHANGED <<Accounts, challenge, request, History>>

----------------------------------------------------------------------------
Request(r) ==
    \/ Authenticate(r) \/ Create2FAChallenge(r) \/ TokenCode(r)
    \/ Get2FAChallenge(r) \/ VerifyCode(r) \/ Delete2FAChallenge(r) \/ CreateSession(r)
    \/ GetSession(r) \/ GetUser(r) \/ Leave(r)
    \/ EnableTwoFactor(r) \/ DisableAsks(r) \/ DisableTwoFactor(r)

Next ==
    \/ \E r \in Requests : Request(r)
    \/ \E t \in Sessions : Logout(t) \/ ExpireSession(t)
    \/ \E c \in Challenges : ExpireChallenge(c)
    \/ \E u \in Users : DeleteUser(u)
    \/ CleanExpiredSessions

Spec == Init /\ [][Next]_vars

----------------------------------------------------------------------------
(* Properties.                                                             *)

\* A challenge is good for as many sessions as verifications of it were under way
\* at once, which is one unless they overlap, and for one more each time that it
\* could not be deleted.
ChallengeOnce == \A c \in Challenges : spent[c] <= most[c] + kept[c]

\* A session is opened without a code only for an account that had no second
\* factor at some time since the login read it, whichever way it came.
SecondFactorAsked ==
    [][\A r \in Requests :
         CreateSession(r) /\ session' # session => request[r].coded \/ request[r].plain]_vars
=============================================================================
