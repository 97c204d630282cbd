----------------------------- MODULE LoginsProofs -----------------------------
(***************************************************************************)
(* Proofs about Logins, for any accounts, slots and requests at once: a    *)
(* challenge opens no more sessions than it had verifications at once and  *)
(* failed deletions, and nobody gets in without a code who has to give     *)
(* one.  The statements of a login interleave with each other's, with the  *)
(* end of rows and with the deletion of accounts, and any may fail.        *)
(***************************************************************************)
EXTENDS Logins, FiniteSetTheorems, TLAPS

\* What the bounds stand for: no account and no challenge is None, and finitely
\* many requests run at once.
Sound == None \notin Users \cup Challenges /\ IsFiniteSet(Requests) /\ MaxKept \in Nat

RowType == [user : Users \cup {None}, fresh : BOOLEAN]

RequestType == [at : Steps, user : Users \cup {None}, tfa : BOOLEAN,
                slot : Challenges \cup {None}, coded : BOOLEAN, plain : BOOLEAN]

----------------------------------------------------------------------------
(* The invariant.                                                          *)

\* Types, but for the number of verifications at once.
Typed ==
    /\ there \subseteq Users
    /\ tfa \in [Users -> BOOLEAN]
    /\ session \in [Sessions -> RowType] /\ challenge \in [Challenges -> RowType]
    /\ request \in [Requests -> RequestType]
    /\ spent \in [Challenges -> Nat] /\ most \in [Challenges -> Nat]
    /\ kept \in [Challenges -> 0..MaxKept]

\* The verifications that are past the deletion of their challenge.
Passed(c) == {r \in Holders(c) : At(r, "grant")}

\* The highest number of verifications at once is at least their number now.
Counted ==
    \A c \in Challenges : /\ Cardinality(Holders(c)) <= most[c]
                          /\ most[c] <= Cardinality(Requests)

\* A challenge that can still be read has outlived every deletion so far: each of
\* its sessions, and each verification about to open one, has a failed deletion.
Living ==
    \A c \in Challenges : challenge[c].fresh => spent[c] + Cardinality(Passed(c)) <= kept[c]

\* What every verification under way may still add.
Rationed == \A c \in Challenges : spent[c] + Cardinality(Holders(c)) <= most[c] + kept[c]

\* How a login has come to where it is.
Came(q) ==
    /\ q.at \in {"idle", "login", "token"} => q.slot = None
    /\ q.at \in {"login", "token"} => q.tfa \/ q.plain
    /\ q.at \in {"account", "consume"} => q.slot \in Challenges
    /\ q.at = "consume" => q.coded
    /\ q.at = "grant" => q.coded \/ q.plain

Asked == \A r \in Requests : Came(request[r])

IInv == Typed /\ Counted /\ Living /\ Rationed /\ Asked

----------------------------------------------------------------------------
LEMMA HoldersFinite ==
  ASSUME Sound, NEW c
  PROVE  /\ IsFiniteSet(Holders(c)) /\ Cardinality(Holders(c)) \in Nat
         /\ IsFiniteSet(Passed(c)) /\ Cardinality(Passed(c)) \in Nat
         /\ Cardinality(Passed(c)) <= Cardinality(Holders(c))
         /\ Cardinality(Holders(c)) <= Cardinality(Requests)
         /\ Cardinality(Requests) \in Nat
<1>1. Holders(c) \subseteq Requests /\ Passed(c) \subseteq Holders(c)
  BY DEF Holders, Passed
<1> QED
  BY <1>1, FS_Subset, FS_CardinalityType DEF Sound

\* The same after a step.
LEMMA HoldersFiniteNext ==
  ASSUME Sound, NEW c
  PROVE  /\ IsFiniteSet(Holders(c)') /\ Cardinality(Holders(c)') \in Nat
         /\ IsFiniteSet(Passed(c)') /\ Cardinality(Passed(c)') \in Nat
         /\ Cardinality(Holders(c)') <= Cardinality(Requests)
<1>1. Holders(c)' \subseteq Requests /\ Passed(c)' \subseteq Holders(c)'
  BY DEF Holders, Passed
<1> QED
  BY <1>1, FS_Subset, FS_CardinalityType DEF Sound

LEMMA Initially == Sound /\ Init => IInv
<1> SUFFICES ASSUME Sound, Init PROVE IInv
  OBVIOUS
<1>1. NoRow \in RowType /\ Resting \in RequestType /\ 0 \in 0..MaxKept
  BY DEF NoRow, RowType, Resting, RequestType, Steps, Sound
<1>2. Typed
  BY <1>1 DEF Init, Typed
<1>3. \A c \in Challenges : Holders(c) = {} /\ Passed(c) = {}
                           /\ spent[c] = 0 /\ most[c] = 0 /\ kept[c] = 0
  BY DEF Init, Holders, Passed, Resting, Sound
<1>4. Cardinality({}) = 0 /\ Cardinality(Requests) \in Nat
  BY FS_EmptySet, FS_CardinalityType DEF Sound
<1>5. Counted /\ Living /\ Rationed
  <2>1. \A c \in Challenges : Cardinality(Holders(c)) = 0 /\ Cardinality(Passed(c)) = 0
    BY <1>3, <1>4
  <2> QED
    BY <1>3, <1>4, <2>1 DEF Counted, Living, Rationed
<1>6. Asked
  BY DEF Init, Asked, Came, Resting
<1> QED
  BY <1>2, <1>5, <1>6 DEF IInv

----------------------------------------------------------------------------
(* Steps that take nobody to a challenge.                                  *)

\* A request keeps its challenge or leaves it, and comes to the end of a
\* verification only when the challenge is no more.
Follows(r) ==
    /\ request'[r] \in RequestType /\ Came(request'[r])
    /\ request'[r].slot \in {request[r].slot, None}
    /\ request'[r].at = "grant" /\ request'[r].slot \in Challenges =>
         At(r, "grant") \/ ~challenge'[request'[r].slot].fresh

LEMMA CalmKept ==
  ASSUME Sound, IInv, UNCHANGED <<spent, most, kept>>,
         there' \subseteq Users, tfa' \in [Users -> BOOLEAN],
         session' \in [Sessions -> RowType], challenge' \in [Challenges -> RowType],
         \A c \in Challenges : challenge'[c].fresh => challenge[c].fresh,
         request' \in [Requests -> RequestType], \A r \in Requests : Follows(r)
  PROVE  IInv'
<1>1. Typed'
  BY DEF IInv, Typed
<1>2. ASSUME NEW c \in Challenges
      PROVE  /\ Cardinality(Holders(c)') <= Cardinality(Holders(c))
             /\ challenge'[c].fresh => Cardinality(Passed(c)') <= Cardinality(Passed(c))
  <2>1. Holders(c)' \subseteq Holders(c)
    BY DEF Holders, Follows, Sound
  <2>2. ASSUME challenge'[c].fresh PROVE Passed(c)' \subseteq Passed(c)
    BY <2>1, <2>2 DEF Passed, Holders, Follows, At
  <2> QED
    BY <2>1, <2>2, HoldersFinite, FS_Subset
<1>3. Counted' /\ Living' /\ Rationed'
  <2> SUFFICES ASSUME NEW c \in Challenges
               PROVE  /\ Cardinality(Holders(c)') <= most[c] /\ most[c] <= Cardinality(Requests)
                      /\ challenge'[c].fresh => spent[c] + Cardinality(Passed(c)') <= kept[c]
                      /\ spent[c] + Cardinality(Holders(c)') <= most[c] + kept[c]
    BY DEF Counted, Living, Rationed
  <2>1. spent[c] \in Nat /\ most[c] \in Nat /\ kept[c] \in Nat
    BY DEF IInv, Typed, Sound
  <2>2. /\ Cardinality(Holders(c)) <= most[c] /\ most[c] <= Cardinality(Requests)
        /\ challenge[c].fresh => spent[c] + Cardinality(Passed(c)) <= kept[c]
        /\ spent[c] + Cardinality(Holders(c)) <= most[c] + kept[c]
    BY DEF IInv, Counted, Living, Rationed
  <2> QED
    BY <1>2, <2>1, <2>2, HoldersFinite, HoldersFiniteNext
<1>6. Asked'
  BY DEF Asked, Follows, Came
<1> QED
  BY <1>1, <1>3, <1>6 DEF IInv

\* The same of a step of one request.
LEMMA OneCalmKept ==
  ASSUME Sound, IInv, NEW r \in Requests, NEW q, Become(r, q),
         UNCHANGED <<there, tfa, spent, most, kept>>,
         session' \in [Sessions -> RowType], challenge' \in [Challenges -> RowType],
         \A c \in Challenges : challenge'[c].fresh => challenge[c].fresh,
         q \in RequestType, Came(q), q.slot \in {request[r].slot, None},
         q.at = "grant" /\ q.slot \in Challenges => At(r, "grant") \/ ~challenge'[q.slot].fresh
  PROVE  IInv'
<1>1. Typed /\ Asked
  BY DEF IInv
<1>2. request' = [request EXCEPT ![r] = q] /\ request' \in [Requests -> RequestType]
  BY <1>1 DEF Become, Typed
<1>3. Follows(r)
  BY <1>1, <1>2 DEF Follows, Typed
<1>4. ASSUME NEW p \in Requests, p # r PROVE Follows(p)
  BY <1>1, <1>2, <1>4 DEF Follows, Typed, Asked, At
<1> QED
  BY <1>1, <1>2, <1>3, <1>4, CalmKept DEF Typed

LEMMA RestingSound == Sound => Resting \in RequestType /\ Came(Resting) /\ Resting.slot = None
BY DEF Resting, RequestType, Steps, Came

LEMMA ReadersKept ==
  ASSUME Sound, IInv, NEW r \in Requests,
         \/ Authenticate(r) \/ TokenCode(r) \/ VerifyCode(r) \/ GetSession(r) \/ GetUser(r)
         \/ DisableAsks(r) \/ Leave(r)
  PROVE  IInv'
<1> DEFINE p == request[r]
<1>1. Typed /\ p \in RequestType /\ Came(p) /\ UNCHANGED <<there, tfa, session, challenge, spent, most, kept>>
  BY DEF IInv, Typed, Asked, Authenticate, TokenCode, VerifyCode, GetSession, GetUser, DisableAsks,
         Leave, Accounts, History
<1>2. ASSUME NEW q, Become(r, q), q \in RequestType, Came(q), q.slot \in {p.slot, None},
             q.at = "grant" => q.slot = None \/ At(r, "grant")
      PROVE  IInv'
  BY <1>1, <1>2, OneCalmKept DEF Typed, Sound
<1>3. CASE End(r)
  BY <1>2, <1>3, RestingSound DEF End, Resting
<1>4. CASE Authenticate(r)
  <2>1. PICK u \in Users, s \in {"login", "token"} :
          Become(r, [Resting EXCEPT !.at = s, !.user = u, !.tfa = tfa[u], !.plain = ~tfa[u]])
    BY <1>1, <1>4 DEF Authenticate, Typed
  <2> DEFINE q == [Resting EXCEPT !.at = s, !.user = u, !.tfa = tfa[u], !.plain = ~tfa[u]]
  <2>2. tfa[u] \in BOOLEAN
    BY <1>1 DEF Typed
  <2>3. q \in RequestType /\ Came(q) /\ q.slot = None /\ q.at # "grant"
    BY <2>2 DEF Resting, RequestType, Steps, Came
  <2> HIDE DEF q
  <2> QED
    BY <1>2, <2>1, <2>3 DEF q
<1>5. CASE TokenCode(r)
  <2> DEFINE q == [p EXCEPT !.at = "grant", !.coded = p.tfa]
  <2>1. p.at = "token" /\ p.slot = None /\ (p.tfa \/ p.plain)
    BY <1>1, <1>5 DEF TokenCode, At, Came
  <2>2. Become(r, q)
    BY <1>5 DEF TokenCode
  <2>3. q \in RequestType /\ Came(q) /\ q.slot = None
    BY <1>1, <2>1 DEF RequestType, Steps, Came
  <2> HIDE DEF q
  <2> QED
    BY <1>2, <2>2, <2>3
<1>6. CASE VerifyCode(r)
  <2> DEFINE q == [p EXCEPT !.at = "consume", !.coded = TRUE]
  <2>1. Become(r, q) /\ p.at = "account"
    BY <1>6 DEF VerifyCode, At
  <2>2. q \in RequestType /\ Came(q) /\ q.slot = p.slot /\ q.at # "grant"
    BY <1>1, <2>1 DEF RequestType, Steps, Came
  <2> HIDE DEF q
  <2> QED
    BY <1>2, <2>1, <2>2
<1>7. CASE GetSession(r)
  <2>1. PICK t \in Sessions : Become(r, [Resting EXCEPT !.at = "whoami", !.user = session[t].user])
    BY <1>7 DEF GetSession
  <2> DEFINE q == [Resting EXCEPT !.at = "whoami", !.user = session[t].user]
  <2>2. session[t].user \in Users \cup {None}
    BY <1>1 DEF Typed, RowType
  <2>3. q \in RequestType /\ Came(q) /\ q.slot = None /\ q.at # "grant"
    BY <2>2 DEF Resting, RequestType, Steps, Came
  <2> HIDE DEF q
  <2> QED
    BY <1>2, <2>1, <2>3 DEF q
<1>8. ASSUME NEW s \in {"inside", "disable"}, Goto(r, s) PROVE IInv'
  <2> DEFINE q == [p EXCEPT !.at = s]
  <2>1. Become(r, q)
    BY <1>8 DEF Goto
  <2>2. q \in RequestType /\ Came(q) /\ q.slot = p.slot /\ q.at # "grant"
    BY <1>1 DEF RequestType, Steps, Came
  <2> HIDE DEF q
  <2> QED
    BY <1>2, <2>1, <2>2
<1> QED
  BY <1>3, <1>4, <1>5, <1>6, <1>7, <1>8 DEF GetUser, DisableAsks, Leave

\* Deleting the challenge is what takes the code for one login; a deletion that
\* fails is counted.
LEMMA ConsumeKept ==
  ASSUME Sound, IInv, NEW r \in Requests, Delete2FAChallenge(r)
  PROVE  IInv'
<1> DEFINE p == request[r]
           q == [p EXCEPT !.at = "grant"]
           c == p.slot
<1>1. Typed /\ p \in RequestType /\ Came(p) /\ p.at = "consume" /\ Become(r, q)
      /\ UNCHANGED <<there, tfa, session, spent, most>>
  BY DEF IInv, Typed, Asked, Delete2FAChallenge, Accounts, Goto, At
<1>2. q \in RequestType /\ Came(q) /\ q.slot = c /\ q.at = "grant" /\ c \in Challenges /\ c # None
  BY <1>1 DEF RequestType, Steps, Came, Sound
<1>3. NoRow \in RowType /\ ~NoRow.fresh
  BY DEF NoRow, RowType
<1>4. CASE challenge' = [challenge EXCEPT ![c] = NoRow] /\ UNCHANGED kept
  <2>1. /\ challenge' \in [Challenges -> RowType]
        /\ \A d \in Challenges : challenge'[d].fresh => challenge[d].fresh
        /\ ~challenge'[c].fresh
    BY <1>1, <1>2, <1>3, <1>4 DEF Typed
  <2> HIDE DEF q
  <2> QED
    BY <1>1, <1>2, <1>4, <2>1, OneCalmKept DEF Typed
<1>5. CASE kept[c] < MaxKept /\ kept' = [kept EXCEPT ![c] = @ + 1] /\ UNCHANGED challenge
  <2> HIDE DEF q
  <2>1. /\ request' \in [Requests -> RequestType] /\ request'[r] = q
        /\ \A s \in Requests \ {r} : request'[s] = request[s]
    BY <1>1, <1>2 DEF Become, Typed
  <2>2. /\ kept' \in [Challenges -> 0..MaxKept]
        /\ \A d \in Challenges : kept'[d] = IF d = c THEN kept[d] + 1 ELSE kept[d]
    BY <1>1, <1>2, <1>5 DEF Typed, Sound
  <2>3. Typed'
    BY <1>1, <1>5, <2>1, <2>2 DEF Typed
  <2>4. \A d \in Challenges : Holders(d)' = Holders(d)
    BY <1>2, <2>1 DEF Holders
  <2>5. \A d \in Challenges : Passed(d)' = IF d = c THEN Passed(d) \cup {r} ELSE Passed(d)
    BY <1>1, <1>2, <2>1, <2>4 DEF Passed, Holders, At
  <2>6. r \notin Passed(c)
    BY <1>1 DEF Passed, At
  <2>7. ASSUME NEW d \in Challenges
        PROVE  /\ Cardinality(Holders(d)') <= most'[d] /\ most'[d] <= Cardinality(Requests)
               /\ challenge'[d].fresh => spent'[d] + Cardinality(Passed(d)') <= kept'[d]
               /\ spent'[d] + Cardinality(Holders(d)') <= most'[d] + kept'[d]
    <3>1. /\ Cardinality(Holders(d)) <= most[d] /\ most[d] <= Cardinality(Requests)
          /\ challenge[d].fresh => spent[d] + Cardinality(Passed(d)) <= kept[d]
          /\ spent[d] + Cardinality(Holders(d)) <= most[d] + kept[d]
      BY DEF IInv, Counted, Living, Rationed
    <3>2. spent[d] \in Nat /\ most[d] \in Nat /\ kept[d] \in Nat
      BY <1>1 DEF Typed, Sound
    <3>3. CASE d = c
      <4>1. Cardinality(Passed(d)') = Cardinality(Passed(d)) + 1
        BY <2>5, <2>6, <3>3, HoldersFinite, FS_AddElement
      <4> QED
        BY <1>1, <1>5, <2>2, <2>4, <3>1, <3>2, <3>3, <4>1, HoldersFinite
    <3>4. CASE d # c
      BY <1>1, <1>5, <2>2, <2>4, <2>5, <3>1, <3>4
    <3> QED
      BY <3>3, <3>4
  <2>8. Counted' /\ Living' /\ Rationed'
    BY <2>7 DEF Counted, Living, Rationed
  <2>9. Asked'
    BY <1>2, <2>1 DEF IInv, Asked
  <2> QED
    BY <2>3, <2>8, <2>9 DEF IInv
<1> QED
  BY <1>4, <1>5 DEF Delete2FAChallenge

\* Turning the second factor on or off.
LEMMA SecondFactorKept ==
  ASSUME Sound, IInv, NEW r \in Requests, EnableTwoFactor(r) \/ DisableTwoFactor(r)
  PROVE  IInv'
<1>1. Typed /\ Asked /\ UNCHANGED <<there, session, challenge, spent, most, kept>>
  BY DEF IInv, EnableTwoFactor, DisableTwoFactor, History
<1>2. PICK on \in BOOLEAN : UpdateUser2FA(r, on)
  BY DEF EnableTwoFactor, DisableTwoFactor
<1>3. tfa' \in [Users -> BOOLEAN]
  BY <1>1, <1>2 DEF UpdateUser2FA, Typed
<1>4. /\ \A s \in Requests : request'[s] \in {Resting, request[s], [request[s] EXCEPT !.plain = TRUE]}
      /\ request' = [s \in Requests |-> request'[s]]
  BY <1>2 DEF UpdateUser2FA
<1>5. ASSUME NEW s \in Requests PROVE Follows(s)
  <2>1. request[s] \in RequestType /\ Came(request[s])
    BY <1>1 DEF Typed, Asked
  <2>2. CASE request'[s] = Resting
    <3>1. Resting.at = "idle"
      BY DEF Resting
    <3> QED
      BY <2>2, <3>1, RestingSound DEF Follows
  <2>3. CASE request'[s] = request[s]
    BY <2>1, <2>3 DEF Follows, At
  <2>4. CASE request'[s] = [request[s] EXCEPT !.plain = TRUE]
    BY <2>1, <2>4 DEF Follows, At, RequestType, Came
  <2> QED
    BY <1>4, <2>2, <2>3, <2>4
<1>6. request' \in [Requests -> RequestType]
  BY <1>4, <1>5 DEF Follows
<1> QED
  BY <1>1, <1>3, <1>5, <1>6, CalmKept DEF Typed

\* The end of rows.
LEMMA RowsEnd ==
  ASSUME Sound, IInv,
         \/ \E t \in Sessions : Logout(t) \/ ExpireSession(t)
         \/ \E c \in Challenges : ExpireChallenge(c)
         \/ \E u \in Users : DeleteUser(u)
         \/ CleanExpiredSessions
  PROVE  IInv'
<1>1. Typed /\ Asked /\ UNCHANGED <<request, spent, most, kept>>
  BY DEF IInv, Logout, ExpireSession, ExpireChallenge, DeleteUser, CleanExpiredSessions, History
<1>2. NoRow \in RowType /\ ~NoRow.fresh
  BY DEF NoRow, RowType
<1>3. there' \subseteq Users /\ tfa' \in [Users -> BOOLEAN]
  BY <1>1 DEF Typed, Logout, ExpireSession, ExpireChallenge, DeleteUser, CleanExpiredSessions, Accounts
<1>4. session' \in [Sessions -> RowType]
  <2>1. CASE UNCHANGED session
    BY <1>1, <2>1 DEF Typed
  <2>2. ASSUME NEW t \in Sessions, Logout(t) PROVE session' \in [Sessions -> RowType]
    BY <1>1, <1>2, <2>2 DEF Typed, Logout
  <2>3. ASSUME NEW t \in Sessions, ExpireSession(t) PROVE session' \in [Sessions -> RowType]
    BY <1>1, <2>3 DEF Typed, ExpireSession, RowType
  <2>4. ASSUME NEW u \in Users, DeleteUser(u) PROVE session' \in [Sessions -> RowType]
    BY <1>1, <1>2, <2>4 DEF Typed, DeleteUser, Without
  <2>5. CASE CleanExpiredSessions
    BY <1>1, <1>2, <2>5 DEF Typed, CleanExpiredSessions
  <2> QED
    BY <2>1, <2>2, <2>3, <2>4, <2>5 DEF ExpireChallenge
<1>5. /\ challenge' \in [Challenges -> RowType]
      /\ \A c \in Challenges : challenge'[c].fresh => challenge[c].fresh
  <2>1. CASE UNCHANGED challenge
    BY <1>1, <2>1 DEF Typed
  <2>2. ASSUME NEW d \in Challenges, ExpireChallenge(d)
        PROVE  /\ challenge' \in [Challenges -> RowType]
               /\ \A c \in Challenges : challenge'[c].fresh => challenge[c].fresh
    BY <1>1, <2>2 DEF Typed, ExpireChallenge, RowType
  <2>3. ASSUME NEW u \in Users, DeleteUser(u)
        PROVE  /\ challenge' \in [Challenges -> RowType]
               /\ \A c \in Challenges : challenge'[c].fresh => challenge[c].fresh
    BY <1>1, <1>2, <2>3 DEF Typed, DeleteUser, Without
  <2> QED
    BY <2>1, <2>2, <2>3 DEF Logout, ExpireSession, CleanExpiredSessions
<1>6. \A r \in Requests : Follows(r)
  BY <1>1 DEF Follows, Typed, Asked, At
<1> QED
  BY <1>1, <1>3, <1>4, <1>5, <1>6, CalmKept DEF Typed

----------------------------------------------------------------------------
(* A challenge is given out, read, and turned into a session.              *)

LEMMA ChallengeKept ==
  ASSUME Sound, IInv, NEW r \in Requests, Create2FAChallenge(r)
  PROVE  IInv'
<1>1. Typed /\ UNCHANGED <<there, tfa, session>> /\ Become(r, Resting)
  BY DEF IInv, Create2FAChallenge, Accounts, End
<1>2. PICK c \in Challenges :
        /\ challenge[c] = NoRow /\ Holders(c) = {}
        /\ challenge' = [challenge EXCEPT ![c] = [user |-> request[r].user, fresh |-> TRUE]]
        /\ spent' = [spent EXCEPT ![c] = 0]
        /\ most' = [most EXCEPT ![c] = 0] /\ kept' = [kept EXCEPT ![c] = 0]
  BY DEF Create2FAChallenge
<1>3. [user |-> request[r].user, fresh |-> TRUE] \in RowType /\ 0 \in 0..MaxKept
  BY <1>1 DEF Typed, RequestType, RowType, Sound
<1>4. request' \in [Requests -> RequestType] /\ request'[r] = Resting
      /\ \A q \in Requests \ {r} : request'[q] = request[q]
  BY <1>1, RestingSound DEF Become, Typed
<1>5. Typed'
  BY <1>1, <1>2, <1>3, <1>4 DEF Typed
<1>6. /\ \A d \in Challenges : d = c => spent'[d] = 0 /\ most'[d] = 0 /\ kept'[d] = 0
      /\ \A d \in Challenges \ {c} : spent'[d] = spent[d] /\ most'[d] = most[d]
                                     /\ kept'[d] = kept[d] /\ challenge'[d] = challenge[d]
  BY <1>1, <1>2 DEF Typed
<1>7. \A d \in Challenges : Holders(d)' \subseteq Holders(d) /\ Passed(d)' \subseteq Passed(d)
  BY <1>4, RestingSound DEF Holders, Passed, At, Sound
<1>8. ASSUME NEW d \in Challenges
      PROVE  /\ Cardinality(Holders(d)') <= most'[d] /\ most'[d] <= Cardinality(Requests)
             /\ challenge'[d].fresh => spent'[d] + Cardinality(Passed(d)') <= kept'[d]
             /\ spent'[d] + Cardinality(Holders(d)') <= most'[d] + kept'[d]
  <2>1. /\ Cardinality(Holders(d)) <= most[d] /\ most[d] <= Cardinality(Requests)
        /\ challenge[d].fresh => spent[d] + Cardinality(Passed(d)) <= kept[d]
        /\ spent[d] + Cardinality(Holders(d)) <= most[d] + kept[d]
    BY DEF IInv, Counted, Living, Rationed
  <2>2. spent[d] \in Nat /\ most[d] \in Nat /\ kept[d] \in Nat
    BY <1>1 DEF Typed, Sound
  <2>3. CASE d = c
    <3>1. Holders(d)' = {} /\ Passed(d)' = {} /\ Cardinality({}) = 0
      BY <1>2, <1>7, <2>3, FS_EmptySet DEF Passed
    <3> QED
      BY <1>6, <2>3, <3>1, HoldersFinite
  <2>4. CASE d # c
    <3>1. /\ Cardinality(Holders(d)') <= Cardinality(Holders(d))
          /\ Cardinality(Passed(d)') <= Cardinality(Passed(d))
      BY <1>7, HoldersFinite, FS_Subset
    <3> QED
      BY <1>6, <2>1, <2>2, <2>4, <3>1, HoldersFinite, HoldersFiniteNext
  <2> QED
    BY <2>3, <2>4
<1>9. Counted' /\ Living' /\ Rationed'
  BY <1>8 DEF Counted, Living, Rationed
<1>10. Asked'
  BY <1>4, RestingSound DEF IInv, Asked
<1> QED
  BY <1>5, <1>9, <1>10 DEF IInv

\* Who reads a challenge is one more who may open a session, unless the highest
\* number at once has been seen before; as it lives, every session so far has a
\* failed deletion.
LEMMA ReadChallengeKept ==
  ASSUME Sound, IInv, NEW r \in Requests, Get2FAChallenge(r)
  PROVE  IInv'
<1>1. Typed /\ UNCHANGED <<there, tfa, session, challenge, spent, kept>> /\ At(r, "idle")
  BY DEF IInv, Get2FAChallenge, Accounts
<1>2. PICK c \in Challenges :
        /\ challenge[c].fresh
        /\ Become(r, [Resting EXCEPT !.at = "account", !.user = challenge[c].user, !.slot = c])
        /\ LET now == Cardinality(Holders(c)) + 1 IN
           most' = [most EXCEPT ![c] = IF now > @ THEN now ELSE @]
  BY DEF Get2FAChallenge
<1> DEFINE n == [Resting EXCEPT !.at = "account", !.user = challenge[c].user, !.slot = c]
           now == Cardinality(Holders(c)) + 1
<1>3. n \in RequestType /\ Came(n) /\ n.slot = c /\ n.at = "account"
  <2>1. challenge[c].user \in Users \cup {None}
    BY <1>1 DEF Typed, RowType
  <2> QED
    BY <2>1 DEF Resting, RequestType, Steps, Came
<1>4. request' = [request EXCEPT ![r] = n]
  BY <1>2 DEF Become
<1> HIDE DEF n
<1>5. /\ request' \in [Requests -> RequestType] /\ request'[r] = n
      /\ \A q \in Requests \ {r} : request'[q] = request[q]
  BY <1>1, <1>3, <1>4 DEF Typed
<1>6. /\ most' \in [Challenges -> Nat]
      /\ most'[c] = IF now > most[c] THEN now ELSE most[c]
      /\ \A d \in Challenges \ {c} : most'[d] = most[d]
  BY <1>1, <1>2, HoldersFinite DEF Typed
<1>7. Typed'
  BY <1>1, <1>5, <1>6 DEF Typed
<1>8. /\ \A d \in Challenges \ {c} : Holders(d)' \subseteq Holders(d)
      /\ Holders(c)' \subseteq Holders(c) \cup {r}
      /\ \A d \in Challenges : Passed(d)' \subseteq Passed(d)
  BY <1>3, <1>5 DEF Holders, Passed, At
<1>9. Cardinality(Holders(c)') <= now
  <2>0. IsFiniteSet(Holders(c)) /\ Cardinality(Holders(c)) \in Nat
    BY HoldersFinite
  <2>1. IsFiniteSet(Holders(c) \cup {r}) /\ Cardinality(Holders(c) \cup {r}) <= now
    <3>1. CASE r \in Holders(c)
      <4>1. Holders(c) \cup {r} = Holders(c)
        BY <3>1
      <4> QED
        BY <2>0, <4>1
    <3>2. CASE r \notin Holders(c)
      <4>1. /\ IsFiniteSet(Holders(c) \cup {r})
            /\ Cardinality(Holders(c) \cup {r}) = Cardinality(Holders(c)) + 1
        BY <2>0, <3>2, FS_AddElement
      <4> QED
        BY <2>0, <4>1
    <3> QED
      BY <3>1, <3>2
  <2>2. Cardinality(Holders(c)') <= Cardinality(Holders(c) \cup {r})
    BY <1>8, <2>1, FS_Subset
  <2> QED
    BY <2>1, <2>2, HoldersFinite, HoldersFiniteNext, FS_CardinalityType
<1>11. now <= Cardinality(Requests)
  <2>1. r \in Requests \ Holders(c)
    BY <1>1 DEF IInv, Asked, Holders, At, Came, Sound
  <2>0. IsFiniteSet(Holders(c))
    BY HoldersFinite
  <2>2. Cardinality(Holders(c) \cup {r}) = Cardinality(Holders(c)) + 1
    BY <2>0, <2>1, FS_AddElement
  <2>3. Holders(c) \cup {r} \subseteq Requests
    BY DEF Holders
  <2> QED
    BY <2>2, <2>3, FS_Subset DEF Sound
<1>12. ASSUME NEW d \in Challenges
       PROVE  /\ Cardinality(Holders(d)') <= most'[d] /\ most'[d] <= Cardinality(Requests)
              /\ challenge'[d].fresh => spent'[d] + Cardinality(Passed(d)') <= kept'[d]
              /\ spent'[d] + Cardinality(Holders(d)') <= most'[d] + kept'[d]
  <2>1. /\ Cardinality(Holders(d)) <= most[d] /\ most[d] <= Cardinality(Requests)
        /\ challenge[d].fresh => spent[d] + Cardinality(Passed(d)) <= kept[d]
        /\ spent[d] + Cardinality(Holders(d)) <= most[d] + kept[d]
    BY DEF IInv, Counted, Living, Rationed
  <2>2. spent[d] \in Nat /\ most[d] \in Nat /\ kept[d] \in Nat
    BY <1>1 DEF Typed, Sound
  <2>3. Cardinality(Passed(d)') <= Cardinality(Passed(d))
    BY <1>8, HoldersFinite, FS_Subset
  <2>4. CASE d = c
    <3>1. spent[d] <= kept[d]
      BY <1>2, <2>1, <2>2, <2>4, HoldersFinite
    <3>2. now <= most'[c] /\ most'[c] <= Cardinality(Requests)
      BY <1>6, <1>11, <2>1, <2>2, <2>4, HoldersFinite
    <3>3. most'[c] \in Nat /\ Cardinality(Holders(c)') <= most'[c]
      BY <1>6, <1>9, <3>2, HoldersFinite, HoldersFiniteNext
    <3> HIDE DEF now
    <3> QED
      BY <1>1, <2>1, <2>2, <2>3, <2>4, <3>1, <3>2, <3>3, HoldersFinite, HoldersFiniteNext
  <2>5. CASE d # c
    <3>1. Cardinality(Holders(d)') <= Cardinality(Holders(d))
      BY <1>8, <2>5, HoldersFinite, FS_Subset
    <3> QED
      BY <1>1, <1>6, <2>1, <2>2, <2>3, <2>5, <3>1, HoldersFinite, HoldersFiniteNext
  <2> QED
    BY <2>4, <2>5
<1>13. Counted' /\ Living' /\ Rationed'
  BY <1>12 DEF Counted, Living, Rationed
<1>14. Asked'
  BY <1>3, <1>5 DEF IInv, Asked
<1> QED
  BY <1>7, <1>13, <1>14 DEF IInv

\* The session takes its request away from the challenge.
LEMMA SessionKept ==
  ASSUME Sound, IInv, NEW r \in Requests, CreateSession(r)
  PROVE  IInv'
<1>1. Typed /\ UNCHANGED <<there, tfa, challenge, most, kept>> /\ Become(r, Resting)
  BY DEF IInv, CreateSession, Accounts, End
<1>2. PICK t \in Sessions :
        session' = [session EXCEPT ![t] = [user |-> request[r].user, fresh |-> TRUE]]
  BY DEF CreateSession
<1>3. spent' = [c \in Challenges |-> IF request[r].slot = c THEN spent[c] + 1 ELSE spent[c]]
  BY DEF CreateSession
<1>4. [user |-> request[r].user, fresh |-> TRUE] \in RowType
  BY <1>1 DEF Typed, RequestType, RowType
<1>5. request' \in [Requests -> RequestType] /\ request'[r] = Resting
      /\ \A q \in Requests \ {r} : request'[q] = request[q]
  BY <1>1, RestingSound DEF Become, Typed
<1>6. Typed'
  BY <1>1, <1>2, <1>3, <1>4, <1>5 DEF Typed
<1>7. \A d \in Challenges : Holders(d)' = Holders(d) \ {r} /\ Passed(d)' = Passed(d) \ {r}
  BY <1>5, RestingSound DEF Holders, Passed, At, Sound
<1>8. \A d \in Challenges : request[r].slot = d => r \in Holders(d) /\ r \in Passed(d)
  <2>1. ~At(r, "login") \/ request[r].slot = None
    BY DEF IInv, Asked, Came, At
  <2> QED
    BY <2>1 DEF Holders, Passed, CreateSession, MayOpen, Sound
<1>9. ASSUME NEW d \in Challenges
      PROVE  /\ Cardinality(Holders(d)') <= most'[d] /\ most'[d] <= Cardinality(Requests)
             /\ challenge'[d].fresh => spent'[d] + Cardinality(Passed(d)') <= kept'[d]
             /\ spent'[d] + Cardinality(Holders(d)') <= most'[d] + kept'[d]
  <2>1. /\ Cardinality(Holders(d)) <= most[d] /\ most[d] <= Cardinality(Requests)
        /\ challenge[d].fresh => spent[d] + Cardinality(Passed(d)) <= kept[d]
        /\ spent[d] + Cardinality(Holders(d)) <= most[d] + kept[d]
    BY DEF IInv, Counted, Living, Rationed
  <2>2. spent[d] \in Nat /\ most[d] \in Nat /\ kept[d] \in Nat
    BY <1>1 DEF Typed, Sound
  <2>3. CASE request[r].slot = d
    <3>1. /\ Cardinality(Holders(d)') = Cardinality(Holders(d)) - 1
          /\ Cardinality(Passed(d)') = Cardinality(Passed(d)) - 1
      BY <1>7, <1>8, <2>3, HoldersFinite, FS_RemoveElement
    <3>2. spent'[d] = spent[d] + 1
      BY <1>3, <2>3
    <3> QED
      BY <1>1, <2>1, <2>2, <3>1, <3>2, HoldersFinite
  <2>4. CASE request[r].slot # d
    <3>1. Holders(d)' = Holders(d) /\ Passed(d)' = Passed(d) /\ spent'[d] = spent[d]
      BY <1>3, <1>7, <2>4 DEF Holders, Passed
    <3> QED
      BY <1>1, <2>1, <3>1
  <2> QED
    BY <2>3, <2>4
<1>10. Counted' /\ Living' /\ Rationed'
  BY <1>9 DEF Counted, Living, Rationed
<1>11. Asked'
  BY <1>5, RestingSound DEF IInv, Asked
<1> QED
  BY <1>6, <1>10, <1>11 DEF IInv

----------------------------------------------------------------------------
(* The theorems.                                                           *)

LEMMA NextKept == Sound /\ IInv /\ [Next]_vars => IInv'
<1> SUFFICES ASSUME Sound, IInv, [Next]_vars PROVE IInv'
  OBVIOUS
<1>1. ASSUME NEW r \in Requests, Request(r) PROVE IInv'
  BY <1>1, ReadersKept, ChallengeKept, ReadChallengeKept, ConsumeKept, SessionKept,
     SecondFactorKept DEF Request
<1>2. CASE UNCHANGED vars
  <2>1. \A c \in Challenges : Holders(c)' = Holders(c) /\ Passed(c)' = Passed(c)
    BY <1>2 DEF vars, Holders, Passed, At
  <2> QED
    BY <1>2, <2>1 DEF vars, IInv, Typed, Counted, Living, Rationed, Asked
<1> QED
  BY <1>1, <1>2, RowsEnd DEF Next

\* The invariant holds in every behaviour, however the logins, verifications and
\* changes of the second factor of any finite set of requests overlap.
THEOREM Invariant == ASSUME Sound PROVE Spec => []IInv
BY Initially, NextKept, PTL DEF Spec

\* Every reachable state has its type.
THEOREM Types == ASSUME Sound PROVE Spec => []TypeOK
<1>1. IInv => TypeOK
  <2> SUFFICES ASSUME IInv PROVE TypeOK
    OBVIOUS
  <2>1. ASSUME NEW c \in Challenges PROVE most[c] \in 0..Cardinality(Requests)
    BY HoldersFinite DEF IInv, Counted, Typed
  <2> QED
    BY <2>1 DEF IInv, Typed, TypeOK, Row, RowType, RequestType
<1> QED
  BY <1>1, Invariant, PTL

\* Verify2FA deletes the challenge before it opens the session, and nobody reads
\* a deleted challenge; it goes on when the deletion fails.  So a challenge is
\* good for as many sessions as verifications of it ran at once, and one more for
\* each failed deletion.
THEOREM OneSessionPerChallenge == ASSUME Sound PROVE Spec => []ChallengeOnce
<1>1. IInv => ChallengeOnce
  <2> SUFFICES ASSUME IInv, NEW c \in Challenges PROVE spent[c] <= most[c] + kept[c]
    BY DEF ChallengeOnce
  <2>1. spent[c] + Cardinality(Holders(c)) <= most[c] + kept[c]
        /\ spent[c] \in Nat /\ most[c] \in Nat /\ kept[c] \in Nat
    BY DEF IInv, Rationed, Typed, Sound
  <2> QED
    BY <2>1, HoldersFinite
<1> QED
  BY <1>1, Invariant, PTL

\* However a login came, by the form, a token or a challenge, it opens a session
\* without a code only for an account that had no second factor at some time
\* since the login read it.
THEOREM NobodySkipsTheCode == ASSUME Sound PROVE Spec => SecondFactorAsked
<1>1. IInv /\ [Next]_vars =>
        [\A r \in Requests :
           CreateSession(r) /\ session' # session => request[r].coded \/ request[r].plain]_vars
  BY DEF IInv, Asked, Came, CreateSession, MayOpen, At
<1> QED
  BY <1>1, Invariant, PTL DEF Spec, SecondFactorAsked

=============================================================================
