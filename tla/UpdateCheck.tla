---------------------------- MODULE UpdateCheck ----------------------------
(***************************************************************************)
(* The check for a newer release: CheckUpdate of internal/updater with its *)
(* cache of ten minutes, shared by every request, and CheckUpdateHandler,  *)
(* whose simulation (test=true) edits the result it was given.  A result   *)
(* is a copy of the cache, or the very entry that has just been cached.    *)
(*                                                                         *)
(* A version tag is its numbers, split at the dots, and the parts of its   *)
(* suffix if it has one: "1.10.0-rc.1" has the numbers 1, 10, 0 and the    *)
(* suffix "rc", 1.  Tags whose part before a hyphen is no number (build    *)
(* metadata behind a "+") are left out.                                    *)
(***************************************************************************)
EXTENDS Integers, Sequences

CONSTANTS Viewers,    \* requests that run at once
          Tags        \* the tags of the releases, in the order they come out

VARIABLES latest,   \* the newest release on GitHub
          cached,   \* the entry of the cache
          fresh,    \* it has not expired
          view      \* each request: how far it is, what it was given

vars == <<latest, cached, fresh, view>>

Releases == DOMAIN Tags

\* What is said of a release, and whether a simulation has edited it (history):
\* the program runs the first one.
Entries == [release : Releases \cup {0}, update : BOOLEAN, edited : BOOLEAN]
Nothing == [release |-> 0, update |-> FALSE, edited |-> FALSE]

Steps == {"idle", "asking", "storing", "editing", "answered"}

TypeOK ==
    /\ latest \in Releases
    /\ cached \in Entries /\ fresh \in BOOLEAN
    /\ view \in [Viewers -> [at : Steps, test : BOOLEAN, res : Entries]]

Init ==
    /\ latest = 1 /\ cached = Nothing /\ fresh = FALSE
    /\ view = [v \in Viewers |-> [at |-> "idle", test |-> FALSE, res |-> Nothing]]

At(v, s) == view[v].at = s

----------------------------------------------------------------------------
(* Versions.                                                               *)

\* parseSemver splits at the dots first and strips what is behind a hyphen then:
\* of a suffix only the part up to its first dot.  No number counts as zero.
ParseSemver(tag) ==
    tag.numbers \o [i \in 1..Len(tag.suffix)-1 |->
                       IF tag.suffix[i+1].number THEN tag.suffix[i+1].n ELSE 0]

Lesser(m, n) == IF m < n THEN m ELSE n

\* Mutant of the code: every part is compared, the last difference decides.
CompareVersionsLast(a, b) ==
    LET differ == {i \in 1..Lesser(Len(a), Len(b)) : a[i] # b[i]}
        i      == CHOOSE i \in differ : \A j \in differ : j <= i
    IN  CASE differ # {} /\ a[i] > b[i] -> "newer"
          [] differ # {} /\ a[i] < b[i] -> "older"
          [] differ = {} /\ Len(a) > Len(b) -> "newer"
          [] differ = {} /\ Len(a) < Len(b) -> "older"
          [] OTHER -> "same"

\* CompareVersions: the first part that differs decides, else the longer is newer.
CompareVersions(a, b) ==
    LET differ == {i \in 1..Lesser(Len(a), Len(b)) : a[i] # b[i]}
        i      == CHOOSE i \in differ : \A j \in differ : i <= j
    IN  CASE differ # {} /\ a[i] > b[i] -> "newer"
          [] differ # {} /\ a[i] < b[i] -> "older"
          [] differ = {} /\ Len(a) > Len(b) -> "newer"
          [] differ = {} /\ Len(a) < Len(b) -> "older"
          [] OTHER -> "same"

HasUpdate(n) == CompareVersions(ParseSemver(Tags[n]), ParseSemver(Tags[1])) = "newer"

----------------------------------------------------------------------------
(* CheckUpdate.                                                            *)

Give(v, step, res) == view' = [view EXCEPT ![v].at = step, ![v].res = res]

\* What the handler does with a copy of the cache: a simulation edits the copy.
Shown(test, res) == IF test THEN [res EXCEPT !.update = TRUE, !.edited = TRUE] ELSE res

\* A fresh entry is copied under the lock, unless the request forces a check.
FromCache(v, test) ==
    /\ fresh /\ cached # Nothing
    /\ view' = [view EXCEPT ![v] = [at |-> "answered", test |-> test, res |-> Shown(test, cached)]]
    /\ UNCHANGED <<latest, cached, fresh>>

Ask(v, test, force) ==
    /\ force \/ ~fresh \/ cached = Nothing
    /\ view' = [view EXCEPT ![v] = [at |-> "asking", test |-> test, res |-> Nothing]]
    /\ UNCHANGED <<latest, cached, fresh>>

Check(v) ==
    /\ At(v, "idle") \/ At(v, "answered")
    /\ \E test, force \in BOOLEAN : (~force /\ FromCache(v, test)) \/ Ask(v, test, force)

\* GitHub's answer takes a while to arrive.
Hear(v) ==
    /\ At(v, "asking")
    /\ Give(v, "storing", [release |-> latest, update |-> HasUpdate(latest), edited |-> FALSE])
    /\ UNCHANGED <<latest, cached, fresh>>

\* An error is shown as "no update" and leaves the cache.
HearError(v) ==
    /\ At(v, "asking")
    /\ Give(v, "answered", Nothing)
    /\ UNCHANGED <<latest, cached, fresh>>

\* The entry is cached, over whatever a later request has cached meanwhile, and
\* it is the entry itself that the request goes on with.
Store(v) ==
    /\ At(v, "storing")
    /\ cached' = view[v].res /\ fresh' = TRUE
    /\ Give(v, IF view[v].test THEN "editing" ELSE "answered", view[v].res)
    /\ latest' = latest

\* The simulation edits it without the lock; if it is no longer the cached one,
\* nobody else sees that.  (Two equal entries are one here: a bound.)
Edit(v) ==
    /\ At(v, "editing")
    /\ Give(v, "answered", Shown(TRUE, view[v].res))
    /\ \/ cached = view[v].res /\ cached' = Shown(TRUE, cached)
       \/ UNCHANGED cached
    /\ UNCHANGED <<latest, fresh>>

Expire ==
    /\ fresh /\ fresh' = FALSE
    /\ UNCHANGED <<latest, cached, view>>

\* A release comes out.
Release ==
    /\ latest < Len(Tags) /\ latest' = latest + 1
    /\ UNCHANGED <<cached, fresh, view>>

Next ==
    \/ \E v \in Viewers : Check(v) \/ Hear(v) \/ HearError(v) \/ Store(v) \/ Edit(v)
    \/ Expire \/ Release

Spec == Init /\ [][Next]_vars

----------------------------------------------------------------------------
(* Properties.                                                             *)

\* The order of versions, defined apart from the code and on the numbers alone: a
\* is b with more parts behind it, or is greater in a part before which they agree.
Newer(a, b) ==
    \/ Len(a) > Len(b) /\ \A i \in 1..Len(b) : a[i] = b[i]
    \/ \E i \in 1..Lesser(Len(a), Len(b)) : a[i] > b[i] /\ \A j \in 1..i-1 : a[j] = b[j]

\* A suffix with a dot in it, as of "1.10.0-rc.1".
Dotted(n) == Len(Tags[n].suffix) > 1

\* A request that is no simulation is told of an update exactly when the numbers of
\* the release it is told of are greater than those of the program: a suffix is not
\* compared.  Two answers are excluded by name.  The entry a simulation has edited
\* after it was cached (one answered from the cache edits a copy) tells everyone of
\* an update until it is replaced; and of a dotted suffix the code compares what is
\* behind the first dot, so that "1.10.0-rc.1" is newer than "1.10.0" to it.
HonestAnswer ==
    \A v \in Viewers :
      LET res == view[v].res IN
      At(v, "answered") /\ ~view[v].test /\ res # Nothing
        /\ ~res.edited /\ ~Dotted(res.release) /\ ~Dotted(1)
        => res.update <=> Newer(Tags[res.release].numbers, Tags[1].numbers)
=============================================================================
