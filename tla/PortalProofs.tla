----------------------------- MODULE PortalProofs -----------------------------
(***************************************************************************)
(* Proofs about Portal: what holds of each of its parts holds of the       *)
(* whole, for every value of the constants.  The proofs about accounts,    *)
(* logins and workspaces have modules of their own; those about the        *)
(* updater, the check for updates, the templates and the limiters are      *)
(* here.                                                                   *)
(***************************************************************************)
EXTENDS Portal, WorkspacesProofs, FiniteSetTheorems, WellFoundedInduction, TLAPS

----------------------------------------------------------------------------
(* Numbers.  Induction is by the least counterexample.                     *)

\* A nonempty set of numbers has a least one: of the intervals from 1 to each of
\* them, finite sets, none contains another for ever.
LEMMA Least ==
  ASSUME NEW S \in SUBSET Nat, S # {}
  PROVE  \E n \in S : \A m \in S : n <= m
<1> DEFINE T == {1..n : n \in S}
<1>1. T \subseteq FiniteSubsetsOf(Nat) /\ T # {}
  <2>1. \A n \in S : 1..n \subseteq Nat /\ IsFiniteSet(1..n)
    BY FS_Interval
  <2> QED
    BY <2>1 DEF FiniteSubsetsOf
<1> HIDE DEF T
<1>2. PICK x \in T : \A y \in T : <<y, x>> \notin StrictSubsetOrdering(Nat)
  BY <1>1, WFMin, FS_StrictSubsetOrderingWellFounded
<1>3. PICK n \in S : x = 1..n
  BY <1>2 DEF T
<1>4. ASSUME NEW m \in S, m < n PROVE FALSE
  <2>1. 1..m \in T /\ 1..m \subseteq 1..n /\ n \in 1..n /\ n \notin 1..m
    BY <1>4 DEF T
  <2>2. <<1..m, x>> \in StrictSubsetOrdering(Nat)
    BY <1>3, <2>1 DEF StrictSubsetOrdering
  <2> QED
    BY <1>2, <2>1, <2>2
<1>5. \A m \in S : n <= m
  BY <1>4
<1> QED
  BY <1>5

\* A bounded one has a greatest.
LEMMA Greatest ==
  ASSUME NEW S \in SUBSET Nat, S # {}, NEW b \in Nat, \A n \in S : n <= b
  PROVE  \E n \in S : \A m \in S : m <= n
<1> DEFINE B == {u \in Nat : \A n \in S : n <= u}
<1>1. PICK u \in B : \A v \in B : u <= v
  <2>1. B \in SUBSET Nat /\ b \in B
    OBVIOUS
  <2> QED
    BY <2>1, Least
<1>2. CASE u \in S
  BY <1>1, <1>2
<1>3. CASE u \notin S
  <2>1. u # 0
    <3>1. PICK n \in S : TRUE
      OBVIOUS
    <3>2. n \in Nat /\ n <= u /\ n # u /\ u \in Nat
      BY <1>1, <1>3
    <3> QED
      BY <3>2
  <2>2. u \in Nat /\ u > 0 /\ u - 1 \in Nat
    BY <1>1, <2>1
  <2>3. ASSUME NEW n \in S PROVE n <= u - 1
    <3>1. n \in Nat /\ n <= u /\ n # u
      BY <1>1, <1>3
    <3> QED
      BY <2>2, <3>1
  <2>4. u - 1 \in B
    BY <2>2, <2>3
  <2>5. u <= u - 1
    BY <1>1, <2>4
  <2> QED
    BY <2>2, <2>5
<1> QED
  BY <1>2, <1>3

----------------------------------------------------------------------------
(* The updater.                                                            *)

\* The steps between the backup of the executable and its replacement or the
\* rollback: the executable may be missing or incomplete.
Away == {"replace", "open", "copy", "rollback"}

ApplyType == [at : Updater!Steps, url : Updater!Urls, tmp : Updater!Files, path : Updater!Targets]
SelfType  == [start : Updater!Names, place : Updater!Names, linked : BOOLEAN]

\* One request replaces files, with a complete new version; while it has taken
\* the executable away the backup works, and else the executable does.
Replacement ==
    /\ \A p, q \in Requests :
         apply[p].at \in Updater!Replacing /\ apply[q].at \in Updater!Replacing => p = q
    /\ \A p \in Requests : apply[p].at \in Updater!Replacing =>
         /\ apply[p].tmp = "working"
         /\ apply[p].at \in Away => Updater!Works(apply[p].path + 1)
         /\ apply[p].at \notin Away => Updater!Works(apply[p].path)
    /\ \E n \in Updater!Names : Updater!Works(n)

UpdaterInv == Updater!TypeOK /\ ("excluded" \notin mishaps => Replacement)

LEMMA UpdaterConstants ==
  /\ Updater!Resting \in ApplyType /\ Updater!Resting.at = "idle"
  /\ "idle" \notin Updater!Replacing /\ "idle" \notin Away /\ Away \subseteq Updater!Replacing
  /\ \A n \in Updater!Targets : n \in Nat /\ {n, n + 1} \subseteq Updater!Names /\ n # n + 1
  /\ 0 \in Updater!Names /\ Updater!Names \subseteq Nat
<1>1. MaxOld \in Nat \ {0}
  BY PortalAssumption
<1>2. 0 \in Updater!Targets
  BY <1>1 DEF Updater!Targets, Updater!Names
<1> QED
  BY <1>1, <1>2 DEF Updater!Resting, ApplyType, Updater!Steps, Updater!Urls, Updater!Assets, Updater!Files,
                    Updater!Replacing, Away, Updater!Targets, Updater!Names

LEMMA UpdaterInit == Updater!Init => UpdaterInv
<1> SUFFICES ASSUME Updater!Init PROVE UpdaterInv
  OBVIOUS
<1>1. /\ file = [n \in Updater!Names |-> IF n = 0 THEN "working" ELSE "none"]
      /\ self = Updater!Started(0) /\ running = TRUE /\ mishaps = {}
      /\ apply = [p \in Requests |-> Updater!Resting]
  BY DEF Updater!Init
<1>2. file \in [Updater!Names -> Updater!Files] /\ Updater!Works(0)
  BY <1>1, UpdaterConstants DEF Updater!Files, Updater!Works
<1>3. self \in SelfType
  BY <1>1, UpdaterConstants DEF SelfType, Updater!Started
<1>4. apply \in [Requests -> ApplyType] /\ \A p \in Requests : apply[p].at = "idle"
  BY <1>1, UpdaterConstants
<1>5. Updater!TypeOK
  BY <1>1, <1>2, <1>3, <1>4 DEF Updater!TypeOK, ApplyType, SelfType
<1>6. Replacement
  BY <1>2, <1>4, UpdaterConstants DEF Replacement
<1> QED
  BY <1>5, <1>6 DEF UpdaterInv

\* What a step of a request makes of its entry.
LEMMA UpdaterEntry ==
  ASSUME Updater!TypeOK, NEW p \in Requests
  PROVE  /\ Updater!Stop(p) => /\ apply' \in [Requests -> ApplyType] /\ apply'[p].at = "idle"
                               /\ \A q \in Requests \ {p} : apply'[q] = apply[q]
         /\ \A s \in Updater!Steps : Updater!Goto(p, s) =>
              /\ apply' \in [Requests -> ApplyType]
              /\ apply'[p].at = s /\ apply'[p].tmp = apply[p].tmp /\ apply'[p].path = apply[p].path
              /\ \A q \in Requests \ {p} : apply'[q] = apply[q]
<1>1. apply \in [Requests -> ApplyType]
  BY DEF Updater!TypeOK, ApplyType
<1> QED
  BY <1>1, UpdaterConstants DEF Updater!Stop, Updater!Goto, ApplyType

\* What a step does to the files.
LEMMA UpdaterFiles ==
  ASSUME Updater!TypeOK, NEW n \in Updater!Names
  PROVE  /\ \A f \in Updater!Files : Updater!Put(n, f) =>
              /\ file' \in [Updater!Names -> Updater!Files] /\ self' \in SelfType
              /\ file'[n] = f /\ \A i \in Updater!Names \ {n} : file'[i] = file[i]
         /\ \A m \in Updater!Names \ {n} : Updater!Move(n, m) =>
              /\ file' \in [Updater!Names -> Updater!Files] /\ self' \in SelfType
              /\ file'[m] = file[n] /\ file'[n] = "none"
<1>1. file \in [Updater!Names -> Updater!Files] /\ self \in SelfType /\ "none" \in Updater!Files
  BY DEF Updater!TypeOK, SelfType, Updater!Files
<1>2. \A b \in BOOLEAN : [self EXCEPT !.linked = b] \in SelfType
  BY <1>1 DEF SelfType
<1>3. \A m \in Updater!Names : [self EXCEPT !.place = m] \in SelfType
  BY <1>1 DEF SelfType
<1>4. ASSUME NEW f \in Updater!Files, Updater!Put(n, f)
      PROVE  /\ file' \in [Updater!Names -> Updater!Files] /\ self' \in SelfType
             /\ file'[n] = f /\ \A i \in Updater!Names \ {n} : file'[i] = file[i]
  <2>1. self' = [self EXCEPT !.linked = self.linked /\ self.place # n]
    BY <1>4, Zenon DEF Updater!Put
  <2>2. (self.linked /\ self.place # n) \in BOOLEAN
    OBVIOUS
  <2>3. self' \in SelfType
    BY <1>2, <2>1, <2>2, Zenon
  <2> QED
    BY <1>1, <1>4, <2>3 DEF Updater!Put
<1>5. ASSUME NEW m \in Updater!Names \ {n}, Updater!Move(n, m)
      PROVE  /\ file' \in [Updater!Names -> Updater!Files] /\ self' \in SelfType
             /\ file'[m] = file[n] /\ file'[n] = "none"
  <2>1. \/ self' = [self EXCEPT !.place = m]
        \/ self' = [self EXCEPT !.linked = self.linked /\ self.place # m]
    BY <1>5, Zenon DEF Updater!Move
  <2>2. (self.linked /\ self.place # m) \in BOOLEAN
    OBVIOUS
  <2>3. self' \in SelfType
    BY <1>2, <1>3, <2>1, <2>2, Zenon
  <2> QED
    BY <1>1, <1>5, <2>3 DEF Updater!Move
<1> QED
  BY <1>4, <1>5

\* The address of a release is that of an asset or a page.
LEMMA UpdaterURL == \A assets \in AssetLists : Updater!DownloadURL(assets) \in Updater!Urls
<1> SUFFICES ASSUME NEW assets \in AssetLists PROVE Updater!DownloadURL(assets) \in Updater!Urls
  OBVIOUS
<1> DEFINE M == {i \in DOMAIN assets : Updater!MatchPlatformAsset(assets[i])}
<1>1. assets \in Seq({"tar.gz", "zip", "binary", "deb", "apk"})
  BY PortalAssumption
<1>2. M \in SUBSET Nat /\ Len(assets) \in Nat /\ \A i \in M : i <= Len(assets)
  BY <1>1
<1>3. ASSUME M # {} PROVE (CHOOSE i \in M : \A j \in M : j <= i) \in M
  BY <1>2, <1>3, Greatest
<1>4. \A i \in M : assets[i] \in Updater!Urls
  BY DEF Updater!MatchPlatformAsset, Updater!Urls, Updater!Assets
<1>5. {"apk", "page"} \subseteq Updater!Urls
  BY DEF Updater!Urls, Updater!Assets
<1> QED
  BY <1>3, <1>4, <1>5 DEF Updater!DownloadURL

LEMMA UpdaterTypes == Updater!TypeOK /\ Updater!Next => Updater!TypeOK'
<1> SUFFICES ASSUME Updater!TypeOK, Updater!Next PROVE Updater!TypeOK'
  OBVIOUS
<1> DEFINE Entries == [Requests -> ApplyType]
           Disk    == [Updater!Names -> Updater!Files]
<1>0. /\ apply \in Entries /\ file \in Disk /\ self \in SelfType
      /\ running \in BOOLEAN /\ mishaps \subseteq Updater!Mishaps
  BY DEF Updater!TypeOK, ApplyType, SelfType
<1>1. SUFFICES /\ apply' \in Entries /\ file' \in Disk /\ self' \in SelfType
               /\ running' \in BOOLEAN /\ mishaps' \subseteq Updater!Mishaps
  BY DEF Updater!TypeOK, ApplyType, SelfType
<1>2. {"none", "part"} \subseteq Updater!Files /\ {"excluded", "stuck"} \subseteq Updater!Mishaps
  BY DEF Updater!Files, Updater!Mishaps
<1>3. Updater!Untouched => file' \in Disk /\ self' \in SelfType
  BY <1>0 DEF Updater!Untouched
<1>4. \A n \in Updater!Names : Updater!Started(n) \in SelfType
  BY DEF Updater!Started, SelfType
<1>5. Updater!Executable \subseteq Updater!Names
  BY <1>0 DEF Updater!Executable, SelfType
<1>6. ASSUME NEW p \in Requests, Updater!ApplyUpdate(p) PROVE apply' \in Entries
  <2>1. PICK url \in {"zip", "binary"} \cup {Updater!DownloadURL(assets) : assets \in AssetLists},
             n \in Updater!Executable \cap Updater!Targets :
          apply' = [apply EXCEPT ![p] = [at |-> "download", url |-> url, tmp |-> "none", path |-> n]]
    BY <1>6 DEF Updater!ApplyUpdate
  <2>2. url \in Updater!Urls
    BY <2>1, UpdaterURL DEF Updater!Urls, Updater!Assets
  <2>3. [at |-> "download", url |-> url, tmp |-> "none", path |-> n] \in ApplyType
    BY <2>2, <1>2 DEF ApplyType, Updater!Steps
  <2> QED
    BY <2>1, <2>3, <1>0
<1>7. ASSUME NEW p \in Requests, Updater!Download(p) PROVE apply' \in Entries /\ mishaps' \subseteq Updater!Mishaps
  <2>1. PICK f \in Updater!Fetched(apply[p].url) :
          apply' = [apply EXCEPT ![p] = [@ EXCEPT !.at = "dropOld", !.tmp = f, !.url = "page"]]
    BY <1>7 DEF Updater!Download
  <2>2. f \in Updater!Files
    BY <2>1 DEF Updater!Fetched, Updater!Files
  <2>3. [apply[p] EXCEPT !.at = "dropOld", !.tmp = f, !.url = "page"] \in ApplyType
    BY <2>2, <1>0 DEF ApplyType, Updater!Steps, Updater!Urls
  <2>4. mishaps' \subseteq Updater!Mishaps
    BY <1>0, <1>2, <1>7 DEF Updater!Download
  <2> QED
    BY <2>1, <2>3, <2>4, <1>0
<1>8. \A p \in Requests : Updater!Stop(p) => apply' \in Entries
  BY UpdaterEntry
<1>9. \A p \in Requests : \A s \in {"backup", "replace", "open", "copy", "rollback", "tidy", "restart"} :
        Updater!Goto(p, s) => apply' \in Entries
  BY UpdaterEntry DEF Updater!Steps
<1>10. [q \in Requests |-> Updater!Resting] \in Entries
  BY UpdaterConstants
<1>11. \A p \in Requests : /\ apply[p].tmp \in Updater!Files
                           /\ {apply[p].path, apply[p].path + 1} \subseteq Updater!Names
                           /\ apply[p].path # apply[p].path + 1
  BY <1>0, UpdaterConstants DEF ApplyType
<1>12. \A n \in Updater!Names, f \in Updater!Files :
         /\ Updater!Put(n, f) => file' \in Disk /\ self' \in SelfType
         /\ file' = [file EXCEPT ![n] = f] => file' \in Disk
  BY <1>0, UpdaterFiles
<1>13. \A n \in Updater!Names : \A m \in Updater!Names \ {n} :
         Updater!Move(n, m) => file' \in Disk /\ self' \in SelfType
  BY UpdaterFiles
<1> HIDE DEF Entries, Disk
<1>14. CASE \E p \in Requests : Updater!ApplyUpdate(p)
  BY <1>14, <1>6, <1>0, <1>3 DEF Updater!ApplyUpdate
<1>15. CASE \E p \in Requests : Updater!Work(p)
  <2> PICK p \in Requests : Updater!Work(p)
    BY <1>15
  <2>1. CASE Updater!Download(p)
    BY <2>1, <1>7, <1>0, <1>3 DEF Updater!Download
  <2>2. CASE Updater!Fails(p)
    BY <2>2, <1>8, <1>0, <1>3 DEF Updater!Fails
  <2>3. CASE Updater!DropOld(p)
    BY <2>3, <1>9, <1>0, <1>2, <1>3, <1>11, <1>12 DEF Updater!DropOld
  <2>4. CASE Updater!Backup(p)
    BY <2>4, <1>9, <1>0, <1>11, <1>13 DEF Updater!Backup
  <2>5. CASE Updater!Replace(p)
    BY <2>5, <1>9, <1>0, <1>3, <1>11, <1>12 DEF Updater!Replace
  <2>6. CASE Updater!CopyOpens(p)
    BY <2>6, <1>9, <1>0, <1>2, <1>11, <1>12 DEF Updater!CopyOpens
  <2>7. CASE Updater!CopyEnds(p)
    BY <2>7, <1>9, <1>0, <1>11, <1>12 DEF Updater!CopyEnds
  <2>8. CASE Updater!Rollback(p)
    BY <2>8, <1>8, <1>0, <1>2, <1>3, <1>11, <1>13 DEF Updater!Rollback
  <2>9. CASE Updater!Tidy(p)
    BY <2>9, <1>9, <1>0, <1>2, <1>3, <1>11, <1>12 DEF Updater!Tidy
  <2>10. CASE Updater!RestartSelf(p)
    BY <2>10, <1>4, <1>5, <1>8, <1>0, <1>10 DEF Updater!RestartSelf
  <2> QED
    BY <2>1, <2>2, <2>3, <2>4, <2>5, <2>6, <2>7, <2>8, <2>9, <2>10 DEF Updater!Work
<1>16. CASE Updater!Crash
  BY <1>16, <1>0, <1>3, <1>10 DEF Updater!Crash
<1>17. CASE Updater!Boot
  BY <1>17, <1>0, <1>4, UpdaterConstants DEF Updater!Boot
<1> QED
  BY <1>14, <1>15, <1>16, <1>17 DEF Updater!Next

\* A request that does not replace files keeps the others' business as it is.
LEMMA UpdaterAside ==
  ASSUME NEW p \in Requests, Replacement, apply'[p].at \notin Updater!Replacing,
         \A q \in Requests \ {p} : apply'[q] = apply[q], file' = file
  PROVE  Replacement'
BY DEF Replacement, Updater!Works

\* The one that replaces files says what becomes of them.
LEMMA UpdaterAlone ==
  ASSUME NEW p \in Requests, NEW n \in Updater!Names, file'[n] = "working",
         \A q \in Requests \ {p} : apply'[q] = apply[q] /\ apply[q].at \notin Updater!Replacing,
         apply'[p].at \in Updater!Replacing =>
           /\ apply'[p].tmp = "working"
           /\ n = IF apply'[p].at \in Away THEN apply'[p].path + 1 ELSE apply'[p].path
  PROVE  Replacement'
BY DEF Replacement, Updater!Works

\* The history does not forget; a request that starts to replace files is excluded
\* or as it should be.
LEMMA UpdaterHistory ==
  ASSUME Updater!Next
  PROVE  /\ "excluded" \in mishaps => "excluded" \in mishaps'
         /\ \A p \in Requests : Updater!Download(p) /\ "excluded" \notin mishaps' => ~Updater!Excluded(p)
<1>1. ASSUME NEW p \in Requests, Updater!Download(p)
      PROVE  /\ "excluded" \in mishaps => "excluded" \in mishaps'
             /\ "excluded" \notin mishaps' => ~Updater!Excluded(p)
  BY <1>1 DEF Updater!Download
<1>2. ASSUME \A p \in Requests : ~Updater!Download(p) PROVE mishaps \subseteq mishaps'
  BY <1>2 DEF Updater!Next, Updater!Work, Updater!ApplyUpdate, Updater!Fails,
              Updater!DropOld, Updater!Backup, Updater!Replace, Updater!CopyOpens, Updater!CopyEnds,
              Updater!Rollback, Updater!Tidy, Updater!RestartSelf, Updater!Crash, Updater!Boot
<1> QED
  BY <1>1, <1>2

LEMMA UpdaterKeeps ==
  ASSUME UpdaterInv, Updater!Next, "excluded" \notin mishaps'
  PROVE  Replacement'
<1>0. Updater!TypeOK /\ apply \in [Requests -> ApplyType] /\ file \in [Updater!Names -> Updater!Files]
  BY DEF UpdaterInv, Updater!TypeOK, ApplyType
<1>1. Replacement
  BY UpdaterHistory DEF UpdaterInv
<1>2. ASSUME NEW p \in Requests, Updater!ApplyUpdate(p) PROVE Replacement'
  <2>1. apply'[p].at = "download" /\ \A q \in Requests \ {p} : apply'[q] = apply[q]
    BY <1>0, <1>2 DEF Updater!ApplyUpdate
  <2> QED
    BY <2>1, <1>1, <1>2, UpdaterAside DEF Updater!ApplyUpdate, Updater!Replacing, Updater!Untouched
<1>3. ASSUME NEW p \in Requests, Updater!Work(p) PROVE Replacement'
  <2> DEFINE Others == \A q \in Requests \ {p} : apply'[q] = apply[q]
             Sole   == \A q \in Requests \ {p} : apply[q].at \notin Updater!Replacing
             path   == apply[p].path
  <2>a. /\ path \in Updater!Names /\ path + 1 \in Updater!Names /\ path # path + 1
        /\ apply[p].tmp \in Updater!Files /\ {"none", "part"} \subseteq Updater!Files
    BY <1>0, UpdaterConstants DEF ApplyType, Updater!Files
  <2>0. apply[p].at \in Updater!Replacing =>
          /\ Sole /\ apply[p].tmp = "working"
          /\ apply[p].at \in Away => file[path + 1] = "working"
          /\ apply[p].at \notin Away => file[path] = "working"
    BY <1>1 DEF Replacement, Updater!Works
  <2>b. \A s \in Updater!Steps : Updater!Goto(p, s) =>
          apply'[p].at = s /\ apply'[p].tmp = apply[p].tmp /\ apply'[p].path = path /\ Others
    BY <1>0, UpdaterEntry
  <2>c. Updater!Stop(p) => apply'[p].at = "idle" /\ Others
    BY <1>0, UpdaterEntry
  <2>d. /\ {"dropOld", "backup", "tidy"} \subseteq Updater!Replacing \ Away
        /\ Away \subseteq Updater!Replacing /\ Away \subseteq Updater!Steps
        /\ {"dropOld", "backup", "tidy", "restart"} \subseteq Updater!Steps
        /\ {"idle", "download", "restart"} \cap Updater!Replacing = {}
        /\ {"replace", "open", "copy", "rollback"} = Away
    BY DEF Updater!Replacing, Away, Updater!Steps
  <2>e. ASSUME NEW s \in {"dropOld", "backup", "tidy", "idle", "restart"}, Others, Sole, apply'[p].at = s,
               file'[path] = "working",
               s \in {"dropOld", "backup", "tidy"} => apply'[p].tmp = "working" /\ apply'[p].path = path
        PROVE  Replacement'
    <3> DEFINE n == path
    <3>1. n \in Updater!Names /\ file'[n] = "working"
      BY <2>a, <2>e
    <3>2. apply'[p].at \in Updater!Replacing =>
            apply'[p].tmp = "working" /\ n = (IF apply'[p].at \in Away THEN apply'[p].path + 1 ELSE apply'[p].path)
      BY <2>d, <2>e
    <3> HIDE DEF n
    <3> QED
      BY <2>e, <3>1, <3>2, UpdaterAlone
  <2>f. ASSUME NEW s \in Away, Updater!Goto(p, s), apply[p].at \in Updater!Replacing, file'[path + 1] = "working"
        PROVE  Replacement'
    <3> DEFINE n == path + 1
    <3>1. n \in Updater!Names /\ file'[n] = "working"
      BY <2>a, <2>f
    <3>2. apply'[p].at = s /\ apply'[p].tmp = "working" /\ n = apply'[p].path + 1 /\ Others /\ Sole
      BY <2>0, <2>b, <2>d, <2>f
    <3> HIDE DEF n
    <3> QED
      BY <2>f, <3>1, <3>2, UpdaterAlone
  <2>1. CASE Updater!Download(p)
    <3>1. ~Updater!Excluded(p)
      BY <2>1, UpdaterHistory
    <3>2. PICK f \in Updater!Fetched(apply[p].url) :
            apply' = [apply EXCEPT ![p] = [@ EXCEPT !.at = "dropOld", !.tmp = f, !.url = "page"]]
      BY <2>1 DEF Updater!Download
    <3>3. f = "working"
      BY <3>1, <3>2 DEF Updater!Fetched, Updater!Excluded
    <3>4. apply'[p].at = "dropOld" /\ apply'[p].tmp = "working" /\ apply'[p].path = path /\ Others
      BY <1>0, <3>2, <3>3 DEF ApplyType
    <3>5. Sole /\ file'[path] = "working"
      BY <2>1, <3>1 DEF Updater!Excluded, Updater!Works, Updater!Download, Updater!Untouched
    <3> QED
      BY <2>e, <3>4, <3>5
  <2>2. CASE Updater!Fails(p)
    <3>1. apply'[p].at = "idle" /\ Others /\ file' = file
      BY <2>2, <2>c DEF Updater!Fails, Updater!Untouched
    <3> QED
      BY <1>1, <2>d, <3>1, UpdaterAside
  <2>3. CASE Updater!DropOld(p)
    <3>1. apply[p].at = "dropOld" /\ Updater!Goto(p, "backup")
      BY <2>3 DEF Updater!DropOld, Updater!At
    <3>2. file'[path] = file[path]
      <4>1. CASE Updater!Untouched
        BY <4>1 DEF Updater!Untouched
      <4>2. CASE Updater!Put(path + 1, "none")
        BY <1>0, <2>a, <4>2, UpdaterFiles
      <4> QED
        BY <2>3, <4>1, <4>2 DEF Updater!DropOld
    <3>3. Others /\ Sole /\ apply'[p].at = "backup" /\ apply'[p].tmp = "working" /\ apply'[p].path = path
          /\ file'[path] = "working"
      BY <2>0, <2>b, <2>d, <3>1, <3>2
    <3> QED
      BY <2>e, <3>3
  <2>4. CASE Updater!Backup(p)
    <3>1. apply[p].at = "backup" /\ Updater!Goto(p, "replace") /\ Updater!Move(path, path + 1)
      BY <2>4 DEF Updater!Backup, Updater!At
    <3>2. file'[path + 1] = file[path]
      BY <1>0, <2>a, <3>1, UpdaterFiles
    <3>3. apply[p].at \in Updater!Replacing /\ file'[path + 1] = "working" /\ "replace" \in Away
      BY <2>0, <2>d, <3>1, <3>2
    <3> QED
      BY <2>f, <3>1, <3>3
  <2>5. ASSUME Updater!Goto(p, "tidy"), apply[p].at \in Away, file'[path] = apply[p].tmp
        PROVE  Replacement'
    <3>1. Others /\ Sole /\ apply'[p].at = "tidy" /\ apply'[p].tmp = "working" /\ apply'[p].path = path
          /\ file'[path] = "working"
      BY <2>0, <2>b, <2>d, <2>5
    <3> QED
      BY <2>e, <3>1
  <2>6. ASSUME NEW s \in Away, Updater!Goto(p, s), apply[p].at \in Away, file'[path + 1] = file[path + 1]
        PROVE  Replacement'
    <3>1. apply[p].at \in Updater!Replacing /\ file'[path + 1] = "working"
      BY <2>0, <2>d, <2>6
    <3> QED
      BY <2>f, <2>6, <3>1
  <2>7. CASE Updater!Replace(p)
    <3>1. apply[p].at \in Away
      BY <2>7, <2>d DEF Updater!Replace, Updater!At
    <3>2. CASE Updater!Put(path, apply[p].tmp) /\ Updater!Goto(p, "tidy")
      <4>1. file'[path] = apply[p].tmp
        BY <1>0, <2>a, <3>2, UpdaterFiles
      <4> QED
        BY <2>5, <3>1, <3>2, <4>1
    <3>3. CASE Updater!Untouched /\ Updater!Goto(p, "open")
      BY <2>6, <2>d, <3>1, <3>3 DEF Updater!Untouched
    <3> QED
      BY <2>7, <3>2, <3>3 DEF Updater!Replace
  <2>8. CASE Updater!CopyOpens(p)
    <3>1. apply[p].at \in Away
      BY <2>8, <2>d DEF Updater!CopyOpens, Updater!At
    <3>2. file'[path + 1] = file[path + 1]
      BY <1>0, <2>a, <2>8 DEF Updater!CopyOpens
    <3>3. Updater!Goto(p, "copy") \/ Updater!Goto(p, "rollback")
      BY <2>8 DEF Updater!CopyOpens
    <3> QED
      BY <2>6, <2>d, <3>1, <3>2, <3>3
  <2>9. CASE Updater!CopyEnds(p)
    <3>1. apply[p].at \in Away
      BY <2>9, <2>d DEF Updater!CopyEnds, Updater!At
    <3>2. CASE file' = [file EXCEPT ![path] = apply[p].tmp] /\ Updater!Goto(p, "tidy")
      BY <1>0, <2>a, <2>5, <3>1, <3>2
    <3>3. CASE file' = file /\ Updater!Goto(p, "rollback")
      BY <2>6, <2>d, <3>1, <3>3
    <3> QED
      BY <2>9, <3>2, <3>3 DEF Updater!CopyEnds
  <2>10. CASE Updater!Rollback(p)
    <3>1. apply[p].at = "rollback" /\ Updater!Stop(p)
      BY <2>10 DEF Updater!Rollback, Updater!At
    <3>2. Sole /\ file[path + 1] = "working" /\ Others /\ apply'[p].at = "idle"
      BY <2>0, <2>c, <2>d, <3>1
    <3>3. CASE Updater!Move(path + 1, path)
      <4>1. file'[path] = file[path + 1]
        BY <1>0, <2>a, <3>3, UpdaterFiles
      <4> QED
        BY <2>e, <3>2, <4>1
    <3>4. CASE Updater!Untouched
      BY <1>1, <2>d, <3>2, <3>4, UpdaterAside DEF Updater!Untouched
    <3> QED
      BY <2>10, <3>3, <3>4 DEF Updater!Rollback
  <2>11. CASE Updater!Tidy(p)
    <3>1. apply[p].at = "tidy" /\ Updater!Goto(p, "restart")
      BY <2>11 DEF Updater!Tidy, Updater!At
    <3>2. file'[path] = file[path]
      <4>1. CASE Updater!Untouched
        BY <4>1 DEF Updater!Untouched
      <4>2. CASE Updater!Put(path + 1, "none")
        BY <1>0, <2>a, <4>2, UpdaterFiles
      <4> QED
        BY <2>11, <4>1, <4>2 DEF Updater!Tidy
    <3>3. Others /\ Sole /\ apply'[p].at = "restart" /\ file'[path] = "working"
      BY <2>0, <2>b, <2>d, <3>1, <3>2
    <3> QED
      BY <2>e, <3>3
  <2>12. CASE Updater!RestartSelf(p)
    <3>1. CASE Updater!Stop(p)
      BY <1>1, <2>c, <2>d, <2>12, <3>1, UpdaterAside DEF Updater!RestartSelf
    <3>2. CASE apply' = [q \in Requests |-> Updater!Resting]
      <4>1. \A q \in Requests : apply'[q].at \notin Updater!Replacing
        BY <3>2, UpdaterConstants
      <4> QED
        BY <1>1, <2>12, <4>1 DEF Updater!RestartSelf, Replacement, Updater!Works
    <3> QED
      BY <2>12, <3>1, <3>2 DEF Updater!RestartSelf
  <2> QED
    BY <1>3, <2>1, <2>2, <2>3, <2>4, <2>7, <2>8, <2>9, <2>10, <2>11, <2>12 DEF Updater!Work
<1>4. CASE Updater!Crash
  <2>1. \A q \in Requests : apply'[q].at \notin Updater!Replacing
    BY <1>4, UpdaterConstants DEF Updater!Crash
  <2> QED
    BY <1>1, <1>4, <2>1 DEF Updater!Crash, Updater!Untouched, Replacement, Updater!Works
<1>5. CASE Updater!Boot
  BY <1>1, <1>5 DEF Updater!Boot, Replacement, Updater!Works
<1> QED
  BY <1>2, <1>3, <1>4, <1>5 DEF Updater!Next

LEMMA UpdaterStep == UpdaterInv /\ [Updater!Next]_updater => UpdaterInv'
<1>1. UpdaterInv /\ Updater!Next => UpdaterInv'
  BY UpdaterTypes, UpdaterKeeps DEF UpdaterInv
<1>2. UpdaterInv /\ UNCHANGED updater => UpdaterInv'
  BY DEF UpdaterInv, updater, Updater!TypeOK, Replacement, Updater!Works
<1> QED
  BY <1>1, <1>2

\* A request that leaves the replacing, the program staying up, leaves a working
\* version in place; if the rename back has failed, the backup.
LEMMA UpdaterUndoes ==
  ASSUME UpdaterInv, Updater!Next, "excluded" \notin mishaps, running' = running,
         NEW p \in Requests, apply[p].at \in Updater!Replacing, apply'[p].at = "idle",
         \A q \in Requests \ {p} : apply'[q] = apply[q]
  PROVE  \/ file'[apply[p].path] = "working"
         \/ /\ apply[p].at = "rollback" /\ "stuck" \in mishaps'
            /\ file'[apply[p].path + 1] = "working"
<1>0. Replacement /\ Updater!TypeOK /\ apply \in [Requests -> ApplyType] /\ apply[p].at # "idle"
  BY UpdaterConstants DEF UpdaterInv, Updater!TypeOK, ApplyType
<1>1. ~Updater!Crash /\ ~Updater!Boot
  BY DEF Updater!Crash, Updater!Boot
<1>2. ASSUME NEW q \in Requests, Updater!ApplyUpdate(q) PROVE FALSE
  <2>1. apply[q].at = "idle" /\ apply'[q].at = "download"
    BY <1>0, <1>2 DEF Updater!ApplyUpdate, Updater!At
  <2> QED
    BY <1>0, <2>1
<1>3. PICK q \in Requests : Updater!Work(q)
  BY <1>1, <1>2 DEF Updater!Next
<1>4. \A s \in Updater!Steps \ {"idle"} : Updater!Goto(q, s) => apply[q].at = s /\ q # p
  BY <1>0, UpdaterEntry
<1>5. /\ ~Updater!Download(q) /\ ~Updater!DropOld(q) /\ ~Updater!Backup(q) /\ ~Updater!Replace(q)
      /\ ~Updater!CopyOpens(q) /\ ~Updater!CopyEnds(q) /\ ~Updater!Tidy(q)
  <2>1. {"backup", "replace", "tidy", "open", "copy", "rollback", "restart"} \subseteq Updater!Steps \ {"idle"}
    BY DEF Updater!Steps
  <2>2. ~Updater!Download(q)
    <3>1. Updater!Download(q) => apply[q].at = "download" /\ apply'[q].at = "dropOld"
      BY <1>0 DEF Updater!Download, Updater!At
    <3> QED
      BY <3>1
  <2> QED
    BY <1>4, <2>1, <2>2 DEF Updater!DropOld, Updater!Backup, Updater!Replace, Updater!CopyOpens,
                            Updater!CopyEnds, Updater!Tidy, Updater!At
<1>6. CASE Updater!Fails(q)
  <2>1. apply[q].at # "idle" /\ apply'[q].at = "idle"
    BY <1>0, <1>6, UpdaterEntry DEF Updater!Fails, Updater!At
  <2>2. q = p /\ file' = file
    BY <1>6, <2>1 DEF Updater!Fails, Updater!Untouched
  <2>3. apply[p].at = "backup" /\ "backup" \notin Away
    BY <1>6, <2>2 DEF Updater!Fails, Updater!At, Updater!Replacing, Away
  <2> QED
    BY <1>0, <2>2, <2>3 DEF Replacement, Updater!Works
<1>7. CASE Updater!Rollback(q)
  <2>1. apply[q].at = "rollback" /\ apply'[q].at = "idle"
    BY <1>0, <1>7, UpdaterEntry DEF Updater!Rollback, Updater!At
  <2>2. q = p
    BY <2>1
  <2>3. file[apply[p].path + 1] = "working"
    BY <1>0, <2>1, <2>2 DEF Replacement, Away, Updater!Works
  <2>4. CASE Updater!Untouched /\ mishaps' = mishaps \cup {"stuck"}
    BY <2>1, <2>2, <2>3, <2>4 DEF Updater!Untouched
  <2>5. CASE Updater!Move(apply[p].path + 1, apply[p].path)
    <3>1. apply[p].path \in Updater!Targets
      BY <1>0 DEF ApplyType
    <3>2. file'[apply[p].path] = file[apply[p].path + 1]
      BY <1>0, <2>5, <3>1, UpdaterConstants, UpdaterFiles
    <3> QED
      BY <2>3, <3>2
  <2> QED
    BY <1>7, <2>2, <2>4, <2>5 DEF Updater!Rollback
<1>8. ~Updater!RestartSelf(q)
  <2> SUFFICES ASSUME Updater!RestartSelf(q) PROVE FALSE
    OBVIOUS
  <2>1. apply[q].at = "restart" /\ "restart" \notin Updater!Replacing
    BY DEF Updater!RestartSelf, Updater!At, Updater!Replacing
  <2>2. apply'[q].at = "idle"
    BY <1>0, UpdaterConstants, UpdaterEntry DEF Updater!RestartSelf
  <2> QED
    BY <2>1, <2>2
<1> QED
  BY <1>3, <1>5, <1>6, <1>7, <1>8 DEF Updater!Work

----------------------------------------------------------------------------
(* The whole: each part does its own steps or nothing.                     *)

LEMMA Parts ==
  ASSUME [PortalNext]_portal
  PROVE  /\ [Next]_workspaces /\ [Accounts!Next]_accounts /\ [Logins!Next]_logins
         /\ [Templates!Next]_templates /\ [Limiter!Next]_limiter
         /\ [Updater!Next]_updater /\ [Checks!Next]_checks
BY DEF PortalNext, In, portal

LEMMA UpdaterSafe == PortalSpec => []UpdaterInv
<1>1. PortalInit => UpdaterInv
  BY UpdaterInit DEF PortalInit
<1>2. UpdaterInv /\ [PortalNext]_portal => UpdaterInv'
  BY Parts, UpdaterStep
<1> QED
  BY <1>1, <1>2, PTL DEF PortalSpec

(* A crash at any step and the failure of any step, the rename back        *)
(* included, leave a working version, unless requests replace files at     *)
(* once, something else than a tarball or a binary is installed, or what   *)
(* is to be replaced does not work: ApplyBinarySelfUpdate.                 *)
THEOREM AWorkingVersionStays == PortalSpec => []WorkingCopySurvives
<1>1. UpdaterInv => WorkingCopySurvives
  BY DEF UpdaterInv, Replacement, WorkingCopySurvives, Updater!WorkingCopySurvives
<1> QED
  BY UpdaterSafe, <1>1, PTL

(* A request that ends without success leaves a working version in its     *)
(* place, or in that of the backup if the rename back has failed: the      *)
(* rollback of ApplyBinarySelfUpdate, whose error is dropped.              *)
THEOREM FailuresAreUndone == PortalSpec => FailureIsUndone
<1> DEFINE Undone == \A p \in Requests :
                       /\ "excluded" \notin mishaps
                       /\ apply[p].at \in Updater!Replacing /\ apply'[p].at = "idle"
                       /\ running' = running /\ \A q \in Requests \ {p} : apply'[q] = apply[q]
                       => \/ file'[apply[p].path] = "working"
                          \/ /\ apply[p].at = "rollback" /\ "stuck" \in mishaps'
                             /\ file'[apply[p].path + 1] = "working"
<1>1. UpdaterInv /\ [PortalNext]_portal => [Undone]_updater
  <2> SUFFICES ASSUME UpdaterInv, Updater!Next PROVE Undone
    BY Parts
  <2> QED
    BY UpdaterUndoes
<1>2. [Undone]_updater => [Undone]_(Updater!vars)
  BY DEF updater, Updater!vars
<1> QED
  BY UpdaterSafe, <1>1, <1>2, PTL DEF PortalSpec, FailureIsUndone, Updater!FailureIsUndone

----------------------------------------------------------------------------
(* The check for updates.                                                  *)

\* CompareVersions finds the first difference: it is the order of versions.
LEMMA ComparesVersions ==
  ASSUME NEW a \in Seq(Nat), NEW b \in Seq(Nat)
  PROVE  Checks!CompareVersions(a, b) = "newer" <=> Checks!Newer(a, b)
<1> DEFINE common == 1..Checks!Lesser(Len(a), Len(b))
           differ == {i \in common : a[i] # b[i]}
           first  == CHOOSE i \in differ : \A j \in differ : i <= j
<1>1. /\ Len(a) \in Nat /\ Len(b) \in Nat /\ common \in SUBSET Nat
      /\ \A i \in common : a[i] \in Nat /\ b[i] \in Nat
      /\ \A i \in common : \A j \in 1..i-1 : j \in common
      /\ Len(a) > Len(b) => common = 1..Len(b)
  BY DEF Checks!Lesser
<1>2. Checks!CompareVersions(a, b) = "newer"
        <=> \/ differ # {} /\ a[first] > b[first]
            \/ differ = {} /\ Len(a) > Len(b)
  <2>1. differ # {} => first \in differ
    BY <1>1, Least
  <2>2. differ # {} => a[first] \in Nat /\ b[first] \in Nat /\ a[first] # b[first]
    BY <2>1, <1>1
  <2>0. Checks!CompareVersions(a, b) =
          CASE differ # {} /\ a[first] > b[first] -> "newer"
            [] differ # {} /\ a[first] < b[first] -> "older"
            [] differ = {} /\ Len(a) > Len(b) -> "newer"
            [] differ = {} /\ Len(a) < Len(b) -> "older"
            [] OTHER -> "same"
    BY DEF Checks!CompareVersions
  <2> HIDE DEF first, differ
  <2>3. CASE differ # {} /\ a[first] > b[first]
    <3>1. ~(a[first] < b[first])
      BY <2>2, <2>3
    <3> QED
      BY <2>0, <2>3, <3>1
  <2>4. CASE differ # {} /\ ~(a[first] > b[first])
    <3>1. a[first] < b[first]
      BY <2>2, <2>4
    <3> QED
      BY <2>0, <2>4, <3>1
  <2>5. CASE differ = {}
    BY <1>1, <2>0, <2>5
  <2> QED
    BY <2>3, <2>4, <2>5
<1>3. Checks!Newer(a, b)
        <=> \/ Len(a) > Len(b) /\ \A i \in 1..Len(b) : a[i] = b[i]
            \/ \E i \in common : a[i] > b[i] /\ \A j \in 1..i-1 : a[j] = b[j]
  BY DEF Checks!Newer
<1>4. CASE differ # {}
  <2>1. first \in differ /\ \A j \in differ : first <= j
    BY <1>1, <1>4, Least
  <2> HIDE DEF first
  <2>2. \A j \in 1..first-1 : a[j] = b[j]
    BY <1>1, <2>1
  <2>3. \A i \in common : a[i] > b[i] /\ (\A j \in 1..i-1 : a[j] = b[j]) => i = first
    <3> SUFFICES ASSUME NEW i \in common, a[i] > b[i], \A j \in 1..i-1 : a[j] = b[j] PROVE i = first
      OBVIOUS
    <3>1. i \in differ
      BY <1>1
    <3>2. first \notin 1..i-1
      BY <2>1
    <3> QED
      BY <1>1, <2>1, <3>1, <3>2
  <2>4. ~(Len(a) > Len(b) /\ \A i \in 1..Len(b) : a[i] = b[i])
    BY <1>1, <2>1
  <2> QED
    BY <1>2, <1>3, <1>4, <2>1, <2>2, <2>3, <2>4
<1>5. CASE differ = {}
  <2>1. \A i \in common : a[i] = b[i] /\ ~(a[i] > b[i])
    <3>1. \A i \in common : a[i] = b[i]
      BY <1>5
    <3>2. \A m \in Nat : ~(m > m)
      OBVIOUS
    <3> HIDE DEF common
    <3> QED
      BY <1>1, <3>1, <3>2
  <2> QED
    BY <1>1, <1>2, <1>3, <1>5, <2>1
<1> QED
  BY <1>4, <1>5

\* What is said of a release is true, unless a simulation has edited it.
Honest(res) ==
    res # Checks!Nothing /\ ~res.edited =>
      /\ res.release \in Checks!Releases
      /\ res.update = Checks!HasUpdate(res.release)

\* Everything that is said, in the cache or to a request, is honest.
ChecksInv == Checks!TypeOK /\ Honest(cached) /\ \A v \in Requests : Honest(view[v].res)

Views == [at : Checks!Steps, test : BOOLEAN, res : Checks!Entries]

\* Without a dot in the suffix, the numbers are what is compared.
LEMMA ChecksReleases ==
  /\ Checks!Releases = 1..Len(Tags) /\ Len(Tags) \in Nat \ {0}
  /\ \A n \in Checks!Releases : ~Checks!Dotted(n) /\ ~Checks!Dotted(1) =>
       (Checks!HasUpdate(n) <=> Checks!Newer(Tags[n].numbers, Tags[1].numbers))
  /\ \A n : Checks!HasUpdate(n) \in BOOLEAN
  /\ Checks!Nothing \in Checks!Entries /\ Honest(Checks!Nothing)
  /\ \A e \in Checks!Entries : Checks!Shown(TRUE, e) \in Checks!Entries /\ Honest(Checks!Shown(TRUE, e))
<1> DEFINE Suffix == Seq([number : BOOLEAN, n : Nat])
           Tag    == [numbers : Seq(Nat), suffix : Suffix]
<1>1. Tags \in Seq(Tag) /\ Tags # <<>>
  BY PortalAssumption
<1>2. Checks!Releases = 1..Len(Tags) /\ Len(Tags) \in Nat \ {0} /\ \A n \in Checks!Releases : Tags[n] \in Tag
  <2> HIDE DEF Tag
  <2>1. DOMAIN Tags = 1..Len(Tags) /\ Len(Tags) \in Nat \ {0} /\ \A n \in 1..Len(Tags) : Tags[n] \in Tag
    BY <1>1
  <2> QED
    BY <2>1 DEF Checks!Releases
<1>3. ASSUME NEW n \in Checks!Releases, ~Checks!Dotted(n)
      PROVE  Checks!ParseSemver(Tags[n]) = Tags[n].numbers /\ Tags[n].numbers \in Seq(Nat)
  <2>1. Tags[n].numbers \in Seq(Nat) /\ Tags[n].suffix \in Suffix
    BY <1>2, <1>3
  <2>2. Len(Tags[n].suffix) \in Nat /\ Len(Tags[n].suffix) <= 1
    BY <1>3, <2>1 DEF Checks!Dotted
  <2> DEFINE suffix == Tags[n].suffix
             rest   == [i \in 1..Len(suffix)-1 |-> IF suffix[i+1].number THEN suffix[i+1].n ELSE 0]
  <2>3. 1..Len(suffix)-1 = {}
    BY <2>2
  <2>4. rest \in [1..0 -> Nat] /\ 1..0 = {}
    BY <2>3
  <2> HIDE DEF rest, suffix
  <2>5. rest = <<>>
    BY <2>4
  <2>6. Checks!ParseSemver(Tags[n]) = Tags[n].numbers \o rest
    BY DEF Checks!ParseSemver, rest, suffix
  <2> HIDE DEF Suffix
  <2> QED
    BY <2>1, <2>5, <2>6
<1>4. \A n : Checks!HasUpdate(n) \in BOOLEAN
  BY DEF Checks!HasUpdate
<1>5. 1 \in Checks!Releases
  BY <1>2
<1>6. \A n \in Checks!Releases : ~Checks!Dotted(n) /\ ~Checks!Dotted(1) =>
       (Checks!HasUpdate(n) <=> Checks!Newer(Tags[n].numbers, Tags[1].numbers))
  BY <1>3, <1>5, ComparesVersions DEF Checks!HasUpdate
<1>7. Checks!Nothing \in Checks!Entries /\ Honest(Checks!Nothing)
  BY DEF Checks!Nothing, Checks!Entries, Honest
<1>8. \A e \in Checks!Entries : Checks!Shown(TRUE, e) \in Checks!Entries /\ Honest(Checks!Shown(TRUE, e))
  BY DEF Checks!Entries, Checks!Shown, Honest
<1> QED
  BY <1>2, <1>4, <1>6, <1>7, <1>8

LEMMA ChecksInit == Checks!Init => ChecksInv
<1> SUFFICES ASSUME Checks!Init PROVE ChecksInv
  OBVIOUS
<1> DEFINE e == [at |-> "idle", test |-> FALSE, res |-> Checks!Nothing]
<1>1. e \in Views /\ e.res = Checks!Nothing
  BY ChecksReleases DEF Checks!Steps, Views
<1>2. view = [v \in Requests |-> e] /\ latest = 1 /\ cached = Checks!Nothing /\ fresh = FALSE
  BY DEF Checks!Init
<1> HIDE DEF e
<1>3. view \in [Requests -> Views] /\ latest \in Checks!Releases
  BY <1>1, <1>2, ChecksReleases
<1> QED
  BY <1>1, <1>2, <1>3, ChecksReleases DEF ChecksInv, Checks!TypeOK, Views

\* What a request is given leaves the others.
LEMMA ChecksGive ==
  ASSUME ChecksInv, NEW v \in Requests, NEW e \in Views,
         view' = [view EXCEPT ![v] = e], Honest(e.res),
         latest' \in Checks!Releases, cached' \in Checks!Entries, fresh' \in BOOLEAN, Honest(cached')
  PROVE  ChecksInv'
<1>1. view \in [Requests -> Views]
  BY DEF ChecksInv, Checks!TypeOK, Views
<1>2. view' \in [Requests -> Views]
  BY <1>1
<1>3. \A w \in Requests : Honest(view'[w].res)
  BY <1>1 DEF ChecksInv
<1> QED
  BY <1>2, <1>3 DEF ChecksInv, Checks!TypeOK, Views, Honest

LEMMA ChecksStep == ChecksInv /\ [Checks!Next]_checks => ChecksInv'
<1> SUFFICES ASSUME ChecksInv, [Checks!Next]_checks PROVE ChecksInv'
  OBVIOUS
<1>0. /\ latest \in Checks!Releases /\ cached \in Checks!Entries /\ fresh \in BOOLEAN
      /\ view \in [Requests -> Views]
      /\ Honest(cached) /\ \A v \in Requests : Honest(view[v].res)
  BY DEF ChecksInv, Checks!TypeOK, Views
<1>1. ASSUME NEW v \in Requests, NEW test \in BOOLEAN, Checks!FromCache(v, test) PROVE ChecksInv'
  <2> DEFINE res == Checks!Shown(test, cached)
             e   == [at |-> "answered", test |-> test, res |-> res]
  <2>1. res \in Checks!Entries /\ Honest(res)
    <3>1. CASE test
      BY <1>0, <3>1, ChecksReleases
    <3>2. CASE ~test
      BY <1>0, <3>2 DEF Checks!Shown
    <3> QED
      BY <3>1, <3>2
  <2>2. view' = [view EXCEPT ![v] = e] /\ UNCHANGED <<latest, cached, fresh>>
    BY <1>1 DEF Checks!FromCache
  <2> HIDE DEF res
  <2>3. e \in Views /\ e.res = res
    BY <2>1 DEF Checks!Steps, Views
  <2> HIDE DEF e
  <2> QED
    BY <1>0, <2>1, <2>2, <2>3, ChecksGive
<1>2. ASSUME NEW v \in Requests, NEW test \in BOOLEAN, NEW force \in BOOLEAN, Checks!Ask(v, test, force) PROVE ChecksInv'
  <2> DEFINE e == [at |-> "asking", test |-> test, res |-> Checks!Nothing]
  <2>1. e \in Views /\ e.res = Checks!Nothing
    BY ChecksReleases DEF Checks!Steps, Views
  <2>2. view' = [view EXCEPT ![v] = e] /\ UNCHANGED <<latest, cached, fresh>>
    BY <1>2 DEF Checks!Ask
  <2> HIDE DEF e
  <2> QED
    BY <1>0, <2>1, <2>2, ChecksReleases, ChecksGive
<1>3. ASSUME NEW v \in Requests, NEW s \in Checks!Steps, NEW res \in Checks!Entries, Checks!Give(v, s, res)
      PROVE  \E e \in Views : e.res = res /\ view' = [view EXCEPT ![v] = e]
  <2> DEFINE e == [view[v] EXCEPT !.at = s, !.res = res]
  <2>1. view[v] \in Views
    BY <1>0
  <2>2. e \in Views /\ e.res = res
    BY <2>1 DEF Views
  <2>3. view' = [view EXCEPT ![v] = e]
    BY <1>0, <1>3 DEF Checks!Give
  <2> HIDE DEF e
  <2> QED
    BY <2>2, <2>3
<1>4. ASSUME NEW v \in Requests, Checks!Hear(v) PROVE ChecksInv'
  <2> DEFINE res == [release |-> latest, update |-> Checks!HasUpdate(latest), edited |-> FALSE]
  <2>1. res \in Checks!Entries /\ Honest(res)
    BY <1>0, ChecksReleases DEF Checks!Entries, Honest
  <2>2. "storing" \in Checks!Steps /\ Checks!Give(v, "storing", res) /\ UNCHANGED <<latest, cached, fresh>>
    BY <1>4 DEF Checks!Steps, Checks!Hear
  <2> HIDE DEF res
  <2>3. PICK e \in Views : e.res = res /\ view' = [view EXCEPT ![v] = e]
    BY <1>3, <2>1, <2>2
  <2> QED
    BY <1>0, <2>1, <2>2, <2>3, ChecksGive
<1>5. ASSUME NEW v \in Requests, Checks!HearError(v) PROVE ChecksInv'
  <2>1. "answered" \in Checks!Steps /\ Checks!Give(v, "answered", Checks!Nothing) /\ UNCHANGED <<latest, cached, fresh>>
    BY <1>5 DEF Checks!Steps, Checks!HearError
  <2>2. PICK e \in Views : e.res = Checks!Nothing /\ view' = [view EXCEPT ![v] = e]
    BY <1>3, <2>1, ChecksReleases
  <2> QED
    BY <1>0, <2>1, <2>2, ChecksGive, ChecksReleases
<1>6. ASSUME NEW v \in Requests, Checks!Store(v) PROVE ChecksInv'
  <2> DEFINE s == IF view[v].test THEN "editing" ELSE "answered"
  <2>1. s \in Checks!Steps /\ view[v].res \in Checks!Entries /\ Honest(view[v].res)
    BY <1>0 DEF Checks!Steps, Views
  <2>2. Checks!Give(v, s, view[v].res) /\ cached' = view[v].res /\ fresh' = TRUE /\ latest' = latest
    BY <1>6 DEF Checks!Store
  <2> HIDE DEF s
  <2>3. PICK e \in Views : e.res = view[v].res /\ view' = [view EXCEPT ![v] = e]
    BY <1>3, <2>1, <2>2
  <2> QED
    BY <1>0, <2>1, <2>2, <2>3, ChecksGive
<1>7. ASSUME NEW v \in Requests, Checks!Edit(v) PROVE ChecksInv'
  <2> DEFINE res == Checks!Shown(TRUE, view[v].res)
             own == Checks!Shown(TRUE, cached)
  <2>1. view[v].res \in Checks!Entries
    BY <1>0 DEF Views
  <2>2. res \in Checks!Entries /\ Honest(res) /\ own \in Checks!Entries /\ Honest(own)
    BY <1>0, <2>1, ChecksReleases
  <2>3. /\ Checks!Give(v, "answered", res) /\ "answered" \in Checks!Steps
        /\ cached' = own \/ cached' = cached
        /\ latest' = latest /\ fresh' = fresh
    BY <1>7 DEF Checks!Edit, Checks!Steps
  <2> HIDE DEF res, own
  <2>4. PICK e \in Views : e.res = res /\ view' = [view EXCEPT ![v] = e]
    BY <1>3, <2>2, <2>3
  <2> QED
    BY <1>0, <2>2, <2>3, <2>4, ChecksGive
<1>8. ASSUME UNCHANGED <<cached, view>>, latest' \in Checks!Releases, fresh' \in BOOLEAN
      PROVE  ChecksInv'
  BY <1>8 DEF ChecksInv, Checks!TypeOK, Honest
<1>9. CASE Checks!Expire
  BY <1>0, <1>8, <1>9 DEF Checks!Expire
<1>10. CASE Checks!Release
  <2>1. latest' \in Checks!Releases
    BY <1>0, <1>10, ChecksReleases DEF Checks!Release
  <2> QED
    BY <1>0, <1>8, <1>10, <2>1 DEF Checks!Release
<1>11. CASE UNCHANGED checks
  BY <1>0, <1>8, <1>11 DEF checks
<1> QED
  BY <1>1, <1>2, <1>4, <1>5, <1>6, <1>7, <1>9, <1>10, <1>11 DEF Checks!Next, Checks!Check

LEMMA ChecksSafe == PortalSpec => []ChecksInv
<1>1. PortalInit => ChecksInv
  BY ChecksInit DEF PortalInit
<1>2. ChecksInv /\ [PortalNext]_portal => ChecksInv'
  BY Parts, ChecksStep
<1> QED
  BY <1>1, <1>2, PTL DEF PortalSpec

(* Whoever looks for an update is told of one exactly when the numbers of  *)
(* the release are greater than the program's, unless a simulation has     *)
(* edited the shared entry or a suffix has a dot: CheckUpdate, its cache,  *)
(* CheckUpdateHandler and CompareVersions.                                 *)
THEOREM AnswersAreHonest == PortalSpec => []HonestAnswer
<1>1. ChecksInv => HonestAnswer
  <2> SUFFICES ASSUME ChecksInv, NEW v \in Requests, view[v].res # Checks!Nothing, ~view[v].res.edited,
                      ~Checks!Dotted(view[v].res.release), ~Checks!Dotted(1)
               PROVE  view[v].res.update
                        <=> Checks!Newer(Tags[view[v].res.release].numbers, Tags[1].numbers)
    BY DEF HonestAnswer, Checks!HonestAnswer
  <2>1. Honest(view[v].res)
    BY DEF ChecksInv
  <2> QED
    BY <2>1, ChecksReleases DEF Honest
<1> QED
  BY ChecksSafe, <1>1, PTL

----------------------------------------------------------------------------
(* The templates and their histories.                                      *)

EditType  == [at : Templates!Steps, t : 0..MaxTemplates, content : Templates!Texts,
              is_default : BOOLEAN, version : Templates!Numbers]
EntryType == [version : Templates!Numbers, content : Templates!Texts]
RowType   == [row : {"never", "here", "gone"}, content : Templates!Texts, is_default : BOOLEAN]

\* A request is about a template once it has named or inserted it.
Concerned ==
    \A r \in Requests :
      IF edit[r].at \in {"idle", "insert"} THEN edit[r].t = 0
      ELSE edit[r].t \in Templates!Tids /\ template[edit[r].t].row # "never"

\* A template that is not there has no history.
NoRelics == \A t \in Templates!Tids : t \notin Templates!Kept => versions[t] = <<>>

\* No number is ahead of its place.
NotAhead ==
    /\ \A t \in Templates!Tids : \A i \in DOMAIN versions[t] : versions[t][i].version <= i
    /\ \A r \in Requests :
         edit[r].at = "record" /\ edit[r].t \in Templates!Kept
           => edit[r].version \in 0..Len(versions[edit[r].t]) + 1

\* A history grows by one entry for each request that is about its template.
About(t) == {r \in Requests : edit[r].t = t}

Bounded ==
    \A t \in Templates!Tids :
      Len(versions[t]) + Cardinality(About(t)) <= MaxVersions + Cardinality(Requests)

HistoryType == Templates!TypeOK /\ Concerned /\ NoRelics /\ NotAhead /\ Bounded

\* The content of a template is one it has had.
TextsHad == \A t \in Templates!Kept : template[t].content \in had[t]

\* The numbers have no gap, unless one could not be read.
InOrder(vs) == Templates!Unnumbered(vs) \/ \A i \in DOMAIN vs : vs[i].version = i

\* The newest entry is the content in use, unless that has been lost.
Newest(t) ==
    \/ template[t].content \in lost[t]
    \/ versions[t] # <<>> /\ versions[t][Len(versions[t])].content = template[t].content

\* The text of a template is the one of the request that has written it, or the
\* newest in its history.
Calm ==
    /\ \A r, q \in Templates!Busy : r = q
    /\ \A t \in Templates!Kept : InOrder(versions[t])
    /\ \A t \in Templates!Kept : (\A r \in Requests : edit[r].t = t => edit[r].at = "update") => Newest(t)
    /\ \A r \in Requests :
         edit[r].t \in Templates!Kept /\ edit[r].at \in Templates!Owing =>
           /\ template[edit[r].t].content = edit[r].content
           /\ edit[r].at = "first" => versions[edit[r].t] = <<>>
           /\ edit[r].at = "record" => \/ edit[r].version \in {0, Len(versions[edit[r].t]) + 1}
                                       \/ Templates!Unnumbered(versions[edit[r].t])

TemplatesInv == HistoryType /\ TextsHad /\ Templates!EveryContentKept /\ (~overlapped => Calm)

LEMMA TemplatesConstants ==
  /\ IsFiniteSet(Requests) /\ Cardinality(Requests) \in Nat /\ MaxTemplates \in Nat /\ MaxVersions \in Nat \ {0}
  /\ Templates!Numbers = 0..MaxVersions + Cardinality(Requests)
  /\ Templates!Tids = 1..MaxTemplates
  /\ Templates!Resting \in EditType /\ Templates!Resting.t = 0 /\ Templates!Resting.at = "idle"
  /\ Seed \in Templates!Texts /\ Blank \in Templates!Texts
<1>1. /\ IsFiniteSet(Requests) /\ Cardinality(Requests) \in Nat /\ MaxTemplates \in Nat /\ MaxVersions \in Nat \ {0}
  BY PortalAssumption, FS_CardinalityType
<1>2. Templates!Numbers = 0..MaxVersions + Cardinality(Requests)
  <2>1. Templates!Cardinality(Requests) = Cardinality(Requests)
    BY DEF Templates!Cardinality, Cardinality
  <2> QED
    BY <2>1 DEF Templates!Numbers
<1>3. Templates!Resting \in EditType /\ Templates!Resting.t = 0 /\ Templates!Resting.at = "idle"
  BY <1>1, <1>2 DEF Templates!Resting, EditType, Templates!Steps, Templates!Texts
<1> QED
  BY <1>1, <1>2, <1>3, PortalAssumption DEF Templates!Tids, Templates!Texts

\* COALESCE(MAX(version), 0) + 1
LEMMA TemplatesNext ==
  ASSUME NEW vs \in Seq(EntryType), \A i \in DOMAIN vs : vs[i].version <= i
  PROVE  /\ Templates!NextVersion(vs) \in 1..Len(vs) + 1
         /\ (\A i \in DOMAIN vs : vs[i].version = i) => Templates!NextVersion(vs) = Len(vs) + 1
<1> DEFINE S == {0} \cup {vs[i].version : i \in DOMAIN vs}
<1>1. Len(vs) \in Nat /\ DOMAIN vs = 1..Len(vs) /\ \A i \in 1..Len(vs) : vs[i] \in EntryType
  OBVIOUS
<1>2. \A i \in 1..Len(vs) : vs[i].version \in Nat /\ vs[i].version <= Len(vs)
  <2>1. \A e \in EntryType : e.version \in Nat
    BY TemplatesConstants DEF EntryType
  <2> QED
    BY <1>1, <2>1
<1>3. S \in SUBSET Nat /\ S # {} /\ 0 \in S /\ \A x \in S : x <= Len(vs)
  BY <1>1, <1>2
<1>4. PICK m \in S : \A y \in S : m >= y
  <2> HIDE DEF S
  <2> QED
    BY <1>1, <1>3, Greatest
<1>5. m \in Nat /\ m <= Len(vs)
  BY <1>3, <1>4
<1>6. Templates!NextVersion(vs) = m + 1
  <2>1. \A x \in S : (\A y \in S : x >= y) => x = m
    <3> HIDE DEF S
    <3> QED
      BY <1>3, <1>4
  <2>2. (CHOOSE x \in S : \A y \in S : x >= y) = m
    <3> HIDE DEF S
    <3> QED
      BY <1>4, <2>1
  <2> QED
    BY <2>2 DEF Templates!NextVersion, Templates!Max
<1>7. (\A i \in DOMAIN vs : vs[i].version = i) => m = Len(vs)
  <2> SUFFICES ASSUME \A i \in DOMAIN vs : vs[i].version = i PROVE m = Len(vs)
    OBVIOUS
  <2>1. Len(vs) \in S
    <3>1. CASE Len(vs) = 0
      BY <3>1
    <3>2. CASE Len(vs) # 0
      <4>1. Len(vs) \in DOMAIN vs
        BY <1>1, <3>2
      <4> QED
        BY <4>1
    <3> QED
      BY <3>1, <3>2
  <2>2. m >= Len(vs)
    BY <1>4, <2>1
  <2>3. Len(vs) \in Nat
    BY <1>1
  <2> QED
    BY <1>5, <2>2, <2>3
<1>8. Len(vs) \in Nat
  BY <1>1
<1>9. m + 1 \in 1..Len(vs) + 1
  BY <1>5, <1>8
<1> QED
  BY <1>6, <1>7, <1>9

LEMMA TemplatesIds ==
  /\ Templates!Room => Templates!NewId \in Templates!Tids /\ template[Templates!NewId].row = "never"
  /\ Templates!Kept # {} => Templates!Min(Templates!Kept) \in Templates!Kept
<1> DEFINE N == {t \in Templates!Tids : template[t].row = "never"}
<1>1. \A S \in SUBSET Templates!Tids : S # {} => Templates!Min(S) \in S
  <2> SUFFICES ASSUME NEW S \in SUBSET Templates!Tids, S # {} PROVE Templates!Min(S) \in S
    OBVIOUS
  <2>1. S \in SUBSET Nat
    BY TemplatesConstants
  <2> QED
    BY <2>1, Least DEF Templates!Min
<1>2. Templates!Room => N # {}
  BY DEF Templates!Room
<1>3. N \in SUBSET Templates!Tids /\ Templates!Kept \in SUBSET Templates!Tids
  BY DEF Templates!Kept
<1>4. Templates!NewId = Templates!Min(N)
  BY DEF Templates!NewId
<1>5. \A t \in N : t \in Templates!Tids /\ template[t].row = "never"
  OBVIOUS
<1> HIDE DEF N
<1> QED
  BY <1>1, <1>2, <1>3, <1>4, <1>5

LEMMA TemplatesBecome ==
  ASSUME Templates!TypeOK, NEW r \in Requests, NEW q \in EditType, Templates!Become(r, q)
  PROVE  /\ edit' \in [Requests -> EditType] /\ edit'[r] = q
         /\ \A s \in Requests \ {r} : edit'[s] = edit[s]
         /\ overlapped' \in BOOLEAN /\ (overlapped => overlapped')
         /\ ~overlapped' => \A s \in Requests \ {r} : edit[s].at = "idle"
<1>1. edit \in [Requests -> EditType] /\ overlapped \in BOOLEAN
  BY DEF Templates!TypeOK, EditType
<1>2. edit' = [edit EXCEPT ![r] = q] /\ overlapped' = (overlapped \/ Templates!Busy \ {r} # {})
  BY DEF Templates!Become
<1>3. (overlapped => overlapped') /\ (~overlapped' => Templates!Busy \ {r} = {}) /\ overlapped' \in BOOLEAN
  BY <1>2, Zenon
<1>4. Templates!Busy \ {r} = {} => \A s \in Requests \ {r} : edit[s].at = "idle"
  BY DEF Templates!Busy
<1> QED
  BY <1>1, <1>2, <1>3, <1>4

\* How many requests are about a template.
LEMMA AboutCounts ==
  ASSUME NEW t
  PROVE  /\ Cardinality(About(t)) \in Nat /\ Cardinality(About(t)') \in Nat
         /\ Cardinality(About(t)') <= Cardinality(Requests)
         /\ About(t)' \subseteq About(t) => Cardinality(About(t)') <= Cardinality(About(t))
         /\ \A r \in About(t) :
              /\ Cardinality(About(t)) >= 1
              /\ About(t)' = About(t) \ {r} => Cardinality(About(t)') = Cardinality(About(t)) - 1
<1>1. About(t) \subseteq Requests /\ About(t)' \subseteq Requests
  BY DEF About
<1>2. IsFiniteSet(About(t)) /\ IsFiniteSet(About(t)') /\ IsFiniteSet(Requests)
  BY <1>1, TemplatesConstants, FS_Subset
<1>3. Cardinality(About(t)) \in Nat /\ Cardinality(About(t)') \in Nat
  BY <1>2, FS_CardinalityType
<1>4. Cardinality(About(t)') <= Cardinality(Requests)
  BY <1>1, <1>2, FS_Subset
<1>5. About(t)' \subseteq About(t) => Cardinality(About(t)') <= Cardinality(About(t))
  BY <1>2, FS_Subset
<1>6. ASSUME NEW r \in About(t)
      PROVE  /\ Cardinality(About(t) \ {r}) = Cardinality(About(t)) - 1
             /\ Cardinality(About(t)) # 0
  BY <1>2, FS_RemoveElement, FS_EmptySet
<1>7. ASSUME NEW r \in About(t)
      PROVE  /\ Cardinality(About(t)) >= 1
             /\ About(t)' = About(t) \ {r} => Cardinality(About(t)') = Cardinality(About(t)) - 1
  <2>1. Cardinality(About(t)) # 0 /\ Cardinality(About(t) \ {r}) = Cardinality(About(t)) - 1
    BY <1>6
  <2>2. Cardinality(About(t)) >= 1
    BY <1>3, <2>1
  <2> QED
    BY <2>1, <2>2
<1> QED
  BY <1>3, <1>4, <1>5, <1>7

\* A statement that leaves the histories alone, of a request that goes on, perhaps
\* about a template with room in its history.
LEMMA HistoriesStay ==
  ASSUME HistoryType, NEW r \in Requests, NEW q \in EditType,
         edit' \in [Requests -> EditType], edit'[r] = q, \A s \in Requests \ {r} : edit'[s] = edit[s],
         overlapped' \in BOOLEAN, lost' = lost, silent' \in BOOLEAN,
         template' \in [Templates!Tids -> RowType], had' \in [Templates!Tids -> SUBSET Templates!Texts],
         \A t \in Templates!Tids : \/ template'[t].row = template[t].row
                                   \/ template[t].row = "never" /\ template'[t].row = "here",
         versions' = versions,
         q.at \in {"idle", "insert"} => q.t = 0,
         q.at \notin {"idle", "insert"} => q.t \in Templates!Tids /\ template'[q.t].row # "never",
         q.at = "record" /\ q.t \in Templates!Kept' => q.version \in 0..Len(versions[q.t]) + 1,
         q.t = edit[r].t \/ (q.t \in Templates!Tids => Len(versions[q.t]) < MaxVersions)
  PROVE  HistoryType'
<1>0. /\ versions \in [Templates!Tids -> Seq(EntryType)] /\ edit \in [Requests -> EditType]
      /\ Templates!Kept' = {t \in Templates!Tids : template'[t].row = "here"}
      /\ Templates!Kept = {t \in Templates!Tids : template[t].row = "here"}
  BY DEF HistoryType, Templates!TypeOK, EntryType, EditType, Templates!Kept
<1>1. Templates!TypeOK'
  BY <1>0 DEF HistoryType, Templates!TypeOK, EntryType, EditType, RowType
<1>2. Concerned'
  <2>1. ASSUME NEW s \in Requests
        PROVE  IF edit'[s].at \in {"idle", "insert"} THEN edit'[s].t = 0
               ELSE edit'[s].t \in Templates!Tids /\ template'[edit'[s].t].row # "never"
    <3>1. CASE s = r
      BY <3>1
    <3>2. CASE s # r
      <4>1. edit'[s] = edit[s]
        BY <3>2
      <4>2. IF edit[s].at \in {"idle", "insert"} THEN edit[s].t = 0
            ELSE edit[s].t \in Templates!Tids /\ template[edit[s].t].row # "never"
        BY DEF HistoryType, Concerned
      <4> QED
        BY <4>1, <4>2
    <3> QED
      BY <3>1, <3>2
  <2> QED
    BY <2>1 DEF Concerned, Templates!Tids
<1>3. NoRelics'
  BY <1>0 DEF HistoryType, NoRelics, Templates!Tids
<1>4. NotAhead'
  <2>1. ASSUME NEW s \in Requests, edit'[s].at = "record", edit'[s].t \in Templates!Kept'
        PROVE  edit'[s].version \in 0..Len(versions'[edit'[s].t]) + 1
    <3>1. CASE s = r
      BY <3>1, <2>1
    <3>2. CASE s # r
      <4>1. edit[s].at = "record" /\ edit[s].t \in Templates!Tids /\ template[edit[s].t].row # "never"
        BY <2>1, <3>2 DEF HistoryType, Concerned
      <4>2. edit[s].t \in Templates!Kept
        BY <1>0, <2>1, <3>2, <4>1
      <4> QED
        BY <2>1, <3>2, <4>1, <4>2 DEF HistoryType, NotAhead
    <3> QED
      BY <3>1, <3>2
  <2>2. \A t \in Templates!Tids : \A i \in DOMAIN versions'[t] : versions'[t][i].version <= i
    BY DEF HistoryType, NotAhead
  <2> QED
    BY <2>1, <2>2 DEF NotAhead, Templates!Tids
<1>5. Bounded'
  <2>1. ASSUME NEW t \in Templates!Tids
        PROVE  Len(versions'[t]) + Cardinality(About(t)') <= MaxVersions + Cardinality(Requests)
    <3>0. /\ Len(versions[t]) \in Nat
          /\ Len(versions[t]) + Cardinality(About(t)) <= MaxVersions + Cardinality(Requests)
      BY <1>0 DEF HistoryType, Bounded
    <3>1. CASE q.t = edit[r].t \/ q.t # t
      <4>1. About(t)' \subseteq About(t)
        BY <3>1 DEF About
      <4>2. /\ Cardinality(About(t)') <= Cardinality(About(t))
            /\ Cardinality(About(t)') \in Nat /\ Cardinality(About(t)) \in Nat
        BY <4>1, AboutCounts
      <4> QED
        BY <3>0, <4>2, TemplatesConstants
    <3>2. CASE q.t # edit[r].t /\ q.t = t
      <4>1. Len(versions[t]) < MaxVersions
        BY <3>2
      <4>2. Cardinality(About(t)') \in Nat /\ Cardinality(About(t)') <= Cardinality(Requests)
        BY AboutCounts
      <4> QED
        BY <3>0, <4>1, <4>2, TemplatesConstants
    <3> QED
      BY <3>1, <3>2
  <2> QED
    BY <2>1 DEF Bounded, Templates!Tids, About
<1> QED
  BY <1>1, <1>2, <1>3, <1>4, <1>5 DEF HistoryType

\* The statement that adds to a history, at the end of a request: it succeeds or not.
Grown(t, n, c) ==
    /\ t \in Templates!Kept
    /\ lost'[t] = lost[t] \ {c}
    /\ n \in 0..Len(versions[t]) + 1
    /\ Len(versions'[t]) = Len(versions[t]) + 1
    /\ \A i \in 1..Len(versions[t]) : versions'[t][i] = versions[t][i]
    /\ versions'[t][Len(versions[t]) + 1].version = n
    /\ versions'[t][Len(versions[t]) + 1].content = c

Missed(t, c) == versions' = versions /\ lost'[t] = lost[t] \cup (had[t] \cap {c})

LEMMA Growing ==
  ASSUME HistoryType, NEW r \in Requests, Templates!Become(r, Templates!Resting),
         edit[r].at \in {"first", "record"}, NEW n, n = IF edit[r].at = "first" THEN 1 ELSE edit[r].version,
         Templates!AddVersion(edit[r].t, n, edit[r].content),
         UNCHANGED <<template, had>>, silent' = FALSE
  PROVE  /\ Templates!Kept' = Templates!Kept /\ edit[r].t \in Templates!Tids
         /\ edit' \in [Requests -> EditType] /\ edit'[r] = Templates!Resting
         /\ \A s \in Requests \ {r} : edit'[s] = edit[s]
         /\ overlapped' \in BOOLEAN
         /\ versions' \in [Templates!Tids -> Seq(EntryType)]
         /\ lost' \in [Templates!Tids -> SUBSET Templates!Texts]
         /\ \A u \in Templates!Tids \ {edit[r].t} : versions'[u] = versions[u] /\ lost'[u] = lost[u]
         /\ Grown(edit[r].t, n, edit[r].content) \/ Missed(edit[r].t, edit[r].content)
<1> DEFINE t == edit[r].t
           c == edit[r].content
           e == [version |-> n, content |-> c]
<1>0. /\ versions \in [Templates!Tids -> Seq(EntryType)] /\ edit \in [Requests -> EditType]
      /\ lost \in [Templates!Tids -> SUBSET Templates!Texts]
      /\ Templates!Kept' = Templates!Kept
      /\ t \in Templates!Tids /\ c \in Templates!Texts
  BY DEF HistoryType, Concerned, Templates!TypeOK, EntryType, EditType, Templates!Kept, Templates!Tids
<1>1. /\ edit' \in [Requests -> EditType] /\ edit'[r] = Templates!Resting
      /\ \A s \in Requests \ {r} : edit'[s] = edit[s]
      /\ overlapped' \in BOOLEAN
  BY TemplatesBecome, TemplatesConstants DEF HistoryType
<1>2. r \in About(t)
  BY DEF About
<1>3. t \in Templates!Kept => n \in 0..Len(versions[t]) + 1 /\ n \in Templates!Numbers
  <2> SUFFICES ASSUME t \in Templates!Kept PROVE n \in 0..Len(versions[t]) + 1 /\ n \in Templates!Numbers
    OBVIOUS
  <2>1. Len(versions[t]) \in Nat
    BY <1>0
  <2>2. n \in 0..Len(versions[t]) + 1
    BY <2>1 DEF HistoryType, NotAhead
  <2>3. Len(versions[t]) + 1 <= MaxVersions + Cardinality(Requests)
    <3>1. Len(versions[t]) + Cardinality(About(t)) <= MaxVersions + Cardinality(Requests)
      BY <1>0 DEF HistoryType, Bounded
    <3>2. Cardinality(About(t)) >= 1 /\ Cardinality(About(t)) \in Nat
      BY <1>2, AboutCounts
    <3> QED
      BY <2>1, <3>1, <3>2, TemplatesConstants
  <2> QED
    BY <2>1, <2>2, <2>3, TemplatesConstants
<1>4. t \in Templates!Kept => e \in EntryType /\ e.version = n /\ e.content = c
  BY <1>0, <1>3 DEF EntryType
<1>5. CASE /\ t \in Templates!Kept
           /\ versions' = [versions EXCEPT ![t] = Append(@, e)]
           /\ lost' = [lost EXCEPT ![t] = @ \ {c}]
  <2> HIDE DEF e, c, t
  <2>1. /\ versions' \in [Templates!Tids -> Seq(EntryType)] /\ versions'[t] = Append(versions[t], e)
        /\ \A u \in Templates!Tids \ {t} : versions'[u] = versions[u]
    <3>1. Append(versions[t], e) \in Seq(EntryType)
      BY <1>0, <1>4, <1>5
    <3> QED
      BY <1>0, <1>5, <3>1
  <2>2. /\ lost' \in [Templates!Tids -> SUBSET Templates!Texts] /\ lost'[t] = lost[t] \ {c}
        /\ \A u \in Templates!Tids \ {t} : lost'[u] = lost[u]
    BY <1>0, <1>5
  <2>3. /\ Len(versions'[t]) = Len(versions[t]) + 1
        /\ \A i \in 1..Len(versions[t]) : versions'[t][i] = versions[t][i]
        /\ versions'[t][Len(versions[t]) + 1] = e
    BY <1>0, <1>4, <1>5, <2>1
  <2>4. Grown(t, n, c)
    BY <1>3, <1>4, <1>5, <2>2, <2>3 DEF Grown
  <2> QED
    BY <1>0, <1>1, <2>1, <2>2, <2>4 DEF t, c
<1>6. CASE versions' = versions /\ lost' = [lost EXCEPT ![t] = @ \cup (had[t] \cap {c})]
  <2> HIDE DEF e, c, t
  <2>1. /\ lost' \in [Templates!Tids -> SUBSET Templates!Texts] /\ lost'[t] = lost[t] \cup (had[t] \cap {c})
        /\ \A u \in Templates!Tids \ {t} : lost'[u] = lost[u]
    BY <1>0, <1>6
  <2>2. Missed(t, c)
    BY <1>6, <2>1 DEF Missed
  <2> QED
    BY <1>0, <1>1, <1>6, <2>1, <2>2 DEF t, c
<1> QED
  BY <1>5, <1>6 DEF Templates!AddVersion, Templates!Recorded

LEMMA HistoryGrows ==
  ASSUME HistoryType, NEW r \in Requests, Templates!Become(r, Templates!Resting),
         edit[r].at \in {"first", "record"}, NEW n, n = IF edit[r].at = "first" THEN 1 ELSE edit[r].version,
         Templates!AddVersion(edit[r].t, n, edit[r].content),
         UNCHANGED <<template, had>>, silent' = FALSE
  PROVE  HistoryType'
<1> DEFINE t == edit[r].t
<1>0. /\ versions \in [Templates!Tids -> Seq(EntryType)] /\ edit \in [Requests -> EditType]
      /\ Templates!Kept' = Templates!Kept /\ t \in Templates!Tids
  BY Growing DEF HistoryType, Templates!TypeOK, EntryType, EditType
<1>1. /\ edit' \in [Requests -> EditType] /\ edit'[r] = Templates!Resting
      /\ \A s \in Requests \ {r} : edit'[s] = edit[s]
      /\ overlapped' \in BOOLEAN
  BY Growing
<1>2. r \in About(t)
  BY DEF About
<1>5. /\ \A u \in Templates!Tids \ {t} : versions'[u] = versions[u]
      /\ versions' \in [Templates!Tids -> Seq(EntryType)]
      /\ lost' \in [Templates!Tids -> SUBSET Templates!Texts]
  BY Growing
<1>6. \/ versions' = versions
      \/ /\ t \in Templates!Kept
         /\ n \in 0..Len(versions[t]) + 1
         /\ Len(versions'[t]) = Len(versions[t]) + 1
         /\ \A i \in 1..Len(versions[t]) : versions'[t][i] = versions[t][i]
         /\ versions'[t][Len(versions[t]) + 1].version = n
  <2>1. Grown(t, n, edit[r].content) \/ Missed(t, edit[r].content)
    BY Growing
  <2> QED
    BY <2>1 DEF Grown, Missed
<1> HIDE DEF t
<1>7. Templates!TypeOK'
  BY <1>1, <1>5 DEF HistoryType, Templates!TypeOK, EntryType, EditType
<1>8. Concerned'
  BY <1>1, TemplatesConstants DEF HistoryType, Concerned, Templates!Tids
<1>9. NoRelics'
  BY <1>0, <1>5, <1>6 DEF HistoryType, NoRelics, Templates!Tids
<1>10. NotAhead'
  <2>1. ASSUME NEW u \in Templates!Tids, NEW i \in DOMAIN versions'[u] PROVE versions'[u][i].version <= i
    <3>1. CASE u = t /\ versions' # versions
      <4>1. Len(versions[t]) \in Nat /\ i \in 1..Len(versions[t]) + 1
        BY <1>0, <1>5, <1>6, <2>1, <3>1
      <4>2. CASE i = Len(versions[t]) + 1
        BY <1>6, <3>1, <4>1, <4>2
      <4>3. CASE i \in 1..Len(versions[t])
        <5>1. versions'[t][i] = versions[t][i] /\ i \in DOMAIN versions[t]
          BY <1>0, <1>6, <3>1, <4>3
        <5> QED
          BY <5>1, <3>1 DEF HistoryType, NotAhead
      <4> QED
        BY <4>1, <4>2, <4>3
    <3>2. CASE ~(u = t /\ versions' # versions)
      <4>1. versions'[u] = versions[u]
        BY <1>5, <3>2
      <4> QED
        BY <4>1, <2>1 DEF HistoryType, NotAhead
    <3> QED
      BY <3>1, <3>2
  <2>2. ASSUME NEW s \in Requests, edit'[s].at = "record", edit'[s].t \in Templates!Kept
        PROVE  edit'[s].version \in 0..Len(versions'[edit'[s].t]) + 1
    <3>1. edit'[s] = edit[s] /\ edit[s].t \in Templates!Tids
      BY <1>1, <2>2, TemplatesConstants DEF Templates!Kept
    <3>2. edit[s].version \in 0..Len(versions[edit[s].t]) + 1
      BY <2>2, <3>1 DEF HistoryType, NotAhead
    <3>3. Len(versions[edit[s].t]) \in Nat
      BY <1>0, <3>1
    <3>4. Len(versions'[edit[s].t]) \in {Len(versions[edit[s].t]), Len(versions[edit[s].t]) + 1}
      BY <1>5, <1>6, <3>1
    <3> QED
      BY <3>1, <3>2, <3>3, <3>4
  <2> QED
    BY <1>0, <2>1, <2>2 DEF NotAhead, Templates!Tids
<1>11. Bounded'
  <2>1. ASSUME NEW u \in Templates!Tids
        PROVE  Len(versions'[u]) + Cardinality(About(u)') <= MaxVersions + Cardinality(Requests)
    <3>0. /\ Len(versions[u]) \in Nat
          /\ Len(versions[u]) + Cardinality(About(u)) <= MaxVersions + Cardinality(Requests)
      BY <1>0 DEF HistoryType, Bounded
    <3>1. About(u)' = About(u) \ {r}
      BY <1>1, TemplatesConstants DEF About, Templates!Tids
    <3>2. CASE u = t
      <4>1. Cardinality(About(u)') = Cardinality(About(u)) - 1
        BY <1>2, <3>1, <3>2, AboutCounts
      <4>2. Len(versions'[u]) \in {Len(versions[u]), Len(versions[u]) + 1}
        BY <1>5, <1>6, <3>2
      <4>3. Cardinality(About(u)) \in Nat
        BY AboutCounts
      <4> QED
        BY <3>0, <4>1, <4>2, <4>3, TemplatesConstants
    <3>3. CASE u # t
      <4>1. versions'[u] = versions[u]
        BY <1>5, <3>3
      <4>2. Cardinality(About(u)') <= Cardinality(About(u))
        BY <3>1, AboutCounts
      <4>3. Cardinality(About(u)) \in Nat /\ Cardinality(About(u)') \in Nat
        BY AboutCounts
      <4> QED
        BY <3>0, <4>1, <4>2, <4>3, TemplatesConstants
    <3> QED
      BY <3>2, <3>3
  <2> QED
    BY <2>1 DEF Bounded, Templates!Tids, About
<1> QED
  BY <1>7, <1>8, <1>9, <1>10, <1>11 DEF HistoryType

\* The statements on the rows of the templates.
LEMMA RowsCleared ==
  ASSUME Templates!TypeOK, NEW t, template' \in {Templates!Cleared(t), template}
  PROVE  /\ template' \in [Templates!Tids -> RowType]
         /\ \A u \in Templates!Tids : template'[u].row = template[u].row /\ template'[u].content = template[u].content
<1>1. template \in [Templates!Tids -> RowType]
  BY DEF Templates!TypeOK, RowType
<1>2. ASSUME NEW u \in Templates!Tids
      PROVE  /\ template'[u] \in RowType
             /\ template'[u].row = template[u].row /\ template'[u].content = template[u].content
  <2>1. template[u] \in RowType
    BY <1>1
  <2>2. template'[u] = template[u] \/ template'[u] = [template[u] EXCEPT !.is_default = FALSE]
    BY DEF Templates!Cleared
  <2> QED
    BY <2>1, <2>2 DEF RowType
<1>3. template' = [u \in Templates!Tids |-> template'[u]]
  BY <1>1 DEF Templates!Cleared
<1> QED
  BY <1>2, <1>3

LEMMA RowInserted ==
  ASSUME Templates!TypeOK, NEW r \in Requests, NEW q \in EditType, Templates!Inserted(r, q)
  PROVE  \E t \in Templates!Tids : \E e \in EditType :
           /\ template[t].row = "never"
           /\ template' \in [Templates!Tids -> RowType]
           /\ template'[t].row = "here" /\ template'[t].content = q.content
           /\ \A u \in Templates!Tids \ {t} : template'[u] = template[u]
           /\ had' \in [Templates!Tids -> SUBSET Templates!Texts] /\ had'[t] = {q.content}
           /\ \A u \in Templates!Tids \ {t} : had'[u] = had[u]
           /\ e.at = "first" /\ e.t = t /\ e.content = q.content
           /\ Templates!Become(r, e)
<1> DEFINE t == Templates!NewId
           row == [row |-> "here", content |-> q.content, is_default |-> q.is_default]
           e == [q EXCEPT !.at = "first", !.t = t, !.is_default = FALSE]
<1>0. /\ template \in [Templates!Tids -> RowType] /\ had \in [Templates!Tids -> SUBSET Templates!Texts]
      /\ q.content \in Templates!Texts /\ q.is_default \in BOOLEAN
  BY DEF Templates!TypeOK, RowType, EditType
<1>1. t \in Templates!Tids /\ template[t].row = "never"
  BY TemplatesIds DEF Templates!Inserted
<1>2. template' = [template EXCEPT ![t] = row] /\ had' = [had EXCEPT ![t] = {q.content}] /\ Templates!Become(r, e)
  BY DEF Templates!Inserted
<1>3. row \in RowType /\ row.row = "here" /\ row.content = q.content
  BY <1>0 DEF RowType
<1>4. e \in EditType /\ e.at = "first" /\ e.t = t /\ e.content = q.content
  <2>1. t \in 0..MaxTemplates
    BY <1>1, TemplatesConstants
  <2> HIDE DEF t
  <2> QED
    BY <2>1 DEF EditType, Templates!Steps
<1> HIDE DEF t, row, e
<1>5. /\ template' \in [Templates!Tids -> RowType] /\ template'[t] = row
      /\ \A u \in Templates!Tids \ {t} : template'[u] = template[u]
  BY <1>0, <1>1, <1>2, <1>3
<1>6. /\ had' \in [Templates!Tids -> SUBSET Templates!Texts] /\ had'[t] = {q.content}
      /\ \A u \in Templates!Tids \ {t} : had'[u] = had[u]
  BY <1>0, <1>1, <1>2
<1> QED
  BY <1>1, <1>2, <1>3, <1>4, <1>5, <1>6

LEMMA RowUpdated ==
  ASSUME Templates!TypeOK, NEW r \in Requests, NEW q \in EditType, q.t \in Templates!Tids, Templates!Updated(r, q)
  PROVE  \E e \in EditType :
           /\ template' \in [Templates!Tids -> RowType]
           /\ \A u \in Templates!Tids : template'[u].row = template[u].row
           /\ \A u \in Templates!Tids \ {q.t} : template'[u] = template[u]
           /\ q.t \in Templates!Kept => template'[q.t].content = q.content
           /\ had' \in [Templates!Tids -> SUBSET Templates!Texts]
           /\ \A u \in Templates!Tids \ {q.t} : had'[u] = had[u]
           /\ q.t \in Templates!Kept => had'[q.t] = had[q.t] \cup {q.content}
           /\ e.at = "number" /\ e.t = q.t /\ e.content = q.content
           /\ Templates!Become(r, e)
<1> DEFINE e == [q EXCEPT !.at = "number", !.is_default = FALSE]
           row == [template[q.t] EXCEPT !.content = q.content, !.is_default = q.is_default]
<1>0. /\ template \in [Templates!Tids -> RowType] /\ had \in [Templates!Tids -> SUBSET Templates!Texts]
      /\ q.content \in Templates!Texts /\ q.is_default \in BOOLEAN
  BY DEF Templates!TypeOK, RowType, EditType
<1>1. e \in EditType /\ e.at = "number" /\ e.t = q.t /\ e.content = q.content
  BY DEF EditType, Templates!Steps
<1>2. Templates!Become(r, e)
  BY DEF Templates!Updated
<1> HIDE DEF e
<1>3. CASE q.t \notin Templates!Kept
  <2>1. UNCHANGED <<template, had>>
    BY <1>3 DEF Templates!Updated
  <2> QED
    BY <1>0, <1>1, <1>2, <1>3, <2>1
<1>4. CASE q.t \in Templates!Kept
  <2>1. /\ template' = [template EXCEPT ![q.t].content = q.content, ![q.t].is_default = q.is_default]
        /\ had' = [had EXCEPT ![q.t] = @ \cup {q.content}]
    BY <1>4 DEF Templates!Updated
  <2>2. template[q.t] \in RowType
    BY <1>0
  <2>3. row \in RowType /\ row.row = template[q.t].row /\ row.content = q.content
    BY <1>0, <2>2 DEF RowType
  <2>4. template' = [template EXCEPT ![q.t] = row]
    BY <1>0, <2>1
  <2> HIDE DEF row
  <2>5. /\ template' \in [Templates!Tids -> RowType] /\ template'[q.t] = row
        /\ \A u \in Templates!Tids \ {q.t} : template'[u] = template[u]
    BY <1>0, <2>3, <2>4
  <2>6. /\ had' \in [Templates!Tids -> SUBSET Templates!Texts]
        /\ \A u \in Templates!Tids \ {q.t} : had'[u] = had[u]
        /\ had'[q.t] = had[q.t] \cup {q.content}
    BY <1>0, <2>1
  <2> QED
    BY <1>1, <1>2, <2>3, <2>5, <2>6
<1> QED
  BY <1>3, <1>4

\* What each step of a request does to its template.
Opens(r) ==
    /\ \A u \in Templates!Tids : template'[u].row = template[u].row /\ template'[u].content = template[u].content
    /\ template' \in [Templates!Tids -> RowType] /\ had' = had
    /\ edit[r].at = "idle"
    /\ \E e \in EditType :
         /\ Templates!Become(r, e)
         /\ \/ e.at = "insert" /\ e.t = 0
            \/ e.at = "update" /\ e.t \in Templates!Kept /\ Len(versions[e.t]) < MaxVersions

Inserts(r) ==
    /\ edit[r].at \in {"idle", "insert"}
    /\ \E t \in Templates!Tids : \E e \in EditType :
         /\ template[t].row = "never"
         /\ template' \in [Templates!Tids -> RowType]
         /\ template'[t].row = "here" /\ template'[t].content = e.content
         /\ \A u \in Templates!Tids \ {t} : template'[u] = template[u]
         /\ had' \in [Templates!Tids -> SUBSET Templates!Texts] /\ had'[t] = {e.content}
         /\ \A u \in Templates!Tids \ {t} : had'[u] = had[u]
         /\ e.at = "first" /\ e.t = t
         /\ Templates!Become(r, e)

Updates(r) ==
    \E e \in EditType :
      /\ \/ edit[r].at = "update" /\ edit[r].t = e.t /\ edit[r].content = e.content
         \/ edit[r].at = "idle" /\ e.t \in Templates!Kept /\ Len(versions[e.t]) < MaxVersions
      /\ e.t \in Templates!Tids
      /\ template' \in [Templates!Tids -> RowType]
      /\ \A u \in Templates!Tids : template'[u].row = template[u].row
      /\ \A u \in Templates!Tids \ {e.t} : template'[u] = template[u]
      /\ e.t \in Templates!Kept => template'[e.t].content = e.content
      /\ had' \in [Templates!Tids -> SUBSET Templates!Texts]
      /\ \A u \in Templates!Tids \ {e.t} : had'[u] = had[u]
      /\ e.t \in Templates!Kept => had'[e.t] = had[e.t] \cup {e.content}
      /\ e.at = "number"
      /\ Templates!Become(r, e)

Stands == UNCHANGED <<versions, lost>> /\ silent' = FALSE

LEMMA Handlers ==
  ASSUME HistoryType, NEW r \in Requests
  PROVE  /\ Templates!CreateTemplate(r) => (Opens(r) \/ Inserts(r)) /\ Stands
         /\ Templates!InsertTemplate(r) => Inserts(r) /\ Stands
         /\ Templates!UpdateTemplate(r) => (Opens(r) \/ Updates(r)) /\ Stands
         /\ Templates!WriteTemplate(r)  => Updates(r) /\ Stands
<1>0. Templates!TypeOK /\ edit[r] \in EditType
  BY DEF HistoryType, Templates!TypeOK, EditType
<1>1. Templates!CreateTemplate(r) => (Opens(r) \/ Inserts(r)) /\ Stands
  <2> SUFFICES ASSUME Templates!CreateTemplate(r) PROVE Opens(r) \/ Inserts(r)
    BY DEF Templates!CreateTemplate, Stands, Templates!Spoken
  <2>1. PICK c \in Contents, d \in BOOLEAN :
          LET q == [Templates!Resting EXCEPT !.content = c, !.is_default = d] IN
          IF d THEN /\ template' \in {Templates!Cleared(0), template} /\ UNCHANGED had
                    /\ Templates!Become(r, [q EXCEPT !.at = "insert"])
          ELSE Templates!Inserted(r, q)
    BY DEF Templates!CreateTemplate
  <2> DEFINE q == [Templates!Resting EXCEPT !.content = c, !.is_default = d]
             e == [q EXCEPT !.at = "insert"]
  <2>2. /\ IF d THEN template' \in {Templates!Cleared(0), template} /\ UNCHANGED had /\ Templates!Become(r, e)
           ELSE Templates!Inserted(r, q)
        /\ edit[r].at = "idle"
    BY <2>1 DEF Templates!CreateTemplate, Templates!At
  <2>3. q \in EditType /\ q.content = c /\ e \in EditType /\ e.at = "insert" /\ e.t = 0
    <3>1. c \in Templates!Texts /\ "insert" \in Templates!Steps /\ 0 \in 0..MaxTemplates
      BY TemplatesConstants DEF Templates!Texts, Templates!Steps
    <3> QED
      BY <3>1, TemplatesConstants DEF EditType, Templates!Resting
  <2> HIDE DEF e, q
  <2>4. CASE d
    BY <1>0, <2>2, <2>3, <2>4, RowsCleared DEF Opens
  <2>5. CASE ~d
    <3>1. Templates!Inserted(r, q) /\ edit[r].at \in {"idle", "insert"}
      BY <2>2, <2>5
    <3>2. PICK t \in Templates!Tids, e1 \in EditType :
            /\ template[t].row = "never"
            /\ template' \in [Templates!Tids -> RowType]
            /\ template'[t].row = "here" /\ template'[t].content = q.content
            /\ \A u \in Templates!Tids \ {t} : template'[u] = template[u]
            /\ had' \in [Templates!Tids -> SUBSET Templates!Texts] /\ had'[t] = {q.content}
            /\ \A u \in Templates!Tids \ {t} : had'[u] = had[u]
            /\ e1.at = "first" /\ e1.t = t /\ e1.content = q.content
            /\ Templates!Become(r, e1)
      BY <1>0, <2>3, <3>1, RowInserted
    <3>3. Inserts(r)
      BY <3>1, <3>2 DEF Inserts
    <3> QED
      BY <3>3
  <2> QED
    BY <2>4, <2>5
<1>2. Templates!InsertTemplate(r) => Inserts(r) /\ Stands
  <2> SUFFICES ASSUME Templates!InsertTemplate(r) PROVE Inserts(r)
    BY DEF Templates!InsertTemplate, Stands, Templates!Spoken
  <2>1. Templates!Inserted(r, edit[r]) /\ edit[r].at = "insert"
    BY DEF Templates!InsertTemplate, Templates!At
  <2> QED
    BY <1>0, <2>1, RowInserted DEF Inserts
<1>3. Templates!UpdateTemplate(r) => (Opens(r) \/ Updates(r)) /\ Stands
  <2> SUFFICES ASSUME Templates!UpdateTemplate(r) PROVE Opens(r) \/ Updates(r)
    BY DEF Templates!UpdateTemplate, Stands, Templates!Spoken
  <2>1. PICK t \in Templates!Kept, c \in Templates!Texts, d \in BOOLEAN :
          LET q == [Templates!Resting EXCEPT !.t = t, !.content = c, !.is_default = d] IN
          /\ Len(versions[t]) < MaxVersions
          /\ IF d THEN /\ template' \in {Templates!Cleared(t), template} /\ UNCHANGED had
                       /\ Templates!Become(r, [q EXCEPT !.at = "update"])
             ELSE Templates!Updated(r, q)
    BY DEF Templates!UpdateTemplate, Templates!Kept
  <2> DEFINE q == [Templates!Resting EXCEPT !.t = t, !.content = c, !.is_default = d]
             e == [q EXCEPT !.at = "update"]
  <2>2. /\ Len(versions[t]) < MaxVersions
        /\ IF d THEN template' \in {Templates!Cleared(t), template} /\ UNCHANGED had /\ Templates!Become(r, e)
           ELSE Templates!Updated(r, q)
        /\ edit[r].at = "idle"
    BY <2>1 DEF Templates!UpdateTemplate, Templates!At
  <2>3. t \in Templates!Tids /\ t \in Templates!Kept
    BY <2>1 DEF Templates!Kept
  <2>4. q \in EditType /\ q.t = t /\ q.content = c /\ e \in EditType /\ e.at = "update" /\ e.t = t
    <3>1. "update" \in Templates!Steps /\ t \in 0..MaxTemplates
      BY <2>3, TemplatesConstants DEF Templates!Steps
    <3>2. c \in Templates!Texts /\ d \in BOOLEAN
      OBVIOUS
    <3> QED
      BY <3>1, <3>2, TemplatesConstants DEF EditType, Templates!Resting
  <2> HIDE DEF e, q
  <2>5. CASE d
    BY <1>0, <2>2, <2>3, <2>4, <2>5, RowsCleared DEF Opens
  <2>6. CASE ~d
    <3>1. Templates!Updated(r, q)
      BY <2>2, <2>6
    <3> QED
      BY <1>0, <2>2, <2>3, <2>4, <3>1, RowUpdated DEF Updates
  <2> QED
    BY <2>5, <2>6
<1>4. Templates!WriteTemplate(r) => Updates(r) /\ Stands
  <2> SUFFICES ASSUME Templates!WriteTemplate(r) PROVE Updates(r)
    BY DEF Templates!WriteTemplate, Stands, Templates!Spoken
  <2>1. Templates!Updated(r, edit[r]) /\ edit[r].at = "update" /\ edit[r].t \in Templates!Tids
    BY DEF Templates!WriteTemplate, Templates!At, HistoryType, Concerned
  <2> QED
    BY <1>0, <2>1, RowUpdated DEF Updates
<1> QED
  BY <1>1, <1>2, <1>3, <1>4

\* Reading the greatest number.
Reads(r) ==
    /\ edit[r].at = "number"
    /\ \E e \in EditType :
         /\ e.at = "record" /\ e.t = edit[r].t /\ e.content = edit[r].content
         /\ e.version \in 0..Len(versions[e.t]) + 1
         /\ \/ e.version = 0
            \/ (\A i \in DOMAIN versions[e.t] : versions[e.t][i].version = i) => e.version = Len(versions[e.t]) + 1
         /\ Templates!Become(r, e)
    /\ UNCHANGED <<template, had>>

LEMMA Reading ==
  ASSUME HistoryType, NEW r \in Requests, Templates!ReadVersion(r)
  PROVE  Reads(r) /\ Stands
<1> DEFINE next == Templates!NextVersion(versions[edit[r].t])
<1>0. PICK v \in {next, 0} : Templates!Become(r, [edit[r] EXCEPT !.at = "record", !.version = v])
  BY DEF Templates!ReadVersion
<1> DEFINE e == [edit[r] EXCEPT !.at = "record", !.version = v]
<1>1. /\ edit[r] \in EditType /\ edit[r].at = "number" /\ edit[r].t \in Templates!Tids
      /\ versions[edit[r].t] \in Seq(EntryType)
  BY DEF HistoryType, Templates!TypeOK, Concerned, EditType, EntryType, Templates!ReadVersion, Templates!At
<1>2. \A i \in DOMAIN versions[edit[r].t] : versions[edit[r].t][i].version <= i
  BY <1>1 DEF HistoryType, NotAhead
<1>3. /\ next \in 1..Len(versions[edit[r].t]) + 1
      /\ (\A i \in DOMAIN versions[edit[r].t] : versions[edit[r].t][i].version = i)
           => next = Len(versions[edit[r].t]) + 1
  BY <1>1, <1>2, TemplatesNext
<1> HIDE DEF next
<1>4. Len(versions[edit[r].t]) \in Nat
  BY <1>1
<1>5. /\ v \in 0..Len(versions[edit[r].t]) + 1
      /\ \/ v = 0
         \/ (\A i \in DOMAIN versions[edit[r].t] : versions[edit[r].t][i].version = i)
              => v = Len(versions[edit[r].t]) + 1
  BY <1>3, <1>4
<1>6. v \in Templates!Numbers
  <2>1. Len(versions[edit[r].t]) + Cardinality(About(edit[r].t)) <= MaxVersions + Cardinality(Requests)
    BY <1>1 DEF HistoryType, Bounded
  <2>2. r \in About(edit[r].t)
    BY DEF About
  <2>3. Cardinality(About(edit[r].t)) >= 1 /\ Cardinality(About(edit[r].t)) \in Nat
    <3>1. PICK t : t = edit[r].t
      OBVIOUS
    <3>2. Cardinality(About(t)) >= 1 /\ Cardinality(About(t)) \in Nat
      BY <2>2, <3>1, AboutCounts
    <3> QED
      BY <3>1, <3>2
  <2>4. Len(versions[edit[r].t]) + 1 <= MaxVersions + Cardinality(Requests)
    BY <1>4, <2>1, <2>3, TemplatesConstants
  <2> QED
    BY <1>4, <1>5, <2>4, TemplatesConstants
<1>7. Templates!Become(r, e) /\ UNCHANGED <<template, had>> /\ Stands
  BY <1>0 DEF Templates!ReadVersion, Stands, Templates!Spoken
<1>8. e \in EditType /\ e.at = "record" /\ e.t = edit[r].t /\ e.content = edit[r].content /\ e.version = v
  BY <1>1, <1>6 DEF EditType, Templates!Steps
<1> HIDE DEF e
<1> QED
  BY <1>1, <1>5, <1>7, <1>8 DEF Reads

\* A handler that gives up.
GivesUp(r) ==
    /\ edit[r].at \in {"insert", "update"}
    /\ Templates!Become(r, Templates!Resting)
    /\ UNCHANGED <<template, had>>

LEMMA Failing ==
  ASSUME NEW r \in Requests, Templates!Fails(r)
  PROVE  GivesUp(r) /\ Stands
BY DEF Templates!Fails, Templates!At, Templates!Spoken, GivesUp, Stands

LEMMA HistoryDeleted ==
  ASSUME HistoryType, NEW t \in Templates!Tids, Templates!DeleteTemplate(t)
  PROVE  HistoryType'
<1>0. /\ versions \in [Templates!Tids -> Seq(EntryType)] /\ edit \in [Requests -> EditType]
      /\ template \in [Templates!Tids -> RowType] /\ had \in [Templates!Tids -> SUBSET Templates!Texts]
      /\ lost \in [Templates!Tids -> SUBSET Templates!Texts]
      /\ Templates!Kept' = {u \in Templates!Tids : template'[u].row = "here"}
      /\ Templates!Kept = {u \in Templates!Tids : template[u].row = "here"}
  BY DEF HistoryType, Templates!TypeOK, EntryType, EditType, RowType, Templates!Kept
<1> DEFINE gone == [Templates!NoTemplate EXCEPT !.row = "gone"]
<1>1. gone \in RowType /\ gone.row = "gone"
  BY TemplatesConstants DEF RowType, Templates!NoTemplate
<1>2. template' = [template EXCEPT ![t] = gone] /\ versions' = [versions EXCEPT ![t] = <<>>]
      /\ had' = [had EXCEPT ![t] = {}] /\ lost' = [lost EXCEPT ![t] = {}]
      /\ UNCHANGED <<edit, overlapped>> /\ silent' = FALSE
  BY DEF Templates!DeleteTemplate, Templates!Spoken
<1> HIDE DEF gone
<1>3. /\ template' \in [Templates!Tids -> RowType] /\ template'[t].row = "gone"
      /\ \A u \in Templates!Tids \ {t} : template'[u] = template[u]
  BY <1>0, <1>1, <1>2
<1>4. /\ versions' \in [Templates!Tids -> Seq(EntryType)] /\ versions'[t] = <<>>
      /\ \A u \in Templates!Tids \ {t} : versions'[u] = versions[u]
  <2>1. <<>> \in Seq(EntryType)
    OBVIOUS
  <2> QED
    BY <1>0, <1>2, <2>1
<1>5. had' \in [Templates!Tids -> SUBSET Templates!Texts] /\ lost' \in [Templates!Tids -> SUBSET Templates!Texts]
  BY <1>0, <1>2
<1>6. Templates!TypeOK'
  BY <1>2, <1>3, <1>4, <1>5 DEF HistoryType, Templates!TypeOK, EntryType, RowType
<1>7. Concerned'
  BY <1>2, <1>3 DEF HistoryType, Concerned, Templates!Tids
<1>8. NoRelics'
  BY <1>0, <1>3, <1>4 DEF HistoryType, NoRelics, Templates!Tids
<1>9. NotAhead'
  <2>1. ASSUME NEW u \in Templates!Tids, NEW i \in DOMAIN versions'[u] PROVE versions'[u][i].version <= i
    <3>1. u # t
      BY <1>4
    <3> QED
      BY <1>4, <3>1 DEF HistoryType, NotAhead
  <2>2. ASSUME NEW s \in Requests, edit'[s].at = "record", edit'[s].t \in Templates!Kept'
        PROVE  edit'[s].version \in 0..Len(versions'[edit'[s].t]) + 1
    <3>1. edit[s].t \in Templates!Kept /\ edit[s].t # t
      BY <1>0, <1>2, <1>3, <2>2
    <3>2. versions'[edit[s].t] = versions[edit[s].t]
      BY <1>0, <1>4, <3>1
    <3> QED
      BY <1>2, <2>2, <3>1, <3>2 DEF HistoryType, NotAhead
  <2> QED
    BY <2>1, <2>2 DEF NotAhead, Templates!Tids
<1>10. Bounded'
  <2>1. ASSUME NEW u \in Templates!Tids
        PROVE  Len(versions'[u]) + Cardinality(About(u)') <= MaxVersions + Cardinality(Requests)
    <3>1. /\ Len(versions[u]) \in Nat
          /\ Len(versions[u]) + Cardinality(About(u)) <= MaxVersions + Cardinality(Requests)
      BY <1>0 DEF HistoryType, Bounded
    <3>2. About(u)' = About(u) /\ Cardinality(About(u)) \in Nat
      BY <1>2, AboutCounts DEF About
    <3>3. Len(versions'[u]) \in {0, Len(versions[u])}
      BY <1>4
    <3> QED
      BY <3>1, <3>2, <3>3, TemplatesConstants
  <2> QED
    BY <2>1 DEF Bounded, Templates!Tids, About
<1> QED
  BY <1>6, <1>7, <1>8, <1>9, <1>10 DEF HistoryType

\* A restart may seed a template, with its entry or without; what requests were to
\* put into the histories is lost.
Cut(t) == lost[t] \cup {c \in had[t] : Templates!Owed(t, c)}

Seeds(t) ==
    /\ template[t].row = "never" /\ template'[t].row = "here" /\ template'[t].content = Seed
    /\ had'[t] = {Seed}
    /\ \/ \E e \in EntryType : e.version = 1 /\ e.content = Seed /\ versions'[t] = <<e>>
       \/ versions'[t] = versions[t] /\ Seed \in lost'[t]
    /\ \A u \in Templates!Tids \ {t} :
         /\ template'[u] = template[u] /\ versions'[u] = versions[u]
         /\ had'[u] = had[u] /\ lost'[u] = Cut(u)

LEMMA Seeding ==
  ASSUME HistoryType, Templates!Restart
  PROVE  /\ edit' = [r \in Requests |-> Templates!Resting] /\ overlapped' = overlapped /\ silent' = FALSE
         /\ template' \in [Templates!Tids -> RowType] /\ had' \in [Templates!Tids -> SUBSET Templates!Texts]
         /\ versions' \in [Templates!Tids -> Seq(EntryType)] /\ lost' \in [Templates!Tids -> SUBSET Templates!Texts]
         /\ \/ UNCHANGED <<template, versions, had>> /\ \A u \in Templates!Tids : lost'[u] = Cut(u)
            \/ \E t \in Templates!Tids : Seeds(t)
<1> DEFINE t == Templates!NewId
           e == [version |-> 1, content |-> Seed]
           row == [row |-> "here", content |-> Seed, is_default |-> TRUE]
           cut == [u \in Templates!Tids |-> Cut(u)]
<1>0. /\ template \in [Templates!Tids -> RowType] /\ had \in [Templates!Tids -> SUBSET Templates!Texts]
      /\ versions \in [Templates!Tids -> Seq(EntryType)] /\ lost \in [Templates!Tids -> SUBSET Templates!Texts]
  BY DEF HistoryType, Templates!TypeOK, RowType, EntryType
<1>1. edit' = [r \in Requests |-> Templates!Resting] /\ overlapped' = overlapped /\ silent' = FALSE
  BY DEF Templates!Restart, Templates!Spoken
<1>2. \/ UNCHANGED <<template, versions, had>> /\ lost' = cut
      \/ /\ Templates!Room
         /\ template' = [template EXCEPT ![t] = row]
         /\ had' = [had EXCEPT ![t] = {Seed}]
         /\ \/ lost' = cut /\ versions' = [versions EXCEPT ![t] = <<e>>]
            \/ lost' = [cut EXCEPT ![t] = {Seed}] /\ versions' = versions
  BY DEF Templates!Restart, Cut
<1>3. e \in EntryType /\ e.version = 1 /\ e.content = Seed
  <2>1. 1 \in Templates!Numbers
    BY TemplatesConstants
  <2> QED
    BY <2>1, TemplatesConstants DEF EntryType
<1>4. row \in RowType /\ row.row = "here" /\ row.content = Seed
  BY TemplatesConstants DEF RowType
<1>5. Templates!Room => t \in Templates!Tids /\ template[t].row = "never"
  BY TemplatesIds
<1>6. cut \in [Templates!Tids -> SUBSET Templates!Texts] /\ \A u \in Templates!Tids : cut[u] = Cut(u)
  BY <1>0 DEF Cut
<1> HIDE DEF t, e, row, cut
<1>7. CASE UNCHANGED <<template, versions, had>> /\ lost' = cut
  BY <1>0, <1>1, <1>6, <1>7
<1>8. CASE /\ Templates!Room
           /\ template' = [template EXCEPT ![t] = row]
           /\ had' = [had EXCEPT ![t] = {Seed}]
           /\ \/ lost' = cut /\ versions' = [versions EXCEPT ![t] = <<e>>]
              \/ lost' = [cut EXCEPT ![t] = {Seed}] /\ versions' = versions
  <2>1. t \in Templates!Tids /\ template[t].row = "never" /\ <<e>> \in Seq(EntryType)
    BY <1>3, <1>5, <1>8
  <2>2. template' \in [Templates!Tids -> RowType] /\ template'[t] = row
        /\ \A u \in Templates!Tids \ {t} : template'[u] = template[u]
    BY <1>0, <1>4, <1>8, <2>1
  <2>3. had' \in [Templates!Tids -> SUBSET Templates!Texts] /\ had'[t] = {Seed}
        /\ \A u \in Templates!Tids \ {t} : had'[u] = had[u]
    BY <1>0, <1>8, <2>1, TemplatesConstants
  <2>4. /\ versions' \in [Templates!Tids -> Seq(EntryType)] /\ lost' \in [Templates!Tids -> SUBSET Templates!Texts]
        /\ versions'[t] = <<e>> \/ (versions'[t] = versions[t] /\ Seed \in lost'[t])
        /\ \A u \in Templates!Tids \ {t} : versions'[u] = versions[u] /\ lost'[u] = Cut(u)
    <3>1. CASE lost' = cut /\ versions' = [versions EXCEPT ![t] = <<e>>]
      BY <1>0, <1>6, <2>1, <3>1
    <3>2. CASE lost' = [cut EXCEPT ![t] = {Seed}] /\ versions' = versions
      BY <1>0, <1>6, <2>1, <3>2, TemplatesConstants
    <3> QED
      BY <1>8, <3>1, <3>2
  <2>5. Seeds(t)
    BY <1>3, <1>4, <2>1, <2>2, <2>3, <2>4 DEF Seeds
  <2> QED
    BY <1>1, <2>1, <2>2, <2>3, <2>4, <2>5
<1> QED
  BY <1>2, <1>7, <1>8

LEMMA HistoryRestarted == ASSUME HistoryType, Templates!Restart PROVE HistoryType'
<1>0. /\ versions \in [Templates!Tids -> Seq(EntryType)]
      /\ overlapped \in BOOLEAN
      /\ Templates!Kept' = {u \in Templates!Tids : template'[u].row = "here"}
      /\ Templates!Kept = {u \in Templates!Tids : template[u].row = "here"}
  BY DEF HistoryType, Templates!TypeOK, EntryType, Templates!Kept
<1>1. /\ edit' = [r \in Requests |-> Templates!Resting] /\ overlapped' = overlapped /\ silent' = FALSE
      /\ template' \in [Templates!Tids -> RowType] /\ had' \in [Templates!Tids -> SUBSET Templates!Texts]
      /\ versions' \in [Templates!Tids -> Seq(EntryType)] /\ lost' \in [Templates!Tids -> SUBSET Templates!Texts]
  BY Seeding
<1>3. edit' \in [Requests -> EditType] /\ \A r \in Requests : edit'[r].at = "idle" /\ edit'[r].t = 0
  BY <1>1, TemplatesConstants
<1>4. Templates!TypeOK'
  BY <1>0, <1>1, <1>3 DEF Templates!TypeOK, EntryType, EditType, RowType
<1>5. Concerned'
  BY <1>3 DEF Concerned
<1>6. ASSUME NEW u \in Templates!Tids
      PROVE  /\ \/ versions'[u] = versions[u]
                \/ Len(versions'[u]) = 1 /\ DOMAIN versions'[u] = 1..1 /\ versions'[u][1].version = 1
             /\ (template'[u] = template[u] /\ versions'[u] = versions[u]) \/ template'[u].row = "here"
  <2>1. CASE UNCHANGED <<template, versions, had>>
    BY <2>1
  <2>2. CASE \E t \in Templates!Tids : Seeds(t)
    <3>1. PICK t \in Templates!Tids : Seeds(t)
      BY <2>2
    <3>2. CASE u = t
      <4>1. CASE versions'[t] = versions[t]
        BY <3>1, <3>2, <4>1 DEF Seeds
      <4>2. CASE \E e \in EntryType : e.version = 1 /\ versions'[t] = <<e>>
        <5>1. PICK e \in EntryType : e.version = 1 /\ versions'[t] = <<e>>
          BY <4>2
        <5>2. Len(<<e>>) = 1 /\ DOMAIN <<e>> = 1..1 /\ <<e>>[1] = e
          OBVIOUS
        <5>3. template'[u].row = "here"
          BY <3>1, <3>2 DEF Seeds
        <5> QED
          BY <3>2, <5>1, <5>2, <5>3
      <4> QED
        BY <3>1, <4>1, <4>2 DEF Seeds
    <3>3. CASE u # t
      BY <3>1, <3>3 DEF Seeds
    <3> QED
      BY <3>2, <3>3
  <2> QED
    BY <2>1, <2>2, Seeding
<1>7. NoRelics'
  BY <1>0, <1>6 DEF HistoryType, NoRelics, Templates!Tids
<1>8. NotAhead'
  <2>1. ASSUME NEW u \in Templates!Tids, NEW i \in DOMAIN versions'[u] PROVE versions'[u][i].version <= i
    <3>1. CASE versions'[u] = versions[u]
      BY <2>1, <3>1 DEF HistoryType, NotAhead
    <3>2. CASE DOMAIN versions'[u] = 1..1 /\ versions'[u][1].version = 1
      BY <2>1, <3>2
    <3> QED
      BY <1>6, <3>1, <3>2
  <2> QED
    BY <1>3, <2>1 DEF NotAhead, Templates!Tids
<1>9. Bounded'
  <2>1. ASSUME NEW u \in Templates!Tids
        PROVE  Len(versions'[u]) + Cardinality(About(u)') <= MaxVersions + Cardinality(Requests)
    <3>1. /\ Len(versions[u]) \in Nat
          /\ Len(versions[u]) + Cardinality(About(u)) <= MaxVersions + Cardinality(Requests)
      BY <1>0 DEF HistoryType, Bounded
    <3>2. About(u)' = {}
      BY <1>3, TemplatesConstants DEF About
    <3>3. Cardinality(About(u)') = 0 /\ Cardinality(About(u)) \in Nat
      BY <3>2, FS_EmptySet, AboutCounts
    <3>4. Len(versions'[u]) = 1 \/ Len(versions'[u]) = Len(versions[u])
      BY <1>6
    <3>5. MaxVersions \in Nat /\ MaxVersions # 0 /\ Cardinality(Requests) \in Nat
      BY TemplatesConstants
    <3>6. PICK k \in Nat : k = MaxVersions + Cardinality(Requests) /\ 1 <= k
      BY <3>5
    <3>7. PICK n \in Nat : n = Cardinality(About(u))
      BY <3>3
    <3>8. Len(versions[u]) + n <= k
      BY <3>1, <3>6, <3>7
    <3>9. PICK m \in Nat : m = Len(versions[u])
      BY <3>1
    <3>10. m + n <= k
      BY <3>8, <3>9
    <3>11. m <= k
      BY <3>10
    <3>12. Len(versions'[u]) + 0 <= k
      <4>1. CASE Len(versions'[u]) = 1
        BY <3>6, <4>1
      <4>2. CASE Len(versions'[u]) = m
        BY <3>11, <4>2
      <4> QED
        BY <3>4, <3>9, <4>1, <4>2
    <3> QED
      BY <3>3, <3>6, <3>12
  <2> QED
    BY <2>1 DEF Bounded, Templates!Tids, About
<1> QED
  BY <1>4, <1>5, <1>7, <1>8, <1>9 DEF HistoryType

LEMMA HistoryIdle ==
  ASSUME HistoryType, UNCHANGED <<template, versions, edit, had, overlapped, lost>>, silent' \in BOOLEAN
  PROVE  HistoryType'
BY DEF HistoryType, Templates!TypeOK, Templates!Tids, Concerned, NoRelics, NotAhead, Bounded, About, Templates!Kept

LEMMA HistoryKept == HistoryType /\ [Templates!Next]_templates => HistoryType'
<1> SUFFICES ASSUME HistoryType, [Templates!Next]_templates PROVE HistoryType'
  OBVIOUS
<1>0. /\ Templates!TypeOK /\ template \in [Templates!Tids -> RowType] /\ edit \in [Requests -> EditType]
      /\ had \in [Templates!Tids -> SUBSET Templates!Texts] /\ silent \in BOOLEAN
      /\ versions \in [Templates!Tids -> Seq(EntryType)]
  BY DEF HistoryType, Templates!TypeOK, RowType, EditType, EntryType
<1>k. /\ Templates!Kept' = {u \in Templates!Tids : template'[u].row = "here"}
      /\ Templates!Kept = {u \in Templates!Tids : template[u].row = "here"}
  BY DEF Templates!Kept, Templates!Tids
<1>1. ASSUME NEW r \in Requests, Opens(r), Stands PROVE HistoryType'
  <2>1. PICK e \in EditType :
          /\ Templates!Become(r, e)
          /\ \/ e.at = "insert" /\ e.t = 0
             \/ e.at = "update" /\ e.t \in Templates!Kept /\ Len(versions[e.t]) < MaxVersions
    BY <1>1 DEF Opens
  <2>2. e.at \notin {"idle", "insert"} => e.t \in Templates!Tids /\ template'[e.t].row # "never"
    BY <1>k, <1>1, <2>1 DEF Opens
  <2>3. e.t = edit[r].t \/ (e.t \in Templates!Tids => Len(versions[e.t]) < MaxVersions)
    BY <2>1, TemplatesConstants
  <2> QED
    BY <1>0, <1>1, <2>1, <2>2, <2>3, TemplatesBecome, HistoriesStay DEF Opens, Stands
<1>2. ASSUME NEW r \in Requests, Inserts(r), Stands PROVE HistoryType'
  <2>1. PICK t \in Templates!Tids, e \in EditType :
         /\ template[t].row = "never"
         /\ template' \in [Templates!Tids -> RowType]
         /\ template'[t].row = "here" /\ template'[t].content = e.content
         /\ \A u \in Templates!Tids \ {t} : template'[u] = template[u]
         /\ had' \in [Templates!Tids -> SUBSET Templates!Texts] /\ had'[t] = {e.content}
         /\ \A u \in Templates!Tids \ {t} : had'[u] = had[u]
         /\ e.at = "first" /\ e.t = t
         /\ Templates!Become(r, e)
    BY <1>2 DEF Inserts
  <2>2. Len(versions[t]) < MaxVersions
    <3>1. versions[t] = <<>>
      BY <1>k, <2>1 DEF HistoryType, NoRelics
    <3> QED
      BY <3>1, TemplatesConstants
  <2>3. \A u \in Templates!Tids : \/ template'[u].row = template[u].row
                                  \/ template[u].row = "never" /\ template'[u].row = "here"
    BY <2>1
  <2> QED
    BY <1>0, <1>2, <2>1, <2>2, <2>3, TemplatesBecome, HistoriesStay DEF Stands
<1>3. ASSUME NEW r \in Requests, Updates(r), Stands PROVE HistoryType'
  <2>1. PICK e \in EditType :
      /\ \/ edit[r].at = "update" /\ edit[r].t = e.t /\ edit[r].content = e.content
         \/ edit[r].at = "idle" /\ e.t \in Templates!Kept /\ Len(versions[e.t]) < MaxVersions
      /\ e.t \in Templates!Tids
      /\ template' \in [Templates!Tids -> RowType]
      /\ \A u \in Templates!Tids : template'[u].row = template[u].row
      /\ had' \in [Templates!Tids -> SUBSET Templates!Texts]
      /\ e.at = "number"
      /\ Templates!Become(r, e)
    BY <1>3 DEF Updates
  <2>2. template'[e.t].row # "never"
    <3>1. CASE edit[r].at = "update"
      BY <2>1, <3>1 DEF HistoryType, Concerned
    <3>2. CASE edit[r].at # "update"
      BY <1>k, <2>1, <3>2
    <3> QED
      BY <3>1, <3>2
  <2>3. e.t = edit[r].t \/ (e.t \in Templates!Tids => Len(versions[e.t]) < MaxVersions)
    BY <2>1
  <2> QED
    BY <1>0, <1>3, <2>1, <2>2, <2>3, TemplatesBecome, HistoriesStay DEF Stands
<1>4. ASSUME NEW r \in Requests, Reads(r), Stands PROVE HistoryType'
  <2>1. PICK e \in EditType :
         /\ e.at = "record" /\ e.t = edit[r].t /\ e.content = edit[r].content
         /\ e.version \in 0..Len(versions[e.t]) + 1
         /\ Templates!Become(r, e)
    BY <1>4 DEF Reads
  <2>2. e.t \in Templates!Tids /\ template'[e.t].row # "never"
    BY <1>4, <2>1 DEF HistoryType, Concerned, Reads
  <2> QED
    BY <1>0, <1>4, <2>1, <2>2, TemplatesBecome, HistoriesStay DEF Stands, Reads
<1>5. ASSUME NEW r \in Requests, Templates!FirstVersion(r) \/ Templates!RecordVersion(r) PROVE HistoryType'
  <2>1. CASE Templates!FirstVersion(r)
    BY <2>1, HistoryGrows DEF Templates!FirstVersion, Templates!At, Templates!Spoken
  <2>2. CASE Templates!RecordVersion(r)
    BY <2>2, HistoryGrows DEF Templates!RecordVersion, Templates!At, Templates!Spoken
  <2> QED
    BY <1>5, <2>1, <2>2
<1>6. ASSUME NEW t \in 0..MaxTemplates, Templates!FireSchedule(t) PROVE HistoryType'
  <2>1. silent' \in BOOLEAN /\ UNCHANGED <<template, versions, edit, had, overlapped, lost>>
    BY <1>6 DEF Templates!FireSchedule
  <2> QED
    BY <2>1, HistoryIdle
<1>7. CASE UNCHANGED templates
  BY <1>0, <1>7, HistoryIdle DEF templates
<1>8. ASSUME NEW r \in Requests, GivesUp(r), Stands PROVE HistoryType'
  <2>1. Templates!Resting \in EditType /\ Templates!Resting.at = "idle" /\ Templates!Resting.t = 0
        /\ 0 \notin Templates!Tids
    BY TemplatesConstants
  <2> QED
    BY <1>0, <1>8, <2>1, TemplatesBecome, HistoriesStay DEF Stands, GivesUp
<1> QED
  BY <1>1, <1>2, <1>3, <1>4, <1>5, <1>6, <1>7, <1>8, Handlers, Reading, Failing, HistoryDeleted, HistoryRestarted
     DEF Templates!Next

\* The content of a template is one it has had.
LEMMA TextsStayHad ==
  ASSUME HistoryType, TextsHad, [Templates!Next]_templates
  PROVE  TextsHad'
<1>0. /\ Templates!TypeOK /\ template \in [Templates!Tids -> RowType]
      /\ had \in [Templates!Tids -> SUBSET Templates!Texts]
      /\ Templates!Kept' = {u \in Templates!Tids : template'[u].row = "here"}
      /\ Templates!Kept = {u \in Templates!Tids : template[u].row = "here"}
  BY DEF HistoryType, Templates!TypeOK, RowType, Templates!Kept, Templates!Tids
<1>1. ASSUME NEW r \in Requests, Opens(r) PROVE TextsHad'
  BY <1>0, <1>1 DEF Opens, TextsHad
<1>2. ASSUME NEW r \in Requests, Inserts(r) PROVE TextsHad'
  BY <1>0, <1>2 DEF Inserts, TextsHad
<1>3. ASSUME NEW r \in Requests, Updates(r) PROVE TextsHad'
  BY <1>0, <1>3 DEF Updates, TextsHad
<1>4. ASSUME UNCHANGED <<template, had>> PROVE TextsHad'
  BY <1>0, <1>4 DEF TextsHad
<1>5. ASSUME NEW r \in Requests, Templates!FirstVersion(r) \/ Templates!RecordVersion(r) PROVE TextsHad'
  BY <1>4, <1>5 DEF Templates!FirstVersion, Templates!RecordVersion
<1>6. ASSUME NEW t \in Templates!Tids, Templates!DeleteTemplate(t) PROVE TextsHad'
  <2>1. \A u \in Templates!Kept' : u # t /\ u \in Templates!Tids
    BY <1>0, <1>6 DEF Templates!DeleteTemplate, Templates!NoTemplate
  <2>2. \A u \in Templates!Tids \ {t} : template'[u] = template[u] /\ had'[u] = had[u]
    BY <1>0, <1>6 DEF Templates!DeleteTemplate
  <2> QED
    BY <1>0, <2>1, <2>2 DEF TextsHad
<1>7. CASE Templates!Restart
  <2>1. CASE UNCHANGED <<template, versions, had>>
    BY <1>4, <2>1
  <2>2. CASE \E t \in Templates!Tids : Seeds(t)
    <3>1. PICK t \in Templates!Tids : Seeds(t)
      BY <2>2
    <3>2. template'[t].content = Seed /\ had'[t] = {Seed}
      BY <3>1 DEF Seeds
    <3>3. \A u \in Templates!Tids \ {t} : template'[u] = template[u] /\ had'[u] = had[u]
      BY <3>1 DEF Seeds
    <3> QED
      BY <1>0, <3>2, <3>3 DEF TextsHad
  <2> QED
    BY <1>7, <2>1, <2>2, Seeding
<1>8. ASSUME NEW t \in 0..MaxTemplates, Templates!FireSchedule(t) PROVE TextsHad'
  BY <1>4, <1>8 DEF Templates!FireSchedule
<1>9. ASSUME NEW r \in Requests, Reads(r) \/ GivesUp(r) PROVE TextsHad'
  BY <1>4, <1>9 DEF Reads, GivesUp
<1>10. CASE UNCHANGED templates
  BY <1>4, <1>10 DEF templates
<1> QED
  BY <1>1, <1>2, <1>3, <1>5, <1>6, <1>7, <1>8, <1>9, <1>10, Handlers, Reading, Failing DEF Templates!Next

\* A content is in the history, or in the hands of a request that will put it there.
Somewhere(t, c) ==
    \/ \E i \in DOMAIN versions[t] : versions[t][i].content = c
    \/ \E r \in Requests : edit[r].at \in Templates!Owing /\ edit[r].t = t /\ edit[r].content = c

LEMMA ContentsSomewhere ==
  Templates!EveryContentKept <=>
    \A t \in Templates!Kept : \A c \in had[t] : c \in lost[t] \/ Somewhere(t, c)
BY DEF Templates!EveryContentKept, Somewhere, Templates!Owed

LEMMA ContentsStay ==
  ASSUME Templates!EveryContentKept, NEW r \in Requests,
         \A s \in Requests \ {r} : edit'[s] = edit[s],
         \A t \in Templates!Kept' : \A c \in had'[t] :
           \/ t \in Templates!Kept /\ c \in had[t]
           \/ edit'[r].at \in Templates!Owing /\ edit'[r].t = t /\ edit'[r].content = c,
         \A t \in Templates!Kept' : \A i \in DOMAIN versions[t] :
           \E j \in DOMAIN versions'[t] : versions'[t][j].content = versions[t][i].content,
         \A t \in Templates!Kept' : \A c \in lost[t] :
           c \in lost'[t] \/ \E j \in DOMAIN versions'[t] : versions'[t][j].content = c,
         \A t \in Templates!Kept' : edit[r].at \in Templates!Owing /\ edit[r].t = t =>
           \/ edit'[r].at \in Templates!Owing /\ edit'[r].t = t /\ edit'[r].content = edit[r].content
           \/ \E j \in DOMAIN versions'[t] : versions'[t][j].content = edit[r].content
           \/ edit[r].content \in had'[t] => edit[r].content \in lost'[t]
  PROVE  Templates!EveryContentKept'
<1>1. ASSUME NEW t \in Templates!Kept', NEW c \in had'[t]
      PROVE  \/ c \in lost'[t]
             \/ \E i \in DOMAIN versions'[t] : versions'[t][i].content = c
             \/ \E s \in Requests : edit'[s].at \in Templates!Owing /\ edit'[s].t = t /\ edit'[s].content = c
  <2>1. CASE edit'[r].at \in Templates!Owing /\ edit'[r].t = t /\ edit'[r].content = c
    BY <2>1
  <2>2. CASE t \in Templates!Kept /\ c \in had[t]
    <3>1. c \in lost[t] \/ Somewhere(t, c)
      BY <2>2, ContentsSomewhere
    <3>2. CASE c \in lost[t]
      BY <3>2
    <3>3. CASE \E i \in DOMAIN versions[t] : versions[t][i].content = c
      BY <3>3
    <3>4. CASE \E s \in Requests : edit[s].at \in Templates!Owing /\ edit[s].t = t /\ edit[s].content = c
      <4>1. PICK s \in Requests : edit[s].at \in Templates!Owing /\ edit[s].t = t /\ edit[s].content = c
        BY <3>4
      <4>2. CASE s = r
        BY <4>1, <4>2
      <4>3. CASE s # r
        BY <4>1, <4>3
      <4> QED
        BY <4>2, <4>3
    <3> QED
      BY <3>1, <3>2, <3>3, <3>4 DEF Somewhere
  <2> QED
    BY <2>1, <2>2
<1> QED
  BY <1>1 DEF Templates!EveryContentKept, Templates!Owed, Templates!Owing

LEMMA ContentsKept ==
  ASSUME HistoryType, Templates!EveryContentKept, [Templates!Next]_templates
  PROVE  Templates!EveryContentKept'
<1>0. /\ Templates!TypeOK /\ template \in [Templates!Tids -> RowType] /\ edit \in [Requests -> EditType]
      /\ had \in [Templates!Tids -> SUBSET Templates!Texts]
      /\ versions \in [Templates!Tids -> Seq(EntryType)]
  BY DEF HistoryType, Templates!TypeOK, RowType, EditType, EntryType
<1>k. /\ Templates!Kept' = {u \in Templates!Tids : template'[u].row = "here"}
      /\ Templates!Kept = {u \in Templates!Tids : template[u].row = "here"}
      /\ 0 \notin Templates!Tids /\ Templates!Owing = {"first", "number", "record"}
  BY TemplatesConstants DEF Templates!Kept, Templates!Tids, Templates!Owing
<1>1. ASSUME NEW r \in Requests, Opens(r), Stands PROVE Templates!EveryContentKept'
  <2>1. PICK e \in EditType : Templates!Become(r, e)
    BY <1>1 DEF Opens
  <2>2. Templates!Kept' = Templates!Kept /\ edit[r].at = "idle"
    BY <1>k, <1>1 DEF Opens
  <2> QED
    BY <1>0, <1>k, <1>1, <2>1, <2>2, TemplatesBecome, ContentsStay DEF Opens, Stands
<1>2. ASSUME NEW r \in Requests, Inserts(r), Stands PROVE Templates!EveryContentKept'
  <2>1. PICK t \in Templates!Tids, e \in EditType :
         /\ template[t].row = "never"
         /\ \A u \in Templates!Tids \ {t} : template'[u] = template[u]
         /\ had'[t] = {e.content}
         /\ \A u \in Templates!Tids \ {t} : had'[u] = had[u]
         /\ e.at = "first" /\ e.t = t
         /\ Templates!Become(r, e)
    BY <1>2 DEF Inserts
  <2>2. edit'[r] = e /\ \A s \in Requests \ {r} : edit'[s] = edit[s]
    BY <1>0, <2>1, TemplatesBecome
  <2>3. edit[r].t = 0
    BY <1>2 DEF Inserts, HistoryType, Concerned
  <2>4. \A u \in Templates!Kept' : \A c \in had'[u] :
           \/ u \in Templates!Kept /\ c \in had[u]
           \/ edit'[r].at \in Templates!Owing /\ edit'[r].t = u /\ edit'[r].content = c
    BY <1>k, <2>1, <2>2
  <2>5. versions' = versions /\ lost' = lost
    BY <1>2 DEF Stands
  <2> QED
    BY <1>k, <2>2, <2>3, <2>4, <2>5, ContentsStay
<1>3. ASSUME NEW r \in Requests, Updates(r), Stands PROVE Templates!EveryContentKept'
  <2>1. PICK e \in EditType :
      /\ \/ edit[r].at = "update" /\ edit[r].t = e.t /\ edit[r].content = e.content
         \/ edit[r].at = "idle" /\ e.t \in Templates!Kept
      /\ e.t \in Templates!Tids
      /\ \A u \in Templates!Tids : template'[u].row = template[u].row
      /\ \A u \in Templates!Tids \ {e.t} : had'[u] = had[u]
      /\ e.t \in Templates!Kept => had'[e.t] = had[e.t] \cup {e.content}
      /\ e.at = "number"
      /\ Templates!Become(r, e)
    BY <1>3 DEF Updates
  <2>2. edit'[r] = e /\ \A s \in Requests \ {r} : edit'[s] = edit[s]
    BY <1>0, <2>1, TemplatesBecome
  <2>3. Templates!Kept' = Templates!Kept
    BY <1>k, <2>1
  <2>4. \A u \in Templates!Kept : \A c \in had'[u] :
           \/ c \in had[u]
           \/ edit'[r].at \in Templates!Owing /\ edit'[r].t = u /\ edit'[r].content = c
    BY <1>k, <2>1, <2>2
  <2>5. versions' = versions /\ lost' = lost
    BY <1>3 DEF Stands
  <2> QED
    BY <1>k, <2>1, <2>2, <2>3, <2>4, <2>5, ContentsStay
<1>4. ASSUME NEW r \in Requests, Reads(r), Stands PROVE Templates!EveryContentKept'
  <2>1. PICK e \in EditType : e.at = "record" /\ e.t = edit[r].t /\ e.content = edit[r].content
                              /\ Templates!Become(r, e)
    BY <1>4 DEF Reads
  <2>2. edit'[r] = e /\ \A s \in Requests \ {r} : edit'[s] = edit[s]
    BY <1>0, <2>1, TemplatesBecome
  <2>3. Templates!Kept' = Templates!Kept /\ had' = had /\ versions' = versions /\ lost' = lost
    BY <1>k, <1>4 DEF Reads, Stands
  <2> QED
    BY <1>k, <2>1, <2>2, <2>3, ContentsStay
<1>5. ASSUME NEW r \in Requests, NEW n,
             \/ edit[r].at = "first" /\ n = 1
             \/ edit[r].at = "record" /\ n = edit[r].version,
             Templates!AddVersion(edit[r].t, n, edit[r].content), Templates!Become(r, Templates!Resting),
             UNCHANGED <<template, had>>, silent' = FALSE
      PROVE  Templates!EveryContentKept'
  <2>0. edit[r].at \in {"first", "record"} /\ n = IF edit[r].at = "first" THEN 1 ELSE edit[r].version
    BY <1>5
  <2>1. /\ Templates!Kept' = Templates!Kept
        /\ \A s \in Requests \ {r} : edit'[s] = edit[s]
        /\ \A u \in Templates!Tids \ {edit[r].t} : versions'[u] = versions[u] /\ lost'[u] = lost[u]
        /\ versions' \in [Templates!Tids -> Seq(EntryType)]
        /\ Grown(edit[r].t, n, edit[r].content) \/ Missed(edit[r].t, edit[r].content)
    BY <1>5, <2>0, Growing
  <2>2. PICK t \in Templates!Tids : t = edit[r].t
    BY <2>0 DEF HistoryType, Concerned
  <2>3. \A u \in Templates!Kept' : \A c \in had'[u] : u \in Templates!Kept /\ c \in had[u]
    BY <1>5, <2>1
  <2>4. CASE Grown(t, n, edit[r].content)
    <3>1. /\ DOMAIN versions[t] = 1..Len(versions[t]) /\ Len(versions[t]) \in Nat
          /\ DOMAIN versions'[t] = 1..Len(versions[t]) + 1
      BY <1>0, <2>1, <2>4 DEF Grown
    <3>2. \A u \in Templates!Kept' : \A i \in DOMAIN versions[u] :
             \E j \in DOMAIN versions'[u] : versions'[u][j].content = versions[u][i].content
      <4> SUFFICES ASSUME NEW u \in Templates!Kept, NEW i \in DOMAIN versions[u]
                   PROVE  \E j \in DOMAIN versions'[u] : versions'[u][j].content = versions[u][i].content
        BY <2>1
      <4>1. CASE u # t
        BY <1>k, <2>1, <2>2, <4>1
      <4>2. CASE u = t
        <5>1. i \in DOMAIN versions'[t] /\ versions'[t][i] = versions[t][i]
          BY <2>4, <3>1, <4>2 DEF Grown
        <5> QED
          BY <4>2, <5>1
      <4> QED
        BY <4>1, <4>2
    <3>3. \E j \in DOMAIN versions'[t] : versions'[t][j].content = edit[r].content
      <4>1. Len(versions[t]) + 1 \in DOMAIN versions'[t]
        BY <3>1
      <4> QED
        BY <2>4, <4>1 DEF Grown
    <3>4. \A u \in Templates!Kept' : \A c \in lost[u] :
             c \in lost'[u] \/ \E j \in DOMAIN versions'[u] : versions'[u][j].content = c
      <4>1. lost'[t] = lost[t] \ {edit[r].content}
        BY <2>4 DEF Grown
      <4> QED
        BY <1>k, <2>1, <2>2, <3>3, <4>1
    <3>5. \A u \in Templates!Kept' : edit[r].t = u =>
             \E j \in DOMAIN versions'[u] : versions'[u][j].content = edit[r].content
      BY <2>2, <3>3
    <3>6. \A s \in Requests \ {r} : edit'[s] = edit[s]
      BY <2>1
    <3>7. \A u \in Templates!Kept' : \A c \in had'[u] :
            \/ u \in Templates!Kept /\ c \in had[u]
            \/ edit'[r].at \in Templates!Owing /\ edit'[r].t = u /\ edit'[r].content = c
      BY <2>3
    <3>8. \A u \in Templates!Kept' : edit[r].at \in Templates!Owing /\ edit[r].t = u =>
            \/ edit'[r].at \in Templates!Owing /\ edit'[r].t = u /\ edit'[r].content = edit[r].content
            \/ \E j \in DOMAIN versions'[u] : versions'[u][j].content = edit[r].content
            \/ edit[r].content \in had'[u] => edit[r].content \in lost'[u]
      BY <3>5
    <3> QED
      BY <3>2, <3>4, <3>6, <3>7, <3>8, ContentsStay
  <2>5. CASE Missed(t, edit[r].content)
    <3>1. versions' = versions /\ lost'[t] = lost[t] \cup (had[t] \cap {edit[r].content})
      BY <2>5 DEF Missed
    <3>2. \A u \in Templates!Kept' : lost[u] \subseteq lost'[u]
      BY <1>k, <2>1, <2>2, <3>1
    <3>3. edit[r].content \in had'[t] => edit[r].content \in lost'[t]
      BY <1>5, <3>1
    <3> QED
      BY <2>1, <2>2, <2>3, <3>1, <3>2, <3>3, ContentsStay
  <2> QED
    BY <2>1, <2>2, <2>4, <2>5
<1>6. ASSUME NEW r \in Requests, Templates!FirstVersion(r) \/ Templates!RecordVersion(r)
      PROVE  Templates!EveryContentKept'
  <2>1. CASE Templates!FirstVersion(r)
    <3>1. /\ edit[r].at = "first" /\ Templates!AddVersion(edit[r].t, 1, edit[r].content)
          /\ Templates!Become(r, Templates!Resting) /\ UNCHANGED <<template, had>> /\ silent' = FALSE
      BY <2>1 DEF Templates!FirstVersion, Templates!At, Templates!Spoken
    <3> QED
      BY <1>5, <3>1
  <2>2. CASE Templates!RecordVersion(r)
    <3>1. /\ edit[r].at = "record" /\ Templates!AddVersion(edit[r].t, edit[r].version, edit[r].content)
          /\ Templates!Become(r, Templates!Resting) /\ UNCHANGED <<template, had>> /\ silent' = FALSE
      BY <2>2 DEF Templates!RecordVersion, Templates!At, Templates!Spoken
    <3> QED
      BY <1>5, <3>1
  <2> QED
    BY <1>6, <2>1, <2>2
<1>7. ASSUME UNCHANGED edit,
             \A t \in Templates!Kept' :
               t \in Templates!Kept /\ had'[t] = had[t] /\ versions'[t] = versions[t] /\ lost'[t] = lost[t]
      PROVE  Templates!EveryContentKept'
  BY <1>7 DEF Templates!EveryContentKept, Templates!Owed, Templates!Owing
<1>8. ASSUME NEW t \in Templates!Tids, Templates!DeleteTemplate(t) PROVE Templates!EveryContentKept'
  <2>1. \A u \in Templates!Kept' : u # t /\ u \in Templates!Tids
    BY <1>0, <1>k, <1>8 DEF Templates!DeleteTemplate, Templates!NoTemplate
  <2>2. \A u \in Templates!Tids \ {t} :
          template'[u] = template[u] /\ had'[u] = had[u] /\ versions'[u] = versions[u] /\ lost'[u] = lost[u]
    BY <1>0, <1>8 DEF Templates!DeleteTemplate
  <2> QED
    BY <1>k, <1>7, <1>8, <2>1, <2>2 DEF Templates!DeleteTemplate
<1>9. ASSUME NEW t \in 0..MaxTemplates, Templates!FireSchedule(t) PROVE Templates!EveryContentKept'
  BY <1>k, <1>7, <1>9 DEF Templates!FireSchedule
<1>10. CASE Templates!Restart
  <2> SUFFICES ASSUME NEW u \in Templates!Kept', NEW c \in had'[u]
               PROVE  c \in lost'[u] \/ \E i \in DOMAIN versions'[u] : versions'[u][i].content = c
    BY DEF Templates!EveryContentKept
  <2>1. u \in Templates!Kept /\ c \in had[u] =>
          c \in Cut(u) \/ \E i \in DOMAIN versions[u] : versions[u][i].content = c
    BY DEF Templates!EveryContentKept, Cut
  <2>2. CASE UNCHANGED <<template, versions, had>> /\ \A w \in Templates!Tids : lost'[w] = Cut(w)
    BY <1>k, <2>1, <2>2
  <2>3. CASE \E t \in Templates!Tids : Seeds(t)
    <3>1. PICK t \in Templates!Tids : Seeds(t)
      BY <2>3
    <3>2. CASE u = t
      <4>1. c = Seed
        BY <3>1, <3>2 DEF Seeds
      <4>2. CASE \E e \in EntryType : e.version = 1 /\ e.content = Seed /\ versions'[t] = <<e>>
        <5>1. PICK e \in EntryType : e.content = Seed /\ versions'[t] = <<e>>
          BY <4>2
        <5>2. 1 \in DOMAIN <<e>> /\ <<e>>[1] = e
          OBVIOUS
        <5> QED
          BY <3>2, <4>1, <5>1, <5>2
      <4>3. CASE Seed \in lost'[t]
        BY <3>2, <4>1, <4>3
      <4> QED
        BY <3>1, <4>2, <4>3 DEF Seeds
    <3>3. CASE u # t
      <4>1. /\ template'[u] = template[u] /\ versions'[u] = versions[u]
            /\ had'[u] = had[u] /\ lost'[u] = Cut(u)
        BY <1>k, <3>1, <3>3 DEF Seeds
      <4> QED
        BY <1>k, <2>1, <4>1
    <3> QED
      BY <3>2, <3>3
  <2> QED
    BY <1>10, <2>2, <2>3, Seeding
<1>11. CASE UNCHANGED templates
  BY <1>k, <1>7, <1>11 DEF templates
<1>12. ASSUME NEW r \in Requests, GivesUp(r), Stands PROVE Templates!EveryContentKept'
  <2>1. \A s \in Requests \ {r} : edit'[s] = edit[s]
    BY <1>0, <1>12, TemplatesBecome, TemplatesConstants DEF GivesUp
  <2>2. Templates!Kept' = Templates!Kept /\ had' = had /\ versions' = versions /\ lost' = lost
    BY <1>k, <1>12 DEF GivesUp, Stands
  <2>3. edit[r].at \notin Templates!Owing
    BY <1>k, <1>12 DEF GivesUp
  <2> QED
    BY <2>1, <2>2, <2>3, ContentsStay
<1> QED
  BY <1>1, <1>2, <1>3, <1>4, <1>6, <1>8, <1>9, <1>10, <1>11, <1>12, Handlers, Reading, Failing DEF Templates!Next

\* While requests come one by one, a step is taken by the only one that runs.
LEMMA Alone ==
  ASSUME HistoryType, NEW r \in Requests, NEW e, Templates!Become(r, e), ~overlapped'
  PROVE  /\ ~overlapped
         /\ \A s \in Requests \ {r} : edit[s].at = "idle" /\ edit[s].t = 0
<1>1. overlapped' = (overlapped \/ Templates!Busy \ {r} # {})
  BY DEF Templates!Become
<1>2. ~overlapped /\ Templates!Busy \ {r} = {}
  BY <1>1, Zenon
<1>3. \A s \in Requests \ {r} : edit[s].at = "idle"
  BY <1>2 DEF Templates!Busy
<1> QED
  BY <1>2, <1>3 DEF HistoryType, Concerned

LEMMA CalmStays ==
  ASSUME Calm, NEW r \in Requests,
         \A s \in Requests \ {r} : edit[s].at = "idle" /\ edit[s].t = 0 /\ edit'[s] = edit[s],
         \A u \in Templates!Kept' :
           /\ u # 0
           /\ \/ /\ u \in Templates!Kept /\ u # edit[r].t /\ lost'[u] = lost[u]
                 /\ versions'[u] = versions[u] /\ template'[u].content = template[u].content
              \/ /\ InOrder(versions'[u])
                 /\ (edit'[r].t = u /\ edit'[r].at # "update") \/ Newest(u)',
         edit'[r].t \in Templates!Kept' /\ edit'[r].at \in Templates!Owing =>
           /\ template'[edit'[r].t].content = edit'[r].content
           /\ edit'[r].at = "first" => versions'[edit'[r].t] = <<>>
           /\ edit'[r].at = "record" => \/ edit'[r].version \in {0, Len(versions'[edit'[r].t]) + 1}
                                        \/ Templates!Unnumbered(versions'[edit'[r].t])
  PROVE  Calm'
<1>1. \A s, q \in Templates!Busy' : s = q
  BY DEF Templates!Busy
<1>2. ASSUME NEW u \in Templates!Kept'
      PROVE  /\ InOrder(versions'[u])
             /\ (\A s \in Requests : edit'[s].t = u => edit'[s].at = "update") => Newest(u)'
  <2>1. CASE /\ u \in Templates!Kept /\ u # edit[r].t /\ lost'[u] = lost[u]
             /\ versions'[u] = versions[u] /\ template'[u].content = template[u].content
    <3>1. \A s \in Requests : edit[s].t # u
      BY <2>1
    <3>2. Newest(u) /\ InOrder(versions[u])
      BY <2>1, <3>1 DEF Calm
    <3>3. Newest(u)'
      BY <2>1, <3>2 DEF Newest
    <3> QED
      BY <2>1, <3>2, <3>3
  <2>2. CASE /\ InOrder(versions'[u])
             /\ (edit'[r].t = u /\ edit'[r].at # "update") \/ Newest(u)'
    BY <2>2
  <2> QED
    BY <2>1, <2>2
<1>3. ASSUME NEW s \in Requests, edit'[s].t \in Templates!Kept', edit'[s].at \in Templates!Owing
      PROVE  /\ template'[edit'[s].t].content = edit'[s].content
             /\ edit'[s].at = "first" => versions'[edit'[s].t] = <<>>
             /\ edit'[s].at = "record" => \/ edit'[s].version \in {0, Len(versions'[edit'[s].t]) + 1}
                                          \/ Templates!Unnumbered(versions'[edit'[s].t])
  <2>1. s = r
    BY <1>3 DEF Templates!Owing
  <2> QED
    BY <1>3, <2>1
<1> QED
  BY <1>1, <1>2, <1>3 DEF Calm, InOrder, Newest, Templates!Unnumbered, Templates!Owing

\* An entry at the end, with a number that may be 0.
LEMMA EntryAtEnd ==
  ASSUME NEW vs \in Seq(EntryType), NEW us \in Seq(EntryType), NEW n, InOrder(vs),
         Len(us) = Len(vs) + 1, \A i \in 1..Len(vs) : us[i] = vs[i], us[Len(vs) + 1].version = n,
         n \in {0, Len(vs) + 1} \/ Templates!Unnumbered(vs)
  PROVE  InOrder(us) /\ us # <<>>
<1>1. Len(vs) \in Nat /\ DOMAIN vs = 1..Len(vs) /\ DOMAIN us = 1..Len(vs) + 1
  OBVIOUS
<1>2. Len(vs) + 1 \in DOMAIN us /\ \A i \in 1..Len(vs) : i \in DOMAIN us
  BY <1>1
<1>3. us # <<>>
  BY <1>1
<1>4. CASE Templates!Unnumbered(vs)
  <2>1. PICK i \in 1..Len(vs) : vs[i].version = 0
    BY <1>1, <1>4 DEF Templates!Unnumbered
  <2> QED
    BY <1>2, <1>3, <2>1 DEF InOrder, Templates!Unnumbered
<1>5. CASE n = 0
  BY <1>2, <1>3, <1>5 DEF InOrder, Templates!Unnumbered
<1>6. CASE n = Len(vs) + 1 /\ \A i \in DOMAIN vs : vs[i].version = i
  <2>1. \A i \in 1..Len(vs) + 1 : i = Len(vs) + 1 \/ i \in 1..Len(vs)
    BY <1>1
  <2>2. \A i \in DOMAIN us : us[i].version = i
    BY <1>1, <1>6, <2>1
  <2> QED
    BY <1>3, <2>2 DEF InOrder
<1> QED
  BY <1>4, <1>5, <1>6 DEF InOrder

LEMMA CalmLasts ==
  ASSUME HistoryType, TextsHad, ~overlapped => Calm, [Templates!Next]_templates, ~overlapped'
  PROVE  Calm'
<1>0. /\ Templates!TypeOK /\ template \in [Templates!Tids -> RowType] /\ edit \in [Requests -> EditType]
      /\ versions \in [Templates!Tids -> Seq(EntryType)]
  BY DEF HistoryType, Templates!TypeOK, RowType, EditType, EntryType
<1>k. /\ Templates!Kept' = {u \in Templates!Tids : template'[u].row = "here"}
      /\ Templates!Kept = {u \in Templates!Tids : template[u].row = "here"}
      /\ 0 \notin Templates!Tids /\ Templates!Owing = {"first", "number", "record"}
  BY TemplatesConstants DEF Templates!Kept, Templates!Tids, Templates!Owing
<1>1. ASSUME NEW r \in Requests, Opens(r), Stands PROVE Calm'
  <2>1. PICK e \in EditType : Templates!Become(r, e) /\ (e.at = "insert" \/ e.at = "update")
    BY <1>1 DEF Opens
  <2>2. edit'[r] = e /\ \A s \in Requests \ {r} : edit'[s] = edit[s]
    BY <1>0, <2>1, TemplatesBecome
  <2>3. /\ ~overlapped
        /\ \A s \in Requests \ {r} : edit[s].at = "idle" /\ edit[s].t = 0 /\ edit'[s] = edit[s]
    BY <2>1, <2>2, Alone
  <2>4. Calm
    BY <1>1, <2>3 DEF Stands
  <2>5. edit[r].t = 0
    BY <1>1 DEF HistoryType, Concerned, Opens
  <2>6. \A u \in Templates!Kept' :
          /\ u # 0 /\ u \in Templates!Kept /\ u # edit[r].t /\ lost'[u] = lost[u]
          /\ versions'[u] = versions[u] /\ template'[u].content = template[u].content
    BY <1>k, <1>1, <2>5 DEF Opens, Stands
  <2>7. edit'[r].at \notin Templates!Owing
    BY <1>k, <2>1, <2>2
  <2> QED
    BY <2>3, <2>4, <2>6, <2>7, CalmStays
<1>2. ASSUME NEW r \in Requests, Inserts(r), Stands PROVE Calm'
  <2>1. PICK t \in Templates!Tids, e \in EditType :
         /\ template[t].row = "never"
         /\ template'[t].row = "here" /\ template'[t].content = e.content
         /\ \A u \in Templates!Tids \ {t} : template'[u] = template[u]
         /\ e.at = "first" /\ e.t = t
         /\ Templates!Become(r, e)
    BY <1>2 DEF Inserts
  <2>2. edit'[r] = e /\ \A s \in Requests \ {r} : edit'[s] = edit[s]
    BY <1>0, <2>1, TemplatesBecome
  <2>3. /\ ~overlapped
        /\ \A s \in Requests \ {r} : edit[s].at = "idle" /\ edit[s].t = 0 /\ edit'[s] = edit[s]
    BY <2>1, <2>2, Alone
  <2>4. Calm
    BY <1>2, <2>3 DEF Stands
  <2>5. edit[r].t = 0
    BY <1>2 DEF HistoryType, Concerned, Inserts
  <2>6. versions' = versions /\ lost' = lost /\ versions[t] = <<>>
    BY <1>k, <1>2, <2>1 DEF HistoryType, NoRelics, Stands
  <2>7. \A u \in Templates!Kept' :
          /\ u # 0
          /\ \/ /\ u \in Templates!Kept /\ u # edit[r].t /\ lost'[u] = lost[u]
                /\ versions'[u] = versions[u] /\ template'[u].content = template[u].content
             \/ u = t
    BY <1>k, <2>1, <2>5, <2>6
  <2>8. InOrder(versions'[t])
    BY <2>6 DEF InOrder
  <2> QED
    BY <2>1, <2>2, <2>3, <2>4, <2>6, <2>7, <2>8, CalmStays
<1>3. ASSUME NEW r \in Requests, Updates(r), Stands PROVE Calm'
  <2>1. PICK e \in EditType :
      /\ \/ edit[r].at = "update" /\ edit[r].t = e.t
         \/ edit[r].at = "idle"
      /\ \A u \in Templates!Tids : template'[u].row = template[u].row
      /\ \A u \in Templates!Tids \ {e.t} : template'[u] = template[u]
      /\ e.t \in Templates!Kept => template'[e.t].content = e.content
      /\ e.at = "number"
      /\ Templates!Become(r, e)
    BY <1>3 DEF Updates
  <2>2. edit'[r] = e /\ \A s \in Requests \ {r} : edit'[s] = edit[s]
    BY <1>0, <2>1, TemplatesBecome
  <2>3. /\ ~overlapped
        /\ \A s \in Requests \ {r} : edit[s].at = "idle" /\ edit[s].t = 0 /\ edit'[s] = edit[s]
    BY <2>1, <2>2, Alone
  <2>4. Calm
    BY <1>3, <2>3 DEF Stands
  <2>5. edit[r].t = 0 \/ edit[r].t = e.t
    BY <2>1 DEF HistoryType, Concerned
  <2>6. versions' = versions /\ lost' = lost /\ Templates!Kept' = Templates!Kept
    BY <1>k, <1>3, <2>1 DEF Stands
  <2>7. \A u \in Templates!Kept' :
          /\ u # 0
          /\ \/ /\ u \in Templates!Kept /\ u # edit[r].t /\ lost'[u] = lost[u]
                /\ versions'[u] = versions[u] /\ template'[u].content = template[u].content
             \/ InOrder(versions'[u]) /\ u = e.t
    <3> SUFFICES ASSUME NEW u \in Templates!Kept
                 PROVE  /\ u # 0
                        /\ \/ u # edit[r].t /\ template'[u].content = template[u].content
                           \/ InOrder(versions[u]) /\ u = e.t
      BY <2>6
    <3>1. CASE u = e.t
      BY <1>k, <2>4, <3>1 DEF Calm
    <3>2. CASE u # e.t
      BY <1>k, <2>1, <2>5, <3>2
    <3> QED
      BY <3>1, <3>2
  <2> QED
    BY <2>1, <2>2, <2>3, <2>4, <2>6, <2>7, CalmStays
<1>4. ASSUME NEW r \in Requests, Reads(r), Stands PROVE Calm'
  <2>1. PICK e \in EditType :
         /\ e.at = "record" /\ e.t = edit[r].t /\ e.content = edit[r].content
         /\ \/ e.version = 0
            \/ (\A i \in DOMAIN versions[e.t] : versions[e.t][i].version = i) => e.version = Len(versions[e.t]) + 1
         /\ Templates!Become(r, e)
    BY <1>4 DEF Reads
  <2>2. edit'[r] = e /\ \A s \in Requests \ {r} : edit'[s] = edit[s]
    BY <1>0, <2>1, TemplatesBecome
  <2>3. /\ ~overlapped
        /\ \A s \in Requests \ {r} : edit[s].at = "idle" /\ edit[s].t = 0 /\ edit'[s] = edit[s]
    BY <2>1, <2>2, Alone
  <2>4. Calm
    BY <1>4, <2>3 DEF Stands
  <2>5. /\ versions' = versions /\ lost' = lost /\ template' = template
        /\ Templates!Kept' = Templates!Kept /\ edit[r].at = "number"
    BY <1>k, <1>4 DEF Stands, Reads
  <2>6. \A u \in Templates!Kept :
          u # 0 /\ InOrder(versions[u])
    BY <1>k, <2>4 DEF Calm
  <2>7. e.t \in Templates!Kept => /\ template[e.t].content = e.content
                                  /\ \/ e.version \in {0, Len(versions[e.t]) + 1}
                                     \/ Templates!Unnumbered(versions[e.t])
    <3>1. e.t \in Templates!Kept => template[e.t].content = e.content
      BY <1>k, <2>1, <2>4, <2>5 DEF Calm
    <3> QED
      BY <2>1, <2>6, <3>1 DEF InOrder
  <2> QED
    BY <1>k, <2>1, <2>2, <2>3, <2>4, <2>5, <2>6, <2>7, CalmStays
<1>5. ASSUME NEW r \in Requests, NEW n,
             \/ edit[r].at = "first" /\ n = 1
             \/ edit[r].at = "record" /\ n = edit[r].version,
             Templates!AddVersion(edit[r].t, n, edit[r].content), Templates!Become(r, Templates!Resting),
             UNCHANGED <<template, had>>, silent' = FALSE
      PROVE  Calm'
  <2>0. edit[r].at \in {"first", "record"} /\ n = IF edit[r].at = "first" THEN 1 ELSE edit[r].version
    BY <1>5
  <2>1. /\ Templates!Kept' = Templates!Kept
        /\ edit'[r] = Templates!Resting /\ \A s \in Requests \ {r} : edit'[s] = edit[s]
        /\ \A u \in Templates!Tids \ {edit[r].t} : versions'[u] = versions[u] /\ lost'[u] = lost[u]
        /\ versions' \in [Templates!Tids -> Seq(EntryType)]
        /\ Grown(edit[r].t, n, edit[r].content) \/ Missed(edit[r].t, edit[r].content)
    BY <1>5, <2>0, Growing
  <2>2. PICK t \in Templates!Tids : t = edit[r].t
    BY <2>0 DEF HistoryType, Concerned
  <2>3. /\ ~overlapped
        /\ \A s \in Requests \ {r} : edit[s].at = "idle" /\ edit[s].t = 0 /\ edit'[s] = edit[s]
    BY <1>5, <2>1, Alone
  <2>4. Calm
    BY <1>5, <2>3
  <2>5. t \in Templates!Kept =>
          /\ template[t].content = edit[r].content
          /\ InOrder(versions[t])
          /\ n \in {0, Len(versions[t]) + 1} \/ Templates!Unnumbered(versions[t])
    <3> SUFFICES ASSUME t \in Templates!Kept
                 PROVE  /\ template[t].content = edit[r].content
                        /\ InOrder(versions[t])
                        /\ n \in {0, Len(versions[t]) + 1} \/ Templates!Unnumbered(versions[t])
      OBVIOUS
    <3>1. template[t].content = edit[r].content /\ InOrder(versions[t])
      BY <1>k, <2>0, <2>2, <2>4 DEF Calm
    <3>2. CASE edit[r].at = "first" /\ n = 1
      <4>1. versions[t] = <<>>
        BY <1>k, <2>2, <2>4, <3>2 DEF Calm
      <4> QED
        BY <3>1, <3>2, <4>1
    <3>3. CASE edit[r].at = "record" /\ n = edit[r].version
      BY <1>k, <2>2, <2>4, <3>1, <3>3 DEF Calm
    <3> QED
      BY <1>5, <3>2, <3>3
  <2>6. t \in Templates!Kept => InOrder(versions'[t]) /\ Newest(t)'
    <3> SUFFICES ASSUME t \in Templates!Kept PROVE InOrder(versions'[t]) /\ Newest(t)'
      OBVIOUS
    <3>1. CASE Grown(t, n, edit[r].content)
      <4>0. /\ versions[t] \in Seq(EntryType) /\ versions'[t] \in Seq(EntryType)
            /\ Len(versions'[t]) = Len(versions[t]) + 1
            /\ \A i \in 1..Len(versions[t]) : versions'[t][i] = versions[t][i]
            /\ versions'[t][Len(versions[t]) + 1].version = n
        BY <1>0, <2>1, <3>1 DEF Grown
      <4>1. InOrder(versions'[t]) /\ versions'[t] # <<>>
        <5> HIDE DEF Grown
        <5> QED
          BY <2>5, <4>0, EntryAtEnd
      <4>2. versions'[t][Len(versions'[t])].content = template'[t].content
        BY <1>5, <2>5, <3>1 DEF Grown
      <4> QED
        BY <4>1, <4>2 DEF Newest
    <3>2. CASE Missed(t, edit[r].content)
      <4>1. template'[t].content = edit[r].content /\ template[t].content \in had[t]
        BY <1>5, <2>5 DEF TextsHad
      <4>2. template'[t].content \in lost'[t] /\ versions' = versions
        BY <1>5, <2>5, <3>2, <4>1 DEF Missed
      <4> QED
        BY <2>5, <4>2 DEF Newest
    <3> QED
      BY <2>1, <2>2, <3>1, <3>2
  <2>7. edit'[r].at \notin Templates!Owing
    BY <1>k, <2>1, TemplatesConstants
  <2>8. \A u \in Templates!Kept' :
          /\ u # 0
          /\ \/ /\ u \in Templates!Kept /\ u # edit[r].t /\ lost'[u] = lost[u]
                /\ versions'[u] = versions[u] /\ template'[u].content = template[u].content
             \/ u = t /\ t \in Templates!Kept
    BY <1>k, <1>5, <2>1, <2>2
  <2>9. \A u \in Templates!Kept' :
          /\ u # 0
          /\ \/ /\ u \in Templates!Kept /\ u # edit[r].t /\ lost'[u] = lost[u]
                /\ versions'[u] = versions[u] /\ template'[u].content = template[u].content
             \/ InOrder(versions'[u]) /\ Newest(u)'
    BY <2>6, <2>8 DEF Newest
  <2> QED
    BY <2>3, <2>4, <2>7, <2>9, CalmStays
<1>6. ASSUME NEW r \in Requests, Templates!FirstVersion(r) \/ Templates!RecordVersion(r) PROVE Calm'
  <2>1. CASE Templates!FirstVersion(r)
    <3>1. /\ edit[r].at = "first" /\ Templates!AddVersion(edit[r].t, 1, edit[r].content)
          /\ Templates!Become(r, Templates!Resting) /\ UNCHANGED <<template, had>> /\ silent' = FALSE
      BY <2>1 DEF Templates!FirstVersion, Templates!At, Templates!Spoken
    <3> QED
      BY <1>5, <3>1
  <2>2. CASE Templates!RecordVersion(r)
    <3>1. /\ edit[r].at = "record" /\ Templates!AddVersion(edit[r].t, edit[r].version, edit[r].content)
          /\ Templates!Become(r, Templates!Resting) /\ UNCHANGED <<template, had>> /\ silent' = FALSE
      BY <2>2 DEF Templates!RecordVersion, Templates!At, Templates!Spoken
    <3> QED
      BY <1>5, <3>1
  <2> QED
    BY <1>6, <2>1, <2>2
<1>7. ASSUME UNCHANGED <<edit, overlapped>>,
             \A t \in Templates!Kept' :
               /\ t \in Templates!Kept /\ lost'[t] = lost[t]
               /\ template'[t].content = template[t].content /\ versions'[t] = versions[t]
      PROVE  Calm'
  <2>1. Calm
    BY <1>7
  <2>2. \A u \in Templates!Kept' : Newest(u)' <=> Newest(u)
    BY <1>7 DEF Newest
  <2> QED
    BY <1>7, <2>1, <2>2 DEF Calm, Templates!Busy, InOrder, Newest, Templates!Unnumbered, Templates!Owing
<1>8. ASSUME NEW t \in Templates!Tids, Templates!DeleteTemplate(t) PROVE Calm'
  <2>1. \A u \in Templates!Kept' : u # t /\ u \in Templates!Tids
    BY <1>0, <1>k, <1>8 DEF Templates!DeleteTemplate, Templates!NoTemplate
  <2>2. lost \in [Templates!Tids -> SUBSET Templates!Texts]
    BY DEF HistoryType, Templates!TypeOK
  <2>3. \A u \in Templates!Tids \ {t} : template'[u] = template[u] /\ versions'[u] = versions[u] /\ lost'[u] = lost[u]
    BY <1>0, <1>8, <2>2 DEF Templates!DeleteTemplate
  <2> QED
    BY <1>k, <1>7, <1>8, <2>1, <2>3 DEF Templates!DeleteTemplate
<1>9. ASSUME NEW t \in 0..MaxTemplates, Templates!FireSchedule(t) PROVE Calm'
  BY <1>k, <1>7, <1>9 DEF Templates!FireSchedule
<1>10. CASE Templates!Restart
  <2>1. Calm
    BY <1>10, Seeding
  <2>2. \A r \in Requests : edit'[r].at = "idle" /\ edit'[r].t = 0
    BY <1>10, Seeding, TemplatesConstants
  <2>3. ASSUME NEW u \in Templates!Kept
        PROVE  InOrder(versions[u]) /\ (Newest(u) \/ template[u].content \in Cut(u))
    <3>1. CASE \A r \in Requests : edit[r].t = u => edit[r].at = "update"
      BY <2>1, <3>1 DEF Calm
    <3>2. CASE ~(\A r \in Requests : edit[r].t = u => edit[r].at = "update")
      <4>1. PICK r \in Requests : edit[r].t = u /\ edit[r].at # "update"
        BY <3>2
      <4>2. edit[r].at \in Templates!Owing
        <5>1. edit[r].at \in Templates!Steps /\ edit[r].at \notin {"idle", "insert"}
          BY <1>0, <1>k, <4>1 DEF HistoryType, Concerned, EditType
        <5> QED
          BY <1>k, <4>1, <5>1 DEF Templates!Steps
      <4>3. template[u].content = edit[r].content /\ template[u].content \in had[u]
        BY <2>1, <4>1, <4>2 DEF Calm, TextsHad
      <4>4. Templates!Owed(u, template[u].content)
        BY <4>1, <4>2, <4>3 DEF Templates!Owed
      <4>5. InOrder(versions[u])
        BY <2>1 DEF Calm
      <4> QED
        BY <4>3, <4>4, <4>5 DEF Cut
    <3> QED
      BY <3>1, <3>2
  <2>4. ASSUME NEW u \in Templates!Kept',
               u \in Templates!Kept, template'[u] = template[u], versions'[u] = versions[u], lost'[u] = Cut(u)
        PROVE  InOrder(versions'[u]) /\ Newest(u)'
    BY <2>3, <2>4 DEF Newest, Cut
  <2>5. ASSUME NEW u \in Templates!Kept'
        PROVE  InOrder(versions'[u]) /\ Newest(u)'
    <3>1. CASE UNCHANGED <<template, versions, had>> /\ \A w \in Templates!Tids : lost'[w] = Cut(w)
      BY <1>k, <2>4, <3>1
    <3>2. CASE \E t \in Templates!Tids : Seeds(t)
      <4>1. PICK t \in Templates!Tids : Seeds(t)
        BY <3>2
      <4>2. CASE u # t
        BY <1>k, <2>4, <4>1, <4>2 DEF Seeds
      <4>3. CASE u = t
        <5>1. template'[u].content = Seed /\ template[u].row = "never"
          BY <4>1, <4>3 DEF Seeds
        <5>2. CASE \E e \in EntryType : e.version = 1 /\ e.content = Seed /\ versions'[t] = <<e>>
          <6>1. PICK e \in EntryType : e.version = 1 /\ e.content = Seed /\ versions'[t] = <<e>>
            BY <5>2
          <6>2. DOMAIN <<e>> = 1..1 /\ <<e>>[1] = e /\ Len(<<e>>) = 1 /\ <<e>> # <<>>
            OBVIOUS
          <6>3. PICK vs : vs = <<e>>
            OBVIOUS
          <6>4. (\A i \in DOMAIN vs : vs[i].version = i) /\ vs # <<>> /\ vs[Len(vs)].content = Seed
            BY <6>1, <6>2, <6>3
          <6>5. versions'[u] = vs
            BY <4>3, <6>1, <6>3
          <6> QED
            BY <5>1, <6>4, <6>5 DEF InOrder, Newest
        <5>3. CASE versions'[t] = versions[t] /\ Seed \in lost'[t]
          <6>1. versions[u] = <<>>
            BY <1>k, <4>3, <5>1 DEF HistoryType, NoRelics
          <6> QED
            BY <4>3, <5>1, <5>3, <6>1 DEF InOrder, Newest
        <5> QED
          BY <4>1, <5>2, <5>3 DEF Seeds
      <4> QED
        BY <4>2, <4>3
    <3> QED
      BY <1>10, <3>1, <3>2, Seeding
  <2>6. Templates!Busy' = {}
    BY <2>2 DEF Templates!Busy
  <2>7. \A r \in Requests : edit'[r].at \notin Templates!Owing
    BY <1>k, <2>2
  <2> QED
    BY <2>5, <2>6, <2>7 DEF Calm, InOrder, Newest, Templates!Unnumbered, Templates!Owing
<1>11. CASE UNCHANGED templates
  BY <1>k, <1>7, <1>11 DEF templates
<1>12. ASSUME NEW r \in Requests, GivesUp(r), Stands PROVE Calm'
  <2>1. edit'[r] = Templates!Resting /\ \A s \in Requests \ {r} : edit'[s] = edit[s]
    BY <1>0, <1>12, TemplatesBecome, TemplatesConstants DEF GivesUp
  <2>2. /\ ~overlapped
        /\ \A s \in Requests \ {r} : edit[s].at = "idle" /\ edit[s].t = 0 /\ edit'[s] = edit[s]
    BY <1>12, <2>1, Alone DEF GivesUp
  <2>3. Calm
    BY <2>2
  <2>4. Templates!Kept' = Templates!Kept /\ UNCHANGED <<template, versions, lost>>
    BY <1>k, <1>12 DEF GivesUp, Stands
  <2>5. edit[r].at = "update" \/ edit[r].t = 0
    BY <1>12 DEF HistoryType, Concerned, GivesUp
  <2>6. ASSUME NEW u \in Templates!Kept' PROVE u # 0 /\ InOrder(versions'[u]) /\ Newest(u)'
    <3>1. u # 0 /\ u \in Templates!Kept
      BY <1>k, <2>4
    <3>2. InOrder(versions[u]) /\ Newest(u)
      BY <2>2, <2>3, <2>5, <3>1 DEF Calm
    <3> QED
      BY <2>4, <3>1, <3>2 DEF Newest
  <2>7. edit'[r].at \notin Templates!Owing
    BY <1>k, <2>1, TemplatesConstants
  <2> QED
    BY <2>2, <2>3, <2>6, <2>7, CalmStays
<1> QED
  BY <1>1, <1>2, <1>3, <1>4, <1>6, <1>8, <1>9, <1>10, <1>11, <1>12, Handlers, Reading, Failing DEF Templates!Next

LEMMA TemplatesInit == Templates!Init => TemplatesInv
<1> SUFFICES ASSUME Templates!Init PROVE TemplatesInv
  OBVIOUS
<1>1. /\ edit = [r \in Requests |-> Templates!Resting] /\ silent = FALSE /\ overlapped = FALSE
      /\ lost = [t \in Templates!Tids |-> {}] /\ lost \in [Templates!Tids -> SUBSET Templates!Texts]
      /\ \A r \in Requests : edit[r].at = "idle" /\ edit[r].t = 0
  BY TemplatesConstants DEF Templates!Init
<1> DEFINE first == [row |-> "here", content |-> Seed, is_default |-> TRUE]
           entry == [version |-> 1, content |-> Seed]
<1>2. /\ first \in RowType /\ first.row = "here" /\ first.content = Seed
      /\ Templates!NoTemplate \in RowType /\ Templates!NoTemplate.row = "never"
  BY TemplatesConstants DEF RowType, Templates!NoTemplate
<1>3. entry \in EntryType /\ entry.version = 1 /\ entry.content = Seed
  <2>1. 1 \in Templates!Numbers
    BY TemplatesConstants
  <2> QED
    BY <2>1, TemplatesConstants DEF EntryType
<1>4. /\ template = [t \in Templates!Tids |-> IF t # 1 THEN Templates!NoTemplate ELSE first]
      /\ versions = [t \in Templates!Tids |-> IF t # 1 THEN <<>> ELSE <<entry>>]
      /\ had = [t \in Templates!Tids |-> IF t # 1 THEN {} ELSE {Seed}]
  BY DEF Templates!Init
<1> HIDE DEF first, entry
<1>5. PICK vs \in Seq(EntryType) : vs = <<entry>> /\ Len(vs) = 1 /\ DOMAIN vs = 1..1 /\ vs[1] = entry /\ vs # <<>>
  <2>1. /\ <<entry>> \in Seq(EntryType) /\ Len(<<entry>>) = 1 /\ DOMAIN <<entry>> = 1..1
        /\ <<entry>>[1] = entry /\ <<entry>> # <<>>
    BY <1>3
  <2> QED
    BY <2>1
<1>6. /\ versions \in [Templates!Tids -> Seq(EntryType)]
      /\ \A t \in Templates!Tids : versions[t] = IF t # 1 THEN <<>> ELSE vs
  BY <1>4, <1>5
<1>7. /\ template \in [Templates!Tids -> RowType]
      /\ \A t \in Templates!Tids : template[t] = IF t # 1 THEN Templates!NoTemplate ELSE first
  BY <1>2, <1>4
<1>8. /\ had \in [Templates!Tids -> SUBSET Templates!Texts]
      /\ \A t \in Templates!Tids : had[t] = IF t # 1 THEN {} ELSE {Seed}
  BY <1>4, TemplatesConstants
<1>9. Templates!Kept = {t \in Templates!Tids : t = 1}
  BY <1>2, <1>7 DEF Templates!Kept
<1>10. edit \in [Requests -> EditType]
  BY <1>1, TemplatesConstants
<1>11. Templates!TypeOK
  BY <1>1, <1>6, <1>7, <1>8, <1>10 DEF Templates!TypeOK, EntryType, EditType, RowType
<1>12. Concerned /\ NoRelics
  BY <1>1, <1>6, <1>9 DEF Concerned, NoRelics
<1>13. NotAhead
  <2>1. \A t \in Templates!Tids : \A i \in DOMAIN versions[t] : versions[t][i].version <= i
    BY <1>3, <1>5, <1>6
  <2> QED
    BY <1>1, <2>1 DEF NotAhead
<1>14. Bounded
  <2>1. ASSUME NEW t \in Templates!Tids
        PROVE  Len(versions[t]) + Cardinality(About(t)) <= MaxVersions + Cardinality(Requests)
    <3>1. About(t) = {}
      BY <1>1, TemplatesConstants DEF About
    <3>2. Cardinality(About(t)) = 0
      BY <3>1, FS_EmptySet
    <3>3. Len(versions[t]) = 0 \/ Len(versions[t]) = 1
      BY <1>5, <1>6
    <3>4. MaxVersions \in Nat /\ MaxVersions # 0 /\ Cardinality(Requests) \in Nat
      BY TemplatesConstants
    <3>5. PICK k \in Nat : k = MaxVersions + Cardinality(Requests) /\ 1 <= k
      BY <3>4
    <3>6. Len(versions[t]) + 0 <= k
      <4>1. CASE Len(versions[t]) = 0
        BY <3>5, <4>1
      <4>2. CASE Len(versions[t]) = 1
        BY <3>5, <4>2
      <4> QED
        BY <3>3, <4>1, <4>2
    <3>7. PICK n : n = Cardinality(About(t)) /\ n = 0
      BY <3>2
    <3>8. Len(versions[t]) + n <= k
      BY <3>6, <3>7
    <3> QED
      BY <3>5, <3>7, <3>8
  <2> QED
    BY <2>1 DEF Bounded
<1>15. Templates!EveryContentKept
  BY <1>3, <1>5, <1>6, <1>8, <1>9 DEF Templates!EveryContentKept
<1>16. Calm
  <2>1. Templates!Busy = {}
    BY <1>1 DEF Templates!Busy
  <2>2. \A t \in Templates!Kept : InOrder(versions[t]) /\ Newest(t)
    <3>1. (\A i \in DOMAIN vs : vs[i].version = i) /\ vs # <<>> /\ vs[Len(vs)].content = Seed
      BY <1>3, <1>5
    <3>2. \A t \in Templates!Kept : versions[t] = vs /\ template[t] = first
      BY <1>6, <1>7, <1>9
    <3> QED
      BY <1>2, <3>1, <3>2 DEF InOrder, Newest
  <2>3. \A r \in Requests : edit[r].at \notin Templates!Owing
    BY <1>1 DEF Templates!Owing
  <2> QED
    BY <2>1, <2>2, <2>3 DEF Calm
<1>17. TextsHad
  BY <1>2, <1>7, <1>8, <1>9 DEF TextsHad
<1> QED
  BY <1>11, <1>12, <1>13, <1>14, <1>15, <1>16, <1>17 DEF TemplatesInv, HistoryType

LEMMA TemplatesStep == TemplatesInv /\ [Templates!Next]_templates => TemplatesInv'
<1> SUFFICES ASSUME TemplatesInv, [Templates!Next]_templates PROVE TemplatesInv'
  OBVIOUS
<1>1. HistoryType' /\ TextsHad' /\ Templates!EveryContentKept'
  BY HistoryKept, TextsStayHad, ContentsKept DEF TemplatesInv
<1>2. ~overlapped' => Calm'
  BY CalmLasts DEF TemplatesInv
<1>3. (~overlapped => Calm)'
  BY <1>2, Zenon
<1> QED
  BY <1>1, <1>3 DEF TemplatesInv

LEMMA TemplatesSafe == PortalSpec => []TemplatesInv
<1>1. PortalInit => TemplatesInv
  BY TemplatesInit DEF PortalInit
<1>2. TemplatesInv /\ [PortalNext]_portal => TemplatesInv'
  BY Parts, TemplatesStep
<1> QED
  BY <1>1, <1>2, PTL DEF PortalSpec

(* The history of a template can be trusted: each content it has had is    *)
(* there or on its way, unless its INSERT has failed or was cut off by a   *)
(* restart, and while requests come one by one the newest is the one in    *)
(* use, unless that one was lost: CreateTemplate and UpdateTemplate, which *)
(* are several statements without a transaction and look at few of their   *)
(* errors, with DeleteTemplate and restarts.                               *)
THEOREM HistoriesAreTrue == PortalSpec => []AuditTrail
<1>1. TemplatesInv => AuditTrail
  <2> SUFFICES ASSUME TemplatesInv, ~overlapped, Templates!Busy = {}, NEW t \in Templates!Kept
               PROVE  Newest(t) /\ InOrder(versions[t])
    BY DEF TemplatesInv, AuditTrail, Templates!AuditTrail, Templates!NewestIsCurrent, Newest, InOrder
  <2>1. Calm
    BY DEF TemplatesInv
  <2>2. \A r \in Requests : edit[r].at = "idle"
    BY DEF Templates!Busy
  <2>3. \A r \in Requests : edit[r].t # t
    BY <2>2, TemplatesConstants DEF TemplatesInv, HistoryType, Concerned, Templates!Kept
  <2> QED
    BY <2>1, <2>3 DEF Calm
<1> QED
  BY TemplatesSafe, <1>1, PTL

(* A reminder goes out as long as there is a template and none is blank:   *)
(* the choice of fireSchedule and GetDefaultTemplate.                      *)
THEOREM ATextIsFound == PortalSpec => AlwaysAText
<1> DEFINE Spoke == silent' => Templates!Kept = {} \/ \E t \in Templates!Kept : template[t].content = Blank
<1>1. TemplatesInv /\ [PortalNext]_portal => [Spoke]_templates
  <2> SUFFICES ASSUME TemplatesInv, Templates!Next, silent', Templates!Kept # {} PROVE \E t \in Templates!Kept : template[t].content = Blank
    BY Parts
  <2>1. \A r \in Requests : Templates!FirstVersion(r) \/ Templates!RecordVersion(r) => silent' = FALSE
    BY DEF Templates!FirstVersion, Templates!RecordVersion, Templates!Spoken
  <2>2. \A t \in Templates!Tids : Templates!DeleteTemplate(t) => silent' = FALSE
    BY DEF Templates!DeleteTemplate, Templates!Spoken
  <2>3. Templates!Restart => silent' = FALSE
    BY DEF Templates!Restart, Templates!Spoken
  <2>4. PICK t \in 0..MaxTemplates : Templates!FireSchedule(t)
    BY <2>1, <2>2, <2>3, Handlers, Reading, Failing DEF Templates!Next, Stands, TemplatesInv
  <2>5. Templates!DefaultTemplates \subseteq Templates!Kept /\ Templates!DefaultTemplates # {}
    BY TemplatesIds DEF Templates!DefaultTemplates, Templates!Defaults
  <2>6. \E d \in Templates!DefaultTemplates : template[d].content = Blank
    BY <2>4, <2>5 DEF Templates!FireSchedule
  <2> QED
    BY <2>5, <2>6
<1>2. [Spoke]_templates => [Spoke]_(Templates!vars)
  BY DEF templates, Templates!vars
<1> QED
  BY TemplatesSafe, <1>1, <1>2, PTL DEF PortalSpec, AlwaysAText, Templates!AlwaysAText

----------------------------------------------------------------------------
(* The limiters: their tables hold exactly the requests let through within *)
(* the window, and what is older goes before it is three windows old.      *)

Recorded == Limiter!Visits(0..3 * Window)
Recent   == Limiter!Visits(0..Window - 1)
Of(k)    == {p \in passed : p.key = k}
Now(k)   == {p \in passed : p.key = k /\ p.age = 0}

LimiterType ==
    /\ smart \in BOOLEAN
    /\ visits \in [Requests -> SUBSET Recorded] /\ globalVisits \subseteq Recorded
    /\ sweep \in 0..2 * Window
    /\ passed \subseteq Recent /\ IsFiniteSet(passed)
    /\ answer \in [key : Requests \cup {"nobody"}, ok : BOOLEAN]

\* What is recorded gets no older than its window and the time to the next sweep.
Swept ==
    /\ \A k \in Requests : \A t \in visits[k] : t.age + sweep <= 3 * Window
    /\ \A t \in globalVisits : t.age + sweep <= 3 * Window

\* The tables hold what was let through, and nothing else that counts.
TrueTables ==
    /\ \A k \in Requests : Limiter!Valid(visits[k]) = Of(k)
    /\ smart => Limiter!Valid(globalVisits) = passed
    /\ ~smart => globalVisits = {}

\* The next number of a key is not in use.
Numbered == \A p \in passed : p.age = 0 => p.nth <= Cardinality(Now(p.key))

Limited ==
    /\ \A k \in Requests : Cardinality(Of(k)) <= Limit
    /\ smart => Cardinality(passed) <= GlobalLimit

LimiterInv == LimiterType /\ Swept /\ TrueTables /\ Numbered /\ Limited

LEMMA Counting == \A S : Limiter!Cardinality(S) = Cardinality(S)
BY DEF Limiter!Cardinality, Cardinality

LEMMA WindowConstants ==
  /\ Window \in Nat \ {0} /\ Limit \in Nat /\ GlobalLimit \in Nat
  /\ 0 \in 0..Window - 1 /\ 0 \in 0..3 * Window /\ 0..Window - 1 \subseteq 0..3 * Window
  /\ Recent \subseteq Recorded
  /\ \A ages : \A t : t \in Limiter!Visits(ages) <=> t \in [age : ages, key : Requests, nth : Nat]
<1>1. Window \in Nat \ {0} /\ Limit \in Nat /\ GlobalLimit \in Nat
  BY PortalAssumption
<1>2. 0 \in 0..Window - 1 /\ 0 \in 0..3 * Window /\ 0..Window - 1 \subseteq 0..3 * Window
  BY <1>1
<1> QED
  BY <1>1, <1>2 DEF Recent, Recorded, Limiter!Visits

LEMMA LimiterInit == Limiter!Init => LimiterInv
<1> SUFFICES ASSUME Limiter!Init PROVE LimiterInv
  OBVIOUS
<1>1. /\ visits = [k \in Requests |-> {}] /\ globalVisits = {} /\ passed = {} /\ sweep = 2 * Window
      /\ smart \in BOOLEAN /\ answer = [key |-> "nobody", ok |-> TRUE]
  BY DEF Limiter!Init, Limiter!Quiet
<1>2. LimiterType
  BY <1>1, WindowConstants, FS_EmptySet DEF LimiterType
<1>3. Swept /\ Numbered
  BY <1>1 DEF Swept, Numbered
<1>4. TrueTables
  BY <1>1 DEF TrueTables, Limiter!Valid, Of
<1>5. Limited
  <2>1. \A k \in Requests : Of(k) = {}
    BY <1>1 DEF Of
  <2>2. Cardinality({}) = 0 /\ 0 <= Limit /\ 0 <= GlobalLimit
    BY WindowConstants, FS_EmptySet
  <2>3. \A k \in Requests : Cardinality(Of(k)) <= Limit
    BY <2>1, <2>2
  <2>4. Cardinality(passed) <= GlobalLimit
    BY <1>1, <2>2
  <2> QED
    BY <2>3, <2>4 DEF Limited
<1> QED
  BY <1>2, <1>3, <1>4, <1>5 DEF LimiterInv

LEMMA SlicesFinite ==
  ASSUME LimiterInv, NEW k
  PROVE  /\ IsFiniteSet(Of(k)) /\ Cardinality(Of(k)) \in Nat
         /\ IsFiniteSet(Now(k)) /\ Cardinality(Now(k)) \in Nat
         /\ IsFiniteSet(passed) /\ Cardinality(passed) \in Nat
<1>1. Of(k) \in SUBSET passed /\ Now(k) \in SUBSET passed /\ IsFiniteSet(passed)
  BY DEF Of, Now, LimiterInv, LimiterType
<1> QED
  BY <1>1, FS_Subset, FS_CardinalityType

\* A request has a name of its own.
LEMMA Arrivals ==
  ASSUME LimiterInv, NEW k \in Requests
  PROVE  \E a \in Recent :
           /\ a = Limiter!Arrival(k) /\ a.age = 0 /\ a.key = k /\ a.nth = Cardinality(Now(k)) + 1
           /\ a \notin passed
<1> DEFINE sooner == {t \in visits[k] \cup globalVisits : t.key = k /\ t.age = 0}
<1>1. \A t : t.age = 0 => (t \in visits[k] <=> t \in Limiter!Valid(visits[k]))
  BY WindowConstants DEF Limiter!Valid
<1>2. \A t : t.age = 0 => (t \in globalVisits <=> t \in Limiter!Valid(globalVisits))
  BY WindowConstants DEF Limiter!Valid
<1>3. Limiter!Valid(visits[k]) = Of(k) /\ Limiter!Valid(globalVisits) \subseteq passed
  BY DEF LimiterInv, TrueTables, Limiter!Valid
<1>4. sooner = Now(k)
  BY <1>1, <1>2, <1>3 DEF Of, Now
<1>5. Limiter!Arrival(k) = [age |-> 0, key |-> k, nth |-> Cardinality(Now(k)) + 1]
  BY <1>4, Counting DEF Limiter!Arrival
<1>6. PICK n \in Nat : n = Cardinality(Now(k))
  BY SlicesFinite
<1>7. PICK a : a = [age |-> 0, key |-> k, nth |-> n + 1]
  OBVIOUS
<1>8. a.age = 0 /\ a.key = k /\ a.nth = n + 1
  BY <1>7
<1>9. a \in Recent
  BY <1>7, WindowConstants DEF Recent
<1>10. a \notin passed
  <2>1. ASSUME a \in passed PROVE n + 1 <= n
    BY <1>6, <1>8, <2>1 DEF LimiterInv, Numbered
  <2> QED
    BY <2>1
<1> QED
  BY <1>5, <1>6, <1>7, <1>8, <1>9, <1>10

\* What letting a request through does to the counts.
LEMMA LetThrough ==
  ASSUME LimiterInv, NEW k \in Requests, passed' = passed \cup {Limiter!Arrival(k)}
  PROVE  /\ passed' \subseteq Recent /\ IsFiniteSet(passed') /\ Numbered'
         /\ Of(k)' = Of(k) \cup {Limiter!Arrival(k)} /\ Cardinality(Of(k)') = Cardinality(Of(k)) + 1
         /\ \A j \in Requests \ {k} : Of(j)' = Of(j)
         /\ Cardinality(passed') = Cardinality(passed) + 1
<1>1. PICK a \in Recent :
           /\ a = Limiter!Arrival(k) /\ a.age = 0 /\ a.key = k /\ a.nth = Cardinality(Now(k)) + 1
           /\ a \notin passed
  BY Arrivals
<1>2. /\ passed' = passed \cup {a} /\ a \notin Of(k) /\ a \notin Now(k)
      /\ Of(k)' = Of(k) \cup {a} /\ Now(k)' = Now(k) \cup {a}
  BY <1>1 DEF Of, Now
<1>3. \A j : j # k => Of(j)' = Of(j) /\ Now(j)' = Now(j)
  BY <1>1, <1>2 DEF Of, Now
<1>4. /\ IsFiniteSet(passed') /\ Cardinality(passed') = Cardinality(passed) + 1
      /\ Cardinality(Of(k)') = Cardinality(Of(k)) + 1
      /\ Cardinality(Now(k)') = Cardinality(Now(k)) + 1
  <2>1. IsFiniteSet(passed) /\ IsFiniteSet(Of(k)) /\ IsFiniteSet(Now(k))
    BY SlicesFinite
  <2>2. IsFiniteSet(passed \cup {a}) /\ Cardinality(passed \cup {a}) = Cardinality(passed) + 1
    BY <1>1, <2>1, FS_AddElement
  <2>3. Cardinality(Of(k) \cup {a}) = Cardinality(Of(k)) + 1
    BY <1>2, <2>1, FS_AddElement
  <2>4. Cardinality(Now(k) \cup {a}) = Cardinality(Now(k)) + 1
    BY <1>2, <2>1, FS_AddElement
  <2> QED
    BY <1>2, <2>2, <2>3, <2>4
<1>5. passed' \subseteq Recent
  BY <1>1, <1>2 DEF LimiterInv, LimiterType
<1>6. Numbered'
  <2> SUFFICES ASSUME NEW p \in passed', p.age = 0 PROVE p.nth <= Cardinality(Now(p.key)')
    BY DEF Numbered, Now
  <2>1. CASE p = a
    BY <1>1, <1>4, <2>1, SlicesFinite
  <2>2. CASE p # a
    <3>1. p \in passed /\ p.nth <= Cardinality(Now(p.key))
      BY <1>2, <2>2 DEF LimiterInv, Numbered
    <3>2. CASE p.key = k
      <4>1. p.nth \in Nat
        <5>1. p \in [age : 0..Window - 1, key : Requests, nth : Nat]
          BY <3>1, WindowConstants DEF LimiterInv, LimiterType, Recent
        <5> QED
          BY <5>1
      <4> QED
        BY <1>4, <3>1, <3>2, <4>1, SlicesFinite
    <3>3. CASE p.key # k
      BY <1>3, <3>1, <3>3
    <3> QED
      BY <3>2, <3>3
  <2> QED
    BY <2>1, <2>2
<1> QED
  BY <1>1, <1>2, <1>3, <1>4, <1>5, <1>6

\* A granted request: the counts of its key, and of the server, go up by one.
LEMMA Granted ==
  ASSUME LimiterInv, NEW k \in Requests, UNCHANGED <<smart, sweep>>,
         passed' = passed \cup {Limiter!Arrival(k)},
         visits' = [visits EXCEPT ![k] = Of(k) \cup {Limiter!Arrival(k)}],
         globalVisits' = IF smart THEN passed \cup {Limiter!Arrival(k)} ELSE globalVisits,
         answer' \in [key : Requests \cup {"nobody"}, ok : BOOLEAN],
         Cardinality(Of(k)) < Limit, smart => Cardinality(passed) < GlobalLimit
  PROVE  LimiterInv'
<1>1. PICK a \in Recent :
           /\ a = Limiter!Arrival(k) /\ a.age = 0 /\ a.key = k /\ a.nth = Cardinality(Now(k)) + 1
           /\ a \notin passed
  BY Arrivals
<1>2. /\ passed' \subseteq Recent /\ IsFiniteSet(passed') /\ Numbered'
      /\ Of(k)' = Of(k) \cup {a} /\ Cardinality(Of(k)') = Cardinality(Of(k)) + 1
      /\ \A j \in Requests \ {k} : Of(j)' = Of(j)
      /\ Cardinality(passed') = Cardinality(passed) + 1
  BY <1>1, LetThrough
<1>3. /\ visits \in [Requests -> SUBSET Recorded] /\ globalVisits \subseteq Recorded
      /\ smart \in BOOLEAN /\ sweep \in 0..2 * Window
      /\ passed \subseteq Recent /\ Of(k) \subseteq passed
  BY DEF LimiterInv, LimiterType, Of
<1>4. visits'[k] = Of(k)' /\ \A j \in Requests \ {k} : visits'[j] = visits[j]
  BY <1>1, <1>2, <1>3
<1>5. visits' \in [Requests -> SUBSET Recorded] /\ globalVisits' \subseteq Recorded
  BY <1>1, <1>3, WindowConstants
<1>6. LimiterType'
  BY <1>2, <1>3, <1>5 DEF LimiterType
<1>7. \A t \in Recent : t.age \in Nat /\ t.age < Window
  <2>1. \A t \in Recent : t \in [age : 0..Window - 1, key : Requests, nth : Nat]
    BY WindowConstants DEF Recent
  <2> QED
    BY <2>1, WindowConstants
<1>8. \A t \in Recent : t.age + sweep <= 3 * Window
  BY <1>3, <1>7, WindowConstants
<1>9. Swept'
  <2>1. ASSUME NEW j \in Requests, NEW t \in visits'[j] PROVE t.age + sweep <= 3 * Window
    BY <1>1, <1>3, <1>4, <1>8, <2>1 DEF LimiterInv, Swept
  <2>2. ASSUME NEW t \in globalVisits' PROVE t.age + sweep <= 3 * Window
    BY <1>1, <1>3, <1>8, <2>2 DEF LimiterInv, Swept
  <2> QED
    BY <2>1, <2>2 DEF Swept
<1>10. TrueTables'
  <2>1. \A S : S \subseteq Recent => Limiter!Valid(S) = S
    BY <1>7 DEF Limiter!Valid
  <2>2. Limiter!Valid(visits'[k]) = Of(k)'
    BY <1>1, <1>2, <1>3, <1>4, <2>1
  <2>3. \A j \in Requests \ {k} : Limiter!Valid(visits'[j]) = Of(j)'
    BY <1>2, <1>4 DEF LimiterInv, TrueTables
  <2>4. smart => Limiter!Valid(globalVisits') = passed'
    BY <1>2, <2>1
  <2>5. ~smart => globalVisits' = {}
    BY DEF LimiterInv, TrueTables
  <2>6. \A j \in Requests : Limiter!Valid(visits'[j]) = Of(j)'
    BY <2>2, <2>3
  <2> QED
    BY <2>4, <2>5, <2>6 DEF TrueTables, Limiter!Valid
<1>11. Limited'
  <2>1. PICK n \in Nat, m \in Nat : n = Cardinality(Of(k)) /\ m = Cardinality(passed)
    BY SlicesFinite
  <2>2. n + 1 <= Limit /\ (smart => m + 1 <= GlobalLimit)
    BY <2>1, WindowConstants
  <2>3. \A j \in Requests : Cardinality(Of(j)') <= Limit
    BY <1>2, <2>1, <2>2 DEF LimiterInv, Limited
  <2> QED
    BY <1>2, <2>1, <2>2, <2>3 DEF Limited
<1> QED
  BY <1>2, <1>6, <1>9, <1>10, <1>11 DEF LimiterInv

\* A refused request, or the ticker: what no longer counts may go.
LEMMA Forgotten ==
  ASSUME LimiterInv, UNCHANGED <<smart, passed>>, sweep' \in 0..2 * Window,
         answer' \in [key : Requests \cup {"nobody"}, ok : BOOLEAN],
         \/ UNCHANGED <<visits, sweep>>
         \/ visits' = [j \in Requests |-> Limiter!Valid(visits[j])],
         \/ UNCHANGED <<globalVisits, sweep>>
         \/ globalVisits' = Limiter!Valid(globalVisits)
  PROVE  LimiterInv'
<1>1. /\ visits \in [Requests -> SUBSET Recorded] /\ globalVisits \subseteq Recorded
      /\ smart \in BOOLEAN /\ passed \subseteq Recent /\ IsFiniteSet(passed)
  BY DEF LimiterInv, LimiterType
<1>2. \A S : Limiter!Valid(S) \subseteq S /\ Limiter!Valid(Limiter!Valid(S)) = Limiter!Valid(S)
  BY DEF Limiter!Valid
<1>3. \A t \in Recorded : t.age \in Nat
  <2>1. \A t \in Recorded : t \in [age : 0..3 * Window, key : Requests, nth : Nat]
    BY WindowConstants DEF Recorded
  <2> QED
    BY <2>1
<1>4. LimiterType'
  BY <1>1, <1>2 DEF LimiterType
<1>5. \A S : S \subseteq Recorded => \A t \in Limiter!Valid(S) : t.age + sweep' <= 3 * Window
  BY <1>3, WindowConstants DEF Limiter!Valid
<1>6. Swept'
  <2>1. \A j \in Requests : \A t \in visits'[j] : t.age + sweep' <= 3 * Window
    BY <1>1, <1>5 DEF LimiterInv, Swept
  <2>2. \A t \in globalVisits' : t.age + sweep' <= 3 * Window
    BY <1>1, <1>5 DEF LimiterInv, Swept
  <2> QED
    BY <2>1, <2>2 DEF Swept
<1>7. TrueTables'
  <2>1. \A j \in Requests : Limiter!Valid(visits'[j]) = Limiter!Valid(visits[j])
    BY <1>2
  <2>2. Limiter!Valid(globalVisits') = Limiter!Valid(globalVisits)
    BY <1>2
  <2>3. ~smart => globalVisits' = {}
    BY <1>2 DEF LimiterInv, TrueTables
  <2>4. \A j \in Requests : Of(j)' = Of(j)
    BY DEF Of
  <2> QED
    BY <2>1, <2>2, <2>3, <2>4 DEF LimiterInv, TrueTables, Limiter!Valid
<1>8. Numbered' /\ Limited'
  <2>1. \A j : Of(j)' = Of(j) /\ Now(j)' = Now(j)
    BY DEF Of, Now
  <2> QED
    BY <2>1 DEF LimiterInv, Numbered, Limited
<1> QED
  BY <1>4, <1>6, <1>7, <1>8 DEF LimiterInv

Aged(t) == [t EXCEPT !.age = @ + 1]

LEMMA Ageing ==
  ASSUME NEW t \in Recorded
  PROVE  Aged(t).age = t.age + 1 /\ Aged(t).key = t.key /\ Aged(t).nth = t.nth
         /\ t.age \in Nat /\ t.key \in Requests /\ t.nth \in Nat
         /\ Aged(t) = [age |-> t.age + 1, key |-> t.key, nth |-> t.nth]
<1>1. t \in [age : 0..3 * Window, key : Requests, nth : Nat]
  BY WindowConstants DEF Recorded
<1> QED
  BY <1>1 DEF Aged

\* A tick empties no slice of what counts after it, and adds nothing to it.
LEMMA StillCounts ==
  ASSUME NEW S, S \subseteq Recorded
  PROVE  /\ Limiter!Valid(Limiter!Older(S)) = {Aged(t) : t \in {u \in S : u.age + 1 < Window}}
         /\ Limiter!Valid(Limiter!Older(Limiter!Valid(S))) = Limiter!Valid(Limiter!Older(S))
<1>1. \A T : Limiter!Older(T) = {Aged(t) : t \in T}
  BY DEF Limiter!Older, Aged
<1>2. \A t \in S : Aged(t).age = t.age + 1 /\ t.age \in Nat
  BY Ageing
<1>3. Window \in Nat
  BY WindowConstants
<1>4. \A t \in S : Aged(t).age < Window => t.age < Window
  BY <1>2, <1>3
<1>5. Limiter!Valid(Limiter!Older(S)) = {Aged(t) : t \in {u \in S : u.age + 1 < Window}}
  <2>1. \A x : x \in Limiter!Valid(Limiter!Older(S)) <=> \E t \in S : x = Aged(t) /\ x.age < Window
    BY <1>1 DEF Limiter!Valid
  <2>2. \A t \in S : Aged(t).age < Window <=> t.age + 1 < Window
    BY <1>2
  <2> QED
    BY <2>1, <2>2 DEF Limiter!Valid
<1>6. Limiter!Valid(Limiter!Older(Limiter!Valid(S))) = Limiter!Valid(Limiter!Older(S))
  BY <1>1, <1>4 DEF Limiter!Valid
<1> QED
  BY <1>5, <1>6

LEMMA Fewer ==
  ASSUME NEW S, S \subseteq Recorded, IsFiniteSet(S)
  PROVE  /\ IsFiniteSet(Limiter!Valid(Limiter!Older(S)))
         /\ Cardinality(Limiter!Valid(Limiter!Older(S))) \in Nat
         /\ \A n \in Nat : Cardinality(S) <= n => Cardinality(Limiter!Valid(Limiter!Older(S))) <= n
<1> DEFINE A == {u \in S : u.age + 1 < Window}
           B == {Aged(t) : t \in A}
           f == [t \in A |-> Aged(t)]
<1>1. f \in Surjection(A, B)
  BY DEF Surjection
<1>2. Limiter!Valid(Limiter!Older(S)) = B
  BY StillCounts
<1>3. IsFiniteSet(A) /\ Cardinality(A) <= Cardinality(S) /\ A \in SUBSET S
  <2>1. A \in SUBSET S
    OBVIOUS
  <2> HIDE DEF A
  <2> QED
    BY <2>1, FS_Subset
<1> HIDE DEF A, B, f
<1>4. IsFiniteSet(B) /\ Cardinality(B) <= Cardinality(A)
  BY <1>1, <1>3, FS_Surjection
<1>5. Cardinality(A) \in Nat /\ Cardinality(B) \in Nat /\ Cardinality(S) \in Nat
  BY <1>3, <1>4, FS_CardinalityType
<1>6. PICK x \in Nat, y \in Nat, z \in Nat : x = Cardinality(A) /\ y = Cardinality(B) /\ z = Cardinality(S)
  BY <1>5
<1>7. y <= x /\ x <= z
  BY <1>3, <1>4, <1>6
<1>8. \A n \in Nat : z <= n => y <= n
  BY <1>7
<1> QED
  BY <1>2, <1>4, <1>5, <1>6, <1>8

LEMMA LimiterTick ==
  ASSUME LimiterInv, Limiter!Tick
  PROVE  LimiterInv'
<1>1. /\ visits \in [Requests -> SUBSET Recorded] /\ globalVisits \subseteq Recorded
      /\ smart \in BOOLEAN /\ passed \subseteq Recent /\ IsFiniteSet(passed) /\ sweep \in 0..2 * Window
  BY DEF LimiterInv, LimiterType
<1>2. /\ sweep > 0 /\ sweep' = sweep - 1 /\ smart' = smart
      /\ visits' = [k \in Requests |-> Limiter!Older(visits[k])]
      /\ globalVisits' = Limiter!Older(globalVisits)
      /\ passed' = Limiter!Valid(Limiter!Older(passed))
      /\ answer' = [key |-> "nobody", ok |-> TRUE]
  BY DEF Limiter!Tick, Limiter!Quiet
<1>3. passed \subseteq Recorded /\ Window \in Nat \ {0}
  BY <1>1, WindowConstants
<1>4. \A S : Limiter!Older(S) = {Aged(t) : t \in S}
  BY DEF Limiter!Older, Aged
<1>5. ASSUME NEW S \in SUBSET Recorded, \A t \in S : t.age + sweep <= 3 * Window
      PROVE  /\ Limiter!Older(S) \subseteq Recorded
             /\ \A t \in Limiter!Older(S) : t.age + sweep' <= 3 * Window
  <2> SUFFICES ASSUME NEW t \in S
               PROVE  Aged(t) \in Recorded /\ Aged(t).age + sweep' <= 3 * Window
    BY <1>4
  <2>1. /\ Aged(t).age = t.age + 1 /\ t.age \in Nat /\ t.key \in Requests /\ t.nth \in Nat
        /\ Aged(t) = [age |-> t.age + 1, key |-> t.key, nth |-> t.nth]
    BY Ageing
  <2>2. t.age + sweep <= 3 * Window
    BY <1>5
  <2>3. t.age + 1 \in 0..3 * Window /\ t.age + 1 + sweep' <= 3 * Window
    BY <1>1, <1>2, <1>3, <2>1, <2>2
  <2>4. Aged(t) \in [age : 0..3 * Window, key : Requests, nth : Nat]
    BY <2>1, <2>3
  <2> QED
    BY <2>1, <2>3, <2>4, WindowConstants DEF Recorded
<1>6. Swept' /\ visits' \in [Requests -> SUBSET Recorded] /\ globalVisits' \subseteq Recorded
  <2>1. \A k \in Requests : visits[k] \in SUBSET Recorded /\ \A t \in visits[k] : t.age + sweep <= 3 * Window
    BY <1>1 DEF LimiterInv, Swept
  <2>2. globalVisits \in SUBSET Recorded /\ \A t \in globalVisits : t.age + sweep <= 3 * Window
    BY <1>1 DEF LimiterInv, Swept
  <2>3. \A k \in Requests : /\ visits'[k] \in SUBSET Recorded
                            /\ \A t \in visits'[k] : t.age + sweep' <= 3 * Window
    BY <1>2, <1>5, <2>1
  <2>4. globalVisits' \in SUBSET Recorded /\ \A t \in globalVisits' : t.age + sweep' <= 3 * Window
    BY <1>2, <1>5, <2>2
  <2> QED
    BY <1>2, <2>3, <2>4 DEF Swept
<1>7. passed' \subseteq Recent /\ IsFiniteSet(passed') /\ \A p \in passed' : p.age # 0
  <2>1. IsFiniteSet(passed')
    BY <1>1, <1>2, <1>3, Fewer
  <2>2. passed' = {Aged(t) : t \in {u \in passed : u.age + 1 < Window}}
    BY <1>2, <1>3, StillCounts
  <2>3. ASSUME NEW t \in passed, t.age + 1 < Window PROVE Aged(t) \in Recent /\ Aged(t).age # 0
    <3>1. /\ Aged(t).age = t.age + 1 /\ t.age \in Nat /\ t.key \in Requests /\ t.nth \in Nat
          /\ Aged(t) = [age |-> t.age + 1, key |-> t.key, nth |-> t.nth]
      BY <1>3, Ageing
    <3>2. t.age + 1 \in 0..Window - 1 /\ t.age + 1 # 0
      BY <1>3, <2>3, <3>1
    <3>3. Aged(t) \in [age : 0..Window - 1, key : Requests, nth : Nat]
      BY <3>1, <3>2
    <3> QED
      BY <3>1, <3>2, <3>3, WindowConstants DEF Recent
  <2> QED
    BY <2>1, <2>2, <2>3
<1>8. LimiterType'
  <2>1. sweep' \in 0..2 * Window
    BY <1>1, <1>2, <1>3
  <2> QED
    BY <1>1, <1>2, <1>6, <1>7, <2>1 DEF LimiterType
<1>9. \A k \in Requests : Of(k)' = Limiter!Valid(Limiter!Older(Of(k)))
  <2> SUFFICES ASSUME NEW k \in Requests PROVE Of(k)' = Limiter!Valid(Limiter!Older(Of(k)))
    OBVIOUS
  <2>1. passed' = {Aged(t) : t \in {u \in passed : u.age + 1 < Window}}
    BY <1>2, <1>3, StillCounts
  <2>2. Of(k) \subseteq Recorded
    BY <1>3 DEF Of
  <2>3. Limiter!Valid(Limiter!Older(Of(k))) = {Aged(t) : t \in {u \in Of(k) : u.age + 1 < Window}}
    BY <2>2, StillCounts
  <2>4. \A t \in passed : Aged(t).key = t.key
    BY <1>3, Ageing
  <2> QED
    BY <2>1, <2>3, <2>4 DEF Of
<1>10. TrueTables'
  <2>1. ASSUME NEW k \in Requests PROVE Limiter!Valid(visits'[k]) = Of(k)'
    <3>1. Limiter!Valid(visits[k]) = Of(k) /\ visits[k] \subseteq Recorded
      BY <1>1 DEF LimiterInv, TrueTables
    <3> QED
      BY <1>2, <1>9, <3>1, StillCounts
  <2>2. smart => Limiter!Valid(globalVisits') = passed'
    BY <1>1, <1>2, StillCounts DEF LimiterInv, TrueTables
  <2>3. ~smart => globalVisits' = {}
    BY <1>2, <1>4 DEF LimiterInv, TrueTables
  <2> QED
    BY <1>2, <2>1, <2>2, <2>3 DEF TrueTables, Limiter!Valid
<1>11. Limited'
  <2>1. ASSUME NEW k \in Requests PROVE Cardinality(Of(k)') <= Limit
    <3>1. IsFiniteSet(Of(k)) /\ Of(k) \subseteq Recorded /\ Cardinality(Of(k)) <= Limit /\ Limit \in Nat
      BY <1>3, SlicesFinite, WindowConstants DEF Of, LimiterInv, Limited
    <3> QED
      BY <1>9, <3>1, Fewer
  <2>2. smart => Cardinality(passed') <= GlobalLimit
    BY <1>1, <1>2, <1>3, WindowConstants, Fewer DEF LimiterInv, Limited
  <2> QED
    BY <1>2, <2>1, <2>2 DEF Limited
<1>12. Numbered'
  BY <1>7 DEF Numbered
<1> QED
  BY <1>6, <1>8, <1>10, <1>11, <1>12 DEF LimiterInv

\* What a step of the limiters keeps, and what a refusal means.
LEMMA LimiterStep ==
  ASSUME LimiterInv, [Limiter!Next]_limiter
  PROVE  /\ LimiterInv'
         /\ ~answer'.ok /\ answer' # answer =>
              \/ Cardinality(Of(answer'.key)) = Limit
              \/ smart /\ Cardinality(passed) = GlobalLimit
<1>1. /\ visits \in [Requests -> SUBSET Recorded] /\ globalVisits \subseteq Recorded
      /\ smart \in BOOLEAN /\ passed \subseteq Recent /\ sweep \in 0..2 * Window
      /\ answer \in [key : Requests \cup {"nobody"}, ok : BOOLEAN]
  BY DEF LimiterInv, LimiterType
<1>2. ASSUME NEW S, NEW n \in Nat, Cardinality(S) \in Nat
      PROVE  /\ Limiter!Full(S, n) /\ Cardinality(S) <= n => Cardinality(S) = n
             /\ ~Limiter!Full(S, n) => Cardinality(S) < n
  <2>1. PICK c \in Nat : c = Cardinality(S)
    BY <1>2
  <2>2. Limiter!Full(S, n) <=> c >= n
    BY <2>1, Counting DEF Limiter!Full
  <2>3. (c >= n /\ c <= n => c = n) /\ (~(c >= n) => c < n)
    OBVIOUS
  <2> QED
    BY <2>1, <2>2, <2>3
<1>3. ASSUME NEW k \in Requests
      PROVE  /\ Limiter!Full(Of(k), Limit) => Cardinality(Of(k)) = Limit
             /\ ~Limiter!Full(Of(k), Limit) => Cardinality(Of(k)) < Limit
             /\ smart /\ Limiter!Full(passed, GlobalLimit) => Cardinality(passed) = GlobalLimit
             /\ ~Limiter!Full(passed, GlobalLimit) => Cardinality(passed) < GlobalLimit
  BY <1>2, SlicesFinite, WindowConstants DEF LimiterInv, Limited
<1>4. ASSUME NEW k \in Requests
      PROVE  \A b \in BOOLEAN : /\ [key |-> k, ok |-> b] \in [key : Requests \cup {"nobody"}, ok : BOOLEAN]
                                /\ [key |-> k, ok |-> b].ok = b /\ [key |-> k, ok |-> b].key = k
  OBVIOUS
<1>5. ASSUME NEW k \in Requests, Limiter!Middleware(k)
      PROVE  /\ LimiterInv'
             /\ ~answer'.ok => Cardinality(Of(answer'.key)) = Limit
  <2>1. Limiter!Valid(visits[k]) = Of(k) /\ ~smart /\ UNCHANGED <<smart, globalVisits, sweep>>
    BY <1>5 DEF LimiterInv, TrueTables, Limiter!Middleware
  <2>2. CASE Limiter!Full(Of(k), Limit)
    <3>1. visits' = visits /\ passed' = passed /\ answer' = [key |-> k, ok |-> FALSE]
      BY <1>5, <2>1, <2>2 DEF Limiter!Middleware, Limiter!Answer
    <3>2. LimiterInv'
      BY <1>1, <1>4, <2>1, <3>1, Forgotten
    <3> QED
      BY <1>3, <1>4, <2>2, <3>1, <3>2
  <2>3. CASE ~Limiter!Full(Of(k), Limit)
    <3>1. /\ visits' = [visits EXCEPT ![k] = Of(k) \cup {Limiter!Arrival(k)}]
          /\ passed' = passed \cup {Limiter!Arrival(k)} /\ answer' = [key |-> k, ok |-> TRUE]
      BY <1>5, <2>1, <2>3 DEF Limiter!Middleware, Limiter!Answer
    <3>2. Cardinality(Of(k)) < Limit /\ answer' \in [key : Requests \cup {"nobody"}, ok : BOOLEAN]
      BY <1>3, <1>4, <2>3, <3>1
    <3>3. LimiterInv'
      BY <2>1, <3>1, <3>2, Granted
    <3> QED
      BY <1>4, <3>1, <3>3
  <2> QED
    BY <2>2, <2>3
<1>6. ASSUME NEW k \in Requests, Limiter!CheckRegistration(k)
      PROVE  /\ LimiterInv'
             /\ ~answer'.ok => \/ Cardinality(Of(answer'.key)) = Limit
                               \/ smart /\ Cardinality(passed) = GlobalLimit
  <2>1. /\ Limiter!Valid(visits[k]) = Of(k) /\ smart /\ Limiter!Valid(globalVisits) = passed
        /\ UNCHANGED <<smart, sweep>>
    BY <1>6 DEF LimiterInv, TrueTables, Limiter!CheckRegistration
  <2>2. CASE Limiter!Full(passed, GlobalLimit) \/ Limiter!Full(Of(k), Limit)
    <3>1. visits' = visits /\ passed' = passed /\ answer' = [key |-> k, ok |-> FALSE]
      BY <1>6, <2>1, <2>2 DEF Limiter!CheckRegistration, Limiter!Answer
    <3>2. globalVisits' = Limiter!Valid(globalVisits)
      BY <1>6, <2>1, <2>2 DEF Limiter!CheckRegistration, Limiter!Charged
    <3>3. LimiterInv'
      BY <1>1, <1>4, <2>1, <3>1, <3>2, Forgotten
    <3> QED
      BY <1>3, <1>4, <2>1, <2>2, <3>1, <3>3
  <2>3. CASE ~Limiter!Full(passed, GlobalLimit) /\ ~Limiter!Full(Of(k), Limit)
    <3>1. /\ visits' = [visits EXCEPT ![k] = Of(k) \cup {Limiter!Arrival(k)}]
          /\ globalVisits' = passed \cup {Limiter!Arrival(k)}
          /\ passed' = passed \cup {Limiter!Arrival(k)} /\ answer' = [key |-> k, ok |-> TRUE]
      BY <1>6, <2>1, <2>3 DEF Limiter!CheckRegistration, Limiter!Answer, Limiter!Charged
    <3>2. /\ Cardinality(Of(k)) < Limit /\ Cardinality(passed) < GlobalLimit
          /\ answer' \in [key : Requests \cup {"nobody"}, ok : BOOLEAN]
      BY <1>3, <1>4, <2>3, <3>1
    <3>3. LimiterInv'
      BY <2>1, <3>1, <3>2, Granted
    <3> QED
      BY <1>4, <3>1, <3>3
  <2> QED
    BY <2>2, <2>3
<1>7. ASSUME Limiter!Sweep PROVE LimiterInv' /\ answer' = answer
  <2>1. /\ visits' = [k \in Requests |-> Limiter!Valid(visits[k])]
        /\ globalVisits' = Limiter!Valid(globalVisits) /\ sweep' = 2 * Window
        /\ UNCHANGED <<smart, passed, answer>>
    BY <1>7 DEF Limiter!Sweep
  <2>2. sweep' \in 0..2 * Window
    BY <2>1, WindowConstants
  <2> QED
    BY <1>1, <2>1, <2>2, Forgotten
<1>8. ASSUME Limiter!Tick PROVE LimiterInv' /\ answer'.ok
  <2>1. answer' = [key |-> "nobody", ok |-> TRUE]
    BY <1>8 DEF Limiter!Tick, Limiter!Quiet
  <2> QED
    BY <1>8, <2>1, LimiterTick
<1>9. ASSUME UNCHANGED limiter PROVE LimiterInv' /\ answer' = answer
  BY <1>1, <1>9, Forgotten DEF limiter
<1> QED
  BY <1>5, <1>6, <1>7, <1>8, <1>9 DEF Limiter!Next

LEMMA LimiterSafe == PortalSpec => []LimiterInv
<1>1. PortalInit => LimiterInv
  BY LimiterInit DEF PortalInit
<1>2. LimiterInv /\ [PortalNext]_portal => LimiterInv'
  BY Parts, LimiterStep
<1> QED
  BY <1>1, <1>2, PTL DEF PortalSpec

(* Within any window a key is let through Limit times at most, the server  *)
(* GlobalLimit times at most, and a request is refused only when so many   *)
(* have been let through: RateLimiter.Middleware and CheckRegistration,    *)
(* whatever the sweeps of their tickers.                                   *)
THEOREM LimitsAreExact == PortalSpec => ExactLimits
<1> DEFINE Exact == Limiter!WithinLimits' /\ (Limiter!Refused => Limiter!ReallyFull)
<1>1. \A k : Limiter!PassedOf(k) = Of(k)
  BY DEF Limiter!PassedOf, Of
<1>2. \A S : Limiter!Cardinality(S) = Cardinality(S)
  BY Counting
<1>3. LimiterInv /\ [PortalNext]_portal => Exact
  <2> SUFFICES ASSUME LimiterInv, [PortalNext]_portal PROVE Exact
    OBVIOUS
  <2>1. /\ LimiterInv'
        /\ ~answer'.ok /\ answer' # answer =>
             \/ Cardinality(Of(answer'.key)) = Limit
             \/ smart /\ Cardinality(passed) = GlobalLimit
    BY Parts, LimiterStep
  <2>2. Limiter!Refused => Limiter!ReallyFull
    BY <1>1, <1>2, <2>1 DEF Limiter!Refused, Limiter!ReallyFull
  <2>3. Limiter!WithinLimits'
    BY <1>1, <1>2, <2>1 DEF Limiter!WithinLimits, Limiter!PassedOf, Of, LimiterInv, Limited
  <2> QED
    BY <2>2, <2>3
<1>4. LimiterInv /\ [PortalNext]_portal => [Exact]_(Limiter!vars)
  BY <1>3
<1> QED
  BY LimiterSafe, <1>4, PTL DEF PortalSpec, ExactLimits, Limiter!ExactLimits
----------------------------------------------------------------------------
(* Workspaces, accounts and logins: a behaviour of the whole is one of     *)
(* each of them, so what their modules of proofs say of them holds.        *)

LEMMA AsWorkspaces == PortalSpec => Spec
<1>1. PortalInit => Init
  BY DEF PortalInit
<1>2. [PortalNext]_portal => [Next]_vars
  BY Parts DEF workspaces, vars
<1> QED
  BY <1>1, <1>2, PTL DEF PortalSpec, Spec

(* The owner of a workspace stays a member of it: what MemberAction and    *)
(* the requests that create and remove it keep.  It never was one when the *)
(* INSERT of its membership failed, which CreateWorkspace does not look at: *)
(* those workspaces are told apart.                                        *)
THEOREM OwnersStay == PortalSpec => []OwnerStays
BY AsWorkspaces, OwnerIsAMember, PTL

(* The last workspace is not deleted, unless the count before the deletion *)
(* failed, or another deletion came in between, or its owner's account is  *)
(* deleted: DeleteWorkspaceHandler.                                        *)
THEOREM OneWorkspaceStays == PortalSpec => LastStays
BY AsWorkspaces, LastWorkspaceIsKept

AP == INSTANCE AccountsProofs WITH MaxUsers <- MaxAccounts, request <- registration

LEMMA SameAccounts == (Accounts!Init <=> AP!Init) /\ (Accounts!Next <=> AP!Next)
<1>1. /\ \A r, q : Accounts!Become(r, q) <=> AP!Become(r, q)
      /\ \A r, s : Accounts!At(r, s) <=> AP!At(r, s)
      /\ Accounts!Users = AP!Users /\ Accounts!Resting = AP!Resting /\ Accounts!Roles = AP!Roles
      /\ \A role : Accounts!Inserted(role) <=> AP!Inserted(role)
      /\ \A a, b : Accounts!GivenRole(a, b) = AP!GivenRole(a, b)
  BY DEF Accounts!Become, AP!Become, Accounts!At, AP!At, Accounts!Users, AP!Users, Accounts!Ids, AP!Ids,
         Accounts!Roles, AP!Roles, Accounts!Resting, AP!Resting, Accounts!Inserted, AP!Inserted,
         Accounts!IsNext, AP!IsNext, Accounts!GivenRole, AP!GivenRole
<1>2. /\ \A r : Accounts!End(r) <=> AP!End(r)
      /\ \A r, s : Accounts!Goto(r, s) <=> AP!Goto(r, s)
      /\ \A r, o : Accounts!SetRegistrationOpen(r, o) <=> AP!SetRegistrationOpen(r, o)
      /\ \A r, roles : Accounts!Inside(r, roles) <=> AP!Inside(r, roles)
      /\ \A r, u : Accounts!MayDelete(r, u) <=> AP!MayDelete(r, u)
  BY <1>1 DEF Accounts!End, AP!End, Accounts!Goto, AP!Goto, Accounts!SetRegistrationOpen,
         AP!SetRegistrationOpen, Accounts!Inside, AP!Inside, Accounts!MayDelete, AP!MayDelete
<1>3. Accounts!Init <=> AP!Init
  BY <1>1 DEF Accounts!Init, AP!Init, Accounts!Ids, AP!Ids
<1>4. ASSUME NEW r \in Requests PROVE Accounts!Request(r) <=> AP!Request(r)
  <2>1. (Accounts!RegisterCounts(r) <=> AP!RegisterCounts(r)) /\ (Accounts!RegisterLooks(r) <=> AP!RegisterLooks(r))
    BY <1>1, <1>2 DEF Accounts!RegisterCounts, AP!RegisterCounts, Accounts!RegisterLooks, AP!RegisterLooks
  <2>2. (Accounts!RegisterUser(r) <=> AP!RegisterUser(r)) /\ (Accounts!Recount(r) <=> AP!Recount(r))
    BY <1>1, <1>2 DEF Accounts!RegisterUser, AP!RegisterUser, Accounts!Recount, AP!Recount
  <2>3. /\ Accounts!RegisterFirstUser(r) <=> AP!RegisterFirstUser(r)
        /\ Accounts!CloseRegistration(r) <=> AP!CloseRegistration(r)
    BY <1>1, <1>2 DEF Accounts!RegisterFirstUser, AP!RegisterFirstUser, Accounts!CloseRegistration,
                      AP!CloseRegistration
  <2>4. (Accounts!RequireAuth(r) <=> AP!RequireAuth(r)) /\ (Accounts!Leave(r) <=> AP!Leave(r))
    BY <1>1, <1>2 DEF Accounts!RequireAuth, AP!RequireAuth, Accounts!Leave, AP!Leave
  <2>5. (Accounts!CreateUser(r) <=> AP!CreateUser(r)) /\ (Accounts!DeleteUser(r) <=> AP!DeleteUser(r))
    BY <1>1, <1>2 DEF Accounts!CreateUser, AP!CreateUser, Accounts!DeleteUser, AP!DeleteUser
  <2>6. /\ Accounts!ToggleReads(r) <=> AP!ToggleReads(r)
        /\ Accounts!ToggleWrites(r) <=> AP!ToggleWrites(r)
        /\ Accounts!SaveSettings(r) <=> AP!SaveSettings(r)
    BY <1>1, <1>2 DEF Accounts!ToggleReads, AP!ToggleReads, Accounts!ToggleWrites, AP!ToggleWrites,
                      Accounts!SaveSettings, AP!SaveSettings
  <2> QED
    BY <2>1, <2>2, <2>3, <2>4, <2>5, <2>6 DEF Accounts!Request, AP!Request
<1> QED
  BY <1>3, <1>4 DEF Accounts!Next, AP!Next

LEMMA AsAccounts == PortalSpec => AP!Spec
<1>1. PortalInit => AP!Init
  BY SameAccounts DEF PortalInit
<1>2. [PortalNext]_portal => [AP!Next]_(AP!vars)
  BY Parts, SameAccounts DEF accounts, AP!vars
<1> QED
  BY <1>1, <1>2, PTL DEF PortalSpec, AP!Spec

(* From the first registration on there is exactly one superadmin, unless  *)
(* two first registrations overlapped: RegisterFirstUser and               *)
(* DeleteUserHandler.                                                      *)
THEOREM OneSuperadminStays == PortalSpec => []OneSuperadmin
<1>1. PortalSpec => []AP!OneSuperadmin
  <2>1. MaxAccounts \in Nat
    BY PortalAssumption
  <2>2. AP!Spec => []AP!OneSuperadmin
    BY <2>1, AP!ExactlyOneSuperadmin
  <2> QED
    BY <2>2, AsAccounts, PTL
<1>2. AP!OneSuperadmin => OneSuperadmin
  <2>1. AP!Supers = Accounts!Supers
    BY DEF AP!Supers, Accounts!Supers, AP!Users, Accounts!Users, AP!Ids, Accounts!Ids, AP!Roles, Accounts!Roles
  <2>2. AP!Cardinality(Accounts!Supers) = Accounts!Cardinality(Accounts!Supers)
    BY DEF AP!Cardinality, Accounts!Cardinality
  <2> QED
    BY <2>1, <2>2 DEF AP!OneSuperadmin, OneSuperadmin, Accounts!OneSuperadmin
<1> QED
  BY <1>1, <1>2, PTL

LP == INSTANCE LoginsProofs WITH Users <- LoginUsers, request <- login

LEMMA SameLogins == (Logins!Init <=> LP!Init) /\ (Logins!Next <=> LP!Next)
<1>0. \A S : Logins!Cardinality(S) = LP!Cardinality(S)
  BY DEF Logins!Cardinality, LP!Cardinality
<1>1. /\ \A r, q : Logins!Become(r, q) <=> LP!Become(r, q)
      /\ \A r, s : Logins!At(r, s) <=> LP!At(r, s)
      /\ \A u : Logins!MayRefer(u) <=> LP!MayRefer(u)
      /\ Logins!Resting = LP!Resting /\ Logins!NoRow = LP!NoRow
      /\ Logins!Accounts = LP!Accounts /\ Logins!History = LP!History
      /\ \A c : Logins!Holders(c) = LP!Holders(c)
  BY DEF Logins!Holders, LP!Holders, Logins!Become, LP!Become, Logins!At, LP!At, Logins!MayRefer, LP!MayRefer, Logins!Resting,
         LP!Resting, Logins!NoRow, LP!NoRow, Logins!Accounts, LP!Accounts, Logins!History, LP!History
<1>2. /\ \A r : Logins!End(r) <=> LP!End(r)
      /\ \A r, s : Logins!Goto(r, s) <=> LP!Goto(r, s)
      /\ \A r : Logins!MayOpen(r) <=> LP!MayOpen(r)
      /\ \A table, u : Logins!Without(table, u) = LP!Without(table, u)
  BY <1>1 DEF Logins!End, LP!End, Logins!Goto, LP!Goto, Logins!MayOpen, LP!MayOpen, Logins!Without, LP!Without
<1>3. \A r, on : Logins!UpdateUser2FA(r, on) <=> LP!UpdateUser2FA(r, on)
  BY <1>1 DEF Logins!UpdateUser2FA, LP!UpdateUser2FA
<1>4. Logins!Init <=> LP!Init
  BY <1>1 DEF Logins!Init, LP!Init
<1>5. ASSUME NEW r \in Requests PROVE Logins!Request(r) <=> LP!Request(r)
  <2>1. (Logins!Authenticate(r) <=> LP!Authenticate(r)) /\ (Logins!TokenCode(r) <=> LP!TokenCode(r))
    BY <1>1, <1>2 DEF Logins!Authenticate, LP!Authenticate, Logins!TokenCode, LP!TokenCode,
                      Logins!Accounts, LP!Accounts, Logins!History, LP!History
  <2>2. Logins!Create2FAChallenge(r) <=> LP!Create2FAChallenge(r)
    BY <1>1, <1>2 DEF Logins!Create2FAChallenge, LP!Create2FAChallenge,
                      Logins!Accounts, LP!Accounts, Logins!History, LP!History
  <2>3. /\ Logins!Get2FAChallenge(r) <=> LP!Get2FAChallenge(r)
        /\ Logins!VerifyCode(r) <=> LP!VerifyCode(r)
        /\ Logins!Delete2FAChallenge(r) <=> LP!Delete2FAChallenge(r)
    BY <1>0, <1>1, <1>2 DEF Logins!Get2FAChallenge, LP!Get2FAChallenge, Logins!VerifyCode, LP!VerifyCode,
                      Logins!Delete2FAChallenge, LP!Delete2FAChallenge,
                      Logins!Accounts, LP!Accounts, Logins!History, LP!History
  <2>4. Logins!CreateSession(r) <=> LP!CreateSession(r)
    BY <1>1, <1>2 DEF Logins!CreateSession, LP!CreateSession, Logins!Accounts, LP!Accounts
  <2>5. /\ Logins!GetSession(r) <=> LP!GetSession(r)
        /\ Logins!GetUser(r) <=> LP!GetUser(r)
        /\ Logins!Leave(r) <=> LP!Leave(r)
    BY <1>1, <1>2 DEF Logins!GetSession, LP!GetSession, Logins!GetUser, LP!GetUser, Logins!Leave, LP!Leave,
                      Logins!Accounts, LP!Accounts, Logins!History, LP!History
  <2>6. /\ Logins!EnableTwoFactor(r) <=> LP!EnableTwoFactor(r)
        /\ Logins!DisableAsks(r) <=> LP!DisableAsks(r)
        /\ Logins!DisableTwoFactor(r) <=> LP!DisableTwoFactor(r)
    BY <1>1, <1>2, <1>3 DEF Logins!EnableTwoFactor, LP!EnableTwoFactor, Logins!DisableAsks, LP!DisableAsks,
                            Logins!DisableTwoFactor, LP!DisableTwoFactor,
                            Logins!Accounts, LP!Accounts, Logins!History, LP!History
  <2> QED
    BY <2>1, <2>2, <2>3, <2>4, <2>5, <2>6 DEF Logins!Request, LP!Request
<1>6. ASSUME NEW t \in Sessions
      PROVE  (Logins!Logout(t) <=> LP!Logout(t)) /\ (Logins!ExpireSession(t) <=> LP!ExpireSession(t))
  BY <1>1 DEF Logins!Logout, LP!Logout, Logins!ExpireSession, LP!ExpireSession,
              Logins!Accounts, LP!Accounts, Logins!History, LP!History
<1>7. ASSUME NEW c \in Challenges PROVE Logins!ExpireChallenge(c) <=> LP!ExpireChallenge(c)
  BY DEF Logins!ExpireChallenge, LP!ExpireChallenge,
         Logins!Accounts, LP!Accounts, Logins!History, LP!History
<1>8. ASSUME NEW u \in LoginUsers PROVE Logins!DeleteUser(u) <=> LP!DeleteUser(u)
  BY <1>2 DEF Logins!DeleteUser, LP!DeleteUser, Logins!History, LP!History
<1>9. Logins!CleanExpiredSessions <=> LP!CleanExpiredSessions
  BY <1>1 DEF Logins!CleanExpiredSessions, LP!CleanExpiredSessions,
              Logins!Accounts, LP!Accounts, Logins!History, LP!History
<1> QED
  BY <1>4, <1>5, <1>6, <1>7, <1>8, <1>9 DEF Logins!Next, LP!Next

LEMMA SoundLogins == LP!Sound
BY PortalAssumption DEF LP!Sound, LP!IsFiniteSet, IsFiniteSet

LEMMA AsLogins == PortalSpec => LP!Spec
<1>1. PortalInit => LP!Init
  BY SameLogins DEF PortalInit
<1>2. [PortalNext]_portal => [LP!Next]_(LP!vars)
  BY Parts, SameLogins DEF logins, LP!vars
<1> QED
  BY <1>1, <1>2, PTL DEF PortalSpec, LP!Spec

(* A two-factor challenge opens no more sessions than verifications of it  *)
(* ran at once, and one more for each time that it could not be deleted,   *)
(* which Verify2FA does not look at: Verify2FA and Delete2FAChallenge.     *)
THEOREM ChallengesAreSpentOnce == PortalSpec => []ChallengeOnce
<1>1. LP!Spec => []LP!ChallengeOnce
  BY SoundLogins, LP!OneSessionPerChallenge
<1>2. LP!ChallengeOnce => ChallengeOnce
  BY DEF LP!ChallengeOnce, ChallengeOnce, Logins!ChallengeOnce
<1> QED
  BY AsLogins, <1>1, <1>2, PTL

(* No login of an account with a second factor opens a session without a   *)
(* code: LoginPostHandler, APITokenLoginHandler and VerifyTwoFactor.       *)
THEOREM TheCodeIsAskedFor == PortalSpec => SecondFactorAsked
<1>1. LP!Spec => LP!SecondFactorAsked
  BY SoundLogins, LP!NobodySkipsTheCode
<1> DEFINE Mine == \A r \in Requests :
                     Logins!CreateSession(r) /\ session' # session => login[r].coded \/ login[r].plain
           Theirs == \A r \in Requests :
                     LP!CreateSession(r) /\ session' # session => login[r].coded \/ login[r].plain
<1>2. [Theirs]_(LP!vars) => [Mine]_(Logins!vars)
  BY DEF Logins!CreateSession, LP!CreateSession, Logins!Become, LP!Become, Logins!End, LP!End,
         Logins!At, LP!At, Logins!MayRefer, LP!MayRefer, Logins!MayOpen, LP!MayOpen, Logins!NoRow, LP!NoRow,
         Logins!Resting, LP!Resting, Logins!Accounts, LP!Accounts, Logins!vars, LP!vars
<1> QED
  BY AsLogins, <1>1, <1>2, PTL DEF LP!SecondFactorAsked, Logins!SecondFactorAsked, SecondFactorAsked

----------------------------------------------------------------------------
(* Every state of every part has its type.                                 *)

LEMMA LimiterTypes == LimiterInv => Limiter!TypeOK
BY DEF LimiterInv, LimiterType, Recorded, Recent, Limiter!TypeOK

LEMMA AccountsTypes == AP!TypeOK => Accounts!TypeOK
BY DEF AP!TypeOK, Accounts!TypeOK, AP!Ids, Accounts!Ids, AP!Roles, Accounts!Roles, AP!Steps, Accounts!Steps

LEMMA LoginsTypes == LP!TypeOK => Logins!TypeOK
<1>1. LP!Cardinality(Requests) = Logins!Cardinality(Requests)
  BY DEF LP!Cardinality, Logins!Cardinality
<1> QED
  BY <1>1 DEF LP!TypeOK, Logins!TypeOK, LP!Row, Logins!Row, LP!Steps, Logins!Steps

\* The tables, counters, requests and files of the dashboard stay what the code
\* declares them to be, and no count of a bound in the model is passed.
THEOREM Types == PortalSpec => []PortalTypeOK
<1> DEFINE Parted == part \in {"workspaces", "accounts", "logins", "templates", "limiter", "updater", "checks"}
<1>1. PortalSpec => []Parted
  <2>1. PortalInit => Parted
    BY DEF PortalInit
  <2>2. Parted /\ [PortalNext]_portal => Parted'
    BY DEF PortalNext, In, portal
  <2> QED
    BY <2>1, <2>2, PTL DEF PortalSpec
<1>2. PortalSpec => []TypeOK
  <2>1. IInv => TypeOK
    BY DEF IInv
  <2> QED
    BY <2>1, AsWorkspaces, Invariant, PTL
<1>3. PortalSpec => []AP!TypeOK
  <2>1. MaxAccounts \in Nat
    BY PortalAssumption
  <2>2. AP!Spec => []AP!TypeOK
    BY <2>1, AP!Types
  <2> QED
    BY <2>2, AsAccounts, PTL
<1>4. PortalSpec => []LP!TypeOK
  <2>1. LP!Spec => []LP!TypeOK
    BY SoundLogins, LP!Types
  <2> QED
    BY <2>1, AsLogins, PTL
<1>5. TemplatesInv => Templates!TypeOK
  BY DEF TemplatesInv, HistoryType
<1>6. UpdaterInv => Updater!TypeOK
  BY DEF UpdaterInv
<1>7. ChecksInv => Checks!TypeOK
  BY DEF ChecksInv
<1>8. /\ Parted /\ TypeOK /\ AP!TypeOK /\ LP!TypeOK
      /\ TemplatesInv /\ LimiterInv /\ UpdaterInv /\ ChecksInv
      => PortalTypeOK
  BY <1>5, <1>6, <1>7, LimiterTypes, AccountsTypes, LoginsTypes DEF PortalTypeOK
<1> QED
  BY <1>1, <1>2, <1>3, <1>4, <1>8, TemplatesSafe, LimiterSafe, UpdaterSafe, ChecksSafe, PTL
=============================================================================
