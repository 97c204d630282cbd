------------------------------ MODULE Updater ------------------------------
(***************************************************************************)
(* The self-update of internal/updater/updater.go: each request of         *)
(* ApplyUpdateHandler runs ApplyBinarySelfUpdate in a goroutine of its own *)
(* and then RestartSelf.  Nothing keeps two of them apart.  A file is what *)
(* it holds; every rename, removal, opening and end of a copy is a step    *)
(* and may fail, and the process may die between any two of them.          *)
(*                                                                         *)
(* What os.Executable answers depends on the system: the path the program  *)
(* was started from, or, on Linux, the path its file has now or had when   *)
(* it was removed.  The script that updates a Termux installation is not   *)
(* followed.                                                               *)
(*                                                                         *)
(* Bound: names with at most MaxOld suffixes ".old".                       *)
(***************************************************************************)
EXTENDS Naturals, Sequences, FiniteSets, Functions

CONSTANTS Appliers,    \* requests for an update that run at once
          Releases,    \* the lists of assets a release may have
          MaxOld       \* suffixes ".old" of a name

VARIABLES file,      \* the executable, 0, and what has n suffixes .old
          self,      \* where the program that runs was started, where its file is
          apply,     \* how far each request is
          running,   \* the process is up
          mishaps    \* what has gone wrong (history)

vars == <<file, self, apply, running, mishaps>>

Names   == 0..MaxOld
Targets == {n \in Names : n + 1 \in Names}

\* A working version, old or new, an incomplete copy of one, or something else.
Files == {"none", "working", "part", "foreign"}

\* Assets by the way they are installed: an archive with the binary in it, the
\* binary, a package or an Android application, and the web page of a release.
Assets == {"tar.gz", "zip", "binary", "deb", "apk"}
Urls   == Assets \cup {"page"}

Steps == {"idle", "download", "dropOld", "backup", "replace", "open", "copy", "rollback",
          "tidy", "restart"}

\* The steps that replace files.
Replacing == {"dropOld", "backup", "replace", "open", "copy", "rollback", "tidy"}

\* A request has replaced files in a way excluded below; a rename back has failed.
Mishaps == {"excluded", "stuck"}

Resting    == [at |-> "idle", url |-> "page", tmp |-> "none", path |-> 0]
Started(n) == [start |-> n, place |-> n, linked |-> TRUE]

TypeOK ==
    /\ file \in [Names -> Files]
    /\ self \in [start : Names, place : Names, linked : BOOLEAN]
    /\ apply \in [Appliers -> [at : Steps, url : Urls, tmp : Files, path : Targets]]
    /\ running \in BOOLEAN
    /\ mishaps \subseteq Mishaps

Init ==
    /\ file = [n \in Names |-> IF n = 0 THEN "working" ELSE "none"]
    /\ self = Started(0) /\ running = TRUE
    /\ apply = [p \in Appliers |-> Resting]
    /\ mishaps = {}

At(p, s) == running /\ apply[p].at = s
Goto(p, s) == apply' = [apply EXCEPT ![p].at = s]
Stop(p) == apply' = [apply EXCEPT ![p] = Resting]

\* Writing, or removing, the file of a name, and renaming one over another.
Put(n, f) ==
    /\ file' = [file EXCEPT ![n] = f]
    /\ self' = [self EXCEPT !.linked = @ /\ self.place # n]

Move(n, m) ==
    /\ file' = [file EXCEPT ![m] = file[n], ![n] = "none"]
    /\ self' = IF self.linked /\ self.place = n THEN [self EXCEPT !.place = m]
               ELSE [self EXCEPT !.linked = @ /\ self.place # m]

Untouched == UNCHANGED <<file, self>>

Works(n) == file[n] = "working"

\* os.Executable and EvalSymlinks, which misses a file that is not there.
Executable == {n \in {self.start, self.place} : file[n] # "none"}

----------------------------------------------------------------------------
(* Which asset.                                                            *)

\* matchPlatformAsset on Linux, as for the names of the release's assets.
MatchPlatformAsset(a) == a \in {"tar.gz", "deb"}

\* CheckUpdate keeps the last asset that matches, else the last Android
\* application, else the page of the release.
DownloadURL(assets) ==
    LET matching == {i \in DOMAIN assets : MatchPlatformAsset(assets[i])}
    IN  CASE matching # {}           -> assets[CHOOSE i \in matching : \A j \in matching : j <= i]
          [] "apk" \in Range(assets) -> "apk"
          [] OTHER                   -> "page"

\* ApplyUpdateHandler: the address in the request, of a trusted host, or the one
\* of the release; then where the executable is.
ApplyUpdate(p) ==
    /\ At(p, "idle")
    /\ \E url \in {"zip", "binary"} \cup {DownloadURL(assets) : assets \in Releases},
          n \in Executable \cap Targets :
         apply' = [apply EXCEPT ![p] = [at |-> "download", url |-> url, tmp |-> "none", path |-> n]]
    /\ Untouched /\ UNCHANGED <<running, mishaps>>

----------------------------------------------------------------------------
(* ApplyBinarySelfUpdate.                                                  *)

\* Mutant of the code: errors are ignored in a tar archive as they are in a zip.
FetchedCarelessly(url) ==
    CASE url \in {"tar.gz", "zip"} -> {"working", "part"}
      [] url = "binary"            -> {"working"}
      [] OTHER                     -> {"foreign"}

\* What a download that reports no error has left in the temporary file.  Errors
\* of copying out of a zip archive are not looked at.
Fetched(url) ==
    CASE url \in {"tar.gz", "binary"} -> {"working"}
      [] url = "zip"                  -> {"working", "part"}
      [] OTHER                        -> {"foreign"}

\* Requests replace files at once, something else than a tarball or a binary is
\* installed, or what is to be replaced does not work.
Excluded(p) ==
    \/ \E q \in Appliers : apply[q].at \in Replacing
    \/ apply[p].url \notin {"tar.gz", "binary"}
    \/ ~Works(apply[p].path)

Download(p) ==
    /\ At(p, "download")
    /\ \E f \in Fetched(apply[p].url) :
         apply' = [apply EXCEPT ![p] = [@ EXCEPT !.at = "dropOld", !.tmp = f, !.url = "page"]]
    /\ mishaps' = IF Excluded(p) THEN mishaps \cup {"excluded"} ELSE mishaps
    /\ Untouched /\ UNCHANGED running

\* An error before a file is replaced: of the download, of the backup.
Fails(p) ==
    /\ At(p, "download") \/ At(p, "backup")
    /\ Stop(p)
    /\ Untouched /\ UNCHANGED <<running, mishaps>>

\* The removal, which may fail, of what an earlier update has left.
DropOld(p) ==
    /\ At(p, "dropOld")
    /\ Put(apply[p].path + 1, "none") \/ Untouched
    /\ Goto(p, "backup")
    /\ UNCHANGED <<running, mishaps>>

Backup(p) ==
    /\ At(p, "backup") /\ file[apply[p].path] # "none"
    /\ Move(apply[p].path, apply[p].path + 1)
    /\ Goto(p, "replace")
    /\ UNCHANGED <<running, mishaps>>

\* The rename, which fails across file systems.
Replace(p) ==
    /\ At(p, "replace")
    /\ \/ Put(apply[p].path, apply[p].tmp) /\ Goto(p, "tidy")
       \/ Untouched /\ Goto(p, "open")
    /\ UNCHANGED <<running, mishaps>>

\* copyFile truncates its target, ...
CopyOpens(p) ==
    /\ At(p, "open")
    /\ \/ file' = [file EXCEPT ![apply[p].path] = "part"] /\ Goto(p, "copy")
       \/ file' = file /\ Goto(p, "rollback")
    /\ UNCHANGED <<self, running, mishaps>>

\* ... and completes it or fails.
CopyEnds(p) ==
    /\ At(p, "copy")
    /\ \/ file' = [file EXCEPT ![apply[p].path] = apply[p].tmp] /\ Goto(p, "tidy")
       \/ file' = file /\ Goto(p, "rollback")
    /\ UNCHANGED <<self, running, mishaps>>

\* Mutant of the code: the error is reported and nothing is put back.
RollbackForgotten(p) ==
    /\ At(p, "rollback")
    /\ Stop(p)
    /\ Untouched /\ UNCHANGED <<running, mishaps>>

\* Nobody looks whether the rename back succeeds.
Rollback(p) ==
    /\ At(p, "rollback")
    /\ \/ /\ file[apply[p].path + 1] # "none"
          /\ Move(apply[p].path + 1, apply[p].path)
          /\ UNCHANGED mishaps
       \/ Untouched /\ mishaps' = mishaps \cup {"stuck"}
    /\ Stop(p)
    /\ UNCHANGED running

\* Nor whether the backup is removed.
Tidy(p) ==
    /\ At(p, "tidy")
    /\ Put(apply[p].path + 1, "none") \/ Untouched
    /\ Goto(p, "restart")
    /\ UNCHANGED <<running, mishaps>>

----------------------------------------------------------------------------
(* The process.                                                            *)

\* RestartSelf replaces the process, its goroutines with it, by what is where the
\* executable is said to be, if it can; on Linux that is the backup, gone or not.
RestartSelf(p) ==
    /\ At(p, "restart")
    /\ \/ \E n \in Executable :
            /\ Works(n)
            /\ self' = Started(n)
            /\ apply' = [q \in Appliers |-> Resting]
       \/ /\ \E n \in {self.start, self.place} : ~Works(n)
          /\ Stop(p) /\ UNCHANGED self
    /\ UNCHANGED <<file, running, mishaps>>

Crash ==
    /\ running
    /\ running' = FALSE /\ apply' = [q \in Appliers |-> Resting]
    /\ Untouched /\ UNCHANGED mishaps

\* Whoever starts the program again needs its file.
Boot ==
    /\ ~running /\ Works(0)
    /\ running' = TRUE /\ self' = Started(0)
    /\ UNCHANGED <<file, apply, mishaps>>

----------------------------------------------------------------------------
Work(p) ==
    \/ Download(p) \/ Fails(p) \/ DropOld(p) \/ Backup(p) \/ Replace(p)
    \/ CopyOpens(p) \/ CopyEnds(p) \/ Rollback(p) \/ Tidy(p) \/ RestartSelf(p)

Next == (\E p \in Appliers : ApplyUpdate(p) \/ Work(p)) \/ Crash \/ Boot

Spec == Init /\ [][Next]_vars

----------------------------------------------------------------------------
(* Properties.                                                             *)

\* As long as no request replaces files in an excluded way, a crash at any step and
\* the failure of any step leave a working version, in its place or beside it.  (After
\* a rename back that has failed the next update may be of the excluded kind: what is
\* in place does not work, and it removes the last version that does.)
WorkingCopySurvives ==
    "excluded" \notin mishaps => \E n \in Names : Works(n)

\* ... and a request that ends without success, a crash or a restart leaves it there:
\* what has failed is undone, or, if the very rename back has failed, it is still
\* under the name of the backup.
FailureIsUndone ==
    [][\A p \in Appliers :
         /\ "excluded" \notin mishaps
         /\ apply[p].at \in Replacing /\ apply'[p].at = "idle"
         /\ running' = running /\ \A q \in Appliers \ {p} : apply'[q] = apply[q]
         => \/ file'[apply[p].path] = "working"
            \/ /\ apply[p].at = "rollback" /\ "stuck" \in mishaps'
               /\ file'[apply[p].path + 1] = "working"]_vars
=============================================================================
