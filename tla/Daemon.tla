------------------------------- MODULE Daemon -------------------------------
(***************************************************************************)
(* The process of cmd/sipen/main.go: which interface it starts with        *)
(* (config.Load, resolveUIMode, the wizard and `sipen mode`), and how it    *)
(* ends.  With the terminal interface two goroutines may take it down at   *)
(* once, main when its user leaves and the watcher of signals; with the    *)
(* web interface main alone does, within a deadline for its requests.      *)
(*                                                                         *)
(* A second signal finds the channel full or nobody to read it: nothing.   *)
(* The interface that only adds a window, "desktop", is one more mode.     *)
(* External: net/http's Shutdown waits for the requests that run.          *)
(*                                                                         *)
(* Bound: one request that runs.                                           *)
(***************************************************************************)
EXTENDS Naturals, Sequences

VARIABLES env,       \* SIPEN_UI in the .env file, "" without one; "no file"
          mode,      \* the interface the process runs with
          main,      \* "off", "boot", "prompt" (ui.Run), "serve" or "ending"
          todo,      \* what main and the watcher have left to do before the end
          signalled, \* a signal has come
          store,     \* the store is open
          queue,     \* closes of the stop channel of the queue, and of the
          scheduler, \* scheduler; each counts its own
          request,   \* a request runs
          late       \* the deadline of Shutdown has passed

vars == <<env, mode, main, todo, signalled, store, queue, scheduler, request, late>>

UIModes == {"terminal", "web", "desktop"}
Threads == {"main", "watcher"}
Steps   == {"drain", "queue", "scheduler", "store", "exit"}

TypeOK ==
    /\ env \in UIModes \cup {"", "no file"}
    /\ mode \in UIModes \cup {""}
    /\ main \in {"off", "boot", "prompt", "serve", "ending"}
    /\ todo \in [Threads -> Seq(Steps)]
    /\ queue \in 0..2 /\ scheduler \in 0..2
    /\ {signalled, store, request, late} \subseteq BOOLEAN

Idle == [th \in Threads |-> <<>>]

Init ==
    /\ env \in {"", "no file"} /\ mode = ""
    /\ main = "off" /\ todo = Idle
    /\ signalled = FALSE /\ store = FALSE /\ queue = 0 /\ scheduler = 0
    /\ request = FALSE /\ late = FALSE

----------------------------------------------------------------------------
(* Which interface.                                                        *)

\* persistUIMode replaces the line or adds one; without a file it fails.
Persist(m) == env' = IF env = "no file" THEN env ELSE m

\* `sipen mode <mode>`, a process of its own; so is the installer's new file.
ModeCli ==
    /\ \E m \in UIModes : Persist(m)
    /\ UNCHANGED <<mode, main, todo, signalled, store, queue, scheduler, request, late>>

InstallEnv ==
    /\ env = "no file" /\ env' = ""
    /\ UNCHANGED <<mode, main, todo, signalled, store, queue, scheduler, request, late>>

Start ==
    /\ main = "off" /\ main' = "boot"
    /\ mode' = "" /\ todo' = Idle
    /\ signalled' = FALSE /\ request' = FALSE /\ late' = FALSE
    /\ store' = FALSE /\ queue' = 0 /\ scheduler' = 0
    /\ UNCHANGED env

\* The mode is known: the store is opened, the queue and the scheduler run.
Launch(m) ==
    /\ mode' = m /\ store' = TRUE
    /\ main' = IF m = "terminal" THEN "prompt" ELSE "serve"
    /\ UNCHANGED <<todo, signalled, queue, scheduler, request, late>>

\* resolveUIMode: the argument, ...
LaunchForced ==
    /\ main = "boot"
    /\ \E m \in UIModes \ {"terminal"} : Launch(m)
    /\ UNCHANGED env

\* ... the .env file (the web with the server edition and on Android), ...
LaunchSaved ==
    /\ main = "boot" /\ env \in UIModes
    /\ Launch(env)
    /\ UNCHANGED env

\* ... the wizard, which saves the answer, ...
LaunchWizard ==
    /\ main = "boot" /\ env \notin UIModes
    /\ \E m \in UIModes : Launch(m) /\ Persist(m)

\* ... or, without a terminal, the web for an old installation.
LaunchDetached ==
    /\ main = "boot" /\ env \notin UIModes
    /\ Launch(IF env = "" THEN "web" ELSE "terminal")
    /\ UNCHANGED env

----------------------------------------------------------------------------
(* The end.                                                                *)

\* Mutant of the code: the store first.
OnSignalStoreFirst == <<"store", "queue", "scheduler", "exit">>

\* The watcher's calls, the clients' left out, to os.Exit.
OnSignal == <<"queue", "scheduler", "store", "exit">>

\* main's deferred calls, last first, to its return.
Deferred == <<"scheduler", "queue", "store", "exit">>

\* A signal before anyone asked for it ends the process.
Signal ==
    /\ main # "off" /\ ~signalled
    /\ signalled' = TRUE
    /\ CASE main = "boot"  -> main' = "off" /\ UNCHANGED todo
         [] main = "serve" -> main' = "ending" /\ todo' = [todo EXCEPT !["main"] = <<"drain">> \o Deferred]
         [] OTHER          -> /\ todo' = IF mode = "terminal" THEN [todo EXCEPT !["watcher"] = OnSignal] ELSE todo
                              /\ UNCHANGED main
    /\ UNCHANGED <<env, mode, store, queue, scheduler, request, late>>

\* ui.Run returns at `quit` or at the end of the input.
Quit ==
    /\ main = "prompt"
    /\ main' = "ending" /\ todo' = [todo EXCEPT !["main"] = Deferred]
    /\ UNCHANGED <<env, mode, signalled, store, queue, scheduler, request, late>>

\* The address cannot be listened on: os.Exit, nothing deferred.
ListenFails ==
    /\ main = "serve" /\ main' = "off"
    /\ UNCHANGED <<env, mode, todo, signalled, store, queue, scheduler, request, late>>

\* Shutdown returns when no request runs or at its deadline.
Drained == ~request \/ late

\* Stop of the queue and of the scheduler: under its mutex, and once.
Stopped(closes) == IF closes = 0 THEN 1 ELSE closes

\* The next call of a thread; a panic for a channel closed twice ends the process.
Step(th) ==
    /\ main # "off" /\ todo[th] # <<>>
    /\ LET s == Head(todo[th]) IN
       /\ s = "drain" => Drained
       /\ queue' = IF s = "queue" THEN Stopped(queue) ELSE queue
       /\ scheduler' = IF s = "scheduler" THEN Stopped(scheduler) ELSE scheduler
       /\ store' = IF s = "store" THEN FALSE ELSE store
       /\ main' = IF s = "exit" \/ queue' > 1 \/ scheduler' > 1 THEN "off" ELSE main
    /\ todo' = [todo EXCEPT ![th] = Tail(@)]
    /\ UNCHANGED <<env, mode, signalled, request, late>>

\* Requests come until the end begins, and end or do not.
RequestComes ==
    /\ main = "serve" /\ ~request /\ request' = TRUE
    /\ UNCHANGED <<env, mode, main, todo, signalled, store, queue, scheduler, late>>

RequestEnds ==
    /\ main # "off" /\ request /\ request' = FALSE
    /\ UNCHANGED <<env, mode, main, todo, signalled, store, queue, scheduler, late>>

\* Ten seconds after the signal.
Deadline ==
    /\ main = "ending" /\ todo["main"] # <<>> /\ Head(todo["main"]) = "drain" /\ ~late
    /\ late' = TRUE
    /\ UNCHANGED <<env, mode, main, todo, signalled, store, queue, scheduler, request>>

Next ==
    \/ ModeCli \/ InstallEnv \/ Start
    \/ LaunchForced \/ LaunchSaved \/ LaunchWizard \/ LaunchDetached
    \/ Signal \/ Quit \/ ListenFails
    \/ \E th \in Threads : Step(th)
    \/ RequestComes \/ RequestEnds \/ Deadline

Spec == Init /\ [][Next]_vars

----------------------------------------------------------------------------
(* Properties.                                                             *)

\* No stop channel is closed twice, whoever gets to Stop first: the process never
\* ends in a panic.
NoPanic == queue <= 1 /\ scheduler <= 1

\* The store is closed after the queue and the scheduler have been told to stop, on
\* each of the ways to the end.
StoreLast == main \notin {"off", "boot"} /\ ~store => queue = 1 /\ scheduler = 1

\* With the web interface it is closed after the requests that run have ended, or
\* have had their time.
RequestsFirst == main = "ending" /\ mode # "terminal" /\ ~store /\ request => late

\* The end of the process, whoever begins it and whatever it overtakes.
CleanEnd == NoPanic /\ StoreLast /\ RequestsFirst
=============================================================================
