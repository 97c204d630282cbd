# SiPenDosa: TLA+ models, checks and proofs

SiPenDosa reminds lecturers of their classes over WhatsApp. A Go server keeps
schedules, templates and contacts in SQLite; a scheduler turns due schedules into
rows of a queue; a worker hands the rows to a WhatsApp client. This directory
models the parts of the server in which order, staleness and failure matter,
checks the models with TLC on small instances and proves the central results with
TLAPS for all values of the constants.

Contents: [inventory](#inventory) · [modules](#modules) · [runs](#runs) ·
[bounds](#bounds) · [fairness](#fairness) · [proofs](#proofs) ·
[what the code does not keep](#what-the-code-does-not-keep) · [not modelled](#not-modelled) ·
[plan](#plan)

## Inventory

Paths are under `src/internal` unless they say otherwise.

| Component | State it keeps | Operations | What makes it correct |
|---|---|---|---|
| **Message queue** `queue/queue.go`, rows in `store/repository.go` | table `queue_messages`; trigger channel of one place; `stopChan`; per goroutine a copy of a row and of the settings | `Enqueue`, worker loop (10 s ticker or trigger), `ProcessImmediate` ("send now"), claim, dry-run decision, send, retry with backoff, cancel, delete, stop | a message is handed over by one goroutine and acknowledged at most once; its status tells what happened; everything enqueued ends |
| **Scheduler** `scheduler/scheduler.go` | `schedules.last_sent_at`, holidays, settings (zone, sending window), cached `nextInfo` | every minute: evaluate, fire, mark; every 15 s: countdown; manual trigger | one reminder per schedule and lecture, none for a holiday, none forgotten; the countdown shows the next reminder |
| **WhatsApp client** `whatsapp/client.go`, `interactive.go`, `bot.go` | connection state, QR, pairing code, last activity, keep-alive loop | start, events, hibernate, wake, keep-alive, plain and rich send, disconnect, pair, close | one keep-alive loop; a session that can connect eventually does; an idle one sleeps, a sleeper wakes; a closed one is left alone |
| **WhatsApp manager** `whatsapp/manager.go` | table of clients per account | get or create, idle reaper (15 min), gateway of a workspace, close | one client per account, replaced when its account is deleted |
| **Realtime hub** `realtime/hub.go` | sockets, 64-place broadcast channel, last event per type | register, unregister, broadcast, heartbeat | a dashboard ends up with the current state; dead sockets leave |
| **Tunnel manager** `tunnel/tunnel.go` | stopped / starting / active / error, address, process, the downloaded binary | toggle, ensure the binary, launch, output monitor, process waiter, stop | the state shown has a cause; a printed address gets shown |
| **Accounts** `auth/auth.go`, `web/handlers.go` | users and roles, `registration_open` | register first and later, create, delete, open and close registration | exactly one superadmin |
| **Logins** `auth/auth.go`, `totp` | sessions, two-factor challenges, second factor of an account | log in by form and token, verify, log out, expire, clean up, enable, disable | no session without the second factor; a challenge is good once |
| **Workspaces** `web/workspace_handlers.go` | workspaces, members, active workspace, gateway mode | create, update, delete, switch, members, seeding | a workspace always remains and keeps its owner |
| **Templates** `store/repository.go` | templates, versions, the default | create, update, delete, seeding, choice for a reminder | the history is complete; a reminder finds a text |
| **Rate limiters** `web/security.go` | times of visits | admit, sweep | exactly the limit within the window |
| **Updater** `updater/updater.go` | cached check, files of the executable | check, compare versions, choose the asset, replace, roll back, restart | a working version at every moment; an honest answer |
| **Process** `cmd/sipen/main.go`, `config`, `termui` | interface mode, what runs, stop channels | choose and save the mode, launch, signal, quit, drain, stop, close | the store is closed last, nothing is stopped twice |
| **HTTP handlers** `web/handlers.go` | none of their own | forms that change the tables above | modelled with the table they change |

How they interact. `scheduler.fireSchedule` and `TriggerScheduleManually` call
`queue.Enqueue`, which inserts a row and signals the worker. The worker and the
goroutines of `ProcessImmediate` read rows, settings and schedules from the store and call
`whatsapp.Manager.GetClient` and `SendMessage`. All of them report to the hub. Requests of the dashboard toggle the tunnel, replace the executable,
and edit accounts, workspaces, templates, schedules and settings, each in a goroutine of its own; `main` starts and
ends everything. The
store has one connection (`store/db.go:33`), so a statement is atomic and nothing
larger is: there are no transactions around the steps modelled here.

What is hard. Goroutines act on copies of rows and settings that were read earlier,
across a 45 s send and rate-limit pauses of minutes. Outcomes are written by id
alone. The error of many a statement, rename or removal is dropped (`_ =`) and the code
goes on as if it had succeeded. The process may end anywhere, and the
next one repairs nothing. Times are stored as text. The hazards are listed one by
one in `PROJECT.json`.

## Modules

| Module | Role |
|---|---|
| `MessageLifecycle` | what the queue promises about a message, without goroutines, copies or settings |
| `MessageQueue` | the queue, its worker, send-now goroutines, users, restarts and failed statements |
| `MCMessageQueue` | instances of `MessageQueue` for TLC |
| `MessageQueueProofs` | the theorems about `MessageQueue` |
| `Scheduler` | evaluation of a minute, firing, marks, countdown, users, restarts and failed statements |
| `MCScheduler` | instances of `Scheduler` for TLC |
| `SchedulerProofs` | the theorems about `Scheduler` |
| `Gateway`, `MCGateway` | the WhatsApp client, its manager and whoever uses them; its instance |
| `GatewayProofs` | the theorems about `Gateway` |
| `Tunnel` | the Cloudflare tunnel manager and the handler that toggles it |
| `Hub` | the realtime hub |
| `Daemon` | the interface the process starts with, and its end |
| `Services`, `MCServices` | `Tunnel`, `Hub` and `Daemon` beside each other; their instance |
| `ServicesProofs` | the theorems about `Services` |
| `Workspaces` | workspaces, members, active workspaces |
| `WorkspacesProofs` | the theorems about `Workspaces` |
| `Accounts` | accounts, first and later registrations |
| `AccountsProofs` | the theorems about `Accounts` |
| `Logins` | sessions, challenges, the second factor |
| `LoginsProofs` | the theorems about `Logins` |
| `Templates` | templates, versions, the text of a reminder |
| `Limiter` | both sliding windows |
| `Updater` | the replacement of the executable |
| `UpdateCheck` | the shared check for a newer release and the order of versions |
| `Portal`, `MCPortal` | `Workspaces` and the last six models beside each other; their instance |
| `PortalProofs` | the theorems about `Portal` |

### MessageQueue

Rows are `status`, `retries`, `limit`, `eta` and `marked`. `eta` is the number of minutes
until `scheduled_for`; `marked` says that `error_message` starts with
`[MANUAL_DRY_RUN]`. `status` has two values the table does not: `none` for an id not
yet inserted and `deleted` for one whose row is gone (ids are `AUTOINCREMENT`). A goroutine
has a position `pc`, a copy `job` of its row and a copy `seenDry` of
`settings.global_dry_run`; the worker also has its `batch`. `trigger` is the
one-place channel and `signalling` the callers between their INSERT and their signal.

Every action is one SQL statement, one call into the WhatsApp client or one channel
operation, so anything may happen between two statements of a goroutine:

| Code | Actions |
|---|---|
| `Enqueue` (GetSettings and INSERT, then `TriggerProcessing`) | `Enqueue`, `Signal` |
| `workerLoop` | `WakeByTicker`, `WakeByTrigger`, `WorkerExit` |
| `processPending` | `FetchPending`, `TakeNext`, `BatchDone` |
| `ProcessImmediate` | `SendNow`, `ReadSettings` |
| `processSingleMessage` | `Claim`, `Decide`, `RecordDryRun`, `Send`, `RecordSent`, `ScheduleRetry`, `RecordFailed` |
| queue, settings and schedule handlers | `Cancel`, `Delete`, `SaveSettings`, `SaveSchedule` |
| shutdown and start | `Stop`, `Restart` |
| an error of any statement | `StoreError`, and the second disjunct of `Enqueue` |

`Send` covers the client as a whole: acknowledged, refused, or refused although a copy left
(a timeout after the message went out). `acks` counts acknowledgements, `reached` the
messages of which any copy may have left.

`scheduled_for` is written as the text of the scheduler's local time and compared with the
text of the worker's local time. The constant `ZoneLags` holds the differences of
those clocks in minutes: 0 when the process runs in the zone of the settings. That
`modernc.org/sqlite` writes `time.Time` as text with its zone when the DSN sets no
`_time_format` is taken from the driver's documentation; its source is not in the repository.
The backoff is kept as the code computes it, 1, 4, 9 ... minutes.

`MessageLifecycle` is implemented with `phase <- status`, `held <-` the rows between claim and
outcome write, and `accepted <- acks`. A retry of a deleted row, a cancelled row under a stale
copy and a restart in the middle of a send are all life-cycle steps or stutters.

### Scheduler

Time is a number of minutes; a day has `DayLength` of them and a week `WeekLength` days, so that
the arithmetic of `time.Time` on days and weeks stays and TLC can run through weeks. The settings'
zone is the number of minutes to add before an instant is split into a date and a clock reading.
A schedule has a `state` (absent, on, off, deleted), a `plan` (day, send time, start, mode) and
`lastSent`; a holiday has the instant it was added. `ready` stands for whether a template and a
phone number can be found. The goroutine has a position `pc`, the minute `at` and the settings `cfg` of its evaluation, and
copies of the schedules: `todo`, and `cur` while it is fired.

| Code | Actions |
|---|---|
| `evaluateTick` | `StartTick`, `ListActiveSchedules`, `Consider`, `EvaluationDone` |
| `fireSchedule` | `Fire` (lookups and INSERT), `Mark` (`UpdateScheduleLastSent`) |
| `updateCountdown`, `calculateNextFireTime` | `UpdateCountdown`, `CountdownError` |
| schedule, holiday, contact and settings handlers | `SaveSchedule`, `ToggleSchedule`, `DeleteSchedule`, `CreateHoliday`, `DeleteHoliday`, `EditContacts`, `SaveSettings` |
| `Start` in a new process; an error of a statement | `Restart`; `StoreError` |
| the clock | `Minute` |

`Minute` may come at any time, also in the middle of an evaluation, and any number of times
between two evaluations (a sleeping machine, a slow database), unless `AlwaysAwake` is set. The history
variables count, for the last day with a reminder, the reminders and the lost marks of each schedule; `since` is the
last edit of a schedule and `seen` the minutes of today that have been evaluated.

Schedules are considered in any order, which includes the query's. Tables are edited by SQL statements of their own, so an edit may
fall between any two steps. The process starts on a Sunday, minute 0 of the westernmost zone. Daylight saving time is not modelled; the zones the
settings form offers have none. Holidays on five weeks in a row end the countdown's search,
which the instances do not reach. `TriggerScheduleManually` changes no schedule and is `Enqueue` of `MessageQueue`.

### Gateway

The client objects of one account, one after the other, with their state, QR and pairing code, idleness,
stored device id, socket, keep-alive loops and the events whatsmeow has for them. The library is external: a socket is up or down, a
device id stored or not, events come one at a time, a QR login has a channel. `proc` holds what
each caller (request, queue worker, start-up) and each goroutine started with `go` is doing. A section under the client's mutex is a step.

| Code | Actions |
|---|---|
| `GetClient`, `CloseClient`, the reaper | `GetClient`, `CreateClient`, `CloseClient`, `ReaperRound`, `Hibernate` |
| `Start`, reconnect, QR and pairing requests | `BeginReconnect`, `BeginStatus`, `BeginStart`, `StartWithSession`, `StartPairing`, `PairFails`, `PairCode` |
| `listenQR` and the library's channel | `ListenQR`, `NewCode`, `CodesExpire`, `PairSuccess` |
| `keepAliveLoop` | `KeeperLook`, `KeeperRedials`, `KeeperFails`, `KeeperEnds` |
| sends: `EnsureConnected`, wake-up, delivery, fallback | `BeginRich`, `EnsureConnected`, `WakeDial`, `WakeFails`, `WakePoll`, `Deliver` |
| `Disconnect`; `handleEvent`, the bot | `BeginDisconnect`; `HandleEvent`, `Incoming` |
| the network, the phone, time | `NetDrop`, `RemoteLogout`, `GrowIdle` |

`Logout` has no caller. The library's own reconnection is left out, so that what comes back comes back by the program.

### Tunnel, Hub, Daemon

`Tunnel`: each toggle is a request with its own position; `Start` goes on in a goroutine through ensuring, downloading,
installing and launching. A daemon is external: it runs, prints its address on one of its streams, exits. Its monitor and its waiter
write the one status with the requests. The binary may be a part of what was downloaded (`os.Create`, then copy).

`Hub`: a case of the loop is a step, since the loop alone uses the table of sockets; around it are each socket's handler and
reader and the goroutines that report a failed write. An event is its kind and its number.

`Daemon`: `env` is the `.env` file's mode, `todo` the calls that `main` and, in a terminal, the watcher of signals have left to do.
Both may take the process down at once; a stop channel closed twice would be a panic.

### Workspaces, Accounts, Logins, Templates

A statement is a step and a request keeps what it has read. Statements that only read what never changes are one step with the
write that follows them. Workspaces know the roles "admin" and "member", accounts "superadmin", "admin" and "kelas", as the guards do.

Any statement may fail. Where the code returns the error, the request ends (`Fails`, `Leave`). Where it drops the error, the request goes on without the
row, and that is a disjunct of the step itself:

| Code | What it drops | In the model |
|---|---|---|
| `repository.go:1077`, `db.go:319` | the INSERT of the owner's membership | `CreateOwner`, `SeedWorkspace`: the workspace is `orphaned` |
| `repository.go:1166` | a count of the workspaces that fails: the deletion goes on | `DeleteCounts`, then not `sure` |
| `repository.go:1081`, `auth.go:96-97`, `workspace_handlers.go:223` | joining the default workspace, setting the active one | `JoinDefault`, `Fails`, `SeedWorkspace` |
| `auth.go:287` | the deletion of a used challenge | `Delete2FAChallenge`: the challenge lives, `kept` counts it |
| `handlers.go:298` | a count of the accounts that fails is zero | `RegisterCounts` (`RegisterFirstUser` counts again, and returns that error) |
| `auth.go:64` | closing the registration | `Leave` at `close` |
| `repository.go:352`, `376` | unmarking the old default | `CreateTemplate`, `UpdateTemplate` |
| `repository.go:387` | reading the greatest version: the next one is 0 | `ReadVersion` |
| `repository.go:365`, `388`, `db.go:303` | the INSERT into the history | `AddVersion`, `Restart`: the content is `lost` |
| `updater.go:384`, `400` | removing the backup, before and after | `DropOld`, `Tidy` |
| `updater.go:394` | the rename back | `Rollback`: the update is `stuck` |

History variables record these and the overlaps the code does not guard against, each as narrowly as it can: the workspaces that are `orphaned`, the
contents that are `lost`, the number of deletions that failed (`kept`) and of verifications that ran at once (`most`), whether two first registrations were
past their second count (`raced`), whether two requests on templates ran at once (`overlapped`). A property that makes an exception of one says so, and
the list [below](#what-the-code-does-not-keep) describes what happens then. Every other failure, and every crash and overlap, it holds through.

### Limiter, Updater, UpdateCheck

`Limiter` keeps the ages of visits instead of their times, and sets of them instead of slices, whose order the code never uses (a visit has a number to
tell it from the others of its key in the same tick); both limiters hold their mutex from filtering to recording, so a request
is a step, and so is a sweep. `Updater` keeps what the executable and its `.old` copies hold, and what `os.Executable` would answer: every rename, removal, opening and end of a copy
is a step, any of which may fail, and the process may die between two of them. On Linux `os.Executable` follows the file that was started: after
the backup's rename it names the `.old` path, which `Tidy` has usually removed when `RestartSelf` asks (`restart_unix.go:15`), and the restart then fails and the
old program runs on, where `CHANGELOG.md:39` speaks of an automatic restart. `RestartSelf` of the model therefore starts either path, or nothing where
one does not work. The errors of `Close` (`updater.go:374`, `415`) and of `Chmod` (`397`) are left out: a copy that reported no error is complete.
A request that replaces files marks `mishaps` with `excluded` when another does at the same time, when it installs neither a tarball's binary nor a binary, or when what it
replaces does not work.

`UpdateCheck` has the cache of ten minutes, whose entry a simulation (`test=true`) may edit, and `CompareVersions` against the order `Newer`. `Newer` is defined apart
from the code and compares a tag's numbers only, as `updater.go:203` has it ("Strip any build suffix like -rc1"). `parseSemver` splits at the dots first and strips
then, so that a suffix with a dot in it leaves a part behind: 1.10.0-rc.1 has the parts 1, 10, 0, 1 and is newer than 1.10.0 to `CompareVersions`, although
`updater.go:170` speaks of semver. Tags of that form are in the instance and `HonestAnswer` excludes them by name (`Dotted`); all others, with suffixes
such as -beta too, it compares by `Newer`. Tags with build metadata (`+`) are left out.

## Runs

| Run | Question | Answer |
|---|---|---|
| `QueueRaces` | one row, the worker, two send-now goroutines, a retry, a fault: is there one holder, one acknowledgement, a true history? | holds |
| `QueueBatch` | two rows in batches of one, one a manual simulation, settings and schedule edited under them, a fault: does the queue implement the life cycle, and does the simulation stay home? | holds |
| `QueueLive` | every send may fail, two rows compete, clocks differ: does every row end? | holds |
| `QueueTrigger` | two rows and a send-now goroutine: does the signal suffice, without the ticker? | holds |
| `SchedulerEdits` | one schedule, two edits and a fault at any point: one reminder per day and lost mark, on facts of this evaluation? | holds |
| `SchedulerSleepy` | two schedules, several plans, windows, zones and holidays, a machine asleep at will: is a missed minute caught up the same day, once, and does the countdown run to the minute that will fire? | holds, the countdown for send times within the window |
| `GatewayLife` | one account's client with a request, a background goroutine, the keep-alive loop, the reaper and the library: one keep-alive loop, sessions that return, idle clients that sleep, sleepers that wake, closed clients left alone? | holds |
| `Services` | two toggles and two daemons; two sockets and a channel of two; both ends of the process: does each status have its cause, does the last event arrive, do dead sockets leave, does the store close last? | holds |
| `Portal` | two requests at once on each of workspaces, accounts, logins, templates, a limiter, the check and the executable, with deletions, restarts, crashes and the failure of any statement or file operation | holds, with the exceptions [named below](#what-the-code-does-not-keep) |
| `StrandedRow`, `DroppedReminder`, `SharedGateway` | statements of the documentation | violated, see below |

`Services` and `Portal` put independent modules beside each other, by `INSTANCE` (`Portal` extends `Workspaces`): a behaviour is one of one of
them, chosen in its initial state, so that one run answers for each of them and no step of another hides a lack of fairness. The
runs check these two modules and the proofs are about them: `MCServices` and `MCPortal` only give constants their values.

## Bounds

One or two rows suffice because rows do not interact except through the batch and
the worker's order, which two rows in batches of one exercise. Two send-now
goroutines and the worker are the three contenders the claim has to separate: a claimer, a
loser and a late copy. `RetryValues` is `{0}` or `{1}`: a row with one retry has a first, a middle and
a last attempt. `MaxFaults` bounds stops, restarts and failed statements by one, enough
to put one at every position; the proofs have no such bound. Queue rows are symmetric, and so are the send-now
goroutines, in the runs that check safety only.

Scheduler: a day of four minutes has minutes before, in, at both ends of and after a window of two; weeks of
two or three days make H-0 and H-1 days meet and let TLC cross the week's end; three tell the day before from the day after. `Horizon` bounds the clock, `MaxEdits` the
edits and `MaxFaults` the faults: two edits suffice to delete, recreate or move a schedule between its copy
and its INSERT. `SchedulerSleepy` has no edits, which its properties exclude.

Gateway: one client object, one QR channel, one caller and one background goroutine beside the keep-alive loop, the
reaper and the library. The hazards are between these five; a second object shares only the table of clients with the first, and
a request that asks for it is one that leaves the closed object alone. Tunnel: two toggles and two daemons, so that an old daemon's goroutines meet a
new one's. Hub: a channel of two and three events, so that an event is dropped and a socket joins between two others; two kinds, one of them cached.
Portal: two requests, which is what an overlap needs; two accounts, one of them privileged, and two workspaces; three accounts where roles matter;
one account, two sessions and a challenge; two templates of two versions; a window of two ticks with limits of two and three;
five tags: the one that runs, an older one with a greater last part, one with a dotted suffix, one with a plain suffix, and a shorter one. `MaxKept` lets one deletion of a
challenge fail, which is enough for a challenge used twice by logins one after the other. The run has 1.07 million distinct states, of which workspaces 432,000, updater 288,000, templates
287,000, logins 39,000, checks 14,000, accounts 4,500 and the limiter 1,200, and takes under three minutes.

## Fairness

`FairSpec` assumes that goroutines run, that a caller which inserted a row also signals, that the
10 s ticker fires and that minutes pass. It does not assume that a send succeeds, that
users act or that a statement fails. A select with several ready cases is not assumed to be fair
to any one of them except the ticker's, which nothing else can starve for ever because
every batch is finite. `TriggerSpec` drops the ticker and the passing of time.

`Gateway` assumes that goroutines and callers go on, that the library hands over its events, that the reaper's ticker fires and that a
dial which is tried again and again succeeds in the end (strong fairness of `KeeperRedials` and `WakeDial`): without it no session could be
expected back. `WakesUp` supposes in its premise that the client is asked for again and again. `Tunnel` assumes that the goroutines of a daemon
run, `Hub` that the heartbeat ticks, that its select does not pass a departure by for ever, and that a reader of a closed
socket returns. Nothing is assumed of users, of the network or of the daemon. The modules of `Portal`, and `Daemon`, have no liveness property and assume no fairness.

## Proofs

`MessageQueueProofs` proves, for any rows, goroutines, schedules, settings, batch limit and
number of faults satisfying `QueueAssumption`:

* `TypeCorrect`, `MutualExclusion`, `AtMostOnce`, `HistoryTrue`, `AllRetriesUsed`, `SimulationsStayHome`, `NothingStranded`:
  the invariants of the runs;
* `FinalForGood`: a final status is kept until the row is deleted;
* `Refinement`: `Spec` implements `MessageLifecycle!LSpec`.

None of the properties is inductive alone. That a row is acknowledged once needs to know who holds
it and what its status is; that needs copies to name existing rows. `IInv` collects these facts in layers:

1. `Typed`: types, and a goroutine past its read has a copy;
2. `Exclusive`: one holder per row, and a held row is processing or deleted;
3. `Truthful`: acknowledgements agree with statuses, and with the holder's position;
4. `Counted`: counters of copies never run ahead of their row's;
5. `AtHome`: the mark of a manual simulation travels with every copy;
6. `NobodyStrands`: without a fault, processing rows are held.

A layer is proved inductive relative to the earlier ones, with a frame lemma for the
steps that cannot disturb it and one step per action that can. Liveness is model-checked only.

`SchedulerProofs` proves, for any schedules, plans, settings, holidays, lengths of day and week, edits and faults
satisfying `SchedulerAssumption`:

* `TypeCorrect`: types, clock readings within the day included;
* `OneReminder`: `OneZone => OncePerDay`, at most one reminder more than lost marks per schedule and day, when no
  change of settings moves a date;
* `FreshReminders`: `FreshFacts`, a reminder goes out on holidays and schedules as of its own evaluation;
* `NoLectureForgotten`: `NothingForgotten`, a minute missed is not a day missed;
* `CountdownIsTrue`: `FewHolidays => CountdownAgrees`, the dashboard counts down to the minute that fires next, unless a lecture meets five
  holidays running.

The invariant says that each schedule has at most one copy in an evaluation and that the copy has the
mark of the table (`CopiesCurrent`); that a reminder not marked is either paid for by a lost mark or
about to be marked (`MarksKept`); and that the copies and the holidays read are no older than the minute (`CopiesFresh`). Without
`OneZone` a second reminder on one date is possible: a date is computed with the zone of the day it is
read.

The other two theorems rest on the calendar: days of `DayLength` minutes and weeks of `WeekLength` days, neither of them a number the
prover knows. `Division`, `Times`, `Unique` and `Quotient` say what a quotient and a remainder are; `Dating`, `Timing`, `Ordering` and `Weeks` what dates,
clocks and weekdays make of them. From there `NextFires` says which minute `calculateNextFireTime` computes and `FirstFires` that `evaluateTick` fires in that minute
first. Both theorems add to the invariant.

* `Attentive`, until the first edit or fault: a mark tells when its schedule was reminded (`MarkTells`); an evaluation has reminded
  of what its minute owes, or has it before it (`Paying`); the minutes of today it has been through are paid (`PaidToday`); whoever is about to be reminded has not been today (`Unsent`).
* `Unedited`, until the first edit, through faults and restarts: tables and settings are those of the start (`AsAtStart`), no reminder is marked
  earlier in the day than planned (`OnTime`), and what is shown is the least of the minutes computed without the marks (`CountsDown`). The last is why restarts
  and lost marks do no harm: on time, a mark does not change the next minute.

`FewHolidays` is needed: `calculateNextFireTime` stops after four shifts of a week (`MaxHolidayShifts`) and then shows a holiday. With it dropped,
TLC finds a calendar with holidays five weeks running. The calendars of the runs have fewer, so there `CountdownAgrees` holds as it stands.

`GatewayProofs` proves, for any number of clients, QR channels, callers and goroutines: `Types`; `OneLoopPerClient` (`OneKeeper`); and
`NoClosedClientIsManaged`, what later requests need of `ClosedIsLeftAlone`: the manager's table never holds a closed client. The invariant adds that a
client's loops are no more than its flag allows (`Counted`: `Start` sets the flag and starts the loop under one lock, the loop's end resets it), and
that every task that acts on a client names one that exists.

`ServicesProofs` proves, for any requests, daemons, sockets, kinds of events and capacity of the channel: `Types`, `StatusIsTrue` (`StatusFits`),
`TheLastArrives` (`LastArrives`) and `TheEndIsClean` (`CleanEnd`).

* Tunnel: types and `StatusFits` are inductive together. The work is in the cause of a start, which passes from a request to the daemon's waiter.
* Hub: `LastArrives` speaks of an empty channel only. Its strengthening says what holds with events under way: the last event of a kind
  is the last of that kind in the channel or, without one there, in the cache (`LastIsKept`); what is in the cache every live member has been told, and
  who is not registered has been told nothing (`CacheIsTold`). That the reports stay within their bound needs the count of `Reported`:
  reports made and events waiting are never more than events broadcast, and one for the heartbeat.
* Process: `CleanEnd` needs to know, for each thread, which calls it may still have before it (`OfMain`, `OfWatcher`) and what
  must be stopped by then (`Ordered`, `Draining`). The sequences of calls are told apart by their lengths.

`AccountsProofs` proves, for any requests at once and any number of accounts, `Types` and `ExactlyOneSuperadmin`. Three facts make it inductive:
before the first account nobody but first registrations is under way (`BeforeFirst`); while no two of them overlapped, at most one is past its
second count, and none once an account was there (`OneCrowning`); and whoever acts as a superadmin, with however old a
copy, is the one there is (`SoleSuper`), so that the guard against deleting oneself is enough to keep it.

`WorkspacesProofs` proves `OwnerStays` and `LastStays` (an action property) for any requests, accounts and workspaces, and any statements that fail. An owner is an account that
exists (`Owned`); a request between the two statements of a creation has a workspace nobody else completes (`Creating`); whoever is about to remove a member has read an owner that
is still the owner (`Removing`); and whoever is about to delete a workspace, has counted, and was not overtaken, leaves another (`Deleting`). The failures of `CreateOwner`
and `DeleteCounts` are cases of the proof: the first makes an orphan, of which nothing is claimed until its owner joins; the second a request that is not `sure`.

`LoginsProofs` proves, for any users, sessions and challenges, any finite set of requests and any number of failed deletions, with a value for "none" that is no user or
challenge (`Sound`): `Types`, `OneSessionPerChallenge` (`ChallengeOnce`) and `NobodySkipsTheCode` (`SecondFactorAsked`, an action property). A challenge that can still be read has
outlived every deletion so far, so that its sessions and the verifications past their deletion are never more than the deletions that failed (`Living`); what a verification may still
add keeps within the verifications that ran at once and those failures (`Rationed`, with cardinalities); how a login came to where it is decides whether it has
a code (`Asked`).

`PortalProofs` proves about `Portal` what its run checks, for all constants satisfying `PortalAssumption`:

* `OwnersStay`, `OneWorkspaceStays` by extending `WorkspacesProofs`; `OneSuperadminStays`, `ChallengesAreSpentOnce`, `TheCodeIsAskedFor` through instances of
  `AccountsProofs` and `LoginsProofs` under the renaming of `Portal`. Each first shows that the behaviours of `Portal`, restricted to the part, are behaviours of
  the component, every step of another part a stutter.
* `AWorkingVersionStays` (`WorkingCopySurvives`) and `FailuresAreUndone` (`FailureIsUndone`). Until a request replaces files in an excluded way (`Replacement`): one at a time
  does; what it has unpacked is complete; while it has taken the executable away the copy works, and else the executable does. The third and the fourth
  change places at a rename and back at a rollback, which is why neither is inductive alone. A rollback that fails ends the request with the copy working, which is
  what `FailuresAreUndone` says of it; the next update is then of the excluded kind, since what it replaces does not work.
* `AnswersAreHonest` (`HonestAnswer`): what the cache and every request hold of a release is what `CompareVersions` says, unless a simulation edited that very
  entry (`Honest`); and `CompareVersions`, a loop over the parts `parseSemver` has made, is the order `Newer` on the numbers for any tags without dotted suffixes.
* `HistoriesAreTrue` (`AuditTrail`) and `ATextIsFound` (`AlwaysAText`, an action property). A content is in the history, owed by a request, or the content of an INSERT that failed or that a restart
  cut off (`EveryContentKept`); this needs only that requests name templates that were made (`Concerned`), that a removed one has no history (`NoRelics`) and that numbers
  do not run ahead (`NotAhead`). That the newest entry is the content in use, unless lost, needs to follow a request that is alone through its statements (`Calm`).
* `LimitsAreExact` (`ExactLimits`, an action property). The invariant says that what counts in a key's table is what was let through within the window, and
  in the server's table of all of it (`TrueTables`), which refusals, sweeps and ticks leave so; that the number of a new visit is free, so that each one counts
  (`Numbered`); and that what is recorded does not get older than the next sweep allows (`Swept`), which is the type.
* `Types` (`PortalTypeOK`), from the invariants of all parts.

The provers have no induction. Where a fact about a minimum, a maximum or the first place two tags differ is needed, `Least` and `Greatest` of `PortalProofs`
give the least or greatest number of a bounded nonempty set of numbers from the finite-set theorems of the library, once.

What stays with TLC, and why:

* liveness (`EverythingEnds`, `TriggerSuffices`, `SessionReturns`, `IdleSleeps`, `WakesUp`, `ClosedIsLeftAlone`, `AddressShown`, `DeadSocketsLeave`): temporal reasoning
  under fairness needs `ENABLED`, which the prover does not have;
* the three violations, which are about instances by nature.

## What the code does not keep

Checked by a run:

* **A row can stay in processing for ever** (`StrandedRow`).
* **A reminder whose send time lies after the window is dropped** (`DroppedReminder`): it goes out neither on its day nor when the window opens
  the next day, still before the lecture, although the documentation says that it is put off until the window opens. The property asks at the end of that next day, so
  that a program which puts reminders off as documented satisfies it. The CSV import's default for H-1 is such a time.
* **A shared number is not used** (`SharedGateway`): the settings form stores the mode as `shared`, the manager looks for
  `workspace_shared`.

Excluded by name in a property, whose model has the steps:

* A reminder goes out twice when the process ends, or a write fails, between its INSERT and its
  mark (`OncePerDay` counts lost marks), or when a change of zone repeats a date (`OneZone`).
* Two first registrations that overlap after their second count make two superadmins (`raced`).
* The last workspace is deleted by a deletion whose count failed (`repository.go:1166` refuses only when `err == nil`), by one that another overtook between its
  count and its DELETE, and with the account that owns it (`LastStays`).
* A workspace stays without its owner's membership when that INSERT fails (`repository.go:1077`, `db.go:319`) or a restart comes before it (`orphaned` in `OwnerStays`).
* A content is missing from a template's history when its INSERT fails (`repository.go:365`, `388`) or a restart comes before it (`lost`), and an entry has number 0 when the
  greatest could not be read (`387`) (`AuditTrail`).
* Overlapping updates of a template share a version number, and the newest entry need not be the content in use (`overlapped`); two templates may both become the default.
* A challenge opens a second session when its deletion fails (`auth.go:287`), and when two verifications of it overlap (`kept` and `most` in `ChallengeOnce`).
* A failed update whose rename back fails as well (`updater.go:394`) leaves an incomplete executable in place and the working one under `.old` (`stuck` in `FailureIsUndone`), and
  the next update removes that one first (`excluded`).
* Two overlapping updates can leave no executable, and a release with no matching tarball installs a package, an Android
  application or a web page as the executable (`excluded` in `Updater`). `updater.go:382` calls the replacement atomic; for the moment between
  two renames there is no executable in its place.
* A simulated update check that had to ask GitHub edits the entry everyone shares; until it is replaced everyone is told of an update (`edited` in `HonestAnswer`).
* A release candidate such as 1.10.0-rc.1 is offered to 1.10.0 (`Dotted` in `HonestAnswer`), against the comments at `updater.go:170` and `203`; `updater_test.go:20` has
  a suffix without a dot only.
* A client paired by code is never idle, so it never sleeps (`IdleSleeps`).
* The countdown ignores the window (`CountdownAgrees` supposes send times within it), and after four holidays in a row it runs to a fifth (`FewHolidays`).
* An address printed on standard error is read when the daemon has exited (`AddressShown` is about standard output).

Seen while modelling, without a property:

* Rows claimed after the dry-run switch is set are sent when their goroutine read the settings before it.
* A row may be retried beyond its limit through a copy made before another goroutine's failed
  attempt, and an old batch retries a row before its backoff is over.
* A triggered row may wait for hours where the process and the settings disagree about the zone, as in the Docker image.
* A client may be put to sleep under a send that has begun; the send fails, and its row is retried.
* The waiter of an old daemon clears the state of a tunnel started after it: the status is "stopped" beside a running daemon.
* A toggle that stops the tunnel while a Start is under way leaves the daemon it launches running.
* A copy of `cloudflared` that was cut short is taken as installed by every later start: any file of that name is.
* A blank text is refused for a new template and accepted in an update; reminders with it are not sent.
* Whoever has a session may add members to any workspace; a deletion sets the active workspace of others to 1 whether it exists or not.
* `main.go:211` speaks of cleaning sessions and challenges; only sessions are cleaned. A challenge's expiry is stored as local time and
  compared with UTC.
* The wizard's choice is not saved without an `.env` file. `quit` in the terminal does not close the WhatsApp clients; a signal closes them before
  the queue has stopped (`main.go:244`).
* The help text offers `sipen terminal`, which `main` does not know.

## Not modelled

Texts of messages, rendering, HTML, pages and exports, the template engine, the CSV import's parsing, banner and network resolver, pairing by command line,
opening a browser, the Termux update script, installer, packaging, mobile and native shells. They are input and output, or pure formatting, and
no property of the state depends on them. Within the queue: the rate-limit pause (a goroutine may
wait before any step), hub events, and `PruneOldLogsAndMessages` and `UpdateQueueMessageChoice`, which nothing calls.

The modules are not composed with one another: the queue sees of the scheduler an `Enqueue`, of the client the three outcomes of `Send`; their
interfaces are that narrow in the code. `Gateway` has its own callers for the same reason.

## Plan

1. `MessageQueue` with `MessageLifecycle`, `Scheduler`, both with proofs: done.
2. `Gateway`, `Tunnel`, `Hub`, `Daemon`; `Workspaces`, `Accounts`, `Logins`, `Templates`, `Limiter`, `Updater`, `UpdateCheck`: modelled and checked.
3. Proofs of every safety invariant and action property of the passing runs, with the refinement: done.
4. Next: a run of its own for the two disagreements `Portal` excludes by name, the dotted suffixes and the automatic restart on Linux; the hazards without
   a property (two toggles of a schedule, a mark across a change of zone, a row a send-now goroutine tries that a batch processes
   later, a tunnel whose status an old waiter has cleared), each with its steps in the models already.
