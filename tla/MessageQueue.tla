---------------------------- MODULE MessageQueue ----------------------------
(***************************************************************************)
(* The outgoing message queue: the table queue_messages, the one worker    *)
(* goroutine of queue.Manager, the goroutines ProcessImmediate starts, and *)
(* the users who cancel, delete, send now, or change the settings and      *)
(* schedules while those goroutines run.                                   *)
(*                                                                         *)
(* One step is one SQL statement (the store has a single connection, so    *)
(* statements are atomic), one call into the WhatsApp client, or one       *)
(* channel operation.  Between two steps of a goroutine anything else may  *)
(* run, which is what makes its copies of rows and settings stale.         *)
(*                                                                         *)
(* Abstracted: message texts, recipients and owners; the 45 s send timeout *)
(* (one of the ways Send fails); the anti-ban pause after a delivery (a    *)
(* goroutine may wait before any step anyhow); websocket broadcasts.       *)
(***************************************************************************)
EXTENDS Integers, FiniteSets

CONSTANTS
  Messages,      \* ids of queue_messages rows; AUTOINCREMENT never reuses one
  Worker,        \* the goroutine of workerLoop
  Slots,         \* goroutines ProcessImmediate may have at work at a time
  NoJob,         \* a goroutine that holds no copy of a row
  Schedules,     \* schedules that rows may point to
  NoSchedule,    \* schedule_id IS NULL
  ScheduleOf,    \* the schedule_id of each row
  ManualDry,     \* rows enqueued by TriggerScheduleManually(dryRun = true)
  RetryValues,   \* values settings.max_retries takes (the form does not check it)
  DryValues,     \* values settings.global_dry_run takes
  DefaultRetries,\* max_retries when the settings cannot be read (3 in the code)
  BatchLimit,    \* LIMIT of the worker's query (10 in the code)
  ZoneLags,      \* minutes until a row enqueued for now is due, see Enqueue
  MaxFaults      \* bound on stops, restarts and failed SQL statements

Procs == {Worker} \cup Slots

ASSUME QueueAssumption ==
  /\ Worker \notin Slots
  /\ NoSchedule \notin Schedules
  /\ ScheduleOf \in [Messages -> Schedules \cup {NoSchedule}]
  /\ ManualDry \subseteq Messages
  /\ RetryValues \subseteq Int /\ DefaultRetries \in Int
  /\ DryValues \subseteq BOOLEAN
  /\ BatchLimit \in Nat \ {0}
  /\ ZoneLags \subseteq Int
  /\ MaxFaults \in Nat

VARIABLES
  \* columns of queue_messages
  status, retries, limit,
  eta,          \* minutes from now until scheduled_for
  marked,       \* error_message starts with [MANUAL_DRY_RUN]
  \* columns of settings and schedules
  globalDryRun, maxRetries, schedule,
  \* queue.Manager: the trigger channel, stopChan, callers about to signal
  trigger, stopping, signalling,
  \* the goroutines: position, copy of the row, copy of global_dry_run, batch
  pc, job, seenDry, batch,
  \* history: accepted sends per message, messages of which a copy left
  acks, reached,
  faults

rowVars  == <<status, retries, limit, eta, marked>>
confVars == <<globalDryRun, maxRetries, schedule>>
chanVars == <<trigger, stopping, signalling>>
procVars == <<pc, job, seenDry, batch>>
histVars == <<acks, reached>>
vars == <<rowVars, confVars, chanVars, procVars, histVars, faults>>

Final  == {"sent", "failed", "cancelled", "dry_run"}
Status == {"none", "pending", "processing", "deleted"} \cup Final
Limits == RetryValues \cup {DefaultRetries}
Copy   == [id : Messages, retries : Nat, limit : Limits, marked : BOOLEAN, eta : Int]

\* Positions between a successful claim and the write of its outcome.
Holding == {"decide", "simulate", "send", "delivered", "refused"}
PC == {"idle", "fetch", "next", "settings", "claim", "exited"} \cup Holding

-----------------------------------------------------------------------------
Init ==
  /\ status  = [m \in Messages |-> "none"]
  /\ retries = [m \in Messages |-> 0]
  /\ limit   = [m \in Messages |-> DefaultRetries]
  /\ eta     = [m \in Messages |-> 0]
  /\ marked  = [m \in Messages |-> FALSE]
  /\ globalDryRun \in DryValues
  /\ maxRetries \in RetryValues
  /\ schedule \in [Schedules -> {"live", "dry"}]
  /\ trigger = FALSE /\ stopping = FALSE /\ signalling = {}
  /\ pc      = [p \in Procs |-> "idle"]
  /\ job     = [p \in Procs |-> NoJob]
  /\ seenDry = [p \in Procs |-> FALSE]
  /\ batch   = {}
  /\ acks    = [m \in Messages |-> 0]
  /\ reached = {}
  /\ faults  = 0

\* A column after an UPDATE that names its row by id alone: a deleted row is not there.
Stored(f, m, v) == [f EXCEPT ![m] = IF status[m] = "deleted" THEN @ ELSE v]

CopyOf(m) == [id |-> m, retries |-> retries[m], limit |-> limit[m],
              marked |-> marked[m], eta |-> eta[m]]

Goto(p, l) == pc' = [pc EXCEPT ![p] = l]

\* The goroutine is done with its row: the worker takes the next one.
Release(p) == /\ Goto(p, IF p = Worker THEN "next" ELSE "idle")
              /\ job' = [job EXCEPT ![p] = NoJob]
              /\ seenDry' = [seenDry EXCEPT ![p] = IF p = Worker THEN @ ELSE FALSE]

-----------------------------------------------------------------------------
(* Enqueue: by the scheduler, a manual trigger, or the test-send form.     *)

\* GetSettings and the INSERT.  scheduled_for is the time now, but the driver
\* stores the text of a local time and the query compares texts: the scheduler
\* writes the clock of settings.timezone, the worker asks with the clock of the
\* process, and the row is due when the latter shows what the former showed.
Enqueue(m) ==
  /\ status[m] = "none"
  /\ ScheduleOf[m] \in Schedules => schedule[ScheduleOf[m]] # "deleted"
  /\ \/ limit' = [limit EXCEPT ![m] = maxRetries] /\ UNCHANGED faults
     \/ /\ faults < MaxFaults /\ faults' = faults + 1
        /\ limit' = [limit EXCEPT ![m] = DefaultRetries]
  /\ status' = [status EXCEPT ![m] = "pending"]
  /\ \E lag \in ZoneLags : eta' = [eta EXCEPT ![m] = lag]
  /\ marked' = [marked EXCEPT ![m] = m \in ManualDry]
  /\ signalling' = signalling \cup {m}
  /\ UNCHANGED <<retries, confVars, trigger, stopping, procVars, histVars>>

\* Mutant: the channel has no buffer, a signal reaches only a waiting worker.
SignalUnbuffered(m) ==
  /\ m \in signalling
  /\ signalling' = signalling \ {m}
  /\ trigger' = (trigger \/ pc[Worker] = "idle")
  /\ UNCHANGED <<rowVars, confVars, stopping, procVars, histVars, faults>>

\* TriggerProcessing: a send that gives up when the channel is full.
Signal(m) ==
  /\ m \in signalling
  /\ signalling' = signalling \ {m}
  /\ trigger' = TRUE
  /\ UNCHANGED <<rowVars, confVars, stopping, procVars, histVars, faults>>

-----------------------------------------------------------------------------
(* The worker loop.                                                        *)

\* Both start processPending, which reads the settings first.
Wake ==
  /\ pc[Worker] = "idle"
  /\ Goto(Worker, "fetch")
  /\ seenDry' = [seenDry EXCEPT ![Worker] = globalDryRun]
  /\ UNCHANGED <<rowVars, confVars, stopping, signalling, job, batch, histVars, faults>>

WakeByTicker  == Wake /\ UNCHANGED trigger
WakeByTrigger == trigger /\ Wake /\ trigger' = FALSE

\* A closed stopChan is one more ready case of the select, not the only one.
WorkerExit ==
  /\ pc[Worker] = "idle" /\ stopping
  /\ Goto(Worker, "exited")
  /\ UNCHANGED <<rowVars, confVars, chanVars, job, seenDry, batch, histVars, faults>>

Due == {m \in Messages : status[m] = "pending" /\ eta[m] <= 0}

\* The first BatchLimit due rows in order of scheduled_for.
FetchPending ==
  /\ pc[Worker] = "fetch"
  /\ \E B \in SUBSET Due :
       /\ Cardinality(B) <= BatchLimit
       /\ Cardinality(B) = BatchLimit \/ B = Due
       /\ \A a \in B, b \in Due \ B : eta[a] <= eta[b]
       /\ batch' = {CopyOf(m) : m \in B}
  /\ Goto(Worker, "next")
  /\ UNCHANGED <<rowVars, confVars, chanVars, job, seenDry, histVars, faults>>

BatchDone ==
  /\ pc[Worker] = "next" /\ batch = {}
  /\ Goto(Worker, "idle")
  /\ seenDry' = [seenDry EXCEPT ![Worker] = FALSE]
  /\ UNCHANGED <<rowVars, confVars, chanVars, job, batch, histVars, faults>>

\* The loop over the batch does not look at stopChan or at the table.
TakeNext ==
  /\ pc[Worker] = "next"
  /\ \E c \in batch :
       /\ \A d \in batch : c.eta <= d.eta
       /\ job' = [job EXCEPT ![Worker] = c]
       /\ batch' = batch \ {c}
  /\ Goto(Worker, "claim")
  /\ UNCHANGED <<rowVars, confVars, chanVars, seenDry, histVars, faults>>

-----------------------------------------------------------------------------
(* ProcessImmediate: the two reads of the handler, then a goroutine.       *)

SendNow(p, m) ==
  /\ p \in Slots /\ pc[p] = "idle"
  /\ status[m] = "pending"
  /\ job' = [job EXCEPT ![p] = CopyOf(m)]
  /\ Goto(p, "settings")
  /\ UNCHANGED <<rowVars, confVars, chanVars, seenDry, batch, histVars, faults>>

ReadSettings(p) ==
  /\ p \in Slots /\ pc[p] = "settings"
  /\ seenDry' = [seenDry EXCEPT ![p] = globalDryRun]
  /\ Goto(p, "claim")
  /\ UNCHANGED <<rowVars, confVars, chanVars, job, batch, histVars, faults>>

-----------------------------------------------------------------------------
(* processSingleMessage.                                                   *)

\* Mutant: the claim names its row by id alone, as the other updates do.
ClaimableById(m) == status[m] # "deleted"

\* UPDATE ... SET status = 'processing' WHERE id = ? AND status = 'pending'.
Claimable(m) == status[m] = "pending"

Claim(p) ==
  LET m == job[p].id IN
  /\ pc[p] = "claim"
  /\ IF Claimable(m)
     THEN /\ status' = [status EXCEPT ![m] = "processing"]
          /\ Goto(p, "decide")
          /\ UNCHANGED <<job, seenDry>>
     ELSE Release(p) /\ UNCHANGED status
  /\ UNCHANGED <<retries, limit, eta, marked, confVars, chanVars, batch, histVars, faults>>

ScheduleDry(m) == ScheduleOf[m] \in Schedules /\ schedule[ScheduleOf[m]] = "dry"

\* Mutant: only the settings and the schedule count.
IsDryRunUnmarked(p) == seenDry[p] \/ ScheduleDry(job[p].id)

\* The settings and the mark are the copies, the schedule is read now; a row
\* whose schedule is gone or unreadable is sent.
IsDryRun(p) == seenDry[p] \/ job[p].marked \/ ScheduleDry(job[p].id)

Decide(p) ==
  /\ pc[p] = "decide"
  /\ Goto(p, IF IsDryRun(p) THEN "simulate" ELSE "send")
  /\ UNCHANGED <<rowVars, confVars, chanVars, job, seenDry, batch, histVars, faults>>

\* The client returns nil, or an error with or without a copy having left.
Send(p) ==
  LET m == job[p].id IN
  /\ pc[p] = "send"
  /\ \/ /\ Goto(p, "delivered")
        /\ acks' = [acks EXCEPT ![m] = @ + 1]
        /\ reached' = reached \cup {m}
     \/ /\ Goto(p, "refused")
        /\ reached' \in {reached, reached \cup {m}}
        /\ UNCHANGED acks
  /\ UNCHANGED <<rowVars, confVars, chanVars, job, seenDry, batch, faults>>

\* Mutant: the outcome is written to pending rows only, like the claim.
SetStatusIfPending(m, s) ==
  /\ status' = [status EXCEPT ![m] = IF @ = "pending" THEN s ELSE @]
  /\ marked' = [marked EXCEPT ![m] = FALSE]

\* UpdateQueueStatus replaces the status and the error message.
SetStatus(m, s) ==
  /\ status' = Stored(status, m, s)
  /\ marked' = Stored(marked, m, FALSE)

RecordOutcome(p, l, s) ==
  /\ pc[p] = l
  /\ SetStatus(job[p].id, s)
  /\ Release(p)
  /\ UNCHANGED <<retries, limit, eta, confVars, chanVars, batch, histVars, faults>>

RecordDryRun(p) == RecordOutcome(p, "simulate", "dry_run")
RecordSent(p)   == RecordOutcome(p, "delivered", "sent")

\* Mutant: an attempt too few.
RetriesLeftAfter(c) == c.retries + 1 < c.limit

RetriesLeft(c) == c.retries < c.limit

RecordFailed(p) ==
  /\ pc[p] = "refused" /\ ~RetriesLeft(job[p])
  /\ RecordOutcome(p, "refused", "failed")

Backoff(n) == (n + 1) * (n + 1)

\* Mutant: the counter is written from the copy.
CountRetryOfCopy(p) == retries' = Stored(retries, job[p].id, job[p].retries)

CountRetry(p) == retries' = Stored(retries, job[p].id, retries[job[p].id] + 1)

\* Mutant: the status of the state diagram in SYSTEM_DESIGN_AND_FLOWS.md.
WaitsAgainAsDrawn == "retry_pending"

WaitsAgain == "pending"

\* IncrementRetry; the copy decides whether and when, the row counts.
ScheduleRetry(p) ==
  LET m == job[p].id IN
  /\ pc[p] = "refused" /\ RetriesLeft(job[p])
  /\ SetStatus(m, WaitsAgain)
  /\ CountRetry(p)
  /\ eta' = Stored(eta, m, Backoff(job[p].retries))
  /\ Release(p)
  /\ UNCHANGED <<limit, confVars, chanVars, batch, histVars, faults>>

-----------------------------------------------------------------------------
(* Users and time.                                                         *)

\* Mutant: a row can be cancelled until it has a final status.
CancellableUntilFinal(m) == status[m] \in {"pending", "processing"}

Cancellable(m) == status[m] = "pending"

Cancel(m) ==
  /\ Cancellable(m)
  /\ status' = [status EXCEPT ![m] = "cancelled"]
  /\ UNCHANGED <<retries, limit, eta, marked, confVars, chanVars, procVars, histVars, faults>>

Delete(m) ==
  /\ status[m] \notin {"none", "deleted"}
  /\ status' = [status EXCEPT ![m] = "deleted"]
  /\ UNCHANGED <<retries, limit, eta, marked, confVars, chanVars, procVars, histVars, faults>>

SaveSettings(d, n) ==
  /\ globalDryRun' = d /\ maxRetries' = n
  /\ UNCHANGED <<rowVars, schedule, chanVars, procVars, histVars, faults>>

SaveSchedule(s, v) ==
  /\ schedule[s] # "deleted"
  /\ schedule' = [schedule EXCEPT ![s] = v]
  /\ UNCHANGED <<rowVars, globalDryRun, maxRetries, chanVars, procVars, histVars, faults>>

\* A minute passes; it matters only while a row waits for its time.
Tick ==
  /\ \E m \in Messages : status[m] = "pending" /\ eta[m] > 0
  /\ eta' = [m \in Messages |-> IF status[m] = "pending" THEN eta[m] - 1 ELSE eta[m]]
  /\ UNCHANGED <<status, retries, limit, marked, confVars, chanVars, procVars, histVars, faults>>

-----------------------------------------------------------------------------
(* Faults.                                                                 *)

Fault == faults < MaxFaults /\ faults' = faults + 1

\* queueMgr.Stop in the shutdown sequence.
Stop ==
  /\ Fault
  /\ ~stopping /\ stopping' = TRUE
  /\ UNCHANGED <<rowVars, confVars, trigger, signalling, procVars, histVars>>

\* Mutant: the new process takes back the rows the old one had claimed.
RestartTakingBack(f) == [m \in Messages |-> IF f[m] = "processing" THEN "pending" ELSE f[m]]

\* Start does not touch the table.
StatusAtStart(f) == f

\* The process ends, however it ends, and is started again on the same file.
Restart ==
  /\ Fault
  /\ trigger' = FALSE /\ stopping' = FALSE /\ signalling' = {}
  /\ pc' = [p \in Procs |-> "idle"]
  /\ job' = [p \in Procs |-> NoJob]
  /\ seenDry' = [p \in Procs |-> FALSE]
  /\ batch' = {}
  /\ status' = StatusAtStart(status)
  /\ UNCHANGED <<retries, limit, eta, marked, confVars, histVars>>

\* A statement fails: reads and claims give up, the outcome write is ignored,
\* and an unreadable schedule counts as one that is not in dry run.
StoreError(p) ==
  /\ Fault
  /\ \/ pc[p] \in {"settings", "claim", "simulate", "delivered", "refused"} /\ Release(p)
     \/ /\ pc[p] = "fetch" /\ Goto(p, "idle")
        /\ seenDry' = [seenDry EXCEPT ![p] = FALSE] /\ UNCHANGED job
     \/ /\ pc[p] = "decide" /\ ~seenDry[p] /\ ~job[p].marked
        /\ Goto(p, "send") /\ UNCHANGED <<job, seenDry>>
  /\ UNCHANGED <<rowVars, confVars, chanVars, batch, histVars>>

-----------------------------------------------------------------------------
Process(p) == \/ Claim(p) \/ Decide(p) \/ Send(p)
              \/ RecordDryRun(p) \/ RecordSent(p) \/ RecordFailed(p) \/ ScheduleRetry(p)

WorkerTurn == WakeByTrigger \/ FetchPending \/ BatchDone \/ TakeNext \/ Process(Worker)

Next ==
  \/ \E m \in Messages : Enqueue(m) \/ Signal(m) \/ Cancel(m) \/ Delete(m)
  \/ \E p \in Slots, m \in Messages : SendNow(p, m)
  \/ \E p \in Slots : ReadSettings(p)
  \/ WakeByTicker \/ WakeByTrigger \/ WorkerExit \/ FetchPending \/ BatchDone \/ TakeNext
  \/ \E p \in Procs : Process(p)
  \/ \E d \in DryValues, n \in RetryValues : SaveSettings(d, n)
  \/ \E s \in Schedules, v \in {"live", "dry", "deleted"} : SaveSchedule(s, v)
  \/ Tick \/ Stop \/ Restart
  \/ \E p \in Procs : StoreError(p)

Spec == Init /\ [][Next]_vars

\* Goroutines run, callers signal, the ticker of the loop fires, minutes pass.
\* Users need not act, and no send is assumed to succeed.
Fairness ==
  /\ WF_vars(WorkerTurn)
  /\ WF_vars(WakeByTicker)
  /\ \A p \in Slots : WF_vars(ReadSettings(p) \/ Process(p))
  /\ \A m \in Messages : WF_vars(Signal(m))
  /\ WF_vars(Tick)

FairSpec == Spec /\ Fairness

-----------------------------------------------------------------------------
(* Properties.                                                             *)

TypeOK ==
  /\ status \in [Messages -> Status]
  /\ retries \in [Messages -> Nat]
  /\ limit \in [Messages -> Limits]
  /\ eta \in [Messages -> Int]
  /\ marked \in [Messages -> BOOLEAN]
  /\ globalDryRun \in BOOLEAN /\ maxRetries \in RetryValues
  /\ schedule \in [Schedules -> {"live", "dry", "deleted"}]
  /\ trigger \in BOOLEAN /\ stopping \in BOOLEAN
  /\ signalling \subseteq Messages
  /\ pc \in [Procs -> PC]
  /\ job \in [Procs -> Copy \cup {NoJob}]
  /\ seenDry \in [Procs -> BOOLEAN]
  /\ batch \subseteq Copy
  /\ acks \in [Messages -> Nat]
  /\ reached \subseteq Messages
  /\ faults \in 0..MaxFaults

Holds(p, m) == pc[p] \in Holding /\ job[p].id = m
Held == {m \in Messages : \E p \in Procs : Holds(p, m)}

\* Between its claim and the write of its outcome a row is in the hands of one
\* goroutine, however the worker and "send now" interleave (BUG-01).
OneHolder ==
  \A m \in Messages : \A p, q \in Procs : Holds(p, m) /\ Holds(q, m) => p = q

\* A message WhatsApp acknowledged is never handed to it again: not by a second
\* goroutine, not by a retry, not after a restart in the middle.
AckedOnce == \A m \in Messages : acks[m] <= 1

\* What the history page says happened did happen: a row says "sent" only if
\* the send was acknowledged, and an acknowledged message is never shown as
\* waiting, failed, cancelled or simulated.
HistoryIsTrue ==
  \A m \in Messages :
    /\ status[m] = "sent" => acks[m] > 0
    /\ acks[m] > 0 => status[m] \in {"processing", "sent", "deleted"}

\* A manual simulation never leaves the machine, whatever becomes of its row,
\* of the settings and of its schedule.
ManualDryStaysHome == reached \cap ManualDry = {}

\* A row is given up only after its first attempt and all of its retries
\* failed, although the decision is made on a copy of retry_count.
NoEarlyGiveUp == \A m \in Messages : status[m] = "failed" => retries[m] >= limit[m]

\* A row that reached a final status keeps it until it is deleted: outcome
\* writes name the row by id only, and may come late.
FinalStays ==
  [][\A m \in Messages : status[m] \in Final => status'[m] \in {status[m], "deleted"}]_vars

\* A row whose outcome write did not fail is processing only while a goroutine
\* has it: nothing else would ever take it out of that status.
NobodyStrands == \A m \in Messages : status[m] = "processing" => m \in Held \/ faults > 0

\* Without faults every message comes to an end, even if every send fails.
EverythingEnds ==
  \A m \in Messages : (status[m] = "pending") ~> (status[m] \in Final \cup {"deleted"})

\* A new row needs no ticker: its signal is never lost to a worker that is busy
\* or to a full channel.  (Retries, rows beyond BatchLimit, and rows written with
\* a clock ahead of the worker's do need it.)
TriggerSuffices ==
  \A m \in Messages :
    (status[m] = "pending" /\ retries[m] = 0) ~> (status[m] # "pending" \/ retries[m] > 0)

TriggerSpec ==
  /\ Spec
  /\ WF_vars(WorkerTurn)
  /\ \A p \in Slots : WF_vars(ReadSettings(p) \/ Process(p))
  /\ \A m \in Messages : WF_vars(Signal(m))

\* The queue keeps the promises of MessageLifecycle.
Lifecycle == INSTANCE MessageLifecycle WITH
  phase <- status, held <- Held, accepted <- acks

KeepsPromises == Lifecycle!LSpec

-----------------------------------------------------------------------------
(* The inductive strengthening of the safety properties.                   *)

WithCopy == {"settings", "claim"} \cup Holding

\* A goroutine past its read of a row has a copy of it.
HasCopy == \A p \in Procs : pc[p] \in WithCopy => job[p] \in Copy

\* Only the owner of a claim takes a row out of "processing"; users delete it.
HeldRows == \A p \in Procs : pc[p] \in Holding => status[job[p].id] \in {"processing", "deleted"}

\* The holder knows whether its message was acknowledged.
AcksOfHeld ==
  \A p \in Procs : pc[p] \in Holding => acks[job[p].id] = IF pc[p] = "delivered" THEN 1 ELSE 0

\* A copy is of an existing row; its counter lags, its limit does not change.
Lags(c) == /\ status[c.id] # "none"
           /\ c.retries <= retries[c.id] /\ c.limit = limit[c.id]

CopiesLag == /\ \A p \in Procs : pc[p] \in WithCopy => Lags(job[p])
             /\ \A c \in batch : Lags(c)

\* The mark of a manual simulation is on its row while the row can be claimed
\* and on every copy of it, so its goroutines never get to the send.
MarksKept ==
  /\ \A m \in ManualDry : status[m] = "pending" => marked[m]
  /\ \A c \in batch : c.id \in ManualDry => c.marked
  /\ \A p \in Procs : pc[p] \in WithCopy /\ job[p].id \in ManualDry =>
       job[p].marked /\ pc[p] \notin {"send", "delivered", "refused"}

Typed     == TypeOK /\ HasCopy
Exclusive == OneHolder /\ HeldRows
Truthful  == AckedOnce /\ HistoryIsTrue /\ AcksOfHeld
Counted   == CopiesLag /\ NoEarlyGiveUp
AtHome    == MarksKept /\ ManualDryStaysHome

\* The properties above with what makes them inductive.
IInv == Typed /\ Exclusive /\ Truthful /\ Counted /\ AtHome /\ NobodyStrands

-----------------------------------------------------------------------------
(* What the documentation says and the code does not do.                   *)

\* The state diagram: processing ends in sent, failed or a retry.
ProcessingEnds ==
  \A m \in Messages : (status[m] = "processing") ~> (status[m] # "processing")

=============================================================================
