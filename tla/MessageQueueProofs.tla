------------------------- MODULE MessageQueueProofs -------------------------
(***************************************************************************)
(* Proofs about MessageQueue, for any rows, goroutines, settings, batch    *)
(* limit and number of faults.  The inductive invariant IInv is built in   *)
(* layers, each inductive relative to those before it: Typed, Exclusive,   *)
(* Truthful, Counted, AtHome and NobodyStrands.  A layer has a frame lemma *)
(* that says which steps cannot disturb it, and a lemma with one step per  *)
(* action that can.  The safety properties follow from the layers; the     *)
(* last part maps every step to the life cycle of MessageLifecycle.        *)
(***************************************************************************)
EXTENDS MessageQueue, TLAPS

USE QueueAssumption

\* The initial states are well typed, and no goroutine needs a copy yet.
LEMMA TypedInit == Init => Typed
<1> SUFFICES ASSUME Init PROVE Typed
  OBVIOUS
<1>1. /\ status \in [Messages -> Status] /\ limit \in [Messages -> Limits]
      /\ schedule \in [Schedules -> {"live", "dry", "deleted"}]
  BY DEF Init, Status, Limits
<1>2. pc \in [Procs -> PC] /\ job \in [Procs -> Copy \cup {NoJob}] /\ seenDry \in [Procs -> BOOLEAN]
  BY DEF Init, PC
<1>3. HasCopy
  BY DEF Init, HasCopy, WithCopy, Holding
<1>4. globalDryRun \in BOOLEAN /\ faults \in 0..MaxFaults
  BY DEF Init
<1>5. /\ retries \in [Messages -> Nat] /\ eta \in [Messages -> Int] /\ acks \in [Messages -> Nat]
      /\ marked \in [Messages -> BOOLEAN]
  BY DEF Init
<1>6. QED
  BY <1>1, <1>2, <1>3, <1>4, <1>5 DEF Init, Typed, TypeOK

\* Reading a row gives a copy of the right shape.
LEMMA CopyOfType == ASSUME TypeOK, NEW m \in Messages PROVE CopyOf(m) \in Copy
BY DEF TypeOK, CopyOf, Copy

\* A row's limit is a number, so that counters can be compared with it.
LEMMA LimitType == ASSUME NEW n \in Limits PROVE n \in Int
BY DEF Limits

\* What a copy holds, field by field.
LEMMA CopyFields ==
  ASSUME NEW c \in Copy
  PROVE  c.id \in Messages /\ c.retries \in Int /\ c.limit \in Int
<1>1. c.id \in Messages /\ c.retries \in Nat /\ c.limit \in Limits
  BY DEF Copy
<1>2. c.limit \in Int
  BY <1>1, LimitType
<1>3. QED
  BY <1>1, <1>2

\* The backoff is a number of minutes.
LEMMA BackoffType == ASSUME NEW n \in Nat PROVE Backoff(n) \in Int
BY DEF Backoff

\* A fault keeps its counter within the bound.
LEMMA FaultType == TypeOK /\ Fault => faults' \in 0..MaxFaults
BY DEF TypeOK, Fault

\* Every step keeps the types, and no goroutine passes its read without a copy.
LEMMA TypedNext == Typed /\ [Next]_vars => Typed'
<1> SUFFICES ASSUME Typed, [Next]_vars PROVE Typed'
  OBVIOUS
<1> USE DEF Typed, TypeOK, HasCopy, WithCopy, Goto
<1>1. ASSUME NEW m \in Messages, Enqueue(m) PROVE Typed'
  BY <1>1 DEF Enqueue, rowVars, confVars, procVars, histVars, Status, Limits
<1>2. ASSUME NEW m \in Messages, Signal(m) PROVE Typed'
  BY <1>2 DEF Signal, rowVars, confVars, procVars, histVars
<1>3. ASSUME NEW m \in Messages, Cancel(m) PROVE Typed'
  BY <1>3 DEF Cancel, Cancellable, confVars, chanVars, procVars, histVars, Status, Final
<1>4. ASSUME NEW m \in Messages, Delete(m) PROVE Typed'
  BY <1>4 DEF Delete, confVars, chanVars, procVars, histVars, Status
<1>5. ASSUME NEW p \in Slots, NEW m \in Messages, SendNow(p, m) PROVE Typed'
  BY <1>5, CopyOfType DEF SendNow, rowVars, confVars, chanVars, histVars, PC, Procs
<1>6. ASSUME NEW p \in Slots, ReadSettings(p) PROVE Typed'
  BY <1>6 DEF ReadSettings, rowVars, confVars, chanVars, histVars, PC, Procs
<1>7. CASE WakeByTicker \/ WakeByTrigger
  BY <1>7 DEF WakeByTicker, WakeByTrigger, Wake, rowVars, confVars, histVars, PC, Procs, Holding
<1>8. CASE WorkerExit
  BY <1>8 DEF WorkerExit, rowVars, confVars, chanVars, histVars, PC, Procs, Holding
<1>9. CASE FetchPending
  BY <1>9, CopyOfType DEF FetchPending, rowVars, confVars, chanVars, histVars, PC, Procs, Holding, Due
<1>10. CASE BatchDone
  BY <1>10 DEF BatchDone, rowVars, confVars, chanVars, histVars, PC, Procs, Holding
<1>11. CASE TakeNext
  BY <1>11 DEF TakeNext, rowVars, confVars, chanVars, histVars, PC, Procs
<1>12. ASSUME NEW p \in Procs, Claim(p) PROVE Typed'
  <2>1. status' \in [Messages -> Status]
    BY <1>12 DEF Claim, Status
  <2>2. pc' \in [Procs -> PC] /\ job' \in [Procs -> Copy \cup {NoJob}] /\ seenDry' \in [Procs -> BOOLEAN]
    BY <1>12 DEF Claim, Release, PC, Holding
  <2>3. HasCopy'
    BY <1>12 DEF Claim, Release, Holding
  <2>4. QED
    BY <1>12, <2>1, <2>2, <2>3 DEF Claim, confVars, chanVars, histVars
<1>13. ASSUME NEW p \in Procs, Decide(p) PROVE Typed'
  BY <1>13 DEF Decide, rowVars, confVars, chanVars, histVars, PC, Holding
<1>14. ASSUME NEW p \in Procs, Send(p) PROVE Typed'
  BY <1>14 DEF Send, rowVars, confVars, chanVars, PC, Holding, Copy
<1>15. ASSUME NEW p \in Procs, NEW l \in Holding, NEW s \in Status, RecordOutcome(p, l, s) PROVE Typed'
  BY <1>15 DEF RecordOutcome, SetStatus, Stored, Release, confVars, chanVars, histVars, PC, Holding, Status
<1>16. ASSUME NEW p \in Procs, ScheduleRetry(p) PROVE Typed'
  <2>1. job[p].id \in Messages /\ Backoff(job[p].retries) \in Int
    BY <1>16, BackoffType DEF ScheduleRetry, Holding, Copy
  <2>2. retries' \in [Messages -> Nat] /\ eta' \in [Messages -> Int]
    BY <1>16, <2>1 DEF ScheduleRetry, CountRetry, Stored
  <2>3. status' \in [Messages -> Status] /\ marked' \in [Messages -> BOOLEAN]
    BY <1>16 DEF ScheduleRetry, SetStatus, WaitsAgain, Stored, Status
  <2>4. /\ pc' \in [Procs -> PC] /\ job' \in [Procs -> Copy \cup {NoJob}]
        /\ seenDry' \in [Procs -> BOOLEAN] /\ HasCopy'
    BY <1>16 DEF ScheduleRetry, Release, PC, Holding
  <2>5. QED
    BY <1>16, <2>2, <2>3, <2>4 DEF ScheduleRetry, confVars, chanVars, histVars
<1>17. ASSUME NEW d \in DryValues, NEW n \in RetryValues, SaveSettings(d, n) PROVE Typed'
  BY <1>17 DEF SaveSettings, rowVars, chanVars, procVars, histVars
<1>18. ASSUME NEW s \in Schedules, NEW v \in {"live", "dry", "deleted"}, SaveSchedule(s, v) PROVE Typed'
  BY <1>18 DEF SaveSchedule, rowVars, chanVars, procVars, histVars
<1>19. CASE Tick
  BY <1>19 DEF Tick, confVars, chanVars, procVars, histVars
<1>20. CASE Stop
  BY <1>20 DEF Stop, Fault, rowVars, confVars, procVars, histVars
<1>21. CASE Restart
  <2>1. faults' \in 0..MaxFaults
    BY <1>21, FaultType DEF Restart
  <2>2. pc' \in [Procs -> PC] /\ job' \in [Procs -> Copy \cup {NoJob}] /\ seenDry' \in [Procs -> BOOLEAN]
    BY <1>21 DEF Restart, PC
  <2>3. HasCopy'
    BY <1>21 DEF Restart, Holding
  <2>4. QED
    BY <1>21, <2>1, <2>2, <2>3 DEF Restart, StatusAtStart, confVars, histVars
<1>22. ASSUME NEW p \in Procs, StoreError(p) PROVE Typed'
  <2>1. faults' \in 0..MaxFaults
    BY <1>22, FaultType DEF StoreError
  <2>2. pc' \in [Procs -> PC] /\ job' \in [Procs -> Copy \cup {NoJob}] /\ seenDry' \in [Procs -> BOOLEAN]
    BY <1>22 DEF StoreError, Release, PC, Holding
  <2>3. HasCopy'
    BY <1>22 DEF StoreError, Release, Holding
  <2>4. QED
    BY <1>22, <2>1, <2>2, <2>3 DEF StoreError, rowVars, confVars, chanVars, histVars
<1>23. CASE UNCHANGED vars
  BY <1>23 DEF vars, rowVars, confVars, chanVars, procVars, histVars
<1>24. QED
  BY <1>1, <1>2, <1>3, <1>4, <1>5, <1>6, <1>7, <1>8, <1>9, <1>10, <1>11, <1>12, <1>13, <1>14, <1>15,
     <1>16, <1>17, <1>18, <1>19, <1>20, <1>21, <1>22, <1>23
     DEF Next, Process, RecordDryRun, RecordSent, RecordFailed, Status, Final, Holding

\* A goroutine that is done with its row has no copy, the others keep theirs.
LEMMA AfterRelease ==
  ASSUME Typed, NEW p \in Procs, Release(p)
  PROVE  /\ pc'[p] \notin WithCopy
         /\ \A q \in Procs \ {p} : pc'[q] = pc[q] /\ job'[q] = job[q]
BY DEF Typed, TypeOK, Release, Goto, WithCopy, Holding

-----------------------------------------------------------------------------
core == <<status, retries, limit, marked, pc, job, batch, acks, reached>>

\* A step changes nothing the layers speak of, or is one of the actions that do.
LEMMA StepCases ==
  ASSUME [Next]_vars
  PROVE  \/ UNCHANGED core /\ faults' \in {faults, faults + 1}
         \/ \E m \in Messages : Enqueue(m) \/ Cancel(m) \/ Delete(m)
         \/ \E p \in Slots, m \in Messages : SendNow(p, m)
         \/ \E p \in Slots : ReadSettings(p)
         \/ Wake \/ WorkerExit \/ FetchPending \/ BatchDone \/ TakeNext
         \/ \E p \in Procs : Claim(p) \/ Decide(p) \/ Send(p) \/ StoreError(p)
         \/ \E p \in Procs : \/ RecordOutcome(p, "simulate", "dry_run")
                             \/ RecordOutcome(p, "delivered", "sent")
                             \/ RecordFailed(p) \/ ScheduleRetry(p)
         \/ Restart
<1>1. ASSUME NEW m \in Messages, Signal(m) PROVE UNCHANGED core /\ UNCHANGED faults
  BY <1>1 DEF Signal, core, rowVars, procVars, histVars
<1>2. ASSUME NEW d, NEW n, SaveSettings(d, n) PROVE UNCHANGED core /\ UNCHANGED faults
  BY <1>2 DEF SaveSettings, core, rowVars, procVars, histVars
<1>3. ASSUME NEW s, NEW v, SaveSchedule(s, v) PROVE UNCHANGED core /\ UNCHANGED faults
  BY <1>3 DEF SaveSchedule, core, rowVars, procVars, histVars
<1>4. CASE Tick \/ Stop \/ UNCHANGED vars
  BY <1>4 DEF Tick, Stop, Fault, vars, core, rowVars, procVars, histVars
<1>5. QED
  BY <1>1, <1>2, <1>3, <1>4 DEF Next, Process, WakeByTicker, WakeByTrigger, RecordDryRun, RecordSent

-----------------------------------------------------------------------------

\* A holder's copy names a row.
LEMMA HolderHasRow ==
  ASSUME Typed, NEW p \in Procs, pc[p] \in Holding
  PROVE  job[p].id \in Messages
BY DEF Typed, HasCopy, WithCopy, Copy

\* What a step must leave alone to keep Exclusive: the holders' rows.
LEMMA FewerHolders ==
  ASSUME Typed, Exclusive,
         \A q \in Procs : pc'[q] \in Holding => pc[q] \in Holding /\ job'[q].id = job[q].id,
         \A q \in Procs : pc'[q] \in Holding =>
            status'[job[q].id] \in {status[job[q].id], "deleted"}
  PROVE  Exclusive'
BY DEF Exclusive, OneHolder, HeldRows, Holds

\* Every step keeps claims exclusive: only Claim adds a holder, and it needs a row nobody holds.
LEMMA ExclusiveNext == Typed /\ Exclusive /\ [Next]_vars => Exclusive'
<1> SUFFICES ASSUME Typed, Exclusive, [Next]_vars PROVE Exclusive'
  OBVIOUS
<1>0. /\ status \in [Messages -> Status] /\ pc \in [Procs -> PC]
      /\ job \in [Procs -> Copy \cup {NoJob}]
      /\ \A q \in Procs : pc[q] \in Holding =>
            job[q].id \in Messages /\ status[job[q].id] \in {"processing", "deleted"}
  BY HolderHasRow DEF Typed, TypeOK, Exclusive, HeldRows
<1> USE <1>0, FewerHolders DEF Goto
<1>1. CASE UNCHANGED core
  BY <1>1 DEF core
<1>2. ASSUME NEW m \in Messages, Enqueue(m) \/ Cancel(m) \/ Delete(m) PROVE Exclusive'
  BY <1>2 DEF Enqueue, Cancel, Cancellable, Delete, procVars
<1>3. ASSUME NEW p \in Slots, NEW m \in Messages, SendNow(p, m) PROVE Exclusive'
  BY <1>3 DEF SendNow, rowVars, Procs, Holding
<1>4. ASSUME NEW p \in Slots, ReadSettings(p) PROVE Exclusive'
  BY <1>4 DEF ReadSettings, rowVars, Procs, Holding
<1>5. CASE Wake \/ WorkerExit \/ FetchPending \/ BatchDone \/ TakeNext
  BY <1>5 DEF Wake, WorkerExit, FetchPending, BatchDone, TakeNext, rowVars, Procs, Holding
<1>6. ASSUME NEW p \in Procs, Claim(p) PROVE Exclusive'
  <2>1. CASE Claimable(job[p].id)
    <3>1. \A q \in Procs : pc[q] \in Holding => job[q].id # job[p].id
      BY <2>1 DEF Claimable
    <3>2. /\ status' = [status EXCEPT ![job[p].id] = "processing"]
          /\ pc' = [pc EXCEPT ![p] = "decide"] /\ UNCHANGED job
      BY <1>6, <2>1 DEF Claim
    <3>3. job[p].id \in Messages
      BY <1>6 DEF Claim, Typed, HasCopy, WithCopy, Copy
    <3>4. QED
      BY <3>1, <3>2, <3>3 DEF Exclusive, OneHolder, HeldRows, Holds
  <2>2. CASE ~Claimable(job[p].id)
    BY <1>6, <2>2 DEF Claim, Release, Holding
  <2>3. QED
    BY <2>1, <2>2
<1>7. ASSUME NEW p \in Procs, Decide(p) \/ Send(p) PROVE Exclusive'
  BY <1>7 DEF Decide, Send, rowVars, Holding
<1>8. ASSUME NEW p \in Procs, StoreError(p) PROVE Exclusive'
  BY <1>8 DEF StoreError, Release, rowVars, Holding
<1>9. ASSUME NEW p \in Procs, NEW s, pc[p] \in Holding, SetStatus(job[p].id, s), Release(p)
      PROVE  Exclusive'
  <2>1. \A q \in Procs \ {p} : pc[q] \in Holding => job[q].id # job[p].id
    BY <1>9 DEF Exclusive, OneHolder, Holds
  <2>2. QED
    BY <1>9, <2>1 DEF SetStatus, Stored, Release, Holding
<1>10. CASE Restart
  BY <1>10 DEF Restart, StatusAtStart, Holding
<1>11. ASSUME NEW p \in Procs, RecordFailed(p) \/ ScheduleRetry(p) PROVE Exclusive'
  BY <1>11, <1>9 DEF RecordFailed, RecordOutcome, ScheduleRetry, Holding
<1>12. ASSUME NEW p \in Procs, NEW l \in Holding, NEW s, RecordOutcome(p, l, s) PROVE Exclusive'
  BY <1>12, <1>9 DEF RecordOutcome
<1>13. QED
  BY <1>1, <1>2, <1>3, <1>4, <1>5, <1>6, <1>7, <1>8, <1>10, <1>11, <1>12, StepCases DEF Holding

-----------------------------------------------------------------------------

\* A step without an acknowledgement may change only what agrees with the count.
LEMMA NoNewAck ==
  ASSUME Typed, Truthful, UNCHANGED acks,
         \A q \in Procs : pc'[q] \in Holding =>
            /\ pc[q] \in Holding /\ job'[q].id = job[q].id
            /\ pc'[q] = "delivered" => pc[q] = "delivered"
            /\ pc[q] = "delivered" => pc'[q] = "delivered",
         \A m \in Messages : status'[m] = "sent" => status[m] = "sent" \/ acks[m] > 0,
         \A m \in Messages : acks[m] > 0 => status'[m] \in {status[m], "sent", "deleted"}
  PROVE  Truthful'
BY DEF Typed, TypeOK, Truthful, AckedOnce, HistoryIsTrue, AcksOfHeld

\* Every step keeps the record true: only the sole holder acknowledges, once, and then writes "sent".
LEMMA TruthfulNext == Typed /\ Exclusive /\ Truthful /\ [Next]_vars => Truthful'
<1> SUFFICES ASSUME Typed, Exclusive, Truthful, [Next]_vars PROVE Truthful'
  OBVIOUS
<1>0. /\ status \in [Messages -> Status] /\ acks \in [Messages -> Nat]
      /\ pc \in [Procs -> PC] /\ job \in [Procs -> Copy \cup {NoJob}]
      /\ \A q \in Procs : pc[q] \in Holding =>
            job[q].id \in Messages /\ acks[job[q].id] = IF pc[q] = "delivered" THEN 1 ELSE 0
      /\ \A m \in Messages : status[m] \in {"none", "pending"} => acks[m] = 0
  BY HolderHasRow DEF Typed, TypeOK, Truthful, AcksOfHeld, HistoryIsTrue
<1> USE <1>0, NoNewAck DEF Goto
<1>1. CASE UNCHANGED core
  BY <1>1 DEF core
<1>2. ASSUME NEW m \in Messages, Enqueue(m) \/ Cancel(m) \/ Delete(m) PROVE Truthful'
  BY <1>2 DEF Enqueue, Cancel, Cancellable, Delete, procVars, histVars
<1>3. ASSUME NEW p \in Slots, NEW m \in Messages, SendNow(p, m) PROVE Truthful'
  BY <1>3 DEF SendNow, rowVars, histVars, Procs, Holding
<1>4. ASSUME NEW p \in Slots, ReadSettings(p) PROVE Truthful'
  BY <1>4 DEF ReadSettings, rowVars, histVars, Procs, Holding
<1>5. CASE Wake \/ WorkerExit \/ FetchPending \/ BatchDone \/ TakeNext
  BY <1>5 DEF Wake, WorkerExit, FetchPending, BatchDone, TakeNext, rowVars, histVars, Procs, Holding
<1>6. ASSUME NEW p \in Procs, Claim(p) PROVE Truthful'
  <2>1. CASE Claimable(job[p].id)
    <3>1. /\ status' = [status EXCEPT ![job[p].id] = "processing"]
          /\ pc' = [pc EXCEPT ![p] = "decide"] /\ UNCHANGED <<job, acks>>
      BY <1>6, <2>1 DEF Claim, histVars
    <3>2. job[p].id \in Messages /\ acks[job[p].id] = 0
      BY <1>6, <2>1 DEF Claim, Claimable, Typed, HasCopy, WithCopy, Copy
    <3>3. QED
      BY <3>1, <3>2 DEF Truthful, AckedOnce, HistoryIsTrue, AcksOfHeld
  <2>2. CASE ~Claimable(job[p].id)
    BY <1>6, <2>2 DEF Claim, Release, histVars, Holding
  <2>3. QED
    BY <2>1, <2>2
<1>7. ASSUME NEW p \in Procs, Decide(p) PROVE Truthful'
  BY <1>7 DEF Decide, rowVars, histVars, Holding
<1>8. ASSUME NEW p \in Procs, Send(p) PROVE Truthful'
  <2>1. CASE UNCHANGED acks
    BY <1>8, <2>1 DEF Send, rowVars, Holding
  <2>2. CASE acks' # acks
    <3>1. /\ acks' = [acks EXCEPT ![job[p].id] = acks[job[p].id] + 1]
          /\ pc' = [pc EXCEPT ![p] = "delivered"] /\ UNCHANGED <<status, job>>
      BY <1>8, <2>2 DEF Send, rowVars
    <3>2. acks[job[p].id] = 0 /\ status[job[p].id] \in {"processing", "deleted"}
      BY <1>8 DEF Send, Holding, Exclusive, HeldRows
    <3>3. \A q \in Procs \ {p} : pc[q] \in Holding => job[q].id # job[p].id
      BY <1>8 DEF Send, Exclusive, OneHolder, Holds, Holding
    <3>4. acks'[job[p].id] = 1 /\ \A m \in Messages \ {job[p].id} : acks'[m] = acks[m]
      BY <1>8, <3>1, <3>2 DEF Send, Holding
    <3>5. AckedOnce' /\ HistoryIsTrue'
      BY <3>1, <3>2, <3>4 DEF Truthful, AckedOnce, HistoryIsTrue
    <3>6. AcksOfHeld'
      BY <3>1, <3>3, <3>4 DEF AcksOfHeld, Holding
    <3>7. QED
      BY <3>5, <3>6 DEF Truthful
  <2>3. QED
    BY <2>1, <2>2
<1>9. ASSUME NEW p \in Procs, StoreError(p) PROVE Truthful'
  BY <1>9 DEF StoreError, Release, rowVars, histVars, Holding
<1>10. ASSUME NEW p \in Procs, NEW s, pc[p] \in Holding,
              s = "sent" => pc[p] = "delivered", pc[p] = "delivered" => s = "sent",
              SetStatus(job[p].id, s), Release(p), UNCHANGED acks
       PROVE  Truthful'
  <2>1. acks[job[p].id] = IF s = "sent" THEN 1 ELSE 0
    BY <1>10
  <2>2. \A m \in Messages \ {job[p].id} : status'[m] = status[m]
    BY <1>10 DEF SetStatus, Stored
  <2>3. status'[job[p].id] \in {s, "deleted"}
    BY <1>10 DEF SetStatus, Stored
  <2>4. \A q \in Procs : pc'[q] \in Holding => q # p
    BY <1>10 DEF Release, Holding
  <2>5. \A q \in Procs \ {p} : pc'[q] = pc[q] /\ job'[q] = job[q]
    BY <1>10 DEF Release
  <2>6. QED
    BY <1>10, <2>1, <2>2, <2>3, <2>4, <2>5
<1>11. ASSUME NEW p \in Procs, RecordFailed(p) \/ ScheduleRetry(p) PROVE Truthful'
  <2>1. /\ pc[p] \in Holding /\ pc[p] # "delivered"
        /\ Release(p) /\ UNCHANGED acks
    BY <1>11 DEF RecordFailed, RecordOutcome, ScheduleRetry, histVars, Holding
  <2>2. SetStatus(job[p].id, "failed") \/ SetStatus(job[p].id, "pending")
    BY <1>11 DEF RecordFailed, RecordOutcome, ScheduleRetry, WaitsAgain
  <2>3. QED
    <3>1. CASE SetStatus(job[p].id, "failed")
      BY <2>1, <3>1, <1>10
    <3>2. CASE SetStatus(job[p].id, "pending")
      BY <2>1, <3>2, <1>10
    <3>3. QED
      BY <2>2, <3>1, <3>2
<1>12. ASSUME NEW p \in Procs, RecordOutcome(p, "simulate", "dry_run") PROVE Truthful'
  <2>1. pc[p] \in Holding /\ SetStatus(job[p].id, "dry_run") /\ Release(p) /\ UNCHANGED acks
    BY <1>12 DEF RecordOutcome, histVars, Holding
  <2>2. pc[p] # "delivered" 
    BY <1>12 DEF RecordOutcome
  <2>3. QED
    BY <2>1, <2>2, <1>10
<1>12a. ASSUME NEW p \in Procs, RecordOutcome(p, "delivered", "sent") PROVE Truthful'
  BY <1>12a, <1>10 DEF RecordOutcome, histVars, Holding
<1>13. CASE Restart
  BY <1>13 DEF Restart, StatusAtStart, histVars, Holding
<1>14. QED
  BY <1>1, <1>2, <1>3, <1>4, <1>5, <1>6, <1>7, <1>8, <1>9, <1>11, <1>12, <1>12a, <1>13, StepCases

-----------------------------------------------------------------------------

\* Where the copies of a state may come from, and what its rows may do to them.
LEMMA CopiesKeepLagging ==
  ASSUME Typed, Counted,
         \A m \in Messages : status[m] # "none" =>
            status'[m] # "none" /\ retries'[m] >= retries[m] /\ limit'[m] = limit[m],
         \A m \in Messages : retries'[m] \in Nat,
         \A m \in Messages : status'[m] = "failed" /\ status[m] # "failed" =>
            status[m] # "none" /\ retries[m] >= limit[m],
         \A c : (c \in batch' \/ \E q \in Procs : pc'[q] \in WithCopy /\ job'[q] = c) =>
            \/ c \in batch
            \/ \E q \in Procs : pc[q] \in WithCopy /\ job[q] = c
            \/ \E m \in Messages : status[m] # "none" /\ c = CopyOf(m)
  PROVE  Counted'
<1>1. ASSUME NEW c, c \in batch' \/ \E q \in Procs : pc'[q] \in WithCopy /\ job'[q] = c
      PROVE  c \in Copy /\ Lags(c)
  <2>1. ASSUME NEW m \in Messages, status[m] # "none", c = CopyOf(m) PROVE c \in Copy /\ Lags(c)
    BY <2>1, CopyOfType DEF Typed, TypeOK, CopyOf, Lags
  <2>2. QED
    BY <1>1, <2>1 DEF Counted, CopiesLag, Typed, TypeOK, HasCopy
<1>2. ASSUME NEW c \in Copy, Lags(c) PROVE Lags(c)'
  BY <1>2 DEF Lags, Copy, Typed, TypeOK
<1>3. CopiesLag'
  BY <1>1, <1>2 DEF CopiesLag
<1>4. NoEarlyGiveUp'
  <2> SUFFICES ASSUME NEW m \in Messages, status'[m] = "failed" PROVE retries'[m] >= limit'[m]
    BY DEF NoEarlyGiveUp
  <2>1. status[m] # "none" /\ retries[m] >= limit[m]
    BY DEF Counted, NoEarlyGiveUp
  <2>2. retries'[m] >= retries[m] /\ limit'[m] = limit[m]
    BY <2>1
  <2>3. retries[m] \in Int /\ retries'[m] \in Int
    BY DEF Typed, TypeOK
  <2>4. limit[m] \in Int
    BY LimitType DEF Typed, TypeOK
  <2>5. QED
    BY <2>1, <2>2, <2>3, <2>4
<1>5. QED
  BY <1>3, <1>4 DEF Counted

\* Every step keeps copies behind their rows, so a row is given up only when its own counter is used up.
LEMMA CountedNext == Typed /\ Exclusive /\ Counted /\ [Next]_vars => Counted'
<1> SUFFICES ASSUME Typed, Exclusive, Counted, [Next]_vars PROVE Counted'
  OBVIOUS
<1>0. /\ status \in [Messages -> Status] /\ limit \in [Messages -> Limits]
      /\ retries \in [Messages -> Nat]
      /\ pc \in [Procs -> PC] /\ job \in [Procs -> Copy \cup {NoJob}]
  BY DEF Typed, TypeOK
<1> USE <1>0, CopiesKeepLagging DEF Goto
<1>1. CASE UNCHANGED core
  BY <1>1 DEF core
<1>2. ASSUME NEW m \in Messages, Enqueue(m) \/ Cancel(m) \/ Delete(m) PROVE Counted'
  BY <1>2 DEF Enqueue, Cancel, Cancellable, Delete, procVars
<1>3. ASSUME NEW p \in Slots, NEW m \in Messages, SendNow(p, m) PROVE Counted'
  BY <1>3 DEF SendNow, rowVars, Procs, WithCopy, Holding
<1>4. ASSUME NEW p \in Slots, ReadSettings(p) PROVE Counted'
  BY <1>4 DEF ReadSettings, rowVars, Procs, WithCopy, Holding
<1>5. CASE Wake \/ WorkerExit \/ BatchDone
  BY <1>5 DEF Wake, WorkerExit, BatchDone, rowVars, Procs, WithCopy, Holding
<1>6. CASE FetchPending
  BY <1>6 DEF FetchPending, Due, rowVars, Procs, WithCopy, Holding
<1>7. CASE TakeNext
  BY <1>7 DEF TakeNext, rowVars, Procs, WithCopy, Holding
<1>8. ASSUME NEW p \in Procs, Claim(p) PROVE Counted'
  <2>1. \A q \in Procs : pc'[q] \in WithCopy => pc[q] \in WithCopy /\ job'[q] = job[q]
    BY <1>8, AfterRelease DEF Claim, WithCopy, Holding
  <2>2. QED
    BY <1>8, <2>1 DEF Claim, Claimable
<1>9. ASSUME NEW p \in Procs, Decide(p) \/ Send(p) PROVE Counted'
  BY <1>9 DEF Decide, Send, rowVars, WithCopy, Holding
<1>10. ASSUME NEW p \in Procs, StoreError(p) PROVE Counted'
  <2>1. \A q \in Procs : pc'[q] \in WithCopy => pc[q] \in WithCopy /\ job'[q] = job[q]
    BY <1>10, AfterRelease DEF StoreError, WithCopy, Holding
  <2>2. QED
    BY <1>10, <2>1 DEF StoreError, rowVars
<1>11. ASSUME NEW p \in Procs, NEW l, NEW s \in {"dry_run", "sent"}, RecordOutcome(p, l, s) PROVE Counted'
  BY <1>11 DEF RecordOutcome, SetStatus, Stored, Release, WithCopy, Holding
<1>12. ASSUME NEW p \in Procs, RecordFailed(p) PROVE Counted'
  <2>1. \A q \in Procs : pc'[q] \in WithCopy => pc[q] \in WithCopy /\ job'[q] = job[q]
    BY <1>12, AfterRelease DEF RecordFailed, RecordOutcome
  <2>2. job[p] \in Copy /\ Lags(job[p]) /\ ~(job[p].retries < job[p].limit)
    BY <1>12 DEF RecordFailed, RetriesLeft, WithCopy, Holding, Counted, CopiesLag, Typed, HasCopy
  <2>2a. job[p].id \in Messages /\ job[p].retries \in Int /\ job[p].limit \in Int
    BY <2>2, CopyFields
  <2>2b. retries[job[p].id] \in Int /\ limit[job[p].id] \in Limits
    BY <2>2a
  <2>2c. limit[job[p].id] \in Int
    BY <2>2b, LimitType
  <2>3. status[job[p].id] # "none" /\ retries[job[p].id] >= limit[job[p].id]
    BY <2>2, <2>2a, <2>2b, <2>2c DEF Lags
  <2>4. \A m \in Messages : /\ status'[m] = "failed" /\ status[m] # "failed" => m = job[p].id
                            /\ status[m] # "none" => status'[m] # "none"
    BY <1>12 DEF RecordFailed, RecordOutcome, SetStatus, Stored
  <2>5. UNCHANGED <<retries, limit, batch>>
    BY <1>12 DEF RecordFailed, RecordOutcome
  <2>6. \A m \in Messages : status[m] # "none" =>
          status'[m] # "none" /\ retries'[m] >= retries[m] /\ limit'[m] = limit[m]
    BY <2>4, <2>5
  <2>7. \A m \in Messages : status'[m] = "failed" /\ status[m] # "failed" =>
          status[m] # "none" /\ retries[m] >= limit[m]
    BY <2>3, <2>4
  <2>8. QED
    BY <2>1, <2>5, <2>6, <2>7
<1>13. ASSUME NEW p \in Procs, ScheduleRetry(p) PROVE Counted'
  BY <1>13 DEF ScheduleRetry, CountRetry, WaitsAgain, SetStatus, Stored, Release, WithCopy, Holding
<1>14. CASE Restart
  BY <1>14 DEF Restart, StatusAtStart, WithCopy, Holding
<1>15. QED
  BY <1>1, <1>2, <1>3, <1>4, <1>5, <1>6, <1>7, <1>8, <1>9, <1>10, <1>11, <1>12, <1>13, <1>14, StepCases

-----------------------------------------------------------------------------
Past == {"send", "delivered", "refused"}

\* Marks go from rows to copies, and keep goroutines away from the send.
LEMMA MarksTravel ==
  ASSUME Typed, AtHome,
         \A m \in ManualDry : m \in reached' => m \in reached,
         \A m \in ManualDry : status'[m] = "pending" => marked'[m],
         \A c : (c \in batch' \/ \E q \in Procs : pc'[q] \in WithCopy /\ job'[q] = c) =>
            \/ c \in batch
            \/ \E q \in Procs : pc[q] \in WithCopy /\ job[q] = c
            \/ \E m \in Messages : status[m] = "pending" /\ c = CopyOf(m),
         \A q \in Procs : pc'[q] \in Past =>
            \/ pc[q] \in Past /\ job'[q] = job[q]
            \/ ~job'[q].marked
  PROVE  AtHome'
<1>1. ASSUME NEW c, c \in batch' \/ \E q \in Procs : pc'[q] \in WithCopy /\ job'[q] = c,
             c.id \in ManualDry
      PROVE  c.marked
  BY <1>1 DEF AtHome, MarksKept, CopyOf
<1>2. ASSUME NEW q \in Procs, pc'[q] \in WithCopy, job'[q].id \in ManualDry
      PROVE  job'[q].marked /\ pc'[q] \notin Past
  <2>1. job'[q].marked
    BY <1>1, <1>2
  <2>2. QED
    BY <1>2, <2>1 DEF AtHome, MarksKept, Past, WithCopy, Holding
<1>3. MarksKept'
  BY <1>1, <1>2 DEF MarksKept, Past
<1>4. ManualDryStaysHome'
  BY DEF AtHome, ManualDryStaysHome
<1>5. QED
  BY <1>3, <1>4 DEF AtHome

\* Every step keeps manual simulations marked, from the row through its copies to the decision.
LEMMA AtHomeNext == Typed /\ AtHome /\ [Next]_vars => AtHome'
<1> SUFFICES ASSUME Typed, AtHome, [Next]_vars PROVE AtHome'
  OBVIOUS
<1>0. /\ status \in [Messages -> Status] /\ marked \in [Messages -> BOOLEAN]
      /\ pc \in [Procs -> PC] /\ job \in [Procs -> Copy \cup {NoJob}]
      /\ \A m \in ManualDry : m \in Messages /\ (status[m] = "pending" => marked[m])
  BY DEF Typed, TypeOK, AtHome, MarksKept
<1> USE <1>0, MarksTravel DEF Goto
<1>1. CASE UNCHANGED core
  BY <1>1 DEF core
<1>2. ASSUME NEW m \in Messages, Enqueue(m) \/ Cancel(m) \/ Delete(m) PROVE AtHome'
  BY <1>2 DEF Enqueue, Cancel, Cancellable, Delete, procVars, histVars
<1>3. ASSUME NEW p \in Slots, NEW m \in Messages, SendNow(p, m) PROVE AtHome'
  BY <1>3 DEF SendNow, rowVars, histVars, Procs, WithCopy, Holding, Past
<1>4. ASSUME NEW p \in Slots, ReadSettings(p) PROVE AtHome'
  BY <1>4 DEF ReadSettings, rowVars, histVars, Procs, WithCopy, Holding, Past
<1>5. CASE Wake \/ WorkerExit \/ BatchDone
  BY <1>5 DEF Wake, WorkerExit, BatchDone, rowVars, histVars, Procs, WithCopy, Holding, Past
<1>6. CASE FetchPending
  BY <1>6 DEF FetchPending, Due, rowVars, histVars, Procs, WithCopy, Holding, Past
<1>7. CASE TakeNext
  BY <1>7 DEF TakeNext, rowVars, histVars, Procs, WithCopy, Holding, Past
<1>8. ASSUME NEW p \in Procs, Claim(p) PROVE AtHome'
  <2>1. \A q \in Procs : pc'[q] \in WithCopy => pc[q] \in WithCopy /\ job'[q] = job[q]
    BY <1>8, AfterRelease DEF Claim, WithCopy, Holding
  <2>2. \A q \in Procs : pc'[q] \in Past => pc[q] \in Past /\ job'[q] = job[q]
    BY <1>8, AfterRelease DEF Claim, WithCopy, Holding, Past
  <2>3. QED
    BY <1>8, <2>1, <2>2 DEF Claim, Claimable, histVars
<1>9. ASSUME NEW p \in Procs, Decide(p) PROVE AtHome'
  BY <1>9 DEF Decide, IsDryRun, rowVars, histVars, WithCopy, Holding, Past
<1>10. ASSUME NEW p \in Procs, Send(p) PROVE AtHome'
  <2>1. job[p].id \notin ManualDry
    BY <1>10 DEF Send, AtHome, MarksKept, WithCopy, Holding
  <2>2. QED
    BY <1>10, <2>1 DEF Send, rowVars, WithCopy, Holding, Past
<1>11. ASSUME NEW p \in Procs, StoreError(p) PROVE AtHome'
  <2>1. \A q \in Procs : pc'[q] \in WithCopy => pc[q] \in WithCopy /\ job'[q] = job[q]
    BY <1>11, AfterRelease DEF StoreError, WithCopy, Holding
  <2>2. \A q \in Procs : pc'[q] \in Past =>
          (pc[q] \in Past /\ job'[q] = job[q]) \/ ~job'[q].marked
    BY <1>11, AfterRelease DEF StoreError, WithCopy, Holding, Past
  <2>3. QED
    BY <1>11, <2>1, <2>2 DEF StoreError, rowVars, histVars
<1>12. ASSUME NEW p \in Procs, NEW s, SetStatus(job[p].id, s), Release(p),
              s = "pending" => job[p].id \notin ManualDry, UNCHANGED <<batch, reached>>
       PROVE  AtHome'
  <2>1. \A q \in Procs : pc'[q] \in WithCopy => pc[q] \in WithCopy /\ job'[q] = job[q]
    BY <1>12, AfterRelease
  <2>2. \A q \in Procs : pc'[q] \in Past => pc[q] \in Past /\ job'[q] = job[q]
    BY <1>12, AfterRelease DEF WithCopy, Holding, Past
  <2>3. \A m \in ManualDry : status'[m] = "pending" => marked'[m]
    BY <1>12 DEF SetStatus, Stored
  <2>4. QED
    BY <1>12, <2>1, <2>2, <2>3
<1>13. ASSUME NEW p \in Procs, NEW l, NEW s \in {"dry_run", "sent", "failed"}, RecordOutcome(p, l, s)
       PROVE  AtHome'
  BY <1>13, <1>12 DEF RecordOutcome, histVars
<1>14. ASSUME NEW p \in Procs, ScheduleRetry(p) PROVE AtHome'
  <2>1. job[p].id \notin ManualDry
    BY <1>14 DEF ScheduleRetry, AtHome, MarksKept, WithCopy, Holding
  <2>2. QED
    BY <1>14, <1>12, <2>1 DEF ScheduleRetry, histVars
<1>15. CASE Restart
  BY <1>15 DEF Restart, StatusAtStart, histVars, WithCopy, Holding, Past
<1>16. QED
  BY <1>1, <1>2, <1>3, <1>4, <1>5, <1>6, <1>7, <1>8, <1>9, <1>10, <1>11, <1>13, <1>14, <1>15, StepCases
     DEF RecordFailed

-----------------------------------------------------------------------------
\* A row may be "processing" after a step because its holder kept it, because
\* it was just claimed, or because of a fault.
LEMMA HandsKept ==
  ASSUME NobodyStrands, faults > 0 => faults' > 0,
         \A m \in Messages : status'[m] = "processing" =>
            \/ faults' > 0
            \/ \E q \in Procs : Holds(q, m)'
            \/ /\ status[m] = "processing"
               /\ \A q \in Procs : Holds(q, m) => Holds(q, m)'
  PROVE  NobodyStrands'
BY DEF NobodyStrands, Held

\* Every step but a fault leaves each processing row in the hands of a goroutine.
LEMMA StrandsNext == Typed /\ Exclusive /\ NobodyStrands /\ [Next]_vars => NobodyStrands'
<1> SUFFICES ASSUME Typed, Exclusive, NobodyStrands, [Next]_vars PROVE NobodyStrands'
  OBVIOUS
<1>0. /\ status \in [Messages -> Status] /\ faults \in Nat
      /\ pc \in [Procs -> PC] /\ job \in [Procs -> Copy \cup {NoJob}]
  BY DEF Typed, TypeOK
<1> USE <1>0, HandsKept DEF Goto, Holds
<1>1. CASE UNCHANGED core /\ faults' \in {faults, faults + 1}
  BY <1>1 DEF core
<1>2. ASSUME NEW m \in Messages, Enqueue(m) PROVE NobodyStrands'
  <2>1. faults' \in {faults, faults + 1} /\ UNCHANGED <<pc, job>>
    BY <1>2 DEF Enqueue, procVars
  <2>2. status' = [status EXCEPT ![m] = "pending"]
    BY <1>2 DEF Enqueue
  <2>3. QED
    BY <2>1, <2>2
<1>3. ASSUME NEW m \in Messages, Cancel(m) \/ Delete(m) PROVE NobodyStrands'
  BY <1>3 DEF Cancel, Delete, procVars
<1>4. ASSUME NEW p \in Slots, NEW m \in Messages, SendNow(p, m) PROVE NobodyStrands'
  BY <1>4 DEF SendNow, rowVars, Procs, Holding
<1>5. ASSUME NEW p \in Slots, ReadSettings(p) PROVE NobodyStrands'
  BY <1>5 DEF ReadSettings, rowVars, Procs, Holding
<1>6. CASE Wake \/ WorkerExit \/ FetchPending \/ BatchDone \/ TakeNext
  BY <1>6 DEF Wake, WorkerExit, FetchPending, BatchDone, TakeNext, rowVars, Procs, Holding
<1>7. ASSUME NEW p \in Procs, Claim(p) PROVE NobodyStrands'
  <2>1. CASE Claimable(job[p].id)
    BY <1>7, <2>1 DEF Claim, Holding
  <2>2. CASE ~Claimable(job[p].id)
    BY <1>7, <2>2, AfterRelease DEF Claim, Holding
  <2>3. QED
    BY <2>1, <2>2
<1>8. ASSUME NEW p \in Procs, Decide(p) \/ Send(p) PROVE NobodyStrands'
  BY <1>8 DEF Decide, Send, rowVars, Holding
<1>9. ASSUME NEW p \in Procs, StoreError(p) PROVE NobodyStrands'
  BY <1>9 DEF StoreError, Fault
<1>10. ASSUME NEW p \in Procs, NEW s, pc[p] \in Holding, SetStatus(job[p].id, s), s # "processing",
              Release(p), UNCHANGED faults
       PROVE  NobodyStrands'
  <2>1. status[job[p].id] \in {"processing", "deleted"}
    BY <1>10 DEF Exclusive, HeldRows
  <2>2. job[p].id \in Messages /\ status'[job[p].id] # "processing"
    BY <1>10, <2>1, HolderHasRow DEF SetStatus, Stored
  <2>3. \A m \in Messages \ {job[p].id} : status'[m] = status[m]
    BY <1>10 DEF SetStatus, Stored
  <2>4. \A q \in Procs \ {p} : pc'[q] = pc[q] /\ job'[q] = job[q]
    BY <1>10, AfterRelease
  <2>5. QED
    BY <1>10, <2>2, <2>3, <2>4
<1>11. ASSUME NEW p \in Procs, NEW l \in Holding, NEW s \in {"dry_run", "sent", "failed"},
              RecordOutcome(p, l, s)
       PROVE  NobodyStrands'
  BY <1>11, <1>10 DEF RecordOutcome
<1>12. ASSUME NEW p \in Procs, ScheduleRetry(p) PROVE NobodyStrands'
  <2>1. pc[p] \in Holding /\ SetStatus(job[p].id, "pending") /\ Release(p) /\ UNCHANGED faults
    BY <1>12 DEF ScheduleRetry, WaitsAgain, Holding
  <2>2. QED
    BY <2>1, <1>10
<1>13. CASE Restart
  BY <1>13 DEF Restart, Fault
<1>14. QED
  BY <1>1, <1>2, <1>3, <1>4, <1>5, <1>6, <1>7, <1>8, <1>9, <1>11, <1>12, <1>13, StepCases
     DEF RecordFailed, Holding

-----------------------------------------------------------------------------
\* The inductive invariant holds initially.
LEMMA IInvInit == Init => IInv
<1> SUFFICES ASSUME Init PROVE IInv
  OBVIOUS
<1>1. Typed
  BY TypedInit
<1>2. Exclusive
  BY DEF Init, Exclusive, OneHolder, HeldRows, Holds, Holding
<1>3. Truthful
  BY DEF Init, Truthful, AckedOnce, HistoryIsTrue, AcksOfHeld, Holding
<1>4. Counted
  BY DEF Init, Counted, CopiesLag, NoEarlyGiveUp, WithCopy, Holding
<1>5. AtHome
  BY DEF Init, AtHome, MarksKept, ManualDryStaysHome, WithCopy, Holding
<1>6. NobodyStrands
  BY DEF Init, NobodyStrands
<1>7. QED
  BY <1>1, <1>2, <1>3, <1>4, <1>5, <1>6 DEF IInv

\* The inductive invariant, layer by layer: each needs only those before it.
THEOREM Invariance == Spec => []IInv
<1>1. IInv /\ [Next]_vars => IInv'
  BY TypedNext, ExclusiveNext, TruthfulNext, CountedNext, AtHomeNext, StrandsNext DEF IInv
<1>2. QED
  BY IInvInit, <1>1, PTL DEF Spec

\* Every column, channel and goroutine has its type throughout.
THEOREM TypeCorrect == Spec => []TypeOK
<1>1. IInv => TypeOK
  BY DEF IInv, Typed
<1>2. QED
  BY <1>1, Invariance, PTL

\* However many goroutines "send now" starts, a claimed row has one holder.
THEOREM MutualExclusion == Spec => []OneHolder
<1>1. IInv => OneHolder
  BY DEF IInv, Exclusive
<1>2. QED
  BY <1>1, Invariance, PTL

\* No second goroutine, retry or restart hands over an acknowledged message again.
THEOREM AtMostOnce == Spec => []AckedOnce
<1>1. IInv => AckedOnce
  BY DEF IInv, Truthful
<1>2. QED
  BY <1>1, Invariance, PTL

\* What the table says of a message agrees with what WhatsApp acknowledged.
THEOREM HistoryTrue == Spec => []HistoryIsTrue
<1>1. IInv => HistoryIsTrue
  BY DEF IInv, Truthful
<1>2. QED
  BY <1>1, Invariance, PTL

\* A stale retry counter never makes the queue give up too early.
THEOREM AllRetriesUsed == Spec => []NoEarlyGiveUp
<1>1. IInv => NoEarlyGiveUp
  BY DEF IInv, Counted
<1>2. QED
  BY <1>1, Invariance, PTL

\* No message of a manual simulation is ever handed to WhatsApp.
THEOREM SimulationsStayHome == Spec => []ManualDryStaysHome
<1>1. IInv => ManualDryStaysHome
  BY DEF IInv, AtHome
<1>2. QED
  BY <1>1, Invariance, PTL

\* Without a fault no row is left behind in "processing".
THEOREM NothingStranded == Spec => []NobodyStrands
<1>1. IInv => NobodyStrands
  BY DEF IInv
<1>2. QED
  BY <1>1, Invariance, PTL

-----------------------------------------------------------------------------
\* No late outcome, claim or cancellation replaces a final status.
THEOREM FinalForGood == Spec => FinalStays
<1> DEFINE Keeps == \A m \in Messages : status[m] \in Final => status'[m] \in {status[m], "deleted"}
<1>1. ASSUME IInv, [Next]_vars PROVE Keeps
  <2>0. /\ Typed /\ status \in [Messages -> Status]
        /\ \A q \in Procs : pc[q] \in Holding =>
              job[q].id \in Messages /\ status[job[q].id] \in {"processing", "deleted"}
    BY <1>1, HolderHasRow DEF IInv, Typed, TypeOK, Exclusive, HeldRows
  <2>1. CASE UNCHANGED status
    BY <2>1, <2>0
  <2>2. ASSUME NEW m \in Messages, Enqueue(m) \/ Cancel(m) \/ Delete(m) PROVE Keeps
    BY <2>2, <2>0 DEF Enqueue, Cancel, Cancellable, Delete, Final
  <2>3. ASSUME NEW p \in Procs, Claim(p) PROVE Keeps
    BY <2>3, <2>0 DEF Claim, Claimable, Final
  <2>4. ASSUME NEW p \in Procs, NEW s, pc[p] \in Holding, SetStatus(job[p].id, s) PROVE Keeps
    BY <2>4, <2>0 DEF SetStatus, Stored, Final
  <2>5. ASSUME NEW p \in Procs, NEW l \in Holding, NEW s, RecordOutcome(p, l, s) PROVE Keeps
    BY <2>5, <2>4 DEF RecordOutcome
  <2>6. ASSUME NEW p \in Procs, ScheduleRetry(p) PROVE Keeps
    BY <2>6, <2>4 DEF ScheduleRetry, Holding
  <2>7. ASSUME NEW p \in Procs, Decide(p) \/ Send(p) \/ StoreError(p) PROVE Keeps
    BY <2>7, <2>1 DEF Decide, Send, StoreError, rowVars
  <2>8. ASSUME NEW p \in Slots, ReadSettings(p) \/ \E m \in Messages : SendNow(p, m) PROVE Keeps
    BY <2>8, <2>1 DEF ReadSettings, SendNow, rowVars
  <2>9. CASE Wake \/ WorkerExit \/ FetchPending \/ BatchDone \/ TakeNext \/ Restart \/ UNCHANGED core
    BY <2>9, <2>1 DEF Wake, WorkerExit, FetchPending, BatchDone, TakeNext, Restart, StatusAtStart, core, rowVars
  <2>10. QED
    BY <1>1, <2>2, <2>3, <2>5, <2>6, <2>7, <2>8, <2>9, StepCases DEF RecordFailed, Holding
<1>2. QED
  BY <1>1, Invariance, PTL DEF Spec, FinalStays

-----------------------------------------------------------------------------
(* Refinement of MessageLifecycle.                                         *)

\* The held rows are the same when the same goroutines hold the same rows.
LEMMA HeldSame ==
  ASSUME \A q \in Procs, m \in Messages : Holds(q, m)' <=> Holds(q, m)
  PROVE  Held' = Held
BY DEF Held

\* A holder that is done gives up its own row and no other.
LEMMA HeldLess ==
  ASSUME Typed, Exclusive, NEW p \in Procs, pc[p] \in Holding, Release(p)
  PROVE  job[p].id \in Held /\ Held' = Held \ {job[p].id}
<1>1. job[p].id \in Messages /\ Holds(p, job[p].id)
  BY HolderHasRow DEF Holds
<1>2. ~\E m \in Messages : Holds(p, m)'
  BY AfterRelease DEF Holds, WithCopy
<1>3. \A q \in Procs \ {p}, m \in Messages : Holds(q, m)' <=> Holds(q, m)
  BY AfterRelease DEF Holds
<1>4. \A q \in Procs \ {p} : ~Holds(q, job[p].id)
  BY <1>1 DEF Exclusive, OneHolder
<1>5. \A m \in Messages : m # job[p].id => ~Holds(p, m)
  BY DEF Holds
<1>6. QED
  BY <1>1, <1>2, <1>3, <1>4, <1>5 DEF Held

\* A goroutine that lets go without writing an outcome: it vanishes, holding or not.
LEMMA LetsGo ==
  ASSUME Typed, Exclusive, NEW p \in Procs, Release(p), UNCHANGED <<status, acks>>
  PROVE  [Lifecycle!LNext]_(Lifecycle!lvars)
<1>1. CASE pc[p] \in Holding
  BY <1>1, HeldLess DEF Lifecycle!LNext, Lifecycle!Vanish
<1>2. CASE pc[p] \notin Holding
  <2>1. \A q \in Procs, m \in Messages : Holds(q, m)' <=> Holds(q, m)
    BY <1>2, AfterRelease DEF Holds, WithCopy
  <2>2. QED
    BY <2>1, HeldSame DEF Lifecycle!lvars
<1>3. QED
  BY <1>1, <1>2

\* Writing an outcome is a step of the life cycle: the row settles and is let go.
LEMMA Settles ==
  ASSUME Typed, Exclusive, Truthful, NEW p \in Procs, pc[p] \in Holding,
         NEW s \in {"pending", "failed", "dry_run", "sent"},
         s = "sent" => pc[p] = "delivered", pc[p] = "delivered" => s = "sent",
         SetStatus(job[p].id, s), Release(p), UNCHANGED acks
  PROVE  Lifecycle!LNext
<1> DEFINE m == job[p].id
<1>1. m \in Messages /\ m \in Held /\ Held' = Held \ {m}
  BY HeldLess, HolderHasRow
<1>2. status[m] \in {"processing", "deleted"}
  BY DEF Exclusive, HeldRows
<1>3. Lifecycle!Settle(m, s)
  BY <1>1, <1>2 DEF Lifecycle!Settle, SetStatus, Stored
<1>4. CASE s = "sent"
  <2>1. acks[m] = 1
    BY <1>4 DEF Truthful, AcksOfHeld
  <2>2. QED
    BY <1>1, <1>3, <1>4, <2>1 DEF Lifecycle!LNext, Lifecycle!Deliver
<1>5. CASE s # "sent"
  <2>1. acks[m] = 0
    BY <1>5 DEF Truthful, AcksOfHeld
  <2>2. QED
    BY <1>1, <1>3, <1>5, <2>1 DEF Lifecycle!LNext, Lifecycle!GiveBack
<1>6. QED
  BY <1>4, <1>5

\* Every step of the queue is a step of the life cycle or none at all.
LEMMA StepImplements == IInv /\ [Next]_vars => [Lifecycle!LNext]_(Lifecycle!lvars)
<1> SUFFICES ASSUME IInv, [Next]_vars PROVE [Lifecycle!LNext]_(Lifecycle!lvars)
  OBVIOUS
<1>0. /\ Typed /\ Exclusive /\ Truthful
      /\ status \in [Messages -> Status] /\ acks \in [Messages -> Nat]
      /\ pc \in [Procs -> PC] /\ job \in [Procs -> Copy \cup {NoJob}]
  BY DEF IInv, Typed, TypeOK
<1>1. ASSUME UNCHANGED <<status, acks>>,
             \A q \in Procs, m \in Messages : Holds(q, m)' <=> Holds(q, m)
      PROVE  UNCHANGED Lifecycle!lvars
  BY <1>1, HeldSame DEF Lifecycle!lvars
<1>2. CASE UNCHANGED core
  BY <1>2, <1>1 DEF core, Holds
<1>3. ASSUME NEW m \in Messages, Enqueue(m) \/ Cancel(m) \/ Delete(m) PROVE Lifecycle!LNext
  <2>1. Held' = Held /\ UNCHANGED acks
    BY <1>3, HeldSame DEF Enqueue, Cancel, Delete, procVars, histVars, Holds
  <2>2. CASE Enqueue(m)
    BY <2>1, <2>2 DEF Enqueue, Lifecycle!LNext, Lifecycle!Submit
  <2>3. CASE Cancel(m)
    BY <2>1, <2>3 DEF Cancel, Cancellable, Lifecycle!LNext, Lifecycle!Withdraw
  <2>4. CASE Delete(m)
    BY <2>1, <2>4 DEF Delete, Lifecycle!LNext, Lifecycle!Erase
  <2>5. QED
    BY <1>3, <2>2, <2>3, <2>4
<1>4. ASSUME NEW p \in Slots, ReadSettings(p) \/ \E m \in Messages : SendNow(p, m)
      PROVE  UNCHANGED Lifecycle!lvars
  <2>1. \A q \in Procs, m \in Messages : Holds(q, m)' <=> Holds(q, m)
    BY <1>4, <1>0 DEF ReadSettings, SendNow, Procs, Goto, Holds, Holding
  <2>2. QED
    BY <1>4, <1>1, <2>1 DEF ReadSettings, SendNow, rowVars, histVars
<1>5. CASE Wake \/ WorkerExit \/ FetchPending \/ BatchDone \/ TakeNext
  <2>1. \A q \in Procs, m \in Messages : Holds(q, m)' <=> Holds(q, m)
    BY <1>5, <1>0 DEF Wake, WorkerExit, FetchPending, BatchDone, TakeNext, Procs, Goto, Holds, Holding
  <2>2. QED
    BY <1>5, <1>1, <2>1 DEF Wake, WorkerExit, FetchPending, BatchDone, TakeNext, rowVars, histVars
<1>6. ASSUME NEW p \in Procs, Claim(p) PROVE [Lifecycle!LNext]_(Lifecycle!lvars)
  <2>1. CASE Claimable(job[p].id)
    <3>1. /\ job[p].id \in Messages /\ status[job[p].id] = "pending"
          /\ status' = [status EXCEPT ![job[p].id] = "processing"]
          /\ pc' = [pc EXCEPT ![p] = "decide"] /\ UNCHANGED <<job, acks>>
      BY <1>6, <1>0, <2>1 DEF Claim, Claimable, Goto, Typed, HasCopy, WithCopy, Copy, histVars
    <3>2. job[p].id \notin Held
      BY <3>1, <1>0 DEF Exclusive, HeldRows, Held, Holds
    <3>3. Held' = Held \cup {job[p].id}
      <4>1. \A q \in Procs \ {p}, m \in Messages : Holds(q, m)' <=> Holds(q, m)
        BY <3>1, <1>0 DEF Holds
      <4>2. \A m \in Messages : Holds(p, m)' <=> m = job[p].id
        BY <3>1, <1>0 DEF Holds, Holding
      <4>3. \A m \in Messages : ~Holds(p, m)
        BY <1>6 DEF Claim, Holds, Holding
      <4>4. QED
        BY <3>1, <4>1, <4>2, <4>3 DEF Held
    <3>4. QED
      BY <3>1, <3>2, <3>3 DEF Lifecycle!LNext, Lifecycle!Take
  <2>2. CASE ~Claimable(job[p].id)
    BY <1>6, <1>0, <2>2, LetsGo DEF Claim, histVars
  <2>3. QED
    BY <2>1, <2>2
<1>7. ASSUME NEW p \in Procs, Decide(p) \/ Send(p) PROVE [Lifecycle!LNext]_(Lifecycle!lvars)
  <2>1. \A q \in Procs, m \in Messages : Holds(q, m)' <=> Holds(q, m)
    BY <1>7, <1>0 DEF Decide, Send, Goto, Holds, Holding
  <2>2. Held' = Held /\ UNCHANGED status
    BY <1>7, <2>1, HeldSame DEF Decide, Send, rowVars
  <2>3. CASE UNCHANGED acks
    BY <2>2, <2>3 DEF Lifecycle!lvars
  <2>4. CASE acks' # acks
    <3>1. Send(p) /\ acks' = [acks EXCEPT ![job[p].id] = acks[job[p].id] + 1]
      BY <1>7, <2>4 DEF Decide, Send, histVars
    <3>2. /\ job[p].id \in Messages /\ acks[job[p].id] = 0
          /\ Holds(p, job[p].id)
      BY <3>1, <1>0, HolderHasRow DEF Send, Holding, Truthful, AcksOfHeld, Holds
    <3>3. job[p].id \in Held /\ acks' = [acks EXCEPT ![job[p].id] = 1]
      BY <3>1, <3>2 DEF Held
    <3>4. QED
      BY <2>2, <3>2, <3>3 DEF Lifecycle!LNext, Lifecycle!Accept
  <2>5. QED
    BY <2>3, <2>4
<1>8. ASSUME NEW p \in Procs, StoreError(p) PROVE [Lifecycle!LNext]_(Lifecycle!lvars)
  <2>1. UNCHANGED <<status, acks>>
    BY <1>8 DEF StoreError, rowVars, histVars
  <2>2. CASE Release(p)
    BY <1>0, <2>1, <2>2, LetsGo
  <2>3. CASE ~Release(p)
    <3>1. \A q \in Procs, m \in Messages : Holds(q, m)' <=> Holds(q, m)
      BY <1>8, <1>0, <2>3 DEF StoreError, Goto, Holds, Holding
    <3>2. QED
      BY <1>1, <2>1, <3>1
  <2>4. QED
    BY <2>2, <2>3
<1>9. ASSUME NEW p \in Procs, RecordOutcome(p, "simulate", "dry_run") PROVE Lifecycle!LNext
  <2>1. /\ pc[p] \in Holding /\ pc[p] # "delivered"
        /\ SetStatus(job[p].id, "dry_run") /\ Release(p) /\ UNCHANGED acks
    BY <1>9 DEF RecordOutcome, Holding, histVars
  <2>2. QED
    BY <1>0, <2>1, Settles
<1>10. ASSUME NEW p \in Procs, RecordOutcome(p, "delivered", "sent") PROVE Lifecycle!LNext
  <2>1. /\ pc[p] \in Holding /\ pc[p] = "delivered"
        /\ SetStatus(job[p].id, "sent") /\ Release(p) /\ UNCHANGED acks
    BY <1>10 DEF RecordOutcome, Holding, histVars
  <2>2. QED
    BY <1>0, <2>1, Settles
<1>11. ASSUME NEW p \in Procs, RecordFailed(p) PROVE Lifecycle!LNext
  <2>1. /\ pc[p] \in Holding /\ pc[p] # "delivered"
        /\ SetStatus(job[p].id, "failed") /\ Release(p) /\ UNCHANGED acks
    BY <1>11 DEF RecordFailed, RecordOutcome, Holding, histVars
  <2>2. QED
    BY <1>0, <2>1, Settles
<1>12. ASSUME NEW p \in Procs, ScheduleRetry(p) PROVE Lifecycle!LNext
  <2>1. /\ pc[p] \in Holding /\ pc[p] # "delivered"
        /\ SetStatus(job[p].id, "pending") /\ Release(p) /\ UNCHANGED acks
    BY <1>12 DEF ScheduleRetry, WaitsAgain, Holding, histVars
  <2>2. QED
    BY <1>0, <2>1, Settles
<1>13. CASE Restart
  <2>1. UNCHANGED <<status, acks>>
    BY <1>13 DEF Restart, StatusAtStart, histVars
  <2>2. Held' = {}
    BY <1>13 DEF Restart, Held, Holds, Holding
  <2>3. QED
    BY <2>1, <2>2 DEF Lifecycle!LNext, Lifecycle!Vanish
<1>14. QED
  BY <1>2, <1>3, <1>4, <1>5, <1>6, <1>7, <1>8, <1>9, <1>10, <1>11, <1>12, <1>13, StepCases
     DEF Lifecycle!lvars, core

\* The queue implements the life cycle a user is promised.
THEOREM Refinement == Spec => KeepsPromises
<1>1. Init => Lifecycle!LInit
  BY DEF Init, Lifecycle!LInit, Held, Holds, Holding
<1>2. QED
  BY <1>1, StepImplements, Invariance, PTL DEF Spec, KeepsPromises, Lifecycle!LSpec

=============================================================================
