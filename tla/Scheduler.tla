----------------------------- MODULE Scheduler -----------------------------
(***************************************************************************)
(* scheduler.Scheduler: once a minute it reads the settings and the active *)
(* schedules and enqueues the reminders that are due; after that, and      *)
(* every 15 seconds, it recomputes the countdown.  Users edit schedules,   *)
(* holidays, contacts and settings meanwhile.                              *)
(*                                                                         *)
(* Instants are numbers of minutes, days have DayLength of them and weeks  *)
(* have WeekLength days, so that TLC can run through weeks.  A step is one *)
(* SQL statement or one pass of the loop over the schedules.               *)
(*                                                                         *)
(* Abstracted: texts, recipients and rows of the queue (a reminder counts  *)
(* when its row is inserted); the countdown is read in one step, and only  *)
(* its instant is kept.                                                    *)
(***************************************************************************)
EXTENDS Integers, FiniteSets, FiniteSetsExt

CONSTANTS
  Schedules,     \* ids of schedules; AUTOINCREMENT never reuses one
  DayLength,     \* minutes of a day (1440 in the code)
  WeekLength,    \* days of a week (7 in the code)
  Horizon,       \* last minute considered
  Plans,         \* what a schedule form may hold: day, sendAt, start, mode
  Configs,       \* settings: sending window from..to, zone as minutes east of the westernmost
  HolidayDates,  \* dates that may become holidays
  NoCopy,        \* no schedule is being fired
  AlwaysAwake,   \* the process evaluates every minute
  MaxEdits,      \* bound on what users change
  MaxFaults      \* bound on restarts and failed SQL statements

\* No instant, or no date.  A start of DayLength is an empty start_time.
Never == -1

ASSUME SchedulerAssumption ==
  /\ DayLength \in Nat \ {0} /\ WeekLength \in Nat \ {0} /\ Horizon \in Nat
  /\ Plans \subseteq [day : 0..(WeekLength - 1), sendAt : 0..(DayLength - 1),
                      start : 0..DayLength, mode : {"H-0", "H-1"}]
  /\ Configs \subseteq [from : Nat, to : Nat, zone : Nat]
  /\ HolidayDates \subseteq Nat
  /\ AlwaysAwake \in BOOLEAN
  /\ MaxEdits \in Nat /\ MaxFaults \in Nat

VARIABLES
  now,
  \* tables: schedules, settings, holidays (the instant each was added)
  state, plan, lastSent, settings, holiday,
  ready,      \* a template and a phone number can be found for the schedule
  \* the goroutine: position, minute and settings of this evaluation, copies
  pc, at, cfg, todo, cur,
  shown,      \* the instant the countdown runs to, and when it was computed
  \* history: reminders and lost marks of the last day with a reminder, the
  \* last edit of each schedule, the minutes of today that were evaluated
  history, since, seen,
  edits, faults

tables    == <<state, plan, lastSent, settings, holiday, ready>>
goroutine == <<pc, at, cfg, todo, cur>>
bounds    == <<edits, faults>>
vars == <<now, tables, goroutine, shown, history, since, seen, bounds>>

Copy == [id : Schedules, plan : Plans, lastSent : Int]
PC == {"idle", "list", "consider", "fire", "mark", "countdown"}

-----------------------------------------------------------------------------
(* Dates and clocks, by the settings' zone.                                *)

Clock(w, i) == (i + w.zone) % DayLength
Today(w, i) == (i + w.zone) \div DayLength
Instant(w, d, c) == d * DayLength + c - w.zone
Weekday(d) == d % WeekLength

\* The lecture a reminder sent on day d is about.
LectureDate(p, d) == IF p.mode = "H-1" THEN d + 1 ELSE d

InWindow(w, i) == w.from <= Clock(w, i) /\ Clock(w, i) <= w.to

IsHoliday(d) == d \in HolidayDates /\ holiday[d] # Never

\* Mutant: the day of the reminder is checked.
LectureIsHolidayToday(p, d) == IsHoliday(d)

LectureIsHoliday(p, d) == IsHoliday(LectureDate(p, d))

\* Mutant: the very minute of the last reminder is compared.
SentAtThisMinute(last, w, i) == last # Never /\ last = i

SentToday(last, w, i) == last # Never /\ Today(w, last) = Today(w, i)

\* Mutant: only the minute itself will do.
ReachedNow(p, c) == c = p.sendAt

Reached(p, c) == c >= p.sendAt

\* What evaluateTick asks of a schedule before it looks at holidays.
Due(p, last, w, i) ==
  /\ Reached(p, Clock(w, i))
  /\ ~SentToday(last, w, i)
  /\ p.mode = "H-0" => Clock(w, i) <= p.start
  /\ Weekday(LectureDate(p, Today(w, i))) = p.day

-----------------------------------------------------------------------------
NothingShown == [until |-> Never, asOf |-> Never]

Init ==
  /\ now = 0
  /\ state \in [Schedules -> {"absent", "on"}]
  /\ plan \in [Schedules -> Plans]
  /\ lastSent = [s \in Schedules |-> Never]
  /\ settings \in Configs
  /\ holiday \in [HolidayDates -> {Never, 0}]
  /\ ready = [s \in Schedules |-> TRUE]
  /\ pc = "idle" /\ at = Never /\ cfg = settings /\ todo = {} /\ cur = NoCopy
  /\ shown = NothingShown
  /\ history = [s \in Schedules |-> [date |-> Never, sent |-> 0, lost |-> 0]]
  /\ since = [s \in Schedules |-> 0]
  /\ seen = {}
  /\ edits = 0 /\ faults = 0

-----------------------------------------------------------------------------
(* evaluateTick.                                                           *)

StartTick ==
  /\ pc = "idle"
  /\ at' = now /\ cfg' = settings
  /\ pc' = IF InWindow(settings, now) THEN "list" ELSE "countdown"
  /\ UNCHANGED <<now, tables, todo, cur, shown, history, since, seen, bounds>>

ListActiveSchedules ==
  /\ pc = "list"
  /\ pc' = "consider"
  /\ todo' = {[id |-> s, plan |-> plan[s], lastSent |-> lastSent[s]] :
                s \in {s \in Schedules : state[s] = "on"}}
  /\ UNCHANGED <<now, tables, at, cfg, cur, shown, history, since, seen, bounds>>

\* One copy of the list: skipped, or fired.  Holidays are read when its turn comes.
Consider(c) ==
  /\ pc = "consider" /\ c \in todo
  /\ todo' = todo \ {c}
  /\ IF Due(c.plan, c.lastSent, cfg, at) /\ ~LectureIsHoliday(c.plan, Today(cfg, at))
     THEN pc' = "fire" /\ cur' = c
     ELSE UNCHANGED <<pc, cur>>
  /\ UNCHANGED <<now, tables, at, cfg, shown, history, since, seen, bounds>>

NextSchedule == pc' = "consider" /\ cur' = NoCopy

Reminded(h, d) ==
  IF h.date = d THEN [h EXCEPT !.sent = @ + 1] ELSE [date |-> d, sent |-> 1, lost |-> 0]

\* fireSchedule: template and phone are looked up now; the row of a schedule
\* that is gone violates its foreign key.
Fire ==
  /\ pc = "fire"
  /\ IF ready[cur.id] /\ state[cur.id] # "deleted"
     THEN /\ history' = [history EXCEPT ![cur.id] = Reminded(@, Today(cfg, at))]
          /\ pc' = "mark" /\ UNCHANGED cur
     ELSE NextSchedule /\ UNCHANGED history
  /\ UNCHANGED <<now, tables, at, cfg, todo, shown, since, seen, bounds>>

\* UpdateScheduleLastSent, a statement of its own after the INSERT.
MarkAt(i) ==
  /\ pc = "mark"
  /\ lastSent' = [lastSent EXCEPT ![cur.id] = IF state[cur.id] = "deleted" THEN @ ELSE i]
  /\ NextSchedule
  /\ UNCHANGED <<now, state, plan, settings, holiday, ready, at, cfg, todo, shown,
                 history, since, seen, bounds>>

\* Mutant: the time of day of the lecture's date is written.
MarkLecture == MarkAt(IF cur.plan.mode = "H-1" THEN at + DayLength ELSE at)

Mark == MarkAt(at)

EvaluationDone ==
  /\ pc = "consider" /\ todo = {}
  /\ pc' = "countdown"
  /\ seen' = IF Today(settings, at) = Today(settings, now)
             THEN seen \cup {Clock(settings, at)} ELSE seen
  /\ UNCHANGED <<now, tables, at, cfg, todo, cur, shown, history, since, bounds>>

-----------------------------------------------------------------------------
(* updateCountdown.                                                        *)

MaxHolidayShifts == 4

\* Mutant: the holiday check looks at the day of the reminder.
PastHolidaysOfFireDay(p, d) ==
  d + WeekLength * Min({k \in 0..MaxHolidayShifts :
                          k = MaxHolidayShifts \/ ~IsHoliday(d + k * WeekLength)})

\* The first fire day from d on, weekly, whose lecture is not on a holiday.
PastHolidays(p, d) ==
  d + WeekLength * Min({k \in 0..MaxHolidayShifts :
                          k = MaxHolidayShifts \/ ~LectureIsHoliday(p, d + k * WeekLength)})

\* calculateNextFireTime.  Now is some seconds into its minute, so the minute
\* of the send time itself counts as past.
NextFire(p, last, w, i) ==
  LET fireDay == IF p.mode = "H-1" THEN (p.day - 1 + WeekLength) % WeekLength ELSE p.day
      first   == Today(w, i) + ((fireDay - Weekday(Today(w, i)) + WeekLength) % WeekLength)
      coming  == IF Instant(w, first, p.sendAt) <= i THEN first + WeekLength ELSE first
      unsent  == IF last # Never /\ Today(w, last) = coming THEN coming + WeekLength ELSE coming
  IN Instant(w, PastHolidays(p, unsent), p.sendAt)

Active == {s \in Schedules : state[s] = "on"}

UpdateCountdown ==
  /\ pc \in {"idle", "countdown"}
  /\ shown' = [until |-> IF Active = {} THEN Never
                         ELSE Min({NextFire(plan[s], lastSent[s], settings, now) : s \in Active}),
               asOf |-> now]
  /\ pc' = "idle" /\ at' = Never
  /\ UNCHANGED <<now, tables, cfg, todo, cur, history, since, seen, bounds>>

\* The settings cannot be read, or the schedules: then there is no countdown.
CountdownError ==
  /\ pc \in {"idle", "countdown"}
  /\ faults < MaxFaults /\ faults' = faults + 1
  /\ shown' \in {shown, NothingShown}
  /\ pc' = "idle" /\ at' = Never
  /\ UNCHANGED <<now, tables, cfg, todo, cur, history, since, seen, edits>>

-----------------------------------------------------------------------------
(* Time and users.                                                         *)

Awake == pc = "idle" /\ (InWindow(settings, now) => Clock(settings, now) \in seen)

Minute ==
  /\ now < Horizon /\ (AlwaysAwake => Awake)
  /\ now' = now + 1
  /\ seen' = IF Today(settings, now + 1) = Today(settings, now) THEN seen ELSE {}
  /\ UNCHANGED <<tables, goroutine, shown, history, since, bounds>>

Edit == edits < MaxEdits /\ edits' = edits + 1

\* Creation, or an update that replaces the whole form and keeps last_sent_at.
SaveSchedule(s, p, v) ==
  /\ Edit
  /\ state[s] # "deleted"
  /\ plan' = [plan EXCEPT ![s] = p] /\ state' = [state EXCEPT ![s] = v]
  /\ since' = [since EXCEPT ![s] = now]
  /\ UNCHANGED <<now, lastSent, settings, holiday, ready, goroutine, shown, history, seen, faults>>

\* The toggle reads is_active and writes its negation; with two of them at
\* work either value may be written.
ToggleSchedule(s, v) ==
  /\ Edit
  /\ state[s] \in {"on", "off"}
  /\ state' = [state EXCEPT ![s] = v]
  /\ since' = [since EXCEPT ![s] = now]
  /\ UNCHANGED <<now, plan, lastSent, settings, holiday, ready, goroutine, shown, history, seen, faults>>

DeleteSchedule(s) ==
  /\ Edit
  /\ state[s] \in {"on", "off"}
  /\ state' = [state EXCEPT ![s] = "deleted"]
  /\ since' = [since EXCEPT ![s] = now]
  /\ UNCHANGED <<now, plan, lastSent, settings, holiday, ready, goroutine, shown, history, seen, faults>>

\* Contacts and templates of the schedule come and go.
EditContacts(s) ==
  /\ Edit
  /\ ready' = [ready EXCEPT ![s] = ~@]
  /\ UNCHANGED <<now, state, plan, lastSent, settings, holiday, goroutine, shown, history, since, seen, faults>>

\* A date is UNIQUE: a holiday that exists keeps its row.
CreateHoliday(d) ==
  /\ Edit
  /\ holiday[d] = Never
  /\ holiday' = [holiday EXCEPT ![d] = now]
  /\ UNCHANGED <<now, state, plan, lastSent, settings, ready, goroutine, shown, history, since, seen, faults>>

DeleteHoliday(d) ==
  /\ Edit
  /\ holiday[d] # Never
  /\ holiday' = [holiday EXCEPT ![d] = Never]
  /\ UNCHANGED <<now, state, plan, lastSent, settings, ready, goroutine, shown, history, since, seen, faults>>

SaveSettings(w) ==
  /\ Edit
  /\ settings' = w
  /\ UNCHANGED <<now, state, plan, lastSent, holiday, ready, goroutine, shown, history, since, seen, faults>>

-----------------------------------------------------------------------------
(* Faults.                                                                 *)

Fault == faults < MaxFaults /\ faults' = faults + 1

Unmarked(h) == [h EXCEPT !.lost = @ + 1]

LoseMark == history' = IF pc = "mark" THEN [history EXCEPT ![cur.id] = Unmarked(@)] ELSE history

\* A statement fails: no list, no row, or no mark; a holiday that cannot be
\* read is none.
StoreError ==
  /\ Fault
  /\ \/ pc = "list" /\ pc' = "countdown" /\ UNCHANGED <<todo, cur, history>>
     \/ /\ pc = "consider" /\ pc' = "fire"
        /\ \E c \in todo : Due(c.plan, c.lastSent, cfg, at) /\ cur' = c /\ todo' = todo \ {c}
        /\ UNCHANGED history
     \/ pc \in {"fire", "mark"} /\ LoseMark /\ NextSchedule /\ UNCHANGED todo
  /\ UNCHANGED <<now, tables, at, cfg, shown, since, seen, edits>>

Restart ==
  /\ Fault
  /\ LoseMark
  /\ pc' = "idle" /\ at' = Never /\ todo' = {} /\ cur' = NoCopy
  /\ shown' = NothingShown
  /\ UNCHANGED <<now, tables, cfg, since, seen, edits>>

-----------------------------------------------------------------------------
Evaluate == \/ StartTick \/ ListActiveSchedules \/ Fire \/ Mark \/ EvaluationDone
            \/ \E c \in todo : Consider(c)

Next ==
  \/ Evaluate \/ UpdateCountdown \/ CountdownError \/ Minute
  \/ \E s \in Schedules, p \in Plans, v \in {"on", "off"} : SaveSchedule(s, p, v)
  \/ \E s \in Schedules, v \in {"on", "off"} : ToggleSchedule(s, v)
  \/ \E s \in Schedules : DeleteSchedule(s) \/ EditContacts(s)
  \/ \E d \in HolidayDates : CreateHoliday(d) \/ DeleteHoliday(d)
  \/ \E w \in Configs : SaveSettings(w)
  \/ StoreError \/ Restart

Spec == Init /\ [][Next]_vars

-----------------------------------------------------------------------------
(* Properties.                                                             *)

TypeOK ==
  /\ now \in 0..Horizon
  /\ state \in [Schedules -> {"absent", "on", "off", "deleted"}]
  /\ plan \in [Schedules -> Plans]
  /\ lastSent \in [Schedules -> (0..Horizon) \cup {Never}]
  /\ at <= now /\ \A s \in Schedules : lastSent[s] <= now
  /\ settings \in Configs /\ cfg \in Configs
  /\ holiday \in [HolidayDates -> (0..Horizon) \cup {Never}]
  /\ ready \in [Schedules -> BOOLEAN]
  /\ pc \in PC
  /\ at \in (0..Horizon) \cup {Never} /\ (pc = "idle" <=> at = Never)
  /\ todo \subseteq Copy
  /\ cur \in Copy \cup {NoCopy} /\ (pc \in {"fire", "mark"} => cur \in Copy)
  /\ shown.asOf \in (0..Horizon) \cup {Never}
  /\ history \in [Schedules -> [date : Int, sent : Nat, lost : Nat]]
  /\ since \in [Schedules -> 0..Horizon]
  /\ seen \subseteq 0..(DayLength - 1)
  /\ edits \in 0..MaxEdits /\ faults \in 0..MaxFaults

\* However users edit a schedule during the day, one reminder goes out on it,
\* unless the mark of an earlier one was lost.
OncePerDay == \A s \in Schedules : history[s].sent <= history[s].lost + 1

\* A reminder goes out on facts at most one evaluation old: its lecture was not
\* on a holiday, nor its schedule off or deleted, before this minute began.
FreshFacts ==
  [][pc = "fire" /\ pc' = "mark" =>
       /\ \/ ~IsHoliday(LectureDate(cur.plan, Today(cfg, at)))
          \/ holiday[LectureDate(cur.plan, Today(cfg, at))] >= at
          \/ faults > 0
       /\ state[cur.id] = "on" \/ since[cur.id] >= at]_vars

-----------------------------------------------------------------------------
(* What makes OncePerDay and FreshFacts inductive.                         *)

\* No change of settings moves a date.
OneZone == \A v, w \in Configs : v.zone = w.zone

\* Each schedule has one copy in an evaluation, as up to date as its mark.
Waiting == todo \cup (IF pc \in {"fire", "mark"} THEN {cur} ELSE {})

CopiesCurrent ==
  /\ pc \in {"fire", "mark"} => cur \notin todo
  /\ \A c \in Waiting : c.lastSent = lastSent[c.id]
  /\ \A c, e \in Waiting : c.id = e.id => c = e
  /\ pc \notin {"consider", "fire", "mark"} => todo = {}

\* The reminder of the last day is marked, or its mark is being written.
Marked(s) == \/ state[s] = "deleted"
             \/ lastSent[s] # Never /\ Today(settings, lastSent[s]) = history[s].date

MarkPending(s) == pc = "mark" /\ cur.id = s

MarksKept ==
  /\ \A s \in Schedules : history[s].sent <= history[s].lost
                           \/ Marked(s) \/ MarkPending(s)
  /\ pc = "fire" => ~SentToday(cur.lastSent, cfg, at)
  /\ pc = "mark" => history[cur.id].date = Today(cfg, at)

\* What FreshFacts says, of every copy and from the reading of the holidays on.
CopiesFresh ==
  /\ \A c \in Waiting : state[c.id] = "on" \/ since[c.id] >= at
  /\ LET d == LectureDate(cur.plan, Today(cfg, at)) IN
     pc = "fire" => ~IsHoliday(d) \/ holiday[d] >= at \/ faults > 0

IInv == /\ TypeOK /\ CopiesCurrent /\ CopiesFresh
        /\ OneZone => MarksKept /\ OncePerDay

-----------------------------------------------------------------------------
(* What evaluateTick and the countdown promise.                            *)

\* A minute of the day in which a reminder may go out.
Announces(p, w, c) ==
  p.sendAt <= c /\ w.from <= c /\ c <= w.to /\ (p.mode = "H-0" => c <= p.start)

\* Before midnight, every lecture that is on no holiday has had its reminder, if
\* the machine was awake in any minute of the window between the send time and
\* the start of the lecture: a minute missed is not a day missed.
NothingForgotten ==
  [][LET d == Today(settings, now) IN
     now' # now /\ seen' = {} /\ edits = 0 /\ faults = 0 =>
       \A s \in Active :
         /\ Weekday(LectureDate(plan[s], d)) = plan[s].day
         /\ ~IsHoliday(LectureDate(plan[s], d))
         /\ \E c \in seen : Announces(plan[s], settings, c)
         => history[s].date = d /\ history[s].sent = 1]_vars

\* What evaluateTick does in minute i, by the tables as they are.
Fires(s, w, i) ==
  /\ InWindow(w, i) /\ Due(plan[s], lastSent[s], w, i)
  /\ ~IsHoliday(LectureDate(plan[s], Today(w, i)))

\* The first minute after now in which evaluateTick would fire; none for many weeks.
FirstFire(s) ==
  LET T == {i \in (now + 1)..(now + (MaxHolidayShifts + 3) * WeekLength * DayLength) :
              Fires(s, settings, i)}
  IN IF T = {} THEN Never ELSE Min(T)

\* A send time inside the window, and before the lecture begins.
SendableOnTime(s) == Announces(plan[s], settings, plan[s].sendAt)

\* The dashboard counts down to the minute in which the next reminder goes out,
\* as long as nothing is due now and every schedule can be sent on time.
CountdownAgrees ==
  /\ pc = "idle" /\ shown.asOf = now /\ edits = 0 /\ Active # {}
  /\ \A s \in Active : SendableOnTime(s) /\ ~Fires(s, settings, now)
  => shown.until = Min({FirstFire(s) : s \in Active})

-----------------------------------------------------------------------------
(* What the documentation says and the code does not do.                   *)

\* SYSTEM_DESIGN 3.3: outside the window a reminder is put off until it opens.  So
\* the machine being awake on both days, a reminder of yesterday whose lecture is
\* not over when today's window opens has gone out yesterday or today.
NothingDropped ==
  [][LET d == Today(settings, now) - 1 IN
     now' # now /\ seen' = {} /\ seen # {} /\ d >= 0 /\ edits = 0 /\ faults = 0 =>
       \A s \in Active :
         /\ Weekday(LectureDate(plan[s], d)) = plan[s].day
         /\ ~IsHoliday(LectureDate(plan[s], d))
         /\ Instant(settings, d + 1, settings.from)
              <= Instant(settings, LectureDate(plan[s], d), plan[s].start)
         => history[s].date \in {d, d + 1}]_vars

=============================================================================
