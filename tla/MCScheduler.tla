---------------------------- MODULE MCScheduler ----------------------------
(* Small instances of Scheduler for TLC. *)
EXTENDS Scheduler, TLC

CONSTANTS s1, s2

Plan(d, t, b, m) == [day |-> d, sendAt |-> t, start |-> b, mode |-> m]
Window(f, t, z)  == [from |-> f, to |-> t, zone |-> z]

\* A lecture on day 1, announced the day before or on the same morning.
EditedPlans == {Plan(1, 1, 4, "H-1"), Plan(1, 1, 2, "H-0")}

OneWindow == {Window(1, 2, 0)}

\* Two settings that differ in the window; the zone stays.
TwoWindows == {Window(1, 2, 0), Window(0, 2, 0)}

\* Both modes and days, send times in, at the ends of and outside the window.
ManyPlans == {Plan(1, 1, 4, "H-1"), Plan(1, 1, 2, "H-0"), Plan(0, 2, 4, "H-1"),
              Plan(0, 2, 4, "H-0"), Plan(1, 3, 4, "H-0"), Plan(1, 0, 4, "H-1")}

Windows == {Window(1, 2, 0), Window(0, 3, 0), Window(1, 3, 2)}

\* A CSV import without a send time: the evening before, after the window.  The
\* window opens once more before the lecture.
ImportedPlan == {Plan(1, 3, 3, "H-1")}

ScheduleSymmetry == Permutations(Schedules)
=============================================================================
