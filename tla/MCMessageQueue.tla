--------------------------- MODULE MCMessageQueue ---------------------------
(* Small instances of MessageQueue for TLC. *)
EXTENDS MessageQueue, TLC

CONSTANTS m1, m2, g1, g2, s1

NoScheduleOf  == [m \in Messages |-> NoSchedule]
AllScheduleOf == [m \in Messages |-> s1]

\* The settings' clock behind, equal to, or ahead of the clock of the process.
AnyLag == {-1, 0, 1}

SlotSymmetry == Permutations(Slots)
=============================================================================
