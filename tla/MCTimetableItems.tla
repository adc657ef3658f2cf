-------------------------- MODULE MCTimetableItems --------------------------
(* Instances of TimetableItems for TLC. *)
EXTENDS TimetableItems, TLC

Symmetry == Permutations(Blocks) \cup Permutations(Reqs) \cup Permutations(Users)

At(begin, end) == [day |-> 0, begin |-> begin, end |-> end]

\* An hour, the next hour, and a set that overlaps itself.
MCTimeSets == {{At(0, 1)}, {At(1, 2)}, {At(0, 1), At(0, 2)}}
\* The same hour, and the next.
MCClassTimes == {{At(0, 1)}, {At(1, 2)}}
=============================================================================
