-------------------------- MODULE MCTimetableOrder --------------------------
(* Instances of TimetableOrder for TLC. *)
EXTENDS TimetableOrder, TLC

CONSTANTS ann, bob, a1, a2, a3, b1

MCOwner == (a1 :> ann) @@ (a2 :> ann) @@ (a3 :> ann) @@ (b1 :> bob)
Symmetry == Permutations(OrderReqs) \cup Permutations({a1, a2, a3})

\* Every position, one before the first, and, of a shorter list, beyond the last.
MCTargets == -1..2
=============================================================================
