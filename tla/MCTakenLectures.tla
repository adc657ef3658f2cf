-------------------------- MODULE MCTakenLectures --------------------------
(* Instances of TakenLectures for TLC. *)
EXTENDS TakenLectures, TLC

CONSTANTS l1, l2

Symmetry == Permutations(Users) \cup Permutations(Students) \cup Permutations(Runs)

\* One lecture of this term and one of another.
MCTermOf == (l1 :> 1) @@ (l2 :> 2)

\* A second change is a login by the One App that meets another login.
MCNext ==
  /\ Next
  /\ changes' # changes /\ changes = 1 =>
       \E u \in Users : login[u].pc # "idle" /\ login'[u] = login[u] /\ student'[u] # student[u]
MCSpec == Init /\ [][MCNext]_vars
=============================================================================
