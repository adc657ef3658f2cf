--------------------------- MODULE MCLectureSync ---------------------------
(***************************************************************************)
(* Instances of LectureSync for TLC.  Of runs that overlap, all are         *)
(* scholar-sync's: the copies differ in the titles alone, on which nothing *)
(* else depends.  The proofs are about any runs.                           *)
(***************************************************************************)
EXTENDS LectureSync, TLC

MCNext ==
  /\ Next
  /\ \A r \in Active' : Cardinality(Active') > 1 => run'[r].asks

MCSpec == Init /\ [][MCNext]_vars

Symmetry == Permutations(Keys) \cup Permutations(Profs) \cup Permutations(Runs)
=============================================================================
