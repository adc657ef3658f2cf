--------------------------- MODULE MCDerivedData ---------------------------
(***************************************************************************)
(* Instances of DerivedData for TLC: the titles of a course, of which the  *)
(* server's copy of the sync tells nobody, and the scores of a professor,  *)
(* where the message after a review names nobody, a colleague of whom no   *)
(* review is written, or by chance the professor.                          *)
(***************************************************************************)
EXTENDS DerivedData

CONSTANTS titles, professor, colleague

MCNamed ==
  [i \in Items |-> CASE i = titles    -> {titles, NoItem}
                     [] i = professor -> {professor, colleague, NoItem}
                     [] i = colleague -> {}]
=============================================================================
