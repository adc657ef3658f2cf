----------------------------- MODULE MCPlanners -----------------------------
(***************************************************************************)
(* Instances of Planners for TLC.  All requests on all contents at once    *)
(* are too many, so a behaviour offers one mix of them: two requests       *)
(* that move bare planners, two that make and fill planners, or two that   *)
(* update, move and delete planners with items.                            *)
(***************************************************************************)
EXTENDS Planners, TLC

CONSTANTS u1, u2, p1, p2, p3, p4, l1, l2
VARIABLE mix

\* Up to three planners of one user and one of another.
MCOwner == [p \in PlannerIds |-> IF p = p4 THEN u2 ELSE u1]
Symmetry == Permutations(Reqs) \cup Permutations({p1, p2, p3})

\* Below, in and beyond the list.
MCTargets == -1..3

\* One year, where the deletions of an update bite, and two, where they do not;
\* and a span that ends before it starts.
One == [start |-> 1, end |-> 1]
Two == [start |-> 1, end |-> 2]
Back == [start |-> 2, end |-> 1]
MCSpans == {One, Two, Back}

MCAttended == (l1 :> 1) @@ (l2 :> 2)
MCAttendedBy == (u1 :> {l1, l2}) @@ (u2 :> {l2})

Bare == takenItems = {} /\ item = None /\ \A p \in DOMAIN planner : planner[p].span = Two
Small == Cardinality(DOMAIN planner) <= 2 /\ takenItems \subseteq (PlannerIds \ {p4}) \X {l1}
Alike == \A p \in DOMAIN planner : planner[p].span = Two

MCInit ==
  /\ PlannersInit
  /\ mix \in {"order", "filling", "updating"}
  /\ mix = "order" => Bare
  /\ mix # "order" => Small /\ Alike

\* Only to reorder and to import it matters that another user asks.
Asked(q) == q.user = u2 => q.op = "reorder" \/ (q.op = "update" /\ q.imports)

Offered(q) ==
  CASE mix = "order" -> \/ q.op \in {"delete", "reorder"}
                        \/ q.op = "create" /\ q.span = Two /\ q.tracks = {} /\ ~q.imports /\ q.src = {}
    [] mix = "filling" -> \/ q.op = "create" /\ q.tracks = {} /\ q.src = DOMAIN planner
                             /\ q.span \in {One, Two} /\ \A r \in Reqs : req[r].op # "create"
                          \/ q.op \in {"delete", "remove"}
                          \/ q.op = "exclude" /\ q.excluded
                          \/ q.op = "add" /\ q.kind = "arbitrary" /\ q.year = 1
    [] mix = "updating" -> \/ q.op = "update" /\ (q.span = Back => q.imports) /\ (q.span = One \/ q.tracks = {})
                           \/ q.op = "delete"
                           \/ q.op = "reorder" /\ q.to = 0

MCNext ==
  /\ PlannersNext
  /\ \A r \in Reqs : req[r].pc = "idle" /\ req'[r].pc # "idle" =>
       Asked(req'[r]) /\ Offered(req'[r])
  /\ UNCHANGED mix

MCSpec == MCInit /\ [][MCNext]_<<plannersVars, mix>>
=============================================================================
