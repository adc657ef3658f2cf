------------------------------ MODULE Planners ------------------------------
(***************************************************************************)
(* The graduation planners of users: rows with a position                  *)
(* (arrange_order), a span of years and additional tracks, and the items   *)
(* of each, either taken lectures (unique in a planner) or future and      *)
(* arbitrary items.  Most requests take a planner of another user as well; *)
(* which lectures they import and, but for a deletion, which planners give *)
(* way is then still up to the user who asks.                              *)
(*                                                                         *)
(* The methods of planners.service.ts are                                  *)
(* @Transactional, but the repository runs all its statements outside of   *)
(* the transaction except the shifting of positions.  So a request is a    *)
(* row of committed statements, with one transaction at its end for        *)
(* reorder and delete; it may stop between any two of them.  Of an item the *)
(* model keeps the year and, unless it is a taken lecture, whether it is   *)
(* excluded.                                                               *)
(***************************************************************************)
EXTENDS Integers, FiniteSets, Functions, SequencesExt

CONSTANTS Planning,    \* users
          PlannerIds,  \* planner ids; autoincrement never reuses one
          Owner,       \* whose planner gets an id
          NoId,        \* no planner
          Reqs,        \* requests (bounds their number)
          Targets,     \* the positions that reorder asks for: any integer
          Tracks,      \* additional tracks
          Spans,       \* [start, end] of requests: nobody compares the two
          Attended,    \* past lectures, function to their years
          AttendedBy,  \* the lectures of each user
          MaxItem      \* bound: item ids 1..MaxItem

Years == UNION {{s.start, s.end} : s \in Spans}
Kinds == {"future", "arbitrary"}

ASSUME PlannersAssumption ==
  /\ IsFiniteSet(PlannerIds) /\ NoId \notin PlannerIds
  /\ IsFiniteSet(Targets) /\ Targets \subseteq Int
  /\ Owner \in [PlannerIds -> Planning] /\ AttendedBy \in [Planning -> SUBSET DOMAIN Attended]
  /\ \A s \in Spans : s.start \in Int /\ s.end \in Int
  /\ \A l \in DOMAIN Attended : Attended[l] \in Int
  /\ MaxItem \in Nat

VARIABLES planner,     \* committed rows: id -> [order, span, tracks]
          used,        \* planner ids ever inserted
          takenItems,  \* pairs <<planner, lecture>>
          item,        \* item id -> [planner, kind, year, excluded]
          nextItem,    \* autoincrement of items
          req,         \* requests
          overlapped,  \* history: two requests have been open at once
          displaced    \* history: users whose list lost a position, see Fail, Commit

plannersVars == <<planner, used, takenItems, item, nextItem, req, overlapped, displaced>>
contents == <<takenItems, item, nextItem>>
history == <<overlapped, displaced>>

None == [x \in {} |-> 0]
OrdersOf(u, d) == [p \in {q \in DOMAIN d : Owner[q] = u} |-> d[p].order]

\* old is the position read first, gone the one the deleted row had, seen the
\* related planners; need lectures and copied items are read before they are
\* inserted; written is what the transaction has changed (and locked).
NoRequest == [pc |-> "idle", op |-> "none", user |-> CHOOSE u \in Planning : TRUE, id |-> NoId, to |-> 0, item |-> 0, year |-> 0, kind |-> "future",
         excluded |-> FALSE,
         span |-> CHOOSE s \in Spans : TRUE, tracks |-> {}, imports |-> FALSE,
         src |-> {}, old |-> 0, gone |-> 0, seen |-> None, need |-> {}, had |-> {},
         copied |-> None, todo |-> {}, failing |-> FALSE, written |-> None]
Open(r) == req[r].pc \notin {"idle", "done", "failed"}

Locks(r) == DOMAIN req[r].written
LockedByOther(r, p) == \E q \in Reqs \ {r} : p \in Locks(q)

TakenOf(p) == {l \in DOMAIN Attended : <<p, l>> \in takenItems}
TakenBetween(u, s) == {l \in AttendedBy[u] : s.start <= Attended[l] /\ Attended[l] <= s.end}

PlannersTypeOK ==
  /\ DOMAIN planner \subseteq used /\ used \subseteq PlannerIds
  /\ \A p \in DOMAIN planner : /\ planner[p].order \in Int /\ planner[p].span \in Spans
                               /\ planner[p].tracks \subseteq Tracks
  /\ takenItems \subseteq (DOMAIN planner) \X DOMAIN Attended
  /\ DOMAIN item \subseteq 1..(nextItem - 1)
  /\ \A i \in DOMAIN item : item[i].planner \in DOMAIN planner
  /\ \A r \in Reqs : Locks(r) \subseteq DOMAIN planner
  /\ \A q, r \in Reqs : q # r => Locks(q) \cap Locks(r) = {}
  /\ overlapped \in BOOLEAN /\ displaced \subseteq Planning

Row(order, span, tracks) == [order |-> order, span |-> span, tracks |-> tracks]
Item(p, k, y, x) == [planner |-> p, kind |-> k, year |-> y, excluded |-> x]
Contiguous(u, d) == LET f == OrdersOf(u, d) IN Range(f) = 0..(Cardinality(DOMAIN f) - 1)

\* Some planners, of each user in order, each with any taken lectures, and two items.
PlannersInit ==
  /\ \E S \in SUBSET PlannerIds, s \in Spans : \E o \in [S -> 0..(Cardinality(S) - 1)] :
       planner = [p \in S |-> Row(o[p], s, {})]
  /\ \A u \in Planning : Contiguous(u, planner)
  /\ used = DOMAIN planner
  /\ takenItems \in SUBSET ((DOMAIN planner) \X DOMAIN Attended)
  /\ \/ item = None
     \/ \E p \in DOMAIN planner, y \in Years :
          item = <<Item(p, "future", y, FALSE), Item(p, "arbitrary", y, FALSE)>>
  /\ nextItem = Cardinality(DOMAIN item) + 1
  /\ req = [r \in Reqs |-> NoRequest]
  /\ overlapped = FALSE /\ displaced = {}

-----------------------------------------------------------------------------
Asks(u, op, pc) == [NoRequest EXCEPT !.user = u, !.op = op, !.pc = pc]

Ask(r, q) == req' = [req EXCEPT ![r] = q]

\* The bodies of the requests.  "src" are the planners whose items are copied;
\* an update of an item names a planner and an item, of that planner or of
\* another one.
Creations(r, u) ==
  \E s \in Spans, t \in SUBSET Tracks, i \in BOOLEAN, c \in SUBSET DOMAIN planner :
    Ask(r, [Asks(u, "create", "related") EXCEPT !.span = s, !.tracks = t, !.imports = i, !.src = c])
Updates(r, u) ==
  \E p \in DOMAIN planner, s \in Spans, t \in SUBSET Tracks, i \in BOOLEAN :
    Ask(r, [Asks(u, "update", IF i THEN "existing" ELSE "tracks") EXCEPT
              !.id = p, !.span = s, !.tracks = t, !.imports = i])
ItemRequests(r, u) ==
  \E p \in PlannerIds :
    \/ \E k \in Kinds, y \in Years :
         Ask(r, [Asks(u, "add", "check") EXCEPT !.id = p, !.kind = k, !.year = y])
    \/ \E i \in 1..MaxItem, x \in BOOLEAN :
         Ask(r, [Asks(u, "exclude", "check") EXCEPT !.id = p, !.item = i, !.excluded = x])
    \/ \E i \in 1..MaxItem : Ask(r, [Asks(u, "remove", "item") EXCEPT !.id = p, !.item = i])

\* The requests of the controller; PlannerPipe lets an update or a deletion pass
\* for a planner that is there, whosever it is.
Requests(r, u) ==
  \/ Creations(r, u) \/ Updates(r, u) \/ ItemRequests(r, u)
  \/ \E p \in DOMAIN planner : Ask(r, [Asks(u, "delete", "planner") EXCEPT !.id = p])
  \/ \E p \in PlannerIds, k \in Targets : Ask(r, [Asks(u, "reorder", "planner") EXCEPT !.id = p, !.to = k])

Begin(r) ==
  /\ req[r].pc = "idle"
  /\ \E u \in Planning : Requests(r, u)
  /\ overlapped' = (overlapped \/ \E q \in Reqs : Open(q))
  /\ UNCHANGED <<planner, used, contents, displaced>>

Goto(r, pc) == req' = [req EXCEPT ![r].pc = pc]
Finish(r, pc) == req' = [req EXCEPT ![r] = [NoRequest EXCEPT !.pc = pc]]

\* A request that dies keeps what it has committed: a deletion without its
\* shift leaves a gap, a creation a planner without some of its items.
Fail(r) ==
  /\ Open(r)
  /\ Finish(r, "failed")
  /\ displaced' = displaced \cup
       (IF req[r].op = "delete" /\ req[r].pc \in {"shift", "commit"} THEN {Owner[req[r].id]} ELSE {})
  /\ UNCHANGED <<planner, used, contents, overlapped>>

\* getBasicPlannerById of reorder, findUniqueOrThrow of delete: by the id alone.
ReadPlanner(r) ==
  LET p == req[r].id IN
  /\ req[r].pc = "planner"
  /\ IF p \in DOMAIN planner
       THEN req' = [req EXCEPT ![r].pc = "related", ![r].old = planner[p].order]
       ELSE Finish(r, "failed")
  /\ UNCHANGED <<planner, used, contents, history>>

\* getRelatedPlanner of the user who asks; deletePlanner has the same query for
\* the user the planner belongs to.
ListOf(q) == IF q.op = "delete" THEN Owner[q.id] ELSE q.user
AfterRelated(op) == CASE op = "create" -> "insert"
                      [] op = "delete" -> "delete"
                      [] op = "reorder" -> "shift"
ReadRelated(r) ==
  /\ req[r].pc = "related"
  /\ req' = [req EXCEPT ![r].seen = OrdersOf(ListOf(req[r]), planner),
                        ![r].pc = AfterRelated(req[r].op)]
  /\ UNCHANGED <<planner, used, contents, history>>

\* Behind the last of the planners that were read.
NextOrder(d) == IF d = None THEN 0 ELSE Max(Range(d)) + 1

InsertPlanner(r) ==
  /\ req[r].pc = "insert"
  /\ \E p \in {q \in PlannerIds \ used : Owner[q] = req[r].user} :
       /\ planner' = [q \in DOMAIN planner \cup {p} |->
                        IF q = p THEN Row(NextOrder(req[r].seen), req[r].span, req[r].tracks)
                                 ELSE planner[q]]
       /\ used' = used \cup {p}
       /\ req' = [req EXCEPT ![r].id = p, ![r].seen = None,
                             ![r].need = TakenBetween(req[r].user, req[r].span),
                             ![r].pc = IF req[r].imports THEN "import" ELSE "copy",
                             ![r].todo = {"taken"} \cup Kinds]
  /\ UNCHANGED <<contents, history>>

\* createMany of taken items: all or nothing, against the foreign key and the
\* unique index (planner, lecture); an empty list touches nothing.
Insertable(p, lectures) ==
  lectures = {} \/ (p \in DOMAIN planner /\ lectures \cap TakenOf(p) = {})

\* createTakenPlannerItem with what postPlanner or updateTakenLectures imports.
Import(r) ==
  LET p == req[r].id IN
  /\ req[r].pc = "import"
  /\ IF Insertable(p, req[r].need)
       THEN /\ takenItems' = takenItems \cup ({p} \X req[r].need)
            /\ Goto(r, IF req[r].op = "create" THEN "copy" ELSE "purge future")
       ELSE /\ Finish(r, "failed")
            /\ UNCHANGED takenItems
  /\ UNCHANGED <<planner, used, item, nextItem, history>>

\* The three copies of postPlanner run side by side.  Each reads its items,
\* pairs of where they are and what is copied, and then inserts copies.
Copyable(b, src) ==
  IF b = "taken" THEN {t \in takenItems : t[1] \in src}
  ELSE {<<i, [year |-> item[i].year, excluded |-> item[i].excluded]>> : i \in {j \in DOMAIN item : item[j].kind = b /\ item[j].planner \in src}}
Whats(pairs) == {x[2] : x \in pairs}

ReadCopy(r, b) ==
  /\ req[r].pc = "copy" /\ b \in req[r].todo \ DOMAIN req[r].copied
  /\ req' = [req EXCEPT ![r].copied = [c \in DOMAIN @ \cup {b} |->
                                         IF c = b THEN Copyable(b, req[r].src) ELSE @[c]]]
  /\ UNCHANGED <<planner, used, contents, history>>

InsertItems(p, k, whats) ==
  /\ nextItem + Len(whats) <= MaxItem + 1
  /\ item' = [i \in DOMAIN item \cup (nextItem..(nextItem + Len(whats) - 1)) |->
                IF i < nextItem THEN item[i]
                ELSE LET w == whats[i - nextItem + 1] IN Item(p, k, w.year, w.excluded)]
  /\ nextItem' = nextItem + Len(whats)

\* The copies still running go on when one fails; then the request fails.
EndCopy(r, b, ok) ==
  LET rest == req[r].todo \ {b}
      bad  == req[r].failing \/ ~ok
  IN IF rest = {} /\ bad THEN Finish(r, "failed")
     ELSE req' = [req EXCEPT ![r].todo = rest, ![r].failing = bad,
                             ![r].pc = IF rest = {} THEN "final" ELSE "copy"]

InsertCopy(r, b) ==
  LET p     == req[r].id
      pairs == req[r].copied[b]
      ok    == IF b = "taken" THEN /\ Insertable(p, Whats(pairs))
                                   /\ Cardinality(Whats(pairs)) = Cardinality(pairs)
               ELSE pairs = {} \/ p \in DOMAIN planner
  IN
  /\ req[r].pc = "copy" /\ b \in req[r].todo \cap DOMAIN req[r].copied
  /\ EndCopy(r, b, ok)
  /\ takenItems' = IF ok /\ b = "taken" THEN takenItems \cup ({p} \X Whats(pairs)) ELSE takenItems
  /\ IF ok /\ b \in Kinds
       THEN InsertItems(p, b, [n \in 1..Cardinality(pairs) |-> SetToSeq(pairs)[n][2]])
       ELSE UNCHANGED <<item, nextItem>>
  /\ UNCHANGED <<planner, used, history>>

\* getPlannerById before the answer of postPlanner and removePlannerItem finds a
\* planner of the user; a foreign item is removed by then.
ReadFinal(r) ==
  /\ req[r].pc = "final"
  /\ Finish(r, IF req[r].id \in DOMAIN planner /\ Owner[req[r].id] = req[r].user
                 THEN "done" ELSE "failed")
  /\ UNCHANGED <<planner, used, contents, history>>

-----------------------------------------------------------------------------
\* DELETE of the row, committed at once, with all that refers to it.
DeletePlanner(r) ==
  LET p == req[r].id IN
  /\ req[r].pc = "delete"
  /\ ~LockedByOther(r, p)
  /\ IF p \in DOMAIN planner
       THEN /\ planner' = Restrict(planner, DOMAIN planner \ {p})
            /\ takenItems' = {t \in takenItems : t[1] # p}
            /\ item' = Restrict(item, {i \in DOMAIN item : item[i].planner # p})
            /\ req' = [req EXCEPT ![r].pc = "shift", ![r].gone = planner[p].order]
       ELSE /\ Finish(r, "failed")
            /\ UNCHANGED <<planner, takenItems, item>>
  /\ UNCHANGED <<used, nextItem, history>>

\* Mutant: moving up a list shifts the others down too.
Down(q) == [ids |-> DOMAIN q.seen, by |-> -1,
            from |-> IF q.op = "delete" \/ q.old < q.to THEN q.old + 1 ELSE q.to,
            upto |-> IF q.op = "delete" THEN Cardinality(DOMAIN q.seen)
                     ELSE IF q.old < q.to THEN q.to ELSE q.old - 1]

\* Which planners give way, by how much (those of the list that was read, even
\* if the planner that moves is not in it): reorder shifts those between the old
\* and the new position, delete those behind, as far as there were planners.
Shift(q) ==
  CASE q.op = "delete" ->
         [ids |-> {p \in DOMAIN q.seen : q.seen[p] > q.gone}, by |-> -1,
          from |-> q.old + 1, upto |-> Cardinality(DOMAIN q.seen)]
    [] q.op = "reorder" /\ q.old < q.to ->
         [ids |-> DOMAIN q.seen, by |-> -1, from |-> q.old + 1, upto |-> q.to]
    [] q.op = "reorder" /\ q.old >= q.to ->
         [ids |-> DOMAIN q.seen, by |-> 1, from |-> q.to, upto |-> q.old - 1]

InRange(n, s) == s.from <= n /\ n <= s.upto

\* incrementOrders and decrementOrders: one UPDATE in the transaction, on the
\* rows as they are now; it waits for rows in the range that others have locked.
ShiftOrders(r) ==
  LET s == Shift(req[r])
      rows == {p \in s.ids \cap DOMAIN planner : InRange(planner[p].order, s)}
  IN
  /\ req[r].pc = "shift"
  /\ \A q \in Reqs \ {r} : \A p \in s.ids \cap Locks(q) :
       ~InRange(planner[p].order, s) /\ ~InRange(req[q].written[p], s)
  /\ req' = [req EXCEPT ![r].written = [p \in rows |-> planner[p].order + s.by],
                        ![r].pc = IF req[r].op = "delete" THEN "commit" ELSE "place"]
  /\ UNCHANGED <<planner, used, contents, history>>

\* updateOrder, in the same transaction; a planner deleted meanwhile is an
\* error, and the shift is rolled back.
UpdateOrder(r) ==
  LET p == req[r].id IN
  /\ req[r].pc = "place"
  /\ ~LockedByOther(r, p)
  /\ IF p \in DOMAIN planner
       THEN req' = [req EXCEPT ![r].pc = "commit",
                               ![r].written = [q \in DOMAIN @ \cup {p} |->
                                                 IF q = p THEN req[r].to ELSE @[q]]]
       ELSE Finish(r, "failed")
  /\ UNCHANGED <<planner, used, contents, history>>

InList(q) == q.op = "reorder" =>
  /\ Owner[q.id] = q.user
  /\ q.to \in 0..(Cardinality(DOMAIN OrdersOf(q.user, planner)) - 1)

\* The end of the transaction; a position outside of the list is accepted, and a
\* planner of another user, whose list keeps the others where they are.
Commit(r) ==
  LET w == req[r].written IN
  /\ req[r].pc = "commit"
  /\ planner' = [p \in DOMAIN planner |->
       IF p \in DOMAIN w THEN Row(w[p], planner[p].span, planner[p].tracks) ELSE planner[p]]
  /\ displaced' = displaced \cup (IF InList(req[r]) THEN {} ELSE {req[r].user, Owner[req[r].id]})
  /\ Finish(r, "done")
  /\ UNCHANGED <<used, contents, overlapped>>

-----------------------------------------------------------------------------
\* updateTakenLectures: the lectures of the years that are not there yet, of the
\* user who asks.
ReadExisting(r) ==
  /\ req[r].pc = "existing"
  /\ req' = [req EXCEPT ![r].pc = "import",
                        ![r].need = TakenBetween(req[r].user, req[r].span) \ TakenOf(req[r].id)]
  /\ UNCHANGED <<planner, used, contents, history>>

\* Mutant: the years the update keeps.
Inside(y, s) == s.start <= y /\ y <= s.end

\* The range of the three deletions as the code has it: up to the first year
\* and from the last.
Outdated(y, s) == y <= s.start /\ y >= s.end

PurgeItems(r, pc, k, next) ==
  /\ req[r].pc = pc
  /\ item' = Restrict(item, {i \in DOMAIN item :
                ~(item[i].planner = req[r].id /\ item[i].kind = k /\ Outdated(item[i].year, req[r].span))})
  /\ Goto(r, next)
  /\ UNCHANGED <<planner, used, takenItems, nextItem, history>>

PurgeTaken(r) ==
  /\ req[r].pc = "purge taken"
  /\ takenItems' = {t \in takenItems : ~(t[1] = req[r].id /\ Outdated(Attended[t[2]], req[r].span))}
  /\ Goto(r, "tracks")
  /\ UNCHANGED <<planner, used, item, nextItem, history>>

\* updatePlanner: the additional tracks that were read decide what is taken
\* away and what is added (unique, all or nothing); then the row itself.
ReadTracks(r) ==
  LET p == req[r].id IN
  /\ req[r].pc = "tracks"
  /\ req' = [req EXCEPT ![r].pc = "disconnect",
                        ![r].had = IF p \in DOMAIN planner THEN planner[p].tracks ELSE {}]
  /\ UNCHANGED <<planner, used, contents, history>>

WithTracks(p, t) == [planner EXCEPT ![p] = Row(planner[p].order, planner[p].span, t)]

Disconnect(r) ==
  LET p == req[r].id IN
  /\ req[r].pc = "disconnect"
  /\ planner' = IF p \in DOMAIN planner
                  THEN WithTracks(p, planner[p].tracks \ (req[r].had \ req[r].tracks))
                  ELSE planner
  /\ Goto(r, "connect")
  /\ UNCHANGED <<used, contents, history>>

Connect(r) ==
  LET p   == req[r].id
      new == req[r].tracks \ req[r].had
  IN
  /\ req[r].pc = "connect"
  /\ IF new = {} \/ (p \in DOMAIN planner /\ new \cap planner[p].tracks = {})
       THEN /\ planner' = IF new = {} THEN planner
                          ELSE WithTracks(p, planner[p].tracks \cup new)
            /\ Goto(r, "row")
       ELSE /\ Finish(r, "failed")
            /\ UNCHANGED planner
  /\ UNCHANGED <<used, contents, history>>

UpdateRow(r) ==
  LET p == req[r].id IN
  /\ req[r].pc = "row"
  /\ ~LockedByOther(r, p)
  /\ IF p \in DOMAIN planner
       THEN /\ planner' = [planner EXCEPT ![p] = Row(@.order, req[r].span, @.tracks)]
            /\ Finish(r, "done")
       ELSE /\ Finish(r, "failed")
            /\ UNCHANGED planner
  /\ UNCHANGED <<used, contents, history>>

-----------------------------------------------------------------------------
\* addArbitraryItem, createFuturePlannerItem, updatePlannerItem: look the
\* planner up, then insert or update.  Only the first asks whose it is.
CheckPlanner(r) ==
  /\ req[r].pc = "check"
  /\ IF /\ req[r].id \in DOMAIN planner
        /\ req[r].op = "add" /\ req[r].kind = "arbitrary" => Owner[req[r].id] = req[r].user
       THEN Goto(r, IF req[r].op = "add" THEN "insert item" ELSE "update item")
       ELSE Finish(r, "failed")
  /\ UNCHANGED <<planner, used, contents, history>>

InsertItem(r) ==
  /\ req[r].pc = "insert item"
  /\ IF req[r].id \in DOMAIN planner
       THEN /\ InsertItems(req[r].id, req[r].kind,
                        <<[year |-> req[r].year, excluded |-> FALSE]>>)
            /\ Finish(r, "done")
       ELSE /\ Finish(r, "failed")
            /\ UNCHANGED <<item, nextItem>>
  /\ UNCHANGED <<planner, used, takenItems, history>>

\* updatePlannerItem: the item by its id alone, whichever planner it is in.
UpdateItem(r) ==
  LET i == req[r].item IN
  /\ req[r].pc = "update item"
  /\ IF i \in DOMAIN item
       THEN /\ item' = [item EXCEPT ![i].excluded = req[r].excluded]
            /\ Finish(r, "done")
       ELSE /\ Finish(r, "failed")
            /\ UNCHANGED item
  /\ UNCHANGED <<planner, used, takenItems, nextItem, history>>

\* removePlannerItem: only an item of the planner that was named; gone by the
\* time of the DELETE it is an error.
CheckItem(r) ==
  LET i == req[r].item IN
  /\ req[r].pc = "item"
  /\ IF i \in DOMAIN item /\ item[i].planner = req[r].id
       THEN Goto(r, "delete item") ELSE Finish(r, "failed")
  /\ UNCHANGED <<planner, used, contents, history>>

DeleteItem(r) ==
  LET i == req[r].item IN
  /\ req[r].pc = "delete item"
  /\ IF i \in DOMAIN item
       THEN /\ item' = Restrict(item, DOMAIN item \ {i})
            /\ Goto(r, "final")
       ELSE /\ Finish(r, "failed")
            /\ UNCHANGED item
  /\ UNCHANGED <<planner, used, takenItems, nextItem, history>>

PlannersNext ==
  \E r \in Reqs :
    \/ Begin(r) \/ Fail(r) \/ ReadPlanner(r) \/ ReadRelated(r)
    \/ InsertPlanner(r) \/ Import(r) \/ ReadFinal(r)
    \/ (\E b \in {"taken"} \cup Kinds : ReadCopy(r, b) \/ InsertCopy(r, b))
    \/ DeletePlanner(r) \/ ShiftOrders(r) \/ UpdateOrder(r) \/ Commit(r)
    \/ ReadExisting(r) \/ PurgeItems(r, "purge future", "future", "purge arbitrary")
    \/ PurgeItems(r, "purge arbitrary", "arbitrary", "purge taken") \/ PurgeTaken(r)
    \/ ReadTracks(r) \/ Disconnect(r) \/ Connect(r) \/ UpdateRow(r)
    \/ CheckPlanner(r) \/ InsertItem(r) \/ UpdateItem(r) \/ CheckItem(r) \/ DeleteItem(r)

PlannersSpec == PlannersInit /\ [][PlannersNext]_plannersVars

-----------------------------------------------------------------------------
\* As long as requests do not overlap, the planners of a user hold the positions
\* 0..n-1, each once - through failed creations too - unless a deletion among
\* them stopped before its shift, a position outside of the list was asked for,
\* somebody else moved one of them or the user moved somebody else's.  And
\* whatever overlaps or fails, no position sinks below 0 and below the lowest one
\* asked for: each shift downwards starts behind the position it frees.
OrdersHold ==
  /\ PlannersTypeOK
  /\ ~overlapped /\ (\A r \in Reqs : req[r].pc \notin {"shift", "commit"})
       => \A u \in Planning \ displaced : Contiguous(u, planner)
  /\ \A p \in DOMAIN planner : planner[p].order >= Min(Targets \cup {0})

\* What the answer of a request promises, with q the request as it was before.
ItemsLike(p, k, y, x) == {i \in DOMAIN item' : item'[i] = Item(p, k, y, x)}
Promised(q) ==
  LET p == q.id IN
  CASE q.op = "create" ->
         /\ planner'[p].span = q.span /\ planner'[p].tracks = q.tracks
         /\ {l \in DOMAIN Attended : <<p, l>> \in takenItems'}
              = Whats(q.copied["taken"]) \cup (IF q.imports THEN TakenBetween(q.user, q.span) ELSE {})
         /\ \A k \in Kinds, y \in Years, x \in BOOLEAN :
              Cardinality(ItemsLike(p, k, y, x))
                = Cardinality({c \in q.copied[k] : c[2] = [year |-> y, excluded |-> x]})
    [] q.op = "delete" -> p \notin DOMAIN planner'
    [] q.op = "reorder" ->
         /\ planner'[p].order = q.to
         /\ Owner[p] \notin displaced' =>
              \A s, t \in {o \in DOMAIN planner \ {p} : Owner[o] = Owner[p]} :
                planner'[s].order < planner'[t].order <=> planner[s].order < planner[t].order
    [] q.op = "update" ->
         /\ planner'[p].span = q.span /\ planner'[p].tracks = q.tracks
         /\ q.imports /\ q.span.start # q.span.end =>
              {p} \X TakenBetween(q.user, q.span) \subseteq takenItems'
    [] q.op = "add" -> ItemsLike(p, q.kind, q.year, FALSE) # {}
    [] q.op = "exclude" -> item'[q.item] = [item[q.item] EXCEPT !.excluded = q.excluded]
    [] q.op = "remove" -> q.item \notin DOMAIN item'

\* A request that meets no other and is answered has done what it asked for,
\* over all the statements it consists of.
AnswersHold ==
  [][~overlapped' => \A r \in Reqs :
       Open(r) /\ req'[r].pc = "done" => Promised(req[r])]_plannersVars
=============================================================================
