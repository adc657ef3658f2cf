----------------------------- MODULE Schedules -----------------------------
(***************************************************************************)
(* What a user is shown of a friend's schedule (friends.service.ts), while *)
(* the friend and the synchronisation change it.  A custom block is a      *)
(* parent row with the first of its times and child rows with all of them; *)
(* older server instances, which run beside the new ones during a rolling  *)
(* deployment, know the parent row only (ECustomblock.ts).                 *)
(*                                                                         *)
(* Prisma reads rows and those they refer to by statements of their own,   *)
(* outside a transaction; a writer locks the timetable, a reader does not. *)
(* A time of the week is a moment; the friend has one timetable.           *)
(***************************************************************************)
EXTENDS Naturals, Sequences, FiniteSets, SequencesExt

CONSTANTS Moments,
          Sections,    \* the lectures
          FactsOf,     \* FactsOf[l]: its term, course, professors and moment
          SavedTerm,   \* the term of the timetable
          MaxBlocks, MaxWrites

ASSUME SchedulesAssumption ==
  /\ MaxBlocks \in Nat \ {0} /\ MaxWrites \in Nat /\ 0 \notin Moments /\ IsFiniteSet(Sections)
  /\ \A l \in Sections : FactsOf[l].at \in Moments /\ FactsOf[l].term \in Nat

VARIABLES block,    \* block[b]: a row of block_custom_blocks with its times
          mapped,   \* the block that is in the timetable, or 0
          saved,    \* lectures in the timetable
          taken,    \* the friend's taken lectures
          deleted,  \* lectures marked as deleted
          close,    \* whether the two are friends
          edit,     \* an open request of a new server on the timetable
          meant,    \* history: meant[b]: the times that were asked for
          view,     \* the request that looks at the friend's schedule
          writes    \* counts writes

timetableVars == <<block, mapped, saved, taken, deleted, close>>
scheduleVars  == <<timetableVars, edit, meant, view, writes>>

NoBlockRow == [parent |-> 0, times |-> <<>>]
IsBlock(b) == block[b] # NoBlockRow
TimeLists == {<<m>> : m \in Moments} \cup {<<m, n>> : m, n \in Moments}

\* got: what was read; past: all that could be seen since the request began;
\* same: nothing was written since then.
NoView == [kind |-> "list", pc |-> "idle", terms |-> {}, now |-> 0, about |-> 0, block |-> 0,
           got |-> {}, past |-> {}, same |-> TRUE]

ScheduleTypes ==
  /\ \A b \in 1..MaxBlocks : block[b].parent \in Moments \cup {0} /\ block[b].times \in TimeLists \cup {<<>>}
  /\ mapped \in 0..MaxBlocks /\ (mapped # 0 => IsBlock(mapped))
  /\ saved \subseteq Sections /\ taken \subseteq Sections /\ deleted \subseteq Sections
  /\ close \in BOOLEAN /\ writes \in 0..MaxWrites

-----------------------------------------------------------------------------
\* Mutant: the child rows, where there are any.
GetTimesOfChildren(b) == IF b.times = <<>> THEN <<b.parent>> ELSE b.times
\* ECustomblock.getTimes: the first time is the parent's, the first child may
\* be stale.
GetTimes(b) == <<b.parent>> \o SubSeq(b.times, 2, Len(b.times))

\* Bodies of requests: all times, the first time alone, or neither.
Bodies == [times : TimeLists, first : {0}] \cup [times : {<<>>}, first : Moments \cup {0}]

\* ECustomblock.applyUpdate.
ApplyUpdate(L, body) == IF body.times # <<>> THEN body.times
                        ELSE <<IF body.first # 0 THEN body.first ELSE Head(L)>> \o Tail(L)

Distinct(L) == \A p, q \in DOMAIN L : L[p] = L[q] => p = q
At(S) == {FactsOf[l].at : l \in S}
\* validateCustomblockTime: against the block itself and the lectures.
ValidTimesFor(L) == Distinct(L) /\ ToSet(L) \cap At(saved) = {}

\* What the timetable shows, and the lectures of the friend.
OfBlock(b) == IF b = 0 THEN {} ELSE ToSet(meant[b])
TableShows == At(saved) \cup OfBlock(mapped)
BusyAt(terms) ==
  {FactsOf[l].at : l \in {k \in (saved \cup taken) \ deleted : FactsOf[k].term \in terms}}
    \cup (IF SavedTerm \in terms THEN OfBlock(mapped) ELSE {})

\* What a request could see now: the moments at which the friend is busy or the
\* timetable shows something, or the lectures of a course.
OfCourse(l, S) == {k \in S : FactsOf[k].course = FactsOf[l].course}
Visible(v) == CASE v.kind = "list"    -> IF close THEN BusyAt(v.terms) ELSE {}
                [] v.kind = "table"   -> TableShows
                [] v.kind = "overlap" -> OfCourse(v.about, taken) \X {"official"}
                                           \cup OfCourse(v.about, saved) \X {"saved"}
Looking == view.pc \notin {"idle", "answered"}
Write ==
  /\ writes < MaxWrites /\ writes' = writes + 1
  /\ \E v \in {view} :
       view' = IF Looking THEN [v EXCEPT !.same = FALSE, !.past = @ \cup Visible(v)'] ELSE v

-----------------------------------------------------------------------------
\* A new server locks the timetable and reads its block ...
NoEdit == [open |-> FALSE, block |-> 0, seen |-> <<>>]
OpenEdit ==
  /\ ~edit.open
  /\ edit' = [open |-> TRUE, block |-> mapped, seen |-> IF mapped = 0 THEN <<>> ELSE GetTimes(block[mapped])]
  /\ UNCHANGED <<timetableVars, meant, view, writes>>

Refuse == edit.open /\ edit' = NoEdit /\ UNCHANGED <<timetableVars, meant, view, writes>>

\* ... and makes a block: the parent row holds the first of the times ...
CreateBlock(b, L) ==
  /\ edit.open /\ edit.block = 0 /\ mapped = 0 /\ ~IsBlock(b) /\ ValidTimesFor(L)
  /\ block' = [block EXCEPT ![b] = [parent |-> L[1], times |-> L]]
  /\ meant' = [meant EXCEPT ![b] = L] /\ mapped' = b /\ edit' = NoEdit
  /\ UNCHANGED <<saved, taken, deleted, close>> /\ Write

\* updateCustomblock: the parent and all child rows are written.
UpdateRows(row, L) == [row EXCEPT !.parent = L[1], !.times = L]

\* ... or changes it.  A request that leaves the times alone writes those it
\* read: what an older server wrote meanwhile is undone.
UpdateBlock(body) ==
  LET b == edit.block
      L == ApplyUpdate(edit.seen, body) IN
  /\ edit.open /\ b # 0 /\ ValidTimesFor(L)
  /\ block' = [block EXCEPT ![b] = UpdateRows(block[b], L)]
  /\ meant' = [meant EXCEPT ![b] = IF body.times # <<>> THEN body.times
                                   ELSE IF body.first # 0 THEN [meant[b] EXCEPT ![1] = body.first]
                                   ELSE IF meant[b][1] # edit.seen[1] THEN edit.seen ELSE meant[b]]
  /\ edit' = NoEdit
  /\ UNCHANGED <<mapped, saved, taken, deleted, close>> /\ Write

\* removeCustomblockFromTimetable: the rows of the block stay.
RemoveBlock ==
  /\ edit.open /\ edit.block # 0 /\ mapped' = 0 /\ edit' = NoEdit
  /\ UNCHANGED <<block, saved, taken, deleted, close, meant>> /\ Write

\* addLecture, removeLecture (a clash with the block is refused).
SaveLecture(l) ==
  /\ edit.open /\ edit' = NoEdit
  /\ saved' = IF l \in saved THEN saved \ {l} ELSE saved \cup {l}
  /\ l \notin saved => FactsOf[l].at \notin At(saved) \cup ToSet(edit.seen) /\ FactsOf[l].term = SavedTerm
  /\ UNCHANGED <<block, mapped, taken, deleted, close, meant>> /\ Write

\* Older servers write the parent row (external: not in this repository).
OldCreate(b, m) ==
  /\ ~edit.open /\ mapped = 0 /\ ~IsBlock(b) /\ m \notin At(saved)
  /\ block' = [block EXCEPT ![b] = [parent |-> m, times |-> <<>>]]
  /\ meant' = [meant EXCEPT ![b] = <<m>>] /\ mapped' = b
  /\ UNCHANGED <<saved, taken, deleted, close, edit>> /\ Write
OldUpdate(m) ==
  /\ mapped # 0 /\ m \notin At(saved)
  /\ block' = [block EXCEPT ![mapped].parent = m]
  /\ meant' = [meant EXCEPT ![mapped][1] = m]
  /\ UNCHANGED <<mapped, saved, taken, deleted, close, edit>> /\ Write

\* The synchronisation changes taken lectures and marks lectures.
SyncTaken(l) ==
  /\ taken' = IF l \in taken THEN taken \ {l} ELSE taken \cup {l}
  /\ UNCHANGED <<block, mapped, saved, deleted, close, edit, meant>> /\ Write
SyncDeleted(l) ==
  /\ deleted' = IF l \in deleted THEN deleted \ {l} ELSE deleted \cup {l}
  /\ UNCHANGED <<block, mapped, saved, taken, close, edit, meant>> /\ Write

\* deleteFriend, by either of the two.
Unfriend ==
  /\ close /\ close' = FALSE
  /\ UNCHANGED <<block, mapped, saved, taken, deleted, edit, meant>> /\ Write

-----------------------------------------------------------------------------
Look(v) == view.pc = "idle" /\ view' = [v EXCEPT !.past = Visible(v)]
           /\ UNCHANGED <<timetableVars, edit, meant, writes>>
Read(pc, v) == view.pc = pc /\ view' = v /\ UNCHANGED <<timetableVars, edit, meant, writes>>

\* getFriends: the rows of the friends and the terms that are going on (without
\* one nothing is asked, and nothing said of the friend's time).
GetFriends(terms, now) ==
  close /\ Look([NoView EXCEPT !.kind = "list", !.pc = "matches", !.terms = terms, !.now = now])

\* getFriendIdsWithScheduleAt: taken lectures, saved lectures and parent rows in
\* one statement ...
Matches ==
  LET now    == view.now
      listed == {l \in (saved \cup taken) \ deleted : FactsOf[l].term \in view.terms}
      parent == mapped # 0 /\ SavedTerm \in view.terms /\ block[mapped].parent = now
      found  == close /\ (now \in At(listed) \/ parent) IN
  Read("matches", [view EXCEPT !.pc = "extra", !.got = IF found THEN {now} ELSE {}])

\* Mutant: every child row counts.
AnyChild(row, m) == \E p \in DOMAIN row.times : row.times[p] = m
\* ... and the child rows that have an earlier one in another.
LaterChild(row, m) == \E p \in DOMAIN row.times : row.times[p] = m /\ p > 1
ExtraMatches ==
  LET found == close /\ mapped # 0 /\ SavedTerm \in view.terms /\ LaterChild(block[mapped], view.now) IN
  Read("extra", [view EXCEPT !.pc = "answered", !.got = IF found THEN @ \cup {view.now} ELSE @])

\* getTimetable: the friendship is checked first ...
GetTimetable == close /\ Look([NoView EXCEPT !.kind = "table", !.pc = "table"])
\* ... then the timetable is read with its lectures and blocks, ...
ReadTimetable ==
  Read("table", [view EXCEPT !.pc = IF mapped = 0 THEN "answered" ELSE "parent", !.block = mapped, !.got = At(saved)])
\* ... the parent rows ...
ReadParent == Read("parent", [view EXCEPT !.pc = "times", !.got = @ \cup {block[view.block].parent}])
\* ... and the child rows, of which the first is passed over.
ReadTimes ==
  Read("times", [view EXCEPT !.pc = "answered", !.got = @ \cup ToSet(Tail(GetTimes(block[view.block])))])

\* getOverlaps: the lectures of a course, as taken ...
GetOverlaps(l) == close /\ Look([NoView EXCEPT !.kind = "overlap", !.pc = "taken", !.about = l])
ReadOfficial ==
  Read("taken", [view EXCEPT !.pc = "saved", !.got = OfCourse(view.about, taken) \X {"official"}])
\* ... and in timetables.
ReadSaved ==
  Read("saved", [view EXCEPT !.pc = "answered", !.got = @ \cup OfCourse(view.about, saved) \X {"saved"}])

\* The group a lecture k of the same course belongs to; the first group that
\* is not empty is answered.
GroupOf(l, k) ==
  CASE k = l -> "same"
    [] k # l /\ FactsOf[k].term = FactsOf[l].term -> "section"
    [] OTHER -> IF FactsOf[k].professors \cap FactsOf[l].professors # {} THEN "other" ELSE "none"
Groups == <<"same", "section", "other">>
\* The answer: the first of the latest term, the official timetable before saved ones.
Overlap(l, got) ==
  LET of(g)  == {x \in got : GroupOf(l, x[1]) = g}
      some   == {p \in 1..3 : of(Groups[p]) # {}}
      g      == Groups[Min(some)]
      latest == {x \in of(g) : \A y \in of(g) : FactsOf[y[1]].term <= FactsOf[x[1]].term} IN
  IF some = {} THEN [group |-> "none", from |-> {}]
  ELSE [group |-> g, from |-> IF \E x \in latest : x[2] = "official"
                              THEN {x \in latest : x[2] = "official"} ELSE latest]

Shown == view.pc = "answered" /\ view' = NoView /\ UNCHANGED <<timetableVars, edit, meant, writes>>

-----------------------------------------------------------------------------
SchedulesInit ==
  /\ mapped \in {0, 1}
  /\ \E row \in [parent : Moments, times : {<<>>} \cup {L \in TimeLists : Distinct(L)}] :
       /\ Distinct(GetTimes(row))
       /\ block = [b \in 1..MaxBlocks |-> IF b = mapped THEN row ELSE NoBlockRow]
       /\ meant = [b \in 1..MaxBlocks |-> IF b = mapped THEN GetTimes(row) ELSE <<>>]
  /\ saved \in SUBSET {l \in Sections : FactsOf[l].term = SavedTerm}
  /\ At(saved) \cap OfBlock(mapped) = {}
  /\ \A k, l \in saved : FactsOf[k].at = FactsOf[l].at => k = l
  /\ taken \in SUBSET Sections /\ deleted = {}
  /\ close = TRUE /\ edit = NoEdit /\ view = NoView /\ writes = 0

EditSteps == OpenEdit \/ Refuse \/ RemoveBlock
WriteSteps ==
  \/ \E b \in 1..MaxBlocks, L \in TimeLists : CreateBlock(b, L)
  \/ \E body \in Bodies : UpdateBlock(body)
  \/ \E l \in Sections : SaveLecture(l) \/ SyncTaken(l) \/ SyncDeleted(l)
  \/ \E b \in 1..MaxBlocks, m \in Moments : OldCreate(b, m)
  \/ \E m \in Moments : OldUpdate(m)
  \/ Unfriend
ViewSteps ==
  \/ \E terms \in SUBSET {FactsOf[l].term : l \in Sections} \ {{}}, now \in Moments : GetFriends(terms, now)
  \/ Matches \/ ExtraMatches
  \/ GetTimetable \/ ReadTimetable \/ ReadParent \/ ReadTimes
  \/ \E l \in Sections : GetOverlaps(l)
  \/ ReadOfficial \/ ReadSaved \/ Shown
SchedulesNext == EditSteps \/ WriteSteps \/ ViewSteps

SchedulesSpec == SchedulesInit /\ [][SchedulesNext]_scheduleVars

-----------------------------------------------------------------------------
\* A block has the times its requests gave it, in their order, whichever server
\* wrote which of its rows: an older server changes the first time and keeps
\* the others, a new one may follow it in any order.
BlocksAsAsked ==
  /\ ScheduleTypes
  /\ \A b \in 1..MaxBlocks : IsBlock(b) => GetTimes(block[b]) = meant[b]

\* The lecture that stands for the friend, said without the order of the code.
RightOverlap(l, got, answer) ==
  LET held   == {x[1] : x \in got}
      terms  == {FactsOf[k].term : k \in {h \in held : FactsOf[h].professors \cap FactsOf[l].professors # {}}}
      chosen == {x[1] : x \in answer.from} IN
  /\ chosen \subseteq held
  /\ l \in held => chosen = {l} /\ answer.group = "same"
  /\ l \notin held /\ (\E k \in held : FactsOf[k].term = FactsOf[l].term) =>
       chosen # {} /\ (\A k \in chosen : FactsOf[k].term = FactsOf[l].term) /\ answer.group = "section"
  /\ (\A k \in held : FactsOf[k].term # FactsOf[l].term) =>
       /\ chosen = {} <=> terms = {}
       /\ \A k \in chosen : FactsOf[k].term = Max(terms) /\ answer.group = "other"

\* What a user is shown of a friend was there: a time at which the friend is
\* said to be busy, a time in the timetable and a lecture in common were the
\* friend's at some moment of the request, though its statements read different
\* states.  If nothing was written meanwhile nothing is missing either, and the
\* list of friends, which reads parent and child rows by different rules,
\* agrees with the timetable it leads to.
SchedulesSeen ==
  view.pc = "answered" =>
    /\ view.got \subseteq view.past
    /\ view.same => CASE view.kind = "list"    -> view.got = view.past \cap {view.now}
                      [] view.kind = "table"   -> view.got = view.past
                      [] view.kind = "overlap" ->
                           view.got = view.past /\ RightOverlap(view.about, view.got, Overlap(view.about, view.got))
=============================================================================
