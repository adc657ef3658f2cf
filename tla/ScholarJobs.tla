----------------------------- MODULE ScholarJobs -----------------------------
(***************************************************************************)
(* The jobs of scholar-sync that make one table what a list says: exam     *)
(* times, class times, departments of students (degrees), further majors   *)
(* (majors and minors go the same way, each in its table), and the best    *)
(* reviews.  A run gets the list, reads the rows, plans, and writes with   *)
(* statements of its own; runs of the cron and of the HTTP API may overlap.*)
(* The tables do not meet: a behaviour is about one kind of job.           *)
(***************************************************************************)
EXTENDS Integers, Sequences, FiniteSets, FiniteSetsExt

CONSTANTS Kinds,      \* jobs of this instance, of "exam", "class", "degree", "major", "review"
          Lectures, Users,
          Keys,       \* what times are matched by, departments (ordered), or reviews
          Tags,       \* ends of times; 1: a review of the last seven days
          Runs,       \* runs of the job (bounds their number)
          MaxListed,  \* bound on the length of a list
          BATCH_SIZE, \* rows of one createMany of majors
          MinLiked, MaxBest,  \* arguments of getBestReviews
          MaxChanges, MaxFaults  \* bounds on changes of the list and on faults

ASSUME ScholarJobsAssumption ==
  /\ Kinds \subseteq {"exam", "class", "degree", "major", "review"}
  /\ Keys \subseteq Nat /\ Keys # {} /\ Tags \subseteq Nat /\ 1 \in Tags
  /\ {MaxListed, BATCH_SIZE, MinLiked, MaxBest} \subseteq Nat \ {0} /\ MaxBest < MinLiked
  /\ {MaxChanges, MaxFaults} \subseteq Nat

VARIABLES kind,
          listed,   \* the registrar's list, or the reviews by likes
          rows,     \* the table
          nextId,   \* its autoincrement
          job,      \* the runs
          flight,   \* deletions of majors that were started and not waited for
          changes, faults,
          stable    \* history: what had a row and was on every list since

table == <<rows, nextId>>
bounds == <<changes, faults>>
vars == <<kind, listed, table, job, flight, bounds, stable>>

Owners == Lectures \cup Users
Anyone == CHOOSE o \in Owners : TRUE
Items == [owner : Owners, key : Keys, tag : Tags]
Lists == UNION {[1..n -> Items] : n \in 0..MaxListed}
Pair(x) == <<x.owner, x.key>>
Pairs(L) == {Pair(L[p]) : p \in DOMAIN L}
RowPairs(R) == {Pair(r) : r \in R}
Row(id, x) == [id |-> id, owner |-> x.owner, key |-> x.key, tag |-> x.tag]

\* Whose rows a job corrects; a review is one row and has no owner here.
OwnersOf(k) == CASE k \in {"exam", "class"} -> Lectures
                 [] k \in {"degree", "major"} -> Users
                 [] k = "review" -> {Anyone}

\* The lists there can be.  Tags are ends of times and weeks of reviews only.
Listable(k, L) ==
  /\ \A p \in DOMAIN L : L[p].owner \in OwnersOf(k)
  /\ k \in {"degree", "major"} => \A p \in DOMAIN L : L[p].tag = 1
  /\ k = "review" => \A p, q \in DOMAIN L : L[p].key = L[q].key => p = q
Answers == {L \in Lists : Listable(kind, L)}

\* want is the list of the run, left the owners still to be done, at the one at
\* hand, todo and gone what is to be added (positions of want) and removed.  sole and sound are history: no other run or deletion
\* was under way, and nothing failed.
NoJob == [pc |-> "idle", want |-> <<>>, left |-> {}, at |-> Anyone,
          todo |-> {}, gone |-> {}, sole |-> TRUE, sound |-> TRUE]
Busy(j) == job[j].pc \notin {"idle", "done"}

TypeOK ==
  /\ kind \in Kinds /\ listed \in Answers /\ nextId \in Nat
  /\ \A r \in rows : r \in [id : 0..(nextId - 1), owner : Owners, key : Keys, tag : Tags]
  /\ \A j \in Runs : /\ job[j].pc \in {"idle", "read", "next", "remove", "add", "update",
                                       "chunks", "clear", "fill", "done"}
                     /\ job[j].todo \subseteq DOMAIN job[j].want
                     /\ job[j].left \subseteq Owners
  /\ flight \subseteq Owners \X Keys
  /\ kind \in {"exam", "class"} => \A r, s \in rows : r.id = s.id => r = s
  /\ kind \in {"degree", "major", "review"} => \A r, s \in rows : Pair(r) = Pair(s) => r = s
  /\ kind = "degree" => \A o \in Users : Cardinality({r \in rows : r.owner = o}) = 1

\* The rows are what the list says; departments are still another.
Init ==
  /\ kind \in Kinds
  /\ listed \in Answers
  /\ nextId = Len(listed) + 1
  /\ rows = CASE kind \in {"exam", "class"} -> {Row(p, listed[p]) : p \in DOMAIN listed}
              [] kind = "degree" -> {Row(0, [owner |-> o, key |-> Min(Keys), tag |-> 1]) : o \in Users}
              [] OTHER -> {Row(0, [listed[p] EXCEPT !.tag = 1]) : p \in DOMAIN listed}
  /\ job = [j \in Runs |-> NoJob]
  /\ flight = {} /\ changes = 0 /\ faults = 0
  /\ stable = RowPairs(rows) \cap Pairs(listed)

-----------------------------------------------------------------------------
\* The registrar's data, likes and reviews change.
Change ==
  /\ changes < MaxChanges
  /\ changes' = changes + 1
  /\ listed' \in Answers \ {listed}
  /\ stable' = stable \cap Pairs(listed')
  /\ UNCHANGED <<kind, table, job, flight, faults>>

\* The schedule or the controller gets the list and calls the service.
Start(j) ==
  /\ job[j].pc = "idle"
  /\ LET sole == (\A k \in Runs : ~Busy(k)) /\ flight = {} IN
     job' = [k \in Runs |->
               IF k = j THEN [NoJob EXCEPT !.pc = "read", !.want = listed, !.sole = sole]
               ELSE IF Busy(k) THEN [job[k] EXCEPT !.sole = FALSE] ELSE job[k]]
  /\ UNCHANGED <<kind, listed, table, flight, bounds, stable>>

OfList(L, p) == {q \in DOMAIN L : Pair(L[q]) = Pair(L[p])}
OfRows(R, x) == {r \in R : Pair(r) = Pair(x)}

\* Mutant: a time whose end has changed is another time.
UnmatchedWithEnd(R, L) ==
  {r \in R : ~ \E p \in DOMAIN L : Pair(L[p]) = Pair(r) /\ L[p].tag = r.tag}

\* syncTime matches each row with the first entry of the list that equals it
\* but for its end, and takes the entry out: the rows and the entries left over.
Unmatched(R, L) ==
  {r \in R : Cardinality({s \in OfRows(R, r) : s.id < r.id})
               >= Cardinality({p \in DOMAIN L : Pair(L[p]) = Pair(r)})}

\* Mutant: the entry that matched is not taken out of the list.
AdditionalUntaken(R, L) == {p \in DOMAIN L : Pair(L[p]) \notin RowPairs(R)}

Additional(R, L) ==
  {p \in DOMAIN L : Cardinality({q \in OfList(L, p) : q < p}) >= Cardinality(OfRows(R, L[p]))}

Entries(L, o) == {p \in DOMAIN L : L[p].owner = o}
KeysOf(R, o) == {r.key : r \in {s \in R : s.owner = o}}
Departments(L, o) == {L[p].key : p \in Entries(L, o)}

\* MajorInfo.equals: the sorted departments of the list are the first of the
\* sorted departments of the user; no user has one twice.
Equal(R, L, o) ==
  /\ Cardinality(Entries(L, o)) = Cardinality(Departments(L, o))
  /\ Departments(L, o) \subseteq KeysOf(R, o)
  /\ \A e \in KeysOf(R, o) \ Departments(L, o), d \in Departments(L, o) : d < e

\* Users without an entry are left out like those that are equal.
Touched(R, L) == {o \in Users : Entries(L, o) # {} /\ ~Equal(R, L, o)}
NewMajors(R, L) == {p \in DOMAIN L : L[p].owner \in Touched(R, L) /\ Pair(L[p]) \notin RowPairs(R)}
OldMajors(R, L) == {r \in R : r.owner \in Touched(R, L) /\ Pair(r) \notin Pairs(L)}

\* syncDegree: the last entry of a student counts.
Degree(L, o) == L[Max(Entries(L, o))].key
ToUpdate(R, L) == {o \in Users : Entries(L, o) # {} /\ Degree(L, o) \notin KeysOf(R, o)}

\* The rows are read and the plan is made.
Read(j) ==
  LET L == job[j].want
      plan(pc, left, todo, gone) ==
        job' = [job EXCEPT ![j] = [job[j] EXCEPT !.pc = pc, !.left = left, !.todo = todo, !.gone = gone]]
  IN
  /\ job[j].pc = "read"
  /\ CASE kind \in {"exam", "class"} -> plan("next", Lectures, Additional(rows, L), Unmatched(rows, L))
       [] kind = "degree" -> plan("update", ToUpdate(rows, L), {}, {})
       [] kind = "major" -> plan("chunks", {}, NewMajors(rows, L), OldMajors(rows, L))
       [] kind = "review" -> plan("clear", {}, {}, {})
  /\ UNCHANGED <<kind, listed, table, flight, bounds, stable>>

Finished(j) == job' = [job EXCEPT ![j] = [NoJob EXCEPT !.pc = "done"]]
Same == UNCHANGED <<kind, listed, bounds, stable>>
Gone(j) == {r \in job[j].gone : r.owner = job[j].at}
New(j) == {p \in job[j].todo : job[j].want[p].owner = job[j].at}
Ids(R) == {r.id : r \in R}

\* createMany of the entries P, with the ids of the table.
Inserted(j, P) == {Row(nextId + Cardinality({q \in P : q < p}), job[j].want[p]) : p \in P}

-----------------------------------------------------------------------------
\* syncTime, lecture by lecture.
NextLecture(j) ==
  /\ job[j].pc = "next"
  /\ IF job[j].left = {} THEN Finished(j)
     ELSE \E o \in job[j].left :
            job' = [job EXCEPT ![j].left = @ \ {o}, ![j].at = o, ![j].pc = "remove"]
  /\ Same /\ UNCHANGED <<table, flight>>

\* updateLectureClasstimes: two statements, each committed on its own.
RemoveTimes(j) ==
  /\ job[j].pc = "remove" /\ kind = "class"
  /\ rows' = {r \in rows : r.id \notin Ids(Gone(j))}
  /\ job' = [job EXCEPT ![j].pc = "add"]
  /\ Same /\ UNCHANGED <<nextId, flight>>

AddTimes(j) ==
  /\ job[j].pc = "add"
  /\ rows' = rows \cup Inserted(j, New(j))
  /\ nextId' = nextId + Cardinality(New(j))
  /\ job' = [job EXCEPT ![j].pc = "next"]
  /\ Same /\ UNCHANGED flight

\* updateLectureExamtimes: the same two statements in a transaction.
ReplaceTimes(j) ==
  /\ job[j].pc = "remove" /\ kind = "exam"
  /\ rows' = {r \in rows : r.id \notin Ids(Gone(j))} \cup Inserted(j, New(j))
  /\ nextId' = nextId + Cardinality(New(j))
  /\ job' = [job EXCEPT ![j].pc = "next"]
  /\ Same /\ UNCHANGED flight

-----------------------------------------------------------------------------
\* syncDegree: the updates run ten at a time, in no order.
UpdateUserDepartment(j) ==
  /\ job[j].pc = "update"
  /\ IF job[j].left = {} THEN Finished(j) /\ UNCHANGED rows
     ELSE \E o \in job[j].left :
            /\ rows' = {IF r.owner = o THEN [r EXCEPT !.key = Degree(job[j].want, o)] ELSE r : r \in rows}
            /\ job' = [job EXCEPT ![j].left = @ \ {o}]
  /\ Same /\ UNCHANGED <<nextId, flight>>

\* createManyUserMajor for the first of the additions that are left: the
\* unique index refuses the whole chunk, and the error is caught.
Chunk(j) == {p \in job[j].todo : Cardinality({q \in job[j].todo : q < p}) < BATCH_SIZE}

Refused(j) == \/ \E p \in Chunk(j) : Pair(job[j].want[p]) \in RowPairs(rows)
              \/ \E p, q \in Chunk(j) : p # q /\ Pair(job[j].want[p]) = Pair(job[j].want[q])

AddMajors(j) ==
  /\ job[j].pc = "chunks" /\ job[j].todo # {}
  /\ IF Refused(j) THEN UNCHANGED table
     ELSE /\ rows' = rows \cup Inserted(j, Chunk(j))
          /\ nextId' = nextId + Cardinality(Chunk(j))
  /\ job' = [job EXCEPT ![j].todo = @ \ Chunk(j), ![j].sound = @ /\ ~Refused(j)]
  /\ Same /\ UNCHANGED flight

\* The deletions are started; nobody waits for them.
StartRemovals(j) ==
  /\ job[j].pc = "chunks" /\ job[j].todo = {}
  /\ flight' = flight \cup RowPairs(job[j].gone)
  /\ Finished(j)
  /\ Same /\ UNCHANGED table

\* deleteUserMajor by user and department; without the row it throws, which is caught.
DeleteMajor(x) ==
  /\ x \in flight
  /\ rows' = {r \in rows : Pair(r) # x}
  /\ flight' = flight \ {x}
  /\ Same /\ UNCHANGED <<nextId, job>>

-----------------------------------------------------------------------------
\* getBestReviews: the most liked and the latest, cut off.
FirstOf(L, n) == SubSeq(L, 1, Min({n, Len(L)}))
Latest(L) ==
  LET P == {p \in DOMAIN L : L[p].tag = 1} IN
  [n \in 1..Cardinality(P) |-> L[CHOOSE p \in P : Cardinality({q \in P : q <= p}) = n]]
Best(L) == FirstOf(FirstOf(L, MinLiked) \o Latest(L), MaxBest)
Twice(L) == \E p, q \in DOMAIN L : p # q /\ L[p].key = L[q].key

ClearBest(j) ==
  /\ job[j].pc = "clear"
  /\ rows' = {}
  /\ job' = [job EXCEPT ![j].pc = "fill"]
  /\ Same /\ UNCHANGED <<nextId, flight>>

\* createMany: a review that is there, or twice in the list, is an error, which
\* ends the run.
AddBest(j) ==
  LET best == Best(job[j].want)
      refused == Twice(best) \/ Pairs(best) \cap RowPairs(rows) # {}
  IN
  /\ job[j].pc = "fill"
  /\ rows' = IF refused THEN rows ELSE rows \cup {Row(0, [best[p] EXCEPT !.tag = 1]) : p \in DOMAIN best}
  /\ Finished(j)
  /\ Same /\ UNCHANGED <<nextId, flight>>

-----------------------------------------------------------------------------
\* A statement fails (or, for exams, a time cannot be parsed): the lecture, the
\* student or the chunk is skipped; best reviews give up.
Fail(j) ==
  /\ faults < MaxFaults /\ faults' = faults + 1
  /\ \/ /\ job[j].pc \in {"remove", "add"}
        /\ job' = [job EXCEPT ![j].sound = FALSE, ![j].pc = "next"]
     \/ /\ job[j].pc \in {"clear", "fill"}
        /\ Finished(j)
     \/ /\ job[j].pc = "update"
        /\ \E o \in job[j].left : job' = [job EXCEPT ![j].sound = FALSE, ![j].left = @ \ {o}]
     \/ /\ job[j].pc = "chunks" /\ job[j].todo # {}
        /\ job' = [job EXCEPT ![j].sound = FALSE, ![j].todo = @ \ Chunk(j)]
  /\ UNCHANGED <<kind, listed, table, flight, changes, stable>>

\* A deletion nobody waits for fails, and nobody hears of it.
LoseDeletion ==
  /\ faults < MaxFaults /\ faults' = faults + 1
  /\ \E x \in flight : flight' = flight \ {x}
  /\ UNCHANGED <<kind, listed, table, job, changes, stable>>

\* The process dies with its runs and what it has started.
Crash ==
  /\ faults < MaxFaults /\ faults' = faults + 1
  /\ \E j \in Runs : Busy(j)
  /\ job' = [j \in Runs |-> IF Busy(j) THEN [NoJob EXCEPT !.pc = "done"] ELSE job[j]]
  /\ flight' = {}
  /\ UNCHANGED <<kind, listed, table, changes, stable>>

Next ==
  \/ Change \/ LoseDeletion \/ Crash
  \/ \E x \in Owners \X Keys : DeleteMajor(x)
  \/ \E j \in Runs :
       \/ Start(j) \/ Read(j) \/ Fail(j)
       \/ NextLecture(j) \/ RemoveTimes(j) \/ AddTimes(j) \/ ReplaceTimes(j)
       \/ UpdateUserDepartment(j) \/ AddMajors(j) \/ StartRemovals(j)
       \/ ClearBest(j) \/ AddBest(j)

Spec == Init /\ [][Next]_vars

-----------------------------------------------------------------------------
\* What a run makes of the table at its best.  Times agree up to their ends.
\* Majors agree but for users who have lost all of them, and for those whose
\* list is where their majors begin; best reviews unless there are so few that
\* a latest one is among the most liked too.
TimesRight(L) == \A x \in Owners \X Keys :
  Cardinality({r \in rows' : Pair(r) = x}) = Cardinality({p \in DOMAIN L : Pair(L[p]) = x})
DegreesRight(L) == \A o \in Owners : Entries(L, o) # {} => KeysOf(rows', o) = {Degree(L, o)}
MajorsRight(L) == \A o \in Owners :
  LET R == {r \in rows' : Pair(r) \notin flight'} IN
  Entries(L, o) # {} => KeysOf(R, o) = Departments(L, o) \/ Equal(R, L, o)
BestRight(L) ==
  IF Len(L) < MaxBest /\ \E p \in DOMAIN L : L[p].tag = 1
    THEN rows' = {}
    ELSE RowPairs(rows') = Pairs(FirstOf(L, MaxBest))

\* A run that meets no other and no failure repairs whatever overlapping,
\* failed and crashed runs before it have left.
Repairs ==
  [][\A j \in Runs :
       Busy(j) /\ job'[j].pc = "done" /\ job[j].sole /\ job[j].sound /\ faults' = faults =>
         CASE kind \in {"exam", "class"} -> TimesRight(job[j].want)
           [] kind = "degree" -> DegreesRight(job[j].want)
           [] kind = "major" -> MajorsRight(job[j].want)
           [] kind = "review" -> BestRight(job[j].want)]_vars

\* What the registrar has listed all the time is there all the time, for every
\* reader: through overlapping, failing and crashing runs no time and no major
\* goes away to come again, although nothing but exams is in a transaction.
\* Best reviews alone come and go.
StaysListed ==
  /\ TypeOK
  /\ kind \in {"exam", "class", "major"} => stable \subseteq RowPairs(rows)
=============================================================================
