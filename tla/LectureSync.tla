---------------------------- MODULE LectureSync ----------------------------
(***************************************************************************)
(* syncScholarDB for one term: courses, professors and lectures are made   *)
(* what the registrar's lists say.  A run reads the tables first and then  *)
(* creates, updates and marks as deleted row by row, outside of any        *)
(* transaction; an exception in one row is noted and the loop goes on.     *)
(* Runs may overlap: the cron, the HTTP API, the endpoint of the server.   *)
(* The server's copy has no message queue: only runs of scholar-sync ask   *)
(* for the common titles of the rows they make and find.                   *)
(*                                                                         *)
(* Lectures are matched by code and class (a key).  Neither lectures nor   *)
(* courses nor professors are unique in the database.  A lecture marked as *)
(* deleted stays in timetables and reviews but is never found again.       *)
(***************************************************************************)
EXTENDS Naturals, FiniteSets

CONSTANTS Keys, NoKey,
          Profs,
          MaxRows,     \* bound on lecture rows
          Versions,    \* contents of a listed lecture, its title included
          Runs,
          MaxChanges,  \* bound on changes of the registrar's lists
          MaxFaults    \* bound on crashes, failed statements and overlaps

ASSUME LectureSyncAssumption ==
  /\ NoKey \notin Keys /\ IsFiniteSet(Keys) /\ IsFiniteSet(Profs)
  /\ Versions \subseteq Nat \ {0} /\ IsFiniteSet(Versions)
  /\ MaxRows \in Nat /\ MaxChanges \in Nat /\ MaxFaults \in Nat

Rows == 1..MaxRows

VARIABLES list,     \* the registrar: listed keys, their contents and charges
          lecture,  \* lecture[i]: row i of subject_lecture
          course,   \* course[k]: number of course rows for the code of k
          prof,     \* prof[p]: number of professor rows for p
          title,    \* rows for which a LectureTitleUpdate is on its way
          run,
          overlap,  \* history: two runs have been active at the same time
          changes, faults

db   == <<lecture, course, prof, title>>
vars == <<list, db, run, overlap, changes, faults>>

NoRow == [key |-> NoKey, deleted |-> FALSE, ver |-> 0, common |-> 0, profs |-> {}]

\* The lists of the registrar: which keys, their contents, who gives them, and
\* for which a professor is listed twice.
Lists ==
  {d \in [keys : SUBSET Keys, ver : [Keys -> Versions \cup {0}],
          charge : [Keys -> SUBSET Profs], twice : SUBSET Keys] :
     \A k \in Keys : /\ k \in d.keys <=> d.ver[k] # 0
                     /\ k \notin d.keys => d.charge[k] = {}
                     /\ k \in d.twice => d.charge[k] # {}}

\* courses and profs: courseMap and professorMap; rows: the lectures read,
\* kept: those found in the list; todo: the keys left; cur and at: the lecture
\* whose charges are changed; asks: it is scholar-sync's copy, which publishes.
\* history: alone, failed.
Idle == [pc |-> "idle", data |-> [keys |-> {}], courses |-> {}, profs |-> {},
         rows |-> <<>>, kept |-> {}, todo |-> {}, cur |-> NoKey, at |-> 0,
         asks |-> FALSE, alone |-> FALSE, failed |-> {}]
Active  == {r \in Runs : run[r].pc # "idle"}
Used    == {i \in Rows : lecture[i].key # NoKey}
Live(k) == {i \in Used : lecture[i].key = k /\ ~lecture[i].deleted}
Fresh   == IF Rows = Used THEN {} ELSE {CHOOSE i \in Rows \ Used : \A j \in Rows \ Used : i <= j}

TypeOK ==
  /\ list \in Lists
  /\ \A i \in Rows : /\ lecture[i].key \in Keys \cup {NoKey}
                     /\ lecture[i].ver \in Versions \cup {0}
                     /\ lecture[i].common \in Versions \cup {0}
                     /\ lecture[i].profs \subseteq Profs
  /\ course \in [Keys -> 0..2] /\ prof \in [Profs -> 0..2]
  /\ title \subseteq Used
  /\ \A r \in Runs :
       /\ run[r].pc \in {"idle", "fetched", "courses", "lectures", "removing", "adding"}
       /\ run[r].kept \subseteq DOMAIN run[r].rows
       /\ run[r].todo \subseteq run[r].data.keys
  \* A lecture refers to rows that exist.
  /\ \A i \in Used : /\ course[lecture[i].key] > 0
                     /\ \A p \in lecture[i].profs : prof[p] > 0

Init ==
  /\ list \in Lists
  /\ lecture = [i \in Rows |-> NoRow]
  /\ course = [k \in Keys |-> 0] /\ prof = [p \in Profs |-> 0]
  /\ title = {}
  /\ run = [r \in Runs |-> Idle]
  /\ overlap = FALSE /\ changes = 0 /\ faults = 0

\* A statement may fail while the bound lasts: m of them.
Faults(m) == faults' = faults + m /\ faults' <= MaxFaults

-----------------------------------------------------------------------------
Registrar ==
  /\ changes < MaxChanges /\ changes' = changes + 1
  /\ \E k \in Keys, d \in Lists :
       /\ d # list /\ list' = d
       /\ \A j \in Keys \ {k} : /\ d.ver[j] = list.ver[j] /\ d.charge[j] = list.charge[j]
                              /\ j \in d.twice <=> j \in list.twice
  /\ UNCHANGED <<db, run, overlap, faults>>

\* scholar-sync asks the registrar (getLectureType, getChargeType), the server
\* gets the lists with the request; then getExistingCoursesByNewCodes.
Fetch(r) ==
  /\ run[r].pc = "idle"
  /\ Faults(IF Active = {} THEN 0 ELSE 1)
  /\ overlap' = (overlap \/ Active # {})
  /\ \E b \in BOOLEAN :
       run' = [q \in Runs |->
         IF q = r THEN [Idle EXCEPT !.pc = "fetched", !.data = list, !.asks = b,
                          !.alone = (Active = {}),
                          !.courses = {k \in list.keys : course[k] > 0}]
         ELSE [run[q] EXCEPT !.alone = FALSE]]
  /\ UNCHANGED <<list, db, changes>>

\* One more row for each element of S.
Added(f, S) == [x \in DOMAIN f |-> IF x \in S /\ f[x] < 2 THEN f[x] + 1 ELSE f[x]]

\* The loop over the courses; then getExistingProfessorsById.  Creating the
\* course fails for the keys in F.
SyncCourses(r) ==
  LET new == run[r].data.keys \ run[r].courses IN
  /\ run[r].pc = "fetched"
  /\ \E F \in SUBSET new :
       /\ Faults(Cardinality(F))
       /\ course' = Added(course, new \ F)
       /\ run' = [run EXCEPT ![r] = [@ EXCEPT !.pc = "courses", !.courses = run[r].courses \cup (new \ F),
                    !.profs = {p \in Profs : prof[p] > 0}]]
  /\ UNCHANGED <<list, lecture, prof, title, overlap, changes>>

Charged(d) == UNION {d.charge[k] : k \in d.keys}

\* Mutant: deleted lectures are read as well.
ExistingWithDeleted == {i \in Rows : lecture[i].key # NoKey}

\* getExistingDetailedLectures.
Existing == UNION {Live(k) : k \in Keys}

\* The loop over the professors; then getExistingDetailedLectures.
SyncProfessors(r) ==
  LET new == Charged(run[r].data) \ run[r].profs IN
  /\ run[r].pc = "courses"
  /\ \E F \in SUBSET new :
       /\ Faults(Cardinality(F))
       /\ prof' = Added(prof, new \ F)
       /\ run' = [run EXCEPT ![r] = [@ EXCEPT !.pc = "lectures", !.todo = run[r].data.keys,
                    !.profs = run[r].profs \cup (new \ F),
                    !.rows = [i \in Existing |-> lecture[i]]]]
  /\ UNCHANGED <<list, lecture, course, title, overlap, changes>>

\* Mutant: a row with other contents is another lecture.
FoundRowsUnchanged(r, k) ==
  {i \in DOMAIN run[r].rows : /\ run[r].rows[i].key = k
                              /\ run[r].rows[i].ver = run[r].data.ver[k]}

\* The first row of the key among those read: the query has no order, and the
\* index yields equal terms by id.
FoundRows(r, k) ==
  LET S == {i \in DOMAIN run[r].rows : run[r].rows[i].key = k}
  IN {i \in S : \A j \in S : i <= j}

\* An exception in the loop is noted.  The rows I had been found before it.
Skip(r, k, I) ==
  run' = [run EXCEPT ![r] = [@ EXCEPT !.pc = "lectures", !.cur = NoKey, !.at = 0,
                             !.todo = run[r].todo \ {k}, !.kept = run[r].kept \cup I,
                             !.failed = run[r].failed \cup {k}]]

\* checkClassTitleUpdateRequired, on the row as it was read.
TitleOutdated(r, i) == run[r].rows[i].common # run[r].rows[i].ver

\* publishLectureTitleUpdate of scholar-sync for the rows I of key k; a failure is
\* only logged.  The server's copy publishes nothing.  failed is history.
Publish(r, k, I) ==
  \/ ~run[r].asks /\ Faults(0) /\ title' = title /\ run'[r].failed = run[r].failed
  \/ run[r].asks /\ Faults(0) /\ title' = title \cup I /\ run'[r].failed = run[r].failed
  \/ run[r].asks /\ Faults(1) /\ I # {} /\ title' = title /\ run'[r].failed = run[r].failed \cup {k}

\* A listed lecture that exists.  Whether it is written is decided by the row
\* as it was read.
UpdateLecture(r, k) ==
  /\ run[r].pc = "lectures" /\ k \in run[r].todo /\ k \in run[r].courses
  /\ \E i \in FoundRows(r, k), f \in {run[r].failed, run[r].failed \cup {k}} :
       /\ lecture' = IF run[r].rows[i].ver = run[r].data.ver[k] THEN lecture
                     ELSE [lecture EXCEPT ![i].ver = run[r].data.ver[k]]
       /\ run' = [run EXCEPT ![r] = [@ EXCEPT !.pc = "removing", !.cur = k, !.at = i,
                                     !.kept = run[r].kept \cup {i}, !.failed = f]]
       /\ Publish(r, k, IF TitleOutdated(r, i) THEN {i} ELSE {})
  /\ UNCHANGED <<list, course, prof, overlap, changes>>

\* A listed lecture that does not: created without professors.
CreateLecture(r, k) ==
  /\ run[r].pc = "lectures" /\ k \in run[r].todo /\ k \in run[r].courses
  /\ FoundRows(r, k) = {}
  /\ \E i \in Fresh, f \in {run[r].failed, run[r].failed \cup {k}} :
       /\ lecture' = [lecture EXCEPT ![i] = [NoRow EXCEPT !.key = k, !.ver = run[r].data.ver[k]]]
       /\ run' = [run EXCEPT ![r] = [@ EXCEPT !.pc = "adding", !.cur = k, !.at = i,
                                     !.failed = f]]
       /\ Publish(r, k, {i})
  /\ UNCHANGED <<list, course, prof, overlap, changes>>

\* "Course not found for lecture".
NoCourse(r, k) ==
  /\ run[r].pc = "lectures" /\ k \in run[r].todo
  /\ k \notin run[r].courses
  /\ Skip(r, k, {})
  /\ UNCHANGED <<list, db, overlap, changes, faults>>

\* The professors of the lecture as it was read.
OldProfs(r) == IF run[r].at \in DOMAIN run[r].rows THEN run[r].rows[run[r].at].profs ELSE {}
ToAdd(r)    == run[r].data.charge[run[r].cur] \ OldProfs(r)
ToRemove(r) == OldProfs(r) \ run[r].data.charge[run[r].cur]

\* professorMap.get(...)!.id of every added professor.
Mapped(r) == ToAdd(r) \subseteq run[r].profs

\* lectureProfessorsChanges and the first statement of updateLectureProfessors.
\* An added professor without a row throws before anything is removed.
RemoveCharges(r) ==
  /\ run[r].pc = "removing"
  /\ IF Mapped(r)
     THEN /\ lecture' = [lecture EXCEPT ![run[r].at].profs = @ \ ToRemove(r)]
          /\ run' = [run EXCEPT ![r].pc = "adding"]
     ELSE Skip(r, run[r].cur, {}) /\ UNCHANGED lecture
  /\ UNCHANGED <<list, course, prof, title, overlap, changes, faults>>

\* (lecture, professor) is unique, and for a new lecture the list is not freed
\* of duplicates.
Insertable(r) ==
  /\ ToAdd(r) \cap lecture[run[r].at].profs = {}
  /\ ~(run[r].cur \in run[r].data.twice /\ ToAdd(r) # {} /\ run[r].at \notin DOMAIN run[r].rows)

\* The second statement of updateLectureProfessors.
AddCharges(r) ==
  /\ run[r].pc = "adding"
  /\ IF Mapped(r) /\ Insertable(r)
     THEN /\ lecture' = [lecture EXCEPT ![run[r].at].profs = @ \cup ToAdd(r)]
          /\ run' = [run EXCEPT ![r] = [@ EXCEPT !.pc = "lectures", !.cur = NoKey, !.at = 0,
                                        !.todo = run[r].todo \ {run[r].cur}]]
     ELSE Skip(r, run[r].cur, {}) /\ UNCHANGED lecture
  /\ UNCHANGED <<list, course, prof, title, overlap, changes, faults>>

\* A statement of the loop fails.
StatementFails(r) ==
  /\ run[r].pc \in {"lectures", "removing", "adding"} /\ Faults(1)
  /\ \E k \in IF run[r].cur = NoKey THEN run[r].todo ELSE {run[r].cur} :
       /\ k \in run[r].courses
       /\ Skip(r, k, FoundRows(r, k))
  /\ UNCHANGED <<list, db, overlap, changes>>

\* Mutant: the lectures that were changed are the ones that stay.
GoneUnlessChanged(r) ==
  {i \in DOMAIN run[r].rows : i \in run[r].kept => lecture[i] = run[r].rows[i]}

\* notExistingLectures.
Gone(r) == DOMAIN run[r].rows \ run[r].kept

\* markLecturesDeleted, and the end of the run.
MarkDeleted(r) ==
  /\ run[r].pc = "lectures" /\ run[r].todo = {}
  /\ lecture' = [i \in Rows |-> [lecture[i] EXCEPT !.deleted = @ \/ i \in Gone(r)]]
  /\ run' = [run EXCEPT ![r] = Idle]
  /\ UNCHANGED <<list, course, prof, title, overlap, changes, faults>>

\* The process dies, or a statement outside of the loops throws.
StopRun(r) ==
  /\ run[r].pc # "idle" /\ Faults(1)
  /\ run' = [run EXCEPT ![r] = Idle]
  /\ UNCHANGED <<list, db, overlap, changes>>

\* updateClassTitle of server-consumer (module DerivedData).
TitleUpdated(i) ==
  /\ i \in title
  /\ title' = title \ {i}
  /\ lecture' = [lecture EXCEPT ![i].common = lecture[i].ver]
  /\ UNCHANGED <<list, course, prof, run, overlap, changes, faults>>

Next ==
  \/ Registrar
  \/ \E r \in Runs :
       \/ Fetch(r) \/ SyncCourses(r) \/ SyncProfessors(r)
       \/ \E k \in Keys : UpdateLecture(r, k) \/ CreateLecture(r, k) \/ NoCourse(r, k)
       \/ RemoveCharges(r) \/ AddCharges(r) \/ StatementFails(r)
       \/ MarkDeleted(r) \/ StopRun(r)
  \/ \E i \in Rows : TitleUpdated(i)

Spec == Init /\ [][Next]_vars

-----------------------------------------------------------------------------
\* Whatever earlier runs left behind, a run that meets no other run repairs it:
\* when it ends, every listed key on which nothing failed has exactly one live
\* row, with the listed contents and professors, and no other key has one.
RowsRepaired ==
  [][\A r \in Runs : (MarkDeleted(r) /\ run[r].alone) =>
       \A k \in Keys \ run[r].failed :
         IF k \in run[r].data.keys
         THEN \E i \in Rows : /\ Live(k)' = {i}
                              /\ lecture[i].ver = run[r].data.ver[k]
                              /\ lecture[i].profs = run[r].data.charge[k]
         ELSE Live(k)' = {}]_vars

\* And when the run is scholar-sync's, a title that is not up to date is on its
\* way, whichever copy made it so: a run of the server asks for none, also for the
\* rows it makes.  The exception is a lecture whose contents this very run changed:
\* its title was compared before the change, and the next run asks for it.
TitlesAsked ==
  [][\A r \in Runs : (MarkDeleted(r) /\ run[r].alone /\ run[r].asks) =>
       \A k \in run[r].data.keys \ run[r].failed : \A i \in Live(k)' :
         \/ lecture[i].common = lecture[i].ver \/ i \in title
         \/ i \in DOMAIN run[r].rows /\ run[r].rows[i].ver # lecture[i].ver]_vars

\* Contents, charges and, after a run of scholar-sync, titles.
Repairs == RowsRepaired /\ TitlesAsked

\* A lecture that is listed keeps its row, to which timetables, reviews and
\* taken lectures refer, also through overlapping and failing runs: a run marks
\* a row of a key of its list as deleted only as a duplicate of an older one,
\* or if it has no course for the key.
Deletes(r, k, i) == MarkDeleted(r) /\ i \in Live(k) /\ i \notin Live(k)'
Duplicate(r, k, i) ==
  \E j \in FoundRows(r, k) : j < i /\ lecture[j].key = k /\ j \notin Gone(r)
KeepsListed ==
  [][\A r \in Runs, i \in Rows : \A k \in run[r].data.keys \cap run[r].courses :
       Deletes(r, k, i) => Duplicate(r, k, i)]_vars

\* Duplicates come from overlapping runs alone, not from crashes or failures.
UniqueWithoutOverlap ==
  /\ TypeOK
  /\ ~overlap => /\ \A k \in Keys : course[k] <= 1 /\ Cardinality(Live(k)) <= 1
                 /\ \A p \in Profs : prof[p] <= 1
=============================================================================
