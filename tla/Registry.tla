------------------------------ MODULE Registry ------------------------------
(***************************************************************************)
(* What the registrar lists, written by two programs that share a          *)
(* database: scholar-sync, by cron and by its HTTP API, for one or several *)
(* terms; and the endpoint of the server, which gets the lists of one term *)
(* in its body.  Each derives departments, courses, professors, lectures   *)
(* and their times from the lists with code of its own, compares them with *)
(* the rows it has read, and creates or updates what differs.              *)
(*                                                                         *)
(* LectureSync has the charges and the rows that overlapping runs make     *)
(* twice, ScholarJobs the statements in which times are replaced; here it  *)
(* is the fields of the rows, the terms, and departments.                  *)
(***************************************************************************)
EXTENDS Integers, Sequences, FiniteSets, SequencesExt

CONSTANTS Subjects, NumOf, CodeOf,  \* subject numbers and the two codes cut out of them
          NoCode, Nothing,
          Staff,          \* the professor who stands for the staff
          Semesters,      \* the terms whose courses are described, the latest first
          Listings,       \* what the registrar may list for a term
          OldDepartments, \* departments that are there
          Requests,       \* parameters of the HTTP API
          JobKinds,       \* jobs of this instance
          Syncs,          \* runs of the jobs (bounds their number)
          RegistrarChanges, RegistryFaults  \* bounds on changes and on faults

Terms == ToSet(Semesters)
Parts == {"scholarDB", "examtime", "classtime"}

\* What the API of the registrar answers.  class and names may be padded with
\* spaces; a title is a base and what follows it in brackets.
ScholarLectureType ==
  [subject : Subjects, class : [text : STRING, padded : BOOLEAN], dept : Nat, deptName : STRING,
   title : [base : STRING, rest : STRING], type : STRING, old : STRING, english : STRING]
ScholarChargeType ==
  [subject : Subjects, class : [text : STRING, padded : BOOLEAN], prof : Nat, dept : Nat,
   name : [text : STRING, padded : BOOLEAN], nameEn : [text : STRING, padded : BOOLEAN]]
ScholarExamtimeType ==
  [subject : Subjects, class : [text : STRING, padded : BOOLEAN], day : Int, begin : Nat \cup {Nothing}, end : Nat]
ScholarClasstimeType ==
  [subject : Subjects, class : [text : STRING, padded : BOOLEAN], day : Int, begin : Nat \cup {Nothing}, end : Nat,
   kind : STRING, place : STRING]

Trim(x) == x.text
LectureKey(e) == <<e.subject, Trim(e.class)>>
Unique(L) == \A p, q \in DOMAIN L : LectureKey(L[p]) = LectureKey(L[q]) => p = q

\* A lecture is listed once, and here has at most one exam and one class.
ASSUME RegistryAssumption ==
  /\ DOMAIN NumOf = Subjects /\ DOMAIN CodeOf = Subjects
  /\ JobKinds \subseteq Parts \cup {"syncAll"}
  /\ \A a \in Requests : a.term \in Terms \cup {Nothing} /\ a.interval \in Nat
  /\ \A x \in Listings : /\ DOMAIN x = {"lectures", "charges", "examtimes", "classtimes"}
                         /\ x.lectures \in Seq(ScholarLectureType) /\ Unique(x.lectures)
                         /\ x.charges \in Seq(ScholarChargeType)
                         /\ x.examtimes \in Seq(ScholarExamtimeType) /\ Unique(x.examtimes)
                         /\ x.classtimes \in Seq(ScholarClasstimeType) /\ Unique(x.classtimes)
  /\ RegistrarChanges \in Nat /\ RegistryFaults \in Nat

VARIABLES registrar,    \* what is listed for each term
          departments, courses, professors, lectures,  \* the tables; lectures without the deleted
          lectureId,    \* the autoincrement of lectures
          scheduled,    \* cron jobs that are not stopped
          sync,         \* the runs
          settled,      \* history: what undisturbed runs have made right, and nobody touched since
          twins,        \* history: codes for which a department was visible beside another, from the start on
          registryChanges, registryFaults

tables == <<departments, courses, professors, lectures, lectureId>>
registryBounds == <<registryChanges, registryFaults>>
registryVars == <<registrar, tables, scheduled, sync, settled, twins, registryBounds>>

-----------------------------------------------------------------------------
(* What is derived from an entry, and when a row differs from it.  The server *)
(* asks whether a row has changed, scholar-sync whether it is equal.          *)

Differ(row, info, fields) == \E f \in fields : row[f] # info[f]
Alike(row, info, fields) == \A f \in fields : row[f] = info[f]

DeriveDepartment(e) == [num |-> NumOf[e.subject], code |-> CodeOf[e.subject], name |-> e.deptName]
DepartmentChanged(row, info) == Differ(row, info, {"num", "code", "name"})
DepartmentEquals(info, row) == Alike(row, info, {"num", "code", "name"})

\* Of a title the course has what precedes the brackets; the old code is
\* written but not compared.
DeriveCourse(e) == [old |-> e.old, dept |-> e.dept, type |-> e.type, title |-> e.title.base]
CourseChanged(row, info) == Differ(row, info, {"dept", "type", "title"})
CourseEquals(info, row) == Alike(row, info, {"dept", "type", "title"})

DeriveProfessor(c) == [name |-> Trim(c.name), nameEn |-> Trim(c.nameEn), major |-> c.dept]
ProfessorChanged(row, info) == Differ(row, info, {"name", "nameEn", "major"})
ProfessorEquals(row, info) == Alike(row, info, {"name", "nameEn", "major"})

DeriveLecture(e, course) ==
  [class |-> Trim(e.class), dept |-> e.dept, old |-> e.old, title |-> e.title, type |-> e.type,
   english |-> (e.english = "Y"), course |-> course]
LectureFields == {"class", "dept", "old", "title", "type", "english", "course"}
LectureChanged(row, info) == Differ(row, info, LectureFields)
LectureEquals(row, info) == Alike(row, info, LectureFields)

DepartmentOutdated(copy, row, info) ==
  IF copy = "server" THEN DepartmentChanged(row, info) ELSE ~DepartmentEquals(info, row)
CourseOutdated(copy, row, info) ==
  IF copy = "server" THEN CourseChanged(row, info) ELSE ~CourseEquals(info, row)
ProfessorOutdated(copy, row, info) ==
  IF copy = "server" THEN ProfessorChanged(row, info) ELSE ~ProfessorEquals(row, info)
LectureOutdated(copy, row, info) ==
  IF copy = "server" THEN LectureChanged(row, info) ELSE ~LectureEquals(row, info)

\* Days count from Monday, 0, in the database, and from Sunday, 1, in what
\* scholar-sync gets.  The server takes the day of an exam for one that counts
\* from Monday, 1: the two write different days.
TimeDay(d) == IF d = 1 THEN 6 ELSE d - 2
ExamtimeOfServer(t) == [day |-> t.day - 1, begin |-> t.begin, end |-> t.end]
ExamtimeInfo(t) == [day |-> TimeDay(t.day), begin |-> t.begin, end |-> t.end]
DeriveExamtime(copy, t) == IF copy = "server" THEN ExamtimeOfServer(t) ELSE ExamtimeInfo(t)
ExamtimeMatches(info, row) == Alike(row, info, {"day", "begin"})

LowerCase(s) == CASE s = "L" -> "l" [] s = "E" -> "e" [] OTHER -> s
DeriveClasstime(t) ==
  [day |-> TimeDay(t.day), begin |-> t.begin, end |-> t.end, kind |-> LowerCase(t.kind), place |-> t.place]
ClasstimeMatches(info, row) == Alike(row, info, {"day", "begin", "kind", "place"})

\* A body with one entry that is not valid is refused as a whole.
AcceptedLectures(L) == \A p \in DOMAIN L : L[p].english \in {"Y", "N", ""}
AcceptedExamtimes(L) == \A p \in DOMAIN L : L[p].begin # Nothing
AcceptedClasstimes(L) == \A p \in DOMAIN L :
  L[p].begin # Nothing /\ L[p].day \in 1..7 /\ LowerCase(L[p].kind) \in {"l", "e"}
Accepted(part, x) == CASE part = "scholarDB" -> AcceptedLectures(x.lectures)
                       [] part = "examtime"  -> AcceptedExamtimes(x.examtimes)
                       [] part = "classtime" -> AcceptedClasstimes(x.classtimes)

\* scholar-sync converts the answer without validating it; a day out of range throws.
DaysKnown(L) == \A p \in DOMAIN L : L[p].day \in 1..7
Readable(part, x) == CASE part = "scholarDB" -> TRUE
                       [] part = "examtime"  -> DaysKnown(x.examtimes)
                       [] part = "classtime" -> DaysKnown(x.classtimes)

-----------------------------------------------------------------------------
\* The terms of a job, which it takes from the oldest to the newest.
Previous(t) == IF t[2] = 1 THEN <<t[1] - 1, 4>> ELSE <<t[1], t[2] - 1>>
PutPreviousSemester(t, count) ==
  LET before[i \in 0..count] == IF i = 0 THEN t ELSE Previous(before[i - 1]) IN
  [i \in 1..(count + 1) |-> before[i - 1]]
Taken(n) == SubSeq(Semesters, 1, IF n > Len(Semesters) THEN Len(Semesters) ELSE n)
TargetSemesters(a) ==
  IF a.term # Nothing THEN PutPreviousSemester(a.term, a.interval)
  ELSE IF a.interval # 0 THEN Taken(a.interval) ELSE Taken(1)

\* What is asked for are terms that are described.
IsDepartment(x) == DOMAIN x = {"num", "code", "name", "visible"} /\ x.visible \in BOOLEAN
ASSUME RegistryDataAssumption ==
  /\ Semesters \in Seq(Terms) \ {<<>>}
  /\ \A a \in Requests : ToSet(TargetSemesters(a)) \subseteq Terms
  /\ \A d \in DOMAIN OldDepartments : OldDepartments[d] = Nothing \/ IsDepartment(OldDepartments[d])

PartsOf(kind) == IF kind = "syncAll" THEN <<"scholarDB", "examtime", "classtime">> ELSE <<kind>>
StagesOf(part) == IF part = "scholarDB" THEN <<"departments", "courses", "professors", "lectures">> ELSE <<part>>

\* terms, parts and stages: what is left, the first under way; list: what was
\* fetched; seen and todo: the rows read, and what is left of them; known: the
\* rows of courses in courseMap; hide: departments to be made invisible; new:
\* departments created; got: the parts that are done.
NoSync == [pc |-> "idle", copy |-> "scholar-sync", terms |-> <<>>, kind |-> "syncAll", parts |-> <<>>, stages |-> <<>>,
           list |-> Nothing, seen |-> {}, todo |-> {}, known |-> [s \in Subjects |-> 0], kept |-> {}, hide |-> {},
           new |-> {}, got |-> <<>>, alone |-> TRUE, failed |-> FALSE]
Running == {r \in Syncs : sync[r].pc \notin {"idle", "done"}}
Part(r)  == Head(sync[r].parts)
Stage(r) == Head(sync[r].stages)
Term(r)  == Head(sync[r].terms)
At(r, pc, stages) == sync[r].pc = pc /\ sync[r].stages # <<>> /\ Stage(r) \in stages

Codes == {CodeOf[s] : s \in Subjects}
Visible(D, code) == {d \in DOMAIN D : D[d] # Nothing /\ D[d].visible /\ D[d].code = code}

RegistryTypeOK ==
  /\ registrar \in [Terms -> Listings]
  /\ \A d \in DOMAIN departments : departments[d] = Nothing \/ departments[d].visible \in BOOLEAN
  /\ \A t \in Terms : \A x, y \in lectures[t] : x.id = y.id => x = y
  /\ \A t \in Terms : \A x \in lectures[t] : x.id < lectureId /\ x.course \in DOMAIN courses[x.key[1]]
  /\ scheduled \subseteq Parts \cup {"syncAll"} /\ twins \subseteq Codes
  /\ \A r \in Syncs : sync[r].pc \in {"idle", "fetch", "read", "row", "hide", "done"}
                      /\ ToSet(sync[r].terms) \subseteq Terms /\ (sync[r].hide # {} => sync[r].pc = "hide")

RegistryInit ==
  /\ registrar \in [Terms -> Listings]
  /\ departments = OldDepartments
  /\ courses = [s \in Subjects |-> <<>>]
  /\ professors = [p \in {Staff} \cup UNION {{c.prof : c \in ToSet(x.charges)} : x \in Listings} |-> <<>>]
  /\ lectures = [t \in Terms |-> {}] /\ lectureId = 1
  /\ scheduled = {"syncAll"} \cap JobKinds
  /\ sync = [r \in Syncs |-> NoSync]
  /\ settled = {} /\ twins = {c \in Codes : \E d, e \in Visible(OldDepartments, c) : d # e}
  /\ registryChanges = 0 /\ registryFaults = 0

Fault == registryFaults < RegistryFaults /\ registryFaults' = registryFaults + 1

-----------------------------------------------------------------------------
RegistrarChange ==
  /\ registryChanges < RegistrarChanges /\ registryChanges' = registryChanges + 1
  /\ \E t \in Terms, x \in Listings : x # registrar[t] /\ registrar' = [registrar EXCEPT ![t] = x]
  /\ UNCHANGED <<tables, scheduled, sync, settled, twins, registryFaults>>

\* A run begins, whoever else is running.
Begin(r, run) ==
  /\ sync[r].pc = "idle"
  /\ sync' = [q \in Syncs |-> IF q = r THEN [run EXCEPT !.alone = (Running = {})]
                              ELSE IF q \in Running THEN [sync[q] EXCEPT !.alone = FALSE] ELSE sync[q]]
  /\ UNCHANGED <<registrar, tables, scheduled, settled, twins, registryBounds>>

ScholarRun(kind, a) ==
  [NoSync EXCEPT !.pc = "fetch", !.kind = kind, !.terms = Reverse(TargetSemesters(a)), !.parts = PartsOf(kind)]

\* SyncDynamicController, and the cron, which passes no parameters.
Ask(r, kind, a) == Begin(r, ScholarRun(kind, a))
Cron(r, kind) == kind \in scheduled /\ Begin(r, ScholarRun(kind, [term |-> Nothing, interval |-> 0]))

\* SyncController of the server.
Post(r, kind, t) ==
  /\ Accepted(kind, registrar[t])
  /\ Begin(r, [NoSync EXCEPT !.pc = "read", !.copy = "server", !.kind = kind, !.terms = <<t>>, !.parts = <<kind>>,
                             !.stages = StagesOf(kind), !.list = registrar[t]])

\* toggleJob and toggleAllJobs: a running job is stopped, a stopped one started.
Toggle(kinds) ==
  /\ registryChanges < RegistrarChanges /\ registryChanges' = registryChanges + 1
  /\ scheduled' = (scheduled \ kinds) \cup (kinds \ scheduled)
  /\ UNCHANGED <<registrar, tables, sync, settled, twins, registryFaults>>

\* The next part of the next term is fetched.  An answer without a list is
\* taken for an empty list.
Empty(x, part) == CASE part = "scholarDB" -> [x EXCEPT !.lectures = <<>>]
                    [] part = "examtime"  -> [x EXCEPT !.examtimes = <<>>]
                    [] OTHER              -> [x EXCEPT !.classtimes = <<>>]
Fetch(r) ==
  /\ sync[r].pc = "fetch"
  /\ LET fetched(x) ==
           IF Readable(Part(r), x)
             THEN sync' = [sync EXCEPT ![r] = [sync[r] EXCEPT !.pc = "read", !.stages = StagesOf(Part(r)), !.list = x]]
             ELSE sync' = [sync EXCEPT ![r] = [NoSync EXCEPT !.pc = "done"]]
     IN \/ fetched(registrar[Term(r)]) /\ UNCHANGED registryFaults
        \/ fetched(Empty(registrar[Term(r)], Part(r))) /\ Fault
  /\ UNCHANGED <<registrar, tables, scheduled, settled, twins, registryChanges>>

-----------------------------------------------------------------------------
\* The keys of a stage.
StageKeys(stage, x, t) ==
  CASE stage = "departments" -> {e.dept : e \in ToSet(x.lectures)}
    [] stage = "courses"     -> {e.subject : e \in ToSet(x.lectures)}
    [] stage = "professors"  -> {c.prof : c \in ToSet(x.charges)} \ {Staff}
    [] stage = "lectures"    -> {LectureKey(e) : e \in ToSet(x.lectures)}
    [] OTHER                 -> {row.id : row \in lectures[t]}
\* Where a key is listed first; the rows come in this order, those of times in
\* any.
Position(stage, x, k) ==
  CASE stage = "departments" -> SelectInSeq(x.lectures, LAMBDA e : e.dept = k)
    [] stage = "courses"     -> SelectInSeq(x.lectures, LAMBDA e : e.subject = k)
    [] stage = "professors"  -> SelectInSeq(x.charges, LAMBDA c : c.prof = k)
    [] stage = "lectures"    -> SelectInSeq(x.lectures, LAMBDA e : LectureKey(e) = k)
    [] OTHER                 -> k

\* The entries the keys stand for: the first lecture of a department, the last
\* of a course, the first charge of a professor.
EntryOf(stage, x, k) ==
  CASE stage = "courses"    -> x.lectures[SelectLastInSeq(x.lectures, LAMBDA e : e.subject = k)]
    [] stage = "professors" -> x.charges[Position(stage, x, k)]
    [] OTHER                -> x.lectures[Position(stage, x, k)]

TableOf(stage, t) == CASE stage = "departments" -> departments
                       [] stage = "courses"     -> courses
                       [] stage = "professors"  -> professors
                       [] OTHER                 -> lectures[t]

\* getExisting...; before all others, the professor who stands for the staff is
\* looked for, and created.
StaffRow == [name |-> "Staff", nameEn |-> "Staff", major |-> 0]
ReadStage(r) ==
  /\ sync[r].pc = "read"
  /\ professors' = IF Stage(r) = "departments" /\ professors[Staff] = <<>>
                     THEN [professors EXCEPT ![Staff] = <<StaffRow>>] ELSE professors
  /\ sync' = [sync EXCEPT ![r] =
       [sync[r] EXCEPT !.pc = "row", !.seen = TableOf(Stage(r), Term(r)), !.kept = {},
                 !.todo = StageKeys(Stage(r), sync[r].list, Term(r)),
                 !.known = IF Stage(r) = "courses" THEN [s \in Subjects |-> Len(courses[s])] ELSE @]]
  /\ UNCHANGED <<registrar, departments, courses, lectures, lectureId, scheduled, settled, twins, registryBounds>>

NextKey(r) == CHOOSE k \in sync[r].todo : \A j \in sync[r].todo :
                Position(Stage(r), sync[r].list, k) <= Position(Stage(r), sync[r].list, j)

\* What a write makes of the history: other parts of the term, or of all terms,
\* may not be right any more.
Unsettle(r) == settled' = IF Part(r) = "scholarDB" THEN {} ELSE {s \in settled : s.part # Part(r) \/ s.term # Term(r)}

Advance(r, k, ok) == [sync[r] EXCEPT !.todo = @ \ {k}, !.failed = @ \/ ~ok]
Nowhere == UNCHANGED <<registrar, scheduled, registryBounds>>

\* The row at hand, in the order of the list.
AtHand(r, k, stages) == At(r, "row", stages) /\ k \in sync[r].todo /\ k = NextKey(r)

\* Mutant: the departments of the same number are hidden.
HiddenByNum(seen, info) == {d \in DOMAIN seen : seen[d] # Nothing /\ seen[d].visible /\ seen[d].num = info.num}

\* The departments of the code that were visible when they were read.
Hidden(seen, info) == Visible(seen, info.code)

CreateDepartment(r, k) ==
  LET info == DeriveDepartment(EntryOf("departments", sync[r].list, k))
      hide == Hidden(sync[r].seen, info) IN
  /\ AtHand(r, k, {"departments"}) /\ sync[r].seen[k] = Nothing
  /\ info.code # NoCode /\ departments[k] = Nothing
  /\ departments' = [departments EXCEPT ![k] = [num |-> info.num, code |-> info.code, name |-> info.name, visible |-> TRUE]]
  /\ sync' = [sync EXCEPT ![r] = [Advance(r, k, TRUE) EXCEPT !.hide = hide, !.new = @ \cup {k},
                                    !.pc = IF hide = {} THEN "row" ELSE "hide"]]
  /\ twins' = IF Visible(departments, info.code) \subseteq Visible(sync[r].seen, info.code) THEN twins ELSE twins \cup {info.code}
  /\ Unsettle(r)
  /\ Nowhere /\ UNCHANGED <<courses, professors, lectures, lectureId>>

\* The updates run together, one by one.
HideDepartment(r) ==
  /\ sync[r].pc = "hide"
  /\ \E d \in sync[r].hide :
       /\ departments' = [departments EXCEPT ![d].visible = FALSE]
       /\ sync' = [sync EXCEPT ![r] = [sync[r] EXCEPT !.hide = @ \ {d}, !.pc = IF sync[r].hide = {d} THEN "row" ELSE @]]
  /\ Unsettle(r)
  /\ Nowhere /\ UNCHANGED <<courses, professors, lectures, lectureId, twins>>

\* A department that is visible may take a code another has.
UpdateDepartment(r, k) ==
  LET info == DeriveDepartment(EntryOf("departments", sync[r].list, k)) IN
  /\ AtHand(r, k, {"departments"}) /\ sync[r].seen[k] # Nothing /\ info.code # NoCode
  /\ DepartmentOutdated(sync[r].copy, sync[r].seen[k], info)
  /\ departments' = [departments EXCEPT ![k] = [@ EXCEPT !.num = info.num, !.code = info.code, !.name = info.name]]
  /\ sync' = [sync EXCEPT ![r] = Advance(r, k, TRUE)]
  /\ twins' = IF departments[k].visible /\ Visible(departments, info.code) \ {k} # {} THEN twins \cup {info.code} ELSE twins
  /\ Unsettle(r)
  /\ Nowhere /\ UNCHANGED <<courses, professors, lectures, lectureId>>

\* Nothing to do; or no code can be cut out of the subject; or another run has
\* created the department since.
PassDepartment(r, k) ==
  LET info == DeriveDepartment(EntryOf("departments", sync[r].list, k))
      old  == sync[r].seen[k] # Nothing IN
  /\ AtHand(r, k, {"departments"})
  /\ \/ info.code = NoCode
     \/ old /\ ~DepartmentOutdated(sync[r].copy, sync[r].seen[k], info)
     \/ ~old /\ departments[k] # Nothing
  /\ sync' = [sync EXCEPT ![r] = Advance(r, k, info.code # NoCode /\ old)]
  /\ Nowhere /\ UNCHANGED <<tables, settled, twins>>

-----------------------------------------------------------------------------
\* The course whose row was read last is found.  A course needs its department.
SyncCourse(r, k) ==
  LET info == DeriveCourse(EntryOf("courses", sync[r].list, k))
      n    == Len(sync[r].seen[k])
      here == departments[info.dept] # Nothing
      new  == n = 0
      old  == n > 0 /\ CourseOutdated(sync[r].copy, sync[r].seen[k][n], info)
  IN
  /\ AtHand(r, k, {"courses"})
  /\ courses' = IF new /\ here THEN [courses EXCEPT ![k] = Append(@, info)]
                ELSE IF old /\ here THEN [courses EXCEPT ![k][n] = info] ELSE courses
  /\ sync' = [sync EXCEPT ![r] = [Advance(r, k, here \/ ~(new \/ old)) EXCEPT
                                    !.known[k] = IF new /\ here THEN Len(courses[k]) + 1 ELSE @]]
  /\ IF (new \/ old) /\ here THEN Unsettle(r) ELSE UNCHANGED settled
  /\ Nowhere /\ UNCHANGED <<departments, professors, lectures, lectureId, twins>>

SyncProfessor(r, k) ==
  LET info == DeriveProfessor(EntryOf("professors", sync[r].list, k))
      n    == Len(sync[r].seen[k])
      old  == n > 0 /\ ProfessorOutdated(sync[r].copy, sync[r].seen[k][n], info)
  IN
  /\ AtHand(r, k, {"professors"})
  /\ professors' = IF n = 0 THEN [professors EXCEPT ![k] = Append(@, info)]
                   ELSE IF old THEN [professors EXCEPT ![k][n] = info] ELSE professors
  /\ sync' = [sync EXCEPT ![r] = Advance(r, k, TRUE)]
  /\ IF n = 0 \/ old THEN Unsettle(r) ELSE UNCHANGED settled
  /\ Nowhere /\ UNCHANGED <<departments, courses, lectures, lectureId, twins>>

Updated(row, info) == [f \in DOMAIN row |-> IF f \in DOMAIN info THEN info[f] ELSE row[f]]

\* The first row with the key is found.  Without its course a lecture is an
\* error before its row is taken for one that is listed.
SyncLecture(r, k) ==
  LET entry == EntryOf("lectures", sync[r].list, k)
      known == sync[r].known[k[1]] # 0
      info  == DeriveLecture(entry, sync[r].known[k[1]])
      found == {x \in sync[r].seen : x.key = k /\ \A y \in sync[r].seen : y.key = k => x.id <= y.id}
      here  == departments[info.dept] # Nothing
      new   == known /\ found = {}
      old   == known /\ \E x \in found : LectureOutdated(sync[r].copy, x, info)
      t     == Term(r)
  IN
  /\ AtHand(r, k, {"lectures"})
  /\ lectures' = [lectures EXCEPT ![t] =
       IF new /\ here THEN @ \cup {Updated([id |-> lectureId, key |-> k, exam |-> Nothing, time |-> Nothing, class |-> "",
                                            dept |-> 0, old |-> "", title |-> "", type |-> "", english |-> FALSE,
                                            course |-> 0], info)}
       ELSE IF old /\ here THEN {IF \E y \in found : y.id = x.id THEN Updated(x, info) ELSE x : x \in @}
       ELSE @]
  /\ lectureId' = IF new /\ here THEN lectureId + 1 ELSE lectureId
  /\ sync' = [sync EXCEPT ![r] = [Advance(r, k, known /\ (here \/ ~(new \/ old))) EXCEPT
                                    !.kept = @ \cup IF known THEN {x.id : x \in found} ELSE {}]]
  /\ IF (new \/ old) /\ here THEN Unsettle(r) ELSE UNCHANGED settled
  /\ Nowhere /\ UNCHANGED <<departments, courses, professors, twins>>

\* Mutant: the rows that are there now, and were not found.
MarkDeletedNow(r) ==
  LET gone == {x.id : x \in lectures[Term(r)]} \ sync[r].kept IN
  [lectures EXCEPT ![Term(r)] = {x \in @ : x.id \notin gone}]

\* markLecturesDeleted: the rows that were read, and not found.
MarkDeleted(r) ==
  LET gone == {x.id : x \in sync[r].seen} \ sync[r].kept IN
  [lectures EXCEPT ![Term(r)] = {x \in @ : x.id \notin gone}]

-----------------------------------------------------------------------------
\* The time of the first lecture with the key, if it has one.
TimesOf(part, x) == IF part = "examtime" THEN x.examtimes ELSE x.classtimes
Listed(r, k) ==
  LET row == CHOOSE x \in sync[r].seen : x.id = k
      one == \A y \in sync[r].seen : y.key = row.key => k <= y.id IN
  IF one THEN SelectSeq(TimesOf(Part(r), sync[r].list), LAMBDA e : LectureKey(e) = row.key) ELSE <<>>

\* updateLectureExamtimes and updateLectureClasstimes: what matches stays.
SyncTime(r, k) ==
  LET exam  == Part(r) = "examtime"
      L     == Listed(r, k)
      bad   == L # <<>> /\ Head(L).begin = Nothing
      seen  == CHOOSE x \in sync[r].seen : x.id = k
      field == IF exam THEN "exam" ELSE "time"
      want  == IF L = <<>> THEN Nothing
               ELSE IF exam THEN DeriveExamtime(sync[r].copy, Head(L)) ELSE DeriveClasstime(Head(L))
      stays == IF want = Nothing \/ seen[field] = Nothing THEN want = seen[field]
               ELSE IF exam THEN ExamtimeMatches(want, seen[field]) ELSE ClasstimeMatches(want, seen[field])
  IN
  /\ AtHand(r, k, {"examtime", "classtime"})
  /\ lectures' = IF bad \/ stays THEN lectures
                 ELSE [lectures EXCEPT ![Term(r)] = {IF x.id = k THEN [x EXCEPT ![field] = want] ELSE x : x \in @}]
  /\ sync' = [sync EXCEPT ![r] = Advance(r, k, ~bad)]
  /\ IF bad \/ stays THEN UNCHANGED settled ELSE Unsettle(r)
  /\ Nowhere /\ UNCHANGED <<departments, courses, professors, lectureId, twins>>

-----------------------------------------------------------------------------
\* The stage is over: another stage, another part, another term, or the end.
PartDone(r) == [term |-> Term(r), part |-> Part(r), list |-> sync[r].list]
NextStage(r) ==
  LET s    == sync[r]
      next == IF Tail(s.stages) # <<>> THEN [s EXCEPT !.stages = Tail(@), !.pc = "read", !.seen = {}]
              ELSE IF Tail(s.parts) # <<>> \/ Tail(s.terms) # <<>>
                THEN [s EXCEPT !.pc = "fetch", !.stages = <<>>, !.seen = {}, !.list = Nothing,
                               !.got = Append(@, PartDone(r)),
                               !.parts = IF Tail(@) # <<>> THEN Tail(@) ELSE PartsOf(s.kind),
                               !.terms = IF Tail(s.parts) # <<>> THEN @ ELSE Tail(@)]
              ELSE [NoSync EXCEPT !.pc = "done"]
      right == IF Tail(s.stages) = <<>> /\ s.alone /\ ~s.failed
                 THEN {[term |-> Term(r), part |-> Part(r), list |-> s.list, copy |-> s.copy]} ELSE {}
      marks == Stage(r) = "lectures"
  IN
  /\ s.pc = "row" /\ s.todo = {}
  /\ \/ /\ lectures' = IF marks THEN MarkDeleted(r) ELSE lectures
        /\ sync' = [sync EXCEPT ![r] = next]
        /\ settled' = right \cup IF lectures' # lectures THEN {} ELSE settled
        /\ UNCHANGED registryFaults
     \/ /\ marks /\ Fault
        /\ sync' = [sync EXCEPT ![r] = IF next.pc = "done" THEN next ELSE [next EXCEPT !.failed = TRUE]]
        /\ UNCHANGED <<lectures, settled>>
  /\ UNCHANGED <<registrar, departments, courses, professors, lectureId, scheduled, twins, registryChanges>>

\* A statement of a loop fails: the row is skipped.  While departments are being
\* hidden, one of them stays as it is.
FailRow(r) ==
  /\ Fault
  /\ \/ /\ sync[r].pc = "row" /\ sync[r].todo # {}
        /\ sync' = [sync EXCEPT ![r] = Advance(r, NextKey(r), FALSE)]
        /\ UNCHANGED twins
     \/ /\ sync[r].pc = "hide"
        /\ \E d \in sync[r].hide :
             /\ sync' = [sync EXCEPT ![r] = [sync[r] EXCEPT !.hide = @ \ {d}, !.failed = TRUE,
                                               !.pc = IF sync[r].hide = {d} THEN "row" ELSE @]]
             /\ twins' = twins \cup {departments[d].code}
  /\ UNCHANGED <<registrar, tables, scheduled, settled, registryChanges>>

\* An exception outside of the loops, or the end of the process.
StopSync(r) ==
  /\ Fault /\ r \in Running
  /\ sync' = [sync EXCEPT ![r] = [NoSync EXCEPT !.pc = "done"]]
  /\ twins' = twins \cup {departments[d].code : d \in sync[r].hide}
  /\ UNCHANGED <<registrar, tables, scheduled, settled, registryChanges>>

DepartmentKeys == DOMAIN OldDepartments
RegistryNext ==
  \/ RegistrarChange
  \/ \E kinds \in {{k} : k \in JobKinds} \cup {JobKinds} : Toggle(kinds)
  \/ \E r \in Syncs :
       \/ \E kind \in JobKinds : Cron(r, kind) \/ \E a \in Requests : Ask(r, kind, a)
       \/ \E kind \in JobKinds \cap Parts, t \in Terms : Post(r, kind, t)
       \/ Fetch(r) \/ ReadStage(r) \/ HideDepartment(r) \/ NextStage(r) \/ FailRow(r) \/ StopSync(r)
       \/ \E k \in DepartmentKeys : CreateDepartment(r, k) \/ UpdateDepartment(r, k) \/ PassDepartment(r, k)
       \/ \E k \in Subjects : SyncCourse(r, k)
       \/ \E k \in DOMAIN professors : SyncProfessor(r, k)
       \/ \E k \in sync[r].todo : SyncLecture(r, k) \/ SyncTime(r, k)

RegistrySpec == RegistryInit /\ [][RegistryNext]_registryVars

-----------------------------------------------------------------------------
\* Two departments with one code are shown only while the older is being hidden,
\* or where the code leaves it so: two were created that had not seen each
\* other, one was updated to the code of another, or hiding failed; or it was so
\* before the first run.
OneVisible ==
  /\ RegistryTypeOK
  /\ \A c \in Codes \ twins :
       Cardinality(Visible(departments, c) \ UNION {sync[r].hide : r \in Syncs}) <= 1

Newer(t, u) == SelectInSeq(Semesters, LAMBDA x : x = t) < SelectInSeq(Semesters, LAMBDA x : x = u)

\* The entries of a stage that count: those of the newest term that has the key.
Newest(stage, got) ==
  {y \in UNION {{<<k, i>> : k \in StageKeys(stage, got[i].list, got[i].term)} :
                i \in {j \in DOMAIN got : got[j].part = "scholarDB"}} :
     \A j \in DOMAIN got : Newer(got[j].term, got[y[2]].term) /\ got[j].part = "scholarDB"
                              => y[1] \notin StageKeys(stage, got[j].list, got[j].term)}
EntriesRight(copy, got) ==
  /\ \A y \in Newest("departments", got) :
       ~DepartmentOutdated(copy, departments'[y[1]], DeriveDepartment(EntryOf("departments", got[y[2]].list, y[1])))
  /\ \A y \in Newest("courses", got) :
       ~CourseOutdated(copy, Last(courses'[y[1]]), DeriveCourse(EntryOf("courses", got[y[2]].list, y[1])))
  /\ \A y \in Newest("professors", got) :
       ~ProfessorOutdated(copy, Last(professors'[y[1]]), DeriveProfessor(EntryOf("professors", got[y[2]].list, y[1])))
LecturesRight(copy, t, x) ==
  /\ {row.key : row \in lectures'[t]} = StageKeys("lectures", x, t)
  /\ Cardinality(lectures'[t]) = Len(x.lectures)
  /\ \A row \in lectures'[t] :
       ~LectureOutdated(copy, row, DeriveLecture(EntryOf("lectures", x, row.key), Len(courses'[row.key[1]])))
TimesListed(copy, t, part, x) == \A row \in lectures'[t] :
  LET L == SelectSeq(TimesOf(part, x), LAMBDA e : LectureKey(e) = row.key)
      f == IF part = "examtime" THEN row.exam ELSE row.time IN
  (\A y \in lectures'[t] : y.key = row.key => y = row) =>
    IF L = <<>> THEN f = Nothing
    ELSE f # Nothing /\ IF part = "examtime" THEN ExamtimeMatches(DeriveExamtime(copy, Head(L)), f)
                                             ELSE ClasstimeMatches(DeriveClasstime(Head(L)), f)

\* A run that meets no other and no failure makes the tables what the lists of
\* its terms say, those of the newest term where they differ, and shows the
\* departments it has created.
RunRight(r, got) ==
  /\ EntriesRight(sync[r].copy, got)
  /\ \A i \in DOMAIN got : IF got[i].part = "scholarDB" THEN LecturesRight(sync[r].copy, got[i].term, got[i].list)
                            ELSE TimesListed(sync[r].copy, got[i].term, got[i].part, got[i].list)
  /\ \A d \in sync[r].new : departments'[d].visible

\* And what such a run has made right, another run with the same list leaves
\* alone, whichever of the two programs it is of; but for the days of exams,
\* about which the two do not agree.
LeftAlone(r) == \A s \in settled :
  s.term = Term(r) /\ s.part = Part(r) /\ s.list = sync[r].list /\ (s.part # "examtime" \/ s.copy = sync[r].copy)
    => UNCHANGED <<departments, courses, lectures>> /\ \A p \in DOMAIN professors \ {Staff} : professors'[p] = professors[p]

Registered ==
  [][\A r \in Syncs : sync[r].pc \in {"row", "hide"} /\ sync[r].alone /\ ~sync[r].failed /\ sync'[r] # sync[r]
                       /\ registryFaults' = registryFaults =>
       /\ LeftAlone(r)
       /\ sync'[r].pc = "done" => RunRight(r, Append(sync[r].got, PartDone(r)))]_registryVars
=============================================================================
