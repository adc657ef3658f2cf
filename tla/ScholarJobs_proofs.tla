------------------------- MODULE ScholarJobs_proofs -------------------------
(* Proofs about the jobs of scholar-sync: the registry, for any departments,   *)
(* courses and lectures, lists, terms and runs of both programs; and the jobs  *)
(* that make one table what a list says, for any lists, rows and runs.         *)
EXTENDS ScholarJobs, Registry, FiniteSetTheorems, SequenceTheorems, WellFoundedInduction,
        NaturalsInduction, TLAPS

AtStage(s, pcs, stage) == s.pc \in pcs /\ Head(s.stages) = stage

\* What a run carries that has the departments as they were and a list whose
\* departments are still to do: no department of then is gone now, nor one of a
\* code that can be listed changed to a code that cannot.
SeenFits(s) ==
  /\ DOMAIN s.seen = DepartmentKeys
  /\ \A d \in DepartmentKeys : s.seen[d] # Nothing =>
       IsDepartment(departments[d]) /\ (s.seen[d].code \in Codes => departments[d].code \in Codes)
  /\ \A k \in s.todo : \E p \in DOMAIN s.list.lectures : s.list.lectures[p].dept = k

\* And what it carries that has the lectures of a term as they were: whatever
\* has been made of a row since, it is of the same lecture.
FoundFits(s) ==
  /\ \A k \in s.todo : k[1] \in Subjects
  /\ \A y \in s.seen : y.id \in 0..(lectureId - 1)
  /\ \A y \in s.seen : \A x \in lectures[Head(s.terms)] : x.id = y.id => x.key = y.key

RunFits(r) ==
  LET s == sync[r] IN
  /\ DOMAIN s = DOMAIN NoSync
  /\ s.pc \in {"idle", "fetch", "read", "row", "hide", "done"}
  /\ s.terms \in Seq(Terms)
  /\ s.pc \notin {"idle", "done"} => s.terms # <<>>
  /\ s.hide # {} => s.pc = "hide"
  /\ \A d \in s.hide : d \in DepartmentKeys /\ IsDepartment(departments[d]) /\ departments[d].code \in Codes
  /\ DOMAIN s.known = Subjects /\ \A x \in Subjects : s.known[x] \in 0..Len(courses[x])
  /\ s.pc \in {"read", "row", "hide"} => s.list.lectures \in Seq(ScholarLectureType)
  /\ AtStage(s, {"row", "hide"}, "departments") => SeenFits(s)
  /\ s.pc = "hide" => Head(s.stages) = "departments"
  /\ AtStage(s, {"row"}, "lectures") => FoundFits(s)

RunsFit == DOMAIN sync = Syncs /\ \A r \in Syncs : RunFits(r)
DepartmentsFit ==
  /\ DOMAIN departments = DepartmentKeys
  /\ \A d \in DepartmentKeys : departments[d] = Nothing \/ IsDepartment(departments[d])
  /\ twins \subseteq Codes
CoursesFit == DOMAIN courses = Subjects /\ \A x \in Subjects : courses[x] \in Seq(ToSet(courses[x]))
LectureFits(x, next, C) ==
  /\ {"id", "key", "course"} \subseteq DOMAIN x /\ x.id \in 0..(next - 1)
  /\ x.key[1] \in Subjects /\ x.course \in 1..Len(C[x.key[1]])
LecturesFit ==
  /\ lectureId \in Nat /\ DOMAIN lectures = Terms
  /\ \A t \in Terms : \A x \in lectures[t] : LectureFits(x, lectureId, courses)
  /\ \A t \in Terms : \A x, y \in lectures[t] : x.id = y.id => x = y
ScheduleFits == registrar \in [Terms -> Listings] /\ scheduled \subseteq Parts \cup {"syncAll"}

Hiding == UNION {sync[r].hide : r \in Syncs}
ShownOnce == \A c \in Codes \ twins : \A d, e \in Visible(departments, c) \ Hiding : d = e

RegistryInv == ScheduleFits /\ DepartmentsFit /\ CoursesFit /\ LecturesFit /\ RunsFit /\ ShownOnce
-----------------------------------------------------------------------------
\* A set of positions has a least one.
LEMMA LeastOfNats ==
  ASSUME NEW S \in SUBSET Nat, S # {}
  PROVE  Min(S) \in S /\ \A i \in S : Min(S) <= i
<1> DEFINE R == {ss \in Nat \X Nat : ss[1] < ss[2]}
<1>1. IsWellFoundedOn(R, Nat)
  BY NatLessThanWellFounded DEF OpToRel
<1>2. \A i, j \in Nat : j < i => <<j, i>> \in R
  OBVIOUS
<1> HIDE DEF R
<1>3. PICK i \in S : \A j \in S : ~ (<<j, i>> \in R)
  BY <1>1, WFMin
<1>4. \A j \in S : ~(j < i)
  BY <1>2, <1>3
<1>5. \A j \in S : i <= j
  BY <1>4
<1> QED
  BY <1>5 DEF Min

\* The first lecture of a department that is listed is of a subject, and the
\* code cut out of it is one that can be listed.
LEMMA ListedCode ==
  ASSUME NEW x, x.lectures \in Seq(ScholarLectureType), NEW k,
         \E p \in DOMAIN x.lectures : x.lectures[p].dept = k
  PROVE  DeriveDepartment(EntryOf("departments", x, k)).code \in Codes
<1> DEFINE I == {i \in 1..Len(x.lectures) : x.lectures[i].dept = k}
<1>1. DOMAIN x.lectures = 1..Len(x.lectures) /\ Len(x.lectures) \in Nat
  BY LenProperties
<1>2. I \in SUBSET Nat /\ I # {}
  BY <1>1
<1>3. Min(I) \in I
  BY <1>2, LeastOfNats
<1>4. Position("departments", x, k) = Min(I)
  BY <1>2 DEF Position, SelectInSeq
<1>5. EntryOf("departments", x, k) = x.lectures[Min(I)]
  BY <1>4 DEF EntryOf
<1>6. x.lectures[Min(I)] \in ScholarLectureType
  BY <1>1, <1>3, ElementOfSeq
<1>7. EntryOf("departments", x, k).subject \in Subjects
  BY <1>5, <1>6 DEF ScholarLectureType
<1> QED
  BY <1>7 DEF DeriveDepartment, Codes

-----------------------------------------------------------------------------
\* Whatever a step does to the tables, departments stay departments, of codes
\* that can be listed if they were, courses keep their rows, and a lecture that
\* has an id that was there is the lecture that had it.
Grown ==
  /\ \A d \in DepartmentKeys : IsDepartment(departments[d]) => IsDepartment(departments'[d])
  /\ \A d \in DepartmentKeys : IsDepartment(departments[d]) /\ departments[d].code \in Codes
                                 => departments'[d].code \in Codes
  /\ \A x \in Subjects : Len(courses[x]) \in Nat /\ Len(courses'[x]) \in Nat /\ Len(courses[x]) <= Len(courses'[x])
  /\ lectureId \in Nat /\ lectureId' \in Nat /\ lectureId <= lectureId'
  /\ \A t \in Terms : \A x \in lectures'[t] :
       x.id \in Nat /\ (x.id >= lectureId \/ \E y \in lectures[t] : y.id = x.id /\ y.key = x.key)

\* A run that goes on with what it has.
GoesOn(q) ==
  LET s == sync[q] u == sync'[q] IN
  /\ DOMAIN u = DOMAIN NoSync
  /\ u.pc = s.pc \/ (s.pc = "hide" /\ u.pc = "row")
  /\ u.terms = s.terms /\ u.stages = s.stages /\ u.list = s.list /\ u.seen = s.seen
  /\ u.todo \subseteq s.todo
  /\ u.hide \subseteq s.hide /\ (u.hide # {} => u.pc = "hide")
  /\ DOMAIN u.known = Subjects
  /\ \A x \in Subjects : u.known[x] = s.known[x] \/ u.known[x] \in 0..Len(courses'[x])

LEMMA RunStays ==
  ASSUME NEW q \in Syncs, RunFits(q), Grown, GoesOn(q)
  PROVE  RunFits(q)'
<1> DEFINE s == sync[q]
           u == sync'[q]
<1>1. /\ DOMAIN u = DOMAIN NoSync
      /\ u.pc \in {"idle", "fetch", "read", "row", "hide", "done"}
      /\ u.terms \in Seq(Terms)
      /\ u.pc \notin {"idle", "done"} => u.terms # <<>>
      /\ u.hide # {} => u.pc = "hide"
      /\ u.pc \in {"read", "row", "hide"} => u.list.lectures \in Seq(ScholarLectureType)
      /\ u.pc = "hide" => Head(u.stages) = "departments"
  BY DEF RunFits, GoesOn
<1>2. \A d \in u.hide : d \in DepartmentKeys /\ IsDepartment(departments'[d]) /\ departments'[d].code \in Codes
  BY DEF RunFits, GoesOn, Grown
<1>3. DOMAIN u.known = Subjects /\ \A x \in Subjects : u.known[x] \in 0..Len(courses'[x])
  <2>1. SUFFICES ASSUME NEW x \in Subjects PROVE u.known[x] \in 0..Len(courses'[x])
    BY DEF GoesOn
  <2>2. s.known[x] \in 0..Len(courses[x])
    BY DEF RunFits
  <2>3. s.known[x] \in 0..Len(courses'[x])
    BY <2>2 DEF Grown
  <2> QED
    BY <2>3 DEF GoesOn
<1>4. ASSUME AtStage(u, {"row", "hide"}, "departments")
      PROVE  /\ DOMAIN u.seen = DepartmentKeys
             /\ \A d \in DepartmentKeys : u.seen[d] # Nothing =>
                  IsDepartment(departments'[d]) /\ (u.seen[d].code \in Codes => departments'[d].code \in Codes)
             /\ \A k \in u.todo : \E p \in DOMAIN u.list.lectures : u.list.lectures[p].dept = k
  <2>1. AtStage(s, {"row", "hide"}, "departments")
    BY <1>4 DEF AtStage, GoesOn
  <2>2. SeenFits(s)
    BY <2>1 DEF RunFits
  <2> QED
    BY <2>2 DEF SeenFits, GoesOn, Grown
<1>5. ASSUME AtStage(u, {"row"}, "lectures")
      PROVE  /\ \A k \in u.todo : k[1] \in Subjects
             /\ \A y \in u.seen : y.id \in 0..(lectureId' - 1)
             /\ \A y \in u.seen : \A x \in lectures'[Head(u.terms)] : x.id = y.id => x.key = y.key
  <2>1. AtStage(s, {"row"}, "lectures")
    BY <1>5 DEF AtStage, GoesOn, RunFits
  <2>2. FoundFits(s)
    BY <2>1 DEF RunFits
  <2>3. Head(s.terms) \in Terms
    BY <2>1, HeadTailProperties DEF RunFits, AtStage
  <2>4. \A y \in u.seen : y.id \in 0..(lectureId - 1)
    BY <2>2 DEF FoundFits, GoesOn
  <2>5. \A y \in u.seen : y.id \in 0..(lectureId' - 1)
    BY <2>4 DEF Grown
  <2>6. ASSUME NEW y \in u.seen, NEW x \in lectures'[Head(u.terms)], x.id = y.id
        PROVE  x.key = y.key
    <3>1. Head(u.terms) = Head(s.terms) /\ y \in s.seen
      BY DEF GoesOn
    <3>2. PICK z \in lectures[Head(s.terms)] : z.id = x.id /\ z.key = x.key
      BY <2>3, <2>4, <2>6, <3>1 DEF Grown
    <3> QED
      BY <2>2, <2>6, <3>1, <3>2 DEF FoundFits
  <2> QED
    BY <2>2, <2>5, <2>6 DEF FoundFits, GoesOn
<1> QED
  BY <1>1, <1>2, <1>3, <1>4, <1>5 DEF RunFits, SeenFits, FoundFits
\* The other runs stay as they are, and so does the one that acts if it goes on
\* with what it has.
LEMMA RunsGoOn ==
  ASSUME RunsFit, Grown, DOMAIN sync' = Syncs, \A q \in Syncs : GoesOn(q)
  PROVE  RunsFit'
<1> SUFFICES ASSUME NEW q \in Syncs
             PROVE  RunFits(q)'
  BY DEF RunsFit
<1> QED
  BY RunStays DEF RunsFit

LEMMA SameGoesOn ==
  ASSUME RunsFit, NEW q \in Syncs,
         sync'[q] = sync[q] \/ sync'[q] = [sync[q] EXCEPT !.alone = FALSE]
  PROVE  GoesOn(q)
<1> DEFINE s == sync[q]
<1>1. RunFits(q)
  BY DEF RunsFit
<1>2. DOMAIN s = DOMAIN NoSync /\ "alone" \in DOMAIN NoSync
  BY <1>1 DEF RunFits, NoSync
<1>3. /\ s.hide # {} => s.pc = "hide"
      /\ DOMAIN s.known = Subjects
  BY <1>1 DEF RunFits
<1>4. CASE sync'[q] = sync[q]
  BY <1>2, <1>3, <1>4 DEF GoesOn
<1>5. CASE sync'[q] = [sync[q] EXCEPT !.alone = FALSE]
  <2> DEFINE u == sync'[q]
  <2>1. /\ DOMAIN u = DOMAIN s
        /\ u.pc = s.pc /\ u.terms = s.terms /\ u.stages = s.stages /\ u.list = s.list /\ u.seen = s.seen
        /\ u.todo = s.todo /\ u.hide = s.hide /\ u.known = s.known
    BY <1>2, <1>5 DEF NoSync
  <2> QED
    BY <2>1, <1>2, <1>3 DEF GoesOn
<1> QED
  BY <1>4, <1>5

\* A step of the run r: it suffices that r fits.
LEMMA RunsStay ==
  ASSUME RunsFit, Grown, NEW r \in Syncs, DOMAIN sync' = Syncs,
         \A q \in Syncs \ {r} : sync'[q] = sync[q] \/ sync'[q] = [sync[q] EXCEPT !.alone = FALSE],
         GoesOn(r) \/ RunFits(r)'
  PROVE  RunsFit'
<1> SUFFICES ASSUME NEW q \in Syncs
             PROVE  RunFits(q)'
  BY DEF RunsFit
<1>1. CASE q # r
  <2>1. GoesOn(q)
    BY <1>1, SameGoesOn
  <2> QED
    BY <2>1, RunStays DEF RunsFit
<1>2. CASE q = r
  BY <1>2, RunStays DEF RunsFit
<1> QED
  BY <1>1, <1>2

\* A step that leaves the tables alone.
LEMMA TablesGrow ==
  ASSUME RegistryInv, UNCHANGED <<departments, courses, lectures, lectureId>>
  PROVE  Grown
<1>1. \A x \in Subjects : Len(courses[x]) \in Nat
  BY LenProperties DEF RegistryInv, CoursesFit
<1>2. \A t \in Terms : \A x \in lectures[t] : x.id \in Nat
  BY DEF RegistryInv, LecturesFit, LectureFits
<1>3. lectureId \in Nat
  BY DEF RegistryInv, LecturesFit
<1> QED
  BY <1>1, <1>2, <1>3 DEF Grown

LEMMA TablesFit ==
  ASSUME RegistryInv, UNCHANGED <<departments, courses, lectures, lectureId, twins>>
  PROVE  DepartmentsFit' /\ CoursesFit' /\ LecturesFit'
<1>1. DepartmentsFit'
  BY DEF RegistryInv, DepartmentsFit
<1>2. CoursesFit'
  BY DEF RegistryInv, CoursesFit
<1>3. LecturesFit'
  BY DEF RegistryInv, LecturesFit, LectureFits
<1> QED
  BY <1>1, <1>2, <1>3

\* While departments stay, no code is shown twice that was not, unless hiding
\* is given up.
LEMMA ShownStays ==
  ASSUME ShownOnce, departments' = departments, twins \subseteq twins',
         \A d \in Hiding \ Hiding' : departments[d].code \in twins'
  PROVE  ShownOnce'
<1> SUFFICES ASSUME NEW c \in Codes \ twins',
                    NEW d \in Visible(departments, c) \ Hiding', NEW e \in Visible(departments, c) \ Hiding'
             PROVE  d = e
  BY DEF ShownOnce
<1>1. departments[d].code = c /\ departments[e].code = c
  BY DEF Visible
<1>2. d \notin Hiding /\ e \notin Hiding
  BY <1>1
<1> QED
  BY <1>2 DEF ShownOnce

LEMMA SameHiding ==
  ASSUME \A q \in Syncs : sync'[q].hide = sync[q].hide
  PROVE  Hiding' = Hiding
BY DEF Hiding
-----------------------------------------------------------------------------
\* What is there before the first run fits.
LEMMA RegistryStart ==
  ASSUME RegistryInit
  PROVE  RegistryInv
<1>1. ScheduleFits
  BY DEF RegistryInit, ScheduleFits
<1>2. DepartmentsFit
  BY RegistryDataAssumption DEF RegistryInit, DepartmentsFit, DepartmentKeys
<1>3. CoursesFit
  <2>1. \A x \in Subjects : courses[x] = <<>>
    BY DEF RegistryInit
  <2>2. <<>> \in Seq(ToSet(<<>>))
    BY EmptySeq
  <2> QED
    BY <2>1, <2>2 DEF CoursesFit, RegistryInit
<1>4. LecturesFit
  BY DEF RegistryInit, LecturesFit
<1>5. RunsFit
  <2>1. SUFFICES ASSUME NEW r \in Syncs PROVE RunFits(r)
    BY DEF RunsFit, RegistryInit
  <2>2. sync[r] = NoSync
    BY DEF RegistryInit
  <2>3. /\ NoSync.pc = "idle" /\ NoSync.terms = <<>> /\ NoSync.hide = {}
        /\ NoSync.known = [x \in Subjects |-> 0]
    BY DEF NoSync
  <2>4. <<>> \in Seq(Terms)
    BY EmptySeq
  <2>5. \A x \in Subjects : Len(courses[x]) = 0
    BY EmptySeq DEF RegistryInit
  <2> QED
    BY <2>2, <2>3, <2>4, <2>5 DEF RunFits, AtStage
<1>6. ShownOnce
  <2> SUFFICES ASSUME NEW c \in Codes \ twins, NEW d \in Visible(departments, c), NEW e \in Visible(departments, c)
               PROVE  d = e
    BY DEF ShownOnce
  <2> QED
    BY DEF RegistryInit
<1> QED
  BY <1>1, <1>2, <1>3, <1>4, <1>5, <1>6 DEF RegistryInv

-----------------------------------------------------------------------------
(* What is asked of the system. *)

\* The steps that leave the tables alone: the registrar, the scheduler, and
\* requests that begin a run.
LEMMA RegistrarChangeFits ==
  ASSUME RegistryInv, RegistrarChange
  PROVE  RegistryInv'
<1>1. /\ registrar' \in [Terms -> Listings]
      /\ UNCHANGED <<departments, courses, lectures, lectureId, scheduled, sync, twins>>
  BY DEF RegistrarChange, tables, RegistryInv, ScheduleFits
<1>2. Grown /\ DepartmentsFit' /\ CoursesFit' /\ LecturesFit'
  BY <1>1, TablesGrow, TablesFit
<1>3. RunsFit'
  BY <1>1, <1>2, SameGoesOn, RunsGoOn DEF RegistryInv, RunsFit
<1>4. ShownOnce'
  BY <1>1, SameHiding, ShownStays DEF RegistryInv
<1> QED
  BY <1>1, <1>2, <1>3, <1>4 DEF RegistryInv, ScheduleFits

LEMMA ToggleFits ==
  ASSUME RegistryInv, NEW kinds \in {{k} : k \in JobKinds} \cup {JobKinds}, Toggle(kinds)
  PROVE  RegistryInv'
<1>1. /\ registrar' = registrar /\ scheduled' \subseteq Parts \cup {"syncAll"}
      /\ UNCHANGED <<departments, courses, lectures, lectureId, sync, twins>>
  BY RegistryAssumption DEF Toggle, tables, RegistryInv, ScheduleFits
<1>2. Grown /\ DepartmentsFit' /\ CoursesFit' /\ LecturesFit'
  BY <1>1, TablesGrow, TablesFit
<1>3. RunsFit'
  BY <1>1, <1>2, SameGoesOn, RunsGoOn DEF RegistryInv, RunsFit
<1>4. ShownOnce'
  BY <1>1, SameHiding, ShownStays DEF RegistryInv
<1> QED
  BY <1>1, <1>2, <1>3, <1>4 DEF RegistryInv, ScheduleFits

\* A run begins with terms that are described, and hides nothing.
Startable(run) ==
  /\ DOMAIN run = DOMAIN NoSync
  /\ run.pc \in {"fetch", "read"} /\ (run.pc = "read" => run.list.lectures \in Seq(ScholarLectureType))
  /\ run.terms \in Seq(Terms) \ {<<>>}
  /\ run.hide = {} /\ run.known = [x \in Subjects |-> 0]

LEMMA BeginFits ==
  ASSUME RegistryInv, NEW r \in Syncs, NEW run, Startable(run), Begin(r, run)
  PROVE  RegistryInv'
<1>1. /\ UNCHANGED <<registrar, departments, courses, lectures, lectureId, scheduled, twins>>
      /\ sync[r].pc = "idle" /\ DOMAIN sync' = Syncs
      /\ sync'[r] = [run EXCEPT !.alone = (Running = {})]
      /\ \A q \in Syncs \ {r} : sync'[q] = sync[q] \/ sync'[q] = [sync[q] EXCEPT !.alone = FALSE]
  BY Zenon DEF Begin, tables
<1>2. Grown /\ DepartmentsFit' /\ CoursesFit' /\ LecturesFit'
  BY <1>1, TablesGrow, TablesFit
<1>3. RunFits(r)'
  <2> DEFINE u == sync'[r]
  <2>1. /\ DOMAIN u = DOMAIN NoSync
        /\ u.pc = run.pc /\ u.terms = run.terms /\ u.hide = {} /\ u.list = run.list
        /\ u.known = [x \in Subjects |-> 0]
    BY <1>1 DEF Startable, NoSync
  <2>2. \A x \in Subjects : Len(courses'[x]) \in Nat
    BY <1>2 DEF Grown
  <2> QED
    BY <2>1, <2>2 DEF RunFits, Startable, AtStage
<1>4. RunsFit'
  BY <1>1, <1>2, <1>3, RunsStay DEF RegistryInv
<1>5. \A q \in Syncs : sync'[q].hide = sync[q].hide
  <2>1. SUFFICES ASSUME NEW q \in Syncs PROVE sync'[q].hide = sync[q].hide
    OBVIOUS
  <2>2. RunFits(q) /\ RunFits(r) /\ RunFits(r)'
    BY <1>3 DEF RegistryInv, RunsFit
  <2>3. CASE q = r
    <3>1. sync[r].hide = {}
      BY <1>1, <2>2 DEF RunFits
    <3>2. sync'[r].hide = {}
      BY <1>1 DEF Startable, NoSync
    <3> QED
      BY <2>3, <3>1, <3>2
  <2>4. CASE q # r
    <3>1. "hide" \in DOMAIN sync[q]
      BY <2>2 DEF RunFits, NoSync
    <3> QED
      BY <1>1, <2>4, <3>1
  <2> QED
    BY <2>3, <2>4
<1>6. ShownOnce'
  BY <1>1, <1>5, SameHiding, ShownStays DEF RegistryInv
<1> QED
  BY <1>1, <1>2, <1>4, <1>6 DEF RegistryInv, ScheduleFits

LEMMA TargetsDescribed ==
  ASSUME NEW a, a.interval \in Nat, ToSet(TargetSemesters(a)) \subseteq Terms
  PROVE  Reverse(TargetSemesters(a)) \in Seq(Terms) \ {<<>>}
<1> DEFINE T == TargetSemesters(a)
<1>1. \E n \in Nat : n >= 1 /\ DOMAIN T = 1..n /\ T \in [1..n -> ToSet(T)]
  <2>1. CASE a.term # Nothing
    <3>1. T = PutPreviousSemester(a.term, a.interval)
      BY <2>1 DEF TargetSemesters
    <3>2. \E f : T = [i \in 1..(a.interval + 1) |-> f[i - 1]]
      BY <3>1, Zenon DEF PutPreviousSemester
    <3>3. PICK f : T = [i \in 1..(a.interval + 1) |-> f[i - 1]]
      BY <3>2
    <3>4. DOMAIN T = 1..(a.interval + 1) /\ T \in [1..(a.interval + 1) -> ToSet(T)]
      BY <3>3 DEF ToSet
    <3> QED
      BY <3>4
  <2>2. ASSUME NEW n \in Nat, n >= 1, T = Taken(n)
        PROVE  \E m \in Nat : m >= 1 /\ DOMAIN T = 1..m /\ T \in [1..m -> ToSet(T)]
    <3> DEFINE m == IF n > Len(Semesters) THEN Len(Semesters) ELSE n
    <3>1. Len(Semesters) \in Nat /\ Len(Semesters) >= 1 /\ Semesters \in Seq(Terms)
      BY RegistryDataAssumption, EmptySeq, LenProperties
    <3>2. m \in 1..Len(Semesters) /\ T = SubSeq(Semesters, 1, m)
      BY <2>2, <3>1 DEF Taken
    <3>3. T \in Seq(Terms) /\ Len(T) = m
      BY <3>1, <3>2, SubSeqProperties
    <3>4. DOMAIN T = 1..m /\ T \in [1..m -> Terms]
      BY <3>3, LenProperties
    <3>5. m \in Nat /\ m >= 1
      BY <3>1, <3>2
    <3> HIDE DEF m, T
    <3>6. \A i \in 1..m : T[i] \in ToSet(T)
      BY <3>4 DEF ToSet
    <3>7. T \in [1..m -> ToSet(T)]
      BY <3>4, <3>6
    <3> QED
      BY <3>4, <3>5, <3>7
  <2> QED
    BY <2>1, <2>2 DEF TargetSemesters
<1>2. PICK n \in Nat : n >= 1 /\ DOMAIN T = 1..n /\ T \in [1..n -> ToSet(T)]
  BY <1>1
<1>3. T \in [1..n -> Terms]
  BY <1>2
<1>4. T \in Seq(Terms) /\ Len(T) = n
  BY <1>3, IsASeq, LenProperties
<1>5. Reverse(T) = [i \in 1..n |-> T[(n - i) + 1]]
  BY <1>4 DEF Reverse
<1>6. Reverse(T) \in [1..n -> Terms]
  BY <1>3, <1>5
<1>7. Reverse(T) \in Seq(Terms) /\ Len(Reverse(T)) = n
  BY <1>6, IsASeq, LenProperties
<1> QED
  BY <1>2, <1>7, EmptySeq

LEMMA AskFits ==
  ASSUME RegistryInv, NEW r \in Syncs, NEW part, NEW a, a.interval \in Nat,
         ToSet(TargetSemesters(a)) \subseteq Terms, Begin(r, ScholarRun(part, a))
  PROVE  RegistryInv'
<1>1. Startable(ScholarRun(part, a))
  BY TargetsDescribed DEF Startable, ScholarRun, NoSync
<1> QED
  BY <1>1, BeginFits

LEMMA CronFits ==
  ASSUME RegistryInv, NEW r \in Syncs, NEW part, Cron(r, part)
  PROVE  RegistryInv'
<1> DEFINE a == [term |-> Nothing, interval |-> 0]
<1>1. TargetSemesters(a) = Taken(1) /\ a.interval \in Nat
  BY DEF TargetSemesters
<1>2. ToSet(Taken(1)) \subseteq Terms
  <2>1. Len(Semesters) \in Nat /\ Len(Semesters) >= 1 /\ Semesters \in Seq(Terms)
    BY RegistryDataAssumption, EmptySeq, LenProperties
  <2>2. Taken(1) = SubSeq(Semesters, 1, 1)
    BY <2>1 DEF Taken
  <2>3. \A i \in 1..1 : Semesters[i] \in Terms
    BY <2>1, ElementOfSeq
  <2>4. SubSeq(Semesters, 1, 1) \in Seq(Terms)
    BY <2>3, SubSeqProperties, SMTT(30)
  <2>5. Taken(1) \in Seq(Terms)
    BY <2>2, <2>4
  <2> QED
    BY <2>5, ElementOfSeq, LenProperties DEF ToSet
<1> HIDE DEF a
<1>3. Begin(r, ScholarRun(part, a))
  BY DEF Cron, a
<1> QED
  BY <1>1, <1>2, <1>3, AskFits

LEMMA PostFits ==
  ASSUME RegistryInv, NEW r \in Syncs, NEW part, NEW t \in Terms, Post(r, part, t)
  PROVE  RegistryInv'
<1> DEFINE run == [NoSync EXCEPT !.pc = "read", !.copy = "server", !.kind = part, !.terms = <<t>>, !.parts = <<part>>,
                                 !.stages = StagesOf(part), !.list = registrar[t]]
<1>1. registrar[t].lectures \in Seq(ScholarLectureType)
  BY RegistryAssumption DEF RegistryInv, ScheduleFits
<1>2. <<t>> \in Seq(Terms) /\ <<t>> # <<>>
  OBVIOUS
<1>3. Startable(run)
  BY <1>1, <1>2 DEF Startable, NoSync
<1>4. Begin(r, run)
  BY DEF Post
<1> HIDE DEF run
<1> QED
  BY <1>3, <1>4, BeginFits
-----------------------------------------------------------------------------
(* What a run fetches, reads, passes over, and how it ends. *)

\* A run that ends carries nothing, and a run fits by itself where no table
\* changes: reading a list, then a table.
LEMMA DoneFits ==
  ASSUME NEW r \in Syncs, Grown, sync'[r] = [NoSync EXCEPT !.pc = "done"]
  PROVE  RunFits(r)'
<1> DEFINE u == sync'[r]
<1>1. /\ DOMAIN u = DOMAIN NoSync
      /\ u.pc = "done" /\ u.terms = <<>> /\ u.hide = {} /\ u.known = [x \in Subjects |-> 0]
  BY DEF NoSync
<1>2. u.terms \in Seq(Terms)
  BY <1>1, EmptySeq
<1>3. \A x \in Subjects : Len(courses'[x]) \in Nat
  BY DEF Grown
<1> QED
  BY <1>1, <1>2, <1>3 DEF RunFits, AtStage

\* Where nothing but a run changes, and it hides what it did.
LEMMA RunFitsAlone ==
  ASSUME RegistryInv, NEW r \in Syncs, NEW u, sync' = [sync EXCEPT ![r] = u],
         UNCHANGED <<registrar, departments, courses, lectures, lectureId, scheduled>>, twins' \subseteq Codes,
         GoesOn(r) \/ RunFits(r)',
         twins \subseteq twins', \A d \in sync[r].hide \ sync'[r].hide : departments[d].code \in twins'
  PROVE  RegistryInv'
<1>1. Grown /\ CoursesFit' /\ LecturesFit'
  <2>1. Grown
    BY TablesGrow
  <2>2. CoursesFit' /\ LecturesFit'
    BY DEF RegistryInv, CoursesFit, LecturesFit, LectureFits
  <2> QED
    BY <2>1, <2>2
<1>2. DOMAIN sync' = Syncs /\ \A q \in Syncs \ {r} : sync'[q] = sync[q]
  BY DEF RegistryInv, RunsFit
<1>3. RunsFit'
  BY <1>1, <1>2, RunsStay DEF RegistryInv
<1>4. DepartmentsFit'
  BY DEF RegistryInv, DepartmentsFit
<1>5. \A d \in Hiding \ Hiding' : departments[d].code \in twins'
  <2> SUFFICES ASSUME NEW q \in Syncs, NEW d \in sync[q].hide, d \notin sync'[q].hide
               PROVE  departments[d].code \in twins'
    BY DEF Hiding
  <2> QED
    BY <1>2
<1>6. ShownOnce'
  BY <1>5, ShownStays DEF RegistryInv
<1> QED
  BY <1>1, <1>3, <1>4, <1>6 DEF RegistryInv, ScheduleFits

LEMMA FetchFits ==
  ASSUME RegistryInv, NEW r \in Syncs, Fetch(r)
  PROVE  RegistryInv'
<1>1. /\ UNCHANGED <<registrar, departments, courses, lectures, lectureId, scheduled, twins>>
      /\ sync[r].pc = "fetch"
      /\ \E x \in {registrar[Term(r)], Empty(registrar[Term(r)], Part(r))} :
           \/ sync' = [sync EXCEPT ![r] = [sync[r] EXCEPT !.pc = "read", !.stages = StagesOf(Part(r)), !.list = x]]
           \/ sync' = [sync EXCEPT ![r] = [NoSync EXCEPT !.pc = "done"]]
  BY DEF Fetch, tables
<1>2. PICK x \in {registrar[Term(r)], Empty(registrar[Term(r)], Part(r))} :
           \/ sync' = [sync EXCEPT ![r] = [sync[r] EXCEPT !.pc = "read", !.stages = StagesOf(Part(r)), !.list = x]]
           \/ sync' = [sync EXCEPT ![r] = [NoSync EXCEPT !.pc = "done"]]
  BY <1>1
<1>3. RunFits(r) /\ sync[r].hide = {} /\ Grown /\ DOMAIN sync = Syncs
  BY <1>1, TablesGrow DEF RegistryInv, RunsFit, RunFits
<1>4. CASE sync' = [sync EXCEPT ![r] = [NoSync EXCEPT !.pc = "done"]]
  <2>1. RunFits(r)'
    BY <1>3, <1>4, DoneFits
  <2> QED
    BY <1>1, <1>3, <1>4, <2>1, RunFitsAlone DEF RegistryInv, DepartmentsFit
<1>5. CASE sync' = [sync EXCEPT ![r] = [sync[r] EXCEPT !.pc = "read", !.stages = StagesOf(Part(r)), !.list = x]]
  <2> DEFINE u == sync'[r]
  <2>1. u = [sync[r] EXCEPT !.pc = "read", !.stages = StagesOf(Part(r)), !.list = x]
    BY <1>3, <1>5
  <2>2. /\ DOMAIN u = DOMAIN NoSync
        /\ u.pc = "read" /\ u.terms = sync[r].terms /\ u.hide = {} /\ u.known = sync[r].known /\ u.list = x
    BY <1>3, <2>1 DEF RunFits, NoSync
  <2>3. x.lectures \in Seq(ScholarLectureType)
    <3>1. sync[r].terms \in Seq(Terms) /\ sync[r].terms # <<>>
      BY <1>1, <1>3 DEF RunFits
    <3>2. Term(r) \in Terms
      BY <3>1, HeadTailProperties DEF Term
    <3>3. registrar[Term(r)] \in Listings
      BY <3>2 DEF RegistryInv, ScheduleFits
    <3>4. registrar[Term(r)].lectures \in Seq(ScholarLectureType)
      BY <3>3, RegistryAssumption
    <3>5. DOMAIN registrar[Term(r)] = {"lectures", "charges", "examtimes", "classtimes"}
      BY <3>3, RegistryAssumption
    <3>6. CASE x = registrar[Term(r)]
      BY <3>4, <3>6
    <3>7. CASE x = Empty(registrar[Term(r)], Part(r))
      <4>1. Empty(registrar[Term(r)], Part(r)).lectures \in {<<>>, registrar[Term(r)].lectures}
        BY <3>5 DEF Empty
      <4> QED
        BY <3>4, <3>7, <4>1, EmptySeq
    <3> QED
      BY <3>6, <3>7
  <2>4. RunFits(r)'
    BY <1>1, <1>3, <2>2, <2>3 DEF RunFits, AtStage
  <2> QED
    BY <1>1, <1>3, <1>5, <2>4, RunFitsAlone DEF RegistryInv, DepartmentsFit
<1> QED
  BY <1>2, <1>4, <1>5

LEMMA ReadStageFits ==
  ASSUME RegistryInv, NEW r \in Syncs, ReadStage(r)
  PROVE  RegistryInv'
<1> DEFINE s == sync[r]
           u == sync'[r]
<1>1. /\ UNCHANGED <<registrar, departments, courses, lectures, lectureId, scheduled, twins>>
      /\ s.pc = "read"
      /\ sync' = [sync EXCEPT ![r] =
           [sync[r] EXCEPT !.pc = "row", !.seen = TableOf(Stage(r), Term(r)), !.kept = {},
                           !.todo = StageKeys(Stage(r), sync[r].list, Term(r)),
                           !.known = IF Stage(r) = "courses" THEN [x \in Subjects |-> Len(courses[x])] ELSE sync[r].known]]
  BY DEF ReadStage
<1>2. RunFits(r) /\ s.hide = {} /\ Grown /\ DOMAIN sync = Syncs
  BY <1>1, TablesGrow DEF RegistryInv, RunsFit, RunFits
<1>3. /\ DOMAIN u = DOMAIN NoSync
      /\ u.pc = "row" /\ u.terms = s.terms /\ u.hide = {} /\ u.list = s.list /\ u.stages = s.stages
      /\ u.seen = TableOf(Stage(r), Term(r))
      /\ u.todo = StageKeys(Stage(r), s.list, Term(r))
      /\ u.known = IF Stage(r) = "courses" THEN [x \in Subjects |-> Len(courses[x])] ELSE s.known
  BY <1>1, <1>2 DEF RunFits, NoSync
<1>4. DOMAIN u.known = Subjects /\ \A x \in Subjects : u.known[x] \in 0..Len(courses'[x])
  BY <1>1, <1>2, <1>3 DEF RunFits, Grown
<1>5. s.list.lectures \in Seq(ScholarLectureType) /\ Head(s.terms) \in Terms
  BY <1>1, <1>2, HeadTailProperties DEF RunFits
<1>6. \A e \in ToSet(s.list.lectures) : e.subject \in Subjects
  <2>1. \A p \in DOMAIN s.list.lectures : s.list.lectures[p] \in ScholarLectureType
    BY <1>5, ElementOfSeq, LenProperties
  <2>2. \A e \in ScholarLectureType : e.subject \in Subjects
    BY DEF ScholarLectureType
  <2> QED
    BY <2>1, <2>2 DEF ToSet
<1>7. AtStage(u, {"row", "hide"}, "departments") => SeenFits(sync[r])'
  <2> SUFFICES ASSUME Stage(r) = "departments"
               PROVE  SeenFits(sync[r])'
    BY <1>3 DEF AtStage, Stage
  <2>1. u.seen = departments /\ u.todo = {e.dept : e \in ToSet(s.list.lectures)}
    BY <1>3 DEF TableOf, StageKeys
  <2> QED
    BY <1>1, <1>3, <2>1 DEF SeenFits, RegistryInv, DepartmentsFit, ToSet
<1>8. AtStage(u, {"row"}, "lectures") => FoundFits(sync[r])'
  <2> SUFFICES ASSUME Stage(r) = "lectures"
               PROVE  FoundFits(sync[r])'
    BY <1>3 DEF AtStage, Stage
  <2>1. u.seen = lectures[Head(s.terms)] /\ u.todo = {LectureKey(e) : e \in ToSet(s.list.lectures)}
    BY <1>3 DEF TableOf, StageKeys, Term
  <2>2. \A k \in u.todo : k[1] \in Subjects
    BY <1>6, <2>1 DEF LectureKey
  <2>3. \A y \in u.seen : y.id \in 0..(lectureId - 1)
    BY <1>5, <2>1 DEF RegistryInv, LecturesFit, LectureFits
  <2>4. \A x, y \in u.seen : x.id = y.id => x.key = y.key
    BY <1>5, <2>1 DEF RegistryInv, LecturesFit
  <2> QED
    BY <1>1, <1>3, <2>1, <2>2, <2>3, <2>4 DEF FoundFits
<1>9. RunFits(r)'
  BY <1>1, <1>2, <1>3, <1>4, <1>7, <1>8 DEF RunFits
<1> QED
  BY <1>1, <1>2, <1>3, <1>9, RunFitsAlone DEF RegistryInv, DepartmentsFit

\* A row is passed over.
LEMMA AdvanceGoesOn ==
  ASSUME RunsFit, NEW r \in Syncs, sync[r].pc = "row", NEW k, NEW ok, sync'[r] = Advance(r, k, ok)
  PROVE  GoesOn(r) /\ sync'[r].hide = {} /\ sync[r].hide = {}
<1> DEFINE s == sync[r]
           u == sync'[r]
<1>1. RunFits(r) /\ s.hide = {}
  BY DEF RunsFit, RunFits
<1>2. /\ DOMAIN u = DOMAIN NoSync
      /\ u.pc = s.pc /\ u.terms = s.terms /\ u.stages = s.stages /\ u.list = s.list /\ u.seen = s.seen
      /\ u.todo = s.todo \ {k} /\ u.hide = {} /\ u.known = s.known
  BY <1>1 DEF Advance, RunFits, NoSync
<1> QED
  BY <1>1, <1>2 DEF GoesOn, RunFits

LEMMA PassDepartmentFits ==
  ASSUME RegistryInv, NEW r \in Syncs, NEW k \in DepartmentKeys, PassDepartment(r, k)
  PROVE  RegistryInv'
<1> DEFINE ok == DeriveDepartment(EntryOf("departments", sync[r].list, k)).code # NoCode /\ sync[r].seen[k] # Nothing
<1>1. /\ UNCHANGED <<registrar, departments, courses, lectures, lectureId, scheduled, twins>>
      /\ sync[r].pc = "row" /\ sync' = [sync EXCEPT ![r] = Advance(r, k, ok)]
  BY DEF PassDepartment, Nowhere, tables, AtHand, At
<1> HIDE DEF ok
<1>2. GoesOn(r) /\ sync'[r].hide = {} /\ sync[r].hide = {}
  BY <1>1, AdvanceGoesOn DEF RegistryInv, RunsFit
<1> QED
  BY <1>1, <1>2, RunFitsAlone DEF RegistryInv, DepartmentsFit

\* A department is hidden, or given up.
LEMMA HidesOneLess ==
  ASSUME RunsFit, NEW r \in Syncs, sync[r].pc = "hide", NEW d \in sync[r].hide,
         \/ sync'[r] = [sync[r] EXCEPT !.hide = @ \ {d}, !.pc = IF sync[r].hide = {d} THEN "row" ELSE "hide"]
         \/ sync'[r] = [sync[r] EXCEPT !.hide = @ \ {d}, !.failed = TRUE,
                                       !.pc = IF sync[r].hide = {d} THEN "row" ELSE "hide"]
  PROVE  GoesOn(r) /\ sync'[r].hide = sync[r].hide \ {d}
<1> DEFINE s == sync[r]
           u == sync'[r]
<1>1. RunFits(r)
  BY DEF RunsFit
<1>2. /\ DOMAIN u = DOMAIN NoSync
      /\ u.pc = (IF s.hide = {d} THEN "row" ELSE "hide") /\ u.terms = s.terms /\ u.stages = s.stages
      /\ u.list = s.list /\ u.seen = s.seen /\ u.todo = s.todo /\ u.hide = s.hide \ {d} /\ u.known = s.known
  BY <1>1 DEF RunFits, NoSync
<1> QED
  BY <1>1, <1>2 DEF GoesOn, RunFits

LEMMA FailRowFits ==
  ASSUME RegistryInv, NEW r \in Syncs, FailRow(r)
  PROVE  RegistryInv'
<1>1. UNCHANGED <<registrar, departments, courses, lectures, lectureId, scheduled>>
  BY DEF FailRow, tables
<1>2. RunFits(r) /\ DOMAIN sync = Syncs /\ RunsFit
  BY DEF RegistryInv, RunsFit
<1>3. CASE /\ sync[r].pc = "row" /\ twins' = twins
           /\ sync' = [sync EXCEPT ![r] = Advance(r, NextKey(r), FALSE)]
  <2>1. GoesOn(r) /\ sync'[r].hide = {} /\ sync[r].hide = {}
    BY <1>2, <1>3, AdvanceGoesOn
  <2> QED
    BY <1>1, <1>3, <2>1, RunFitsAlone DEF RegistryInv, DepartmentsFit
<1>4. ASSUME sync[r].pc = "hide", NEW d \in sync[r].hide,
             sync' = [sync EXCEPT ![r] = [sync[r] EXCEPT !.hide = @ \ {d}, !.failed = TRUE,
                                               !.pc = IF sync[r].hide = {d} THEN "row" ELSE "hide"]],
             twins' = twins \cup {departments[d].code}
      PROVE  RegistryInv'
  <2>1. GoesOn(r) /\ sync'[r].hide = sync[r].hide \ {d}
    BY <1>2, <1>4, HidesOneLess
  <2>2. departments[d].code \in Codes
    BY <1>2, <1>4 DEF RunFits
  <2>3. twins' \subseteq Codes
    BY <1>4, <2>2 DEF RegistryInv, DepartmentsFit
  <2> QED
    BY <1>1, <1>4, <2>1, <2>3, RunFitsAlone
<1>5. \/ /\ sync[r].pc = "row" /\ twins' = twins
         /\ sync' = [sync EXCEPT ![r] = Advance(r, NextKey(r), FALSE)]
      \/ /\ sync[r].pc = "hide"
         /\ \E d \in sync[r].hide :
              /\ sync' = [sync EXCEPT ![r] = [sync[r] EXCEPT !.hide = @ \ {d}, !.failed = TRUE,
                                                 !.pc = IF sync[r].hide = {d} THEN "row" ELSE "hide"]]
              /\ twins' = twins \cup {departments[d].code}
  BY DEF FailRow
<1> QED
  BY <1>3, <1>4, <1>5

LEMMA StopSyncFits ==
  ASSUME RegistryInv, NEW r \in Syncs, StopSync(r)
  PROVE  RegistryInv'
<1>1. /\ UNCHANGED <<registrar, departments, courses, lectures, lectureId, scheduled>>
      /\ sync' = [sync EXCEPT ![r] = [NoSync EXCEPT !.pc = "done"]]
      /\ twins' = twins \cup {departments[d].code : d \in sync[r].hide}
  BY DEF StopSync, tables
<1>2. RunFits(r) /\ DOMAIN sync = Syncs /\ Grown
  BY <1>1, TablesGrow DEF RegistryInv, RunsFit
<1>3. RunFits(r)'
  BY <1>1, <1>2, DoneFits
<1>4. twins' \subseteq Codes
  BY <1>1, <1>2 DEF RegistryInv, DepartmentsFit, RunFits
<1> QED
  BY <1>1, <1>3, <1>4, RunFitsAlone
-----------------------------------------------------------------------------
(* Departments. *)

\* What a department that is to be written gets: a code that can be listed.
LEMMA DepartmentAtHand ==
  ASSUME RegistryInv, NEW r \in Syncs, NEW k, AtHand(r, k, {"departments"})
  PROVE  /\ RunFits(r) /\ SeenFits(sync[r]) /\ AtStage(sync[r], {"row", "hide"}, "departments")
         /\ sync[r].pc = "row" /\ sync[r].hide = {} /\ DOMAIN sync = Syncs
         /\ DeriveDepartment(EntryOf("departments", sync[r].list, k)).code \in Codes
<1>1. RunFits(r) /\ DOMAIN sync = Syncs
  BY DEF RegistryInv, RunsFit
<1>2. sync[r].pc = "row" /\ Head(sync[r].stages) = "departments" /\ k \in sync[r].todo
  BY DEF AtHand, At, Stage
<1>3. AtStage(sync[r], {"row", "hide"}, "departments") /\ SeenFits(sync[r])
  BY <1>1, <1>2 DEF RunFits, AtStage
<1>4. sync[r].list.lectures \in Seq(ScholarLectureType)
  BY <1>1, <1>2 DEF RunFits
<1>5. \E p \in DOMAIN sync[r].list.lectures : sync[r].list.lectures[p].dept = k
  BY <1>2, <1>3 DEF SeenFits
<1>6. DeriveDepartment(EntryOf("departments", sync[r].list, k)).code \in Codes
  BY <1>4, <1>5, ListedCode
<1> QED
  BY <1>1, <1>2, <1>3, <1>6 DEF RunFits

\* A department that is written, of a code that can be listed.
LEMMA DepartmentWritten ==
  ASSUME RegistryInv, NEW k \in DepartmentKeys, NEW row, IsDepartment(row), row.code \in Codes,
         departments' = [departments EXCEPT ![k] = row], twins' \subseteq Codes,
         UNCHANGED <<courses, lectures, lectureId>>
  PROVE  Grown /\ DepartmentsFit' /\ CoursesFit' /\ LecturesFit'
<1>1. \A d \in DepartmentKeys : departments'[d] = IF d = k THEN row ELSE departments[d]
  BY DEF RegistryInv, DepartmentsFit
<1>2. DepartmentsFit'
  BY <1>1 DEF RegistryInv, DepartmentsFit
<1>3. CoursesFit' /\ LecturesFit'
  BY DEF RegistryInv, CoursesFit, LecturesFit, LectureFits
<1>4. \A x \in Subjects : Len(courses[x]) \in Nat
  BY LenProperties DEF RegistryInv, CoursesFit
<1>5. \A t \in Terms : \A x \in lectures[t] : x.id \in Nat
  BY DEF RegistryInv, LecturesFit, LectureFits
<1>6. lectureId \in Nat
  BY DEF RegistryInv, LecturesFit
<1>7. Grown
  BY <1>1, <1>4, <1>5, <1>6 DEF Grown
<1> QED
  BY <1>2, <1>3, <1>7

LEMMA CreateDepartmentFits ==
  ASSUME RegistryInv, NEW r \in Syncs, NEW k \in DepartmentKeys, CreateDepartment(r, k)
  PROVE  RegistryInv'
<1> DEFINE info == DeriveDepartment(EntryOf("departments", sync[r].list, k))
           row  == [num |-> info.num, code |-> info.code, name |-> info.name, visible |-> TRUE]
           hide == Hidden(sync[r].seen, info)
           s    == sync[r]
           u    == sync'[r]
<1>1. /\ UNCHANGED <<registrar, scheduled, courses, lectures, lectureId>>
      /\ AtHand(r, k, {"departments"})
      /\ departments[k] = Nothing
      /\ departments' = [departments EXCEPT ![k] = row]
      /\ sync' = [sync EXCEPT ![r] = [Advance(r, k, TRUE) EXCEPT !.hide = hide, !.new = @ \cup {k},
                                       !.pc = IF hide = {} THEN "row" ELSE "hide"]]
      /\ twins' = IF Visible(departments, info.code) \subseteq Visible(sync[r].seen, info.code)
                    THEN twins ELSE twins \cup {info.code}
  BY DEF CreateDepartment, Nowhere
<1>2. /\ RunFits(r) /\ SeenFits(s) /\ s.pc = "row" /\ s.hide = {} /\ DOMAIN sync = Syncs
      /\ info.code \in Codes /\ AtStage(s, {"row", "hide"}, "departments")
  BY <1>1, DepartmentAtHand
<1> HIDE DEF info
<1>3. IsDepartment(row) /\ row.code = info.code /\ row.visible
  BY DEF IsDepartment
<1>4. twins \subseteq twins' /\ twins' \subseteq Codes
  BY <1>1, <1>2 DEF RegistryInv, DepartmentsFit
<1>5. Grown /\ DepartmentsFit' /\ CoursesFit' /\ LecturesFit'
  BY <1>1, <1>2, <1>3, <1>4, DepartmentWritten
<1>6. /\ DOMAIN u = DOMAIN NoSync
      /\ u.pc = (IF hide = {} THEN "row" ELSE "hide") /\ u.terms = s.terms /\ u.stages = s.stages
      /\ u.list = s.list /\ u.seen = s.seen /\ u.todo = s.todo \ {k} /\ u.hide = hide /\ u.known = s.known
  BY <1>1, <1>2 DEF RunFits, NoSync, Advance
<1>7. \A d \in hide : d \in DepartmentKeys /\ IsDepartment(departments'[d]) /\ departments'[d].code \in Codes
  <2> SUFFICES ASSUME NEW d \in hide
               PROVE  d \in DepartmentKeys /\ IsDepartment(departments'[d]) /\ departments'[d].code \in Codes
    OBVIOUS
  <2>1. d \in DepartmentKeys /\ s.seen[d] # Nothing /\ s.seen[d].code = info.code
    BY <1>2 DEF Hidden, Visible, SeenFits
  <2>2. IsDepartment(departments[d]) /\ departments[d].code \in Codes
    BY <1>2, <2>1 DEF SeenFits
  <2> QED
    BY <1>5, <2>1, <2>2 DEF Grown
<1>8. SeenFits(s)'
  BY <1>2, <1>5, <1>6 DEF SeenFits, Grown
<1>9. DOMAIN u.known = Subjects /\ \A x \in Subjects : u.known[x] \in 0..Len(courses'[x])
  BY <1>1, <1>2, <1>6 DEF RunFits
<1>10. RunFits(r)'
  <2> HIDE DEF hide
  <2> QED
    BY <1>2, <1>6, <1>7, <1>8, <1>9 DEF RunFits, AtStage
<1>11. RunsFit'
  BY <1>1, <1>2, <1>5, <1>10, RunsStay DEF RegistryInv
<1>12. Hiding' = Hiding \cup hide
  BY <1>1, <1>2, <1>6 DEF Hiding
<1>13. ShownOnce'
  <2> SUFFICES ASSUME NEW c \in Codes \ twins',
                      NEW d \in Visible(departments', c) \ Hiding', NEW e \in Visible(departments', c) \ Hiding'
               PROVE  d = e
    BY DEF ShownOnce
  <2>1. \A x \in DepartmentKeys : departments'[x] = IF x = k THEN row ELSE departments[x]
    BY <1>1 DEF RegistryInv, DepartmentsFit
  <2>2. DOMAIN departments = DepartmentKeys /\ DOMAIN departments' = DepartmentKeys
    BY <1>1 DEF RegistryInv, DepartmentsFit
  <2>3. CASE c = info.code
    <3>1. Visible(departments, c) \subseteq hide
      BY <1>1, <2>3 DEF Hidden
    <3>2. \A x \in Visible(departments', c) \ Hiding' : x = k
      BY <1>12, <2>1, <2>2, <3>1 DEF Visible
    <3> QED
      BY <3>2
  <2>4. CASE c # info.code
    <3>1. \A x \in Visible(departments', c) \ Hiding' : x \in Visible(departments, c) \ Hiding
      BY <1>3, <1>12, <2>1, <2>2, <2>4 DEF Visible
    <3> QED
      BY <1>4, <3>1 DEF RegistryInv, ShownOnce
  <2> QED
    BY <2>3, <2>4
<1> QED
  BY <1>1, <1>5, <1>11, <1>13 DEF RegistryInv, ScheduleFits

LEMMA HideDepartmentFits ==
  ASSUME RegistryInv, NEW r \in Syncs, HideDepartment(r)
  PROVE  RegistryInv'
<1>1. PICK d \in sync[r].hide :
        /\ departments' = [departments EXCEPT ![d] = [departments[d] EXCEPT !.visible = FALSE]]
        /\ sync' = [sync EXCEPT ![r] = [sync[r] EXCEPT !.hide = @ \ {d}, !.pc = IF sync[r].hide = {d} THEN "row" ELSE "hide"]]
  BY DEF HideDepartment
<1>2. UNCHANGED <<registrar, scheduled, courses, lectures, lectureId, twins>> /\ sync[r].pc = "hide"
  BY DEF HideDepartment, Nowhere
<1>3. DOMAIN sync = Syncs /\ RunFits(r) /\ RunsFit /\ d \in DepartmentKeys /\ IsDepartment(departments[d])
      /\ departments[d].code \in Codes
  BY DEF RegistryInv, RunsFit, RunFits
<1> DEFINE row == [departments[d] EXCEPT !.visible = FALSE]
<1>4. IsDepartment(row) /\ row.code = departments[d].code /\ row.visible = FALSE
  BY <1>3 DEF IsDepartment
<1>5. Grown /\ DepartmentsFit' /\ CoursesFit' /\ LecturesFit'
  <2> HIDE DEF row
  <2> QED
    BY <1>1, <1>2, <1>3, <1>4, DepartmentWritten DEF RegistryInv, DepartmentsFit, row
<1>6. GoesOn(r) /\ sync'[r].hide = sync[r].hide \ {d}
  BY <1>1, <1>2, <1>3, HidesOneLess
<1>7. RunsFit'
  BY <1>1, <1>3, <1>5, <1>6, RunsStay
<1>8. Hiding \subseteq Hiding' \cup {d}
  BY <1>1, <1>3, <1>6 DEF Hiding
<1>9. ShownOnce'
  <2> SUFFICES ASSUME NEW c \in Codes \ twins,
                      NEW x \in Visible(departments', c) \ Hiding', NEW e \in Visible(departments', c) \ Hiding'
               PROVE  x = e
    BY <1>2 DEF ShownOnce
  <2>1. \A y \in DepartmentKeys : departments'[y] = IF y = d THEN row ELSE departments[y]
    BY <1>1 DEF RegistryInv, DepartmentsFit
  <2>2. DOMAIN departments = DepartmentKeys /\ DOMAIN departments' = DepartmentKeys
    BY <1>1 DEF RegistryInv, DepartmentsFit
  <2>3. \A y \in Visible(departments', c) \ Hiding' : y \in Visible(departments, c) \ Hiding
    BY <1>4, <1>8, <2>1, <2>2 DEF Visible
  <2> QED
    BY <2>3 DEF RegistryInv, ShownOnce
<1> QED
  BY <1>2, <1>5, <1>7, <1>9 DEF RegistryInv, ScheduleFits

LEMMA UpdateDepartmentFits ==
  ASSUME RegistryInv, NEW r \in Syncs, NEW k \in DepartmentKeys, UpdateDepartment(r, k)
  PROVE  RegistryInv'
<1> DEFINE info == DeriveDepartment(EntryOf("departments", sync[r].list, k))
           row  == [departments[k] EXCEPT !.num = info.num, !.code = info.code, !.name = info.name]
<1>1. /\ UNCHANGED <<registrar, scheduled, courses, lectures, lectureId>>
      /\ AtHand(r, k, {"departments"}) /\ sync[r].seen[k] # Nothing
      /\ departments' = [departments EXCEPT ![k] = row]
      /\ sync' = [sync EXCEPT ![r] = Advance(r, k, TRUE)]
      /\ twins' = IF departments[k].visible /\ Visible(departments, info.code) \ {k} # {}
                    THEN twins \cup {info.code} ELSE twins
  BY DEF UpdateDepartment, Nowhere
<1>2. /\ RunFits(r) /\ SeenFits(sync[r]) /\ sync[r].pc = "row" /\ sync[r].hide = {} /\ DOMAIN sync = Syncs
      /\ info.code \in Codes
  BY <1>1, DepartmentAtHand
<1> HIDE DEF info
<1>3. IsDepartment(departments[k])
  BY <1>1, <1>2 DEF SeenFits
<1>4. IsDepartment(row) /\ row.code = info.code /\ row.visible = departments[k].visible
  BY <1>3 DEF IsDepartment
<1>5. twins \subseteq twins' /\ twins' \subseteq Codes
  BY <1>1, <1>2 DEF RegistryInv, DepartmentsFit
<1> HIDE DEF row
<1>6. Grown /\ DepartmentsFit' /\ CoursesFit' /\ LecturesFit'
  BY <1>1, <1>2, <1>4, <1>5, DepartmentWritten
<1>7. GoesOn(r) /\ sync'[r].hide = {}
  BY <1>1, <1>2, AdvanceGoesOn DEF RegistryInv, RunsFit
<1>8. RunsFit'
  BY <1>1, <1>2, <1>6, <1>7, RunsStay DEF RegistryInv
<1>9. Hiding' = Hiding
  BY <1>1, <1>2, <1>7 DEF Hiding
<1>10. ShownOnce'
  <2> SUFFICES ASSUME NEW c \in Codes \ twins',
                      NEW d \in Visible(departments', c) \ Hiding', NEW e \in Visible(departments', c) \ Hiding'
               PROVE  d = e
    BY DEF ShownOnce
  <2>1. \A x \in DepartmentKeys : departments'[x] = IF x = k THEN row ELSE departments[x]
    BY <1>1 DEF RegistryInv, DepartmentsFit
  <2>2. DOMAIN departments = DepartmentKeys /\ DOMAIN departments' = DepartmentKeys
    BY <1>1 DEF RegistryInv, DepartmentsFit
  <2>3. \A x \in Visible(departments', c) \ {k} : x \in Visible(departments, c)
    BY <2>1, <2>2 DEF Visible
  <2>4. CASE k \in Visible(departments', c)
    <3>1. c = info.code /\ departments[k].visible
      BY <1>4, <2>1, <2>4 DEF Visible
    <3>2. Visible(departments, c) \ {k} = {}
      BY <1>1, <3>1
    <3> QED
      BY <2>3, <3>2
  <2>5. CASE k \notin Visible(departments', c)
    BY <1>5, <1>9, <2>3, <2>5 DEF RegistryInv, ShownOnce
  <2> QED
    BY <2>4, <2>5
<1> QED
  BY <1>1, <1>6, <1>8, <1>10 DEF RegistryInv, ScheduleFits
-----------------------------------------------------------------------------
(* Rows of courses, professors and lectures, and their times. *)

\* Professors and courses.
LEMMA RowsWritten ==
  ASSUME RegistryInv, NEW r \in Syncs, NEW u, sync' = [sync EXCEPT ![r] = u],
         UNCHANGED <<registrar, departments, scheduled, twins>>,
         Grown, CoursesFit', LecturesFit', GoesOn(r) \/ RunFits(r)', sync'[r].hide = sync[r].hide
  PROVE  RegistryInv'
<1>1. DOMAIN sync' = Syncs /\ \A q \in Syncs \ {r} : sync'[q] = sync[q]
  BY DEF RegistryInv, RunsFit
<1>2. RunsFit'
  BY <1>1, RunsStay DEF RegistryInv
<1>3. DepartmentsFit'
  BY DEF RegistryInv, DepartmentsFit
<1>4. Hiding' = Hiding
  BY <1>1, SameHiding
<1>5. ShownOnce'
  BY <1>4, ShownStays DEF RegistryInv
<1> QED
  BY <1>2, <1>3, <1>5 DEF RegistryInv, ScheduleFits

LEMMA SyncProfessorFits ==
  ASSUME RegistryInv, NEW r \in Syncs, NEW k, SyncProfessor(r, k)
  PROVE  RegistryInv'
<1>1. /\ UNCHANGED <<registrar, departments, courses, lectures, lectureId, scheduled, twins>>
      /\ sync[r].pc = "row" /\ sync' = [sync EXCEPT ![r] = Advance(r, k, TRUE)]
  BY DEF SyncProfessor, Nowhere, AtHand, At
<1>2. GoesOn(r) /\ sync'[r].hide = {} /\ sync[r].hide = {}
  BY <1>1, AdvanceGoesOn DEF RegistryInv, RunsFit
<1> QED
  BY <1>1, <1>2, RunFitsAlone DEF RegistryInv, DepartmentsFit

LEMMA SyncCourseFits ==
  ASSUME RegistryInv, NEW r \in Syncs, NEW k \in Subjects, SyncCourse(r, k)
  PROVE  RegistryInv'
<1> DEFINE s == sync[r]
           u == sync'[r]
<1> DEFINE info == DeriveCourse(EntryOf("courses", s.list, k))
           n    == Len(s.seen[k])
           here == departments[info.dept] # Nothing
           new  == n = 0 /\ here
           old  == (n > 0 /\ CourseOutdated(s.copy, s.seen[k][n], info)) /\ here
           ok   == here \/ ~(n = 0 \/ (n > 0 /\ CourseOutdated(s.copy, s.seen[k][n], info)))
<1>1. /\ courses' = IF new THEN [courses EXCEPT ![k] = Append(@, info)]
                   ELSE IF old THEN [courses EXCEPT ![k] = [courses[k] EXCEPT ![n] = info]] ELSE courses
      /\ sync' = [sync EXCEPT ![r] = [Advance(r, k, ok) EXCEPT
             !.known = [Advance(r, k, ok).known EXCEPT ![k] = IF new THEN Len(courses[k]) + 1 ELSE Advance(r, k, ok).known[k]]]]
  BY DEF SyncCourse
<1> HIDE DEF info, n, here, new, old, ok
<1>2. UNCHANGED <<registrar, departments, lectures, lectureId, scheduled, twins>> /\ s.pc = "row"
  BY DEF SyncCourse, Nowhere, AtHand, At
<1>3. RunFits(r) /\ DOMAIN sync = Syncs /\ s.hide = {} /\ DOMAIN courses = Subjects
  BY <1>2 DEF RegistryInv, RunsFit, RunFits, CoursesFit
<1>4. \A x \in Subjects : courses[x] \in Seq(ToSet(courses[x])) /\ Len(courses[x]) \in Nat
  BY LenProperties DEF RegistryInv, CoursesFit
<1>5. /\ courses'[k] \in Seq(ToSet(courses'[k])) /\ Len(courses'[k]) \in Nat
      /\ Len(courses[k]) <= Len(courses'[k]) /\ (new => Len(courses'[k]) = Len(courses[k]) + 1)
  <2> DEFINE C == courses[k]
             T == ToSet(C) \cup {info}
  <2>1. C \in Seq(T) /\ Len(C) \in Nat /\ DOMAIN C = 1..Len(C)
    BY <1>4, SeqMonotonic, LenProperties
  <2>2. CASE new
    <3>1. courses'[k] = Append(C, info)
      BY <1>1, <1>3, <2>2
    <3>2. courses'[k] \in Seq(T) /\ Len(courses'[k]) = Len(C) + 1
      BY <2>1, <3>1, AppendProperties
    <3>3. courses'[k] \in Seq(ToSet(courses'[k]))
      BY <3>2, IsASeq, LenProperties DEF ToSet
    <3> QED
      BY <2>1, <3>2, <3>3
  <2>3. CASE ~new /\ old
    <3>1. courses'[k] = [C EXCEPT ![n] = info]
      BY <1>1, <1>3, <2>3
    <3>2. courses'[k] \in [1..Len(C) -> T]
      BY <2>1, <3>1, LenProperties
    <3>3. courses'[k] \in Seq(T) /\ Len(courses'[k]) = Len(C)
      BY <2>1, <3>2, IsASeq, LenProperties
    <3>4. courses'[k] \in Seq(ToSet(courses'[k]))
      BY <3>3, IsASeq, LenProperties DEF ToSet
    <3> QED
      BY <2>1, <2>3, <3>3, <3>4
  <2>4. CASE ~new /\ ~old
    BY <1>1, <1>4, <2>4
  <2> QED
    BY <2>2, <2>3, <2>4
<1>6. DOMAIN courses' = Subjects /\ \A x \in Subjects \ {k} : courses'[x] = courses[x]
  BY <1>1, <1>3
<1>7. CoursesFit'
  BY <1>4, <1>5, <1>6 DEF CoursesFit
<1>8. LecturesFit'
  <2>1. \A x \in Subjects : Len(courses[x]) \in Nat /\ Len(courses'[x]) \in Nat /\ Len(courses[x]) <= Len(courses'[x])
    BY <1>4, <1>5, <1>6
  <2> QED
    BY <1>2, <2>1 DEF RegistryInv, LecturesFit, LectureFits
<1>9. Grown
  <2>1. \A x \in Subjects : Len(courses[x]) \in Nat /\ Len(courses'[x]) \in Nat /\ Len(courses[x]) <= Len(courses'[x])
    BY <1>4, <1>5, <1>6
  <2>2. \A t \in Terms : \A x \in lectures[t] : x.id \in Nat
    BY DEF RegistryInv, LecturesFit, LectureFits
  <2> QED
    BY <1>2, <2>1, <2>2 DEF Grown, RegistryInv, LecturesFit
<1>10. GoesOn(r) /\ u.hide = s.hide
  <2>1. /\ DOMAIN u = DOMAIN NoSync
        /\ u.pc = s.pc /\ u.terms = s.terms /\ u.stages = s.stages /\ u.list = s.list /\ u.seen = s.seen
        /\ u.todo = s.todo \ {k} /\ u.hide = s.hide
        /\ u.known = [s.known EXCEPT ![k] = IF new THEN Len(courses[k]) + 1 ELSE s.known[k]]
    BY <1>1, <1>3 DEF RunFits, NoSync, Advance
  <2>2. DOMAIN s.known = Subjects
    BY <1>3 DEF RunFits
  <2>3. \A x \in Subjects : u.known[x] = s.known[x] \/ u.known[x] \in 0..Len(courses'[x])
    BY <1>4, <1>5, <2>1, <2>2
  <2> QED
    BY <1>3, <2>1, <2>2, <2>3 DEF GoesOn
<1> QED
  BY <1>1, <1>2, <1>7, <1>8, <1>9, <1>10, RowsWritten

\* What derives from an entry has no id and no key.
LEMMA LectureUpdated ==
  ASSUME NEW x, {"id", "key", "course"} \subseteq DOMAIN x, NEW e, NEW c
  PROVE  LET w == Updated(x, DeriveLecture(e, c)) IN
         DOMAIN w = DOMAIN x /\ w.id = x.id /\ w.key = x.key /\ w.course = c
BY DEF Updated, DeriveLecture

\* Rows of one term are written, or made: the ids and the keys of the rows that
\* were there stay, and the courses are there.
LEMMA LecturesWritten ==
  ASSUME RegistryInv, NEW t \in Terms, DOMAIN lectures' = Terms, \A v \in Terms \ {t} : lectures'[v] = lectures[v],
         lectureId' \in Nat, lectureId <= lectureId', UNCHANGED <<departments, courses>>,
         \A x \in lectures'[t] : LectureFits(x, lectureId', courses'),
         \A x \in lectures'[t] : x.id >= lectureId \/ \E y \in lectures[t] : y.id = x.id /\ y.key = x.key,
         \A x, y \in lectures'[t] : x.id = y.id => x = y
  PROVE  Grown /\ CoursesFit' /\ LecturesFit'
<1>1. DOMAIN lectures = Terms /\ lectureId \in Nat
  BY DEF RegistryInv, LecturesFit
<1>3. CoursesFit'
  BY DEF RegistryInv, CoursesFit
<1>4. \A v \in Terms : \A x \in lectures[v] : LectureFits(x, lectureId, courses) /\ LectureFits(x, lectureId', courses')
  BY <1>1 DEF RegistryInv, LecturesFit, LectureFits
<1>5. LecturesFit'
  BY <1>1, <1>4 DEF RegistryInv, LecturesFit
<1>6. \A x \in Subjects : Len(courses[x]) \in Nat
  BY LenProperties DEF RegistryInv, CoursesFit
<1>7. \A v \in Terms : \A x \in lectures'[v] : x.id \in Nat
  BY <1>5 DEF LecturesFit, LectureFits
<1>8. Grown
  BY <1>1, <1>6, <1>7 DEF Grown
<1> QED
  BY <1>3, <1>5, <1>8
\* The run that is at a lecture: its term, what it has found, and the course it
\* knows.
LEMMA LectureAtHand ==
  ASSUME RegistryInv, NEW r \in Syncs, sync[r].pc = "row"
  PROVE  /\ RunFits(r) /\ DOMAIN sync = Syncs /\ sync[r].hide = {}
         /\ Term(r) \in Terms
         /\ \A x \in lectures[Term(r)] : LectureFits(x, lectureId, courses)
         /\ \A x, y \in lectures[Term(r)] : x.id = y.id => x = y
         /\ lectureId \in Nat /\ DOMAIN lectures = Terms
<1>1. RunFits(r) /\ DOMAIN sync = Syncs
  BY DEF RegistryInv, RunsFit
<1>2. sync[r].hide = {} /\ sync[r].terms \in Seq(Terms) /\ sync[r].terms # <<>>
  BY <1>1 DEF RunFits
<1>3. Term(r) \in Terms
  BY <1>2, HeadTailProperties DEF Term
<1> QED
  BY <1>1, <1>2, <1>3 DEF RegistryInv, LecturesFit

LEMMA SyncLectureFits ==
  ASSUME RegistryInv, NEW r \in Syncs, NEW k \in sync[r].todo, SyncLecture(r, k)
  PROVE  RegistryInv'
<1> DEFINE s     == sync[r]
           u     == sync'[r]
           t     == Term(r)
           entry == EntryOf("lectures", s.list, k)
           known == s.known[k[1]] # 0
           info  == DeriveLecture(entry, s.known[k[1]])
           found == {x \in s.seen : x.key = k /\ \A y \in s.seen : y.key = k => x.id <= y.id}
           here  == departments[info.dept] # Nothing
           add   == known /\ found = {} /\ here
           old   == known /\ \E x \in found : LectureOutdated(s.copy, x, info)
           base  == [id |-> lectureId, key |-> k, exam |-> Nothing, time |-> Nothing, class |-> "",
                     dept |-> 0, old |-> "", title |-> "", type |-> "", english |-> FALSE, course |-> 0]
           more  == lectures[t] \cup {Updated(base, info)}
           upd   == {IF \E y \in found : y.id = x.id THEN Updated(x, info) ELSE x : x \in lectures[t]}
           ok    == known /\ (here \/ ~((known /\ found = {}) \/ old))
           kept  == IF known THEN {x.id : x \in found} ELSE {}
<1>1. /\ UNCHANGED <<registrar, departments, courses, scheduled, twins>>
      /\ s.pc = "row" /\ Head(s.stages) = "lectures"
      /\ lectures' = [lectures EXCEPT ![t] = IF add THEN more ELSE IF old /\ here THEN upd ELSE lectures[t]]
      /\ lectureId' = IF add THEN lectureId + 1 ELSE lectureId
      /\ sync' = [sync EXCEPT ![r] = [Advance(r, k, ok) EXCEPT !.kept = Advance(r, k, ok).kept \cup kept]]
  BY DEF SyncLecture, Nowhere, AtHand, At, Stage
<1>2. /\ RunFits(r) /\ DOMAIN sync = Syncs /\ s.hide = {} /\ t \in Terms
      /\ \A x \in lectures[t] : LectureFits(x, lectureId, courses)
      /\ \A x, y \in lectures[t] : x.id = y.id => x = y
      /\ lectureId \in Nat
  BY <1>1, LectureAtHand
<1>3. FoundFits(s) /\ k[1] \in Subjects
  BY <1>1, <1>2 DEF RunFits, AtStage, FoundFits
<1>4. known => s.known[k[1]] \in 1..Len(courses[k[1]])
  BY <1>2, <1>3, LenProperties DEF RunFits, RegistryInv, CoursesFit
<1>5. \A x \in lectures[t] : \A y \in found : x.id = y.id => x.key = k
  BY <1>3 DEF FoundFits, Term
<1>6. \A x \in lectures[t] : LET w == Updated(x, info) IN
        DOMAIN w = DOMAIN x /\ w.id = x.id /\ w.key = x.key /\ w.course = s.known[k[1]]
  <2> SUFFICES ASSUME NEW x \in lectures[t]
               PROVE  LET w == Updated(x, info) IN
                      DOMAIN w = DOMAIN x /\ w.id = x.id /\ w.key = x.key /\ w.course = s.known[k[1]]
    OBVIOUS
  <2>1. {"id", "key", "course"} \subseteq DOMAIN x
    BY <1>2 DEF LectureFits
  <2> QED
    BY <2>1, LectureUpdated
<1>7. LET w == Updated(base, info) IN
        DOMAIN w = DOMAIN base /\ w.id = lectureId /\ w.key = k /\ w.course = s.known[k[1]]
  <2>1. {"id", "key", "course"} \subseteq DOMAIN base /\ base.id = lectureId /\ base.key = k
    OBVIOUS
  <2> HIDE DEF base
  <2> QED
    BY <2>1, LectureUpdated
<1>8. "id" \in DOMAIN base /\ "key" \in DOMAIN base /\ "course" \in DOMAIN base
  OBVIOUS
<1> HIDE DEF info, found, base, entry
<1> DEFINE S == IF add THEN more ELSE IF old /\ here THEN upd ELSE lectures[t]
<1>9. /\ \A x \in S : LectureFits(x, lectureId', courses')
      /\ \A x \in S : x.id >= lectureId \/ \E y \in lectures[t] : y.id = x.id /\ y.key = x.key
      /\ \A x, y \in S : x.id = y.id => x = y
  <2>1. CASE add
    <3> DEFINE w == Updated(base, info)
    <3>1. w.id = lectureId /\ w.key = k /\ w.course \in 1..Len(courses[k[1]]) /\ {"id", "key", "course"} \subseteq DOMAIN w
      BY <1>4, <1>7, <1>8, <2>1
    <3> HIDE DEF w
    <3>2. S = lectures[t] \cup {w}
      BY <2>1 DEF w
    <3>3. \A x \in lectures[t] : x.id \in 0..(lectureId - 1)
      BY <1>2 DEF LectureFits
    <3>4. \A x \in S : LectureFits(x, lectureId', courses')
      BY <1>1, <1>2, <1>3, <2>1, <3>1, <3>2 DEF LectureFits
    <3>5. \A x, y \in S : x.id = y.id => x = y
      BY <1>2, <3>1, <3>2, <3>3
    <3> QED
      BY <1>2, <3>1, <3>2, <3>4, <3>5
  <2>2. CASE ~add /\ old /\ here
    <3> DEFINE new(x) == IF \E y \in found : y.id = x.id THEN Updated(x, info) ELSE x
    <3>1. \A x \in lectures[t] : LectureFits(new(x), lectureId', courses') /\ new(x).id = x.id /\ new(x).key = x.key
      <4> SUFFICES ASSUME NEW x \in lectures[t]
                   PROVE  LectureFits(new(x), lectureId', courses') /\ new(x).id = x.id /\ new(x).key = x.key
        OBVIOUS
      <4>1. CASE \E y \in found : y.id = x.id
        <5>1. x.key = k
          BY <1>5, <4>1
        <5>2. new(x) = Updated(x, info)
          BY <4>1
        <5> DEFINE z == Updated(x, info)
        <5>3. DOMAIN z = DOMAIN x /\ z.id = x.id /\ z.key = x.key /\ z.course \in 1..Len(courses[k[1]])
          BY <1>4, <1>6, <2>2
        <5> HIDE DEF z
        <5>4. LectureFits(z, lectureId', courses')
          BY <1>1, <1>2, <1>3, <2>2, <5>1, <5>3 DEF LectureFits
        <5> QED
          BY <5>2, <5>3, <5>4 DEF z
      <4>2. CASE ~ \E y \in found : y.id = x.id
        BY <1>1, <1>2, <2>2, <4>2 DEF LectureFits
      <4> QED
        BY <4>1, <4>2
    <3> HIDE DEF new
    <3>2. S = {new(x) : x \in lectures[t]}
      BY <2>2 DEF new
    <3> HIDE DEF S
    <3>3. \A x, y \in S : x.id = y.id => x = y
      BY <1>2, <3>1, <3>2
    <3>4. \A x \in S : LectureFits(x, lectureId', courses')
      BY <3>1, <3>2
    <3>5. \A x \in S : \E y \in lectures[t] : y.id = x.id /\ y.key = x.key
      BY <3>1, <3>2
    <3> QED
      BY <3>3, <3>4, <3>5
  <2>3. CASE ~add /\ ~(old /\ here)
    <3>1. S = lectures[t]
      BY <2>3
    <3>2. \A x \in lectures[t] : LectureFits(x, lectureId', courses')
      BY <1>1, <1>2, <2>3 DEF LectureFits
    <3> QED
      BY <1>2, <3>1, <3>2
  <2> QED
    BY <2>1, <2>2, <2>3
<1>10. Grown /\ CoursesFit' /\ LecturesFit'
  <2>1. lectureId' \in Nat /\ lectureId <= lectureId'
    BY <1>1, <1>2
  <2>2. lectures'[t] = S /\ DOMAIN lectures' = Terms /\ \A v \in Terms \ {t} : lectures'[v] = lectures[v]
    BY <1>1, <1>2, LectureAtHand
  <2> HIDE DEF S
  <2> QED
    BY <1>1, <1>2, <1>9, <2>1, <2>2, LecturesWritten
<1>11. GoesOn(r) /\ u.hide = s.hide
  <2>1. /\ DOMAIN u = DOMAIN NoSync
        /\ u.pc = s.pc /\ u.terms = s.terms /\ u.stages = s.stages /\ u.list = s.list /\ u.seen = s.seen
        /\ u.todo = s.todo \ {k} /\ u.hide = s.hide /\ u.known = s.known
    BY <1>1, <1>2 DEF RunFits, NoSync, Advance
  <2> QED
    BY <1>2, <2>1 DEF GoesOn, RunFits
<1> QED
  BY <1>1, <1>10, <1>11, RowsWritten

\* Times of lectures.
LEMMA SyncTimeFits ==
  ASSUME RegistryInv, NEW r \in Syncs, NEW k, SyncTime(r, k)
  PROVE  RegistryInv'
<1> DEFINE t == Term(r)
<1>1. UNCHANGED <<registrar, departments, courses, lectureId, scheduled, twins>> /\ sync[r].pc = "row"
  BY DEF SyncTime, Nowhere, AtHand, At
<1>2. \E ok : sync' = [sync EXCEPT ![r] = Advance(r, k, ok)]
  BY DEF SyncTime
<1>3. PICK ok : sync' = [sync EXCEPT ![r] = Advance(r, k, ok)]
  BY <1>2
<1>4. \/ lectures' = lectures
      \/ \E field \in {"exam", "time"} : \E want :
           lectures' = [lectures EXCEPT ![t] = {IF x.id = k THEN [x EXCEPT ![field] = want] ELSE x : x \in lectures[t]}]
  <2> DEFINE exam  == Part(r) = "examtime"
             L     == Listed(r, k)
             field == IF exam THEN "exam" ELSE "time"
             want  == IF L = <<>> THEN Nothing
                      ELSE IF exam THEN DeriveExamtime(sync[r].copy, Head(L)) ELSE DeriveClasstime(Head(L))
  <2>1. \/ lectures' = lectures
        \/ lectures' = [lectures EXCEPT ![t] = {IF x.id = k THEN [x EXCEPT ![field] = want] ELSE x : x \in lectures[t]}]
    BY DEF SyncTime
  <2>2. field \in {"exam", "time"}
    OBVIOUS
  <2> HIDE DEF field, want
  <2> QED
    BY <2>1, <2>2
<1>5. /\ RunFits(r) /\ DOMAIN sync = Syncs /\ sync[r].hide = {} /\ t \in Terms
      /\ \A x \in lectures[t] : LectureFits(x, lectureId, courses)
      /\ \A x, y \in lectures[t] : x.id = y.id => x = y
      /\ lectureId \in Nat
  BY <1>1, LectureAtHand
<1>6. GoesOn(r) /\ sync'[r].hide = {}
  BY <1>1, <1>3, <1>5, AdvanceGoesOn DEF RegistryInv, RunsFit
<1>7. CASE lectures' = lectures
  BY <1>1, <1>3, <1>5, <1>6, <1>7, RunFitsAlone DEF RegistryInv, DepartmentsFit
<1>8. ASSUME NEW field \in {"exam", "time"}, NEW want,
             lectures' = [lectures EXCEPT ![t] = {IF x.id = k THEN [x EXCEPT ![field] = want] ELSE x : x \in lectures[t]}]
      PROVE  RegistryInv'
  <2> DEFINE new(x) == IF x.id = k THEN [x EXCEPT ![field] = want] ELSE x
             S == {new(x) : x \in lectures[t]}
  <2>1. \A x \in lectures[t] :
          DOMAIN new(x) = DOMAIN x /\ new(x).id = x.id /\ new(x).key = x.key /\ new(x).course = x.course
    BY <1>5 DEF LectureFits
  <2>2. lectures'[t] = S /\ DOMAIN lectures' = Terms /\ \A v \in Terms \ {t} : lectures'[v] = lectures[v]
    BY <1>1, <1>5, <1>8, LectureAtHand
  <2> HIDE DEF new
  <2>3. \A x \in lectures[t] : LectureFits(new(x), lectureId', courses')
    BY <1>1, <1>5, <2>1 DEF LectureFits
  <2>4. Grown /\ CoursesFit' /\ LecturesFit'
    <3>1. \A x \in S : LectureFits(x, lectureId', courses')
      BY <2>3
    <3>2. \A x \in S : \E y \in lectures[t] : y.id = x.id /\ y.key = x.key
      BY <2>1
    <3>3. \A x, y \in S : x.id = y.id => x = y
      BY <1>5, <2>1
    <3> HIDE DEF S
    <3> QED
      BY <1>1, <1>5, <2>2, <3>1, <3>2, <3>3, LecturesWritten
  <2> QED
    BY <1>1, <1>3, <1>5, <1>6, <2>4, RowsWritten
<1> QED
  BY <1>4, <1>7, <1>8
-----------------------------------------------------------------------------
\* The next stage, part or term of a run.
LEMMA NextStageFits ==
  ASSUME RegistryInv, NEW r \in Syncs, NextStage(r)
  PROVE  RegistryInv'
<1> DEFINE s == sync[r]
           u == sync'[r]
           t == Term(r)
           onwards == [s EXCEPT !.stages = Tail(s.stages), !.pc = "read", !.seen = {}]
           fetches == [s EXCEPT !.pc = "fetch", !.stages = <<>>, !.seen = {}, !.list = Nothing,
                                !.got = Append(s.got, PartDone(r)),
                                !.parts = IF Tail(s.parts) # <<>> THEN Tail(s.parts) ELSE PartsOf(s.kind),
                                !.terms = IF Tail(s.parts) # <<>> THEN s.terms ELSE Tail(s.terms)]
           ends == [NoSync EXCEPT !.pc = "done"]
           next == IF Tail(s.stages) # <<>> THEN onwards
                   ELSE IF Tail(s.parts) # <<>> \/ Tail(s.terms) # <<>> THEN fetches ELSE ends
           goes == IF next.pc = "done" THEN next ELSE [next EXCEPT !.failed = TRUE]
<1>1. /\ UNCHANGED <<registrar, departments, courses, lectureId, scheduled, twins>> /\ s.pc = "row"
      /\ lectures' = lectures \/ lectures' = MarkDeleted(r)
      /\ sync' = [sync EXCEPT ![r] = next] \/ sync' = [sync EXCEPT ![r] = goes]
  BY DEF NextStage
<1>2. /\ RunFits(r) /\ DOMAIN sync = Syncs /\ s.hide = {} /\ t \in Terms
      /\ \A x \in lectures[t] : LectureFits(x, lectureId, courses)
      /\ \A x, y \in lectures[t] : x.id = y.id => x = y
      /\ lectureId \in Nat /\ DOMAIN lectures = Terms
  BY <1>1, LectureAtHand
<1>3. Grown /\ CoursesFit' /\ LecturesFit'
  <2>1. CASE lectures' = lectures
    BY <1>1, <2>1, TablesGrow, TablesFit
  <2>2. CASE lectures' = MarkDeleted(r)
    <3>1. lectures'[t] \subseteq lectures[t] /\ DOMAIN lectures' = Terms /\ \A v \in Terms \ {t} : lectures'[v] = lectures[v]
      BY <1>2, <2>2 DEF MarkDeleted
    <3>2. \A x \in lectures'[t] : LectureFits(x, lectureId', courses')
      BY <1>1, <1>2, <3>1
    <3>3. \A x \in lectures'[t] : x.id >= lectureId \/ \E y \in lectures[t] : y.id = x.id /\ y.key = x.key
      BY <3>1
    <3>4. \A x, y \in lectures'[t] : x.id = y.id => x = y
      BY <1>2, <3>1
    <3>5. lectureId' = lectureId /\ lectureId \in Nat
      BY <1>1, <1>2, Zenon
    <3>6. lectureId' \in Nat /\ lectureId <= lectureId'
      BY <3>5
    <3> HIDE DEF t
    <3> QED
      BY <1>1, <1>2, <3>1, <3>2, <3>3, <3>4, <3>6, LecturesWritten
  <2> QED
    BY <1>1, <2>1, <2>2
<1>4. u = next \/ u = goes
  BY <1>1, <1>2
<1>5. CASE Tail(s.stages) # <<>>
  <2>1. /\ DOMAIN u = DOMAIN NoSync
        /\ u.pc = "read" /\ u.terms = s.terms /\ u.list = s.list /\ u.hide = {} /\ u.known = s.known
    <3>1. next = onwards
      BY <1>5
    <3>2. DOMAIN onwards = DOMAIN NoSync /\ onwards.pc = "read" /\ onwards.terms = s.terms /\ onwards.list = s.list
          /\ onwards.hide = {} /\ onwards.known = s.known
      BY <1>2 DEF RunFits, NoSync
    <3> HIDE DEF onwards
    <3>3. u = onwards \/ u = [onwards EXCEPT !.failed = TRUE]
      BY <1>4, <3>1, <3>2
    <3> QED
      BY <3>2, <3>3 DEF NoSync
  <2>2. RunFits(r)'
    BY <1>1, <1>2, <2>1 DEF RunFits, AtStage
  <2>3. u.hide = s.hide
    BY <1>2, <2>1
  <2> QED
    BY <1>1, <1>3, <2>2, <2>3, RowsWritten
<1>6. CASE Tail(s.stages) = <<>> /\ (Tail(s.parts) # <<>> \/ Tail(s.terms) # <<>>)
  <2>1. /\ DOMAIN u = DOMAIN NoSync
        /\ u.pc = "fetch" /\ u.terms = (IF Tail(s.parts) # <<>> THEN s.terms ELSE Tail(s.terms))
        /\ u.hide = {} /\ u.known = s.known
    <3>1. next = fetches
      BY <1>6
    <3>2. DOMAIN fetches = DOMAIN NoSync /\ fetches.pc = "fetch"
          /\ fetches.terms = (IF Tail(s.parts) # <<>> THEN s.terms ELSE Tail(s.terms))
          /\ fetches.hide = {} /\ fetches.known = s.known
      BY <1>2 DEF RunFits, NoSync
    <3> HIDE DEF fetches
    <3>3. u = fetches \/ u = [fetches EXCEPT !.failed = TRUE]
      BY <1>4, <3>1, <3>2
    <3> QED
      BY <3>2, <3>3 DEF NoSync
  <2>2. u.terms \in Seq(Terms) /\ u.terms # <<>>
    <3>1. s.terms \in Seq(Terms) /\ s.terms # <<>>
      BY <1>1, <1>2 DEF RunFits
    <3>2. Tail(s.terms) \in Seq(Terms)
      BY <3>1, HeadTailProperties
    <3> QED
      BY <1>6, <2>1, <3>1, <3>2
  <2>3. RunFits(r)'
    BY <1>1, <1>2, <2>1, <2>2 DEF RunFits, AtStage
  <2>4. u.hide = s.hide
    BY <1>2, <2>1
  <2> QED
    BY <1>1, <1>3, <2>3, <2>4, RowsWritten
<1>7. CASE Tail(s.stages) = <<>> /\ Tail(s.parts) = <<>> /\ Tail(s.terms) = <<>>
  <2>1. u = ends
    <3>1. next = ends /\ ends.pc = "done"
      BY <1>7 DEF NoSync
    <3> QED
      BY <1>4, <3>1
  <2>2. RunFits(r)'
    BY <1>3, <2>1, DoneFits
  <2>3. u.hide = s.hide
    BY <1>2, <2>1 DEF NoSync
  <2> QED
    BY <1>1, <1>3, <2>2, <2>3, RowsWritten
<1> QED
  BY <1>5, <1>6, <1>7

\* Every step keeps the invariant ...
LEMMA RegistryStep ==
  ASSUME RegistryInv, [RegistryNext]_registryVars
  PROVE  RegistryInv'
<1>1. CASE UNCHANGED registryVars
  BY <1>1 DEF registryVars, tables, RegistryInv, ScheduleFits, DepartmentsFit, CoursesFit, LecturesFit, RunsFit,
              RunFits, AtStage, SeenFits, FoundFits, ShownOnce, Hiding
<1>2. CASE RegistrarChange
  BY <1>2, RegistrarChangeFits
<1>3. CASE \E kinds \in {{k} : k \in JobKinds} \cup {JobKinds} : Toggle(kinds)
  BY <1>3, ToggleFits
<1>4. ASSUME NEW r \in Syncs, NEW part \in JobKinds, Cron(r, part) \/ \E a \in Requests : Ask(r, part, a)
      PROVE  RegistryInv'
  BY <1>4, CronFits, AskFits, RegistryAssumption, RegistryDataAssumption DEF Ask
<1>5. ASSUME NEW r \in Syncs, NEW part \in JobKinds \cap Parts, NEW t \in Terms, Post(r, part, t)
      PROVE  RegistryInv'
  BY <1>5, PostFits
<1>6. ASSUME NEW r \in Syncs,
             Fetch(r) \/ ReadStage(r) \/ HideDepartment(r) \/ NextStage(r) \/ FailRow(r) \/ StopSync(r)
      PROVE  RegistryInv'
  BY <1>6, FetchFits, ReadStageFits, HideDepartmentFits, NextStageFits, FailRowFits, StopSyncFits
<1>7. ASSUME NEW r \in Syncs, NEW k \in DepartmentKeys,
             CreateDepartment(r, k) \/ UpdateDepartment(r, k) \/ PassDepartment(r, k)
      PROVE  RegistryInv'
  BY <1>7, CreateDepartmentFits, UpdateDepartmentFits, PassDepartmentFits
<1>8. ASSUME NEW r \in Syncs, NEW k \in Subjects, SyncCourse(r, k)
      PROVE  RegistryInv'
  BY <1>8, SyncCourseFits
<1>9. ASSUME NEW r \in Syncs, NEW k, SyncProfessor(r, k)
      PROVE  RegistryInv'
  BY <1>9, SyncProfessorFits
<1>10. ASSUME NEW r \in Syncs, NEW k \in sync[r].todo, SyncLecture(r, k) \/ SyncTime(r, k)
       PROVE  RegistryInv'
  BY <1>10, SyncLectureFits, SyncTimeFits
<1> QED
  BY <1>1, <1>2, <1>3, <1>4, <1>5, <1>6, <1>7, <1>8, <1>9, <1>10 DEF RegistryNext

\* ... and it gives the property.
LEMMA RegistryHolds ==
  ASSUME RegistryInv
  PROVE  OneVisible
<1>1. RegistryTypeOK
  <2>1. \A t \in Terms : \A x \in lectures[t] : x.id < lectureId /\ x.course \in DOMAIN courses[x.key[1]]
    BY LenProperties DEF RegistryInv, LecturesFit, LectureFits, CoursesFit
  <2>2. \A d \in DOMAIN departments : departments[d] = Nothing \/ departments[d].visible \in BOOLEAN
    BY DEF RegistryInv, DepartmentsFit, IsDepartment
  <2>3. \A r \in Syncs : /\ sync[r].pc \in {"idle", "fetch", "read", "row", "hide", "done"}
                          /\ ToSet(sync[r].terms) \subseteq Terms /\ (sync[r].hide # {} => sync[r].pc = "hide")
    BY ElementOfSeq, LenProperties DEF RegistryInv, RunsFit, RunFits, ToSet
  <2> QED
    BY <2>1, <2>2, <2>3 DEF RegistryTypeOK, RegistryInv, ScheduleFits, LecturesFit, DepartmentsFit
<1>2. ASSUME NEW c \in Codes \ twins
      PROVE  Cardinality(Visible(departments, c) \ UNION {sync[r].hide : r \in Syncs}) <= 1
  <2> DEFINE V == Visible(departments, c) \ Hiding
  <2>1. \A d, e \in V : d = e
    BY <1>2 DEF RegistryInv, ShownOnce
  <2> HIDE DEF V
  <2>2. V = {} => Cardinality(V) <= 1
    BY FS_EmptySet
  <2>3. ASSUME V # {} PROVE Cardinality(V) <= 1
    <3>1. PICK d \in V : TRUE
      BY <2>3
    <3>2. V = {d}
      BY <2>1, <3>1
    <3>3. Cardinality(V) = 1
      BY <3>2, FS_Singleton
    <3> QED
      BY <3>3
  <2>4. Cardinality(V) <= 1
    BY <2>2, <2>3
  <2> QED
    BY <2>4 DEF Hiding, V
<1> QED
  BY <1>1, <1>2 DEF OneVisible

\* The inductive invariant: what runs of the two programs have read and still
\* carry fits the tables, however they overlap and fail and whatever the
\* registrar lists.
THEOREM RegistryFits == RegistrySpec => []RegistryInv
<1>1. RegistryInit => RegistryInv
  BY RegistryStart
<1>2. RegistryInv /\ [RegistryNext]_registryVars => RegistryInv'
  BY RegistryStep
<1> QED
  BY <1>1, <1>2, PTL DEF RegistrySpec

\* For any number of departments, terms and runs: two departments of one code
\* are shown only while the older is being hidden, or for a reason the code gives
\* (twins); and a lecture is never of a course that is not there.
THEOREM RegistryAlways == RegistrySpec => []OneVisible
<1>1. RegistryInv => OneVisible
  BY RegistryHolds
<1> QED
  BY <1>1, RegistryFits, PTL

-----------------------------------------------------------------------------
(* The jobs that make one table what a list says.                          *)
\* A row of the table, with an id that was given; what a job wants and what it
\* is about to take away.
RowFits(r, next) ==
  /\ r \in [id : Nat, owner : Owners, key : Keys, tag : Tags] /\ r.id < next
Places == {"idle", "read", "next", "remove", "add", "update", "chunks", "clear", "fill", "done"}

JobFits(k, b, next, S) ==
  /\ DOMAIN b = DOMAIN NoJob
  /\ b.pc \in Places
  /\ b.pc \in {"next", "remove", "add"} => k \in {"exam", "class"}
  /\ b.pc = "update" => k = "degree"
  /\ b.pc = "chunks" => k = "major"
  /\ b.pc \in {"clear", "fill"} => k = "review"
  /\ b.want \in Lists /\ b.todo \subseteq DOMAIN b.want /\ b.left \subseteq Owners
  /\ b.pc = "update" => \A o \in b.left : o \in Users /\ Entries(b.want, o) # {}
  /\ \A r \in b.gone : RowFits(r, next)
  /\ b.pc \notin {"idle", "done"} => S \subseteq Pairs(b.want)
  /\ k = "major" => S \cap RowPairs(b.gone) = {}

JobsFit == DOMAIN job = Runs /\ \A j \in Runs : JobFits(kind, job[j], nextId, stable)

TableFits ==
  /\ kind \in Kinds /\ listed \in Answers /\ nextId \in Nat \ {0}
  /\ \A r \in rows : RowFits(r, nextId)
  /\ flight \subseteq Owners \X Keys /\ (flight # {} => kind = "major")
  /\ kind \in {"exam", "class"} => \A r, s \in rows : r.id = s.id => r = s
  /\ kind \in {"degree", "major", "review"} => \A r, s \in rows : Pair(r) = Pair(s) => r = s
  /\ kind = "degree" => /\ \A r \in rows : r.owner \in Users
                        /\ \A o \in Users : \E r \in rows : r.owner = o
                        /\ \A r, s \in rows : r.owner = s.owner => r = s

\* The first row of a time that has been listed all along: no run takes it away,
\* because a run matches rows in their order, and one that is listed matches.
First(m, x) ==
  /\ m \in rows /\ Pair(m) = x
  /\ \A s \in rows : Pair(s) = x => m.id <= s.id
Spared(m) == \A j \in Runs : m.id \notin Ids(job[j].gone)

Kept ==
  /\ stable \subseteq Pairs(listed)
  /\ kind \in {"exam", "class"} => \A x \in stable : \E m : First(m, x) /\ Spared(m)
  /\ kind = "major" => stable \subseteq RowPairs(rows) /\ stable \cap flight = {}

JobsInv == TableFits /\ JobsFit /\ Kept
-----------------------------------------------------------------------------
\* A set of positions has a last one.
LEMMA GreatestOfSome ==
  ASSUME NEW n \in Nat, NEW S \in SUBSET (1..n), S # {}
  PROVE  Max(S) \in S
<1> DEFINE T == {n - p : p \in S}
<1>1. T \in SUBSET Nat /\ T # {}
  <2>1. \A p \in 1..n : n - p \in Nat
    OBVIOUS
  <2>2. T \subseteq Nat
    BY <2>1
  <2>3. PICK p \in S : TRUE
    OBVIOUS
  <2>4. n - p \in T
    BY <2>3
  <2> QED
    BY <2>2, <2>4
<1>2. Min(T) \in T /\ \A i \in T : Min(T) <= i
  BY <1>1, LeastOfNats
<1>3. PICK p \in S : Min(T) = n - p
  BY <1>2
<1>4. \A q \in S : n - p <= n - q
  BY <1>2, <1>3
<1>5. \A q \in S : p >= q
  BY <1>4
<1> QED
  BY <1>5 DEF Max

\* Lists are finite sequences of items.
LEMMA ListsAre ==
  ASSUME NEW L \in Lists
  PROVE  /\ L \in Seq(Items) /\ Len(L) \in Nat /\ DOMAIN L = 1..Len(L) /\ IsFiniteSet(DOMAIN L)
         /\ \A p \in DOMAIN L : L[p] \in Items
<1>1. PICK n \in Nat : L \in [1..n -> Items]
  BY ScholarJobsAssumption DEF Lists
<1>2. L \in Seq(Items) /\ Len(L) = n
  BY <1>1
<1>3. IsFiniteSet(1..n)
  BY FS_Interval
<1> QED
  BY <1>1, <1>2, <1>3

\* What a run carries stays right when ids are given and what is listed changes.
LEMMA JobGoesOn ==
  ASSUME NEW k, NEW b, NEW n \in Nat, NEW m \in Nat, n <= m, NEW S, NEW T \in SUBSET S, JobFits(k, b, n, S)
  PROVE  JobFits(k, b, m, T)
<1>1. \A r : RowFits(r, n) => RowFits(r, m)
  BY DEF RowFits
<1> QED
  BY <1>1 DEF JobFits

\* A step of the run j: it suffices that j fits.
LEMMA OthersGoOn ==
  ASSUME TableFits, JobsFit, NEW j \in Runs, nextId' \in Nat, nextId <= nextId', stable' \subseteq stable, kind' = kind,
         DOMAIN job' = Runs, \A i \in Runs \ {j} : job'[i] = job[i],
         JobFits(kind, job'[j], nextId', stable')
  PROVE  JobsFit'
<1>1. \A i \in Runs \ {j} : JobFits(kind, job'[i], nextId', stable')
  BY JobGoesOn DEF JobsFit, TableFits
<1>2. \A i \in Runs : JobFits(kind', job'[i], nextId', stable')
  BY <1>1
<1> QED
  BY <1>2 DEF JobsFit

LEMMA IdleFits ==
  ASSUME NEW k, NEW n \in Nat, NEW S, NEW pc \in {"idle", "done"}
  PROVE  /\ JobFits(k, [NoJob EXCEPT !.pc = pc], n, S) /\ JobFits(k, NoJob, n, S)
         /\ [NoJob EXCEPT !.pc = pc].gone = {} /\ NoJob.gone = {}
<1>1. <<>> \in Lists
  <2>1. <<>> \in [1..0 -> Items]
    OBVIOUS
  <2>2. 0 \in 0..MaxListed
    BY ScholarJobsAssumption
  <2> QED
    BY <2>1, <2>2 DEF Lists
<1> DEFINE b == [NoJob EXCEPT !.pc = pc]
<1>2. ASSUME NEW c \in {b, NoJob}
      PROVE  /\ DOMAIN c = DOMAIN NoJob /\ c.pc \in {"idle", "done"} /\ c.want = <<>> /\ c.left = {}
             /\ c.todo = {} /\ c.gone = {}
  BY <1>2 DEF NoJob
<1> HIDE DEF b
<1>3. RowPairs({}) = {}
  BY DEF RowPairs
<1>4. ASSUME NEW c \in {b, NoJob} PROVE JobFits(k, c, n, S)
  BY <1>1, <1>2, <1>3 DEF JobFits, Places
<1> QED
  BY <1>2, <1>4 DEF b

\* A step that leaves the table alone.
LEMMA TableStays ==
  ASSUME JobsInv, kind' = kind, listed' = listed, nextId' = nextId, rows' = rows, stable' = stable,
         flight' \subseteq flight, JobsFit', \A i \in Runs : job'[i].gone \in {{}, job[i].gone}
  PROVE  JobsInv'
<1>1. TableFits'
  <2>1. Answers' = Answers
    BY DEF Answers
  <2> QED
    BY <2>1 DEF JobsInv, TableFits
<1>2. Kept'
  <2>1. Ids({}) = {}
    BY DEF Ids
  <2>2. ASSUME NEW m, NEW x, First(m, x) /\ Spared(m) PROVE First(m, x)' /\ Spared(m)'
    BY <2>1, <2>2 DEF First, Spared, JobsInv
  <2>3. kind \in {"exam", "class"} => \A x \in stable' : \E m : First(m, x)' /\ Spared(m)'
    BY <2>2 DEF JobsInv, Kept
  <2> QED
    BY <2>3 DEF JobsInv, Kept
<1> QED
  BY <1>1, <1>2 DEF JobsInv

LEMMA JobsStart ==
  ASSUME Init
  PROVE  JobsInv
<1>1. listed \in Lists /\ listed \in Answers /\ kind \in Kinds
  BY DEF Init, Answers
<1>2. /\ Len(listed) \in Nat /\ DOMAIN listed = 1..Len(listed)
      /\ \A p \in DOMAIN listed : listed[p] \in Items
  BY <1>1, ListsAre
<1>3. nextId = Len(listed) + 1 /\ nextId \in Nat \ {0}
  BY <1>2 DEF Init
<1>4. ASSUME NEW k \in Nat, NEW x \in Items, k < nextId
      PROVE  RowFits(Row(k, x), nextId) /\ Row(k, x).id = k /\ Pair(Row(k, x)) = Pair(x)
  BY <1>4 DEF RowFits, Row, Items, Pair
<1>5. ASSUME NEW p \in DOMAIN listed
      PROVE  /\ [listed[p] EXCEPT !.tag = 1] \in Items
             /\ Pair([listed[p] EXCEPT !.tag = 1]) = Pair(listed[p])
  <2>1. listed[p] \in Items /\ 1 \in Tags
    BY <1>2, <1>5, ScholarJobsAssumption
  <2> QED
    BY <2>1 DEF Items, Pair
<1>6. JobsFit
  <2>1. JobFits(kind, NoJob, nextId, stable)
    BY <1>3, IdleFits
  <2> QED
    BY <2>1 DEF Init, JobsFit
<1>7. stable \subseteq Pairs(listed) /\ stable \subseteq RowPairs(rows) /\ flight = {}
  BY DEF Init
<1>8. ASSUME kind \in {"exam", "class"} PROVE TableFits /\ Kept
  <2>1. rows = {Row(p, listed[p]) : p \in DOMAIN listed}
    BY <1>8 DEF Init
  <2>2. \A p \in DOMAIN listed : /\ RowFits(Row(p, listed[p]), nextId) /\ Row(p, listed[p]).id = p
                                 /\ Pair(Row(p, listed[p])) = Pair(listed[p])
    BY <1>2, <1>3, <1>4
  <2>3. TableFits
    BY <1>1, <1>3, <1>7, <1>8, <2>1, <2>2 DEF TableFits
  <2>4. ASSUME NEW x \in stable PROVE \E m : First(m, x) /\ Spared(m)
    <3> DEFINE P == {p \in DOMAIN listed : Pair(listed[p]) = x}
    <3>1. P \in SUBSET Nat /\ P # {}
      BY <1>2, <1>7, <2>4 DEF Pairs
    <3>2. Min(P) \in P /\ \A p \in P : Min(P) <= p
      BY <3>1, LeastOfNats
    <3>3. PICK l \in P : \A p \in P : l <= p
      BY <3>2
    <3>5. Row(l, listed[l]) \in rows /\ Pair(Row(l, listed[l])) = x /\ Row(l, listed[l]).id = l
      BY <2>1, <2>2, <3>3
    <3>6. ASSUME NEW r \in rows, Pair(r) = x PROVE l <= r.id
      <4>1. PICK p \in DOMAIN listed : r = Row(p, listed[p])
        BY <2>1
      <4>2. p \in P /\ r.id = p
        BY <2>2, <3>6, <4>1
      <4> QED
        BY <3>3, <4>2
    <3>7. First(Row(l, listed[l]), x)
      BY <3>5, <3>6 DEF First
    <3>4. \A j \in Runs : job[j].gone = {}
      BY IdleFits DEF Init
    <3> QED
      BY <3>4, <3>7 DEF Spared, Ids
  <2> QED
    BY <1>7, <1>8, <2>3, <2>4 DEF Kept
<1>9. ASSUME kind = "degree" PROVE TableFits /\ Kept
  <2>1. rows = {Row(0, [owner |-> o, key |-> Min(Keys), tag |-> 1]) : o \in Users}
    BY <1>9 DEF Init
  <2>2. Min(Keys) \in Keys
    BY LeastOfNats, ScholarJobsAssumption
  <2>3. ASSUME NEW o \in Users
        PROVE  LET x == [owner |-> o, key |-> Min(Keys), tag |-> 1]
               IN  x \in Items /\ RowFits(Row(0, x), nextId) /\ Row(0, x).owner = o
    <3> DEFINE x == [owner |-> o, key |-> Min(Keys), tag |-> 1]
    <3>1. x \in Items
      BY <2>2, ScholarJobsAssumption DEF Items, Owners
    <3>2. RowFits(Row(0, x), nextId)
      BY <1>3, <1>4, <3>1
    <3> QED
      BY <3>1, <3>2 DEF Row
  <2>4. TableFits
    <3> DEFINE D(o) == Row(0, [owner |-> o, key |-> Min(Keys), tag |-> 1])
    <3>1. rows = {D(o) : o \in Users}
      BY <2>1
    <3>2. \A o \in Users : RowFits(D(o), nextId) /\ D(o).owner = o
      BY <2>3
    <3> HIDE DEF D
    <3>3. /\ \A r \in rows : RowFits(r, nextId) /\ r.owner \in Users
          /\ \A o \in Users : \E r \in rows : r.owner = o
          /\ \A r, s \in rows : r.owner = s.owner => r = s
      BY <3>1, <3>2
    <3>4. \A r, s \in rows : Pair(r) = Pair(s) => r.owner = s.owner
      BY DEF Pair
    <3> QED
      BY <1>1, <1>3, <1>7, <1>9, <3>3, <3>4 DEF TableFits
  <2> QED
    BY <1>7, <1>9, <2>4 DEF Kept
<1>10. ASSUME kind \in {"major", "review"} PROVE TableFits /\ Kept
  <2>1. rows = {Row(0, [listed[p] EXCEPT !.tag = 1]) : p \in DOMAIN listed}
    BY <1>10 DEF Init
  <2>2. \A p \in DOMAIN listed : /\ RowFits(Row(0, [listed[p] EXCEPT !.tag = 1]), nextId)
                                 /\ Pair(Row(0, [listed[p] EXCEPT !.tag = 1])) = Pair(listed[p])
    <3> SUFFICES ASSUME NEW p \in DOMAIN listed
                 PROVE  /\ RowFits(Row(0, [listed[p] EXCEPT !.tag = 1]), nextId)
                        /\ Pair(Row(0, [listed[p] EXCEPT !.tag = 1])) = Pair(listed[p])
      OBVIOUS
    <3> DEFINE x == [listed[p] EXCEPT !.tag = 1]
    <3>1. x \in Items /\ Pair(x) = Pair(listed[p])
      BY <1>5
    <3> HIDE DEF x
    <3>2. RowFits(Row(0, x), nextId) /\ Pair(Row(0, x)) = Pair(x)
      BY <1>3, <1>4, <3>1
    <3> QED
      BY <3>1, <3>2 DEF x
  <2>3. ASSUME NEW p \in DOMAIN listed, NEW q \in DOMAIN listed, Pair(listed[p]) = Pair(listed[q])
        PROVE  Row(0, [listed[p] EXCEPT !.tag = 1]) = Row(0, [listed[q] EXCEPT !.tag = 1])
    <3>1. listed[p] \in Items /\ listed[q] \in Items
      BY <1>2
    <3>2. listed[p].owner = listed[q].owner /\ listed[p].key = listed[q].key
      BY <2>3 DEF Pair
    <3> QED
      BY <3>1, <3>2 DEF Row, Items
  <2>4. TableFits
    <3> DEFINE D(p) == Row(0, [listed[p] EXCEPT !.tag = 1])
    <3>1. rows = {D(p) : p \in DOMAIN listed}
      BY <2>1
    <3>2. \A p \in DOMAIN listed : RowFits(D(p), nextId) /\ Pair(D(p)) = Pair(listed[p])
      BY <2>2
    <3>3. \A p, q \in DOMAIN listed : Pair(listed[p]) = Pair(listed[q]) => D(p) = D(q)
      BY <2>3
    <3> HIDE DEF D
    <3>4. /\ \A r \in rows : RowFits(r, nextId)
          /\ \A r, s \in rows : Pair(r) = Pair(s) => r = s
      BY <3>1, <3>2, <3>3
    <3> QED
      BY <1>1, <1>3, <1>7, <1>10, <3>4 DEF TableFits
  <2> QED
    BY <1>7, <1>10, <2>4 DEF Kept
<1> QED
  BY <1>1, <1>6, <1>8, <1>9, <1>10, ScholarJobsAssumption DEF JobsInv

-----------------------------------------------------------------------------
\* The steps that leave the table alone.
LEMMA ChangeFits ==
  ASSUME JobsInv, Change
  PROVE  JobsInv'
<1>1. /\ kind' = kind /\ listed' \in Answers /\ Answers' = Answers /\ rows' = rows /\ nextId' = nextId /\ job' = job
      /\ flight' = flight /\ stable' = stable \cap Pairs(listed')
  BY DEF Change, table, Answers
<1>2. nextId \in Nat
  BY DEF JobsInv, TableFits
<1>3. \A i \in Runs : JobFits(kind', job'[i], nextId', stable')
  BY <1>1, <1>2, JobGoesOn DEF JobsInv, JobsFit
<1>4. JobsFit'
  BY <1>1, <1>3 DEF JobsInv, JobsFit
<1>5. TableFits'
  BY <1>1 DEF JobsInv, TableFits
<1>6. Kept'
  <2>1. ASSUME NEW m, NEW x, First(m, x) /\ Spared(m) PROVE First(m, x)' /\ Spared(m)'
    BY <1>1, <2>1 DEF First, Spared
  <2>2. kind \in {"exam", "class"} => \A x \in stable' : \E m : First(m, x)' /\ Spared(m)'
    BY <1>1, <2>1 DEF JobsInv, Kept
  <2> QED
    BY <1>1, <2>2 DEF JobsInv, Kept
<1> QED
  BY <1>4, <1>5, <1>6 DEF JobsInv

LEMMA StartFits ==
  ASSUME JobsInv, NEW j \in Runs, Start(j)
  PROVE  JobsInv'
<1>1. /\ kind' = kind /\ listed' = listed /\ rows' = rows /\ nextId' = nextId /\ flight' = flight /\ stable' = stable
      /\ DOMAIN job' = Runs
  BY DEF Start, table
<1>2. PICK sole \in BOOLEAN : job' = [k \in Runs |->
               IF k = j THEN [NoJob EXCEPT !.pc = "read", !.want = listed, !.sole = sole]
               ELSE IF Busy(k) THEN [job[k] EXCEPT !.sole = FALSE] ELSE job[k]]
  BY DEF Start
<1>3. listed \in Lists /\ stable \subseteq Pairs(listed)
  BY DEF JobsInv, TableFits, Answers, Kept
<1>4. JobFits(kind, job'[j], nextId, stable) /\ job'[j].gone = {}
  <2>1. job'[j] = [NoJob EXCEPT !.pc = "read", !.want = listed, !.sole = sole]
    BY <1>2
  <2> DEFINE b == job'[j]
  <2>2. /\ DOMAIN b = DOMAIN NoJob /\ b.pc = "read" /\ b.want = listed /\ b.left = {}
        /\ b.todo = {} /\ b.gone = {}
    BY <2>1 DEF NoJob
  <2> HIDE DEF b
  <2>3. RowPairs({}) = {}
    BY DEF RowPairs
  <2>4. JobFits(kind, b, nextId, stable)
    BY <1>3, <2>2, <2>3 DEF JobFits, Places
  <2> QED
    BY <2>2, <2>4 DEF b
<1>5. ASSUME NEW i \in Runs \ {j} PROVE JobFits(kind, job'[i], nextId, stable) /\ job'[i].gone = job[i].gone
  <2>1. JobFits(kind, job[i], nextId, stable)
    BY DEF JobsInv, JobsFit
  <2>2. job'[i] = [job[i] EXCEPT !.sole = FALSE] \/ job'[i] = job[i]
    BY <1>2
  <2>3. CASE job'[i] = [job[i] EXCEPT !.sole = FALSE]
    <3> DEFINE b == job'[i]
               a == job[i]
    <3>1. /\ DOMAIN b = DOMAIN a /\ b.pc = a.pc /\ b.want = a.want /\ b.left = a.left
          /\ b.todo = a.todo /\ b.gone = a.gone
      <4>1. b = [a EXCEPT !.sole = FALSE] /\ DOMAIN a = DOMAIN NoJob
        BY <2>1, <2>3 DEF JobFits
      <4> HIDE DEF a, b
      <4> QED
        BY <4>1 DEF NoJob
    <3> HIDE DEF a, b
    <3>2. JobFits(kind, b, nextId, stable)
      <4>1. JobFits(kind, a, nextId, stable)
        BY <2>1 DEF a
      <4> QED
        BY <3>1, <4>1 DEF JobFits
    <3> QED
      BY <3>1, <3>2 DEF a, b
  <2> QED
    BY <2>1, <2>2, <2>3
<1>6. JobsFit'
  BY <1>1, <1>4, <1>5 DEF JobsFit
<1> QED
  BY <1>1, <1>4, <1>5, <1>6, TableStays

\* The first row of a listed time is matched.
LEMMA FirstMatched ==
  ASSUME JobsInv, kind \in {"exam", "class"}, NEW L \in Lists, NEW x \in Pairs(L), NEW m, First(m, x)
  PROVE  m.id \notin Ids(Unmatched(rows, L))
<1> SUFFICES ASSUME NEW r \in Unmatched(rows, L), r.id = m.id PROVE FALSE
  BY DEF Ids
<1>1. r = m /\ r \in rows /\ Pair(r) = x
  BY DEF JobsInv, TableFits, First, Unmatched
<1>2. {s \in OfRows(rows, r) : s.id < r.id} = {}
  <2> SUFFICES ASSUME NEW s \in rows, Pair(s) = x, s.id < r.id PROVE FALSE
    BY <1>1 DEF OfRows
  <2>1. s.id \in Nat /\ r.id \in Nat
    BY <1>1 DEF JobsInv, TableFits, RowFits
  <2> QED
    BY <1>1, <2>1 DEF First
<1>3. Cardinality({s \in OfRows(rows, r) : s.id < r.id}) = 0
  BY <1>2, FS_EmptySet
<1> DEFINE P == {p \in DOMAIN L : Pair(L[p]) = Pair(r)}
<1>4. IsFiniteSet(P) /\ Cardinality(P) \in Nat
  <2>1. IsFiniteSet(DOMAIN L)
    BY ListsAre
  <2>2. IsFiniteSet(P)
    BY <2>1, FS_Subset
  <2> QED
    BY <2>2, FS_CardinalityType
<1>5. P # {}
  BY <1>1 DEF Pairs
<1>6. Cardinality(P) # 0
  BY <1>4, <1>5, FS_EmptySet
<1>7. Cardinality({s \in OfRows(rows, r) : s.id < r.id}) >= Cardinality(P)
  BY DEF Unmatched
<1> QED
  BY <1>3, <1>4, <1>6, <1>7

LEMMA ReadFits ==
  ASSUME JobsInv, NEW j \in Runs, Read(j)
  PROVE  JobsInv'
<1> DEFINE a == job[j]
           L == a.want
<1>1. /\ kind' = kind /\ listed' = listed /\ rows' = rows /\ nextId' = nextId /\ flight' = flight /\ stable' = stable
      /\ a.pc = "read"
  BY DEF Read, table
<1>2. JobFits(kind, a, nextId, stable) /\ DOMAIN job = Runs /\ L \in Lists /\ stable \subseteq Pairs(L)
  BY <1>1 DEF JobsInv, JobsFit, JobFits
<1>3. PICK pc, left, todo, gone :
        /\ job' = [job EXCEPT ![j] = [a EXCEPT !.pc = pc, !.left = left, !.todo = todo, !.gone = gone]]
        /\ \/ /\ kind \in {"exam", "class"} /\ pc = "next" /\ left = Lectures
              /\ todo = Additional(rows, L) /\ gone = Unmatched(rows, L)
           \/ kind = "degree" /\ pc = "update" /\ left = ToUpdate(rows, L) /\ todo = {} /\ gone = {}
           \/ kind = "major" /\ pc = "chunks" /\ left = {} /\ todo = NewMajors(rows, L) /\ gone = OldMajors(rows, L)
           \/ kind = "review" /\ pc = "clear" /\ left = {} /\ todo = {} /\ gone = {}
  <2>1. kind \in {"exam", "class", "degree", "major", "review"}
    BY ScholarJobsAssumption DEF JobsInv, TableFits
  <2> QED
    BY <2>1 DEF Read
<1> DEFINE b == [a EXCEPT !.pc = pc, !.left = left, !.todo = todo, !.gone = gone]
<1>4. job'[j] = b /\ DOMAIN job' = Runs /\ \A i \in Runs \ {j} : job'[i] = job[i]
  BY <1>2, <1>3
<1>5. DOMAIN b = DOMAIN NoJob /\ b.pc = pc /\ b.want = L /\ b.left = left /\ b.todo = todo /\ b.gone = gone
  <2>1. DOMAIN a = DOMAIN NoJob
    BY <1>2 DEF JobFits
  <2> HIDE DEF a
  <2> QED
    BY <2>1 DEF NoJob
<1> HIDE DEF a, b
<1>6. /\ pc \in Places /\ (pc \in {"next", "remove", "add"} => kind \in {"exam", "class"})
      /\ (pc = "update" => kind = "degree") /\ (pc = "chunks" => kind = "major")
      /\ (pc \in {"clear", "fill"} => kind = "review")
  BY <1>3 DEF Places
<1>7. todo \subseteq DOMAIN L /\ left \subseteq Owners /\ gone \subseteq rows
  BY <1>3 DEF Additional, Unmatched, NewMajors, OldMajors, ToUpdate, Owners
<1>8. pc = "update" => \A o \in left : o \in Users /\ Entries(L, o) # {}
  BY <1>3 DEF ToUpdate
<1>9. kind = "major" => stable \cap RowPairs(gone) = {}
  BY <1>2, <1>3 DEF OldMajors, RowPairs
<1>10. JobFits(kind, b, nextId, stable)
  BY <1>2, <1>5, <1>6, <1>7, <1>8, <1>9 DEF JobFits, JobsInv, TableFits
<1>11. JobsFit'
  BY <1>1, <1>4, <1>10, OthersGoOn DEF JobsInv, TableFits
<1>12. TableFits'
  BY <1>1 DEF JobsInv, TableFits, Answers
<1>13. Kept'
  <2>1. ASSUME kind \in {"exam", "class"}, NEW x \in stable, NEW m, First(m, x), Spared(m) PROVE First(m, x)' /\ Spared(m)'
    <3>1. gone = Unmatched(rows, L)
      BY <1>3, <2>1
    <3>2. m.id \notin Ids(gone)
      BY <1>2, <2>1, <3>1, FirstMatched
    <3> QED
      BY <1>1, <1>4, <1>5, <2>1, <3>2 DEF First, Spared
  <2> QED
    BY <1>1, <2>1 DEF JobsInv, Kept
<1> QED
  BY <1>11, <1>12, <1>13 DEF JobsInv

-----------------------------------------------------------------------------
\* A run that ends carries nothing.
LEMMA FinishedFits ==
  ASSUME JobsInv, NEW j \in Runs, Finished(j), UNCHANGED <<kind, nextId>>, stable' \subseteq stable
  PROVE  JobsFit' /\ \A i \in Runs : job'[i].gone \in {{}, job[i].gone}
<1>1. job' = [job EXCEPT ![j] = [NoJob EXCEPT !.pc = "done"]] /\ DOMAIN job = Runs
  BY DEF Finished, JobsInv, JobsFit
<1>2. nextId \in Nat
  BY DEF JobsInv, TableFits
<1>3. JobFits(kind, [NoJob EXCEPT !.pc = "done"], nextId, stable') /\ [NoJob EXCEPT !.pc = "done"].gone = {}
  BY <1>2, IdleFits
<1>4. job'[j] = [NoJob EXCEPT !.pc = "done"] /\ \A i \in Runs \ {j} : job'[i] = job[i]
  BY <1>1
<1>5. JobsFit'
  BY <1>1, <1>2, <1>3, <1>4, OthersGoOn DEF JobsInv
<1> QED
  BY <1>3, <1>4, <1>5

\* A run that only changes where it is and what is left for it to do.
LEMMA MovedFits ==
  ASSUME JobsInv, NEW j \in Runs, kind' = kind,
         nextId' \in Nat, nextId <= nextId', stable' \subseteq stable,
         DOMAIN job' = Runs, \A i \in Runs \ {j} : job'[i] = job[i],
         DOMAIN job'[j] = DOMAIN NoJob, job'[j].want = job[j].want, job'[j].gone = job[j].gone,
         job'[j].todo \subseteq job[j].todo, job'[j].left \subseteq job[j].left,
         job[j].pc \notin {"idle", "done"},
         \/ job'[j].pc = job[j].pc
         \/ job[j].pc \in {"next", "remove", "add"} /\ job'[j].pc \in {"next", "remove", "add"}
         \/ job[j].pc = "clear" /\ job'[j].pc = "fill"
  PROVE  JobsFit' /\ \A i \in Runs : job'[i].gone = job[i].gone
<1>1. JobFits(kind, job[j], nextId, stable) /\ DOMAIN job = Runs /\ nextId \in Nat
  BY DEF JobsInv, JobsFit, TableFits
<1>2. JobFits(kind, job[j], nextId', stable')
  BY <1>1, JobGoesOn
<1>3. JobFits(kind, job'[j], nextId', stable')
  BY <1>2 DEF JobFits, Places
<1>4. JobsFit'
  BY <1>3, OthersGoOn DEF JobsInv
<1> QED
  BY <1>4

LEMMA NextLectureFits ==
  ASSUME JobsInv, NEW j \in Runs, NextLecture(j)
  PROVE  JobsInv'
<1>1. /\ kind' = kind /\ listed' = listed /\ rows' = rows /\ nextId' = nextId /\ flight' = flight /\ stable' = stable
      /\ job[j].pc = "next" /\ nextId \in Nat
  BY DEF NextLecture, Same, table, JobsInv, TableFits
<1>2. CASE Finished(j)
  BY <1>1, <1>2, FinishedFits, TableStays
<1>3. ASSUME NEW o \in job[j].left, job' = [job EXCEPT ![j].left = @ \ {o}, ![j].at = o, ![j].pc = "remove"]
      PROVE  JobsInv'
  <2> DEFINE a == job[j]
             b == [a EXCEPT !.left = @ \ {o}, !.at = o, !.pc = "remove"]
  <2>1. job' = [job EXCEPT ![j] = b]
    BY <1>3, Zenon
  <2>2. DOMAIN a = DOMAIN NoJob /\ DOMAIN job = Runs
    BY DEF JobsInv, JobsFit, JobFits
  <2>3. /\ DOMAIN b = DOMAIN NoJob /\ b.want = a.want /\ b.gone = a.gone /\ b.todo = a.todo
        /\ b.pc = "remove" /\ b.left \subseteq a.left
    <3> HIDE DEF a
    <3> QED
      BY <2>2 DEF NoJob
  <2> HIDE DEF b
  <2>4. job'[j] = b /\ DOMAIN job' = Runs /\ \A i \in Runs \ {j} : job'[i] = job[i]
    BY <2>1, <2>2
  <2>5. JobsFit' /\ \A i \in Runs : job'[i].gone = job[i].gone
    BY <1>1, <2>3, <2>4, MovedFits
  <2> QED
    BY <1>1, <2>5, TableStays
<1> QED
  BY <1>2, <1>3 DEF NextLecture

LEMMA StartRemovalsFits ==
  ASSUME JobsInv, NEW j \in Runs, StartRemovals(j)
  PROVE  JobsInv'
<1>1. /\ kind' = kind /\ listed' = listed /\ rows' = rows /\ nextId' = nextId /\ stable' = stable
      /\ job[j].pc = "chunks" /\ Finished(j) /\ flight' = flight \cup RowPairs(job[j].gone)
  BY DEF StartRemovals, Same, table
<1>2. JobFits(kind, job[j], nextId, stable)
  BY DEF JobsInv, JobsFit
<1>3. kind = "major" /\ RowPairs(job[j].gone) \subseteq Owners \X Keys /\ stable \cap RowPairs(job[j].gone) = {}
  BY <1>1, <1>2 DEF JobFits, RowFits, RowPairs, Pair
<1>4. JobsFit'
  BY <1>1, FinishedFits
<1>5. TableFits'
  BY <1>1, <1>3 DEF JobsInv, TableFits, Answers
<1>6. Kept'
  BY <1>1, <1>3 DEF JobsInv, Kept
<1> QED
  BY <1>4, <1>5, <1>6 DEF JobsInv

LEMMA LoseDeletionFits ==
  ASSUME JobsInv, LoseDeletion
  PROVE  JobsInv'
<1>1. /\ kind' = kind /\ listed' = listed /\ rows' = rows /\ nextId' = nextId /\ stable' = stable /\ job' = job
      /\ flight' \subseteq flight
  BY DEF LoseDeletion, table
<1>2. JobsFit'
  BY <1>1 DEF JobsInv, JobsFit
<1> QED
  BY <1>1, <1>2, TableStays

LEMMA CrashFits ==
  ASSUME JobsInv, Crash
  PROVE  JobsInv'
<1>1. /\ kind' = kind /\ listed' = listed /\ rows' = rows /\ nextId' = nextId /\ stable' = stable
      /\ flight' \subseteq flight /\ nextId \in Nat
  BY DEF Crash, table, JobsInv, TableFits
<1>2. job' = [j \in Runs |-> IF Busy(j) THEN [NoJob EXCEPT !.pc = "done"] ELSE job[j]]
  BY DEF Crash
<1>3. JobFits(kind, [NoJob EXCEPT !.pc = "done"], nextId, stable) /\ [NoJob EXCEPT !.pc = "done"].gone = {}
  BY <1>1, IdleFits
<1>4. DOMAIN job' = Runs /\ \A i \in Runs : job'[i] \in {[NoJob EXCEPT !.pc = "done"], job[i]}
  BY <1>2
<1>5. \A i \in Runs : JobFits(kind, job'[i], nextId, stable) /\ job'[i].gone \in {{}, job[i].gone}
  BY <1>3, <1>4 DEF JobsInv, JobsFit
<1>6. JobsFit'
  BY <1>1, <1>4, <1>5 DEF JobsFit
<1> QED
  BY <1>1, <1>5, <1>6, TableStays

LEMMA FailFits ==
  ASSUME JobsInv, NEW j \in Runs, Fail(j)
  PROVE  JobsInv'
<1> DEFINE a == job[j]
<1>1. /\ kind' = kind /\ listed' = listed /\ rows' = rows /\ nextId' = nextId /\ flight' = flight /\ stable' = stable
      /\ nextId \in Nat
  BY DEF Fail, table, JobsInv, TableFits
<1>2. DOMAIN a = DOMAIN NoJob /\ DOMAIN job = Runs
  BY DEF JobsInv, JobsFit, JobFits
<1>3. ASSUME NEW b, job' = [job EXCEPT ![j] = b], DOMAIN b = DOMAIN NoJob, b.want = a.want, b.gone = a.gone,
             b.todo \subseteq a.todo, a.pc \notin {"idle", "done"}, b.left \subseteq a.left,
             b.pc = a.pc \/ (a.pc \in {"remove", "add"} /\ b.pc = "next")
      PROVE  JobsInv'
  <2>1. job'[j] = b /\ DOMAIN job' = Runs /\ \A i \in Runs \ {j} : job'[i] = job[i]
    BY <1>2, <1>3
  <2>2. JobsFit' /\ \A i \in Runs : job'[i].gone = job[i].gone
    BY <1>1, <1>3, <2>1, MovedFits
  <2> QED
    BY <1>1, <2>2, TableStays
<1>4. ASSUME a.pc \in {"remove", "add"}, job' = [job EXCEPT ![j].sound = FALSE, ![j].pc = "next"]
      PROVE  JobsInv'
  <2> DEFINE b == [a EXCEPT !.sound = FALSE, !.pc = "next"]
  <2>1. job' = [job EXCEPT ![j] = b]
    BY <1>4, Zenon
  <2>2. /\ DOMAIN b = DOMAIN NoJob /\ b.want = a.want /\ b.gone = a.gone /\ b.todo = a.todo
        /\ b.pc = "next" /\ b.left = a.left
    <3> HIDE DEF a
    <3> QED
      BY <1>2 DEF NoJob
  <2> HIDE DEF a, b
  <2> QED
    BY <1>3, <1>4, <2>1, <2>2
<1>5. ASSUME Finished(j) PROVE JobsInv'
  BY <1>1, <1>5, FinishedFits, TableStays
<1>6. ASSUME a.pc = "update", NEW o \in a.left, job' = [job EXCEPT ![j].sound = FALSE, ![j].left = @ \ {o}]
      PROVE  JobsInv'
  <2> DEFINE b == [a EXCEPT !.sound = FALSE, !.left = @ \ {o}]
  <2>1. job' = [job EXCEPT ![j] = b]
    BY <1>6, Zenon
  <2>2. /\ DOMAIN b = DOMAIN NoJob /\ b.want = a.want /\ b.gone = a.gone /\ b.todo = a.todo
        /\ b.pc = a.pc /\ b.left \subseteq a.left
    <3> HIDE DEF a
    <3> QED
      BY <1>2 DEF NoJob
  <2>3. b.todo \subseteq a.todo /\ a.pc \notin {"idle", "done"}
    BY <1>6, <2>2
  <2> HIDE DEF a, b
  <2> QED
    BY <1>3, <2>1, <2>2, <2>3
<1>7. ASSUME a.pc = "chunks", job' = [job EXCEPT ![j].sound = FALSE, ![j].todo = @ \ Chunk(j)]
      PROVE  JobsInv'
  <2> DEFINE C == Chunk(j)
             b == [a EXCEPT !.sound = FALSE, !.todo = @ \ C]
  <2>1. job' = [job EXCEPT ![j] = b]
    BY <1>7, Zenon
  <2> HIDE DEF C
  <2>2. /\ DOMAIN b = DOMAIN NoJob /\ b.want = a.want /\ b.gone = a.gone /\ b.todo \subseteq a.todo
        /\ b.pc = a.pc /\ b.left = a.left
    <3> HIDE DEF a
    <3> QED
      BY <1>2 DEF NoJob
  <2>3. b.left \subseteq a.left /\ a.pc \notin {"idle", "done"}
    BY <1>7, <2>2
  <2> HIDE DEF a, b
  <2> QED
    BY <1>3, <2>1, <2>2, <2>3
<1> QED
  BY <1>4, <1>5, <1>6, <1>7 DEF Fail

-----------------------------------------------------------------------------
\* How many positions come before one is less than how many there are, and no
\* two positions have as many before them.
LEMMA RankLess ==
  ASSUME NEW n \in Nat, NEW P \in SUBSET (1..n), NEW p \in P
  PROVE  /\ IsFiniteSet(P) /\ Cardinality(P) \in Nat
         /\ Cardinality({q \in P : q < p}) \in Nat /\ Cardinality({q \in P : q < p}) < Cardinality(P)
         /\ Cardinality({q \in P : q <= p}) = Cardinality({q \in P : q < p}) + 1
         /\ \A l \in P : l < p => Cardinality({q \in P : q < l}) < Cardinality({q \in P : q < p})
<1>1. IsFiniteSet(P) /\ Cardinality(P) \in Nat
  <2>1. IsFiniteSet(1..n)
    BY FS_Interval
  <2> QED
    BY <2>1, FS_Subset, FS_CardinalityType
<1>2. \A l \in P : IsFiniteSet({q \in P : q < l}) /\ Cardinality({q \in P : q < l}) \in Nat
  <2> SUFFICES ASSUME NEW l \in P PROVE IsFiniteSet({q \in P : q < l}) /\ Cardinality({q \in P : q < l}) \in Nat
    OBVIOUS
  <2>1. IsFiniteSet({q \in P : q < l})
    BY <1>1, FS_Subset
  <2> QED
    BY <2>1, FS_CardinalityType
<1>3. \A q \in P : q \in Int
  OBVIOUS
<1> DEFINE D(l) == {q \in P : q < l}
<1>4. ASSUME NEW l \in P
      PROVE  /\ Cardinality(D(l) \cup {l}) = Cardinality(D(l)) + 1 /\ IsFiniteSet(D(l) \cup {l})
             /\ Cardinality(D(l)) \in Nat /\ IsFiniteSet(D(l))
  <2>1. l \notin D(l)
    BY <1>3
  <2>2. IsFiniteSet(D(l)) /\ Cardinality(D(l)) \in Nat
    BY <1>2
  <2> HIDE DEF D
  <2> QED
    BY <2>1, <2>2, FS_AddElement
<1>5. {q \in P : q <= p} = D(p) \cup {p}
  <2>1. \A q \in P : q <= p <=> q < p \/ q = p
    BY <1>3
  <2> QED
    BY <2>1
<1>6. D(p) \cup {p} \in SUBSET P
  OBVIOUS
<1>7. ASSUME NEW l \in P, l < p PROVE D(l) \cup {l} \in SUBSET D(p)
  <2>1. \A q \in P : q < l => q < p
    BY <1>3, <1>7
  <2> QED
    BY <1>7, <2>1
<1> HIDE DEF D
<1>8. Cardinality(D(p) \cup {p}) <= Cardinality(P)
  BY <1>1, <1>6, FS_Subset
<1>9. ASSUME NEW l \in P, l < p PROVE Cardinality(D(l)) < Cardinality(D(p))
  <2>1. Cardinality(D(l) \cup {l}) <= Cardinality(D(p))
    <3>1. D(l) \cup {l} \in SUBSET D(p) /\ IsFiniteSet(D(p))
      BY <1>4, <1>7, <1>9
    <3> QED
      BY <3>1, FS_Subset
  <2>2. Cardinality(D(l) \cup {l}) = Cardinality(D(l)) + 1 /\ Cardinality(D(l)) \in Nat /\ Cardinality(D(p)) \in Nat
    BY <1>4
  <2> QED
    BY <2>1, <2>2
<1>10. /\ Cardinality(D(p)) \in Nat /\ Cardinality(D(p)) < Cardinality(P)
       /\ Cardinality(D(p) \cup {p}) = Cardinality(D(p)) + 1
  BY <1>1, <1>4, <1>8
<1> QED
  BY <1>1, <1>5, <1>9, <1>10 DEF D

\* The rows createMany makes of entries that are to do.
LEMMA InsertedFits ==
  ASSUME JobsInv, NEW j \in Runs, NEW P \in SUBSET job[j].todo
  PROVE  /\ IsFiniteSet(P) /\ Cardinality(P) \in Nat /\ nextId + Cardinality(P) \in Nat \ {0}
         /\ \A r \in Inserted(j, P) : /\ RowFits(r, nextId + Cardinality(P)) /\ r.id >= nextId
                                      /\ \E p \in P : Pair(r) = Pair(job[j].want[p])
         /\ \A r, s \in Inserted(j, P) : r.id = s.id => r = s
         /\ \A r, s \in Inserted(j, P) : (\A p, q \in P : p # q => Pair(job[j].want[p]) # Pair(job[j].want[q]))
                                         /\ Pair(r) = Pair(s) => r = s
<1> DEFINE L == job[j].want
           rank(p) == Cardinality({q \in P : q < p})
           D(p) == Row(nextId + rank(p), L[p])
<1>1. L \in Lists /\ job[j].todo \subseteq DOMAIN L /\ nextId \in Nat \ {0}
  BY DEF JobsInv, JobsFit, JobFits, TableFits
<1>2. Len(L) \in Nat /\ P \in SUBSET (1..Len(L)) /\ \A p \in P : L[p] \in Items
  BY <1>1, ListsAre
<1>3. IsFiniteSet(P) /\ Cardinality(P) \in Nat
  <2>1. IsFiniteSet(1..Len(L))
    BY <1>2, FS_Interval
  <2> QED
    BY <1>2, <2>1, FS_Subset, FS_CardinalityType
<1>4. ASSUME NEW p \in P
      PROVE  rank(p) \in Nat /\ rank(p) < Cardinality(P) /\ \A l \in P : l < p => rank(l) < rank(p)
  BY <1>2, RankLess
<1>5. Inserted(j, P) = {D(p) : p \in P}
  BY DEF Inserted
<1> HIDE DEF rank
<1>6. ASSUME NEW p \in P
      PROVE  D(p).id = nextId + rank(p) /\ RowFits(D(p), nextId + Cardinality(P)) /\ D(p).id >= nextId
             /\ Pair(D(p)) = Pair(L[p])
  BY <1>1, <1>2, <1>3, <1>4 DEF Row, RowFits, Items, Pair
<1>7. \A p, q \in P : rank(p) = rank(q) => p = q
  <2>1. \A p, q \in P : p < q \/ q < p \/ p = q
    BY <1>2
  <2> QED
    BY <1>4, <2>1
<1> HIDE DEF D, L
<1>8. \A p, q \in P : D(p).id = D(q).id => p = q
  BY <1>1, <1>4, <1>6, <1>7
<1>9. \A r \in Inserted(j, P) : \E p \in P : r = D(p)
  BY <1>5
<1>10. \A r \in Inserted(j, P) : /\ RowFits(r, nextId + Cardinality(P)) /\ r.id >= nextId
                                 /\ \E p \in P : Pair(r) = Pair(L[p])
  BY <1>6, <1>9
<1>11. \A r, s \in Inserted(j, P) : r.id = s.id => r = s
  BY <1>8, <1>9
<1>12. ASSUME \A p, q \in P : p # q => Pair(L[p]) # Pair(L[q])
       PROVE  \A r, s \in Inserted(j, P) : Pair(r) = Pair(s) => r = s
  BY <1>6, <1>9, <1>12
<1>13. nextId + Cardinality(P) \in Nat \ {0}
  BY <1>1, <1>3
<1> QED
  BY <1>3, <1>10, <1>11, <1>12, <1>13 DEF L

\* A write of times takes away rows that are not spared, and gives new ids.
LEMMA TimesWritten ==
  ASSUME JobsInv, kind \in {"exam", "class"}, kind' = kind, listed' = listed, flight' = flight, stable' = stable,
         JobsFit', \A i \in Runs : job'[i].gone = job[i].gone, nextId' \in Nat \ {0}, nextId <= nextId',
         \A r \in rows' : r \in rows \/ (RowFits(r, nextId') /\ r.id >= nextId),
         \A r, s \in rows' \ rows : r.id = s.id => r = s,
         \A m \in rows : Spared(m) => m \in rows'
  PROVE  JobsInv'
<1>1. \A r \in rows : RowFits(r, nextId) /\ RowFits(r, nextId')
  BY DEF JobsInv, TableFits, RowFits
<1>2. TableFits'
  <2>1. \A r, s \in rows' : r.id = s.id => r = s
    BY <1>1 DEF JobsInv, TableFits, RowFits
  <2>2. \A r \in rows' : RowFits(r, nextId')
    BY <1>1
  <2>3. Answers' = Answers
    BY DEF Answers
  <2> QED
    BY <2>1, <2>2, <2>3 DEF JobsInv, TableFits
<1>3. Kept'
  <2>1. ASSUME NEW m, NEW x, First(m, x), Spared(m) PROVE First(m, x)' /\ Spared(m)'
    <3>1. m \in rows' /\ m \in rows /\ Pair(m) = x
      BY <2>1 DEF First
    <3>2. ASSUME NEW s \in rows', Pair(s) = x PROVE m.id <= s.id
      <4>1. m.id \in Nat /\ m.id < nextId
        BY <1>1, <3>1 DEF RowFits
      <4>2. CASE s \in rows
        BY <2>1, <3>2, <4>2 DEF First
      <4>3. CASE RowFits(s, nextId') /\ s.id >= nextId
        BY <4>1, <4>3 DEF RowFits, JobsInv, TableFits
      <4> QED
        BY <3>2, <4>2, <4>3
    <3> QED
      BY <2>1, <3>1, <3>2 DEF First, Spared
  <2> QED
    BY <2>1 DEF JobsInv, Kept
<1> QED
  BY <1>2, <1>3 DEF JobsInv

\* A run that goes on to another statement.
LEMMA StepFits ==
  ASSUME JobsInv, NEW j \in Runs, NEW pc, job' = [job EXCEPT ![j].pc = pc], kind' = kind, stable' = stable,
         nextId' \in Nat, nextId <= nextId', job[j].pc \notin {"idle", "done"},
         \/ job[j].pc \in {"remove", "add"} /\ pc \in {"add", "next"}
         \/ job[j].pc = "clear" /\ pc = "fill"
  PROVE  JobsFit' /\ \A i \in Runs : job'[i].gone = job[i].gone
<1> DEFINE a == job[j]
           b == [a EXCEPT !.pc = pc]
<1>1. DOMAIN a = DOMAIN NoJob /\ DOMAIN job = Runs
  BY DEF JobsInv, JobsFit, JobFits
<1>2. job' = [job EXCEPT ![j] = b]
  OBVIOUS
<1>3. /\ DOMAIN b = DOMAIN NoJob /\ b.want = a.want /\ b.gone = a.gone /\ b.todo = a.todo
      /\ b.pc = pc /\ b.left = a.left
  <2> HIDE DEF a
  <2> QED
    BY <1>1 DEF NoJob
<1> HIDE DEF b
<1>4. job'[j] = b /\ DOMAIN job' = Runs /\ \A i \in Runs \ {j} : job'[i] = job[i]
  BY <1>1, <1>2
<1> QED
  BY <1>3, <1>4, MovedFits

LEMMA RemoveTimesFits ==
  ASSUME JobsInv, NEW j \in Runs, RemoveTimes(j)
  PROVE  JobsInv'
<1>1. /\ kind' = kind /\ listed' = listed /\ nextId' = nextId /\ flight' = flight /\ stable' = stable
      /\ job[j].pc = "remove" /\ kind = "class" /\ nextId \in Nat \ {0}
      /\ rows' = {r \in rows : r.id \notin Ids(Gone(j))} /\ job' = [job EXCEPT ![j].pc = "add"]
  BY DEF RemoveTimes, Same, JobsInv, TableFits
<1>2. nextId' \in Nat \ {0} /\ nextId <= nextId'
  BY <1>1
<1>3. JobsFit' /\ \A i \in Runs : job'[i].gone = job[i].gone
  <2>1. job[j].pc \notin {"idle", "done"} /\ job[j].pc \in {"remove", "add"}
    BY <1>1
  <2> QED
    BY <1>1, <1>2, <2>1, StepFits
<1>4. \A m \in rows : Spared(m) => m \in rows'
  BY <1>1 DEF Spared, Ids, Gone
<1> QED
  BY <1>1, <1>2, <1>3, <1>4, TimesWritten

LEMMA AddTimesFits ==
  ASSUME JobsInv, NEW j \in Runs, AddTimes(j)
  PROVE  JobsInv'
<1> DEFINE N == Inserted(j, New(j))
<1>1. /\ kind' = kind /\ listed' = listed /\ flight' = flight /\ stable' = stable
      /\ job[j].pc = "add" /\ nextId \in Nat \ {0} /\ nextId' = nextId + Cardinality(New(j))
      /\ rows' = rows \cup N /\ job' = [job EXCEPT ![j].pc = "next"]
  BY DEF AddTimes, Same, JobsInv, TableFits
<1>2. kind \in {"exam", "class"} /\ New(j) \in SUBSET job[j].todo
  BY <1>1 DEF JobsInv, JobsFit, JobFits, New
<1>3. /\ nextId' \in Nat \ {0} /\ Cardinality(New(j)) \in Nat
      /\ \A r \in N : RowFits(r, nextId') /\ r.id >= nextId
      /\ \A r, s \in N : r.id = s.id => r = s
  BY <1>1, <1>2, InsertedFits
<1> HIDE DEF N
<1>4. nextId <= nextId'
  BY <1>1, <1>3
<1>5. JobsFit' /\ \A i \in Runs : job'[i].gone = job[i].gone
  BY <1>1, <1>3, <1>4, StepFits
<1>6. /\ \A r \in rows' : r \in rows \/ (RowFits(r, nextId') /\ r.id >= nextId)
      /\ \A r, s \in rows' \ rows : r.id = s.id => r = s
      /\ \A m \in rows : m \in rows'
  BY <1>1, <1>3
<1> QED
  BY <1>1, <1>2, <1>3, <1>4, <1>5, <1>6, TimesWritten

LEMMA ReplaceTimesFits ==
  ASSUME JobsInv, NEW j \in Runs, ReplaceTimes(j)
  PROVE  JobsInv'
<1> DEFINE N == Inserted(j, New(j))
<1>1. /\ kind' = kind /\ listed' = listed /\ flight' = flight /\ stable' = stable
      /\ job[j].pc = "remove" /\ kind = "exam" /\ nextId \in Nat \ {0} /\ nextId' = nextId + Cardinality(New(j))
      /\ rows' = {r \in rows : r.id \notin Ids(Gone(j))} \cup N /\ job' = [job EXCEPT ![j].pc = "next"]
  BY DEF ReplaceTimes, Same, JobsInv, TableFits
<1>2. New(j) \in SUBSET job[j].todo
  BY <1>1 DEF New
<1>3. /\ nextId' \in Nat \ {0} /\ Cardinality(New(j)) \in Nat
      /\ \A r \in N : RowFits(r, nextId') /\ r.id >= nextId
      /\ \A r, s \in N : r.id = s.id => r = s
  BY <1>1, <1>2, InsertedFits
<1> HIDE DEF N
<1>4. nextId <= nextId'
  BY <1>1, <1>3
<1>5. JobsFit' /\ \A i \in Runs : job'[i].gone = job[i].gone
  BY <1>1, <1>3, <1>4, StepFits
<1>6. /\ \A r \in rows' : r \in rows \/ (RowFits(r, nextId') /\ r.id >= nextId)
      /\ \A r, s \in rows' \ rows : r.id = s.id => r = s
  BY <1>1, <1>3
<1>7. \A m \in rows : Spared(m) => m \in rows'
  BY <1>1 DEF Spared, Ids, Gone
<1> QED
  BY <1>1, <1>3, <1>4, <1>5, <1>6, <1>7, TimesWritten
-----------------------------------------------------------------------------
\* createMany of majors: the unique index refuses what would be there twice.
LEMMA AddMajorsFits ==
  ASSUME JobsInv, NEW j \in Runs, AddMajors(j)
  PROVE  JobsInv'
<1> DEFINE a == job[j]
           C == Chunk(j)
           N == Inserted(j, C)
           b == [a EXCEPT !.todo = @ \ C, !.sound = @ /\ ~Refused(j)]
<1>1. /\ kind' = kind /\ listed' = listed /\ flight' = flight /\ stable' = stable
      /\ a.pc = "chunks" /\ nextId \in Nat \ {0}
  BY DEF AddMajors, Same, JobsInv, TableFits
<1>2. job' = [job EXCEPT ![j] = b]
  BY Zenon DEF AddMajors
<1>3. DOMAIN a = DOMAIN NoJob /\ DOMAIN job = Runs /\ kind = "major" /\ C \in SUBSET a.todo
  BY <1>1 DEF JobsInv, JobsFit, JobFits, Chunk
<1>4. /\ DOMAIN b = DOMAIN NoJob /\ b.want = a.want /\ b.gone = a.gone /\ b.todo \subseteq a.todo
      /\ b.pc = a.pc /\ b.left = a.left
  <2> HIDE DEF a, C
  <2> QED
    BY <1>3 DEF NoJob
<1> HIDE DEF b
<1>5. job'[j] = b /\ DOMAIN job' = Runs /\ \A i \in Runs \ {j} : job'[i] = job[i]
  BY <1>2, <1>3
<1>6. ASSUME nextId' \in Nat, nextId <= nextId'
      PROVE  JobsFit' /\ \A i \in Runs : job'[i].gone = job[i].gone
  <2>1. a.pc \notin {"idle", "done"} /\ stable' \subseteq stable /\ b.left \subseteq a.left
    BY <1>1, <1>4
  <2> QED
    BY <1>1, <1>4, <1>5, <1>6, <2>1, MovedFits
<1>7. CASE Refused(j)
  <2>1. rows' = rows /\ nextId' = nextId
    BY <1>7 DEF AddMajors, table
  <2>2. JobsFit' /\ \A i \in Runs : job'[i].gone = job[i].gone
    BY <1>1, <1>6, <2>1
  <2> QED
    BY <1>1, <2>1, <2>2, TableStays
<1>8. ASSUME ~Refused(j) PROVE JobsInv'
  <2>1. rows' = rows \cup N /\ nextId' = nextId + Cardinality(C)
    BY <1>8 DEF AddMajors
  <2>2. /\ \A p \in C : Pair(job[j].want[p]) \notin RowPairs(rows)
        /\ \A p, q \in C : p # q => Pair(job[j].want[p]) # Pair(job[j].want[q])
    BY <1>8 DEF Refused
  <2>3. /\ nextId' \in Nat \ {0} /\ Cardinality(C) \in Nat
        /\ \A r \in N : RowFits(r, nextId') /\ \E p \in C : Pair(r) = Pair(job[j].want[p])
        /\ \A r, s \in N : Pair(r) = Pair(s) => r = s
    BY <1>3, <2>1, <2>2, InsertedFits
  <2> HIDE DEF a, C, N
  <2>4. nextId <= nextId' /\ nextId' \in Nat
    BY <1>1, <2>1, <2>3
  <2>5. \A r \in rows, s \in N : Pair(r) # Pair(s)
    BY <2>2, <2>3 DEF RowPairs
  <2>6. \A r \in rows : RowFits(r, nextId')
    BY <1>1, <2>4 DEF JobsInv, TableFits, RowFits
  <2>7. \A r, s \in rows' : Pair(r) = Pair(s) => r = s
    BY <1>3, <2>1, <2>3, <2>5 DEF JobsInv, TableFits
  <2>8. TableFits'
    BY <1>1, <1>3, <2>1, <2>3, <2>6, <2>7 DEF JobsInv, TableFits, Answers
  <2>9. Kept'
    BY <1>1, <1>3, <2>1 DEF JobsInv, Kept, RowPairs
  <2> QED
    BY <1>6, <2>4, <2>8, <2>9 DEF JobsInv
<1> QED
  BY <1>7, <1>8

LEMMA DeleteMajorFits ==
  ASSUME JobsInv, NEW x, DeleteMajor(x)
  PROVE  JobsInv'
<1>1. /\ kind' = kind /\ listed' = listed /\ nextId' = nextId /\ job' = job /\ stable' = stable
      /\ x \in flight /\ flight' = flight \ {x} /\ rows' = {r \in rows : Pair(r) # x}
  BY DEF DeleteMajor, Same
<1>2. kind = "major" /\ x \notin stable
  BY <1>1 DEF JobsInv, TableFits, Kept
<1>3. JobsFit'
  BY <1>1 DEF JobsInv, JobsFit
<1>4. TableFits'
  BY <1>1, <1>2 DEF JobsInv, TableFits, Answers
<1>5. Kept'
  BY <1>1, <1>2 DEF JobsInv, Kept, RowPairs
<1> QED
  BY <1>3, <1>4, <1>5 DEF JobsInv

\* An update of a department keeps one row for each student.
LEMMA UpdateUserDepartmentFits ==
  ASSUME JobsInv, NEW j \in Runs, UpdateUserDepartment(j)
  PROVE  JobsInv'
<1> DEFINE a == job[j]
<1>1. /\ kind' = kind /\ listed' = listed /\ nextId' = nextId /\ flight' = flight /\ stable' = stable
      /\ a.pc = "update" /\ nextId \in Nat
  BY DEF UpdateUserDepartment, Same, JobsInv, TableFits
<1>2. JobFits(kind, a, nextId, stable) /\ DOMAIN job = Runs
  BY DEF JobsInv, JobsFit
<1>3. kind = "degree" /\ a.want \in Lists /\ \A o \in a.left : o \in Users /\ Entries(a.want, o) # {}
  BY <1>1, <1>2 DEF JobFits
<1>4. ASSUME Finished(j), rows' = rows PROVE JobsInv'
  BY <1>1, <1>4, FinishedFits, TableStays
<1>5. ASSUME NEW o \in a.left,
             rows' = {IF r.owner = o THEN [r EXCEPT !.key = Degree(a.want, o)] ELSE r : r \in rows},
             job' = [job EXCEPT ![j].left = @ \ {o}]
      PROVE  JobsInv'
  <2> DEFINE b == [a EXCEPT !.left = @ \ {o}]
             d == Degree(a.want, o)
             U(r) == IF r.owner = o THEN [r EXCEPT !.key = d] ELSE r
  <2>1. job' = [job EXCEPT ![j] = b]
    BY <1>5, Zenon
  <2>2. /\ DOMAIN b = DOMAIN NoJob /\ b.want = a.want /\ b.gone = a.gone /\ b.todo = a.todo
        /\ b.pc = a.pc /\ b.left \subseteq a.left
    <3>1. DOMAIN a = DOMAIN NoJob
      BY <1>2 DEF JobFits
    <3> HIDE DEF a
    <3> QED
      BY <3>1 DEF NoJob
  <2> HIDE DEF b
  <2>3. job'[j] = b /\ DOMAIN job' = Runs /\ \A i \in Runs \ {j} : job'[i] = job[i]
    BY <1>2, <2>1
  <2>4. JobsFit'
    <3>1. a.pc \notin {"idle", "done"} /\ stable' \subseteq stable /\ b.todo \subseteq a.todo
          /\ nextId' \in Nat /\ nextId <= nextId'
      BY <1>1, <2>2
    <3> QED
      BY <1>1, <2>2, <2>3, <3>1, MovedFits
  <2>5. d \in Keys
    <3> DEFINE L == a.want
               E == Entries(L, o)
    <3>1. Len(L) \in Nat /\ DOMAIN L = 1..Len(L) /\ \A p \in DOMAIN L : L[p] \in Items
      BY <1>3, ListsAre
    <3>2. E \in SUBSET (1..Len(L)) /\ E # {}
      BY <1>3, <1>5, <3>1 DEF Entries
    <3> HIDE DEF E, L
    <3>3. Max(E) \in E
      BY <3>1, <3>2, GreatestOfSome
    <3>4. L[Max(E)] \in Items
      BY <3>1, <3>2, <3>3
    <3>5. L[Max(E)].key \in Keys
      BY <3>4 DEF Items
    <3> QED
      BY <3>5 DEF Degree, E, L
  <2>6. rows' = {U(r) : r \in rows}
    BY <1>5
  <2> HIDE DEF d
  <2>7. ASSUME NEW r \in rows PROVE RowFits(U(r), nextId) /\ U(r).owner = r.owner
    <3>1. RowFits(r, nextId)
      BY DEF JobsInv, TableFits
    <3> QED
      BY <2>5, <3>1 DEF RowFits
  <2> HIDE DEF U
  <2>8. /\ \A r \in rows : r.owner \in Users
        /\ \A u \in Users : \E r \in rows : r.owner = u
        /\ \A r, s \in rows : r.owner = s.owner => r = s
    BY <1>3 DEF JobsInv, TableFits
  <2>9. /\ \A r \in rows' : RowFits(r, nextId) /\ r.owner \in Users
        /\ \A u \in Users : \E r \in rows' : r.owner = u
        /\ \A r, s \in rows' : r.owner = s.owner => r = s
    BY <2>6, <2>7, <2>8
  <2>10. \A r, s \in rows' : Pair(r) = Pair(s) => r.owner = s.owner
    BY DEF Pair
  <2>11. TableFits'
    BY <1>1, <1>3, <2>9, <2>10 DEF JobsInv, TableFits, Answers
  <2>12. Kept'
    BY <1>1, <1>3 DEF JobsInv, Kept
  <2> QED
    BY <2>4, <2>11, <2>12 DEF JobsInv
<1> QED
  BY <1>4, <1>5 DEF UpdateUserDepartment

-----------------------------------------------------------------------------
\* The best of a list are entries of it.
LEMMA FirstOfFits ==
  ASSUME NEW L \in Seq(Items), NEW n \in Nat
  PROVE  FirstOf(L, n) \in Seq(Items)
<1>1. Len(L) \in Nat /\ {n, Len(L)} \in SUBSET Nat
  OBVIOUS
<1>2. Min({n, Len(L)}) \in Nat /\ Min({n, Len(L)}) <= Len(L)
  BY <1>1, LeastOfNats
<1> DEFINE m == Min({n, Len(L)})
<1>3. m \in Nat /\ m <= Len(L)
  BY <1>1, <1>2
<1>4. FirstOf(L, n) = SubSeq(L, 1, m)
  BY DEF FirstOf
<1> HIDE DEF m
<1>5. m \in Int /\ \A i \in 1..m : L[i] \in Items
  <2>1. \A i \in 1..m : i \in 1..Len(L)
    BY <1>1, <1>3
  <2>2. \A i \in 1..Len(L) : L[i] \in Items
    OBVIOUS
  <2> QED
    BY <1>3, <2>1, <2>2
<1>6. SubSeq(L, 1, m) \in Seq(Items)
  BY <1>5, SubSeqProperties, SMTT(30)
<1> QED
  BY <1>4, <1>6

LEMMA LatestFits ==
  ASSUME NEW L \in Seq(Items)
  PROVE  Latest(L) \in Seq(Items)
<1> DEFINE P == {p \in DOMAIN L : L[p].tag = 1}
           N == Cardinality(P)
           f == [p \in P |-> Cardinality({q \in P : q <= p})]
<1>1. Len(L) \in Nat /\ P \in SUBSET (1..Len(L))
  OBVIOUS
<1> HIDE DEF P
<1>2. ASSUME NEW p \in P
      PROVE  /\ IsFiniteSet(P) /\ N \in Nat /\ f[p] \in 1..N
             /\ \A l \in P : l < p => f[l] # f[p]
  <2>1. /\ Cardinality({q \in P : q < p}) \in Nat /\ Cardinality({q \in P : q < p}) < N
        /\ f[p] = Cardinality({q \in P : q < p}) + 1
        /\ IsFiniteSet(P) /\ N \in Nat
    BY <1>1, RankLess
  <2>2. ASSUME NEW l \in P, l < p PROVE f[l] # f[p]
    <3>1. /\ Cardinality({q \in P : q < l}) \in Nat
          /\ f[l] = Cardinality({q \in P : q < l}) + 1
          /\ Cardinality({q \in P : q < l}) < Cardinality({q \in P : q < p})
      BY <1>1, <2>2, RankLess
    <3> HIDE DEF f
    <3> QED
      BY <2>1, <3>1
  <2> HIDE DEF f, N
  <2> QED
    BY <2>1, <2>2
<1>3. IsFiniteSet(P) /\ N \in Nat
  <2>1. IsFiniteSet(1..Len(L))
    BY <1>1, FS_Interval
  <2> QED
    BY <1>1, <2>1, FS_Subset, FS_CardinalityType
<1>4. f \in [P -> 1..N]
  BY <1>2
<1>5. DOMAIN f = P
  OBVIOUS
<1> HIDE DEF f, N
<1>6. \A p, q \in P : f[p] = f[q] => p = q
  <2>1. \A p, q \in P : p < q \/ q < p \/ p = q
    BY <1>1
  <2> QED
    BY <1>2, <2>1
<1>7. f \in Injection(P, 1..N)
  BY <1>4, <1>5, <1>6 DEF Injection, IsInjective
<1>8. f \in Surjection(P, 1..N)
  <2>1. IsFiniteSet(1..N) /\ Cardinality(1..N) = N
    BY <1>3, FS_Interval
  <2> QED
    BY <1>7, <2>1, FS_Injection DEF N
<1>9. \A n \in 1..N : \E p \in P : f[p] = n
  BY <1>8 DEF Surjection
<1>10. ASSUME NEW n \in 1..N
       PROVE  L[CHOOSE p \in P : Cardinality({q \in P : q <= p}) = n] \in Items
  <2>1. \E p \in P : Cardinality({q \in P : q <= p}) = n
    BY <1>9 DEF f
  <2>2. (CHOOSE p \in P : Cardinality({q \in P : q <= p}) = n) \in P
    BY <2>1
  <2>3. \A p \in P : L[p] \in Items
    BY <1>1
  <2> QED
    BY <2>2, <2>3, Zenon
<1> DEFINE e(n) == L[CHOOSE p \in P : Cardinality({q \in P : q <= p}) = n]
<1>11. Latest(L) = [n \in 1..N |-> e(n)]
  BY DEF Latest, N, P
<1>12. \A n \in 1..N : e(n) \in Items
  BY <1>10
<1> HIDE DEF e
<1>13. [n \in 1..N |-> e(n)] \in Seq(Items)
  BY <1>3, <1>12
<1> QED
  BY <1>11, <1>13

LEMMA BestFits ==
  ASSUME NEW L \in Lists
  PROVE  \A p \in DOMAIN Best(L) : Best(L)[p] \in Items
<1>1. L \in Seq(Items) /\ MinLiked \in Nat /\ MaxBest \in Nat
  BY ListsAre, ScholarJobsAssumption
<1>2. FirstOf(L, MinLiked) \in Seq(Items) /\ Latest(L) \in Seq(Items)
  BY <1>1, FirstOfFits, LatestFits
<1>3. FirstOf(L, MinLiked) \o Latest(L) \in Seq(Items)
  BY <1>2, ConcatProperties
<1>4. Best(L) \in Seq(Items)
  BY <1>1, <1>3, FirstOfFits DEF Best
<1> QED
  BY <1>4

LEMMA ClearBestFits ==
  ASSUME JobsInv, NEW j \in Runs, ClearBest(j)
  PROVE  JobsInv'
<1>1. /\ kind' = kind /\ listed' = listed /\ nextId' = nextId /\ flight' = flight /\ stable' = stable
      /\ job[j].pc = "clear" /\ nextId \in Nat /\ rows' = {} /\ job' = [job EXCEPT ![j].pc = "fill"]
  BY DEF ClearBest, Same, JobsInv, TableFits
<1>2. kind = "review"
  BY <1>1 DEF JobsInv, JobsFit, JobFits
<1>3. JobsFit'
  <2>1. job[j].pc \notin {"idle", "done"} /\ nextId' \in Nat /\ nextId <= nextId'
    BY <1>1
  <2> QED
    BY <1>1, <2>1, StepFits
<1>4. TableFits'
  BY <1>1, <1>2 DEF JobsInv, TableFits, Answers
<1>5. Kept'
  BY <1>1, <1>2 DEF JobsInv, Kept
<1> QED
  BY <1>3, <1>4, <1>5 DEF JobsInv

LEMMA AddBestFits ==
  ASSUME JobsInv, NEW j \in Runs, AddBest(j)
  PROVE  JobsInv'
<1> DEFINE best == Best(job[j].want)
           D(p) == Row(0, [best[p] EXCEPT !.tag = 1])
<1>1. /\ kind' = kind /\ listed' = listed /\ nextId' = nextId /\ flight' = flight /\ stable' = stable
      /\ job[j].pc = "fill" /\ nextId \in Nat \ {0} /\ Finished(j)
      /\ rows' = rows \/ (rows' = rows \cup {D(p) : p \in DOMAIN best} /\ Pairs(best) \cap RowPairs(rows) = {})
  BY DEF AddBest, Same, JobsInv, TableFits
<1>2. kind = "review" /\ job[j].want \in Lists
  BY <1>1 DEF JobsInv, JobsFit, JobFits
<1>3. JobsFit' /\ \A i \in Runs : job'[i].gone \in {{}, job[i].gone}
  BY <1>1, FinishedFits
<1>4. CASE rows' = rows
  BY <1>1, <1>3, <1>4, TableStays
<1>5. \A p \in DOMAIN best : best[p] \in Items
  BY <1>2, BestFits
<1> HIDE DEF best
<1>6. ASSUME rows' = rows \cup {D(p) : p \in DOMAIN best}, Pairs(best) \cap RowPairs(rows) = {} PROVE JobsInv'
  <2>1. ASSUME NEW p \in DOMAIN best
        PROVE  RowFits(D(p), nextId) /\ Pair(D(p)) = Pair(best[p])
    <3> DEFINE x == [best[p] EXCEPT !.tag = 1]
    <3>1. x \in Items /\ Pair(x) = Pair(best[p])
      BY <1>5, <2>1, ScholarJobsAssumption DEF Items, Pair
    <3> HIDE DEF x
    <3>2. RowFits(Row(0, x), nextId) /\ Pair(Row(0, x)) = Pair(x)
      BY <1>1, <3>1 DEF Row, RowFits, Items, Pair
    <3> QED
      BY <3>1, <3>2 DEF x
  <2>2. ASSUME NEW p \in DOMAIN best, NEW q \in DOMAIN best, Pair(best[p]) = Pair(best[q]) PROVE D(p) = D(q)
    <3>1. best[p] \in Items /\ best[q] \in Items
      BY <1>5
    <3>2. best[p].owner = best[q].owner /\ best[p].key = best[q].key
      BY <2>2 DEF Pair
    <3> QED
      BY <3>1, <3>2 DEF Row, Items
  <2> HIDE DEF D
  <2>3. \A r \in rows, p \in DOMAIN best : Pair(r) # Pair(D(p))
    BY <1>6, <2>1 DEF Pairs, RowPairs
  <2>4. \A r, s \in rows' : Pair(r) = Pair(s) => r = s
    BY <1>2, <1>6, <2>1, <2>2, <2>3 DEF JobsInv, TableFits
  <2>5. \A r \in rows' : RowFits(r, nextId')
    BY <1>1, <1>6, <2>1 DEF JobsInv, TableFits
  <2>6. TableFits'
    BY <1>1, <1>2, <2>4, <2>5 DEF JobsInv, TableFits, Answers
  <2>7. Kept'
    BY <1>1, <1>2 DEF JobsInv, Kept
  <2> QED
    BY <1>3, <2>6, <2>7 DEF JobsInv
<1> QED
  BY <1>1, <1>4, <1>6

-----------------------------------------------------------------------------
LEMMA JobsStep ==
  ASSUME JobsInv, [Next]_vars
  PROVE  JobsInv'
<1>1. ASSUME UNCHANGED vars PROVE JobsInv'
  <2>1. /\ kind' = kind /\ listed' = listed /\ rows' = rows /\ nextId' = nextId /\ job' = job
        /\ flight' = flight /\ stable' = stable
    BY <1>1 DEF vars, table
  <2>2. JobsFit'
    BY <2>1 DEF JobsInv, JobsFit
  <2> QED
    BY <2>1, <2>2, TableStays
<1>2. ASSUME NEW j \in Runs,
             \/ Start(j) \/ Read(j) \/ Fail(j)
             \/ NextLecture(j) \/ RemoveTimes(j) \/ AddTimes(j) \/ ReplaceTimes(j)
             \/ UpdateUserDepartment(j) \/ AddMajors(j) \/ StartRemovals(j)
             \/ ClearBest(j) \/ AddBest(j)
      PROVE  JobsInv'
  BY <1>2, StartFits, ReadFits, FailFits, NextLectureFits, RemoveTimesFits, AddTimesFits, ReplaceTimesFits,
     UpdateUserDepartmentFits, AddMajorsFits, StartRemovalsFits, ClearBestFits, AddBestFits
<1> QED
  BY <1>1, <1>2, ChangeFits, LoseDeletionFits, CrashFits, DeleteMajorFits DEF Next

\* What the invariant says of the rows and the runs is TypeOK.
LEMMA JobsTyped ==
  ASSUME JobsInv
  PROVE  StaysListed
<1>1. \A r \in rows : r \in [id : 0..(nextId - 1), owner : Owners, key : Keys, tag : Tags]
  BY DEF JobsInv, TableFits, RowFits
<1>2. \A j \in Runs : /\ job[j].pc \in {"idle", "read", "next", "remove", "add", "update",
                                        "chunks", "clear", "fill", "done"}
                      /\ job[j].todo \subseteq DOMAIN job[j].want
                      /\ job[j].left \subseteq Owners
  BY DEF JobsInv, JobsFit, JobFits, Places
<1>3. ASSUME kind = "degree", NEW o \in Users PROVE Cardinality({r \in rows : r.owner = o}) = 1
  <2>1. PICK r \in rows : r.owner = o
    BY <1>3 DEF JobsInv, TableFits
  <2>2. {s \in rows : s.owner = o} = {r}
    BY <1>3, <2>1 DEF JobsInv, TableFits
  <2> QED
    BY <2>2, FS_Singleton
<1>4. TypeOK
  BY <1>1, <1>2, <1>3 DEF TypeOK, JobsInv, TableFits
<1>5. kind \in {"exam", "class"} => stable \subseteq RowPairs(rows)
  BY DEF JobsInv, Kept, First, RowPairs
<1> QED
  BY <1>4, <1>5 DEF StaysListed, JobsInv, Kept

\* The rows, the lists and the plans of all runs fit together in every state.
THEOREM JobsFitAlways == Spec => []JobsInv
<1>1. Init => JobsInv
  BY JobsStart
<1>2. JobsInv /\ [Next]_vars => JobsInv'
  BY JobsStep
<1> QED
  BY <1>1, <1>2, PTL DEF Spec

\* What the registrar has listed all the time has a row all the time, however
\* the runs of class times, exam times and majors overlap, fail or crash.
THEOREM StaysAlwaysListed == Spec => []StaysListed
<1>1. JobsInv => StaysListed
  BY JobsTyped
<1> QED
  BY <1>1, JobsFitAlways, PTL
=============================================================================
