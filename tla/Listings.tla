------------------------------ MODULE Listings ------------------------------
(***************************************************************************)
(* The lists of courses, lectures and reviews, walked page by page.  Each  *)
(* page is a statement of its own (skip, take), so the tables may change   *)
(* between two pages: scholar-sync writes courses and lectures, server-    *)
(* consumer what it derives, users their reviews and votes (module         *)
(* Reviews).  Rows that the order does not tell apart come in any order,   *)
(* in another one for every statement.                                     *)
(*                                                                         *)
(* Titles, codes and names are abstracted to the words a row answers to,   *)
(* codes to numbers in their order; times are half hours of the day.       *)
(***************************************************************************)
EXTENDS Reviews, Integers, Sequences, SequencesExt

CONSTANTS Courses,      \* ids
          CourseRows,   \* what a row of subject_course may hold
          LectureRows,  \* what a row of subject_lecture may hold
          Queries,      \* what a reader may ask for
          Limits,       \* page sizes
          Majors,       \* MAJOR_ACRONYMS
          KnownTypes,   \* TYPE_ACRONYMS
          Research,     \* the types of research, not listed
          Unset,        \* a parameter that is not given
          ThisYear,
          MaxTableChanges  \* bound on changes of courses and lectures

ASSUME ListingsAssumption ==
  /\ Courses \subseteq Nat \ {0} /\ Lectures \subseteq Nat \ {0}
  /\ CourseOf \in [Lectures -> Courses]
  /\ Limits \subseteq Nat \ {0} /\ MaxTableChanges \in Nat

VARIABLES course,   \* course[c]: row of subject_course
          lecture,  \* lecture[l]: row of subject_lecture
          asked,    \* what the reader walks: [list, query, limit]
          walk,     \* how far it is
          kept,     \* history: rows that have matched all the time
          moved,    \* history: a matching row left the list, or its place in it
          grew,     \* history: a row came into the list
          tableChanges

tableVars == <<course, lecture, tableChanges>>
listVars  == <<tableVars, asked, walk, kept, moved, grew>>

CourseLists  == {"courses1", "code", "popular", "studentCount"}
LectureLists == {"lectures1", "lecturesByCode", "lecturesPopular", "lecturesByStudents"}
ReviewLists  == {"reviews", "hall", "ofLecture", "related", "ofCourse", "ofCourse1",
                 "ofCourseAndProfessor", "liked"}
Lists == CourseLists \cup LectureLists \cup ReviewLists

Idle    == [pc |-> "idle", offset |-> 0, ids |-> <<>>, full |-> FALSE, shown |-> <<>>, total |-> Unset, tied |-> FALSE]
NoList  == [list |-> "none", query |-> Unset, limit |-> 0]

-----------------------------------------------------------------------------
(* Filters.  A query has a field for every parameter. *)

\* v1 knows departments by code and "ETC", which excludes the chosen majors;
\* v2 by id.
DepartmentFilter1(q, r) ==
  LET chosen == Majors \cap q.department IN
  \/ q.department = Unset \/ "ALL" \in q.department
  \/ "ETC" \in q.department /\ r.department \notin chosen
  \/ "ETC" \notin q.department /\ r.department \in chosen
DepartmentFilter2(q, r) == q.department = Unset \/ r.department \in q.department

\* "ETC" means every known type: `type in types` asks for an index of the
\* list, so no type counts as chosen.  A name that is not known is no
\* condition at all.
TypeFilter(q, r) ==
  \/ q.type = Unset \/ "ALL" \in q.type
  \/ "ETC" \in q.type /\ r.type \in KnownTypes
  \/ "ETC" \notin q.type /\ (r.type \in q.type \/ \E t \in q.type : t \notin KnownTypes)

LevelFilter1(q, r) ==
  \/ q.level = Unset \/ "ALL" \in q.level
  \/ ("ETC" \in q.level) # (r.level \in q.level)
LevelFilter2(q, r) == q.level = Unset \/ r.level \in q.level

\* A group is "Basic", "Humanity" or a department; the empty list of groups
\* matches nothing.
GroupFilter(q, r) ==
  \/ q.group = Unset
  \/ "Basic" \in q.group /\ r.type \in {"BR", "BE"}
  \/ "Humanity" \in q.group /\ r.type = "HSE"
  \/ r.type \in {"MR", "ME", "EG"} /\ r.department \in q.group \ {"Basic", "Humanity"}

\* Found in a title, a code or the name of a professor, or the whole name of
\* the department.
KeywordFilter(q, r) == q.keyword = Unset \/ q.keyword \in r.words \/ q.keyword = r.department

\* A lecture of the last years, a deleted one too.
TermFilter(q, c) ==
  q.term = Unset \/ \E l \in Lectures : CourseOf[l] = c /\ lecture[l].year >= ThisYear - q.term

SemesterFilter(q, r) ==
  (q.year = Unset \/ r.year = q.year) /\ (q.semester = Unset \/ r.semester = q.semester)

\* One class meets all the conditions.  v1 counts half hours from 8:00, and
\* midnight at the end of the day is 0:00; v2 leaves that end out.
DatetimeConverter(t) == (t + 16) % 48
TimeFilter(q, r, begin, end) ==
  \/ q.day = Unset /\ begin = Unset /\ end = Unset
  \/ \E t \in r.times :
       /\ q.day = Unset \/ t.day = q.day
       /\ begin = Unset \/ t.begin >= begin
       /\ end = Unset \/ t.end <= end
TimeFilter1(q, r) == TimeFilter(q, r, IF q.begin = Unset THEN Unset ELSE DatetimeConverter(q.begin),
                                      IF q.end = Unset THEN Unset ELSE DatetimeConverter(q.end))
TimeFilter2(q, r) == TimeFilter(q, r, q.begin, IF q.end = Unset \/ q.end >= 48 THEN Unset ELSE q.end)

DefaultFilter(r) == ~r.deleted /\ r.type \notin Research

-----------------------------------------------------------------------------
(* What a list shows: the rows that match, and what they are ordered by.   *)

Courses1(q) == {c \in Courses : /\ DepartmentFilter1(q, course[c]) /\ TypeFilter(q, course[c])
                                /\ GroupFilter(q, course[c]) /\ KeywordFilter(q, course[c])
                                /\ TermFilter(q, c) /\ LevelFilter1(q, course[c])}
Courses2(q) == {c \in Courses : /\ DepartmentFilter2(q, course[c]) /\ TypeFilter(q, course[c])
                                /\ KeywordFilter(q, course[c]) /\ TermFilter(q, c)
                                /\ LevelFilter2(q, course[c])}
Lectures1(q) == {l \in Lectures : LET r == lecture[l] IN
  /\ SemesterFilter(q, r) /\ TimeFilter1(q, r) /\ DepartmentFilter1(q, r) /\ TypeFilter(q, r)
  /\ GroupFilter(q, r) /\ KeywordFilter(q, r) /\ DefaultFilter(r) /\ LevelFilter1(q, r)}
Lectures2(q) == {l \in Lectures : LET r == lecture[l] IN
  /\ SemesterFilter(q, r) /\ TimeFilter2(q, r) /\ DepartmentFilter2(q, r) /\ TypeFilter(q, r)
  /\ KeywordFilter(q, r) /\ DefaultFilter(r) /\ LevelFilter2(q, r)}

\* Reviews hidden by an administrator are listed, without their text.
ReviewsOfTerm(q)               == {k \in Reviewed : SemesterFilter(q, lecture[k[1]])}
ReviewsOfLecture(q)            == {k \in Reviewed : k[1] = q.lecture}
RelatedReviewsOfLecture(q)     == {k \in Reviewed : k[1] \in Related(q.lecture)}
ReviewsByCourse(q)             == {k \in Reviewed : CourseOf[k[1]] = CourseOf[q.lecture]}
ReviewsByCourseAndProfessor(q) == {k \in ReviewsByCourse(q) : q.professor \in ProfessorsOf[k[1]]}
LikedReviews(q)                == {k \in Reviewed : q.user \in votes[k]}

ReviewsOf(list, q) ==
  CASE list \in {"reviews", "hall"}       -> ReviewsOfTerm(q)
    [] list = "ofLecture"                 -> ReviewsOfLecture(q)
    [] list = "related"                   -> RelatedReviewsOfLecture(q)
    [] list \in {"ofCourse", "ofCourse1"} -> ReviewsByCourse(q)
    [] list = "ofCourseAndProfessor"      -> ReviewsByCourseAndProfessor(q)
    [] OTHER                              -> LikedReviews(q)

Rows(list, q) ==
  CASE list = "courses1"       -> Courses1(q)
    [] list \in CourseLists    -> Courses2(q)
    [] list = "lectures1"      -> Lectures1(q)
    [] list \in LectureLists   -> Lectures2(q)
    [] OTHER                   -> ReviewsOf(list, q)

\* num_people of the lectures that are not deleted.
StudentCount(c) ==
  FoldSet(LAMBDA l, n : n + lecture[l].people, 0, {l \in Lectures : CourseOf[l] = c /\ ~lecture[l].deleted})

\* Mutant: the orders end with the code.
CourseOrderWithoutId(list, c) ==
  CASE list = "courses1"     -> <<course[c].old>>
    [] list = "popular"      -> <<-course[c].weight, course[c].new>>
    [] list = "studentCount" -> <<-StudentCount(c), course[c].new>>
    [] OTHER                 -> <<course[c].new>>
CourseOrderBy(list, c) ==
  LET r == course[c] IN
  CASE list = "courses1"     -> <<r.old>>
    [] list = "popular"      -> <<-r.weight, r.new, c>>
    [] list = "studentCount" -> <<-StudentCount(c), r.new, c>>
    [] OTHER                 -> <<r.new, c>>
LectureOrderBy(list, l) ==
  LET r == lecture[l] IN
  CASE list = "lectures1"          -> <<-r.year, -r.semester, r.old, r.no>>
    [] list = "lecturesPopular"    -> <<-course[CourseOf[l]].weight, r.old, r.no, l>>
    [] list = "lecturesByStudents" -> <<-r.people, r.old, r.no, l>>
    [] OTHER                       -> <<-r.year, -r.semester, r.old, r.no, l>>
\* v1 takes the columns and directions of these lists from the request, and
\* has orders of its own for requests without them.  It takes an order for
\* courses and lectures too, which it does not use.
Sortable == {"reviews", "ofLecture", "related", "ofCourse1", "liked"}
Chosen(list, q) == list \in Sortable /\ q.order # Unset
OrderFilter(order, k) ==
  LET column == [like |-> review[k].like, written |-> review[k].at, id |-> review[k].id,
                 year |-> lecture[k[1]].year, semester |-> lecture[k[1]].semester]
  IN [i \in DOMAIN order |-> IF order[i].desc THEN -column[order[i].by] ELSE column[order[i].by]]
ReviewOrderBy(list, q, k) ==
  LET r == review[k] IN
  CASE Chosen(list, q)    -> OrderFilter(q.order, k)
    [] list = "hall"      -> <<-r.like, -r.at>>
    [] list = "ofCourse1" -> <<-lecture[k[1]].year, -lecture[k[1]].semester, -r.at, -r.id>>
    [] OTHER              -> <<-r.at, -r.id>>
Place(list, q, x) ==
  IF list \in CourseLists THEN CourseOrderBy(list, x)
  ELSE IF list \in LectureLists THEN LectureOrderBy(list, x)
  ELSE ReviewOrderBy(list, q, x)
\* Courses without a representative lecture are left out of v1's pages.
Visible(list, x) == list # "courses1" \/ course[x].representative

Precedes(p, q) == \E i \in DOMAIN p : p[i] < q[i] /\ \A j \in 1..(i - 1) : p[j] = q[j]
Tied(list, q, S) == \E x, y \in S : x # y /\ Place(list, q, x) = Place(list, q, y)
Arrangements(list, q, S) ==
  {s \in SetToSeqs(S) : \A i, j \in DOMAIN s : i < j => ~Precedes(Place(list, q, s[j]), Place(list, q, s[i]))}
Page(s, offset, limit) == SubSeq(s, offset + 1, IF offset + limit < Len(s) THEN offset + limit ELSE Len(s))

\* The lectures of a page of v2 are answered by course, in the order in
\* which the courses come up.
Grouped(page) ==
  LET first == SelectSeq(page, LAMBDA l : \A j \in DOMAIN page :
                 CourseOf[page[j]] = CourseOf[l] => \E i \in 1..j : page[i] = l)
  IN FlattenSeq([i \in DOMAIN first |-> SelectSeq(page, LAMBDA l : CourseOf[l] = CourseOf[first[i]])])
Regrouped(list) == list \in LectureLists \ {"lectures1"}
Answered(list, page) ==
  IF Regrouped(list) THEN Grouped(page) ELSE SelectSeq(page, LAMBDA x : Visible(list, x))

-----------------------------------------------------------------------------
ListingsInit ==
  /\ course \in [Courses -> CourseRows] /\ lecture \in [Lectures -> LectureRows]
  /\ asked = NoList /\ walk = Idle /\ kept = {} /\ moved = FALSE /\ grew = FALSE
  /\ tableChanges = 0

Open(list, q, limit) ==
  /\ walk.pc = "idle"
  /\ asked' = [list |-> list, query |-> q, limit |-> limit]
  /\ walk' = [walk EXCEPT !.pc = "page"]
  /\ kept' = Rows(list, q)
  /\ UNCHANGED <<tableVars, reviewVars, moved, grew>>

\* What comes after a page: the next one, if this one was full.
After(full) == IF full THEN "page" ELSE "done"
Shown(page, matching) ==
  LET full == Len(page) = asked.limit IN
  [walk EXCEPT !.shown  = @ \o Answered(asked.list, page),
               !.offset = @ + asked.limit,
               !.full   = full,
               !.tied   = @ \/ Tied(asked.list, asked.query, matching),
               !.ids    = <<>>,
               !.pc     = IF asked.list \in {"code", "popular"} THEN "count" ELSE After(full)]

\* One findMany with skip and take.
ReadPage ==
  /\ walk.pc = "page" /\ asked.list # "studentCount"
  /\ LET matching == Rows(asked.list, asked.query) IN
     \E s \in Arrangements(asked.list, asked.query, matching) :
       walk' = Shown(Page(s, walk.offset, asked.limit), matching)
  /\ UNCHANGED <<tableVars, reviewVars, asked, kept, moved, grew>>

\* totalCount of v2 is a statement of its own.
Count ==
  /\ walk.pc = "count"
  /\ walk' = [walk EXCEPT !.total = Cardinality(Rows(asked.list, asked.query)), !.pc = After(walk.full)]
  /\ UNCHANGED <<tableVars, reviewVars, asked, kept, moved, grew>>

\* getCoursesByStudentCount: the ids in the order of codes; then their sums,
\* a stable sort and the page.
ReadIds ==
  /\ walk.pc = "page" /\ asked.list = "studentCount"
  /\ \E s \in Arrangements("code", asked.query, Rows(asked.list, asked.query)) :
       walk' = [walk EXCEPT !.ids = s, !.total = Len(s), !.pc = "sums"]
  /\ UNCHANGED <<tableVars, reviewVars, asked, kept, moved, grew>>

StableSort(ids) ==
  LET places == CHOOSE t \in SetToSeqs(DOMAIN ids) : \A i, j \in DOMAIN t : i < j =>
                  Precedes(<<-StudentCount(ids[t[i]]), t[i]>>, <<-StudentCount(ids[t[j]]), t[j]>>)
  IN [i \in DOMAIN ids |-> ids[places[i]]]
ReadSums ==
  /\ walk.pc = "sums"
  /\ walk' = Shown(Page(StableSort(walk.ids), walk.offset, asked.limit), ToSet(walk.ids))
  /\ UNCHANGED <<tableVars, reviewVars, asked, kept, moved, grew>>

-----------------------------------------------------------------------------
\* scholar-sync and server-consumer change rows; one that does not match
\* stands for one that does not exist yet.
ChangeCourse(c, row) ==
  /\ tableChanges < MaxTableChanges /\ tableChanges' = tableChanges + 1
  /\ row # course[c] /\ course' = [course EXCEPT ![c] = row]
  /\ UNCHANGED <<lecture, reviewVars>>
ChangeLecture(l, row) ==
  /\ tableChanges < MaxTableChanges /\ tableChanges' = tableChanges + 1
  /\ row # lecture[l] /\ lecture' = [lecture EXCEPT ![l] = row]
  /\ UNCHANGED <<course, reviewVars>>

\* What a change means to the list that is being walked.
Stays(list, q, x) == /\ x \in Rows(list, q)'
                     /\ Place(list, q, x)' = Place(list, q, x)
                     /\ Visible(list, x)' = Visible(list, x)
Follow ==
  /\ UNCHANGED <<asked, walk>>
  /\ IF walk.pc = "idle" THEN UNCHANGED <<kept, moved, grew>>
     ELSE LET list == asked.list q == asked.query IN
          /\ kept'  = kept \cap Rows(list, q)'
          /\ moved' = (moved \/ \E x \in Rows(list, q) : ~Stays(list, q, x))
          /\ grew'  = (grew \/ ~(Rows(list, q)' \subseteq Rows(list, q)))

ReaderSteps == ReadPage \/ Count \/ ReadIds \/ ReadSums
RowSteps ==
  \/ \E c \in Courses, row \in CourseRows : ChangeCourse(c, row)
  \/ \E l \in Lectures, row \in LectureRows : ChangeLecture(l, row)
ListingsNext ==
  \/ \E list \in Lists, q \in Queries, limit \in Limits : Open(list, q, limit)
  \/ ReaderSteps
  \/ RowSteps /\ Follow
  \/ ReviewsNext /\ UNCHANGED tableVars /\ Follow

-----------------------------------------------------------------------------
ListingTypes ==
  /\ asked = NoList <=> walk.pc = "idle"
  /\ walk.pc \in {"idle", "page", "count", "sums", "done"} /\ walk.offset \in Nat
  /\ moved \in BOOLEAN /\ grew \in BOOLEAN /\ tableChanges \in 0..MaxTableChanges

\* Whoever turns all the pages has seen every row that matched all the
\* while, if only rows were added in between; and sees each matching row
\* once, in order, with the right total, if nothing changed at all.  Only
\* the orders of v1 (and of the hall of fame), and those that a reader of v1
\* has chosen, leave rows untold apart, for which neither holds.
Loose == {"courses1", "lectures1", "hall"}
Sorted(list, q, s) == \A i, j \in DOMAIN s : i < j => Precedes(Place(list, q, s[i]), Place(list, q, s[j]))
Walked ==
  LET list == asked.list shown == walk.shown IN
  /\ ListingTypes
  /\ walk.tied => list \in Loose \/ Chosen(list, asked.query)
  /\ walk.pc = "done" /\ ~walk.tied /\ ~moved =>
       /\ {x \in kept : Visible(list, x)} \subseteq ToSet(shown)
       /\ ~grew => /\ Len(shown) = Cardinality(ToSet(shown)) /\ ToSet(shown) \subseteq kept
                   /\ ~Regrouped(list) => Sorted(list, asked.query, shown)
                   /\ walk.total \in {Unset, Cardinality(kept)}
=============================================================================
