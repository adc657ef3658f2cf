----------------------------- MODULE MCBrowsing -----------------------------
(***************************************************************************)
(* Instances of Listings (with Reviews) and of Feeds (with Choices) for    *)
(* TLC.  A behaviour is about requests that review, a list that is walked, *)
(* feeds, or what users choose; the rest stays as it is.                   *)
(***************************************************************************)
EXTENDS Listings, Feeds

CONSTANTS ua, ub, pa, cs, hss, MaxReviews, MaxFeeds, MaxChoices

VARIABLES mode, begun

MCCourseOf     == <<1, 1, 2>>
MCProfessorsOf == <<{pa}, {}, {pa}>>
MCMajorsOf     == (ua :> {cs}) @@ (ub :> {cs})
MCYearOf       == [d \in {1, 2, 4} |-> 1]
MCPicks == {[ids |-> {hss}, twice |-> FALSE], [ids |-> {cs}, twice |-> TRUE], [ids |-> {cs, "unknown"}, twice |-> FALSE]}

CourseRow(type, department, old, new, weight, representative) ==
  [type |-> type, department |-> department, level |-> IF type = "HSE" THEN "1" ELSE "4", words |-> {type},
   old |-> old, new |-> new, weight |-> weight, representative |-> representative]
MCCourseRows == {CourseRow("MR", "CS", 1, 1, 0, TRUE), CourseRow("ME", "CS", 1, 2, 1, TRUE),
                 CourseRow("HSE", "HSS", 2, 2, 1, FALSE)}

LectureRow(type, department, no, people, deleted, begin) ==
  [type |-> type, department |-> department, level |-> IF type = "HSE" THEN "1" ELSE "4", words |-> {type},
   old |-> 1, no |-> no, year |-> 2, semester |-> no, people |-> people, deleted |-> deleted,
   times |-> {[day |-> 1, begin |-> begin, end |-> begin + 3]}]
MCLectureRows == {LectureRow("MR", "CS", 1, 1, FALSE, 18), LectureRow("ME", "CS", 1, 2, FALSE, 45),
                  LectureRow("HSE", "HSS", 3, 2, FALSE, 21), LectureRow("MR", "CS", 1, 3, TRUE, 18),
                  LectureRow("IS", "CS", 1, 1, FALSE, 18)}

All == [department |-> Unset, type |-> Unset, level |-> Unset, group |-> Unset, keyword |-> Unset, term |-> Unset,
        year |-> Unset, semester |-> Unset, day |-> Unset, begin |-> Unset, end |-> Unset,
        lecture |-> 1, professor |-> pa, user |-> ua, order |-> Unset]
Queries1 == {[All EXCEPT !.department = {"CS"}], [All EXCEPT !.department = {"CS", "ETC"}],
             [All EXCEPT !.type = {"MR", "ETC"}], [All EXCEPT !.level = {"4", "ETC"}],
             [All EXCEPT !.group = {"Humanity", "CS"}]}
Queries2 == {[All EXCEPT !.department = {"CS"}], [All EXCEPT !.type = {"MR"}], [All EXCEPT !.level = {"4"}]}
QueriesBoth == {All, [All EXCEPT !.keyword = "HSE"], [All EXCEPT !.keyword = "CS"]}
Timed(begin, end) == [All EXCEPT !.day = 1, !.begin = begin, !.end = end]
\* Orders that a reader chose: of all rows, and one that leaves ties.
Ordered == {[All EXCEPT !.order = <<[by |-> "like", desc |-> TRUE], [by |-> "id", desc |-> FALSE]>>],
            [All EXCEPT !.order = <<[by |-> "written", desc |-> FALSE]>>]}
QueriesOf(list) ==
  CASE list = "courses1"     -> Queries1 \cup QueriesBoth \cup {[All EXCEPT !.term = 0]}
    [] list \in CourseLists  -> Queries2 \cup QueriesBoth \cup {[All EXCEPT !.term = 0]}
    [] list = "lectures1"    -> Queries1 \cup QueriesBoth \cup {Timed(2, 10), Timed(10, 32)}
    [] list \in LectureLists -> {[q EXCEPT !.year = 2, !.semester = 1] :
                                  q \in Queries2 \cup QueriesBoth \cup {Timed(18, 21), Timed(18, 48)}}
    [] list = "reviews"      -> {All, [All EXCEPT !.semester = 1]} \cup Ordered
    [] list = "hall"         -> {All, [All EXCEPT !.semester = 1]}
    [] list = "ofCourse1"    -> {All} \cup Ordered
    [] OTHER                 -> {All}
MCQueries == UNION {QueriesOf(list) : list \in Lists}

-----------------------------------------------------------------------------
\* Reviews that were written one after the other, with their votes counted.
Existing == <<<<1, ua>>, <<2, ua>>, <<1, ub>>>>
Reviewing ==
  /\ \E liked \in {{1}, {1, 3}} : votes = [k \in Keys |-> IF \E i \in liked : Existing[i] = k THEN {ub} ELSE {}]
  /\ \E at \in {<<0, 0, 1>>, <<0, 1, 1>>} :
       review = [k \in Keys |-> IF k \in ToSet(Existing)
                  THEN LET i == CHOOSE i \in 1..3 : Existing[i] = k IN
                       [id |-> i, version |-> 1, at |-> at[i], like |-> Cardinality(votes[k]), hidden |-> FALSE]
                  ELSE NoReview]
  /\ scores = [m \in Scores |-> [k \in Keys |-> IF k[1] \in Sources(m) THEN Versions[k] ELSE 0]]
NoReviews ==
  /\ review = [k \in Keys |-> NoReview] /\ votes = [k \in Keys |-> {}]
  /\ scores = [m \in Scores |-> Versions]

Plain == [c \in Courses |-> CourseRow("MR", "CS", 1, c, 0, TRUE)]
PlainLectures == [l \in Lectures |-> LectureRow("MR", "CS", 1, l, FALSE, 18)]

\* "ranked" feeds are made as "humanity" ones are, "related" as "write".
FeedKinds == {"humanity", "major", "write", "rate"}
MCInit ==
  /\ mode \in {"review", "courses", "lectures", "reviews", "choose"} \cup FeedKinds /\ begun = 0
  /\ IF mode = "courses" THEN \E r, s \in CourseRows : course = [Plain EXCEPT ![1] = r, ![3] = s] ELSE course = Plain
  /\ IF mode = "lectures" THEN \E r, s \in LectureRows : lecture = [PlainLectures EXCEPT ![1] = r, ![2] = s]
     ELSE lecture = PlainLectures
  /\ asked = NoList /\ walk = Idle /\ kept = {} /\ moved = FALSE /\ grew = FALSE /\ tableChanges = 0
  /\ may = {<<1, ua>>, <<2, ub>>}
  /\ IF mode = "reviews" THEN Reviewing
     ELSE IF mode = "review" THEN NoReviews \/ (Reviewing /\ votes[<<1, ub>>] = {} /\ review[<<2, ua>>].at = 0)
     ELSE NoReviews
  /\ sent = {} /\ outdated = {} /\ second = 0 /\ task = [t \in ReviewTasks |-> NoTask]
  /\ ChoicesInit
  /\ IF mode = "choose" THEN favorites[ub] = {} /\ favorites[ua] # {hss} /\ hasList \in {{}, {ua}}
     ELSE favorites = [m \in Members |-> {}] /\ hasList = {}
  /\ takes \in {{}, Members} /\ writes = {}
  /\ mode # "write" => takes = {}
  /\ rated = {} /\ cached = [x \in Members \X Days |-> NotCached] /\ ask = [f \in FeedTasks |-> NoAsk]
  /\ seen = [x \in Members \X Days |-> {}] /\ raced = {} /\ filled = {}
  /\ feeds = [x \in Feeds |-> IF x[1] = mode THEN "none" ELSE "hidden"]

\* How many requests a behaviour begins.
Begins(tasks, before, after) == Cardinality({t \in tasks : before[t].pc = "idle" /\ after[t].pc # "idle"})

\* A lecture is reviewed again, edited (by ua, or by ub, who may not) and liked
\* (by ub), and another is reviewed for the first time, by ub.  While reviews
\* are listed no message is lost, and the scores, which no list shows, are not
\* derived.
Requested(t) ==
  \/ t.op = "none"
  \/ t.op \in {"create1", "create2"} /\ t.on \in {<<1, ua>>, <<2, ub>>}
  \/ t.op \in {"edit1", "edit2"} /\ t.on = <<1, ua>>
  \/ t.op \in {"like", "unlike1", "unlike2"} /\ t.on = <<1, ua>> /\ t.who = ub
ReviewStep ==
  /\ ReviewsNext
  /\ begun' = begun + Begins(ReviewTasks, task, task')
  /\ \A t \in ReviewTasks : Requested(task'[t])
  /\ mode = "reviews" => scores' = scores /\ outdated' = outdated
  /\ \A k \in Keys : review'[k].hidden # review[k].hidden =>
       k = <<1, ua>> /\ begun = 1 /\ \E t \in ReviewTasks : task[t].pc \in {"look", "find", "update"}
  /\ may' # may => mode = "review" /\ may' \subseteq may /\ \E t \in ReviewTasks : task[t].pc = "permit"
  /\ second' # second => mode = "reviews" /\ begun = 1

ListsOf(m) == CASE m = "courses" -> CourseLists [] m = "lectures" -> LectureLists [] OTHER -> ReviewLists
OpenStep == \E list \in ListsOf(mode) : \E q \in QueriesOf(list), limit \in Limits : Open(list, q, limit)

\* A feed that is found is found whatever others do: such parts go first.
\* Only the feeds for rates look at other days, and those that differ between
\* users are asked for under another's URL.
Found == {y \in FeedTasks \X Feeds : PartAt(y[1], y[2], "find") /\ feeds[y[2]] # "none"}
FeedStep ==
  /\ IF Found # {} THEN LET y == CHOOSE y \in Found : TRUE IN FindFeed(y[1], y[2]) ELSE FeedsNext
  /\ begun' = begun + Begins(FeedTasks, ask, ask') + Begins(ChoiceTasks, choice, choice')
  /\ begun' <= IF mode = "rate" THEN MaxFeeds - 1 ELSE MaxFeeds
  /\ \A f \in FeedTasks : ask'[f].day \in {1, NoDay} \/ mode = "rate"
  /\ \A f \in FeedTasks : ask'[f].url = ask'[f].user \/ mode = "rate" \/ (mode \in {"write", "major"} /\ ask'[f].user = ub)
  /\ IF mode = "rate" THEN (\A f \in FeedTasks : ask'[f].user # ub) /\ (\A y \in DOMAIN cached : cached[y] # NotCached => cached'[y] = cached[y])
     ELSE rated' = rated
  /\ mode # "write" => takes' = takes /\ writes' = writes
  /\ \A c \in ChoiceTasks : choice'[c] # NoChoice => mode = "major" /\ choice'[c].op = "favorites2" /\ choice'[c].user = ua

ChoiceStep ==
  /\ ChoiceSteps
  /\ begun' = begun + Begins(ChoiceTasks, choice, choice') /\ begun' <= MaxChoices
  /\ \A c \in ChoiceTasks : choice'[c].user = ub => choice'[c].op \in {"favorites1", "add"}

MCNext ==
  /\ UNCHANGED mode
  /\ \/ /\ mode = "review" /\ ReviewStep /\ begun' <= MaxReviews
        /\ UNCHANGED <<listVars, choiceVars, feedVars>>
     \/ /\ mode \in {"courses", "lectures", "reviews"} /\ UNCHANGED <<choiceVars, feedVars>>
        /\ \/ OpenStep /\ UNCHANGED begun
           \/ ReaderSteps /\ UNCHANGED begun
           \/ mode # "reviews" /\ RowSteps /\ Follow /\ UNCHANGED begun
           \/ mode = "reviews" /\ walk.pc # "idle" /\ ReviewStep /\ begun' <= 1 /\ UNCHANGED tableVars /\ Follow
     \/ mode \in FeedKinds /\ FeedStep /\ UNCHANGED <<listVars, reviewVars>>
     \/ mode = "choose" /\ ChoiceStep /\ UNCHANGED <<listVars, reviewVars, feedVars>>

MCSpec == MCInit /\ [][MCNext]_<<listVars, reviewVars, choiceVars, feedVars, mode, begun>>

\* All tasks and wishes swapped at once: two elements are cheaper to compare
\* than the sixteen of the whole group.
Swap(S) == CHOOSE f \in Permutations(S) : \A x \in S : f[x] # x
Symmetry == {Swap(ReviewTasks) @@ Swap(ChoiceTasks) @@ Swap(FeedTasks) @@ Swap(Wishes)}
=============================================================================
