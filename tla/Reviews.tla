------------------------------ MODULE Reviews ------------------------------
(***************************************************************************)
(* Reviews of lectures, and votes for them.  A request writes to the       *)
(* tables with statements of their own (the transaction of @Transactional  *)
(* is not the client the repositories use) and then tells server-consumer  *)
(* what to derive again: the scores of the course and of the lecture, or   *)
(* the likes of the review.  An upsert of this client is a SELECT, then an *)
(* INSERT or an UPDATE.                                                    *)
(*                                                                         *)
(* The text and the grades of a review are abstracted to their version,    *)
(* and a score to the versions it was computed from.  Two things that the  *)
(* scores hang on are left to module DerivedData, for no count or version  *)
(* of this module depends on them: likes and years weigh in a score but    *)
(* nobody is told when they change; and the third message of a review,     *)
(* for the score of each professor, carries the id of a row of             *)
(* subject_lecture_professors, so that it names another professor or       *)
(* nobody and leaves the scores of courses and lectures as they are.       *)
(* How a message is delivered, and what handlers of the same item do to    *)
(* each other, is in modules RabbitConsumer and DerivedData: here a        *)
(* message that was sent is handled in one step, later.                    *)
(***************************************************************************)
EXTENDS Naturals, FiniteSets

CONSTANTS Lectures,     \* lectures
          CourseOf,     \* CourseOf[l]: the course of lecture l
          ProfessorsOf, \* ProfessorsOf[l]: who gives lecture l
          Writers,      \* users
          NoWriter,
          ReviewTasks,  \* requests being handled at the same time
          MaxVersions,  \* bound on versions of what is written in reviews
          MaxSeconds    \* bound on the clock

ASSUME ReviewsAssumption ==
  /\ NoWriter \notin Writers \cup Lectures
  /\ IsFiniteSet(Lectures) /\ IsFiniteSet(Writers)
  /\ MaxVersions \in Nat \ {0} /\ MaxSeconds \in Nat

VARIABLES review,   \* review[k]: the review of lecture k[1] by user k[2]
          votes,    \* votes[k]: the users that like it
          may,      \* the keys k that findReviewWritableLectures permits now
          scores,   \* scores[m]: the versions from which a score was computed
          sent,     \* messages for server-consumer
          outdated, \* history: messages lost or never sent since m was derived
          second,   \* the clock, as exactly as written_datetime keeps it
          task      \* task[t]: request t

reviewVars == <<review, votes, may, scores, sent, outdated, second, task>>

Keys == Lectures \X Writers

\* Messages are named for what is derived again.
CourseScore(l)  == <<"course", CourseOf[l], NoWriter>>
LectureScore(l) == <<"lecture", l, NoWriter>>
LikeCount(k)    == <<"like", k[1], k[2]>>
Scores          == {CourseScore(l) : l \in Lectures} \cup {LectureScore(l) : l \in Lectures}
Messages        == Scores \cup {LikeCount(k) : k \in Keys}

NoReview == [id |-> 0, version |-> 0, at |-> 0, like |-> 0, hidden |-> FALSE]
Exists(k) == review[k].id # 0
Reviewed  == {k \in Keys : Exists(k)}
Versions  == [k \in Keys |-> review[k].version]

NoTask == [pc |-> "idle", op |-> "none", on |-> <<NoWriter, NoWriter>>, who |-> NoWriter, version |-> 0]
Operations == {"create1", "create2", "edit1", "edit2", "like", "unlike1", "unlike2"}

ReviewsInit ==
  /\ review = [k \in Keys |-> NoReview] /\ votes = [k \in Keys |-> {}]
  /\ may \in SUBSET Keys
  /\ scores = [m \in Scores |-> Versions]
  /\ sent = {} /\ outdated = {} /\ second = 0
  /\ task = [t \in ReviewTasks |-> NoTask]

Goto(t, pc) == task' = [task EXCEPT ![t].pc = pc]
Finish(t)   == task' = [task EXCEPT ![t] = NoTask]
At(t, op, pc) == task[t].op \in op /\ task[t].pc = pc

-----------------------------------------------------------------------------
\* createReviews and createReviewV2; updateReviewById and updateReviewV2;
\* likeReviewInstance and updateReviewLiked("like"); unlikeReview and
\* updateReviewLiked("unlike").
Operate(t, op, k, u) ==
  /\ task[t].pc = "idle"
  /\ op \in {"create1", "create2"} => u = k[2]
  /\ task' = [task EXCEPT ![t] = [pc |-> CASE op \in {"create1", "create2"} -> "permit"
                                           [] op \in {"edit1", "edit2"} -> "look"
                                           [] OTHER -> "isLiked",
                                  op |-> op, on |-> k, who |-> u, version |-> 0]]
  /\ UNCHANGED <<review, votes, may, scores, sent, outdated, second>>

\* findReviewWritableLectures: taken, and not of a semester whose deadline
\* for dropping courses is still to come.
Permitted(t) ==
  /\ At(t, {"create1", "create2"}, "permit")
  /\ IF task[t].on \in may THEN Goto(t, "find") ELSE Finish(t)
  /\ UNCHANGED <<review, votes, may, scores, sent, outdated, second>>

\* upsertReview reads by (writer_id, lecture_id).
Find(t) ==
  /\ At(t, {"create1", "create2"}, "find")
  /\ Goto(t, IF Exists(task[t].on) THEN "update" ELSE "insert")
  /\ UNCHANGED <<review, votes, may, scores, sent, outdated, second>>

\* The owner is compared and a review hidden by an administrator refused.
MayEdit(k, u) == Exists(k) /\ k[2] = u /\ ~review[k].hidden
Look(t) ==
  /\ At(t, {"edit1", "edit2"}, "look")
  /\ IF MayEdit(task[t].on, task[t].who) THEN Goto(t, "update") ELSE Finish(t)
  /\ UNCHANGED <<review, votes, may, scores, sent, outdated, second>>

\* Only v2 publishes: v1 has returned by then, because `user` is set.  Of the
\* lectures whose scores the review counts for, only its own is named.
Told(k) == {CourseScore(k[1]), LectureScore(k[1])}
Written(t) ==
  IF task[t].op \in {"create2", "edit2"} THEN Goto(t, "publish") /\ UNCHANGED outdated
  ELSE Finish(t) /\ outdated' = outdated \cup Told(task[t].on)

\* The unique index refuses a second review of the same writer and lecture.
Insert(t) ==
  /\ At(t, {"create1", "create2"}, "insert")
  /\ IF Exists(task[t].on) THEN Finish(t) /\ UNCHANGED <<review, outdated>>
     ELSE /\ review' = [review EXCEPT ![task[t].on] =
                [id |-> Cardinality(Reviewed) + 1, version |-> 1, at |-> second,
                 like |-> 0, hidden |-> FALSE]]
          /\ Written(t)
  /\ UNCHANGED <<votes, may, scores, sent, second>>

Update(t) ==
  /\ At(t, {"create1", "create2", "edit1", "edit2"}, "update")
  /\ review[task[t].on].version < MaxVersions
  /\ review' = [review EXCEPT ![task[t].on].version = @ + 1]
  /\ Written(t)
  /\ UNCHANGED <<votes, may, scores, sent, second>>

-----------------------------------------------------------------------------
\* findReviewVote, and getReviewById with isLiked in updateReviewLiked.
IsLiked(k, u) == u \in votes[k]
LookForVote(t) ==
  /\ At(t, {"like", "unlike1", "unlike2"}, "isLiked")
  /\ LET k == task[t].on u == task[t].who IN
     IF ~Exists(k) \/ IsLiked(k, u) = (task[t].op = "like") THEN Finish(t)
     ELSE Goto(t, CASE task[t].op = "like" -> "findVote"
                    [] task[t].op = "unlike1" -> "again"
                    [] OTHER -> "deleteVote")
  /\ UNCHANGED <<review, votes, may, scores, sent, outdated, second>>

\* deleteReviewVote of v1 looks once more.
LookAgain(t) ==
  /\ At(t, {"unlike1"}, "again")
  /\ IF IsLiked(task[t].on, task[t].who) THEN Goto(t, "deleteVote") ELSE Finish(t)
  /\ UNCHANGED <<review, votes, may, scores, sent, outdated, second>>

\* upsertReviewVote: nothing is updated in a vote that is found.
FindVote(t) ==
  /\ At(t, {"like"}, "findVote")
  /\ Goto(t, IF IsLiked(task[t].on, task[t].who) THEN "publish" ELSE "insertVote")
  /\ UNCHANGED <<review, votes, may, scores, sent, outdated, second>>

\* An INSERT of a vote that is there by now fails, and so does a DELETE of
\* one that is gone.
InsertVote(t) ==
  /\ At(t, {"like"}, "insertVote")
  /\ IF IsLiked(task[t].on, task[t].who) THEN Finish(t) /\ UNCHANGED votes
     ELSE votes' = [votes EXCEPT ![task[t].on] = @ \cup {task[t].who}] /\ Goto(t, "publish")
  /\ UNCHANGED <<review, may, scores, sent, outdated, second>>

DeleteVote(t) ==
  /\ At(t, {"unlike1", "unlike2"}, "deleteVote")
  /\ IF IsLiked(task[t].on, task[t].who)
     THEN votes' = [votes EXCEPT ![task[t].on] = @ \ {task[t].who}] /\ Goto(t, "publish")
     ELSE Finish(t) /\ UNCHANGED votes
  /\ UNCHANGED <<review, may, scores, sent, outdated, second>>

\* Mutant: the score of the lecture is forgotten.
ToPublishCourseOnly(t) == IF task[t].op \in {"create2", "edit2"} THEN {CourseScore(task[t].on[1])}
                          ELSE {LikeCount(task[t].on)}
\* A message that cannot be published is logged and forgotten; so is every
\* message of a server that dies before it publishes.
ToPublish(t) == IF task[t].op \in {"create2", "edit2"} THEN Told(task[t].on)
                ELSE {LikeCount(task[t].on)}
PublishScores(t) ==
  /\ At(t, Operations, "publish")
  /\ \E lost \in SUBSET ToPublish(t) :
       /\ sent' = sent \cup (ToPublish(t) \ lost)
       /\ outdated' = outdated \cup lost
  /\ Finish(t)
  /\ UNCHANGED <<review, votes, may, scores, second>>

-----------------------------------------------------------------------------
\* A course's score is computed from the reviews of all its lectures, a
\* lecture's from those of the lectures of its course that share a professor.
Related(l) == {j \in Lectures : CourseOf[j] = CourseOf[l] /\ ProfessorsOf[j] \cap ProfessorsOf[l] # {}}
Sources(m) == IF m[1] = "course" THEN {l \in Lectures : CourseOf[l] = m[2]} ELSE Related(m[2])

Handled(m) == m \in sent /\ sent' = sent \ {m} /\ outdated' = outdated \ {m}
Scored(m)  == [k \in Keys |-> IF k[1] \in Sources(m) THEN Versions[k] ELSE 0]

\* updateScore of server-consumer, for courses and for lectures.
UpdateCourseScore(l) ==
  /\ Handled(CourseScore(l)) /\ scores' = [scores EXCEPT ![CourseScore(l)] = Scored(CourseScore(l))]
  /\ UNCHANGED <<review, votes, may, second, task>>
UpdateLectureScore(l) ==
  /\ Handled(LectureScore(l)) /\ scores' = [scores EXCEPT ![LectureScore(l)] = Scored(LectureScore(l))]
  /\ UNCHANGED <<review, votes, may, second, task>>

\* updateReviewLike; a review that does not exist is never liked.
UpdateReviewLike(k) ==
  /\ Handled(LikeCount(k)) /\ review' = [review EXCEPT ![k].like = Cardinality(votes[k])]
  /\ UNCHANGED <<votes, may, scores, second, task>>

\* An administrator hides a review or shows it again (by hand, in the table).
Hide(k) ==
  /\ Exists(k) /\ review' = [review EXCEPT ![k].hidden = ~@]
  /\ UNCHANGED <<votes, may, scores, sent, outdated, second, task>>

\* A lecture is taken or dropped, a deadline passes.
Permit(k) ==
  /\ may' = IF k \in may THEN may \ {k} ELSE may \cup {k}
  /\ UNCHANGED <<review, votes, scores, sent, outdated, second, task>>

TickReviews ==
  /\ second < MaxSeconds /\ second' = second + 1
  /\ UNCHANGED <<review, votes, may, scores, sent, outdated, task>>

TaskSteps ==
  \E t \in ReviewTasks :
    \/ \E op \in Operations, k \in Keys, u \in Writers : Operate(t, op, k, u)
    \/ Permitted(t) \/ Find(t) \/ Look(t) \/ Insert(t) \/ Update(t)
    \/ LookForVote(t) \/ LookAgain(t) \/ FindVote(t) \/ InsertVote(t) \/ DeleteVote(t)
    \/ PublishScores(t)

ReviewsNext ==
  \/ TaskSteps
  \/ \E l \in Lectures : UpdateCourseScore(l) \/ UpdateLectureScore(l)
  \/ \E k \in Keys : UpdateReviewLike(k) \/ Hide(k) \/ Permit(k)
  \/ TickReviews

ReviewsSpec == ReviewsInit /\ [][ReviewsNext]_reviewVars

-----------------------------------------------------------------------------
ReviewTypes ==
  /\ \A k \in Keys : /\ review[k].id \in 0..Cardinality(Keys) /\ review[k].version \in 0..MaxVersions
                     /\ ~Exists(k) => review[k] = NoReview
                     /\ votes[k] \subseteq Writers
  /\ \A j, k \in Reviewed : review[j].id = review[k].id => j = k
  /\ may \subseteq Keys /\ sent \cup outdated \subseteq Messages
  /\ \A t \in ReviewTasks : task[t].pc # "idle" => task[t].op \in Operations /\ task[t].on \in Keys

\* When no request is handled and no message is left, the scores of the
\* course and of a review's own lecture were computed from what the review
\* says now, and its likes count the votes - unless a message was lost, or
\* the write was one of v1, which sends none; and a lecture without
\* professors has no related reviews, not even its own.  Whatever overlaps,
\* no write is left that only messages from before it were derived for.
CountsCatchUp ==
  /\ ReviewTypes
  /\ (\A t \in ReviewTasks : task[t].pc = "idle") /\ sent = {} =>
       \A k \in Keys :
         /\ \A m \in Told(k) \ outdated : k[1] \in Sources(m) => scores[m][k] = review[k].version
         /\ LikeCount(k) \notin outdated => review[k].like = Cardinality(votes[k])
=============================================================================
