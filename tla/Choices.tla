------------------------------ MODULE Choices ------------------------------
(***************************************************************************)
(* What a user picks: favourite departments (two versions of the request)  *)
(* and the wishlist of lectures.  Requests of one user overlap; statements *)
(* of the repositories are transactions of their own, except where v2      *)
(* opens one.                                                              *)
(***************************************************************************)
EXTENDS Naturals, FiniteSets

CONSTANTS Members,      \* users
          NoMember,
          Departments,  \* departments that exist
          Picks,        \* lists of departments: [ids, twice], twice: with a repetition
          Wishes,       \* lectures
          ChoiceTasks   \* requests being handled at the same time

ASSUME ChoicesAssumption ==
  /\ NoMember \notin Members /\ "favorites" \notin Wishes /\ Wishes \cap Departments = {}

VARIABLES favorites,  \* favorites[u]: session_userprofile_favorite_departments
          hasList,    \* the users with a row in timetable_wishlist
          wished,     \* wished[u]: timetable_wishlist_lectures
          choice,     \* choice[t]: request t
          said,       \* history: what the last request that ran alone left, see below
          unsure      \* history: <<user, subject>> of overlapping requests

choiceVars == <<favorites, hasList, wished, choice, said, unsure>>

\* A request is about the favourites of a user or about one wish.
Subjects == Wishes \cup {"favorites"}
Nothing  == [ids |-> {}, twice |-> FALSE]
NoChoice == [pc |-> "idle", op |-> "none", user |-> NoMember, subject |-> "favorites",
             pick |-> Nothing, alone |-> TRUE]

ChoicesInit ==
  /\ favorites \in [Members -> SUBSET Departments]
  /\ hasList \in SUBSET Members
  /\ wished = [u \in Members |-> {}]
  /\ choice = [t \in ChoiceTasks |-> NoChoice]
  /\ said = [u \in Members |-> favorites[u]]
  /\ unsure = {}

Step(t, pc) == choice' = [choice EXCEPT ![t].pc = pc] /\ UNCHANGED <<said, unsure>>
Doing(t, op, pc) == choice[t].op \in op /\ choice[t].pc = pc
About(t) == <<choice[t].user, choice[t].subject>>

\* The end of a request that succeeded and left `value`, or failed.
Succeed(t, value) ==
  /\ choice' = [choice EXCEPT ![t] = NoChoice]
  /\ IF choice[t].alone
     THEN /\ unsure' = unsure \ {About(t)}
          /\ said' = [said EXCEPT ![choice[t].user] = (@ \ value[1]) \cup value[2]]
     ELSE UNCHANGED <<said, unsure>>
Fail(t) == choice' = [choice EXCEPT ![t] = NoChoice] /\ UNCHANGED <<said, unsure>>

\* Requests of one user about the same subject that overlap are marked.
Choose(t, op, u, subject, pick) ==
  LET others == {s \in ChoiceTasks : choice[s].pc # "idle" /\ About(s) = <<u, subject>>} IN
  /\ choice[t].pc = "idle"
  /\ op \in {"favorites1", "favorites2"} <=> subject = "favorites"
  /\ choice' = [s \in ChoiceTasks |->
       IF s = t THEN [pc |-> CASE op = "favorites1" -> "clear" [] op = "favorites2" -> "check"
                               [] OTHER -> "open",
                      op |-> op, user |-> u, subject |-> subject, pick |-> pick, alone |-> others = {}]
       ELSE [choice[s] EXCEPT !.alone = @ /\ s \notin others]]
  /\ unsure' = IF others = {} THEN unsure ELSE unsure \cup {<<u, subject>>}
  /\ UNCHANGED <<favorites, hasList, wished, said>>

-----------------------------------------------------------------------------
\* changeFavoriteDepartments of v1 removes all, then makes the new ones in
\* one statement, which fails on a repetition, on a department that does
\* not exist, and on one that an overlapping request has made by then.
Clear(t) ==
  /\ Doing(t, {"favorites1"}, "clear")
  /\ favorites' = [favorites EXCEPT ![choice[t].user] = {}]
  /\ Step(t, "fill") /\ UNCHANGED <<hasList, wished>>
Fits(t) == /\ ~choice[t].pick.twice /\ choice[t].pick.ids \subseteq Departments
           /\ choice[t].pick.ids \cap favorites[choice[t].user] = {}
Fill(t) ==
  /\ Doing(t, {"favorites1"}, "fill")
  /\ IF Fits(t)
     THEN /\ favorites' = [favorites EXCEPT ![choice[t].user] = @ \cup choice[t].pick.ids]
          /\ Succeed(t, <<Departments, choice[t].pick.ids>>)
     ELSE UNCHANGED favorites /\ Succeed(t, <<Departments, {}>>)
  /\ UNCHANGED <<hasList, wished>>

\* updateInterestedDepartments of v2 drops repetitions, looks whether the
\* departments exist, and replaces all in a transaction.
CheckDepartments(t) ==
  /\ Doing(t, {"favorites2"}, "check")
  /\ IF choice[t].pick.ids \subseteq Departments THEN Step(t, "replace") ELSE Fail(t)
  /\ UNCHANGED <<favorites, hasList, wished>>
\* Mutant: the former departments stay.
ReplaceAdding(t) ==
  /\ Doing(t, {"favorites2"}, "replace")
  /\ favorites' = [favorites EXCEPT ![choice[t].user] = @ \cup choice[t].pick.ids]
  /\ Succeed(t, <<Departments, choice[t].pick.ids>>)
  /\ UNCHANGED <<hasList, wished>>
Replace(t) ==
  /\ Doing(t, {"favorites2"}, "replace")
  /\ favorites' = [favorites EXCEPT ![choice[t].user] = choice[t].pick.ids]
  /\ Succeed(t, <<Departments, choice[t].pick.ids>>)
  /\ UNCHANGED <<hasList, wished>>

-----------------------------------------------------------------------------
\* getOrCreateWishlist is an upsert: a SELECT, then perhaps an INSERT, which
\* fails if an overlapping request has made the row.
OpenList(t) ==
  /\ Doing(t, {"add", "remove"}, "open")
  /\ Step(t, IF choice[t].user \in hasList THEN "look" ELSE "createList")
  /\ UNCHANGED <<favorites, hasList, wished>>
CreateList(t) ==
  /\ Doing(t, {"add", "remove"}, "createList")
  /\ hasList' = hasList \cup {choice[t].user}
  /\ IF choice[t].user \in hasList THEN Fail(t) ELSE Step(t, "look")
  /\ UNCHANGED <<favorites, wished>>

InList(t) == choice[t].subject \in wished[choice[t].user]

\* getLectureInWishlist: adding what is there, or removing what is not, is
\* refused.
LookInList(t) ==
  /\ Doing(t, {"add", "remove"}, "look")
  /\ IF InList(t) = (choice[t].op = "add") THEN Fail(t)
     ELSE Step(t, IF choice[t].op = "add" THEN "findWish" ELSE "deleteWish")
  /\ UNCHANGED <<favorites, hasList, wished>>

\* addLecture is an upsert; removeLecture fails if the row is gone.
FindWish(t) ==
  /\ Doing(t, {"add"}, "findWish")
  /\ IF InList(t) THEN Succeed(t, <<{}, {choice[t].subject}>>) ELSE Step(t, "insertWish")
  /\ UNCHANGED <<favorites, hasList, wished>>
InsertWish(t) ==
  /\ Doing(t, {"add"}, "insertWish")
  /\ wished' = [wished EXCEPT ![choice[t].user] = @ \cup {choice[t].subject}]
  /\ IF InList(t) THEN Fail(t) ELSE Succeed(t, <<{}, {choice[t].subject}>>)
  /\ UNCHANGED <<favorites, hasList>>
DeleteWish(t) ==
  /\ Doing(t, {"remove"}, "deleteWish")
  /\ wished' = [wished EXCEPT ![choice[t].user] = @ \ {choice[t].subject}]
  /\ IF InList(t) THEN Succeed(t, <<{choice[t].subject}, {}>>) ELSE Fail(t)
  /\ UNCHANGED <<favorites, hasList>>

ChoiceSteps ==
  \E t \in ChoiceTasks :
    \/ \E op \in {"favorites1", "favorites2", "add", "remove"}, u \in Members, s \in Subjects, p \in Picks :
         Choose(t, op, u, s, IF s = "favorites" THEN p ELSE Nothing)
    \/ Clear(t) \/ Fill(t) \/ CheckDepartments(t) \/ Replace(t)
    \/ OpenList(t) \/ CreateList(t) \/ LookInList(t) \/ FindWish(t) \/ InsertWish(t) \/ DeleteWish(t)

-----------------------------------------------------------------------------
ChoiceTypes ==
  /\ favorites \in [Members -> SUBSET Departments] /\ wished \in [Members -> SUBSET Wishes]
  /\ hasList \subseteq Members /\ \A u \in Members : wished[u] # {} => u \in hasList
  /\ unsure \subseteq Members \X Subjects

\* Between requests a user's favourites and wishes are what the last one
\* said that was answered, whatever other users and requests about other
\* lectures do meanwhile.  A request of v1 that fails leaves no favourites;
\* requests about the same subject that overlap leave it unsure until one
\* runs alone.
ChoicesHold ==
  ChoiceTypes /\ \A u \in Members, s \in Subjects :
    (\A t \in ChoiceTasks : choice[t].pc # "idle" => About(t) # <<u, s>>) /\ <<u, s>> \notin unsure =>
      IF s = "favorites" THEN favorites[u] = said[u] \cap Departments
      ELSE s \in wished[u] <=> s \in said[u]
=============================================================================
