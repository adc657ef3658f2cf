-------------------------- MODULE Browsing_proofs --------------------------
(***************************************************************************)
(* What Feeds, Choices, Reviews and Accounts keep, for any users,          *)
(* departments, lectures, days, browsers and requests: what a user has     *)
(* picked is what the last request said that ran alone, what a user was    *)
(* shown for a day is shown again, scores and likes catch up with reviews  *)
(* and votes, and a session is of somebody whose one account is complete.  *)
(***************************************************************************)
EXTENDS Feeds, Reviews, Accounts, FiniteSetTheorems, SequenceTheorems, TLAPS

-----------------------------------------------------------------------------
\* Types, and what a request looked for by the step it has come to.
ChoiceSet ==
  [pc : {"idle", "clear", "fill", "check", "replace", "open", "createList", "look", "findWish",
         "insertWish", "deleteWish"},
   op : {"none", "favorites1", "favorites2", "add", "remove"}, user : Members \cup {NoMember},
   subject : Subjects, pick : Picks \cup {Nothing}, alone : BOOLEAN]
Picked ==
  /\ favorites \in [Members -> SUBSET Departments] /\ wished \in [Members -> SUBSET Wishes]
  /\ hasList \subseteq Members /\ \A u \in Members : wished[u] # {} => u \in hasList
  /\ unsure \subseteq Members \X Subjects
  /\ said \in [Members -> SUBSET (Departments \cup Wishes)]
  /\ choice \in [ChoiceTasks -> ChoiceSet]
  /\ \A t \in ChoiceTasks : choice[t].pc # "idle" => choice[t].user \in Members
Favoring(q) ==
  /\ q.subject = "favorites"
  /\ \/ q.op = "favorites1" /\ q.pc \in {"clear", "fill"}
     \/ q.op = "favorites2" /\ q.pc = "check"
     \/ q.op = "favorites2" /\ q.pc = "replace" /\ q.pick.ids \subseteq Departments
Wishing(q, opened) ==
  /\ q.subject \in Wishes
  /\ \/ q.op \in {"add", "remove"} /\ q.pc \in {"open", "createList"}
     \/ q.op \in {"add", "remove"} /\ q.pc = "look" /\ q.user \in opened
     \/ q.op = "add" /\ q.pc \in {"findWish", "insertWish"} /\ q.user \in opened
     \/ q.op = "remove" /\ q.pc = "deleteWish" /\ q.user \in opened
Asking(q, opened) == q.pc = "idle" \/ Favoring(q) \/ Wishing(q, opened)

\* A subject is as it was said.
Agrees(u, s) == IF s = "favorites" THEN favorites[u] = said[u] \cap Departments
                ELSE s \in wished[u] <=> s \in said[u]
\* A request that is alone knows what it writes on; one that is not has made
\* its subject unsure.
Alone(t) ==
  /\ choice[t].alone /\ \A s \in ChoiceTasks \ {t} : choice[s].pc # "idle" => About(s) # About(t)
  /\ choice[t].pc = "fill" => favorites[choice[t].user] = {}
  /\ choice[t].pc \in {"findWish", "insertWish"} => ~InList(t)
  /\ choice[t].pc = "deleteWish" => InList(t)
  /\ choice[t].pc # "fill" /\ About(t) \notin unsure => Agrees(choice[t].user, choice[t].subject)
Knows(t) == choice[t].pc # "idle" => Alone(t) \/ (~choice[t].alone /\ About(t) \in unsure)
Left(u, s) ==
  (\A t \in ChoiceTasks : choice[t].pc # "idle" => About(t) # <<u, s>>) /\ <<u, s>> \notin unsure => Agrees(u, s)
ChoiceInv ==
  /\ Picked
  /\ \A t \in ChoiceTasks : Asking(choice[t], hasList) /\ Knows(t)
  /\ \A u \in Members, s \in Subjects : Left(u, s)

-----------------------------------------------------------------------------
LEMMA NoChoiceTyped == NoChoice \in ChoiceSet /\ NoChoice.pc = "idle"
BY DEF NoChoice, ChoiceSet, Subjects, Nothing

\* Step t about u and s leaves what other requests and users know.
Same(u, s) ==
  /\ s = "favorites" => favorites'[u] = favorites[u] /\ said'[u] \cap Departments = said[u] \cap Departments
  /\ s # "favorites" => (s \in wished'[u] <=> s \in wished[u]) /\ (s \in said'[u] <=> s \in said[u])

Elsewhere(v, o) == \A u \in Members, s \in Subjects : <<u, s>> # <<v, o>> => Same(u, s)
With(f, x, value) == [f EXCEPT ![x] = value]

LEMMA SameAgrees ==
  ASSUME NEW u, NEW s, Same(u, s) PROVE Agrees(u, s)' <=> Agrees(u, s)
BY DEF Same, Agrees

\* A step of request t keeps the invariant, if it keeps the types, touches
\* nothing but its own subject, and leaves that subject as the request is then
\* to know it - or as it says, when it ends.
LEMMA RequestStep ==
  ASSUME ChoiceInv, Picked', NEW t \in ChoiceTasks, choice[t].pc # "idle", NEW q,
         NEW v \in Members, NEW o \in Subjects, choice[t].user = v, choice[t].subject = o,
         choice' = With(choice, t, q),
         q.pc # "idle" => q.user = v /\ q.subject = o /\ q.alone = choice[t].alone,
         hasList \subseteq hasList', Asking(q, hasList'),
         Elsewhere(v, o),
         unsure' = unsure \/ (choice[t].alone /\ unsure' = unsure \ {<<v, o>>}),
         choice[t].alone /\ q.pc # "idle" =>
           /\ q.pc = "fill" => favorites'[v] = {}
           /\ q.pc \in {"findWish", "insertWish"} => o \notin wished'[v]
           /\ q.pc = "deleteWish" => o \in wished'[v],
         choice[t].alone /\ q.pc # "fill" /\ <<v, o>> \notin unsure' => Agrees(v, o)'
  PROVE  ChoiceInv'
<1>1. choice'[t] = q /\ \A s \in ChoiceTasks \ {t} : choice'[s] = choice[s]
  BY DEF ChoiceInv, Picked, With
<1>2. About(t) = <<v, o>> /\ \A s \in ChoiceTasks : choice[s].pc # "idle" => About(s) \in Members \X Subjects
  BY DEF ChoiceInv, Picked, ChoiceSet, About
<1>3. \A s \in ChoiceTasks \ {t} : About(s)' = About(s)
  BY <1>1 DEF About
<1>4. q.pc # "idle" => About(t)' = About(t) /\ choice'[t].alone = choice[t].alone
  BY <1>1 DEF ChoiceInv, Picked, ChoiceSet, About
<1>5. ~choice[t].alone => About(t) \in unsure /\ unsure' = unsure
  BY DEF ChoiceInv, Knows, Alone
<1>6. choice[t].alone => \A s \in ChoiceTasks \ {t} : choice[s].pc # "idle" => About(s) # About(t)
  BY DEF ChoiceInv, Knows, Alone
<1>7. \A w : w # About(t) => (w \in unsure' <=> w \in unsure)
  BY <1>2
<1>8. ASSUME NEW s \in ChoiceTasks PROVE Asking(choice'[s], hasList')
  <2>1. CASE s = t
    BY <1>1, <2>1
  <2>2. CASE s # t
    BY <1>1, <2>2 DEF ChoiceInv, Asking, Wishing
  <2> QED
    BY <2>1, <2>2
<1>9. ASSUME NEW s \in ChoiceTasks, s # t, choice[s].pc # "idle" PROVE Knows(s)'
  <2>1. choice'[s] = choice[s] /\ About(s)' = About(s) /\ About(s) \in Members \X Subjects
    BY <1>1, <1>2, <1>3, <1>9
  <2>2. CASE ~choice[s].alone
    <3>1. About(s) \in unsure
      BY <1>9, <2>2 DEF ChoiceInv, Knows, Alone
    <3>2. About(s) \in unsure'
      BY <1>5, <1>6, <1>7, <1>9, <3>1
    <3> QED
      BY <2>1, <2>2, <3>2 DEF Knows
  <2>3. CASE choice[s].alone
    <3>1. PICK u \in Members, w \in Subjects : choice[s].user = u /\ choice[s].subject = w
      BY <1>9 DEF ChoiceInv, Picked, ChoiceSet
    <3>2. About(s) = <<u, w>> /\ Alone(s)
      BY <1>9, <2>3, <3>1 DEF About, ChoiceInv, Knows
    <3>3. <<u, w>> # <<v, o>> /\ Same(u, w)
      <4>1. t \in ChoiceTasks \ {s}
        BY <1>9
      <4>2. About(t) # About(s)
        BY <3>2, <4>1 DEF Alone
      <4>3. <<u, w>> # <<v, o>>
        BY <1>2, <3>2, <4>2
      <4> QED
        BY <3>1, <4>3 DEF Elsewhere
    <3>4. \A r \in ChoiceTasks \ {s} : choice'[r].pc # "idle" => About(r)' # About(s)'
      BY <1>1, <1>2, <1>3, <1>4, <2>1, <3>2, <3>3 DEF Alone
    <3>5. /\ choice[s].pc = "fill" => w = "favorites"
          /\ choice[s].pc \in {"findWish", "insertWish", "deleteWish"} => w \in Wishes
      BY <3>1 DEF ChoiceInv, Asking, Favoring, Wishing
    <3>6. choice[s].pc = "fill" => favorites'[u] = {}
      BY <3>1, <3>2, <3>3, <3>5 DEF Alone, Same
    <3>7. choice[s].pc \in {"findWish", "insertWish", "deleteWish"} => (w \in wished'[u] <=> w \in wished[u])
      BY <3>3, <3>5, ChoicesAssumption DEF Same
    <3>8. <<u, w>> \notin unsure' /\ choice[s].pc # "fill" => Agrees(u, w)'
      <4>1. <<u, w>> \notin unsure' => <<u, w>> \notin unsure
        BY <1>2, <1>7, <3>3
      <4>2. <<u, w>> \notin unsure /\ choice[s].pc # "fill" => Agrees(u, w)
        BY <3>1, <3>2 DEF Alone
      <4> QED
        BY <3>3, <4>1, <4>2, SameAgrees
    <3>9. About(s)' = <<u, w>> /\ choice'[s].user = u /\ choice'[s].subject = w
      BY <2>1, <3>1, <3>2
    <3>10. /\ choice'[s].alone
           /\ choice'[s].pc = "fill" => favorites'[choice'[s].user] = {}
           /\ choice'[s].pc \in {"findWish", "insertWish"} => ~InList(s)'
           /\ choice'[s].pc = "deleteWish" => InList(s)'
      BY <2>1, <2>3, <3>1, <3>2, <3>6, <3>7, <3>9 DEF Alone, InList
    <3>11. choice'[s].pc # "fill" /\ About(s)' \notin unsure' => Agrees(choice[s].user, choice[s].subject)'
      BY <2>1, <3>8, <3>9
    <3> QED
      BY <3>4, <3>10, <3>11 DEF Knows, Alone
  <2> QED
    BY <1>9, <2>2, <2>3 DEF ChoiceInv, Knows
<1>10. Knows(t)'
  <2>1. CASE q.pc = "idle"
    BY <1>1, <2>1 DEF Knows
  <2>2. CASE q.pc # "idle" /\ ~choice[t].alone
    BY <1>1, <1>4, <1>5, <2>2 DEF Knows
  <2>3. CASE q.pc # "idle" /\ choice[t].alone
    <3>1. choice'[t] = q /\ q.user = v /\ q.subject = o /\ q.alone /\ About(t)' = <<v, o>>
      BY <1>1, <1>2, <1>4, <2>3
    <3>2. \A r \in ChoiceTasks \ {t} : choice'[r].pc # "idle" => About(r)' # About(t)'
      BY <1>1, <1>2, <1>3, <1>6, <2>3, <3>1
    <3>3. /\ choice'[t].alone
          /\ choice'[t].pc = "fill" => favorites'[choice'[t].user] = {}
          /\ choice'[t].pc \in {"findWish", "insertWish"} => ~InList(t)'
          /\ choice'[t].pc = "deleteWish" => InList(t)'
      BY <2>3, <3>1 DEF InList
    <3>4. choice'[t].pc # "fill" /\ About(t)' \notin unsure' => Agrees(choice[t].user, choice[t].subject)'
      BY <2>3, <3>1
    <3> QED
      BY <3>2, <3>3, <3>4 DEF Knows, Alone
  <2> QED
    BY <2>1, <2>2, <2>3
<1>11. ASSUME NEW u \in Members, NEW s \in Subjects,
              \A r \in ChoiceTasks : choice'[r].pc # "idle" => About(r)' # <<u, s>>, <<u, s>> \notin unsure'
       PROVE  Agrees(u, s)'
  <2>1. CASE <<u, s>> = About(t)
    <3>1. u = v /\ s = o /\ q.pc = "idle"
      BY <1>1, <1>2, <1>4, <1>11, <2>1
    <3>2. choice[t].alone
      BY <1>2, <1>5, <1>11, <2>1
    <3> QED
      BY <1>11, <3>1, <3>2
  <2>2. CASE <<u, s>> # About(t)
    <3>1. \A r \in ChoiceTasks : choice[r].pc # "idle" => About(r) # <<u, s>>
      BY <1>1, <1>3, <1>11, <2>2
    <3>2. Agrees(u, s)
      BY <1>2, <1>7, <1>11, <2>2, <3>1 DEF ChoiceInv, Left
    <3> QED
      BY <1>2, <1>11, <2>2, <3>2, SameAgrees DEF Elsewhere
  <2> QED
    BY <2>1, <2>2
<1>12. ASSUME NEW u \in Members, NEW s \in Subjects PROVE Left(u, s)'
  BY <1>11 DEF Left
<1>13. ASSUME NEW s \in ChoiceTasks PROVE Knows(s)'
  <2>1. CASE s # t /\ choice[s].pc = "idle"
    BY <1>1, <2>1 DEF Knows
  <2> QED
    BY <1>9, <1>10, <2>1
<1> QED
  BY <1>8, <1>12, <1>13 DEF ChoiceInv

-----------------------------------------------------------------------------
\* The same with what becomes of the favourites F, the wishes W and the words
\* S of the user of t.
LEMMA PickStep ==
  ASSUME ChoiceInv, NEW t \in ChoiceTasks, choice[t].pc # "idle", NEW q \in ChoiceSet,
         NEW v \in Members, NEW o \in Subjects, choice[t].user = v, choice[t].subject = o,
         NEW F \in SUBSET Departments, NEW W \in SUBSET Wishes, NEW S \in SUBSET (Departments \cup Wishes),
         favorites' = With(favorites, v, F), wished' = With(wished, v, W),
         said' = With(said, v, S), choice' = With(choice, t, q),
         hasList' = hasList \/ hasList' = hasList \cup {v}, W # {} => v \in hasList',
         unsure' = unsure \/ (choice[t].alone /\ unsure' = unsure \ {<<v, o>>}),
         q.pc # "idle" => q.user = v /\ q.subject = o /\ q.alone = choice[t].alone,
         Asking(q, hasList'),
         o = "favorites" => W = wished[v] /\ \A s \in Wishes : s \in S <=> s \in said[v],
         o # "favorites" => /\ F = favorites[v] /\ S \cap Departments = said[v] \cap Departments
                            /\ \A s \in Wishes \ {o} : (s \in W <=> s \in wished[v]) /\ (s \in S <=> s \in said[v]),
         choice[t].alone /\ q.pc = "fill" => F = {},
         choice[t].alone /\ q.pc \in {"findWish", "insertWish"} => o \notin W,
         choice[t].alone /\ q.pc = "deleteWish" => o \in W,
         choice[t].alone /\ q.pc # "fill" /\ <<v, o>> \notin unsure' =>
           IF o = "favorites" THEN F = S \cap Departments ELSE o \in W <=> o \in S
  PROVE  ChoiceInv'
<1>1. /\ favorites'[v] = F /\ wished'[v] = W /\ said'[v] = S
      /\ \A u \in Members \ {v} : favorites'[u] = favorites[u] /\ wished'[u] = wished[u] /\ said'[u] = said[u]
  BY DEF ChoiceInv, Picked, With
<1>2. Picked'
  <2>1. favorites' \in [Members -> SUBSET Departments] /\ wished' \in [Members -> SUBSET Wishes]
    BY DEF ChoiceInv, Picked, With
  <2>2. hasList' \subseteq Members /\ unsure' \subseteq Members \X Subjects
    BY DEF ChoiceInv, Picked
  <2>3. \A u \in Members : wished'[u] # {} => u \in hasList'
    BY <1>1 DEF ChoiceInv, Picked
  <2>4. said' \in [Members -> SUBSET (Departments \cup Wishes)] /\ choice' \in [ChoiceTasks -> ChoiceSet]
    BY DEF ChoiceInv, Picked, With
  <2>5. \A s \in ChoiceTasks : choice'[s].pc # "idle" => choice'[s].user \in Members
    BY DEF ChoiceInv, Picked, With
  <2> QED
    BY <2>1, <2>2, <2>3, <2>4, <2>5 DEF Picked
<1>3. ASSUME NEW u \in Members, NEW s \in Subjects, <<u, s>> # <<v, o>> PROVE Same(u, s)
  <2>1. CASE u # v
    BY <1>1, <2>1 DEF Same
  <2>2. CASE u = v /\ s # o /\ o = "favorites"
    BY <1>1, <2>2, ChoicesAssumption DEF Same, Subjects
  <2>3. CASE u = v /\ s # o /\ o # "favorites"
    BY <1>1, <2>3, ChoicesAssumption DEF Same, Subjects
  <2> QED
    BY <1>3, <2>1, <2>2, <2>3
<1>4. choice[t].alone /\ q.pc # "fill" /\ <<v, o>> \notin unsure' => Agrees(v, o)'
  BY <1>1 DEF Agrees
<1>5. hasList \subseteq hasList'
  OBVIOUS
<1>6. choice[t].alone /\ q.pc # "idle" =>
        /\ q.pc = "fill" => favorites'[v] = {}
        /\ q.pc \in {"findWish", "insertWish"} => o \notin wished'[v]
        /\ q.pc = "deleteWish" => o \in wished'[v]
  BY <1>1
<1>7. Elsewhere(v, o)
  BY <1>3 DEF Elsewhere
<1> QED
  BY <1>2, <1>4, <1>5, <1>6, <1>7, RequestStep

\* A step that changes nothing but the request, or ends it, is one of those.
LEMMA OwnStep ==
  ASSUME ChoiceInv, NEW t \in ChoiceTasks, choice[t].pc # "idle", NEW q \in ChoiceSet,
         NEW v \in Members, NEW o \in Subjects, choice[t].user = v, choice[t].subject = o,
         choice' = With(choice, t, q), UNCHANGED <<favorites, wished, said, unsure>>,
         hasList' = hasList \/ hasList' = hasList \cup {v},
         q.pc # "idle" => q.user = v /\ q.subject = o /\ q.alone = choice[t].alone,
         Asking(q, hasList'), choice[t].pc # "fill", q.pc # "fill",
         choice[t].alone /\ q.pc \in {"findWish", "insertWish"} => o \notin wished[v],
         choice[t].alone /\ q.pc = "deleteWish" => o \in wished[v]
  PROVE  ChoiceInv'
<1>1. /\ favorites' = With(favorites, v, favorites[v]) /\ wished' = With(wished, v, wished[v])
      /\ said' = With(said, v, said[v])
      /\ favorites[v] \in SUBSET Departments /\ wished[v] \in SUBSET Wishes
      /\ said[v] \in SUBSET (Departments \cup Wishes) /\ (wished[v] # {} => v \in hasList')
  BY DEF ChoiceInv, Picked, With
<1>2. choice[t].alone /\ <<v, o>> \notin unsure =>
        IF o = "favorites" THEN favorites[v] = said[v] \cap Departments ELSE o \in wished[v] <=> o \in said[v]
  BY DEF ChoiceInv, Knows, Alone, Agrees, About
<1>3. unsure' = unsure
  OBVIOUS
<1> HIDE DEF ChoiceSet
<1> QED
  BY <1>1, <1>2, <1>3, PickStep

-----------------------------------------------------------------------------
LEMMA Moving ==
  ASSUME Picked, NEW t \in ChoiceTasks, NEW pc, Step(t, pc),
         pc \in {"fill", "replace", "createList", "look", "findWish", "insertWish", "deleteWish"}
  PROVE  \E q \in ChoiceSet :
           /\ choice' = With(choice, t, q) /\ q.pc = pc /\ q.op = choice[t].op /\ q.user = choice[t].user
           /\ q.subject = choice[t].subject /\ q.pick = choice[t].pick /\ q.alone = choice[t].alone
<1> DEFINE q == [choice[t] EXCEPT !.pc = pc]
<1>1. choice[t] \in ChoiceSet
  BY DEF Picked
<1>2. /\ q \in ChoiceSet /\ q.pc = pc /\ q.op = choice[t].op /\ q.user = choice[t].user
      /\ q.subject = choice[t].subject /\ q.pick = choice[t].pick /\ q.alone = choice[t].alone
  BY <1>1 DEF ChoiceSet
<1>3. choice' = With(choice, t, q)
  BY DEF With, Step
<1> QED
  BY <1>2, <1>3

\* Ends of requests: what is said becomes S.
LEMMA Ending ==
  ASSUME Picked, NEW t \in ChoiceTasks, NEW v \in Members, NEW o \in Subjects, choice[t].user = v, choice[t].subject = o,
         NEW D, NEW A \in SUBSET (Departments \cup Wishes), Succeed(t, <<D, A>>)
  PROVE  /\ choice' = With(choice, t, NoChoice)
         /\ \E S \in SUBSET (Departments \cup Wishes) :
              /\ said' = With(said, v, S)
              /\ IF choice[t].alone THEN S = (said[v] \ D) \cup A /\ unsure' = unsure \ {<<v, o>>}
                 ELSE S = said[v] /\ unsure' = unsure
<1>1. choice' = With(choice, t, NoChoice)
  BY DEF Succeed, With
<1>2. said[v] \in SUBSET (Departments \cup Wishes) /\ said = With(said, v, said[v])
  BY DEF Picked, With
<1>3. CASE choice[t].alone
  <2> DEFINE S == (said[v] \ D) \cup A
  <2>1. said' = With(said, v, S) /\ unsure' = unsure \ {<<v, o>>}
    BY <1>3 DEF Succeed, With, About
  <2>2. S \in SUBSET (Departments \cup Wishes)
    BY <1>2
  <2> QED
    BY <1>1, <1>3, <2>1, <2>2
<1>4. CASE ~choice[t].alone
  BY <1>1, <1>2, <1>4 DEF Succeed
<1> QED
  BY <1>3, <1>4

\* What an active request is about and knows, in short.
LEMMA Active ==
  ASSUME ChoiceInv, NEW t \in ChoiceTasks, choice[t].pc # "idle"
  PROVE  \E v \in Members, o \in Subjects :
           /\ choice[t].user = v /\ choice[t].subject = o /\ choice[t] \in ChoiceSet
           /\ Asking(choice[t], hasList) /\ (InList(t) <=> o \in wished[v])
           /\ choice[t].alone =>
                /\ choice[t].pc = "fill" => favorites[v] = {}
                /\ choice[t].pc \in {"findWish", "insertWish"} => o \notin wished[v]
                /\ choice[t].pc = "deleteWish" => o \in wished[v]
<1>1. choice[t] \in ChoiceSet /\ choice[t].user \in Members /\ choice[t].subject \in Subjects
  BY DEF ChoiceInv, Picked, ChoiceSet
<1>2. Asking(choice[t], hasList) /\ (choice[t].alone => Alone(t))
  BY DEF ChoiceInv, Knows
<1> HIDE DEF ChoiceSet
<1> QED
  BY <1>1, <1>2 DEF Alone, InList

LEMMA FavoritesStep ==
  ASSUME ChoiceInv, NEW t \in ChoiceTasks, Clear(t) \/ Fill(t) \/ CheckDepartments(t) \/ Replace(t)
  PROVE  ChoiceInv'
<1>1. choice[t].pc # "idle" /\ Picked
  BY DEF ChoiceInv, Clear, Fill, CheckDepartments, Replace, Doing
<1>2. PICK v \in Members, o \in Subjects :
           /\ choice[t].user = v /\ choice[t].subject = o /\ choice[t] \in ChoiceSet
           /\ Asking(choice[t], hasList) /\ (InList(t) <=> o \in wished[v])
           /\ choice[t].alone => (choice[t].pc = "fill" => favorites[v] = {})
  BY <1>1, Active
<1>3. NoChoice \in ChoiceSet /\ NoChoice.pc = "idle" /\ Asking(NoChoice, hasList')
  BY NoChoiceTyped DEF Asking
<1>4. /\ favorites[v] \in SUBSET Departments /\ wished[v] \in SUBSET Wishes
      /\ said[v] \in SUBSET (Departments \cup Wishes) /\ (wished[v] # {} => v \in hasList)
      /\ wished = With(wished, v, wished[v]) /\ said = With(said, v, said[v])
      /\ favorites = With(favorites, v, favorites[v])
  BY <1>1 DEF Picked, With
<1>5. o = "favorites" /\ hasList' = hasList
  <2>1. choice[t].op \in {"favorites1", "favorites2"} /\ choice[t].pc \in {"clear", "fill", "check", "replace"}
    BY DEF Clear, Fill, CheckDepartments, Replace, Doing
  <2>2. Favoring(choice[t])
    BY <1>2, <2>1 DEF Asking, Wishing
  <2> QED
    BY <1>2, <2>2 DEF Favoring, Clear, Fill, CheckDepartments, Replace
<1>6. CASE Clear(t)
  <2>1. Step(t, "fill") /\ UNCHANGED <<said, unsure, wished>>
        /\ choice[t].op = "favorites1"
    BY <1>6 DEF Clear, Step, Doing
  <2>2. PICK q \in ChoiceSet :
           /\ choice' = With(choice, t, q) /\ q.pc = "fill" /\ q.op = choice[t].op /\ q.user = choice[t].user
           /\ q.subject = choice[t].subject /\ q.alone = choice[t].alone
    BY <1>1, <2>1, Moving
  <2>3. Asking(q, hasList')
    BY <1>2, <1>5, <2>1, <2>2 DEF Asking, Favoring
  <2>4. favorites' = With(favorites, v, {})
    BY <1>2, <1>6 DEF Clear, With
  <2>5. wished' = With(wished, v, wished[v]) /\ said' = With(said, v, said[v]) /\ unsure' = unsure
    BY <1>4, <2>1
  <2>6. q.user = v /\ q.subject = o
    BY <1>2, <2>2
  <2>7. {} \in SUBSET Departments
    OBVIOUS
  <2> HIDE DEF ChoiceSet
  <2> QED
    BY <1>1, <1>2, <1>4, <1>5, <2>2, <2>3, <2>4, <2>5, <2>6, <2>7, PickStep
<1>7. CASE Fill(t)
  <2> DEFINE ids == choice[t].pick.ids
  <2>1. PICK A \in SUBSET Departments :
          /\ favorites' = With(favorites, v, favorites[v] \cup A) /\ Succeed(t, <<Departments, A>>)
    <3>1. CASE Fits(t)
      BY <1>2, <1>7, <3>1 DEF Fill, Fits, With
    <3>2. CASE ~Fits(t)
      <4>1. favorites' = favorites /\ Succeed(t, <<Departments, {}>>) /\ favorites[v] \cup {} = favorites[v]
        BY <1>7, <3>2 DEF Fill
      <4> QED
        BY <1>4, <4>1
    <3> QED
      BY <3>1, <3>2
  <2>2. wished' = With(wished, v, wished[v]) /\ choice[t].pc = "fill"
    BY <1>4, <1>7 DEF Fill, Doing
  <2>3. /\ choice' = With(choice, t, NoChoice)
        /\ \E S \in SUBSET (Departments \cup Wishes) :
              /\ said' = With(said, v, S)
              /\ IF choice[t].alone THEN S = (said[v] \ Departments) \cup A /\ unsure' = unsure \ {<<v, o>>}
                 ELSE S = said[v] /\ unsure' = unsure
    BY <1>1, <1>2, <2>1, Ending
  <2>4. PICK S \in SUBSET (Departments \cup Wishes) :
              /\ said' = With(said, v, S)
              /\ IF choice[t].alone THEN S = (said[v] \ Departments) \cup A /\ unsure' = unsure \ {<<v, o>>}
                 ELSE S = said[v] /\ unsure' = unsure
    BY <2>3
  <2> DEFINE F == favorites[v] \cup A
  <2>5. F \in SUBSET Departments /\ (\A s \in Wishes : s \in S <=> s \in said[v])
        /\ (choice[t].alone => F = S \cap Departments)
    BY <1>2, <1>4, <2>2, <2>4, ChoicesAssumption
  <2>6. unsure' = unsure \/ (choice[t].alone /\ unsure' = unsure \ {<<v, o>>})
    BY <2>4
  <2> HIDE DEF ChoiceSet, F
  <2> QED
    <3>1. choice' = With(choice, t, NoChoice) /\ said' = With(said, v, S) /\ favorites' = With(favorites, v, F)
          /\ wished' = With(wished, v, wished[v])
      BY <2>1, <2>2, <2>3, <2>4 DEF F
    <3>2. choice[t].alone => (IF o = "favorites" THEN F = S \cap Departments ELSE o \in wished[v] <=> o \in S)
      BY <1>5, <2>5
    <3>3. choice[t].user = v /\ choice[t].subject = o /\ choice[t].pc # "idle"
      BY <1>1, <1>2
    <3>4. wished[v] \in SUBSET Wishes /\ (wished[v] # {} => v \in hasList') /\ F \in SUBSET Departments
      BY <1>4, <1>5, <2>1, <2>5
    <3> HIDE DEF NoChoice
    <3> QED
      BY <1>3, <1>5, <2>5, <2>6, <3>1, <3>2, <3>3, <3>4, PickStep
<1>8. CASE CheckDepartments(t)
  <2>1. UNCHANGED <<favorites, wished, said, unsure>> /\ choice[t].op = "favorites2" /\ choice[t].pc = "check"
    BY <1>8 DEF CheckDepartments, Step, Fail, Doing
  <2>2. CASE choice[t].pick.ids \subseteq Departments
    <3>1. Step(t, "replace")
      BY <1>8, <2>2 DEF CheckDepartments
    <3>2. PICK q \in ChoiceSet :
           /\ choice' = With(choice, t, q) /\ q.pc = "replace" /\ q.op = choice[t].op /\ q.user = choice[t].user
           /\ q.subject = choice[t].subject /\ q.pick = choice[t].pick /\ q.alone = choice[t].alone
      BY <1>1, <3>1, Moving
    <3>3. Asking(q, hasList')
      BY <1>2, <1>5, <2>1, <2>2, <3>2 DEF Asking, Favoring
    <3> HIDE DEF ChoiceSet
    <3> QED
      BY <1>1, <1>2, <1>5, <2>1, <3>2, <3>3, OwnStep
  <2>3. CASE ~(choice[t].pick.ids \subseteq Departments)
    <3>1. choice' = With(choice, t, NoChoice)
      BY <1>8, <2>3 DEF CheckDepartments, Fail, With
    <3> HIDE DEF ChoiceSet, NoChoice
    <3> QED
      BY <1>1, <1>2, <1>3, <1>5, <2>1, <3>1, OwnStep
  <2> QED
    BY <2>2, <2>3
<1>9. CASE Replace(t)
  <2> DEFINE F == choice[t].pick.ids
  <2>1. F \in SUBSET Departments
    BY <1>2, <1>9 DEF Replace, Doing, Asking, Favoring, Wishing
  <2>2. /\ favorites' = With(favorites, v, F) /\ Succeed(t, <<Departments, F>>)
        /\ wished' = With(wished, v, wished[v]) /\ choice[t].pc = "replace"
    BY <1>2, <1>4, <1>9 DEF Replace, With, Doing
  <2>3. /\ choice' = With(choice, t, NoChoice)
        /\ \E S \in SUBSET (Departments \cup Wishes) :
              /\ said' = With(said, v, S)
              /\ IF choice[t].alone THEN S = (said[v] \ Departments) \cup F /\ unsure' = unsure \ {<<v, o>>}
                 ELSE S = said[v] /\ unsure' = unsure
    BY <1>1, <1>2, <2>1, <2>2, Ending
  <2>4. PICK S \in SUBSET (Departments \cup Wishes) :
              /\ said' = With(said, v, S)
              /\ IF choice[t].alone THEN S = (said[v] \ Departments) \cup F /\ unsure' = unsure \ {<<v, o>>}
                 ELSE S = said[v] /\ unsure' = unsure
    BY <2>3
  <2>5. (\A s \in Wishes : s \in S <=> s \in said[v]) /\ (choice[t].alone => F = S \cap Departments)
    BY <1>4, <2>1, <2>4, ChoicesAssumption
  <2>6. unsure' = unsure \/ (choice[t].alone /\ unsure' = unsure \ {<<v, o>>})
    BY <2>4
  <2> HIDE DEF ChoiceSet, F
  <2> QED
    <3>1. choice' = With(choice, t, NoChoice) /\ said' = With(said, v, S) /\ favorites' = With(favorites, v, F)
          /\ wished' = With(wished, v, wished[v])
      BY <2>1, <2>2, <2>3, <2>4
    <3>2. choice[t].alone => (IF o = "favorites" THEN F = S \cap Departments ELSE o \in wished[v] <=> o \in S)
      BY <1>5, <2>5
    <3>3. choice[t].user = v /\ choice[t].subject = o /\ choice[t].pc # "idle"
      BY <1>1, <1>2
    <3>4. wished[v] \in SUBSET Wishes /\ (wished[v] # {} => v \in hasList') /\ F \in SUBSET Departments
      BY <1>4, <1>5, <2>1, <2>5
    <3> HIDE DEF NoChoice
    <3> QED
      BY <1>3, <1>5, <2>5, <2>6, <3>1, <3>2, <3>3, <3>4, PickStep
<1> QED
  BY <1>6, <1>7, <1>8, <1>9

LEMMA EndOfWish ==
  ASSUME ChoiceInv, NEW t \in ChoiceTasks, choice[t].pc # "idle",
         NEW q \in ChoiceSet, q.pc = "idle", Asking(q, hasList'),
         NEW v \in Members, NEW o \in Subjects, choice[t].user = v, choice[t].subject = o,
         NEW F \in SUBSET Departments, NEW W \in SUBSET Wishes, NEW S \in SUBSET (Departments \cup Wishes),
         favorites' = With(favorites, v, F), wished' = With(wished, v, W),
         said' = With(said, v, S), choice' = With(choice, t, q), hasList' = hasList, W # {} => v \in hasList',
         unsure' = unsure \/ (choice[t].alone /\ unsure' = unsure \ {<<v, o>>}), o # "favorites",
         F = favorites[v], S \cap Departments = said[v] \cap Departments,
         \A s \in Wishes \ {o} : (s \in W <=> s \in wished[v]) /\ (s \in S <=> s \in said[v]),
         choice[t].alone => (o \in W <=> o \in S)
  PROVE  ChoiceInv'
<1> HIDE DEF ChoiceSet
<1> QED
  BY PickStep

\* A request about a wish that succeeds, or fails, as it changes the list.
LEMMA WishEnds ==
  ASSUME ChoiceInv, NEW t \in ChoiceTasks, choice[t].pc # "idle", choice[t].pc # "fill",
         NEW v \in Members, NEW o \in Wishes, choice[t].user = v, choice[t].subject = o,
         NEW W \in SUBSET Wishes, wished' = With(wished, v, W), UNCHANGED <<favorites, hasList>>,
         W # {} => v \in hasList, \A s \in Wishes \ {o} : s \in W <=> s \in wished[v],
         NEW D \in SUBSET {o}, NEW A \in SUBSET {o}, Succeed(t, <<D, A>>) \/ Fail(t),
         choice[t].alone => Succeed(t, <<D, A>>), o \in W <=> o \in A, o \notin A => o \in D
  PROVE  ChoiceInv'
<1>1. NoChoice \in ChoiceSet /\ NoChoice.pc = "idle" /\ Asking(NoChoice, hasList')
  BY NoChoiceTyped DEF Asking
<1>2. /\ favorites[v] \in SUBSET Departments /\ Picked /\ o \in Subjects /\ o # "favorites" /\ o \notin Departments
      /\ said[v] \in SUBSET (Departments \cup Wishes) /\ said = With(said, v, said[v])
      /\ favorites = With(favorites, v, favorites[v])
  BY ChoicesAssumption DEF ChoiceInv, Picked, With, Subjects
<1>3. /\ choice' = With(choice, t, NoChoice)
      /\ \E S \in SUBSET (Departments \cup Wishes) :
           /\ said' = With(said, v, S)
           /\ IF choice[t].alone THEN S = (said[v] \ D) \cup A /\ unsure' = unsure \ {<<v, o>>}
              ELSE S = said[v] /\ unsure' = unsure
  <2>1. CASE Succeed(t, <<D, A>>)
    <3>1. A \in SUBSET (Departments \cup Wishes)
      OBVIOUS
    <3> QED
      BY <1>2, <2>1, <3>1, Ending
  <2>2. CASE Fail(t) /\ ~choice[t].alone
    BY <1>2, <2>2 DEF Fail, With
  <2> QED
    BY <2>1, <2>2
<1>4. PICK S \in SUBSET (Departments \cup Wishes) :
        /\ said' = With(said, v, S)
        /\ IF choice[t].alone THEN S = (said[v] \ D) \cup A /\ unsure' = unsure \ {<<v, o>>}
           ELSE S = said[v] /\ unsure' = unsure
  BY <1>3
<1>5. S \cap Departments = said[v] \cap Departments
  BY <1>2, <1>4
<1>6. \A s \in Wishes \ {o} : (s \in W <=> s \in wished[v]) /\ (s \in S <=> s \in said[v])
  BY <1>4
<1>7. choice[t].alone => (o \in W <=> o \in S)
  BY <1>4
<1>8. unsure' = unsure \/ (choice[t].alone /\ unsure' = unsure \ {<<v, o>>})
  BY <1>4
<1>9. PICK F \in SUBSET Departments : F = favorites[v]
  BY <1>2
<1>10. PICK q \in ChoiceSet : q = NoChoice
  BY <1>1
<1>11. /\ favorites' = With(favorites, v, F) /\ choice' = With(choice, t, q) /\ said' = With(said, v, S)
       /\ hasList' = hasList /\ q.pc = "idle" /\ Asking(q, hasList') /\ (W # {} => v \in hasList')
  BY <1>1, <1>2, <1>3, <1>4, <1>9, <1>10
<1> HIDE DEF NoChoice, ChoiceSet
<1> QED
  BY <1>2, <1>5, <1>6, <1>7, <1>8, <1>9, <1>11, EndOfWish

LEMMA WishStep ==
  ASSUME ChoiceInv, NEW t \in ChoiceTasks,
         OpenList(t) \/ CreateList(t) \/ LookInList(t) \/ FindWish(t) \/ InsertWish(t) \/ DeleteWish(t)
  PROVE  ChoiceInv'
<1>1. choice[t].pc \notin {"idle", "fill"} /\ Picked
  BY DEF ChoiceInv, OpenList, CreateList, LookInList, FindWish, InsertWish, DeleteWish, Doing
<1>2. PICK v \in Members, o \in Subjects :
           /\ choice[t].user = v /\ choice[t].subject = o /\ choice[t] \in ChoiceSet
           /\ Asking(choice[t], hasList) /\ (InList(t) <=> o \in wished[v])
           /\ choice[t].alone =>
                /\ choice[t].pc \in {"findWish", "insertWish"} => o \notin wished[v]
                /\ choice[t].pc = "deleteWish" => o \in wished[v]
  BY <1>1, Active
<1>3. NoChoice \in ChoiceSet /\ NoChoice.pc = "idle" /\ Asking(NoChoice, hasList')
  BY NoChoiceTyped DEF Asking
<1>4. wished[v] \in SUBSET Wishes /\ (wished[v] # {} => v \in hasList) /\ wished = With(wished, v, wished[v])
  BY <1>1 DEF Picked, With
<1>5. o \in Wishes /\ Wishing(choice[t], hasList)
  <2>1. choice[t].op \in {"add", "remove"}
    BY DEF OpenList, CreateList, LookInList, FindWish, InsertWish, DeleteWish, Doing
  <2>2. Wishing(choice[t], hasList)
    BY <1>1, <1>2, <2>1 DEF Asking, Favoring
  <2> QED
    BY <1>2, <2>2 DEF Wishing
<1>6. ASSUME UNCHANGED <<favorites, wished>>, hasList' = hasList \/ hasList' = hasList \cup {v},
             NEW pc \in {"createList", "look", "findWish", "insertWish", "deleteWish"}, Step(t, pc),
             pc \in {"look", "findWish", "insertWish", "deleteWish"} => v \in hasList',
             pc \in {"findWish", "insertWish"} => choice[t].op = "add" /\ (choice[t].alone => o \notin wished[v]),
             pc = "deleteWish" => choice[t].op = "remove" /\ o \in wished[v],
             choice[t].op \in {"add", "remove"}
      PROVE  ChoiceInv'
  <2>1. PICK q \in ChoiceSet :
           /\ choice' = With(choice, t, q) /\ q.pc = pc /\ q.op = choice[t].op /\ q.user = choice[t].user
           /\ q.subject = choice[t].subject /\ q.alone = choice[t].alone
    BY <1>1, <1>6, Moving
  <2>2. Asking(q, hasList')
    BY <1>2, <1>5, <1>6, <2>1 DEF Asking, Wishing
  <2>3. UNCHANGED <<favorites, wished, said, unsure>>
    BY <1>6 DEF Step
  <2>4. choice[t].alone /\ q.pc \in {"findWish", "insertWish"} => o \notin wished[v]
    BY <1>6, <2>1
  <2>5. (choice[t].alone /\ q.pc = "deleteWish" => o \in wished[v]) /\ q.pc # "fill" /\ choice[t].pc # "fill"
    BY <1>1, <1>6, <2>1
  <2> HIDE DEF ChoiceSet
  <2> QED
    BY <1>1, <1>2, <1>6, <2>1, <2>2, <2>3, <2>4, <2>5, OwnStep
<1>7. ASSUME UNCHANGED <<favorites, wished>>, hasList' = hasList \/ hasList' = hasList \cup {v}, Fail(t)
      PROVE  ChoiceInv'
  <2>1. choice' = With(choice, t, NoChoice) /\ UNCHANGED <<favorites, wished, said, unsure>>
    BY <1>7 DEF Fail, With
  <2> HIDE DEF ChoiceSet, NoChoice
  <2> QED
    BY <1>1, <1>2, <1>3, <1>7, <2>1, OwnStep
<1>8. CASE OpenList(t)
  <2>1. UNCHANGED <<favorites, wished, hasList>> /\ choice[t].op \in {"add", "remove"}
    BY <1>8 DEF OpenList, Doing
  <2>2. CASE v \in hasList
    <3>1. Step(t, "look")
      BY <1>2, <1>8, <2>2 DEF OpenList
    <3> QED
      BY <1>6, <2>1, <2>2, <3>1
  <2>3. CASE v \notin hasList
    <3>1. Step(t, "createList")
      BY <1>2, <1>8, <2>3 DEF OpenList
    <3> QED
      BY <1>6, <2>1, <2>3, <3>1
  <2> QED
    BY <2>2, <2>3
<1>9. CASE CreateList(t)
  <2>1. UNCHANGED <<favorites, wished>> /\ choice[t].op \in {"add", "remove"} /\ hasList' = hasList \cup {v}
    BY <1>2, <1>9 DEF CreateList, Doing
  <2>2. Fail(t) \/ Step(t, "look")
    BY <1>9 DEF CreateList
  <2> QED
    BY <1>6, <1>7, <2>1, <2>2
<1>10. CASE LookInList(t)
  <2>1. UNCHANGED <<favorites, wished, hasList>> /\ choice[t].op \in {"add", "remove"} /\ v \in hasList
    BY <1>2, <1>5, <1>10 DEF LookInList, Doing, Wishing
  <2>2. CASE o \in wished[v]
    <3>1. Fail(t) \/ (choice[t].op = "remove" /\ Step(t, "deleteWish"))
      BY <1>2, <1>10, <2>1, <2>2 DEF LookInList
    <3> QED
      BY <1>6, <1>7, <2>1, <2>2, <3>1
  <2>3. CASE o \notin wished[v]
    <3>1. Fail(t) \/ (choice[t].op = "add" /\ Step(t, "findWish"))
      <4>1. CASE choice[t].op = "add"
        BY <1>2, <1>10, <2>3, <4>1 DEF LookInList
      <4>2. CASE choice[t].op = "remove"
        BY <1>2, <1>10, <2>3, <4>2 DEF LookInList, InList
      <4> QED
        BY <2>1, <4>1, <4>2
    <3> QED
      BY <1>6, <1>7, <2>1, <2>3, <3>1
  <2> QED
    BY <2>2, <2>3
<1>11. CASE FindWish(t)
  <2>1. UNCHANGED <<favorites, wished, hasList>> /\ choice[t].op = "add" /\ v \in hasList /\ choice[t].pc = "findWish"
    BY <1>2, <1>5, <1>11 DEF FindWish, Doing, Wishing
  <2>2. CASE o \in wished[v]
    <3>1. Succeed(t, <<{}, {o}>>)
      BY <1>2, <1>11, <2>2 DEF FindWish
    <3>2. wished' = With(wished, v, wished[v]) /\ {} \in SUBSET {o} /\ {o} \in SUBSET {o}
      BY <1>4, <2>1
    <3> QED
      BY <1>1, <1>2, <1>4, <1>5, <2>1, <2>2, <3>1, <3>2, WishEnds
  <2>3. CASE o \notin wished[v]
    <3>1. Step(t, "insertWish")
      BY <1>2, <1>11, <2>3 DEF FindWish
    <3> QED
      BY <1>6, <2>1, <2>3, <3>1
  <2> QED
    BY <2>2, <2>3
<1>12. CASE InsertWish(t)
  <2> DEFINE W == wished[v] \cup {o}
  <2>1. UNCHANGED <<favorites, hasList>> /\ v \in hasList /\ choice[t].pc = "insertWish" /\ wished' = With(wished, v, W)
    BY <1>2, <1>5, <1>12 DEF InsertWish, Doing, Wishing, With
  <2>2. Succeed(t, <<{}, {o}>>) \/ Fail(t)
    BY <1>2, <1>12 DEF InsertWish
  <2>3. choice[t].alone => Succeed(t, <<{}, {o}>>)
    BY <1>2, <1>12, <2>1 DEF InsertWish
  <2>4. W \in SUBSET Wishes /\ {} \in SUBSET {o} /\ {o} \in SUBSET {o} /\ o \in W
        /\ \A s \in Wishes \ {o} : s \in W <=> s \in wished[v]
    BY <1>4, <1>5
  <2> HIDE DEF W
  <2> QED
    BY <1>1, <1>2, <1>5, <2>1, <2>2, <2>3, <2>4, WishEnds
<1>13. CASE DeleteWish(t)
  <2>1. PICK W \in SUBSET Wishes, D \in SUBSET {o}, A \in SUBSET {o} : W = wished[v] \ {o} /\ D = {o} /\ A = {}
    BY <1>4
  <2>2. /\ UNCHANGED <<favorites, hasList>> /\ choice[t].pc = "deleteWish" /\ wished' = With(wished, v, W)
        /\ v \in hasList
    BY <1>2, <1>5, <1>13, <2>1 DEF DeleteWish, Doing, With, Wishing
  <2>3. Succeed(t, <<D, A>>) \/ Fail(t)
    BY <1>2, <1>13, <2>1 DEF DeleteWish
  <2>4. choice[t].alone => Succeed(t, <<D, A>>)
    BY <1>2, <1>13, <2>1, <2>2 DEF DeleteWish
  <2>5. o \notin A /\ o \in D /\ o \notin W /\ \A s \in Wishes \ {o} : s \in W <=> s \in wished[v]
    BY <1>4, <1>5, <2>1
  <2> QED
    BY <1>1, <1>2, <1>5, <2>2, <2>3, <2>4, <2>5, WishEnds
<1> QED
  BY <1>8, <1>9, <1>10, <1>11, <1>12, <1>13

LEMMA ChooseStep ==
  ASSUME ChoiceInv, NEW t \in ChoiceTasks, NEW op \in {"favorites1", "favorites2", "add", "remove"},
         NEW u \in Members, NEW s \in Subjects, NEW pick \in Picks \cup {Nothing}, Choose(t, op, u, s, pick)
  PROVE  ChoiceInv'
<1> DEFINE others == {r \in ChoiceTasks : choice[r].pc # "idle" /\ About(r) = <<u, s>>}
           pc == CASE op = "favorites1" -> "clear" [] op = "favorites2" -> "check" [] OTHER -> "open"
           q == [pc |-> pc, op |-> op, user |-> u, subject |-> s, pick |-> pick, alone |-> others = {}]
<1>1. /\ choice[t].pc = "idle" /\ (op \in {"favorites1", "favorites2"} <=> s = "favorites")
      /\ choice' = [r \in ChoiceTasks |-> IF r = t THEN q ELSE [choice[r] EXCEPT !.alone = @ /\ r \notin others]]
      /\ unsure' = IF others = {} THEN unsure ELSE unsure \cup {<<u, s>>}
      /\ UNCHANGED <<favorites, hasList, wished, said>>
  BY DEF Choose
<1>2. /\ q.pc \in {"clear", "check", "open"} /\ q.op = op /\ q.user = u /\ q.subject = s /\ q.pick = pick
      /\ (q.alone <=> others = {}) /\ q.pc = pc /\ q \in ChoiceSet
  BY DEF ChoiceSet
<1> HIDE DEF q
<1>3. choice'[t] = q
  BY <1>1
<1>4. ASSUME NEW r \in ChoiceTasks, r # t
      PROVE  /\ choice'[r] \in ChoiceSet /\ choice'[r].pc = choice[r].pc /\ choice'[r].op = choice[r].op
             /\ choice'[r].user = choice[r].user /\ choice'[r].subject = choice[r].subject
             /\ choice'[r].pick = choice[r].pick /\ (choice'[r].alone <=> choice[r].alone /\ r \notin others)
  <2>1. choice'[r] = [choice[r] EXCEPT !.alone = @ /\ r \notin others] /\ choice[r] \in ChoiceSet
    BY <1>1, <1>4 DEF ChoiceInv, Picked
  <2> HIDE DEF others
  <2> QED
    BY <2>1 DEF ChoiceSet
<1>5. About(t)' = <<u, s>> /\ \A r \in ChoiceTasks \ {t} : About(r)' = About(r) /\ (InList(r)' <=> InList(r))
  BY <1>1, <1>2, <1>3, <1>4 DEF About, InList
<1>6. unsure \subseteq unsure' /\ (others # {} => <<u, s>> \in unsure') /\ unsure' \subseteq Members \X Subjects
  BY <1>1 DEF ChoiceInv, Picked
<1>7. ASSUME NEW v, NEW w PROVE Agrees(v, w)' <=> Agrees(v, w)
  BY <1>1 DEF Agrees
<1>8. Picked'
  <2>1. \A r \in ChoiceTasks : choice'[r] \in ChoiceSet /\ (choice'[r].pc # "idle" => choice'[r].user \in Members)
    BY <1>2, <1>3, <1>4 DEF ChoiceInv, Picked
  <2>2. choice' \in [ChoiceTasks -> ChoiceSet]
    BY <1>1, <2>1
  <2> QED
    BY <1>1, <1>6, <2>1, <2>2 DEF ChoiceInv, Picked
<1>9. ASSUME NEW r \in ChoiceTasks PROVE Asking(choice'[r], hasList')
  <2>1. CASE r = t
    BY <1>1, <1>2, <1>3, <2>1 DEF Asking, Favoring, Wishing, Subjects
  <2>2. CASE r # t
    BY <1>1, <1>4, <2>2 DEF ChoiceInv, Asking, Favoring, Wishing
  <2> QED
    BY <2>1, <2>2
<1>10. Knows(t)'
  <2>1. CASE others # {}
    BY <1>2, <1>3, <1>5, <1>6, <2>1 DEF Knows
  <2>2. CASE others = {}
    <3>1. choice'[t].alone /\ choice'[t].pc \in {"clear", "check", "open"}
      BY <1>2, <1>3, <2>2
    <3>2. \A r \in ChoiceTasks \ {t} : choice'[r].pc # "idle" => About(r)' # About(t)'
      BY <1>4, <1>5, <2>2
    <3>3. <<u, s>> \notin unsure' => Agrees(u, s)'
      <4>1. \A r \in ChoiceTasks : choice[r].pc # "idle" => About(r) # <<u, s>>
        BY <2>2
      <4>2. <<u, s>> \notin unsure => Agrees(u, s)
        BY <4>1 DEF ChoiceInv, Left
      <4> QED
        BY <1>6, <1>7, <4>2
    <3>4. choice'[t].user = u /\ choice'[t].subject = s
      BY <1>2, <1>3
    <3>5. About(t)' \notin unsure' => Agrees(choice[t].user, choice[t].subject)'
      BY <1>5, <3>3, <3>4
    <3> QED
      BY <3>1, <3>2, <3>5 DEF Knows, Alone
  <2> QED
    BY <2>1, <2>2
<1>11. ASSUME NEW r \in ChoiceTasks, r # t, choice'[r].pc # "idle" PROVE Knows(r)'
  <2>1. choice[r].pc # "idle" /\ Knows(r)
    BY <1>4, <1>11 DEF ChoiceInv
  <2>2. CASE r \in others
    BY <1>4, <1>5, <1>6, <1>11, <2>2 DEF Knows
  <2>3. CASE ~choice[r].alone
    <3>1. About(r)' \in unsure'
      BY <1>5, <1>6, <1>11, <2>1, <2>3 DEF Knows, Alone
    <3>2. ~choice'[r].alone
      BY <1>4, <1>11, <2>3
    <3> QED
      BY <3>1, <3>2 DEF Knows
  <2>4. CASE r \notin others /\ choice[r].alone
    <3>1. Alone(r) /\ About(r) # <<u, s>>
      BY <2>1, <2>4 DEF Knows
    <3>2. choice'[r].alone
      BY <1>4, <1>11, <2>4
    <3>3. \A x \in ChoiceTasks \ {r} : choice'[x].pc # "idle" => About(x)' # About(r)'
      BY <1>4, <1>5, <1>11, <3>1 DEF Alone
    <3>4. PICK v, w : choice[r].user = v /\ choice[r].subject = w
      OBVIOUS
    <3>5. choice'[r].pc # "fill" /\ About(r)' \notin unsure' => Agrees(v, w)'
      BY <1>4, <1>5, <1>6, <1>7, <1>11, <3>1, <3>4 DEF Alone
    <3>6. choice'[r].pc # "fill" /\ About(r)' \notin unsure' => Agrees(choice[r].user, choice[r].subject)'
      BY <1>4, <1>11, <3>4, <3>5
    <3>7. /\ choice'[r].pc = "fill" => favorites'[choice'[r].user] = {}
          /\ choice'[r].pc \in {"findWish", "insertWish"} => ~InList(r)'
          /\ choice'[r].pc = "deleteWish" => InList(r)'
      BY <1>1, <1>4, <1>5, <1>11, <3>1 DEF Alone
    <3> QED
      BY <3>2, <3>3, <3>6, <3>7 DEF Knows, Alone
  <2> QED
    BY <2>2, <2>3, <2>4
<1>12. ASSUME NEW v \in Members, NEW w \in Subjects,
              \A r \in ChoiceTasks : choice'[r].pc # "idle" => About(r)' # <<v, w>>, <<v, w>> \notin unsure'
       PROVE  Agrees(v, w)'
  <2>1. \A r \in ChoiceTasks : choice[r].pc # "idle" => About(r) # <<v, w>>
    BY <1>1, <1>4, <1>5, <1>12
  <2> QED
    BY <1>6, <1>7, <1>12, <2>1 DEF ChoiceInv, Left
<1>13. \A v \in Members, w \in Subjects : Left(v, w)'
  BY <1>12 DEF Left
<1>14. ASSUME NEW r \in ChoiceTasks PROVE Knows(r)'
  <2>1. CASE choice'[r].pc = "idle"
    BY <2>1 DEF Knows
  <2> QED
    BY <1>10, <1>11, <2>1
<1> QED
  BY <1>8, <1>9, <1>13, <1>14 DEF ChoiceInv

LEMMA ChoiceStep == ChoiceInv /\ ChoiceSteps => ChoiceInv'
<1> SUFFICES ASSUME ChoiceInv, NEW t \in ChoiceTasks,
                    \/ \E op \in {"favorites1", "favorites2", "add", "remove"}, u \in Members, s \in Subjects, p \in Picks :
                         Choose(t, op, u, s, IF s = "favorites" THEN p ELSE Nothing)
                    \/ Clear(t) \/ Fill(t) \/ CheckDepartments(t) \/ Replace(t)
                    \/ OpenList(t) \/ CreateList(t) \/ LookInList(t) \/ FindWish(t) \/ InsertWish(t) \/ DeleteWish(t)
             PROVE  ChoiceInv'
  BY DEF ChoiceSteps
<1>1. ASSUME NEW op \in {"favorites1", "favorites2", "add", "remove"}, NEW u \in Members, NEW s \in Subjects,
             NEW p \in Picks, Choose(t, op, u, s, IF s = "favorites" THEN p ELSE Nothing)
      PROVE  ChoiceInv'
  <2>1. PICK pick \in Picks \cup {Nothing} : pick = IF s = "favorites" THEN p ELSE Nothing
    OBVIOUS
  <2>2. Choose(t, op, u, s, pick)
    BY <1>1, <2>1
  <2> QED
    BY <2>2, ChooseStep
<1> QED
  BY <1>1, FavoritesStep, WishStep

LEMMA ChoiceRests == ChoiceInv /\ UNCHANGED choiceVars => ChoiceInv'
<1> SUFFICES ASSUME ChoiceInv, UNCHANGED choiceVars PROVE ChoiceInv'
  OBVIOUS
<1>1. Picked' /\ \A t \in ChoiceTasks : Asking(choice'[t], hasList')
  BY DEF choiceVars, ChoiceInv, Picked
<1>2. \A t \in ChoiceTasks : Knows(t)'
  BY DEF choiceVars, ChoiceInv, Knows, Alone, About, InList, Agrees
<1>3. \A u \in Members, s \in Subjects : Left(u, s)'
  BY DEF choiceVars, ChoiceInv, Left, About, Agrees
<1> QED
  BY <1>1, <1>2, <1>3 DEF ChoiceInv

LEMMA ChoiceStarts == ChoicesInit => ChoiceInv
<1> SUFFICES ASSUME ChoicesInit PROVE ChoiceInv
  OBVIOUS
<1>1. \A t \in ChoiceTasks : choice[t] = NoChoice /\ choice[t].pc = "idle" /\ choice[t] \in ChoiceSet
  BY NoChoiceTyped DEF ChoicesInit
<1>2. Picked
  <2>1. choice \in [ChoiceTasks -> ChoiceSet] /\ \A u \in Members : said[u] = favorites[u] /\ wished[u] = {}
    BY <1>1 DEF ChoicesInit
  <2> QED
    BY <1>1, <2>1 DEF ChoicesInit, Picked
<1>3. ASSUME NEW u \in Members, NEW s \in Subjects PROVE Agrees(u, s)
  BY ChoicesAssumption DEF ChoicesInit, Agrees, Subjects
<1> QED
  BY <1>1, <1>2, <1>3 DEF ChoiceInv, Asking, Knows, Left

-----------------------------------------------------------------------------
\* Feeds.  The parts of a request are a function on some feeds.
PartStates == {"find", "rated", "near", "choose", "create", "done", "failed"}
PartSet == UNION {[D -> PartStates] : D \in SUBSET Feeds}
AskSet  == [pc : {"idle", "parts", "answered"}, user : Members \cup {NoMember}, url : Members \cup {NoMember},
            day : Days \cup {NoDay}, parts : PartSet, shown : SUBSET Feeds, expected : SUBSET Feeds]
FeedRows ==
  /\ feeds \in [Feeds -> {"none", "hidden", "shown"}] /\ writes \subseteq takes
  /\ cached \in [Members \X Days -> SUBSET (Feeds \cup NotCached)]
  /\ seen \in [Members \X Days -> SUBSET Feeds]
  /\ ask \in [FeedTasks -> AskSet]

\* The feeds of user u for day d: those that are always theirs, and all that
\* may be.
Own(u, d) == (Kinds \X {NoMember} \X {d}) \cup (OfUser \X {u} \X {d})
Of(u, d)  == Own(u, d) \cup ({"major"} \X Departments \X {d})
Real(S) == S \subseteq Feeds /\ \A x \in S : feeds[x] = "shown"
ShownFor(S, u, d) == Real(S) /\ (<<u, d>> \notin filled => S \subseteq Of(u, d))

\* What was seen and is cached is there, and for users whose requests never
\* overlapped the cached answer has what they saw, unless it may be another's.
Steady(u, d) == u \notin raced /\ <<u, d>> \notin filled
Shows(u, d) ==
  /\ ShownFor(seen[<<u, d>>], u, d)
  /\ cached[<<u, d>>] # NotCached =>
       ShownFor(cached[<<u, d>>], u, d) /\ (Steady(u, d) => seen[<<u, d>>] \cap Own(u, d) \subseteq cached[<<u, d>>])
Asked(q) ==
  q.pc # "idle" => /\ q.user \in Members /\ q.url \in Members /\ q.day \in Days
                   /\ Real(q.shown) /\ ShownFor(q.expected, q.user, q.day)
                   /\ q.pc = "answered" => ShownFor(q.shown, q.url, q.day)
Answers(q) ==
  q.pc = "answered" /\ Steady(q.user, q.day) =>
    /\ {x \in q.expected : x[1] = "major" => x \in DOMAIN q.parts} \subseteq q.shown
    /\ q.url = q.user /\ cached[<<q.user, q.day>>] # NotCached =>
         q.shown \cap Own(q.user, q.day) \subseteq cached[<<q.user, q.day>>]
\* A part about what the user saw before finds it, and one that is to make a
\* rate feed has looked at the days around it.
PartFits(q, x) ==
  /\ x \in q.expected => q.parts[x] = "find" \/ (q.parts[x] = "done" /\ x \in q.shown)
  /\ q.parts[x] = "choose" => x[1] # "rate"
  /\ x[1] = "rate" /\ q.parts[x] = "create" /\ q.user \notin raced =>
       \A e \in Near(x) : feeds[<<"rate", q.user, e>>] # "shown"
Parting(q) ==
  q.pc = "parts" =>
    /\ Own(q.user, q.day) \subseteq DOMAIN q.parts /\ DOMAIN q.parts \subseteq Of(q.user, q.day)
    /\ q.shown \subseteq DOMAIN q.parts /\ \A x \in DOMAIN q.parts : PartFits(q, x)
    /\ q.url = q.user /\ Steady(q.user, q.day) =>
         cached[<<q.user, q.day>>] = NotCached /\ seen[<<q.user, q.day>>] = q.expected
AskFits(q) == Asked(q) /\ Answers(q) /\ Parting(q)
\* While a user's feeds are made, no other request of the user makes any, nor
\* is another under the own URL about the same day - unless requests
\* overlapped.
Lone(f, g) ==
  ask[f].pc = "parts" /\ ask[f].user \notin raced /\ g # f /\ ask[g].pc # "idle" /\ ask[g].user = ask[f].user =>
    /\ ask[g].pc = "answered"
    /\ ask[f].url = ask[f].user /\ ask[g].url = ask[g].user /\ Steady(ask[f].user, ask[f].day) =>
         ask[g].day # ask[f].day
Apart(u) ==
  u \notin raced => \A d, e \in Days :
    d < e /\ feeds[<<"rate", u, d>>] = "shown" /\ feeds[<<"rate", u, e>>] = "shown" => e - d >= FeedRateMinDays
FeedInv ==
  /\ FeedRows
  /\ \A f \in FeedTasks : AskFits(ask[f]) /\ \A g \in FeedTasks : Lone(f, g)
  /\ \A u \in Members : Apart(u) /\ \A d \in Days : Shows(u, d)

-----------------------------------------------------------------------------
LEMMA OfFeeds ==
  ASSUME NEW u \in Members, NEW d \in Days
  PROVE  /\ Of(u, d) \subseteq Feeds /\ Own(u, d) \subseteq Of(u, d)
         /\ \A x \in Of(u, d) : /\ x[1] = "rate" => x = <<"rate", u, d>>
                                /\ x[1] # "major" => x \in Own(u, d)
         /\ \A e \in Days : <<"rate", u, e>> \in Feeds
BY DEF Of, Own, Feeds, Kinds, OfUser

LEMMA PartsTyped ==
  ASSUME NEW p \in PartSet, NEW x \in DOMAIN p, NEW c \in PartStates
  PROVE  /\ [p EXCEPT ![x] = c] \in PartSet /\ DOMAIN [p EXCEPT ![x] = c] = DOMAIN p
         /\ [p EXCEPT ![x] = c][x] = c /\ \A y \in DOMAIN p : y # x => [p EXCEPT ![x] = c][y] = p[y]
         /\ DOMAIN p \subseteq Feeds
<1>1. PICK D \in SUBSET Feeds : p \in [D -> PartStates]
  BY DEF PartSet
<1>2. [p EXCEPT ![x] = c] \in [D -> PartStates]
  BY <1>1
<1> QED
  BY <1>1, <1>2 DEF PartSet

LEMMA NewParts ==
  ASSUME NEW D \in SUBSET Feeds, NEW c \in PartStates
  PROVE  [x \in D |-> c] \in PartSet
BY DEF PartSet

LEMMA NoAskTyped == NoAsk \in AskSet /\ NoAsk.pc = "idle"
<1>1. [x \in {} |-> "done"] \in PartSet
  BY NewParts DEF PartStates
<1> HIDE DEF PartSet
<1> QED
  BY <1>1 DEF NoAsk, AskSet

\* Rows of feeds are made and never changed.
Grow == \A x \in Feeds : feeds[x] # "none" => feeds'[x] = feeds[x]

LEMMA RealStays ==
  ASSUME Grow, NEW S, Real(S) PROVE Real(S)'
BY DEF Real, Grow

LEMMA ShownStays ==
  ASSUME Grow, filled \subseteq filled', NEW u \in Members, NEW d \in Days, NEW S, ShownFor(S, u, d)
  PROVE  ShownFor(S, u, d)'
<1>1. Real(S)'
  BY RealStays DEF ShownFor
<1> QED
  BY <1>1 DEF ShownFor, Of, Own

\* A request that is not touched fits as before, if its answer is cached or
\* evicted only, and no rate feed of its user is made meanwhile.
LEMMA AskStays ==
  ASSUME FeedInv, Grow, raced \subseteq raced', filled \subseteq filled', NEW g \in FeedTasks, ask'[g] = ask[g],
         NEW u, NEW d, ask[g].user = u, ask[g].day = d,
         ask[g].pc # "idle" /\ ask[g].url = u /\ Steady(u, d)' =>
           /\ cached'[<<u, d>>] = cached[<<u, d>>] \/ cached'[<<u, d>>] = NotCached
           /\ ask[g].pc = "parts" => seen'[<<u, d>>] = seen[<<u, d>>],
         ask[g].pc = "parts" /\ u \notin raced' =>
           \A e \in Days : feeds'[<<"rate", u, e>>] = "shown" => feeds[<<"rate", u, e>>] = "shown"
  PROVE  AskFits(ask[g])'
<1>1. PICK q : q = ask[g]
  OBVIOUS
<1>2. AskFits(q) /\ q.user = u /\ q.day = d
  BY <1>1 DEF FeedInv
<1>3. CASE q.pc = "idle"
  <2>1. AskFits(q)'
    BY <1>3 DEF AskFits, Asked, Answers, Parting
  <2> QED
    BY <1>1, <2>1
<1>4. CASE q.pc # "idle"
  <2>1. /\ u \in Members /\ d \in Days /\ q.url \in Members /\ Real(q.shown) /\ ShownFor(q.expected, u, d)
        /\ q.pc = "answered" => ShownFor(q.shown, q.url, d)
    BY <1>2, <1>4 DEF AskFits, Asked
  <2>2. PICK S, T, w : S = q.shown /\ T = q.expected /\ w = q.url
    OBVIOUS
  <2>3. Real(S)' /\ ShownFor(T, u, d)' /\ (q.pc = "answered" => ShownFor(S, w, d)')
    BY <2>1, <2>2, ShownStays, RealStays
  <2>4. Asked(q)'
    BY <1>2, <2>1, <2>2, <2>3 DEF Asked
  <2>5. Answers(q)'
    BY <1>1, <1>2, <1>4 DEF AskFits, Answers, Steady
  <2>6. ASSUME q.pc = "parts", NEW x \in DOMAIN q.parts PROVE PartFits(q, x)'
    <3>1. PartFits(q, x)
      BY <1>2, <2>6 DEF AskFits, Parting
    <3>2. u \notin raced' => \A e \in Days : feeds'[<<"rate", u, e>>] = "shown" => feeds[<<"rate", u, e>>] = "shown"
      BY <1>1, <1>4, <2>6
    <3>3. u \notin raced' => \A e \in Near(x) : feeds'[<<"rate", u, e>>] = "shown" => feeds[<<"rate", u, e>>] = "shown"
      BY <3>2 DEF Near
    <3>4. u \notin raced' => u \notin raced
      OBVIOUS
    <3> QED
      BY <1>2, <3>1, <3>3, <3>4 DEF PartFits, Near
  <2>7. Parting(q)'
    <3>1. q.pc = "parts" /\ q.url = u /\ Steady(u, d)' => cached'[<<u, d>>] = NotCached /\ seen'[<<u, d>>] = q.expected
      BY <1>1, <1>2, <1>4 DEF AskFits, Parting, Steady
    <3> QED
      BY <1>2, <2>6, <3>1 DEF AskFits, Parting
  <2>8. AskFits(q)'
    BY <2>4, <2>5, <2>7 DEF AskFits
  <2> QED
    BY <1>1, <2>8
<1> QED
  BY <1>3, <1>4

LEMMA ShowsStay ==
  ASSUME FeedInv, Grow, raced \subseteq raced', filled \subseteq filled', NEW u \in Members, NEW d \in Days,
         seen'[<<u, d>>] = seen[<<u, d>>],
         cached'[<<u, d>>] = cached[<<u, d>>] \/ cached'[<<u, d>>] = NotCached
  PROVE  Shows(u, d)'
<1>1. Shows(u, d)
  BY DEF FeedInv
<1>2. PICK S, C : S = seen[<<u, d>>] /\ C = cached[<<u, d>>]
  OBVIOUS
<1>3. ShownFor(S, u, d)' /\ (ShownFor(C, u, d) => ShownFor(C, u, d)')
  BY <1>1, <1>2, ShownStays DEF Shows
<1>4. ShownFor(seen[<<u, d>>], u, d)'
  BY <1>2, <1>3
<1>5. cached'[<<u, d>>] # NotCached =>
        ShownFor(cached[<<u, d>>], u, d)' /\ (Steady(u, d)' => seen'[<<u, d>>] \cap Own(u, d) \subseteq cached'[<<u, d>>])
  <2>1. CASE cached'[<<u, d>>] # NotCached
    <3>1. cached'[<<u, d>>] = C /\ ShownFor(C, u, d)'
      BY <1>1, <1>2, <1>3, <2>1 DEF Shows
    <3> QED
      BY <1>1, <1>2, <2>1, <3>1 DEF Shows, Steady
  <2> QED
    BY <2>1
<1> QED
  BY <1>4, <1>5 DEF Shows

LEMMA ApartStays ==
  ASSUME FeedInv, raced \subseteq raced', NEW u \in Members,
         \A e \in Days : feeds'[<<"rate", u, e>>] = "shown" => feeds[<<"rate", u, e>>] = "shown"
  PROVE  Apart(u)'
BY DEF FeedInv, Apart

\* Requests that go on or end.
LEMMA LoneStays ==
  ASSUME FeedInv, raced \subseteq raced', filled \subseteq filled', NEW f \in FeedTasks, NEW m, ask' = With(ask, f, m),
         m.pc # "idle" =>
           /\ ask[f].pc # "idle" /\ m.user = ask[f].user /\ m.url = ask[f].url /\ m.day = ask[f].day
           /\ m.pc = "answered" \/ m.pc = ask[f].pc,
         NEW g \in FeedTasks, NEW h \in FeedTasks
  PROVE  Lone(g, h)'
<1>1. ask'[f] = m /\ \A x \in FeedTasks : x # f => ask'[x] = ask[x]
  BY DEF With, FeedInv, FeedRows
<1>2. Lone(g, h)
  BY DEF FeedInv
<1> QED
  BY <1>1, <1>2 DEF Lone, Steady

\* Part x of a request goes to state c, and S is shown by then.
Gone(q, x, c, S) == [q EXCEPT !.parts = [q.parts EXCEPT ![x] = c], !.shown = S]

LEMMA PartGoes ==
  ASSUME FeedInv, NEW f \in FeedTasks, NEW x \in DOMAIN ask[f].parts, NEW c \in PartStates, NEW S,
         ask[f].pc = "parts", ask[f].parts[x] # "done", ask' = With(ask, f, Gone(ask[f], x, c, S)),
         S = ask[f].shown \/ (S = ask[f].shown \cup {x} /\ feeds'[x] = "shown"),
         \/ feeds' = feeds
         \/ /\ feeds[x] = "none" /\ ask[f].parts[x] = "create"
            /\ \E row \in {"shown", "hidden"} : feeds' = [feeds EXCEPT ![x] = row],
         UNCHANGED <<takes, writes, cached, seen, raced, filled>>,
         x \in ask[f].expected => c = "done" /\ x \in S, c = "choose" => x[1] # "rate",
         c = "create" /\ x[1] = "rate" =>
           feeds' = feeds /\ \A e \in Near(x) : feeds[<<"rate", ask[f].user, e>>] # "shown"
  PROVE  FeedInv'
<1>1. PICK q, u, d : q = ask[f] /\ u = q.user /\ d = q.day
  OBVIOUS
<1>2. /\ q \in AskSet /\ AskFits(q) /\ q.pc = "parts" /\ u \in Members /\ d \in Days
      /\ q.url \in Members /\ Real(q.shown) /\ ShownFor(q.expected, u, d) /\ PartFits(q, x) /\ FeedRows
  BY <1>1 DEF FeedInv, FeedRows, AskFits, Asked, Parting
<1>3. /\ x \in Of(u, d) /\ x \in Feeds /\ Own(u, d) \subseteq DOMAIN q.parts /\ DOMAIN q.parts \subseteq Of(u, d)
      /\ q.shown \subseteq DOMAIN q.parts
  BY <1>1, <1>2, OfFeeds DEF AskFits, Parting
<1>4. x[1] = "rate" => x = <<"rate", u, d>>
  BY <1>2, <1>3, OfFeeds
<1>5. \A y \in Feeds : y # x => feeds'[y] = feeds[y]
  BY <1>2 DEF FeedRows
<1>6. Grow
  BY <1>2 DEF Grow, FeedRows
<1>7. \A v \in Members, e \in Days : v # u \/ x[1] # "rate" =>
        (feeds'[<<"rate", v, e>>] = "shown" => feeds[<<"rate", v, e>>] = "shown")
  <2>1. ASSUME NEW v \in Members, NEW e \in Days, v # u \/ x[1] # "rate" PROVE <<"rate", v, e>> # x
    BY <1>4, <2>1
  <2> QED
    BY <1>5, <2>1, OfFeeds
<1>8. PICK m : m = Gone(q, x, c, S)
  OBVIOUS
<1>9. PICK p : p = [q.parts EXCEPT ![x] = c]
  OBVIOUS
<1>10. q.parts \in PartSet
  BY <1>2 DEF AskSet
<1>11. /\ p \in PartSet /\ DOMAIN p = DOMAIN q.parts /\ p[x] = c /\ \A y \in DOMAIN q.parts : y # x => p[y] = q.parts[y]
  BY <1>1, <1>9, <1>10, PartsTyped
<1>12. S \subseteq DOMAIN q.parts /\ S \subseteq Feeds /\ q.shown \subseteq S
  BY <1>1, <1>2, <1>3, OfFeeds
<1>13. /\ m \in AskSet /\ m.pc = "parts" /\ m.user = u /\ m.url = q.url /\ m.day = d /\ m.parts = p /\ m.shown = S
       /\ m.expected = q.expected
  <2> HIDE DEF PartSet
  <2> QED
    BY <1>1, <1>2, <1>8, <1>9, <1>11, <1>12 DEF Gone, AskSet
<1>14. ask' = With(ask, f, m) /\ ask'[f] = m /\ \A g \in FeedTasks : g # f => ask'[g] = ask[g]
  BY <1>1, <1>2, <1>8 DEF With, FeedRows
<1>15. FeedRows'
  <2>1. feeds' \in [Feeds -> {"none", "hidden", "shown"}]
    BY <1>2, <1>3 DEF FeedRows
  <2>2. ask' \in [FeedTasks -> AskSet]
    <3> HIDE DEF AskSet
    <3> QED
      BY <1>2, <1>13, <1>14 DEF FeedRows, With
  <2> QED
    BY <1>2, <2>1, <2>2 DEF FeedRows
<1>16. AskFits(m)'
  <2>1. Real(S)'
    <3>1. PICK T : T = q.shown
      OBVIOUS
    <3>2. Real(T)'
      BY <1>2, <1>6, <3>1, RealStays
    <3> QED
      BY <1>1, <1>3, <1>12, <3>1, <3>2 DEF Real
  <2>2. PICK E : E = q.expected
    OBVIOUS
  <2>3. ShownFor(E, u, d)'
    BY <1>2, <1>6, <2>2, ShownStays
  <2>4. Asked(m)'
    BY <1>2, <1>13, <2>1, <2>2, <2>3 DEF Asked
  <2>5. Answers(m)'
    BY <1>13 DEF Answers
  <2>6. ASSUME NEW y \in DOMAIN p PROVE PartFits(m, y)'
    <3>1. CASE y = x
      BY <1>1, <1>7, <1>11, <1>13, <3>1 DEF PartFits, Near
    <3>2. CASE y # x
      <4>1. PartFits(q, y) /\ p[y] = q.parts[y]
        BY <1>2, <1>11, <2>6, <3>2 DEF AskFits, Parting
      <4>2. y[1] = "rate" => x[1] # "rate"
        BY <1>2, <1>3, <1>4, <1>11, <2>6, <3>2, OfFeeds
      <4>3. y[1] = "rate" => \A e \in Near(y) :
              feeds'[<<"rate", u, e>>] = "shown" => feeds[<<"rate", u, e>>] = "shown"
        BY <1>2, <1>7, <4>2 DEF Near
      <4> QED
        BY <1>1, <1>12, <1>13, <4>1, <4>3 DEF PartFits, Near
    <3> QED
      BY <3>1, <3>2
  <2>7. Parting(m)'
    <3>1. q.url = u /\ Steady(u, d)' => cached'[<<u, d>>] = NotCached /\ seen'[<<u, d>>] = m.expected
      BY <1>1, <1>2, <1>13 DEF AskFits, Parting, Steady
    <3> QED
      BY <1>3, <1>11, <1>12, <1>13, <2>6, <3>1 DEF Parting
  <2> QED
    BY <2>4, <2>5, <2>7 DEF AskFits
<1>17. ASSUME NEW g \in FeedTasks PROVE AskFits(ask[g])'
  <2>1. CASE g = f
    BY <1>14, <1>16, <2>1
  <2>2. CASE g # f
    <3>1. PICK v, e : ask[g].user = v /\ ask[g].day = e
      OBVIOUS
    <3>2. ask[g].pc = "parts" => v \in Members
      BY <3>1 DEF FeedInv, AskFits, Asked
    <3>3. ask[g].pc = "parts" /\ v \notin raced => v # u
      BY <1>1, <1>2, <2>2, <3>1 DEF FeedInv, Lone
    <3>4. ask[g].pc = "parts" /\ v \notin raced =>
            \A k \in Days : feeds'[<<"rate", v, k>>] = "shown" => feeds[<<"rate", v, k>>] = "shown"
      BY <1>7, <3>2, <3>3
    <3>5. /\ ask'[g] = ask[g] /\ raced \subseteq raced' /\ filled \subseteq filled'
          /\ cached' = cached /\ seen' = seen /\ raced' = raced
      BY <1>14, <2>2
    <3> QED
      BY <1>6, <3>1, <3>4, <3>5, AskStays
  <2> QED
    BY <2>1, <2>2
<1>18. ASSUME NEW g \in FeedTasks, NEW h \in FeedTasks PROVE Lone(g, h)'
  <2>1. /\ m.pc # "idle" => /\ ask[f].pc # "idle" /\ m.user = ask[f].user /\ m.url = ask[f].url /\ m.day = ask[f].day
                            /\ m.pc = "answered" \/ m.pc = ask[f].pc
        /\ raced \subseteq raced' /\ filled \subseteq filled'
    BY <1>1, <1>2, <1>13
  <2> QED
    BY <1>14, <2>1, LoneStays
<1>19. ASSUME NEW v \in Members, NEW e \in Days PROVE Shows(v, e)'
  BY <1>6, ShowsStay
<1>20. ASSUME NEW v \in Members PROVE Apart(v)'
  <2>1. CASE v # u \/ x[1] # "rate" \/ feeds' = feeds
    BY <1>7, <2>1, ApartStays
  <2>2. CASE v = u /\ x[1] = "rate" /\ feeds' # feeds /\ u \notin raced
    <3>1. x = <<"rate", u, d>> /\ \A e \in Near(x) : feeds[<<"rate", u, e>>] # "shown"
      BY <1>1, <1>2, <1>4, <2>2 DEF PartFits
    <3>2. \A e \in Days : e # d => feeds'[<<"rate", u, e>>] = feeds[<<"rate", u, e>>]
      BY <1>2, <1>5, <3>1, OfFeeds
    <3>3. \A e \in Days : feeds'[<<"rate", u, e>>] = "shown" =>
            e = d \/ ~(e > d - FeedRateMinDays /\ e < d + FeedRateMinDays)
      BY <3>1, <3>2 DEF Near
    <3>4. Apart(u)
      BY <1>2 DEF FeedInv
    <3> QED
      BY <1>2, <2>2, <3>2, <3>3, <3>4, FeedsAssumption DEF Apart
  <2>3. CASE u \in raced /\ v = u
    BY <2>3 DEF Apart
  <2> QED
    BY <2>1, <2>2, <2>3
<1> QED
  BY <1>15, <1>17, <1>18, <1>19, <1>20 DEF FeedInv

\* Part and Show are such steps.
LEMMA PartMoves ==
  ASSUME FeedInv, NEW f \in FeedTasks, NEW x, NEW c, NEW row
  PROVE  /\ Part(f, x, c) => ask' = With(ask, f, Gone(ask[f], x, c, ask[f].shown))
         /\ Show(f, x, row) =>
              ask' = With(ask, f, Gone(ask[f], x, "done", IF row = "shown" THEN ask[f].shown \cup {x} ELSE ask[f].shown))
<1>1. ask[f] \in AskSet
  BY DEF FeedInv, FeedRows
<1>2. Gone(ask[f], x, c, ask[f].shown) = [ask[f] EXCEPT !.parts = [ask[f].parts EXCEPT ![x] = c]]
  <2> HIDE DEF PartSet
  <2> QED
    BY <1>1 DEF Gone, AskSet
<1> QED
  BY <1>2 DEF Part, Show, With, Gone

LEMMA PartStep ==
  ASSUME FeedInv, NEW f \in FeedTasks, NEW x \in DOMAIN ask[f].parts,
         FindFeed(f, x) \/ ChooseSubject(f, x) \/ LookRated(f, x) \/ LookNear(f, x) \/ CreateFeed(f, x)
  PROVE  FeedInv'
<1>1. /\ ask[f].pc = "parts" /\ ask[f].parts[x] \in {"find", "choose", "rated", "near", "create"}
      /\ UNCHANGED <<takes, writes, cached, seen, raced, filled>>
  BY DEF FindFeed, ChooseSubject, LookRated, LookNear, CreateFeed, PartAt
<1>2. PICK u, d : u = ask[f].user /\ d = ask[f].day
  OBVIOUS
<1>3. PICK S : S = ask[f].shown
  OBVIOUS
<1>4. PICK T : T = S \cup {x}
  OBVIOUS
<1>5. /\ FeedRows /\ PartFits(ask[f], x) /\ u \in Members /\ d \in Days /\ x \in Of(u, d)
      /\ ShownFor(ask[f].expected, u, d)
  BY <1>1, <1>2 DEF FeedInv, AskFits, Asked, Parting
<1>6. x \in Feeds /\ (x[1] = "rate" => x[2] = u) /\ (x \in ask[f].expected => feeds[x] = "shown")
  BY <1>5, OfFeeds DEF ShownFor, Real
<1>7. x \in ask[f].expected => ask[f].parts[x] = "find"
  BY <1>1, <1>5 DEF PartFits
<1>8. "done" \in PartStates /\ "failed" \in PartStates /\ "create" \in PartStates /\ "rated" \in PartStates
      /\ "choose" \in PartStates /\ "near" \in PartStates
  BY DEF PartStates
<1>9. ASSUME feeds' = feeds, x \notin ask[f].expected, NEW c \in PartStates, Part(f, x, c), c = "choose" => x[1] # "rate",
             c = "create" /\ x[1] = "rate" => \A e \in Near(x) : feeds[<<"rate", u, e>>] # "shown"
      PROVE  FeedInv'
  <2>1. ask' = With(ask, f, Gone(ask[f], x, c, S))
    BY <1>3, <1>9, PartMoves
  <2> HIDE DEF PartStates
  <2> QED
    BY <1>1, <1>2, <1>3, <1>9, <2>1, PartGoes
<1>10. ASSUME Show(f, x, "shown"), feeds'[x] = "shown",
              \/ feeds' = feeds
              \/ /\ feeds[x] = "none" /\ ask[f].parts[x] = "create"
                 /\ \E row \in {"shown", "hidden"} : feeds' = [feeds EXCEPT ![x] = row]
       PROVE  FeedInv'
  <2>1. ask' = With(ask, f, Gone(ask[f], x, "done", T)) /\ x \in T
    BY <1>3, <1>4, <1>10, PartMoves
  <2> HIDE DEF PartStates
  <2> QED
    BY <1>1, <1>3, <1>4, <1>8, <1>10, <2>1, PartGoes
<1>11. ASSUME NEW row, row # "shown", Show(f, x, row), x \notin ask[f].expected,
              \/ feeds' = feeds
              \/ /\ feeds[x] = "none" /\ ask[f].parts[x] = "create"
                 /\ \E r \in {"shown", "hidden"} : feeds' = [feeds EXCEPT ![x] = r]
       PROVE  FeedInv'
  <2>1. ask' = With(ask, f, Gone(ask[f], x, "done", S))
    BY <1>3, <1>11, PartMoves
  <2> HIDE DEF PartStates
  <2> QED
    BY <1>1, <1>3, <1>8, <1>11, <2>1, PartGoes
<1>12. CASE FindFeed(f, x)
  <2>1. feeds' = feeds
    BY <1>12 DEF FindFeed
  <2>2. CASE feeds[x] = "none"
    <3>1. x \notin ask[f].expected
      BY <1>6, <2>2
    <3>2. Part(f, x, IF x[1] = "rate" THEN "rated" ELSE "choose")
      BY <1>12, <2>2 DEF FindFeed
    <3>3. CASE x[1] = "rate"
      BY <1>8, <1>9, <2>1, <3>1, <3>2, <3>3
    <3>4. CASE x[1] # "rate"
      BY <1>8, <1>9, <2>1, <3>1, <3>2, <3>4
    <3> QED
      BY <3>3, <3>4
  <2>3. CASE feeds[x] = "shown"
    BY <1>10, <1>12, <2>1, <2>3 DEF FindFeed
  <2>4. CASE feeds[x] = "hidden"
    BY <1>6, <1>11, <1>12, <2>1, <2>4 DEF FindFeed
  <2> QED
    BY <1>5, <1>6, <2>2, <2>3, <2>4 DEF FeedRows
<1>13. CASE ChooseSubject(f, x)
  <2>1. ask[f].parts[x] = "choose" /\ x[1] # "rate" /\ feeds' = feeds /\ x \notin ask[f].expected
    BY <1>5, <1>7, <1>13 DEF ChooseSubject, PartAt, PartFits
  <2>2. Part(f, x, "create") \/ Part(f, x, "done")
    BY <1>13 DEF ChooseSubject
  <2> QED
    BY <1>8, <1>9, <2>1, <2>2
<1>14. CASE LookRated(f, x)
  <2>1. feeds' = feeds /\ x \notin ask[f].expected
    BY <1>7, <1>14 DEF LookRated, PartAt
  <2>2. Part(f, x, "done") \/ Part(f, x, "near")
    BY <1>14 DEF LookRated
  <2> QED
    BY <1>8, <1>9, <2>1, <2>2
<1>15. CASE LookNear(f, x)
  <2>1. feeds' = feeds /\ x \notin ask[f].expected
    BY <1>7, <1>15 DEF LookNear, PartAt
  <2>2. Part(f, x, "done") \/ (Part(f, x, "create") /\ \A e \in Near(x) : feeds[<<"rate", x[2], e>>] # "shown")
    BY <1>15 DEF LookNear
  <2> QED
    BY <1>6, <1>8, <1>9, <2>1, <2>2
<1>16. CASE CreateFeed(f, x)
  <2>1. ask[f].parts[x] = "create" /\ x \notin ask[f].expected
    BY <1>7, <1>16 DEF CreateFeed, PartAt
  <2>2. CASE feeds[x] = "none"
    <3>1. PICK row \in {"shown", "hidden"} : feeds' = [feeds EXCEPT ![x] = row] /\ Show(f, x, row)
      BY <1>16, <2>2 DEF CreateFeed
    <3>2. feeds'[x] = row
      BY <1>5, <1>6, <3>1 DEF FeedRows
    <3> QED
      BY <1>10, <1>11, <2>1, <2>2, <3>1, <3>2
  <2>3. CASE feeds[x] # "none"
    BY <1>8, <1>9, <1>16, <2>1, <2>3 DEF CreateFeed
  <2> QED
    BY <2>2, <2>3
<1> QED
  BY <1>12, <1>13, <1>14, <1>15, <1>16

LEMMA AskFeedsStep ==
  ASSUME FeedInv, Picked, NEW f \in FeedTasks, NEW u \in Members, NEW w \in Members, NEW d \in Days, AskFeeds(f, u, w, d)
  PROVE  FeedInv'
<1> DEFINE others == {g \in FeedTasks : ask[g].pc # "idle" /\ ask[g].user = u}
           m == [pc |-> "parts", user |-> u, url |-> w, day |-> d, parts |-> [x \in PartsOf(u, d) |-> "find"],
                 shown |-> {}, expected |-> Expected(u, w, d)]
<1>1. /\ ask[f].pc = "idle" /\ cached[<<w, d>>] = NotCached /\ ask' = [ask EXCEPT ![f] = m]
      /\ raced' = IF others = {} THEN raced ELSE raced \cup {u}
      /\ UNCHANGED <<feeds, takes, writes, rated, cached, seen, filled, choiceVars>>
  BY DEF AskFeeds
<1>2. FeedRows /\ Shows(u, d)
  BY DEF FeedInv
<1>3. Own(u, d) \subseteq PartsOf(u, d) /\ PartsOf(u, d) \subseteq Of(u, d) /\ Of(u, d) \subseteq Feeds
  <2>1. RelatedDepartments(u) \subseteq Departments
    BY FeedsAssumption DEF RelatedDepartments, Picked
  <2>2. Of(u, d) \subseteq Feeds
    BY OfFeeds
  <2> QED
    BY <2>1, <2>2 DEF PartsOf, Of, Own
<1>4. PICK p, E : p = [x \in PartsOf(u, d) |-> "find"] /\ E = Expected(u, w, d)
  OBVIOUS
<1>5. p \in PartSet /\ DOMAIN p = PartsOf(u, d) /\ \A x \in DOMAIN p : p[x] = "find"
  BY <1>3, <1>4, NewParts DEF PartStates
<1>6. E \subseteq Feeds /\ ShownFor(E, u, d) /\ Real({}) /\ (w = u => E = seen[<<u, d>>])
  BY <1>2, <1>4 DEF FeedRows, Shows, ShownFor, Expected, Real
<1>7. /\ m.pc = "parts" /\ m.user = u /\ m.url = w /\ m.day = d /\ m.parts = p /\ m.shown = {} /\ m.expected = E /\ m \in AskSet
  <2> HIDE DEF PartSet
  <2> QED
    BY <1>4, <1>5, <1>6 DEF AskSet
<1> HIDE DEF m
<1>8. ask'[f] = m /\ \A g \in FeedTasks : g # f => ask'[g] = ask[g]
  BY <1>1, <1>2 DEF FeedRows
<1>9. Grow /\ raced \subseteq raced' /\ filled' = filled /\ feeds' = feeds /\ seen' = seen /\ cached' = cached
  BY <1>1 DEF Grow
<1>10. FeedRows'
  <2>1. ask' \in [FeedTasks -> AskSet]
    <3> HIDE DEF AskSet
    <3> QED
      BY <1>1, <1>2, <1>7 DEF FeedRows
  <2> QED
    BY <1>1, <1>2, <2>1 DEF FeedRows
<1>11. PICK q : q = m
  OBVIOUS
<1>12. AskFits(q)'
  <2>1. ShownFor(E, u, d)' /\ Real({})'
    BY <1>6, <1>9, ShownStays, RealStays
  <2>2. Asked(q)'
    BY <1>7, <1>11, <2>1 DEF Asked
  <2>3. Answers(q)'
    BY <1>7, <1>11 DEF Answers
  <2>4. \A x \in DOMAIN q.parts : PartFits(q, x)'
    BY <1>5, <1>7, <1>11 DEF PartFits
  <2>5. Parting(q)'
    BY <1>1, <1>3, <1>5, <1>6, <1>7, <1>9, <1>11, <2>4 DEF Parting
  <2> QED
    BY <2>2, <2>3, <2>5 DEF AskFits
<1>13. ASSUME NEW g \in FeedTasks PROVE AskFits(ask[g])'
  <2>1. CASE g = f
    BY <1>8, <1>11, <1>12, <2>1
  <2>2. CASE g # f
    <3>1. PICK v, e : ask[g].user = v /\ ask[g].day = e
      OBVIOUS
    <3>2. ask'[g] = ask[g]
      BY <1>8, <2>2
    <3> QED
      BY <1>9, <3>1, <3>2, AskStays
  <2> QED
    BY <2>1, <2>2
<1>14. ASSUME NEW g \in FeedTasks, NEW h \in FeedTasks PROVE Lone(g, h)'
  <2>1. Lone(g, h)
    BY DEF FeedInv
  <2>2. u \in raced' \/ \A x \in FeedTasks : ask[x].pc # "idle" => ask[x].user # u
    BY <1>1
  <2> QED
    BY <1>7, <1>8, <1>9, <2>1, <2>2 DEF Lone, Steady
<1>15. \A v \in Members : Apart(v)' /\ \A e \in Days : Shows(v, e)'
  BY <1>9, ShowsStay, ApartStays
<1> QED
  BY <1>10, <1>13, <1>14, <1>15 DEF FeedInv

LEMMA AskCachedStep ==
  ASSUME FeedInv, NEW f \in FeedTasks, NEW u \in Members, NEW w \in Members, NEW d \in Days, AskCached(f, u, w, d)
  PROVE  FeedInv'
<1> DEFINE m == [pc |-> "answered", user |-> u, url |-> w, day |-> d, parts |-> [x \in {} |-> "done"],
                 shown |-> cached[<<w, d>>], expected |-> Expected(u, w, d)]
<1>1. /\ ask[f].pc = "idle" /\ cached[<<w, d>>] # NotCached /\ ask' = [ask EXCEPT ![f] = m]
      /\ UNCHANGED <<feeds, takes, writes, rated, cached, seen, raced, filled, choiceVars>>
  BY DEF AskCached
<1>2. FeedRows /\ Shows(u, d) /\ Shows(w, d)
  BY DEF FeedInv
<1>3. PICK p, E, C : p = [x \in {} |-> "done"] /\ E = Expected(u, w, d) /\ C = cached[<<w, d>>]
  OBVIOUS
<1>4. p \in PartSet /\ DOMAIN p = {}
  BY <1>3, NewParts DEF PartStates
<1>5. /\ E \subseteq Feeds /\ ShownFor(E, u, d) /\ C \subseteq Feeds /\ ShownFor(C, w, d)
      /\ Steady(u, d) => E \cap Own(u, d) \subseteq C
  BY <1>1, <1>2, <1>3 DEF FeedRows, Shows, ShownFor, Expected, Real
<1>6. /\ m.pc = "answered" /\ m.user = u /\ m.url = w /\ m.day = d /\ m.parts = p /\ m.shown = C /\ m.expected = E
      /\ m \in AskSet
  <2> HIDE DEF PartSet
  <2> QED
    BY <1>3, <1>4, <1>5 DEF AskSet
<1> HIDE DEF m
<1>7. ask'[f] = m /\ \A g \in FeedTasks : g # f => ask'[g] = ask[g]
  BY <1>1, <1>2 DEF FeedRows
<1>8. Grow /\ raced \subseteq raced' /\ filled' = filled /\ feeds' = feeds /\ seen' = seen /\ cached' = cached /\ raced' = raced
  BY <1>1 DEF Grow
<1>9. FeedRows'
  <2>1. ask' \in [FeedTasks -> AskSet]
    <3> HIDE DEF AskSet
    <3> QED
      BY <1>1, <1>2, <1>6 DEF FeedRows
  <2> QED
    BY <1>1, <1>2, <2>1 DEF FeedRows
<1>10. PICK q : q = m
  OBVIOUS
<1>11. AskFits(q)'
  <2>1. ShownFor(E, u, d)' /\ ShownFor(C, w, d)' /\ Real(C)'
    BY <1>5, <1>8, ShownStays DEF ShownFor
  <2>2. Asked(q)'
    BY <1>6, <1>10, <2>1 DEF Asked
  <2>3. Steady(u, d) => \A x \in E : x[1] # "major" => x \in Own(u, d)
    BY <1>5, OfFeeds DEF ShownFor, Steady
  <2>4. Steady(u, d) => {x \in E : x[1] = "major" => x \in DOMAIN p} \subseteq C
    BY <1>4, <1>5, <2>3
  <2>5. Answers(q)'
    BY <1>3, <1>6, <1>8, <1>10, <2>4 DEF Answers, Steady
  <2>6. Parting(q)'
    BY <1>6, <1>10 DEF Parting
  <2> QED
    BY <2>2, <2>5, <2>6 DEF AskFits
<1>12. ASSUME NEW g \in FeedTasks PROVE AskFits(ask[g])'
  <2>1. CASE g = f
    BY <1>7, <1>10, <1>11, <2>1
  <2>2. CASE g # f
    <3>1. PICK v, e : ask[g].user = v /\ ask[g].day = e
      OBVIOUS
    <3>2. ask'[g] = ask[g]
      BY <1>7, <2>2
    <3> QED
      BY <1>8, <3>1, <3>2, AskStays
  <2> QED
    BY <2>1, <2>2
<1>13. ASSUME NEW g \in FeedTasks, NEW h \in FeedTasks PROVE Lone(g, h)'
  <2>1. Lone(g, h) /\ Parting(ask[g])
    BY DEF FeedInv, AskFits
  <2>2. ask[g].pc = "parts" /\ ask[g].user = u /\ ask[g].url = u /\ w = u /\ Steady(u, ask[g].day) => ask[g].day # d
    BY <1>1, <2>1 DEF Parting
  <2> QED
    BY <1>6, <1>7, <1>8, <2>1, <2>2 DEF Lone, Steady
<1>14. \A v \in Members : Apart(v)' /\ \A e \in Days : Shows(v, e)'
  BY <1>8, ShowsStay, ApartStays
<1> QED
  BY <1>9, <1>12, <1>13, <1>14 DEF FeedInv

LEMMA AnswerStep ==
  ASSUME FeedInv, NEW f \in FeedTasks, AnswerFeeds(f)
  PROVE  FeedInv'
<1>1. PICK q, u, w, d : q = ask[f] /\ u = q.user /\ w = q.url /\ d = q.day
  OBVIOUS
<1>2. /\ q.pc = "parts" /\ q \in AskSet /\ FeedRows /\ AskFits(q) /\ u \in Members /\ w \in Members /\ d \in Days /\ Ended(f)
      /\ UNCHANGED <<feeds, takes, writes, seen, raced>> /\ filled \subseteq filled'
  BY <1>1 DEF FeedInv, FeedRows, AskFits, Asked, AnswerFeeds
<1>3. PICK S, E : S = q.shown /\ E = q.expected
  OBVIOUS
<1>4. Real(S) /\ ShownFor(E, u, d) /\ S \subseteq Feeds /\ Grow /\ Real(S)' /\ ShownFor(E, u, d)' /\ S \subseteq Of(u, d)
  <2>1. Grow
    BY <1>2 DEF Grow
  <2>2. Real(S) /\ ShownFor(E, u, d) /\ S \subseteq Of(u, d)
    BY <1>1, <1>2, <1>3 DEF AskFits, Asked, Parting
  <2>3. S \subseteq Feeds
    BY <2>2 DEF Real
  <2> QED
    BY <1>2, <2>1, <2>2, <2>3, ShownStays, RealStays
\* What the user saw before is shown again, as every part is done.
<1>5. (\A x \in DOMAIN q.parts : q.parts[x] = "done") /\ <<u, d>> \notin filled =>
        {x \in E : x[1] = "major" => x \in DOMAIN q.parts} \subseteq S
  <2>1. ASSUME \A x \in DOMAIN q.parts : q.parts[x] = "done", <<u, d>> \notin filled,
               NEW x \in E, x[1] = "major" => x \in DOMAIN q.parts
        PROVE  x \in S
    <3>1. x \in DOMAIN q.parts
      BY <1>1, <1>2, <1>4, <2>1, OfFeeds DEF ShownFor, AskFits, Parting
    <3>2. PartFits(q, x)
      BY <1>2, <3>1 DEF AskFits, Parting
    <3> QED
      BY <1>3, <2>1, <3>1, <3>2 DEF PartFits
  <2> QED
    BY <2>1
\* Another request that the cached answer is about has another day, or a
\* user for whom nothing is promised.
<1>6. \A g \in FeedTasks : g # f /\ ask[g].pc # "idle" /\ ask[g].user = u /\ ask[g].url = u /\ w = u /\ Steady(u, d) =>
        ask[g].day # d
  BY <1>1, <1>2 DEF FeedInv, Lone, Steady
<1>7. PICK m : /\ ask' = With(ask, f, m) /\ m \in AskSet /\ AskFits(m)'
               /\ m.pc = "idle" \/ (m.pc = "answered" /\ m.user = u /\ m.url = w /\ m.day = d)
               /\ \/ cached' = cached
                  \/ /\ cached' = [cached EXCEPT ![<<w, d>>] = S] /\ (w # u => <<w, d>> \in filled')
                     /\ w = u /\ Steady(u, d) => seen[<<u, d>>] \cap Own(u, d) \subseteq S
  <2>1. CASE \E x \in DOMAIN q.parts : q.parts[x] = "failed"
    <3>1. PICK n : n = NoAsk
      OBVIOUS
    <3>2. ask' = With(ask, f, n) /\ cached' = cached
      BY <1>1, <2>1, <3>1 DEF AnswerFeeds, With
    <3>3. n \in AskSet /\ n.pc = "idle" /\ AskFits(n)'
      BY <3>1, NoAskTyped DEF AskFits, Asked, Answers, Parting
    <3> QED
      BY <3>2, <3>3
  <2>2. CASE ~ \E x \in DOMAIN q.parts : q.parts[x] = "failed"
    <3>1. PICK n : n = [q EXCEPT !.pc = "answered"]
      OBVIOUS
    <3>2. /\ ask' = With(ask, f, n) /\ cached' = [cached EXCEPT ![<<w, d>>] = S]
          /\ w # u => <<w, d>> \in filled'
      BY <1>1, <1>2, <1>3, <2>2, <3>1 DEF AnswerFeeds, With
    <3>3. /\ n \in AskSet /\ n.pc = "answered" /\ n.user = u /\ n.url = w /\ n.day = d /\ n.parts = q.parts
          /\ n.shown = S /\ n.expected = E
      <4> HIDE DEF PartSet
      <4> QED
        BY <1>1, <1>2, <1>3, <3>1 DEF AskSet
    <3>4. \A x \in DOMAIN q.parts : q.parts[x] = "done"
      BY <1>1, <1>2, <2>2 DEF Ended
    <3>5. <<u, d>> \notin filled => {x \in E : x[1] = "major" => x \in DOMAIN q.parts} \subseteq S
      BY <1>5, <3>4
    <3>6. w = u /\ Steady(u, d) => seen[<<u, d>>] = E
      BY <1>1, <1>2, <1>3 DEF AskFits, Parting
    <3>7. w = u /\ Steady(u, d) => seen[<<u, d>>] \cap Own(u, d) \subseteq S
      <4>1. Own(u, d) \subseteq DOMAIN q.parts
        BY <1>1, <1>2 DEF AskFits, Parting
      <4> QED
        BY <3>5, <3>6, <4>1 DEF Steady
    <3>8. cached'[<<w, d>>] = S
      BY <1>2, <3>2 DEF FeedRows
    <3>9. Asked(n)'
      <4>1. ShownFor(S, w, d)'
        BY <1>4, <3>2 DEF ShownFor, Of, Own
      <4> QED
        BY <1>2, <1>4, <3>3, <4>1 DEF Asked
    <3>10. Answers(n)'
      BY <1>2, <3>3, <3>5, <3>8 DEF Answers, Steady
    <3>11. Parting(n)'
      BY <3>3 DEF Parting
    <3> QED
      BY <3>2, <3>3, <3>7, <3>9, <3>10, <3>11 DEF AskFits
  <2> QED
    BY <2>1, <2>2
<1>8. ask'[f] = m /\ \A g \in FeedTasks : g # f => ask'[g] = ask[g]
  BY <1>2, <1>7 DEF FeedRows, With
<1>9. \A v \in Members, e \in Days : <<v, e>> # <<w, d>> => cached'[<<v, e>>] = cached[<<v, e>>]
  BY <1>2, <1>7 DEF FeedRows
<1>10. FeedRows'
  <2>1. ask' \in [FeedTasks -> AskSet]
    <3> HIDE DEF AskSet
    <3> QED
      BY <1>2, <1>7 DEF FeedRows, With
  <2>2. cached' \in [Members \X Days -> SUBSET (Feeds \cup NotCached)]
    BY <1>2, <1>4, <1>7 DEF FeedRows
  <2> QED
    BY <1>2, <2>1, <2>2 DEF FeedRows
<1>11. ASSUME NEW g \in FeedTasks PROVE AskFits(ask[g])'
  <2>1. CASE g = f
    BY <1>7, <1>8, <2>1
  <2>2. CASE g # f
    <3>1. PICK v, e : ask[g].user = v /\ ask[g].day = e
      OBVIOUS
    <3>2. ask'[g] = ask[g] /\ raced \subseteq raced' /\ feeds' = feeds /\ seen' = seen
      BY <1>2, <1>8, <2>2
    <3>3. ask[g].pc # "idle" => v \in Members /\ e \in Days
      BY <3>1 DEF FeedInv, AskFits, Asked
    <3>4. ask[g].pc # "idle" /\ ask[g].url = v /\ Steady(v, e)' => <<v, e>> # <<w, d>> \/ cached' = cached
      BY <1>2, <1>6, <1>7, <2>2, <3>1 DEF Steady
    <3>5. ask[g].pc # "idle" /\ ask[g].url = v /\ Steady(v, e)' => cached'[<<v, e>>] = cached[<<v, e>>]
      BY <1>9, <3>3, <3>4
    <3> QED
      BY <1>2, <1>4, <3>1, <3>2, <3>5, AskStays
  <2> QED
    BY <2>1, <2>2
<1>12. ASSUME NEW g \in FeedTasks, NEW h \in FeedTasks PROVE Lone(g, h)'
  <2>1. m.pc # "idle" => /\ ask[f].pc # "idle" /\ m.user = ask[f].user /\ m.url = ask[f].url /\ m.day = ask[f].day
                         /\ m.pc = "answered" \/ m.pc = ask[f].pc
    BY <1>1, <1>2, <1>7
  <2>2. raced \subseteq raced' /\ filled \subseteq filled' /\ ask' = With(ask, f, m)
    BY <1>2, <1>7
  <2> QED
    BY <2>1, <2>2, LoneStays
<1>13. ASSUME NEW v \in Members, NEW e \in Days PROVE Shows(v, e)'
  <2>1. raced' = raced /\ filled \subseteq filled' /\ seen' = seen
    BY <1>2
  <2>2. CASE cached'[<<v, e>>] = cached[<<v, e>>]
    BY <1>4, <2>1, <2>2, ShowsStay
  <2>3. CASE cached'[<<v, e>>] # cached[<<v, e>>]
    <3>1. /\ v = w /\ e = d /\ cached' = [cached EXCEPT ![<<w, d>>] = S] /\ (w # u => <<w, d>> \in filled')
          /\ w = u /\ Steady(u, d) => seen[<<u, d>>] \cap Own(u, d) \subseteq S
      BY <1>7, <1>9, <2>3
    <3>2. cached'[<<w, d>>] = S
      BY <1>2, <3>1 DEF FeedRows
    <3>3. PICK T : T = seen[<<w, d>>]
      OBVIOUS
    <3>4. ShownFor(T, w, d)'
      BY <1>2, <1>4, <3>3, ShownStays DEF FeedInv, Shows
    <3>5. ShownFor(S, w, d)'
      BY <1>4, <3>1 DEF ShownFor, Of, Own
    <3>6. Shows(w, d)'
      BY <2>1, <3>1, <3>2, <3>3, <3>4, <3>5 DEF Shows, Steady, Own
    <3> QED
      BY <3>1, <3>6
  <2> QED
    BY <2>2, <2>3
<1>14. ASSUME NEW v \in Members PROVE Apart(v)'
  BY <1>2, ApartStays
<1> QED
  BY <1>10, <1>11, <1>12, <1>13, <1>14 DEF FeedInv

LEMMA ReceivedStep ==
  ASSUME FeedInv, NEW f \in FeedTasks, Received(f)
  PROVE  FeedInv'
<1>1. PICK u, w, d, S : u = ask[f].user /\ w = ask[f].url /\ d = ask[f].day /\ S = ask[f].shown
  OBVIOUS
<1>2. /\ ask[f].pc = "answered" /\ FeedRows /\ u \in Members /\ d \in Days /\ ShownFor(S, w, d)
      /\ UNCHANGED <<feeds, takes, writes, cached, raced, filled>>
  BY <1>1 DEF FeedInv, FeedRows, AskFits, Asked, Received
<1>3. Grow /\ S \subseteq Feeds /\ ShownFor(S, w, d)'
  <2>1. Grow /\ S \subseteq Feeds
    BY <1>2 DEF Grow, ShownFor, Real
  <2>2. w \in Members
    BY <1>1, <1>2 DEF FeedInv, AskFits, Asked
  <2> QED
    BY <1>2, <2>1, <2>2, ShownStays
<1>4. seen' = IF w # u THEN seen ELSE [seen EXCEPT ![<<u, d>>] = seen[<<u, d>>] \cup S]
  BY <1>1 DEF Received
<1>5. /\ w = u => seen'[<<u, d>>] = seen[<<u, d>>] \cup S
      /\ \A v \in Members, e \in Days : <<v, e>> # <<u, d>> \/ w # u => seen'[<<v, e>>] = seen[<<v, e>>]
  BY <1>2, <1>4 DEF FeedRows
<1>6. PICK m : m = NoAsk
  OBVIOUS
<1>7. m \in AskSet /\ m.pc = "idle" /\ AskFits(m)' /\ ask' = With(ask, f, m)
  <2>1. m \in AskSet /\ m.pc = "idle"
    BY <1>6, NoAskTyped
  <2>2. ask' = With(ask, f, m)
    BY <1>6 DEF Received, With
  <2> QED
    BY <2>1, <2>2 DEF AskFits, Asked, Answers, Parting
<1>8. ask'[f] = m /\ \A g \in FeedTasks : g # f => ask'[g] = ask[g]
  BY <1>2, <1>7 DEF FeedRows, With
<1>9. FeedRows'
  <2>1. ask' \in [FeedTasks -> AskSet]
    <3> HIDE DEF AskSet
    <3> QED
      BY <1>2, <1>7 DEF FeedRows, With
  <2>2. seen' \in [Members \X Days -> SUBSET Feeds]
    BY <1>2, <1>3, <1>4 DEF FeedRows
  <2> QED
    BY <1>2, <2>1, <2>2 DEF FeedRows
<1>10. ASSUME NEW g \in FeedTasks PROVE AskFits(ask[g])'
  <2>1. CASE g = f
    BY <1>7, <1>8, <2>1
  <2>2. CASE g # f
    <3>1. PICK v, e : ask[g].user = v /\ ask[g].day = e
      OBVIOUS
    <3>2. /\ ask'[g] = ask[g] /\ raced \subseteq raced' /\ filled \subseteq filled'
          /\ cached' = cached /\ feeds' = feeds
      BY <1>2, <1>8, <2>2
    <3>3. ask[g].pc # "idle" => v \in Members /\ e \in Days
      BY <3>1 DEF FeedInv, AskFits, Asked
    <3>4. Lone(g, f) /\ (Steady(v, e)' => Steady(v, e))
      BY <1>2 DEF FeedInv, Steady
    <3>5. ask[g].pc = "parts" /\ ask[g].url = v /\ Steady(v, e)' => <<v, e>> # <<u, d>> \/ w # u
      BY <1>1, <1>2, <2>2, <3>1, <3>4 DEF Lone, Steady
    <3>6. ask[g].pc = "parts" /\ ask[g].url = v /\ Steady(v, e)' => seen'[<<v, e>>] = seen[<<v, e>>]
      BY <1>5, <3>3, <3>5
    <3> QED
      BY <1>3, <3>1, <3>2, <3>6, AskStays
  <2> QED
    BY <2>1, <2>2
<1>11. ASSUME NEW g \in FeedTasks, NEW h \in FeedTasks PROVE Lone(g, h)'
  BY <1>2, <1>7, LoneStays
<1>12. ASSUME NEW v \in Members, NEW e \in Days PROVE Shows(v, e)'
  <2>1. raced \subseteq raced' /\ filled' = filled /\ cached' = cached
    BY <1>2
  <2>2. CASE <<v, e>> # <<u, d>> \/ w # u
    BY <1>3, <1>5, <2>1, <2>2, ShowsStay
  <2>3. CASE <<v, e>> = <<u, d>> /\ w = u
    <3>1. PICK T, C : T = seen[<<u, d>>] /\ C = cached[<<u, d>>]
      OBVIOUS
    <3>2. Shows(u, d) /\ Answers(ask[f])
      BY <1>2 DEF FeedInv, AskFits
    <3>3. ShownFor(T, u, d)' /\ (C # NotCached => ShownFor(C, u, d)')
      BY <1>2, <1>3, <3>1, <3>2, ShownStays DEF Shows
    <3>4. ShownFor(T \cup S, u, d)'
      BY <1>3, <2>3, <3>3 DEF ShownFor, Real
    <3>5. C # NotCached /\ Steady(u, d) => (T \cup S) \cap Own(u, d) \subseteq C
      BY <1>1, <1>2, <2>3, <3>1, <3>2 DEF Answers, Shows
    <3>6. seen'[<<u, d>>] = T \cup S /\ cached'[<<u, d>>] = C /\ raced' = raced
      BY <1>2, <1>5, <2>3, <3>1
    <3>7. Shows(u, d)'
      BY <2>1, <3>3, <3>4, <3>5, <3>6 DEF Shows, Steady, Own
    <3> QED
      BY <2>3, <3>7
  <2> QED
    BY <2>2, <2>3
<1>13. ASSUME NEW v \in Members PROVE Apart(v)'
  BY <1>2, ApartStays
<1> QED
  BY <1>9, <1>10, <1>11, <1>12, <1>13 DEF FeedInv

\* Steps that touch no request: a cached answer may go.
LEMMA FeedsRest ==
  ASSUME FeedInv, UNCHANGED <<feeds, ask, seen, raced, filled>>, writes' \subseteq takes',
         cached' = cached \/ \E u \in Members, d \in Days : Evict(u, d)
  PROVE  FeedInv'
<1>1. FeedRows /\ Grow /\ raced \subseteq raced' /\ filled \subseteq filled'
  BY DEF FeedInv, Grow
<1>2. ASSUME NEW v \in Members, NEW e \in Days
      PROVE  cached'[<<v, e>>] = cached[<<v, e>>] \/ cached'[<<v, e>>] = NotCached
  BY <1>1 DEF FeedRows, Evict
<1>3. FeedRows'
  BY <1>1 DEF FeedRows, Evict
<1>4. ASSUME NEW g \in FeedTasks PROVE AskFits(ask[g])'
  <2>1. PICK v, e : ask[g].user = v /\ ask[g].day = e
    OBVIOUS
  <2>2. ask[g].pc # "idle" => v \in Members /\ e \in Days
    BY <2>1 DEF FeedInv, AskFits, Asked
  <2>3. ask'[g] = ask[g] /\ seen' = seen /\ feeds' = feeds
    OBVIOUS
  <2>4. ask[g].pc # "idle" => cached'[<<v, e>>] = cached[<<v, e>>] \/ cached'[<<v, e>>] = NotCached
    BY <1>2, <2>2
  <2> QED
    BY <1>1, <2>1, <2>3, <2>4, AskStays
<1>5. \A g, h \in FeedTasks : Lone(g, h)'
  BY DEF FeedInv, Lone, Steady
<1>6. ASSUME NEW v \in Members, NEW e \in Days PROVE Shows(v, e)'
  BY <1>1, <1>2, ShowsStay
<1>7. ASSUME NEW v \in Members PROVE Apart(v)'
  BY <1>1, ApartStays
<1> QED
  BY <1>3, <1>4, <1>5, <1>6, <1>7 DEF FeedInv

LEMMA FeedsStart == ChoicesInit /\ FeedsInit => FeedInv
<1> SUFFICES ASSUME FeedsInit PROVE FeedInv
  OBVIOUS
<1>1. \A f \in FeedTasks : ask[f] = NoAsk /\ ask[f].pc = "idle" /\ ask[f] \in AskSet
  BY NoAskTyped DEF FeedsInit
<1>2. FeedRows
  <2>1. ask \in [FeedTasks -> AskSet]
    BY <1>1 DEF FeedsInit
  <2> HIDE DEF AskSet
  <2> QED
    BY <2>1 DEF FeedsInit, FeedRows
<1>3. \A u \in Members, d \in Days : seen[<<u, d>>] = {} /\ cached[<<u, d>>] = NotCached
  BY DEF FeedsInit
<1>4. \A u \in Members, d \in Days : Shows(u, d)
  BY <1>3 DEF Shows, ShownFor, Real
<1>5. \A u \in Members : Apart(u)
  BY OfFeeds DEF FeedsInit, Apart
<1> QED
  BY <1>1, <1>2, <1>4, <1>5 DEF FeedInv, AskFits, Asked, Answers, Parting, Lone

\* Either kind of step keeps both invariants.
BrowsingInv == ChoiceInv /\ FeedInv

LEMMA BrowsingStep == BrowsingInv /\ [FeedsNext]_<<feedVars, choiceVars>> => BrowsingInv'
<1> SUFFICES ASSUME ChoiceInv, FeedInv, [FeedsNext]_<<feedVars, choiceVars>> PROVE ChoiceInv' /\ FeedInv'
  BY DEF BrowsingInv
<1>1. Picked
  BY DEF ChoiceInv
<1>2. ASSUME NEW f \in FeedTasks, NEW u \in Members, NEW w \in Members, NEW d \in Days,
             AskFeeds(f, u, w, d) \/ AskCached(f, u, w, d)
      PROVE  ChoiceInv' /\ FeedInv'
  <2>1. UNCHANGED choiceVars
    BY <1>2 DEF AskFeeds, AskCached
  <2> QED
    BY <1>1, <1>2, <2>1, ChoiceRests, AskFeedsStep, AskCachedStep
<1>3. ASSUME NEW f \in FeedTasks, PartSteps(f)
      PROVE  ChoiceInv' /\ FeedInv'
  <2>1. PICK x \in DOMAIN ask[f].parts :
          FindFeed(f, x) \/ ChooseSubject(f, x) \/ LookRated(f, x) \/ LookNear(f, x) \/ CreateFeed(f, x)
    BY <1>3 DEF PartSteps
  <2>2. UNCHANGED choiceVars
    BY <2>1 DEF FindFeed, ChooseSubject, LookRated, LookNear, CreateFeed
  <2> QED
    BY <2>1, <2>2, ChoiceRests, PartStep
<1>4. ASSUME NEW f \in FeedTasks, AnswerFeeds(f) \/ Received(f)
      PROVE  ChoiceInv' /\ FeedInv'
  <2>1. UNCHANGED choiceVars
    BY <1>4 DEF AnswerFeeds, Received
  <2> QED
    BY <1>4, <2>1, ChoiceRests, AnswerStep, ReceivedStep
<1>5. ASSUME NEW u \in Members, NEW d \in Days, Evict(u, d) \/ Rate(u, YearOf[d])
      PROVE  ChoiceInv' /\ FeedInv'
  <2>1. UNCHANGED choiceVars /\ UNCHANGED <<feeds, ask, seen, raced, filled>> /\ UNCHANGED <<takes, writes>>
    BY <1>5 DEF Evict, Rate
  <2>2. cached' = cached \/ \E v \in Members, e \in Days : Evict(v, e)
    BY <1>5 DEF Rate
  <2>3. writes' \subseteq takes'
    BY <2>1 DEF FeedInv, FeedRows
  <2> QED
    BY <2>1, <2>2, <2>3, ChoiceRests, FeedsRest
<1>6. ASSUME NEW u \in Members, Take(u)
      PROVE  ChoiceInv' /\ FeedInv'
  <2>1. UNCHANGED choiceVars /\ UNCHANGED <<feeds, ask, seen, raced, filled>> /\ cached' = cached
    BY <1>6 DEF Take
  <2>2. writes' \subseteq takes'
    BY <1>6 DEF Take, FeedInv, FeedRows
  <2> QED
    BY <2>1, <2>2, ChoiceRests, FeedsRest
<1>7. ASSUME ChoiceSteps \/ UNCHANGED choiceVars, UNCHANGED feedVars
      PROVE  ChoiceInv' /\ FeedInv'
  <2>1. UNCHANGED <<feeds, ask, seen, raced, filled>> /\ UNCHANGED <<takes, writes>> /\ cached' = cached
    BY <1>7 DEF feedVars
  <2>2. writes' \subseteq takes'
    BY <2>1 DEF FeedInv, FeedRows
  <2> QED
    BY <1>7, <2>1, <2>2, ChoiceStep, ChoiceRests, FeedsRest
<1>8. CASE FeedsNext
  BY <1>2, <1>3, <1>4, <1>5, <1>6, <1>7, <1>8 DEF FeedsNext
<1>9. CASE UNCHANGED <<feedVars, choiceVars>>
  BY <1>7, <1>9
<1> QED
  BY <1>8, <1>9

\* Whatever users ask for and choose at the same time, and whatever is
\* evicted, rated or taken meanwhile (FeedsService, the wishlist and the
\* favourite departments): the rows, the requests in progress and the cached
\* answers fit together as ChoiceInv and FeedInv say.
THEOREM BrowsingHolds == FeedsSpec => []BrowsingInv
<1>1. ChoicesInit /\ FeedsInit => BrowsingInv
  BY ChoiceStarts, FeedsStart DEF BrowsingInv
<1> QED
  BY <1>1, BrowsingStep, PTL DEF FeedsSpec

\* Between requests the favourite departments and wishes of every user are
\* what the last request that ran alone left, whatever other users, and
\* requests about other lectures, do meanwhile.
THEOREM ChoicesAlways == FeedsSpec => []ChoicesHold
<1>1. BrowsingInv => ChoicesHold
  <2> SUFFICES ASSUME ChoiceInv PROVE ChoicesHold
    BY DEF BrowsingInv
  <2>1. ChoiceTypes
    BY DEF ChoiceInv, Picked, ChoiceTypes
  <2>2. \A u \in Members, s \in Subjects : Left(u, s)
    BY DEF ChoiceInv
  <2> QED
    BY <2>1, <2>2 DEF ChoicesHold, Left, Agrees
<1> QED
  BY <1>1, BrowsingHolds, PTL

\* A user whose requests for feeds never overlapped is shown again under the
\* own URL what was shown there for a day before, unless it is about a
\* department no longer theirs or another's answer was cached there; and is
\* asked to rate the service FeedRateMinDays apart, whoever asks under whose
\* URL (FeedsController, getFeeds).
THEOREM FeedsAlways == FeedsSpec => []FeedsStable
<1>1. BrowsingInv => FeedsStable
  <2> SUFFICES ASSUME FeedInv PROVE FeedsStable
    BY DEF BrowsingInv
  <2>1. FeedRows /\ \A f \in FeedTasks : AskFits(ask[f])
    BY DEF FeedInv
  <2>2. FeedTypes
    <3>1. ASSUME NEW f \in FeedTasks, ask[f].pc = "parts"
          PROVE  DOMAIN ask[f].parts \subseteq Feeds /\ ask[f].shown \subseteq DOMAIN ask[f].parts
      <4>1. PICK q : q = ask[f]
        OBVIOUS
      <4>2. q.user \in Members /\ q.day \in Days /\ DOMAIN q.parts \subseteq Of(q.user, q.day) /\ q.shown \subseteq DOMAIN q.parts
        BY <2>1, <3>1, <4>1 DEF AskFits, Asked, Parting
      <4> QED
        BY <4>1, <4>2, OfFeeds
    <3> QED
      BY <2>1, <3>1 DEF FeedTypes, FeedRows
  <2>3. \A f \in FeedTasks : Answers(ask[f])
    BY <2>1 DEF AskFits
  <2>4. \A u \in Members : Apart(u)
    BY DEF FeedInv
  <2> QED
    BY <2>2, <2>3, <2>4 DEF FeedsStable, Answers, Steady, Apart
<1> QED
  BY <1>1, BrowsingHolds, PTL

-----------------------------------------------------------------------------
\* Rows of reviews and votes, what was derived from them, and requests.
ReviewSet == [id : Nat, version : 0..MaxVersions, at : Nat, like : Nat, hidden : BOOLEAN]
TaskSet ==
  [pc : {"idle", "permit", "find", "look", "insert", "update", "isLiked", "again", "findVote",
         "insertVote", "deleteVote", "publish"},
   op : Operations \cup {"none"}, on : Keys \cup {<<NoWriter, NoWriter>>}, who : Writers \cup {NoWriter}, version : {0}]
ReviewRows ==
  /\ review \in [Keys -> ReviewSet] /\ votes \in [Keys -> SUBSET Writers]
  /\ may \subseteq Keys /\ second \in Nat
  /\ \A k \in Keys : ~Exists(k) => review[k] = NoReview /\ votes[k] = {}
Derivations ==
  /\ scores \in [Scores -> [Keys -> Nat]]
  /\ sent \subseteq Messages /\ outdated \subseteq Messages
\* Ids are given in the order of the reviews.
Numbered ==
  /\ \A k \in Reviewed : review[k].id \in 1..Cardinality(Reviewed)
  /\ \A j, k \in Reviewed : review[j].id = review[k].id => j = k
\* A request that changes a row, or votes for it, has seen it.
TaskFits(q) ==
  /\ q \in TaskSet
  /\ q.pc # "idle" => q.op \in Operations /\ q.on \in Keys /\ q.who \in Writers
  /\ q.pc \in {"update", "again", "findVote", "insertVote", "deleteVote"} => Exists(q.on)

\* A message is on its way, or lost, or will be sent by a request that has
\* written and not yet published.
Due(m) == \/ m \in sent \cup outdated
          \/ \E t \in ReviewTasks : task[t].pc = "publish" /\ m \in ToPublish(t)
ScoreKept(m, k) == scores[m][k] = review[k].version \/ Due(m)
LikesKept(k) == review[k].like = Cardinality(votes[k]) \/ Due(LikeCount(k))
Derivable ==
  \A k \in Keys : /\ \A m \in Told(k) : k[1] \in Sources(m) => ScoreKept(m, k)
                  /\ LikesKept(k)
ReviewInv ==
  /\ ReviewRows /\ Derivations /\ Numbered
  /\ task \in [ReviewTasks -> TaskSet] /\ \A t \in ReviewTasks : TaskFits(task[t])
  /\ Derivable

-----------------------------------------------------------------------------
LEMMA KeysFinite == IsFiniteSet(Keys) /\ \A S \in SUBSET Writers : IsFiniteSet(S) /\ Cardinality(S) \in Nat
<1>1. IsFiniteSet(Keys)
  BY FS_Product, ReviewsAssumption DEF Keys
<1>2. \A S \in SUBSET Writers : IsFiniteSet(S)
  BY FS_Subset, ReviewsAssumption
<1> QED
  BY <1>1, <1>2, FS_CardinalityType

LEMMA ReviewedFinite == IsFiniteSet(Reviewed) /\ Cardinality(Reviewed) \in Nat
<1>1. IsFiniteSet(Keys) /\ Reviewed \in SUBSET Keys
  BY KeysFinite DEF Reviewed
<1>2. IsFiniteSet(Reviewed)
  BY <1>1, FS_Subset
<1> QED
  BY <1>2, FS_CardinalityType

LEMMA MessageParts ==
  /\ \A l \in Lectures : CourseScore(l) \in Scores /\ LectureScore(l) \in Scores
  /\ \A k \in Keys : k[1] \in Lectures /\ k[2] \in Writers
  /\ \A k \in Keys : Told(k) \subseteq Scores /\ LikeCount(k) \in Messages
  /\ \A k, j \in Keys : LikeCount(k) = LikeCount(j) => k = j
  /\ \A k \in Keys : LikeCount(k) \notin Scores
<1>1. \A k \in Keys : k[1] \in Lectures /\ k[2] \in Writers /\ k = <<k[1], k[2]>>
  BY DEF Keys
<1> QED
  BY <1>1 DEF Scores, Messages, Told, CourseScore, LectureScore, LikeCount

\* Due survives a step of a request that has not yet to publish.
LEMMA DueStays ==
  ASSUME NEW t \in ReviewTasks, task[t].pc # "publish",
         \A s \in ReviewTasks \ {t} : task'[s] = task[s],
         sent \subseteq sent', outdated \subseteq outdated',
         NEW m, Due(m)
  PROVE  Due(m)'
BY DEF Due, ToPublish, Told

LEMMA NoTaskFits == TaskFits(NoTask)
BY DEF TaskFits, NoTask, TaskSet

LEMMA NoReviewTyped == NoReview \in ReviewSet
BY ReviewsAssumption DEF NoReview, ReviewSet

-----------------------------------------------------------------------------
LEMMA ReviewsStart == ReviewsInit => ReviewInv
<1> SUFFICES ASSUME ReviewsInit PROVE ReviewInv
  OBVIOUS
<1> USE DEF ReviewsInit
<1>1. ReviewRows
  BY NoReviewTyped DEF ReviewRows
<1>2. Derivations
  BY DEF Derivations, Versions, NoReview
<1>3. Reviewed = {}
  BY DEF Reviewed, Exists, NoReview
<1>4. Numbered
  BY <1>3 DEF Numbered
<1>5. Derivable
  <2> SUFFICES ASSUME NEW k \in Keys
               PROVE  (\A m \in Told(k) : ScoreKept(m, k)) /\ LikesKept(k)
    BY DEF Derivable
  <2>1. \A m \in Told(k) : ScoreKept(m, k)
    BY MessageParts DEF ScoreKept, Versions
  <2>2. LikesKept(k)
    BY FS_EmptySet DEF LikesKept, NoReview
  <2> QED
    BY <2>1, <2>2
<1>6. NoTask \in TaskSet /\ TaskFits(NoTask)
  BY NoTaskFits DEF TaskFits
<1> QED
  BY <1>1, <1>2, <1>4, <1>5, <1>6 DEF ReviewInv

-----------------------------------------------------------------------------
\* A request goes on and nothing else changes.
LEMMA TaskMoves ==
  ASSUME ReviewInv, NEW t \in ReviewTasks, NEW q, TaskFits(q), task[t].pc # "publish",
         task' = [task EXCEPT ![t] = q], UNCHANGED <<review, votes, may, scores, sent, outdated, second>>
  PROVE  ReviewInv'
<1>1. ReviewRows' /\ Derivations' /\ Numbered'
  BY DEF ReviewInv, ReviewRows, Derivations, Numbered, Reviewed, Exists
<1>2. task' \in [ReviewTasks -> TaskSet] /\ (\A s \in ReviewTasks : TaskFits(task[s]))'
  <2>1. \A s \in ReviewTasks : task'[s] \in {q, task[s]} /\ TaskFits(task[s]) /\ task \in [ReviewTasks -> TaskSet]
    BY DEF ReviewInv
  <2>2. q \in TaskSet
    BY DEF TaskFits
  <2>3. \A s \in ReviewTasks : TaskFits(task[s])'
    BY <2>1 DEF TaskFits, Exists
  <2> QED
    BY <2>1, <2>2, <2>3
<1>3. \A m : Due(m) => Due(m)'
  BY DueStays DEF ReviewInv
<1>4. Derivable'
  <2> SUFFICES ASSUME NEW k \in Keys
               PROVE  (\A m \in Told(k) : k[1] \in Sources(m) => ScoreKept(m, k)') /\ LikesKept(k)'
    BY DEF Derivable
  <2>1. (\A m \in Told(k) : k[1] \in Sources(m) => ScoreKept(m, k)) /\ LikesKept(k)
    BY DEF ReviewInv, Derivable
  <2> QED
    BY <1>3, <2>1 DEF ScoreKept, LikesKept
<1> QED
  BY <1>1, <1>2, <1>4 DEF ReviewInv

\* The next step of request q.
Onward(q, pc) == [q EXCEPT !.pc = pc]
LEMMA OnwardFits ==
  ASSUME NEW q \in TaskSet, TaskFits(q), q.pc # "idle", NEW pc \in {"find", "insert", "isLiked", "publish", "update",
                      "again", "findVote", "insertVote", "deleteVote"},
         pc \in {"update", "again", "findVote", "insertVote", "deleteVote"} => Exists(q.on)
  PROVE  TaskFits(Onward(q, pc))
<1>1. Onward(q, pc) \in TaskSet /\ Onward(q, pc).pc = pc /\ Onward(q, pc).op = q.op /\ Onward(q, pc).on = q.on
       /\ Onward(q, pc).who = q.who
  BY DEF Onward, TaskSet
<1> QED
  BY <1>1 DEF TaskFits

LEMMA GotoIs ==
  ASSUME NEW t \in ReviewTasks, task \in [ReviewTasks -> TaskSet], NEW pc, Goto(t, pc)
  PROVE  task' = [task EXCEPT ![t] = Onward(task[t], pc)]
BY DEF Goto, Onward

\* The steps in which a request reads.
Looks(t) ==
  \/ Permitted(t) \/ Find(t) \/ Look(t)
  \/ LookForVote(t) \/ LookAgain(t) \/ FindVote(t)
LEMMA LookingStep ==
  ASSUME ReviewInv, NEW t \in ReviewTasks, Looks(t)
  PROVE  ReviewInv'
<1>1. task[t] \in TaskSet /\ TaskFits(task[t]) /\ task \in [ReviewTasks -> TaskSet]
  BY DEF ReviewInv
<1>2. task[t].pc # "publish" /\ task[t].pc # "idle"
  BY DEF Looks, Permitted, Find, Look, LookForVote, LookAgain, FindVote, At
<1>3. UNCHANGED <<review, votes, may, scores, sent, outdated, second>>
  BY DEF Looks, Permitted, Find, Look, LookForVote, LookAgain, FindVote
<1>4. Finish(t) \/ \E pc \in {"find", "insert", "isLiked", "publish", "update",
                      "again", "findVote", "insertVote", "deleteVote"} :
         /\ Goto(t, pc)
         /\ pc \in {"update", "again", "findVote", "insertVote", "deleteVote"} => Exists(task[t].on)
  <2>1. CASE Permitted(t)
    BY <2>1 DEF Permitted
  <2>2. CASE Find(t)
    BY <2>2 DEF Find
  <2>3. CASE Look(t)
    BY <2>3 DEF Look, MayEdit
  <2>4. CASE LookForVote(t)
    BY <2>4 DEF LookForVote
  <2>5. CASE LookAgain(t)
    BY <2>5, <1>1 DEF LookAgain, TaskFits, At
  <2>6. CASE FindVote(t)
    BY <2>6, <1>1 DEF FindVote, TaskFits, At
  <2> QED
    BY <2>1, <2>2, <2>3, <2>4, <2>5, <2>6 DEF Looks
<1>5. CASE Finish(t)
  BY <1>2, <1>3, <1>5, NoTaskFits, TaskMoves DEF Finish
<1>6. ASSUME NEW pc \in {"find", "insert", "isLiked", "publish", "update",
                      "again", "findVote", "insertVote", "deleteVote"}, Goto(t, pc),
             pc \in {"update", "again", "findVote", "insertVote", "deleteVote"} => Exists(task[t].on)
      PROVE  ReviewInv'
  <2>1. TaskFits(Onward(task[t], pc))
    BY <1>1, <1>2, <1>6, OnwardFits
  <2>2. task' = [task EXCEPT ![t] = Onward(task[t], pc)]
    BY <1>1, <1>6, GotoIs
  <2> QED
    BY <1>2, <1>3, <2>1, <2>2, TaskMoves
<1> QED
  BY <1>4, <1>5, <1>6

LEMMA OperateStep ==
  ASSUME ReviewInv, NEW t \in ReviewTasks, NEW op \in Operations, NEW k \in Keys, NEW u \in Writers, Operate(t, op, k, u)
  PROVE  ReviewInv'
<1>1. PICK pc \in {"permit", "look", "isLiked"} :
        task' = [task EXCEPT ![t] = [pc |-> pc, op |-> op, on |-> k, who |-> u, version |-> 0]]
  BY DEF Operate
<1>2. TaskFits([pc |-> pc, op |-> op, on |-> k, who |-> u, version |-> 0])
  BY DEF TaskFits, TaskSet
<1>3. task[t].pc # "publish" /\ UNCHANGED <<review, votes, may, scores, sent, outdated, second>>
  BY DEF Operate
<1> QED
  BY <1>1, <1>2, <1>3, TaskMoves

-----------------------------------------------------------------------------
\* The request has written (Written): another message is due, or nobody sends one.
LEMMA WrittenKeeps ==
  ASSUME ReviewInv, NEW t \in ReviewTasks, task[t].pc \in {"insert", "update"}, TaskFits(task[t]),
         Written(t), UNCHANGED sent,
         \A k \in Keys : Exists(k) => Exists(k)'
  PROVE  /\ task' \in [ReviewTasks -> TaskSet] /\ (\A s \in ReviewTasks : TaskFits(task[s]))'
         /\ outdated' \subseteq Messages
         /\ \A m : Due(m) => Due(m)'
         /\ \A m \in Told(task[t].on) : Due(m)'
<1>1. task \in [ReviewTasks -> TaskSet] /\ \A s \in ReviewTasks : TaskFits(task[s])
  BY DEF ReviewInv
<1>2. task[t].on \in Keys /\ task[t].pc # "idle"
  BY DEF TaskFits
<1>3. PICK q : /\ TaskFits(q) /\ q.pc \in {"idle", "publish"} /\ task' = [task EXCEPT ![t] = q]
               /\ q.pc = "publish" => q.op \in {"create2", "edit2"} /\ q.on = task[t].on
               /\ q.pc = "idle" => outdated' = outdated \cup Told(task[t].on)
               /\ q.pc = "publish" => outdated' = outdated
  <2>1. CASE task[t].op \in {"create2", "edit2"}
    <3>1. task' = [task EXCEPT ![t] = Onward(task[t], "publish")] /\ outdated' = outdated
      BY <1>1, <2>1, GotoIs DEF Written
    <3>2. TaskFits(Onward(task[t], "publish"))
      BY <1>1, <1>2, OnwardFits
    <3>3. Onward(task[t], "publish").pc = "publish" /\ Onward(task[t], "publish").op = task[t].op
          /\ Onward(task[t], "publish").on = task[t].on
      BY <1>1 DEF Onward, TaskSet
    <3> QED
      BY <2>1, <3>1, <3>2, <3>3
  <2>2. CASE task[t].op \notin {"create2", "edit2"}
    <3>1. task' = [task EXCEPT ![t] = NoTask] /\ outdated' = outdated \cup Told(task[t].on)
      BY <2>2 DEF Written, Finish
    <3>2. NoTask.pc = "idle"
      BY DEF NoTask
    <3> QED
      BY <3>1, <3>2, NoTaskFits
  <2> QED
    BY <2>1, <2>2
<1>4. \A s \in ReviewTasks : task'[s] \in {q, task[s]}
  BY <1>1, <1>3
<1>5. q \in TaskSet /\ TaskFits(q)
  BY <1>3 DEF TaskFits
<1>6. task' \in [ReviewTasks -> TaskSet] /\ (\A s \in ReviewTasks : TaskFits(task[s]))'
  <2>1. \A s \in ReviewTasks : TaskFits(task[s])'
    BY <1>1, <1>4, <1>5 DEF TaskFits
  <2> QED
    BY <1>1, <1>3, <1>5, <2>1
<1>7. outdated' \subseteq Messages
  BY <1>2, <1>3, MessageParts DEF ReviewInv, Derivations, Messages
<1>8. \A m : Due(m) => Due(m)'
  BY <1>1, <1>3, DueStays
<1>9. ASSUME NEW m \in Told(task[t].on) PROVE Due(m)'
  <2>1. CASE q.pc = "idle"
    BY <1>3, <1>9, <2>1 DEF Due
  <2>2. CASE q.pc = "publish"
    <3>1. task'[t] = q
      BY <1>1, <1>3
    <3> QED
      BY <1>3, <1>9, <2>2, <3>1 DEF Due, ToPublish, Told
  <2> QED
    BY <1>3, <2>1, <2>2
<1> QED
  BY <1>6, <1>7, <1>8, <1>9

\* A review is written: row r takes the place of the review of k.
LEMMA WritingKeeps ==
  ASSUME ReviewInv, NEW k \in Keys, NEW r \in ReviewSet, r.id # 0,
         review' = [review EXCEPT ![k] = r], UNCHANGED <<votes, may, scores, sent, second>>,
         outdated' \subseteq Messages, task' \in [ReviewTasks -> TaskSet], (\A s \in ReviewTasks : TaskFits(task[s]))',
         Numbered', r.like = review[k].like,
         \A m : Due(m) => Due(m)', \A m \in Told(k) : Due(m)'
  PROVE  ReviewInv'
<1>0. review \in [Keys -> ReviewSet]
  BY DEF ReviewInv, ReviewRows
<1>1. review'[k] = r /\ \A j \in Keys \ {k} : review'[j] = review[j]
  BY <1>0
<1>2. ReviewRows'
  BY <1>0, <1>1 DEF ReviewInv, ReviewRows, Exists
<1>3. Derivations'
  BY DEF ReviewInv, Derivations
<1>4. Derivable'
  <2> SUFFICES ASSUME NEW j \in Keys
               PROVE  (\A m \in Told(j) : j[1] \in Sources(m) => ScoreKept(m, j)') /\ LikesKept(j)'
    BY DEF Derivable
  <2>1. (\A m \in Told(j) : j[1] \in Sources(m) => ScoreKept(m, j)) /\ LikesKept(j)
    BY DEF ReviewInv, Derivable
  <2>2. CASE j = k
    BY <1>1, <2>1, <2>2 DEF ScoreKept, LikesKept
  <2>3. CASE j # k
    BY <1>1, <2>1, <2>3 DEF ScoreKept, LikesKept
  <2> QED
    BY <2>2, <2>3
<1> QED
  BY <1>2, <1>3, <1>4 DEF ReviewInv

LEMMA InsertStep ==
  ASSUME ReviewInv, NEW t \in ReviewTasks, Insert(t)
  PROVE  ReviewInv'
<1>0. /\ task \in [ReviewTasks -> TaskSet] /\ TaskFits(task[t]) /\ task[t].pc = "insert"
      /\ review \in [Keys -> ReviewSet] /\ UNCHANGED <<votes, may, scores, sent, second>>
  BY DEF ReviewInv, ReviewRows, Insert, At
<1>k. task[t].on \in Keys
  BY <1>0 DEF TaskFits
<1>1. CASE Exists(task[t].on)
  BY <1>0, <1>1, NoTaskFits, TaskMoves DEF Insert, Finish
<1>2. CASE ~Exists(task[t].on)
  <2> DEFINE r == [id |-> Cardinality(Reviewed) + 1, version |-> 1, at |-> second, like |-> 0, hidden |-> FALSE]
  <2>1. review' = [review EXCEPT ![task[t].on] = r] /\ Written(t)
    BY <1>2 DEF Insert
  <2>2. r \in ReviewSet /\ r.id # 0 /\ r.id = Cardinality(Reviewed) + 1 /\ r.like = 0
    BY ReviewedFinite, ReviewsAssumption DEF ReviewInv, ReviewRows, ReviewSet
  <2> HIDE DEF r
  <2>3. PICK k \in Keys : k = task[t].on
    BY <1>k
  <2>4. review'[k] = r /\ \A j \in Keys \ {k} : review'[j] = review[j]
    BY <1>0, <2>1, <2>3
  <2>5. Reviewed' = Reviewed \cup {k} /\ k \notin Reviewed
    BY <1>2, <2>2, <2>3, <2>4 DEF Reviewed, Exists
  <2>6. Cardinality(Reviewed') = Cardinality(Reviewed) + 1 /\ Cardinality(Reviewed) \in Nat
    BY <2>5, FS_AddElement, ReviewedFinite
  <2>7. Numbered'
    <3>1. \A j \in Reviewed : review[j].id \in 1..Cardinality(Reviewed)
      BY DEF ReviewInv, Numbered
    <3>2. \A i, j \in Reviewed : review[i].id = review[j].id => i = j
      BY DEF ReviewInv, Numbered
    <3>3. \A j \in Reviewed : review'[j] = review[j]
      BY <2>4, <2>5 DEF Reviewed
    <3>4. \A j \in Reviewed' : review'[j].id \in 1..Cardinality(Reviewed')
      BY <2>2, <2>4, <2>5, <2>6, <3>1, <3>3
    <3>5. \A j \in Reviewed : review'[j].id # review'[k].id
      BY <2>2, <2>4, <2>6, <3>1, <3>3
    <3>6. \A i, j \in Reviewed' : review'[i].id = review'[j].id => i = j
      BY <2>5, <3>2, <3>3, <3>5
    <3> QED
      BY <3>4, <3>6 DEF Numbered
  <2>8. Exists(k)' /\ \A j \in Keys : Exists(j) => Exists(j)'
    BY <2>2, <2>4 DEF Exists
  <2>9. review[k].like = 0
    BY <1>2, <2>3 DEF ReviewInv, ReviewRows, NoReview
  <2> QED
    BY <1>0, <2>1, <2>2, <2>3, <2>7, <2>8, <2>9, WrittenKeeps, WritingKeeps
<1> QED
  BY <1>1, <1>2

\* A row changes under its id.
LEMMA SameNumbers ==
  ASSUME ReviewInv, NEW k \in Keys, NEW r, r.id = review[k].id, review' = [review EXCEPT ![k] = r]
  PROVE  Numbered' /\ \A j \in Keys : (Exists(j)' <=> Exists(j))
<1>0. review \in [Keys -> ReviewSet]
  BY DEF ReviewInv, ReviewRows
<1>1. \A j \in Keys : review'[j].id = review[j].id
  BY <1>0
<1>2. Reviewed' = Reviewed /\ \A j \in Keys : (Exists(j)' <=> Exists(j))
  BY <1>1 DEF Reviewed, Exists
<1>3. Reviewed \subseteq Keys /\ Numbered
  BY DEF Reviewed, ReviewInv
<1>4. Numbered'
  BY <1>1, <1>2, <1>3 DEF Numbered
<1> QED
  BY <1>2, <1>4

LEMMA UpdateStep ==
  ASSUME ReviewInv, NEW t \in ReviewTasks, Update(t)
  PROVE  ReviewInv'
<1>0. /\ TaskFits(task[t]) /\ task[t].pc = "update" /\ review \in [Keys -> ReviewSet]
      /\ UNCHANGED <<votes, may, scores, sent, second>> /\ Written(t)
  BY DEF ReviewInv, ReviewRows, Update, At
<1>1. PICK k \in Keys : k = task[t].on /\ Exists(k)
  BY <1>0 DEF TaskFits
<1>2. PICK r : r = [review[k] EXCEPT !.version = @ + 1]
  OBVIOUS
<1>3. review' = [review EXCEPT ![k] = r]
  BY <1>1, <1>2 DEF Update
<1>4. review[k] \in ReviewSet /\ review[k].version < MaxVersions
  BY <1>0, <1>1 DEF Update
<1>5. r \in ReviewSet /\ r.id = review[k].id /\ r.like = review[k].like
  BY <1>2, <1>4, ReviewsAssumption DEF ReviewSet
<1>6. Numbered' /\ \A j \in Keys : Exists(j) => Exists(j)'
  BY <1>3, <1>5, SameNumbers
<1>7. r.id # 0
  BY <1>1, <1>5 DEF Exists
<1> QED
  BY <1>0, <1>1, <1>3, <1>5, <1>6, <1>7, WrittenKeeps, WritingKeeps

-----------------------------------------------------------------------------
\* Votes for a review that is there change, and the request will publish.
LEMMA VoteKeeps ==
  ASSUME ReviewInv, NEW t \in ReviewTasks, task[t].op \in {"like", "unlike1", "unlike2"},
         task[t].pc \in {"insertVote", "deleteVote"}, Goto(t, "publish"),
         NEW V \in SUBSET Writers, votes' = [votes EXCEPT ![task[t].on] = V],
         UNCHANGED <<review, may, scores, sent, outdated, second>>
  PROVE  ReviewInv'
<1>0. /\ task \in [ReviewTasks -> TaskSet] /\ TaskFits(task[t]) /\ votes \in [Keys -> SUBSET Writers]
      /\ \A s \in ReviewTasks : TaskFits(task[s])
  BY DEF ReviewInv, ReviewRows
<1>1. PICK k \in Keys : k = task[t].on /\ Exists(k)
  BY <1>0 DEF TaskFits
<1>2. PICK q : q = Onward(task[t], "publish")
  OBVIOUS
<1>3. task' = [task EXCEPT ![t] = q]
  BY <1>0, <1>2, GotoIs
<1>4. TaskFits(q) /\ q \in TaskSet
  <2>1. TaskFits(q)
    BY <1>0, <1>2, OnwardFits
  <2> QED
    BY <2>1 DEF TaskFits
<1>5. q.pc = "publish" /\ q.op = task[t].op /\ q.on = k
  BY <1>0, <1>1, <1>2 DEF Onward, TaskSet
<1>6. task'[t] = q /\ \A s \in ReviewTasks : task'[s] \in {q, task[s]}
  BY <1>0, <1>3
<1>7. ReviewRows'
  BY <1>0, <1>1 DEF ReviewInv, ReviewRows, Exists
<1>8. Derivations' /\ Numbered'
  BY DEF ReviewInv, Derivations, Numbered, Reviewed, Exists
<1>9. task' \in [ReviewTasks -> TaskSet] /\ (\A s \in ReviewTasks : TaskFits(task[s]))'
  <2>1. \A s \in ReviewTasks : TaskFits(task[s])'
    BY <1>0, <1>4, <1>6 DEF TaskFits, Exists
  <2> QED
    BY <1>0, <1>3, <1>4, <2>1
<1>10. \A m : Due(m) => Due(m)'
  BY <1>0, <1>3, DueStays
<1>11. Due(LikeCount(k))'
  BY <1>5, <1>6 DEF Due, ToPublish
<1>12. Derivable'
  <2> SUFFICES ASSUME NEW j \in Keys
               PROVE  (\A m \in Told(j) : j[1] \in Sources(m) => ScoreKept(m, j)') /\ LikesKept(j)'
    BY DEF Derivable
  <2>1. (\A m \in Told(j) : j[1] \in Sources(m) => ScoreKept(m, j)) /\ LikesKept(j)
    BY DEF ReviewInv, Derivable
  <2>2. \A m \in Told(j) : j[1] \in Sources(m) => ScoreKept(m, j)'
    BY <1>10, <2>1 DEF ScoreKept
  <2>3. CASE j = k
    BY <1>11, <2>2, <2>3 DEF LikesKept
  <2>4. CASE j # k
    <3>1. votes'[j] = votes[j]
      BY <1>0, <1>1, <2>4
    <3> QED
      BY <1>10, <2>1, <2>2, <3>1 DEF LikesKept
  <2> QED
    BY <2>3, <2>4
<1> QED
  BY <1>7, <1>8, <1>9, <1>12 DEF ReviewInv

LEMMA VoteStep ==
  ASSUME ReviewInv, NEW t \in ReviewTasks, InsertVote(t) \/ DeleteVote(t)
  PROVE  ReviewInv'
<1>0. /\ TaskFits(task[t]) /\ votes \in [Keys -> SUBSET Writers]
      /\ task[t].pc \in {"insertVote", "deleteVote"} /\ task[t].op \in {"like", "unlike1", "unlike2"}
      /\ UNCHANGED <<review, may, scores, sent, outdated, second>>
  BY DEF ReviewInv, ReviewRows, InsertVote, DeleteVote, At
<1>1. task[t].on \in Keys /\ task[t].who \in Writers
  BY <1>0 DEF TaskFits
<1>2. CASE Finish(t) /\ UNCHANGED votes
  BY <1>0, <1>2, NoTaskFits, TaskMoves DEF Finish
<1>3. CASE ~(Finish(t) /\ UNCHANGED votes)
  <2>1. Goto(t, "publish") /\ \/ votes' = [votes EXCEPT ![task[t].on] = @ \cup {task[t].who}]
                              \/ votes' = [votes EXCEPT ![task[t].on] = @ \ {task[t].who}]
    BY <1>3 DEF InsertVote, DeleteVote
  <2>2. PICK V \in SUBSET Writers : votes' = [votes EXCEPT ![task[t].on] = V]
    BY <1>0, <1>1, <2>1
  <2> QED
    BY <1>0, <2>1, <2>2, VoteKeeps
<1> QED
  BY <1>2, <1>3

LEMMA PublishStep ==
  ASSUME ReviewInv, NEW t \in ReviewTasks, PublishScores(t)
  PROVE  ReviewInv'
<1>0. /\ task \in [ReviewTasks -> TaskSet] /\ TaskFits(task[t]) /\ task[t].pc = "publish"
      /\ \A s \in ReviewTasks : TaskFits(task[s])
      /\ UNCHANGED <<review, votes, may, scores, second>> /\ task' = [task EXCEPT ![t] = NoTask]
  BY DEF ReviewInv, PublishScores, At, Finish
<1>1. PICK lost \in SUBSET ToPublish(t) : /\ sent' = sent \cup (ToPublish(t) \ lost)
                                         /\ outdated' = outdated \cup lost
  BY DEF PublishScores
<1>2. ToPublish(t) \subseteq Messages
  <2>1. task[t].on \in Keys
    BY <1>0 DEF TaskFits
  <2> QED
    BY <2>1, MessageParts DEF ToPublish, Messages
<1>3. \A m : Due(m) => Due(m)'
  <2> SUFFICES ASSUME NEW m, Due(m) PROVE Due(m)'
    OBVIOUS
  <2>1. CASE m \in sent \cup outdated
    BY <1>1, <2>1 DEF Due
  <2>2. CASE m \in ToPublish(t)
    BY <1>1, <2>2 DEF Due
  <2>3. CASE m \notin sent \cup outdated /\ m \notin ToPublish(t)
    <3>1. PICK s \in ReviewTasks : task[s].pc = "publish" /\ m \in ToPublish(s)
      BY <2>3 DEF Due
    <3>2. task'[s] = task[s]
      BY <1>0, <2>3, <3>1
    <3> QED
      BY <3>1, <3>2 DEF Due, ToPublish, Told
  <2> QED
    BY <2>1, <2>2, <2>3
<1>4. ReviewRows' /\ Numbered' /\ Derivations'
  BY <1>0, <1>1, <1>2 DEF ReviewInv, ReviewRows, Derivations, Numbered, Reviewed, Exists
<1>5. task' \in [ReviewTasks -> TaskSet] /\ (\A s \in ReviewTasks : TaskFits(task[s]))'
  <2>1. \A s \in ReviewTasks : task'[s] \in {NoTask, task[s]}
    BY <1>0
  <2>2. NoTask \in TaskSet /\ TaskFits(NoTask)
    BY NoTaskFits DEF TaskFits
  <2>3. \A s \in ReviewTasks : TaskFits(task[s])'
    BY <1>0, <2>1, <2>2 DEF TaskFits, Exists
  <2> QED
    BY <1>0, <2>2, <2>3
<1>6. Derivable'
  <2> SUFFICES ASSUME NEW k \in Keys
               PROVE  (\A m \in Told(k) : k[1] \in Sources(m) => ScoreKept(m, k)') /\ LikesKept(k)'
    BY DEF Derivable
  <2>1. (\A m \in Told(k) : k[1] \in Sources(m) => ScoreKept(m, k)) /\ LikesKept(k)
    BY DEF ReviewInv, Derivable
  <2> QED
    BY <1>0, <1>3, <2>1 DEF ScoreKept, LikesKept
<1> QED
  BY <1>4, <1>5, <1>6 DEF ReviewInv

-----------------------------------------------------------------------------
\* When a message is handled, no other message is lost by it.
LEMMA HandledOnly ==
  ASSUME NEW n, Handled(n), UNCHANGED task
  PROVE  /\ \A m : Due(m) /\ m # n => Due(m)'
         /\ sent' \subseteq sent /\ outdated' \subseteq outdated
BY DEF Handled, Due, ToPublish, Told

LEMMA ScoreStep ==
  ASSUME ReviewInv, NEW n \in Scores, Handled(n), scores' = [scores EXCEPT ![n] = Scored(n)],
         UNCHANGED <<review, votes, may, second, task>>
  PROVE  ReviewInv'
<1>0. review \in [Keys -> ReviewSet] /\ scores \in [Scores -> [Keys -> Nat]]
  BY DEF ReviewInv, ReviewRows, Derivations
<1>1. \A k \in Keys : Scored(n)[k] \in Nat /\ (k[1] \in Sources(n) => Scored(n)[k] = review[k].version)
  BY <1>0, ReviewsAssumption DEF Scored, Versions, ReviewSet
<1>2. Scored(n) \in [Keys -> Nat]
  BY <1>1 DEF Scored
<1>3. ReviewRows' /\ Numbered'
  BY DEF ReviewInv, ReviewRows, Numbered, Reviewed, Exists
<1>4. Derivations'
  BY <1>0, <1>2, HandledOnly DEF ReviewInv, Derivations
<1>5. task' \in [ReviewTasks -> TaskSet] /\ (\A s \in ReviewTasks : TaskFits(task[s]))'
  BY DEF ReviewInv, TaskFits, Exists
<1>6. Derivable'
  <2> SUFFICES ASSUME NEW k \in Keys
               PROVE  (\A m \in Told(k) : k[1] \in Sources(m) => ScoreKept(m, k)') /\ LikesKept(k)'
    BY DEF Derivable
  <2>1. (\A m \in Told(k) : k[1] \in Sources(m) => ScoreKept(m, k)) /\ LikesKept(k)
    BY DEF ReviewInv, Derivable
  <2>2. LikeCount(k) # n
    BY MessageParts
  <2>3. LikesKept(k)'
    BY <2>1, <2>2, HandledOnly DEF LikesKept
  <2>4. ASSUME NEW m \in Told(k), k[1] \in Sources(m) PROVE ScoreKept(m, k)'
    <3>1. m \in Scores
      BY MessageParts
    <3>2. CASE m = n
      BY <1>0, <1>1, <2>4, <3>1, <3>2 DEF ScoreKept
    <3>3. CASE m # n
      <4>1. scores'[m] = scores[m]
        BY <1>0, <3>1, <3>3
      <4> QED
        BY <2>1, <2>4, <3>3, <4>1, HandledOnly DEF ScoreKept
    <3> QED
      BY <3>2, <3>3
  <2> QED
    BY <2>3, <2>4
<1> QED
  BY <1>3, <1>4, <1>5, <1>6 DEF ReviewInv

\* The likes, or the visibility, of a review change in its row.
LEMMA RowStep ==
  ASSUME ReviewInv, NEW k \in Keys, UpdateReviewLike(k) \/ Hide(k)
  PROVE  ReviewInv'
<1>0. review \in [Keys -> ReviewSet] /\ votes \in [Keys -> SUBSET Writers]
  BY DEF ReviewInv, ReviewRows
<1>1. review[k] \in ReviewSet /\ Cardinality(votes[k]) \in Nat
  BY <1>0, KeysFinite
<1>2. PICK r : /\ review' = [review EXCEPT ![k] = r]
               /\ \/ UpdateReviewLike(k) /\ r = [review[k] EXCEPT !.like = Cardinality(votes[k])]
                  \/ Hide(k) /\ r = [review[k] EXCEPT !.hidden = ~review[k].hidden]
  BY DEF UpdateReviewLike, Hide
<1>3. r \in ReviewSet /\ r.id = review[k].id /\ r.version = review[k].version
      /\ ((UpdateReviewLike(k) /\ r.like = Cardinality(votes[k])) \/ (Hide(k) /\ r.like = review[k].like))
  BY <1>1, <1>2 DEF ReviewSet
<1>4. Numbered' /\ \A j \in Keys : (Exists(j)' <=> Exists(j))
  BY <1>2, <1>3, SameNumbers
<1>5. review'[k] = r /\ \A j \in Keys \ {k} : review'[j] = review[j]
  BY <1>0, <1>2
<1>6. UNCHANGED <<votes, may, scores, second, task>>
  BY DEF UpdateReviewLike, Hide
<1>7. ~Exists(k) => r = NoReview
  <2> SUFFICES ASSUME ~Exists(k) PROVE r = NoReview
    OBVIOUS
  <2>1. review[k] = NoReview /\ votes[k] = {} /\ UpdateReviewLike(k) /\ ~Hide(k)
    BY <1>2 DEF ReviewInv, ReviewRows, Hide
  <2>2. r = [NoReview EXCEPT !.like = 0]
    BY <1>2, <2>1, FS_EmptySet
  <2> QED
    BY <2>2 DEF NoReview
<1>8. ReviewRows'
  <2>1. review' \in [Keys -> ReviewSet]
    BY <1>0, <1>2, <1>3
  <2>2. \A j \in Keys : ~Exists(j)' => review'[j] = NoReview /\ votes'[j] = {}
    BY <1>4, <1>5, <1>6, <1>7 DEF ReviewInv, ReviewRows
  <2> QED
    BY <1>6, <2>1, <2>2 DEF ReviewInv, ReviewRows
<1>9. sent' \subseteq sent /\ outdated' \subseteq outdated /\ \A m : Due(m) /\ (Hide(k) \/ m # LikeCount(k)) => Due(m)'
  <2>1. CASE UpdateReviewLike(k) /\ ~Hide(k)
    BY <1>6, <2>1, HandledOnly DEF UpdateReviewLike
  <2>2. CASE Hide(k)
    BY <1>6, <2>2 DEF Hide, Due, ToPublish, Told
  <2> QED
    BY <2>1, <2>2
<1>10. Derivations'
  BY <1>6, <1>9 DEF ReviewInv, Derivations
<1>11. task' \in [ReviewTasks -> TaskSet] /\ (\A s \in ReviewTasks : TaskFits(task[s]))'
  BY <1>4, <1>6 DEF ReviewInv, TaskFits
<1>12. Derivable'
  <2> SUFFICES ASSUME NEW j \in Keys
               PROVE  (\A m \in Told(j) : j[1] \in Sources(m) => ScoreKept(m, j)') /\ LikesKept(j)'
    BY DEF Derivable
  <2>1. (\A m \in Told(j) : j[1] \in Sources(m) => ScoreKept(m, j)) /\ LikesKept(j)
    BY DEF ReviewInv, Derivable
  <2>2. review'[j].version = review[j].version
    BY <1>3, <1>5
  <2>3. \A m \in Told(j) : m # LikeCount(k)
    BY MessageParts
  <2>4. \A m \in Told(j) : j[1] \in Sources(m) => ScoreKept(m, j)'
    BY <1>6, <1>9, <2>1, <2>2, <2>3 DEF ScoreKept
  <2>5. LikesKept(j)'
    <3>1. CASE j # k
      <4>1. LikeCount(j) # LikeCount(k)
        BY <3>1, MessageParts
      <4> QED
        BY <1>5, <1>6, <1>9, <2>1, <3>1, <4>1 DEF LikesKept
    <3>2. CASE j = k /\ Hide(k) /\ r.like = review[k].like
      BY <1>5, <1>6, <1>9, <2>1, <3>2 DEF LikesKept
    <3>3. CASE j = k /\ r.like = Cardinality(votes[k])
      BY <1>5, <1>6, <3>3 DEF LikesKept
    <3> QED
      BY <1>3, <3>1, <3>2, <3>3
  <2> QED
    BY <2>4, <2>5
<1> QED
  BY <1>4, <1>8, <1>10, <1>11, <1>12 DEF ReviewInv

\* The clock, and what may be reviewed.
LEMMA AroundReviewsStep ==
  ASSUME ReviewInv, UNCHANGED <<review, votes, scores, sent, outdated, task>>,
         may' \subseteq Keys, second' \in Nat
  PROVE  ReviewInv'
<1>1. ReviewRows' /\ Derivations' /\ Numbered'
  BY DEF ReviewInv, ReviewRows, Derivations, Numbered, Reviewed, Exists
<1>2. task' \in [ReviewTasks -> TaskSet] /\ (\A s \in ReviewTasks : TaskFits(task[s]))'
  BY DEF ReviewInv, TaskFits, Exists
<1>3. Derivable'
  BY DEF ReviewInv, Derivable, ScoreKept, LikesKept, Due, ToPublish, Told
<1> QED
  BY <1>1, <1>2, <1>3 DEF ReviewInv

LEMMA ReviewsStep == ReviewInv /\ [ReviewsNext]_reviewVars => ReviewInv'
<1> SUFFICES ASSUME ReviewInv, [ReviewsNext]_reviewVars PROVE ReviewInv'
  OBVIOUS
<1>0. may \subseteq Keys /\ second \in Nat
  BY DEF ReviewInv, ReviewRows
<1>1. CASE TaskSteps
  BY <1>1, OperateStep, LookingStep, InsertStep, UpdateStep, VoteStep, PublishStep DEF TaskSteps, Looks
<1>2. ASSUME NEW l \in Lectures, UpdateCourseScore(l) \/ UpdateLectureScore(l) PROVE ReviewInv'
  BY <1>2, MessageParts, ScoreStep DEF UpdateCourseScore, UpdateLectureScore
<1>3. ASSUME NEW k \in Keys, UpdateReviewLike(k) \/ Hide(k) PROVE ReviewInv'
  BY <1>3, RowStep
<1>4. ASSUME NEW k \in Keys, Permit(k) PROVE ReviewInv'
  BY <1>0, <1>4, AroundReviewsStep DEF Permit
<1>5. CASE TickReviews
  BY <1>0, <1>5, AroundReviewsStep DEF TickReviews
<1>6. CASE UNCHANGED reviewVars
  BY <1>0, <1>6, AroundReviewsStep DEF reviewVars
<1> QED
  BY <1>1, <1>2, <1>3, <1>4, <1>5, <1>6 DEF ReviewsNext

\* Whatever is written, edited, liked, hidden and derived at the same time:
\* the rows, the requests in progress and the messages fit together.
THEOREM ReviewsHold == ReviewsSpec => []ReviewInv
BY ReviewsStart, ReviewsStep, PTL DEF ReviewsSpec

\* When no request is handled and no message left, the scores and likes were
\* computed from what the reviews and votes are now, for any lectures, writers
\* and requests: a request publishes after its last write, and a handler reads
\* when it runs.
THEOREM CountsAlwaysCatchUp == ReviewsSpec => []CountsCatchUp
<1>1. ReviewInv => CountsCatchUp
  <2> SUFFICES ASSUME ReviewInv PROVE CountsCatchUp
    OBVIOUS
  <2>1. ReviewTypes
    <3>1. Reviewed \in SUBSET Keys /\ IsFiniteSet(Keys)
      BY KeysFinite DEF Reviewed
    <3>2. Cardinality(Reviewed) <= Cardinality(Keys) /\ Cardinality(Reviewed) \in Nat /\ Cardinality(Keys) \in Nat
      BY <3>1, FS_Subset, FS_CardinalityType
    <3>3. \A k \in Keys : review[k].id \in 0..Cardinality(Keys)
      BY <3>2 DEF ReviewInv, Numbered, Reviewed, Exists
    <3> QED
      BY <3>3 DEF ReviewInv, ReviewRows, Derivations, Numbered, TaskFits, ReviewTypes, ReviewSet
  <2>2. ASSUME \A t \in ReviewTasks : task[t].pc = "idle", sent = {}, NEW k \in Keys
        PROVE  /\ \A m \in Told(k) \ outdated : k[1] \in Sources(m) => scores[m][k] = review[k].version
               /\ LikeCount(k) \notin outdated => review[k].like = Cardinality(votes[k])
    <3>1. \A m : Due(m) => m \in outdated
      BY <2>2 DEF Due
    <3> QED
      BY <3>1 DEF ReviewInv, Derivable, ScoreKept, LikesKept
  <2> QED
    BY <2>1, <2>2 DEF CountsCatchUp
<1> QED
  BY <1>1, ReviewsHold, PTL
-----------------------------------------------------------------------------
(***************************************************************************)
(* Accounts.  Visits look rows up and complete them one statement at a     *)
(* time; the invariant says what each has seen and what it will still do,  *)
(* and where the cookies of a device can be while requests are answered.   *)
(***************************************************************************)
\* The cookies of a login of p at T, and a browser's at any time.
Pair(p, T) == [access  |-> [who |-> p, exp |-> T + AccessTtl],
               refresh |-> [who |-> p, exp |-> T + RefreshTtl]]
JarFits(j) == j = NoJar \/ \E p \in Persons, T \in 0..now : j = Pair(p, T)
Jars == [access : [who : Persons \cup {NoOne}, exp : Nat], refresh : [who : Persons \cup {NoOne}, exp : Nat]]
HasSid(p) == \E i \in DOMAIN rows : rows[i].sid = p
HasUid(p) == \E i \in DOMAIN rows : rows[i].uid = p

\* A row is of one person, and a person has one row unless the cause is known.
RowFits(x) == \E p \in Persons : x \in {RowOf(p, p), RowOf(p, NoOne), RowOf(NoOne, p)}
AccountRows ==
  /\ rows \in Seq(RowType) /\ now \in 0..MaxTime
  /\ \A i \in DOMAIN rows : RowFits(rows[i])
  /\ \A p \in Persons \ split : \A i, j \in RowsOf(p) : i = j

\* Visits: the cookies are signed, the row is there, the callback completes it.
Signing == {"write", "provide", "own", "other", "fixSid", "fixUid", "answer"}
Saved   == Signing \ {"write"}
VisitSet ==
  [pc : {"idle", "sid", "uid", "known", "again", "register", "done"} \cup Signing,
   who : Persons \cup {NoOne}, dev : Devices \cup {NoOne}, app : BOOLEAN,
   row : Nat, own : Nat, other : Nat,
   jar : Jars, met : BOOLEAN]
Going(y) == y.pc \notin {"idle", "done"}
\* What is missing in row x of the visitor will be filled in.
Completing(y, x) ==
  /\ y.pc \in {"other", "fixSid"} => y.own # 0 \/ x.sid = y.who
  /\ y.pc \in {"fixSid", "fixUid"} => y.other # 0 \/ x.uid = y.who
  /\ y.pc \in {"fixUid", "answer"} => x.sid = y.who
  /\ y.pc = "answer" => x.uid = y.who
\* A visit that met no other of its person knows that there is no row.
Unmet(y) ==
  /\ y.pc = "uid" => ~HasSid(y.who)
  /\ y.pc = "write" /\ y.row = 0 => RowsOf(y.who) = {}
  /\ y.pc = "register" /\ y.row = 0 => ~HasUid(y.who)
Looked(y) ==
  /\ {y.row, y.own, y.other} \subseteq {0} \cup DOMAIN rows
  /\ Going(y) => /\ y.row # 0 => y.row \in RowsOf(y.who)
                 /\ y.own # 0 => rows[y.own].uid = y.who
                 /\ y.other # 0 => rows[y.other].sid = y.who
VisitFits(y) ==
  /\ y \in VisitSet /\ Looked(y)
  /\ Going(y) => /\ y.who \in Persons /\ (y.app <=> y.pc \in {"known", "again", "register"})
                 /\ ~y.app => y.dev \in Devices
  /\ y.pc \in Signing => \E T \in 0..now : y.jar = Pair(y.who, T)
  /\ y.pc \in Saved => RowsOf(y.who) # {}
  /\ y.pc \in {"other", "fixSid"} => y.own # 0 \/ HasSid(y.who)
  /\ y.pc \in {"fixUid", "answer"} => HasSid(y.who)
  /\ Going(y) /\ y.who \notin split => \A i \in RowsOf(y.who) : Completing(y, rows[i])
  /\ ~y.met => Unmet(y)
Meet(y, z) == Going(y) /\ Going(z) /\ y.who = z.who => y.met
VisitsFit ==
  /\ visit \in [Visits -> VisitSet] /\ \A v \in Visits : VisitFits(visit[v])
  /\ \A v, w \in Visits : v # w => Meet(visit[v], visit[w])

\* Sessions.  A request that is answered with a renewed session used a living
\* one, and none lives longer than it was given.
Renews(q) ==
  /\ q.set # NoJar /\ (q.over \/ q.at < q.jar.refresh.exp) => q.at + RefreshTtl - AccessTtl <= q.set.refresh.exp
  /\ ~q.over => q.set = q.jar
  /\ q.handed => q.set # NoJar
RequestFits(q) ==
  q.pc = "answered" => /\ q.dev \in Devices /\ q.at \in 0..now
                       /\ JarFits(q.jar) /\ JarFits(q.set) /\ Renews(q)
RequestSet == [pc : {"idle", "answered"}, dev : Devices \cup {NoOne},
           jar : Jars, set : Jars, over : BOOLEAN, handed : BOOLEAN, at : Nat]
\* Tokens that are handed out are of persons, and live no longer than given.
TokenFits(t) == t.who \in Persons /\ t.exp \in 0..now + RefreshTtl
OfUse(d) ==
  sole[d] => IF used[d] = -1 THEN jar[d] = NoJar
             ELSE jar[d] # NoJar /\ used[d] + RefreshTtl - AccessTtl <= jar[d].refresh.exp
Visited(y, d) == Going(y) /\ ~y.app /\ y.dev = d
Awaited(q, d) == q.pc = "answered" /\ q.dev = d
\* A device that is used for one thing at a time has its cookies in one place.
InTurn(d) ==
  sole[d] =>
    /\ \A a \in Asks : Awaited(asking[a], d) =>
         /\ asking[a].jar = jar[d]
         /\ \A b \in Asks \ {a} : ~Awaited(asking[b], d)
         /\ \A v \in Visits : ~Visited(visit[v], d)
    /\ \A v, w \in Visits : Visited(visit[v], d) /\ Visited(visit[w], d) => v = w
Kept(p) == HasSession(p) => HasSid(p) /\ (p \notin split => \A i \in RowsOf(p) : rows[i] = RowOf(p, p))
SessionsFit ==
  /\ jar \in [Devices -> Jars] /\ sole \in [Devices -> BOOLEAN] /\ used \in [Devices -> Int]
  /\ asking \in [Asks -> RequestSet]
  /\ \A d \in Devices : JarFits(jar[d]) /\ used[d] \in -1..now /\ OfUse(d) /\ InTurn(d)
  /\ \A a \in Asks : RequestFits(asking[a])
  /\ \A t \in held : TokenFits(t)
  /\ \A p \in Persons : Kept(p)
AccountsInv == AccountRows /\ VisitsFit /\ SessionsFit

-----------------------------------------------------------------------------
\* A set of ids has a lowest one.
LEMMA LowestId ==
  ASSUME NEW S \in SUBSET Nat, 0 \notin S
  PROVE  (S = {} => First(S) = 0) /\ (S # {} => First(S) \in S)
<1>1. ASSUME S # {} PROVE \E i \in S : \A j \in S : i <= j
  <2> DEFINE R == {ss \in Nat \X Nat : ss[1] < ss[2]}
  <2>1. IsWellFoundedOn(R, Nat)
    BY NatLessThanWellFounded DEF OpToRel
  <2>2. \A i, j \in Nat : j < i => <<j, i>> \in R
    OBVIOUS
  <2> HIDE DEF R
  <2>3. PICK i \in S : \A j \in S : ~ (<<j, i>> \in R)
    BY <1>1, <2>1, WFMin
  <2>4. \A j \in S : ~(j < i)
    BY <2>2, <2>3
  <2> QED
    BY <2>4
<1> QED
  BY <1>1 DEF First, Min

\* Whoever is looked for is found, if there is a row.
LEMMA Finds ==
  ASSUME rows \in Seq(RowType), NEW p
  PROVE  /\ FindBySid(p) \in Nat /\ FindByUid(p) \in Nat
         /\ FindBySid(p) # 0 => FindBySid(p) \in DOMAIN rows /\ rows[FindBySid(p)].sid = p
         /\ FindBySid(p) = 0 <=> ~HasSid(p)
         /\ FindByUid(p) # 0 => FindByUid(p) \in DOMAIN rows /\ rows[FindByUid(p)].uid = p
         /\ FindByUid(p) = 0 <=> ~HasUid(p)
<1>1. DOMAIN rows = 1..Len(rows) /\ Len(rows) \in Nat
  OBVIOUS
<1> DEFINE S == {i \in DOMAIN rows : rows[i].sid = p}
           U == {i \in DOMAIN rows : rows[i].uid = p}
<1>2. S \in SUBSET Nat /\ U \in SUBSET Nat /\ 0 \notin S /\ 0 \notin U
  BY <1>1
<1>3. FindBySid(p) = First(S) /\ FindByUid(p) = First(U)
  BY DEF FindBySid, FindByUid
<1>4. HasSid(p) <=> S # {}
  BY DEF HasSid
<1>5. HasUid(p) <=> U # {}
  BY DEF HasUid
<1>6. (S = {} => First(S) = 0) /\ (S # {} => First(S) \in S)
  BY <1>2, LowestId
<1>7. (U = {} => First(U) = 0) /\ (U # {} => First(U) \in U)
  BY <1>2, LowestId
<1>8. \A i \in S \cup U : i \in DOMAIN rows /\ i # 0 /\ i \in Nat
  BY <1>2
<1>9. (\A i \in S : rows[i].sid = p) /\ (\A i \in U : rows[i].uid = p)
  OBVIOUS
<1> HIDE DEF S, U
<1> QED
  BY <1>3, <1>4, <1>5, <1>6, <1>7, <1>8, <1>9

LEMMA RowKinds ==
  /\ \A p \in Persons : RowOf(p, p).sid = p /\ RowOf(p, p).uid = p
  /\ \A p \in Persons : RowOf(p, NoOne).sid = p /\ RowOf(p, NoOne).uid = NoOne
  /\ \A p \in Persons : RowOf(NoOne, p).sid = NoOne /\ RowOf(NoOne, p).uid = p
  /\ \A x : RowFits(x) => x \in RowType
  /\ \A p \in Persons : RowFits(RowOf(p, p)) /\ RowFits(RowOf(NoOne, p)) /\ p # NoOne
<1>1. \A p \in Persons : p # NoOne
  BY AccountsAssumption
<1>2. \A s, u : RowOf(s, u).sid = s /\ RowOf(s, u).uid = u
  BY DEF RowOf
<1>3. \A s, u \in Persons \cup {NoOne} : RowOf(s, u) \in RowType
  BY DEF RowOf, RowType
<1>4. \A x : RowFits(x) => x \in RowType
  BY <1>3 DEF RowFits
<1>5. \A p \in Persons : RowFits(RowOf(p, p)) /\ RowFits(RowOf(NoOne, p))
  BY DEF RowFits
<1> QED
  BY <1>1, <1>2, <1>4, <1>5

\* A row is of who it says, and of nobody else.
LEMMA RowsOfOne ==
  ASSUME AccountRows, NEW i \in DOMAIN rows, NEW p \in Persons
  PROVE  /\ i \in RowsOf(p) => rows[i] \in {RowOf(p, p), RowOf(p, NoOne), RowOf(NoOne, p)}
         /\ i \in RowsOf(p) <=> rows[i].sid = p \/ rows[i].uid = p
<1>1. PICK q \in Persons : rows[i] \in {RowOf(q, q), RowOf(q, NoOne), RowOf(NoOne, q)}
  BY DEF AccountRows, RowFits
<1>2. i \in RowsOf(p) <=> rows[i].sid = p \/ rows[i].uid = p
  BY DEF RowsOf
<1>3. rows[i].sid \in {q, NoOne} /\ rows[i].uid \in {q, NoOne} /\ p # NoOne
  BY <1>1, RowKinds
<1>4. i \in RowsOf(p) => p = q
  BY <1>2, <1>3
<1> QED
  BY <1>1, <1>2, <1>4

-----------------------------------------------------------------------------
\* Rows only grow: of person p, who gets a first row or one with a known cause.
GrownOf(q) ==
  /\ HasSid(q) => HasSid(q)'
  /\ RowsOf(q) \subseteq RowsOf(q)'
Grown(p) ==
  /\ split \subseteq split' /\ DOMAIN rows \subseteq DOMAIN rows'
  /\ \A i \in DOMAIN rows, q \in Persons :
       (rows[i].sid = q => rows'[i].sid = q) /\ (rows[i].uid = q => rows'[i].uid = q)
  /\ \A q \in Persons \ {p} : /\ q \in split' => q \in split
                             /\ RowsOf(q)' = RowsOf(q) /\ \A i \in RowsOf(q) : rows'[i] = rows[i]
  /\ p \notin split' => RowsOf(p)' = RowsOf(p) \/ RowsOf(p) = {}

\* Rows that do not change have grown.
LEMMA Ungrown ==
  ASSUME UNCHANGED <<rows, split>>, NEW p
  PROVE  Grown(p)
BY DEF Grown, RowsOf

\* What grown rows keep: what is found, whose rows they are, and the one cause.
LEMMA GrownRows ==
  ASSUME AccountRows, AccountRows', NEW p \in Persons, Grown(p), NEW q \in Persons
  PROVE  /\ HasSid(q) => HasSid(q)'
         /\ RowsOf(q) \subseteq RowsOf(q)'
         /\ q \notin split' => q \notin split /\ (RowsOf(q)' = RowsOf(q) \/ (q = p /\ RowsOf(q) = {}))
         /\ q # p => (HasUid(q)' <=> HasUid(q)) /\ (HasSid(q)' <=> HasSid(q))
<1>1. RowsOf(q) \subseteq RowsOf(q)'
  BY DEF RowsOf, Grown
<1>2. HasSid(q) => HasSid(q)'
  BY DEF HasSid, Grown
<1>3. q \notin split' => q \notin split /\ (RowsOf(q)' = RowsOf(q) \/ (q = p /\ RowsOf(q) = {}))
  BY DEF Grown
<1>4. ASSUME q # p PROVE (HasUid(q)' <=> HasUid(q)) /\ (HasSid(q)' <=> HasSid(q))
  <2>1. RowsOf(q)' = RowsOf(q) /\ \A i \in RowsOf(q) : rows'[i] = rows[i]
    BY <1>4 DEF Grown
  <2>2. RowsOf(q) = {i \in DOMAIN rows : rows[i].sid = q \/ rows[i].uid = q}
    BY DEF RowsOf
  <2>3. RowsOf(q)' = {i \in DOMAIN rows' : rows'[i].sid = q \/ rows'[i].uid = q}
    BY DEF RowsOf
  <2> QED
    BY <2>1, <2>2, <2>3 DEF HasSid, HasUid
<1> QED
  BY <1>1, <1>2, <1>3, <1>4

\* A visit still fits when rows of p have grown, if it is not a visit of p that
\* knows there is none.
LEMMA VisitKept ==
  ASSUME AccountRows, AccountRows', NEW p \in Persons, Grown(p), now <= now',
         NEW y, VisitFits(y), Going(y) => y.who # p \/ y.met
  PROVE  VisitFits(y)'
<1>0. now \in Nat /\ now' \in Nat /\ y \in VisitSet /\ (~Going(y) => y.pc \notin Signing)
  BY DEF AccountRows, VisitFits, Signing, Going
<1>1. ASSUME Going(y), y.who \notin split'
      PROVE  y.who \notin split /\ \A i \in RowsOf(y.who)' : Completing(y, rows[i])'
  <2>1. PICK u \in Persons : u = y.who
    BY <1>1 DEF VisitFits
  <2>2. u \notin split /\ (RowsOf(u)' = RowsOf(u) \/ (u = p /\ RowsOf(u) = {}))
    BY <1>1, <2>1, GrownRows
  <2>3. \A i \in RowsOf(u) : i \in DOMAIN rows /\ Completing(y, rows[i])
    BY <1>1, <2>1, <2>2 DEF VisitFits, RowsOf
  <2>4. \A i \in DOMAIN rows : (rows[i].sid = u => rows'[i].sid = u) /\ (rows[i].uid = u => rows'[i].uid = u)
    BY DEF Grown
  <2>5. \A i \in RowsOf(u) : Completing(y, rows'[i])
    BY <2>1, <2>3, <2>4 DEF Completing
  <2>6. CASE RowsOf(u)' = RowsOf(u)
    BY <2>1, <2>2, <2>5, <2>6 DEF Completing
  <2>7. CASE RowsOf(u) = {}
    <3>1. y.pc \notin Saved
      BY <2>1, <2>7 DEF VisitFits
    <3> QED
      BY <2>1, <2>2, <3>1 DEF Completing, Saved, Signing
  <2> QED
    BY <2>2, <2>6, <2>7
<1>2. Going(y) => y.who \in Persons
  BY DEF VisitFits
<1>3. ASSUME Going(y)
      PROVE  /\ HasSid(y.who) => HasSid(y.who)'
             /\ RowsOf(y.who) \subseteq RowsOf(y.who)'
             /\ (rows[y.own].uid = y.who /\ y.own # 0) => rows'[y.own].uid = y.who
             /\ (rows[y.other].sid = y.who /\ y.other # 0) => rows'[y.other].sid = y.who
  <2>1. PICK u \in Persons : u = y.who
    BY <1>2, <1>3
  <2>2. {y.own, y.other} \subseteq {0} \cup DOMAIN rows
    BY DEF VisitFits, Looked
  <2>3. (HasSid(u) => HasSid(u)') /\ RowsOf(u) \subseteq RowsOf(u)'
    BY GrownRows
  <2>4. \A i \in DOMAIN rows : (rows[i].sid = u => rows'[i].sid = u) /\ (rows[i].uid = u => rows'[i].uid = u)
    BY DEF Grown
  <2>5. (HasSid(u) => HasSid(u)') <=> (HasSid(y.who) => HasSid(y.who)')
    BY <2>1 DEF HasSid
  <2> QED
    BY <2>1, <2>2, <2>3, <2>4, <2>5 DEF HasSid, RowsOf
<1>4. Looked(y)'
  <2>1. {y.row, y.own, y.other} \subseteq {0} \cup DOMAIN rows'
    BY DEF VisitFits, Looked, Grown
  <2> QED
    BY <1>3, <2>1 DEF VisitFits, Looked, Going, RowsOf
<1>5. y.pc \in Signing => \E T \in 0..now' : y.jar = Pair(y.who, T)
  BY <1>0 DEF VisitFits
<1>6. ~y.met => Unmet(y)'
  <2> SUFFICES ASSUME ~y.met, Going(y) PROVE Unmet(y)'
    BY DEF Unmet, Going
  <2>1. y.who \in Persons /\ y.who # p /\ Unmet(y)
    BY <1>2 DEF VisitFits
  <2>2. PICK u \in Persons : u = y.who /\ u # p
    BY <2>1
  <2>3. (HasUid(u)' <=> HasUid(u)) /\ (HasSid(u)' <=> HasSid(u)) /\ RowsOf(u)' = RowsOf(u)
    BY <2>2, GrownRows DEF Grown
  <2>4. Unmet(y)' <=> Unmet(y)
    BY <2>2, <2>3 DEF Unmet, HasUid, HasSid, RowsOf
  <2> QED
    BY <2>1, <2>4
<1> QED
  BY <1>0, <1>1, <1>2, <1>3, <1>4, <1>5, <1>6 DEF VisitFits, Going, Signing, Saved, HasSid, RowsOf

\* A visit still fits as time passes.
LEMMA VisitStays ==
  ASSUME UNCHANGED <<rows, split>>, now \in Nat, now' \in Nat, now <= now', NEW y, VisitFits(y)
  PROVE  VisitFits(y)'
<1>1. y.pc \in Signing => \E T \in 0..now' : y.jar = Pair(y.who, T)
  BY DEF VisitFits
<1> QED
  BY <1>1 DEF VisitFits, Looked, Completing, Unmet, HasSid, HasUid, RowsOf, Going

\* A session's row stays complete.
LEMMA KeptStays ==
  ASSUME AccountRows, AccountRows', NEW p \in Persons, Grown(p), NEW q \in Persons, Kept(q),
         HasSession(q)' => HasSession(q)
  PROVE  Kept(q)'
<1> SUFFICES ASSUME HasSession(q)' PROVE HasSid(q)' /\ (q \notin split' => \A i \in RowsOf(q)' : rows'[i] = RowOf(q, q))
  BY DEF Kept
<1>1. HasSid(q) /\ HasSid(q)' /\ RowsOf(q) # {}
  BY GrownRows DEF Kept, HasSid, RowsOf
<1>2. ASSUME q \notin split', NEW i \in RowsOf(q)' PROVE rows'[i] = RowOf(q, q)
  <2>1. i \in RowsOf(q) /\ rows[i] = RowOf(q, q)
    BY <1>1, <1>2, GrownRows DEF Kept
  <2>2. i \in DOMAIN rows /\ i \in DOMAIN rows' /\ rows'[i].sid = q /\ rows'[i].uid = q
    BY <2>1, RowKinds DEF RowsOf, Grown
  <2>3. RowFits(rows'[i])
    BY <2>2 DEF AccountRows
  <2>4. PICK r \in Persons : rows'[i] \in {RowOf(r, r), RowOf(r, NoOne), RowOf(NoOne, r)}
    BY <2>3 DEF RowFits
  <2>5. q # NoOne /\ r # NoOne
    BY RowKinds
  <2>6. rows'[i] = RowOf(r, r)
    BY <2>2, <2>4, <2>5, RowKinds
  <2>7. r = q
    BY <2>2, <2>6, RowKinds
  <2> QED
    BY <2>6, <2>7
<1> QED
  BY <1>1, <1>2

\* Visit v goes on as y; of the rows, only those of its person grow.
LEMMA VisitsMove ==
  ASSUME AccountsInv, AccountRows', NEW v \in Visits, Going(visit[v]), NEW y, VisitFits(y)',
         visit' = [visit EXCEPT ![v] = y], Grown(visit[v].who), now' = now,
         y.pc = "done" \/ (y.who = visit[v].who /\ y.met = visit[v].met /\ y.dev = visit[v].dev /\ y.app = visit[v].app)
  PROVE  /\ VisitsFit'
         /\ \A d, w : w \in Visits /\ Visited(visit'[w], d) => Visited(visit[w], d)
<1>0. /\ visit \in [Visits -> VisitSet] /\ y \in VisitSet /\ now \in Nat
      /\ \A w \in Visits : VisitFits(visit[w]) /\ \A u \in Visits : u # w => Meet(visit[w], visit[u])
  BY DEF AccountsInv, VisitsFit, AccountRows, VisitFits
<1>1. visit' \in [Visits -> VisitSet] /\ visit'[v] = y /\ \A w \in Visits \ {v} : visit'[w] = visit[w]
  BY <1>0
<1>2. PICK p \in Persons : p = visit[v].who
  BY <1>0 DEF VisitFits
<1>3. VisitsFit'
  <2>1. ASSUME NEW w \in Visits PROVE VisitFits(visit[w])'
    <3>1. CASE w = v
      <4>1. y = visit[w]'
        BY <1>1, <3>1
      <4> QED
        BY <4>1
    <3>2. CASE w # v
      <4>1. PICK z : z = visit[w]
        OBVIOUS
      <4>2. VisitFits(z) /\ (Going(z) => z.who # p \/ z.met)
        BY <1>0, <1>2, <3>2, <4>1 DEF Meet
      <4>3. VisitFits(z)'
        BY <1>0, <1>2, <4>2, VisitKept DEF AccountsInv
      <4>4. z = visit[w]'
        BY <1>1, <3>2, <4>1
      <4> QED
        BY <4>3, <4>4
    <3> QED
      BY <3>1, <3>2
  <2>2. ASSUME NEW w \in Visits, NEW u \in Visits, w # u PROVE Meet(visit[w], visit[u])'
    BY <1>0, <1>1, <2>2 DEF Meet, Going
  <2> QED
    BY <1>1, <2>1, <2>2 DEF VisitsFit
<1>4. \A d, w : w \in Visits /\ Visited(visit'[w], d) => Visited(visit[w], d)
  BY <1>1 DEF Visited, Going
<1> QED
  BY <1>3, <1>4

\* If nothing of the sessions changes, all is well.
LEMMA VisitMoves ==
  ASSUME AccountsInv, AccountRows', NEW v \in Visits, Going(visit[v]), NEW y, VisitFits(y)',
         visit' = [visit EXCEPT ![v] = y], Grown(visit[v].who), UNCHANGED <<now, jar, held, asking, sole, used>>,
         y.pc = "done" \/ (y.who = visit[v].who /\ y.met = visit[v].met /\ y.dev = visit[v].dev /\ y.app = visit[v].app)
  PROVE  AccountsInv'
<1>1. PICK p \in Persons : p = visit[v].who
  BY DEF AccountsInv, VisitsFit, VisitFits
<1>2. VisitsFit' /\ \A d, w : w \in Visits /\ Visited(visit'[w], d) => Visited(visit[w], d)
  BY VisitsMove
<1>3. \A q \in Persons : Kept(q)'
  BY <1>1, KeptStays DEF AccountsInv, SessionsFit, HasSession
<1>4. SessionsFit'
  <2>1. \A d \in Devices : InTurn(d)'
    <3> SUFFICES ASSUME NEW d \in Devices PROVE InTurn(d)'
      OBVIOUS
    <3>1. InTurn(d)
      BY DEF AccountsInv, SessionsFit
    <3> QED
      BY <1>2, <3>1 DEF InTurn
  <2>2. \A d \in Devices : JarFits(jar[d])' /\ OfUse(d)' /\ used'[d] \in -1..now'
    BY DEF AccountsInv, SessionsFit, JarFits, OfUse
  <2>3. \A a \in Asks : RequestFits(asking[a])'
    BY DEF AccountsInv, SessionsFit, RequestFits, JarFits, Renews
  <2>4. \A t \in held' : TokenFits(t)'
    BY DEF AccountsInv, SessionsFit, TokenFits
  <2> QED
    BY <1>3, <2>1, <2>2, <2>3, <2>4 DEF AccountsInv, SessionsFit
<1> QED
  BY <1>2, <1>4 DEF AccountsInv

\* Visit v goes on as y, and no row changes.
LEMMA VisitGoes ==
  ASSUME AccountsInv, NEW v \in Visits, Going(visit[v]), NEW y, VisitFits(y),
         visit' = [visit EXCEPT ![v] = y], UNCHANGED <<rows, split, now, jar, held, asking, sole, used>>,
         y.pc = "done" \/ (y.who = visit[v].who /\ y.met = visit[v].met /\ y.dev = visit[v].dev /\ y.app = visit[v].app)
  PROVE  AccountsInv'
<1>1. AccountRows' /\ now \in Nat
  BY DEF AccountsInv, AccountRows, RowFits, RowsOf
<1>2. VisitFits(y)'
  BY <1>1, VisitStays
<1>3. Grown(visit[v].who)
  BY Ungrown
<1> QED
  BY <1>1, <1>2, <1>3, VisitMoves

\* One more row, for person p.
LEMMA RowMade ==
  ASSUME AccountRows, NEW p \in Persons, NEW x \in {RowOf(p, p), RowOf(NoOne, p)},
         rows' = Append(rows, x), split \subseteq split', split' \subseteq split \cup {p},
         RowsOf(p) = {} \/ p \in split', now' = now
  PROVE  /\ AccountRows' /\ Grown(p)
         /\ Len(rows) + 1 \in RowsOf(p)' /\ rows'[Len(rows) + 1] = x
         /\ x.sid = p => HasSid(p)'
<1> DEFINE n == Len(rows) + 1
<1>1. x \in RowType /\ RowFits(x) /\ x.uid = p
  BY RowKinds
<1>2. /\ rows' \in Seq(RowType) /\ DOMAIN rows' = DOMAIN rows \cup {n} /\ n \notin DOMAIN rows
      /\ rows'[n] = x /\ \A i \in DOMAIN rows : rows'[i] = rows[i]
  BY <1>1, AppendProperties DEF AccountRows
<1> HIDE DEF n
<1>3. \A q \in Persons : RowsOf(q)' = RowsOf(q) \cup (IF q = p THEN {n} ELSE {})
  <2> TAKE q \in Persons
  <2>1. RowsOf(q) = {i \in DOMAIN rows : rows[i].sid = q \/ rows[i].uid = q}
    BY DEF RowsOf
  <2>2. RowsOf(q)' = {i \in DOMAIN rows' : rows'[i].sid = q \/ rows'[i].uid = q}
    BY DEF RowsOf
  <2>3. x.sid \in {p, NoOne} /\ q # NoOne
    BY RowKinds
  <2> QED
    BY <1>1, <1>2, <2>1, <2>2, <2>3
<1>4. \A i \in DOMAIN rows' : RowFits(rows'[i])
  BY <1>1, <1>2 DEF AccountRows
<1>5. \A q \in Persons \ split' : \A i, j \in RowsOf(q)' : i = j
  BY <1>3 DEF AccountRows
<1>6. AccountRows'
  BY <1>2, <1>4, <1>5 DEF AccountRows, RowFits
<1>7. Grown(p)
  <2>1. p \notin split' => RowsOf(p)' = RowsOf(p) \/ RowsOf(p) = {}
    OBVIOUS
  <2>2. \A q \in Persons \ {p} : /\ q \in split' => q \in split
                                 /\ RowsOf(q)' = RowsOf(q) /\ \A i \in RowsOf(q) : rows'[i] = rows[i]
    BY <1>2, <1>3 DEF RowsOf
  <2> QED
    BY <1>2, <2>1, <2>2 DEF Grown
<1> QED
  BY <1>2, <1>3, <1>6, <1>7 DEF n, HasSid

\* Row k of person p is completed.
LEMMA RowFilled ==
  ASSUME AccountRows, NEW p \in Persons, NEW k \in RowsOf(p),
         rows' = [rows EXCEPT ![k] = RowOf(p, p)], UNCHANGED <<split, now>>
  PROVE  AccountRows' /\ Grown(p) /\ RowsOf(p)' = RowsOf(p) /\ rows'[k] = RowOf(p, p) /\ HasSid(p)'
<1>1. k \in DOMAIN rows /\ RowOf(p, p) \in RowType /\ RowFits(RowOf(p, p))
  BY RowKinds DEF RowsOf
<1>2. /\ rows' \in Seq(RowType) /\ DOMAIN rows' = DOMAIN rows /\ rows'[k] = RowOf(p, p)
      /\ \A i \in DOMAIN rows \ {k} : rows'[i] = rows[i]
  BY <1>1, ExceptSeq DEF AccountRows
<1>3. \A q \in Persons : RowsOf(q) = {i \in DOMAIN rows : rows[i].sid = q \/ rows[i].uid = q}
  BY DEF RowsOf
<1>4. \A q \in Persons : RowsOf(q)' = {i \in DOMAIN rows : rows'[i].sid = q \/ rows'[i].uid = q}
  BY <1>2 DEF RowsOf
<1>5. rows[k] \in {RowOf(p, p), RowOf(p, NoOne), RowOf(NoOne, p)}
  BY <1>1, RowsOfOne
<1>6. \A q \in Persons : (rows[k].sid = q => q = p) /\ (rows[k].uid = q => q = p) /\ q # NoOne
  BY <1>5, RowKinds
<1>7. \A q \in Persons \ {p} : k \notin RowsOf(q) /\ k \notin RowsOf(q)'
  BY <1>2, <1>3, <1>4, <1>6, RowKinds
<1>8. \A q \in Persons : RowsOf(q)' = RowsOf(q)
  <2> TAKE q \in Persons
  <2>1. \A i \in DOMAIN rows \ {k} : (rows[i].sid = q \/ rows[i].uid = q) <=> (rows'[i].sid = q \/ rows'[i].uid = q)
    BY <1>2
  <2>2. (rows[k].sid = q \/ rows[k].uid = q) <=> (rows'[k].sid = q \/ rows'[k].uid = q)
    <3>1. rows'[k].sid = p /\ rows'[k].uid = p
      BY <1>2, RowKinds
    <3>2. rows[k].sid = p \/ rows[k].uid = p
      BY <1>3
    <3> QED
      BY <1>6, <3>1, <3>2
  <2>3. \A i \in DOMAIN rows : (rows[i].sid = q \/ rows[i].uid = q) <=> (rows'[i].sid = q \/ rows'[i].uid = q)
    BY <2>1, <2>2
  <2> QED
    BY <1>3, <1>4, <2>3
<1>9. AccountRows'
  <2>1. \A i \in DOMAIN rows' : RowFits(rows'[i])
    BY <1>1, <1>2 DEF AccountRows
  <2>2. \A q \in Persons \ split' : \A i, j \in RowsOf(q)' : i = j
    BY <1>8 DEF AccountRows
  <2> QED
    BY <1>2, <2>1, <2>2 DEF AccountRows, RowFits
<1>10. Grown(p)
  <2>1. \A i \in DOMAIN rows, q \in Persons :
          (rows[i].sid = q => rows'[i].sid = q) /\ (rows[i].uid = q => rows'[i].uid = q)
    BY <1>2, <1>6, RowKinds
  <2>2. \A q \in Persons \ {p} : \A i \in RowsOf(q) : rows'[i] = rows[i]
    BY <1>2, <1>3, <1>7
  <2> QED
    BY <1>2, <1>8, <2>1, <2>2 DEF Grown
<1> QED
  BY <1>1, <1>2, <1>8, <1>9, <1>10, RowKinds DEF HasSid

-----------------------------------------------------------------------------
\* What is known of visit v, of person p.
LEMMA VisitNow ==
  ASSUME AccountsInv, NEW v \in Visits, Going(visit[v])
  PROVE  /\ VisitFits(visit[v]) /\ visit[v] \in VisitSet /\ visit[v].who \in Persons /\ visit[v].who # NoOne
         /\ rows \in Seq(RowType) /\ now \in Nat /\ DOMAIN rows \subseteq Nat /\ 0 \notin DOMAIN rows
         /\ \A u : u \in Visits => visit[u] \in VisitSet
         /\ visit \in [Visits -> VisitSet]
<1>1. VisitFits(visit[v]) /\ visit[v] \in VisitSet /\ visit[v].who \in Persons /\ visit \in [Visits -> VisitSet]
  BY DEF AccountsInv, VisitsFit, VisitFits
<1>2. rows \in Seq(RowType) /\ now \in Nat
  BY DEF AccountsInv, AccountRows
<1> QED
  BY <1>1, <1>2, RowKinds

\* The cookies of a login made now.
LEMMA Signed ==
  ASSUME now \in Nat
  PROVE  /\ \A p : Fresh(p) = Pair(p, now) /\ \E T \in 0..now : Fresh(p) = Pair(p, T)
         /\ \A p \in Persons : Fresh(p) \in Jars
         /\ NoJar \in Jars
<1>1. \A p : Fresh(p) = Pair(p, now)
  BY DEF Fresh, Pair, Token
<1>2. \A p \in Persons : Pair(p, now) \in Jars
  BY AccountsAssumption DEF Pair, Jars
<1>3. NoJar \in Jars
  BY DEF NoJar, NoToken, Jars
<1> QED
  BY <1>1, <1>2, <1>3

\* One lemma for each step of a visit: the visit goes on and still fits.
LEMMA LoginsBySid ==
  ASSUME AccountsInv, NEW v \in Visits, LoginBySid(v)
  PROVE  AccountsInv'
<1>1. PICK x : x = visit[v]
  OBVIOUS
<1>2. PICK p \in Persons : p = x.who
  BY <1>1, VisitNow DEF LoginBySid, Going
<1>3. x \in VisitSet /\ VisitFits(x) /\ x.pc = "sid" /\ Going(visit[v]) /\ Going(x)
  BY <1>1, VisitNow DEF LoginBySid, Going
<1>4. PICK i : i = FindBySid(p)
  OBVIOUS
<1>5. PICK y : y = [x EXCEPT !.row = i, !.pc = IF i = 0 THEN "uid" ELSE "write",
                             !.jar = IF i = 0 THEN NoJar ELSE Fresh(p)]
  OBVIOUS
<1>6. rows \in Seq(RowType) /\ now \in Nat /\ DOMAIN rows \subseteq Nat
  BY <1>3, VisitNow
<1>7. /\ i \in Nat /\ (i # 0 => i \in DOMAIN rows /\ rows[i].sid = p)
      /\ (i = 0 <=> ~HasSid(p))
  BY <1>4, <1>6, Finds
<1>8. (IF i = 0 THEN NoJar ELSE Fresh(p)) \in Jars
  BY <1>6, Signed
<1>9. /\ y.pc = (IF i = 0 THEN "uid" ELSE "write") /\ y.row = i
      /\ y.jar = (IF i = 0 THEN NoJar ELSE Fresh(p))
      /\ y.who = x.who /\ y.dev = x.dev /\ y.app = x.app /\ y.own = x.own /\ y.other = x.other /\ y.met = x.met
  BY <1>3, <1>5 DEF VisitSet
<1>10. y \in VisitSet
  BY <1>3, <1>5, <1>7, <1>8 DEF VisitSet, Signing
<1>11. Looked(y)
  BY <1>2, <1>3, <1>7, <1>9 DEF VisitFits, Looked, RowsOf, Going
<1>12. VisitFits(y)
  <2>1. y.pc \in Signing => \E T \in 0..now : y.jar = Pair(y.who, T)
    BY <1>2, <1>6, <1>9, Signed DEF Signing
  <2>2. Unmet(y)
    BY <1>2, <1>7, <1>9 DEF Unmet
  <2> QED
    BY <1>2, <1>3, <1>9, <1>10, <1>11, <2>1, <2>2 DEF VisitFits, Going, Saved, Signing, Completing
<1>13. visit' = [visit EXCEPT ![v] = y]
  BY <1>1, <1>2, <1>4, <1>5 DEF LoginBySid
<1> QED
  BY <1>1, <1>3, <1>9, <1>12, <1>13, VisitGoes DEF LoginBySid, Sessions

LEMMA LoginsByUid ==
  ASSUME AccountsInv, NEW v \in Visits, LoginByUid(v)
  PROVE  AccountsInv'
<1>1. PICK x : x = visit[v]
  OBVIOUS
<1>2. PICK p \in Persons : p = x.who
  BY <1>1, VisitNow DEF LoginByUid, Going
<1>3. x \in VisitSet /\ VisitFits(x) /\ x.pc = "uid" /\ Going(visit[v]) /\ Going(x)
  BY <1>1, VisitNow DEF LoginByUid, Going
<1>4. PICK i : i = FindByUid(p)
  OBVIOUS
<1>5. PICK y : y = [x EXCEPT !.row = i, !.pc = "write", !.jar = Fresh(p)]
  OBVIOUS
<1>6. rows \in Seq(RowType) /\ now \in Nat /\ DOMAIN rows \subseteq Nat
  BY <1>3, VisitNow
<1>7. /\ i \in Nat /\ (i # 0 => i \in DOMAIN rows /\ rows[i].uid = p)
      /\ (i = 0 <=> ~HasUid(p))
  BY <1>4, <1>6, Finds
<1>9. /\ y.pc = "write" /\ y.row = i /\ y.jar = Fresh(p)
      /\ y.who = x.who /\ y.dev = x.dev /\ y.app = x.app /\ y.own = x.own /\ y.other = x.other /\ y.met = x.met
  BY <1>3, <1>5 DEF VisitSet
<1>10. y \in VisitSet
  BY <1>3, <1>5, <1>6, <1>7, Signed DEF VisitSet, Signing
<1>11. Looked(y)
  BY <1>2, <1>3, <1>7, <1>9 DEF VisitFits, Looked, RowsOf, Going
<1>12. VisitFits(y)
  <2>1. \E T \in 0..now : y.jar = Pair(y.who, T)
    BY <1>2, <1>6, <1>9, Signed
  <2>2. ~y.met => Unmet(y)
    BY <1>2, <1>3, <1>7, <1>9 DEF VisitFits, Unmet, HasSid, HasUid, RowsOf
  <2> QED
    BY <1>2, <1>3, <1>9, <1>10, <1>11, <2>1, <2>2 DEF VisitFits, Going, Saved, Signing, Completing
<1>13. visit' = [visit EXCEPT ![v] = y]
  BY <1>1, <1>2, <1>4, <1>5 DEF LoginByUid, To
<1> QED
  BY <1>1, <1>3, <1>9, <1>12, <1>13, VisitGoes DEF LoginByUid, Sessions

LEMMA Provides ==
  ASSUME AccountsInv, NEW v \in Visits, Provide(v)
  PROVE  AccountsInv'
<1>1. PICK x : x = visit[v]
  OBVIOUS
<1>2. PICK p \in Persons : p = x.who
  BY <1>1, VisitNow DEF Provide, Going
<1>3. x \in VisitSet /\ VisitFits(x) /\ x.pc = "provide" /\ Going(visit[v]) /\ Going(x)
  BY <1>1, VisitNow DEF Provide, Going
<1>5. PICK y : y = [x EXCEPT !.pc = "own"]
  OBVIOUS
<1>6. rows \in Seq(RowType) /\ now \in Nat /\ DOMAIN rows \subseteq Nat
  BY <1>3, VisitNow
<1>9. /\ y.pc = "own" /\ y.row = x.row /\ y.jar = x.jar
      /\ y.who = x.who /\ y.dev = x.dev /\ y.app = x.app /\ y.own = x.own /\ y.other = x.other /\ y.met = x.met
  BY <1>3, <1>5 DEF VisitSet
<1>10. y \in VisitSet
  BY <1>3, <1>5 DEF VisitSet, Signing
<1>11. Looked(y) /\ Unmet(y)
  BY <1>3, <1>9 DEF VisitFits, Looked, Going, Unmet
<1>12. VisitFits(y)
  BY <1>2, <1>3, <1>9, <1>10, <1>11 DEF VisitFits, Going, Saved, Signing, Completing
<1>13. visit' = [visit EXCEPT ![v] = y]
  BY <1>1, <1>2, <1>5 DEF Provide, To
<1> QED
  BY <1>1, <1>3, <1>9, <1>12, <1>13, VisitGoes DEF Provide, Sessions

LEMMA CallsBackByUid ==
  ASSUME AccountsInv, NEW v \in Visits, CallbackByUid(v)
  PROVE  AccountsInv'
<1>1. PICK x : x = visit[v]
  OBVIOUS
<1>2. PICK p \in Persons : p = x.who
  BY <1>1, VisitNow DEF CallbackByUid, Going
<1>3. x \in VisitSet /\ VisitFits(x) /\ x.pc = "own" /\ Going(visit[v]) /\ Going(x)
  BY <1>1, VisitNow DEF CallbackByUid, Going
<1>4. PICK i : i = FindByUid(p)
  OBVIOUS
<1>5. PICK y : y = [x EXCEPT !.own = i, !.pc = "other"]
  OBVIOUS
<1>6. rows \in Seq(RowType) /\ now \in Nat /\ DOMAIN rows \subseteq Nat
  BY <1>3, VisitNow
<1>7. /\ i \in Nat /\ (i # 0 => i \in DOMAIN rows /\ rows[i].uid = p)
      /\ (i = 0 <=> ~HasUid(p))
  BY <1>4, <1>6, Finds
<1>9. /\ y.pc = "other" /\ y.row = x.row /\ y.jar = x.jar
      /\ y.who = x.who /\ y.dev = x.dev /\ y.app = x.app /\ y.own = i /\ y.other = x.other /\ y.met = x.met
  BY <1>3, <1>5 DEF VisitSet
<1>10. y \in VisitSet
  BY <1>3, <1>5, <1>7 DEF VisitSet, Signing
<1>11. Looked(y) /\ Unmet(y)
  BY <1>2, <1>3, <1>7, <1>9 DEF VisitFits, Looked, Going, Unmet
<1>12. VisitFits(y)
  <2>1. RowsOf(p) # {} /\ \A j \in RowsOf(p) : j \in DOMAIN rows /\ (rows[j].sid = p \/ rows[j].uid = p)
    BY <1>2, <1>3 DEF VisitFits, Saved, Signing, RowsOf
  <2>2. i = 0 => HasSid(p) /\ \A j \in RowsOf(p) : rows[j].sid = p
    BY <1>7, <2>1 DEF HasUid, HasSid
  <2> QED
    BY <1>2, <1>3, <1>9, <1>10, <1>11, <2>2 DEF VisitFits, Going, Saved, Signing, Completing
<1>13. visit' = [visit EXCEPT ![v] = y]
  BY <1>1, <1>2, <1>4, <1>5 DEF CallbackByUid, To
<1> QED
  BY <1>1, <1>3, <1>9, <1>12, <1>13, VisitGoes DEF CallbackByUid, Sessions

LEMMA CallsBackBySid ==
  ASSUME AccountsInv, NEW v \in Visits, CallbackBySid(v)
  PROVE  AccountsInv'
<1>1. PICK x : x = visit[v]
  OBVIOUS
<1>2. PICK p \in Persons : p = x.who
  BY <1>1, VisitNow DEF CallbackBySid, Going
<1>3. x \in VisitSet /\ VisitFits(x) /\ x.pc = "other" /\ Going(visit[v]) /\ Going(x)
  BY <1>1, VisitNow DEF CallbackBySid, Going
<1>4. PICK i : i = FindBySid(p)
  OBVIOUS
<1>5. PICK y : y = [x EXCEPT !.other = i, !.pc = "fixSid"]
  OBVIOUS
<1>6. rows \in Seq(RowType) /\ now \in Nat /\ DOMAIN rows \subseteq Nat
  BY <1>3, VisitNow
<1>7. /\ i \in Nat /\ (i # 0 => i \in DOMAIN rows /\ rows[i].sid = p)
      /\ (i = 0 <=> ~HasSid(p))
  BY <1>4, <1>6, Finds
<1>9. /\ y.pc = "fixSid" /\ y.row = x.row /\ y.jar = x.jar
      /\ y.who = x.who /\ y.dev = x.dev /\ y.app = x.app /\ y.own = x.own /\ y.other = i /\ y.met = x.met
  BY <1>3, <1>5 DEF VisitSet
<1>10. y \in VisitSet
  BY <1>3, <1>5, <1>7 DEF VisitSet, Signing
<1>11. Looked(y) /\ Unmet(y)
  BY <1>2, <1>3, <1>7, <1>9 DEF VisitFits, Looked, Going, Unmet
<1>12. VisitFits(y)
  <2>1. \A j \in RowsOf(p) : j \in DOMAIN rows /\ (rows[j].sid = p \/ rows[j].uid = p)
    BY DEF RowsOf
  <2>2. i = 0 => \A j \in RowsOf(p) : rows[j].uid = p
    BY <1>7, <2>1 DEF HasSid
  <2> QED
    BY <1>2, <1>3, <1>9, <1>10, <1>11, <2>2 DEF VisitFits, Going, Saved, Signing, Completing
<1>13. visit' = [visit EXCEPT ![v] = y]
  BY <1>1, <1>2, <1>4, <1>5 DEF CallbackBySid, To
<1> QED
  BY <1>1, <1>3, <1>9, <1>12, <1>13, VisitGoes DEF CallbackBySid, Sessions

LEMMA RegistersKnown ==
  ASSUME AccountsInv, NEW v \in Visits, RegisterKnown(v)
  PROVE  AccountsInv'
<1>1. PICK x : x = visit[v]
  OBVIOUS
<1>2. PICK p \in Persons : p = x.who
  BY <1>1, VisitNow DEF RegisterKnown, Going
<1>3. x \in VisitSet /\ VisitFits(x) /\ x.pc = "known" /\ Going(visit[v]) /\ Going(x)
  BY <1>1, VisitNow DEF RegisterKnown, Going
<1>5. PICK y : y = [x EXCEPT !.pc = IF FindByUid(p) # 0 THEN "done" ELSE "again"]
  OBVIOUS
<1>6. rows \in Seq(RowType) /\ now \in Nat /\ DOMAIN rows \subseteq Nat
  BY <1>3, VisitNow
<1>9. /\ y.pc \in {"done", "again"} /\ y.row = x.row /\ y.jar = x.jar
      /\ y.who = x.who /\ y.dev = x.dev /\ y.app = x.app /\ y.own = x.own /\ y.other = x.other /\ y.met = x.met
  BY <1>3, <1>5 DEF VisitSet
<1>10. y \in VisitSet
  BY <1>3, <1>5 DEF VisitSet, Signing
<1>11. Looked(y) /\ Unmet(y)
  BY <1>3, <1>9 DEF VisitFits, Looked, Going, Unmet
<1>12. VisitFits(y)
  BY <1>2, <1>3, <1>9, <1>10, <1>11 DEF VisitFits, Going, Saved, Signing, Completing
<1>13. visit' = [visit EXCEPT ![v] = y]
  BY <1>1, <1>2, <1>5 DEF RegisterKnown, To
<1> QED
  BY <1>1, <1>3, <1>9, <1>12, <1>13, VisitGoes DEF RegisterKnown, Sessions

LEMMA RegistersAgain ==
  ASSUME AccountsInv, NEW v \in Visits, RegisterAgain(v)
  PROVE  AccountsInv'
<1>1. PICK x : x = visit[v]
  OBVIOUS
<1>2. PICK p \in Persons : p = x.who
  BY <1>1, VisitNow DEF RegisterAgain, Going
<1>3. x \in VisitSet /\ VisitFits(x) /\ x.pc = "again" /\ Going(visit[v]) /\ Going(x)
  BY <1>1, VisitNow DEF RegisterAgain, Going
<1>4. PICK i : i = FindByUid(p)
  OBVIOUS
<1>5. PICK y : y = [x EXCEPT !.row = i, !.pc = "register"]
  OBVIOUS
<1>6. rows \in Seq(RowType) /\ now \in Nat /\ DOMAIN rows \subseteq Nat
  BY <1>3, VisitNow
<1>7. /\ i \in Nat /\ (i # 0 => i \in DOMAIN rows /\ rows[i].uid = p)
      /\ (i = 0 <=> ~HasUid(p))
  BY <1>4, <1>6, Finds
<1>9. /\ y.pc = "register" /\ y.row = i /\ y.jar = x.jar
      /\ y.who = x.who /\ y.dev = x.dev /\ y.app = x.app /\ y.own = x.own /\ y.other = x.other /\ y.met = x.met
  BY <1>3, <1>5 DEF VisitSet
<1>10. y \in VisitSet
  BY <1>3, <1>5, <1>7 DEF VisitSet, Signing
<1>11. Looked(y) /\ Unmet(y)
  BY <1>2, <1>3, <1>7, <1>9 DEF VisitFits, Looked, Going, Unmet, RowsOf
<1>12. VisitFits(y)
  BY <1>2, <1>3, <1>9, <1>10, <1>11 DEF VisitFits, Going, Saved, Signing, Completing
<1>13. visit' = [visit EXCEPT ![v] = y]
  BY <1>1, <1>2, <1>4, <1>5 DEF RegisterAgain, To
<1> QED
  BY <1>1, <1>3, <1>9, <1>12, <1>13, VisitGoes DEF RegisterAgain, Sessions

\* What a visit has looked up stays right.
LEMMA LookedKept ==
  ASSUME AccountRows, AccountRows', NEW p \in Persons, Grown(p), NEW y, Looked(y), Going(y), y.who = p
  PROVE  Looked(y)'
<1>1. \A i \in DOMAIN rows : (rows[i].sid = p => rows'[i].sid = p) /\ (rows[i].uid = p => rows'[i].uid = p)
  BY DEF Grown
<1>2. DOMAIN rows \subseteq DOMAIN rows' /\ RowsOf(p) \subseteq RowsOf(p)'
  BY GrownRows DEF Grown
<1>3. {y.row, y.own, y.other} \subseteq {0} \cup DOMAIN rows'
  BY <1>2 DEF Looked
<1>4. /\ y.row # 0 => y.row \in RowsOf(p)'
      /\ y.own # 0 => rows'[y.own].uid = p
      /\ y.other # 0 => rows'[y.other].sid = p
  BY <1>1, <1>2 DEF Looked
<1> QED
  BY <1>3, <1>4 DEF Looked, Going, RowsOf

\* A second row has a cause.
LEMMA Creates ==
  ASSUME AccountsInv, NEW v \in Visits, NEW p \in Persons, p = visit[v].who,
         visit[v].row = 0, NEW x, now' = now,
         \/ visit[v].pc = "write" /\ x = RowOf(p, p)
         \/ visit[v].pc = "register" /\ x = RowOf(NoOne, p),
         Create(v, x)
  PROVE  /\ AccountRows' /\ Grown(p) /\ RowsOf(p)' # {} /\ (x.sid = p => HasSid(p)')
<1>1. VisitFits(visit[v]) /\ visit[v] \in VisitSet /\ AccountRows
  BY DEF AccountsInv, VisitsFit, VisitFits
<1>2. rows' = Append(rows, x) /\ split' = (IF RowsOf(p) # {} /\ Explained(v) THEN split \cup {p} ELSE split)
  BY DEF Create
<1>3. RowsOf(p) = {} \/ Explained(v)
  <2> SUFFICES ASSUME ~visit[v].met, RowsOf(p) # {} PROVE Explained(v)
    BY DEF Explained
  <2>1. Unmet(visit[v])
    BY <1>1 DEF VisitFits
  <2>2. visit[v].pc = "register" /\ ~HasUid(p)
    BY <2>1 DEF Unmet
  <2>3. visit[v].app
    BY <1>1, <2>2 DEF VisitFits, Going
  <2>4. ASSUME NEW i \in RowsOf(p) PROVE rows[i].uid = NoOne
    <3>1. i \in DOMAIN rows /\ rows[i].uid # p
      BY <2>2 DEF RowsOf, HasUid
    <3>2. rows[i] \in {RowOf(p, p), RowOf(p, NoOne), RowOf(NoOne, p)}
      BY <1>1, <3>1, RowsOfOne
    <3> QED
      BY <3>1, <3>2, RowKinds
  <2> QED
    BY <2>3, <2>4 DEF Explained
<1>4. x \in {RowOf(p, p), RowOf(NoOne, p)}
  OBVIOUS
<1> QED
  BY <1>1, <1>2, <1>3, <1>4, RowMade

\* The steps that write rows: those of others stay as they are.
LEMMA SavesUser ==
  ASSUME AccountsInv, NEW v \in Visits, SaveUser(v)
  PROVE  AccountsInv'
<1>1. PICK x : x = visit[v]
  OBVIOUS
<1>2. PICK p \in Persons : p = x.who
  BY <1>1, VisitNow DEF SaveUser, Going
<1>3. x \in VisitSet /\ VisitFits(x) /\ x.pc = "write" /\ Going(visit[v]) /\ Going(x) /\ AccountRows
  BY <1>1, VisitNow DEF SaveUser, Going, AccountsInv
<1>4. PICK y : y = [x EXCEPT !.pc = "provide"]
  OBVIOUS
<1>5. /\ y.pc = "provide" /\ y.row = x.row /\ y.jar = x.jar
      /\ y.who = x.who /\ y.dev = x.dev /\ y.app = x.app /\ y.own = x.own /\ y.other = x.other /\ y.met = x.met
  BY <1>3, <1>4 DEF VisitSet
<1>6. AccountRows' /\ Grown(p) /\ RowsOf(p)' # {}
  <2>1. CASE x.row = 0
    <3>1. PICK r : r = RowOf(p, p)
      OBVIOUS
    <3>2. Create(v, r)
      BY <1>1, <1>2, <2>1, <3>1 DEF SaveUser
    <3> QED
      BY <1>1, <1>2, <1>3, <2>1, <3>1, <3>2, Creates DEF SaveUser, Sessions
  <2>2. CASE x.row # 0
    <3>1. UNCHANGED <<rows, split, now>>
      BY <1>1, <2>2 DEF SaveUser, Sessions
    <3>2. x.row \in RowsOf(p)
      BY <1>2, <1>3, <2>2 DEF VisitFits, Looked
    <3>3. AccountRows' /\ RowsOf(p)' = RowsOf(p)
      BY <1>3, <3>1 DEF AccountRows, RowFits, RowsOf
    <3> QED
      BY <3>1, <3>2, <3>3, Ungrown
  <2> QED
    BY <2>1, <2>2
<1>7. Looked(x)'
  BY <1>2, <1>3, <1>6, LookedKept DEF VisitFits
<1>8. now' = now
  BY DEF SaveUser, Sessions
<1>9. VisitFits(y)'
  <2>1. y \in VisitSet
    BY <1>3, <1>4 DEF VisitSet, Signing
  <2>2. Looked(y)'
    BY <1>3, <1>5, <1>7 DEF Looked, Going
  <2>3. \E T \in 0..now' : y.jar = Pair(y.who, T)
    BY <1>3, <1>5, <1>8 DEF VisitFits, Signing
  <2>4. Unmet(y)'
    BY <1>5 DEF Unmet
  <2>5. RowsOf(y.who)' # {}
    BY <1>2, <1>5, <1>6 DEF RowsOf
  <2> QED
    BY <1>2, <1>3, <1>5, <2>1, <2>2, <2>3, <2>4, <2>5 DEF VisitFits, Going, Saved, Signing, Completing
<1>10. visit' = [visit EXCEPT ![v] = y]
  BY <1>1, <1>4, VisitNow DEF SaveUser, To
<1> QED
  BY <1>1, <1>2, <1>3, <1>5, <1>6, <1>9, <1>10, VisitMoves DEF SaveUser, Sessions

LEMMA Registers ==
  ASSUME AccountsInv, NEW v \in Visits, Register(v)
  PROVE  AccountsInv'
<1>1. PICK x : x = visit[v]
  OBVIOUS
<1>2. PICK p \in Persons : p = x.who
  BY <1>1, VisitNow DEF Register, Going
<1>3. x \in VisitSet /\ VisitFits(x) /\ x.pc = "register" /\ Going(visit[v]) /\ Going(x) /\ AccountRows
  BY <1>1, VisitNow DEF Register, Going, AccountsInv
<1>4. PICK y : y = [x EXCEPT !.pc = "done"]
  OBVIOUS
<1>5. /\ y.pc = "done" /\ y.row = x.row /\ y.jar = x.jar
      /\ y.who = x.who /\ y.dev = x.dev /\ y.app = x.app /\ y.own = x.own /\ y.other = x.other /\ y.met = x.met
  BY <1>3, <1>4 DEF VisitSet
<1>6. AccountRows' /\ Grown(p)
  <2>1. CASE x.row = 0
    <3>1. PICK r : r = RowOf(NoOne, p)
      OBVIOUS
    <3>2. Create(v, r)
      BY <1>1, <1>2, <2>1, <3>1 DEF Register
    <3> QED
      BY <1>1, <1>2, <1>3, <2>1, <3>1, <3>2, Creates DEF Register, Sessions
  <2>2. CASE x.row # 0
    <3>1. UNCHANGED <<rows, split, now>>
      BY <1>1, <2>2 DEF Register, Sessions
    <3>2. AccountRows'
      BY <1>3, <3>1 DEF AccountRows, RowFits, RowsOf
    <3> QED
      BY <3>1, <3>2, Ungrown
  <2> QED
    BY <2>1, <2>2
<1>7. Looked(x)'
  BY <1>2, <1>3, <1>6, LookedKept DEF VisitFits
<1>8. VisitFits(y)'
  <2>1. y \in VisitSet
    BY <1>3, <1>4 DEF VisitSet, Signing
  <2>2. Looked(y)' /\ Unmet(y)'
    BY <1>3, <1>5, <1>7 DEF Looked, Going, Unmet
  <2> QED
    BY <1>5, <2>1, <2>2 DEF VisitFits, Going, Saved, Signing, Completing
<1>9. visit' = [visit EXCEPT ![v] = y]
  BY <1>1, <1>4, VisitNow DEF Register, To
<1> QED
  BY <1>1, <1>2, <1>3, <1>5, <1>6, <1>8, <1>9, VisitMoves DEF Register, Sessions

\* The callback completes the row it has found.
LEMMA AddsSid ==
  ASSUME AccountsInv, NEW v \in Visits, AddSid(v)
  PROVE  AccountsInv'
<1>1. PICK x : x = visit[v]
  OBVIOUS
<1>2. PICK p \in Persons : p = x.who
  BY <1>1, VisitNow DEF AddSid, Going
<1>3. x \in VisitSet /\ VisitFits(x) /\ x.pc = "fixSid" /\ Going(visit[v]) /\ Going(x) /\ AccountRows
  BY <1>1, VisitNow DEF AddSid, Going, AccountsInv
<1>4. PICK y : y = [x EXCEPT !.pc = "fixUid"]
  OBVIOUS
<1>5. /\ y.pc = "fixUid" /\ y.row = x.row /\ y.jar = x.jar
      /\ y.who = x.who /\ y.dev = x.dev /\ y.app = x.app /\ y.own = x.own /\ y.other = x.other /\ y.met = x.met
  BY <1>3, <1>4 DEF VisitSet
<1>6. PICK k : k = x.own
  OBVIOUS
<1>7. k # 0 => /\ k \in RowsOf(p) /\ k \in DOMAIN rows /\ rows[k].uid = p
              /\ rows[k] \in {RowOf(p, p), RowOf(NoOne, p)}
  <2> SUFFICES ASSUME k # 0 PROVE /\ k \in RowsOf(p) /\ k \in DOMAIN rows /\ rows[k].uid = p
                                  /\ rows[k] \in {RowOf(p, p), RowOf(NoOne, p)}
    OBVIOUS
  <2>1. k \in DOMAIN rows /\ rows[k].uid = p
    BY <1>2, <1>3, <1>6 DEF VisitFits, Looked
  <2>2. k \in RowsOf(p) /\ rows[k] \in {RowOf(p, p), RowOf(p, NoOne), RowOf(NoOne, p)}
    BY <1>3, <2>1, RowsOfOne
  <2> QED
    BY <2>1, <2>2, RowKinds
<1>8. now' = now /\ split' = split
  BY DEF AddSid, Sessions
<1>9. /\ AccountRows' /\ Grown(p) /\ RowsOf(p)' = RowsOf(p)
      /\ \A i \in RowsOf(p) : i # k => rows'[i] = rows[i]
      /\ k # 0 => rows'[k].sid = p
      /\ HasSid(p) => HasSid(p)'
  <2>1. CASE NeedsSid(v)
    <3>1. k # 0 /\ rows[k].sid = NoOne
      BY <1>1, <1>6, <2>1 DEF NeedsSid
    <3>2. rows[k] = RowOf(NoOne, p)
      BY <1>7, <3>1, RowKinds
    <3>3. [rows EXCEPT ![k].sid = p] = [rows EXCEPT ![k] = RowOf(p, p)]
      <4>1. [rows[k] EXCEPT !.sid = p] = RowOf(p, p)
        BY <3>2 DEF RowOf
      <4> QED
        BY <4>1
    <3>4. rows' = [rows EXCEPT ![k] = RowOf(p, p)]
      BY <1>1, <1>2, <1>6, <2>1, <3>3 DEF AddSid
    <3>5. AccountRows' /\ Grown(p) /\ RowsOf(p)' = RowsOf(p) /\ rows'[k] = RowOf(p, p) /\ HasSid(p)'
      BY <1>3, <1>7, <1>8, <3>1, <3>4, RowFilled
    <3>6. \A i \in RowsOf(p) : i # k => rows'[i] = rows[i]
      BY <3>4 DEF RowsOf
    <3> QED
      BY <3>5, <3>6, RowKinds
  <2>2. CASE ~NeedsSid(v)
    <3>1. UNCHANGED <<rows, split, now>>
      BY <1>8, <2>2 DEF AddSid
    <3>2. k # 0 => rows[k].sid # NoOne
      BY <1>1, <1>6, <2>2 DEF NeedsSid
    <3>3. k # 0 => rows[k].sid = p
      BY <1>7, <3>2, RowKinds
    <3> QED
      BY <1>3, <3>1, <3>3, Ungrown DEF AccountRows, RowFits, RowsOf, HasSid
  <2> QED
    BY <2>1, <2>2
<1>10. HasSid(p)'
  BY <1>2, <1>3, <1>6, <1>7, <1>9 DEF VisitFits, HasSid, Grown
<1>11. p \notin split => \A i \in RowsOf(p) : Completing(y, rows'[i])
  <2> SUFFICES ASSUME p \notin split, NEW i \in RowsOf(p) PROVE Completing(y, rows'[i])
    OBVIOUS
  <2>1. Completing(x, rows[i])
    BY <1>2, <1>3 DEF VisitFits
  <2>2. k # 0 => i = k
    BY <1>3, <1>7 DEF AccountRows
  <2>3. CASE k = 0
    <3>1. k \notin RowsOf(p)
      BY <1>3, <2>3 DEF AccountRows, RowsOf
    <3>2. rows'[i] = rows[i]
      BY <1>9, <3>1
    <3> QED
      BY <1>3, <1>5, <1>6, <2>1, <2>3, <3>2 DEF Completing
  <2>4. CASE k # 0
    <3>1. rows'[i].sid = p /\ (rows[i].sid = p => rows'[i].sid = p) /\ (rows[i].uid = p => rows'[i].uid = p)
      BY <1>7, <1>9, <2>2, <2>4 DEF Grown
    <3> QED
      BY <1>2, <1>3, <1>5, <1>6, <2>1, <3>1 DEF Completing
  <2> QED
    BY <2>3, <2>4
<1>12. Looked(x)'
  BY <1>2, <1>3, <1>9, LookedKept DEF VisitFits
<1>13. VisitFits(y)'
  <2>1. y \in VisitSet
    BY <1>3, <1>4 DEF VisitSet, Signing
  <2>2. Looked(y)' /\ Unmet(y)'
    BY <1>3, <1>5, <1>12 DEF Looked, Going, Unmet
  <2>3. \E T \in 0..now' : y.jar = Pair(y.who, T)
    BY <1>3, <1>5, <1>8 DEF VisitFits, Signing
  <2>4. RowsOf(y.who)' # {}
    BY <1>2, <1>3, <1>5, <1>9 DEF VisitFits, Saved, Signing, RowsOf
  <2>5. HasSid(y.who)'
    BY <1>2, <1>5, <1>10 DEF HasSid
  <2>6. y.who \notin split' => \A i \in RowsOf(y.who)' : Completing(y, rows[i])'
    BY <1>2, <1>5, <1>8, <1>9, <1>11 DEF Completing, RowsOf
  <2> QED
    BY <1>2, <1>3, <1>5, <2>1, <2>2, <2>3, <2>4, <2>5, <2>6 DEF VisitFits, Going, Saved, Signing
<1>14. visit' = [visit EXCEPT ![v] = y]
  BY <1>1, <1>4, VisitNow DEF AddSid, To
<1> QED
  BY <1>1, <1>2, <1>3, <1>5, <1>9, <1>13, <1>14, VisitMoves DEF AddSid, Sessions

LEMMA AddsUid ==
  ASSUME AccountsInv, NEW v \in Visits, AddUid(v)
  PROVE  AccountsInv'
<1>1. PICK x : x = visit[v]
  OBVIOUS
<1>2. PICK p \in Persons : p = x.who
  BY <1>1, VisitNow DEF AddUid, Going
<1>3. x \in VisitSet /\ VisitFits(x) /\ x.pc = "fixUid" /\ Going(visit[v]) /\ Going(x) /\ AccountRows
  BY <1>1, VisitNow DEF AddUid, Going, AccountsInv
<1>4. PICK y : y = [x EXCEPT !.pc = "answer"]
  OBVIOUS
<1>5. /\ y.pc = "answer" /\ y.row = x.row /\ y.jar = x.jar
      /\ y.who = x.who /\ y.dev = x.dev /\ y.app = x.app /\ y.own = x.own /\ y.other = x.other /\ y.met = x.met
  BY <1>3, <1>4 DEF VisitSet
<1>6. PICK k : k = x.other
  OBVIOUS
<1>7. k # 0 => /\ k \in RowsOf(p) /\ k \in DOMAIN rows /\ rows[k].sid = p
              /\ rows[k] \in {RowOf(p, p), RowOf(p, NoOne)}
  <2> SUFFICES ASSUME k # 0 PROVE /\ k \in RowsOf(p) /\ k \in DOMAIN rows /\ rows[k].sid = p
                                  /\ rows[k] \in {RowOf(p, p), RowOf(p, NoOne)}
    OBVIOUS
  <2>1. k \in DOMAIN rows /\ rows[k].sid = p
    BY <1>2, <1>3, <1>6 DEF VisitFits, Looked
  <2>2. k \in RowsOf(p) /\ rows[k] \in {RowOf(p, p), RowOf(p, NoOne), RowOf(NoOne, p)}
    BY <1>3, <2>1, RowsOfOne
  <2> QED
    BY <2>1, <2>2, RowKinds
<1>8. now' = now /\ split' = split
  BY DEF AddUid, Sessions
<1>9. /\ AccountRows' /\ Grown(p) /\ RowsOf(p)' = RowsOf(p)
      /\ \A i \in RowsOf(p) : i # k => rows'[i] = rows[i]
      /\ k # 0 => rows'[k].uid = p
      /\ HasSid(p) => HasSid(p)'
  <2>1. CASE NeedsUid(v)
    <3>1. k # 0 /\ rows[k].uid = NoOne
      BY <1>1, <1>6, <2>1 DEF NeedsUid
    <3>2. rows[k] = RowOf(p, NoOne)
      BY <1>7, <3>1, RowKinds
    <3>3. [rows EXCEPT ![k].uid = p] = [rows EXCEPT ![k] = RowOf(p, p)]
      <4>1. [rows[k] EXCEPT !.uid = p] = RowOf(p, p)
        BY <3>2 DEF RowOf
      <4> QED
        BY <4>1
    <3>4. rows' = [rows EXCEPT ![k] = RowOf(p, p)]
      BY <1>1, <1>2, <1>6, <2>1, <3>3 DEF AddUid
    <3>5. AccountRows' /\ Grown(p) /\ RowsOf(p)' = RowsOf(p) /\ rows'[k] = RowOf(p, p) /\ HasSid(p)'
      BY <1>3, <1>7, <1>8, <3>1, <3>4, RowFilled
    <3>6. \A i \in RowsOf(p) : i # k => rows'[i] = rows[i]
      BY <3>4 DEF RowsOf
    <3> QED
      BY <3>5, <3>6, RowKinds
  <2>2. CASE ~NeedsUid(v)
    <3>1. UNCHANGED <<rows, split, now>>
      BY <1>8, <2>2 DEF AddUid
    <3>2. k # 0 => rows[k].uid # NoOne
      BY <1>1, <1>6, <2>2 DEF NeedsUid
    <3>3. k # 0 => rows[k].uid = p
      BY <1>7, <3>2, RowKinds
    <3> QED
      BY <1>3, <3>1, <3>3, Ungrown DEF AccountRows, RowFits, RowsOf, HasSid
  <2> QED
    BY <2>1, <2>2
<1>10. HasSid(p)'
  BY <1>2, <1>3, <1>6, <1>7, <1>9 DEF VisitFits, HasSid, Grown
<1>11. p \notin split => \A i \in RowsOf(p) : Completing(y, rows'[i])
  <2> SUFFICES ASSUME p \notin split, NEW i \in RowsOf(p) PROVE Completing(y, rows'[i])
    OBVIOUS
  <2>1. Completing(x, rows[i])
    BY <1>2, <1>3 DEF VisitFits
  <2>2. k # 0 => i = k
    BY <1>3, <1>7 DEF AccountRows
  <2>3. CASE k = 0
    <3>1. k \notin RowsOf(p)
      BY <1>3, <2>3 DEF AccountRows, RowsOf
    <3>2. rows'[i] = rows[i]
      BY <1>9, <3>1
    <3> QED
      BY <1>3, <1>5, <1>6, <2>1, <2>3, <3>2 DEF Completing
  <2>4. CASE k # 0
    <3>1. rows'[i].uid = p /\ (rows[i].sid = p => rows'[i].sid = p) /\ (rows[i].uid = p => rows'[i].uid = p)
      BY <1>7, <1>9, <2>2, <2>4 DEF Grown
    <3> QED
      BY <1>2, <1>3, <1>5, <1>6, <2>1, <3>1 DEF Completing
  <2> QED
    BY <2>3, <2>4
<1>12. Looked(x)'
  BY <1>2, <1>3, <1>9, LookedKept DEF VisitFits
<1>13. VisitFits(y)'
  <2>1. y \in VisitSet
    BY <1>3, <1>4 DEF VisitSet, Signing
  <2>2. Looked(y)' /\ Unmet(y)'
    BY <1>3, <1>5, <1>12 DEF Looked, Going, Unmet
  <2>3. \E T \in 0..now' : y.jar = Pair(y.who, T)
    BY <1>3, <1>5, <1>8 DEF VisitFits, Signing
  <2>4. RowsOf(y.who)' # {}
    BY <1>2, <1>3, <1>5, <1>9 DEF VisitFits, Saved, Signing, RowsOf
  <2>5. HasSid(y.who)'
    BY <1>2, <1>5, <1>10 DEF HasSid
  <2>6. y.who \notin split' => \A i \in RowsOf(y.who)' : Completing(y, rows[i])'
    BY <1>2, <1>5, <1>8, <1>9, <1>11 DEF Completing, RowsOf
  <2> QED
    BY <1>2, <1>3, <1>5, <2>1, <2>2, <2>3, <2>4, <2>5, <2>6 DEF VisitFits, Going, Saved, Signing
<1>14. visit' = [visit EXCEPT ![v] = y]
  BY <1>1, <1>4, VisitNow DEF AddUid, To
<1> QED
  BY <1>1, <1>2, <1>3, <1>5, <1>9, <1>13, <1>14, VisitMoves DEF AddUid, Sessions

-----------------------------------------------------------------------------
\* What the chain of a request comes to.
Results == [public : BOOLEAN, authn : BOOLEAN, authz : BOOLEAN, user : Nat, set : Jars]
SessionRow(x) == IF Alive(x.jar.refresh) THEN FindBySid(x.jar.refresh.who) ELSE 0
HeaderRow(x) == IF x.bearer.kind = "session" /\ Alive(x.bearer.token) THEN FindBySid(x.bearer.token.who) ELSE 0
OwnRow(x) == IF SessionRow(x) # 0 THEN SessionRow(x) ELSE HeaderRow(x)
OneAppRow(x) == IF x.bearer.kind = "oneapp" THEN FindByUid(x.bearer.who) ELSE 0

\* A command that finds a user lets him in.
LEMMA Acts ==
  ASSUME NEW r \in Results, NEW i \in Nat
  PROVE  /\ As(r, i) \in Results /\ As(r, i).set = r.set /\ As(r, i).public = r.public
         /\ As(r, i).user = (IF i = 0 THEN r.user ELSE i)
         /\ (As(r, i).authn <=> i # 0 \/ r.authn) /\ (As(r, i).authz <=> i # 0 \/ r.authz)
<1>1. CASE i = 0
  BY <1>1 DEF As, Results
<1>2. CASE i # 0
  BY <1>2 DEF As, Authorized, Results
<1> QED
  BY <1>1, <1>2

\* The cookies of a browser: its two tokens are of one person, and the refresh
\* token outlives the access token.
LEMMA JarKinds ==
  ASSUME now \in Nat, NEW j, JarFits(j)
  PROVE  /\ j \in Jars /\ j.access.who = j.refresh.who
         /\ Alive(j.access) => Alive(j.refresh) /\ now + RefreshTtl - AccessTtl <= j.refresh.exp
         /\ j # NoJar => j.refresh.who \in Persons /\ (now < j.refresh.exp => Alive(j.refresh))
         /\ j = NoJar => ~Alive(j.refresh) /\ j.refresh.exp = 0 /\ j.refresh.who = NoOne
         /\ j.refresh.exp \in Nat /\ (Alive(j.refresh) => j.refresh.who \in Persons /\ now < j.refresh.exp)
<1>1. CASE j = NoJar
  BY <1>1 DEF NoJar, NoToken, Alive, Jars
<1>2. ASSUME j # NoJar
      PROVE  /\ j \in Jars /\ j.access.who = j.refresh.who /\ j.refresh.who \in Persons /\ j.refresh.exp \in Nat
             /\ Alive(j.access) => Alive(j.refresh) /\ now + RefreshTtl - AccessTtl <= j.refresh.exp
             /\ now < j.refresh.exp <=> Alive(j.refresh)
  <2>1. PICK p \in Persons, T \in 0..now : j = Pair(p, T)
    BY <1>2 DEF JarFits
  <2>2. /\ j.access.who = p /\ j.refresh.who = p /\ j.access.exp = T + AccessTtl /\ j.refresh.exp = T + RefreshTtl
        /\ p # NoOne
    BY <2>1, RowKinds DEF Pair
  <2>3. AccessTtl \in Nat /\ RefreshTtl \in Nat /\ AccessTtl < RefreshTtl /\ T \in Nat
    BY AccountsAssumption
  <2>4. j \in Jars
    BY <2>1, <2>3 DEF Pair, Jars
  <2> QED
    BY <2>2, <2>3, <2>4 DEF Alive
<1> QED
  BY <1>1, <1>2 DEF Alive

\* The user and the cookies that the chain and the handler come to.
LEMMA Outcome ==
  ASSUME rows \in Seq(RowType), now \in Nat, NEW x, JarFits(x.jar)
  PROVE  /\ Result(x).user = (IF OneAppRow(x) # 0 THEN OneAppRow(x) ELSE OwnRow(x))
         /\ Result(x).set = (IF Refreshes(x) THEN Fresh(x.body.who)
                             ELSE IF Leaves(Result(x), x) THEN NoJar
                             ELSE IF ~Alive(x.jar.access) /\ SessionRow(x) # 0 THEN Fresh(x.jar.refresh.who)
                             ELSE x.jar)
         /\ Status(Result(x)) = 200 /\ x.route \in {"user", "review"} => Result(x).user # 0
         /\ x.route = "review" /\ x.early /\ OneAppRow(x) = 0 => Status(Result(x)) # 200
<1>1. PICK j : j = x.jar
  OBVIOUS
<1>2. PICK w : w = j.refresh.who
  OBVIOUS
<1>3. PICK s : s = FindBySid(w)
  OBVIOUS
<1>4. /\ j \in Jars /\ j.access.who = w /\ (Alive(j.access) => Alive(j.refresh)) /\ s \in Nat
      /\ SessionRow(x) = (IF Alive(j.refresh) THEN s ELSE 0) /\ SessionRow(x) \in Nat
  BY <1>1, <1>2, <1>3, JarKinds, Finds DEF SessionRow
<1>5. OneAppRow(x) \in Nat /\ HeaderRow(x) \in Nat /\ OwnRow(x) \in Nat
  BY <1>4, Finds DEF OneAppRow, HeaderRow, OwnRow
<1>6. PICK r0 : r0 = NoResult(x)
  OBVIOUS
<1>7. /\ r0 \in Results /\ r0.set = j /\ r0.user = 0 /\ ~r0.public /\ ~r0.authn /\ ~r0.authz
  BY <1>1, <1>4, <1>6 DEF NoResult, Results
<1>8. PICK r1 : r1 = JwtHeader(r0, x)
  OBVIOUS
<1>9. /\ r1 \in Results /\ r1.set = j /\ ~r1.public /\ r1.user = HeaderRow(x)
      /\ (r1.authn <=> HeaderRow(x) # 0) /\ (r1.authz <=> HeaderRow(x) # 0)
  <2>1. CASE x.bearer.kind = "session" /\ Alive(x.bearer.token)
    <3>1. r1 = As(r0, HeaderRow(x))
      BY <1>8, <2>1 DEF JwtHeader, HeaderRow
    <3>2. PICK i \in Nat : i = HeaderRow(x)
      BY <1>5
    <3>3. /\ r1 \in Results /\ r1.set = r0.set /\ r1.public = r0.public /\ r1.user = (IF i = 0 THEN r0.user ELSE i)
          /\ (r1.authn <=> i # 0 \/ r0.authn) /\ (r1.authz <=> i # 0 \/ r0.authz)
      BY <1>7, <3>1, <3>2, Acts
    <3>4. r1.user = i
      BY <1>7, <3>3
    <3>5. (r1.authn <=> i # 0) /\ (r1.authz <=> i # 0) /\ ~r1.public
      BY <1>7, <3>3
    <3> QED
      BY <1>7, <3>2, <3>3, <3>4, <3>5
  <2>2. CASE ~(x.bearer.kind = "session" /\ Alive(x.bearer.token))
    BY <1>7, <1>8, <2>2 DEF JwtHeader, HeaderRow
  <2> QED
    BY <2>1, <2>2
<1>10. PICK r2 : r2 = JwtCookie(r1, x)
  OBVIOUS
<1>11. /\ r2 \in Results /\ ~r2.public /\ r2.user = OwnRow(x)
       /\ (r2.authn <=> OwnRow(x) # 0) /\ (r2.authz <=> OwnRow(x) # 0)
       /\ r2.set = (IF ~Alive(j.access) /\ SessionRow(x) # 0 THEN Fresh(w) ELSE j)
  <2>1. CASE Alive(j.access)
    <3>1. r2 = As(r1, s)
      BY <1>1, <1>3, <1>4, <1>10, <2>1 DEF JwtCookie
    <3>2. /\ r2 \in Results /\ r2.set = r1.set /\ r2.public = r1.public /\ r2.user = (IF s = 0 THEN r1.user ELSE s)
          /\ (r2.authn <=> s # 0 \/ r1.authn) /\ (r2.authz <=> s # 0 \/ r1.authz)
      BY <1>4, <1>9, <3>1, Acts
    <3>3. SessionRow(x) = s
      BY <1>4, <2>1
    <3> QED
      BY <1>9, <2>1, <3>2, <3>3 DEF OwnRow
  <2>2. CASE ~Alive(j.access) /\ SessionRow(x) # 0
    <3>1. r2 = [As(r1, s) EXCEPT !.set = Fresh(w)] /\ s # 0 /\ s = SessionRow(x)
      BY <1>1, <1>2, <1>3, <1>4, <1>10, <2>2 DEF JwtCookie
    <3>2. Fresh(w) \in Jars
      BY <1>1, <1>2, <1>4, <2>2, JarKinds, Signed
    <3>3. PICK r : r = As(r1, s)
      OBVIOUS
    <3>4. r \in Results /\ r.public = r1.public /\ r.user = s /\ r.authn /\ r.authz
      BY <1>4, <1>9, <3>1, <3>3, Acts
    <3>5. r2 = [r EXCEPT !.set = Fresh(w)]
      BY <3>1, <3>3
    <3>6. OwnRow(x) = s
      BY <3>1 DEF OwnRow
    <3> QED
      BY <1>9, <2>2, <3>1, <3>2, <3>4, <3>5, <3>6 DEF Results
  <2>3. CASE ~Alive(j.access) /\ SessionRow(x) = 0
    <3>1. r2 = r1
      BY <1>1, <1>2, <1>3, <1>4, <1>10, <2>3 DEF JwtCookie
    <3> QED
      BY <1>9, <2>3, <3>1 DEF OwnRow
  <2> QED
    BY <2>1, <2>2, <2>3
<1>12. PICK r3 : r3 = IsPublic(r2, x)
  OBVIOUS
<1>13. /\ r3 \in Results /\ (r3.public <=> x.route \in Public) /\ r3.user = r2.user
       /\ r3.authn = r2.authn /\ r3.authz = r2.authz /\ r3.set = r2.set
  <2>1. PICK b \in BOOLEAN : b <=> x.route \in Public
    OBVIOUS
  <2>2. r3 = [r2 EXCEPT !.public = b]
    BY <1>12, <2>1 DEF IsPublic
  <2> QED
    BY <1>11, <2>1, <2>2 DEF Results
<1>14. PICK r4 : r4 = SyncApiKey(r3, x)
  OBVIOUS
<1>15. /\ r4 \in Results /\ r4.public = r3.public /\ r4.user = r3.user /\ r4.set = r3.set
       /\ x.route # "sync" => r4 = r3
  BY <1>13, <1>14 DEF SyncApiKey, Authorized, Results
<1>16. PICK r5 : r5 = IsReviewProhibited(r4, x)
  OBVIOUS
<1>17. /\ r5 \in Results /\ r5.public = r4.public /\ r5.user = r4.user /\ r5.set = r4.set /\ r5.authn = r4.authn
       /\ x.route = "review" /\ x.early => ~r5.authz
  BY <1>15, <1>16 DEF IsReviewProhibited, Results
<1>18. PICK r6 : r6 = IsAdmin(r5, x)
  OBVIOUS
<1>19. /\ r6 \in Results /\ r6.public = r5.public /\ r6.user = r5.user /\ r6.set = r5.set
       /\ x.route # "admin" => r6 = r5
  BY <1>17, <1>18 DEF IsAdmin, Authorized, Results
<1>20. PICK r7 : r7 = OneAppHeader(r6, x)
  OBVIOUS
<1>21. /\ r7 \in Results /\ r7.public = r6.public /\ r7.set = r6.set
       /\ r7.user = (IF OneAppRow(x) # 0 THEN OneAppRow(x) ELSE r6.user)
       /\ (r7.authn <=> OneAppRow(x) # 0 \/ r6.authn) /\ (r7.authz <=> OneAppRow(x) # 0 \/ r6.authz)
  <2>1. CASE x.bearer.kind = "oneapp"
    BY <1>5, <1>19, <1>20, <2>1, Acts DEF OneAppHeader, OneAppRow
  <2>2. CASE x.bearer.kind # "oneapp"
    BY <1>19, <1>20, <2>2 DEF OneAppHeader, OneAppRow, Results
  <2> QED
    BY <2>1, <2>2
<1>22. r7 = Chain(x)
  BY <1>6, <1>8, <1>10, <1>12, <1>14, <1>16, <1>18, <1>20 DEF Chain
<1>23. PICK r8 : r8 = Replied(r7, x)
  OBVIOUS
<1>24. /\ r8.user = r7.user /\ r8.public = r7.public /\ r8.authn = r7.authn /\ r8.authz = r7.authz
       /\ r8.set = (IF Refreshes(x) THEN Fresh(x.body.who) ELSE IF Leaves(r7, x) THEN NoJar ELSE r7.set)
  <2>1. CASE Refreshes(x)
    <3>1. ~Leaves(r7, x)
      BY <2>1 DEF Refreshes, Leaves
    <3>2. r8 = [r7 EXCEPT !.set = Fresh(x.body.who)]
      BY <1>23, <2>1, <3>1 DEF Replied
    <3> QED
      BY <1>21, <2>1, <3>2 DEF Results
  <2>2. CASE ~Refreshes(x) /\ Leaves(r7, x)
    <3>1. r8 = [r7 EXCEPT !.set = NoJar]
      BY <1>23, <2>2 DEF Replied
    <3> QED
      BY <1>21, <2>2, <3>1 DEF Results
  <2>3. CASE ~Refreshes(x) /\ ~Leaves(r7, x)
    BY <1>23, <2>3 DEF Replied
  <2> QED
    BY <2>1, <2>2, <2>3
<1>25. r8 = Result(x)
  BY <1>22, <1>23 DEF Result
<1>26. r8.user = (IF OneAppRow(x) # 0 THEN OneAppRow(x) ELSE OwnRow(x))
  BY <1>11, <1>13, <1>15, <1>17, <1>19, <1>21, <1>24
<1>27. r7.set = (IF ~Alive(j.access) /\ SessionRow(x) # 0 THEN Fresh(w) ELSE j)
  BY <1>11, <1>13, <1>15, <1>17, <1>19, <1>21
<1>28. ASSUME Status(r8) = 200, x.route \in {"user", "review"} PROVE r8.user # 0
  <2>1. ~r8.public /\ (r8.authn <=> OneAppRow(x) # 0 \/ OwnRow(x) # 0)
    BY <1>11, <1>13, <1>15, <1>17, <1>19, <1>21, <1>24, <1>28 DEF Public
  <2>2. r8.authn
    BY <1>28, <2>1 DEF Status
  <2> QED
    BY <1>26, <2>1, <2>2
<1>29. ASSUME x.route = "review", x.early, OneAppRow(x) = 0 PROVE Status(r8) # 200
  <2>1. ~r8.public /\ ~r8.authz
    BY <1>13, <1>15, <1>17, <1>19, <1>21, <1>24, <1>29 DEF Public, Results
  <2> QED
    BY <1>21, <1>24, <2>1 DEF Status, Results
<1>30. Leaves(r7, x) <=> Leaves(r8, x)
  BY <1>24 DEF Leaves
<1> QED
  BY <1>1, <1>2, <1>24, <1>25, <1>26, <1>27, <1>28, <1>29, <1>30

-----------------------------------------------------------------------------
\* Steps that change no row.
LEMMA RowsStay ==
  ASSUME AccountRows, UNCHANGED <<rows, split>>, now' \in 0..MaxTime
  PROVE  AccountRows'
BY DEF AccountRows, RowFits, RowsOf

LEMMA VisitsStay ==
  ASSUME VisitsFit, UNCHANGED <<rows, split, visit>>, now \in Nat, now' \in Nat, now <= now'
  PROVE  VisitsFit'
<1>1. ASSUME NEW w \in Visits PROVE VisitFits(visit[w])'
  <2>1. PICK z : z = visit[w]
    OBVIOUS
  <2>2. VisitFits(z)
    BY <2>1 DEF VisitsFit
  <2>3. VisitFits(z)' /\ z = visit[w]'
    BY <2>1, <2>2, VisitStays
  <2> QED
    BY <2>3
<1>2. \A w, u \in Visits : w # u => Meet(visit[w], visit[u])'
  BY DEF VisitsFit, Meet, Going
<1> QED
  BY <1>1, <1>2 DEF VisitsFit

LEMMA JarStays ==
  ASSUME now \in Nat, now' \in Nat, now <= now', NEW j, JarFits(j)
  PROVE  JarFits(j)'
BY DEF JarFits

LEMMA RequestStays ==
  ASSUME now \in Nat, now' \in Nat, now <= now', NEW q, RequestFits(q)
  PROVE  RequestFits(q)'
<1> SUFFICES ASSUME q.pc = "answered" PROVE RequestFits(q)'
  BY DEF RequestFits
<1>1. JarFits(q.jar)' /\ JarFits(q.set)'
  BY JarStays DEF RequestFits
<1>2. Renews(q)'
  BY DEF RequestFits, Renews
<1>3. q.at \in 0..now'
  BY DEF RequestFits
<1> QED
  BY <1>1, <1>2, <1>3 DEF RequestFits

LEMMA KeptAll ==
  ASSUME AccountRows, AccountRows', UNCHANGED <<rows, split>>, NEW q \in Persons, Kept(q),
         HasSession(q)' => HasSession(q)
  PROVE  Kept(q)'
BY Ungrown, KeptStays

\* A visit that is over, or has failed, holds nothing.
LEMMA VisitOver ==
  ASSUME AccountRows, NEW y, y = [NoVisit EXCEPT !.pc = "done"]
  PROVE  VisitFits(y) /\ y.pc = "done"
<1>1. /\ y.pc = "done" /\ y.who = NoOne /\ y.dev = NoOne /\ y.app = FALSE /\ y.row = 0
      /\ y.own = 0 /\ y.other = 0 /\ y.jar = NoJar /\ y.met = FALSE
  BY DEF NoVisit
<1>2. NoJar \in Jars
  BY Signed DEF AccountRows
<1>3. y \in VisitSet
  BY <1>2 DEF NoVisit, VisitSet
<1> QED
  BY <1>1, <1>3 DEF VisitFits, Going, Looked, Unmet, Signing, Saved

LEMMA VisitsFail ==
  ASSUME AccountsInv, NEW v \in Visits, VisitFails(v)
  PROVE  AccountsInv'
<1>1. PICK y : y = [NoVisit EXCEPT !.pc = "done"]
  OBVIOUS
<1>2. VisitFits(y) /\ y.pc = "done"
  BY <1>1, VisitOver DEF AccountsInv
<1>3. Going(visit[v])
  BY DEF VisitFails, Busy, Going
<1>4. visit' = [visit EXCEPT ![v] = y]
  BY <1>1 DEF VisitFails
<1> QED
  BY <1>2, <1>3, <1>4, VisitGoes DEF VisitFails, histories

LEMMA Ticks ==
  ASSUME AccountsInv, Tick
  PROVE  AccountsInv'
<1>1. now \in Nat /\ now' = now + 1 /\ now' \in 0..MaxTime /\ now' \in Nat /\ now <= now'
  BY AccountsAssumption DEF Tick, AccountsInv, AccountRows
<1>2. UNCHANGED <<rows, visit, jar, held, asking, split, sole, used>>
  BY DEF Tick, histories
<1>3. AccountRows' /\ VisitsFit'
  BY <1>1, <1>2, RowsStay, VisitsStay DEF AccountsInv
<1>4. ASSUME NEW d \in Devices PROVE JarFits(jar[d])' /\ used'[d] \in -1..now' /\ OfUse(d)' /\ InTurn(d)'
  <2>1. PICK j : j = jar[d]
    OBVIOUS
  <2>2. JarFits(j)' /\ j = jar[d]'
    BY <1>1, <1>2, <2>1, JarStays DEF AccountsInv, SessionsFit
  <2>3. JarFits(jar[d])'
    BY <2>2
  <2>4. OfUse(d) /\ InTurn(d) /\ used[d] \in -1..now
    BY DEF AccountsInv, SessionsFit
  <2>5. OfUse(d)' /\ InTurn(d)'
    BY <1>2, <2>4 DEF OfUse, InTurn, Awaited, Visited, Going
  <2> QED
    BY <1>1, <1>2, <2>3, <2>4, <2>5
<1>5. ASSUME NEW a \in Asks PROVE RequestFits(asking[a])'
  <2>1. PICK q : q = asking[a]
    OBVIOUS
  <2>2. RequestFits(q)' /\ q = asking[a]'
    BY <1>1, <1>2, <2>1, RequestStays DEF AccountsInv, SessionsFit
  <2> QED
    BY <2>2
<1>6. \A q \in Persons : Kept(q)'
  BY <1>2, <1>3, KeptAll DEF AccountsInv, SessionsFit, HasSession
<1>7. \A t \in held' : TokenFits(t)'
  BY <1>1, <1>2, AccountsAssumption DEF AccountsInv, SessionsFit, TokenFits
<1> QED
  BY <1>2, <1>3, <1>4, <1>5, <1>6, <1>7 DEF AccountsInv, SessionsFit

\* The answer of a login: the row it leaves is complete.
LEMMA VisitsAnswer ==
  ASSUME AccountsInv, NEW v \in Visits, Answer(v)
  PROVE  AccountsInv'
<1>1. PICK x : x = visit[v]
  OBVIOUS
<1>2. PICK p \in Persons : p = x.who
  BY <1>1, VisitNow DEF Answer, Going
<1>3. /\ VisitFits(x) /\ x.pc = "answer" /\ Going(visit[v]) /\ Going(x)
      /\ AccountRows /\ SessionsFit /\ now \in Nat
  BY <1>1, VisitNow DEF Answer, Going, AccountsInv
<1>4. PICK d \in Devices : d = x.dev
  BY <1>3 DEF VisitFits
<1>5. PICK T \in 0..now : x.jar = Pair(p, T)
  BY <1>2, <1>3 DEF VisitFits, Signing
<1>6. PICK j : j = x.jar
  OBVIOUS
<1>7. /\ JarFits(j) /\ j # NoJar /\ j.refresh.who = p /\ j.refresh.exp = T + RefreshTtl
      /\ j.access.exp = T + AccessTtl /\ j \in Jars /\ {AccessTtl, RefreshTtl} \subseteq Nat
  <2>1. JarFits(j)
    BY <1>5, <1>6 DEF JarFits
  <2>2. j.refresh.who = p /\ j.refresh.exp = T + RefreshTtl /\ j.access.exp = T + AccessTtl /\ p # NoOne
    BY <1>5, <1>6, RowKinds DEF Pair
  <2> QED
    BY <1>3, <2>1, <2>2, JarKinds, AccountsAssumption
<1>8. PICK y : y = [NoVisit EXCEPT !.pc = "done"]
  OBVIOUS
<1>9. /\ UNCHANGED <<rows, now, asking, split>> /\ visit' = [visit EXCEPT ![v] = y]
      /\ jar' = [jar EXCEPT ![d] = j] /\ used' = [used EXCEPT ![d] = j.access.exp - AccessTtl]
      /\ held' = held \cup TokensOf(j)
      /\ sole' = [sole EXCEPT ![d] = ~Waiting(d) /\ \A w \in Visits \ {v} : ~(Busy(w) /\ visit[w].dev = d)]
  BY <1>1, <1>4, <1>6, <1>8 DEF Answer
<1>10. AccountRows' /\ VisitFits(y)' /\ y.pc = "done"
  <2>1. VisitFits(y) /\ y.pc = "done"
    BY <1>3, <1>8, VisitOver
  <2>2. AccountRows'
    BY <1>3, <1>9, RowsStay DEF AccountRows
  <2> QED
    BY <1>3, <1>9, <2>1, <2>2, VisitStays
<1>11. VisitsFit' /\ \A e, w : w \in Visits /\ Visited(visit'[w], e) => Visited(visit[w], e)
  BY <1>3, <1>9, <1>10, Ungrown, VisitsMove
<1>12. visit'[v].pc = "done"
  BY <1>9, <1>10, VisitNow, <1>3
<1>13. /\ jar \in [Devices -> Jars] /\ sole \in [Devices -> BOOLEAN] /\ used \in [Devices -> Int]
  BY <1>3 DEF SessionsFit
<1>14. /\ jar' \in [Devices -> Jars] /\ sole' \in [Devices -> BOOLEAN] /\ used' \in [Devices -> Int]
       /\ jar'[d] = j /\ used'[d] = T
       /\ sole'[d] = (~Waiting(d) /\ \A w \in Visits \ {v} : ~(Busy(w) /\ visit[w].dev = d))
       /\ \A e \in Devices \ {d} : jar'[e] = jar[e] /\ used'[e] = used[e] /\ sole'[e] = sole[e]
  BY <1>7, <1>9, <1>13
<1>15. ASSUME NEW e \in Devices PROVE JarFits(jar[e])' /\ used'[e] \in -1..now' /\ OfUse(e)' /\ InTurn(e)'
  <2>1. CASE e # d
    <3>1. JarFits(jar[e]) /\ used[e] \in -1..now /\ OfUse(e) /\ InTurn(e)
      BY <1>3 DEF SessionsFit
    <3>2. JarFits(jar[e])' /\ OfUse(e)' /\ used'[e] \in -1..now'
      BY <1>9, <1>14, <2>1, <3>1 DEF JarFits, OfUse
    <3>3. InTurn(e)'
      BY <1>9, <1>11, <1>14, <2>1, <3>1 DEF InTurn, Awaited
    <3> QED
      BY <3>2, <3>3
  <2>2. CASE e = d
    <3>1. JarFits(j)' /\ j = jar[e]'
      BY <1>3, <1>7, <1>9, <1>14, <2>2, JarStays
    <3>2. JarFits(jar[e])'
      BY <3>1
    <3>3. OfUse(e)' /\ used'[e] \in -1..now'
      BY <1>3, <1>7, <1>9, <1>14, <2>2 DEF OfUse
    <3>4. ASSUME sole'[d] PROVE \A w \in Visits : ~Visited(visit'[w], d)
      <4>1. \A w \in Visits \ {v} : ~(Busy(w) /\ visit[w].dev = d)
        BY <1>14, <3>4
      <4>2. \A w \in Visits \ {v} : ~Visited(visit[w], d)
        BY <4>1 DEF Visited, Going, Busy
      <4>3. ~Visited(visit'[v], d)
        BY <1>12 DEF Visited, Going
      <4> QED
        BY <1>11, <4>2, <4>3
    <3>5. ASSUME sole'[d] PROVE \A a \in Asks : ~Awaited(asking[a], d)'
      BY <1>9, <1>14, <3>5 DEF Awaited, Waiting
    <3>6. InTurn(e)'
      BY <2>2, <3>4, <3>5 DEF InTurn
    <3> QED
      BY <3>2, <3>3, <3>6
  <2> QED
    BY <2>1, <2>2
<1>16. ASSUME NEW a \in Asks PROVE RequestFits(asking[a])'
  <2>1. PICK q : q = asking[a]
    OBVIOUS
  <2>2. RequestFits(q)' /\ q = asking[a]'
    BY <1>3, <1>9, <2>1, RequestStays DEF SessionsFit
  <2> QED
    BY <2>2
<1>18. \A t \in TokensOf(j) : t.who = p /\ t.exp \in 0..now + RefreshTtl
  <2>1. j.access.who = p
    BY <1>3, <1>7, JarKinds
  <2> QED
    BY <1>3, <1>7, <2>1, AccountsAssumption DEF TokensOf
<1>19. \A t \in held' : TokenFits(t)'
  BY <1>3, <1>9, <1>18 DEF SessionsFit, TokenFits
<1>17. ASSUME NEW q \in Persons PROVE Kept(q)'
  <2>1. CASE q # p
    <3>1. HasSession(q)' => HasSession(q)
      BY <1>7, <1>9, <1>14, <1>18, <2>1 DEF HasSession
    <3> QED
      BY <1>3, <1>9, <1>10, <3>1, KeptAll DEF SessionsFit
  <2>2. CASE q = p
    <3>1. HasSid(p) /\ (p \notin split => \A i \in RowsOf(p) : rows[i].sid = p /\ rows[i].uid = p)
      BY <1>2, <1>3 DEF VisitFits, Completing
    <3>2. \A i \in RowsOf(p) : i \in DOMAIN rows /\ rows[i] \in {RowOf(p, p), RowOf(p, NoOne), RowOf(NoOne, p)}
      BY <1>3, RowsOfOne DEF RowsOf
    <3>3. p \notin split => \A i \in RowsOf(p) : rows[i] = RowOf(p, p)
      BY <3>1, <3>2, RowKinds
    <3> QED
      BY <1>9, <2>2, <3>1, <3>3 DEF Kept, HasSid, RowsOf
  <2> QED
    BY <2>1, <2>2
<1> QED
  BY <1>3, <1>9, <1>10, <1>11, <1>14, <1>15, <1>16, <1>17, <1>19 DEF AccountsInv, SessionsFit

-----------------------------------------------------------------------------
\* Whoever holds a session has cookies that fit.
LEMMA SessionsKept ==
  ASSUME AccountsInv, NEW d \in Devices
  PROVE  jar[d].refresh.who \in Persons => HasSid(jar[d].refresh.who)
BY DEF AccountsInv, SessionsFit, Kept, HasSession

\* What a request carries.
LEMMA Carries ==
  ASSUME NEW d, NEW x \in Queries(d)
  PROVE  /\ x.jar = jar[d] /\ x.route \in Routes /\ x.bearer \in Bearers
         /\ x.body \in {NoToken} \cup held /\ x.bearer.token \in {NoToken} \cup held
         /\ (x.bearer.token # NoToken => x.bearer.kind = "session") /\ (x.body # NoToken => x.route = "refresh")
<1>1. PICK route \in Routes : x \in [jar : {jar[d]}, route : {route}, bearer : Bearers, key : KeysOf(route),
                                     body : IF route = "refresh" THEN {NoToken} \cup held ELSE {NoToken},
                                     early : IF route = "review" THEN BOOLEAN ELSE {FALSE}]
  BY DEF Queries
<1>2. x.bearer \in Bearers /\ x.route = route /\ x.jar = jar[d]
      /\ x.body \in (IF route = "refresh" THEN {NoToken} \cup held ELSE {NoToken})
  BY <1>1
<1>3. x.bearer.token \in {NoToken} \cup held /\ (x.bearer.token # NoToken => x.bearer.kind = "session")
  BY <1>2 DEF Bearers
<1> QED
  BY <1>1, <1>2, <1>3

\* A token that is handed out and lives lets its person in.
LEMMA HeldKept ==
  ASSUME AccountsInv, NEW t \in {NoToken} \cup held
  PROVE  /\ Alive(t) => t \in held /\ t.who \in Persons /\ HasSid(t.who) /\ FindBySid(t.who) # 0 /\ HasSession(t.who)
         /\ ~Alive(NoToken)
<1>1. ~Alive(NoToken)
  BY DEF Alive, NoToken
<1>2. ASSUME Alive(t) PROVE t \in held /\ t.who \in Persons /\ HasSid(t.who) /\ HasSession(t.who)
  <2>1. t \in held
    BY <1>1, <1>2
  <2>2. t.who \in Persons
    BY <2>1 DEF AccountsInv, SessionsFit, TokenFits
  <2>3. HasSession(t.who)
    BY <2>1 DEF HasSession
  <2> QED
    BY <2>1, <2>2, <2>3 DEF AccountsInv, SessionsFit, Kept
<1> QED
  BY <1>1, <1>2, Finds DEF AccountsInv, AccountRows

\* A request is handled: what it sets is a session of the same person, or none.
LEMMA RequestsMade ==
  ASSUME AccountsInv, NEW a \in Asks, NEW d \in Devices, NEW x \in Queries(d), Ask(a, d, x)
  PROVE  AccountsInv'
<1>1. /\ AccountRows /\ SessionsFit /\ rows \in Seq(RowType) /\ now \in Nat
      /\ UNCHANGED <<rows, now, visit, jar, held, split, used>>
  BY DEF AccountsInv, AccountRows, Ask
<1>2. PICK j : j = jar[d]
  OBVIOUS
<1>3. x.jar = j /\ JarFits(j)
  BY <1>1, <1>2, Carries DEF SessionsFit
<1>4. PICK z : z = Result(x).set
  OBVIOUS
<1>21. PICK u : u = x.body
  OBVIOUS
<1>22. /\ u \in {NoToken} \cup held /\ (Refreshes(x) <=> x.route = "refresh" /\ Alive(u))
       /\ (Alive(u) => u.who \in Persons /\ HasSession(u.who))
  BY <1>21, Carries, HeldKept DEF Refreshes
<1>5. z = (IF Refreshes(x) THEN Fresh(u.who) ELSE IF Leaves(Result(x), x) THEN NoJar
           ELSE IF ~Alive(j.access) /\ SessionRow(x) # 0 THEN Fresh(j.refresh.who) ELSE j)
  BY <1>1, <1>3, <1>4, <1>21, Outcome
<1>6. /\ j \in Jars /\ (Alive(j.access) => now + RefreshTtl - AccessTtl <= j.refresh.exp)
      /\ (j # NoJar => j.refresh.who \in Persons /\ (now < j.refresh.exp => Alive(j.refresh)))
      /\ (j = NoJar => ~Alive(j.refresh)) /\ j.refresh.exp \in Nat
      /\ (Alive(j.refresh) => j.refresh.who \in Persons /\ now < j.refresh.exp)
      /\ (j = NoJar => j.refresh.exp = 0 /\ j.refresh.who = NoOne)
  BY <1>1, <1>3, JarKinds
<1>7. /\ {AccessTtl, RefreshTtl} \subseteq Nat
      /\ \A p : Fresh(p).refresh.exp = now + RefreshTtl /\ Fresh(p).refresh.who = p
  BY AccountsAssumption DEF Fresh, Token
<1>8. Alive(j.refresh) => SessionRow(x) # 0
  <2> SUFFICES ASSUME Alive(j.refresh) PROVE SessionRow(x) # 0
    OBVIOUS
  <2>1. HasSid(j.refresh.who)
    BY <1>2, <1>6, SessionsKept
  <2> QED
    BY <1>1, <1>3, <2>1, Finds DEF SessionRow
<1>23. NoJar.refresh.who = NoOne /\ \A p \in Persons : Fresh(p) # NoJar
  <2>1. NoJar.refresh.who = NoOne
    BY DEF NoJar, NoToken
  <2> QED
    BY <1>7, <2>1, RowKinds
<1>9. JarFits(z) /\ z \in Jars /\ (z.refresh.who \in Persons => HasSession(z.refresh.who))
  <2>1. CASE z = j
    BY <1>2, <1>3, <1>6, <2>1 DEF HasSession
  <2>2. CASE z = NoJar
    BY <1>1, <1>23, <2>2, Signed, RowKinds DEF JarFits
  <2>3. CASE z # j /\ z # NoJar
    <3>1. PICK p \in Persons : z = Fresh(p) /\ HasSession(p)
      <4>1. CASE Refreshes(x)
        BY <1>5, <1>22, <4>1
      <4>2. CASE ~Refreshes(x)
        <5>1. z = Fresh(j.refresh.who) /\ SessionRow(x) # 0
          BY <1>5, <2>3, <4>2
        <5>2. j.refresh.who \in Persons
          BY <1>3, <1>6, <5>1 DEF SessionRow
        <5> QED
          BY <1>2, <5>1, <5>2 DEF HasSession
      <4> QED
        BY <4>1, <4>2
    <3>2. z \in Jars /\ z = Pair(p, now) /\ now \in 0..now
      BY <1>1, <3>1, Signed
    <3> QED
      BY <1>7, <3>1, <3>2 DEF JarFits
  <2> QED
    BY <2>1, <2>2, <2>3
<1>24. PICK o \in BOOLEAN : o <=> Sets(Result(x), x)
  OBVIOUS
<1>25. PICK h \in BOOLEAN : h <=> Refreshes(x)
  OBVIOUS
<1>26. (o <=> z # j \/ h \/ Leaves(Result(x), x)) /\ (h => z # NoJar)
  BY <1>3, <1>4, <1>5, <1>22, <1>23, <1>24, <1>25 DEF Sets
<1>10. z # NoJar /\ (o \/ now < j.refresh.exp) => now + RefreshTtl - AccessTtl <= z.refresh.exp
  <2> SUFFICES ASSUME z # NoJar, o \/ now < j.refresh.exp PROVE now + RefreshTtl - AccessTtl <= z.refresh.exp
    OBVIOUS
  <2>1. CASE \E p : z = Fresh(p)
    BY <1>1, <1>7, <2>1
  <2>2. CASE ~(\E p : z = Fresh(p))
    <3>1. z = j /\ ~o /\ ~(~Alive(j.access) /\ SessionRow(x) # 0)
      BY <1>5, <1>25, <1>26, <2>2
    <3>2. Alive(j.refresh) /\ SessionRow(x) # 0
      BY <1>1, <1>6, <1>8, <3>1
    <3> QED
      BY <1>6, <3>1, <3>2
  <2> QED
    BY <2>1, <2>2
<1>11. PICK q : q = [pc |-> "answered", dev |-> d, jar |-> j, set |-> z, over |-> o, handed |-> h, at |-> now]
  OBVIOUS
<1>12. q.pc = "answered" /\ q.dev = d /\ q.jar = j /\ q.set = z /\ q.over = o /\ q.handed = h /\ q.at = now
  BY <1>11
<1>13. RequestFits(q) /\ q \in RequestSet
  <2>1. Renews(q)
    BY <1>10, <1>12, <1>26 DEF Renews
  <2>2. q \in RequestSet
    BY <1>1, <1>6, <1>9, <1>11 DEF RequestSet
  <2> QED
    BY <1>1, <1>3, <1>9, <1>12, <2>1, <2>2 DEF RequestFits
<1>14. /\ asking' = [asking EXCEPT ![a] = q] /\ asking[a].pc = "idle"
       /\ sole' = IF Waiting(d) \/ Visiting(d) THEN [sole EXCEPT ![d] = FALSE] ELSE sole
  <2>1. /\ asking' = [asking EXCEPT ![a] = [pc |-> "answered", dev |-> d, jar |-> x.jar, set |-> Result(x).set,
                          over |-> Sets(Result(x), x), handed |-> Refreshes(x), at |-> now]]
        /\ asking[a].pc = "idle"
        /\ sole' = IF Waiting(d) \/ Visiting(d) THEN [sole EXCEPT ![d] = FALSE] ELSE sole
    BY Zenon DEF Ask
  <2>2. Sets(Result(x), x) = o /\ Refreshes(x) = h
    <3>1. Sets(Result(x), x) \in BOOLEAN /\ Refreshes(x) \in BOOLEAN
      BY DEF Sets, Refreshes
    <3> QED
      BY <1>24, <1>25, <3>1
  <2> QED
    BY <1>3, <1>4, <1>11, <2>1, <2>2
<1>15. asking \in [Asks -> RequestSet] /\ sole \in [Devices -> BOOLEAN]
  BY <1>1 DEF SessionsFit
<1>16. /\ asking' \in [Asks -> RequestSet] /\ sole' \in [Devices -> BOOLEAN]
       /\ asking'[a] = q /\ \A b \in Asks \ {a} : asking'[b] = asking[b]
       /\ \A e \in Devices : sole'[e] => sole[e]
       /\ sole'[d] => ~Waiting(d) /\ ~Visiting(d)
  BY <1>13, <1>14, <1>15
<1>17. AccountRows' /\ VisitsFit'
  BY <1>1, RowsStay, VisitsStay DEF AccountsInv, AccountRows
<1>18. ASSUME NEW e \in Devices PROVE JarFits(jar[e])' /\ used'[e] \in -1..now' /\ OfUse(e)' /\ InTurn(e)'
  <2>1. JarFits(jar[e]) /\ used[e] \in -1..now /\ OfUse(e) /\ InTurn(e)
    BY <1>1 DEF SessionsFit
  <2>2. JarFits(jar[e])' /\ used'[e] \in -1..now' /\ OfUse(e)'
    BY <1>1, <1>16, <2>1 DEF JarFits, OfUse
  <2>3. CASE e # d
    <3>1. \A b \in Asks : Awaited(asking'[b], e) => b # a /\ Awaited(asking[b], e) /\ asking'[b] = asking[b]
      BY <1>12, <1>16, <2>3 DEF Awaited
    <3>2. \A b \in Asks : Awaited(asking'[b], e) <=> Awaited(asking[b], e)
      BY <1>14, <1>16, <3>1 DEF Awaited
    <3> QED
      BY <1>1, <1>16, <2>1, <2>2, <3>1, <3>2 DEF InTurn
  <2>4. CASE e = d
    <3> SUFFICES ASSUME sole'[d] PROVE InTurn(d)'
      BY <2>2, <2>4 DEF InTurn
    <3>1. \A b \in Asks \ {a} : ~Awaited(asking'[b], d)
      BY <1>16 DEF Awaited, Waiting
    <3>2. \A w \in Visits : ~Visited(visit'[w], d)
      BY <1>1, <1>16 DEF Visited, Visiting, Going, Busy
    <3>3. asking'[a].jar = jar'[d]
      BY <1>1, <1>2, <1>12, <1>16
    <3> QED
      BY <3>1, <3>2, <3>3 DEF InTurn
  <2> QED
    BY <2>3, <2>4
<1>19. ASSUME NEW b \in Asks PROVE RequestFits(asking[b])'
  <2>1. PICK y : y = asking'[b]
    OBVIOUS
  <2>2. RequestFits(y)
    BY <1>1, <1>13, <1>16, <2>1 DEF SessionsFit
  <2>3. RequestFits(y)' /\ y = asking[b]'
    BY <1>1, <2>1, <2>2, RequestStays
  <2> QED
    BY <2>3
<1>20. ASSUME NEW p \in Persons PROVE Kept(p)'
  <2>1. HasSession(p)' => HasSession(p)
    <3>1. z.refresh.who = p => HasSession(p)
      BY <1>9
    <3> QED
      BY <1>1, <1>12, <1>16, <3>1 DEF HasSession
  <2> QED
    BY <1>1, <1>17, <2>1, KeptAll DEF SessionsFit
<1>27. \A t \in held' : TokenFits(t)'
  BY <1>1 DEF SessionsFit, TokenFits
<1> QED
  BY <1>1, <1>16, <1>17, <1>18, <1>19, <1>20, <1>27 DEF AccountsInv, SessionsFit

\* Its answer arrives: alone, it finds the cookies it was asked with.
LEMMA Receives ==
  ASSUME AccountsInv, NEW a \in Asks, Receive(a)
  PROVE  AccountsInv'
<1>1. /\ AccountRows /\ SessionsFit /\ rows \in Seq(RowType) /\ now \in Nat
      /\ UNCHANGED <<rows, now, visit, split, sole>>
  BY DEF AccountsInv, AccountRows, Receive
<1>2. PICK r : r = asking[a]
  OBVIOUS
<1>3. /\ RequestFits(r) /\ r \in RequestSet /\ r.pc = "answered"
      /\ JarFits(r.jar) /\ JarFits(r.set) /\ Renews(r) /\ r.at \in 0..now
  BY <1>1, <1>2 DEF SessionsFit, RequestFits, Receive
<1>4. PICK d \in Devices : d = r.dev
  BY <1>3 DEF RequestFits
<1>5. PICK j : j = r.set
  OBVIOUS
<1>6. /\ asking' = [asking EXCEPT ![a] = NotAsked]
      /\ jar' = IF r.over THEN [jar EXCEPT ![d] = j] ELSE jar
      /\ held' = IF r.handed THEN held \cup TokensOf(j) ELSE held
      /\ used' = [used EXCEPT ![d] = IF j = NoJar THEN -1
                                     ELSE IF r.over \/ r.at < r.jar.refresh.exp THEN r.at ELSE used[d]]
  BY <1>2, <1>4, <1>5 DEF Receive
<1>7. jar \in [Devices -> Jars] /\ used \in [Devices -> Int] /\ asking \in [Asks -> RequestSet] /\ j \in Jars
  BY <1>1, <1>3, <1>5 DEF SessionsFit, RequestSet
<1>8. NotAsked \in RequestSet /\ NotAsked.pc = "idle"
  BY <1>1, Signed DEF NotAsked, RequestSet
<1>9. /\ jar' \in [Devices -> Jars] /\ used' \in [Devices -> Int] /\ asking' \in [Asks -> RequestSet]
      /\ jar'[d] = (IF r.over THEN j ELSE jar[d])
      /\ used'[d] = (IF j = NoJar THEN -1 ELSE IF r.over \/ r.at < r.jar.refresh.exp THEN r.at ELSE used[d])
      /\ \A e \in Devices \ {d} : jar'[e] = jar[e] /\ used'[e] = used[e]
      /\ asking'[a].pc = "idle" /\ \A b \in Asks \ {a} : asking'[b] = asking[b]
  BY <1>1, <1>3, <1>6, <1>7, <1>8
<1>10. AccountRows' /\ VisitsFit'
  BY <1>1, RowsStay, VisitsStay DEF AccountsInv, AccountRows
<1>11. ASSUME NEW e \in Devices PROVE JarFits(jar[e])' /\ used'[e] \in -1..now' /\ OfUse(e)' /\ InTurn(e)'
  <2>1. JarFits(jar[e]) /\ used[e] \in -1..now /\ OfUse(e) /\ InTurn(e)
    BY <1>1 DEF SessionsFit
  <2>2. \A b \in Asks : Awaited(asking'[b], e) => b # a /\ Awaited(asking[b], e) /\ asking'[b] = asking[b]
    BY <1>9 DEF Awaited
  <2>3. CASE e # d
    <3>1. JarFits(jar[e])' /\ used'[e] \in -1..now' /\ OfUse(e)'
      BY <1>1, <1>9, <2>1, <2>3 DEF JarFits, OfUse
    <3> QED
      BY <1>1, <1>9, <2>1, <2>2, <2>3, <3>1 DEF InTurn
  <2>4. CASE e = d
    <3>1. PICK k : k = jar'[d]
      OBVIOUS
    <3>2. JarFits(k)
      BY <1>3, <1>5, <1>9, <2>1, <2>4, <3>1
    <3>3. JarFits(k)' /\ k = jar[e]'
      BY <1>1, <2>4, <3>1, <3>2, JarStays
    <3>4. JarFits(jar[e])'
      BY <3>3
    <3>5. used'[e] \in -1..now'
      BY <1>1, <1>3, <1>9, <2>1, <2>4
    <3>6. ASSUME sole[d]
          PROVE  /\ jar[d] = r.jar /\ jar'[d] = j
                 /\ \A b \in Asks \ {a} : ~Awaited(asking[b], d)
                 /\ \A w \in Visits : ~Visited(visit[w], d)
      <4>1. Awaited(asking[a], d)
        BY <1>2, <1>3, <1>4 DEF Awaited
      <4>2. /\ asking[a].jar = jar[d] /\ \A b \in Asks \ {a} : ~Awaited(asking[b], d)
            /\ \A w \in Visits : ~Visited(visit[w], d)
        BY <2>1, <2>4, <3>6, <4>1 DEF InTurn
      <4>3. ~r.over => j = r.jar
        BY <1>3, <1>5 DEF Renews
      <4> QED
        BY <1>2, <1>9, <4>2, <4>3
    <3>7. InTurn(e)'
      BY <1>1, <2>2, <2>4, <3>6 DEF InTurn
    <3>8. OfUse(e)'
      <4> SUFFICES ASSUME sole[d] PROVE IF used'[d] = -1 THEN jar'[d] = NoJar
               ELSE jar'[d] # NoJar /\ used'[d] + RefreshTtl - AccessTtl <= jar'[d].refresh.exp
        BY <1>1, <2>4 DEF OfUse
      <4>1. CASE j = NoJar
        BY <1>9, <3>6, <4>1
      <4>2. CASE j # NoJar /\ (r.over \/ r.at < r.jar.refresh.exp)
        <5>1. r.at + RefreshTtl - AccessTtl <= j.refresh.exp
          BY <1>3, <1>5, <4>2 DEF Renews
        <5>2. used'[d] = r.at /\ r.at # -1
          BY <1>3, <1>9, <4>2
        <5> QED
          BY <3>6, <4>2, <5>1, <5>2
      <4>3. CASE j # NoJar /\ ~(r.over \/ r.at < r.jar.refresh.exp)
        <5>1. used'[d] = used[d] /\ jar'[d] = jar[d]
          BY <1>9, <4>3
        <5> QED
          BY <2>1, <2>4, <3>6, <4>3, <5>1 DEF OfUse
      <4> QED
        BY <4>1, <4>2, <4>3
    <3> QED
      BY <3>4, <3>5, <3>7, <3>8
  <2> QED
    BY <2>3, <2>4
<1>12. ASSUME NEW b \in Asks PROVE RequestFits(asking[b])'
  <2>1. PICK y : y = asking'[b]
    OBVIOUS
  <2>2. RequestFits(y)
    BY <1>1, <1>9, <2>1 DEF SessionsFit, RequestFits
  <2>3. RequestFits(y)' /\ y = asking[b]'
    BY <1>1, <2>1, <2>2, RequestStays
  <2> QED
    BY <2>3
<1>14. r.handed => \A t \in TokensOf(j) : t.who = j.refresh.who /\ t.who \in Persons /\ t.exp \in 0..now + RefreshTtl
  <2> SUFFICES ASSUME r.handed PROVE \A t \in TokensOf(j) : /\ t.who = j.refresh.who /\ t.who \in Persons
                                                            /\ t.exp \in 0..now + RefreshTtl
    OBVIOUS
  <2>1. PICK p \in Persons, T \in 0..now : j = Pair(p, T)
    BY <1>3, <1>5 DEF Renews, JarFits
  <2>2. /\ j.access.who = p /\ j.refresh.who = p /\ j.access.exp = T + AccessTtl /\ j.refresh.exp = T + RefreshTtl
    BY <2>1 DEF Pair
  <2> QED
    BY <1>1, <2>2, AccountsAssumption DEF TokensOf
<1>15. \A t \in held' : TokenFits(t)'
  BY <1>1, <1>6, <1>14 DEF SessionsFit, TokenFits
<1>13. ASSUME NEW p \in Persons PROVE Kept(p)'
  <2>1. HasSession(p)' => HasSession(p)
    <3> SUFFICES ASSUME HasSession(p)' PROVE HasSession(p)
      OBVIOUS
    <3>0. j.refresh.who = p => HasSession(p)
      BY <1>2, <1>3, <1>5 DEF HasSession
    <3>1. CASE \E e \in Devices : jar'[e].refresh.who = p
      <4>1. PICK e \in Devices : jar'[e].refresh.who = p
        BY <3>1
      <4> QED
        BY <1>9, <3>0, <4>1 DEF HasSession
    <3>2. CASE \E b \in Asks : asking'[b].pc = "answered" /\ asking'[b].set.refresh.who = p
      BY <1>9, <3>2 DEF HasSession
    <3>3. CASE \E t \in held' : t.who = p
      BY <1>6, <1>14, <3>0, <3>3 DEF HasSession
    <3> QED
      BY <3>1, <3>2, <3>3 DEF HasSession
  <2> QED
    BY <1>1, <1>10, <2>1, KeptAll DEF SessionsFit
<1> QED
  BY <1>1, <1>9, <1>10, <1>11, <1>12, <1>13, <1>15 DEF AccountsInv, SessionsFit

\* A visit begins and meets those under way.
LEMMA VisitsBegin ==
  ASSUME AccountsInv, NEW v \in Visits, NEW p \in Persons, NEW d \in Devices, NEW app \in BOOLEAN,
         Visit(v, p, d, app)
  PROVE  AccountsInv'
<1>1. /\ AccountRows /\ VisitsFit /\ SessionsFit /\ now \in Nat
      /\ UNCHANGED <<rows, now, jar, held, asking, split, used>> /\ visit[v].pc = "idle"
  <2>1. UNCHANGED <<rows, now, jar, held, asking, split, used>> /\ visit[v].pc = "idle"
    BY Zenon DEF Visit
  <2> QED
    BY <2>1 DEF AccountsInv, AccountRows
<1>2. PICK m \in BOOLEAN : m <=> \E w \in Visits : Busy(w) /\ visit[w].who = p
  OBVIOUS
<1>3. PICK y : y = [NoVisit EXCEPT !.pc = IF app THEN "known" ELSE "sid", !.who = p,
                                   !.dev = IF app THEN NoOne ELSE d, !.app = app, !.met = m]
  OBVIOUS
<1>4. /\ y.pc = (IF app THEN "known" ELSE "sid") /\ y.who = p /\ y.dev = (IF app THEN NoOne ELSE d)
      /\ y.app = app /\ y.met = m /\ y.row = 0 /\ y.own = 0 /\ y.other = 0 /\ y.jar = NoJar
  BY <1>3 DEF NoVisit
<1>5. y \in VisitSet
  BY <1>1, <1>3, Signed DEF NoVisit, VisitSet
<1>6. VisitFits(y)
  BY <1>4, <1>5 DEF VisitFits, Going, Looked, Unmet, Signing, Saved, Completing
<1> DEFINE Now(w) == [visit[w] EXCEPT !.met = visit[w].met \/ (Busy(w) /\ visit[w].who = p)]
<1>8. visit' = [w \in Visits |-> IF w = v THEN y ELSE Now(w)]
  BY <1>2, <1>3 DEF Visit
<1>9. ASSUME NEW w \in Visits
      PROVE  /\ Now(w) \in VisitSet /\ VisitFits(Now(w)) /\ Now(w).who = visit[w].who /\ Now(w).pc = visit[w].pc
             /\ Now(w).dev = visit[w].dev /\ Now(w).app = visit[w].app
             /\ (Now(w).met <=> visit[w].met \/ (Busy(w) /\ visit[w].who = p))
  <2>1. PICK x : x = visit[w]
    OBVIOUS
  <2>2. x \in VisitSet /\ VisitFits(x)
    BY <1>1, <2>1 DEF VisitsFit
  <2>3. PICK b \in BOOLEAN : b <=> visit[w].met \/ (Busy(w) /\ visit[w].who = p)
    OBVIOUS
  <2>4. PICK z : z = [x EXCEPT !.met = b]
    OBVIOUS
  <2>5. z \in VisitSet
    BY <2>2, <2>4 DEF VisitSet
  <2>6. /\ z.who = x.who /\ z.pc = x.pc /\ z.dev = x.dev /\ z.app = x.app /\ z.row = x.row /\ z.own = x.own
        /\ z.other = x.other /\ z.jar = x.jar /\ z.met = b
    BY <2>2, <2>4 DEF VisitSet
  <2>7. x.met => z.met
    BY <2>1, <2>3, <2>6
  <2>8. VisitFits(z)
    BY <2>2, <2>5, <2>6, <2>7 DEF VisitFits, Going, Looked, Unmet, Completing
  <2>9. z = Now(w)
    BY <2>1, <2>3, <2>4
  <2> QED
    BY <2>1, <2>3, <2>5, <2>6, <2>8, <2>9
<1> HIDE DEF Now
<1>10. visit' \in [Visits -> VisitSet] /\ visit'[v] = y /\ \A w \in Visits \ {v} : visit'[w] = Now(w)
  BY <1>5, <1>8, <1>9
<1>11. AccountRows'
  BY <1>1, RowsStay DEF AccountRows
<1>12. VisitsFit'
  <2>1. ASSUME NEW w \in Visits PROVE VisitFits(visit[w])'
    <3>1. PICK z : z = visit'[w]
      OBVIOUS
    <3>2. VisitFits(z)
      BY <1>6, <1>9, <1>10, <3>1
    <3>3. VisitFits(z)' /\ z = visit[w]'
      BY <1>1, <3>1, <3>2, VisitStays
    <3> QED
      BY <3>3
  <2>2. ASSUME NEW w \in Visits, NEW u \in Visits, w # u PROVE Meet(visit[w], visit[u])'
    <3> SUFFICES ASSUME Going(visit'[w]), Going(visit'[u]), visit'[w].who = visit'[u].who PROVE visit'[w].met
      BY DEF Meet, Going
    <3>1. CASE w = v
      <4>1. u # v /\ Busy(u) /\ visit[u].who = p
        BY <1>4, <1>9, <1>10, <2>2, <3>1 DEF Going, Busy
      <4> QED
        BY <1>2, <1>4, <1>10, <3>1, <4>1
    <3>2. CASE u = v
      BY <1>4, <1>9, <1>10, <2>2, <3>2 DEF Going, Busy
    <3>3. CASE w # v /\ u # v
      <4>1. Going(visit[w]) /\ Going(visit[u]) /\ visit[w].who = visit[u].who
        BY <1>9, <1>10, <3>3 DEF Going
      <4>2. visit[w].met
        BY <1>1, <2>2, <4>1 DEF VisitsFit, Meet
      <4> QED
        BY <1>9, <1>10, <3>3, <4>2
    <3> QED
      BY <3>1, <3>2, <3>3
  <2> QED
    BY <1>10, <2>1, <2>2 DEF VisitsFit
<1>13. sole' = IF ~app /\ (Waiting(d) \/ Visiting(d)) THEN [sole EXCEPT ![d] = FALSE] ELSE sole
  BY DEF Visit
<1>14. sole \in [Devices -> BOOLEAN]
  BY <1>1 DEF SessionsFit
<1>15. /\ sole' \in [Devices -> BOOLEAN] /\ \A e \in Devices : sole'[e] => sole[e]
       /\ sole'[d] => app \/ (~Waiting(d) /\ ~Visiting(d))
  BY <1>13, <1>14
<1>16. \A w \in Visits, e \in Devices : Visited(visit'[w], e) => (w = v /\ ~app /\ e = d) \/ (w # v /\ Visited(visit[w], e))
  BY <1>4, <1>9, <1>10 DEF Visited, Going
<1>17. ASSUME NEW e \in Devices PROVE JarFits(jar[e])' /\ used'[e] \in -1..now' /\ OfUse(e)' /\ InTurn(e)'
  <2>1. JarFits(jar[e]) /\ used[e] \in -1..now /\ OfUse(e) /\ InTurn(e)
    BY <1>1 DEF SessionsFit
  <2>2. JarFits(jar[e])' /\ used'[e] \in -1..now' /\ OfUse(e)'
    BY <1>1, <1>15, <2>1 DEF JarFits, OfUse
  <2>3. CASE e # d \/ app
    <3>1. \A w \in Visits : Visited(visit'[w], e) => Visited(visit[w], e)
      BY <1>16, <2>3
    <3> QED
      BY <1>1, <1>15, <2>1, <2>2, <3>1 DEF InTurn
  <2>4. CASE e = d /\ ~app
    <3> SUFFICES ASSUME sole'[d] PROVE InTurn(d)'
      BY <2>2, <2>4 DEF InTurn
    <3>1. ~Waiting(d) /\ ~Visiting(d)
      BY <1>15, <2>4
    <3>2. \A b \in Asks : ~Awaited(asking'[b], d)
      BY <1>1, <3>1 DEF Awaited, Waiting
    <3>3. \A w \in Visits : Visited(visit'[w], d) => w = v
      BY <1>16, <3>1 DEF Visited, Visiting, Going, Busy
    <3> QED
      BY <3>2, <3>3 DEF InTurn
  <2> QED
    BY <2>3, <2>4
<1>18. ASSUME NEW b \in Asks PROVE RequestFits(asking[b])'
  BY <1>1 DEF SessionsFit, RequestFits, JarFits, Renews
<1>19. \A q \in Persons : Kept(q)'
  BY <1>1, <1>11, KeptAll DEF SessionsFit, HasSession
<1>20. \A t \in held' : TokenFits(t)'
  BY <1>1 DEF SessionsFit, TokenFits
<1> QED
  BY <1>1, <1>11, <1>12, <1>15, <1>17, <1>18, <1>19, <1>20 DEF AccountsInv, SessionsFit

-----------------------------------------------------------------------------
\* Sets of none, one and two.
LEMMA TwoOf ==
  /\ Cardinality({}) = 0 /\ \A x : Cardinality({x}) = 1
  /\ \A x, y : x # y => Cardinality({x, y}) = 2
<1>1. Cardinality({}) = 0 /\ \A x : Cardinality({x}) = 1 /\ IsFiniteSet({x})
  BY FS_EmptySet, FS_Singleton
<1>2. ASSUME NEW x, NEW y, x # y PROVE Cardinality({x, y}) = 2
  <2>1. Cardinality({x} \cup {y}) = IF y \in {x} THEN Cardinality({x}) ELSE Cardinality({x}) + 1
    BY <1>1, FS_AddElement
  <2>2. y \notin {x} /\ {x} \cup {y} = {x, y} /\ Cardinality({x}) = 1
    BY <1>1, <1>2
  <2> QED
    BY <2>1, <2>2
<1> QED
  BY <1>1, <1>2

\* One person stands in a row.
LEMMA OneOf ==
  ASSUME NEW s, NEW u
  PROVE  Cardinality({s, u} \ {NoOne}) = 1 <=> (s # NoOne \/ u # NoOne) /\ (s = u \/ s = NoOne \/ u = NoOne)
<1>1. CASE s = NoOne /\ u = NoOne
  <2>1. {s, u} \ {NoOne} = {}
    BY <1>1
  <2>2. Cardinality({s, u} \ {NoOne}) = 0
    BY <2>1, TwoOf
  <2> QED
    BY <1>1, <2>2
<1>2. CASE s # NoOne /\ (u = s \/ u = NoOne)
  <2>1. {s, u} \ {NoOne} = {s}
    BY <1>2
  <2> QED
    BY <1>2, <2>1, TwoOf
<1>3. CASE s = NoOne /\ u # NoOne
  <2>1. {s, u} \ {NoOne} = {u}
    BY <1>3
  <2> QED
    BY <1>3, <2>1, TwoOf
<1>4. CASE s # NoOne /\ u # NoOne /\ s # u
  <2>1. {s, u} \ {NoOne} = {s, u}
    BY <1>4
  <2>2. Cardinality({s, u}) = 2
    BY <1>4, TwoOf
  <2>3. Cardinality({s, u} \ {NoOne}) = 2
    BY <2>1, <2>2
  <2> QED
    BY <1>4, <2>3
<1> QED
  BY <1>1, <1>2, <1>3, <1>4

\* A row fits if it is of one person, as TypeOK and Init count it.
LEMMA RowCounts ==
  ASSUME NEW x \in RowType
  PROVE  Cardinality({x.sid, x.uid} \ {NoOne}) = 1 <=> RowFits(x)
<1>1. x = RowOf(x.sid, x.uid) /\ {x.sid, x.uid} \subseteq Persons \cup {NoOne}
  BY DEF RowType, RowOf
<1>2. Cardinality({x.sid, x.uid} \ {NoOne}) = 1
        <=> (x.sid # NoOne \/ x.uid # NoOne) /\ (x.sid = x.uid \/ x.sid = NoOne \/ x.uid = NoOne)
  BY OneOf
<1>3. ASSUME RowFits(x) PROVE (x.sid # NoOne \/ x.uid # NoOne) /\ (x.sid = x.uid \/ x.sid = NoOne \/ x.uid = NoOne)
  <2>1. PICK p \in Persons : x \in {RowOf(p, p), RowOf(p, NoOne), RowOf(NoOne, p)}
    BY <1>3 DEF RowFits
  <2> QED
    BY <2>1, RowKinds
<1>4. (x.sid # NoOne \/ x.uid # NoOne) /\ (x.sid = x.uid \/ x.sid = NoOne \/ x.uid = NoOne) => RowFits(x)
  BY <1>1 DEF RowFits
<1> QED
  BY <1>2, <1>3, <1>4

\* A person has at most one row: counted, and as the invariant says it.
LEMMA RowsCounted ==
  ASSUME rows \in Seq(RowType), NEW p
  PROVE  /\ Cardinality(RowsOf(p)) \in Nat
         /\ Cardinality(RowsOf(p)) <= 1 <=> \A i, j \in RowsOf(p) : i = j
<1>1. RowsOf(p) \in SUBSET (1..Len(rows)) /\ Len(rows) \in Nat
  BY DEF RowsOf
<1>2. IsFiniteSet(1..Len(rows))
  BY <1>1, FS_Interval
<1>3. PICK S : S = RowsOf(p)
  OBVIOUS
<1>4. IsFiniteSet(S)
  BY <1>1, <1>2, <1>3, FS_Subset
<1>5. Cardinality(S) \in Nat
  BY <1>4, FS_CardinalityType
<1>6. ASSUME \A i, j \in S : i = j PROVE Cardinality(S) <= 1
  <2>1. CASE S = {}
    BY <2>1, TwoOf
  <2>2. CASE S # {}
    <3>1. PICK i \in S : TRUE
      BY <2>2
    <3>2. S = {i}
      BY <1>6, <3>1
    <3>3. Cardinality(S) = 1
      BY <3>2, TwoOf
    <3> QED
      BY <3>3
  <2> QED
    BY <2>1, <2>2
<1>7. ASSUME NEW i \in S, NEW j \in S, i # j PROVE ~(Cardinality(S) <= 1)
  <2>1. Cardinality({i, j}) = 2 /\ {i, j} \in SUBSET S
    BY <1>7, TwoOf
  <2>2. Cardinality({i, j}) <= Cardinality(S)
    BY <1>4, <2>1, FS_Subset
  <2> QED
    BY <1>5, <2>1, <2>2
<1> QED
  BY <1>3, <1>5, <1>6, <1>7

LEMMA AccountsStart == Init => AccountsInv
<1> SUFFICES ASSUME Init PROVE AccountsInv
  OBVIOUS
<1>1. rows \in Seq(RowType) /\ now = 0 /\ MaxTime \in Nat /\ {AccessTtl, RefreshTtl} \subseteq Nat
  BY AccountsAssumption DEF Init
<1>2. \A i \in DOMAIN rows : RowFits(rows[i])
  <2> TAKE i \in DOMAIN rows
  <2>1. rows[i] \in RowType
    BY <1>1
  <2> QED
    BY <2>1, RowCounts DEF Init
<1>3. \A p \in Persons : \A i, j \in RowsOf(p) : i = j
  BY <1>1, RowsCounted DEF Init
<1>4. AccountRows
  BY <1>1, <1>2, <1>3 DEF AccountRows
<1>5. NoJar \in Jars /\ JarFits(NoJar) /\ NoJar.refresh.who = NoOne
  BY <1>1, Signed DEF JarFits, NoJar, NoToken
<1>6. PICK y : y = NoVisit
  OBVIOUS
<1>7. /\ y.pc = "idle" /\ y.who = NoOne /\ y.dev = NoOne /\ y.app = FALSE /\ y.row = 0
      /\ y.own = 0 /\ y.other = 0 /\ y.jar = NoJar /\ y.met = FALSE /\ y \in VisitSet
  BY <1>5, <1>6 DEF NoVisit, VisitSet
<1>8. VisitFits(y)
  BY <1>7 DEF VisitFits, Going, Looked, Unmet, Signing, Saved
<1>9. \A v \in Visits : visit[v] = y
  BY <1>6 DEF Init
<1>10. VisitsFit
  <2>1. \A v \in Visits : VisitFits(visit[v])
    BY <1>8, <1>9
  <2>2. \A v, w \in Visits : Meet(visit[v], visit[w])
    BY <1>7, <1>9 DEF Meet, Going
  <2>3. visit \in [Visits -> VisitSet]
    BY <1>6, <1>7 DEF Init
  <2> QED
    BY <2>1, <2>2, <2>3 DEF VisitsFit
<1>11. NotAsked \in RequestSet /\ NotAsked.pc = "idle"
  BY <1>5 DEF NotAsked, RequestSet
<1>12. /\ \A d \in Devices : jar[d] = NoJar /\ used[d] = -1 /\ sole[d] = TRUE
       /\ \A a \in Asks : asking[a] = NotAsked
       /\ \A v \in Visits : visit[v].pc = "idle"
  BY <1>7, <1>9 DEF Init
<1>13. \A d \in Devices : OfUse(d) /\ InTurn(d)
  BY <1>11, <1>12 DEF OfUse, InTurn, Awaited, Visited, Going
<1>18. held = {}
  BY DEF Init
<1>14. \A p \in Persons : Kept(p)
  BY <1>5, <1>11, <1>12, <1>18, RowKinds DEF Kept, HasSession
<1>15. /\ jar \in [Devices -> Jars] /\ sole \in [Devices -> BOOLEAN] /\ used \in [Devices -> Int]
       /\ asking \in [Asks -> RequestSet]
  BY <1>5, <1>11 DEF Init
<1>16. \A d \in Devices : JarFits(jar[d]) /\ used[d] \in -1..now
  BY <1>1, <1>5, <1>12
<1>17. \A a \in Asks : RequestFits(asking[a])
  BY <1>11, <1>12 DEF RequestFits
<1> QED
  BY <1>4, <1>10, <1>13, <1>14, <1>15, <1>16, <1>17, <1>18 DEF AccountsInv, SessionsFit

LEMMA AccountsRest == AccountsInv /\ UNCHANGED vars => AccountsInv'
<1> SUFFICES ASSUME AccountsInv, UNCHANGED vars PROVE AccountsInv'
  OBVIOUS
<1>1. UNCHANGED <<rows, now, faults, visit, jar, held, asking, split, sole, used>>
  BY DEF vars, histories
<1>2. AccountRows' /\ VisitsFit'
  BY <1>1, RowsStay, VisitsStay DEF AccountsInv, AccountRows
<1>3. SessionsFit'
  <2>1. \A d \in Devices : JarFits(jar[d])' /\ used'[d] \in -1..now' /\ OfUse(d)'
    BY <1>1 DEF AccountsInv, SessionsFit, JarFits, OfUse
  <2>2. \A d \in Devices : InTurn(d)'
    BY <1>1 DEF AccountsInv, SessionsFit, InTurn
  <2>3. \A a \in Asks : RequestFits(asking[a])'
    BY <1>1 DEF AccountsInv, SessionsFit, RequestFits, JarFits, Renews
  <2>4. \A p \in Persons : Kept(p)'
    BY <1>1, <1>2, KeptAll DEF AccountsInv, SessionsFit, HasSession
  <2>5. \A t \in held' : TokenFits(t)'
    BY <1>1 DEF AccountsInv, SessionsFit, TokenFits
  <2> QED
    BY <1>1, <2>1, <2>2, <2>3, <2>4, <2>5 DEF AccountsInv, SessionsFit
<1> QED
  BY <1>2, <1>3 DEF AccountsInv

LEMMA AccountsStep == AccountsInv /\ [Next]_vars => AccountsInv'
<1> SUFFICES ASSUME AccountsInv, [Next]_vars PROVE AccountsInv'
  OBVIOUS
<1>1. CASE Tick
  BY <1>1, Ticks
<1>2. ASSUME NEW v \in Visits,
             \/ \E p \in Persons, d \in Devices, app \in BOOLEAN : Visit(v, p, d, app)
             \/ LoginBySid(v) \/ LoginByUid(v) \/ SaveUser(v) \/ Provide(v)
             \/ CallbackByUid(v) \/ CallbackBySid(v) \/ AddSid(v) \/ AddUid(v) \/ Answer(v)
             \/ RegisterKnown(v) \/ RegisterAgain(v) \/ Register(v) \/ VisitFails(v)
      PROVE  AccountsInv'
  <2>1. CASE \E p \in Persons, d \in Devices, app \in BOOLEAN : Visit(v, p, d, app)
    BY <2>1, VisitsBegin
  <2>2. CASE LoginBySid(v) \/ LoginByUid(v) \/ SaveUser(v) \/ Provide(v)
    BY <2>2, LoginsBySid, LoginsByUid, SavesUser, Provides
  <2>3. CASE CallbackByUid(v) \/ CallbackBySid(v) \/ AddSid(v) \/ AddUid(v) \/ Answer(v)
    BY <2>3, CallsBackByUid, CallsBackBySid, AddsSid, AddsUid, VisitsAnswer
  <2>4. CASE RegisterKnown(v) \/ RegisterAgain(v) \/ Register(v) \/ VisitFails(v)
    BY <2>4, RegistersKnown, RegistersAgain, Registers, VisitsFail
  <2> QED
    BY <1>2, <2>1, <2>2, <2>3, <2>4
<1>3. CASE RequestSteps
  BY <1>3, Receives, RequestsMade DEF RequestSteps
<1>4. CASE UNCHANGED vars
  BY <1>4, AccountsRest
<1> QED
  BY <1>1, <1>2, <1>3, <1>4 DEF Next, VisitSteps

\* Accounts and sessions: see AccountsInv.
THEOREM AccountsFit == Spec => []AccountsInv
BY AccountsStart, AccountsStep, PTL DEF Spec

\* A person has one account, unless the cause of a second is known, and a
\* session is of somebody whose account is found and complete (auth.service.ts).
THEOREM AccountsAlways == Spec => []AccountsHold
<1>1. AccountsInv => AccountsHold
  <2> SUFFICES ASSUME AccountsInv PROVE AccountsHold
    OBVIOUS
  <2>1. AccountRows /\ VisitsFit /\ SessionsFit /\ rows \in Seq(RowType) /\ now \in Nat
    BY DEF AccountsInv, AccountRows
  <2>2. TypeOK
    <3>1. \A i \in DOMAIN rows : Cardinality({rows[i].sid, rows[i].uid} \ {NoOne}) = 1
      <4> TAKE i \in DOMAIN rows
      <4>1. rows[i] \in RowType /\ RowFits(rows[i])
        BY <2>1 DEF AccountRows
      <4> QED
        BY <4>1, RowCounts
    <3>2. ASSUME NEW v \in Visits
          PROVE  /\ visit[v].pc \in {"idle", "sid", "uid", "write", "provide", "own", "other",
                                     "fixSid", "fixUid", "answer", "known", "again", "register", "done"}
                 /\ {visit[v].row, visit[v].own, visit[v].other} \subseteq 0..Len(rows)
      <4>1. visit[v] \in VisitSet /\ Looked(visit[v])
        BY <2>1 DEF VisitsFit, VisitFits
      <4>2. \A i \in {0} \cup DOMAIN rows : i \in 0..Len(rows)
        BY <2>1
      <4> QED
        BY <4>1, <4>2 DEF VisitSet, Signing, Looked
    <3>3. ASSUME NEW d \in Devices
          PROVE  /\ jar[d].access.who = jar[d].refresh.who
                 /\ jar[d].access.exp <= now + AccessTtl /\ jar[d].refresh.exp <= now + RefreshTtl
                 /\ used[d] \in -1..now
      <4>1. JarFits(jar[d]) /\ used[d] \in -1..now
        BY <2>1 DEF SessionsFit
      <4>2. {AccessTtl, RefreshTtl} \subseteq Nat
        BY AccountsAssumption
      <4>3. CASE jar[d] = NoJar
        BY <2>1, <4>1, <4>2, <4>3 DEF NoJar, NoToken
      <4>4. CASE jar[d] # NoJar
        <5>1. PICK p \in Persons, T \in 0..now : jar[d] = Pair(p, T)
          BY <4>1, <4>4 DEF JarFits
        <5>2. /\ jar[d].access.who = p /\ jar[d].refresh.who = p
              /\ jar[d].access.exp = T + AccessTtl /\ jar[d].refresh.exp = T + RefreshTtl
          BY <5>1 DEF Pair
        <5> QED
          BY <2>1, <4>1, <4>2, <5>2
      <4> QED
        BY <4>3, <4>4
    <3>4. \A t \in held : t.who \in Persons /\ t.exp \in 0..now + RefreshTtl
      BY <2>1 DEF SessionsFit, TokenFits
    <3> QED
      BY <2>1, <3>1, <3>2, <3>3, <3>4 DEF TypeOK, AccountRows
  <2>3. ASSUME NEW p \in Persons
        PROVE  /\ Cardinality(RowsOf(p)) > 1 => p \in split
               /\ HasSession(p) => FindBySid(p) # 0
               /\ HasSession(p) /\ p \notin split => \A i \in RowsOf(p) : rows[i] = RowOf(p, p)
    <3>1. p \notin split => Cardinality(RowsOf(p)) <= 1
      BY <2>1, RowsCounted DEF AccountRows
    <3>2. Cardinality(RowsOf(p)) \in Nat
      BY <2>1, RowsCounted
    <3>3. HasSession(p) => HasSid(p) /\ (p \notin split => \A i \in RowsOf(p) : rows[i] = RowOf(p, p))
      BY <2>1 DEF SessionsFit, Kept
    <3> QED
      BY <2>1, <3>1, <3>2, <3>3, Finds
  <2> QED
    BY <2>2, <2>3 DEF AccountsHold
<1> QED
  BY <1>1, AccountsFit, PTL

\* A session goes on while it is used, a logout leaves only the tokens that the
\* client keeps, those let their person in while they live, and nobody is let in
\* on the row of another (auth.command chain, tokenRefresh, logout).
THEOREM SessionsAlways == Spec => []SessionsHold
<1>1. AccountsInv => SessionsHold
  <2> SUFFICES ASSUME AccountsInv, NEW d \in Devices, NEW x \in Queries(d) PROVE Served(d, x)
    BY DEF SessionsHold
  <2>1. AccountRows /\ SessionsFit /\ rows \in Seq(RowType) /\ now \in Nat
    BY DEF AccountsInv, AccountRows
  <2>2. x.jar = jar[d] /\ JarFits(x.jar) /\ x.route \in Routes /\ x.bearer \in Bearers
    BY <2>1, Carries DEF SessionsFit
  <2>3. PICK r : r = Result(x)
    OBVIOUS
  <2>4. /\ r.user = (IF OneAppRow(x) # 0 THEN OneAppRow(x) ELSE OwnRow(x))
        /\ Refreshes(x) => r.set = Fresh(x.body.who)
        /\ Status(r) = 200 /\ x.route \in {"user", "review"} => r.user # 0
        /\ x.route = "review" /\ x.early /\ OneAppRow(x) = 0 => Status(r) # 200
    BY <2>1, <2>2, <2>3, Outcome
  <2>5. x.bearer.kind # "oneapp" => OneAppRow(x) = 0
    BY DEF OneAppRow
  <2>6. SessionRow(x) # 0 => Alive(x.jar.refresh) /\ rows[SessionRow(x)].sid = x.jar.refresh.who
    BY <2>1, Finds DEF SessionRow
  <2>7. OneAppRow(x) # 0 => x.bearer.kind = "oneapp" /\ rows[OneAppRow(x)].uid = x.bearer.who
    BY <2>1, Finds DEF OneAppRow
  <2>8. x.bearer.kind = "oneapp" => OneAppRow(x) = FindByUid(x.bearer.who)
    BY DEF OneAppRow
  <2>9. Alive(x.jar.refresh) => SessionRow(x) # 0
    <3> SUFFICES ASSUME Alive(x.jar.refresh) PROVE SessionRow(x) # 0
      OBVIOUS
    <3>1. x.jar.refresh.who \in Persons
      BY <2>1, <2>2, JarKinds
    <3>2. HasSid(x.jar.refresh.who)
      BY <2>2, <3>1, SessionsKept
    <3> QED
      BY <2>1, <3>2, Finds DEF SessionRow
  <2>10. PICK t : t = x.bearer.token
    OBVIOUS
  <2>11. /\ HeaderRow(x) # 0 => Alive(t) /\ rows[HeaderRow(x)].sid = t.who
         /\ Alive(t) => HeaderRow(x) # 0 /\ x.bearer.kind = "session" /\ t \in held
    <3>1. t \in {NoToken} \cup held /\ (t # NoToken => x.bearer.kind = "session") /\ ~Alive(NoToken)
      BY <2>10, Carries, HeldKept
    <3>2. Alive(t) => t \in held /\ FindBySid(t.who) # 0
      BY <3>1, HeldKept
    <3> QED
      BY <2>1, <2>10, <3>1, <3>2, Finds DEF HeaderRow
  <2>12. Alive(x.body) => r.set = Fresh(x.body.who)
    <3>1. x.body \in {NoToken} \cup held /\ (x.body # NoToken => x.route = "refresh") /\ ~Alive(NoToken)
      BY Carries, HeldKept
    <3>2. Alive(x.body) => Refreshes(x)
      BY <3>1, HeldKept DEF Refreshes
    <3> QED
      BY <2>4, <3>2
  <2>13. ASSUME sole[d], used[d] # -1, now < used[d] + RefreshTtl - AccessTtl PROVE Alive(x.jar.refresh)
    <3>1. x.jar # NoJar /\ used[d] + RefreshTtl - AccessTtl <= x.jar.refresh.exp /\ used[d] \in Int
      BY <2>1, <2>2, <2>13 DEF SessionsFit, OfUse
    <3>2. x.jar.refresh.who \in Persons /\ (now < x.jar.refresh.exp => Alive(x.jar.refresh)) /\ x.jar.refresh.exp \in Nat
      BY <2>1, <2>2, <3>1, JarKinds
    <3> QED
      BY <2>1, <2>13, <3>1, <3>2, AccountsAssumption
  <2>14. ASSUME sole[d], used[d] = -1 PROVE ~Alive(x.jar.refresh)
    <3>1. x.jar = NoJar
      BY <2>1, <2>2, <2>14 DEF SessionsFit, OfUse
    <3> QED
      BY <2>1, <2>2, <3>1, JarKinds
  <2>15. PICK one : one = IF Alive(x.jar.refresh) THEN x.jar.refresh ELSE t
    OBVIOUS
  <2>16. /\ OwnRow(x) # 0 => Alive(one) /\ rows[OwnRow(x)].sid = one.who
         /\ Alive(t) \/ Alive(x.jar.refresh) <=> OwnRow(x) # 0
    BY <2>6, <2>9, <2>11, <2>15 DEF OwnRow
  <2>17. /\ sole[d] /\ used[d] # -1 /\ now < used[d] + RefreshTtl - AccessTtl => r.user # 0
         /\ sole[d] /\ used[d] = -1 /\ x.bearer.kind # "oneapp" /\ r.user # 0 => x.bearer.token \in held
         /\ Alive(x.bearer.token) => r.user # 0
    BY <2>4, <2>5, <2>10, <2>11, <2>13, <2>14, <2>16
  <2>18. /\ r.user # 0 => \/ Alive(one) /\ rows[r.user].sid = one.who
                          \/ x.bearer.kind = "oneapp" /\ rows[r.user].uid = x.bearer.who
         /\ x.bearer.kind = "oneapp" /\ FindByUid(x.bearer.who) # 0 => rows[r.user].uid = x.bearer.who
    BY <2>4, <2>7, <2>8, <2>16
  <2> QED
    BY <2>3, <2>4, <2>5, <2>10, <2>12, <2>15, <2>17, <2>18 DEF Served
<1> QED
  BY <1>1, AccountsFit, PTL
=============================================================================
