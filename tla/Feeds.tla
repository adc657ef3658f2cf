------------------------------- MODULE Feeds -------------------------------
(***************************************************************************)
(* The daily feeds of a user.  A request looks, for each feed it is to     *)
(* show, whether it has been made for that day, and makes it if not; the   *)
(* parts run at the same time, and so do requests.  The first request of a *)
(* day decides at random what the feed is about and whether it is shown.   *)
(* The answer is cached by URL until midnight.  The URL names a user, but  *)
(* nothing compares that user with the one who asks: who asks under        *)
(* another's URL is answered what is cached there, or the asker's own      *)
(* feeds are made and cached there.                                        *)
(*                                                                         *)
(* Which review or course a feed is about is left out: it is written with  *)
(* the row and never changed.                                              *)
(***************************************************************************)
EXTENDS Choices, Integers, FiniteSetsExt

CONSTANTS MajorsOf,         \* MajorsOf[u]: department, majors, minors of user u
          Days,             \* dates, as numbers
          YearOf,           \* YearOf[d]: the year of day d
          FeedTasks,        \* requests being handled at the same time
          FeedRateMinDays,
          NoDay

ASSUME FeedsAssumption ==
  /\ Days \subseteq Nat /\ FeedRateMinDays \in Nat /\ NoDay \notin Days
  /\ NoMember \notin Members \cup Departments /\ MajorsOf \in [Members -> SUBSET Departments]

VARIABLES feeds,   \* feeds[x]: the row of feed x = <<kind, of, day>>
          takes,   \* users with a taken lecture
          writes,  \* ... of another semester than that which cannot be reviewed yet
          rated,   \* <<user, year>> in support_rate
          cached,  \* cached[<<w, d>>]: the cached answer, w the user of the URL
          ask,     \* ask[f]: request f for feeds
          seen,    \* history: what user u has been shown for day d under the own URL
          raced,   \* history: users with requests that overlapped
          filled   \* history: <<w, d>> with another's answer cached under the URL of w

feedVars == <<feeds, takes, writes, rated, cached, ask, seen, raced, filled>>

Kinds   == {"humanity", "ranked"}
OfUser  == {"write", "related", "rate"}
Feeds   == (Kinds \X {NoMember} \X Days) \cup ({"major"} \X Departments \X Days) \cup (OfUser \X Members \X Days)
NotCached == {<<"none", NoMember, NoDay>>}
NoAsk   == [pc |-> "idle", user |-> NoMember, url |-> NoMember, day |-> NoDay, parts |-> [x \in {} |-> "done"],
            shown |-> {}, expected |-> {}]

\* getRelatedDepartments
RelatedDepartments(u) == MajorsOf[u] \cup favorites[u]
PartsOf(u, d) == (Kinds \X {NoMember} \X {d}) \cup ({"major"} \X RelatedDepartments(u) \X {d})
                 \cup (OfUser \X {u} \X {d})

\* Of earlier requests at least the feeds not shown may be there.
FeedsInit ==
  /\ feeds \in [Feeds -> {"none", "hidden"}]
  /\ takes \in SUBSET Members /\ writes \in SUBSET takes /\ rated = {}
  /\ cached = [x \in Members \X Days |-> NotCached]
  /\ ask = [f \in FeedTasks |-> NoAsk]
  /\ seen = [x \in Members \X Days |-> {}]
  /\ raced = {} /\ filled = {}

-----------------------------------------------------------------------------
\* User u asks for day d under the URL of w.
Expected(u, w, d) == IF w = u THEN seen[<<u, d>>] ELSE {}
AskFeeds(f, u, w, d) ==
  LET others == {g \in FeedTasks : ask[g].pc # "idle" /\ ask[g].user = u} IN
  /\ ask[f].pc = "idle" /\ cached[<<w, d>>] = NotCached
  /\ ask' = [ask EXCEPT ![f] = [pc |-> "parts", user |-> u, url |-> w, day |-> d,
                                parts |-> [x \in PartsOf(u, d) |-> "find"],
                                shown |-> {}, expected |-> Expected(u, w, d)]]
  /\ raced' = IF others = {} THEN raced ELSE raced \cup {u}
  /\ UNCHANGED <<feeds, takes, writes, rated, cached, seen, filled, choiceVars>>

\* The interceptor answers what is cached for the URL, whoever asks.
AskCached(f, u, w, d) ==
  /\ ask[f].pc = "idle" /\ cached[<<w, d>>] # NotCached
  /\ ask' = [ask EXCEPT ![f] = [pc |-> "answered", user |-> u, url |-> w, day |-> d,
                                parts |-> [x \in {} |-> "done"],
                                shown |-> cached[<<w, d>>], expected |-> Expected(u, w, d)]]
  /\ UNCHANGED <<feeds, takes, writes, rated, cached, seen, raced, filled, choiceVars>>

PartAt(f, x, pc) == ask[f].pc = "parts" /\ x \in DOMAIN ask[f].parts /\ ask[f].parts[x] = pc
Part(f, x, pc) == ask' = [ask EXCEPT ![f].parts[x] = pc]
Show(f, x, row) == ask' = [ask EXCEPT ![f].parts[x] = "done",
                                      ![f].shown = IF row = "shown" THEN ask[f].shown \cup {x} ELSE ask[f].shown]

FindFeed(f, x) ==
  /\ PartAt(f, x, "find")
  /\ IF feeds[x] # "none" THEN Show(f, x, feeds[x])
     ELSE Part(f, x, IF x[1] = "rate" THEN "rated" ELSE "choose")
  /\ UNCHANGED <<feeds, takes, writes, rated, cached, seen, raced, filled, choiceVars>>

\* What the feed is to be about: there is none without a taken lecture.
HasSubject(x) == CASE x[1] = "write" -> x[2] \in writes
                   [] x[1] = "related" -> x[2] \in takes
                   [] OTHER -> TRUE
ChooseSubject(f, x) ==
  /\ PartAt(f, x, "choose")
  /\ Part(f, x, IF HasSubject(x) THEN "create" ELSE "done")
  /\ UNCHANGED <<feeds, takes, writes, rated, cached, seen, raced, filled, choiceVars>>

\* getOrCreateRate: none for who has rated in the year of the day, nor near
\* a day with one that is shown.
LookRated(f, x) ==
  /\ PartAt(f, x, "rated")
  /\ Part(f, x, IF <<x[2], YearOf[x[3]]>> \in rated THEN "done" ELSE "near")
  /\ UNCHANGED <<feeds, takes, writes, rated, cached, seen, raced, filled, choiceVars>>
\* Mutant: only days before are looked at.
NearBefore(x) == {d \in Days : d > x[3] - FeedRateMinDays /\ d <= x[3]}
Near(x) == {d \in Days : d > x[3] - FeedRateMinDays /\ d < x[3] + FeedRateMinDays}
LookNear(f, x) ==
  /\ PartAt(f, x, "near")
  /\ Part(f, x, IF \E d \in Near(x) : feeds[<<"rate", x[2], d>>] = "shown" THEN "done" ELSE "create")
  /\ UNCHANGED <<feeds, takes, writes, rated, cached, seen, raced, filled, choiceVars>>

\* Each table has a unique index; a row that is there by now fails the whole
\* request, though its other parts go on.
CreateFeed(f, x) ==
  /\ PartAt(f, x, "create")
  /\ IF feeds[x] = "none"
     THEN \E row \in {"shown", "hidden"} : feeds' = [feeds EXCEPT ![x] = row] /\ Show(f, x, row)
     ELSE Part(f, x, "failed") /\ UNCHANGED feeds
  /\ UNCHANGED <<takes, writes, rated, cached, seen, raced, filled, choiceVars>>

Ended(f) == \A x \in DOMAIN ask[f].parts : ask[f].parts[x] \in {"done", "failed"}
AnswerFeeds(f) ==
  /\ ask[f].pc = "parts" /\ Ended(f)
  /\ IF \E x \in DOMAIN ask[f].parts : ask[f].parts[x] = "failed"
     THEN ask' = [ask EXCEPT ![f] = NoAsk] /\ UNCHANGED <<cached, filled>>
     ELSE /\ ask' = [ask EXCEPT ![f].pc = "answered"]
          /\ cached' = [cached EXCEPT ![<<ask[f].url, ask[f].day>>] = ask[f].shown]
          /\ filled' = IF ask[f].url = ask[f].user THEN filled ELSE filled \cup {<<ask[f].url, ask[f].day>>}
  /\ UNCHANGED <<feeds, takes, writes, rated, seen, raced, choiceVars>>
Received(f) ==
  /\ ask[f].pc = "answered"
  /\ seen' = IF ask[f].url # ask[f].user THEN seen
             ELSE [seen EXCEPT ![<<ask[f].user, ask[f].day>>] = @ \cup ask[f].shown]
  /\ ask' = [ask EXCEPT ![f] = NoAsk]
  /\ UNCHANGED <<feeds, takes, writes, rated, cached, raced, filled, choiceVars>>

\* Midnight, a restart, or another process without that cache.
Evict(u, d) ==
  /\ cached[<<u, d>>] # NotCached
  /\ cached' = [cached EXCEPT ![<<u, d>>] = NotCached]
  /\ UNCHANGED <<feeds, takes, writes, rated, ask, seen, raced, filled, choiceVars>>

\* createRate of RatesService: once a year; a second that overlaps fails by
\* the unique index.
Rate(u, y) ==
  /\ <<u, y>> \notin rated /\ rated' = rated \cup {<<u, y>>}
  /\ UNCHANGED <<feeds, takes, writes, cached, ask, seen, raced, filled, choiceVars>>

\* Lectures are taken (synchronisation), a semester becomes reviewable.
Take(u) ==
  /\ u \notin writes
  /\ takes' = takes \cup {u} /\ writes' \in {writes, writes \cup {u}}
  /\ UNCHANGED <<feeds, rated, cached, ask, seen, raced, filled, choiceVars>>

PartSteps(f) ==
  \E x \in DOMAIN ask[f].parts :
    FindFeed(f, x) \/ ChooseSubject(f, x) \/ LookRated(f, x) \/ LookNear(f, x) \/ CreateFeed(f, x)
FeedsNext ==
  \/ \E f \in FeedTasks :
       \/ \E u, w \in Members, d \in Days : AskFeeds(f, u, w, d) \/ AskCached(f, u, w, d)
       \/ PartSteps(f) \/ AnswerFeeds(f) \/ Received(f)
  \/ \E u \in Members, d \in Days : Evict(u, d) \/ Rate(u, YearOf[d])
  \/ \E u \in Members : Take(u)
  \/ ChoiceSteps /\ UNCHANGED feedVars

FeedsSpec == ChoicesInit /\ FeedsInit /\ [][FeedsNext]_<<feedVars, choiceVars>>

-----------------------------------------------------------------------------
FeedTypes ==
  /\ feeds \in [Feeds -> {"none", "hidden", "shown"}] /\ writes \subseteq takes
  /\ \A f \in FeedTasks : ask[f].pc = "parts" =>
       DOMAIN ask[f].parts \subseteq Feeds /\ ask[f].shown \subseteq DOMAIN ask[f].parts

\* What a user has been shown for a day is shown again whenever the user
\* asks for that day under the own URL, except for departments that are no
\* longer theirs (or were not when the cached answer was made) - unless the
\* user's requests overlapped, or another's answer was once cached under
\* that URL; and the feeds asking a user to rate the service are
\* FeedRateMinDays apart, whatever the URLs - unless requests overlapped.
FeedsStable ==
  /\ FeedTypes
  /\ \A f \in FeedTasks :
       ask[f].pc = "answered" /\ ask[f].user \notin raced /\ <<ask[f].user, ask[f].day>> \notin filled =>
         {x \in ask[f].expected : x[1] = "major" => x \in DOMAIN ask[f].parts} \subseteq ask[f].shown
  /\ \A u \in Members \ raced, d, e \in Days :
       d < e /\ feeds[<<"rate", u, d>>] = "shown" /\ feeds[<<"rate", u, e>>] = "shown" => e - d >= FeedRateMinDays
=============================================================================
