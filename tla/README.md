# A verification project for OTLPlus

OTLPlus is the course review and timetable service of KAIST students: a NestJS
monorepo over MySQL (through Prisma), Redis and RabbitMQ. This directory holds
TLA+ models of the parts of it that several processes, requests or messages
touch at once, the TLC configurations that check them, and TLAPS proofs.
`PROJECT.json` lists components, runs, mutants, hazards and, for every
definition that models code, the lines it models.

Contents: [1 the system](#1-the-system), [2 what is hard](#2-what-is-hard-and-what-must-hold),
[3 plan](#3-plan), [4 modules](#4-the-modules-and-the-code), [5 runs](#5-the-runs),
[6 proofs](#6-what-is-proved), [7 what the code leaves open](#7-what-the-code-leaves-open),
[8 limits](#8-what-is-not-modelled).

## 1 The system

| part | where | state | operations |
|---|---|---|---|
| server | `apps/server` | none of its own; MySQL rows, cookies in browsers, a cache by URL | HTTP requests of users, versions 1 and 2 side by side: timetables, custom blocks, friends, reviews, planners, wishlist, feeds, settings, login; of administrators and of the sync: lists of the registrar, notifications |
| server-consumer | `apps/server-consumer` | none; MySQL rows | handlers of the queues `scholar-sync` and `statistics` that recompute derived columns; handlers of the two dead-letter queues |
| scholar-sync | `apps/scholar-sync` | `sync_history`, `sync_taken_lectures`, cron jobs | cron every three hours and HTTP endpoints: departments, courses, lectures, charges, times, taken lectures, degrees, majors, best reviews |
| notification-consumer | `apps/notification-consumer` | a sorted set in Redis | routes push notifications by kind and hour, sends and records them |
| libs/rmq | `libs/rmq` | connection, channels, consumers | publish to a delayed exchange; consume with a timer, retries and dead-lettering |
| libs/redis | `libs/redis` | locks with an expiry (redlock, no retries) | acquire, release |
| libs/prisma-client | `libs/prisma-client` | the schema; transactions of MySQL at REPEATABLE READ | repositories; only those for timetables, custom blocks and friends (and the order of planners) take part in the transaction of a request, all others run each statement on its own |

How they interact. The server and scholar-sync commit changes to MySQL and then
publish a message that names what is to be derived again; there is no
outbox, a failed publish is logged, some changes have no message, and one kind of
message names the wrong row (section 7). server-consumer (two PM2 processes,
prefetch 5) reads everything the derived value depends on and writes the value.
scholar-sync makes the rows of a term what the registrar's API lists. The server
has copies of some of these jobs, with derivations of their own, so a run may
overlap a run of the cron and undo it. Users and sync meet in the same rows: class
times decide whether a custom block fits, taken lectures are rebuilt when a user
logs in, lists are paged while rows change under them. Servers of two versions
run side by side: an older one writes only the first row of a custom block's times.
The server checks consent and publishes a notification; notification-consumer
decides by hour and kind whether to send it, to schedule it in Redis (where it stays:
the job that would take it out is never registered), or not. A few endpoints act on a
row of another user than the one who asks: version 1 deletes timetables by id, planners are
reordered by id, and feeds are cached by a URL that names a user nobody compares.

## 2 What is hard, and what must hold

The unit tests of the repository run one request at a time against mocks or one
database. What they do not reach:

* **Messages** (libs/rmq): a handler that misses its timer keeps running while
  its message is retried; a process dies between publishing a retry and
  acknowledging the original; a connection closes. A message must not get lost,
  must be given up only after all its attempts, and must not fork by itself.
* **Derived values** (server-consumer): two handlers of one lecture read and
    write without a transaction; a lock expires under its holder; a change is announced
  under another name, or not at all. The columns must come to agree with what was
  announced, and the exceptions must be known.
* **Timetables** (server): requests of one user overlap, each a transaction over a
  snapshot with a lock on one row. Positions must stay a list, blocks must not
  overlap, a copy must not share rows with its source, the home selection must
    not dangle; and what a request does to the list of another user must be known.
* **Friends** (server): a friendship is two rows, locked one after the other by
  both users' requests; a code is allocated without a transaction; what is shown
  of a friend's schedule is read in several statements, while servers of two
  versions write the rows of a block each in its own way.
* **Planners** (server): `@Transactional` reaches three statements out of some
  twenty; a request that fails leaves half a planner, and two requests interleave
  statement by statement. Positions must stay a list when requests take turns, and
  an answered request must have done all its parts.
* **Synchronisation** (scholar-sync): long runs of single statements that may fail,
  crash or overlap, with a later run as the only repair. A run that meets no
  other must repair whatever earlier ones left, and must never remove what
  cannot be restored; and what two programs make of the same list must agree.
* **Settings and notifications** (server, notification-consumer): rows are
  made on a first visit by look-up-then-insert; a whole row is written from an
  older read; a consumer sends, then records, and may crash in between. Nobody who has not consented may get an advertisement, and every accepted notification must
  come to an end, but for those put into a schedule that nothing empties.
* **Accounts and sessions** (server): nothing is unique in the table of users; two
  logins of a new person, or a login and a registration, race. Tokens expire and are
    renewed by several requests of one browser at a time, and a client may keep those it was
  handed apart from its cookies.
* **Reading while others write** (server): pages of a list are statements of their
  own; feeds are looked up, then made; answers are cached by URL.

Every hazard is in `PROJECT.json` at its line, with the properties that cover it.

| component | properties that make it correct |
|---|---|
| message consumer | `AtLeastOnce` (implements `Delivery`), `UndisturbedOnce`, `GivenUpAfterAllAttempts`, `Settles` |
| timetables | `OrdersHold`, `ActsAsList`, `FreshView`, `BlocksApart`, `OverlapsAdmitted` |
| friends, schedules | `Friendship`, `AddedMeansFriends`, `CodesHold`, `BlocksAsAsked`, `SchedulesSeen` |
| derived data | `AccurateAtRest`, `LockHolds`, `Converges`; for reviews `CountsCatchUp` |
| synchronisation | `Repairs` of three modules, `UniqueWithoutOverlap`, `KeepsListed`, `OwnLectures`, `PastTermsKept`, `StaysListed`, `Registered`, `OneVisible` |
| planners | `OrdersHold`, `AnswersHold` |
| settings, notifications | `SettingsKept`, `DeviceMoves`, `AdsConsented`, `PushesAccounted`, `Settles` |
| accounts | `AccountsHold`, `SessionsHold` |
| lists, feeds, choices | `Walked`, `FeedsStable`, `ChoicesHold` |

## 3 Plan

Done, in this order:

1. `RabbitConsumer`, with the abstract specification `Delivery` (at-least-once), and
   its proofs.
2. `TimetableOrder`, whose abstract view, a list with append, remove and move, is
   the property `ActsAsList`; `TimetableItems`; `Friends` and `Friends_proofs`.
3. `DerivedData`, on top of the retries of 1, abstracted to a count.
4. `TakenLectures`, `LectureSync`, `ScholarJobs` (class and exam times, degrees,
   majors, best reviews): the statements of the jobs.
5. `Registry`: what two programs, over several terms, make of the registrar's lists.
6. `Planners`; `UserSettings` and, composed with it, `Notifications`; `Accounts`.
7. `Reviews`, and composed with it `Listings`; `Choices`, and composed with it `Feeds`.
8. `Schedules`: blocks on servers of two versions, and what friends see of them.

9. Proofs, each in a module beside what it is about: `TimetableItems_proofs` (contents and order),
   `TakenLectures_proofs` (taken lectures and planners), `LectureSync_proofs`, `Notifications_proofs`,
   `DerivedData_proofs` (the consumer and what its handlers derive), `Browsing_proofs` (feeds,
   choices, reviews, accounts), `ScholarJobs_proofs` (the registry, and the jobs that
   make one table what a list says), and the part of `Friends_proofs` about schedules.

Left:

10. A proof of `Walked` of listings.
11. `TimetableItems` composed with `ScholarJobs`: class times are there an arbitrary
    change now.
12. Representative lectures; reading and editing of notifications by administrators.

The modules keep to what proofs need: constants with named assumptions, one
action per step of the code, invariants as conjunctions, no recursive operators.

## 4 The modules and the code

Conventions. A transaction, a handler, a run or a request is a record with a program
counter `pc`; its steps are the points at which another process can be seen:
statements, locks, commits, publishes, acknowledgements. Code between two such points is
one action. Variables marked *history* in the declarations are read by properties only.
Operators introduced as mutants (in comments) are wrong on purpose and used nowhere; each
is a plausible bug, and some run must refute it.

**RabbitConsumer** (`rabbit-consumer-explorer.ts`, `rabbitmq.publisher.ts`,
`rmq.service.ts`, `settings.ts`). `copy[s]` is a copy of a message inside the broker
with its queue, its place, its holder and the header `x-retry-count`. `DeliverCopy` starts the
callback with handler and timer; `HandlerReturns`/`AckHandled`,
`PublishRetry`/`AckRetried` and `NackToDlq` are the outcomes of the race, the
acknowledgement a step of its own because a process may die before the broker
gets it. `ConsumerCrash`, `Restart` (PM2) and `ConnectionClosed` put what was not
acknowledged back with its old header. The queues are unordered, which includes every order
that redelivery and several consumers can produce. `Delivery` is what publishers rely on: a
message that was sent is live until it is done or dead.

**TimetableOrder** (`v2/timetables.service.ts`, `timetable.repository.ts`). `order` maps
timetables to `arrange_order`; `trans[r]` is a request with its snapshot, the
positions it has still to write and the rows it has written and locked.
`LockOwnTimetable` is the `SELECT ... FOR UPDATE` of the own row, `PlanCreate`,
`PlanDelete` and `PlanUpdate` read the snapshot and compute, `UpdateOrder` writes one
row when nobody else has it locked. A deadlock is broken as InnoDB does: some
request rolls back. A request belongs to a user, a timetable has an `Owner`: version 2 refuses to
delete another's timetable, version 1 does not, and then closes the gap in the list of the
user who asks. `disturbed` notes the users to whom that happened or whose requests overlapped.

**TimetableItems** (`v2/timetables.service.ts`, `timetable-input.ts`, v1
`timetables.service.ts`, `customblock.repository.ts`). `lec`, `blk` and `times` are
the rows of a timetable's lectures and blocks, `home` the selection. `Begin` parses
a request, `Prepare...` locks, reads and validates, the commit makes the rows
visible. `class` changes at any time: that is the sync.

**Friends** (`friends.service.ts`, `friend.repository.ts`). `rows` are pairs of owner and
friend. The locks follow InnoDB on the unique index: exclusive for inserted and
deleted rows, shared for those INSERT IGNORE skips, a gap for those DELETE does not
find. Code allocation is the loop of look-up, conditional update and
re-read, with its attempts.

**Schedules** (`friends.service.ts`, `friend.repository.ts`, `ECustomblock.ts`,
`customblock.repository.ts`). A block
is a parent row with its first time and child rows with all of them; an older server
writes the parent only (`CreateBlock`, `UpdateBlock`; `OldCreate`, `OldUpdate`). The view of
a friend (who is busy now, the timetable, common lectures) reads lectures, parents and
children in statements that see different states.

**DerivedData** (`apps/server-consumer`, `redlock.provider.ts`, and the publishers). The tables
behind item `i` are a version `src[i]`, a derived column the version it was
computed from. `Change(i, m)` is a commit and the item `m` that its message names: `i` itself,
another one, or none (`Named`); `told[i]` is the last version whose message was to name
`i`. A handler reads, then writes (the titles in two columns, under a
lock that may expire). Retries count as in RabbitConsumer.

**TakenLectures** (`sync.service.ts`, `sync.repository.ts`,
`syncTakenLecture.service.ts`, `auth.service.ts`). `attend` is the registrar, `taken` the
rows of users with their ids, `raw` the copy that logins read. A run reads rows,
then users, then corrects student by student with two statements per user, then
replaces the copy with two more; a login changes the student number, reads the
copy, deletes, inserts. `OneAppLogin` is the other way to a new number, which leaves the rows
as they are. Any statement may fail, any process die.

**LectureSync** (`sync.service.ts`, `syncScholarDB.service.ts`, `sync.repository.ts`).
Lectures are matched by code and class, a *key*. A run reads the
courses, then the professors, then the live lectures, each after the loop before
it, and goes through the keys in any order (the list has none that matters):
`UpdateLecture` or `CreateLecture`, then `RemoveCharges` and `AddCharges`, and at the
end `MarkDeleted`. An exception is caught per key. `TitleUpdated` is the
message to DerivedData, seen from here; only a run of scholar-sync (`asks`) sends any, the copy in
the server has no queue.

**ScholarJobs** (`sync.service.ts`, `sync.repository.ts`, `ClassTimeInfo.ts`,
`MajorInfo.ts`). The five jobs that make a table what a list says have one
skeleton, get the list, read the rows, plan, write, and so one module with a
`kind`: exam times are replaced in a transaction (`ReplaceTimes`), class times in two
statements (`RemoveTimes`, `AddTimes`), departments of students are updated ten at a
time, majors are added in chunks while removals are started and not waited for
(`StartRemovals`; `flight` holds them), best reviews are cleared and then chosen again.

**Registry** (`sync.service.ts`, `syncScholarDB.service.ts`, the `*Info.ts` classes,
`IScholar.ts`, `scholar.api.client.ts`, the controllers and the schedule). `registrar` is what is listed for each term, the other variables the tables
with the fields the two programs derive. `sync[r]` is a run of one of them, `copy` says which: it
goes through terms, parts and stages (departments, courses, professors, lectures,
times), reads a stage's rows and compares entry by entry with the derivation of
its own program. Not repeated here are charges and duplicates (LectureSync) and the
statements inside a replacement (ScholarJobs).

**Planners** (`planners.service.ts`, `planner.repository.ts`). Every statement of a
request is committed on its own, except the shifting of positions at the end of
reorder and delete, which is a transaction with row locks. `req[r].pc` goes
through the statements of the method: insert, tracks, taken lectures, copies of the
three kinds of items. Reorder finds the planner by its id and shifts the planners of the user who
asks, so the two may differ; `displaced` notes the users whose list a request has torn. A span may
end before it starts: nothing compares its years.

**UserSettings** (the private and public services of agreements, notifications and
devices, and their repositories). Agreements, switches of notifications, devices: look-ups followed by upserts
of whole rows. **Notifications** extends it with the pipeline: `ReadSwitch`, `ReadAgreementOf` and `Publish`
in the server, `Take` and `Forward` by kind and hour in the consumer, `Push` and
`SaveRequest` as two steps, `schedule` as the sorted set in Redis, which nothing drains (the
module of notification-consumer imports no `ScheduleModule`, so the interval of
`job.service.ts:16` is never registered), and a crash that gives back what was not acknowledged.

**Accounts** (`auth.service.ts`, `auth.controller.ts`, the commands of the guard,
`user.repository.ts`). A visit is a login by the single sign-on or a registration of
the OneApp, statement by statement; `jar` holds a browser's cookies with their expiry,
and `Chain` computes what the commands make of them for a request: who it is
served as, and which cookies it sets. Cookies arrive with the answer, in any order. `held` are the
tokens that clients were handed in a redirect or a body: any of them may be the bearer of a later
request, or be sent to be renewed, whatever has become of the cookies.

**Reviews** (`reviews.service.ts` v1 and v2, `review.repository.ts`, the publishers). Requests that
write, edit and like, in their statements; what was computed from which version
of a review; messages, which are handled in one step, later (how is in
DerivedData). Of the messages of a review those about professors are left
out: they carry the id of a row of `subject_lecture_professors`, and what that does is in
DerivedData, as is the weight of likes in scores, which nobody is told to compute again.
**Listings** extends it: the filters, orders (in version 1 also those a reader chose) and
pages of the repositories are operators on rows, `ReadPage` a statement, and rows change
between two pages.

**Choices** (`user.repository.ts` v1 and v2, `wishlist.repository.ts`) has favourite departments of both versions
and the wishlist, **Feeds** (`feeds.service.ts`, `feeds.repository.ts`), which extends it, the parts
of a day's feeds: each is looked up, then made, all at once. A request has a user and a `url`:
the feeds are the user's, the answer is cached for the URL, and `filled` notes the URLs under which
somebody else was answered.

MC modules give constants their values, offer mixes of requests that can meet, and, where
two modules share no variable, run them in one instance: a behaviour is then about one
of them (`about`, `mode`), the other rests.

## 5 The runs

| run | asks | bounds |
|---|---|---|
| `rabbit_consumer` | at-least-once delivery; given up only after all attempts; no forks or extra attempts without disturbance; every message settles | one message, three copies, two processes, three retries as in the code, one crash, one closed connection |
| `timetable_order` | a list for users whom nothing disturbs, positions in range for all | three timetables of one user and one of another, three requests, positions -1 to 2 |
| `timetable_items` | validated contents are the committed ones, blocks disjoint and unshared, home selection valid, overlaps with lectures only where an endpoint admits them | two users, two timetables, one lecture, two blocks, two requests, batches of two changes |
| `friends` | mutual friendship, favorites, codes; blocks as asked on mixed servers, nothing shown of a friend that never was | two users, two codes, three requests, two attempts, three generations of a row; two moments, three lectures of two terms, two blocks, two writes, one view |
| `derived_data` | columns at rest no older than what was announced, the lock excludes and is released by its owner only, columns settle | a title (announced or not), a professor whose changes name it, another one or nobody, and that other one; two handlers, three changes, two faults, one retry |
| `taken_lectures` | an undisturbed run repairs everything; past terms are kept; nobody keeps another number's lectures | two users, two numbers, a lecture in each of two terms, two runs, one change (and one of OneApp during a login), one fault |
| `lecture_sync` | an undisturbed run repairs everything; listed lectures keep their rows; duplicates only from overlaps; titles asked for by the program that can | one key, one professor, three rows, two contents, two runs (one of either program alone; two of scholar-sync at once, which may do all that a run of the server does), one change, two faults |
| `scholar_jobs` | jobs: an undisturbed run repairs; what is always listed is always there. Registry: a run alone makes the tables what its program derives and leaves the rest alone; one department of a code is shown | jobs: three runs, two at once, lists of two, batches of two, one change, one fault; registry: two runs, four listings over two terms, one change and one fault |
| `planners` | positions stay a list when requests take turns, for users whom nothing displaces; an answered request has done all its parts | three planners of one user and one of another, two requests, targets -1 to 3, three spans (one ends before it starts), two attended lectures, four items; requests about the order, about items, or about updates |
| `notifications` | ads only with consent; pushes and records accounted for; settings change on request only; a token moves to its new owner; every accepted notification settles or was due later and is in the schedule | three requests, two users, one token, one notification, two slots, a day time and a night time, one crash |
| `accounts` | one row per person but for named causes; a request is served as the person of a living token, a session in use is kept, a logout leaves the tokens that were handed out and nothing else | visits: two that overlap, of two persons, one fault; requests: two in flight of one browser, beside one visit at a time of a person without tokens, four tokens kept by clients, tokens of one and three time units, time to 3 |
| `browsing` | scores and likes catch up with reviews; a walk shows what was there all the time, once and in order; feeds of a day stay; choices are those last answered | two reviews written (one while a list is walked), three rows per table, pages of two, one change of a row, two orders a reader chose; three feed requests (two for those about rates), some under the URL of the other user, three choices, days 1, 2 and 4 with a rate window of 3 |

Why the bounds are enough. A race here is between two actors (two requests, two
runs, two handlers, a run and a login); a third comes in only where one can
profit from a lock the second releases, and there the model has three
(`timetable_order`, `friends`); three runs of a job let an undisturbed one follow two that
overlapped. Symmetric things (users, keys, ids) are needed twice where
two of them interact: two timetables for a copy and its source, two users of one
student number, two terms for a run that must not touch the other. One key is
enough in `lecture_sync` because keys share only the course of a code, and the model gives
each key a code of its own. Three rows and pages of two make the second page short, and let a
row move across the boundary in either direction. Each bound on faults was chosen so that
the fault can hit before, between and after the statements it separates; mutants that drop a
guard or a re-read are found with these bounds. Bounds on counts (`MaxCrashes`,
`MaxCloses`, `MaxChanges`, `MaxFaults`, `MaxGen`, `Slots`, `MaxRows`, `MaxWrites`, `MaxTime`
and so on) are guards in the actions and named in the declarations, except those of the MC modules
(`MaxReviews`, `MaxFeeds`, `MaxChoices`), which bound how many requests a behaviour begins.

In `scholar_jobs` only runs of `scholarDB` for one term overlap in the registry part, and the
registrar changes between runs: runs that read a list that changes under them are in the jobs
part and in `lecture_sync`.

Symmetry is used in runs without liveness properties only. Deadlock checking is off because
all of these end: requests, changes and faults are bounded.

Fairness. `RabbitConsumer`: the broker delivers and routes, a handler's race ends because
the timer fires (`TIMEOUT`, 30 s), acknowledgements arrive, PM2 restarts a process that exited
(`autorestart`). Nothing is assumed of a closed connection, since nothing in the code
reopens it, and so `Settles` excuses the case that all connections are closed.
`DerivedData`: publishes are made or fail, delivery, the steps of a handler, the
expiry of a lock. `Notifications`: the consumer goes on (`Consumes`); of the schedule in Redis nothing is
assumed, since nothing registers the job that reads it. All of it is weak fairness. The others
state safety only.

What the properties show, beyond their comments in the modules:

* A retry is published before the original is acknowledged, over one channel; this
  order alone makes `AtLeastOnce` hold, and is why a crash can fork a message
  (`UndisturbedOnce` needs its premise).
* The row lock and the snapshot taken *after* it make `FreshView` hold, on which all
  validation of timetable contents rests. The positions have no such lock, so
  the list in `OrdersHold` needs its premise.
* `AccurateAtRest` names every way in which a derived column can stay behind what was announced: an
  unpublished or dead-lettered message, a slow handler that writes an older result
  last, a title skipped because of the lock. Of a change without a message, or with one that names
  another row, it says no more than that the next one which names the item brings it along. `CountsCatchUp` adds the writes of version 1
  that send no message at all.
* `Repairs` (in three modules) is the only thing that justifies the missing
  transactions, and holds only for what the next run reads again.
  Duplicate courses and professors of overlapping runs are outside of it: nothing in
  the code merges them. `Registered` holds per program only: the two disagree on
  what the same list means (section 7).
* `StaysListed` holds although class times are replaced in two statements, because only
  differences are written; `OneVisible` needs `twins`: three ways to show two departments, and what was so before.
* A planner's positions survive failed creations because the row is made last in the
    list; they do not survive a deletion that fails before its shift, nor a move of a planner by
  somebody else, which tears both lists (`displaced`). The same holds for timetables that are
  deleted by somebody else (`disturbed`); nobody else's list is touched.
* `FeedsStable` is about the own URL, and only until somebody else is answered there (`filled`);
  that feeds to rate are `FeedRateMinDays` apart holds whatever the URLs.
* `SessionsHold` promises a logout no more than it does: it clears the cookies, and a token that
  the client was handed lets its person in until it expires.
* `AdsConsented` holds through stale writes because defaults say no and a stale write
  only ever puts back what was once read.
* `SchedulesSeen` cannot promise one state, only that each thing shown was true
  at some moment of the request.
* `Walked` needs its premises one by one: rows that tie, rows that move, rows that
  come. Which lists tie (`Loose`) follows from their orders.

## 6 What is proved

`DerivedData_proofs`, of `RabbitConsumer`: for any set of messages, slots and processes, any retry limit,
prefetch and number of crashes and closed connections. Assumed is only
`ConstantsAssumption` (the bounds are naturals, the prefetch is positive, the markers for an empty
slot and for no worker are not copies or workers).

* `TypeCorrect`: `TypeOK`, in particular the retry count never exceeds the limit
  with which it indexes `RETRY_DELAYS`.
* `NoLoss`: every sent message has an outcome or a copy that is *not* merely waiting for the
  acknowledgement of its retry. `AtLeastOnce` is not inductive: it would let the
  last copy be one in state "retried", which the next step removes. This invariant is what the
  order of publish and acknowledgement gives.
* `Refinement`: `Spec => AtLeastOnce`, that is `Delivery!Spec` under the mapping
  `live` = messages with copies, `done` = handled, `dead` = parked or dropped. From `NoLoss`,
  `TypeCorrect` and `FromSent` (copies and outcomes belong to sent messages). A requeue maps to a
  stutter (`RequeueKeepsLive`).
* `GivenUp`: `GivenUpAfterAllAttempts`. The invariant `EnoughStarts` adds to it what a
  copy's header says of the past: `starts` is at least the retry count, one more for a copy in
  progress, one more in the dead-letter queue; and a copy there has the count
  `MAX_RETRIES`. The inequality survives crashes, which only repeat starts.
* `UndisturbedOutcome`: `UndisturbedOnce`, with its bound on attempts. The invariant adds
  that the one pending copy accounts for all starts so far.

`Friends_proofs`, for any set of users, codes and requests and any number of attempts,
from `FriendsAssumption` (the markers are no codes or users, the bounds naturals). `Mutual` is not
inductive: it says nothing of requests under way. The invariant `LockInv` has four
parts: types; `Discipline`, which locks a request of one kind holds; `Locked`, what a lock says of
its row until the request ends (a row to be inserted is not there, a skipped or to be
deleted one is, one locked by its gap is not); `Excluded`, which locks keep others out. `LocksHold` proves it,
with a lemma for each action that takes or releases locks. From it a request that has looked at both rows and
commits leaves both (`AddMakesBoth`) or neither (`DeleteRemovesBoth`), which gives `MutualAlways`
and `AddedFriends`. `FavoritesOfOwners` needs only that a deletion takes marks away with rows.
`OneCodeAlways` adds that a request which answers a code has one, and rests on `CodeStays`: the
insertion changes a code only where there was none. `CodesPermanent` and `FailsLate` follow. The run checks
them as the two properties `Friendship` and `CodesHold`, which `Friendships` and `Codings` put together.

A part about `Schedules`, for any sections, blocks, moments and servers (`SchedulesAssumption`:
sections are finitely many, a time that is no moment stands for none). `BlocksAsAsked` is not
inductive: an edit that is open writes back times it has read earlier, and a view shows what it read
before other statements. `ScheduleInv` has types (`BlockRowsKept`), each block against what was
asked for (`AsAsked`: the first time in the parent, the further ones in the children, if it has
any), the same of the times an open edit has read (`AsRead`), and what a view may hold (`ViewFits`:
all it was answered was there at some moment since it began, it is complete if nothing was written
meanwhile, and the block that is being read was seen, even if it is gone by now). `SchedulesHold`
proves it; `BlocksAlwaysAsAsked` and `SchedulesAlwaysSeen` follow. `OverlapRight` proves what the
view of common lectures computes from rows in groups and terms right, whatever the rows; it needs
that a finite set of sections has a latest term (`SomeLatest`).

`TimetableItems_proofs`, for any users, timetables, rows and requests (`Lecs` and `Blocks` finite
and disjoint, markers outside). `FreshView` and `BlocksApart` speak of committed contents and of
what is validated, not of plans that wait for their commit. `ItemsInv` has, besides types, `Rows`
(committed blocks are disjoint, shared by no two timetables, the home selection is owned), `Fit`
(while a request that is about to commit holds its row lock, what it has read is what is stored, and
its plan has passed validation against that) and `Apart` (two requests hold different rows, and the
rows they are about to insert differ). `ItemsHold` proves it; `ViewsStayFresh`, `BlocksStayApart`
and `OverlapsOnlyAdmitted` follow. The row lock is used at one place, `Apart`: without it `Fit` does
not survive a commit of another.

A part about `TimetableOrder`, for any users, timetables (finitely many ids), positions asked for and
requests. `OrdersHold` says nothing of plans, so `OrderInv` has, besides `RowsFit` (ids that
were used, and per user as many places as those), `TransFit` (what a transaction is about to write are such
places of its user, the new timetable of a creation is nobody else's, and two transactions hold different rows)
and `AloneFit`: of a user whom nothing has disturbed the rows fill the places 0..n-1, one request at most that
touches them is open, and what it has written together with what it has left is the plan for the rows as they are
(`Stands`, `PlanStands`), so that its commit is an append, a removal or a move (`Appended`, `Removed`,
`Moved`) and fills the places again (`AppendFills`, `RemovalFills`, `MoveFills`). Rows that fill as many
places are at different ones (`PlacesDiffer`, a surjection between sets of equal size). `OrderFits`
proves the invariant, `OrdersAlwaysHold` that it gives `OrdersHold`. For `ActsAsList` the places become a
sequence: rows in order have one list (`OneList`), and the list of the rows after a commit is
`Append`, `RemoveAt` or `InsertAt` of the one before (`ListAppended`, `ListRemoved`, `ListMoved`), which is
`AlwaysActsAsList`: row by row, the code does what the list promises.

`TakenLectures_proofs`, for any users, numbers, lectures and runs. `TakenInv`: types; `Own` (rows of
a user are of the number, except between a change of the number and the deletion); for each run
`Shaped` (what it has left to do belongs to what it has read), `Backed` (its records were once
listed for their number, its corrections are for the number a user has now, unless a login was
noted), `Progress` (the corrections that are left would make the rows of every user nobody disturbed
right) and `Cleared` (the copy between its two statements). `OwnLecturesAlways`,
`PastTermsUnchanged` and `RunsRepair` follow: a run that is done has nothing left.

A part about `Planners`, for any users, planners (finitely many ids), targets, tracks, spans, lectures and
requests. `OrdersHold` says nothing of a request under way, so `PlannersInv` has, besides
`PlannerRowsFit` (rows, items and ids; no position below `Floor`, the lowest that is asked for) and
`RequestsFit` (each operation goes through its own statements, `PcsOf`, and two transactions have
locked different rows), `LoneFit`: unless requests have overlapped, one at most is open, and it
`Knows` what is stored. A creation knows what each finished copy has put there, item by item
(`Copied`); a deletion and a move, that the rows are as they were read, but for the planner that is
gone, and that what is locked is the shift of just these rows (`Shifting`); an update, which lectures and tracks
its statements have left so far. Each user whom nothing has displaced is `InPlace`: the positions fill a list
(`Filled`), or did before the planner went whose `Gap` a deletion is about to close. A move shifts
the planners of the user who asks and writes one that may be another's: then both are displaced, and
the planners of anybody else are as they were. The commit of a
deletion or a move then fills the list again (`DeletionOrders` with `FilledRemoval`, `MoveOrders` with
`FilledMove`), and so does the insertion of a planner behind the last (`FilledAppend`). That no position
sinks needs no such knowledge: every shift downwards starts behind a position that was read
(`ShiftIs`), whatever the rows are by then. `PlannersFit` proves the invariant,
`PlannersAlwaysInOrder` that it gives `OrdersHold`. For `AnswersAlwaysHold` only five statements
end a request with an answer (`AnsweredBy`), and what the request knows before each of them
is what the answer promises (`ReadAnswers`, `CommitAnswers`, `UpdateAnswers`, `InsertAnswers`,
`ExcludeAnswers`); that a move keeps the order of the other planners needs that they are at different
positions (`FilledDiffer`). Copies are counted through a bijection between the items that are read
and those inserted (`CopiesCount`).

`LectureSync_proofs`, for any keys, professors and contents (finite sets). `SyncInv`: references
(charges and lectures refer to rows that exist), `Shaped` (the first row of each listed key that was
looked at is kept to the end), `Backed` (courses, professors and rows that a run has read are still
there), `Alone` (each key of a lone run is `Settled`, the `Current` one, or `Waiting` as it was
read), and uniqueness unless runs overlapped. From it `UniqueAlways`, `ListedKept` and `RunsRepair`.
Runs take the first row of a key, so the proof needs that a set of ids has a least one (`WFMin`).

`Notifications_proofs`, for any users, tokens, notifications and slots (finite). `NotesInv` joins
`SettingsInv` (typed rows, and a request that met no other `Knows` what is stored) with `Consent`
(`AgreedRows`, `Willing`, `Wanted`: at each step of the pipeline an advertisement is for somebody
who said yes, and a stale write puts back only what was read) and `Counting`, which counts copies by
the cardinalities of sets of slots. From it `PushesAccountedAlways`, `AdsOnlyConsented`,
`DecisionsKept` and `DevicesMove`.

`DerivedData_proofs`, of `DerivedData`: for any items, any naming of them by messages, handlers and faults. `DerivedInv`: types; who holds a lock;
what a handler has read is not newer than the source; `Carried` (unsent messages, those in queues
and those in work are together no more than the changes); `Derived`, the disjunction that
`AccurateAtRest` comes from: work is under way for an item, begun since the last change that was to name
it, or its column is as new as that change, or one of the named causes excuses it. `LocksHold` gives `LockHolds`, that only its owner releases a lock.

`Browsing_proofs`, for any users, departments, lectures, days and requests. `ChoiceInv`: a request
that is alone knows the row it writes, one that is not has made its subject unsure. `FeedInv`: what
the parts of a request have come to fits the rows (`AskFits`), only one request of a user makes
feeds at a time, unless it was noted (`Lone`), what was seen under the own URL is there and in the
answer cached for it, unless somebody else has filled it (`Shows`, `Steady`), days on which a rating was
asked for are apart (`Apart`). `ReviewInv`: ids are numbers up
to the count of reviews; a request that writes has seen the row; and for every score and count of
likes, it agrees with its source or a message is `Due`: on its way, lost, or still to be sent by a
request that has written. `CountsCatchUp` is the case in which nothing is under way; its premise
alone is not inductive. Feeds and choices are proved together (`FeedsSpec`), reviews by themselves
(`ReviewsSpec`).

Accounts are in the same module, for any persons, browsers, visits, requests and lifetimes of
tokens. `AccountsInv` is of three parts. `AccountRows`: a row is of one person, and of a person
there is one unless the cause is recorded (`split`). `VisitsFit`: what a visit has looked up is a
row of its person; once a user is saved, each row of the person is complete or the visit has found
it by what it holds and will complete it (`Completing`); a visit that met no other of its person
knows that there is no row (`Unmet`), and of two visits of a person that are under way, each has
met the other (`Meet`).
`SessionsFit`: the two tokens of cookies were signed together, a session has a complete row
(`Kept`), a token that a client keeps is of a person and lives no longer than tokens do
(`TokenFits`), an answer that renews a session used a living one (`Renews`), and a device whose requests
do not overlap has its cookies in one place (`InTurn`), with as much life as its last use gives
(`OfUse`). The steps use that rows only grow (`Grown`), and `Outcome`, what the chain of commands
and the handler come to, command by command. Without `Completing` the account of a session could
not be shown to be complete, and without `Unmet` and `Meet` a second row would have no cause.

`ScholarJobs_proofs`, for any departments, courses, lists of the registrar, terms and runs of the
two copies. `OneVisible` is not inductive: it does not say that what a run is about to hide, or has
seen as hidden, is a department of a code that can be listed at all. `RegistryInv`: each table
is what its rows say (`DepartmentsFit`, `CoursesFit`, `LecturesFit`: ids are distinct and below the
counter, courses of lectures are there), each run carries what fits the tables although
others write them meanwhile (`RunsFit`: the departments it has seen may have changed but not gone,
and a code that could be listed still can, `SeenFits`; a lecture it has found has kept its key,
`FoundFits`), and `ShownOnce`, of two visible departments of a code that is not among `twins` one is
to be hidden. Tables only grow (`Grown`), which is why what other runs hold stays right
(`RunsStay`); per step only the run that acts has to be looked at. A new department is listed, so
its code is cut out of the code of a subject (`ListedCode`, which needs that a set of positions has a
least one); it hides exactly the visible ones of its code it has seen, and if
there are others the step is noted. `RegistryFits` proves it, `RegistryAlways` that it gives
`OneVisible`. Assumed are `RegistryAssumption` (what lists are) and `RegistryDataAssumption`: there is
a term, requests ask for terms that are described, and old departments have their four columns.

The second part is about the jobs that make one table what a list says, for any lists, rows,
runs and bounds. `StaysListed` is not inductive: that a listed time has a row now does not say that
no run is about to remove it. `JobsInv` has three parts: `TableFits` (types, and what is unique in the
table of each kind: ids of times, pairs of majors and reviews, students of departments), `JobsFit`
(for each run, what it may still add is in its list, what it may still remove are rows with ids that were
given, everything `stable` is in the list of a run under way, and no major that is stable is to be removed),
and `Kept`. For majors `Kept` says that no removal in flight is of something stable. For times,
which may be there more than once, it names the row that stays: the `First` one, with the least id, and no
run plans to remove it (`Spared`). It is the first to be matched with an entry of any list that has the
time (`FirstMatched`), rows that are added get greater ids (`InsertedFits`, which counts positions:
`RankLess`), and so neither a plan nor a write of a run that read an older table can hurt it (`TimesWritten`).
That the best reviews are entries of their list needs that the latest of them are numbered without a
gap (`LatestFits`, an injection between sets of equal size). `JobsFitAlways` proves the invariant,
`StaysAlwaysListed` that it gives `StaysListed`. `ScholarJobsAssumption` is used for: a department to start with
(`Keys # {}`), and the tag of reviews of the last week.

The assumptions are those of the `ASSUME` of each module, and TLC evaluates them on every run. Each
of the inductive invariants was also checked by TLC on the bounds of its run.

Only model-checked: `Repairs` of `ScholarJobs`; `Registered` of `Registry`; `Walked` of `Listings`. Liveness (`Settles`, `Converges`) is out of the prover's reach together with ENABLED,
and so is what needs induction over data: sums, the pages of a sorted list, the code that goes through a list of the registrar.

## 7 What the code leaves open

The properties hold with exceptions, each named in its module and at its place in the code:

* A closed connection is logged as "Attempting to reconnect..." and not reopened
  (`rmq.service.ts:51`).
* Positions of timetables can be n or above after overlapping requests
  (`v2/timetables.service.ts:257`); planners can have gaps.
* The title of a class is skipped when its lock is taken, although the holder may have
  read before the change (`lecture.service.ts:40`).
* A listed lecture is marked as deleted when the run could not create its course
  (`sync.service.ts:249`, `:329`).
* Removals of majors are not waited for; a failed one is met by the next run.
* The two programs differ on the day of exams, on hidden departments and on classes in
  English (an unknown mark stops the server); a hidden department is not shown again; a
  failure between making a department and hiding the older is not repaired; asking
  for an interval of n terms gives n + 1.
* A notification that is due later is put into Redis and stays there: the job that would take it
  out every second (`job.service.ts:16`) belongs to an application without `ScheduleModule`
  (`app.module.ts:23` of notification-consumer; compare `app.module.ts:28` of scholar-sync). And that
  job would not send it either: the line that publishes is a comment (`job.service.ts:22`).
* Version 1 deletes a timetable whoever owns it, and closes the gap in the list of the user who asks
  (`timetables.service.ts:239`). A planner is reordered
  whoever owns it, and the planners of the user who asks give way (`planners.service.ts:223`). The years
  of a planner are not compared (`IPlanner.ts:237`).
* The messages for scores of professors carry ids of `subject_lecture_professors`
  (`v2/reviews.service.ts:225`, `:268`): they name another professor or none. Likes weigh in scores
  (`lecture.service.ts:103` of server-consumer), and a review counts for related lectures; for neither is
  there a message.
* The copy of `syncScholarDB` in the server changes titles and asks nobody to derive them again
  (`syncScholarDB.service.ts:209`).
* A registration of the OneApp that brings another student number leaves the lectures of the former
  one (`auth.service.ts:103`).
* A logout clears cookies only (`auth.controller.ts:254`): tokens of the redirect (`:137`) and of a refresh
  (`:215`) are good in a header until they expire.
* A user who declined ads at night gets them at once, where the log says "delayed": the
  message gets another time and is pushed (`app.service.ts:105` of notification-consumer).
* `createReviews` and `updateReviewById` of version 1 return before they publish
  (`reviews.service.ts:94`, `:134`); v1 favourites are deleted in one commit and made in another.
* The filter for "ETC" types tests an index; version 1 and the hall of fame order by fields
  that tie; times are parsed so that 32:00 and 0:00 agree.
* Nothing in `session_userprofile` is unique: overlapping first visits make two rows. The header for
  refresh tokens is never there; one command undoes the prohibition another has set.
* `updatePlannerItem` finds an item by its id alone.
* Ratings are checked per version and unique per year.
* Feeds are cached by URL until midnight, whatever changes; the user in the URL is not compared with
  the one who asks, whose feeds are answered and cached (`feeds.controller.ts:30`).
* A rename of a block on a new server writes back the times it has read.
* Friends see a timetable without deleted lectures, its owner with them; the professor of "the
  same professor before" may come from a later term.
* The middlewares of Prisma are never installed (`prisma.service.ts:43`).

## 8 What is not modelled

`PROJECT.json` lists every component with its status. Left out for good, because they only
read or format: detail pages, autocompletion, profiles and lists of taken lectures, semesters,
schedules, notices, tracks, session, status, images and calendar files of timetables,
serializers, validation pipes, logging, start-up and deployment. Left for later: representative
lectures, administrators who edit or delete notifications, marking them as read, the time
a course was read, the rate limit of friend codes. The single sign-on server, Firebase,
the registrar's API, MySQL, Redis and RabbitMQ are modelled by how the code uses them.

Abstractions inside the modules: contents of a row that no property tells apart
are a version; queries are sets; MySQL is its locks and snapshots, not its query plans;
a process that dies does so between two statements; the clocks of timers, locks and
delays are nondeterministic, except where expiry is the question (`Accounts`,
`Notifications`). The arithmetic of scores and the common prefix of titles are left out, and so
are random choices of what a feed or a review page shows. Messages of `LectureScoreUpdate` are
not part of `LectureSync`. The failing start of a consumer (`setupConsumer`) is not
modelled.
