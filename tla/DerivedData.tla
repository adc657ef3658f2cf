---------------------------- MODULE DerivedData ----------------------------
(***************************************************************************)
(* Values that server-consumer derives from other tables on a message:     *)
(* num_people and the scores of a lecture, the scores of courses and       *)
(* professors, the likes of a review, and the common titles of a course's  *)
(* lectures.  Whoever changes the tables may publish a message afterwards; *)
(* its handler reads all there is, computes, and writes the result, with   *)
(* no transaction around it.  Handlers run concurrently (prefetch 5, two   *)
(* processes); only the one for titles takes a Redis lock.                 *)
(*                                                                         *)
(* Not every change is followed by a message for what it alters.  Likes    *)
(* and reviews of related lectures weigh in a lecture's scores and have    *)
(* none; v1 returns before it publishes a review; the server's copy of the *)
(* sync has no queue.  And the message for a professor's scores carries    *)
(* the id of a row of subject_lecture_professors, so that it names another *)
(* professor or nobody.                                                    *)
(*                                                                         *)
(* The contents of the tables are abstracted to their version, a derived   *)
(* value to the version it was computed from.  Delivery and retries are    *)
(* those of module RabbitConsumer.                                         *)
(***************************************************************************)
EXTENDS Naturals, FiniteSets

CONSTANTS Items,       \* what is derived: one lecture, course, review ...
          Titles,      \* the items whose handler takes the lock
          Named,       \* Named[i]: the items that the message after a change
                       \* of i may name; NoItem if there may be none
          Handlers,    \* handler invocations at the same time
          NoItem, Free,
          MaxRetries,  \* MAX_RETRIES of the consumer
          MaxChanges,  \* bound on changes of the tables
          MaxFaults    \* bound on crashes, lost publishes and lock expiries

ASSUME DerivedAssumption ==
  /\ Titles \subseteq Items /\ NoItem \notin Items /\ Free \notin Handlers
  /\ Named \in [Items -> SUBSET (Items \cup {NoItem})]
  /\ MaxRetries \in Nat /\ MaxChanges \in Nat /\ MaxFaults \in Nat

VARIABLES src,      \* src[i]: version of the tables that i is derived from
          told,     \* told[i]: the last one whose message was to name i
          unsent,   \* unsent[i]: messages for i of committed changes, not out yet
          queue,    \* queue[i][n]: messages for i with retry count n
          cell,     \* cell[i][k]: version from which column k of i was computed
          lock,     \* lock[i]: the handler that holds the lock, or Free
          run,      \* run[h]: handler invocation h
          lost, regressed, skipped,  \* history, per item: see below
          expired,  \* history: a lock expired under its holder
          changes, faults

tables == <<src, told, changes>>
hist   == <<lost, regressed, skipped>>
vars   == <<tables, unsent, queue, cell, lock, run, hist, expired, faults>>

\* Titles are written to the Korean, then to the English columns.
Cells(i) == IF i \in Titles THEN {1, 2} ELSE {1}
Retries  == 0..MaxRetries

\* owns: the message is still unacknowledged; after the timer fired the
\* handler goes on without one.
Idle == [pc |-> "idle", item |-> NoItem, n |-> 0, val |-> 0, todo |-> {}, owns |-> FALSE]
Busy(i) == {h \in Handlers : run[h].item = i}
\* Derived again since the last change that was announced.
UpToDate(i) == \A k \in Cells(i) : cell[i][k] >= told[i]
AtRest(i) == unsent[i] = 0 /\ (\A n \in Retries : queue[i][n] = 0) /\ Busy(i) = {}

TypeOK ==
  /\ src \in [Items -> 0..MaxChanges] /\ \A i \in Items : told[i] \in 0..src[i]
  /\ unsent \in [Items -> 0..MaxChanges]
  /\ queue \in [Items -> [Retries -> 0..MaxChanges]]
  /\ \A i \in Items : cell[i] \in [Cells(i) -> 0..src[i]]
  /\ lock \in [Items -> Handlers \cup {Free}]
  /\ \A h \in Handlers : run[h].pc \in {"idle", "locking", "reading", "writing"}
  /\ lost \in [Items -> BOOLEAN] /\ regressed \in [Items -> BOOLEAN]
  /\ skipped \in [Items -> BOOLEAN] /\ expired \in BOOLEAN
  /\ changes \in 0..MaxChanges /\ faults \in 0..MaxFaults

Init ==
  /\ src = [i \in Items |-> 0] /\ told = src /\ unsent = [i \in Items |-> 0]
  /\ queue = [i \in Items |-> [n \in Retries |-> 0]]
  /\ cell = [i \in Items |-> [k \in Cells(i) |-> 0]]
  /\ lock = [i \in Items |-> Free]
  /\ run = [h \in Handlers |-> Idle]
  /\ lost = [i \in Items |-> FALSE] /\ regressed = lost /\ skipped = lost
  /\ expired = FALSE /\ changes = 0 /\ faults = 0

-----------------------------------------------------------------------------
\* A commit of the services or of the sync, and the item m that its message is
\* going to name ...
Change(i, m) ==
  /\ m \in Named[i]
  /\ changes < MaxChanges /\ changes' = changes + 1
  /\ src' = [src EXCEPT ![i] = @ + 1]
  /\ told' = IF m = i THEN [told EXCEPT ![i] = src[i] + 1] ELSE told
  /\ unsent' = [j \in Items |-> IF j = m THEN unsent[j] + 1 ELSE unsent[j]]
  /\ UNCHANGED <<queue, cell, lock, run, hist, expired, faults>>

\* ... and the publish that follows it.
PublishUpdate(i) ==
  /\ unsent[i] > 0
  /\ unsent' = [unsent EXCEPT ![i] = @ - 1]
  /\ queue' = [queue EXCEPT ![i][0] = @ + 1]
  /\ UNCHANGED <<tables, cell, lock, run, hist, expired, faults>>

\* The publisher dies in between, or the publish fails and is only logged.
LosePublish(i) ==
  /\ unsent[i] > 0 /\ faults < MaxFaults
  /\ faults' = faults + 1
  /\ unsent' = [unsent EXCEPT ![i] = @ - 1]
  /\ lost' = [lost EXCEPT ![i] = @ \/ ~UpToDate(i)]
  /\ UNCHANGED <<tables, queue, cell, lock, run, regressed, skipped, expired>>

DeliverFresh(h) ==   \* mutant: messages that come back are not consumed
  /\ run[h].pc = "idle"
  /\ \E i \in Items :
       /\ queue[i][0] > 0
       /\ queue' = [queue EXCEPT ![i][0] = @ - 1]
       /\ run' = [run EXCEPT ![h] =
                    [Idle EXCEPT !.pc = IF i \in Titles THEN "locking" ELSE "reading",
                                 !.item = i, !.owns = TRUE]]
  /\ UNCHANGED <<tables, unsent, cell, lock, hist, expired, faults>>

Deliver(h) ==
  /\ run[h].pc = "idle"
  /\ \E i \in Items, n \in Retries :
       /\ queue[i][n] > 0
       /\ queue' = [queue EXCEPT ![i][n] = @ - 1]
       /\ run' = [run EXCEPT ![h] =
                    [Idle EXCEPT !.pc = IF i \in Titles THEN "locking" ELSE "reading",
                                 !.item = i, !.n = n, !.owns = TRUE]]
  /\ UNCHANGED <<tables, unsent, cell, lock, hist, expired, faults>>

\* redlock.acquire with retryCount 0.
Acquire(h) ==
  LET i == run[h].item IN
  /\ run[h].pc = "locking" /\ lock[i] = Free
  /\ lock' = [lock EXCEPT ![i] = h]
  /\ run' = [run EXCEPT ![h].pc = "reading"]
  /\ UNCHANGED <<tables, unsent, queue, cell, hist, expired, faults>>

\* The lock is taken: the handler returns false, and its message is
\* acknowledged like any other.
Skip(h) ==
  LET i == run[h].item IN
  /\ run[h].pc = "locking" /\ lock[i] # Free
  /\ skipped' = [skipped EXCEPT ![i] = @ \/ ~UpToDate(i)]
  /\ run' = [run EXCEPT ![h] = Idle]
  /\ UNCHANGED <<tables, unsent, queue, cell, lock, lost, regressed, expired, faults>>

\* countNumPeople, getReviewLikeCount, getRelatedReviews..., getRelatedLectureById
Read(h) ==
  LET i == run[h].item IN
  /\ run[h].pc = "reading"
  /\ run' = [run EXCEPT ![h].pc = "writing", ![h].val = src[i], ![h].todo = Cells(i)]
  /\ UNCHANGED <<tables, unsent, queue, cell, lock, hist, expired, faults>>

\* updateNumPeople, updateReviewLikeCount, update...Score, updateLectureTitle.
\* A write that puts an older version over a newer one is a regression; one
\* that leaves the item up to date makes good what went wrong before.
Write(h) ==
  LET i == run[h].item
      k == CHOOSE c \in run[h].todo : \A d \in run[h].todo : c <= d
      v == run[h].val
      good == \A c \in Cells(i) : cell'[i][c] >= told[i]
  IN
  /\ run[h].pc = "writing" /\ run[h].todo # {}
  /\ cell' = [cell EXCEPT ![i][k] = v]
  /\ run' = [run EXCEPT ![h].todo = @ \ {k}]
  /\ regressed' = [regressed EXCEPT ![i] = ~good /\ (@ \/ v < cell[i][k])]
  /\ lost' = [lost EXCEPT ![i] = @ /\ ~good]
  /\ skipped' = [skipped EXCEPT ![i] = @ /\ ~good]
  /\ UNCHANGED <<tables, unsent, queue, lock, expired, faults>>

RetrySwallowed(i, n) == UNCHANGED <<queue, lost>>   \* mutant

\* The consumer's answer to a failure: another try, or the dead-letter queue,
\* whose handler only reports.
Retry(i, n) ==
  IF n < MaxRetries
    THEN queue' = [queue EXCEPT ![i][n + 1] = @ + 1] /\ UNCHANGED lost
    ELSE lost' = [lost EXCEPT ![i] = @ \/ ~UpToDate(i)] /\ UNCHANGED queue

\* lock.release deletes the key only if it still holds this handler's token.
UnlockedAnyhow(h) == lock' = [lock EXCEPT ![run[h].item] = Free]   \* mutant
Unlocked(h) ==
  lock' = [lock EXCEPT ![run[h].item] = IF @ = h THEN Free ELSE @]

\* Done: the lock is released and the message acknowledged, if still owned.
Finish(h) ==
  /\ run[h].pc = "writing" /\ run[h].todo = {}
  /\ run[h].item \in Titles => lock[run[h].item] = h
  /\ Unlocked(h)
  /\ run' = [run EXCEPT ![h] = Idle]
  /\ UNCHANGED <<tables, unsent, queue, cell, hist, expired, faults>>

\* A query throws, or release does because the lock expired.
Throw(h) ==
  /\ run[h].pc \in {"reading", "writing"}
  /\ \/ run[h].pc = "writing" /\ run[h].todo = {} /\ run[h].item \in Titles
        /\ lock[run[h].item] # h /\ UNCHANGED faults
     \/ faults < MaxFaults /\ faults' = faults + 1
  /\ Unlocked(h)
  /\ IF run[h].owns THEN Retry(run[h].item, run[h].n) ELSE UNCHANGED <<queue, lost>>
  /\ run' = [run EXCEPT ![h] = Idle]
  /\ UNCHANGED <<tables, unsent, cell, regressed, skipped, expired>>

\* The timer of the consumer wins the race.  The message is retried, and the
\* handler runs on.
Timeout(h) ==
  /\ run[h].pc # "idle" /\ run[h].owns
  /\ faults < MaxFaults /\ faults' = faults + 1
  /\ Retry(run[h].item, run[h].n)
  /\ run' = [run EXCEPT ![h].owns = FALSE]
  /\ UNCHANGED <<tables, unsent, cell, lock, regressed, skipped, expired>>

\* The process of h dies: the message is delivered again, the key stays.
Crash(h) ==
  /\ run[h].pc # "idle"
  /\ faults < MaxFaults /\ faults' = faults + 1
  /\ queue' = IF run[h].owns THEN [queue EXCEPT ![run[h].item][run[h].n] = @ + 1] ELSE queue
  /\ run' = [run EXCEPT ![h] = Idle]
  /\ UNCHANGED <<tables, unsent, cell, lock, hist, expired>>

\* Redis drops the key 10 seconds after it was set, whether its holder is
\* dead or only slow (handlers have 30 seconds, and longer as zombies).
LockExpires(i) ==
  /\ lock[i] # Free
  /\ lock' = [lock EXCEPT ![i] = Free]
  /\ IF run[lock[i]].item = i /\ run[lock[i]].pc # "locking"
       THEN faults < MaxFaults /\ faults' = faults + 1 /\ expired' = TRUE
       ELSE UNCHANGED <<expired, faults>>
  /\ UNCHANGED <<tables, unsent, queue, cell, run, hist>>

Step(h) == Acquire(h) \/ Skip(h) \/ Read(h) \/ Write(h) \/ Finish(h) \/ Throw(h)

Next ==
  \/ \E i \in Items : \/ \E m \in Named[i] : Change(i, m)
                     \/ PublishUpdate(i) \/ LosePublish(i) \/ LockExpires(i)
  \/ \E h \in Handlers : Deliver(h) \/ Step(h) \/ Timeout(h) \/ Crash(h)

Spec == Init /\ [][Next]_vars

\* Publishers, the broker and handlers make progress; the tables change only
\* MaxChanges times.
Fairness ==
  /\ \A i \in Items : WF_vars(PublishUpdate(i) \/ LosePublish(i)) /\ WF_vars(LockExpires(i))
  /\ \A h \in Handlers : WF_vars(Deliver(h)) /\ WF_vars(Step(h))
FairSpec == Spec /\ Fairness

-----------------------------------------------------------------------------
Excused(i)  == lost[i] \/ regressed[i] \/ skipped[i]

\* Once nothing is under way for an item, its derived columns are at least as
\* new as the last change whose message was to name it, except for causes that
\* the code leaves open: while they were not, a message for it was not
\* published, ended in the dead-letter queue or was skipped because of the lock,
\* or a slow handler wrote its older result last.  A change without such a
\* message is derived whenever one for the item comes, and not before.
AccurateAtRest == TypeOK /\ \A i \in Items : AtRest(i) => UpToDate(i) \/ Excused(i)

\* Only one handler works on the titles of a course, until a lock expires.  And
\* a lock is freed by its expiry or by the end of the handler that holds it: a
\* late release after the expiry does not let a third handler in.
TitlesExclusive ==
  ~expired => \A i \in Titles :
    Cardinality({h \in Busy(i) : run[h].pc # "locking"}) <= 1
OwnRelease ==
  [][\A i \in Items, h \in Handlers :
       (lock[i] = h /\ lock'[i] # h) =>
         lock'[i] = Free /\ (run' = run \/ (run[h].item = i /\ run'[h] = Idle))]_vars
LockHolds == []TitlesExclusive /\ OwnRelease

\* The derived columns settle: what was announced is derived in the end.
Converges == <>[](\A i \in Items : UpToDate(i) \/ Excused(i))
=============================================================================
