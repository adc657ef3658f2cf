--------------------------- MODULE TimetableItems ---------------------------
(***************************************************************************)
(* The contents of the timetables of one term: lectures and custom blocks, *)
(* as the v1 and v2 timetable services edit, copy, delete and select them. *)
(* Every request is one MySQL transaction that locks the row of one        *)
(* timetable, reads the contents from a snapshot taken after the lock,     *)
(* validates them and writes rows that become visible when it commits.     *)
(*                                                                         *)
(* A body is chosen where the code first looks at it.  All lectures and    *)
(* timetables belong to the same year and semester.  The times of a block  *)
(* are a set: their order only tells a legacy client which one to edit.    *)
(***************************************************************************)
EXTENDS Integers, FiniteSets, Functions

CONSTANTS Users,
          Tts,         \* timetable ids
          Lecs,        \* lectures
          Blocks,      \* ids of custom block rows
          TimeSets,    \* sets of times that requests give to a custom block
          ClassTimes,  \* class times that the sync gives to a lecture
          Reqs,        \* requests in flight at the same time
          NoTt, NoUser,
          MaxChanges   \* bound on the changes of one batch

ASSUME ItemsAssumption ==
  /\ NoTt \notin Tts /\ NoUser \notin Users
  /\ Lecs \cap Blocks = {}
  /\ IsFiniteSet(Lecs) /\ IsFiniteSet(Blocks)

VARIABLES owner,   \* owner[t]: the user, NoUser before t is created or once deleted
          used,    \* timetables ever created
          lec,     \* lec[t]: rows of timetable_timetable_lectures
          blk,     \* blk[t]: rows of timetable_timetable_customblocks
          times,   \* times[b]: the times of a block row, {} before it exists
          class,   \* class[l]: class times of lecture l
          home,    \* home[u]: the timetable u selected for the home screen
          tx       \* tx[r]: the transaction of request r

db   == <<owner, used, lec, blk, times, class, home>>
vars == <<db, tx>>

\* [day, begin, end], half open: a block may start when a lecture ends.
Overlaps(a, b) == a.day = b.day /\ a.begin < b.end /\ b.begin < a.end
Clash(S, T)    == \E a \in S, b \in T : Overlaps(a, b)

\* validateCustomblockTimes
ValidTimes(S) ==
  /\ S # {}
  /\ \A a \in S : a.begin < a.end
  /\ \A a, b \in S : a # b => ~Overlaps(a, b)

\* The contents of a timetable, as a transaction reads them.
Contents(t) == [lec |-> lec[t], blk |-> [b \in blk[t] |-> times[b]]]
Nothing     == [lec |-> {}, blk |-> [b \in {} |-> {}]]

\* What a transaction is going to write: lectures added and removed, blocks
\* inserted and unmapped, and the times of inserted and updated blocks.
NoPlan == [addL |-> {}, delL |-> {}, new |-> {}, delB |-> {},
           put |-> [b \in {} |-> {}]]

Final(c, p) ==
  [lec |-> (c.lec \ p.delL) \cup p.addL,
   blk |-> [b \in (DOMAIN c.blk \ p.delB) \cup p.new |->
              IF b \in DOMAIN p.put THEN p.put[b] ELSE c.blk[b]]]

\* row is the locked timetable, t the one written, moved a history flag: the
\* sync changed class times after this transaction read them.
Idle == [pc |-> "idle", op |-> "items", user |-> NoUser, row |-> NoTt,
         t |-> NoTt, view |-> Nothing, plan |-> NoPlan, moved |-> FALSE]
Holds(r, t)   == tx[r].pc \in {"reading", "writing"} /\ tx[r].row = t
\* Rows inserted by a transaction that has not committed yet.
PendingBlocks == UNION {tx[r].plan.new : r \in Reqs}
FreshBlocks   == {b \in Blocks : times[b] = {}} \ PendingBlocks

\* What getHomeTimetable shows: the selected timetable unless it is gone or
\* someone else's; else the lectures the user has taken (NoTt).
Shown(u) == IF home[u] # NoTt /\ owner[home[u]] = u THEN home[u] ELSE NoTt

\* Among the types: the selection of a user is always what is shown.
TypeOK ==
  /\ owner \in [Tts -> Users \cup {NoUser}]
  /\ used \in SUBSET Tts
  /\ lec \in [Tts -> SUBSET Lecs] /\ blk \in [Tts -> SUBSET Blocks]
  /\ times \in [Blocks -> TimeSets \cup {{}}]
  /\ class \in [Lecs -> ClassTimes]
  /\ home \in [Users -> Tts \cup {NoTt}]
  /\ \A u \in Users : Shown(u) = home[u]
  /\ \A r \in Reqs : /\ tx[r].pc \in {"idle", "locking", "reading", "writing"}
                     /\ tx[r].user \in Users \cup {NoUser}
  /\ \A t \in Tts : owner[t] = NoUser => lec[t] = {} /\ blk[t] = {}

Init ==
  /\ owner \in [Tts -> Users \cup {NoUser}]
  /\ used = {t \in Tts : owner[t] # NoUser}
  /\ lec = [t \in Tts |-> {}] /\ blk = [t \in Tts |-> {}]
  /\ times = [b \in Blocks |-> {}]
  /\ class \in [Lecs -> ClassTimes]
  /\ home = [u \in Users |-> NoTt]
  /\ tx = [r \in Reqs |-> Idle]

-----------------------------------------------------------------------------
\* A request on an existing timetable locks it first.  Which of the operations
\* below it is shows once it reads.
Begin(r) ==
  /\ tx[r].pc = "idle"
  /\ \E u \in Users, t \in used :
       tx' = [tx EXCEPT ![r] = [Idle EXCEPT !.pc = "locking", !.user = u, !.row = t]]
  /\ UNCHANGED db

\* Mutant: a SELECT without FOR UPDATE.
LockTimetableUnlocked(r) ==
  /\ tx[r].pc = "locking"
  /\ tx' = [tx EXCEPT ![r].pc = "reading"]
  /\ UNCHANGED db

\* lockTimetable: SELECT ... FOR UPDATE waits for the holder of the row.
LockTimetable(r) ==
  /\ tx[r].pc = "locking"
  /\ \A q \in Reqs \ {r} : ~Holds(q, tx[r].row)
  /\ tx' = [tx EXCEPT ![r].pc = "reading"]
  /\ UNCHANGED db

\* TimetableValidation: 404 for a missing timetable, 403 for another owner.
Owned(r) == owner[tx[r].row] = tx[r].user

\* The v1 endpoints that add or remove a lecture or delete a timetable look it
\* up without comparing its owner.
Allowed(r, op) ==
  /\ owner[tx[r].row] # NoUser
  /\ op \in {"lecture", "delete"} \/ Owned(r)

Prepare(r, op, t, plan) ==
  /\ tx[r].pc = "reading" /\ Allowed(r, op)
  /\ tx' = [tx EXCEPT ![r] = [@ EXCEPT !.pc = "writing", !.op = op, !.t = t,
                              !.view = Contents(tx[r].row), !.plan = plan]]
  /\ UNCHANGED db

\* A request that locks and reads no timetable.
PrepareUnlocked(r, op, t, plan) ==
  /\ tx[r].pc = "idle"
  /\ \E u \in Users :
       tx' = [tx EXCEPT ![r] = [Idle EXCEPT !.pc = "writing", !.op = op,
                                !.user = u, !.t = t, !.plan = plan]]
  /\ UNCHANGED db

\* Mutant: an updated block is not compared with the others.
ChangedAddsOnly(c, p) == p.addL \cup p.new

\* The items of a batch whose times it sets or changes.
Changed(c, p) ==
  p.addL \cup p.new \cup {b \in DOMAIN p.put \ p.new : p.put[b] # c.blk[b]}

TimesIn(f, k) == IF k \in f.lec THEN class[k] ELSE f.blk[k]

\* Mutant: lectures are left out of the comparison.
NoConflictOfBlocks(f, items) ==
  \A k \in items : \A j \in DOMAIN f.blk \ {k} : ~Clash(TimesIn(f, k), TimesIn(f, j))

\* None of the given items overlaps any other item of the final composition.
NoConflict(f, items) ==
  \A k \in items : \A j \in (f.lec \cup DOMAIN f.blk) \ {k} :
    ~Clash(TimesIn(f, k), TimesIn(f, j))

\* The number of changes: lectures and blocks, each at most once.
Size(p) == Cardinality(p.addL \cup p.delL) + Cardinality(p.delB \cup DOMAIN p.put)

\* The batch endpoint (updateTimetableItems) takes several changes and compares
\* those it makes with the final composition.
ByBatch(c, p) ==
  Size(p) \in 1..MaxChanges /\ NoConflict(Final(c, p), Changed(c, p))

\* The endpoints for one lecture compare no times at all.
ByLecture(p) == Size(p) = 1 /\ p.addL \cup p.delL # {}

\* {add,update,remove}Customblock: the one block is compared with everything,
\* even when its times stay the same.
ByBlock(c, p) ==
  /\ Size(p) = 1 /\ p.addL \cup p.delL = {}
  /\ NoConflict(Final(c, p), DOMAIN p.put)

Permitted(op, c, p) ==
  /\ \A b \in DOMAIN p.put : ValidTimes(p.put[b])
  /\ \/ op = "items" /\ ByBatch(c, p)
     \/ op = "lecture" /\ ByLecture(p)
     \/ op = "block" /\ ByBlock(c, p)

\* updateTimetableItems, updateTimetableLecture, addLectureToTimetable,
\* removeLectureFromTimetable, {add,update,remove}Customblock...
Edit(r) ==
  LET c == Contents(tx[r].row) IN
  /\ tx[r].pc = "reading"
  /\ \E addL \in SUBSET (Lecs \ c.lec), delL \in SUBSET c.lec,
        delB \in SUBSET DOMAIN c.blk, new \in SUBSET FreshBlocks :
     \E upd \in SUBSET (DOMAIN c.blk \ delB) :
     \E put \in [new \cup upd -> TimeSets], op \in {"items", "lecture", "block"} :
       LET p == [addL |-> addL, delL |-> delL, new |-> new, delB |-> delB,
                 put |-> put]
       IN Permitted(op, c, p) /\ Prepare(r, op, tx[r].row, p)

FreshTts == Tts \ (used \cup {tx[q].t : q \in Reqs})

\* createTimetable from a list of lectures ...
Create(r) ==
  \E t \in FreshTts, L \in SUBSET Lecs :
    PrepareUnlocked(r, "create", t, [NoPlan EXCEPT !.addL = L])

\* ... and from a source timetable: every block gets a row of its own, and
\* overlaps are copied as they are.
Copy(r) ==
  LET c == Contents(tx[r].row) IN
  /\ tx[r].pc = "reading"
  /\ \E t \in FreshTts, f \in Injection(DOMAIN c.blk, FreshBlocks) :
       Prepare(r, "copy", t,
               [NoPlan EXCEPT !.addL = c.lec, !.new = Range(f),
                  !.put = [b \in Range(f) |->
                             c.blk[CHOOSE a \in DOMAIN c.blk : f[a] = b]]])

\* deleteTimetable: rows of both mapping tables go with the timetable.
Delete(r) ==
  LET c == Contents(tx[r].row) IN
  /\ tx[r].pc = "reading"
  /\ Prepare(r, "delete", tx[r].row,
             [NoPlan EXCEPT !.delL = c.lec, !.delB = DOMAIN c.blk])

\* setHomeTimetable, with a timetable or with null.
SetHome(r) ==
  \/ tx[r].pc = "reading" /\ Prepare(r, "home", tx[r].row, NoPlan)
  \/ PrepareUnlocked(r, "home", NoTt, NoPlan)

End(r) == tx' = [tx EXCEPT ![r] = Idle]

\* The rows of a transaction become visible.  A duplicate mapping or one that
\* is not there makes the statement fail (Abort).  Deleting a timetable sets
\* the selections of it to null (foreign key).
CommitItems(r) ==
  LET t == tx[r].t
      p == tx[r].plan
      f == Final(Contents(t), p)
  IN
  /\ tx[r].pc = "writing" /\ tx[r].op # "home"
  /\ p.addL \cap lec[t] = {} /\ p.delL \subseteq lec[t] /\ p.delB \subseteq blk[t]
  /\ lec' = [lec EXCEPT ![t] = f.lec]
  /\ blk' = [blk EXCEPT ![t] = DOMAIN f.blk]
  /\ times' = [b \in Blocks |-> IF b \in DOMAIN p.put THEN p.put[b] ELSE times[b]]
  /\ owner' = [owner EXCEPT ![t] = CASE tx[r].op \in {"create", "copy"} -> tx[r].user
                                     [] tx[r].op = "delete" -> NoUser
                                     [] OTHER -> @]
  /\ used' = used \cup {t}
  /\ home' = [u \in Users |-> IF tx[r].op = "delete" /\ home[u] = t THEN NoTt
                              ELSE home[u]]
  /\ End(r)
  /\ UNCHANGED class

CommitHome(r) ==
  /\ tx[r].pc = "writing" /\ tx[r].op = "home"
  /\ home' = [home EXCEPT ![tx[r].user] = tx[r].t]
  /\ End(r)
  /\ UNCHANGED <<owner, used, lec, blk, times, class>>

\* A refused body, a failing statement, a deadlock or a timeout: rollback.
Abort(r) ==
  /\ tx[r].pc # "idle"
  /\ End(r)
  /\ UNCHANGED db

\* The scholar sync replaces the class times of a lecture.
SyncClasstimes(l) ==
  /\ \E S \in ClassTimes \ {class[l]} : class' = [class EXCEPT ![l] = S]
  /\ tx' = [r \in Reqs |-> [tx[r] EXCEPT !.moved = (tx[r].pc = "writing")]]
  /\ UNCHANGED <<owner, used, lec, blk, times, home>>

Next ==
  \/ \E r \in Reqs :
       \/ Begin(r) \/ LockTimetable(r)
       \/ Edit(r) \/ Create(r) \/ Copy(r) \/ Delete(r) \/ SetHome(r)
       \/ CommitItems(r) \/ CommitHome(r) \/ Abort(r)
  \/ \E l \in Lecs : SyncClasstimes(l)

Spec == Init /\ [][Next]_vars

-----------------------------------------------------------------------------
\* What a request validated is what it writes on: until it commits, the
\* contents and the owner it read are the committed ones, whatever requests on
\* the same or other timetables do meanwhile.
FreshView ==
  \A r \in Reqs : (tx[r].pc = "writing" /\ tx[r].row # NoTt) =>
    Contents(tx[r].row) = tx[r].view /\ Allowed(r, tx[r].op)

\* Custom blocks of a timetable never overlap, neither each other nor
\* themselves, through concurrent adds, updates, batches and copies.  And no
\* block row belongs to two timetables, so an edit of a copy never shows in its
\* source (blocks have no timetable column, only the mapping table ties them).
BlocksApart ==
  /\ TypeOK
  /\ \A t \in Tts : \A b \in blk[t] :
       /\ ValidTimes(times[b])
       /\ \A a \in blk[t] \ {b} : ~Clash(times[a], times[b])
  /\ \A t, u \in Tts : t # u => blk[t] \cap blk[u] = {}

\* A block comes to overlap a lecture only by an endpoint that lets it: the
\* lecture is added alone, or an overlap is copied; else the sync moved the
\* lecture, at once or behind the back of a request that had checked it.
Committing(r, t) ==
  tx[r].pc = "writing" /\ tx'[r].pc = "idle" /\ tx[r].t = t
OverlapsAdmitted ==
  [][\A t \in Tts : \A b \in blk'[t], l \in lec'[t] :
       Clash(times'[b], class'[l]) =>
         \/ b \in blk[t] /\ l \in lec[t] /\ Clash(times[b], class[l])
         \/ class' # class
         \/ \E r \in Reqs : /\ Committing(r, t)
                            /\ tx[r].op \in {"lecture", "copy"} \/ tx[r].moved]_db
=============================================================================
