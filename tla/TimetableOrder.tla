--------------------------- MODULE TimetableOrder ---------------------------
(***************************************************************************)
(* The order of the timetables of one term (column arrange_order), each    *)
(* user's among his own, as both versions of the timetable service create, *)
(* delete and reorder them.  A request is one MySQL transaction at the     *)
(* default isolation level: it locks the row of the timetable it names,    *)
(* then reads the requester's timetables from a snapshot and writes        *)
(* absolute positions computed from it.  No lock covers the set of         *)
(* timetables, so requests can overlap; and v1 deletes any timetable by    *)
(* its id, whoever asks.                                                   *)
(***************************************************************************)
EXTENDS Integers, FiniteSets, Functions, SequencesExt

CONSTANTS Ids,       \* timetable ids; autoincrement never reuses one
          NoId,      \* no timetable
          Holders,   \* users
          NoHolder,  \* no user
          Owner,     \* Owner[t]: the user for whom t is inserted, if ever
          OrderReqs, \* requests (bounds their number)
          Targets    \* the values of "order" that requests ask for

ASSUME OrderAssumption == /\ IsFiniteSet(Ids) /\ NoId \notin Ids /\ NoHolder \notin Holders
                          /\ Owner \in [Ids -> Holders] /\ Targets \subseteq Int

VARIABLES order,       \* committed rows: timetable id -> arrange_order
          usedIds,     \* ids ever inserted
          trans,       \* trans[r]: the transaction of request r
          disturbed    \* history: users two of whose requests were open at once,
                       \* or whose timetables another's deletion left out of order

orderVars == <<order, usedIds, trans, disturbed>>

IsRows(d) == DOMAIN d \subseteq Ids /\ d \in [DOMAIN d -> Int]
None == [t \in {} |-> 0]

\* getTimetables(user, year, semester), and the timetables a user ever had.
RowsOf(d, u) == Restrict(d, {t \in DOMAIN d : Owner[t] = u})
UsedBy(u) == {t \in usedIds : Owner[t] = u}

\* snap is the consistent read; todo the positions still to be written,
\* written those written (and row-locked) but not yet committed.
NoTrans == [pc |-> "idle", op |-> "create", user |-> NoHolder, id |-> NoId, to |-> 0,
            todo |-> None, written |-> None]
Open(r) == trans[r].pc \in {"locking", "reading", "writing"}

\* Row locks of r: SELECT ... FOR UPDATE on its own timetable, and UPDATEs.
OrderLocks(r) ==
  (IF trans[r].pc \in {"reading", "writing"} /\ trans[r].op # "create"
     THEN {trans[r].id} ELSE {})
  \cup (IF Open(r) THEN DOMAIN trans[r].written ELSE {})
LockedByOther(r, t) == \E q \in OrderReqs \ {r} : t \in OrderLocks(q)

OrderTypeOK ==
  /\ IsRows(order)
  /\ usedIds \in SUBSET Ids /\ DOMAIN order \subseteq usedIds
  /\ \A r \in OrderReqs : /\ trans[r].pc \in {"idle", "locking", "reading", "writing", "done"}
                          /\ trans[r].op \in {"create", "delete", "update"}
                          /\ trans[r].user \in Holders \cup {NoHolder}
                          /\ IsRows(trans[r].todo) /\ IsRows(trans[r].written)
  /\ \A q, r \in OrderReqs : q # r => OrderLocks(q) \cap OrderLocks(r) = {}
  /\ disturbed \subseteq Holders

\* A user may start with any number of timetables in order.
Contiguous(d) == Range(d) = 0..(Cardinality(DOMAIN d) - 1)

OrderInit ==
  /\ order \in {d \in UNION {[S -> 0..(Cardinality(S) - 1)] : S \in SUBSET Ids} :
               \A u \in Holders : Contiguous(RowsOf(d, u))}
  /\ usedIds = DOMAIN order
  /\ trans = [r \in OrderReqs |-> NoTrans]
  /\ disturbed = {}

-----------------------------------------------------------------------------
\* Whose timetables a request may come to change.
Touches(x) == {x.user} \cup (IF x.op = "delete" THEN {Owner[x.id]} ELSE {})

BeginAs(r, x) ==
  /\ trans[r].pc = "idle"
  /\ trans' = [trans EXCEPT ![r] = x]
  /\ disturbed' = disturbed \cup
       UNION {Touches(x) \cap Touches(trans[q]) : q \in {p \in OrderReqs : Open(p)}}
  /\ UNCHANGED <<order, usedIds>>

BeginRequest(r) ==
  \E u \in Holders :
    \/ BeginAs(r, [NoTrans EXCEPT !.pc = "reading", !.user = u])
    \/ \E t \in Ids :
         BeginAs(r, [NoTrans EXCEPT !.pc = "locking", !.op = "delete", !.user = u, !.id = t])
    \/ \E t \in Ids, k \in Targets :
         BeginAs(r, [NoTrans EXCEPT !.pc = "locking", !.op = "update", !.user = u, !.id = t, !.to = k])

\* lockTimetable; a row that is not there locks nothing.
LockOwnTimetable(r) ==
  /\ trans[r].pc = "locking"
  /\ ~LockedByOther(r, trans[r].id)
  /\ trans' = [trans EXCEPT ![r].pc = "reading"]
  /\ UNCHANGED <<order, usedIds, disturbed>>

EndRequest(r) == trans' = [trans EXCEPT ![r] = [NoTrans EXCEPT !.pc = "done"]]

Plan(r, id, todo) ==
  trans' = [trans EXCEPT ![r].pc = "writing", ![r].id = id, ![r].todo = todo]

\* getTimetableBasics ordered by arrange_order: append after the last one.
PlanCreate(r) ==
  LET own == RowsOf(order, trans[r].user) IN
  /\ trans[r].pc = "reading" /\ trans[r].op = "create"
  /\ \E t \in Ids \ (usedIds \cup {trans[q].id : q \in {p \in OrderReqs : Open(p)}}) :
       /\ Owner[t] = trans[r].user
       /\ Plan(r, t, [u \in {t} |-> IF own = None THEN 0 ELSE Max(Range(own)) + 1])
  /\ UNCHANGED <<order, usedIds, disturbed>>

\* deleteById, then every later timetable of the requester moves one place
\* forward.  v1 asks for no owner: the place is that of another's timetable then.
PlanDelete(r) ==
  LET id  == trans[r].id
      own == RowsOf(order, trans[r].user)
  IN
  /\ trans[r].pc = "reading" /\ trans[r].op = "delete"
  /\ id \in DOMAIN order
  /\ Plan(r, id, [t \in {u \in DOMAIN own : own[u] > order[id]} |-> own[t] - 1])
  /\ UNCHANGED <<order, usedIds, disturbed>>

\* Mutants of Shifted: the timetable at k stays when others move forward, and
\* two timetables that swap places.
ShiftedShort(d, id, k) ==
  IF k < d[id]
    THEN [t \in {u \in DOMAIN d : k <= d[u] /\ d[u] < d[id]} |-> d[t] + 1]
    ELSE [t \in {u \in DOMAIN d : d[id] < d[u] /\ d[u] < k} |-> d[t] - 1]
ShiftedSwap(d, id, k) == [t \in {u \in DOMAIN d : d[u] = k} |-> d[id]]

\* Timetables that give way when id moves from its place to place k.
Shifted(d, id, k) ==
  IF k < d[id]
    THEN [t \in {u \in DOMAIN d : k <= d[u] /\ d[u] < d[id]} |-> d[t] + 1]
    ELSE [t \in {u \in DOMAIN d : d[id] < d[u] /\ d[u] <= k} |-> d[t] - 1]

PlanUpdate(r) ==
  LET id  == trans[r].id
      k   == trans[r].to
      own == RowsOf(order, trans[r].user)
  IN
  /\ trans[r].pc = "reading" /\ trans[r].op = "update"
  /\ id \in DOMAIN own
  /\ k # own[id]
  /\ k >= 0 /\ k < Cardinality(DOMAIN own)
  /\ Plan(r, id, Shifted(own, id, k))
  /\ UNCHANGED <<order, usedIds, disturbed>>

\* 400 or 401 for a missing or foreign timetable (but see PlanDelete) or a
\* position out of bounds; nothing to do when it is where it should be.
Refuse(r) ==
  LET id  == trans[r].id
      k   == trans[r].to
      own == RowsOf(order, trans[r].user)
  IN
  /\ trans[r].pc = "reading" /\ trans[r].op # "create"
  /\ \/ id \notin DOMAIN own
     \/ /\ trans[r].op = "update" /\ id \in DOMAIN own
        /\ k = own[id] \/ k < 0 \/ k >= Cardinality(DOMAIN own)
  /\ EndRequest(r)
  /\ UNCHANGED <<order, usedIds, disturbed>>

\* updateOrder: an UPDATE by id waits for the row's lock and overwrites the
\* latest committed value; for a row deleted meanwhile it changes nothing.
UpdateOrder(r, t) ==
  /\ trans[r].pc = "writing"
  /\ t \in DOMAIN trans[r].todo
  /\ ~LockedByOther(r, t)
  /\ trans' = [trans EXCEPT
       ![r].todo = Restrict(@, DOMAIN @ \ {t}),
       ![r].written = IF t \in DOMAIN order \/ trans[r].op = "create"
                        THEN [u \in DOMAIN @ \cup {t} |->
                                IF u = t THEN trans[r].todo[t] ELSE @[u]]
                        ELSE @]
  /\ UNCHANGED <<order, usedIds, disturbed>>

\* The database after the transaction of r.
After(r) ==
  LET w    == trans[r].written
      id   == trans[r].id
      keep == (DOMAIN order \cup DOMAIN w) \ (IF trans[r].op = "delete" THEN {id} ELSE {})
  IN [t \in keep |-> IF trans[r].op = "update" /\ t = id THEN trans[r].to
                     ELSE IF t \in DOMAIN w THEN w[t] ELSE order[t]]

\* A deletion of another's timetable leaves out of order the owner's list if
\* something stood behind it there, and the requester's if it shifted anything.
Disturbs(x) ==
  IF x.op = "create" \/ Owner[x.id] = x.user THEN {}
  ELSE {u \in {Owner[x.id]} : \E t \in DOMAIN RowsOf(order, u) : order[t] > order[x.id]}
       \cup {u \in {x.user} : x.written # None}

Commit(r) ==
  /\ trans[r].pc = "writing" /\ trans[r].todo = None
  /\ order' = After(r)
  /\ usedIds' = usedIds \cup DOMAIN trans[r].written
  /\ EndRequest(r)
  /\ disturbed' = disturbed \cup Disturbs(trans[r])

\* Deadlock victim, transaction timeout, or an UPDATE whose row is gone.
Rollback(r) ==
  /\ Open(r)
  /\ EndRequest(r)
  /\ UNCHANGED <<order, usedIds, disturbed>>

OrderNext ==
  \E r \in OrderReqs :
    \/ BeginRequest(r) \/ LockOwnTimetable(r) \/ Refuse(r)
    \/ PlanCreate(r) \/ PlanDelete(r) \/ PlanUpdate(r)
    \/ (\E t \in Ids : UpdateOrder(r, t))
    \/ Commit(r) \/ Rollback(r)

OrderSpec == OrderInit /\ [][OrderNext]_orderVars

-----------------------------------------------------------------------------
\* As long as a user's requests do not overlap, and nobody deletes another's
\* timetable from among them, his timetables hold the positions 0..n-1, each
\* once, through every create, delete and reorder, whatever others do with theirs.
\* And whatever overlaps or reaches across users, shifting by one never leaves
\* the range of positions ever handed out to that user (arrange_order is a signed
\* SMALLINT and indexes the UI's list).
OrdersHold ==
  /\ OrderTypeOK
  /\ \A u \in Holders \ disturbed : Contiguous(RowsOf(order, u))
  /\ \A t \in DOMAIN order : order[t] \in 0..(Cardinality(UsedBy(Owner[t])) - 1)

\* A user's list of timetables.
ListOf(d) == [i \in 1..Cardinality(DOMAIN d) |->
                CHOOSE t \in DOMAIN d : d[t] = i - 1]

\* On the list of a user whom nothing disturbed, a step acts as one append,
\* removal or move by one of his requests, or as the removal of the last one by
\* another's; a move puts its timetable where the request asked and keeps the
\* others in their order.
ListStep(u) ==
  LET old == ListOf(RowsOf(order, u))
      new == ListOf(RowsOf(order', u))
  IN \/ new = old
     \/ \E t \in Ids \ usedIds : new = Append(old, t)
     \/ \E r \in OrderReqs, i \in DOMAIN old :
          /\ trans[r].op = "delete" /\ trans[r].pc = "writing" /\ old[i] = trans[r].id
          /\ trans[r].user = u \/ i = Len(old)
          /\ new = RemoveAt(old, i)
     \/ \E r \in OrderReqs, i \in DOMAIN old :
          /\ trans[r].op = "update" /\ trans[r].pc = "writing" /\ old[i] = trans[r].id
          /\ trans[r].user = u
          /\ new = InsertAt(RemoveAt(old, i), trans[r].to + 1, old[i])
ActsAsList == [][\A u \in Holders \ disturbed' : ListStep(u)]_order
=============================================================================
