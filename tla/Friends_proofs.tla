--------------------------- MODULE Friends_proofs ---------------------------
(* Proofs about Friends for any number of users, codes, requests and         *)
(* attempts: the row locks of InnoDB keep friendship mutual.  And about      *)
(* Schedules for any times, lectures, blocks and writes: blocks are as asked *)
(* on servers of two versions, and what is shown of a friend was so.         *)
EXTENDS Friends, Schedules, SequenceTheorems, FiniteSetTheorems, TLAPS

Pcs == {"idle", "adding", "deleting", "favorite", "allocate", "reread", "found", "failed"}
TxSet == [pc : Pcs, me : Users \cup {NoUser}, you : Users \cup {NoUser},
          snap : SUBSET Pairs, ins : SUBSET Pairs, del : SUBSET Pairs,
          shared : SUBSET Pairs, gap : SUBSET Pairs,
          id : 0..MaxGen, code : Codes \cup {NoCode}, n : 0..MaxAttempts]

Typed ==
  /\ rows \in SUBSET Pairs /\ fav \in SUBSET rows
  /\ gen \in [Pairs -> 0..MaxGen]
  /\ code \in [Users -> Codes \cup {NoCode}]
  /\ tx \in [Reqs -> TxSet]

\* What a request of one kind holds.
Discipline ==
  \A r \in Reqs :
    /\ tx[r].pc # "adding" => tx[r].ins = {} /\ tx[r].shared = {}
    /\ tx[r].pc # "deleting" => tx[r].del = {} /\ tx[r].gap = {}
    /\ Touched(r) \subseteq Both(tx[r].me, tx[r].you)
    /\ tx[r].pc \in {"adding", "deleting", "favorite"} =>
         tx[r].me \in Users /\ tx[r].you \in Users /\ tx[r].me # tx[r].you
    /\ tx[r].pc \in {"allocate", "reread", "found", "failed"} => tx[r].me \in Users
    /\ tx[r].pc = "allocate" => tx[r].n < MaxAttempts

\* What a lock says of the row until the request ends, whoever else commits.
Locked ==
  \A r \in Reqs :
    /\ tx[r].ins \cap rows = {} /\ tx[r].gap \cap rows = {}
    /\ tx[r].shared \subseteq rows /\ tx[r].del \subseteq rows
    /\ \A p \in tx[r].ins : gen[p] < MaxGen

\* Which locks exclude each other.
Excluded ==
  \A r \in Reqs : \A q \in Others(r) :
    /\ Exclusive(r) \cap (Exclusive(q) \cup tx[q].shared) = {}
    /\ tx[r].ins \cap tx[q].gap = {}

LockInv == Typed /\ Discipline /\ Locked /\ Excluded

\* A request slot that is free is well typed.
LEMMA IdleTyped == Idle \in TxSet
BY FriendsAssumption DEF Idle, Record, TxSet, Pcs

\* The two directions of a friendship.
LEMMA BothPairs ==
  ASSUME NEW u \in Users, NEW v \in Users, u # v
  PROVE  Both(u, v) \subseteq Pairs /\ <<u, v>> \in Pairs /\ <<v, u>> \in Pairs
BY DEF Both, Pairs

\* A request that begins or ends holds nothing.
LEMMA Released ==
  ASSUME LockInv, NEW r \in Reqs, NEW t \in TxSet,
         t.ins = {}, t.del = {}, t.shared = {}, t.gap = {},
         t.pc \in {"adding", "deleting", "favorite"} =>
           t.me \in Users /\ t.you \in Users /\ t.me # t.you,
         t.pc \in {"allocate", "reread", "found", "failed"} => t.me \in Users,
         t.pc = "allocate" => t.n < MaxAttempts,
         tx' = [tx EXCEPT ![r] = t], UNCHANGED <<rows, gen, fav>>,
         code' \in [Users -> Codes \cup {NoCode}]
  PROVE  LockInv'
<1>1. \A q \in Reqs : tx'[q] = IF q = r THEN t ELSE tx[q]
  BY DEF LockInv, Typed
<1>2. Typed'
  BY DEF LockInv, Typed
<1>3. Discipline'
  BY <1>1 DEF LockInv, Discipline, Touched, Exclusive
<1>4. Locked'
  BY <1>1 DEF LockInv, Locked
<1>5. Excluded'
  BY <1>1 DEF LockInv, Excluded, Exclusive, Others
<1> QED
  BY <1>2, <1>3, <1>4, <1>5 DEF LockInv

\* A request takes one lock; nobody commits.
LEMMA Acquired ==
  ASSUME LockInv, NEW r \in Reqs, NEW t \in TxSet, Discipline', Locked', Excluded',
         tx' = [tx EXCEPT ![r] = t], UNCHANGED <<rows, gen, fav, code>>
  PROVE  LockInv'
BY DEF LockInv, Typed

\* createPair takes an exclusive lock on a new row, a shared one on an old row.
LEMMA InsertStep ==
  ASSUME LockInv, NEW r \in Reqs, NEW p \in Pairs, InsertRow(r, p)
  PROVE  LockInv'
<1> DEFINE t == IF p \in rows THEN [tx[r] EXCEPT !.shared = @ \cup {p}]
                              ELSE [tx[r] EXCEPT !.ins = @ \cup {p}]
<1>1. tx[r] \in TxSet /\ t \in TxSet
  BY DEF LockInv, Typed, TxSet
<1>2. tx' = [tx EXCEPT ![r] = t] /\ UNCHANGED <<rows, gen, fav, code>>
  BY DEF InsertRow
<1>3. \A q \in Reqs : tx'[q] = IF q = r THEN t ELSE tx[q]
  BY <1>2 DEF LockInv, Typed
<1>4. /\ t.pc = "adding" /\ t.me = tx[r].me /\ t.you = tx[r].you
      /\ t.del = tx[r].del /\ t.gap = tx[r].gap
      /\ t.ins = IF p \in rows THEN tx[r].ins ELSE tx[r].ins \cup {p}
      /\ t.shared = IF p \in rows THEN tx[r].shared \cup {p} ELSE tx[r].shared
  BY <1>1 DEF InsertRow, TxSet
<1> HIDE DEF t
<1>5. p \in Both(tx[r].me, tx[r].you)
  BY DEF InsertRow, Todo
<1>6. Discipline'
  BY <1>1, <1>3, <1>4, <1>5 DEF LockInv, Discipline, Touched, Exclusive, InsertRow
<1>7. Locked'
  BY <1>2, <1>3, <1>4 DEF LockInv, Locked, InsertRow
<1>8. Excluded'
  <2> SUFFICES ASSUME NEW x \in Reqs, NEW y \in Reqs, x # y
               PROVE  /\ (Exclusive(x) \cap (Exclusive(y) \cup tx[y].shared))' = {}
                      /\ (tx[x].ins \cap tx[y].gap)' = {}
    BY DEF Excluded, Others
  <2>1. /\ Exclusive(x) \cap (Exclusive(y) \cup tx[y].shared) = {}
        /\ tx[x].ins \cap tx[y].gap = {}
    BY DEF LockInv, Excluded, Others
  <2>2. \A q \in Others(r) : p \notin Exclusive(q) /\ (p \notin rows => p \notin tx[q].gap /\ p \notin tx[q].shared)
    BY DEF InsertRow, LockInv, Locked, Others
  <2>3. CASE x = r
    BY <1>3, <1>4, <2>1, <2>2, <2>3 DEF Exclusive, Others
  <2>4. CASE y = r
    BY <1>3, <1>4, <2>1, <2>2, <2>4 DEF Exclusive, Others
  <2>5. CASE x # r /\ y # r
    BY <1>3, <2>1, <2>5 DEF Exclusive
  <2> QED
    BY <2>3, <2>4, <2>5
<1> QED
  BY <1>1, <1>2, <1>6, <1>7, <1>8, Acquired

\* deletePair takes an exclusive lock on a row, or a gap lock.
LEMMA DeleteStep ==
  ASSUME LockInv, NEW r \in Reqs, NEW p \in Pairs, DeleteRow(r, p)
  PROVE  LockInv'
<1> DEFINE t == IF p \in rows THEN [tx[r] EXCEPT !.del = @ \cup {p}]
                              ELSE [tx[r] EXCEPT !.gap = @ \cup {p}]
<1>1. tx[r] \in TxSet /\ t \in TxSet
  BY DEF LockInv, Typed, TxSet
<1>2. tx' = [tx EXCEPT ![r] = t] /\ UNCHANGED <<rows, gen, fav, code>>
  BY DEF DeleteRow
<1>3. \A q \in Reqs : tx'[q] = IF q = r THEN t ELSE tx[q]
  BY <1>2 DEF LockInv, Typed
<1>4. /\ t.pc = "deleting" /\ t.me = tx[r].me /\ t.you = tx[r].you
      /\ t.ins = tx[r].ins /\ t.shared = tx[r].shared
      /\ t.del = IF p \in rows THEN tx[r].del \cup {p} ELSE tx[r].del
      /\ t.gap = IF p \in rows THEN tx[r].gap ELSE tx[r].gap \cup {p}
  BY <1>1 DEF DeleteRow, TxSet
<1> HIDE DEF t
<1>5. p \in Both(tx[r].me, tx[r].you)
  BY DEF DeleteRow, Todo
<1>6. Discipline'
  BY <1>1, <1>3, <1>4, <1>5 DEF LockInv, Discipline, Touched, Exclusive, DeleteRow
<1>7. Locked'
  BY <1>2, <1>3, <1>4 DEF LockInv, Locked, DeleteRow
<1>8. Excluded'
  <2> SUFFICES ASSUME NEW x \in Reqs, NEW y \in Reqs, x # y
               PROVE  /\ (Exclusive(x) \cap (Exclusive(y) \cup tx[y].shared))' = {}
                      /\ (tx[x].ins \cap tx[y].gap)' = {}
    BY DEF Excluded, Others
  <2>1. /\ Exclusive(x) \cap (Exclusive(y) \cup tx[y].shared) = {}
        /\ tx[x].ins \cap tx[y].gap = {}
    BY DEF LockInv, Excluded, Others
  <2>2. \A q \in Others(r) : p \notin Exclusive(q) /\ p \notin tx[q].shared
    BY DEF DeleteRow
  <2>3. CASE x = r
    BY <1>3, <1>4, <2>1, <2>2, <2>3 DEF Exclusive, Others
  <2>4. CASE y = r
    BY <1>3, <1>4, <2>1, <2>2, <2>4 DEF Exclusive, Others
  <2>5. CASE x # r /\ y # r
    BY <1>3, <2>1, <2>5 DEF Exclusive
  <2> QED
    BY <2>3, <2>4, <2>5
<1> QED
  BY <1>1, <1>2, <1>6, <1>7, <1>8, Acquired

\* The end of addFriend makes the inserted rows visible.
LEMMA AddStep ==
  ASSUME LockInv, NEW r \in Reqs, CommitAdd(r)
  PROVE  LockInv'
<1>1. tx' = [tx EXCEPT ![r] = Idle] /\ UNCHANGED <<fav, code>>
  BY DEF CommitAdd, End
<1>2. \A q \in Reqs : tx'[q] = IF q = r THEN Idle ELSE tx[q]
  BY <1>1 DEF LockInv, Typed
<1>3. \A p \in tx[r].ins : gen[p] + 1 \in 0..MaxGen
  BY FriendsAssumption DEF LockInv, Typed, Locked, TxSet
<1>4. Typed'
  <2>1. rows' \in SUBSET Pairs /\ fav' \in SUBSET rows'
    BY <1>1 DEF LockInv, Typed, CommitAdd, TxSet
  <2>2. gen' \in [Pairs -> 0..MaxGen]
    BY <1>3 DEF LockInv, Typed, CommitAdd
  <2> QED
    BY <1>1, <2>1, <2>2, IdleTyped DEF LockInv, Typed
<1>5. Discipline'
  BY <1>2 DEF LockInv, Discipline, Touched, Exclusive, Idle, Record
<1>6. Locked'
  <2> SUFFICES ASSUME NEW q \in Others(r)
               PROVE  /\ tx[q].ins \cap rows' = {} /\ tx[q].gap \cap rows' = {}
                      /\ tx[q].shared \subseteq rows' /\ tx[q].del \subseteq rows'
                      /\ \A p \in tx[q].ins : gen'[p] < MaxGen
    BY <1>2 DEF Locked, Idle, Record, Others
  <2>1. /\ tx[r].ins \cap tx[q].ins = {} /\ tx[r].ins \cap tx[q].gap = {}
    BY DEF LockInv, Excluded, Exclusive, Others
  <2>2. \A p \in tx[q].ins : gen'[p] = gen[p]
    BY <2>1 DEF CommitAdd, LockInv, Typed, TxSet, Others
  <2> QED
    BY <2>1, <2>2 DEF CommitAdd, LockInv, Locked, Others
<1>7. Excluded'
  BY <1>2 DEF LockInv, Excluded, Exclusive, Others, Idle, Record
<1> QED
  BY <1>4, <1>5, <1>6, <1>7 DEF LockInv

\* The end of deleteFriend removes the deleted rows.
LEMMA RemoveStep ==
  ASSUME LockInv, NEW r \in Reqs, CommitDelete(r)
  PROVE  LockInv'
<1>1. tx' = [tx EXCEPT ![r] = Idle] /\ UNCHANGED <<gen, code>>
  BY DEF CommitDelete, End
<1>2. \A q \in Reqs : tx'[q] = IF q = r THEN Idle ELSE tx[q]
  BY <1>1 DEF LockInv, Typed
<1>3. Typed'
  BY <1>1, IdleTyped DEF LockInv, Typed, CommitDelete
<1>4. Discipline'
  BY <1>2 DEF LockInv, Discipline, Touched, Exclusive, Idle, Record
<1>5. Locked'
  <2> SUFFICES ASSUME NEW q \in Others(r)
               PROVE  /\ tx[q].ins \cap rows' = {} /\ tx[q].gap \cap rows' = {}
                      /\ tx[q].shared \subseteq rows' /\ tx[q].del \subseteq rows'
                      /\ \A p \in tx[q].ins : gen'[p] < MaxGen
    BY <1>2 DEF Locked, Idle, Record, Others
  <2>1. tx[r].del \cap tx[q].del = {} /\ tx[r].del \cap tx[q].shared = {}
    BY DEF LockInv, Excluded, Exclusive, Others
  <2> QED
    BY <1>1, <2>1 DEF CommitDelete, LockInv, Locked, Others
<1>6. Excluded'
  BY <1>2 DEF LockInv, Excluded, Exclusive, Others, Idle, Record
<1> QED
  BY <1>3, <1>4, <1>5, <1>6 DEF LockInv

\* updateFavorite leaves the rows as they are.
LEMMA SetFavoriteStep ==
  ASSUME LockInv, NEW r \in Reqs, SetFavorite(r)
  PROVE  LockInv'
<1>1. fav' \in SUBSET rows /\ tx' = [tx EXCEPT ![r] = Idle] /\ UNCHANGED <<rows, gen, code>>
  BY DEF SetFavorite, End, LockInv, Typed
<1>2. \A q \in Reqs : tx'[q] = IF q = r THEN Idle ELSE tx[q]
  BY <1>1 DEF LockInv, Typed
<1>3. Typed'
  BY <1>1, IdleTyped DEF LockInv, Typed
<1>4. Discipline'
  BY <1>2 DEF LockInv, Discipline, Touched, Exclusive, Idle, Record
<1>5. Locked' /\ Excluded'
  BY <1>1, <1>2 DEF LockInv, Locked, Excluded, Exclusive, Others, Idle, Record
<1> QED
  BY <1>3, <1>4, <1>5 DEF LockInv

\* The three requests about friends begin.
LEMMA StartStep ==
  ASSUME LockInv, NEW r \in Reqs, NEW pc \in {"adding", "deleting", "favorite"},
         NEW u \in Users, NEW v \in Users, u # v, Start(r, pc, u, v)
  PROVE  LockInv'
<1> DEFINE t == Record(pc, u, v, rows, gen[<<u, v>>], NoCode, 0)
<1>1. gen[<<u, v>>] \in 0..MaxGen /\ rows \in SUBSET Pairs
  BY BothPairs DEF LockInv, Typed
<1>2. t \in TxSet
  BY <1>1, FriendsAssumption DEF Record, TxSet, Pcs
<1>3. /\ t.pc = pc /\ t.me = u /\ t.you = v
      /\ t.ins = {} /\ t.del = {} /\ t.shared = {} /\ t.gap = {}
  BY DEF Record
<1>4. tx' = [tx EXCEPT ![r] = t] /\ UNCHANGED <<rows, gen, fav, code>>
  BY DEF Start
<1>5. code' \in [Users -> Codes \cup {NoCode}]
  BY <1>4 DEF LockInv, Typed
<1> HIDE DEF t
<1> QED
  BY <1>2, <1>3, <1>4, <1>5, Released

\* The steps of getOrCreateCode hold no row of the friends.
LEMMA LookupStep ==
  ASSUME LockInv, NEW r \in Reqs, NEW u \in Users, NEW c \in Codes \cup {NoCode},
         NEW n \in 0..MaxAttempts, NEW pc \in {"allocate", "reread", "found", "failed"},
         pc = "allocate" => n < MaxAttempts,
         tx' = [tx EXCEPT ![r] = Lookup(pc, u, c, n)], UNCHANGED <<rows, gen, fav>>,
         code' \in [Users -> Codes \cup {NoCode}]
  PROVE  LockInv'
<1> DEFINE t == Lookup(pc, u, c, n)
<1>1. t \in TxSet
  BY FriendsAssumption DEF Lookup, Record, TxSet, Pcs
<1>2. /\ t.pc = pc /\ t.me = u /\ t.n = n
      /\ t.ins = {} /\ t.del = {} /\ t.shared = {} /\ t.gap = {}
  BY DEF Lookup, Record
<1>3. tx' = [tx EXCEPT ![r] = t]
  OBVIOUS
<1> HIDE DEF t
<1> QED
  BY <1>1, <1>2, <1>3, Released

\* The locks hold what they say through every interleaving of requests.
THEOREM LocksHold == Spec => []LockInv
<1>1. Init => LockInv
  <2> SUFFICES ASSUME Init PROVE LockInv
    OBVIOUS
  <2>1. Typed
    BY IdleTyped, FriendsAssumption DEF Init, Typed
  <2> QED
    BY <2>1 DEF Init, LockInv, Discipline, Locked, Excluded, Exclusive, Touched, Idle, Record, Others
<1>2. LockInv /\ [Next]_vars => LockInv'
  <2> SUFFICES ASSUME LockInv, [Next]_vars PROVE LockInv'
    OBVIOUS
  <2>1. ASSUME NEW r \in Reqs, StartAdd(r) PROVE LockInv'
    BY <2>1, StartStep DEF StartAdd
  <2>2. ASSUME NEW r \in Reqs, NEW p \in Pairs, InsertRow(r, p) PROVE LockInv'
    BY <2>2, InsertStep
  <2>3. ASSUME NEW r \in Reqs, CommitAdd(r) PROVE LockInv'
    BY <2>3, AddStep
  <2>4. ASSUME NEW r \in Reqs, StartDelete(r) PROVE LockInv'
    <3>1. PICK p \in rows : Start(r, "deleting", p[1], p[2])
      BY <2>4 DEF StartDelete
    <3>2. p[1] \in Users /\ p[2] \in Users /\ p[1] # p[2]
      BY DEF LockInv, Typed, Pairs
    <3> QED
      BY <3>1, <3>2, StartStep
  <2>5. ASSUME NEW r \in Reqs, NEW p \in Pairs, DeleteRow(r, p) PROVE LockInv'
    BY <2>5, DeleteStep
  <2>6. ASSUME NEW r \in Reqs, CommitDelete(r) PROVE LockInv'
    BY <2>6, RemoveStep
  <2>7. ASSUME NEW r \in Reqs, StartFavorite(r) PROVE LockInv'
    <3>1. PICK p \in rows : Start(r, "favorite", p[1], p[2])
      BY <2>7 DEF StartFavorite
    <3>2. p[1] \in Users /\ p[2] \in Users /\ p[1] # p[2]
      BY DEF LockInv, Typed, Pairs
    <3> QED
      BY <3>1, <3>2, StartStep
  <2>8. ASSUME NEW r \in Reqs, SetFavorite(r) PROVE LockInv'
    BY <2>8, SetFavoriteStep
  <2>9. ASSUME NEW r \in Reqs, tx' = [tx EXCEPT ![r] = Idle],
               UNCHANGED <<rows, gen, fav, code>>
        PROVE  LockInv'
    <3>1. code' \in [Users -> Codes \cup {NoCode}]
      BY <2>9 DEF LockInv, Typed
    <3>2. /\ Idle.pc = "idle" /\ Idle.ins = {} /\ Idle.del = {}
          /\ Idle.shared = {} /\ Idle.gap = {}
      BY DEF Idle, Record
    <3> QED
      BY <2>9, <3>1, <3>2, IdleTyped, Released
  <2>10. ASSUME NEW r \in Reqs, Abort(r) PROVE LockInv'
    BY <2>9, <2>10 DEF Abort, End
  <2>11. ASSUME NEW r \in Reqs, FindCode(r) PROVE LockInv'
    <3>1. PICK u \in Users : tx' = [tx EXCEPT ![r] =
                Lookup(IF code[u] = NoCode THEN "allocate" ELSE "found", u, code[u], 0)]
      BY <2>11 DEF FindCode
    <3>2. code[u] \in Codes \cup {NoCode} /\ 0 \in 0..MaxAttempts /\ 0 < MaxAttempts
          /\ code' \in [Users -> Codes \cup {NoCode}]
      BY <2>11, FriendsAssumption DEF FindCode, LockInv, Typed
    <3>3. UNCHANGED <<rows, gen, fav>>
      BY <2>11 DEF FindCode
    <3> QED
      BY <3>1, <3>2, <3>3, LookupStep
  <2>12. ASSUME NEW r \in Reqs, InsertCode(r) PROVE LockInv'
    <3>1. tx' = [tx EXCEPT ![r] = Lookup("reread", tx[r].me, NoCode, tx[r].n + 1)]
          /\ UNCHANGED <<rows, gen, fav>>
      BY <2>12 DEF InsertCode
    <3>2. tx[r].me \in Users /\ tx[r].n + 1 \in 0..MaxAttempts
      BY <2>12, FriendsAssumption DEF InsertCode, LockInv, Discipline, Typed, TxSet
    <3>3. code' \in [Users -> Codes \cup {NoCode}]
      BY <2>12, <3>2 DEF InsertCode, LockInv, Typed
    <3> QED
      BY <3>1, <3>2, <3>3, LookupStep
  <2>13. ASSUME NEW r \in Reqs, RereadCode(r) PROVE LockInv'
    <3>1. tx[r].me \in Users /\ tx[r].n \in 0..MaxAttempts
      BY <2>13 DEF RereadCode, LockInv, Discipline, Typed, TxSet
    <3>2. code[tx[r].me] \in Codes \cup {NoCode} /\ code' \in [Users -> Codes \cup {NoCode}]
      BY <2>13, <3>1 DEF RereadCode, LockInv, Typed
    <3>3. PICK pc \in {"allocate", "found", "failed"} :
            /\ pc = "allocate" => tx[r].n < MaxAttempts
            /\ tx' = [tx EXCEPT ![r] = Lookup(pc, tx[r].me, code[tx[r].me], tx[r].n)]
      BY <2>13 DEF RereadCode
    <3>4. UNCHANGED <<rows, gen, fav>>
      BY <2>13 DEF RereadCode
    <3> QED
      BY <3>1, <3>2, <3>3, <3>4, LookupStep
  <2>14. ASSUME NEW r \in Reqs, AnswerCode(r) PROVE LockInv'
    BY <2>9, <2>14 DEF AnswerCode, End
  <2>15. CASE UNCHANGED vars
    BY <2>15 DEF vars, LockInv, Typed, Discipline, Locked, Excluded, Touched, Exclusive, Others
  <2> QED
    BY <2>1, <2>2, <2>3, <2>4, <2>5, <2>6, <2>7, <2>8, <2>10, <2>11, <2>12, <2>13, <2>14, <2>15
    DEF Next
<1> QED
  BY <1>1, <1>2, PTL DEF Spec

\* Every reachable state is well typed and no two requests hold conflicting
\* row locks (friend.repository.ts on the unique index of the friends table).
THEOREM TypeCorrect == Spec => []TypeOK
<1>1. LockInv => TypeOK
  BY DEF LockInv, Typed, Excluded, TypeOK, TxSet, Pcs
<1> QED
  BY <1>1, LocksHold, PTL

-----------------------------------------------------------------------------
\* A request that has looked at both rows and ends an add has made both.
LEMMA AddMakesBoth ==
  ASSUME LockInv, NEW r \in Reqs, CommitAdd(r)
  PROVE  /\ Both(tx[r].me, tx[r].you) \subseteq rows'
         /\ rows' = rows \cup tx[r].ins
         /\ tx[r].ins \subseteq Both(tx[r].me, tx[r].you)
<1>1. tx[r].del = {} /\ tx[r].gap = {} /\ tx[r].shared \subseteq rows
  BY DEF CommitAdd, LockInv, Discipline, Locked
<1> QED
  BY <1>1 DEF CommitAdd, Todo, Touched, Exclusive, LockInv, Discipline

\* A request that ends a deletion leaves neither row.
LEMMA DeleteRemovesBoth ==
  ASSUME LockInv, NEW r \in Reqs, CommitDelete(r)
  PROVE  /\ Both(tx[r].me, tx[r].you) \cap rows' = {}
         /\ rows' = rows \ tx[r].del
         /\ tx[r].del \subseteq Both(tx[r].me, tx[r].you)
<1>1. tx[r].ins = {} /\ tx[r].shared = {} /\ tx[r].gap \cap rows = {}
  BY DEF CommitDelete, LockInv, Discipline, Locked
<1> QED
  BY <1>1 DEF CommitDelete, Todo, Touched, Exclusive, LockInv, Discipline

\* The other direction belongs to the same friendship.
LEMMA Flip ==
  ASSUME NEW u, NEW v, NEW p \in Both(u, v)
  PROVE  <<p[2], p[1]>> \in Both(u, v)
BY DEF Both

\* The rows change by the end of an add or of a deletion alone.
LEMMA RowsChange ==
  ASSUME [Next]_vars, rows' # rows
  PROVE  \E r \in Reqs : CommitAdd(r) \/ CommitDelete(r)
BY DEF Next, vars, StartAdd, StartDelete, StartFavorite, Start, InsertRow, DeleteRow,
       SetFavorite, Abort, FindCode, InsertCode, RereadCode, AnswerCode

\* Friendship is mutual at all times (createPair and deletePair).
THEOREM MutualAlways == Spec => []Mutual
<1>1. Init => Mutual
  BY DEF Init, Mutual
<1>2. LockInv /\ Mutual /\ [Next]_vars => Mutual'
  <2> SUFFICES ASSUME LockInv, Mutual, [Next]_vars, rows' # rows,
                      NEW p \in rows'
               PROVE  <<p[2], p[1]>> \in rows'
    BY DEF Mutual
  <2>1. ASSUME NEW r \in Reqs, CommitAdd(r) PROVE <<p[2], p[1]>> \in rows'
    BY <2>1, AddMakesBoth, Flip DEF Mutual
  <2>2. ASSUME NEW r \in Reqs, CommitDelete(r) PROVE <<p[2], p[1]>> \in rows'
    <3> DEFINE q == <<p[2], p[1]>>
    <3>1. p \in rows /\ q \in rows
      BY <2>2, DeleteRemovesBoth DEF Mutual
    <3>2. p = <<p[1], p[2]>>
      BY <3>1 DEF LockInv, Typed, Pairs
    <3>3. q \in Both(tx[r].me, tx[r].you) => p \in Both(tx[r].me, tx[r].you)
      BY <3>2 DEF Both
    <3> QED
      BY <2>2, <3>1, <3>3, DeleteRemovesBoth
  <2> QED
    BY <2>1, <2>2, RowsChange
<1> QED
  BY <1>1, <1>2, LocksHold, PTL DEF Spec

\* An add that is answered with the friend leaves both rows behind, also when
\* it skipped rows that others were about to delete (addFriend).
THEOREM AddedFriends == Spec => AddedMeansFriends
<1>1. LockInv /\ [Next]_vars =>
        [\A r \in Reqs : CommitAdd(r) => Both(tx[r].me, tx[r].you) \subseteq rows']_vars
  BY AddMakesBoth
<1> QED
  BY <1>1, LocksHold, PTL DEF Spec, AddedMeansFriends

\* A favorite mark of a row that stays changes only by a request of its owner
\* for this very row (updateFavorite).
THEOREM FavoritesOfOwners == Spec => FavoritesAreOwners
<1> DEFINE Owners ==
      \A p \in rows \cap rows' :
        (p \in fav) # (p \in fav') =>
          \E r \in Reqs : /\ tx[r].pc = "favorite" /\ tx'[r].pc = "idle"
                          /\ <<tx[r].me, tx[r].you>> = p /\ tx[r].id = gen[p]
<1>1. LockInv /\ [Next]_vars => [Owners]_vars
  <2> SUFFICES ASSUME LockInv, [Next]_vars, NEW p \in rows \cap rows',
                      (p \in fav) # (p \in fav')
               PROVE  \E r \in Reqs : /\ tx[r].pc = "favorite" /\ tx'[r].pc = "idle"
                                      /\ <<tx[r].me, tx[r].you>> = p /\ tx[r].id = gen[p]
    OBVIOUS
  <2>1. PICK r \in Reqs : CommitDelete(r) \/ SetFavorite(r)
    BY DEF Next, vars, StartAdd, StartDelete, StartFavorite, Start, InsertRow, DeleteRow,
           CommitAdd, Abort, FindCode, InsertCode, RereadCode, AnswerCode
  <2>2. ~CommitDelete(r)
    BY DEF CommitDelete
  <2>3. SetFavorite(r)
    BY <2>1, <2>2
  <2>4. tx[r].pc = "favorite" /\ <<tx[r].me, tx[r].you>> = p /\ tx[r].id = gen[p]
    BY <2>3 DEF SetFavorite
  <2>5. tx'[r].pc = "idle"
    BY <2>3 DEF SetFavorite, End, Idle, Record, LockInv, Typed
  <2> QED
    BY <2>4, <2>5
<1> QED
  BY <1>1, LocksHold, PTL DEF Spec, FavoritesAreOwners

-----------------------------------------------------------------------------
\* Strengthening of OneCode: a request that answers a code has one.
CodeInv ==
  /\ OneCode
  /\ \A r \in Reqs : tx[r].pc = "found" => tx[r].code # NoCode

\* A code, once given, stays.
LEMMA CodeStays ==
  ASSUME LockInv, [Next]_vars, NEW u \in Users, code[u] # NoCode
  PROVE  code'[u] = code[u]
<1>1. CASE code' = code
  BY <1>1
<1>2. CASE \E r \in Reqs : InsertCode(r)
  BY <1>2 DEF InsertCode, LockInv, Typed
<1> QED
  BY <1>1, <1>2
  DEF Next, vars, StartAdd, StartDelete, StartFavorite, Start, InsertRow, DeleteRow,
      CommitAdd, CommitDelete, SetFavorite, Abort, FindCode, RereadCode, AnswerCode

\* Nobody gets a code that somebody else has.
LEMMA CodesApart ==
  ASSUME LockInv, OneCode, [Next]_vars
  PROVE  \A u, v \in Users : code'[u] = code'[v] => u = v \/ code'[u] = NoCode
<1>1. CASE code' = code
  BY <1>1 DEF OneCode
<1>2. CASE \E r \in Reqs : InsertCode(r)
  BY <1>2 DEF InsertCode, LockInv, Typed, OneCode
<1> QED
  BY <1>1, <1>2
  DEF Next, vars, StartAdd, StartDelete, StartFavorite, Start, InsertRow, DeleteRow,
      CommitAdd, CommitDelete, SetFavorite, Abort, FindCode, RereadCode, AnswerCode

\* An add, a deletion and an update of a favorite begin alike.
LEMMA Started ==
  ASSUME NEW q \in Reqs, StartAdd(q) \/ StartDelete(q) \/ StartFavorite(q)
  PROVE  \E pc \in {"adding", "deleting", "favorite"} : \E u, v : Start(q, pc, u, v)
<1>1. CASE StartAdd(q)
  BY <1>1 DEF StartAdd
<1>2. CASE StartDelete(q)
  BY <1>2 DEF StartDelete
<1>3. CASE StartFavorite(q)
  BY <1>3 DEF StartFavorite
<1> QED
  BY <1>1, <1>2, <1>3

\* A request comes to answer a code by reading it.
LEMMA FoundByReading ==
  ASSUME LockInv, [Next]_vars, NEW r \in Reqs, tx'[r].pc = "found"
  PROVE  \/ tx'[r] = tx[r]
         \/ tx'[r].code = code[tx'[r].me] /\ tx'[r].code # NoCode /\ code' = code
<1>1. CASE tx' = tx
  BY <1>1
<1>2. ASSUME NEW q \in Reqs, FindCode(q) \/ RereadCode(q)
      PROVE  \/ tx'[r] = tx[r]
             \/ tx'[r].code = code[tx'[r].me] /\ tx'[r].code # NoCode /\ code' = code
  BY <1>2 DEF FindCode, RereadCode, Lookup, Record, LockInv, Typed
<1>3. ASSUME NEW q \in Reqs, NEW p \in Pairs, InsertRow(q, p) \/ DeleteRow(q, p)
      PROVE  tx'[r] = tx[r]
  BY <1>3 DEF InsertRow, DeleteRow, LockInv, Typed, TxSet
<1>4. ASSUME NEW q \in Reqs,
             StartAdd(q) \/ StartDelete(q) \/ StartFavorite(q)
      PROVE  tx'[r] = tx[r]
  <2>1. PICK pc \in {"adding", "deleting", "favorite"} : \E u, v : Start(q, pc, u, v)
    BY <1>4, Started
  <2>2. PICK u, v : Start(q, pc, u, v)
    BY <2>1
  <2> QED
    BY <2>2 DEF Start, Record, LockInv, Typed
<1>5. ASSUME NEW q \in Reqs,
             \/ CommitAdd(q) \/ CommitDelete(q) \/ SetFavorite(q) \/ Abort(q)
             \/ AnswerCode(q) \/ InsertCode(q)
      PROVE  tx'[r] = tx[r]
  BY <1>5 DEF CommitAdd, CommitDelete, SetFavorite, Abort, AnswerCode, InsertCode,
              End, Idle, Lookup, Record, LockInv, Typed
<1> QED
  BY <1>1, <1>2, <1>3, <1>4, <1>5 DEF Next, vars

\* A user is answered one code, which is nobody else's (getOrCreateCode).
THEOREM OneCodeAlways == Spec => []OneCode
<1>1. Init => CodeInv
  BY DEF Init, CodeInv, OneCode, Idle, Record
<1>2. LockInv /\ CodeInv /\ [Next]_vars => CodeInv'
  <2> SUFFICES ASSUME LockInv, CodeInv, [Next]_vars PROVE CodeInv'
    OBVIOUS
  <2>1. ASSUME NEW r \in Reqs, tx'[r].pc = "found"
        PROVE  tx'[r].code = code'[tx'[r].me] /\ tx'[r].code # NoCode
    <3>1. CASE tx'[r] = tx[r]
      <4>1. tx[r].me \in Users /\ tx[r].code = code[tx[r].me] /\ tx[r].code # NoCode
        BY <2>1, <3>1 DEF LockInv, Discipline, CodeInv, OneCode
      <4> QED
        BY <3>1, <4>1, CodeStays
    <3> QED
      BY <2>1, <3>1, FoundByReading
  <2> QED
    BY <2>1, CodesApart DEF CodeInv, OneCode
<1>3. CodeInv => OneCode
  BY DEF CodeInv
<1> QED
  BY <1>1, <1>2, <1>3, LocksHold, PTL DEF Spec

\* A code never changes or goes away (the ON DUPLICATE KEY clause).
THEOREM CodesPermanent == Spec => CodePermanent
<1>1. LockInv /\ [Next]_vars => [\A u \in Users : code[u] # NoCode => code'[u] = code[u]]_code
  BY CodeStays
<1> QED
  BY <1>1, LocksHold, PTL DEF Spec, CodePermanent

\* Allocation gives up only after the last attempt, and never for a user who
\* has a code by then (the loop of getOrCreateCode).
THEOREM FailsLate == Spec => FailsOnlyOnCollisions
<1> DEFINE Late ==
      \A r \in Reqs : (tx[r].pc # "failed" /\ tx'[r].pc = "failed") =>
        tx[r].n = MaxAttempts /\ code[tx[r].me] = NoCode
<1>1. LockInv /\ [Next]_vars => [Late]_vars
  <2> SUFFICES ASSUME LockInv, [Next]_vars, NEW r \in Reqs,
                      tx[r].pc # "failed", tx'[r].pc = "failed"
               PROVE  tx[r].n = MaxAttempts /\ code[tx[r].me] = NoCode
    OBVIOUS
  <2>1. tx[r].n \in 0..MaxAttempts
    BY DEF LockInv, Typed, TxSet
  <2>2. CASE RereadCode(r)
    BY <2>1, <2>2, FriendsAssumption DEF RereadCode, Lookup, Record, LockInv, Typed
  <2>3. ASSUME NEW q \in Reqs, NEW p \in Pairs, InsertRow(q, p) \/ DeleteRow(q, p)
        PROVE  FALSE
    BY <2>3 DEF InsertRow, DeleteRow, LockInv, Typed, TxSet
  <2>4. ASSUME NEW q \in Reqs, StartAdd(q) \/ StartDelete(q) \/ StartFavorite(q)
        PROVE  FALSE
    <3>1. PICK pc \in {"adding", "deleting", "favorite"} : \E u, v : Start(q, pc, u, v)
      BY <2>4, Started
    <3>2. PICK u, v : Start(q, pc, u, v)
      BY <3>1
    <3> QED
      BY <3>2 DEF Start, Record, LockInv, Typed
  <2>5. ASSUME NEW q \in Reqs,
               \/ CommitAdd(q) \/ CommitDelete(q) \/ SetFavorite(q) \/ Abort(q)
               \/ AnswerCode(q) \/ InsertCode(q) \/ FindCode(q)
               \/ (q # r /\ RereadCode(q))
        PROVE  FALSE
    BY <2>5 DEF CommitAdd, CommitDelete, SetFavorite, Abort, AnswerCode, InsertCode,
                FindCode, RereadCode, End, Idle, Lookup, Record, LockInv, Typed
  <2> QED
    BY <2>2, <2>3, <2>4, <2>5 DEF Next, vars
<1> QED
  BY <1>1, LocksHold, PTL DEF Spec, FailsOnlyOnCollisions

\* Both directions of a friendship are there or none, and marks are their
\* owner's (createPair, deletePair and updateFavorite together).
THEOREM Friendships == Spec => Friendship
BY MutualAlways, FavoritesOfOwners, PTL DEF Friendship

\* A user has one code for good, and is refused one only when all attempts
\* collided (getOrCreateCode).
THEOREM Codings == Spec => CodesHold
BY OneCodeAlways, CodesPermanent, FailsLate, PTL DEF CodesHold

-----------------------------------------------------------------------------
\* Schedules.  Rows, and what a request that is open has read of its block: all
\* times but the first, which an older server may change meanwhile.
BlockRows == [parent : Moments \cup {0}, times : TimeLists \cup {<<>>}]
BlockRowsKept ==
  /\ block \in [1..MaxBlocks -> BlockRows] /\ meant \in [1..MaxBlocks -> TimeLists \cup {<<>>}]
  /\ mapped \in 0..MaxBlocks /\ (mapped # 0 => IsBlock(mapped))
  /\ saved \subseteq Sections /\ taken \subseteq Sections /\ deleted \subseteq Sections
  /\ close \in BOOLEAN /\ writes \in 0..MaxWrites
\* What was asked for a block, time by time.
AsAsked(row, L) ==
  /\ row.parent \in Moments /\ L \in TimeLists /\ row.parent = L[1]
  /\ row.times \in TimeLists => Len(row.times) = Len(L) /\ \A p \in DOMAIN L : p > 1 => row.times[p] = L[p]
  /\ row.times = <<>> => Len(L) = 1
AsRead ==
  edit.open => /\ edit.block = mapped
               /\ mapped = 0 => edit.seen = <<>>
               /\ mapped # 0 => /\ edit.seen \in TimeLists /\ Len(edit.seen) = Len(meant[mapped])
                                /\ \A p \in DOMAIN edit.seen : p > 1 => edit.seen[p] = meant[mapped][p]
\* A view by the step it has come to.
ViewKind(v) ==
  \/ v.kind = "list" /\ v.pc \in {"matches", "extra", "answered"}
  \/ v.kind = "table" /\ v.pc \in {"table", "parent", "times", "answered"}
  \/ v.kind = "overlap" /\ v.pc \in {"taken", "saved", "answered"} /\ v.about \in Sections
Listed(v) == {l \in (saved \cup taken) \ deleted : FactsOf[l].term \in v.terms}
\* What a view has been answered so far, if nothing was written meanwhile.
SoFar(v) ==
  CASE v.pc = "extra"  -> {m \in {v.now} : close /\ (m \in At(Listed(v)) \/ (mapped # 0 /\ SavedTerm \in v.terms /\ block[mapped].parent = m))}
    [] v.pc = "parent" -> At(saved)
    [] v.pc = "times"  -> At(saved) \cup {block[v.block].parent}
    [] v.pc = "saved"  -> OfCourse(v.about, taken) \X {"official"}
    [] OTHER -> {}
Marks   == Sections \X {"official", "saved"}
ViewSet == [kind : {"list", "table", "overlap"},
            pc : {"idle", "matches", "extra", "table", "parent", "times", "taken", "saved", "answered"},
            terms : SUBSET Nat, now : Moments \cup {0}, about : Sections \cup {0}, block : 0..MaxBlocks,
            got : SUBSET (Moments \cup Marks), past : SUBSET (Moments \cup Marks), same : BOOLEAN]
\* What is answered was there, and nothing is missing if nothing was written;
\* a block that is being read was seen, also if it has been removed.
ViewFits(v) ==
  v.pc # "idle" =>
    /\ ViewKind(v) /\ v.got \subseteq v.past
    /\ v.kind = "list" => v.got \subseteq {v.now}
    /\ v.kind = "overlap" => v.got \subseteq Marks
    /\ v.pc # "answered" =>
         /\ Visible(v) \subseteq v.past /\ (v.same => v.past = Visible(v) /\ v.got = SoFar(v))
    /\ v.pc \in {"parent", "times"} =>
         v.block \in 1..MaxBlocks /\ IsBlock(v.block) /\ ToSet(meant[v.block]) \subseteq v.past /\ (v.same => v.block = mapped)
    /\ v.pc = "answered" /\ v.same => v.got = IF v.kind = "list" THEN v.past \cap {v.now} ELSE v.past
ScheduleInv ==
  /\ BlockRowsKept /\ AsRead /\ view \in ViewSet /\ ViewFits(view)
  /\ \A b \in 1..MaxBlocks : IsBlock(b) => AsAsked(block[b], meant[b])

-----------------------------------------------------------------------------
LEMMA ShortSequences ==
  ASSUME NEW m \in Moments, NEW n \in Moments
  PROVE  /\ <<m>> \o <<>> = <<m>> /\ <<m>> \o <<n>> = <<m, n>>
         /\ Tail(<<m>>) = <<>> /\ Tail(<<m, n>>) = <<n>>
         /\ SubSeq(<<m>>, 2, 1) = <<>> /\ SubSeq(<<m, n>>, 2, 2) = <<n>>
<1>1. <<m>> \in Seq(Moments) /\ <<n>> \in Seq(Moments) /\ <<m, n>> \in Seq(Moments) /\ <<>> \in Seq(Moments)
  OBVIOUS
<1>2. <<m>> \o <<>> = <<m>>
  BY <1>1, ConcatEmptySeq
<1>3. <<m>> \o <<n>> = <<m, n>>
  <2>1. /\ <<m>> \o <<n>> \in Seq(Moments) /\ Len(<<m>> \o <<n>>) = 2
        /\ (<<m>> \o <<n>>)[1] = m /\ (<<m>> \o <<n>>)[2] = n
    BY <1>1, ConcatProperties
  <2>2. PICK s, t : s = <<m>> \o <<n>> /\ t = <<m, n>>
    OBVIOUS
  <2>3. Len(t) = 2 /\ t[1] = m /\ t[2] = n /\ Len(s) = 2 /\ s[1] = m /\ s[2] = n
    BY <2>1, <2>2
  <2>4. s \in Seq(Moments) /\ t \in Seq(Moments)
    BY <1>1, <2>1, <2>2
  <2>5. \A i \in 1..Len(s) : s[i] = t[i]
    BY <2>3
  <2> QED
    BY <2>2, <2>3, <2>4, <2>5, SeqEqual
<1>4. SubSeq(<<m>>, 2, 1) = <<>>
  BY SubSeqEmpty
<1>5. SubSeq(<<m, n>>, 2, 2) = <<n>>
  <2>1. SubSeq(<<m, n>>, 2, 2) \in Seq(Moments) /\ Len(SubSeq(<<m, n>>, 2, 2)) = 1 /\ SubSeq(<<m, n>>, 2, 2)[1] = n
    BY <1>1, SubSeqProperties
  <2>2. PICK s, t : s = SubSeq(<<m, n>>, 2, 2) /\ t = <<n>>
    OBVIOUS
  <2>3. s \in Seq(Moments) /\ t \in Seq(Moments) /\ Len(s) = Len(t) /\ \A i \in 1..Len(s) : s[i] = t[i]
    BY <1>1, <2>1, <2>2
  <2> QED
    BY <2>2, <2>3, SeqEqual
<1>6. Tail(<<m>>) = <<>> /\ Tail(<<m, n>>) = <<n>>
  BY <1>1, <1>4, <1>5, TailIsSubSeq
<1> QED
  BY <1>2, <1>3, <1>4, <1>5, <1>6

LEMMA TimesTyped ==
  ASSUME NEW L \in TimeLists
  PROVE  /\ Len(L) \in {1, 2} /\ DOMAIN L = 1..Len(L) /\ L # <<>> /\ L[1] \in Moments
         /\ \A p \in DOMAIN L : L[p] \in Moments
         /\ Len(L) = 1 => L = <<L[1]>>
         /\ Len(L) = 2 => L = <<L[1], L[2]>> /\ L[2] \in Moments
         /\ <<L[1]>> \in TimeLists /\ Head(L) = L[1]
<1>1. CASE \E m \in Moments : L = <<m>>
  <2>1. PICK m \in Moments : L = <<m>>
    BY <1>1
  <2>2. Len(L) = 1 /\ L[1] = m /\ DOMAIN L = 1..1 /\ Head(L) = m
    BY <2>1
  <2> QED
    BY <2>1, <2>2 DEF TimeLists
<1>2. CASE \E m, n \in Moments : L = <<m, n>>
  <2>1. PICK m, n \in Moments : L = <<m, n>>
    BY <1>2
  <2>2. Len(L) = 2 /\ L[1] = m /\ L[2] = n /\ DOMAIN L = 1..2 /\ Head(L) = m
    BY <2>1
  <2> QED
    BY <2>1, <2>2 DEF TimeLists
<1> QED
  BY <1>1, <1>2 DEF TimeLists

LEMMA TimesEqual ==
  ASSUME NEW L \in TimeLists, NEW M \in TimeLists, Len(L) = Len(M), \A p \in DOMAIN L : L[p] = M[p]
  PROVE  L = M
<1>1. CASE Len(L) = 1
  <2>1. L[1] = M[1]
    BY <1>1, TimesTyped
  <2> QED
    BY <1>1, <2>1, TimesTyped
<1>2. CASE Len(L) = 2
  <2>1. L[1] = M[1] /\ L[2] = M[2]
    BY <1>2, TimesTyped
  <2> QED
    BY <1>2, <2>1, TimesTyped
<1> QED
  BY <1>1, <1>2, TimesTyped

\* A list of times with another first.
LEMMA FirstChanges ==
  ASSUME NEW L \in TimeLists, NEW m \in Moments
  PROVE  /\ [L EXCEPT ![1] = m] \in TimeLists /\ <<m>> \o Tail(L) = [L EXCEPT ![1] = m]
         /\ Len([L EXCEPT ![1] = m]) = Len(L) /\ [L EXCEPT ![1] = m][1] = m
         /\ \A p \in DOMAIN L : p > 1 => [L EXCEPT ![1] = m][p] = L[p]
         /\ DOMAIN [L EXCEPT ![1] = m] = DOMAIN L
<1>1. CASE \E l \in Moments : L = <<l>>
  <2>1. PICK l \in Moments : L = <<l>>
    BY <1>1
  <2>2. [L EXCEPT ![1] = m] = <<m>>
    BY <2>1
  <2>3. <<m>> \o Tail(L) = <<m>>
    BY <2>1, ShortSequences
  <2> QED
    BY <2>1, <2>2, <2>3 DEF TimeLists
<1>2. CASE \E l, n \in Moments : L = <<l, n>>
  <2>1. PICK l, n \in Moments : L = <<l, n>>
    BY <1>2
  <2>2. [L EXCEPT ![1] = m] = <<m, n>>
    BY <2>1
  <2>3. <<m>> \o Tail(L) = <<m, n>>
    BY <2>1, ShortSequences
  <2> QED
    BY <2>1, <2>2, <2>3 DEF TimeLists
<1> QED
  BY <1>1, <1>2 DEF TimeLists

LEMMA TimesGot ==
  ASSUME NEW row \in BlockRows, NEW L, AsAsked(row, L)
  PROVE  GetTimes(row) = L
<1>1. row.parent \in Moments /\ L \in TimeLists /\ row.parent = L[1]
  BY DEF AsAsked
<1>2. CASE row.times = <<>>
  <2>1. L = <<row.parent>>
    BY <1>1, <1>2, TimesTyped DEF AsAsked
  <2>2. SubSeq(row.times, 2, Len(row.times)) = <<>>
    BY <1>2, SubSeqEmpty
  <2> QED
    BY <1>1, <2>1, <2>2, ShortSequences DEF GetTimes
<1>3. CASE row.times \in TimeLists /\ Len(L) = 1
  <2>1. L = <<row.parent>> /\ row.times = <<row.times[1]>> /\ row.times[1] \in Moments
    BY <1>1, <1>3, TimesTyped DEF AsAsked
  <2>2. PICK m \in Moments : row.times = <<m>>
    BY <2>1
  <2>3. SubSeq(row.times, 2, Len(row.times)) = <<>>
    BY <2>2, ShortSequences
  <2> QED
    BY <1>1, <2>1, <2>3, ShortSequences DEF GetTimes
<1>4. CASE row.times \in TimeLists /\ Len(L) = 2
  <2>1. L = <<row.parent, row.times[2]>> /\ row.times = <<row.times[1], row.times[2]>>
        /\ row.times[1] \in Moments /\ row.times[2] \in Moments
    <3>1. Len(row.times) = 2 /\ row.times[2] = L[2]
      BY <1>1, <1>4, TimesTyped DEF AsAsked
    <3>2. PICK M \in TimeLists : M = row.times
      BY <1>4
    <3>3. M = <<M[1], M[2]>> /\ M[1] \in Moments /\ M[2] \in Moments /\ L = <<L[1], L[2]>>
      <4>1. Len(M) = 2
        BY <3>1, <3>2
      <4>2. M = <<M[1], M[2]>> /\ M[1] \in Moments /\ M[2] \in Moments
        BY <4>1, TimesTyped
      <4>3. L = <<L[1], L[2]>>
        BY <1>1, <1>4, TimesTyped
      <4> QED
        BY <4>2, <4>3
    <3> QED
      BY <1>1, <3>1, <3>2, <3>3
  <2>2. PICK m, n \in Moments : row.times = <<m, n>> /\ L = <<row.parent, n>>
    BY <2>1
  <2>3. SubSeq(row.times, 2, Len(row.times)) = <<n>>
    BY <2>2, ShortSequences
  <2> QED
    BY <1>1, <2>2, <2>3, ShortSequences DEF GetTimes
<1> QED
  BY <1>1, <1>2, <1>3, <1>4, TimesTyped DEF BlockRows

LEMMA SetOfTimes ==
  ASSUME NEW L \in TimeLists
  PROVE  ToSet(L) \subseteq Moments /\ L[1] \in ToSet(L) /\ ToSet(L) = {L[1]} \cup ToSet(Tail(L))
<1>1. CASE \E m \in Moments : L = <<m>>
  <2>1. PICK m \in Moments : L = <<m>>
    BY <1>1
  <2>2. Tail(L) = <<>> /\ L[1] = m /\ DOMAIN L = {1} /\ DOMAIN Tail(L) = {}
    BY <2>1, ShortSequences
  <2> QED
    BY <2>1, <2>2 DEF ToSet
<1>2. CASE \E m, n \in Moments : L = <<m, n>>
  <2>1. PICK m, n \in Moments : L = <<m, n>>
    BY <1>2
  <2>2. Tail(L) = <<n>>
    BY <2>1, ShortSequences
  <2>3. DOMAIN L = {1, 2} /\ L[1] = m /\ L[2] = n /\ DOMAIN Tail(L) = {1} /\ Tail(L)[1] = n
    BY <2>1, <2>2
  <2>4. ToSet(L) = {m, n} /\ ToSet(Tail(L)) = {n}
    BY <2>3 DEF ToSet
  <2> QED
    BY <2>3, <2>4
<1> QED
  BY <1>1, <1>2 DEF TimeLists

SeesTimes ==
  BlockRowsKept => \A v :
    v.kind \in {"list", "table", "overlap"} /\ (v.kind = "overlap" => v.about \in Sections) =>
      /\ Visible(v) \in SUBSET (Moments \cup Marks) /\ At(saved) \subseteq Moments
      /\ OfBlock(mapped) \subseteq Moments /\ (v.kind \in {"list", "table"} => Visible(v) \subseteq Moments)
      /\ v.kind = "overlap" => Visible(v) \subseteq Marks
LEMMA VisibleTyped == SeesTimes
<1> SUFFICES ASSUME BlockRowsKept, NEW v, v.kind \in {"list", "table", "overlap"}, v.kind = "overlap" => v.about \in Sections
    PROVE  /\ Visible(v) \in SUBSET (Moments \cup Marks) /\ At(saved) \subseteq Moments
           /\ OfBlock(mapped) \subseteq Moments /\ (v.kind \in {"list", "table"} => Visible(v) \subseteq Moments)
           /\ v.kind = "overlap" => Visible(v) \subseteq Marks
  BY DEF SeesTimes
<1>1. \A S \in SUBSET Sections : At(S) \subseteq Moments
  BY SchedulesAssumption DEF At
<1>2. OfBlock(mapped) \subseteq Moments
  <2>1. CASE mapped = 0
    BY <2>1 DEF OfBlock
  <2>2. CASE mapped # 0
    <3>1. mapped \in 1..MaxBlocks
      BY <2>2, SchedulesAssumption DEF BlockRowsKept
    <3>2. meant[mapped] \in TimeLists \cup {<<>>}
      BY <3>1 DEF BlockRowsKept
    <3>3. ToSet(meant[mapped]) \subseteq Moments
      BY <3>2, SetOfTimes DEF ToSet
    <3> QED
      BY <2>2, <3>3 DEF OfBlock
  <2> QED
    BY <2>1, <2>2
<1>3. BusyAt(v.terms) \subseteq Moments /\ TableShows \subseteq Moments
  <2>1. {l \in (saved \cup taken) \ deleted : FactsOf[l].term \in v.terms} \in SUBSET Sections
    BY DEF BlockRowsKept
  <2>2. {FactsOf[l].at : l \in {k \in (saved \cup taken) \ deleted : FactsOf[k].term \in v.terms}} \subseteq Moments
    BY <2>1, SchedulesAssumption
  <2> QED
    BY <1>1, <1>2, <2>2 DEF BusyAt, TableShows, BlockRowsKept
<1>4. OfCourse(v.about, taken) \subseteq Sections /\ OfCourse(v.about, saved) \subseteq Sections
  BY DEF OfCourse, BlockRowsKept
<1>5. At(saved) \subseteq Moments
  BY <1>1 DEF BlockRowsKept
<1>6. CASE v.kind = "list"
  <2>1. Visible(v) \subseteq BusyAt(v.terms)
    BY <1>6 DEF Visible
  <2> QED
    BY <1>2, <1>3, <1>5, <1>6, <2>1
<1>7. CASE v.kind = "table"
  <2>1. Visible(v) = TableShows
    BY <1>7 DEF Visible
  <2> QED
    BY <1>2, <1>3, <1>5, <1>7, <2>1
<1>8. CASE v.kind = "overlap"
  <2>1. Visible(v) = OfCourse(v.about, taken) \X {"official"} \cup OfCourse(v.about, saved) \X {"saved"}
    BY <1>8 DEF Visible
  <2>2. Visible(v) \subseteq Marks
    BY <1>4, <2>1 DEF Marks
  <2> QED
    BY <1>2, <1>5, <1>8, <2>2
<1> QED
  BY <1>6, <1>7, <1>8

\* A row that is written: a request that looks meanwhile sees what was there
\* and what is.
BlocksGrow ==
  \A b \in 1..MaxBlocks : IsBlock(b) => IsBlock(b)' /\ (meant'[b] = meant[b] \/ mapped' = b)

LEMMA ViewWritten ==
  ASSUME ScheduleInv, BlockRowsKept', Write, BlocksGrow
  PROVE  view' \in ViewSet /\ ViewFits(view)'
<1>1. PICK v : v = view
  OBVIOUS
<1>2. PICK w : w = view'
  OBVIOUS
<1>3. v \in ViewSet /\ ViewFits(v)
  BY <1>1 DEF ScheduleInv
<1>4. CASE ~Looking
  <2>1. w = v /\ v.pc \in {"idle", "answered"}
    BY <1>1, <1>2, <1>4 DEF Write, Looking
  <2>2. ViewFits(w)'
    BY <1>3, <2>1 DEF ViewFits, ViewKind
  <2> QED
    BY <1>2, <1>3, <2>1, <2>2
<1>5. CASE Looking
  <2>1. w = [v EXCEPT !.same = FALSE, !.past = v.past \cup Visible(v)'] /\ v.pc \notin {"idle", "answered"}
    BY <1>1, <1>2, <1>5 DEF Write, Looking
  <2>2. PICK S : S = Visible(v)'
    OBVIOUS
  <2>3. ViewKind(v)
    BY <1>3, <2>1 DEF ViewFits
  <2>4. S \in SUBSET (Moments \cup Marks)
    <3>1. v.kind \in {"list", "table", "overlap"} /\ (v.kind = "overlap" => v.about \in Sections)
      BY <2>3 DEF ViewKind
    <3>2. SeesTimes'
      BY VisibleTyped, PTL
    <3> QED
      BY <2>2, <3>1, <3>2 DEF SeesTimes
  <2>5. /\ w \in ViewSet /\ w.same = FALSE /\ w.past = v.past \cup S /\ w.kind = v.kind /\ w.pc = v.pc
        /\ w.terms = v.terms /\ w.now = v.now /\ w.about = v.about /\ w.block = v.block /\ w.got = v.got
    BY <1>3, <2>1, <2>2, <2>4 DEF ViewSet
  <2>6. Visible(w)' = S
    BY <2>2, <2>5 DEF Visible
  <2>7. w.pc \in {"parent", "times"} =>
          w.block \in 1..MaxBlocks /\ IsBlock(w.block)' /\ ToSet(meant'[w.block]) \subseteq w.past
    <3> SUFFICES ASSUME w.pc \in {"parent", "times"}
                 PROVE  w.block \in 1..MaxBlocks /\ IsBlock(w.block)' /\ ToSet(meant'[w.block]) \subseteq w.past
      OBVIOUS
    <3>1. v.block \in 1..MaxBlocks /\ IsBlock(v.block) /\ ToSet(meant[v.block]) \subseteq v.past
      BY <1>3, <2>5 DEF ViewFits
    <3>2. IsBlock(v.block)' /\ (meant'[v.block] = meant[v.block] \/ mapped' = v.block)
      BY <3>1 DEF BlocksGrow
    <3>3. v.kind = "table"
      BY <2>3, <2>5 DEF ViewKind
    <3>4. OfBlock(mapped)' \subseteq S
      BY <2>2, <3>3 DEF Visible, TableShows
    <3>5. mapped' = v.block => ToSet(meant'[v.block]) \subseteq S
      BY <3>1, <3>4 DEF OfBlock
    <3> QED
      BY <2>5, <3>1, <3>2, <3>5
  <2>8. ViewFits(w)'
    BY <1>3, <2>1, <2>5, <2>6, <2>7 DEF ViewFits, ViewKind
  <2> QED
    BY <1>2, <2>5, <2>8
<1> QED
  BY <1>4, <1>5

\* What is written in a block's rows is what was asked for.
Rows(b, row, L) == block' = [block EXCEPT ![b] = row] /\ meant' = [meant EXCEPT ![b] = L]

LEMMA BlockWritten ==
  ASSUME ScheduleInv, NEW b \in 1..MaxBlocks, NEW row \in BlockRows, NEW L, Rows(b, row, L), AsAsked(row, L),
         IsBlock(b) => b = mapped, mapped' = b, UNCHANGED <<saved, taken, deleted, close>>, Write
  PROVE  /\ BlockRowsKept' /\ BlocksGrow
         /\ \A c \in 1..MaxBlocks : IsBlock(c)' => AsAsked(block'[c], meant'[c])
<1>1. /\ BlockRowsKept /\ row # NoBlockRow /\ L \in TimeLists
      /\ \A c \in 1..MaxBlocks : IsBlock(c) => AsAsked(block[c], meant[c])
  BY SchedulesAssumption DEF ScheduleInv, AsAsked, NoBlockRow
<1>2. /\ block'[b] = row /\ meant'[b] = L
      /\ \A c \in 1..MaxBlocks : c # b => block'[c] = block[c] /\ meant'[c] = meant[c]
  BY <1>1 DEF BlockRowsKept, Rows
<1>3. block' \in [1..MaxBlocks -> BlockRows] /\ meant' \in [1..MaxBlocks -> TimeLists \cup {<<>>}]
  BY <1>1 DEF BlockRowsKept, Rows
<1>4. writes' \in 0..MaxWrites
  BY <1>1, SchedulesAssumption DEF BlockRowsKept, Write
<1>5. IsBlock(b)'
  BY <1>1, <1>2 DEF IsBlock
<1>6. BlockRowsKept'
  BY <1>1, <1>3, <1>4, <1>5, SchedulesAssumption DEF BlockRowsKept
<1>7. BlocksGrow
  BY <1>1, <1>2, <1>5 DEF BlocksGrow, IsBlock
<1> QED
  BY <1>1, <1>2, <1>6, <1>7 DEF IsBlock

LEMMA RowsRest ==
  ASSUME ScheduleInv, Write, UNCHANGED <<block, meant>>, mapped' \in {mapped, 0}, close' \in BOOLEAN,
         saved' \subseteq Sections, taken' \subseteq Sections, deleted' \subseteq Sections,
         (edit' = edit /\ mapped' = mapped) \/ edit' = NoEdit
  PROVE  ScheduleInv'
<1>1. /\ BlockRowsKept /\ AsRead /\ BlocksGrow
      /\ \A b \in 1..MaxBlocks : IsBlock(b) => AsAsked(block[b], meant[b])
  BY DEF ScheduleInv, BlocksGrow, IsBlock
<1>2. writes' \in 0..MaxWrites
  BY <1>1, SchedulesAssumption DEF BlockRowsKept, Write
<1>3. BlockRowsKept'
  BY <1>1, <1>2, SchedulesAssumption DEF BlockRowsKept, IsBlock
<1>4. AsRead'
  BY <1>1 DEF AsRead, NoEdit
<1>5. (view \in ViewSet /\ ViewFits(view))'
  BY <1>1, <1>3, ViewWritten
<1>6. \A b \in 1..MaxBlocks : IsBlock(b)' => AsAsked(block'[b], meant'[b])
  BY <1>1 DEF IsBlock
<1> QED
  BY <1>3, <1>4, <1>5, <1>6 DEF ScheduleInv

LEMMA CreateStep ==
  ASSUME ScheduleInv, NEW b \in 1..MaxBlocks,
         \/ \E L \in TimeLists : CreateBlock(b, L)
         \/ \E m \in Moments : OldCreate(b, m)
  PROVE  ScheduleInv'
<1>1. PICK row \in BlockRows, L \in TimeLists :
        /\ Rows(b, row, L) /\ AsAsked(row, L) /\ ~IsBlock(b) /\ mapped' = b /\ ~edit'.open
        /\ UNCHANGED <<saved, taken, deleted, close>> /\ Write
  <2>1. ASSUME NEW L \in TimeLists, CreateBlock(b, L)
        PROVE  \E row \in BlockRows :
                 /\ Rows(b, row, L) /\ AsAsked(row, L) /\ ~IsBlock(b) /\ mapped' = b /\ ~edit'.open
                 /\ UNCHANGED <<saved, taken, deleted, close>> /\ Write
    <3>1. PICK row : row = [parent |-> L[1], times |-> L]
      OBVIOUS
    <3>2. row \in BlockRows /\ AsAsked(row, L)
      BY <3>1, TimesTyped DEF BlockRows, AsAsked
    <3> QED
      BY <2>1, <3>1, <3>2 DEF CreateBlock, Rows, NoEdit
  <2>2. ASSUME NEW m \in Moments, OldCreate(b, m)
        PROVE  \E row \in BlockRows :
                 /\ Rows(b, row, <<m>>) /\ AsAsked(row, <<m>>) /\ ~IsBlock(b) /\ mapped' = b /\ ~edit'.open
                 /\ UNCHANGED <<saved, taken, deleted, close>> /\ Write
    <3>1. PICK row : row = [parent |-> m, times |-> <<>>]
      OBVIOUS
    <3>2. <<m>> \in TimeLists /\ <<>> \notin TimeLists /\ Len(<<m>>) = 1 /\ <<m>>[1] = m
      BY TimesTyped DEF TimeLists
    <3>3. row \in BlockRows /\ AsAsked(row, <<m>>)
      BY <3>1, <3>2 DEF BlockRows, AsAsked
    <3> QED
      BY <2>2, <3>1, <3>3 DEF OldCreate, Rows
  <2> QED
    BY <2>1, <2>2 DEF AsAsked
<1>2. BlockRowsKept' /\ BlocksGrow /\ \A c \in 1..MaxBlocks : IsBlock(c)' => AsAsked(block'[c], meant'[c])
  BY <1>1, BlockWritten
<1>3. (view \in ViewSet /\ ViewFits(view))'
  BY <1>1, <1>2, ViewWritten
<1>4. AsRead'
  BY <1>1 DEF AsRead
<1> QED
  BY <1>2, <1>3, <1>4 DEF ScheduleInv

LEMMA UpdateStep ==
  ASSUME ScheduleInv, \/ \E body \in Bodies : UpdateBlock(body)
                      \/ \E m \in Moments : OldUpdate(m)
  PROVE  ScheduleInv'
<1>1. BlockRowsKept /\ AsRead
  BY DEF ScheduleInv
<1>2. mapped # 0 => mapped \in 1..MaxBlocks /\ IsBlock(mapped) /\ block[mapped] \in BlockRows /\ AsAsked(block[mapped], meant[mapped])
  BY SchedulesAssumption DEF ScheduleInv, BlockRowsKept
<1>3. PICK b \in 1..MaxBlocks, row \in BlockRows, L \in TimeLists :
        /\ Rows(b, row, L) /\ AsAsked(row, L) /\ mapped = b /\ mapped' = b /\ AsRead'
        /\ UNCHANGED <<saved, taken, deleted, close>> /\ Write
  <2>1. ASSUME NEW body \in Bodies, UpdateBlock(body)
        PROVE  \E b \in 1..MaxBlocks, row \in BlockRows, L \in TimeLists :
                 /\ Rows(b, row, L) /\ AsAsked(row, L) /\ mapped = b /\ mapped' = b /\ AsRead'
                 /\ UNCHANGED <<saved, taken, deleted, close>> /\ Write
    <3>1. PICK b, S, M : b = edit.block /\ S = edit.seen /\ M = meant[b]
      OBVIOUS
    <3>2. /\ edit.open /\ b = mapped /\ mapped # 0 /\ b \in 1..MaxBlocks /\ AsAsked(block[b], M) /\ block[b] \in BlockRows
          /\ S \in TimeLists /\ M \in TimeLists /\ Len(S) = Len(M) /\ \A p \in DOMAIN S : p > 1 => S[p] = M[p]
      BY <1>1, <1>2, <2>1, <3>1 DEF UpdateBlock, AsRead, AsAsked
    <3>3. PICK L : L = ApplyUpdate(S, body)
      OBVIOUS
    <3>4. PICK N : N = IF body.times # <<>> THEN body.times
                       ELSE IF body.first # 0 THEN [M EXCEPT ![1] = body.first]
                       ELSE IF M[1] # S[1] THEN S ELSE M
      OBVIOUS
    <3>5. L \in TimeLists /\ N = L
      <4>1. CASE body.times # <<>>
        BY <3>3, <3>4, <4>1 DEF Bodies, ApplyUpdate
      <4>2. CASE body.times = <<>> /\ body.first # 0
        <5>1. PICK m : m = body.first
          OBVIOUS
        <5>2. m \in Moments
          BY <4>2, <5>1, TimesTyped DEF Bodies
        <5>3. L = [S EXCEPT ![1] = m] /\ N = [M EXCEPT ![1] = m]
          BY <3>2, <3>3, <3>4, <4>2, <5>1, <5>2, FirstChanges DEF ApplyUpdate
        <5>4. L \in TimeLists /\ N \in TimeLists /\ Len(L) = Len(N) /\ DOMAIN L = DOMAIN S /\ L[1] = m /\ N[1] = m
              /\ (\A p \in DOMAIN S : p > 1 => L[p] = S[p]) /\ (\A p \in DOMAIN M : p > 1 => N[p] = M[p])
          BY <3>2, <5>2, <5>3, FirstChanges
        <5>5. DOMAIN S = 1..Len(S) /\ DOMAIN M = 1..Len(S)
          BY <3>2, TimesTyped
        <5>6. ASSUME NEW p \in DOMAIN L PROVE L[p] = N[p]
          BY <3>2, <5>4, <5>5
        <5> QED
          BY <5>4, <5>6, TimesEqual
      <4>3. CASE body.times = <<>> /\ body.first = 0
        <5>1. S[1] \in Moments /\ Head(S) = S[1]
          BY <3>2, TimesTyped
        <5>2. PICK m \in Moments : m = S[1]
          BY <5>1
        <5>3. [S EXCEPT ![1] = m] = S
          <6>1. PICK T : T = [S EXCEPT ![1] = m]
            OBVIOUS
          <6>2. T \in TimeLists /\ Len(T) = Len(S) /\ DOMAIN T = DOMAIN S /\ T[1] = m
                /\ \A p \in DOMAIN S : p > 1 => T[p] = S[p]
            BY <3>2, <6>1, FirstChanges
          <6>3. ASSUME NEW p \in DOMAIN T PROVE T[p] = S[p]
            BY <3>2, <5>2, <6>2, TimesTyped
          <6> QED
            BY <3>2, <6>1, <6>2, <6>3, TimesEqual
        <5>4. L = S
          BY <3>2, <3>3, <4>3, <5>1, <5>2, <5>3, FirstChanges DEF ApplyUpdate
        <5>5. M[1] = S[1] => M = S
          <6>1. ASSUME M[1] = S[1], NEW p \in DOMAIN S PROVE S[p] = M[p]
            BY <3>2, <6>1, TimesTyped
          <6> QED
            BY <3>2, <6>1, TimesEqual
        <5> QED
          BY <3>2, <3>4, <4>3, <5>4, <5>5
      <4> QED
        BY <4>1, <4>2, <4>3
    <3>6. PICK row : row = UpdateRows(block[b], L)
      OBVIOUS
    <3>7. row \in BlockRows /\ row.parent = L[1] /\ row.times = L
      BY <3>2, <3>5, <3>6, TimesTyped DEF UpdateRows, BlockRows
    <3>8. AsAsked(row, L)
      BY <3>5, <3>7, TimesTyped DEF AsAsked
    <3>9. Rows(b, row, L)
      BY <2>1, <3>1, <3>3, <3>4, <3>5, <3>6 DEF UpdateBlock, Rows
    <3> QED
      BY <2>1, <3>2, <3>5, <3>7, <3>8, <3>9 DEF UpdateBlock, AsRead, NoEdit
  <2>2. ASSUME NEW m \in Moments, OldUpdate(m)
        PROVE  \E b \in 1..MaxBlocks, row \in BlockRows, L \in TimeLists :
                 /\ Rows(b, row, L) /\ AsAsked(row, L) /\ mapped = b /\ mapped' = b /\ AsRead'
                 /\ UNCHANGED <<saved, taken, deleted, close>> /\ Write
    <3>1. PICK b, M, old : b = mapped /\ M = meant[b] /\ old = block[b]
      OBVIOUS
    <3>2. b # 0 /\ b \in 1..MaxBlocks /\ old \in BlockRows /\ AsAsked(old, M) /\ M \in TimeLists
      BY <1>2, <2>2, <3>1 DEF OldUpdate, AsAsked
    <3>3. PICK row, L : row = [old EXCEPT !.parent = m] /\ L = [M EXCEPT ![1] = m]
      OBVIOUS
    <3>4. row \in BlockRows /\ row.parent = m /\ row.times = old.times
      BY <3>2, <3>3 DEF BlockRows
    <3>5. L \in TimeLists /\ Len(L) = Len(M) /\ L[1] = m /\ DOMAIN L = DOMAIN M /\ \A p \in DOMAIN M : p > 1 => L[p] = M[p]
      BY <3>2, <3>3, FirstChanges
    <3>6. AsAsked(row, L)
      BY <3>2, <3>4, <3>5 DEF AsAsked
    <3>7. Rows(b, row, L)
      BY <2>2, <3>1, <3>3 DEF OldUpdate, Rows
    <3>8. meant'[b] = L
      BY <1>1, <3>2, <3>7 DEF Rows, BlockRowsKept
    <3>9. edit' = edit /\ mapped' = mapped
      BY <2>2 DEF OldUpdate
    <3>10. AsRead'
      <4>1. ASSUME edit.open
            PROVE  /\ edit.seen \in TimeLists /\ Len(edit.seen) = Len(L) /\ edit.block = b
                   /\ \A p \in DOMAIN edit.seen : p > 1 => edit.seen[p] = L[p]
        <5>1. /\ edit.seen \in TimeLists /\ Len(edit.seen) = Len(M) /\ edit.block = b
              /\ \A p \in DOMAIN edit.seen : p > 1 => edit.seen[p] = M[p]
          BY <1>1, <3>1, <3>2, <4>1 DEF AsRead
        <5>2. DOMAIN edit.seen = DOMAIN M
          BY <3>2, <5>1, TimesTyped
        <5> QED
          BY <3>5, <5>1, <5>2
      <4> QED
        BY <3>1, <3>2, <3>8, <3>9, <4>1 DEF AsRead
    <3> QED
      BY <2>2, <3>1, <3>2, <3>4, <3>5, <3>6, <3>7, <3>10 DEF OldUpdate
  <2> QED
    BY <2>1, <2>2
<1>4. BlockRowsKept' /\ BlocksGrow /\ \A c \in 1..MaxBlocks : IsBlock(c)' => AsAsked(block'[c], meant'[c])
  BY <1>3, BlockWritten
<1>5. (view \in ViewSet /\ ViewFits(view))'
  BY <1>3, <1>4, ViewWritten
<1> QED
  BY <1>3, <1>4, <1>5 DEF ScheduleInv

\* Steps of a request that looks change nothing else.
LEMMA RowsUnchanged ==
  ASSUME ScheduleInv, UNCHANGED <<timetableVars, meant, writes>>, AsRead', NEW w, view' = w, w \in ViewSet, ViewFits(w)
  PROVE  ScheduleInv'
<1>1. BlockRowsKept' /\ \A b \in 1..MaxBlocks : IsBlock(b)' => AsAsked(block'[b], meant'[b])
  BY DEF ScheduleInv, timetableVars, BlockRowsKept, IsBlock
<1>2. Visible(w)' = Visible(w) /\ SoFar(w)' = SoFar(w)
  BY DEF timetableVars, Visible, BusyAt, TableShows, OfBlock, SoFar, Listed
<1>3. ViewFits(w)'
  BY <1>2 DEF timetableVars, ViewFits, IsBlock
<1> QED
  BY <1>1, <1>3 DEF ScheduleInv

LEMMA LookStep ==
  ASSUME ScheduleInv, NEW v \in ViewSet, ViewKind(v), v.pc \in {"matches", "table", "taken"},
         v.got = {}, Look(v)
  PROVE  ScheduleInv'
<1>1. PICK S : S = Visible(v)
  OBVIOUS
<1>2. PICK w : w = [v EXCEPT !.past = S]
  OBVIOUS
<1>3. S \in SUBSET (Moments \cup Marks)
  BY <1>1, VisibleTyped DEF ScheduleInv, SeesTimes, ViewKind
<1>4. /\ w \in ViewSet /\ w.past = S /\ w.kind = v.kind /\ w.pc = v.pc /\ w.terms = v.terms /\ w.now = v.now
      /\ w.about = v.about /\ w.got = {}
  BY <1>2, <1>3 DEF ViewSet
<1>5. Visible(w) = S
  BY <1>1, <1>4 DEF Visible
<1>6. ViewFits(w)
  BY <1>4, <1>5 DEF ViewFits, ViewKind, SoFar
<1>7. view' = w /\ UNCHANGED <<timetableVars, edit, meant, writes>>
  BY <1>1, <1>2 DEF Look
<1>8. AsRead'
  BY <1>7 DEF ScheduleInv, AsRead, timetableVars
<1> QED
  BY <1>4, <1>6, <1>7, <1>8, RowsUnchanged

\* A step that answers more of a request.
LEMMA ReadStep ==
  ASSUME ScheduleInv, NEW pc, NEW w, Read(pc, w), w \in ViewSet, ViewFits(w)
  PROVE  ScheduleInv'
<1>1. AsRead'
  BY DEF ScheduleInv, AsRead, timetableVars, Read
<1> QED
  BY <1>1, RowsUnchanged DEF Read

LEMMA GetStep ==
  ASSUME ScheduleInv,
         \/ \E terms \in SUBSET {FactsOf[l].term : l \in Sections} \ {{}}, now \in Moments : GetFriends(terms, now)
         \/ GetTimetable
         \/ \E l \in Sections : GetOverlaps(l)
  PROVE  ScheduleInv'
<1>1. NoView \in ViewSet
  BY SchedulesAssumption DEF NoView, ViewSet, Marks
<1>2. ASSUME NEW terms \in SUBSET {FactsOf[l].term : l \in Sections}, NEW now \in Moments, GetFriends(terms, now)
      PROVE  ScheduleInv'
  <2>1. PICK v : v = [NoView EXCEPT !.kind = "list", !.pc = "matches", !.terms = terms, !.now = now]
    OBVIOUS
  <2>2. terms \in SUBSET Nat
    BY SchedulesAssumption
  <2>3. v \in ViewSet /\ v.kind = "list" /\ v.pc = "matches" /\ v.got = {}
    BY <1>1, <2>1, <2>2 DEF NoView, ViewSet
  <2>4. Look(v)
    BY <1>2, <2>1 DEF GetFriends
  <2> QED
    BY <2>3, <2>4, LookStep DEF ViewKind
<1>3. ASSUME GetTimetable PROVE ScheduleInv'
  <2>1. PICK v : v = [NoView EXCEPT !.kind = "table", !.pc = "table"]
    OBVIOUS
  <2>2. v \in ViewSet /\ v.kind = "table" /\ v.pc = "table" /\ v.got = {}
    BY <1>1, <2>1 DEF NoView, ViewSet
  <2>3. Look(v)
    BY <1>3, <2>1 DEF GetTimetable
  <2> QED
    BY <2>2, <2>3, LookStep DEF ViewKind
<1>4. ASSUME NEW l \in Sections, GetOverlaps(l) PROVE ScheduleInv'
  <2>1. PICK v : v = [NoView EXCEPT !.kind = "overlap", !.pc = "taken", !.about = l]
    OBVIOUS
  <2>2. v \in ViewSet /\ v.kind = "overlap" /\ v.pc = "taken" /\ v.about = l /\ v.got = {}
    BY <1>1, <2>1 DEF NoView, ViewSet
  <2>3. Look(v)
    BY <1>4, <2>1 DEF GetOverlaps
  <2> QED
    BY <2>2, <2>3, LookStep DEF ViewKind
<1> QED
  BY <1>2, <1>3, <1>4

LEMMA MappedTimes ==
  ASSUME ScheduleInv, mapped # 0
  PROVE  /\ mapped \in 1..MaxBlocks /\ IsBlock(mapped) /\ block[mapped] \in BlockRows
         /\ meant[mapped] \in TimeLists /\ AsAsked(block[mapped], meant[mapped])
         /\ OfBlock(mapped) = ToSet(meant[mapped]) /\ block[mapped].parent \in OfBlock(mapped)
         /\ \A p \in DOMAIN block[mapped].times : p > 1 => block[mapped].times[p] \in OfBlock(mapped)
<1>1. mapped \in 1..MaxBlocks /\ IsBlock(mapped) /\ block[mapped] \in BlockRows /\ AsAsked(block[mapped], meant[mapped])
  BY SchedulesAssumption DEF ScheduleInv, BlockRowsKept
<1>2. PICK L, row : L = meant[mapped] /\ row = block[mapped]
  OBVIOUS
<1>3. L \in TimeLists /\ AsAsked(row, L) /\ row.parent = L[1]
  BY <1>1, <1>2 DEF AsAsked
<1>4. row.parent \in ToSet(L)
  BY <1>3, SetOfTimes
<1>5. ASSUME NEW p \in DOMAIN row.times, p > 1 PROVE row.times[p] \in ToSet(L)
  <2>1. row.times \in TimeLists
    <3>1. row.times = <<>> => DOMAIN row.times = {}
      OBVIOUS
    <3> QED
      BY <1>1, <1>2, <1>5, <3>1 DEF BlockRows
  <2>2. DOMAIN row.times = 1..Len(row.times) /\ DOMAIN L = 1..Len(L)
    BY <1>3, <2>1, TimesTyped
  <2>3. p \in DOMAIN L /\ row.times[p] = L[p]
    BY <1>3, <1>5, <2>1, <2>2 DEF AsAsked
  <2> QED
    BY <2>3 DEF ToSet
<1> QED
  BY <1>1, <1>2, <1>3, <1>4, <1>5 DEF OfBlock

\* Who is busy now, in two statements.
LEMMA MatchesStep == ScheduleInv /\ Matches => ScheduleInv'
<1> SUFFICES ASSUME ScheduleInv, Matches PROVE ScheduleInv'
  OBVIOUS
<1>1. PICK v : v = view
  OBVIOUS
<1>2. v \in ViewSet /\ ViewFits(v) /\ v.pc = "matches" /\ v.kind = "list"
  BY <1>1 DEF ScheduleInv, ViewFits, ViewKind, Matches, Read
<1>3. PICK G : G = {m \in {v.now} : close /\ (m \in At(Listed(v)) \/ (mapped # 0 /\ SavedTerm \in v.terms /\ block[mapped].parent = m))}
  OBVIOUS
<1>4. PICK w : w = [v EXCEPT !.pc = "extra", !.got = G]
  OBVIOUS
<1>5. Read("matches", w)
  <2>1. G = IF close /\ (v.now \in At(Listed(v)) \/ (mapped # 0 /\ SavedTerm \in v.terms /\ block[mapped].parent = v.now))
            THEN {v.now} ELSE {}
    BY <1>3
  <2> QED
    BY <1>1, <1>4, <2>1 DEF Matches, Listed
<1>6. G \subseteq Visible(v)
  <2>1. SUFFICES ASSUME v.now \in G PROVE v.now \in BusyAt(v.terms) /\ close
    BY <1>2, <1>3 DEF Visible
  <2>2. CASE v.now \in At(Listed(v))
    BY <1>3, <2>1, <2>2 DEF BusyAt, At, Listed
  <2>3. CASE mapped # 0 /\ SavedTerm \in v.terms /\ block[mapped].parent = v.now
    BY <1>3, <2>1, <2>3, MappedTimes DEF BusyAt
  <2> QED
    BY <1>3, <2>1, <2>2, <2>3
<1>7. G \subseteq v.past /\ Visible(v) \subseteq v.past /\ (v.same => v.past = Visible(v))
  BY <1>2, <1>6 DEF ViewFits
<1>8. /\ w \in ViewSet /\ w.past = v.past /\ w.kind = "list" /\ w.pc = "extra" /\ w.terms = v.terms /\ w.now = v.now
      /\ w.about = v.about /\ w.got = G /\ w.same = v.same
  BY <1>2, <1>4, <1>7 DEF ViewSet
<1>9. Visible(w) = Visible(v) /\ SoFar(w) = G
  BY <1>2, <1>3, <1>8 DEF Visible, SoFar, Listed
<1>10. ViewFits(w)
  BY <1>3, <1>7, <1>8, <1>9 DEF ViewFits, ViewKind
<1> QED
  BY <1>5, <1>8, <1>10, ReadStep

LEMMA ExtraMatchesStep == ScheduleInv /\ ExtraMatches => ScheduleInv'
<1> SUFFICES ASSUME ScheduleInv, ExtraMatches PROVE ScheduleInv'
  OBVIOUS
<1>1. PICK v : v = view
  OBVIOUS
<1>2. v \in ViewSet /\ ViewFits(v) /\ v.pc = "extra" /\ v.kind = "list"
  BY <1>1 DEF ScheduleInv, ViewFits, ViewKind, ExtraMatches, Read
<1>3. PICK found \in BOOLEAN : found = (close /\ mapped # 0 /\ SavedTerm \in v.terms /\ LaterChild(block[mapped], v.now))
  OBVIOUS
<1>4. PICK G : G = IF found THEN v.got \cup {v.now} ELSE v.got
  OBVIOUS
<1>5. PICK w : w = [v EXCEPT !.pc = "answered", !.got = G]
  OBVIOUS
<1>6. Read("extra", w)
  BY <1>1, <1>3, <1>4, <1>5 DEF ExtraMatches
<1>7. Visible(v) \subseteq v.past /\ v.got \subseteq v.past /\ v.got \subseteq {v.now}
      /\ (v.same => v.past = Visible(v) /\ v.got = SoFar(v))
  BY <1>2 DEF ViewFits
<1>8. found => v.now \in Visible(v)
  <2>1. ASSUME found PROVE v.now \in OfBlock(mapped) /\ close /\ SavedTerm \in v.terms
    BY <1>3, <2>1, MappedTimes DEF LaterChild
  <2> QED
    BY <1>2, <2>1 DEF Visible, BusyAt
<1>9. G \subseteq v.past /\ G \subseteq {v.now}
  BY <1>4, <1>7, <1>8
<1>10. ASSUME v.same, v.now \in Visible(v) PROVE v.now \in G
  <2>1. close /\ v.now \in BusyAt(v.terms)
    BY <1>2, <1>10 DEF Visible
  <2>2. CASE v.now \in At(Listed(v))
    <3>1. v.now \in SoFar(v)
      BY <1>2, <2>1, <2>2 DEF SoFar
    <3> QED
      BY <1>4, <1>7, <1>10, <3>1
  <2>3. CASE SavedTerm \in v.terms /\ v.now \in OfBlock(mapped)
    <3>1. mapped # 0
      BY <2>3 DEF OfBlock
    <3>2. PICK L, row : L = meant[mapped] /\ row = block[mapped]
      OBVIOUS
    <3>3. L \in TimeLists /\ AsAsked(row, L) /\ row \in BlockRows /\ v.now \in ToSet(L)
      BY <2>3, <3>1, <3>2, MappedTimes
    <3>4. PICK p \in DOMAIN L : v.now = L[p]
      BY <3>3 DEF ToSet
    <3>5. DOMAIN L = 1..Len(L) /\ Len(L) \in {1, 2}
      BY <3>3, TimesTyped
    <3>6. CASE p = 1
      <4>1. row.parent = v.now
        BY <3>3, <3>4, <3>6 DEF AsAsked
      <4>2. v.now \in SoFar(v)
        BY <1>2, <2>1, <2>3, <3>1, <3>2, <4>1 DEF SoFar
      <4> QED
        BY <1>4, <1>7, <1>10, <4>2
    <3>7. CASE p # 1
      <4>1. p > 1 /\ Len(L) = 2
        BY <3>5, <3>7
      <4>2. row.times \in TimeLists /\ Len(row.times) = Len(L) /\ row.times[p] = L[p]
        BY <3>3, <3>4, <4>1 DEF AsAsked, BlockRows
      <4>3. p \in DOMAIN row.times
        BY <3>5, <4>2, TimesTyped
      <4>4. LaterChild(row, v.now)
        BY <3>4, <4>1, <4>2, <4>3 DEF LaterChild
      <4> QED
        BY <1>3, <1>4, <2>1, <2>3, <3>1, <3>2, <4>4
    <3> QED
      BY <3>6, <3>7
  <2> QED
    BY <2>1, <2>2, <2>3 DEF BusyAt, At, Listed
<1>11. v.same => G = v.past \cap {v.now}
  BY <1>7, <1>9, <1>10
<1>12. /\ w \in ViewSet /\ w.past = v.past /\ w.kind = "list" /\ w.pc = "answered" /\ w.now = v.now
       /\ w.got = G /\ w.same = v.same
  BY <1>2, <1>5, <1>9 DEF ViewSet
<1>13. ViewFits(w)
  BY <1>9, <1>11, <1>12 DEF ViewFits, ViewKind
<1> QED
  BY <1>6, <1>12, <1>13, ReadStep

\* The timetable of a friend, in three statements.
LEMMA TableSteps == ScheduleInv /\ (ReadTimetable \/ ReadParent \/ ReadTimes) => ScheduleInv'
<1> SUFFICES ASSUME ScheduleInv, ReadTimetable \/ ReadParent \/ ReadTimes PROVE ScheduleInv'
  OBVIOUS
<1>1. PICK v : v = view
  OBVIOUS
<1>2. /\ v \in ViewSet /\ ViewFits(v) /\ v.pc \in {"table", "parent", "times"} /\ v.kind = "table" /\ Visible(v) = TableShows
      /\ TableShows \subseteq v.past /\ v.got \subseteq v.past /\ (v.same => v.past = TableShows /\ v.got = SoFar(v))
  <2>1. v.pc \in {"table", "parent", "times"} /\ v \in ViewSet /\ ViewFits(v)
    BY <1>1 DEF ScheduleInv, ReadTimetable, ReadParent, ReadTimes, Read
  <2>2. v.kind = "table"
    BY <2>1 DEF ViewFits, ViewKind
  <2> QED
    BY <2>1, <2>2 DEF ViewFits, Visible
<1>3. At(saved) \subseteq v.past /\ mapped \in 0..MaxBlocks
  BY <1>2 DEF TableShows, ScheduleInv, BlockRowsKept
<1>4. CASE ReadTimetable
  <2>1. PICK w : w = [v EXCEPT !.pc = IF mapped = 0 THEN "answered" ELSE "parent", !.block = mapped, !.got = At(saved)]
    OBVIOUS
  <2>2. /\ w \in ViewSet /\ w.past = v.past /\ w.kind = "table" /\ w.pc = (IF mapped = 0 THEN "answered" ELSE "parent")
        /\ w.block = mapped /\ w.got = At(saved) /\ w.same = v.same
    BY <1>2, <1>3, <2>1 DEF ViewSet
  <2>3. Visible(w) = TableShows /\ (mapped # 0 => SoFar(w) = At(saved))
    BY <2>2 DEF Visible, SoFar
  <2>4. CASE mapped = 0
    <3>1. TableShows = At(saved)
      BY <2>4 DEF TableShows, OfBlock
    <3>2. ViewFits(w)
      BY <1>2, <1>3, <2>2, <2>4, <3>1 DEF ViewFits, ViewKind
    <3> QED
      BY <1>1, <1>4, <2>1, <2>2, <3>2, ReadStep DEF ReadTimetable
  <2>5. CASE mapped # 0
    <3>1. ToSet(meant[mapped]) \subseteq v.past /\ mapped \in 1..MaxBlocks /\ IsBlock(mapped)
      BY <1>2, <2>5, MappedTimes DEF TableShows
    <3>2. ViewFits(w)
      BY <1>2, <1>3, <2>2, <2>3, <2>5, <3>1 DEF ViewFits, ViewKind
    <3> QED
      BY <1>1, <1>4, <2>1, <2>2, <3>2, ReadStep DEF ReadTimetable
  <2> QED
    BY <2>4, <2>5
<1>5. ASSUME v.pc \in {"parent", "times"}
      PROVE  /\ v.block \in 1..MaxBlocks /\ IsBlock(v.block) /\ ToSet(meant[v.block]) \subseteq v.past /\ (v.same => v.block = mapped)
             /\ AsAsked(block[v.block], meant[v.block]) /\ block[v.block] \in BlockRows /\ meant[v.block] \in TimeLists
  <2>1. /\ v.block \in 1..MaxBlocks /\ IsBlock(v.block) /\ ToSet(meant[v.block]) \subseteq v.past
        /\ (v.same => v.block = mapped)
    BY <1>2, <1>5 DEF ViewFits
  <2> QED
    BY <2>1 DEF ScheduleInv, AsAsked, BlockRowsKept
<1>6. CASE ReadParent
  <2>1. v.pc = "parent" /\ v.pc \in {"parent", "times"}
    BY <1>1, <1>6 DEF ReadParent, Read
  <2>2. PICK m, L : m = block[v.block].parent /\ L = meant[v.block]
    OBVIOUS
  <2>3. m = L[1] /\ L \in TimeLists /\ ToSet(L) \subseteq v.past
    BY <1>5, <2>1, <2>2 DEF AsAsked
  <2>4. m \in v.past
    BY <2>3, SetOfTimes
  <2>5. PICK w : w = [v EXCEPT !.pc = "times", !.got = v.got \cup {m}]
    OBVIOUS
  <2>6. /\ w \in ViewSet /\ w.past = v.past /\ w.kind = "table" /\ w.pc = "times" /\ w.block = v.block
        /\ w.got = v.got \cup {m} /\ w.same = v.same
    BY <1>2, <2>4, <2>5 DEF ViewSet
  <2>7. Visible(w) = TableShows /\ SoFar(v) = At(saved) /\ SoFar(w) = At(saved) \cup {m}
    BY <2>1, <2>2, <2>6 DEF Visible, SoFar
  <2>8. ViewFits(w)
    BY <1>2, <1>5, <2>1, <2>4, <2>6, <2>7 DEF ViewFits, ViewKind
  <2>9. Read("parent", w)
    BY <1>1, <1>6, <2>2, <2>5 DEF ReadParent
  <2> QED
    BY <2>6, <2>8, <2>9, ReadStep
<1>7. CASE ReadTimes
  <2>1. v.pc = "times" /\ v.pc \in {"parent", "times"}
    BY <1>1, <1>7 DEF ReadTimes, Read
  <2>2. PICK row, L : row = block[v.block] /\ L = meant[v.block]
    OBVIOUS
  <2>3. GetTimes(row) = L /\ L \in TimeLists /\ ToSet(L) \subseteq v.past /\ row.parent = L[1]
    BY <1>5, <2>1, <2>2, TimesGot DEF AsAsked
  <2>4. PICK T : T = ToSet(Tail(L))
    OBVIOUS
  <2>5. T \subseteq v.past /\ ToSet(L) = {row.parent} \cup T
    BY <2>3, <2>4, SetOfTimes
  <2>6. PICK w : w = [v EXCEPT !.pc = "answered", !.got = v.got \cup T]
    OBVIOUS
  <2>7. /\ w \in ViewSet /\ w.past = v.past /\ w.kind = "table" /\ w.pc = "answered"
        /\ w.got = v.got \cup T /\ w.same = v.same
    BY <1>2, <2>5, <2>6 DEF ViewSet
  <2>8. v.same => w.got = w.past
    <3>1. SUFFICES ASSUME v.same PROVE v.got \cup T = TableShows
      BY <1>2, <2>7
    <3>2. v.got = At(saved) \cup {row.parent} /\ v.block = mapped /\ mapped # 0
      BY <1>2, <1>5, <2>1, <2>2, <3>1 DEF SoFar
    <3>3. TableShows = At(saved) \cup ToSet(L)
      BY <2>2, <3>2 DEF TableShows, OfBlock
    <3> QED
      BY <2>5, <3>2, <3>3
  <2>9. ViewFits(w)
    BY <1>2, <2>5, <2>7, <2>8 DEF ViewFits, ViewKind
  <2>10. Read("times", w)
    BY <1>1, <1>7, <2>2, <2>3, <2>4, <2>6 DEF ReadTimes
  <2> QED
    BY <2>7, <2>9, <2>10, ReadStep
<1> QED
  BY <1>4, <1>6, <1>7

\* The lectures in common, in two statements.
LEMMA OverlapSteps == ScheduleInv /\ (ReadOfficial \/ ReadSaved) => ScheduleInv'
<1> SUFFICES ASSUME ScheduleInv, ReadOfficial \/ ReadSaved PROVE ScheduleInv'
  OBVIOUS
<1>1. PICK v : v = view
  OBVIOUS
<1>2. PICK A, B : A = OfCourse(v.about, taken) \X {"official"} /\ B = OfCourse(v.about, saved) \X {"saved"}
  OBVIOUS
<1>3. /\ v \in ViewSet /\ ViewFits(v) /\ v.pc \in {"taken", "saved"} /\ v.kind = "overlap" /\ Visible(v) = A \cup B
      /\ v.about \in Sections
      /\ A \cup B \subseteq v.past /\ v.got \subseteq v.past /\ (v.same => v.past = A \cup B /\ v.got = SoFar(v))
  <2>1. v.pc \in {"taken", "saved"} /\ v \in ViewSet /\ ViewFits(v)
    BY <1>1 DEF ScheduleInv, ReadOfficial, ReadSaved, Read
  <2>2. v.kind = "overlap" /\ v.about \in Sections
    BY <2>1 DEF ViewFits, ViewKind
  <2> QED
    BY <1>2, <2>1, <2>2 DEF ViewFits, Visible
<1>4. A \subseteq Marks /\ B \subseteq Marks
  BY <1>2 DEF ScheduleInv, BlockRowsKept, OfCourse, Marks
<1>5. CASE ReadOfficial
  <2>1. PICK w : w = [v EXCEPT !.pc = "saved", !.got = A]
    OBVIOUS
  <2>2. /\ w \in ViewSet /\ w.past = v.past /\ w.kind = "overlap" /\ w.pc = "saved" /\ w.about = v.about
        /\ w.got = A /\ w.same = v.same
    BY <1>3, <1>4, <2>1 DEF ViewSet
  <2>3. Visible(w) = A \cup B /\ SoFar(w) = A
    BY <1>2, <2>2 DEF Visible, SoFar
  <2>4. ViewFits(w)
    BY <1>3, <1>4, <2>2, <2>3 DEF ViewFits, ViewKind
  <2>5. Read("taken", w)
    BY <1>1, <1>2, <1>5, <2>1 DEF ReadOfficial
  <2> QED
    BY <2>2, <2>4, <2>5, ReadStep
<1>6. CASE ReadSaved
  <2>1. v.pc = "saved" /\ SoFar(v) = A
    BY <1>1, <1>2, <1>6 DEF ReadSaved, Read, SoFar
  <2>2. PICK w : w = [v EXCEPT !.pc = "answered", !.got = v.got \cup B]
    OBVIOUS
  <2>3. v.got \subseteq Marks
    BY <1>3, <2>1 DEF ViewFits
  <2>4. /\ w \in ViewSet /\ w.past = v.past /\ w.kind = "overlap" /\ w.pc = "answered" /\ w.about = v.about
        /\ w.got = v.got \cup B /\ w.same = v.same
    BY <1>3, <1>4, <2>2, <2>3 DEF ViewSet
  <2>5. ViewFits(w)
    BY <1>3, <1>4, <2>1, <2>3, <2>4 DEF ViewFits, ViewKind
  <2>6. Read("saved", w)
    BY <1>1, <1>2, <1>6, <2>2 DEF ReadSaved
  <2> QED
    BY <2>4, <2>5, <2>6, ReadStep
<1> QED
  BY <1>5, <1>6

LEMMA ShownStep == ScheduleInv /\ Shown => ScheduleInv'
<1> SUFFICES ASSUME ScheduleInv, Shown PROVE ScheduleInv'
  OBVIOUS
<1>1. NoView \in ViewSet /\ ViewFits(NoView)
  BY SchedulesAssumption DEF NoView, ViewSet, Marks, ViewFits
<1>2. AsRead'
  BY DEF ScheduleInv, AsRead, timetableVars, Shown
<1> QED
  BY <1>1, <1>2, RowsUnchanged DEF Shown

-----------------------------------------------------------------------------
LEMMA EditStep == ScheduleInv /\ EditSteps => ScheduleInv'
<1> SUFFICES ASSUME ScheduleInv, EditSteps PROVE ScheduleInv'
  OBVIOUS
<1>1. CASE OpenEdit
  <2>1. AsRead'
    <3>1. CASE mapped = 0
      BY <1>1, <3>1 DEF OpenEdit, AsRead, timetableVars
    <3>2. CASE mapped # 0
      <4>1. edit'.seen = meant[mapped] /\ edit'.block = mapped /\ meant' = meant /\ mapped' = mapped
        BY <1>1, <3>2, MappedTimes, TimesGot DEF OpenEdit, timetableVars
      <4> QED
        BY <3>2, <4>1, MappedTimes DEF AsRead
    <3> QED
      BY <3>1, <3>2
  <2>2. view \in ViewSet /\ ViewFits(view) /\ view' = view /\ UNCHANGED <<timetableVars, meant, writes>>
    BY <1>1 DEF ScheduleInv, OpenEdit
  <2> QED
    BY <2>1, <2>2, RowsUnchanged
<1>2. CASE Refuse
  <2>1. AsRead'
    BY <1>2 DEF Refuse, AsRead, NoEdit
  <2>2. view \in ViewSet /\ ViewFits(view) /\ view' = view /\ UNCHANGED <<timetableVars, meant, writes>>
    BY <1>2 DEF ScheduleInv, Refuse
  <2> QED
    BY <2>1, <2>2, RowsUnchanged
<1>3. CASE RemoveBlock
  BY <1>3, RowsRest DEF RemoveBlock, ScheduleInv, BlockRowsKept
<1> QED
  BY <1>1, <1>2, <1>3 DEF EditSteps

LEMMA RowStep ==
  ASSUME ScheduleInv, (\E l \in Sections : SaveLecture(l) \/ SyncTaken(l) \/ SyncDeleted(l)) \/ Unfriend
  PROVE  ScheduleInv'
<1>1. BlockRowsKept
  BY DEF ScheduleInv
<1>2. ASSUME NEW l \in Sections, SaveLecture(l) PROVE ScheduleInv'
  BY <1>1, <1>2, RowsRest DEF SaveLecture, BlockRowsKept
<1>3. ASSUME NEW l \in Sections, SyncTaken(l) \/ SyncDeleted(l) PROVE ScheduleInv'
  BY <1>1, <1>3, RowsRest DEF SyncTaken, SyncDeleted, BlockRowsKept
<1>4. CASE Unfriend
  BY <1>1, <1>4, RowsRest DEF Unfriend, BlockRowsKept
<1> QED
  BY <1>2, <1>3, <1>4

\* The overlap that is answered is the right one: the closest group that has
\* any, and in it those of the latest term.
LEMMA Least ==
  ASSUME NEW S \in SUBSET Nat, S # {}
  PROVE  \E i \in S : \A j \in S : i <= j
<1> DEFINE R == {ss \in Nat \X Nat : ss[1] < ss[2]}
<1>1. IsWellFoundedOn(R, Nat)
  BY NatLessThanWellFounded DEF OpToRel
<1>2. \A i, j \in Nat : j < i => <<j, i>> \in R
  OBVIOUS
<1> HIDE DEF R
<1>3. PICK i \in S : \A j \in S : ~ (<<j, i>> \in R)
  BY <1>1, WFMin
<1>4. \A j \in S : ~(j < i)
  BY <1>2, <1>3
<1> QED
  BY <1>4

Latest(K) == \E k \in K : \A j \in K : FactsOf[j].term <= FactsOf[k].term

\* Of finitely many lectures one has the latest term: a smallest set without
\* one would have one more than a set with one.
LEMMA SomeLatest ==
  ASSUME NEW K \in SUBSET Sections, K # {} PROVE Latest(K)
<1> DEFINE Without == {T \in SUBSET Sections : T # {} /\ ~Latest(T)}
           Sizes   == {Cardinality(T) : T \in Without}
<1>1. \A T \in SUBSET Sections : IsFiniteSet(T) /\ Cardinality(T) \in Nat
  BY SchedulesAssumption, FS_Subset, FS_CardinalityType
<1>2. SUFFICES ASSUME Without # {} PROVE FALSE
  OBVIOUS
<1>3. Sizes \in SUBSET Nat /\ Sizes # {}
  BY <1>1, <1>2
<1>4. PICK T \in Without : \A U \in Without : Cardinality(T) <= Cardinality(U)
  <2>1. PICK n \in Sizes : \A m \in Sizes : n <= m
    BY <1>3, Least
  <2> QED
    BY <2>1
<1>5. PICK x \in T : TRUE
  OBVIOUS
<1>6. PICK U \in SUBSET Sections : U = T \ {x}
  OBVIOUS
<1>7. Cardinality(U) = Cardinality(T) - 1 /\ Cardinality(T) \in Nat /\ Cardinality(U) \in Nat
  BY <1>1, <1>5, <1>6, FS_RemoveElement
<1>8. U \notin Without
  BY <1>4, <1>7
<1>9. T = U \cup {x}
  BY <1>5, <1>6
<1>10. \A k \in T : FactsOf[k].term \in Nat
  BY SchedulesAssumption
<1>11. CASE U = {}
  BY <1>4, <1>9, <1>10, <1>11 DEF Latest
<1>12. CASE U # {}
  <2>1. PICK k \in U : \A j \in U : FactsOf[j].term <= FactsOf[k].term
    BY <1>8, <1>12 DEF Latest
  <2>2. CASE FactsOf[x].term <= FactsOf[k].term
    <3>1. Latest(T)
      BY <1>9, <2>1, <2>2 DEF Latest
    <3> QED
      BY <1>4, <3>1
  <2>3. CASE ~(FactsOf[x].term <= FactsOf[k].term)
    <3>1. FactsOf[k].term <= FactsOf[x].term
      BY <1>5, <1>9, <1>10, <2>1, <2>3
    <3>2. \A j \in T : FactsOf[j].term <= FactsOf[x].term
      BY <1>5, <1>9, <1>10, <2>1, <3>1
    <3>3. Latest(T)
      BY <1>5, <3>2 DEF Latest
    <3> QED
      BY <1>4, <3>3
  <2> QED
    BY <2>2, <2>3
<1> QED
  BY <1>11, <1>12

\* What Overlap answers, by the first group that has any.
OfGroup(l, got, g) == {x \in got : GroupOf(l, x[1]) = g}
Newest(S) == {x \in S : \A y \in S : FactsOf[y[1]].term <= FactsOf[x[1]].term}
Chosen(S) == IF \E x \in S : x[2] = "official" THEN {x \in S : x[2] = "official"} ELSE S

LEMMA FirstGroup ==
  ASSUME NEW l, NEW got, NEW p \in 1..3, OfGroup(l, got, Groups[p]) # {},
         \A q \in 1..3 : q < p => OfGroup(l, got, Groups[q]) = {}
  PROVE  Overlap(l, got) = [group |-> Groups[p], from |-> Chosen(Newest(OfGroup(l, got, Groups[p])))]
<1> DEFINE some == {q \in 1..3 : OfGroup(l, got, Groups[q]) # {}}
<1>1. p \in some /\ \A q \in some : p <= q
  OBVIOUS
<1>2. Min(some) = p
  BY <1>1 DEF Min
<1>3. some = {q \in 1..3 : {x \in got : GroupOf(l, x[1]) = Groups[q]} # {}}
  BY DEF OfGroup
<1> QED
  BY <1>1, <1>2, <1>3 DEF Overlap, OfGroup, Newest, Chosen

LEMMA NoGroup ==
  ASSUME NEW l, NEW got, \A q \in 1..3 : OfGroup(l, got, Groups[q]) = {}
  PROVE  Overlap(l, got) = [group |-> "none", from |-> {}]
BY DEF Overlap, OfGroup

\* The choice among those of one group, by the lectures they are about.
LEMMA NewestOnes ==
  ASSUME NEW got \in SUBSET Marks, NEW l \in Sections, NEW g, OfGroup(l, got, g) # {}
  PROVE  /\ Chosen(Newest(OfGroup(l, got, g))) \subseteq OfGroup(l, got, g)
         /\ Chosen(Newest(OfGroup(l, got, g))) # {}
         /\ \A x \in Chosen(Newest(OfGroup(l, got, g))) : \A y \in OfGroup(l, got, g) : FactsOf[y[1]].term <= FactsOf[x[1]].term
<1>1. PICK S : S = OfGroup(l, got, g)
  OBVIOUS
<1>2. S # {} /\ S \subseteq Marks
  BY <1>1 DEF OfGroup
<1>3. PICK K \in SUBSET Sections : K = {x[1] : x \in S}
  BY <1>2 DEF Marks
<1>4. K # {}
  BY <1>2, <1>3
<1>5. PICK k \in K : \A j \in K : FactsOf[j].term <= FactsOf[k].term
  BY <1>4, SomeLatest DEF Latest
<1>6. Newest(S) # {}
  BY <1>3, <1>5 DEF Newest
<1> QED
  BY <1>1, <1>6 DEF Chosen, Newest

LEMMA OverlapRight ==
  ASSUME NEW got \in SUBSET Marks, NEW l \in Sections
  PROVE  RightOverlap(l, got, Overlap(l, got))
<1> DEFINE held == {x[1] : x \in got}
<1>1. Groups[1] = "same" /\ Groups[2] = "section" /\ Groups[3] = "other"
  BY DEF Groups
<1>2. \A k \in held : k \in Sections /\ FactsOf[k].term \in Nat
  BY SchedulesAssumption DEF Marks
<1>3. CASE l \in held
  <2>1. OfGroup(l, got, "same") # {} /\ \A x \in OfGroup(l, got, "same") : x[1] = l
    BY <1>3 DEF OfGroup, GroupOf
  <2>2. PICK from : from = Chosen(Newest(OfGroup(l, got, "same")))
    OBVIOUS
  <2>3. Overlap(l, got) = [group |-> "same", from |-> from]
    BY <1>1, <2>1, <2>2, FirstGroup
  <2>4. from # {} /\ \A x \in from : x[1] = l
    BY <2>1, <2>2, NewestOnes
  <2>5. {x[1] : x \in from} = {l}
    BY <2>4
  <2> QED
    BY <1>3, <2>3, <2>5 DEF RightOverlap
<1>4. CASE l \notin held /\ \E k \in held : FactsOf[k].term = FactsOf[l].term
  <2>1. OfGroup(l, got, "same") = {}
    BY <1>4 DEF OfGroup, GroupOf
  <2>2. OfGroup(l, got, "section") # {} /\ \A x \in OfGroup(l, got, "section") : x[1] \in held /\ FactsOf[x[1]].term = FactsOf[l].term
    BY <1>4 DEF OfGroup, GroupOf
  <2>3. PICK from : from = Chosen(Newest(OfGroup(l, got, "section")))
    OBVIOUS
  <2>4. \A q \in 1..3 : q < 2 => OfGroup(l, got, Groups[q]) = {}
    BY <1>1, <2>1
  <2>5. Overlap(l, got) = [group |-> "section", from |-> from]
    BY <1>1, <2>2, <2>3, <2>4, FirstGroup
  <2>6. from # {} /\ \A x \in from : x[1] \in held /\ FactsOf[x[1]].term = FactsOf[l].term
    BY <2>2, <2>3, NewestOnes
  <2> QED
    BY <1>4, <2>5, <2>6 DEF RightOverlap
<1>5. CASE \A k \in held : FactsOf[k].term # FactsOf[l].term
  <2>1. l \notin held /\ OfGroup(l, got, "same") = {} /\ OfGroup(l, got, "section") = {}
    BY <1>5 DEF OfGroup, GroupOf
  <2>2. OfGroup(l, got, "other") = {x \in got : FactsOf[x[1]].professors \cap FactsOf[l].professors # {}}
    BY <1>5, <2>1 DEF OfGroup, GroupOf
  <2>3. PICK terms : terms = {FactsOf[k].term : k \in {h \in held : FactsOf[h].professors \cap FactsOf[l].professors # {}}}
    OBVIOUS
  <2>4. terms = {FactsOf[x[1]].term : x \in OfGroup(l, got, "other")} /\ terms \subseteq Nat
    BY <1>2, <2>2, <2>3
  <2>5. CASE OfGroup(l, got, "other") = {}
    <3>1. \A q \in 1..3 : OfGroup(l, got, Groups[q]) = {}
      BY <1>1, <2>1, <2>5
    <3>2. Overlap(l, got) = [group |-> "none", from |-> {}] /\ terms = {}
      BY <2>4, <2>5, <3>1, NoGroup
    <3> QED
      BY <1>5, <2>1, <2>3, <3>2 DEF RightOverlap
  <2>6. CASE OfGroup(l, got, "other") # {}
    <3>1. PICK from : from = Chosen(Newest(OfGroup(l, got, "other")))
      OBVIOUS
    <3>2. \A q \in 1..3 : q < 3 => OfGroup(l, got, Groups[q]) = {}
      BY <1>1, <2>1
    <3>3. Overlap(l, got) = [group |-> "other", from |-> from]
      BY <1>1, <2>6, <3>1, <3>2, FirstGroup
    <3>4. /\ from # {} /\ from \subseteq OfGroup(l, got, "other")
          /\ \A x \in from : \A y \in OfGroup(l, got, "other") : FactsOf[y[1]].term <= FactsOf[x[1]].term
      BY <2>6, <3>1, NewestOnes
    <3>5. \A x \in from : FactsOf[x[1]].term \in terms /\ \A n \in terms : n <= FactsOf[x[1]].term
      BY <2>4, <3>4
    <3>6. \A x \in from : x[1] \in held /\ FactsOf[x[1]].term = Max(terms)
      <4>1. \A x \in from : x[1] \in held
        BY <3>4 DEF OfGroup
      <4>2. ASSUME NEW x \in from PROVE FactsOf[x[1]].term = Max(terms)
        <5>1. PICK n \in terms : n = FactsOf[x[1]].term
          BY <3>5
        <5>2. \A m \in terms : n >= m
          BY <2>4, <3>5, <5>1
        <5>3. \A m \in terms : (\A k \in terms : m >= k) => m = n
          BY <2>4, <5>2
        <5> QED
          BY <5>1, <5>2, <5>3 DEF Max
      <4> QED
        BY <4>1, <4>2
    <3>7. PICK C : C = {x[1] : x \in from}
      OBVIOUS
    <3>8. terms # {} /\ C # {} /\ C \subseteq held /\ \A k \in C : FactsOf[k].term = Max(terms)
      BY <2>4, <2>6, <3>4, <3>6, <3>7
    <3>9. PICK answer : answer = Overlap(l, got)
      OBVIOUS
    <3>10. answer.group = "other" /\ {x[1] : x \in answer.from} = C
      BY <3>3, <3>7, <3>9
    <3>11. RightOverlap(l, got, answer)
      BY <1>5, <2>1, <2>3, <3>8, <3>10 DEF RightOverlap
    <3> QED
      BY <3>9, <3>11
  <2> QED
    BY <2>5, <2>6
<1> QED
  BY <1>3, <1>4, <1>5

-----------------------------------------------------------------------------
LEMMA TimesOfRow ==
  ASSUME NEW row \in BlockRows, row.parent \in Moments
  PROVE  AsAsked(row, GetTimes(row))
<1>1. CASE row.times = <<>>
  <2>1. SubSeq(row.times, 2, Len(row.times)) = <<>>
    BY <1>1, SubSeqEmpty
  <2>2. GetTimes(row) = <<row.parent>>
    BY <2>1, ShortSequences DEF GetTimes
  <2>3. <<row.parent>> \in TimeLists /\ <<>> \notin TimeLists /\ Len(<<row.parent>>) = 1 /\ <<row.parent>>[1] = row.parent
    BY TimesTyped DEF TimeLists
  <2> QED
    BY <1>1, <2>2, <2>3 DEF AsAsked
<1>2. CASE row.times \in TimeLists
  <2>1. PICK T \in TimeLists : T = row.times
    BY <1>2
  <2>2. PICK m \in Moments : m = row.parent
    OBVIOUS
  <2>3. PICK L : L = [T EXCEPT ![1] = m]
    OBVIOUS
  <2>4. L \in TimeLists /\ Len(L) = Len(T) /\ DOMAIN L = DOMAIN T /\ L[1] = m /\ \A p \in DOMAIN T : p > 1 => L[p] = T[p]
    BY <2>3, FirstChanges
  <2>5. AsAsked(row, L)
    BY <2>1, <2>2, <2>4, TimesTyped DEF AsAsked
  <2> QED
    BY <2>5, TimesGot
<1> QED
  BY <1>1, <1>2 DEF BlockRows

LEMMA SchedulesStart == SchedulesInit => ScheduleInv
<1> SUFFICES ASSUME SchedulesInit PROVE ScheduleInv
  OBVIOUS
<1>1. PICK row \in BlockRows :
        /\ row.parent \in Moments
        /\ block = [b \in 1..MaxBlocks |-> IF b = mapped THEN row ELSE NoBlockRow]
        /\ meant = [b \in 1..MaxBlocks |-> IF b = mapped THEN GetTimes(row) ELSE <<>>]
  BY DEF SchedulesInit, BlockRows
<1>2. AsAsked(row, GetTimes(row)) /\ GetTimes(row) \in TimeLists /\ row # NoBlockRow
  BY <1>1, TimesOfRow, SchedulesAssumption DEF AsAsked, NoBlockRow
<1>3. NoBlockRow \in BlockRows
  BY DEF NoBlockRow, BlockRows
<1>4. mapped \in {0, 1} /\ 1 \in 1..MaxBlocks /\ 0 \notin 1..MaxBlocks /\ 0 \in 0..MaxBlocks /\ 1 \in 0..MaxBlocks
  BY SchedulesAssumption DEF SchedulesInit
<1>5. BlockRowsKept
  BY <1>1, <1>2, <1>3, <1>4, SchedulesAssumption DEF SchedulesInit, BlockRowsKept, IsBlock
<1>6. \A b \in 1..MaxBlocks : IsBlock(b) => AsAsked(block[b], meant[b])
  BY <1>1, <1>2 DEF IsBlock
<1>7. AsRead
  BY DEF SchedulesInit, AsRead, NoEdit
<1>8. view = NoView /\ NoView \in ViewSet /\ ViewFits(NoView)
  BY SchedulesAssumption DEF SchedulesInit, NoView, ViewSet, ViewFits, Marks
<1> QED
  BY <1>5, <1>6, <1>7, <1>8 DEF ScheduleInv

LEMMA SchedulesStep == ScheduleInv /\ [SchedulesNext]_scheduleVars => ScheduleInv'
<1> SUFFICES ASSUME ScheduleInv, [SchedulesNext]_scheduleVars PROVE ScheduleInv'
  OBVIOUS
<1>1. CASE EditSteps
  BY <1>1, EditStep
<1>2. CASE WriteSteps
  BY <1>2, CreateStep, UpdateStep, RowStep DEF WriteSteps
<1>3. CASE ViewSteps
  BY <1>3, GetStep, MatchesStep, ExtraMatchesStep, TableSteps, OverlapSteps, ShownStep DEF ViewSteps
<1>4. CASE UNCHANGED scheduleVars
  <2>1. view' = view /\ view \in ViewSet /\ ViewFits(view) /\ AsRead' /\ UNCHANGED <<timetableVars, meant, writes>>
    BY <1>4 DEF scheduleVars, timetableVars, ScheduleInv, AsRead
  <2> QED
    BY <2>1, RowsUnchanged
<1> QED
  BY <1>1, <1>2, <1>3, <1>4 DEF SchedulesNext

\* The rows of blocks, written by servers of two versions, an open request
\* and a request that looks fit together as ScheduleInv says, for any times,
\* lectures, blocks and writes.
THEOREM SchedulesHold == SchedulesSpec => []ScheduleInv
BY SchedulesStart, SchedulesStep, PTL DEF SchedulesSpec

\* A block has the times its requests gave it, in their order, whichever
\* server wrote which of its rows.
THEOREM BlocksAlwaysAsAsked == SchedulesSpec => []BlocksAsAsked
<1>1. ScheduleInv => BlocksAsAsked
  <2> SUFFICES ASSUME ScheduleInv PROVE BlocksAsAsked
    OBVIOUS
  <2>1. BlockRowsKept
    BY DEF ScheduleInv
  <2>2. ScheduleTypes
    BY <2>1 DEF ScheduleTypes, BlockRowsKept, BlockRows
  <2>3. \A b \in 1..MaxBlocks : IsBlock(b) => GetTimes(block[b]) = meant[b]
    BY TimesGot DEF ScheduleInv, BlockRowsKept
  <2> QED
    BY <2>2, <2>3 DEF BlocksAsAsked
<1> QED
  BY <1>1, SchedulesHold, PTL

\* What a user is shown of a friend's schedule was the friend's at some moment
\* of the request, and is all of it if nothing was written meanwhile; the
\* lecture that stands for the friend is of the closest group and latest term.
THEOREM SchedulesAlwaysSeen == SchedulesSpec => []SchedulesSeen
<1>1. ScheduleInv => SchedulesSeen
  <2> SUFFICES ASSUME ScheduleInv, view.pc = "answered" PROVE SchedulesSeen
    BY DEF SchedulesSeen
  <2>1. PICK v : v = view
    OBVIOUS
  <2>2. ViewFits(v) /\ v.pc = "answered" /\ ViewKind(v)
    BY <2>1 DEF ScheduleInv, ViewFits
  <2>3. /\ v.got \subseteq v.past /\ v.kind \in {"list", "table", "overlap"}
        /\ v.same => v.got = IF v.kind = "list" THEN v.past \cap {v.now} ELSE v.past
        /\ v.kind = "overlap" => v.about \in Sections /\ v.got \in SUBSET Marks
    BY <2>2 DEF ViewFits, ViewKind
  <2>4. v.kind = "overlap" => RightOverlap(v.about, v.got, Overlap(v.about, v.got))
    BY <2>3, OverlapRight
  <2> QED
    BY <2>1, <2>3, <2>4 DEF SchedulesSeen
<1> QED
  BY <1>1, SchedulesHold, PTL
=============================================================================
