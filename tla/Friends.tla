------------------------------ MODULE Friends ------------------------------
(***************************************************************************)
(* Friend codes and friendships (friends.service.ts and                    *)
(* friend.repository.ts).  A friendship is two rows, one per direction,    *)
(* written and removed by MySQL transactions at REPEATABLE READ; a code is *)
(* allocated by single statements outside a transaction.                   *)
(*                                                                         *)
(* Rows are locked one at a time, as InnoDB locks them on the unique index *)
(* (owner, friend): an inserted or deleted row exclusively, a row that     *)
(* INSERT IGNORE skips shared, and a row that DELETE does not find by the  *)
(* gap, which keeps others from inserting it but not from locking it too.  *)
(***************************************************************************)
EXTENDS Naturals, FiniteSets

CONSTANTS Users, Codes, NoCode, NoUser,
          Reqs,         \* requests in flight at the same time
          MaxAttempts,  \* attempts to allocate a code (10 in the code)
          MaxGen        \* bound on how often a friendship is made again

ASSUME FriendsAssumption ==
  NoCode \notin Codes /\ NoUser \notin Users /\ MaxAttempts \in Nat \ {0} /\ MaxGen \in Nat

VARIABLES rows,  \* committed rows: pairs <<owner, friend>>
          gen,   \* gen[p]: which row of the pair p this is (its id)
          fav,   \* rows marked as favorite
          code,  \* code[u]: the permanent code of u
          tx     \* tx[r]: request r

vars == <<rows, gen, fav, code, tx>>

Pairs == {p \in Users \X Users : p[1] # p[2]}
Both(u, v) == {<<u, v>>, <<v, u>>}

\* snap: rows of the snapshot; ins, del: rows written and locked; shared, gap:
\* rows locked otherwise; id: the row an update is for; n: attempts made.
Record(pc, u, v, snap, id, c, n) ==
  [pc |-> pc, me |-> u, you |-> v, snap |-> snap, ins |-> {}, del |-> {},
   shared |-> {}, gap |-> {}, id |-> id, code |-> c, n |-> n]
Idle == Record("idle", NoUser, NoUser, {}, 0, NoCode, 0)
\* A request about the code of u.
Lookup(pc, u, c, n) == Record(pc, u, NoUser, {}, 0, c, n)

Exclusive(r) == tx[r].ins \cup tx[r].del
Others(r)    == Reqs \ {r}
Touched(r)   == Exclusive(r) \cup tx[r].shared \cup tx[r].gap
Todo(r)      == Both(tx[r].me, tx[r].you) \ Touched(r)

TypeOK ==
  /\ rows \in SUBSET Pairs /\ fav \in SUBSET rows
  /\ gen \in [Pairs -> 0..MaxGen]
  /\ code \in [Users -> Codes \cup {NoCode}]
  /\ \A r \in Reqs :
       /\ tx[r].pc \in {"idle", "adding", "deleting", "favorite",
                        "allocate", "reread", "found", "failed"}
       /\ tx[r].n \in 0..MaxAttempts
       /\ \A q \in Others(r) :
            Exclusive(r) \cap (Exclusive(q) \cup tx[q].shared) = {}

Init ==
  /\ rows = {} /\ fav = {}
  /\ gen = [p \in Pairs |-> 0]
  /\ code \in [Users -> Codes \cup {NoCode}]
  /\ \A u, v \in Users : code[u] = code[v] => u = v \/ code[u] = NoCode
  /\ tx = [r \in Reqs |-> Idle]

Start(r, pc, u, v) ==
  /\ tx[r].pc = "idle"
  /\ tx' = [tx EXCEPT ![r] = Record(pc, u, v, rows, gen[<<u, v>>], NoCode, 0)]
  /\ UNCHANGED <<rows, gen, fav, code>>

End(r) == tx' = [tx EXCEPT ![r] = Idle]

-----------------------------------------------------------------------------
\* addFriend: getUserIdByCode takes the snapshot (400 for an unknown code and
\* for one's own) ...
StartAdd(r) ==
  \E u, v \in Users : u # v /\ code[v] # NoCode /\ Start(r, "adding", u, v)

\* Mutant: an insert that does not wait for gap locks (READ COMMITTED has none).
InsertRowInGap(r, p) ==
  /\ tx[r].pc = "adding"
  /\ p \in Todo(r)
  /\ p[1] = tx[r].you => <<tx[r].me, tx[r].you>> \notin Todo(r)
  /\ \A q \in Others(r) : p \notin Exclusive(q)
  /\ \/ /\ p \in rows
        /\ tx' = [tx EXCEPT ![r].shared = @ \cup {p}]
     \/ /\ p \notin rows /\ gen[p] < MaxGen
        /\ tx' = [tx EXCEPT ![r].ins = @ \cup {p}]
  /\ UNCHANGED <<rows, gen, fav, code>>

\* ... createPair inserts the own row, then the other, skipping duplicates.
InsertRow(r, p) ==
  /\ tx[r].pc = "adding"
  /\ p \in Todo(r)
  /\ p[1] = tx[r].you => <<tx[r].me, tx[r].you>> \notin Todo(r)
  /\ \A q \in Others(r) : p \notin Exclusive(q)
  /\ \/ /\ p \in rows
        /\ tx' = [tx EXCEPT ![r].shared = @ \cup {p}]
     \/ /\ p \notin rows /\ gen[p] < MaxGen
        /\ \A q \in Others(r) : p \notin tx[q].gap
        /\ tx' = [tx EXCEPT ![r].ins = @ \cup {p}]
  /\ UNCHANGED <<rows, gen, fav, code>>

\* getFriendByTarget reads the snapshot and the own writes.  When somebody
\* else made the friendship after the snapshot it finds nothing, and the
\* request fails with 400 (Abort).
CommitAdd(r) ==
  /\ tx[r].pc = "adding" /\ Todo(r) = {}
  /\ <<tx[r].me, tx[r].you>> \in tx[r].snap \cup tx[r].ins
  /\ rows' = rows \cup tx[r].ins
  /\ gen' = [p \in Pairs |-> IF p \in tx[r].ins THEN gen[p] + 1 ELSE gen[p]]
  /\ End(r)
  /\ UNCHANGED <<fav, code>>

\* deleteFriend: 404 unless the own row is there; deletePair then looks up
\* both rows, in the order of the index.
StartDelete(r) ==
  \E p \in rows : Start(r, "deleting", p[1], p[2])

\* Mutant: rows that an insert skipped are not protected.
DeleteRowShared(r, p) ==
  /\ tx[r].pc = "deleting"
  /\ p \in Todo(r)
  /\ \A q \in Others(r) : p \notin Exclusive(q)
  /\ tx' = IF p \in rows THEN [tx EXCEPT ![r].del = @ \cup {p}]
                         ELSE [tx EXCEPT ![r].gap = @ \cup {p}]
  /\ UNCHANGED <<rows, gen, fav, code>>

DeleteRow(r, p) ==
  /\ tx[r].pc = "deleting"
  /\ p \in Todo(r)
  /\ \A q \in Others(r) : p \notin Exclusive(q) \cup tx[q].shared
  /\ tx' = IF p \in rows THEN [tx EXCEPT ![r].del = @ \cup {p}]
                         ELSE [tx EXCEPT ![r].gap = @ \cup {p}]
  /\ UNCHANGED <<rows, gen, fav, code>>

CommitDelete(r) ==
  /\ tx[r].pc = "deleting" /\ Todo(r) = {}
  /\ rows' = rows \ tx[r].del
  /\ fav' = fav \ tx[r].del
  /\ End(r)
  /\ UNCHANGED <<gen, code>>

\* updateFavorite: reads the row by its id, then updates by that id.
StartFavorite(r) ==
  \E p \in rows : Start(r, "favorite", p[1], p[2])

SetFavorite(r) ==
  LET p == <<tx[r].me, tx[r].you>> IN
  /\ tx[r].pc = "favorite"
  /\ \A q \in Others(r) : p \notin Exclusive(q) \cup tx[q].shared
  /\ IF p \in rows /\ gen[p] = tx[r].id
       THEN fav' \in {fav \cup {p}, fav \ {p}}
       ELSE UNCHANGED fav
  /\ End(r)
  /\ UNCHANGED <<rows, gen, code>>

\* A lost response, a deadlock victim, a timeout, a failed check.
Abort(r) ==
  /\ tx[r].pc \in {"adding", "deleting", "favorite"}
  /\ End(r)
  /\ UNCHANGED <<rows, gen, fav, code>>

-----------------------------------------------------------------------------
\* getOrCreateCode looks the code up ...
FindCode(r) ==
  /\ tx[r].pc = "idle"
  /\ \E u \in Users :
       tx' = [tx EXCEPT ![r] =
                Lookup(IF code[u] = NoCode THEN "allocate" ELSE "found", u, code[u], 0)]
  /\ UNCHANGED <<rows, gen, fav, code>>

\* Mutant: the generated code is answered without reading the winner.
InsertCodeBlindly(r) ==
  LET u == tx[r].me IN
  /\ tx[r].pc = "allocate"
  /\ \E c \in Codes :
       /\ code' = IF code[u] = NoCode /\ \A v \in Users : code[v] # c
                    THEN [code EXCEPT ![u] = c] ELSE code
       /\ tx' = [tx EXCEPT ![r].pc = "found", ![r].code = c]
  /\ UNCHANGED <<rows, gen, fav>>

\* ... and otherwise inserts a random one.  ON DUPLICATE KEY changes nothing
\* when the user got a code meanwhile or the code is taken.
InsertCode(r) ==
  LET u == tx[r].me IN
  /\ tx[r].pc = "allocate"
  /\ \E c \in Codes :
       code' = IF code[u] = NoCode /\ \A v \in Users : code[v] # c
                 THEN [code EXCEPT ![u] = c] ELSE code
  /\ tx' = [tx EXCEPT ![r] = Lookup("reread", u, NoCode, tx[r].n + 1)]
  /\ UNCHANGED <<rows, gen, fav>>

\* The winner is read back: no code yet means that the attempt collided.
RereadCode(r) ==
  LET c == code[tx[r].me] IN
  /\ tx[r].pc = "reread"
  /\ tx' = [tx EXCEPT ![r] =
              Lookup(IF c # NoCode THEN "found"
                     ELSE IF tx[r].n < MaxAttempts THEN "allocate"
                     ELSE "failed", tx[r].me, c, tx[r].n)]
  /\ UNCHANGED <<rows, gen, fav, code>>

AnswerCode(r) ==
  /\ tx[r].pc \in {"found", "failed"}
  /\ End(r)
  /\ UNCHANGED <<rows, gen, fav, code>>

Next ==
  \E r \in Reqs :
    \/ StartAdd(r) \/ (\E p \in Pairs : InsertRow(r, p)) \/ CommitAdd(r)
    \/ StartDelete(r) \/ (\E p \in Pairs : DeleteRow(r, p)) \/ CommitDelete(r)
    \/ StartFavorite(r) \/ SetFavorite(r) \/ Abort(r)
    \/ FindCode(r) \/ InsertCode(r) \/ RereadCode(r) \/ AnswerCode(r)

Spec == Init /\ [][Next]_vars

-----------------------------------------------------------------------------
\* Friendship is mutual: whatever adds and deletes of both users overlap, one
\* direction is never left without the other.
Mutual == \A p \in rows : <<p[2], p[1]>> \in rows

\* An add that answers with the friend leaves both rows behind, also when it
\* skipped rows that somebody else was about to delete.
AddedMeansFriends ==
  [][\A r \in Reqs : CommitAdd(r) => Both(tx[r].me, tx[r].you) \subseteq rows']_vars

\* A favorite mark changes only by its owner's request for this very row: an
\* add of an existing friend does not reset it, and a request for a friend who
\* was deleted and added again does not touch the new row.
FavoritesAreOwners ==
  [][\A p \in rows \cap rows' :
       (p \in fav) # (p \in fav') =>
         \E r \in Reqs : /\ tx[r].pc = "favorite" /\ tx'[r].pc = "idle"
                         /\ <<tx[r].me, tx[r].you>> = p /\ tx[r].id = gen[p]]_vars

\* Every request of a user is answered with the same code, nobody else has
\* it, and it never changes.
OneCode ==
  /\ \A r \in Reqs : tx[r].pc = "found" => tx[r].code = code[tx[r].me]
  /\ \A u, v \in Users : code[u] = code[v] => u = v \/ code[u] = NoCode
CodePermanent == [][\A u \in Users : code[u] # NoCode => code'[u] = code[u]]_code

\* Allocation fails only after the last attempt, and never for a user who
\* has a code by then.
FailsOnlyOnCollisions ==
  [][\A r \in Reqs : (tx[r].pc # "failed" /\ tx'[r].pc = "failed") =>
       tx[r].n = MaxAttempts /\ code[tx[r].me] = NoCode]_vars

\* The friendship of two users: mutual, with marks of their own.
Friendship == [][Mutual']_vars /\ FavoritesAreOwners

\* The codes: one per user, for ever, and refused only after all attempts.
CodesHold == [][OneCode']_vars /\ CodePermanent /\ FailsOnlyOnCollisions
=============================================================================
