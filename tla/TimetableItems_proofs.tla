------------------------ MODULE TimetableItems_proofs ------------------------
(* Proofs about TimetableItems for any number of users, timetables, lectures,*)
(* blocks and requests: the lock of one timetable row and the snapshot read  *)
(* after it keep every validation true until its transaction commits.  And   *)
(* about TimetableOrder: positions and lists of any number of timetables.    *)
EXTENDS TimetableItems, TimetableOrder, FiniteSetTheorems,
        WellFoundedInduction, NaturalsInduction, SequenceTheorems, TLAPS

Partial(S) == UNION {[B -> S] : B \in SUBSET Blocks}
ViewSet    == [lec : SUBSET Lecs, blk : Partial(TimeSets \cup {{}})]
PlanSet    == [addL : SUBSET Lecs, delL : SUBSET Lecs, new : SUBSET Blocks,
               delB : SUBSET Blocks, put : Partial(TimeSets \cup {{}})]
Ops        == {"items", "lecture", "block", "create", "copy", "delete", "home"}
TxSet      == [pc : {"idle", "locking", "reading", "writing"}, op : Ops,
               user : Users \cup {NoUser}, row : Tts \cup {NoTt}, t : Tts \cup {NoTt},
               view : ViewSet, plan : PlanSet, moved : BOOLEAN]

Typed ==
  /\ owner \in [Tts -> Users \cup {NoUser}]
  /\ used \in SUBSET Tts
  /\ lec \in [Tts -> SUBSET Lecs] /\ blk \in [Tts -> SUBSET Blocks]
  /\ times \in [Blocks -> TimeSets \cup {{}}]
  /\ class \in [Lecs -> ClassTimes]
  /\ home \in [Users -> Tts \cup {NoTt}]
  /\ tx \in [Reqs -> TxSet]

\* No block of the contents overlaps itself or another one.
Sound(c) ==
  \A b \in DOMAIN c.blk :
    ValidTimes(c.blk[b]) /\ \A a \in DOMAIN c.blk \ {b} : ~Clash(c.blk[a], c.blk[b])

\* The committed rows.
Rows ==
  /\ \A t \in Tts : /\ t \notin used => owner[t] = NoUser
                    /\ owner[t] = NoUser => lec[t] = {} /\ blk[t] = {}
                    /\ Sound(Contents(t))
  /\ \A t, u \in Tts : t # u => blk[t] \cap blk[u] = {}
  /\ \A u \in Users : home[u] # NoTt => owner[home[u]] = u

\* The contents that a transaction replaces: none for a new timetable.
Before(y) == IF y.op \in {"create", "copy"} THEN Nothing ELSE y.view

\* Every overlap of a block and a lecture in f is one in c.
OnlyOld(c, f) ==
  \A b \in DOMAIN f.blk, l \in f.lec :
    Clash(f.blk[b], class[l]) =>
      b \in DOMAIN c.blk /\ l \in c.lec /\ Clash(c.blk[b], class[l])

\* A validated plan: it sets blocks of its own timetable only, and the result
\* is sound; a deletion removes everything.
PlanOK(y) ==
  LET c == Before(y)
      f == Final(c, y.plan)
  IN /\ y.plan.new \subseteq DOMAIN y.plan.put
     /\ DOMAIN y.plan.put \subseteq y.plan.new \cup DOMAIN c.blk
     /\ Sound(f)
     /\ y.op \in {"lecture", "copy"} \/ y.moved \/ OnlyOld(c, f)
     /\ y.op = "delete" => f.lec = {} /\ DOMAIN f.blk = {}

Permits(y) ==
  owner[y.row] # NoUser /\ (y.op \in {"lecture", "delete"} \/ owner[y.row] = y.user)

\* What is true of one request, whoever else commits.
Fit(y) ==
  /\ y.pc # "idle" => y.user \in Users
  /\ y.row # NoTt => y.row \in used
  /\ y.pc # "writing" => y.plan = NoPlan /\ y.t = NoTt
  /\ y.pc \in {"locking", "reading"} => y.row # NoTt
  /\ \A b \in y.plan.new : times[b] = {}
  /\ y.pc = "writing" =>
       /\ IF y.op \in {"create", "copy"} THEN y.t \in Tts \ used ELSE y.t = y.row
       /\ y.row = NoTt => y.op \in {"create", "home"}
       /\ y.row # NoTt => y.view = Contents(y.row) /\ Permits(y)
       /\ PlanOK(y)

Locks(y) == y.pc \in {"reading", "writing"} /\ y.row # NoTt
Makes(y) == y.pc = "writing" /\ y.op \in {"create", "copy"}

\* What keeps two requests out of each other's way.
Apart(y, z) ==
  /\ Locks(y) /\ Locks(z) => y.row # z.row
  /\ y.plan.new \cap z.plan.new = {}
  /\ Makes(y) \/ Makes(z) => y.t # z.t

ItemsInv ==
  /\ Typed /\ Rows
  /\ \A r \in Reqs : Fit(tx[r])
  /\ \A r, q \in Reqs : r # q => Apart(tx[r], tx[q])

\* A free request slot.
LEMMA IdleFits ==
  Idle \in TxSet /\ Fit(Idle) /\ \A z : Fit(z) => Apart(Idle, z) /\ Apart(z, Idle)
<1>1. NoPlan.put \in [{} -> TimeSets \cup {{}}] /\ Nothing.blk \in [{} -> TimeSets \cup {{}}]
  BY DEF NoPlan, Nothing
<1>2. NoPlan.put \in Partial(TimeSets \cup {{}}) /\ Nothing.blk \in Partial(TimeSets \cup {{}})
  BY <1>1 DEF Partial
<1>3. Idle \in TxSet
  BY <1>2 DEF Idle, TxSet, Ops, ViewSet, PlanSet, NoPlan, Nothing
<1>4. Idle.pc = "idle" /\ Idle.row = NoTt /\ Idle.t = NoTt /\ Idle.plan = NoPlan /\ NoPlan.new = {}
  BY DEF Idle, NoPlan
<1>5. \A z : Fit(z) => Apart(Idle, z) /\ Apart(z, Idle)
  BY <1>4, ItemsAssumption DEF Fit, Apart, Locks, Makes
<1> QED
  BY <1>3, <1>4, <1>5 DEF Fit

\* Overlapping is symmetric.
LEMMA ClashSymmetric == \A S, T : Clash(S, T) <=> Clash(T, S)
BY DEF Clash, Overlaps

\* A request moves on by itself: it begins, takes its lock, plans or ends.
LEMMA Local ==
  ASSUME ItemsInv, NEW r \in Reqs, NEW y \in TxSet, Fit(y),
         \A q \in Reqs \ {r} : Apart(y, tx[q]) /\ Apart(tx[q], y),
         tx' = [tx EXCEPT ![r] = y], UNCHANGED db
  PROVE  ItemsInv'
<1>1. \A q \in Reqs : tx'[q] = IF q = r THEN y ELSE tx[q]
  BY DEF ItemsInv, Typed
<1>2. Typed'
  BY DEF ItemsInv, Typed, db
<1>3. Rows'
  BY DEF ItemsInv, Rows, Contents, Sound, db
<1>4. \A z : Fit(z) => Fit(z)'
  BY DEF Fit, PlanOK, OnlyOld, Before, Contents, Permits, db
<1> QED
  BY <1>1, <1>2, <1>3, <1>4 DEF ItemsInv, Apart, Locks, Makes

\* What a transaction reads of a timetable.
LEMMA ContentsTyped ==
  ASSUME ItemsInv, NEW t \in Tts
  PROVE  /\ Contents(t) \in ViewSet /\ Sound(Contents(t))
         /\ Contents(t).lec = lec[t] /\ DOMAIN Contents(t).blk = blk[t]
<1>1. blk[t] \in SUBSET Blocks /\ lec[t] \in SUBSET Lecs
  BY DEF ItemsInv, Typed
<1>2. [b \in blk[t] |-> times[b]] \in [blk[t] -> TimeSets \cup {{}}]
  BY <1>1 DEF ItemsInv, Typed
<1>3. [b \in blk[t] |-> times[b]] \in Partial(TimeSets \cup {{}})
  BY <1>1, <1>2 DEF Partial
<1> QED
  BY <1>1, <1>3 DEF Contents, ViewSet, ItemsInv, Rows

\* A plan on a locked timetable whose result was validated on the contents that
\* the transaction read.
LEMMA Planned ==
  ASSUME ItemsInv, NEW r \in Reqs, NEW op \in Ops \ {"create"}, NEW t \in Tts,
         NEW p \in PlanSet, Prepare(r, op, t, p),
         IF op = "copy" THEN t \in FreshTts ELSE t = tx[r].row,
         NEW c, c = IF op = "copy" THEN Nothing ELSE Contents(tx[r].row),
         p.new \subseteq FreshBlocks, p.new \subseteq DOMAIN p.put,
         DOMAIN p.put \subseteq p.new \cup DOMAIN c.blk,
         Sound(Final(c, p)),
         op \in {"lecture", "copy"} \/ OnlyOld(c, Final(c, p)),
         op = "delete" => Final(c, p).lec = {} /\ DOMAIN Final(c, p).blk = {}
  PROVE  ItemsInv'
<1> DEFINE y == [tx[r] EXCEPT !.pc = "writing", !.op = op, !.t = t,
                              !.view = Contents(tx[r].row), !.plan = p]
<1>1. tx[r] \in TxSet /\ tx[r].pc = "reading" /\ Fit(tx[r])
  BY DEF Prepare, ItemsInv, Typed
<1>2. tx[r].row \in Tts /\ tx[r].row # NoTt /\ tx[r].row \in used /\ tx[r].user \in Users
  BY <1>1 DEF Fit, ItemsInv, Typed
<1>3. y \in TxSet
  BY <1>1, <1>2, ContentsTyped DEF TxSet
<1>4. /\ y.pc = "writing" /\ y.op = op /\ y.user = tx[r].user /\ y.row = tx[r].row
      /\ y.t = t /\ y.view = Contents(tx[r].row) /\ y.plan = p
  BY <1>1 DEF TxSet
<1>5. tx' = [tx EXCEPT ![r] = y] /\ UNCHANGED db
  BY DEF Prepare
<1> HIDE DEF y
<1>6. Permits(y)
  BY <1>4 DEF Prepare, Allowed, Owned, Permits
<1>7. PlanOK(y)
  BY <1>4 DEF PlanOK, Before
<1>8. Fit(y)
  BY <1>2, <1>4, <1>6, <1>7 DEF Fit, FreshTts, FreshBlocks
<1>9. ASSUME NEW q \in Reqs \ {r} PROVE Apart(y, tx[q]) /\ Apart(tx[q], y)
  <2>1. Apart(tx[r], tx[q]) /\ Fit(tx[q])
    BY DEF ItemsInv
  <2>2. p.new \cap tx[q].plan.new = {}
    BY DEF FreshBlocks, PendingBlocks
  <2>3. Makes(tx[q]) => tx[q].t \notin used
    BY <2>1 DEF Fit, Makes
  <2>4. Makes(y) \/ Makes(tx[q]) => y.t # tx[q].t
    BY <1>2, <1>4, <2>3 DEF Makes, FreshTts
  <2> QED
    BY <1>1, <1>4, <2>1, <2>2, <2>4 DEF Apart, Locks
<1> QED
  BY <1>3, <1>5, <1>8, <1>9, Local

\* A plan that needs no lock: a timetable made from a list of lectures, and a
\* home screen without a timetable.
LEMMA PlannedUnlocked ==
  ASSUME ItemsInv, NEW r \in Reqs, NEW op \in {"create", "home"}, NEW t, NEW p \in PlanSet,
         PrepareUnlocked(r, op, t, p),
         IF op = "create" THEN t \in FreshTts ELSE t = NoTt,
         p.new = {}, DOMAIN p.put = {}
  PROVE  ItemsInv'
<1>1. PICK u \in Users : tx' = [tx EXCEPT ![r] = [Idle EXCEPT !.pc = "writing", !.op = op,
                                   !.user = u, !.t = t, !.plan = p]]
  BY DEF PrepareUnlocked
<1> DEFINE y == [Idle EXCEPT !.pc = "writing", !.op = op, !.user = u, !.t = t, !.plan = p]
<1>2. y \in TxSet
  BY IdleFits DEF Idle, TxSet, Ops, FreshTts
<1>3. /\ y.pc = "writing" /\ y.op = op /\ y.user = u /\ y.row = NoTt
      /\ y.t = t /\ y.view = Nothing /\ y.plan = p
  BY DEF Idle
<1>4. tx' = [tx EXCEPT ![r] = y] /\ UNCHANGED db
  BY <1>1 DEF PrepareUnlocked
<1> HIDE DEF y
<1>5. Before(y) = Nothing /\ DOMAIN Nothing.blk = {} /\ DOMAIN Final(Nothing, p).blk = {}
  BY <1>3 DEF Before, Nothing, Final
<1>6. PlanOK(y)
  BY <1>3, <1>5 DEF PlanOK, Sound, OnlyOld
<1>7. Fit(y)
  BY <1>3, <1>6 DEF Fit, FreshTts
<1>8. ASSUME NEW q \in Reqs \ {r} PROVE Apart(y, tx[q]) /\ Apart(tx[q], y)
  <2>1. Fit(tx[q])
    BY DEF ItemsInv
  <2>2. Makes(tx[q]) => tx[q].t # NoTt
    BY <2>1, ItemsAssumption DEF Fit, Makes
  <2> QED
    BY <1>3, <2>2 DEF Apart, Locks, Makes, FreshTts
<1> QED
  BY <1>2, <1>4, <1>7, <1>8, Local

\* A change that passes validateCustomblockTimes and, but for the endpoints of
\* one lecture, the comparison with the final composition.
LEMMA ValidationSuffices ==
  ASSUME NEW c \in ViewSet, NEW p \in PlanSet, NEW op, Sound(c), Permitted(op, c, p),
         p.new \subseteq DOMAIN p.put, DOMAIN p.put \subseteq p.new \cup DOMAIN c.blk
  PROVE  /\ Sound(Final(c, p))
         /\ op = "lecture" \/ OnlyOld(c, Final(c, p))
<1> DEFINE f == Final(c, p)
<1>1. /\ f.lec = (c.lec \ p.delL) \cup p.addL
      /\ DOMAIN f.blk = (DOMAIN c.blk \ p.delB) \cup p.new
      /\ \A b \in DOMAIN f.blk : f.blk[b] = IF b \in DOMAIN p.put THEN p.put[b] ELSE c.blk[b]
  BY DEF Final
<1>2. /\ DOMAIN c.blk \subseteq Blocks /\ DOMAIN p.put \subseteq Blocks /\ p.new \subseteq Blocks
      /\ c.lec \subseteq Lecs /\ p.addL \subseteq Lecs /\ p.delL \subseteq Lecs
      /\ p.delB \subseteq Blocks
  BY DEF ViewSet, PlanSet, Partial
<1> HIDE DEF f
<1>3. \A b \in DOMAIN f.blk : b \in Blocks /\ b \notin f.lec /\ TimesIn(f, b) = f.blk[b]
  BY <1>1, <1>2, ItemsAssumption DEF TimesIn
<1>4. \A l \in f.lec : TimesIn(f, l) = class[l] /\ l \notin DOMAIN f.blk
  BY <1>1, <1>2, ItemsAssumption DEF TimesIn
<1>5. \A b \in DOMAIN f.blk : ValidTimes(f.blk[b])
  BY <1>1 DEF Permitted, Sound
<1>6. ASSUME NEW items, NoConflict(f, items),
             \A b \in DOMAIN f.blk \ items : b \in DOMAIN c.blk /\ f.blk[b] = c.blk[b],
             f.lec \ c.lec \subseteq items
      PROVE  Sound(f) /\ OnlyOld(c, f)
  <2>1. ASSUME NEW b \in DOMAIN f.blk, NEW a \in DOMAIN f.blk \ {b}
        PROVE  ~Clash(f.blk[a], f.blk[b])
    <3>1. CASE a \in items
      BY <1>3, <1>6, <3>1 DEF NoConflict
    <3>2. CASE b \in items
      BY <1>3, <1>6, <3>2, ClashSymmetric DEF NoConflict
    <3>3. CASE a \notin items /\ b \notin items
      BY <1>6, <3>3 DEF Sound
    <3> QED
      BY <3>1, <3>2, <3>3
  <2>2. ASSUME NEW b \in DOMAIN f.blk, NEW l \in f.lec, Clash(f.blk[b], class[l])
        PROVE  b \notin items /\ l \notin items
    BY <1>3, <1>4, <1>6, <2>2, ClashSymmetric DEF NoConflict
  <2> QED
    BY <1>5, <1>6, <2>1, <2>2 DEF Sound, OnlyOld
<1>7. CASE op = "items" /\ ByBatch(c, p)
  <2>1. NoConflict(f, Changed(c, p))
    BY <1>7 DEF ByBatch, f
  <2>2. \A b \in DOMAIN f.blk \ Changed(c, p) : b \in DOMAIN c.blk /\ f.blk[b] = c.blk[b]
    BY <1>1 DEF Changed
  <2> QED
    BY <1>1, <1>6, <2>1, <2>2 DEF Changed, f
<1>8. CASE op = "lecture" /\ ByLecture(p)
  <2>1. IsFiniteSet(p.addL \cup p.delL) /\ IsFiniteSet(p.delB \cup DOMAIN p.put)
    BY <1>2, ItemsAssumption, FS_Subset, FS_Union
  <2>2. /\ Cardinality(p.addL \cup p.delL) \in Nat /\ Cardinality(p.delB \cup DOMAIN p.put) \in Nat
        /\ Cardinality(p.addL \cup p.delL) # 0
    BY <1>8, <2>1, FS_CardinalityType, FS_EmptySet DEF ByLecture
  <2>3. Cardinality(p.delB \cup DOMAIN p.put) = 0
    BY <1>8, <2>2 DEF ByLecture, Size
  <2>4. p.delB \cup DOMAIN p.put = {}
    BY <2>1, <2>3, FS_EmptySet
  <2>5. DOMAIN f.blk = DOMAIN c.blk /\ \A b \in DOMAIN f.blk : f.blk[b] = c.blk[b]
    BY <1>1, <2>4
  <2> QED
    BY <1>8, <2>5 DEF Sound, f
<1>9. CASE op = "block" /\ ByBlock(c, p)
  <2>1. NoConflict(f, DOMAIN p.put) /\ f.lec \subseteq c.lec
    BY <1>1, <1>9 DEF ByBlock, f
  <2>2. \A b \in DOMAIN f.blk \ DOMAIN p.put : b \in DOMAIN c.blk /\ f.blk[b] = c.blk[b]
    BY <1>1
  <2> QED
    BY <1>6, <2>1, <2>2 DEF f
<1> QED
  BY <1>7, <1>8, <1>9 DEF Permitted

\* The editing endpoints.
LEMMA EditStep ==
  ASSUME ItemsInv, NEW r \in Reqs, Edit(r)
  PROVE  ItemsInv'
<1> DEFINE c == Contents(tx[r].row)
<1>1. PICK addL \in SUBSET (Lecs \ c.lec), delL \in SUBSET c.lec,
           delB \in SUBSET DOMAIN c.blk, new \in SUBSET FreshBlocks :
        \E upd \in SUBSET (DOMAIN c.blk \ delB) :
        \E put \in [new \cup upd -> TimeSets], op \in {"items", "lecture", "block"} :
          LET p == [addL |-> addL, delL |-> delL, new |-> new, delB |-> delB, put |-> put]
          IN  Permitted(op, c, p) /\ Prepare(r, op, tx[r].row, p)
  BY DEF Edit
<1>2. PICK upd \in SUBSET (DOMAIN c.blk \ delB) :
        \E put \in [new \cup upd -> TimeSets], op \in {"items", "lecture", "block"} :
          LET p == [addL |-> addL, delL |-> delL, new |-> new, delB |-> delB, put |-> put]
          IN  Permitted(op, c, p) /\ Prepare(r, op, tx[r].row, p)
  BY <1>1
<1>3. PICK put \in [new \cup upd -> TimeSets], op \in {"items", "lecture", "block"} :
          LET p == [addL |-> addL, delL |-> delL, new |-> new, delB |-> delB, put |-> put]
          IN  Permitted(op, c, p) /\ Prepare(r, op, tx[r].row, p)
  BY <1>2
<1> DEFINE p == [addL |-> addL, delL |-> delL, new |-> new, delB |-> delB, put |-> put]
<1>4. tx[r].row \in Tts
  BY DEF Edit, ItemsInv, Typed, TxSet, Fit
<1>5. c \in ViewSet /\ Sound(c) /\ DOMAIN c.blk \subseteq Blocks /\ c.lec \subseteq Lecs
  BY <1>4, ContentsTyped DEF ViewSet, Partial
<1>6. put \in Partial(TimeSets \cup {{}})
  <2>1. put \in [new \cup upd -> TimeSets \cup {{}}] /\ new \cup upd \in SUBSET Blocks
    BY <1>5 DEF FreshBlocks
  <2> QED
    BY <2>1 DEF Partial
<1>7. p \in PlanSet
  BY <1>5, <1>6 DEF PlanSet, FreshBlocks
<1>8. Permitted(op, c, p) /\ Prepare(r, op, tx[r].row, p)
  BY <1>3
<1>9. /\ p.new \subseteq FreshBlocks /\ p.new \subseteq DOMAIN p.put
      /\ DOMAIN p.put \subseteq p.new \cup DOMAIN c.blk
  OBVIOUS
<1>10. op \in Ops \ {"create", "copy", "delete"}
  BY DEF Ops
<1> HIDE DEF c, p
<1>11. Sound(Final(c, p)) /\ (op \in {"lecture", "copy"} \/ OnlyOld(c, Final(c, p)))
  BY <1>5, <1>7, <1>8, <1>9, ValidationSuffices
<1> QED
  BY <1>4, <1>7, <1>8, <1>9, <1>10, <1>11, Planned DEF c

\* createTimetable from a source: its blocks get rows of their own.
LEMMA CopyStep ==
  ASSUME ItemsInv, NEW r \in Reqs, Copy(r)
  PROVE  ItemsInv'
<1> DEFINE c == Contents(tx[r].row)
<1>1. PICK t \in FreshTts, g \in Injection(DOMAIN c.blk, FreshBlocks) :
        Prepare(r, "copy", t,
                [NoPlan EXCEPT !.addL = c.lec, !.new = Range(g),
                   !.put = [b \in Range(g) |-> c.blk[CHOOSE a \in DOMAIN c.blk : g[a] = b]]])
  BY DEF Copy
<1> DEFINE put == [b \in Range(g) |-> c.blk[CHOOSE a \in DOMAIN c.blk : g[a] = b]]
           p == [NoPlan EXCEPT !.addL = c.lec, !.new = Range(g), !.put = put]
<1>2. tx[r].row \in Tts
  BY DEF Copy, ItemsInv, Typed, TxSet, Fit
<1>3. c \in ViewSet /\ Sound(c) /\ DOMAIN c.blk \subseteq Blocks
  BY <1>2, ContentsTyped DEF ViewSet, Partial
<1>4. /\ g \in [DOMAIN c.blk -> FreshBlocks] /\ Range(g) \subseteq FreshBlocks
      /\ \A x, y \in DOMAIN c.blk : g[x] = g[y] => x = y
      /\ \A b \in Range(g) : \E a \in DOMAIN c.blk : g[a] = b
  BY DEF Injection, IsInjective, Range
<1>5. \A b \in Range(g) : \E a \in DOMAIN c.blk : g[a] = b /\ put[b] = c.blk[a]
  BY <1>4
<1>6. \A a \in DOMAIN c.blk : c.blk[a] \in TimeSets \cup {{}}
  BY <1>3 DEF ViewSet, Partial
<1>7. put \in Partial(TimeSets \cup {{}}) /\ DOMAIN put = Range(g)
  <2>1. put \in [Range(g) -> TimeSets \cup {{}}] /\ Range(g) \in SUBSET Blocks
    BY <1>4, <1>5, <1>6 DEF FreshBlocks
  <2> QED
    BY <2>1 DEF Partial
<1>8. Prepare(r, "copy", t, p)
  BY <1>1
<1> HIDE DEF put
<1>9. p.addL = c.lec /\ p.new = Range(g) /\ p.put = put
  BY DEF NoPlan
<1>10. p \in PlanSet
  <2>1. NoPlan \in PlanSet
    BY IdleFits DEF Idle, TxSet
  <2> QED
    BY <1>3, <1>4, <1>7, <2>1 DEF PlanSet, ViewSet, FreshBlocks
<1> HIDE DEF p
<1>11. DOMAIN Final(Nothing, p).blk = Range(g) /\ \A b \in Range(g) : Final(Nothing, p).blk[b] = put[b]
  BY <1>7, <1>9 DEF Final, Nothing
<1>12. Sound(Final(Nothing, p))
  <2> SUFFICES ASSUME NEW b \in Range(g)
               PROVE  ValidTimes(put[b]) /\ \A d \in Range(g) \ {b} : ~Clash(put[d], put[b])
    BY <1>11 DEF Sound
  <2>1. PICK a \in DOMAIN c.blk : g[a] = b /\ put[b] = c.blk[a]
    BY <1>5
  <2>2. ASSUME NEW d \in Range(g) \ {b} PROVE ~Clash(put[d], put[b])
    <3>1. PICK e \in DOMAIN c.blk : g[e] = d /\ put[d] = c.blk[e]
      BY <1>5
    <3> QED
      BY <1>3, <2>1, <3>1 DEF Sound
  <2> QED
    BY <1>3, <2>1, <2>2 DEF Sound
<1>13. p.new \subseteq FreshBlocks /\ p.new \subseteq DOMAIN p.put /\ DOMAIN p.put \subseteq p.new
  BY <1>4, <1>7, <1>9
<1>14. "copy" \in Ops \ {"create"} /\ t \in Tts
  BY DEF Ops, FreshTts
<1> QED
  BY <1>8, <1>10, <1>12, <1>13, <1>14, Planned

\* deleteTimetable plans to remove every row it has read.
LEMMA DeleteStep ==
  ASSUME ItemsInv, NEW r \in Reqs, Delete(r)
  PROVE  ItemsInv'
<1> DEFINE c == Contents(tx[r].row)
           p == [NoPlan EXCEPT !.delL = c.lec, !.delB = DOMAIN c.blk]
<1>1. tx[r].row \in Tts
  BY DEF Delete, ItemsInv, Typed, TxSet, Fit
<1>2. c.lec \subseteq Lecs /\ DOMAIN c.blk \subseteq Blocks
  BY <1>1, ContentsTyped DEF ViewSet, Partial
<1>3. /\ p.addL = {} /\ p.delL = c.lec /\ p.new = {} /\ p.delB = DOMAIN c.blk
      /\ DOMAIN p.put = {}
  BY DEF NoPlan
<1>4. p \in PlanSet
  <2>1. NoPlan \in PlanSet
    BY IdleFits DEF Idle, TxSet
  <2> QED
    BY <1>2, <2>1 DEF PlanSet
<1>5. Prepare(r, "delete", tx[r].row, p)
  BY DEF Delete
<1> HIDE DEF c, p
<1>6. Final(c, p).lec = {} /\ DOMAIN Final(c, p).blk = {}
  BY <1>3 DEF Final
<1>7. Sound(Final(c, p)) /\ OnlyOld(c, Final(c, p))
  BY <1>6 DEF Sound, OnlyOld
<1>8. "delete" \in Ops \ {"create", "copy"}
  BY DEF Ops
<1> QED
  BY <1>1, <1>3, <1>4, <1>5, <1>6, <1>7, <1>8, Planned DEF c

\* setHomeTimetable changes no contents.
LEMMA SetHomeStep ==
  ASSUME ItemsInv, NEW r \in Reqs, SetHome(r)
  PROVE  ItemsInv'
<1>1. NoPlan \in PlanSet /\ NoPlan.new = {} /\ DOMAIN NoPlan.put = {}
  BY IdleFits DEF Idle, TxSet, NoPlan
<1>2. CASE PrepareUnlocked(r, "home", NoTt, NoPlan)
  BY <1>1, <1>2, PlannedUnlocked
<1>3. CASE tx[r].pc = "reading" /\ Prepare(r, "home", tx[r].row, NoPlan)
  <2> DEFINE c == Contents(tx[r].row)
             f == Final(c, NoPlan)
  <2>1. tx[r].row \in Tts
    BY <1>3 DEF ItemsInv, Typed, TxSet, Fit
  <2>2. Sound(c)
    BY <2>1, ContentsTyped
  <2>3. f.lec = c.lec /\ DOMAIN f.blk = DOMAIN c.blk /\ \A b \in DOMAIN c.blk : f.blk[b] = c.blk[b]
    BY DEF Final, NoPlan
  <2> HIDE DEF c, f
  <2>4. Sound(f) /\ OnlyOld(c, f)
    BY <2>2, <2>3 DEF Sound, OnlyOld
  <2>5. "home" \in Ops \ {"create", "copy", "delete"}
    BY DEF Ops
  <2> QED
    BY <1>1, <1>3, <2>1, <2>4, <2>5, Planned DEF c, f
<1> QED
  BY <1>2, <1>3 DEF SetHome

\* createTimetable from a list of lectures writes no block.
LEMMA CreateStep ==
  ASSUME ItemsInv, NEW r \in Reqs, Create(r)
  PROVE  ItemsInv'
<1>1. PICK t \in FreshTts, L \in SUBSET Lecs :
        PrepareUnlocked(r, "create", t, [NoPlan EXCEPT !.addL = L])
  BY DEF Create
<1> DEFINE p == [NoPlan EXCEPT !.addL = L]
<1>2. NoPlan \in PlanSet
  BY IdleFits DEF Idle, TxSet
<1>3. p \in PlanSet /\ p.new = {} /\ DOMAIN p.put = {}
  BY <1>2 DEF PlanSet, NoPlan
<1>4. PrepareUnlocked(r, "create", t, p)
  BY <1>1
<1> HIDE DEF p
<1> QED
  BY <1>3, <1>4, PlannedUnlocked

\* What a commit of contents writes: the timetable of the transaction gets the
\* validated result, every other one keeps its contents and its block rows.
LEMMA Committed ==
  ASSUME ItemsInv, NEW r \in Reqs, CommitItems(r),
         NEW t, t = tx[r].t, NEW f, f = Final(Before(tx[r]), tx[r].plan)
  PROVE  /\ t \in Tts /\ PlanOK(tx[r]) /\ Before(tx[r]) = Contents(t)
         /\ lec' = [lec EXCEPT ![t] = f.lec] /\ blk' = [blk EXCEPT ![t] = DOMAIN f.blk]
         /\ \A b \in DOMAIN f.blk : times'[b] = f.blk[b]
         /\ DOMAIN f.blk \subseteq blk[t] \cup tx[r].plan.new
         /\ \A b \in Blocks : b \notin blk[t] \cup tx[r].plan.new => times'[b] = times[b]
         /\ \A u \in Tts \ {t} : Contents(u)' = Contents(u)
         /\ \A u \in Tts : blk[u] \cap tx[r].plan.new = {}
<1>1. tx[r] \in TxSet /\ Fit(tx[r]) /\ tx[r].pc = "writing" /\ tx[r].op # "home"
  BY DEF CommitItems, ItemsInv, Typed
<1>2. t \in Tts /\ PlanOK(tx[r])
  BY <1>1 DEF Fit, TxSet
<1>3. blk[t] \in SUBSET Blocks
  BY <1>2 DEF ItemsInv, Typed
<1>4. Before(tx[r]) = Contents(t)
  <2>1. CASE tx[r].op \in {"create", "copy"}
    <3>1. lec[t] = {} /\ blk[t] = {}
      BY <1>1, <1>2, <2>1 DEF Fit, ItemsInv, Rows
    <3>2. [b \in {} |-> times[b]] = [b \in {} |-> {}]
      OBVIOUS
    <3> QED
      BY <2>1, <3>1, <3>2 DEF Before, Contents, Nothing
  <2>2. CASE tx[r].op \notin {"create", "copy"}
    BY <1>1, <2>2 DEF Fit, Before
  <2> QED
    BY <2>1, <2>2
<1>5. /\ lec' = [lec EXCEPT ![t] = f.lec] /\ blk' = [blk EXCEPT ![t] = DOMAIN f.blk]
      /\ times' = [b \in Blocks |-> IF b \in DOMAIN tx[r].plan.put THEN tx[r].plan.put[b]
                                    ELSE times[b]]
  BY <1>4 DEF CommitItems
<1>6. DOMAIN Before(tx[r]).blk = blk[t] /\ \A b \in blk[t] : Before(tx[r]).blk[b] = times[b]
  BY <1>4 DEF Contents
<1>7. /\ DOMAIN f.blk = (blk[t] \ tx[r].plan.delB) \cup tx[r].plan.new
      /\ \A b \in DOMAIN f.blk : f.blk[b] = IF b \in DOMAIN tx[r].plan.put
                                            THEN tx[r].plan.put[b] ELSE Before(tx[r]).blk[b]
  BY <1>6 DEF Final
<1>8. /\ tx[r].plan.new \subseteq DOMAIN tx[r].plan.put /\ tx[r].plan.new \subseteq Blocks
      /\ DOMAIN tx[r].plan.put \subseteq tx[r].plan.new \cup blk[t]
  BY <1>1, <1>2, <1>6 DEF PlanOK, TxSet, PlanSet
<1>9. \A b \in DOMAIN f.blk : times'[b] = f.blk[b]
  BY <1>3, <1>5, <1>6, <1>7, <1>8
<1>10. ASSUME NEW u \in Tts PROVE blk[u] \cap tx[r].plan.new = {}
  <2>1. \A b \in tx[r].plan.new : times[b] = {}
    BY <1>1 DEF Fit
  <2>2. \A b \in blk[u] : times[b] # {}
    BY DEF ItemsInv, Rows, Sound, Contents, ValidTimes
  <2> QED
    BY <2>1, <2>2
<1>11. ASSUME NEW u \in Tts \ {t} PROVE Contents(u)' = Contents(u)
  <2>1. lec'[u] = lec[u] /\ blk'[u] = blk[u] /\ blk[u] \in SUBSET Blocks
    BY <1>5 DEF ItemsInv, Typed
  <2>2. blk[u] \cap blk[t] = {}
    BY <1>2 DEF ItemsInv, Rows
  <2>3. \A b \in blk[u] : times'[b] = times[b]
    BY <1>5, <1>8, <1>10, <2>1, <2>2
  <2> QED
    BY <2>1, <2>3 DEF Contents
<1> QED
  BY <1>2, <1>4, <1>5, <1>7, <1>8, <1>9, <1>10, <1>11

\* Another request's view of its own timetable survives a commit.
LEMMA OthersKeep ==
  ASSUME ItemsInv, NEW r \in Reqs, CommitItems(r), NEW q \in Reqs \ {r}
  PROVE  Fit(tx[q])'
<1> DEFINE t == tx[r].t
           z == tx[q]
<1>1. /\ tx[r] \in TxSet /\ Fit(tx[r]) /\ tx[r].pc = "writing" /\ tx[r].op # "home"
      /\ z \in TxSet /\ Fit(z) /\ Apart(tx[r], z) /\ tx'[q] = z
  BY DEF CommitItems, End, ItemsInv, Typed
<1>2. /\ t \in Tts /\ \A u \in Tts \ {t} : Contents(u)' = Contents(u)
      /\ \A b \in Blocks : b \notin blk[t] \cup tx[r].plan.new => times'[b] = times[b]
  BY Committed
<1>3. /\ \A u \in Tts \ {t} : owner'[u] = owner[u]
      /\ used' = used \cup {t} /\ class' = class
  BY DEF CommitItems, ItemsInv, Typed
<1>4. z.pc = "writing" /\ z.row # NoTt => z.row \in Tts \ {t}
  <2>1. CASE tx[r].op \in {"create", "copy"}
    BY <1>1, <2>1 DEF Fit, TxSet
  <2>2. CASE tx[r].op \notin {"create", "copy"}
    BY <1>1, <2>2 DEF Fit, Apart, Locks, TxSet
  <2> QED
    BY <2>1, <2>2
<1>5. \A b \in z.plan.new : times'[b] = {}
  <2> SUFFICES ASSUME NEW b \in z.plan.new PROVE times'[b] = {}
    OBVIOUS
  <2>1. times[b] = {} /\ b \in Blocks /\ b \notin tx[r].plan.new
    BY <1>1 DEF Fit, Apart, TxSet, PlanSet
  <2>2. b \notin blk[t]
    BY <1>2, <2>1 DEF ItemsInv, Rows, Sound, Contents, ValidTimes
  <2> QED
    BY <1>2, <2>1, <2>2
<1>6. z.pc = "writing" /\ z.op \in {"create", "copy"} => z.t \in Tts \ used'
  BY <1>1, <1>3 DEF Fit, Apart, Makes
<1>7. PlanOK(z)' <=> PlanOK(tx[q])
  BY <1>1, <1>3 DEF PlanOK, OnlyOld, Before
<1>8. z.pc = "writing" /\ z.row # NoTt => z.view = Contents(z.row)' /\ Permits(z)'
  <2> SUFFICES ASSUME z.pc = "writing", z.row # NoTt
               PROVE  z.view = Contents(z.row)' /\ Permits(z)'
    OBVIOUS
  <2>1. Contents(z.row)' = Contents(z.row) /\ owner'[z.row] = owner[z.row]
    BY <1>1, <1>2, <1>3, <1>4
  <2> QED
    BY <1>1, <2>1 DEF Fit, Permits
<1> QED
  BY <1>1, <1>3, <1>5, <1>6, <1>7, <1>8 DEF Fit

\* The rows of a transaction become visible.
LEMMA CommitStep ==
  ASSUME ItemsInv, NEW r \in Reqs, CommitItems(r)
  PROVE  ItemsInv'
<1> PICK t, f : t = tx[r].t /\ f = Final(Before(tx[r]), tx[r].plan)
  OBVIOUS
<1>1. tx[r] \in TxSet /\ Fit(tx[r]) /\ tx[r].pc = "writing" /\ tx[r].op # "home"
  BY DEF CommitItems, ItemsInv, Typed
<1>2. /\ t \in Tts /\ PlanOK(tx[r]) /\ Before(tx[r]) = Contents(t)
      /\ lec' = [lec EXCEPT ![t] = f.lec] /\ blk' = [blk EXCEPT ![t] = DOMAIN f.blk]
      /\ \A b \in DOMAIN f.blk : times'[b] = f.blk[b]
      /\ DOMAIN f.blk \subseteq blk[t] \cup tx[r].plan.new
      /\ \A u \in Tts \ {t} : Contents(u)' = Contents(u)
      /\ \A u \in Tts : blk[u] \cap tx[r].plan.new = {}
  BY Committed
<1>3. /\ owner' = [owner EXCEPT ![t] = CASE tx[r].op \in {"create", "copy"} -> tx[r].user
                                         [] tx[r].op = "delete" -> NoUser
                                         [] OTHER -> @]
      /\ times' = [b \in Blocks |-> IF b \in DOMAIN tx[r].plan.put THEN tx[r].plan.put[b]
                                    ELSE times[b]]
      /\ used' = used \cup {t} /\ class' = class
      /\ home' = [u \in Users |-> IF tx[r].op = "delete" /\ home[u] = t THEN NoTt ELSE home[u]]
      /\ tx' = [tx EXCEPT ![r] = Idle]
  BY DEF CommitItems, End
<1>4. /\ f.lec \subseteq Lecs /\ DOMAIN f.blk \subseteq Blocks /\ Sound(f)
      /\ tx[r].op = "delete" => f.lec = {} /\ DOMAIN f.blk = {}
  <2>1. Before(tx[r]).lec \subseteq Lecs
    BY <1>2, ContentsTyped DEF ViewSet
  <2>2. f.lec \subseteq Lecs
    BY <1>1, <2>1 DEF Final, TxSet, PlanSet
  <2> QED
    BY <1>1, <1>2, <2>2 DEF PlanOK, TxSet, PlanSet, ItemsInv, Typed
<1>5. tx[r].op \notin {"create", "copy"} => owner[t] # NoUser
  BY <1>1 DEF Fit, Permits
<1>6. tx[r].user \in Users /\ (tx[r].op \in {"create", "copy"} => t \notin used)
  BY <1>1 DEF Fit
<1>7. Typed'
  <2>1. \A b \in DOMAIN tx[r].plan.put : tx[r].plan.put[b] \in TimeSets \cup {{}}
    BY <1>1 DEF TxSet, PlanSet, Partial
  <2>2. times' \in [Blocks -> TimeSets \cup {{}}]
    BY <1>3, <2>1 DEF ItemsInv, Typed
  <2>3. owner' \in [Tts -> Users \cup {NoUser}] /\ home' \in [Users -> Tts \cup {NoTt}]
    BY <1>2, <1>3, <1>6 DEF ItemsInv, Typed
  <2>4. lec' \in [Tts -> SUBSET Lecs] /\ blk' \in [Tts -> SUBSET Blocks]
    BY <1>2, <1>4 DEF ItemsInv, Typed
  <2> QED
    BY <1>2, <1>3, <2>2, <2>3, <2>4, IdleFits DEF ItemsInv, Typed
<1>8. Rows'
  <2>1. \A u \in Tts \ {t} : owner'[u] = owner[u] /\ lec'[u] = lec[u] /\ blk'[u] = blk[u]
    BY <1>2, <1>3 DEF ItemsInv, Typed
  <2>2. /\ lec'[t] = f.lec /\ blk'[t] = DOMAIN f.blk
        /\ owner'[t] = CASE tx[r].op \in {"create", "copy"} -> tx[r].user
                         [] tx[r].op = "delete" -> NoUser
                         [] OTHER -> owner[t]
    BY <1>2, <1>3 DEF ItemsInv, Typed
  <2>3. \A u \in Tts : u \notin used' => owner'[u] = NoUser
    BY <1>3, <2>1 DEF ItemsInv, Rows
  <2>4. owner'[t] = NoUser => lec'[t] = {} /\ blk'[t] = {}
    BY <1>4, <1>5, <1>6, <2>2, ItemsAssumption
  <2>5. \A u \in Tts : owner'[u] = NoUser => lec'[u] = {} /\ blk'[u] = {}
    BY <2>1, <2>4 DEF ItemsInv, Rows
  <2>6. \A u \in Tts : Sound(Contents(u)')
    <3>1. PICK g : g = Contents(t)'
      OBVIOUS
    <3>2. DOMAIN g.blk = DOMAIN f.blk /\ \A b \in DOMAIN f.blk : g.blk[b] = f.blk[b]
      BY <1>2, <2>2, <3>1 DEF Contents
    <3>3. Sound(g)
      BY <1>4, <3>2 DEF Sound
    <3> QED
      BY <1>2, <3>1, <3>3 DEF ItemsInv, Rows
  <2>7. \A u \in Tts \ {t} : blk'[t] \cap blk'[u] = {}
    BY <1>2, <2>1, <2>2 DEF ItemsInv, Rows
  <2>8. \A u, v \in Tts : u # v => blk'[u] \cap blk'[v] = {}
    BY <2>1, <2>7 DEF ItemsInv, Rows
  <2>9. ASSUME NEW u \in Users, home'[u] # NoTt PROVE owner'[home'[u]] = u
    <3>1. home'[u] = home[u] /\ owner[home[u]] = u /\ home[u] \in Tts
      BY <1>3, <2>9 DEF ItemsInv, Typed, Rows
    <3>2. CASE home[u] = t
      BY <1>3, <1>6, <2>2, <2>9, <3>1, <3>2, ItemsAssumption DEF ItemsInv, Rows
    <3>3. CASE home[u] # t
      BY <2>1, <3>1, <3>3
    <3> QED
      BY <3>2, <3>3
  <2> QED
    BY <2>3, <2>5, <2>6, <2>8, <2>9 DEF Rows, Sound
<1>9. \A q \in Reqs : tx'[q] = IF q = r THEN Idle ELSE tx[q]
  BY <1>3 DEF ItemsInv, Typed
<1>10. ASSUME NEW q \in Reqs PROVE Fit(tx[q])'
  <2>1. CASE q = r
    <3>1. Idle.pc = "idle" /\ Idle.row = NoTt /\ Idle.t = NoTt /\ Idle.plan = NoPlan /\ NoPlan.new = {}
      BY DEF Idle, NoPlan
    <3> QED
      BY <1>9, <2>1, <3>1 DEF Fit
  <2>2. CASE q # r
    BY <2>2, OthersKeep
  <2> QED
    BY <2>1, <2>2
<1>11. \A p, q \in Reqs : p # q => Apart(tx[p], tx[q])'
  <2>1. \A q \in Reqs : Fit(tx[q])
    BY DEF ItemsInv
  <2> QED
    BY <1>9, <2>1, IdleFits DEF ItemsInv, Apart, Locks, Makes
<1> QED
  BY <1>7, <1>8, <1>10, <1>11 DEF ItemsInv

\* setHomeTimetable commits: the selected timetable is the user's own.
LEMMA CommitHomeStep ==
  ASSUME ItemsInv, NEW r \in Reqs, CommitHome(r)
  PROVE  ItemsInv'
<1>1. /\ tx[r] \in TxSet /\ Fit(tx[r]) /\ tx[r].pc = "writing" /\ tx[r].op = "home"
      /\ home' = [home EXCEPT ![tx[r].user] = tx[r].t] /\ tx' = [tx EXCEPT ![r] = Idle]
      /\ UNCHANGED <<owner, used, lec, blk, times, class>>
  BY DEF CommitHome, End, ItemsInv, Typed
<1>2. /\ tx[r].user \in Users /\ tx[r].t = tx[r].row
      /\ tx[r].t # NoTt => owner[tx[r].t] = tx[r].user
  BY <1>1 DEF Fit, Permits
<1>3. Typed'
  BY <1>1, <1>2, IdleFits DEF ItemsInv, Typed, TxSet
<1>4. Rows'
  <2>1. \A u \in Users : home'[u] # NoTt => owner'[home'[u]] = u
    BY <1>1, <1>2 DEF ItemsInv, Typed, Rows
  <2> QED
    BY <1>1, <2>1 DEF ItemsInv, Rows, Contents
<1>5. \A q \in Reqs : tx'[q] = IF q = r THEN Idle ELSE tx[q]
  BY <1>1 DEF ItemsInv, Typed
<1>6. \A z : Fit(z)' <=> Fit(z)
  BY <1>1 DEF Fit, PlanOK, OnlyOld, Before, Contents, Permits
<1>7. \A q \in Reqs : Fit(tx[q])'
  BY <1>5, <1>6, IdleFits DEF ItemsInv
<1>8. \A q \in Reqs : Fit(tx[q])
  BY DEF ItemsInv
<1>9. \A p, q \in Reqs : p # q => Apart(tx[p], tx[q])'
  BY <1>5, <1>8, IdleFits DEF ItemsInv, Apart, Locks, Makes
<1> QED
  BY <1>3, <1>4, <1>7, <1>9 DEF ItemsInv

\* The sync replaces class times under the requests that have checked them.
LEMMA SyncStep ==
  ASSUME ItemsInv, NEW l \in Lecs, SyncClasstimes(l)
  PROVE  ItemsInv'
<1>1. /\ class' \in [Lecs -> ClassTimes]
      /\ tx' = [r \in Reqs |-> [tx[r] EXCEPT !.moved = (tx[r].pc = "writing")]]
      /\ UNCHANGED <<owner, used, lec, blk, times, home>>
  BY DEF SyncClasstimes, ItemsInv, Typed
<1>2. ASSUME NEW q \in Reqs
      PROVE  /\ tx'[q] \in TxSet /\ (tx[q].pc = "writing" => tx'[q].moved)
             /\ tx'[q].pc = tx[q].pc /\ tx'[q].op = tx[q].op /\ tx'[q].user = tx[q].user
             /\ tx'[q].row = tx[q].row /\ tx'[q].t = tx[q].t
             /\ tx'[q].view = tx[q].view /\ tx'[q].plan = tx[q].plan
  <2>1. tx[q] \in TxSet /\ tx'[q] = [tx[q] EXCEPT !.moved = (tx[q].pc = "writing")]
    BY <1>1 DEF ItemsInv, Typed
  <2>2. tx[q].pc = "writing" => (tx[q].pc = "writing") = TRUE
    OBVIOUS
  <2> QED
    BY <2>1, <2>2 DEF TxSet
<1>3. Typed'
  BY <1>1, <1>2 DEF ItemsInv, Typed
<1>4. Rows'
  BY <1>1 DEF ItemsInv, Rows, Contents
<1>5. ASSUME NEW q \in Reqs PROVE Fit(tx[q])'
  <2>1. tx[q].pc = "writing" => PlanOK(tx[q])'
    BY <1>2 DEF ItemsInv, Fit, PlanOK, Before
  <2>2. Contents(tx[q].row)' = Contents(tx[q].row) /\ (Permits(tx[q])' <=> Permits(tx[q]))
    BY <1>1, <1>2 DEF Contents, Permits
  <2>3. Fit(tx[q])
    BY DEF ItemsInv
  <2> QED
    BY <1>1, <1>2, <2>1, <2>2, <2>3 DEF Fit
<1>6. \A p, q \in Reqs : p # q => Apart(tx[p], tx[q])'
  BY <1>2 DEF ItemsInv, Apart, Locks, Makes
<1> QED
  BY <1>3, <1>4, <1>5, <1>6 DEF ItemsInv

\* A request that begins, or waits for the lock of its timetable and gets it.
LEMMA LockStep ==
  ASSUME ItemsInv, NEW r \in Reqs, Begin(r) \/ LockTimetable(r)
  PROVE  ItemsInv'
<1>1. CASE Begin(r)
  <2>1. PICK u \in Users, t \in used :
          tx' = [tx EXCEPT ![r] = [Idle EXCEPT !.pc = "locking", !.user = u, !.row = t]]
    BY <1>1 DEF Begin
  <2> DEFINE y == [Idle EXCEPT !.pc = "locking", !.user = u, !.row = t]
  <2>2. t \in Tts /\ t # NoTt
    BY ItemsAssumption DEF ItemsInv, Typed
  <2>3. y \in TxSet
    BY <2>2, IdleFits DEF TxSet
  <2>4. /\ y.pc = "locking" /\ y.user = u /\ y.row = t /\ y.t = NoTt /\ y.plan = NoPlan
        /\ NoPlan.new = {}
    BY DEF Idle, NoPlan
  <2>5. tx' = [tx EXCEPT ![r] = y] /\ UNCHANGED db
    BY <1>1, <2>1 DEF Begin
  <2> HIDE DEF y
  <2>6. Fit(y)
    BY <2>2, <2>4 DEF Fit
  <2>7. \A q \in Reqs : Makes(tx[q]) => tx[q].t # NoTt
    BY ItemsAssumption DEF ItemsInv, Fit, Makes
  <2>8. \A q \in Reqs \ {r} : Apart(y, tx[q]) /\ Apart(tx[q], y)
    BY <2>4, <2>7 DEF Apart, Locks, Makes
  <2> QED
    BY <2>3, <2>5, <2>6, <2>8, Local
<1>2. CASE LockTimetable(r)
  <2> DEFINE y == [tx[r] EXCEPT !.pc = "reading"]
  <2>1. tx[r] \in TxSet /\ Fit(tx[r]) /\ tx[r].pc = "locking" /\ y \in TxSet
    BY <1>2 DEF LockTimetable, ItemsInv, Typed, TxSet
  <2>2. /\ y.pc = "reading" /\ y.user = tx[r].user /\ y.row = tx[r].row
        /\ y.t = tx[r].t /\ y.plan = tx[r].plan
    BY <2>1 DEF TxSet
  <2>3. tx' = [tx EXCEPT ![r] = y] /\ UNCHANGED db
    BY <1>2 DEF LockTimetable
  <2> HIDE DEF y
  <2>4. Fit(y)
    BY <2>1, <2>2 DEF Fit
  <2>5. ASSUME NEW q \in Reqs \ {r} PROVE Apart(y, tx[q]) /\ Apart(tx[q], y)
    <3>1. Apart(tx[r], tx[q]) /\ Fit(tx[q])
      BY DEF ItemsInv
    <3>2. Locks(tx[q]) => tx[q].row # tx[r].row
      BY <1>2 DEF LockTimetable, Holds, Locks
    <3> QED
      BY <2>1, <2>2, <3>1, <3>2 DEF Apart, Makes
  <2> QED
    BY <2>1, <2>3, <2>4, <2>5, Local
<1> QED
  BY <1>1, <1>2

\* The locks and the validations hold through every interleaving of requests,
\* commits and the sync.
THEOREM ItemsHold == Spec => []ItemsInv
<1>1. Init => ItemsInv
  <2> SUFFICES ASSUME Init PROVE ItemsInv
    OBVIOUS
  <2>1. Typed
    BY IdleFits DEF Init, Typed
  <2>2. Rows
    BY DEF Init, Rows, Contents, Sound
  <2>3. \A r \in Reqs : tx[r] = Idle
    BY DEF Init
  <2> QED
    BY <2>1, <2>2, <2>3, IdleFits DEF ItemsInv
<1>2. ItemsInv /\ [Next]_vars => ItemsInv'
  <2> SUFFICES ASSUME ItemsInv, [Next]_vars PROVE ItemsInv'
    OBVIOUS
  <2>1. ASSUME NEW r \in Reqs, Begin(r) \/ LockTimetable(r) PROVE ItemsInv'
    BY <2>1, LockStep
  <2>2. ASSUME NEW r \in Reqs, Edit(r) PROVE ItemsInv'
    BY <2>2, EditStep
  <2>3. ASSUME NEW r \in Reqs, Create(r) PROVE ItemsInv'
    BY <2>3, CreateStep
  <2>4. ASSUME NEW r \in Reqs, Copy(r) PROVE ItemsInv'
    BY <2>4, CopyStep
  <2>5. ASSUME NEW r \in Reqs, Delete(r) PROVE ItemsInv'
    BY <2>5, DeleteStep
  <2>6. ASSUME NEW r \in Reqs, SetHome(r) PROVE ItemsInv'
    BY <2>6, SetHomeStep
  <2>7. ASSUME NEW r \in Reqs, CommitItems(r) PROVE ItemsInv'
    BY <2>7, CommitStep
  <2>8. ASSUME NEW r \in Reqs, CommitHome(r) PROVE ItemsInv'
    BY <2>8, CommitHomeStep
  <2>9. ASSUME NEW r \in Reqs, Abort(r) PROVE ItemsInv'
    <3>1. \A q \in Reqs : Apart(Idle, tx[q]) /\ Apart(tx[q], Idle)
      BY IdleFits DEF ItemsInv
    <3> QED
      BY <2>9, <3>1, IdleFits, Local DEF Abort, End
  <2>10. ASSUME NEW l \in Lecs, SyncClasstimes(l) PROVE ItemsInv'
    BY <2>10, SyncStep
  <2>11. CASE UNCHANGED vars
    <3>1. UNCHANGED <<owner, used, lec, blk, times, class, home, tx>>
      BY <2>11 DEF vars, db
    <3>2. \A z : Fit(z)' <=> Fit(z)
      BY <3>1 DEF Fit, PlanOK, OnlyOld, Before, Contents, Permits
    <3> QED
      BY <3>1, <3>2 DEF ItemsInv, Typed, Rows, Contents, Apart, Locks, Makes
  <2> QED
    BY <2>1, <2>2, <2>3, <2>4, <2>5, <2>6, <2>7, <2>8, <2>9, <2>10, <2>11 DEF Next
<1> QED
  BY <1>1, <1>2, PTL DEF Spec

\* What a request validated is what it commits on.
THEOREM ViewsStayFresh == Spec => []FreshView
<1>1. ItemsInv => FreshView
  BY DEF ItemsInv, Fit, Permits, FreshView, Allowed, Owned
<1> QED
  BY <1>1, ItemsHold, PTL

\* Blocks of a timetable never overlap and belong to no other timetable.
THEOREM BlocksStayApart == Spec => []BlocksApart
<1>1. ItemsInv => BlocksApart
  <2> SUFFICES ASSUME ItemsInv PROVE BlocksApart
    OBVIOUS
  <2>1. TypeOK
    BY DEF ItemsInv, Typed, Rows, TxSet, TypeOK, Shown
  <2>2. ASSUME NEW t \in Tts, NEW b \in blk[t]
        PROVE  ValidTimes(times[b]) /\ \A a \in blk[t] \ {b} : ~Clash(times[a], times[b])
    BY DEF ItemsInv, Rows, Sound, Contents
  <2> QED
    BY <2>1, <2>2 DEF BlocksApart, ItemsInv, Rows
<1> QED
  BY <1>1, ItemsHold, PTL

\* A block comes to overlap a lecture only by an endpoint that compares no
\* times, or by the sync.
THEOREM OverlapsOnlyAdmitted == Spec => OverlapsAdmitted
<1> DEFINE Admitted ==
      \A t \in Tts : \A b \in blk'[t], l \in lec'[t] :
        Clash(times'[b], class'[l]) =>
          \/ b \in blk[t] /\ l \in lec[t] /\ Clash(times[b], class[l])
          \/ class' # class
          \/ \E r \in Reqs : /\ Committing(r, t)
                             /\ tx[r].op \in {"lecture", "copy"} \/ tx[r].moved
<1>1. ItemsInv /\ [Next]_vars => [Admitted]_db
  <2> SUFFICES ASSUME ItemsInv, Next, class' = class,
                      NEW t \in Tts, NEW b \in blk'[t], NEW l \in lec'[t],
                      Clash(times'[b], class[l]), db' # db,
                      b \notin blk[t] \/ l \notin lec[t] \/ ~Clash(times[b], class[l])
               PROVE  \E r \in Reqs : /\ Committing(r, t)
                                      /\ tx[r].op \in {"lecture", "copy"} \/ tx[r].moved
    BY Zenon DEF vars
  <2>1. ASSUME NEW r \in Reqs, CommitItems(r)
        PROVE  Committing(r, t) /\ (tx[r].op \in {"lecture", "copy"} \/ tx[r].moved)
    <3>1. PICK u, f : u = tx[r].t /\ f = Final(Before(tx[r]), tx[r].plan)
      OBVIOUS
    <3>2. /\ u \in Tts /\ PlanOK(tx[r]) /\ Before(tx[r]) = Contents(u)
          /\ lec' = [lec EXCEPT ![u] = f.lec] /\ blk' = [blk EXCEPT ![u] = DOMAIN f.blk]
          /\ \A x \in DOMAIN f.blk : times'[x] = f.blk[x]
          /\ \A x \in Tts \ {u} : Contents(x)' = Contents(x)
      BY <2>1, <3>1, Committed
    <3>3. t = u
      <4> SUFFICES ASSUME t # u PROVE FALSE
        OBVIOUS
      <4>1. lec'[t] = lec[t] /\ blk'[t] = blk[t] /\ Contents(t)' = Contents(t)
        BY <3>2 DEF ItemsInv, Typed
      <4>2. times'[b] = times[b]
        BY <4>1 DEF Contents
      <4> QED
        BY <4>1, <4>2
    <3>4. b \in DOMAIN f.blk /\ l \in f.lec /\ Clash(f.blk[b], class[l])
      BY <3>2, <3>3 DEF ItemsInv, Typed
    <3>5. ~OnlyOld(Before(tx[r]), f)
      <4> SUFFICES ASSUME OnlyOld(Before(tx[r]), f) PROVE FALSE
        OBVIOUS
      <4>1. /\ b \in DOMAIN Contents(u).blk /\ l \in Contents(u).lec
            /\ Clash(Contents(u).blk[b], class[l])
        BY <3>2, <3>4 DEF OnlyOld
      <4> QED
        BY <3>3, <4>1 DEF Contents
    <3>6. tx[r].pc = "writing" /\ tx'[r].pc = "idle"
      BY <2>1 DEF CommitItems, End, Idle, ItemsInv, Typed
    <3> QED
      BY <3>1, <3>2, <3>3, <3>5, <3>6 DEF PlanOK, Committing
  <2>2. ASSUME NEW r \in Reqs, CommitHome(r) PROVE FALSE
    BY <2>2 DEF CommitHome
  <2>3. ASSUME NEW k \in Lecs, SyncClasstimes(k) PROVE FALSE
    BY <2>3 DEF SyncClasstimes, ItemsInv, Typed
  <2>4. ASSUME NEW r \in Reqs,
               \/ Begin(r) \/ LockTimetable(r) \/ Edit(r) \/ Create(r) \/ Copy(r)
               \/ Delete(r) \/ SetHome(r) \/ Abort(r)
        PROVE  FALSE
    BY <2>4 DEF Begin, LockTimetable, Edit, Create, Copy, Delete, SetHome, Abort,
                Prepare, PrepareUnlocked
  <2> QED
    BY <2>1, <2>2, <2>3, <2>4 DEF Next
<1> QED
  BY <1>1, ItemsHold, PTL DEF Spec, OverlapsAdmitted
-----------------------------------------------------------------------------
(* The order of timetables.                                                *)

\* Places for as many timetables as a user has ever had, and one more for the
\* timetable a request is about to create.
PlacesOf(U) == 0..(Cardinality(U) - 1)
OfUser(U, u) == {t \in U : Owner[t] = u}

TransTyped(x) ==
  /\ DOMAIN x = DOMAIN NoTrans
  /\ x.pc \in {"idle", "locking", "reading", "writing", "done"}
  /\ x.op \in {"create", "delete", "update"}
  /\ x.user \in Holders \cup {NoHolder}
  /\ x.pc \in {"locking", "reading", "writing"} =>
       x.user \in Holders /\ (x.op # "create" => x.id \in Ids)
  /\ x.to \in Int /\ IsRows(x.todo) /\ IsRows(x.written)
  /\ x.pc # "writing" => DOMAIN x.written = {}

\* What a transaction is about to write are places of its user's timetables.
TransFits(x, U) ==
  x.pc = "writing" =>
    /\ x.op # "delete" => Owner[x.id] = x.user
    /\ \A t \in DOMAIN x.todo \cup DOMAIN x.written : Owner[t] = x.user
    /\ x.op # "create" =>
         /\ \A t \in DOMAIN x.todo : x.todo[t] \in PlacesOf(OfUser(U, x.user))
         /\ \A t \in DOMAIN x.written : t \in U /\ x.written[t] \in PlacesOf(OfUser(U, x.user))
    /\ x.op = "update" => x.to \in PlacesOf(OfUser(U, x.user))
    /\ x.op = "create" =>
         /\ x.id \in Ids \ U /\ DOMAIN x.todo \cup DOMAIN x.written = {x.id}
         /\ \A t \in DOMAIN x.todo : x.todo[t] \in 0..Cardinality(OfUser(U, x.user))
         /\ \A t \in DOMAIN x.written : x.written[t] \in 0..Cardinality(OfUser(U, x.user))

\* The positions a transaction has planned, of rows as they are.
Shifts(x, d) ==
  CASE x.op = "create" -> [u \in {x.id} |-> Cardinality(DOMAIN d)]
    [] x.op = "delete" -> [t \in {u \in DOMAIN d : d[u] > d[x.id]} |-> d[t] - 1]
    [] x.op = "update" -> Shifted(d, x.id, x.to)

\* A transaction that meets no other: what it has written and what it has left
\* make up its plan, and the plan is still right.
PlanStands(x, d) ==
  x.pc = "writing" =>
    /\ x.op = "create" <=> x.id \notin DOMAIN d
    /\ x.op = "update" => x.to \in 0..(Cardinality(DOMAIN d) - 1) /\ x.to # d[x.id]
    /\ DOMAIN x.todo \cup DOMAIN x.written = DOMAIN Shifts(x, d)
    /\ \A t \in DOMAIN x.todo : x.todo[t] = Shifts(x, d)[t]
    /\ \A t \in DOMAIN x.written : x.written[t] = Shifts(x, d)[t]

\* The same of the rows of a user: what his own requests have planned, and that
\* another's deletion finds the row it is about to take.
Stands(x, u, d) ==
  x.pc = "writing" /\ Owner[x.id] = u =>
    /\ x.user = u => PlanStands(x, RowsOf(d, u))
    /\ x.op = "delete" => x.id \in DOMAIN d

LocksOf(x) ==
  (IF x.pc \in {"reading", "writing"} /\ x.op # "create" THEN {x.id} ELSE {})
  \cup (IF x.pc \in {"locking", "reading", "writing"} THEN DOMAIN x.written ELSE {})
Creates(x) == x.pc = "writing" /\ x.op = "create"

RowsFit ==
  /\ IsRows(order) /\ usedIds \in SUBSET Ids /\ DOMAIN order \subseteq usedIds
  /\ \A t \in DOMAIN order : order[t] \in PlacesOf(OfUser(usedIds, Owner[t]))
TransFit ==
  /\ DOMAIN trans = OrderReqs
  /\ \A r \in OrderReqs : TransTyped(trans[r]) /\ TransFits(trans[r], usedIds)
  /\ \A q, r \in OrderReqs : q # r =>
       /\ LocksOf(trans[q]) \cap LocksOf(trans[r]) = {}
       /\ ~(Creates(trans[q]) /\ Creates(trans[r]) /\ trans[q].id = trans[r].id)
AloneFit ==
  /\ disturbed \in SUBSET Holders
  /\ \A u \in Holders \ disturbed :
       /\ Contiguous(RowsOf(order, u))
       /\ \A q, r \in OrderReqs :
            Open(q) /\ Open(r) /\ u \in Touches(trans[q]) /\ u \in Touches(trans[r]) => q = r
       /\ \A r \in OrderReqs : Stands(trans[r], u, order)

OrderInv == RowsFit /\ TransFit /\ AloneFit
-----------------------------------------------------------------------------
\* A set of places has a last one.
LEMMA LastOfPlaces ==
  ASSUME NEW n \in Nat, NEW S \in SUBSET (0..n), S # {}
  PROVE  Max(S) \in S /\ \A p \in S : Max(S) >= p
<1> DEFINE R == {ss \in Nat \X Nat : ss[1] < ss[2]}
           T == {n - p : p \in S}
<1>1. IsWellFoundedOn(R, Nat)
  BY NatLessThanWellFounded DEF OpToRel
<1>2. \A i, k \in Nat : k < i => <<k, i>> \in R
  OBVIOUS
<1> HIDE DEF R
<1>3. T \subseteq Nat /\ T # {}
  <2>1. \A p \in 0..n : n - p \in Nat
    OBVIOUS
  <2> QED
    BY <2>1
<1>4. PICK i \in T : \A k \in T : ~ (<<k, i>> \in R)
  BY <1>1, <1>3, WFMin
<1>5. PICK p \in S : i = n - p
  BY <1>4
<1>6. \A q \in S : ~(n - q < n - p)
  BY <1>2, <1>3, <1>4, <1>5
<1>7. \A q \in S : p >= q
  BY <1>6
<1> QED
  BY <1>7 DEF Max

\* Sets of timetables are finite.
LEMMA FewIds ==
  ASSUME NEW U \in SUBSET Ids
  PROVE  /\ IsFiniteSet(U) /\ Cardinality(U) \in Nat
         /\ \A V \in SUBSET U : Cardinality(V) \in Nat /\ Cardinality(V) <= Cardinality(U)
         /\ \A t \in Ids \ U : Cardinality(U \cup {t}) = Cardinality(U) + 1
         /\ \A t \in U : Cardinality(U \ {t}) = Cardinality(U) - 1 /\ Cardinality(U) > 0
<1>1. IsFiniteSet(U) /\ Cardinality(U) \in Nat
  BY OrderAssumption, FS_Subset, FS_CardinalityType
<1>2. \A V \in SUBSET U : Cardinality(V) \in Nat /\ Cardinality(V) <= Cardinality(U)
  BY <1>1, FS_Subset, FS_CardinalityType
<1>3. \A t \in Ids \ U : Cardinality(U \cup {t}) = Cardinality(U) + 1
  BY <1>1, FS_AddElement
<1>4. \A t \in U : Cardinality(U \ {t}) = Cardinality(U) - 1 /\ Cardinality(U) > 0
  <2>1. \A t \in U : Cardinality(U \ {t}) = Cardinality(U) - 1
    BY <1>1, FS_RemoveElement
  <2>2. \A t \in U : Cardinality(U \ {t}) \in Nat
    BY <1>2
  <2> QED
    BY <1>1, <2>1, <2>2
<1> QED
  BY <1>1, <1>2, <1>3, <1>4

\* Timetables at the places 0..n-1 are at different ones.
LEMMA PlacesDiffer ==
  ASSUME NEW d, IsRows(d), Contiguous(d)
  PROVE  /\ Cardinality(DOMAIN d) \in Nat
         /\ \A t \in DOMAIN d : d[t] \in 0..(Cardinality(DOMAIN d) - 1)
         /\ \A i \in 0..(Cardinality(DOMAIN d) - 1) : \E t \in DOMAIN d : d[t] = i
         /\ \A t, u \in DOMAIN d : d[t] = d[u] => t = u
<1> DEFINE D == DOMAIN d
           n == Cardinality(D)
<1>1. IsFiniteSet(D) /\ n \in Nat
  BY FewIds DEF IsRows
<1>2. {d[t] : t \in D} = 0..(n - 1)
  BY DEF Contiguous, Range
<1>3. \A t \in D : d[t] \in 0..(n - 1)
  BY <1>2
<1>4. \A i \in 0..(n - 1) : \E t \in D : d[t] = i
  BY <1>2
<1>5. d \in [D -> 0..(n - 1)]
  BY <1>3 DEF IsRows
<1>6. d \in Surjection(D, 0..(n - 1))
  BY <1>4, <1>5 DEF Surjection
<1>7. Cardinality(0..(n - 1)) = n
  BY <1>1, FS_Interval
<1>8. d \in Injection(D, 0..(n - 1))
  BY <1>1, <1>6, <1>7, FS_Surjection
<1>9. \A t, u \in D : d[t] = d[u] => t = u
  BY <1>8 DEF Injection, IsInjective
<1> QED
  BY <1>1, <1>3, <1>4, <1>9

\* Rows whose places are filled.
LEMMA FilledPlaces ==
  ASSUME NEW d, NEW n \in Nat, Cardinality(DOMAIN d) = n,
         \A t \in DOMAIN d : d[t] \in 0..(n - 1),
         \A i \in 0..(n - 1) : \E t \in DOMAIN d : d[t] = i
  PROVE  Contiguous(d)
BY DEF Contiguous, Range

\* The rows after the transaction x, as Commit leaves them.
Written(x, d) ==
  [t \in (DOMAIN d \cup DOMAIN x.written) \ (IF x.op = "delete" THEN {x.id} ELSE {}) |->
     IF x.op = "update" /\ t = x.id THEN x.to
     ELSE IF t \in DOMAIN x.written THEN x.written[t] ELSE d[t]]

\* What an append, a removal and a move that meet no other request come to.
LEMMA Appended ==
  ASSUME NEW d, NEW x, x.op = "create", x.pc = "writing", PlanStands(x, d), DOMAIN x.todo = {}
  PROVE  /\ x.id \notin DOMAIN d /\ DOMAIN Written(x, d) = DOMAIN d \cup {x.id}
         /\ \A t \in DOMAIN Written(x, d) :
              Written(x, d)[t] = IF t = x.id THEN Cardinality(DOMAIN d) ELSE d[t]
<1>1. x.id \notin DOMAIN d /\ DOMAIN x.written = {x.id} /\ x.written[x.id] = Cardinality(DOMAIN d)
  BY DEF PlanStands, Shifts
<1> QED
  BY <1>1 DEF Written

LEMMA Removed ==
  ASSUME NEW d, NEW x, x.op = "delete", x.pc = "writing", PlanStands(x, d), DOMAIN x.todo = {}
  PROVE  /\ x.id \in DOMAIN d /\ DOMAIN Written(x, d) = DOMAIN d \ {x.id}
         /\ \A t \in DOMAIN Written(x, d) :
              Written(x, d)[t] = IF d[t] > d[x.id] THEN d[t] - 1 ELSE d[t]
<1>1. /\ x.id \in DOMAIN d /\ DOMAIN x.written = {u \in DOMAIN d : d[u] > d[x.id]}
      /\ \A t \in DOMAIN x.written : x.written[t] = d[t] - 1
  BY DEF PlanStands, Shifts
<1> QED
  BY <1>1 DEF Written

LEMMA Moved ==
  ASSUME NEW d, IsRows(d), Contiguous(d), NEW x, x.op = "update", x.pc = "writing",
         PlanStands(x, d), DOMAIN x.todo = {}
  PROVE  LET h == d[x.id]
             k == x.to
             e == Written(x, d)
         IN /\ x.id \in DOMAIN d /\ k \in 0..(Cardinality(DOMAIN d) - 1) /\ k # h
            /\ DOMAIN e = DOMAIN d /\ e[x.id] = k
            /\ \A t \in DOMAIN d \ {x.id} : e[t] = IF k <= d[t] /\ d[t] < h THEN d[t] + 1
                                                 ELSE IF h < d[t] /\ d[t] <= k THEN d[t] - 1
                                                 ELSE d[t]
<1> DEFINE n == Cardinality(DOMAIN d)
           h == d[x.id]
           k == x.to
           e == Written(x, d)
<1>1. /\ n \in Nat /\ \A t \in DOMAIN d : d[t] \in 0..(n - 1)
      /\ \A i \in 0..(n - 1) : \E t \in DOMAIN d : d[t] = i
      /\ \A t, u \in DOMAIN d : d[t] = d[u] => t = u
  BY PlacesDiffer
<1>2. /\ x.id \in DOMAIN d /\ k \in 0..(n - 1) /\ k # h
      /\ DOMAIN x.written = DOMAIN Shifted(d, x.id, k)
      /\ \A t \in DOMAIN x.written : x.written[t] = Shifted(d, x.id, k)[t]
  BY DEF PlanStands, Shifts
<1>3. /\ DOMAIN x.written = {u \in DOMAIN d : (k <= d[u] /\ d[u] < h) \/ (h < d[u] /\ d[u] <= k)}
      /\ \A t \in DOMAIN x.written : x.written[t] = IF k < h THEN d[t] + 1 ELSE d[t] - 1
  <2>1. \A t \in DOMAIN d : d[t] \in Int
    BY <1>1
  <2>2. k \in Int /\ h \in Int
    BY <1>1, <1>2
  <2>3. CASE k < h
    <3>1. Shifted(d, x.id, k) = [t \in {u \in DOMAIN d : k <= d[u] /\ d[u] < h} |-> d[t] + 1]
      BY <2>3 DEF Shifted
    <3>2. \A u \in DOMAIN d : ~(h < d[u] /\ d[u] <= k)
      BY <2>1, <2>2, <2>3
    <3> HIDE DEF h, k
    <3> QED
      BY <1>2, <2>3, <3>1, <3>2
  <2>4. CASE ~(k < h)
    <3>1. Shifted(d, x.id, k) = [t \in {u \in DOMAIN d : h < d[u] /\ d[u] <= k} |-> d[t] - 1]
      BY <2>4 DEF Shifted
    <3>2. \A u \in DOMAIN d : ~(k <= d[u] /\ d[u] < h)
      BY <2>1, <2>2, <2>4
    <3> HIDE DEF h, k
    <3> QED
      BY <1>2, <2>4, <3>1, <3>2
  <2> QED
    BY <2>3, <2>4
<1>4. /\ DOMAIN e = DOMAIN d /\ e[x.id] = k
      /\ \A t \in DOMAIN d \ {x.id} : e[t] = IF k <= d[t] /\ d[t] < h THEN d[t] + 1
                                           ELSE IF h < d[t] /\ d[t] <= k THEN d[t] - 1
                                           ELSE d[t]
  <2>1. DOMAIN e = DOMAIN d /\ e[x.id] = k
    BY <1>2, <1>3 DEF Written
  <2>2. \A t \in DOMAIN d \ {x.id} : e[t] = IF t \in DOMAIN x.written THEN x.written[t] ELSE d[t]
    BY <1>2, <1>3 DEF Written
  <2>3. k \in Int /\ h \in Int /\ \A t \in DOMAIN d : d[t] \in Int
    BY <1>1, <1>2
  <2> HIDE DEF e, h, k
  <2> QED
    BY <1>3, <2>1, <2>2, <2>3
<1> QED
  BY <1>2, <1>4

\* They keep the places filled.
LEMMA AppendFills ==
  ASSUME NEW d, IsRows(d), Contiguous(d), NEW x, x.op = "create", x.pc = "writing", x.id \in Ids,
         PlanStands(x, d), DOMAIN x.todo = {}
  PROVE  Contiguous(Written(x, d))
<1> DEFINE n == Cardinality(DOMAIN d)
           e == Written(x, d)
<1>1. /\ n \in Nat /\ \A t \in DOMAIN d : d[t] \in 0..(n - 1)
      /\ \A i \in 0..(n - 1) : \E t \in DOMAIN d : d[t] = i
  BY PlacesDiffer
<1>2. x.id \notin DOMAIN d
  BY Appended
<1>3. DOMAIN e = DOMAIN d \cup {x.id} /\ \A t \in DOMAIN e : e[t] = IF t = x.id THEN n ELSE d[t]
  BY Appended
<1>4. Cardinality(DOMAIN e) = n + 1
  BY <1>2, <1>3, FewIds DEF IsRows
<1> HIDE DEF n, e
<1>5. \A t \in DOMAIN e : e[t] \in 0..((n + 1) - 1)
  BY <1>1, <1>3
<1>6. \A i \in 0..((n + 1) - 1) : \E t \in DOMAIN e : e[t] = i
  <2> SUFFICES ASSUME NEW i \in 0..((n + 1) - 1) PROVE \E t \in DOMAIN e : e[t] = i
    OBVIOUS
  <2>1. CASE i = n
    BY <1>3, <2>1
  <2>2. CASE i # n
    <3>1. i \in 0..(n - 1)
      BY <1>1, <2>2
    <3>2. PICK t \in DOMAIN d : d[t] = i
      BY <1>1, <3>1
    <3>3. t # x.id
      BY <1>2, <3>2
    <3> QED
      BY <1>3, <3>2, <3>3
  <2> QED
    BY <2>1, <2>2
<1>7. n + 1 \in Nat
  BY <1>1
<1> QED
  BY <1>4, <1>5, <1>6, <1>7, FilledPlaces DEF e

LEMMA RemovalFills ==
  ASSUME NEW d, IsRows(d), Contiguous(d), NEW x, x.op = "delete", x.pc = "writing",
         PlanStands(x, d), DOMAIN x.todo = {}
  PROVE  Contiguous(Written(x, d))
<1> DEFINE n == Cardinality(DOMAIN d)
           k == d[x.id]
           e == Written(x, d)
<1>1. /\ n \in Nat /\ \A t \in DOMAIN d : d[t] \in 0..(n - 1)
      /\ \A i \in 0..(n - 1) : \E t \in DOMAIN d : d[t] = i
      /\ \A t, u \in DOMAIN d : d[t] = d[u] => t = u
  BY PlacesDiffer
<1>2. x.id \in DOMAIN d
  BY Removed
<1>3. /\ DOMAIN e = DOMAIN d \ {x.id}
      /\ \A t \in DOMAIN e : e[t] = IF d[t] > k THEN d[t] - 1 ELSE d[t]
  BY Removed
<1>4. Cardinality(DOMAIN e) = n - 1 /\ n - 1 \in Nat
  <2>1. Cardinality(DOMAIN e) = n - 1 /\ n > 0
    BY <1>2, <1>3, FewIds DEF IsRows
  <2> QED
    BY <1>1, <2>1
<1>5. k \in 0..(n - 1) /\ \A t \in DOMAIN e : t \in DOMAIN d /\ d[t] \in 0..(n - 1) /\ d[t] # k
  BY <1>1, <1>2, <1>3
<1> HIDE DEF n, e, k
<1>6. \A t \in DOMAIN e : e[t] \in 0..((n - 1) - 1)
  BY <1>1, <1>3, <1>5
<1>7. \A i \in 0..((n - 1) - 1) : \E t \in DOMAIN e : e[t] = i
  <2> SUFFICES ASSUME NEW i \in 0..((n - 1) - 1) PROVE \E t \in DOMAIN e : e[t] = i
    OBVIOUS
  <2>1. i \in 0..(n - 1) /\ i + 1 \in 0..(n - 1) /\ i \in Int /\ k \in Int
    BY <1>1, <1>5
  <2>2. CASE i < k
    <3>1. PICK t \in DOMAIN d : d[t] = i
      BY <1>1, <2>1
    <3>2. d[t] # k /\ ~(d[t] > k)
      BY <2>1, <2>2, <3>1
    <3> QED
      BY <1>3, <3>1, <3>2 DEF k
  <2>3. CASE i >= k
    <3>1. PICK t \in DOMAIN d : d[t] = i + 1
      BY <1>1, <2>1
    <3>2. d[t] # k /\ d[t] > k /\ d[t] - 1 = i
      BY <2>1, <2>3, <3>1
    <3> QED
      BY <1>3, <3>1, <3>2 DEF k
  <2> QED
    BY <2>1, <2>2, <2>3
<1> QED
  BY <1>4, <1>6, <1>7, FilledPlaces DEF e

LEMMA MoveFills ==
  ASSUME NEW d, IsRows(d), Contiguous(d), NEW x, x.op = "update", x.pc = "writing",
         PlanStands(x, d), DOMAIN x.todo = {}
  PROVE  Contiguous(Written(x, d))
<1> DEFINE n == Cardinality(DOMAIN d)
           h == d[x.id]
           k == x.to
           e == Written(x, d)
<1>1. /\ n \in Nat /\ \A t \in DOMAIN d : d[t] \in 0..(n - 1)
      /\ \A i \in 0..(n - 1) : \E t \in DOMAIN d : d[t] = i
      /\ \A t, u \in DOMAIN d : d[t] = d[u] => t = u
  BY PlacesDiffer
<1>2. x.id \in DOMAIN d /\ k \in 0..(n - 1) /\ k # h
  BY Moved
<1>4. /\ DOMAIN e = DOMAIN d /\ e[x.id] = k
      /\ \A t \in DOMAIN d \ {x.id} : e[t] = IF k <= d[t] /\ d[t] < h THEN d[t] + 1
                                           ELSE IF h < d[t] /\ d[t] <= k THEN d[t] - 1
                                           ELSE d[t]
  BY Moved
<1>5. h \in 0..(n - 1) /\ \A t \in DOMAIN d \ {x.id} : d[t] \in 0..(n - 1) /\ d[t] # h
  BY <1>1, <1>2
<1> HIDE DEF n, e, h, k
<1>6. \A t \in DOMAIN e : e[t] \in 0..(n - 1)
  BY <1>1, <1>2, <1>4, <1>5
<1>7. \A i \in 0..(n - 1) : \E t \in DOMAIN e : e[t] = i
  <2> SUFFICES ASSUME NEW i \in 0..(n - 1) PROVE \E t \in DOMAIN e : e[t] = i
    OBVIOUS
  <2>1. i \in Int /\ k \in Int /\ h \in Int /\ n \in Int
    BY <1>1, <1>2, <1>5
  <2>2. ASSUME NEW j \in 0..(n - 1), j # h,
               i = IF k <= j /\ j < h THEN j + 1 ELSE IF h < j /\ j <= k THEN j - 1 ELSE j
        PROVE  \E t \in DOMAIN e : e[t] = i
    <3>1. PICK t \in DOMAIN d : d[t] = j
      BY <1>1
    <3>2. t # x.id
      BY <2>2, <3>1 DEF h
    <3> QED
      BY <1>4, <2>2, <3>1, <3>2
  <2>3. CASE i = k
    BY <1>2, <1>4, <2>3
  <2>4. CASE k < i /\ i <= h
    <3>1. i - 1 \in 0..(n - 1) /\ i - 1 # h /\ k <= i - 1 /\ i - 1 < h /\ i = (i - 1) + 1
      BY <1>2, <1>5, <2>1, <2>4
    <3> QED
      BY <2>2, <3>1
  <2>5. CASE h <= i /\ i < k
    <3>1. i + 1 \in 0..(n - 1) /\ i + 1 # h /\ h < i + 1 /\ i + 1 <= k /\ i = (i + 1) - 1 /\ ~(i + 1 < h)
      BY <1>2, <1>5, <2>1, <2>5
    <3> QED
      BY <2>2, <3>1
  <2>6. CASE i # k /\ ~(k < i /\ i <= h) /\ ~(h <= i /\ i < k)
    <3>1. i # h /\ ~(k <= i /\ i < h) /\ ~(h < i /\ i <= k)
      BY <1>2, <2>1, <2>6
    <3> QED
      BY <2>2, <3>1
  <2> QED
    BY <2>3, <2>4, <2>5, <2>6
<1>8. Cardinality(DOMAIN e) = n
  BY <1>4 DEF n
<1> QED
  BY <1>1, <1>6, <1>7, <1>8, FilledPlaces DEF e
-----------------------------------------------------------------------------
LEMMA LocksAre ==
  /\ \A r : OrderLocks(r) = LocksOf(trans[r])
  /\ \A r : OrderLocks(r)' = LocksOf(trans'[r])
BY DEF OrderLocks, LocksOf, Open

\* A user's rows are rows.
LEMMA RowsOfAre ==
  ASSUME NEW d, IsRows(d), NEW u
  PROVE  /\ IsRows(RowsOf(d, u)) /\ DOMAIN RowsOf(d, u) = {t \in DOMAIN d : Owner[t] = u}
         /\ \A t \in DOMAIN RowsOf(d, u) : RowsOf(d, u)[t] = d[t]
BY DEF RowsOf, Restrict, IsRows

\* A step of r that leaves the rows alone: it suffices that r fits.
LEMMA TransGoesOn ==
  ASSUME OrderInv, NEW r \in OrderReqs, NEW b, trans' = [trans EXCEPT ![r] = b],
         UNCHANGED <<order, usedIds, disturbed>>,
         TransTyped(b), TransFits(b, usedIds),
         \A q \in OrderReqs \ {r} : LocksOf(b) \cap LocksOf(trans[q]) = {},
         \A q \in OrderReqs \ {r} : ~(Creates(b) /\ Creates(trans[q]) /\ b.id = trans[q].id),
         b.pc \in {"locking", "reading", "writing"} => Open(r) /\ Touches(b) = Touches(trans[r]),
         \A u \in Holders \ disturbed : Stands(b, u, order)
  PROVE  OrderInv'
<1>1. DOMAIN trans = OrderReqs
  BY DEF OrderInv, TransFit
<1>2. DOMAIN trans' = OrderReqs /\ trans'[r] = b /\ \A q \in OrderReqs \ {r} : trans'[q] = trans[q]
  BY <1>1
<1>3. TransFit'
  <2>1. \A q \in OrderReqs : TransTyped(trans'[q]) /\ TransFits(trans'[q], usedIds')
    BY <1>2 DEF OrderInv, TransFit
  <2>2. \A q, p \in OrderReqs : q # p =>
       /\ LocksOf(trans'[q]) \cap LocksOf(trans'[p]) = {}
       /\ ~(Creates(trans'[q]) /\ Creates(trans'[p]) /\ trans'[q].id = trans'[p].id)
    BY <1>2 DEF OrderInv, TransFit
  <2> QED
    BY <1>2, <2>1, <2>2 DEF TransFit
<1>4. AloneFit'
  <2>1. \A q \in OrderReqs : Open(q)' => Open(q) /\ Touches(trans'[q]) = Touches(trans[q])
    BY <1>2 DEF Open
  <2>2. ASSUME NEW u \in Holders \ disturbed
        PROVE  /\ Contiguous(RowsOf(order', u))
               /\ \A q, p \in OrderReqs : Open(q)' /\ Open(p)' /\ u \in Touches(trans'[q])
                                        /\ u \in Touches(trans'[p]) => q = p
               /\ \A q \in OrderReqs : Stands(trans'[q], u, order')
    BY <1>2, <2>1 DEF OrderInv, AloneFit
  <2> QED
    BY <2>2 DEF OrderInv, AloneFit
<1> QED
  BY <1>3, <1>4 DEF OrderInv, RowsFit

\* A request that ends carries nothing.
LEMMA Ended ==
  ASSUME NEW pc \in {"idle", "done"}, NEW U, NEW d, NEW u
  PROVE  LET b == [NoTrans EXCEPT !.pc = pc] IN
         /\ TransTyped(b) /\ TransFits(b, U) /\ LocksOf(b) = {} /\ ~Creates(b) /\ Stands(b, u, d)
         /\ b.pc = pc /\ DOMAIN b.written = {}
<1> DEFINE b == [NoTrans EXCEPT !.pc = pc]
<1>1. /\ DOMAIN b = DOMAIN NoTrans /\ b.pc = pc /\ b.op = "create" /\ b.to = 0
      /\ b.todo = None /\ b.written = None /\ b.user = NoHolder
  BY DEF NoTrans
<1> HIDE DEF b
<1>2. IsRows(None) /\ DOMAIN None = {}
  BY DEF IsRows, None
<1>3. TransTyped(b)
  BY <1>1, <1>2 DEF TransTyped
<1> QED
  BY <1>1, <1>2, <1>3 DEF TransFits, LocksOf, Creates, Stands, b

LEMMA EndFits ==
  ASSUME OrderInv, NEW r \in OrderReqs, EndRequest(r), UNCHANGED <<order, usedIds, disturbed>>
  PROVE  OrderInv'
<1> DEFINE b == [NoTrans EXCEPT !.pc = "done"]
<1>1. trans' = [trans EXCEPT ![r] = b]
  BY DEF EndRequest
<1>2. /\ TransTyped(b) /\ TransFits(b, usedIds) /\ LocksOf(b) = {} /\ ~Creates(b)
      /\ \A u : Stands(b, u, order)
      /\ b.pc = "done"
  BY Ended
<1> HIDE DEF b
<1> QED
  BY <1>1, <1>2, TransGoesOn

LEMMA OrderStart ==
  ASSUME OrderInit
  PROVE  OrderInv
<1>1. PICK S \in SUBSET Ids : order \in [S -> 0..(Cardinality(S) - 1)]
  BY DEF OrderInit
<1>2. (\A u \in Holders : Contiguous(RowsOf(order, u))) /\ usedIds = S /\ DOMAIN order = S
  BY <1>1 DEF OrderInit
<1>3. RowsFit
  <2>1. IsRows(order)
    BY <1>1 DEF IsRows
  <2>2. ASSUME NEW t \in DOMAIN order PROVE order[t] \in PlacesOf(OfUser(usedIds, Owner[t]))
    <3> DEFINE d == RowsOf(order, Owner[t])
    <3>1. Owner[t] \in Holders
      BY <1>1, <1>2, OrderAssumption
    <3>2. IsRows(d) /\ DOMAIN d = {i \in DOMAIN order : Owner[i] = Owner[t]} /\ \A i \in DOMAIN d : d[i] = order[i]
      BY <2>1, RowsOfAre
    <3>3. Contiguous(d) /\ DOMAIN d = OfUser(usedIds, Owner[t]) /\ t \in DOMAIN d
      BY <1>2, <3>1, <3>2 DEF OfUser
    <3> QED
      BY <3>2, <3>3, PlacesDiffer DEF PlacesOf
  <2> QED
    BY <1>1, <1>2, <2>1, <2>2 DEF RowsFit
<1>4. \A r \in OrderReqs : trans[r] = [NoTrans EXCEPT !.pc = "idle"]
  BY DEF OrderInit, NoTrans
<1>5. DOMAIN trans = OrderReqs /\ disturbed = {}
  BY DEF OrderInit
<1>6. TransFit
  BY <1>4, <1>5, Ended DEF TransFit
<1>7. AloneFit
  <2>1. \A r \in OrderReqs : ~Open(r)
    <3>1. [NoTrans EXCEPT !.pc = "idle"].pc = "idle"
      BY Ended
    <3> QED
      BY <1>4, <3>1 DEF Open
  <2>2. \A r \in OrderReqs, u \in Holders : Stands(trans[r], u, order)
    BY <1>4, Ended
  <2> QED
    BY <1>2, <1>5, <2>1, <2>2 DEF AloneFit
<1> QED
  BY <1>3, <1>6, <1>7 DEF OrderInv

LEMMA BeginAsFits ==
  ASSUME OrderInv, NEW r \in OrderReqs, NEW b, BeginAs(r, b), DOMAIN b = DOMAIN NoTrans,
         b.pc \in {"locking", "reading"}, b.op \in {"create", "delete", "update"},
         b.pc = "reading" => b.op = "create", b.user \in Holders, b.op # "create" => b.id \in Ids,
         b.to \in Int, b.todo = None, b.written = None
  PROVE  OrderInv'
<1>1. /\ trans[r].pc = "idle" /\ order' = order /\ usedIds' = usedIds
      /\ disturbed' = disturbed \cup
           UNION {Touches(b) \cap Touches(trans[q]) : q \in {p \in OrderReqs : Open(p)}}
      /\ trans' = [trans EXCEPT ![r] = b]
  BY DEF BeginAs
<1>2. DOMAIN trans = OrderReqs
  BY DEF OrderInv, TransFit
<1>3. trans'[r] = b /\ DOMAIN trans' = OrderReqs /\ \A q \in OrderReqs \ {r} : trans'[q] = trans[q]
  BY <1>1, <1>2
<1>4. IsRows(None) /\ DOMAIN None = {}
  BY DEF IsRows, None
<1>5. /\ TransTyped(b) /\ TransFits(b, usedIds) /\ LocksOf(b) = {} /\ ~Creates(b)
      /\ \A u, d : Stands(b, u, d)
  BY <1>4 DEF TransTyped, TransFits, LocksOf, Creates, Stands
<1>6. TransFit'
  <2>1. \A q \in OrderReqs : TransTyped(trans'[q]) /\ TransFits(trans'[q], usedIds')
    BY <1>1, <1>3, <1>5 DEF OrderInv, TransFit
  <2>2. \A q, p \in OrderReqs : q # p =>
       /\ LocksOf(trans'[q]) \cap LocksOf(trans'[p]) = {}
       /\ ~(Creates(trans'[q]) /\ Creates(trans'[p]) /\ trans'[q].id = trans'[p].id)
    BY <1>3, <1>5 DEF OrderInv, TransFit
  <2> QED
    BY <1>3, <2>1, <2>2 DEF TransFit
<1>7. AloneFit'
  <2>1. \A q \in OrderReqs \ {r} : Open(q)' => Open(q)
    BY <1>3 DEF Open
  <2>2. disturbed' \in SUBSET Holders
    <3>1. Touches(b) \subseteq Holders
      <4>1. b.op # "create" => Owner[b.id] \in Holders
        BY OrderAssumption
      <4> QED
        BY <4>1 DEF Touches
    <3> QED
      BY <1>1, <3>1 DEF OrderInv, AloneFit
  <2>3. ASSUME NEW u \in Holders \ disturbed'
        PROVE  /\ Contiguous(RowsOf(order', u))
               /\ \A q, p \in OrderReqs : Open(q)' /\ Open(p)' /\ u \in Touches(trans'[q])
                                        /\ u \in Touches(trans'[p]) => q = p
               /\ \A q \in OrderReqs : Stands(trans'[q], u, order')
    <3>1. u \in Holders \ disturbed
      BY <1>1, <2>3
    <3>2. \A q \in OrderReqs : Open(q) /\ u \in Touches(b) => u \notin Touches(trans[q])
      BY <1>1, <2>3
    <3>3. \A q, p \in OrderReqs : Open(q)' /\ Open(p)' /\ u \in Touches(trans'[q])
                                /\ u \in Touches(trans'[p]) => q = p
      BY <1>3, <2>1, <3>1, <3>2 DEF OrderInv, AloneFit
    <3> QED
      BY <1>1, <1>3, <1>5, <3>1, <3>3 DEF OrderInv, AloneFit
  <2> QED
    BY <2>2, <2>3 DEF AloneFit
<1> QED
  BY <1>1, <1>6, <1>7 DEF OrderInv, RowsFit

LEMMA BeginRequestFits ==
  ASSUME OrderInv, NEW r \in OrderReqs, BeginRequest(r)
  PROVE  OrderInv'
<1>1. PICK u \in Holders :
        \/ BeginAs(r, [NoTrans EXCEPT !.pc = "reading", !.user = u])
        \/ \E t \in Ids :
             BeginAs(r, [NoTrans EXCEPT !.pc = "locking", !.op = "delete", !.user = u, !.id = t])
        \/ \E t \in Ids, k \in Targets :
             BeginAs(r, [NoTrans EXCEPT !.pc = "locking", !.op = "update", !.user = u, !.id = t, !.to = k])
  BY Zenon DEF BeginRequest
<1>2. CASE BeginAs(r, [NoTrans EXCEPT !.pc = "reading", !.user = u])
  <2> DEFINE b == [NoTrans EXCEPT !.pc = "reading", !.user = u]
  <2>1. /\ DOMAIN b = DOMAIN NoTrans /\ b.pc = "reading" /\ b.op = "create" /\ b.user = u
        /\ b.to = 0 /\ b.todo = None /\ b.written = None
    BY DEF NoTrans
  <2>2. BeginAs(r, b)
    BY <1>2
  <2> HIDE DEF b
  <2> QED
    BY <2>1, <2>2, BeginAsFits
<1>3. ASSUME NEW t \in Ids,
             BeginAs(r, [NoTrans EXCEPT !.pc = "locking", !.op = "delete", !.user = u, !.id = t])
      PROVE  OrderInv'
  <2> DEFINE b == [NoTrans EXCEPT !.pc = "locking", !.op = "delete", !.user = u, !.id = t]
  <2>1. /\ DOMAIN b = DOMAIN NoTrans /\ b.pc = "locking" /\ b.op = "delete" /\ b.user = u /\ b.id = t
        /\ b.to = 0 /\ b.todo = None /\ b.written = None
    BY DEF NoTrans
  <2>2. BeginAs(r, b)
    BY <1>3
  <2> HIDE DEF b
  <2> QED
    BY <2>1, <2>2, BeginAsFits
<1>4. ASSUME NEW t \in Ids, NEW k \in Targets,
             BeginAs(r, [NoTrans EXCEPT !.pc = "locking", !.op = "update", !.user = u, !.id = t, !.to = k])
      PROVE  OrderInv'
  <2> DEFINE b == [NoTrans EXCEPT !.pc = "locking", !.op = "update", !.user = u, !.id = t, !.to = k]
  <2>1. /\ DOMAIN b = DOMAIN NoTrans /\ b.pc = "locking" /\ b.op = "update" /\ b.user = u /\ b.id = t
        /\ b.to = k /\ b.todo = None /\ b.written = None
    BY DEF NoTrans
  <2>2. BeginAs(r, b) /\ k \in Int
    BY <1>4, OrderAssumption
  <2> HIDE DEF b
  <2> QED
    BY <2>1, <2>2, BeginAsFits
<1> QED
  BY <1>1, <1>2, <1>3, <1>4

LEMMA LockOwnTimetableFits ==
  ASSUME OrderInv, NEW r \in OrderReqs, LockOwnTimetable(r)
  PROVE  OrderInv'
<1> DEFINE a == trans[r]
           b == [a EXCEPT !.pc = "reading"]
<1>1. a.pc = "locking" /\ ~LockedByOther(r, a.id) /\ UNCHANGED <<order, usedIds, disturbed>>
  BY DEF LockOwnTimetable
<1>2. trans' = [trans EXCEPT ![r] = b]
  BY DEF LockOwnTimetable
<1>3. TransTyped(a) /\ DOMAIN a = DOMAIN NoTrans /\ DOMAIN a.written = {}
  BY <1>1 DEF OrderInv, TransFit, TransTyped
<1>4. /\ DOMAIN b = DOMAIN NoTrans /\ b.pc = "reading" /\ b.op = a.op /\ b.id = a.id
      /\ b.user = a.user /\ b.to = a.to /\ b.todo = a.todo /\ b.written = a.written
  <2> HIDE DEF a
  <2> QED
    BY <1>3 DEF NoTrans
<1> HIDE DEF b
<1>5. TransTyped(b)
  BY <1>1, <1>3, <1>4 DEF TransTyped
<1>6. TransFits(b, usedIds) /\ ~Creates(b) /\ \A u : Stands(b, u, order)
  BY <1>4 DEF TransFits, Creates, Stands
<1>7. \A q \in OrderReqs \ {r} : LocksOf(b) \cap LocksOf(trans[q]) = {}
  <2>1. LocksOf(b) \subseteq {a.id}
    BY <1>3, <1>4 DEF LocksOf
  <2>2. \A q \in OrderReqs \ {r} : a.id \notin LocksOf(trans[q])
    BY <1>1, LocksAre DEF LockedByOther
  <2> QED
    BY <2>1, <2>2
<1>8. Open(r) /\ Touches(b) = Touches(a)
  BY <1>1, <1>4 DEF Open, Touches
<1> QED
  BY <1>1, <1>2, <1>5, <1>6, <1>7, <1>8, TransGoesOn
\* What a request has planned when it has read.
PlanOf(x, id, todo) == [x EXCEPT !.pc = "writing", !.id = id, !.todo = todo]

LEMMA PlanHas ==
  ASSUME NEW x, TransTyped(x), x.pc = "reading", NEW id, NEW todo
  PROVE  LET b == PlanOf(x, id, todo) IN
         /\ DOMAIN b = DOMAIN NoTrans /\ b.pc = "writing" /\ b.op = x.op /\ b.id = id
         /\ b.user = x.user /\ b.to = x.to /\ b.todo = todo /\ b.written = x.written
         /\ DOMAIN b.written = {}
<1>1. DOMAIN x = DOMAIN NoTrans /\ DOMAIN x.written = {}
  BY DEF TransTyped
<1> QED
  BY <1>1 DEF PlanOf, NoTrans

LEMMA PlanFits ==
  ASSUME OrderInv, NEW r \in OrderReqs, NEW id, NEW todo, Plan(r, id, todo), trans[r].pc = "reading",
         UNCHANGED <<order, usedIds, disturbed>>, IsRows(todo),
         trans[r].op # "create" => id = trans[r].id,
         trans[r].op = "create" => \A q \in OrderReqs \ {r} : Open(q) => trans[q].id # id,
         TransFits(PlanOf(trans[r], id, todo), usedIds),
         \A u \in Holders \ disturbed : Stands(PlanOf(trans[r], id, todo), u, order)
  PROVE  OrderInv'
<1> DEFINE a == trans[r]
           b == PlanOf(a, id, todo)
<1>1. TransTyped(a)
  BY DEF OrderInv, TransFit
<1>2. /\ DOMAIN b = DOMAIN NoTrans /\ b.pc = "writing" /\ b.op = a.op /\ b.id = id
      /\ b.user = a.user /\ b.to = a.to /\ b.todo = todo /\ b.written = a.written /\ DOMAIN b.written = {}
  BY <1>1, PlanHas
<1>3. trans' = [trans EXCEPT ![r] = b]
  BY Zenon DEF Plan, PlanOf
<1>4. TransFits(b, usedIds) /\ \A u \in Holders \ disturbed : Stands(b, u, order)
  OBVIOUS
<1> HIDE DEF b
<1>5. TransTyped(b)
  BY <1>1, <1>2 DEF TransTyped
<1>6. LocksOf(b) \subseteq LocksOf(a)
  BY <1>2 DEF LocksOf
<1>7. \A q \in OrderReqs \ {r} : LocksOf(b) \cap LocksOf(trans[q]) = {}
  BY <1>6 DEF OrderInv, TransFit
<1>8. \A q \in OrderReqs \ {r} : ~(Creates(b) /\ Creates(trans[q]) /\ b.id = trans[q].id)
  BY <1>2 DEF Creates, Open
<1>9. Open(r) /\ Touches(b) = Touches(a)
  BY <1>2 DEF Open, Touches
<1> QED
  BY <1>3, <1>4, <1>5, <1>7, <1>8, <1>9, TransGoesOn

\* Positions of rows are places, and the next place is one more.
LEMMA NextPlace ==
  ASSUME NEW d, IsRows(d), NEW U \in SUBSET Ids, \A t \in DOMAIN d : d[t] \in PlacesOf(U),
         NEW k, k = IF d = None THEN 0 ELSE Max(Range(d)) + 1
  PROVE  /\ Cardinality(U) \in Nat /\ k \in 0..Cardinality(U)
         /\ Contiguous(d) => k = Cardinality(DOMAIN d)
<1> DEFINE R == {d[t] : t \in DOMAIN d}
           m == Cardinality(U)
           n == Cardinality(DOMAIN d)
<1>1. m \in Nat /\ n \in Nat
  BY FewIds DEF IsRows
<1>2. Range(d) = R
  BY DEF Range
<1>3. R \subseteq 0..(m - 1)
  BY DEF PlacesOf
<1>4. CASE d = None
  <2>1. DOMAIN d = {}
    BY <1>4 DEF None
  <2>2. n = 0
    BY <2>1, FS_EmptySet
  <2> QED
    BY <1>1, <1>4, <2>2
<1>5. CASE d # None
  <2>1. R # {}
    <3>1. ASSUME DOMAIN d = {} PROVE d = None
      BY <3>1 DEF IsRows, None
    <3> QED
      BY <1>5, <3>1
  <2>2. R \in SUBSET (0..m)
    BY <1>1, <1>3
  <2>3. Max(R) \in R /\ \A p \in R : Max(R) >= p
    BY <1>1, <2>1, <2>2, LastOfPlaces
  <2>4. k = Max(R) + 1
    BY <1>2, <1>5
  <2>5. Contiguous(d) => R = 0..(n - 1)
    BY <1>2 DEF Contiguous
  <2> HIDE DEF R, m, n
  <2>6. k \in 0..m
    <3>1. Max(R) \in 0..(m - 1)
      BY <1>3, <2>3
    <3>2. \A i \in 0..(m - 1) : i + 1 \in 0..m
      BY <1>1
    <3> QED
      BY <2>4, <3>1, <3>2
  <2>7. ASSUME Contiguous(d) PROVE k = n
    <3>1. R = 0..(n - 1) /\ n - 1 \in 0..(n - 1)
      BY <1>1, <2>1, <2>5, <2>7
    <3> QED
      BY <1>1, <2>3, <2>4, <3>1
  <2> QED
    BY <1>1, <2>6, <2>7 DEF m, n
<1> QED
  BY <1>4, <1>5

\* The rows of a user are at places of his.
LEMMA RowsInPlaces ==
  ASSUME RowsFit, NEW u
  PROVE  LET d == RowsOf(order, u)
             U == OfUser(usedIds, u)
         IN /\ IsRows(d) /\ DOMAIN d = {t \in DOMAIN order : Owner[t] = u} /\ DOMAIN d \subseteq U
            /\ U \in SUBSET Ids /\ Cardinality(U) \in Nat
            /\ Cardinality(DOMAIN d) \in Nat /\ Cardinality(DOMAIN d) <= Cardinality(U)
            /\ \A t \in DOMAIN d : d[t] = order[t] /\ t \in Ids /\ d[t] \in PlacesOf(U)
<1> DEFINE d == RowsOf(order, u)
           U == OfUser(usedIds, u)
<1>1. /\ IsRows(order) /\ usedIds \in SUBSET Ids /\ DOMAIN order \subseteq usedIds
      /\ \A t \in DOMAIN order : order[t] \in PlacesOf(OfUser(usedIds, Owner[t]))
  BY DEF RowsFit
<1>2. IsRows(d) /\ DOMAIN d = {t \in DOMAIN order : Owner[t] = u} /\ \A t \in DOMAIN d : d[t] = order[t]
  BY <1>1, RowsOfAre
<1>3. U \in SUBSET Ids /\ DOMAIN d \subseteq U
  BY <1>1, <1>2 DEF OfUser
<1>4. \A t \in DOMAIN d : t \in Ids /\ d[t] \in PlacesOf(U)
  BY <1>1, <1>2
<1> HIDE DEF d, U
<1>5. Cardinality(U) \in Nat /\ Cardinality(DOMAIN d) \in Nat /\ Cardinality(DOMAIN d) <= Cardinality(U)
  BY <1>3, FewIds
<1> QED
  BY <1>2, <1>3, <1>4, <1>5 DEF d, U

LEMMA PlanCreateFits ==
  ASSUME OrderInv, NEW r \in OrderReqs, PlanCreate(r)
  PROVE  OrderInv'
<1> DEFINE a == trans[r]
           own == RowsOf(order, a.user)
           U == OfUser(usedIds, a.user)
           k == IF own = None THEN 0 ELSE Max(Range(own)) + 1
<1>1. a.pc = "reading" /\ a.op = "create" /\ UNCHANGED <<order, usedIds, disturbed>>
  BY DEF PlanCreate
<1>2. PICK t \in Ids \ (usedIds \cup {trans[q].id : q \in {p \in OrderReqs : Open(p)}}) :
        Owner[t] = a.user /\ Plan(r, t, [u \in {t} |-> k])
  BY DEF PlanCreate
<1> DEFINE todo == [u \in {t} |-> k]
           b == PlanOf(a, t, todo)
<1>3. TransTyped(a) /\ RowsFit
  BY DEF OrderInv, TransFit
<1>4. /\ Cardinality(U) \in Nat /\ k \in 0..Cardinality(U)
      /\ Contiguous(own) => k = Cardinality(DOMAIN own)
  <2>1. IsRows(own) /\ U \in SUBSET Ids /\ \A i \in DOMAIN own : own[i] \in PlacesOf(U)
    BY <1>3, RowsInPlaces
  <2> HIDE DEF own, U
  <2> QED
    BY <2>1, NextPlace
<1>5. /\ b.pc = "writing" /\ b.op = "create" /\ b.id = t /\ b.todo = todo /\ DOMAIN b.written = {}
      /\ b.user = a.user
  BY <1>1, <1>3, PlanHas
<1> HIDE DEF b, k
<1>6. DOMAIN todo = {t} /\ todo[t] = k
  OBVIOUS
<1>7. IsRows(todo)
  <2>1. t \in Ids /\ k \in Int
    BY <1>2, <1>4
  <2>2. todo = [u \in DOMAIN todo |-> todo[u]]
    OBVIOUS
  <2> HIDE DEF todo
  <2>3. DOMAIN todo \subseteq Ids /\ \A u \in DOMAIN todo : todo[u] \in Int
    BY <1>6, <2>1
  <2> QED
    BY <2>2, <2>3 DEF IsRows
<1> HIDE DEF todo
<1>8. TransFits(b, usedIds)
  BY <1>2, <1>4, <1>5, <1>6 DEF TransFits
<1>9. ASSUME NEW u \in Holders \ disturbed PROVE Stands(b, u, order)
  <2>1. CASE u = a.user
    <3>1. Contiguous(own)
      BY <2>1 DEF OrderInv, AloneFit
    <3>2. k = Cardinality(DOMAIN own) /\ t \notin DOMAIN own
      BY <1>2, <1>3, <1>4, <3>1, RowsInPlaces DEF RowsFit
    <3>3. DOMAIN Shifts(b, own) = {t} /\ Shifts(b, own)[t] = Cardinality(DOMAIN own)
      BY <1>5 DEF Shifts
    <3> HIDE DEF own
    <3>4. PlanStands(b, own)
      BY <1>5, <1>6, <3>2, <3>3 DEF PlanStands
    <3> QED
      BY <1>5, <2>1, <3>4 DEF Stands, own
  <2>2. CASE u # a.user
    BY <1>5, <2>2 DEF Stands
  <2> QED
    BY <2>1, <2>2
<1>10. \A q \in OrderReqs \ {r} : Open(q) => trans[q].id # t
  BY <1>2
<1>11. Plan(r, t, todo)
  BY <1>2 DEF todo
<1> QED
  BY <1>1, <1>7, <1>8, <1>9, <1>10, <1>11, PlanFits DEF b

LEMMA PlanDeleteFits ==
  ASSUME OrderInv, NEW r \in OrderReqs, PlanDelete(r)
  PROVE  OrderInv'
<1> DEFINE a == trans[r]
           id == a.id
           own == RowsOf(order, a.user)
           n == Cardinality(OfUser(usedIds, a.user))
           todo == [t \in {u \in DOMAIN own : own[u] > order[id]} |-> own[t] - 1]
           b == PlanOf(a, id, todo)
<1>1. a.pc = "reading" /\ a.op = "delete" /\ id \in DOMAIN order /\ UNCHANGED <<order, usedIds, disturbed>>
  BY DEF PlanDelete
<1>2. Plan(r, id, todo)
  BY DEF PlanDelete
<1>3. TransTyped(a) /\ RowsFit
  BY DEF OrderInv, TransFit
<1>4. /\ b.pc = "writing" /\ b.op = "delete" /\ b.id = id /\ b.todo = todo /\ DOMAIN b.written = {}
      /\ b.user = a.user
  BY <1>1, <1>3, PlanHas
<1>5. /\ n \in Nat /\ DOMAIN own = {t \in DOMAIN order : Owner[t] = a.user}
      /\ \A t \in DOMAIN own : own[t] = order[t] /\ t \in Ids /\ own[t] \in 0..(n - 1)
  BY <1>3, RowsInPlaces DEF PlacesOf
<1>6. order[id] \in Nat
  BY <1>1, <1>3 DEF RowsFit, PlacesOf
<1>7. \A t \in DOMAIN todo : t \in Ids /\ Owner[t] = a.user /\ todo[t] \in 0..(n - 1)
  <2> HIDE DEF own, n
  <2> QED
    BY <1>5, <1>6
<1>8. IsRows(todo)
  <2>1. todo = [u \in DOMAIN todo |-> todo[u]]
    OBVIOUS
  <2> HIDE DEF todo
  <2>2. DOMAIN todo \subseteq Ids /\ \A u \in DOMAIN todo : todo[u] \in Int
    BY <1>5, <1>7
  <2> QED
    BY <2>1, <2>2 DEF IsRows
<1>9. ASSUME NEW u \in Holders \ disturbed PROVE Stands(b, u, order)
  <2>1. ASSUME u = a.user, Owner[id] = u PROVE PlanStands(b, own)
    <3>1. id \in DOMAIN own /\ own[id] = order[id]
      BY <1>1, <1>5, <2>1
    <3> HIDE DEF own
    <3>2. Shifts(b, own) = todo
      BY <1>4, <3>1 DEF Shifts
    <3> HIDE DEF b, todo
    <3> QED
      BY <1>4, <3>1, <3>2 DEF PlanStands
  <2> HIDE DEF b
  <2> QED
    BY <1>1, <1>4, <2>1 DEF Stands
<1> HIDE DEF b, todo
<1>10. TransFits(b, usedIds)
  BY <1>4, <1>7 DEF TransFits, PlacesOf
<1> QED
  BY <1>1, <1>2, <1>8, <1>9, <1>10, PlanFits DEF b

\* Timetables that give way go to places there are.
LEMMA ShiftedFits ==
  ASSUME NEW d, IsRows(d), NEW n \in Nat, \A t \in DOMAIN d : d[t] \in 0..(n - 1), NEW id \in DOMAIN d,
         NEW k \in 0..(n - 1)
  PROVE  IsRows(Shifted(d, id, k)) /\ \A t \in DOMAIN Shifted(d, id, k) : Shifted(d, id, k)[t] \in 0..(n - 1)
<1>1. DOMAIN d \subseteq Ids /\ d[id] \in 0..(n - 1)
  BY DEF IsRows
<1>2. CASE k < d[id]
  <2> DEFINE f == [t \in {u \in DOMAIN d : k <= d[u] /\ d[u] < d[id]} |-> d[t] + 1]
  <2>1. Shifted(d, id, k) = f
    BY <1>2 DEF Shifted
  <2>2. \A t \in DOMAIN f : t \in Ids /\ f[t] \in 0..(n - 1)
    BY <1>1
  <2>3. IsRows(f)
    BY <2>2 DEF IsRows
  <2> QED
    BY <2>1, <2>2, <2>3
<1>3. CASE ~(k < d[id])
  <2> DEFINE f == [t \in {u \in DOMAIN d : d[id] < d[u] /\ d[u] <= k} |-> d[t] - 1]
  <2>1. Shifted(d, id, k) = f
    BY <1>3 DEF Shifted
  <2>2. \A t \in DOMAIN f : t \in Ids /\ f[t] \in 0..(n - 1)
    BY <1>1
  <2>3. IsRows(f)
    BY <2>2 DEF IsRows
  <2> QED
    BY <2>1, <2>2, <2>3
<1> QED
  BY <1>2, <1>3

LEMMA PlanUpdateFits ==
  ASSUME OrderInv, NEW r \in OrderReqs, PlanUpdate(r)
  PROVE  OrderInv'
<1> DEFINE a == trans[r]
           id == a.id
           k == a.to
           own == RowsOf(order, a.user)
           todo == Shifted(own, id, k)
           b == PlanOf(a, id, todo)
           n == Cardinality(OfUser(usedIds, a.user))
<1>1. /\ a.pc = "reading" /\ a.op = "update" /\ id \in DOMAIN own /\ UNCHANGED <<order, usedIds, disturbed>>
      /\ k # own[id] /\ k >= 0 /\ k < Cardinality(DOMAIN own)
  BY DEF PlanUpdate
<1>2. Plan(r, id, todo)
  BY DEF PlanUpdate
<1>3. TransTyped(a) /\ RowsFit /\ k \in Int
  BY DEF OrderInv, TransFit, TransTyped
<1>4. /\ n \in Nat /\ Cardinality(DOMAIN own) \in Nat /\ Cardinality(DOMAIN own) <= n /\ IsRows(own)
      /\ DOMAIN own = {t \in DOMAIN order : Owner[t] = a.user}
      /\ \A t \in DOMAIN own : own[t] \in 0..(n - 1)
  BY <1>3, RowsInPlaces DEF PlacesOf
<1>5. /\ b.pc = "writing" /\ b.op = "update" /\ b.id = id /\ b.todo = todo /\ DOMAIN b.written = {}
      /\ b.to = k /\ b.user = a.user
  BY <1>1, <1>3, PlanHas
<1> HIDE DEF own, n
<1>6. k \in 0..(n - 1) /\ k \in 0..(Cardinality(DOMAIN own) - 1)
  BY <1>1, <1>3, <1>4
<1>7. IsRows(todo) /\ \A t \in DOMAIN todo : todo[t] \in 0..(n - 1)
  BY <1>1, <1>4, <1>6, ShiftedFits
<1>8. DOMAIN todo \subseteq DOMAIN own
  BY DEF Shifted
<1>9. ASSUME NEW u \in Holders \ disturbed PROVE Stands(b, u, order)
  <2>1. Shifts(b, own) = todo
    BY <1>5 DEF Shifts
  <2> HIDE DEF b, todo
  <2>2. PlanStands(b, own)
    BY <1>1, <1>5, <1>6, <2>1 DEF PlanStands
  <2> QED
    BY <1>5, <2>2 DEF Stands, own
<1> HIDE DEF b, todo
<1>10. TransFits(b, usedIds)
  BY <1>1, <1>4, <1>5, <1>6, <1>7, <1>8 DEF TransFits, PlacesOf, n
<1> QED
  BY <1>1, <1>2, <1>7, <1>9, <1>10, PlanFits DEF b

LEMMA UpdateOrderFits ==
  ASSUME OrderInv, NEW r \in OrderReqs, NEW t, UpdateOrder(r, t)
  PROVE  OrderInv'
<1> DEFINE a == trans[r]
           todo == Restrict(a.todo, DOMAIN a.todo \ {t})
           written == IF t \in DOMAIN order \/ a.op = "create"
                        THEN [u \in DOMAIN a.written \cup {t} |-> IF u = t THEN a.todo[t] ELSE a.written[u]]
                        ELSE a.written
           b == [a EXCEPT !.todo = todo, !.written = written]
<1>1. /\ a.pc = "writing" /\ t \in DOMAIN a.todo /\ ~LockedByOther(r, t)
      /\ UNCHANGED <<order, usedIds, disturbed>>
  BY DEF UpdateOrder
<1>2. trans' = [trans EXCEPT ![r] = b]
  BY Zenon DEF UpdateOrder
<1>3. TransTyped(a) /\ TransFits(a, usedIds) /\ RowsFit
  BY DEF OrderInv, TransFit
<1>4. /\ DOMAIN b = DOMAIN NoTrans /\ b.pc = "writing" /\ b.op = a.op /\ b.id = a.id
      /\ b.user = a.user /\ b.to = a.to /\ b.todo = todo /\ b.written = written
  <2>1. DOMAIN a = DOMAIN NoTrans
    BY <1>3 DEF TransTyped
  <2> HIDE DEF a, todo, written
  <2> QED
    BY <1>1, <2>1 DEF NoTrans, a
<1>5. /\ DOMAIN todo = DOMAIN a.todo \ {t} /\ \A u \in DOMAIN todo : todo[u] = a.todo[u]
      /\ t \in DOMAIN written => written[t] = a.todo[t] \/ (t \in DOMAIN a.written /\ written[t] = a.written[t])
      /\ \A u \in DOMAIN written \ {t} : u \in DOMAIN a.written /\ written[u] = a.written[u]
      /\ DOMAIN written \subseteq DOMAIN a.written \cup {t}
      /\ t \in DOMAIN order \/ a.op = "create" => DOMAIN written = DOMAIN a.written \cup {t} /\ written[t] = a.todo[t]
      /\ ~(t \in DOMAIN order \/ a.op = "create") => written = a.written
  BY DEF Restrict
<1>6. IsRows(todo) /\ IsRows(written)
  <2>1. IsRows(a.todo) /\ IsRows(a.written)
    BY <1>3 DEF TransTyped
  <2>2. \A u \in DOMAIN todo : u \in Ids /\ todo[u] \in Int
    BY <1>5, <2>1 DEF IsRows
  <2>3. \A u \in DOMAIN written : u \in Ids /\ written[u] \in Int
    BY <1>1, <1>5, <2>1 DEF IsRows
  <2>4. todo = [u \in DOMAIN todo |-> todo[u]]
    BY DEF Restrict
  <2>5. written = [u \in DOMAIN written |-> written[u]]
    BY <2>1 DEF IsRows
  <2> HIDE DEF todo, written
  <2> QED
    BY <2>2, <2>3, <2>4, <2>5 DEF IsRows
<1> HIDE DEF b, todo, written
<1>7. TransTyped(b)
  BY <1>1, <1>3, <1>4, <1>6 DEF TransTyped
<1>8. TransFits(b, usedIds)
  <2> DEFINE U == OfUser(usedIds, a.user)
  <2>0. /\ \A u \in DOMAIN todo \cup DOMAIN written : Owner[u] = a.user
        /\ a.op # "delete" => Owner[a.id] = a.user
    BY <1>1, <1>3, <1>5 DEF TransFits
  <2>1. CASE a.op = "create"
    <3>1. /\ a.id \in Ids \ usedIds /\ DOMAIN a.todo \cup DOMAIN a.written = {a.id}
          /\ \A u \in DOMAIN a.todo : a.todo[u] \in 0..Cardinality(U)
          /\ \A u \in DOMAIN a.written : a.written[u] \in 0..Cardinality(U)
      BY <1>1, <1>3, <2>1 DEF TransFits
    <3>2. DOMAIN todo \cup DOMAIN written = {a.id}
      BY <1>1, <1>5, <2>1, <3>1
    <3>3. /\ \A u \in DOMAIN todo : todo[u] \in 0..Cardinality(U)
          /\ \A u \in DOMAIN written : written[u] \in 0..Cardinality(U)
      BY <1>1, <1>5, <2>1, <3>1
    <3> QED
      BY <1>4, <2>0, <2>1, <3>1, <3>2, <3>3 DEF TransFits
  <2>2. CASE a.op # "create"
    <3>1. /\ \A u \in DOMAIN a.todo : a.todo[u] \in PlacesOf(U)
          /\ \A u \in DOMAIN a.written : u \in usedIds /\ a.written[u] \in PlacesOf(U)
          /\ a.op = "update" => a.to \in PlacesOf(U)
      BY <1>1, <1>3, <2>2 DEF TransFits
    <3>2. /\ \A u \in DOMAIN todo : todo[u] \in PlacesOf(U)
          /\ \A u \in DOMAIN written : u \in usedIds /\ written[u] \in PlacesOf(U)
      BY <1>1, <1>3, <1>5, <2>2, <3>1 DEF RowsFit
    <3> QED
      BY <1>4, <2>0, <2>2, <3>1, <3>2 DEF TransFits
  <2> QED
    BY <2>1, <2>2
<1>9. ASSUME NEW v \in Holders \ disturbed PROVE Stands(b, v, order)
  <2> DEFINE own == RowsOf(order, v)
  <2>0. Stands(a, v, order)
    BY <1>9 DEF OrderInv, AloneFit
  <2>1. ASSUME a.user = v, Owner[a.id] = v PROVE PlanStands(b, own)
    <3>1. PlanStands(a, own)
      BY <1>1, <2>0, <2>1 DEF Stands
    <3>2. DOMAIN own \subseteq DOMAIN order
      BY <1>3, RowsInPlaces
    <3> HIDE DEF own
    <3>3. Shifts(b, own) = Shifts(a, own)
      BY <1>4 DEF Shifts
    <3>4. DOMAIN a.todo \cup DOMAIN a.written = DOMAIN Shifts(a, own)
      BY <1>1, <3>1 DEF PlanStands
    <3>5. t \in DOMAIN order \/ a.op = "create"
      <4>1. ASSUME a.op \in {"delete", "update"} PROVE DOMAIN Shifts(a, own) \subseteq DOMAIN own
        BY <4>1 DEF Shifts, Shifted
      <4>2. a.op \in {"create", "delete", "update"}
        BY <1>3 DEF TransTyped
      <4> QED
        BY <1>1, <3>2, <3>4, <4>1, <4>2
    <3>6. DOMAIN todo \cup DOMAIN written = DOMAIN Shifts(a, own)
      BY <1>1, <1>5, <3>4, <3>5
    <3>7. /\ \A u \in DOMAIN todo : todo[u] = Shifts(a, own)[u]
          /\ \A u \in DOMAIN written : written[u] = Shifts(a, own)[u]
      BY <1>1, <1>5, <3>1, <3>5 DEF PlanStands
    <3> QED
      BY <1>1, <1>4, <3>1, <3>3, <3>6, <3>7 DEF PlanStands
  <2> QED
    BY <1>1, <1>4, <2>0, <2>1 DEF Stands
<1>10. \A q \in OrderReqs \ {r} : LocksOf(b) \cap LocksOf(trans[q]) = {}
  <2>1. LocksOf(b) \subseteq LocksOf(a) \cup {t}
    BY <1>1, <1>4, <1>5 DEF LocksOf
  <2>2. \A q \in OrderReqs \ {r} : t \notin LocksOf(trans[q])
    BY <1>1, LocksAre DEF LockedByOther
  <2> QED
    BY <2>1, <2>2 DEF OrderInv, TransFit
<1>11. \A q \in OrderReqs \ {r} : ~(Creates(b) /\ Creates(trans[q]) /\ b.id = trans[q].id)
  BY <1>1, <1>4 DEF OrderInv, TransFit, Creates
<1>12. Open(r) /\ Touches(b) = Touches(a)
  BY <1>1, <1>4 DEF Open, Touches
<1> QED
  BY <1>1, <1>2, <1>7, <1>8, <1>9, <1>10, <1>11, <1>12, TransGoesOn

\* A deletion of another user's last timetable, as his own would be.
Vanished(id) == [pc |-> "writing", op |-> "delete", id |-> id, to |-> 0, todo |-> None, written |-> None]

LEMMA VanishedStands ==
  ASSUME NEW d, NEW id \in DOMAIN d, \A t \in DOMAIN d : ~(d[t] > d[id])
  PROVE  LET x == Vanished(id) IN
         /\ x.pc = "writing" /\ x.op = "delete" /\ x.id = id /\ DOMAIN x.todo = {} /\ x.written = None
         /\ PlanStands(x, d)
<1> DEFINE x == Vanished(id)
<1>1. x.pc = "writing" /\ x.op = "delete" /\ x.id = id /\ x.todo = None /\ x.written = None
  BY DEF Vanished
<1> HIDE DEF x
<1>2. DOMAIN None = {}
  BY DEF None
<1>3. DOMAIN Shifts(x, d) = {}
  BY <1>1 DEF Shifts
<1> QED
  BY <1>1, <1>2, <1>3 DEF PlanStands, x

\* What a commit makes of a user's rows: his own request acts on them as on rows
\* of their own; another's deletion takes one of them; and no other changes them.
LEMMA CommitRows ==
  ASSUME NEW x, x.pc = "writing", TransTyped(x), TransFits(x, usedIds), IsRows(order), NEW u
  PROVE  LET own == RowsOf(order, u)
             new == RowsOf(Written(x, order), u)
         IN /\ x.user = u /\ Owner[x.id] = u => new = Written(x, own)
            /\ x.user # u /\ Owner[x.id] = u /\ x.op = "delete" => new = Written(Vanished(x.id), own)
            /\ x.user # u /\ Owner[x.id] # u => new = own
            /\ x.user = u /\ Owner[x.id] # u /\ x.written = None => new = own
<1> DEFINE own == RowsOf(order, u)
           e   == Written(x, order)
           new == RowsOf(e, u)
<1>1. /\ x.op \in {"create", "delete", "update"} /\ \A t \in DOMAIN x.written : Owner[t] = x.user
      /\ x.op # "delete" => Owner[x.id] = x.user
  BY DEF TransFits, TransTyped
<1>2. /\ DOMAIN e = (DOMAIN order \cup DOMAIN x.written) \ (IF x.op = "delete" THEN {x.id} ELSE {})
      /\ \A t \in DOMAIN e : e[t] = IF x.op = "update" /\ t = x.id THEN x.to
                                 ELSE IF t \in DOMAIN x.written THEN x.written[t] ELSE order[t]
  BY DEF Written
<1> HIDE DEF e
<1>3. /\ new = [t \in {i \in DOMAIN e : Owner[i] = u} |-> e[t]]
      /\ own = [t \in {i \in DOMAIN order : Owner[i] = u} |-> order[t]]
  BY DEF RowsOf, Restrict
<1> HIDE DEF new, own
<1>4. ASSUME x.user = u, Owner[x.id] = u PROVE new = Written(x, own)
  <2> DEFINE w == Written(x, own)
  <2>1. /\ w = [t \in DOMAIN w |-> w[t]]
        /\ DOMAIN w = (DOMAIN own \cup DOMAIN x.written) \ (IF x.op = "delete" THEN {x.id} ELSE {})
        /\ \A t \in DOMAIN w : w[t] = IF x.op = "update" /\ t = x.id THEN x.to
                                   ELSE IF t \in DOMAIN x.written THEN x.written[t] ELSE own[t]
    BY DEF Written
  <2> HIDE DEF w
  <2>2. DOMAIN w = DOMAIN new
    BY <1>1, <1>2, <1>3, <1>4, <2>1
  <2>3. \A t \in DOMAIN w : w[t] = new[t]
    BY <1>1, <1>2, <1>3, <1>4, <2>1, <2>2
  <2>4. new = [t \in DOMAIN new |-> new[t]]
    BY <1>3
  <2>5. w = new
    BY <2>1, <2>2, <2>3, <2>4
  <2> QED
    BY <2>5 DEF w
<1>5. ASSUME x.user # u, Owner[x.id] = u, x.op = "delete" PROVE new = Written(Vanished(x.id), own)
  <2> DEFINE v == Vanished(x.id)
             w == Written(v, own)
  <2>1. v.op = "delete" /\ v.id = x.id /\ DOMAIN v.written = {}
    BY DEF Vanished, None
  <2> HIDE DEF v
  <2>2. w = [t \in DOMAIN own \ {x.id} |-> own[t]]
    BY <2>1 DEF Written
  <2> HIDE DEF w
  <2>3. DOMAIN new = DOMAIN own \ {x.id}
    BY <1>1, <1>2, <1>3, <1>5
  <2>4. \A t \in DOMAIN new : new[t] = own[t]
    BY <1>1, <1>2, <1>3, <1>5, <2>3
  <2>5. new = [t \in DOMAIN new |-> new[t]]
    BY <1>3
  <2>6. new = w
    BY <2>2, <2>3, <2>4, <2>5
  <2> QED
    BY <2>6 DEF w, v
<1>6. ASSUME \A t \in DOMAIN x.written : Owner[t] # u, Owner[x.id] # u PROVE new = own
  <2>1. DOMAIN new = DOMAIN own
    BY <1>2, <1>3, <1>6
  <2>2. \A t \in DOMAIN new : new[t] = own[t]
    BY <1>2, <1>3, <1>6, <2>1
  <2>3. new = [t \in DOMAIN new |-> new[t]] /\ own = [t \in DOMAIN own |-> own[t]]
    BY <1>3
  <2> QED
    BY <2>1, <2>2, <2>3
<1>7. DOMAIN None = {}
  BY DEF None
<1> QED
  BY <1>1, <1>4, <1>5, <1>6, <1>7 DEF new, own, e

\* Whom a commit leaves undisturbed: his request met no other, or nothing of his
\* stood behind the timetable another's deletion takes, or nothing of his changes.
LEMMA Undisturbed ==
  ASSUME OrderInv, NEW r \in OrderReqs, Commit(r), NEW u \in Holders \ disturbed'
  PROVE  LET a   == trans[r]
             own == RowsOf(order, u)
             new == RowsOf(order', u)
         IN /\ u \in Holders \ disturbed /\ Contiguous(own) /\ IsRows(own)
            /\ \/ /\ a.user = u /\ Owner[a.id] = u /\ PlanStands(a, own) /\ new = Written(a, own)
               \/ /\ Owner[a.id] = u /\ a.user # u /\ a.op = "delete" /\ a.id \in DOMAIN own
                  /\ \A t \in DOMAIN own : ~(own[t] > own[a.id])
                  /\ new = Written(Vanished(a.id), own)
               \/ Owner[a.id] # u /\ new = own
<1> DEFINE a == trans[r]
           own == RowsOf(order, u)
           new == RowsOf(order', u)
<1>1. a.pc = "writing" /\ order' = Written(a, order) /\ disturbed' = disturbed \cup Disturbs(a)
  BY DEF Commit, After, Written
<1>2. TransTyped(a) /\ TransFits(a, usedIds) /\ RowsFit /\ IsRows(order)
  BY DEF OrderInv, TransFit, RowsFit
<1>3. u \in Holders \ disturbed /\ u \notin Disturbs(a)
  BY <1>1
<1>4. Contiguous(own) /\ Stands(a, u, order)
  BY <1>3 DEF OrderInv, AloneFit
<1>5. /\ IsRows(own) /\ DOMAIN own = {t \in DOMAIN order : Owner[t] = u}
      /\ \A t \in DOMAIN own : own[t] = order[t]
  BY <1>2, RowsInPlaces
<1>6. /\ a.user = u /\ Owner[a.id] = u => new = Written(a, own)
      /\ a.user # u /\ Owner[a.id] = u /\ a.op = "delete" => new = Written(Vanished(a.id), own)
      /\ a.user # u /\ Owner[a.id] # u => new = own
      /\ a.user = u /\ Owner[a.id] # u /\ a.written = None => new = own
  BY <1>1, <1>2, CommitRows
<1>7. /\ a.op \in {"create", "delete", "update"} /\ (a.op # "delete" => Owner[a.id] = a.user)
  BY <1>1, <1>2 DEF TransFits, TransTyped
<1>8. CASE a.user = u /\ Owner[a.id] = u
  <2>1. PlanStands(a, own)
    BY <1>1, <1>4, <1>8 DEF Stands
  <2> QED
    BY <1>3, <1>4, <1>5, <1>6, <1>8, <2>1
<1>9. CASE a.user # u /\ Owner[a.id] = u
  <2>1. a.op = "delete" /\ a.id \in DOMAIN order
    BY <1>1, <1>4, <1>7, <1>9 DEF Stands
  <2>2. Disturbs(a) = {v \in {Owner[a.id]} : \E t \in DOMAIN RowsOf(order, v) : order[t] > order[a.id]}
                      \cup {v \in {a.user} : a.written # None}
    BY <1>9, <2>1 DEF Disturbs
  <2>3. ~ \E t \in DOMAIN own : order[t] > order[a.id]
    BY <1>3, <1>9, <2>2
  <2>4. a.id \in DOMAIN own /\ \A t \in DOMAIN own : ~(own[t] > own[a.id])
    BY <1>5, <1>9, <2>1, <2>3
  <2> QED
    BY <1>3, <1>4, <1>5, <1>6, <1>9, <2>1, <2>4
<1>10. CASE a.user = u /\ Owner[a.id] # u
  <2>1. a.op = "delete"
    BY <1>7, <1>10
  <2>2. u \in {v \in {a.user} : a.written # None} => u \in Disturbs(a)
    BY <1>10, <2>1 DEF Disturbs
  <2>3. a.written = None
    BY <1>3, <1>10, <2>2
  <2> QED
    BY <1>3, <1>4, <1>5, <1>6, <1>10, <2>3
<1> QED
  BY <1>3, <1>4, <1>5, <1>6, <1>8, <1>9, <1>10

\* A commit: ids that are used for good only make more places.
LEMMA OrderCommitFits ==
  ASSUME OrderInv, NEW r \in OrderReqs, Commit(r)
  PROVE  OrderInv'
<1> DEFINE a == trans[r]
           b == [NoTrans EXCEPT !.pc = "done"]
           U == usedIds \cup DOMAIN a.written
<1>1. a.pc = "writing" /\ a.todo = None /\ usedIds' = U /\ EndRequest(r)
  BY DEF Commit
<1>2. order' = Written(a, order)
  BY DEF Commit, After, Written
<1>3. TransTyped(a) /\ TransFits(a, usedIds) /\ RowsFit /\ DOMAIN trans = OrderReqs
  BY DEF OrderInv, TransFit
<1>4. DOMAIN a.todo = {}
  BY <1>1 DEF None
<1>5. trans'[r] = b /\ DOMAIN trans' = OrderReqs /\ \A q \in OrderReqs \ {r} : trans'[q] = trans[q]
  BY <1>1, <1>3 DEF EndRequest
<1>6. /\ \A V, d, u : TransTyped(b) /\ TransFits(b, V) /\ Stands(b, u, d)
      /\ LocksOf(b) = {} /\ ~Creates(b) /\ b.pc = "done"
  BY Ended
<1> HIDE DEF b
<1>7. /\ U \in SUBSET Ids /\ usedIds \in SUBSET Ids /\ usedIds \subseteq U
      /\ a.op # "create" => U = usedIds
      /\ a.op = "create" => U = usedIds \cup {a.id} /\ a.id \in Ids \ usedIds /\ Owner[a.id] = a.user
  <2>1. DOMAIN a.written \subseteq Ids /\ usedIds \subseteq Ids
    BY <1>3 DEF TransTyped, IsRows, RowsFit
  <2>2. a.op # "create" => U = usedIds
    BY <1>1, <1>3 DEF TransFits
  <2>3. a.op = "create" => U = usedIds \cup {a.id} /\ a.id \in Ids \ usedIds /\ Owner[a.id] = a.user
    BY <1>1, <1>3, <1>4 DEF TransFits
  <2> QED
    BY <2>1, <2>2, <2>3
<1> HIDE DEF U
<1>8. ASSUME NEW u
      PROVE  /\ \A i \in PlacesOf(OfUser(usedIds, u)) : i \in PlacesOf(OfUser(U, u))
             /\ \A i \in 0..Cardinality(OfUser(usedIds, u)) : i \in 0..Cardinality(OfUser(U, u))
             /\ a.op = "create" /\ u = a.user =>
                  \A i \in 0..Cardinality(OfUser(usedIds, u)) : i \in PlacesOf(OfUser(U, u))
  <2> DEFINE V == OfUser(usedIds, u)
             W == OfUser(U, u)
             m == Cardinality(V)
             n == Cardinality(W)
  <2>1. W \in SUBSET Ids /\ V \in SUBSET W
    BY <1>7 DEF OfUser
  <2>2. a.op = "create" /\ u = a.user => W = V \cup {a.id} /\ a.id \in Ids \ V
    BY <1>7 DEF OfUser
  <2> HIDE DEF V, W
  <2>3. m \in Nat /\ n \in Nat /\ m <= n
    BY <2>1, FewIds
  <2>4. a.op = "create" /\ u = a.user => n = m + 1
    BY <2>1, <2>2, FewIds
  <2>5. PlacesOf(V) = 0..(m - 1) /\ PlacesOf(W) = 0..(n - 1)
    BY DEF PlacesOf
  <2> HIDE DEF m, n
  <2>6. (\A i \in 0..(m - 1) : i \in 0..(n - 1)) /\ (\A i \in 0..m : i \in 0..n)
    BY <2>3
  <2>7. ASSUME a.op = "create", u = a.user PROVE \A i \in 0..m : i \in 0..(n - 1)
    BY <2>3, <2>4, <2>7
  <2> QED
    BY <2>5, <2>6, <2>7 DEF m, n, V, W
<1>9. RowsFit'
  <2> DEFINE e == Written(a, order)
  <2>1. \A t \in DOMAIN a.written : /\ Owner[t] = a.user /\ t \in Ids /\ t \in U
                                 /\ a.written[t] \in PlacesOf(OfUser(U, a.user))
    <3>1. \A t \in DOMAIN a.written : Owner[t] = a.user /\ t \in Ids /\ t \in U
      BY <1>1, <1>3 DEF TransFits, U, TransTyped, IsRows
    <3>2. \A t \in DOMAIN a.written : a.written[t] \in PlacesOf(OfUser(U, a.user))
      BY <1>1, <1>3, <1>8 DEF TransFits
    <3> QED
      BY <3>1, <3>2
  <2>2. \A t \in DOMAIN order : order[t] \in PlacesOf(OfUser(U, Owner[t])) /\ t \in Ids /\ t \in U
    BY <1>3, <1>7, <1>8 DEF RowsFit, IsRows
  <2>3. a.op = "update" => a.to \in PlacesOf(OfUser(U, a.user)) /\ Owner[a.id] = a.user
    BY <1>1, <1>3, <1>8 DEF TransFits
  <2>4. \A t \in DOMAIN e : e[t] \in PlacesOf(OfUser(U, Owner[t])) /\ t \in Ids /\ t \in U
    BY <2>1, <2>2, <2>3 DEF Written
  <2>5. \A V, i : i \in PlacesOf(V) => i \in Int
    BY DEF PlacesOf
  <2>6. e = [t \in DOMAIN e |-> e[t]]
    BY DEF Written
  <2> HIDE DEF e
  <2>7. IsRows(e)
    BY <2>4, <2>5, <2>6 DEF IsRows
  <2> QED
    BY <1>1, <1>2, <1>7, <2>4, <2>7 DEF RowsFit, e
<1>10. TransFit'
  <2>1. ASSUME NEW q \in OrderReqs \ {r} PROVE TransTyped(trans[q]) /\ TransFits(trans[q], U)
    <3>1. TransTyped(trans[q]) /\ TransFits(trans[q], usedIds)
      BY DEF OrderInv, TransFit
    <3>2. Creates(trans[q]) => trans[q].id \notin U
      <4>1. Creates(trans[q]) => trans[q].id \notin usedIds
        BY <3>1 DEF TransFits, Creates
      <4>2. Creates(trans[q]) /\ a.op = "create" => trans[q].id # a.id
        BY <1>1 DEF OrderInv, TransFit, Creates
      <4> QED
        BY <1>7, <4>1, <4>2
    <3> QED
      BY <1>7, <1>8, <3>1, <3>2 DEF TransFits, Creates
  <2>2. \A q \in OrderReqs : TransTyped(trans'[q]) /\ TransFits(trans'[q], U)
    BY <1>5, <1>6, <2>1
  <2>3. \A q, p \in OrderReqs : q # p =>
       /\ LocksOf(trans'[q]) \cap LocksOf(trans'[p]) = {}
       /\ ~(Creates(trans'[q]) /\ Creates(trans'[p]) /\ trans'[q].id = trans'[p].id)
    BY <1>5, <1>6 DEF OrderInv, TransFit
  <2> QED
    BY <1>1, <1>5, <2>2, <2>3 DEF TransFit
<1>11. AloneFit'
  <2>1. disturbed' \in SUBSET Holders
    <3>1. Disturbs(a) \subseteq Holders
      <4>1. a.user \in Holders /\ (a.op # "create" => Owner[a.id] \in Holders)
        BY <1>1, <1>3, OrderAssumption DEF TransTyped
      <4> QED
        BY <4>1 DEF Disturbs
    <3> QED
      BY <3>1 DEF OrderInv, AloneFit, Commit
  <2>2. ASSUME NEW u \in Holders \ disturbed'
        PROVE  /\ Contiguous(RowsOf(order', u))
               /\ \A q, p \in OrderReqs : Open(q)' /\ Open(p)' /\ u \in Touches(trans'[q])
                                        /\ u \in Touches(trans'[p]) => q = p
               /\ \A q \in OrderReqs : Stands(trans'[q], u, order')
    <3> DEFINE own == RowsOf(order, u)
               new == RowsOf(order', u)
    <3>1. /\ u \in Holders \ disturbed /\ Contiguous(own) /\ IsRows(own)
          /\ \/ /\ a.user = u /\ Owner[a.id] = u /\ PlanStands(a, own) /\ new = Written(a, own)
             \/ /\ Owner[a.id] = u /\ a.user # u /\ a.op = "delete" /\ a.id \in DOMAIN own
                /\ \A t \in DOMAIN own : ~(own[t] > own[a.id])
                /\ new = Written(Vanished(a.id), own)
             \/ Owner[a.id] # u /\ new = own
      BY <2>2, Undisturbed
    <3>2. a.op \in {"create", "delete", "update"} /\ (a.op = "create" => a.id \in Ids)
      BY <1>1, <1>3 DEF TransTyped, TransFits
    <3>3. \A q, p \in OrderReqs : Open(q) /\ Open(p) /\ u \in Touches(trans[q]) /\ u \in Touches(trans[p]) => q = p
      BY <3>1 DEF OrderInv, AloneFit
    <3>4. \A q \in OrderReqs : Open(q)' => q # r /\ Open(q) /\ trans'[q] = trans[q]
      BY <1>5, <1>6 DEF Open
    <3>5. Open(r)
      BY <1>1 DEF Open
    <3> HIDE DEF own
    <3>6. Contiguous(new)
      <4> HIDE DEF new
      <4>1. CASE a.user = u /\ Owner[a.id] = u /\ PlanStands(a, own) /\ new = Written(a, own)
        BY <1>1, <1>4, <3>1, <3>2, <4>1, AppendFills, RemovalFills, MoveFills
      <4>2. CASE a.id \in DOMAIN own /\ (\A t \in DOMAIN own : ~(own[t] > own[a.id]))
                 /\ new = Written(Vanished(a.id), own)
        <5> DEFINE v == Vanished(a.id)
        <5>1. v.pc = "writing" /\ v.op = "delete" /\ DOMAIN v.todo = {} /\ PlanStands(v, own)
          BY <4>2, VanishedStands
        <5> HIDE DEF v
        <5>2. Contiguous(Written(v, own))
          BY <3>1, <5>1, RemovalFills
        <5> QED
          BY <4>2, <5>2 DEF v
      <4> QED
        BY <3>1, <4>1, <4>2
    <3>7. ASSUME NEW q \in OrderReqs PROVE Stands(trans'[q], u, order')
      <4>1. CASE q = r
        BY <1>5, <1>6, <4>1
      <4>2. CASE q # r
        <5> DEFINE x == trans[q]
        <5>1. trans'[q] = x /\ Stands(x, u, order)
          BY <1>5, <3>1, <4>2 DEF OrderInv, AloneFit
        <5>2. CASE new = own
          <6>1. x.id \in DOMAIN order /\ Owner[x.id] = u => x.id \in DOMAIN order'
            <7>1. x.id \in DOMAIN order /\ Owner[x.id] = u => x.id \in DOMAIN own
              BY DEF own, RowsOf, Restrict
            <7>2. x.id \in DOMAIN new => x.id \in DOMAIN order'
              BY DEF RowsOf, Restrict
            <7> QED
              BY <5>2, <7>1, <7>2
          <6> QED
            BY <5>1, <5>2, <6>1 DEF Stands, own
        <5>3. CASE new # own
          <6>1. u \in Touches(a)
            BY <3>1, <5>3 DEF Touches
          <6>2. ~(Open(q) /\ u \in Touches(x))
            BY <3>3, <3>5, <4>2, <6>1
          <6>3. x.pc = "writing" => Open(q)
            BY DEF Open
          <6>4. Owner[x.id] = u /\ (x.user = u \/ x.op = "delete") => u \in Touches(x)
            BY DEF Touches
          <6> HIDE DEF x
          <6> QED
            BY <5>1, <6>2, <6>3, <6>4 DEF Stands
        <5> QED
          BY <5>2, <5>3
      <4> QED
        BY <4>1, <4>2
    <3> QED
      BY <3>3, <3>4, <3>6, <3>7
  <2> QED
    BY <2>1, <2>2 DEF AloneFit
<1> QED
  BY <1>9, <1>10, <1>11 DEF OrderInv

LEMMA OrderStep ==
  ASSUME OrderInv, [OrderNext]_orderVars
  PROVE  OrderInv'
<1>1. CASE UNCHANGED orderVars
  <2>1. order' = order /\ usedIds' = usedIds /\ trans' = trans /\ disturbed' = disturbed
    BY <1>1 DEF orderVars
  <2> QED
    BY <2>1 DEF OrderInv, RowsFit, TransFit, AloneFit, Open
<1>2. ASSUME NEW r \in OrderReqs,
             \/ BeginRequest(r) \/ LockOwnTimetable(r) \/ Refuse(r)
             \/ PlanCreate(r) \/ PlanDelete(r) \/ PlanUpdate(r)
             \/ (\E t \in Ids : UpdateOrder(r, t))
             \/ Commit(r) \/ Rollback(r)
      PROVE  OrderInv'
  <2>1. Refuse(r) \/ Rollback(r) => EndRequest(r) /\ UNCHANGED <<order, usedIds, disturbed>>
    BY DEF Refuse, Rollback
  <2> QED
    BY <1>2, <2>1, EndFits, BeginRequestFits, LockOwnTimetableFits, PlanCreateFits, PlanDeleteFits,
       PlanUpdateFits, UpdateOrderFits, OrderCommitFits
<1> QED
  BY <1>1, <1>2 DEF OrderNext

LEMMA OrderInvHolds ==
  ASSUME OrderInv
  PROVE  OrdersHold
<1>1. \A q, r \in OrderReqs : q # r => OrderLocks(q) \cap OrderLocks(r) = {}
  BY LocksAre DEF OrderInv, TransFit
<1>2. OrderTypeOK
  BY <1>1 DEF OrderInv, RowsFit, TransFit, TransTyped, AloneFit, OrderTypeOK
<1> QED
  BY <1>2 DEF OrdersHold, OrderInv, RowsFit, AloneFit, PlacesOf, UsedBy, OfUser

\* Positions are places, plans fit the rows, and a request that meets no other
\* carries out its plan.
THEOREM OrderFits == OrderSpec => []OrderInv
<1>1. OrderInit => OrderInv
  BY OrderStart
<1>2. OrderInv /\ [OrderNext]_orderVars => OrderInv'
  BY OrderStep
<1> QED
  BY <1>1, <1>2, PTL DEF OrderSpec

\* A user's timetables hold the places 0..n-1, each once, as long as nothing has
\* disturbed them, and no position leaves the places ever handed out to that user,
\* whatever overlaps and whoever deletes.
THEOREM OrdersAlwaysHold == OrderSpec => []OrdersHold
<1>1. OrderInv => OrdersHold
  BY OrderInvHolds
<1> QED
  BY <1>1, OrderFits, PTL
-----------------------------------------------------------------------------
(* The list of timetables.                                                 *)

\* Rows in order have one list, the one in which each stands at its place.
LEMMA ListOfRows ==
  ASSUME NEW d, IsRows(d), Contiguous(d)
  PROVE  LET l == ListOf(d) IN
         /\ Cardinality(DOMAIN d) \in Nat /\ l \in Seq(DOMAIN d)
         /\ DOMAIN l = 1..Cardinality(DOMAIN d) /\ Len(l) = Cardinality(DOMAIN d)
         /\ \A i \in DOMAIN l : l[i] \in DOMAIN d /\ d[l[i]] = i - 1
<1> DEFINE n == Cardinality(DOMAIN d)
           l == ListOf(d)
<1>1. n \in Nat /\ \A i \in 0..(n - 1) : \E t \in DOMAIN d : d[t] = i
  BY PlacesDiffer
<1>2. l = [i \in 1..n |-> CHOOSE t \in DOMAIN d : d[t] = i - 1]
  BY DEF ListOf
<1> HIDE DEF n, l
<1>3. ASSUME NEW i \in 1..n PROVE l[i] \in DOMAIN d /\ d[l[i]] = i - 1
  <2>1. i - 1 \in 0..(n - 1)
    BY <1>1
  <2>2. \E t \in DOMAIN d : d[t] = i - 1
    BY <1>1, <2>1
  <2> QED
    BY <1>2, <2>2
<1>4. l = [i \in 1..n |-> l[i]]
  BY <1>2
<1>5. l \in Seq(DOMAIN d) /\ Len(l) = n
  BY <1>1, <1>3, <1>4
<1> QED
  BY <1>1, <1>2, <1>3, <1>5 DEF n, l

LEMMA OneList ==
  ASSUME NEW d, IsRows(d), Contiguous(d), NEW s \in Seq(DOMAIN d), Len(s) = Cardinality(DOMAIN d),
         \A i \in 1..Len(s) : d[s[i]] = i - 1
  PROVE  ListOf(d) = s
<1> DEFINE l == ListOf(d)
           D == DOMAIN d
<1>1. /\ l \in Seq(D) /\ Len(l) = Cardinality(D) /\ DOMAIN l = 1..Len(l)
      /\ \A i \in DOMAIN l : l[i] \in D /\ d[l[i]] = i - 1
  BY ListOfRows
<1>2. \A t, u \in D : d[t] = d[u] => t = u
  BY PlacesDiffer
<1> HIDE DEF l, D
<1>3. \A i \in 1..Len(s) : s[i] \in D
  BY DEF D
<1>4. \A i \in 1..Len(s) : l[i] = s[i]
  BY <1>1, <1>2, <1>3 DEF D
<1>5. s \in Seq(D)
  BY DEF D
<1>6. Len(l) = Len(s)
  BY <1>1 DEF D
<1> QED
  BY <1>1, <1>4, <1>5, <1>6, SeqEqual DEF l

LEMMA OneLess ==
  ASSUME NEW S, NEW s \in Seq(S), NEW i \in 1..Len(s)
  PROVE  /\ RemoveAt(s, i) \in Seq(S) /\ Len(RemoveAt(s, i)) = Len(s) - 1
         /\ \A j \in 1..(Len(s) - 1) : RemoveAt(s, i)[j] = IF j < i THEN s[j] ELSE s[j + 1]
<1> DEFINE p == SubSeq(s, 1, i - 1)
           q == SubSeq(s, i + 1, Len(s))
<1>1. Len(s) \in Nat /\ i \in Int /\ 1 <= i /\ i <= Len(s)
  BY LenProperties
<1>2. /\ p \in Seq(S) /\ Len(p) = i - 1 /\ \A j \in 1..(i - 1) : p[j] = s[j]
      /\ q \in Seq(S) /\ Len(q) = Len(s) - i /\ \A j \in 1..(Len(s) - i) : q[j] = s[i + j]
  BY <1>1
<1>3. RemoveAt(s, i) = p \o q
  BY DEF RemoveAt
<1> HIDE DEF p, q
<1>4. /\ p \o q \in Seq(S) /\ Len(p \o q) = Len(s) - 1
      /\ \A j \in 1..(Len(s) - 1) : (p \o q)[j] = IF j <= i - 1 THEN p[j] ELSE q[j - (i - 1)]
  <2>1. /\ p \o q \in Seq(S) /\ Len(p \o q) = Len(p) + Len(q)
        /\ \A j \in 1..(Len(p) + Len(q)) :
             (p \o q)[j] = IF j <= Len(p) THEN p[j] ELSE q[j - Len(p)]
    BY <1>2, ConcatProperties
  <2>2. Len(p) + Len(q) = Len(s) - 1
    BY <1>1, <1>2
  <2> QED
    BY <1>2, <2>1, <2>2
<1>5. ASSUME NEW j \in 1..(Len(s) - 1)
      PROVE  (p \o q)[j] = IF j < i THEN s[j] ELSE s[j + 1]
  <2>1. CASE j < i
    BY <1>1, <1>2, <1>4, <2>1
  <2>2. CASE ~(j < i)
    <3>1. j - (i - 1) \in 1..(Len(s) - i) /\ ~(j <= i - 1) /\ i + (j - (i - 1)) = j + 1
      BY <1>1, <2>2
    <3> QED
      BY <1>2, <1>4, <2>2, <3>1
  <2> QED
    BY <2>1, <2>2
<1> QED
  BY <1>3, <1>4, <1>5

LEMMA OneMore ==
  ASSUME NEW S, NEW s \in Seq(S), NEW i \in 1..(Len(s) + 1), NEW t \in S
  PROVE  /\ InsertAt(s, i, t) \in Seq(S) /\ Len(InsertAt(s, i, t)) = Len(s) + 1
         /\ \A j \in 1..(Len(s) + 1) :
              InsertAt(s, i, t)[j] = IF j < i THEN s[j] ELSE IF j = i THEN t ELSE s[j - 1]
<1> DEFINE p == SubSeq(s, 1, i - 1)
           m == p \o <<t>>
           q == SubSeq(s, i, Len(s))
<1>1. Len(s) \in Nat /\ i \in Int /\ 1 <= i /\ i <= Len(s) + 1
  BY LenProperties
<1>2. /\ p \in Seq(S) /\ Len(p) = i - 1 /\ \A j \in 1..(i - 1) : p[j] = s[j]
      /\ q \in Seq(S) /\ Len(q) = Len(s) - i + 1 /\ \A j \in 1..(Len(s) - i + 1) : q[j] = s[i + j - 1]
  BY <1>1
<1>3. InsertAt(s, i, t) = m \o q
  BY DEF InsertAt
<1> HIDE DEF p, q
<1>4. m \in Seq(S) /\ Len(m) = i /\ m[i] = t /\ \A j \in 1..(i - 1) : m[j] = s[j]
  <2>1. <<t>> \in Seq(S) /\ Len(<<t>>) = 1 /\ <<t>>[1] = t
    OBVIOUS
  <2>2. /\ m \in Seq(S) /\ Len(m) = Len(p) + Len(<<t>>)
        /\ \A j \in 1..(Len(p) + Len(<<t>>)) :
             m[j] = IF j <= Len(p) THEN p[j] ELSE <<t>>[j - Len(p)]
    BY <1>2, <2>1, ConcatProperties
  <2>3. Len(p) + Len(<<t>>) = i /\ i \in 1..i /\ ~(i <= i - 1) /\ i - (i - 1) = 1
    BY <1>1, <1>2, <2>1
  <2>4. m[i] = t
    BY <1>2, <2>1, <2>2, <2>3
  <2>5. \A j \in 1..(i - 1) : j \in 1..i /\ j <= i - 1
    BY <1>1
  <2>6. \A j \in 1..(i - 1) : m[j] = p[j]
    BY <1>2, <2>2, <2>3, <2>5
  <2> QED
    BY <1>2, <2>2, <2>3, <2>4, <2>6
<1> HIDE DEF m
<1>5. /\ m \o q \in Seq(S) /\ Len(m \o q) = Len(s) + 1
      /\ \A j \in 1..(Len(s) + 1) : (m \o q)[j] = IF j <= i THEN m[j] ELSE q[j - i]
  <2>1. /\ m \o q \in Seq(S) /\ Len(m \o q) = Len(m) + Len(q)
        /\ \A j \in 1..(Len(m) + Len(q)) :
             (m \o q)[j] = IF j <= Len(m) THEN m[j] ELSE q[j - Len(m)]
    BY <1>2, <1>4, ConcatProperties
  <2>2. Len(m) + Len(q) = Len(s) + 1
    BY <1>1, <1>2, <1>4
  <2> QED
    BY <1>4, <2>1, <2>2
<1>6. ASSUME NEW j \in 1..(Len(s) + 1)
      PROVE  (m \o q)[j] = IF j < i THEN s[j] ELSE IF j = i THEN t ELSE s[j - 1]
  <2>1. CASE j <= i
    BY <1>1, <1>4, <1>5, <2>1
  <2>2. CASE ~(j <= i)
    <3>1. j - i \in 1..(Len(s) - i + 1) /\ i + (j - i) - 1 = j - 1 /\ ~(j < i) /\ j # i
      BY <1>1, <2>2
    <3> QED
      BY <1>2, <1>5, <2>2, <3>1
  <2> QED
    BY <2>1, <2>2
<1> QED
  BY <1>3, <1>5, <1>6

LEMMA ListAppended ==
  ASSUME NEW d, IsRows(d), Contiguous(d), NEW x, x.op = "create", x.pc = "writing", x.id \in Ids,
         PlanStands(x, d), DOMAIN x.todo = {}, IsRows(Written(x, d))
  PROVE  ListOf(Written(x, d)) = Append(ListOf(d), x.id)
<1> DEFINE n == Cardinality(DOMAIN d)
           e == Written(x, d)
           l == ListOf(d)
           s == Append(l, x.id)
<1>1. /\ n \in Nat /\ l \in Seq(DOMAIN d) /\ DOMAIN l = 1..n /\ Len(l) = n
      /\ \A i \in DOMAIN l : l[i] \in DOMAIN d /\ d[l[i]] = i - 1
  BY ListOfRows
<1>2. /\ x.id \notin DOMAIN d /\ DOMAIN e = DOMAIN d \cup {x.id}
      /\ \A t \in DOMAIN e : e[t] = IF t = x.id THEN n ELSE d[t]
  BY Appended
<1>3. Cardinality(DOMAIN e) = n + 1
  BY <1>2, FewIds DEF IsRows
<1>4. Contiguous(e)
  BY AppendFills
<1> HIDE DEF n, e, l
<1>5. /\ s \in Seq(DOMAIN e) /\ Len(s) = n + 1 /\ s[n + 1] = x.id
      /\ \A i \in 1..n : s[i] = l[i]
  <2>1. l \in Seq(DOMAIN e) /\ x.id \in DOMAIN e
    BY <1>1, <1>2
  <2> QED
    BY <1>1, <2>1
<1> HIDE DEF s
<1>6. ASSUME NEW i \in 1..Len(s) PROVE e[s[i]] = i - 1
  <2>1. CASE i = n + 1
    BY <1>1, <1>2, <1>5, <2>1
  <2>2. CASE i # n + 1
    <3>1. i \in 1..n
      BY <1>1, <1>5, <2>2
    <3>2. s[i] = l[i] /\ l[i] \in DOMAIN d /\ d[l[i]] = i - 1
      BY <1>1, <1>5, <3>1
    <3> QED
      BY <1>2, <3>2
  <2> QED
    BY <2>1, <2>2
<1>7. IsRows(e)
  BY DEF e
<1>8. Len(s) = Cardinality(DOMAIN e)
  BY <1>3, <1>5
<1>9. ListOf(e) = s
  BY <1>4, <1>5, <1>6, <1>7, <1>8, OneList
<1> QED
  BY <1>9 DEF e, s, l

LEMMA ListRemoved ==
  ASSUME NEW d, IsRows(d), Contiguous(d), NEW x, x.op = "delete", x.pc = "writing",
         PlanStands(x, d), DOMAIN x.todo = {}, IsRows(Written(x, d))
  PROVE  LET i == d[x.id] + 1 IN
         /\ i \in DOMAIN ListOf(d) /\ ListOf(d)[i] = x.id
         /\ ListOf(Written(x, d)) = RemoveAt(ListOf(d), i)
<1> DEFINE n == Cardinality(DOMAIN d)
           k == d[x.id]
           e == Written(x, d)
           l == ListOf(d)
           s == RemoveAt(l, k + 1)
<1>1. /\ n \in Nat /\ l \in Seq(DOMAIN d) /\ DOMAIN l = 1..n /\ Len(l) = n
      /\ \A i \in DOMAIN l : l[i] \in DOMAIN d /\ d[l[i]] = i - 1
  BY ListOfRows
<1>2. /\ x.id \in DOMAIN d /\ DOMAIN e = DOMAIN d \ {x.id}
      /\ \A t \in DOMAIN e : e[t] = IF d[t] > k THEN d[t] - 1 ELSE d[t]
  BY Removed
<1>3. Cardinality(DOMAIN e) = n - 1
  BY <1>2, FewIds DEF IsRows
<1>4. Contiguous(e) /\ IsRows(e)
  BY RemovalFills
<1>5. /\ \A t \in DOMAIN d : d[t] \in 0..(n - 1)
      /\ \A t, u \in DOMAIN d : d[t] = d[u] => t = u
  BY PlacesDiffer
<1>6. k \in 0..(n - 1)
  BY <1>2, <1>5
<1>7. \A t \in DOMAIN d : (d[t] # k => t \in DOMAIN e) /\ (d[t] = k => t = x.id)
  BY <1>2, <1>5
<1> HIDE DEF n, e, l, k
<1>8. k + 1 \in 1..Len(l)
  BY <1>1, <1>6
<1>9. /\ s \in Seq(DOMAIN d) /\ Len(s) = n - 1
      /\ \A j \in 1..(n - 1) : s[j] = IF j < k + 1 THEN l[j] ELSE l[j + 1]
  BY <1>1, <1>8, OneLess
<1> HIDE DEF s
<1>10. ASSUME NEW j \in 1..Len(s) PROVE s[j] \in DOMAIN e /\ e[s[j]] = j - 1
  <2>1. j \in 1..(n - 1) /\ j \in 1..n /\ j + 1 \in 1..n
    BY <1>1, <1>9
  <2>2. CASE j < k + 1
    <3>1. s[j] = l[j] /\ l[j] \in DOMAIN d /\ d[l[j]] = j - 1
      BY <1>1, <1>9, <2>1, <2>2
    <3>2. j - 1 # k /\ ~(j - 1 > k)
      BY <1>6, <2>2
    <3> QED
      BY <1>2, <1>7, <3>1, <3>2
  <2>3. CASE ~(j < k + 1)
    <3>1. s[j] = l[j + 1] /\ l[j + 1] \in DOMAIN d /\ d[l[j + 1]] = j
      <4>1. s[j] = l[j + 1]
        BY <1>9, <2>1, <2>3
      <4>2. (j + 1) - 1 = j
        OBVIOUS
      <4> QED
        BY <1>1, <2>1, <4>1, <4>2
    <3>2. j # k /\ j > k
      BY <1>6, <2>3
    <3> QED
      BY <1>2, <1>7, <3>1, <3>2
  <2> QED
    BY <2>2, <2>3
<1>11. s \in Seq(DOMAIN e) /\ Len(s) = Cardinality(DOMAIN e)
  <2>1. Len(s) = Cardinality(DOMAIN e)
    BY <1>3, <1>9
  <2>2. s = [j \in 1..Len(s) |-> s[j]] /\ Len(s) \in Nat
    BY <1>9
  <2> QED
    BY <1>10, <2>1, <2>2
<1>12. ListOf(e) = s
  BY <1>4, <1>10, <1>11, OneList
<1>13. k + 1 \in DOMAIN l /\ l[k + 1] = x.id
  <2>1. k + 1 \in DOMAIN l /\ (k + 1) - 1 = k
    BY <1>1, <1>6, <1>8
  <2> QED
    BY <1>1, <1>7, <2>1
<1> QED
  BY <1>12, <1>13 DEF e, s, l, k

LEMMA ListMoved ==
  ASSUME NEW d, IsRows(d), Contiguous(d), NEW x, x.op = "update", x.pc = "writing",
         PlanStands(x, d), DOMAIN x.todo = {}, IsRows(Written(x, d))
  PROVE  \E i \in DOMAIN ListOf(d) :
           /\ ListOf(d)[i] = x.id
           /\ ListOf(Written(x, d)) = InsertAt(RemoveAt(ListOf(d), i), x.to + 1, ListOf(d)[i])
<1> DEFINE n == Cardinality(DOMAIN d)
           h == d[x.id]
           k == x.to
           e == Written(x, d)
           l == ListOf(d)
           p == RemoveAt(l, h + 1)
           s == InsertAt(p, k + 1, x.id)
<1>1. /\ n \in Nat /\ l \in Seq(DOMAIN d) /\ DOMAIN l = 1..n /\ Len(l) = n
      /\ \A i \in DOMAIN l : l[i] \in DOMAIN d /\ d[l[i]] = i - 1
  BY ListOfRows
<1>2. /\ x.id \in DOMAIN d /\ k \in 0..(n - 1) /\ DOMAIN e = DOMAIN d /\ e[x.id] = k
      /\ \A t \in DOMAIN d \ {x.id} : e[t] = IF k <= d[t] /\ d[t] < h THEN d[t] + 1
                                           ELSE IF h < d[t] /\ d[t] <= k THEN d[t] - 1
                                           ELSE d[t]
  BY Moved
<1>3. Contiguous(e) /\ IsRows(e)
  BY MoveFills
<1>4. /\ \A t \in DOMAIN d : d[t] \in 0..(n - 1)
      /\ \A t, u \in DOMAIN d : d[t] = d[u] => t = u
  BY PlacesDiffer
<1>5. h \in 0..(n - 1) /\ \A t \in DOMAIN d : d[t] # h => t # x.id
  BY <1>2, <1>4
<1>6. \A t \in DOMAIN d : d[t] = h => t = x.id
  BY <1>2, <1>4
<1> HIDE DEF n, e, l, k, h
<1>7. h + 1 \in 1..Len(l) /\ l[h + 1] = x.id
  <2>1. h + 1 \in 1..Len(l) /\ (h + 1) - 1 = h
    BY <1>1, <1>5
  <2> QED
    BY <1>1, <1>6, <2>1
<1>8. /\ p \in Seq(DOMAIN d) /\ Len(p) = n - 1
      /\ \A j \in 1..(n - 1) : p[j] = IF j < h + 1 THEN l[j] ELSE l[j + 1]
  BY <1>1, <1>7, OneLess
<1> HIDE DEF p
<1>9. k + 1 \in 1..(Len(p) + 1) /\ Len(p) + 1 = n
  BY <1>1, <1>2, <1>8
<1>10. /\ s \in Seq(DOMAIN d) /\ Len(s) = n
       /\ \A j \in 1..n : s[j] = IF j < k + 1 THEN p[j] ELSE IF j = k + 1 THEN x.id ELSE p[j - 1]
  <2>1. /\ s \in Seq(DOMAIN d) /\ Len(s) = Len(p) + 1
        /\ \A j \in 1..(Len(p) + 1) :
             s[j] = IF j < k + 1 THEN p[j] ELSE IF j = k + 1 THEN x.id ELSE p[j - 1]
    <3>1. x.id \in DOMAIN d /\ p \in Seq(DOMAIN d) /\ k + 1 \in 1..(Len(p) + 1)
      BY <1>2, <1>8, <1>9
    <3> HIDE DEF s
    <3>2. s = InsertAt(p, k + 1, x.id)
      BY DEF s
    <3> DEFINE D == DOMAIN d
               i == k + 1
    <3>3. x.id \in D /\ p \in Seq(D) /\ i \in 1..(Len(p) + 1)
      BY <3>1
    <3> HIDE DEF D, i
    <3>4. /\ InsertAt(p, i, x.id) \in Seq(D) /\ Len(InsertAt(p, i, x.id)) = Len(p) + 1
          /\ \A j \in 1..(Len(p) + 1) :
               InsertAt(p, i, x.id)[j] = IF j < i THEN p[j] ELSE IF j = i THEN x.id ELSE p[j - 1]
      BY <3>3, OneMore
    <3> QED
      BY <3>2, <3>4 DEF D, i
  <2> QED
    BY <1>9, <2>1
<1> HIDE DEF s
\* Who stands at place i of the new list stood at place o of the old one.
<1>11. ASSUME NEW j \in 1..n, NEW o \in 1..n, s[j] = l[o], o - 1 # h,
              j - 1 = IF k <= o - 1 /\ o - 1 < h THEN o
                      ELSE IF h < o - 1 /\ o - 1 <= k THEN o - 2 ELSE o - 1
       PROVE  e[s[j]] = j - 1
  <2>1. l[o] \in DOMAIN d /\ d[l[o]] = o - 1 /\ l[o] # x.id
    BY <1>1, <1>5, <1>11
  <2>2. e[l[o]] = IF k <= o - 1 /\ o - 1 < h THEN (o - 1) + 1
                  ELSE IF h < o - 1 /\ o - 1 <= k THEN (o - 1) - 1 ELSE o - 1
    BY <1>2, <2>1
  <2>3. (o - 1) + 1 = o /\ (o - 1) - 1 = o - 2
    OBVIOUS
  <2> QED
    BY <1>11, <2>2, <2>3
<1>12. ASSUME NEW j \in 1..n PROVE e[s[j]] = j - 1
  <2>0. k \in Int /\ h \in Int /\ n \in Int /\ j \in Int
    BY <1>1, <1>2, <1>5
  <2>1. CASE j = k + 1
    <3>1. s[j] = x.id /\ k = j - 1
      BY <1>10, <2>0, <2>1
    <3> QED
      BY <1>2, <3>1
  <2>2. CASE j < k + 1 /\ j < h + 1
    <3>1. j \in 1..(n - 1) /\ j - 1 # h /\ ~(k <= j - 1) /\ ~(h < j - 1)
      BY <1>2, <2>0, <2>2
    <3>2. s[j] = l[j]
      BY <1>8, <1>10, <2>2, <3>1
    <3> QED
      BY <1>11, <3>1, <3>2
  <2>3. CASE j < k + 1 /\ ~(j < h + 1)
    <3>1. /\ j \in 1..(n - 1) /\ j + 1 \in 1..n /\ (j + 1) - 1 # h /\ ~((j + 1) - 1 < h)
          /\ h < (j + 1) - 1 /\ (j + 1) - 1 <= k /\ (j + 1) - 2 = j - 1
      BY <1>2, <2>0, <2>3
    <3>2. s[j] = l[j + 1]
      BY <1>8, <1>10, <2>3, <3>1
    <3> QED
      BY <1>11, <3>1, <3>2
  <2>4. CASE j > k + 1 /\ j - 1 < h + 1
    <3>1. /\ j - 1 \in 1..(n - 1) /\ j - 1 \in 1..n /\ (j - 1) - 1 # h
          /\ k <= (j - 1) - 1 /\ (j - 1) - 1 < h /\ ~(j < k + 1) /\ j # k + 1
      BY <1>2, <2>0, <2>4
    <3>2. s[j] = l[j - 1]
      BY <1>8, <1>10, <2>4, <3>1
    <3> QED
      BY <1>11, <3>1, <3>2
  <2>5. CASE j > k + 1 /\ ~(j - 1 < h + 1)
    <3>1. /\ j - 1 \in 1..(n - 1) /\ (j - 1) + 1 = j /\ j - 1 # h
          /\ ~(j - 1 < h) /\ ~(j - 1 <= k) /\ ~(j < k + 1) /\ j # k + 1
      BY <1>2, <2>0, <2>5
    <3>2. s[j] = l[j]
      BY <1>8, <1>10, <2>5, <3>1
    <3> QED
      BY <1>11, <3>1, <3>2
  <2> QED
    BY <2>0, <2>1, <2>2, <2>3, <2>4, <2>5
<1>13. s \in Seq(DOMAIN e) /\ Len(s) = Cardinality(DOMAIN e)
  BY <1>2, <1>10 DEF n
<1>14. ListOf(e) = s
  BY <1>3, <1>10, <1>12, <1>13, OneList
<1> QED
  BY <1>1, <1>7, <1>14 DEF e, s, p, l, k

\* What a commit does to the list of a user whom nothing disturbed.
LEMMA CommitActs ==
  ASSUME OrderInv, OrderInv', NEW r \in OrderReqs, Commit(r), NEW u \in Holders \ disturbed'
  PROVE  ListStep(u)
<1> DEFINE a == trans[r]
           own == RowsOf(order, u)
           new == RowsOf(order', u)
<1>1. a.pc = "writing" /\ a.todo = None
  BY DEF Commit
<1>2. TransTyped(a) /\ TransFits(a, usedIds)
  BY DEF OrderInv, TransFit
<1>3. DOMAIN a.todo = {}
  BY <1>1 DEF None
<1>4. /\ Contiguous(own) /\ IsRows(own)
      /\ \/ /\ a.user = u /\ Owner[a.id] = u /\ PlanStands(a, own) /\ new = Written(a, own)
         \/ /\ Owner[a.id] = u /\ a.user # u /\ a.op = "delete" /\ a.id \in DOMAIN own
            /\ \A t \in DOMAIN own : ~(own[t] > own[a.id])
            /\ new = Written(Vanished(a.id), own)
         \/ Owner[a.id] # u /\ new = own
  BY Undisturbed
<1>5. IsRows(new)
  <2>1. IsRows(order')
    BY DEF OrderInv, RowsFit
  <2> QED
    BY <2>1, RowsOfAre
<1>6. SUFFICES \/ ListOf(new) = ListOf(own)
               \/ \E t \in Ids \ usedIds : ListOf(new) = Append(ListOf(own), t)
               \/ \E i \in DOMAIN ListOf(own) :
                    /\ a.op = "delete" /\ ListOf(own)[i] = a.id
                    /\ a.user = u \/ i = Len(ListOf(own))
                    /\ ListOf(new) = RemoveAt(ListOf(own), i)
               \/ \E i \in DOMAIN ListOf(own) :
                    /\ a.op = "update" /\ ListOf(own)[i] = a.id /\ a.user = u
                    /\ ListOf(new) = InsertAt(RemoveAt(ListOf(own), i), a.to + 1, ListOf(own)[i])
  BY <1>1 DEF ListStep
<1> HIDE DEF own, new
<1>7. CASE new = own
  BY <1>7
<1>8. CASE a.user = u /\ PlanStands(a, own) /\ new = Written(a, own)
  <2>1. CASE a.op = "create"
    <3>1. a.id \in Ids \ usedIds
      BY <1>1, <1>2, <2>1 DEF TransFits
    <3>2. ListOf(new) = Append(ListOf(own), a.id)
      BY <1>1, <1>3, <1>4, <1>5, <1>8, <2>1, <3>1, ListAppended
    <3> QED
      BY <3>1, <3>2
  <2>2. CASE a.op = "delete"
    <3>1. \E i \in DOMAIN ListOf(own) :
             ListOf(own)[i] = a.id /\ ListOf(new) = RemoveAt(ListOf(own), i)
      BY <1>1, <1>3, <1>4, <1>5, <1>8, <2>2, ListRemoved
    <3> QED
      BY <1>8, <2>2, <3>1
  <2>3. CASE a.op = "update"
    <3>1. \E i \in DOMAIN ListOf(own) :
             /\ ListOf(own)[i] = a.id
             /\ ListOf(new) = InsertAt(RemoveAt(ListOf(own), i), a.to + 1, ListOf(own)[i])
      BY <1>1, <1>3, <1>4, <1>5, <1>8, <2>3, ListMoved
    <3> QED
      BY <1>8, <2>3, <3>1
  <2> QED
    BY <1>2, <2>1, <2>2, <2>3 DEF TransTyped
<1>9. CASE /\ a.op = "delete" /\ a.id \in DOMAIN own
           /\ \A t \in DOMAIN own : ~(own[t] > own[a.id])
           /\ new = Written(Vanished(a.id), own)
  <2> DEFINE v == Vanished(a.id)
             i == own[a.id] + 1
             n == Cardinality(DOMAIN own)
  <2>1. v.pc = "writing" /\ v.op = "delete" /\ v.id = a.id /\ DOMAIN v.todo = {} /\ PlanStands(v, own)
    BY <1>9, VanishedStands
  <2>2. Written(v, own) = new
    BY <1>9
  <2> HIDE DEF v
  <2>3. i \in DOMAIN ListOf(own) /\ ListOf(own)[i] = a.id /\ ListOf(new) = RemoveAt(ListOf(own), i)
    BY <1>4, <1>5, <2>1, <2>2, ListRemoved
  <2>4. i = Len(ListOf(own))
    <3>1. n \in Nat /\ Len(ListOf(own)) = n /\ DOMAIN ListOf(own) = 1..n
      BY <1>4, ListOfRows
    <3>2. /\ \A t \in DOMAIN own : own[t] \in 0..(n - 1)
          /\ \A p \in 0..(n - 1) : \E t \in DOMAIN own : own[t] = p
      BY <1>4, PlacesDiffer
    <3> DEFINE h == own[a.id]
    <3>3. h \in 0..(n - 1) /\ \A t \in DOMAIN own : ~(own[t] > h)
      BY <1>9, <3>2
    <3> HIDE DEF h, n
    <3>4. ASSUME h + 1 # n PROVE FALSE
      <4>1. h + 1 \in 0..(n - 1) /\ h + 1 > h
        BY <3>1, <3>3, <3>4
      <4> QED
        BY <3>2, <3>3, <4>1
    <3> QED
      BY <3>1, <3>4 DEF h
  <2> QED
    BY <1>9, <2>3, <2>4
<1> QED
  BY <1>4, <1>7, <1>8, <1>9

\* On the list of a user whom nothing disturbed every step acts as one append,
\* removal or move.
THEOREM AlwaysActsAsList == OrderSpec => ActsAsList
<1>1. OrderInv /\ OrderInv' /\ [OrderNext]_orderVars => [\A u \in Holders \ disturbed' : ListStep(u)]_order
  <2> SUFFICES ASSUME OrderInv, OrderInv', [OrderNext]_orderVars, order' # order, NEW u \in Holders \ disturbed'
               PROVE  ListStep(u)
    OBVIOUS
  <2>1. PICK r \in OrderReqs : Commit(r)
    BY DEF OrderNext, orderVars, BeginRequest, BeginAs, LockOwnTimetable, Refuse, PlanCreate, PlanDelete,
           PlanUpdate, UpdateOrder, Rollback
  <2> QED
    BY <2>1, CommitActs
<1> QED
  BY <1>1, OrderFits, PTL DEF OrderSpec, ActsAsList
=============================================================================
