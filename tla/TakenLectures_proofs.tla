------------------------- MODULE TakenLectures_proofs -------------------------
(* Proofs about TakenLectures for any number of users, students, lectures and *)
(* runs: what a run of syncTakenLecture holds of the rows it corrects.  Then  *)
(* proofs about Planners, which plan with the lectures that were taken, for   *)
(* any planners, tracks, spans, items and requests: the positions of planners *)
(* and what the answer of a request promises.                                 *)
EXTENDS TakenLectures, Planners, FiniteSetTheorems, WellFoundedInduction, NaturalsInduction, TLAPS

Rows    == SUBSET (Lecs \X Ids)
CorrSet == [user : Users, student : Students, remove : Rows, add : SUBSET Lecs]
RunSet  == [pc : {"idle", "fetched", "loaded", "updating", "adding", "saving"},
            term : Terms \cup {NoTerm}, att : [Students -> SUBSET Lecs],
            old : [Users -> Rows], of : [Users -> Students \cup {NoStudent}],
            todo : SUBSET CorrSet, add : SUBSET CorrSet,
            alone : BOOLEAN, calm : SUBSET Users]

Typed ==
  /\ attend \in [Students -> SUBSET Lecs] /\ raw \in [Students -> SUBSET Lecs]
  /\ student \in [Users -> Students \cup {NoStudent}]
  /\ taken \in [Users -> [Lecs -> {0} \cup Ids]]
  /\ run \in [Runs -> RunSet]
  /\ login \in [Users -> [pc : {"idle", "reading", "deleting", "inserting"},
                          raw : SUBSET Lecs]]
  /\ seen \in [Students -> SUBSET Lecs] /\ upset \in SUBSET Users
  /\ changes \in 0..MaxChanges /\ faults \in 0..MaxFaults

\* Rows of the term, at most one for each lecture.
RowsOfTerm(R, t) ==
  /\ \A x \in R : TermOf[x[1]] = t
  /\ \A x, y \in R : x[1] = y[1] => x = y

\* What a run holds in each phase, whatever the others do.
Shaped(y) ==
  /\ y.pc # "idle" => y.term \in Terms
  /\ y.pc \in {"idle", "fetched", "loaded", "saving"} => y.todo = {}
  /\ y.pc # "adding" => y.add = {}
  /\ y.pc # "loaded" => \A u \in Users : y.old[u] = {}
  /\ y.pc = "idle" => ~y.alone
  /\ ~y.alone => y.calm = {}
  /\ \A s \in Students : y.att[s] \subseteq InTerm(y.term)
  /\ \A u \in Users : RowsOfTerm(y.old[u], y.term)
  /\ \A p \in y.todo \cup y.add :
       RowsOfTerm(p.remove, y.term) /\ p.add \subseteq y.att[p.student]
  /\ \A p, q \in y.todo \cup y.add : p.user = q.user => p = q
  /\ y.todo \cap y.add = {} /\ \A p, q \in y.add : p = q

\* The records come from the registrar, and a correction is for the student
\* number its user has now, unless a login is noted.
Backed(y) ==
  /\ \A s \in Students : y.att[s] \subseteq seen[s]
  /\ \A p \in y.todo \cup y.add :
       p.student = student[p.user] \/ p.user \in upset \/ student[p.user] = NoStudent

\* The corrections that are left make the rows of a user right.
Right(y, u) == Taken(u) \cap InTerm(y.term) = y.att[student[u]]
Loaded(y, u) ==
  /\ y.of[u] = student[u]
  /\ y.old[u] = {<<l, taken[u][l]>> : l \in Taken(u) \cap InTerm(y.term)}
Before(y, u, p) ==
  /\ p.user = u /\ p.student = student[u]
  /\ p.remove = {<<l, taken[u][l]>> : l \in (Taken(u) \cap InTerm(y.term)) \ y.att[student[u]]}
  /\ p.add = y.att[student[u]] \ Taken(u)
Between(y, u, p) ==
  /\ p.user = u /\ p.student = student[u]
  /\ Taken(u) \cap InTerm(y.term) \subseteq y.att[student[u]]
  /\ p.add = y.att[student[u]] \ Taken(u)
Progress(y) ==
  \A u \in y.calm :
    /\ login[u].pc = "idle"
    /\ student[u] # NoStudent =>
         /\ y.pc = "loaded" => Loaded(y, u)
         /\ y.pc \in {"updating", "adding"} =>
              \/ Right(y, u) /\ \A p \in y.todo \cup y.add : p.user # u
              \/ \E p \in y.todo : Before(y, u, p)
              \/ \E p \in y.add : Between(y, u, p)
         /\ y.pc = "saving" => Right(y, u)

\* The raw copy between its two statements.
Cleared(y) ==
  y.alone /\ y.pc = "saving" => \A s \in Students : raw[s] \cap InTerm(y.term) = {}

\* The rows of a user come from records of the student number, except between
\* a change of the number and the deletion of the rows.
Own ==
  /\ \A s \in Students : attend[s] \subseteq seen[s] /\ raw[s] \subseteq seen[s]
  /\ \A u \in Users :
       /\ login[u].pc = "idle" => login[u].raw = {}
       /\ u \notin upset /\ student[u] # NoStudent => login[u].raw \subseteq seen[student[u]]
       /\ (login[u].pc \in {"idle", "inserting"} /\ u \notin upset /\ student[u] # NoStudent) =>
            Taken(u) \subseteq seen[student[u]]

RunFits(y) == Shaped(y) /\ Backed(y) /\ Progress(y) /\ Cleared(y)

TakenInv ==
  /\ Typed /\ Own
  /\ \A r \in Runs : RunFits(run[r])
  /\ \A r, q \in Runs : r # q => (run[r].alone => run[q].pc = "idle")

\* A free run slot fits whatever the others do.
LEMMA IdleFits ==
  /\ Idle \in RunSet /\ Shaped(Idle) /\ ~Idle.alone /\ Idle.pc = "idle"
  /\ Backed(Idle)' /\ Progress(Idle)' /\ Cleared(Idle)'
<1>1. /\ Idle.pc = "idle" /\ Idle.term = NoTerm /\ Idle.att = NoRecords /\ Idle.old = NoRows
      /\ Idle.todo = {} /\ Idle.add = {} /\ ~Idle.alone /\ Idle.calm = {}
  BY DEF Idle
<1>2. Idle \in RunSet
  BY DEF Idle, RunSet, NoRecords, NoRows, Rows
<1>3. Shaped(Idle)
  BY <1>1 DEF Shaped, NoRecords, NoRows, RowsOfTerm
<1>4. Backed(Idle)' /\ Progress(Idle)' /\ Cleared(Idle)'
  BY <1>1 DEF Backed, Progress, Cleared, NoRecords
<1> QED
  BY <1>1, <1>2, <1>3, <1>4

\* There is an id that no run remembers for a row: each run remembers one.
LEMMA NewIdFresh ==
  ASSUME TakenInv, NEW u \in Users, NEW l \in Lecs
  PROVE  NewId(u, l) \in Ids /\ NewId(u, l) # 0
<1> DEFINE Rem(r, i) == \/ <<l, i>> \in run[r].old[u]
                        \/ \E p \in run[r].todo : p.user = u /\ <<l, i>> \in p.remove
<1>1. ASSUME NEW r \in Runs, NEW i \in Ids, NEW j \in Ids, Rem(r, i), Rem(r, j) PROVE i = j
  <2>1. Shaped(run[r])
    BY DEF TakenInv, RunFits
  <2>2. CASE run[r].pc = "loaded"
    <3>1. run[r].todo = {} /\ RowsOfTerm(run[r].old[u], run[r].term)
      BY <2>1, <2>2 DEF Shaped
    <3>2. <<l, i>> \in run[r].old[u] /\ <<l, j>> \in run[r].old[u]
      BY <1>1, <3>1
    <3>3. <<l, i>> = <<l, j>>
      BY <3>1, <3>2 DEF RowsOfTerm
    <3> QED
      BY <3>3
  <2>3. CASE run[r].pc # "loaded"
    <3>1. run[r].old[u] = {}
      BY <2>1, <2>3 DEF Shaped
    <3>2. PICK p \in run[r].todo : p.user = u /\ <<l, i>> \in p.remove
      BY <1>1, <3>1
    <3>3. PICK q \in run[r].todo : q.user = u /\ <<l, j>> \in q.remove
      BY <1>1, <3>1
    <3>4. p = q /\ RowsOfTerm(p.remove, run[r].term)
      BY <2>1, <3>2, <3>3 DEF Shaped
    <3>5. <<l, i>> = <<l, j>>
      BY <3>2, <3>3, <3>4 DEF RowsOfTerm
    <3> QED
      BY <3>5
  <2> QED
    BY <2>2, <2>3
<1>2. \E i \in Ids : i \notin Remembered(u, l)
  <2> SUFFICES ASSUME \A i \in Ids : \E r \in Runs : Rem(r, i) PROVE FALSE
    BY DEF Remembered
  <2> DEFINE holder == [i \in Ids |-> CHOOSE r \in Runs : Rem(r, i)]
  <2>1. Cardinality(Runs) \in Nat
    BY TakenAssumption, FS_CardinalityType
  <2>2. IsFiniteSet(Ids) /\ Cardinality(Ids) = Cardinality(Runs) + 1
    BY <2>1, FS_Interval DEF Ids
  <2>3. \A i \in Ids : holder[i] \in Runs /\ Rem(holder[i], i)
    OBVIOUS
  <2>4. holder \in [Ids -> Runs]
    BY <2>3
  <2>5. Cardinality(Runs) < Cardinality(Ids)
    BY <2>1, <2>2
  <2> HIDE DEF holder
  <2>6. \E i, j \in Ids : i # j /\ holder[i] = holder[j]
    BY <2>2, <2>4, <2>5, TakenAssumption, FS_PigeonHole
  <2> QED
    BY <1>1, <2>3, <2>6
<1>3. NewId(u, l) \in Ids
  BY <1>2 DEF NewId
<1> QED
  BY <1>3 DEF Ids

\* createMany inserts rows with new ids and leaves the others alone.
LEMMA Created ==
  ASSUME TakenInv, NEW u \in Users, NEW L \in SUBSET Lecs, Create(u, L)
  PROVE  /\ taken' \in [Users -> [Lecs -> {0} \cup Ids]]
         /\ Taken(u)' = Taken(u) \cup L
         /\ \A v \in Users \ {u} : taken'[v] = taken[v]
<1> DEFINE g == [l \in Lecs |-> IF l \in L THEN NewId(u, l) ELSE taken[u][l]]
<1>1. taken' = [taken EXCEPT ![u] = g] /\ taken \in [Users -> [Lecs -> {0} \cup Ids]]
  BY DEF Create, TakenInv, Typed
<1>2. g \in [Lecs -> {0} \cup Ids]
  BY <1>1, NewIdFresh
<1>3. taken'[u] = g
  BY <1>1
<1>4. \A l \in Lecs : g[l] # 0 <=> taken[u][l] # 0 \/ l \in L
  BY NewIdFresh
<1> HIDE DEF g
<1> QED
  BY <1>1, <1>2, <1>3, <1>4 DEF Taken

\* One run moves on.  While it is active no other one is calm.
LEMMA RunStep ==
  ASSUME TakenInv, NEW r \in Runs, run[r].pc # "idle", NEW y \in RunSet,
         y.alone => run[r].alone, Shaped(y), Backed(y)', Progress(y)', Cleared(y)',
         run' = [run EXCEPT ![r] = y],
         UNCHANGED <<attend, student, login, seen, upset, changes>>,
         faults' \in 0..MaxFaults, taken' \in [Users -> [Lecs -> {0} \cup Ids]],
         raw' \in [Students -> SUBSET Lecs], Own'
  PROVE  TakenInv'
<1>1. \A q \in Runs : run'[q] = IF q = r THEN y ELSE run[q]
  BY DEF TakenInv, Typed
<1>2. Typed'
  BY DEF TakenInv, Typed
<1>3. ASSUME NEW q \in Runs \ {r} PROVE RunFits(run[q])'
  <2>1. RunFits(run[q]) /\ ~run[q].alone /\ run'[q] = run[q]
    BY <1>1 DEF TakenInv
  <2>2. run[q].calm = {}
    BY <2>1 DEF RunFits, Shaped
  <2> QED
    BY <2>1, <2>2 DEF RunFits, Shaped, Backed, Progress, Cleared
<1>4. \A p, q \in Runs : p # q => (run'[p].alone => run'[q].pc = "idle")
  BY <1>1 DEF TakenInv
<1>5. RunFits(run[r])'
  BY <1>1 DEF RunFits, Shaped, Backed, Progress, Cleared
<1> QED
  BY <1>1, <1>2, <1>3, <1>4, <1>5 DEF TakenInv

\* Rows <<lecture, id>> taken from a function of lectures.
LEMMA RowsOfFunction ==
  ASSUME NEW S, NEW f, NEW R, R = {<<l, f[l]>> : l \in S}
  PROVE  /\ \A x \in R : x[1] \in S /\ x = <<x[1], f[x[1]]>>
         /\ \A l \in S : <<l, f[l]>> \in R
<1>1. \A x \in R : \E l \in S : x = <<l, f[l]>> /\ x[1] = l
  OBVIOUS
<1>2. \A l \in S : <<l, f[l]>> \in R /\ <<l, f[l]>>[1] = l
  OBVIOUS
<1>3. \A x \in R : x[1] \in S /\ x = <<x[1], f[x[1]]>>
  BY <1>1
<1> QED
  BY <1>2, <1>3

\* What a run reads of the rows of its term.
LEMMA ReadTakenStep ==
  ASSUME TakenInv, NEW r \in Runs, ReadTaken(r)
  PROVE  TakenInv'
<1> DEFINE w == [run[r] EXCEPT !.pc = "loaded", !.of = student,
                   !.old = [u \in Users |->
                     IF student[u] = NoStudent THEN {}
                     ELSE {<<l, taken[u][l]>> : l \in Taken(u) \cap InTerm(run[r].term)}]]
<1>1. PICK y : y = w
  OBVIOUS
<1>2. run[r] \in RunSet /\ run[r].pc = "fetched" /\ RunFits(run[r])
  BY DEF ReadTaken, TakenInv, Typed
<1>3. /\ run' = [run EXCEPT ![r] = y]
      /\ UNCHANGED <<attend, student, taken, raw, login, seen, upset, changes, faults>>
  BY <1>1 DEF ReadTaken, db
<1>4. /\ y.pc = "loaded" /\ y.term = run[r].term /\ y.att = run[r].att /\ y.of = student
      /\ y.todo = run[r].todo /\ y.add = run[r].add
      /\ y.alone = run[r].alone /\ y.calm = run[r].calm
      /\ \A u \in Users : y.old[u] = IF student[u] = NoStudent THEN {}
           ELSE {<<l, taken[u][l]>> : l \in Taken(u) \cap InTerm(y.term)}
  BY <1>1, <1>2 DEF RunSet
<1>5. y \in RunSet
  <2>1. \A u \in Users : {<<l, taken[u][l]>> : l \in Taken(u) \cap InTerm(run[r].term)} \in Rows
    BY DEF Rows, Taken, TakenInv, Typed
  <2>2. [u \in Users |->
                     IF student[u] = NoStudent THEN {}
                     ELSE {<<l, taken[u][l]>> : l \in Taken(u) \cap InTerm(run[r].term)}]
          \in [Users -> Rows]
    BY <2>1 DEF Rows
  <2>3. student \in [Users -> Students \cup {NoStudent}]
    BY DEF TakenInv, Typed
  <2> QED
    BY <1>1, <1>2, <2>2, <2>3 DEF RunSet
<1>6. Shaped(y)
  <2>1. ASSUME NEW u \in Users, student[u] # NoStudent PROVE RowsOfTerm(y.old[u], y.term)
    <3>1. y.old[u] = {<<l, taken[u][l]>> : l \in Taken(u) \cap InTerm(y.term)}
      BY <1>4, <2>1
    <3>2. \A x \in y.old[u] : x[1] \in Taken(u) \cap InTerm(y.term) /\ x = <<x[1], taken[u][x[1]]>>
      BY <3>1, RowsOfFunction
    <3> QED
      BY <3>2 DEF RowsOfTerm, InTerm
  <2>2. \A u \in Users : student[u] = NoStudent => RowsOfTerm(y.old[u], y.term)
    BY <1>4 DEF RowsOfTerm
  <2> QED
    BY <1>2, <1>4, <2>1, <2>2 DEF RunFits, Shaped
<1>7. Backed(y)' /\ Cleared(y)'
  BY <1>2, <1>3, <1>4 DEF RunFits, Backed, Cleared
<1>8. Progress(y)'
  <2> SUFFICES ASSUME NEW u \in y.calm
               PROVE  /\ login[u].pc = "idle"
                      /\ student[u] # NoStudent => Loaded(y, u)
    BY <1>3, <1>4 DEF Progress, Loaded, Taken
  <2>1. u \in Users
    BY <1>5 DEF RunSet
  <2> QED
    BY <1>2, <1>4, <2>1 DEF RunFits, Progress, Loaded
<1>9. Own'
  BY <1>3 DEF TakenInv, Own, Taken
<1>10. faults' \in 0..MaxFaults /\ taken' \in [Users -> [Lecs -> {0} \cup Ids]]
       /\ raw' \in [Students -> SUBSET Lecs]
  BY <1>3 DEF TakenInv, Typed
<1> QED
  BY <1>2, <1>3, <1>4, <1>5, <1>6, <1>7, <1>8, <1>9, <1>10, RunStep

\* A correction computed from the rows read and the records fetched.
LEMMA CorrectionFits ==
  ASSUME TakenInv, NEW r \in Runs, run[r].pc = "loaded", NEW u \in Users,
         student[u] \in StudentIds(r), NEW c, c = Correction(r, u)
  PROVE  /\ c \in CorrSet /\ c.user = u /\ c.student = student[u]
         /\ RowsOfTerm(c.remove, run[r].term) /\ c.add \subseteq run[r].att[c.student]
         /\ u \in run[r].calm => (c.remove \cup c.add # {} => Before(run[r], u, c))
         /\ u \in run[r].calm => (c.remove \cup c.add = {} => Right(run[r], u))
<1>1. run[r] \in RunSet /\ Shaped(run[r]) /\ Progress(run[r])
  BY DEF TakenInv, Typed, RunFits
<1>2. /\ c.user = u /\ c.student = student[u] /\ student[u] \in Students
      /\ c.remove = {x \in RowsOf(r, u) : x[1] \notin run[r].att[student[u]]}
      /\ c.add = run[r].att[student[u]] \ {x[1] : x \in RowsOf(r, u)}
  BY DEF Correction, StudentIds
<1>3. RowsOf(r, u) \in Rows /\ RowsOfTerm(RowsOf(r, u), run[r].term)
  <2>1. run[r].old[u] \in Rows /\ RowsOfTerm(run[r].old[u], run[r].term)
    BY <1>1 DEF RunSet, Shaped
  <2> QED
    BY <2>1 DEF RowsOf, Rows, RowsOfTerm
<1>4. c \in CorrSet
  <2>1. c.remove \in Rows /\ c.add \in SUBSET Lecs
    BY <1>1, <1>2, <1>3 DEF Rows, RunSet
  <2> QED
    BY <1>2, <2>1 DEF Correction, CorrSet
<1>5. RowsOfTerm(c.remove, run[r].term) /\ c.add \subseteq run[r].att[c.student]
  BY <1>2, <1>3 DEF RowsOfTerm
<1>6. ASSUME u \in run[r].calm
      PROVE  /\ c.remove = {<<l, taken[u][l]>> :
                  l \in (Taken(u) \cap InTerm(run[r].term)) \ run[r].att[student[u]]}
             /\ c.add = run[r].att[student[u]] \ Taken(u)
  <2>1. student[u] # NoStudent
    BY <1>2, TakenAssumption
  <2>2. RowsOf(r, u) = {<<l, taken[u][l]>> : l \in Taken(u) \cap InTerm(run[r].term)}
    <3>1. Loaded(run[r], u)
      BY <1>1, <1>6, <2>1 DEF Progress
    <3> QED
      BY <3>1 DEF Loaded, RowsOf
  <2>3. /\ \A x \in RowsOf(r, u) : x[1] \in Taken(u) \cap InTerm(run[r].term)
                                  /\ x = <<x[1], taken[u][x[1]]>>
        /\ \A l \in Taken(u) \cap InTerm(run[r].term) : <<l, taken[u][l]>> \in RowsOf(r, u)
    BY <2>2, RowsOfFunction
  <2>4. \A l \in Taken(u) \cap InTerm(run[r].term) : \E x \in RowsOf(r, u) : l = x[1]
    BY <2>3
  <2>5. {x[1] : x \in RowsOf(r, u)} = Taken(u) \cap InTerm(run[r].term)
    BY <2>3, <2>4
  <2>6. run[r].att[student[u]] \subseteq InTerm(run[r].term)
    BY <1>1, <1>2 DEF Shaped
  <2> QED
    <3>1. ASSUME NEW x PROVE x \in c.remove <=> x \in {<<l, taken[u][l]>> :
                  l \in (Taken(u) \cap InTerm(run[r].term)) \ run[r].att[student[u]]}
      <4>1. CASE x \in c.remove
        <5>1. x[1] \in (Taken(u) \cap InTerm(run[r].term)) \ run[r].att[student[u]]
              /\ x = <<x[1], taken[u][x[1]]>>
          BY <1>2, <2>3, <4>1
        <5> QED
          BY <4>1, <5>1
      <4>2. ASSUME NEW l \in (Taken(u) \cap InTerm(run[r].term)) \ run[r].att[student[u]],
                   x = <<l, taken[u][l]>>
            PROVE  x \in c.remove
        <5>1. x \in RowsOf(r, u) /\ x[1] = l
          BY <2>3, <4>2
        <5> QED
          BY <1>2, <5>1
      <4> QED
        BY <4>1, <4>2
    <3> QED
      BY <1>2, <2>6, <2>5, <3>1
<1>7. ASSUME u \in run[r].calm, c.remove \cup c.add = {} PROVE Right(run[r], u)
  <2>1. c.remove = {} /\ c.add = {}
    BY <1>7
  <2>2. run[r].att[student[u]] \subseteq InTerm(run[r].term)
    BY <1>1, <1>2 DEF Shaped
  <2>3. (Taken(u) \cap InTerm(run[r].term)) \ run[r].att[student[u]] = {}
    BY <1>6, <1>7, <2>1
  <2> QED
    BY <1>6, <1>7, <2>1, <2>2, <2>3 DEF Right
<1> QED
  BY <1>2, <1>4, <1>5, <1>6, <1>7 DEF Before

\* The corrections computed from what has been read.
LEMMA ReadProfilesStep ==
  ASSUME TakenInv, NEW r \in Runs, ReadProfiles(r)
  PROVE  TakenInv'
<1> DEFINE T == {p \in {Correction(r, u) : u \in {u \in Users : student[u] \in StudentIds(r)}} :
                   p.remove \cup p.add # {}}
<1>1. PICK y : y = [run[r] EXCEPT !.pc = "updating", !.old = NoRows, !.of = Idle.of, !.todo = T]
  OBVIOUS
<1>2. run[r] \in RunSet /\ run[r].pc = "loaded" /\ RunFits(run[r])
  BY DEF ReadProfiles, TakenInv, Typed
<1>3. /\ run' = [run EXCEPT ![r] = y]
      /\ UNCHANGED <<attend, student, taken, raw, login, seen, upset, changes, faults>>
  BY <1>1 DEF ReadProfiles, db
<1>4. \A p \in T : \E u \in Users : student[u] \in StudentIds(r) /\ p = Correction(r, u)
  OBVIOUS
<1>5. \A u \in Users : student[u] \in StudentIds(r) =>
        Correction(r, u) \in T \/ Correction(r, u).remove \cup Correction(r, u).add = {}
  OBVIOUS
<1>6. T \in SUBSET CorrSet
  BY <1>2, <1>4, CorrectionFits
<1>7. y \in RunSet
  BY <1>1, <1>2, <1>6, IdleFits DEF RunSet, NoRows, Rows
<1>8. /\ y.pc = "updating" /\ y.term = run[r].term /\ y.att = run[r].att /\ y.old = NoRows
      /\ y.todo = T /\ y.add = run[r].add /\ y.alone = run[r].alone /\ y.calm = run[r].calm
  BY <1>1, <1>2 DEF RunSet
<1>9. PICK todo : todo = T
  OBVIOUS
<1> HIDE DEF T
<1>10. \A p \in todo : \E u \in Users :
         /\ p.user = u /\ p.student = student[u] /\ student[u] \in StudentIds(r)
         /\ p = Correction(r, u)
         /\ RowsOfTerm(p.remove, y.term) /\ p.add \subseteq y.att[p.student]
  BY <1>2, <1>4, <1>8, <1>9, CorrectionFits
<1>11. Shaped(y)
  <2>1. y.add = {} /\ y.todo = todo
    BY <1>2, <1>8, <1>9 DEF RunFits, Shaped
  <2>2. \A p, q \in todo : p.user = q.user => p = q
    BY <1>10
  <2>3. \A u \in Users : y.old[u] = {} /\ RowsOfTerm(y.old[u], y.term)
    BY <1>8 DEF NoRows, RowsOfTerm
  <2> QED
    BY <1>2, <1>8, <1>10, <2>1, <2>2, <2>3 DEF RunFits, Shaped
<1>12. Backed(y)' /\ Cleared(y)'
  <2>1. y.add = {} /\ y.todo = todo
    BY <1>2, <1>8, <1>9 DEF RunFits, Shaped
  <2> QED
    BY <1>2, <1>3, <1>8, <1>10, <2>1 DEF RunFits, Backed, Cleared
<1>13. Progress(y)'
  <2> SUFFICES ASSUME NEW u \in y.calm
               PROVE  /\ login[u].pc = "idle"
                      /\ student[u] # NoStudent =>
                           \/ Right(y, u) /\ \A p \in y.todo \cup y.add : p.user # u
                           \/ \E p \in y.todo : Before(y, u, p)
    BY <1>3, <1>8 DEF Progress, Right, Before, Taken
  <2>1. u \in Users /\ u \in run[r].calm /\ login[u].pc = "idle"
    BY <1>2, <1>8 DEF RunSet, RunFits, Progress
  <2>2. y.add = {} /\ y.todo = todo
    BY <1>2, <1>8, <1>9 DEF RunFits, Shaped
  <2>3. CASE student[u] \in StudentIds(r)
    <3>1. PICK c : c = Correction(r, u)
      OBVIOUS
    <3>2. CASE c.remove \cup c.add = {}
      <4>1. Right(y, u)
        BY <1>2, <1>8, <2>1, <2>3, <3>1, <3>2, CorrectionFits DEF Right
      <4>2. \A p \in todo : p.user # u
        <5> SUFFICES ASSUME NEW p \in todo, p.user = u PROVE FALSE
          OBVIOUS
        <5>1. p = c
          BY <1>10, <3>1
        <5> QED
          BY <1>9, <3>2, <5>1 DEF T
      <4> QED
        BY <2>1, <2>2, <4>1, <4>2
    <3>3. CASE c.remove \cup c.add # {}
      <4>1. c \in todo
        BY <1>5, <1>9, <2>1, <2>3, <3>1, <3>3
      <4>2. Before(run[r], u, c)
        BY <1>2, <2>1, <2>3, <3>1, <3>3, CorrectionFits
      <4>3. Before(y, u, c)
        BY <1>8, <4>2 DEF Before
      <4> QED
        BY <2>1, <2>2, <4>1, <4>3
    <3> QED
      BY <3>2, <3>3
  <2>4. CASE student[u] \notin StudentIds(r)
    <3>1. \A p \in todo : p.user # u
      BY <1>10, <2>4
    <3>2. ASSUME student[u] # NoStudent PROVE Right(y, u)
      <4>1. student[u] \in Students
        BY <2>1, <3>2 DEF TakenInv, Typed
      <4>2. run[r].of[u] = student[u]
            /\ run[r].old[u] = {<<l, taken[u][l]>> : l \in Taken(u) \cap InTerm(run[r].term)}
        BY <1>2, <2>1, <3>2 DEF RunFits, Progress, Loaded
      <4>3. run[r].att[student[u]] = {} /\ run[r].old[u] = {}
        BY <2>1, <2>4, <4>1, <4>2 DEF StudentIds
      <4> QED
        BY <1>8, <4>2, <4>3 DEF Right
    <3> QED
      BY <2>1, <2>2, <3>1, <3>2
  <2> QED
    BY <2>3, <2>4
<1>14. Own'
  BY <1>3 DEF TakenInv, Own, Taken
<1>15. faults' \in 0..MaxFaults /\ taken' \in [Users -> [Lecs -> {0} \cup Ids]]
       /\ raw' \in [Students -> SUBSET Lecs]
  BY <1>3 DEF TakenInv, Typed
<1> QED
  BY <1>2, <1>3, <1>7, <1>8, <1>11, <1>12, <1>13, <1>14, <1>15, RunStep

\* The first statement of a correction deletes the rows by their ids.
LEMMA RemoveRowsStep ==
  ASSUME TakenInv, NEW r \in Runs, RemoveRows(r)
  PROVE  TakenInv'
<1>1. PICK p \in run[r].todo :
        /\ taken' = [taken EXCEPT ![p.user] =
                       [l \in Lecs |-> IF <<l, @[l]>> \in p.remove THEN 0 ELSE @[l]]]
        /\ run' = [run EXCEPT ![r] = [@ EXCEPT !.pc = "adding", !.add = {p},
                                        !.todo = run[r].todo \ {p}]]
  BY DEF RemoveRows
<1>2. /\ run[r] \in RunSet /\ run[r].pc = "updating" /\ RunFits(run[r]) /\ run[r].add = {}
      /\ p \in CorrSet /\ p.user \in Users
  BY DEF RemoveRows, TakenInv, Typed, RunFits, Shaped, RunSet, CorrSet
<1>3. PICK y : y = [run[r] EXCEPT !.pc = "adding", !.add = {p}, !.todo = run[r].todo \ {p}]
  OBVIOUS
<1>4. /\ run' = [run EXCEPT ![r] = y]
      /\ UNCHANGED <<attend, student, raw, login, seen, upset, changes, faults>>
  BY <1>1, <1>3 DEF RemoveRows
<1>5. y \in RunSet
  BY <1>2, <1>3 DEF RunSet
<1>6. /\ y.pc = "adding" /\ y.term = run[r].term /\ y.att = run[r].att /\ y.old = run[r].old
      /\ y.todo = run[r].todo \ {p} /\ y.add = {p} /\ y.alone = run[r].alone
      /\ y.calm = run[r].calm
  BY <1>2, <1>3 DEF RunSet
<1>7. /\ \A v \in Users \ {p.user} : taken'[v] = taken[v]
      /\ \A l \in Lecs : taken'[p.user][l] = IF <<l, taken[p.user][l]>> \in p.remove THEN 0
                                             ELSE taken[p.user][l]
      /\ taken' \in [Users -> [Lecs -> {0} \cup Ids]]
  BY <1>1, <1>2 DEF TakenInv, Typed
<1>8. \A v \in Users : Taken(v)' \subseteq Taken(v) /\ (v # p.user => Taken(v)' = Taken(v))
  BY <1>7 DEF Taken
<1>9. Shaped(y) /\ Backed(y)' /\ Cleared(y)'
  BY <1>2, <1>4, <1>6 DEF RunFits, Shaped, Backed, Cleared
<1>10. Progress(y)'
  <2> SUFFICES ASSUME NEW u \in y.calm
               PROVE  /\ login[u].pc = "idle"
                      /\ student[u] # NoStudent =>
                           \/ Right(y, u)' /\ \A q \in y.todo \cup y.add : q.user # u
                           \/ \E q \in y.todo : Before(y, u, q)'
                           \/ \E q \in y.add : Between(y, u, q)'
    BY <1>4, <1>6 DEF Progress
  <2>1. u \in Users /\ u \in run[r].calm /\ login[u].pc = "idle"
    BY <1>2, <1>6 DEF RunSet, RunFits, Progress
  <2>2. student[u] # NoStudent =>
          \/ Right(run[r], u) /\ \A q \in run[r].todo : q.user # u
          \/ \E q \in run[r].todo : Before(run[r], u, q)
    BY <1>2, <2>1 DEF RunFits, Progress
  <2>3. CASE u # p.user
    <3>1. Taken(u)' = Taken(u) /\ taken'[u] = taken[u] /\ student'[u] = student[u]
      BY <1>4, <1>7, <1>8, <2>1, <2>3
    <3>2. Right(run[r], u) => Right(y, u)'
      BY <1>6, <3>1 DEF Right
    <3>3. \A q : Before(run[r], u, q) => Before(y, u, q)' /\ q # p
      BY <1>6, <2>3, <3>1 DEF Before
    <3> QED
      BY <1>6, <2>1, <2>2, <2>3, <3>2, <3>3
  <2>4. CASE u = p.user
    <3> SUFFICES ASSUME student[u] # NoStudent PROVE Between(y, u, p)'
      BY <1>6, <2>1
    <3>1. PICK q \in run[r].todo : Before(run[r], u, q)
      BY <2>2, <2>4
    <3>2. q = p
      BY <1>2, <2>4, <3>1 DEF RunFits, Shaped, Before
    <3> DEFINE S == (Taken(u) \cap InTerm(run[r].term)) \ run[r].att[student[u]]
    <3>3. p.remove = {<<l, taken[u][l]>> : l \in S}
      BY <3>1, <3>2 DEF Before
    <3>4. \A x \in p.remove : x[1] \in S
      BY <3>3, RowsOfFunction
    <3>5. \A l \in S : <<l, taken[u][l]>> \in p.remove
      BY <3>3, RowsOfFunction
    <3>6. \A l \in Lecs : <<l, taken[u][l]>> \in p.remove <=> l \in S
      <4> SUFFICES ASSUME NEW l \in Lecs, <<l, taken[u][l]>> \in p.remove PROVE l \in S
        BY <3>5
      <4>1. <<l, taken[u][l]>>[1] \in S
        BY <3>4
      <4> QED
        BY <4>1
    <3>7. Taken(u)' = Taken(u) \ S
      BY <1>7, <2>4, <3>6 DEF Taken
    <3> QED
      BY <1>4, <1>6, <2>4, <3>1, <3>2, <3>7 DEF Between, Before
  <2> QED
    BY <2>3, <2>4
<1>11. Own'
  BY <1>4, <1>8 DEF TakenInv, Own
<1>12. faults' \in 0..MaxFaults /\ raw' \in [Students -> SUBSET Lecs]
  BY <1>4 DEF TakenInv, Typed
<1> QED
  BY <1>2, <1>4, <1>5, <1>6, <1>7, <1>9, <1>10, <1>11, <1>12, RunStep

\* A statement fails: the users of the student number are skipped.
LEMMA SkipStep ==
  ASSUME TakenInv, NEW r \in Runs, NEW p,
         \/ run[r].pc = "adding" /\ p \in run[r].add
         \/ run[r].pc = "updating" /\ p \in run[r].todo,
         SkipStudent(r, p.student), faults' \in 0..MaxFaults,
         UNCHANGED <<attend, student, taken, raw, login, seen, upset, changes>>
  PROVE  TakenInv'
<1>1. PICK y : y = [run[r] EXCEPT !.pc = "updating", !.add = {},
                      !.todo = {q \in run[r].todo : q.student # p.student},
                      !.calm = {u \in run[r].calm : student[u] # p.student}]
  OBVIOUS
<1>2. run[r] \in RunSet /\ RunFits(run[r]) /\ run[r].pc \in {"updating", "adding"}
  BY DEF TakenInv, Typed
<1>3. run' = [run EXCEPT ![r] = y]
  BY <1>1 DEF SkipStudent
<1>4. /\ y.pc = "updating" /\ y.term = run[r].term /\ y.att = run[r].att /\ y.old = run[r].old
      /\ y.todo = {q \in run[r].todo : q.student # p.student} /\ y.add = {}
      /\ y.alone = run[r].alone
      /\ y.calm = {u \in run[r].calm : student[u] # p.student}
  BY <1>1, <1>2 DEF RunSet
<1>5. y \in RunSet
  BY <1>1, <1>2 DEF RunSet
<1>6. Shaped(y) /\ Backed(y)' /\ Cleared(y)'
  BY <1>2, <1>4 DEF RunFits, Shaped, Backed, Cleared
<1>7. Progress(y)'
  <2> SUFFICES ASSUME NEW u \in y.calm
               PROVE  /\ login[u].pc = "idle"
                      /\ student[u] # NoStudent =>
                           \/ Right(y, u) /\ \A q \in y.todo \cup y.add : q.user # u
                           \/ \E q \in y.todo : Before(y, u, q)
    BY <1>4 DEF Progress, Right, Before, Taken
  <2>1. /\ u \in run[r].calm /\ student[u] # p.student /\ login[u].pc = "idle"
        /\ student[u] # NoStudent =>
             \/ Right(run[r], u) /\ \A q \in run[r].todo \cup run[r].add : q.user # u
             \/ \E q \in run[r].todo : Before(run[r], u, q)
             \/ \E q \in run[r].add : Between(run[r], u, q)
    BY <1>2, <1>4 DEF RunFits, Progress
  <2>2. \A q \in run[r].add : q = p
    BY <1>2 DEF RunFits, Shaped
  <2>3. \A q \in run[r].add : ~Between(run[r], u, q)
    BY <2>1, <2>2 DEF Between
  <2>4. \A q \in run[r].todo : Before(run[r], u, q) => q \in y.todo /\ Before(y, u, q)
    BY <1>4, <2>1 DEF Before
  <2>5. Right(run[r], u) => Right(y, u)
    BY <1>4 DEF Right
  <2> QED
    BY <1>4, <2>1, <2>3, <2>4, <2>5
<1>8. Own'
  BY DEF TakenInv, Own, Taken
<1>9. taken' \in [Users -> [Lecs -> {0} \cup Ids]] /\ raw' \in [Students -> SUBSET Lecs]
  BY DEF TakenInv, Typed
<1> QED
  BY <1>2, <1>3, <1>4, <1>5, <1>6, <1>7, <1>8, <1>9, RunStep

\* The second statement of a correction inserts the rows that are missing.
LEMMA AddRowsStep ==
  ASSUME TakenInv, NEW r \in Runs, AddRows(r)
  PROVE  TakenInv'
<1>1. PICK p \in run[r].add :
        IF Creatable(p.user, p.add)
        THEN /\ Create(p.user, p.add)
             /\ run' = [run EXCEPT ![r] = [@ EXCEPT !.pc = "updating", !.add = {}]]
        ELSE SkipStudent(r, p.student) /\ UNCHANGED taken
  BY DEF AddRows
<1>2. /\ run[r] \in RunSet /\ run[r].pc = "adding" /\ RunFits(run[r])
      /\ p.user \in Users /\ p.add \in SUBSET Lecs /\ p.student \in Students
      /\ UNCHANGED <<attend, student, raw, login, seen, upset, changes, faults>>
      /\ faults' \in 0..MaxFaults /\ raw' \in [Students -> SUBSET Lecs]
  BY DEF AddRows, TakenInv, Typed, RunSet, CorrSet
<1>3. CASE ~Creatable(p.user, p.add)
  BY <1>1, <1>2, <1>3, SkipStep
<1>4. CASE Creatable(p.user, p.add)
  <2>1. PICK y : y = [run[r] EXCEPT !.pc = "updating", !.add = {}]
    OBVIOUS
  <2>2. run' = [run EXCEPT ![r] = y] /\ Create(p.user, p.add)
    BY <1>1, <1>4, <2>1
  <2>3. y \in RunSet
    BY <1>2, <2>1 DEF RunSet
  <2>4. /\ y.pc = "updating" /\ y.term = run[r].term /\ y.att = run[r].att /\ y.old = run[r].old
        /\ y.todo = run[r].todo /\ y.add = {} /\ y.alone = run[r].alone
        /\ y.calm = run[r].calm
    BY <1>2, <2>1 DEF RunSet
  <2>5. /\ taken' \in [Users -> [Lecs -> {0} \cup Ids]]
        /\ Taken(p.user)' = Taken(p.user) \cup p.add
        /\ \A v \in Users \ {p.user} : taken'[v] = taken[v] /\ Taken(v)' = Taken(v)
    BY <1>2, <2>2, Created DEF Taken
  <2>6. Shaped(y) /\ Backed(y)' /\ Cleared(y)'
    BY <1>2, <2>4 DEF RunFits, Shaped, Backed, Cleared
  <2>7. Progress(y)'
    <3> SUFFICES ASSUME NEW u \in y.calm
                 PROVE  /\ login[u].pc = "idle"
                        /\ student[u] # NoStudent =>
                             \/ Right(y, u)' /\ \A q \in y.todo \cup y.add : q.user # u
                             \/ \E q \in y.todo : Before(y, u, q)'
      BY <1>2, <2>4 DEF Progress
    <3>1. /\ u \in Users /\ login[u].pc = "idle"
          /\ student[u] # NoStudent =>
               \/ Right(run[r], u) /\ \A q \in run[r].todo \cup run[r].add : q.user # u
               \/ \E q \in run[r].todo : Before(run[r], u, q)
               \/ \E q \in run[r].add : Between(run[r], u, q)
      BY <1>2, <2>4 DEF RunSet, RunFits, Progress
    <3>2. /\ \A q \in run[r].add : q = p
          /\ \A q \in run[r].todo : q.user # p.user
      BY <1>2 DEF RunFits, Shaped
    <3>3. CASE u # p.user
      <4>1. Taken(u)' = Taken(u) /\ taken'[u] = taken[u] /\ student'[u] = student[u]
        BY <1>2, <2>5, <3>1, <3>3
      <4>2. Right(run[r], u) => Right(y, u)'
        BY <2>4, <4>1 DEF Right
      <4>3. \A q : Before(run[r], u, q) => Before(y, u, q)'
        BY <2>4, <4>1 DEF Before
      <4>4. \A q \in run[r].add : ~Between(run[r], u, q)
        BY <3>2, <3>3 DEF Between
      <4> QED
        BY <2>4, <3>1, <4>2, <4>3, <4>4
    <3>4. CASE u = p.user
      <4> SUFFICES ASSUME student[u] # NoStudent
                   PROVE  Right(y, u)' /\ \A q \in y.todo \cup y.add : q.user # u
        BY <3>1
      <4>1. Between(run[r], u, p)
        BY <3>1, <3>2, <3>4 DEF Before
      <4>2. student[u] \in Students
        BY <3>1 DEF TakenInv, Typed
      <4>3. run[r].att[student[u]] \subseteq InTerm(run[r].term)
        BY <1>2, <4>2 DEF RunFits, Shaped
      <4>4. Taken(u)' \cap InTerm(run[r].term) = run[r].att[student[u]]
        BY <2>5, <3>4, <4>1, <4>3 DEF Between
      <4> QED
        BY <1>2, <2>4, <3>2, <3>4, <4>4 DEF Right
    <3> QED
      BY <3>3, <3>4
  <2>8. Own'
    <3>1. p.add \subseteq seen[p.student]
          /\ (p.student = student[p.user] \/ p.user \in upset \/ student[p.user] = NoStudent)
      BY <1>2 DEF RunFits, Shaped, Backed
    <3> QED
      BY <1>2, <2>5, <3>1 DEF TakenInv, Own
  <2> QED
    BY <1>2, <2>2, <2>3, <2>4, <2>5, <2>6, <2>7, <2>8, RunStep
<1> QED
  BY <1>3, <1>4

\* The raw copy of the term is deleted once no correction is left.
LEMMA ClearRawStep ==
  ASSUME TakenInv, NEW r \in Runs, ClearRaw(r)
  PROVE  TakenInv'
<1>1. PICK y : y = [run[r] EXCEPT !.pc = "saving"]
  OBVIOUS
<1>2. /\ run[r] \in RunSet /\ RunFits(run[r]) /\ run[r].pc = "updating"
      /\ run[r].todo = {} /\ run[r].add = {}
  BY DEF ClearRaw, TakenInv, Typed, RunFits, Shaped
<1>3. /\ run' = [run EXCEPT ![r] = y] /\ raw' = [s \in Students |-> raw[s] \ InTerm(run[r].term)]
      /\ UNCHANGED <<attend, student, taken, login, seen, upset, changes, faults>>
  BY <1>1 DEF ClearRaw
<1>4. /\ y.pc = "saving" /\ y.term = run[r].term /\ y.att = run[r].att /\ y.old = run[r].old
      /\ y.todo = {} /\ y.add = {} /\ y.alone = run[r].alone /\ y.calm = run[r].calm
  BY <1>1, <1>2 DEF RunSet
<1>5. y \in RunSet
  BY <1>1, <1>2 DEF RunSet
<1>6. Shaped(y) /\ Backed(y)'
  BY <1>2, <1>3, <1>4 DEF RunFits, Shaped, Backed
<1>7. Progress(y)'
  BY <1>2, <1>3, <1>4 DEF RunFits, Progress, Right, Taken
<1>8. Cleared(y)'
  BY <1>3, <1>4 DEF Cleared
<1>9. Own'
  BY <1>3 DEF TakenInv, Own, Taken
<1>10. /\ faults' \in 0..MaxFaults /\ taken' \in [Users -> [Lecs -> {0} \cup Ids]]
       /\ raw' \in [Students -> SUBSET Lecs]
  BY <1>3 DEF TakenInv, Typed
<1> QED
  BY <1>2, <1>3, <1>4, <1>5, <1>6, <1>7, <1>8, <1>9, <1>10, RunStep

\* A run ends, with the raw copy saved or without.
LEMMA EndStep ==
  ASSUME TakenInv, NEW r \in Runs, SaveRaw(r) \/ StopRun(r)
  PROVE  TakenInv'
<1>1. /\ run[r] \in RunSet /\ RunFits(run[r]) /\ run[r].pc # "idle"
      /\ run' = [run EXCEPT ![r] = Idle]
      /\ UNCHANGED <<attend, student, taken, login, seen, upset, changes>>
      /\ \A s \in Students : raw'[s] \subseteq raw[s] \cup run[r].att[s]
      /\ raw' \in [Students -> SUBSET Lecs]
  BY DEF SaveRaw, StopRun, db, TakenInv, Typed, RunSet
<1>2. faults' \in 0..MaxFaults
  BY TakenAssumption DEF SaveRaw, StopRun, TakenInv, Typed
<1>3. Own'
  BY <1>1 DEF TakenInv, Own, Taken, RunFits, Backed
<1>4. taken' \in [Users -> [Lecs -> {0} \cup Ids]]
  BY <1>1 DEF TakenInv, Typed
<1> QED
  BY <1>1, <1>2, <1>3, <1>4, IdleFits, RunStep

\* A run starts: it is alone if no other one is active, and takes the others'
\* solitude from them.
LEMMA StartStep ==
  ASSUME TakenInv, NEW r \in Runs, NEW t \in Terms, StartRun(r, t)
  PROVE  TakenInv'
<1> DEFINE w == [Idle EXCEPT !.pc = "fetched", !.term = t,
                   !.att = [s \in Students |-> attend[s] \cap InTerm(t)],
                   !.alone = (Active = {}),
                   !.calm = {u \in Users : Active = {} /\ login[u].pc = "idle"}]
           z(q) == [run[q] EXCEPT !.alone = FALSE, !.calm = {}]
<1>1. PICK y : y = w
  OBVIOUS
<1>2. /\ run' = [q \in Runs |-> IF q = r THEN y ELSE z(q)]
      /\ UNCHANGED <<attend, student, taken, raw, login, seen, upset, changes>>
      /\ run[r].pc = "idle"
  BY <1>1 DEF StartRun, db
<1>3. /\ y.pc = "fetched" /\ y.term = t
      /\ y.att = [s \in Students |-> attend[s] \cap InTerm(t)]
      /\ y.old = NoRows /\ y.todo = {} /\ y.add = {}
      /\ y.calm = {u \in Users : Active = {} /\ login[u].pc = "idle"}
  BY <1>1 DEF Idle
<1>4. y.alone \in BOOLEAN /\ (y.alone <=> Active = {})
  BY <1>1 DEF Idle
<1>5. y \in RunSet
  <2>1. [s \in Students |-> attend[s] \cap InTerm(t)] \in [Students -> SUBSET Lecs]
    BY DEF InTerm
  <2> QED
    BY <1>1, <2>1, IdleFits DEF RunSet
<1>6. ASSUME NEW q \in Runs \ {r}
      PROVE  /\ run'[q] \in RunSet /\ run'[q].pc = run[q].pc /\ run'[q].term = run[q].term
             /\ run'[q].att = run[q].att /\ run'[q].old = run[q].old
             /\ run'[q].todo = run[q].todo /\ run'[q].add = run[q].add
             /\ ~run'[q].alone /\ run'[q].calm = {}
  <2>1. run[q] \in RunSet /\ run'[q] = z(q)
    BY <1>2 DEF TakenInv, Typed
  <2> QED
    BY <2>1 DEF RunSet
<1>7. run'[r] = y
  BY <1>2
<1> HIDE DEF w, z
<1>8. Typed'
  <2>1. run' \in [Runs -> RunSet]
    BY <1>2, <1>5, <1>6, <1>7
  <2>2. faults' \in 0..MaxFaults
    <3>1. (faults' = faults \/ faults' = faults + 1) /\ faults' <= MaxFaults
      BY Zenon DEF StartRun
    <3>2. faults \in 0..MaxFaults
      BY DEF TakenInv, Typed
    <3> QED
      BY <3>1, <3>2, TakenAssumption
  <2> QED
    BY <1>2, <2>1, <2>2 DEF TakenInv, Typed
<1>9. Own'
  BY <1>2 DEF TakenInv, Own, Taken
<1>10. RunFits(run[r])'
  <2>1. Shaped(y)
    BY <1>3, <1>4 DEF Shaped, NoRows, RowsOfTerm
  <2>2. Backed(y)'
    BY <1>2, <1>3 DEF Backed, TakenInv, Own
  <2>3. Progress(y)' /\ Cleared(y)'
    BY <1>2, <1>3 DEF Progress, Cleared
  <2> QED
    BY <1>7, <2>1, <2>2, <2>3 DEF RunFits, Shaped, Backed, Progress, Cleared
<1>11. ASSUME NEW q \in Runs \ {r} PROVE RunFits(run[q])'
  <2>1. RunFits(run[q])
    BY DEF TakenInv
  <2> QED
    BY <1>2, <1>6, <2>1 DEF RunFits, Shaped, Backed, Progress, Cleared
<1>12. \A p, q \in Runs : p # q => (run'[p].alone => run'[q].pc = "idle")
  BY <1>4, <1>6, <1>7 DEF Active
<1> QED
  BY <1>8, <1>9, <1>10, <1>11, <1>12 DEF TakenInv

\* One user's login moves on: it changes rows and raw copy of this user only,
\* who is no user that a run keeps calm.
LEMMA LoginStep ==
  ASSUME TakenInv, NEW u \in Users, login[u].pc # "idle",
         NEW m \in [pc : {"idle", "reading", "deleting", "inserting"}, raw : SUBSET Lecs],
         login' = [login EXCEPT ![u] = m],
         UNCHANGED <<attend, student, raw, run, seen, changes>>,
         faults' \in 0..MaxFaults, upset \subseteq upset', upset' \subseteq upset \cup {u},
         taken' \in [Users -> [Lecs -> {0} \cup Ids]],
         \A v \in Users \ {u} : taken'[v] = taken[v],
         m.pc = "idle" => m.raw = {},
         u \notin upset' /\ student[u] # NoStudent =>
           /\ m.raw \subseteq seen[student[u]]
           /\ m.pc \in {"idle", "inserting"} => Taken(u)' \subseteq seen[student[u]]
  PROVE  TakenInv'
<1>1. \A v \in Users : login'[v] = IF v = u THEN m ELSE login[v]
  BY DEF TakenInv, Typed
<1>2. Typed'
  BY DEF TakenInv, Typed
<1>3. \A v \in Users \ {u} : Taken(v)' = Taken(v)
  BY DEF Taken
<1>4. Own'
  BY <1>1, <1>3 DEF TakenInv, Own
<1>5. ASSUME NEW r \in Runs PROVE RunFits(run[r])'
  <2>1. RunFits(run[r]) /\ run[r] \in RunSet
    BY DEF TakenInv, Typed
  <2>2. \A v \in run[r].calm : v \in Users \ {u}
    BY <2>1 DEF RunFits, Progress, RunSet
  <2>3. Progress(run[r])'
    <3> SUFFICES ASSUME NEW v \in run[r].calm
                 PROVE  /\ login'[v].pc = "idle"
                        /\ student[v] # NoStudent =>
                             /\ run[r].pc = "loaded" => Loaded(run[r], v)'
                             /\ run[r].pc \in {"updating", "adding"} =>
                                  \/ /\ Right(run[r], v)'
                                     /\ \A p \in run[r].todo \cup run[r].add : p.user # v
                                  \/ \E p \in run[r].todo : Before(run[r], v, p)'
                                  \/ \E p \in run[r].add : Between(run[r], v, p)'
                             /\ run[r].pc = "saving" => Right(run[r], v)'
      BY DEF Progress
    <3>1. v \in Users \ {u} /\ Taken(v)' = Taken(v) /\ taken'[v] = taken[v]
      BY <1>3, <2>2
    <3>2. Loaded(run[r], v) => Loaded(run[r], v)'
      BY <3>1 DEF Loaded
    <3>3. Right(run[r], v) => Right(run[r], v)'
      BY <3>1 DEF Right
    <3>4. \A p : Before(run[r], v, p) => Before(run[r], v, p)'
      BY <3>1 DEF Before
    <3>5. \A p : Between(run[r], v, p) => Between(run[r], v, p)'
      BY <3>1 DEF Between
    <3> QED
      BY <1>1, <2>1, <3>1, <3>2, <3>3, <3>4, <3>5 DEF RunFits, Progress
  <2> QED
    BY <2>1, <2>3 DEF RunFits, Shaped, Backed, Cleared
<1> QED
  BY <1>2, <1>4, <1>5 DEF TakenInv

\* The steps of repopulateTakenLectureForStudent, and its failure.
LEMMA RepopulateStep ==
  ASSUME TakenInv, NEW u \in Users,
         ReadRaw(u) \/ DeleteTaken(u) \/ InsertTaken(u) \/ LoginFails(u)
  PROVE  TakenInv'
<1>1. /\ login[u] \in [pc : {"idle", "reading", "deleting", "inserting"}, raw : SUBSET Lecs]
      /\ login[u].pc # "idle"
      /\ u \notin upset /\ student[u] # NoStudent =>
           /\ login[u].raw \subseteq seen[student[u]]
           /\ login[u].pc = "inserting" => Taken(u) \subseteq seen[student[u]]
  <2>1. login[u].pc # "idle"
    BY DEF ReadRaw, DeleteTaken, InsertTaken, LoginFails
  <2> QED
    BY <2>1, TakenAssumption DEF TakenInv, Typed, Own
<1>2. /\ faults \in 0..MaxFaults /\ taken \in [Users -> [Lecs -> {0} \cup Ids]]
      /\ student[u] # NoStudent => raw[student[u]] \subseteq seen[student[u]] /\ raw[student[u]] \in SUBSET Lecs
  BY <1>1 DEF TakenInv, Typed, Own
<1>5. LoggedOut.pc = "idle" /\ LoggedOut.raw = {}
      /\ LoggedOut \in [pc : {"idle", "reading", "deleting", "inserting"}, raw : SUBSET Lecs]
  BY DEF LoggedOut
<1>3. CASE ReadRaw(u)
  <2>1. CASE student[u] = NoStudent
    <3>1. PICK m : m = LoggedOut
      OBVIOUS
    <3>2. /\ login' = [login EXCEPT ![u] = m]
          /\ UNCHANGED <<attend, student, taken, raw, run, seen, upset, changes, faults>>
      BY <1>3, <2>1, <3>1 DEF ReadRaw, db
    <3> QED
      BY <1>1, <1>2, <1>5, <2>1, <3>1, <3>2, LoginStep
  <2>2. CASE student[u] # NoStudent
    <3>1. PICK m : m = [pc |-> "deleting", raw |-> raw[student[u]]]
      OBVIOUS
    <3>2. /\ login' = [login EXCEPT ![u] = m]
          /\ UNCHANGED <<attend, student, taken, raw, run, seen, upset, changes, faults>>
      BY <1>3, <2>2, <3>1 DEF ReadRaw, db
    <3> QED
      BY <1>1, <1>2, <2>2, <3>1, <3>2, LoginStep
  <2> QED
    BY <2>1, <2>2
<1>4. CASE DeleteTaken(u)
  <2>1. PICK m : m = [login[u] EXCEPT !.pc = "inserting"]
    OBVIOUS
  <2>2. /\ login' = [login EXCEPT ![u] = m] /\ taken' = [taken EXCEPT ![u] = [l \in Lecs |-> 0]]
        /\ UNCHANGED <<attend, student, raw, run, seen, upset, changes, faults>>
    BY <1>4, <2>1 DEF DeleteTaken
  <2>3. /\ m \in [pc : {"idle", "reading", "deleting", "inserting"}, raw : SUBSET Lecs]
        /\ m.pc = "inserting" /\ m.raw = login[u].raw
    BY <1>1, <2>1
  <2>4. /\ taken' \in [Users -> [Lecs -> {0} \cup Ids]]
        /\ \A v \in Users \ {u} : taken'[v] = taken[v]
        /\ Taken(u)' = {}
    BY <1>2, <2>2 DEF Taken
  <2> QED
    BY <1>1, <1>2, <2>2, <2>3, <2>4, LoginStep
<1>6. CASE InsertTaken(u)
  <2>1. /\ login' = [login EXCEPT ![u] = LoggedOut] /\ login[u].pc = "inserting"
        /\ UNCHANGED <<attend, student, raw, run, seen, upset, changes, faults>>
        /\ Create(u, login[u].raw) \/ UNCHANGED taken
    BY <1>6 DEF InsertTaken
  <2>2. login[u].raw \in SUBSET Lecs
    BY <1>1
  <2>3. /\ taken' \in [Users -> [Lecs -> {0} \cup Ids]]
        /\ \A v \in Users \ {u} : taken'[v] = taken[v]
        /\ Taken(u)' \subseteq Taken(u) \cup login[u].raw
    <3>1. CASE Create(u, login[u].raw)
      BY <2>2, <3>1, Created
    <3>2. CASE UNCHANGED taken
      BY <1>2, <3>2 DEF Taken
    <3> QED
      BY <2>1, <3>1, <3>2
  <2> QED
    BY <1>1, <1>2, <1>5, <2>1, <2>3, LoginStep
<1>7. CASE LoginFails(u)
  <2>1. /\ login' = [login EXCEPT ![u] = LoggedOut]
        /\ UNCHANGED <<attend, student, taken, raw, run, seen, changes>>
        /\ upset' = IF login[u].pc = "inserting" THEN upset ELSE upset \cup {u}
    BY <1>7 DEF LoginFails, db
  <2>2. faults' \in 0..MaxFaults
    BY <1>2, <1>7, TakenAssumption DEF LoginFails
  <2>3. Taken(u)' = Taken(u)
    BY <2>1 DEF Taken
  <2> QED
    BY <1>1, <1>2, <1>5, <2>1, <2>2, <2>3, LoginStep
<1> QED
  BY <1>3, <1>4, <1>6, <1>7

\* A login saves another student number: no run counts on the user any more.
Renumbers(u, s, m) ==
  /\ student' = [student EXCEPT ![u] = s] /\ login' = [login EXCEPT ![u] = m] /\ m.raw = login[u].raw
  /\ m \in [pc : {"idle", "reading", "deleting", "inserting"}, raw : SUBSET Lecs]
  /\ m.pc = "idle" => login[u].pc = "idle"
  /\ upset' = upset \ {u} \/ upset' = upset \cup {u}
  /\ u \notin upset' /\ s # NoStudent =>
       Active = {} /\ m.raw = {} /\ (m.pc \in {"idle", "inserting"} => Taken(u) = {})
  /\ run' = [r \in Runs |-> [run[r] EXCEPT !.calm = @ \ {u}]]
  /\ UNCHANGED <<attend, taken, raw, seen, faults>> /\ changes' = changes + 1 /\ changes < MaxChanges

LEMMA NumberStep ==
  ASSUME TakenInv, NEW u \in Users, NEW s \in Students \cup {NoStudent}, NEW m, Renumbers(u, s, m)
  PROVE  TakenInv'
<1>1. /\ student' = [student EXCEPT ![u] = s] /\ login' = [login EXCEPT ![u] = m] /\ m.raw = login[u].raw
      /\ m \in [pc : {"idle", "reading", "deleting", "inserting"}, raw : SUBSET Lecs]
      /\ m.pc = "idle" => login[u].pc = "idle"
      /\ upset' = upset \ {u} \/ upset' = upset \cup {u}
      /\ u \notin upset' /\ s # NoStudent =>
           Active = {} /\ m.raw = {} /\ (m.pc \in {"idle", "inserting"} => Taken(u) = {})
      /\ run' = [r \in Runs |-> [run[r] EXCEPT !.calm = @ \ {u}]]
      /\ UNCHANGED <<attend, taken, raw, seen, faults>> /\ changes' = changes + 1 /\ changes < MaxChanges
  BY DEF Renumbers
<1>2. ASSUME NEW r \in Runs
      PROVE  /\ run'[r] \in RunSet /\ run'[r].pc = run[r].pc /\ run'[r].term = run[r].term
             /\ run'[r].att = run[r].att /\ run'[r].old = run[r].old /\ run'[r].of = run[r].of
             /\ run'[r].todo = run[r].todo /\ run'[r].add = run[r].add
             /\ run'[r].alone = run[r].alone /\ run'[r].calm = run[r].calm \ {u}
  <2>1. run[r] \in RunSet /\ run'[r] = [run[r] EXCEPT !.calm = run[r].calm \ {u}]
    BY <1>1 DEF TakenInv, Typed
  <2> QED
    BY <2>1 DEF RunSet
<1>3. /\ \A v \in Users \ {u} : login'[v] = login[v] /\ student'[v] = student[v]
                                /\ (v \in upset <=> v \in upset')
      /\ student'[u] = s /\ login'[u] = m
      /\ \A v \in Users : Taken(v)' = Taken(v)
  BY <1>1 DEF TakenInv, Typed, Taken
<1>4. Typed'
  <2>1. login' \in [Users -> [pc : {"idle", "reading", "deleting", "inserting"}, raw : SUBSET Lecs]]
    BY <1>1 DEF TakenInv, Typed
  <2>2. run' \in [Runs -> RunSet]
    BY <1>1, <1>2
  <2>3. changes' \in 0..MaxChanges
    BY <1>1, TakenAssumption DEF TakenInv, Typed
  <2>4. student' \in [Users -> Students \cup {NoStudent}] /\ upset' \in SUBSET Users
    BY <1>1 DEF TakenInv, Typed
  <2> QED
    BY <1>1, <2>1, <2>2, <2>3, <2>4 DEF TakenInv, Typed
<1>5. Own'
  BY <1>1, <1>3 DEF TakenInv, Own
<1>6. ASSUME NEW r \in Runs PROVE RunFits(run[r])'
  <2>1. RunFits(run[r]) /\ run[r] \in RunSet
    BY DEF TakenInv, Typed
  <2>2. Shaped(run[r])'
    BY <1>2, <2>1 DEF RunFits, Shaped
  <2>3. Backed(run[r])'
    <3> SUFFICES ASSUME NEW p \in run[r].todo \cup run[r].add
                 PROVE  \/ p.student = student'[p.user] \/ p.user \in upset'
                        \/ student'[p.user] = NoStudent
      BY <1>1, <1>2, <2>1 DEF RunFits, Backed
    <3>1. p.user \in Users /\ run[r].pc # "idle"
      BY <2>1 DEF RunSet, CorrSet, RunFits, Shaped
    <3>2. Active # {}
      BY <3>1 DEF Active
    <3> QED
      BY <1>1, <1>3, <2>1, <3>1, <3>2 DEF RunFits, Backed
  <2>4. Progress(run[r])'
    <3> SUFFICES ASSUME NEW v \in run[r].calm \ {u}
                 PROVE  /\ login'[v].pc = "idle"
                        /\ student'[v] # NoStudent =>
                             /\ run[r].pc = "loaded" => Loaded(run[r], v)'
                             /\ run[r].pc \in {"updating", "adding"} =>
                                  \/ /\ Right(run[r], v)'
                                     /\ \A p \in run[r].todo \cup run[r].add : p.user # v
                                  \/ \E p \in run[r].todo : Before(run[r], v, p)'
                                  \/ \E p \in run[r].add : Between(run[r], v, p)'
                             /\ run[r].pc = "saving" => Right(run[r], v)'
      BY <1>2 DEF Progress
    <3>1. v \in Users /\ student'[v] = student[v] /\ login'[v] = login[v]
          /\ Taken(v)' = Taken(v) /\ taken' = taken
      BY <1>1, <1>3, <2>1 DEF RunSet
    <3>2. Loaded(run[r], v) => Loaded(run[r], v)'
      BY <1>2, <3>1 DEF Loaded
    <3>3. Right(run[r], v) => Right(run[r], v)'
      BY <1>2, <3>1 DEF Right
    <3>4. \A p : Before(run[r], v, p) => Before(run[r], v, p)'
      BY <1>2, <3>1 DEF Before
    <3>5. \A p : Between(run[r], v, p) => Between(run[r], v, p)'
      BY <1>2, <3>1 DEF Between
    <3> QED
      BY <2>1, <3>1, <3>2, <3>3, <3>4, <3>5 DEF RunFits, Progress
  <2>5. Cleared(run[r])'
    BY <1>1, <1>2, <2>1 DEF RunFits, Cleared
  <2> QED
    BY <2>2, <2>3, <2>4, <2>5 DEF RunFits
<1>7. \A p, q \in Runs : p # q => (run'[p].alone => run'[q].pc = "idle")
  BY <1>2 DEF TakenInv
<1> QED
  BY <1>4, <1>5, <1>6, <1>7 DEF TakenInv

\* Of the two kinds of login only ssoLogin goes on to fetch the rows anew.
LEMMA NumberSaved ==
  ASSUME TakenInv, NEW u \in Users, NEW s \in Students \cup {NoStudent}, Login(u, s) \/ OneAppLogin(u, s)
  PROVE  TakenInv'
<1>1. /\ login[u] \in [pc : {"idle", "reading", "deleting", "inserting"}, raw : SUBSET Lecs]
      /\ login \in [Users -> [pc : {"idle", "reading", "deleting", "inserting"}, raw : SUBSET Lecs]]
      /\ login[u].pc = "idle" => login[u].raw = {}
  BY DEF TakenInv, Typed, Own
<1>2. CASE Login(u, s)
  <2>1. PICK m : m = [login[u] EXCEPT !.pc = IF s = NoStudent THEN "idle" ELSE "reading"]
    OBVIOUS
  <2>2. /\ m \in [pc : {"idle", "reading", "deleting", "inserting"}, raw : SUBSET Lecs]
        /\ m.raw = login[u].raw /\ m.pc = (IF s = NoStudent THEN "idle" ELSE "reading")
    BY <1>1, <2>1
  <2>3. /\ login[u].pc = "idle" /\ student' = [student EXCEPT ![u] = s] /\ login' = [login EXCEPT ![u] = m]
        /\ upset' = IF Active = {} \/ s = NoStudent THEN upset \ {u} ELSE upset \cup {u}
        /\ run' = [r \in Runs |-> [run[r] EXCEPT !.calm = @ \ {u}]]
        /\ UNCHANGED <<attend, taken, raw, seen, faults>> /\ changes' = changes + 1 /\ changes < MaxChanges
    BY <1>2, <2>1 DEF Login
  <2> QED
    BY <1>1, <2>2, <2>3, NumberStep DEF Renumbers
<1>3. CASE OneAppLogin(u, s)
  <2>1. PICK m : m = login[u]
    OBVIOUS
  <2>2. /\ student' = [student EXCEPT ![u] = s] /\ login' = [login EXCEPT ![u] = m]
        /\ upset' = IF Active = {} /\ Taken(u) = {} /\ login[u].pc = "idle" THEN upset \ {u} ELSE upset \cup {u}
        /\ run' = [r \in Runs |-> [run[r] EXCEPT !.calm = @ \ {u}]]
        /\ UNCHANGED <<attend, taken, raw, seen, faults>> /\ changes' = changes + 1 /\ changes < MaxChanges
    BY <1>1, <1>3, <2>1 DEF OneAppLogin
  <2> QED
    BY <1>1, <2>1, <2>2, NumberStep DEF Renumbers
<1> QED
  BY <1>2, <1>3

\* What runs and logins hold stays true through every interleaving and failure.
THEOREM TakenHold == Spec => []TakenInv
<1>1. Init => TakenInv
  <2> SUFFICES ASSUME Init PROVE TakenInv
    OBVIOUS
  <2>1. Typed
    BY IdleFits, TakenAssumption DEF Init, Typed, NoRecords, LoggedOut
  <2>2. Own
    BY DEF Init, Own, NoRecords, LoggedOut, Taken
  <2>3. \A r \in Runs : run[r].pc = "idle" /\ ~run[r].alone /\ run[r].calm = {}
                        /\ run[r].todo = {} /\ run[r].add = {} /\ run[r].att = NoRecords
    BY DEF Init, Idle
  <2>4. ASSUME NEW r \in Runs PROVE RunFits(run[r])
    <3>1. Shaped(run[r])
      BY IdleFits DEF Init
    <3> QED
      BY <2>3, <3>1 DEF RunFits, Backed, Progress, Cleared, NoRecords
  <2> QED
    BY <2>1, <2>2, <2>3, <2>4 DEF TakenInv
<1>2. TakenInv /\ [Next]_vars => TakenInv'
  <2> SUFFICES ASSUME TakenInv, [Next]_vars PROVE TakenInv'
    OBVIOUS
  <2>1. ASSUME NEW s \in Students, NEW l \in Lecs, Registrar(s, l) PROVE TakenInv'
    <3>1. /\ attend' \in [Students -> SUBSET Lecs] /\ seen' \in [Students -> SUBSET Lecs]
          /\ changes' \in 0..MaxChanges
          /\ UNCHANGED <<student, taken, raw, run, login, upset, faults>>
      BY <2>1, TakenAssumption DEF Registrar, TakenInv, Typed
    <3>2. /\ \A x \in Students : seen[x] \subseteq seen'[x]
          /\ \A x \in Students : attend'[x] \subseteq seen'[x]
      BY <2>1, <3>1 DEF Registrar, TakenInv, Typed, Own
    <3>3. Typed'
      BY <3>1 DEF TakenInv, Typed
    <3>4. Own'
      <4>1. \A u \in Users : student[u] # NoStudent => student[u] \in Students
        BY DEF TakenInv, Typed
      <4> QED
        BY <3>1, <3>2, <4>1 DEF TakenInv, Own, Taken
    <3>5. ASSUME NEW r \in Runs PROVE RunFits(run[r])'
      <4>1. RunFits(run[r])
        BY DEF TakenInv
      <4>2. Backed(run[r])'
        BY <3>1, <3>2, <4>1 DEF RunFits, Backed
      <4> QED
        BY <3>1, <4>1, <4>2
        DEF RunFits, Shaped, Progress, Cleared, Loaded, Right, Before, Between, Taken
    <3> QED
      BY <3>1, <3>3, <3>4, <3>5 DEF TakenInv
  <2>2. ASSUME NEW r \in Runs, NEW t \in Terms, StartRun(r, t) PROVE TakenInv'
    BY <2>2, StartStep
  <2>3. ASSUME NEW r \in Runs, ReadTaken(r) PROVE TakenInv'
    BY <2>3, ReadTakenStep
  <2>4. ASSUME NEW r \in Runs, ReadProfiles(r) PROVE TakenInv'
    BY <2>4, ReadProfilesStep
  <2>5. ASSUME NEW r \in Runs, RemoveRows(r) PROVE TakenInv'
    BY <2>5, RemoveRowsStep
  <2>6. ASSUME NEW r \in Runs, AddRows(r) PROVE TakenInv'
    BY <2>6, AddRowsStep
  <2>7. ASSUME NEW r \in Runs, UpdateFails(r) PROVE TakenInv'
    <3>1. faults \in 0..MaxFaults /\ RunFits(run[r])
      BY DEF TakenInv, Typed
    <3>2. faults' \in 0..MaxFaults
          /\ UNCHANGED <<attend, student, taken, raw, login, seen, upset, changes>>
      BY <2>7, <3>1, TakenAssumption DEF UpdateFails, db
    <3>3. PICK p : /\ \/ run[r].pc = "adding" /\ p \in run[r].add
                      \/ run[r].pc = "updating" /\ p \in run[r].todo
                   /\ SkipStudent(r, p.student)
      BY <2>7 DEF UpdateFails
    <3> QED
      BY <3>2, <3>3, SkipStep
  <2>8. ASSUME NEW r \in Runs, ClearRaw(r) PROVE TakenInv'
    BY <2>8, ClearRawStep
  <2>9. ASSUME NEW r \in Runs, SaveRaw(r) \/ StopRun(r) PROVE TakenInv'
    BY <2>9, EndStep
  <2>10. ASSUME NEW u \in Users, NEW s \in Students \cup {NoStudent}, Login(u, s) \/ OneAppLogin(u, s)
         PROVE  TakenInv'
    BY <2>10, NumberSaved
  <2>11. ASSUME NEW u \in Users,
                ReadRaw(u) \/ DeleteTaken(u) \/ InsertTaken(u) \/ LoginFails(u)
         PROVE  TakenInv'
    BY <2>11, RepopulateStep
  <2>12. CASE UNCHANGED vars
    <3>1. UNCHANGED <<attend, student, taken, raw, run, login, seen, upset, changes, faults>>
      BY <2>12 DEF vars, db
    <3>2. Typed' /\ Own'
      BY <3>1 DEF TakenInv, Typed, Own, Taken
    <3>3. ASSUME NEW r \in Runs PROVE RunFits(run[r])'
      <4>1. RunFits(run[r])
        BY DEF TakenInv
      <4> QED
        BY <3>1, <4>1
        DEF RunFits, Shaped, Backed, Progress, Cleared, Loaded, Right, Before, Between, Taken
    <3> QED
      BY <3>1, <3>2, <3>3 DEF TakenInv
  <2> QED
    BY <2>1, <2>2, <2>3, <2>4, <2>5, <2>6, <2>7, <2>8, <2>9, <2>10, <2>11, <2>12 DEF Next
<1> QED
  BY <1>1, <1>2, PTL DEF Spec

\* Nobody is shown lectures of somebody else's student number.
THEOREM OwnLecturesAlways == Spec => []OwnLectures
<1>1. TakenInv => OwnLectures
  <2> SUFFICES ASSUME TakenInv PROVE OwnLectures
    OBVIOUS
  <2>1. ASSUME NEW r \in Runs
        PROVE  /\ run[r].pc \in {"idle", "fetched", "loaded", "updating", "adding", "saving"}
               /\ run[r].term \in Terms \cup {NoTerm}
               /\ \A s \in Students : run[r].att[s] \subseteq InTerm(run[r].term)
               /\ \A p \in run[r].todo : p.student \in Students /\ p.user \in Users
    BY DEF TakenInv, Typed, RunFits, Shaped, RunSet, CorrSet
  <2>2. TypeOK
    BY <2>1 DEF TakenInv, Typed, TypeOK
  <2> QED
    BY <2>2 DEF TakenInv, Own, OwnLectures
<1> QED
  BY <1>1, TakenHold, PTL

\* A run changes rows of its own term only, everybody else's stay.
THEOREM PastTermsUnchanged == Spec => PastTermsKept
<1> DEFINE Kept ==
      \A u \in Users, l \in Lecs :
        taken'[u][l] # taken[u][l] =>
          \/ login'[u] # login[u]
          \/ \E r \in Active : run'[r] # run[r] /\ run[r].term = TermOf[l]
<1>1. TakenInv /\ [Next]_vars => [Kept]_vars
  <2> SUFFICES ASSUME TakenInv, Next, NEW u \in Users, NEW l \in Lecs,
                      taken'[u][l] # taken[u][l], login'[u] = login[u]
               PROVE  \E r \in Active : run'[r] # run[r] /\ run[r].term = TermOf[l]
    BY DEF vars
  <2>1. ASSUME NEW r \in Runs, RemoveRows(r)
        PROVE  r \in Active /\ run'[r] # run[r] /\ run[r].term = TermOf[l]
    <3>1. run[r].pc = "updating" /\ run[r] \in RunSet /\ Shaped(run[r])
      BY <2>1 DEF RemoveRows, TakenInv, Typed, RunFits
    <3>2. PICK p \in run[r].todo :
            /\ taken' = [taken EXCEPT ![p.user] =
                           [k \in Lecs |-> IF <<k, @[k]>> \in p.remove THEN 0 ELSE @[k]]]
            /\ run' = [run EXCEPT ![r] = [@ EXCEPT !.pc = "adding", !.add = {p},
                                            !.todo = run[r].todo \ {p}]]
      BY <2>1 DEF RemoveRows
    <3>3. run'[r].pc = "adding"
      BY <3>1, <3>2 DEF TakenInv, Typed, RunSet
    <3>4. <<l, taken[u][l]>> \in p.remove
      BY <3>1, <3>2 DEF TakenInv, Typed, RunSet, CorrSet
    <3>5. TermOf[<<l, taken[u][l]>>[1]] = run[r].term
      BY <3>1, <3>4 DEF Shaped, RowsOfTerm
    <3> QED
      BY <3>1, <3>3, <3>5 DEF Active
  <2>2. ASSUME NEW r \in Runs, AddRows(r)
        PROVE  r \in Active /\ run'[r] # run[r] /\ run[r].term = TermOf[l]
    <3>1. run[r].pc = "adding" /\ run[r] \in RunSet /\ Shaped(run[r])
      BY <2>2 DEF AddRows, TakenInv, Typed, RunFits
    <3>2. PICK p \in run[r].add :
            /\ Create(p.user, p.add)
            /\ run' = [run EXCEPT ![r] = [@ EXCEPT !.pc = "updating", !.add = {}]]
      BY <2>2 DEF AddRows
    <3>3. run'[r].pc = "updating"
      BY <3>1, <3>2 DEF TakenInv, Typed, RunSet
    <3>4. p.user \in Users /\ p.student \in Students
      BY <3>1 DEF RunSet, CorrSet
    <3>5. l \in p.add
      BY <3>2, <3>4 DEF Create, TakenInv, Typed
    <3>6. TermOf[l] = run[r].term
      BY <3>1, <3>4, <3>5 DEF Shaped, InTerm
    <3> QED
      BY <3>1, <3>3, <3>6 DEF Active
  <2>3. ASSUME NEW v \in Users, DeleteTaken(v) \/ InsertTaken(v) PROVE FALSE
    <3>1. u # v => taken'[u][l] = taken[u][l]
      BY <2>3 DEF DeleteTaken, InsertTaken, Create, TakenInv, Typed
    <3>2. login'[v].pc # login[v].pc
      BY <2>3 DEF DeleteTaken, InsertTaken, LoggedOut, TakenInv, Typed
    <3> QED
      BY <3>1, <3>2
  <2>4. ASSUME taken' = taken PROVE FALSE
    BY <2>4
  <2> QED
    BY <2>1, <2>2, <2>3, <2>4
    DEF Next, Registrar, StartRun, ReadTaken, ReadProfiles, UpdateFails, ClearRaw, SaveRaw,
        StopRun, Login, OneAppLogin, ReadRaw, LoginFails, db
<1> QED
  BY <1>1, TakenHold, PTL DEF Spec, PastTermsKept

\* A run that meets no other run leaves what its records say.
THEOREM RunsRepair == Spec => Repairs
<1> DEFINE Repaired ==
      \A r \in Runs :
        (run[r].pc = "saving" /\ SaveRaw(r) /\ run[r].alone) =>
          /\ \A u \in run[r].calm :
               student[u] # NoStudent =>
                 Taken(u) \cap InTerm(run[r].term) = run[r].att[student[u]]
          /\ \A s \in Students : raw'[s] \cap InTerm(run[r].term) = run[r].att[s]
<1>1. TakenInv /\ [Next]_vars => [Repaired]_vars
  <2> SUFFICES ASSUME TakenInv, NEW r \in Runs, run[r].pc = "saving", SaveRaw(r), run[r].alone
               PROVE  /\ \A u \in run[r].calm :
                           student[u] # NoStudent =>
                             Taken(u) \cap InTerm(run[r].term) = run[r].att[student[u]]
                      /\ \A s \in Students : raw'[s] \cap InTerm(run[r].term) = run[r].att[s]
    OBVIOUS
  <2>1. RunFits(run[r])
    BY DEF TakenInv
  <2>2. \A s \in Students : raw'[s] = raw[s] \cup run[r].att[s]
    BY DEF SaveRaw
  <2> QED
    BY <2>1, <2>2 DEF RunFits, Shaped, Cleared, Progress, Right
<1> QED
  BY <1>1, TakenHold, PTL DEF Spec, Repairs

-----------------------------------------------------------------------------
(* Planners.                                                               *)

\* No position is below this one.
Floor == Min(Targets \cup {0})
AtFloor(f) == f = [p \in DOMAIN f |-> f[p]] /\ \A p \in DOMAIN f : f[p] \in Int /\ f[p] >= Floor

\* The steps of each kind of request.
PcsOf(op) ==
  CASE op = "none"    -> {"idle", "done", "failed"}
    [] op = "create"  -> {"related", "insert", "import", "copy", "final"}
    [] op = "delete"  -> {"planner", "related", "delete", "shift", "commit"}
    [] op = "reorder" -> {"planner", "related", "shift", "place", "commit"}
    [] op = "update"  -> {"existing", "import", "purge future", "purge arbitrary", "purge taken",
                          "tracks", "disconnect", "connect", "row"}
    [] op = "add"     -> {"check", "insert item"}
    [] op = "exclude" -> {"check", "update item"}
    [] op = "remove"  -> {"item", "delete item", "final"}
Copies == {"taken"} \cup Kinds

\* The items that are to be copied, with what is copied of each.
CopiedFit(b, pairs) ==
  IF b = "taken" THEN pairs \subseteq PlannerIds \X DOMAIN Attended
  ELSE /\ IsFiniteSet(pairs)
       /\ \A c \in pairs : c[2] = [year |-> c[2].year, excluded |-> c[2].excluded]

ReqTyped(x) ==
  /\ DOMAIN x = DOMAIN NoRequest
  /\ x.op \in {"none", "create", "delete", "reorder", "update", "add", "exclude", "remove"}
  /\ x.pc \in PcsOf(x.op)
  /\ x.id \in PlannerIds \cup {NoId} /\ (x.op \in {"delete", "reorder"} => x.id \in PlannerIds)
  /\ x.op # "none" => x.user \in Planning
  /\ x.op \in {"create", "update"} => x.span \in Spans /\ x.tracks \subseteq Tracks
  /\ x.to \in Int /\ x.to >= Floor /\ x.old \in Int /\ x.old >= Floor /\ x.gone \in Int
  /\ AtFloor(x.seen) /\ DOMAIN x.seen \subseteq PlannerIds
  /\ x.need \subseteq DOMAIN Attended /\ x.todo \subseteq Copies
  /\ DOMAIN x.copied \subseteq Copies /\ \A b \in DOMAIN x.copied : CopiedFit(b, x.copied[b])
  /\ AtFloor(x.written) /\ (x.pc \notin {"place", "commit"} => DOMAIN x.written = {})

PlannerRowsFit ==
  /\ planner = [p \in DOMAIN planner |-> planner[p]] /\ DOMAIN planner \subseteq used /\ used \subseteq PlannerIds
  /\ \A p \in DOMAIN planner : /\ planner[p] = Row(planner[p].order, planner[p].span, planner[p].tracks)
                               /\ planner[p].order \in Int /\ planner[p].order >= Floor
                               /\ planner[p].span \in Spans /\ planner[p].tracks \subseteq Tracks
  /\ takenItems \subseteq (DOMAIN planner) \X DOMAIN Attended
  /\ nextItem \in Nat \ {0} /\ DOMAIN item \subseteq 1..(nextItem - 1)
  /\ \A i \in DOMAIN item : /\ item[i] = Item(item[i].planner, item[i].kind, item[i].year, item[i].excluded)
                            /\ item[i].planner \in DOMAIN planner
RequestsFit ==
  /\ DOMAIN req = Reqs
  /\ \A r \in Reqs : ReqTyped(req[r]) /\ DOMAIN req[r].written \subseteq DOMAIN planner
  /\ \A q, r \in Reqs : q # r => DOMAIN req[q].written \cap DOMAIN req[r].written = {}

\* What a request that meets no other knows: d are the rows of planners, T the
\* taken items, I the others.
Filled(f) == Range(f) = 0..(Cardinality(DOMAIN f) - 1)
OwnedIn(d, u) == {p \in DOMAIN d : Owner[p] = u}
LecturesIn(T, p) == {l \in DOMAIN Attended : <<p, l>> \in T}
Imported(x) == IF x.imports THEN TakenBetween(x.user, x.span) ELSE {}
Likes(I, p, k, y, x) == {i \in DOMAIN I : I[i] = Item(p, k, y, x)}
\* The shift as one UPDATE finds it.
Shifting(x, d) == [p \in {q \in Shift(x).ids \cap DOMAIN d : InRange(d[q].order, Shift(x))} |->
                     d[p].order + Shift(x).by]
Copied(x, T, I) ==
  /\ Copies \ x.todo \subseteq DOMAIN x.copied
  /\ LecturesIn(T, x.id) = IF "taken" \in x.todo THEN Imported(x)
                           ELSE Whats(x.copied["taken"]) \cup Imported(x)
  /\ \A k \in Kinds :
       IF k \in x.todo THEN \A i \in DOMAIN I : ~(I[i].planner = x.id /\ I[i].kind = k)
       ELSE \A y \in Years, e \in BOOLEAN :
              Cardinality(Likes(I, x.id, k, y, e))
                = Cardinality({c \in x.copied[k] : c[2] = [year |-> y, excluded |-> e]})

KnowsCreate(x, d, T, I) ==
  /\ x.pc = "insert" => x.seen = OrdersOf(x.user, d)
  /\ x.pc \in {"import", "copy", "final"} =>
       /\ x.id \in DOMAIN d /\ d[x.id].span = x.span /\ d[x.id].tracks = x.tracks
  /\ x.pc = "import" =>
       /\ x.imports /\ x.need = TakenBetween(x.user, x.span) /\ LecturesIn(T, x.id) = {}
       /\ x.todo = Copies /\ \A i \in DOMAIN I : I[i].planner # x.id
  /\ x.pc = "final" => x.todo = {} /\ ~x.failing
  /\ x.pc \in {"copy", "final"} /\ ~x.failing => Copied(x, T, I)
KnowsDelete(x, d) ==
  /\ x.pc \in {"related", "delete"} => x.id \in DOMAIN d /\ x.old = d[x.id].order
  /\ x.pc = "delete" => x.seen = OrdersOf(Owner[x.id], d)
  /\ x.pc \in {"shift", "commit"} =>
       /\ x.id \in DOMAIN x.seen /\ OwnedIn(d, Owner[x.id]) = DOMAIN x.seen \ {x.id}
       /\ x.old = x.seen[x.id] /\ x.gone = x.old
       /\ \A p \in OwnedIn(d, Owner[x.id]) : d[p].order = x.seen[p]
  /\ x.pc = "commit" => x.written = Shifting(x, d)
KnowsReorder(x, d) ==
  /\ x.pc \in {"related", "shift", "place", "commit"} => x.id \in DOMAIN d /\ x.old = d[x.id].order
  /\ x.pc \in {"shift", "place", "commit"} => x.seen = OrdersOf(x.user, d)
  /\ x.pc = "place" => x.written = Shifting(x, d)
  /\ x.pc = "commit" => x.written = [p \in DOMAIN Shifting(x, d) \cup {x.id} |->
                                       IF p = x.id THEN x.to ELSE Shifting(x, d)[p]]
KnowsUpdate(x, d, T) ==
  /\ x.id \in DOMAIN d
  /\ x.pc \in {"existing", "import", "purge future", "purge arbitrary", "purge taken"} => x.imports
  /\ x.pc = "import" => TakenBetween(x.user, x.span) \subseteq x.need \cup LecturesIn(T, x.id)
  /\ x.pc \in {"purge future", "purge arbitrary", "purge taken"} =>
       TakenBetween(x.user, x.span) \subseteq LecturesIn(T, x.id)
  /\ x.pc \in {"tracks", "disconnect", "connect", "row"} /\ x.imports /\ x.span.start # x.span.end =>
       TakenBetween(x.user, x.span) \subseteq LecturesIn(T, x.id)
  /\ x.pc = "disconnect" => x.had = d[x.id].tracks
  /\ x.pc = "connect" => d[x.id].tracks = x.had \cap x.tracks
  /\ x.pc = "row" => d[x.id].tracks = x.tracks
Knows(x, d, T, I) ==
  /\ x.op = "create" => KnowsCreate(x, d, T, I)
  /\ x.op = "delete" => KnowsDelete(x, d)
  /\ x.op = "reorder" => KnowsReorder(x, d)
  /\ x.op = "update" => KnowsUpdate(x, d, T)
  /\ x.op = "remove" /\ x.pc = "final" => x.item \notin DOMAIN I

\* Between the DELETE of a planner and the end of its request there is a gap in
\* the list of its owner.
Gap(x) == x.op = "delete" /\ x.pc \in {"shift", "commit"}
GapOf(x, u) == Gap(x) /\ Owner[x.id] = u
InPlace(u, x, d) == /\ GapOf(x, u) => Filled(x.seen)
                    /\ ~GapOf(x, u) => Filled(OrdersOf(u, d))
AllFilled(D, d) == \A u \in Planning \ D : Filled(OrdersOf(u, d))
LoneFit ==
  /\ overlapped \in BOOLEAN /\ displaced \subseteq Planning
  /\ ~overlapped => /\ \A q, r \in Reqs : Open(q) /\ Open(r) => q = r
                    /\ \A r \in Reqs : Knows(req[r], planner, takenItems, item)
  /\ ~overlapped => \A u \in Planning \ displaced :
       /\ \A r \in Reqs : GapOf(req[r], u) => Filled(req[r].seen)
       /\ (\A r \in Reqs : ~GapOf(req[r], u)) => Filled(OrdersOf(u, planner))

PlannersInv == PlannerRowsFit /\ RequestsFit /\ LoneFit
-----------------------------------------------------------------------------
\* A finite set of integers has a least and a greatest element.
LEMMA Extremes ==
  ASSUME NEW S, S \subseteq Int, IsFiniteSet(S), S # {}
  PROVE  (\E m \in S : \A x \in S : m <= x) /\ (\E m \in S : \A x \in S : x <= m)
<1> DEFINE R == {ss \in Nat \X Nat : ss[1] < ss[2]}
           Under == [x \in S |-> {y \in S : y < x}]
           Over  == [x \in S |-> {y \in S : x < y}]
           L == {Cardinality(Under[x]) : x \in S}
           G == {Cardinality(Over[x]) : x \in S}
<1>1. IsWellFoundedOn(R, Nat)
  BY NatLessThanWellFounded DEF OpToRel
<1>2. \A i, k \in Nat : k < i => <<k, i>> \in R
  OBVIOUS
<1> HIDE DEF R
<1>3. \A T \in SUBSET S : IsFiniteSet(T) /\ Cardinality(T) \in Nat
  BY FS_Subset, FS_CardinalityType
<1>4. \A T, V \in SUBSET S : \A x \in V : T \subseteq V \ {x} => Cardinality(T) < Cardinality(V)
  <2> SUFFICES ASSUME NEW T \in SUBSET S, NEW V \in SUBSET S, NEW x \in V, T \subseteq V \ {x}
               PROVE  Cardinality(T) < Cardinality(V)
    OBVIOUS
  <2> DEFINE W == V \ {x}
  <2>1. IsFiniteSet(V) /\ IsFiniteSet(W) /\ Cardinality(V) \in Nat /\ Cardinality(T) \in Nat
    BY <1>3
  <2>2. Cardinality(W) = Cardinality(V) - 1
    BY <2>1, FS_RemoveElement
  <2> HIDE DEF W
  <2>3. Cardinality(T) <= Cardinality(W)
    BY <2>1, FS_Subset DEF W
  <2> QED
    BY <2>1, <2>2, <2>3
<1>5. \A x \in S : Under[x] \in SUBSET S /\ Over[x] \in SUBSET S
  OBVIOUS
<1>6. \E m \in S : \A x \in S : m <= x
  <2>1. L \subseteq Nat /\ L # {}
    BY <1>3, <1>5
  <2>2. PICK i \in L : \A k \in L : ~ (<<k, i>> \in R)
    BY <1>1, <2>1, WFMin
  <2>3. PICK m \in S : i = Cardinality(Under[m])
    BY <2>2
  <2>4. ASSUME NEW x \in S, x < m PROVE FALSE
    <3>1. x \in Under[m] /\ Under[x] \subseteq Under[m] \ {x}
      <4>1. Under[m] = {y \in S : y < m} /\ Under[x] = {y \in S : y < x}
        OBVIOUS
      <4>2. \A y \in S : y < x => y < m /\ y # x
        BY <2>4
      <4> QED
        BY <2>4, <4>1, <4>2
    <3>2. Cardinality(Under[x]) < i
      BY <1>4, <1>5, <2>3, <3>1
    <3>3. Cardinality(Under[x]) \in L
      OBVIOUS
    <3> HIDE DEF L, Under
    <3> QED
      BY <1>2, <2>1, <2>2, <3>2, <3>3
  <2> QED
    BY <2>4
<1>7. \E m \in S : \A x \in S : x <= m
  <2>1. G \subseteq Nat /\ G # {}
    BY <1>3, <1>5
  <2>2. PICK i \in G : \A k \in G : ~ (<<k, i>> \in R)
    BY <1>1, <2>1, WFMin
  <2>3. PICK m \in S : i = Cardinality(Over[m])
    BY <2>2
  <2>4. ASSUME NEW x \in S, m < x PROVE FALSE
    <3>1. x \in Over[m] /\ Over[x] \subseteq Over[m] \ {x}
      <4>1. Over[m] = {y \in S : m < y} /\ Over[x] = {y \in S : x < y}
        OBVIOUS
      <4>2. \A y \in S : x < y => m < y /\ y # x
        BY <2>4
      <4> QED
        BY <2>4, <4>1, <4>2
    <3>2. Cardinality(Over[x]) < i
      BY <1>4, <1>5, <2>3, <3>1
    <3>3. Cardinality(Over[x]) \in G
      OBVIOUS
    <3> HIDE DEF G, Over
    <3> QED
      BY <1>2, <2>1, <2>2, <3>2, <3>3
  <2> QED
    BY <2>4
<1> QED
  BY <1>6, <1>7

\* The floor is below every position that is asked for.
LEMMA FloorIs ==
  Floor \in Int /\ Floor <= 0 /\ \A k \in Targets : Floor <= k
<1> DEFINE S == Targets \cup {0}
<1>1. S \subseteq Int /\ S # {} /\ IsFiniteSet(S)
  BY PlannersAssumption, FS_AddElement
<1>2. PICK m \in S : \A x \in S : m <= x
  BY <1>1, Extremes
<1>3. Min(S) \in S /\ \A x \in S : Min(S) <= x
  BY <1>1, <1>2 DEF Min
<1> QED
  BY <1>1, <1>3 DEF Floor

\* Sets of planners are finite, and so are functions on them.
LEMMA FewPlanners ==
  ASSUME NEW U \in SUBSET PlannerIds
  PROVE  /\ IsFiniteSet(U) /\ Cardinality(U) \in Nat
         /\ \A t : t \notin U => Cardinality(U \cup {t}) = Cardinality(U) + 1
         /\ \A t \in U : Cardinality(U \ {t}) = Cardinality(U) - 1 /\ Cardinality(U) > 0
<1>1. IsFiniteSet(U) /\ Cardinality(U) \in Nat
  BY PlannersAssumption, FS_Subset, FS_CardinalityType
<1>2. \A t : t \notin U => Cardinality(U \cup {t}) = Cardinality(U) + 1
  BY <1>1, FS_AddElement
<1>3. \A t \in U : Cardinality(U \ {t}) = Cardinality(U) - 1 /\ Cardinality(U \ {t}) \in Nat
  BY <1>1, FS_RemoveElement, FS_CardinalityType
<1> QED
  BY <1>1, <1>2, <1>3

\* The next position is above the floor, and the next place if places are filled.
LEMMA NextOrderIs ==
  ASSUME NEW d, AtFloor(d), DOMAIN d \subseteq PlannerIds
  PROVE  /\ NextOrder(d) \in Int /\ NextOrder(d) >= Floor
         /\ Filled(d) => NextOrder(d) = Cardinality(DOMAIN d)
<1> DEFINE n == Cardinality(DOMAIN d)
           S == {d[p] : p \in DOMAIN d}
<1>1. IsFiniteSet(DOMAIN d) /\ n \in Nat
  BY FewPlanners
<1>2. Range(d) = S
  BY DEF Range
<1>3. S \subseteq Int /\ \A x \in S : x >= Floor
  BY DEF AtFloor
<1>4. CASE d = None
  <2>1. DOMAIN d = {}
    BY <1>4 DEF None
  <2> QED
    BY <1>4, <2>1, FloorIs, FS_EmptySet DEF NextOrder
<1>5. CASE d # None
  <2>1. DOMAIN d # {}
    <3>1. ASSUME DOMAIN d = {} PROVE d = None
      BY <3>1 DEF AtFloor, None
    <3> QED
      BY <1>5, <3>1
  <2>2. IsFiniteSet(S)
    <3>1. d \in Surjection(DOMAIN d, S)
      BY DEF AtFloor, Surjection
    <3> QED
      BY <1>1, <3>1, FS_Surjection
  <2>3. PICK m \in S : \A x \in S : x <= m
    BY <1>3, <2>1, <2>2, Extremes
  <2>4. Max(S) \in S /\ \A x \in S : x <= Max(S)
    BY <1>3, <2>3 DEF Max
  <2>5. NextOrder(d) = Max(S) + 1
    BY <1>2, <1>5 DEF NextOrder
  <2>6. Filled(d) => S = 0..(n - 1)
    BY <1>2 DEF Filled
  <2>7. S # {}
    BY <2>1
  <2> HIDE DEF S, n
  <2>8. ASSUME S = 0..(n - 1) PROVE Max(S) + 1 = n
    <3>1. n - 1 \in S /\ n - 1 <= Max(S) /\ Max(S) \in 0..(n - 1)
      BY <1>1, <2>4, <2>7, <2>8
    <3> QED
      BY <1>1, <3>1
  <2>9. Max(S) \in Int /\ Max(S) >= Floor
    BY <1>3, <2>4
  <2>10. Max(S) + 1 \in Int /\ Max(S) + 1 >= Floor
    BY <2>9, FloorIs
  <2> QED
    BY <2>5, <2>6, <2>8, <2>10 DEF n
<1> QED
  BY <1>4, <1>5

\* Planners that fill the positions 0..n-1 are at different ones.
LEMMA FilledDiffer ==
  ASSUME NEW f, AtFloor(f), DOMAIN f \subseteq PlannerIds, Filled(f)
  PROVE  /\ Cardinality(DOMAIN f) \in Nat
         /\ \A t \in DOMAIN f : f[t] \in 0..(Cardinality(DOMAIN f) - 1)
         /\ \A i \in 0..(Cardinality(DOMAIN f) - 1) : \E t \in DOMAIN f : f[t] = i
         /\ \A t, u \in DOMAIN f : f[t] = f[u] => t = u
<1> DEFINE D == DOMAIN f
           n == Cardinality(D)
<1>1. IsFiniteSet(D) /\ n \in Nat
  BY FewPlanners
<1>2. {f[t] : t \in D} = 0..(n - 1)
  BY DEF Filled, Range
<1>3. \A t \in D : f[t] \in 0..(n - 1)
  BY <1>2
<1>4. \A i \in 0..(n - 1) : \E t \in D : f[t] = i
  BY <1>2
<1>5. f \in [D -> 0..(n - 1)]
  BY <1>3 DEF AtFloor
<1>6. f \in Surjection(D, 0..(n - 1))
  BY <1>4, <1>5 DEF Surjection
<1>7. Cardinality(0..(n - 1)) = n
  BY <1>1, FS_Interval
<1>8. f \in Injection(D, 0..(n - 1))
  BY <1>1, <1>6, <1>7, FS_Surjection
<1>9. \A t, u \in D : f[t] = f[u] => t = u
  BY <1>8 DEF Injection, IsInjective
<1> QED
  BY <1>1, <1>3, <1>4, <1>9

LEMMA FilledBy ==
  ASSUME NEW e, NEW n \in Nat, Cardinality(DOMAIN e) = n,
         \A t \in DOMAIN e : e[t] \in 0..(n - 1),
         \A i \in 0..(n - 1) : \E t \in DOMAIN e : e[t] = i
  PROVE  Filled(e)
BY DEF Filled, Range

\* A planner behind the last, the removal of one and a move keep them filled.
LEMMA FilledAppend ==
  ASSUME NEW d, AtFloor(d), DOMAIN d \subseteq PlannerIds, Filled(d), NEW e, NEW id,
         id \notin DOMAIN d, DOMAIN e = DOMAIN d \cup {id},
         e[id] = Cardinality(DOMAIN d), \A t \in DOMAIN d : e[t] = d[t]
  PROVE  Filled(e)
<1> DEFINE n == Cardinality(DOMAIN d)
<1>1. /\ n \in Nat /\ \A t \in DOMAIN d : d[t] \in 0..(n - 1)
      /\ \A i \in 0..(n - 1) : \E t \in DOMAIN d : d[t] = i
  BY FilledDiffer
<1>2. Cardinality(DOMAIN e) = n + 1
  BY FewPlanners
<1>3. e[id] = n
  OBVIOUS
<1> HIDE DEF n
<1>4. \A t \in DOMAIN e : e[t] \in 0..((n + 1) - 1)
  BY <1>1, <1>3
<1>5. \A i \in 0..((n + 1) - 1) : \E t \in DOMAIN e : e[t] = i
  <2> SUFFICES ASSUME NEW i \in 0..((n + 1) - 1) PROVE \E t \in DOMAIN e : e[t] = i
    OBVIOUS
  <2>1. CASE i = n
    BY <1>3, <2>1
  <2>2. CASE i # n
    <3>1. i \in 0..(n - 1)
      BY <1>1, <2>2
    <3>2. PICK t \in DOMAIN d : d[t] = i
      BY <1>1, <3>1
    <3> QED
      BY <3>2
  <2> QED
    BY <2>1, <2>2
<1>6. n + 1 \in Nat
  BY <1>1
<1> QED
  BY <1>2, <1>4, <1>5, <1>6, FilledBy

LEMMA FilledRemoval ==
  ASSUME NEW d, AtFloor(d), DOMAIN d \subseteq PlannerIds, Filled(d), NEW e, NEW id \in DOMAIN d,
         DOMAIN e = DOMAIN d \ {id},
         \A t \in DOMAIN e : e[t] = IF d[t] > d[id] THEN d[t] - 1 ELSE d[t]
  PROVE  Filled(e)
<1> DEFINE n == Cardinality(DOMAIN d)
           k == d[id]
<1>1. /\ n \in Nat /\ \A t \in DOMAIN d : d[t] \in 0..(n - 1)
      /\ \A i \in 0..(n - 1) : \E t \in DOMAIN d : d[t] = i
      /\ \A t, u \in DOMAIN d : d[t] = d[u] => t = u
  BY FilledDiffer
<1>2. Cardinality(DOMAIN e) = n - 1 /\ n - 1 \in Nat
  <2>1. Cardinality(DOMAIN e) = n - 1 /\ n > 0
    BY FewPlanners
  <2> QED
    BY <1>1, <2>1
<1>3. k \in 0..(n - 1) /\ \A t \in DOMAIN e : t \in DOMAIN d /\ d[t] \in 0..(n - 1) /\ d[t] # k
  BY <1>1
<1>4. \A t \in DOMAIN e : e[t] = IF d[t] > k THEN d[t] - 1 ELSE d[t]
  OBVIOUS
<1> HIDE DEF n
<1>5. \A t \in DOMAIN d : d[t] # k => t \in DOMAIN e
  OBVIOUS
<1> HIDE DEF k
<1>6. \A t \in DOMAIN e : e[t] \in 0..((n - 1) - 1)
  BY <1>1, <1>3, <1>4
<1>7. \A i \in 0..((n - 1) - 1) : \E t \in DOMAIN e : e[t] = i
  <2> SUFFICES ASSUME NEW i \in 0..((n - 1) - 1) PROVE \E t \in DOMAIN e : e[t] = i
    OBVIOUS
  <2>1. i \in 0..(n - 1) /\ i + 1 \in 0..(n - 1) /\ i \in Int /\ k \in Int
    BY <1>1, <1>3
  <2>2. CASE i < k
    <3>1. PICK t \in DOMAIN d : d[t] = i
      BY <1>1, <2>1
    <3>2. d[t] # k /\ ~(d[t] > k)
      BY <2>1, <2>2, <3>1
    <3> QED
      BY <1>4, <1>5, <3>1, <3>2
  <2>3. CASE i >= k
    <3>1. PICK t \in DOMAIN d : d[t] = i + 1
      BY <1>1, <2>1
    <3>2. d[t] # k /\ d[t] > k /\ d[t] - 1 = i
      BY <2>1, <2>3, <3>1
    <3> QED
      BY <1>4, <1>5, <3>1, <3>2
  <2> QED
    BY <2>1, <2>2, <2>3
<1> QED
  BY <1>2, <1>6, <1>7, FilledBy

LEMMA FilledMove ==
  ASSUME NEW d, AtFloor(d), DOMAIN d \subseteq PlannerIds, Filled(d), NEW e, NEW id \in DOMAIN d,
         NEW k \in 0..(Cardinality(DOMAIN d) - 1), DOMAIN e = DOMAIN d, e[id] = k,
         \A t \in DOMAIN d \ {id} : e[t] = IF k <= d[t] /\ d[t] < d[id] THEN d[t] + 1
                                         ELSE IF d[id] < d[t] /\ d[t] <= k THEN d[t] - 1
                                         ELSE d[t]
  PROVE  Filled(e)
<1> DEFINE n == Cardinality(DOMAIN d)
           h == d[id]
<1>1. /\ n \in Nat /\ \A t \in DOMAIN d : d[t] \in 0..(n - 1)
      /\ \A i \in 0..(n - 1) : \E t \in DOMAIN d : d[t] = i
      /\ \A t, u \in DOMAIN d : d[t] = d[u] => t = u
  BY FilledDiffer
<1>2. k \in 0..(n - 1)
  OBVIOUS
<1>4. /\ DOMAIN e = DOMAIN d /\ e[id] = k
      /\ \A t \in DOMAIN d \ {id} : e[t] = IF k <= d[t] /\ d[t] < h THEN d[t] + 1
                                           ELSE IF h < d[t] /\ d[t] <= k THEN d[t] - 1
                                           ELSE d[t]
  OBVIOUS
<1>5. h \in 0..(n - 1) /\ \A t \in DOMAIN d \ {id} : d[t] \in 0..(n - 1) /\ d[t] # h
  BY <1>1
<1>9. \A t \in DOMAIN d : d[t] # h => t # id
  OBVIOUS
<1>8. Cardinality(DOMAIN e) = n
  OBVIOUS
<1> HIDE DEF n, h
<1>6. \A t \in DOMAIN e : e[t] \in 0..(n - 1)
  BY <1>1, <1>2, <1>4, <1>5
<1>7. \A i \in 0..(n - 1) : \E t \in DOMAIN e : e[t] = i
  <2> SUFFICES ASSUME NEW i \in 0..(n - 1) PROVE \E t \in DOMAIN e : e[t] = i
    OBVIOUS
  <2>1. i \in Int /\ k \in Int /\ h \in Int /\ n \in Int
    BY <1>1, <1>2, <1>5
  <2>2. ASSUME NEW j \in 0..(n - 1), j # h,
               i = IF k <= j /\ j < h THEN j + 1 ELSE IF h < j /\ j <= k THEN j - 1 ELSE j
        PROVE  \E t \in DOMAIN e : e[t] = i
    <3>1. PICK t \in DOMAIN d : d[t] = j
      BY <1>1
    <3>2. t # id
      BY <1>9, <2>2, <3>1
    <3> QED
      BY <1>4, <2>2, <3>1, <3>2
  <2>3. CASE i = k
    BY <1>2, <1>4, <2>3
  <2>4. CASE k < i /\ i <= h
    <3>1. i - 1 \in 0..(n - 1) /\ i - 1 # h /\ k <= i - 1 /\ i - 1 < h /\ i = (i - 1) + 1
      BY <1>2, <1>5, <2>1, <2>4
    <3> QED
      BY <2>2, <3>1
  <2>5. CASE h <= i /\ i < k
    <3>1. i + 1 \in 0..(n - 1) /\ i + 1 # h /\ h < i + 1 /\ i + 1 <= k /\ i = (i + 1) - 1 /\ ~(i + 1 < h)
      BY <1>2, <1>5, <2>1, <2>5
    <3> QED
      BY <2>2, <3>1
  <2>6. CASE i # k /\ ~(k < i /\ i <= h) /\ ~(h <= i /\ i < k)
    <3>1. i # h /\ ~(k <= i /\ i < h) /\ ~(h < i /\ i <= k)
      BY <1>2, <2>1, <2>6
    <3> QED
      BY <2>2, <3>1
  <2> QED
    BY <2>3, <2>4, <2>5, <2>6
<1> QED
  BY <1>1, <1>4, <1>6, <1>7, <1>8, FilledBy

\* The fields of a request, and one that is not asked for anything.
LEMMA Fields ==
  DOMAIN NoRequest = {"pc", "op", "user", "id", "to", "item", "year", "kind", "excluded", "span", "tracks",
                      "imports", "src", "old", "gone", "seen", "need", "had", "copied", "todo",
                      "failing", "written"}
BY DEF NoRequest

\* A request that is over.
LEMMA Over ==
  ASSUME NEW pc \in {"idle", "done", "failed"}, NEW b, b = [NoRequest EXCEPT !.pc = pc]
  PROVE  /\ b.op = "none" /\ b.pc = pc /\ DOMAIN b.written = {} /\ ReqTyped(b) /\ ~Gap(b)
         /\ \A d, T, I : Knows(b, d, T, I)
<1>1. /\ DOMAIN b = DOMAIN NoRequest /\ b.op = "none" /\ b.pc = pc /\ b.written = None /\ b.seen = None
      /\ b.copied = None /\ b.id = NoId /\ b.to = 0 /\ b.old = 0 /\ b.gone = 0 /\ b.need = {}
      /\ b.todo = {}
  BY DEF NoRequest
<1>2. DOMAIN None = {} /\ AtFloor(None)
  BY DEF None, AtFloor
<1>3. b.pc \in PcsOf(b.op)
  BY <1>1 DEF PcsOf
<1>4. AtFloor(b.seen) /\ AtFloor(b.written) /\ DOMAIN b.seen = {} /\ DOMAIN b.written = {} /\ DOMAIN b.copied = {}
  BY <1>1, <1>2
<1>5. b.to \in Int /\ b.to >= Floor /\ b.old \in Int /\ b.old >= Floor /\ b.gone \in Int
  BY <1>1, FloorIs
<1>6. ReqTyped(b)
  BY <1>1, <1>3, <1>4, <1>5 DEF ReqTyped
<1> QED
  BY <1>1, <1>4, <1>6 DEF Gap, Knows

\* A request that meets no other.
LEMMA Alone ==
  ASSUME PlannersInv, NEW r \in Reqs, Open(r), ~overlapped
  PROVE  /\ \A q \in Reqs \ {r} : req[q].op = "none"
         /\ Knows(req[r], planner, takenItems, item)
         /\ \A u \in Planning \ displaced : InPlace(u, req[r], planner)
         /\ ~Gap(req[r]) => AllFilled(displaced, planner)
<1>1. \A q \in Reqs \ {r} : req[q].op = "none"
  <2> SUFFICES ASSUME NEW q \in Reqs \ {r} PROVE req[q].op = "none"
    OBVIOUS
  <2>1. ~Open(q)
    BY DEF PlannersInv, LoneFit
  <2>2. ReqTyped(req[q])
    BY DEF PlannersInv, RequestsFit
  <2> QED
    BY <2>1, <2>2 DEF Open, ReqTyped, PcsOf
<1>2. \A q \in Reqs \ {r}, u \in Planning : ~GapOf(req[q], u)
  BY <1>1 DEF Gap, GapOf
<1>3. \A u \in Planning \ displaced : InPlace(u, req[r], planner)
  BY <1>2 DEF PlannersInv, LoneFit, InPlace
<1>4. Knows(req[r], planner, takenItems, item)
  BY DEF PlannersInv, LoneFit
<1> QED
  BY <1>1, <1>3, <1>4 DEF AllFilled, InPlace, GapOf

\* The step of one request.
LEMMA OneMoves ==
  ASSUME PlannersInv, NEW r \in Reqs, Open(r), NEW b, req' = [req EXCEPT ![r] = b],
         overlapped' = overlapped, displaced \subseteq displaced', displaced' \subseteq Planning,
         PlannerRowsFit', ReqTyped(b), DOMAIN b.written \subseteq DOMAIN planner',
         \A q \in Reqs \ {r} : /\ DOMAIN req[q].written \subseteq DOMAIN planner'
                               /\ DOMAIN req[q].written \cap DOMAIN b.written = {},
         ~overlapped => Knows(b, planner', takenItems', item'),
         ~overlapped => \A u \in Planning \ displaced' : InPlace(u, b, planner')
  PROVE  PlannersInv'
<1>1. DOMAIN req = Reqs /\ \A q \in Reqs : ReqTyped(req[q])
  BY DEF PlannersInv, RequestsFit
<1>2. DOMAIN req' = Reqs /\ \A q \in Reqs : req'[q] = IF q = r THEN b ELSE req[q]
  BY <1>1
<1>3. RequestsFit'
  <2>1. \A q \in Reqs : ReqTyped(req'[q]) /\ DOMAIN req'[q].written \subseteq DOMAIN planner'
    BY <1>1, <1>2
  <2>2. \A p, q \in Reqs : p # q => DOMAIN req'[p].written \cap DOMAIN req'[q].written = {}
    BY <1>2 DEF PlannersInv, RequestsFit
  <2> QED
    BY <1>2, <2>1, <2>2 DEF RequestsFit
<1>4. overlapped' \in BOOLEAN
  BY DEF PlannersInv, LoneFit
<1>5. ASSUME ~overlapped
      PROVE  /\ \A q, p \in Reqs : Open(q)' /\ Open(p)' => q = p
             /\ \A q \in Reqs : Knows(req'[q], planner', takenItems', item')
             /\ \A q \in Reqs \ {r}, u \in Planning : ~GapOf(req'[q], u)
  <2>1. \A q \in Reqs \ {r} : req[q].op = "none"
    BY <1>5, Alone
  <2>2. \A q \in Reqs \ {r} : ~Open(q)'
    BY <1>5, <1>2 DEF PlannersInv, LoneFit, Open
  <2>3. \A q \in Reqs \ {r} : Knows(req'[q], planner', takenItems', item')
    BY <1>2, <2>1 DEF Knows
  <2>4. \A q \in Reqs \ {r}, u \in Planning : ~GapOf(req'[q], u)
    BY <1>2, <2>1 DEF Gap, GapOf
  <2> QED
    BY <1>2, <1>5, <2>2, <2>3, <2>4
<1>6. ASSUME ~overlapped, NEW u \in Planning \ displaced'
      PROVE  /\ \A q \in Reqs : GapOf(req'[q], u) => Filled(req'[q].seen)
             /\ (\A q \in Reqs : ~GapOf(req'[q], u)) => Filled(OrdersOf(u, planner'))
  BY <1>2, <1>5, <1>6 DEF InPlace
<1>7. LoneFit'
  BY <1>4, <1>5, <1>6 DEF LoneFit
<1> QED
  BY <1>3, <1>7 DEF PlannersInv

LEMMA RowsStay ==
  ASSUME PlannerRowsFit, UNCHANGED <<planner, used, contents>>
  PROVE  PlannerRowsFit'
BY DEF PlannerRowsFit, contents

\* A step that only reads.
LEMMA OneReads ==
  ASSUME PlannersInv, NEW r \in Reqs, Open(r), NEW b, req' = [req EXCEPT ![r] = b],
         UNCHANGED <<planner, used, contents, history>>,
         ReqTyped(b), DOMAIN b.written = {}, ~Gap(req[r]), ~Gap(b),
         ~overlapped => Knows(b, planner, takenItems, item)
  PROVE  PlannersInv'
<1>1. PlannerRowsFit'
  BY RowsStay DEF PlannersInv
<1>2. /\ overlapped' = overlapped /\ displaced' = displaced /\ planner' = planner
      /\ takenItems' = takenItems /\ item' = item /\ displaced \subseteq Planning
  BY DEF history, contents, PlannersInv, LoneFit
<1>3. \A q \in Reqs : DOMAIN req[q].written \subseteq DOMAIN planner
  BY DEF PlannersInv, RequestsFit
<1>4. ~overlapped => \A u \in Planning \ displaced : InPlace(u, b, planner)
  BY Alone DEF InPlace, GapOf, AllFilled
<1> QED
  BY <1>1, <1>2, <1>3, <1>4, OneMoves

\* A step that ends a request.
LEMMA OneEnds ==
  ASSUME PlannersInv, NEW r \in Reqs, Open(r), NEW pc \in {"done", "failed"}, Finish(r, pc),
         overlapped' = overlapped, displaced \subseteq displaced', displaced' \subseteq Planning,
         PlannerRowsFit', \A q \in Reqs \ {r} : DOMAIN req[q].written \subseteq DOMAIN planner',
         ~overlapped => AllFilled(displaced', planner')
  PROVE  PlannersInv'
<1> DEFINE b == [NoRequest EXCEPT !.pc = pc]
<1>1. req' = [req EXCEPT ![r] = b]
  BY DEF Finish
<1>2. b.op = "none" /\ DOMAIN b.written = {} /\ ReqTyped(b) /\ ~Gap(b)
      /\ Knows(b, planner', takenItems', item')
  BY Over
<1> HIDE DEF b
<1>3. ~overlapped => \A u \in Planning \ displaced' : InPlace(u, b, planner')
  BY <1>2 DEF AllFilled, InPlace, GapOf
<1> QED
  BY <1>1, <1>2, <1>3, OneMoves

LEMMA OneFails ==
  ASSUME PlannersInv, NEW r \in Reqs, Open(r), NEW pc \in {"done", "failed"}, Finish(r, pc),
         UNCHANGED <<planner, used, contents, history>>, ~Gap(req[r])
  PROVE  PlannersInv'
<1>1. PlannerRowsFit'
  BY RowsStay DEF PlannersInv
<1>2. overlapped' = overlapped /\ displaced' = displaced /\ planner' = planner /\ displaced \subseteq Planning
  BY DEF history, PlannersInv, LoneFit
<1>3. \A q \in Reqs : DOMAIN req[q].written \subseteq DOMAIN planner
  BY DEF PlannersInv, RequestsFit
<1>4. ~overlapped => AllFilled(displaced, planner)
  BY Alone
<1> QED
  BY <1>1, <1>2, <1>3, <1>4, OneEnds

-----------------------------------------------------------------------------
LEMMA FailFits ==
  ASSUME PlannersInv, NEW r \in Reqs, Fail(r)
  PROVE  PlannersInv'
<1>1. /\ Open(r) /\ Finish(r, "failed") /\ overlapped' = overlapped /\ planner' = planner
      /\ UNCHANGED <<planner, used, contents>>
      /\ displaced' = displaced \cup
           (IF req[r].op = "delete" /\ req[r].pc \in {"shift", "commit"} THEN {Owner[req[r].id]} ELSE {})
  BY Zenon DEF Fail
<1>2. PlannerRowsFit'
  BY <1>1, RowsStay DEF PlannersInv
<1>3. displaced \subseteq displaced' /\ displaced' \subseteq Planning
  <2>1. displaced \subseteq Planning /\ ReqTyped(req[r])
    BY DEF PlannersInv, LoneFit, RequestsFit
  <2>2. req[r].op = "delete" => Owner[req[r].id] \in Planning
    BY <2>1, PlannersAssumption DEF ReqTyped
  <2> QED
    BY <1>1, <2>1, <2>2
<1>4. \A q \in Reqs : DOMAIN req[q].written \subseteq DOMAIN planner
  BY DEF PlannersInv, RequestsFit
<1>5. ~overlapped => AllFilled(displaced', planner)
  <2> SUFFICES ASSUME ~overlapped, NEW u \in Planning \ displaced' PROVE Filled(OrdersOf(u, planner))
    BY DEF AllFilled
  <2>1. InPlace(u, req[r], planner) /\ ~GapOf(req[r], u)
    BY <1>1, <1>3, Alone DEF Gap, GapOf
  <2> QED
    BY <2>1 DEF InPlace
<1> QED
  BY <1>1, <1>2, <1>3, <1>4, <1>5, OneEnds

\* A request at one of its steps is open, and what it is asked for is known.
LEMMA AtStep ==
  ASSUME PlannersInv, NEW r \in Reqs, req[r].pc \notin {"idle", "done", "failed"}
  PROVE  Open(r) /\ ReqTyped(req[r]) /\ DOMAIN req[r] = DOMAIN NoRequest
BY DEF Open, PlannersInv, RequestsFit, ReqTyped

LEMMA ReadPlannerFits ==
  ASSUME PlannersInv, NEW r \in Reqs, ReadPlanner(r)
  PROVE  PlannersInv'
<1> DEFINE a == req[r]
           p == a.id
           b == [a EXCEPT !.pc = "related", !.old = planner[p].order]
<1>1. a.pc = "planner" /\ UNCHANGED <<planner, used, contents, history>>
  BY Zenon DEF ReadPlanner
<1>2. Open(r) /\ ReqTyped(a) /\ DOMAIN a = DOMAIN NoRequest
  BY <1>1, AtStep
<1>3. a.op \in {"delete", "reorder"} /\ ~Gap(a)
  BY <1>1, <1>2 DEF ReqTyped, PcsOf, Gap
<1>4. CASE p \in DOMAIN planner
  <2>1. req' = [req EXCEPT ![r] = b]
    BY <1>4 DEF ReadPlanner
  <2>2. /\ DOMAIN b = DOMAIN NoRequest /\ b.pc = "related" /\ b.old = planner[p].order
        /\ \A f \in DOMAIN NoRequest \ {"pc", "old"} : b[f] = a[f]
    BY <1>2, Fields
  <2> HIDE DEF b
  <2>3. /\ b.op = a.op /\ b.user = a.user /\ b.id = a.id /\ b.span = a.span /\ b.tracks = a.tracks /\ b.to = a.to
        /\ b.gone = a.gone /\ b.seen = a.seen /\ b.need = a.need /\ b.todo = a.todo
        /\ b.copied = a.copied /\ b.written = a.written
    BY <2>2, Fields
  <2>4. planner[p].order \in Int /\ planner[p].order >= Floor
    BY <1>4 DEF PlannersInv, PlannerRowsFit
  <2>5. ReqTyped(b) /\ DOMAIN b.written = {}
    BY <1>1, <1>2, <1>3, <2>2, <2>3, <2>4 DEF ReqTyped, PcsOf
  <2>6. ~Gap(b) /\ Knows(b, planner, takenItems, item)
    BY <1>3, <1>4, <2>2, <2>3 DEF Gap, Knows, KnowsDelete, KnowsReorder
  <2> QED
    BY <1>1, <1>2, <1>3, <2>1, <2>5, <2>6, OneReads
<1>5. CASE p \notin DOMAIN planner
  <2>1. Finish(r, "failed")
    BY <1>5 DEF ReadPlanner
  <2> QED
    BY <1>1, <1>2, <1>3, <2>1, OneFails
<1> QED
  BY <1>4, <1>5

LEMMA OrdersAtFloor ==
  ASSUME PlannerRowsFit, NEW u
  PROVE  /\ AtFloor(OrdersOf(u, planner)) /\ DOMAIN OrdersOf(u, planner) = OwnedIn(planner, u)
         /\ DOMAIN planner \subseteq PlannerIds
         /\ \A p \in OwnedIn(planner, u) : OrdersOf(u, planner)[p] = planner[p].order
BY DEF PlannerRowsFit, AtFloor, OrdersOf, OwnedIn

LEMMA ReadRelatedFits ==
  ASSUME PlannersInv, NEW r \in Reqs, ReadRelated(r)
  PROVE  PlannersInv'
<1> DEFINE a == req[r]
           next == AfterRelated(a.op)
           own == OrdersOf(ListOf(a), planner)
           b == [a EXCEPT !.seen = own, !.pc = next]
<1>1. a.pc = "related" /\ UNCHANGED <<planner, used, contents, history>>
  BY Zenon DEF ReadRelated
<1>2. Open(r) /\ ReqTyped(a) /\ DOMAIN a = DOMAIN NoRequest
  BY <1>1, AtStep
<1>3. a.op \in {"create", "delete", "reorder"} /\ ~Gap(a)
  BY <1>1, <1>2 DEF ReqTyped, PcsOf, Gap
<1>4. /\ next \in PcsOf(a.op) /\ next \notin {"place", "commit"}
      /\ a.op = "create" => next = "insert"
      /\ a.op = "delete" => next = "delete"
      /\ a.op = "reorder" => next = "shift"
  BY <1>3 DEF PcsOf, AfterRelated
<1>5. req' = [req EXCEPT ![r] = b]
  BY Zenon DEF ReadRelated
<1> HIDE DEF next
<1>6. /\ DOMAIN b = DOMAIN NoRequest /\ b.pc = next /\ b.seen = own
      /\ \A f \in DOMAIN NoRequest \ {"pc", "seen"} : b[f] = a[f]
  BY <1>2, Fields
<1> HIDE DEF b
<1>7. /\ b.op = a.op /\ b.user = a.user /\ b.id = a.id /\ b.span = a.span /\ b.tracks = a.tracks /\ b.to = a.to
      /\ b.old = a.old /\ b.gone = a.gone /\ b.need = a.need /\ b.todo = a.todo
      /\ b.copied = a.copied /\ b.written = a.written
  BY <1>6, Fields
<1>8. AtFloor(own) /\ DOMAIN own \subseteq PlannerIds
  BY OrdersAtFloor DEF PlannersInv, OwnedIn
<1>12. own = OrdersOf(IF a.op = "delete" THEN Owner[a.id] ELSE a.user, planner)
  BY DEF ListOf
<1> HIDE DEF own
<1>9. ReqTyped(b) /\ DOMAIN b.written = {}
  BY <1>1, <1>2, <1>4, <1>6, <1>7, <1>8 DEF ReqTyped
<1>10. ~Gap(b)
  BY <1>3, <1>4, <1>6, <1>7 DEF Gap
<1>11. ASSUME ~overlapped PROVE Knows(b, planner, takenItems, item)
  <2>1. Knows(a, planner, takenItems, item)
    BY <1>2, <1>11, Alone
  <2>2. CASE a.op = "create"
    BY <2>2, <1>4, <1>6, <1>7, <1>12 DEF Knows, KnowsCreate
  <2>3. CASE a.op = "delete"
    BY <2>1, <2>3, <1>1, <1>4, <1>6, <1>7, <1>12 DEF Knows, KnowsDelete
  <2>4. CASE a.op = "reorder"
    BY <2>1, <2>4, <1>1, <1>4, <1>6, <1>7, <1>12 DEF Knows, KnowsReorder
  <2> QED
    BY <1>3, <2>2, <2>3, <2>4
<1> QED
  BY <1>1, <1>2, <1>3, <1>5, <1>9, <1>10, <1>11, OneReads

LEMMA TakenAre ==
  ASSUME NEW u \in Planning, NEW s PROVE TakenBetween(u, s) \subseteq DOMAIN Attended
BY PlannersAssumption DEF TakenBetween

LEMMA ReadExistingFits ==
  ASSUME PlannersInv, NEW r \in Reqs, ReadExisting(r)
  PROVE  PlannersInv'
<1> DEFINE a == req[r]
           need == TakenBetween(a.user, a.span) \ TakenOf(a.id)
           b == [a EXCEPT !.pc = "import", !.need = need]
<1>1. a.pc = "existing" /\ UNCHANGED <<planner, used, contents, history>>
  BY Zenon DEF ReadExisting
<1>2. Open(r) /\ ReqTyped(a) /\ DOMAIN a = DOMAIN NoRequest
  BY <1>1, AtStep
<1>3. a.op = "update" /\ ~Gap(a)
  BY <1>1, <1>2 DEF ReqTyped, PcsOf, Gap
<1>4. req' = [req EXCEPT ![r] = b]
  BY Zenon DEF ReadExisting
<1>5. need \subseteq DOMAIN Attended /\ TakenBetween(a.user, a.span) \subseteq need \cup LecturesIn(takenItems, a.id)
  <2>1. a.user \in Planning
    BY <1>2, <1>3 DEF ReqTyped
  <2> QED
    BY <2>1, TakenAre DEF TakenOf, LecturesIn
<1> HIDE DEF need
<1>6. /\ DOMAIN b = DOMAIN NoRequest /\ b.pc = "import" /\ b.need = need
      /\ \A f \in DOMAIN NoRequest \ {"pc", "need"} : b[f] = a[f]
  BY <1>2, Fields
<1> HIDE DEF b
<1>7. /\ b.op = a.op /\ b.user = a.user /\ b.id = a.id /\ b.span = a.span /\ b.tracks = a.tracks /\ b.to = a.to
      /\ b.old = a.old /\ b.gone = a.gone /\ b.seen = a.seen /\ b.todo = a.todo
      /\ b.copied = a.copied /\ b.written = a.written /\ b.imports = a.imports
  BY <1>6, Fields
<1>9. ReqTyped(b) /\ DOMAIN b.written = {}
  BY <1>1, <1>2, <1>3, <1>5, <1>6, <1>7 DEF ReqTyped, PcsOf
<1>10. ~Gap(b)
  BY <1>3, <1>7 DEF Gap
<1>11. ASSUME ~overlapped PROVE Knows(b, planner, takenItems, item)
  <2>1. Knows(a, planner, takenItems, item)
    BY <1>2, <1>11, Alone
  <2> QED
    BY <2>1, <1>1, <1>3, <1>5, <1>6, <1>7 DEF Knows, KnowsUpdate
<1> QED
  BY <1>1, <1>2, <1>3, <1>4, <1>9, <1>10, <1>11, OneReads

LEMMA ReadTracksFits ==
  ASSUME PlannersInv, NEW r \in Reqs, ReadTracks(r)
  PROVE  PlannersInv'
<1> DEFINE a == req[r]
           had == IF a.id \in DOMAIN planner THEN planner[a.id].tracks ELSE {}
           b == [a EXCEPT !.pc = "disconnect", !.had = had]
<1>1. a.pc = "tracks" /\ UNCHANGED <<planner, used, contents, history>>
  BY Zenon DEF ReadTracks
<1>2. Open(r) /\ ReqTyped(a) /\ DOMAIN a = DOMAIN NoRequest
  BY <1>1, AtStep
<1>3. a.op = "update" /\ ~Gap(a)
  BY <1>1, <1>2 DEF ReqTyped, PcsOf, Gap
<1>4. req' = [req EXCEPT ![r] = b]
  BY Zenon DEF ReadTracks
<1>5. a.id \in DOMAIN planner => had = planner[a.id].tracks
  OBVIOUS
<1> HIDE DEF had
<1>6. /\ DOMAIN b = DOMAIN NoRequest /\ b.pc = "disconnect" /\ b.had = had
      /\ \A f \in DOMAIN NoRequest \ {"pc", "had"} : b[f] = a[f]
  BY <1>2, Fields
<1> HIDE DEF b
<1>7. /\ b.op = a.op /\ b.user = a.user /\ b.id = a.id /\ b.span = a.span /\ b.tracks = a.tracks /\ b.to = a.to
      /\ b.old = a.old /\ b.gone = a.gone /\ b.seen = a.seen /\ b.todo = a.todo /\ b.need = a.need
      /\ b.copied = a.copied /\ b.written = a.written /\ b.imports = a.imports
  BY <1>6, Fields
<1>9. ReqTyped(b) /\ DOMAIN b.written = {}
  BY <1>1, <1>2, <1>3, <1>6, <1>7 DEF ReqTyped, PcsOf
<1>10. ~Gap(b)
  BY <1>3, <1>7 DEF Gap
<1>11. ASSUME ~overlapped PROVE Knows(b, planner, takenItems, item)
  <2>1. Knows(a, planner, takenItems, item)
    BY <1>2, <1>11, Alone
  <2> QED
    BY <2>1, <1>1, <1>3, <1>5, <1>6, <1>7 DEF Knows, KnowsUpdate
<1> QED
  BY <1>1, <1>2, <1>3, <1>4, <1>9, <1>10, <1>11, OneReads

\* A step to another statement of the same request.
LEMMA Moved ==
  ASSUME NEW a, DOMAIN a = DOMAIN NoRequest, NEW pc, NEW b, b = [a EXCEPT !.pc = pc]
  PROVE  /\ DOMAIN b = DOMAIN NoRequest /\ b.pc = pc /\ b.op = a.op /\ b.user = a.user /\ b.id = a.id /\ b.to = a.to
         /\ b.item = a.item /\ b.span = a.span /\ b.tracks = a.tracks /\ b.imports = a.imports
         /\ b.old = a.old /\ b.gone = a.gone /\ b.seen = a.seen /\ b.need = a.need /\ b.had = a.had
         /\ b.copied = a.copied /\ b.todo = a.todo /\ b.failing = a.failing /\ b.written = a.written
         /\ ReqTyped(a) /\ pc \in PcsOf(a.op) /\ DOMAIN a.written = {} => ReqTyped(b)
<1>1. DOMAIN b = DOMAIN NoRequest /\ b.pc = pc /\ \A f \in DOMAIN NoRequest \ {"pc"} : b[f] = a[f]
  BY Fields
<1>2. /\ b.op = a.op /\ b.user = a.user /\ b.id = a.id /\ b.to = a.to
      /\ b.item = a.item /\ b.span = a.span /\ b.tracks = a.tracks /\ b.imports = a.imports
      /\ b.old = a.old /\ b.gone = a.gone /\ b.seen = a.seen /\ b.need = a.need /\ b.had = a.had
      /\ b.copied = a.copied /\ b.todo = a.todo /\ b.failing = a.failing /\ b.written = a.written
  BY <1>1, Fields
<1>3. ASSUME ReqTyped(a), pc \in PcsOf(a.op), DOMAIN a.written = {} PROVE ReqTyped(b)
  <2>1. /\ a.op \in {"none", "create", "delete", "reorder", "update", "add", "exclude", "remove"}
        /\ a.id \in PlannerIds \cup {NoId} /\ (a.op \in {"delete", "reorder"} => a.id \in PlannerIds)
        /\ a.op # "none" => a.user \in Planning
        /\ a.op \in {"create", "update"} => a.span \in Spans /\ a.tracks \subseteq Tracks
        /\ a.to \in Int /\ a.to >= Floor /\ a.old \in Int /\ a.old >= Floor /\ a.gone \in Int
        /\ AtFloor(a.seen) /\ DOMAIN a.seen \subseteq PlannerIds
        /\ a.need \subseteq DOMAIN Attended /\ a.todo \subseteq Copies
        /\ DOMAIN a.copied \subseteq Copies /\ \A c \in DOMAIN a.copied : CopiedFit(c, a.copied[c])
        /\ AtFloor(a.written)
    BY <1>3 DEF ReqTyped
  <2> QED
    BY <1>1, <1>2, <1>3, <2>1 DEF ReqTyped
<1> QED
  BY <1>1, <1>2, <1>3

LEMMA OneMovesOn ==
  ASSUME PlannersInv, NEW r \in Reqs, Open(r), NEW pc, pc \in PcsOf(req[r].op), Goto(r, pc),
         DOMAIN req[r].written = {}, req[r].op # "delete", UNCHANGED history,
         PlannerRowsFit', \A u : OrdersOf(u, planner') = OrdersOf(u, planner), DOMAIN planner' = DOMAIN planner,
         \A b : b = [req[r] EXCEPT !.pc = pc] /\ ~overlapped => Knows(b, planner', takenItems', item')
  PROVE  PlannersInv'
<1> DEFINE b == [req[r] EXCEPT !.pc = pc]
<1>1. req' = [req EXCEPT ![r] = b]
  BY Zenon DEF Goto
<1>2. ReqTyped(req[r]) /\ DOMAIN req[r] = DOMAIN NoRequest
  BY DEF PlannersInv, RequestsFit, ReqTyped
<1>3. ~overlapped => Knows(b, planner', takenItems', item')
  OBVIOUS
<1>4. b.op = req[r].op /\ b.written = req[r].written /\ ReqTyped(b)
  BY <1>2, Moved
<1> HIDE DEF b
<1>5. ~Gap(b) /\ ~Gap(req[r])
  BY <1>4 DEF Gap
<1>6. overlapped' = overlapped /\ displaced' = displaced /\ displaced \subseteq Planning
  BY DEF history, PlannersInv, LoneFit
<1>7. \A q \in Reqs : DOMAIN req[q].written \subseteq DOMAIN planner
  BY DEF PlannersInv, RequestsFit
<1>8. ~overlapped => \A u \in Planning \ displaced : InPlace(u, b, planner')
  BY <1>5, Alone DEF InPlace, GapOf, AllFilled
<1> QED
  BY <1>1, <1>3, <1>4, <1>5, <1>6, <1>7, <1>8, OneMoves

\* A request of an item knows nothing but that its item is gone.
LEMMA KnowsOfItems ==
  ASSUME NEW b, b.op \in {"add", "exclude", "remove"}, NEW d, NEW T, NEW I,
         b.op = "remove" /\ b.pc = "final" => b.item \notin DOMAIN I
  PROVE  Knows(b, d, T, I)
BY DEF Knows

LEMMA CheckPlannerFits ==
  ASSUME PlannersInv, NEW r \in Reqs, CheckPlanner(r)
  PROVE  PlannersInv'
<1> DEFINE a == req[r]
           next == IF a.op = "add" THEN "insert item" ELSE "update item"
<1>1. a.pc = "check" /\ UNCHANGED <<planner, used, contents, history>>
  BY Zenon DEF CheckPlanner
<1>2. Open(r) /\ ReqTyped(a) /\ DOMAIN a = DOMAIN NoRequest
  BY <1>1, AtStep
<1>3. a.op \in {"add", "exclude"} /\ ~Gap(a) /\ DOMAIN a.written = {}
  BY <1>1, <1>2 DEF ReqTyped, PcsOf, Gap
<1>4. PlannerRowsFit' /\ planner' = planner /\ UNCHANGED history
  BY <1>1, RowsStay DEF PlannersInv
<1>5. next \in PcsOf(a.op)
  BY <1>3 DEF PcsOf
<1>6. CASE Goto(r, next)
  <2> HIDE DEF next
  <2>1. \A b : b = [a EXCEPT !.pc = next] => b.op = a.op
    BY <1>2, Moved
  <2>2. \A b : b = [a EXCEPT !.pc = next] => Knows(b, planner', takenItems', item')
    BY <1>3, <2>1, KnowsOfItems
  <2> QED
    BY <1>2, <1>3, <1>4, <1>5, <1>6, <2>2, OneMovesOn
<1>7. CASE Finish(r, "failed")
  BY <1>1, <1>2, <1>3, <1>7, OneFails
<1> QED
  BY Zenon, <1>6, <1>7 DEF CheckPlanner

LEMMA CheckItemFits ==
  ASSUME PlannersInv, NEW r \in Reqs, CheckItem(r)
  PROVE  PlannersInv'
<1> DEFINE a == req[r]
<1>1. a.pc = "item" /\ UNCHANGED <<planner, used, contents, history>>
  BY Zenon DEF CheckItem
<1>2. Open(r) /\ ReqTyped(a) /\ DOMAIN a = DOMAIN NoRequest
  BY <1>1, AtStep
<1>3. a.op = "remove" /\ ~Gap(a) /\ DOMAIN a.written = {} /\ "delete item" \in PcsOf(a.op)
  BY <1>1, <1>2 DEF ReqTyped, PcsOf, Gap
<1>4. PlannerRowsFit' /\ planner' = planner /\ UNCHANGED history
  BY <1>1, RowsStay DEF PlannersInv
<1>5. CASE Goto(r, "delete item")
  <2> DEFINE next == "delete item"
  <2>1. next \in PcsOf(a.op) /\ next # "final" /\ Goto(r, next)
    BY <1>3, <1>5
  <2> HIDE DEF next
  <2>2. \A b : b = [a EXCEPT !.pc = next] => b.op = a.op /\ b.pc = next
    BY <1>2, Moved
  <2>3. \A b : b = [a EXCEPT !.pc = next] => Knows(b, planner', takenItems', item')
    <3> SUFFICES ASSUME NEW b, b = [a EXCEPT !.pc = next]
                 PROVE  Knows(b, planner', takenItems', item')
      OBVIOUS
    <3>1. b.op = "remove" /\ b.pc # "final"
      BY <1>3, <2>1, <2>2
    <3> QED
      BY <3>1 DEF Knows
  <2> QED
    BY <1>2, <1>3, <1>4, <2>1, <2>3, OneMovesOn
<1>6. CASE Finish(r, "failed")
  BY <1>1, <1>2, <1>3, <1>6, OneFails
<1> QED
  BY Zenon, <1>5, <1>6 DEF CheckItem

LEMMA ReadFinalFits ==
  ASSUME PlannersInv, NEW r \in Reqs, ReadFinal(r)
  PROVE  PlannersInv'
<1> DEFINE a == req[r]
           pc == IF a.id \in DOMAIN planner /\ Owner[a.id] = a.user THEN "done" ELSE "failed"
<1>1. a.pc = "final" /\ Finish(r, pc) /\ UNCHANGED <<planner, used, contents, history>>
  BY Zenon DEF ReadFinal
<1>2. Open(r) /\ ReqTyped(a) /\ DOMAIN a = DOMAIN NoRequest
  BY <1>1, AtStep
<1>3. ~Gap(a) /\ pc \in {"done", "failed"}
  BY <1>1 DEF Gap
<1> HIDE DEF pc
<1> QED
  BY <1>1, <1>2, <1>3, OneFails

-----------------------------------------------------------------------------
\* Rows of items.
LEMMA FewerItems ==
  ASSUME PlannerRowsFit, NEW S, S \subseteq DOMAIN item, item' = Restrict(item, S),
         UNCHANGED <<planner, used, takenItems, nextItem>>
  PROVE  /\ PlannerRowsFit' /\ DOMAIN item' = S /\ \A i \in S : item'[i] = item[i]
<1>1. DOMAIN item' = S /\ \A i \in S : item'[i] = item[i]
  BY DEF Restrict
<1> QED
  BY <1>1 DEF PlannerRowsFit

LEMMA ItemRow ==
  ASSUME NEW p, NEW k, NEW y, NEW x
  PROVE  /\ Item(p, k, y, x).planner = p /\ Item(p, k, y, x).kind = k /\ Item(p, k, y, x).year = y
         /\ Item(p, k, y, x).excluded = x
BY DEF Item

Grown(I, J, N, p, k, n, whats) ==
  /\ DOMAIN J = DOMAIN I \cup (N..(N + n - 1)) /\ \A i \in DOMAIN I : J[i] = I[i]
  /\ \A m \in 1..n : J[N + m - 1] = Item(p, k, whats[m].year, whats[m].excluded)

LEMMA MoreItems ==
  ASSUME PlannerRowsFit, NEW p, NEW k, NEW n \in Nat, n = 0 \/ p \in DOMAIN planner,
         NEW whats, Len(whats) = n,
         InsertItems(p, k, whats), UNCHANGED <<planner, used, takenItems>>
  PROVE  PlannerRowsFit' /\ Grown(item, item', nextItem, p, k, n, whats)
<1> DEFINE N == nextItem
           D == DOMAIN item
           New == N..(N + n - 1)
           F(i) == Item(p, k, whats[i - N + 1].year, whats[i - N + 1].excluded)
<1>1. N \in Nat /\ N >= 1 /\ \A i \in D : i \in Nat /\ i < N /\ i >= 1
  BY DEF PlannerRowsFit
<1>2. item' = [i \in D \cup New |-> IF i < N THEN item[i] ELSE F(i)]
  BY Zenon DEF InsertItems
<1>3. nextItem' = N + n
  BY DEF InsertItems
<1>4. \A i \in New : i \in Int /\ i >= N /\ ~(i < N) /\ i <= N + n - 1
  BY <1>1
<1>5. \A m \in 1..n : N + m - 1 \in New /\ (N + m - 1) - N + 1 = m
  BY <1>1
<1> HIDE DEF N, D, New, F
<1>6. DOMAIN item' = D \cup New /\ (\A i \in D : item'[i] = item[i]) /\ \A i \in New : item'[i] = F(i)
  BY <1>1, <1>2, <1>4
<1>7. \A m \in 1..n : item'[N + m - 1] = Item(p, k, whats[m].year, whats[m].excluded)
  <2> SUFFICES ASSUME NEW m \in 1..n
               PROVE  item'[N + m - 1] = Item(p, k, whats[m].year, whats[m].excluded)
    OBVIOUS
  <2> DEFINE i == N + m - 1
  <2>1. i \in New /\ i - N + 1 = m
    BY <1>5
  <2> HIDE DEF i
  <2>2. item'[i] = F(i)
    BY <1>6, <2>1
  <2>3. F(i) = Item(p, k, whats[m].year, whats[m].excluded)
    BY <2>1 DEF F
  <2> QED
    BY <2>2, <2>3 DEF i
<1>8. PlannerRowsFit'
  <2>1. /\ planner = [q \in DOMAIN planner |-> planner[q]] /\ DOMAIN planner \subseteq used
        /\ used \subseteq PlannerIds /\ takenItems \subseteq (DOMAIN planner) \X DOMAIN Attended
        /\ \A q \in DOMAIN planner :
             /\ planner[q] = Row(planner[q].order, planner[q].span, planner[q].tracks)
             /\ planner[q].order \in Int /\ planner[q].order >= Floor
             /\ planner[q].span \in Spans /\ planner[q].tracks \subseteq Tracks
    BY DEF PlannerRowsFit
  <2>2. nextItem' \in Nat \ {0} /\ DOMAIN item' \subseteq 1..(nextItem' - 1)
    <3>1. \A i \in D \cup New : i \in 1..((N + n) - 1)
      BY <1>1, <1>4
    <3> QED
      BY <1>1, <1>3, <1>6, <3>1
  <2>3. \A i \in D : item[i] = Item(item[i].planner, item[i].kind, item[i].year, item[i].excluded)
                     /\ item[i].planner \in DOMAIN planner
    BY DEF PlannerRowsFit, D
  <2>4. \A i \in New : F(i) = Item(F(i).planner, F(i).kind, F(i).year, F(i).excluded)
                       /\ F(i).planner \in DOMAIN planner
    <3>1. New # {} => p \in DOMAIN planner
      BY <1>1 DEF New
    <3> QED
      BY <3>1, ItemRow DEF F
  <2>5. \A i \in DOMAIN item' : item'[i] = Item(item'[i].planner, item'[i].kind, item'[i].year, item'[i].excluded)
                                /\ item'[i].planner \in DOMAIN planner
    BY <1>6, <2>3, <2>4
  <2> QED
    BY <2>1, <2>2, <2>5 DEF PlannerRowsFit
<1> QED
  BY <1>6, <1>7, <1>8 DEF N, D, New, Grown

LEMMA InsertItemFits ==
  ASSUME PlannersInv, NEW r \in Reqs, InsertItem(r)
  PROVE  PlannersInv'
<1> DEFINE a == req[r]
           whats == <<[year |-> a.year, excluded |-> FALSE]>>
<1>1. a.pc = "insert item" /\ UNCHANGED <<planner, used, takenItems, history>>
  BY Zenon DEF InsertItem
<1>2. Open(r) /\ ReqTyped(a) /\ DOMAIN a = DOMAIN NoRequest
  BY <1>1, AtStep
<1>3. ~Gap(a)
  BY <1>1 DEF Gap
<1>4. CASE a.id \in DOMAIN planner
  <2>1. InsertItems(a.id, a.kind, whats) /\ Finish(r, "done")
    BY <1>4 DEF InsertItem
  <2>2. Len(whats) = 1
    OBVIOUS
  <2> HIDE DEF whats
  <2>3. PlannerRowsFit'
    BY <1>1, <1>4, <2>1, <2>2, MoreItems DEF PlannersInv
  <2>4. overlapped' = overlapped /\ displaced' = displaced /\ displaced \subseteq Planning
    BY <1>1 DEF history, PlannersInv, LoneFit
  <2>5. \A q \in Reqs : DOMAIN req[q].written \subseteq DOMAIN planner'
    BY <1>1 DEF PlannersInv, RequestsFit
  <2>6. ~overlapped => AllFilled(displaced, planner')
    BY <1>1, <1>2, <1>3, Alone
  <2> QED
    BY <1>2, <2>1, <2>3, <2>4, <2>5, <2>6, OneEnds
<1>5. CASE a.id \notin DOMAIN planner
  <2>1. Finish(r, "failed") /\ UNCHANGED <<planner, used, contents, history>>
    BY <1>1, <1>5 DEF InsertItem, contents
  <2> QED
    BY <1>2, <1>3, <2>1, OneFails
<1> QED
  BY <1>4, <1>5

LEMMA UpdateItemFits ==
  ASSUME PlannersInv, NEW r \in Reqs, UpdateItem(r)
  PROVE  PlannersInv'
<1> DEFINE a == req[r]
           i == a.item
<1>1. a.pc = "update item" /\ UNCHANGED <<planner, used, takenItems, nextItem, history>>
  BY Zenon DEF UpdateItem
<1>2. Open(r) /\ ReqTyped(a) /\ DOMAIN a = DOMAIN NoRequest
  BY <1>1, AtStep
<1>3. ~Gap(a)
  BY <1>1 DEF Gap
<1>4. CASE i \in DOMAIN item
  <2>1. item' = [item EXCEPT ![i].excluded = a.excluded] /\ Finish(r, "done")
    BY <1>4 DEF UpdateItem
  <2>2. DOMAIN item' = DOMAIN item /\ \A j \in DOMAIN item \ {i} : item'[j] = item[j]
    BY <2>1
  <2>3. item[i] = Item(item[i].planner, item[i].kind, item[i].year, item[i].excluded)
    BY <1>4 DEF PlannersInv, PlannerRowsFit
  <2>4. item'[i] = Item(item[i].planner, item[i].kind, item[i].year, a.excluded)
    BY <1>4, <2>1, <2>3 DEF Item
  <2>5. PlannerRowsFit'
    <3>1. \A j \in DOMAIN item' :
            /\ item'[j] = Item(item'[j].planner, item'[j].kind, item'[j].year, item'[j].excluded)
            /\ item'[j].planner \in DOMAIN planner
      BY <1>4, <2>2, <2>4, ItemRow DEF PlannersInv, PlannerRowsFit
    <3> QED
      BY <1>1, <2>2, <3>1 DEF PlannersInv, PlannerRowsFit
  <2>6. overlapped' = overlapped /\ displaced' = displaced /\ displaced \subseteq Planning
    BY <1>1 DEF history, PlannersInv, LoneFit
  <2>7. \A q \in Reqs : DOMAIN req[q].written \subseteq DOMAIN planner'
    BY <1>1 DEF PlannersInv, RequestsFit
  <2>8. ~overlapped => AllFilled(displaced, planner')
    BY <1>1, <1>2, <1>3, Alone
  <2> QED
    BY <1>2, <2>1, <2>5, <2>6, <2>7, <2>8, OneEnds
<1>5. CASE i \notin DOMAIN item
  <2>1. Finish(r, "failed") /\ UNCHANGED <<planner, used, contents, history>>
    BY <1>1, <1>5 DEF UpdateItem, contents
  <2> QED
    BY <1>2, <1>3, <2>1, OneFails
<1> QED
  BY <1>4, <1>5

LEMMA DeleteItemFits ==
  ASSUME PlannersInv, NEW r \in Reqs, DeleteItem(r)
  PROVE  PlannersInv'
<1> DEFINE a == req[r]
           i == a.item
           S == DOMAIN item \ {i}
<1>1. a.pc = "delete item" /\ UNCHANGED <<planner, used, takenItems, nextItem, history>>
  BY Zenon DEF DeleteItem
<1>2. Open(r) /\ ReqTyped(a) /\ DOMAIN a = DOMAIN NoRequest
  BY <1>1, AtStep
<1>3. a.op = "remove" /\ ~Gap(a) /\ DOMAIN a.written = {} /\ "final" \in PcsOf(a.op)
  BY <1>1, <1>2 DEF Gap, ReqTyped, PcsOf
<1>4. CASE i \in DOMAIN item
  <2> DEFINE next == "final"
  <2>1. item' = Restrict(item, S) /\ Goto(r, next)
    BY <1>4 DEF DeleteItem
  <2>2. next \in PcsOf(a.op)
    BY <1>3
  <2>3. S \subseteq DOMAIN item /\ i \notin S
    OBVIOUS
  <2> HIDE DEF S, next
  <2>4. PlannerRowsFit' /\ DOMAIN item' = S
    BY <1>1, <2>1, <2>3, FewerItems DEF PlannersInv
  <2>5. \A b : b = [a EXCEPT !.pc = next] => b.op = a.op /\ b.item = i
    BY <1>2, Moved
  <2>6. \A b : b = [a EXCEPT !.pc = next] => Knows(b, planner', takenItems', item')
    BY <1>3, <2>3, <2>4, <2>5, KnowsOfItems
  <2> QED
    BY <1>1, <1>2, <1>3, <2>1, <2>2, <2>4, <2>6, OneMovesOn
<1>5. CASE i \notin DOMAIN item
  <2>1. Finish(r, "failed") /\ UNCHANGED <<planner, used, contents, history>>
    BY <1>1, <1>5 DEF DeleteItem, contents
  <2> QED
    BY <1>2, <1>3, <2>1, OneFails
<1> QED
  BY <1>4, <1>5

-----------------------------------------------------------------------------
\* The update of a planner.
LEMMA PurgeItemsFits ==
  ASSUME PlannersInv, NEW r \in Reqs, NEW k, NEW at, at = "purge future" \/ at = "purge arbitrary",
         NEW next, next = "purge arbitrary" \/ next = "purge taken", PurgeItems(r, at, k, next)
  PROVE  PlannersInv'
<1> DEFINE a == req[r]
           S == {i \in DOMAIN item :
                   ~(item[i].planner = a.id /\ item[i].kind = k /\ Outdated(item[i].year, a.span))}
<1>1. a.pc = at /\ UNCHANGED <<planner, used, takenItems, nextItem, history>>
      /\ item' = Restrict(item, S) /\ Goto(r, next)
  BY Zenon DEF PurgeItems
<1>2. Open(r) /\ ReqTyped(a) /\ DOMAIN a = DOMAIN NoRequest
  BY <1>1, AtStep
<1>3. a.op = "update" /\ DOMAIN a.written = {} /\ next \in PcsOf(a.op)
  BY <1>1, <1>2 DEF ReqTyped, PcsOf
<1>4. S \subseteq DOMAIN item
  OBVIOUS
<1> HIDE DEF S
<1>5. PlannerRowsFit'
  BY <1>1, <1>4, FewerItems DEF PlannersInv
<1>6. ASSUME NEW b, b = [a EXCEPT !.pc = next]
      PROVE  b.op = a.op /\ b.pc = next /\ b.user = a.user /\ b.id = a.id /\ b.span = a.span /\ b.imports = a.imports
  BY <1>2, <1>6, Fields
<1>7. \A b : b = [a EXCEPT !.pc = next] /\ ~overlapped => Knows(b, planner', takenItems', item')
  <2> SUFFICES ASSUME NEW b, b = [a EXCEPT !.pc = next], ~overlapped
               PROVE  Knows(b, planner', takenItems', item')
    OBVIOUS
  <2>1. b.op = "update" /\ b.pc = next /\ b.user = a.user /\ b.id = a.id /\ b.span = a.span /\ b.imports = a.imports
    BY <1>3, <1>6
  <2>2. KnowsUpdate(a, planner, takenItems)
    BY <1>2, <1>3, Alone DEF Knows
  <2> QED
    BY <1>1, <2>1, <2>2 DEF Knows, KnowsUpdate
<1> QED
  BY <1>1, <1>2, <1>3, <1>5, <1>7, OneMovesOn

LEMMA PurgeTakenFits ==
  ASSUME PlannersInv, NEW r \in Reqs, PurgeTaken(r)
  PROVE  PlannersInv'
<1> DEFINE a == req[r]
           next == "tracks"
<1>1. a.pc = "purge taken" /\ UNCHANGED <<planner, used, item, nextItem, history>>
      /\ takenItems' = {t \in takenItems : ~(t[1] = a.id /\ Outdated(Attended[t[2]], a.span))}
      /\ Goto(r, next)
  BY Zenon DEF PurgeTaken
<1>2. Open(r) /\ ReqTyped(a) /\ DOMAIN a = DOMAIN NoRequest
  BY <1>1, AtStep
<1>3. a.op = "update" /\ DOMAIN a.written = {} /\ next \in PcsOf(a.op) /\ a.span \in Spans
  BY <1>1, <1>2 DEF ReqTyped, PcsOf
<1>4. next = "tracks"
  OBVIOUS
<1> HIDE DEF next
<1>5. PlannerRowsFit'
  BY <1>1 DEF PlannersInv, PlannerRowsFit
<1>6. \A b : b = [a EXCEPT !.pc = next] =>
        b.op = a.op /\ b.pc = next /\ b.user = a.user /\ b.id = a.id /\ b.span = a.span /\ b.imports = a.imports
  BY <1>2, Moved
<1>7. \A b : b = [a EXCEPT !.pc = next] /\ ~overlapped => Knows(b, planner', takenItems', item')
  <2> SUFFICES ASSUME NEW b, b = [a EXCEPT !.pc = next], ~overlapped
               PROVE  Knows(b, planner', takenItems', item')
    OBVIOUS
  <2>1. b.op = "update" /\ b.pc = next /\ b.user = a.user /\ b.id = a.id /\ b.span = a.span /\ b.imports = a.imports
    BY <1>3, <1>6
  <2>2. KnowsUpdate(a, planner, takenItems)
    BY <1>2, <1>3, Alone DEF Knows
  <2>3. a.id \in DOMAIN planner /\ a.imports /\ TakenBetween(a.user, a.span) \subseteq LecturesIn(takenItems, a.id)
    BY <1>1, <2>2 DEF KnowsUpdate
  <2>4. ASSUME a.span.start # a.span.end
        PROVE  TakenBetween(a.user, a.span) \subseteq LecturesIn(takenItems', a.id)
    <3>1. a.span.start \in Int /\ a.span.end \in Int /\ \A l \in DOMAIN Attended : Attended[l] \in Int
      BY <1>3, PlannersAssumption
    <3>2. CASE a.span.start < a.span.end
      <4>1. \A l \in DOMAIN Attended : ~Outdated(Attended[l], a.span)
        BY <3>1, <3>2 DEF Outdated
      <4> QED
        BY <1>1, <2>3, <4>1 DEF LecturesIn
    <3>3. CASE a.span.end < a.span.start
      <4>1. TakenBetween(a.user, a.span) \cap DOMAIN Attended = {}
        BY <3>1, <3>3 DEF TakenBetween
      <4> QED
        BY <2>3, <4>1 DEF LecturesIn
    <3> QED
      BY <2>4, <3>1, <3>2, <3>3
  <2> QED
    BY <1>1, <1>4, <2>1, <2>3, <2>4 DEF Knows, KnowsUpdate
<1> QED
  BY <1>1, <1>2, <1>3, <1>5, <1>7, OneMovesOn

\* The positions of a user are those of the user's rows.
LEMMA OrdersAre ==
  ASSUME NEW u, NEW d
  PROVE  /\ DOMAIN OrdersOf(u, d) = OwnedIn(d, u)
         /\ \A p \in OwnedIn(d, u) : OrdersOf(u, d)[p] = d[p].order
BY DEF OrdersOf, OwnedIn

LEMMA SameOrders ==
  ASSUME NEW u, NEW d, NEW e, OwnedIn(e, u) = OwnedIn(d, u),
         \A p \in OwnedIn(d, u) : e[p].order = d[p].order
  PROVE  OrdersOf(u, e) = OrdersOf(u, d)
<1>1. OrdersOf(u, e) = [p \in OwnedIn(e, u) |-> e[p].order] /\ OrdersOf(u, d) = [p \in OwnedIn(d, u) |-> d[p].order]
  BY DEF OrdersOf, OwnedIn
<1> QED
  BY <1>1

\* A new span or new tracks of a planner.
LEMMA RowChanged ==
  ASSUME PlannerRowsFit, NEW p \in DOMAIN planner, NEW s \in Spans, NEW t, t \subseteq Tracks,
         planner' = [planner EXCEPT ![p] = Row(planner[p].order, s, t)],
         UNCHANGED <<used, contents>>
  PROVE  /\ PlannerRowsFit' /\ DOMAIN planner' = DOMAIN planner
        /\ \A u : OrdersOf(u, planner') = OrdersOf(u, planner)
         /\ planner'[p].order = planner[p].order /\ planner'[p].span = s /\ planner'[p].tracks = t
         /\ \A q \in DOMAIN planner \ {p} : planner'[q] = planner[q]
<1>1. /\ DOMAIN planner' = DOMAIN planner /\ planner'[p] = Row(planner[p].order, s, t)
      /\ \A q \in DOMAIN planner \ {p} : planner'[q] = planner[q]
      /\ planner' = [q \in DOMAIN planner |-> planner'[q]]
  OBVIOUS
<1>2. planner'[p].order = planner[p].order /\ planner'[p].span = s /\ planner'[p].tracks = t
  BY <1>1 DEF Row
<1>3. \A q \in DOMAIN planner : planner'[q].order = planner[q].order
  BY <1>1, <1>2
<1>4. \A u : OrdersOf(u, planner') = OrdersOf(u, planner)
  BY <1>1, <1>3, SameOrders DEF OwnedIn
<1>5. PlannerRowsFit'
  <2>1. \A q \in DOMAIN planner' :
          /\ planner'[q] = Row(planner'[q].order, planner'[q].span, planner'[q].tracks)
          /\ planner'[q].order \in Int /\ planner'[q].order >= Floor
          /\ planner'[q].span \in Spans /\ planner'[q].tracks \subseteq Tracks
    BY <1>1, <1>2 DEF PlannerRowsFit
  <2> QED
    BY <1>1, <2>1 DEF PlannerRowsFit, contents
<1> QED
  BY <1>1, <1>2, <1>4, <1>5

LEMMA DisconnectFits ==
  ASSUME PlannersInv, NEW r \in Reqs, Disconnect(r)
  PROVE  PlannersInv'
<1> DEFINE a == req[r]
           p == a.id
           t == planner[p].tracks \ (a.had \ a.tracks)
           next == "connect"
<1>1. /\ a.pc = "disconnect" /\ UNCHANGED <<used, contents, history>> /\ Goto(r, next)
      /\ planner' = IF p \in DOMAIN planner THEN WithTracks(p, t) ELSE planner
  BY Zenon DEF Disconnect
<1>2. Open(r) /\ ReqTyped(a) /\ DOMAIN a = DOMAIN NoRequest
  BY <1>1, AtStep
<1>3. a.op = "update" /\ DOMAIN a.written = {} /\ next \in PcsOf(a.op)
  BY <1>1, <1>2 DEF ReqTyped, PcsOf
<1>4. next = "connect"
  OBVIOUS
<1> HIDE DEF next
<1>5. \A b : b = [a EXCEPT !.pc = next] =>
        /\ b.op = a.op /\ b.pc = next /\ b.user = a.user /\ b.id = a.id /\ b.span = a.span /\ b.imports = a.imports
        /\ b.had = a.had /\ b.tracks = a.tracks
  BY <1>2, Moved
<1>6. CASE p \in DOMAIN planner
  <2>1. planner' = [planner EXCEPT ![p] = Row(planner[p].order, planner[p].span, t)]
    BY <1>1, <1>6 DEF WithTracks
  <2>2. planner[p].span \in Spans /\ t \subseteq Tracks /\ PlannerRowsFit
    BY <1>6 DEF PlannersInv, PlannerRowsFit
  <2> HIDE DEF t
  <2>3. /\ PlannerRowsFit' /\ DOMAIN planner' = DOMAIN planner
        /\ \A u : OrdersOf(u, planner') = OrdersOf(u, planner)
        /\ planner'[p].tracks = t
    <3> DEFINE s == planner[p].span
    <3>1. /\ p \in DOMAIN planner /\ s \in Spans /\ t \subseteq Tracks /\ PlannerRowsFit
          /\ planner' = [planner EXCEPT ![p] = Row(planner[p].order, s, t)]
          /\ UNCHANGED <<used, contents>>
      BY <1>1, <1>6, <2>1, <2>2
    <3> HIDE DEF p, s
    <3> QED
      BY ZenonT(60), <3>1, RowChanged
  <2>4. \A b : b = [a EXCEPT !.pc = next] /\ ~overlapped => Knows(b, planner', takenItems', item')
    <3> SUFFICES ASSUME NEW b, b = [a EXCEPT !.pc = next], ~overlapped
                 PROVE  Knows(b, planner', takenItems', item')
      OBVIOUS
    <3>1. /\ b.op = "update" /\ b.pc = next /\ b.user = a.user /\ b.id = p /\ b.span = a.span /\ b.imports = a.imports
          /\ b.had = a.had /\ b.tracks = a.tracks
      BY <1>3, <1>5
    <3>2. KnowsUpdate(a, planner, takenItems)
      BY <1>2, <1>3, Alone DEF Knows
    <3>3. t = a.had \cap a.tracks
      BY <1>1, <3>2 DEF KnowsUpdate, t
    <3>4. takenItems' = takenItems
      BY <1>1 DEF contents
    <3> QED
      BY <1>1, <1>4, <1>6, <2>3, <3>1, <3>2, <3>3, <3>4 DEF Knows, KnowsUpdate
  <2> QED
    BY <1>1, <1>2, <1>3, <2>3, <2>4, OneMovesOn
<1>7. CASE p \notin DOMAIN planner
  <2>1. planner' = planner
    BY <1>1, <1>7
  <2>2. PlannerRowsFit'
    BY <1>1, <2>1, RowsStay DEF PlannersInv
  <2>3. overlapped
    BY <1>2, <1>3, <1>7, Alone DEF Knows, KnowsUpdate
  <2> QED
    BY <1>1, <1>2, <1>3, <2>1, <2>2, <2>3, OneMovesOn
<1> QED
  BY <1>6, <1>7

LEMMA ConnectFits ==
  ASSUME PlannersInv, NEW r \in Reqs, Connect(r)
  PROVE  PlannersInv'
<1> DEFINE a == req[r]
           p == a.id
           new == a.tracks \ a.had
           t == planner[p].tracks \cup new
           next == "row"
<1>1. a.pc = "connect" /\ UNCHANGED <<used, contents, history>>
  BY Zenon DEF Connect
<1>2. Open(r) /\ ReqTyped(a) /\ DOMAIN a = DOMAIN NoRequest
  BY <1>1, AtStep
<1>3. a.op = "update" /\ DOMAIN a.written = {} /\ next \in PcsOf(a.op) /\ a.tracks \subseteq Tracks /\ ~Gap(a)
  BY <1>1, <1>2 DEF ReqTyped, PcsOf, Gap
<1>4. next = "row"
  OBVIOUS
<1>5. \/ Goto(r, next) /\ new = {} /\ planner' = planner
      \/ Goto(r, next) /\ new # {} /\ p \in DOMAIN planner /\ planner' = WithTracks(p, t)
      \/ Finish(r, "failed") /\ planner' = planner
  BY DEF Connect
<1> HIDE DEF next
<1>6. \A b : b = [a EXCEPT !.pc = next] =>
        /\ b.op = a.op /\ b.pc = next /\ b.user = a.user /\ b.id = a.id /\ b.span = a.span /\ b.imports = a.imports
        /\ b.had = a.had /\ b.tracks = a.tracks
  BY <1>2, Moved
<1>7. ASSUME NEW b, b = [a EXCEPT !.pc = next], ~overlapped, p \in DOMAIN planner',
             planner'[p].tracks = planner[p].tracks \cup new
      PROVE  Knows(b, planner', takenItems', item')
  <2>1. /\ b.op = "update" /\ b.pc = next /\ b.user = a.user /\ b.id = p /\ b.span = a.span /\ b.imports = a.imports
        /\ b.had = a.had /\ b.tracks = a.tracks
    BY <1>3, <1>6, <1>7
  <2>2. KnowsUpdate(a, planner, takenItems)
    BY <1>2, <1>3, <1>7, Alone DEF Knows
  <2>3. planner[p].tracks = a.had \cap a.tracks
    BY <1>1, <2>2 DEF KnowsUpdate
  <2>4. planner'[p].tracks = a.tracks
    BY <1>7, <2>3
  <2>5. takenItems' = takenItems
    BY <1>1 DEF contents
  <2> HIDE DEF new, p
  <2> QED
    BY <1>1, <1>4, <1>7, <2>1, <2>2, <2>4, <2>5 DEF Knows, KnowsUpdate, p
<1>8. CASE Goto(r, next) /\ new = {} /\ planner' = planner
  <2>1. PlannerRowsFit'
    BY <1>1, <1>8, RowsStay DEF PlannersInv
  <2>2. ~overlapped => p \in DOMAIN planner
    BY <1>2, <1>3, Alone DEF Knows, KnowsUpdate
  <2>3. \A b : b = [a EXCEPT !.pc = next] /\ ~overlapped => Knows(b, planner', takenItems', item')
    BY <1>7, <1>8, <2>2
  <2> QED
    BY <1>1, <1>2, <1>3, <1>8, <2>1, <2>3, OneMovesOn
<1>9. CASE Goto(r, next) /\ new # {} /\ p \in DOMAIN planner /\ planner' = WithTracks(p, t)
  <2>1. planner' = [planner EXCEPT ![p] = Row(planner[p].order, planner[p].span, t)]
    BY <1>9 DEF WithTracks
  <2>2. planner[p].span \in Spans /\ t \subseteq Tracks /\ PlannerRowsFit
    BY <1>3, <1>9 DEF PlannersInv, PlannerRowsFit
  <2> HIDE DEF t
  <2>9. p \in DOMAIN planner /\ UNCHANGED <<used, contents>>
    BY <1>1, <1>9
  <2>3. /\ PlannerRowsFit' /\ DOMAIN planner' = DOMAIN planner
        /\ \A u : OrdersOf(u, planner') = OrdersOf(u, planner)
        /\ planner'[p].tracks = t
    <3> DEFINE s == planner[p].span
    <3>1. /\ p \in DOMAIN planner /\ s \in Spans /\ t \subseteq Tracks /\ PlannerRowsFit
          /\ planner' = [planner EXCEPT ![p] = Row(planner[p].order, s, t)]
          /\ UNCHANGED <<used, contents>>
      BY <2>1, <2>2, <2>9
    <3> HIDE DEF p, s
    <3> QED
      BY ZenonT(60), <3>1, RowChanged
  <2>4. \A b : b = [a EXCEPT !.pc = next] /\ ~overlapped => Knows(b, planner', takenItems', item')
    BY <1>7, <1>9, <2>3 DEF t
  <2> QED
    BY <1>1, <1>2, <1>3, <1>9, <2>3, <2>4, OneMovesOn
<1>10. CASE Finish(r, "failed") /\ planner' = planner
  BY <1>1, <1>2, <1>3, <1>10, OneFails
<1> QED
  BY <1>5, <1>8, <1>9, <1>10

LEMMA UpdateRowFits ==
  ASSUME PlannersInv, NEW r \in Reqs, UpdateRow(r)
  PROVE  PlannersInv'
<1> DEFINE a == req[r]
           p == a.id
<1>1. a.pc = "row" /\ UNCHANGED <<used, contents, history>>
  BY Zenon DEF UpdateRow
<1>2. Open(r) /\ ReqTyped(a) /\ DOMAIN a = DOMAIN NoRequest
  BY <1>1, AtStep
<1>3. a.op = "update" /\ ~Gap(a) /\ a.span \in Spans
  BY <1>1, <1>2 DEF ReqTyped, PcsOf, Gap
<1>4. CASE p \in DOMAIN planner
  <2>1. planner' = [planner EXCEPT ![p] = Row(planner[p].order, a.span, planner[p].tracks)]
        /\ Finish(r, "done")
    BY <1>4 DEF UpdateRow
  <2>2. planner[p].tracks \subseteq Tracks /\ PlannerRowsFit
    BY <1>4 DEF PlannersInv, PlannerRowsFit
  <2>3. PlannerRowsFit' /\ DOMAIN planner' = DOMAIN planner
        /\ \A u : OrdersOf(u, planner') = OrdersOf(u, planner)
    <3> DEFINE s == a.span
               t == planner[p].tracks
    <3>1. /\ p \in DOMAIN planner /\ s \in Spans /\ t \subseteq Tracks /\ PlannerRowsFit
          /\ planner' = [planner EXCEPT ![p] = Row(planner[p].order, s, t)]
          /\ UNCHANGED <<used, contents>>
      BY <1>1, <1>3, <1>4, <2>1, <2>2
    <3> HIDE DEF p, s, t
    <3> QED
      BY ZenonT(60), <3>1, RowChanged
  <2>4. overlapped' = overlapped /\ displaced' = displaced /\ displaced \subseteq Planning
    BY <1>1 DEF history, PlannersInv, LoneFit
  <2>5. \A q \in Reqs : DOMAIN req[q].written \subseteq DOMAIN planner'
    BY <2>3 DEF PlannersInv, RequestsFit
  <2>6. ~overlapped => AllFilled(displaced, planner')
    BY <1>2, <1>3, <2>3, Alone DEF AllFilled
  <2> QED
    BY <1>2, <2>1, <2>3, <2>4, <2>5, <2>6, OneEnds
<1>5. CASE p \notin DOMAIN planner
  <2>1. Finish(r, "failed") /\ UNCHANGED <<planner, used, contents, history>>
    BY <1>1, <1>5 DEF UpdateRow
  <2> QED
    BY <1>2, <1>3, <2>1, OneFails
<1> QED
  BY <1>4, <1>5

-----------------------------------------------------------------------------
\* The creation of a planner.
LEMMA MoreTaken ==
  ASSUME PlannerRowsFit, NEW p, NEW lectures, lectures \subseteq DOMAIN Attended,
         lectures = {} \/ p \in DOMAIN planner, takenItems' = takenItems \cup ({p} \X lectures),
         UNCHANGED <<planner, used, item, nextItem>>
  PROVE  /\ PlannerRowsFit' /\ LecturesIn(takenItems', p) = LecturesIn(takenItems, p) \cup lectures
<1>1. takenItems' \subseteq (DOMAIN planner) \X DOMAIN Attended
  BY DEF PlannerRowsFit
<1>2. PlannerRowsFit'
  BY <1>1 DEF PlannerRowsFit
<1>3. LecturesIn(takenItems', p) = LecturesIn(takenItems, p) \cup lectures
  BY DEF LecturesIn
<1> QED
  BY <1>2, <1>3

LEMMA ImportFits ==
  ASSUME PlannersInv, NEW r \in Reqs, Import(r)
  PROVE  PlannersInv'
<1> DEFINE a == req[r]
           p == a.id
           next == IF a.op = "create" THEN "copy" ELSE "purge future"
<1>1. a.pc = "import" /\ UNCHANGED <<planner, used, item, nextItem, history>>
  BY Zenon DEF Import
<1>2. Open(r) /\ ReqTyped(a) /\ DOMAIN a = DOMAIN NoRequest
  BY <1>1, AtStep
<1>3. /\ a.op \in {"create", "update"} /\ DOMAIN a.written = {} /\ next \in PcsOf(a.op) /\ ~Gap(a)
      /\ a.need \subseteq DOMAIN Attended
      /\ a.op = "create" => next = "copy"
      /\ a.op = "update" => next = "purge future"
  BY <1>1, <1>2 DEF ReqTyped, PcsOf, Gap
<1>4. \/ Insertable(p, a.need) /\ takenItems' = takenItems \cup ({p} \X a.need) /\ Goto(r, next)
      \/ Finish(r, "failed") /\ UNCHANGED takenItems
  BY Zenon DEF Import
<1> HIDE DEF next
<1>5. CASE Insertable(p, a.need) /\ takenItems' = takenItems \cup ({p} \X a.need) /\ Goto(r, next)
  <2>1. a.need = {} \/ p \in DOMAIN planner
    BY <1>5 DEF Insertable
  <2>2. PlannerRowsFit' /\ LecturesIn(takenItems', p) = LecturesIn(takenItems, p) \cup a.need
    BY <1>1, <1>3, <1>5, <2>1, MoreTaken DEF PlannersInv
  <2>3. \A b : b = [a EXCEPT !.pc = next] /\ ~overlapped => Knows(b, planner', takenItems', item')
    <3> SUFFICES ASSUME NEW b, b = [a EXCEPT !.pc = next], ~overlapped
                 PROVE  Knows(b, planner', takenItems', item')
      OBVIOUS
    <3>1. /\ b.op = a.op /\ b.pc = next /\ b.user = a.user /\ b.id = p /\ b.span = a.span /\ b.imports = a.imports
          /\ b.tracks = a.tracks /\ b.todo = a.todo /\ b.copied = a.copied
      BY <1>2, Moved
    <3>2. Knows(a, planner, takenItems, item)
      BY <1>2, Alone
    <3>3. CASE a.op = "update"
      BY <1>1, <1>3, <2>2, <3>1, <3>2, <3>3 DEF Knows, KnowsUpdate
    <3>4. CASE a.op = "create"
      <4>1. /\ p \in DOMAIN planner /\ planner[p].span = a.span /\ planner[p].tracks = a.tracks
            /\ a.imports /\ a.need = TakenBetween(a.user, a.span) /\ LecturesIn(takenItems, p) = {}
            /\ a.todo = Copies /\ \A i \in DOMAIN item : item[i].planner # p
        BY <1>1, <3>2, <3>4 DEF Knows, KnowsCreate
      <4>2. Copied(b, takenItems', item')
        <5>1. Imported(b) = a.need
          BY <3>1, <4>1 DEF Imported
        <5>2. LecturesIn(takenItems', b.id) = Imported(b)
          BY <2>2, <3>1, <4>1, <5>1
        <5>3. "taken" \in b.todo /\ Kinds \subseteq b.todo /\ Copies \ b.todo = {}
          BY <3>1, <4>1 DEF Copies
        <5>4. \A i \in DOMAIN item' : item'[i].planner # b.id
          BY <1>1, <3>1, <4>1
        <5> QED
          BY <5>2, <5>3, <5>4 DEF Copied
      <4>3. b.op = "create" /\ b.pc = "copy"
        BY <1>3, <3>1, <3>4
      <4> QED
        BY <1>1, <3>1, <4>1, <4>2, <4>3 DEF Knows, KnowsCreate
    <3> QED
      BY <1>3, <3>3, <3>4
  <2> QED
    BY <1>1, <1>2, <1>3, <1>5, <2>2, <2>3, OneMovesOn
<1>6. CASE Finish(r, "failed") /\ UNCHANGED takenItems
  <2>1. UNCHANGED contents
    BY <1>1, <1>6 DEF contents
  <2> QED
    BY <1>1, <1>2, <1>3, <1>6, <2>1, OneFails
<1> QED
  BY <1>4, <1>5, <1>6

LEMMA ReadCopyFits ==
  ASSUME PlannersInv, NEW r \in Reqs, NEW c \in Copies, ReadCopy(r, c)
  PROVE  PlannersInv'
<1> DEFINE a == req[r]
           pairs == Copyable(c, a.src)
           copied == [k \in DOMAIN a.copied \cup {c} |-> IF k = c THEN pairs ELSE a.copied[k]]
           b == [a EXCEPT !.copied = copied]
<1>1. a.pc = "copy" /\ c \in a.todo /\ c \notin DOMAIN a.copied /\ UNCHANGED <<planner, used, contents, history>>
  BY Zenon DEF ReadCopy
<1>2. Open(r) /\ ReqTyped(a) /\ DOMAIN a = DOMAIN NoRequest
  BY <1>1, AtStep
<1>3. a.op = "create" /\ ~Gap(a) /\ DOMAIN a.written = {}
  BY <1>1, <1>2 DEF ReqTyped, PcsOf, Gap
<1>4. req' = [req EXCEPT ![r] = b]
  BY DEF ReadCopy
<1>5. CopiedFit(c, pairs)
  <2>1. PlannerRowsFit
    BY DEF PlannersInv
  <2>2. CASE c = "taken"
    BY <2>1, <2>2 DEF PlannerRowsFit, CopiedFit, Copyable
  <2>3. CASE c # "taken"
    <3> DEFINE S == {j \in DOMAIN item : item[j].kind = c /\ item[j].planner \in a.src}
               what(i) == [year |-> item[i].year, excluded |-> item[i].excluded]
               f == [i \in S |-> <<i, what(i)>>]
    <3>1. pairs = {<<i, what(i)>> : i \in S}
      BY <2>3 DEF Copyable
    <3>2. IsFiniteSet(S)
      <4>1. S \subseteq 1..(nextItem - 1) /\ nextItem - 1 \in Int
        BY <2>1 DEF PlannerRowsFit
      <4> QED
        BY <4>1, FS_Interval, FS_Subset
    <3>3. \A x \in pairs : x[2] = [year |-> x[2].year, excluded |-> x[2].excluded]
      BY <3>1
    <3>4. IsFiniteSet(pairs)
      <4>1. f \in Surjection(S, pairs)
        BY <3>1 DEF Surjection
      <4> HIDE DEF f, S, pairs
      <4> QED
        BY <3>2, <4>1, FS_Surjection
    <3> HIDE DEF pairs
    <3> QED
      BY <2>3, <3>3, <3>4 DEF CopiedFit
  <2> QED
    BY <2>2, <2>3
<1> HIDE DEF pairs
<1>6. /\ DOMAIN copied = DOMAIN a.copied \cup {c} /\ copied[c] = pairs
      /\ \A k \in DOMAIN a.copied : copied[k] = a.copied[k]
  BY <1>1
<1> HIDE DEF copied
<1>7. /\ DOMAIN b = DOMAIN NoRequest /\ b.copied = copied
      /\ \A f \in DOMAIN NoRequest \ {"copied"} : b[f] = a[f]
  BY <1>2, Fields
<1> HIDE DEF b
<1>8. /\ b.op = a.op /\ b.pc = a.pc /\ b.user = a.user /\ b.id = a.id /\ b.span = a.span /\ b.tracks = a.tracks
      /\ b.to = a.to /\ b.old = a.old /\ b.gone = a.gone /\ b.seen = a.seen /\ b.todo = a.todo
      /\ b.need = a.need /\ b.written = a.written /\ b.imports = a.imports /\ b.failing = a.failing
  BY <1>7, Fields
<1>9. ReqTyped(b)
  <2>1. DOMAIN b.copied \subseteq Copies /\ \A k \in DOMAIN b.copied : CopiedFit(k, b.copied[k])
    BY <1>2, <1>5, <1>6, <1>7 DEF ReqTyped
  <2> QED
    BY <1>2, <1>7, <1>8, <2>1 DEF ReqTyped
<1>10. ~Gap(b)
  BY <1>3, <1>8 DEF Gap
<1>11. ASSUME ~overlapped PROVE Knows(b, planner, takenItems, item)
  <2>1. KnowsCreate(a, planner, takenItems, item)
    BY <1>2, <1>3, <1>11, Alone DEF Knows
  <2>2. ASSUME ~a.failing PROVE Copied(b, takenItems, item)
    <3>1. Copied(a, takenItems, item)
      BY <1>1, <2>1, <2>2 DEF KnowsCreate
    <3>2. Copies \ a.todo \subseteq DOMAIN a.copied /\ \A k \in Copies \ a.todo : b.copied[k] = a.copied[k]
      BY <1>6, <1>7, <3>1 DEF Copied
    <3>3. Imported(b) = Imported(a)
      BY <1>8 DEF Imported
    <3>4. Copies \ b.todo \subseteq DOMAIN b.copied
      BY <1>6, <1>7, <1>8, <3>2
    <3>5. LecturesIn(takenItems, b.id) = IF "taken" \in b.todo THEN Imported(b)
                                         ELSE Whats(b.copied["taken"]) \cup Imported(b)
      BY <1>8, <3>1, <3>2, <3>3 DEF Copied, Copies
    <3>6. ASSUME NEW k \in Kinds, k \in b.todo
          PROVE  \A i \in DOMAIN item : ~(item[i].planner = b.id /\ item[i].kind = k)
      BY <1>8, <3>1, <3>6 DEF Copied
    <3>7. ASSUME NEW k \in Kinds, k \notin b.todo, NEW y \in Years, NEW e \in BOOLEAN
          PROVE  Cardinality(Likes(item, b.id, k, y, e))
                   = Cardinality({x \in b.copied[k] : x[2] = [year |-> y, excluded |-> e]})
      <4>1. b.copied[k] = a.copied[k]
        BY <1>8, <3>2, <3>7 DEF Copies
      <4>2. Cardinality(Likes(item, a.id, k, y, e))
              = Cardinality({x \in a.copied[k] : x[2] = [year |-> y, excluded |-> e]})
        BY <1>8, <3>1, <3>7 DEF Copied
      <4> QED
        BY <1>8, <4>1, <4>2
    <3> QED
      BY <3>4, <3>5, <3>6, <3>7 DEF Copied
  <2> QED
    BY <1>1, <1>3, <1>8, <2>1, <2>2 DEF Knows, KnowsCreate
<1> QED
  BY <1>1, <1>2, <1>3, <1>4, <1>8, <1>9, <1>10, <1>11, OneReads

LEMMA InsertPlannerFits ==
  ASSUME PlannersInv, NEW r \in Reqs, InsertPlanner(r)
  PROVE  PlannersInv'
<1> DEFINE a == req[r]
           order == NextOrder(a.seen)
           need == TakenBetween(a.user, a.span)
           next == IF a.imports THEN "import" ELSE "copy"
<1>1. a.pc = "insert" /\ UNCHANGED <<contents, history>>
  BY Zenon DEF InsertPlanner
<1>2. Open(r) /\ ReqTyped(a) /\ DOMAIN a = DOMAIN NoRequest
  BY <1>1, AtStep
<1>3. a.op = "create" /\ ~Gap(a) /\ DOMAIN a.written = {} /\ a.span \in Spans /\ a.tracks \subseteq Tracks
      /\ AtFloor(a.seen) /\ DOMAIN a.seen \subseteq PlannerIds
  BY <1>1, <1>2 DEF ReqTyped, PcsOf, Gap
<1>4. PICK p \in {q \in PlannerIds \ used : Owner[q] = a.user} :
        /\ planner' = [q \in DOMAIN planner \cup {p} |->
                         IF q = p THEN Row(order, a.span, a.tracks) ELSE planner[q]]
        /\ used' = used \cup {p}
        /\ req' = [req EXCEPT ![r].id = p, ![r].seen = None, ![r].need = need, ![r].pc = next,
                              ![r].todo = {"taken"} \cup Kinds]
  BY Zenon DEF InsertPlanner
<1> DEFINE b == [a EXCEPT !.id = p, !.seen = None, !.need = need, !.pc = next,
                          !.todo = {"taken"} \cup Kinds]
<1>5. req' = [req EXCEPT ![r] = b]
  BY Zenon, <1>4
<1>6. order \in Int /\ order >= Floor
  BY <1>3, NextOrderIs
<1>7. need \subseteq DOMAIN Attended /\ need = TakenBetween(a.user, a.span)
  BY <1>2, <1>3, TakenAre DEF ReqTyped
<1>8. next \in {"import", "copy"} /\ next \in PcsOf("create") /\ (next = "import" <=> a.imports)
  BY DEF PcsOf
<1>9. p \in PlannerIds /\ p \notin DOMAIN planner /\ DOMAIN planner \subseteq PlannerIds
  BY <1>4 DEF PlannersInv, PlannerRowsFit
<1> HIDE DEF order, need, next
<1>10. /\ DOMAIN planner' = DOMAIN planner \cup {p} /\ planner'[p] = Row(order, a.span, a.tracks)
       /\ \A q \in DOMAIN planner : planner'[q] = planner[q]
       /\ planner' = [q \in DOMAIN planner' |-> planner'[q]]
  BY <1>4, <1>9
<1>11. planner'[p].order = order /\ planner'[p].span = a.span /\ planner'[p].tracks = a.tracks
  BY <1>10 DEF Row
<1>12. PlannerRowsFit'
  <2>1. \A q \in DOMAIN planner' :
          /\ planner'[q] = Row(planner'[q].order, planner'[q].span, planner'[q].tracks)
          /\ planner'[q].order \in Int /\ planner'[q].order >= Floor
          /\ planner'[q].span \in Spans /\ planner'[q].tracks \subseteq Tracks
    BY <1>3, <1>6, <1>10, <1>11 DEF PlannersInv, PlannerRowsFit
  <2>2. takenItems' = takenItems /\ item' = item /\ nextItem' = nextItem
    BY <1>1 DEF contents
  <2>3. DOMAIN planner' \subseteq used' /\ used' \subseteq PlannerIds
    BY <1>4, <1>9, <1>10 DEF PlannersInv, PlannerRowsFit
  <2>4. /\ takenItems \subseteq (DOMAIN planner') \X DOMAIN Attended
        /\ \A i \in DOMAIN item : item[i].planner \in DOMAIN planner'
    BY <1>10 DEF PlannersInv, PlannerRowsFit
  <2> QED
    BY <1>10, <2>1, <2>2, <2>3, <2>4 DEF PlannersInv, PlannerRowsFit
<1>13. /\ DOMAIN b = DOMAIN NoRequest /\ b.id = p /\ b.seen = None /\ b.need = need /\ b.pc = next
       /\ b.todo = Copies
       /\ \A f \in DOMAIN NoRequest \ {"id", "seen", "need", "pc", "todo"} : b[f] = a[f]
  BY <1>2, Fields DEF Copies
<1> HIDE DEF b
<1>14. /\ b.op = a.op /\ b.user = a.user /\ b.span = a.span /\ b.tracks = a.tracks /\ b.to = a.to /\ b.old = a.old
       /\ b.gone = a.gone /\ b.copied = a.copied /\ b.written = a.written /\ b.imports = a.imports
       /\ b.failing = a.failing
  BY <1>13, Fields
<1>15. ReqTyped(b)
  <2>1. AtFloor(b.seen) /\ DOMAIN b.seen = {}
    BY <1>13 DEF None, AtFloor
  <2>2. b.pc \in PcsOf(b.op) /\ b.pc \notin {"place", "commit"} /\ b.id \in PlannerIds
    BY <1>3, <1>8, <1>9, <1>13, <1>14
  <2> QED
    BY <1>2, <1>3, <1>7, <1>13, <1>14, <2>1, <2>2 DEF ReqTyped
<1>16. ~Gap(b)
  BY <1>3, <1>14 DEF Gap
<1>17. Knows(b, planner', takenItems', item')
  <2>1. LecturesIn(takenItems', p) = {} /\ \A i \in DOMAIN item' : item'[i].planner # p
    BY <1>1, <1>9 DEF contents, LecturesIn, PlannersInv, PlannerRowsFit
  <2>2. ASSUME ~a.imports PROVE Copied(b, takenItems', item')
    BY <1>13, <1>14, <2>1, <2>2 DEF Copied, Copies, Imported
  <2>3. p \in DOMAIN planner' /\ planner'[p].span = b.span /\ planner'[p].tracks = b.tracks
    BY <1>10, <1>11, <1>14
  <2>4. KnowsCreate(b, planner', takenItems', item')
    BY <1>7, <1>8, <1>13, <1>14, <2>1, <2>2, <2>3 DEF KnowsCreate
  <2> QED
    BY <1>3, <1>14, <2>4 DEF Knows
<1>18. ASSUME ~overlapped, NEW u \in Planning \ displaced PROVE Filled(OrdersOf(u, planner'))
  <2>1. Filled(OrdersOf(u, planner)) /\ a.seen = OrdersOf(a.user, planner)
    BY <1>1, <1>2, <1>3, <1>18, Alone DEF AllFilled, Knows, KnowsCreate
  <2> DEFINE d == OrdersOf(u, planner)
             e == OrdersOf(u, planner')
  <2>2. /\ AtFloor(d) /\ DOMAIN d = OwnedIn(planner, u) /\ DOMAIN d \subseteq PlannerIds
        /\ \A q \in OwnedIn(planner, u) : d[q] = planner[q].order
    BY OrdersAtFloor DEF PlannersInv, OwnedIn
  <2>3. CASE u = a.user
    <3>1. OwnedIn(planner', u) = OwnedIn(planner, u) \cup {p} /\ p \notin OwnedIn(planner, u)
      BY <1>4, <1>9, <1>10, <2>3 DEF OwnedIn
    <3>2. \A q \in OwnedIn(planner, u) : planner'[q] = planner[q]
      BY <1>10 DEF OwnedIn
    <3>3. order = Cardinality(DOMAIN d)
      BY <2>1, <2>2, <2>3, NextOrderIs DEF order
    <3>4. DOMAIN e = OwnedIn(planner', u) /\ \A q \in OwnedIn(planner', u) : e[q] = planner'[q].order
      BY OrdersAre
    <3>5. Filled(d)
      BY <2>1
    <3> HIDE DEF d, e
    <3>6. p \notin DOMAIN d /\ DOMAIN e = DOMAIN d \cup {p} /\ e[p] = Cardinality(DOMAIN d)
          /\ \A q \in DOMAIN d : e[q] = d[q]
      BY <1>11, <2>2, <3>1, <3>2, <3>3, <3>4
    <3>7. Filled(e)
      BY <2>2, <3>5, <3>6, FilledAppend
    <3> QED
      BY <3>7 DEF e
  <2>4. CASE u # a.user
    <3>1. OwnedIn(planner', u) = OwnedIn(planner, u)
      BY <1>4, <1>10, <2>4 DEF OwnedIn
    <3>2. \A q \in OwnedIn(planner, u) : planner'[q].order = planner[q].order
      BY <1>10 DEF OwnedIn
    <3> QED
      BY <2>1, <3>1, <3>2, SameOrders
  <2> QED
    BY <2>3, <2>4
<1>19. \A q \in Reqs : DOMAIN req[q].written \subseteq DOMAIN planner'
  BY <1>10 DEF PlannersInv, RequestsFit
<1>20. overlapped' = overlapped /\ displaced' = displaced /\ displaced \subseteq Planning
  BY <1>1 DEF history, PlannersInv, LoneFit
<1>21. DOMAIN b.written = {}
  BY <1>3, <1>14
<1>22. ~overlapped => \A u \in Planning \ displaced : InPlace(u, b, planner')
  BY <1>16, <1>18 DEF InPlace, GapOf
<1> QED
  BY <1>2, <1>5, <1>12, <1>15, <1>17, <1>19, <1>20, <1>21, <1>22, OneMoves

\* A finite set as a sequence: each element once.
LEMMA SetAsSeq ==
  ASSUME NEW S, IsFiniteSet(S), NEW n, n = Cardinality(S), NEW s, s = SetToSeq(S)
  PROVE  /\ n \in Nat /\ s \in [1..n -> S]
         /\ \A i, j \in 1..n : s[i] = s[j] => i = j
         /\ \A x \in S : \E i \in 1..n : s[i] = x
<1>1. n \in Nat /\ ExistsBijection(1..n, S)
  BY FS_CardinalityType
<1>2. \E f \in [1..n -> S] : IsInjective(f)
  BY <1>1 DEF ExistsBijection, Bijection, Injection
<1>3. s = CHOOSE f \in [1..n -> S] : IsInjective(f)
  BY DEF SetToSeq
<1>4. s \in [1..n -> S] /\ IsInjective(s)
  BY <1>2, <1>3
<1>5. s \in Injection(1..n, S)
  BY <1>4 DEF Injection
<1>6. Cardinality(1..n) = n
  BY <1>1, FS_CountingElements, FS_Interval
<1>7. s \in Surjection(1..n, S)
  BY <1>5, <1>6, FS_Injection
<1> QED
  BY <1>1, <1>4, <1>7 DEF IsInjective, Surjection

\* The copies of items, one for each pair, are as many of each sort as there are pairs.
LEMMA CopiesCount ==
  ASSUME NEW I, NEW J, NEW N \in Nat, \A i \in DOMAIN I : i \in Nat /\ i < N, NEW p, NEW k,
         \A i \in DOMAIN I : ~(I[i].planner = p /\ I[i].kind = k),
         NEW pairs, IsFiniteSet(pairs),
         \A c \in pairs : c[2] = [year |-> c[2].year, excluded |-> c[2].excluded],
         NEW n, n = Cardinality(pairs), NEW s, s = SetToSeq(pairs),
         DOMAIN J = DOMAIN I \cup (N..(N + n - 1)), \A i \in DOMAIN I : J[i] = I[i],
         \A m \in 1..n : J[N + m - 1] = Item(p, k, s[m][2].year, s[m][2].excluded),
         NEW y, NEW e
  PROVE  Cardinality(Likes(J, p, k, y, e))
           = Cardinality({c \in pairs : c[2] = [year |-> y, excluded |-> e]})
<1> DEFINE U == Likes(J, p, k, y, e)
           V == {c \in pairs : c[2] = [year |-> y, excluded |-> e]}
           h == [i \in U |-> s[i - N + 1]]
<1>1. /\ n \in Nat /\ s \in [1..n -> pairs]
      /\ \A i, j \in 1..n : s[i] = s[j] => i = j
      /\ \A x \in pairs : \E i \in 1..n : s[i] = x
  BY SetAsSeq
<1>2. \A i \in U : i \in N..(N + n - 1) /\ J[i] = Item(p, k, y, e)
  <2> SUFFICES ASSUME NEW i \in U PROVE i \in N..(N + n - 1) /\ J[i] = Item(p, k, y, e)
    OBVIOUS
  <2>1. i \in DOMAIN J /\ J[i] = Item(p, k, y, e)
    BY DEF Likes
  <2>2. i \notin DOMAIN I
    BY <2>1, ItemRow
  <2> QED
    BY <2>1, <2>2
<1>3. \A i \in U : (i - N + 1) \in 1..n /\ s[i - N + 1] \in V
  <2> SUFFICES ASSUME NEW i \in U PROVE (i - N + 1) \in 1..n /\ s[i - N + 1] \in V
    OBVIOUS
  <2> DEFINE m == i - N + 1
  <2>1. m \in 1..n /\ i = N + m - 1
    BY <1>1, <1>2
  <2> HIDE DEF m
  <2>2. Item(p, k, s[m][2].year, s[m][2].excluded) = Item(p, k, y, e)
    BY <1>2, <2>1
  <2>3. s[m][2].year = y /\ s[m][2].excluded = e
    BY <2>2, ItemRow
  <2>4. s[m] \in pairs
    BY <1>1, <2>1
  <2>5. s[m] \in V
    BY <2>3, <2>4
  <2> QED
    BY <2>1, <2>5 DEF m
<1>4. \A i, j \in U : s[i - N + 1] = s[j - N + 1] => i = j
  BY <1>1, <1>2, <1>3
<1>5. \A c \in V : \E i \in U : s[i - N + 1] = c
  <2> SUFFICES ASSUME NEW c \in V PROVE \E i \in U : s[i - N + 1] = c
    OBVIOUS
  <2>1. PICK m \in 1..n : s[m] = c
    BY <1>1
  <2> DEFINE i == N + m - 1
  <2>2. i \in N..(N + n - 1) /\ i - N + 1 = m
    BY <1>1
  <2>3. J[i] = Item(p, k, y, e)
    <3>1. s[m][2].year = y /\ s[m][2].excluded = e
      BY <2>1
    <3> QED
      BY <3>1
  <2>4. i \in U
    BY <2>2, <2>3 DEF Likes
  <2> QED
    BY <2>1, <2>2, <2>4
<1>6. IsFiniteSet(U)
  <2>1. N \in Int /\ N + n - 1 \in Int
    BY <1>1
  <2> QED
    BY <1>2, <2>1, FS_Interval, FS_Subset
<1>7. h \in Bijection(U, V)
  <2> HIDE DEF U, V
  <2>1. h \in [U -> V]
    BY <1>3
  <2>2. IsInjective(h)
    BY <1>4 DEF IsInjective
  <2>3. \A c \in V : \E i \in U : h[i] = c
    BY <1>5
  <2> QED
    BY <2>1, <2>2, <2>3 DEF Bijection, Injection, Surjection
<1>8. ExistsBijection(U, V)
  BY <1>7 DEF ExistsBijection
<1> QED
  BY <1>6, <1>8, FS_Bijection

LEMMA CopyInserts ==
  ASSUME PlannersInv, NEW r \in Reqs, NEW c \in Copies, InsertCopy(r, c)
  PROVE  \E ok \in BOOLEAN :
           LET a == req[r] IN
           /\ a.pc = "copy" /\ c \in a.todo /\ c \in DOMAIN a.copied /\ EndCopy(r, c, ok)
           /\ UNCHANGED <<planner, used, history>> /\ PlannerRowsFit'
           /\ c # "taken" => LecturesIn(takenItems', a.id) = LecturesIn(takenItems, a.id)
           /\ c = "taken" => UNCHANGED <<item, nextItem>>
           /\ ok /\ c = "taken" =>
                LecturesIn(takenItems', a.id) = LecturesIn(takenItems, a.id) \cup Whats(a.copied["taken"])
           /\ ok /\ c # "taken" =>
                \A k \in Kinds :
                  /\ k # c => /\ \A y, e : Likes(item', a.id, k, y, e) = Likes(item, a.id, k, y, e)
                              /\ (\A i \in DOMAIN item : ~(item[i].planner = a.id /\ item[i].kind = k))
                                   => \A i \in DOMAIN item' : ~(item'[i].planner = a.id /\ item'[i].kind = k)
                  /\ k = c /\ (\A i \in DOMAIN item : ~(item[i].planner = a.id /\ item[i].kind = k)) =>
                       \A y, e : Cardinality(Likes(item', a.id, k, y, e))
                                   = Cardinality({x \in a.copied[k] : x[2] = [year |-> y, excluded |-> e]})
<1> DEFINE a == req[r]
           p == a.id
           pairs == a.copied[c]
           ok == IF c = "taken" THEN /\ Insertable(p, Whats(pairs))
                                     /\ Cardinality(Whats(pairs)) = Cardinality(pairs)
                 ELSE pairs = {} \/ p \in DOMAIN planner
           n == Cardinality(pairs)
           s == SetToSeq(pairs)
           whats == [m \in 1..n |-> s[m][2]]
<1>1. /\ a.pc = "copy" /\ c \in a.todo /\ c \in DOMAIN a.copied /\ EndCopy(r, c, ok)
      /\ UNCHANGED <<planner, used, history>>
      /\ takenItems' = IF ok /\ c = "taken" THEN takenItems \cup ({p} \X Whats(pairs)) ELSE takenItems
      /\ IF ok /\ c \in Kinds THEN InsertItems(p, c, whats) ELSE UNCHANGED <<item, nextItem>>
  BY Zenon DEF InsertCopy
<1>2. Open(r) /\ ReqTyped(a) /\ PlannerRowsFit
  BY <1>1, AtStep DEF PlannersInv
<1>3. CopiedFit(c, pairs)
  BY <1>1, <1>2 DEF ReqTyped
<1>4. ok \in BOOLEAN
  BY DEF Insertable
<1>5. CASE c = "taken"
  <2>1. c \notin Kinds
    BY <1>5 DEF Kinds
  <2>2. UNCHANGED <<item, nextItem>>
    BY <1>1, <2>1
  <2>3. Whats(pairs) \subseteq DOMAIN Attended
    BY <1>3, <1>5 DEF CopiedFit, Whats
  <2>4. CASE ok
    <3>1. Whats(pairs) = {} \/ p \in DOMAIN planner
      BY <1>5, <2>4 DEF Insertable
    <3>2. takenItems' = takenItems \cup ({p} \X Whats(pairs))
      BY <1>1, <1>5, <2>4
    <3> HIDE DEF ok, p, pairs
    <3>3. PlannerRowsFit' /\ LecturesIn(takenItems', p) = LecturesIn(takenItems, p) \cup Whats(pairs)
      BY <1>1, <1>2, <2>2, <2>3, <3>1, <3>2, MoreTaken
    <3> QED
      BY <1>1, <1>4, <1>5, <2>2, <3>3 DEF p, pairs
  <2>5. CASE ~ok
    <3>1. takenItems' = takenItems
      BY <1>1, <2>5
    <3>2. PlannerRowsFit'
      BY <1>1, <1>2, <2>2, <3>1 DEF PlannerRowsFit
    <3> HIDE DEF ok
    <3> QED
      BY <1>1, <1>4, <1>5, <2>2, <2>5, <3>2
  <2> QED
    BY <1>4, <2>4, <2>5
<1>6. CASE c # "taken"
  <2>1. c \in Kinds /\ takenItems' = takenItems
    BY <1>1, <1>6 DEF Copies
  <2>2. IsFiniteSet(pairs) /\ \A x \in pairs : x[2] = [year |-> x[2].year, excluded |-> x[2].excluded]
    BY <1>3, <1>6 DEF CopiedFit
  <2>3. CASE ok
    <3>1. InsertItems(p, c, whats)
      BY <1>1, <2>1, <2>3
    <3>2. pairs = {} \/ p \in DOMAIN planner
      BY <1>6, <2>3
    <3> HIDE DEF ok
    <3>3. n \in Nat /\ (n = 0 \/ p \in DOMAIN planner)
      BY <2>2, <3>2, FS_CardinalityType, FS_EmptySet
    <3>4. Len(whats) = n /\ \A m \in 1..n : whats[m] = s[m][2]
      BY <3>3
    <3> HIDE DEF whats, s, n, pairs, p
    <3>5. /\ PlannerRowsFit'
          /\ DOMAIN item' = DOMAIN item \cup (nextItem..(nextItem + n - 1))
          /\ \A i \in DOMAIN item : item'[i] = item[i]
          /\ \A m \in 1..n : item'[nextItem + m - 1] = Item(p, c, whats[m].year, whats[m].excluded)
      <4>1. PlannerRowsFit /\ UNCHANGED <<planner, used, takenItems>> /\ Len(whats) = n
        BY <1>1, <1>2, <2>1, <3>4
      <4>2. PlannerRowsFit' /\ Grown(item, item', nextItem, p, c, n, whats)
        BY <3>1, <3>3, <4>1, MoreItems
      <4> QED
        BY <4>2 DEF Grown
    <3>6. \A m \in 1..n : item'[nextItem + m - 1] = Item(p, c, s[m][2].year, s[m][2].excluded)
      BY <3>4, <3>5
    <3>7. nextItem \in Nat /\ \A i \in DOMAIN item : i \in Nat /\ i < nextItem
      BY <1>2 DEF PlannerRowsFit
    <3>8. \A i \in DOMAIN item' : i \in DOMAIN item \/ item'[i].kind = c
      <4> SUFFICES ASSUME NEW i \in nextItem..(nextItem + n - 1) PROVE item'[i].kind = c
        BY <3>5
      <4> DEFINE m == i - nextItem + 1
      <4>1. m \in 1..n /\ i = nextItem + m - 1
        BY <3>3, <3>7
      <4> HIDE DEF m
      <4>2. item'[i] = Item(p, c, s[m][2].year, s[m][2].excluded)
        BY <3>6, <4>1
      <4> QED
        BY <4>2, ItemRow
    <3>9. ASSUME NEW k \in Kinds, k # c
          PROVE  /\ \A y, e : Likes(item', p, k, y, e) = Likes(item, p, k, y, e)
                 /\ (\A i \in DOMAIN item : ~(item[i].planner = p /\ item[i].kind = k))
                      => \A i \in DOMAIN item' : ~(item'[i].planner = p /\ item'[i].kind = k)
      <4>1. \A i \in DOMAIN item' : item'[i].kind = k => i \in DOMAIN item
        BY <3>8, <3>9
      <4>2. \A y, e : Likes(item', p, k, y, e) = Likes(item, p, k, y, e)
        <5> SUFFICES ASSUME NEW y, NEW e PROVE Likes(item', p, k, y, e) = Likes(item, p, k, y, e)
          OBVIOUS
        <5>1. \A i \in DOMAIN item' : item'[i] = Item(p, k, y, e) => i \in DOMAIN item
          BY <4>1, ItemRow
        <5> QED
          BY <3>5, <5>1 DEF Likes
      <4> QED
        BY <3>5, <4>1, <4>2
    <3>10. ASSUME \A i \in DOMAIN item : ~(item[i].planner = p /\ item[i].kind = c)
           PROVE  \A y, e : Cardinality(Likes(item', p, c, y, e))
                              = Cardinality({x \in pairs : x[2] = [year |-> y, excluded |-> e]})
      BY <2>2, <3>5, <3>6, <3>7, <3>10, CopiesCount DEF n, s
    <3>11. LecturesIn(takenItems', p) = LecturesIn(takenItems, p)
      BY <2>1
    <3> QED
      BY <1>1, <1>4, <1>6, <3>5, <3>9, <3>10, <3>11 DEF p, pairs
  <2>4. CASE ~ok
    <3>1. UNCHANGED <<item, nextItem>>
      BY <1>1, <2>4
    <3>2. PlannerRowsFit'
      BY <1>1, <1>2, <2>1, <3>1 DEF PlannerRowsFit
    <3> HIDE DEF ok
    <3> QED
      BY <1>1, <1>4, <1>6, <2>1, <2>4, <3>2
  <2> QED
    BY <1>4, <2>3, <2>4
<1> QED
  BY <1>5, <1>6

LEMMA InsertCopyFits ==
  ASSUME PlannersInv, NEW r \in Reqs, NEW c \in Copies, InsertCopy(r, c)
  PROVE  PlannersInv'
<1> DEFINE a == req[r]
           p == a.id
           T == LecturesIn(takenItems, p)
           NewT == LecturesIn(takenItems', p)
           Empty(I, k) == \A i \in DOMAIN I : ~(I[i].planner = p /\ I[i].kind = k)
           Pairs(k, y, e) == {x \in a.copied[k] : x[2] = [year |-> y, excluded |-> e]}
<1>1. PICK ok \in BOOLEAN :
        /\ a.pc = "copy" /\ c \in a.todo /\ c \in DOMAIN a.copied /\ EndCopy(r, c, ok)
        /\ UNCHANGED <<planner, used, history>> /\ PlannerRowsFit'
        /\ c # "taken" => NewT = T
        /\ c = "taken" => UNCHANGED <<item, nextItem>>
        /\ ok /\ c = "taken" => NewT = T \cup Whats(a.copied["taken"])
        /\ ok /\ c # "taken" =>
             \A k \in Kinds :
               /\ k # c => /\ \A y, e : Likes(item', p, k, y, e) = Likes(item, p, k, y, e)
                           /\ Empty(item, k) => Empty(item', k)
               /\ k = c /\ Empty(item, k) =>
                    \A y, e : Cardinality(Likes(item', p, k, y, e)) = Cardinality(Pairs(k, y, e))
  BY CopyInserts
<1>2. Open(r) /\ ReqTyped(a) /\ DOMAIN a = DOMAIN NoRequest
  BY <1>1, AtStep
<1>3. a.op = "create" /\ DOMAIN a.written = {} /\ ~Gap(a)
  BY <1>1, <1>2 DEF ReqTyped, PcsOf, Gap
<1>4. overlapped' = overlapped /\ displaced' = displaced /\ displaced \subseteq Planning /\ planner' = planner
  BY <1>1 DEF history, PlannersInv, LoneFit
<1>5. \A q \in Reqs : DOMAIN req[q].written \subseteq DOMAIN planner'
  BY <1>4 DEF PlannersInv, RequestsFit
<1>6. ~overlapped => AllFilled(displaced, planner')
  BY <1>2, <1>3, <1>4, Alone
<1> DEFINE rest == a.todo \ {c}
           bad == a.failing \/ ~ok
           next == IF rest = {} THEN "final" ELSE "copy"
           b == [a EXCEPT !.todo = rest, !.failing = bad, !.pc = next]
<1>7. \/ Finish(r, "failed")
      \/ req' = [req EXCEPT ![r] = b] /\ ~(rest = {} /\ bad)
  BY Zenon, <1>1 DEF EndCopy
<1>8. CASE Finish(r, "failed")
  BY <1>1, <1>2, <1>4, <1>5, <1>6, <1>8, OneEnds
<1>9. CASE req' = [req EXCEPT ![r] = b] /\ ~(rest = {} /\ bad)
  <2>8. next = "final" => ~bad
    BY <1>9
  <2>1. next \in PcsOf("create") /\ next \in {"final", "copy"} /\ (next = "final" => rest = {})
    BY DEF PcsOf
  <2>2. ~bad => ok /\ ~a.failing
    OBVIOUS
  <2> HIDE DEF next, bad
  <2>3. /\ DOMAIN b = DOMAIN NoRequest /\ b.todo = rest /\ b.failing = bad /\ b.pc = next
        /\ \A f \in DOMAIN NoRequest \ {"todo", "failing", "pc"} : b[f] = a[f]
    BY <1>2, Fields
  <2> HIDE DEF b
  <2>4. /\ b.op = a.op /\ b.user = a.user /\ b.id = p /\ b.span = a.span /\ b.tracks = a.tracks /\ b.to = a.to
        /\ b.old = a.old /\ b.gone = a.gone /\ b.seen = a.seen /\ b.need = a.need
        /\ b.copied = a.copied /\ b.written = a.written /\ b.imports = a.imports
    BY <2>3, Fields
  <2>5. ReqTyped(b) /\ ~Gap(b)
    <3>1. rest \subseteq Copies /\ next \in PcsOf(b.op) /\ next \notin {"place", "commit"}
      BY <1>2, <1>3, <2>1, <2>4 DEF ReqTyped
    <3> QED
      BY <1>2, <1>3, <2>3, <2>4, <3>1 DEF ReqTyped, Gap
  <2>6. ASSUME ~overlapped PROVE Knows(b, planner', takenItems', item')
    <3>1. KnowsCreate(a, planner, takenItems, item)
      BY <1>2, <1>3, <2>6, Alone DEF Knows
    <3>2. p \in DOMAIN planner' /\ planner'[p].span = b.span /\ planner'[p].tracks = b.tracks
      BY <1>1, <1>4, <2>4, <3>1 DEF KnowsCreate
    <3>3. ASSUME ~bad PROVE Copied(b, takenItems', item')
      <4>1. Copied(a, takenItems, item) /\ ok
        BY <1>1, <2>2, <3>1, <3>3 DEF KnowsCreate
      <4>2. Copies \ b.todo \subseteq DOMAIN b.copied
        BY <1>1, <2>3, <2>4, <4>1 DEF Copied
      <4>3. Imported(b) = Imported(a)
        BY <2>4 DEF Imported
      <4>4. NewT = IF "taken" \in rest THEN Imported(b)
                   ELSE Whats(b.copied["taken"]) \cup Imported(b)
        <5>1. T = IF "taken" \in a.todo THEN Imported(a)
                  ELSE Whats(a.copied["taken"]) \cup Imported(a)
          BY <4>1 DEF Copied
        <5> HIDE DEF T, NewT
        <5>2. CASE c = "taken"
          BY <1>1, <2>4, <4>1, <4>3, <5>1, <5>2
        <5>3. CASE c # "taken"
          BY <1>1, <2>4, <4>1, <4>3, <5>1, <5>3
        <5> QED
          BY <5>2, <5>3
      <4>5. \A k \in Kinds : k \in a.todo => Empty(item, k)
        BY <4>1 DEF Copied
      <4>6. \A k \in Kinds : k \notin a.todo => \A y \in Years, e \in BOOLEAN :
              Cardinality(Likes(item, p, k, y, e)) = Cardinality(Pairs(k, y, e))
        BY <4>1 DEF Copied
      <4>7. ASSUME NEW k \in Kinds, k \in rest PROVE Empty(item', k)
        BY <1>1, <4>1, <4>5, <4>7
      <4>8. ASSUME NEW k \in Kinds, k \notin rest, NEW y \in Years, NEW e \in BOOLEAN
            PROVE  Cardinality(Likes(item', p, k, y, e)) = Cardinality(Pairs(k, y, e))
        <5>1. CASE c = "taken"
          BY <1>1, <4>6, <4>8, <5>1 DEF Kinds
        <5>2. CASE c # "taken" /\ k = c
          BY <1>1, <4>1, <4>5, <5>2
        <5>3. CASE c # "taken" /\ k # c
          BY <1>1, <4>1, <4>6, <4>8, <5>3
        <5> QED
          BY <5>1, <5>2, <5>3
      <4> QED
        BY <2>3, <2>4, <4>2, <4>4, <4>7, <4>8 DEF Copied
    <3>5. ~b.failing => Copied(b, takenItems', item')
      BY Zenon, <2>3, <3>3
    <3>6. b.pc \in {"final", "copy"} /\ (b.pc = "final" => b.todo = {} /\ ~b.failing)
      BY <2>1, <2>3, <2>8
    <3>4. KnowsCreate(b, planner', takenItems', item')
      BY <2>4, <3>2, <3>5, <3>6 DEF KnowsCreate
    <3> QED
      BY <1>3, <2>4, <3>4 DEF Knows
  <2>7. DOMAIN b.written = {}
    BY <1>3, <2>4
  <2>9. ~overlapped => \A u \in Planning \ displaced : InPlace(u, b, planner')
    BY <1>6, <2>5 DEF InPlace, GapOf, AllFilled
  <2> QED
    BY <1>1, <1>2, <1>4, <1>5, <1>9, <2>5, <2>6, <2>7, <2>9, OneMoves
<1> QED
  BY <1>7, <1>8, <1>9

-----------------------------------------------------------------------------
\* Deletion and reordering.
LEMMA DeletePlannerFits ==
  ASSUME PlannersInv, NEW r \in Reqs, DeletePlanner(r)
  PROVE  PlannersInv'
<1> DEFINE a == req[r]
           p == a.id
           order == planner[p].order
           b == [a EXCEPT !.pc = "shift", !.gone = order]
<1>1. a.pc = "delete" /\ ~LockedByOther(r, p) /\ UNCHANGED <<used, nextItem, history>>
  BY Zenon DEF DeletePlanner
<1>2. Open(r) /\ ReqTyped(a) /\ DOMAIN a = DOMAIN NoRequest
  BY <1>1, AtStep
<1>3. a.op = "delete" /\ ~Gap(a) /\ DOMAIN a.written = {} /\ "shift" \in PcsOf(a.op)
  BY <1>1, <1>2 DEF ReqTyped, PcsOf, Gap
<1>4. CASE p \in DOMAIN planner
  <2>1. /\ planner' = Restrict(planner, DOMAIN planner \ {p})
        /\ takenItems' = {t \in takenItems : t[1] # p}
        /\ item' = Restrict(item, {i \in DOMAIN item : item[i].planner # p})
        /\ req' = [req EXCEPT ![r] = b]
    BY <1>4 DEF DeletePlanner
  <2>2. /\ DOMAIN planner' = DOMAIN planner \ {p} /\ planner' = [q \in DOMAIN planner' |-> planner'[q]]
        /\ \A q \in DOMAIN planner' : planner'[q] = planner[q]
    BY <2>1 DEF Restrict
  <2>3. /\ DOMAIN item' = {i \in DOMAIN item : item[i].planner # p}
        /\ \A i \in DOMAIN item' : item'[i] = item[i]
    BY <2>1 DEF Restrict
  <2>4. PlannerRowsFit'
    <3>1. takenItems' \subseteq (DOMAIN planner') \X DOMAIN Attended
      BY <2>1, <2>2 DEF PlannersInv, PlannerRowsFit
    <3>2. \A i \in DOMAIN item' :
            /\ item'[i] = Item(item'[i].planner, item'[i].kind, item'[i].year, item'[i].excluded)
            /\ item'[i].planner \in DOMAIN planner'
      BY <2>2, <2>3 DEF PlannersInv, PlannerRowsFit
    <3>3. DOMAIN item' \subseteq 1..(nextItem - 1)
      BY <2>3 DEF PlannersInv, PlannerRowsFit
    <3> QED
      BY <1>1, <2>2, <3>1, <3>2, <3>3 DEF PlannersInv, PlannerRowsFit
  <2>5. order \in Int /\ p \in PlannerIds
    BY <1>4 DEF PlannersInv, PlannerRowsFit
  <2> HIDE DEF order
  <2>6. /\ DOMAIN b = DOMAIN NoRequest /\ b.pc = "shift" /\ b.gone = order
        /\ \A f \in DOMAIN NoRequest \ {"pc", "gone"} : b[f] = a[f]
    BY <1>2, Fields
  <2> HIDE DEF b
  <2>7. /\ b.op = a.op /\ b.user = a.user /\ b.id = p /\ b.span = a.span /\ b.tracks = a.tracks /\ b.to = a.to
        /\ b.old = a.old /\ b.seen = a.seen /\ b.need = a.need /\ b.todo = a.todo
        /\ b.copied = a.copied /\ b.written = a.written
    BY <2>6, Fields
  <2>8. ReqTyped(b) /\ DOMAIN b.written = {}
    BY <1>2, <1>3, <2>5, <2>6, <2>7 DEF ReqTyped
  <2>9. Gap(b)
    BY <1>3, <2>6, <2>7 DEF Gap
  <2>10. ASSUME ~overlapped
         PROVE  Knows(b, planner', takenItems', item') /\ a.seen = OrdersOf(Owner[p], planner)
    <3>1. a.old = order /\ a.seen = OrdersOf(Owner[p], planner)
      BY <1>1, <1>2, <1>3, <2>10, Alone DEF Knows, KnowsDelete, order
    <3>2. /\ DOMAIN a.seen = OwnedIn(planner, Owner[p])
          /\ \A q \in OwnedIn(planner, Owner[p]) : a.seen[q] = planner[q].order
      BY <3>1, OrdersAre
    <3>3. p \in DOMAIN a.seen /\ a.seen[p] = order
      BY <1>4, <3>2 DEF order, OwnedIn
    <3>4. OwnedIn(planner', Owner[p]) = DOMAIN a.seen \ {p}
      BY <2>2, <3>2 DEF OwnedIn
    <3>5. \A q \in OwnedIn(planner', Owner[p]) : planner'[q].order = a.seen[q]
      BY <2>2, <3>2, <3>4 DEF OwnedIn
    <3>6. KnowsDelete(b, planner')
      BY <2>6, <2>7, <3>1, <3>3, <3>4, <3>5 DEF KnowsDelete
    <3> QED
      BY <1>3, <2>7, <3>1, <3>6 DEF Knows
  <2>11. ASSUME ~overlapped, NEW u \in Planning \ displaced PROVE InPlace(u, b, planner')
    <3>1. Filled(OrdersOf(u, planner))
      BY <1>2, <1>3, <2>11, Alone DEF AllFilled
    <3>2. CASE u = Owner[p]
      BY <2>7, <2>9, <2>10, <2>11, <3>1, <3>2 DEF InPlace, GapOf
    <3>3. CASE u # Owner[p]
      <4>1. OwnedIn(planner', u) = OwnedIn(planner, u)
        BY <2>2, <3>3 DEF OwnedIn
      <4>2. \A q \in OwnedIn(planner, u) : planner'[q].order = planner[q].order
        BY <2>2, <4>1 DEF OwnedIn
      <4>3. Filled(OrdersOf(u, planner'))
        BY <3>1, <4>1, <4>2, SameOrders
      <4> QED
        BY <2>7, <3>3, <4>3 DEF InPlace, GapOf
    <3> QED
      BY <3>2, <3>3
  <2>12. \A q \in Reqs \ {r} : DOMAIN req[q].written \subseteq DOMAIN planner'
    BY <1>1, <2>2 DEF LockedByOther, Locks, PlannersInv, RequestsFit
  <2>13. overlapped' = overlapped /\ displaced' = displaced /\ displaced \subseteq Planning
    BY <1>1 DEF history, PlannersInv, LoneFit
  <2> QED
    BY <1>2, <2>1, <2>4, <2>8, <2>9, <2>10, <2>11, <2>12, <2>13, OneMoves
<1>5. CASE p \notin DOMAIN planner
  <2>1. Finish(r, "failed") /\ UNCHANGED <<planner, used, contents, history>>
    BY <1>1, <1>5 DEF DeletePlanner, contents
  <2> QED
    BY <1>2, <1>3, <2>1, OneFails
<1> QED
  BY <1>4, <1>5

\* What a shift is, and that it does not sink below the floor.
LEMMA ShiftIs ==
  ASSUME NEW x, ReqTyped(x), x.op \in {"delete", "reorder"}
  PROVE  /\ x.op = "delete" =>
              /\ Shift(x).ids = {p \in DOMAIN x.seen : x.seen[p] > x.gone} /\ Shift(x).by = -1
              /\ Shift(x).from = x.old + 1 /\ Shift(x).upto = Cardinality(DOMAIN x.seen)
         /\ x.op = "reorder" /\ x.old < x.to =>
              /\ Shift(x).ids = DOMAIN x.seen /\ Shift(x).by = -1
              /\ Shift(x).from = x.old + 1 /\ Shift(x).upto = x.to
         /\ x.op = "reorder" /\ x.old >= x.to =>
              /\ Shift(x).ids = DOMAIN x.seen /\ Shift(x).by = 1
              /\ Shift(x).from = x.to /\ Shift(x).upto = x.old - 1
         /\ \A n \in Int : n >= Floor /\ InRange(n, Shift(x)) =>
              n + Shift(x).by \in Int /\ n + Shift(x).by >= Floor
<1>1. x.op = "delete" =>
        /\ Shift(x).ids = {p \in DOMAIN x.seen : x.seen[p] > x.gone} /\ Shift(x).by = -1
        /\ Shift(x).from = x.old + 1 /\ Shift(x).upto = Cardinality(DOMAIN x.seen)
  BY DEF Shift
<1>3. x.old \in Int /\ x.to \in Int /\ x.old >= Floor /\ x.to >= Floor
  BY DEF ReqTyped
<1>2. x.op = "reorder" /\ x.old < x.to =>
        /\ Shift(x).ids = DOMAIN x.seen /\ Shift(x).by = -1
        /\ Shift(x).from = x.old + 1 /\ Shift(x).upto = x.to
  BY <1>3 DEF Shift
<1>4. x.op = "reorder" /\ x.old >= x.to =>
        /\ Shift(x).ids = DOMAIN x.seen /\ Shift(x).by = 1
        /\ Shift(x).from = x.to /\ Shift(x).upto = x.old - 1
  BY <1>3 DEF Shift
<1>5. ASSUME NEW n \in Int, n >= Floor, InRange(n, Shift(x))
      PROVE  n + Shift(x).by \in Int /\ n + Shift(x).by >= Floor
  <2>1. x.op = "delete" \/ (x.op = "reorder" /\ x.old < x.to) \/ (x.op = "reorder" /\ x.old >= x.to)
    BY <1>3
  <2>2. CASE Shift(x).by = -1 /\ Shift(x).from = x.old + 1
    BY <1>3, <1>5, <2>2, FloorIs DEF InRange
  <2>3. CASE Shift(x).by = 1
    BY <1>5, <2>3, FloorIs
  <2> QED
    BY <1>1, <1>2, <1>4, <2>1, <2>2, <2>3
<1> QED
  BY <1>1, <1>2, <1>4, <1>5

LEMMA SameShift ==
  ASSUME NEW x, NEW y, y.op = x.op, y.old = x.old, y.to = x.to, y.gone = x.gone, y.seen = x.seen
  PROVE  Shift(y) = Shift(x) /\ \A d : Shifting(y, d) = Shifting(x, d)
<1>1. Shift(y) = Shift(x)
  BY DEF Shift
<1> QED
  BY <1>1 DEF Shifting

LEMMA ShiftOrdersFits ==
  ASSUME PlannersInv, NEW r \in Reqs, ShiftOrders(r)
  PROVE  PlannersInv'
<1> DEFINE a == req[r]
           s == Shift(a)
           rows == {p \in s.ids \cap DOMAIN planner : InRange(planner[p].order, s)}
           w == [p \in rows |-> planner[p].order + s.by]
           next == IF a.op = "delete" THEN "commit" ELSE "place"
           b == [a EXCEPT !.written = w, !.pc = next]
<1>1. /\ a.pc = "shift" /\ UNCHANGED <<planner, used, contents, history>>
      /\ \A q \in Reqs \ {r} : \A p \in s.ids \cap Locks(q) : ~InRange(planner[p].order, s)
  BY Zenon DEF ShiftOrders
<1>2. Open(r) /\ ReqTyped(a) /\ DOMAIN a = DOMAIN NoRequest
  BY <1>1, AtStep
<1>3. /\ a.op \in {"delete", "reorder"} /\ next \in PcsOf(a.op) /\ next \in {"commit", "place"}
      /\ a.op = "delete" => next = "commit"
      /\ a.op = "reorder" => next = "place"
  BY <1>1, <1>2 DEF ReqTyped, PcsOf
<1>4. req' = [req EXCEPT ![r] = b]
  BY Zenon DEF ShiftOrders
<1>5. DOMAIN w = rows /\ rows \subseteq DOMAIN planner /\ w = Shifting(a, planner)
  BY DEF Shifting
<1>6. AtFloor(w)
  <2>1. \A p \in rows : planner[p].order \in Int /\ planner[p].order >= Floor /\ InRange(planner[p].order, s)
    BY DEF PlannersInv, PlannerRowsFit
  <2>2. \A n \in Int : n >= Floor /\ InRange(n, s) => n + s.by \in Int /\ n + s.by >= Floor
    BY <1>2, <1>3, ShiftIs
  <2> HIDE DEF rows, s
  <2> QED
    BY <2>1, <2>2 DEF AtFloor
<1>7. \A q \in Reqs \ {r} : DOMAIN req[q].written \cap rows = {}
  BY <1>1 DEF Locks
<1> HIDE DEF w, rows, next, s
<1>8. /\ DOMAIN b = DOMAIN NoRequest /\ b.pc = next /\ b.written = w
      /\ \A f \in DOMAIN NoRequest \ {"pc", "written"} : b[f] = a[f]
  BY <1>2, Fields
<1> HIDE DEF b
<1>9. /\ b.op = a.op /\ b.user = a.user /\ b.id = a.id /\ b.span = a.span /\ b.tracks = a.tracks /\ b.to = a.to
      /\ b.old = a.old /\ b.gone = a.gone /\ b.seen = a.seen /\ b.need = a.need /\ b.todo = a.todo
      /\ b.copied = a.copied
  BY <1>8, Fields
<1>10. ReqTyped(b)
  BY <1>2, <1>3, <1>6, <1>8, <1>9 DEF ReqTyped
<1>11. b.written = Shifting(b, planner)
  BY <1>5, <1>8, <1>9, SameShift
<1>12. Gap(b) <=> Gap(a)
  BY <1>1, <1>3, <1>8, <1>9 DEF Gap
<1>13. PlannerRowsFit' /\ planner' = planner /\ takenItems' = takenItems /\ item' = item
       /\ overlapped' = overlapped /\ displaced' = displaced /\ displaced \subseteq Planning
  BY <1>1, RowsStay DEF PlannersInv, LoneFit, history, contents
<1>14. ASSUME ~overlapped PROVE Knows(b, planner, takenItems, item)
  <2>1. Knows(a, planner, takenItems, item)
    BY <1>2, <1>14, Alone
  <2>2. CASE a.op = "delete"
    <3>1. KnowsDelete(a, planner) /\ b.pc = "commit"
      BY <1>3, <1>8, <2>1, <2>2 DEF Knows
    <3>2. KnowsDelete(b, planner)
      BY <1>1, <1>9, <1>11, <3>1 DEF KnowsDelete
    <3> QED
      BY <1>9, <2>2, <3>2 DEF Knows
  <2>3. CASE a.op = "reorder"
    <3>1. KnowsReorder(a, planner) /\ b.pc = "place"
      BY <1>3, <1>8, <2>1, <2>3 DEF Knows
    <3>2. KnowsReorder(b, planner)
      BY <1>1, <1>9, <1>11, <3>1 DEF KnowsReorder
    <3> QED
      BY <1>9, <2>3, <3>2 DEF Knows
  <2> QED
    BY <1>3, <2>2, <2>3
<1>15. ~overlapped => \A u \in Planning \ displaced : InPlace(u, b, planner)
  BY <1>2, <1>9, <1>12, Alone DEF InPlace, GapOf
<1>16. \A q \in Reqs \ {r} : DOMAIN req[q].written \subseteq DOMAIN planner
  BY DEF PlannersInv, RequestsFit
<1> QED
  BY <1>2, <1>4, <1>5, <1>7, <1>8, <1>10, <1>13, <1>14, <1>15, <1>16, OneMoves

LEMMA UpdateOrderFits ==
  ASSUME PlannersInv, NEW r \in Reqs, UpdateOrder(r)
  PROVE  PlannersInv'
<1> DEFINE a == req[r]
           p == a.id
           w == [q \in DOMAIN a.written \cup {p} |-> IF q = p THEN a.to ELSE a.written[q]]
           b == [a EXCEPT !.pc = "commit", !.written = w]
<1>1. a.pc = "place" /\ ~LockedByOther(r, p) /\ UNCHANGED <<planner, used, contents, history>>
  BY Zenon DEF UpdateOrder
<1>2. Open(r) /\ ReqTyped(a) /\ DOMAIN a = DOMAIN NoRequest
  BY <1>1, AtStep
<1>3. a.op = "reorder" /\ ~Gap(a) /\ "commit" \in PcsOf(a.op)
  BY <1>1, <1>2 DEF ReqTyped, PcsOf, Gap
<1>4. CASE p \in DOMAIN planner
  <2>1. req' = [req EXCEPT ![r] = b]
    BY <1>4 DEF UpdateOrder
  <2>2. DOMAIN w = DOMAIN a.written \cup {p} /\ AtFloor(w)
    BY <1>2 DEF ReqTyped, AtFloor
  <2>3. /\ DOMAIN w \subseteq DOMAIN planner
        /\ \A q \in Reqs \ {r} : DOMAIN req[q].written \subseteq DOMAIN planner /\ DOMAIN req[q].written \cap DOMAIN w = {}
    BY <1>1, <1>4, <2>2 DEF LockedByOther, Locks, PlannersInv, RequestsFit
  <2>4. /\ DOMAIN b = DOMAIN NoRequest /\ b.pc = "commit" /\ b.written = w
        /\ \A f \in DOMAIN NoRequest \ {"pc", "written"} : b[f] = a[f]
    BY <1>2, Fields
  <2> HIDE DEF b
  <2>5. /\ b.op = a.op /\ b.user = a.user /\ b.id = a.id /\ b.span = a.span /\ b.tracks = a.tracks /\ b.to = a.to
        /\ b.old = a.old /\ b.gone = a.gone /\ b.seen = a.seen /\ b.need = a.need /\ b.todo = a.todo
        /\ b.copied = a.copied
    BY <2>4, Fields
  <2>6. ReqTyped(b) /\ ~Gap(b)
    BY <1>2, <1>3, <2>2, <2>4, <2>5 DEF ReqTyped, Gap
  <2>7. ASSUME ~overlapped PROVE Knows(b, planner, takenItems, item)
    <3>1. KnowsReorder(a, planner)
      BY <1>2, <1>3, <2>7, Alone DEF Knows
    <3>2. a.written = Shifting(b, planner)
      <4>1. a.written = Shifting(a, planner)
        BY <1>1, <3>1 DEF KnowsReorder
      <4> QED
        BY <2>5, <4>1, SameShift
    <3>3. b.written = [q \in DOMAIN Shifting(b, planner) \cup {b.id} |->
                         IF q = b.id THEN b.to ELSE Shifting(b, planner)[q]]
      BY <2>4, <2>5, <3>2
    <3>4. KnowsReorder(b, planner)
      BY <1>1, <2>4, <2>5, <3>1, <3>3 DEF KnowsReorder
    <3> QED
      BY <1>3, <2>5, <3>4 DEF Knows
  <2>8. PlannerRowsFit' /\ planner' = planner /\ takenItems' = takenItems /\ item' = item
        /\ overlapped' = overlapped /\ displaced' = displaced /\ displaced \subseteq Planning
    BY <1>1, RowsStay DEF PlannersInv, LoneFit, history, contents
  <2>9. ~overlapped => \A u \in Planning \ displaced : InPlace(u, b, planner)
    BY <1>2, <1>3, <2>6, Alone DEF InPlace, GapOf, AllFilled
  <2> HIDE DEF w
  <2> QED
    BY <1>2, <2>1, <2>3, <2>4, <2>6, <2>7, <2>8, <2>9, OneMoves
<1>5. CASE p \notin DOMAIN planner
  <2>1. Finish(r, "failed")
    BY <1>5 DEF UpdateOrder
  <2> QED
    BY <1>1, <1>2, <1>3, <2>1, OneFails
<1> QED
  BY <1>4, <1>5

\* The positions after the end of a transaction.
LEMMA CommitOrders ==
  ASSUME PlannersInv, NEW r \in Reqs, Commit(r)
  PROVE  LET a == req[r] IN
         /\ Open(r) /\ ReqTyped(a) /\ a.op \in {"delete", "reorder"} /\ a.pc = "commit"
         /\ DOMAIN planner' = DOMAIN planner /\ PlannerRowsFit'
         /\ \A p \in DOMAIN planner :
              planner'[p].order = IF p \in DOMAIN a.written THEN a.written[p] ELSE planner[p].order
         /\ \A p \in DOMAIN planner : planner[p].order \in Int
<1> DEFINE a == req[r]
           w == a.written
<1>1. /\ a.pc = "commit" /\ UNCHANGED <<used, contents, overlapped>>
      /\ planner' = [p \in DOMAIN planner |->
           IF p \in DOMAIN w THEN Row(w[p], planner[p].span, planner[p].tracks) ELSE planner[p]]
  BY Zenon DEF Commit
<1>2. Open(r) /\ ReqTyped(a)
  BY <1>1, AtStep
<1>3. a.op \in {"delete", "reorder"} /\ AtFloor(w)
  BY <1>1, <1>2 DEF ReqTyped, PcsOf
<1>4. \A p \in DOMAIN w : w[p] \in Int /\ w[p] >= Floor
  BY <1>3 DEF AtFloor
<1> HIDE DEF w
<1>5. \A p \in DOMAIN planner :
        /\ planner[p] = Row(planner[p].order, planner[p].span, planner[p].tracks)
        /\ planner[p].order \in Int /\ planner[p].order >= Floor
        /\ planner[p].span \in Spans /\ planner[p].tracks \subseteq Tracks
  BY DEF PlannersInv, PlannerRowsFit
<1>6. DOMAIN planner' = DOMAIN planner /\ planner' = [p \in DOMAIN planner' |-> planner'[p]]
  BY <1>1
<1>7. \A p \in DOMAIN planner :
        /\ p \in DOMAIN w => planner'[p] = Row(w[p], planner[p].span, planner[p].tracks)
        /\ p \notin DOMAIN w => planner'[p] = planner[p]
  BY <1>1
<1>8. \A p \in DOMAIN planner :
        /\ planner'[p].order = IF p \in DOMAIN w THEN w[p] ELSE planner[p].order
        /\ planner'[p].span = planner[p].span /\ planner'[p].tracks = planner[p].tracks
        /\ planner'[p] = Row(planner'[p].order, planner'[p].span, planner'[p].tracks)
  <2> SUFFICES ASSUME NEW p \in DOMAIN planner
               PROVE  /\ planner'[p].order = IF p \in DOMAIN w THEN w[p] ELSE planner[p].order
                      /\ planner'[p].span = planner[p].span /\ planner'[p].tracks = planner[p].tracks
                      /\ planner'[p] = Row(planner'[p].order, planner'[p].span, planner'[p].tracks)
    OBVIOUS
  <2>1. CASE p \in DOMAIN w
    <3> DEFINE o == w[p]
               sp == planner[p].span
               t == planner[p].tracks
    <3>1. planner'[p] = Row(o, sp, t)
      BY <1>7, <2>1
    <3>2. planner'[p].order = o /\ planner'[p].span = sp /\ planner'[p].tracks = t
      BY <3>1 DEF Row
    <3> QED
      BY <2>1, <3>1, <3>2
  <2>2. CASE p \notin DOMAIN w
    <3>1. planner'[p] = planner[p]
      BY <1>7, <2>2
    <3> QED
      BY <1>5, <2>2, <3>1
  <2> QED
    BY <2>1, <2>2
<1>9. PlannerRowsFit'
  <2>1. \A p \in DOMAIN planner' :
          /\ planner'[p] = Row(planner'[p].order, planner'[p].span, planner'[p].tracks)
          /\ planner'[p].order \in Int /\ planner'[p].order >= Floor
          /\ planner'[p].span \in Spans /\ planner'[p].tracks \subseteq Tracks
    BY <1>4, <1>5, <1>6, <1>8
  <2> QED
    BY <1>1, <1>6, <2>1 DEF PlannersInv, PlannerRowsFit, contents
<1> QED
  BY <1>1, <1>2, <1>3, <1>5, <1>6, <1>8, <1>9 DEF w

\* A deletion frees a position, and those behind it move up.
LEMMA DeletionOrders ==
  ASSUME PlannersInv, NEW r \in Reqs, Commit(r), ~overlapped, req[r].op = "delete"
  PROVE  LET a == req[r] IN
         /\ a.id \in DOMAIN a.seen /\ OwnedIn(planner', Owner[a.id]) = DOMAIN a.seen \ {a.id}
         /\ Filled(a.seen) => \A p \in OwnedIn(planner', Owner[a.id]) :
              planner'[p].order = IF a.seen[p] > a.seen[a.id] THEN a.seen[p] - 1 ELSE a.seen[p]
         /\ \A p \in DOMAIN planner : Owner[p] # Owner[a.id] => planner'[p].order = planner[p].order
<1> DEFINE a == req[r]
           d == a.seen
           s == Shift(a)
           n == Cardinality(DOMAIN d)
           own == OwnedIn(planner, Owner[a.id])
<1>1. /\ Open(r) /\ ReqTyped(a) /\ a.pc = "commit" /\ DOMAIN planner' = DOMAIN planner
      /\ \A p \in DOMAIN planner :
           planner'[p].order = IF p \in DOMAIN a.written THEN a.written[p] ELSE planner[p].order
  BY CommitOrders
<1>2. KnowsDelete(a, planner)
  BY <1>1, Alone DEF Knows
<1>3. /\ a.id \in DOMAIN d /\ own = DOMAIN d \ {a.id} /\ a.old = d[a.id] /\ a.gone = a.old
      /\ \A p \in own : planner[p].order = d[p]
      /\ a.written = Shifting(a, planner) /\ own \subseteq DOMAIN planner
  BY <1>1, <1>2 DEF KnowsDelete, OwnedIn
<1>4. /\ s.ids = {p \in DOMAIN d : d[p] > a.gone} /\ s.by = -1
      /\ s.from = a.old + 1 /\ s.upto = n
  BY <1>1, ShiftIs
<1> HIDE DEF s
<1>5. AtFloor(d) /\ DOMAIN d \subseteq PlannerIds
  BY <1>1 DEF ReqTyped
<1>8. OwnedIn(planner', Owner[a.id]) = own
  BY <1>1 DEF OwnedIn
<1>7. \A p \in DOMAIN planner : Owner[p] # Owner[a.id] => p \notin DOMAIN a.written
  <2>1. \A p \in DOMAIN d \cap DOMAIN planner : Owner[p] = Owner[a.id]
    BY <1>3 DEF OwnedIn
  <2>2. DOMAIN a.written \subseteq DOMAIN d \cap DOMAIN planner
    BY <1>3, <1>4 DEF Shifting, s
  <2> QED
    BY <2>1, <2>2
<1> HIDE DEF own
<1>6. ASSUME Filled(d), NEW p \in own
      PROVE  planner'[p].order = IF d[p] > d[a.id] THEN d[p] - 1 ELSE d[p]
  <2>1. n \in Nat /\ d[p] \in 0..(n - 1) /\ d[a.id] \in 0..(n - 1)
    BY <1>3, <1>5, <1>6, FilledDiffer
  <2>2. p \in DOMAIN a.written <=> p \in s.ids /\ InRange(planner[p].order, s)
    BY <1>3 DEF Shifting, s
  <2>3. p \in DOMAIN a.written => a.written[p] = planner[p].order + s.by
    BY <1>3 DEF Shifting, s
  <2>4. p \in DOMAIN a.written <=> d[p] > d[a.id]
    <3>1. p \in s.ids <=> d[p] > d[a.id]
      BY <1>3, <1>4
    <3>2. d[p] > d[a.id] => InRange(planner[p].order, s)
      <4> HIDE DEF d, n
      <4> QED
        BY <1>3, <1>4, <2>1 DEF InRange
    <3> QED
      BY <2>2, <3>1, <3>2
  <2>5. planner[p].order = d[p]
    BY <1>3
  <2> HIDE DEF d
  <2> QED
    BY <1>1, <1>3, <1>4, <2>1, <2>3, <2>4, <2>5
<1> QED
  BY <1>1, <1>3, <1>6, <1>7, <1>8

\* A move makes those of the user between the two positions give way.
LEMMA MoveOrders ==
  ASSUME PlannersInv, NEW r \in Reqs, Commit(r), ~overlapped, req[r].op = "reorder"
  PROVE  LET a == req[r] IN
         /\ a.id \in DOMAIN planner /\ planner'[a.id].order = a.to /\ DOMAIN planner' = DOMAIN planner
         /\ \A p \in DOMAIN planner \ {a.id} : Owner[p] # a.user => planner'[p].order = planner[p].order
         /\ \A p \in OwnedIn(planner, a.user) \ {a.id} :
              planner'[p].order = IF a.to <= planner[p].order /\ planner[p].order < planner[a.id].order
                                  THEN planner[p].order + 1
                                  ELSE IF planner[a.id].order < planner[p].order /\ planner[p].order <= a.to
                                  THEN planner[p].order - 1
                                  ELSE planner[p].order
<1> DEFINE a == req[r]
           s == Shift(a)
           h == planner[a.id].order
           k == a.to
           own == OwnedIn(planner, a.user)
<1>1. /\ Open(r) /\ ReqTyped(a) /\ a.pc = "commit" /\ DOMAIN planner' = DOMAIN planner
      /\ \A p \in DOMAIN planner :
           planner'[p].order = IF p \in DOMAIN a.written THEN a.written[p] ELSE planner[p].order
      /\ \A p \in DOMAIN planner : planner[p].order \in Int
  BY CommitOrders
<1>2. KnowsReorder(a, planner)
  BY <1>1, Alone DEF Knows
<1>3. /\ a.id \in DOMAIN planner /\ a.old = h /\ a.seen = OrdersOf(a.user, planner)
      /\ a.written = [p \in DOMAIN Shifting(a, planner) \cup {a.id} |->
                        IF p = a.id THEN k ELSE Shifting(a, planner)[p]]
  BY <1>1, <1>2 DEF KnowsReorder
<1>4. k \in Int /\ h \in Int
  BY <1>1, <1>3 DEF ReqTyped
<1>5. /\ s.ids = own
      /\ h < k => s.by = -1 /\ s.from = h + 1 /\ s.upto = k
      /\ h >= k => s.by = 1 /\ s.from = k /\ s.upto = h - 1
  <2>1. h < k \/ h >= k
    BY <1>4
  <2>2. DOMAIN a.seen = own
    BY <1>3, OrdersAre
  <2> QED
    BY <1>1, <1>3, <2>1, <2>2, ShiftIs
<1>9. own \subseteq DOMAIN planner /\ \A p \in DOMAIN planner : Owner[p] # a.user => p \notin own
  BY DEF OwnedIn
<1> HIDE DEF own
<1>6. /\ DOMAIN Shifting(a, planner) \subseteq own
      /\ \A p \in own : p \in DOMAIN Shifting(a, planner) <=> InRange(planner[p].order, s)
      /\ \A p \in DOMAIN Shifting(a, planner) : Shifting(a, planner)[p] = planner[p].order + s.by
  BY <1>5, <1>9 DEF Shifting
<1> DEFINE f == Shifting(a, planner)
<1> HIDE DEF s, f
<1>7. planner'[a.id].order = k
  BY <1>1, <1>3
<1>10. ASSUME NEW p \in DOMAIN planner \ {a.id}, Owner[p] # a.user PROVE planner'[p].order = planner[p].order
  <2>1. DOMAIN a.written = DOMAIN f \cup {a.id}
    BY <1>3 DEF f
  <2>2. p \notin DOMAIN f
    BY <1>6, <1>9, <1>10 DEF f
  <2> QED
    BY <1>1, <2>1, <2>2
<1>8. ASSUME NEW p \in own \ {a.id}
      PROVE  planner'[p].order = IF k <= planner[p].order /\ planner[p].order < h THEN planner[p].order + 1
                                 ELSE IF h < planner[p].order /\ planner[p].order <= k
                                 THEN planner[p].order - 1 ELSE planner[p].order
  <2> DEFINE o == planner[p].order
             new == planner'[p].order
  <2>6. p \in DOMAIN planner
    BY <1>9
  <2>1. new = IF InRange(o, s) THEN o + s.by ELSE o
    <3>1. (p \in DOMAIN f <=> InRange(o, s)) /\ (p \in DOMAIN f => f[p] = o + s.by)
      BY <1>6 DEF f
    <3>2. a.written = [q \in DOMAIN f \cup {a.id} |-> IF q = a.id THEN k ELSE f[q]]
      BY <1>3 DEF f
    <3>3. (p \in DOMAIN a.written <=> p \in DOMAIN f) /\ (p \in DOMAIN f => a.written[p] = f[p])
      BY <3>2
    <3> QED
      BY <1>1, <2>6, <3>1, <3>3
  <2>2. o \in Int
    BY <1>1, <2>6
  <2> HIDE DEF o, new, h, k
  <2>3. ASSUME h < k PROVE new = IF h < o /\ o <= k THEN o - 1 ELSE o
    BY <1>4, <1>5, <2>1, <2>2, <2>3 DEF InRange
  <2>4. ASSUME h >= k PROVE new = IF k <= o /\ o < h THEN o + 1 ELSE o
    BY <1>4, <1>5, <2>1, <2>2, <2>4 DEF InRange
  <2>5. new = IF k <= o /\ o < h THEN o + 1 ELSE IF h < o /\ o <= k THEN o - 1 ELSE o
    BY <1>4, <2>2, <2>3, <2>4
  <2> QED
    BY <2>5 DEF o, new
<1> QED
  BY <1>1, <1>3, <1>7, <1>8, <1>10 DEF own

LEMMA CommitFits ==
  ASSUME PlannersInv, NEW r \in Reqs, Commit(r)
  PROVE  PlannersInv'
<1> DEFINE a == req[r]
<1>1. /\ Open(r) /\ ReqTyped(a) /\ a.op \in {"delete", "reorder"} /\ a.pc = "commit"
      /\ DOMAIN planner' = DOMAIN planner /\ PlannerRowsFit'
  BY CommitOrders
<1>2. /\ Finish(r, "done") /\ overlapped' = overlapped
      /\ displaced' = displaced \cup (IF InList(a) THEN {} ELSE {a.user, Owner[a.id]})
  BY Zenon DEF Commit
<1>3. displaced \subseteq displaced' /\ displaced' \subseteq Planning
  <2>1. a.user \in Planning /\ Owner[a.id] \in Planning
    BY <1>1, PlannersAssumption DEF ReqTyped
  <2> QED
    BY <1>2, <2>1 DEF PlannersInv, LoneFit
<1>4. \A q \in Reqs : DOMAIN req[q].written \subseteq DOMAIN planner'
  BY <1>1 DEF PlannersInv, RequestsFit
<1>7. ASSUME ~overlapped, NEW u \in Planning \ displaced' PROVE Filled(OrdersOf(u, planner'))
  <2> DEFINE d == OrdersOf(u, planner)
             e == OrdersOf(u, planner')
             own == OwnedIn(planner, u)
  <2>3. /\ AtFloor(d) /\ DOMAIN d = own /\ DOMAIN d \subseteq PlannerIds
        /\ \A p \in own : d[p] = planner[p].order
    BY OrdersAtFloor DEF PlannersInv, OwnedIn
  <2>4. OwnedIn(planner', u) = own /\ own \subseteq DOMAIN planner /\ \A p \in own : Owner[p] = u
    BY <1>1 DEF OwnedIn
  <2>5. DOMAIN e = own /\ \A p \in own : e[p] = planner'[p].order
    BY <2>4, OrdersAre
  <2>6. u \in Planning \ displaced
    BY <1>3
  <2>7. ASSUME Filled(d), \A p \in own : planner'[p].order = planner[p].order PROVE Filled(e)
    BY <2>4, <2>7, SameOrders
  <2>1. CASE a.op = "delete"
    <3>1. /\ a.id \in DOMAIN a.seen /\ OwnedIn(planner', Owner[a.id]) = DOMAIN a.seen \ {a.id}
          /\ Filled(a.seen) => \A p \in OwnedIn(planner', Owner[a.id]) :
               planner'[p].order = IF a.seen[p] > a.seen[a.id] THEN a.seen[p] - 1 ELSE a.seen[p]
          /\ \A p \in DOMAIN planner : Owner[p] # Owner[a.id] => planner'[p].order = planner[p].order
      BY <1>7, <2>1, DeletionOrders
    <3>2. InPlace(u, a, planner) /\ Gap(a)
      BY <1>1, <1>7, <2>1, <2>6, Alone DEF Gap
    <3>3. CASE u = Owner[a.id]
      <4>1. Filled(a.seen)
        BY <3>2, <3>3 DEF InPlace, GapOf
      <4>2. AtFloor(a.seen) /\ DOMAIN a.seen \subseteq PlannerIds
        BY <1>1 DEF ReqTyped
      <4> HIDE DEF d, e, own
      <4>3. DOMAIN e = DOMAIN a.seen \ {a.id}
        BY <2>4, <2>5, <3>1, <3>3
      <4>4. \A p \in DOMAIN e : e[p] = IF a.seen[p] > a.seen[a.id] THEN a.seen[p] - 1 ELSE a.seen[p]
        BY <2>4, <2>5, <3>1, <3>3, <4>1
      <4>5. Filled(e)
        BY <3>1, <4>1, <4>2, <4>3, <4>4, FilledRemoval
      <4> QED
        BY <4>5 DEF e
    <3>4. CASE u # Owner[a.id]
      <4>1. Filled(d)
        BY <3>2, <3>4 DEF InPlace, GapOf
      <4>2. \A p \in own : planner'[p].order = planner[p].order
        BY <2>4, <3>1, <3>4
      <4> QED
        BY <2>7, <4>1, <4>2
    <3> QED
      BY <3>3, <3>4
  <2>2. CASE a.op = "reorder"
    <3>1. Filled(d)
      BY <1>1, <1>7, <2>2, <2>6, Alone DEF Gap, AllFilled
    <3>2. /\ a.id \in DOMAIN planner /\ planner'[a.id].order = a.to
          /\ \A p \in DOMAIN planner \ {a.id} : Owner[p] # a.user => planner'[p].order = planner[p].order
          /\ \A p \in OwnedIn(planner, a.user) \ {a.id} :
               planner'[p].order = IF a.to <= planner[p].order /\ planner[p].order < planner[a.id].order
                                   THEN planner[p].order + 1
                                   ELSE IF planner[a.id].order < planner[p].order /\ planner[p].order <= a.to
                                   THEN planner[p].order - 1
                                   ELSE planner[p].order
      BY <1>7, <2>2, MoveOrders
    <3>3. CASE u = a.user \/ u = Owner[a.id]
      <4>1. InList(a)
        BY <1>2, <3>3
      <4>2. u = a.user /\ Owner[a.id] = u /\ a.to \in 0..(Cardinality(DOMAIN d) - 1)
        BY <2>2, <3>3, <4>1 DEF InList
      <4>3. a.id \in own
        BY <3>2, <4>2 DEF OwnedIn
      <4> HIDE DEF d, e
      <4>4. a.id \in DOMAIN d /\ DOMAIN e = DOMAIN d /\ e[a.id] = a.to
        BY <2>3, <2>5, <3>2, <4>3
      <4>5. \A p \in DOMAIN d \ {a.id} : e[p] = IF a.to <= d[p] /\ d[p] < d[a.id] THEN d[p] + 1
                                                ELSE IF d[a.id] < d[p] /\ d[p] <= a.to THEN d[p] - 1
                                                ELSE d[p]
        BY <2>3, <2>5, <3>2, <4>2, <4>3
      <4>6. Filled(e)
        BY <2>3, <3>1, <4>2, <4>4, <4>5, FilledMove
      <4> QED
        BY <4>6 DEF e
    <3>4. CASE u # a.user /\ u # Owner[a.id]
      <4>1. \A p \in own : planner'[p].order = planner[p].order
        BY <2>4, <3>2, <3>4
      <4> QED
        BY <2>7, <3>1, <4>1
    <3> QED
      BY <3>3, <3>4
  <2> QED
    BY <1>1, <2>1, <2>2
<1>8. ~overlapped => AllFilled(displaced', planner')
  BY <1>7 DEF AllFilled
<1> QED
  BY <1>1, <1>2, <1>3, <1>4, <1>8, OneEnds

-----------------------------------------------------------------------------
\* A request as it comes in.
LEMMA TargetFits ==
  ASSUME NEW k, k = 0 \/ k \in Targets
  PROVE  k \in Int /\ k >= Floor
<1>1. Targets \subseteq Int
  BY PlannersAssumption
<1>2. CASE k = 0
  BY <1>2, FloorIs
<1>3. CASE k \in Targets
  <2>1. k \in Int
    BY <1>1, <1>3
  <2>2. Floor <= k /\ Floor \in Int
    BY <1>3, FloorIs
  <2> QED
    BY <2>1, <2>2
<1> QED
  BY <1>2, <1>3

Fresh(x, op, pc) ==
  /\ DOMAIN x = DOMAIN NoRequest /\ x.op = op /\ x.pc = pc
  /\ x.seen = None /\ x.written = None /\ x.copied = None /\ x.old = 0 /\ x.gone = 0
  /\ x.need = {} /\ x.todo = {} /\ x.failing = FALSE

LEMMA FreshFits ==
  ASSUME NEW op \in {"create", "delete", "reorder", "update", "add", "exclude", "remove"},
         NEW pc, pc \in PcsOf(op) \ {"place", "commit"}, NEW x, Fresh(x, op, pc),
         x.id \in PlannerIds \cup {NoId}, x.user \in Planning,
         op \in {"delete", "reorder"} => x.id \in PlannerIds,
         op \in {"create", "update"} => x.span \in Spans /\ x.tracks \subseteq Tracks,
         x.to = 0 \/ x.to \in Targets
  PROVE  ReqTyped(x) /\ DOMAIN x.written = {}
<1>1. /\ DOMAIN x = DOMAIN NoRequest /\ x.op = op /\ x.pc = pc
      /\ x.seen = None /\ x.written = None /\ x.copied = None /\ x.old = 0 /\ x.gone = 0
      /\ x.need = {} /\ x.todo = {}
  BY DEF Fresh
<1>2. AtFloor(x.seen) /\ AtFloor(x.written) /\ DOMAIN x.seen = {} /\ DOMAIN x.written = {}
      /\ DOMAIN x.copied = {}
  BY <1>1 DEF None, AtFloor
<1>3. x.to \in Int /\ x.to >= Floor
  BY TargetFits
<1>4. x.old \in Int /\ x.old >= Floor /\ x.gone \in Int
  BY <1>1, TargetFits
<1> QED
  BY <1>1, <1>2, <1>3, <1>4 DEF ReqTyped

\* What each operation starts from.
Starts(x, op, pc) ==
  /\ Fresh(x, op, pc) /\ pc \in PcsOf(op) \ {"place", "commit", "shift", "final", "delete"}
  /\ x.id \in PlannerIds \cup {NoId} \cup DOMAIN planner /\ x.user \in Planning
  /\ op \in {"delete", "reorder"} => x.id \in PlannerIds \cup DOMAIN planner
  /\ op \in {"create", "update"} => x.span \in Spans /\ x.tracks \subseteq Tracks
  /\ x.to = 0 \/ x.to \in Targets
  /\ op = "create" => pc = "related"
  /\ op \in {"delete", "reorder"} => pc = "planner"
  /\ op = "update" => x.id \in DOMAIN planner /\ pc = IF x.imports THEN "existing" ELSE "tracks"

LEMMA RequestIs ==
  ASSUME NEW r, NEW u \in Planning, Requests(r, u)
  PROVE  \E x : \E op \in {"create", "delete", "reorder", "update", "add", "exclude", "remove"} :
           \E pc : Ask(r, x) /\ Starts(x, op, pc)
<1>1. CASE Creations(r, u)
  <2>1. PICK s \in Spans, t \in SUBSET Tracks, i \in BOOLEAN, c \in SUBSET DOMAIN planner :
          Ask(r, [Asks(u, "create", "related") EXCEPT !.span = s, !.tracks = t, !.imports = i, !.src = c])
    BY Zenon, <1>1 DEF Creations
  <2> DEFINE x == [Asks(u, "create", "related") EXCEPT !.span = s, !.tracks = t, !.imports = i, !.src = c]
  <2>2. Fresh(x, "create", "related") /\ x.id = NoId /\ x.span = s /\ x.tracks = t /\ x.user = u /\ x.to = 0
    BY DEF Asks, NoRequest, Fresh
  <2> HIDE DEF x
  <2>3. Starts(x, "create", "related")
    BY <2>2 DEF PcsOf, Starts
  <2> QED
    BY <2>1, <2>3 DEF x
<1>2. CASE Updates(r, u)
  <2>1. PICK p \in DOMAIN planner, s \in Spans, t \in SUBSET Tracks, i \in BOOLEAN :
          Ask(r, [Asks(u, "update", IF i THEN "existing" ELSE "tracks") EXCEPT
                    !.id = p, !.span = s, !.tracks = t, !.imports = i])
    BY Zenon, <1>2 DEF Updates
  <2> DEFINE pc == IF i THEN "existing" ELSE "tracks"
             x == [Asks(u, "update", pc) EXCEPT !.id = p, !.span = s, !.tracks = t, !.imports = i]
  <2>2. pc \in PcsOf("update") \ {"place", "commit", "shift", "final", "delete"}
    BY DEF PcsOf
  <2>3. pc = IF i THEN "existing" ELSE "tracks"
    OBVIOUS
  <2>4. Ask(r, x)
    BY <2>1
  <2> HIDE DEF pc
  <2>5. /\ Fresh(x, "update", pc) /\ x.id = p /\ x.span = s /\ x.tracks = t /\ x.user = u /\ x.to = 0
        /\ x.imports = i
    BY DEF Asks, NoRequest, Fresh
  <2> HIDE DEF x
  <2>6. Starts(x, "update", pc)
    BY <2>2, <2>3, <2>5 DEF Starts
  <2> QED
    BY <2>4, <2>6
<1>3. CASE ItemRequests(r, u)
  <2>1. PICK p \in PlannerIds :
          \/ \E k \in Kinds, y \in Years :
               Ask(r, [Asks(u, "add", "check") EXCEPT !.id = p, !.kind = k, !.year = y])
          \/ \E i \in 1..MaxItem, e \in BOOLEAN :
               Ask(r, [Asks(u, "exclude", "check") EXCEPT !.id = p, !.item = i, !.excluded = e])
          \/ \E i \in 1..MaxItem : Ask(r, [Asks(u, "remove", "item") EXCEPT !.id = p, !.item = i])
    BY Zenon, <1>3 DEF ItemRequests
  <2>2. ASSUME NEW k \in Kinds, NEW y \in Years, NEW x,
               x = [Asks(u, "add", "check") EXCEPT !.id = p, !.kind = k, !.year = y]
        PROVE  Starts(x, "add", "check")
    <3>1. Fresh(x, "add", "check") /\ x.id = p /\ x.user = u /\ x.to = 0
      BY <2>2 DEF Asks, NoRequest, Fresh
    <3> QED
      BY <3>1 DEF PcsOf, Starts
  <2>3. ASSUME NEW i \in 1..MaxItem, NEW e \in BOOLEAN, NEW x,
               x = [Asks(u, "exclude", "check") EXCEPT !.id = p, !.item = i, !.excluded = e]
        PROVE  Starts(x, "exclude", "check")
    <3>1. Fresh(x, "exclude", "check") /\ x.id = p /\ x.user = u /\ x.to = 0
      BY <2>3 DEF Asks, NoRequest, Fresh
    <3> QED
      BY <3>1 DEF PcsOf, Starts
  <2>4. ASSUME NEW i \in 1..MaxItem, NEW x, x = [Asks(u, "remove", "item") EXCEPT !.id = p, !.item = i]
        PROVE  Starts(x, "remove", "item")
    <3>1. Fresh(x, "remove", "item") /\ x.id = p /\ x.user = u /\ x.to = 0
      BY <2>4 DEF Asks, NoRequest, Fresh
    <3> QED
      BY <3>1 DEF PcsOf, Starts
  <2> QED
    BY Zenon, <2>1, <2>2, <2>3, <2>4
<1>4. CASE \E p \in DOMAIN planner : Ask(r, [Asks(u, "delete", "planner") EXCEPT !.id = p])
  <2>1. PICK p \in DOMAIN planner : Ask(r, [Asks(u, "delete", "planner") EXCEPT !.id = p])
    BY <1>4
  <2> DEFINE x == [Asks(u, "delete", "planner") EXCEPT !.id = p]
  <2>2. Fresh(x, "delete", "planner") /\ x.id = p /\ x.user = u /\ x.to = 0
    BY DEF Asks, NoRequest, Fresh
  <2> HIDE DEF x
  <2>3. Starts(x, "delete", "planner")
    BY <2>2 DEF PcsOf, Starts
  <2> QED
    BY <2>1, <2>3 DEF x
<1>5. CASE \E p \in PlannerIds, k \in Targets :
             Ask(r, [Asks(u, "reorder", "planner") EXCEPT !.id = p, !.to = k])
  <2>1. PICK p \in PlannerIds, k \in Targets :
          Ask(r, [Asks(u, "reorder", "planner") EXCEPT !.id = p, !.to = k])
    BY <1>5
  <2> DEFINE x == [Asks(u, "reorder", "planner") EXCEPT !.id = p, !.to = k]
  <2>2. Fresh(x, "reorder", "planner") /\ x.id = p /\ x.user = u /\ x.to = k
    BY DEF Asks, NoRequest, Fresh
  <2> HIDE DEF x
  <2>3. Starts(x, "reorder", "planner")
    BY <2>2 DEF PcsOf, Starts
  <2> QED
    BY <2>1, <2>3 DEF x
<1> QED
  BY Zenon, <1>1, <1>2, <1>3, <1>4, <1>5 DEF Requests

LEMMA BeginFits ==
  ASSUME PlannersInv, NEW r \in Reqs, Begin(r)
  PROVE  PlannersInv'
<1>18. PICK u \in Planning : Requests(r, u)
  BY Zenon DEF Begin
<1>1. /\ overlapped' = (overlapped \/ \E q \in Reqs : Open(q))
      /\ UNCHANGED <<planner, used, contents, displaced>>
  BY Zenon DEF Begin
<1>2. PICK x : \E op \in {"create", "delete", "reorder", "update", "add", "exclude", "remove"} :
                 \E pc : Ask(r, x) /\ Starts(x, op, pc)
  BY Zenon, <1>18, RequestIs
<1>17. PICK op \in {"create", "delete", "reorder", "update", "add", "exclude", "remove"} :
        \E pc : Ask(r, x) /\ Starts(x, op, pc)
  BY Zenon, <1>2
<1>3. PICK pc : Ask(r, x) /\ Starts(x, op, pc)
  BY Zenon, <1>17
<1>4. /\ Fresh(x, op, pc) /\ pc \in PcsOf(op) \ {"place", "commit", "shift", "final", "delete"}
      /\ x.id \in PlannerIds \cup {NoId} /\ x.user \in Planning
      /\ op \in {"delete", "reorder"} => x.id \in PlannerIds
      /\ op \in {"create", "update"} => x.span \in Spans /\ x.tracks \subseteq Tracks
      /\ x.to = 0 \/ x.to \in Targets
      /\ op = "create" => pc = "related"
      /\ op \in {"delete", "reorder"} => pc = "planner"
      /\ op = "update" => x.id \in DOMAIN planner /\ pc = IF x.imports THEN "existing" ELSE "tracks"
  BY <1>3 DEF Starts, PlannersInv, PlannerRowsFit
<1>5. ReqTyped(x) /\ DOMAIN x.written = {} /\ x.op = op /\ x.pc = pc /\ ~Gap(x)
  BY <1>4, FreshFits DEF Fresh, Gap
<1>6. Knows(x, planner, takenItems, item)
  BY <1>4, <1>5 DEF Knows, KnowsCreate, KnowsDelete, KnowsReorder, KnowsUpdate
<1>7. DOMAIN req = Reqs /\ req' = [req EXCEPT ![r] = x]
  BY <1>3 DEF Ask, PlannersInv, RequestsFit
<1>8. DOMAIN req' = Reqs /\ \A q \in Reqs : req'[q] = IF q = r THEN x ELSE req[q]
  BY <1>7
<1>9. PlannerRowsFit'
  BY <1>1, RowsStay DEF PlannersInv
<1>10. RequestsFit'
  <2>1. \A q \in Reqs : ReqTyped(req'[q]) /\ DOMAIN req'[q].written \subseteq DOMAIN planner'
    BY <1>1, <1>5, <1>8 DEF PlannersInv, RequestsFit
  <2>2. \A p, q \in Reqs : p # q => DOMAIN req'[p].written \cap DOMAIN req'[q].written = {}
    BY <1>5, <1>8 DEF PlannersInv, RequestsFit
  <2> QED
    BY <1>8, <2>1, <2>2 DEF RequestsFit
<1>11. overlapped' \in BOOLEAN /\ displaced' = displaced /\ displaced \subseteq Planning
  BY <1>1 DEF PlannersInv, LoneFit
<1>12. ASSUME ~overlapped'
       PROVE  /\ ~overlapped
              /\ \A q \in Reqs : ~Open(q) /\ req[q].op = "none" /\ ~Gap(req[q])
  <2>1. ~overlapped /\ \A q \in Reqs : ~Open(q)
    BY <1>1, <1>12
  <2>2. \A q \in Reqs : req[q].op = "none"
    BY <2>1 DEF Open, PlannersInv, RequestsFit, ReqTyped, PcsOf
  <2> QED
    BY <2>1, <2>2 DEF Gap
<1>13. ASSUME ~overlapped'
       PROVE  /\ \A p, q \in Reqs : Open(p)' /\ Open(q)' => p = q
              /\ \A q \in Reqs : Knows(req'[q], planner', takenItems', item') /\ ~Gap(req'[q])
  <2>1. \A q \in Reqs \ {r} : ~Open(q)'
    BY <1>8, <1>12, <1>13 DEF Open
  <2>2. \A q \in Reqs \ {r} : Knows(req'[q], planner', takenItems', item') /\ ~Gap(req'[q])
    BY <1>8, <1>12, <1>13 DEF Knows, Gap
  <2>3. Knows(req'[r], planner', takenItems', item') /\ ~Gap(req'[r])
    BY <1>1, <1>5, <1>6, <1>8 DEF contents
  <2> QED
    BY <2>1, <2>2, <2>3
<1>14. ~overlapped' => AllFilled(displaced, planner')
  BY <1>1, <1>12 DEF PlannersInv, LoneFit, AllFilled, GapOf
<1>15. LoneFit'
  BY <1>11, <1>13, <1>14 DEF LoneFit, AllFilled, GapOf
<1> QED
  BY <1>9, <1>10, <1>15 DEF PlannersInv

-----------------------------------------------------------------------------
LEMMA InitFits == PlannersInit => PlannersInv
<1> SUFFICES ASSUME PlannersInit PROVE PlannersInv
  OBVIOUS
<1>1. PICK S \in SUBSET PlannerIds, s \in Spans : \E o \in [S -> 0..(Cardinality(S) - 1)] :
        planner = [p \in S |-> Row(o[p], s, {})]
  BY Zenon DEF PlannersInit
<1>2. PICK o \in [S -> 0..(Cardinality(S) - 1)] : planner = [p \in S |-> Row(o[p], s, {})]
  BY <1>1
<1>3. /\ (\A u \in Planning : Contiguous(u, planner)) /\ used = DOMAIN planner
      /\ takenItems \in SUBSET ((DOMAIN planner) \X DOMAIN Attended)
      /\ \/ item = None
         \/ \E p \in DOMAIN planner, y \in Years :
              item = <<Item(p, "future", y, FALSE), Item(p, "arbitrary", y, FALSE)>>
      /\ nextItem = Cardinality(DOMAIN item) + 1
      /\ req = [r \in Reqs |-> NoRequest] /\ overlapped = FALSE /\ displaced = {}
  BY Zenon DEF PlannersInit
<1>4. DOMAIN planner = S /\ planner = [p \in DOMAIN planner |-> planner[p]]
  BY <1>2
<1>5. \A p \in S : o[p] \in Int /\ o[p] >= Floor
  BY FewPlanners, FloorIs
<1>6. \A p \in DOMAIN planner :
        /\ planner[p] = Row(planner[p].order, planner[p].span, planner[p].tracks)
        /\ planner[p].order \in Int /\ planner[p].order >= Floor
        /\ planner[p].span \in Spans /\ planner[p].tracks \subseteq Tracks
  <2> SUFFICES ASSUME NEW p \in S
               PROVE  /\ planner[p] = Row(planner[p].order, planner[p].span, planner[p].tracks)
                      /\ planner[p].order \in Int /\ planner[p].order >= Floor
                      /\ planner[p].span \in Spans /\ planner[p].tracks \subseteq Tracks
    BY <1>4
  <2>1. planner[p] = Row(o[p], s, {})
    BY <1>2
  <2>2. planner[p].order = o[p] /\ planner[p].span = s /\ planner[p].tracks = {}
    BY <2>1 DEF Row
  <2> QED
    BY <1>5, <2>1, <2>2
<1>7. /\ nextItem \in Nat \ {0} /\ DOMAIN item \subseteq 1..(nextItem - 1)
      /\ \A i \in DOMAIN item : /\ item[i] = Item(item[i].planner, item[i].kind, item[i].year, item[i].excluded)
                                /\ item[i].planner \in DOMAIN planner
  <2>1. CASE item = None
    <3>1. DOMAIN item = {}
      BY <2>1 DEF None
    <3> QED
      BY <1>3, <3>1, FS_EmptySet
  <2>2. CASE \E p \in DOMAIN planner, y \in Years :
               item = <<Item(p, "future", y, FALSE), Item(p, "arbitrary", y, FALSE)>>
    <3>1. PICK p \in DOMAIN planner, y \in Years :
            item = <<Item(p, "future", y, FALSE), Item(p, "arbitrary", y, FALSE)>>
      BY <2>2
    <3>2. DOMAIN item = 1..2 /\ item[1] = Item(p, "future", y, FALSE) /\ item[2] = Item(p, "arbitrary", y, FALSE)
      BY <3>1
    <3>5. Cardinality(1..2) = 2
      <4> DEFINE m == 1
                 n == 2
      <4>1. m \in Int /\ n \in Int /\ m = 1 /\ n = 2
        OBVIOUS
      <4> HIDE DEF m, n
      <4>2. Cardinality(m..n) = IF m > n THEN 0 ELSE n - m + 1
        BY <4>1, FS_Interval
      <4> QED
        BY <4>1, <4>2
    <3>3. Cardinality(DOMAIN item) = 2
      BY <3>2, <3>5
    <3>4. nextItem = 3
      BY <1>3, <3>3
    <3>6. DOMAIN item \subseteq 1..(nextItem - 1)
      BY <3>2, <3>4
    <3>7. \A i \in DOMAIN item : i = 1 \/ i = 2
      BY <3>2
    <3>8. ASSUME NEW i, NEW k, item[i] = Item(p, k, y, FALSE)
          PROVE  /\ item[i] = Item(item[i].planner, item[i].kind, item[i].year, item[i].excluded)
                 /\ item[i].planner \in DOMAIN planner
      BY <3>8 DEF Item
    <3>9. \A i \in DOMAIN item :
            /\ item[i] = Item(item[i].planner, item[i].kind, item[i].year, item[i].excluded)
            /\ item[i].planner \in DOMAIN planner
      BY Zenon, <3>2, <3>7, <3>8
    <3> QED
      BY <3>4, <3>6, <3>9
  <2> QED
    BY Zenon, <1>3, <2>1, <2>2
<1>8. PlannerRowsFit
  BY <1>3, <1>4, <1>6, <1>7 DEF PlannerRowsFit
<1>9. \A r \in Reqs : /\ req[r].op = "none" /\ req[r].pc = "idle" /\ DOMAIN req[r].written = {}
                      /\ ReqTyped(req[r]) /\ ~Gap(req[r])
  <2> DEFINE b == [NoRequest EXCEPT !.pc = "idle"]
  <2>1. b = NoRequest
    BY DEF NoRequest
  <2>2. b.op = "none" /\ b.pc = "idle" /\ DOMAIN b.written = {} /\ ReqTyped(b) /\ ~Gap(b)
    BY Over
  <2> HIDE DEF b
  <2>3. \A r \in Reqs : req[r] = b
    BY <1>3, <2>1
  <2> QED
    BY <2>2, <2>3
<1>10. RequestsFit
  BY <1>3, <1>9 DEF RequestsFit
<1>11. \A u \in Planning : Filled(OrdersOf(u, planner))
  BY <1>3 DEF Contiguous, Filled
<1>12. LoneFit
  BY <1>3, <1>9, <1>11 DEF LoneFit, Knows, Open, GapOf
<1> QED
  BY <1>8, <1>10, <1>12 DEF PlannersInv

LEMMA StepFits ==
  ASSUME PlannersInv, [PlannersNext]_plannersVars
  PROVE  PlannersInv'
<1>1. CASE UNCHANGED plannersVars
  BY <1>1 DEF plannersVars, PlannersInv, PlannerRowsFit, RequestsFit, LoneFit, Open
<1>2. ASSUME NEW r \in Reqs, Begin(r) \/ Fail(r) \/ ReadPlanner(r) \/ ReadRelated(r)
                             \/ InsertPlanner(r) \/ Import(r) \/ ReadFinal(r)
      PROVE  PlannersInv'
  BY <1>2, BeginFits, FailFits, ReadPlannerFits, ReadRelatedFits, InsertPlannerFits, ImportFits,
     ReadFinalFits
<1>3. ASSUME NEW r \in Reqs, NEW b \in {"taken"} \cup Kinds, ReadCopy(r, b) \/ InsertCopy(r, b)
      PROVE  PlannersInv'
  BY <1>3, ReadCopyFits, InsertCopyFits DEF Copies
<1>4. ASSUME NEW r \in Reqs, DeletePlanner(r) \/ ShiftOrders(r) \/ UpdateOrder(r) \/ Commit(r)
                             \/ ReadExisting(r) \/ PurgeTaken(r)
      PROVE  PlannersInv'
  BY <1>4, DeletePlannerFits, ShiftOrdersFits, UpdateOrderFits, CommitFits, ReadExistingFits,
     PurgeTakenFits
<1>5. ASSUME NEW r \in Reqs, PurgeItems(r, "purge future", "future", "purge arbitrary")
      PROVE  PlannersInv'
  BY <1>5, PurgeItemsFits
<1>6. ASSUME NEW r \in Reqs, PurgeItems(r, "purge arbitrary", "arbitrary", "purge taken")
      PROVE  PlannersInv'
  BY <1>6, PurgeItemsFits
<1>7. ASSUME NEW r \in Reqs, ReadTracks(r) \/ Disconnect(r) \/ Connect(r) \/ UpdateRow(r)
                             \/ CheckPlanner(r) \/ InsertItem(r) \/ UpdateItem(r) \/ CheckItem(r)
                             \/ DeleteItem(r)
      PROVE  PlannersInv'
  BY <1>7, ReadTracksFits, DisconnectFits, ConnectFits, UpdateRowFits, CheckPlannerFits,
     InsertItemFits, UpdateItemFits, CheckItemFits, DeleteItemFits
<1> QED
  BY Zenon, <1>1, <1>2, <1>3, <1>4, <1>5, <1>6, <1>7 DEF PlannersNext

\* Rows, requests and what a lone request knows fit, always.
THEOREM PlannersFit == PlannersSpec => []PlannersInv
<1>1. PlannersInit => PlannersInv
  BY InitFits
<1>2. PlannersInv /\ [PlannersNext]_plannersVars => PlannersInv'
  BY StepFits
<1> QED
  BY <1>1, <1>2, PTL DEF PlannersSpec

\* The planners of a user that rest hold the positions 0..n-1 as long as requests do not overlap,
\* no deletion among them stops before its shift, no position outside of the list is asked for,
\* and the user neither moves a planner of another nor has one moved by another; no position sinks
\* below 0 and below the lowest one that is asked for.
THEOREM PlannersAlwaysInOrder == PlannersSpec => []OrdersHold
<1>1. ASSUME PlannersInv PROVE OrdersHold
  <2>1. PlannersTypeOK
    <3>1. /\ DOMAIN planner \subseteq used /\ used \subseteq PlannerIds
          /\ \A p \in DOMAIN planner : /\ planner[p].order \in Int /\ planner[p].span \in Spans
                                       /\ planner[p].tracks \subseteq Tracks
          /\ takenItems \subseteq (DOMAIN planner) \X DOMAIN Attended
          /\ DOMAIN item \subseteq 1..(nextItem - 1)
          /\ \A i \in DOMAIN item : item[i].planner \in DOMAIN planner
      BY <1>1 DEF PlannersInv, PlannerRowsFit
    <3>2. /\ \A r \in Reqs : Locks(r) \subseteq DOMAIN planner
          /\ \A q, r \in Reqs : q # r => Locks(q) \cap Locks(r) = {}
      BY <1>1 DEF PlannersInv, RequestsFit, Locks
    <3>3. overlapped \in BOOLEAN /\ displaced \subseteq Planning
      BY <1>1 DEF PlannersInv, LoneFit
    <3> QED
      BY <3>1, <3>2, <3>3 DEF PlannersTypeOK
  <2>2. ASSUME ~overlapped, NEW u \in Planning \ displaced, \A r \in Reqs : req[r].pc \notin {"shift", "commit"}
        PROVE  Contiguous(u, planner)
    <3>1. Filled(OrdersOf(u, planner))
      BY <1>1, <2>2 DEF PlannersInv, LoneFit, Gap, GapOf
    <3> QED
      BY <3>1 DEF Contiguous, Filled
  <2>3. \A p \in DOMAIN planner : planner[p].order >= Min(Targets \cup {0})
    BY <1>1 DEF PlannersInv, PlannerRowsFit, Floor
  <2> QED
    BY <2>1, <2>2, <2>3 DEF OrdersHold
<1> QED
  BY <1>1, PlannersFit, PTL

-----------------------------------------------------------------------------
\* Only the last statement of a request answers it.
Ends(r) == ReadFinal(r) \/ Commit(r) \/ UpdateRow(r) \/ InsertItem(r) \/ UpdateItem(r)

LEMMA NotYet ==
  ASSUME NEW r \in Reqs, DOMAIN req = Reqs, DOMAIN req[r] = DOMAIN NoRequest, NEW q \in Reqs,
         NEW pc, pc # "done", Goto(q, pc) \/ Finish(q, pc), req[r].pc # "done"
  PROVE  req'[r].pc # "done"
<1>1. "pc" \in DOMAIN NoRequest
  BY Fields
<1>2. CASE Goto(q, pc)
  BY <1>1, <1>2 DEF Goto
<1>3. CASE Finish(q, pc)
  <2> DEFINE b == [NoRequest EXCEPT !.pc = pc]
  <2>1. b.pc = pc
    BY <1>1
  <2> HIDE DEF b
  <2>2. req' = [req EXCEPT ![q] = b]
    BY <1>3 DEF Finish, b
  <2> QED
    BY <2>1, <2>2
<1> QED
  BY <1>2, <1>3

LEMMA AnsweredBy ==
  ASSUME PlannersInv, PlannersInv', NEW r \in Reqs, Open(r), NEW q \in Reqs, req'[r].pc = "done",
         \/ Begin(q) \/ Fail(q) \/ ReadPlanner(q) \/ ReadRelated(q)
         \/ InsertPlanner(q) \/ Import(q) \/ ReadFinal(q)
         \/ (\E b \in {"taken"} \cup Kinds : ReadCopy(q, b) \/ InsertCopy(q, b))
         \/ DeletePlanner(q) \/ ShiftOrders(q) \/ UpdateOrder(q) \/ Commit(q)
         \/ ReadExisting(q) \/ PurgeItems(q, "purge future", "future", "purge arbitrary")
         \/ PurgeItems(q, "purge arbitrary", "arbitrary", "purge taken") \/ PurgeTaken(q)
         \/ ReadTracks(q) \/ Disconnect(q) \/ Connect(q) \/ UpdateRow(q)
         \/ CheckPlanner(q) \/ InsertItem(q) \/ UpdateItem(q) \/ CheckItem(q) \/ DeleteItem(q)
  PROVE  Ends(r)
<1>1. /\ DOMAIN req = Reqs /\ DOMAIN req[r] = DOMAIN NoRequest /\ DOMAIN req[q] = DOMAIN NoRequest
      /\ req[r].pc \notin {"idle", "done", "failed"}
  BY DEF PlannersInv, RequestsFit, ReqTyped, Open
<1>2. {"pc", "op", "old", "written"} \subseteq DOMAIN NoRequest
  BY Fields
<1>3. \A pc : pc # "done" => ~Goto(q, pc) /\ ~Finish(q, pc)
  BY <1>1, NotYet
<1>4. ASSUME NEW b, req' = [req EXCEPT ![q] = b] PROVE r = q /\ b.pc = "done"
  BY <1>1, <1>4
<1>5. ~Begin(q)
  <2> SUFFICES ASSUME Begin(q) PROVE FALSE
    OBVIOUS
  <2>1. PICK u \in Planning : Requests(q, u)
    BY Zenon DEF Begin
  <2>4. req[q].pc = "idle"
    BY Zenon DEF Begin
  <2>2. PICK x, op, pc : Ask(q, x) /\ Starts(x, op, pc)
    BY <2>1, RequestIs
  <2>3. x.pc = pc /\ x.op = op
    BY <2>2 DEF Starts, Fresh
  <2> QED
    BY <1>1, <1>4, <2>2, <2>4 DEF Ask
<1>6. ~Fail(q) /\ ~PurgeTaken(q) /\ ~CheckPlanner(q) /\ ~CheckItem(q) /\ ~DeleteItem(q)
      /\ ~Disconnect(q) /\ ~Connect(q) /\ ~Import(q)
  <2>1. ~Fail(q) /\ ~PurgeTaken(q) /\ ~CheckItem(q) /\ ~DeleteItem(q) /\ ~Disconnect(q) /\ ~Connect(q)
    BY Zenon, <1>3 DEF Fail, PurgeTaken, CheckItem, DeleteItem, Disconnect, Connect
  <2>2. ~CheckPlanner(q)
    BY <1>3 DEF CheckPlanner
  <2>3. ~Import(q)
    BY <1>3 DEF Import
  <2> QED
    BY <2>1, <2>2, <2>3
<1>7. \A k : ~PurgeItems(q, "purge future", k, "purge arbitrary") /\ ~PurgeItems(q, "purge arbitrary", k, "purge taken")
  BY <1>3 DEF PurgeItems
<1>8. ~ReadPlanner(q) /\ ~UpdateOrder(q)
  <2>1. ~ReadPlanner(q)
    <3> SUFFICES ASSUME ReadPlanner(q) PROVE FALSE
      OBVIOUS
    <3> DEFINE b == [req[q] EXCEPT !.pc = "related", !.old = planner[req[q].id].order]
    <3>1. req' = [req EXCEPT ![q] = b]
      BY <1>3 DEF ReadPlanner
    <3>2. b.pc = "related"
      BY <1>1, <1>2
    <3> QED
      BY <1>4, <3>1, <3>2
  <2>2. ~UpdateOrder(q)
    BY <1>1, <1>2, <1>3 DEF UpdateOrder
  <2> QED
    BY <2>1, <2>2
<1>16. ASSUME NEW b, req' = [req EXCEPT ![q] = b] PROVE b.op # req[q].op
  <2>1. r = q /\ b.pc = "done" /\ DOMAIN req' = Reqs /\ req'[r] = b
    BY <1>1, <1>4, <1>16
  <2>2. ReqTyped(b)
    BY <2>1 DEF PlannersInv, RequestsFit
  <2>3. ReqTyped(req[q])
    BY DEF PlannersInv, RequestsFit
  <2> QED
    BY <1>1, <2>1, <2>2, <2>3 DEF ReqTyped, PcsOf
<1>9. ~ReadRelated(q)
  <2> SUFFICES ASSUME ReadRelated(q) PROVE FALSE
    OBVIOUS
  <2> DEFINE next == AfterRelated(req[q].op)
             rows == OrdersOf(ListOf(req[q]), planner)
             b == [req[q] EXCEPT !.seen = rows, !.pc = next]
  <2>1. req' = [req EXCEPT ![q] = b]
    BY Zenon DEF ReadRelated
  <2> HIDE DEF next, rows
  <2>2. b.op = req[q].op
    BY <1>1, <1>2
  <2> QED
    BY <1>16, <2>1, <2>2
<1>10. ~InsertPlanner(q) /\ ~ReadExisting(q) /\ ~ReadTracks(q) /\ ~ShiftOrders(q)
  <2>1. ASSUME InsertPlanner(q) PROVE FALSE
    <3> DEFINE a == req[q]
               need == TakenBetween(a.user, a.span)
               next == IF a.imports THEN "import" ELSE "copy"
               todo == {"taken"} \cup Kinds
    <3>1. PICK p \in {o \in PlannerIds \ used : Owner[o] = a.user} :
            req' = [req EXCEPT ![q].id = p, ![q].seen = None, ![q].need = need, ![q].pc = next,
                               ![q].todo = todo]
      BY Zenon, <2>1 DEF InsertPlanner
    <3> DEFINE b == [a EXCEPT !.id = p, !.seen = None, !.need = need, !.pc = next, !.todo = todo]
    <3>2. req' = [req EXCEPT ![q] = b]
      BY Zenon, <3>1
    <3> HIDE DEF need, next, todo
    <3>3. b.op = a.op
      BY <1>1, <1>2
    <3> QED
      BY <1>16, <3>2, <3>3
  <2>2. ASSUME ReadExisting(q) PROVE FALSE
    <3> DEFINE a == req[q]
               need == TakenBetween(a.user, a.span) \ TakenOf(a.id)
               b == [a EXCEPT !.pc = "import", !.need = need]
    <3>1. req' = [req EXCEPT ![q] = b]
      BY Zenon, <2>2 DEF ReadExisting
    <3> HIDE DEF need
    <3>2. b.op = a.op
      BY <1>1, <1>2
    <3> QED
      BY <1>16, <3>1, <3>2
  <2>3. ASSUME ReadTracks(q) PROVE FALSE
    <3> DEFINE a == req[q]
               had == IF a.id \in DOMAIN planner THEN planner[a.id].tracks ELSE {}
               b == [a EXCEPT !.pc = "disconnect", !.had = had]
    <3>1. req' = [req EXCEPT ![q] = b]
      BY Zenon, <2>3 DEF ReadTracks
    <3> HIDE DEF had
    <3>2. b.op = a.op
      BY <1>1, <1>2
    <3> QED
      BY <1>16, <3>1, <3>2
  <2>4. ASSUME ShiftOrders(q) PROVE FALSE
    <3> DEFINE a == req[q]
               s == Shift(a)
               rows == {p \in s.ids \cap DOMAIN planner : InRange(planner[p].order, s)}
               w == [p \in rows |-> planner[p].order + s.by]
               next == IF a.op = "delete" THEN "commit" ELSE "place"
               b == [a EXCEPT !.written = w, !.pc = next]
    <3>1. req' = [req EXCEPT ![q] = b]
      BY Zenon, <2>4 DEF ShiftOrders
    <3> HIDE DEF w, next
    <3>2. b.op = a.op
      BY <1>1, <1>2
    <3> QED
      BY <1>16, <3>1, <3>2
  <2> QED
    BY <2>1, <2>2, <2>3, <2>4
<1>11. \A c : ~ReadCopy(q, c) /\ ~InsertCopy(q, c)
  <2>1. ASSUME NEW c, ReadCopy(q, c) PROVE FALSE
    <3> DEFINE a == req[q]
               copied == [k \in DOMAIN a.copied \cup {c} |-> IF k = c THEN Copyable(c, a.src) ELSE a.copied[k]]
               b == [a EXCEPT !.copied = copied]
    <3>1. req' = [req EXCEPT ![q] = b]
      BY <2>1 DEF ReadCopy
    <3> HIDE DEF copied
    <3>2. b.op = a.op
      BY <1>1, <1>2
    <3> QED
      BY <1>16, <3>1, <3>2
  <2>2. ASSUME NEW c, InsertCopy(q, c) PROVE FALSE
    <3>1. PICK ok \in BOOLEAN : EndCopy(q, c, ok)
      BY Zenon, <2>2 DEF InsertCopy
    <3> DEFINE a == req[q]
               rest == a.todo \ {c}
               bad == a.failing \/ ~ok
               next == IF rest = {} THEN "final" ELSE "copy"
               b == [a EXCEPT !.todo = rest, !.failing = bad, !.pc = next]
    <3>2. req' = [req EXCEPT ![q] = b]
      BY Zenon, <1>3, <3>1 DEF EndCopy
    <3> HIDE DEF rest, bad, next
    <3>3. b.op = a.op
      BY <1>1, <1>2
    <3> QED
      BY <1>16, <3>2, <3>3
  <2> QED
    BY <2>1, <2>2
<1>12. ~DeletePlanner(q)
  BY <1>1, <1>2, <1>3 DEF DeletePlanner
<1>13. Ends(q)
  BY Zenon, <1>5, <1>6, <1>7, <1>8, <1>9, <1>10, <1>11, <1>12 DEF Ends
<1>14. \E pc : Finish(q, pc)
  BY <1>13 DEF Ends, ReadFinal, Commit, UpdateRow, InsertItem, UpdateItem
<1>15. r = q
  BY <1>4, <1>14 DEF Finish
<1> QED
  BY <1>13, <1>15

-----------------------------------------------------------------------------
\* What each answer promises.
LEMMA ReadAnswers ==
  ASSUME PlannersInv, NEW r \in Reqs, ReadFinal(r), ~overlapped, req'[r].pc = "done"
  PROVE  Promised(req[r])
<1> DEFINE a == req[r]
           p == a.id
<1>1. a.pc = "final" /\ UNCHANGED <<planner, used, contents, history>>
  BY Zenon DEF ReadFinal
<1>2. Open(r) /\ ReqTyped(a)
  BY <1>1, AtStep
<1>3. a.op \in {"create", "remove"}
  BY <1>1, <1>2 DEF ReqTyped, PcsOf
<1>4. Knows(a, planner, takenItems, item)
  BY <1>2, Alone
<1>5. takenItems' = takenItems /\ item' = item /\ planner' = planner
  BY <1>1 DEF contents
<1>6. CASE a.op = "create"
  <2>1. KnowsCreate(a, planner, takenItems, item)
    BY <1>4, <1>6 DEF Knows
  <2>2. /\ planner[p].span = a.span /\ planner[p].tracks = a.tracks /\ a.todo = {}
        /\ Copied(a, takenItems, item)
    BY <1>1, <2>1 DEF KnowsCreate
  <2>3. {l \in DOMAIN Attended : <<p, l>> \in takenItems'}
          = Whats(a.copied["taken"]) \cup (IF a.imports THEN TakenBetween(a.user, a.span) ELSE {})
    BY <1>5, <2>2 DEF Copied, LecturesIn, Imported
  <2>4. ASSUME NEW k \in Kinds, NEW y \in Years, NEW x \in BOOLEAN
        PROVE  Cardinality(ItemsLike(p, k, y, x))
                 = Cardinality({c \in a.copied[k] : c[2] = [year |-> y, excluded |-> x]})
    <3>1. ItemsLike(p, k, y, x) = Likes(item, p, k, y, x)
      BY <1>5 DEF ItemsLike, Likes
    <3> QED
      BY <2>2, <3>1 DEF Copied
  <2> QED
    BY <1>5, <1>6, <2>2, <2>3, <2>4 DEF Promised
<1>7. CASE a.op = "remove"
  BY <1>1, <1>4, <1>5, <1>7 DEF Knows, Promised
<1> QED
  BY <1>3, <1>6, <1>7

LEMMA CommitAnswers ==
  ASSUME PlannersInv, NEW r \in Reqs, Commit(r), ~overlapped
  PROVE  Promised(req[r])
<1> DEFINE a == req[r]
           own == OwnedIn(planner, Owner[a.id])
<1>1. /\ Open(r) /\ ReqTyped(a) /\ a.op \in {"delete", "reorder"} /\ a.pc = "commit"
      /\ DOMAIN planner' = DOMAIN planner
  BY CommitOrders
<1>2. displaced' = displaced \cup (IF InList(a) THEN {} ELSE {a.user, Owner[a.id]})
  BY Zenon DEF Commit
<1>3. CASE a.op = "delete"
  <2>1. KnowsDelete(a, planner)
    BY <1>1, <1>3, Alone DEF Knows
  <2>2. a.id \notin DOMAIN planner'
    BY <1>1, <2>1 DEF KnowsDelete, OwnedIn
  <2> QED
    BY <1>3, <2>2 DEF Promised
<1>4. CASE a.op = "reorder"
  <2> DEFINE d == OrdersOf(Owner[a.id], planner)
  <2>1. /\ a.id \in DOMAIN planner /\ planner'[a.id].order = a.to
        /\ \A p \in OwnedIn(planner, a.user) \ {a.id} :
             planner'[p].order = IF a.to <= planner[p].order /\ planner[p].order < planner[a.id].order
                                 THEN planner[p].order + 1
                                 ELSE IF planner[a.id].order < planner[p].order /\ planner[p].order <= a.to
                                 THEN planner[p].order - 1
                                 ELSE planner[p].order
    BY <1>4, MoveOrders
  <2>2. /\ AtFloor(d) /\ DOMAIN d = own /\ DOMAIN d \subseteq PlannerIds
        /\ \A p \in own : d[p] = planner[p].order
    BY OrdersAtFloor DEF PlannersInv, OwnedIn
  <2>3. a.to \in Int /\ Owner[a.id] \in Planning /\ displaced \subseteq displaced'
    BY <1>1, <1>2, <1>4, PlannersAssumption DEF ReqTyped
  <2>4. ASSUME Owner[a.id] \notin displaced', NEW s \in own \ {a.id}, NEW t \in own \ {a.id}
        PROVE  planner'[s].order < planner'[t].order <=> planner[s].order < planner[t].order
    <3>1. Filled(d)
      BY <1>1, <1>4, <2>3, <2>4, Alone DEF Gap, AllFilled
    <3>7. a.user = Owner[a.id] /\ a.id \in own
      BY <1>2, <1>4, <2>1, <2>4 DEF InList, OwnedIn
    <3> HIDE DEF d, own
    <3>2. /\ \A p \in DOMAIN d : d[p] \in Int
          /\ \A p, q \in DOMAIN d : d[p] = d[q] => p = q
      BY <2>2, <3>1, FilledDiffer DEF AtFloor
    <3> DEFINE h == planner[a.id].order
               k == a.to
               x == planner[s].order
               y == planner[t].order
               u == planner'[s].order
               v == planner'[t].order
    <3>3. h \in Int /\ k \in Int /\ x \in Int /\ y \in Int /\ x # h /\ y # h
      BY <2>2, <2>3, <2>4, <3>2, <3>7
    <3>4. u = IF k <= x /\ x < h THEN x + 1 ELSE IF h < x /\ x <= k THEN x - 1 ELSE x
      BY <2>1, <2>4, <3>7 DEF own
    <3>5. v = IF k <= y /\ y < h THEN y + 1 ELSE IF h < y /\ y <= k THEN y - 1 ELSE y
      BY <2>1, <2>4, <3>7 DEF own
    <3> HIDE DEF h, k, x, y, u, v
    <3>6. u < v <=> x < y
      BY <3>3, <3>4, <3>5
    <3> QED
      BY <3>6 DEF u, v, x, y
  <2>5. {o \in DOMAIN planner \ {a.id} : Owner[o] = Owner[a.id]} = own \ {a.id}
    BY DEF OwnedIn
  <2> HIDE DEF own
  <2> QED
    BY <1>4, <2>1, <2>4, <2>5 DEF Promised
<1> QED
  BY <1>1, <1>3, <1>4

LEMMA UpdateAnswers ==
  ASSUME PlannersInv, NEW r \in Reqs, UpdateRow(r), ~overlapped, req'[r].pc = "done"
  PROVE  Promised(req[r])
<1> DEFINE a == req[r]
           p == a.id
<1>1. a.pc = "row" /\ UNCHANGED <<used, contents, history>>
  BY Zenon DEF UpdateRow
<1>2. Open(r) /\ ReqTyped(a)
  BY <1>1, AtStep
<1>3. a.op = "update"
  BY <1>1, <1>2 DEF ReqTyped, PcsOf
<1>4. KnowsUpdate(a, planner, takenItems)
  BY <1>2, <1>3, Alone DEF Knows
<1>5. /\ p \in DOMAIN planner /\ planner[p].tracks = a.tracks
      /\ a.imports /\ a.span.start # a.span.end => TakenBetween(a.user, a.span) \subseteq LecturesIn(takenItems, p)
  BY <1>1, <1>4 DEF KnowsUpdate
<1>6. planner' = [planner EXCEPT ![p] = Row(planner[p].order, a.span, planner[p].tracks)]
  BY <1>5 DEF UpdateRow
<1>7. planner'[p].span = a.span /\ planner'[p].tracks = a.tracks
  <2> DEFINE o == planner[p].order
             t == planner[p].tracks
             w == Row(o, a.span, t)
  <2>1. planner'[p] = w
    BY <1>5, <1>6
  <2>2. w.span = a.span /\ w.tracks = t
    BY DEF Row
  <2> HIDE DEF w
  <2> QED
    BY <1>5, <2>1, <2>2
<1>8. a.imports /\ a.span.start # a.span.end => {p} \X TakenBetween(a.user, a.span) \subseteq takenItems'
  BY <1>1, <1>5 DEF contents, LecturesIn
<1> QED
  BY <1>3, <1>7, <1>8 DEF Promised

\* A request that fails is not answered.
LEMMA FailedIsNot ==
  ASSUME PlannersInv, NEW r \in Reqs, req'[r].pc = "done" PROVE ~Finish(r, "failed")
<1> SUFFICES ASSUME Finish(r, "failed") PROVE FALSE
  OBVIOUS
<1> DEFINE b == [NoRequest EXCEPT !.pc = "failed"]
<1>1. b.pc = "failed"
  BY Fields
<1>2. req' = [req EXCEPT ![r] = b] /\ DOMAIN req = Reqs
  BY DEF Finish, PlannersInv, RequestsFit
<1> HIDE DEF b
<1> QED
  BY <1>1, <1>2

LEMMA InsertAnswers ==
  ASSUME PlannersInv, NEW r \in Reqs, InsertItem(r), req'[r].pc = "done"
  PROVE  Promised(req[r])
<1> DEFINE a == req[r]
           whats == <<[year |-> a.year, excluded |-> FALSE]>>
<1>1. a.pc = "insert item" /\ UNCHANGED <<planner, used, takenItems>>
  BY Zenon DEF InsertItem
<1>2. a.op = "add"
  BY <1>1, AtStep DEF ReqTyped, PcsOf
<1>3. a.id \in DOMAIN planner /\ InsertItems(a.id, a.kind, whats)
  BY FailedIsNot DEF InsertItem
<1>4. Len(whats) = 1 /\ whats[1].year = a.year /\ whats[1].excluded = FALSE
  OBVIOUS
<1> HIDE DEF whats
<1>5. Grown(item, item', nextItem, a.id, a.kind, 1, whats)
  BY <1>1, <1>3, <1>4, MoreItems DEF PlannersInv
<1>6. nextItem \in Nat
  BY DEF PlannersInv, PlannerRowsFit
<1>7. nextItem \in DOMAIN item' /\ item'[nextItem] = Item(a.id, a.kind, a.year, FALSE)
  <2>1. \A m \in 1..1 : item'[nextItem + m - 1] = Item(a.id, a.kind, whats[m].year, whats[m].excluded)
    BY <1>5 DEF Grown
  <2>2. nextItem + 1 - 1 = nextItem /\ nextItem \in nextItem..(nextItem + 1 - 1) /\ 1 \in 1..1
    BY <1>6
  <2>3. nextItem \in DOMAIN item'
    BY <1>5, <2>2 DEF Grown
  <2>4. item'[nextItem] = Item(a.id, a.kind, whats[1].year, whats[1].excluded)
    BY <2>1, <2>2
  <2> QED
    BY <1>4, <2>3, <2>4
<1>8. ItemsLike(a.id, a.kind, a.year, FALSE) # {}
  BY <1>7 DEF ItemsLike
<1> QED
  BY <1>2, <1>8 DEF Promised

LEMMA ExcludeAnswers ==
  ASSUME PlannersInv, NEW r \in Reqs, UpdateItem(r), req'[r].pc = "done"
  PROVE  Promised(req[r])
<1> DEFINE a == req[r]
           i == a.item
<1>1. a.pc = "update item"
  BY Zenon DEF UpdateItem
<1>2. a.op = "exclude"
  BY <1>1, AtStep DEF ReqTyped, PcsOf
<1>3. i \in DOMAIN item /\ item' = [item EXCEPT ![i].excluded = a.excluded]
  BY FailedIsNot DEF UpdateItem
<1>4. item'[i] = [item[i] EXCEPT !.excluded = a.excluded]
  BY <1>3
<1> QED
  BY <1>2, <1>4 DEF Promised

\* A request that meets no other and is answered has done what it asked for: made its planner with
\* all copies, deleted or moved it, kept the years of an update, made, changed or removed its item.
THEOREM AnswersAlwaysHold == PlannersSpec => AnswersHold
<1>1. ASSUME PlannersInv, [PlannersNext]_plannersVars
      PROVE  [~overlapped' => \A r \in Reqs :
                Open(r) /\ req'[r].pc = "done" => Promised(req[r])]_plannersVars
  <2> SUFFICES ASSUME PlannersNext, ~overlapped', NEW r \in Reqs, Open(r), req'[r].pc = "done"
               PROVE  Promised(req[r])
    BY <1>1
  <2>1. PlannersInv'
    BY <1>1, StepFits
  <2>2. Ends(r)
    BY Zenon, <1>1, <2>1, AnsweredBy DEF PlannersNext
  <2>3. overlapped' = overlapped
    BY <2>2 DEF Ends, ReadFinal, Commit, UpdateRow, InsertItem, UpdateItem, history
  <2> QED
    BY <1>1, <2>2, <2>3, ReadAnswers, CommitAnswers, UpdateAnswers, InsertAnswers, ExcludeAnswers DEF Ends
<1> QED
  BY <1>1, PlannersFit, PTL DEF PlannersSpec, AnswersHold
=============================================================================
