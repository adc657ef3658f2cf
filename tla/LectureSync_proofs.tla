-------------------------- MODULE LectureSync_proofs --------------------------
(* Proofs about LectureSync for any number of lectures, professors and runs:   *)
(* which rows a run keeps, and that a run on its own repairs what others left. *)
EXTENDS LectureSync, FiniteSetTheorems, TLAPS

Loop    == {"lectures", "removing", "adding"}
RowSet  == [key : Keys \cup {NoKey}, deleted : BOOLEAN, ver : Versions \cup {0},
            common : Versions \cup {0}, profs : SUBSET Profs]
RunSet  == [pc : {"idle", "fetched", "courses"} \cup Loop,
            data : Lists \cup {[keys |-> {}]}, courses : SUBSET Keys, profs : SUBSET Profs,
            rows : UNION {[I -> RowSet] : I \in SUBSET Rows}, kept : SUBSET Rows,
            todo : SUBSET Keys, cur : Keys \cup {NoKey}, at : Rows \cup {0},
            asks : BOOLEAN, alone : BOOLEAN, failed : SUBSET Keys]

Typed ==
  /\ list \in Lists /\ lecture \in [Rows -> RowSet]
  /\ course \in [Keys -> 0..2] /\ prof \in [Profs -> 0..2]
  /\ title \in SUBSET Rows /\ run \in [Runs -> RunSet]
  /\ overlap \in BOOLEAN /\ changes \in 0..MaxChanges /\ faults \in 0..MaxFaults

\* Lectures and titles on their way refer to rows that exist.
References ==
  /\ title \subseteq Used
  /\ \A i \in Used : /\ course[lecture[i].key] > 0
                     /\ \A p \in lecture[i].profs : prof[p] > 0

RowsRead(y, k)  == {i \in DOMAIN y.rows : y.rows[i].key = k}
FirstRead(y, k) == {i \in RowsRead(y, k) : \A j \in RowsRead(y, k) : i <= j}

\* What a run holds in each phase; the first row of each listed key that it has
\* looked at is kept.
Shaped(y) ==
  /\ y.pc # "idle" => y.data \in Lists
  /\ y.pc = "idle" => ~y.alone
  /\ y.pc \notin Loop => DOMAIN y.rows = {} /\ y.todo = {} /\ y.kept = {} /\ y.failed = {}
  /\ IF y.pc \in {"removing", "adding"}
     THEN /\ y.cur \in y.todo /\ y.at \in Rows
          /\ y.at \in DOMAIN y.rows => y.rows[y.at].key = y.cur
          /\ y.pc = "removing" => y.at \in DOMAIN y.rows
     ELSE y.cur = NoKey /\ y.at = 0
  /\ y.kept \subseteq DOMAIN y.rows /\ y.todo \subseteq y.data.keys
  /\ \A i \in y.kept : y.rows[i].key \in y.data.keys
  /\ y.pc \in Loop => \A k \in (y.data.keys \cap y.courses) \ (y.todo \ {y.cur}) :
                        FirstRead(y, k) \subseteq y.kept

\* What a run has read or made is there, whatever the others do.
Backed(y) ==
  /\ \A k \in y.courses : course[k] > 0
  /\ \A p \in y.profs : prof[p] > 0
  /\ \A i \in DOMAIN y.rows : y.rows[i].key = lecture[i].key /\ y.rows[i].key \in Keys
  /\ y.pc \in {"removing", "adding"} => lecture[y.at].key = y.cur

\* The live rows of k that the end of the run would leave.
Mine(y, k) == {i \in Live(k) : i \in DOMAIN y.rows => i \in y.kept}

\* Only a run of scholar-sync asks for titles.
Asked(y, i) ==
  \/ ~y.asks
  \/ lecture[i].common = lecture[i].ver \/ i \in title
  \/ i \in DOMAIN y.rows /\ y.rows[i].ver # lecture[i].ver

\* A key that is done, one that is being worked on and one that is still to do.
Settled(y, k, i) ==
  /\ Mine(y, k) = {i} /\ lecture[i].ver = y.data.ver[k]
  /\ lecture[i].profs = y.data.charge[k] /\ Asked(y, i)
Current(y) ==
  LET old == IF y.at \in DOMAIN y.rows THEN y.rows[y.at].profs ELSE {}
  IN /\ Mine(y, y.cur) = {y.at} /\ lecture[y.at].ver = y.data.ver[y.cur]
     /\ lecture[y.at].profs = IF y.pc = "removing" THEN old ELSE old \cap y.data.charge[y.cur]
     /\ y.cur \notin y.failed => Asked(y, y.at)
Waiting(y, k) ==
  /\ Mine(y, k) = {}
  /\ \A i \in RowsRead(y, k) :
       /\ lecture[i].ver = y.rows[i].ver /\ lecture[i].profs = y.rows[i].profs
       /\ lecture[i].common \in {y.rows[i].common, lecture[i].ver}

\* A run that meets no other one knows what is in the tables.
Alone(y) ==
  y.alone =>
    /\ y.pc = "fetched" => y.courses = {k \in y.data.keys : course[k] > 0}
    /\ y.pc = "courses" => y.profs = {p \in Profs : prof[p] > 0}
    /\ y.pc \in Loop =>
         /\ \A i \in DOMAIN y.rows : ~lecture[i].deleted
         /\ \A k \in Keys \ y.data.keys : Mine(y, k) = {}
         /\ \A k \in y.todo \ {y.cur} : Waiting(y, k)
         /\ \A k \in (y.data.keys \ y.todo) \ y.failed : \E i \in Rows : Settled(y, k, i)
    /\ y.pc \in {"removing", "adding"} => Current(y)

\* Duplicates need two runs at the same time.
Unique ==
  /\ \A k \in Keys : course[k] <= 1 /\ \A i, j \in Live(k) : i = j
  /\ \A p \in Profs : prof[p] <= 1

RunFits(y) == Shaped(y) /\ Backed(y) /\ Alone(y)

SyncInv ==
  /\ Typed /\ References
  /\ \A r \in Runs : RunFits(run[r])
  /\ \A r, q \in Runs : r # q => (run[r].alone => run[q].pc = "idle")
  /\ ~overlap => Unique /\ \A r \in Runs : run[r].pc # "idle" => run[r].alone

LEMMA Least ==
  ASSUME NEW S \in SUBSET Nat, S # {}
  PROVE  \E i \in S : \A j \in S : i <= j
<1> DEFINE R == {ss \in Nat \X Nat : ss[1] < ss[2]}
<1>1. IsWellFoundedOn(R, Nat)
  BY NatLessThanWellFounded DEF OpToRel
<1>2. \A i, j \in Nat : j < i => <<j, i>> \in R
  OBVIOUS
<1> HIDE DEF R
<1>3. PICK i \in S : \A j \in S : ~ (<<j, i>> \in R)
  BY <1>1, WFMin
<1>4. \A j \in S : ~(j < i)
  BY <1>2, <1>3
<1> QED
  BY <1>4

\* A free run slot fits whatever the others do.
LEMMA IdleFits ==
  /\ Idle \in RunSet /\ Shaped(Idle) /\ ~Idle.alone /\ Idle.pc = "idle"
  /\ Backed(Idle) /\ Alone(Idle) /\ Backed(Idle)' /\ Alone(Idle)'
<1>1. /\ Idle.pc = "idle" /\ Idle.data = [keys |-> {}] /\ Idle.courses = {} /\ Idle.profs = {}
      /\ Idle.rows = <<>> /\ Idle.kept = {} /\ Idle.todo = {} /\ Idle.cur = NoKey
      /\ Idle.at = 0 /\ ~Idle.alone /\ Idle.failed = {}
  BY DEF Idle
<1>2. <<>> \in [{} -> RowSet] /\ DOMAIN <<>> = {}
  OBVIOUS
<1>3. Idle \in RunSet
  <2>1. <<>> \in UNION {[I -> RowSet] : I \in SUBSET Rows}
    BY <1>2
  <2> QED
    BY <2>1 DEF Idle, RunSet
<1>4. Shaped(Idle)
  BY <1>1, <1>2 DEF Shaped, Loop
<1>5. Backed(Idle) /\ Alone(Idle) /\ Backed(Idle)' /\ Alone(Idle)'
  BY <1>1, <1>2 DEF Backed, Alone
<1> QED
  BY <1>1, <1>3, <1>4, <1>5

\* Rows keep their key, and courses and professors stay: what a run has read
\* remains there.
Grown ==
  /\ \A i \in Used : lecture'[i].key = lecture[i].key
  /\ \A k \in Keys : course[k] > 0 => course'[k] > 0
  /\ \A p \in Profs : prof[p] > 0 => prof'[p] > 0

LEMMA BackedStays ==
  ASSUME Typed, Grown, NEW y \in RunSet, Backed(y),
         y.pc \in {"removing", "adding"} => y.cur \in Keys /\ y.at \in Rows
  PROVE  Backed(y)'
<1>1. y.courses \subseteq Keys /\ y.profs \subseteq Profs /\ DOMAIN y.rows \subseteq Rows
  BY DEF RunSet
<1>2. \A i \in Rows : lecture[i].key \in Keys => lecture'[i].key = lecture[i].key
  BY LectureSyncAssumption DEF Grown, Used
<1> QED
  BY <1>1, <1>2 DEF Backed, Grown

\* One run moves on.  While it is active no other one is alone.
LEMMA RunStep ==
  ASSUME SyncInv, NEW r \in Runs, run[r].pc # "idle", NEW y \in RunSet,
         y.pc # "idle" => y.alone = run[r].alone, Shaped(y), Backed(y)', Alone(y)',
         run' = [run EXCEPT ![r] = y], UNCHANGED overlap, Typed', References', Grown,
         ~overlap /\ run[r].alone => Unique'
  PROVE  SyncInv'
<1>1. \A q \in Runs : run'[q] = IF q = r THEN y ELSE run[q]
  BY DEF SyncInv, Typed
<1>2. ~y.alone \/ run[r].alone
  BY DEF Shaped
<1>3. ASSUME NEW q \in Runs \ {r} PROVE RunFits(run[q])'
  <2>1. RunFits(run[q]) /\ ~run[q].alone /\ run'[q] = run[q] /\ run[q] \in RunSet
    BY <1>1 DEF SyncInv, Typed
  <2>2. Shaped(run[q])' /\ Alone(run[q])'
    BY <2>1 DEF RunFits, Shaped, Alone, RowsRead, FirstRead
  <2>3. PICK z : z = run[q]
    OBVIOUS
  <2>4. Backed(z)'
    <3>1. z.pc \in {"removing", "adding"} => z.cur \in Keys /\ z.at \in Rows
      BY <2>1, <2>3 DEF RunFits, Shaped, RunSet
    <3> QED
      BY <2>1, <2>3, <3>1, BackedStays DEF SyncInv, RunFits
  <2>5. Backed(run[q])'
    BY <2>1, <2>3, <2>4 DEF Backed
  <2> QED
    BY <2>2, <2>5 DEF RunFits
<1>4. RunFits(run[r])'
  <2>1. run'[r] = y
    BY <1>1
  <2>2. Shaped(run[r])'
    BY <2>1 DEF Shaped, RowsRead, FirstRead
  <2>3. Backed(run[r])'
    BY <2>1 DEF Backed
  <2>4. Alone(run[r])'
    <3>1. \A k : Mine(run[r], k)' = Mine(y, k)'
      BY <2>1 DEF Mine
    <3>2. \A k : Waiting(run[r], k)' <=> Waiting(y, k)'
      BY <2>1, <3>1 DEF Waiting, RowsRead
    <3>3. \A k, i : Settled(run[r], k, i)' <=> Settled(y, k, i)'
      BY <2>1, <3>1 DEF Settled, Asked
    <3>4. Current(run[r])' <=> Current(y)'
      BY <2>1 DEF Current, Asked, Mine
    <3> QED
      BY <2>1, <3>1, <3>2, <3>3, <3>4 DEF Alone
  <2> QED
    BY <2>2, <2>3, <2>4 DEF RunFits
<1>5. \A p, q \in Runs : p # q => (run'[p].alone => run'[q].pc = "idle")
  BY <1>1, <1>2 DEF SyncInv
<1>6. ~overlap' => Unique' /\ \A q \in Runs : run'[q].pc # "idle" => run'[q].alone
  BY <1>1 DEF SyncInv
<1> QED
  BY <1>3, <1>4, <1>5, <1>6 DEF SyncInv

LEMMA FaultsTyped ==
  ASSUME SyncInv, NEW m \in Nat, Faults(m)
  PROVE  faults' \in 0..MaxFaults
BY LectureSyncAssumption DEF SyncInv, Typed, Faults

\* The end of a run, in whichever way.
LEMMA EndStep ==
  ASSUME SyncInv, NEW r \in Runs, MarkDeleted(r) \/ StopRun(r)
  PROVE  SyncInv'
<1>1. /\ run[r].pc # "idle" /\ run' = [run EXCEPT ![r] = Idle]
      /\ UNCHANGED <<list, course, prof, title, overlap, changes>>
  BY DEF MarkDeleted, StopRun, db
<1>2. faults' \in 0..MaxFaults
  BY FaultsTyped DEF MarkDeleted, StopRun, SyncInv, Typed
<1>3. lecture' \in [Rows -> RowSet]
      /\ \A i \in Rows : /\ lecture'[i].key = lecture[i].key /\ lecture'[i].profs = lecture[i].profs
                         /\ lecture[i].deleted => lecture'[i].deleted
  <2>1. lecture \in [Rows -> RowSet]
    BY DEF SyncInv, Typed
  <2>2. CASE MarkDeleted(r)
    <3>1. lecture' = [i \in Rows |-> [lecture[i] EXCEPT !.deleted = @ \/ i \in Gone(r)]]
      BY <2>2 DEF MarkDeleted
    <3>2. ASSUME NEW i \in Rows
          PROVE  /\ lecture'[i] \in RowSet
                 /\ lecture'[i].key = lecture[i].key /\ lecture'[i].profs = lecture[i].profs
                 /\ lecture[i].deleted => lecture'[i].deleted
      BY <2>1, <3>1 DEF RowSet
    <3> QED
      BY <3>1, <3>2
  <2>3. CASE StopRun(r)
    BY <2>1, <2>3 DEF StopRun, db
  <2> QED
    BY <2>2, <2>3
<1>4. Used' = Used /\ \A k \in Keys : Live(k)' \subseteq Live(k)
  BY <1>3 DEF Used, Live
<1>5. Typed'
  BY <1>1, <1>2, <1>3, IdleFits DEF SyncInv, Typed
<1>6. References' /\ Grown
  <2>1. Used \subseteq Rows
    BY DEF Used
  <2> QED
    BY <1>1, <1>3, <1>4, <2>1 DEF SyncInv, References, Grown
<1>7. Unique => Unique'
  BY <1>1, <1>4 DEF Unique
<1>8. ~overlap => Unique
  BY DEF SyncInv
<1> QED
  BY <1>1, <1>5, <1>6, <1>7, <1>8, IdleFits, RunStep

\* A run begins: while another one is active neither is alone.
LEMMA FetchStep ==
  ASSUME SyncInv, NEW r \in Runs, Fetch(r)
  PROVE  SyncInv'
<1> DEFINE w(b) == [Idle EXCEPT !.pc = "fetched", !.data = list, !.asks = b,
                           !.alone = (Active = {}),
                           !.courses = {k \in list.keys : course[k] > 0}]
<1>a. PICK b \in BOOLEAN :
        run' = [q \in Runs |-> IF q = r THEN w(b) ELSE [run[q] EXCEPT !.alone = FALSE]]
  BY DEF Fetch
<1>1. PICK y : y = w(b)
  OBVIOUS
<1>2. /\ run[r].pc = "idle" /\ UNCHANGED <<list, lecture, course, prof, title, changes>>
      /\ overlap' = (overlap \/ Active # {})
      /\ Faults(IF Active = {} THEN 0 ELSE 1)
      /\ run' = [q \in Runs |-> IF q = r THEN y ELSE [run[q] EXCEPT !.alone = FALSE]]
  BY <1>a, <1>1 DEF Fetch, db
<1>3. /\ y.pc = "fetched" /\ y.data = list /\ y.courses = {k \in list.keys : course[k] > 0}
      /\ y.profs = {} /\ y.rows = <<>> /\ y.kept = {} /\ y.todo = {} /\ y.cur = NoKey
      /\ y.at = 0 /\ y.alone = (Active = {}) /\ y.failed = {}
  BY <1>1 DEF Idle
<1>4. y \in RunSet
  <2>1. list \in Lists /\ list.keys \in SUBSET Keys
    BY DEF SyncInv, Typed, Lists
  <2>2. Idle \in RunSet
    BY IdleFits
  <2> QED
    BY <1>1, <2>1, <2>2 DEF RunSet
<1>5. DOMAIN y.rows = {}
  BY <1>3
<1>6. Shaped(y) /\ Backed(y)' /\ Alone(y)'
  <2>1. Shaped(y)
    BY <1>3, <1>5 DEF Shaped, SyncInv, Typed, Loop
  <2>2. Backed(y)' /\ Alone(y)'
    BY <1>2, <1>3, <1>5 DEF Backed, Alone, Loop
  <2> QED
    BY <2>1, <2>2
<1>7. ASSUME NEW q \in Runs \ {r}
      PROVE  /\ run'[q] \in RunSet /\ RunFits(run[q])' /\ ~run'[q].alone
             /\ Active = {} => run'[q].pc = "idle"
  <2>1. run[q] \in RunSet /\ RunFits(run[q]) /\ run'[q] = [run[q] EXCEPT !.alone = FALSE]
    BY <1>2 DEF SyncInv, Typed
  <2>2. /\ run'[q] \in RunSet /\ ~run'[q].alone /\ run'[q].pc = run[q].pc
        /\ run'[q].data = run[q].data /\ run'[q].courses = run[q].courses
        /\ run'[q].profs = run[q].profs /\ run'[q].rows = run[q].rows
        /\ run'[q].kept = run[q].kept /\ run'[q].todo = run[q].todo /\ run'[q].cur = run[q].cur
        /\ run'[q].at = run[q].at /\ run'[q].failed = run[q].failed
    BY <2>1 DEF RunSet
  <2>3. \A k : FirstRead(run[q], k)' = FirstRead(run[q], k)
    BY <2>2 DEF FirstRead, RowsRead
  <2>4. Shaped(run[q])'
    BY <2>1, <2>2, <2>3 DEF RunFits, Shaped
  <2>5. Backed(run[q])'
    BY <1>2, <2>1, <2>2 DEF RunFits, Backed
  <2>6. Alone(run[q])'
    BY <2>2 DEF Alone
  <2> QED
    BY <2>2, <2>4, <2>5, <2>6 DEF RunFits, Active
<1>8. run'[r] = y
  BY <1>2
<1>9. RunFits(run[r])'
  BY <1>3, <1>5, <1>6, <1>8 DEF RunFits, Shaped, Backed, Alone, Loop
<1>10. Typed' /\ References'
  <2>1. faults' \in 0..MaxFaults
    BY <1>2, FaultsTyped
  <2>2. run' \in [Runs -> RunSet]
    BY <1>2, <1>4, <1>7
  <2>3. overlap' \in BOOLEAN
    BY <1>2 DEF SyncInv, Typed
  <2> QED
    BY <1>2, <2>1, <2>2, <2>3 DEF SyncInv, Typed, References, Used
<1>11. ~overlap' => Unique' /\ \A q \in Runs : run'[q].pc # "idle" => run'[q].alone
  <2>1. ~overlap' => Active = {} /\ Unique
    BY <1>2 DEF SyncInv
  <2>2. Unique => Unique'
    BY <1>2 DEF Unique, Live, Used
  <2> QED
    BY <1>3, <1>7, <1>8, <2>1, <2>2
<1>12. \A p, q \in Runs : p # q => (run'[p].alone => run'[q].pc = "idle")
  BY <1>3, <1>7, <1>8
<1> QED
  BY <1>7, <1>9, <1>10, <1>11, <1>12 DEF SyncInv

LEMMA AddedGrows ==
  ASSUME NEW S, NEW f \in [S -> 0..2], NEW A
  PROVE  /\ Added(f, A) \in [S -> 0..2]
         /\ \A x \in S : /\ f[x] > 0 => Added(f, A)[x] > 0
                         /\ x \in A => Added(f, A)[x] > 0
                         /\ f[x] = 0 => Added(f, A)[x] <= 1
                         /\ x \notin A => Added(f, A)[x] = f[x]
BY DEF Added

LEMMA SyncCoursesStep ==
  ASSUME SyncInv, NEW r \in Runs, SyncCourses(r)
  PROVE  SyncInv'
<1>1. run[r] \in RunSet /\ run[r].pc = "fetched" /\ RunFits(run[r])
      /\ UNCHANGED <<list, lecture, prof, title, overlap, changes>>
  BY DEF SyncCourses, SyncInv, Typed
<1>2. PICK F \in SUBSET (run[r].data.keys \ run[r].courses) :
        /\ Faults(Cardinality(F))
        /\ course' = Added(course, (run[r].data.keys \ run[r].courses) \ F)
        /\ run' = [run EXCEPT ![r] = [@ EXCEPT !.pc = "courses",
             !.courses = run[r].courses \cup ((run[r].data.keys \ run[r].courses) \ F),
             !.profs = {p \in Profs : prof[p] > 0}]]
  BY DEF SyncCourses
<1> DEFINE new == (run[r].data.keys \ run[r].courses) \ F
<1>3. PICK N : N = new
  OBVIOUS
<1>4. PICK y : y = [run[r] EXCEPT !.pc = "courses", !.courses = run[r].courses \cup N,
                      !.profs = {p \in Profs : prof[p] > 0}]
  OBVIOUS
<1>5. course' = Added(course, N) /\ run' = [run EXCEPT ![r] = y]
  BY <1>2, <1>3, <1>4
<1>6. /\ y.pc = "courses" /\ y.courses = run[r].courses \cup N
      /\ y.profs = {p \in Profs : prof[p] > 0} /\ y.data = run[r].data /\ y.rows = run[r].rows
      /\ y.kept = run[r].kept /\ y.todo = run[r].todo /\ y.cur = run[r].cur /\ y.at = run[r].at
      /\ y.alone = run[r].alone /\ y.asks = run[r].asks /\ y.failed = run[r].failed
  BY <1>1, <1>4 DEF RunSet
<1>7. run[r].data \in Lists /\ run[r].data.keys \in SUBSET Keys
  BY <1>1 DEF RunFits, Shaped, Lists
<1>8. y \in RunSet
  BY <1>1, <1>3, <1>4, <1>7 DEF RunSet
<1>9. faults' \in 0..MaxFaults
  <2>1. F \in SUBSET Keys
    BY <1>7
  <2>2. Cardinality(F) \in Nat
    BY <2>1, LectureSyncAssumption, FS_Subset, FS_CardinalityType
  <2> QED
    BY <1>2, <2>2, FaultsTyped
<1>10. /\ course' \in [Keys -> 0..2]
       /\ \A k \in Keys : /\ course[k] > 0 => course'[k] > 0
                          /\ k \in N => course'[k] > 0
                          /\ course[k] = 0 => course'[k] <= 1
                          /\ k \notin N => course'[k] = course[k]
  BY <1>5, AddedGrows DEF SyncInv, Typed
<1>11. Shaped(y)
  BY <1>1, <1>6 DEF RunFits, Shaped, Loop
<1>12. Backed(y)'
  <2>1. N \subseteq Keys /\ run[r].courses \subseteq Keys
    BY <1>1, <1>3, <1>7 DEF RunSet
  <2> QED
    BY <1>1, <1>6, <1>10, <2>1 DEF RunFits, Backed
<1>13. Alone(y)'
  BY <1>1, <1>6 DEF Alone, Loop
<1>14. Grown
  BY <1>1, <1>10 DEF Grown
<1>15. References'
  <2>1. \A i \in Used : lecture[i].key \in Keys
    BY DEF Used, SyncInv, Typed, RowSet
  <2>2. Used' = Used
    BY <1>1 DEF Used
  <2> QED
    BY <1>1, <1>10, <2>1, <2>2 DEF SyncInv, References
<1>16. Typed'
  BY <1>1, <1>5, <1>8, <1>9, <1>10 DEF SyncInv, Typed
<1>17. ~overlap /\ run[r].alone => Unique'
  <2> SUFFICES ASSUME ~overlap, run[r].alone PROVE Unique'
    OBVIOUS
  <2>1. run[r].courses = {k \in run[r].data.keys : course[k] > 0}
    BY <1>1 DEF RunFits, Alone
  <2>2. \A k \in N : course[k] = 0
    BY <1>3, <1>7, <2>1 DEF SyncInv, Typed
  <2>3. Unique
    BY DEF SyncInv
  <2>4. \A k \in Keys : course'[k] <= 1
    BY <1>10, <2>2, <2>3 DEF Unique
  <2>5. \A k : Live(k)' = Live(k)
    BY <1>1 DEF Live, Used
  <2> QED
    BY <1>1, <2>3, <2>4, <2>5 DEF Unique
<1> QED
  BY <1>1, <1>5, <1>6, <1>8, <1>11, <1>12, <1>13, <1>14, <1>15, <1>16, <1>17, RunStep

LEMMA SyncProfessorsStep ==
  ASSUME SyncInv, NEW r \in Runs, SyncProfessors(r)
  PROVE  SyncInv'
<1>1. run[r] \in RunSet /\ run[r].pc = "courses" /\ RunFits(run[r])
      /\ UNCHANGED <<list, lecture, course, title, overlap, changes>>
  BY DEF SyncProfessors, SyncInv, Typed
<1>2. PICK F \in SUBSET (Charged(run[r].data) \ run[r].profs) :
        /\ Faults(Cardinality(F))
        /\ prof' = Added(prof, (Charged(run[r].data) \ run[r].profs) \ F)
        /\ run' = [run EXCEPT ![r] = [@ EXCEPT !.pc = "lectures", !.todo = run[r].data.keys,
             !.profs = run[r].profs \cup ((Charged(run[r].data) \ run[r].profs) \ F),
             !.rows = [i \in Existing |-> lecture[i]]]]
  BY DEF SyncProfessors
<1>3. PICK N : N = (Charged(run[r].data) \ run[r].profs) \ F
  OBVIOUS
<1>4. PICK y : y = [run[r] EXCEPT !.pc = "lectures", !.todo = run[r].data.keys,
                      !.profs = run[r].profs \cup N, !.rows = [i \in Existing |-> lecture[i]]]
  OBVIOUS
<1>5. prof' = Added(prof, N) /\ run' = [run EXCEPT ![r] = y]
  BY <1>2, <1>3, <1>4
<1>6. /\ y.pc = "lectures" /\ y.profs = run[r].profs \cup N /\ y.todo = run[r].data.keys
      /\ y.rows = [i \in Existing |-> lecture[i]]
      /\ y.courses = run[r].courses /\ y.data = run[r].data
      /\ y.kept = run[r].kept /\ y.cur = run[r].cur /\ y.at = run[r].at
      /\ y.alone = run[r].alone /\ y.asks = run[r].asks /\ y.failed = run[r].failed
  BY <1>1, <1>4 DEF RunSet
<1>7. run[r].data \in Lists /\ run[r].data.keys \in SUBSET Keys
      /\ Charged(run[r].data) \in SUBSET Profs
  <2>1. run[r].data \in Lists
    BY <1>1 DEF RunFits, Shaped
  <2> QED
    BY <2>1 DEF Lists, Charged
<1>8. /\ Existing = {i \in Rows : lecture[i].key \in Keys /\ ~lecture[i].deleted}
      /\ lecture \in [Rows -> RowSet]
  BY LectureSyncAssumption DEF Existing, Live, Used, SyncInv, Typed
<1>9. y \in RunSet
  <2>1. [i \in Existing |-> lecture[i]] \in [Existing -> RowSet] /\ Existing \in SUBSET Rows
    BY <1>8
  <2>2. [i \in Existing |-> lecture[i]] \in UNION {[I -> RowSet] : I \in SUBSET Rows}
    BY <2>1
  <2> QED
    BY <1>1, <1>3, <1>4, <1>7, <2>2 DEF RunSet, Loop
<1>10. faults' \in 0..MaxFaults
  <2>1. F \in SUBSET Profs
    BY <1>7
  <2>2. Cardinality(F) \in Nat
    BY <2>1, LectureSyncAssumption, FS_Subset, FS_CardinalityType
  <2> QED
    BY <1>2, <2>2, FaultsTyped
<1>11. /\ prof' \in [Profs -> 0..2]
       /\ \A p \in Profs : /\ prof[p] > 0 => prof'[p] > 0
                           /\ p \in N => prof'[p] > 0
                           /\ prof[p] = 0 => prof'[p] <= 1
                           /\ p \notin N => prof'[p] = prof[p]
  BY <1>5, AddedGrows DEF SyncInv, Typed
<1>12. /\ run[r].cur = NoKey /\ run[r].at = 0 /\ run[r].kept = {} /\ run[r].failed = {}
       /\ DOMAIN y.rows = Existing
       /\ \A i \in Existing : y.rows[i] = lecture[i]
  BY <1>1, <1>6 DEF RunFits, Shaped, Loop
<1>13. Shaped(y)
  BY <1>6, <1>7, <1>12, LectureSyncAssumption DEF Shaped, Loop
<1>14. Backed(y)'
  <2>1. N \subseteq Profs /\ run[r].profs \subseteq Profs
    BY <1>1, <1>3, <1>7 DEF RunSet
  <2>2. \A p \in y.profs : prof'[p] > 0
    BY <1>1, <1>6, <1>11, <2>1 DEF RunFits, Backed
  <2>3. \A k \in y.courses : course'[k] > 0
    BY <1>1, <1>6 DEF RunFits, Backed
  <2>4. \A i \in DOMAIN y.rows : y.rows[i].key = lecture'[i].key /\ y.rows[i].key \in Keys
    BY <1>1, <1>8, <1>12
  <2> QED
    BY <1>6, <2>2, <2>3, <2>4 DEF Backed
<1>15. Alone(y)'
  <2>1. \A k \in Keys : Live(k)' \subseteq Existing
    BY <1>1 DEF Live, Used, Existing
  <2>2. \A k \in Keys : Mine(y, k)' = {}
    BY <1>6, <1>12, <2>1 DEF Mine
  <2>3. \A k \in Keys : Waiting(y, k)'
    BY <1>1, <1>12, <2>2 DEF Waiting, RowsRead
  <2>4. \A i \in DOMAIN y.rows : ~lecture'[i].deleted
    BY <1>1, <1>8, <1>12
  <2> QED
    BY <1>6, <1>7, <2>2, <2>3, <2>4 DEF Alone
<1>16. Grown
  BY <1>1, <1>11 DEF Grown
<1>17. References'
  <2>1. \A i \in Used : lecture[i].profs \subseteq Profs
    BY <1>8 DEF Used, RowSet
  <2>2. Used' = Used
    BY <1>1 DEF Used
  <2> QED
    BY <1>1, <1>11, <2>1, <2>2 DEF SyncInv, References
<1>18. Typed'
  BY <1>1, <1>5, <1>9, <1>10, <1>11 DEF SyncInv, Typed
<1>19. ~overlap /\ run[r].alone => Unique'
  <2> SUFFICES ASSUME ~overlap, run[r].alone PROVE Unique'
    OBVIOUS
  <2>1. run[r].profs = {p \in Profs : prof[p] > 0}
    BY <1>1 DEF RunFits, Alone
  <2>2. \A p \in N : prof[p] = 0
    BY <1>3, <1>7, <2>1 DEF SyncInv, Typed
  <2>3. Unique
    BY DEF SyncInv
  <2>4. \A p \in Profs : prof'[p] <= 1
    BY <1>11, <2>2, <2>3 DEF Unique
  <2>5. \A k : Live(k)' = Live(k)
    BY <1>1 DEF Live, Used
  <2> QED
    BY <1>1, <2>3, <2>4, <2>5 DEF Unique
<1> QED
  BY <1>1, <1>5, <1>6, <1>9, <1>13, <1>14, <1>15, <1>16, <1>17, <1>18, <1>19, RunStep

\* What a step of the loop for key k may change: rows of k, and of the run what
\* concerns k.
OfKey(r, k, y) ==
  /\ run[r].pc \in Loop /\ k \in run[r].todo /\ run[r].cur \in {NoKey, k}
  /\ y.data = run[r].data /\ y.courses = run[r].courses /\ y.profs = run[r].profs
  /\ y.rows = run[r].rows /\ y.alone = run[r].alone /\ y.asks = run[r].asks
  /\ run[r].kept \subseteq y.kept /\ y.kept \subseteq run[r].kept \cup RowsRead(y, k)
  /\ run[r].failed \subseteq y.failed
  /\ k \in y.courses => FirstRead(y, k) \subseteq y.kept
  /\ \A i \in Rows :
       \/ lecture'[i] = lecture[i]
       \/ /\ lecture'[i].key = k /\ lecture[i].key \in {k, NoKey}
          /\ lecture[i].key = k => lecture'[i].deleted = lecture[i].deleted
          /\ course[k] > 0 /\ \A p \in lecture'[i].profs : prof[p] > 0
  /\ title \subseteq title' /\ \A i \in title' : i \in title \/ lecture'[i].key = k
  /\ run' = [run EXCEPT ![r] = y] /\ UNCHANGED <<list, course, prof, overlap, changes>>
  /\ faults' \in 0..MaxFaults /\ lecture' \in [Rows -> RowSet] /\ title' \in SUBSET Rows

\* k is done.
DoneWith(r, k, y) ==
  /\ y.pc = "lectures" /\ y.cur = NoKey /\ y.at = 0 /\ y.todo = run[r].todo \ {k}
  /\ y.alone => k \in y.failed \/ \E i \in Rows : Settled(y, k, i)'

\* k is being worked on.
WorkingOn(r, k, y) ==
  /\ y.pc \in {"removing", "adding"} /\ y.cur = k /\ y.todo = run[r].todo
  /\ y.at \in Rows /\ lecture'[y.at].key = k
  /\ y.pc = "removing" => y.at \in DOMAIN y.rows
  /\ y.alone => Current(y)'

LEMMA KeyStep ==
  ASSUME SyncInv, NEW r \in Runs, NEW k \in Keys, NEW y \in RunSet, OfKey(r, k, y),
         DoneWith(r, k, y) \/ WorkingOn(r, k, y),
         overlap \/ Live(k)' = Live(k) \/ \A i, j \in Live(k)' : i = j
  PROVE  SyncInv'
<1>1. run[r] \in RunSet /\ RunFits(run[r]) /\ run[r].pc \in Loop /\ run[r].pc # "idle"
  BY DEF SyncInv, Typed, OfKey, Loop
<1>2. k \in y.data.keys /\ y.data \in Lists /\ y.data.keys \subseteq Keys
  BY <1>1 DEF OfKey, RunFits, Shaped, Lists
<1>3. \A i \in DOMAIN y.rows : /\ i \in Rows /\ y.rows[i].key \in Keys
                               /\ lecture[i].key = y.rows[i].key
                               /\ lecture'[i].key = y.rows[i].key
                               /\ lecture'[i].deleted = lecture[i].deleted
                               /\ y.rows[i].key # k => lecture'[i] = lecture[i]
  <2>1. DOMAIN y.rows \subseteq Rows
    BY DEF RunSet
  <2>2. \A i \in DOMAIN y.rows : lecture[i].key = y.rows[i].key /\ y.rows[i].key \in Keys
    BY <1>1 DEF OfKey, RunFits, Backed
  <2> QED
    BY <2>1, <2>2, LectureSyncAssumption DEF OfKey
<1>4. Grown
  BY LectureSyncAssumption DEF Grown, Used, OfKey
<1>5. \A q \in Keys \ {k} : Live(q)' = Live(q)
  <2>1. \A q \in Keys \ {k}, i \in Rows :
          \/ lecture'[i] = lecture[i]
          \/ lecture'[i].key # q /\ lecture[i].key # q
    BY LectureSyncAssumption DEF OfKey
  <2> QED
    BY <2>1 DEF Live, Used
<1>6. Shaped(y)
  <2>1. y.kept \subseteq DOMAIN y.rows /\ \A i \in y.kept : y.rows[i].key \in y.data.keys
    BY <1>1, <1>2 DEF OfKey, RowsRead, RunFits, Shaped
  <2>2. \A q \in (y.data.keys \cap y.courses) \ run[r].todo : FirstRead(y, q) \subseteq y.kept
    <3>1. \A q : FirstRead(y, q) = FirstRead(run[r], q)
      BY DEF FirstRead, RowsRead, OfKey
    <3>2. \A q \in (y.data.keys \cap y.courses) \ run[r].todo :
            FirstRead(run[r], q) \subseteq run[r].kept
      BY <1>1 DEF OfKey, RunFits, Shaped
    <3> QED
      BY <3>1, <3>2 DEF OfKey
  <2>3. y.todo \subseteq y.data.keys
    BY <1>1 DEF OfKey, DoneWith, WorkingOn, RunFits, Shaped
  <2>4. CASE DoneWith(r, k, y)
    <3>1. \A q \in (y.data.keys \cap y.courses) \ (y.todo \ {y.cur}) :
            FirstRead(y, q) \subseteq y.kept
      BY <2>2, <2>4, <1>2, LectureSyncAssumption DEF DoneWith, OfKey
    <3> QED
      BY <1>2, <2>1, <2>3, <2>4, <3>1 DEF Shaped, DoneWith, Loop
  <2>5. CASE WorkingOn(r, k, y)
    <3>1. \A q \in (y.data.keys \cap y.courses) \ (y.todo \ {y.cur}) :
            FirstRead(y, q) \subseteq y.kept
      BY <2>2, <2>5 DEF WorkingOn, OfKey
    <3>2. y.at \in DOMAIN y.rows => y.rows[y.at].key = k
      BY <1>3, <2>5 DEF WorkingOn
    <3> QED
      BY <1>2, <2>1, <2>3, <2>5, <3>1, <3>2 DEF Shaped, WorkingOn, Loop, OfKey
  <2> QED
    BY <2>4, <2>5
<1>7. Backed(y)'
  <2>1. /\ \A q \in y.courses : course'[q] > 0
        /\ \A p \in y.profs : prof'[p] > 0
    BY <1>1 DEF OfKey, RunFits, Backed
  <2>2. y.pc \in {"removing", "adding"} => lecture'[y.at].key = y.cur
    BY DEF DoneWith, WorkingOn
  <2> QED
    BY <1>3, <2>1, <2>2 DEF Backed
<1>8. ASSUME NEW q \in Keys \ {k}
      PROVE  /\ Mine(y, q)' = Mine(run[r], q)
             /\ Waiting(run[r], q) => Waiting(y, q)'
             /\ \A i \in Rows : Settled(run[r], q, i) => Settled(y, q, i)'
  <2>1. Mine(y, q)' = Mine(run[r], q)
    <3>1. \A i \in y.kept : i \in DOMAIN y.rows => i \in run[r].kept \/ y.rows[i].key = k
      BY DEF OfKey, RowsRead
    <3>2. \A i \in Live(q) : i \in DOMAIN y.rows => (i \in y.kept <=> i \in run[r].kept)
      BY <1>3, <3>1 DEF Live, OfKey
    <3> QED
      BY <1>5, <3>2 DEF Mine, OfKey
  <2>2. RowsRead(y, q) = RowsRead(run[r], q)
        /\ \A i \in RowsRead(y, q) : lecture'[i] = lecture[i]
    BY <1>3 DEF RowsRead, OfKey
  <2>3. ASSUME Waiting(run[r], q) PROVE Waiting(y, q)'
    BY <2>1, <2>2, <2>3 DEF Waiting, OfKey
  <2>4. ASSUME NEW i \in Rows, Settled(run[r], q, i) PROVE Settled(y, q, i)'
    <3>1. i \in Live(q)
      BY <2>4 DEF Settled, Mine
    <3>2. lecture'[i] = lecture[i]
      BY <3>1, LectureSyncAssumption DEF Live, OfKey
    <3> QED
      BY <2>1, <2>4, <3>2 DEF Settled, Asked, OfKey
  <2> QED
    BY <2>1, <2>3, <2>4
<1>9. Alone(y)'
  <2> SUFFICES ASSUME y.alone
               PROVE  /\ \A i \in DOMAIN y.rows : ~lecture'[i].deleted
                      /\ \A q \in Keys \ y.data.keys : Mine(y, q)' = {}
                      /\ \A q \in y.todo \ {y.cur} : Waiting(y, q)'
                      /\ \A q \in (y.data.keys \ y.todo) \ y.failed :
                           \E i \in Rows : Settled(y, q, i)'
                      /\ y.pc \in {"removing", "adding"} => Current(y)'
    BY DEF Alone, DoneWith, WorkingOn, Loop
  <2>1. /\ \A i \in DOMAIN y.rows : ~lecture[i].deleted
        /\ \A q \in Keys \ y.data.keys : Mine(run[r], q) = {}
        /\ \A q \in run[r].todo \ {run[r].cur} : Waiting(run[r], q)
        /\ \A q \in (y.data.keys \ run[r].todo) \ run[r].failed :
             \E i \in Rows : Settled(run[r], q, i)
    BY <1>1 DEF RunFits, Alone, OfKey
  <2>2. y.todo \subseteq run[r].todo /\ run[r].todo \ {k} \subseteq y.todo
        /\ k \notin y.todo \ {y.cur} /\ run[r].todo \subseteq Keys
    BY <1>1 DEF DoneWith, WorkingOn, RunSet
  <2>3. \A i \in DOMAIN y.rows : ~lecture'[i].deleted
    BY <1>3, <2>1
  <2>4. \A q \in Keys \ y.data.keys : Mine(y, q)' = {}
    BY <1>2, <1>8, <2>1
  <2>5. \A q \in y.todo \ {y.cur} : Waiting(y, q)'
    <3> SUFFICES ASSUME NEW q \in y.todo \ {y.cur} PROVE Waiting(y, q)'
      OBVIOUS
    <3>1. q \in Keys \ {k} /\ q # NoKey /\ q \in run[r].todo
      BY <2>2, LectureSyncAssumption
    <3>2. Waiting(run[r], q)
      BY <2>1, <3>1 DEF OfKey
    <3> QED
      BY <1>8, <3>1, <3>2
  <2>6. \A q \in (y.data.keys \ y.todo) \ y.failed : \E i \in Rows : Settled(y, q, i)'
    <3> SUFFICES ASSUME NEW q \in (y.data.keys \ y.todo) \ y.failed
                 PROVE  \E i \in Rows : Settled(y, q, i)'
      OBVIOUS
    <3>1. CASE q = k
      BY <3>1 DEF DoneWith, WorkingOn, OfKey
    <3>2. CASE q # k
      <4>1. q \in (y.data.keys \ run[r].todo) \ run[r].failed /\ q \in Keys \ {k}
        BY <1>2, <2>2, <3>2 DEF OfKey
      <4>2. PICK i \in Rows : Settled(run[r], q, i)
        BY <2>1, <4>1
      <4> QED
        BY <1>8, <4>1, <4>2
    <3> QED
      BY <3>1, <3>2
  <2>7. y.pc \in {"removing", "adding"} => Current(y)'
    BY DEF DoneWith, WorkingOn
  <2> QED
    BY <2>3, <2>4, <2>5, <2>6, <2>7
<1>10. Typed'
  BY DEF SyncInv, Typed, OfKey
<1>11. References'
  <2>1. \A i \in Used : i \in Used'
    BY <1>4, LectureSyncAssumption DEF Used, Grown
  <2>2. title' \subseteq Used'
    BY <2>1, LectureSyncAssumption DEF SyncInv, References, OfKey, Used
  <2>3. \A i \in Used' : /\ course[lecture'[i].key] > 0
                         /\ \A p \in lecture'[i].profs : prof[p] > 0
    BY DEF SyncInv, References, OfKey, Used
  <2> QED
    BY <2>2, <2>3 DEF References, OfKey
<1>12. ~overlap /\ run[r].alone => Unique'
  <2> SUFFICES ASSUME ~overlap PROVE Unique'
    OBVIOUS
  <2>1. Unique /\ course' = course /\ prof' = prof
    BY DEF SyncInv, OfKey
  <2>2. \A q \in Keys : \A i, j \in Live(q)' : i = j
    BY <1>5, <2>1 DEF Unique
  <2> QED
    BY <2>1, <2>2 DEF Unique
<1> QED
  BY <1>1, <1>4, <1>6, <1>7, <1>9, <1>10, <1>11, <1>12, RunStep DEF OfKey

LEMMA InLoop ==
  ASSUME SyncInv, NEW r \in Runs, run[r].pc \in Loop
  PROVE  /\ run[r] \in RunSet /\ RunFits(run[r]) /\ run[r].todo \subseteq Keys
         /\ run[r].pc = "lectures" => run[r].cur = NoKey /\ run[r].at = 0
         /\ run[r].pc # "lectures" => /\ run[r].cur \in run[r].todo /\ run[r].at \in Rows
                                      /\ lecture[run[r].at].key = run[r].cur
         /\ \A k : FoundRows(r, k) = FirstRead(run[r], k)
                   /\ FoundRows(r, k) \subseteq RowsRead(run[r], k)
         /\ \A i \in DOMAIN run[r].rows : /\ i \in Rows /\ lecture[i].key = run[r].rows[i].key
                                          /\ lecture[i].key \in Keys
<1>1. run[r] \in RunSet /\ RunFits(run[r])
  BY DEF SyncInv, Typed
<1>2. \A k : FoundRows(r, k) = FirstRead(run[r], k)
             /\ FoundRows(r, k) \subseteq RowsRead(run[r], k)
  BY DEF FoundRows, FirstRead, RowsRead
<1>3. DOMAIN run[r].rows \subseteq Rows /\ run[r].todo \subseteq Keys
  BY <1>1 DEF RunSet
<1>4. /\ run[r].pc = "lectures" => run[r].cur = NoKey /\ run[r].at = 0
      /\ run[r].pc # "lectures" => run[r].cur \in run[r].todo /\ run[r].at \in Rows
  BY <1>1 DEF RunFits, Shaped, Loop
<1>5. run[r].pc # "lectures" => lecture[run[r].at].key = run[r].cur
  BY <1>1 DEF RunFits, Backed, Loop
<1> QED
  BY <1>1, <1>2, <1>3, <1>4, <1>5 DEF RunFits, Backed

\* An exception leaves the rows as they are.
LEMMA SkipStep ==
  ASSUME SyncInv, NEW r \in Runs, NEW k \in run[r].todo, run[r].pc \in Loop,
         run[r].cur \in {NoKey, k}, NEW I, I \subseteq FoundRows(r, k), Skip(r, k, I),
         run[r].cur = k \/ k \notin run[r].courses \/ I = FoundRows(r, k),
         UNCHANGED <<list, db, overlap, changes>>, faults' \in 0..MaxFaults
  PROVE  SyncInv'
<1>1. PICK y : y = [run[r] EXCEPT !.pc = "lectures", !.cur = NoKey, !.at = 0,
                      !.todo = run[r].todo \ {k}, !.kept = run[r].kept \cup I,
                      !.failed = run[r].failed \cup {k}]
  OBVIOUS
<1>2. run' = [run EXCEPT ![r] = y] /\ run[r] \in RunSet /\ RunFits(run[r]) /\ k \in Keys
  BY <1>1, InLoop DEF Skip
<1>3. /\ y.pc = "lectures" /\ y.cur = NoKey /\ y.at = 0 /\ y.todo = run[r].todo \ {k}
      /\ y.kept = run[r].kept \cup I /\ y.failed = run[r].failed \cup {k}
      /\ y.data = run[r].data /\ y.courses = run[r].courses /\ y.profs = run[r].profs
      /\ y.rows = run[r].rows /\ y.alone = run[r].alone /\ y.asks = run[r].asks
  BY <1>1, <1>2 DEF RunSet
<1>4. I \subseteq RowsRead(y, k) /\ FoundRows(r, k) = FirstRead(y, k)
  BY <1>3, InLoop DEF FoundRows, FirstRead, RowsRead
<1>5. I \in SUBSET Rows
  BY InLoop, <1>3, <1>4 DEF RowsRead
<1>6. y \in RunSet
  BY <1>1, <1>2, <1>5 DEF RunSet, Loop
<1>7. k \in y.courses => FirstRead(y, k) \subseteq y.kept
  <2>1. CASE run[r].cur = k
    <3>1. k \in run[r].data.keys
      BY <1>2 DEF RunFits, Shaped
    <3>2. k \in run[r].courses => FirstRead(run[r], k) \subseteq run[r].kept
      BY <1>2, <2>1, <3>1 DEF RunFits, Shaped
    <3> QED
      BY <1>3, <1>4, <3>2, InLoop
  <2> QED
    BY <1>3, <1>4, <2>1
<1>8. OfKey(r, k, y)
  BY <1>2, <1>3, <1>4, <1>7 DEF OfKey, db, SyncInv, Typed
<1>9. DoneWith(r, k, y)
  BY <1>3 DEF DoneWith
<1>10. Live(k)' = Live(k)
  BY DEF Live, Used, db
<1> QED
  BY <1>2, <1>6, <1>8, <1>9, <1>10, KeyStep

LEMMA UpdateStep ==
  ASSUME SyncInv, NEW r \in Runs, NEW k \in Keys, UpdateLecture(r, k)
  PROVE  SyncInv'
<1>1. /\ run[r].pc = "lectures" /\ k \in run[r].todo /\ k \in run[r].courses
      /\ UNCHANGED <<list, course, prof, overlap, changes>>
  BY DEF UpdateLecture
<1>2. PICK i \in FoundRows(r, k) : \E f \in {run[r].failed, run[r].failed \cup {k}} :
       /\ lecture' = IF run[r].rows[i].ver = run[r].data.ver[k] THEN lecture
                     ELSE [lecture EXCEPT ![i].ver = run[r].data.ver[k]]
       /\ run' = [run EXCEPT ![r] = [@ EXCEPT !.pc = "removing", !.cur = k, !.at = i,
                                     !.kept = run[r].kept \cup {i}, !.failed = f]]
       /\ Publish(r, k, IF TitleOutdated(r, i) THEN {i} ELSE {})
  BY DEF UpdateLecture
<1>3. PICK f \in {run[r].failed, run[r].failed \cup {k}} :
       /\ lecture' = IF run[r].rows[i].ver = run[r].data.ver[k] THEN lecture
                     ELSE [lecture EXCEPT ![i].ver = run[r].data.ver[k]]
       /\ run' = [run EXCEPT ![r] = [@ EXCEPT !.pc = "removing", !.cur = k, !.at = i,
                                     !.kept = run[r].kept \cup {i}, !.failed = f]]
       /\ Publish(r, k, IF TitleOutdated(r, i) THEN {i} ELSE {})
  BY <1>2
<1>4. PICK y : y = [run[r] EXCEPT !.pc = "removing", !.cur = k, !.at = i,
                      !.kept = run[r].kept \cup {i}, !.failed = f]
  OBVIOUS
<1>5. /\ run[r] \in RunSet /\ RunFits(run[r]) /\ run[r].cur = NoKey
      /\ i \in Rows /\ i \in DOMAIN run[r].rows /\ run[r].rows[i].key = k /\ lecture[i].key = k
      /\ i \in RowsRead(run[r], k) /\ i \in FirstRead(run[r], k)
      /\ run' = [run EXCEPT ![r] = y]
  BY <1>1, <1>3, <1>4, InLoop DEF Loop, RowsRead
<1>6. /\ y.pc = "removing" /\ y.cur = k /\ y.at = i /\ y.todo = run[r].todo
      /\ y.kept = run[r].kept \cup {i} /\ y.failed = f
      /\ y.data = run[r].data /\ y.courses = run[r].courses /\ y.profs = run[r].profs
      /\ y.rows = run[r].rows /\ y.alone = run[r].alone /\ y.asks = run[r].asks
  BY <1>4, <1>5 DEF RunSet
<1>7. y \in RunSet
  BY <1>4, <1>5 DEF RunSet, Loop
<1>8. run'[r] = y
  BY <1>5 DEF SyncInv, Typed
<1>9. /\ title' = title \/ title' = title \cup {i}
      /\ ~run[r].asks \/ k \in f \/ (TitleOutdated(r, i) => i \in title')
      /\ faults' \in 0..MaxFaults
  BY <1>3, <1>6, <1>8, FaultsTyped DEF Publish
<1>10. /\ lecture' \in [Rows -> RowSet]
       /\ \A j \in Rows \ {i} : lecture'[j] = lecture[j]
       /\ lecture'[i].key = k /\ lecture'[i].deleted = lecture[i].deleted
       /\ lecture'[i].common = lecture[i].common /\ lecture'[i].profs = lecture[i].profs
       /\ lecture'[i].ver = IF run[r].rows[i].ver = run[r].data.ver[k] THEN lecture[i].ver
                            ELSE run[r].data.ver[k]
  <2>1. lecture \in [Rows -> RowSet]
    BY DEF SyncInv, Typed
  <2>2. run[r].data \in Lists
    BY <1>1, <1>5 DEF RunFits, Shaped
  <2>3. run[r].data.ver[k] \in Versions \cup {0}
    BY <2>2 DEF Lists
  <2> QED
    BY <1>3, <1>5, <2>1, <2>3 DEF RowSet
<1>11. k \in run[r].data.keys /\ \A j \in FirstRead(run[r], k) : j = i
  <2>1. \A j \in FirstRead(run[r], k) : j \in Rows /\ j <= i /\ i <= j
    BY <1>1, <1>5, InLoop DEF FirstRead, RowsRead, Loop
  <2> QED
    BY <1>1, <1>5, <2>1 DEF RunFits, Shaped, Rows
<1>12. OfKey(r, k, y)
  <2>1. FirstRead(y, k) \subseteq y.kept /\ i \in RowsRead(y, k)
    BY <1>5, <1>6, <1>11 DEF FirstRead, RowsRead
  <2>2. course[k] > 0 /\ \A p \in lecture'[i].profs : prof[p] > 0
    BY <1>5, <1>10, LectureSyncAssumption DEF SyncInv, References, Used
  <2>3. title' \in SUBSET Rows
    BY <1>5, <1>9 DEF SyncInv, Typed
  <2>4. \A j \in Rows :
       \/ lecture'[j] = lecture[j]
       \/ /\ lecture'[j].key = k /\ lecture[j].key \in {k, NoKey}
          /\ lecture[j].key = k => lecture'[j].deleted = lecture[j].deleted
          /\ course[k] > 0 /\ \A p \in lecture'[j].profs : prof[p] > 0
    BY <1>5, <1>10, <2>2
  <2> QED
    BY <1>1, <1>3, <1>5, <1>6, <1>9, <1>10, <2>1, <2>3, <2>4 DEF OfKey, Loop
<1>13. Live(k)' = Live(k)
  BY <1>5, <1>10 DEF Live, Used
<1>14. ASSUME y.alone PROVE Current(y)'
  <2>1. /\ Waiting(run[r], k) /\ ~lecture[i].deleted
    BY <1>1, <1>5, <1>6, <1>14, LectureSyncAssumption DEF RunFits, Alone, Loop
  <2>2. i \in Live(k)
    BY <1>5, <2>1, LectureSyncAssumption DEF Live, Used
  <2>3. Mine(y, k)' = {i}
    <3>1. Mine(run[r], k) = {}
      BY <2>1 DEF Waiting
    <3> QED
      BY <1>6, <1>13, <2>2, <3>1 DEF Mine
  <2>4. /\ lecture[i].ver = run[r].rows[i].ver /\ lecture[i].profs = run[r].rows[i].profs
        /\ lecture[i].common \in {run[r].rows[i].common, lecture[i].ver}
    BY <1>5, <2>1 DEF Waiting
  <2>5. k \notin y.failed => Asked(y, i)'
    BY <1>5, <1>6, <1>9, <1>10, <2>4 DEF Asked, TitleOutdated
  <2>6. lecture'[i].ver = run[r].data.ver[k]
    BY <1>10, <2>4
  <2> QED
    BY <1>5, <1>6, <1>10, <2>3, <2>4, <2>5, <2>6 DEF Current
<1>15. WorkingOn(r, k, y)
  BY <1>5, <1>6, <1>10, <1>14 DEF WorkingOn
<1> QED
  BY <1>7, <1>12, <1>13, <1>15, KeyStep

LEMMA CreateStep ==
  ASSUME SyncInv, NEW r \in Runs, NEW k \in Keys, CreateLecture(r, k)
  PROVE  SyncInv'
<1>1. /\ run[r].pc = "lectures" /\ k \in run[r].todo /\ k \in run[r].courses
      /\ FoundRows(r, k) = {} /\ UNCHANGED <<list, course, prof, overlap, changes>>
  BY DEF CreateLecture
<1>2. PICK i \in Fresh, f \in {run[r].failed, run[r].failed \cup {k}} :
       /\ lecture' = [lecture EXCEPT ![i] = [NoRow EXCEPT !.key = k, !.ver = run[r].data.ver[k]]]
       /\ run' = [run EXCEPT ![r] = [@ EXCEPT !.pc = "adding", !.cur = k, !.at = i,
                                     !.failed = f]]
       /\ Publish(r, k, {i})
  BY DEF CreateLecture
<1>3. i \in Rows /\ lecture[i].key = NoKey
  <2>1. Rows # Used /\ Rows \ Used # {}
    BY <1>2 DEF Fresh, Used
  <2>2. \E m \in Rows \ Used : \A j \in Rows \ Used : m <= j
    <3>1. Rows \ Used \in SUBSET Nat
      BY DEF Rows
    <3> HIDE DEF Used, Rows
    <3> QED
      BY <2>1, <3>1, Least
  <2>3. i \in Rows \ Used
    BY <1>2, <2>1, <2>2 DEF Fresh
  <2> QED
    BY <2>3 DEF Used
<1>4. PICK y : y = [run[r] EXCEPT !.pc = "adding", !.cur = k, !.at = i, !.failed = f]
  OBVIOUS
<1>5. /\ run[r] \in RunSet /\ RunFits(run[r]) /\ run[r].cur = NoKey
      /\ run' = [run EXCEPT ![r] = y]
  BY <1>1, <1>2, <1>4, InLoop DEF Loop
<1>6. /\ y.pc = "adding" /\ y.cur = k /\ y.at = i /\ y.todo = run[r].todo
      /\ y.kept = run[r].kept /\ y.failed = f
      /\ y.data = run[r].data /\ y.courses = run[r].courses /\ y.profs = run[r].profs
      /\ y.rows = run[r].rows /\ y.alone = run[r].alone /\ y.asks = run[r].asks
  BY <1>4, <1>5 DEF RunSet
<1>7. y \in RunSet
  BY <1>3, <1>4, <1>5 DEF RunSet, Loop
<1>8. run'[r] = y
  BY <1>5 DEF SyncInv, Typed
<1>9. /\ title' = title \/ title' = title \cup {i}
      /\ ~run[r].asks \/ k \in f \/ i \in title'
      /\ faults' \in 0..MaxFaults
  BY <1>2, <1>6, <1>8, FaultsTyped DEF Publish
<1>10. /\ lecture' \in [Rows -> RowSet]
       /\ \A j \in Rows \ {i} : lecture'[j] = lecture[j]
       /\ lecture'[i].key = k /\ ~lecture'[i].deleted
       /\ lecture'[i].profs = {} /\ lecture'[i].ver = run[r].data.ver[k]
  <2>1. lecture \in [Rows -> RowSet]
    BY DEF SyncInv, Typed
  <2>2. run[r].data \in Lists
    BY <1>1, <1>5 DEF RunFits, Shaped
  <2>3. run[r].data.ver[k] \in Versions \cup {0}
    BY <2>2 DEF Lists
  <2> QED
    BY <1>2, <1>3, <2>1, <2>3 DEF RowSet, NoRow
<1>11. RowsRead(run[r], k) = {}
  <2>1. FirstRead(run[r], k) = {}
    BY <1>1, InLoop DEF Loop
  <2>2. RowsRead(run[r], k) \in SUBSET Nat
    BY <1>5 DEF RowsRead, RunSet, Rows
  <2> QED
    BY <2>1, <2>2, Least DEF FirstRead
<1>12. OfKey(r, k, y)
  <2>1. FirstRead(y, k) = {}
    BY <1>6, <1>11 DEF FirstRead, RowsRead
  <2>2. course[k] > 0 /\ \A p \in lecture'[i].profs : prof[p] > 0
    BY <1>1, <1>5, <1>10 DEF RunFits, Backed
  <2>3. title' \in SUBSET Rows
    BY <1>3, <1>9 DEF SyncInv, Typed
  <2>4. \A j \in Rows :
       \/ lecture'[j] = lecture[j]
       \/ /\ lecture'[j].key = k /\ lecture[j].key \in {k, NoKey}
          /\ lecture[j].key = k => lecture'[j].deleted = lecture[j].deleted
          /\ course[k] > 0 /\ \A p \in lecture'[j].profs : prof[p] > 0
    BY <1>3, <1>10, <2>2, LectureSyncAssumption
  <2> QED
    BY <1>1, <1>2, <1>5, <1>6, <1>9, <1>10, <2>1, <2>3, <2>4 DEF OfKey, Loop
<1>13. Live(k)' = Live(k) \cup {i}
  BY <1>3, <1>10, LectureSyncAssumption DEF Live, Used
<1>14. ASSUME y.alone PROVE Mine(run[r], k) = {} /\ Live(k) = {} /\ Current(y)'
  <2>1. Waiting(run[r], k)
    BY <1>1, <1>5, <1>6, <1>14, LectureSyncAssumption DEF RunFits, Alone, Loop
  <2>2. Mine(run[r], k) = {}
    BY <2>1 DEF Waiting
  <2>3. Live(k) = {}
    <3>1. \A j \in Live(k) : j \notin DOMAIN run[r].rows
      BY <1>1, <1>11, InLoop DEF Live, RowsRead, Loop
    <3> QED
      BY <2>2, <3>1 DEF Mine
  <2>4. i \notin DOMAIN y.rows
    BY <1>1, <1>3, <1>6, InLoop, LectureSyncAssumption DEF Loop
  <2>5. Mine(y, k)' = {i}
    BY <1>13, <2>3, <2>4 DEF Mine
  <2>6. k \notin y.failed => Asked(y, i)'
    BY <1>6, <1>9 DEF Asked
  <2> QED
    BY <1>6, <1>10, <2>2, <2>3, <2>4, <2>5, <2>6 DEF Current
<1>15. WorkingOn(r, k, y)
  BY <1>3, <1>6, <1>10, <1>14 DEF WorkingOn
<1>16. ~overlap => \A p, q \in Live(k)' : p = q
  <2>1. ~overlap => y.alone
    BY <1>1, <1>6 DEF SyncInv
  <2> QED
    BY <1>13, <1>14, <2>1
<1> QED
  BY <1>7, <1>12, <1>15, <1>16, KeyStep

\* The row that is being worked on gets other professors.
LEMMA ChargesStep ==
  ASSUME SyncInv, NEW r \in Runs, run[r].pc \in {"removing", "adding"}, NEW R \in SUBSET Profs,
         NEW k, k = run[r].cur,
         lecture' = [lecture EXCEPT ![run[r].at].profs = R],
         \A p \in R : p \in lecture[run[r].at].profs \/ prof[p] > 0,
         UNCHANGED <<list, course, prof, title, overlap, changes, faults>>,
         NEW y \in RunSet, run' = [run EXCEPT ![r] = y],
         y.data = run[r].data, y.courses = run[r].courses, y.profs = run[r].profs,
         y.rows = run[r].rows, y.alone = run[r].alone, y.asks = run[r].asks, y.kept = run[r].kept,
         y.failed = run[r].failed,
         DoneWith(r, k, y) \/ WorkingOn(r, k, y)
  PROVE  SyncInv'
<1>2. PICK i : i = run[r].at
  OBVIOUS
<1>3. /\ run[r] \in RunSet /\ RunFits(run[r]) /\ run[r].pc \in Loop
      /\ i \in Rows /\ k \in run[r].todo /\ k \in Keys /\ lecture[i].key = k
  BY <1>2, InLoop DEF Loop
<1>4. lecture \in [Rows -> RowSet] /\ title \in SUBSET Rows /\ faults \in 0..MaxFaults
  BY DEF SyncInv, Typed
<1>5. /\ lecture' \in [Rows -> RowSet]
      /\ \A j \in Rows \ {i} : lecture'[j] = lecture[j]
      /\ lecture'[i].key = k /\ lecture'[i].deleted = lecture[i].deleted /\ lecture'[i].profs = R
  BY <1>2, <1>3, <1>4 DEF RowSet
<1>6. course[k] > 0 /\ \A p \in R : prof[p] > 0
  BY <1>2, <1>3, LectureSyncAssumption DEF SyncInv, References, Used
<1>7. \A j \in Rows :
       \/ lecture'[j] = lecture[j]
       \/ /\ lecture'[j].key = k /\ lecture[j].key \in {k, NoKey}
          /\ lecture[j].key = k => lecture'[j].deleted = lecture[j].deleted
          /\ course[k] > 0 /\ \A p \in lecture'[j].profs : prof[p] > 0
  BY <1>3, <1>5, <1>6
<1>8. k \in y.courses => FirstRead(y, k) \subseteq y.kept
  <2>1. k \in run[r].data.keys
    BY <1>3 DEF RunFits, Shaped
  <2>2. k \in run[r].courses => FirstRead(run[r], k) \subseteq run[r].kept
    BY <1>3, <2>1 DEF RunFits, Shaped
  <2> QED
    BY <2>2 DEF FirstRead, RowsRead
<1>9. OfKey(r, k, y)
  BY <1>3, <1>4, <1>5, <1>7, <1>8 DEF OfKey
<1>10. Live(k)' = Live(k)
  BY <1>3, <1>5 DEF Live, Used
<1> QED
  BY <1>3, <1>9, <1>10, KeyStep

ProfsOnly(i, R) == lecture' = [lecture EXCEPT ![i].profs = R]

\* The row that is being worked on is right but for its professors, R.
RightBut(y, k, i, R) ==
  /\ Mine(y, k) = {i} /\ lecture[i].ver = y.data.ver[k] /\ lecture[i].profs = R
  /\ k \notin y.failed => Asked(y, i)

LEMMA CurrentKept ==
  ASSUME SyncInv, NEW r \in Runs, run[r].pc \in {"removing", "adding"}, run[r].alone,
         NEW k \in Keys, k = run[r].cur, NEW i \in Rows, i = run[r].at, NEW R \in SUBSET Profs,
         ProfsOnly(i, R), title' = title, NEW y \in RunSet, y.rows = run[r].rows, y.kept = run[r].kept,
         y.data = run[r].data, y.failed = run[r].failed, y.asks = run[r].asks
  PROVE  RightBut(y, k, i, R)'
<1>3. RunFits(run[r]) /\ i \in Rows /\ lecture[i].key = k
  BY InLoop DEF Loop
<1>4. Current(run[r])
  BY <1>3 DEF RunFits, Alone
<1>5. /\ \A j \in Rows \ {i} : lecture'[j] = lecture[j]
      /\ lecture'[i].key = k /\ lecture'[i].deleted = lecture[i].deleted /\ lecture'[i].profs = R
      /\ lecture'[i].ver = lecture[i].ver /\ lecture'[i].common = lecture[i].common
  BY <1>3 DEF ProfsOnly, SyncInv, Typed, RowSet
<1>6. Live(k)' = Live(k)
  BY <1>3, <1>5 DEF Live, Used
<1>7. Mine(y, k)' = Mine(run[r], k)
  BY <1>6 DEF Mine
<1>8. Asked(run[r], i) => Asked(y, i)'
  BY <1>5 DEF Asked
<1> QED
  BY <1>4, <1>5, <1>7, <1>8 DEF Current, RightBut

LEMMA RemoveStep ==
  ASSUME SyncInv, NEW r \in Runs, RemoveCharges(r)
  PROVE  SyncInv'
<1>1. /\ run[r].pc = "removing" /\ run[r].pc \in Loop
      /\ UNCHANGED <<list, course, prof, title, overlap, changes, faults>>
  BY DEF RemoveCharges, Loop
<1>2. /\ run[r] \in RunSet /\ RunFits(run[r]) /\ run[r].cur \in run[r].todo
      /\ run[r].at \in Rows /\ lecture[run[r].at].key = run[r].cur
      /\ run[r].at \in DOMAIN run[r].rows
  BY <1>1, InLoop DEF RunFits, Shaped
<1>5. PICK k : k = run[r].cur
  OBVIOUS
<1>6. PICK i : i = run[r].at
  OBVIOUS
<1>3. CASE Mapped(r)
  <2>1. /\ lecture' = [lecture EXCEPT ![run[r].at].profs = @ \ ToRemove(r)]
        /\ run' = [run EXCEPT ![r].pc = "adding"]
    BY <1>3 DEF RemoveCharges
  <2>2. PICK R : R = lecture[run[r].at].profs \ ToRemove(r)
    OBVIOUS
  <2>3. lecture \in [Rows -> RowSet]
    BY DEF SyncInv, Typed
  <2>4. lecture' = [lecture EXCEPT ![run[r].at].profs = R] /\ R \in SUBSET Profs
        /\ \A p \in R : p \in lecture[run[r].at].profs
    BY <1>2, <2>1, <2>2, <2>3 DEF RowSet
  <2>5. PICK y : y = [run[r] EXCEPT !.pc = "adding"]
    OBVIOUS
  <2>6. y \in RunSet /\ run' = [run EXCEPT ![r] = y]
    BY <1>2, <2>1, <2>5 DEF RunSet, Loop
  <2>7. /\ y.pc = "adding" /\ y.cur = run[r].cur /\ y.at = run[r].at /\ y.todo = run[r].todo
        /\ y.kept = run[r].kept /\ y.failed = run[r].failed
        /\ y.data = run[r].data /\ y.courses = run[r].courses /\ y.profs = run[r].profs
        /\ y.rows = run[r].rows /\ y.alone = run[r].alone /\ y.asks = run[r].asks
    BY <1>2, <2>5 DEF RunSet
  <2>8. lecture'[y.at].key = y.cur
    BY <1>2, <2>3, <2>4, <2>7 DEF RowSet
  <2>9. ASSUME y.alone PROVE Current(y)'
    <3>1. R = y.rows[y.at].profs \cap y.data.charge[y.cur]
      <4>1. lecture[run[r].at].profs = run[r].rows[run[r].at].profs
        BY <1>1, <1>2, <2>7, <2>9 DEF RunFits, Alone, Current
      <4> QED
        BY <1>2, <2>2, <2>7, <4>1 DEF ToRemove, OldProfs
    <3>2. RightBut(y, k, i, R)'
      <4>1. run[r].pc \in {"removing", "adding"} /\ run[r].alone /\ title' = title
            /\ y.rows = run[r].rows /\ y.kept = run[r].kept
            /\ y.data = run[r].data /\ y.failed = run[r].failed /\ y.asks = run[r].asks
        BY <1>1, <2>7, <2>9
      <4> HIDE DEF SyncInv
      <4> QED
        <5>1. ProfsOnly(i, R)
          BY <1>6, <2>4 DEF ProfsOnly
        <5>2. i \in Rows /\ k \in Keys /\ R \in SUBSET Profs
          BY <1>1, <1>2, <1>5, <1>6, <2>4, InLoop
        <5> QED
          BY <1>5, <1>6, <2>6, <4>1, <5>1, <5>2, CurrentKept
    <3> QED
      BY <1>2, <1>5, <1>6, <2>7, <3>1, <3>2 DEF Current, RightBut
  <2>10. WorkingOn(r, k, y)
    BY <1>2, <1>5, <1>6, <2>7, <2>8, <2>9 DEF WorkingOn
  <2> QED
    BY <1>1, <1>5, <2>4, <2>6, <2>7, <2>10, ChargesStep
<1>4. CASE ~Mapped(r)
  <2>1. Skip(r, run[r].cur, {}) /\ lecture' = lecture
    BY <1>4 DEF RemoveCharges
  <2> QED
    BY <1>1, <1>2, <2>1, SkipStep DEF db, SyncInv, Typed
<1> QED
  BY <1>3, <1>4

LEMMA AddStep ==
  ASSUME SyncInv, NEW r \in Runs, AddCharges(r)
  PROVE  SyncInv'
<1>1. /\ run[r].pc = "adding" /\ run[r].pc \in Loop
      /\ UNCHANGED <<list, course, prof, title, overlap, changes, faults>>
  BY DEF AddCharges, Loop
<1>2. /\ run[r] \in RunSet /\ RunFits(run[r]) /\ run[r].cur \in run[r].todo
      /\ run[r].at \in Rows /\ lecture[run[r].at].key = run[r].cur
  BY <1>1, InLoop DEF RunFits, Shaped
<1>5. PICK k : k = run[r].cur
  OBVIOUS
<1>6. PICK i : i = run[r].at
  OBVIOUS
<1>3. CASE Mapped(r) /\ Insertable(r)
  <2>1. /\ lecture' = [lecture EXCEPT ![run[r].at].profs = @ \cup ToAdd(r)]
        /\ run' = [run EXCEPT ![r] = [@ EXCEPT !.pc = "lectures", !.cur = NoKey, !.at = 0,
                                        !.todo = run[r].todo \ {run[r].cur}]]
    BY <1>3 DEF AddCharges
  <2>2. PICK R : R = lecture[run[r].at].profs \cup ToAdd(r)
    OBVIOUS
  <2>3. lecture \in [Rows -> RowSet]
    BY DEF SyncInv, Typed
  <2>4. ToAdd(r) \subseteq run[r].profs /\ run[r].profs \subseteq Profs
        /\ \A p \in run[r].profs : prof[p] > 0
    BY <1>2, <1>3 DEF Mapped, RunSet, RunFits, Backed
  <2>5. lecture' = [lecture EXCEPT ![run[r].at].profs = R] /\ R \in SUBSET Profs
        /\ \A p \in R : p \in lecture[run[r].at].profs \/ prof[p] > 0
    BY <1>2, <2>1, <2>2, <2>3, <2>4 DEF RowSet
  <2>6. PICK y : y = [run[r] EXCEPT !.pc = "lectures", !.cur = NoKey, !.at = 0,
                                        !.todo = run[r].todo \ {run[r].cur}]
    OBVIOUS
  <2>7. y \in RunSet /\ run' = [run EXCEPT ![r] = y]
    BY <1>2, <2>1, <2>6 DEF RunSet, Loop
  <2>8. /\ y.pc = "lectures" /\ y.cur = NoKey /\ y.at = 0
        /\ y.todo = run[r].todo \ {run[r].cur}
        /\ y.kept = run[r].kept /\ y.failed = run[r].failed
        /\ y.data = run[r].data /\ y.courses = run[r].courses /\ y.profs = run[r].profs
        /\ y.rows = run[r].rows /\ y.alone = run[r].alone /\ y.asks = run[r].asks
    BY <1>2, <2>6 DEF RunSet
  <2>9. ASSUME y.alone, run[r].cur \notin y.failed
        PROVE  Settled(y, k, i)'
    <3>1. R = y.data.charge[run[r].cur]
      <4>1. lecture[run[r].at].profs = OldProfs(r) \cap y.data.charge[run[r].cur]
        BY <1>1, <1>2, <2>8, <2>9 DEF RunFits, Alone, Current, OldProfs
      <4> QED
        BY <2>2, <2>8, <4>1 DEF ToAdd
    <3>2. RightBut(y, k, i, R)'
      <4>1. run[r].pc \in {"removing", "adding"} /\ run[r].alone /\ title' = title
            /\ y.rows = run[r].rows /\ y.kept = run[r].kept
            /\ y.data = run[r].data /\ y.failed = run[r].failed /\ y.asks = run[r].asks
        BY <1>1, <2>8, <2>9
      <4> HIDE DEF SyncInv
      <4> QED
        <5>1. ProfsOnly(i, R)
          BY <1>6, <2>5 DEF ProfsOnly
        <5>2. i \in Rows /\ k \in Keys /\ R \in SUBSET Profs
          BY <1>1, <1>2, <1>5, <1>6, <2>5, InLoop
        <5> QED
          BY <1>5, <1>6, <2>7, <4>1, <5>1, <5>2, CurrentKept
    <3> QED
      BY <1>5, <2>8, <2>9, <3>1, <3>2 DEF Settled, RightBut
  <2>10. DoneWith(r, k, y)
    BY <1>2, <1>5, <1>6, <2>8, <2>9 DEF DoneWith
  <2> QED
    BY <1>1, <1>5, <2>5, <2>7, <2>8, <2>10, ChargesStep
<1>4. CASE ~(Mapped(r) /\ Insertable(r))
  <2>1. Skip(r, run[r].cur, {}) /\ lecture' = lecture
    BY <1>4 DEF AddCharges
  <2> QED
    BY <1>1, <1>2, <2>1, SkipStep DEF db, SyncInv, Typed
<1> QED
  BY <1>3, <1>4

\* server-consumer brings a title up to date, between any two steps of a run.
LEMMA TitleStep ==
  ASSUME SyncInv, NEW i \in Rows, TitleUpdated(i)
  PROVE  SyncInv'
<1>1. /\ i \in title /\ title' = title \ {i}
      /\ lecture' = [lecture EXCEPT ![i].common = lecture[i].ver]
      /\ UNCHANGED <<list, course, prof, run, overlap, changes, faults>>
  BY DEF TitleUpdated
<1>2. /\ lecture' \in [Rows -> RowSet]
      /\ \A j \in Rows : /\ lecture'[j].key = lecture[j].key /\ lecture'[j].ver = lecture[j].ver
                         /\ lecture'[j].deleted = lecture[j].deleted
                         /\ lecture'[j].profs = lecture[j].profs
                         /\ lecture'[j].common = IF j = i THEN lecture[i].ver ELSE lecture[j].common
  BY <1>1 DEF SyncInv, Typed, RowSet
<1>3. Used' = Used /\ \A k : Live(k)' = Live(k)
  BY <1>2 DEF Used, Live
<1>4. Typed' /\ References'
  <2>1. Used \subseteq Rows
    BY DEF Used
  <2> QED
    BY <1>1, <1>2, <1>3, <2>1 DEF SyncInv, Typed, References
<1>5. Unique => Unique'
  BY <1>1, <1>3 DEF Unique
<1>6. ASSUME NEW y \in RunSet, RunFits(y) PROVE Backed(y)' /\ Alone(y)'
  <2>1. DOMAIN y.rows \subseteq Rows /\ y.at \in Rows \cup {0} /\ y.todo \subseteq Keys
    BY DEF RunSet
  <2>2. y.pc \in {"removing", "adding"} => y.at \in Rows
    BY <1>6 DEF RunFits, Shaped
  <2>3. Backed(y)'
    BY <1>1, <1>2, <1>6, <2>1, <2>2 DEF RunFits, Backed
  <2>4. \A k : Mine(y, k)' = Mine(y, k)
    BY <1>3 DEF Mine
  <2>5. \A j \in Rows : Asked(y, j) => Asked(y, j)'
    BY <1>1, <1>2 DEF Asked
  <2>6. ASSUME NEW k, Waiting(y, k) PROVE Waiting(y, k)'
    BY <1>2, <2>1, <2>4, <2>6 DEF Waiting, RowsRead
  <2>7. ASSUME NEW k, NEW j \in Rows, Settled(y, k, j) PROVE Settled(y, k, j)'
    BY <1>2, <2>4, <2>5, <2>7 DEF Settled
  <2>8. ASSUME y.pc \in {"removing", "adding"}, Current(y) PROVE Current(y)'
    BY <1>2, <2>2, <2>4, <2>5, <2>8 DEF Current
  <2>9. Alone(y)'
    BY <1>1, <1>2, <1>6, <2>1, <2>4, <2>6, <2>7, <2>8 DEF RunFits, Alone
  <2> QED
    BY <2>3, <2>9
<1>7. ASSUME NEW r \in Runs PROVE RunFits(run[r])'
  <2>1. PICK y : y = run[r]
    OBVIOUS
  <2>2. y \in RunSet /\ RunFits(y)
    BY <2>1 DEF SyncInv, Typed
  <2>3. Backed(y)' /\ Alone(y)' /\ run'[r] = y
    BY <1>1, <1>6, <2>1, <2>2
  <2>4. Backed(run[r])' /\ Alone(run[r])'
    <3>1. \A k : Mine(run[r], k)' = Mine(y, k)'
      BY <2>3 DEF Mine
    <3>2. \A k : Waiting(run[r], k)' <=> Waiting(y, k)'
      BY <2>3, <3>1 DEF Waiting, RowsRead
    <3>3. \A k, j : Settled(run[r], k, j)' <=> Settled(y, k, j)'
      BY <2>3, <3>1 DEF Settled, Asked
    <3>4. Current(run[r])' <=> Current(y)'
      BY <2>3 DEF Current, Asked, Mine
    <3>5. Backed(run[r])'
      BY <2>3 DEF Backed
    <3> QED
      BY <2>3, <3>1, <3>2, <3>3, <3>4, <3>5 DEF Alone
  <2>5. Shaped(run[r])'
    BY <2>1, <2>2, <2>3 DEF RunFits, Shaped, RowsRead, FirstRead
  <2> QED
    BY <2>4, <2>5 DEF RunFits
<1> QED
  BY <1>1, <1>4, <1>5, <1>7 DEF SyncInv

\* What the runs hold of the tables stays true through overlaps and failures.
THEOREM SyncHolds == Spec => []SyncInv
<1>1. Init => SyncInv
  <2> SUFFICES ASSUME Init PROVE SyncInv
    OBVIOUS
  <2>1. NoRow \in RowSet
    BY DEF NoRow, RowSet
  <2>2. Typed
    <3>1. lecture \in [Rows -> RowSet] /\ run \in [Runs -> RunSet] /\ list \in Lists
      BY <2>1, IdleFits DEF Init
    <3>2. course \in [Keys -> 0..2] /\ prof \in [Profs -> 0..2] /\ title \in SUBSET Rows
      BY DEF Init
    <3>3. changes \in 0..MaxChanges /\ faults \in 0..MaxFaults
      BY LectureSyncAssumption DEF Init
    <3>4. overlap \in BOOLEAN
      BY DEF Init
    <3> QED
      BY <3>1, <3>2, <3>3, <3>4 DEF Typed
  <2>3. Used = {}
    BY DEF Used, Init, NoRow
  <2>4. References /\ Unique
    BY <2>3 DEF Init, References, Unique, Live
  <2>5. \A r \in Runs : run[r] = Idle
    BY DEF Init
  <2>6. \A r \in Runs : RunFits(run[r])
    <3>1. RunFits(Idle)
      BY IdleFits DEF RunFits
    <3> QED
      BY <2>5, <3>1
  <2> QED
    BY <2>2, <2>4, <2>5, <2>6, IdleFits DEF SyncInv
<1>2. SyncInv /\ [Next]_vars => SyncInv'
  <2> SUFFICES ASSUME SyncInv, [Next]_vars PROVE SyncInv'
    OBVIOUS
  <2>1. ASSUME UNCHANGED <<lecture, course, prof, title, run, overlap, faults>>,
               list' \in Lists, changes' \in 0..MaxChanges
        PROVE  SyncInv'
    <3>1. Typed' /\ References' /\ (Unique => Unique')
      BY <2>1 DEF SyncInv, Typed, References, Used, Unique, Live
    <3>2. ASSUME NEW r \in Runs PROVE RunFits(run[r])'
      <4>1. RunFits(run[r])
        BY DEF SyncInv
      <4>2. Shaped(run[r])' /\ Backed(run[r])'
        BY <2>1, <4>1 DEF RunFits, Shaped, Backed, RowsRead, FirstRead
      <4>3. \A k : Mine(run[r], k)' = Mine(run[r], k)
        BY <2>1 DEF Mine, Live, Used
      <4>4. /\ \A k : Waiting(run[r], k)' <=> Waiting(run[r], k)
            /\ \A k, i : Settled(run[r], k, i)' <=> Settled(run[r], k, i)
            /\ Current(run[r])' <=> Current(run[r])
        BY <2>1, <4>3 DEF Waiting, RowsRead, Settled, Asked, Current, Mine, Live, Used
      <4>5. Alone(run[r])'
        BY <2>1, <4>1, <4>3, <4>4 DEF RunFits, Alone
      <4> QED
        BY <4>2, <4>5 DEF RunFits
    <3> QED
      BY <2>1, <3>1, <3>2 DEF SyncInv
  <2>2. CASE Registrar
    BY <2>1, <2>2, LectureSyncAssumption DEF Registrar, db, SyncInv, Typed
  <2>3. CASE UNCHANGED vars
    BY <2>1, <2>3 DEF vars, db, SyncInv, Typed
  <2>4. ASSUME NEW r \in Runs,
               \/ Fetch(r) \/ SyncCourses(r) \/ SyncProfessors(r)
               \/ RemoveCharges(r) \/ AddCharges(r) \/ MarkDeleted(r) \/ StopRun(r)
        PROVE  SyncInv'
    BY <2>4, FetchStep, SyncCoursesStep, SyncProfessorsStep, RemoveStep, AddStep, EndStep
  <2>5. ASSUME NEW r \in Runs, NEW k \in Keys, UpdateLecture(r, k) \/ CreateLecture(r, k)
        PROVE  SyncInv'
    BY <2>5, UpdateStep, CreateStep
  <2>6. ASSUME NEW r \in Runs, NEW k \in Keys, NoCourse(r, k) PROVE SyncInv'
    <3>1. /\ run[r].pc = "lectures" /\ run[r].pc \in Loop /\ k \in run[r].todo
          /\ k \notin run[r].courses
          /\ Skip(r, k, {}) /\ UNCHANGED <<list, db, overlap, changes, faults>>
      BY <2>6 DEF NoCourse, Loop
    <3>2. run[r].cur = NoKey
      BY <3>1, InLoop
    <3> QED
      BY <3>1, <3>2, SkipStep DEF SyncInv, Typed
  <2>7. ASSUME NEW r \in Runs, StatementFails(r) PROVE SyncInv'
    <3>1. run[r].pc \in Loop /\ faults' \in 0..MaxFaults
          /\ UNCHANGED <<list, db, overlap, changes>>
      BY <2>7, FaultsTyped DEF StatementFails, Loop
    <3>2. PICK k \in IF run[r].cur = NoKey THEN run[r].todo ELSE {run[r].cur} :
            Skip(r, k, FoundRows(r, k))
      BY <2>7 DEF StatementFails
    <3>3. run[r].cur # NoKey => run[r].cur \in run[r].todo
      BY <3>1, InLoop
    <3>4. k \in run[r].todo /\ run[r].cur \in {NoKey, k}
      BY <3>2, <3>3
    <3> QED
      BY <3>1, <3>2, <3>4, SkipStep
  <2>8. ASSUME NEW i \in Rows, TitleUpdated(i) PROVE SyncInv'
    BY <2>8, TitleStep
  <2> QED
    BY <2>2, <2>3, <2>4, <2>5, <2>6, <2>7, <2>8 DEF Next
<1> QED
  BY <1>1, <1>2, PTL DEF Spec

\* Without overlapping runs, no course, professor or lecture is made twice,
\* whatever fails; and lectures always refer to rows that exist.
THEOREM UniqueAlways == Spec => []UniqueWithoutOverlap
<1>1. SyncInv => UniqueWithoutOverlap
  <2> SUFFICES ASSUME SyncInv PROVE UniqueWithoutOverlap
    OBVIOUS
  <2>1. TypeOK
    <3>1. \A i \in Rows : /\ lecture[i].key \in Keys \cup {NoKey}
                          /\ lecture[i].ver \in Versions \cup {0}
                          /\ lecture[i].common \in Versions \cup {0}
                          /\ lecture[i].profs \subseteq Profs
      BY DEF SyncInv, Typed, RowSet
    <3>2. \A r \in Runs :
            /\ run[r].pc \in {"idle", "fetched", "courses", "lectures", "removing", "adding"}
            /\ run[r].kept \subseteq DOMAIN run[r].rows
            /\ run[r].todo \subseteq run[r].data.keys
      BY DEF SyncInv, Typed, RunSet, Loop, RunFits, Shaped
    <3> QED
      BY <3>1, <3>2 DEF SyncInv, Typed, References, TypeOK
  <2>2. ASSUME Unique, NEW k \in Keys PROVE Cardinality(Live(k)) <= 1
    <3>1. CASE Live(k) = {}
      BY <3>1, FS_EmptySet
    <3>2. CASE Live(k) # {}
      <4>1. PICK i \in Live(k) : Live(k) = {i}
        BY <2>2, <3>2 DEF Unique
      <4> QED
        BY <4>1, FS_Singleton
    <3> QED
      BY <3>1, <3>2
  <2> QED
    BY <2>1, <2>2 DEF SyncInv, Unique, UniqueWithoutOverlap
<1> QED
  BY <1>1, SyncHolds, PTL

\* A listed lecture keeps the row to which timetables and reviews refer, also
\* through overlapping and failing runs.
THEOREM ListedKept == Spec => KeepsListed
<1> DEFINE Kept ==
      \A r \in Runs, i \in Rows : \A k \in run[r].data.keys \cap run[r].courses :
        Deletes(r, k, i) => Duplicate(r, k, i)
<1>1. SyncInv /\ [Next]_vars => [Kept]_vars
  <2> SUFFICES ASSUME SyncInv, NEW r \in Runs, NEW i \in Rows,
                      NEW k \in run[r].data.keys \cap run[r].courses, Deletes(r, k, i)
               PROVE  Duplicate(r, k, i)
    OBVIOUS
  <2>1. MarkDeleted(r) /\ i \in Live(k) /\ i \notin Live(k)'
    BY DEF Deletes
  <2>2. run[r].pc = "lectures" /\ run[r].pc \in Loop /\ run[r].todo = {}
        /\ lecture' = [j \in Rows |-> [lecture[j] EXCEPT !.deleted = @ \/ j \in Gone(r)]]
    BY <2>1 DEF MarkDeleted, Loop
  <2>3. i \in Gone(r)
    <3> SUFFICES ASSUME i \notin Gone(r) PROVE FALSE
      OBVIOUS
    <3>1. lecture[i] \in RowSet
      BY DEF SyncInv, Typed
    <3>2. lecture'[i].key = lecture[i].key /\ lecture'[i].deleted = lecture[i].deleted
      BY <2>2, <3>1 DEF RowSet
    <3> QED
      BY <2>1, <3>2 DEF Live, Used
  <2>4. i \in RowsRead(run[r], k) /\ i \notin run[r].kept
    BY <2>1, <2>2, <2>3, InLoop DEF Gone, RowsRead, Live
  <2>5. PICK j \in RowsRead(run[r], k) : \A m \in RowsRead(run[r], k) : j <= m
    <3>1. RowsRead(run[r], k) \in SUBSET Nat
      BY <2>2, InLoop DEF RowsRead, RunSet, Rows
    <3> HIDE DEF RowsRead
    <3> QED
      BY <2>4, <3>1, Least
  <2>6. j \in FirstRead(run[r], k)
    BY <2>5 DEF FirstRead
  <2>7. FirstRead(run[r], k) \subseteq run[r].kept
    BY <2>2, InLoop DEF RunFits, Shaped
  <2>8. j \in FoundRows(r, k) /\ j <= i /\ j # i /\ j \in Rows /\ lecture[j].key = k
    BY <2>2, <2>4, <2>5, <2>6, <2>7, InLoop DEF RowsRead
  <2>9. j < i
    BY <2>8 DEF Rows
  <2> QED
    BY <2>6, <2>7, <2>8, <2>9 DEF Duplicate, Gone
<1> QED
  BY <1>1, SyncHolds, PTL DEF Spec, KeepsListed

\* A run that meets no other run leaves what its lists say.
THEOREM RunsRepair == Spec => Repairs
<1> DEFINE Repaired ==
      \A r \in Runs : (MarkDeleted(r) /\ run[r].alone) =>
        \A k \in Keys \ run[r].failed :
          IF k \in run[r].data.keys
          THEN \E i \in Rows : /\ Live(k)' = {i}
                               /\ lecture[i].ver = run[r].data.ver[k]
                               /\ lecture[i].profs = run[r].data.charge[k]
          ELSE Live(k)' = {}
<1> DEFINE Titled ==
      \A r \in Runs : (MarkDeleted(r) /\ run[r].alone /\ run[r].asks) =>
        \A k \in run[r].data.keys \ run[r].failed : \A i \in Live(k)' :
          \/ lecture[i].common = lecture[i].ver \/ i \in title
          \/ i \in DOMAIN run[r].rows /\ run[r].rows[i].ver # lecture[i].ver
<1>1. ASSUME SyncInv, NEW r \in Runs, MarkDeleted(r), run[r].alone
      PROVE  /\ \A k \in Keys : Live(k)' = Mine(run[r], k)
             /\ \A k \in Keys \ run[r].data.keys : Mine(run[r], k) = {}
             /\ \A k \in run[r].data.keys \ run[r].failed :
                  k \in Keys /\ \E i \in Rows : Settled(run[r], k, i)
  <2>1. run[r].pc = "lectures" /\ run[r].pc \in Loop /\ run[r].todo = {}
        /\ lecture' = [j \in Rows |-> [lecture[j] EXCEPT !.deleted = @ \/ j \in Gone(r)]]
    BY <1>1 DEF MarkDeleted, Loop
  <2>2. RunFits(run[r]) /\ lecture \in [Rows -> RowSet] /\ run[r].data.keys \subseteq Keys
    BY <1>1, <2>1 DEF SyncInv, Typed, RunFits, Shaped, Lists, Loop
  <2>3. \A j \in Rows : /\ lecture'[j].key = lecture[j].key
                        /\ lecture'[j].deleted <=> lecture[j].deleted \/ j \in Gone(r)
    BY <2>1, <2>2 DEF RowSet
  <2>4. \A k \in Keys : Live(k)' = Mine(run[r], k)
    BY <2>2, <2>3 DEF Live, Used, Mine, Gone
  <2>5. /\ \A k \in Keys \ run[r].data.keys : Mine(run[r], k) = {}
        /\ \A k \in run[r].data.keys \ run[r].failed : \E i \in Rows : Settled(run[r], k, i)
    BY <1>1, <2>1, <2>2 DEF RunFits, Alone
  <2> QED
    BY <2>2, <2>4, <2>5
<1>2. SyncInv /\ [Next]_vars => [Repaired]_vars
  BY <1>1 DEF Settled
<1>3. SyncInv /\ [Next]_vars => [Titled]_vars
  <2> SUFFICES ASSUME SyncInv, NEW r \in Runs, MarkDeleted(r), run[r].alone,
                      run[r].asks, NEW k \in run[r].data.keys \ run[r].failed, NEW i \in Live(k)'
               PROVE  \/ lecture[i].common = lecture[i].ver \/ i \in title
                      \/ i \in DOMAIN run[r].rows /\ run[r].rows[i].ver # lecture[i].ver
    OBVIOUS
  <2>1. PICK j \in Rows : Settled(run[r], k, j)
    BY <1>1
  <2>2. i = j
    BY <1>1, <2>1 DEF Settled
  <2> QED
    BY <2>1, <2>2 DEF Settled, Asked
<1>4. Spec => [][Repaired]_vars
  BY <1>2, SyncHolds, PTL DEF Spec
<1>5. Spec => [][Titled]_vars
  BY <1>3, SyncHolds, PTL DEF Spec
<1> QED
  BY <1>4, <1>5 DEF Repairs, RowsRepaired, TitlesAsked
=============================================================================
