--------------------------- MODULE TakenLectures ---------------------------
(***************************************************************************)
(* The lectures a user has taken.  The registrar's records are fetched per *)
(* term by syncTakenLecture (cron every three hours, or on request), which *)
(* corrects the rows of the users statement by statement and then replaces *)
(* the raw copy of the term.  A user who logs in for the first time, or    *)
(* with another student number, gets all rows anew from the raw copy; one  *)
(* who logs in by the One App gets the number alone.                       *)
(* Nothing runs in a transaction, and nothing keeps two of these apart.    *)
(*                                                                         *)
(* Several users may have the same student number.  A row is known by its  *)
(* id: rows are deleted by the ids read before.                            *)
(***************************************************************************)
EXTENDS Naturals, FiniteSets

CONSTANTS Users, Students,
          NoStudent,   \* no user yet, or one without a numeric student number
          Lecs, TermOf, NoTerm,
          Runs,        \* runs of syncTakenLecture at the same time
          MaxChanges,  \* bound on changes of records and of student numbers
          MaxFaults    \* bound on crashes, failed statements and overlaps of runs

ASSUME TakenAssumption ==
  /\ NoStudent \notin Students
  /\ DOMAIN TermOf = Lecs /\ NoTerm \notin {TermOf[l] : l \in Lecs}
  /\ IsFiniteSet(Runs) /\ MaxChanges \in Nat /\ MaxFaults \in Nat

VARIABLES attend,   \* attend[s]: lectures of s in the registrar's records
          student,  \* student[u]: student number of u
          taken,    \* taken[u][l]: id of the row, 0 if there is none
          raw,      \* raw[s]: sync_taken_lectures of s
          run, login,
          seen,     \* history: lectures s ever attended
          upset,    \* history: users whose login met a run or failed, or whom
                    \* the One App gave another number when they had rows
          changes, faults

db   == <<student, taken, raw>>
vars == <<attend, student, taken, raw, run, login, seen, upset, changes, faults>>

Terms       == {TermOf[l] : l \in Lecs}
InTerm(t)   == {l \in Lecs : TermOf[l] = t}
Taken(u)    == {l \in Lecs : taken[u][l] # 0}
Ids         == 1..(Cardinality(Runs) + 1)
NoRecords   == [s \in Students |-> {}]
NoRows      == [u \in Users |-> {}]

\* What a run holds: the fetched records, the rows <<lecture, id>> it read with
\* the student number of their owner, and the corrections left to do.
\* alone and calm are history: no other run was active; then, which users no
\* login touched and no statement failed for.
Idle == [pc |-> "idle", term |-> NoTerm, att |-> NoRecords,
         old |-> NoRows, of |-> [u \in Users |-> NoStudent],
         todo |-> {}, add |-> {}, alone |-> FALSE, calm |-> {}]
Active == {r \in Runs : run[r].pc # "idle"}
LoggedOut == [pc |-> "idle", raw |-> {}]

TypeOK ==
  /\ attend \in [Students -> SUBSET Lecs] /\ raw \in [Students -> SUBSET Lecs]
  /\ student \in [Users -> Students \cup {NoStudent}]
  /\ taken \in [Users -> [Lecs -> {0} \cup Ids]]
  /\ \A r \in Runs :
       /\ run[r].pc \in {"idle", "fetched", "loaded", "updating", "adding", "saving"}
       /\ run[r].term \in Terms \cup {NoTerm}
       /\ \A s \in Students : run[r].att[s] \subseteq InTerm(run[r].term)
       /\ \A p \in run[r].todo : p.student \in Students /\ p.user \in Users
  /\ \A u \in Users : login[u].pc \in {"idle", "reading", "deleting", "inserting"}
  /\ changes \in 0..MaxChanges /\ faults \in 0..MaxFaults

Init ==
  /\ attend \in [Students -> SUBSET Lecs]
  /\ student \in [Users -> Students \cup {NoStudent}]
  /\ taken = [u \in Users |-> [l \in Lecs |-> 0]]
  /\ raw = NoRecords
  /\ run = [r \in Runs |-> Idle]
  /\ login = [u \in Users |-> LoggedOut]
  /\ seen = attend /\ upset = {} /\ changes = 0 /\ faults = 0

-----------------------------------------------------------------------------
\* Rows that a run read and may still delete by their ids.
Remembered(u, l) ==
  {i \in Ids : \E r \in Runs :
     \/ <<l, i>> \in run[r].old[u]
     \/ \E p \in run[r].todo : p.user = u /\ <<l, i>> \in p.remove}
\* An auto-increment id: none that is still remembered.
NewId(u, l) == CHOOSE i \in Ids : i \notin Remembered(u, l)

\* createMany: one statement, refused as a whole if a row is there already.
Creatable(u, L) == L \cap Taken(u) = {}
Create(u, L) ==
  taken' = [taken EXCEPT ![u] = [l \in Lecs |-> IF l \in L THEN NewId(u, l) ELSE @[l]]]

\* A student enrolls or drops, in the registrar's database.
Registrar(s, l) ==
  /\ changes < MaxChanges /\ changes' = changes + 1
  /\ attend' = [attend EXCEPT ![s] = IF l \in @ THEN @ \ {l} ELSE @ \cup {l}]
  /\ seen' = [seen EXCEPT ![s] = @ \cup attend'[s]]
  /\ UNCHANGED <<student, taken, raw, run, login, upset, faults>>

-----------------------------------------------------------------------------
\* getAttendType: the records of the term.
StartRun(r, t) ==
  /\ run[r].pc = "idle"
  /\ run' = [q \in Runs |->
       IF q = r THEN [Idle EXCEPT !.pc = "fetched", !.term = t,
                        !.att = [s \in Students |-> attend[s] \cap InTerm(t)],
                        !.alone = (Active = {}),
                        !.calm = {u \in Users : Active = {} /\ login[u].pc = "idle"}]
       ELSE [run[q] EXCEPT !.alone = FALSE, !.calm = {}]]
  /\ faults' = IF Active = {} THEN faults ELSE faults + 1
  /\ faults' <= MaxFaults
  /\ UNCHANGED <<attend, db, login, seen, upset, changes>>

\* Mutant: the rows of all terms are read.
ReadTakenOfAllTerms(r) ==
  /\ run[r].pc = "fetched"
  /\ run' = [run EXCEPT ![r] = [@ EXCEPT !.pc = "loaded", !.of = student,
       !.old = [u \in Users |-> {<<l, taken[u][l]>> : l \in Taken(u)}]]]
  /\ UNCHANGED <<attend, db, login, seen, upset, changes, faults>>

\* getUserExistingTakenLectures, without the users whose number is no number.
ReadTaken(r) ==
  /\ run[r].pc = "fetched"
  /\ run' = [run EXCEPT ![r] = [@ EXCEPT !.pc = "loaded", !.of = student,
       !.old = [u \in Users |->
                  IF student[u] = NoStudent THEN {}
                  ELSE {<<l, taken[u][l]>> : l \in Taken(u) \cap InTerm(run[r].term)}]]]
  /\ UNCHANGED <<attend, db, login, seen, upset, changes, faults>>

\* Mutant: all rows of a student number are compared, whoever they belong to.
RowsOfStudent(r, u) ==
  UNION {run[r].old[v] : v \in {v \in Users : run[r].of[v] = student[u]}}

\* The rows read for u that were filed under the student number u has now.
RowsOf(r, u) == IF run[r].of[u] = student[u] THEN run[r].old[u] ELSE {}

\* The students of the records and of the rows read.
StudentIds(r) ==
  {s \in Students : run[r].att[s] # {} \/
                    \E u \in Users : run[r].of[u] = s /\ run[r].old[u] # {}}

Correction(r, u) ==
  LET rows == RowsOf(r, u)
      att  == run[r].att[student[u]]
  IN [user |-> u, student |-> student[u],
      remove |-> {x \in rows : x[1] \notin att},
      add |-> att \ {x[1] : x \in rows}]

\* getUserProfileIdsFromStudentIds, and the corrections computed from what has
\* been read; users that need none are skipped.
ReadProfiles(r) ==
  /\ run[r].pc = "loaded"
  /\ run' = [run EXCEPT ![r] = [@ EXCEPT !.pc = "updating",
       !.old = NoRows, !.of = Idle.of,
       !.todo = {p \in {Correction(r, u) : u \in {u \in Users : student[u] \in StudentIds(r)}} :
                   p.remove \cup p.add # {}}]]
  /\ UNCHANGED <<attend, db, login, seen, upset, changes, faults>>

\* updateTakenLectures, first statement: deleteMany by id.
RemoveRows(r) ==
  /\ run[r].pc = "updating"
  /\ \E p \in run[r].todo :
       /\ taken' = [taken EXCEPT ![p.user] =
                      [l \in Lecs |-> IF <<l, @[l]>> \in p.remove THEN 0 ELSE @[l]]]
       /\ run' = [run EXCEPT ![r] = [@ EXCEPT !.pc = "adding", !.add = {p},
                                     !.todo = run[r].todo \ {p}]]
  /\ UNCHANGED <<attend, student, raw, login, seen, upset, changes, faults>>

\* An exception in the loop is noted; the other users of the student number are
\* skipped.
SkipStudent(r, s) ==
  run' = [run EXCEPT ![r] = [@ EXCEPT !.pc = "updating", !.add = {},
            !.todo = {p \in run[r].todo : p.student # s},
            !.calm = {u \in run[r].calm : student[u] # s}]]

\* updateTakenLectures, second statement: createMany.
AddRows(r) ==
  /\ run[r].pc = "adding"
  /\ \E p \in run[r].add :
       IF Creatable(p.user, p.add)
       THEN /\ Create(p.user, p.add)
            /\ run' = [run EXCEPT ![r] = [@ EXCEPT !.pc = "updating", !.add = {}]]
       ELSE SkipStudent(r, p.student) /\ UNCHANGED taken
  /\ UNCHANGED <<attend, student, raw, login, seen, upset, changes, faults>>

\* One of the two statements fails.
UpdateFails(r) ==
  /\ run[r].pc \in {"updating", "adding"} /\ faults < MaxFaults
  /\ \E p \in IF run[r].pc = "adding" THEN run[r].add ELSE run[r].todo :
       SkipStudent(r, p.student)
  /\ faults' = faults + 1
  /\ UNCHANGED <<attend, db, login, seen, upset, changes>>

\* replaceRawTakenLectures: deleteMany of the term, then createMany.
ClearRaw(r) ==
  /\ run[r].pc = "updating" /\ run[r].todo = {}
  /\ raw' = [s \in Students |-> raw[s] \ InTerm(run[r].term)]
  /\ run' = [run EXCEPT ![r].pc = "saving"]
  /\ UNCHANGED <<attend, student, taken, login, seen, upset, changes, faults>>

SaveRaw(r) ==
  /\ run[r].pc = "saving"
  /\ raw' = [s \in Students |-> raw[s] \cup run[r].att[s]]
  /\ run' = [run EXCEPT ![r] = Idle]
  /\ UNCHANGED <<attend, student, taken, login, seen, upset, changes, faults>>

\* The process dies, or a statement outside of the loop throws.
StopRun(r) ==
  /\ run[r].pc # "idle" /\ faults < MaxFaults
  /\ run' = [run EXCEPT ![r] = Idle]
  /\ faults' = faults + 1
  /\ UNCHANGED <<attend, db, login, seen, upset, changes>>

-----------------------------------------------------------------------------
\* ssoLogin of a new user or with another student number: the number is saved
\* first.  A number that is none ends it there, and the rows stay.
Login(u, s) ==
  /\ login[u].pc = "idle" /\ s # student[u]
  /\ changes < MaxChanges /\ changes' = changes + 1
  /\ student' = [student EXCEPT ![u] = s]
  /\ login' = [login EXCEPT ![u].pc = IF s = NoStudent THEN "idle" ELSE "reading"]
  /\ upset' = IF Active = {} \/ s = NoStudent THEN upset \ {u} ELSE upset \cup {u}
  /\ run' = [r \in Runs |-> [run[r] EXCEPT !.calm = @ \ {u}]]
  /\ UNCHANGED <<attend, taken, raw, seen, faults>>

\* CreateUserFromSsoInfo, a login by the One App: the number is saved, and
\* nothing else.  The rows stay as they are, also when the user logs in by
\* ssoLogin next: that finds the number it was to save.
OneAppLogin(u, s) ==
  /\ s # student[u]
  /\ changes < MaxChanges /\ changes' = changes + 1
  /\ student' = [student EXCEPT ![u] = s]
  /\ upset' = IF Active = {} /\ Taken(u) = {} /\ login[u].pc = "idle" THEN upset \ {u} ELSE upset \cup {u}
  /\ run' = [r \in Runs |-> [run[r] EXCEPT !.calm = @ \ {u}]]
  /\ UNCHANGED <<attend, taken, raw, login, seen, faults>>

\* repopulateTakenLectureForStudent: getRawTakenLecturesOfStudent ...
ReadRaw(u) ==
  /\ login[u].pc = "reading"
  /\ login' = [login EXCEPT ![u] = IF student[u] = NoStudent THEN LoggedOut
                                  ELSE [pc |-> "deleting", raw |-> raw[student[u]]]]
  /\ UNCHANGED <<attend, db, run, seen, upset, changes, faults>>

\* Mutant: only the rows that are in the way are deleted.
DeleteConflicting(u) ==
  /\ login[u].pc = "deleting"
  /\ taken' = [taken EXCEPT ![u] = [l \in Lecs |-> IF l \in login[u].raw THEN 0 ELSE @[l]]]
  /\ login' = [login EXCEPT ![u].pc = "inserting"]
  /\ UNCHANGED <<attend, student, raw, run, seen, upset, changes, faults>>

\* ... repopulateTakenLecturesOfUser: all rows of the user, of every term ...
DeleteTaken(u) ==
  /\ login[u].pc = "deleting"
  /\ taken' = [taken EXCEPT ![u] = [l \in Lecs |-> 0]]
  /\ login' = [login EXCEPT ![u].pc = "inserting"]
  /\ UNCHANGED <<attend, student, raw, run, seen, upset, changes, faults>>

\* ... are made again.  The request fails if a run has added one meanwhile.
InsertTaken(u) ==
  /\ login[u].pc = "inserting"
  /\ IF Creatable(u, login[u].raw) THEN Create(u, login[u].raw) ELSE UNCHANGED taken
  /\ login' = [login EXCEPT ![u] = LoggedOut]
  /\ UNCHANGED <<attend, student, raw, run, seen, upset, changes, faults>>

LoginFails(u) ==
  /\ login[u].pc # "idle" /\ faults < MaxFaults
  /\ login' = [login EXCEPT ![u] = LoggedOut]
  /\ upset' = IF login[u].pc = "inserting" THEN upset ELSE upset \cup {u}
  /\ faults' = faults + 1
  /\ UNCHANGED <<attend, db, run, seen, changes>>

Next ==
  \/ \E s \in Students, l \in Lecs : Registrar(s, l)
  \/ \E r \in Runs :
       \/ \E t \in Terms : StartRun(r, t)
       \/ ReadTaken(r) \/ ReadProfiles(r) \/ RemoveRows(r) \/ AddRows(r)
       \/ UpdateFails(r) \/ ClearRaw(r) \/ SaveRaw(r) \/ StopRun(r)
  \/ \E u \in Users :
       \/ \E s \in Students \cup {NoStudent} : Login(u, s) \/ OneAppLogin(u, s)
       \/ ReadRaw(u) \/ DeleteTaken(u) \/ InsertTaken(u) \/ LoginFails(u)

Spec == Init /\ [][Next]_vars

-----------------------------------------------------------------------------
\* Whatever earlier runs left behind, overlapping, failed or half done, a run
\* that meets no other run repairs it: when it ends, the users it did not fail
\* on and who did not change their student number meanwhile have exactly the
\* lectures of the records it fetched, each of several users of one student
\* number, and so has the raw copy.
Repairs ==
  [][\A r \in Runs :
       (run[r].pc = "saving" /\ SaveRaw(r) /\ run[r].alone) =>
         /\ \A u \in run[r].calm :
              student[u] # NoStudent =>
                Taken(u) \cap InTerm(run[r].term) = run[r].att[student[u]]
         /\ \A s \in Students : raw'[s] \cap InTerm(run[r].term) = run[r].att[s]]_vars

\* A run changes rows of its own term only; rows of past terms, which no later
\* run would restore, change by the user's own login alone.
PastTermsKept ==
  [][\A u \in Users, l \in Lecs :
       taken'[u][l] # taken[u][l] =>
         \/ login'[u] # login[u]
         \/ \E r \in Active : run'[r] # run[r] /\ run[r].term = TermOf[l]]_vars

\* Nobody is shown lectures of somebody else's student number: unless the login
\* that changed the number met a run or failed, or came by the One App to a user
\* with rows, all rows of a user come from records of the number the user has now.
OwnLectures ==
  /\ TypeOK
  /\ \A u \in Users :
       (login[u].pc = "idle" /\ u \notin upset /\ student[u] # NoStudent) =>
         Taken(u) \subseteq seen[student[u]]
=============================================================================
