---------------------------- MODULE MCScholarJobs ----------------------------
(***************************************************************************)
(* Instances of ScholarJobs and of Registry for TLC.  A behaviour is about *)
(* jobs that replace the rows of one table, or about what is made of lists *)
(* of the registrar.  Runs begin in their order, and two at most are under *)
(* way.                                                                    *)
(***************************************************************************)
EXTENDS ScholarJobs, Registry

CONSTANTS user1, user2
VARIABLE mode

Padded(t) == [text |-> t, padded |-> TRUE]
Lecture(s, class, dept, name, title, english) ==
  [subject |-> s, class |-> Padded(class), dept |-> dept, deptName |-> name,
   title |-> [base |-> title, rest |-> class], type |-> "MR", old |-> name, english |-> english]
Charge(s, p, name) ==
  [subject |-> s, class |-> Padded("A"), prof |-> p, dept |-> 1, name |-> Padded(name), nameEn |-> Padded("")]
Examtime(s, day, begin) == [subject |-> s, class |-> Padded("A"), day |-> day, begin |-> begin, end |-> 2]
Classtime(s, day, kd) ==
  [subject |-> s, class |-> Padded("A"), day |-> day, begin |-> 1, end |-> 2, kind |-> kd, place |-> "E11"]

\* One lecture of a department that exists; two of one subject in a new
\* department with its code; subjects of two departments, with entries the
\* server refuses; two new departments with one code, and one without.
Old == [lectures |-> <<Lecture("36.1", "A", 1, "School", "Logic", "Y")>>, charges |-> <<Charge("36.1", 7, "Kim")>>,
        examtimes |-> <<Examtime("36.1", 2, 1)>>, classtimes |-> <<Classtime("36.1", 1, "L")>>]
New2 == [lectures |-> <<Lecture("36.1", "B", 2, "Computing", "Logics", ""), Lecture("36.1", "A", 2, "School", "Logic", "Y")>>,
         charges |-> <<Charge("36.1", 7, "Lee"), Charge("36.1", Staff, "Staff"), Charge("36.1", 7, "Kim")>>,
         examtimes |-> <<>>, classtimes |-> <<Classtime("36.1", 1, "e")>>]
Refused2 == [lectures |-> <<Lecture("36.2", "A", 2, "School", "Sets", "?"), Lecture("CS1", "A", 3, "CS", "Sets", "Y")>>,
             charges |-> <<>>, examtimes |-> <<Examtime("36.2", 1, Nothing)>>, classtimes |-> <<Classtime("CS1", 8, "L")>>]
Alike2 == [lectures |-> <<Lecture("CS1", "A", 1, "CS", "Sets", "N"), Lecture("CS2", "A", 3, "CS", "Sets", "N"),
                          Lecture("-", "A", 4, "Q", "Q", "N")>>,
           charges |-> <<>>, examtimes |-> <<Examtime("CS1", 1, 1)>>, classtimes |-> <<>>]
MCListings == {Old, New2, Refused2, Alike2}

MCNumOf == [s \in Subjects |-> IF s \in {"36.1", "36.2"} THEN "36" ELSE s]
MCCodeOf == [s \in Subjects |-> CASE s \in {"36.1", "36.2"} -> "36" [] s \in {"CS1", "CS2"} -> "CS" [] OTHER -> NoCode]
There(code, name) == [num |-> code, code |-> code, name |-> name, visible |-> TRUE]
MCOldDepartments == <<There("36", "School"), Nothing, Nothing, Nothing, There("CS", "CS")>>
Newer1 == <<2, 1>>
Older1 == <<1, 4>>
MCSemesters == <<Newer1, Older1>>
MCRequests == {[term |-> Newer1, interval |-> 1], [term |-> Nothing, interval |-> 2], [term |-> Older1, interval |-> 0]}

MCInit ==
  /\ mode \in {"jobs", "registry"}
  /\ Init /\ (mode = "registry" => kind = "review" /\ listed = <<>>)
  /\ RegistryInit /\ registrar[Older1] \in {Old, Alike2} /\ (mode = "jobs" => registrar = [t \in Terms |-> Old])

JobStep ==
  /\ Next
  /\ \A j, k \in Runs : j < k /\ job'[k].pc # "idle" => job'[j].pc # "idle"
  /\ Cardinality({j \in Runs : job'[j].pc \notin {"idle", "done"}}) <= 2

\* All jobs are asked for all terms, one for the older.  Lectures alone are
\* made by two runs at once, of one term each, while nothing else happens; the
\* registrar and the schedule change before the second run, and what fails
\* fails in the first.
Overlaps == Cardinality({j \in Syncs : sync'[j].pc \notin {"idle", "done"}}) > 1
Begun(r) == sync[r].pc = "idle" /\ sync'[r].pc # "idle"
RegistryStep ==
  /\ RegistryNext
  /\ \A j, k \in Syncs : j < k /\ sync'[k].pc # "idle" => sync'[j].pc # "idle"
  /\ \A r \in Syncs : Begun(r) =>
       IF Running # {} THEN sync'[r].kind = "scholarDB" /\ Len(sync'[r].terms) = 1
       ELSE sync'[r].copy = "server" \/ (sync'[r].kind = "syncAll" <=> sync'[r].terms # <<Older1>>)
  /\ registrar' # registrar \/ scheduled' # scheduled => Running = {} /\ registrar'[Older1] = registrar[Older1]
  /\ registryFaults' # registryFaults => \A r \in Running : sync[r].kind # "syncAll"
  /\ registryBounds' # registryBounds => \A r \in Syncs : sync[r].pc # "idle" => r = 1
  /\ registryChanges' + registryFaults' <= 1
  /\ Overlaps => /\ registryChanges' = 0 /\ registryFaults' = 0
                 /\ \A j \in Syncs : sync'[j].pc # "idle" => sync'[j].kind = "scholarDB" /\ Len(sync'[j].terms) = 1

MCNext ==
  /\ UNCHANGED mode
  /\ \/ mode = "jobs" /\ JobStep /\ UNCHANGED registryVars
     \/ mode = "registry" /\ RegistryStep /\ UNCHANGED vars

MCSpec == MCInit /\ [][MCNext]_<<vars, registryVars, mode>>
=============================================================================
