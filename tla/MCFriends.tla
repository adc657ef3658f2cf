------------------------------ MODULE MCFriends ------------------------------
(***************************************************************************)
(* Instances for TLC of Friends and of Schedules.  A behaviour is about    *)
(* friendships and codes, or about what is shown of one friend.            *)
(***************************************************************************)
EXTENDS Friends, Schedules, TLC

VARIABLE about

Section(term, at, professor) == [term |-> term, course |-> 1, professors |-> {professor}, at |-> at]
MCFactsOf == <<Section(2, 1, 1), Section(2, 2, 2), Section(1, 1, 1)>>
MCTaken == {{}, {1}, {2, 3}}

\* Of the two, the one a behaviour is not about stays as it is.
MCInit ==
  /\ about \in {"friends", "schedules"}
  /\ Init /\ SchedulesInit
  /\ about = "friends" => mapped = 0 /\ saved = {} /\ taken = {}
  /\ about = "schedules" => (\A u \in Users : code[u] = NoCode) /\ taken \in MCTaken
MCNext ==
  /\ UNCHANGED about
  /\ \/ about = "friends" /\ Next /\ UNCHANGED scheduleVars
     \/ about = "schedules" /\ SchedulesNext /\ UNCHANGED vars
MCSpec == MCInit /\ [][MCNext]_<<vars, scheduleVars, about>>

Symmetry == Permutations(Users) \cup Permutations(Codes) \cup Permutations(Reqs)
=============================================================================
