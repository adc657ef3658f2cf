----------------------------- MODULE MCAccounts -----------------------------
(***************************************************************************)
(* Instances of Accounts for TLC.  A behaviour is about overlapping visits *)
(* of persons with any account, or about a browser that is used by two     *)
(* persons in turn and sends overlapping requests while time passes, and   *)
(* is handed tokens twice; there the rows are complete, so requests wait   *)
(* for the statements of a login, which change nothing they read.          *)
(***************************************************************************)
EXTENDS Accounts, TLC

VARIABLE mix

Symmetry == Permutations(Persons) \cup Permutations(Visits) \cup Permutations(Asks)

\* Tokens that clients have, or that are on their way to them.
Handed == held \cup UNION {TokensOf(asking[a].set) : a \in {b \in Asks : asking[b].handed}}
               \cup UNION {TokensOf(visit[v].jar) : v \in {w \in Visits : visit[w].pc = "answer"}}

MCInit ==
  /\ Init
  /\ mix \in {"visits", "requests"}
  /\ mix = "requests" => Len(rows) = Cardinality(Persons) /\ \A i \in DOMAIN rows : rows[i].sid = rows[i].uid

MCNext ==
  /\ \/ VisitSteps
     \/ /\ mix = "requests" /\ \A v \in Visits : Busy(v) => visit[v].pc = "answer"
        /\ Tick \/ RequestSteps
  /\ mix = "requests" =>
       /\ \A v \in Visits : ~Busy(v) /\ visit'[v].pc # visit[v].pc =>
            /\ ~visit'[v].app /\ \A w \in Visits : ~Busy(w)
            /\ \A t \in held : t.who # visit'[v].who
       /\ faults' = faults /\ Cardinality(Handed') <= 4
  /\ UNCHANGED mix

MCSpec == MCInit /\ [][MCNext]_<<vars, mix>>
=============================================================================
