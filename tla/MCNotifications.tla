--------------------------- MODULE MCNotifications ---------------------------
(***************************************************************************)
(* Instances of Notifications for TLC.  A behaviour offers one mix of      *)
(* requests: two of a user's agreements, two of his switches, three of     *)
(* devices, or one of a user beside a notification on its way.             *)
(***************************************************************************)
EXTENDS Notifications, TLC

CONSTANTS course, event
VARIABLE mix

MCNames == {course, event}
MCTypes == {"INFO", "MARKETING", "NIGHT_MARKETING"}
MCKind == (course :> "INFO") @@ (event :> "MARKETING")

MCInit ==
  /\ Init
  /\ mix \in {"agreements", "switches", "devices", "sending"}
  /\ mix # "sending" => clock = 0
  /\ mix \in {"agreements", "devices"} => names = {}
  /\ mix = "devices" => agr = None
  /\ mix = "switches" => event \in names
  /\ mix = "sending" => names = MCNames

Offered(q) ==
  CASE mix = "agreements" -> /\ q.op \in {"decide", "modal", "initialize"}
                             /\ q.type # "NIGHT_MARKETING"
    [] mix = "switches" -> q.op \in {"login", "switch"}
    [] mix = "devices" -> q.op \in {"register", "update", "unregister"}
    [] mix = "sending" -> \/ q.op = "login"
                          \/ q.op = "decide" /\ q.type # "INFO"
                          \/ q.op = "switch" /\ q.name = event

\* Requests and slots are alike: the next one to begin is the first idle one.
InOrder ==
  /\ \A r \in Asks : ask[r].pc = "idle" /\ ask'[r].pc # "idle" =>
       Offered(ask'[r]) /\ \A q \in 1..(r - 1) : ask[q].pc # "idle"
  /\ \A c \in Slots : work[c].pc = "free" /\ work'[c].pc # "free" =>
       \A d \in 1..(c - 1) : work[d].pc # "free"

Limit == CASE mix = "devices" -> Cardinality(Asks) [] mix = "sending" -> 1 [] OTHER -> 2

MCNext ==
  /\ Next
  /\ InOrder
  /\ Cardinality({r \in Asks : ask'[r].pc # "idle"}) <= Limit
  /\ mix # "sending" => note' = note /\ clock' = clock
  /\ mix # "switches" => names' = names
  /\ UNCHANGED mix

MCSpec == MCInit /\ [][MCNext]_<<vars, mix>> /\ Fairness
=============================================================================
