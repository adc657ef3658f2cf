------------------------------ MODULE Delivery ------------------------------
(***************************************************************************)
(* What a publisher may rely on when it hands a message to RabbitMQ and    *)
(* the consumers of libs/rmq: at-least-once delivery.  A message that was  *)
(* sent stays live until it has an outcome (it was handled, or it was      *)
(* given up through the dead-letter queue), outcomes are never taken back, *)
(* and a message may get more than one of them.                            *)
(***************************************************************************)

CONSTANT Msgs

VARIABLES sent,     \* messages published so far
          live,     \* messages of which RabbitMQ still holds a copy
          done,     \* messages a handler finished in time
          dead      \* messages given up through the dead-letter queue

vars == <<sent, live, done, dead>>

TypeOK ==
  /\ sent \in SUBSET Msgs
  /\ live \in SUBSET sent
  /\ done \in SUBSET sent
  /\ dead \in SUBSET sent

Init == sent = {} /\ live = {} /\ done = {} /\ dead = {}

Send(m) ==
  /\ m \notin sent
  /\ sent' = sent \cup {m}
  /\ live' = live \cup {m}
  /\ UNCHANGED <<done, dead>>

\* A live message gets an outcome; it may or may not have further copies.
Settle(m) ==
  /\ m \in live
  /\ \/ done' = done \cup {m} /\ UNCHANGED dead
     \/ dead' = dead \cup {m} /\ UNCHANGED done
  /\ live' \in {live, live \ {m}}
  /\ UNCHANGED sent

\* A superfluous copy of a message that already has an outcome goes away.
Forget(m) ==
  /\ m \in live
  /\ m \in done \cup dead
  /\ live' = live \ {m}
  /\ UNCHANGED <<sent, done, dead>>

Next == \E m \in Msgs : Send(m) \/ Settle(m) \/ Forget(m)

Spec == Init /\ [][Next]_vars
=============================================================================
