--------------------------- MODULE RabbitConsumer ---------------------------
(***************************************************************************)
(* The message consumer of libs/rmq (RabbitConsumerExplorer) together with *)
(* the part of RabbitMQ it relies on: one work queue behind a delayed      *)
(* exchange, its dead-letter queue, and several consumer processes that    *)
(* read both queues.  A message is a member of Msgs; what its handler does *)
(* is left to the modules that model the handlers, here a handler returns, *)
(* throws or misses its timer.                                             *)
(*                                                                         *)
(* A published message is represented by its copies inside the broker:     *)
(* every copy occupies a slot and carries the x-retry-count header of the  *)
(* code.  The queues are unordered, which covers FIFO order with           *)
(* redeliveries and several consumers.                                     *)
(***************************************************************************)
EXTENDS Naturals, FiniteSets

CONSTANTS Msgs,        \* the messages
          Slots,       \* room for copies in the broker (bounds their number)
          Workers,     \* the consumer processes (PM2 runs two)
          NoCopy,      \* an empty slot
          NoWorker,    \* the owner of a copy that no consumer holds
          MAX_RETRIES,  \* MAX_RETRIES of the code
          Prefetch,    \* the consumer's prefetch
          MaxCrashes,  \* bound on process crashes
          MaxCloses    \* bound on connections closed under a live process

Queues == {"main", "dlq"}
\* Where a copy is: waiting in the delayed exchange, in the queue, held by a
\* handler, held by a consumer whose ack is on its way after the handler
\* returned ("handled") or after a retry was published ("retried").
Places == {"delayed", "ready", "running", "handled", "retried"}

CopySet == [msg   : Msgs,
            retry : 0..MAX_RETRIES,
            q     : Queues,
            at    : Places,
            by    : Workers \cup {NoWorker}]

ASSUME ConstantsAssumption ==
  /\ MAX_RETRIES \in Nat
  /\ Prefetch \in Nat \ {0}
  /\ MaxCrashes \in Nat
  /\ MaxCloses \in Nat
  /\ NoWorker \notin Workers
  /\ NoCopy \notin CopySet

VARIABLES copy,      \* copy[s]: the copy in slot s, or NoCopy
          sent,      \* messages published
          handled,   \* messages acknowledged after their handler returned
          parked,    \* messages the dead-letter handler has reported
          dropped,   \* messages whose dead-letter handler failed
          proc,      \* proc[w]: process w is "up", "closed" or "down"
          starts,    \* starts[m]: handler invocations for m so far
          crashes, closes

consumerVars == <<copy, sent, handled, parked, dropped, proc, starts, crashes, closes>>

\* Copy c after the broker or a consumer moved it.
Move(c, q, at, by) ==
  [msg |-> c.msg, retry |-> c.retry, q |-> q, at |-> at, by |-> by]

Live(s)      == copy[s] # NoCopy
CopiesOf(m)  == {s \in Slots : Live(s) /\ copy[s].msg = m}
HeldBy(w, q) == {s \in Slots : Live(s) /\ copy[s].by = w /\ copy[s].q = q}
Settled      == handled \cup parked \cup dropped

ConsumerTypeOK ==
  /\ copy \in [Slots -> CopySet \cup {NoCopy}]
  /\ sent \in SUBSET Msgs
  /\ handled \in SUBSET Msgs
  /\ parked \in SUBSET Msgs
  /\ dropped \in SUBSET Msgs
  /\ proc \in [Workers -> {"up", "closed", "down"}]
  /\ starts \in [Msgs -> Nat]
  /\ crashes \in 0..MaxCrashes
  /\ closes \in 0..MaxCloses

ConsumerInit ==
  /\ copy = [s \in Slots |-> NoCopy]
  /\ sent = {} /\ handled = {} /\ parked = {} /\ dropped = {}
  /\ proc = [w \in Workers |-> "up"]
  /\ starts = [m \in Msgs |-> 0]
  /\ crashes = 0 /\ closes = 0

-----------------------------------------------------------------------------
\* publishToExchange: a persistent message with x-delay 0 and no retry header.
Publish(m) ==
  /\ m \notin sent
  /\ \E s \in Slots :
       /\ ~Live(s)
       /\ copy' = [copy EXCEPT ![s] = [msg |-> m, retry |-> 0, q |-> "main",
                                       at |-> "ready", by |-> NoWorker]]
  /\ sent' = sent \cup {m}
  /\ UNCHANGED <<handled, parked, dropped, proc, starts, crashes, closes>>

\* The delayed exchange routes a retry to its queue once x-delay has passed.
DelayExpires(s) ==
  /\ Live(s) /\ copy[s].at = "delayed"
  /\ copy' = [copy EXCEPT ![s] = Move(@, @.q, "ready", NoWorker)]
  /\ UNCHANGED <<sent, handled, parked, dropped, proc, starts, crashes, closes>>

\* RabbitMQ pushes a copy to a consumer below its prefetch; the callback
\* starts the handler and its timer.
DeliverCopy(s, w) ==
  /\ Live(s) /\ copy[s].at = "ready"
  /\ proc[w] = "up"
  /\ Cardinality(HeldBy(w, copy[s].q)) < Prefetch
  /\ copy' = [copy EXCEPT ![s] = Move(@, @.q, "running", w)]
  /\ starts' = [starts EXCEPT ![copy[s].msg] = @ + 1]
  /\ UNCHANGED <<sent, handled, parked, dropped, proc, crashes, closes>>

\* A step of the callback that holds copy s, in a process that is connected.
HoldsCopy(s, place) ==
  /\ Live(s) /\ copy[s].at = place
  /\ copy[s].by \in Workers /\ proc[copy[s].by] = "up"

\* The handler wins the race: channel.ack is written to the socket ...
HandlerReturns(s) ==
  /\ HoldsCopy(s, "running")
  /\ copy' = [copy EXCEPT ![s] = Move(@, @.q, "handled", @.by)]
  /\ UNCHANGED <<sent, handled, parked, dropped, proc, starts, crashes, closes>>

\* ... and RabbitMQ processes it.
AckHandled(s) ==
  /\ HoldsCopy(s, "handled")
  /\ copy' = [copy EXCEPT ![s] = NoCopy]
  /\ IF copy[s].q = "main"
       THEN handled' = handled \cup {copy[s].msg} /\ UNCHANGED parked
       ELSE parked' = parked \cup {copy[s].msg} /\ UNCHANGED handled
  /\ UNCHANGED <<sent, dropped, proc, starts, crashes, closes>>

\* Mutant: the copy is put back as well as retried.
PublishRetryAndRequeue(s) ==
  /\ HoldsCopy(s, "running")
  /\ copy[s].retry < MAX_RETRIES
  /\ \E t \in Slots :
       /\ ~Live(t)
       /\ copy' = [copy EXCEPT
                     ![t] = [msg |-> copy[s].msg, retry |-> copy[s].retry + 1,
                             q |-> copy[s].q, at |-> "delayed",
                             by |-> NoWorker],
                     ![s] = Move(@, @.q, "ready", NoWorker)]
  /\ UNCHANGED <<sent, handled, parked, dropped, proc, starts, crashes, closes>>

\* The handler threw, or the timer fired first: below MAX_RETRIES a copy with
\* x-retry-count + 1 is published to the same exchange, and then the copy at
\* hand is acknowledged.  Both go over one channel, so in this order.
PublishRetry(s) ==
  /\ HoldsCopy(s, "running")
  /\ copy[s].retry < MAX_RETRIES
  /\ \E t \in Slots :
       /\ ~Live(t)
       /\ copy' = [copy EXCEPT
                     ![t] = [msg |-> copy[s].msg, retry |-> copy[s].retry + 1,
                             q |-> copy[s].q, at |-> "delayed",
                             by |-> NoWorker],
                     ![s] = Move(@, @.q, "retried", @.by)]
  /\ UNCHANGED <<sent, handled, parked, dropped, proc, starts, crashes, closes>>

\* Mutant: the copy at hand is never acknowledged after its retry.
AckRetriedNever(s) == HoldsCopy(s, "retried") /\ UNCHANGED consumerVars

AckRetried(s) ==
  /\ HoldsCopy(s, "retried")
  /\ copy' = [copy EXCEPT ![s] = NoCopy]
  /\ UNCHANGED <<sent, handled, parked, dropped, proc, starts, crashes, closes>>

\* Mutant: the last retry is not made.
NackToDlqEarly(s) ==
  /\ HoldsCopy(s, "running")
  /\ copy[s].retry + 1 >= MAX_RETRIES
  /\ IF copy[s].q = "main"
       THEN /\ copy' = [copy EXCEPT ![s] = Move(@, "dlq", "ready", NoWorker)]
            /\ UNCHANGED dropped
       ELSE /\ copy' = [copy EXCEPT ![s] = NoCopy]
            /\ dropped' = dropped \cup {copy[s].msg}
  /\ UNCHANGED <<sent, handled, parked, proc, starts, crashes, closes>>

\* Out of retries: nack without requeue.  The work queue has a dead-letter
\* exchange, which keeps the headers; the dead-letter queue has none, and a
\* message rejected there is gone.
NackToDlq(s) ==
  /\ HoldsCopy(s, "running")
  /\ copy[s].retry >= MAX_RETRIES
  /\ IF copy[s].q = "main"
       THEN /\ copy' = [copy EXCEPT ![s] = Move(@, "dlq", "ready", NoWorker)]
            /\ UNCHANGED dropped
       ELSE /\ copy' = [copy EXCEPT ![s] = NoCopy]
            /\ dropped' = dropped \cup {copy[s].msg}
  /\ UNCHANGED <<sent, handled, parked, proc, starts, crashes, closes>>

\* Mutant: consuming with noAck, unprocessed copies go with the connection.
RequeueNothing(w) ==
  copy' = [s \in Slots |-> IF Live(s) /\ copy[s].by = w THEN NoCopy ELSE copy[s]]

\* RabbitMQ puts every unacknowledged copy of a lost connection back, with
\* the headers it had.
Requeue(w) ==
  copy' = [s \in Slots |->
             IF Live(s) /\ copy[s].by = w
               THEN Move(copy[s], copy[s].q, "ready", NoWorker)
               ELSE copy[s]]

\* The process dies; PM2 (autorestart) starts it again.
ConsumerCrash(w) ==
  /\ proc[w] # "down"
  /\ crashes < MaxCrashes
  /\ crashes' = crashes + 1
  /\ proc' = [proc EXCEPT ![w] = "down"]
  /\ Requeue(w)
  /\ UNCHANGED <<sent, handled, parked, dropped, starts, closes>>

Restart(w) ==
  /\ proc[w] = "down"
  /\ proc' = [proc EXCEPT ![w] = "up"]
  /\ UNCHANGED <<copy, sent, handled, parked, dropped, starts, crashes, closes>>

\* The connection closes under a live process.  The "close" listener only
\* logs, so the process lives on without consumers.
ConnectionClosed(w) ==
  /\ proc[w] = "up"
  /\ closes < MaxCloses
  /\ closes' = closes + 1
  /\ proc' = [proc EXCEPT ![w] = "closed"]
  /\ Requeue(w)
  /\ UNCHANGED <<sent, handled, parked, dropped, starts, crashes>>

-----------------------------------------------------------------------------
CopyStep(s) ==
  \/ DelayExpires(s)
  \/ \E w \in Workers : DeliverCopy(s, w)
  \/ HandlerReturns(s)
  \/ AckHandled(s)
  \/ PublishRetry(s)
  \/ AckRetried(s)
  \/ NackToDlq(s)

ConsumerNext ==
  \/ \E m \in Msgs : Publish(m)
  \/ \E s \in Slots : CopyStep(s)
  \/ \E w \in Workers : ConsumerCrash(w) \/ Restart(w) \/ ConnectionClosed(w)

ConsumerSpec == ConsumerInit /\ [][ConsumerNext]_consumerVars

\* The broker and the event loop run, the timer of the race fires (so a
\* handler that hangs still ends in a retry or a nack), and PM2 restarts a
\* process that exited.  Nobody reopens a closed connection.
ConsumerFairness ==
  /\ \A s \in Slots :
       /\ WF_consumerVars(DelayExpires(s))
       /\ WF_consumerVars(\E w \in Workers : DeliverCopy(s, w))
       /\ WF_consumerVars(AckHandled(s))
       /\ WF_consumerVars(PublishRetry(s) \/ NackToDlq(s) \/ HandlerReturns(s))
       /\ WF_consumerVars(AckRetried(s))
  /\ \A w \in Workers : WF_consumerVars(Restart(w))

ConsumerFairSpec == ConsumerSpec /\ ConsumerFairness

-----------------------------------------------------------------------------
\* The fate of a message as its publisher sees it.
LiveMsgs == {m \in Msgs : CopiesOf(m) # {}}

D == INSTANCE Delivery WITH live <- LiveMsgs, done <- handled,
                            dead <- parked \cup dropped

\* libs/rmq implements at-least-once delivery: whatever fails between the
\* publish, the retry and the ack, a published message keeps a copy in the
\* broker until it was handled or went through the dead-letter queue.
AtLeastOnce == D!Spec

\* A message is reported or lost through the dead-letter queue only after its
\* handler was started MAX_RETRIES + 1 times and the dead-letter handler once
\* (the retry count is incremented once per failure and survives the
\* dead-letter exchange).
GivenUpAfterAllAttempts ==
  /\ \A s \in Slots : (Live(s) /\ copy[s].q = "dlq")
                       => starts[copy[s].msg] > MAX_RETRIES
  /\ \A m \in parked \cup dropped : starts[m] > MAX_RETRIES + 1

\* A copy the consumer still has work to do for.
Pending(s) == Live(s) /\ copy[s].at # "retried"

\* As long as no process dies and no connection closes, retries never fork a
\* message: there is one pending copy until the outcome, one outcome, no handler
\* is started for a message that has one, and a message costs at most
\* MAX_RETRIES + 1 handler invocations and one of the dead-letter handler.
UndisturbedOnce ==
  crashes + closes = 0 =>
    /\ \A s, t \in Slots :
         Pending(s) /\ Pending(t) /\ copy[s].msg = copy[t].msg => s = t
    /\ \A s \in Slots : Pending(s) => copy[s].msg \notin Settled
    /\ handled \cap (parked \cup dropped) = {}
    /\ parked \cap dropped = {}
    /\ \A m \in Msgs : starts[m] <= MAX_RETRIES + 2

\* Every published message gets an outcome, even when its handler hangs
\* every time, as long as some process stays connected.
Settles ==
  \A m \in Msgs : m \in sent ~> (m \in Settled \/ \A w \in Workers : proc[w] = "closed")
=============================================================================
