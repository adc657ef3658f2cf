---------------------------- MODULE Notifications ----------------------------
(***************************************************************************)
(* A push notification from the server's sendNotification through the      *)
(* queues of notification-consumer to Firebase and the history table,      *)
(* beside the settings of UserSettings, which the server reads when it     *)
(* accepts a notification and the consumer reads again for ads at night.   *)
(* Handlers acknowledge when they return and are dead-lettered when they   *)
(* throw; what a dying process had not acknowledged is delivered again.    *)
(***************************************************************************)
EXTENDS UserSettings

CONSTANTS Notes,      \* notifications that the server is asked to send
          Slots,      \* deliveries the consumer handles at a time
          MaxTime,    \* bound: the clock runs from 0 to MaxTime
          Night,      \* the times from 22 to 8 o'clock
          Lead,       \* ten minutes, in the unit of the clock
          MaxCrashes  \* bound on crashes of the consumer

Times == 0..MaxTime
Queues == {"fcm", "info", "ad", "night"}

ASSUME NotificationsAssumption ==
  /\ {"MARKETING", "NIGHT_MARKETING"} \subseteq Types
  /\ Notes # {} /\ Names # {} /\ IsFiniteSet(Slots)
  /\ MaxTime \in Nat /\ Lead \in Nat \ {0} /\ MaxCrashes \in Nat
  /\ Night \subseteq Times

VARIABLES clock,
          note,      \* the notification as the server has it, see NewNote
          queue,     \* queue[q][m]: copies of m that wait in queue q
          schedule,  \* sorted set of Redis: members, with note[m].at as score; nothing
                     \* takes them out, see Forward
          work,      \* what each slot of the consumer is doing
          pushes,    \* sent by Firebase
          records,   \* rows of the history table
          crashes,
          \* history: copies that were redelivered, dead-lettered; what the user
          \* has ever agreed to
          again, dead, agreed

pipeline == <<queue, schedule, work, pushes, records>>
notesHistory == <<again, dead, agreed>>
vars == <<settings, clock, note, pipeline, crashes, notesHistory>>

Zero == [m \in Notes |-> 0]
Plus(f, m) == [f EXCEPT ![m] = @ + 1]
Free == [pc |-> "free", from |-> "fcm", m |-> CHOOSE m \in Notes : TRUE]
NewNote == [pc |-> "new", name |-> CHOOSE n \in Names : TRUE, at |-> 0, active |-> FALSE]

TypeOK ==
  /\ SettingsTypeOK
  /\ clock \in Times
  /\ \A m \in Notes : /\ note[m].pc \in {"new", "switch", "agreement", "publish", "sent", "refused"}
                      /\ note[m].name \in Names /\ note[m].at \in Times
  /\ queue \in [Queues -> [Notes -> Nat]]
  /\ schedule \subseteq Notes
  /\ \A c \in Slots : /\ work[c].pc \in {"free", "forward", "night", "push", "save", "ack"}
                      /\ work[c].from \in Queues /\ work[c].m \in Notes
  /\ pushes \in [Notes -> Nat] /\ records \in [Notes -> Nat]

Init ==
  /\ SettingsInit
  /\ clock \in Times
  /\ note = [m \in Notes |-> NewNote]
  /\ queue = [q \in Queues |-> Zero]
  /\ schedule = {}
  /\ work = [c \in Slots |-> Free]
  /\ pushes = Zero /\ records = Zero /\ crashes = 0
  /\ again = Zero /\ dead = Zero
  /\ agreed = {t \in DOMAIN agr : agr[t].status} \cup {n \in DOMAIN switch : switch[n]}

-----------------------------------------------------------------------------
\* The users' requests, and what they have ever said yes to.
Settings ==
  /\ SettingsNext
  /\ agreed' = agreed \cup {ask'[r].type : r \in {x \in Asks : ask'[x].op = "decide" /\ ask'[x].on}}
                      \cup {ask'[r].name : r \in {x \in Asks : ask'[x].op = "switch" /\ ask'[x].on}}
  /\ UNCHANGED <<clock, note, pipeline, crashes, again, dead>>

Tick ==
  /\ clock < MaxTime
  /\ clock' = clock + 1
  /\ UNCHANGED <<settings, note, pipeline, crashes, notesHistory>>

\* sendNotification for any time: checkNotificationPermission reads the switch
\* and the agreement of its kind, and refuses or fails without them.
Send(m) ==
  /\ note[m].pc = "new"
  /\ \E n \in names, t \in clock..MaxTime :
       note' = [note EXCEPT ![m] = [NewNote EXCEPT !.pc = "switch", !.name = n, !.at = t]]
  /\ UNCHANGED <<settings, clock, pipeline, crashes, notesHistory>>

Becomes(m, pc) == note' = [note EXCEPT ![m].pc = pc]

ReadSwitch(m) ==
  LET n == note[m].name IN
  /\ note[m].pc = "switch"
  /\ note' = [note EXCEPT ![m].pc = "agreement",
                          ![m].active = n \in DOMAIN switch /\ switch[n]]
  /\ UNCHANGED <<settings, clock, pipeline, crashes, notesHistory>>

\* Mutant: the switch alone decides.
ReadSwitchOnly(m) ==
  /\ note[m].pc = "agreement"
  /\ Becomes(m, IF note[m].active THEN "publish" ELSE "refused")
  /\ UNCHANGED <<settings, clock, pipeline, crashes, notesHistory>>

ReadAgreementOf(m) ==
  LET t == Kind[note[m].name] IN
  /\ note[m].pc = "agreement"
  /\ Becomes(m, IF note[m].active /\ t \in DOMAIN agr /\ agr[t].status
                  THEN "publish" ELSE "refused")
  /\ UNCHANGED <<settings, clock, pipeline, crashes, notesHistory>>

Publish(m) ==
  /\ note[m].pc = "publish"
  /\ Becomes(m, "sent")
  /\ queue' = [queue EXCEPT !["fcm"] = Plus(@, m)]
  /\ UNCHANGED <<settings, clock, schedule, work, pushes, records, crashes, notesHistory>>

-----------------------------------------------------------------------------
Doing(c, pc) == work' = [work EXCEPT ![c].pc = pc]

FirstStep(q) == IF q = "fcm" THEN "forward" ELSE IF q = "night" THEN "night" ELSE "push"

Take(c, q, m) ==
  /\ work[c].pc = "free" /\ queue[q][m] > 0
  /\ queue' = [queue EXCEPT ![q][m] = @ - 1]
  /\ work' = [work EXCEPT ![c] = [Free EXCEPT !.pc = FirstStep(q), !.from = q, !.m = m]]
  /\ UNCHANGED <<settings, clock, note, schedule, pushes, records, crashes, notesHistory>>

\* The queue of a notification, by its kind and the hour it is meant for.
Route(m) == IF Kind[note[m].name] = "INFO" THEN "info"
            ELSE IF note[m].at \in Night THEN "night" ELSE "ad"

\* Mutant: what is due later is put nowhere.
ForwardDropping(c) ==
  LET m == work[c].m IN
  /\ work[c].pc = "forward"
  /\ queue' = IF note[m].at - clock >= Lead THEN queue ELSE [queue EXCEPT ![Route(m)] = Plus(@, m)]
  /\ Doing(c, "ack")
  /\ UNCHANGED <<settings, clock, note, schedule, pushes, records, crashes, notesHistory>>

\* handleNotification: one that is due later goes to the sorted set (adding a
\* member that is there changes nothing), the others to their queue; a kind
\* that has none is an error.  No action takes anything out of the set: the job
\* that would (handleDueNotifications) is a provider of a module that does not
\* import ScheduleModule.forRoot(), so its interval is never registered, and the
\* line in it that would publish is a comment.
Forward(c) ==
  LET m == work[c].m IN
  /\ work[c].pc = "forward"
  /\ note[m].at - clock >= Lead \/ Kind[note[m].name] \in {"INFO", "MARKETING"}
  /\ IF note[m].at - clock >= Lead
       THEN schedule' = schedule \cup {m} /\ UNCHANGED queue
       ELSE queue' = [queue EXCEPT ![Route(m)] = Plus(@, m)] /\ UNCHANGED schedule
  /\ Doing(c, "ack")
  /\ UNCHANGED <<settings, clock, note, pushes, records, crashes, notesHistory>>

\* Mutant: the delivery is put back into its queue.
RejectToQueue(c) ==
  /\ work[c].pc \in {"forward", "night", "push", "save"}
  /\ work' = [work EXCEPT ![c] = Free]
  /\ queue' = [queue EXCEPT ![work[c].from] = Plus(@, work[c].m)]
  /\ UNCHANGED <<settings, clock, note, schedule, pushes, records, crashes, notesHistory>>

\* An error of a handler: the delivery is rejected and not put back; the
\* handler of the dead-letter queue logs it.
Reject(c) ==
  /\ work[c].pc \in {"forward", "night", "push", "save"}
  /\ work' = [work EXCEPT ![c] = Free]
  /\ dead' = Plus(dead, work[c].m)
  /\ UNCHANGED <<settings, clock, note, queue, schedule, pushes, records, crashes,
                 again, agreed>>

\* handleNightAdNotification: without the agreement row it throws.  One who
\* declined gets the notification with another time in it, and at once: the
\* log says "delayed", but nothing schedules it again.
ReadNight(c) ==
  /\ work[c].pc = "night"
  /\ "NIGHT_MARKETING" \in DOMAIN agr
  /\ work' = [work EXCEPT ![c].pc = "push"]
  /\ UNCHANGED <<settings, clock, note, queue, schedule, pushes, records, crashes, notesHistory>>

\* sendFCM: first the push, then the row of the history.
Push(c) ==
  LET m == work[c].m IN
  /\ work[c].pc = "push"
  /\ pushes' = Plus(pushes, m)
  /\ Doing(c, "save")
  /\ UNCHANGED <<settings, clock, note, queue, schedule, records, crashes,
                 again, dead, agreed>>

SaveRequest(c) ==
  /\ work[c].pc = "save"
  /\ records' = Plus(records, work[c].m)
  /\ Doing(c, "ack")
  /\ UNCHANGED <<settings, clock, note, queue, schedule, pushes, crashes, notesHistory>>

Ack(c) ==
  /\ work[c].pc = "ack"
  /\ work' = [work EXCEPT ![c] = Free]
  /\ UNCHANGED <<settings, clock, note, queue, schedule, pushes, records, crashes, notesHistory>>

\* The process dies: the broker delivers what it had not acknowledged again.
Crash ==
  LET busy == {c \in Slots : work[c].pc # "free"}
      back(q, m) == Cardinality({c \in busy : work[c].from = q /\ work[c].m = m})
  IN
  /\ crashes < MaxCrashes /\ busy # {}
  /\ crashes' = crashes + 1
  /\ queue' = [q \in Queues |-> [m \in Notes |-> queue[q][m] + back(q, m)]]
  /\ again' = [m \in Notes |-> again[m] + Cardinality({c \in busy : work[c].m = m})]
  /\ work' = [c \in Slots |-> Free]
  /\ UNCHANGED <<settings, clock, note, schedule, pushes, records, dead, agreed>>

Handle(c) ==
  \/ (\E q \in Queues, m \in Notes : Take(c, q, m))
  \/ Forward(c) \/ ReadNight(c) \/ Push(c) \/ SaveRequest(c) \/ Ack(c)

Next ==
  \/ Settings \/ Tick \/ Crash
  \/ \E m \in Notes : Send(m) \/ ReadSwitch(m) \/ ReadAgreementOf(m) \/ Publish(m)
  \/ \E c \in Slots : Handle(c) \/ Reject(c)

\* The consumer runs (PM2), handlers return or throw.  Nobody has to send anything.
Consumes == \E c \in Slots : Handle(c) \/ Reject(c)
Fairness == WF_vars(Consumes)

Spec == Init /\ [][Next]_vars /\ Fairness

-----------------------------------------------------------------------------
Scheduled(m) == IF m \in schedule THEN 1 ELSE 0
Handling(m) == {c \in Slots : work[c].pc # "free" /\ work[c].m = m}

\* Firebase is asked again for one notification only when a delivery of it was
\* repeated: routing, the schedule and the queues do not multiply it, and one that
\* waits in the schedule is not pushed as well.  And the history has every push,
\* but for deliveries that were rejected or repeated or are just being handled.
PushesAccounted ==
  \A m \in Notes :
    /\ pushes[m] + Scheduled(m) <= 1 + again[m]
    /\ records[m] <= pushes[m]
    /\ pushes[m] - records[m] <= dead[m] + again[m] + Cardinality(Handling(m))

\* What was accepted comes to one of three ends: it is pushed, dead-lettered, or
\* one that was due at least Lead later is put into the schedule, where it stays.
Settled(m) == pushes[m] > 0 \/ dead[m] > 0 \/ (m \in schedule /\ note[m].at >= Lead)
Settles == \A m \in Notes : note[m].pc = "sent" ~> Settled(m)

\* An ad reaches only users who once agreed to MARKETING and once turned this
\* notification on, through every order of initializations, logins and dialogs:
\* no default and no stale write says yes for them.
AdsConsented ==
  /\ TypeOK
  /\ \A m \in Notes : pushes[m] > 0 /\ Kind[note[m].name] = "MARKETING" =>
       {"MARKETING", note[m].name} \subseteq agreed

=============================================================================
