---------------------------- MODULE UserSettings ----------------------------
(***************************************************************************)
(* What decides whether and where a push notification reaches a user: the  *)
(* user's agreements (by type, with a flag that the dialog is still to be  *)
(* shown), the switches of the single notifications, and the device tokens *)
(* with their owners.  Every statement of a request is committed on its    *)
(* own.  Agreements and switches are those of one user; devices have any.  *)
(***************************************************************************)
EXTENDS Integers, FiniteSets, Functions

CONSTANTS Types,      \* the values of AgreementType
          Kind,       \* function from notification names to their type
          Asks,       \* requests (bounds their number)
          Users,      \* owners of devices
          Tokens,     \* FCM tokens
          MaxDevice   \* bound: device ids 1..MaxDevice

Names == DOMAIN Kind

ASSUME SettingsAssumption ==
  /\ IsFiniteSet(Types) /\ "INFO" \in Types
  /\ Range(Kind) \subseteq Types
  /\ MaxDevice \in Nat

VARIABLES agr,      \* agreement rows: type -> [status, modal]
          names,    \* notifications that administrators have created
          switch,   \* switch rows: name -> is_active
          device,   \* device rows: <<owner, token>> -> [id, on]
          nextId,   \* autoincrement of devices
          ask       \* requests

settings == <<agr, names, switch, device, nextId, ask>>
rows == <<agr, names, switch, device, nextId>>

None == [x \in {} |-> 0]
Agreement(status, modal) == [status |-> status, modal |-> modal]
Device(id, on) == [id |-> id, on |-> on]

\* row is the agreement read, found the device rows read; todo what is still
\* to be upserted.  lacking and met are history: the rows a look-up missed,
\* and whether another request was open at the same time.
NoAsk == [pc |-> "idle", op |-> "none", type |-> "INFO", name |-> "none", who |-> "none",
          token |-> "none", on |-> FALSE, row |-> Agreement(FALSE, FALSE),
          found |-> {}, todo |-> {}, lacking |-> {}, met |-> FALSE]
Pending(r) == ask[r].pc \notin {"idle", "done", "failed"}

With(f, x, v) == [y \in DOMAIN f \cup {x} |-> IF y = x THEN v ELSE f[y]]
Holders(k) == {u \in Users : <<u, k>> \in DOMAIN device}

SettingsTypeOK ==
  /\ DOMAIN agr \subseteq Types
  /\ \A t \in DOMAIN agr : agr[t].status \in BOOLEAN /\ agr[t].modal \in BOOLEAN
  /\ names \subseteq Names /\ DOMAIN switch \subseteq names
  /\ \A n \in DOMAIN switch : switch[n] \in BOOLEAN
  /\ DOMAIN device \subseteq Users \X Tokens
  /\ \A d \in DOMAIN device : device[d].id \in 1..(nextId - 1) /\ device[d].on \in BOOLEAN
  /\ \A c, d \in DOMAIN device : c # d => device[c].id # device[d].id
  /\ \A r \in Asks : Pending(r) => /\ ask[r].todo \subseteq Types \cup Names
                                   /\ ask[r].met \in BOOLEAN

\* A user who has not logged in yet, and one who has, with a decision taken.
SettingsInit ==
  /\ names \in SUBSET Names
  /\ \/ agr = None /\ switch = None
     \/ /\ \E t \in Types, b \in BOOLEAN :
             agr = With([u \in Types |-> Agreement(FALSE, TRUE)], t, Agreement(b, FALSE))
        /\ switch \in [names -> BOOLEAN]
  /\ device = None
  /\ nextId = 1
  /\ ask = [r \in Asks |-> NoAsk]

-----------------------------------------------------------------------------
New(op, pc) == [NoAsk EXCEPT !.op = op, !.pc = pc]
AboutType(op, t, b) == [New(op, "find") EXCEPT !.type = t, !.on = b]
AboutName(n, b) == [New("switch", "look") EXCEPT !.name = n, !.on = b]
AboutDevice(op, pc, u, k, b) == [New(op, pc) EXCEPT !.who = u, !.token = k, !.on = b]

AgreementRequests ==
  {AboutType(op, t, b) : op \in {"decide", "modal"}, t \in Types, b \in BOOLEAN}
  \cup {New("initialize", "count"), New("login", "names")}
SwitchRequests == {AboutName(n, b) : n \in names, b \in BOOLEAN}
DeviceRequests ==
  {AboutDevice("register", "tokens", u, k, b) : u \in Users, k \in Tokens, b \in BOOLEAN}
  \cup {AboutDevice("update", "exists", u, k, b) : u \in Users, k \in Tokens, b \in BOOLEAN}
  \cup {AboutDevice("unregister", "exists", u, k, NoAsk.on) : u \in Users, k \in Tokens}

Request(r) ==
  /\ ask[r].pc = "idle"
  /\ \E q \in AgreementRequests \cup SwitchRequests \cup DeviceRequests :
       ask' = [p \in Asks |->
                 IF p = r THEN [q EXCEPT !.met = \E o \in Asks : Pending(o)]
                 ELSE IF Pending(p) THEN [ask[p] EXCEPT !.met = TRUE] ELSE ask[p]]
  /\ UNCHANGED rows

Go(r, pc) == ask' = [ask EXCEPT ![r].pc = pc]
End(r, pc) == ask' = [ask EXCEPT ![r] = [NoAsk EXCEPT !.pc = pc]]

\* A statement fails or the process dies; what is committed stays.
Abort(r) == Pending(r) /\ End(r, "failed") /\ UNCHANGED rows

\* createNotification of an administrator; users get its switch at a login.
CreateNotification ==
  /\ \E n \in Names \ names : names' = names \cup {n}
  /\ UNCHANGED <<agr, switch, device, nextId, ask>>

-----------------------------------------------------------------------------
\* findByUserIdAndType: a user without the row is initialized first.
FindAgreement(r) ==
  /\ ask[r].pc = "find"
  /\ Go(r, IF ask[r].type \notin DOMAIN agr THEN "count"
           ELSE IF ask[r].op = "modal" THEN "read" ELSE "write")
  /\ UNCHANGED rows

AfterInitialize(op) == IF op = "decide" THEN "write" ELSE IF op = "modal" THEN "read" ELSE "done"

\* Mutant: initialize does not look at what is there.
CountUnchecked(r) ==
  /\ ask[r].pc = "count"
  /\ ask' = [ask EXCEPT ![r].pc = "upsert", ![r].todo = Types, ![r].lacking = Types \ DOMAIN agr]
  /\ UNCHANGED rows

\* initialize: all rows are there, or all are written again.
CountAgreements(r) ==
  /\ ask[r].pc = "count"
  /\ IF DOMAIN agr = Types
       THEN IF AfterInitialize(ask[r].op) = "done" THEN End(r, "done")
            ELSE Go(r, AfterInitialize(ask[r].op))
       ELSE ask' = [ask EXCEPT ![r].pc = "upsert", ![r].todo = Types,
                               ![r].lacking = Types \ DOMAIN agr]
  /\ UNCHANGED rows

\* upsertMany: the upserts run side by side and overwrite rows that are there.
UpsertAgreement(r, t) ==
  LET rest == ask[r].todo \ {t}
      next == AfterInitialize(ask[r].op)
  IN
  /\ ask[r].pc = "upsert" /\ t \in ask[r].todo
  /\ agr' = With(agr, t, Agreement(FALSE, TRUE))
  /\ IF rest # {} THEN ask' = [ask EXCEPT ![r].todo = rest]
     ELSE IF next = "done" THEN End(r, "done")
     ELSE ask' = [ask EXCEPT ![r].todo = {}, ![r].pc = next]
  /\ UNCHANGED <<names, switch, device, nextId>>

\* toggleModal reads the row, and its update writes the status back with it.
ReadAgreement(r) ==
  /\ ask[r].pc = "read"
  /\ ask' = [ask EXCEPT ![r].pc = "write", ![r].row = agr[ask[r].type]]
  /\ UNCHANGED rows

WriteAgreement(r) ==
  LET q == ask[r] IN
  /\ q.pc = "write"
  /\ agr' = With(agr, q.type, IF q.op = "modal" THEN Agreement(q.row.status, q.on)
                              ELSE Agreement(q.on, FALSE))
  /\ End(r, "done")
  /\ UNCHANGED <<names, switch, device, nextId>>

-----------------------------------------------------------------------------
\* Mutant: a switch for every name of the code, there or not.
CountAllNames(r) ==
  /\ ask[r].pc = "names"
  /\ ask' = IF DOMAIN switch = Names THEN [ask EXCEPT ![r].pc = "count"]
            ELSE [ask EXCEPT ![r].pc = "defaults", ![r].todo = Names,
                             ![r].lacking = Names \ DOMAIN switch]
  /\ UNCHANGED rows

\* validate of auth.service.ts: a user whose switches are not as many as there
\* are notifications gets all of them written again.
CountSwitches(r) ==
  /\ ask[r].pc = "names"
  /\ ask' = IF DOMAIN switch = names THEN [ask EXCEPT ![r].pc = "count"]
            ELSE [ask EXCEPT ![r].pc = "defaults", ![r].todo = names,
                             ![r].lacking = names \ DOMAIN switch]
  /\ UNCHANGED rows

\* upsert: a new switch is off, one that is there takes the default of its kind.
UpsertSwitch(r, n) ==
  LET rest == ask[r].todo \ {n} IN
  /\ ask[r].pc = "defaults" /\ n \in ask[r].todo
  /\ switch' = With(switch, n, n \in DOMAIN switch /\ Kind[n] = "INFO")
  /\ ask' = [ask EXCEPT ![r].todo = rest,
                        ![r].pc = IF rest = {} THEN "count" ELSE "defaults",
                        ![r].lacking = IF rest = {} THEN {} ELSE ask[r].lacking]
  /\ UNCHANGED <<agr, names, device, nextId>>

\* changeNotificationPermission: the row is looked up, then saved by its id.
FindSwitch(r) ==
  /\ ask[r].pc = "look"
  /\ IF ask[r].name \in DOMAIN switch THEN Go(r, "save") ELSE End(r, "failed")
  /\ UNCHANGED rows

SaveSwitch(r) ==
  /\ ask[r].pc = "save"
  /\ switch' = With(switch, ask[r].name, ask[r].on)
  /\ End(r, "done")
  /\ UNCHANGED <<agr, names, device, nextId>>

-----------------------------------------------------------------------------
RowsOf(k) == {device[<<u, k>>].id : u \in Holders(k)}
Without(ids) == Restrict(device, {d \in DOMAIN device : device[d].id \notin ids})

\* registerDevice: findByToken, deleteMany by the ids found, then create, which
\* the unique index on owner and token may refuse.
FindTokens(r) ==
  /\ ask[r].pc = "tokens"
  /\ ask' = [ask EXCEPT ![r].pc = "clear", ![r].found = RowsOf(ask[r].token)]
  /\ UNCHANGED rows

\* Mutant: only the owner's own row is taken away.
ClearOwn(r) ==
  /\ ask[r].pc = "clear"
  /\ device' = Restrict(device, DOMAIN device \ {<<ask[r].who, ask[r].token>>})
  /\ Go(r, "create")
  /\ UNCHANGED <<agr, names, switch, nextId>>

ClearTokens(r) ==
  /\ ask[r].pc = "clear"
  /\ device' = Without(ask[r].found)
  /\ Go(r, "create")
  /\ UNCHANGED <<agr, names, switch, nextId>>

CreateDevice(r) ==
  LET d == <<ask[r].who, ask[r].token>> IN
  /\ ask[r].pc = "create"
  /\ nextId <= MaxDevice
  /\ IF d \in DOMAIN device
       THEN End(r, "failed") /\ UNCHANGED <<device, nextId>>
       ELSE /\ device' = With(device, d, Device(nextId, ask[r].on))
            /\ nextId' = nextId + 1
            /\ End(r, "done")
  /\ UNCHANGED <<agr, names, switch>>

\* checkExistDevice: an error for a token without a row, and for one with two.
CheckDevice(r) ==
  /\ ask[r].pc = "exists"
  /\ IF Cardinality(Holders(ask[r].token)) = 1 THEN Go(r, "mine") ELSE End(r, "failed")
  /\ UNCHANGED rows

\* findByUserIdAndToken.
FindMine(r) ==
  LET d == <<ask[r].who, ask[r].token>> IN
  /\ ask[r].pc = "mine"
  /\ IF d \in DOMAIN device
       THEN ask' = [ask EXCEPT ![r].pc = IF ask[r].op = "update" THEN "activate" ELSE "delete",
                               ![r].found = {device[d].id}]
       ELSE End(r, "failed")
  /\ UNCHANGED rows

\* save by id, then registerDevice; a row that is gone is an error.
Activate(r) ==
  LET mine == {d \in DOMAIN device : device[d].id \in ask[r].found} IN
  /\ ask[r].pc = "activate"
  /\ IF mine = {} THEN End(r, "failed") /\ UNCHANGED device
     ELSE /\ device' = [d \in DOMAIN device |->
                          IF d \in mine THEN Device(device[d].id, ask[r].on) ELSE device[d]]
          /\ Go(r, "tokens")
  /\ UNCHANGED <<agr, names, switch, nextId>>

\* delete of the repository finds the owner's row anew.
DeleteDevice(r) ==
  LET d == <<ask[r].who, ask[r].token>> IN
  /\ ask[r].pc = "delete"
  /\ device' = Restrict(device, DOMAIN device \ {d})
  /\ End(r, IF d \in DOMAIN device THEN "done" ELSE "failed")
  /\ UNCHANGED <<agr, names, switch, nextId>>

SettingsNext ==
  \/ CreateNotification
  \/ \E r \in Asks :
       \/ Request(r) \/ Abort(r)
       \/ FindAgreement(r) \/ CountAgreements(r) \/ ReadAgreement(r) \/ WriteAgreement(r)
       \/ (\E t \in Types : UpsertAgreement(r, t))
       \/ CountSwitches(r) \/ (\E n \in Names : UpsertSwitch(r, n))
       \/ FindSwitch(r) \/ SaveSwitch(r)
       \/ FindTokens(r) \/ ClearTokens(r) \/ CreateDevice(r)
       \/ CheckDevice(r) \/ FindMine(r) \/ Activate(r) \/ DeleteDevice(r)

-----------------------------------------------------------------------------
\* A decision of the user stays until his next one.  Only these undo it: a
\* request that was open at the same time (initialize and toggleModal write a
\* status they did not take from the row of that moment), and an
\* initialization or login that found rows missing, and writes all of them.
Excused(r) == ask[r].met \/ ask[r].lacking # {}
SettingsKept ==
  [][/\ \A t \in DOMAIN agr : agr'[t].status # agr[t].status =>
          \E r \in Asks : /\ ask[r].pc \in {"write", "upsert"} /\ ask'[r] # ask[r]
                          /\ (ask[r].op = "decide" /\ ask[r].pc = "write" /\ ask[r].type = t)
                             \/ Excused(r)
     /\ \A n \in DOMAIN switch : switch'[n] # switch[n] =>
          \E r \in Asks : /\ ask[r].pc \in {"save", "defaults"} /\ ask'[r] # ask[r]
                          /\ ask[r].pc = "save" \/ Excused(r)]_rows

\* A registration that meets no other request leaves the token with its owner
\* and nobody else, whoever had it and however many rows earlier overlapping
\* registrations had left.
DeviceMoves ==
  [][\A r \in Asks :
       LET q == ask[r] IN
       q.pc = "create" /\ ~q.met /\ ask'[r].pc = "done" =>
         {u \in Users : <<u, q.token>> \in DOMAIN device'} = {q.who}]_settings
=============================================================================
