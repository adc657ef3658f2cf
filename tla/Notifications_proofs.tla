------------------------- MODULE Notifications_proofs -------------------------
(* Proofs about Notifications and UserSettings for any number of requests,    *)
(* devices, notifications and slots: what a request knows of the rows it      *)
(* writes, who has agreed to what, and where the copies of a message are.     *)
EXTENDS Notifications, FiniteSetTheorems, TLAPS

AgrRow  == [status : BOOLEAN, modal : BOOLEAN]
Moving  == {"tokens", "clear", "create", "exists", "mine", "activate", "delete"}
Pcs     == {"idle", "done", "failed", "find", "count", "upsert", "read", "write",
            "names", "defaults", "look", "save"} \cup Moving
Ops     == {"none", "decide", "modal", "initialize", "login", "switch",
            "register", "update", "unregister"}
AskSet  == [pc : Pcs, op : Ops,
            type : Types, name : Names \cup {"none"}, who : Users \cup {"none"},
            token : Tokens \cup {"none"}, on : BOOLEAN, row : AgrRow,
            found : SUBSET Nat, todo : SUBSET (Types \cup Names),
            lacking : SUBSET (Types \cup Names), met : BOOLEAN]
NoteSet == [pc : {"new", "switch", "agreement", "publish", "sent", "refused"},
            name : Names, at : Times, active : BOOLEAN]
WorkSet == [pc : {"free", "forward", "night", "push", "save", "ack"},
            from : Queues, m : Notes]

-----------------------------------------------------------------------------
RowsTyped ==
  /\ DOMAIN agr \subseteq Types /\ \A t \in DOMAIN agr : agr[t] \in AgrRow
  /\ names \subseteq Names /\ DOMAIN switch \subseteq names
  /\ \A n \in DOMAIN switch : switch[n] \in BOOLEAN
  /\ nextId \in Nat \ {0} /\ DOMAIN device \subseteq Users \X Tokens
  /\ \A d \in DOMAIN device : device[d].id \in 1..(nextId - 1) /\ device[d].on \in BOOLEAN
  /\ \A c, d \in DOMAIN device : c # d => device[c].id # device[d].id

\* What a request has seen stays so, whatever the others do.
Fits(q) ==
  /\ q.pc \in {"find", "read", "write"} => q.op \in {"decide", "modal"}
  /\ q.pc = "read" => q.op = "modal" /\ q.type \in DOMAIN agr
  /\ q.pc = "upsert" => q.todo \subseteq Types /\ Types \ q.todo \subseteq DOMAIN agr
                        /\ q.lacking # {}
  /\ q.pc = "defaults" => q.todo \subseteq names /\ q.lacking # {}
  /\ q.pc \in {"look", "save"} => q.op = "switch"
  /\ q.pc = "save" => q.name \in DOMAIN switch
  /\ q.pc \in Moving => q.who \in Users /\ q.token \in Tokens

\* What it has read is still there if it met nobody.
Knows(q) ==
  ~q.met =>
    /\ q.pc = "write" /\ q.op = "modal" =>
         q.type \in DOMAIN agr /\ agr[q.type].status = q.row.status
    /\ q.pc = "clear" => q.found = RowsOf(q.token)
    /\ q.pc = "create" => Holders(q.token) = {}

SettingsInv ==
  /\ RowsTyped /\ ask \in [Asks -> AskSet]
  /\ \A r \in Asks : Fits(ask[r]) /\ Knows(ask[r])
  /\ \A r, p \in Asks : r # p /\ Pending(r) /\ ~ask[r].met => ~Pending(p)

-----------------------------------------------------------------------------
NotesTyped ==
  /\ clock \in Times /\ note \in [Notes -> NoteSet]
  /\ queue \in [Queues -> [Notes -> Nat]] /\ schedule \in SUBSET Notes
  /\ work \in [Slots -> WorkSet]
  /\ pushes \in [Notes -> Nat] /\ records \in [Notes -> Nat]
  /\ again \in [Notes -> Nat] /\ dead \in [Notes -> Nat]

\* Nobody has agreed but the user himself: not in the rows, not in what a
\* request holds, not in what the server has read for a notification.
AgreedRows ==
  /\ \A t \in DOMAIN agr : agr[t].status => t \in agreed
  /\ \A n \in DOMAIN switch : switch[n] /\ Kind[n] # "INFO" => n \in agreed

Willing(q) ==
  /\ q.op = "decide" /\ q.on => q.type \in agreed
  /\ q.op = "switch" /\ q.on => q.name \in agreed
  /\ q.row.status => q.type \in agreed

Wanted(m) ==
  Kind[note[m].name] = "MARKETING" =>
    /\ note[m].active => note[m].name \in agreed
    /\ note[m].pc \in {"publish", "sent"} => {"MARKETING", note[m].name} \subseteq agreed

Consent ==
  /\ AgreedRows
  /\ \A r \in Asks : Willing(ask[r])
  /\ \A m \in Notes : Wanted(m)

Copies(m)  == queue["fcm"][m] + queue["info"][m] + queue["ad"][m] + queue["night"][m]
Busy(m)    == {c \in Slots : work[c].m = m /\ work[c].pc # "free"}
Pushing(m) == {c \in Slots : work[c].m = m /\ work[c].pc \in {"forward", "night", "push"}}
Saving(m)  == {c \in Slots : work[c].m = m /\ work[c].pc = "save"}

\* A copy is in a queue, in a slot or in the schedule, until it is pushed; a push is in the
\* history or its slot is still to write it.
Counted(m) ==
  /\ pushes[m] + Scheduled(m) + Copies(m) + Cardinality(Pushing(m)) <= 1 + again[m]
  /\ records[m] + Cardinality(Saving(m)) <= pushes[m]
  /\ pushes[m] - records[m] <= dead[m] + again[m] + Cardinality(Saving(m))

\* Before it is published there is none.
Unsent(m) ==
  note[m].pc # "sent" =>
    pushes[m] = 0 /\ Copies(m) = 0 /\ Busy(m) = {} /\ m \notin schedule

Counting == \A m \in Notes : Counted(m) /\ Unsent(m)

NotesInv == SettingsInv /\ NotesTyped /\ Consent /\ Counting

-----------------------------------------------------------------------------
LEMMA EndFits ==
  ASSUME NEW pc \in {"done", "failed"}, NEW q, q = [NoAsk EXCEPT !.pc = pc]
  PROVE  /\ q \in AskSet /\ q.pc = pc /\ q.op = "none" /\ ~q.on /\ ~q.row.status
         /\ Fits(q) /\ Knows(q) /\ Fits(q)' /\ Knows(q)'
<1>1. NoAsk \in AskSet
  BY SettingsAssumption DEF NoAsk, AskSet, AgrRow, Agreement, Ops, Pcs
<1>2. q \in AskSet /\ q.pc = pc /\ q.op = "none" /\ ~q.on /\ q.row = NoAsk.row
  BY <1>1 DEF AskSet, NoAsk, Pcs
<1>3. ~NoAsk.row.status
  BY DEF NoAsk, Agreement
<1>4. Fits(q) /\ Knows(q) /\ Fits(q)' /\ Knows(q)'
  BY <1>2 DEF Fits, Knows, Moving
<1> QED
  BY <1>2, <1>3, <1>4

Grown ==
  /\ DOMAIN agr \subseteq DOMAIN agr' /\ names \subseteq names'
  /\ DOMAIN switch \subseteq DOMAIN switch'

\* One request goes on: every other one that is open has met it.
LEMMA AskStep ==
  ASSUME SettingsInv, NEW r \in Asks, Pending(r), NEW q \in AskSet,
         ask' = [ask EXCEPT ![r] = q], q.met = ask[r].met \/ q.pc \in {"done", "failed"},
         RowsTyped', Grown, Fits(q)', Knows(q)'
  PROVE  SettingsInv'
<1>1. ask' \in [Asks -> AskSet] /\ ask'[r] = q /\ \A p \in Asks \ {r} : ask'[p] = ask[p]
  BY DEF SettingsInv
<1>2. ASSUME NEW p \in Asks \ {r} PROVE Fits(ask[p])' /\ Knows(ask[p])'
  <2>1. Fits(ask[p]) /\ ask'[p] = ask[p] /\ ask[p] \in AskSet
    BY <1>1 DEF SettingsInv
  <2>2. Fits(ask[p])'
    BY <2>1 DEF Fits, Grown
  <2>3. Pending(p) => ask[p].met
    BY DEF SettingsInv
  <2>4. Knows(ask[p])'
    BY <2>1, <2>3 DEF Knows, Pending
  <2> QED
    BY <2>2, <2>4
<1>3. Fits(ask[r])' /\ Knows(ask[r])'
  BY <1>1 DEF Fits, Knows, Holders, RowsOf
<1>4. \A p, o \in Asks : p # o /\ Pending(p)' /\ ~ask'[p].met => ~Pending(o)'
  <2>1. \A p \in Asks \ {r} : Pending(p)' <=> Pending(p)
    BY <1>1 DEF Pending
  <2>2. Pending(r)' => Pending(r) /\ ask'[r].met = ask[r].met
    BY <1>1 DEF Pending
  <2> QED
    BY <1>1, <2>1, <2>2 DEF SettingsInv
<1> QED
  BY <1>1, <1>2, <1>3, <1>4 DEF SettingsInv

LEMMA EndStep ==
  ASSUME SettingsInv, NEW r \in Asks, Pending(r), NEW pc \in {"done", "failed"}, End(r, pc),
         RowsTyped', Grown
  PROVE  SettingsInv'
<1>1. PICK q : q = [NoAsk EXCEPT !.pc = pc]
  OBVIOUS
<1>2. ask' = [ask EXCEPT ![r] = q]
  BY <1>1 DEF End
<1> QED
  BY <1>1, <1>2, EndFits, AskStep

\* A request that only reads.
LEMMA ReadStep ==
  ASSUME SettingsInv, NEW r \in Asks, Pending(r), NEW q \in AskSet,
         ask' = [ask EXCEPT ![r] = q], q.met = ask[r].met, UNCHANGED rows, Fits(q), Knows(q)
  PROVE  SettingsInv'
<1>1. RowsTyped' /\ Grown
  BY DEF rows, SettingsInv, RowsTyped, Grown
<1>2. Fits(q)' /\ Knows(q)'
  BY DEF rows, Fits, Knows, Holders, RowsOf
<1> QED
  BY <1>1, <1>2, AskStep

\* What a new request asks for.
LEMMA Asked ==
  ASSUME names \subseteq Names, NEW q \in AgreementRequests \cup SwitchRequests \cup DeviceRequests
  PROVE  /\ q \in AskSet /\ q.row = NoAsk.row
         /\ q.pc = "find" => q.op \in {"decide", "modal"}
         /\ q.pc = "look" => q.op = "switch"
         /\ q.pc \in {"find", "count", "names", "look", "tokens", "exists"}
         /\ q.pc \in Moving => q.who \in Users /\ q.token \in Tokens
<1>1. ASSUME NEW op \in {"decide", "modal", "initialize", "login", "switch",
                         "register", "update", "unregister"},
             NEW pc \in {"find", "count", "names", "look", "tokens", "exists"}
      PROVE  New(op, pc) \in AskSet /\ New(op, pc).op = op /\ New(op, pc).pc = pc
             /\ New(op, pc).row = NoAsk.row
  <2>1. NoAsk \in AskSet
    BY SettingsAssumption DEF NoAsk, AskSet, AgrRow, Agreement, Ops, Pcs
  <2>2. op \in Ops /\ pc \in Pcs
    BY DEF Ops, Pcs, Moving
  <2> HIDE DEF NoAsk
  <2> QED
    BY <2>1, <2>2 DEF New, AskSet
<1>2. ASSUME NEW op \in {"decide", "modal"}, NEW t \in Types, NEW b \in BOOLEAN
      PROVE  AboutType(op, t, b) \in AskSet /\ AboutType(op, t, b).row = NoAsk.row
             /\ AboutType(op, t, b).pc = "find"
             /\ AboutType(op, t, b).op = op
  <2>1. New(op, "find") \in AskSet /\ New(op, "find").row = NoAsk.row
        /\ New(op, "find").op = op /\ New(op, "find").pc = "find"
    BY <1>1, <1>2
  <2> QED
    BY <2>1 DEF AboutType, AskSet
<1>3. ASSUME NEW n \in Names, NEW b \in BOOLEAN
      PROVE  AboutName(n, b) \in AskSet /\ AboutName(n, b).row = NoAsk.row
             /\ AboutName(n, b).pc = "look"
             /\ AboutName(n, b).op = "switch"
  <2>1. New("switch", "look") \in AskSet /\ New("switch", "look").row = NoAsk.row
        /\ New("switch", "look").op = "switch" /\ New("switch", "look").pc = "look"
    BY <1>1
  <2> QED
    BY <2>1 DEF AboutName, AskSet
<1>4. ASSUME NEW op \in {"register", "update", "unregister"}, NEW pc \in {"tokens", "exists"},
             NEW u \in Users, NEW k \in Tokens, NEW b \in BOOLEAN
      PROVE  AboutDevice(op, pc, u, k, b) \in AskSet /\ AboutDevice(op, pc, u, k, b).row = NoAsk.row
             /\ AboutDevice(op, pc, u, k, b).pc = pc
             /\ AboutDevice(op, pc, u, k, b).who = u /\ AboutDevice(op, pc, u, k, b).token = k
  <2>1. New(op, pc) \in AskSet /\ New(op, pc).row = NoAsk.row
        /\ New(op, pc).op = op /\ New(op, pc).pc = pc
    BY <1>1, <1>4
  <2> QED
    BY <2>1 DEF AboutDevice, AskSet
<1>5. CASE q \in AgreementRequests
  BY <1>1, <1>2, <1>5 DEF AgreementRequests, Moving
<1>6. CASE q \in SwitchRequests
  BY <1>3, <1>6 DEF SwitchRequests, Moving
<1>7. CASE q \in DeviceRequests
  <2>1. ASSUME NEW op \in {"register", "update", "unregister"}, NEW pc \in {"tokens", "exists"},
               NEW u \in Users, NEW k \in Tokens, NEW b \in BOOLEAN, q = AboutDevice(op, pc, u, k, b)
        PROVE  /\ q \in AskSet /\ q.row = NoAsk.row /\ q.pc \in {"tokens", "exists"}
               /\ q.who \in Users /\ q.token \in Tokens
    BY <1>4, <2>1
  <2> DEFINE A == {AboutDevice("register", "tokens", u, k, b) :
                     u \in Users, k \in Tokens, b \in BOOLEAN}
             B == {AboutDevice("update", "exists", u, k, b) :
                     u \in Users, k \in Tokens, b \in BOOLEAN}
             C == {AboutDevice("unregister", "exists", u, k, NoAsk.on) :
                     u \in Users, k \in Tokens}
  <2>2. CASE q \in A
    BY <2>1, <2>2
  <2>3. CASE q \in B
    BY <2>1, <2>3
  <2>4. CASE q \in C
    <3>1. NoAsk.on \in BOOLEAN
      BY DEF NoAsk
    <3> HIDE DEF NoAsk
    <3> QED
      BY <2>1, <2>4, <3>1
  <2>5. DeviceRequests = A \cup B \cup C
    BY DEF DeviceRequests
  <2> HIDE DEF A, B, C
  <2> QED
    BY <1>7, <2>2, <2>3, <2>4, <2>5
<1> QED
  BY <1>5, <1>6, <1>7

\* A new request: those that are open now have met it, and it has met them.
LEMMA RequestStep ==
  ASSUME SettingsInv, NEW r \in Asks, Request(r)
  PROVE  SettingsInv'
<1>1. PICK q \in AgreementRequests \cup SwitchRequests \cup DeviceRequests :
        ask' = [p \in Asks |->
                 IF p = r THEN [q EXCEPT !.met = \E o \in Asks : Pending(o)]
                 ELSE IF Pending(p) THEN [ask[p] EXCEPT !.met = TRUE] ELSE ask[p]]
  BY DEF Request
<1>2. names \subseteq Names
  BY DEF SettingsInv, RowsTyped
<1>3. /\ q \in AskSet
      /\ q.pc = "find" => q.op \in {"decide", "modal"}
      /\ q.pc = "look" => q.op = "switch"
      /\ q.pc \in {"find", "count", "names", "look", "tokens", "exists"}
      /\ q.pc \in Moving => q.who \in Users /\ q.token \in Tokens
  BY <1>2, Asked
<1>4. RowsTyped' /\ Grown
  BY DEF Request, rows, SettingsInv, RowsTyped, Grown
<1>5. PICK z : z = [q EXCEPT !.met = \E o \in Asks : Pending(o)]
  OBVIOUS
<1>6. /\ z \in AskSet /\ z.pc = q.pc /\ z.op = q.op /\ z.who = q.who /\ z.token = q.token
      /\ ~z.met => \A o \in Asks : ~Pending(o)
  BY <1>3, <1>5 DEF AskSet
<1>7. ask'[r] = z
  BY <1>1, <1>5
<1>8. Fits(ask[r])' /\ Knows(ask[r])'
  BY <1>3, <1>6, <1>7 DEF Fits, Knows, Moving
<1>9. ASSUME NEW p \in Asks \ {r}
      PROVE  /\ ask'[p] \in AskSet /\ Fits(ask[p])' /\ Knows(ask[p])'
             /\ Pending(p)' <=> Pending(p)
             /\ Pending(p) => ask'[p].met
  <2>0. ASSUME NEW y \in AskSet, NEW x, x = [y EXCEPT !.met = TRUE]
        PROVE  /\ x \in AskSet /\ x.pc = y.pc /\ x.op = y.op /\ x.type = y.type
               /\ x.todo = y.todo /\ x.lacking = y.lacking /\ x.name = y.name
               /\ x.who = y.who /\ x.token = y.token /\ x.met
    BY <2>0 DEF AskSet
  <2>1. ask[p] \in AskSet /\ Fits(ask[p])
        /\ ask'[p] = IF Pending(p) THEN [ask[p] EXCEPT !.met = TRUE] ELSE ask[p]
    BY <1>1 DEF SettingsInv
  <2>2. /\ ask'[p] \in AskSet /\ ask'[p].pc = ask[p].pc /\ ask'[p].op = ask[p].op
        /\ ask'[p].type = ask[p].type /\ ask'[p].todo = ask[p].todo
        /\ ask'[p].lacking = ask[p].lacking /\ ask'[p].name = ask[p].name
        /\ ask'[p].who = ask[p].who /\ ask'[p].token = ask[p].token
        /\ Pending(p) => ask'[p].met
    BY <2>0, <2>1
  <2>3. Pending(p)' <=> Pending(p)
    BY <2>2 DEF Pending
  <2>4. Fits(ask[p])'
    BY <1>4, <2>1, <2>2 DEF Fits, Grown
  <2>5. Knows(ask[p])'
    BY <2>2 DEF Knows, Pending
  <2> QED
    BY <2>2, <2>3, <2>4, <2>5
<1>10. ask' \in [Asks -> AskSet]
  BY <1>1, <1>6, <1>7, <1>9
<1>11. \A p, o \in Asks : p # o /\ Pending(p)' /\ ~ask'[p].met => ~Pending(o)'
  BY <1>6, <1>7, <1>9
<1> QED
  BY <1>4, <1>8, <1>9, <1>10, <1>11 DEF SettingsInv

\* The statements about the agreements.
LEMMA AgreementStep ==
  ASSUME SettingsInv, NEW r \in Asks,
         \/ FindAgreement(r) \/ CountAgreements(r) \/ ReadAgreement(r) \/ WriteAgreement(r)
         \/ \E t \in Types : UpsertAgreement(r, t)
  PROVE  SettingsInv'
<1>1. ask[r] \in AskSet /\ Fits(ask[r]) /\ Knows(ask[r]) /\ RowsTyped
  BY DEF SettingsInv
<1>2. UNCHANGED rows => RowsTyped' /\ Grown
  BY <1>1 DEF rows, RowsTyped, Grown
<1>3. CASE FindAgreement(r)
  <2>1. PICK pc : pc = IF ask[r].type \notin DOMAIN agr THEN "count"
                       ELSE IF ask[r].op = "modal" THEN "read" ELSE "write"
    OBVIOUS
  <2>2. PICK q : q = [ask[r] EXCEPT !.pc = pc]
    OBVIOUS
  <2>3. ask' = [ask EXCEPT ![r] = q] /\ UNCHANGED rows /\ ask[r].pc = "find"
    BY <1>3, <2>1, <2>2 DEF FindAgreement, Go
  <2>4. pc \in {"count", "read", "write"} /\ pc \in Pcs
    BY <2>1 DEF Pcs
  <2>5. /\ q \in AskSet /\ q.pc = pc /\ q.op = ask[r].op /\ q.type = ask[r].type
        /\ q.met = ask[r].met
    BY <1>1, <2>2, <2>4 DEF AskSet
  <2>6. Fits(q) /\ Knows(q)
    BY <1>1, <2>1, <2>3, <2>4, <2>5 DEF Fits, Knows, Moving
  <2> QED
    BY <2>3, <2>5, <2>6, ReadStep DEF Pending
<1>4. CASE CountAgreements(r)
  <2>1. ask[r].pc = "count" /\ UNCHANGED rows /\ Pending(r)
    BY <1>4 DEF CountAgreements, Pending
  <2>2. CASE End(r, "done")
    BY <1>2, <2>1, <2>2, EndStep
  <2>3. CASE DOMAIN agr = Types /\ Go(r, AfterInitialize(ask[r].op))
             /\ AfterInitialize(ask[r].op) # "done"
    <3>1. PICK pc : pc = AfterInitialize(ask[r].op)
      OBVIOUS
    <3>2. PICK q : q = [ask[r] EXCEPT !.pc = pc]
      OBVIOUS
    <3>3. ask' = [ask EXCEPT ![r] = q]
      BY <2>3, <3>1, <3>2 DEF Go
    <3>4. /\ (pc = "write" /\ ask[r].op = "decide") \/ (pc = "read" /\ ask[r].op = "modal")
          /\ pc \in Pcs
      <4>1. (pc = "write" /\ ask[r].op = "decide") \/ (pc = "read" /\ ask[r].op = "modal")
        BY <2>3, <3>1 DEF AfterInitialize
      <4> QED
        BY <4>1 DEF Pcs
    <3>5. /\ q \in AskSet /\ q.pc = pc /\ q.op = ask[r].op /\ q.type = ask[r].type
          /\ q.met = ask[r].met /\ q.type \in Types
      BY <1>1, <3>2, <3>4 DEF AskSet
    <3>6. Fits(q) /\ Knows(q)
      BY <2>3, <3>4, <3>5 DEF Fits, Knows, Moving
    <3> QED
      BY <2>1, <3>3, <3>5, <3>6, ReadStep
  <2>4. CASE /\ DOMAIN agr # Types
             /\ ask' = [ask EXCEPT ![r].pc = "upsert", ![r].todo = Types,
                                   ![r].lacking = Types \ DOMAIN agr]
    <3>1. PICK q : q = [ask[r] EXCEPT !.pc = "upsert", !.todo = Types,
                                      !.lacking = Types \ DOMAIN agr]
      OBVIOUS
    <3>2. ask' = [ask EXCEPT ![r] = q]
      BY <2>4, <3>1, <1>1 DEF SettingsInv, AskSet
    <3>3. /\ q \in AskSet /\ q.pc = "upsert" /\ q.todo = Types /\ q.lacking = Types \ DOMAIN agr
          /\ q.met = ask[r].met
      BY <1>1, <3>1 DEF AskSet, Pcs
    <3>4. Fits(q) /\ Knows(q)
      BY <1>1, <2>4, <3>3 DEF Fits, Knows, Moving, RowsTyped
    <3> QED
      BY <2>1, <3>2, <3>3, <3>4, ReadStep
  <2> QED
    BY <1>4, <2>2, <2>3, <2>4 DEF CountAgreements
<1>5. CASE ReadAgreement(r)
  <2>1. PICK q : q = [ask[r] EXCEPT !.pc = "write", !.row = agr[ask[r].type]]
    OBVIOUS
  <2>2. ask[r].pc = "read" /\ UNCHANGED rows
        /\ ask' = [ask EXCEPT ![r].pc = "write", ![r].row = agr[ask[r].type]]
    BY <1>5 DEF ReadAgreement
  <2>3. ask[r].op = "modal" /\ ask[r].type \in DOMAIN agr /\ agr[ask[r].type] \in AgrRow
    BY <1>1, <2>2 DEF Fits, RowsTyped
  <2>4. /\ q \in AskSet /\ q.pc = "write" /\ q.op = ask[r].op /\ q.type = ask[r].type
        /\ q.met = ask[r].met /\ q.row = agr[ask[r].type]
    BY <1>1, <2>1, <2>3 DEF AskSet, Pcs
  <2>5. ask' = [ask EXCEPT ![r] = q]
    BY <1>1, <2>1, <2>2 DEF SettingsInv, AskSet
  <2>6. Fits(q) /\ Knows(q)
    BY <2>3, <2>4 DEF Fits, Knows, Moving
  <2> QED
    BY <2>2, <2>4, <2>5, <2>6, ReadStep DEF Pending
<1>6. ASSUME NEW t \in Types, NEW v \in AgrRow, agr' = With(agr, t, v),
             UNCHANGED <<names, switch, device, nextId>>
      PROVE  RowsTyped' /\ Grown /\ DOMAIN agr' = DOMAIN agr \cup {t}
  <2>1. /\ DOMAIN agr' = DOMAIN agr \cup {t} /\ agr'[t] = v
        /\ \A y \in DOMAIN agr \ {t} : agr'[y] = agr[y]
    BY <1>6 DEF With
  <2> QED
    BY <1>1, <1>6, <2>1 DEF RowsTyped, Grown
<1>7. CASE WriteAgreement(r)
  <2>1. /\ ask[r].pc = "write" /\ End(r, "done")
        /\ agr' = With(agr, ask[r].type,
             IF ask[r].op = "modal" THEN Agreement(ask[r].row.status, ask[r].on)
             ELSE Agreement(ask[r].on, FALSE))
        /\ UNCHANGED <<names, switch, device, nextId>>
    BY <1>7 DEF WriteAgreement
  <2>2. ask[r].type \in Types /\ ask[r].on \in BOOLEAN /\ ask[r].row \in AgrRow
    BY <1>1 DEF AskSet
  <2>3. /\ Agreement(ask[r].row.status, ask[r].on) \in AgrRow
        /\ Agreement(ask[r].on, FALSE) \in AgrRow
    BY <2>2 DEF Agreement, AgrRow
  <2>4. RowsTyped' /\ Grown
    BY <1>6, <2>1, <2>2, <2>3
  <2> QED
    BY <2>1, <2>4, EndStep DEF Pending
<1>8. ASSUME NEW t \in Types, UpsertAgreement(r, t) PROVE SettingsInv'
  <2>1. PICK rest : rest = ask[r].todo \ {t}
    OBVIOUS
  <2>2. PICK next : next = AfterInitialize(ask[r].op)
    OBVIOUS
  <2>3. /\ ask[r].pc = "upsert" /\ t \in ask[r].todo /\ agr' = With(agr, t, Agreement(FALSE, TRUE))
        /\ UNCHANGED <<names, switch, device, nextId>>
        /\ IF rest # {} THEN ask' = [ask EXCEPT ![r].todo = rest]
           ELSE IF next = "done" THEN End(r, "done")
           ELSE ask' = [ask EXCEPT ![r].todo = {}, ![r].pc = next]
    BY <1>8, <2>1, <2>2 DEF UpsertAgreement
  <2>4. RowsTyped' /\ Grown /\ DOMAIN agr' = DOMAIN agr \cup {t} /\ Pending(r)
    <3>1. Agreement(FALSE, TRUE) \in AgrRow
      BY DEF Agreement, AgrRow
    <3> QED
      BY <1>6, <2>3, <3>1 DEF Pending
  <2>5. ask[r].todo \subseteq Types /\ Types \ ask[r].todo \subseteq DOMAIN agr
        /\ ask[r].lacking # {}
    BY <1>1, <2>3 DEF Fits
  <2>6. CASE rest # {}
    <3>1. PICK q : q = [ask[r] EXCEPT !.todo = rest]
      OBVIOUS
    <3>2. ask' = [ask EXCEPT ![r] = q]
      BY <2>3, <2>6, <3>1
    <3>3. /\ q \in AskSet /\ q.pc = "upsert" /\ q.todo = rest /\ q.lacking = ask[r].lacking
          /\ q.met = ask[r].met
      BY <1>1, <2>1, <2>3, <3>1 DEF AskSet
    <3>4. Fits(q)' /\ Knows(q)'
      BY <2>1, <2>4, <2>5, <3>3 DEF Fits, Knows, Moving
    <3> QED
      BY <2>4, <3>2, <3>3, <3>4, AskStep
  <2>7. CASE rest = {} /\ next = "done"
    BY <2>3, <2>4, <2>7, EndStep
  <2>8. CASE rest = {} /\ next # "done"
    <3>1. PICK q : q = [ask[r] EXCEPT !.todo = {}, !.pc = next]
      OBVIOUS
    <3>2. ask' = [ask EXCEPT ![r] = q]
      BY <1>1, <2>3, <2>8, <3>1 DEF SettingsInv, AskSet
    <3>3. /\ (next = "write" /\ ask[r].op = "decide") \/ (next = "read" /\ ask[r].op = "modal")
          /\ next \in Pcs
      <4>1. (next = "write" /\ ask[r].op = "decide") \/ (next = "read" /\ ask[r].op = "modal")
        BY <2>2, <2>8 DEF AfterInitialize
      <4> QED
        BY <4>1 DEF Pcs
    <3>4. /\ q \in AskSet /\ q.pc = next /\ q.op = ask[r].op /\ q.type = ask[r].type
          /\ q.met = ask[r].met /\ q.type \in Types
      BY <1>1, <3>1, <3>3 DEF AskSet
    <3>5. DOMAIN agr' = Types
      BY <1>1, <2>1, <2>4, <2>5, <2>8 DEF RowsTyped
    <3>6. Fits(q)' /\ Knows(q)'
      BY <3>3, <3>4, <3>5 DEF Fits, Knows, Moving
    <3> QED
      BY <2>4, <3>2, <3>4, <3>6, AskStep
  <2> QED
    BY <2>6, <2>7, <2>8
<1> QED
  BY <1>3, <1>4, <1>5, <1>7, <1>8

\* The statements about the switches.
LEMMA SwitchStep ==
  ASSUME SettingsInv, NEW r \in Asks,
         \/ CountSwitches(r) \/ FindSwitch(r) \/ SaveSwitch(r)
         \/ \E n \in Names : UpsertSwitch(r, n)
  PROVE  SettingsInv'
<1>1. ask[r] \in AskSet /\ Fits(ask[r]) /\ Knows(ask[r]) /\ RowsTyped
  BY DEF SettingsInv
<1>2. UNCHANGED rows => RowsTyped' /\ Grown
  BY <1>1 DEF rows, RowsTyped, Grown
<1>3. ASSUME NEW n \in names, NEW b \in BOOLEAN, switch' = With(switch, n, b),
             UNCHANGED <<agr, names, device, nextId>>
      PROVE  RowsTyped' /\ Grown
  <2>1. /\ DOMAIN switch' = DOMAIN switch \cup {n} /\ switch'[n] = b
        /\ \A y \in DOMAIN switch \ {n} : switch'[y] = switch[y]
    BY <1>3 DEF With
  <2> QED
    BY <1>1, <1>3, <2>1 DEF RowsTyped, Grown
<1>4. CASE CountSwitches(r)
  <2>1. ask[r].pc = "names" /\ UNCHANGED rows /\ Pending(r)
    BY <1>4 DEF CountSwitches, Pending
  <2>2. CASE DOMAIN switch = names /\ ask' = [ask EXCEPT ![r].pc = "count"]
    <3>1. PICK q : q = [ask[r] EXCEPT !.pc = "count"]
      OBVIOUS
    <3>2. ask' = [ask EXCEPT ![r] = q]
      BY <2>2, <3>1
    <3>3. q \in AskSet /\ q.pc = "count" /\ q.met = ask[r].met
      BY <1>1, <3>1 DEF AskSet, Pcs
    <3>4. Fits(q) /\ Knows(q)
      BY <3>3 DEF Fits, Knows, Moving
    <3> QED
      BY <2>1, <3>2, <3>3, <3>4, ReadStep
  <2>3. CASE /\ DOMAIN switch # names
             /\ ask' = [ask EXCEPT ![r].pc = "defaults", ![r].todo = names,
                                   ![r].lacking = names \ DOMAIN switch]
    <3>1. PICK q : q = [ask[r] EXCEPT !.pc = "defaults", !.todo = names,
                                      !.lacking = names \ DOMAIN switch]
      OBVIOUS
    <3>2. ask' = [ask EXCEPT ![r] = q]
      BY <1>1, <2>3, <3>1 DEF SettingsInv, AskSet
    <3>3. names \subseteq Names /\ names \ DOMAIN switch # {}
      BY <1>1, <2>3 DEF RowsTyped
    <3>4. /\ q \in AskSet /\ q.pc = "defaults" /\ q.todo = names /\ q.lacking # {}
          /\ q.met = ask[r].met
      BY <1>1, <3>1, <3>3 DEF AskSet, Pcs
    <3>5. Fits(q) /\ Knows(q)
      BY <3>4 DEF Fits, Knows, Moving
    <3> QED
      BY <2>1, <3>2, <3>4, <3>5, ReadStep
  <2> QED
    BY <1>4, <2>2, <2>3 DEF CountSwitches
<1>5. CASE FindSwitch(r)
  <2>1. ask[r].pc = "look" /\ UNCHANGED rows /\ Pending(r)
    BY <1>5 DEF FindSwitch, Pending
  <2>2. CASE End(r, "failed")
    BY <1>2, <2>1, <2>2, EndStep
  <2>3. CASE ask[r].name \in DOMAIN switch /\ Go(r, "save")
    <3>1. PICK q : q = [ask[r] EXCEPT !.pc = "save"]
      OBVIOUS
    <3>2. ask' = [ask EXCEPT ![r] = q]
      BY <2>3, <3>1 DEF Go
    <3>3. /\ q \in AskSet /\ q.pc = "save" /\ q.op = ask[r].op /\ q.name = ask[r].name
          /\ q.met = ask[r].met
      BY <1>1, <3>1 DEF AskSet, Pcs
    <3>4. Fits(q) /\ Knows(q)
      BY <1>1, <2>1, <2>3, <3>3 DEF Fits, Knows, Moving
    <3> QED
      BY <2>1, <3>2, <3>3, <3>4, ReadStep
  <2> QED
    BY <1>5, <2>2, <2>3 DEF FindSwitch
<1>6. CASE SaveSwitch(r)
  <2>1. /\ ask[r].pc = "save" /\ End(r, "done") /\ switch' = With(switch, ask[r].name, ask[r].on)
        /\ UNCHANGED <<agr, names, device, nextId>>
    BY <1>6 DEF SaveSwitch
  <2>2. ask[r].name \in names /\ ask[r].on \in BOOLEAN
    BY <1>1, <2>1 DEF Fits, AskSet, RowsTyped
  <2> QED
    BY <1>3, <2>1, <2>2, EndStep DEF Pending
<1>7. ASSUME NEW n \in Names, UpsertSwitch(r, n) PROVE SettingsInv'
  <2>1. PICK rest : rest = ask[r].todo \ {n}
    OBVIOUS
  <2>2. PICK b \in BOOLEAN : b = (n \in DOMAIN switch /\ Kind[n] = "INFO")
    OBVIOUS
  <2>3. /\ ask[r].pc = "defaults" /\ n \in ask[r].todo /\ switch' = With(switch, n, b)
        /\ ask' = [ask EXCEPT ![r].todo = rest,
                              ![r].pc = IF rest = {} THEN "count" ELSE "defaults",
                              ![r].lacking = IF rest = {} THEN {} ELSE ask[r].lacking]
        /\ UNCHANGED <<agr, names, device, nextId>>
    BY <1>7, <2>1, <2>2 DEF UpsertSwitch
  <2>4. ask[r].todo \subseteq names /\ ask[r].lacking # {} /\ n \in names
    BY <1>1, <2>3 DEF Fits
  <2>5. RowsTyped' /\ Grown
    BY <1>3, <2>3, <2>4
  <2>6. PICK q : q = [ask[r] EXCEPT !.todo = rest,
                                    !.pc = IF rest = {} THEN "count" ELSE "defaults",
                                    !.lacking = IF rest = {} THEN {} ELSE ask[r].lacking]
    OBVIOUS
  <2>7. ask' = [ask EXCEPT ![r] = q]
    BY <1>1, <2>3, <2>6 DEF SettingsInv, AskSet
  <2>8. /\ q \in AskSet /\ q.todo = rest /\ q.met = ask[r].met
        /\ q.pc = (IF rest = {} THEN "count" ELSE "defaults")
        /\ rest # {} => q.lacking = ask[r].lacking
    BY <1>1, <2>1, <2>6 DEF AskSet, Pcs
  <2>9. Fits(q)' /\ Knows(q)'
    BY <2>1, <2>3, <2>4, <2>8 DEF Fits, Knows, Moving
  <2> QED
    BY <2>3, <2>5, <2>7, <2>8, <2>9, AskStep DEF Pending
<1> QED
  BY <1>4, <1>5, <1>6, <1>7

Moved(q, y, pc, s) == q = [y EXCEPT !.pc = pc, !.found = s]

\* The statements about the devices: one request alone sees all rows of its
\* token, and takes all of them away before it creates its own.
LEMMA DeviceStep ==
  ASSUME SettingsInv, NEW r \in Asks,
         \/ FindTokens(r) \/ ClearTokens(r) \/ CreateDevice(r) \/ CheckDevice(r)
         \/ FindMine(r) \/ Activate(r) \/ DeleteDevice(r)
  PROVE  SettingsInv'
<1>1. ask[r] \in AskSet /\ Fits(ask[r]) /\ Knows(ask[r]) /\ RowsTyped
  BY DEF SettingsInv
<1>2. UNCHANGED rows => RowsTyped' /\ Grown
  BY <1>1 DEF rows, RowsTyped, Grown
<1>3. ASSUME NEW pc \in {"clear", "create", "mine", "tokens", "activate", "delete"},
             NEW s \in SUBSET Nat, NEW q, Moved(q, ask[r], pc, s)
      PROVE  /\ q \in AskSet /\ q.pc = pc /\ q.found = s /\ q.met = ask[r].met
             /\ q.token = ask[r].token /\ q.who = ask[r].who
  BY <1>1, <1>3 DEF Moved, AskSet, Pcs, Moving
<1>4. ASSUME NEW pc \in {"clear", "create", "mine", "tokens", "activate", "delete"}, Go(r, pc)
      PROVE  /\ ask' = [ask EXCEPT ![r] = [ask[r] EXCEPT !.pc = pc, !.found = ask[r].found]]
             /\ ask[r].found \in SUBSET Nat
  BY <1>1, <1>4 DEF Go, SettingsInv, AskSet
<1>5. ASSUME NEW D \in SUBSET DOMAIN device, device' = Restrict(device, D),
             UNCHANGED <<agr, names, switch, nextId>>
      PROVE  RowsTyped' /\ Grown /\ DOMAIN device' = D
  <2>1. DOMAIN device' = D /\ \A d \in D : device'[d] = device[d]
    BY <1>5 DEF Restrict
  <2> QED
    BY <1>1, <1>5, <2>1 DEF RowsTyped, Grown
<1>6. ASSUME NEW k PROVE RowsOf(k) \in SUBSET Nat
  <2>1. ASSUME NEW u \in Holders(k) PROVE device[<<u, k>>].id \in Nat
    BY <1>1 DEF Holders, RowsTyped
  <2> QED
    BY <2>1 DEF RowsOf
<1>7. CASE FindTokens(r)
  <2>1. /\ ask[r].pc = "tokens" /\ UNCHANGED rows
        /\ ask' = [ask EXCEPT ![r].pc = "clear", ![r].found = RowsOf(ask[r].token)]
    BY <1>7 DEF FindTokens
  <2>2. PICK q : Moved(q, ask[r], "clear", RowsOf(ask[r].token))
    BY DEF Moved
  <2>3. ask' = [ask EXCEPT ![r] = q]
    BY <1>1, <2>1, <2>2 DEF SettingsInv, AskSet, Moved
  <2>4. /\ q \in AskSet /\ q.pc = "clear" /\ q.found = RowsOf(ask[r].token)
        /\ q.met = ask[r].met /\ q.token = ask[r].token /\ q.who = ask[r].who
    BY <1>3, <1>6, <2>2
  <2>5. Fits(q) /\ Knows(q)
    BY <1>1, <2>1, <2>4 DEF Fits, Knows, Moving
  <2> QED
    BY <2>1, <2>3, <2>4, <2>5, ReadStep DEF Pending
<1>8. CASE ClearTokens(r)
  <2>1. /\ ask[r].pc = "clear" /\ device' = Without(ask[r].found) /\ Go(r, "create")
        /\ UNCHANGED <<agr, names, switch, nextId>>
    BY <1>8 DEF ClearTokens
  <2>2. PICK q : Moved(q, ask[r], "create", ask[r].found)
    BY DEF Moved
  <2>3. ask' = [ask EXCEPT ![r] = q] /\ ask[r].found \in SUBSET Nat
    BY <1>4, <2>1, <2>2 DEF Moved
  <2>4. /\ q \in AskSet /\ q.pc = "create" /\ q.found = ask[r].found
        /\ q.met = ask[r].met /\ q.token = ask[r].token /\ q.who = ask[r].who
    BY <1>3, <2>2, <2>3
  <2>5. PICK D \in SUBSET DOMAIN device :
          D = {d \in DOMAIN device : device[d].id \notin ask[r].found}
    OBVIOUS
  <2>6. RowsTyped' /\ Grown /\ DOMAIN device' = D
    BY <1>5, <2>1, <2>5 DEF Without
  <2>7. ~q.met => Holders(q.token)' = {}
    <3>1. ~q.met => ask[r].found = RowsOf(q.token)
      BY <1>1, <2>1, <2>4 DEF Knows
    <3>2. ~q.met => \A u \in Users : <<u, q.token>> \notin D
      BY <2>5, <3>1 DEF RowsOf, Holders
    <3> QED
      BY <2>6, <3>2 DEF Holders
  <2>8. Fits(q)' /\ Knows(q)'
    BY <1>1, <2>1, <2>4, <2>7 DEF Fits, Knows, Moving
  <2> QED
    BY <2>1, <2>3, <2>4, <2>6, <2>8, AskStep DEF Pending
<1>9. CASE CreateDevice(r)
  <2>1. PICK d : d = <<ask[r].who, ask[r].token>>
    OBVIOUS
  <2>2. /\ ask[r].pc = "create" /\ UNCHANGED <<agr, names, switch>>
        /\ IF d \in DOMAIN device THEN End(r, "failed") /\ UNCHANGED <<device, nextId>>
           ELSE /\ device' = With(device, d, Device(nextId, ask[r].on))
                /\ nextId' = nextId + 1 /\ End(r, "done")
    BY <1>9, <2>1 DEF CreateDevice
  <2>3. d \in Users \X Tokens /\ ask[r].on \in BOOLEAN
    BY <1>1, <2>1, <2>2 DEF Fits, Moving, AskSet
  <2>4. RowsTyped' /\ Grown
    <3>1. CASE d \in DOMAIN device
      BY <1>2, <2>2, <3>1 DEF rows
    <3>2. CASE d \notin DOMAIN device
      <4>1. PICK v : v = Device(nextId, ask[r].on)
        OBVIOUS
      <4>2. v.id = nextId /\ v.on = ask[r].on
        BY <4>1 DEF Device
      <4>3. /\ DOMAIN device' = DOMAIN device \cup {d} /\ device'[d] = v
            /\ \A c \in DOMAIN device : device'[c] = device[c]
        BY <2>2, <3>2, <4>1 DEF With
      <4>4. /\ \A c \in DOMAIN device' : device'[c].id \in 1..(nextId' - 1)
            /\ \A c, e \in DOMAIN device' : c # e => device'[c].id # device'[e].id
        BY <1>1, <2>2, <3>2, <4>2, <4>3 DEF RowsTyped
      <4>5. \A c \in DOMAIN device' : device'[c].on \in BOOLEAN
        BY <1>1, <2>3, <4>2, <4>3 DEF RowsTyped
      <4>6. nextId' \in Nat \ {0} /\ DOMAIN device' \subseteq Users \X Tokens
        BY <1>1, <2>2, <2>3, <3>2, <4>3 DEF RowsTyped
      <4> QED
        BY <1>1, <2>2, <4>4, <4>5, <4>6 DEF RowsTyped, Grown
    <3> QED
      BY <3>1, <3>2
  <2>5. End(r, "failed") \/ End(r, "done")
    BY <2>2
  <2> QED
    BY <2>2, <2>4, <2>5, EndStep DEF Pending
<1>10. CASE CheckDevice(r)
  <2>1. ask[r].pc = "exists" /\ UNCHANGED rows
    BY <1>10 DEF CheckDevice
  <2>2. CASE End(r, "failed")
    BY <1>2, <2>1, <2>2, EndStep DEF Pending
  <2>3. CASE Go(r, "mine")
    <3>1. PICK q : Moved(q, ask[r], "mine", ask[r].found)
      BY DEF Moved
    <3>2. ask' = [ask EXCEPT ![r] = q] /\ ask[r].found \in SUBSET Nat
      BY <1>4, <2>3, <3>1 DEF Moved
    <3>3. /\ q \in AskSet /\ q.pc = "mine" /\ q.met = ask[r].met
          /\ q.token = ask[r].token /\ q.who = ask[r].who
      BY <1>3, <3>1, <3>2
    <3>4. Fits(q) /\ Knows(q)
      BY <1>1, <2>1, <3>3 DEF Fits, Knows, Moving
    <3> QED
      BY <2>1, <3>2, <3>3, <3>4, ReadStep DEF Pending
  <2> QED
    BY <1>10, <2>2, <2>3 DEF CheckDevice
<1>11. CASE FindMine(r)
  <2>1. ask[r].pc = "mine" /\ UNCHANGED rows
    BY <1>11 DEF FindMine
  <2>2. CASE End(r, "failed")
    BY <1>2, <2>1, <2>2, EndStep DEF Pending
  <2>3. ASSUME NEW pc \in {"activate", "delete"}, NEW d \in DOMAIN device,
               ask' = [ask EXCEPT ![r].pc = pc, ![r].found = {device[d].id}]
        PROVE  SettingsInv'
    <3>1. PICK q : Moved(q, ask[r], pc, {device[d].id})
      BY DEF Moved
    <3>2. ask' = [ask EXCEPT ![r] = q]
      BY <1>1, <2>3, <3>1 DEF SettingsInv, AskSet, Moved
    <3>3. {device[d].id} \in SUBSET Nat
      BY <1>1 DEF RowsTyped
    <3>4. /\ q \in AskSet /\ q.pc = pc /\ q.met = ask[r].met
          /\ q.token = ask[r].token /\ q.who = ask[r].who
      BY <1>3, <3>1, <3>3
    <3>5. Fits(q) /\ Knows(q)
      BY <1>1, <2>1, <3>4 DEF Fits, Knows, Moving
    <3> QED
      BY <2>1, <3>2, <3>4, <3>5, ReadStep DEF Pending
  <2>4. \/ End(r, "failed")
        \/ \E pc \in {"activate", "delete"}, d \in DOMAIN device :
             ask' = [ask EXCEPT ![r].pc = pc, ![r].found = {device[d].id}]
    BY <1>11 DEF FindMine
  <2> QED
    BY <2>2, <2>3, <2>4
<1>12. CASE Activate(r)
  <2>1. ask[r].pc = "activate" /\ UNCHANGED <<agr, names, switch, nextId>>
    BY <1>12 DEF Activate
  <2>2. CASE End(r, "failed") /\ UNCHANGED device
    BY <1>2, <2>1, <2>2, EndStep DEF Pending, rows
  <2>3. ASSUME NEW mine, Go(r, "tokens"),
               device' = [d \in DOMAIN device |->
                            IF d \in mine THEN Device(device[d].id, ask[r].on) ELSE device[d]]
        PROVE  SettingsInv'
    <3>1. PICK q : Moved(q, ask[r], "tokens", ask[r].found)
      BY DEF Moved
    <3>2. ask' = [ask EXCEPT ![r] = q] /\ ask[r].found \in SUBSET Nat
      BY <1>4, <2>3, <3>1 DEF Moved
    <3>3. /\ q \in AskSet /\ q.pc = "tokens" /\ q.met = ask[r].met
          /\ q.token = ask[r].token /\ q.who = ask[r].who
      BY <1>3, <3>1, <3>2
    <3>4. ask[r].on \in BOOLEAN
      BY <1>1 DEF AskSet
    <3>5. /\ DOMAIN device' = DOMAIN device
          /\ \A d \in DOMAIN device : device'[d].id = device[d].id
          /\ \A d \in DOMAIN device : device'[d].on \in {ask[r].on, device[d].on}
      BY <2>3 DEF Device
    <3>6. RowsTyped' /\ Grown
      <4>1. \A d \in DOMAIN device' : device'[d].on \in BOOLEAN
        BY <1>1, <3>4, <3>5 DEF RowsTyped
      <4> QED
        BY <1>1, <2>1, <3>5, <4>1 DEF RowsTyped, Grown
    <3>7. Fits(q)' /\ Knows(q)'
      BY <1>1, <2>1, <3>3 DEF Fits, Knows, Moving
    <3> QED
      BY <2>1, <3>2, <3>3, <3>6, <3>7, AskStep DEF Pending
  <2> QED
    BY <1>12, <2>2, <2>3 DEF Activate
<1>13. CASE DeleteDevice(r)
  <2>1. PICK d : d = <<ask[r].who, ask[r].token>>
    OBVIOUS
  <2>2. /\ ask[r].pc = "delete" /\ device' = Restrict(device, DOMAIN device \ {d})
        /\ UNCHANGED <<agr, names, switch, nextId>>
        /\ End(r, "done") \/ End(r, "failed")
    BY <1>13, <2>1 DEF DeleteDevice
  <2>3. RowsTyped' /\ Grown
    BY <1>5, <2>2
  <2> QED
    BY <2>2, <2>3, EndStep DEF Pending
<1> QED
  BY <1>7, <1>8, <1>9, <1>10, <1>11, <1>12, <1>13

LEMMA SettingsStep ==
  ASSUME SettingsInv, SettingsNext
  PROVE  SettingsInv'
<1>1. CASE CreateNotification
  <2>1. /\ \E n \in Names \ names : names' = names \cup {n}
        /\ UNCHANGED <<agr, switch, device, nextId, ask>>
    BY <1>1 DEF CreateNotification
  <2>2. RowsTyped'
    BY <2>1 DEF SettingsInv, RowsTyped
  <2>3. \A r \in Asks : Fits(ask[r])' /\ Knows(ask[r])'
    BY <2>1 DEF SettingsInv, Fits, Knows, Holders, RowsOf
  <2> QED
    BY <2>1, <2>2, <2>3 DEF SettingsInv, Pending
<1>2. ASSUME NEW r \in Asks, Abort(r) PROVE SettingsInv'
  <2>1. RowsTyped' /\ Grown /\ Pending(r) /\ End(r, "failed")
    BY <1>2 DEF Abort, rows, SettingsInv, RowsTyped, Grown
  <2> QED
    BY <2>1, EndStep
<1> QED
  BY <1>1, <1>2, RequestStep, AgreementStep, SwitchStep, DeviceStep DEF SettingsNext

-----------------------------------------------------------------------------
\* What a step leaves of the status a request holds: the one it held, none, or
\* that of the row it reads.
HoldsRow(p) ==
  \/ ask'[p].row = ask[p].row /\ ask'[p].type = ask[p].type
  \/ ~ask'[p].row.status
  \/ ask'[p].type \in DOMAIN agr /\ ask'[p].row = agr[ask'[p].type]

LEMMA RowsHeld ==
  ASSUME SettingsInv, SettingsNext, NEW p \in Asks
  PROVE  HoldsRow(p)
<1>1. ask \in [Asks -> AskSet]
  BY DEF SettingsInv
<1>2. ~NoAsk.row.status
  BY DEF NoAsk, Agreement
<1>3. ASSUME NEW r \in Asks, NEW pc, End(r, pc) PROVE HoldsRow(p)
  <2>1. PICK q : q = [NoAsk EXCEPT !.pc = pc]
    OBVIOUS
  <2>2. q.row = NoAsk.row
    BY <2>1 DEF NoAsk
  <2>3. ask' = [ask EXCEPT ![r] = q]
    BY <1>3, <2>1 DEF End
  <2> QED
    BY <1>1, <1>2, <2>2, <2>3 DEF HoldsRow
<1>4. ASSUME NEW r \in Asks, NEW pc, Go(r, pc) PROVE HoldsRow(p)
  BY <1>1, <1>4 DEF Go, HoldsRow, AskSet
<1>6. CASE CreateNotification
  BY <1>6 DEF CreateNotification, HoldsRow
<1>7. ASSUME NEW r \in Asks, Request(r) PROVE HoldsRow(p)
  <2>1. PICK q \in AgreementRequests \cup SwitchRequests \cup DeviceRequests :
          ask' = [o \in Asks |->
                   IF o = r THEN [q EXCEPT !.met = \E x \in Asks : Pending(x)]
                   ELSE IF Pending(o) THEN [ask[o] EXCEPT !.met = TRUE] ELSE ask[o]]
    BY <1>7 DEF Request
  <2>2. q \in AskSet /\ q.row = NoAsk.row
    BY Asked DEF SettingsInv, RowsTyped
  <2>3. ASSUME NEW y \in AskSet, NEW b, NEW x, x = [y EXCEPT !.met = b]
        PROVE  x.row = y.row /\ x.type = y.type
    BY <2>3 DEF AskSet
  <2>4. CASE p = r
    <3>1. PICK z : z = [q EXCEPT !.met = \E x \in Asks : Pending(x)]
      OBVIOUS
    <3>2. z.row = NoAsk.row
      BY <2>2, <3>1 DEF AskSet
    <3>3. ask'[p] = z
      BY <2>1, <2>4, <3>1
    <3> QED
      BY <1>2, <3>2, <3>3 DEF HoldsRow
  <2>5. CASE p # r /\ Pending(p)
    <3>1. ask'[p] = [ask[p] EXCEPT !.met = TRUE]
      BY <2>1, <2>5
    <3>2. ask'[p].row = ask[p].row /\ ask'[p].type = ask[p].type
      BY <1>1, <3>1 DEF AskSet
    <3> QED
      BY <3>2 DEF HoldsRow
  <2>6. CASE p # r /\ ~Pending(p)
    BY <2>1, <2>6 DEF HoldsRow
  <2> QED
    BY <2>4, <2>5, <2>6
<1>8. ASSUME NEW r \in Asks,
             Abort(r) \/ FindAgreement(r) \/ WriteAgreement(r) \/ FindSwitch(r) \/ SaveSwitch(r)
             \/ ClearTokens(r) \/ CreateDevice(r) \/ CheckDevice(r) \/ Activate(r) \/ DeleteDevice(r)
      PROVE  HoldsRow(p)
  <2>1. \E pc : Go(r, pc) \/ End(r, pc)
    BY <1>8 DEF Abort, FindAgreement, WriteAgreement, FindSwitch, SaveSwitch, ClearTokens,
                CreateDevice, CheckDevice, Activate, DeleteDevice
  <2> QED
    BY <1>3, <1>4, <2>1
<1>9. ASSUME NEW r \in Asks, CountAgreements(r) PROVE HoldsRow(p)
  <2>1. CASE \E pc : Go(r, pc) \/ End(r, pc)
    BY <1>3, <1>4, <2>1
  <2>2. CASE ask' = [ask EXCEPT ![r].pc = "upsert", ![r].todo = Types,
                                ![r].lacking = Types \ DOMAIN agr]
    BY <1>1, <2>2 DEF HoldsRow, AskSet
  <2> QED
    BY <1>9, <2>1, <2>2 DEF CountAgreements
<1>10. ASSUME NEW r \in Asks, NEW t \in Types, UpsertAgreement(r, t) PROVE HoldsRow(p)
  <2>1. CASE \E pc : End(r, pc)
    BY <1>3, <2>1
  <2>2. CASE \E rest : ask' = [ask EXCEPT ![r].todo = rest]
    BY <1>1, <2>2 DEF HoldsRow, AskSet
  <2>3. CASE \E pc : ask' = [ask EXCEPT ![r].todo = {}, ![r].pc = pc]
    BY <1>1, <2>3 DEF HoldsRow, AskSet
  <2> QED
    BY <1>10, <2>1, <2>2, <2>3 DEF UpsertAgreement
<1>11. ASSUME NEW r \in Asks, ReadAgreement(r) PROVE HoldsRow(p)
  <2>1. ask[r].pc = "read" /\ ask' = [ask EXCEPT ![r].pc = "write", ![r].row = agr[ask[r].type]]
    BY <1>11 DEF ReadAgreement
  <2>2. ask[r].type \in DOMAIN agr
    BY <2>1 DEF SettingsInv, Fits
  <2>3. ask'[r].row = agr[ask[r].type] /\ ask'[r].type = ask[r].type
    BY <1>1, <2>1 DEF AskSet
  <2>4. p # r => ask'[p] = ask[p]
    BY <1>1, <2>1
  <2> QED
    BY <2>2, <2>3, <2>4 DEF HoldsRow
<1>12. ASSUME NEW r \in Asks, CountSwitches(r) PROVE HoldsRow(p)
  <2>1. CASE ask' = [ask EXCEPT ![r].pc = "count"]
    BY <1>1, <2>1 DEF HoldsRow, AskSet
  <2>2. CASE ask' = [ask EXCEPT ![r].pc = "defaults", ![r].todo = names,
                                ![r].lacking = names \ DOMAIN switch]
    BY <1>1, <2>2 DEF HoldsRow, AskSet
  <2> QED
    BY <1>12, <2>1, <2>2 DEF CountSwitches
<1>13. ASSUME NEW r \in Asks, NEW n \in Names, UpsertSwitch(r, n) PROVE HoldsRow(p)
  <2>1. PICK a, b, c : ask' = [ask EXCEPT ![r].todo = a, ![r].pc = b, ![r].lacking = c]
    BY <1>13 DEF UpsertSwitch
  <2> QED
    BY <1>1, <2>1 DEF HoldsRow, AskSet
<1>14. ASSUME NEW r \in Asks, FindTokens(r) \/ FindMine(r) PROVE HoldsRow(p)
  <2>1. CASE \E pc, s : ask' = [ask EXCEPT ![r].pc = pc, ![r].found = s]
    BY <1>1, <2>1 DEF HoldsRow, AskSet
  <2>2. CASE \E pc : End(r, pc)
    BY <1>3, <2>2
  <2> QED
    BY <1>14, <2>1, <2>2 DEF FindTokens, FindMine
<1> QED
  BY <1>6, <1>7, <1>8, <1>9, <1>10, <1>11, <1>12, <1>13, <1>14 DEF SettingsNext

\* What the users' own requests write is what they agreed to.
LEMMA ConsentStep ==
  ASSUME SettingsInv, AgreedRows, \A r \in Asks : Willing(ask[r]), Settings
  PROVE  AgreedRows' /\ (\A r \in Asks : Willing(ask[r])') /\ agreed \subseteq agreed'
<1>1. /\ SettingsNext /\ agreed \subseteq agreed'
      /\ \A r \in Asks : /\ ask'[r].op = "decide" /\ ask'[r].on => ask'[r].type \in agreed'
                         /\ ask'[r].op = "switch" /\ ask'[r].on => ask'[r].name \in agreed'
  BY DEF Settings
<1>2. ASSUME NEW r \in Asks PROVE Willing(ask[r])'
  <2>1. HoldsRow(r)
    BY <1>1, RowsHeld
  <2>2. ask'[r].row.status => ask'[r].type \in agreed
    BY <2>1 DEF HoldsRow, Willing, AgreedRows
  <2> QED
    BY <1>1, <2>2 DEF Willing
<1>3. CASE UNCHANGED <<agr, switch>>
  BY <1>1, <1>2, <1>3 DEF AgreedRows
<1>4. ASSUME NEW t, NEW v, agr' = With(agr, t, v), UNCHANGED switch, v.status => t \in agreed
      PROVE  AgreedRows'
  <2>1. /\ DOMAIN agr' = DOMAIN agr \cup {t} /\ agr'[t] = v
        /\ \A y \in DOMAIN agr \ {t} : agr'[y] = agr[y]
    BY <1>4 DEF With
  <2> QED
    BY <1>1, <1>4, <2>1 DEF AgreedRows
<1>5. ASSUME NEW n, NEW b, switch' = With(switch, n, b), UNCHANGED agr,
             b /\ Kind[n] # "INFO" => n \in agreed
      PROVE  AgreedRows'
  <2>1. /\ DOMAIN switch' = DOMAIN switch \cup {n} /\ switch'[n] = b
        /\ \A y \in DOMAIN switch \ {n} : switch'[y] = switch[y]
    BY <1>5 DEF With
  <2> QED
    BY <1>1, <1>5, <2>1 DEF AgreedRows
<1>6. ASSUME NEW r \in Asks, WriteAgreement(r) PROVE AgreedRows'
  <2>1. /\ ask[r].pc = "write" /\ UNCHANGED <<names, switch, device, nextId>>
        /\ agr' = With(agr, ask[r].type,
             IF ask[r].op = "modal" THEN Agreement(ask[r].row.status, ask[r].on)
             ELSE Agreement(ask[r].on, FALSE))
    BY <1>6 DEF WriteAgreement
  <2>2. ask[r].op \in {"decide", "modal"} /\ Willing(ask[r])
    BY <2>1 DEF SettingsInv, Fits
  <2>3. CASE ask[r].op = "modal"
    <3>1. PICK v : v = Agreement(ask[r].row.status, ask[r].on)
      OBVIOUS
    <3>2. v.status => ask[r].type \in agreed
      BY <2>2, <3>1 DEF Willing, Agreement
    <3> QED
      BY <1>4, <2>1, <2>3, <3>1, <3>2
  <2>4. CASE ask[r].op = "decide"
    <3>1. PICK v : v = Agreement(ask[r].on, FALSE)
      OBVIOUS
    <3>2. v.status => ask[r].type \in agreed
      BY <2>2, <2>4, <3>1 DEF Willing, Agreement
    <3> QED
      BY <1>4, <2>1, <2>4, <3>1, <3>2
  <2> QED
    BY <2>2, <2>3, <2>4
<1>7. ASSUME NEW r \in Asks, NEW t \in Types, UpsertAgreement(r, t) PROVE AgreedRows'
  <2>1. PICK v : v = Agreement(FALSE, TRUE)
    OBVIOUS
  <2>2. agr' = With(agr, t, v) /\ UNCHANGED switch
    BY <1>7, <2>1 DEF UpsertAgreement
  <2>3. ~v.status
    BY <2>1 DEF Agreement
  <2> QED
    BY <1>4, <2>2, <2>3
<1>8. ASSUME NEW r \in Asks, SaveSwitch(r) PROVE AgreedRows'
  <2>1. ask[r].pc = "save" /\ UNCHANGED agr /\ switch' = With(switch, ask[r].name, ask[r].on)
    BY <1>8 DEF SaveSwitch
  <2>2. ask[r].op = "switch" /\ Willing(ask[r])
    BY <2>1 DEF SettingsInv, Fits
  <2> QED
    BY <1>5, <2>1, <2>2 DEF Willing
<1>9. ASSUME NEW r \in Asks, NEW n \in Names, UpsertSwitch(r, n) PROVE AgreedRows'
  <2>1. UNCHANGED agr /\ switch' = With(switch, n, n \in DOMAIN switch /\ Kind[n] = "INFO")
    BY <1>9 DEF UpsertSwitch
  <2>2. PICK b : b = (n \in DOMAIN switch /\ Kind[n] = "INFO")
    OBVIOUS
  <2> QED
    BY <1>5, <2>1, <2>2
<1>10. \/ UNCHANGED <<agr, switch>>
       \/ \E r \in Asks : \/ WriteAgreement(r) \/ SaveSwitch(r)
                          \/ \E t \in Types : UpsertAgreement(r, t)
                          \/ \E n \in Names : UpsertSwitch(r, n)
  BY <1>1 DEF SettingsNext, CreateNotification, Request, Abort, FindAgreement, CountAgreements,
      ReadAgreement, CountSwitches, FindSwitch, FindTokens, ClearTokens, CreateDevice, CheckDevice,
      FindMine, Activate, DeleteDevice, rows
<1> QED
  BY <1>1, <1>2, <1>3, <1>6, <1>7, <1>8, <1>9, <1>10

-----------------------------------------------------------------------------
\* Counting slots: at most one of them changes in a step.
LEMMA Swapped ==
  ASSUME NEW S \in SUBSET Slots, NEW T \in SUBSET Slots, NEW c \in Slots, S \ {c} = T \ {c}
  PROVE  /\ Cardinality(S) \in Nat /\ Cardinality(T) \in Nat
         /\ c \notin S /\ c \notin T => Cardinality(T) = Cardinality(S)
         /\ c \in S /\ c \in T => Cardinality(T) = Cardinality(S)
         /\ c \notin S /\ c \in T => Cardinality(T) = Cardinality(S) + 1
         /\ c \in S /\ c \notin T => Cardinality(T) = Cardinality(S) - 1
<1>1. IsFiniteSet(S) /\ IsFiniteSet(T)
  BY NotificationsAssumption, FS_Subset
<1>2. Cardinality(S) \in Nat /\ Cardinality(T) \in Nat
  BY <1>1, FS_CardinalityType
<1>3. Cardinality(S \ {c}) = IF c \in S THEN Cardinality(S) - 1 ELSE Cardinality(S)
  BY <1>1, FS_RemoveElement
<1>4. Cardinality(T \ {c}) = IF c \in T THEN Cardinality(T) - 1 ELSE Cardinality(T)
  BY <1>1, FS_RemoveElement
<1>5. Cardinality(S \ {c}) = Cardinality(T \ {c})
  OBVIOUS
<1>7. c \notin S /\ c \notin T => Cardinality(T) = Cardinality(S)
  BY <1>3, <1>4, <1>5
<1>8. c \in S /\ c \in T => Cardinality(T) = Cardinality(S)
  BY <1>2, <1>3, <1>4, <1>5
<1>9. c \notin S /\ c \in T => Cardinality(T) = Cardinality(S) + 1
  BY <1>2, <1>3, <1>4, <1>5
<1>10. c \in S /\ c \notin T => Cardinality(T) = Cardinality(S) - 1
  BY <1>2, <1>3, <1>4, <1>5
<1> QED
  BY <1>2, <1>7, <1>8, <1>9, <1>10

LEMMA Disjoint ==
  ASSUME NEW S, NEW T, IsFiniteSet(S), IsFiniteSet(T), S \cap T = {}
  PROVE  IsFiniteSet(S \cup T) /\ Cardinality(S \cup T) = Cardinality(S) + Cardinality(T)
<1>1. /\ IsFiniteSet(S \cup T)
      /\ Cardinality(S \cup T) = Cardinality(S) + Cardinality(T) - Cardinality(S \cap T)
  BY FS_Union
<1>2. Cardinality(S \cap T) = 0
  BY FS_EmptySet
<1>3. Cardinality(S) \in Nat /\ Cardinality(T) \in Nat
  BY FS_CardinalityType
<1> QED
  BY <1>1, <1>2, <1>3

\* What the slots do for m, in numbers.
LEMMA SlotCounts ==
  ASSUME work \in [Slots -> WorkSet], work' \in [Slots -> WorkSet], NEW m \in Notes
  PROVE  /\ Pushing(m) \in SUBSET Slots /\ Pushing(m)' \in SUBSET Slots
         /\ Saving(m) \in SUBSET Slots /\ Saving(m)' \in SUBSET Slots
         /\ Busy(m) \in SUBSET Slots
         /\ Cardinality(Pushing(m)) \in Nat /\ Cardinality(Saving(m)) \in Nat
         /\ Cardinality(Busy(m)) \in Nat /\ Cardinality(Saving(m)) <= Cardinality(Busy(m))
<1>1. /\ Pushing(m) \in SUBSET Slots /\ Pushing(m)' \in SUBSET Slots
      /\ Saving(m) \in SUBSET Slots /\ Saving(m)' \in SUBSET Slots
      /\ Busy(m) \in SUBSET Slots /\ Saving(m) \subseteq Busy(m)
  BY DEF Pushing, Saving, Busy
<1>2. IsFiniteSet(Pushing(m)) /\ IsFiniteSet(Saving(m)) /\ IsFiniteSet(Busy(m))
  BY <1>1, NotificationsAssumption, FS_Subset
<1>3. Cardinality(Saving(m)) <= Cardinality(Busy(m))
  BY <1>1, <1>2, FS_Subset
<1> QED
  BY <1>1, <1>2, <1>3, FS_CardinalityType

\* One copy more in a queue, or less.
LEMMA OneMore ==
  ASSUME queue \in [Queues -> [Notes -> Nat]], NEW q \in Queues, NEW m \in Notes,
         queue' = [queue EXCEPT ![q] = Plus(queue[q], m)]
  PROVE  /\ queue' \in [Queues -> [Notes -> Nat]] /\ Copies(m)' = Copies(m) + 1
         /\ \A x \in Notes \ {m} : Copies(x)' = Copies(x)
<1>1. \A p \in Queues, x \in Notes :
        queue'[p][x] = IF p = q /\ x = m THEN queue[p][x] + 1 ELSE queue[p][x]
  BY DEF Plus
<1>2. queue' \in [Queues -> [Notes -> Nat]]
  BY DEF Plus
<1>3. \A p \in Queues, x \in Notes : queue[p][x] \in Nat
  OBVIOUS
<1> QED
  BY <1>1, <1>2, <1>3 DEF Copies, Queues

LEMMA OneLess ==
  ASSUME queue \in [Queues -> [Notes -> Nat]], NEW q \in Queues, NEW m \in Notes,
         queue[q][m] > 0, queue' = [queue EXCEPT ![q][m] = @ - 1]
  PROVE  /\ queue' \in [Queues -> [Notes -> Nat]] /\ Copies(m)' = Copies(m) - 1 /\ Copies(m) > 0
         /\ \A x \in Notes \ {m} : Copies(x)' = Copies(x)
<1>1. \A p \in Queues, x \in Notes :
        queue'[p][x] = IF p = q /\ x = m THEN queue[p][x] - 1 ELSE queue[p][x]
  OBVIOUS
<1>2. \A p \in Queues, x \in Notes : queue[p][x] \in Nat
  OBVIOUS
<1>3. queue' \in [Queues -> [Notes -> Nat]]
  <2>1. \A p \in Queues, x \in Notes : queue'[p][x] \in Nat
    BY <1>1, <1>2
  <2>2. DOMAIN queue' = Queues /\ \A p \in Queues : queue'[p] = [x \in Notes |-> queue'[p][x]]
    OBVIOUS
  <2> QED
    BY <2>1, <2>2
<1> QED
  BY <1>1, <1>2, <1>3 DEF Copies, Queues

\* One slot goes on to w.
LEMMA OneSlot ==
  ASSUME work \in [Slots -> WorkSet], NEW c \in Slots, NEW w \in WorkSet,
         work' = [work EXCEPT ![c] = w], NEW m \in Notes
  PROVE  /\ work' \in [Slots -> WorkSet]
         /\ Cardinality(Pushing(m)) \in Nat /\ Cardinality(Pushing(m))' \in Nat
         /\ Cardinality(Saving(m)) \in Nat /\ Cardinality(Saving(m))' \in Nat
         /\ c \notin Pushing(m) /\ c \notin Pushing(m)' =>
              Cardinality(Pushing(m))' = Cardinality(Pushing(m))
         /\ c \in Pushing(m) /\ c \in Pushing(m)' =>
              Cardinality(Pushing(m))' = Cardinality(Pushing(m))
         /\ c \notin Pushing(m) /\ c \in Pushing(m)' =>
              Cardinality(Pushing(m))' = Cardinality(Pushing(m)) + 1
         /\ c \in Pushing(m) /\ c \notin Pushing(m)' =>
              Cardinality(Pushing(m))' = Cardinality(Pushing(m)) - 1
         /\ c \notin Saving(m) /\ c \notin Saving(m)' =>
              Cardinality(Saving(m))' = Cardinality(Saving(m))
         /\ c \notin Saving(m) /\ c \in Saving(m)' =>
              Cardinality(Saving(m))' = Cardinality(Saving(m)) + 1
         /\ c \in Saving(m) /\ c \notin Saving(m)' =>
              Cardinality(Saving(m))' = Cardinality(Saving(m)) - 1
         /\ c \in Pushing(m)' <=> w.m = m /\ w.pc \in {"forward", "night", "push"}
         /\ c \in Saving(m)' <=> w.m = m /\ w.pc = "save"
         /\ Busy(m) = {} /\ (w.m = m => w.pc = "free") => Busy(m)' = {}
<1>1. /\ work' \in [Slots -> WorkSet] /\ work'[c] = w
      /\ \A d \in Slots \ {c} : work'[d] = work[d]
  OBVIOUS
<1>2. /\ Pushing(m) \in SUBSET Slots /\ Pushing(m)' \in SUBSET Slots
      /\ Saving(m) \in SUBSET Slots /\ Saving(m)' \in SUBSET Slots
  BY DEF Pushing, Saving
<1>3. Pushing(m) \ {c} = Pushing(m)' \ {c} /\ Saving(m) \ {c} = Saving(m)' \ {c}
  BY <1>1 DEF Pushing, Saving
<1>4. /\ c \in Pushing(m)' <=> w.m = m /\ w.pc \in {"forward", "night", "push"}
      /\ c \in Saving(m)' <=> w.m = m /\ w.pc = "save"
      /\ Busy(m) = {} /\ (w.m = m => w.pc = "free") => Busy(m)' = {}
  BY <1>1 DEF Pushing, Saving, Busy
<1>5. PICK P : P = Pushing(m)'
  OBVIOUS
<1>6. PICK S : S = Saving(m)'
  OBVIOUS
<1>7. /\ Cardinality(Pushing(m)) \in Nat /\ Cardinality(P) \in Nat
      /\ c \notin Pushing(m) /\ c \notin P => Cardinality(P) = Cardinality(Pushing(m))
      /\ c \in Pushing(m) /\ c \in P => Cardinality(P) = Cardinality(Pushing(m))
      /\ c \notin Pushing(m) /\ c \in P => Cardinality(P) = Cardinality(Pushing(m)) + 1
      /\ c \in Pushing(m) /\ c \notin P => Cardinality(P) = Cardinality(Pushing(m)) - 1
  BY <1>2, <1>3, <1>5, Swapped
<1>8. /\ Cardinality(Saving(m)) \in Nat /\ Cardinality(S) \in Nat
      /\ c \notin Saving(m) /\ c \notin S => Cardinality(S) = Cardinality(Saving(m))
      /\ c \notin Saving(m) /\ c \in S => Cardinality(S) = Cardinality(Saving(m)) + 1
      /\ c \in Saving(m) /\ c \notin S => Cardinality(S) = Cardinality(Saving(m)) - 1
  BY <1>2, <1>3, <1>6, Swapped
<1> QED
  BY <1>1, <1>4, <1>5, <1>6, <1>7, <1>8

\* The messages that a slot does not handle.
LEMMA OtherNotes ==
  ASSUME NotesTyped, NEW c \in Slots, NEW w \in WorkSet, work' = [work EXCEPT ![c] = w],
         NEW m \in Notes, work[c].m = m \/ work[c].pc = "free", w.m = m \/ w.pc = "free",
         UNCHANGED note, note[m].pc = "sent",
         NEW x \in Notes, x # m, Counted(x), Unsent(x), pushes'[x] = pushes[x],
         records'[x] = records[x], again'[x] = again[x], dead'[x] = dead[x],
         Copies(x)' = Copies(x), x \in schedule' <=> x \in schedule
  PROVE  Counted(x)' /\ Unsent(x)'
<1>1. work \in [Slots -> WorkSet]
  BY DEF NotesTyped
<1>2. c \notin Pushing(x) /\ c \notin Saving(x)
  BY DEF Pushing, Saving
<1>3. c \notin Pushing(x)' /\ c \notin Saving(x)' /\ (Busy(x) = {} => Busy(x)' = {})
  <2>1. w.m = x => w.pc = "free"
    OBVIOUS
  <2>2. /\ c \in Pushing(x)' <=> w.m = x /\ w.pc \in {"forward", "night", "push"}
        /\ c \in Saving(x)' <=> w.m = x /\ w.pc = "save"
        /\ Busy(x) = {} /\ (w.m = x => w.pc = "free") => Busy(x)' = {}
    BY <1>1, OneSlot
  <2> QED
    BY <2>1, <2>2
<1>4. /\ Cardinality(Pushing(x))' = Cardinality(Pushing(x))
      /\ Cardinality(Saving(x))' = Cardinality(Saving(x))
  BY <1>1, <1>2, <1>3, OneSlot
<1>5. Counted(x)'
  BY <1>4 DEF Counted, Scheduled
<1>6. Unsent(x)'
  BY <1>3 DEF Unsent
<1> QED
  BY <1>5, <1>6

LEMMA FreeTyped == Free \in WorkSet /\ Free.pc = "free"
<1>1. (CHOOSE m \in Notes : TRUE) \in Notes
  BY NotificationsAssumption
<1> QED
  BY <1>1 DEF Free, WorkSet, Queues

\* What is handled was published.
LEMMA BusySent ==
  ASSUME NotesTyped, Counting, NEW c \in Slots, work[c].pc # "free"
  PROVE  work[c].m \in Notes /\ note[work[c].m].pc = "sent" /\ work[c] \in WorkSet
<1>1. work[c] \in WorkSet /\ work[c].m \in Notes
  BY DEF NotesTyped, WorkSet
<1>2. c \in Busy(work[c].m)
  BY DEF Busy
<1> QED
  BY <1>1, <1>2 DEF Counting, Unsent

\* The numbers of a message, as the arithmetic of a step needs them.
LEMMA Numbers ==
  ASSUME NotesTyped, NEW m \in Notes
  PROVE  /\ Scheduled(m) \in {0, 1}
         /\ pushes[m] \in Nat /\ records[m] \in Nat /\ again[m] \in Nat /\ dead[m] \in Nat
         /\ Copies(m) \in Nat /\ Cardinality(Pushing(m)) \in Nat
         /\ Cardinality(Saving(m)) \in Nat
<1>1. \A q \in Queues : queue[q][m] \in Nat
  BY DEF NotesTyped
<1>2. Copies(m) \in Nat
  BY <1>1 DEF Copies, Queues
<1>3. Pushing(m) \in SUBSET Slots /\ Saving(m) \in SUBSET Slots
  BY DEF Pushing, Saving
<1>4. Cardinality(Pushing(m)) \in Nat /\ Cardinality(Saving(m)) \in Nat
  BY <1>3, NotificationsAssumption, FS_Subset, FS_CardinalityType
<1> QED
  BY <1>2, <1>4 DEF NotesTyped, Scheduled

LEMMA TakeStep ==
  ASSUME NotesTyped, Counting, NEW c \in Slots, NEW q \in Queues, NEW m \in Notes, Take(c, q, m)
  PROVE  NotesTyped' /\ Counting'
<1>1. PICK w : w = [Free EXCEPT !.pc = FirstStep(q), !.from = q, !.m = m]
  OBVIOUS
<1>2. /\ work[c].pc = "free" /\ queue[q][m] > 0 /\ queue' = [queue EXCEPT ![q][m] = @ - 1]
      /\ work' = [work EXCEPT ![c] = w]
      /\ UNCHANGED <<clock, note, schedule, pushes, records, again, dead>>
  BY <1>1 DEF Take, notesHistory
<1>3. FirstStep(q) \in {"forward", "night", "push"}
  BY DEF FirstStep
<1>4. w \in WorkSet /\ w.pc \in {"forward", "night", "push"} /\ w.m = m
  BY <1>1, <1>3, FreeTyped DEF WorkSet
<1>5. work \in [Slots -> WorkSet] /\ queue \in [Queues -> [Notes -> Nat]]
  BY DEF NotesTyped
<1>6. /\ queue' \in [Queues -> [Notes -> Nat]] /\ Copies(m)' = Copies(m) - 1 /\ Copies(m) > 0
      /\ \A x \in Notes \ {m} : Copies(x)' = Copies(x)
  BY <1>2, <1>5, OneLess
<1>7. work' \in [Slots -> WorkSet]
  BY <1>2, <1>4, <1>5
<1>8. NotesTyped'
  BY <1>2, <1>6, <1>7 DEF NotesTyped
<1>9. note[m].pc = "sent"
  BY <1>6 DEF Counting, Unsent
<1>10. ASSUME NEW x \in Notes \ {m} PROVE Counted(x)' /\ Unsent(x)'
  BY <1>2, <1>4, <1>6, <1>9, OtherNotes DEF Counting
<1>11. Counted(m)'
  <2>1. c \notin Pushing(m) /\ c \notin Saving(m)
    BY <1>2 DEF Pushing, Saving
  <2>2. /\ Cardinality(Pushing(m))' = Cardinality(Pushing(m)) + 1
        /\ Cardinality(Saving(m))' = Cardinality(Saving(m))
    BY <1>2, <1>4, <1>5, <2>1, OneSlot
  <2> QED
    BY <1>2, <1>6, <2>2, Numbers DEF Counting, Counted, Scheduled
<1>12. Unsent(m)'
  BY <1>2, <1>9 DEF Unsent
<1> QED
  BY <1>8, <1>10, <1>11, <1>12 DEF Counting

LEMMA HandleStep ==
  ASSUME NotesTyped, Counting, NEW c \in Slots,
         Forward(c) \/ ReadNight(c) \/ Push(c) \/ SaveRequest(c) \/ Ack(c) \/ Reject(c)
  PROVE  NotesTyped' /\ Counting'
<1>1. PICK m : m = work[c].m
  OBVIOUS
<1>2. work[c].pc # "free"
  BY DEF Forward, ReadNight, Push, SaveRequest, Ack, Reject
<1>3. m \in Notes /\ note[m].pc = "sent" /\ work[c] \in WorkSet /\ work[c].m = m
  BY <1>1, <1>2, BusySent
<1>4. work \in [Slots -> WorkSet] /\ queue \in [Queues -> [Notes -> Nat]]
  BY DEF NotesTyped
<1>5. c \in Pushing(m) <=> work[c].pc \in {"forward", "night", "push"}
  BY <1>3 DEF Pushing
<1>6. c \in Saving(m) <=> work[c].pc = "save"
  BY <1>3 DEF Saving
<1>7. ASSUME NEW pc \in {"push", "save", "ack"}, Doing(c, pc),
             NEW w, w = [work[c] EXCEPT !.pc = pc]
      PROVE  work' = [work EXCEPT ![c] = w] /\ w \in WorkSet /\ w.pc = pc /\ w.m = m
  BY <1>3, <1>7 DEF Doing, WorkSet
<1>8. ASSUME UNCHANGED queue PROVE \A x \in Notes : Copies(x)' = Copies(x)
  BY <1>8 DEF Copies
<1>9. ASSUME NEW f \in [Notes -> Nat]
      PROVE  /\ Plus(f, m) \in [Notes -> Nat] /\ Plus(f, m)[m] = f[m] + 1
             /\ \A x \in Notes \ {m} : Plus(f, m)[x] = f[x]
  BY <1>3 DEF Plus
<1>10. Counted(m) /\ Unsent(m) /\ Counting
  BY <1>3 DEF Counting
<1>11. CASE Forward(c)
  <2>1. /\ work[c].pc = "forward" /\ Doing(c, "ack")
        /\ UNCHANGED <<clock, note, pushes, records, again, dead>>
    BY <1>11 DEF Forward, notesHistory
  <2>2. PICK w : w = [work[c] EXCEPT !.pc = "ack"]
    OBVIOUS
  <2>3. work' = [work EXCEPT ![c] = w] /\ w \in WorkSet /\ w.pc = "ack" /\ w.m = m
    BY <1>7, <2>1, <2>2
  <2>4. /\ queue' \in [Queues -> [Notes -> Nat]] /\ schedule' \in SUBSET Notes
        /\ \/ Copies(m)' = Copies(m)
           \/ Copies(m)' = Copies(m) + 1 /\ UNCHANGED schedule
        /\ \A x \in Notes \ {m} : Copies(x)' = Copies(x) /\ (x \in schedule' <=> x \in schedule)
    <3>1. CASE schedule' = schedule \cup {m} /\ UNCHANGED queue
      BY <1>3, <1>4, <1>8, <3>1 DEF NotesTyped
    <3>2. CASE queue' = [queue EXCEPT ![Route(m)] = Plus(queue[Route(m)], m)] /\ UNCHANGED schedule
      <4>1. Route(m) \in Queues
        BY DEF Route, Queues
      <4> QED
        BY <1>3, <1>4, <3>2, <4>1, OneMore DEF NotesTyped
    <3> QED
      BY <1>1, <1>11, <3>1, <3>2 DEF Forward
  <2>5. NotesTyped'
    BY <2>1, <2>3, <2>4 DEF NotesTyped
  <2>6. ASSUME NEW x \in Notes \ {m} PROVE Counted(x)' /\ Unsent(x)'
    BY <1>3, <2>1, <2>3, <2>4, OtherNotes DEF Counting
  <2>7. Counted(m)'
    <3>1. /\ Cardinality(Pushing(m))' = Cardinality(Pushing(m)) - 1
          /\ Cardinality(Saving(m))' = Cardinality(Saving(m))
      BY <1>3, <1>4, <1>5, <1>6, <2>1, <2>3, OneSlot
    <3> QED
      BY <1>3, <1>10, <2>1, <2>4, <3>1, Numbers DEF Counted, Scheduled
  <2> QED
    BY <1>3, <2>1, <2>5, <2>6, <2>7 DEF Counting, Unsent
<1>12. CASE ReadNight(c)
  <2>1. /\ work[c].pc = "night" /\ Doing(c, "push")
        /\ UNCHANGED <<clock, note, queue, schedule, pushes, records, again, dead>>
    BY <1>12 DEF ReadNight, notesHistory, Doing
  <2>2. PICK w : w = [work[c] EXCEPT !.pc = "push"]
    OBVIOUS
  <2>3. work' = [work EXCEPT ![c] = w] /\ w \in WorkSet /\ w.pc = "push" /\ w.m = m
    BY <1>7, <2>1, <2>2
  <2>4. NotesTyped' /\ \A x \in Notes : Copies(x)' = Copies(x)
    BY <1>4, <1>8, <2>1, <2>3 DEF NotesTyped
  <2>5. ASSUME NEW x \in Notes \ {m} PROVE Counted(x)' /\ Unsent(x)'
    BY <1>3, <2>1, <2>3, <2>4, OtherNotes DEF Counting
  <2>6. Counted(m)'
    <3>1. /\ Cardinality(Pushing(m))' = Cardinality(Pushing(m))
          /\ Cardinality(Saving(m))' = Cardinality(Saving(m))
      <4>1. c \in Pushing(m)' /\ c \notin Saving(m)'
        BY <1>3, <1>4, <2>3, OneSlot
      <4> QED
        BY <1>3, <1>4, <1>5, <1>6, <2>1, <2>3, OneSlot, <4>1
    <3> QED
      BY <1>3, <1>10, <2>1, <2>4, <3>1, Numbers DEF Counted, Scheduled
  <2> QED
    BY <1>3, <2>1, <2>4, <2>5, <2>6 DEF Counting, Unsent
<1>13. CASE Push(c)
  <2>1. /\ work[c].pc = "push" /\ Doing(c, "save") /\ pushes' = Plus(pushes, m)
        /\ UNCHANGED <<clock, note, queue, schedule, records, again, dead>>
    BY <1>1, <1>13 DEF Push
  <2>2. PICK w : w = [work[c] EXCEPT !.pc = "save"]
    OBVIOUS
  <2>3. work' = [work EXCEPT ![c] = w] /\ w \in WorkSet /\ w.pc = "save" /\ w.m = m
    BY <1>7, <2>1, <2>2
  <2>4. /\ pushes' \in [Notes -> Nat] /\ pushes'[m] = pushes[m] + 1
        /\ \A x \in Notes \ {m} : pushes'[x] = pushes[x]
    BY <1>9, <2>1 DEF NotesTyped
  <2>5. NotesTyped' /\ \A x \in Notes : Copies(x)' = Copies(x)
    BY <1>4, <1>8, <2>1, <2>3, <2>4 DEF NotesTyped
  <2>6. ASSUME NEW x \in Notes \ {m} PROVE Counted(x)' /\ Unsent(x)'
    BY <1>3, <2>1, <2>3, <2>4, <2>5, OtherNotes DEF Counting
  <2>7. Counted(m)'
    <3>1. /\ Cardinality(Pushing(m))' = Cardinality(Pushing(m)) - 1
          /\ Cardinality(Saving(m))' = Cardinality(Saving(m)) + 1
      BY <1>3, <1>4, <1>5, <1>6, <2>1, <2>3, OneSlot
    <3> QED
      BY <1>3, <1>10, <2>1, <2>4, <2>5, <3>1, Numbers DEF Counted, Scheduled
  <2> QED
    BY <1>3, <2>1, <2>5, <2>6, <2>7 DEF Counting, Unsent
<1>14. CASE SaveRequest(c)
  <2>1. /\ work[c].pc = "save" /\ Doing(c, "ack") /\ records' = Plus(records, m)
        /\ UNCHANGED <<clock, note, queue, schedule, pushes, again, dead>>
    BY <1>1, <1>14 DEF SaveRequest, notesHistory
  <2>2. PICK w : w = [work[c] EXCEPT !.pc = "ack"]
    OBVIOUS
  <2>3. work' = [work EXCEPT ![c] = w] /\ w \in WorkSet /\ w.pc = "ack" /\ w.m = m
    BY <1>7, <2>1, <2>2
  <2>4. /\ records' \in [Notes -> Nat] /\ records'[m] = records[m] + 1
        /\ \A x \in Notes \ {m} : records'[x] = records[x]
    BY <1>9, <2>1 DEF NotesTyped
  <2>5. NotesTyped' /\ \A x \in Notes : Copies(x)' = Copies(x)
    BY <1>4, <1>8, <2>1, <2>3, <2>4 DEF NotesTyped
  <2>6. ASSUME NEW x \in Notes \ {m} PROVE Counted(x)' /\ Unsent(x)'
    BY <1>3, <2>1, <2>3, <2>4, <2>5, OtherNotes DEF Counting
  <2>7. Counted(m)'
    <3>1. /\ Cardinality(Pushing(m))' = Cardinality(Pushing(m))
          /\ Cardinality(Saving(m))' = Cardinality(Saving(m)) - 1
      BY <1>3, <1>4, <1>5, <1>6, <2>1, <2>3, OneSlot
    <3> QED
      BY <1>3, <1>10, <2>1, <2>4, <2>5, <3>1, Numbers DEF Counted, Scheduled
  <2> QED
    BY <1>3, <2>1, <2>5, <2>6, <2>7 DEF Counting, Unsent
<1>15. CASE Ack(c)
  <2>1. /\ work[c].pc = "ack" /\ work' = [work EXCEPT ![c] = Free]
        /\ UNCHANGED <<clock, note, queue, schedule, pushes, records, again, dead>>
    BY <1>15 DEF Ack, notesHistory
  <2>2. NotesTyped' /\ \A x \in Notes : Copies(x)' = Copies(x)
    BY <1>4, <1>8, <2>1, FreeTyped DEF NotesTyped
  <2>3. ASSUME NEW x \in Notes \ {m} PROVE Counted(x)' /\ Unsent(x)'
    BY <1>3, <2>1, <2>2, OtherNotes, FreeTyped DEF Counting
  <2>4. Counted(m)'
    <3>1. /\ Cardinality(Pushing(m))' = Cardinality(Pushing(m))
          /\ Cardinality(Saving(m))' = Cardinality(Saving(m))
      <4>1. c \notin Pushing(m)' /\ c \notin Saving(m)'
        BY <1>3, <1>4, <2>1, OneSlot, FreeTyped
      <4> QED
        BY <1>3, <1>4, <1>5, <1>6, <2>1, OneSlot, FreeTyped, <4>1
    <3> QED
      BY <1>3, <1>10, <2>1, <2>2, <3>1, Numbers DEF Counted, Scheduled
  <2> QED
    BY <1>3, <2>1, <2>2, <2>3, <2>4 DEF Counting, Unsent
<1>16. CASE Reject(c)
  <2>1. /\ work[c].pc \in {"forward", "night", "push", "save"}
        /\ work' = [work EXCEPT ![c] = Free] /\ dead' = Plus(dead, m)
        /\ UNCHANGED <<clock, note, queue, schedule, pushes, records, again>>
    BY <1>1, <1>16 DEF Reject
  <2>2. /\ dead' \in [Notes -> Nat] /\ dead'[m] = dead[m] + 1
        /\ \A x \in Notes \ {m} : dead'[x] = dead[x]
    BY <1>9, <2>1 DEF NotesTyped
  <2>3. NotesTyped' /\ \A x \in Notes : Copies(x)' = Copies(x)
    BY <1>4, <1>8, <2>1, <2>2, FreeTyped DEF NotesTyped
  <2>4. ASSUME NEW x \in Notes \ {m} PROVE Counted(x)' /\ Unsent(x)'
    BY <1>3, <2>1, <2>2, <2>3, OtherNotes, FreeTyped DEF Counting
  <2>5. Counted(m)'
    <3>1. CASE work[c].pc = "save"
      <4>1. /\ Cardinality(Pushing(m))' = Cardinality(Pushing(m))
            /\ Cardinality(Saving(m))' = Cardinality(Saving(m)) - 1
        <5>1. c \notin Pushing(m)' /\ c \notin Saving(m)'
          BY <1>3, <1>4, <2>1, OneSlot, FreeTyped
        <5> QED
          BY <1>3, <1>4, <1>5, <1>6, <2>1, <3>1, OneSlot, FreeTyped, <5>1
      <4> QED
        BY <1>3, <1>10, <2>1, <2>2, <2>3, <4>1, Numbers DEF Counted, Scheduled
    <3>2. CASE work[c].pc # "save"
      <4>1. /\ Cardinality(Pushing(m))' = Cardinality(Pushing(m)) - 1
            /\ Cardinality(Saving(m))' = Cardinality(Saving(m))
        <5>1. c \notin Pushing(m)' /\ c \notin Saving(m)'
          BY <1>3, <1>4, <2>1, OneSlot, FreeTyped
        <5> QED
          BY <1>3, <1>4, <1>5, <1>6, <2>1, <3>2, OneSlot, FreeTyped, <5>1
      <4> QED
        BY <1>3, <1>10, <2>1, <2>2, <2>3, <4>1, Numbers DEF Counted, Scheduled
    <3> QED
      BY <3>1, <3>2
  <2> QED
    BY <1>3, <2>1, <2>3, <2>4, <2>5 DEF Counting, Unsent
<1> QED
  BY <1>11, <1>12, <1>13, <1>14, <1>15, <1>16

\* The consumer dies: what its slots held is in the queues again.
LEMMA CrashStep ==
  ASSUME NotesTyped, Counting, Crash
  PROVE  NotesTyped' /\ Counting' /\ UNCHANGED note
<1> DEFINE Back(q, m) == {c \in {d \in Slots : work[d].pc # "free"} :
                            work[c].from = q /\ work[c].m = m}
           Held(m)    == {c \in {d \in Slots : work[d].pc # "free"} : work[c].m = m}
<1>1. /\ queue' = [q \in Queues |-> [m \in Notes |-> queue[q][m] + Cardinality(Back(q, m))]]
      /\ again' = [m \in Notes |-> again[m] + Cardinality(Held(m))]
      /\ work' = [c \in Slots |-> Free]
      /\ UNCHANGED <<settings, clock, note, schedule, pushes, records, dead, agreed>>
  BY DEF Crash
<1>2. work \in [Slots -> WorkSet] /\ queue \in [Queues -> [Notes -> Nat]]
      /\ again \in [Notes -> Nat]
  BY DEF NotesTyped
<1>3. ASSUME NEW m \in Notes
      PROVE  /\ \A q \in Queues : Cardinality(Back(q, m)) \in Nat
             /\ Cardinality(Held(m)) \in Nat /\ Held(m) = Busy(m)
             /\ Cardinality(Back("fcm", m)) + Cardinality(Back("info", m))
                + Cardinality(Back("ad", m)) + Cardinality(Back("night", m))
                  = Cardinality(Held(m))
  <2>1. \A q \in Queues : Back(q, m) \subseteq Slots
    OBVIOUS
  <2>2. \A q \in Queues : IsFiniteSet(Back(q, m)) /\ Cardinality(Back(q, m)) \in Nat
    BY <2>1, NotificationsAssumption, FS_Subset, FS_CardinalityType
  <2>3. Held(m) = Busy(m)
    BY DEF Busy
  <2>4. Held(m) = ((Back("fcm", m) \cup Back("info", m)) \cup Back("ad", m)) \cup Back("night", m)
    BY <1>2 DEF WorkSet, Queues
  <2>5. /\ Back("fcm", m) \cap Back("info", m) = {}
        /\ (Back("fcm", m) \cup Back("info", m)) \cap Back("ad", m) = {}
        /\ ((Back("fcm", m) \cup Back("info", m)) \cup Back("ad", m)) \cap Back("night", m) = {}
    OBVIOUS
  <2> DEFINE A == Back("fcm", m)
             B == Back("info", m)
             C == Back("ad", m)
             D == Back("night", m)
             H == Held(m)
  <2>6. IsFiniteSet(A) /\ IsFiniteSet(B) /\ IsFiniteSet(C) /\ IsFiniteSet(D)
    BY <2>2 DEF Queues
  <2>7. /\ Cardinality(A) \in Nat /\ Cardinality(B) \in Nat
        /\ Cardinality(C) \in Nat /\ Cardinality(D) \in Nat
    BY <2>2 DEF Queues
  <2>8. /\ A \cap B = {} /\ (A \cup B) \cap C = {} /\ ((A \cup B) \cup C) \cap D = {}
        /\ H = ((A \cup B) \cup C) \cup D
    BY <2>4, <2>5
  <2>9. Cardinality(A) + Cardinality(B) + Cardinality(C) + Cardinality(D) = Cardinality(H)
        /\ Cardinality(H) \in Nat
    <3> HIDE DEF A, B, C, D, H
    <3>1. IsFiniteSet(A \cup B) /\ Cardinality(A \cup B) = Cardinality(A) + Cardinality(B)
      BY <2>6, <2>8, Disjoint
    <3>2. /\ IsFiniteSet((A \cup B) \cup C)
          /\ Cardinality((A \cup B) \cup C) = Cardinality(A \cup B) + Cardinality(C)
      BY <2>6, <2>8, <3>1, Disjoint
    <3>3. Cardinality(((A \cup B) \cup C) \cup D) = Cardinality((A \cup B) \cup C) + Cardinality(D)
      BY <2>6, <2>8, <3>2, Disjoint
    <3> QED
      BY <2>7, <2>8, <3>1, <3>2, <3>3
  <2> QED
    BY <2>2, <2>3, <2>9
<1> HIDE DEF Back, Held
<1>4. /\ queue' \in [Queues -> [Notes -> Nat]] /\ again' \in [Notes -> Nat]
      /\ work' \in [Slots -> WorkSet]
  <2>1. \A q \in Queues, m \in Notes : queue[q][m] + Cardinality(Back(q, m)) \in Nat
    BY <1>2, <1>3
  <2>2. \A m \in Notes : again[m] + Cardinality(Held(m)) \in Nat
    BY <1>2, <1>3
  <2> QED
    BY <1>1, <2>1, <2>2, FreeTyped
<1>5. NotesTyped'
  BY <1>1, <1>4 DEF NotesTyped
<1>6. ASSUME NEW m \in Notes PROVE Counted(m)' /\ Unsent(m)'
  <2>1. Copies(m)' = Copies(m) + Cardinality(Held(m)) /\ again'[m] = again[m] + Cardinality(Held(m))
    <3>1. \A q \in Queues : /\ queue'[q][m] = queue[q][m] + Cardinality(Back(q, m))
                            /\ queue[q][m] \in Nat /\ Cardinality(Back(q, m)) \in Nat
      BY <1>1, <1>2, <1>3
    <3>2. again'[m] = again[m] + Cardinality(Held(m))
      BY <1>1
    <3> QED
      BY <1>3, <3>1, <3>2 DEF Copies, Queues
  <2>2. Pushing(m)' = {} /\ Saving(m)' = {} /\ Busy(m)' = {}
    BY <1>1, FreeTyped DEF Pushing, Saving, Busy
  <2>3. Cardinality(Pushing(m)') = 0 /\ Cardinality(Saving(m)') = 0
    BY <2>2, FS_EmptySet
  <2>4. Cardinality(Saving(m)) <= Cardinality(Held(m)) /\ Cardinality(Held(m)) \in Nat
    BY <1>2, <1>3, <1>4, SlotCounts
  <2>5. Counted(m) /\ Unsent(m)
    BY DEF Counting
  <2>6. Counted(m)'
    BY <1>1, <2>1, <2>3, <2>4, <2>5, Numbers DEF Counted, Scheduled
  <2>7. Unsent(m)'
    <3>1. Busy(m) = {} => Cardinality(Held(m)) = 0
      BY <1>3, FS_EmptySet
    <3> QED
      BY <1>1, <2>1, <2>2, <2>5, <3>1, Numbers DEF Unsent
  <2> QED
    BY <2>6, <2>7
<1> QED
  BY <1>1, <1>5, <1>6 DEF Counting

\* A note that goes on to z, with nothing sent.
LEMMA NoteGoesOn ==
  ASSUME NotesTyped, Counting, \A x \in Notes : Wanted(x), NEW m \in Notes, NEW z \in NoteSet,
         note' = [note EXCEPT ![m] = z], note[m].pc # "sent", z.pc # "sent",
         UNCHANGED <<settings, clock, pipeline, crashes, notesHistory>>,
         Kind[z.name] = "MARKETING" =>
           /\ z.active => z.name \in agreed
           /\ z.pc = "publish" => {"MARKETING", z.name} \subseteq agreed
  PROVE  NotesTyped' /\ Counting' /\ \A x \in Notes : Wanted(x)'
<1>1. /\ note' \in [Notes -> NoteSet] /\ note'[m] = z
      /\ \A x \in Notes \ {m} : note'[x] = note[x]
  BY DEF NotesTyped
<1>2. UNCHANGED <<clock, queue, schedule, work, pushes, records, again, dead, agreed>>
  BY DEF pipeline, notesHistory
<1>3. NotesTyped'
  BY <1>1, <1>2 DEF NotesTyped
<1>4. ASSUME NEW x \in Notes PROVE Counted(x)' /\ Unsent(x)'
  <2>1. Copies(x)' = Copies(x) /\ Pushing(x)' = Pushing(x) /\ Saving(x)' = Saving(x)
        /\ Busy(x)' = Busy(x)
    BY <1>2 DEF Copies, Pushing, Saving, Busy
  <2> QED
    BY <1>1, <1>2, <2>1 DEF Counting, Counted, Scheduled, Unsent
<1>5. ASSUME NEW x \in Notes PROVE Wanted(x)'
  BY <1>1, <1>2 DEF Wanted
<1> QED
  BY <1>3, <1>4, <1>5 DEF Counting

LEMMA NoteStep ==
  ASSUME NotesInv, NEW m \in Notes,
         Send(m) \/ ReadSwitch(m) \/ ReadAgreementOf(m) \/ Publish(m)
  PROVE  NotesTyped' /\ Counting' /\ (\A x \in Notes : Wanted(x)') /\ UNCHANGED <<settings, agreed>>
<1>1. /\ NotesTyped /\ Counting /\ AgreedRows /\ RowsTyped
      /\ \A x \in Notes : Wanted(x)
  BY DEF NotesInv, Consent, Counting, SettingsInv
<1>2. note \in [Notes -> NoteSet] /\ note[m] \in NoteSet /\ Wanted(m)
  BY <1>1 DEF NotesTyped
<1>3. CASE Send(m)
  <2>1. PICK n \in names, t \in clock..MaxTime :
          note' = [note EXCEPT ![m] = [NewNote EXCEPT !.pc = "switch", !.name = n, !.at = t]]
    BY <1>3 DEF Send
  <2>2. PICK z : z = [NewNote EXCEPT !.pc = "switch", !.name = n, !.at = t]
    OBVIOUS
  <2>3. NewNote \in NoteSet /\ ~NewNote.active
    <3>1. (CHOOSE k \in Names : TRUE) \in Names
      BY NotificationsAssumption
    <3>2. 0 \in Times
      BY NotificationsAssumption DEF Times
    <3> QED
      BY <3>1, <3>2 DEF NewNote, NoteSet
  <2>4. n \in Names
    BY <1>1 DEF RowsTyped
  <2>5. t \in Times
    BY <1>1 DEF NotesTyped, Times
  <2>6. z \in NoteSet /\ z.pc = "switch" /\ ~z.active
    <3> HIDE DEF NewNote
    <3> QED
      BY <2>2, <2>3, <2>4, <2>5 DEF NoteSet
  <2>7. /\ note[m].pc = "new" /\ note' = [note EXCEPT ![m] = z]
        /\ UNCHANGED <<settings, clock, pipeline, crashes, notesHistory>>
    BY <1>3, <2>1, <2>2 DEF Send
  <2> QED
    BY <1>1, <2>6, <2>7, NoteGoesOn DEF notesHistory
<1>4. CASE ReadSwitch(m)
  <2>1. PICK b : b = (note[m].name \in DOMAIN switch /\ switch[note[m].name])
    OBVIOUS
  <2>2. b \in BOOLEAN
    BY <1>1, <2>1 DEF RowsTyped
  <2>3. PICK z : z = [note[m] EXCEPT !.pc = "agreement", !.active = b]
    OBVIOUS
  <2>4. z \in NoteSet /\ z.pc = "agreement" /\ z.active = b /\ z.name = note[m].name
    BY <1>2, <2>2, <2>3 DEF NoteSet
  <2>5. /\ note[m].pc = "switch"
        /\ UNCHANGED <<settings, clock, pipeline, crashes, notesHistory>>
        /\ note' = [note EXCEPT ![m].pc = "agreement", ![m].active = b]
    BY <1>4, <2>1 DEF ReadSwitch
  <2>6. note' = [note EXCEPT ![m] = z]
    BY <1>2, <2>3, <2>5
  <2>7. Kind[z.name] = "MARKETING" /\ z.active => z.name \in agreed
    BY <1>1, <2>1, <2>4 DEF AgreedRows
  <2> QED
    BY <1>1, <2>4, <2>5, <2>6, <2>7, NoteGoesOn DEF notesHistory
<1>5. CASE ReadAgreementOf(m)
  <2>1. PICK t : t = Kind[note[m].name]
    OBVIOUS
  <2>2. PICK pc : pc = IF note[m].active /\ t \in DOMAIN agr /\ agr[t].status
                       THEN "publish" ELSE "refused"
    OBVIOUS
  <2>3. PICK z : z = [note[m] EXCEPT !.pc = pc]
    OBVIOUS
  <2>4. /\ z \in NoteSet /\ z.pc = pc /\ z.name = note[m].name /\ z.active = note[m].active
    BY <1>2, <2>2, <2>3 DEF NoteSet
  <2>5. /\ note[m].pc = "agreement" /\ note' = [note EXCEPT ![m] = z]
        /\ UNCHANGED <<settings, clock, pipeline, crashes, notesHistory>>
    BY <1>5, <2>1, <2>2, <2>3 DEF ReadAgreementOf, Becomes
  <2>6. Kind[z.name] = "MARKETING" =>
          /\ z.active => z.name \in agreed
          /\ z.pc = "publish" => {"MARKETING", z.name} \subseteq agreed
    BY <1>1, <1>2, <2>1, <2>2, <2>4 DEF Wanted, AgreedRows
  <2>7. z.pc # "sent"
    BY <2>2, <2>4
  <2> QED
    BY <1>1, <2>4, <2>5, <2>6, <2>7, NoteGoesOn DEF notesHistory
<1>6. CASE Publish(m)
  <2>1. /\ note[m].pc = "publish" /\ Becomes(m, "sent")
        /\ queue' = [queue EXCEPT !["fcm"] = Plus(queue["fcm"], m)]
        /\ UNCHANGED <<settings, clock, schedule, work, pushes, records, again, dead, agreed>>
    BY <1>6 DEF Publish, notesHistory
  <2>2. /\ note' \in [Notes -> NoteSet] /\ note'[m].pc = "sent" /\ note'[m].name = note[m].name
        /\ note'[m].active = note[m].active
        /\ \A x \in Notes \ {m} : note'[x] = note[x]
    BY <1>2, <2>1 DEF Becomes, NoteSet
  <2>3. queue \in [Queues -> [Notes -> Nat]] /\ "fcm" \in Queues
    BY <1>1 DEF NotesTyped, Queues
  <2>4. /\ queue' \in [Queues -> [Notes -> Nat]] /\ Copies(m)' = Copies(m) + 1
        /\ \A x \in Notes \ {m} : Copies(x)' = Copies(x)
    BY <2>1, <2>3, OneMore
  <2>5. NotesTyped'
    BY <1>1, <2>1, <2>2, <2>4 DEF NotesTyped
  <2>6. \A x \in Notes : Pushing(x)' = Pushing(x) /\ Saving(x)' = Saving(x) /\ Busy(x)' = Busy(x)
    BY <2>1 DEF Pushing, Saving, Busy
  <2>7. ASSUME NEW x \in Notes \ {m} PROVE Counted(x)' /\ Unsent(x)'
    BY <1>1, <2>1, <2>2, <2>4, <2>6 DEF Counting, Counted, Scheduled, Unsent
  <2>8. Counted(m)' /\ Unsent(m)'
    <3>1. pushes[m] = 0 /\ Copies(m) = 0 /\ Busy(m) = {} /\ Counted(m) /\ m \notin schedule
      BY <1>1, <2>1 DEF Counting, Unsent
    <3>2. Pushing(m) = {}
      BY <3>1 DEF Pushing, Busy
    <3>3. Cardinality(Pushing(m)) = 0
      BY <3>2, FS_EmptySet
    <3> QED
      BY <1>1, <2>1, <2>2, <2>4, <2>6, <3>1, <3>3, Numbers DEF Counted, Scheduled, Unsent
  <2>9. ASSUME NEW x \in Notes PROVE Wanted(x)'
    BY <1>1, <1>2, <2>1, <2>2 DEF Wanted
  <2> QED
    BY <2>1, <2>5, <2>7, <2>8, <2>9 DEF Counting
<1> QED
  BY <1>3, <1>4, <1>5, <1>6

LEMMA InitInv == Init => NotesInv
<1> SUFFICES ASSUME Init PROVE NotesInv
  OBVIOUS
<1>1. NoAsk \in AskSet /\ NoAsk.pc = "idle" /\ NoAsk.op = "none" /\ ~NoAsk.row.status
  BY SettingsAssumption DEF NoAsk, AskSet, AgrRow, Agreement, Ops, Pcs
<1>2. /\ names \subseteq Names /\ DOMAIN device = {} /\ nextId = 1
      /\ ask = [r \in Asks |-> NoAsk]
  BY DEF Init, SettingsInit, None
<1>3. /\ DOMAIN agr \subseteq Types /\ \A t \in DOMAIN agr : agr[t] \in AgrRow
      /\ DOMAIN switch \subseteq names /\ \A n \in DOMAIN switch : switch[n] \in BOOLEAN
  <2>1. CASE agr = None /\ switch = None
    BY <2>1 DEF None
  <2>2. ASSUME NEW t \in Types, NEW b \in BOOLEAN, switch \in [names -> BOOLEAN],
               agr = With([u \in Types |-> Agreement(FALSE, TRUE)], t, Agreement(b, FALSE))
        PROVE  <1>3!1
    <3>1. Agreement(FALSE, TRUE) \in AgrRow /\ Agreement(b, FALSE) \in AgrRow
      BY DEF Agreement, AgrRow
    <3>2. DOMAIN agr \subseteq Types /\ \A u \in DOMAIN agr : agr[u] \in AgrRow
      BY <2>2, <3>1 DEF With
    <3> QED
      BY <2>2, <3>2
  <2> QED
    BY <2>1, <2>2 DEF Init, SettingsInit
<1>4. SettingsInv
  <2>1. RowsTyped
    BY <1>2, <1>3 DEF RowsTyped
  <2>2. ASSUME NEW r \in Asks PROVE Fits(ask[r]) /\ Knows(ask[r]) /\ ~Pending(r)
    <3>1. ask[r].pc = "idle"
      BY <1>1, <1>2
    <3> QED
      BY <3>1 DEF Fits, Knows, Pending, Moving
  <2> QED
    BY <1>1, <1>2, <2>1, <2>2 DEF SettingsInv
<1>5. NewNote \in NoteSet /\ NewNote.pc = "new" /\ ~NewNote.active
  <2>1. (CHOOSE k \in Names : TRUE) \in Names
    BY NotificationsAssumption
  <2>2. 0 \in Times
    BY NotificationsAssumption DEF Times
  <2> QED
    BY <2>1, <2>2 DEF NewNote, NoteSet
<1>6. NotesTyped
  <2> HIDE DEF NewNote
  <2> QED
    BY <1>5, FreeTyped DEF Init, NotesTyped, Zero
<1>7. Consent
  <2>1. AgreedRows
    BY DEF Init, AgreedRows
  <2>2. \A r \in Asks : Willing(ask[r])
    BY <1>1, <1>2 DEF Willing
  <2>3. ASSUME NEW m \in Notes PROVE Wanted(m)
    <3>1. note[m].pc = "new" /\ ~note[m].active
      BY <1>5 DEF Init
    <3> QED
      BY <3>1 DEF Wanted
  <2> QED
    BY <2>1, <2>2, <2>3 DEF Consent
<1>8. ASSUME NEW m \in Notes PROVE Counted(m) /\ Unsent(m)
  <2>1. Pushing(m) = {} /\ Saving(m) = {} /\ Busy(m) = {}
    BY FreeTyped DEF Init, Pushing, Saving, Busy
  <2>2. Cardinality(Pushing(m)) = 0 /\ Cardinality(Saving(m)) = 0
    BY <2>1, FS_EmptySet
  <2>3. Copies(m) = 0
    BY DEF Init, Copies, Queues, Zero
  <2>4. /\ pushes[m] = 0 /\ records[m] = 0 /\ again[m] = 0 /\ dead[m] = 0
        /\ m \notin schedule
    BY DEF Init, Zero
  <2> QED
    BY <2>1, <2>2, <2>3, <2>4 DEF Counted, Scheduled, Unsent
<1> QED
  BY <1>4, <1>6, <1>7, <1>8 DEF NotesInv, Counting

\* Nothing of the settings moves: neither do what the requests know and hold.
LEMMA SettingsRest ==
  ASSUME SettingsInv, AgreedRows, \A r \in Asks : Willing(ask[r]), UNCHANGED <<settings, agreed>>
  PROVE  SettingsInv' /\ AgreedRows' /\ \A r \in Asks : Willing(ask[r])'
<1>1. UNCHANGED <<agr, names, switch, device, nextId, ask, agreed>>
  BY DEF settings
<1>2. RowsTyped'
  BY <1>1 DEF SettingsInv, RowsTyped
<1>3. \A r \in Asks : Fits(ask[r])' /\ Knows(ask[r])' /\ (Pending(r)' <=> Pending(r))
  BY <1>1 DEF SettingsInv, Fits, Knows, Holders, RowsOf, Pending
<1>4. SettingsInv'
  BY <1>1, <1>2, <1>3 DEF SettingsInv
<1> QED
  BY <1>1, <1>4 DEF AgreedRows, Willing

LEMMA NextInv == NotesInv /\ [Next]_vars => NotesInv'
<1> SUFFICES ASSUME NotesInv, [Next]_vars PROVE NotesInv'
  OBVIOUS
<1>1. /\ SettingsInv /\ NotesTyped /\ Counting /\ AgreedRows
      /\ (\A r \in Asks : Willing(ask[r])) /\ \A x \in Notes : Wanted(x)
  BY DEF NotesInv, Consent
<1>2. ASSUME UNCHANGED <<note, queue, schedule, work, pushes, records, again, dead>>,
             clock' \in Times, agreed \subseteq agreed'
      PROVE  NotesTyped' /\ Counting' /\ \A x \in Notes : Wanted(x)'
  <2>1. ASSUME NEW x \in Notes PROVE Counted(x)' /\ Unsent(x)' /\ Wanted(x)'
    <3>1. Copies(x)' = Copies(x) /\ Pushing(x)' = Pushing(x) /\ Saving(x)' = Saving(x)
          /\ Busy(x)' = Busy(x)
      BY <1>2 DEF Copies, Pushing, Saving, Busy
    <3> QED
      BY <1>1, <1>2, <3>1 DEF Counting, Counted, Scheduled, Unsent, Wanted
  <2> QED
    BY <1>1, <1>2, <2>1 DEF NotesTyped, Counting
<1>3. ASSUME UNCHANGED <<note, agreed>> PROVE \A x \in Notes : Wanted(x)'
  BY <1>1, <1>3 DEF Wanted
<1>4. CASE Settings
  <2>1. SettingsInv'
    BY <1>1, <1>4, SettingsStep DEF Settings
  <2>2. AgreedRows' /\ (\A r \in Asks : Willing(ask[r])') /\ agreed \subseteq agreed'
    BY <1>1, <1>4, ConsentStep
  <2>3. NotesTyped' /\ Counting' /\ \A x \in Notes : Wanted(x)'
    BY <1>1, <1>2, <1>4, <2>2 DEF Settings, pipeline, NotesTyped
  <2> QED
    BY <2>1, <2>2, <2>3 DEF NotesInv, Consent
<1>5. ASSUME NotesTyped', Counting', \A x \in Notes : Wanted(x)', UNCHANGED <<settings, agreed>>
      PROVE  NotesInv'
  BY <1>1, <1>5, SettingsRest DEF NotesInv, Consent
<1>6. CASE Tick \/ UNCHANGED vars
  <2>1. /\ UNCHANGED <<settings, note, queue, schedule, work, pushes, records, again, dead, agreed>>
        /\ clock' \in Times
    BY <1>1, <1>6, NotificationsAssumption
       DEF Tick, vars, pipeline, notesHistory, NotesTyped, Times
  <2> QED
    BY <1>1, <1>2, <1>5, <2>1 DEF NotesTyped
<1>7. CASE Crash
  BY <1>1, <1>3, <1>5, <1>7, CrashStep DEF Crash
<1>9. ASSUME NEW m \in Notes, Send(m) \/ ReadSwitch(m) \/ ReadAgreementOf(m) \/ Publish(m)
      PROVE  NotesInv'
  BY <1>5, <1>9, NoteStep
<1>10. ASSUME NEW c \in Slots, NEW q \in Queues, NEW m \in Notes, Take(c, q, m) PROVE NotesInv'
  <2>1. UNCHANGED <<settings, note, agreed>>
    BY <1>10 DEF Take, notesHistory
  <2> QED
    BY <1>1, <1>3, <1>5, <1>10, <2>1, TakeStep
<1>11. ASSUME NEW c \in Slots,
              Forward(c) \/ ReadNight(c) \/ Push(c) \/ SaveRequest(c) \/ Ack(c) \/ Reject(c)
       PROVE  NotesInv'
  <2>1. UNCHANGED <<settings, note, agreed>>
    BY <1>11 DEF Forward, ReadNight, Push, SaveRequest, Ack, Reject, notesHistory
  <2> QED
    BY <1>1, <1>3, <1>5, <1>11, <2>1, HandleStep
<1> QED
  BY <1>4, <1>6, <1>7, <1>9, <1>10, <1>11 DEF Next, Handle

\* What the requests know, who has agreed and where the copies are, always.
THEOREM NotesHold == Spec => []NotesInv
<1> QED
  BY InitInv, NextInv, PTL DEF Spec

\* Routing, the schedule and the queues do not multiply a notification, and
\* what waits in the schedule is not pushed as well; the history has every push
\* that was not rejected or repeated.
THEOREM PushesAccountedAlways == Spec => []PushesAccounted
<1>1. NotesInv => PushesAccounted
  <2> SUFFICES ASSUME NotesInv, NEW m \in Notes
               PROVE  /\ pushes[m] + Scheduled(m) <= 1 + again[m] /\ records[m] <= pushes[m]
                      /\ pushes[m] - records[m] <= dead[m] + again[m] + Cardinality(Handling(m))
    BY DEF PushesAccounted
  <2>1. Counted(m)
    BY DEF NotesInv, Counting
  <2>2. Saving(m) \subseteq Handling(m) /\ IsFiniteSet(Handling(m))
    BY NotificationsAssumption, FS_Subset DEF Saving, Handling
  <2>3. Cardinality(Saving(m)) <= Cardinality(Handling(m)) /\ Cardinality(Handling(m)) \in Nat
    BY <2>2, FS_Subset, FS_CardinalityType
  <2> QED
    BY <2>1, <2>3, Numbers DEF Counted, Scheduled, NotesInv
<1> QED
  BY <1>1, NotesHold, PTL

\* An ad reaches only users who once agreed to ads and to this one.
THEOREM AdsOnlyConsented == Spec => []AdsConsented
<1>1. NotesInv => AdsConsented
  <2> SUFFICES ASSUME NotesInv PROVE AdsConsented
    OBVIOUS
  <2>1. RowsTyped /\ ask \in [Asks -> AskSet] /\ NotesTyped
    BY DEF NotesInv, SettingsInv
  <2>2. \A t \in DOMAIN agr : agr[t].status \in BOOLEAN /\ agr[t].modal \in BOOLEAN
    BY <2>1 DEF RowsTyped, AgrRow
  <2>3. \A r \in Asks : ask[r].todo \subseteq Types \cup Names /\ ask[r].met \in BOOLEAN
    BY <2>1 DEF AskSet
  <2>4. SettingsTypeOK
    BY <2>1, <2>2, <2>3 DEF SettingsTypeOK, RowsTyped
  <2>5. \A m \in Notes :
          /\ note[m].pc \in {"new", "switch", "agreement", "publish", "sent", "refused"}
          /\ note[m].name \in Names /\ note[m].at \in Times
    BY <2>1 DEF NotesTyped, NoteSet
  <2>6. \A c \in Slots : /\ work[c].pc \in {"free", "forward", "night", "push", "save", "ack"}
                         /\ work[c].from \in Queues /\ work[c].m \in Notes
    BY <2>1 DEF NotesTyped, WorkSet
  <2>7. TypeOK
    BY <2>1, <2>4, <2>5, <2>6 DEF TypeOK, NotesTyped
  <2>8. ASSUME NEW m \in Notes, pushes[m] > 0, Kind[note[m].name] = "MARKETING"
        PROVE  {"MARKETING", note[m].name} \subseteq agreed
    BY <2>8 DEF NotesInv, Consent, Wanted, Counting, Unsent
  <2> QED
    BY <2>7, <2>8 DEF AdsConsented
<1> QED
  BY <1>1, NotesHold, PTL

\* A decision of the user stays until his next one, but for requests that were
\* open at the same time and initializations that found rows missing.
THEOREM DecisionsKept == Spec => SettingsKept
<1> DEFINE AgrKept ==
      \A t \in DOMAIN agr : agr'[t].status # agr[t].status =>
        \E r \in Asks : /\ ask[r].pc \in {"write", "upsert"} /\ ask'[r] # ask[r]
                        /\ (ask[r].op = "decide" /\ ask[r].pc = "write" /\ ask[r].type = t)
                           \/ Excused(r)
           SwitchKept ==
      \A n \in DOMAIN switch : switch'[n] # switch[n] =>
        \E r \in Asks : /\ ask[r].pc \in {"save", "defaults"} /\ ask'[r] # ask[r]
                        /\ ask[r].pc = "save" \/ Excused(r)
<1>1. NotesInv /\ [Next]_vars => [AgrKept /\ SwitchKept]_rows
  <2> SUFFICES ASSUME NotesInv, [Next]_vars, rows' # rows PROVE AgrKept /\ SwitchKept
    OBVIOUS
  <2>1. SettingsInv /\ ask \in [Asks -> AskSet] /\ \A r \in Asks : Fits(ask[r]) /\ Knows(ask[r])
    BY DEF NotesInv, SettingsInv
  <2>2. SettingsNext
    <3>1. ~UNCHANGED settings
      BY DEF settings, rows
    <3> QED
      BY <3>1 DEF Next, Settings, Tick, Crash, Send, ReadSwitch, ReadAgreementOf, Publish,
           Handle, Take, Forward, ReadNight, Push, SaveRequest, Ack, Reject, vars
  <2>3. CASE UNCHANGED <<agr, switch>>
    BY <2>3
  <2>4. ASSUME NEW r \in Asks, NEW pc \in {"done", "failed"}, Pending(r), End(r, pc)
        PROVE  ask'[r] # ask[r]
    <3>1. ask'[r].pc = pc
      BY <2>1, <2>4 DEF End, NoAsk
    <3> QED
      BY <2>4, <3>1 DEF Pending
  <2>5. ASSUME NEW r \in Asks, WriteAgreement(r) PROVE AgrKept /\ SwitchKept
    <3>1. PICK v : v = IF ask[r].op = "modal" THEN Agreement(ask[r].row.status, ask[r].on)
                       ELSE Agreement(ask[r].on, FALSE)
      OBVIOUS
    <3>2. /\ ask[r].pc = "write" /\ End(r, "done") /\ UNCHANGED switch
          /\ agr' = With(agr, ask[r].type, v)
      BY <2>5, <3>1 DEF WriteAgreement
    <3>3. ask'[r] # ask[r]
      BY <2>4, <3>2 DEF Pending
    <3>4. \A t \in DOMAIN agr \ {ask[r].type} : agr'[t] = agr[t]
      BY <3>2 DEF With
    <3>5. ask[r].type \in DOMAIN agr => agr'[ask[r].type] = v
      BY <3>2 DEF With
    <3>6. ask[r].op \in {"decide", "modal"}
      BY <2>1, <3>2 DEF Fits
    <3>7. ask[r].op = "modal" /\ ~ask[r].met => agr[ask[r].type].status = v.status
      BY <2>1, <3>1, <3>2 DEF Knows, Agreement
    <3> QED
      BY <3>2, <3>3, <3>4, <3>5, <3>6, <3>7 DEF Excused
  <2>6. ASSUME NEW r \in Asks, NEW t \in Types, UpsertAgreement(r, t) PROVE AgrKept /\ SwitchKept
    <3>1. ask[r].pc = "upsert" /\ t \in ask[r].todo /\ UNCHANGED switch
      BY <2>6 DEF UpsertAgreement
    <3>2. ask[r].lacking # {}
      BY <2>1, <3>1 DEF Fits
    <3>3. ask'[r] # ask[r]
      <4>1. CASE End(r, "done")
        BY <2>4, <3>1, <4>1 DEF Pending
      <4>2. CASE ask' = [ask EXCEPT ![r].todo = ask[r].todo \ {t}]
        <5>1. ask'[r].todo = ask[r].todo \ {t}
          BY <2>1, <4>2 DEF AskSet
        <5> QED
          BY <3>1, <5>1
      <4>3. CASE \E pc : ask' = [ask EXCEPT ![r].todo = {}, ![r].pc = pc]
        <5>1. ask'[r].todo = {}
          BY <2>1, <4>3 DEF AskSet
        <5> QED
          BY <3>1, <5>1
      <4> QED
        BY <2>6, <4>1, <4>2, <4>3 DEF UpsertAgreement
    <3> QED
      BY <3>1, <3>2, <3>3 DEF Excused
  <2>7. ASSUME NEW r \in Asks, SaveSwitch(r) PROVE AgrKept /\ SwitchKept
    <3>1. ask[r].pc = "save" /\ UNCHANGED agr /\ End(r, "done")
      BY <2>7 DEF SaveSwitch
    <3>2. ask'[r] # ask[r]
      BY <2>4, <3>1 DEF Pending
    <3> QED
      BY <3>1, <3>2
  <2>8. ASSUME NEW r \in Asks, NEW n \in Names, UpsertSwitch(r, n) PROVE AgrKept /\ SwitchKept
    <3>1. PICK b, c : /\ ask[r].pc = "defaults" /\ n \in ask[r].todo /\ UNCHANGED agr
                      /\ ask' = [ask EXCEPT ![r].todo = ask[r].todo \ {n}, ![r].pc = b,
                                            ![r].lacking = c]
      BY <2>8 DEF UpsertSwitch
    <3>2. ask[r].lacking # {}
      BY <2>1, <3>1 DEF Fits
    <3>3. ask'[r].todo = ask[r].todo \ {n}
      BY <2>1, <3>1 DEF AskSet
    <3>4. ask'[r] # ask[r]
      BY <3>1, <3>3
    <3> QED
      BY <3>1, <3>2, <3>4 DEF Excused
  <2>9. \/ UNCHANGED <<agr, switch>>
        \/ \E r \in Asks : \/ WriteAgreement(r) \/ SaveSwitch(r)
                           \/ \E t \in Types : UpsertAgreement(r, t)
                           \/ \E n \in Names : UpsertSwitch(r, n)
    BY <2>2 DEF SettingsNext, CreateNotification, Request, Abort, FindAgreement, CountAgreements,
       ReadAgreement, CountSwitches, FindSwitch, FindTokens, ClearTokens, CreateDevice,
       CheckDevice, FindMine, Activate, DeleteDevice, rows
  <2> QED
    BY <2>3, <2>5, <2>6, <2>7, <2>8, <2>9
<1> QED
  BY <1>1, NotesHold, PTL DEF Spec, SettingsKept

\* A registration that meets no other request leaves the token with its owner
\* and nobody else.
THEOREM DevicesMove == Spec => DeviceMoves
<1> DEFINE Alone ==
      \A r \in Asks :
        LET q == ask[r] IN
        q.pc = "create" /\ ~q.met /\ ask'[r].pc = "done" =>
          {u \in Users : <<u, q.token>> \in DOMAIN device'} = {q.who}
<1>1. NotesInv /\ [Next]_vars => [Alone]_settings
  <2> SUFFICES ASSUME NotesInv, [Next]_vars, settings' # settings,
                      NEW r \in Asks, ask[r].pc = "create", ~ask[r].met, ask'[r].pc = "done"
               PROVE  {u \in Users : <<u, ask[r].token>> \in DOMAIN device'} = {ask[r].who}
    OBVIOUS
  <2>1. SettingsInv /\ ask \in [Asks -> AskSet] /\ Fits(ask[r]) /\ Knows(ask[r])
    BY DEF NotesInv, SettingsInv
  <2>2. SettingsNext
    BY DEF Next, Settings, Tick, Crash, Send, ReadSwitch, ReadAgreementOf, Publish,
           Handle, Take, Forward, ReadNight, Push, SaveRequest, Ack, Reject, vars
  <2>3. \A p \in Asks \ {r} : ~Pending(p)
    BY <2>1 DEF SettingsInv, Pending
  <2>4. ASSUME NEW p \in Asks, Request(p) PROVE FALSE
    <3>1. p # r
      BY <2>4 DEF Request
    <3>2. ask'[r] = [ask[r] EXCEPT !.met = TRUE]
      BY <2>4, <3>1 DEF Request, Pending
    <3>3. ask'[r].pc = "create"
      BY <2>1, <3>2 DEF AskSet
    <3> QED
      BY <3>3
  <2>5. ~Abort(r)
    <3>1. Abort(r) => ask'[r].pc = "failed"
      BY <2>1 DEF Abort, End, NoAsk
    <3> QED
      BY <3>1
  <2>6. CreateDevice(r)
    <3>1. ~CreateNotification
      BY DEF CreateNotification
    <3>2. ASSUME NEW p \in Asks,
                 \/ Abort(p)
                 \/ FindAgreement(p) \/ CountAgreements(p) \/ ReadAgreement(p) \/ WriteAgreement(p)
                 \/ (\E t \in Types : UpsertAgreement(p, t))
                 \/ CountSwitches(p) \/ (\E n \in Names : UpsertSwitch(p, n))
                 \/ FindSwitch(p) \/ SaveSwitch(p)
                 \/ FindTokens(p) \/ ClearTokens(p) \/ CreateDevice(p)
                 \/ CheckDevice(p) \/ FindMine(p) \/ Activate(p) \/ DeleteDevice(p)
          PROVE  CreateDevice(r)
      <4>1. Pending(p)
        BY <3>2 DEF Abort, FindAgreement, CountAgreements, ReadAgreement, WriteAgreement,
             UpsertAgreement, CountSwitches, UpsertSwitch, FindSwitch, SaveSwitch, FindTokens,
             ClearTokens, CreateDevice, CheckDevice, FindMine, Activate, DeleteDevice, Pending
      <4>2. p = r
        BY <2>3, <4>1
      <4> QED
        BY <2>5, <3>2, <4>2 DEF FindAgreement, CountAgreements, ReadAgreement, WriteAgreement,
             UpsertAgreement, CountSwitches, UpsertSwitch, FindSwitch, SaveSwitch, FindTokens,
             ClearTokens, CheckDevice, FindMine, Activate, DeleteDevice
    <3> QED
      BY <2>2, <2>4, <3>1, <3>2 DEF SettingsNext
  <2>7. PICK d : d = <<ask[r].who, ask[r].token>>
    OBVIOUS
  <2>8. Holders(ask[r].token) = {} /\ ask[r].who \in Users
    BY <2>1 DEF Fits, Knows, Moving
  <2>9. d \notin DOMAIN device
    BY <2>7, <2>8 DEF Holders
  <2>10. DOMAIN device' = DOMAIN device \cup {d}
    <3>1. device' = With(device, d, Device(nextId, ask[r].on))
      BY <2>6, <2>7, <2>9 DEF CreateDevice
    <3> QED
      BY <3>1 DEF With
  <2> QED
    BY <2>7, <2>8, <2>10 DEF Holders
<1> QED
  BY <1>1, NotesHold, PTL DEF Spec, DeviceMoves
=============================================================================
