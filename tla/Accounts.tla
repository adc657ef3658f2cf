------------------------------ MODULE Accounts ------------------------------
(***************************************************************************)
(* Accounts and sessions (auth.service.ts, auth.controller.ts and the      *)
(* chain of commands that guards every request in production).  A person   *)
(* is found by the sid and the uid of the single sign-on; no index makes   *)
(* either unique, and a login or a registration from the OneApp is a       *)
(* sequence of statements of its own.  A session is two tokens in cookies, *)
(* which the server signs, does not keep and renews on use.  The callback  *)
(* and a refresh hand their tokens to the client as well, which sends them *)
(* in a header or a body, with any cookies or none, as long as they live.  *)
(***************************************************************************)
EXTENDS Integers, Sequences, FiniteSets, FiniteSetsExt

CONSTANTS Persons, NoOne,
          Devices,    \* browsers
          Visits,     \* logins and registrations (bounds their number)
          Asks,       \* requests in flight at the same time
          AccessTtl, RefreshTtl,  \* jwtConfig.signOptions
          MaxTime, MaxFaults      \* bounds on the clock and on failing statements

ASSUME AccountsAssumption ==
  /\ NoOne \notin Persons
  /\ {AccessTtl, RefreshTtl, MaxTime, MaxFaults} \subseteq Nat
  /\ 0 < AccessTtl /\ AccessTtl < RefreshTtl

VARIABLES rows,    \* session_userprofile in the order of ids; none is ever deleted
          now, faults,
          visit,   \* logins and registrations under way
          jar,     \* the cookies of a device
         held,    \* tokens that clients have been handed, and keep
          asking,  \* requests that are handled and not yet answered
          split,   \* history: persons whose second row has a known cause
          sole,    \* history: no two requests of the device have overlapped
          used     \* history: when its session was last of use, or -1

histories == <<split, sole, used>>
vars == <<rows, now, faults, visit, jar, held, asking, histories>>

\* sid and uid stand for the person they are of; either may be missing.
RowOf(s, u) == [sid |-> s, uid |-> u]
RowType == [sid : Persons \cup {NoOne}, uid : Persons \cup {NoOne}]
RowsOf(p) == {i \in DOMAIN rows : p \in {rows[i].sid, rows[i].uid}}

\* findFirst over an index that is not unique: the lowest id, 0 for null.
First(S) == IF S = {} THEN 0 ELSE Min(S)
FindBySid(p) == First({i \in DOMAIN rows : rows[i].sid = p})

\* Mutant: where a uid is missing, Prisma leaves the condition out.
FindByUidUnset(p) == First(DOMAIN rows)

FindByUid(p) == First({i \in DOMAIN rows : rows[i].uid = p})

Token(p, ttl) == [who |-> p, exp |-> now + ttl]
NoToken == [who |-> NoOne, exp |-> 0]
Alive(t) == t.who # NoOne /\ now < t.exp

\* getCookieWithAccessToken and getCookieWithRefreshToken.
Fresh(p) == [access |-> Token(p, AccessTtl), refresh |-> Token(p, RefreshTtl)]
NoJar == [access |-> NoToken, refresh |-> NoToken]
TokensOf(j) == {j.access, j.refresh}

\* row: the row found; own, other: what the callback found by uid and by sid;
\* met is history: another visit of the person was under way.
NoVisit == [pc |-> "idle", who |-> NoOne, dev |-> NoOne, app |-> FALSE, row |-> 0,
            own |-> 0, other |-> 0, jar |-> NoJar, met |-> FALSE]
Busy(v) == visit[v].pc \notin {"idle", "done"}
NotAsked == [pc |-> "idle", dev |-> NoOne, jar |-> NoJar, set |-> NoJar,
             over |-> FALSE, handed |-> FALSE, at |-> 0]

\* An answer waiting to arrive: what was asked, and what the response sets.
Waiting(d) == \E a \in Asks : asking[a].pc = "answered" /\ asking[a].dev = d
Visiting(d) == \E v \in Visits : Busy(v) /\ visit[v].dev = d

\* Tokens are well formed, and every row is of one person.
TypeOK ==
  /\ rows \in Seq(RowType) /\ now \in 0..MaxTime
  /\ \A i \in DOMAIN rows : Cardinality({rows[i].sid, rows[i].uid} \ {NoOne}) = 1
  /\ \A v \in Visits :
       /\ visit[v].pc \in {"idle", "sid", "uid", "write", "provide", "own", "other",
                           "fixSid", "fixUid", "answer", "known", "again", "register", "done"}
       /\ {visit[v].row, visit[v].own, visit[v].other} \subseteq 0..Len(rows)
  /\ \A d \in Devices :
       /\ jar[d].access.who = jar[d].refresh.who
       /\ jar[d].access.exp <= now + AccessTtl /\ jar[d].refresh.exp <= now + RefreshTtl
       /\ used[d] \in -1..now
  /\ \A t \in held : t.who \in Persons /\ t.exp \in 0..now + RefreshTtl

\* A person has no row, one of the time before uids, one the OneApp has made,
\* or a complete one.
Init ==
  /\ rows \in UNION {[1..n -> RowType] : n \in 0..Cardinality(Persons)}
  /\ \A i \in DOMAIN rows : Cardinality({rows[i].sid, rows[i].uid} \ {NoOne}) = 1
  /\ \A p \in Persons : Cardinality(RowsOf(p)) <= 1
  /\ now = 0 /\ faults = 0
  /\ visit = [v \in Visits |-> NoVisit]
  /\ jar = [d \in Devices |-> NoJar] /\ held = {}
  /\ asking = [a \in Asks |-> NotAsked]
  /\ split = {} /\ sole = [d \in Devices |-> TRUE] /\ used = [d \in Devices |-> -1]

Tick == now < MaxTime /\ now' = now + 1 /\ UNCHANGED <<rows, faults, visit, jar, held, asking, histories>>

-----------------------------------------------------------------------------
Sessions == UNCHANGED <<now, faults, held, asking, sole, used>>
To(v, pc) == visit' = [visit EXCEPT ![v].pc = pc]

\* loginCallback with what the single sign-on says of the person, or
\* registerOneApp with two tokens of one uid.
Visit(v, p, d, app) ==
  LET met == \E w \in Visits : Busy(w) /\ visit[w].who = p IN
  /\ visit[v].pc = "idle"
  /\ visit' = [w \in Visits |->
       IF w = v THEN [NoVisit EXCEPT !.pc = IF app THEN "known" ELSE "sid", !.who = p,
                                     !.dev = IF app THEN NoOne ELSE d, !.app = app, !.met = met]
       ELSE [visit[w] EXCEPT !.met = @ \/ (Busy(w) /\ visit[w].who = p)]]
  /\ sole' = IF ~app /\ (Waiting(d) \/ Visiting(d)) THEN [sole EXCEPT ![d] = FALSE] ELSE sole
  /\ UNCHANGED <<rows, now, faults, jar, held, asking, split, used>>

\* ssoLogin: by sid, then by uid; the tokens are signed before anything is written.
LoginBySid(v) ==
  LET p == visit[v].who  i == FindBySid(p) IN
  /\ visit[v].pc = "sid"
  /\ visit' = [visit EXCEPT ![v] = [@ EXCEPT !.row = i, !.pc = IF i = 0 THEN "uid" ELSE "write",
                                             !.jar = IF i = 0 THEN NoJar ELSE Fresh(p)]]
  /\ Sessions /\ UNCHANGED <<rows, jar, split>>

LoginByUid(v) ==
  LET p == visit[v].who IN
  /\ visit[v].pc = "uid"
  /\ visit' = [visit EXCEPT ![v] = [@ EXCEPT !.row = FindByUid(p), !.pc = "write", !.jar = Fresh(p)]]
  /\ Sessions /\ UNCHANGED <<rows, jar, split>>

\* The cause of a second row, if it has one: an overlap, or a registration of
\* somebody whose row has no uid.
Explained(v) == \/ visit[v].met
                \/ visit[v].app /\ \A i \in RowsOf(visit[v].who) : rows[i].uid = NoOne
Create(v, row) ==
  /\ rows' = Append(rows, row)
  /\ split' = IF RowsOf(visit[v].who) # {} /\ Explained(v) THEN split \cup {visit[v].who} ELSE split

\* createUser, or updateUser, which leaves sid and uid alone.
SaveUser(v) ==
  LET p == visit[v].who IN
  /\ visit[v].pc = "write"
  /\ IF visit[v].row = 0 THEN Create(v, RowOf(p, p)) ELSE UNCHANGED <<rows, split>>
  /\ To(v, "provide")
  /\ Sessions /\ UNCHANGED jar

\* Taken lectures, notification switches and agreements of the user.
Provide(v) ==
  /\ visit[v].pc = "provide"
  /\ To(v, "own")
  /\ Sessions /\ UNCHANGED <<rows, jar, split>>

\* The callback looks again, by uid and by sid, and fills in what is missing.
CallbackByUid(v) ==
  /\ visit[v].pc = "own"
  /\ visit' = [visit EXCEPT ![v] = [@ EXCEPT !.own = FindByUid(visit[v].who), !.pc = "other"]]
  /\ Sessions /\ UNCHANGED <<rows, jar, split>>

CallbackBySid(v) ==
  /\ visit[v].pc = "other"
  /\ visit' = [visit EXCEPT ![v] = [@ EXCEPT !.other = FindBySid(visit[v].who), !.pc = "fixSid"]]
  /\ Sessions /\ UNCHANGED <<rows, jar, split>>

\* Mutant: only rows found by sid are completed.
NeedsSidNever(v) == FALSE

NeedsSid(v) == visit[v].own # 0 /\ rows[visit[v].own].sid = NoOne
NeedsUid(v) == visit[v].other # 0 /\ rows[visit[v].other].uid = NoOne

AddSid(v) ==
  /\ visit[v].pc = "fixSid"
  /\ rows' = IF NeedsSid(v) THEN [rows EXCEPT ![visit[v].own].sid = visit[v].who] ELSE rows
  /\ To(v, "fixUid")
  /\ Sessions /\ UNCHANGED <<jar, split>>

AddUid(v) ==
  /\ visit[v].pc = "fixUid"
  /\ rows' = IF NeedsUid(v) THEN [rows EXCEPT ![visit[v].other].uid = visit[v].who] ELSE rows
  /\ To(v, "answer")
  /\ Sessions /\ UNCHANGED <<jar, split>>

\* The browser takes the cookies, and the page the tokens of the redirect.
Answer(v) ==
  LET d == visit[v].dev IN
  /\ visit[v].pc = "answer"
  /\ jar' = [jar EXCEPT ![d] = visit[v].jar]
  /\ held' = held \cup TokensOf(visit[v].jar)
  /\ visit' = [visit EXCEPT ![v] = [NoVisit EXCEPT !.pc = "done"]]
  /\ sole' = [sole EXCEPT ![d] = ~Waiting(d) /\ \A w \in Visits \ {v} : ~(Busy(w) /\ visit[w].dev = d)]
  /\ used' = [used EXCEPT ![d] = visit[v].jar.access.exp - AccessTtl]
  /\ UNCHANGED <<rows, now, faults, asking, split>>

\* registerOneApp is done when the uid is known; CreateUserFromSsoInfo looks
\* again and creates a row without sid.
RegisterKnown(v) ==
  /\ visit[v].pc = "known"
  /\ To(v, IF FindByUid(visit[v].who) # 0 THEN "done" ELSE "again")
  /\ Sessions /\ UNCHANGED <<rows, jar, split>>

RegisterAgain(v) ==
  /\ visit[v].pc = "again"
  /\ visit' = [visit EXCEPT ![v] = [@ EXCEPT !.row = FindByUid(visit[v].who), !.pc = "register"]]
  /\ Sessions /\ UNCHANGED <<rows, jar, split>>

Register(v) ==
  /\ visit[v].pc = "register"
  /\ IF visit[v].row = 0 THEN Create(v, RowOf(NoOne, visit[v].who)) ELSE UNCHANGED <<rows, split>>
  /\ To(v, "done")
  /\ Sessions /\ UNCHANGED jar

\* A statement throws: the visit ends with what it has written.
VisitFails(v) ==
  /\ faults < MaxFaults /\ faults' = faults + 1
  /\ Busy(v)
  /\ visit' = [visit EXCEPT ![v] = [NoVisit EXCEPT !.pc = "done"]]
  /\ UNCHANGED <<rows, now, jar, held, asking, histories>>

-----------------------------------------------------------------------------
\* What a request carries: cookies; a bearer token, of any session the client
\* has been handed or of the OneApp; a refresh, any such token in its body; a
\* key of the synchronisation or of an administrator; and for reviews, whether
\* the lecture can still be dropped.
Routes == {"user", "review", "sync", "admin", "refresh", "logout"}
Public == {"refresh", "logout"}
Bearers == {[kind |-> "none", who |-> NoOne, token |-> NoToken]}
             \cup [kind : {"session"}, who : {NoOne}, token : held]
             \cup [kind : {"oneapp"}, who : Persons, token : {NoToken}]
KeysOf(route) == CASE route = "sync" -> {"none", "api"}
                   [] route = "admin" -> {"none", "admin", "wrong"}
                   [] OTHER -> {"none"}

\* AuthResult; set is what the response does to the cookies.
NoResult(x) == [public |-> FALSE, authn |-> FALSE, authz |-> FALSE, user |-> 0, set |-> x.jar]
Authorized(r) == [r EXCEPT !.authn = TRUE, !.authz = TRUE]
As(r, i) == IF i = 0 THEN r ELSE [Authorized(r) EXCEPT !.user = i]

\* The chain of getProdGuardConfig.  JwtHeaderCommand reads its refresh token
\* by a name no header has, since Node writes them in lower case.
JwtHeader(r, x) ==
  IF x.bearer.kind = "session" /\ Alive(x.bearer.token) THEN As(r, FindBySid(x.bearer.token.who)) ELSE r

\* Mutant: only the access token is renewed.
JwtCookieAccessOnly(r, x) ==
  LET j == x.jar  i == FindBySid(j.refresh.who) IN
  IF Alive(j.access) THEN As(r, FindBySid(j.access.who))
  ELSE IF Alive(j.refresh) /\ i # 0
    THEN [As(r, i) EXCEPT !.set = [j EXCEPT !.access = Token(j.refresh.who, AccessTtl)]]
    ELSE r

JwtCookie(r, x) ==
  LET j == x.jar  i == FindBySid(j.refresh.who) IN
  IF Alive(j.access) THEN As(r, FindBySid(j.access.who))
  ELSE IF Alive(j.refresh) /\ i # 0 THEN [As(r, i) EXCEPT !.set = Fresh(j.refresh.who)]
  ELSE r

IsPublic(r, x) == [r EXCEPT !.public = x.route \in Public]
SyncApiKey(r, x) == IF x.route = "sync" /\ x.key = "api" THEN Authorized(r) ELSE r
IsReviewProhibited(r, x) == IF x.route = "review" /\ x.early THEN [r EXCEPT !.authz = FALSE] ELSE r
IsAdmin(r, x) == CASE x.route = "admin" /\ x.key = "admin" -> Authorized(r)
                   [] x.route = "admin" /\ x.key = "wrong" -> [r EXCEPT !.authz = FALSE]
                   [] OTHER -> r
OneAppHeader(r, x) == IF x.bearer.kind = "oneapp" THEN As(r, FindByUid(x.bearer.who)) ELSE r

Chain(x) ==
  OneAppHeader(IsAdmin(IsReviewProhibited(SyncApiKey(IsPublic(
    JwtCookie(JwtHeader(NoResult(x), x), x), x), x), x), x), x)

\* handleException.
Status(r) == CASE r.public -> 200 [] ~r.public /\ ~r.authn -> 401
               [] ~r.public /\ r.authn /\ ~r.authz -> 403 [] OTHER -> 200

\* tokenRefresh with the token of the body, and logout: what they do to the
\* cookies after what the chain has done to them.
Refreshes(x) == x.route = "refresh" /\ Alive(x.body) /\ FindBySid(x.body.who) # 0
Leaves(r, x) == x.route = "logout" /\ r.user # 0
Replied(r, x) ==
  CASE Refreshes(x) -> [r EXCEPT !.set = Fresh(x.body.who)]
    [] Leaves(r, x) -> [r EXCEPT !.set = NoJar]
    [] OTHER -> r

Queries(d) == UNION {[jar : {jar[d]}, route : {route}, bearer : Bearers, key : KeysOf(route),
                      body : IF route = "refresh" THEN {NoToken} \cup held ELSE {NoToken},
                      early : IF route = "review" THEN BOOLEAN ELSE {FALSE}] : route \in Routes}
Result(x) == Replied(Chain(x), x)
\* Whether the response sets cookies.
Sets(r, x) == r.set # x.jar \/ Refreshes(x) \/ Leaves(r, x)

\* A request is handled; its answer is on the way.
Ask(a, d, x) ==
  LET r == Result(x) IN
  /\ asking[a].pc = "idle"
  /\ asking' = [asking EXCEPT ![a] = [pc |-> "answered", dev |-> d, jar |-> x.jar, set |-> r.set,
                                      over |-> Sets(r, x), handed |-> Refreshes(x), at |-> now]]
  /\ sole' = IF Waiting(d) \/ Visiting(d) THEN [sole EXCEPT ![d] = FALSE] ELSE sole
  /\ UNCHANGED <<rows, now, faults, visit, jar, held, split, used>>

\* The response arrives, in any order with others; cookies it sets replace
\* what other responses have set meanwhile.  A refresh answers with its tokens.
Receive(a) ==
  LET r == asking[a]  d == r.dev IN
  /\ r.pc = "answered"
  /\ asking' = [asking EXCEPT ![a] = NotAsked]
  /\ jar' = IF r.over THEN [jar EXCEPT ![d] = r.set] ELSE jar
  /\ held' = IF r.handed THEN held \cup TokensOf(r.set) ELSE held
  /\ used' = [used EXCEPT ![d] = IF r.set = NoJar THEN -1
                                 ELSE IF r.over \/ r.at < r.jar.refresh.exp THEN r.at ELSE @]
  /\ UNCHANGED <<rows, now, faults, visit, split, sole>>

VisitSteps == \E v \in Visits :
  \/ \E p \in Persons, d \in Devices, app \in BOOLEAN : Visit(v, p, d, app)
  \/ LoginBySid(v) \/ LoginByUid(v) \/ SaveUser(v) \/ Provide(v)
  \/ CallbackByUid(v) \/ CallbackBySid(v) \/ AddSid(v) \/ AddUid(v) \/ Answer(v)
  \/ RegisterKnown(v) \/ RegisterAgain(v) \/ Register(v) \/ VisitFails(v)

RequestSteps == \E a \in Asks :
  \/ Receive(a)
  \/ \E d \in Devices : \E x \in Queries(d) : Ask(a, d, x)

Next == Tick \/ VisitSteps \/ RequestSteps

Spec == Init /\ [][Next]_vars

-----------------------------------------------------------------------------
\* A person has one account: a second row is made only while visits of the
\* person overlap, or by the OneApp for a row that has no uid.  Whoever holds a
\* session, in cookies or in tokens, has a row that its sid finds, and it is
\* complete.
HasSession(p) == \/ \E d \in Devices : jar[d].refresh.who = p
                 \/ \E a \in Asks : asking[a].pc = "answered" /\ asking[a].set.refresh.who = p
                 \/ \E t \in held : t.who = p
AccountsHold ==
  /\ TypeOK
  /\ \A p \in Persons :
       /\ Cardinality(RowsOf(p)) > 1 => p \in split
       /\ HasSession(p) => FindBySid(p) # 0
       /\ HasSession(p) /\ p \notin split => \A i \in RowsOf(p) : rows[i] = RowOf(p, p)

\* Whatever request comes next: a session of cookies last of use less than
\* RefreshTtl - AccessTtl ago goes on, and a logout leaves nothing but the
\* tokens that the client keeps, if the requests of the device do not overlap;
\* such a token lets its person in, and is renewed, until it expires; whoever is
\* let in acts on a row of the person of a living token, the cookies' first; a
\* handler that needs a user has one; reviews wait for the deadline (unless a
\* token of the OneApp, checked last, comes along).
Served(d, x) ==
  LET r == Result(x)  ok == Status(r) = 200  mine == x.bearer.kind # "oneapp"
      one == IF Alive(x.jar.refresh) THEN x.jar.refresh ELSE x.bearer.token
  IN
  /\ sole[d] /\ used[d] # -1 /\ now < used[d] + RefreshTtl - AccessTtl => r.user # 0
  /\ sole[d] /\ used[d] = -1 /\ mine /\ r.user # 0 => x.bearer.token \in held
  /\ Alive(x.bearer.token) => r.user # 0
  /\ Alive(x.body) => TokensOf(r.set) = TokensOf(Fresh(x.body.who))
  /\ r.user # 0 => \/ Alive(one) /\ rows[r.user].sid = one.who
                   \/ ~mine /\ rows[r.user].uid = x.bearer.who
  /\ ~mine /\ FindByUid(x.bearer.who) # 0 => rows[r.user].uid = x.bearer.who
  /\ ok /\ x.route \in {"user", "review"} => r.user # 0
  /\ x.route = "review" /\ x.early /\ mine => ~ok
SessionsHold == \A d \in Devices : \A x \in Queries(d) : Served(d, x)
=============================================================================
