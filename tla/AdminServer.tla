----------------------------- MODULE AdminServer -----------------------------
(***************************************************************************)
(* The admin UI server: the session store, the sign-in, and the handlers   *)
(* of pages, mutations and the logout, each request on a task of its own.  *)
(*                                                                         *)
(* The tasks run on the threads of the tokio runtime, so two tasks         *)
(* interleave at every await and at every acquisition of the lock of the   *)
(* session store; a read of the clock is a step too, because the store     *)
(* reads it before it takes the lock.  What lies between is one step.  A   *)
(* client that goes away makes the server drop the handler at an await.    *)
(***************************************************************************)
EXTENDS Integers, FiniteSets

CONSTANTS Tasks,         \* requests the server handles at a time
          Ids,           \* session ids, random and never drawn twice
          Users,
          Capabilities,  \* what an operator's ACLs may permit
          Ttl,           \* session_ttl
          None,
          MaxClock,      \* bound of the clock
          Served,        \* bound: the kinds of requests that arrive
          Outages        \* bound: the brokers may stop answering

ASSUME TimesAreNaturals == Ttl \in Nat /\ MaxClock \in Nat

ASSUME NoneIsNothing ==
    None \notin Ids \cup Capabilities \cup Users

VARIABLES clock,      \* Instant::now()
          up,         \* the brokers answer
          store,      \* SessionStore.sessions
          issued,     \* the record each id was inserted with (history)
          loggedOut,  \* the ids whose logout was answered (history)
          task,       \* the local variables of each handler
          answer      \* the response of this step, None if it has none

vars == <<clock, up, store, issued, loggedOut, task, answer>>

\* SessionRecord: the token is the session's own, so its id stands for it.
Record == [user: Users, caps: SUBSET Capabilities, token: Ids, expires: Nat]

\* A record that create_record has not completed.
Draft == [user: Users, caps: SUBSET Capabilities, token: {None}, expires: {0}]

Kinds == {"overview", "page", "mutation", "logout", "login"}

ASSUME BoundsAreSane == Served \subseteq Kinds /\ Outages \in BOOLEAN

\* Where a handler of a sign-in stands.
SigningIn == {"connect", "probe", "acls", "stamp", "insert"}

\* The handler of one request.
Locals ==
    [pc: SigningIn \cup {"idle", "clock", "clone", "drop", "body", "broker", "remove"},
     kind: Kinds,
     sid: Ids \cup {None},                    \* the cookie, or the id of a new session
     cap: Capabilities \cup {None},           \* the capability the route asks for
     user: Users \cup {None},                 \* of a sign-in
     good: BOOLEAN,                           \* the password is right
     token: Ids \cup {None},                  \* the CSRF token of the body
     phase: {"first", "invalid", "valid"},    \* the first lookup, or the one after the body
     now: Nat,                                \* the local of the store operation
     held: Record \cup Draft \cup {None},     \* the record the handler holds
     whole: Nat,                              \* when the request was complete (history)
     late: {"yes", "no"}]                     \* the session was logged out by then (history)

Idle == [pc |-> "idle", kind |-> "overview", sid |-> None, cap |-> None, user |-> None,
         good |-> FALSE, token |-> None, phase |-> "first", now |-> 0, held |-> None,
         whole |-> 0, late |-> "no"]

\* SessionRecord::is_expired
IsExpired(record, at) == at >= record.expires

Without(sessions, ids) == [id \in DOMAIN sessions \ ids |-> sessions[id]]

With(sessions, id, record) ==
    [i \in DOMAIN sessions \cup {id} |-> IF i = id THEN record ELSE sessions[i]]

LoggedOut(id) == IF id \in loggedOut THEN "yes" ELSE "no"

Init ==
    /\ clock = 0
    /\ up = TRUE
    /\ store = [id \in {} |-> None]
    /\ issued = [id \in {} |-> None]
    /\ loggedOut = {}
    /\ task = [t \in Tasks |-> Idle]
    /\ answer = None

\* The handler returns its response and is gone.
Respond(t, code) ==
    /\ task' = [task EXCEPT ![t] = Idle]
    /\ answer' = [kind |-> task[t].kind, good |-> task[t].good, code |-> code]

Continue(t, locals) ==
    /\ task' = [task EXCEPT ![t] = locals]
    /\ answer' = None

Goto(t, label) == Continue(t, [task[t] EXCEPT !.pc = label])

\* login_failure_response
LoginStatus(error) ==
    CASE error = "NotAuthenticated" -> "401"
      [] error = "BrokerConnection" -> "503"
      [] OTHER -> "502"

\* mutation_error_status
MutationStatus(error) ==
    CASE error = "NotAuthenticated" -> "401"
      [] error = "InvalidRequest" -> "400"
      [] error \in {"BrokerConnection", "Broker"} -> "502"
      [] error = "Admin" -> "500"

\* A page without a session is the login page; a mutation is refused.
Unauthenticated(t) ==
    Respond(t, IF task[t].kind \in {"page", "overview"} THEN "loginPage"
               ELSE MutationStatus("NotAuthenticated"))

-----------------------------------------------------------------------------
(* The lookup of the session behind a cookie. *)

\* A request with the cookie of a session.  One whose cookie is missing or
\* names no session is answered as a lookup that finds nothing.
Arrive(t) ==
    /\ task[t].pc = "idle"
    /\ \E kind \in Served \ {"login"}, id \in DOMAIN issued, cap \in Capabilities :
        Continue(t, [Idle EXCEPT !.pc = "clock", !.kind = kind, !.sid = id,
                                 !.cap = IF kind \in {"page", "mutation"} THEN cap ELSE None,
                                 !.whole = clock, !.late = LoggedOut(id)])
    /\ UNCHANGED <<clock, up, store, issued, loggedOut>>

\* SessionStore::get reads the clock before it takes the lock.
GetNow(t) ==
    /\ task[t].pc = "clock"
    /\ Continue(t, [task[t] EXCEPT !.pc = "clone", !.now = clock])
    /\ UNCHANGED <<clock, up, store, issued, loggedOut>>

\* The handlers of the pages with the record of authenticated_page: a page that
\* is not permitted is still a page.
PageFound(t, record) ==
    IF task[t].cap \in record.caps
    THEN Continue(t, [task[t] EXCEPT !.held = record, !.pc = "clock", !.phase = "valid"])
    ELSE Respond(t, "200")

\* (fault) The handler does not ask for the capability of the mutation.
MutationFoundUnchecked(t, record) ==
    Continue(t, [task[t] EXCEPT !.held = record, !.pc = "body"])

\* authenticated_mutation_body up to the await; everybody may log out.
MutationFound(t, record) ==
    IF task[t].kind = "logout" \/ task[t].cap \in record.caps
    THEN Continue(t, [task[t] EXCEPT !.held = record, !.pc = "body"])
    ELSE Respond(t, "403")

\* The first lookup of a handler found a live session.
FirstFound(t, record) ==
    CASE task[t].kind = "overview" -> Respond(t, "200")
      [] task[t].kind = "page" -> PageFound(t, record)
      [] OTHER -> MutationFound(t, record)

\* The second lookup did: a page and a mutation build the seam to the brokers
\* from its record, a mutation once it is known to be valid, and the logout
\* needs the session only to exist.
SecondFound(t, record) ==
    IF task[t].kind # "logout" /\ task[t].phase = "invalid"
    THEN Respond(t, MutationStatus("InvalidRequest"))
    ELSE Continue(t, [task[t] EXCEPT !.held = record,
                        !.pc = IF task[t].kind = "logout" THEN "remove" ELSE "broker"])

\* SessionStore::get under the read lock.
GetRead(t) ==
    /\ task[t].pc = "clone"
    /\ IF task[t].sid \notin DOMAIN store THEN Unauthenticated(t)
       ELSE LET record == store[task[t].sid] IN
            IF IsExpired(record, task[t].now) THEN Goto(t, "drop")
            ELSE IF task[t].phase = "first" THEN FirstFound(t, record)
            ELSE SecondFound(t, record)
    /\ UNCHANGED <<clock, up, store, issued, loggedOut>>

\* SessionStore::get removes an expired record under the write lock.
GetDrop(t) ==
    /\ task[t].pc = "drop"
    /\ store' = Without(store, {task[t].sid})
    /\ Unauthenticated(t)
    /\ UNCHANGED <<clock, up, issued, loggedOut>>

-----------------------------------------------------------------------------
(* Mutations, the logout and the pages after the lookup. *)

Bodies == {"tooLarge", "undecodable", "unparsable", "invalid", "valid"}

\* What authenticated_mutation_body and the parser behind it make of a body.
\* A form is decoded before its token is compared, JSON after; the logout
\* does not parse what is left.
BodyVerdict(t, type, token, body) ==
    IF body = "tooLarge" THEN "413"
    ELSE IF type = "other" THEN "415"
    ELSE IF type = "form" /\ body = "undecodable" THEN "400"
    ELSE IF token # task[t].held.token THEN "403"
    ELSE IF task[t].kind = "mutation" /\ body \in {"undecodable", "unparsable"} THEN "400"
    ELSE "accepted"

\* Whether the rest of the mutation will pass its validation.
Validity(body) == IF body = "valid" THEN "valid" ELSE "invalid"

\* (fault) The handler goes on with the session it found before the body.
AcceptBodyWithoutRecheck(t, token, body) ==
    LET whole == [task[t] EXCEPT !.token = token, !.phase = Validity(body),
                                 !.whole = clock, !.late = LoggedOut(task[t].sid)]
    IN  IF task[t].kind = "logout" THEN Continue(t, [whole EXCEPT !.pc = "remove"])
        ELSE IF body # "valid" THEN Respond(t, "400")
        ELSE Continue(t, [whole EXCEPT !.pc = "broker"])

\* The session is looked up again after the await of the body.
AcceptBody(t, token, body) ==
    Continue(t, [task[t] EXCEPT !.pc = "clock", !.token = token, !.phase = Validity(body),
                                !.whole = clock, !.late = LoggedOut(task[t].sid)])

\* The await of the body ends.
ReadBody(t) ==
    /\ task[t].pc = "body"
    /\ \E type \in {"json", "form", "other"}, token \in DOMAIN issued \cup {None},
          body \in Bodies :
        LET verdict == BodyVerdict(t, type, token, body) IN
        IF verdict = "accepted" THEN AcceptBody(t, token, body) ELSE Respond(t, verdict)
    /\ UNCHANGED <<clock, up, store, issued, loggedOut>>

\* (fault) A finished mutation renews its session.
MutateRenews(t) ==
    /\ task[t].pc = "broker"
    /\ task[t].kind = "mutation"
    /\ Respond(t, IF up THEN "200" ELSE "502")
    /\ store' = With(store, task[t].sid, [task[t].held EXCEPT !.expires = clock + Ttl])
    /\ UNCHANGED <<clock, up, issued, loggedOut>>

\* BrokerAdminReadSeam connects as the operator of the session and lists.  A
\* page that could not load is a page as well.
ReadPage(t) ==
    /\ task[t].pc = "broker"
    /\ task[t].kind = "page"
    /\ Respond(t, "200")
    /\ UNCHANGED <<clock, up, store, issued, loggedOut>>

\* BrokerAdminMutationSeam connects as the operator of the session and changes
\* the cluster; a few requests are found invalid only here.
Mutate(t) ==
    /\ task[t].pc = "broker"
    /\ task[t].kind = "mutation"
    /\ \/ up /\ Respond(t, "200")
       \/ \E error \in {"BrokerConnection", "Broker", "Admin", "InvalidRequest"} :
            Respond(t, MutationStatus(error))
    /\ UNCHANGED <<clock, up, store, issued, loggedOut>>

\* (fault) The logout only expires the cookie.
LogoutKeepsRecord(t) ==
    /\ task[t].pc = "remove"
    /\ loggedOut' = loggedOut \cup {task[t].sid}
    /\ Respond(t, "200")
    /\ UNCHANGED <<clock, up, store, issued>>

\* logout_with_context after its lookup: the record goes, found or not.
LogoutRemove(t) ==
    /\ task[t].pc = "remove"
    /\ store' = Without(store, {task[t].sid})
    /\ loggedOut' = loggedOut \cup {task[t].sid}
    /\ Respond(t, "200")
    /\ UNCHANGED <<clock, up, issued>>

-----------------------------------------------------------------------------
(* The sign-in. *)

\* A login form with a user name and a password, good or not.  There are
\* at most as many sign-ins as Ids.
ArriveLogin(t) ==
    /\ task[t].pc = "idle"
    /\ "login" \in Served
    /\ Cardinality(DOMAIN issued) + Cardinality({u \in Tasks : task[u].pc \in SigningIn})
         < Cardinality(Ids)
    /\ \E user \in Users, good \in BOOLEAN :
        Continue(t, [Idle EXCEPT !.pc = "connect", !.kind = "login", !.user = user,
                                 !.good = good])
    /\ UNCHANGED <<clock, up, store, issued, loggedOut>>

\* connect_secured fails as a whole, whatever the cause, and the cause is
\* then looked for; the rare failure of another kind is a bad gateway.
Connect(t) ==
    /\ task[t].pc = "connect"
    /\ \/ up /\ task[t].good /\ Goto(t, "acls")
       \/ ~(up /\ task[t].good) /\ Goto(t, "probe")
       \/ up /\ Respond(t, LoginStatus("Admin"))
    /\ UNCHANGED <<clock, up, store, issued, loggedOut>>

\* classify_connect_failure: a broker that accepts TCP refused the password.
Probe(t) ==
    /\ task[t].pc = "probe"
    /\ Respond(t, LoginStatus(IF up THEN "NotAuthenticated" ELSE "BrokerConnection"))
    /\ UNCHANGED <<clock, up, store, issued, loggedOut>>

\* An ACL read that fails and an operator without any entry both give every
\* capability.
GrantedBy(derived) == IF derived = {} THEN Capabilities ELSE derived

\* capabilities_from_broker, and the user and password of the new record.
ReadAcls(t) ==
    /\ task[t].pc = "acls"
    /\ \E derived \in IF up THEN SUBSET Capabilities ELSE {{}} :
        Continue(t, [task[t] EXCEPT !.pc = "stamp",
                       !.held = [user |-> task[t].user, caps |-> GrantedBy(derived),
                                 token |-> None, expires |-> 0]])
    /\ UNCHANGED <<clock, up, store, issued, loggedOut>>

\* now.checked_add(self.ttl)
Expiry(at) == at + Ttl

\* create_record draws the id and the token and reads the clock.
Stamp(t) ==
    /\ task[t].pc = "stamp"
    /\ \E id \in Ids \ (DOMAIN issued \cup {task[u].sid : u \in Tasks}) :
        Continue(t, [task[t] EXCEPT !.pc = "insert", !.sid = id, !.now = clock,
                       !.held = [@ EXCEPT !.token = id, !.expires = Expiry(clock)]])
    /\ UNCHANGED <<clock, up, store, issued, loggedOut>>

\* (fault) Nothing is purged.
PurgedNothing(at) == {}

\* The records that retain drops.
Purged(at) == {id \in DOMAIN store : IsExpired(store[id], at)}

\* create_record under the write lock; the response carries the cookie.
Insert(t) ==
    /\ task[t].pc = "insert"
    /\ store' = With(Without(store, Purged(task[t].now)), task[t].sid, task[t].held)
    /\ issued' = With(issued, task[t].sid, task[t].held)
    /\ Respond(t, "200")
    /\ UNCHANGED <<clock, up, loggedOut>>

-----------------------------------------------------------------------------
\* The client goes away: the handler is dropped at an await.
Disconnect(t) ==
    /\ task[t].pc \in {"body", "broker", "connect", "probe", "acls"}
    /\ Continue(t, Idle)
    /\ UNCHANGED <<clock, up, store, issued, loggedOut>>

Tick ==
    /\ clock < MaxClock
    /\ clock' = clock + 1
    /\ answer' = None
    /\ UNCHANGED <<up, store, issued, loggedOut, task>>

\* The brokers stop answering, or answer again.
Outage ==
    /\ Outages
    /\ up' = ~up
    /\ answer' = None
    /\ UNCHANGED <<clock, store, issued, loggedOut, task>>

\* The steps of a handler that wait for nobody but the brokers.
Handle(t) ==
    \/ GetNow(t) \/ GetRead(t) \/ GetDrop(t)
    \/ ReadPage(t) \/ Mutate(t) \/ LogoutRemove(t)
    \/ Connect(t) \/ Probe(t) \/ ReadAcls(t) \/ Stamp(t) \/ Insert(t)

Next ==
    \/ \E t \in Tasks : Arrive(t) \/ ArriveLogin(t) \/ Handle(t) \/ ReadBody(t) \/ Disconnect(t)
    \/ Tick
    \/ Outage

Spec == Init /\ [][Next]_vars

-----------------------------------------------------------------------------
\* The store and every handler hold complete records of known operators: a
\* draft never reaches the store.
TypeOK ==
    /\ clock \in Nat
    /\ up \in BOOLEAN
    /\ DOMAIN store \subseteq Ids
    /\ \A id \in DOMAIN store : store[id] \in Record
    /\ DOMAIN issued \subseteq Ids
    /\ \A id \in DOMAIN issued : issued[id] \in Record
    /\ loggedOut \subseteq Ids
    /\ task \in [Tasks -> Locals]

\* Whatever the other tasks do, a request that reaches the brokers does so
\* with the record its own session was created with: with the name and the
\* password of the operator who signed in, for a capability this operator was
\* granted then, and, if it changes anything, with this session's CSRF token.
ActsAsItsSession ==
    \A t \in Tasks : task[t].pc = "broker" =>
        /\ task[t].sid \in DOMAIN issued
        /\ task[t].held = issued[task[t].sid]
        /\ task[t].cap \in issued[task[t].sid].caps
        /\ task[t].kind = "mutation" => task[t].token = issued[task[t].sid].token

\* No request reaches the brokers for a session that had ended when the
\* request was complete: at a moment after its last byte arrived the session
\* was unexpired, and it had not been logged out before that byte.  This is
\* why the handlers look the session up again after the await of the body.
EndedSessionsDoNothing ==
    \A t \in Tasks : task[t].pc = "broker" =>
        /\ task[t].whole <= task[t].now
        /\ task[t].now <= clock
        /\ task[t].now < issued[task[t].sid].expires
        /\ task[t].late = "no"

\* A logout that was answered is final: no lookup, purge or sign-in of another
\* task puts the record back.
LogoutIsFinal == loggedOut \cap DOMAIN store = {}

\* A record leaves the store because its time is over or because its own
\* operator logs out, although lookups remove and sign-ins purge with a time
\* read before they took the lock, and although get removes in a second step.
OnlyEndedSessionsLeave ==
    [][\A id \in DOMAIN store \ DOMAIN store' :
          \/ store[id].expires <= clock
          \/ \E t \in Tasks : /\ task[t].kind = "logout"
                              /\ task[t].sid = id
                              /\ task[t].token = store[id].token]_vars

\* After a sign-in the only records in the store, its own apart, are those
\* that outlive the moment the sign-in read the clock: the records that the
\* sign-ins before it abandoned do not pile up.
SignInPurges ==
    [][\A id \in DOMAIN store' \ DOMAIN store :
          \A other \in DOMAIN store' \ {id} :
             store'[id].expires < store'[other].expires + Ttl]_vars

LifeOf == [id \in Ids |-> IF id \in DOMAIN store THEN "open"
                          ELSE IF id \in DOMAIN issued THEN "closed" ELSE "new"]

Life == INSTANCE SessionLife WITH life <- LifeOf

\* The promise of the store about each id, SessionLife: opened once, by one
\* sign-in, and closed once, under every interleaving of get, create_record
\* and remove.
OpenedOnce == Life!Spec

\* login_failure_response: "a cluster outage must not arrive as `401`: an
\* operator who reads "authentication failed" retypes a password that was
\* never the problem".
OutageIsNot401 ==
    answer = None \/ answer.kind # "login" \/ answer.code # "401" \/ ~answer.good
-----------------------------------------------------------------------------
(* The inductive invariant. *)

\* The store holds some of the issued records, unchanged, and none that was
\* logged out; a token belongs to one session.
StoreInv ==
    /\ DOMAIN store \subseteq DOMAIN issued
    /\ \A id \in DOMAIN store : store[id] = issued[id]
    /\ \A id \in DOMAIN issued : issued[id].token = id
    /\ loggedOut \subseteq DOMAIN issued
    /\ loggedOut \cap DOMAIN store = {}

\* What a handler has established about its session when it stands at pc.
CookieInv(t) ==
    LET me == task[t]
        my == issued[me.sid]
    IN  me.pc \in {"clock", "clone", "drop", "body", "broker", "remove"} =>
          /\ me.sid \in DOMAIN issued
          /\ me.kind # "login"
          /\ me.whole <= clock
          /\ me.late = "yes" => me.sid \in loggedOut
          /\ me.pc \in {"clone", "drop", "broker"} => me.whole <= me.now /\ me.now <= clock
          /\ me.pc = "drop" => my.expires <= me.now
          /\ me.pc = "body" => me.held = my /\ me.phase = "first"
          /\ me.pc = "body" \/ me.phase # "first" => me.kind \in {"page", "mutation", "logout"}
          /\ (me.pc = "body" \/ me.phase # "first") /\ me.kind # "logout" => me.cap \in my.caps
          /\ me.phase # "first" /\ me.kind # "page" => me.token = me.sid
          /\ me.pc = "remove" => me.kind = "logout" /\ me.phase # "first"
          /\ me.pc = "broker" => /\ me.kind # "logout" /\ me.phase # "first"
                                /\ me.held = my
                                /\ me.now < my.expires
                                /\ me.late = "no"

\* A record that waits to be inserted is complete and has an id of its own.
InsertInv(t) ==
    /\ task[t].pc = "stamp" => task[t].held \in Draft
    /\ task[t].pc = "insert" =>
         /\ task[t].sid \in Ids \ DOMAIN issued
         /\ \A u \in Tasks \ {t} : task[u].sid # task[t].sid
         /\ task[t].held \in Record
         /\ task[t].held.token = task[t].sid
         /\ task[t].held.expires = task[t].now + Ttl
         /\ task[t].now <= clock
    /\ task[t].pc \in SigningIn \ {"insert"} => task[t].sid = None
    /\ task[t].pc \in SigningIn => task[t].user \in Users

IInv ==
    /\ TypeOK
    /\ StoreInv
    /\ \A t \in Tasks : CookieInv(t) /\ InsertInv(t)
=============================================================================
