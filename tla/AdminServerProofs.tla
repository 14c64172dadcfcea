-------------------------- MODULE AdminServerProofs --------------------------
(***************************************************************************)
(* The safety properties of AdminServer for any number of tasks, sessions, *)
(* operators and capabilities, and any lifetime.                           *)
(***************************************************************************)
EXTENDS AdminServer, TLAPS

\* The provers of a step that names none, and the seconds each has.
USE ZenonT(10), SMTT(20)

\* A handler that goes idle, or to a request that holds no session, leaves
\* nothing to establish about itself.
LEMMA IdleIsLocal == Idle \in Locals
BY DEF Idle, Locals, Kinds

\* A step of one handler that leaves the issued records alone preserves what
\* the other handlers have established.
LEMMA OthersKeepTheirs ==
    ASSUME IInv, NEW t \in Tasks, NEW r \in Locals,
           task' = [task EXCEPT ![t] = r],
           UNCHANGED <<clock, issued>>, loggedOut \subseteq loggedOut',
           r.sid \in {task[t].sid, None} \cup DOMAIN issued,
           NEW u \in Tasks \ {t}
    PROVE  CookieInv(u)' /\ InsertInv(u)'
<1>1. task'[u] = task[u]
  BY DEF IInv, TypeOK
<1>2. CookieInv(u) /\ InsertInv(u)
  BY DEF IInv
<1>3. CookieInv(u)'
  BY <1>1, <1>2 DEF CookieInv
<1>4. ASSUME task[u].pc = "insert", NEW v \in Tasks \ {u}
      PROVE  task'[v].sid # task[u].sid
  <2>1. task[u].sid \in Ids \ DOMAIN issued /\ task[v].sid # task[u].sid
    BY <1>2, <1>4 DEF InsertInv
  <2>2. CASE v = t
    <3>1. task'[v] = r
      BY <2>2 DEF IInv, TypeOK
    <3>2. r.sid = task[t].sid \/ r.sid = None \/ r.sid \in DOMAIN issued
      OBVIOUS
    <3> QED BY <2>1, <2>2, <3>1, <3>2, NoneIsNothing
  <2>3. CASE v # t
    BY <2>1, <2>3 DEF IInv, TypeOK
  <2> QED BY <2>2, <2>3
<1>5. InsertInv(u)'
  BY <1>1, <1>2, <1>4 DEF InsertInv
<1> QED BY <1>3, <1>5

\* What remains to show of a step of one handler that leaves the store alone.
LEMMA LocalStep ==
    ASSUME IInv, NEW t \in Tasks, NEW r \in Locals,
           task' = [task EXCEPT ![t] = r],
           UNCHANGED <<clock, up, store, issued, loggedOut>>,
           r.sid \in {task[t].sid, None} \cup DOMAIN issued,
           CookieInv(t)', InsertInv(t)'
    PROVE  IInv'
<1>1. TypeOK'
  BY DEF IInv, TypeOK
<1>2. StoreInv'
  BY DEF IInv, StoreInv
<1>3. \A u \in Tasks \ {t} : CookieInv(u)' /\ InsertInv(u)'
  BY OthersKeepTheirs
<1> QED BY <1>1, <1>2, <1>3 DEF IInv

\* A response ends the handler.
LEMMA RespondStep ==
    ASSUME IInv, NEW t \in Tasks, NEW code, Respond(t, code),
           UNCHANGED <<clock, up, store, issued, loggedOut>>
    PROVE  IInv'
<1>1. task' = [task EXCEPT ![t] = Idle] /\ Idle \in Locals /\ Idle.sid = None
  BY IdleIsLocal DEF Respond, Idle
<1>2. task'[t] = Idle
  BY <1>1 DEF IInv, TypeOK
<1>3. CookieInv(t)' /\ InsertInv(t)'
  BY SMTT(20), <1>2 DEF CookieInv, InsertInv, Idle, SigningIn
<1> QED BY <1>1, <1>3, LocalStep

-----------------------------------------------------------------------------
LEMMA InitIInv == Init => IInv
<1> SUFFICES ASSUME Init PROVE IInv
  OBVIOUS
<1>1. TypeOK
  BY IdleIsLocal DEF Init, TypeOK
<1>2. StoreInv
  BY DEF Init, StoreInv
<1>3. \A t \in Tasks : CookieInv(t) /\ InsertInv(t)
  BY DEF Init, CookieInv, InsertInv, Idle, SigningIn
<1> QED BY <1>1, <1>2, <1>3 DEF IInv

LEMMA ArriveIInv == ASSUME IInv, NEW t \in Tasks, Arrive(t) PROVE IInv'
<1>1. PICK kind \in Served \ {"login"}, id \in DOMAIN issued, cap \in Capabilities :
        Continue(t, [Idle EXCEPT !.pc = "clock", !.kind = kind, !.sid = id,
                                 !.cap = IF kind \in {"page", "mutation"} THEN cap ELSE None,
                                 !.whole = clock, !.late = LoggedOut(id)])
  BY DEF Arrive
<1> DEFINE r == [Idle EXCEPT !.pc = "clock", !.kind = kind, !.sid = id,
                             !.cap = IF kind \in {"page", "mutation"} THEN cap ELSE None,
                             !.whole = clock, !.late = LoggedOut(id)]
<1>2. clock \in Nat /\ id \in Ids /\ kind \in Kinds
  BY BoundsAreSane DEF IInv, TypeOK
<1>3. r \in Locals
  BY <1>2 DEF Idle, Locals, LoggedOut
<1>4. task' = [task EXCEPT ![t] = r] /\ UNCHANGED <<clock, up, store, issued, loggedOut>>
  BY <1>1 DEF Continue, Arrive
<1>5. task'[t] = r
  BY <1>4 DEF IInv, TypeOK
<1>8. /\ r.pc = "clock" /\ r.sid = id /\ r.kind = kind /\ r.phase = "first" /\ r.whole = clock
      /\ r.late = LoggedOut(id)
  BY DEF Idle
<1> HIDE DEF r
<1>6. CookieInv(t)'
  BY SMTT(20), <1>2, <1>4, <1>5, <1>8 DEF CookieInv, LoggedOut
<1>7. InsertInv(t)'
  BY <1>5, <1>8 DEF InsertInv, SigningIn
<1> QED BY <1>3, <1>4, <1>6, <1>7, <1>8, LocalStep

LEMMA GetNowIInv == ASSUME IInv, NEW t \in Tasks, GetNow(t) PROVE IInv'
<1> DEFINE r == [task[t] EXCEPT !.pc = "clone", !.now = clock]
<1>1. task[t] \in Locals /\ clock \in Nat /\ CookieInv(t) /\ task[t].pc = "clock"
  BY DEF IInv, TypeOK, GetNow
<1>2. r \in Locals /\ r.sid = task[t].sid
  BY ZenonT(60), <1>1 DEF Locals
<1>3. task' = [task EXCEPT ![t] = r] /\ UNCHANGED <<clock, up, store, issued, loggedOut>>
  BY DEF Continue, GetNow
<1>4. task'[t] = r
  BY <1>3 DEF IInv, TypeOK
<1>5. CookieInv(t)'
  BY SMTT(20), <1>1, <1>3, <1>4 DEF CookieInv, Locals
<1>6. InsertInv(t)'
  BY <1>1, <1>4 DEF InsertInv, SigningIn, Locals
<1> HIDE DEF r
<1> QED BY <1>2, <1>3, <1>5, <1>6, LocalStep

\* The handler found its session at the lookup before the body.
LEMMA FirstFoundIInv ==
    ASSUME IInv, NEW t \in Tasks, task[t].pc = "clone", task[t].phase = "first",
           task[t].sid \in DOMAIN store,
           FirstFound(t, store[task[t].sid]),
           UNCHANGED <<clock, up, store, issued, loggedOut>>
    PROVE  IInv'
<1> DEFINE record == store[task[t].sid]
           again == [task[t] EXCEPT !.held = record, !.pc = "clock", !.phase = "valid"]
           body == [task[t] EXCEPT !.held = record, !.pc = "body"]
<1>1. task[t] \in Locals /\ clock \in Nat /\ CookieInv(t)
  BY DEF IInv, TypeOK
<1>2. record \in Record /\ record = issued[task[t].sid] /\ record = issued'[task[t].sid]
  BY DEF IInv, TypeOK, StoreInv
<1>3. CASE \E code : Respond(t, code)
  BY <1>3, RespondStep
<1>4. CASE task[t].kind = "page" /\ task[t].cap \in record.caps /\ Continue(t, again)
  <2>1. again \in Locals /\ again.sid = task[t].sid
    BY ZenonT(60), <1>1, <1>2 DEF Locals
  <2>2. task' = [task EXCEPT ![t] = again]
    BY <1>4 DEF Continue
  <2>3. task'[t] = again
    BY <2>2 DEF IInv, TypeOK
  <2>4. CookieInv(t)' /\ InsertInv(t)'
    BY SMTT(20), <1>1, <1>2, <1>4, <2>3 DEF CookieInv, InsertInv, SigningIn, Locals
  <2> HIDE DEF again
  <2> QED BY <2>1, <2>2, <2>4, LocalStep
<1>5. CASE /\ task[t].kind \in {"logout", "mutation"}
           /\ task[t].kind = "mutation" => task[t].cap \in record.caps
           /\ Continue(t, body)
  <2>1. body \in Locals /\ body.sid = task[t].sid
    BY ZenonT(60), <1>1, <1>2 DEF Locals
  <2>2. task' = [task EXCEPT ![t] = body]
    BY <1>5 DEF Continue
  <2>3. task'[t] = body
    BY <2>2 DEF IInv, TypeOK
  <2>4. CookieInv(t)' /\ InsertInv(t)'
    BY SMTT(20), <1>1, <1>2, <1>5, <2>3 DEF CookieInv, InsertInv, SigningIn, Locals
  <2> HIDE DEF body
  <2> QED BY <2>1, <2>2, <2>4, LocalStep
<1>6. task[t].kind \in {"overview", "page", "mutation", "logout"}
  BY <1>1 DEF CookieInv, Locals, Kinds
<1>7. CASE task[t].kind = "overview"
  BY <1>3, <1>7 DEF FirstFound
<1>8. CASE task[t].kind = "page"
  BY <1>3, <1>4, <1>8 DEF FirstFound, PageFound
<1>9. CASE task[t].kind \in {"mutation", "logout"}
  BY <1>3, <1>5, <1>9 DEF FirstFound, MutationFound
<1> QED BY <1>6, <1>7, <1>8, <1>9

\* The handler found its session at the lookup after the body.
LEMMA SecondFoundIInv ==
    ASSUME IInv, NEW t \in Tasks, task[t].pc = "clone", task[t].phase # "first",
           task[t].sid \in DOMAIN store,
           ~IsExpired(store[task[t].sid], task[t].now),
           SecondFound(t, store[task[t].sid]),
           UNCHANGED <<clock, up, store, issued, loggedOut>>
    PROVE  IInv'
<1> DEFINE record == store[task[t].sid]
           label == IF task[t].kind = "logout" THEN "remove" ELSE "broker"
           r == [task[t] EXCEPT !.held = record, !.pc = label]
<1>1. task[t] \in Locals /\ clock \in Nat /\ CookieInv(t)
  BY DEF IInv, TypeOK
<1>2. record \in Record /\ record = issued[task[t].sid] /\ task[t].sid \notin loggedOut
  BY DEF IInv, TypeOK, StoreInv
<1>3. CASE \E code : Respond(t, code)
  BY <1>3, RespondStep
<1>4. CASE Continue(t, r)
  <2>6. label \in {"remove", "broker"} /\ (label = "remove") = (task[t].kind = "logout")
    OBVIOUS
  <2> HIDE DEF label
  <2>1. r \in Locals /\ r.sid = task[t].sid
    BY ZenonT(60), <1>1, <1>2, <2>6 DEF Locals
  <2>2. task' = [task EXCEPT ![t] = r]
    BY <1>4 DEF Continue
  <2>3. task'[t] = r
    BY <2>2 DEF IInv, TypeOK
  <2>4. task[t].now < record.expires
    BY SMTT(20), <1>1, <1>2 DEF IsExpired, Locals, Record
  <2>5. CookieInv(t)' /\ InsertInv(t)'
    BY SMTT(20), <1>1, <1>2, <2>3, <2>4, <2>6 DEF CookieInv, InsertInv, SigningIn, Locals
  <2> HIDE DEF r
  <2> QED BY <2>1, <2>2, <2>5, LocalStep
<1> QED BY <1>3, <1>4 DEF SecondFound

\* A handler that moves to another place and learns nothing about its session.
LEMMA GotoStep ==
    ASSUME IInv, NEW t \in Tasks, NEW r \in Locals, r.sid = task[t].sid,
           task' = [task EXCEPT ![t] = r],
           UNCHANGED <<clock, up, store, issued, loggedOut>>,
           r.pc \in {"connect", "probe", "acls"}, task[t].pc \in SigningIn \ {"insert"},
           r.user = task[t].user
    PROVE  IInv'
<1>1. task'[t] = r
  BY DEF IInv, TypeOK
<1>2. InsertInv(t)
  BY DEF IInv
<1>3. CookieInv(t)' /\ InsertInv(t)'
  BY <1>1, <1>2 DEF CookieInv, InsertInv, SigningIn
<1> QED BY <1>3, LocalStep

LEMMA GetReadIInv == ASSUME IInv, NEW t \in Tasks, GetRead(t) PROVE IInv'
<1>1. task[t].pc = "clone" /\ UNCHANGED <<clock, up, store, issued, loggedOut>>
  BY DEF GetRead
<1>2. CASE task[t].sid \notin DOMAIN store
  BY <1>1, <1>2, RespondStep DEF GetRead, Unauthenticated
<1>3. CASE /\ task[t].sid \in DOMAIN store
           /\ IsExpired(store[task[t].sid], task[t].now)
  <2> DEFINE r == [task[t] EXCEPT !.pc = "drop"]
  <2>1. task[t] \in Locals /\ CookieInv(t) /\ store[task[t].sid] = issued[task[t].sid]
        /\ store[task[t].sid] \in Record
    BY <1>3 DEF IInv, TypeOK, StoreInv
  <2>2. r \in Locals /\ r.sid = task[t].sid
    BY SMTT(20), <2>1 DEF Locals
  <2>3. task' = [task EXCEPT ![t] = r]
    BY <1>3 DEF GetRead, Goto, Continue
  <2>4. task'[t] = r
    BY <2>3 DEF IInv, TypeOK
  <2>5. CookieInv(t)' /\ InsertInv(t)'
    BY SMTT(20), <1>1, <1>3, <2>1, <2>4 DEF CookieInv, InsertInv, IsExpired, SigningIn, Locals, Record
  <2> HIDE DEF r
  <2> QED BY <1>1, <2>2, <2>3, <2>5, LocalStep
<1>4. CASE /\ task[t].sid \in DOMAIN store
           /\ ~IsExpired(store[task[t].sid], task[t].now)
  <2>1. CASE task[t].phase = "first"
    BY <1>1, <1>4, <2>1, FirstFoundIInv DEF GetRead
  <2>2. CASE task[t].phase # "first"
    BY <1>1, <1>4, <2>2, SecondFoundIInv DEF GetRead
  <2> QED BY <2>1, <2>2
<1> QED BY <1>2, <1>3, <1>4

\* A record is removed and the handler that removed it ends.
LEMMA RemoveStep ==
    ASSUME IInv, NEW t \in Tasks, NEW code, Respond(t, code),
           task[t].sid \in DOMAIN issued,
           store' = Without(store, {task[t].sid}),
           UNCHANGED <<clock, up, issued>>,
           loggedOut' \in {loggedOut, loggedOut \cup {task[t].sid}}
    PROVE  IInv'
<1>1. task' = [task EXCEPT ![t] = Idle] /\ Idle \in Locals /\ Idle.sid = None
  BY IdleIsLocal DEF Respond, Idle
<1>2. task'[t] = Idle
  BY <1>1 DEF IInv, TypeOK
<1>3. CookieInv(t)' /\ InsertInv(t)'
  BY SMTT(20), <1>2 DEF CookieInv, InsertInv, Idle, SigningIn
<1>4. /\ DOMAIN store' = DOMAIN store \ {task[t].sid}
      /\ \A id \in DOMAIN store' : store'[id] = store[id]
  BY DEF Without
<1>5. TypeOK'
  BY <1>1, <1>4 DEF IInv, TypeOK
<1>6. StoreInv'
  BY <1>4 DEF IInv, StoreInv
<1>7. \A u \in Tasks \ {t} : CookieInv(u)' /\ InsertInv(u)'
  BY <1>1, OthersKeepTheirs
<1> QED BY <1>3, <1>5, <1>6, <1>7 DEF IInv

LEMMA GetDropIInv == ASSUME IInv, NEW t \in Tasks, GetDrop(t) PROVE IInv'
<1>1. task[t].sid \in DOMAIN issued
  BY DEF GetDrop, IInv, CookieInv
<1>2. PICK code : Respond(t, code)
  BY DEF GetDrop, Unauthenticated
<1> QED BY <1>1, <1>2, RemoveStep DEF GetDrop

LEMMA LogoutRemoveIInv == ASSUME IInv, NEW t \in Tasks, LogoutRemove(t) PROVE IInv'
<1>1. task[t].sid \in DOMAIN issued
  BY DEF LogoutRemove, IInv, CookieInv
<1> QED BY <1>1, RemoveStep DEF LogoutRemove

LEMMA CompleteIsLocal ==
    ASSUME NEW x \in Locals, NEW token \in Ids \cup {None}, NEW c \in Nat,
           NEW validity \in {"valid", "invalid"}, NEW late \in {"yes", "no"}
    PROVE  [x EXCEPT !.pc = "clock", !.token = token, !.phase = validity,
                     !.whole = c, !.late = late] \in Locals
BY ZenonT(60) DEF Locals

LEMMA ReadBodyIInv == ASSUME IInv, NEW t \in Tasks, ReadBody(t) PROVE IInv'
<1>1. PICK type \in {"json", "form", "other"}, token \in DOMAIN issued \cup {None},
           body \in Bodies :
        IF BodyVerdict(t, type, token, body) = "accepted"
        THEN AcceptBody(t, token, body)
        ELSE Respond(t, BodyVerdict(t, type, token, body))
  BY DEF ReadBody
<1>2. task[t].pc = "body" /\ UNCHANGED <<clock, up, store, issued, loggedOut>>
  BY DEF ReadBody
<1>3. CASE BodyVerdict(t, type, token, body) # "accepted"
  BY <1>1, <1>2, <1>3, RespondStep
<1>4. CASE BodyVerdict(t, type, token, body) = "accepted"
  <2> DEFINE r == [task[t] EXCEPT !.pc = "clock", !.token = token, !.phase = Validity(body),
                                  !.whole = clock, !.late = LoggedOut(task[t].sid)]
  <2>1. /\ task[t] \in Locals /\ CookieInv(t) /\ clock \in Nat
        /\ token \in Ids \cup {None}
        /\ task[t].sid \in DOMAIN issued
        /\ issued[task[t].sid].token = task[t].sid
    BY <1>2 DEF IInv, TypeOK, CookieInv, StoreInv
  <2>2. token = task[t].sid
    BY <1>2, <1>4, <2>1 DEF BodyVerdict, CookieInv
  <2>3. Validity(body) \in {"valid", "invalid"} /\ LoggedOut(task[t].sid) \in {"yes", "no"}
    BY DEF Validity, LoggedOut
  <2>4. r \in Locals
    BY <2>1, <2>3, CompleteIsLocal
  <2>9. r.sid = task[t].sid
    BY <2>1 DEF Locals
  <2>5. task' = [task EXCEPT ![t] = r]
    BY <1>1, <1>4 DEF AcceptBody, Continue
  <2>6. task'[t] = r
    BY <2>5 DEF IInv, TypeOK
  <2>7. LoggedOut(task[t].sid) = "yes" => task[t].sid \in loggedOut
    BY DEF LoggedOut
  <2>8. CookieInv(t)' /\ InsertInv(t)'
    BY SMTT(20), <1>2, <2>1, <2>2, <2>3, <2>6, <2>7 DEF CookieInv, InsertInv, SigningIn, Locals
  <2> HIDE DEF r
  <2> QED BY <1>2, <2>4, <2>5, <2>8, <2>9, LocalStep
<1> QED BY <1>3, <1>4

LEMMA ReadPageIInv == ASSUME IInv, NEW t \in Tasks, ReadPage(t) PROVE IInv'
BY RespondStep DEF ReadPage

LEMMA MutateIInv == ASSUME IInv, NEW t \in Tasks, Mutate(t) PROVE IInv'
<1>1. PICK code : Respond(t, code)
  BY DEF Mutate
<1> QED BY <1>1, RespondStep DEF Mutate

LEMMA ArriveLoginIInv == ASSUME IInv, NEW t \in Tasks, ArriveLogin(t) PROVE IInv'
<1>1. PICK user \in Users, good \in BOOLEAN :
        Continue(t, [Idle EXCEPT !.pc = "connect", !.kind = "login", !.user = user,
                                 !.good = good])
  BY DEF ArriveLogin
<1> DEFINE r == [Idle EXCEPT !.pc = "connect", !.kind = "login", !.user = user, !.good = good]
<1>2. r \in Locals
  BY IdleIsLocal DEF Idle, Locals, SigningIn, Kinds
<1>3. r.sid = None /\ r.pc = "connect" /\ r.user \in Users
  BY DEF Idle
<1>4. task' = [task EXCEPT ![t] = r] /\ UNCHANGED <<clock, up, store, issued, loggedOut>>
  BY <1>1 DEF ArriveLogin, Continue
<1>5. task'[t] = r
  BY <1>4 DEF IInv, TypeOK
<1> HIDE DEF r
<1>6. CookieInv(t)' /\ InsertInv(t)'
  BY <1>3, <1>5 DEF CookieInv, InsertInv, SigningIn
<1> QED BY <1>2, <1>3, <1>4, <1>6, LocalStep

LEMMA ConnectIInv == ASSUME IInv, NEW t \in Tasks, Connect(t) PROVE IInv'
<1>1. task[t].pc = "connect" /\ UNCHANGED <<clock, up, store, issued, loggedOut>>
  BY DEF Connect
<1>2. CASE Respond(t, LoginStatus("Admin"))
  BY <1>1, <1>2, RespondStep
<1>3. ASSUME NEW label \in {"acls", "probe"}, Goto(t, label) PROVE IInv'
  <2> DEFINE r == [task[t] EXCEPT !.pc = label]
  <2>1. task[t] \in Locals
    BY DEF IInv, TypeOK
  <2>2. r \in Locals /\ r.sid = task[t].sid /\ r.user = task[t].user /\ r.pc = label
    BY SMTT(20), <2>1 DEF Locals, SigningIn
  <2>3. task' = [task EXCEPT ![t] = r]
    BY <1>3 DEF Goto, Continue
  <2> HIDE DEF r
  <2> QED BY <1>1, <2>2, <2>3, GotoStep DEF SigningIn
<1>4. Goto(t, "acls") \/ Goto(t, "probe") \/ Respond(t, LoginStatus("Admin"))
  BY DEF Connect
<1> QED BY <1>2, <1>3, <1>4

LEMMA ProbeIInv == ASSUME IInv, NEW t \in Tasks, Probe(t) PROVE IInv'
BY RespondStep DEF Probe

LEMMA ReadAclsIInv == ASSUME IInv, NEW t \in Tasks, ReadAcls(t) PROVE IInv'
<1>1. PICK derived \in SUBSET Capabilities :
        Continue(t, [task[t] EXCEPT !.pc = "stamp",
                       !.held = [user |-> task[t].user, caps |-> GrantedBy(derived),
                                 token |-> None, expires |-> 0]])
  BY DEF ReadAcls
<1> DEFINE draft == [user |-> task[t].user, caps |-> GrantedBy(derived),
                     token |-> None, expires |-> 0]
           r == [task[t] EXCEPT !.pc = "stamp", !.held = draft]
<1>2. task[t].pc = "acls" /\ task[t] \in Locals /\ InsertInv(t)
  BY DEF ReadAcls, IInv, TypeOK
<1>3. task[t].user \in Users /\ task[t].sid = None
  BY <1>2 DEF InsertInv, SigningIn
<1>4. GrantedBy(derived) \in SUBSET Capabilities
  BY DEF GrantedBy
<1>5. draft \in Draft
  BY <1>3, <1>4 DEF Draft
<1>6. task' = [task EXCEPT ![t] = r] /\ UNCHANGED <<clock, up, store, issued, loggedOut>>
  BY <1>1 DEF ReadAcls, Continue
<1> HIDE DEF draft
<1>7. r \in Locals
  BY <1>2, <1>5 DEF Locals, SigningIn
<1>8. r.sid = None /\ r.pc = "stamp" /\ r.held = draft /\ r.user \in Users
  BY <1>2, <1>3 DEF Locals
<1>9. task'[t] = r
  BY <1>6 DEF IInv, TypeOK
<1> HIDE DEF r
<1>10. CookieInv(t)' /\ InsertInv(t)'
  BY <1>5, <1>8, <1>9 DEF CookieInv, InsertInv, SigningIn
<1> QED BY <1>6, <1>7, <1>8, <1>10, LocalStep

LEMMA DisconnectIInv == ASSUME IInv, NEW t \in Tasks, Disconnect(t) PROVE IInv'
<1>1. task' = [task EXCEPT ![t] = Idle] /\ Idle \in Locals /\ Idle.sid = None
  BY IdleIsLocal DEF Disconnect, Continue, Idle
<1>2. task'[t] = Idle
  BY <1>1 DEF IInv, TypeOK
<1>3. CookieInv(t)' /\ InsertInv(t)'
  BY SMTT(20), <1>2 DEF CookieInv, InsertInv, Idle, SigningIn
<1> QED BY ZenonT(60), <1>1, <1>3, LocalStep DEF Disconnect

LEMMA StampIInv == ASSUME IInv, NEW t \in Tasks, Stamp(t) PROVE IInv'
<1>1. PICK id \in Ids \ (DOMAIN issued \cup {task[u].sid : u \in Tasks}) :
        Continue(t, [task[t] EXCEPT !.pc = "insert", !.sid = id, !.now = clock,
                       !.held = [@ EXCEPT !.token = id, !.expires = Expiry(clock)]])
  BY DEF Stamp
<1> DEFINE record == [task[t].held EXCEPT !.token = id, !.expires = Expiry(clock)]
           r == [task[t] EXCEPT !.pc = "insert", !.sid = id, !.now = clock, !.held = record]
<1>2. /\ task[t].pc = "stamp" /\ task[t] \in Locals /\ InsertInv(t) /\ clock \in Nat
      /\ UNCHANGED <<clock, up, store, issued, loggedOut>>
  BY DEF Stamp, IInv, TypeOK
<1>3. task[t].held \in Draft /\ task[t].user \in Users
  BY <1>2 DEF InsertInv, SigningIn
<1>4. record \in Record /\ record.token = id /\ record.expires = clock + Ttl
  <2>1. Expiry(clock) \in Nat /\ Expiry(clock) = clock + Ttl
    BY SMTT(20), <1>2, TimesAreNaturals DEF Expiry
  <2>3. record \in Record /\ record.token = id /\ record.expires = Expiry(clock)
    <3> DEFINE draft == task[t].held
               e == Expiry(clock)
    <3>1. draft \in Draft /\ id \in Ids /\ e \in Nat
      BY <1>3, <2>1
    <3> HIDE DEF draft, e
    <3>2. /\ [draft EXCEPT !.token = id, !.expires = e] \in Record
          /\ [draft EXCEPT !.token = id, !.expires = e].token = id
          /\ [draft EXCEPT !.token = id, !.expires = e].expires = e
      BY <3>1 DEF Draft, Record
    <3> QED BY <3>2 DEF draft, e
  <2> QED BY <2>1, <2>3
<1>5. task' = [task EXCEPT ![t] = r]
  BY <1>1 DEF Continue
<1> HIDE DEF record
<1>6. r \in Locals
  BY ZenonT(60), <1>2, <1>4 DEF Locals, SigningIn
<1>7. /\ r.sid = id /\ r.pc = "insert" /\ r.held = record /\ r.now = clock
      /\ r.user \in Users
  BY <1>2, <1>3 DEF Locals
<1>8. task'[t] = r /\ \A u \in Tasks \ {t} : task'[u] = task[u]
  BY <1>5 DEF IInv, TypeOK
<1> HIDE DEF r
<1>9. CookieInv(t)'
  BY <1>7, <1>8 DEF CookieInv
<1>10. InsertInv(t)'
  BY SMTT(20), <1>2, <1>4, <1>7, <1>8 DEF InsertInv, SigningIn
<1>11. ASSUME NEW u \in Tasks \ {t} PROVE CookieInv(u)' /\ InsertInv(u)'
  <2>1. CookieInv(u) /\ InsertInv(u) /\ task'[u] = task[u]
    BY <1>8 DEF IInv
  <2>2. CookieInv(u)'
    BY <1>2, <2>1 DEF CookieInv
  <2>3. \A v \in Tasks \ {u} : task[u].pc = "insert" => task'[v].sid # task[u].sid
    BY <1>7, <1>8, <2>1 DEF InsertInv
  <2>4. InsertInv(u)'
    BY <1>2, <2>1, <2>3 DEF InsertInv
  <2> QED BY <2>2, <2>4
<1>12. TypeOK'
  BY <1>2, <1>5, <1>6 DEF IInv, TypeOK
<1>13. StoreInv'
  BY <1>2 DEF IInv, StoreInv
<1> QED BY <1>9, <1>10, <1>11, <1>12, <1>13 DEF IInv

\* What create_record leaves in the store.
Inserted(t) ==
    /\ task[t].sid \in Ids \ DOMAIN issued
    /\ task[t].held \in Record
    /\ task[t].held.token = task[t].sid
    /\ DOMAIN store' = (DOMAIN store \ Purged(task[t].now)) \cup {task[t].sid}
    /\ store'[task[t].sid] = task[t].held
    /\ \A id \in DOMAIN store \ Purged(task[t].now) : store'[id] = store[id]
    /\ DOMAIN issued' = DOMAIN issued \cup {task[t].sid}
    /\ issued'[task[t].sid] = task[t].held
    /\ \A id \in DOMAIN issued : issued'[id] = issued[id]

LEMMA InsertFacts == ASSUME IInv, NEW t \in Tasks, Insert(t) PROVE Inserted(t)
<1>1. /\ task[t].sid \in Ids \ DOMAIN issued
      /\ task[t].held \in Record
      /\ task[t].held.token = task[t].sid
  BY DEF IInv, InsertInv, Insert
<1>2. DOMAIN store \subseteq DOMAIN issued
  BY DEF IInv, StoreInv
<1> QED BY <1>1, <1>2 DEF Insert, With, Without, Inserted

LEMMA InsertIInv == ASSUME IInv, NEW t \in Tasks, Insert(t) PROVE IInv'
<1>8. Inserted(t)
  BY InsertFacts
<1>1. task' = [task EXCEPT ![t] = Idle] /\ Idle \in Locals /\ Idle.sid = None
      /\ Idle.pc = "idle"
  BY IdleIsLocal DEF Insert, Respond, Idle
<1>2. task'[t] = Idle /\ \A u \in Tasks \ {t} : task'[u] = task[u]
  BY <1>1 DEF IInv, TypeOK
<1>3. UNCHANGED <<clock, up, loggedOut>>
  BY DEF Insert
<1>4. CookieInv(t)' /\ InsertInv(t)'
  BY <1>1, <1>2 DEF CookieInv, InsertInv, SigningIn
<1>5. TypeOK'
  BY <1>1, <1>3, <1>8 DEF IInv, TypeOK, Inserted
<1>6. StoreInv'
  <2>1. StoreInv
    BY DEF IInv
  <2>2. DOMAIN store' \subseteq DOMAIN issued'
    BY <1>8, <2>1 DEF StoreInv, Inserted
  <2>3. \A id \in DOMAIN store' : store'[id] = issued'[id]
    BY <1>8, <2>1 DEF StoreInv, Inserted
  <2>4. \A id \in DOMAIN issued' : issued'[id].token = id
    BY SMTT(20), <1>8, <2>1 DEF StoreInv, Inserted
  <2>5. loggedOut' \subseteq DOMAIN issued' /\ loggedOut' \cap DOMAIN store' = {}
    BY <1>3, <1>8, <2>1 DEF StoreInv, Inserted
  <2> QED BY <2>2, <2>3, <2>4, <2>5 DEF StoreInv
<1>7. ASSUME NEW u \in Tasks \ {t} PROVE CookieInv(u)' /\ InsertInv(u)'
  <2>1. CookieInv(u) /\ InsertInv(u) /\ InsertInv(t) /\ task'[u] = task[u]
        /\ task[t].pc = "insert"
    BY <1>2 DEF IInv, Insert
  <2>2. CookieInv(u)'
    BY <1>3, <1>8, <2>1 DEF CookieInv, Inserted
  <2>3. \A v \in Tasks \ {u} : task[u].pc = "insert" => task'[v].sid # task[u].sid
    BY <1>1, <1>2, <2>1, NoneIsNothing DEF InsertInv
  <2>4. task[u].sid # task[t].sid
    BY <2>1 DEF InsertInv
  <2>5. InsertInv(u)'
    BY <1>3, <1>8, <2>1, <2>3, <2>4 DEF InsertInv, Inserted
  <2> QED BY <2>2, <2>5
<1> QED BY <1>4, <1>5, <1>6, <1>7 DEF IInv

\* Time passes and brokers fail without a handler's doing.
LEMMA EnvironmentIInv ==
    ASSUME IInv, UNCHANGED <<store, issued, loggedOut, task>>,
           clock' \in {clock, clock + 1}, up' \in BOOLEAN
    PROVE  IInv'
<1>1. clock \in Nat /\ clock' \in Nat /\ clock <= clock'
  BY SMTT(20) DEF IInv, TypeOK
<1>2. TypeOK'
  BY <1>1 DEF IInv, TypeOK
<1>3. StoreInv'
  BY DEF IInv, StoreInv
<1>4. ASSUME NEW t \in Tasks PROVE CookieInv(t)' /\ InsertInv(t)'
  <2>1. CookieInv(t) /\ InsertInv(t) /\ task[t] \in Locals
    BY DEF IInv, TypeOK
  <2>2. task[t].whole \in Nat /\ task[t].now \in Nat
    BY <2>1 DEF Locals
  <2>3. CookieInv(t)'
    BY SMTT(20), <1>1, <2>1, <2>2 DEF CookieInv
  <2>4. InsertInv(t)'
    BY SMTT(20), <1>1, <2>1, <2>2 DEF InsertInv
  <2> QED BY <2>3, <2>4
<1> QED BY <1>2, <1>3, <1>4 DEF IInv

LEMMA NextIInv == IInv /\ [Next]_vars => IInv'
<1> SUFFICES ASSUME IInv, [Next]_vars PROVE IInv'
  OBVIOUS
<1>1. CASE UNCHANGED vars
  BY <1>1, EnvironmentIInv DEF vars, IInv, TypeOK
<1>2. CASE Tick
  BY <1>2, EnvironmentIInv DEF Tick, IInv, TypeOK
<1>3. CASE Outage
  BY <1>3, EnvironmentIInv DEF Outage, IInv, TypeOK
<1>4. ASSUME NEW t \in Tasks,
             Arrive(t) \/ ArriveLogin(t) \/ Handle(t) \/ ReadBody(t) \/ Disconnect(t)
      PROVE  IInv'
  BY <1>4, ArriveIInv, ArriveLoginIInv, ReadBodyIInv, DisconnectIInv, GetNowIInv, GetReadIInv,
     GetDropIInv, ReadPageIInv, MutateIInv, LogoutRemoveIInv, ConnectIInv, ProbeIInv, ReadAclsIInv,
     StampIInv, InsertIInv DEF Handle
<1> QED BY <1>1, <1>2, <1>3, <1>4 DEF Next

-----------------------------------------------------------------------------
\* The invariant holds in every reachable state of the server, with any number
\* of requests at a time.
THEOREM Inductive == Spec => []IInv
BY InitIInv, NextIInv, PTL DEF Spec

\* A request reaches the brokers with the record of its own session only.
THEOREM ActsAsItsSessionHolds == Spec => []ActsAsItsSession
<1>1. IInv => ActsAsItsSession
  <2> SUFFICES ASSUME IInv, NEW t \in Tasks, task[t].pc = "broker"
               PROVE  /\ task[t].sid \in DOMAIN issued
                      /\ task[t].held = issued[task[t].sid]
                      /\ task[t].cap \in issued[task[t].sid].caps
                      /\ task[t].kind = "mutation" =>
                           task[t].token = issued[task[t].sid].token
    BY DEF ActsAsItsSession
  <2>1. CookieInv(t) /\ StoreInv
    BY DEF IInv
  <2> QED BY <2>1 DEF CookieInv, StoreInv
<1> QED BY <1>1, Inductive, PTL

\* A session that ended before its request was complete does nothing.
THEOREM EndedSessionsDoNothingHolds == Spec => []EndedSessionsDoNothing
<1>1. IInv => EndedSessionsDoNothing
  BY DEF IInv, CookieInv, EndedSessionsDoNothing
<1> QED BY <1>1, Inductive, PTL

\* An answered logout is final.
THEOREM LogoutIsFinalHolds == Spec => []LogoutIsFinal
<1>1. IInv => LogoutIsFinal
  BY DEF IInv, StoreInv, LogoutIsFinal
<1> QED BY <1>1, Inductive, PTL

\* A record leaves the store when its time is over or its operator logs out.
THEOREM OnlyEndedSessionsLeaveHolds == Spec => OnlyEndedSessionsLeave
<1> DEFINE Ended(id) == \/ store[id].expires <= clock
                        \/ \E t \in Tasks : /\ task[t].kind = "logout"
                                            /\ task[t].sid = id
                                            /\ task[t].token = store[id].token
<1>1. ASSUME IInv, [Next]_vars, NEW id \in DOMAIN store \ DOMAIN store' PROVE Ended(id)
  <2>1. store[id] = issued[id] /\ issued[id].token = id /\ store[id] \in Record
        /\ clock \in Nat
    BY <1>1 DEF IInv, StoreInv, TypeOK
  <2>2. ASSUME NEW t \in Tasks, GetDrop(t) PROVE Ended(id)
    <3>1. id = task[t].sid
      BY <1>1, <2>2 DEF GetDrop, Without
    <3>2. task[t] \in Locals /\ CookieInv(t) /\ task[t].pc = "drop"
      BY <1>1, <2>2 DEF IInv, TypeOK, GetDrop
    <3>3. issued[id].expires <= task[t].now /\ task[t].now <= clock /\ task[t].now \in Nat
      BY <3>1, <3>2 DEF CookieInv, Locals
    <3> QED BY SMTT(20), <2>1, <3>3 DEF Record
  <2>3. ASSUME NEW t \in Tasks, LogoutRemove(t) PROVE Ended(id)
    <3>1. id = task[t].sid
      BY <1>1, <2>3 DEF LogoutRemove, Without
    <3>2. CookieInv(t) /\ task[t].pc = "remove"
      BY <1>1, <2>3 DEF IInv, LogoutRemove
    <3>3. task[t].kind = "logout" /\ task[t].token = id
      BY <3>1, <3>2 DEF CookieInv
    <3> QED BY <2>1, <3>1, <3>3
  <2>4. ASSUME NEW t \in Tasks, Insert(t) PROVE Ended(id)
    <3>1. id \in Purged(task[t].now)
      BY ZenonT(60), <1>1, <2>4, InsertFacts DEF Inserted
    <3>2. task[t] \in Locals /\ InsertInv(t) /\ task[t].pc = "insert"
      BY <1>1, <2>4 DEF IInv, TypeOK, Insert
    <3>3. store[id].expires <= task[t].now /\ task[t].now <= clock /\ task[t].now \in Nat
      BY <2>1, <3>1, <3>2 DEF InsertInv, Purged, IsExpired, Locals, Record
    <3> QED BY SMTT(20), <2>1, <3>3 DEF Record
  <2>5. CASE UNCHANGED store
    BY <1>1, <2>5
  <2> QED
    BY <1>1, <2>2, <2>3, <2>4, <2>5
    DEF Next, Handle, vars, Arrive, ArriveLogin, ReadBody, Disconnect, GetNow, GetRead, ReadPage, Mutate,
        Connect, Probe, ReadAcls, Stamp, Tick, Outage
<1>2. IInv /\ [Next]_vars =>
        [\A id \in DOMAIN store \ DOMAIN store' : Ended(id)]_vars
  BY <1>1
<1> QED BY <1>2, Inductive, PTL DEF Spec, OnlyEndedSessionsLeave

\* A sign-in leaves no record that had expired when it read the clock.
THEOREM SignInPurgesHolds == Spec => SignInPurges
<1>1. ASSUME IInv, [Next]_vars, NEW id \in DOMAIN store' \ DOMAIN store,
             NEW other \in DOMAIN store' \ {id}
      PROVE  store'[id].expires < store'[other].expires + Ttl
  <2>1. ASSUME NEW t \in Tasks, Insert(t) PROVE store'[id].expires < store'[other].expires + Ttl
    <3>1. Inserted(t) /\ InsertInv(t) /\ task[t].pc = "insert" /\ task[t] \in Locals
      BY <1>1, <2>1, InsertFacts DEF IInv, TypeOK, Insert
    <3>2. id = task[t].sid /\ other \in DOMAIN store \ Purged(task[t].now)
      BY <1>1, <3>1 DEF Inserted
    <3>3. store'[id].expires = task[t].now + Ttl /\ store'[other] = store[other]
      BY <3>1, <3>2 DEF Inserted, InsertInv
    <3>4. store[other].expires \in Nat /\ task[t].now \in Nat
      BY <1>1, <3>1, <3>2 DEF IInv, TypeOK, Record, Locals
    <3>5. task[t].now < store[other].expires
      BY SMTT(20), <3>2, <3>4 DEF Purged, IsExpired
    <3> QED BY SMTT(20), <3>3, <3>4, <3>5, TimesAreNaturals
  <2>2. CASE DOMAIN store' \subseteq DOMAIN store
    BY <1>1, <2>2
  <2>3. \A t \in Tasks : GetDrop(t) \/ LogoutRemove(t) => DOMAIN store' \subseteq DOMAIN store
    BY DEF GetDrop, LogoutRemove, Without
  <2> QED
    BY <1>1, <2>1, <2>2, <2>3
    DEF Next, Handle, vars, Arrive, ArriveLogin, ReadBody, Disconnect, GetNow, GetRead, ReadPage, Mutate,
        Connect, Probe, ReadAcls, Stamp, Tick, Outage
<1>2. IInv /\ [Next]_vars =>
        [\A id \in DOMAIN store' \ DOMAIN store :
            \A other \in DOMAIN store' \ {id} :
               store'[id].expires < store'[other].expires + Ttl]_vars
  BY <1>1
<1> QED BY <1>2, Inductive, PTL DEF Spec, SignInPurges

-----------------------------------------------------------------------------
\* The records of the store map to the lives of the ids: every step of the
\* server opens one new id and closes some, closes one, or changes none.
THEOREM OpensOnce == Spec => OpenedOnce
<1>1. Init => Life!Init
  BY DEF Init, Life!Init, LifeOf
<1>2. ASSUME IInv, [Next]_vars PROVE [Life!Next]_LifeOf
  <2>1. DOMAIN store \subseteq DOMAIN issued /\ DOMAIN issued \subseteq Ids
    BY <1>2 DEF IInv, StoreInv, TypeOK
  <2>2. ASSUME NEW id \in DOMAIN issued, store' = Without(store, {id}), UNCHANGED issued
        PROVE  [Life!Next]_LifeOf
    <3>1. CASE id \in DOMAIN store
      <4>1. Life!Close(id)
        BY <2>1, <2>2, <3>1 DEF Life!Close, LifeOf, Without
      <4> QED BY <2>1, <2>2, <4>1 DEF Life!Next
    <3>2. CASE id \notin DOMAIN store
      <4>1. DOMAIN store' = DOMAIN store
        BY <2>2, <3>2 DEF Without
      <4>2. LifeOf' = LifeOf
        BY <2>2, <4>1 DEF LifeOf
      <4> QED BY <4>2
    <3> QED BY <3>1, <3>2
  <2>3. ASSUME NEW t \in Tasks, GetDrop(t) \/ LogoutRemove(t) PROVE [Life!Next]_LifeOf
    <3>1. CookieInv(t) /\ task[t].pc \in {"drop", "remove"}
      BY <1>2, <2>3 DEF IInv, GetDrop, LogoutRemove
    <3>2. task[t].sid \in DOMAIN issued
      BY <3>1 DEF CookieInv
    <3>3. store' = Without(store, {task[t].sid}) /\ UNCHANGED issued
      BY <2>3 DEF GetDrop, LogoutRemove
    <3> QED BY <2>2, <3>2, <3>3
  <2>4. ASSUME NEW t \in Tasks, Insert(t) PROVE [Life!Next]_LifeOf
    <3> DEFINE closed == Purged(task[t].now)
    <3>1. Inserted(t) /\ closed \subseteq DOMAIN store /\ task[t].sid \notin DOMAIN store
      BY <1>2, <2>1, <2>4, InsertFacts DEF Inserted, Purged
    <3>2. LifeOf[task[t].sid] = "new" /\ \A other \in closed : LifeOf[other] = "open"
      BY <2>1, <3>1 DEF LifeOf, Inserted
    <3>3. LifeOf' = [i \in Ids |-> IF i = task[t].sid THEN "open"
                                   ELSE IF i \in closed THEN "closed" ELSE LifeOf[i]]
      BY <2>1, <3>1 DEF LifeOf, Inserted
    <3>4. Life!SignIn(task[t].sid, closed)
      BY <3>2, <3>3 DEF Life!SignIn
    <3>5. task[t].sid \in Ids /\ closed \in SUBSET Ids
      BY <2>1, <3>1 DEF Inserted
    <3> QED BY <3>4, <3>5 DEF Life!Next
  <2>5. CASE UNCHANGED <<store, issued>>
    BY <2>5 DEF LifeOf
  <2> QED
    BY <1>2, <2>3, <2>4, <2>5
    DEF Next, Handle, vars, Arrive, ArriveLogin, ReadBody, Disconnect, GetNow, GetRead, ReadPage, Mutate,
        Connect, Probe, ReadAcls, Stamp, Tick, Outage
<1> QED BY <1>1, <1>2, Inductive, PTL DEF Spec, OpenedOnce, Life!Spec
=============================================================================
